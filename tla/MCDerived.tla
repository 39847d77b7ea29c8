------------------------------ MODULE MCDerived ------------------------------
(* What is computed of the library, for TLC: each behaviour over as much of the *)
(* library as its component is sensitive to.                                    *)
EXTENDS Derived

MCRows == {<<"p", 1, 1>>, <<"p", 1, 2>>, <<"p", 2, 1>>, <<"q", 1, 1>>}
MCMistaken == {<<"p", 1>>}
MCTopics == "p" :> {"x"} @@ "q" :> {"x", "y"} @@ "n" :> {"x"}
MCDifficulty == "p" :> "Easy" @@ "q" :> "Medium" @@ "n" :> "Easy"
MCPatternsOf == "x" :> {1} @@ "y" :> {2, 3} @@ "z" :> {4}
MCAdjacent == {<<1, 2>>, <<3, 4>>}
MCTitle == "p" :> 1 @@ "q" :> 2 @@ "n" :> 7
MCCost == [r \in MCRows |-> 1 :> 2 @@ 2 :> 1]
MCTechniques == [r \in MCRows |-> IF r[2] = 1 THEN {"sorting"} ELSE {}]
MCNested == MCRows \X {1}

Listed(key, title, topics, difficulty) ==
    [key |-> key, title |-> title, topics |-> topics, difficulty |-> difficulty,
     local |-> FALSE]

\* "p1" is problem p under a slug of its own.
MCPublished ==
    {Listed("p1", 1, {"x"}, "Easy"), Listed("q", 2, {"x", "y"}, "Medium"),
     Listed("s", 3, {"x", "y"}, "Medium"), Listed("t", 4, {"y"}, "Hard"),
     Listed("u", 5, {"z"}, "Unknown"), Listed("v", 6, {"z"}, "Easy")}

Named == ({connected} \cup {Owner(r) : r \in Stored}) \cap Accounts

\* Rows whose code is replaced: one is enough.
Replaced == {r \in Stored : library[r].text > 1}

OneOwner == \A q, r \in Stored : Owner(q) = Owner(r)

\* The share of the library that a part is run on.
Within ==
    CASE part = "memory" ->
           /\ \A r \in Stored : Accepted(r) /\ library[r].day = 1
           /\ Stored \subseteq {<<"p", 1, 1>>, <<"p", 2, 1>>}
           /\ Replaced \subseteq {<<"p", 1, 1>>}
      [] part = "analytics" ->
           /\ Cardinality(Named) <= 1
           /\ Cardinality(Stored) <= IF kept["n"] = 0 /\ OneOwner THEN 3 ELSE 2
           /\ Replaced = {}
      [] part = "learning" ->
           /\ Cardinality(Named) <= 1 /\ today <= 2
           /\ <<"p", 1, 2>> \notin Stored
           /\ Replaced = {}
      [] part = "collective" ->
           /\ Cardinality(Named) <= 1 /\ today <= 2
           /\ <<"p", 1, 2>> \notin Stored
           /\ Replaced \subseteq {<<"p", 1, 1>>}

MCInit == DerivedInit /\ (part # "learning" => saved = NoList)
MCNext == DerivedNext /\ Within'

MCSpec == MCInit /\ [][MCNext]_<<derivedVars, part>>

Symmetry == Permutations(Accounts)
=============================================================================
