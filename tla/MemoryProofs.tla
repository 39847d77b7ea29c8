---------------------------- MODULE MemoryProofs ----------------------------
(******************************************************************************)
(* Proofs about the library's views and the semantic memory, for any library, *)
(* any accounts and any number of processes.                                  *)
(******************************************************************************)
EXTENDS MemoryEngine, FiniteSetTheorems, TLAPS

USE LibraryAssumption, EngineAssumption

LEMMA RowParts ==
  ASSUME NEW r \in Rows
  PROVE  ProblemOf(r) \in Problems
  BY DEF ProblemOf

-----------------------------------------------------------------------------
(* Types                                                                      *)

\* What storing, rewriting and connecting leave.
LEMMA LibraryTyped ==
  ASSUME LibraryTypeOK, LibraryNext
  PROVE  LibraryTypeOK'
<1> USE DEF LibraryTypeOK
<1>1. ASSUME NEW r \in Rows, NEW s \in Entered, Store(r, s) PROVE LibraryTypeOK'
  BY <1>1 DEF Store, Entered
<1>2. ASSUME NEW r \in Rows, Rewrite(r) PROVE LibraryTypeOK'
  <2>1. library[r] \in Submission
    BY <1>2 DEF Rewrite, OwnedBy, Stored
  <2>2. [library[r] EXCEPT !.text = @ + 1] \in Submission
    BY <1>2, <2>1 DEF Rewrite, Submission
  <2> QED BY <1>2, <2>2 DEF Rewrite
<1>3. ASSUME NEW a \in Accounts \cup {Nobody}, Connect(a) PROVE LibraryTypeOK'
  BY <1>3 DEF Connect
<1> QED BY <1>1, <1>2, <1>3 DEF LibraryNext

LEMMA StoredTyped ==
  ASSUME LibraryTypeOK, NEW r \in Stored
  PROVE  r \in Rows /\ library[r] \in Submission
  BY DEF LibraryTypeOK, Stored

LEMMA ExtractTyped ==
  ASSUME LibraryTypeOK, NEW R \in SUBSET Stored, NEW o \in Owners
  PROVE  Extract(R, o) \subseteq Document
<1>1. \A r \in R : /\ r \in Rows /\ ProblemOf(r) \in Problems
                   /\ library[r].text \in 0..MaxText
  BY StoredTyped, RowParts DEF Submission
<1>2. 0 \in 0..MaxText
  OBVIOUS
<1>3. \A r \in R : <<"problem", ProblemOf(r)>> \in DocumentIds
  BY <1>1 DEF DocumentIds
<1>4. \A r \in R : \A kind \in {"attempt", "mistake"} :
          <<kind, AttemptOf(r)>> \in DocumentIds
  BY <1>1 DEF DocumentIds
<1>5. \A r \in R : \A kind \in {"submission", "analysis"} :
          <<kind, r>> \in DocumentIds
  BY <1>1 DEF DocumentIds
<1>6. ASSUME NEW d \in Extract(R, o) PROVE d \in Document
  <2>1. CASE \E r \in R : d = [id |-> <<"problem", ProblemOf(r)>>, hash |-> 0, owner |-> o]
    BY <1>2, <1>3, <2>1 DEF Document
  <2>2. CASE \E r \in R : \E kind \in {"attempt", "mistake"} :
               d = [id |-> <<kind, AttemptOf(r)>>, hash |-> 0, owner |-> o]
    <3>1. PICK r \in R, kind \in {"attempt", "mistake"} :
              d = [id |-> <<kind, AttemptOf(r)>>, hash |-> 0, owner |-> o]
      BY <2>2
    <3>2. <<kind, AttemptOf(r)>> \in DocumentIds
      BY <1>4
    <3> QED BY <1>2, <3>1, <3>2 DEF Document
  <2>3. CASE \E r \in R : \E kind \in {"submission", "analysis"} :
               d = [id |-> <<kind, r>>, hash |-> library[r].text, owner |-> o]
    <3>1. PICK r \in R, kind \in {"submission", "analysis"} :
              d = [id |-> <<kind, r>>, hash |-> library[r].text, owner |-> o]
      BY <2>3
    <3>2. <<kind, r>> \in DocumentIds
      BY <1>5
    <3> QED BY <1>1, <3>1, <3>2 DEF Document
  <2> QED BY <1>6, <2>1, <2>2, <2>3 DEF Extract
<1> QED BY <1>6

LEMMA OwnedStored ==
  ASSUME NEW o
  PROVE  OwnedBy(o) \subseteq Stored
  BY DEF OwnedBy

LEMMA DocumentsTyped ==
  ASSUME LibraryTypeOK, NEW account \in Accounts \cup {Nobody}
  PROVE  Documents(account) \subseteq Document
<1>1. DocsOwner(account) \in Owners
  BY DEF DocsOwner, Owners
<1>2. FilterForMemory(account) \in SUBSET Stored
  BY OwnedStored DEF FilterForMemory
<1> QED BY <1>1, <1>2, ExtractTyped DEF Documents

\* A document is known by its id: its text is that of the problem, the attempt or
\* the row it tells of.
LEMMA OneText ==
  ASSUME NEW account, NEW c \in Documents(account), NEW d \in Documents(account),
         c.id = d.id
  PROVE  c = d
<1> DEFINE R == FilterForMemory(account)
           o == DocsOwner(account)
<1>1. c \in Extract(R, o) /\ d \in Extract(R, o)
  BY DEF Documents
<1> HIDE DEF R, o
<1> DEFINE Form(x) ==
      \/ \E r \in R : x = [id |-> <<"problem", ProblemOf(r)>>, hash |-> 0, owner |-> o]
      \/ \E r \in R : x = [id |-> <<"attempt", AttemptOf(r)>>, hash |-> 0, owner |-> o]
      \/ \E r \in R : x = [id |-> <<"mistake", AttemptOf(r)>>, hash |-> 0, owner |-> o]
      \/ \E r \in R : x = [id |-> <<"submission", r>>, hash |-> library[r].text, owner |-> o]
      \/ \E r \in R : x = [id |-> <<"analysis", r>>, hash |-> library[r].text, owner |-> o]
<1>2. Form(c) /\ Form(d)
  BY <1>1 DEF Extract
<1> QED BY <1>2

LEMMA AddedTyped ==
  ASSUME NEW V \in SUBSET Vector, NEW D \in SUBSET Document,
         process \in 1..MaxStarts,
         \A u, v \in V : u.id = v.id => u = v,
         \A c, d \in D : c.id = d.id => c = d
  PROVE  /\ Added(V, D) \subseteq Vector
         /\ \A u, v \in Added(V, D) : u.id = v.id => u = v
<1>1. \A d \in D : [id |-> d.id, hash |-> d.hash, owner |-> d.owner,
                    by |-> process] \in Vector
  BY DEF Document, Vector
<1> QED BY <1>1 DEF Added

LEMMA IndexTyped ==
  ASSUME EngineTypeOK, NEW force \in BOOLEAN, IndexAll(force)
  PROVE  /\ docCache' \subseteq Document
         /\ index' \subseteq Vector /\ indexFile' \subseteq Vector
         /\ \A u, v \in index' : u.id = v.id => u = v
         /\ \A u, v \in indexFile' : u.id = v.id => u = v
         /\ moved' \in BOOLEAN /\ pending' \in BOOLEAN
         /\ rebuiltFor' \in Accounts \cup {Nobody}
<1> DEFINE docs == Documents(connected)
           new == IF force THEN docs ELSE {d \in docs : ~IsIndexed(d)}
           old == IF force THEN {} ELSE index
<1>1. docs \subseteq Document
  BY DocumentsTyped DEF EngineTypeOK, LibraryTypeOK
<1>2. new \subseteq docs
  OBVIOUS
<1>3. \A c, d \in docs : c.id = d.id => c = d
  BY OneText
<1>4. /\ index' = Added(old, new) /\ indexFile' = index' /\ docCache' = docs
      /\ moved' = FALSE /\ pending' = FALSE
      /\ rebuiltFor' = IF force THEN connected ELSE rebuiltFor
  BY DEF IndexAll
<1>5. old \subseteq Vector /\ \A u, v \in old : u.id = v.id => u = v
  BY DEF EngineTypeOK
<1>6. process \in 1..MaxStarts /\ connected \in Accounts \cup {Nobody}
      /\ rebuiltFor \in Accounts \cup {Nobody}
  BY DEF EngineTypeOK, LibraryTypeOK
<1> HIDE DEF docs, new, old
<1>7. new \in SUBSET Document /\ old \in SUBSET Vector
  BY <1>1, <1>2, <1>5
<1>8. \A c, d \in new : c.id = d.id => c = d
  BY <1>2, <1>3
<1>9. Added(old, new) \subseteq Vector
      /\ \A u, v \in Added(old, new) : u.id = v.id => u = v
  BY <1>5, <1>6, <1>7, <1>8, AddedTyped
<1> QED BY <1>1, <1>4, <1>6, <1>9

\* memory/service.py, memory/index.py: the cached documents, the vectors, their file
\* and a search in progress stay within their types, with one vector to a document.
THEOREM EngineTypeCorrect == EngineSpec => []EngineTypeOK
<1> DEFINE Searches == [at : {"idle", "submissions", "knowledge", "done"},
                        of : Accounts \cup {Nobody}, found : SUBSET Owners,
                        switched : BOOLEAN]
<1>0. NoSearch \in Searches
  BY DEF NoSearch
<1>1. EngineInit => EngineTypeOK
  <2> SUFFICES ASSUME EngineInit PROVE EngineTypeOK
    OBVIOUS
  <2>1. LibraryTypeOK BY DEF EngineInit, LibraryInit, LibraryTypeOK
  <2>2. process \in 1..MaxStarts BY DEF EngineInit
  <2> QED BY <1>0, <2>1, <2>2 DEF EngineInit, EngineTypeOK
<1>2. EngineTypeOK /\ [EngineNext]_<<libraryVars, engineVars>> => EngineTypeOK'
  <2> SUFFICES ASSUME EngineTypeOK, [EngineNext]_<<libraryVars, engineVars>>
               PROVE  EngineTypeOK'
    OBVIOUS
  <2> USE DEF EngineTypeOK
  <2>0. LibraryTypeOK /\ connected \in Accounts \cup {Nobody}
    BY DEF LibraryTypeOK
  <2>1. ASSUME UNCHANGED <<libraryVars, process, search>>, NEW force \in BOOLEAN,
               IndexAll(force)
        PROVE  EngineTypeOK'
    BY <2>0, <2>1, IndexTyped DEF libraryVars, LibraryTypeOK
  <2>2. Ensured(connected) \subseteq Document
    BY <2>0, DocumentsTyped DEF Ensured
  <2>3. ASSUME MemorySearch
        PROVE  /\ docCache' \subseteq Document
               /\ index' \subseteq Vector /\ indexFile' \subseteq Vector
               /\ \A u, v \in index' : u.id = v.id => u = v
               /\ \A u, v \in indexFile' : u.id = v.id => u = v
               /\ moved' \in BOOLEAN /\ pending' \in BOOLEAN
               /\ rebuiltFor' \in Accounts \cup {Nobody}
               /\ UNCHANGED <<libraryVars, process>>
    <3>1. CASE IndexAll(FALSE) BY <2>3, <3>1, IndexTyped DEF MemorySearch
    <3>2. CASE /\ Fill(Ensured(connected))
               /\ UNCHANGED <<index, indexFile, rebuiltFor, pending>>
      BY <2>2, <2>3, <3>2 DEF Fill, MemorySearch
    <3> QED BY <2>3, <3>1, <3>2 DEF MemorySearch
  <2>4. \A R \in SUBSET ListProblems(connected) : FoundOf(R) \subseteq Owners
    BY <2>0, StoredTyped, OwnedStored DEF ListProblems, FoundOf, Owner, Submission
  <2>5. CASE LibraryMoves
    BY <2>0, <2>5, LibraryTyped DEF LibraryMoves
  <2>6. CASE MemoryIndexAll BY <2>1, <2>6 DEF MemoryIndexAll
  <2>7. CASE SearchMemory
    BY <2>0, <2>3, <2>7 DEF SearchMemory, libraryVars, LibraryTypeOK
  <2>8. CASE MemoryStats
    BY <2>0, <2>2, <2>8 DEF MemoryStats, Fill, libraryVars, LibraryTypeOK
  <2>9. CASE SearchProblems
    BY <2>0, <2>4, <2>9 DEF SearchProblems, libraryVars, LibraryTypeOK
  <2>10. CASE SearchSubmissions
    BY ZenonT(30), <2>0, <2>4, <2>10 DEF SearchSubmissions, libraryVars, LibraryTypeOK
  <2>11. CASE SearchKnowledge
    <3>1. Retrieved(Ensured(connected), connected) \subseteq Document
      BY <2>2 DEF Retrieved
    <3>2. {d.owner : d \in Retrieved(Ensured(connected), connected)} \subseteq Owners
      BY <3>1 DEF Document
    <3>3. search' \in [at : {"idle", "submissions", "knowledge", "done"},
                       of : Accounts \cup {Nobody}, found : SUBSET Owners,
                       switched : BOOLEAN]
      <4>1. PICK D \in SUBSET {d.owner : d \in Retrieved(Ensured(connected), connected)} :
                search' = [search EXCEPT !.at = "done", !.found = @ \cup D]
        BY <2>11 DEF SearchKnowledge
      <4>2. D \subseteq Owners BY <3>2
      <4> QED BY <4>1, <4>2
    <3>4. LibraryTypeOK' /\ process' \in 1..MaxStarts
      BY <2>0, <2>3, <2>11 DEF SearchKnowledge, libraryVars, LibraryTypeOK
    <3> QED BY <2>3, <2>11, <3>3, <3>4 DEF SearchKnowledge
  <2>12. CASE SearchNothing
    BY <2>0, <2>12 DEF SearchNothing, libraryVars, LibraryTypeOK
  <2>13. CASE Restart
    <3>1. LibraryTypeOK' BY <2>0, <2>13 DEF Restart, libraryVars, LibraryTypeOK
    <3>2. process' \in 1..MaxStarts BY <2>13 DEF Restart
    <3>3. indexFile' = indexFile \/ indexFile' = {} BY <2>13 DEF Restart
    <3>4. index' = indexFile' \/ index' = {} BY <2>13 DEF Restart
    <3>5. indexFile' \subseteq Vector
          /\ \A u, v \in indexFile' : u.id = v.id => u = v
      BY <3>3
    <3>6. index' \subseteq Vector /\ \A u, v \in index' : u.id = v.id => u = v
      BY <3>4, <3>5
    <3> QED BY <1>0, <2>13, <3>1, <3>2, <3>5, <3>6 DEF Restart
  <2>14. CASE UNCHANGED <<libraryVars, engineVars>>
    BY <2>0, <2>14 DEF libraryVars, engineVars, LibraryTypeOK
  <2> QED BY <2>5, <2>6, <2>7, <2>8, <2>9, <2>10, <2>11, <2>12, <2>13, <2>14
       DEF EngineNext
<1> QED BY <1>1, <1>2, PTL DEF EngineSpec

-----------------------------------------------------------------------------
(* The views                                                                  *)

\* core/service.py, analytics_service.py, memory/service.py: while an account is
\* connected, all the reads show exactly its rows, whatever the library holds.
THEOREM ViewsAgree == EngineSpec => []ConnectedViewsAgree
<1>1. EngineTypeOK => ConnectedViewsAgree
  <2> SUFFICES ASSUME EngineTypeOK, connected # Nobody PROVE ConnectedViewsAgree
    BY DEF ConnectedViewsAgree
  <2> DEFINE own == OwnedBy(connected)
  <2>1. connected \in Accounts
    BY DEF EngineTypeOK, LibraryTypeOK
  <2>2. \A r \in own : r \in Rows /\ r \in Stored /\ ProblemOf(r) \in Problems
    BY RowParts DEF OwnedBy, Stored
  <2>3. ListProblems(connected) = own /\ FilterForMemory(connected) = own
        /\ ScopeForAnalytics(connected) = own /\ SqlFilter(connected) = own
    <3>1. ListProblems(connected) = own BY DEF ListProblems
    <3>2. FilterForMemory(connected) = own BY DEF FilterForMemory
    <3>3. SqlFilter(connected) = own BY DEF SqlFilter
    <3>4. ScopeForAnalytics(connected) = own BY DEF ScopeForAnalytics
    <3> QED BY <3>1, <3>2, <3>3, <3>4
  <2>4. TimelineRows(connected) = own
    BY <2>3 DEF TimelineRows
  <2>5. GraphRows(connected) = own
    BY <2>3 DEF GraphRows, OwnedBy
  <2>6. \A p \in Problems : GetProblem(p, connected) = own \cap Of(p)
                            /\ PreviousApproaches(p, connected) = own \cap Of(p)
    BY DEF GetProblem, PreviousApproaches
  <2>7. \A r \in Rows : GetSubmission(r, Nobody) = own \cap {r}
    BY DEF GetSubmission
  <2> QED BY <2>3, <2>4, <2>5, <2>6, <2>7 DEF ConnectedViewsAgree, Shows
<1> QED BY <1>1, EngineTypeCorrect, PTL

\* There are as many providers as a number says, and none only without rows of one.
LEMMA ProvidersCounted ==
  /\ IsFiniteSet(Providers) /\ Cardinality(Providers) \in Nat
  /\ Cardinality(Providers) = 0 => Stored \subseteq OwnedBy(Manual)
<1> DEFINE F == [r \in Stored |-> Owner(r)]
           S == {Owner(r) : r \in Stored}
<1>1. IsFiniteSet(Stored)
  BY FS_Subset DEF Stored
<1>2. F \in Surjection(Stored, S)
  BY DEF Surjection
<1>3. IsFiniteSet(S)
  <2> HIDE DEF F, S
  <2> QED BY <1>1, <1>2, FS_Surjection
<1>4. Providers \subseteq S
  BY DEF Providers
<1>5. IsFiniteSet(Providers)
  <2> HIDE DEF S
  <2> QED BY <1>3, <1>4, FS_Subset
<1>6. Cardinality(Providers) \in Nat /\ (Cardinality(Providers) = 0 <=> Providers = {})
  BY <1>5, FS_CardinalityType, FS_EmptySet
<1>7. Providers = {} => Stored \subseteq OwnedBy(Manual)
  BY DEF Providers, OwnedBy
<1> QED BY <1>5, <1>6, <1>7

\* The same without a connection: what each read shows of a problem with local rows
\* only, with a provider's only, and with both; and the analytics of one account at
\* most.
THEOREM DisconnectedExact == EngineSpec => []DisconnectedViewsExact
<1>1. EngineTypeOK => DisconnectedViewsExact
  <2> SUFFICES ASSUME EngineTypeOK, connected = Nobody PROVE DisconnectedViewsExact
    BY DEF DisconnectedViewsExact
  <2> DEFINE local == OwnedBy(Manual)
             list(p) == ListProblems(Nobody) \cap Of(p)
             memory(p) == FilterForMemory(Nobody) \cap Of(p)
  <2>1. FilterForMemory(Nobody) = local
    BY DEF FilterForMemory
  <2>2. ASSUME NEW p \in Problems
        PROVE  /\ Of(p) \subseteq local => list(p) = Of(p)
               /\ ~(Of(p) \subseteq local) => list(p) = {}
    BY DEF ListProblems, Of
  <2>3. ASSUME NEW p \in Problems
        PROVE  GetProblem(p, Nobody) =
                 IF Of(p) \cap local # {} THEN Of(p) \cap local ELSE Of(p)
    BY DEF GetProblem
  <2>4. ASSUME NEW p \in Problems
        PROVE  History(p).solution \subseteq local \/ Of(p) \cap local = {}
    <3>1. History(p).solution = LatestAccepted(GetProblem(p, Nobody))
      BY DEF History
    <3>2. LatestAccepted(GetProblem(p, Nobody)) \subseteq GetProblem(p, Nobody)
      BY DEF LatestAccepted, LatestIn
    <3> HIDE DEF local
    <3> QED BY <3>1, <3>2, <2>3
  <2>5. ASSUME NEW p \in Problems
        PROVE  /\ Of(p) \subseteq local =>
                      {list(p), memory(p), GetProblem(p, Nobody)} = {Of(p)}
               /\ Of(p) \cap local = {} =>
                      list(p) = {} /\ memory(p) = {} /\ GetProblem(p, Nobody) = Of(p)
               /\ ~(Of(p) \subseteq local) /\ Of(p) \cap local # {} =>
                      /\ list(p) = {}
                      /\ memory(p) = Of(p) \cap local
                      /\ GetProblem(p, Nobody) = Of(p) \cap local
    <3>1. memory(p) = Of(p) \cap local
      BY <2>1
    <3> HIDE DEF local, list, memory
    <3>2. Of(p) \subseteq local =>
             Of(p) \cap local = Of(p) /\ list(p) = Of(p) /\ GetProblem(p, Nobody) = Of(p)
      BY <2>2, <2>3
    <3>3. Of(p) \cap local = {} => list(p) = {}
      BY <2>2
    <3> QED BY <3>1, <3>2, <3>3, <2>2, <2>3
  <2>6. GraphRows(Nobody) = ListProblems(Nobody)
    BY DEF GraphRows, ListProblems
  <2>7. \A r \in Rows : GetSubmission(r, Nobody) = local \cap {r}
    BY DEF GetSubmission
  <2>8. \/ ScopeForAnalytics(Nobody) \subseteq local
        \/ \E a \in Accounts :
               Providers = {a} /\ ScopeForAnalytics(Nobody) = OwnedBy(a)
    <3>1. CASE Cardinality(Providers) > 1
      BY <3>1, ProvidersCounted DEF ScopeForAnalytics
    <3>2. CASE Cardinality(Providers) = 0
      BY <3>2, ProvidersCounted DEF ScopeForAnalytics
    <3>3. CASE Cardinality(Providers) = 1
      <4>1. IsFiniteSet(Providers)
        BY ProvidersCounted
      <4>2. PICK a : Providers = {a}
        BY <3>3, <4>1, FS_Singleton
      <4>3. a \in Accounts
        BY <4>2 DEF Providers, Owner, Stored, EngineTypeOK, LibraryTypeOK, Submission, Owners
      <4>4. ScopeForAnalytics(Nobody) = UNION {OwnedBy(o) : o \in Providers}
        BY <3>3 DEF ScopeForAnalytics
      <4>5. ScopeForAnalytics(Nobody) = OwnedBy(a)
        <5> HIDE DEF ScopeForAnalytics
        <5> QED BY <4>2, <4>4
      <4> QED BY <4>2, <4>3, <4>5
    <3> QED BY <3>1, <3>2, <3>3, ProvidersCounted
  <2> HIDE DEF local, list, memory
  <2>9. \A p \in Problems :
           /\ Of(p) \subseteq local =>
                  {list(p), memory(p), GetProblem(p, Nobody)} = {Of(p)}
           /\ Of(p) \cap local = {} =>
                  list(p) = {} /\ memory(p) = {} /\ GetProblem(p, Nobody) = Of(p)
           /\ ~(Of(p) \subseteq local) /\ Of(p) \cap local # {} =>
                  /\ list(p) = {}
                  /\ memory(p) = Of(p) \cap local
                  /\ GetProblem(p, Nobody) = Of(p) \cap local
           /\ History(p).solution \subseteq local \/ Of(p) \cap local = {}
    BY <2>4, <2>5
  <2> USE DEF local, list, memory
  <2> QED BY <2>6, <2>7, <2>8, <2>9, Zenon DEF DisconnectedViewsExact
<1> QED BY <1>1, EngineTypeCorrect, PTL

-----------------------------------------------------------------------------
(* The cache                                                                  *)

LEMMA DocumentsOwned ==
  ASSUME NEW account, NEW d \in Documents(account)
  PROVE  d.owner = DocsOwner(account)
  BY DEF Documents, Extract

LEMMA AllRetrieved ==
  ASSUME NEW account
  PROVE  Retrieved(Documents(account), account) = Documents(account)
  BY DocumentsOwned DEF Retrieved, DocsOwner

\* A cache that nothing has moved under holds the documents of the account, or
\* nothing yet.
CacheFresh == ~moved => docCache \in {{}, Documents(connected)}

LEMMA FreshWhenFilled ==
  ASSUME CacheFresh, Fill(Ensured(connected)), UNCHANGED libraryVars
  PROVE  CacheFresh'
<1>1. Documents(connected)' = Documents(connected)
  BY DEF libraryVars, Documents, Extract, FilterForMemory, OwnedBy, Stored, Owner,
         DocsOwner
<1> QED BY <1>1 DEF CacheFresh, Fill, Ensured

LEMMA FreshWhenIndexed ==
  ASSUME NEW force \in BOOLEAN, IndexAll(force), UNCHANGED libraryVars
  PROVE  CacheFresh'
<1>1. Documents(connected)' = Documents(connected)
  BY DEF libraryVars, Documents, Extract, FilterForMemory, OwnedBy, Stored, Owner,
         DocsOwner
<1> QED BY <1>1 DEF CacheFresh, IndexAll

\* memory/service.py: unless the library or the connection has changed since the
\* cache was filled, a search ranks the account's documents, all and no others.
THEOREM AnswersAreCurrent == EngineSpec => []AnswersCurrent
<1>1. EngineInit => CacheFresh
  BY DEF EngineInit, CacheFresh
<1>2. CacheFresh /\ [EngineNext]_<<libraryVars, engineVars>> => CacheFresh'
  <2> SUFFICES ASSUME CacheFresh, [EngineNext]_<<libraryVars, engineVars>>
               PROVE  CacheFresh'
    OBVIOUS
  <2>1. UNCHANGED libraryVars => Documents(connected)' = Documents(connected)
    BY DEF libraryVars, Documents, Extract, FilterForMemory, OwnedBy, Stored, Owner,
           DocsOwner
  <2>2. UNCHANGED <<libraryVars, docCache, moved>> => CacheFresh'
    BY <2>1 DEF CacheFresh
  <2>3. MemorySearch => CacheFresh'
    BY FreshWhenFilled, FreshWhenIndexed DEF MemorySearch
  <2>4. CASE LibraryMoves BY <2>4 DEF LibraryMoves, CacheFresh
  <2>5. CASE MemoryIndexAll BY <2>5, FreshWhenIndexed DEF MemoryIndexAll
  <2>6. CASE SearchMemory BY <2>3, <2>6 DEF SearchMemory
  <2>7. CASE MemoryStats BY <2>7, FreshWhenFilled DEF MemoryStats
  <2>8. CASE SearchProblems BY <2>2, <2>8 DEF SearchProblems
  <2>9. CASE SearchSubmissions BY <2>2, <2>9 DEF SearchSubmissions
  <2>10. CASE SearchKnowledge BY <2>3, <2>10 DEF SearchKnowledge
  <2>11. CASE SearchNothing BY <2>2, <2>11 DEF SearchNothing
  <2>12. CASE Restart BY <2>12 DEF Restart, CacheFresh
  <2>13. CASE UNCHANGED <<libraryVars, engineVars>>
    BY <2>2, <2>13 DEF engineVars
  <2> QED BY <2>4, <2>5, <2>6, <2>7, <2>8, <2>9, <2>10, <2>11, <2>12, <2>13
       DEF EngineNext
<1>3. CacheFresh => AnswersCurrent
  BY AllRetrieved DEF CacheFresh, AnswersCurrent, Ensured
<1> QED BY <1>1, <1>2, <1>3, PTL DEF EngineSpec

-----------------------------------------------------------------------------
(* global_search                                                              *)

\* Between its reads, a search during which the account stays has found rows and
\* documents of that account.
SearchOwn ==
    search.at # "idle" /\ ~search.switched /\ search.of # Nobody =>
        connected = search.of /\ search.found \subseteq {search.of}

LEMMA FoundOwn ==
  ASSUME connected # Nobody, NEW R \in SUBSET ListProblems(connected)
  PROVE  FoundOf(R) \subseteq {connected}
  BY DEF ListProblems, OwnedBy, FoundOf

\* core/service.py: a global_search during which the account stays connected shows
\* nothing of another owner, although its parts are read one after the other.
THEOREM SearchStays == EngineSpec => []SearchStaysInAccount
<1>1. EngineInit => SearchOwn
  BY DEF EngineInit, SearchOwn, NoSearch
<1>2. EngineTypeOK /\ SearchOwn /\ [EngineNext]_<<libraryVars, engineVars>>
        => SearchOwn'
  <2> SUFFICES ASSUME EngineTypeOK, SearchOwn,
                      [EngineNext]_<<libraryVars, engineVars>>
               PROVE  SearchOwn'
    OBVIOUS
  <2>0. search \in [at : {"idle", "submissions", "knowledge", "done"},
                    of : Accounts \cup {Nobody}, found : SUBSET Owners,
                    switched : BOOLEAN]
    BY DEF EngineTypeOK
  <2>1. UNCHANGED <<libraryVars, search>> => SearchOwn'
    BY DEF SearchOwn, libraryVars
  <2>2. CASE LibraryMoves
    BY <2>0, <2>2 DEF LibraryMoves, SearchOwn
  <2>3. CASE MemoryIndexAll BY <2>1, <2>3 DEF MemoryIndexAll
  <2>4. CASE SearchMemory BY <2>1, <2>4 DEF SearchMemory, MemorySearch
  <2>5. CASE MemoryStats BY <2>1, <2>5 DEF MemoryStats
  <2>6. CASE SearchProblems
    <3>1. PICK R \in SUBSET ListProblems(connected) :
              search' = [at |-> "submissions", of |-> connected,
                         found |-> FoundOf(R), switched |-> FALSE]
      BY <2>6 DEF SearchProblems
    <3>2. connected' = connected BY <2>6 DEF SearchProblems, libraryVars
    <3> QED BY <3>1, <3>2, FoundOwn DEF SearchOwn
  <2>7. CASE SearchSubmissions
    <3>1. PICK R \in SUBSET ListProblems(connected) :
              search' = [search EXCEPT !.at = "knowledge",
                                       !.found = @ \cup FoundOf(R)]
      BY <2>7 DEF SearchSubmissions
    <3>2. connected' = connected /\ search.at = "submissions"
      BY <2>7 DEF SearchSubmissions, libraryVars
    <3>3. search'.of = search.of /\ search'.switched = search.switched
          /\ search'.found = search.found \cup FoundOf(R)
      BY <2>0, <3>1
    <3> QED BY <3>2, <3>3, FoundOwn DEF SearchOwn
  <2>8. CASE SearchKnowledge
    <3>1. PICK D \in SUBSET {d.owner : d \in Retrieved(Ensured(connected), connected)} :
              search' = [search EXCEPT !.at = "done", !.found = @ \cup D]
      BY <2>8 DEF SearchKnowledge
    <3>2. connected' = connected /\ search.at = "knowledge"
      BY <2>8 DEF SearchKnowledge, MemorySearch, libraryVars
    <3>3. search'.of = search.of /\ search'.switched = search.switched
          /\ search'.found = search.found \cup D
      BY <2>0, <3>1
    <3>4. connected # Nobody => D \subseteq {connected}
      BY DEF Retrieved
    <3> QED BY <3>2, <3>3, <3>4 DEF SearchOwn
  <2>9. CASE SearchNothing
    BY <2>0, <2>9 DEF SearchNothing, SearchOwn, libraryVars
  <2>10. CASE Restart BY <2>10 DEF Restart, SearchOwn, NoSearch
  <2>11. CASE UNCHANGED <<libraryVars, engineVars>>
    BY <2>1, <2>11 DEF engineVars
  <2> QED BY <2>2, <2>3, <2>4, <2>5, <2>6, <2>7, <2>8, <2>9, <2>10, <2>11
       DEF EngineNext
<1>3. SearchOwn => SearchStaysInAccount
  BY DEF SearchOwn, SearchStaysInAccount
<1> QED BY <1>1, <1>2, <1>3, EngineTypeCorrect, PTL DEF EngineSpec

-----------------------------------------------------------------------------
(* Vectors                                                                    *)

VectorOf(d) == [id |-> d.id, hash |-> d.hash, owner |-> d.owner, by |-> process]

\* After a forced rebuild for the account still connected, every vector is of this
\* process and that account; and each document has its own once nothing is pending.
IndexOwn ==
    rebuiltFor # Nobody =>
        /\ rebuiltFor = connected
        /\ \A v \in index : v.by = process /\ v.owner = connected
        /\ ~pending => \A d \in Documents(connected) : VectorOf(d) \in index

\* An index_all() leaves each document of the account its vector: an entry under a
\* document's id and text is of this process and this account.
LEMMA IndexKept ==
  ASSUME EngineTypeOK, IndexOwn, NEW force \in BOOLEAN, IndexAll(force),
         UNCHANGED <<libraryVars, process>>
  PROVE  IndexOwn'
<1> DEFINE docs == Documents(connected)
           new == IF force THEN docs ELSE {d \in docs : ~IsIndexed(d)}
           old == IF force THEN {} ELSE index
<1>1. docs' = docs
  BY DEF libraryVars, Documents, Extract, FilterForMemory, OwnedBy, Stored, Owner,
         DocsOwner
<1>2. /\ index' = Added(old, new)
      /\ rebuiltFor' = IF force THEN connected ELSE rebuiltFor
      /\ connected' = connected /\ process' = process
  BY DEF IndexAll, libraryVars
<1>3. SUFFICES ASSUME rebuiltFor' # Nobody
               PROVE  /\ rebuiltFor' = connected
                      /\ \A v \in index' : v.by = process /\ v.owner = connected
                      /\ \A d \in docs : VectorOf(d) \in index'
  BY <1>1, <1>2 DEF IndexOwn, VectorOf
<1>4. rebuiltFor' = connected /\ connected # Nobody
  BY <1>2, <1>3 DEF IndexOwn
<1>5. \A v \in old : v.by = process /\ v.owner = connected
  BY <1>2, <1>3 DEF IndexOwn
<1>6. \A d \in docs : d.owner = connected
  BY <1>4, DocumentsOwned DEF DocsOwner
<1>7. \A c, d \in docs : c.id = d.id => c = d
  BY OneText
<1>8. new \subseteq docs
  OBVIOUS
<1>9. \A d \in docs \ new : \E v \in old : v.id = d.id /\ v.hash = d.hash
  BY DEF IsIndexed
<1>10. old \subseteq Vector /\ docs \subseteq Document
  BY DocumentsTyped DEF EngineTypeOK, LibraryTypeOK
<1> HIDE DEF docs, new, old
<1>11. \A v \in index' : v.by = process /\ v.owner = connected
  BY <1>2, <1>5, <1>6, <1>8 DEF Added
<1>12. ASSUME NEW d \in docs PROVE VectorOf(d) \in index'
  <2>1. CASE d \in new BY <1>2, <2>1 DEF Added, VectorOf
  <2>2. CASE d \notin new
    <3>1. PICK v \in old : v.id = d.id /\ v.hash = d.hash BY <1>9, <2>2
    <3>2. v.by = process /\ v.owner = d.owner BY <1>5, <1>6
    <3>3. v = VectorOf(d) BY <1>10, <3>1, <3>2 DEF Vector, VectorOf
    <3>4. \A c \in new : v.id # c.id BY <1>7, <1>8, <2>2, <3>1
    <3> QED BY <1>2, <3>3, <3>4 DEF Added
  <2> QED BY <2>1, <2>2
<1> QED BY <1>4, <1>11, <1>12

\* memory/service.py, index.py: after a forced rebuild for the account still
\* connected, each index_all() leaves every document of the account with a vector
\* of its own text, of this process and of this account.
THEOREM VectorsStayUsable == EngineSpec => []VectorsUsable
<1>1. EngineInit => IndexOwn
  BY DEF EngineInit, IndexOwn
<1>2. EngineTypeOK /\ IndexOwn /\ [EngineNext]_<<libraryVars, engineVars>>
        => IndexOwn'
  <2> SUFFICES ASSUME EngineTypeOK, IndexOwn,
                      [EngineNext]_<<libraryVars, engineVars>>
               PROVE  IndexOwn'
    OBVIOUS
  <2>1. UNCHANGED <<libraryVars, index, process, rebuiltFor, pending>> => IndexOwn'
    BY DEF libraryVars, IndexOwn, Documents, Extract, FilterForMemory, OwnedBy,
           Stored, Owner, DocsOwner, VectorOf
  <2>2. MemorySearch => IndexOwn'
    BY <2>1, IndexKept DEF MemorySearch
  <2>3. CASE LibraryMoves BY <2>3 DEF LibraryMoves, IndexOwn
  <2>4. CASE MemoryIndexAll BY <2>4, IndexKept DEF MemoryIndexAll
  <2>5. CASE SearchMemory BY <2>2, <2>5 DEF SearchMemory
  <2>6. CASE MemoryStats BY <2>1, <2>6 DEF MemoryStats
  <2>7. CASE SearchProblems BY <2>1, <2>7 DEF SearchProblems
  <2>8. CASE SearchSubmissions BY <2>1, <2>8 DEF SearchSubmissions
  <2>9. CASE SearchKnowledge BY <2>2, <2>9 DEF SearchKnowledge
  <2>10. CASE SearchNothing BY <2>1, <2>10 DEF SearchNothing
  <2>11. CASE Restart BY <2>11 DEF Restart, IndexOwn
  <2>12. CASE UNCHANGED <<libraryVars, engineVars>>
    BY <2>1, <2>12 DEF engineVars
  <2> QED BY <2>3, <2>4, <2>5, <2>6, <2>7, <2>8, <2>9, <2>10, <2>11, <2>12
       DEF EngineNext
<1>3. IndexOwn => VectorsUsable
  BY DEF IndexOwn, VectorsUsable, VectorOf
<1> QED BY <1>1, <1>2, <1>3, EngineTypeCorrect, PTL DEF EngineSpec
=============================================================================
