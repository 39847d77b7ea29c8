------------------------------ MODULE Importer ------------------------------
(********************************************************************************)
(* ImportService (ingestion/importer.py): files of records are read into the    *)
(* database problem by problem -- the problem is read, each record is compared  *)
(* with what is stored, and the whole is saved -- while syncs and other imports *)
(* write the same rows.  A save may fail after some of its rows, and ends the   *)
(* import; the user imports the file again.                                     *)
(*                                                                              *)
(* Records carry a timestamp: one without gets the current time, and with it a  *)
(* new hash on every import.                                                    *)
(********************************************************************************)
EXTENDS Naturals, Sequences, FiniteSets

CONSTANTS
    Importers,      \* threads that import
    Entries,        \* submissions, as title, language, status and timestamp
    TitleSlug,      \* the problem of each
    ExternalIds,    \* LeetCode's ids
    Named,          \* the entry of each id
    NewIds,         \* ids of rows stored without one; bound: their number
    Account,        \* the connected account
    NoAccount,      \* source_account of other records
    Files,          \* sets of records grouped by problem, in the file's order
    NoRow           \* not stored

\* The key a colliding id gets in resolve_submission_id.
Scoped(x) == <<x, Account>>
Keys == ExternalIds \cup {Scoped(x) : x \in ExternalIds} \cup NewIds

\* code: 0 is none.  A row's hash is computed of the rest.
Record == [entry : Entries, id : ExternalIds \cup {NoRow}, code : {0, 1},
           owner : {Account, NoAccount}]
Row == [entry : Entries, code : {0, 1}, owner : {Account, NoAccount},
        imported : BOOLEAN]

ASSUME ImporterAssumption ==
    /\ Account # NoAccount
    /\ NoRow \notin Row /\ NoRow \notin Keys
    /\ Named \in [ExternalIds -> Entries]
    /\ IsFiniteSet(ExternalIds) /\ IsFiniteSet(NewIds)
    /\ ExternalIds \cap NewIds = {} /\ \A x \in ExternalIds : Scoped(x) \notin ExternalIds
    /\ \A f \in Files : f \in Seq(Seq(Record)) /\ \A i \in DOMAIN f : f[i] # <<>>
    /\ \A f \in Files : \A i \in DOMAIN f : \A j, k \in DOMAIN f[i] :
           /\ TitleSlug[f[i][j].entry] = TitleSlug[f[i][k].entry]
           /\ f[i][j].id # NoRow => Named[f[i][j].id] = f[i][j].entry
           /\ f[i][j].id = f[i][k].id /\ f[i][j].id # NoRow => j = k

VARIABLES
    rows,           \* DuckDB's submissions by key
    made,           \* slugs of the problems that are stored
    importing,      \* what each thread is doing
    beside,         \* history: "import", "sync" if one overlapped with an import
    reported        \* history: records of the import that has just ended well

importerVars == <<rows, made, importing, beside, reported>>

Hash(r) == <<r.entry, r.code, r.owner>>

\* groups: what is left of the file; checked: records compared in this group; prob:
\* the rows of the problem as read, then with the new ones; known: its slug was there.
NotImporting == [at |-> "idle", groups |-> <<>>, checked |-> 0, prob |-> <<>>,
                 fresh |-> <<>>, known |-> FALSE, file |-> <<>>]

KeyedRow == [key : Keys, row : Row]

ImporterTypeOK ==
    /\ rows \in [Keys -> Row \cup {NoRow}]
    /\ made \subseteq {TitleSlug[e] : e \in Entries}
    /\ \A t \in Importers :
         /\ importing[t].at \in {"idle", "read", "check"}
         /\ importing[t].prob \in Seq(KeyedRow) /\ importing[t].fresh \in Seq(KeyedRow)
         /\ importing[t].file \in Files \cup {<<>>}
         /\ importing[t].known \in BOOLEAN
    /\ beside \subseteq {"import", "sync"}
    /\ reported \subseteq Record

ImporterInit ==
    /\ rows = [k \in Keys |-> NoRow]
    /\ made = {}
    /\ importing = [t \in Importers |-> NotImporting]
    /\ beside = {}
    /\ reported = {}

Quiet == \A t \in Importers : importing[t].at = "idle"

Beside(other, quiet) == beside' = IF quiet THEN beside ELSE beside \cup {other}

Present == {k \in Keys : rows[k] # NoRow}

\* import_file: parsed, validated and grouped.
ImportFile(t, f) ==
    /\ importing[t].at = "idle"
    /\ importing' = [importing EXCEPT ![t] =
           [NotImporting EXCEPT !.at = "read", !.groups = f, !.file = f]]
    /\ Beside("import", Quiet)
    /\ reported' = {}
    /\ UNCHANGED <<rows, made>>

Group(t) == importing[t].groups[1]
Slug(t) == TitleSlug[Group(t)[1].entry]

\* The rows of a problem, in any order.
ListOf(K) ==
    {[i \in 1..Cardinality(K) |-> [key |-> order[i], row |-> rows[order[i]]]] :
        order \in {s \in [1..Cardinality(K) -> K] : \A k \in K : \E i \in DOMAIN s : s[i] = k}}

\* get_by_slug, or a new Problem.
ReadProblem(t) ==
    /\ importing[t].at = "read" /\ importing[t].groups # <<>>
    /\ \E list \in ListOf({k \in Present : TitleSlug[rows[k].entry] = Slug(t)}) :
           importing' = [importing EXCEPT ![t].at = "check", ![t].checked = 0,
               ![t].prob = list, ![t].fresh = <<>>, ![t].known = Slug(t) \in made]
    /\ UNCHANGED <<rows, made, beside, reported>>

\* Exact matches: in the problem as read, among the new rows, in the database.
HashKnown(t, r) ==
    \/ \E i \in DOMAIN importing[t].prob : Hash(importing[t].prob[i].row) = Hash(r)
    \/ \E i \in DOMAIN importing[t].fresh : Hash(importing[t].fresh[i].row) = Hash(r)
    \/ \E k \in Present : Hash(rows[k]) = Hash(r)

\* The id is that of a row of the problem, whose code is the same.
IdKnown(t, r) ==
    \E i \in DOMAIN importing[t].prob :
        importing[t].prob[i].key = r.id /\ importing[t].prob[i].row.code = r.code

\* Mutant: rows are told apart by their ids only.
DuplicateId(t, r) == IdKnown(t, r)

Duplicate(t, r) == HashKnown(t, r) \/ IdKnown(t, r)

UnusedIds == {n \in NewIds \ Present :
    \A t \in Importers : \A i \in DOMAIN importing[t].fresh : importing[t].fresh[i].key # n}

\* One record after the other is skipped or appended, with its id or a new one.
CheckRecord(t) ==
    /\ importing[t].at = "check" /\ importing[t].checked < Len(Group(t))
    /\ LET r == Group(t)[importing[t].checked + 1]
           row == [entry |-> r.entry, code |-> r.code, owner |-> r.owner,
                   imported |-> TRUE]
       IN  IF Duplicate(t, r)
           THEN importing' = [importing EXCEPT ![t].checked = @ + 1]
           ELSE \E key \in IF r.id # NoRow THEN {r.id} ELSE UnusedIds :
                importing' = [importing EXCEPT ![t].checked = @ + 1,
                    ![t].fresh = Append(@, [key |-> key, row |-> row])]
    /\ UNCHANGED <<rows, made, beside, reported>>

\* Upserts in the order of the list: the last one of a key stays.
Upserted(list) ==
    [k \in Keys |->
        LET at == {i \in DOMAIN list : list[i].key = k}
        IN  IF at = {} THEN rows[k]
            ELSE list[CHOOSE i \in at : \A j \in at : j <= i].row]

Merged(t) == importing[t].prob \o importing[t].fresh

GroupDone(t) == importing[t].at = "check" /\ importing[t].checked = Len(Group(t))

\* storage.save(prob) of a problem with new rows.
SaveGroup(t) ==
    /\ GroupDone(t) /\ importing[t].fresh # <<>>
    /\ importing[t].known \/ Slug(t) \notin made
    /\ rows' = Upserted(Merged(t))
    /\ made' = made \cup {Slug(t)}
    /\ importing' = [importing EXCEPT ![t].at = "read", ![t].groups = Tail(@),
                                      ![t].prob = <<>>, ![t].fresh = <<>>]
    /\ UNCHANGED <<beside, reported>>

\* Nothing new: it is not saved.
SkipGroup(t) ==
    /\ GroupDone(t) /\ importing[t].fresh = <<>>
    /\ importing' = [importing EXCEPT ![t].at = "read", ![t].groups = Tail(@),
                                      ![t].prob = <<>>]
    /\ UNCHANGED <<rows, made, beside, reported>>

\* The save fails, or the process ends, after any of its rows; a slug that another
\* thread has stored meanwhile fails it before the first.
SaveFails(t) ==
    /\ GroupDone(t) /\ importing[t].fresh # <<>>
    /\ \E n \in 0..Len(Merged(t)) :
         /\ n > 0 => importing[t].known \/ Slug(t) \notin made
         /\ rows' = Upserted(SubSeq(Merged(t), 1, n))
         /\ made' = IF n > 0 THEN made \cup {Slug(t)} ELSE made
    /\ importing' = [importing EXCEPT ![t] = NotImporting]
    /\ UNCHANGED <<beside, reported>>

RecordsOf(f) == UNION {{f[i][j] : j \in DOMAIN f[i]} : i \in DOMAIN f}

ImportEnds(t) ==
    /\ importing[t].at = "read" /\ importing[t].groups = <<>>
    /\ reported' = RecordsOf(importing[t].file)
    /\ importing' = [importing EXCEPT ![t] = NotImporting]
    /\ UNCHANGED <<rows, made, beside>>

-----------------------------------------------------------------------------
(* The account's syncs, each as a whole                                         *)

ResolvedId(x) ==
    IF rows[x] = NoRow \/ rows[x].owner = Account THEN x ELSE Scoped(x)

\* The public sync stores a submission without its code.
SyncStores(x) ==
    /\ rows[ResolvedId(x)] = NoRow
    /\ rows' = [rows EXCEPT ![ResolvedId(x)] =
           [entry |-> Named[x], code |-> 0, owner |-> Account, imported |-> FALSE]]
    /\ made' = made \cup {TitleSlug[Named[x]]}
    /\ Beside("sync", Quiet)
    /\ reported' = {}
    /\ UNCHANGED importing

\* The full-history sync adds it.
SyncEnriches(x) ==
    /\ rows[ResolvedId(x)] # NoRow
    /\ rows[ResolvedId(x)].code = 0
    /\ rows' = [rows EXCEPT ![ResolvedId(x)].code = 1]
    /\ Beside("sync", Quiet)
    /\ reported' = {}
    /\ UNCHANGED <<made, importing>>

ImporterNext ==
    \/ \E t \in Importers :
         \/ \E f \in Files : ImportFile(t, f)
         \/ ReadProblem(t) \/ CheckRecord(t) \/ SaveGroup(t) \/ SkipGroup(t)
         \/ SaveFails(t) \/ ImportEnds(t)
    \/ \E x \in ExternalIds : SyncStores(x) \/ SyncEnriches(x)

\* ingestion/importer.py:116-222: unless imports overlap, no submission is imported
\* twice, however often they fail in the middle and are repeated, whatever syncs do
\* meanwhile; and once one ends beside which nothing ran, all its records are stored:
\* under their hash, or under their id with their code.  The files' records come with
\* their code: a row imported without is another submission to the importer, and
\* the same one once a sync has fetched the code.
ImportedOnce ==
    /\ "import" \notin beside =>
           \A j, k \in Present :
               rows[j].imported /\ rows[k].imported /\ Hash(rows[j]) = Hash(rows[k])
                   => j = k
    /\ beside = {} =>
           \A r \in reported :
               \/ \E k \in Present : Hash(rows[k]) = Hash(r)
               \/ /\ r.id # NoRow
                  /\ rows[r.id] # NoRow /\ rows[r.id].code = r.code

ImporterSpec == ImporterInit /\ [][ImporterNext]_importerVars
=============================================================================
