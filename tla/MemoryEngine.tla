---------------------------- MODULE MemoryEngine ----------------------------
(*********************************************************************************)
(* MemoryService (memory/service.py) of one process: the documents it has        *)
(* extracted from the library, its vectors, and the file they are persisted      *)
(* in.  Cache and vectors are filled by a call for one account and read by later *)
(* calls for another.  global_search (core/service.py) reads the lists of        *)
(* problems and the memory one after the other.                                  *)
(*********************************************************************************)
EXTENDS AccountViews

CONSTANTS
    MaxStarts,      \* bound: processes, one after the other
    Mistaken        \* attempts with mistakes noted or without an accepted row

ASSUME EngineAssumption ==
    /\ MaxStarts \in Nat \ {0}
    /\ Mistaken \subseteq {AttemptOf(r) : r \in Rows}

VARIABLES
    docCache,       \* _doc_cache
    index,          \* SemanticIndex._index
    indexFile,      \* memory_embeddings.parquet
    process,        \* which process it is: Python seeds hash(), hence the vectors
    moved,          \* history: library or connection changed since the cache was
                    \* filled
    rebuiltFor,     \* history: whose last index_all(force_rebuild=True) it was in
                    \* this process
    pending,        \* history: the library changed since the last index_all()
    search          \* a global_search() in progress

engineVars == <<docCache, index, indexFile, process, moved, rebuiltFor, pending,
                search>>

DocumentIds == ({"problem"} \X Problems)
                   \cup ({"attempt", "mistake"} \X {AttemptOf(r) : r \in Rows})
                   \cup ({"submission", "analysis"} \X Rows)

\* hash: what the content depends on that can change.
Document == [id : DocumentIds, hash : 0..MaxText, owner : Owners]
Vector == [id : DocumentIds, hash : 0..MaxText, owner : Owners,
           by : 1..MaxStarts]

NoSearch == [at |-> "idle", of |-> Nobody, found |-> {}, switched |-> FALSE]

EngineTypeOK ==
    /\ LibraryTypeOK
    /\ docCache \subseteq Document
    /\ index \subseteq Vector /\ indexFile \subseteq Vector
    /\ \A u, v \in index : u.id = v.id => u = v
    /\ \A u, v \in indexFile : u.id = v.id => u = v
    /\ process \in 1..MaxStarts
    /\ moved \in BOOLEAN /\ pending \in BOOLEAN
    /\ rebuiltFor \in Accounts \cup {Nobody}
    /\ search \in [at : {"idle", "submissions", "knowledge", "done"},
                   of : Accounts \cup {Nobody}, found : SUBSET Owners,
                   switched : BOOLEAN]

EngineInit ==
    /\ LibraryInit
    /\ docCache = {} /\ index = {} /\ indexFile = {}
    /\ process = 1
    /\ moved = FALSE /\ rebuiltFor = Nobody /\ pending = FALSE
    /\ search = NoSearch

-----------------------------------------------------------------------------
(* Documents                                                                     *)

\* DocumentPipeline.extract_documents over rows of one owner: the problem, the
\* attempt, its mistakes, the submission, and its analysis.
Extract(R, o) ==
    {[id |-> <<"problem", ProblemOf(r)>>, hash |-> 0, owner |-> o] : r \in R}
      \cup {[id |-> <<kind, AttemptOf(r)>>, hash |-> 0, owner |-> o] :
               r \in R, kind \in {"attempt"}}
      \cup {[id |-> <<"mistake", AttemptOf(r)>>, hash |-> 0, owner |-> o] :
               r \in {q \in R : AttemptOf(q) \in Mistaken}}
      \cup {[id |-> <<kind, r>>, hash |-> library[r].text, owner |-> o] :
               r \in R, kind \in {"submission", "analysis"}}

DocsOwner(account) == IF account = Nobody THEN Manual ELSE account
Documents(account) == Extract(FilterForMemory(account), DocsOwner(account))

\* Mutant: the cache is filled with every row of the library.
EnsureAnyone(account) ==
    IF docCache = {} THEN UNION {Extract(OwnedBy(o), o) : o \in Owners}
                     ELSE docCache

\* _ensure_indexed: the cache as it is, or filled for the account that asks.
Ensured(account) == IF docCache = {} THEN Documents(account) ELSE docCache

\* Its return value, and HybridRetriever.search, which ranks these: documents of
\* another owner are dropped if there is an account, and kept if there is none.
Retrieved(docs, account) ==
    {d \in docs : account = Nobody \/ d.owner = account}

Fill(docs) ==
    /\ docCache' = docs
    /\ moved' = IF docCache = {} THEN FALSE ELSE moved

-----------------------------------------------------------------------------
(* Vectors                                                                       *)

\* Mutant: an entry under the document's id is enough.
HasVector(d) == \E v \in index : v.id = d.id

\* SemanticIndex.is_indexed; the embedding version is a constant.
IsIndexed(d) == \E v \in index : v.id = d.id /\ v.hash = d.hash

\* Mutant: the entry under a document's id is not replaced.
AddedBeside(vectors, docs) ==
    vectors \cup {[id |-> d.id, hash |-> d.hash, owner |-> d.owner, by |-> process] :
                      d \in docs}

\* SemanticIndex.add, and LocalEmbeddingProvider.embed in this process.
Added(vectors, docs) ==
    {v \in vectors : \A d \in docs : v.id # d.id}
      \cup {[id |-> d.id, hash |-> d.hash, owner |-> d.owner, by |-> process] :
               d \in docs}

\* index_all: a forced one clears the index first, and an incremental one skips
\* what is indexed; then the file is written, whole.
IndexAll(force) ==
    LET docs == Documents(connected)
        new == IF force THEN docs ELSE {d \in docs : ~IsIndexed(d)}
    IN  /\ index' = Added(IF force THEN {} ELSE index, new)
        /\ indexFile' = index'
        /\ docCache' = docs
        /\ moved' = FALSE /\ pending' = FALSE
        /\ rebuiltFor' = IF force THEN connected ELSE rebuiltFor

MemoryIndexAll ==
    /\ \E force \in BOOLEAN : IndexAll(force)
    /\ UNCHANGED <<libraryVars, process, search>>

\* memory_search; find_common_mistakes and get_memory_stats only fill the cache.
MemorySearch ==
    /\ IF index = {} /\ Retrieved(Ensured(connected), connected) # {}
         THEN IndexAll(FALSE)
         ELSE /\ Fill(Ensured(connected))
              /\ UNCHANGED <<index, indexFile, rebuiltFor, pending>>
    /\ UNCHANGED <<libraryVars, process>>

SearchMemory ==
    /\ MemorySearch
    /\ UNCHANGED search

MemoryStats ==
    /\ Fill(Ensured(connected))
    /\ UNCHANGED <<libraryVars, index, indexFile, process, rebuiltFor,
                   pending, search>>

-----------------------------------------------------------------------------
(* global_search: three reads, each of the account connected by then             *)

FoundOf(R) == {Owner(r) : r \in R}

\* Problems that match.
SearchProblems ==
    /\ search.at \in {"idle", "done"}
    /\ \E R \in SUBSET ListProblems(connected) :
           search' = [at |-> "submissions", of |-> connected,
                      found |-> FoundOf(R), switched |-> FALSE]
    /\ UNCHANGED <<libraryVars, docCache, index, indexFile, process, moved,
                   rebuiltFor, pending>>

\* Mutant: every submission that matches.
SearchAllSubmissions ==
    /\ search.at = "submissions"
    /\ \E R \in SUBSET Stored :
           search' = [search EXCEPT !.at = "knowledge",
                                    !.found = @ \cup FoundOf(R)]
    /\ UNCHANGED <<libraryVars, docCache, index, indexFile, process, moved,
                   rebuiltFor, pending>>

\* Submissions that match.
SearchSubmissions ==
    /\ search.at = "submissions"
    /\ \E R \in SUBSET ListProblems(connected) :
           search' = [search EXCEPT !.at = "knowledge",
                                    !.found = @ \cup FoundOf(R)]
    /\ UNCHANGED <<libraryVars, docCache, index, indexFile, process, moved,
                   rebuiltFor, pending>>

\* Documents that score high enough, if anything has matched.
SearchKnowledge ==
    /\ search.at = "knowledge"
    /\ search.found # {}
    /\ MemorySearch
    /\ \E D \in SUBSET {d.owner : d \in Retrieved(Ensured(connected), connected)} :
           search' = [search EXCEPT !.at = "done", !.found = @ \cup D]

SearchNothing ==
    /\ search.at = "knowledge"
    /\ search.found = {}
    /\ search' = [search EXCEPT !.at = "done"]
    /\ UNCHANGED <<libraryVars, docCache, index, indexFile, process, moved,
                   rebuiltFor, pending>>

-----------------------------------------------------------------------------
\* The library and the connection move; the engine is told nothing.
LibraryMoves ==
    /\ LibraryNext
    /\ moved' = TRUE
    /\ pending' = TRUE
    /\ rebuiltFor' = IF connected' = connected THEN rebuiltFor ELSE Nobody
    /\ search' = [search EXCEPT !.switched = @ \/ connected' # connected]
    /\ UNCHANGED <<docCache, index, indexFile, process>>

\* The process ends, between the clear() and the save() of a rebuild perhaps, and
\* the next one loads the file, or fails to.
Restart ==
    /\ process < MaxStarts
    /\ process' = process + 1
    /\ indexFile' \in {indexFile, {}}
    /\ index' \in {indexFile', {}}
    /\ docCache' = {}
    /\ moved' = FALSE /\ rebuiltFor' = Nobody
    /\ search' = NoSearch
    /\ UNCHANGED <<libraryVars, pending>>

EngineNext ==
    \/ LibraryMoves
    \/ MemoryIndexAll \/ SearchMemory \/ MemoryStats
    \/ SearchProblems \/ SearchSubmissions \/ SearchKnowledge \/ SearchNothing
    \/ Restart

EngineSpec == EngineInit /\ [][EngineNext]_<<libraryVars, engineVars>>

-----------------------------------------------------------------------------
(* Properties                                                                    *)

\* memory/service.py:133-165: unless the library or the connection has changed
\* since the cache was filled, a search ranks all documents of the account in
\* question and nobody else's.
AnswersCurrent ==
    ~moved => Retrieved(Ensured(connected), connected) = Documents(connected)

\* memory/service.py:89-131, index.py:90-113: once the index has been rebuilt in
\* this process for the account still connected, each index_all() leaves every
\* document of the account with a vector of its own text, of this process and of
\* this account.
VectorsUsable ==
    /\ rebuiltFor = connected /\ connected # Nobody /\ ~pending
    => \A d \in Documents(connected) :
           [id |-> d.id, hash |-> d.hash, owner |-> d.owner, by |-> process]
               \in index

\* core/service.py:667-836: a global_search during which the account stays
\* connected shows nothing of another owner, although its parts are read one
\* after the other and the memory may hold another account's documents.
SearchStaysInAccount ==
    search.at = "done" /\ ~search.switched /\ search.of # Nobody =>
        search.found \subseteq {search.of}
=============================================================================
