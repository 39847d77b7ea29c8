--------------------------- MODULE StorageHandles ---------------------------
(******************************************************************************)
(* The DuckDB connections of one database path in the Streamlit process: the  *)
(* registry of shared connections (storage/duckdb_repository.py), the service *)
(* that sessions share and the sync worker's own (app/components.py), and     *)
(* "Clear All Data" (app/pages/settings_view.py), which retires the shared    *)
(* service and deletes the files.                                             *)
(******************************************************************************)
EXTENDS Naturals, FiniteSets

CONSTANTS
    Sessions,       \* browser sessions: a thread each
    Pooled,         \* DuckDBStorage objects built with shared=True
    Private,        \* and with shared=False: the sync worker's
    MaxDeletes,     \* bound: successful clears
    NoHandle        \* no connection, no service

Repositories == Pooled \cup Private

ASSUME HandlesAssumption ==
    /\ MaxDeletes \in Nat /\ NoHandle \notin Repositories
    /\ Pooled \cap Private = {}

VARIABLES
    registry,   \* _shared_duckdb_connections[path]
    opened,     \* connections that are open; each has the name of the object
                \* that opened it
    fileOf,     \* the database file each was opened on
    handle,     \* each object's self.conn
    life,       \* where each object's construction or close() is
    disk,       \* the database file at the path: they are numbered
    cached,     \* the object of the shared service: _cached_service
    clearing,   \* where each session's "Clear All Data" is, and its service
    reopened    \* history: a session built a service while another was clearing

handleVars == <<registry, opened, fileOf, handle, life, disk, cached, clearing,
                reopened>>
clearVars == <<cached, clearing, reopened>>

HandlesTypeOK ==
    /\ registry \in Repositories \cup {NoHandle}
    /\ opened \subseteq Repositories
    /\ fileOf \in [Repositories -> 0..MaxDeletes]
    /\ handle \in [Repositories -> Repositories \cup {NoHandle}]
    /\ life \in [Repositories -> {"new", "probe", "adopt", "pop", "connect",
                                  "register", "live", "closing", "closed"}]
    /\ disk \in 0..MaxDeletes
    /\ cached \in Pooled \cup {NoHandle}
    /\ clearing \in [Sessions ->
           [at : {"idle", "retire", "dropCache", "delete"},
            of : Pooled \cup {NoHandle}]]
    /\ reopened \in BOOLEAN

NotClearing == [at |-> "idle", of |-> NoHandle]

HandlesInit ==
    /\ registry = NoHandle /\ opened = {}
    /\ fileOf = [r \in Repositories |-> 0]
    /\ handle = [r \in Repositories |-> NoHandle]
    /\ life = [r \in Repositories |-> "new"]
    /\ disk = 0 /\ cached = NoHandle
    /\ clearing = [s \in Sessions |-> NotClearing]
    /\ reopened = FALSE

Become(r, stage) == life' = [life EXCEPT ![r] = stage]

AnyClearing == \E s \in Sessions : clearing[s].at # "idle"

Building == \E p \in Pooled : life[p] \notin {"new", "live", "closing", "closed"}

-----------------------------------------------------------------------------
(* Construction                                                               *)

\* get_service(): without a cached one, one session at a time builds it.
GetService(r) ==
    /\ cached = NoHandle
    /\ life[r] = "new"
    /\ ~Building
    /\ Become(r, IF registry # NoHandle THEN "probe" ELSE "connect")
    /\ reopened' = (reopened \/ AnyClearing)
    /\ UNCHANGED <<registry, opened, fileOf, handle, disk, cached, clearing>>

\* The scheduler's factory.
BuildWorkerService(r) ==
    /\ r \in Private /\ life[r] = "new"
    /\ Become(r, "connect")
    /\ UNCHANGED <<registry, opened, fileOf, handle, disk, clearVars>>

\* "SELECT 1" on the registered connection answers, or raises: it is closed, or
\* not registered any more.
Probe(r) ==
    /\ life[r] = "probe"
    /\ Become(r, IF registry \in opened THEN "adopt" ELSE "pop")
    /\ UNCHANGED <<registry, opened, fileOf, handle, disk, clearVars>>

PopDead(r) ==
    /\ life[r] = "pop"
    /\ registry' = NoHandle
    /\ Become(r, "connect")
    /\ UNCHANGED <<opened, fileOf, handle, disk, clearVars>>

\* It is looked up once more to be taken over.
Adopt(r) ==
    /\ life[r] = "adopt"
    /\ registry # NoHandle
    /\ handle' = [handle EXCEPT ![r] = registry]
    /\ Become(r, "live") /\ cached' = r
    /\ UNCHANGED <<registry, opened, fileOf, disk, clearing, reopened>>

AdoptFails(r) ==
    /\ life[r] = "adopt"
    /\ registry = NoHandle
    /\ Become(r, "pop")
    /\ UNCHANGED <<registry, opened, fileOf, handle, disk, clearVars>>

\* Mutant: the worker's connection is registered like a shared one.
ConnectShared(r) ==
    /\ life[r] = "connect"
    /\ opened' = opened \cup {r}
    /\ handle' = [handle EXCEPT ![r] = r]
    /\ fileOf' = [fileOf EXCEPT ![r] = disk]
    /\ Become(r, "register")
    /\ UNCHANGED <<registry, disk, clearVars>>

\* duckdb.connect(): a missing file is created.
Connect(r) ==
    /\ life[r] = "connect"
    /\ opened' = opened \cup {r}
    /\ handle' = [handle EXCEPT ![r] = r]
    /\ fileOf' = [fileOf EXCEPT ![r] = disk]
    /\ Become(r, IF r \in Pooled THEN "register" ELSE "live")
    /\ UNCHANGED <<registry, disk, clearVars>>

\* Another process has the file: the constructor raises.
ConnectFails(r) ==
    /\ life[r] = "connect"
    /\ Become(r, "new")
    /\ UNCHANGED <<registry, opened, fileOf, handle, disk, clearVars>>

Register(r) ==
    /\ life[r] = "register"
    /\ registry' = handle[r]
    /\ Become(r, "live") /\ cached' = r
    /\ UNCHANGED <<opened, fileOf, handle, disk, clearing, reopened>>

-----------------------------------------------------------------------------
(* close() and collection                                                     *)

\* What close() does is decided by one look at the registry.
LookedUp(r) == IF registry = handle[r] THEN "closing" ELSE "closed"

\* A registered handle is popped, and closed.
ClosePop(r) ==
    /\ life[r] = "closing"
    /\ registry' = NoHandle
    /\ opened' = opened \ {handle[r]}
    /\ Become(r, "closed")
    /\ UNCHANGED <<fileOf, handle, disk, clearVars>>

\* The scheduler closes the worker's service: close_storage().
CloseWorkerService(r) ==
    /\ r \in Private /\ life[r] = "live"
    /\ Become(r, LookedUp(r))
    /\ UNCHANGED <<registry, opened, fileOf, handle, disk, clearVars>>

\* Nothing refers to the object any more.  __del__ calls close() for a private
\* one; a connection ends when no object and no registry has it.
Collect(r) ==
    /\ life[r] = "closed" /\ cached # r
    /\ \A s \in Sessions : clearing[s].of # r
    /\ handle' = [handle EXCEPT ![r] = NoHandle]
    /\ opened' = {c \in opened : c = registry
                     \/ \E o \in Repositories \ {r} : handle[o] = c}
    /\ r \notin opened'
    /\ Become(r, "new")
    /\ UNCHANGED <<registry, fileOf, disk, clearVars>>

-----------------------------------------------------------------------------
(* "Clear All Data"                                                           *)

Clear(s, stage) == clearing' = [clearing EXCEPT ![s].at = stage]

\* reset_service() takes the cached service.
ClearBegin(s) ==
    /\ clearing[s].at = "idle"
    /\ cached # NoHandle
    /\ clearing' = [clearing EXCEPT ![s] = [at |-> "retire", of |-> cached]]
    /\ reopened' = ((reopened /\ AnyClearing) \/ Building)
    /\ UNCHANGED <<registry, opened, fileOf, handle, life, disk, cached>>

\* Mutant: the retired service is dropped without closing its storage.
ClearRetireOpen(s) ==
    /\ clearing[s].at = "retire"
    /\ life[clearing[s].of] \in {"live", "closed"}
    /\ Become(clearing[s].of, "closed")
    /\ Clear(s, "dropCache")
    /\ UNCHANGED <<registry, opened, fileOf, handle, disk, cached, reopened>>

\* close_storage(), unless another session has closed it already.
ClearRetire(s) ==
    /\ clearing[s].at = "retire"
    /\ LET r == clearing[s].of IN
       /\ life[r] \in {"live", "closed"}
       /\ Become(r, IF life[r] = "live" THEN LookedUp(r) ELSE "closed")
    /\ Clear(s, "dropCache")
    /\ UNCHANGED <<registry, opened, fileOf, handle, disk, cached, reopened>>

\* _cached_service.clear(), whatever is cached by now.
ClearDropCache(s) ==
    /\ clearing[s].at = "dropCache"
    /\ life[clearing[s].of] = "closed"
    /\ cached' = NoHandle
    /\ Clear(s, "delete")
    /\ UNCHANGED <<registry, opened, fileOf, handle, life, disk, reopened>>

\* _clear_storage_tree(): the files go, or four attempts meet an open one.
ClearDelete(s) ==
    /\ clearing[s].at = "delete"
    /\ \/ disk < MaxDeletes /\ disk' = disk + 1
       \/ opened # {} /\ UNCHANGED disk
    /\ clearing' = [clearing EXCEPT ![s] = NotClearing]
    /\ UNCHANGED <<registry, opened, fileOf, handle, life, cached, reopened>>

HandlesNext ==
    \/ \E r \in Pooled : GetService(r)
    \/ \E r \in Repositories :
         \/ BuildWorkerService(r) \/ Probe(r) \/ PopDead(r) \/ Adopt(r)
         \/ AdoptFails(r) \/ Connect(r) \/ ConnectFails(r) \/ Register(r)
         \/ ClosePop(r) \/ CloseWorkerService(r) \/ Collect(r)
    \/ \E s \in Sessions :
         ClearBegin(s) \/ ClearRetire(s) \/ ClearDropCache(s) \/ ClearDelete(s)

Serves(r) == handle[r] \in opened /\ fileOf[handle[r]] = disk

\* duckdb_repository.py:197-207, settings_view.py:627-632: once the clears are
\* over, the service sessions share has a connection that is open, to the file
\* that is there, unless a session rebuilt it between retirement and deletion.
NoGhostUnlessReopened ==
    /\ ~AnyClearing
    /\ cached # NoHandle /\ ~reopened
    => Serves(cached)

HandlesSpec == HandlesInit /\ [][HandlesNext]_handleVars
=============================================================================
