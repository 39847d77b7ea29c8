----------------------------- MODULE Scheduler -----------------------------
(***************************************************************************)
(* LeetCodeSyncScheduler (connectors/leetcode/scheduler.py): a background  *)
(* worker thread that periodically runs one sync, the preference file that *)
(* turns it on, and the UI threads that call into it.                      *)
(*                                                                         *)
(* One step is the stretch of code a thread runs between two accesses to   *)
(* state another thread can change.  The body of `with _lifecycle_lock` is *)
(* one step: its statements touch nothing a thread outside the lock could  *)
(* tell apart.  Each thread's program counter is pc[t]; a worker that was  *)
(* never created, or was collected, is "dead", so a finite set of Workers  *)
(* stands for any number of thread objects over time.                      *)
(***************************************************************************)
EXTENDS FiniteSets

CONSTANTS
    Callers,    \* UI (Streamlit session) threads calling the scheduler
    Workers,    \* thread objects the scheduler can have created
    Services,   \* CodeMemoryService instances the service factory can build
    NoThread,   \* Python's None for `_thread` and for an unheld `_sync_lock`
    NoService   \* Python's None for `_service`

ASSUME SchedulerAssumption ==
    /\ Callers \cap Workers = {}
    /\ NoThread \notin Callers \cup Workers
    /\ NoService \notin Services

Threads == Callers \cup Workers

VARIABLES
    enabled,    \* self._enabled
    stored,     \* "enabled" in leetcode_autosync.json
    unsaved,    \* history: the last write of that file failed with OSError
    stopEvent,  \* self._stop_event
    thread,     \* self._thread
    syncLock,   \* holder of self._sync_lock
    service,    \* self._service
    open,       \* services whose close_storage() has not been called
    connected,  \* the account store says LeetCode is connected
    pc,         \* where each thread is
    mine,       \* a caller's local `thread`, in start() and stop()
    using,      \* a thread's local `service`, in a sync or in _close_service()
    payload,    \* the "enabled" a caller is about to write to the file
    serial      \* history: no two callers' lifecycle calls have overlapped

prefVars == <<enabled, stored, unsaved, payload>>
syncVars == <<syncLock, service, open, using>>
vars == <<enabled, stored, unsaved, stopEvent, thread, syncLock, service,
          open, connected, pc, mine, using, payload, serial>>

\* Program points.  A sync runs the same code in a caller and in a worker.
SyncPoints      == {"svc", "ret", "sync"}
LifecyclePoints == {"replace", "resave", "apply", "ensure", "probe", "start",
                    "spawn", "stop", "signal", "join", "joined", "close",
                    "closing"}
CallerPoints    == {"idle"} \cup LifecyclePoints \cup SyncPoints
WorkerPoints    == {"dead", "created", "loop", "tick", "account", "lock",
                    "after", "wait"} \cup SyncPoints

-----------------------------------------------------------------------------
\* Thread.is_alive(): started and not finished.
IsAlive(w) == w \in Workers /\ pc[w] \notin {"dead", "created"}

\* The is_running property.
IsRunning == thread # NoThread /\ IsAlive(thread)

Idle(c) == pc[c] = "idle"

Goto(t, point) == pc' = [pc EXCEPT ![t] = point]

\* A lifecycle call by c begins; it overlaps every one still in progress.
EnterLifecycle(c) ==
    serial' = (serial /\ \A d \in Callers \ {c} : pc[d] \notin LifecyclePoints)

\* __init__ and _load_config: the process starts from whatever preference the
\* file holds (a missing or corrupt file is FALSE) and starts no worker.
Init ==
    /\ enabled \in BOOLEAN
    /\ stored = enabled
    /\ unsaved = FALSE
    /\ stopEvent = FALSE
    /\ thread = NoThread
    /\ syncLock = NoThread
    /\ service = NoService
    /\ open = {}
    /\ connected \in BOOLEAN
    /\ pc = [t \in Threads |-> IF t \in Callers THEN "idle" ELSE "dead"]
    /\ mine = [c \in Callers |-> NoThread]
    /\ using = [t \in Threads |-> NoService]
    /\ payload = [c \in Callers |-> FALSE]
    /\ serial = TRUE

-----------------------------------------------------------------------------
(* Preference: set_enabled, persist_preference, set_interval, _save_config *)

\* Mutant: the file is written before the new preference is assigned.
SetEnabledSavesFirst(c, b) ==
    /\ Idle(c)
    /\ enabled' = b
    /\ payload' = [payload EXCEPT ![c] = enabled]
    /\ Goto(c, "replace")
    /\ EnterLifecycle(c)
    /\ UNCHANGED <<stored, unsaved, stopEvent, thread, connected, mine, syncVars>>

\* set_enabled(b) up to the json.dump of the payload.
SetEnabled(c, b) ==
    /\ Idle(c)
    /\ enabled' = b
    /\ payload' = [payload EXCEPT ![c] = b]
    /\ Goto(c, "replace")
    /\ EnterLifecycle(c)
    /\ UNCHANGED <<stored, unsaved, stopEvent, thread, connected, mine, syncVars>>

\* set_interval(seconds), which every render of the settings page makes: the
\* file is rewritten with the preference as this thread read it.
SetInterval(c) ==
    /\ Idle(c)
    /\ payload' = [payload EXCEPT ![c] = enabled]
    /\ Goto(c, "resave")
    /\ EnterLifecycle(c)
    /\ UNCHANGED <<enabled, stored, unsaved, stopEvent, thread, connected,
                   mine, syncVars>>

\* os.replace of the temporary file, or an OSError that is logged and dropped.
SaveConfig(c) ==
    /\ pc[c] \in {"replace", "resave"}
    /\ \/ stored' = payload[c] /\ unsaved' = FALSE
       \/ unsaved' = TRUE /\ UNCHANGED stored
    /\ payload' = [payload EXCEPT ![c] = FALSE]
    /\ Goto(c, IF pc[c] = "replace" THEN "apply" ELSE "idle")
    /\ UNCHANGED <<enabled, stopEvent, thread, connected, mine, serial, syncVars>>

\* The tail of set_enabled: `if self._enabled` reads the flag again.
ApplyPreference(c) ==
    /\ pc[c] = "apply"
    /\ Goto(c, IF enabled THEN "ensure" ELSE "stop")
    /\ UNCHANGED <<stopEvent, thread, connected, mine, serial, prefVars, syncVars>>

-----------------------------------------------------------------------------
(* ensure_running and start                                                *)

\* A render of the settings page calls ensure_running().
Render(c) ==
    /\ Idle(c)
    /\ Goto(c, "ensure")
    /\ EnterLifecycle(c)
    /\ UNCHANGED <<stopEvent, thread, connected, mine, prefVars, syncVars>>

EnsureEnabled(c) ==
    /\ pc[c] = "ensure"
    /\ Goto(c, IF enabled THEN "probe" ELSE "idle")
    /\ UNCHANGED <<stopEvent, thread, connected, mine, serial, prefVars, syncVars>>

EnsureNotRunning(c) ==
    /\ pc[c] = "probe"
    /\ Goto(c, IF IsRunning THEN "idle" ELSE "start")
    /\ UNCHANGED <<stopEvent, thread, connected, mine, serial, prefVars, syncVars>>

\* Thread objects nothing refers to any more.
FreeWorkers ==
    {w \in Workers : pc[w] = "dead" /\ thread # w /\ \A d \in Callers : mine[d] # w}

\* Mutant: start() forgets to clear the stop event.
StartCreateKeepsEvent(c) ==
    /\ pc[c] = "start"
    /\ ~IsRunning
    /\ \E w \in FreeWorkers :
         /\ thread' = w
         /\ mine' = [mine EXCEPT ![c] = w]
         /\ pc' = [pc EXCEPT ![c] = "spawn", ![w] = "created"]
    /\ UNCHANGED <<stopEvent, connected, serial, prefVars, syncVars>>

\* start() under the lifecycle lock: a thread object is created, not started.
StartCreate(c) ==
    /\ pc[c] = "start"
    /\ ~IsRunning
    /\ \E w \in FreeWorkers :
         /\ thread' = w
         /\ mine' = [mine EXCEPT ![c] = w]
         /\ pc' = [pc EXCEPT ![c] = "spawn", ![w] = "created"]
    /\ stopEvent' = FALSE
    /\ UNCHANGED <<connected, serial, prefVars, syncVars>>

StartAlreadyRunning(c) ==
    /\ pc[c] = "start"
    /\ IsRunning
    /\ Goto(c, "idle")
    /\ UNCHANGED <<stopEvent, thread, connected, mine, serial, prefVars, syncVars>>

\* thread.start(), after the lifecycle lock was released.
StartSpawn(c) ==
    /\ pc[c] = "spawn"
    /\ pc' = [pc EXCEPT ![c] = "idle", ![mine[c]] = "loop"]
    /\ mine' = [mine EXCEPT ![c] = NoThread]
    /\ UNCHANGED <<stopEvent, thread, connected, serial, prefVars, syncVars>>

-----------------------------------------------------------------------------
(* stop and _close_service                                                 *)

\* close_storage() -> stop_autosync(): the service is being retired.
StopCall(c) ==
    /\ Idle(c)
    /\ Goto(c, "stop")
    /\ EnterLifecycle(c)
    /\ UNCHANGED <<stopEvent, thread, connected, mine, prefVars, syncVars>>

StopReadThread(c) ==
    /\ pc[c] = "stop"
    /\ mine' = [mine EXCEPT ![c] = thread]
    /\ Goto(c, "signal")
    /\ UNCHANGED <<stopEvent, thread, connected, serial, prefVars, syncVars>>

\* Mutant: stop() waits for the worker without asking it to stop.
StopSignalNothing(c) ==
    /\ pc[c] = "signal"
    /\ Goto(c, IF mine[c] = NoThread THEN "close" ELSE "join")
    /\ UNCHANGED <<stopEvent, thread, connected, mine, serial, prefVars, syncVars>>

StopSignal(c) ==
    /\ pc[c] = "signal"
    /\ stopEvent' = TRUE
    /\ Goto(c, IF mine[c] = NoThread THEN "close" ELSE "join")
    /\ UNCHANGED <<thread, connected, mine, serial, prefVars, syncVars>>

JoinFinished(c) ==
    /\ pc[c] = "join"
    /\ pc[mine[c]] = "dead"
    /\ Goto(c, "joined")
    /\ UNCHANGED <<stopEvent, thread, connected, mine, serial, prefVars, syncVars>>

\* Mutant: after a timeout `_thread` is forgotten all the same.
JoinGaveUpForgets(c) ==
    /\ pc[c] = "join"
    /\ pc[mine[c]] # "dead"
    /\ thread' = IF thread = mine[c] THEN NoThread ELSE thread
    /\ Goto(c, "idle")
    /\ mine' = [mine EXCEPT ![c] = NoThread]
    /\ UNCHANGED <<stopEvent, connected, serial, prefVars, syncVars>>

\* Mutant: after a timeout the service is closed all the same.
JoinGaveUpCloses(c) ==
    /\ pc[c] = "join"
    /\ pc[mine[c]] # "dead"
    /\ Goto(c, "close")
    /\ mine' = [mine EXCEPT ![c] = NoThread]
    /\ UNCHANGED <<stopEvent, thread, connected, serial, prefVars, syncVars>>

\* The timeout ran out (the service is left open), or the thread was created
\* and not yet started, where Thread.join raises RuntimeError.
JoinGaveUp(c) ==
    /\ pc[c] = "join"
    /\ pc[mine[c]] # "dead"
    /\ Goto(c, "idle")
    /\ mine' = [mine EXCEPT ![c] = NoThread]
    /\ UNCHANGED <<stopEvent, thread, connected, serial, prefVars, syncVars>>

StopForget(c) ==
    /\ pc[c] = "joined"
    /\ thread' = IF thread = mine[c] THEN NoThread ELSE thread
    /\ mine' = [mine EXCEPT ![c] = NoThread]
    /\ Goto(c, "close")
    /\ UNCHANGED <<stopEvent, connected, serial, prefVars, syncVars>>

CloseRead(c) ==
    /\ pc[c] = "close"
    /\ using' = [using EXCEPT ![c] = service]
    /\ Goto(c, IF service = NoService THEN "idle" ELSE "closing")
    /\ UNCHANGED <<stopEvent, thread, connected, mine, serial, prefVars,
                   syncLock, service, open>>

\* self._service = None, then service.close_storage() on the one that was read.
CloseService(c) ==
    /\ pc[c] = "closing"
    /\ service' = NoService
    /\ open' = open \ {using[c]}
    /\ using' = [using EXCEPT ![c] = NoService]
    /\ Goto(c, "idle")
    /\ UNCHANGED <<stopEvent, thread, connected, mine, serial, prefVars, syncLock>>

-----------------------------------------------------------------------------
(* One sync under _sync_lock: sync_now, _sync_locked, _service_for_sync    *)

\* Mutant: the worker leaves its loop the way a caller leaves sync_now.
AfterSyncReturns(t) == "idle"

\* Where a thread goes when its sync is over and the lock released.
AfterSync(t) == IF t \in Callers THEN "idle" ELSE "after"

\* Mutant: the lock is taken without looking at who holds it.
AcquireUnchecked(t) == syncLock' = t

Acquire(t) == syncLock = NoThread /\ syncLock' = t

\* sync_now(): the lock is taken without blocking (a busy lock is an error the
\* caller shows, no step here) or, with block=True, once it is free.
SyncNow(c) ==
    /\ Idle(c)
    /\ Acquire(c)
    /\ Goto(c, "svc")
    /\ UNCHANGED <<stopEvent, thread, connected, mine, serial, prefVars,
                   service, open, using>>

\* Services neither the scheduler nor any thread refers to.
FreeServices ==
    {s \in Services : service # s /\ \A t \in Threads : using[t] # s}

\* `if self._service is None: self._service = self._service_factory()`.
BuildService(t) ==
    /\ pc[t] = "svc"
    /\ \/ service # NoService /\ UNCHANGED <<service, open>>
       \/ /\ service = NoService
          /\ \E s \in FreeServices : service' = s /\ open' = open \cup {s}
    /\ Goto(t, "ret")
    /\ UNCHANGED <<stopEvent, thread, connected, mine, serial, prefVars,
                   syncLock, using>>

\* Mutant: the service is built before the `try` whose `finally` releases.
BuildFailsLeaks(t) ==
    /\ pc[t] = "svc"
    /\ service = NoService
    /\ Goto(t, AfterSync(t))
    /\ UNCHANGED <<stopEvent, thread, connected, mine, serial, prefVars, syncVars>>

\* The factory raises: the `finally` of the caller releases the lock.
BuildFails(t) ==
    /\ pc[t] = "svc"
    /\ service = NoService
    /\ syncLock' = NoThread
    /\ Goto(t, AfterSync(t))
    /\ UNCHANGED <<stopEvent, thread, connected, mine, serial, prefVars,
                   service, open, using>>

\* `return self._service`: a close that came between gives None, and
\* None.leetcode is an exception that ends the sync.
ReturnService(t) ==
    /\ pc[t] = "ret"
    /\ \/ /\ service # NoService
          /\ using' = [using EXCEPT ![t] = service]
          /\ Goto(t, "sync")
          /\ UNCHANGED syncLock
       \/ /\ service = NoService
          /\ syncLock' = NoThread
          /\ Goto(t, AfterSync(t))
          /\ UNCHANGED using
    /\ UNCHANGED <<stopEvent, thread, connected, mine, serial, prefVars,
                   service, open>>

\* The sync returned (Success, Partial or Failed) or raised.
FinishSync(t) ==
    /\ pc[t] = "sync"
    /\ using' = [using EXCEPT ![t] = NoService]
    /\ syncLock' = NoThread
    /\ Goto(t, AfterSync(t))
    /\ UNCHANGED <<stopEvent, thread, connected, mine, serial, prefVars,
                   service, open>>

-----------------------------------------------------------------------------
(* The worker: _run and _tick_once                                         *)

WorkerMove(w, from, to) ==
    /\ pc[w] = from
    /\ Goto(w, to)
    /\ UNCHANGED <<stopEvent, thread, connected, mine, serial, prefVars>>

LoopCheck(w) ==
    /\ WorkerMove(w, "loop", IF stopEvent THEN "dead" ELSE "tick")
    /\ UNCHANGED syncVars

TickEnabled(w) ==
    /\ WorkerMove(w, "tick", IF enabled THEN "account" ELSE "after")
    /\ UNCHANGED syncVars

TickConnected(w) ==
    /\ WorkerMove(w, "account", IF connected THEN "lock" ELSE "after")
    /\ UNCHANGED syncVars

TickLock(w) ==
    /\ WorkerMove(w, "lock", "svc")
    /\ Acquire(w)
    /\ UNCHANGED <<service, open, using>>

TickLockBusy(w) ==
    /\ syncLock # NoThread
    /\ WorkerMove(w, "lock", "after")
    /\ UNCHANGED syncVars

AfterTick(w) ==
    /\ WorkerMove(w, "after", IF stopEvent THEN "dead" ELSE "wait")
    /\ UNCHANGED syncVars

\* The stop event is set, or the interval ran out.
WaitOver(w) ==
    /\ WorkerMove(w, "wait", "loop")
    /\ UNCHANGED syncVars

-----------------------------------------------------------------------------
\* The user connects or disconnects the account (AccountService, another page).
AccountChanges ==
    /\ connected' = ~connected
    /\ UNCHANGED <<stopEvent, thread, pc, mine, serial, prefVars, syncVars>>

SyncStep(t) == BuildService(t) \/ BuildFails(t) \/ ReturnService(t) \/ FinishSync(t)

\* A call that has begun goes on.
CallerStep(c) ==
    \/ SaveConfig(c) \/ ApplyPreference(c)
    \/ EnsureEnabled(c) \/ EnsureNotRunning(c)
    \/ StartCreate(c) \/ StartAlreadyRunning(c) \/ StartSpawn(c)
    \/ StopReadThread(c) \/ StopSignal(c) \/ JoinFinished(c) \/ JoinGaveUp(c)
    \/ StopForget(c) \/ CloseRead(c) \/ CloseService(c)
    \/ SyncStep(c)

\* A caller begins a call.
CallerBegins(c) ==
    \/ \E b \in BOOLEAN : SetEnabled(c, b)
    \/ SetInterval(c) \/ Render(c) \/ StopCall(c) \/ SyncNow(c)

WorkerStep(w) ==
    \/ LoopCheck(w) \/ TickEnabled(w) \/ TickConnected(w)
    \/ TickLock(w) \/ TickLockBusy(w) \/ AfterTick(w) \/ WaitOver(w)
    \/ SyncStep(w)

Next ==
    \/ \E c \in Callers : CallerBegins(c) \/ CallerStep(c)
    \/ \E w \in Workers : WorkerStep(w)
    \/ AccountChanges

Spec == Init /\ [][Next]_vars

\* A thread that can run does: the OS schedules it, and a sync ends because the
\* client bounds every request.  Somebody keeps the settings page rendering.
\* Nothing else begins a call unless a user wants it to.
Fairness ==
    /\ \A c \in Callers : WF_vars(CallerStep(c))
    /\ \A w \in Workers : WF_vars(WorkerStep(w))
    /\ \A c \in Callers : SF_vars(Render(c))

FairSpec == Spec /\ Fairness

-----------------------------------------------------------------------------
(* Properties                                                              *)

\* Every variable stays within the values the code can give it.
TypeOK ==
    /\ enabled \in BOOLEAN /\ stored \in BOOLEAN /\ unsaved \in BOOLEAN
    /\ stopEvent \in BOOLEAN /\ connected \in BOOLEAN /\ serial \in BOOLEAN
    /\ thread \in Workers \cup {NoThread}
    /\ syncLock \in Threads \cup {NoThread}
    /\ service \in Services \cup {NoService}
    /\ open \in SUBSET Services
    /\ pc \in [Threads -> CallerPoints \cup WorkerPoints]
    /\ \A c \in Callers : pc[c] \in CallerPoints
    /\ \A w \in Workers : pc[w] \in WorkerPoints
    /\ mine \in [Callers -> Workers \cup {NoThread}]
    /\ using \in [Threads -> Services \cup {NoService}]
    /\ payload \in [Callers -> BOOLEAN]

\* The module docstring's promise: syncs, scheduled and manual alike, never
\* overlap, and the lock is held exactly while one runs -- no exit path of
\* sync_now, _tick_once or _sync_locked leaks it or releases another's.
SyncsNeverOverlap ==
    /\ \A t \in Threads : pc[t] \in SyncPoints <=> syncLock = t
    /\ \A t, u \in Threads : pc[t] \in SyncPoints /\ pc[u] \in SyncPoints => t = u

\* "Only ever one of them (start() is idempotent)", stated without condition.
OnlyOneWorker == \A v, w \in Workers : IsAlive(v) /\ IsAlive(w) => v = w

\* What the code does give: while no two lifecycle calls have overlapped, every
\* started or created worker is the one in `_thread`, whatever timeouts, stops
\* and restarts came before.
OneWorkerIfSerial ==
    serial => \A w \in Workers : pc[w] # "dead" => w = thread

\* stop() releases the dedicated service only after the worker is gone, so a
\* scheduled sync never loses its service under it (serial lifecycle calls).
ScheduledSyncKeepsService ==
    serial => \A w \in Workers : pc[w] = "sync" => using[w] \in open

\* The same for a manual sync: stop()'s docstring says a service is "left open
\* rather than closed out from under a running sync".
ManualSyncKeepsService ==
    \A c \in Callers : pc[c] = "sync" => using[c] \in open

\* The preference a restart would load is the one in memory, unless the last
\* write of the file failed or is still to come (serial lifecycle calls).
PreferenceDurable ==
    serial /\ ~unsaved /\ (\A c \in Callers : pc[c] \notin {"replace", "resave"})
        => stored = enabled

\* "Disabling stops the worker", even when stop() itself gave up waiting.
DisabledStops ==
    [](serial) /\ <>[](~enabled) => <>[](\A w \in Workers : ~IsAlive(w))

\* An enabled scheduler whose page keeps rendering, and that nobody retires, goes
\* on ticking: a stop event left set by a stop() that timed out is cleared by
\* the start() that replaces the dying worker.
EnabledTicks ==
    /\ <>[](enabled)
    /\ <>[](\A c \in Callers : pc[c] \notin {"stop", "signal"})
    => []<>(\E w \in Workers : pc[w] = "tick")

\* Every sync ends in a release of the lock: no outcome blocks later syncs.
SyncLockFreed == []<>(syncLock = NoThread)

-----------------------------------------------------------------------------
(* Inductive strengthenings, for the proofs                                *)

\* A caller about to call thread.start() holds a created thread of its own.
SpawnerOwnsThread ==
    /\ \A c \in Callers : pc[c] = "spawn" =>
         mine[c] \in Workers /\ pc[mine[c]] = "created"
    /\ \A c, d \in Callers : pc[c] = "spawn" /\ pc[d] = "spawn" /\ c # d =>
         mine[c] # mine[d]

LockInv == SpawnerOwnsThread /\ SyncsNeverOverlap

\* While lifecycle calls are serial: at most one is in progress, what it has
\* read of `_thread` is still so, and a thread it found finished is the last.
OneLifecycleCall ==
    \A c, d \in Callers :
        pc[c] \in LifecyclePoints /\ pc[d] \in LifecyclePoints => c = d

CreatedIsSpawning ==
    \A w \in Workers : pc[w] = "created" =>
        \E c \in Callers : pc[c] = "spawn" /\ mine[c] = w

StopperIsCurrent ==
    \A c \in Callers :
        /\ pc[c] \in {"spawn", "signal", "join", "joined"} => mine[c] = thread
        /\ pc[c] \in {"join", "joined"} => mine[c] # NoThread
        /\ pc[c] = "joined" => pc[mine[c]] = "dead"
        /\ pc[c] \in {"close", "closing"} => \A w \in Workers : pc[w] = "dead"

SerialInv ==
    serial =>
        /\ OneLifecycleCall
        /\ \A w \in Workers : pc[w] # "dead" => w = thread
        /\ CreatedIsSpawning
        /\ StopperIsCurrent

ServiceInv ==
    /\ service # NoService => service \in open
    /\ ScheduledSyncKeepsService

PreferenceInv ==
    /\ serial => \A c \in Callers :
         pc[c] \in {"replace", "resave"} => payload[c] = enabled
    /\ PreferenceDurable
=============================================================================
