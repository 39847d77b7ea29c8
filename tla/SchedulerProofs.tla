-------------------------- MODULE SchedulerProofs --------------------------
(****************************************************************************)
(* Proofs about LeetCodeSyncScheduler, for any number of UI threads, thread *)
(* objects and services.                                                    *)
(****************************************************************************)
EXTENDS Scheduler, TLAPS

USE SchedulerAssumption DEF Threads

\* Every step of a caller or a worker keeps every variable within its values.
THEOREM TypeCorrect == Spec => []TypeOK
<1>1. Init => TypeOK
  BY DEF Init, TypeOK, CallerPoints, WorkerPoints
<1>2. TypeOK /\ [Next]_vars => TypeOK'
  <2> SUFFICES ASSUME TypeOK, [Next]_vars PROVE TypeOK'
    OBVIOUS
  <2> USE DEF TypeOK, CallerPoints, WorkerPoints, LifecyclePoints, SyncPoints,
              Goto, prefVars, syncVars, Idle
  <2>1. ASSUME NEW c \in Callers, CallerBegins(c) PROVE TypeOK'
    <3>1. ASSUME NEW b \in BOOLEAN, SetEnabled(c, b) PROVE TypeOK'
      BY <3>1 DEF SetEnabled, EnterLifecycle
    <3>2. CASE SetInterval(c) BY <3>2 DEF SetInterval, EnterLifecycle
    <3>3. CASE Render(c) BY <3>3 DEF Render, EnterLifecycle
    <3>4. CASE StopCall(c) BY <3>4 DEF StopCall, EnterLifecycle
    <3>5. CASE SyncNow(c) BY <3>5 DEF SyncNow, Acquire
    <3> QED BY <2>1, <3>1, <3>2, <3>3, <3>4, <3>5 DEF CallerBegins
  <2>2. ASSUME NEW t \in Threads, SyncStep(t) PROVE TypeOK'
    <3>1. CASE BuildService(t) BY <3>1 DEF BuildService, FreeServices
    <3>2. CASE BuildFails(t) BY <3>2 DEF BuildFails, AfterSync
    <3>3. CASE ReturnService(t) BY <3>3 DEF ReturnService, AfterSync
    <3>4. CASE FinishSync(t) BY <3>4 DEF FinishSync, AfterSync
    <3> QED BY <2>2, <3>1, <3>2, <3>3, <3>4 DEF SyncStep
  <2>3. ASSUME NEW c \in Callers, CallerStep(c) PROVE TypeOK'
    <3>1. CASE SaveConfig(c) BY ZenonT(30), <3>1 DEF SaveConfig
    <3>2. CASE ApplyPreference(c) BY <3>2 DEF ApplyPreference
    <3>3. CASE EnsureEnabled(c) BY <3>3 DEF EnsureEnabled
    <3>4. CASE EnsureNotRunning(c) BY <3>4 DEF EnsureNotRunning
    <3>5. CASE StartCreate(c)
      <4>1. PICK w \in FreeWorkers :
              /\ thread' = w
              /\ mine' = [mine EXCEPT ![c] = w]
              /\ pc' = [pc EXCEPT ![c] = "spawn", ![w] = "created"]
        BY <3>5 DEF StartCreate
      <4>2. w \in Workers BY DEF FreeWorkers
      <4>3. pc' \in [Threads -> CallerPoints \cup WorkerPoints] BY <4>1, <4>2
      <4>4. \A d \in Callers : pc'[d] \in CallerPoints BY <4>1, <4>2
      <4>5. \A v \in Workers : pc'[v] \in WorkerPoints BY <4>1, <4>2
      <4>6. mine' \in [Callers -> Workers \cup {NoThread}] BY <4>1, <4>2
      <4> QED BY <3>5, <4>1, <4>2, <4>3, <4>4, <4>5, <4>6 DEF StartCreate
    <3>6. CASE StartAlreadyRunning(c) BY <3>6 DEF StartAlreadyRunning
    <3>7. CASE StartSpawn(c)
      <4>1. pc' = [pc EXCEPT ![c] = "idle", ![mine[c]] = "loop"]
        BY <3>7 DEF StartSpawn
      <4>2. mine[c] \in Workers \cup {NoThread} OBVIOUS
      <4>3. pc' \in [Threads -> CallerPoints \cup WorkerPoints] BY <4>1, <4>2
      <4>4. \A d \in Callers : pc'[d] \in CallerPoints BY <4>1, <4>2
      <4>5. \A v \in Workers : pc'[v] \in WorkerPoints BY <4>1, <4>2
      <4> QED BY <3>7, <4>3, <4>4, <4>5 DEF StartSpawn
    <3>8. CASE StopReadThread(c) BY <3>8 DEF StopReadThread
    <3>9. CASE StopSignal(c) BY <3>9 DEF StopSignal
    <3>10. CASE JoinFinished(c) BY <3>10 DEF JoinFinished
    <3>11. CASE JoinGaveUp(c) BY <3>11 DEF JoinGaveUp
    <3>12. CASE StopForget(c) BY <3>12 DEF StopForget
    <3>13. CASE CloseRead(c) BY <3>13 DEF CloseRead
    <3>14. CASE CloseService(c) BY <3>14 DEF CloseService
    <3>15. CASE SyncStep(c) BY <3>15, <2>2
    <3> QED
      BY <2>3, <3>1, <3>2, <3>3, <3>4, <3>5, <3>6, <3>7, <3>8, <3>9, <3>10,
         <3>11, <3>12, <3>13, <3>14, <3>15 DEF CallerStep
  <2>4. ASSUME NEW w \in Workers, WorkerStep(w) PROVE TypeOK'
    <3> USE DEF WorkerMove
    <3>1. CASE LoopCheck(w) BY <3>1 DEF LoopCheck
    <3>2. CASE TickEnabled(w) BY <3>2 DEF TickEnabled
    <3>3. CASE TickConnected(w) BY <3>3 DEF TickConnected
    <3>4. CASE TickLock(w) BY <3>4 DEF TickLock, Acquire
    <3>5. CASE TickLockBusy(w) BY <3>5 DEF TickLockBusy
    <3>6. CASE AfterTick(w) BY <3>6 DEF AfterTick
    <3>7. CASE WaitOver(w) BY <3>7 DEF WaitOver
    <3>8. CASE SyncStep(w) BY <3>8, <2>2
    <3> QED
      BY <2>4, <3>1, <3>2, <3>3, <3>4, <3>5, <3>6, <3>7, <3>8 DEF WorkerStep
  <2>5. CASE AccountChanges BY <2>5 DEF AccountChanges
  <2>6. CASE UNCHANGED vars BY <2>6 DEF vars
  <2> QED BY <2>1, <2>3, <2>4, <2>5, <2>6 DEF Next
<1> QED BY <1>1, <1>2, PTL DEF Spec
-----------------------------------------------------------------------------
\* A lock holder is exactly a thread inside a sync; a thread object handed to
\* start() is still unstarted when its creator starts it.
LEMMA LockInvStep == TypeOK /\ LockInv /\ [Next]_vars => LockInv'
<1> SUFFICES ASSUME TypeOK, LockInv, [Next]_vars PROVE LockInv'
  OBVIOUS
<1> USE DEF TypeOK, LockInv, SpawnerOwnsThread, SyncsNeverOverlap,
            CallerPoints, WorkerPoints, LifecyclePoints,
            SyncPoints, Goto, prefVars, syncVars, Idle
<1>1. ASSUME NEW c \in Callers, CallerBegins(c) PROVE LockInv'
  <2>1. ASSUME NEW b \in BOOLEAN, SetEnabled(c, b) PROVE LockInv'
    BY <2>1 DEF SetEnabled, EnterLifecycle
  <2>2. CASE SetInterval(c) BY <2>2 DEF SetInterval, EnterLifecycle
  <2>3. CASE Render(c) BY <2>3 DEF Render, EnterLifecycle
  <2>4. CASE StopCall(c) BY <2>4 DEF StopCall, EnterLifecycle
  <2>5. CASE SyncNow(c) BY <2>5 DEF SyncNow, Acquire
  <2> QED BY <1>1, <2>1, <2>2, <2>3, <2>4, <2>5 DEF CallerBegins
<1>2. ASSUME NEW t \in Threads, SyncStep(t) PROVE LockInv'
  <2>1. CASE BuildService(t) BY <2>1 DEF BuildService, FreeServices
  <2>2. CASE BuildFails(t) BY <2>2 DEF BuildFails, AfterSync
  <2>3. CASE ReturnService(t) BY <2>3 DEF ReturnService, AfterSync
  <2>4. CASE FinishSync(t) BY <2>4 DEF FinishSync, AfterSync
  <2> QED BY <1>2, <2>1, <2>2, <2>3, <2>4 DEF SyncStep
<1>3. ASSUME NEW c \in Callers, CallerStep(c) PROVE LockInv'
  <2>1. CASE SaveConfig(c) BY <2>1 DEF SaveConfig
  <2>2. CASE ApplyPreference(c) BY <2>2 DEF ApplyPreference
  <2>3. CASE EnsureEnabled(c) BY <2>3 DEF EnsureEnabled
  <2>4. CASE EnsureNotRunning(c) BY <2>4 DEF EnsureNotRunning, IsRunning, IsAlive
  <2>5. CASE StartCreate(c) BY <2>5 DEF StartCreate, FreeWorkers
  <2>6. CASE StartAlreadyRunning(c) BY <2>6 DEF StartAlreadyRunning, IsRunning, IsAlive
  <2>7. CASE StartSpawn(c) BY <2>7 DEF StartSpawn
  <2>8. CASE StopReadThread(c) BY <2>8 DEF StopReadThread
  <2>9. CASE StopSignal(c) BY <2>9 DEF StopSignal
  <2>10. CASE JoinFinished(c) BY <2>10 DEF JoinFinished
  <2>11. CASE JoinGaveUp(c) BY <2>11 DEF JoinGaveUp
  <2>12. CASE StopForget(c) BY <2>12 DEF StopForget
  <2>13. CASE CloseRead(c) BY <2>13 DEF CloseRead
  <2>14. CASE CloseService(c) BY <2>14 DEF CloseService
  <2>15. CASE SyncStep(c) BY <2>15, <1>2
  <2> QED
    BY <1>3, <2>1, <2>2, <2>3, <2>4, <2>5, <2>6, <2>7, <2>8, <2>9, <2>10,
       <2>11, <2>12, <2>13, <2>14, <2>15 DEF CallerStep
<1>4. ASSUME NEW w \in Workers, WorkerStep(w) PROVE LockInv'
  <2> USE DEF WorkerMove
  <2>1. CASE LoopCheck(w) BY <2>1 DEF LoopCheck
  <2>2. CASE TickEnabled(w) BY <2>2 DEF TickEnabled
  <2>3. CASE TickConnected(w) BY <2>3 DEF TickConnected
  <2>4. CASE TickLock(w) BY <2>4 DEF TickLock, Acquire
  <2>5. CASE TickLockBusy(w) BY <2>5 DEF TickLockBusy
  <2>6. CASE AfterTick(w) BY <2>6 DEF AfterTick
  <2>7. CASE WaitOver(w) BY <2>7 DEF WaitOver
  <2>8. CASE SyncStep(w) BY <2>8, <1>2
  <2> QED
    BY <1>4, <2>1, <2>2, <2>3, <2>4, <2>5, <2>6, <2>7, <2>8 DEF WorkerStep
<1>5. CASE AccountChanges BY <1>5 DEF AccountChanges
<1>6. CASE UNCHANGED vars BY <1>6 DEF vars
<1> QED BY <1>1, <1>3, <1>4, <1>5, <1>6 DEF Next

\* Two syncs never overlap, and the sync lock is held exactly while one runs,
\* for any number of callers, workers and services.
THEOREM SyncMutualExclusion == Spec => []SyncsNeverOverlap
<1>1. Init => LockInv
  BY DEF Init, LockInv, SpawnerOwnsThread, SyncsNeverOverlap, SyncPoints
<1>2. LockInv => SyncsNeverOverlap
  BY DEF LockInv
<1> QED BY <1>1, <1>2, TypeCorrect, LockInvStep, PTL DEF Spec

-----------------------------------------------------------------------------
\* While lifecycle calls do not overlap, `_thread` is the only thread object
\* that is not finished.
LEMMA SerialInvStep == TypeOK /\ LockInv /\ SerialInv /\ [Next]_vars => SerialInv'
<1> SUFFICES ASSUME TypeOK, LockInv, SerialInv, [Next]_vars PROVE SerialInv'
  OBVIOUS
<1> USE DEF TypeOK, LockInv, SpawnerOwnsThread, SerialInv, OneLifecycleCall,
            CreatedIsSpawning, StopperIsCurrent, CallerPoints, WorkerPoints, LifecyclePoints,
            SyncPoints, Goto, prefVars, syncVars, Idle
<1>1. ASSUME NEW c \in Callers, CallerBegins(c) PROVE SerialInv'
  <2>1. ASSUME NEW b \in BOOLEAN, SetEnabled(c, b) PROVE SerialInv'
    BY ZenonT(30), <2>1 DEF SetEnabled, EnterLifecycle
  <2>2. CASE SetInterval(c) BY ZenonT(30), <2>2 DEF SetInterval, EnterLifecycle
  <2>3. CASE Render(c) BY ZenonT(30), <2>3 DEF Render, EnterLifecycle
  <2>4. CASE StopCall(c) BY ZenonT(30), <2>4 DEF StopCall, EnterLifecycle
  <2>5. CASE SyncNow(c) BY <2>5 DEF SyncNow, Acquire
  <2> QED BY <1>1, <2>1, <2>2, <2>3, <2>4, <2>5 DEF CallerBegins
<1>2. ASSUME NEW t \in Threads, SyncStep(t) PROVE SerialInv'
  <2>1. CASE BuildService(t) BY <2>1 DEF BuildService, FreeServices
  <2>2. CASE BuildFails(t) BY <2>2 DEF BuildFails, AfterSync
  <2>3. CASE ReturnService(t) BY <2>3 DEF ReturnService, AfterSync
  <2>4. CASE FinishSync(t) BY <2>4 DEF FinishSync, AfterSync
  <2> QED BY <1>2, <2>1, <2>2, <2>3, <2>4 DEF SyncStep
<1>3. ASSUME NEW c \in Callers, CallerStep(c) PROVE SerialInv'
  <2>1. CASE SaveConfig(c) BY <2>1 DEF SaveConfig
  <2>2. CASE ApplyPreference(c) BY <2>2 DEF ApplyPreference
  <2>3. CASE EnsureEnabled(c) BY <2>3 DEF EnsureEnabled
  <2>4. CASE EnsureNotRunning(c) BY <2>4 DEF EnsureNotRunning, IsRunning, IsAlive
  <2>5. CASE StartCreate(c)
    <3>1. PICK w \in FreeWorkers :
            /\ thread' = w
            /\ mine' = [mine EXCEPT ![c] = w]
            /\ pc' = [pc EXCEPT ![c] = "spawn", ![w] = "created"]
      BY <2>5 DEF StartCreate
    <3>2. w \in Workers /\ serial' = serial /\ pc[c] = "start" /\ ~IsRunning
      BY <2>5 DEF FreeWorkers, StartCreate
    <3>3. serial => \A v \in Workers : pc[v] = "dead"
      BY <3>2 DEF IsRunning, IsAlive
    <3> QED BY <3>1, <3>2, <3>3
  <2>6. CASE StartAlreadyRunning(c) BY <2>6 DEF StartAlreadyRunning, IsRunning, IsAlive
  <2>7. CASE StartSpawn(c) BY <2>7 DEF StartSpawn
  <2>8. CASE StopReadThread(c) BY <2>8 DEF StopReadThread
  <2>9. CASE StopSignal(c) BY <2>9 DEF StopSignal
  <2>10. CASE JoinFinished(c) BY <2>10 DEF JoinFinished
  <2>11. CASE JoinGaveUp(c) BY <2>11 DEF JoinGaveUp
  <2>12. CASE StopForget(c) BY <2>12 DEF StopForget
  <2>13. CASE CloseRead(c) BY <2>13 DEF CloseRead
  <2>14. CASE CloseService(c) BY <2>14 DEF CloseService
  <2>15. CASE SyncStep(c) BY <2>15, <1>2
  <2> QED
    BY <1>3, <2>1, <2>2, <2>3, <2>4, <2>5, <2>6, <2>7, <2>8, <2>9, <2>10,
       <2>11, <2>12, <2>13, <2>14, <2>15 DEF CallerStep
<1>4. ASSUME NEW w \in Workers, WorkerStep(w) PROVE SerialInv'
  <2> USE DEF WorkerMove
  <2>1. CASE LoopCheck(w) BY <2>1 DEF LoopCheck
  <2>2. CASE TickEnabled(w) BY <2>2 DEF TickEnabled
  <2>3. CASE TickConnected(w) BY <2>3 DEF TickConnected
  <2>4. CASE TickLock(w) BY <2>4 DEF TickLock, Acquire
  <2>5. CASE TickLockBusy(w) BY <2>5 DEF TickLockBusy
  <2>6. CASE AfterTick(w) BY <2>6 DEF AfterTick
  <2>7. CASE WaitOver(w) BY <2>7 DEF WaitOver
  <2>8. CASE SyncStep(w) BY <2>8, <1>2
  <2> QED
    BY <1>4, <2>1, <2>2, <2>3, <2>4, <2>5, <2>6, <2>7, <2>8 DEF WorkerStep
<1>5. CASE AccountChanges BY <1>5 DEF AccountChanges
<1>6. CASE UNCHANGED vars BY <1>6 DEF vars
<1> QED BY <1>1, <1>3, <1>4, <1>5, <1>6 DEF Next

\* At most one worker exists while lifecycle calls do not overlap, however many
\* UI threads there are and whatever stops, timeouts and restarts came before.
THEOREM OneWorker == Spec => []OneWorkerIfSerial
<1>1. Init => LockInv /\ SerialInv
  BY DEF Init, LockInv, SpawnerOwnsThread, SyncsNeverOverlap, SyncPoints, SerialInv,
         OneLifecycleCall, CreatedIsSpawning, StopperIsCurrent, LifecyclePoints
<1>2. SerialInv => OneWorkerIfSerial
  BY DEF SerialInv, OneWorkerIfSerial
<1> QED BY <1>1, <1>2, TypeCorrect, LockInvStep, SerialInvStep, PTL DEF Spec

-----------------------------------------------------------------------------
\* The service the scheduler holds is open, and so is one a worker syncs with.
LEMMA ServiceInvStep ==
    TypeOK /\ LockInv /\ SerialInv /\ ServiceInv /\ [Next]_vars => ServiceInv'
<1> SUFFICES ASSUME TypeOK, LockInv, SerialInv, ServiceInv, [Next]_vars
             PROVE  ServiceInv'
  OBVIOUS
<1> USE DEF TypeOK, LockInv, SpawnerOwnsThread, SerialInv, OneLifecycleCall,
            CreatedIsSpawning, StopperIsCurrent, ServiceInv, ScheduledSyncKeepsService,
            CallerPoints, WorkerPoints, LifecyclePoints,
            SyncPoints, Goto, prefVars, syncVars, Idle
<1>1. ASSUME NEW c \in Callers, CallerBegins(c) PROVE ServiceInv'
  <2>1. ASSUME NEW b \in BOOLEAN, SetEnabled(c, b) PROVE ServiceInv'
    BY <2>1 DEF SetEnabled, EnterLifecycle
  <2>2. CASE SetInterval(c) BY <2>2 DEF SetInterval, EnterLifecycle
  <2>3. CASE Render(c) BY <2>3 DEF Render, EnterLifecycle
  <2>4. CASE StopCall(c) BY <2>4 DEF StopCall, EnterLifecycle
  <2>5. CASE SyncNow(c) BY <2>5 DEF SyncNow, Acquire
  <2> QED BY <1>1, <2>1, <2>2, <2>3, <2>4, <2>5 DEF CallerBegins
<1>2. ASSUME NEW t \in Threads, SyncStep(t) PROVE ServiceInv'
  <2>1. CASE BuildService(t) BY <2>1 DEF BuildService, FreeServices
  <2>2. CASE BuildFails(t) BY <2>2 DEF BuildFails, AfterSync
  <2>3. CASE ReturnService(t) BY <2>3 DEF ReturnService, AfterSync
  <2>4. CASE FinishSync(t) BY <2>4 DEF FinishSync, AfterSync
  <2> QED BY <1>2, <2>1, <2>2, <2>3, <2>4 DEF SyncStep
<1>3. ASSUME NEW c \in Callers, CallerStep(c) PROVE ServiceInv'
  <2>1. CASE SaveConfig(c) BY <2>1 DEF SaveConfig
  <2>2. CASE ApplyPreference(c) BY <2>2 DEF ApplyPreference
  <2>3. CASE EnsureEnabled(c) BY <2>3 DEF EnsureEnabled
  <2>4. CASE EnsureNotRunning(c) BY <2>4 DEF EnsureNotRunning, IsRunning, IsAlive
  <2>5. CASE StartCreate(c) BY <2>5 DEF StartCreate, FreeWorkers
  <2>6. CASE StartAlreadyRunning(c) BY <2>6 DEF StartAlreadyRunning, IsRunning, IsAlive
  <2>7. CASE StartSpawn(c) BY <2>7 DEF StartSpawn
  <2>8. CASE StopReadThread(c) BY <2>8 DEF StopReadThread
  <2>9. CASE StopSignal(c) BY <2>9 DEF StopSignal
  <2>10. CASE JoinFinished(c) BY <2>10 DEF JoinFinished
  <2>11. CASE JoinGaveUp(c) BY <2>11 DEF JoinGaveUp
  <2>12. CASE StopForget(c) BY <2>12 DEF StopForget
  <2>13. CASE CloseRead(c) BY <2>13 DEF CloseRead
  <2>14. CASE CloseService(c) BY <2>14 DEF CloseService
  <2>15. CASE SyncStep(c) BY <2>15, <1>2
  <2> QED
    BY <1>3, <2>1, <2>2, <2>3, <2>4, <2>5, <2>6, <2>7, <2>8, <2>9, <2>10,
       <2>11, <2>12, <2>13, <2>14, <2>15 DEF CallerStep
<1>4. ASSUME NEW w \in Workers, WorkerStep(w) PROVE ServiceInv'
  <2> USE DEF WorkerMove
  <2>1. CASE LoopCheck(w) BY <2>1 DEF LoopCheck
  <2>2. CASE TickEnabled(w) BY <2>2 DEF TickEnabled
  <2>3. CASE TickConnected(w) BY <2>3 DEF TickConnected
  <2>4. CASE TickLock(w) BY <2>4 DEF TickLock, Acquire
  <2>5. CASE TickLockBusy(w) BY <2>5 DEF TickLockBusy
  <2>6. CASE AfterTick(w) BY <2>6 DEF AfterTick
  <2>7. CASE WaitOver(w) BY <2>7 DEF WaitOver
  <2>8. CASE SyncStep(w) BY <2>8, <1>2
  <2> QED
    BY <1>4, <2>1, <2>2, <2>3, <2>4, <2>5, <2>6, <2>7, <2>8 DEF WorkerStep
<1>5. CASE AccountChanges BY <1>5 DEF AccountChanges
<1>6. CASE UNCHANGED vars BY <1>6 DEF vars
<1> QED BY <1>1, <1>3, <1>4, <1>5, <1>6 DEF Next

\* stop() never closes the service of a scheduled sync that is running, while
\* lifecycle calls do not overlap.
THEOREM ScheduledSyncSafe == Spec => []ScheduledSyncKeepsService
<1>1. Init => LockInv /\ SerialInv /\ ServiceInv
  BY DEF Init, LockInv, SpawnerOwnsThread, SyncsNeverOverlap, SyncPoints, SerialInv,
         OneLifecycleCall, CreatedIsSpawning, StopperIsCurrent, LifecyclePoints,
         ServiceInv, ScheduledSyncKeepsService
<1>2. ServiceInv => ScheduledSyncKeepsService
  BY DEF ServiceInv
<1> QED
  BY <1>1, <1>2, TypeCorrect, LockInvStep, SerialInvStep, ServiceInvStep, PTL DEF Spec

-----------------------------------------------------------------------------
\* A caller about to write the file writes the preference in memory.
LEMMA PreferenceInvStep ==
    TypeOK /\ SerialInv /\ PreferenceInv /\ [Next]_vars => PreferenceInv'
<1> SUFFICES ASSUME TypeOK, SerialInv, PreferenceInv, [Next]_vars
             PROVE  PreferenceInv'
  OBVIOUS
<1> USE DEF TypeOK, SerialInv, OneLifecycleCall, PreferenceInv,
            PreferenceDurable, CallerPoints, WorkerPoints, LifecyclePoints,
            SyncPoints, Goto, prefVars, syncVars, Idle
<1>1. ASSUME NEW c \in Callers, CallerBegins(c) PROVE PreferenceInv'
  <2>1. ASSUME NEW b \in BOOLEAN, SetEnabled(c, b) PROVE PreferenceInv'
    BY <2>1 DEF SetEnabled, EnterLifecycle
  <2>2. CASE SetInterval(c) BY <2>2 DEF SetInterval, EnterLifecycle
  <2>3. CASE Render(c) BY <2>3 DEF Render, EnterLifecycle
  <2>4. CASE StopCall(c) BY <2>4 DEF StopCall, EnterLifecycle
  <2>5. CASE SyncNow(c) BY <2>5 DEF SyncNow, Acquire
  <2> QED BY <1>1, <2>1, <2>2, <2>3, <2>4, <2>5 DEF CallerBegins
<1>2. ASSUME NEW t \in Threads, SyncStep(t) PROVE PreferenceInv'
  <2>1. CASE BuildService(t) BY <2>1 DEF BuildService, FreeServices
  <2>2. CASE BuildFails(t) BY <2>2 DEF BuildFails, AfterSync
  <2>3. CASE ReturnService(t) BY <2>3 DEF ReturnService, AfterSync
  <2>4. CASE FinishSync(t) BY <2>4 DEF FinishSync, AfterSync
  <2> QED BY <1>2, <2>1, <2>2, <2>3, <2>4 DEF SyncStep
<1>3. ASSUME NEW c \in Callers, CallerStep(c) PROVE PreferenceInv'
  <2>1. CASE SaveConfig(c) BY <2>1 DEF SaveConfig
  <2>2. CASE ApplyPreference(c) BY <2>2 DEF ApplyPreference
  <2>3. CASE EnsureEnabled(c) BY <2>3 DEF EnsureEnabled
  <2>4. CASE EnsureNotRunning(c) BY <2>4 DEF EnsureNotRunning, IsRunning, IsAlive
  <2>5. CASE StartCreate(c) BY <2>5 DEF StartCreate, FreeWorkers
  <2>6. CASE StartAlreadyRunning(c) BY <2>6 DEF StartAlreadyRunning, IsRunning, IsAlive
  <2>7. CASE StartSpawn(c) BY <2>7 DEF StartSpawn
  <2>8. CASE StopReadThread(c) BY <2>8 DEF StopReadThread
  <2>9. CASE StopSignal(c) BY <2>9 DEF StopSignal
  <2>10. CASE JoinFinished(c) BY <2>10 DEF JoinFinished
  <2>11. CASE JoinGaveUp(c) BY <2>11 DEF JoinGaveUp
  <2>12. CASE StopForget(c) BY <2>12 DEF StopForget
  <2>13. CASE CloseRead(c) BY <2>13 DEF CloseRead
  <2>14. CASE CloseService(c) BY <2>14 DEF CloseService
  <2>15. CASE SyncStep(c) BY <2>15, <1>2
  <2> QED
    BY <1>3, <2>1, <2>2, <2>3, <2>4, <2>5, <2>6, <2>7, <2>8, <2>9, <2>10,
       <2>11, <2>12, <2>13, <2>14, <2>15 DEF CallerStep
<1>4. ASSUME NEW w \in Workers, WorkerStep(w) PROVE PreferenceInv'
  <2> USE DEF WorkerMove
  <2>1. CASE LoopCheck(w) BY <2>1 DEF LoopCheck
  <2>2. CASE TickEnabled(w) BY <2>2 DEF TickEnabled
  <2>3. CASE TickConnected(w) BY <2>3 DEF TickConnected
  <2>4. CASE TickLock(w) BY <2>4 DEF TickLock, Acquire
  <2>5. CASE TickLockBusy(w) BY <2>5 DEF TickLockBusy
  <2>6. CASE AfterTick(w) BY <2>6 DEF AfterTick
  <2>7. CASE WaitOver(w) BY <2>7 DEF WaitOver
  <2>8. CASE SyncStep(w) BY <2>8, <1>2
  <2> QED
    BY <1>4, <2>1, <2>2, <2>3, <2>4, <2>5, <2>6, <2>7, <2>8 DEF WorkerStep
<1>5. CASE AccountChanges BY <1>5 DEF AccountChanges
<1>6. CASE UNCHANGED vars BY <1>6 DEF vars
<1> QED BY <1>1, <1>3, <1>4, <1>5, <1>6 DEF Next

\* A restart loads the preference in memory, unless the last write failed or is
\* still to come, while lifecycle calls do not overlap.
THEOREM PreferenceSurvives == Spec => []PreferenceDurable
<1>1. Init => LockInv /\ SerialInv /\ PreferenceInv
  BY DEF Init, LockInv, SpawnerOwnsThread, SyncsNeverOverlap, SyncPoints, SerialInv,
         OneLifecycleCall, CreatedIsSpawning, StopperIsCurrent, LifecyclePoints,
         PreferenceInv, PreferenceDurable
<1>2. PreferenceInv => PreferenceDurable
  BY DEF PreferenceInv
<1> QED
  BY <1>1, <1>2, TypeCorrect, LockInvStep, SerialInvStep, PreferenceInvStep, PTL DEF Spec
=============================================================================
