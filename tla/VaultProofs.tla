---------------------------- MODULE VaultProofs ----------------------------
(***************************************************************************)
(* Proofs about the credential vault, for any number of threads, accounts, *)
(* keys and secrets.                                                       *)
(***************************************************************************)
EXTENDS Vault, TLAPS

USE VaultAssumption

-----------------------------------------------------------------------------
(* Types                                                                   *)

\* A task on its way to storing has what it is to store, and from validation on
\* the key to seal it with; so has one that has generated a key.
TaskReady ==
    \A t \in VaultThreads :
        /\ task[t].op = "store" => task[t].secret # Missing
        /\ task[t].at \in {"validate", "put", "truncate", "dump"} =>
               task[t].op = "store"
        /\ task[t].at \in {"generated", "put", "truncate", "dump"} =>
               task[t].key # Missing

VaultTyped == VaultTypeOK /\ TaskReady

LEMMA SealedTyped ==
  ASSUME VaultTyped, NEW t \in VaultThreads,
         task[t].at \in {"put", "truncate", "dump"}
  PROVE  /\ Sealed(t) \in Payload
         /\ task[t].secret \in Secret /\ task[t].id \in Identifiers
  BY DEF VaultTyped, VaultTypeOK, TaskReady, Task, Sealed, Payload

\* What a step of one thread may leave of its task.
LEMMA TaskTyped ==
  ASSUME VaultTyped, NEW t \in VaultThreads, NEW n \in Task,
         n.op = "store" => n.secret # Missing,
         n.at \in {"validate", "put", "truncate", "dump"} => n.op = "store",
         n.at \in {"generated", "put", "truncate", "dump"} => n.key # Missing,
         task' = [task EXCEPT ![t] = n]
  PROVE  task' \in [VaultThreads -> Task] /\ TaskReady'
  BY DEF VaultTyped, VaultTypeOK, TaskReady

LEMMA NoTaskTyped ==
  NoTask \in Task /\ NoTask.op # "store"
      /\ NoTask.at = "idle"
  BY DEF NoTask, Task, Identifiers

LEMMA DoneTyped ==
  ASSUME VaultTyped, NEW t \in VaultThreads, Done(t)
  PROVE  task' \in [VaultThreads -> Task] /\ TaskReady'
  BY TaskTyped, NoTaskTyped DEF Done

LEMMA StepTyped ==
  ASSUME VaultTyped, NEW t \in VaultThreads, NEW point, Step(t, point),
         point \in {"put", "truncate", "dump", "open", "unlink"},
         point \in {"put", "truncate", "dump"} =>
             task[t].op = "store" /\ task[t].key # Missing
  PROVE  task' \in [VaultThreads -> Task] /\ TaskReady'
<1> DEFINE n == [task[t] EXCEPT !.at = point]
<1>1. task[t] \in Task BY DEF VaultTyped, VaultTypeOK
<1>2. n \in Task /\ n.op = task[t].op /\ n.secret = task[t].secret
      /\ n.key = task[t].key /\ n.at = point
  BY <1>1 DEF Task
<1>3. task' = [task EXCEPT ![t] = n] BY DEF Step
<1>4. task[t].op = "store" => task[t].secret # Missing
  BY DEF VaultTyped, TaskReady
<1> HIDE DEF n
<1> QED BY <1>2, <1>3, <1>4, TaskTyped

\* The vault is built, with a key or without.
LEMMA BuiltTyped ==
  ASSUME VaultTyped, NEW t \in VaultThreads, NEW k \in MasterKeys \cup {Missing},
         task' = [task EXCEPT ![t].key = k, ![t].at = AfterBuild(task[t].op)]
  PROVE  task' \in [VaultThreads -> Task] /\ TaskReady'
<1> DEFINE n == [task[t] EXCEPT !.key = k, !.at = AfterBuild(task[t].op)]
<1>1. task[t] \in Task BY DEF VaultTyped, VaultTypeOK
<1>2. task[t].op \in {"store", "retrieve", "revoke"} BY <1>1 DEF Task
<1>3. /\ AfterBuild(task[t].op) \in {"validate", "get", "delete"}
      /\ AfterBuild(task[t].op) = "validate" => task[t].op = "store"
  BY <1>2 DEF AfterBuild
<1>4. n \in Task /\ n.op = task[t].op /\ n.secret = task[t].secret
      /\ n.at = AfterBuild(task[t].op)
  BY <1>1, <1>3 DEF Task
<1>5. task' = [task EXCEPT ![t] = n] OBVIOUS
<1>6. task[t].op = "store" => task[t].secret # Missing
  BY DEF VaultTyped, TaskReady
<1>7. n.at \notin {"generated", "put", "truncate", "dump"} BY <1>3, <1>4
<1>8. n.at \in {"validate", "put", "truncate", "dump"} => n.op = "store"
  BY <1>3, <1>4, <1>7
<1> HIDE DEF n
<1> QED BY <1>4, <1>5, <1>6, <1>7, <1>8, TaskTyped

LEMMA BeginTyped ==
  ASSUME VaultTyped, NEW t \in VaultThreads,
         NEW o \in {"store", "retrieve", "revoke"}, Begin(t, o)
  PROVE  VaultTyped'
<1> DEFINE n == [at |-> "master", op |-> o, id |-> linked, key |-> Missing,
                 secret |-> IF o = "store" THEN entered' ELSE Missing,
                 doomed |-> IF o = "revoke" THEN kept[linked] ELSE {},
                 deleted |-> FALSE]
<1>1. entered' \in 0..MaxSecrets /\ (o = "store" => entered' \in Secret)
  BY DEF Begin, VaultTyped, VaultTypeOK, Secret
<1>2. linked \in Identifiers /\ kept[linked] \in SUBSET Secret
  BY DEF VaultTyped, VaultTypeOK
<1>3. n \in Task BY <1>1, <1>2 DEF Task
<1>4. task' = [task EXCEPT ![t] = n] BY DEF Begin
<1>5. n.op = "store" => n.secret # Missing BY <1>1 DEF Secret
<1>6. n.at = "master" OBVIOUS
<1> HIDE DEF n
<1>7. task' \in [VaultThreads -> Task] /\ TaskReady'
  BY <1>3, <1>4, <1>5, <1>6, TaskTyped
<1> QED BY <1>1, <1>7 DEF Begin, VaultTyped, VaultTypeOK, past

LEMMA KeepTyped ==
  ASSUME VaultTyped, NEW t \in VaultThreads, task[t].at \in {"put", "dump"}, Keep(t)
  PROVE  /\ kept' \in [Identifiers -> SUBSET Secret]
         /\ latest' \in [Identifiers -> Secret \cup {Missing}]
         /\ revoked' \in [Identifiers -> SUBSET Secret]
         /\ raced' \in SUBSET Identifiers
  BY SealedTyped DEF Keep, Id, VaultTyped, VaultTypeOK

LEMMA VaultTypedAlways == VaultSpec => []VaultTyped
<1>1. VaultInit => VaultTyped
  <2>1. VaultInit => VaultTypeOK
    BY NoTaskTyped DEF VaultInit, VaultTypeOK, Identifiers
  <2> QED BY <2>1, NoTaskTyped DEF VaultInit, VaultTyped, TaskReady
<1>2. VaultTyped /\ [VaultNext]_vaultVars => VaultTyped'
  <2> SUFFICES ASSUME VaultTyped, [VaultNext]_vaultVars PROVE VaultTyped'
    OBVIOUS
  <2>0. VaultTypeOK /\ TaskReady BY DEF VaultTyped
  <2>1. ASSUME NEW t \in VaultThreads PROVE task[t] \in Task /\ Id(t) \in Identifiers
    BY <2>0 DEF VaultTypeOK, Task, Id
  <2>2. ASSUME NEW t \in VaultThreads, VaultStep(t) PROVE VaultTyped'
    <3> DEFINE Same == UNCHANGED <<linked, master, ring, fallback, entered, past>>
               Tasks == task' \in [VaultThreads -> Task] /\ TaskReady'
    <3>1. Same /\ Tasks => VaultTyped'
      BY <2>0 DEF VaultTyped, VaultTypeOK, past
    <3>2. ASSUME NEW o \in {"store", "retrieve", "revoke"}, Begin(t, o)
          PROVE  VaultTyped'
      BY <3>2, BeginTyped
    <3>3. CASE ReadMaster(t)
      <4>1. master[Id(t)] \in MasterKeys BY <2>0, <2>1, <3>3 DEF ReadMaster, VaultTypeOK
      <4> QED BY <3>1, <3>3, <4>1, BuiltTyped DEF ReadMaster
    <3>4. CASE GenerateMaster(t)
      <4>1. PICK k \in MasterKeys :
                task' = [task EXCEPT ![t].key = k, ![t].at = "generated"]
        BY <3>4 DEF GenerateMaster
      <4> DEFINE n == [task[t] EXCEPT !.key = k, !.at = "generated"]
      <4>2. n \in Task /\ n.op = task[t].op /\ n.secret = task[t].secret
            /\ n.at = "generated" /\ n.key = k /\ k # Missing
        BY <2>1 DEF Task
      <4>3. task' = [task EXCEPT ![t] = n] BY <4>1
      <4>4. task[t].op = "store" => task[t].secret # Missing BY <2>0 DEF TaskReady
      <4> HIDE DEF n
      <4>5. Tasks BY <4>2, <4>3, <4>4, TaskTyped
      <4> QED BY <3>1, <3>4, <4>5 DEF GenerateMaster
    <3>5. CASE WriteMaster(t)
      <4>1. task[t].key \in MasterKeys
        BY <2>0, <2>1, <3>5 DEF Task, WriteMaster, At, TaskReady
      <4>2. task' = [task EXCEPT ![t].key = task[t].key,
                                 ![t].at = AfterBuild(task[t].op)]
        BY <2>0, <2>1, <3>5 DEF WriteMaster, Step, VaultTypeOK, Task
      <4>3. Tasks BY <4>1, <4>2, BuiltTyped
      <4>4. master' \in [Identifiers -> MasterKeys \cup {Missing}]
            /\ raced' \in SUBSET Identifiers
        BY <2>0, <2>1, <3>5, <4>1 DEF WriteMaster, VaultTypeOK
      <4> QED BY <2>0, <3>5, <4>3, <4>4 DEF WriteMaster, VaultTyped, VaultTypeOK
    <3>6. CASE MasterRefused(t) BY <3>1, <3>6, BuiltTyped DEF MasterRefused
    <3>7. CASE Validated(t)
      <4>1. task[t].op = "store" /\ task[t].key # Missing
        BY <2>0, <3>7 DEF Validated, At, TaskReady
      <4> QED BY <3>1, <3>7, <4>1, StepTyped DEF Validated
    <3>8. CASE StoreRefused(t) BY <3>1, <3>8, DoneTyped DEF StoreRefused
    <3>9. CASE PutRing(t)
      <4>1. task[t].at = "put" BY <3>9 DEF PutRing, At
      <4>2. ring' \in [Identifiers -> Payload \cup {Missing}]
        BY <2>0, <2>1, <3>9, <4>1, SealedTyped DEF PutRing, VaultTypeOK
      <4>3. Tasks BY <3>9, DoneTyped DEF PutRing
      <4>4. Keep(t) BY <3>9 DEF PutRing
      <4> QED BY <2>0, <3>9, <4>1, <4>2, <4>3, <4>4, KeepTyped
           DEF PutRing, VaultTyped, VaultTypeOK
    <3>10. CASE PutRefused(t)
      <4>1. task[t].op = "store" /\ task[t].key # Missing
        BY <2>0, <3>10 DEF PutRefused, At, TaskReady
      <4>2. Tasks BY <3>10, <4>1, StepTyped DEF PutRefused
      <4>3. fellBack' \in SUBSET Identifiers
        BY <2>0, <2>1, <3>10 DEF PutRefused, VaultTypeOK
      <4> QED BY <2>0, <3>10, <4>2, <4>3 DEF PutRefused, VaultTyped, VaultTypeOK
    <3>11. CASE TruncateFile(t)
      <4>1. task[t].op = "store" /\ task[t].key # Missing
        BY <2>0, <3>11 DEF TruncateFile, At, TaskReady
      <4>2. Tasks BY <3>11, <4>1, StepTyped DEF TruncateFile
      <4>3. fallback' \in [Identifiers -> Payload \cup {Missing, Torn}]
        BY <2>0, <2>1, <3>11 DEF TruncateFile, VaultTypeOK
      <4> QED BY <2>0, <3>11, <4>2, <4>3 DEF TruncateFile, VaultTyped, VaultTypeOK, past
    <3>12. CASE DumpFile(t)
      <4>1. task[t].at = "dump" /\ Keep(t) BY <3>12 DEF DumpFile, At
      <4>2. PICK text \in Dumped(t) : fallback' = [fallback EXCEPT ![Id(t)] = text]
        BY <3>12 DEF DumpFile
      <4>3. text \in Payload \cup {Missing, Torn}
        BY <2>0, <2>1, <4>1, <4>2, SealedTyped DEF Dumped, VaultTypeOK
      <4>4. fallback' \in [Identifiers -> Payload \cup {Missing, Torn}]
        BY <2>0, <2>1, <4>2, <4>3 DEF VaultTypeOK
      <4>5. Tasks BY <3>12, DoneTyped DEF DumpFile
      <4> QED BY <2>0, <3>12, <4>1, <4>4, <4>5, KeepTyped
           DEF DumpFile, VaultTyped, VaultTypeOK
    <3>13. CASE GetRing(t) BY <3>1, <3>13, DoneTyped DEF GetRing
    <3>14. CASE GetNothing(t) BY <3>1, <3>14, StepTyped DEF GetNothing
    <3>15. CASE GetRefused(t) BY <3>1, <3>15, StepTyped DEF GetRefused
    <3>16. CASE OpenFile(t) BY <3>1, <3>16, DoneTyped DEF OpenFile
    <3>17. CASE DeleteRing(t)
      <4> DEFINE n == [task[t] EXCEPT !.deleted = TRUE, !.at = "unlink"]
      <4>1. n \in Task /\ n.op = task[t].op /\ n.secret = task[t].secret
            /\ n.at = "unlink"
        BY <2>1 DEF Task
      <4>2. task' = [task EXCEPT ![t] = n] BY <3>17 DEF DeleteRing
      <4>3. task[t].op = "store" => task[t].secret # Missing BY <2>0 DEF TaskReady
      <4> HIDE DEF n
      <4>4. Tasks BY <4>1, <4>2, <4>3, TaskTyped
      <4>5. ring' \in [Identifiers -> Payload \cup {Missing}]
        BY <2>0, <3>17 DEF DeleteRing, VaultTypeOK
      <4> QED BY <2>0, <3>17, <4>4, <4>5 DEF DeleteRing, VaultTyped, VaultTypeOK, past
    <3>18. CASE DeleteRefused(t) BY <3>1, <3>18, StepTyped DEF DeleteRefused
    <3>19. CASE UnlinkFile(t)
      <4>1. Tasks BY <3>19, DoneTyped DEF UnlinkFile
      <4>2. task[t].doomed \in SUBSET Secret BY <2>1 DEF Task
      <4>3. /\ fallback' \in [Identifiers -> Payload \cup {Missing, Torn}]
            /\ revoked' \in [Identifiers -> SUBSET Secret]
        BY <2>0, <2>1, <3>19, <4>2 DEF UnlinkFile, VaultTypeOK
      <4> QED BY <2>0, <3>19, <4>1, <4>3 DEF UnlinkFile, VaultTyped, VaultTypeOK
    <3>20. CASE Abandon(t) BY <3>1, <3>20, DoneTyped DEF Abandon
    <3> QED BY <2>2, <3>2, <3>3, <3>4, <3>5, <3>6, <3>7, <3>8, <3>9, <3>10, <3>11,
               <3>12, <3>13, <3>14, <3>15, <3>16, <3>17, <3>18, <3>19, <3>20
         DEF VaultStep
  <2>3. ASSUME NEW i \in Identifiers, Link(i) PROVE VaultTyped'
    BY <2>0, <2>3 DEF Link, VaultTyped, VaultTypeOK, TaskReady, past
  <2>4. CASE UNCHANGED vaultVars
    BY <2>0, <2>4 DEF vaultVars, VaultTyped, VaultTypeOK, TaskReady
  <2> QED BY <2>2, <2>3, <2>4 DEF VaultNext
<1> QED BY <1>1, <1>2, PTL DEF VaultSpec

\* Every step keeps every variable within its values: no payload is sealed
\* without a key, and no thread stores what nobody has entered.
THEOREM VaultTypeCorrect == VaultSpec => []VaultTypeOK
BY VaultTypedAlways, PTL DEF VaultTyped

-----------------------------------------------------------------------------
(* Keys                                                                    *)

\* Of an account whose master key was never overwritten, every payload is sealed
\* with that key, and so will be what the vaults that are built may seal.
KeysAgree ==
    \A i \in Identifiers \ raced :
        /\ \A p \in {ring[i], fallback[i]} \cap Payload : p.key = master[i]
        /\ \A t \in VaultThreads :
               /\ task[t].id = i /\ task[t].key # Missing
               /\ task[t].at \notin {"idle", "master", "generated"}
               => task[t].key = master[i]

\* A step of one thread that leaves the stored keys and payloads: its own task
\* stays in agreement.
LEMMA KeysKept ==
  ASSUME VaultTyped, KeysAgree, NEW t \in VaultThreads, NEW n,
         task' = [task EXCEPT ![t] = n], UNCHANGED <<master, ring, fallback, raced>>,
         n.at \notin {"idle", "master", "generated"} /\ n.key # Missing =>
             \/ /\ n.id = task[t].id /\ n.key = task[t].key
                /\ task[t].at \notin {"idle", "master", "generated"}
             \/ n.key = master[n.id]
  PROVE  KeysAgree'
  BY DEF VaultTyped, VaultTypeOK, KeysAgree

LEMMA DoneKeeps ==
  ASSUME VaultTyped, KeysAgree, NEW t \in VaultThreads, Done(t),
         UNCHANGED <<master, ring, fallback, raced>>
  PROVE  KeysAgree'
  BY KeysKept DEF Done, NoTask

LEMMA StepKeeps ==
  ASSUME VaultTyped, KeysAgree, NEW t \in VaultThreads, NEW point, Step(t, point),
         task[t].at \notin {"idle", "master", "generated"},
         UNCHANGED <<master, ring, fallback, raced>>
  PROVE  KeysAgree'
<1> DEFINE n == [task[t] EXCEPT !.at = point]
<1>1. n.id = task[t].id /\ n.key = task[t].key
  BY DEF VaultTyped, VaultTypeOK, Task
<1>2. task' = [task EXCEPT ![t] = n] BY DEF Step
<1> HIDE DEF n
<1> QED BY <1>1, <1>2, KeysKept

\* A payload sealed by a thread agrees with the master key.
LEMMA SealedAgrees ==
  ASSUME VaultTyped, KeysAgree, NEW t \in VaultThreads,
         task[t].at \in {"put", "truncate", "dump"}, task[t].id \notin raced
  PROVE  Sealed(t).key = master[task[t].id]
  BY SealedTyped DEF KeysAgree, Sealed, VaultTyped, TaskReady

\* vault.py: every payload can be decrypted with the stored master key, unless two
\* vaults of the account have each generated one at the same time.
THEOREM PayloadsDecrypt == VaultSpec => []PayloadDecrypts
<1>1. VaultInit => KeysAgree
  BY DEF VaultInit, KeysAgree, NoTask, Identifiers
<1>2. VaultTyped /\ KeysAgree /\ [VaultNext]_vaultVars => KeysAgree'
  <2> SUFFICES ASSUME VaultTyped, KeysAgree, [VaultNext]_vaultVars PROVE KeysAgree'
    OBVIOUS
  <2>0. VaultTypeOK /\ TaskReady BY DEF VaultTyped
  <2>1. ASSUME NEW t \in VaultThreads PROVE task[t] \in Task /\ Id(t) \in Identifiers
    BY <2>0 DEF VaultTypeOK, Task, Id
  <2>2. ASSUME NEW t \in VaultThreads, VaultStep(t) PROVE KeysAgree'
    <3>1. ASSUME NEW o \in {"store", "retrieve", "revoke"}, Begin(t, o)
          PROVE  KeysAgree'
      <4> DEFINE n == [at |-> "master", op |-> o, id |-> linked, key |-> Missing,
                       secret |-> IF o = "store" THEN entered' ELSE Missing,
                       doomed |-> IF o = "revoke" THEN kept[linked] ELSE {},
                       deleted |-> FALSE]
      <4>1. n.at = "master" OBVIOUS
      <4>2. task' = [task EXCEPT ![t] = n] BY <3>1 DEF Begin
      <4> HIDE DEF n
      <4> QED BY <3>1, <4>1, <4>2, KeysKept DEF Begin, past
    <3>2. CASE ReadMaster(t)
      <4> DEFINE n == [task[t] EXCEPT !.key = master[Id(t)],
                                      !.at = AfterBuild(task[t].op)]
      <4>1. n.key = master[n.id] BY <2>1 DEF Task, Id
      <4>2. task' = [task EXCEPT ![t] = n] BY <3>2 DEF ReadMaster
      <4> HIDE DEF n
      <4> QED BY <3>2, <4>1, <4>2, KeysKept DEF ReadMaster, past
    <3>3. CASE GenerateMaster(t)
      <4>1. PICK k \in MasterKeys :
                task' = [task EXCEPT ![t].key = k, ![t].at = "generated"]
        BY <3>3 DEF GenerateMaster
      <4> DEFINE n == [task[t] EXCEPT !.key = k, !.at = "generated"]
      <4>2. n.at = "generated" BY <2>1 DEF Task
      <4>3. task' = [task EXCEPT ![t] = n] BY <4>1
      <4> HIDE DEF n
      <4> QED BY <3>3, <4>2, <4>3, KeysKept DEF GenerateMaster, past
    <3>4. CASE WriteMaster(t)
      <4> DEFINE n == [task[t] EXCEPT !.at = AfterBuild(task[t].op)]
      <4>1. /\ task' = [task EXCEPT ![t] = n]
            /\ n.id = Id(t) /\ n.key = task[t].key
        BY <2>1, <3>4 DEF WriteMaster, Step, Task, Id
      <4>2. /\ master' = [master EXCEPT ![Id(t)] = task[t].key]
            /\ raced' = raced \cup {i \in {Id(t)} : master[i] # Missing}
            /\ ring' = ring /\ fallback' = fallback
        BY <3>4 DEF WriteMaster
      <4> HIDE DEF n
      <4> SUFFICES ASSUME NEW i \in Identifiers \ raced'
                   PROVE  /\ \A p \in {ring[i], fallback[i]} \cap Payload :
                                 p.key = master'[i]
                          /\ \A u \in VaultThreads :
                                 /\ task'[u].id = i /\ task'[u].key # Missing
                                 /\ task'[u].at \notin {"idle", "master", "generated"}
                                 => task'[u].key = master'[i]
        BY <4>2 DEF KeysAgree
      <4>3. i \in Identifiers \ raced BY <4>2
      <4>4. CASE i # Id(t)
        <5>1. master'[i] = master[i] BY <2>0, <4>2, <4>4 DEF VaultTypeOK
        <5>2. \A u \in VaultThreads : u # t => task'[u] = task[u]
          BY <2>0, <4>1 DEF VaultTypeOK
        <5>3. task'[t].id # i BY <2>0, <4>1, <4>4 DEF VaultTypeOK
        <5> QED BY <4>3, <5>1, <5>2, <5>3 DEF KeysAgree
      <4>5. CASE i = Id(t)
        <5>1. master[i] = Missing BY <4>2, <4>5
        <5>2. master'[i] = task[t].key BY <2>0, <2>1, <4>2, <4>5 DEF VaultTypeOK
        <5>3. \A p \in Payload : p.key # Missing BY DEF Payload
        <5>4. {ring[i], fallback[i]} \cap Payload = {}
          BY <4>3, <5>1, <5>3 DEF KeysAgree
        <5>5. \A u \in VaultThreads : u # t => task'[u] = task[u]
          BY <2>0, <4>1 DEF VaultTypeOK
        <5>6. task'[t].key = task[t].key BY <2>0, <4>1 DEF VaultTypeOK
        <5> QED BY <4>3, <5>1, <5>2, <5>4, <5>5, <5>6 DEF KeysAgree
      <4> QED BY <4>4, <4>5
    <3>5. CASE MasterRefused(t)
      <4> DEFINE n == [task[t] EXCEPT !.key = Missing,
                                      !.at = AfterBuild(task[t].op)]
      <4>1. n.key = Missing BY <2>1 DEF Task
      <4>2. task' = [task EXCEPT ![t] = n] BY <3>5 DEF MasterRefused
      <4> HIDE DEF n
      <4> QED BY <3>5, <4>1, <4>2, KeysKept DEF MasterRefused, past
    <3>6. CASE Validated(t) BY <3>6, StepKeeps DEF Validated, At, past
    <3>7. CASE StoreRefused(t) BY <3>7, DoneKeeps DEF StoreRefused, past
    <3>8. CASE PutRing(t)
      <4>1. /\ task[t].at = "put" /\ Done(t)
            /\ ring' = [ring EXCEPT ![Id(t)] = Sealed(t)]
            /\ master' = master /\ fallback' = fallback /\ raced' = raced
        BY <3>8 DEF PutRing, At, Keep
      <4>2. \A i \in Identifiers : ring'[i] = IF i = Id(t) THEN Sealed(t) ELSE ring[i]
        BY <2>0, <4>1 DEF VaultTypeOK
      <4>3. \A u \in VaultThreads : task'[u] = IF u = t THEN NoTask ELSE task[u]
        BY <2>0, <4>1 DEF VaultTypeOK, Done
      <4>4. Id(t) \notin raced => Sealed(t).key = master[Id(t)]
        BY <4>1, SealedAgrees DEF Id
      <4> QED BY <4>1, <4>2, <4>3, <4>4 DEF KeysAgree, NoTask
    <3>9. CASE PutRefused(t) BY <3>9, StepKeeps DEF PutRefused, At
    <3>10. CASE TruncateFile(t)
      <4>1. \A i \in Identifiers : fallback'[i] \in {fallback[i], Torn}
        BY <2>0, <3>10 DEF TruncateFile, VaultTypeOK
      <4> DEFINE n == [task[t] EXCEPT !.at = "dump"]
      <4>2. /\ n.id = task[t].id /\ n.key = task[t].key
            /\ task' = [task EXCEPT ![t] = n] /\ task[t].at = "truncate"
        BY <2>1, <3>10 DEF TruncateFile, Step, At, Task
      <4> HIDE DEF n
      <4>3. /\ master' = master /\ ring' = ring /\ raced' = raced
        BY <3>10 DEF TruncateFile, past
      <4>4. \A u \in VaultThreads : task'[u] = IF u = t THEN n ELSE task[u]
        BY <2>0, <4>2 DEF VaultTypeOK
      <4>5. Torn \notin Payload OBVIOUS
      <4> QED BY <4>1, <4>2, <4>3, <4>4, <4>5 DEF KeysAgree
    <3>11. CASE DumpFile(t)
      <4>1. task[t].at = "dump" /\ Done(t) /\ master' = master /\ ring' = ring
            /\ raced' = raced
        BY <3>11 DEF DumpFile, At, Keep
      <4>2. PICK text \in Dumped(t) : fallback' = [fallback EXCEPT ![Id(t)] = text]
        BY <3>11 DEF DumpFile
      <4>3. \A i \in Identifiers : fallback'[i] = IF i = Id(t) THEN text ELSE fallback[i]
        BY <2>0, <4>2 DEF VaultTypeOK
      <4>4. text \in {Missing, Torn, Sealed(t), fallback[Id(t)]}
        BY <4>2 DEF Dumped
      <4>5. \A u \in VaultThreads : task'[u] = IF u = t THEN NoTask ELSE task[u]
        BY <2>0, <4>1 DEF VaultTypeOK, Done
      <4>6. Id(t) \notin raced => Sealed(t).key = master[Id(t)]
        BY <4>1, SealedAgrees DEF Id
      <4>7. Missing \notin Payload /\ Torn \notin Payload OBVIOUS
      <4> QED BY <4>1, <4>3, <4>4, <4>5, <4>6, <4>7 DEF KeysAgree, NoTask
    <3>12. CASE GetRing(t) BY <3>12, DoneKeeps DEF GetRing, past
    <3>13. CASE GetNothing(t) BY <3>13, StepKeeps DEF GetNothing, At, past
    <3>14. CASE GetRefused(t) BY <3>14, StepKeeps DEF GetRefused, At, past
    <3>15. CASE OpenFile(t) BY <3>15, DoneKeeps DEF OpenFile, past
    <3>16. CASE DeleteRing(t)
      <4>1. \A i \in Identifiers : ring'[i] \in {ring[i], Missing}
        BY <2>0, <3>16 DEF DeleteRing, VaultTypeOK
      <4> DEFINE n == [task[t] EXCEPT !.deleted = TRUE, !.at = "unlink"]
      <4>2. /\ n.id = task[t].id /\ n.key = task[t].key
            /\ task' = [task EXCEPT ![t] = n] /\ task[t].at = "delete"
        BY <2>1, <3>16 DEF DeleteRing, At, Task
      <4> HIDE DEF n
      <4>3. /\ master' = master /\ fallback' = fallback /\ raced' = raced
        BY <3>16 DEF DeleteRing, past
      <4>4. \A u \in VaultThreads : task'[u] = IF u = t THEN n ELSE task[u]
        BY <2>0, <4>2 DEF VaultTypeOK
      <4>5. Missing \notin Payload OBVIOUS
      <4> QED BY <4>1, <4>2, <4>3, <4>4, <4>5 DEF KeysAgree
    <3>17. CASE DeleteRefused(t) BY <3>17, StepKeeps DEF DeleteRefused, At, past
    <3>18. CASE UnlinkFile(t)
      <4>1. \A i \in Identifiers : fallback'[i] \in {fallback[i], Missing}
        BY <2>0, <3>18 DEF UnlinkFile, VaultTypeOK
      <4>2. master' = master /\ ring' = ring /\ raced' = raced /\ Done(t)
        BY <3>18 DEF UnlinkFile
      <4>3. \A u \in VaultThreads : task'[u] = IF u = t THEN NoTask ELSE task[u]
        BY <2>0, <4>2 DEF VaultTypeOK, Done
      <4>4. Missing \notin Payload OBVIOUS
      <4> QED BY <4>1, <4>2, <4>3, <4>4 DEF KeysAgree, NoTask
    <3>19. CASE Abandon(t) BY <3>19, DoneKeeps DEF Abandon, past
    <3> QED BY <2>2, <3>1, <3>2, <3>3, <3>4, <3>5, <3>6, <3>7, <3>8, <3>9, <3>10,
               <3>11, <3>12, <3>13, <3>14, <3>15, <3>16, <3>17, <3>18, <3>19
         DEF VaultStep
  <2>3. ASSUME NEW i \in Identifiers, Link(i) PROVE KeysAgree'
    BY <2>3 DEF Link, KeysAgree, past
  <2>4. CASE UNCHANGED vaultVars
    BY <2>4 DEF vaultVars, KeysAgree
  <2> QED BY <2>2, <2>3, <2>4 DEF VaultNext
<1>3. KeysAgree => PayloadDecrypts
  BY DEF KeysAgree, PayloadDecrypts
<1> QED BY <1>1, <1>2, <1>3, VaultTypedAlways, PTL DEF VaultSpec

-----------------------------------------------------------------------------
(* Secrets                                                                 *)

\* The secrets that threads are about to store are new, each thread's its own: they
\* have never been kept.  What a revoke is to remove, or has removed, was kept; and
\* once it has deleted the keyring entry, none of it is there again.
SecretsFresh ==
    /\ \A t \in VaultThreads : task[t].secret # Missing =>
           /\ task[t].secret \in 1..entered
           /\ \A i \in Identifiers : task[t].secret \notin kept[i]
           /\ \A u \in VaultThreads : u # t => task[u].secret # task[t].secret
    /\ \A i \in Identifiers : kept[i] \subseteq 1..entered /\ revoked[i] \subseteq kept[i]
    /\ \A t \in VaultThreads : task[t].doomed \subseteq kept[task[t].id]
    /\ \A t \in VaultThreads :
           /\ task[t].at = "unlink" /\ task[t].deleted
           /\ ring[task[t].id] \in Payload
           => ring[task[t].id].secret \notin task[t].doomed

SecretsInv == SecretsFresh /\ RevokedGone

\* A step that leaves what is stored and kept, and whose thread goes on with its
\* own secret and doomed secrets, or with none.
LEMMA SecretsKept ==
  ASSUME VaultTyped, SecretsInv, NEW t \in VaultThreads, NEW n,
         task' = [task EXCEPT ![t] = n],
         UNCHANGED <<ring, fallback, entered, kept, revoked>>,
         n.secret \in {task[t].secret, Missing},
         \/ n.doomed = {}
         \/ n.doomed = task[t].doomed /\ n.id = task[t].id,
         n.deleted => n.deleted = task[t].deleted /\ task[t].at = "unlink"
  PROVE  SecretsInv'
<1>1. \A u \in VaultThreads : task'[u] = IF u = t THEN n ELSE task[u]
  BY DEF VaultTyped, VaultTypeOK
<1>2. RevokedGone' BY DEF SecretsInv, RevokedGone
<1>3. SecretsFresh' BY <1>1 DEF SecretsInv, SecretsFresh
<1> QED BY <1>2, <1>3 DEF SecretsInv

LEMMA DoneKeepsSecrets ==
  ASSUME VaultTyped, SecretsInv, NEW t \in VaultThreads, Done(t),
         UNCHANGED <<ring, fallback, entered, kept, revoked>>
  PROVE  SecretsInv'
  BY SecretsKept DEF Done, NoTask

\* deleted is set by the step to "unlink", the last one.
DeletedLate == \A t \in VaultThreads : task[t].deleted => task[t].at = "unlink"

LEMMA StepKeepsSecrets ==
  ASSUME VaultTyped, SecretsInv, DeletedLate, NEW t \in VaultThreads, NEW point,
         NEW k, task' = [task EXCEPT ![t].key = k, ![t].at = point],
         task[t].at # "unlink",
         UNCHANGED <<ring, fallback, entered, kept, revoked>>
  PROVE  SecretsInv' /\ DeletedLate'
<1> DEFINE n == [task[t] EXCEPT !.key = k, !.at = point]
<1>1. /\ n.secret = task[t].secret /\ n.doomed = task[t].doomed
      /\ n.id = task[t].id /\ n.deleted = task[t].deleted
      /\ task' = [task EXCEPT ![t] = n] /\ ~task[t].deleted
  BY ZenonT(30) DEF VaultTyped, VaultTypeOK, Task, DeletedLate
<1> HIDE DEF n
<1>2. \A u \in VaultThreads : task'[u] = IF u = t THEN n ELSE task[u]
  BY <1>1 DEF VaultTyped, VaultTypeOK
<1> QED BY <1>1, <1>2, SecretsKept DEF DeletedLate

LEMMA MoveKeepsSecrets ==
  ASSUME VaultTyped, SecretsInv, DeletedLate, NEW t \in VaultThreads, NEW point,
         Step(t, point), task[t].at # "unlink",
         UNCHANGED <<ring, fallback, entered, kept, revoked>>
  PROVE  SecretsInv' /\ DeletedLate'
<1>1. task' = [task EXCEPT ![t].key = task[t].key, ![t].at = point]
  BY DEF Step, VaultTyped, VaultTypeOK, Task
<1> QED BY <1>1, StepKeepsSecrets

\* What is kept was new until then, and is what the payload written holds.
LEMMA KeepKeepsSecrets ==
  ASSUME VaultTyped, SecretsInv, NEW t \in VaultThreads,
         task[t].at \in {"put", "dump"}, Done(t), Keep(t), UNCHANGED entered,
         \A i \in Identifiers : ring'[i] \in {ring[i]} \cup
             IF i = task[t].id THEN {Sealed(t)} ELSE {},
         \A i \in Identifiers : fallback'[i] \in {fallback[i], Torn, Missing} \cup
             IF i = task[t].id THEN {Sealed(t)} ELSE {}
  PROVE  SecretsInv'
<1> DEFINE s == task[t].secret
<1>1. \A u \in VaultThreads : task'[u] = IF u = t THEN NoTask ELSE task[u]
  BY DEF Done, VaultTyped, VaultTypeOK
<1>2. \A i \in Identifiers :
          kept'[i] = IF i = task[t].id THEN kept[i] \cup {s} ELSE kept[i]
  BY DEF Keep, Id, VaultTyped, VaultTypeOK
<1>3. s \in Secret /\ Sealed(t).secret = s /\ s # Missing
  <2>1. s \in Secret BY SealedTyped
  <2>2. Sealed(t).secret = s BY DEF Sealed
  <2>3. s \in Nat BY <2>1 DEF Secret
  <2> QED BY <2>1, <2>2, <2>3
<1>4. s \in 1..entered /\ \A i \in Identifiers : s \notin kept[i] /\ s \notin revoked[i]
  BY <1>3 DEF SecretsInv, SecretsFresh
<1>5. revoked' = revoked /\ entered' = entered BY DEF Keep
<1>6. \A u \in VaultThreads : s \notin task[u].doomed
  BY <1>4 DEF SecretsInv, SecretsFresh, VaultTyped, VaultTypeOK, Task
<1>7. Missing \notin Payload /\ Torn \notin Payload OBVIOUS
<1>8. RevokedGone'
  BY <1>3, <1>4, <1>5, <1>7 DEF SecretsInv, RevokedGone
<1>9. SecretsFresh'
  <2> HIDE DEF s
  <2>0. NoTask.secret = Missing /\ NoTask.doomed = {} BY DEF NoTask
  <2>1. ASSUME NEW u \in VaultThreads, task'[u].secret # Missing
        PROVE  /\ task'[u].secret \in 1..entered'
               /\ \A i \in Identifiers : task'[u].secret \notin kept'[i]
               /\ \A v \in VaultThreads : v # u => task'[v].secret # task'[u].secret
    <3>1. u # t /\ task'[u] = task[u] BY <1>1, <2>0, <2>1
    <3>2. /\ task[u].secret \in 1..entered
          /\ \A i \in Identifiers : task[u].secret \notin kept[i]
          /\ \A v \in VaultThreads : v # u => task[v].secret # task[u].secret
      BY <2>1, <3>1 DEF SecretsInv, SecretsFresh
    <3>3. task[u].secret # s BY <3>1, <3>2 DEF s
    <3>4. ASSUME NEW i \in Identifiers PROVE task'[u].secret \notin kept'[i]
      <4>1. kept'[i] \subseteq kept[i] \cup {s} BY <1>2
      <4> QED BY <3>1, <3>2, <3>3, <4>1
    <3>5. \A v \in VaultThreads : v # u => task'[v].secret # task'[u].secret
      BY <1>1, <2>0, <2>1, <3>1, <3>2
    <3> QED BY <1>5, <3>1, <3>2, <3>4, <3>5
  <2>2. \A i \in Identifiers :
            kept'[i] \subseteq 1..entered' /\ revoked'[i] \subseteq kept'[i]
    <3>1. \A i \in Identifiers : kept[i] \subseteq kept'[i] BY <1>2
    <3>2. \A i \in Identifiers :
              kept[i] \subseteq 1..entered /\ revoked[i] \subseteq kept[i]
      BY DEF SecretsInv, SecretsFresh
    <3>3. ASSUME NEW i \in Identifiers
          PROVE  kept'[i] \subseteq 1..entered' /\ revoked'[i] \subseteq kept'[i]
      <4>1. kept'[i] \subseteq kept[i] \cup {s} BY <1>2
      <4> QED BY <1>4, <1>5, <3>1, <3>2, <4>1
    <3> QED BY <3>3
  <2>3. ASSUME NEW u \in VaultThreads
        PROVE  task'[u].doomed \subseteq kept'[task'[u].id]
    <3>1. CASE u = t BY <1>1, <2>0, <3>1
    <3>2. CASE u # t
      <4>1. task'[u] = task[u] BY <1>1, <3>2
      <4>2. task[u].id \in Identifiers BY DEF VaultTyped, VaultTypeOK, Task
      <4>3. kept[task[u].id] \subseteq kept'[task[u].id] BY <1>2, <4>2
      <4>4. task[u].doomed \subseteq kept[task[u].id] BY DEF SecretsInv, SecretsFresh
      <4> QED BY <4>1, <4>3, <4>4
    <3> QED BY <3>1, <3>2
  <2>4. \A u \in VaultThreads :
           /\ task'[u].at = "unlink" /\ task'[u].deleted
           /\ ring'[task'[u].id] \in Payload
           => ring'[task'[u].id].secret \notin task'[u].doomed
    BY <1>1, <1>3, <1>6 DEF SecretsInv, SecretsFresh, NoTask, VaultTyped, VaultTypeOK, Task
  <2> QED BY <2>1, <2>2, <2>3, <2>4 DEF SecretsFresh
<1> QED BY <1>8, <1>9 DEF SecretsInv

\* A new secret is greater than all that were entered.
LEMMA BeginKeepsSecrets ==
  ASSUME VaultTyped, SecretsInv, DeletedLate, NEW t \in VaultThreads,
         NEW o \in {"store", "retrieve", "revoke"}, Begin(t, o)
  PROVE  SecretsInv' /\ DeletedLate'
<1> DEFINE n == [at |-> "master", op |-> o, id |-> linked, key |-> Missing,
                 secret |-> IF o = "store" THEN entered' ELSE Missing,
                 doomed |-> IF o = "revoke" THEN kept[linked] ELSE {},
                 deleted |-> FALSE]
<1>1. /\ task' = [task EXCEPT ![t] = n]
      /\ UNCHANGED <<ring, fallback, kept, revoked>>
  BY DEF Begin, past
<1>2. /\ entered \in Nat /\ entered' \in {entered, entered + 1}
      /\ o = "store" => entered' = entered + 1
  BY DEF Begin, VaultTyped, VaultTypeOK
<1>3. \A u \in VaultThreads : task'[u] = IF u = t THEN n ELSE task[u]
  BY <1>1 DEF VaultTyped, VaultTypeOK
<1>4. /\ n.at = "master" /\ n.id = linked /\ n.deleted = FALSE
      /\ n.secret # Missing => n.secret = entered + 1 /\ entered' = entered + 1
      /\ n.doomed \in {{}, kept[linked]}
  BY <1>2
<1> HIDE DEF n
<1>5. \A m \in 1..entered : m \in 1..entered' /\ m # entered + 1
  BY <1>2
<1>6. \A i \in Identifiers : kept[i] \subseteq 1..entered /\ revoked[i] \subseteq kept[i]
  BY DEF SecretsInv, SecretsFresh
<1>7. RevokedGone' BY <1>1 DEF SecretsInv, RevokedGone
<1>8. ASSUME NEW u \in VaultThreads, task'[u].secret # Missing
      PROVE  /\ task'[u].secret \in 1..entered'
             /\ \A i \in Identifiers : task'[u].secret \notin kept'[i]
             /\ \A v \in VaultThreads : v # u => task'[v].secret # task'[u].secret
  <2>1. CASE u = t
    <3>1. task'[u].secret = entered + 1 /\ entered' = entered + 1
      BY <1>3, <1>4, <1>8, <2>1
    <3>2. \A i \in Identifiers : entered + 1 \notin kept[i] BY <1>5, <1>6
    <3>3. \A v \in VaultThreads : v # t => task'[v] = task[v] BY <1>3
    <3>4. \A v \in VaultThreads : task[v].secret = Missing \/ task[v].secret \in 1..entered
      BY DEF SecretsInv, SecretsFresh
    <3>5. entered + 1 # Missing /\ entered + 1 \in 1..entered' BY <1>2, <3>1
    <3> QED BY <1>1, <1>5, <2>1, <3>1, <3>2, <3>3, <3>4, <3>5
  <2>2. CASE u # t
    <3>1. task'[u] = task[u] BY <1>3, <2>2
    <3>2. /\ task[u].secret \in 1..entered
          /\ \A i \in Identifiers : task[u].secret \notin kept[i]
          /\ \A v \in VaultThreads : v # u => task[v].secret # task[u].secret
      BY <1>8, <3>1 DEF SecretsInv, SecretsFresh
    <3>3. task'[t].secret # task[u].secret
      BY <1>3, <1>4, <1>5, <1>8, <3>1, <3>2
    <3> QED BY <1>1, <1>3, <1>5, <3>1, <3>2, <3>3
  <2> QED BY <2>1, <2>2
<1>9. \A i \in Identifiers :
          kept'[i] \subseteq 1..entered' /\ revoked'[i] \subseteq kept'[i]
  BY <1>1, <1>5, <1>6
<1>10. \A u \in VaultThreads : task'[u].doomed \subseteq kept'[task'[u].id]
  BY <1>1, <1>3, <1>4 DEF SecretsInv, SecretsFresh
<1>11. \A u \in VaultThreads :
           /\ task'[u].at = "unlink" /\ task'[u].deleted
           /\ ring'[task'[u].id] \in Payload
           => ring'[task'[u].id].secret \notin task'[u].doomed
  BY <1>1, <1>3, <1>4 DEF SecretsInv, SecretsFresh
<1>12. SecretsFresh' BY <1>8, <1>9, <1>10, <1>11 DEF SecretsFresh
<1>13. DeletedLate' BY <1>3, <1>4 DEF DeletedLate
<1> QED BY <1>7, <1>12, <1>13 DEF SecretsInv

\* revoke(): a secret that was kept before a revoke whose two removals succeeded
\* is in neither place, whatever else runs and is refused meanwhile or later.
THEOREM RevokedStayGone == VaultSpec => []RevokedGone
<1>1. VaultInit => SecretsInv /\ DeletedLate
  BY DEF VaultInit, SecretsInv, SecretsFresh, DeletedLate, RevokedGone, NoTask,
         Identifiers
<1>2. VaultTyped /\ SecretsInv /\ DeletedLate /\ [VaultNext]_vaultVars
        => SecretsInv' /\ DeletedLate'
  <2> SUFFICES ASSUME VaultTyped, SecretsInv, DeletedLate, [VaultNext]_vaultVars
               PROVE  SecretsInv' /\ DeletedLate'
    OBVIOUS
  <2>0. VaultTypeOK /\ TaskReady BY DEF VaultTyped
  <2>1. ASSUME NEW t \in VaultThreads PROVE task[t] \in Task /\ Id(t) \in Identifiers
    BY <2>0 DEF VaultTypeOK, Task, Id
  <2>2. ASSUME NEW t \in VaultThreads, VaultStep(t)
        PROVE  SecretsInv' /\ DeletedLate'
    <3> DEFINE Same == UNCHANGED <<ring, fallback, entered, kept, revoked>>
    <3>0. ASSUME Done(t) PROVE DeletedLate'
      BY <2>0, <3>0 DEF Done, DeletedLate, NoTask, VaultTypeOK
    <3>1. ASSUME NEW o \in {"store", "retrieve", "revoke"}, Begin(t, o)
          PROVE  SecretsInv' /\ DeletedLate'
      BY <3>1, BeginKeepsSecrets
    <3>2. CASE ReadMaster(t)
      <4>1. task' = [task EXCEPT ![t].key = master[Id(t)],
                                 ![t].at = AfterBuild(task[t].op)]
            /\ task[t].at = "master" /\ Same
        BY <3>2 DEF ReadMaster, At, past
      <4> QED BY <4>1, StepKeepsSecrets
    <3>3. CASE GenerateMaster(t)
      <4>1. PICK k \in MasterKeys :
                task' = [task EXCEPT ![t].key = k, ![t].at = "generated"]
        BY <3>3 DEF GenerateMaster
      <4>2. task[t].at = "master" /\ Same BY <3>3 DEF GenerateMaster, At, past
      <4> QED BY <4>1, <4>2, StepKeepsSecrets
    <3>4. CASE WriteMaster(t)
      BY <3>4, MoveKeepsSecrets DEF WriteMaster, At
    <3>5. CASE MasterRefused(t)
      <4>1. task' = [task EXCEPT ![t].key = Missing,
                                 ![t].at = AfterBuild(task[t].op)]
            /\ task[t].at \in {"master", "generated"} /\ Same
        BY <3>5 DEF MasterRefused, At, past
      <4> QED BY <4>1, StepKeepsSecrets
    <3>6. CASE Validated(t) BY <3>6, MoveKeepsSecrets DEF Validated, At, past
    <3>7. CASE StoreRefused(t)
      BY <3>0, <3>7, DoneKeepsSecrets DEF StoreRefused, past
    <3>8. CASE PutRing(t)
      <4>1. \A i \in Identifiers : ring'[i] \in {ring[i]} \cup
                IF i = task[t].id THEN {Sealed(t)} ELSE {}
        BY <2>0, <3>8 DEF PutRing, VaultTypeOK, Id
      <4>2. task[t].at = "put" /\ Done(t) /\ Keep(t) /\ UNCHANGED <<entered, fallback>>
        BY <3>8 DEF PutRing, At
      <4> QED BY <3>0, <4>1, <4>2, KeepKeepsSecrets
    <3>9. CASE PutRefused(t) BY <3>9, MoveKeepsSecrets DEF PutRefused, At
    <3>10. CASE TruncateFile(t)
      <4>1. \A i \in Identifiers : fallback'[i] \in {fallback[i], Torn}
        BY <2>0, <3>10 DEF TruncateFile, VaultTypeOK
      <4>2. task[t].at = "truncate" /\ UNCHANGED <<ring, entered, kept, revoked>>
        BY <3>10 DEF TruncateFile, At, past
      <4> DEFINE n == [task[t] EXCEPT !.at = "dump"]
      <4>3. /\ task' = [task EXCEPT ![t] = n] /\ n.at = "dump"
            /\ n.secret = task[t].secret /\ n.doomed = task[t].doomed
            /\ n.id = task[t].id /\ n.deleted = task[t].deleted /\ ~task[t].deleted
        BY <2>1, <3>10, <4>2 DEF TruncateFile, Step, Task, DeletedLate
      <4> HIDE DEF n
      <4>4. \A u \in VaultThreads : task'[u] = IF u = t THEN n ELSE task[u]
        BY <2>0, <4>3 DEF VaultTypeOK
      <4>5. SecretsFresh' BY <4>2, <4>3, <4>4 DEF SecretsInv, SecretsFresh
      <4>6. DeletedLate' BY <4>3, <4>4 DEF DeletedLate
      <4>7. Torn \notin Payload OBVIOUS
      <4>8. RevokedGone' BY <4>1, <4>2, <4>7 DEF SecretsInv, RevokedGone
      <4> QED BY <4>5, <4>6, <4>8 DEF SecretsInv
    <3>11. CASE DumpFile(t)
      <4>1. PICK text \in Dumped(t) : fallback' = [fallback EXCEPT ![Id(t)] = text]
        BY <3>11 DEF DumpFile
      <4>2. text \in {Missing, Torn, Sealed(t), fallback[Id(t)]}
        BY <4>1 DEF Dumped
      <4>3. \A i \in Identifiers : fallback'[i] \in {fallback[i], Torn, Missing} \cup
                IF i = task[t].id THEN {Sealed(t)} ELSE {}
        BY <2>0, <4>1, <4>2 DEF VaultTypeOK, Id
      <4>4. task[t].at = "dump" /\ Done(t) /\ Keep(t) /\ UNCHANGED <<entered, ring>>
        BY <3>11 DEF DumpFile, At
      <4> QED BY <3>0, <4>3, <4>4, KeepKeepsSecrets
    <3>12. CASE GetRing(t) BY <3>0, <3>12, DoneKeepsSecrets DEF GetRing, past
    <3>13. CASE GetNothing(t) BY <3>13, MoveKeepsSecrets DEF GetNothing, At, past
    <3>14. CASE GetRefused(t) BY <3>14, MoveKeepsSecrets DEF GetRefused, At, past
    <3>15. CASE OpenFile(t) BY <3>0, <3>15, DoneKeepsSecrets DEF OpenFile, past
    <3>16. CASE DeleteRing(t)
      <4>1. \A i \in Identifiers : ring'[i] = IF i = Id(t) THEN Missing ELSE ring[i]
        BY <2>0, <3>16 DEF DeleteRing, VaultTypeOK
      <4>2. UNCHANGED <<fallback, entered, kept, revoked>>
        BY <3>16 DEF DeleteRing, past
      <4> DEFINE n == [task[t] EXCEPT !.deleted = TRUE, !.at = "unlink"]
      <4>3. /\ task' = [task EXCEPT ![t] = n] /\ n.at = "unlink"
            /\ n.secret = task[t].secret /\ n.doomed = task[t].doomed
            /\ n.id = Id(t) /\ Id(t) = task[t].id
        BY <2>1, <3>16 DEF DeleteRing, Task, Id
      <4> HIDE DEF n
      <4>4. \A u \in VaultThreads : task'[u] = IF u = t THEN n ELSE task[u]
        BY <2>0, <4>3 DEF VaultTypeOK
      <4>5. Missing \notin Payload OBVIOUS
      <4>6. \A u \in VaultThreads : task[u].id \in Identifiers
        BY <2>1 DEF Id
      <4>7. SecretsFresh'
        BY <4>1, <4>2, <4>3, <4>4, <4>5, <4>6 DEF SecretsInv, SecretsFresh
      <4>8. DeletedLate' BY <4>3, <4>4 DEF DeletedLate
      <4>9. RevokedGone' BY <4>1, <4>2, <4>5 DEF SecretsInv, RevokedGone
      <4> QED BY <4>7, <4>8, <4>9 DEF SecretsInv
    <3>17. CASE DeleteRefused(t) BY <3>17, MoveKeepsSecrets DEF DeleteRefused, At, past
    <3>18. CASE UnlinkFile(t)
      <4>1. /\ task[t].at = "unlink" /\ Done(t) /\ UNCHANGED <<ring, entered, kept>>
            /\ fallback' = [fallback EXCEPT ![Id(t)] = Missing]
            /\ revoked' = [revoked EXCEPT ![Id(t)] =
                   IF task[t].deleted THEN @ \cup task[t].doomed ELSE @]
        BY <3>18 DEF UnlinkFile, At
      <4>2. \A i \in Identifiers :
                /\ fallback'[i] = IF i = Id(t) THEN Missing ELSE fallback[i]
                /\ revoked'[i] = IF i = Id(t) /\ task[t].deleted
                                   THEN revoked[i] \cup task[t].doomed ELSE revoked[i]
        BY <2>0, <4>1 DEF VaultTypeOK
      <4>3. \A u \in VaultThreads : task'[u] = IF u = t THEN NoTask ELSE task[u]
        BY <2>0, <4>1 DEF VaultTypeOK, Done
      <4>4. task[t].doomed \subseteq kept[Id(t)]
        BY DEF SecretsInv, SecretsFresh, Id
      <4>5. task[t].deleted /\ ring[Id(t)] \in Payload =>
                ring[Id(t)].secret \notin task[t].doomed
        BY <4>1 DEF SecretsInv, SecretsFresh, Id
      <4>6. Missing \notin Payload OBVIOUS
      <4>7. RevokedGone' BY <4>1, <4>2, <4>5, <4>6 DEF SecretsInv, RevokedGone
      <4>8. SecretsFresh'
        BY <4>1, <4>2, <4>3, <4>4 DEF SecretsInv, SecretsFresh, NoTask
      <4> QED BY <3>0, <4>1, <4>7, <4>8 DEF SecretsInv
    <3>19. CASE Abandon(t) BY <3>0, <3>19, DoneKeepsSecrets DEF Abandon, past
    <3> QED BY <2>2, <3>1, <3>2, <3>3, <3>4, <3>5, <3>6, <3>7, <3>8, <3>9, <3>10,
               <3>11, <3>12, <3>13, <3>14, <3>15, <3>16, <3>17, <3>18, <3>19
         DEF VaultStep
  <2>3. ASSUME NEW i \in Identifiers, Link(i) PROVE SecretsInv' /\ DeletedLate'
    BY <2>3 DEF Link, SecretsInv, SecretsFresh, RevokedGone, DeletedLate, past
  <2>4. CASE UNCHANGED vaultVars
    BY <2>4 DEF vaultVars, SecretsInv, SecretsFresh, RevokedGone, DeletedLate
  <2> QED BY <2>2, <2>3, <2>4 DEF VaultNext
<1>3. SecretsInv => RevokedGone BY DEF SecretsInv
<1> QED BY <1>1, <1>2, <1>3, VaultTypedAlways, PTL DEF VaultSpec
-----------------------------------------------------------------------------
(* Two places for one secret                                               *)

\* While the keyring has never refused an account's credentials, the fallback
\* file does not exist, nobody is about to write it, and the keyring has what
\* was kept last.
OneHome ==
    \A i \in Identifiers \ fellBack :
        /\ fallback[i] = Missing
        /\ \A t \in VaultThreads :
               task[t].id = i => task[t].at \notin {"truncate", "dump"}
        /\ ring[i] \in Payload => ring[i].secret = latest[i]

\* A step that writes no credentials and does not turn to the file.
LEMMA QuietKeepsHome ==
  ASSUME VaultTyped, OneHome, NEW t \in VaultThreads, NEW n,
         task' = [task EXCEPT ![t] = n], n.at \notin {"truncate", "dump"},
         \A i \in Identifiers : ring'[i] \in {ring[i], Missing},
         \A i \in Identifiers : fallback'[i] \in {fallback[i], Missing},
         UNCHANGED <<fellBack, latest>>
  PROVE  OneHome'
<1>1. \A u \in VaultThreads : task'[u] = IF u = t THEN n ELSE task[u]
  BY DEF VaultTyped, VaultTypeOK
<1>2. Missing \notin Payload OBVIOUS
<1> QED BY <1>1, <1>2 DEF OneHome

\* store() and retrieve(): credentials that are found are the last ones kept,
\* unless the keyring once refused to store them.
THEOREM FoundIsLatest == VaultSpec => []OutdatedOnlyAfterFallback
<1>1. VaultInit => OneHome
  BY DEF VaultInit, OneHome, NoTask
<1>2. VaultTyped /\ OneHome /\ [VaultNext]_vaultVars => OneHome'
  <2> SUFFICES ASSUME VaultTyped, OneHome, [VaultNext]_vaultVars PROVE OneHome'
    OBVIOUS
  <2>0. VaultTypeOK /\ TaskReady BY DEF VaultTyped
  <2>1. ASSUME NEW t \in VaultThreads PROVE task[t] \in Task /\ Id(t) \in Identifiers
    BY <2>0 DEF VaultTypeOK, Task, Id
  <2>2. \A o \in {"store", "retrieve", "revoke"} :
            AfterBuild(o) \notin {"truncate", "dump"}
    BY DEF AfterBuild
  <2>3. ASSUME NEW t \in VaultThreads, VaultStep(t) PROVE OneHome'
    <3> DEFINE Same == UNCHANGED <<ring, fallback, fellBack, latest>>
    <3>0. task[t].op \in {"store", "retrieve", "revoke"} BY <2>1 DEF Task
    <3>a. ASSUME Done(t), Same PROVE OneHome'
      BY <3>a, QuietKeepsHome DEF Done, NoTask
    <3>b. ASSUME NEW point, point \notin {"truncate", "dump"}, Step(t, point), Same
          PROVE  OneHome'
      <4> DEFINE n == [task[t] EXCEPT !.at = point]
      <4>1. task' = [task EXCEPT ![t] = n] /\ n.at = point
        BY <2>1, <3>b DEF Step, Task
      <4> HIDE DEF n
      <4> QED BY <3>b, <4>1, QuietKeepsHome
    <3>c. ASSUME NEW k, NEW point, point \notin {"truncate", "dump"}, Same,
                 task' = [task EXCEPT ![t].key = k, ![t].at = point]
          PROVE  OneHome'
      <4> DEFINE n == [task[t] EXCEPT !.key = k, !.at = point]
      <4>1. task' = [task EXCEPT ![t] = n] /\ n.at = point
        BY <2>0, <2>1, <3>c DEF Task, VaultTypeOK
      <4> HIDE DEF n
      <4> QED BY <3>c, <4>1, QuietKeepsHome
    <3>1. ASSUME NEW o \in {"store", "retrieve", "revoke"}, Begin(t, o) PROVE OneHome'
      <4> DEFINE n == [at |-> "master", op |-> o, id |-> linked, key |-> Missing,
                       secret |-> IF o = "store" THEN entered' ELSE Missing,
                       doomed |-> IF o = "revoke" THEN kept[linked] ELSE {},
                       deleted |-> FALSE]
      <4>1. task' = [task EXCEPT ![t] = n] /\ n.at = "master" /\ Same
        BY <3>1 DEF Begin, past
      <4> HIDE DEF n
      <4> QED BY <4>1, QuietKeepsHome
    <3>2. CASE ReadMaster(t) BY <2>2, <3>0, <3>2, <3>c DEF ReadMaster, past
    <3>3. CASE GenerateMaster(t)
      <4>1. PICK k \in MasterKeys :
                task' = [task EXCEPT ![t].key = k, ![t].at = "generated"]
        BY <3>3 DEF GenerateMaster
      <4>2. Same BY <3>3 DEF GenerateMaster, past
      <4> DEFINE n == [task[t] EXCEPT !.key = k, !.at = "generated"]
      <4>3. task' = [task EXCEPT ![t] = n] /\ n.at = "generated"
        BY <2>0, <2>1, <4>1 DEF Task, VaultTypeOK
      <4> HIDE DEF n
      <4> QED BY <4>2, <4>3, QuietKeepsHome
    <3>4. CASE WriteMaster(t) BY <2>2, <3>0, <3>4, <3>b DEF WriteMaster
    <3>5. CASE MasterRefused(t) BY <2>2, <3>0, <3>5, <3>c DEF MasterRefused, past
    <3>6. CASE Validated(t) BY <3>6, <3>b DEF Validated, past
    <3>7. CASE StoreRefused(t) BY <3>7, <3>a DEF StoreRefused, past
    <3>8. CASE PutRing(t)
      <4>1. \A u \in VaultThreads : task'[u] = IF u = t THEN NoTask ELSE task[u]
        BY <2>0, <3>8 DEF PutRing, Done, VaultTypeOK
      <4>2. \A i \in Identifiers :
                /\ ring'[i] = IF i = Id(t) THEN Sealed(t) ELSE ring[i]
                /\ latest'[i] = IF i = Id(t) THEN task[t].secret ELSE latest[i]
        BY <2>0, <3>8 DEF PutRing, Keep, VaultTypeOK
      <4>3. Sealed(t).secret = task[t].secret /\ NoTask.at = "idle"
        BY DEF Sealed, NoTask
      <4>4. UNCHANGED <<fallback, fellBack>> BY <3>8 DEF PutRing
      <4> QED BY <4>1, <4>2, <4>3, <4>4 DEF OneHome
    <3>9. CASE PutRefused(t)
      <4>1. fellBack' = fellBack \cup {Id(t)} /\ UNCHANGED <<ring, fallback, latest>>
        BY <3>9 DEF PutRefused
      <4>2. \A u \in VaultThreads : u # t => task'[u] = task[u]
        BY <2>0, <3>9 DEF PutRefused, Step, VaultTypeOK
      <4>3. task'[t].id = Id(t)
        BY <2>0, <2>1, <3>9 DEF PutRefused, Step, VaultTypeOK, Task, Id
      <4> QED BY <4>1, <4>2, <4>3 DEF OneHome
    <3>10. CASE TruncateFile(t)
      <4>1. Id(t) \in fellBack BY <2>1, <3>10 DEF TruncateFile, At, Id, OneHome
      <4>2. \A i \in Identifiers \ {Id(t)} : fallback'[i] = fallback[i]
        BY <2>0, <3>10 DEF TruncateFile, VaultTypeOK
      <4>3. UNCHANGED <<ring, fellBack, latest>> BY <3>10 DEF TruncateFile, past
      <4>4. \A u \in VaultThreads : u # t => task'[u] = task[u]
        BY <2>0, <3>10 DEF TruncateFile, Step, VaultTypeOK
      <4>5. task'[t].id = Id(t)
        BY <2>0, <2>1, <3>10 DEF TruncateFile, Step, VaultTypeOK, Task, Id
      <4> QED BY <4>1, <4>2, <4>3, <4>4, <4>5 DEF OneHome
    <3>11. CASE DumpFile(t)
      <4>1. Id(t) \in fellBack BY <2>1, <3>11 DEF DumpFile, At, Id, OneHome
      <4>2. \A i \in Identifiers \ {Id(t)} :
                fallback'[i] = fallback[i] /\ latest'[i] = latest[i]
        BY <2>0, <3>11 DEF DumpFile, Keep, VaultTypeOK
      <4>3. UNCHANGED <<ring, fellBack>> BY <3>11 DEF DumpFile
      <4>4. \A u \in VaultThreads : task'[u] = IF u = t THEN NoTask ELSE task[u]
        BY <2>0, <3>11 DEF DumpFile, Done, VaultTypeOK
      <4> QED BY <4>1, <4>2, <4>3, <4>4 DEF OneHome, NoTask
    <3>12. CASE GetRing(t) BY <3>12, <3>a DEF GetRing, past
    <3>13. CASE GetNothing(t) BY <3>13, <3>b DEF GetNothing, past
    <3>14. CASE GetRefused(t) BY <3>14, <3>b DEF GetRefused, past
    <3>15. CASE OpenFile(t) BY <3>15, <3>a DEF OpenFile, past
    <3>16. CASE DeleteRing(t)
      <4> DEFINE n == [task[t] EXCEPT !.deleted = TRUE, !.at = "unlink"]
      <4>1. task' = [task EXCEPT ![t] = n] /\ n.at = "unlink"
        BY <2>0, <2>1, <3>16 DEF DeleteRing, Task, VaultTypeOK
      <4>2. \A i \in Identifiers : ring'[i] \in {ring[i], Missing}
        BY <2>0, <3>16 DEF DeleteRing, VaultTypeOK
      <4>3. UNCHANGED <<fallback, fellBack, latest>> BY <3>16 DEF DeleteRing, past
      <4> HIDE DEF n
      <4> QED BY <4>1, <4>2, <4>3, QuietKeepsHome
    <3>17. CASE DeleteRefused(t) BY <3>17, <3>b DEF DeleteRefused, past
    <3>18. CASE UnlinkFile(t)
      <4>1. \A i \in Identifiers : fallback'[i] \in {fallback[i], Missing}
        BY <2>0, <3>18 DEF UnlinkFile, VaultTypeOK
      <4>2. Done(t) /\ UNCHANGED <<ring, fellBack, latest>> BY <3>18 DEF UnlinkFile
      <4> QED BY <4>1, <4>2, QuietKeepsHome DEF Done, NoTask
    <3>19. CASE Abandon(t) BY <3>19, <3>a DEF Abandon, past
    <3> QED BY <2>3, <3>1, <3>2, <3>3, <3>4, <3>5, <3>6, <3>7, <3>8, <3>9, <3>10,
               <3>11, <3>12, <3>13, <3>14, <3>15, <3>16, <3>17, <3>18, <3>19
         DEF VaultStep
  <2>4. ASSUME NEW i \in Identifiers, Link(i) PROVE OneHome'
    BY <2>4 DEF Link, OneHome, past
  <2>5. CASE UNCHANGED vaultVars BY <2>5 DEF vaultVars, OneHome
  <2> QED BY <2>3, <2>4, <2>5 DEF VaultNext
<1>3. OneHome => OutdatedOnlyAfterFallback
  BY DEF OneHome, OutdatedOnlyAfterFallback, Found
<1> QED BY <1>1, <1>2, <1>3, VaultTypedAlways, PTL DEF VaultSpec
=============================================================================
