------------------------------- MODULE Vault -------------------------------
(*****************************************************************************)
(* CredentialVault (connectors/leetcode/vault.py) as the facade's credential *)
(* operations use it.  Every operation builds a vault of its own, for the    *)
(* account connected at that moment, so its steps interleave with those of   *)
(* other requests and other processes over one keyring and one file.         *)
(*                                                                           *)
(* The keyring and the file system may refuse any single call.               *)
(*****************************************************************************)
EXTENDS Naturals

CONSTANTS
    VaultThreads,   \* requests and syncs, of any process
    VaultUsers,     \* LeetCode usernames
    MasterKeys,     \* Fernet keys; bound: as many are in use at once
    Default,        \* account identifier without a connection: "default"
    MaxSecrets,     \* bound: session cookies users enter
    Missing,        \* no key, no payload, no file
    Torn            \* a file truncated or garbled: it does not parse

Identifiers == VaultUsers \cup {Default}

\* Session cookies are numbered in the order they are entered.
Secret == 1..MaxSecrets
Payload == [key : MasterKeys, secret : Secret]

ASSUME VaultAssumption ==
    /\ MaxSecrets \in Nat
    /\ Default \notin VaultUsers
    /\ Missing \notin Nat /\ Missing \notin MasterKeys
    /\ {Missing, Torn} \cap Payload = {} /\ Missing # Torn

VARIABLES
    linked,     \* the identifier of the connected account
    master,     \* keyring: the master key of each identifier
    ring,       \* keyring: the encrypted credentials of each identifier
    fallback,   \* data/accounts/leetcode_vault_<identifier>.json
    task,       \* what each thread is doing
    entered,    \* session cookies entered so far
    kept,       \* history: secrets whose store() has returned
    revoked,    \* history: secrets kept before a revoke() began that removed
                \* both entries
    raced,      \* history: identifiers whose master key was overwritten
    fellBack,   \* history: identifiers whose set_password() was refused once
    latest      \* history: the last secret kept

vaultVars == <<linked, master, ring, fallback, task, entered, kept, revoked,
               raced, fellBack, latest>>

\* at: next step; id: whose vault; key: its _fernet; secret: what is stored;
\* doomed: what a revoke() is to remove; deleted: delete_password() succeeded.
Task == [at : {"idle", "master", "generated", "validate", "put", "truncate",
               "dump", "get", "open", "delete", "unlink"},
         op : {"store", "retrieve", "revoke"}, id : Identifiers,
         key : MasterKeys \cup {Missing}, secret : Secret \cup {Missing},
         doomed : SUBSET Secret, deleted : BOOLEAN]

NoTask == [at |-> "idle", op |-> "retrieve", id |-> Default, key |-> Missing,
           secret |-> Missing, doomed |-> {},
           deleted |-> FALSE]

VaultTypeOK ==
    /\ linked \in Identifiers
    /\ master \in [Identifiers -> MasterKeys \cup {Missing}]
    /\ ring \in [Identifiers -> Payload \cup {Missing}]
    /\ fallback \in [Identifiers -> Payload \cup {Missing, Torn}]
    /\ task \in [VaultThreads -> Task]
    /\ entered \in 0..MaxSecrets
    /\ kept \in [Identifiers -> SUBSET Secret]
    /\ revoked \in [Identifiers -> SUBSET Secret]
    /\ raced \in SUBSET Identifiers /\ fellBack \in SUBSET Identifiers
    /\ latest \in [Identifiers -> Secret \cup {Missing}]

VaultInit ==
    /\ linked = Default
    /\ master = [i \in Identifiers |-> Missing]
    /\ ring = [i \in Identifiers |-> Missing]
    /\ fallback = [i \in Identifiers |-> Missing]
    /\ task = [t \in VaultThreads |-> NoTask]
    /\ entered = 0
    /\ kept = [i \in Identifiers |-> {}]
    /\ revoked = [i \in Identifiers |-> {}]
    /\ raced = {} /\ fellBack = {}
    /\ latest = [i \in Identifiers |-> Missing]

past == <<kept, revoked, raced, fellBack, latest>>

At(t, point) == task[t].at = point
Id(t) == task[t].id
Step(t, point) == task' = [task EXCEPT ![t].at = point]
Done(t) == task' = [task EXCEPT ![t] = NoTask]

\* The user connects an account or disconnects it.
Link(i) ==
    /\ i # linked
    /\ linked' = i
    /\ UNCHANGED <<master, ring, fallback, task, entered, past>>

\* An operation of the facade: it reads the connection and picks the vault.
Begin(t, o) ==
    /\ At(t, "idle")
    /\ entered' = entered + (IF o = "store" THEN 1 ELSE 0)
    /\ entered' <= MaxSecrets
    /\ task' = [task EXCEPT ![t] =
           [at |-> "master", op |-> o, id |-> linked, key |-> Missing,
            secret |-> IF o = "store" THEN entered' ELSE Missing,
            doomed |-> IF o = "revoke" THEN kept[linked] ELSE {},
            deleted |-> FALSE]]
    /\ UNCHANGED <<linked, master, ring, fallback, past>>

\* Where each operation goes once its vault is built.
AfterBuild(o) == CASE o = "store" -> "validate"
                   [] o = "retrieve" -> "get"
                   [] o = "revoke" -> "delete"

\* _initialize_encryption: the master key is there.
ReadMaster(t) ==
    /\ At(t, "master")
    /\ master[Id(t)] # Missing
    /\ task' = [task EXCEPT ![t].key = master[Id(t)],
                            ![t].at = AfterBuild(task[t].op)]
    /\ UNCHANGED <<linked, master, ring, fallback, entered, past>>

KeysInUse ==
    {master[i] : i \in Identifiers} \cup {task[t].key : t \in VaultThreads}
        \cup {p.key : p \in {ring[i] : i \in Identifiers} \cap Payload}
        \cup {p.key : p \in {fallback[i] : i \in Identifiers} \cap Payload}

\* It is not: a new one is generated.
GenerateMaster(t) ==
    /\ At(t, "master")
    /\ master[Id(t)] = Missing
    /\ \E k \in MasterKeys \ KeysInUse :
           task' = [task EXCEPT ![t].key = k, ![t].at = "generated"]
    /\ UNCHANGED <<linked, master, ring, fallback, entered, past>>

\* set_password() of the new key, whatever the entry holds by now.
WriteMaster(t) ==
    /\ At(t, "generated")
    /\ master' = [master EXCEPT ![Id(t)] = task[t].key]
    /\ raced' = raced \cup {i \in {Id(t)} : master[i] # Missing}
    /\ Step(t, AfterBuild(task[t].op))
    /\ UNCHANGED <<linked, ring, fallback, entered, kept, revoked, fellBack,
                   latest>>

\* Mutant: the vault goes on with a key that could not be saved.
MasterRefusedKeepsKey(t) ==
    /\ At(t, "master") \/ At(t, "generated")
    /\ Step(t, AfterBuild(task[t].op))
    /\ UNCHANGED <<linked, master, ring, fallback, entered, past>>

\* Either call is refused: __init__ logs it and the vault has no _fernet.
MasterRefused(t) ==
    /\ At(t, "master") \/ At(t, "generated")
    /\ task' = [task EXCEPT ![t].key = Missing,
                            ![t].at = AfterBuild(task[t].op)]
    /\ UNCHANGED <<linked, master, ring, fallback, entered, past>>

\* store: a bad format, a session LeetCode refuses, no _fernet, or the fallback
\* file cannot be opened.
StoreRefused(t) ==
    /\ At(t, "validate") \/ At(t, "truncate")
    /\ Done(t)
    /\ UNCHANGED <<linked, master, ring, fallback, entered, past>>

Validated(t) ==
    /\ At(t, "validate")
    /\ task[t].key # Missing
    /\ Step(t, "put")
    /\ UNCHANGED <<linked, master, ring, fallback, entered, past>>

Sealed(t) == [key |-> task[t].key, secret |-> task[t].secret]

Keep(t) ==
    /\ kept' = [kept EXCEPT ![Id(t)] = @ \cup {task[t].secret}]
    /\ latest' = [latest EXCEPT ![Id(t)] = task[t].secret]
    /\ UNCHANGED <<revoked, raced>>

\* Mutant: credentials that are there are not replaced.
PutRingOnce(t) ==
    /\ At(t, "put")
    /\ ring' = [ring EXCEPT ![Id(t)] = IF @ = Missing THEN Sealed(t) ELSE @]
    /\ Done(t) /\ Keep(t)
    /\ UNCHANGED <<linked, master, fallback, entered, fellBack>>

PutRing(t) ==
    /\ At(t, "put")
    /\ ring' = [ring EXCEPT ![Id(t)] = Sealed(t)]
    /\ Done(t) /\ Keep(t)
    /\ UNCHANGED <<linked, master, fallback, entered, fellBack>>

PutRefused(t) ==
    /\ At(t, "put")
    /\ fellBack' = fellBack \cup {Id(t)}
    /\ Step(t, "truncate")
    /\ UNCHANGED <<linked, master, ring, fallback, entered, kept, revoked, raced,
                   latest>>

TruncateFile(t) ==
    /\ At(t, "truncate")
    /\ fallback' = [fallback EXCEPT ![Id(t)] = Torn]
    /\ Step(t, "dump")
    /\ UNCHANGED <<linked, master, ring, entered, past>>

\* What the file may hold after a dump to the file that was opened: a removed
\* file stays removed, a file made anew meanwhile is not the one written to, and
\* over what another thread has written, either text or a mixture.
Dumped(t) ==
    CASE fallback[Id(t)] = Missing -> {Missing}
      [] fallback[Id(t)] = Torn ->
             {Sealed(t)} \cup {Torn : u \in {v \in VaultThreads \ {t} :
                                          At(v, "dump") /\ Id(v) = Id(t)}}
      [] OTHER -> {Sealed(t), Torn, fallback[Id(t)]}

DumpFile(t) ==
    /\ At(t, "dump")
    /\ \E text \in Dumped(t) : fallback' = [fallback EXCEPT ![Id(t)] = text]
    /\ Done(t) /\ Keep(t)
    /\ UNCHANGED <<linked, master, ring, entered, fellBack>>

\* retrieve: what the keyring holds is decrypted, or decrypting it raises.
GetRing(t) ==
    /\ At(t, "get")
    /\ ring[Id(t)] # Missing
    /\ Done(t)
    /\ UNCHANGED <<linked, master, ring, fallback, entered, past>>

GetNothing(t) ==
    /\ At(t, "get")
    /\ ring[Id(t)] = Missing
    /\ Step(t, "open")
    /\ UNCHANGED <<linked, master, ring, fallback, entered, past>>

\* The call is refused, which is swallowed.
GetRefused(t) ==
    /\ At(t, "get")
    /\ Step(t, "open")
    /\ UNCHANGED <<linked, master, ring, fallback, entered, past>>

OpenFile(t) ==
    /\ At(t, "open")
    /\ Done(t)
    /\ UNCHANGED <<linked, master, ring, fallback, entered, past>>

\* revoke: the keyring entry; a refused delete is swallowed, and so is one of an
\* entry that is not there.
DeleteRing(t) ==
    /\ At(t, "delete")
    /\ ring' = [ring EXCEPT ![Id(t)] = Missing]
    /\ task' = [task EXCEPT ![t].deleted = TRUE, ![t].at = "unlink"]
    /\ UNCHANGED <<linked, master, fallback, entered, past>>

DeleteRefused(t) ==
    /\ At(t, "delete")
    /\ Step(t, "unlink")
    /\ UNCHANGED <<linked, master, ring, fallback, entered, past>>

\* Mutant: the file is removed only if the keyring had nothing.
UnlinkFileInstead(t) ==
    /\ At(t, "unlink")
    /\ fallback' = [fallback EXCEPT ![Id(t)] = IF task[t].deleted THEN @ ELSE Missing]
    /\ revoked' = [revoked EXCEPT ![Id(t)] =
           IF task[t].deleted THEN @ \cup task[t].doomed ELSE @]
    /\ Done(t)
    /\ UNCHANGED <<linked, master, ring, entered, kept, raced, fellBack,
                   latest>>

\* Then the file.
UnlinkFile(t) ==
    /\ At(t, "unlink")
    /\ fallback' = [fallback EXCEPT ![Id(t)] = Missing]
    /\ revoked' = [revoked EXCEPT ![Id(t)] =
           IF task[t].deleted THEN @ \cup task[t].doomed ELSE @]
    /\ Done(t)
    /\ UNCHANGED <<linked, master, ring, entered, kept, raced, fellBack,
                   latest>>

\* os.remove() is refused, which is swallowed; or the process ends, anywhere.
Abandon(t) ==
    /\ ~At(t, "idle")
    /\ Done(t)
    /\ UNCHANGED <<linked, master, ring, fallback, entered, past>>

VaultStep(t) ==
    \/ \E o \in {"store", "retrieve", "revoke"} : Begin(t, o)
    \/ ReadMaster(t) \/ GenerateMaster(t) \/ WriteMaster(t) \/ MasterRefused(t)
    \/ Validated(t) \/ StoreRefused(t)
    \/ PutRing(t) \/ PutRefused(t) \/ TruncateFile(t) \/ DumpFile(t)
    \/ GetRing(t) \/ GetNothing(t) \/ GetRefused(t) \/ OpenFile(t)
    \/ DeleteRing(t) \/ DeleteRefused(t) \/ UnlinkFile(t)
    \/ Abandon(t)

VaultNext ==
    \/ \E i \in Identifiers : Link(i)
    \/ \E t \in VaultThreads : VaultStep(t)

\* What retrieve() finds: the keyring's entry first, the file otherwise.
Found(i) == IF ring[i] # Missing THEN ring[i] ELSE fallback[i]

\* vault.py:84-90: every payload can be decrypted with the stored master key,
\* unless two vaults of the account have each generated one at the same time.
PayloadDecrypts ==
    \A i \in Identifiers \ raced : \A p \in {ring[i], fallback[i]} \cap Payload :
        p.key = master[i]

\* revoke(): a secret that was kept before a revoke whose two removals succeeded
\* is in neither place, whatever else runs and is refused meanwhile or later.
RevokedGone ==
    \A i \in Identifiers : \A p \in {ring[i], fallback[i]} \cap Payload :
        p.secret \notin revoked[i]

\* store() and retrieve(): credentials that are found are the last ones kept,
\* unless the keyring once refused to store: an older keyring entry then hides
\* the newer file.
OutdatedOnlyAfterFallback ==
    \A i \in Identifiers \ fellBack :
        Found(i) \in Payload => Found(i).secret = latest[i]

VaultSpec == VaultInit /\ [][VaultNext]_vaultVars
=============================================================================
