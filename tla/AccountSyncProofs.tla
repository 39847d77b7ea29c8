------------------------- MODULE AccountSyncProofs --------------------------
(******************************************************************************)
(* Proofs about the account file and the threads that rewrite it, for any     *)
(* number of accounts, threads and submissions and any window and page size:  *)
(* types, what storage keeps, what a disconnect leaves behind, what the       *)
(* watermark promises and what a full-history pass has fetched.               *)
(******************************************************************************)
EXTENDS AccountSync, FiniteSetTheorems, WellFoundedInduction, TLAPS

USE StoreAssumption, WindowAssumption, PageAssumption
  DEF StoreAssumption, WindowAssumption, PageAssumption, Threads, Records, Offsets

StoreTyped == StoreTypeOK(Offsets, PublicPoints \cup AuthPoints)
TypeInv == StoreTyped /\ PublicTypeOK /\ AuthTypeOK /\ ControlInv /\ WhoInv

\* The connections the code builds from one it read.
LEMMA ConnectionFields ==
    ASSUME NEW c \in Connection(Offsets)
    PROVE  /\ c # NoConn
           /\ c.user \in Users /\ c.who \in Users \cup {NoUser}
           /\ c.mark \in 0..MaxRecord /\ c.floor \in 0..MaxRecord
           /\ c.base \in 0..MaxRecord
           /\ c.ckpt \in Offsets
BY DEF Connection

\* A connection with another checkpoint is a connection.
LEMMA CheckpointTyped ==
    ASSUME NEW c \in Connection(Offsets), NEW k \in Offsets,
           NEW w \in Users \cup {NoUser}, NEW b \in 0..MaxRecord
    PROVE  [c EXCEPT !.ckpt = k, !.who = w, !.base = b] \in Connection(Offsets)
BY DEF Connection

\* A connection with another watermark is a connection.
LEMMA MarkTyped ==
    ASSUME NEW c \in Connection(Offsets), NEW m \in 0..MaxRecord,
           NEW f \in 0..MaxRecord
    PROVE  [c EXCEPT !.mark = m, !.floor = f] \in Connection(Offsets)
BY DEF Connection

\* A window that is not empty has an oldest record.
LEMMA OldestRecord ==
    ASSUME NEW W \in SUBSET Records, W # {}
    PROVE  \E r \in W : \A q \in W : r <= q
<1>0. W \in SUBSET Nat
  OBVIOUS
<1>1. IsWellFoundedOn(OpToRel(<, Nat), Nat)
  BY NatLessThanWellFounded
<1>2. PICK r \in W : \A q \in W : ~ (<<q, r>> \in OpToRel(<, Nat))
  BY <1>0, <1>1, WFMin
<1>3. \A q \in W : ~ (q < r)
  BY <1>0, <1>2 DEF OpToRel
<1>4. r \in W /\ \A q \in W : r <= q
  BY <1>0, <1>3
<1> QED BY <1>4

\* The connection a run saves that failed to store `failed`.
Advanced(t, failed) ==
    [conn[t] EXCEPT !.mark = NextMark(t, failed), !.floor = NextFloor(t, failed)]

\* It is a connection to the same account, and only its coverage has changed.
LEMMA AdvancedTyped ==
    ASSUME NEW t \in Public, conn[t] \in Connection(Offsets),
           window[t] \in SUBSET Records, NEW failed \in SUBSET window[t]
    PROVE  /\ Advanced(t, failed) \in Connection(Offsets)
           /\ Advanced(t, failed) # NoConn
           /\ NextMark(t, failed) \in conn[t].mark..MaxRecord
           /\ NextFloor(t, failed) \in 0..MaxRecord
           /\ Advanced(t, failed).mark = NextMark(t, failed)
           /\ Advanced(t, failed).floor = NextFloor(t, failed)
           /\ Advanced(t, failed).user = conn[t].user
           /\ Advanced(t, failed).ckpt = conn[t].ckpt
           /\ Advanced(t, failed).who = conn[t].who
           /\ Advanced(t, failed).base = conn[t].base
<1>1. conn[t].mark \in 0..MaxRecord /\ conn[t].floor \in 0..MaxRecord
  BY ConnectionFields
<1>2. NextMark(t, failed) \in conn[t].mark..MaxRecord
  <2>1. Advance(t) \subseteq {r \in Records : r > conn[t].mark}
    BY DEF Advance
  <2> QED BY <1>1, <2>1 DEF NextMark
<1>3. NextFloor(t, failed) \in 0..MaxRecord
  <2>1. CASE window[t] = {}
    BY <1>1, <2>1 DEF NextFloor
  <2>2. CASE window[t] # {}
    <3>1. \E r \in window[t] : \A q \in window[t] : r <= q
      BY <2>2, OldestRecord
    <3> DEFINE oldest == CHOOSE r \in window[t] : \A q \in window[t] : r <= q
    <3>2. oldest \in Records
      BY <3>1
    <3>3. NextFloor(t, failed) \in {oldest - 1, conn[t].floor}
      BY DEF NextFloor
    <3> QED BY <1>1, <3>2, <3>3
  <2> QED BY <2>1, <2>2
<1>4. NextMark(t, failed) \in 0..MaxRecord
  BY <1>1, <1>2
<1>5. Advanced(t, failed) \in Connection(Offsets)
  BY <1>3, <1>4, MarkTyped DEF Advanced
<1> QED BY <1>2, <1>3, <1>5, ConnectionFields DEF Advanced, Connection

\* What get_connection() returns is a connection or None.
LEMMA VisibleTyped == TypeInv => Visible \in Connection(Offsets) \cup {NoConn}
BY DEF TypeInv, StoreTyped, StoreTypeOK, Visible

\* connect() saves a connection.
LEMMA FreshTyped ==
    ASSUME NEW u \in Users PROVE Fresh(u) \in Connection(Offsets)
BY DEF Connection, Fresh

\* Every step keeps every variable within its values, and a thread holds at each
\* point what the code after it relies on.
LEMMA TypeInvStep == TypeInv /\ [Next]_vars => TypeInv'
<1> SUFFICES ASSUME TypeInv, [Next]_vars PROVE TypeInv'
  OBVIOUS
<1> USE DEF TypeInv, StoreTyped, StoreTypeOK, PublicTypeOK, AuthTypeOK,
           ControlInv, WhoInv, Fetching, PublicPoints, AuthPoints, storeVars,
           worldVars, publicVars, authVars
<1>1. ASSUME NEW t \in Public, SyncBegin(t), UNCHANGED authVars PROVE TypeInv'
  <2>1. StoreTyped'
    BY <1>1, VisibleTyped DEF SyncBegin, Begin, Quiet, Goto
  <2>2. PublicTypeOK'
    BY <1>1, VisibleTyped DEF SyncBegin, Begin, Quiet, Goto
  <2>3. AuthTypeOK'
    BY <1>1, VisibleTyped DEF SyncBegin, Begin, Quiet, Goto
  <2>4. ControlInv'
    BY <1>1, VisibleTyped DEF SyncBegin, Begin, Quiet, Goto
  <2>5. WhoInv'
    BY <1>1, VisibleTyped DEF SyncBegin, Begin, Quiet, Goto
  <2> QED BY <2>1, <2>2, <2>3, <2>4, <2>5
<1>2. ASSUME NEW t \in Auth, AuthBegin(t), UNCHANGED publicVars PROVE TypeInv'
  <2>1. StoreTyped'
    BY <1>2, ConnectionFields, VisibleTyped DEF AuthBegin, Begin, Quiet, Goto
  <2>2. PublicTypeOK'
    BY <1>2, ConnectionFields, VisibleTyped DEF AuthBegin, Begin, Quiet, Goto
  <2>3. AuthTypeOK'
    BY <1>2, ConnectionFields, VisibleTyped DEF AuthBegin, Begin, Quiet, Goto
  <2>4. ControlInv'
    BY <1>2, ConnectionFields, VisibleTyped DEF AuthBegin, Begin, Quiet, Goto
  <2>5. WhoInv'
    BY <1>2, ConnectionFields, VisibleTyped DEF AuthBegin, Begin, Quiet, Goto
  <2> QED BY <2>1, <2>2, <2>3, <2>4, <2>5
<1>3. ASSUME NEW t \in Ui, UiBegins(t), UNCHANGED <<publicVars, authVars>>
      PROVE TypeInv'
  <2>1. CASE Disconnect(t)
    <3>1. StoreTyped'
      BY <1>3, <2>1 DEF Disconnect, Quiet
    <3>2. PublicTypeOK'
      BY <1>3, <2>1 DEF Disconnect, Quiet
    <3>3. AuthTypeOK'
      BY <1>3, <2>1 DEF Disconnect, Quiet
    <3>4. ControlInv'
      BY <1>3, <2>1 DEF Disconnect, Quiet
    <3>5. WhoInv'
      BY <1>3, <2>1 DEF Disconnect, Quiet
    <3> QED BY <3>1, <3>2, <3>3, <3>4, <3>5
  <2>2. ASSUME NEW u \in Users, Connect(t, u) PROVE TypeInv'
    <3>1. Fresh(u) \in Connection(Offsets) /\ Fresh(u) # NoConn
      BY FreshTyped, ConnectionFields
    <3>2. StoreTyped'
      BY <1>3, <2>2, <3>1 DEF Connect, Begin, Quiet, Goto
    <3>3. PublicTypeOK'
      BY <1>3, <2>2, <3>1 DEF Connect, Begin, Quiet, Goto
    <3>4. AuthTypeOK'
      BY <1>3, <2>2, <3>1 DEF Connect, Begin, Quiet, Goto
    <3>5. ControlInv'
      BY <1>3, <2>2, <3>1 DEF Connect, Begin, Quiet, Goto
    <3>6. WhoInv'
      BY <1>3, <2>2, <3>1 DEF Connect, Begin, Quiet, Goto
    <3> QED BY <3>2, <3>3, <3>4, <3>5, <3>6
  <2> QED BY <1>3, <2>1, <2>2 DEF UiBegins
<1>4. ASSUME NEW t \in Threads, Runs(t) PROVE TypeInv'
  <2>1. ASSUME StoreStep(t), UNCHANGED <<publicVars, authVars>> PROVE TypeInv'
    <3>1. CASE Tear(t)
      <4>1. StoreTyped'
        BY <2>1, <3>1 DEF Tear, Goto
      <4>2. PublicTypeOK'
        BY <2>1, <3>1 DEF Tear, Goto
      <4>3. AuthTypeOK'
        BY <2>1, <3>1 DEF Tear, Goto
      <4>4. ControlInv'
        BY <2>1, <3>1 DEF Tear, Goto
      <4>5. WhoInv'
        BY <2>1, <3>1 DEF Tear, Goto
      <4> QED BY <4>1, <4>2, <4>3, <4>4, <4>5
    <3>2. CASE Write(t)
      <4>1. file' \in Connection(Offsets) \cup {NoConn}
        BY <2>1, <3>2 DEF Write
      <4>2. CASE then[t] = "idle"
        <5>1. /\ pc' = [pc EXCEPT ![t] = "idle"] /\ then' = [then EXCEPT ![t] = "idle"]
              /\ conn' = [conn EXCEPT ![t] = NoConn] /\ torn' = FALSE
              /\ UNCHANGED <<detached, alone, worldVars>>
          BY <3>2, <4>2 DEF Write, Return, Goto
        <5>2. StoreTyped'
          BY <4>1, <5>1
        <5> QED BY <2>1, <5>1, <5>2
      <4>3. CASE then[t] # "idle"
        <5>1. /\ pc' = [pc EXCEPT ![t] = then[t]] /\ torn' = FALSE
              /\ UNCHANGED <<conn, then, detached, alone, worldVars>>
          BY <3>2, <4>3 DEF Write, Goto
        <5>2. then[t] \in PublicPoints \cup AuthPoints /\ conn[t] # NoConn
          BY <3>2, <4>3 DEF Write
        <5>3. StoreTyped'
          BY <4>1, <5>1, <5>2
        <5>4. ControlInv'
          BY <2>1, <4>3, <5>1, <5>2
        <5>5. WhoInv'
          BY <2>1, <3>2, <4>3, <5>1 DEF Write
        <5> QED BY <2>1, <5>3, <5>4, <5>5
      <4> QED BY <4>2, <4>3
    <3> QED BY <2>1, <3>1, <3>2 DEF StoreStep
  <2>2. ASSUME t \in Public, PublicStep(t), UNCHANGED authVars PROVE TypeInv'
    <3>1. CASE SyncFetch(t)
      <4>1. StoreTyped'
        BY <2>2, <3>1 DEF SyncFetch, Served, Goto, Newest
      <4>2. PublicTypeOK'
        BY <2>2, <3>1 DEF SyncFetch, Served, Goto, Newest
      <4>3. AuthTypeOK'
        BY <2>2, <3>1 DEF SyncFetch, Served, Goto, Newest
      <4>4. ControlInv'
        BY <2>2, <3>1 DEF SyncFetch, Served, Goto, Newest
      <4>5. WhoInv'
        BY <2>2, <3>1 DEF SyncFetch, Served, Goto, Newest
      <4> QED BY <4>1, <4>2, <4>3, <4>4, <4>5
    <3>2. CASE SyncRaises(t)
      <4>1. StoreTyped'
        BY <2>2, <3>2 DEF SyncRaises, SaveThen, Goto
      <4>2. PublicTypeOK'
        BY <2>2, <3>2 DEF SyncRaises, SaveThen, Goto
      <4>3. AuthTypeOK'
        BY <2>2, <3>2 DEF SyncRaises, SaveThen, Goto
      <4>4. ControlInv'
        BY <2>2, <3>2 DEF SyncRaises, SaveThen, Goto
      <4>5. WhoInv'
        BY <2>2, <3>2 DEF SyncRaises, SaveThen, Goto
      <4> QED BY <4>1, <4>2, <4>3, <4>4, <4>5
    <3>3. CASE SyncPersist(t)
      <4>1. conn[t] \in Connection(Offsets) /\ window[t] \in SUBSET Records
        BY <2>2, <3>3 DEF SyncPersist
      <4>2. conn[t].user \in Users
        BY <4>1, ConnectionFields
      <4>3. PICK failed \in SUBSET window[t] :
              /\ stored' = [stored EXCEPT ![conn[t].user] = @ \cup (window[t] \ failed)]
              /\ result' = [result EXCEPT ![t] = IF failed = {} THEN @ ELSE "partial"]
              /\ conn' = [conn EXCEPT ![t] = Advanced(t, failed)]
        BY <3>3 DEF SyncPersist, SaveThen, Advanced
      <4>4. Advanced(t, failed) \in Connection(Offsets) /\ Advanced(t, failed) # NoConn
        <5>1. t \in Public /\ failed \in SUBSET window[t]
          BY <2>2
        <5> HIDE DEF TypeInv, Records, Offsets
        <5> QED BY <4>1, <5>1, AdvancedTyped
      <4>5. /\ stored' \in [Users -> SUBSET Records]
            /\ garbled' \in [Users -> BOOLEAN]
        BY <2>2, <3>3, <4>1, <4>2, <4>3 DEF SyncPersist
      <4>6. conn' \in [Threads -> Connection(Offsets) \cup {NoConn}]
        BY <4>3, <4>4
      <4>7. StoreTyped'
        BY <2>2, <3>3, <4>3, <4>4, <4>5, <4>6 DEF SyncPersist, SaveThen, Goto
      <4>8. PublicTypeOK'
        BY <2>2, <3>3, <4>3, <4>4, <4>5, <4>6 DEF SyncPersist, SaveThen, Goto
      <4>9. AuthTypeOK'
        BY <2>2, <3>3, <4>3, <4>4, <4>5, <4>6 DEF SyncPersist, SaveThen, Goto
      <4>10. ControlInv'
        BY <2>2, <3>3, <4>3, <4>4, <4>5, <4>6 DEF SyncPersist, SaveThen, Goto
      <4>11. WhoInv'
        BY <2>2, <3>3, <4>3, <4>4, <4>5, <4>6 DEF SyncPersist, SaveThen, Goto
      <4> QED BY <4>7, <4>8, <4>9, <4>10, <4>11
    <3>4. CASE SyncSummary(t)
      <4>1. CASE Visible = NoConn
        <5>1. /\ pc' = [pc EXCEPT ![t] = "idle"] /\ then' = [then EXCEPT ![t] = "idle"]
              /\ conn' = [conn EXCEPT ![t] = NoConn]
              /\ UNCHANGED <<file, torn, detached, alone, worldVars>>
          BY <3>4, <4>1 DEF SyncSummary, Return, Goto
        <5>2. StoreTyped'
          BY <5>1
        <5>3. PublicTypeOK'
          BY <3>4 DEF SyncSummary, ForgetRun
        <5>4. ControlInv'
          BY <2>2, <5>1
        <5>5. WhoInv'
          BY <2>2, <5>1
        <5> QED BY <2>2, <5>2, <5>3, <5>4, <5>5
      <4>2. CASE Visible # NoConn
        <5>1. conn' = [conn EXCEPT ![t] = Visible] /\ Visible \in Connection(Offsets)
          BY <3>4, <4>2, VisibleTyped DEF SyncSummary, SaveThen
        <5>2. /\ pc' = [pc EXCEPT ![t] = "tear"] /\ then' = [then EXCEPT ![t] = "idle"]
              /\ UNCHANGED <<file, torn, detached, alone, worldVars>>
          BY <3>4, <4>2 DEF SyncSummary, SaveThen, Goto
        <5>3. StoreTyped'
          BY <5>1, <5>2
        <5>4. PublicTypeOK'
          BY <3>4 DEF SyncSummary, ForgetRun
        <5>5. ControlInv'
          BY <2>2, <4>2, <5>1, <5>2
        <5>6. WhoInv'
          BY <2>2, <5>2
        <5> QED BY <2>2, <5>3, <5>4, <5>5, <5>6
      <4> QED BY <4>1, <4>2
    <3> QED BY <2>2, <3>1, <3>2, <3>3, <3>4 DEF PublicStep
  <2>3. ASSUME t \in Auth, AuthStep(t), UNCHANGED publicVars PROVE TypeInv'
    <3>1. CASE AuthLoad(t)
      <4>1. StoreTyped'
        BY <2>3, <3>1, VisibleTyped DEF AuthLoad, Goto
      <4>2. PublicTypeOK'
        BY <2>3, <3>1, VisibleTyped DEF AuthLoad, Goto
      <4>3. AuthTypeOK'
        BY <2>3, <3>1, VisibleTyped DEF AuthLoad, Goto
      <4>4. ControlInv'
        BY <2>3, <3>1, VisibleTyped DEF AuthLoad, Goto
      <4>5. WhoInv'
        BY <2>3, <3>1, VisibleTyped DEF AuthLoad, Goto
      <4> QED BY <4>1, <4>2, <4>3, <4>4, <4>5
    <3>2. CASE AuthResume(t)
      <4>1. CheckpointOf(conn[t]) \in Offsets
        BY <2>3, <3>2, ConnectionFields DEF CheckpointOf
      <4>2. conn[t] # NoConn => conn[t].base \in 0..MaxRecord
        BY <2>3, ConnectionFields
      <4>3. CheckpointOf(conn[t]) # 0 => conn[t] # NoConn
        BY DEF CheckpointOf
      <4>4. StoreTyped'
        BY <2>3, <3>2, <4>1, <4>2, <4>3 DEF AuthResume, Goto
      <4>5. PublicTypeOK'
        BY <2>3, <3>2, <4>1, <4>2, <4>3 DEF AuthResume, Goto
      <4>6. AuthTypeOK'
        BY <2>3, <3>2, <4>1, <4>2, <4>3 DEF AuthResume, Goto
      <4>7. ControlInv'
        BY <2>3, <3>2, <4>1, <4>2, <4>3 DEF AuthResume, Goto
      <4>8. WhoInv'
        BY <2>3, <3>2, <4>1, <4>2, <4>3 DEF AuthResume, Goto
      <4> QED BY <4>4, <4>5, <4>6, <4>7, <4>8
    <3>3. CASE AuthPage(t)
      <4>1. /\ conn[t] \in Connection(Offsets) /\ who[t] \in Users \cup {NoUser}
            /\ base[t] \in 0..MaxRecord /\ 0 \in 0..MaxRecord
            /\ CapOffset(offset[t] + PageSize) \in Offsets
        BY <2>3, <3>3 DEF AuthPage, CapOffset
      <4> DEFINE saved == Checkpointed(t, CapOffset(offset[t] + PageSize))
      <4>2. saved \in Connection(Offsets) /\ saved # NoConn
        BY <4>1, <2>3, <3>3, CheckpointTyped, ConnectionFields
           DEF Checkpointed
      <4>3. conn' = [conn EXCEPT ![t] = saved]
        BY <2>3, <3>3 DEF AuthPage, SaveThen
      <4> HIDE DEF saved
      <4>4. StoreTyped'
        BY <2>3, <3>3, <4>1, <4>2, <4>3 DEF AuthPage, SaveThen, Goto, Page,
           CapOffset
      <4>5. PublicTypeOK'
        BY <2>3, <3>3, <4>1, <4>2, <4>3 DEF AuthPage, SaveThen, Goto, Page,
           CapOffset
      <4>6. AuthTypeOK'
        BY <2>3, <3>3, <4>1, <4>2, <4>3 DEF AuthPage, SaveThen, Goto, Page,
           CapOffset
      <4>7. ControlInv'
        BY <2>3, <3>3, <4>1, <4>2, <4>3 DEF AuthPage, SaveThen, Goto, Page,
           CapOffset
      <4>8. WhoInv'
        BY <2>3, <3>3, <4>1, <4>2, <4>3 DEF AuthPage, SaveThen, Goto, Page,
           CapOffset
      <4> QED BY <4>4, <4>5, <4>6, <4>7, <4>8
    <3>4. CASE AuthPageFails(t)
      <4>1. /\ conn[t] \in Connection(Offsets) /\ who[t] \in Users \cup {NoUser}
            /\ base[t] \in 0..MaxRecord /\ 0 \in 0..MaxRecord /\ offset[t] \in Offsets
        BY <2>3, <3>4 DEF AuthPageFails
      <4> DEFINE saved == Checkpointed(t, offset[t])
      <4>2. saved \in Connection(Offsets) /\ saved # NoConn
        BY <4>1, <2>3, <3>4, CheckpointTyped, ConnectionFields
           DEF Checkpointed
      <4>3. conn' = [conn EXCEPT ![t] = saved]
        BY <2>3, <3>4 DEF AuthPageFails, SaveThen
      <4> HIDE DEF saved
      <4>4. StoreTyped'
        BY <2>3, <3>4, <4>1, <4>2, <4>3 DEF AuthPageFails, SaveThen, Goto,
           ForgetAuth, Page
      <4>5. PublicTypeOK'
        BY <2>3, <3>4, <4>1, <4>2, <4>3 DEF AuthPageFails, SaveThen, Goto,
           ForgetAuth, Page
      <4>6. AuthTypeOK'
        BY <2>3, <3>4, <4>1, <4>2, <4>3 DEF AuthPageFails, SaveThen, Goto,
           ForgetAuth, Page
      <4>7. ControlInv'
        BY <2>3, <3>4, <4>1, <4>2, <4>3 DEF AuthPageFails, SaveThen, Goto,
           ForgetAuth, Page
      <4>8. WhoInv'
        BY <2>3, <3>4, <4>1, <4>2, <4>3 DEF AuthPageFails, SaveThen, Goto,
           ForgetAuth, Page
      <4> QED BY <4>4, <4>5, <4>6, <4>7, <4>8
    <3>5. CASE AuthRaises(t)
      <4>1. /\ stored' \in [Users -> SUBSET Records]
            /\ conn' = [conn EXCEPT ![t] = NoConn]
        <5>1. PICK kept \in SUBSET Page(upstream[who[t]], offset[t]) :
                stored' = [stored EXCEPT ![who[t]] = @ \cup kept]
          BY <2>3, <3>5 DEF AuthRaises
        <5>2. kept \subseteq Records
          BY DEF Page
        <5> QED BY <2>3, <3>5, <5>1, <5>2 DEF AuthRaises, Return
      <4>2. /\ pc' \in [Threads -> {"idle", "tear", "write", "validate"}
                                      \cup (PublicPoints \cup AuthPoints)]
            /\ then' \in [Threads -> {"idle"} \cup (PublicPoints \cup AuthPoints)]
        BY <2>3, <3>5 DEF AuthRaises, Return, Goto
      <4>3. StoreTyped'
        BY <2>3, <3>5, <4>1, <4>2 DEF AuthRaises, Return, Goto, ForgetAuth
      <4>4. PublicTypeOK'
        BY <2>3, <3>5, <4>1, <4>2 DEF AuthRaises, Return, Goto, ForgetAuth
      <4>5. AuthTypeOK'
        BY <2>3, <3>5, <4>1, <4>2 DEF AuthRaises, Return, Goto, ForgetAuth
      <4>6. ControlInv'
        BY <2>3, <3>5, <4>1, <4>2 DEF AuthRaises, Return, Goto, ForgetAuth
      <4>7. WhoInv'
        BY <2>3, <3>5, <4>1, <4>2 DEF AuthRaises, Return, Goto, ForgetAuth
      <4> QED BY <4>3, <4>4, <4>5, <4>6, <4>7
    <3>6. CASE AuthClear(t)
      <4>1. /\ conn[t] \in Connection(Offsets) /\ who[t] \in Users \cup {NoUser}
            /\ base[t] \in 0..MaxRecord /\ 0 \in 0..MaxRecord /\ 0 \in Offsets
        BY <2>3, <3>6 DEF AuthClear
      <4> DEFINE saved == Cleared(t)
      <4>2. saved \in Connection(Offsets) /\ saved # NoConn
        BY <4>1, <2>3, <3>6, CheckpointTyped, ConnectionFields
           DEF Cleared
      <4>3. conn' = [conn EXCEPT ![t] = saved]
        BY <2>3, <3>6 DEF AuthClear, SaveThen
      <4> HIDE DEF saved
      <4>4. StoreTyped'
        BY <2>3, <3>6, <4>1, <4>2, <4>3 DEF AuthClear, SaveThen, Goto,
           ForgetAuth
      <4>5. PublicTypeOK'
        BY <2>3, <3>6, <4>1, <4>2, <4>3 DEF AuthClear, SaveThen, Goto,
           ForgetAuth
      <4>6. AuthTypeOK'
        BY <2>3, <3>6, <4>1, <4>2, <4>3 DEF AuthClear, SaveThen, Goto,
           ForgetAuth
      <4>7. ControlInv'
        BY <2>3, <3>6, <4>1, <4>2, <4>3 DEF AuthClear, SaveThen, Goto,
           ForgetAuth
      <4>8. WhoInv'
        BY <2>3, <3>6, <4>1, <4>2, <4>3 DEF AuthClear, SaveThen, Goto,
           ForgetAuth
      <4> QED BY <4>4, <4>5, <4>6, <4>7, <4>8
    <3> QED BY <2>3, <3>1, <3>2, <3>3, <3>4, <3>5, <3>6 DEF AuthStep
  <2>4. ASSUME t \in Ui, UiStep(t), UNCHANGED <<publicVars, authVars>>
        PROVE TypeInv'
    <3>1. CASE ConnectValidated(t)
      <4>1. StoreTyped'
        BY <2>4, <3>1 DEF ConnectValidated, SaveThen, Goto
      <4>2. PublicTypeOK'
        BY <2>4, <3>1 DEF ConnectValidated, SaveThen, Goto
      <4>3. AuthTypeOK'
        BY <2>4, <3>1 DEF ConnectValidated, SaveThen, Goto
      <4>4. ControlInv'
        BY <2>4, <3>1 DEF ConnectValidated, SaveThen, Goto
      <4>5. WhoInv'
        BY <2>4, <3>1 DEF ConnectValidated, SaveThen, Goto
      <4> QED BY <4>1, <4>2, <4>3, <4>4, <4>5
    <3>2. CASE ConnectRefused(t)
      <4>1. StoreTyped'
        BY <2>4, <3>2 DEF ConnectRefused, Return, Goto
      <4>2. PublicTypeOK'
        BY <2>4, <3>2 DEF ConnectRefused, Return, Goto
      <4>3. AuthTypeOK'
        BY <2>4, <3>2 DEF ConnectRefused, Return, Goto
      <4>4. ControlInv'
        BY <2>4, <3>2 DEF ConnectRefused, Return, Goto
      <4>5. WhoInv'
        BY <2>4, <3>2 DEF ConnectRefused, Return, Goto
      <4> QED BY <4>1, <4>2, <4>3, <4>4, <4>5
    <3> QED BY <2>4, <3>1, <3>2 DEF UiStep
  <2> QED BY <1>4, <2>1, <2>2, <2>3, <2>4 DEF Runs
<1>5. ASSUME NEW u \in Users, Submit(u), UNCHANGED <<publicVars, authVars>>
      PROVE TypeInv'
  BY <1>5 DEF Submit
<1>6. CASE Crash
  <2>1. /\ pc' \in [Threads -> {"idle", "tear", "write", "validate"}
                                 \cup (PublicPoints \cup AuthPoints)]
        /\ conn' \in [Threads -> Connection(Offsets) \cup {NoConn}]
    BY <1>6 DEF Crash
  <2>2. then' \in [Threads -> {"idle"} \cup (PublicPoints \cup AuthPoints)]
    BY <1>6 DEF Crash
  <2>3. /\ window' \in [Public -> SUBSET Records]
        /\ result' \in [Public -> {"idle", "success", "partial", "failed"}]
    BY <1>6 DEF Crash
  <2>4. who' \in [Auth -> Users \cup {NoUser}] /\ offset' \in [Auth -> Offsets]
    BY <1>6 DEF Crash
  <2>5. StoreTyped'
    BY <1>6, VisibleTyped, <2>1, <2>2, <2>3, <2>4 DEF Crash
  <2>6. PublicTypeOK'
    BY <1>6, VisibleTyped, <2>1, <2>2, <2>3, <2>4 DEF Crash
  <2>7. AuthTypeOK'
    BY <1>6, VisibleTyped, <2>1, <2>2, <2>3, <2>4 DEF Crash
  <2>8. ControlInv'
    BY <1>6, VisibleTyped, <2>1, <2>2, <2>3, <2>4 DEF Crash
  <2>9. WhoInv'
    BY <1>6, VisibleTyped, <2>1, <2>2, <2>3, <2>4 DEF Crash
  <2> QED BY <2>5, <2>6, <2>7, <2>8, <2>9
<1>7. CASE UNCHANGED vars BY <1>7 DEF vars
<1> QED BY <1>1, <1>2, <1>3, <1>4, <1>5, <1>6, <1>7 DEF Next, Begins

\* The program starts well typed and in control.
LEMMA InitTyped == Init => TypeInv
<1> SUFFICES ASSUME Init PROVE TypeInv
  OBVIOUS
<1> USE DEF Init, StoreInit, PublicInit, AuthInit
<1>1. file \in Connection(Offsets) \cup {NoConn}
  BY FreshTyped
<1>2. /\ conn \in [Threads -> Connection(Offsets) \cup {NoConn}]
      /\ stored \in [Users -> SUBSET Records]
      /\ window \in [Public -> SUBSET Records]
  OBVIOUS
<1>3. /\ pc \in [Threads -> {"idle", "tear", "write", "validate"}
                                \cup (PublicPoints \cup AuthPoints)]
      /\ then \in [Threads -> {"idle"} \cup (PublicPoints \cup AuthPoints)]
  OBVIOUS
<1>4. /\ who \in [Auth -> Users \cup {NoUser}]
      /\ offset \in [Auth -> Offsets] /\ base \in [Auth -> 0..MaxRecord]
      /\ upstream \in [Users -> 0..MaxRecord]
  OBVIOUS
<1>5. StoreTyped /\ PublicTypeOK /\ AuthTypeOK
  BY <1>1, <1>2, <1>3, <1>4 DEF StoreTyped, StoreTypeOK, PublicTypeOK, AuthTypeOK
<1>6. ControlInv /\ WhoInv
  BY DEF ControlInv, WhoInv, Fetching, PublicPoints, AuthPoints
<1> QED BY <1>5, <1>6 DEF TypeInv

\* The type invariant, for every value of the constants.
THEOREM TypeCorrect == Spec => []TypeOK
<1>1. TypeInv => TypeOK
  BY DEF TypeInv, StoreTyped, TypeOK
<1> QED BY <1>1, InitTyped, TypeInvStep, PTL DEF Spec
-----------------------------------------------------------------------------
\* After a clean disconnect nothing is at work and the file stays empty until
\* the user connects again.
LEMMA DisconnectInvStep ==
    TypeInv /\ DisconnectInv /\ [Next]_vars
      => DisconnectInv'
<1> SUFFICES ASSUME TypeInv, DisconnectInv, [Next]_vars PROVE DisconnectInv'
  OBVIOUS
<1> USE DEF TypeInv, StoreTyped, StoreTypeOK, DisconnectInv, Visible,
           PublicPoints, AuthPoints, storeVars, worldVars, publicVars, authVars
<1>1. ASSUME NEW t \in Public, SyncBegin(t), UNCHANGED authVars PROVE DisconnectInv'
  BY <1>1 DEF SyncBegin, Begin, Quiet, Goto
<1>2. ASSUME NEW t \in Auth, AuthBegin(t), UNCHANGED publicVars
      PROVE DisconnectInv'
  BY <1>2 DEF AuthBegin, Begin, Quiet, Goto
<1>3. ASSUME NEW t \in Ui, UiBegins(t), UNCHANGED <<publicVars, authVars>>
      PROVE DisconnectInv'
  <2>1. CASE Disconnect(t)
    BY <1>3, <2>1 DEF Disconnect, Quiet
  <2>2. ASSUME NEW u \in Users, Connect(t, u) PROVE DisconnectInv'
    BY <1>3, <2>2 DEF Connect, Begin, Quiet, Goto, Fresh
  <2> QED BY <1>3, <2>1, <2>2 DEF UiBegins
<1>4. ASSUME NEW t \in Threads, Runs(t) PROVE DisconnectInv'
  <2>1. ASSUME StoreStep(t), UNCHANGED <<publicVars, authVars>>
        PROVE DisconnectInv'
    <3>1. CASE Tear(t)
      BY <2>1, <3>1 DEF Tear, Goto
    <3>2. CASE Write(t)
      BY <2>1, <3>2 DEF Write, Return, Goto
    <3> QED BY <2>1, <3>1, <3>2 DEF StoreStep
  <2>2. ASSUME t \in Public, PublicStep(t), UNCHANGED authVars
        PROVE DisconnectInv'
    <3>1. CASE SyncFetch(t)
      BY <2>2, <3>1 DEF SyncFetch, Served, Goto, Newest
    <3>2. CASE SyncRaises(t)
      BY <2>2, <3>2 DEF SyncRaises, SaveThen, Goto
    <3>3. CASE SyncPersist(t)
      BY <2>2, <3>3 DEF SyncPersist, SaveThen, Goto, NextMark, Advance
    <3>4. CASE SyncSummary(t)
      BY <2>2, <3>4 DEF SyncSummary, SaveThen, Return, Goto, ForgetRun
    <3> QED BY <2>2, <3>1, <3>2, <3>3, <3>4 DEF PublicStep
  <2>3. ASSUME t \in Auth, AuthStep(t), UNCHANGED publicVars PROVE DisconnectInv'
    <3>1. CASE AuthLoad(t)
      BY <2>3, <3>1 DEF AuthLoad, Goto
    <3>2. CASE AuthResume(t)
      BY <2>3, <3>2 DEF AuthResume, CheckpointOf, Goto
    <3>3. CASE AuthPage(t)
      BY <2>3, <3>3 DEF AuthPage, SaveThen, Goto, Checkpointed, Page, CapOffset
    <3>4. CASE AuthPageFails(t)
      BY <2>3, <3>4 DEF AuthPageFails, SaveThen, Goto, Checkpointed, ForgetAuth,
         Page
    <3>5. CASE AuthRaises(t)
      BY <2>3, <3>5 DEF AuthRaises, Return, Goto, ForgetAuth, Page
    <3>6. CASE AuthClear(t)
      BY <2>3, <3>6 DEF AuthClear, SaveThen, Goto, Cleared, ForgetAuth
    <3> QED BY <2>3, <3>1, <3>2, <3>3, <3>4, <3>5, <3>6 DEF AuthStep
  <2>4. ASSUME t \in Ui, UiStep(t), UNCHANGED <<publicVars, authVars>>
        PROVE DisconnectInv'
    <3>1. CASE ConnectValidated(t)
      BY <2>4, <3>1 DEF ConnectValidated, SaveThen, Goto
    <3>2. CASE ConnectRefused(t)
      BY <2>4, <3>2 DEF ConnectRefused, Return, Goto
    <3> QED BY <2>4, <3>1, <3>2 DEF UiStep
  <2> QED BY <1>4, <2>1, <2>2, <2>3, <2>4 DEF Runs
<1>5. ASSUME NEW u \in Users, Submit(u), UNCHANGED <<publicVars, authVars>>
      PROVE DisconnectInv'
  BY <1>5 DEF Submit
<1>6. CASE Crash
  BY <1>6 DEF Crash
<1>7. CASE UNCHANGED vars BY <1>7 DEF vars
<1> QED BY <1>1, <1>2, <1>3, <1>4, <1>5, <1>6, <1>7 DEF Next, Begins

\* A disconnect made while everything is idle stays, for every instance.
THEOREM DisconnectStays == Spec => []IdleDisconnectSticks
<1>1. Init => DisconnectInv
  BY DEF Init, StoreInit, DisconnectInv
<1>2. DisconnectInv => IdleDisconnectSticks
  BY DEF DisconnectInv, IdleDisconnectSticks, Visible
<1> QED BY <1>1, <1>2, InitTyped, TypeInvStep, DisconnectInvStep, PTL DEF Spec

-----------------------------------------------------------------------------
\* Storage and submissions only grow, and what a user was told stays told.
Grows ==
    /\ \A u \in Users :
         /\ stored[u] \subseteq stored'[u]
         /\ garbled[u] => garbled'[u]
         /\ upstream[u] <= upstream'[u]
    /\ mixed => mixed'

\* No step drops a stored submission, un-reports a gap, or unsees a submission.
LEMMA StorageGrows == TypeInv /\ [Next]_vars => Grows
<1> SUFFICES ASSUME TypeInv, [Next]_vars PROVE Grows
  OBVIOUS
<1> USE DEF Grows, TypeInv, StoreTyped, StoreTypeOK, ControlInv, storeVars,
           worldVars, publicVars, authVars
<1>1. ASSUME NEW t \in Public, SyncBegin(t), UNCHANGED authVars PROVE Grows
  BY <1>1 DEF SyncBegin, Begin, Quiet, Goto
<1>2. ASSUME NEW t \in Auth, AuthBegin(t), UNCHANGED publicVars PROVE Grows
  BY <1>2 DEF AuthBegin, Begin, Quiet, Goto
<1>3. ASSUME NEW t \in Ui, UiBegins(t), UNCHANGED <<publicVars, authVars>>
      PROVE Grows
  <2>1. CASE Disconnect(t)
    BY <1>3, <2>1 DEF Disconnect, Quiet
  <2>2. ASSUME NEW u \in Users, Connect(t, u) PROVE Grows
    BY <1>3, <2>2 DEF Connect, Begin, Quiet, Goto, Fresh
  <2> QED BY <1>3, <2>1, <2>2 DEF UiBegins
<1>4. ASSUME NEW t \in Threads, Runs(t) PROVE Grows
  <2>1. ASSUME StoreStep(t), UNCHANGED <<publicVars, authVars>> PROVE Grows
    <3>1. CASE Tear(t)
      BY <2>1, <3>1 DEF Tear, Goto
    <3>2. CASE Write(t)
      BY <2>1, <3>2 DEF Write, Return, Goto
    <3> QED BY <2>1, <3>1, <3>2 DEF StoreStep
  <2>2. ASSUME t \in Public, PublicStep(t), UNCHANGED authVars PROVE Grows
    <3>1. CASE SyncFetch(t)
      BY <2>2, <3>1 DEF SyncFetch, Served, Goto, Newest
    <3>2. CASE SyncRaises(t)
      BY <2>2, <3>2 DEF SyncRaises, SaveThen, Goto
    <3>3. CASE SyncPersist(t)
      BY <2>2, <3>3 DEF SyncPersist, SaveThen, Goto, NextMark, Advance
    <3>4. CASE SyncSummary(t)
      BY <2>2, <3>4 DEF SyncSummary, SaveThen, Return, Goto, ForgetRun
    <3> QED BY <2>2, <3>1, <3>2, <3>3, <3>4 DEF PublicStep
  <2>3. ASSUME t \in Auth, AuthStep(t), UNCHANGED publicVars PROVE Grows
    <3>1. CASE AuthLoad(t)
      <4>1. mixed => mixed'
        BY <3>1, Zenon DEF AuthLoad
      <4>2. UNCHANGED <<stored, garbled, upstream>>
        BY <3>1 DEF AuthLoad
      <4> QED BY <4>1, <4>2
    <3>2. CASE AuthResume(t)
      BY <2>3, <3>2 DEF AuthResume, CheckpointOf, Goto
    <3>3. CASE AuthPage(t)
      BY <2>3, <3>3 DEF AuthPage, SaveThen, Goto, Checkpointed, Page, CapOffset
    <3>4. CASE AuthPageFails(t)
      BY <2>3, <3>4 DEF AuthPageFails, SaveThen, Goto, Checkpointed, ForgetAuth,
         Page
    <3>5. CASE AuthRaises(t)
      BY <2>3, <3>5 DEF AuthRaises, Return, Goto, ForgetAuth, Page
    <3>6. CASE AuthClear(t)
      BY <2>3, <3>6 DEF AuthClear, SaveThen, Goto, Cleared, ForgetAuth
    <3> QED BY <2>3, <3>1, <3>2, <3>3, <3>4, <3>5, <3>6 DEF AuthStep
  <2>4. ASSUME t \in Ui, UiStep(t), UNCHANGED <<publicVars, authVars>> PROVE Grows
    <3>1. CASE ConnectValidated(t)
      BY <2>4, <3>1 DEF ConnectValidated, SaveThen, Goto
    <3>2. CASE ConnectRefused(t)
      BY <2>4, <3>2 DEF ConnectRefused, Return, Goto
    <3> QED BY <2>4, <3>1, <3>2 DEF UiStep
  <2> QED BY <1>4, <2>1, <2>2, <2>3, <2>4 DEF Runs
<1>5. ASSUME NEW u \in Users, Submit(u), UNCHANGED <<publicVars, authVars>>
      PROVE Grows
  BY <1>5 DEF Submit
<1>6. CASE Crash
  BY <1>6 DEF Crash
<1>7. CASE UNCHANGED vars BY <1>7 DEF vars
<1> QED BY <1>1, <1>2, <1>3, <1>4, <1>5, <1>6, <1>7 DEF Next, Begins

-----------------------------------------------------------------------------
(* The public sync's watermark                                                *)

\* Only a thread in its write leaves the file truncated, and while threads take
\* turns one at a time is at work.
LEMMA TurnsInvStep == TypeInv /\ TurnsInv /\ [Next]_vars => TurnsInv'
<1> SUFFICES ASSUME TypeInv, TurnsInv, [Next]_vars PROVE TurnsInv'
  OBVIOUS
<1> USE DEF TypeInv, StoreTyped, StoreTypeOK, ControlInv, TurnsInv, Visible,
           PublicPoints, AuthPoints, storeVars, worldVars, publicVars, authVars
<1>1. ASSUME NEW t \in Public, SyncBegin(t), UNCHANGED authVars PROVE TurnsInv'
  BY <1>1 DEF SyncBegin, Begin, Quiet, Goto
<1>2. ASSUME NEW t \in Auth, AuthBegin(t), UNCHANGED publicVars PROVE TurnsInv'
  BY <1>2 DEF AuthBegin, Begin, Quiet, Goto
<1>3. ASSUME NEW t \in Ui, UiBegins(t), UNCHANGED <<publicVars, authVars>>
      PROVE TurnsInv'
  <2>1. CASE Disconnect(t)
    BY <1>3, <2>1 DEF Disconnect, Quiet
  <2>2. ASSUME NEW u \in Users, Connect(t, u) PROVE TurnsInv'
    BY <1>3, <2>2 DEF Connect, Begin, Quiet, Goto, Fresh
  <2> QED BY <1>3, <2>1, <2>2 DEF UiBegins
<1>4. ASSUME NEW t \in Threads, Runs(t) PROVE TurnsInv'
  <2>1. ASSUME StoreStep(t), UNCHANGED <<publicVars, authVars>> PROVE TurnsInv'
    <3>1. CASE Tear(t)
      BY <2>1, <3>1 DEF Tear, Goto
    <3>2. CASE Write(t)
      BY <2>1, <3>2 DEF Write, Return, Goto
    <3> QED BY <2>1, <3>1, <3>2 DEF StoreStep
  <2>2. ASSUME t \in Public, PublicStep(t), UNCHANGED authVars PROVE TurnsInv'
    <3>1. CASE SyncFetch(t)
      BY <2>2, <3>1 DEF SyncFetch, Served, Goto, Newest
    <3>2. CASE SyncRaises(t)
      BY <2>2, <3>2 DEF SyncRaises, SaveThen, Goto
    <3>3. CASE SyncPersist(t)
      BY <2>2, <3>3 DEF SyncPersist, SaveThen, Goto, NextMark, Advance
    <3>4. CASE SyncSummary(t)
      <4>1. /\ UNCHANGED <<torn, alone>> /\ pc[t] = "summary"
            /\ pc' = [pc EXCEPT ![t] = "idle"] \/ pc' = [pc EXCEPT ![t] = "tear"]
        BY <3>4 DEF SyncSummary, SaveThen, Return, Goto
      <4> QED BY SMTT(30), <2>2, <4>1
    <3> QED BY <2>2, <3>1, <3>2, <3>3, <3>4 DEF PublicStep
  <2>3. ASSUME t \in Auth, AuthStep(t), UNCHANGED publicVars PROVE TurnsInv'
    <3>1. CASE AuthLoad(t)
      BY <2>3, <3>1 DEF AuthLoad, Goto
    <3>2. CASE AuthResume(t)
      BY <2>3, <3>2 DEF AuthResume, CheckpointOf, Goto
    <3>3. CASE AuthPage(t)
      BY <2>3, <3>3 DEF AuthPage, SaveThen, Goto, Checkpointed, Page, CapOffset
    <3>4. CASE AuthPageFails(t)
      BY <2>3, <3>4 DEF AuthPageFails, SaveThen, Goto, Checkpointed, ForgetAuth,
         Page
    <3>5. CASE AuthRaises(t)
      BY <2>3, <3>5 DEF AuthRaises, Return, Goto, ForgetAuth, Page
    <3>6. CASE AuthClear(t)
      BY <2>3, <3>6 DEF AuthClear, SaveThen, Goto, Cleared, ForgetAuth
    <3> QED BY <2>3, <3>1, <3>2, <3>3, <3>4, <3>5, <3>6 DEF AuthStep
  <2>4. ASSUME t \in Ui, UiStep(t), UNCHANGED <<publicVars, authVars>>
        PROVE TurnsInv'
    <3>1. CASE ConnectValidated(t)
      BY <2>4, <3>1 DEF ConnectValidated, SaveThen, Goto
    <3>2. CASE ConnectRefused(t)
      BY <2>4, <3>2 DEF ConnectRefused, Return, Goto
    <3> QED BY <2>4, <3>1, <3>2 DEF UiStep
  <2> QED BY <1>4, <2>1, <2>2, <2>3, <2>4 DEF Runs
<1>5. ASSUME NEW u \in Users, Submit(u), UNCHANGED <<publicVars, authVars>>
      PROVE TurnsInv'
  BY <1>5 DEF Submit
<1>6. CASE Crash
  BY <1>6 DEF Crash
<1>7. CASE UNCHANGED vars BY <1>7 DEF vars
<1> QED BY <1>1, <1>2, <1>3, <1>4, <1>5, <1>6, <1>7 DEF Next, Begins

-----------------------------------------------------------------------------
\* While threads take turns, the one at work holds no older watermark than the
\* file's: a stale copy needs a second thread.
LEMMA MarkInvStep == TypeInv /\ TurnsInv /\ MarkInv /\ [Next]_vars => MarkInv'
<1> SUFFICES ASSUME TypeInv, TurnsInv, MarkInv, [Next]_vars PROVE MarkInv'
  OBVIOUS
<1> USE DEF TypeInv, StoreTyped, StoreTypeOK, ControlInv, PublicTypeOK,
           TurnsInv, MarkInv, KnowsMark, PublicPoints, AuthPoints, storeVars,
           worldVars, publicVars, authVars
<1>1. ASSUME NEW t \in Public, SyncBegin(t), UNCHANGED authVars PROVE MarkInv'
  <2>1. file' = file /\ conn'[t] = file /\ file \in Connection(Offsets)
    BY <1>1 DEF SyncBegin, Begin, Quiet, Goto, Visible
  <2>2. alone' => \A u \in Threads \ {t} : pc'[u] = "idle"
    BY <1>1 DEF SyncBegin, Begin, Quiet, Goto
  <2>3. KnowsMark(t)'
    BY <2>1, ConnectionFields
  <2> QED BY <2>2, <2>3
<1>2. ASSUME NEW t \in Auth, AuthBegin(t), UNCHANGED publicVars PROVE MarkInv'
  <2>1. file' = file /\ conn' = conn
    BY <1>2 DEF AuthBegin
  <2>2. alone' => \A u \in Threads \ {t} : pc'[u] = "idle"
    BY <1>2 DEF AuthBegin, Begin, Quiet, Goto
  <2>3. conn[t] = NoConn
    BY <1>2 DEF AuthBegin, Begin
  <2>4. KnowsMark(t)'
    BY <2>1, <2>3
  <2> QED BY <2>2, <2>4
<1>3. ASSUME NEW t \in Ui, UiBegins(t), UNCHANGED <<publicVars, authVars>>
      PROVE MarkInv'
  <2>1. CASE Disconnect(t)
    BY <1>3, <2>1 DEF Disconnect, Quiet, Visible
  <2>2. ASSUME NEW u \in Users, Connect(t, u) PROVE MarkInv'
    BY <1>3, <2>2 DEF Connect, Begin, Quiet, Goto, Fresh, Visible
  <2> QED BY <1>3, <2>1, <2>2 DEF UiBegins
<1>4. ASSUME NEW t \in Threads, Runs(t) PROVE MarkInv'
  <2>1. ASSUME StoreStep(t), UNCHANGED <<publicVars, authVars>> PROVE MarkInv'
    <3>1. CASE Tear(t)
      BY <2>1, <3>1 DEF Tear, Goto
    <3>2. CASE Write(t)
      <4>1. alone' = alone /\ pc[t] = "write"
        BY <3>2 DEF Write
      <4>2. file' = conn[t] \/ file' = NoConn
        BY <3>2 DEF Write
      <4>3. /\ conn' = conn \/ conn' = [conn EXCEPT ![t] = NoConn]
            /\ \A u \in Threads \ {t} : pc'[u] = pc[u]
        BY <3>2 DEF Write, Return, Goto
      <4>4. KnowsMark(t)'
        BY <4>2, <4>3, ConnectionFields
      <4> QED BY <4>1, <4>3, <4>4
    <3> QED BY <2>1, <3>1, <3>2 DEF StoreStep
  <2>2. ASSUME t \in Public, PublicStep(t), UNCHANGED authVars PROVE MarkInv'
    <3>1. CASE SyncFetch(t)
      BY <2>2, <3>1 DEF SyncFetch, Served, Goto, Newest
    <3>2. CASE SyncRaises(t)
      BY <2>2, <3>2 DEF SyncRaises, SaveThen, Goto
    <3>3. CASE SyncPersist(t)
      <4>1. /\ conn[t] \in Connection(Offsets) /\ conn[t].mark \in 0..MaxRecord
            /\ window[t] \in SUBSET Records
        BY <2>2, <3>3, ConnectionFields DEF SyncPersist
      <4>2. PICK failed \in SUBSET window[t] :
              conn' = [conn EXCEPT ![t] = Advanced(t, failed)]
        BY <3>3 DEF SyncPersist, SaveThen, Advanced
      <4>3. /\ Advanced(t, failed).user = conn[t].user
            /\ Advanced(t, failed).mark = NextMark(t, failed)
            /\ NextMark(t, failed) \in conn[t].mark..MaxRecord
        BY <2>2, <4>1, <4>2, AdvancedTyped
      <4>4. conn'[t].user = conn[t].user /\ conn'[t].mark = NextMark(t, failed)
        BY <4>1, <4>2, <4>3
      <4>5. UNCHANGED <<file, alone>> /\ pc' = [pc EXCEPT ![t] = "tear"]
        BY <3>3 DEF SyncPersist, SaveThen, Goto
      <4>6. file # NoConn => file.mark \in 0..MaxRecord
        BY ConnectionFields
      <4>7. \A u \in Threads \ {t} : conn'[u] = conn[u] /\ pc'[u] = pc[u]
        BY <4>2, <4>5
      <4>8. NextMark(t, failed) \in Nat
        BY <4>1, <4>3
      <4>9. alone => KnowsMark(t)'
        <5>1. ASSUME alone, file # NoConn, conn[t].user = file.user
              PROVE  conn[t].mark >= file.mark
          BY <3>3, <4>1, <5>1, ConnectionFields DEF SyncPersist
        <5>2. ASSUME alone, file # NoConn, conn[t].user = file.user
              PROVE  NextMark(t, failed) >= file.mark
          BY <4>1, <4>3, <4>6, <5>1, <5>2
        <5> QED BY <4>4, <4>5, <5>2
      <4> QED BY ZenonT(30), <4>5, <4>7, <4>9
    <3>4. CASE SyncSummary(t)
      <4>1. CASE Visible = NoConn
        BY <2>2, <3>4, <4>1 DEF SyncSummary, SaveThen, Return, Goto, ForgetRun
      <4>2. CASE Visible # NoConn
        <5>1. file' = file /\ conn' = [conn EXCEPT ![t] = file] /\ alone' = alone
          BY <3>4, <4>2 DEF SyncSummary, SaveThen, Visible
        <5>2. file \in Connection(Offsets)
          BY <4>2 DEF Visible
        <5>3. KnowsMark(t)'
          BY <5>1, <5>2, ConnectionFields
        <5>4. alone => \A u \in Threads \ {t} : pc'[u] = "idle"
          BY <3>4, <4>2 DEF SyncSummary, SaveThen, Goto
        <5> QED BY <5>1, <5>3, <5>4
      <4> QED BY <4>1, <4>2
    <3> QED BY <2>2, <3>1, <3>2, <3>3, <3>4 DEF PublicStep
  <2>3. ASSUME t \in Auth, AuthStep(t), UNCHANGED publicVars PROVE MarkInv'
    <3>1. CASE AuthLoad(t)
      BY <2>3, <3>1, ConnectionFields DEF AuthLoad, Goto, Visible
    <3>2. CASE AuthResume(t)
      BY <2>3, <3>2 DEF AuthResume, CheckpointOf, Goto
    <3>3. CASE AuthPage(t)
      BY <2>3, <3>3, ConnectionFields DEF AuthPage, SaveThen, Goto,
         Checkpointed, Page, CapOffset
    <3>4. CASE AuthPageFails(t)
      BY <2>3, <3>4, ConnectionFields DEF AuthPageFails, SaveThen, Goto,
         Checkpointed, ForgetAuth, Page
    <3>5. CASE AuthRaises(t)
      BY <2>3, <3>5 DEF AuthRaises, Return, Goto, ForgetAuth, Page
    <3>6. CASE AuthClear(t)
      BY <2>3, <3>6, ConnectionFields DEF AuthClear, SaveThen, Goto, Cleared,
         ForgetAuth
    <3> QED BY <2>3, <3>1, <3>2, <3>3, <3>4, <3>5, <3>6 DEF AuthStep
  <2>4. ASSUME t \in Ui, UiStep(t), UNCHANGED <<publicVars, authVars>>
        PROVE MarkInv'
    <3>1. CASE ConnectValidated(t)
      BY <2>4, <3>1 DEF ConnectValidated, SaveThen, Goto
    <3>2. CASE ConnectRefused(t)
      BY <2>4, <3>2 DEF ConnectRefused, Return, Goto
    <3> QED BY <2>4, <3>1, <3>2 DEF UiStep
  <2> QED BY <1>4, <2>1, <2>2, <2>3, <2>4 DEF Runs
<1>5. ASSUME NEW u \in Users, Submit(u), UNCHANGED <<publicVars, authVars>>
      PROVE MarkInv'
  BY <1>5 DEF Submit
<1>6. CASE Crash
  BY <1>6 DEF Crash, Visible
<1>7. CASE UNCHANGED vars BY <1>7 DEF vars
<1> QED BY <1>1, <1>2, <1>3, <1>4, <1>5, <1>6, <1>7 DEF Next, Begins

-----------------------------------------------------------------------------
\* While threads take turns, no step moves an account's watermark back.
THEOREM WatermarkNeverBack == Spec => WatermarkMonotone
<1> DEFINE Forward == alone' /\ file # NoConn /\ file' # NoConn /\ file'.user = file.user
                        => file'.mark >= file.mark
<1>1. ASSUME TypeInv, TurnsInv, MarkInv, [Next]_vars PROVE Forward
  <2> SUFFICES ASSUME file # NoConn, file' # NoConn, file' # file, alone'
               PROVE  file'.user = file.user => file'.mark >= file.mark
    BY <1>1, ConnectionFields DEF TypeInv, StoreTyped, StoreTypeOK
  <2>1. \E t \in Threads : Write(t)
    BY <1>1 DEF Next, Begins, Runs, StoreStep, PublicStep, AuthStep, UiStep, UiBegins,
      Crash, Visible, vars, storeVars, worldVars, SyncBegin, AuthBegin, Connect, Disconnect,
      Tear, SyncFetch, SyncRaises, SyncPersist, SyncSummary, AuthLoad, AuthResume, AuthPage,
      AuthPageFails, AuthRaises, AuthClear, ConnectValidated, ConnectRefused, Submit
  <2>2. PICK t \in Threads : Write(t)
    BY <2>1
  <2>3. alone /\ file' = conn[t] /\ conn[t] # NoConn /\ pc[t] # "idle"
    BY <2>2 DEF Write
  <2> QED BY <1>1, <2>3 DEF MarkInv, KnowsMark
<1>2. Init => TurnsInv /\ MarkInv
  BY DEF Init, StoreInit, TurnsInv, MarkInv
<1>3. TypeInv /\ TurnsInv /\ MarkInv /\ [Next]_vars => [Forward]_vars
  BY <1>1
<1>4. Spec => [](TypeInv /\ TurnsInv /\ MarkInv)
  BY <1>2, InitTyped, TypeInvStep, TurnsInvStep, MarkInvStep, PTL DEF Spec
<1>5. WatermarkMonotone <=> [][Forward]_vars
  BY DEF WatermarkMonotone
<1> QED BY <1>3, <1>4, <1>5, PTL DEF Spec

-----------------------------------------------------------------------------
\* What LeetCode serves has no holes, and neither has the answer of a request that
\* failed.
LEMMA ServedUnbroken ==
    ASSUME NEW n \in 0..MaxRecord, NEW k \in 1..WindowLimit
    PROVE  Unbroken(Newest(n, k)) /\ Unbroken({})
BY DEF Unbroken, Newest

-----------------------------------------------------------------------------
\* A fetched window that dropped nothing has no holes.
LEMMA WindowHonestStep ==
    TypeInv /\ WindowHonest /\ [Next]_vars
      => WindowHonest'
<1> SUFFICES ASSUME TypeInv, WindowHonest, [Next]_vars PROVE WindowHonest'
  OBVIOUS
<1>0. Grows
  BY StorageGrows
<1> USE DEF TypeInv, StoreTyped, StoreTypeOK, ControlInv, PublicTypeOK,
           WindowHonest, Grows, PublicPoints, AuthPoints, storeVars, worldVars,
           publicVars, authVars
<1>1. ASSUME NEW t \in Public, SyncBegin(t), UNCHANGED authVars PROVE WindowHonest'
  BY <1>1, <1>0, ConnectionFields DEF SyncBegin, Begin, Quiet, Goto
<1>2. ASSUME NEW t \in Auth, AuthBegin(t), UNCHANGED publicVars
      PROVE WindowHonest'
  BY <1>2, <1>0, ConnectionFields DEF AuthBegin, Begin, Quiet, Goto
<1>3. ASSUME NEW t \in Ui, UiBegins(t), UNCHANGED <<publicVars, authVars>>
      PROVE WindowHonest'
  <2>1. CASE Disconnect(t)
    BY <1>3, <2>1, <1>0, ConnectionFields DEF Disconnect, Quiet
  <2>2. ASSUME NEW u \in Users, Connect(t, u) PROVE WindowHonest'
    BY <1>3, <2>2, <1>0, ConnectionFields DEF Connect, Begin, Quiet, Goto, Fresh
  <2> QED BY <1>3, <2>1, <2>2 DEF UiBegins
<1>4. ASSUME NEW t \in Threads, Runs(t) PROVE WindowHonest'
  <2>1. ASSUME StoreStep(t), UNCHANGED <<publicVars, authVars>>
        PROVE WindowHonest'
    <3>1. CASE Tear(t)
      BY <2>1, <3>1, <1>0, ConnectionFields DEF Tear, Goto
    <3>2. CASE Write(t)
      <4>1. \A u \in Public : pc'[u] = "persist" => pc[u] = "persist" /\ conn'[u] = conn[u]
        BY <2>1, <3>2 DEF Write, Return, Goto
      <4>2. UNCHANGED <<window, garbled>>
        BY <2>1, <3>2 DEF Write
      <4> QED BY <4>1, <4>2
    <3> QED BY <2>1, <3>1, <3>2 DEF StoreStep
  <2>2. ASSUME t \in Public, PublicStep(t), UNCHANGED authVars PROVE WindowHonest'
    <3>1. CASE SyncFetch(t)
      <4>0. PICK reached \in BOOLEAN, W \in Served(t) : \E malformed \in SUBSET W :
              /\ window' = [window EXCEPT ![t] = IF reached THEN W \ malformed ELSE {}]
              /\ garbled' = [garbled EXCEPT ![conn[t].user] = @ \/ malformed # {}]
        <5> HIDE DEF TypeInv, WindowHonest, Grows
        <5> QED BY <3>1 DEF SyncFetch
      <4>1. PICK malformed \in SUBSET W :
              /\ window' = [window EXCEPT ![t] = IF reached THEN W \ malformed ELSE {}]
              /\ garbled' = [garbled EXCEPT ![conn[t].user] = @ \/ malformed # {}]
        BY <4>0
      <4>2. conn[t] \in Connection(Offsets) /\ conn' = conn
        BY <2>2, <3>1 DEF SyncFetch
      <4>3. conn[t].user \in Users /\ upstream[conn[t].user] \in 0..MaxRecord
        BY <4>2, ConnectionFields
      <4>4. Unbroken(W) /\ Unbroken({})
        BY <4>3, ServedUnbroken DEF Served
      <4>5. ASSUME ~garbled'[conn[t].user]
            PROVE  Unbroken(window'[t])
        <5>1. garbled'[conn[t].user] = (garbled[conn[t].user] \/ malformed # {})
          <6>1. garbled \in [Users -> BOOLEAN]
            BY <1>0
          <6> HIDE DEF TypeInv, WindowHonest, Grows
          <6> QED BY <4>1, <4>3, <6>1
        <5>2. malformed = {}
          BY <4>5, <5>1
        <5>3. window'[t] = W \/ window'[t] = {}
          BY <2>2, <4>1, <5>2
        <5> QED BY <4>4, <5>3
      <4>6. \A u \in Public \ {t} : window'[u] = window[u] /\ (pc'[u] = "persist" => pc[u] = "persist")
        BY <3>1, <4>1 DEF SyncFetch, Goto
      <4>7. \A u \in Public : pc[u] = "persist" =>
              (garbled[conn[u].user] => garbled'[conn[u].user])
        BY <1>0, ConnectionFields
      <4>8. ASSUME NEW u \in Public, pc'[u] = "persist", ~garbled'[conn'[u].user]
            PROVE  Unbroken(window'[u])
        <5>1. CASE u = t
          BY <4>2, <4>5, <4>8, <5>1
        <5>2. CASE u # t
          <6>1. pc[u] = "persist" /\ ~garbled[conn[u].user]
            BY <4>2, <4>6, <4>7, <4>8, <5>2
          <6>2. Unbroken(window[u])
            BY <6>1
          <6> QED BY <4>2, <4>6, <5>2, <6>2
        <5> QED BY <5>1, <5>2
      <4> QED BY <4>8
    <3>2. CASE SyncRaises(t)
      BY <2>2, <3>2, <1>0, ConnectionFields DEF SyncRaises, SaveThen, Goto
    <3>3. CASE SyncPersist(t)
      BY <2>2, <3>3, <1>0, ConnectionFields DEF SyncPersist, SaveThen, Goto,
         NextMark, Advance
    <3>4. CASE SyncSummary(t)
      <4>1. pc'[t] # "persist" /\ \A u \in Public \ {t} : pc'[u] = pc[u] /\ conn'[u] = conn[u]
        BY <2>2, <3>4 DEF SyncSummary, SaveThen, Return, Goto
      <4>2. \A u \in Public \ {t} : window'[u] = window[u]
        BY <2>2, <3>4 DEF SyncSummary, ForgetRun
      <4>3. garbled' = garbled
        BY <3>4 DEF SyncSummary, worldVars
      <4>4. ASSUME NEW u \in Public, pc'[u] = "persist", ~garbled'[conn'[u].user]
            PROVE  Unbroken(window'[u])
        <5>1. u # t /\ pc[u] = "persist" /\ ~garbled[conn[u].user]
          BY <4>1, <4>3, <4>4
        <5>2. Unbroken(window[u])
          BY <5>1
        <5> QED BY <4>2, <5>1, <5>2
      <4> QED BY <4>4
    <3> QED BY <2>2, <3>1, <3>2, <3>3, <3>4 DEF PublicStep
  <2>3. ASSUME t \in Auth, AuthStep(t), UNCHANGED publicVars PROVE WindowHonest'
    <3>1. CASE AuthLoad(t)
      BY <2>3, <3>1, <1>0, ConnectionFields DEF AuthLoad, Goto
    <3>2. CASE AuthResume(t)
      BY <2>3, <3>2, <1>0, ConnectionFields DEF AuthResume, CheckpointOf, Goto
    <3>3. CASE AuthPage(t)
      BY <2>3, <3>3, <1>0, ConnectionFields DEF AuthPage, SaveThen, Goto,
         Checkpointed, Page, CapOffset
    <3>4. CASE AuthPageFails(t)
      BY <2>3, <3>4, <1>0, ConnectionFields DEF AuthPageFails, SaveThen, Goto,
         Checkpointed, ForgetAuth, Page
    <3>5. CASE AuthRaises(t)
      BY <2>3, <3>5, <1>0, ConnectionFields DEF AuthRaises, Return, Goto,
         ForgetAuth, Page
    <3>6. CASE AuthClear(t)
      BY <2>3, <3>6, <1>0, ConnectionFields DEF AuthClear, SaveThen, Goto,
         Cleared, ForgetAuth
    <3> QED BY <2>3, <3>1, <3>2, <3>3, <3>4, <3>5, <3>6 DEF AuthStep
  <2>4. ASSUME t \in Ui, UiStep(t), UNCHANGED <<publicVars, authVars>>
        PROVE WindowHonest'
    <3>1. CASE ConnectValidated(t)
      BY <2>4, <3>1, <1>0, ConnectionFields DEF ConnectValidated, SaveThen, Goto
    <3>2. CASE ConnectRefused(t)
      BY <2>4, <3>2, <1>0, ConnectionFields DEF ConnectRefused, Return, Goto
    <3> QED BY <2>4, <3>1, <3>2 DEF UiStep
  <2> QED BY <1>4, <2>1, <2>2, <2>3, <2>4 DEF Runs
<1>5. ASSUME NEW u \in Users, Submit(u), UNCHANGED <<publicVars, authVars>>
      PROVE WindowHonest'
  BY <1>5, <1>0, ConnectionFields DEF Submit
<1>6. CASE Crash
  BY <1>6, <1>0, ConnectionFields DEF Crash
<1>7. CASE UNCHANGED vars BY <1>7 DEF vars
<1> QED BY <1>1, <1>2, <1>3, <1>4, <1>5, <1>6, <1>7 DEF Next, Begins

-----------------------------------------------------------------------------
\* A copy of an honest connection is honest after any step.
LEMMA HonestyKept ==
    ASSUME Grows,
           NEW c \in Connection(Offsets), NEW d \in Connection(Offsets),
           c.user = d.user, c.mark = d.mark, c.floor = d.floor,
           Honest(c, garbled, stored)
    PROVE  Honest(d, garbled', stored')
BY ConnectionFields DEF Grows, Honest

\* No connection promises nothing.
LEMMA NoConnHonest == Honest(NoConn, garbled', stored')
BY DEF Honest

\* A new connection promises nothing.
LEMMA FreshHonest ==
    ASSUME NEW u \in Users PROVE Honest(Fresh(u), garbled', stored')
BY DEF Honest, Fresh

-----------------------------------------------------------------------------
\* Every copy of a watermark, in the file or with a thread, is covered by what
\* is stored: also a stale one, so that saving it does no harm.
LEMMA CopiesHonestStep ==
    TypeInv /\ WindowHonest /\ CopiesHonest /\ [Next]_vars
      => CopiesHonest'
<1> SUFFICES ASSUME TypeInv, WindowHonest, CopiesHonest, [Next]_vars
             PROVE CopiesHonest'
  OBVIOUS
<1>00. Grows
  BY StorageGrows
<1>01. Honest(file, garbled, stored) /\ \A v \in Threads : Honest(conn[v], garbled, stored)
  BY DEF CopiesHonest
<1>02. /\ Honest(file, garbled', stored') /\ Honest(NoConn, garbled', stored')
      /\ \A v \in Threads : Honest(conn[v], garbled', stored')
  <2>1. ASSUME NEW c \in Connection(Offsets) \cup {NoConn}, Honest(c, garbled, stored)
        PROVE  Honest(c, garbled', stored')
    <3>1. CASE c = NoConn
      BY <3>1, NoConnHonest
    <3>2. CASE c \in Connection(Offsets)
      BY <1>00, <2>1, <3>2, HonestyKept
    <3> QED BY <3>1, <3>2
  <2> QED BY <1>01, <2>1, NoConnHonest DEF TypeInv, StoreTyped, StoreTypeOK
<1> USE DEF TypeInv, StoreTyped, StoreTypeOK, PublicTypeOK, AuthTypeOK,
           ControlInv, PublicPoints, AuthPoints, storeVars, worldVars, publicVars,
           authVars
<1>1. ASSUME NEW t \in Public, SyncBegin(t), UNCHANGED authVars PROVE CopiesHonest'
  <2>1. file' = file /\ conn' = [conn EXCEPT ![t] = file]
    BY <1>1 DEF SyncBegin, Visible
  <2> QED BY <1>02, <2>1 DEF CopiesHonest
<1>2. ASSUME NEW t \in Auth, AuthBegin(t), UNCHANGED publicVars
      PROVE CopiesHonest'
  <2>1. file' = file /\ conn' = conn
    BY <1>2 DEF AuthBegin
  <2> QED BY <1>02, <2>1 DEF CopiesHonest
<1>3. ASSUME NEW t \in Ui, UiBegins(t), UNCHANGED <<publicVars, authVars>>
      PROVE CopiesHonest'
  <2>1. CASE Disconnect(t)
    <3>1. file' = NoConn /\ conn' = conn
      BY <2>1 DEF Disconnect
    <3> QED BY <1>02, <3>1 DEF CopiesHonest
  <2>2. ASSUME NEW u \in Users, Connect(t, u) PROVE CopiesHonest'
    <3>1. file' = file /\ conn' = [conn EXCEPT ![t] = Fresh(u)]
      BY <2>2 DEF Connect
    <3> QED BY <1>02, <3>1, FreshHonest DEF CopiesHonest
  <2> QED BY <1>3, <2>1, <2>2 DEF UiBegins
<1>4. ASSUME NEW t \in Threads, Runs(t) PROVE CopiesHonest'
  <2>1. ASSUME StoreStep(t), UNCHANGED <<publicVars, authVars>>
        PROVE CopiesHonest'
    <3>1. CASE Tear(t)
      <4>1. file' = file /\ conn' = conn
        BY <2>1, <3>1 DEF Tear
      <4> QED BY <1>02, <4>1 DEF CopiesHonest
    <3>2. CASE Write(t)
      <4>1. file' = conn[t] \/ file' = NoConn
        BY <3>2 DEF Write
      <4>2. \A v \in Threads : conn'[v] = conn[v] \/ conn'[v] = NoConn
        BY <3>2 DEF Write, Return
      <4>3. Honest(file', garbled', stored')
        BY <1>02, <4>1
      <4>4. ASSUME NEW v \in Threads PROVE Honest(conn'[v], garbled', stored')
        BY <1>02, <4>2
      <4> QED BY <4>3, <4>4 DEF CopiesHonest
    <3> QED BY <2>1, <3>1, <3>2 DEF StoreStep
  <2>2. ASSUME t \in Public, PublicStep(t), UNCHANGED authVars PROVE CopiesHonest'
    <3>1. CASE SyncFetch(t)
      <4>1. file' = file /\ conn' = conn
        BY <2>2, <3>1 DEF SyncFetch
      <4> QED BY <1>02, <4>1 DEF CopiesHonest
    <3>2. CASE SyncRaises(t)
      <4>1. file' = file /\ conn' = [conn EXCEPT ![t] = conn[t]]
        BY <2>2, <3>2 DEF SyncRaises, SaveThen
      <4> QED BY <1>02, <4>1 DEF CopiesHonest
    <3>3. CASE SyncPersist(t)
      <4>1. /\ conn[t] \in Connection(Offsets) /\ window[t] \in SUBSET Records
            /\ conn[t].mark \in 0..MaxRecord /\ conn[t].floor \in 0..MaxRecord
        BY <2>2, <3>3, ConnectionFields DEF SyncPersist
      <4>2. PICK failed \in SUBSET window[t] :
              /\ stored' = [stored EXCEPT ![conn[t].user] = @ \cup (window[t] \ failed)]
              /\ conn' = [conn EXCEPT ![t] = Advanced(t, failed)]
        BY <3>3 DEF SyncPersist, SaveThen, Advanced
      <4> DEFINE user == conn[t].user
                 saved == Advanced(t, failed)
      <4>3. /\ file' = file /\ user \in Users /\ pc[t] = "persist"
            /\ garbled' = garbled
        BY <3>3, <4>1, ConnectionFields DEF SyncPersist
      <4>4. /\ saved.user = user /\ saved.mark = NextMark(t, failed)
            /\ saved.floor = NextFloor(t, failed)
        <5>1. t \in Public /\ failed \in SUBSET window[t]
          BY <2>2
        <5> HIDE DEF TypeInv, Records, Offsets
        <5> QED BY <4>1, <5>1, AdvancedTyped
      <4>5. stored'[user] = stored[user] \cup (window[t] \ failed)
        BY <4>2, <4>3
      <4>6. Honest(saved, garbled', stored')
        <5>1. SUFFICES ASSUME ~garbled[user]
                       PROVE  (NextFloor(t, failed) + 1)..NextMark(t, failed)
                                \subseteq stored'[user]
          BY <4>3, <4>4 DEF Honest
        <5>2. (conn[t].floor + 1)..conn[t].mark \subseteq stored'[user]
          BY <1>01, <4>1, <4>5, <5>1, ConnectionFields DEF Honest
        <5>3. Unbroken(window[t])
          BY <2>2, <4>3, <5>1 DEF WindowHonest
        <5> HIDE DEF saved
        <5>4. CASE failed = {} /\ window[t] # {}
          <6>1. window[t] \subseteq stored'[user]
            BY <4>5, <5>4
          <6>2. NextMark(t, failed) \in window[t] \cup {conn[t].mark}
            BY DEF NextMark, Advance
          <6>3. CASE conn[t].mark = 0 \/ GapDetected(t)
            <7> DEFINE oldest == CHOOSE r \in window[t] : \A q \in window[t] : r <= q
            <7>1. oldest \in window[t] /\ \A q \in window[t] : oldest <= q
              <8>1. \E r \in window[t] : \A q \in window[t] : r <= q
                BY <4>1, <5>4, OldestRecord
              <8> QED BY <8>1
            <7>2. NextFloor(t, failed) = oldest - 1
              BY <5>4, <6>3 DEF NextFloor
            <7> HIDE DEF oldest
            <7>3. conn[t].mark < oldest
              BY <4>1, <6>3, <7>1 DEF GapDetected
            <7>4. CASE NextMark(t, failed) \in window[t]
              <8>1. oldest..NextMark(t, failed) \subseteq window[t]
                BY <5>3, <7>1, <7>4 DEF Unbroken
              <8> QED BY <4>1, <6>1, <7>1, <7>2, <8>1
            <7>5. CASE NextMark(t, failed) = conn[t].mark
              BY <4>1, <7>1, <7>2, <7>3, <7>5
            <7> QED BY <6>2, <7>4, <7>5
          <6>4. CASE conn[t].mark # 0 /\ ~GapDetected(t)
            <7>1. PICK r \in window[t] : ~(r > conn[t].mark)
              BY <5>4, <6>4 DEF GapDetected
            <7>2. NextFloor(t, failed) = conn[t].floor
              BY <6>4 DEF NextFloor
            <7>3. CASE NextMark(t, failed) \in window[t]
              <8>1. r..NextMark(t, failed) \subseteq window[t]
                BY <5>3, <7>1, <7>3 DEF Unbroken
              <8>2. r \in Nat /\ NextMark(t, failed) \in Nat
                BY <4>1, <7>1, <7>3
              <8>3. (conn[t].floor + 1)..NextMark(t, failed)
                      \subseteq (conn[t].floor + 1)..conn[t].mark \cup r..NextMark(t, failed)
                BY <4>1, <7>1, <8>2
              <8> QED BY <5>2, <6>1, <7>2, <8>1, <8>3
            <7>4. CASE NextMark(t, failed) = conn[t].mark
              BY <5>2, <7>2, <7>4
            <7> QED BY <6>2, <7>3, <7>4
          <6> QED BY <6>3, <6>4
        <5>5. CASE ~(failed = {} /\ window[t] # {})
          <6>1. NextMark(t, failed) = conn[t].mark /\ NextFloor(t, failed) = conn[t].floor
            BY <5>5 DEF NextMark, NextFloor, Advance
          <6> QED BY <5>2, <6>1
        <5> QED BY <5>4, <5>5
      <4>7. conn' = [conn EXCEPT ![t] = saved]
        BY <4>2
      <4> HIDE DEF saved
      <4> QED BY <1>02, <4>3, <4>6, <4>7 DEF CopiesHonest
    <3>4. CASE SyncSummary(t)
      <4>1. file' = file
        BY <2>2, <3>4 DEF SyncSummary
      <4>2. conn' = [conn EXCEPT ![t] = file] \/ conn' = [conn EXCEPT ![t] = NoConn]
        BY <2>2, <3>4 DEF SyncSummary, Visible, SaveThen, Return
      <4> QED BY <1>02, <4>1, <4>2 DEF CopiesHonest
    <3> QED BY <2>2, <3>1, <3>2, <3>3, <3>4 DEF PublicStep
  <2>3. ASSUME t \in Auth, AuthStep(t), UNCHANGED publicVars PROVE CopiesHonest'
    <3>1. CASE AuthLoad(t)
      <4>1. file' = file
        BY <2>3, <3>1 DEF AuthLoad
      <4>2. conn' = [conn EXCEPT ![t] = file] \/ conn' = [conn EXCEPT ![t] = NoConn]
        BY <2>3, <3>1 DEF AuthLoad, Visible, SaveThen, Return
      <4> QED BY <1>02, <4>1, <4>2 DEF CopiesHonest
    <3>2. CASE AuthResume(t)
      <4>1. file' = file /\ conn' = conn
        BY <2>3, <3>2 DEF AuthResume
      <4> QED BY <1>02, <4>1 DEF CopiesHonest
    <3>3. CASE AuthPage(t)
      <4> DEFINE saved == Checkpointed(t, CapOffset(offset[t] + PageSize))
      <4>1. /\ conn[t] \in Connection(Offsets)
            /\ CapOffset(offset[t] + PageSize) \in Offsets
            /\ who[t] \in Users \cup {NoUser} /\ base[t] \in 0..MaxRecord
        BY <2>3, <3>3 DEF AuthPage, CapOffset
      <4>2. saved = [conn[t] EXCEPT !.ckpt = CapOffset(offset[t] + PageSize),
                                     !.who = who[t], !.base = base[t]]
        BY <2>3, <3>3 DEF Checkpointed
      <4>3. file' = file /\ conn' = [conn EXCEPT ![t] = saved]
        BY <2>3, <3>3 DEF AuthPage, SaveThen
      <4> HIDE DEF saved
      <4>4. /\ saved \in Connection(Offsets) /\ saved.user = conn[t].user
            /\ saved.mark = conn[t].mark /\ saved.floor = conn[t].floor
        BY <4>1, <4>2 DEF Connection
      <4>5. Honest(saved, garbled', stored')
        BY <1>00, <1>01, <4>1, <4>4, HonestyKept
      <4> QED BY <1>02, <4>3, <4>5 DEF CopiesHonest
    <3>4. CASE AuthPageFails(t)
      <4> DEFINE saved == Checkpointed(t, offset[t])
      <4>1. /\ conn[t] \in Connection(Offsets)
            /\ offset[t] \in Offsets /\ who[t] \in Users \cup {NoUser} /\ base[t] \in 0..MaxRecord
        BY <2>3, <3>4 DEF AuthPageFails
      <4>2. saved = [conn[t] EXCEPT !.ckpt = offset[t],
                                     !.who = who[t], !.base = base[t]]
        BY <2>3, <3>4 DEF Checkpointed
      <4>3. file' = file /\ conn' = [conn EXCEPT ![t] = saved]
        BY <2>3, <3>4 DEF AuthPageFails, SaveThen
      <4> HIDE DEF saved
      <4>4. /\ saved \in Connection(Offsets) /\ saved.user = conn[t].user
            /\ saved.mark = conn[t].mark /\ saved.floor = conn[t].floor
        BY <4>1, <4>2 DEF Connection
      <4>5. Honest(saved, garbled', stored')
        BY <1>00, <1>01, <4>1, <4>4, HonestyKept
      <4> QED BY <1>02, <4>3, <4>5 DEF CopiesHonest
    <3>5. CASE AuthRaises(t)
      <4>1. file' = file /\ conn' = [conn EXCEPT ![t] = NoConn]
        BY <2>3, <3>5 DEF AuthRaises, Return
      <4> QED BY <1>02, <4>1 DEF CopiesHonest
    <3>6. CASE AuthClear(t)
      <4> DEFINE saved == Cleared(t)
      <4>1. /\ conn[t] \in Connection(Offsets)
            /\ 0 \in Offsets /\ NoUser \in Users \cup {NoUser} /\ 0 \in 0..MaxRecord
        BY <2>3, <3>6 DEF AuthClear
      <4>2. saved = [conn[t] EXCEPT !.ckpt = 0, !.who = NoUser, !.base = 0]
        BY <2>3, <3>6 DEF Cleared
      <4>3. file' = file /\ conn' = [conn EXCEPT ![t] = saved]
        BY <2>3, <3>6 DEF AuthClear, SaveThen
      <4> HIDE DEF saved
      <4>4. /\ saved \in Connection(Offsets) /\ saved.user = conn[t].user
            /\ saved.mark = conn[t].mark /\ saved.floor = conn[t].floor
        BY <4>1, <4>2 DEF Connection
      <4>5. Honest(saved, garbled', stored')
        BY <1>00, <1>01, <4>1, <4>4, HonestyKept
      <4> QED BY <1>02, <4>3, <4>5 DEF CopiesHonest
    <3> QED BY <2>3, <3>1, <3>2, <3>3, <3>4, <3>5, <3>6 DEF AuthStep
  <2>4. ASSUME t \in Ui, UiStep(t), UNCHANGED <<publicVars, authVars>>
        PROVE CopiesHonest'
    <3>1. CASE ConnectValidated(t)
      <4>1. file' = file /\ conn' = [conn EXCEPT ![t] = conn[t]]
        BY <2>4, <3>1 DEF ConnectValidated, SaveThen
      <4> QED BY <1>02, <4>1 DEF CopiesHonest
    <3>2. CASE ConnectRefused(t)
      <4>1. file' = file /\ conn' = [conn EXCEPT ![t] = NoConn]
        BY <2>4, <3>2 DEF ConnectRefused, Return
      <4> QED BY <1>02, <4>1 DEF CopiesHonest
    <3> QED BY <2>4, <3>1, <3>2 DEF UiStep
  <2> QED BY <1>4, <2>1, <2>2, <2>3, <2>4 DEF Runs
<1>5. ASSUME NEW u \in Users, Submit(u), UNCHANGED <<publicVars, authVars>>
      PROVE CopiesHonest'
  <2>1. file' = file /\ conn' = conn
    BY <1>5 DEF Submit
  <2> QED BY <1>02, <2>1 DEF CopiesHonest
<1>6. CASE Crash
  <2>1. file' = file \/ file' = NoConn
    BY <1>6 DEF Crash, Visible
  <2>2. \A u \in Threads : conn'[u] = NoConn
    BY <1>6 DEF Crash
  <2> QED BY <1>02, <2>1, <2>2 DEF CopiesHonest
<1>7. CASE UNCHANGED vars BY <1>02, <1>7 DEF vars, CopiesHonest
<1> QED BY <1>1, <1>2, <1>3, <1>4, <1>5, <1>6, <1>7 DEF Next, Begins

\* sync.py:307-318, the coverage promise, for any number of accounts, submissions
\* and threads and whatever windows the server serves: through failed records, stale
\* saves, torn files and crashes, everything from the first window, or from the last
\* gap that was reported, up to the persisted watermark is in storage.
THEOREM CoverageIsHonest == Spec => []CoverageHonest
<1>1. Init => CopiesHonest /\ WindowHonest
  BY DEF Init, StoreInit, CopiesHonest, WindowHonest, Honest, Fresh
<1>2. CopiesHonest => CoverageHonest
  BY DEF CopiesHonest, CoverageHonest, Honest
<1> QED BY <1>1, <1>2, InitTyped, TypeInvStep, WindowHonestStep, CopiesHonestStep,
           PTL DEF Spec

-----------------------------------------------------------------------------
(* The authenticated sync's checkpoint, and what a pass that ends has fetched *)

\* Barring a change of account between its two reads, a run holds a connection
\* to the account it fetches.
LEMMA RunsOnOwnStep ==
    TypeInv /\ RunsOnOwnConnection /\ [Next]_vars
      => RunsOnOwnConnection'
<1> SUFFICES ASSUME TypeInv, RunsOnOwnConnection, [Next]_vars
             PROVE RunsOnOwnConnection'
  OBVIOUS
<1> USE DEF TypeInv, StoreTyped, StoreTypeOK, ControlInv, AuthTypeOK,
           WhoInv, Fetching, RunsOnOwnConnection, PublicPoints, AuthPoints, storeVars,
           worldVars, publicVars, authVars
<1>1. ASSUME NEW t \in Public, SyncBegin(t), UNCHANGED authVars PROVE RunsOnOwnConnection'
  BY <1>1 DEF SyncBegin, Begin, Quiet, Goto
<1>2. ASSUME NEW t \in Auth, AuthBegin(t), UNCHANGED publicVars
      PROVE RunsOnOwnConnection'
  BY <1>2 DEF AuthBegin, Begin, Quiet, Goto
<1>3. ASSUME NEW t \in Ui, UiBegins(t), UNCHANGED <<publicVars, authVars>>
      PROVE RunsOnOwnConnection'
  <2>1. CASE Disconnect(t)
    BY <1>3, <2>1 DEF Disconnect, Quiet
  <2>2. ASSUME NEW u \in Users, Connect(t, u) PROVE RunsOnOwnConnection'
    BY <1>3, <2>2 DEF Connect, Begin, Quiet, Goto, Fresh
  <2> QED BY <1>3, <2>1, <2>2 DEF UiBegins
<1>4. ASSUME NEW t \in Threads, Runs(t) PROVE RunsOnOwnConnection'
  <2>1. ASSUME StoreStep(t), UNCHANGED <<publicVars, authVars>>
        PROVE RunsOnOwnConnection'
    <3>1. CASE Tear(t)
      BY <2>1, <3>1 DEF Tear, Goto
    <3>2. CASE Write(t)
      <4>1. UNCHANGED <<who, mixed>>
        BY <2>1
      <4>2. CASE then[t] = "idle"
        <5>1. pc' = [pc EXCEPT ![t] = "idle"] /\ then' = [then EXCEPT ![t] = "idle"]
              /\ conn' = [conn EXCEPT ![t] = NoConn]
          BY <3>2, <4>2 DEF Write, Return, Goto
        <5> QED BY <4>1, <5>1
      <4>3. CASE then[t] # "idle"
        <5>1. /\ pc' = [pc EXCEPT ![t] = then[t]] /\ UNCHANGED <<conn, then>>
              /\ pc[t] = "write"
          BY <3>2, <4>3 DEF Write, Goto
        <5> QED BY <4>1, <4>3, <5>1
      <4> QED BY <4>2, <4>3
    <3> QED BY <2>1, <3>1, <3>2 DEF StoreStep
  <2>2. ASSUME t \in Public, PublicStep(t), UNCHANGED authVars
        PROVE RunsOnOwnConnection'
    <3>1. CASE SyncFetch(t)
      BY <2>2, <3>1 DEF SyncFetch, Served, Goto, Newest
    <3>2. CASE SyncRaises(t)
      BY <2>2, <3>2 DEF SyncRaises, SaveThen, Goto
    <3>3. CASE SyncPersist(t)
      BY <2>2, <3>3 DEF SyncPersist, SaveThen, Goto, NextMark, Advance
    <3>4. CASE SyncSummary(t)
      <4>1. UNCHANGED <<who, mixed>>
        BY <2>2
      <4>2. CASE Return(t)
        <5>1. pc' = [pc EXCEPT ![t] = "idle"] /\ then' = [then EXCEPT ![t] = "idle"]
              /\ conn' = [conn EXCEPT ![t] = NoConn]
          BY <4>2 DEF Return, Goto
        <5> QED BY <2>2, <4>1, <5>1
      <4>3. CASE SaveThen(t, Visible, "idle")
        <5>1. pc' = [pc EXCEPT ![t] = "tear"] /\ then' = [then EXCEPT ![t] = "idle"]
              /\ conn' = [conn EXCEPT ![t] = Visible]
          BY <4>3 DEF SaveThen, Goto
        <5> QED BY <2>2, <4>1, <5>1
      <4> QED BY <3>4, <4>2, <4>3 DEF SyncSummary
    <3> QED BY <2>2, <3>1, <3>2, <3>3, <3>4 DEF PublicStep
  <2>3. ASSUME t \in Auth, AuthStep(t), UNCHANGED publicVars
        PROVE RunsOnOwnConnection'
    <3>1. CASE AuthLoad(t)
      BY <2>3, <3>1 DEF AuthLoad, Goto, Visible
    <3>2. CASE AuthResume(t)
      BY <2>3, <3>2 DEF AuthResume, CheckpointOf, Goto
    <3>3. CASE AuthPage(t)
      BY <2>3, <3>3 DEF AuthPage, SaveThen, Goto, Checkpointed, Page, CapOffset
    <3>4. CASE AuthPageFails(t)
      BY <2>3, <3>4 DEF AuthPageFails, SaveThen, Goto, Checkpointed, ForgetAuth,
         Page
    <3>5. CASE AuthRaises(t)
      BY <2>3, <3>5 DEF AuthRaises, Return, Goto, ForgetAuth, Page
    <3>6. CASE AuthClear(t)
      BY <2>3, <3>6 DEF AuthClear, SaveThen, Goto, Cleared, ForgetAuth
    <3> QED BY <2>3, <3>1, <3>2, <3>3, <3>4, <3>5, <3>6 DEF AuthStep
  <2>4. ASSUME t \in Ui, UiStep(t), UNCHANGED <<publicVars, authVars>>
        PROVE RunsOnOwnConnection'
    <3>1. CASE ConnectValidated(t)
      BY <2>4, <3>1 DEF ConnectValidated, SaveThen, Goto
    <3>2. CASE ConnectRefused(t)
      BY <2>4, <3>2 DEF ConnectRefused, Return, Goto
    <3> QED BY <2>4, <3>1, <3>2 DEF UiStep
  <2> QED BY <1>4, <2>1, <2>2, <2>3, <2>4 DEF Runs
<1>5. ASSUME NEW u \in Users, Submit(u), UNCHANGED <<publicVars, authVars>>
      PROVE RunsOnOwnConnection'
  BY <1>5 DEF Submit
<1>6. CASE Crash
  BY <1>6 DEF Crash
<1>7. CASE UNCHANGED vars BY <1>7 DEF vars
<1> QED BY <1>1, <1>2, <1>3, <1>4, <1>5, <1>6, <1>7 DEF Next, Begins

-----------------------------------------------------------------------------
\* What the pages of a pass have covered stays covered: submissions made
\* meanwhile only push the older ones further on.
LEMMA CoveredKept ==
    ASSUME TypeInv, TypeInv', Grows, NEW u \in Users,
           NEW k \in Offsets, NEW b \in 0..MaxRecord,
           Covered(u, k, b, upstream, stored)
    PROVE  Covered(u, k, b, upstream', stored')
<1>1. upstream[u] \in Nat /\ upstream'[u] \in Nat /\ upstream[u] <= upstream'[u]
  BY DEF TypeInv, StoreTyped, StoreTypeOK, Grows
<1>2. SUFFICES ASSUME NEW r \in Records, r <= b, r > upstream'[u] - k
               PROVE  r \in stored'[u]
  BY DEF Covered
<1>3. r > upstream[u] - k
  BY <1>1, <1>2
<1> QED BY <1>2, <1>3 DEF Covered, Grows

\* The pages of a pass meet: what the next page shows begins where the last ended.
LEMMA PageCovered ==
    ASSUME TypeInv, NEW u \in Users,
           NEW k \in Offsets, NEW b \in 0..MaxRecord,
           Covered(u, k, b, upstream, stored),
           stored[u] \subseteq stored'[u], Page(upstream[u], k) \subseteq stored'[u]
    PROVE  Covered(u, CapOffset(k + PageSize), b, upstream, stored')
<1>1. upstream[u] \in 0..MaxRecord
  BY DEF TypeInv, StoreTyped, StoreTypeOK
<1>2. SUFFICES ASSUME NEW r \in Records, r <= b, r > upstream[u] - CapOffset(k + PageSize)
               PROVE  r \in stored'[u]
  BY DEF Covered
<1>3. r > upstream[u] - k - PageSize
  BY <1>1, <1>2 DEF CapOffset
<1>4. CASE r > upstream[u] - k
  BY <1>2, <1>4 DEF Covered
<1>5. CASE ~(r > upstream[u] - k)
  BY <1>1, <1>3, <1>5 DEF Page
<1> QED BY <1>4, <1>5

\* A page that is not full is the last one.
LEMMA LastPage ==
    ASSUME TypeInv, NEW u \in Users,
           NEW k \in Offsets, NEW b \in 0..MaxRecord,
           Covered(u, k, b, upstream, stored),
           stored[u] \subseteq stored'[u], Page(upstream[u], k) \subseteq stored'[u],
           Cardinality(Page(upstream[u], k)) # PageSize
    PROVE  1..b \subseteq stored'[u]
<1>1. upstream[u] \in 0..MaxRecord
  BY DEF TypeInv, StoreTyped, StoreTypeOK
<1> DEFINE n == upstream[u] - k
<1>2. n \in Int /\ n <= MaxRecord /\ PageSize \in Nat /\ PageSize > 0
  BY <1>1
<1>3. Page(upstream[u], k) = {r \in 1..MaxRecord : r <= n /\ r > n - PageSize}
  BY DEF Page
<1>4. ~(n >= PageSize)
  <2> HIDE DEF n
  <2>1. SUFFICES ASSUME n >= PageSize PROVE FALSE
    OBVIOUS
  <2>2. Page(upstream[u], k) = (n - PageSize + 1)..n
    BY <1>2, <1>3, <2>1
  <2>3. Cardinality((n - PageSize + 1)..n) = n - (n - PageSize + 1) + 1
    BY <1>2, <2>1, FS_Interval
  <2> QED BY <1>2, <2>2, <2>3
<1>5. SUFFICES ASSUME NEW r \in 1..b PROVE r \in stored'[u]
  OBVIOUS
<1>6. CASE r > n
  BY <1>6 DEF Covered
<1>7. CASE ~(r > n)
  BY <1>2, <1>3, <1>4, <1>7
<1> QED BY <1>6, <1>7

\* A copy of an honest checkpoint is honest after any step.
LEMMA CheckpointKept ==
    ASSUME TypeInv, TypeInv', Grows,
           NEW c \in Connection(Offsets), NEW d \in Connection(Offsets),
           c.user = d.user, c.ckpt = d.ckpt, c.who = d.who, c.base = d.base,
           CheckpointHonest(c, upstream, stored)
    PROVE  CheckpointHonest(d, upstream', stored')
BY ConnectionFields, CoveredKept DEF CheckpointHonest

\* A connection without a checkpoint promises nothing.
LEMMA NoCheckpoint ==
    ASSUME NEW c, c # NoConn => c.ckpt = 0
    PROVE  CheckpointHonest(c, upstream', stored')
BY DEF CheckpointHonest

-----------------------------------------------------------------------------
\* Every copy of a checkpoint, in the file or with a thread, covers what it says.
LEMMA CheckpointsHonestStep ==
    TypeInv /\ RunsOnOwnConnection /\ PassInv /\ CheckpointsHonest /\ [Next]_vars
      => CheckpointsHonest'
<1> SUFFICES ASSUME TypeInv, RunsOnOwnConnection, PassInv, CheckpointsHonest, [Next]_vars
             PROVE CheckpointsHonest'
  OBVIOUS
<1>00. TypeInv' /\ Grows
  BY TypeInvStep, StorageGrows
<1>01. ASSUME ~mixed'
       PROVE  /\ CheckpointHonest(file, upstream, stored)
              /\ \A v \in Threads : CheckpointHonest(conn[v], upstream, stored)
  BY <1>00, <1>01 DEF CheckpointsHonest, Grows
<1>02. ASSUME ~mixed'
       PROVE  /\ CheckpointHonest(file, upstream', stored')
              /\ CheckpointHonest(NoConn, upstream', stored')
              /\ \A v \in Threads : CheckpointHonest(conn[v], upstream', stored')
  <2>1. ASSUME NEW c \in Connection(Offsets) \cup {NoConn},
               CheckpointHonest(c, upstream, stored)
        PROVE  CheckpointHonest(c, upstream', stored')
    <3>1. CASE c = NoConn
      BY <3>1, NoCheckpoint
    <3>2. CASE c \in Connection(Offsets)
      BY <1>00, <2>1, <3>2, CheckpointKept
    <3> QED BY <3>1, <3>2
  <2> QED BY <1>01, <1>02, <2>1, NoCheckpoint DEF TypeInv, StoreTyped, StoreTypeOK
<1> USE DEF TypeInv, StoreTyped, StoreTypeOK, PublicTypeOK, AuthTypeOK,
           ControlInv, PublicPoints, AuthPoints, storeVars, worldVars, publicVars,
           authVars
<1>1. ASSUME NEW t \in Public, SyncBegin(t), UNCHANGED authVars PROVE CheckpointsHonest'
  <2>1. file' = file
    BY <1>1 DEF SyncBegin, Visible
  <2>2. \A v \in Threads : conn'[v] \in {conn[v], file}
    BY <1>1 DEF SyncBegin, Visible
  <2> QED BY <1>02, <2>1, <2>2 DEF CheckpointsHonest
<1>2. ASSUME NEW t \in Auth, AuthBegin(t), UNCHANGED publicVars
      PROVE CheckpointsHonest'
  <2>1. file' = file
    BY <1>2 DEF AuthBegin
  <2>2. conn' = conn
    BY <1>2 DEF AuthBegin
  <2> QED BY <1>02, <2>1, <2>2 DEF CheckpointsHonest
<1>3. ASSUME NEW t \in Ui, UiBegins(t), UNCHANGED <<publicVars, authVars>>
      PROVE CheckpointsHonest'
  <2>1. CASE Disconnect(t)
    <3>1. file' = NoConn
      BY <2>1 DEF Disconnect
    <3>2. conn' = conn
      BY <2>1 DEF Disconnect
    <3> QED BY <1>02, <3>1, <3>2 DEF CheckpointsHonest
  <2>2. ASSUME NEW u \in Users, Connect(t, u) PROVE CheckpointsHonest'
    <3>1. file' = file /\ conn' = [conn EXCEPT ![t] = Fresh(u)]
      BY <2>2 DEF Connect
    <3>2. CheckpointHonest(Fresh(u), upstream', stored')
      BY NoCheckpoint DEF Fresh
    <3> QED BY <1>02, <3>1, <3>2 DEF CheckpointsHonest
  <2> QED BY <1>3, <2>1, <2>2 DEF UiBegins
<1>4. ASSUME NEW t \in Threads, Runs(t) PROVE CheckpointsHonest'
  <2>1. ASSUME StoreStep(t), UNCHANGED <<publicVars, authVars>>
        PROVE CheckpointsHonest'
    <3>1. CASE Tear(t)
      <4>1. file' = file
        BY <3>1 DEF Tear
      <4>2. conn' = conn
        BY <3>1 DEF Tear
      <4> QED BY <1>02, <4>1, <4>2 DEF CheckpointsHonest
    <3>2. CASE Write(t)
      <4>1. file' = conn[t] \/ file' = NoConn
        BY <3>2 DEF Write
      <4>2. \A v \in Threads : conn'[v] = conn[v] \/ conn'[v] = NoConn
        BY <3>2 DEF Write, Return
      <4>3. ASSUME ~mixed' PROVE CheckpointHonest(file', upstream', stored')
        BY <1>02, <4>1, <4>3
      <4>4. ASSUME ~mixed', NEW v \in Threads
            PROVE  CheckpointHonest(conn'[v], upstream', stored')
        BY <1>02, <4>2, <4>4
      <4> QED BY <4>3, <4>4 DEF CheckpointsHonest
    <3> QED BY <2>1, <3>1, <3>2 DEF StoreStep
  <2>2. ASSUME t \in Public, PublicStep(t), UNCHANGED authVars
        PROVE CheckpointsHonest'
    <3>1. CASE SyncFetch(t)
      <4>1. file' = file
        BY <3>1 DEF SyncFetch
      <4>2. conn' = conn
        BY <3>1 DEF SyncFetch
      <4> QED BY <1>02, <4>1, <4>2 DEF CheckpointsHonest
    <3>2. CASE SyncRaises(t)
      <4>1. file' = file
        BY <3>2 DEF SyncRaises, SaveThen
      <4>2. \A v \in Threads : conn'[v] = conn[v]
        BY <3>2 DEF SyncRaises, SaveThen
      <4> QED BY <1>02, <4>1, <4>2 DEF CheckpointsHonest
    <3>3. CASE SyncPersist(t)
      <4>1. conn[t] \in Connection(Offsets) /\ window[t] \in SUBSET Records
        BY <2>2, <3>3 DEF SyncPersist
      <4>2. PICK failed \in SUBSET window[t] :
              conn' = [conn EXCEPT ![t] = Advanced(t, failed)]
        BY <3>3 DEF SyncPersist, SaveThen, Advanced
      <4> DEFINE saved == Advanced(t, failed)
      <4>3. /\ saved.user = conn[t].user /\ saved.ckpt = conn[t].ckpt
            /\ saved.who = conn[t].who /\ saved.base = conn[t].base
        BY <2>2, <4>1, <4>2, AdvancedTyped
      <4>4. file' = file /\ conn' = [conn EXCEPT ![t] = saved]
        BY <3>3, <4>2 DEF SyncPersist
      <4>5. saved \in Connection(Offsets)
        BY <2>2, <4>1, <4>2, AdvancedTyped
      <4> HIDE DEF saved
      <4>6. ASSUME ~mixed' PROVE CheckpointHonest(saved, upstream', stored')
        <5>1. CheckpointHonest(conn[t], upstream, stored)
          BY <1>01, <4>6
        <5> QED BY <1>00, <4>1, <4>3, <4>5, <5>1, CheckpointKept
      <4> QED BY <1>02, <4>4, <4>6 DEF CheckpointsHonest
    <3>4. CASE SyncSummary(t)
      <4>1. file' = file
        BY <2>2, <3>4 DEF SyncSummary
      <4>2. \A v \in Threads : conn'[v] = conn[v] \/ conn'[v] = file \/ conn'[v] = NoConn
        BY <2>2, <3>4 DEF SyncSummary, Visible, SaveThen, Return
      <4> QED BY <1>02, <4>1, <4>2 DEF CheckpointsHonest
    <3> QED BY <2>2, <3>1, <3>2, <3>3, <3>4 DEF PublicStep
  <2>3. ASSUME t \in Auth, AuthStep(t), UNCHANGED publicVars
        PROVE CheckpointsHonest'
    <3>1. CASE AuthLoad(t)
      <4>1. file' = file
        BY <2>3, <3>1 DEF AuthLoad
      <4>2. \A v \in Threads : conn'[v] = conn[v] \/ conn'[v] = file \/ conn'[v] = NoConn
        BY <2>3, <3>1 DEF AuthLoad, Visible, SaveThen, Return
      <4> QED BY <1>02, <4>1, <4>2 DEF CheckpointsHonest
    <3>2. CASE AuthResume(t)
      <4>1. file' = file
        BY <3>2 DEF AuthResume
      <4>2. conn' = conn
        BY <3>2 DEF AuthResume
      <4> QED BY <1>02, <4>1, <4>2 DEF CheckpointsHonest
    <3>3. CASE AuthPage(t)
      <4> DEFINE saved == Checkpointed(t, CapOffset(offset[t] + PageSize))
      <4>1. /\ conn[t] \in Connection(Offsets) /\ conn[t] # NoConn
            /\ CapOffset(offset[t] + PageSize) \in Offsets
            /\ who[t] \in Users \cup {NoUser} /\ base[t] \in 0..MaxRecord
        BY <2>3, <3>3, ConnectionFields DEF AuthPage, CapOffset
      <4>2. saved = [conn[t] EXCEPT !.ckpt = CapOffset(offset[t] + PageSize),
                                     !.who = who[t], !.base = base[t]]
        BY <2>3, <3>3 DEF Checkpointed
      <4>3. file' = file /\ conn' = [conn EXCEPT ![t] = saved]
        BY <2>3, <3>3 DEF AuthPage, SaveThen
      <4> HIDE DEF saved
      <4>4. /\ saved.user = conn[t].user /\ saved.ckpt = CapOffset(offset[t] + PageSize)
            /\ saved.who = who[t] /\ saved.base = base[t]
        BY <4>1, <4>2 DEF Connection
      <4>5. ASSUME ~mixed'
            PROVE  /\ conn[t].user = who[t] /\ who[t] \in Users /\ offset[t] \in Offsets
                   /\ Covered(who[t], offset[t], base[t], upstream, stored)
        <5>1. ~mixed /\ pc[t] = "page"
          BY <1>00, <3>3, <4>5 DEF AuthPage, Grows
        <5>2. Fetching(t)
          BY <5>1 DEF Fetching, AuthPoints
        <5> QED BY <2>3, <4>1, <5>1, <5>2 DEF RunsOnOwnConnection, PassInv, WhoInv
      <4>6. /\ upstream' = upstream
            /\ stored' = [stored EXCEPT ![who[t]] =
                            @ \cup Page(upstream[who[t]], offset[t])]
        BY <2>3, <3>3 DEF AuthPage
      <4>9. ASSUME ~mixed' PROVE CheckpointHonest(saved, upstream', stored')
        <5>1. Page(upstream[who[t]], offset[t]) \subseteq stored'[who[t]]
          BY <4>5, <4>6, <4>9
        <5>2. stored[who[t]] \subseteq stored'[who[t]]
          BY <4>5, <4>6, <4>9
        <5>3. Covered(who[t], CapOffset(offset[t] + PageSize), base[t], upstream, stored')
          BY <4>1, <4>5, <4>9, <5>1, <5>2, PageCovered
        <5> QED BY <4>4, <4>5, <4>6, <4>9, <5>3 DEF CheckpointHonest
      <4> QED BY <1>02, <4>3, <4>9 DEF CheckpointsHonest
    <3>4. CASE AuthPageFails(t)
      <4> DEFINE saved == Checkpointed(t, offset[t])
      <4>1. /\ conn[t] \in Connection(Offsets) /\ conn[t] # NoConn
            /\ offset[t] \in Offsets /\ who[t] \in Users \cup {NoUser} /\ base[t] \in 0..MaxRecord
        BY <2>3, <3>4, ConnectionFields DEF AuthPageFails
      <4>2. saved = [conn[t] EXCEPT !.ckpt = offset[t],
                                     !.who = who[t], !.base = base[t]]
        BY <2>3, <3>4 DEF Checkpointed
      <4>3. file' = file /\ conn' = [conn EXCEPT ![t] = saved]
        BY <2>3, <3>4 DEF AuthPageFails, SaveThen
      <4> HIDE DEF saved
      <4>4. /\ saved.user = conn[t].user /\ saved.ckpt = offset[t]
            /\ saved.who = who[t] /\ saved.base = base[t]
        BY <4>1, <4>2 DEF Connection
      <4>5. ASSUME ~mixed'
            PROVE  /\ conn[t].user = who[t] /\ who[t] \in Users /\ offset[t] \in Offsets
                   /\ Covered(who[t], offset[t], base[t], upstream, stored)
        <5>1. ~mixed /\ pc[t] = "page"
          BY <1>00, <3>4, <4>5 DEF AuthPageFails, Grows
        <5>2. Fetching(t)
          BY <5>1 DEF Fetching, AuthPoints
        <5> QED BY <2>3, <4>1, <5>1, <5>2 DEF RunsOnOwnConnection, PassInv, WhoInv
      <4>9. ASSUME ~mixed' PROVE CheckpointHonest(saved, upstream', stored')
        <5>1. Covered(who[t], offset[t], base[t], upstream', stored')
          BY <1>00, <4>1, <4>5, <4>9, CoveredKept
        <5> QED BY <4>4, <4>5, <4>9, <5>1 DEF CheckpointHonest
      <4> QED BY <1>02, <4>3, <4>9 DEF CheckpointsHonest
    <3>5. CASE AuthRaises(t)
      <4>1. file' = file
        BY <2>3, <3>5 DEF AuthRaises, Return
      <4>2. \A v \in Threads : conn'[v] = conn[v] \/ conn'[v] = NoConn
        BY <2>3, <3>5 DEF AuthRaises, Return
      <4> QED BY <1>02, <4>1, <4>2 DEF CheckpointsHonest
    <3>6. CASE AuthClear(t)
      <4> DEFINE saved == Cleared(t)
      <4>1. /\ conn[t] \in Connection(Offsets) /\ conn[t] # NoConn
            /\ 0 \in Offsets /\ NoUser \in Users \cup {NoUser} /\ 0 \in 0..MaxRecord
        BY <2>3, <3>6, ConnectionFields DEF AuthClear
      <4>2. saved = [conn[t] EXCEPT !.ckpt = 0, !.who = NoUser, !.base = 0]
        BY <2>3, <3>6 DEF Cleared
      <4>3. file' = file /\ conn' = [conn EXCEPT ![t] = saved]
        BY <2>3, <3>6 DEF AuthClear, SaveThen
      <4> HIDE DEF saved
      <4>4. /\ saved.user = conn[t].user /\ saved.ckpt = 0
            /\ saved.who = NoUser /\ saved.base = 0
        BY <4>1, <4>2 DEF Connection
      <4>9. CheckpointHonest(saved, upstream', stored')
        BY <4>4, NoCheckpoint
      <4> QED BY <1>02, <4>3, <4>9 DEF CheckpointsHonest
    <3> QED BY <2>3, <3>1, <3>2, <3>3, <3>4, <3>5, <3>6 DEF AuthStep
  <2>4. ASSUME t \in Ui, UiStep(t), UNCHANGED <<publicVars, authVars>>
        PROVE CheckpointsHonest'
    <3>1. CASE ConnectValidated(t)
      <4>1. file' = file
        BY <3>1 DEF ConnectValidated, SaveThen
      <4>2. \A v \in Threads : conn'[v] = conn[v]
        BY <3>1 DEF ConnectValidated, SaveThen
      <4> QED BY <1>02, <4>1, <4>2 DEF CheckpointsHonest
    <3>2. CASE ConnectRefused(t)
      <4>1. file' = file
        BY <3>2 DEF ConnectRefused, Return
      <4>2. \A v \in Threads : conn'[v] = conn[v] \/ conn'[v] = NoConn
        BY <3>2 DEF ConnectRefused, Return
      <4> QED BY <1>02, <4>1, <4>2 DEF CheckpointsHonest
    <3> QED BY <2>4, <3>1, <3>2 DEF UiStep
  <2> QED BY <1>4, <2>1, <2>2, <2>3, <2>4 DEF Runs
<1>5. ASSUME NEW u \in Users, Submit(u), UNCHANGED <<publicVars, authVars>>
      PROVE CheckpointsHonest'
  <2>1. file' = file
    BY <1>5 DEF Submit
  <2>2. conn' = conn
    BY <1>5 DEF Submit
  <2> QED BY <1>02, <2>1, <2>2 DEF CheckpointsHonest
<1>6. CASE Crash
  <2>1. file' = file \/ file' = NoConn
    BY <1>6 DEF Crash, Visible
  <2>2. \A u \in Threads : conn'[u] = NoConn
    BY <1>6 DEF Crash
  <2> QED BY <1>02, <2>1, <2>2 DEF CheckpointsHonest
<1>7. CASE UNCHANGED vars BY <1>02, <1>7 DEF vars, CheckpointsHonest
<1> QED BY <1>1, <1>2, <1>3, <1>4, <1>5, <1>6, <1>7 DEF Next, Begins

-----------------------------------------------------------------------------
\* A run between two pages has stored what its offset says, and one that has
\* seen its last page all that its pass began with.
LEMMA PassInvStep ==
    TypeInv /\ RunsOnOwnConnection /\ CheckpointsHonest /\ PassInv /\ [Next]_vars
      => PassInv'
<1> SUFFICES ASSUME TypeInv, RunsOnOwnConnection, CheckpointsHonest, PassInv, [Next]_vars
             PROVE PassInv'
  OBVIOUS
<1>00. TypeInv' /\ Grows
  BY TypeInvStep, StorageGrows
<1> DEFINE Kept(v) ==
      /\ Fetching(v) /\ pc[v] \notin {"load", "resume"} =>
           Covered(who[v], offset[v], base[v], upstream', stored')
      /\ Finishing(v) => 1..base[v] \subseteq stored'[who[v]]
<1>02. ASSUME ~mixed', NEW v \in Auth PROVE Kept(v)
  <2>1. Fetching(v) => who[v] \in Users
    BY DEF TypeInv, WhoInv
  <2>2. offset[v] \in Offsets /\ base[v] \in 0..MaxRecord
    BY DEF TypeInv, AuthTypeOK
  <2>3. Finishing(v) => Fetching(v)
    BY DEF Fetching, Finishing, AuthPoints
  <2>4. /\ Fetching(v) /\ pc[v] \notin {"load", "resume"} =>
             Covered(who[v], offset[v], base[v], upstream, stored)
        /\ Finishing(v) => 1..base[v] \subseteq stored[who[v]]
    BY <1>00, <1>02 DEF PassInv, Grows
  <2>5. Finishing(v) => 1..base[v] \subseteq stored'[who[v]]
    BY <1>00, <2>1, <2>3, <2>4 DEF Grows
  <2>6. Fetching(v) /\ pc[v] \notin {"load", "resume"} =>
             Covered(who[v], offset[v], base[v], upstream', stored')
    BY <1>00, <2>1, <2>2, <2>4, CoveredKept
  <2> QED BY <2>5, <2>6
<1> USE DEF TypeInv, StoreTyped, StoreTypeOK, PublicTypeOK, AuthTypeOK,
           ControlInv, WhoInv, Fetching, Finishing, PassInv, PublicPoints, AuthPoints,
           storeVars, worldVars, publicVars, authVars
<1>1. ASSUME NEW t \in Public, SyncBegin(t), UNCHANGED authVars PROVE PassInv'
  BY <1>1, <1>02 DEF SyncBegin, Begin, Quiet, Goto
<1>2. ASSUME NEW t \in Auth, AuthBegin(t), UNCHANGED publicVars PROVE PassInv'
  BY <1>2, <1>02 DEF AuthBegin, Begin, Quiet, Goto
<1>3. ASSUME NEW t \in Ui, UiBegins(t), UNCHANGED <<publicVars, authVars>>
      PROVE PassInv'
  <2>1. CASE Disconnect(t)
    BY <1>3, <2>1, <1>02 DEF Disconnect, Quiet
  <2>2. ASSUME NEW u \in Users, Connect(t, u) PROVE PassInv'
    BY <1>3, <2>2, <1>02 DEF Connect, Begin, Quiet, Goto, Fresh
  <2> QED BY <1>3, <2>1, <2>2 DEF UiBegins
<1>4. ASSUME NEW t \in Threads, Runs(t) PROVE PassInv'
  <2>1. ASSUME StoreStep(t), UNCHANGED <<publicVars, authVars>> PROVE PassInv'
    <3>1. CASE Tear(t)
      BY <2>1, <3>1, <1>02 DEF Tear, Goto
    <3>2. CASE Write(t)
      <4>1. UNCHANGED <<who, offset, base>>
        BY <2>1
      <4>2. CASE then[t] = "idle"
        <5>1. pc' = [pc EXCEPT ![t] = "idle"] /\ then' = [then EXCEPT ![t] = "idle"]
          BY <3>2, <4>2 DEF Write, Return, Goto
        <5> QED BY <1>02, <4>1, <5>1
      <4>3. CASE then[t] # "idle"
        <5>1. /\ pc' = [pc EXCEPT ![t] = then[t]] /\ then' = then
              /\ pc[t] = "write"
          BY <3>2, <4>3 DEF Write, Goto
        <5> QED BY <1>02, <4>1, <4>3, <5>1
      <4> QED BY <4>2, <4>3
    <3> QED BY <2>1, <3>1, <3>2 DEF StoreStep
  <2>2. ASSUME t \in Public, PublicStep(t), UNCHANGED authVars PROVE PassInv'
    <3>1. CASE SyncFetch(t)
      BY <2>2, <3>1, <1>02 DEF SyncFetch, Served, Goto, Newest
    <3>2. CASE SyncRaises(t)
      BY <2>2, <3>2, <1>02 DEF SyncRaises, SaveThen, Goto
    <3>3. CASE SyncPersist(t)
      BY ZenonT(30), <2>2, <3>3, <1>02 DEF SyncPersist, SaveThen, Goto, NextMark, Advance
    <3>4. CASE SyncSummary(t)
      <4>1. UNCHANGED <<who, offset, base>> /\ pc[t] = "summary"
        BY <2>2, <3>4 DEF SyncSummary
      <4>2. /\ pc' = [pc EXCEPT ![t] = "idle"] \/ pc' = [pc EXCEPT ![t] = "tear"]
            /\ then' = [then EXCEPT ![t] = "idle"]
        BY <3>4 DEF SyncSummary, SaveThen, Return, Goto
      <4> QED BY <1>02, <2>2, <4>1, <4>2
    <3> QED BY <2>2, <3>1, <3>2, <3>3, <3>4 DEF PublicStep
  <2>3. ASSUME t \in Auth, AuthStep(t), UNCHANGED publicVars PROVE PassInv'
    <3>1. CASE AuthLoad(t)
      BY <2>3, <3>1, <1>02 DEF AuthLoad, Goto
    <3>2. CASE AuthResume(t)
      <4>1. \A v \in Auth \ {t} :
              /\ pc'[v] = pc[v] /\ then'[v] = then[v] /\ who'[v] = who[v]
              /\ offset'[v] = offset[v] /\ base'[v] = base[v]
        BY <2>3, <3>2 DEF AuthResume, Goto
      <4>2. /\ pc[t] = "resume" /\ pc'[t] = "page" /\ who'[t] = who[t]
            /\ UNCHANGED <<then, upstream, stored, mixed>>
            /\ offset'[t] = CheckpointOf(conn[t])
            /\ base'[t] = IF CheckpointOf(conn[t]) = 0
                            THEN upstream[who[t]] ELSE conn[t].base
        BY <2>3, <3>2 DEF AuthResume, Goto
      <4>3. Fetching(t) /\ who[t] \in Users
        BY <2>3, <4>2
      <4>4. ASSUME ~mixed PROVE Covered(who[t], offset'[t], base'[t], upstream', stored')
        <5>1. CASE CheckpointOf(conn[t]) = 0
          BY <4>2, <4>3, <5>1 DEF Covered
        <5>2. CASE CheckpointOf(conn[t]) # 0
          <6>1. conn[t] # NoConn /\ CheckpointOf(conn[t]) = conn[t].ckpt
            BY <5>2 DEF CheckpointOf
          <6>2. conn[t].user = who[t]
            BY <2>3, <4>2, <4>3, <4>4, <6>1 DEF RunsOnOwnConnection
          <6>3. Covered(conn[t].user, conn[t].ckpt, conn[t].base, upstream, stored)
            BY <4>4, <5>2, <6>1 DEF CheckpointsHonest, CheckpointHonest
          <6> QED BY <4>2, <5>2, <6>1, <6>2, <6>3
        <5> QED BY <5>1, <5>2
      <4> QED BY ZenonT(30), <1>02, <4>1, <4>2, <4>4
    <3>3. CASE AuthPage(t)
      <4>1. \A v \in Auth \ {t} :
              /\ pc'[v] = pc[v] /\ then'[v] = then[v] /\ who'[v] = who[v]
              /\ offset'[v] = offset[v] /\ base'[v] = base[v]
        BY <2>3, <3>3 DEF AuthPage, SaveThen, Goto
      <4> DEFINE page == Page(upstream[who[t]], offset[t])
      <4>2. /\ pc[t] = "page" /\ pc'[t] = "tear"
            /\ then'[t] = IF Cardinality(page) = PageSize THEN "page" ELSE "clear"
            /\ who' = who /\ base' = base /\ upstream' = upstream /\ mixed' = mixed
            /\ offset'[t] = CapOffset(offset[t] + PageSize)
            /\ stored' = [stored EXCEPT ![who[t]] = @ \cup page]
        BY <2>3, <3>3 DEF AuthPage, SaveThen, Goto
      <4>3. /\ Fetching(t) /\ who[t] \in Users
            /\ offset[t] \in Offsets /\ base[t] \in 0..MaxRecord
        BY <2>3, <4>2
      <4>4. page \subseteq stored'[who[t]] /\ stored[who[t]] \subseteq stored'[who[t]]
        BY <4>2, <4>3
      <4>5. ASSUME ~mixed PROVE Covered(who[t], offset[t], base[t], upstream, stored)
        BY <2>3, <4>2, <4>3, <4>5 DEF PassInv
      <4>6. ASSUME ~mixed PROVE Covered(who[t], offset'[t], base[t], upstream', stored')
        <5>1. Covered(who[t], CapOffset(offset[t] + PageSize), base[t], upstream, stored')
          BY <4>3, <4>4, <4>5, <4>6, PageCovered
        <5> QED BY <4>2, <5>1
      <4>7. ASSUME ~mixed, Cardinality(page) # PageSize
            PROVE  1..base[t] \subseteq stored'[who[t]]
        BY <4>3, <4>4, <4>5, <4>7, LastPage
      <4>8. ASSUME ~mixed, Finishing(t)'
            PROVE 1..base[t] \subseteq stored'[who[t]]
        BY <4>2, <4>7, <4>8
      <4> QED BY ZenonT(30), <1>02, <4>1, <4>2, <4>6, <4>8
    <3>4. CASE AuthPageFails(t)
      BY ZenonT(30), <2>3, <3>4, <1>02 DEF AuthPageFails, SaveThen, Goto, Checkpointed,
         ForgetAuth, Page
    <3>5. CASE AuthRaises(t)
      BY ZenonT(30), <2>3, <3>5, <1>02 DEF AuthRaises, Return, Goto, ForgetAuth, Page
    <3>6. CASE AuthClear(t)
      BY <2>3, <3>6, <1>02 DEF AuthClear, SaveThen, Goto, Cleared, ForgetAuth
    <3> QED BY <2>3, <3>1, <3>2, <3>3, <3>4, <3>5, <3>6 DEF AuthStep
  <2>4. ASSUME t \in Ui, UiStep(t), UNCHANGED <<publicVars, authVars>>
        PROVE PassInv'
    <3>1. CASE ConnectValidated(t)
      BY <2>4, <3>1, <1>02 DEF ConnectValidated, SaveThen, Goto
    <3>2. CASE ConnectRefused(t)
      BY <2>4, <3>2, <1>02 DEF ConnectRefused, Return, Goto
    <3> QED BY <2>4, <3>1, <3>2 DEF UiStep
  <2> QED BY <1>4, <2>1, <2>2, <2>3, <2>4 DEF Runs
<1>5. ASSUME NEW u \in Users, Submit(u), UNCHANGED <<publicVars, authVars>>
      PROVE PassInv'
  BY <1>5, <1>02 DEF Submit
<1>6. CASE Crash
  BY <1>6, <1>02 DEF Crash
<1>7. CASE UNCHANGED vars BY <1>02, <1>7 DEF vars
<1> QED BY <1>1, <1>2, <1>3, <1>4, <1>5, <1>6, <1>7 DEF Next, Begins

\* Full-history completeness, for any number of accounts, submissions and threads
\* and any page size: a pass whose runs were not caught by an account change ends
\* with everything stored that LeetCode held when it began, resumes included.
THEOREM FullHistoryComplete == Spec => []AuthComplete
<1>1. Init => CheckpointsHonest /\ RunsOnOwnConnection /\ PassInv
  <2>1. ASSUME Init PROVE CheckpointsHonest
    <3>1. \A c \in {NoConn} \cup {Fresh(u) : u \in Users} :
            CheckpointHonest(c, upstream, stored)
      BY DEF CheckpointHonest, Fresh
    <3> QED BY <2>1, <3>1 DEF Init, StoreInit, CheckpointsHonest
  <2>2. Init => RunsOnOwnConnection /\ PassInv
    BY DEF Init, StoreInit, RunsOnOwnConnection, PassInv, Fetching, Finishing, AuthPoints
  <2> QED BY <2>1, <2>2
<1>2. PassInv => AuthComplete
  BY DEF PassInv, AuthComplete, Finishing
<1> QED BY <1>1, <1>2, InitTyped, TypeInvStep, RunsOnOwnStep, CheckpointsHonestStep,
           PassInvStep, PTL DEF Spec
=============================================================================
