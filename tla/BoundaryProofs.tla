--------------------------- MODULE BoundaryProofs ---------------------------
(*******************************************************************************)
(* Proofs about the settings file, the database handles, the LeetCode          *)
(* client and the importer, and what the five components at the boundary       *)
(* promise side by side.                                                       *)
(*******************************************************************************)
EXTENDS Boundary, VaultProofs, FiniteSetTheorems, WellFoundedInduction

-----------------------------------------------------------------------------
(* The settings file implements one record                                     *)

USE SettingsAssumption DEF Values, UserSettings

\* settings_repository.py, settings_service.py: a request holds, and the file keeps,
\* only records of the fields, whatever the order of opening, writing and renaming.
THEOREM SettingsTypeCorrect == SettingsSpec => []SettingsTypeOK
<1> USE DEF SettingsTypeOK, Text
<1>0. Defaults \in UserSettings /\ Free \in Writer
  BY DEF Defaults, Free, Writer
<1>1. SettingsInit => SettingsTypeOK
  BY <1>0 DEF SettingsInit
<1>2. SettingsTypeOK /\ [SettingsNext]_settingsVars => SettingsTypeOK'
  <2> SUFFICES ASSUME SettingsTypeOK, [SettingsNext]_settingsVars
               PROVE  SettingsTypeOK'
    OBVIOUS
  <2>1. Loaded \in UserSettings
    BY <1>0 DEF Loaded
  <2>2. ASSUME NEW w \in Writers, Update(w) PROVE SettingsTypeOK'
    <3>1. PICK S \in SUBSET Fields :
            writer' = [writer EXCEPT ![w] =
             [at |-> "open", fields |-> S, holds |-> "none",
              copy |-> [f \in Fields |-> IF f \in S THEN changes' ELSE Loaded[f]]]]
      BY <2>2 DEF Update
    <3>2. changes' \in Values BY <2>2 DEF Update
    <3>3. [f \in Fields |-> IF f \in S THEN changes' ELSE Loaded[f]] \in UserSettings
      BY <2>1, <3>2
    <3>4. writer' \in [Writers -> Writer] BY <3>1, <3>3 DEF Writer
    <3> QED BY <2>2, <3>2, <3>4 DEF Update, Start
  <2>3. ASSUME NEW w \in Writers, ResetSettings(w) PROVE SettingsTypeOK'
    BY <1>0, <2>3 DEF ResetSettings, Start, Writer
  <2>4. ASSUME NEW w \in Writers, OpenTmp(w) PROVE SettingsTypeOK'
    BY ZenonT(30), <2>4 DEF OpenTmp, Writer
  <2>5. ASSUME NEW w \in Writers, Dump(w) PROVE SettingsTypeOK'
    <3>1. writer[w] \in Writer /\ writer[w].copy \in UserSettings BY DEF Writer
    <3>2. writer' \in [Writers -> Writer] BY <2>5, <3>1 DEF Dump, Writer
    <3>3. \A text : Written(w, text) \subseteq Text BY <3>1 DEF Written
    <3>4. settingsFile' \in Text /\ tmpFile' \in Text BY <2>5, <3>3 DEF Dump
    <3> QED BY <2>5, <3>2, <3>4 DEF Dump
  <2>6. ASSUME NEW w \in Writers, Replace(w) PROVE SettingsTypeOK'
    <3>1. \A h \in {"none", "tmp", "file", "gone"} :
              Renamed(h) \in {"none", "tmp", "file", "gone"}
      BY DEF Renamed
    <3>2. \A v \in Writers :
              [writer[v] EXCEPT !.holds = Renamed(@)] \in Writer
      BY <3>1 DEF Writer
    <3>3. writer' \in [Writers -> Writer] BY <1>0, <2>6, <3>2 DEF Replace
    <3> QED BY <2>6, <3>3 DEF Replace
  <2>7. ASSUME NEW w \in Writers, Abort(w) PROVE SettingsTypeOK'
    BY <1>0, <2>7 DEF Abort
  <2>8. CASE UNCHANGED settingsVars BY <2>8 DEF settingsVars
  <2> QED BY <2>2, <2>3, <2>4, <2>5, <2>6, <2>7, <2>8 DEF SettingsNext
<1> QED BY <1>1, <1>2, PTL DEF SettingsSpec

-----------------------------------------------------------------------------
(* One call at a time                                                          *)

\* A call's text is what was loaded, with its fields changed; under the temporary
\* name is a file of its own, and in the end its text.
CallAlone(w) ==
    /\ \A v \in Writers : v # w => writer[v].at = "idle"
    /\ writer[w].copy =
           [f \in Fields |-> IF f \in writer[w].fields THEN writer[w].copy[f]
                             ELSE Loaded[f]]
    /\ writer[w].at = "dump" => writer[w].holds = "tmp" /\ tmpFile = Garbled
    /\ writer[w].at = "replace" => tmpFile = writer[w].copy

CallsAlone ==
    serialWrites => \A w \in Writers : writer[w].at # "idle" => CallAlone(w)

SettingsInv == SettingsTypeOK /\ CallsAlone

\* The call under way is the only one there is.
LEMMA AskedOf ==
  ASSUME NEW w \in Writers, writer[w].at # "idle",
         \A v \in Writers : v # w => writer[v].at = "idle"
  PROVE  Asked = [f \in writer[w].fields |-> writer[w].copy[f]]
<1>1. (CHOOSE v \in Writers : ~Reach(v, "idle")) = w
  BY DEF Reach
<1> QED BY <1>1 DEF Asked, Reach

LEMMA NothingAsked ==
  ASSUME \A v \in Writers : writer[v].at = "idle"
  PROVE  Asked = Absent
  BY DEF Asked, Reach

LEMMA AloneKept ==
  ASSUME SettingsInv, SettingsTypeOK', [SettingsNext]_settingsVars
  PROVE  CallsAlone'
<1> SUFFICES ASSUME serialWrites' = TRUE, NEW w \in Writers, writer'[w].at # "idle"
             PROVE  CallAlone(w)'
  BY DEF CallsAlone
<1> USE DEF SettingsInv, SettingsTypeOK, CallsAlone
<1>0. Free.at = "idle"
  BY DEF Free
<1>1. ASSUME NEW u \in Writers, Start(u), UNCHANGED <<settingsFile, tmpFile>>,
             \E c \in Writer : /\ writer' = [writer EXCEPT ![u] = c]
                               /\ c.at = "open"
                               /\ c.copy = [f \in Fields |->
                                     IF f \in c.fields THEN c.copy[f] ELSE Loaded[f]]
      PROVE  CallAlone(w)'
  <2>1. PICK c \in Writer : /\ writer' = [writer EXCEPT ![u] = c]
                            /\ c.at = "open"
                            /\ c.copy = [f \in Fields |->
                                  IF f \in c.fields THEN c.copy[f] ELSE Loaded[f]]
    BY <1>1
  <2>2. \A v \in Writers : writer[v].at = "idle"
    BY <1>1 DEF Start, Reach
  <2>3. w = u /\ writer'[w] = c
    BY <2>1, <2>2
  <2>4. \A v \in Writers : v # w => writer'[v].at = "idle"
    BY <2>1, <2>2, <2>3
  <2>5. Loaded' = Loaded
    BY <1>1 DEF Loaded
  <2> QED BY <2>1, <2>3, <2>4, <2>5 DEF CallAlone
<1>2. ASSUME NEW u \in Writers, Update(u) PROVE CallAlone(w)'
  <2>1. PICK S \in SUBSET Fields :
          writer' = [writer EXCEPT ![u] =
           [at |-> "open", fields |-> S, holds |-> "none",
            copy |-> [f \in Fields |-> IF f \in S THEN changes' ELSE Loaded[f]]]]
    BY <1>2 DEF Update
  <2> DEFINE c == [at |-> "open", fields |-> S, holds |-> "none",
                   copy |-> [f \in Fields |-> IF f \in S THEN changes' ELSE Loaded[f]]]
  <2>2. c \in Writer
    <3>1. Loaded \in UserSettings BY DEF Loaded, Defaults
    <3>2. changes' \in Values BY DEF SettingsTypeOK
    <3> QED BY <3>1, <3>2 DEF Writer
  <2>3. c.copy = [f \in Fields |-> IF f \in c.fields THEN c.copy[f] ELSE Loaded[f]]
    OBVIOUS
  <2> QED BY <1>1, <1>2, <2>1, <2>2, <2>3 DEF Update
<1>3. ASSUME NEW u \in Writers, ResetSettings(u) PROVE CallAlone(w)'
  <2> DEFINE c == [at |-> "open", fields |-> Fields, copy |-> Defaults,
                   holds |-> "none"]
  <2>1. c \in Writer BY DEF Writer, Defaults
  <2>2. c.copy = [f \in Fields |-> IF f \in c.fields THEN c.copy[f] ELSE Loaded[f]]
    BY DEF Defaults
  <2> QED BY <1>1, <1>3, <2>1, <2>2 DEF ResetSettings
<1>4. ASSUME NEW u \in Writers, OpenTmp(u) PROVE CallAlone(w)'
  <2>1. writer[w].at # "idle" /\ CallAlone(w) /\ writer[u].at = "open"
    BY <1>4 DEF OpenTmp, Reach
  <2>2. u = w BY <2>1 DEF CallAlone
  <2>3. Loaded' = Loaded BY <1>4 DEF OpenTmp, Loaded
  <2>4. /\ writer'[w].at = "dump" /\ writer'[w].holds = "tmp"
        /\ writer'[w].fields = writer[w].fields /\ writer'[w].copy = writer[w].copy
        /\ \A v \in Writers : v # w => writer'[v] = writer[v]
    BY <1>4, <2>2 DEF OpenTmp, Writer
  <2> QED BY <1>4, <2>1, <2>3, <2>4 DEF CallAlone, OpenTmp
<1>5. ASSUME NEW u \in Writers, Dump(u) PROVE CallAlone(w)'
  <2>1. writer[w].at # "idle" /\ CallAlone(w) /\ writer[u].at = "dump"
    BY <1>5 DEF Dump, Reach, Writer
  <2>2. u = w BY <2>1 DEF CallAlone
  <2>3. writer[w].holds = "tmp" /\ tmpFile = Garbled
    BY <2>1, <2>2 DEF CallAlone
  <2>4. tmpFile' = writer[w].copy /\ settingsFile' = settingsFile
    BY <1>5, <2>2, <2>3 DEF Dump, Written
  <2>5. Loaded' = Loaded BY <2>4 DEF Loaded
  <2>6. /\ writer'[w].at = "replace"
        /\ writer'[w].fields = writer[w].fields /\ writer'[w].copy = writer[w].copy
        /\ \A v \in Writers : v # w => writer'[v] = writer[v]
    BY <1>5, <2>2 DEF Dump, Writer
  <2> QED BY <2>1, <2>4, <2>5, <2>6 DEF CallAlone
<1>6. ASSUME NEW u \in Writers, Replace(u) PROVE CallAlone(w)'
  <2>1. u # w /\ writer'[w].at = writer[w].at
    BY <1>0, <1>6 DEF Replace, Writer
  <2>2. writer[u].at = "replace" BY <1>6 DEF Replace, Reach
  <2>3. writer[w].at # "idle" /\ CallAlone(w) BY <1>6, <2>1 DEF Replace
  <2> QED BY <2>1, <2>2, <2>3 DEF CallAlone
<1>7. ASSUME NEW u \in Writers, Abort(u) PROVE CallAlone(w)'
  <2>1. u # w /\ writer'[w].at = writer[w].at BY <1>0, <1>7 DEF Abort
  <2>2. writer[u].at # "idle" BY <1>7 DEF Abort, Reach
  <2>3. writer[w].at # "idle" /\ CallAlone(w) BY <1>7, <2>1 DEF Abort
  <2> QED BY <2>1, <2>2, <2>3 DEF CallAlone
<1>8. CASE UNCHANGED settingsVars
  BY <1>8 DEF settingsVars, CallAlone, Loaded
<1> QED BY <1>2, <1>3, <1>4, <1>5, <1>6, <1>7, <1>8 DEF SettingsNext

LEMMA SettingsInvariant == SettingsSpec => []SettingsInv
<1>1. SettingsInit => CallsAlone
  BY DEF SettingsInit, CallsAlone, Free
<1>2. SettingsInv /\ SettingsTypeOK' /\ [SettingsNext]_settingsVars => CallsAlone'
  BY AloneKept
<1> QED BY <1>1, <1>2, SettingsTypeCorrect, PTL DEF SettingsSpec, SettingsInv

-----------------------------------------------------------------------------
(* The register                                                                *)

LEMMA LoadedTyped ==
  ASSUME SettingsTypeOK
  PROVE  Loaded \in UserSettings
  BY DEF Loaded, Defaults

\* A new call that meets none asks; one that meets another ends what is promised.
LEMMA BeginsAsk ==
  ASSUME SettingsInv, SettingsInv', NEW w \in Writers, Start(w),
         UNCHANGED settingsFile, writer'[w].at = "open",
         \A v \in Writers : v # w => writer'[v] = writer[v]
  PROVE  [OneRecord!RegisterNext]_(OneRecord!register)
<1> USE DEF SettingsInv, SettingsTypeOK
<1>1. Loaded' = Loaded BY DEF Loaded
<1>2. CASE serialWrites'
  <2>1. serialWrites /\ \A v \in Writers : writer[v].at = "idle"
    BY <1>2 DEF Start, Reach
  <2>2. Asked = Absent BY <2>1, NothingAsked
  <2>3. Asked' = [f \in writer'[w].fields |-> writer'[w].copy[f]]
    <3>1. \A v \in Writers : v # w => writer'[v].at = "idle" BY <2>1
    <3>2. (CHOOSE v \in Writers : ~(writer'[v].at = "idle")) = w BY <3>1
    <3> QED BY <3>2 DEF Asked, Reach
  <2>4. writer'[w].fields \in SUBSET Fields /\ writer'[w].copy \in [Fields -> Values]
    BY DEF Writer
  <2>5. Asked' \in [writer'[w].fields -> Values] BY <2>3, <2>4
  <2>6. OneRecord!Ask
    BY <1>1, <1>2, <2>1, <2>2, <2>4, <2>5 DEF OneRecord!Ask
  <2> QED BY <2>1, <2>6 DEF OneRecord!RegisterNext
<1>3. CASE ~serialWrites'
  BY <1>3 DEF OneRecord!RegisterNext, OneRecord!Overlap, Defaults
<1> QED BY <1>2, <1>3

\* core/settings.py: as long as calls do not overlap, the file and its temporary
\* name implement one record: whatever fails and wherever a process ends, load()
\* shows all of a call's fields, and no others, changed at once, or nothing.
THEOREM SettingsRefine == SettingsSpec => SettingsImplement
<1>1. SettingsInit => OneRecord!RegisterInit
  BY NothingAsked DEF SettingsInit, OneRecord!RegisterInit, Free, Loaded, Defaults
<1>2. SettingsInv /\ SettingsInv' /\ [SettingsNext]_settingsVars
        => [OneRecord!RegisterNext]_(OneRecord!register)
  <2> SUFFICES ASSUME SettingsInv, SettingsInv', [SettingsNext]_settingsVars
               PROVE  [OneRecord!RegisterNext]_(OneRecord!register)
    OBVIOUS
  <2> USE DEF SettingsInv, SettingsTypeOK
  <2>1. ASSUME NEW w \in Writers, Update(w)
        PROVE  [OneRecord!RegisterNext]_(OneRecord!register)
    <3>1. writer'[w].at = "open" /\ \A v \in Writers : v # w => writer'[v] = writer[v]
      BY <2>1 DEF Update
    <3> QED BY <2>1, <3>1, BeginsAsk DEF Update
  <2>2. ASSUME NEW w \in Writers, ResetSettings(w)
        PROVE  [OneRecord!RegisterNext]_(OneRecord!register)
    <3>1. writer'[w].at = "open" /\ \A v \in Writers : v # w => writer'[v] = writer[v]
      BY <2>2 DEF ResetSettings
    <3> QED BY <2>2, <3>1, BeginsAsk DEF ResetSettings
  <2>3. CASE UNCHANGED <<serialWrites, settingsVars>>
    BY <2>3 DEF settingsVars, OneRecord!register, Loaded, Asked, Reach
  <2>4. ASSUME ~serialWrites, UNCHANGED serialWrites
        PROVE  [OneRecord!RegisterNext]_(OneRecord!register)
    BY <2>4 DEF OneRecord!register
  <2>5. ASSUME serialWrites, NEW w \in Writers, writer[w].at # "idle"
        PROVE  /\ CallAlone(w)
               /\ Asked = [f \in writer[w].fields |-> writer[w].copy[f]]
               /\ Asked # Absent
    <3>1. CallAlone(w) BY <2>5 DEF CallsAlone
    <3>2. Asked = [f \in writer[w].fields |-> writer[w].copy[f]]
      BY <2>5, <3>1, AskedOf DEF CallAlone
    <3>3. writer[w].fields \in SUBSET Fields /\ writer[w].copy \in [Fields -> Values]
      BY DEF Writer
    <3> QED BY <3>1, <3>2, <3>3
  <2>6. ASSUME serialWrites, NEW w \in Writers, writer[w].at # "idle",
               UNCHANGED <<serialWrites, settingsFile>>,
               writer'[w].at # "idle",
               writer'[w].fields = writer[w].fields, writer'[w].copy = writer[w].copy,
               \A v \in Writers : v # w => writer'[v] = writer[v]
        PROVE  UNCHANGED OneRecord!register
    <3>1. Asked = [f \in writer[w].fields |-> writer[w].copy[f]] BY <2>5, <2>6
    <3>2. \A v \in Writers : v # w => writer'[v].at = "idle"
      BY <2>5, <2>6 DEF CallAlone
    <3>3. (CHOOSE v \in Writers : ~(writer'[v].at = "idle")) = w BY <2>6, <3>2
    <3>4. Asked' = [f \in writer'[w].fields |-> writer'[w].copy[f]]
      BY <2>6, <3>3 DEF Asked, Reach
    <3>5. Loaded' = Loaded BY <2>6 DEF Loaded
    <3> QED BY <2>6, <3>1, <3>4, <3>5 DEF OneRecord!register
  <2>7. ASSUME NEW w \in Writers, OpenTmp(w)
        PROVE  [OneRecord!RegisterNext]_(OneRecord!register)
    <3>1. /\ writer[w].at # "idle" /\ writer'[w].at # "idle"
          /\ writer'[w].fields = writer[w].fields
          /\ writer'[w].copy = writer[w].copy
          /\ \A v \in Writers : v # w => writer'[v] = writer[v]
      BY <2>7 DEF OpenTmp, Reach, Writer
    <3> QED BY <2>4, <2>6, <2>7, <3>1 DEF OpenTmp
  <2>8. ASSUME NEW w \in Writers, Dump(w)
        PROVE  [OneRecord!RegisterNext]_(OneRecord!register)
    <3>1. /\ writer[w].at = "dump" /\ writer'[w].at # "idle"
          /\ writer'[w].fields = writer[w].fields
          /\ writer'[w].copy = writer[w].copy
          /\ \A v \in Writers : v # w => writer'[v] = writer[v]
      BY <2>8 DEF Dump, Reach, Writer
    <3>2. serialWrites => settingsFile' = settingsFile
      BY <2>5, <2>8, <3>1 DEF CallAlone, Dump
    <3> QED BY <2>4, <2>6, <2>8, <3>1, <3>2 DEF Dump
  <2>9. ASSUME serialWrites, NEW w \in Writers, writer[w].at # "idle",
               writer'[w].at = "idle", \A v \in Writers : v # w =>
                   (writer[v].at = "idle" => writer'[v].at = "idle")
        PROVE  Asked' = Absent
    <3>1. \A v \in Writers : writer'[v].at = "idle" BY <2>5, <2>9 DEF CallAlone
    <3> QED BY <3>1 DEF Asked, Reach
  <2>10. ASSUME NEW w \in Writers, Replace(w)
         PROVE  [OneRecord!RegisterNext]_(OneRecord!register)
    <3>1. CASE ~serialWrites BY <2>4, <2>10, <3>1 DEF Replace
    <3>2. CASE serialWrites
      <4>1. writer[w].at = "replace" /\ serialWrites' = TRUE
        BY <2>10, <3>2 DEF Replace, Reach
      <4>2. CallAlone(w) /\ Asked = [f \in writer[w].fields |-> writer[w].copy[f]]
            /\ Asked # Absent
        BY <2>5, <3>2, <4>1
      <4>3. settingsFile' = writer[w].copy /\ writer[w].copy \in UserSettings
        BY <2>10, <4>1, <4>2 DEF Replace, CallAlone, Writer
      <4>4. Loaded' = writer[w].copy BY <4>3 DEF Loaded
      <4>5. Asked' = Absent
        <5>1. writer'[w].at = "idle" BY <2>10 DEF Replace, Free
        <5>2. \A v \in Writers : v # w => writer'[v].at = writer[v].at
          BY <2>10 DEF Replace, Writer
        <5> QED BY <2>9, <3>2, <4>1, <5>1, <5>2
      <4>6. DOMAIN Asked = writer[w].fields
            /\ \A f \in writer[w].fields : Asked[f] = writer[w].copy[f]
        BY <4>2
      <4>7. Loaded' = [f \in Fields |-> IF f \in DOMAIN Asked THEN Asked[f]
                                        ELSE Loaded[f]]
        BY <4>2, <4>4, <4>6 DEF CallAlone
      <4>8. OneRecord!Take
        BY <3>2, <4>1, <4>2, <4>5, <4>7 DEF OneRecord!Take
      <4> QED BY <3>2, <4>8 DEF OneRecord!RegisterNext
    <3> QED BY <3>1, <3>2
  <2>11. ASSUME NEW w \in Writers, Abort(w)
         PROVE  [OneRecord!RegisterNext]_(OneRecord!register)
    <3>1. CASE ~serialWrites BY <2>4, <2>11, <3>1 DEF Abort
    <3>2. CASE serialWrites
      <4>1. writer[w].at # "idle" /\ serialWrites' = TRUE
        BY <2>11, <3>2 DEF Abort, Reach
      <4>2. writer'[w].at = "idle" /\ \A v \in Writers : v # w => writer'[v] = writer[v]
        BY <2>11 DEF Abort, Free
      <4>3. Asked # Absent /\ Asked' = Absent BY <2>5, <2>9, <3>2, <4>1, <4>2
      <4>4. Loaded' = Loaded BY <2>11 DEF Abort, Loaded
      <4>5. OneRecord!Fail BY <3>2, <4>1, <4>3, <4>4 DEF OneRecord!Fail
      <4> QED BY <3>2, <4>5 DEF OneRecord!RegisterNext
    <3> QED BY <3>1, <3>2
  <2>12. CASE UNCHANGED settingsVars BY <2>3, <2>12 DEF settingsVars
  <2> QED BY <2>1, <2>2, <2>7, <2>8, <2>10, <2>11, <2>12 DEF SettingsNext
<1> QED BY <1>1, <1>2, SettingsInvariant, PTL
     DEF SettingsSpec, SettingsImplement, OneRecord!RegisterSpec

HIDE SettingsAssumption DEF Values, UserSettings

-----------------------------------------------------------------------------
(* The database handles: what the registry, the cached service and the clears  *)
(* know of each other                                                          *)


InBuild(p) == life[p] \in {"probe", "adopt", "pop", "connect", "register"}

\* Only shared connections are registered, and a private object has its own.
ConnectionsApart ==
    /\ registry \in Pooled \cup {NoHandle}
    /\ \A p \in Pooled : handle[p] \in Pooled \cup {NoHandle}
    /\ \A w \in Private : /\ life[w] \in {"new", "connect", "live", "closed"}
                          /\ life[w] = "live" => handle[w] = w

\* One object is built at a time, when no service is cached; a connection is
\* opened only when none is registered.
OneBuilt ==
    /\ \A p, q \in Pooled : InBuild(p) /\ InBuild(q) => p = q
    /\ \A p \in Pooled : InBuild(p) => cached = NoHandle
    /\ \A p \in Pooled : life[p] \in {"connect", "register"} => registry = NoHandle
    /\ \A p \in Pooled : life[p] = "register" => handle[p] = p

\* The registry has the cached service's connection or none, and none once the
\* service is closed.
CachedRegistered ==
    cached # NoHandle =>
        /\ life[cached] \in {"live", "closing", "closed"}
        /\ handle[cached] # NoHandle
        /\ registry \in {NoHandle, handle[cached]}
        /\ life[cached] = "closed" => registry = NoHandle

\* A clear holds the service it retires, which only a clear closes.
ClearsHold ==
    /\ \A s \in Sessions :
         /\ clearing[s].at = "idle" => clearing[s].of = NoHandle
         /\ clearing[s].at # "idle" =>
              /\ clearing[s].of \in Pooled
              /\ life[clearing[s].of] \in {"live", "closing", "closed"}
         /\ clearing[s].at = "dropCache" => life[clearing[s].of] # "live"
         /\ clearing[s].at = "delete" => life[clearing[s].of] = "closed"
    /\ \A p \in Pooled :
         life[p] = "closing" \/ (cached = p /\ life[p] = "closed") =>
             \E s \in Sessions : clearing[s].at = "dropCache" /\ clearing[s].of = p

\* Unless a session reopened the database, clears retire one service, and what is
\* dropped from the cache is not registered.
ClearsAlone ==
    AnyClearing /\ ~reopened =>
        /\ ~Building
        /\ cached = NoHandle => registry = NoHandle
        /\ \A s \in Sessions : clearing[s].at # "idle" /\ cached # NoHandle =>
               clearing[s].of = cached
        /\ \A s \in Sessions : clearing[s].at = "delete" => cached = NoHandle

\* In between, what is registered is open, to the file that is there.
RegisteredServes ==
    ~AnyClearing /\ ~reopened =>
        /\ registry # NoHandle => registry \in opened /\ fileOf[registry] = disk
        /\ cached # NoHandle => registry # NoHandle
        /\ \A p \in Pooled : life[p] = "register" => p \in opened /\ fileOf[p] = disk

HandlesInv ==
    /\ HandlesTypeOK /\ ConnectionsApart /\ OneBuilt /\ CachedRegistered
    /\ ClearsHold /\ ClearsAlone /\ RegisteredServes

\* No step of a construction, a close or a clear breaks what they rely on.
LEMMA HandlesInvStep ==
  ASSUME HandlesInv, [HandlesNext]_handleVars
  PROVE  HandlesInv'
<1> USE HandlesAssumption DEF HandlesAssumption, Repositories, HandlesTypeOK,
        HandlesInv, ConnectionsApart, OneBuilt, CachedRegistered, ClearsHold,
        ClearsAlone, RegisteredServes, AnyClearing, InBuild
<1>1. ASSUME NEW r \in Pooled, GetService(r) PROVE HandlesInv'
  <2>1. \A p \in Pooled : ~InBuild(p)
    BY <1>1 DEF GetService, Building
  <2>2. /\ life' = [life EXCEPT ![r] = life'[r]] /\ life[r] = "new"
        /\ life'[r] \in {"probe", "connect"}
        /\ life'[r] = "connect" => registry = NoHandle
        /\ cached = NoHandle
        /\ UNCHANGED <<registry, opened, fileOf, handle, disk, cached, clearing>>
    BY <1>1 DEF GetService, Become
  <2>3. reopened' = (reopened \/ AnyClearing)
    BY <1>1 DEF GetService
  <2>4. reopened' \in BOOLEAN /\ (~reopened' => ~reopened /\ ~AnyClearing)
    BY <2>3
  <2>5. HandlesTypeOK'
    BY <2>2, <2>4
  <2>6. ConnectionsApart' /\ OneBuilt' /\ CachedRegistered' /\ ClearsHold'
    BY <2>1, <2>2
  <2>7. AnyClearing' <=> AnyClearing
    BY <2>2
  <2>8. ClearsAlone'
    BY <2>4, <2>7
  <2>9. RegisteredServes'
    BY <2>2, <2>4, <2>7
  <2> QED BY <2>5, <2>6, <2>8, <2>9
<1>2. ASSUME NEW r \in Repositories, BuildWorkerService(r) PROVE HandlesInv'
  BY <1>2 DEF BuildWorkerService, Become, Building, clearVars
<1>3. ASSUME NEW r \in Repositories, Probe(r) PROVE HandlesInv'
  BY <1>3 DEF Probe, Become, Building, clearVars
<1>4. ASSUME NEW r \in Repositories, PopDead(r) PROVE HandlesInv'
  BY <1>4 DEF PopDead, Become, Building, clearVars
<1>5. ASSUME NEW r \in Repositories, Adopt(r) PROVE HandlesInv'
  BY <1>5 DEF Adopt, Become, Building
<1>6. ASSUME NEW r \in Repositories, AdoptFails(r) PROVE HandlesInv'
  BY <1>6 DEF AdoptFails, Become, Building, clearVars
<1>7. ASSUME NEW r \in Repositories, Connect(r) PROVE HandlesInv'
  BY <1>7 DEF Connect, Become, Building, clearVars
<1>8. ASSUME NEW r \in Repositories, ConnectFails(r) PROVE HandlesInv'
  BY <1>8 DEF ConnectFails, Become, Building, clearVars
<1>9. ASSUME NEW r \in Repositories, Register(r) PROVE HandlesInv'
  BY <1>9 DEF Register, Become, Building
<1>10. ASSUME NEW r \in Repositories, ClosePop(r) PROVE HandlesInv'
  BY <1>10 DEF ClosePop, Become, Building, clearVars
<1>11. ASSUME NEW r \in Repositories, CloseWorkerService(r) PROVE HandlesInv'
  BY <1>11 DEF CloseWorkerService, Become, LookedUp, Building, clearVars
<1>12. ASSUME NEW r \in Repositories, Collect(r) PROVE HandlesInv'
  BY <1>12 DEF Collect, Become, Building, clearVars
<1>13. ASSUME NEW s \in Sessions, ClearBegin(s) PROVE HandlesInv'
  BY <1>13 DEF ClearBegin, Building
<1>14. ASSUME NEW s \in Sessions, ClearRetire(s) PROVE HandlesInv'
  BY <1>14 DEF ClearRetire, Become, Clear, LookedUp, Building
<1>15. ASSUME NEW s \in Sessions, ClearDropCache(s) PROVE HandlesInv'
  BY <1>15 DEF ClearDropCache, Clear, Building
<1>16. ASSUME NEW s \in Sessions, ClearDelete(s) PROVE HandlesInv'
  BY <1>16 DEF ClearDelete, NotClearing, Building
<1>17. CASE UNCHANGED handleVars BY <1>17 DEF handleVars, Building
<1> QED BY <1>1, <1>2, <1>3, <1>4, <1>5, <1>6, <1>7, <1>8, <1>9, <1>10, <1>11,
     <1>12, <1>13, <1>14, <1>15, <1>16, <1>17 DEF HandlesNext

LEMMA HandlesInvAlways == HandlesSpec => []HandlesInv
<1>1. HandlesInit => HandlesInv
  <2> SUFFICES ASSUME HandlesInit PROVE HandlesInv
    OBVIOUS
  <2> USE HandlesAssumption
      DEF HandlesAssumption, Repositories, HandlesInit, NotClearing
  <2>1. HandlesTypeOK
    <3>1. NotClearing \in [at : {"idle", "retire", "dropCache", "delete"},
                           of : Pooled \cup {NoHandle}]
      OBVIOUS
    <3>2. clearing \in [Sessions ->
              [at : {"idle", "retire", "dropCache", "delete"},
               of : Pooled \cup {NoHandle}]]
      BY <3>1
    <3>3. disk \in 0..MaxDeletes /\ fileOf \in [Repositories -> 0..MaxDeletes]
      OBVIOUS
    <3> QED BY <3>2, <3>3 DEF HandlesTypeOK
  <2>2. \A p \in Repositories : life[p] = "new"
    OBVIOUS
  <2>3. ConnectionsApart /\ OneBuilt /\ CachedRegistered
    BY <2>2 DEF ConnectionsApart, OneBuilt, CachedRegistered, InBuild
  <2>4. ~AnyClearing
    BY DEF AnyClearing
  <2>5. ClearsHold /\ ClearsAlone /\ RegisteredServes
    BY <2>2, <2>4 DEF ClearsHold, ClearsAlone, RegisteredServes
  <2> QED BY <2>1, <2>3, <2>5 DEF HandlesInv
<1> QED BY <1>1, HandlesInvStep, PTL DEF HandlesSpec

\* duckdb_repository.py, app/components.py: registry, handles, services and clears
\* stay within the values the code can give them.
THEOREM HandlesTypeCorrect == HandlesSpec => []HandlesTypeOK
BY HandlesInvAlways, PTL DEF HandlesInv

\* duckdb_repository.py:197-207, settings_view.py:627-632: however many sessions
\* clear the data and rebuild the service, once the clears are over the shared
\* service has an open connection to the file that is there, unless a session
\* rebuilt it in between.
THEOREM NoGhosts == HandlesSpec => []NoGhostUnlessReopened
<1>1. HandlesInv => NoGhostUnlessReopened
  BY DEF HandlesInv, NoGhostUnlessReopened, RegisteredServes, CachedRegistered, Serves
<1> QED BY <1>1, HandlesInvAlways, PTL

-----------------------------------------------------------------------------
(* The LeetCode client: every wait is a number, and no longer than the caps    *)

\* A set of numbers that is not empty has a least one.
LEMMA LeastNumber ==
  ASSUME NEW S \in SUBSET Nat, S # {}
  PROVE  \E m \in S : \A k \in S : m <= k
<1>1. IsWellFoundedOn(OpToRel(<, Nat), Nat)
  BY NatLessThanWellFounded
<1>2. PICK m \in S : \A k \in S : ~ (<<k, m>> \in OpToRel(<, Nat))
  BY <1>1, WFMin
<1>3. \A k \in S : ~ (k < m)
  BY <1>2 DEF OpToRel
<1> QED BY <1>3

\* The first waits, as far as n; each is twice the one before.
Doubling(g, n) ==
    /\ g \in [0..n -> Nat]
    /\ \A i \in 0..n : g[i] = IF i = 0 THEN 1 ELSE 2 * g[i - 1]

LEMMA DoublingExists == \A n \in Nat : \E g : Doubling(g, n)
<1> DEFINE S == {n \in Nat : ~ \E g : Doubling(g, n)}
<1> SUFFICES ASSUME S # {} PROVE FALSE
  OBVIOUS
<1>1. PICK m \in S : \A k \in S : m <= k
  BY LeastNumber
<1>2. CASE m = 0
  <2>1. Doubling([i \in 0..0 |-> 1], 0)
    BY DEF Doubling
  <2> QED BY <1>2, <2>1
<1>3. CASE m # 0
  <2>1. m - 1 \in Nat /\ m - 1 \notin S
    BY <1>1, <1>3
  <2>2. PICK g : Doubling(g, m - 1)
    BY <2>1
  <2> DEFINE h == [i \in 0..m |-> IF i = m THEN 2 * g[m - 1] ELSE g[i]]
  <2>3. h \in [0..m -> Nat]
    BY <1>3, <2>1, <2>2 DEF Doubling
  <2>4. ASSUME NEW i \in 0..m PROVE h[i] = IF i = 0 THEN 1 ELSE 2 * h[i - 1]
    <3>1. CASE i = m
      BY <1>3, <2>1, <2>2, <3>1 DEF Doubling
    <3>2. CASE i # m
      <4>1. i \in 0..(m - 1) /\ (i # 0 => i - 1 \in 0..(m - 1) /\ i - 1 \in 0..m /\ i - 1 # m)
        BY <3>2
      <4>2. g[i] = IF i = 0 THEN 1 ELSE 2 * g[i - 1]
        BY <2>2, <4>1 DEF Doubling
      <4> QED BY <3>2, <4>1, <4>2
    <3> QED BY <3>1, <3>2
  <2> HIDE DEF h
  <2>5. Doubling(h, m)
    BY <2>3, <2>4 DEF Doubling
  <2> QED BY <2>5
<1> QED BY <1>2, <1>3

LEMMA DoublingUnique ==
  ASSUME NEW m \in Nat, NEW n \in Nat, NEW g, NEW h,
         Doubling(g, m), Doubling(h, n), NEW i \in 0..m, i \in 0..n
  PROVE  g[i] = h[i]
<1> DEFINE S == {k \in 0..m : k \in 0..n /\ g[k] # h[k]}
<1> SUFFICES ASSUME S # {} PROVE FALSE
  OBVIOUS
<1>1. PICK k \in S : \A j \in S : k <= j
  <2>1. S \in SUBSET Nat
    OBVIOUS
  <2> HIDE DEF S
  <2> QED BY <2>1, LeastNumber
<1>2. CASE k = 0
  BY <1>2 DEF Doubling
<1>3. CASE k # 0
  <2>1. k - 1 \in 0..m /\ k - 1 \in 0..n /\ k - 1 \notin S
    BY <1>1, <1>3
  <2> QED BY <1>3, <2>1 DEF Doubling
<1> QED BY <1>2, <1>3

\* client.py: the backoff is 1, 2, 4, ... times its base.
LEMMA DoubledIsNat == Doubled \in [Nat -> Nat]
<1> DEFINE Equation(g) == g = [n \in Nat |-> IF n = 0 THEN 1 ELSE 2 * g[n - 1]]
           part_of(n) == CHOOSE g : Doubling(g, n)
           whole == [n \in Nat |-> part_of(n)[n]]
<1>1. \A n \in Nat : Doubling(part_of(n), n)
  BY DoublingExists
<1> HIDE DEF part_of
<1>2. \A n \in Nat : whole[n] = IF n = 0 THEN 1 ELSE 2 * whole[n - 1]
  <2> TAKE n \in Nat
  <2>1. CASE n = 0
    BY <1>1, <2>1 DEF Doubling
  <2>2. CASE n # 0
    <3>1. n - 1 \in Nat /\ n - 1 \in 0..n /\ n - 1 \in 0..(n - 1)
      BY <2>2
    <3>2. part_of(n)[n - 1] = part_of(n - 1)[n - 1]
      BY <1>1, <3>1, DoublingUnique
    <3>3. part_of(n)[n] = 2 * part_of(n)[n - 1]
      BY <1>1, <2>2 DEF Doubling
    <3> QED BY <2>2, <3>1, <3>2, <3>3
  <2> QED BY <2>1, <2>2
<1>3. \E g : Equation(g)
  <2> HIDE DEF whole
  <2>1. whole = [n \in Nat |-> whole[n]]
    BY DEF whole
  <2> QED BY <1>2, <2>1
<1>4. Doubled = CHOOSE g : Equation(g)
  BY DEF Doubled
<1>5. Equation(Doubled)
  BY <1>3, <1>4
<1> DEFINE S == {n \in Nat : Doubled[n] \notin Nat}
<1>6. S = {}
  <2> SUFFICES ASSUME S # {} PROVE FALSE
    OBVIOUS
  <2>1. PICK m \in S : \A k \in S : m <= k
    <3>1. S \in SUBSET Nat
      OBVIOUS
    <3> HIDE DEF S
    <3> QED BY <3>1, LeastNumber
  <2>2. Doubled[m] = IF m = 0 THEN 1 ELSE 2 * Doubled[m - 1]
    BY <1>5
  <2>3. CASE m = 0 BY <2>2, <2>3
  <2>4. CASE m # 0
    <3>1. m - 1 \in Nat /\ m - 1 \notin S BY <2>1, <2>4
    <3> QED BY <2>1, <2>2, <2>4, <3>1
  <2> QED BY <2>3, <2>4
<1> QED BY <1>5, <1>6

LongestWait == Max({BackoffMax, RateLimitMaxWait})

LEMMA LongestWaitCaps ==
  /\ LongestWait \in Nat
  /\ BackoffMax <= LongestWait /\ RateLimitMaxWait <= LongestWait
<1>1. BackoffMax \in Nat /\ RateLimitMaxWait \in Nat
  BY ClientAssumption DEF ClientAssumption
<1> QED BY <1>1 DEF LongestWait, Max

\* client.py, _retry_delay: no wait is longer than the longer cap.
LEMMA DelaysCapped ==
  ASSUME NEW n \in Nat \ {0}, NEW delay \in RetryDelays(n)
  PROVE  delay \in 0..LongestWait
<1>1. /\ BackoffMax \in Nat /\ RateLimitMaxWait \in Nat
      /\ \A asked \in RetryAfter : asked \in Nat
  BY ClientAssumption DEF ClientAssumption
<1>2. Doubled[n - 1] \in Nat
  BY DoubledIsNat
<1>3. CASE \E asked \in RetryAfter : delay = NoMore(asked, RateLimitMaxWait)
  BY <1>1, <1>3, LongestWaitCaps DEF NoMore
<1>4. CASE \E jitter \in 0..1 : delay = NoMore(Doubled[n - 1] + jitter, BackoffMax)
  BY <1>1, <1>2, <1>4, LongestWaitCaps DEF NoMore
<1> QED BY <1>3, <1>4 DEF RetryDelays

LEMMA OneMoreWait ==
  ASSUME NEW n \in Nat, NEW m \in Nat
  PROVE  (n + 1) * m = n * m + m
OBVIOUS

\* A call in hand is no further than its retries allow.
WithinRetries ==
    /\ call.attempt <= maxRetries + 1
    /\ call \in [at : {"idle", "post"}, method : Methods, number : 0..MaxCalls,
                 attempt : Nat \ {0}, slept : Nat]

ClientInv == ClientTypeOK /\ WithinRetries /\ CallsBounded

LEMMA EndBounded ==
  ASSUME ClientInv, NEW answer \in Answers, NEW reason \in 0..MaxCalls,
         End(answer, reason),
         answer \notin {"data", "null", "unusable"} => reason = call.number,
         lastError' \in 0..MaxCalls
  PROVE  ClientInv'
<1> USE DEF ClientInv, ClientTypeOK, WithinRetries, CallsBounded
<1>1. /\ maxRetries' = maxRetries /\ maxRetries \in Nat /\ MaxAllowed \in Nat
      /\ maxRetries <= MaxAllowed
  BY ClientAssumption DEF End, ClientAssumption
<1>2. /\ result'.method = call.method /\ result'.answer = answer
      /\ result'.reason = reason
      /\ result'.got \in {"data", "nothing", "exception"}
      /\ result'.got = "data" => answer = "data"
      /\ result'.got = "exception" => answer # "data"
  BY DEF End
<1>3. call' = [at |-> "idle", method |-> "fetch_user_profile", number |-> call.number,
               attempt |-> 1, slept |-> 0]
  BY DEF End, Idle
<1>4. 0 <= (1 - 1) * LongestWait
  BY LongestWaitCaps
<1>5. WithinRetries' /\ ClientTypeOK'
  BY <1>1, <1>2, <1>3 DEF Methods, Empty
<1>6. CallsBounded'
  BY <1>1, <1>2, <1>3, <1>4 DEF LongestWait
<1> QED BY <1>5, <1>6

LEMMA ClientInvStep ==
  ASSUME ClientInv, [ClientNext]_clientVars
  PROVE  ClientInv'
<1> USE DEF ClientInv, ClientTypeOK, WithinRetries, CallsBounded
<1>0. /\ MaxAllowed \in Nat /\ MaxCalls \in Nat
      /\ maxRetries \in Nat /\ maxRetries <= MaxAllowed
  BY ClientAssumption DEF ClientAssumption
<1>1. ASSUME NEW method \in Methods, Call(method) PROVE ClientInv'
  <2>1. call' = [at |-> "post", method |-> method, number |-> call.number + 1,
                 attempt |-> 1, slept |-> 0]
    BY <1>1 DEF Call, Idle
  <2>2. 0 <= (1 - 1) * LongestWait
    BY LongestWaitCaps
  <2>3. /\ call'.at = "post" /\ call'.method = method /\ call'.number = call.number + 1
        /\ call'.attempt = 1 /\ call'.slept = 0
    BY <2>1
  <2>4. call' \in [at : {"idle", "post"}, method : Methods, number : 0..MaxCalls,
                   attempt : Nat \ {0}, slept : Nat]
    BY <1>0, <1>1, <2>1 DEF Call
  <2>5. UNCHANGED <<maxRetries, lastError, result>>
    BY <1>1 DEF Call
  <2> QED BY <1>0, <2>2, <2>3, <2>4, <2>5 DEF LongestWait
<1>2. CASE Answered
  <2>1. lastError' \in 0..MaxCalls /\ lastError \in 0..MaxCalls /\ 0 \in 0..MaxCalls
    BY <1>0, <1>2 DEF Answered
  <2>2. CASE End("data", 0)
    BY <2>1, <2>2, EndBounded DEF Answers
  <2>3. CASE End("null", lastError)
    BY <2>1, <2>3, EndBounded DEF Answers
  <2>4. CASE End("unusable", 0)
    BY <2>1, <2>4, EndBounded DEF Answers
  <2> QED BY <1>2, <2>2, <2>3, <2>4 DEF Answered
<1>3. CASE Refused
  BY <1>0, <1>3, EndBounded DEF Refused, Answers
<1>4. CASE Broken
  BY <1>0, <1>4, EndBounded DEF Broken, Answers
<1>5. CASE Retry
  <2>1. PICK delay \in RetryDelays(call.attempt) :
            call' = [call EXCEPT !.attempt = @ + 1, !.slept = @ + delay]
    BY <1>5 DEF Retry
  <2>2. delay \in Nat /\ delay <= LongestWait
    BY DelaysCapped, LongestWaitCaps
  <2>3. /\ call'.at = call.at /\ call'.method = call.method
        /\ call'.number = call.number /\ call'.attempt = call.attempt + 1
        /\ call'.slept = call.slept + delay
    BY <2>1
  <2>4. (call.attempt - 1 + 1) * LongestWait
          = (call.attempt - 1) * LongestWait + LongestWait
    BY LongestWaitCaps, OneMoreWait
  <2>5. call'.slept <= (call'.attempt - 1) * LongestWait
    <3>1. call.slept <= (call.attempt - 1) * LongestWait
      BY DEF LongestWait
    <3>2. call'.attempt - 1 = call.attempt - 1 + 1
      BY <2>3
    <3>3. (call.attempt - 1) * LongestWait \in Nat
      BY LongestWaitCaps
    <3> HIDE DEF ClientInv, ClientTypeOK, WithinRetries, CallsBounded
    <3>4. call.slept \in Nat
      BY DEF ClientInv, ClientTypeOK
    <3> QED BY <2>2, <2>3, <2>4, <3>1, <3>2, <3>3, <3>4, LongestWaitCaps
  <2>6. UNCHANGED <<maxRetries, lastError, result>> /\ call.attempt <= maxRetries
        /\ call.at = "post"
    BY <1>5 DEF Retry
  <2>7. call' \in [at : {"idle", "post"}, method : Methods, number : 0..MaxCalls,
                   attempt : Nat \ {0}, slept : Nat]
    <3>1. call.attempt + 1 \in Nat \ {0} /\ call.slept + delay \in Nat
      BY <2>2
    <3> QED BY <2>1, <3>1
  <2> QED BY <1>0, <2>3, <2>5, <2>6, <2>7 DEF LongestWait
<1>6. CASE GiveUp
  BY <1>0, <1>6, EndBounded DEF GiveUp, Answers
<1>7. CASE UNCHANGED clientVars
  BY <1>7 DEF clientVars
<1> QED BY <1>1, <1>2, <1>3, <1>4, <1>5, <1>6, <1>7 DEF ClientNext

LEMMA ClientInvAlways == ClientSpec => []ClientInv
<1>1. ClientInit => ClientInv
  <2> SUFFICES ASSUME ClientInit PROVE ClientInv
    OBVIOUS
  <2>1. maxRetries \in 0..MaxAllowed
    BY ClientAssumption DEF ClientAssumption, ClientInit, Clamped, AtLeast, NoMore
  <2>2. call = [at |-> "idle", method |-> "fetch_user_profile", number |-> 0,
                attempt |-> 1, slept |-> 0]
    BY DEF ClientInit, Idle
  <2>3. result = [method |-> "fetch_user_profile", answer |-> "data", got |-> "data",
                  reason |-> 0] /\ lastError = 0
    BY DEF ClientInit
  <2>4. 0 <= (1 - 1) * LongestWait /\ MaxAllowed \in Nat /\ MaxCalls \in Nat
    BY LongestWaitCaps, ClientAssumption DEF ClientAssumption
  <2>5. ClientTypeOK /\ WithinRetries
    BY <2>1, <2>2, <2>3, <2>4 DEF ClientTypeOK, WithinRetries, Methods, Empty, Answers
  <2>6. CallsBounded
    BY <2>1, <2>2, <2>3, <2>4 DEF CallsBounded, LongestWait
  <2> QED BY <2>5, <2>6 DEF ClientInv
<1> QED BY <1>1, ClientInvStep, PTL DEF ClientSpec

\* client.py: the client's calls, waits and answers stay within the values the code
\* can give them.
THEOREM ClientTypeCorrect == ClientSpec => []ClientTypeOK
BY ClientInvAlways, PTL DEF ClientInv

\* client.py:402-446, authenticated_client.py:170-180: whatever number of retries
\* and whatever caps a client is built with, and whatever LeetCode asks for, a call
\* posts and sleeps no more than they allow, no failure passes for data, and a page
\* that failed names its own failure.
THEOREM CallsAreBounded == ClientSpec => []CallsBounded
BY ClientInvAlways, PTL DEF ClientInv

-----------------------------------------------------------------------------
(* The importer: what a thread has read, what it is about to add, and the rows *)
(* that syncs and other imports have left meanwhile                            *)

\* Every record of every file comes with its code.
CodeGiven == \A f \in Files : \A r \in RecordsOf(f) : r.code = 1

Import == [at : {"idle", "read", "check"}, groups : Seq(Seq(Record)),
           checked : Nat, prob : Seq(KeyedRow), fresh : Seq(KeyedRow),
           known : BOOLEAN, file : Files \cup {<<>>}]

\* What is left of a file is its end, and so much of the first group is compared.
FileEnd(i) ==
    i.at # "idle" =>
        /\ i.file \in Files
        /\ Len(i.groups) <= Len(i.file)
        /\ \A j \in 1..Len(i.groups) :
               i.groups[j] = i.file[Len(i.file) - Len(i.groups) + j]
        /\ i.at = "check" => i.groups # <<>> /\ i.checked <= Len(i.groups[1])

ImportTyped ==
    /\ ImporterTypeOK
    /\ importing \in [Importers -> Import]
    /\ \A t \in Importers : FileEnd(importing[t])

Busy(t) == importing[t].at # "idle"
OneImport == \A t, u \in Importers : Busy(t) /\ Busy(u) => t = u

\* Imported rows have their code, so that no sync changes them.
ImportedCoded == \A k \in Present : rows[k].imported => rows[k].code = 1

NothingTwice ==
    \A j, k \in Present :
        rows[j].imported /\ rows[k].imported /\ Hash(rows[j]) = Hash(rows[k]) => j = k

\* The rows read of a problem: which were imported has not changed, nor have those.
ReadKept(t) ==
    \A i \in DOMAIN importing[t].prob :
        LET old == importing[t].prob[i] IN
        /\ rows[old.key] # NoRow
        /\ rows[old.key].imported = old.row.imported
        /\ old.row.imported => rows[old.key] = old.row

\* The new rows: under a hash no imported row has, each under its own.
FreshNew(t) ==
    /\ \A i \in DOMAIN importing[t].fresh :
           LET n == importing[t].fresh[i] IN
           /\ n.row.imported /\ n.row.code = 1
           /\ \A k \in Present : rows[k].imported => Hash(rows[k]) # Hash(n.row)
    /\ \A i, j \in DOMAIN importing[t].fresh :
           Hash(importing[t].fresh[i].row) = Hash(importing[t].fresh[j].row) => i = j

InOrder(t) == importing[t].at = "check" => ReadKept(t) /\ FreshNew(t)

\* What holds as long as imports have not overlapped.
ImportInv ==
    /\ ImportTyped
    /\ "import" \notin beside =>
           OneImport /\ ImportedCoded /\ NothingTwice /\ \A t \in Importers : InOrder(t)

\* A row under LeetCode's id is of the submission that has it.
NamedRow(n) == n.key \in ExternalIds => n.row.entry = Named[n.key]

IdsNamed ==
    /\ \A id \in ExternalIds : rows[id] # NoRow => rows[id].entry = Named[id]
    /\ \A t \in Importers :
         /\ \A i \in DOMAIN importing[t].prob : NamedRow(importing[t].prob[i])
         /\ \A i \in DOMAIN importing[t].fresh : NamedRow(importing[t].fresh[i])

\* A record is stored: under its hash, or under its id with its code.
KnownIn(R, r) ==
    \/ \E k \in Keys : R[k] # NoRow /\ Hash(R[k]) = Hash(r)
    \/ /\ r.id # NoRow
       /\ R[r.id] # NoRow /\ R[r.id].code = r.code
Known(r) == KnownIn(rows, r)

\* The rows as read are the problem's, all of them.
ReadWhole(t) ==
    /\ \A i \in DOMAIN importing[t].prob :
           /\ rows[importing[t].prob[i].key] # NoRow
           /\ rows[importing[t].prob[i].key] = importing[t].prob[i].row
    /\ \A k \in Present : TitleSlug[rows[k].entry] = Slug(t) =>
           \E i \in DOMAIN importing[t].prob : importing[t].prob[i].key = k

\* A new row takes the place of one without code at most, and each has its own key.
FreshApart(t) ==
    /\ \A i \in DOMAIN importing[t].fresh :
           LET n == importing[t].fresh[i] IN
           /\ rows[n.key] = NoRow \/ rows[n.key].code = 0
           /\ n.key \in ExternalIds =>
                  \E j \in 1..importing[t].checked : Group(t)[j].id = n.key
    /\ \A i, j \in DOMAIN importing[t].fresh :
           importing[t].fresh[i].key = importing[t].fresh[j].key => i = j

\* So many of the group's records are stored, or are to be with it.
FreshKnown(t, n) ==
    \A j \in 1..n :
        \/ Known(Group(t)[j])
        \/ \E i \in DOMAIN importing[t].fresh :
               Hash(importing[t].fresh[i].row) = Hash(Group(t)[j])

\* The groups before those left are stored.
KeptIn(R, i) ==
    \A g \in 1..(Len(i.file) - Len(i.groups)) :
        \A j \in DOMAIN i.file[g] : KnownIn(R, i.file[g][j])
PartKept(i) == KeptIn(rows, i)

\* Of an import beside which nothing ran, the records compared are stored, or are
\* to be with the group.
AllKept ==
    beside = {} =>
        /\ \A r \in reported : Known(r) /\ r.code = 1
        /\ \A t \in Importers : Busy(t) =>
             /\ reported = {}
             /\ PartKept(importing[t])
             /\ importing[t].at = "check" =>
                  ReadWhole(t) /\ FreshApart(t) /\ FreshKnown(t, importing[t].checked)

\* There are finitely many keys.
LEMMA KeysAreFinite == IsFiniteSet(Keys)
<1> DEFINE F == [x \in ExternalIds |-> Scoped(x)]
           S == {Scoped(x) : x \in ExternalIds}
<1>1. F \in Surjection(ExternalIds, S)
  BY DEF Surjection
<1>2. IsFiniteSet(ExternalIds) /\ IsFiniteSet(NewIds)
  BY ImporterAssumption
<1>3. IsFiniteSet(S)
  <2> HIDE DEF F, S
  <2> QED BY <1>1, <1>2, FS_Surjection
<1>4. IsFiniteSet(ExternalIds \cup S)
  <2> HIDE DEF F, S
  <2> QED BY <1>2, <1>3, FS_Union
<1>5. IsFiniteSet(ExternalIds \cup S \cup NewIds)
  <2> HIDE DEF F, S
  <2> QED BY <1>2, <1>4, FS_Union
<1> QED BY <1>5 DEF Keys

\* The problem as read: its rows, all of them, under their keys.
LEMMA RowsListed ==
  ASSUME NEW K \in SUBSET Present, NEW list \in ListOf(K),
         rows \in [Keys -> Row \cup {NoRow}]
  PROVE  /\ list \in Seq(KeyedRow)
         /\ \A i \in DOMAIN list :
                list[i].key \in K /\ list[i].row = rows[list[i].key]
         /\ \A k \in K : \E i \in DOMAIN list : list[i].key = k
<1> DEFINE n == Cardinality(K)
<1>1. K \subseteq Keys /\ n \in Nat
  BY KeysAreFinite, FS_Subset, FS_CardinalityType DEF Present
<1> HIDE DEF n
<1>2. PICK order \in [1..n -> K] :
        /\ \A k \in K : \E i \in DOMAIN order : order[i] = k
        /\ list = [i \in 1..n |-> [key |-> order[i], row |-> rows[order[i]]]]
  BY DEF ListOf, n
<1>3. \A i \in 1..n : [key |-> order[i], row |-> rows[order[i]]] \in KeyedRow
  BY <1>1, <1>2 DEF Present, KeyedRow
<1>4. list \in Seq(KeyedRow)
  BY <1>1, <1>2, <1>3
<1> QED BY <1>2, <1>4

\* The last of a key's rows in a list is found.
LEMMA LastUpsert ==
  ASSUME NEW list \in Seq(KeyedRow), NEW k \in Keys,
         \E i \in DOMAIN list : list[i].key = k
  PROVE  \E i \in DOMAIN list :
            /\ list[i].key = k /\ Upserted(list)[k] = list[i].row
            /\ \A j \in DOMAIN list : list[j].key = k => j <= i
<1> DEFINE at == {i \in DOMAIN list : list[i].key = k}
           left == {Len(list) - i : i \in at}
<1>1. at \subseteq 1..Len(list) /\ at # {} /\ Len(list) \in Nat
  OBVIOUS
<1>2. left \in SUBSET Nat /\ left # {}
  <2> HIDE DEF at
  <2>1. \A i \in at : Len(list) - i \in Nat
    BY <1>1
  <2>2. PICK i \in at : TRUE
    BY <1>1
  <2>3. Len(list) - i \in left
    BY <2>2
  <2> QED BY <2>1, <2>3
<1>3. \E m \in left : \A l \in left : m <= l
  <2> HIDE DEF left
  <2> QED BY <1>2, LeastNumber
<1>4. \E i \in at : \A j \in at : j <= i
  <2> HIDE DEF at
  <2>1. PICK m \in left : \A l \in left : m <= l
    BY <1>3
  <2>2. PICK i \in at : m = Len(list) - i
    BY <2>1
  <2>3. \A j \in at : Len(list) - i <= Len(list) - j
    BY <2>1, <2>2
  <2> QED BY <1>1, <2>2, <2>3
<1> DEFINE last == CHOOSE i \in at : \A j \in at : j <= i
<1>5. last \in at /\ \A j \in at : j <= last
  <2> HIDE DEF at
  <2> QED BY <1>4
<1>6. Upserted(list)[k] = list[last].row
  BY <1>1 DEF Upserted
<1> QED BY <1>5, <1>6

\* A key that is not in the list keeps its row.
LEMMA OthersKept ==
  ASSUME NEW list \in Seq(KeyedRow), NEW k \in Keys,
         \A i \in DOMAIN list : list[i].key # k
  PROVE  Upserted(list)[k] = rows[k]
<1> DEFINE at == {i \in DOMAIN list : list[i].key = k}
<1>1. at = {}
  OBVIOUS
<1>2. Upserted(list)[k] = rows[k]
  BY <1>1 DEF Upserted
<1> QED BY <1>2

LEMMA UpsertedTyped ==
  ASSUME NEW list \in Seq(KeyedRow), rows \in [Keys -> Row \cup {NoRow}]
  PROVE  Upserted(list) \in [Keys -> Row \cup {NoRow}]
<1>1. \A k \in Keys : Upserted(list)[k] \in Row \cup {NoRow}
  <2> TAKE k \in Keys
  <2>1. CASE \A i \in DOMAIN list : list[i].key # k
    BY <2>1, OthersKept
  <2>2. CASE \E i \in DOMAIN list : list[i].key = k
    <3>1. PICK i \in DOMAIN list : Upserted(list)[k] = list[i].row
      BY <2>2, LastUpsert
    <3>2. list[i] \in KeyedRow
      OBVIOUS
    <3> QED BY <3>1, <3>2 DEF KeyedRow
  <2> QED BY <2>1, <2>2
<1>2. Upserted(list) = [k \in Keys |-> Upserted(list)[k]]
  BY DEF Upserted
<1> QED BY <1>1, <1>2

\* What a save, or a part of one, leaves under a key: the row it had, one of the
\* rows read, or a new one.
LEMMA SavedRows ==
  ASSUME NEW t \in Importers, ImportTyped, NEW n \in 0..Len(Merged(t))
  PROVE  LET list == SubSeq(Merged(t), 1, n)
             saved == Upserted(list)
             prob == importing[t].prob
             fresh == importing[t].fresh
         IN /\ list \in Seq(KeyedRow)
            /\ \A k \in Keys :
                \/ saved[k] = rows[k]
                \/ \E i \in DOMAIN prob : prob[i].key = k /\ saved[k] = prob[i].row
                \/ \E i \in DOMAIN fresh : fresh[i].key = k /\ saved[k] = fresh[i].row
<1> DEFINE list == SubSeq(Merged(t), 1, n)
           saved == Upserted(list)
           prob == importing[t].prob
           fresh == importing[t].fresh
<1>1. prob \in Seq(KeyedRow) /\ fresh \in Seq(KeyedRow)
  BY DEF ImportTyped, ImporterTypeOK
<1> HIDE DEF prob, fresh
<1>2. Merged(t) = prob \o fresh
  BY DEF Merged, prob, fresh
<1>3. list \in Seq(KeyedRow) /\ DOMAIN list = 1..n
  BY <1>1, <1>2
<1>4. \A i \in 1..n : list[i] = IF i <= Len(prob) THEN prob[i] ELSE fresh[i - Len(prob)]
  BY <1>1, <1>2
<1>5. \A i \in 1..n : i > Len(prob) => i - Len(prob) \in DOMAIN fresh
  BY <1>1, <1>2
<1>6. \A i \in 1..n : i <= Len(prob) => i \in DOMAIN prob
  BY <1>1
<1>7. ASSUME NEW k \in Keys
      PROVE  \/ saved[k] = rows[k]
             \/ \E i \in DOMAIN prob : prob[i].key = k /\ saved[k] = prob[i].row
             \/ \E i \in DOMAIN fresh : fresh[i].key = k /\ saved[k] = fresh[i].row
  <2> HIDE DEF list
  <2>1. CASE \A i \in DOMAIN list : list[i].key # k
    BY <2>1, <1>3, OthersKept
  <2>2. CASE \E i \in DOMAIN list : list[i].key = k
    <3>1. PICK i \in 1..n : list[i].key = k /\ saved[k] = list[i].row
      BY <2>2, <1>3, LastUpsert
    <3>2. CASE i <= Len(prob)
      BY <3>1, <3>2, <1>4, <1>6
    <3>3. CASE ~ (i <= Len(prob))
      BY <3>1, <3>3, <1>1, <1>4, <1>5
    <3> QED BY <3>2, <3>3
  <2> QED BY <2>1, <2>2
<1> QED BY <1>3, <1>7 DEF prob, fresh

\* A whole save stores every new row, or a later one of its key.
LEMMA SavedFresh ==
  ASSUME NEW t \in Importers, ImportTyped, NEW i \in DOMAIN importing[t].fresh
  PROVE  \E j \in DOMAIN importing[t].fresh :
            /\ importing[t].fresh[j].key = importing[t].fresh[i].key
            /\ Upserted(Merged(t))[importing[t].fresh[i].key] = importing[t].fresh[j].row
<1> DEFINE list == Merged(t)
           prob == importing[t].prob
           fresh == importing[t].fresh
           k == fresh[i].key
           place == Len(prob) + i
<1>1. prob \in Seq(KeyedRow) /\ fresh \in Seq(KeyedRow)
  BY DEF ImportTyped, ImporterTypeOK
<1>2. i \in DOMAIN fresh
  OBVIOUS
<1> HIDE DEF prob, fresh
<1>3. list = prob \o fresh
  BY DEF Merged, prob, fresh
<1> HIDE DEF list
<1>4. list \in Seq(KeyedRow) /\ place \in DOMAIN list /\ list[place] = fresh[i]
  BY <1>1, <1>2, <1>3
<1>5. k \in Keys
  <2>1. fresh[i] \in KeyedRow
    BY <1>1, <1>2
  <2> QED BY <2>1 DEF KeyedRow
<1>6. PICK m \in DOMAIN list : /\ list[m].key = k /\ Upserted(list)[k] = list[m].row
                               /\ \A j \in DOMAIN list : list[j].key = k => j <= m
  BY <1>4, <1>5, LastUpsert
<1>7. place <= m
  BY <1>4, <1>6
<1>8. m - Len(prob) \in DOMAIN fresh /\ list[m] = fresh[m - Len(prob)]
  BY <1>1, <1>2, <1>3, <1>6, <1>7
<1> QED BY <1>6, <1>8 DEF list, fresh

LEMMA FilesTyped ==
  ASSUME NEW f \in Files
  PROVE  /\ f \in Seq(Seq(Record))
         /\ \A i \in DOMAIN f : f[i] \in Seq(Record) /\ f[i] # <<>>
BY ImporterAssumption

\* The group at hand is one of the file's.
LEMMA GroupOfFile ==
  ASSUME NEW t \in Importers, ImportTyped, importing[t].at # "idle",
         importing[t].groups # <<>>
  PROVE  LET f == importing[t].file
             i == Len(f) - Len(importing[t].groups) + 1
         IN  f \in Files /\ i \in DOMAIN f /\ Group(t) = f[i]
<1> DEFINE f == importing[t].file
           g == importing[t].groups
<1>1. importing[t] \in Import /\ FileEnd(importing[t])
  BY DEF ImportTyped
<1>2. f \in Files /\ g \in Seq(Seq(Record)) /\ Len(g) <= Len(f)
  BY <1>1 DEF FileEnd, Import
<1>3. Len(g) \in Nat /\ 1 \in 1..Len(g)
  BY <1>2
<1>4. g[1] = f[Len(f) - Len(g) + 1]
  BY <1>1, <1>3 DEF FileEnd
<1>5. f \in Seq(Seq(Record))
  BY <1>2, FilesTyped
<1>6. Len(f) - Len(g) + 1 \in DOMAIN f
  <2>1. Len(f) \in Nat /\ DOMAIN f = 1..Len(f)
    BY <1>5
  <2> HIDE DEF f, g
  <2> QED BY <1>2, <1>3, <2>1
<1> QED BY <1>2, <1>4, <1>6 DEF Group

LEMMA GroupTyped ==
  ASSUME NEW t \in Importers, ImportTyped, importing[t].at # "idle",
         importing[t].groups # <<>>
  PROVE  /\ Group(t) \in Seq(Record) /\ Group(t) # <<>>
         /\ Slug(t) \in {TitleSlug[e] : e \in Entries}
<1>1. Group(t) \in Seq(Record) /\ Group(t) # <<>>
  BY ZenonT(30), GroupOfFile, FilesTyped
<1>2. Group(t)[1] \in Record
  BY <1>1
<1>3. Group(t)[1].entry \in Entries
  BY <1>2 DEF Record
<1> QED BY <1>1, <1>3 DEF Slug

\* A thread at work on a group has one.
LEMMA CheckHasGroup ==
  ASSUME NEW t \in Importers, ImportTyped, importing[t].at = "check"
  PROVE  importing[t].groups # <<>> /\ importing[t].checked <= Len(Group(t))
BY DEF ImportTyped, FileEnd, Group

LEMMA IdleTyped == NotImporting \in Import /\ FileEnd(NotImporting)
<1>1. <<>> \in Seq(Seq(Record)) /\ <<>> \in Seq(KeyedRow)
  OBVIOUS
<1> QED BY <1>1 DEF NotImporting, Import, FileEnd

\* One thread's import changes and the rest does not: what is to be shown of it.
LEMMA ImportChanged ==
  ASSUME NEW t \in Importers, importing \in [Importers -> Import],
         \A u \in Importers : FileEnd(importing[u]),
         NEW i \in Import, FileEnd(i), importing' = [importing EXCEPT ![t] = i],
         rows' \in [Keys -> Row \cup {NoRow}],
         made' \subseteq {TitleSlug[e] : e \in Entries},
         beside' \subseteq {"import", "sync"}, reported' \subseteq Record
  PROVE  ImportTyped'
<1>1. importing' \in [Importers -> Import]
  OBVIOUS
<1>2. \A u \in Importers : FileEnd(importing'[u])
  OBVIOUS
<1>3. \A u \in Importers : importing'[u] \in Import
  BY <1>1
<1> QED BY <1>1, <1>2, <1>3 DEF ImportTyped, ImporterTypeOK, Import

\* The end of a file less its first group is its end.
LEMMA GroupLeft ==
  ASSUME NEW t \in Importers, ImportTyped, importing[t].at = "check",
         NEW i \in Import, i.at = "read", i.groups = Tail(importing[t].groups),
         i.file = importing[t].file
  PROVE  FileEnd(i)
<1> DEFINE f == importing[t].file
           g == importing[t].groups
<1>1. importing[t] \in Import /\ FileEnd(importing[t])
  BY DEF ImportTyped
<1>2. f \in Files /\ g \in Seq(Seq(Record)) /\ g # <<>> /\ Len(g) <= Len(f)
  BY <1>1 DEF FileEnd, Import
<1>3. f \in Seq(Seq(Record))
  BY <1>2, FilesTyped
<1>4. Tail(g) \in Seq(Seq(Record)) /\ Len(Tail(g)) = Len(g) - 1
  BY <1>2
<1>5. ASSUME NEW j \in 1..Len(Tail(g))
      PROVE  Tail(g)[j] = f[Len(f) - Len(Tail(g)) + j]
  <2>1. Tail(g)[j] = g[j + 1] /\ j + 1 \in 1..Len(g)
    BY <1>2, <1>4
  <2>2. g[j + 1] = f[Len(f) - Len(g) + (j + 1)]
    BY <1>1, <2>1 DEF FileEnd
  <2>3. Len(f) - Len(g) + (j + 1) = Len(f) - Len(Tail(g)) + j
    <3>1. Len(f) \in Nat /\ Len(g) \in Nat /\ j \in Nat
      BY <1>2, <1>3
    <3> HIDE DEF f, g
    <3> QED BY <1>4, <3>1
  <2> QED BY <2>1, <2>2, <2>3
<1>6. Len(Tail(g)) <= Len(f)
  BY <1>2, <1>3, <1>4
<1> QED BY <1>2, <1>5, <1>6 DEF FileEnd

LEMMA ImportTypedStep == ImportTyped /\ [ImporterNext]_importerVars => ImportTyped'
<1> SUFFICES ASSUME ImportTyped, [ImporterNext]_importerVars PROVE ImportTyped'
  OBVIOUS
<1> USE DEF Busy
<1>1. /\ rows \in [Keys -> Row \cup {NoRow}]
      /\ made \subseteq {TitleSlug[e] : e \in Entries}
      /\ beside \subseteq {"import", "sync"} /\ reported \subseteq Record
      /\ importing \in [Importers -> Import]
      /\ \A u \in Importers : importing[u] \in Import /\ FileEnd(importing[u])
  BY DEF ImportTyped, ImporterTypeOK
<1>2. ASSUME NEW t \in Importers, NEW f \in Files, ImportFile(t, f)
      PROVE  ImportTyped'
  <2> DEFINE i == [NotImporting EXCEPT !.at = "read", !.groups = f, !.file = f]
  <2>1. f \in Seq(Seq(Record))
    BY FilesTyped
  <2>2. i \in Import
    BY <2>1, IdleTyped DEF Import, NotImporting
  <2>3. i.at = "read" /\ i.groups = f /\ i.file = f
    BY DEF NotImporting
  <2>4. FileEnd(i)
    <3> HIDE DEF i
    <3>1. \A j \in 1..Len(f) : f[j] = f[Len(f) - Len(f) + j]
      BY <2>1
    <3>2. Len(f) <= Len(f)
      BY <2>1
    <3> QED BY <2>3, <3>1, <3>2 DEF FileEnd
  <2>5. importing' = [importing EXCEPT ![t] = i]
    BY <1>2 DEF ImportFile
  <2>6. rows' = rows /\ made' = made /\ reported' = {} /\ beside' \subseteq {"import", "sync"}
    BY <1>1, <1>2 DEF ImportFile, Beside
  <2> HIDE DEF i
  <2> QED BY <1>1, <2>2, <2>4, <2>5, <2>6, ImportChanged
<1>3. ASSUME NEW t \in Importers, ReadProblem(t)
      PROVE  ImportTyped'
  <2> DEFINE K == {k \in Present : TitleSlug[rows[k].entry] = Slug(t)}
  <2>1. PICK list \in ListOf(K) :
          importing' = [importing EXCEPT ![t].at = "check", ![t].checked = 0,
               ![t].prob = list, ![t].fresh = <<>>, ![t].known = Slug(t) \in made]
    BY <1>3 DEF ReadProblem
  <2>2. list \in Seq(KeyedRow)
    <3>1. K \subseteq Present
      OBVIOUS
    <3> HIDE DEF K
    <3> QED BY <1>1, <3>1, RowsListed
  <2> DEFINE old == importing[t]
             i == [old EXCEPT !.at = "check", !.checked = 0, !.prob = list,
                              !.fresh = <<>>, !.known = Slug(t) \in made]
  <2>3. old \in Import /\ FileEnd(old) /\ old.at = "read" /\ old.groups # <<>>
    BY <1>1, <1>3 DEF ReadProblem
  <2>4. importing' = [importing EXCEPT ![t] = i]
    BY <2>1
  <2>5. (Slug(t) \in made) \in BOOLEAN /\ <<>> \in Seq(KeyedRow)
    OBVIOUS
  <2> HIDE DEF old
  <2>6. i \in Import
    BY <2>2, <2>3, <2>5 DEF Import
  <2>7. i.at = "check" /\ i.groups = old.groups /\ i.file = old.file /\ i.checked = 0
    BY <2>3 DEF Import
  <2>8. 0 <= Len(old.groups[1])
    <3>1. old.groups[1] \in Seq(Record)
      BY <2>3 DEF Import
    <3> QED BY <3>1
  <2>9. FileEnd(i)
    <3> HIDE DEF i
    <3> QED BY <2>3, <2>7, <2>8 DEF FileEnd
  <2>10. rows' = rows /\ made' = made /\ reported' = reported /\ beside' = beside
    BY <1>3 DEF ReadProblem
  <2> HIDE DEF i
  <2> QED BY <1>1, <2>4, <2>6, <2>9, <2>10, ImportChanged
<1>4. ASSUME NEW t \in Importers, CheckRecord(t)
      PROVE  ImportTyped'
  <2> DEFINE old == importing[t]
             r == Group(t)[old.checked + 1]
             row == [entry |-> r.entry, code |-> r.code, owner |-> r.owner,
                     imported |-> TRUE]
  <2>1. old \in Import /\ FileEnd(old) /\ old.at = "check" /\ old.checked < Len(Group(t))
    BY <1>1, <1>4 DEF CheckRecord
  <2>2. old.groups # <<>> /\ Group(t) \in Seq(Record)
    BY <2>1, CheckHasGroup, GroupTyped
  <2>3. old.checked \in Nat /\ old.checked + 1 \in 1..Len(Group(t))
    BY <2>1, <2>2 DEF Import
  <2>4. r \in Record
    BY <2>2, <2>3
  <2>5. row \in Row
    BY <2>4 DEF Record, Row
  <2>6. rows' = rows /\ made' = made /\ reported' = reported /\ beside' = beside
    BY <1>4 DEF CheckRecord
  <2> DEFINE Counted(fresh) == [old EXCEPT !.checked = old.checked + 1, !.fresh = fresh]
  <2>7. ASSUME NEW fresh \in Seq(KeyedRow),
               importing' = [importing EXCEPT ![t] = Counted(fresh)]
        PROVE  ImportTyped'
    <3> DEFINE i == Counted(fresh)
    <3> HIDE DEF old
    <3>1. i \in Import
      <4> DEFINE c == old.checked + 1
      <4>1. c \in Nat
        BY <2>3
      <4> HIDE DEF c
      <4>2. [old EXCEPT !.checked = c, !.fresh = fresh] \in Import
        BY <2>1, <2>7, <4>1 DEF Import
      <4> QED BY <4>2 DEF c
    <3>2. /\ i.at = "check" /\ i.groups = old.groups /\ i.file = old.file
          /\ i.checked = old.checked + 1
      BY <2>1 DEF Import
    <3>3. i.checked <= Len(i.groups[1])
      BY <2>2, <2>3, <3>2 DEF Group, old
    <3>4. FileEnd(i)
      <4> HIDE DEF i
      <4> QED BY <2>1, <2>2, <3>2, <3>3 DEF FileEnd
    <3>5. importing' = [importing EXCEPT ![t] = i]
      BY <2>7
    <3> HIDE DEF i
    <3> QED BY <1>1, <2>6, <3>1, <3>4, <3>5, ImportChanged
  <2>8. CASE Duplicate(t, r)
    <3>1. importing' = [importing EXCEPT ![t].checked = @ + 1]
      BY <1>4, <2>8 DEF CheckRecord
    <3>2. importing' = [importing EXCEPT ![t] = Counted(old.fresh)]
      <4>1. Counted(old.fresh) = [old EXCEPT !.checked = @ + 1]
        BY <2>1 DEF Import
      <4> QED BY <3>1, <4>1
    <3>3. old.fresh \in Seq(KeyedRow)
      BY <2>1 DEF Import
    <3> HIDE DEF Counted, old
    <3> QED BY <2>7, <3>2, <3>3
  <2>9. CASE ~Duplicate(t, r)
    <3>1. PICK key \in IF r.id # NoRow THEN {r.id} ELSE UnusedIds :
             importing' = [importing EXCEPT ![t].checked = @ + 1,
                    ![t].fresh = Append(@, [key |-> key, row |-> row])]
      BY <1>4, <2>9 DEF CheckRecord
    <3>2. key \in Keys
      BY <2>4, <3>1 DEF Record, Keys, UnusedIds
    <3>3. [key |-> key, row |-> row] \in KeyedRow
      BY <2>5, <3>2 DEF KeyedRow
    <3>4. Append(old.fresh, [key |-> key, row |-> row]) \in Seq(KeyedRow)
      <4>1. old.fresh \in Seq(KeyedRow)
        BY <2>1 DEF Import
      <4> QED BY <3>3, <4>1
    <3>5. importing' = [importing EXCEPT
               ![t] = Counted(Append(old.fresh, [key |-> key, row |-> row]))]
      BY <3>1
    <3> HIDE DEF Counted, old
    <3> QED BY <2>7, <3>4, <3>5
  <2> QED BY <2>8, <2>9
<1>5. ASSUME NEW t \in Importers, SaveGroup(t)
      PROVE  ImportTyped'
  <2> DEFINE old == importing[t]
             i == [old EXCEPT !.at = "read", !.groups = Tail(old.groups),
                              !.prob = <<>>, !.fresh = <<>>]
  <2>1. old \in Import /\ old.at = "check"
    BY <1>1, <1>5 DEF SaveGroup, GroupDone
  <2>2. importing' = [importing EXCEPT ![t] = i]
    BY <1>5 DEF SaveGroup
  <2>3. old.groups # <<>> /\ old.groups \in Seq(Seq(Record))
    BY <2>1, CheckHasGroup DEF Import
  <2>4. Tail(old.groups) \in Seq(Seq(Record)) /\ <<>> \in Seq(KeyedRow)
    BY <2>3
  <2>5. i \in Import /\ i.at = "read" /\ i.groups = Tail(old.groups) /\ i.file = old.file
    <3> HIDE DEF old
    <3> QED BY <2>1, <2>4 DEF Import
  <2>6. FileEnd(i)
    <3> HIDE DEF i
    <3> QED BY <2>1, <2>5, GroupLeft
  <2>7. rows' \in [Keys -> Row \cup {NoRow}]
    <3>1. old.prob \in Seq(KeyedRow) /\ old.fresh \in Seq(KeyedRow)
      BY <2>1 DEF Import
    <3>2. Merged(t) \in Seq(KeyedRow)
      BY <3>1 DEF Merged
    <3> QED BY <1>1, <1>5, <3>2, UpsertedTyped DEF SaveGroup
  <2>8. made' \subseteq {TitleSlug[e] : e \in Entries}
    <3>1. Slug(t) \in {TitleSlug[e] : e \in Entries}
      BY <2>1, <2>3, GroupTyped
    <3> QED BY <1>1, <1>5, <3>1 DEF SaveGroup
  <2>9. reported' = reported /\ beside' = beside
    BY <1>5 DEF SaveGroup
  <2> HIDE DEF i
  <2> QED BY <1>1, <2>2, <2>5, <2>6, <2>7, <2>8, <2>9, ImportChanged
<1>6. ASSUME NEW t \in Importers, SkipGroup(t)
      PROVE  ImportTyped'
  <2> DEFINE old == importing[t]
             i == [old EXCEPT !.at = "read", !.groups = Tail(old.groups), !.prob = <<>>]
  <2>1. old \in Import /\ old.at = "check"
    BY <1>1, <1>6 DEF SkipGroup, GroupDone
  <2>2. importing' = [importing EXCEPT ![t] = i]
    BY <1>6 DEF SkipGroup
  <2>3. old.groups # <<>> /\ old.groups \in Seq(Seq(Record))
    BY <2>1, CheckHasGroup DEF Import
  <2>4. Tail(old.groups) \in Seq(Seq(Record)) /\ <<>> \in Seq(KeyedRow)
    BY <2>3
  <2>5. i \in Import /\ i.at = "read" /\ i.groups = Tail(old.groups) /\ i.file = old.file
    <3> HIDE DEF old
    <3> QED BY <2>1, <2>4 DEF Import
  <2>6. FileEnd(i)
    <3> HIDE DEF i
    <3> QED BY <2>1, <2>5, GroupLeft
  <2>7. rows' = rows /\ made' = made /\ reported' = reported /\ beside' = beside
    BY <1>6 DEF SkipGroup
  <2> HIDE DEF i
  <2> QED BY <1>1, <2>2, <2>5, <2>6, <2>7, ImportChanged
<1>7. ASSUME NEW t \in Importers, SaveFails(t)
      PROVE  ImportTyped'
  <2>1. importing[t] \in Import /\ importing[t].at = "check"
    BY <1>1, <1>7 DEF SaveFails, GroupDone
  <2>2. PICK n \in 0..Len(Merged(t)) :
          /\ rows' = Upserted(SubSeq(Merged(t), 1, n))
          /\ made' = IF n > 0 THEN made \cup {Slug(t)} ELSE made
    BY <1>7 DEF SaveFails
  <2>3. rows' \in [Keys -> Row \cup {NoRow}]
    <3>1. SubSeq(Merged(t), 1, n) \in Seq(KeyedRow)
      BY SavedRows
    <3> QED BY <1>1, <2>2, <3>1, UpsertedTyped
  <2>4. made' \subseteq {TitleSlug[e] : e \in Entries}
    <3>1. Slug(t) \in {TitleSlug[e] : e \in Entries}
      BY <2>1, CheckHasGroup, GroupTyped
    <3> QED BY <1>1, <2>2, <3>1
  <2>5. importing' = [importing EXCEPT ![t] = NotImporting]
        /\ reported' = reported /\ beside' = beside
    BY <1>7 DEF SaveFails
  <2> QED BY <1>1, <2>3, <2>4, <2>5, IdleTyped, ImportChanged
<1>8. ASSUME NEW t \in Importers, ImportEnds(t)
      PROVE  ImportTyped'
  <2> DEFINE f == importing[t].file
  <2>1. f \in Files
    BY <1>1, <1>8 DEF ImportEnds, FileEnd
  <2>2. RecordsOf(f) \subseteq Record
    <3> HIDE DEF f
    <3>1. \A i \in DOMAIN f : \A j \in DOMAIN f[i] : f[i][j] \in Record
      BY <2>1, FilesTyped
    <3> QED BY <3>1 DEF RecordsOf
  <2>3. /\ reported' = RecordsOf(f)
        /\ importing' = [importing EXCEPT ![t] = NotImporting]
        /\ rows' = rows /\ made' = made /\ beside' = beside
    BY <1>8 DEF ImportEnds
  <2> QED BY <1>1, <2>2, <2>3, IdleTyped, ImportChanged
<1>9. ASSUME NEW x \in ExternalIds, SyncStores(x)
      PROVE  ImportTyped'
  <2>1. Named[x] \in Entries
    BY ImporterAssumption
  <2>2. [entry |-> Named[x], code |-> 0, owner |-> Account, imported |-> FALSE] \in Row
    BY <2>1 DEF Row
  <2>3. rows' \in [Keys -> Row \cup {NoRow}]
    <3> DEFINE row == [entry |-> Named[x], code |-> 0, owner |-> Account, imported |-> FALSE]
    <3>1. rows' = [rows EXCEPT ![ResolvedId(x)] = row]
      BY <1>9 DEF SyncStores
    <3> HIDE DEF row
    <3> QED BY <1>1, <2>2, <3>1 DEF row
  <2>4. made' \subseteq {TitleSlug[e] : e \in Entries}
    BY <1>1, <1>9, <2>1 DEF SyncStores
  <2>5. importing' = importing /\ reported' = {} /\ beside' \subseteq {"import", "sync"}
    BY <1>1, <1>9 DEF SyncStores, Beside
  <2> QED BY <1>1, <2>3, <2>4, <2>5 DEF ImportTyped, ImporterTypeOK
<1>10. ASSUME NEW x \in ExternalIds, SyncEnriches(x)
       PROVE  ImportTyped'
  <2> DEFINE k == ResolvedId(x)
  <2>1. k \in Keys
    BY DEF ResolvedId, Keys
  <2> HIDE DEF k
  <2>2. rows[k] \in Row /\ rows' = [rows EXCEPT ![k].code = 1]
    BY <1>1, <1>10, <2>1 DEF SyncEnriches, k
  <2>3. [rows[k] EXCEPT !.code = 1] \in Row
    BY <2>2 DEF Row
  <2>4. rows' \in [Keys -> Row \cup {NoRow}]
    <3> DEFINE row == [rows[k] EXCEPT !.code = 1]
    <3>1. rows' = [rows EXCEPT ![k] = row]
      BY <2>2
    <3> HIDE DEF row
    <3> QED BY <1>1, <2>3, <3>1 DEF row
  <2>5. importing' = importing /\ reported' = {} /\ made' = made
        /\ beside' \subseteq {"import", "sync"}
    BY <1>1, <1>10 DEF SyncEnriches, Beside
  <2> QED BY <1>1, <2>4, <2>5 DEF ImportTyped, ImporterTypeOK
<1>11. CASE UNCHANGED importerVars
  BY <1>11 DEF importerVars, ImportTyped, ImporterTypeOK
<1> QED BY <1>2, <1>3, <1>4, <1>5, <1>6, <1>7, <1>8, <1>9, <1>10, <1>11 DEF ImporterNext

LEMMA ImportTypedInit == ImporterInit => ImportTyped
<1> SUFFICES ASSUME ImporterInit PROVE ImportTyped
  OBVIOUS
<1>1. importing = [t \in Importers |-> NotImporting]
  BY DEF ImporterInit
<1>2. importing \in [Importers -> Import]
  BY <1>1, IdleTyped
<1>3. rows \in [Keys -> Row \cup {NoRow}] /\ made = {} /\ beside = {} /\ reported = {}
  BY DEF ImporterInit
<1>4. \A t \in Importers : importing[t] \in Import /\ FileEnd(importing[t])
  BY <1>1, IdleTyped
<1> QED BY <1>2, <1>3, <1>4 DEF ImportTyped, ImporterTypeOK, Import

\* Every variable of the importer stays within its type, also when imports overlap
\* and saves fail: what is stored under a key is always a whole row.
THEOREM ImporterTypeCorrect == ImporterSpec => []ImporterTypeOK
<1>1. ImportTyped => ImporterTypeOK
  BY DEF ImportTyped
<1> QED BY <1>1, ImportTypedInit, ImportTypedStep, PTL DEF ImporterSpec

\* Steps of one import while the others are idle: what they leave alone.
LEMMA OneMoves ==
  ASSUME NEW t \in Importers, ImportTyped, NEW i,
         importing' = [importing EXCEPT ![t] = i],
         \A u \in Importers : u # t => ~Busy(u)
  PROVE  /\ importing'[t] = i
         /\ \A u \in Importers : u # t => importing'[u] = importing[u] /\ ~Busy(u)'
         /\ OneImport'
<1>1. importing \in [Importers -> Import]
  BY DEF ImportTyped
<1>2. /\ importing'[t] = i
      /\ \A u \in Importers : u # t => importing'[u] = importing[u] /\ ~Busy(u)'
  BY <1>1 DEF Busy
<1> QED BY <1>2 DEF OneImport

\* Rows of an import beside no other: the imported ones are those from before, or new.
LEMMA SavedImported ==
  ASSUME NEW t \in Importers, ImportTyped, ReadKept(t), FreshNew(t), ImportedCoded,
         NEW n \in 0..Len(Merged(t)), rows' = Upserted(SubSeq(Merged(t), 1, n)),
         NEW k \in Present', rows'[k].imported
  PROVE  /\ rows'[k].code = 1
         /\ \/ k \in Present /\ rows'[k] = rows[k]
            \/ \E i \in DOMAIN importing[t].fresh :
                 importing[t].fresh[i].key = k /\ rows'[k] = importing[t].fresh[i].row
<1> DEFINE prob == importing[t].prob
           fresh == importing[t].fresh
<1>1. k \in Keys /\ rows'[k] # NoRow
  BY DEF Present
<1>2. \/ rows'[k] = rows[k]
      \/ \E i \in DOMAIN prob : prob[i].key = k /\ rows'[k] = prob[i].row
      \/ \E i \in DOMAIN fresh : fresh[i].key = k /\ rows'[k] = fresh[i].row
  BY <1>1, SavedRows
<1>3. CASE rows'[k] = rows[k]
  BY <1>1, <1>3 DEF Present, ImportedCoded
<1>4. CASE \E i \in DOMAIN prob : prob[i].key = k /\ rows'[k] = prob[i].row
  <2>1. rows'[k] = rows[k]
    BY <1>4 DEF ReadKept
  <2> QED BY <1>3, <2>1
<1>5. CASE \E i \in DOMAIN fresh : fresh[i].key = k /\ rows'[k] = fresh[i].row
  BY <1>5 DEF FreshNew
<1> QED BY <1>2, <1>3, <1>4, <1>5

LEMMA SavedOnce ==
  ASSUME NEW t \in Importers, ImportTyped, ReadKept(t), FreshNew(t), ImportedCoded,
         NothingTwice, NEW n \in 0..Len(Merged(t)),
         rows' = Upserted(SubSeq(Merged(t), 1, n))
  PROVE  ImportedCoded' /\ NothingTwice'
<1> DEFINE fresh == importing[t].fresh
           Old(k) == k \in Present /\ rows'[k] = rows[k]
           New(k) == \E i \in DOMAIN fresh : fresh[i].key = k /\ rows'[k] = fresh[i].row
<1>1. \A k \in Present' : rows'[k].imported => rows'[k].code = 1 /\ (Old(k) \/ New(k))
  BY SavedImported
<1>2. ImportedCoded'
  BY <1>1 DEF ImportedCoded
<1>3. ASSUME NEW j \in Present', NEW k \in Present', rows'[j].imported, rows'[k].imported,
             Hash(rows'[j]) = Hash(rows'[k])
      PROVE  j = k
  <2>1. CASE Old(j) /\ Old(k)
    BY <1>3, <2>1 DEF NothingTwice
  <2>2. CASE Old(j) /\ New(k)
    BY <1>3, <2>2 DEF FreshNew
  <2>3. CASE New(j) /\ Old(k)
    BY <1>3, <2>3 DEF FreshNew
  <2>4. CASE New(j) /\ New(k)
    BY <1>3, <2>4 DEF FreshNew
  <2> QED BY <1>1, <1>3, <2>1, <2>2, <2>3, <2>4
<1> QED BY <1>2, <1>3 DEF NothingTwice, Hash

\* The record an import compares next, with the bounds of its place.
LEMMA NextRecord ==
  ASSUME NEW t \in Importers, ImportTyped, CheckRecord(t), CodeGiven
  PROVE  LET n == importing[t].checked + 1
             r == Group(t)[n]
         IN  /\ n \in 1..Len(Group(t)) /\ importing[t].checked \in Nat
             /\ r \in Record /\ r.code = 1
             /\ r.id # NoRow => Named[r.id] = r.entry
             /\ TitleSlug[r.entry] = Slug(t)
             /\ \A j \in 1..Len(Group(t)) : Group(t)[j].id = r.id /\ r.id # NoRow => j = n
<1> DEFINE f == importing[t].file
           i == Len(f) - Len(importing[t].groups) + 1
           n == importing[t].checked + 1
<1>1. importing[t] \in Import /\ importing[t].at = "check"
      /\ importing[t].checked < Len(Group(t))
  BY DEF ImportTyped, CheckRecord
<1>2. importing[t].groups # <<>>
  BY <1>1, CheckHasGroup
<1>3. f \in Files /\ i \in DOMAIN f /\ Group(t) = f[i]
  BY <1>1, <1>2, GroupOfFile
<1> HIDE DEF f, i
<1>4. f[i] \in Seq(Record) /\ f[i] # <<>>
  BY <1>3, FilesTyped
<1>5. n \in 1..Len(f[i]) /\ 1 \in 1..Len(f[i]) /\ importing[t].checked \in Nat
  BY <1>1, <1>3, <1>4 DEF Import
<1> HIDE DEF n
<1>6. DOMAIN f[i] = 1..Len(f[i])
  BY <1>4
<1>7. f[i][n] \in Record /\ f[i][n] \in RecordsOf(f)
  BY <1>3, <1>4, <1>5, <1>6 DEF RecordsOf
<1>8. f[i][n].code = 1
  BY <1>3, <1>7 DEF CodeGiven
<1>9. /\ TitleSlug[f[i][n].entry] = TitleSlug[f[i][1].entry]
      /\ f[i][n].id # NoRow => Named[f[i][n].id] = f[i][n].entry
      /\ \A j \in 1..Len(f[i]) : f[i][j].id = f[i][n].id /\ f[i][j].id # NoRow => j = n
  <2>1. \A j, k \in DOMAIN f[i] :
           /\ TitleSlug[f[i][j].entry] = TitleSlug[f[i][k].entry]
           /\ f[i][j].id # NoRow => Named[f[i][j].id] = f[i][j].entry
           /\ f[i][j].id = f[i][k].id /\ f[i][j].id # NoRow => j = k
    BY <1>3, ImporterAssumption
  <2>2. n \in DOMAIN f[i] /\ 1 \in DOMAIN f[i]
    BY <1>5, <1>6
  <2> QED BY <1>6, <2>1, <2>2
<1> QED BY <1>3, <1>5, <1>7, <1>8, <1>9 DEF Slug, n

\* A record compared is passed over, or added to the new rows.
LEMMA RecordCompared ==
  ASSUME NEW t \in Importers, ImportTyped, CheckRecord(t)
  PROVE  LET old == importing[t]
             new == importing'[t]
             r == Group(t)[old.checked + 1]
             row == [entry |-> r.entry, code |-> r.code, owner |-> r.owner,
                     imported |-> TRUE]
         IN  /\ new \in Import /\ importing' = [importing EXCEPT ![t] = new]
             /\ new.at = "check" /\ new.groups = old.groups /\ new.prob = old.prob
             /\ new.file = old.file /\ new.checked = old.checked + 1
             /\ \/ Duplicate(t, r) /\ new.fresh = old.fresh
                \/ /\ ~Duplicate(t, r)
                   /\ \E key \in IF r.id # NoRow THEN {r.id} ELSE UnusedIds :
                         new.fresh = Append(old.fresh, [key |-> key, row |-> row])
<1> DEFINE old == importing[t]
           new == importing'[t]
           r == Group(t)[old.checked + 1]
           row == [entry |-> r.entry, code |-> r.code, owner |-> r.owner,
                   imported |-> TRUE]
<1>1. importing \in [Importers -> Import] /\ old \in Import /\ old.at = "check"
  BY DEF ImportTyped, CheckRecord
<1>2. CASE Duplicate(t, r)
  <2>1. importing' = [importing EXCEPT ![t].checked = @ + 1]
    BY <1>2 DEF CheckRecord
  <2>2. new = [old EXCEPT !.checked = old.checked + 1]
    BY <1>1, <2>1
  <2>3. new \in Import
    BY ImportTypedStep DEF ImporterNext, ImportTyped
  <2>4. importing' = [importing EXCEPT ![t] = new]
    BY <1>1, <2>1, <2>2
  <2>5. /\ new.at = "check" /\ new.groups = old.groups /\ new.prob = old.prob
        /\ new.file = old.file /\ new.checked = old.checked + 1 /\ new.fresh = old.fresh
    <3> HIDE DEF old, new
    <3> QED BY <1>1, <2>2 DEF Import
  <2> QED BY <1>2, <2>3, <2>4, <2>5
<1>3. CASE ~Duplicate(t, r)
  <2>1. PICK key \in IF r.id # NoRow THEN {r.id} ELSE UnusedIds :
           importing' = [importing EXCEPT ![t].checked = @ + 1,
                  ![t].fresh = Append(@, [key |-> key, row |-> row])]
    BY <1>3 DEF CheckRecord
  <2> DEFINE more == Append(old.fresh, [key |-> key, row |-> row])
  <2>2. new = [old EXCEPT !.checked = old.checked + 1, !.fresh = more]
    BY <1>1, <2>1
  <2>3. ImportTyped'
    BY ImportTypedStep DEF ImporterNext
  <2>4. new \in Import
    BY <2>3 DEF ImportTyped
  <2>5. importing' = [importing EXCEPT ![t] = new]
    BY <1>1, <2>1, <2>2
  <2>6. /\ new.at = "check" /\ new.groups = old.groups /\ new.prob = old.prob
        /\ new.file = old.file /\ new.checked = old.checked + 1 /\ new.fresh = more
    <3> HIDE DEF old, new, more
    <3> QED BY <1>1, <2>2 DEF Import
  <2> QED BY <1>3, <2>1, <2>4, <2>5, <2>6
<1> QED BY <1>2, <1>3

\* Once imports have overlapped, that stays.
LEMMA OverlapStays ==
  ASSUME [ImporterNext]_importerVars
  PROVE  beside \subseteq beside'
BY DEF ImporterNext, ImportFile, ReadProblem, CheckRecord, SaveGroup, SkipGroup,
       SaveFails, ImportEnds, SyncStores, SyncEnriches, Beside, importerVars

\* Where the rows stay and a thread leaves the comparing, nothing is to be shown.
LEMMA RowsStay ==
  ASSUME NEW t \in Importers, rows' = rows, ImportedCoded, NothingTwice,
         importing'[t].at # "check",
         \A u \in Importers : u # t => importing'[u] = importing[u] /\ ~Busy(u)'
  PROVE  ImportedCoded' /\ NothingTwice' /\ \A u \in Importers : InOrder(u)'
<1>1. Present' = Present
  BY DEF Present
<1>2. ImportedCoded' /\ NothingTwice'
  BY <1>1 DEF ImportedCoded, NothingTwice, Hash
<1>3. \A u \in Importers : InOrder(u)'
  BY DEF InOrder, Busy
<1> QED BY <1>2, <1>3

LEMMA ImportInvStep ==
  CodeGiven /\ ImportInv /\ [ImporterNext]_importerVars => ImportInv'
<1> SUFFICES ASSUME CodeGiven, ImportInv, [ImporterNext]_importerVars PROVE ImportInv'
  OBVIOUS
<1>1. ImportTyped /\ ImportTyped'
  BY ImportTypedStep DEF ImportInv
<1>2. SUFFICES ASSUME "import" \notin beside'
               PROVE  OneImport' /\ ImportedCoded' /\ NothingTwice'
                      /\ \A t \in Importers : InOrder(t)'
  BY <1>1 DEF ImportInv
<1>3. OneImport /\ ImportedCoded /\ NothingTwice /\ \A t \in Importers : InOrder(t)
  BY <1>2, OverlapStays DEF ImportInv
<1> DEFINE Goal == OneImport' /\ ImportedCoded' /\ NothingTwice'
                   /\ \A t \in Importers : InOrder(t)'
<1>4. ASSUME NEW t \in Importers, NEW f \in Files, ImportFile(t, f)
      PROVE  Goal
  <2> DEFINE i == [NotImporting EXCEPT !.at = "read", !.groups = f, !.file = f]
  <2>1. importing' = [importing EXCEPT ![t] = i] /\ rows' = rows
    BY <1>4 DEF ImportFile
  <2>2. \A u \in Importers : u # t => ~Busy(u)
    BY <1>2, <1>4 DEF ImportFile, Beside, Quiet, Busy
  <2>3. i.at = "read"
    BY DEF NotImporting
  <2> HIDE DEF i
  <2> QED BY <1>1, <1>3, <2>1, <2>2, <2>3, OneMoves, RowsStay
<1>5. ASSUME NEW t \in Importers, ReadProblem(t)
      PROVE  Goal
  <2> DEFINE K == {k \in Present : TitleSlug[rows[k].entry] = Slug(t)}
  <2>1. PICK list \in ListOf(K) :
          importing' = [importing EXCEPT ![t].at = "check", ![t].checked = 0,
               ![t].prob = list, ![t].fresh = <<>>, ![t].known = Slug(t) \in made]
    BY <1>5 DEF ReadProblem
  <2> DEFINE old == importing[t]
             i == [old EXCEPT !.at = "check", !.checked = 0, !.prob = list,
                              !.fresh = <<>>, !.known = Slug(t) \in made]
  <2>2. importing' = [importing EXCEPT ![t] = i] /\ rows' = rows
    BY ZenonT(30), <1>5, <2>1 DEF ReadProblem
  <2>3. \A u \in Importers : u # t => ~Busy(u)
    BY <1>3, <1>5 DEF OneImport, Busy, ReadProblem
  <2>4. i.prob = list /\ i.fresh = <<>>
    BY <1>1 DEF ImportTyped, Import
  <2> HIDE DEF i
  <2>5. /\ importing'[t] = i /\ OneImport'
        /\ \A u \in Importers : u # t => importing'[u] = importing[u] /\ ~Busy(u)'
    BY <1>1, <2>2, <2>3, OneMoves
  <2>6. \A j \in DOMAIN list : list[j].key \in K /\ list[j].row = rows[list[j].key]
    <3>1. K \subseteq Present /\ rows \in [Keys -> Row \cup {NoRow}]
      BY <1>1 DEF ImportTyped, ImporterTypeOK
    <3> HIDE DEF K
    <3> QED BY <3>1, RowsListed
  <2>7. InOrder(t)'
    <3>1. ReadKept(t)'
      BY <2>2, <2>4, <2>5, <2>6 DEF ReadKept, Present
    <3>2. FreshNew(t)'
      BY <2>4, <2>5 DEF FreshNew
    <3> QED BY <3>1, <3>2 DEF InOrder
  <2>8. \A u \in Importers : u # t => InOrder(u)'
    BY <2>5 DEF InOrder, Busy
  <2>9. ImportedCoded' /\ NothingTwice'
    BY <1>3, <2>2 DEF ImportedCoded, NothingTwice, Present, Hash
  <2> QED BY <2>5, <2>7, <2>8, <2>9
<1>6. ASSUME NEW t \in Importers, CheckRecord(t)
      PROVE  Goal
  <2> DEFINE old == importing[t]
             new == importing'[t]
             r == Group(t)[old.checked + 1]
             row == [entry |-> r.entry, code |-> r.code, owner |-> r.owner,
                     imported |-> TRUE]
  <2>1. /\ importing' = [importing EXCEPT ![t] = new]
        /\ new.prob = old.prob
        /\ \/ Duplicate(t, r) /\ new.fresh = old.fresh
           \/ /\ ~Duplicate(t, r)
              /\ \E key \in IF r.id # NoRow THEN {r.id} ELSE UnusedIds :
                    new.fresh = Append(old.fresh, [key |-> key, row |-> row])
    BY <1>1, <1>6, RecordCompared
  <2>2. \A u \in Importers : u # t => ~Busy(u)
    BY <1>3, <1>6 DEF OneImport, Busy, CheckRecord
  <2>3. rows' = rows
    BY <1>6 DEF CheckRecord
  <2>4. r.code = 1
    BY <1>1, <1>6, NextRecord
  <2>5. ReadKept(t) /\ FreshNew(t)
    BY <1>3, <1>6 DEF InOrder, CheckRecord
  <2>6. old.fresh \in Seq(KeyedRow)
    BY <1>1 DEF ImportTyped, ImporterTypeOK
  <2> HIDE DEF new
  <2>7. /\ new = importing'[t] /\ OneImport'
        /\ \A u \in Importers : u # t => importing'[u] = importing[u] /\ ~Busy(u)'
    BY <1>1, <2>1, <2>2, OneMoves
  <2>8. ReadKept(t)'
    <3>1. importing'[t].prob = importing[t].prob
      BY <2>1, <2>7
    <3> QED BY <2>3, <2>5, <3>1 DEF ReadKept
  <2>9. FreshNew(t)'
    <3>1. CASE new.fresh = old.fresh
      <4>1. importing'[t].fresh = importing[t].fresh
        BY <2>7, <3>1
      <4>2. rows' = rows
        BY <2>3
      <4> QED BY <2>5, <4>1, <4>2 DEF FreshNew, Present
    <3>2. ASSUME ~Duplicate(t, r),
                 NEW key, new.fresh = Append(old.fresh, [key |-> key, row |-> row])
          PROVE  FreshNew(t)'
      <4> DEFINE fresh == old.fresh
                 m == Len(fresh) + 1
      <4>1. /\ \A i \in DOMAIN fresh : Hash(fresh[i].row) # Hash(r)
            /\ \A k \in Present : Hash(rows[k]) # Hash(r)
        BY <3>2 DEF Duplicate, HashKnown
      <4>2. Hash(row) = Hash(r) /\ row.imported /\ row.code = 1
        BY <2>4 DEF Hash
      <4> HIDE DEF row
      <4>3. DOMAIN new.fresh = DOMAIN fresh \cup {m}
        BY <2>6, <3>2
      <4>4. \A i \in DOMAIN fresh : new.fresh[i] = fresh[i]
        BY <2>6, <3>2
      <4>5. new.fresh[m].row = row
        BY <2>6, <3>2
      <4> HIDE DEF fresh, m
      <4>6. ASSUME NEW i \in DOMAIN new.fresh
            PROVE  LET n == new.fresh[i] IN
                   /\ n.row.imported /\ n.row.code = 1
                   /\ \A k \in Present : rows[k].imported => Hash(rows[k]) # Hash(n.row)
        <5>1. CASE i \in DOMAIN fresh
          BY <2>5, <4>4, <5>1 DEF FreshNew, fresh
        <5>2. CASE i = m
          BY <4>1, <4>2, <4>5, <5>2
        <5> QED BY <4>3, <5>1, <5>2
      <4>7. ASSUME NEW i \in DOMAIN new.fresh, NEW j \in DOMAIN new.fresh,
                   Hash(new.fresh[i].row) = Hash(new.fresh[j].row)
            PROVE  i = j
        <5>1. CASE i \in DOMAIN fresh /\ j \in DOMAIN fresh
          BY <2>5, <4>4, <4>7, <5>1 DEF FreshNew, fresh
        <5>2. CASE i = m \/ j = m
          BY <4>1, <4>2, <4>3, <4>4, <4>5, <4>7, <5>2
        <5> QED BY <4>3, <5>1, <5>2
      <4> QED BY SMTT(30), <2>3, <2>7, <4>6, <4>7 DEF FreshNew, Present, Hash
    <3> HIDE DEF row
    <3> QED BY <2>1, <3>1, <3>2
  <2>10. \A u \in Importers : InOrder(u)'
    BY <2>7, <2>8, <2>9 DEF InOrder, Busy
  <2>11. ImportedCoded' /\ NothingTwice'
    BY <1>3, <2>3 DEF ImportedCoded, NothingTwice, Present, Hash
  <2> QED BY <2>7, <2>10, <2>11
<1>7. ASSUME NEW t \in Importers, NEW i, importing' = [importing EXCEPT ![t] = i],
             i.at # "check", Busy(t), rows' = rows
      PROVE  Goal
  <2>1. \A u \in Importers : u # t => ~Busy(u)
    BY <1>3, <1>7 DEF OneImport
  <2> QED BY <1>1, <1>3, <1>7, <2>1, OneMoves, RowsStay
<1>8. ASSUME NEW t \in Importers, NEW i, importing' = [importing EXCEPT ![t] = i],
             i.at # "check", importing[t].at = "check", NEW n \in 0..Len(Merged(t)),
             rows' = Upserted(SubSeq(Merged(t), 1, n))
      PROVE  Goal
  <2>1. \A u \in Importers : u # t => ~Busy(u)
    BY <1>3, <1>8 DEF OneImport, Busy
  <2>2. ReadKept(t) /\ FreshNew(t)
    BY <1>3, <1>8 DEF InOrder
  <2>3. ImportedCoded' /\ NothingTwice'
    BY <1>1, <1>3, <1>8, <2>2, SavedOnce
  <2>4. /\ importing'[t] = i /\ OneImport'
        /\ \A u \in Importers : u # t => importing'[u] = importing[u] /\ ~Busy(u)'
    BY <1>1, <1>8, <2>1, OneMoves
  <2>5. \A u \in Importers : InOrder(u)'
    BY <1>8, <2>4 DEF InOrder, Busy
  <2> QED BY <2>3, <2>4, <2>5
<1>9. ASSUME NEW t \in Importers, SaveGroup(t)
      PROVE  Goal
  <2> DEFINE i == [importing[t] EXCEPT !.at = "read", !.groups = Tail(@), !.prob = <<>>,
                                       !.fresh = <<>>]
  <2>1. importing' = [importing EXCEPT ![t] = i] /\ importing[t].at = "check"
    BY <1>9 DEF SaveGroup, GroupDone
  <2>2. i.at = "read"
    BY <1>1 DEF ImportTyped, Import
  <2>3. Merged(t) \in Seq(KeyedRow)
    BY <1>1 DEF ImportTyped, ImporterTypeOK, Merged
  <2>4. Len(Merged(t)) \in 0..Len(Merged(t)) /\ SubSeq(Merged(t), 1, Len(Merged(t))) = Merged(t)
    BY <2>3
  <2>5. rows' = Upserted(SubSeq(Merged(t), 1, Len(Merged(t))))
    BY <1>9, <2>4 DEF SaveGroup
  <2> HIDE DEF i
  <2> QED BY <1>8, <2>1, <2>2, <2>4, <2>5
<1>10. ASSUME NEW t \in Importers, SkipGroup(t)
       PROVE  Goal
  <2> DEFINE i == [importing[t] EXCEPT !.at = "read", !.groups = Tail(@), !.prob = <<>>]
  <2>1. importing' = [importing EXCEPT ![t] = i] /\ Busy(t) /\ rows' = rows
    BY <1>10 DEF SkipGroup, GroupDone, Busy
  <2>2. i.at = "read"
    BY <1>1 DEF ImportTyped, Import
  <2> HIDE DEF i
  <2> QED BY <1>7, <2>1, <2>2
<1>11. ASSUME NEW t \in Importers, SaveFails(t)
       PROVE  Goal
  <2>1. PICK n \in 0..Len(Merged(t)) : rows' = Upserted(SubSeq(Merged(t), 1, n))
    BY <1>11 DEF SaveFails
  <2>2. importing' = [importing EXCEPT ![t] = NotImporting] /\ importing[t].at = "check"
    BY <1>11 DEF SaveFails, GroupDone
  <2>3. NotImporting.at # "check"
    BY DEF NotImporting
  <2> QED BY <1>8, <2>1, <2>2, <2>3
<1>12. ASSUME NEW t \in Importers, ImportEnds(t)
       PROVE  Goal
  <2>1. importing' = [importing EXCEPT ![t] = NotImporting] /\ Busy(t) /\ rows' = rows
    BY <1>12 DEF ImportEnds, Busy
  <2>2. NotImporting.at # "check"
    BY DEF NotImporting
  <2> QED BY <1>7, <2>1, <2>2
<1>13. ASSUME NEW k \in Keys, NEW row \in Row, rows' = [rows EXCEPT ![k] = row],
              importing' = importing, ~row.imported,
              rows[k] # NoRow => ~rows[k].imported
       PROVE  Goal
  <2>0. rows \in [Keys -> Row \cup {NoRow}]
        /\ \A t \in Importers : importing[t].prob \in Seq(KeyedRow)
    BY <1>1 DEF ImportTyped, ImporterTypeOK
  <2>1. OneImport'
    BY <1>3, <1>13 DEF OneImport, Busy
  <2>2. rows'[k] = row /\ \A l \in Keys : l # k => rows'[l] = rows[l]
    BY <1>13, <2>0
  <2>3. \A l \in Present' : rows'[l].imported => l # k /\ l \in Present /\ rows'[l] = rows[l]
    BY <1>13, <2>2 DEF Present
  <2>4. ImportedCoded'
    BY <1>3, <2>3 DEF ImportedCoded
  <2>5. NothingTwice'
    BY <1>3, <2>3 DEF NothingTwice, Hash
  <2>6. ASSUME NEW t \in Importers, importing'[t].at = "check"
        PROVE  ReadKept(t)' /\ FreshNew(t)'
    <3>1. ReadKept(t) /\ FreshNew(t)
      BY <1>3, <1>13, <2>6 DEF InOrder
    <3>2. ReadKept(t)'
      <4> SUFFICES ASSUME NEW i \in DOMAIN importing[t].prob
                   PROVE  LET old == importing[t].prob[i] IN
                          /\ rows'[old.key] # NoRow
                          /\ rows'[old.key].imported = old.row.imported
                          /\ old.row.imported => rows'[old.key] = old.row
        BY <1>13 DEF ReadKept
      <4> DEFINE old == importing[t].prob[i]
      <4>1. old \in KeyedRow
        BY <2>0
      <4>2. /\ rows[old.key] # NoRow /\ rows[old.key].imported = old.row.imported
            /\ old.row.imported => rows[old.key] = old.row
        BY <3>1 DEF ReadKept
      <4>3. old.key \in Keys /\ row # NoRow /\ row.imported \in BOOLEAN
            /\ old.row.imported \in BOOLEAN
        BY <4>1, ImporterAssumption DEF KeyedRow, Row
      <4> HIDE DEF old
      <4>4. /\ rows'[old.key] # NoRow /\ rows'[old.key].imported = old.row.imported
            /\ old.row.imported => rows'[old.key] = old.row
        <5>1. CASE old.key = k
          BY <1>13, <2>2, <4>2, <4>3, <5>1
        <5>2. CASE old.key # k
          BY <2>2, <4>2, <4>3, <5>2
        <5> QED BY <5>1, <5>2
      <4> QED BY <4>4 DEF old
    <3>3. FreshNew(t)'
      BY <1>13, <2>3, <3>1 DEF FreshNew, Hash
    <3> QED BY <3>2, <3>3
  <2> QED BY <2>1, <2>4, <2>5, <2>6 DEF InOrder
<1>14. ASSUME NEW x \in ExternalIds, SyncStores(x)
       PROVE  Goal
  <2> DEFINE row == [entry |-> Named[x], code |-> 0, owner |-> Account, imported |-> FALSE]
  <2>1. Named[x] \in Entries /\ ResolvedId(x) \in Keys
    BY ImporterAssumption DEF ResolvedId, Keys
  <2>2. row \in Row /\ row.imported = FALSE
    BY <2>1 DEF Row
  <2>3. rows' = [rows EXCEPT ![ResolvedId(x)] = row] /\ importing' = importing
        /\ rows[ResolvedId(x)] = NoRow
    BY <1>14 DEF SyncStores
  <2> HIDE DEF row
  <2> QED BY <1>13, <2>1, <2>2, <2>3
<1>15. ASSUME NEW x \in ExternalIds, SyncEnriches(x)
       PROVE  Goal
  <2> DEFINE k == ResolvedId(x)
             row == [rows[k] EXCEPT !.code = 1]
  <2>1. k \in Keys
    BY DEF ResolvedId, Keys
  <2> HIDE DEF k
  <2>2. rows[k] # NoRow /\ rows[k].code = 0 /\ rows' = [rows EXCEPT ![k].code = 1]
        /\ importing' = importing
    BY <1>15 DEF SyncEnriches, k
  <2>3. rows[k] \in Row /\ k \in Present
    BY <1>1, <2>1, <2>2 DEF ImportTyped, ImporterTypeOK, Present
  <2>4. ~rows[k].imported
    BY <1>3, <2>2, <2>3 DEF ImportedCoded
  <2>5. row \in Row /\ ~row.imported
    BY <2>3, <2>4 DEF Row
  <2>6. rows' = [rows EXCEPT ![k] = row]
    BY <2>2
  <2> HIDE DEF row
  <2> QED BY <1>13, <2>1, <2>2, <2>4, <2>5, <2>6
<1>16. CASE UNCHANGED importerVars
  <2>1. rows' = rows /\ importing' = importing
    BY <1>16 DEF importerVars
  <2>2. OneImport' <=> OneImport
    BY <2>1 DEF OneImport, Busy
  <2>3. ImportedCoded' <=> ImportedCoded
    BY <2>1 DEF ImportedCoded, Present
  <2>4. NothingTwice' <=> NothingTwice
    BY <2>1 DEF NothingTwice, Present
  <2>5. \A t \in Importers : InOrder(t)' <=> InOrder(t)
    BY <2>1 DEF InOrder, ReadKept, FreshNew, Present
  <2> QED BY <1>3, <2>2, <2>3, <2>4, <2>5
<1> QED BY <1>4, <1>5, <1>6, <1>9, <1>10, <1>11, <1>12, <1>14, <1>15, <1>16
        DEF ImporterNext

LEMMA ImportInvInit == ImporterInit => ImportInv
<1> SUFFICES ASSUME ImporterInit PROVE ImportInv
  OBVIOUS
<1>1. ImportTyped
  BY ImportTypedInit
<1>2. \A t \in Importers : importing[t].at = "idle"
  BY DEF ImporterInit, NotImporting
<1>3. Present = {}
  BY DEF ImporterInit, Present
<1> QED BY <1>1, <1>2, <1>3
        DEF ImportInv, OneImport, Busy, ImportedCoded, NothingTwice, InOrder

\* A list of rows read or to be saved, with the right row under each of LeetCode's ids.
LEMMA IdsNamedStep ==
  CodeGiven /\ ImportInv /\ IdsNamed /\ [ImporterNext]_importerVars => IdsNamed'
<1> SUFFICES ASSUME CodeGiven, ImportInv, IdsNamed, [ImporterNext]_importerVars
             PROVE  IdsNamed'
  OBVIOUS
<1>1. ImportTyped /\ rows \in [Keys -> Row \cup {NoRow}]
      /\ importing \in [Importers -> Import]
  BY DEF ImportInv, ImportTyped, ImporterTypeOK
<1> DEFINE IdsRight(r) == \A id \in ExternalIds : r[id] # NoRow => r[id].entry = Named[id]
           ListRight(s) == \A i \in DOMAIN s : NamedRow(s[i])
<1>2. IdsRight(rows) /\ \A t \in Importers : ListRight(importing[t].prob)
                                             /\ ListRight(importing[t].fresh)
  BY DEF IdsNamed
<1>3. ExternalIds \subseteq Keys
  BY DEF Keys
<1>4. ListRight(<<>>)
  OBVIOUS
<1> HIDE DEF IdsRight, ListRight
<1>5. ASSUME NEW t \in Importers, NEW i, importing' = [importing EXCEPT ![t] = i],
             ListRight(i.prob), ListRight(i.fresh), IdsRight(rows')
      PROVE  IdsNamed'
  <2>1. \A u \in Importers : importing'[u] = IF u = t THEN i ELSE importing[u]
    BY <1>1, <1>5
  <2>2. \A u \in Importers : ListRight(importing'[u].prob) /\ ListRight(importing'[u].fresh)
    BY <1>2, <1>5, <2>1
  <2> QED BY <1>5, <2>2 DEF IdsNamed, IdsRight, ListRight, NamedRow
<1>6. ASSUME NEW t \in Importers, NEW n \in 0..Len(Merged(t)),
             rows' = Upserted(SubSeq(Merged(t), 1, n))
      PROVE  IdsRight(rows')
  <2>1. ASSUME NEW id \in ExternalIds, rows'[id] # NoRow
        PROVE  rows'[id].entry = Named[id]
    <3>1. \/ rows'[id] = rows[id]
          \/ \E i \in DOMAIN importing[t].prob :
               importing[t].prob[i].key = id /\ rows'[id] = importing[t].prob[i].row
          \/ \E i \in DOMAIN importing[t].fresh :
               importing[t].fresh[i].key = id /\ rows'[id] = importing[t].fresh[i].row
      BY <1>1, <1>3, <1>6, SavedRows
    <3> QED BY <1>2, <2>1, <3>1 DEF IdsRight, ListRight, NamedRow
  <2> QED BY <2>1 DEF IdsRight
<1>7. NotImporting.prob = <<>> /\ NotImporting.fresh = <<>>
  BY DEF NotImporting
<1>8. ASSUME NEW t \in Importers, NEW f \in Files, ImportFile(t, f)
      PROVE  IdsNamed'
  <2> DEFINE i == [NotImporting EXCEPT !.at = "read", !.groups = f, !.file = f]
  <2>1. importing' = [importing EXCEPT ![t] = i] /\ rows' = rows
    BY <1>8 DEF ImportFile
  <2>2. i.prob = <<>> /\ i.fresh = <<>>
    BY DEF NotImporting
  <2> HIDE DEF i
  <2> QED BY <1>2, <1>4, <1>5, <2>1, <2>2
<1>9. ASSUME NEW t \in Importers, ReadProblem(t)
      PROVE  IdsNamed'
  <2> DEFINE K == {k \in Present : TitleSlug[rows[k].entry] = Slug(t)}
  <2>1. PICK list \in ListOf(K) :
          importing' = [importing EXCEPT ![t].at = "check", ![t].checked = 0,
               ![t].prob = list, ![t].fresh = <<>>, ![t].known = Slug(t) \in made]
    BY <1>9 DEF ReadProblem
  <2> DEFINE i == [importing[t] EXCEPT !.at = "check", !.checked = 0, !.prob = list,
                                       !.fresh = <<>>, !.known = Slug(t) \in made]
  <2>2. importing' = [importing EXCEPT ![t] = i] /\ rows' = rows
    BY ZenonT(30), <1>9, <2>1 DEF ReadProblem
  <2>3. i.prob = list /\ i.fresh = <<>>
    BY <1>1 DEF Import
  <2>4. \A j \in DOMAIN list : list[j].key \in K /\ list[j].row = rows[list[j].key]
    <3>1. K \subseteq Present
      OBVIOUS
    <3> HIDE DEF K
    <3> QED BY <1>1, <3>1, RowsListed
  <2>5. ListRight(list)
    <3>1. \A j \in DOMAIN list : rows[list[j].key] # NoRow
      BY <2>4 DEF Present
    <3> QED BY <1>2, <2>4, <3>1 DEF ListRight, NamedRow, IdsRight
  <2> HIDE DEF i
  <2> QED BY <1>2, <1>4, <1>5, <2>2, <2>3, <2>5
<1>10. ASSUME NEW t \in Importers, CheckRecord(t)
       PROVE  IdsNamed'
  <2> DEFINE old == importing[t]
             new == importing'[t]
             r == Group(t)[old.checked + 1]
             row == [entry |-> r.entry, code |-> r.code, owner |-> r.owner,
                     imported |-> TRUE]
  <2>1. /\ importing' = [importing EXCEPT ![t] = new]
        /\ new.prob = old.prob
        /\ \/ Duplicate(t, r) /\ new.fresh = old.fresh
           \/ /\ ~Duplicate(t, r)
              /\ \E key \in IF r.id # NoRow THEN {r.id} ELSE UnusedIds :
                    new.fresh = Append(old.fresh, [key |-> key, row |-> row])
    BY <1>1, <1>10, RecordCompared
  <2>2. r.id # NoRow => Named[r.id] = r.entry
    BY <1>1, <1>10, NextRecord
  <2>3. rows' = rows /\ old.fresh \in Seq(KeyedRow)
    BY <1>1, <1>10 DEF CheckRecord, Import
  <2> HIDE DEF new
  <2>4. CASE new.fresh = old.fresh
    BY <1>2, <1>5, <2>1, <2>3, <2>4
  <2>5. ASSUME NEW key \in IF r.id # NoRow THEN {r.id} ELSE UnusedIds,
               new.fresh = Append(old.fresh, [key |-> key, row |-> row])
        PROVE  IdsNamed'
    <3> DEFINE added == [key |-> key, row |-> row]
    <3>1. NamedRow(added)
      <4>1. CASE r.id # NoRow
        BY <2>2, <2>5, <4>1 DEF NamedRow
      <4>2. CASE r.id = NoRow
        <5>1. key \in NewIds
          BY <2>5, <4>2 DEF UnusedIds
        <5> QED BY <5>1, ImporterAssumption DEF NamedRow
      <4> QED BY <4>1, <4>2
    <3> HIDE DEF added
    <3>2. ASSUME NEW i \in DOMAIN new.fresh PROVE NamedRow(new.fresh[i])
      <4>1. CASE i \in DOMAIN old.fresh
        <5>1. new.fresh[i] = old.fresh[i]
          BY <2>3, <2>5, <4>1
        <5> QED BY <1>2, <4>1, <5>1 DEF ListRight
      <4>2. CASE i \notin DOMAIN old.fresh
        <5>1. new.fresh[i] = added
          BY <2>3, <2>5, <4>2 DEF added
        <5> QED BY <3>1, <5>1
      <4> QED BY <4>1, <4>2
    <3>3. ListRight(new.fresh)
      BY <3>2 DEF ListRight
    <3> QED BY <1>2, <1>5, <2>1, <2>3, <3>3
  <2> HIDE DEF row, r
  <2> QED BY <2>1, <2>4, <2>5
<1>11. ASSUME NEW t \in Importers, SaveGroup(t)
       PROVE  IdsNamed'
  <2> DEFINE i == [importing[t] EXCEPT !.at = "read", !.groups = Tail(@), !.prob = <<>>,
                                       !.fresh = <<>>]
  <2>1. importing' = [importing EXCEPT ![t] = i]
    BY <1>11 DEF SaveGroup
  <2>2. i.prob = <<>> /\ i.fresh = <<>>
    BY <1>1 DEF Import
  <2>3. Merged(t) \in Seq(KeyedRow)
    BY <1>1 DEF Import, Merged
  <2>4. Len(Merged(t)) \in 0..Len(Merged(t)) /\ SubSeq(Merged(t), 1, Len(Merged(t))) = Merged(t)
    BY <2>3
  <2>5. IdsRight(rows')
    BY <1>6, <1>11, <2>4 DEF SaveGroup
  <2> HIDE DEF i
  <2> QED BY <1>4, <1>5, <2>1, <2>2, <2>5
<1>12. ASSUME NEW t \in Importers, SkipGroup(t)
       PROVE  IdsNamed'
  <2> DEFINE i == [importing[t] EXCEPT !.at = "read", !.groups = Tail(@), !.prob = <<>>]
  <2>1. importing' = [importing EXCEPT ![t] = i] /\ rows' = rows
    BY <1>12 DEF SkipGroup
  <2>2. i.prob = <<>> /\ i.fresh = importing[t].fresh
    BY <1>1 DEF Import
  <2> HIDE DEF i
  <2> QED BY <1>2, <1>4, <1>5, <2>1, <2>2
<1>13. ASSUME NEW t \in Importers, SaveFails(t)
       PROVE  IdsNamed'
  <2>1. importing' = [importing EXCEPT ![t] = NotImporting] /\ IdsRight(rows')
    BY <1>6, <1>13 DEF SaveFails
  <2> QED BY <1>4, <1>5, <1>7, <2>1
<1>14. ASSUME NEW t \in Importers, ImportEnds(t)
       PROVE  IdsNamed'
  <2>1. importing' = [importing EXCEPT ![t] = NotImporting] /\ rows' = rows
    BY <1>14 DEF ImportEnds
  <2> QED BY <1>2, <1>4, <1>5, <1>7, <2>1
<1>15. ASSUME importing' = importing, IdsRight(rows') PROVE IdsNamed'
  BY <1>2, <1>15 DEF IdsNamed, IdsRight, ListRight, NamedRow
<1>16. ASSUME NEW x \in ExternalIds, SyncStores(x)
       PROVE  IdsNamed'
  <2> DEFINE row == [entry |-> Named[x], code |-> 0, owner |-> Account, imported |-> FALSE]
  <2>1. rows' = [rows EXCEPT ![ResolvedId(x)] = row] /\ importing' = importing
    BY <1>16 DEF SyncStores
  <2>2. ResolvedId(x) \in ExternalIds => ResolvedId(x) = x
    BY ImporterAssumption DEF ResolvedId
  <2>3. row.entry = Named[x]
    OBVIOUS
  <2> HIDE DEF row
  <2>4. IdsRight(rows')
    BY <1>1, <1>2, <1>3, <2>1, <2>2, <2>3 DEF IdsRight
  <2> QED BY <1>15, <2>1, <2>4
<1>17. ASSUME NEW x \in ExternalIds, SyncEnriches(x)
       PROVE  IdsNamed'
  <2> DEFINE k == ResolvedId(x)
             row == [rows[k] EXCEPT !.code = 1]
  <2>1. k \in Keys
    BY DEF ResolvedId, Keys
  <2> HIDE DEF k
  <2>2. rows[k] \in Row /\ rows' = [rows EXCEPT ![k] = row] /\ importing' = importing
    BY <1>1, <1>17, <2>1 DEF SyncEnriches, k
  <2>3. row.entry = rows[k].entry /\ rows[k] # NoRow
    BY <2>2, ImporterAssumption DEF Row
  <2> HIDE DEF row
  <2>4. IdsRight(rows')
    BY <1>1, <1>2, <1>3, <2>2, <2>3 DEF IdsRight
  <2> QED BY <1>15, <2>2, <2>4
<1>18. CASE UNCHANGED importerVars
  BY <1>2, <1>15, <1>18 DEF importerVars
<1> QED BY <1>8, <1>9, <1>10, <1>11, <1>12, <1>13, <1>14, <1>16, <1>17, <1>18
        DEF ImporterNext

\* A save overwrites no row that has its code, so what is known stays so.
LEMMA CodedRowsStay ==
  ASSUME NEW t \in Importers, ImportTyped, ReadWhole(t), FreshApart(t),
         rows' = Upserted(Merged(t))
  PROVE  \A r \in Record : r.code = 1 /\ Known(r) => KnownIn(rows', r)
<1> DEFINE n == Len(Merged(t))
<1>1. Merged(t) \in Seq(KeyedRow)
  BY DEF ImportTyped, Import, Merged
<1>2. n \in 0..Len(Merged(t)) /\ SubSeq(Merged(t), 1, n) = Merged(t)
  BY <1>1
<1> HIDE DEF n
<1>0. rows' = Upserted(SubSeq(Merged(t), 1, n))
  BY <1>2
<1>3. ASSUME NEW k \in Present, rows[k].code = 1
      PROVE  k \in Present' /\ rows'[k] = rows[k]
  <2>1. k \in Keys /\ rows[k] # NoRow
    BY DEF Present
  <2>2. \/ rows'[k] = rows[k]
        \/ \E i \in DOMAIN importing[t].prob :
             importing[t].prob[i].key = k /\ rows'[k] = importing[t].prob[i].row
        \/ \E i \in DOMAIN importing[t].fresh : importing[t].fresh[i].key = k
    BY <1>0, <1>2, <2>1, SavedRows
  <2>3. \A i \in DOMAIN importing[t].fresh : importing[t].fresh[i].key # k
    BY <1>3, <2>1 DEF FreshApart
  <2>4. rows'[k] = rows[k]
    BY <2>2, <2>3 DEF ReadWhole
  <2> QED BY <2>1, <2>4 DEF Present
<1>4. ASSUME NEW r \in Record, r.code = 1, Known(r) PROVE KnownIn(rows', r)
  <2>1. CASE \E k \in Keys : rows[k] # NoRow /\ Hash(rows[k]) = Hash(r)
    <3>1. PICK k \in Present : Hash(rows[k]) = Hash(r)
      BY <2>1 DEF Present
    <3>2. rows[k].code = 1
      BY <1>4, <3>1 DEF Hash
    <3>3. k \in Present' /\ rows'[k] = rows[k]
      BY <1>3, <3>2
    <3> QED BY <3>1, <3>3 DEF KnownIn, Present, Hash
  <2>2. CASE r.id # NoRow /\ rows[r.id] # NoRow /\ rows[r.id].code = r.code
    <3>1. r.id \in Present
      BY <2>2 DEF Present, Record, Keys
    <3>2. r.id \in Present' /\ rows'[r.id] = rows[r.id]
      BY <1>3, <1>4, <2>2, <3>1
    <3> QED BY <2>2, <3>2 DEF KnownIn, Present
  <2> QED BY <1>4, <2>1, <2>2 DEF Known, KnownIn
<1> QED BY <1>4

\* Every new row is there after the save.
LEMMA FreshStored ==
  ASSUME NEW t \in Importers, ImportTyped, FreshApart(t), rows' = Upserted(Merged(t)),
         NEW i \in DOMAIN importing[t].fresh
  PROVE  \E k \in Present' : Hash(rows'[k]) = Hash(importing[t].fresh[i].row)
<1> DEFINE n == importing[t].fresh[i]
<1>1. n \in KeyedRow
  BY DEF ImportTyped, ImporterTypeOK
<1>2. n.key \in Keys /\ n.row # NoRow
  BY <1>1, ImporterAssumption DEF KeyedRow
<1>3. rows'[n.key] = n.row
  BY SavedFresh DEF FreshApart
<1> QED BY <1>2, <1>3 DEF Present

LEMMA AllKeptStep ==
  /\ CodeGiven /\ ImportInv /\ IdsNamed /\ AllKept /\ [ImporterNext]_importerVars
  => AllKept'
<1> SUFFICES ASSUME CodeGiven, ImportInv, IdsNamed, AllKept,
                    [ImporterNext]_importerVars, beside' = {}
             PROVE  /\ \A r \in reported' : KnownIn(rows', r) /\ r.code = 1
                    /\ \A t \in Importers : Busy(t)' =>
                         /\ reported' = {}
                         /\ PartKept(importing[t])'
                         /\ importing'[t].at = "check" =>
                              /\ ReadWhole(t)' /\ FreshApart(t)'
                              /\ FreshKnown(t, importing[t].checked)'
  BY DEF AllKept, Known
<1> DEFINE GoalOf(t) ==
             Busy(t)' =>
                /\ reported' = {}
                /\ PartKept(importing[t])'
                /\ importing'[t].at = "check" =>
                     /\ ReadWhole(t)' /\ FreshApart(t)'
                     /\ FreshKnown(t, importing[t].checked)'
           Goal == (\A r \in reported' : KnownIn(rows', r) /\ r.code = 1)
                   /\ \A t \in Importers : GoalOf(t)
<1>1. beside = {}
  BY OverlapStays
<1>2. /\ ImportTyped /\ OneImport /\ rows \in [Keys -> Row \cup {NoRow}]
      /\ importing \in [Importers -> Import] /\ reported \subseteq Record
  BY <1>1 DEF ImportInv, ImportTyped, ImporterTypeOK
<1>3. \A r \in reported : Known(r) /\ r.code = 1
  BY <1>1 DEF AllKept
<1>4. \A t \in Importers : Busy(t) =>
         /\ reported = {}
         /\ PartKept(importing[t])
         /\ importing[t].at = "check" =>
              ReadWhole(t) /\ FreshApart(t) /\ FreshKnown(t, importing[t].checked)
  BY <1>1 DEF AllKept
<1> HIDE DEF GoalOf
<1>5. ASSUME NEW t \in Importers, NEW i, importing' = [importing EXCEPT ![t] = i],
             \A u \in Importers : u # t => ~Busy(u), GoalOf(t), reported' = {}
      PROVE  Goal
  <2>1. \A u \in Importers : u # t => GoalOf(u)
    BY <1>2, <1>5, OneMoves DEF GoalOf
  <2> QED BY <1>5, <2>1
<1>6. \A t \in Importers : Busy(t) => \A u \in Importers : u # t => ~Busy(u)
  BY <1>2 DEF OneImport
<1>7. ASSUME rows' = rows PROVE Present' = Present /\ \A r : KnownIn(rows', r) <=> Known(r)
  BY <1>7 DEF Present, Known
<1>8. ASSUME NEW t \in Importers, NEW f \in Files, ImportFile(t, f)
      PROVE  Goal
  <2> DEFINE i == [NotImporting EXCEPT !.at = "read", !.groups = f, !.file = f]
  <2>1. importing' = [importing EXCEPT ![t] = i] /\ reported' = {}
    BY <1>8 DEF ImportFile
  <2>2. \A u \in Importers : u # t => ~Busy(u)
    BY <1>8 DEF ImportFile, Beside, Quiet, Busy
  <2>3. i.at = "read" /\ i.groups = f /\ i.file = f
    BY DEF NotImporting
  <2> HIDE DEF i
  <2>4. importing'[t] = i
    BY <1>2, <2>1, <2>2, OneMoves
  <2>5. Len(f) - Len(f) = 0
    <3>1. Len(f) \in Nat
      BY FilesTyped
    <3> QED BY <3>1
  <2>6. PartKept(importing[t])'
    <3>1. KeptIn(rows', i)
      BY <2>3, <2>5 DEF KeptIn
    <3> QED BY <2>4, <3>1 DEF PartKept
  <2>7. GoalOf(t)
    BY <2>1, <2>3, <2>4, <2>6 DEF GoalOf
  <2> QED BY <1>5, <2>1, <2>2, <2>7
<1>9. ASSUME NEW t \in Importers, ReadProblem(t)
      PROVE  Goal
  <2> DEFINE K == {k \in Present : TitleSlug[rows[k].entry] = Slug(t)}
  <2>1. PICK list \in ListOf(K) :
          importing' = [importing EXCEPT ![t].at = "check", ![t].checked = 0,
               ![t].prob = list, ![t].fresh = <<>>, ![t].known = Slug(t) \in made]
    BY <1>9 DEF ReadProblem
  <2> DEFINE old == importing[t]
             i == [old EXCEPT !.at = "check", !.checked = 0, !.prob = list,
                              !.fresh = <<>>, !.known = Slug(t) \in made]
  <2>2. importing' = [importing EXCEPT ![t] = i] /\ rows' = rows /\ reported' = reported
        /\ Busy(t)
    BY ZenonT(30), <1>9, <2>1 DEF ReadProblem, Busy
  <2>3. /\ i.prob = list /\ i.fresh = <<>> /\ i.groups = old.groups /\ i.file = old.file
        /\ i.checked = 0
    BY <1>2 DEF Import
  <2> HIDE DEF i
  <2>4. importing'[t] = i /\ reported' = {}
    BY <1>2, <1>4, <1>6, <2>2, OneMoves
  <2>5. /\ \A j \in DOMAIN list : list[j].key \in K /\ list[j].row = rows[list[j].key]
        /\ \A k \in K : \E j \in DOMAIN list : list[j].key = k
    <3>1. K \subseteq Present
      OBVIOUS
    <3> HIDE DEF K
    <3> QED BY <1>2, <3>1, RowsListed
  <2>6. Slug(t)' = Slug(t)
    BY <2>3, <2>4 DEF Slug, Group
  <2>7. ReadWhole(t)'
    <3>1. \A j \in DOMAIN list : rows[list[j].key] # NoRow
      BY <2>5 DEF Present
    <3>2. \A k \in Present' : TitleSlug[rows'[k].entry] = Slug(t)' => k \in K
      BY <1>7, <2>2, <2>6
    <3> QED BY <2>2, <2>3, <2>4, <2>5, <3>1, <3>2 DEF ReadWhole
  <2>8. FreshApart(t)'
    BY <2>3, <2>4 DEF FreshApart
  <2>9. FreshKnown(t, importing[t].checked)'
    BY <2>3, <2>4 DEF FreshKnown
  <2>10. PartKept(importing[t])'
    BY <1>4, <1>7, <2>2, <2>3, <2>4 DEF PartKept, KeptIn, Known
  <2>11. GoalOf(t)
    BY <2>4, <2>7, <2>8, <2>9, <2>10 DEF GoalOf
  <2> QED BY <1>5, <1>6, <2>2, <2>4, <2>11
<1>10. ASSUME NEW t \in Importers, CheckRecord(t)
       PROVE  Goal
  <2> DEFINE old == importing[t]
             new == importing'[t]
             c == old.checked
             r == Group(t)[c + 1]
             row == [entry |-> r.entry, code |-> r.code, owner |-> r.owner,
                     imported |-> TRUE]
  <2>1. /\ importing' = [importing EXCEPT ![t] = new]
        /\ new.groups = old.groups /\ new.prob = old.prob
        /\ new.file = old.file /\ new.checked = c + 1
        /\ \/ Duplicate(t, r) /\ new.fresh = old.fresh
           \/ /\ ~Duplicate(t, r)
              /\ \E key \in IF r.id # NoRow THEN {r.id} ELSE UnusedIds :
                    new.fresh = Append(old.fresh, [key |-> key, row |-> row])
    BY <1>2, <1>10, RecordCompared
  <2>2. /\ c + 1 \in 1..Len(Group(t)) /\ c \in Nat /\ r \in Record /\ r.code = 1
        /\ r.id # NoRow => Named[r.id] = r.entry
        /\ TitleSlug[r.entry] = Slug(t)
        /\ \A j \in 1..Len(Group(t)) : Group(t)[j].id = r.id /\ r.id # NoRow => j = c + 1
    BY <1>2, <1>10, NextRecord
  <2>3. rows' = rows /\ reported' = reported /\ Busy(t) /\ old.at = "check"
    BY <1>10 DEF CheckRecord, Busy
  <2>4. /\ reported = {} /\ PartKept(old) /\ ReadWhole(t) /\ FreshApart(t)
        /\ FreshKnown(t, c)
    BY <1>4, <2>3
  <2>5. /\ old.fresh \in Seq(KeyedRow) /\ old.prob \in Seq(KeyedRow)
    BY <1>2 DEF Import
  <2>6. Group(t)' = Group(t) /\ Slug(t)' = Slug(t)
    BY <2>1 DEF Group, Slug
  <2>7. PartKept(importing[t])'
    BY <1>7, <2>1, <2>3, <2>4 DEF PartKept, KeptIn, Known
  <2>8. ReadWhole(t)'
    <3>1. importing'[t].prob = importing[t].prob
      BY <2>1
    <3> QED BY <1>7, <2>3, <2>4, <2>6, <3>1 DEF ReadWhole
  <2> HIDE DEF new, c, r
  <2>9. FreshApart(t)' /\ FreshKnown(t, importing[t].checked)'
    <3>1. CASE Duplicate(t, r) /\ new.fresh = old.fresh
      <4>1. Known(r) \/ \E i \in DOMAIN old.fresh : Hash(old.fresh[i].row) = Hash(r)
        <5>1. CASE \E i \in DOMAIN old.prob : Hash(old.prob[i].row) = Hash(r)
          <6>1. PICK i \in DOMAIN old.prob : Hash(old.prob[i].row) = Hash(r)
            BY <5>1
          <6>2. old.prob[i] \in KeyedRow
            BY <2>5
          <6>3. old.prob[i].key \in Present /\ rows[old.prob[i].key] = old.prob[i].row
            BY <2>4, <6>2 DEF ReadWhole, Present, KeyedRow
          <6> QED BY <6>1, <6>3 DEF Known, KnownIn, Present
        <5>2. CASE IdKnown(t, r)
          <6>1. PICK i \in DOMAIN old.prob :
                  old.prob[i].key = r.id /\ old.prob[i].row.code = r.code
            BY <5>2 DEF IdKnown
          <6>2. old.prob[i] \in KeyedRow
            BY <2>5
          <6>3. r.id # NoRow
            BY <6>1, <6>2, ImporterAssumption DEF KeyedRow
          <6> QED BY <2>4, <6>1, <6>3 DEF Known, KnownIn, ReadWhole
        <5>3. CASE \E k \in Present : Hash(rows[k]) = Hash(r)
          BY <5>3 DEF Known, KnownIn, Present
        <5> QED BY <3>1, <5>1, <5>2, <5>3 DEF Duplicate, HashKnown
      <4>2. importing'[t].fresh = importing[t].fresh
        BY <3>1 DEF new
      <4>3. FreshApart(t)'
        <5>1. importing'[t].checked = importing[t].checked + 1 /\ importing[t].checked \in Nat
          BY <2>1, <2>2 DEF new, c
        <5>2. \A j \in 1..importing[t].checked : j \in 1..importing'[t].checked
          BY <5>1
        <5> QED BY <2>3, <2>4, <2>6, <4>2, <5>2 DEF FreshApart
      <4>4. FreshKnown(t, importing[t].checked)'
        <5>1. \A j \in 1..(c + 1) :
                 \/ Known(Group(t)[j])
                 \/ \E i \in DOMAIN importing[t].fresh :
                      Hash(importing[t].fresh[i].row) = Hash(Group(t)[j])
          <6> TAKE j \in 1..(c + 1)
          <6>1. CASE j \in 1..c
            BY <2>4, <6>1 DEF FreshKnown
          <6>2. CASE j = c + 1
            BY <4>1, <6>2 DEF r
          <6> QED BY <2>2, <6>1, <6>2
        <5>2. \A j : Known(Group(t)[j])' <=> Known(Group(t)[j])
          BY <2>3, <2>6 DEF Known
        <5>3. importing'[t].checked = c + 1
          BY <2>1 DEF new
        <5> QED BY <2>6, <4>2, <5>1, <5>2, <5>3 DEF FreshKnown, Hash
      <4> QED BY <4>3, <4>4
    <3>2. ASSUME ~Duplicate(t, r),
                 NEW key \in IF r.id # NoRow THEN {r.id} ELSE UnusedIds,
                 new.fresh = Append(old.fresh, [key |-> key, row |-> row])
          PROVE  FreshApart(t)' /\ FreshKnown(t, importing[t].checked)'
      <4> DEFINE fresh == old.fresh
                 m == Len(fresh) + 1
                 added == [key |-> key, row |-> row]
      <4>1. Hash(row) = Hash(r) /\ added.key = key /\ added.row = row
        BY DEF Hash
      <4>2. rows[key] = NoRow \/ rows[key].code = 0
        <5>1. CASE r.id # NoRow
          <6>1. key = r.id /\ key \in ExternalIds
            BY <2>2, <3>2, <5>1 DEF Record
          <6>2. SUFFICES ASSUME rows[key] # NoRow PROVE rows[key].code = 0
            OBVIOUS
          <6>3. key \in Present /\ rows[key] \in Row
            BY <1>2, <6>1, <6>2 DEF Present, Keys
          <6>4. rows[key].entry = r.entry
            BY <2>2, <5>1, <6>1, <6>2 DEF IdsNamed
          <6>5. PICK i \in DOMAIN old.prob : old.prob[i].key = key
            BY <2>2, <2>4, <6>3, <6>4 DEF ReadWhole
          <6>6. old.prob[i].row = rows[key]
            BY <2>4, <6>5 DEF ReadWhole
          <6>7. rows[key].code # 1
            BY <2>2, <3>2, <6>1, <6>5, <6>6 DEF Duplicate, IdKnown
          <6> QED BY <6>3, <6>7 DEF Row
        <5>2. CASE r.id = NoRow
          BY <3>2, <5>2 DEF UnusedIds, Present, Keys
        <5> QED BY <5>1, <5>2
      <4>3. key \in ExternalIds => r.id = key /\ r.id # NoRow
        <5>1. CASE r.id # NoRow
          BY <3>2, <5>1
        <5>2. CASE r.id = NoRow
          BY <3>2, <5>2, ImporterAssumption DEF UnusedIds
        <5> QED BY <5>1, <5>2
      <4>4. \A i \in DOMAIN fresh : fresh[i].key # key
        <5>1. CASE r.id # NoRow
          <6> SUFFICES ASSUME NEW i \in DOMAIN fresh, fresh[i].key = key PROVE FALSE
            OBVIOUS
          <6>1. key \in ExternalIds /\ key = r.id
            BY <2>2, <3>2, <5>1 DEF Record
          <6>2. PICK j \in 1..c : Group(t)[j].id = r.id
            BY <2>4, <6>1 DEF FreshApart, c
          <6>3. j \in 1..Len(Group(t)) /\ j # c + 1
            BY <2>2, <6>2
          <6> QED BY <2>2, <5>1, <6>2, <6>3
        <5>2. CASE r.id = NoRow
          BY <3>2, <5>2 DEF UnusedIds
        <5> QED BY <5>1, <5>2
      <4> HIDE DEF row, added
      <4>5. DOMAIN new.fresh = DOMAIN fresh \cup {m}
        BY <2>5, <3>2
      <4>6. \A i \in DOMAIN fresh : new.fresh[i] = fresh[i]
        BY <2>5, <3>2
      <4>7. new.fresh[m] = added
        BY <2>5, <3>2 DEF added
      <4>8. new.checked = c + 1
        BY <2>1
      <4> HIDE DEF fresh, m
      <4>9. ASSUME NEW i \in DOMAIN new.fresh
            PROVE  LET n == new.fresh[i] IN
                   /\ rows[n.key] = NoRow \/ rows[n.key].code = 0
                   /\ n.key \in ExternalIds => \E j \in 1..(c + 1) : Group(t)[j].id = n.key
        <5>1. CASE i \in DOMAIN fresh
          <6>1. /\ rows[fresh[i].key] = NoRow \/ rows[fresh[i].key].code = 0
                /\ fresh[i].key \in ExternalIds =>
                      \E j \in 1..c : Group(t)[j].id = fresh[i].key
            BY <2>4, <5>1 DEF FreshApart, fresh, c
          <6>2. \A j \in 1..c : j \in 1..(c + 1)
            BY <2>2
          <6> QED BY <4>6, <5>1, <6>1, <6>2
        <5>2. CASE i = m
          <6>1. c + 1 \in 1..(c + 1)
            BY <2>2
          <6>2. Group(t)[c + 1] = r
            BY DEF r
          <6> QED BY <4>1, <4>2, <4>3, <4>7, <5>2, <6>1, <6>2
        <5> QED BY <4>5, <5>1, <5>2
      <4>10. ASSUME NEW i \in DOMAIN new.fresh, NEW j \in DOMAIN new.fresh,
                    new.fresh[i].key = new.fresh[j].key
             PROVE  i = j
        <5>1. CASE i \in DOMAIN fresh /\ j \in DOMAIN fresh
          BY <2>4, <4>6, <4>10, <5>1 DEF FreshApart, fresh
        <5>2. CASE i = m \/ j = m
          BY <4>1, <4>4, <4>5, <4>6, <4>7, <4>10, <5>2
        <5> QED BY <4>5, <5>1, <5>2
      <4>11. FreshApart(t)'
        BY <2>3, <2>6, <4>8, <4>9, <4>10 DEF FreshApart, new
      <4>12. \A j \in 1..(c + 1) :
                 \/ Known(Group(t)[j])
                 \/ \E i \in DOMAIN new.fresh : Hash(new.fresh[i].row) = Hash(Group(t)[j])
        <5> TAKE j \in 1..(c + 1)
        <5>1. CASE j \in 1..c
          BY <2>4, <4>5, <4>6, <5>1 DEF FreshKnown, fresh
        <5>2. CASE j = c + 1
          BY <4>1, <4>5, <4>7, <5>2 DEF r
        <5> QED BY <2>2, <5>1, <5>2
      <4>13. FreshKnown(t, importing[t].checked)'
        <5>1. \A j : Known(Group(t)[j])' <=> Known(Group(t)[j])
          BY <2>3, <2>6 DEF Known
        <5>2. importing'[t].checked = c + 1 /\ importing'[t].fresh = new.fresh
          BY <4>8 DEF new
        <5> QED BY <2>6, <4>12, <5>1, <5>2 DEF FreshKnown, Hash
      <4> QED BY <4>11, <4>13
    <3> HIDE DEF row
    <3> QED BY <2>1, <3>1, <3>2
  <2>10. GoalOf(t)
    <3> QED BY <2>3, <2>4, <2>7, <2>8, <2>9 DEF GoalOf
  <2> QED BY <1>5, <1>6, <2>1, <2>3, <2>4, <2>10
<1>11. \* The file's groups as far as the one just done are stored.
       ASSUME NEW t \in Importers, importing[t].at = "check", NEW i \in Import,
              i.groups = Tail(importing[t].groups), i.file = importing[t].file,
              \A r \in Record : r.code = 1 /\ Known(r) => KnownIn(rows', r),
              \A j \in 1..Len(Group(t)) : KnownIn(rows', Group(t)[j]), PartKept(importing[t])
       PROVE  KeptIn(rows', i)
  <2> DEFINE f == importing[t].file
             g == importing[t].groups
  <2>1. /\ f \in Files /\ g # <<>>
        /\ Len(f) - Len(g) + 1 \in DOMAIN f /\ Group(t) = f[Len(f) - Len(g) + 1]
    BY <1>2, <1>11, CheckHasGroup, GroupOfFile DEF ImportTyped
  <2>2. Group(t) \in Seq(Record)
    BY <1>2, <1>11, <2>1, GroupTyped
  <2>3. f \in Seq(Seq(Record)) /\ \A l \in DOMAIN f : f[l] \in Seq(Record)
    BY <2>1, FilesTyped
  <2>4. g \in Seq(Seq(Record))
    BY <1>2 DEF Import
  <2> HIDE DEF f, g
  <2>5. Len(Tail(g)) = Len(g) - 1 /\ Len(g) \in Nat /\ Len(f) \in Nat
    BY <2>1, <2>3, <2>4
  <2>6. ASSUME NEW l \in 1..(Len(f) - Len(Tail(g))), NEW j \in DOMAIN f[l]
        PROVE  KnownIn(rows', f[l][j])
    <3>1. l \in 1..(Len(f) - Len(g)) \/ l = Len(f) - Len(g) + 1
      BY <2>5
    <3>2. CASE l \in 1..(Len(f) - Len(g))
      <4>1. Known(f[l][j])
        BY <1>11, <3>2 DEF PartKept, KeptIn, Known, f, g
      <4>2. l \in DOMAIN f
        BY <2>1, <2>3, <2>5, <3>2
      <4>3. f[l][j] \in Record /\ f[l][j] \in RecordsOf(f)
        BY <2>3, <4>2 DEF RecordsOf
      <4>4. f[l][j].code = 1
        BY <2>1, <4>3 DEF CodeGiven
      <4> QED BY <1>11, <4>1, <4>3, <4>4 DEF f
    <3>3. CASE l = Len(f) - Len(g) + 1
      <4>1. f[l] = Group(t)
        BY <2>1, <3>3
      <4>2. j \in 1..Len(Group(t))
        BY <2>2, <4>1
      <4> QED BY <1>11, <4>1, <4>2
    <3> QED BY <3>1, <3>2, <3>3
  <2> QED BY <1>11, <2>6 DEF KeptIn, f, g
<1>12. ASSUME NEW t \in Importers, GroupDone(t)
       PROVE  /\ importing[t].at = "check" /\ Busy(t) /\ reported = {}
              /\ PartKept(importing[t]) /\ ReadWhole(t) /\ FreshApart(t)
              /\ FreshKnown(t, Len(Group(t)))
              /\ \A j \in 1..Len(Group(t)) :
                     Group(t)[j] \in Record /\ Group(t)[j].code = 1
  <2>1. importing[t].at = "check" /\ Busy(t) /\ importing[t].checked = Len(Group(t))
    BY <1>12 DEF GroupDone, Busy
  <2>2. importing[t].groups # <<>>
    BY <1>2, <2>1, CheckHasGroup
  <2>3. Group(t) \in Seq(Record)
    BY <1>2, <2>1, <2>2, GroupTyped
  <2> DEFINE f == importing[t].file
             l == Len(f) - Len(importing[t].groups) + 1
  <2>4. f \in Files /\ l \in DOMAIN f /\ Group(t) = f[l]
    BY <1>2, <2>1, <2>2, GroupOfFile
  <2> HIDE DEF f, l
  <2>5. \A j \in 1..Len(Group(t)) : Group(t)[j] \in Record
                                    /\ Group(t)[j] \in RecordsOf(f)
    BY <2>3, <2>4 DEF RecordsOf
  <2>6. \A j \in 1..Len(Group(t)) : Group(t)[j].code = 1
    BY <2>4, <2>5 DEF CodeGiven
  <2>7. FreshKnown(t, importing[t].checked)
    BY <1>4, <2>1
  <2>8. FreshKnown(t, Len(Group(t)))
    BY <2>1, <2>7
  <2> QED BY <1>4, <2>1, <2>5, <2>6, <2>8
<1>13. ASSUME NEW t \in Importers, SaveGroup(t)
       PROVE  Goal
  <2> DEFINE old == importing[t]
             i == [old EXCEPT !.at = "read", !.groups = Tail(old.groups),
                              !.prob = <<>>, !.fresh = <<>>]
  <2>1. /\ GroupDone(t) /\ importing' = [importing EXCEPT ![t] = i]
        /\ rows' = Upserted(Merged(t)) /\ reported' = reported
    BY <1>13 DEF SaveGroup
  <2>2. old \in Import /\ old.at = "check"
    BY <1>2, <1>12, <2>1
  <2>3. i.at = "read" /\ i.groups = Tail(old.groups) /\ i.file = old.file
    BY <2>2 DEF Import
  <2> HIDE DEF i
  <2>4. importing'[t] = i
    BY <1>2, <1>6, <1>12, <2>1, OneMoves
  <2>5. i \in Import
    BY <2>4, ImportTypedStep, <1>2 DEF ImportTyped
  <2>6. \A r \in Record : r.code = 1 /\ Known(r) => KnownIn(rows', r)
    BY <1>2, <1>12, <2>1, CodedRowsStay
  <2>7. ASSUME NEW j \in 1..Len(Group(t)) PROVE KnownIn(rows', Group(t)[j])
    <3> DEFINE r == Group(t)[j]
    <3>1. r \in Record /\ r.code = 1
      BY <1>12, <2>1
    <3>2. Known(r) \/ \E l \in DOMAIN old.fresh : Hash(old.fresh[l].row) = Hash(r)
      BY <1>12, <2>1 DEF FreshKnown
    <3>3. CASE Known(r)
      BY <2>6, <3>1, <3>3
    <3>4. CASE \E l \in DOMAIN old.fresh : Hash(old.fresh[l].row) = Hash(r)
      <4>1. PICK l \in DOMAIN old.fresh : Hash(old.fresh[l].row) = Hash(r)
        BY <3>4
      <4>2. \E k \in Present' : Hash(rows'[k]) = Hash(old.fresh[l].row)
        BY <1>2, <1>12, <2>1, FreshStored
      <4> QED BY <4>1, <4>2 DEF KnownIn, Present
    <3> QED BY <3>2, <3>3, <3>4
  <2>8. PartKept(importing[t])'
    <3>1. KeptIn(rows', i)
      BY <1>11, <1>12, <2>1, <2>2, <2>3, <2>5, <2>6, <2>7
    <3> QED BY <2>4, <3>1 DEF PartKept
  <2>9. GoalOf(t)
    BY <1>12, <2>1, <2>3, <2>4, <2>8 DEF GoalOf
  <2> QED BY <1>5, <1>6, <1>12, <2>1, <2>9
<1>14. ASSUME NEW t \in Importers, SkipGroup(t)
       PROVE  Goal
  <2> DEFINE old == importing[t]
             i == [old EXCEPT !.at = "read", !.groups = Tail(old.groups), !.prob = <<>>]
  <2>1. /\ GroupDone(t) /\ importing' = [importing EXCEPT ![t] = i]
        /\ rows' = rows /\ reported' = reported /\ old.fresh = <<>>
    BY <1>14 DEF SkipGroup
  <2>2. old \in Import /\ old.at = "check"
    BY <1>2, <1>12, <2>1
  <2>3. i.at = "read" /\ i.groups = Tail(old.groups) /\ i.file = old.file
    BY <2>2 DEF Import
  <2> HIDE DEF i
  <2>4. importing'[t] = i
    BY <1>2, <1>6, <1>12, <2>1, OneMoves
  <2>5. i \in Import
    BY <2>4, ImportTypedStep, <1>2 DEF ImportTyped
  <2>6. \A r \in Record : r.code = 1 /\ Known(r) => KnownIn(rows', r)
    BY <1>7, <2>1
  <2>7. \A j \in 1..Len(Group(t)) : KnownIn(rows', Group(t)[j])
    BY <1>12, <2>1 DEF FreshKnown, Known
  <2>8. PartKept(importing[t])'
    <3>1. KeptIn(rows', i)
      BY <1>11, <1>12, <2>1, <2>2, <2>3, <2>5, <2>6, <2>7
    <3> QED BY <2>4, <3>1 DEF PartKept
  <2>9. GoalOf(t)
    BY <1>12, <2>1, <2>3, <2>4, <2>8 DEF GoalOf
  <2> QED BY <1>5, <1>6, <1>12, <2>1, <2>9
<1>15. ASSUME NEW t \in Importers, importing' = [importing EXCEPT ![t] = NotImporting],
              Busy(t), \A r \in reported' : KnownIn(rows', r) /\ r.code = 1
       PROVE  Goal
  <2>1. \A u \in Importers : ~Busy(u)'
    <3>1. \A u \in Importers : u # t => ~Busy(u)
      BY <1>6, <1>15
    <3> QED BY <1>2, <1>15, <3>1 DEF Busy, NotImporting
  <2> QED BY <1>15, <2>1 DEF GoalOf
<1>16. ASSUME NEW t \in Importers, SaveFails(t)
       PROVE  Goal
  <2>1. importing' = [importing EXCEPT ![t] = NotImporting] /\ reported' = reported
        /\ GroupDone(t)
    BY <1>16 DEF SaveFails
  <2> QED BY <1>12, <1>15, <2>1
<1>17. ASSUME NEW t \in Importers, ImportEnds(t)
       PROVE  Goal
  <2> DEFINE f == importing[t].file
  <2>1. /\ importing' = [importing EXCEPT ![t] = NotImporting] /\ reported' = RecordsOf(f)
        /\ rows' = rows /\ importing[t].groups = <<>> /\ Busy(t)
    BY <1>17 DEF ImportEnds, Busy
  <2>2. f \in Files
    BY <1>2, <2>1 DEF ImportTyped, FileEnd, Busy
  <2>3. PartKept(importing[t])
    BY <1>4, <2>1
  <2>4. f \in Seq(Seq(Record)) /\ Len(f) - Len(importing[t].groups) = Len(f)
    <3>1. f \in Seq(Seq(Record)) /\ Len(importing[t].groups) = 0
      BY <2>1, <2>2, FilesTyped
    <3>2. Len(f) \in Nat
      BY <3>1
    <3> HIDE DEF f
    <3> QED BY <3>1, <3>2
  <2>5. \A l \in 1..Len(f) : \A j \in DOMAIN f[l] : Known(f[l][j])
    BY <2>3, <2>4 DEF PartKept, KeptIn, Known
  <2>6. DOMAIN f = 1..Len(f)
    BY <2>4
  <2> HIDE DEF f
  <2>7. \A r \in RecordsOf(f) : Known(r)
    BY <2>5, <2>6 DEF RecordsOf
  <2>8. \A r \in RecordsOf(f) : KnownIn(rows', r) /\ r.code = 1
    BY <1>7, <2>1, <2>2, <2>7 DEF CodeGiven
  <2> QED BY <1>15, <2>1, <2>8
<1>18. ASSUME NEW x \in ExternalIds, SyncStores(x) \/ SyncEnriches(x)
       PROVE  Goal
  <2>1. importing' = importing /\ reported' = {}
    BY <1>18 DEF SyncStores, SyncEnriches
  <2>2. \A t \in Importers : ~Busy(t)
    BY <1>18 DEF SyncStores, SyncEnriches, Beside, Quiet, Busy
  <2> QED BY <2>1, <2>2 DEF GoalOf, Busy
<1>19. ASSUME UNCHANGED importerVars
       PROVE  Goal
  <2>1. rows' = rows /\ importing' = importing /\ reported' = reported
    BY <1>19 DEF importerVars
  <2>2. ASSUME NEW t \in Importers PROVE GoalOf(t)
    <3>1. Busy(t)' <=> Busy(t)
      BY <2>1 DEF Busy
    <3>2. PartKept(importing[t])' <=> PartKept(importing[t])
      BY <2>1 DEF PartKept, KeptIn, KnownIn
    <3>3. ReadWhole(t)' <=> ReadWhole(t)
      BY <2>1 DEF ReadWhole, Present, Slug, Group
    <3>4. FreshApart(t)' <=> FreshApart(t)
      BY <2>1 DEF FreshApart, Group
    <3>5. FreshKnown(t, importing[t].checked)' <=> FreshKnown(t, importing[t].checked)
      BY <2>1 DEF FreshKnown, Known, KnownIn, Group
    <3> QED BY <1>4, <2>1, <3>1, <3>2, <3>3, <3>4, <3>5 DEF GoalOf
  <2> QED BY <1>3, <1>7, <2>1, <2>2
<1>20. Goal
  BY <1>8, <1>9, <1>10, <1>13, <1>14, <1>16, <1>17, <1>18, <1>19 DEF ImporterNext
<1> QED BY <1>20 DEF GoalOf

\* Every record of a file with its code, unless imports overlap, is stored once
\* however often imports fail in the middle and are repeated and whatever syncs do
\* meanwhile; and once an import ends beside which nothing ran, all of its records are
\* stored, under their hash or under their id with their code.
THEOREM ImportsOnce ==
  ASSUME CodeGiven
  PROVE  ImporterSpec => []ImportedOnce
<1> DEFINE Inv == ImportInv /\ IdsNamed /\ AllKept
<1>1. ImporterInit => Inv
  <2> SUFFICES ASSUME ImporterInit PROVE Inv
    OBVIOUS
  <2>1. ImportInv
    BY ImportInvInit
  <2>2. /\ \A t \in Importers : importing[t] = NotImporting
        /\ reported = {} /\ rows = [k \in Keys |-> NoRow]
    BY DEF ImporterInit
  <2>3. IdsNamed
    BY <2>2 DEF IdsNamed, NotImporting, Keys
  <2>4. AllKept
    BY <2>2 DEF AllKept, Busy, NotImporting
  <2> QED BY <2>1, <2>3, <2>4
<1>2. Inv /\ [ImporterNext]_importerVars => Inv'
  BY ImportInvStep, IdsNamedStep, AllKeptStep
<1>3. Inv => ImportedOnce
  BY DEF ImportInv, NothingTwice, AllKept, Known, KnownIn, Present, ImportedOnce
<1> QED BY <1>1, <1>2, <1>3, PTL DEF ImporterSpec

-----------------------------------------------------------------------------
(* Side by side: each component does in the composition what it does alone     *)

\* A behaviour of the five side by side is one of each of them: no step of one
\* disturbs another.
THEOREM BoundaryImplementsAll ==
  BoundarySpec =>
      VaultSpec /\ SettingsSpec /\ HandlesSpec /\ ClientSpec /\ ImporterSpec
<1>1. BoundaryInit =>
        VaultInit /\ SettingsInit /\ HandlesInit /\ ClientInit /\ ImporterInit
  BY DEF BoundaryInit
<1>2. [BoundaryNext]_<<boundaryVars, part>> => [VaultNext]_vaultVars
  BY DEF BoundaryNext, boundaryVars
<1>3. [BoundaryNext]_<<boundaryVars, part>> => [SettingsNext]_settingsVars
  BY DEF BoundaryNext, boundaryVars
<1>4. [BoundaryNext]_<<boundaryVars, part>> => [HandlesNext]_handleVars
  BY DEF BoundaryNext, boundaryVars
<1>5. [BoundaryNext]_<<boundaryVars, part>> => [ClientNext]_clientVars
  BY DEF BoundaryNext, boundaryVars
<1>6. [BoundaryNext]_<<boundaryVars, part>> => [ImporterNext]_importerVars
  BY DEF BoundaryNext, boundaryVars
<1> QED BY <1>1, <1>2, <1>3, <1>4, <1>5, <1>6, PTL
        DEF BoundarySpec, VaultSpec, SettingsSpec, HandlesSpec, ClientSpec, ImporterSpec

\* Every component's variables stay within the values the code can give them,
\* whichever of the five moves.
THEOREM BoundaryTypeCorrect == BoundarySpec => []BoundaryTypeOK
<1>1. BoundarySpec => [](part \in {"vault", "settings", "handles", "client", "import"})
  <2>1. BoundaryInit => part \in {"vault", "settings", "handles", "client", "import"}
    BY DEF BoundaryInit
  <2>2. /\ part \in {"vault", "settings", "handles", "client", "import"}
        /\ [BoundaryNext]_<<boundaryVars, part>>
        => (part \in {"vault", "settings", "handles", "client", "import"})'
    BY DEF BoundaryNext
  <2> QED BY <2>1, <2>2, PTL DEF BoundarySpec
<1>2. /\ part \in {"vault", "settings", "handles", "client", "import"}
      /\ VaultTypeOK /\ SettingsTypeOK /\ HandlesTypeOK /\ ClientTypeOK /\ ImporterTypeOK
      => BoundaryTypeOK
  BY DEF BoundaryTypeOK
<1> QED BY <1>1, <1>2, BoundaryImplementsAll, VaultTypeCorrect, SettingsTypeCorrect,
           HandlesTypeCorrect, ClientTypeCorrect, ImporterTypeCorrect, PTL
=============================================================================
