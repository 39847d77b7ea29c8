------------------------------ MODULE Settings ------------------------------
(******************************************************************************)
(* SettingsStore (core/settings.py): app_settings.json, rewritten through     *)
(* one temporary name by requests that take no lock.                          *)
(*                                                                            *)
(* A name leads to a file and a thread that has opened it keeps the file:     *)
(* renaming app_settings.json.tmp moves the file that other threads may still *)
(* be writing.                                                                *)
(******************************************************************************)
EXTENDS Naturals

CONSTANTS
    Writers,        \* requests that change settings, of any process
    Fields,         \* fields of UserSettings
    MaxChange,      \* bound: changes of a setting; 0 is the factory default
    Absent,         \* no such file
    Garbled         \* a file truncated or mixed: it does not parse

Values == 0..MaxChange
UserSettings == [Fields -> Values]
Defaults == [f \in Fields |-> 0]
Text == UserSettings \cup {Absent, Garbled}

ASSUME SettingsAssumption ==
    /\ MaxChange \in Nat
    /\ Absent # Garbled /\ Garbled \notin UserSettings
    /\ \A S \in SUBSET Fields : Absent \notin [S -> Values]

VARIABLES
    settingsFile,   \* app_settings.json
    tmpFile,        \* app_settings.json.tmp
    writer,         \* what each thread is doing
    changes,        \* values given to settings so far
    serialWrites    \* history: no two calls have overlapped

settingsVars == <<settingsFile, tmpFile, writer, changes, serialWrites>>

\* fields: what update() was given; copy: its settings; holds: the file it has
\* open ("tmp", "file", or "gone": no name leads to it any more).
Writer == [at : {"idle", "open", "dump", "replace"},
           fields : SUBSET Fields, copy : UserSettings,
           holds : {"none", "tmp", "file", "gone"}]

Free == [at |-> "idle", fields |-> {}, copy |-> Defaults, holds |-> "none"]

SettingsTypeOK ==
    /\ settingsFile \in Text /\ tmpFile \in Text
    /\ writer \in [Writers -> Writer]
    /\ changes \in Values
    /\ serialWrites \in BOOLEAN

SettingsInit ==
    /\ settingsFile = Absent /\ tmpFile = Absent
    /\ writer = [w \in Writers |-> Free]
    /\ changes = 0
    /\ serialWrites = TRUE

Reach(w, point) == writer[w].at = point

\* load(): defaults without a file and on any error.
Loaded == IF settingsFile \in UserSettings THEN settingsFile ELSE Defaults

Start(w) ==
    /\ Reach(w, "idle")
    /\ serialWrites' = (serialWrites /\ \A v \in Writers : Reach(v, "idle"))

\* update(**fields), fields that are None left out: it loads, and sets them.
Update(w) ==
    /\ Start(w)
    /\ changes < MaxChange
    /\ changes' = changes + 1
    /\ \E S \in SUBSET Fields :
         writer' = [writer EXCEPT ![w] =
             [at |-> "open", fields |-> S, holds |-> "none",
              copy |-> [f \in Fields |-> IF f \in S THEN changes' ELSE Loaded[f]]]]
    /\ UNCHANGED <<settingsFile, tmpFile>>

ResetSettings(w) ==
    /\ Start(w)
    /\ writer' = [writer EXCEPT ![w] =
           [at |-> "open", fields |-> Fields, copy |-> Defaults, holds |-> "none"]]
    /\ UNCHANGED <<settingsFile, tmpFile, changes>>

\* save(): the temporary file is truncated, whoever is writing it.
OpenTmp(w) ==
    /\ Reach(w, "open")
    /\ tmpFile' = Garbled
    /\ writer' = [writer EXCEPT ![w].at = "dump", ![w].holds = "tmp"]
    /\ UNCHANGED <<settingsFile, changes, serialWrites>>

\* What a file holds once w has written its text over what is there.
Written(w, text) ==
    IF text = Garbled THEN {writer[w].copy} ELSE {writer[w].copy, Garbled}

Dump(w) ==
    /\ Reach(w, "dump")
    /\ \/ /\ writer[w].holds = "tmp"
          /\ tmpFile' \in Written(w, tmpFile)
          /\ UNCHANGED settingsFile
       \/ /\ writer[w].holds = "file"
          /\ settingsFile' \in Written(w, settingsFile)
          /\ UNCHANGED tmpFile
       \/ /\ writer[w].holds = "gone"
          /\ UNCHANGED <<settingsFile, tmpFile>>
    /\ writer' = [writer EXCEPT ![w].at = "replace", ![w].holds = "none"]
    /\ UNCHANGED <<changes, serialWrites>>

\* The files other threads hold open once the temporary name has been renamed.
Renamed(holds) == CASE holds = "tmp" -> "file"
                    [] holds = "file" -> "gone"
                    [] OTHER -> holds

\* tmp_path.replace(): whatever is under the temporary name by now.
Replace(w) ==
    /\ Reach(w, "replace")
    /\ tmpFile # Absent
    /\ settingsFile' = tmpFile
    /\ tmpFile' = Absent
    /\ writer' = [v \in Writers |->
           IF v = w THEN Free
           ELSE [writer[v] EXCEPT !.holds = Renamed(@)]]
    /\ UNCHANGED <<changes, serialWrites>>

\* Mutant: an error while the text is written goes unnoticed and the half-written
\* file is renamed.
AbortReplaces(w) ==
    /\ ~Reach(w, "idle")
    /\ writer' = [writer EXCEPT ![w] = Free]
    /\ IF Reach(w, "dump") THEN settingsFile' = tmpFile /\ tmpFile' = Absent
       ELSE UNCHANGED <<settingsFile, tmpFile>>
    /\ UNCHANGED <<changes, serialWrites>>

\* Another thread has renamed it: FileNotFoundError.  Or any other error, or the
\* process ends, anywhere.
Abort(w) ==
    /\ ~Reach(w, "idle")
    /\ writer' = [writer EXCEPT ![w] = Free]
    /\ UNCHANGED <<settingsFile, tmpFile, changes, serialWrites>>

SettingsNext ==
    \E w \in Writers :
        \/ Update(w) \/ ResetSettings(w)
        \/ OpenTmp(w) \/ Dump(w) \/ Replace(w) \/ Abort(w)

SettingsSpec == SettingsInit /\ [][SettingsNext]_settingsVars

\* The call under way, as its caller sees it.
Asked ==
    IF \E w \in Writers : ~Reach(w, "idle")
    THEN LET w == CHOOSE v \in Writers : ~Reach(v, "idle")
         IN  [f \in writer[w].fields |-> writer[w].copy[f]]
    ELSE Absent

\* The store implements one record that only a call changes, as long as calls do
\* not overlap: the steps of a save, an error and a crash at any of them show all
\* of the call's fields and no others, or nothing.
OneRecord == INSTANCE SettingsRegister WITH
    Default <- 0, NoCall <- Absent, trusted <- serialWrites,
    settings <- IF serialWrites THEN Loaded ELSE Defaults,
    asked <- IF serialWrites THEN Asked ELSE Absent

SettingsImplement == OneRecord!RegisterSpec
=============================================================================
