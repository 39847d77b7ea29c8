-------------------------- MODULE SettingsRegister --------------------------
(******************************************************************************)
(* What SettingsStore (core/settings.py) promises its callers: one record of  *)
(* settings that changes as a whole and only by a call, which takes effect at *)
(* once or not at all -- until two calls overlap; from then on, nothing.      *)
(******************************************************************************)
CONSTANTS
    Fields,     \* fields of UserSettings
    Values,     \* values of a setting
    Default,    \* the factory value
    NoCall      \* no call is under way

VARIABLES
    settings,   \* what load() returns
    asked,      \* the fields the call under way is to change, with their values
    trusted     \* no two calls have overlapped

register == <<settings, asked, trusted>>

RegisterInit ==
    /\ settings = [f \in Fields |-> Default]
    /\ asked = NoCall
    /\ trusted = TRUE

\* update(**fields), or reset(), which names them all.
Ask ==
    /\ asked = NoCall
    /\ \E S \in SUBSET Fields : asked' \in [S -> Values]
    /\ UNCHANGED <<settings, trusted>>

\* Its fields change and no others.
Take ==
    /\ asked # NoCall
    /\ settings' = [f \in Fields |->
           IF f \in DOMAIN asked THEN asked[f] ELSE settings[f]]
    /\ asked' = NoCall
    /\ UNCHANGED trusted

Fail ==
    /\ asked # NoCall /\ asked' = NoCall
    /\ UNCHANGED <<settings, trusted>>

Overlap ==
    /\ trusted' = FALSE /\ asked' = NoCall
    /\ settings' \in [Fields -> Values]

RegisterNext == (trusted /\ (Ask \/ Take \/ Fail)) \/ Overlap

RegisterSpec == RegisterInit /\ [][RegisterNext]_register
=============================================================================
