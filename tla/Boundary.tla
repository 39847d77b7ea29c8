------------------------------ MODULE Boundary -------------------------------
(* The credential vault, the settings file, the database handles, the LeetCode  *)
(* client and the importer, side by side.  They share nothing here, so a        *)
(* behaviour is one of the five; the parts the code does share, the account and *)
(* the rows, are in AccountSync and Storage.                                    *)
EXTENDS Vault, Settings, StorageHandles, Client, Importer

VARIABLE part       \* the component whose steps a behaviour takes

boundaryVars ==
    <<vaultVars, settingsVars, handleVars, clientVars, importerVars>>

BoundaryInit ==
    /\ VaultInit /\ SettingsInit /\ HandlesInit /\ ClientInit /\ ImporterInit
    /\ part \in {"vault", "settings", "handles", "client", "import"}

BoundaryNext ==
    /\ UNCHANGED part
    /\ \/ part = "vault" /\ VaultNext
          /\ UNCHANGED <<settingsVars, handleVars, clientVars, importerVars>>
       \/ part = "settings" /\ SettingsNext
          /\ UNCHANGED <<vaultVars, handleVars, clientVars, importerVars>>
       \/ part = "handles" /\ HandlesNext
          /\ UNCHANGED <<vaultVars, settingsVars, clientVars, importerVars>>
       \/ part = "client" /\ ClientNext
          /\ UNCHANGED <<vaultVars, settingsVars, handleVars, importerVars>>
       \/ part = "import" /\ ImporterNext
          /\ UNCHANGED <<vaultVars, settingsVars, handleVars, clientVars>>

BoundarySpec == BoundaryInit /\ [][BoundaryNext]_<<boundaryVars, part>>

\* Every variable of the component that moves stays within the values the code can
\* give it.
BoundaryTypeOK ==
    CASE part = "vault" -> VaultTypeOK
      [] part = "settings" -> SettingsTypeOK
      [] part = "handles" -> HandlesTypeOK
      [] part = "client" -> ClientTypeOK
      [] part = "import" -> ImporterTypeOK
=============================================================================
