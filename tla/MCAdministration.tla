--------------------------- MODULE MCAdministration ---------------------------
(* What administrators and operators do, in four modules that share no state,  *)
(* checked side by side: each behaviour is one of one of them, and the others  *)
(* stay as they were.  Their instances share the values v1 to v6, which keeps  *)
(* the symmetry small.                                                         *)
EXTENDS SuperAdmins, Console, GameData, EmailSettings, TLC

CONSTANTS Parts, v1, v2, v3, v4, v5, v6, v7, v8

VARIABLE part

\* Users are alike: it is enough that one of them is the first administrator.
AdministrationInit ==
  /\ part \in Parts
  /\ Init /\ status[v7] = "active"
  /\ ConsoleInit /\ GameInit /\ SettingsInit

AdministrationNext ==
  /\ UNCHANGED part
  /\ \/ part = "super administrators" /\ Next
        /\ UNCHANGED <<consoleVars, gameVars, settingsVars>>
     \/ part = "console" /\ ConsoleNext
        /\ UNCHANGED <<vars, gameVars, settingsVars>>
     \/ part = "game data" /\ GameNext
        /\ UNCHANGED <<vars, consoleVars, settingsVars>>
     \/ part = "settings" /\ SettingsNext
        /\ UNCHANGED <<vars, consoleVars, gameVars>>

AdministrationSpec ==
  AdministrationInit
    /\ [][AdministrationNext]_<<part, vars, consoleVars, gameVars, settingsVars>>

\* Every variable of the four has its type in every state.
AdministrationTypeOK == TypeOK /\ ConsoleTypeOK /\ GameTypeOK /\ SettingsTypeOK

MCSymmetry == Permutations({v1, v2}) \cup Permutations({v3, v4}) \cup Permutations({v5, v6})
=============================================================================
