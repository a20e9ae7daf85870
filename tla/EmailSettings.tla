---------------------------- MODULE EmailSettings ----------------------------
(***************************************************************************)
(* The form for the email provider: one row of settings, which a save      *)
(* reads, checks and writes back as a whole.  An empty key in the form     *)
(* stands for the key that was read.                                       *)
(*                                                                         *)
(* The row is read before the transaction, so that saves overlap.  What    *)
(* else the form holds is stored as it is and left out; so is the cipher:  *)
(* a key is a number.  EmailOutbox sends the mails; the switch it has is   *)
(* what Configured says here.                                              *)
(***************************************************************************)
EXTENDS Naturals

CONSTANTS
  Save,    \* slots for concurrent saves
  MaxKey   \* bound: keys that administrators ever enter

ASSUME EmailSettingsAssumption == MaxKey \in Nat

VARIABLES
  settings,  \* the row: enabled, the key (0: none), whether there is a template
  save,      \* the save in each slot
  keys       \* keys entered so far

settingsVars == <<settings, save, keys>>

Settings == [enabled : BOOLEAN, key : Nat, template : BOOLEAN]

\* row: what it will write; entered: a key was typed; overlapped: history,
\* another save has written since this one read.
SaveSlot == [running : BOOLEAN, row : Settings, entered : BOOLEAN, overlapped : BOOLEAN]
NoSettings == [enabled |-> FALSE, key |-> 0, template |-> FALSE]
NoSave == [running |-> FALSE, row |-> NoSettings, entered |-> FALSE, overlapped |-> FALSE]

SettingsTypeOK ==
  /\ settings \in Settings
  /\ save \in [Save -> SaveSlot]
  /\ keys \in Nat

SettingsInit ==
  /\ settings = NoSettings
  /\ save = [v \in Save |-> NoSave]
  /\ keys = 0

\* Wrong: a key that is entered later will do.
AcceptableWithTemplate(enabled, template, key) == enabled => template

\* What updateEmailSettings asks of a form that enables mail, key being the one
\* typed or, if none was, the one that was read.
Acceptable(enabled, template, key) == enabled => template /\ key # 0

\* The key field is filled in: a new key.
BeginWithKey(v, enabled, template) ==
  /\ ~save[v].running /\ keys < MaxKey
  /\ Acceptable(enabled, template, keys + 1)
  /\ keys' = keys + 1
  /\ save' = [save EXCEPT ![v] = [NoSave EXCEPT !.running = TRUE, !.entered = TRUE,
       !.row = [enabled |-> enabled, key |-> keys', template |-> template]]]
  /\ UNCHANGED settings

\* Wrong: the empty field is stored.
BeginClearing(v, enabled, template) ==
  /\ ~save[v].running
  /\ Acceptable(enabled, template, settings.key)
  /\ save' = [save EXCEPT ![v] = [NoSave EXCEPT !.running = TRUE,
       !.row = [enabled |-> enabled, key |-> 0, template |-> template]]]
  /\ UNCHANGED <<settings, keys>>

\* It is left empty: the key that is read.
BeginWithoutKey(v, enabled, template) ==
  /\ ~save[v].running
  /\ Acceptable(enabled, template, settings.key)
  /\ save' = [save EXCEPT ![v] = [NoSave EXCEPT !.running = TRUE,
       !.row = [enabled |-> enabled, key |-> settings.key, template |-> template]]]
  /\ UNCHANGED <<settings, keys>>

\* UPDATE ... WHERE id=1, and COMMIT; every other save has read what was before.
CommitSave(v) ==
  /\ save[v].running
  /\ settings' = save[v].row
  /\ save' = [u \in Save |-> IF u = v THEN NoSave
                             ELSE [save[u] EXCEPT !.overlapped = save[u].running]]
  /\ UNCHANGED keys

\* An error or a crash: nothing is written.
RollbackSave(v) ==
  /\ save[v].running
  /\ save' = [save EXCEPT ![v] = NoSave]
  /\ UNCHANGED <<settings, keys>>

SettingsNext ==
  \E v \in Save :
    \/ \E enabled, template \in BOOLEAN :
         BeginWithKey(v, enabled, template) \/ BeginWithoutKey(v, enabled, template)
    \/ CommitSave(v) \/ RollbackSave(v)

SettingsSpec == SettingsInit /\ [][SettingsNext]_settingsVars

-----------------------------------------------------------------------------
(* Properties.                                                             *)

\* mailReady, and providerCredentials for a mail.
Configured(row) == row.enabled /\ row.key # 0 /\ row.template

\* Mail that is enabled can be sent: whichever saves overlap, the row never says
\* enabled without the key and the template that its readers ask for.
EnabledIsConfigured == settings.enabled => Configured(settings)

\* A save whose key field was left empty keeps the key, unless another save has
\* written between its read and its write.
KeyKeptUnlessOverlapped ==
  [][\A v \in Save : CommitSave(v) /\ ~save[v].entered /\ ~save[v].overlapped =>
       settings'.key = settings.key]_settingsVars
=============================================================================
