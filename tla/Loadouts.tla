------------------------------ MODULE Loadouts ------------------------------
(***************************************************************************)
(* Published loadouts: creation by a desktop user or an administrator,     *)
(* edits from the administration page, status changes, deletion by the     *)
(* owner, and what the resolution of a report does to a loadout.           *)
(*                                                                         *)
(* Every write is a transaction that updates one loadouts row, and so      *)
(* holds that row's lock until it commits: it is one step here.  What is   *)
(* not in the transaction is a step of its own: the SELECT that fills the  *)
(* edit form, and the search for an identical build.                       *)
(*                                                                         *)
(* hash stands for the canonical payload, its hashes and the rows of the   *)
(* two search indexes, which are always written together.  A payload names *)
(* the game data it was validated with; a row keeps the data_version of    *)
(* its insertion, which an edit does not change.  The unique index is over *)
(* the two.                                                                *)
(***************************************************************************)
EXTENDS Naturals, Functions

CONSTANTS
  Loadout,    \* ids of loadouts rows (a bound on the rows inserted)
  Build,      \* equipment, as far as build_hash tells it apart
  Data,       \* data versions: digests of the game databases a server was started with
  Name,       \* names of loadouts, which content_hash tells apart and build_hash does not
  Editor,     \* slots for concurrent create and update requests
  NoLoadout, NoHash, NoData, NoName,
  MaxWrites   \* bound on insertions and updates, the sum of loadouts.version

ASSUME LoadoutsAssumption ==
  MaxWrites \in Nat /\ NoLoadout \notin Loadout /\ NoName \notin Name

VARIABLES
  row,  \* the loadouts table
  edit  \* the create or update under way in each slot

store == <<row, edit>>

Statuses == {"published", "hidden", "deleted"}

\* What build_hash is taken of: loadoutFingerprint clears the name only.  A row from
\* before the column was added has its content_hash there, which keeps the name.
Hash == [build : Build, data : Data, name : Name \cup {NoName}]
Fingerprint(b, d) == [build |-> b, data |-> d, name |-> NoName]

\* data: data_version; dated: published_at is set; buried: deleted_at is set.
Row == [status : Statuses \cup {"absent"}, hash : Hash \cup {NoHash}, data : Data \cup {NoData},
        version : Nat, dated : BOOLEAN, buried : BOOLEAN]

\* What the edit form keeps of the row adminLoadout read.
Seen == [status : Statuses \cup {"absent"}, hash : Hash \cup {NoHash}, version : Nat]

\* open: the form shows seen; checked: no
\* identical build was found.  version: the one the request carries, 0 for
\* none.  moderated (history): a report on the loadout was resolved meanwhile.
Edit == [step : {"idle", "open", "checked"}, loadout : Loadout \cup {NoLoadout},
         hash : Hash \cup {NoHash}, status : {"published", "hidden"}, version : Nat,
         seen : Seen, moderated : BOOLEAN]

NoRow == [status |-> "absent", hash |-> NoHash, data |-> NoData, version |-> 0,
          dated |-> FALSE, buried |-> FALSE]
Read(r) == [status |-> r.status, hash |-> r.hash, version |-> r.version]
NoEdit == [step |-> "idle", loadout |-> NoLoadout, hash |-> NoHash,
           status |-> "published", version |-> 0, seen |-> Read(NoRow), moderated |-> FALSE]

TypeOK ==
  /\ row \in [Loadout -> Row]
  /\ edit \in [Editor -> Edit]
  /\ \A e \in Editor : edit[e].step = "checked" => edit[e].hash \in Hash

\* The bound: every insertion and update but a moderation adds one version.
MayWrite == SumFunction([l \in Loadout |-> row[l].version]) < MaxWrites

Exists(l) == row[l].status # "absent"
Shared(l) == row[l].status \notin {"absent", "deleted"}

\* Wrong: the unique index covers published loadouts only.
TakenIfPublished(h, d, l) ==
  \E k \in Loadout \ {l} : row[k].status = "published" /\ row[k].hash = h /\ row[k].data = d

\* Another loadout that is not deleted has the build_hash and the data_version: what
\* findDuplicateLoadout looks for, and what loadouts_unique_build_idx refuses.
Taken(h, d, l) == \E k \in Loadout \ {l} : Shared(k) /\ row[k].hash = h /\ row[k].data = d
KeyFree(h, d, l) == ~Taken(h, d, l)

\* Rows that were there before build_hash was: the migration copies content_hash.
Legacy == {r \in [status : Statuses, hash : Hash, data : Data, version : 1 .. MaxWrites,
                  dated : BOOLEAN, buried : BOOLEAN] :
             /\ r.hash.name # NoName
             /\ (r.status = "published" => r.dated) /\ (r.buried <=> r.status = "deleted")}

\* The migration creates the index, so that they do not collide.
Init ==
  /\ row \in [Loadout -> Legacy \cup {NoRow}]
  /\ \A l \in Loadout : Shared(l) => KeyFree(row[l].hash, row[l].data, l)
  /\ edit = [e \in Editor |-> NoEdit]

-----------------------------------------------------------------------------

\* Wrong: a restoration leaves deleted_at as it is.
WithStatusKeepsBurial(r, s) ==
  [r EXCEPT !.status = s, !.dated = @ \/ s = "published", !.buried = @ \/ s = "deleted"]

\* published_at is set by the first publication and kept; deleted_at is set
\* by a deletion and cleared by anything else.
WithStatus(r, s) ==
  [r EXCEPT !.status = s, !.dated = @ \/ s = "published", !.buried = s = "deleted"]

NextVersion(r) == [r EXCEPT !.version = @ + 1]

-----------------------------------------------------------------------------
(* Requests that carry a build.  d is the data version of the server that  *)
(* takes the request, the only one whose payloads Validate accepts; an     *)
(* import and a restart (module GameData) may change it between any two    *)
(* requests.  The request knows it from its payload.                       *)

\* createLoadout, createDesktopLoadout: no identical build is found.
BeginCreate(e, b, d, s) ==
  /\ edit[e].step = "idle" /\ s # "deleted" /\ KeyFree(Fingerprint(b, d), d, NoLoadout)
  /\ edit' = [edit EXCEPT ![e] = [NoEdit EXCEPT !.step = "checked", !.status = s,
                                                !.hash = Fingerprint(b, d)]]
  /\ UNCHANGED row

\* ... and the transaction inserts the row, unless the unique index refuses.
InsertLoadout(e, l) ==
  LET h == edit[e].hash s == edit[e].status IN
  /\ edit[e].step = "checked" /\ edit[e].loadout = NoLoadout
  /\ ~Exists(l) /\ KeyFree(h, h.data, l) /\ MayWrite
  /\ row' = [row EXCEPT ![l] = [status |-> s, hash |-> h, data |-> h.data, version |-> 1,
                                dated |-> s = "published", buried |-> FALSE]]
  /\ edit' = [edit EXCEPT ![e] = NoEdit]

\* adminLoadout: the edit form of the administration page.
OpenEditor(e, l) ==
  /\ edit[e].step = "idle" /\ Exists(l)
  /\ edit' = [edit EXCEPT ![e] = [NoEdit EXCEPT !.step = "open", !.loadout = l, !.seen = Read(row[l])]]
  /\ UNCHANGED row

CloseEditor(e) ==
  /\ edit[e].step = "open"
  /\ edit' = [edit EXCEPT ![e] = NoEdit]
  /\ UNCHANGED row

\* updateLoadout: no identical build of this data version is found among the other
\* loadouts.  The request carries the version of the form, or none.
BeginUpdate(e, b, d, s, v) ==
  /\ edit[e].step = "open" /\ s # "deleted" /\ KeyFree(Fingerprint(b, d), d, edit[e].loadout)
  /\ v \in {0, edit[e].seen.version}
  /\ edit' = [edit EXCEPT ![e].step = "checked", ![e].hash = Fingerprint(b, d),
                          ![e].status = s, ![e].version = v]
  /\ UNCHANGED row

\* Wrong: the request's version is not compared.
CurrentWithoutVersion(e, l) == Shared(l)

\* The WHERE clause of its UPDATE.
Current(e, l) ==
  /\ Shared(l)
  /\ edit[e].version = 0 \/ edit[e].version = row[l].version

\* The UPDATE: the row keeps its data_version, and the index compares that one.
UpdateLoadout(e, l) ==
  LET h == edit[e].hash s == edit[e].status IN
  /\ edit[e].step = "checked" /\ edit[e].loadout = l
  /\ Current(e, l) /\ KeyFree(h, row[l].data, l) /\ MayWrite
  /\ row' = [row EXCEPT ![l] =
       [status |-> s, hash |-> h, data |-> @.data, version |-> @.version + 1,
        dated |-> @.dated \/ s = "published", buried |-> @.buried]]
  /\ edit' = [edit EXCEPT ![e] = NoEdit]

\* No row matches, the index refuses, or the database fails.  The form stays.
Rejected(e) ==
  /\ edit[e].step = "checked"
  /\ edit' = [edit EXCEPT ![e] = IF @.loadout = NoLoadout THEN NoEdit
                                 ELSE [edit[e] EXCEPT !.step = "open", !.hash = NoHash,
                                                      !.status = "published", !.version = 0]]
  /\ UNCHANGED row

-----------------------------------------------------------------------------
(* Requests that carry a status only.                                      *)

\* updateLoadoutStatus, by an administrator.
UpdateLoadoutStatus(l, s) ==
  /\ Exists(l) /\ MayWrite
  /\ s = "deleted" \/ KeyFree(row[l].hash, row[l].data, l)
  /\ row' = [row EXCEPT ![l] = NextVersion(WithStatus(@, s))]
  /\ UNCHANGED edit

\* deleteDesktopLoadout, by the owner.
DeleteDesktopLoadout(l) ==
  /\ Shared(l) /\ MayWrite
  /\ row' = [row EXCEPT ![l] = NextVersion(WithStatus(@, "deleted"))]
  /\ UNCHANGED edit

\* resolveReport, as far as the loadout goes: the version stays.
Moderate(l, s) ==
  /\ Exists(l)
  /\ s = "deleted" \/ KeyFree(row[l].hash, row[l].data, l)
  /\ row' = [row EXCEPT ![l] = WithStatus(@, s)]
  /\ edit' = [e \in Editor |-> IF edit[e].loadout = l THEN [edit[e] EXCEPT !.moderated = TRUE]
                                                      ELSE edit[e]]

LoadoutsNext ==
  \/ \E e \in Editor, b \in Build, d \in Data, s \in Statuses : BeginCreate(e, b, d, s)
  \/ \E e \in Editor, l \in Loadout : InsertLoadout(e, l)
  \/ \E e \in Editor, l \in Loadout : OpenEditor(e, l)
  \/ \E e \in Editor : CloseEditor(e)
  \/ \E e \in Editor, b \in Build, d \in Data, s \in Statuses, v \in 0 .. MaxWrites :
       BeginUpdate(e, b, d, s, v)
  \/ \E e \in Editor, l \in Loadout : UpdateLoadout(e, l)
  \/ \E e \in Editor : Rejected(e)
  \/ \E l \in Loadout, s \in Statuses : UpdateLoadoutStatus(l, s)
  \/ \E l \in Loadout : DeleteDesktopLoadout(l)

Next == LoadoutsNext \/ \E l \in Loadout, s \in Statuses : Moderate(l, s)

Spec == Init /\ [][Next]_store

-----------------------------------------------------------------------------
\* The build was stored by a creation, or by an edit under the data version that the
\* loadout was created with.
Native(r) == r.hash = Fingerprint(r.hash.build, r.data)

\* Two loadouts that are not deleted hold one build only if one of them is older than
\* build_hash or was edited under game data other than those it was created with,
\* whatever creations, edits, restorations, deletions and imports overlap: the
\* search for duplicates runs outside the transaction, and a deleted loadout's build
\* may be taken again.
TwinsComeFromOldRows ==
  \A k, l \in Loadout :
    /\ Shared(k) /\ Shared(l) /\ Native(row[k]) /\ Native(row[l])
    /\ row[k].hash.build = row[l].hash.build /\ row[k].hash.data = row[l].hash.data
    => k = l

\* Five writers keep the dates in step with the status: a public loadout has a
\* publication date (the public list sorts by it) and only a deleted one has
\* deleted_at, also after a loadout was deleted, restored and edited.
DatesFollowStatus ==
  \A l \in Loadout : /\ row[l].status = "published" => row[l].dated
                     /\ row[l].buried <=> row[l].status = "deleted"

\* While a loadout keeps the version an edit form was opened at, it keeps the
\* build the form shows; and its status too, unless a report was resolved.
FormsAreCurrent ==
  \A e \in Editor : LET l == edit[e].loadout IN
    l # NoLoadout =>
      /\ Exists(l) /\ edit[e].seen.version <= row[l].version /\ edit[e].seen.version > 0
      /\ edit[e].version \in {0, edit[e].seen.version}
      /\ row[l].version = edit[e].seen.version =>
           /\ row[l].hash = edit[e].seen.hash
           /\ row[l].status = edit[e].seen.status \/ edit[e].moderated

\* An update that carries a version replaces only what its author read: never
\* another edit, never a status change other than a report's resolution, which
\* leaves the version alone (and which the edit then silently undoes).
EditsReplaceWhatWasRead ==
  [][\A e \in Editor : LET l == edit[e].loadout IN
       /\ l # NoLoadout /\ edit[e].step = "checked" /\ edit[e].version # 0
       /\ edit'[e].step = "idle" /\ row'[l] # row[l]
       => /\ row[l].hash = edit[e].seen.hash
          /\ row[l].status = edit[e].seen.status \/ edit[e].moderated]_store

VersionsStart == \A l \in Loadout : Exists(l) => row[l].version > 0

\* What loadouts_unique_build_idx keeps.
KeysUnique == \A l \in Loadout : Shared(l) => KeyFree(row[l].hash, row[l].data, l)

\* The inductive invariant.
IInv == TypeOK /\ VersionsStart /\ KeysUnique /\ DatesFollowStatus /\ FormsAreCurrent
=============================================================================
