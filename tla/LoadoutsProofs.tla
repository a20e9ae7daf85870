--------------------------- MODULE LoadoutsProofs ---------------------------
(***************************************************************************)
(* Proofs about modules Loadouts and Feedback, for any number of loadouts, *)
(* builds and concurrent requests, and any bound on the versions.          *)
(***************************************************************************)
EXTENDS Feedback, FiniteSetTheorems, TLAPS

(***************************************************************************)
(* Loadouts.                                                               *)
(***************************************************************************)

\* What the two operators on rows do to each field.
LEMMA StatusFields ==
  ASSUME NEW r \in Row, NEW s \in Statuses
  PROVE  /\ WithStatus(r, s) \in Row
         /\ WithStatus(r, s).status = s
         /\ WithStatus(r, s).hash = r.hash
         /\ WithStatus(r, s).data = r.data
         /\ WithStatus(r, s).version = r.version
         /\ s = "published" => WithStatus(r, s).dated
         /\ WithStatus(r, s).buried <=> s = "deleted"
  <1>1. \E d, b \in BOOLEAN :
           /\ d = (r.dated \/ s = "published") /\ b = (s = "deleted")
           /\ WithStatus(r, s) = [r EXCEPT !.status = s, !.dated = d, !.buried = b]
    <2>1. (r.dated \/ s = "published") \in BOOLEAN /\ (s = "deleted") \in BOOLEAN
      OBVIOUS
    <2> QED BY <2>1, Zenon DEF WithStatus
  <1> QED BY <1>1 DEF Row

LEMMA VersionFields ==
  ASSUME NEW r \in Row
  PROVE  /\ NextVersion(r) \in Row
         /\ NextVersion(r).status = r.status
         /\ NextVersion(r).hash = r.hash
         /\ NextVersion(r).data = r.data
         /\ NextVersion(r).version = r.version + 1
         /\ NextVersion(r).dated = r.dated
         /\ NextVersion(r).buried = r.buried
  BY DEF NextVersion, Row

-----------------------------------------------------------------------------
\* r may replace the row of l: what every writer of the table guarantees.
Replaces(l, r) ==
  /\ r \in Row
  /\ r.status \in Statuses
  /\ r.version > 0 /\ (Exists(l) => r.version >= row[l].version)
  /\ r.status # "deleted" => KeyFree(r.hash, r.data, l)
  /\ r.status = "published" => r.dated
  /\ r.buried <=> r.status = "deleted"
  /\ Exists(l) /\ r.version = row[l].version =>
       /\ r.hash = row[l].hash
       /\ \A e \in Editor : edit[e].loadout = l => edit'[e].moderated

\* The two kinds of steps that write one row.
LEMMA Written ==
  ASSUME IInv, NEW l \in Loadout, NEW r \in Row, row' = [row EXCEPT ![l] = r], Replaces(l, r)
  PROVE  /\ row' \in [Loadout -> Row]
         /\ VersionsStart' /\ KeysUnique' /\ DatesFollowStatus'
  <1>1. row \in [Loadout -> Row]
    BY DEF IInv, TypeOK
  <1>2. row'[l] = r /\ \A k \in Loadout \ {l} : row'[k] = row[k]
    BY <1>1
  <1>3. row' \in [Loadout -> Row]
    BY <1>1
  <1>4. VersionsStart'
    BY <1>2 DEF IInv, VersionsStart, Replaces, Exists
  <1>5. KeysUnique'
    <2>1. \A k \in Loadout \ {l} : Shared(k) /\ Shared(l)' =>
             row[k].hash # row'[l].hash \/ row[k].data # row'[l].data
      BY <1>2 DEF Replaces, KeyFree, Taken, Shared
    <2>2. \A j, k \in Loadout \ {l} : j # k /\ Shared(j) /\ Shared(k) =>
             row[k].hash # row[j].hash \/ row[k].data # row[j].data
      BY DEF IInv, KeysUnique, KeyFree, Taken
    <2> QED BY <1>2, <2>1, <2>2 DEF KeysUnique, KeyFree, Taken, Shared
  <1>6. DatesFollowStatus'
    BY <1>2 DEF IInv, DatesFollowStatus, Replaces
  <1> QED BY <1>3, <1>4, <1>5, <1>6

LEMMA Unwritten ==
  ASSUME IInv, row' = row
  PROVE  /\ row' \in [Loadout -> Row]
         /\ VersionsStart' /\ KeysUnique' /\ DatesFollowStatus'
  BY DEF IInv, TypeOK, VersionsStart, KeysUnique, KeyFree, Taken, DatesFollowStatus, Exists,
         Shared

\* Every step leaves the table alone or writes one row as Replaces says.
LEMMA RowStep ==
  ASSUME IInv, Next
  PROVE  row' = row \/ \E l \in Loadout, r \in Row : row' = [row EXCEPT ![l] = r] /\ Replaces(l, r)
  <1>0. /\ row \in [Loadout -> Row] /\ edit \in [Editor -> Edit]
        /\ \A e \in Editor : edit[e].step = "checked" => edit[e].hash \in Hash
    BY DEF IInv, TypeOK
  <1>1. ASSUME NEW e \in Editor, NEW l \in Loadout, InsertLoadout(e, l)
        PROVE  \E r \in Row : row' = [row EXCEPT ![l] = r] /\ Replaces(l, r)
    <2> DEFINE r == [status |-> edit[e].status, hash |-> edit[e].hash, data |-> edit[e].hash.data,
                     version |-> 1, dated |-> edit[e].status = "published", buried |-> FALSE]
    <2>0. edit[e].hash \in Hash /\ edit[e].hash.data \in Data
      BY <1>0, <1>1 DEF InsertLoadout, Hash
    <2>1. r \in Row /\ row' = [row EXCEPT ![l] = r]
      BY <1>0, <1>1, <2>0 DEF InsertLoadout, Row, Edit, Statuses
    <2>2. Replaces(l, r)
      <3>1. edit[e].status \in {"published", "hidden"}
        BY <1>0 DEF Edit
      <3>2. /\ r.status = edit[e].status /\ r.hash = edit[e].hash /\ r.data = edit[e].hash.data
            /\ r.version = 1 /\ ~r.buried
            /\ r.status = "published" => r.dated
        OBVIOUS
      <3>3. ~Exists(l) /\ KeyFree(edit[e].hash, edit[e].hash.data, l)
        BY <1>1 DEF InsertLoadout
      <3> HIDE DEF r
      <3> QED BY <2>1, <3>1, <3>2, <3>3 DEF Replaces, Statuses
    <2> QED BY <2>1, <2>2
  <1>2. ASSUME NEW e \in Editor, NEW l \in Loadout, UpdateLoadout(e, l)
        PROVE  \E r \in Row : row' = [row EXCEPT ![l] = r] /\ Replaces(l, r)
    <2> DEFINE r == [status |-> edit[e].status, hash |-> edit[e].hash, data |-> row[l].data,
                     version |-> row[l].version + 1,
                     dated |-> row[l].dated \/ edit[e].status = "published",
                     buried |-> row[l].buried]
    <2>1. row[l] \in Row /\ edit[e] \in Edit
      BY <1>0
    <2>2. row' = [row EXCEPT ![l] = r]
      BY <1>2 DEF UpdateLoadout
    <2>3. r \in Row
      BY <2>1 DEF Row, Edit, Statuses
    <2>4. edit[e].status \in {"published", "hidden"} /\ row[l].version \in Nat
      BY <2>1 DEF Edit, Row
    <2>5. ~row[l].buried
      BY <1>2 DEF IInv, DatesFollowStatus, FormsAreCurrent, UpdateLoadout, Current, Shared
    <2>6. /\ r.status = edit[e].status /\ r.hash = edit[e].hash /\ r.data = row[l].data
          /\ r.version = row[l].version + 1 /\ ~r.buried
          /\ r.status = "published" => r.dated
      BY <2>5
    <2> HIDE DEF r
    <2>7. KeyFree(r.hash, r.data, l)
      BY <1>2, <2>6 DEF UpdateLoadout
    <2>8. Replaces(l, r)
      BY <2>3, <2>4, <2>6, <2>7 DEF Replaces, Statuses
    <2> QED BY <2>2, <2>3, <2>8
  <1>3. ASSUME NEW l \in Loadout, NEW s \in Statuses, UpdateLoadoutStatus(l, s)
        PROVE  \E r \in Row : row' = [row EXCEPT ![l] = r] /\ Replaces(l, r)
    <2> DEFINE w == WithStatus(row[l], s)
               r == NextVersion(w)
    <2>1. w \in Row /\ w.status = s /\ w.hash = row[l].hash /\ w.data = row[l].data /\ w.version = row[l].version
          /\ (s = "published" => w.dated) /\ (w.buried <=> s = "deleted")
      BY <1>0, StatusFields
    <2>2. r \in Row /\ r.status = w.status /\ r.hash = w.hash /\ r.data = w.data /\ r.version = w.version + 1
          /\ (r.dated <=> w.dated) /\ (r.buried <=> w.buried)
      BY <2>1, VersionFields
    <2>3. row' = [row EXCEPT ![l] = r]
      BY <1>3 DEF UpdateLoadoutStatus
    <2>4. row[l].version \in Nat /\ row[l].version > 0
      BY <1>0, <1>3 DEF IInv, VersionsStart, UpdateLoadoutStatus, Row
    <2> HIDE DEF w, r
    <2>5. Replaces(l, r)
      BY <1>3, <2>1, <2>2, <2>4 DEF Replaces, UpdateLoadoutStatus
    <2> QED BY <2>2, <2>3, <2>5
  <1>4. ASSUME NEW l \in Loadout, DeleteDesktopLoadout(l)
        PROVE  \E r \in Row : row' = [row EXCEPT ![l] = r] /\ Replaces(l, r)
    <2> DEFINE w == WithStatus(row[l], "deleted")
               r == NextVersion(w)
    <2>0. row[l] \in Row /\ "deleted" \in Statuses
      BY <1>0 DEF Statuses
    <2>1. w \in Row /\ w.status = "deleted" /\ w.hash = row[l].hash /\ w.data = row[l].data /\ w.version = row[l].version
          /\ w.buried
      BY <2>0, StatusFields
    <2>2. r \in Row /\ r.status = w.status /\ r.hash = w.hash /\ r.data = w.data /\ r.version = w.version + 1
          /\ (r.buried <=> w.buried)
      BY <2>1, VersionFields
    <2>3. row' = [row EXCEPT ![l] = r]
      BY <1>4 DEF DeleteDesktopLoadout
    <2>4. row[l].version \in Nat /\ row[l].version > 0
      BY <1>0, <1>4 DEF IInv, VersionsStart, DeleteDesktopLoadout, Row, Shared, Exists
    <2> HIDE DEF w, r
    <2>5. Replaces(l, r)
      BY <2>1, <2>2, <2>4 DEF Replaces, Statuses
    <2> QED BY <2>2, <2>3, <2>5
  <1>5. ASSUME NEW l \in Loadout, NEW s \in Statuses, Moderate(l, s)
        PROVE  \E r \in Row : row' = [row EXCEPT ![l] = r] /\ Replaces(l, r)
    <2> DEFINE r == WithStatus(row[l], s)
    <2>1. r \in Row /\ r.status = s /\ r.hash = row[l].hash /\ r.data = row[l].data
          /\ r.version = row[l].version /\ (s = "published" => r.dated) /\ (r.buried <=> s = "deleted")
      BY <1>0, StatusFields
    <2>2. row' = [row EXCEPT ![l] = r]
      BY <1>5 DEF Moderate
    <2>3. row[l].version \in Nat /\ row[l].version > 0
      BY <1>0, <1>5 DEF IInv, VersionsStart, Moderate, Row
    <2>4. \A e \in Editor : edit[e].loadout = l => edit'[e].moderated
      BY <1>0, <1>5 DEF Moderate, Edit
    <2> HIDE DEF r
    <2>5. Replaces(l, r)
      BY <1>5, <2>1, <2>3, <2>4 DEF Replaces, Moderate
    <2> QED BY <2>1, <2>2, <2>5
  <1>6. ASSUME NEW e \in Editor,
               \/ CloseEditor(e) \/ Rejected(e)
               \/ \E b \in Build, d \in Data, s \in Statuses : BeginCreate(e, b, d, s)
               \/ \E l \in Loadout : OpenEditor(e, l)
               \/ \E b \in Build, d \in Data, s \in Statuses, v \in 0 .. MaxWrites : BeginUpdate(e, b, d, s, v)
        PROVE  row' = row
    BY <1>6 DEF CloseEditor, Rejected, BeginCreate, OpenEditor, BeginUpdate
  <1> QED BY <1>1, <1>2, <1>3, <1>4, <1>5, <1>6, Zenon DEF Next, LoadoutsNext

-----------------------------------------------------------------------------
\* What a step makes of a form that stays open, or of a new one.
FormStep(e) ==
  \/ edit'[e].loadout = NoLoadout
  \/ /\ row' = row /\ Exists(edit'[e].loadout)
     /\ edit'[e].loadout \in Loadout
     /\ edit'[e].seen = Read(row[edit'[e].loadout]) /\ edit'[e].version = 0
  \/ /\ edit'[e].loadout = edit[e].loadout
     /\ edit'[e].seen = edit[e].seen
     /\ edit[e].moderated => edit'[e].moderated
     /\ edit'[e].version \in {0, edit[e].seen.version, edit[e].version}

LEMMA EditStep ==
  ASSUME IInv, Next
  PROVE  /\ edit' \in [Editor -> Edit]
         /\ \A e \in Editor : edit'[e].step = "checked" => edit'[e].hash \in Hash
         /\ \A e \in Editor : FormStep(e)
  <1> DEFINE Good == /\ edit' \in [Editor -> Edit]
                     /\ \A e \in Editor : edit'[e].step = "checked" => edit'[e].hash \in Hash
                     /\ \A e \in Editor : FormStep(e)
  <1>0. /\ row \in [Loadout -> Row] /\ edit \in [Editor -> Edit]
        /\ \A e \in Editor : edit[e].step = "checked" => edit[e].hash \in Hash
    BY DEF IInv, TypeOK
  <1>1. NoEdit \in Edit /\ NoEdit.loadout = NoLoadout /\ NoEdit.step # "checked"
        /\ NoEdit.version = 0
    BY DEF NoEdit, Edit, Seen, Read, NoRow
  <1>2. ASSUME NEW e \in Editor, NEW f \in Edit, edit' = [edit EXCEPT ![e] = f],
               f.step = "checked" => f.hash \in Hash, FormStep(e)
        PROVE  Good
    <2>1. \A d \in Editor : d # e => edit'[d] = edit[d]
      BY <1>0, <1>2
    <2>2. \A d \in Editor : d # e => FormStep(d)
      BY <2>1 DEF FormStep
    <2> QED BY <1>0, <1>2, <2>1, <2>2
  <1>3. ASSUME NEW e \in Editor, NEW b \in Build, NEW d \in Data, NEW s \in Statuses,
               BeginCreate(e, b, d, s)
        PROVE  Good
    <2> DEFINE f == [NoEdit EXCEPT !.step = "checked", !.status = s, !.hash = Fingerprint(b, d)]
    <2>0. Fingerprint(b, d) \in Hash
      BY DEF Fingerprint, Hash
    <2>1. f \in Edit /\ f.hash = Fingerprint(b, d) /\ f.loadout = NoLoadout
      BY <1>1, <1>3, <2>0 DEF BeginCreate, Edit, Statuses
    <2>2. edit' = [edit EXCEPT ![e] = f]
      BY <1>3 DEF BeginCreate
    <2> HIDE DEF f
    <2>3. FormStep(e)
      BY <1>0, <2>1, <2>2 DEF FormStep
    <2> QED BY <1>2, <2>0, <2>1, <2>2, <2>3
  <1>4. ASSUME NEW e \in Editor, edit' = [edit EXCEPT ![e] = NoEdit]
        PROVE  Good
    <2>1. FormStep(e)
      BY <1>0, <1>1, <1>4 DEF FormStep
    <2> QED BY <1>1, <1>2, <1>4, <2>1
  <1>5. ASSUME NEW e \in Editor, NEW l \in Loadout, OpenEditor(e, l)
        PROVE  Good
    <2> DEFINE f == [NoEdit EXCEPT !.step = "open", !.loadout = l, !.seen = Read(row[l])]
    <2>1. Read(row[l]) \in Seen
      BY <1>0 DEF Read, Seen, Row
    <2>2. f \in Edit /\ f.step = "open" /\ f.loadout = l /\ f.seen = Read(row[l]) /\ f.version = 0
      BY <1>1, <2>1 DEF Edit, NoEdit
    <2>3. edit' = [edit EXCEPT ![e] = f] /\ row' = row /\ Exists(l)
      BY <1>5 DEF OpenEditor
    <2> HIDE DEF f
    <2>4. FormStep(e)
      BY <1>0, <2>2, <2>3 DEF FormStep
    <2> QED BY <1>2, <2>2, <2>3, <2>4
  <1>6. ASSUME NEW e \in Editor, NEW b \in Build, NEW d \in Data, NEW s \in Statuses,
               NEW v \in 0 .. MaxWrites, BeginUpdate(e, b, d, s, v)
        PROVE  Good
    <2> DEFINE f == [edit[e] EXCEPT !.step = "checked", !.hash = Fingerprint(b, d), !.status = s,
                                    !.version = v]
    <2>0. Fingerprint(b, d) \in Hash
      BY DEF Fingerprint, Hash
    <2>1. s \in {"published", "hidden"} /\ v \in Nat /\ v \in {0, edit[e].seen.version}
      BY <1>6, LoadoutsAssumption DEF BeginUpdate, Statuses
    <2>2. /\ f \in Edit /\ f.hash = Fingerprint(b, d) /\ f.loadout = edit[e].loadout
          /\ f.seen = edit[e].seen /\ f.version = v /\ f.moderated = edit[e].moderated
      BY <1>0, <2>0, <2>1 DEF Edit
    <2>3. edit' = [edit EXCEPT ![e] = f]
      BY <1>0, <1>6 DEF BeginUpdate
    <2> HIDE DEF f
    <2>4. FormStep(e)
      BY <1>0, <2>1, <2>2, <2>3 DEF FormStep
    <2> QED BY <1>2, <2>0, <2>2, <2>3, <2>4
  <1>7. ASSUME NEW e \in Editor, Rejected(e)
        PROVE  Good
    <2> DEFINE f == [edit[e] EXCEPT !.step = "open", !.hash = NoHash,
                                    !.status = "published", !.version = 0]
    <2>1. CASE edit[e].loadout = NoLoadout
      BY <1>4, <1>7, <2>1 DEF Rejected
    <2>2. CASE edit[e].loadout # NoLoadout
      <3>1. /\ f \in Edit /\ f.step = "open" /\ f.loadout = edit[e].loadout
            /\ f.seen = edit[e].seen /\ f.version = 0 /\ f.moderated = edit[e].moderated
        BY <1>0 DEF Edit
      <3>2. edit' = [edit EXCEPT ![e] = f]
        BY <1>0, <1>7, <2>2 DEF Rejected
      <3> HIDE DEF f
      <3>3. FormStep(e)
        BY <1>0, <3>1, <3>2 DEF FormStep
      <3> QED BY <1>2, <3>1, <3>2, <3>3
    <2> QED BY <2>1, <2>2
  <1>8. ASSUME edit' = edit
        PROVE  Good
    BY <1>0, <1>8 DEF FormStep
  <1>9. ASSUME NEW l \in Loadout, NEW s \in Statuses, Moderate(l, s)
        PROVE  Good
    <2>1. \A e \in Editor :
             /\ edit'[e] \in Edit /\ edit'[e].step = edit[e].step /\ edit'[e].hash = edit[e].hash
             /\ edit'[e].loadout = edit[e].loadout /\ edit'[e].seen = edit[e].seen
             /\ edit'[e].version = edit[e].version /\ (edit[e].moderated => edit'[e].moderated)
      <3> SUFFICES ASSUME NEW e \in Editor
                   PROVE  /\ edit'[e] \in Edit /\ edit'[e].step = edit[e].step
                          /\ edit'[e].hash = edit[e].hash
                          /\ edit'[e].loadout = edit[e].loadout /\ edit'[e].seen = edit[e].seen
                          /\ edit'[e].version = edit[e].version
                          /\ (edit[e].moderated => edit'[e].moderated)
        OBVIOUS
      <3>1. edit[e] \in Edit /\ edit'[e] = (IF edit[e].loadout = l
                                              THEN [edit[e] EXCEPT !.moderated = TRUE] ELSE edit[e])
        BY <1>0, <1>9 DEF Moderate
      <3>2. CASE edit[e].loadout = l
        BY <3>1, <3>2 DEF Edit
      <3>3. CASE edit[e].loadout # l
        BY <3>1, <3>3
      <3> QED BY <3>2, <3>3
    <2>2. edit' \in [Editor -> Edit]
      BY <1>9, <2>1 DEF Moderate
    <2> QED BY <1>0, <2>1, <2>2 DEF FormStep
  <1>10. ASSUME NEW e \in Editor, NEW l \in Loadout, InsertLoadout(e, l) \/ UpdateLoadout(e, l)
         PROVE  Good
    BY <1>4, <1>10 DEF InsertLoadout, UpdateLoadout
  <1>11. ASSUME NEW l \in Loadout, NEW s \in Statuses,
                UpdateLoadoutStatus(l, s) \/ DeleteDesktopLoadout(l)
         PROVE  Good
    BY <1>8, <1>11 DEF UpdateLoadoutStatus, DeleteDesktopLoadout
  <1>12. ASSUME NEW e \in Editor, CloseEditor(e)
         PROVE  Good
    BY <1>4, <1>12 DEF CloseEditor
  <1> HIDE DEF Good
  <1>13. Good
    <2>1. \A l \in Loadout : DeleteDesktopLoadout(l) => Good
      BY <1>11 DEF Statuses
    <2> QED BY <1>3, <1>5, <1>6, <1>7, <1>9, <1>10, <1>11, <1>12, <2>1 DEF Next, LoadoutsNext
  <1> QED BY <1>13 DEF Good

\* The forms stay current: the rows and the forms of a step, put together.
LEMMA FormsStep ==
  ASSUME IInv, Next
  PROVE  FormsAreCurrent'
  <1> SUFFICES ASSUME NEW e \in Editor, edit'[e].loadout # NoLoadout
               PROVE  LET l == edit'[e].loadout IN
                        /\ row'[l].status # "absent"
                        /\ edit'[e].seen.version <= row'[l].version /\ edit'[e].seen.version > 0
                        /\ edit'[e].version \in {0, edit'[e].seen.version}
                        /\ row'[l].version = edit'[e].seen.version =>
                             /\ row'[l].hash = edit'[e].seen.hash
                             /\ row'[l].status = edit'[e].seen.status \/ edit'[e].moderated
    BY DEF FormsAreCurrent, Exists
  <1> DEFINE l == edit'[e].loadout
  <1>0. row \in [Loadout -> Row] /\ edit \in [Editor -> Edit] /\ edit' \in [Editor -> Edit]
        /\ FormStep(e)
    BY EditStep DEF IInv, TypeOK
  <1>1. CASE row' = row /\ Exists(l) /\ l \in Loadout /\ edit'[e].seen = Read(row[l]) /\ edit'[e].version = 0
    BY <1>0, <1>1 DEF IInv, VersionsStart, Exists, Read, Row
  <1>2. CASE /\ edit'[e].loadout = edit[e].loadout
             /\ edit'[e].seen = edit[e].seen
             /\ edit[e].moderated => edit'[e].moderated
             /\ edit'[e].version \in {0, edit[e].seen.version, edit[e].version}
    <2>1. /\ l \in Loadout /\ Exists(l) /\ row[l] \in Row
          /\ edit[e].seen.version <= row[l].version /\ edit[e].seen.version > 0
          /\ edit[e].version \in {0, edit[e].seen.version}
          /\ row[l].version = edit[e].seen.version =>
                /\ row[l].hash = edit[e].seen.hash
                /\ row[l].status = edit[e].seen.status \/ edit[e].moderated
      <3>1. edit[e].loadout = l /\ l # NoLoadout /\ l \in Loadout
        BY <1>0, <1>2 DEF Edit
      <3> HIDE DEF l
      <3> QED BY <1>0, <3>1 DEF IInv, FormsAreCurrent
    <2>2. edit[e].seen.version \in Nat /\ edit[e].loadout = l
      BY <1>0, <1>2 DEF Edit, Seen
    <2> HIDE DEF l
    <2>3. CASE row'[l] = row[l]
      BY <1>2, <2>1, <2>2, <2>3 DEF Exists, l
    <2>4. ASSUME NEW r \in Row, Replaces(l, r), row'[l] = r
          PROVE  /\ row'[l].status # "absent" /\ edit[e].seen.version <= row'[l].version
                 /\ row'[l].version = edit[e].seen.version =>
                      row'[l].hash = edit[e].seen.hash /\ edit'[e].moderated
      <3>1. r.status # "absent"
        BY <2>4 DEF Replaces, Statuses
      <3>2. r.version \in Nat /\ row[l].version \in Nat /\ r.version >= row[l].version
        BY <2>1, <2>4 DEF Replaces, Row
      <3>3. r.version = row[l].version => r.hash = row[l].hash /\ edit'[e].moderated
        BY <2>1, <2>2, <2>4 DEF Replaces
      <3> QED BY <2>1, <2>2, <2>4, <3>1, <3>2, <3>3
    <2>5. row'[l] = row[l] \/ \E r \in Row : Replaces(l, r) /\ row'[l] = r
      BY <1>0, <2>1, RowStep
    <2> QED BY <1>2, <2>1, <2>3, <2>4, <2>5 DEF l
  <1> QED BY <1>0, <1>1, <1>2 DEF FormStep

\* The type invariant, the unique builds, the dates and the currency of the
\* forms hold together: each writer of the table needs some of the others.
LEMMA Inductive == IInv /\ [Next]_store => IInv'
  <1> SUFFICES ASSUME IInv, [Next]_store PROVE IInv'
    OBVIOUS
  <1>1. CASE Next
    <2>1. row' \in [Loadout -> Row] /\ VersionsStart' /\ KeysUnique' /\ DatesFollowStatus'
      BY <1>1, RowStep, Written, Unwritten
    <2>2. TypeOK'
      BY <1>1, <2>1, EditStep DEF TypeOK
    <2>3. FormsAreCurrent'
      BY <1>1, FormsStep
    <2> QED BY <2>1, <2>2, <2>3 DEF IInv
  <1>2. CASE UNCHANGED store
    BY <1>2 DEF store, IInv, TypeOK, VersionsStart, KeysUnique, KeyFree, Taken,
                DatesFollowStatus, FormsAreCurrent, Exists, Shared
  <1> QED BY <1>1, <1>2

\* The table starts empty, or with rows whose build_hash the migration filled in.
LEMMA Initial == Init => IInv
  <1> SUFFICES ASSUME Init PROVE IInv
    OBVIOUS
  <1>1. /\ \A l \in Loadout : row[l] \in Legacy \/ row[l] = NoRow
        /\ edit = [e \in Editor |-> NoEdit]
    BY DEF Init
  <1>2. Legacy \subseteq Row /\ NoRow \in Row
    BY LoadoutsAssumption DEF Legacy, Row, NoRow
  <1>3. row \in [Loadout -> Row]
    BY <1>2 DEF Init
  <1>4. TypeOK
    BY <1>1, <1>3 DEF TypeOK, NoEdit, Edit, Seen, Read, NoRow
  <1>5. VersionsStart /\ DatesFollowStatus
    BY <1>1 DEF Legacy, NoRow, VersionsStart, DatesFollowStatus, Exists
  <1>6. KeysUnique
    BY DEF Init, KeysUnique
  <1>7. FormsAreCurrent
    BY <1>1 DEF FormsAreCurrent, NoEdit
  <1> QED BY <1>4, <1>5, <1>6, <1>7 DEF IInv

\* Whatever creates, edits, deletes and restores loadouts at the same time, IInv
\* holds.
THEOREM InductiveInvariant == Spec => []IInv
  BY Initial, Inductive, PTL DEF Spec

\* Every reachable state has the types of the tables and requests.
THEOREM TypeCorrect == Spec => []TypeOK
  <1>1. IInv => TypeOK
    BY DEF IInv
  <1> QED BY <1>1, InductiveInvariant, PTL

\* Of two loadouts that are not deleted and hold one build, one is older than
\* build_hash or was edited under other game data than it was created with: between
\* the others the unique index compares all there is to compare.
THEOREM TwinsAreExplained == Spec => []TwinsComeFromOldRows
  <1>1. IInv => TwinsComeFromOldRows
    <2> SUFFICES ASSUME IInv, NEW k \in Loadout, NEW l \in Loadout, k # l, Shared(k), Shared(l),
                        Native(row[k]), Native(row[l]), row[k].hash.build = row[l].hash.build,
                        row[k].hash.data = row[l].hash.data
                 PROVE  FALSE
      BY DEF TwinsComeFromOldRows
    <2>1. row[k].data = row[k].hash.data /\ row[l].data = row[l].hash.data
      BY DEF Native, Fingerprint
    <2>2. row[k].hash = row[l].hash /\ row[k].data = row[l].data
      BY <2>1 DEF Native
    <2> QED BY <2>2 DEF IInv, KeysUnique, KeyFree, Taken
  <1> QED BY <1>1, InductiveInvariant, PTL

\* A public loadout has its publication date, and only a deleted one has
\* deleted_at.
THEOREM DatesStayRight == Spec => []DatesFollowStatus
  <1>1. IInv => DatesFollowStatus
    BY DEF IInv
  <1> QED BY <1>1, InductiveInvariant, PTL

\* An open form shows the build of its row as long as the version is the same.
THEOREM FormsStayCurrent == Spec => []FormsAreCurrent
  <1>1. IInv => FormsAreCurrent
    BY DEF IInv
  <1> QED BY <1>1, InductiveInvariant, PTL

-----------------------------------------------------------------------------
\* Only the form's own UPDATE writes its loadout in the step that ends it.
LEMMA OwnUpdate ==
  ASSUME TypeOK, Next, NEW e \in Editor, NEW l, l = edit[e].loadout, l # NoLoadout,
         edit[e].step = "checked", edit'[e].step = "idle", row'[l] # row[l]
  PROVE  UpdateLoadout(e, l)
  <1>0. edit \in [Editor -> Edit]
    BY DEF TypeOK
  <1>1. ASSUME NEW d \in Editor, d # e, NEW f, edit' = [edit EXCEPT ![d] = f]
        PROVE  FALSE
    BY <1>0, <1>1
  <1>2. ASSUME NEW d \in Editor,
               \/ CloseEditor(d) \/ Rejected(d)
               \/ \E b \in Build, x \in Data, s \in Statuses : BeginCreate(d, b, x, s)
               \/ \E k \in Loadout : OpenEditor(d, k)
               \/ \E b \in Build, x \in Data, s \in Statuses, v \in 0 .. MaxWrites : BeginUpdate(d, b, x, s, v)
        PROVE  FALSE
    BY <1>2 DEF CloseEditor, Rejected, BeginCreate, OpenEditor, BeginUpdate
  <1>3. ASSUME NEW d \in Editor, NEW k \in Loadout, InsertLoadout(d, k)
        PROVE  FALSE
    <2>1. d = e
      BY <1>1, <1>3 DEF InsertLoadout
    <2> QED BY <1>3, <2>1 DEF InsertLoadout
  <1>4. ASSUME NEW d \in Editor, NEW k \in Loadout, UpdateLoadout(d, k)
        PROVE  UpdateLoadout(e, l)
    <2>1. d = e
      BY <1>1, <1>4 DEF UpdateLoadout
    <2> QED BY <1>4, <2>1 DEF UpdateLoadout
  <1>5. ASSUME NEW k \in Loadout, NEW s \in Statuses, UpdateLoadoutStatus(k, s) \/ DeleteDesktopLoadout(k)
        PROVE  FALSE
    BY <1>5 DEF UpdateLoadoutStatus, DeleteDesktopLoadout
  <1>6. ASSUME NEW k \in Loadout, NEW s \in Statuses, Moderate(k, s)
        PROVE  FALSE
    <2>1. edit'[e].step = edit[e].step
      BY <1>0, <1>6 DEF Moderate, Edit
    <2> QED BY <2>1
  <1>7. \A k \in Loadout : ~DeleteDesktopLoadout(k)
    BY <1>5 DEF Statuses
  <1> QED BY <1>2, <1>3, <1>4, <1>5, <1>6, <1>7 DEF Next, LoadoutsNext

\* A versioned update replaces only what its author read, or what the
\* resolution of a report left under the same version.
THEOREM UpdatesAreInformed == Spec => EditsReplaceWhatWasRead
  <1> DEFINE Informed ==
        \A e \in Editor : LET l == edit[e].loadout IN
          /\ l # NoLoadout /\ edit[e].step = "checked" /\ edit[e].version # 0
          /\ edit'[e].step = "idle" /\ row'[l] # row[l]
          => /\ row[l].hash = edit[e].seen.hash
             /\ row[l].status = edit[e].seen.status \/ edit[e].moderated
  <1>1. IInv /\ [Next]_store => Informed
    <2> SUFFICES ASSUME IInv, [Next]_store, NEW e \in Editor, NEW l, l = edit[e].loadout,
                        l # NoLoadout, edit[e].step = "checked", edit[e].version # 0,
                        edit'[e].step = "idle", row'[l] # row[l]
                 PROVE  /\ row[l].hash = edit[e].seen.hash
                        /\ row[l].status = edit[e].seen.status \/ edit[e].moderated
      OBVIOUS
    <2>1. Next
      BY DEF store
    <2>2. UpdateLoadout(e, l)
      BY <2>1, OwnUpdate DEF IInv
    <2>3. edit[e].version = row[l].version
      BY <2>2 DEF UpdateLoadout, Current
    <2> QED BY <2>3 DEF IInv, FormsAreCurrent
  <1>2. IInv /\ [Next]_store => [Informed]_store
    BY <1>1
  <1> QED BY <1>2, InductiveInvariant, PTL DEF Spec, EditsReplaceWhatWasRead

-----------------------------------------------------------------------------
(***************************************************************************)
(* Feedback, for any number of reports and requests as well.  Reports and  *)
(* likes leave the loadouts as module Loadouts has them, so what is proved *)
(* of it holds there.                                                      *)
(***************************************************************************)

\* A loadout that exists has a build, and one that does not has never been written.
Built == \A l \in Loadout : IF Exists(l) THEN row[l].hash \in Hash ELSE row[l].version = 0

\* Reports and requests name a loadout and a user.
Named ==
  /\ \A p \in Report : Filed(p) => report[p].loadout \in Loadout
  /\ \A f \in Filing : filing[f] # NoFiling => filing[f].loadout \in Loadout /\ filing[f].by \in User

\* What is public now has been shown.
ShownNow == \A l \in Loadout : Public(l) => row[l].hash \in shown[l]

FeedInv == FeedbackTypeOK /\ IInv /\ Built /\ Named /\ ShownNow /\ FeedbackOnShown

-----------------------------------------------------------------------------
(* What the steps of Loadouts do to the table.                             *)

\* A step of Loadouts leaves the table alone, or writes one row with a build and
\* the next version.
LEMMA LoadoutRow ==
  ASSUME IInv, Built, LoadoutsNext
  PROVE  \/ row' = row
         \/ \E l \in Loadout, r \in Row :
              /\ row' = [row EXCEPT ![l] = r] /\ r.status \in Statuses /\ r.hash \in Hash
              /\ r.version = row[l].version + 1
<1>0. /\ row \in [Loadout -> Row] /\ edit \in [Editor -> Edit]
      /\ \A e \in Editor : edit[e].step = "checked" => edit[e].hash \in Hash
  BY DEF IInv, TypeOK
<1>1. ASSUME NEW e \in Editor, NEW l \in Loadout, InsertLoadout(e, l)
      PROVE  \E r \in Row : /\ row' = [row EXCEPT ![l] = r] /\ r.status \in Statuses
                            /\ r.hash \in Hash /\ r.version = row[l].version + 1
  <2> DEFINE dated == edit[e].status = "published"
             r == [status |-> edit[e].status, hash |-> edit[e].hash, data |-> edit[e].hash.data,
                   version |-> 1, dated |-> dated, buried |-> FALSE]
  <2>1. row' = [row EXCEPT ![l] = r]
    BY <1>1, Zenon DEF InsertLoadout
  <2>2. /\ edit[e].hash \in Hash /\ edit[e].hash.data \in Data
        /\ edit[e].status \in {"published", "hidden"} /\ row[l].version = 0
    BY <1>0, <1>1 DEF InsertLoadout, Edit, Hash, Built
  <2>3. dated \in BOOLEAN
    OBVIOUS
  <2> HIDE DEF dated
  <2>4. /\ r \in Row /\ r.status \in Statuses /\ r.hash \in Hash /\ r.version = row[l].version + 1
    BY <2>2, <2>3 DEF Row, Statuses
  <2> QED BY <2>1, <2>4
<1>2. ASSUME NEW e \in Editor, NEW l \in Loadout, UpdateLoadout(e, l)
      PROVE  \E r \in Row : /\ row' = [row EXCEPT ![l] = r] /\ r.status \in Statuses
                            /\ r.hash \in Hash /\ r.version = row[l].version + 1
  <2> DEFINE dated == row[l].dated \/ edit[e].status = "published"
             r == [status |-> edit[e].status, hash |-> edit[e].hash, data |-> row[l].data,
                   version |-> row[l].version + 1, dated |-> dated, buried |-> row[l].buried]
  <2>1. row' = [row EXCEPT ![l] = r]
    BY <1>0, <1>2 DEF UpdateLoadout
  <2>2. /\ edit[e].hash \in Hash /\ edit[e].status \in {"published", "hidden"}
        /\ row[l].version \in Nat /\ row[l].buried \in BOOLEAN /\ row[l].data \in Data \cup {NoData}
    BY <1>0, <1>2 DEF UpdateLoadout, Edit, Row
  <2>3. dated \in BOOLEAN
    BY Zenon
  <2> HIDE DEF dated
  <2>4. /\ r \in Row /\ r.status \in Statuses /\ r.hash \in Hash /\ r.version = row[l].version + 1
    BY <2>2, <2>3 DEF Row, Statuses
  <2> QED BY <2>1, <2>4
<1>3. ASSUME NEW l \in Loadout, NEW s \in Statuses, Exists(l),
             row' = [row EXCEPT ![l] = NextVersion(WithStatus(row[l], s))]
      PROVE  \E r \in Row : /\ row' = [row EXCEPT ![l] = r] /\ r.status \in Statuses
                            /\ r.hash \in Hash /\ r.version = row[l].version + 1
  <2>1. PICK w \in Row : /\ w = WithStatus(row[l], s) /\ w.status = s
                         /\ w.hash = row[l].hash /\ w.data = row[l].data /\ w.version = row[l].version
    BY <1>0, StatusFields
  <2>2. PICK r \in Row : /\ r = NextVersion(w) /\ r.status = s
                         /\ r.hash = row[l].hash /\ r.version = row[l].version + 1
    BY <2>1, VersionFields
  <2>3. row[l].hash \in Hash
    BY <1>3 DEF Built
  <2> QED BY <1>3, <2>1, <2>2, <2>3
<1>4. ASSUME NEW l \in Loadout, NEW s \in Statuses, UpdateLoadoutStatus(l, s)
      PROVE  Exists(l) /\ row' = [row EXCEPT ![l] = NextVersion(WithStatus(row[l], s))]
  BY <1>0, <1>4 DEF UpdateLoadoutStatus
<1>5. ASSUME NEW l \in Loadout, DeleteDesktopLoadout(l)
      PROVE  Exists(l) /\ row' = [row EXCEPT ![l] = NextVersion(WithStatus(row[l], "deleted"))]
  BY <1>0, <1>5 DEF DeleteDesktopLoadout, Shared, Exists
<1>6. ASSUME NEW e \in Editor
      PROVE  /\ \A b \in Build, d \in Data, s \in Statuses : BeginCreate(e, b, d, s) => row' = row
             /\ \A b \in Build, d \in Data, s \in Statuses, v \in 0 .. MaxWrites :
                  BeginUpdate(e, b, d, s, v) => row' = row
             /\ \A l \in Loadout : OpenEditor(e, l) => row' = row
             /\ CloseEditor(e) \/ Rejected(e) => row' = row
  BY DEF BeginCreate, BeginUpdate, OpenEditor, CloseEditor, Rejected
<1>7. "deleted" \in Statuses
  BY DEF Statuses
<1>8. ASSUME NEW l \in Loadout, NEW s \in Statuses, UpdateLoadoutStatus(l, s)
      PROVE  \E r \in Row : /\ row' = [row EXCEPT ![l] = r] /\ r.status \in Statuses
                            /\ r.hash \in Hash /\ r.version = row[l].version + 1
  BY <1>3, <1>4, <1>8
<1>9. ASSUME NEW l \in Loadout, DeleteDesktopLoadout(l)
      PROVE  \E r \in Row : /\ row' = [row EXCEPT ![l] = r] /\ r.status \in Statuses
                            /\ r.hash \in Hash /\ r.version = row[l].version + 1
  BY <1>3, <1>5, <1>7, <1>9
<1> QED
  BY <1>1, <1>2, <1>6, <1>8, <1>9 DEF LoadoutsNext

\* The resolution of a report writes one row that exists, and keeps its build and
\* its version.
LEMMA ModeratedRow ==
  ASSUME IInv, Built, NEW l \in Loadout, NEW s \in Statuses, Moderate(l, s)
  PROVE  \E r \in Row :
           /\ row' = [row EXCEPT ![l] = r] /\ r.status \in Statuses /\ r.hash \in Hash
           /\ r.version = row[l].version /\ Exists(l)
<1>1. row \in [Loadout -> Row] /\ Exists(l)
  BY DEF IInv, TypeOK, Moderate
<1>2. row' = [row EXCEPT ![l] = WithStatus(row[l], s)]
  BY <1>1 DEF Moderate
<1>3. PICK r \in Row : /\ r = WithStatus(row[l], s) /\ r.status = s
                       /\ r.hash = row[l].hash /\ r.version = row[l].version
  BY <1>1, StatusFields
<1> QED BY <1>1, <1>2, <1>3 DEF Built

-----------------------------------------------------------------------------
(* The refinement.                                                         *)

\* A report that can be resolved is of a loadout, so that its action is a step of
\* Loadouts, and everything else is too or leaves the loadouts alone.
LEMMA StoreStep ==
  ASSUME Named, [FeedbackNext]_vars
  PROVE  [Next]_store
<1>1. ASSUME NEW p \in Report, NEW s \in {"resolved", "dismissed"}, NEW to \in Statuses,
             ResolveReport(p, s, to)
      PROVE  Next
  <2>1. report[p].loadout \in Loadout
    BY <1>1 DEF Named, ResolveReport, Resolvable, Filed
  <2> QED BY <1>1, <2>1 DEF ResolveReport, Next
<1>2. CASE LoadoutsNext
  BY <1>2 DEF Next
<1>3. CASE UNCHANGED store
  BY <1>3
<1> QED
  BY <1>1, <1>2, <1>3
     DEF FeedbackNext, vars, CountReports, CountFails, InsertReport, NoInsert, Age, CloseReport,
         LikeLoadout, UnlikeLoadout

-----------------------------------------------------------------------------
(* The invariant, first as far as it is about the loadouts.                *)

\* What a step that may write the table does to it and to what was shown.
LEMMA Remembered ==
  ASSUME FeedInv, Remember,
         \/ row' = row
         \/ \E l \in Loadout, r \in Row :
              row' = [row EXCEPT ![l] = r] /\ r.status \in Statuses /\ r.hash \in Hash
  PROVE  /\ Built' /\ ShownNow' /\ shown' \in [Loadout -> SUBSET Hash]
         /\ \A l \in Loadout : shown[l] \subseteq shown'[l]
<1>0. row \in [Loadout -> Row] /\ shown \in [Loadout -> SUBSET Hash]
  BY DEF FeedInv, FeedbackTypeOK, TypeOK
<1>1. Built'
  <2>1. CASE row' = row
    BY <2>1 DEF FeedInv, Built, Exists
  <2>2. ASSUME NEW l \in Loadout, NEW r \in Row,
               row' = [row EXCEPT ![l] = r], r.status \in Statuses, r.hash \in Hash
        PROVE  Built'
    BY <1>0, <2>2 DEF FeedInv, Built, Exists, Statuses
  <2> QED BY <2>1, <2>2
<1>2. ASSUME NEW l \in Loadout
      PROVE  shown'[l] = shown[l] \cup (IF row'[l].status = "published" THEN {row'[l].hash} ELSE {})
  BY DEF Remember
<1>3. ASSUME NEW l \in Loadout PROVE shown'[l] \subseteq Hash
  <2>1. row'[l].status = "published" => row'[l].hash \in Hash
    BY <1>1 DEF Built, Exists
  <2> QED BY <1>0, <1>2, <2>1
<1>4. shown' \in [Loadout -> SUBSET Hash]
  <2>1. shown' = [l \in Loadout |-> shown'[l]]
    BY <1>2 DEF Remember
  <2> QED BY <1>3, <2>1
<1>5. ShownNow'
  BY <1>2 DEF ShownNow, Public
<1> QED BY <1>1, <1>2, <1>4, <1>5

\* Nothing is written.
LEMMA StoreKept ==
  ASSUME FeedInv, UNCHANGED <<row, shown>>
  PROVE  /\ Built' /\ ShownNow' /\ shown' \in [Loadout -> SUBSET Hash]
         /\ \A l \in Loadout : shown[l] \subseteq shown'[l]
  BY DEF FeedInv, FeedbackTypeOK, Built, Exists, ShownNow, Public

-----------------------------------------------------------------------------
(* The invariant.                                                          *)

\* What a step must leave in order: reports keep what they are about or are new and
\* of a public loadout, and so on for requests and likes.
ReportsKeep ==
  /\ report' \in [Report -> ReportRow]
  /\ \A p \in Report : Filed(p)' =>
       \/ Filed(p) /\ report'[p].loadout = report[p].loadout
                   /\ report'[p].evidence = report[p].evidence
       \/ \E l \in Loadout : /\ report'[p].loadout = l /\ Public(l) /\ row' = row
                             /\ report'[p].evidence = row[l].hash
FilingsKeep ==
  /\ filing' \in [Filing -> [by : User \cup {NoUser}, loadout : Loadout \cup {NoLoadout}]]
  /\ \A f \in Filing :
       \/ filing'[f] \in {filing[f], NoFiling}
       \/ filing'[f].by \in User /\ filing'[f].loadout \in Loadout
LikesKeep ==
  /\ liked' \in [User -> SUBSET Loadout]
  /\ \A u \in User : \A l \in liked'[u] : l \in liked[u] \/ Public(l)

\* A step that keeps all of these in order preserves the invariant.
LEMMA Assembled ==
  ASSUME FeedInv, [FeedbackNext]_vars, ReportsKeep, FilingsKeep, LikesKeep, faults' \in 0 .. MaxFaults,
         Built', ShownNow', shown' \in [Loadout -> SUBSET Hash],
         \A l \in Loadout : shown[l] \subseteq shown'[l]
  PROVE  FeedInv'
<1>1. IInv'
  BY StoreStep, Inductive DEF FeedInv
<1>2. FeedbackTypeOK'
  BY <1>1 DEF FeedbackTypeOK, IInv, ReportsKeep, FilingsKeep, LikesKeep
<1>3. Named'
  <2>1. \A p \in Report : Filed(p)' => report'[p].loadout \in Loadout
    BY DEF FeedInv, Named, ReportsKeep
  <2>2. \A f \in Filing : filing'[f] # NoFiling =>
          filing'[f].loadout \in Loadout /\ filing'[f].by \in User
    BY DEF FeedInv, Named, FilingsKeep
  <2> QED BY <2>1, <2>2 DEF Named
<1>4. FeedbackOnShown'
  <2>1. ASSUME NEW p \in Report, Filed(p)'
        PROVE  report'[p].evidence \in shown'[report'[p].loadout]
    <3>1. CASE Filed(p) /\ report'[p].loadout = report[p].loadout
                        /\ report'[p].evidence = report[p].evidence
      BY <3>1 DEF FeedInv, Named, FeedbackOnShown
    <3>2. ASSUME NEW l \in Loadout, report'[p].loadout = l, Public(l),
                 report'[p].evidence = row[l].hash
          PROVE  report'[p].evidence \in shown'[report'[p].loadout]
      BY <3>2 DEF FeedInv, ShownNow
    <3> QED BY <2>1, <3>1, <3>2 DEF ReportsKeep
  <2>2. ASSUME NEW u \in User, NEW l \in liked'[u] PROVE shown'[l] # {}
    <3>1. l \in Loadout
      BY DEF LikesKeep
    <3>2. shown[l] # {}
      BY <3>1 DEF LikesKeep, FeedInv, FeedbackOnShown, ShownNow
    <3> QED BY <3>1, <3>2
  <2> QED BY <2>1, <2>2 DEF FeedbackOnShown
<1> QED BY <1>1, <1>2, <1>3, <1>4 DEF FeedInv

\* Every step preserves FeedInv: one case per action.
LEMMA FeedStep == FeedInv /\ [FeedbackNext]_vars => FeedInv'
<1> SUFFICES ASSUME FeedInv, [FeedbackNext]_vars PROVE FeedInv'
  OBVIOUS
<1>0. /\ report \in [Report -> ReportRow] /\ row \in [Loadout -> Row]
      /\ filing \in [Filing -> [by : User \cup {NoUser}, loadout : Loadout \cup {NoLoadout}]]
      /\ liked \in [User -> SUBSET Loadout] /\ faults \in 0 .. MaxFaults /\ MaxFaults \in Nat
  BY FeedbackAssumption DEF FeedInv, FeedbackTypeOK, TypeOK
<1>r. report' = report => ReportsKeep
  BY <1>0 DEF ReportsKeep, Filed
<1>f. filing' = filing => FilingsKeep
  BY <1>0 DEF FilingsKeep
<1>l. liked' = liked => LikesKeep
  BY <1>0 DEF LikesKeep
\* A report is closed, or grows old.
<1>c. ASSUME NEW p \in Report, Filed(p), NEW new \in ReportRow, report' = [report EXCEPT ![p] = new],
             new.loadout = report[p].loadout, new.evidence = report[p].evidence
      PROVE  ReportsKeep
  BY <1>0, <1>c DEF ReportsKeep, Filed
\* A request ends.
<1>e. ASSUME NEW f \in Filing, filing' = [filing EXCEPT ![f] = NoFiling] PROVE FilingsKeep
  BY <1>0, <1>e DEF FilingsKeep, NoFiling
<1>1. CASE UNCHANGED vars
  BY <1>0, <1>1, <1>r, <1>f, <1>l, StoreKept, Assembled DEF vars, store, reports
<1>2. CASE LoadoutsNext /\ Remember /\ UNCHANGED <<reports, liked>>
  <2>1. /\ Built' /\ ShownNow' /\ shown' \in [Loadout -> SUBSET Hash]
        /\ \A l \in Loadout : shown[l] \subseteq shown'[l]
    BY <1>2, LoadoutRow, Remembered DEF FeedInv
  <2> QED BY <1>0, <1>2, <1>r, <1>f, <1>l, <2>1, Assembled DEF reports
<1>3. ASSUME NEW f \in Filing, NEW u \in User, NEW l \in Loadout,
             CountReports(f, u, l) \/ CountFails(f, u, l)
      PROVE  FeedInv'
  <2>1. /\ filing' = [filing EXCEPT ![f] = [by |-> u, loadout |-> l]]
        /\ UNCHANGED <<store, report, liked, shown>>
        /\ faults' \in 0 .. MaxFaults
    BY <1>0, <1>3 DEF CountReports, CountFails
  <2>2. FilingsKeep
    BY <1>0, <2>1 DEF FilingsKeep
  <2> QED BY <1>r, <1>l, <2>1, <2>2, StoreKept, Assembled DEF store
<1>4. ASSUME NEW f \in Filing, NEW p \in Report, InsertReport(f, p) PROVE FeedInv'
  <2>1. PICK u \in User, l \in Loadout : u = filing[f].by /\ l = filing[f].loadout
    BY <1>4 DEF InsertReport, FeedInv, Named
  <2> DEFINE new == [loadout |-> l, by |-> u, status |-> "open", evidence |-> row[l].hash, fresh |-> TRUE]
  <2>2. /\ report' = [report EXCEPT ![p] = new] /\ Public(l)
        /\ filing' = [filing EXCEPT ![f] = NoFiling] /\ UNCHANGED <<store, liked, shown, faults>>
    BY <1>4, <2>1 DEF InsertReport
  <2>3. row[l].hash \in Hash \cup {NoHash}
    BY <1>0 DEF Row
  <2>4. new \in ReportRow /\ new.loadout = l /\ new.evidence = row[l].hash
    BY <2>3 DEF ReportRow
  <2> HIDE DEF new
  <2>5. ReportsKeep
    <3>1. report' \in [Report -> ReportRow] /\ report'[p] = new
          /\ \A q \in Report \ {p} : report'[q] = report[q]
      BY <1>0, <2>2, <2>4
    <3>2. row' = row
      BY <2>2 DEF store
    <3> QED BY <2>2, <2>4, <3>1, <3>2 DEF ReportsKeep, Filed
  <2> QED BY <1>0, <1>l, <1>e, <2>2, <2>5, StoreKept, Assembled DEF store
<1>5. ASSUME NEW f \in Filing, NoInsert(f) PROVE FeedInv'
  BY <1>0, <1>5, <1>r, <1>l, <1>e, StoreKept, Assembled DEF NoInsert, store
<1>6. ASSUME NEW p \in Report, Age(p) PROVE FeedInv'
  <2> DEFINE new == [report[p] EXCEPT !.fresh = FALSE]
  <2>1. report' = [report EXCEPT ![p] = new] /\ UNCHANGED <<store, filing, liked, shown, faults>>
    BY <1>0, <1>6 DEF Age
  <2>2. /\ new \in ReportRow /\ new.loadout = report[p].loadout /\ new.evidence = report[p].evidence
        /\ new.status = report[p].status
    BY <1>0 DEF ReportRow
  <2> HIDE DEF new
  <2>3. ReportsKeep
    BY <1>0, <2>1, <2>2 DEF ReportsKeep, Filed
  <2> QED BY <1>0, <1>f, <1>l, <2>1, <2>3, StoreKept, Assembled DEF store
<1>7. ASSUME NEW p \in Report, NEW s \in {"resolved", "dismissed"}, Resolvable(p),
             report' = [report EXCEPT ![p].status = s]
      PROVE  ReportsKeep
  <2> DEFINE new == [report[p] EXCEPT !.status = s]
  <2>1. report' = [report EXCEPT ![p] = new] /\ Filed(p)
    BY <1>0, <1>7 DEF Resolvable, Filed
  <2>2. new \in ReportRow /\ new.loadout = report[p].loadout /\ new.evidence = report[p].evidence
    BY <1>0 DEF ReportRow
  <2> HIDE DEF new
  <2> QED BY <1>c, <2>1, <2>2
<1>8. ASSUME NEW p \in Report, NEW s \in {"resolved", "dismissed"}, CloseReport(p, s) PROVE FeedInv'
  BY <1>0, <1>7, <1>8, <1>f, <1>l, StoreKept, Assembled DEF CloseReport, store
<1>9. ASSUME NEW p \in Report, NEW s \in {"resolved", "dismissed"}, NEW to \in Statuses,
             ResolveReport(p, s, to)
      PROVE  FeedInv'
  <2>1. /\ Resolvable(p) /\ report' = [report EXCEPT ![p].status = s]
        /\ Moderate(report[p].loadout, to) /\ Remember /\ UNCHANGED <<filing, liked, faults>>
    BY <1>9 DEF ResolveReport
  <2>2. report[p].loadout \in Loadout
    BY <2>1 DEF FeedInv, Named, Resolvable, Filed
  <2>3. /\ Built' /\ ShownNow' /\ shown' \in [Loadout -> SUBSET Hash]
        /\ \A l \in Loadout : shown[l] \subseteq shown'[l]
    BY <2>1, <2>2, ModeratedRow, Remembered DEF FeedInv
  <2> QED BY <1>0, <1>7, <1>f, <1>l, <2>1, <2>3, Assembled
<1>10. ASSUME NEW u \in User, NEW l \in Loadout, LikeLoadout(u, l) \/ UnlikeLoadout(u, l) PROVE FeedInv'
  <2>1. LikesKeep
    <3>1. CASE LikeLoadout(u, l)
      BY <1>0, <3>1 DEF LikeLoadout, LikesKeep
    <3>2. CASE UnlikeLoadout(u, l)
      BY <1>0, <3>2 DEF UnlikeLoadout, LikesKeep
    <3> QED BY <1>10, <3>1, <3>2
  <2>2. UNCHANGED <<store, reports, shown>>
    BY <1>10 DEF LikeLoadout, UnlikeLoadout
  <2> QED BY <1>0, <1>r, <1>f, <2>1, <2>2, StoreKept, Assembled DEF store, reports
<1> QED BY <1>1, <1>2, <1>3, <1>4, <1>5, <1>6, <1>8, <1>9, <1>10 DEF FeedbackNext

-----------------------------------------------------------------------------
(* Theorems.                                                               *)

\* However reports, likes, edits and resolutions overlap, reports and requests name
\* what exists, and what is public or was reported has been shown.
THEOREM FeedbackInvariant == FeedbackSpec => []FeedInv
<1>1. FeedbackInit => FeedInv
  <2> SUFFICES ASSUME FeedbackInit PROVE FeedInv
    OBVIOUS
  <2>1. /\ Init /\ report = [p \in Report |-> NoReport] /\ filing = [f \in Filing |-> NoFiling]
        /\ liked = [u \in User |-> {}] /\ faults = 0
        /\ shown = [l \in Loadout |-> IF Public(l) THEN {row[l].hash} ELSE {}]
    BY DEF FeedbackInit
  <2>2. IInv
    BY <2>1, Initial
  <2>6. \A l \in Loadout : IF Exists(l) THEN row[l].hash \in Hash ELSE row[l].version = 0
    <3>1. \A r \in Legacy : r.status # "absent" /\ r.hash \in Hash
      BY DEF Legacy, Statuses
    <3>2. NoRow.status = "absent" /\ NoRow.version = 0
      BY DEF NoRow
    <3>3. \A l \in Loadout : row[l] \in Legacy \/ row[l] = NoRow
      BY <2>1 DEF Init
    <3> QED BY <3>1, <3>2, <3>3 DEF Exists
  <2>3. FeedbackTypeOK
    <3>1. shown \in [Loadout -> SUBSET Hash]
      BY <2>1, <2>6 DEF Public, Exists
    <3> QED BY <2>1, <2>2, <3>1, FeedbackAssumption
               DEF FeedbackTypeOK, IInv, NoReport, NoFiling, ReportRow
  <2>4. Built /\ ShownNow
    BY <2>1, <2>6 DEF Built, ShownNow, Public, Exists
  <2>5. Named /\ FeedbackOnShown
    BY <2>1 DEF Named, FeedbackOnShown, Filed, NoReport, NoFiling
  <2> QED BY <2>2, <2>3, <2>4, <2>5 DEF FeedInv
<1> QED BY <1>1, FeedStep, PTL DEF FeedbackSpec

\* The rows of reports and likes, the requests under way and the loadouts have their
\* types.
THEOREM FeedbackTypes == FeedbackSpec => []FeedbackTypeOK
<1>1. FeedInv => FeedbackTypeOK
  BY DEF FeedInv
<1> QED BY <1>1, FeedbackInvariant, PTL

\* createReport and likeLoadout insert for a loadout that is public in that very
\* statement, whatever happened to it since the request began.
THEOREM OnlyShownGetsFeedback == FeedbackSpec => []FeedbackOnShown
<1>1. FeedInv => FeedbackOnShown
  BY DEF FeedInv
<1> QED BY <1>1, FeedbackInvariant, PTL

\* resolveReport closes an open report once, with the change of the loadout that
\* belongs to it or none; every other change of a status raises the version.
THEOREM ResolutionsAreWhole == FeedbackSpec => ResolvedOnceWithItsAction
<1> DEFINE Kept == \A p \in Report : Filed(p) =>
             /\ report'[p].evidence = report[p].evidence /\ report'[p].loadout = report[p].loadout
             /\ report[p].status # "open" => report'[p].status = report[p].status
           Closed == \A l \in Loadout :
             row'[l].status # row[l].status /\ row'[l].version = row[l].version =>
               \E p \in Report : /\ report[p].loadout = l /\ report[p].status = "open"
                                 /\ report'[p].status # "open"
<1>1. FeedInv /\ [FeedbackNext]_vars => [Kept /\ Closed]_vars
  <2> SUFFICES ASSUME FeedInv, FeedbackNext PROVE Kept /\ Closed
    OBVIOUS
  <2>0. report \in [Report -> ReportRow] /\ row \in [Loadout -> Row]
    BY DEF FeedInv, FeedbackTypeOK, TypeOK
  <2>1. row' = row => Closed
    OBVIOUS
  <2>2. report' = report => Kept
    OBVIOUS
  <2>3. ASSUME NEW p \in Report, NEW s \in {"resolved", "dismissed"}, Resolvable(p),
               report' = [report EXCEPT ![p].status = s]
        PROVE  Kept /\ report'[p].status # "open"
    BY <2>0, <2>3 DEF Resolvable, ReportRow
  <2>4. CASE LoadoutsNext /\ Remember /\ UNCHANGED <<reports, liked>>
    <3>1. ASSUME NEW l \in Loadout, NEW r \in Row, row' = [row EXCEPT ![l] = r],
                 r.version = row[l].version + 1
          PROVE  Closed
      <4>1. row[l].version \in Nat
        BY <2>0 DEF Row
      <4> QED BY <2>0, <3>1, <4>1
    <3>2. Closed
      BY <2>1, <2>4, <3>1, LoadoutRow DEF FeedInv
    <3> QED BY <2>2, <2>4, <3>2 DEF reports
  <2>5. ASSUME NEW p \in Report, NEW s \in {"resolved", "dismissed"}, NEW to \in Statuses,
               ResolveReport(p, s, to)
        PROVE  Kept /\ Closed
    <3>1. /\ Resolvable(p) /\ report' = [report EXCEPT ![p].status = s]
          /\ Moderate(report[p].loadout, to)
      BY <2>5 DEF ResolveReport
    <3>2. PICK l \in Loadout : l = report[p].loadout
      BY <3>1 DEF FeedInv, Named, Resolvable, Filed
    <3>3. \A k \in Loadout \ {l} : row'[k] = row[k]
      BY <2>0, <3>1, <3>2 DEF Moderate
    <3>4. Closed
      BY <2>3, <3>1, <3>2, <3>3 DEF Resolvable
    <3> QED BY <2>3, <3>1, <3>4
  <2>6. ASSUME NEW p \in Report, NEW s \in {"resolved", "dismissed"}, CloseReport(p, s)
        PROVE  Kept /\ Closed
    BY <2>1, <2>3, <2>6 DEF CloseReport, store
  <2>7. ASSUME NEW f \in Filing, NEW p \in Report, InsertReport(f, p) PROVE Kept /\ Closed
    BY <2>0, <2>1, <2>7 DEF InsertReport, store, Filed
  <2>8. ASSUME NEW p \in Report, Age(p) PROVE Kept /\ Closed
    BY <2>0, <2>1, <2>8 DEF Age, store, ReportRow
  <2> QED
    BY <2>1, <2>2, <2>4, <2>5, <2>6, <2>7, <2>8
       DEF FeedbackNext, CountReports, CountFails, NoInsert, LikeLoadout, UnlikeLoadout, store, reports
<1> QED BY <1>1, FeedbackInvariant, PTL DEF FeedbackSpec, ResolvedOnceWithItsAction

-----------------------------------------------------------------------------
(* The hourly cap.                                                         *)

Waiting(u) == {f \in Filing : filing[f].by = u}

\* Both sets that are counted are finite.
LEMMA Counts ==
  ASSUME NEW u
  PROVE  /\ IsFiniteSet(Recent(u)) /\ IsFiniteSet(Waiting(u))
         /\ Cardinality(Recent(u)) \in Nat /\ Cardinality(Waiting(u)) \in Nat
         /\ Cardinality(Filing) \in Nat /\ Cardinality(Waiting(u)) <= Cardinality(Filing)
<1>1. Recent(u) \subseteq Report /\ Waiting(u) \subseteq Filing
  BY DEF Recent, Waiting
<1>2. IsFiniteSet(Report) /\ IsFiniteSet(Filing)
  BY FeedbackAssumption
<1> QED BY <1>1, <1>2, FS_Subset, FS_CardinalityType

\* Fewer of either, and no fault forgotten.
LEMMA NoMore ==
  ASSUME FeedInv, ReportsNearlyCapped, NEW u \in User, faults' = faults,
         Recent(u)' \subseteq Recent(u), Waiting(u)' \subseteq Waiting(u)
  PROVE  Cardinality(Recent(u)') + Cardinality(Waiting(u)')
           <= HourlyCap + Cardinality(Filing) - 1 + faults'
<1>1. /\ Cardinality(Recent(u)') \in Nat /\ Cardinality(Waiting(u)') \in Nat
      /\ Cardinality(Recent(u)') <= Cardinality(Recent(u))
      /\ Cardinality(Waiting(u)') <= Cardinality(Waiting(u))
  BY Counts, FS_Subset, FS_CardinalityType
<1>2. /\ Cardinality(Recent(u)) \in Nat /\ Cardinality(Waiting(u)) \in Nat
      /\ Cardinality(Filing) \in Nat /\ HourlyCap \in Nat /\ faults \in Nat
  BY Counts, FeedbackAssumption DEF FeedInv, FeedbackTypeOK
<1>3. Cardinality(Recent(u)) + Cardinality(Waiting(u)) <= HourlyCap + Cardinality(Filing) - 1 + faults
  BY DEF ReportsNearlyCapped, Waiting
<1> QED BY <1>1, <1>2, <1>3

\* Whoever counts first, a user passes the cap of reports by less than the requests
\* that run at once, and by one for each count that failed and was taken for none.
THEOREM ReportsAreNearlyCapped == FeedbackSpec => []ReportsNearlyCapped
<1>1. FeedbackInit => ReportsNearlyCapped
  <2> SUFFICES ASSUME FeedbackInit, NEW u \in User
               PROVE  Cardinality(Recent(u)) + Cardinality(Waiting(u))
                        <= HourlyCap + Cardinality(Filing) - 1 + faults
    BY DEF ReportsNearlyCapped, Waiting
  <2>1. Recent(u) = {} /\ Waiting(u) = {} /\ faults = 0
    BY FeedbackAssumption DEF FeedbackInit, Recent, Waiting, Filed, NoReport, NoFiling
  <2>2. Cardinality(Recent(u)) = 0 /\ Cardinality(Waiting(u)) = 0
    BY <2>1, FS_EmptySet
  <2>3. Cardinality(Filing) \in Nat /\ Cardinality(Filing) # 0 /\ HourlyCap \in Nat
    BY FeedbackAssumption, FS_EmptySet, FS_CardinalityType
  <2> QED BY <2>1, <2>2, <2>3
<1>2. FeedInv /\ ReportsNearlyCapped /\ [FeedbackNext]_vars => ReportsNearlyCapped'
  <2> SUFFICES ASSUME FeedInv, ReportsNearlyCapped, [FeedbackNext]_vars, NEW u \in User
               PROVE  Cardinality(Recent(u)') + Cardinality(Waiting(u)')
                        <= HourlyCap + Cardinality(Filing) - 1 + faults'
    BY DEF ReportsNearlyCapped, Waiting
  <2> DEFINE Capped == Cardinality(Recent(u)') + Cardinality(Waiting(u)')
                         <= HourlyCap + Cardinality(Filing) - 1 + faults'
  <2>0. /\ report \in [Report -> ReportRow]
        /\ filing \in [Filing -> [by : User \cup {NoUser}, loadout : Loadout \cup {NoLoadout}]]
        /\ NoUser \notin User
    BY FeedbackAssumption DEF FeedInv, FeedbackTypeOK
  <2>1. /\ Cardinality(Recent(u)) \in Nat /\ Cardinality(Waiting(u)) \in Nat
        /\ IsFiniteSet(Recent(u)) /\ IsFiniteSet(Waiting(u))
        /\ Cardinality(Filing) \in Nat /\ HourlyCap \in Nat /\ faults \in Nat
    BY Counts, FeedbackAssumption DEF FeedInv, FeedbackTypeOK
  <2>2. Cardinality(Recent(u)) + Cardinality(Waiting(u)) <= HourlyCap + Cardinality(Filing) - 1 + faults
    BY DEF ReportsNearlyCapped, Waiting
  <2>r. report' = report => Recent(u)' = Recent(u)
    BY DEF Recent, Filed
  <2>w. filing' = filing => Waiting(u)' = Waiting(u)
    BY DEF Waiting
  \* A request begins.
  <2>3. ASSUME NEW f \in Filing, NEW v \in User, NEW l \in Loadout, filing[f] = NoFiling,
               filing' = [filing EXCEPT ![f] = [by |-> v, loadout |-> l]]
        PROVE  Waiting(u)' = IF u = v THEN Waiting(u) \cup {f} ELSE Waiting(u)
    BY <2>0, <2>3 DEF Waiting, NoFiling
  <2>4. ASSUME NEW f \in Filing, NEW v \in User, NEW l \in Loadout, CountReports(f, v, l) PROVE Capped
    <3>1. /\ filing[f] = NoFiling /\ Cardinality(Recent(v)) < HourlyCap
          /\ filing' = [filing EXCEPT ![f] = [by |-> v, loadout |-> l]]
          /\ report' = report /\ faults' = faults
      BY <2>4 DEF CountReports
    <3>2. CASE u = v
      <4>1. Waiting(u)' \subseteq Filing /\ IsFiniteSet(Filing)
        BY FeedbackAssumption DEF Waiting
      <4>2. /\ Cardinality(Waiting(u)') \in Nat
            /\ Cardinality(Waiting(u)') <= Cardinality(Filing)
        BY <4>1, FS_Subset, FS_CardinalityType
      <4>3. Cardinality(Recent(u)') = Cardinality(Recent(u))
        BY <2>r, <3>1
      <4> QED BY <2>1, <3>1, <3>2, <4>2, <4>3
    <3>3. CASE u # v
      BY <2>3, <2>r, <3>1, <3>3, NoMore
    <3> QED BY <3>2, <3>3
  <2>5. ASSUME NEW f \in Filing, NEW v \in User, NEW l \in Loadout, CountFails(f, v, l) PROVE Capped
    <3>1. /\ filing[f] = NoFiling /\ filing' = [filing EXCEPT ![f] = [by |-> v, loadout |-> l]]
          /\ report' = report /\ faults' = faults + 1
      BY <2>5 DEF CountFails
    <3>2. Waiting(u)' \subseteq Waiting(u) \cup {f}
      BY <2>3, <3>1
    <3>3. /\ IsFiniteSet(Waiting(u) \cup {f})
          /\ Cardinality(Waiting(u) \cup {f}) \in Nat
          /\ Cardinality(Waiting(u) \cup {f}) <= Cardinality(Waiting(u)) + 1
      <4>1. /\ IsFiniteSet(Waiting(u) \cup {f})
            /\ Cardinality(Waiting(u) \cup {f})
                 = IF f \in Waiting(u) THEN Cardinality(Waiting(u)) ELSE Cardinality(Waiting(u)) + 1
        BY <2>1, FS_AddElement
      <4> QED BY <2>1, <4>1
    <3>4. /\ Cardinality(Waiting(u)') \in Nat
          /\ Cardinality(Waiting(u)') <= Cardinality(Waiting(u) \cup {f})
      BY <3>2, <3>3, FS_Subset, FS_CardinalityType
    <3>5. Cardinality(Recent(u)') = Cardinality(Recent(u))
      BY <2>r, <3>1
    <3> QED BY <2>1, <2>2, <3>1, <3>3, <3>4, <3>5
  \* A request becomes a report.
  <2>6. ASSUME NEW f \in Filing, NEW p \in Report, InsertReport(f, p) PROVE Capped
    <3>1. PICK v \in User, l \in Loadout : v = filing[f].by /\ l = filing[f].loadout
      BY <2>6 DEF InsertReport, FeedInv, Named
    <3> DEFINE new == [loadout |-> l, by |-> v, status |-> "open", evidence |-> row[l].hash,
                       fresh |-> TRUE]
    <3>2. /\ report' = [report EXCEPT ![p] = new] /\ ~Filed(p)
          /\ filing' = [filing EXCEPT ![f] = NoFiling] /\ faults' = faults
      BY <2>6, <3>1 DEF InsertReport
    <3>3. new.by = v /\ new.status = "open" /\ new.fresh = TRUE
      OBVIOUS
    <3> HIDE DEF new
    <3>4. Waiting(u)' = Waiting(u) \ {f}
      BY <2>0, <3>2 DEF Waiting, NoFiling
    <3>5. CASE u = v
      <4>1. Recent(u)' = Recent(u) \cup {p}
        BY <2>0, <3>2, <3>3, <3>5 DEF Recent, Filed
      <4>2. p \notin Recent(u) /\ f \in Waiting(u)
        BY <3>1, <3>2, <3>5 DEF Recent, Waiting
      <4>3. /\ Cardinality(Recent(u) \cup {p}) = Cardinality(Recent(u)) + 1
            /\ Cardinality(Waiting(u) \ {f}) = Cardinality(Waiting(u)) - 1
        BY <2>1, <4>2, FS_AddElement, FS_RemoveElement
      <4>4. /\ Cardinality(Recent(u)') = Cardinality(Recent(u)) + 1
            /\ Cardinality(Waiting(u)') = Cardinality(Waiting(u)) - 1
        BY <3>4, <4>1, <4>3
      <4> QED BY <2>1, <2>2, <3>2, <4>4
    <3>6. CASE u # v
      <4>1. Recent(u)' \subseteq Recent(u)
        BY <2>0, <3>2, <3>3, <3>6 DEF Recent, Filed
      <4> QED BY <3>2, <3>4, <4>1, NoMore
    <3> QED BY <3>5, <3>6
  <2>7. ASSUME NEW f \in Filing, NoInsert(f) PROVE Capped
    <3>1. filing' = [filing EXCEPT ![f] = NoFiling] /\ report' = report /\ faults' = faults
      BY <2>7 DEF NoInsert
    <3>2. Waiting(u)' \subseteq Waiting(u)
      BY <2>0, <3>1 DEF Waiting, NoFiling
    <3> QED BY <2>r, <3>1, <3>2, NoMore
  <2>8. ASSUME NEW p \in Report, Age(p) PROVE Capped
    <3>1. report' = [report EXCEPT ![p].fresh = FALSE] /\ filing' = filing /\ faults' = faults
      BY <2>8 DEF Age
    <3>2. Recent(u)' \subseteq Recent(u)
      BY <2>0, <3>1 DEF Recent, Filed, ReportRow
    <3> QED BY <2>w, <3>1, <3>2, NoMore
  <2>9. ASSUME NEW p \in Report, NEW s \in {"resolved", "dismissed"}, Resolvable(p),
               report' = [report EXCEPT ![p].status = s], filing' = filing, faults' = faults
        PROVE  Capped
    <3>1. Recent(u)' \subseteq Recent(u)
      BY <2>0, <2>9 DEF Recent, Filed, ReportRow, Resolvable
    <3> QED BY <2>w, <2>9, <3>1, NoMore
  <2>10. ASSUME UNCHANGED <<report, filing, faults>> PROVE Capped
    BY <2>r, <2>w, <2>10, NoMore
  <2> QED
    BY <2>4, <2>5, <2>6, <2>7, <2>8, <2>9, <2>10
       DEF FeedbackNext, CloseReport, ResolveReport, LikeLoadout, UnlikeLoadout, vars, reports
<1> QED BY <1>1, <1>2, FeedbackInvariant, PTL DEF FeedbackSpec
=============================================================================
