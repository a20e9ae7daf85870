--------------------------- MODULE EmailRateProofs ---------------------------
(***************************************************************************)
(* The advisory lock keeps the codes for one address apart and below their *)
(* cap, and the cap per source is passed by no more than the calls that    *)
(* run at once: for every number of calls, addresses, sources and every    *)
(* length of the windows.                                                  *)
(***************************************************************************)
EXTENDS EmailRate, FiniteSetTheorems, TLAPS

\* A call in progress is for a row of the right type.
THEOREM TypeCorrect == Spec => []TypeOK
<1>1. Init => TypeOK
  BY DEF Init, TypeOK, IdleCall, Steps
<1>2. TypeOK /\ [Next]_vars => TypeOK'
  <2> SUFFICES ASSUME TypeOK, [Next]_vars PROVE TypeOK'
    OBVIOUS
  <2> USE DEF TypeOK, Steps, At, Leave, GoOnIf, IdleCall
  <2>1. CASE Tick
    BY <2>1, RateAssumption DEF Tick
  <2>2. ASSUME NEW r \in Request, NEW e \in Email, NEW s \in Source, Begin(r, e, s) PROVE TypeOK'
    BY <2>2 DEF Begin, Row
  <2>3. ASSUME NEW r \in Request, LockAndCountEmail(r) PROVE TypeOK'
    BY <2>3 DEF LockAndCountEmail
  <2>4. ASSUME NEW r \in Request, CountSource(r) PROVE TypeOK'
    BY <2>4 DEF CountSource
  <2>5. ASSUME NEW r \in Request, Insert(r) PROVE TypeOK'
    BY <2>5 DEF Insert
  <2>6. ASSUME NEW r \in Request, Rollback(r) PROVE TypeOK'
    BY <2>6 DEF Rollback
  <2>7. CASE UNCHANGED vars
    BY <2>7 DEF vars
  <2>8. QED
    BY <2>1, <2>2, <2>3, <2>4, <2>5, <2>6, <2>7 DEF Next, Enqueue
<1>3. QED
  BY <1>1, <1>2, PTL DEF Spec

Holds(r) == call[r].step \in Holder

\* The lock of an address has one holder at a time.
OneHolder ==
  \A q, r \in Request :
    Holds(q) /\ Holds(r) /\ call[q].row.email = call[r].row.email => q = r

\* While a call holds the lock, every committed row of its address is at least
\* a minute older than its own now(), though other calls began meanwhile.
ClearAhead ==
  \A r \in Request : Holds(r) =>
    \A i \in DOMAIN rows :
      rows[i].email = call[r].row.email => rows[i].at <= call[r].row.at - Minute

\* Codes for one address keep their distance: only the holder of the address's
\* lock inserts, and what it counted is still all there is when it does.
THEOREM CodesAreSpaced == Spec => []Spaced
<1> DEFINE IInv == OneHolder /\ ClearAhead /\ Spaced
<1>1. Init => IInv
  BY DEF Init, OneHolder, ClearAhead, Spaced, Holds, Holder, IdleCall
<1>2. TypeOK /\ IInv /\ [Next]_vars => IInv'
  <2> SUFFICES ASSUME TypeOK, IInv, [Next]_vars PROVE IInv'
    OBVIOUS
  <2>0. Minute \in Nat \ {0}
    BY RateAssumption
  <2> USE <2>0 DEF TypeOK, OneHolder, ClearAhead, Spaced, Holds, Holder
  <2>1. CASE Tick \/ UNCHANGED vars
    BY <2>1 DEF Tick, vars
  <2>2. ASSUME NEW r \in Request, NEW e \in Email, NEW s \in Source, Begin(r, e, s) PROVE IInv'
    BY <2>2 DEF Begin, At
  <2>3. ASSUME NEW r \in Request, Leave(r), UNCHANGED rows PROVE IInv'
    BY <2>3 DEF Leave, IdleCall
  <2>4. ASSUME NEW r \in Request, LockAndCountEmail(r) PROVE IInv'
    <3>1. CASE EmailOpen(call[r].row)
      <4>1. OneHolder'
        BY <2>4, <3>1 DEF LockAndCountEmail, At, GoOnIf, LockFree
      <4>2. ClearAhead'
        <5>1. \A i \in DOMAIN rows :
                rows[i].email = call[r].row.email => rows[i].at <= call[r].row.at - Minute
          <6> SUFFICES ASSUME NEW i \in DOMAIN rows, rows[i].email = call[r].row.email
                       PROVE  rows[i].at <= call[r].row.at - Minute
            OBVIOUS
          <6>1. rows[i] \in Row /\ call[r].row \in Row
            BY <2>4 DEF LockAndCountEmail, At
          <6>2. rows[i].at \in Nat /\ call[r].row.at \in Nat
            BY <6>1 DEF Row
          <6>3. ~(rows[i].at > call[r].row.at - Minute)
            BY <3>1 DEF EmailOpen, ForEmail
          <6>4. QED
            BY <6>2, <6>3
        <5>2. QED
          BY <2>4, <3>1, <5>1 DEF LockAndCountEmail, At, GoOnIf
      <4>3. QED
        BY <2>4, <4>1, <4>2 DEF LockAndCountEmail
    <3>2. CASE ~EmailOpen(call[r].row)
      BY <2>3, <2>4, <3>2 DEF LockAndCountEmail, GoOnIf
    <3>3. QED
      BY <3>1, <3>2
  <2>5. ASSUME NEW r \in Request, CountSource(r) PROVE IInv'
    <3>1. CASE SourceOpen(call[r].row)
      BY <2>5, <3>1, ZenonT(60) DEF CountSource, At, GoOnIf
    <3>2. CASE ~SourceOpen(call[r].row)
      BY <2>3, <2>5, <3>2 DEF CountSource, GoOnIf
    <3>3. QED
      BY <3>1, <3>2
  <2>6. ASSUME NEW r \in Request, Insert(r) PROVE IInv'
    <3> DEFINE row == call[r].row
    <3>1. row \in Row /\ Holds(r)
      BY <2>6 DEF Insert, At
    <3>2. /\ rows' = Append(rows, row)
          /\ call' = [call EXCEPT ![r] = IdleCall]
      BY <2>6 DEF Insert, Leave
    <3>3. /\ DOMAIN rows' = DOMAIN rows \cup {Len(rows) + 1}
          /\ \A i \in DOMAIN rows : rows'[i] = rows[i] /\ rows[i] \in Row
          /\ rows'[Len(rows) + 1] = row /\ Len(rows) + 1 \notin DOMAIN rows
      BY <3>1, <3>2
    <3>4. OneHolder'
      BY <3>2 DEF IdleCall
    <3>5. ClearAhead'
      <4>1. \A q \in Request : Holds(q)' => /\ q # r /\ call'[q] = call[q] /\ Holds(q)
                                            /\ call[q].row.email # row.email
        BY <3>1, <3>2 DEF IdleCall
      <4>2. QED
        BY <3>3, <4>1
    <3>6. Spaced'
      <4>1. row.at \in Nat /\ \A i \in DOMAIN rows : rows[i].at \in Nat
        BY <3>1, <3>3 DEF Row
      <4>2. \A i \in DOMAIN rows : rows[i].email = row.email => row.at - rows[i].at >= Minute
        BY <3>1, <4>1
      <4>3. QED
        BY <3>3, <4>1, <4>2
    <3>7. QED
      BY <3>4, <3>5, <3>6
  <2>7. QED
    BY <2>1, <2>2, <2>3, <2>4, <2>5, <2>6 DEF Next, Enqueue, Rollback
<1>3. QED
  BY <1>1, <1>2, TypeCorrect, PTL DEF Spec

-----------------------------------------------------------------------------
(* Counting.                                                               *)

\* A part of a finite set is finite and no larger.
LEMMA Part ==
  ASSUME NEW S, NEW T, IsFiniteSet(T), S \subseteq T
  PROVE  IsFiniteSet(S) /\ Cardinality(S) \in Nat /\ Cardinality(T) \in Nat
         /\ Cardinality(S) <= Cardinality(T)
  BY FS_Subset, FS_CardinalityType

\* One element more.
LEMMA OneMore ==
  ASSUME NEW S, IsFiniteSet(S), NEW x
  PROVE  /\ Cardinality(S) \in Nat /\ IsFiniteSet(S \cup {x}) /\ Cardinality(S \cup {x}) \in Nat
         /\ Cardinality(S \cup {x}) <= Cardinality(S) + 1
         /\ x \notin S => Cardinality(S \cup {x}) = Cardinality(S) + 1
<1>1. /\ IsFiniteSet(S \cup {x})
      /\ Cardinality(S \cup {x}) = IF x \in S THEN Cardinality(S) ELSE Cardinality(S) + 1
  BY FS_AddElement
<1>2. Cardinality(S) \in Nat
  BY FS_CardinalityType
<1> QED BY <1>1, <1>2

\* One element less.
LEMMA OneLess ==
  ASSUME NEW S, IsFiniteSet(S), NEW x \in S
  PROVE  /\ IsFiniteSet(S \ {x}) /\ Cardinality(S \ {x}) \in Nat /\ Cardinality(S) \in Nat
         /\ Cardinality(S \ {x}) = Cardinality(S) - 1
  BY FS_RemoveElement, FS_CardinalityType

\* There are finitely many committed rows at any time.
LEMMA RowsFinite == TypeOK => IsFiniteSet(DOMAIN rows)
<1> SUFFICES ASSUME TypeOK PROVE IsFiniteSet(DOMAIN rows)
  OBVIOUS
<1>1. DOMAIN rows = 1 .. Len(rows) /\ Len(rows) \in Nat
  BY DEF TypeOK
<1> QED BY <1>1, FS_Interval

\* A row is appended: the others keep their places.
LEMMA Appended ==
  ASSUME TypeOK, NEW row \in Row, rows' = Append(rows, row)
  PROVE  /\ DOMAIN rows' = DOMAIN rows \cup {Len(rows) + 1}
         /\ \A i \in DOMAIN rows : rows'[i] = rows[i] /\ rows[i] \in Row
         /\ rows'[Len(rows) + 1] = row /\ Len(rows) + 1 \notin DOMAIN rows
  BY DEF TypeOK

-----------------------------------------------------------------------------
(* The cap per address.                                                    *)

\* The holder of an address's lock has room for the code it will insert.
RoomAhead ==
  \A r \in Request : Holds(r) =>
    Cardinality(ForEmail(call[r].row.email, call[r].row.at, Hour)) < EmailCap

\* A step that inserts nothing keeps the cap.
LEMMA NothingInserted ==
  ASSUME EmailCapped, UNCHANGED rows
  PROVE  EmailCapped'
  BY DEF EmailCapped, Window

\* A step that inserts row, for which there was room and which is the last of its
\* address, keeps the cap.
LEMMA LastInserted ==
  ASSUME TypeOK, EmailCapped, NEW row \in Row, rows' = Append(rows, row),
         \A i \in DOMAIN rows : rows[i].email = row.email => rows[i].at <= row.at - Minute,
         Cardinality(ForEmail(row.email, row.at, Hour)) < EmailCap
  PROVE  EmailCapped'
<1>1. /\ DOMAIN rows' = DOMAIN rows \cup {Len(rows) + 1}
      /\ \A i \in DOMAIN rows : rows'[i] = rows[i] /\ rows[i] \in Row
      /\ rows'[Len(rows) + 1] = row /\ Len(rows) + 1 \notin DOMAIN rows
  BY Appended
<1>2. /\ \A i \in DOMAIN rows : rows[i].at \in Nat
      /\ row.at \in Nat /\ Hour \in Nat /\ Minute \in Nat \ {0} /\ EmailCap \in Nat
  BY <1>1, RateAssumption DEF Row
<1>3. IsFiniteSet(DOMAIN rows)
  BY RowsFinite
<1>4. ASSUME NEW i \in DOMAIN rows
      PROVE  Cardinality({j \in Window(i)' : rows'[j].email = rows'[i].email}) <= EmailCap
  <2>1. {j \in Window(i)' : rows'[j].email = rows'[i].email} \subseteq
          {j \in Window(i) : rows[j].email = rows[i].email}
    BY <1>1, <1>2, <1>4 DEF Window
  <2>2. IsFiniteSet({j \in Window(i) : rows[j].email = rows[i].email})
    BY <1>3, Part DEF Window
  <2>3. Cardinality({j \in Window(i) : rows[j].email = rows[i].email}) <= EmailCap
    BY DEF EmailCapped
  <2> DEFINE S == {j \in Window(i)' : rows'[j].email = rows'[i].email}
             T == {j \in Window(i) : rows[j].email = rows[i].email}
  <2> HIDE DEF S, T
  <2>4. Cardinality(S) \in Nat /\ Cardinality(T) \in Nat /\ Cardinality(S) <= Cardinality(T)
    BY <2>1, <2>2, Part DEF S, T
  <2>5. Cardinality(S) <= EmailCap
    BY <1>2, <2>3, <2>4 DEF T
  <2> QED BY <2>5 DEF S
<1>5. PICK n : n = Len(rows) + 1
  OBVIOUS
<1>6. Cardinality({j \in Window(n)' : rows'[j].email = rows'[n].email}) <= EmailCap
  <2> DEFINE S == {j \in Window(n)' : rows'[j].email = rows'[n].email}
             T == ForEmail(row.email, row.at, Hour)
  <2>1. S \subseteq T \cup {n}
    <3> SUFFICES ASSUME NEW j \in S, j # n PROVE j \in T
      OBVIOUS
    <3>1. /\ j \in DOMAIN rows /\ rows[j].email = row.email
          /\ rows[j].at \in (row.at - Hour + 1) .. row.at
      BY <1>1, <1>5 DEF Window
    <3> QED BY <1>2, <3>1 DEF ForEmail
  <2>2. IsFiniteSet(T) /\ Cardinality(T) < EmailCap
    BY <1>3, Part DEF ForEmail
  <2> HIDE DEF S, T
  <2>3. /\ Cardinality(T) \in Nat /\ IsFiniteSet(T \cup {n})
        /\ Cardinality(T \cup {n}) \in Nat
        /\ Cardinality(T \cup {n}) <= Cardinality(T) + 1
    BY <2>2, OneMore
  <2>4. Cardinality(S) \in Nat /\ Cardinality(S) <= Cardinality(T \cup {n})
    BY <2>1, <2>3, Part
  <2>5. Cardinality(S) <= EmailCap
    BY <1>2, <2>2, <2>3, <2>4
  <2> QED BY <2>5 DEF S
<1>7. DOMAIN rows' = DOMAIN rows \cup {n}
  BY <1>1, <1>5
<1> QED BY <1>4, <1>6, <1>7 DEF EmailCapped

\* Codes for one address stay below their cap: what the holder of the lock has
\* counted is what there is when it inserts, and its own row is the last.
THEOREM AddressesAreCapped == Spec => []EmailCapped
<1> DEFINE Ahead == OneHolder /\ ClearAhead /\ RoomAhead
           IInv == Ahead /\ EmailCapped
<1>1. Init => IInv
  BY DEF Init, OneHolder, ClearAhead, RoomAhead, EmailCapped, Holds, Holder, IdleCall
<1>2. TypeOK /\ IInv /\ [Next]_vars => IInv'
  <2> SUFFICES ASSUME TypeOK, IInv, [Next]_vars PROVE IInv'
    OBVIOUS
  <2>0. /\ \A r \in Request : call[r].step # "idle" => call[r].row \in Row
        /\ call \in [Request -> [step : Steps, row : Row \cup {NoRow}]]
    BY DEF TypeOK
  <2>1. ASSUME UNCHANGED rows, Ahead' PROVE IInv'
    BY <2>1, NothingInserted
  \* A holder after the step was one before, with the same row.
  <2>2. ASSUME UNCHANGED rows, \A r \in Request : Holds(r)' => Holds(r) /\ call'[r].row = call[r].row
        PROVE  IInv'
    <3>1. Ahead'
      BY <2>2 DEF OneHolder, ClearAhead, RoomAhead, ForEmail
    <3> QED BY <2>1, <2>2, <3>1
  <2>3. CASE Tick \/ UNCHANGED vars
    BY <2>2, <2>3 DEF Tick, vars, Holds
  <2>4. ASSUME NEW r \in Request, NEW e \in Email, NEW s \in Source, Begin(r, e, s) PROVE IInv'
    BY <2>0, <2>2, <2>4 DEF Begin, At, Holds, Holder
  <2>5. ASSUME NEW r \in Request, Leave(r), UNCHANGED rows PROVE IInv'
    BY <2>0, <2>2, <2>5 DEF Leave, IdleCall, Holds, Holder
  <2>6. ASSUME NEW r \in Request, LockAndCountEmail(r) PROVE IInv'
    <3>1. CASE EmailOpen(call[r].row)
      <4>1. /\ UNCHANGED rows /\ Holds(r)' /\ ~Holds(r) /\ call'[r].row = call[r].row
            /\ \A q \in Request \ {r} : call'[q] = call[q]
            /\ \A q \in Request : Holds(q) => call[q].row.email # call[r].row.email
        BY <2>0, <2>6, <3>1 DEF LockAndCountEmail, At, GoOnIf, Holds, Holder, LockFree
      <4>2. OneHolder'
        BY <4>1 DEF OneHolder, Holds
      <4>3. \A i \in DOMAIN rows :
              rows[i].email = call[r].row.email => rows[i].at <= call[r].row.at - Minute
        <5> SUFFICES ASSUME NEW i \in DOMAIN rows, rows[i].email = call[r].row.email
                     PROVE  rows[i].at <= call[r].row.at - Minute
          OBVIOUS
        <5>1. rows[i] \in Row /\ call[r].row \in Row
          BY <2>0, <2>6 DEF TypeOK, LockAndCountEmail, At
        <5>2. rows[i].at \in Nat /\ call[r].row.at \in Nat /\ Minute \in Nat
          BY <5>1, RateAssumption DEF Row
        <5> QED BY <3>1, <5>2 DEF EmailOpen, ForEmail
      <4>4. ClearAhead'
        BY <4>1, <4>3 DEF ClearAhead, Holds
      <4>5. RoomAhead'
        <5>1. ASSUME NEW q \in Request, Holds(q)'
              PROVE  /\ call'[q].row = call[q].row
                     /\ Cardinality(ForEmail(call[q].row.email, call[q].row.at, Hour)) < EmailCap
          <6>1. CASE q = r
            BY <3>1, <4>1, <6>1 DEF EmailOpen
          <6>2. CASE q # r
            BY <4>1, <5>1, <6>2 DEF RoomAhead, Holds
          <6> QED BY <6>1, <6>2
        <5>2. \A q \in Request : Holds(q)' =>
                ForEmail(call[q].row.email, call[q].row.at, Hour)'
                  = ForEmail(call[q].row.email, call[q].row.at, Hour)
          BY <4>1, <5>1 DEF ForEmail
        <5> QED BY <5>1, <5>2 DEF RoomAhead
      <4> QED BY <2>1, <4>1, <4>2, <4>4, <4>5
    <3>2. CASE ~EmailOpen(call[r].row)
      BY <2>5, <2>6, <3>2 DEF LockAndCountEmail, GoOnIf
    <3> QED BY <3>1, <3>2
  <2>7. ASSUME NEW r \in Request, CountSource(r) PROVE IInv'
    <3>1. CASE SourceOpen(call[r].row)
      BY <2>0, <2>2, <2>7, <3>1 DEF CountSource, At, GoOnIf, Holds, Holder
    <3>2. CASE ~SourceOpen(call[r].row)
      BY <2>5, <2>7, <3>2 DEF CountSource, GoOnIf
    <3> QED BY <3>1, <3>2
  <2>8. ASSUME NEW r \in Request, Insert(r) PROVE IInv'
    <3>1. PICK row \in Row : row = call[r].row
      BY <2>0, <2>8 DEF Insert, At
    <3>2. /\ rows' = Append(rows, row) /\ call' = [call EXCEPT ![r] = IdleCall] /\ Holds(r)
      BY <2>8, <3>1 DEF Insert, Leave, At, Holds, Holder
    <3>3. EmailCapped'
      BY <3>1, <3>2, LastInserted DEF ClearAhead, RoomAhead
    <3>4. \A q \in Request : Holds(q)' => /\ q # r /\ call'[q] = call[q] /\ Holds(q)
                                          /\ call[q].row.email # row.email
      BY <2>0, <3>1, <3>2 DEF IdleCall, OneHolder, Holds, Holder
    <3>5. /\ DOMAIN rows' = DOMAIN rows \cup {Len(rows) + 1}
          /\ \A i \in DOMAIN rows : rows'[i] = rows[i]
          /\ rows'[Len(rows) + 1] = row
      BY <3>2, Appended
    <3>6. OneHolder' /\ ClearAhead'
      BY <3>4, <3>5 DEF OneHolder, ClearAhead
    <3>7. ASSUME NEW q \in Request, Holds(q)'
          PROVE  Cardinality(ForEmail(call[q].row.email, call[q].row.at, Hour)') < EmailCap
      <4>1. ForEmail(call[q].row.email, call[q].row.at, Hour)'
              = ForEmail(call[q].row.email, call[q].row.at, Hour)
        BY <3>4, <3>5, <3>7 DEF ForEmail
      <4> QED BY <3>4, <3>7, <4>1 DEF RoomAhead
    <3>8. RoomAhead'
      BY <3>7 DEF RoomAhead
    <3> QED BY <3>3, <3>6, <3>8
  <2> QED BY <2>3, <2>4, <2>5, <2>6, <2>7, <2>8 DEF Next, Enqueue, Rollback
<1> QED BY <1>1, <1>2, TypeCorrect, PTL DEF Spec

-----------------------------------------------------------------------------
(* The cap per source.                                                     *)

\* Of the hour that ends at t: the codes of a source, and the calls that are
\* cleared to insert one.
RecentOf(s, t) == {j \in DOMAIN rows : rows[j].source = s /\ rows[j].at \in (t - Hour + 1) .. t}
ClearedOf(s, t) ==
  {q \in Request : /\ At(q, "cleared") /\ call[q].row.source = s
                   /\ call[q].row.at \in (t - Hour + 1) .. t}

\* Counted together they pass the cap by less than the calls there can be.
SourceInv ==
  \A s \in Source, t \in Int :
    Cardinality(RecentOf(s, t)) + Cardinality(ClearedOf(s, t)) <= SourceCap + Cardinality(Request) - 1

\* Both are finite.
LEMMA CountsFinite ==
  ASSUME TypeOK, NEW s, NEW t
  PROVE  /\ IsFiniteSet(RecentOf(s, t)) /\ IsFiniteSet(ClearedOf(s, t))
         /\ Cardinality(RecentOf(s, t)) \in Nat /\ Cardinality(ClearedOf(s, t)) \in Nat
         /\ Cardinality(Request) \in Nat /\ Cardinality(ClearedOf(s, t)) <= Cardinality(Request)
<1>1. RecentOf(s, t) \subseteq DOMAIN rows /\ IsFiniteSet(DOMAIN rows)
  BY RowsFinite DEF RecentOf
<1>2. ClearedOf(s, t) \subseteq Request /\ IsFiniteSet(Request)
  BY RateAssumption DEF ClearedOf
<1> QED BY <1>1, <1>2, Part

\* A step that inserts nothing and clears no call.
LEMMA NothingCleared ==
  ASSUME TypeOK, SourceInv, UNCHANGED rows,
         \A q \in Request : At(q, "cleared")' => At(q, "cleared") /\ call'[q].row = call[q].row
  PROVE  SourceInv'
<1> SUFFICES ASSUME NEW s \in Source, NEW t \in Int
             PROVE  Cardinality(RecentOf(s, t)') + Cardinality(ClearedOf(s, t)')
                      <= SourceCap + Cardinality(Request) - 1
  BY DEF SourceInv
<1>1. RecentOf(s, t)' = RecentOf(s, t) /\ ClearedOf(s, t)' \subseteq ClearedOf(s, t)
  BY DEF RecentOf, ClearedOf
<1>2. /\ Cardinality(ClearedOf(s, t)') \in Nat
      /\ Cardinality(ClearedOf(s, t)') <= Cardinality(ClearedOf(s, t))
  BY <1>1, CountsFinite, Part
<1>3. Cardinality(RecentOf(s, t)) + Cardinality(ClearedOf(s, t)) <= SourceCap + Cardinality(Request) - 1
  BY DEF SourceInv
<1>4. Cardinality(RecentOf(s, t)) \in Nat /\ Cardinality(ClearedOf(s, t)) \in Nat
      /\ Cardinality(Request) \in Nat /\ SourceCap \in Nat
  BY CountsFinite, RateAssumption
<1>5. Cardinality(RecentOf(s, t)') = Cardinality(RecentOf(s, t))
  BY <1>1
<1> QED BY <1>2, <1>3, <1>4, <1>5

\* A call that found its source below the cap is cleared.
LEMMA OneCleared ==
  ASSUME TypeOK, SourceInv, UNCHANGED rows, NEW r \in Request, NEW row \in Row,
         call[r].row = row, call'[r].row = row, SourceOpen(row),
         \A q \in Request \ {r} : call'[q] = call[q]
  PROVE  SourceInv'
<1> SUFFICES ASSUME NEW s \in Source, NEW t \in Int
             PROVE  Cardinality(RecentOf(s, t)') + Cardinality(ClearedOf(s, t)')
                      <= SourceCap + Cardinality(Request) - 1
  BY DEF SourceInv
<1>1. RecentOf(s, t)' = RecentOf(s, t) /\ ClearedOf(s, t)' \subseteq Request
  BY DEF RecentOf, ClearedOf
<1>2. /\ Cardinality(ClearedOf(s, t)') \in Nat
      /\ Cardinality(ClearedOf(s, t)') <= Cardinality(Request)
  BY <1>1, RateAssumption, Part
<1>3. /\ Cardinality(RecentOf(s, t)) \in Nat /\ Cardinality(ClearedOf(s, t)) \in Nat
      /\ IsFiniteSet(ClearedOf(s, t)) /\ Cardinality(Request) \in Nat /\ SourceCap \in Nat
  BY CountsFinite, RateAssumption
<1>4. CASE row.source = s /\ row.at \in (t - Hour + 1) .. t
  <2>1. RecentOf(s, t) \subseteq ForSource(row.source, row.at, Hour)
    <3> SUFFICES ASSUME NEW j \in DOMAIN rows, rows[j].source = s, rows[j].at \in (t - Hour + 1) .. t
                 PROVE  rows[j].at > row.at - Hour
      BY <1>4 DEF RecentOf, ForSource
    <3>1. rows[j] \in Row
      BY DEF TypeOK
    <3>2. row.at \in Nat /\ Hour \in Nat /\ rows[j].at \in Nat
      BY <3>1, RateAssumption DEF Row
    <3> QED BY <1>4, <3>2
  <2>2. IsFiniteSet(ForSource(row.source, row.at, Hour))
    BY RowsFinite, Part DEF ForSource
  <2> DEFINE m == Cardinality(ForSource(row.source, row.at, Hour))
  <2>3. m \in Nat /\ Cardinality(RecentOf(s, t)) <= m
    BY <2>1, <2>2, Part
  <2>4. m < SourceCap
    BY DEF SourceOpen
  <2> HIDE DEF m
  <2>5. Cardinality(RecentOf(s, t)') = Cardinality(RecentOf(s, t))
    BY <1>1
  <2> QED BY <1>2, <1>3, <2>3, <2>4, <2>5
<1>5. CASE ~(row.source = s /\ row.at \in (t - Hour + 1) .. t)
  <2>1. ClearedOf(s, t)' \subseteq ClearedOf(s, t)
    BY <1>5 DEF ClearedOf, At
  <2>2. Cardinality(ClearedOf(s, t)') <= Cardinality(ClearedOf(s, t))
    BY <1>3, <2>1, Part
  <2>3. Cardinality(RecentOf(s, t)) + Cardinality(ClearedOf(s, t)) <= SourceCap + Cardinality(Request) - 1
    BY DEF SourceInv
  <2>4. Cardinality(RecentOf(s, t)') = Cardinality(RecentOf(s, t))
    BY <1>1
  <2> QED BY <1>2, <1>3, <2>2, <2>3, <2>4
<1> QED BY <1>4, <1>5

\* A cleared call inserts its row: it is counted there now.
LEMMA ClearedInserts ==
  ASSUME TypeOK, SourceInv, NEW r \in Request, NEW row \in Row, call[r].row = row,
         At(r, "cleared"), ~At(r, "cleared")', rows' = Append(rows, row),
         \A q \in Request \ {r} : call'[q] = call[q]
  PROVE  SourceInv'
<1> SUFFICES ASSUME NEW s \in Source, NEW t \in Int
             PROVE  Cardinality(RecentOf(s, t)') + Cardinality(ClearedOf(s, t)')
                      <= SourceCap + Cardinality(Request) - 1
  BY DEF SourceInv
<1>1. PICK n : n = Len(rows) + 1
  OBVIOUS
<1>2. /\ DOMAIN rows' = DOMAIN rows \cup {n} /\ n \notin DOMAIN rows
      /\ \A i \in DOMAIN rows : rows'[i] = rows[i]
      /\ rows'[n] = row
  BY <1>1, Appended
<1>3. /\ Cardinality(RecentOf(s, t)) \in Nat /\ Cardinality(ClearedOf(s, t)) \in Nat
      /\ IsFiniteSet(RecentOf(s, t)) /\ IsFiniteSet(ClearedOf(s, t))
      /\ Cardinality(Request) \in Nat /\ SourceCap \in Nat
  BY CountsFinite, RateAssumption
<1>4. Cardinality(RecentOf(s, t)) + Cardinality(ClearedOf(s, t)) <= SourceCap + Cardinality(Request) - 1
  BY DEF SourceInv
<1>5. CASE row.source = s /\ row.at \in (t - Hour + 1) .. t
  <2>1. RecentOf(s, t)' = RecentOf(s, t) \cup {n}
    BY <1>2, <1>5 DEF RecentOf
  <2>2. ClearedOf(s, t)' = ClearedOf(s, t) \ {r} /\ r \in ClearedOf(s, t)
    BY <1>5 DEF ClearedOf, At
  <2>3. Cardinality(RecentOf(s, t) \cup {n}) \in Nat
        /\ Cardinality(RecentOf(s, t) \cup {n}) <= Cardinality(RecentOf(s, t)) + 1
    BY <1>3, OneMore
  <2>4. Cardinality(ClearedOf(s, t) \ {r}) \in Nat
        /\ Cardinality(ClearedOf(s, t) \ {r}) = Cardinality(ClearedOf(s, t)) - 1
    BY <1>3, <2>2, OneLess
  <2>5. /\ Cardinality(RecentOf(s, t)') = Cardinality(RecentOf(s, t) \cup {n})
        /\ Cardinality(ClearedOf(s, t)') = Cardinality(ClearedOf(s, t) \ {r})
    BY <2>1, <2>2
  <2> QED BY <1>3, <1>4, <2>3, <2>4, <2>5
<1>6. CASE ~(row.source = s /\ row.at \in (t - Hour + 1) .. t)
  <2>1. RecentOf(s, t)' = RecentOf(s, t) /\ ClearedOf(s, t)' \subseteq ClearedOf(s, t)
    BY <1>2, <1>6 DEF RecentOf, ClearedOf, At
  <2>2. Cardinality(ClearedOf(s, t)') \in Nat
        /\ Cardinality(ClearedOf(s, t)') <= Cardinality(ClearedOf(s, t))
    BY <1>3, <2>1, Part
  <2>3. Cardinality(RecentOf(s, t)') = Cardinality(RecentOf(s, t))
    BY <2>1
  <2> QED BY <1>3, <1>4, <2>2, <2>3
<1> QED BY <1>5, <1>6

\* Calls from one source that counted before one of them inserted pass the cap
\* together, and by less than the number of calls: no lock covers that count.
THEOREM SourcesAreNearlyCapped == Spec => []SourceNearlyCapped
<1>1. TypeOK /\ Init => SourceInv
  <2> SUFFICES ASSUME TypeOK, Init, NEW s \in Source, NEW t \in Int
               PROVE  Cardinality(RecentOf(s, t)) + Cardinality(ClearedOf(s, t))
                        <= SourceCap + Cardinality(Request) - 1
    BY DEF SourceInv
  <2>1. RecentOf(s, t) = {} /\ ClearedOf(s, t) = {}
    BY DEF Init, RecentOf, ClearedOf, At, IdleCall
  <2>2. Cardinality({}) = 0 /\ Cardinality(Request) \in Nat /\ SourceCap \in Nat \ {0}
    BY FS_EmptySet, CountsFinite, RateAssumption
  <2>3. Cardinality(RecentOf(s, t)) = 0 /\ Cardinality(ClearedOf(s, t)) = 0
    BY <2>1, <2>2
  <2> QED BY <2>2, <2>3
<1>2. TypeOK /\ SourceInv /\ [Next]_vars => SourceInv'
  <2> SUFFICES ASSUME TypeOK, SourceInv, [Next]_vars PROVE SourceInv'
    OBVIOUS
  <2>0. /\ \A r \in Request : call[r].step # "idle" => call[r].row \in Row
        /\ call \in [Request -> [step : Steps, row : Row \cup {NoRow}]]
    BY DEF TypeOK
  <2>1. CASE Tick \/ UNCHANGED vars
    BY <2>1, NothingCleared DEF Tick, vars, At
  <2>2. ASSUME NEW r \in Request, NEW e \in Email, NEW s \in Source, Begin(r, e, s) PROVE SourceInv'
    BY <2>0, <2>2, NothingCleared DEF Begin, At
  <2>3. ASSUME NEW r \in Request, Leave(r), UNCHANGED rows PROVE SourceInv'
    BY <2>0, <2>3, NothingCleared DEF Leave, IdleCall, At
  <2>4. ASSUME NEW r \in Request, LockAndCountEmail(r) PROVE SourceInv'
    <3>1. CASE EmailOpen(call[r].row)
      BY <2>0, <2>4, <3>1, NothingCleared DEF LockAndCountEmail, GoOnIf, At
    <3>2. CASE ~EmailOpen(call[r].row)
      BY <2>3, <2>4, <3>2 DEF LockAndCountEmail, GoOnIf
    <3> QED BY <3>1, <3>2
  <2>5. ASSUME NEW r \in Request, CountSource(r) PROVE SourceInv'
    <3>1. CASE SourceOpen(call[r].row)
      <4>1. PICK row \in Row : row = call[r].row
        BY <2>0, <2>5 DEF CountSource, At
      <4>2. call'[r].row = row /\ UNCHANGED rows /\ \A q \in Request \ {r} : call'[q] = call[q]
        BY <2>0, <2>5, <3>1, <4>1 DEF CountSource, GoOnIf
      <4> QED BY <3>1, <4>1, <4>2, OneCleared
    <3>2. CASE ~SourceOpen(call[r].row)
      BY <2>3, <2>5, <3>2 DEF CountSource, GoOnIf
    <3> QED BY <3>1, <3>2
  <2>6. ASSUME NEW r \in Request, Insert(r) PROVE SourceInv'
    <3>1. PICK row \in Row : row = call[r].row
      BY <2>0, <2>6 DEF Insert, At
    <3>2. /\ rows' = Append(rows, row) /\ At(r, "cleared") /\ ~At(r, "cleared")'
          /\ \A q \in Request \ {r} : call'[q] = call[q]
      BY <2>0, <2>6, <3>1 DEF Insert, Leave, At, IdleCall
    <3> QED BY <3>1, <3>2, ClearedInserts
  <2> QED BY <2>1, <2>2, <2>3, <2>4, <2>5, <2>6 DEF Next, Enqueue, Rollback
<1>3. TypeOK /\ SourceInv => SourceNearlyCapped
  <2> SUFFICES ASSUME TypeOK, SourceInv, NEW i \in DOMAIN rows
               PROVE  Cardinality(FromSource(i)) <= SourceCap + Cardinality(Request) - 1
    BY DEF SourceNearlyCapped
  <2>1. rows[i] \in Row
    BY DEF TypeOK
  <2>2. PICK s \in Source, t \in Int : s = rows[i].source /\ t = rows[i].at
    BY <2>1 DEF Row
  <2>3. FromSource(i) = RecentOf(s, t)
    BY <2>2 DEF FromSource, Window, RecentOf
  <2>4. Cardinality(RecentOf(s, t)) + Cardinality(ClearedOf(s, t)) <= SourceCap + Cardinality(Request) - 1
    BY DEF SourceInv
  <2>5. /\ Cardinality(RecentOf(s, t)) \in Nat /\ Cardinality(ClearedOf(s, t)) \in Nat
        /\ Cardinality(Request) \in Nat /\ SourceCap \in Nat
    BY CountsFinite, RateAssumption
  <2>6. Cardinality(FromSource(i)) = Cardinality(RecentOf(s, t))
    BY <2>3
  <2> QED BY <2>4, <2>5, <2>6
<1> QED BY <1>1, <1>2, <1>3, TypeCorrect, PTL DEF Spec
=============================================================================
