-------------------------- MODULE ValidationProofs --------------------------
(***************************************************************************)
(* Validation, proved for every set of loadouts, every game database that  *)
(* keeps to its schema and every order in which Go ranges over its maps.   *)
(* The inductive invariant is that the points collected so far are those   *)
(* of the loadout, doubled where applyTorsoUp has been, and that what was  *)
(* answered is Result of the loadout: the properties of the run are facts  *)
(* about that operator.                                                    *)
(***************************************************************************)
EXTENDS Validation, FiniteSetTheorems, WellFoundedInduction, TLAPS

-----------------------------------------------------------------------------
(* What is collected.                                                      *)

\* Where applyTorsoUp has been when it has visited the slots of done, and the
\* trees that are not in rest of one more, the chest counts there too.
Doubled(l, done, s0, rest) ==
  [t \in Met(l) |-> [s \in Slot |->
     Collected(l)[t][s] +
       IF t # TorsoUp /\ s \in done /\ ~(s = s0 /\ t \in rest) THEN Collected(l)[t]["chest"] ELSE 0]]

\* The points of a loadout when applyTorsoUp has ended.
Final(l) == Doubled(l, Marked(Collected(l)), "chest", {})

\* The answer to a loadout: nothing but the loadout and the tables decides it.
Result(l) ==
  IF Refused(l) THEN [refused |-> TRUE]
  ELSE [refused |-> FALSE, diagnostics |-> Diagnostics(l),
        skills |-> [t \in Met(l) |-> [points |-> OverSlots(Final(l)[t]),
                                      active |-> Activated(t, OverSlots(Final(l)[t]))]]]

\* The fields of a loadout that clients may send.
LEMMA Fields ==
  ASSUME NEW l \in Submitted
  PROVE  /\ \A s \in Worn : /\ l.piece[s].type \in Int /\ l.piece[s].id \in Int
                            /\ l.piece[s].decorations \in Seq(Int)
         /\ l.charm.id \in [1..2 -> Int] /\ l.charm.points \in [1..2 -> Int]
         /\ l.charm.decorations \in Seq(Int)
         /\ \A s \in Slot : Decorations(l, s) \in Seq(Int)
<1>1. l \in Loadout
  BY ValidationAssumption
<1>2. l.piece \in [Worn -> Piece] /\ l.charm \in Charm
  BY <1>1 DEF Loadout
<1>3. \A s \in Worn : l.piece[s] \in Piece
  BY <1>2
<1>4. \A s \in Worn : /\ l.piece[s].type \in Int /\ l.piece[s].id \in Int
                      /\ l.piece[s].decorations \in Seq(Int)
  BY <1>3 DEF Piece
<1>5. /\ l.charm.id \in [1..2 -> Int] /\ l.charm.points \in [1..2 -> Int]
      /\ l.charm.decorations \in Seq(Int)
  BY <1>2 DEF Charm
<1> QED BY <1>4, <1>5 DEF Decorations, Slot

\* The items of an accepted loadout are in the database.
LEMMA AcceptedItems ==
  ASSUME NEW l \in Submitted, ~Refused(l)
  PROVE  /\ \A s \in Worn : Columns(Item(l, s).points)
         /\ \A s \in Slot : /\ Len(Decorations(l, s)) <= 3
                            /\ Set(Decorations(l, s)) \subseteq DOMAIN Decoration
         /\ \A j \in 1..2 : l.charm.id[j] \in Tree \cup {0}
<1>1. \A s \in Worn : <<l.piece[s].type, l.piece[s].id>> \in DOMAIN Equipment
  BY ZenonT(60) DEF Refused, WearRefused
<1>2. \A s \in Slot : Decodable(Decorations(l, s))
  BY DEF Refused, WearRefused, CharmRefused, Decorations, Slot
<1>3. \A s \in Slot : Decorations(l, s) \in Seq(Int)
  BY Fields
<1>4. \A s \in Slot : /\ Len(Decorations(l, s)) <= 3
                      /\ Set(Decorations(l, s)) \subseteq DOMAIN Decoration
  BY <1>2, <1>3 DEF Decodable, Set
<1>5. \A s \in Worn : Columns(Item(l, s).points)
  BY <1>1, ValidationAssumption DEF Item
<1>6. \A j \in 1..2 : l.charm.id[j] \in Tree \cup {0}
  BY DEF Refused, CharmRefused
<1> QED BY <1>4, <1>5, <1>6

\* A column of points is a number.
LEMMA AtIsInt ==
  ASSUME NEW f, Columns(f), NEW t
  PROVE  At(f, t) \in Int
BY DEF At, Columns

\* Numbers summed over a list of decorations are a number.
LEMMA OverSetIsInt ==
  ASSUME NEW d, NEW value, \A i \in DOMAIN d : d[i] # 0 => value[d[i]] \in Int
  PROVE  OverSet(d, value) \in Int
<1> DEFINE at(i) == IF i \in DOMAIN d /\ d[i] # 0 THEN value[d[i]] ELSE 0
<1>1. at(1) \in Int /\ at(2) \in Int /\ at(3) \in Int
  OBVIOUS
<1>2. OverSet(d, value) = at(1) + at(2) + at(3)
  BY DEF OverSet
<1> HIDE DEF at
<1> QED BY <1>1, <1>2

\* The points of the decorations of a list, and the slots they fill, are numbers.
LEMMA DecorationSums ==
  ASSUME NEW d \in Seq(Int), Set(d) \subseteq DOMAIN Decoration, NEW t
  PROVE  OverSet(d, PointsOn(t)) \in Int /\ OverSet(d, Sizes) \in Int
<1>1. \A i \in DOMAIN d : d[i] # 0 => d[i] \in DOMAIN Decoration
  BY DEF Set
<1>2. PointsOn(t) \in [DOMAIN Decoration -> Int] /\ Sizes \in [DOMAIN Decoration -> Int]
  BY AtIsInt, ValidationAssumption DEF PointsOn, Sizes
<1> QED BY <1>1, <1>2, OverSetIsInt

\* The trees an accepted loadout meets are in the database.
LEMMA MetIsInTree ==
  ASSUME NEW l \in Submitted, ~Refused(l)
  PROVE  Met(l) \subseteq Tree
<1>1. {l.charm.id[1], l.charm.id[2]} \ {0} \subseteq Tree
  BY AcceptedItems
<1>2. \A s \in Armor : DOMAIN Item(l, s).points \subseteq Tree
  BY AcceptedItems DEF Columns, Worn
<1>3. \A k \in DOMAIN Decoration : DOMAIN Decoration[k].points \subseteq Tree
  BY ValidationAssumption DEF Columns
<1>4. \A s \in Slot : \A k \in Set(Decorations(l, s)) : DOMAIN Decoration[k].points \subseteq Tree
  BY <1>3, AcceptedItems
<1>5. \A t \in Met(l) : t \in Tree
  <2> SUFFICES ASSUME NEW t \in Met(l)
               PROVE  t \in Tree
    OBVIOUS
  <2>1. CASE t \in {l.charm.id[1], l.charm.id[2]} \ {0}
    BY <2>1, <1>1
  <2>2. CASE \E s \in Armor : t \in DOMAIN Item(l, s).points
    BY <2>2, <1>2
  <2>3. CASE \E s \in Slot : \E k \in Set(Decorations(l, s)) : t \in DOMAIN Decoration[k].points
    BY <2>3, <1>4
  <2> QED BY <2>1, <2>2, <2>3 DEF Met
<1> QED BY <1>5

\* Points are collected for the trees met, and are numbers.
LEMMA CollectedTypes ==
  ASSUME NEW l \in Submitted, ~Refused(l)
  PROVE  Collected(l) \in [Met(l) -> [Slot -> Int]]
<1>1. SUFFICES ASSUME NEW t \in Met(l), NEW s \in Slot
               PROVE  OfItem(l, s, t) + OverSet(Decorations(l, s), PointsOn(t)) \in Int
  BY DEF Collected
<1>2. OverSet(Decorations(l, s), PointsOn(t)) \in Int
  <2>1. Decorations(l, s) \in Seq(Int) /\ Set(Decorations(l, s)) \subseteq DOMAIN Decoration
    BY AcceptedItems, Fields
  <2> QED BY <2>1, DecorationSums
<1>3. OfItem(l, s, t) \in Int
  <2>1. l.charm.points[1] \in Int /\ l.charm.points[2] \in Int
    BY Fields
  <2>2. s \in Armor => At(Item(l, s).points, t) \in Int
    BY AcceptedItems, AtIsInt DEF Worn
  <2> QED BY <2>1, <2>2 DEF OfItem
<1> QED BY <1>2, <1>3

\* applyTorsoUp only adds: what it works on keeps its type, and its marks.
LEMMA DoubledTypes ==
  ASSUME NEW l \in Submitted, ~Refused(l), NEW done, NEW s0, NEW rest
  PROVE  /\ Doubled(l, done, s0, rest) \in [Met(l) -> [Slot -> Int]]
         /\ \A t \in Met(l) : \A s \in Slot : Collected(l)[t][s] \in Int
<1>1. Collected(l) \in [Met(l) -> [Slot -> Int]]
  BY CollectedTypes
<1>2. \A t \in Met(l) : \A s \in Slot : Collected(l)[t][s] \in Int
  BY <1>1
<1>3. "chest" \in Slot
  BY DEF Slot, Worn, Armor
<1> QED BY <1>2, <1>3 DEF Doubled

-----------------------------------------------------------------------------
(* The inductive invariant.                                                *)

IdleIsClean ==
  loadout = NoLoadout => points = <<>> /\ slots = {} /\ slot = "chest" /\ trees = {}

CollectedSoFar ==
  loadout # NoLoadout =>
    LET marked == Marked(Collected(loadout)) IN
    /\ loadout \in Submitted /\ ~Refused(loadout)
    /\ slots \subseteq marked /\ slot \in Slot
    /\ trees \subseteq Met(loadout) \ {TorsoUp}
    /\ trees # {} => slot \in marked \ slots
    /\ points = Doubled(loadout, marked \ slots, slot, trees)

Answered ==
  \/ answer = NoAnswer
  \/ answer.loadout \in Submitted /\ answer.result = Result(answer.loadout)

IInv == IdleIsClean /\ CollectedSoFar /\ Answered

\* Before applyTorsoUp the points are those collected.
LEMMA DoubledStarts ==
  ASSUME NEW l \in Submitted, ~Refused(l), NEW s0, NEW rest
  PROVE  Doubled(l, {}, s0, rest) = Collected(l)
<1>1. Collected(l) \in [Met(l) -> [Slot -> Int]]
  BY CollectedTypes
<1>2. \A t \in Met(l) : \A s \in Slot : Doubled(l, {}, s0, rest)[t][s] = Collected(l)[t][s]
  BY DoubledTypes DEF Doubled
<1>3. Doubled(l, {}, s0, rest) \in [Met(l) -> [Slot -> Int]]
  BY DoubledTypes
<1> HIDE DEF Doubled, Collected
<1>4. \A t \in Met(l) : Doubled(l, {}, s0, rest)[t] = Collected(l)[t]
  <2> TAKE t \in Met(l)
  <2>1. Doubled(l, {}, s0, rest)[t] \in [Slot -> Int] /\ Collected(l)[t] \in [Slot -> Int]
    BY <1>1, <1>3
  <2> QED BY <2>1, <1>2
<1> QED BY <1>1, <1>3, <1>4

\* Visiting one more marked slot changes nothing until the chest is copied.
LEMMA DoubledVisits ==
  ASSUME NEW l \in Submitted, ~Refused(l), NEW done, NEW s0, NEW s \in Slot, s \notin done
  PROVE  Doubled(l, done \cup {s}, s, Met(l) \ {TorsoUp}) = Doubled(l, done, s0, {})
BY DoubledTypes DEF Doubled

\* The points p with n more in one place.
Plus(p, t, s, n) == [p EXCEPT ![t][s] = p[t][s] + n]

\* Copying the chest in a tree is doubling it there.
LEMMA DoubledCopies ==
  ASSUME NEW l, NEW done, NEW s, NEW rest, NEW t,
         l \in Submitted, ~Refused(l), s \in Slot, s \in done, "chest" \notin done,
         t \in rest, rest \subseteq Met(l) \ {TorsoUp}
  PROVE  Doubled(l, done, s, rest \ {t}) =
           Plus(Doubled(l, done, s, rest), t, s, Doubled(l, done, s, rest)[t]["chest"])
<1> DEFINE old == Doubled(l, done, s, rest)
           new == Doubled(l, done, s, rest \ {t})
           own == Collected(l)
<1>1. /\ \A u \in Met(l) : \A x \in Slot : own[u][x] \in Int
      /\ "chest" \in Slot /\ t \in Met(l) /\ t # TorsoUp
  BY DoubledTypes DEF Slot, Worn, Armor
<1>2. old \in [Met(l) -> [Slot -> Int]] /\ new \in [Met(l) -> [Slot -> Int]]
  BY DoubledTypes
<1>3. old[t]["chest"] = own[t]["chest"] /\ old[t][s] = own[t][s]
  BY <1>1 DEF Doubled
<1>4. new[t][s] = own[t][s] + own[t]["chest"]
  BY <1>1 DEF Doubled
<1>5. \A u \in Met(l) : \A x \in Slot : u # t \/ x # s => new[u][x] = old[u][x]
  BY <1>1 DEF Doubled
<1> HIDE DEF old, new, own
<1>6. new = [old EXCEPT ![t] = [old[t] EXCEPT ![s] = old[t][s] + old[t]["chest"]]]
  <2>1. new[t] = [old[t] EXCEPT ![s] = old[t][s] + old[t]["chest"]]
    <3>1. new[t] \in [Slot -> Int] /\ old[t] \in [Slot -> Int]
      BY <1>1, <1>2
    <3> QED BY <3>1, <1>1, <1>3, <1>4, <1>5
  <2>2. \A u \in Met(l) : u # t => new[u] = old[u]
    <3> SUFFICES ASSUME NEW u \in Met(l), u # t
                 PROVE  new[u] = old[u]
      OBVIOUS
    <3>1. new[u] \in [Slot -> Int] /\ old[u] \in [Slot -> Int]
      BY <1>2
    <3> QED BY <3>1, <1>5
  <2> QED BY <2>1, <2>2, <1>1, <1>2
<1> QED BY <1>6, <1>2 DEF old, new, Plus

\* What is marked is a set of slots without the chest.
LEMMA MarkedSlots ==
  ASSUME NEW p
  PROVE  Marked(p) \subseteq Slot /\ "chest" \notin Marked(p)
BY DEF Marked

\* Every step keeps the invariant.
LEMMA IInvStep == IInv /\ [Next]_vars => IInv'
<1> SUFFICES ASSUME IInv, [Next]_vars
             PROVE  IInv'
  OBVIOUS
<1> USE DEF IInv
<1>1. ASSUME NEW l \in Submitted, Refuse(l)
      PROVE  IInv'
  <2>1. UNCHANGED <<loadout, points, slots, slot, trees>>
    BY <1>1 DEF Refuse
  <2>2. answer'.loadout \in Submitted /\ answer'.result = Result(answer'.loadout)
    BY <1>1 DEF Refuse, Result
  <2> QED BY <2>1, <2>2 DEF IdleIsClean, CollectedSoFar, Answered
<1>2. ASSUME NEW l \in Submitted, Collect(l)
      PROVE  IInv'
  <2>1. /\ loadout' = l /\ points' = Collected(l) /\ slots' = Marked(Collected(l))
        /\ slot' = "chest" /\ trees' = {} /\ answer' = answer
        /\ ~Refused(l) /\ loadout = NoLoadout
    BY <1>2 DEF Collect, IdleIsClean
  <2>2. "chest" \in Slot /\ l # NoLoadout
    BY ValidationAssumption DEF Slot, Worn, Armor
  <2>3. points' = Doubled(l, slots' \ slots', slot', trees')
    BY <2>1, DoubledStarts
  <2> QED BY <2>1, <2>2, <2>3 DEF IdleIsClean, CollectedSoFar, Answered
<1>3. ASSUME NEW s \in Slot, Visit(s)
      PROVE  IInv'
  <2> DEFINE marked == Marked(Collected(loadout))
  <2>1. /\ trees = {} /\ s \in slots /\ slots' = slots \ {s} /\ slot' = s
        /\ trees' = DOMAIN points \ {TorsoUp}
        /\ loadout' = loadout /\ points' = points /\ answer' = answer
    BY <1>3 DEF Visit
  <2>2. loadout # NoLoadout
    BY <2>1 DEF IdleIsClean
  <2>3. /\ loadout \in Submitted /\ ~Refused(loadout) /\ slots \subseteq marked
        /\ points = Doubled(loadout, marked \ slots, slot, {})
    BY <2>1, <2>2 DEF CollectedSoFar
  <2>4. DOMAIN points = Met(loadout)
    BY <2>3 DEF Doubled
  <2>5. marked \ slots' = (marked \ slots) \cup {s} /\ s \notin marked \ slots
    BY <2>1, <2>3
  <2> HIDE DEF marked
  <2>6. points = Doubled(loadout, marked \ slots', s, Met(loadout) \ {TorsoUp})
    BY <2>3, <2>5, DoubledVisits
  <2>7. CollectedSoFar'
    BY <2>1, <2>2, <2>3, <2>4, <2>5, <2>6 DEF CollectedSoFar, marked
  <2> QED BY <2>1, <2>2, <2>7 DEF IdleIsClean, Answered
<1>4. ASSUME NEW t \in Tree, CopyChest(t)
      PROVE  IInv'
  <2> DEFINE done == Marked(Collected(loadout)) \ slots
  <2>1. /\ t \in trees /\ trees' = trees \ {t}
        /\ points' = [points EXCEPT ![t][slot] = @ + points[t]["chest"]]
        /\ loadout' = loadout /\ slots' = slots /\ slot' = slot /\ answer' = answer
    BY <1>4 DEF CopyChest
  <2>2. loadout # NoLoadout
    BY <2>1 DEF IdleIsClean
  <2>3. /\ loadout \in Submitted /\ ~Refused(loadout) /\ slot \in Slot
        /\ slots \subseteq Marked(Collected(loadout))
        /\ trees \subseteq Met(loadout) \ {TorsoUp} /\ slot \in done
        /\ points = Doubled(loadout, done, slot, trees)
    BY <2>1, <2>2 DEF CollectedSoFar
  <2>4. "chest" \notin done
    BY MarkedSlots
  <2> HIDE DEF done
  <2>5. points' = Doubled(loadout, done, slot, trees \ {t})
    <3>1. \A d : slot \in d /\ "chest" \notin d =>
            Doubled(loadout, d, slot, trees \ {t}) =
              Plus(Doubled(loadout, d, slot, trees), t, slot, Doubled(loadout, d, slot, trees)[t]["chest"])
      BY <2>1, <2>3, DoubledCopies, SMTT(30)
    <3>2. points' = Plus(points, t, slot, points[t]["chest"])
      BY <2>1 DEF Plus
    <3> QED BY <2>3, <2>4, <3>1, <3>2
  <2>6. CollectedSoFar'
    BY <2>1, <2>2, <2>3, <2>5 DEF CollectedSoFar, done
  <2> QED BY <2>1, <2>2, <2>6 DEF IdleIsClean, Answered
<1>5. ASSUME Finish
      PROVE  IInv'
  <2>1. /\ loadout # NoLoadout /\ slots = {} /\ trees = {}
        /\ answer' = [loadout |-> loadout,
                      result |-> [refused |-> FALSE, diagnostics |-> Diagnostics(loadout),
                                  skills |-> Skills]]
        /\ loadout' = NoLoadout /\ points' = <<>> /\ slot' = "chest"
        /\ slots' = slots /\ trees' = trees
    BY <1>5 DEF Finish
  <2>2. /\ loadout \in Submitted /\ ~Refused(loadout)
        /\ points = Doubled(loadout, Marked(Collected(loadout)), slot, {})
    BY <2>1 DEF CollectedSoFar
  <2>3. points = Final(loadout)
    BY <2>2 DEF Final, Doubled
  <2>4. DOMAIN points = Met(loadout)
    BY <2>2 DEF Doubled
  <2>5. Skills = [t \in Met(loadout) |-> [points |-> OverSlots(Final(loadout)[t]),
                                          active |-> Activated(t, OverSlots(Final(loadout)[t]))]]
    BY <2>3, <2>4 DEF Skills, Total
  <2>6. answer'.loadout \in Submitted /\ answer'.result = Result(answer'.loadout)
    BY <2>1, <2>2, <2>5 DEF Result
  <2> QED BY <2>1, <2>6 DEF IdleIsClean, CollectedSoFar, Answered
<1>6. CASE UNCHANGED vars
  BY <1>6 DEF vars, IdleIsClean, CollectedSoFar, Answered
<1> QED BY <1>1, <1>2, <1>3, <1>4, <1>5, <1>6 DEF Next

\* The answer to a loadout is Result of it, in whatever order Go ranges over the
\* maps of applyTorsoUp and whatever was validated before.
THEOREM AnswerIsResult == Spec => []IInv
<1>1. Init => IInv
  BY DEF Init, Idle, IInv, IdleIsClean, CollectedSoFar, Answered
<1> QED BY <1>1, IInvStep, PTL DEF Spec

\* What is collected, copied and answered stays within the game database.
THEOREM TypesHold == Spec => []TypeOK
<1>1. IInv => TypeOK
  <2> SUFFICES ASSUME IInv
               PROVE  TypeOK
    OBVIOUS
  <2>1. CASE loadout = NoLoadout
    <3>1. points = <<>> /\ slots = {} /\ slot = "chest" /\ trees = {}
      BY <2>1 DEF IInv, IdleIsClean
    <3>2. DOMAIN points = {}
      BY <3>1
    <3>3. answer.loadout \in Submitted \cup {NoLoadout}
      BY DEF IInv, Answered, NoAnswer
    <3>4. "chest" \in Slot
      BY DEF Slot, Worn, Armor
    <3> QED BY <2>1, <3>1, <3>2, <3>3, <3>4 DEF TypeOK
  <2>2. CASE loadout # NoLoadout
    <3>1. /\ loadout \in Submitted /\ ~Refused(loadout)
          /\ slots \subseteq Marked(Collected(loadout)) /\ slot \in Slot
          /\ trees \subseteq Met(loadout) \ {TorsoUp}
          /\ points = Doubled(loadout, Marked(Collected(loadout)) \ slots, slot, trees)
      BY <2>2 DEF IInv, CollectedSoFar
    <3>2. points \in [Met(loadout) -> [Slot -> Int]]
      BY <3>1, DoubledTypes
    <3>3. Met(loadout) \subseteq Tree /\ slots \subseteq Slot
      BY <3>1, MetIsInTree, MarkedSlots
    <3>4. answer.loadout \in Submitted \cup {NoLoadout}
      BY DEF IInv, Answered, NoAnswer
    <3> QED BY <2>2, <3>1, <3>2, <3>3, <3>4 DEF TypeOK
  <2> QED BY <2>1, <2>2
<1> QED BY <1>1, AnswerIsResult, PTL

-----------------------------------------------------------------------------
(* Torso up.                                                               *)

\* An accepted answer is the one of a loadout that is not refused.
LEMMA AcceptedAnswer ==
  ASSUME IInv, Accepted
  PROVE  /\ answer.loadout \in Submitted /\ ~Refused(answer.loadout)
         /\ answer.result = Result(answer.loadout)
         /\ answer.result.diagnostics = Diagnostics(answer.loadout)
         /\ answer.result.skills =
              [t \in Met(answer.loadout) |->
                 [points |-> OverSlots(Final(answer.loadout)[t]),
                  active |-> Activated(t, OverSlots(Final(answer.loadout)[t]))]]
<1>1. answer # NoAnswer
  BY DEF Accepted, NoAnswer
<1>2. answer.loadout \in Submitted /\ answer.result = Result(answer.loadout)
  BY <1>1 DEF IInv, Answered
<1>3. ~Refused(answer.loadout)
  BY <1>2 DEF Accepted, Result
<1> QED BY <1>2, <1>3 DEF Result

\* One more element of T counts once in the part of S that is in T.
LEMMA CountOneMore ==
  ASSUME NEW S, NEW T, IsFiniteSet(T), NEW x, x \notin T
  PROVE  /\ IsFiniteSet(T \cup {x})
         /\ Cardinality(S \cap T) \in Nat
         /\ Cardinality(S \cap (T \cup {x})) = Cardinality(S \cap T) + (IF x \in S THEN 1 ELSE 0)
<1>1. IsFiniteSet(S \cap T) /\ Cardinality(S \cap T) \in Nat
  <2>1. S \cap T \subseteq T
    OBVIOUS
  <2>2. IsFiniteSet(S \cap T)
    BY <2>1, FS_Subset
  <2> QED BY <2>2, FS_CardinalityType
<1>2. IsFiniteSet(T \cup {x})
  BY FS_AddElement
<1>3. CASE x \in S
  <2>1. S \cap (T \cup {x}) = (S \cap T) \cup {x} /\ x \notin S \cap T
    BY <1>3
  <2> QED BY <1>1, <1>2, <1>3, <2>1, FS_AddElement
<1>4. CASE x \notin S
  <2>1. S \cap (T \cup {x}) = S \cap T
    BY <1>4
  <2>2. Cardinality(S \cap (T \cup {x})) = Cardinality(S \cap T)
    BY <2>1, Zenon
  <2> QED BY <1>1, <1>2, <1>4, <2>2
<1> QED BY <1>3, <1>4

\* The size of a set of slots without the chest is counted slot by slot.
LEMMA CountSlots ==
  ASSUME NEW S, S \subseteq Slot \ {"chest"}
  PROVE  Cardinality(S) =
           (IF "weapon" \in S THEN 1 ELSE 0) + (IF "head" \in S THEN 1 ELSE 0)
             + (IF "arms" \in S THEN 1 ELSE 0) + (IF "waist" \in S THEN 1 ELSE 0)
             + (IF "legs" \in S THEN 1 ELSE 0) + (IF "charm" \in S THEN 1 ELSE 0)
<1> DEFINE T0 == {}
           T1 == T0 \cup {"weapon"}
           T2 == T1 \cup {"head"}
           T3 == T2 \cup {"arms"}
           T4 == T3 \cup {"waist"}
           T5 == T4 \cup {"legs"}
           T6 == T5 \cup {"charm"}
           in(s) == IF s \in S THEN 1 ELSE 0
<1>1. /\ "weapon" \notin T0 /\ "head" \notin T1 /\ "arms" \notin T2
      /\ "waist" \notin T3 /\ "legs" \notin T4 /\ "charm" \notin T5
  OBVIOUS
<1>2. S \cap T6 = S
  BY DEF Slot, Worn, Armor
<1>3. IsFiniteSet(T0) /\ Cardinality(S \cap T0) = 0
  <2>1. S \cap T0 = {}
    OBVIOUS
  <2>2. Cardinality(S \cap T0) = Cardinality({})
    BY <2>1, Zenon
  <2> QED BY <2>2, FS_EmptySet
<1>a. \A T, x : IsFiniteSet(T) /\ x \notin T =>
          IsFiniteSet(T \cup {x}) /\ Cardinality(S \cap (T \cup {x})) = Cardinality(S \cap T) + in(x)
  <2> SUFFICES ASSUME NEW T, NEW x, IsFiniteSet(T), x \notin T
               PROVE  IsFiniteSet(T \cup {x})
                      /\ Cardinality(S \cap (T \cup {x})) = Cardinality(S \cap T) + in(x)
    OBVIOUS
  <2> QED BY CountOneMore, Zenon
<1> HIDE DEF T0, T1, T2, T3, T4, T5, T6, in
<1>4. IsFiniteSet(T1) /\ Cardinality(S \cap T1) = Cardinality(S \cap T0) + in("weapon")
  BY <1>1, <1>3, <1>a, Zenon DEF T1
<1>5. IsFiniteSet(T2) /\ Cardinality(S \cap T2) = Cardinality(S \cap T1) + in("head")
  BY <1>1, <1>4, <1>a, Zenon DEF T2
<1>6. IsFiniteSet(T3) /\ Cardinality(S \cap T3) = Cardinality(S \cap T2) + in("arms")
  BY <1>1, <1>5, <1>a, Zenon DEF T3
<1>7. IsFiniteSet(T4) /\ Cardinality(S \cap T4) = Cardinality(S \cap T3) + in("waist")
  BY <1>1, <1>6, <1>a, Zenon DEF T4
<1>8. IsFiniteSet(T5) /\ Cardinality(S \cap T5) = Cardinality(S \cap T4) + in("legs")
  BY <1>1, <1>7, <1>a, Zenon DEF T5
<1>9. Cardinality(S \cap T6) = Cardinality(S \cap T5) + in("charm")
  BY <1>1, <1>8, <1>a, Zenon DEF T6
<1>10. Cardinality(S) = Cardinality(S \cap T6)
  BY <1>2, Zenon
<1> QED BY <1>3, <1>4, <1>5, <1>6, <1>7, <1>8, <1>9, <1>10 DEF in

\* Adding the chest in every slot of a set adds it once for each of them.
LEMMA SumOfCopies ==
  ASSUME NEW f \in [Slot -> Int], NEW S, S \subseteq Slot \ {"chest"}, NEW g,
         \A s \in Slot : g[s] = f[s] + (IF s \in S THEN f["chest"] ELSE 0)
  PROVE  OverSlots(g) = OverSlots(f) + Cardinality(S) * f["chest"]
<1> DEFINE in(s) == IF s \in S THEN 1 ELSE 0
           c == f["chest"]
<1>1. c \in Int /\ Slot = {"weapon", "head", "chest", "arms", "waist", "legs", "charm"}
  BY DEF Slot, Worn, Armor
<1>2. \A s \in Slot : in(s) \in Int /\ in(s) * c \in Int /\ f[s] \in Int /\ g[s] = f[s] + in(s) * c
  <2> SUFFICES ASSUME NEW s \in Slot
               PROVE  in(s) \in Int /\ in(s) * c \in Int /\ f[s] \in Int /\ g[s] = f[s] + in(s) * c
    OBVIOUS
  <2>1. CASE s \in S
    BY <1>1, <2>1
  <2>2. CASE s \notin S
    <3>1. in(s) = 0 /\ 0 * c = 0 /\ g[s] = f[s] + 0 /\ f[s] \in Int
      BY <1>1, <2>2
    <3> HIDE DEF in
    <3> QED BY <3>1
  <2> QED BY <2>1, <2>2
<1>3. in("chest") = 0
  OBVIOUS
<1>4. Cardinality(S) = in("weapon") + in("head") + in("arms") + in("waist") + in("legs") + in("charm")
  BY CountSlots
<1> HIDE DEF in, c
<1>5. Cardinality(S) * c =
        in("weapon") * c + in("head") * c + in("arms") * c + in("waist") * c + in("legs") * c + in("charm") * c
  BY <1>1, <1>2, <1>4
<1>6. g["chest"] = f["chest"]
  BY <1>1, <1>2, <1>3
<1>7. OverSlots(g) = OverSlots(f) + Cardinality(S) * c
  BY <1>1, <1>2, <1>5, <1>6 DEF OverSlots
<1> QED BY <1>7 DEF c

\* Torso up doubles the chest once for each other part that has it, in every tree
\* but its own, whatever the loadout and the order of the maps.
THEOREM ChestCountsOnce == Spec => []TorsoUpOnce
<1>1. IInv => TorsoUpOnce
  <2> SUFFICES ASSUME IInv, Accepted
               PROVE  TorsoUpOnce
    BY DEF TorsoUpOnce
  <2> DEFINE l == answer.loadout
             own == Collected(l)
             marked == Marked(own)
  <2>1. l \in Submitted /\ ~Refused(l)
    BY AcceptedAnswer
  <2>2. \A t \in Met(l) : answer.result.skills[t].points = OverSlots(Final(l)[t])
    BY AcceptedAnswer
  <2>3. own \in [Met(l) -> [Slot -> Int]]
    BY <2>1, CollectedTypes
  <2>4. marked = {s \in Slot \ {"chest"} : TorsoUp \in DOMAIN own /\ own[TorsoUp][s] > 0}
    BY DEF Marked
  <2>5. \A t \in Met(l) : \A s \in Slot :
          Final(l)[t][s] = own[t][s] + (IF t # TorsoUp /\ s \in marked THEN own[t]["chest"] ELSE 0)
    BY DEF Final, Doubled
  <2>6. marked \subseteq Slot \ {"chest"}
    BY <2>4
  <2> HIDE DEF own, marked
  <2>7. ASSUME NEW t \in Met(l), t # TorsoUp
        PROVE  OverSlots(Final(l)[t]) = OverSlots(own[t]) + Cardinality(marked) * own[t]["chest"]
    <3>1. own[t] \in [Slot -> Int]
      BY <2>3
    <3>2. \A s \in Slot : Final(l)[t][s] = own[t][s] + (IF s \in marked THEN own[t]["chest"] ELSE 0)
      BY <2>5, <2>7
    <3> QED BY <3>1, <3>2, <2>6, SumOfCopies
  <2>8. ASSUME NEW t \in Met(l), t = TorsoUp
        PROVE  OverSlots(Final(l)[t]) = OverSlots(own[t]) + 0
    <3>1. own[t] \in [Slot -> Int]
      BY <2>3
    <3>2. \A s \in Slot : Final(l)[t][s] = own[t][s]
      BY <2>5, <2>8, <3>1
    <3> QED BY <3>1, <3>2 DEF OverSlots, Slot, Worn, Armor
  <2>9. DOMAIN own = Met(l)
    BY <2>3
  <2> QED BY <2>2, <2>4, <2>7, <2>8, <2>9 DEF TorsoUpOnce, own
<1> QED BY <1>1, AnswerIsResult, PTL

-----------------------------------------------------------------------------
(* Charms.                                                                 *)

\* When the validator says of a charm what an editor could have known.
NotOffered(c) ==
  \/ \A k \in Of(c) : k.slots # c.slots
  \/ \E i \in 1..2 : \A k \in Offered(c, i) : k.points[i] # c.points[i]
  \/ 0 \notin {c.id[1], c.id[2]} /\ \A k \in Of(c) : k.id # c.id

EditorCodes ==
  {"CHARM_SLOT_NOT_GENERATED", "CHARM_SKILL_POSITION_INVALID",
   "CHARM_SKILL_POINTS_INVALID", "CHARM_SKILL_PAIR_NOT_GENERATED"}

\* The diagnostics with one of those codes are those conditions, and none is of equipment.
LEMMA EditorDiagnostics ==
  ASSUME NEW l
  PROVE  (\E d \in Diagnostics(l) : d[1] \in EditorCodes) <=> NotOffered(l.charm)
<1> DEFINE c == l.charm
           says(code) == \E d \in CharmDiagnostics(c) : d[1] = code
<1>1. ASSUME NEW d \in WearDiagnostics(l)
      PROVE  d[1] \notin EditorCodes
  BY <1>1 DEF WearDiagnostics, EditorCodes
<1> DEFINE idle(j) == c.id[j] = 0 /\ c.points[j] # 0
           twice == c.id[1] # 0 /\ c.id[1] = c.id[2]
           holes == \A k \in Of(c) : k.slots # c.slots
           nowhere(j) == Offered(c, j) = {}
           unlike(j) == Offered(c, j) # {} /\ \A k \in Offered(c, j) : k.points[j] # c.points[j]
           pair == 0 \notin {c.id[1], c.id[2]} /\ \A k \in Of(c) : k.id # c.id
           record == ~Generated(c)
<1>0. \A d : d \in CharmDiagnostics(c) <=>
        \/ \E j \in 1..2 : d = <<"CHARM_SKILL_POINTS_WITHOUT_SKILL", j>> /\ idle(j)
        \/ d = <<"CHARM_DUPLICATE_SKILL", 0>> /\ twice
        \/ d = <<"CHARM_SLOT_NOT_GENERATED", 0>> /\ holes
        \/ \E j \in 1..2 : d = <<"CHARM_SKILL_POSITION_INVALID", j>> /\ nowhere(j)
        \/ \E j \in 1..2 : d = <<"CHARM_SKILL_POINTS_INVALID", j>> /\ unlike(j)
        \/ d = <<"CHARM_SKILL_PAIR_NOT_GENERATED", 0>> /\ pair
        \/ d = <<"CHARM_COMBINATION_NOT_GENERATED", 0>> /\ record
  <2>1. \A code, b, d : d \in At0(code, b) <=> (b /\ d = <<code, 0>>)
    BY DEF At0
  <2> QED BY <2>1 DEF CharmDiagnostics
<1> HIDE DEF idle, twice, holes, nowhere, unlike, pair, record
<1>2. says("CHARM_SLOT_NOT_GENERATED") <=> holes
  <2>1. holes => <<"CHARM_SLOT_NOT_GENERATED", 0>> \in CharmDiagnostics(c)
    BY <1>0
  <2>2. ASSUME NEW d \in CharmDiagnostics(c), d[1] = "CHARM_SLOT_NOT_GENERATED"
        PROVE  holes
    BY <1>0, <2>2
  <2> QED BY <2>1, <2>2
<1>3. says("CHARM_SKILL_POSITION_INVALID") <=> \E i \in 1..2 : nowhere(i)
  <2>1. \A i \in 1..2 : nowhere(i) => <<"CHARM_SKILL_POSITION_INVALID", i>> \in CharmDiagnostics(c)
    BY <1>0
  <2>2. ASSUME NEW d \in CharmDiagnostics(c), d[1] = "CHARM_SKILL_POSITION_INVALID"
        PROVE  \E i \in 1..2 : nowhere(i)
    BY <1>0, <2>2
  <2> QED BY <2>1, <2>2
<1>4. says("CHARM_SKILL_POINTS_INVALID") <=> \E i \in 1..2 : unlike(i)
  <2>1. \A i \in 1..2 : unlike(i) => <<"CHARM_SKILL_POINTS_INVALID", i>> \in CharmDiagnostics(c)
    BY <1>0
  <2>2. ASSUME NEW d \in CharmDiagnostics(c), d[1] = "CHARM_SKILL_POINTS_INVALID"
        PROVE  \E i \in 1..2 : unlike(i)
    BY <1>0, <2>2
  <2> QED BY <2>1, <2>2
<1>5. says("CHARM_SKILL_PAIR_NOT_GENERATED") <=> pair
  <2>1. pair => <<"CHARM_SKILL_PAIR_NOT_GENERATED", 0>> \in CharmDiagnostics(c)
    BY <1>0
  <2>2. ASSUME NEW d \in CharmDiagnostics(c), d[1] = "CHARM_SKILL_PAIR_NOT_GENERATED"
        PROVE  pair
    BY <1>0, <2>2
  <2> QED BY <2>1, <2>2
<1>6. (\E d \in Diagnostics(l) : d[1] \in EditorCodes) <=> \E code \in EditorCodes : says(code)
  BY <1>1 DEF Diagnostics
<1>7. (\E i \in 1..2 : Offered(c, i) = {}) \/ says("CHARM_SKILL_POINTS_INVALID")
        <=> \E i \in 1..2 : \A k \in Offered(c, i) : k.points[i] # c.points[i]
  BY <1>3, <1>4 DEF nowhere, unlike
<1> HIDE DEF says
<1> QED BY <1>2, <1>3, <1>5, <1>6, <1>7 DEF EditorCodes, NotOffered, holes, nowhere, pair

\* What charm-rules offers an editor and what the validator then says of the charm
\* agree, for every table of combinations and every charm.
THEOREM RulesAgree == Spec => []CharmRulesAgree
<1>1. IInv => CharmRulesAgree
  <2> SUFFICES ASSUME IInv, Accepted
               PROVE  CharmRulesAgree
    BY DEF CharmRulesAgree
  <2> DEFINE l == answer.loadout
             c == l.charm
             rules == CharmRules(c.class, c.id[1], c.id[2])
             of == Of(c)
  <2>1. l \in Submitted /\ answer.result.diagnostics = Diagnostics(l)
    BY AcceptedAnswer
  <2>2. c.slots \in rules.slots <=> \E k \in of : k.slots = c.slots
    BY DEF CharmRules, Of
  <2>3. (\A i \in 1..2 : c.points[i] \in rules.points[i])
          <=> \A i \in 1..2 : \E k \in Offered(c, i) : k.points[i] = c.points[i]
    <3>1. rules.points[1] = {k.points[1] : k \in Offered(c, 1)}
      BY DEF CharmRules, Of, Offered
    <3>2. rules.points[2] = {k.points[2] : k \in Offered(c, 2)}
      BY DEF CharmRules, Of, Offered
    <3> HIDE DEF rules
    <3>3. \A i \in 1..2 : c.points[i] \in rules.points[i] <=> \E k \in Offered(c, i) : k.points[i] = c.points[i]
      <4> SUFFICES ASSUME NEW i \in 1..2
                   PROVE  c.points[i] \in rules.points[i] <=> \E k \in Offered(c, i) : k.points[i] = c.points[i]
        OBVIOUS
      <4>1. i = 1 \/ i = 2
        OBVIOUS
      <4> QED BY <4>1, <3>1, <3>2
    <3> QED BY <3>3
  <2>4. rules.pair <=> (0 \in {c.id[1], c.id[2]} \/ \E k \in of : k.id = c.id)
    <3>1. c.id \in [1..2 -> Int]
      BY <2>1, Fields
    <3>2. c.id = <<c.id[1], c.id[2]>>
      BY <3>1
    <3>3. rules.pair <=> (c.id[1] = 0 \/ c.id[2] = 0 \/ \E k \in of : k.id = <<c.id[1], c.id[2]>>)
      BY DEF CharmRules, Of
    <3> QED BY <3>2, <3>3, Zenon
  <2> HIDE DEF rules, c, of
  <2>5. (c.slots \in rules.slots /\ (\A i \in 1..2 : c.points[i] \in rules.points[i]) /\ rules.pair)
          <=> ~NotOffered(c)
    BY <2>2, <2>3, <2>4 DEF NotOffered, of
  <2>6. (\A d \in answer.result.diagnostics : d[1] \notin EditorCodes) <=> ~NotOffered(c)
    BY <2>1, EditorDiagnostics DEF c
  <2> QED BY <2>5, <2>6 DEF CharmRulesAgree, EditorCodes, c, rules
<1> QED BY <1>1, AnswerIsResult, PTL

-----------------------------------------------------------------------------
(* The scan of a tree's skills.  The induction theorems of the library     *)
(* take an operator as a parameter; the least number of the set of         *)
(* counterexamples serves for them.                                        *)

\* Every set of natural numbers that is not empty has a least one.
LEMMA LeastNumber ==
  ASSUME NEW T, T \subseteq Nat, T # {}
  PROVE  \E n \in T : \A m \in T : n <= m
<1> DEFINE below == {ss \in Nat \X Nat : ss[1] < ss[2]}
<1>1. IsWellFoundedOn(below, Nat)
  BY NatLessThanWellFounded DEF OpToRel
<1>2. PICK n \in T : \A m \in T : ~(<<m, n>> \in below)
  <2> HIDE DEF below
  <2> QED BY <1>1, WFMin
<1>3. \A m \in T : <<m, n>> \in below <=> m < n
  OBVIOUS
<1>4. ASSUME NEW m \in T
      PROVE  n <= m
  <2> HIDE DEF below
  <2>1. m \in Nat /\ n \in Nat
    OBVIOUS
  <2>2. ~(m < n)
    BY <1>2, <1>3
  <2> QED BY <2>1, <2>2
<1> QED BY <1>4

\* A set that has 0 and, of 1..n, each number whose predecessor it has, has all of 0..n.
LEMMA UpTo ==
  ASSUME NEW n \in Nat, NEW G, 0 \in G, \A i \in 1..n : i - 1 \in G => i \in G
  PROVE  \A i \in 0..n : i \in G
<1> DEFINE bad == {i \in 0..n : i \notin G}
<1>1. SUFFICES ASSUME bad # {}
               PROVE  FALSE
  OBVIOUS
<1>2. PICK i \in bad : \A j \in bad : i <= j
  <2>1. bad \subseteq Nat
    OBVIOUS
  <2> HIDE DEF bad
  <2> QED BY <1>1, <2>1, LeastNumber
<1>3. i \in 1..n /\ i - 1 \in 0..n
  <2>1. i # 0 /\ i \in 0..n
    OBVIOUS
  <2> QED BY <2>1
<1>4. i - 1 \in G
  <2>1. ~(i <= i - 1)
    BY <1>3
  <2> QED BY <1>2, <1>3, <2>1
<1> QED BY <1>3, <1>4

\* The best after each of n rows, as a function that refers to itself.
IsScan(f, t, total, n) ==
  f = [i \in 0..n |-> IF i = 0 THEN NoneBest ELSE Consider(f[i - 1], ActiveSkill[t][i], total)]

\* There is such a function: the definition of Scan chooses one.
LEMMA ScanExists ==
  ASSUME NEW t, NEW total, NEW n \in Nat
  PROVE  \E f : IsScan(f, t, total, n)
<1> DEFINE G == {m \in 0..n : \E f : IsScan(f, t, total, m)}
<1>1. 0 \in G
  <2> DEFINE f == [i \in 0..0 |-> NoneBest]
  <2>1. f = [i \in 0..0 |-> IF i = 0 THEN NoneBest ELSE Consider(f[i - 1], ActiveSkill[t][i], total)]
    OBVIOUS
  <2> HIDE DEF f
  <2> QED BY <2>1 DEF IsScan
<1>2. ASSUME NEW m \in 1..n, m - 1 \in G
      PROVE  m \in G
  <2>1. PICK f : IsScan(f, t, total, m - 1)
    BY <1>2
  <2> DEFINE step(h, i) == IF i = 0 THEN NoneBest ELSE Consider(h[i - 1], ActiveSkill[t][i], total)
             g == [i \in 0..m |-> IF i = m THEN Consider(f[m - 1], ActiveSkill[t][m], total) ELSE f[i]]
  <2>2. f = [i \in 0..(m - 1) |-> step(f, i)]
    BY <2>1 DEF IsScan
  <2>3. ASSUME NEW i \in 0..m
        PROVE  g[i] = step(g, i)
    <3>1. CASE i = m
      <4>1. m # 0 /\ m - 1 \in 0..m /\ m - 1 # m
        OBVIOUS
      <4>2. g[m - 1] = f[m - 1]
        BY <4>1
      <4> QED BY <3>1, <4>1, <4>2
    <3>2. CASE i # m
      <4>1. i \in 0..(m - 1)
        BY <3>2
      <4>2. g[i] = step(f, i)
        BY <2>2, <3>2, <4>1
      <4>3. i # 0 => i - 1 \in 0..m /\ i - 1 # m
        BY <4>1
      <4>4. i # 0 => g[i - 1] = f[i - 1]
        BY <4>3
      <4> HIDE DEF g
      <4> QED BY <4>2, <4>4
    <3> QED BY <3>1, <3>2
  <2>4. g = [i \in 0..m |-> g[i]]
    OBVIOUS
  <2> HIDE DEF g
  <2>5. g = [i \in 0..m |-> step(g, i)]
    BY <2>3, <2>4
  <2>6. IsScan(g, t, total, m)
    BY <2>5 DEF IsScan
  <2> QED BY <2>6
<1> HIDE DEF G
<1>3. n \in G
  BY <1>1, <1>2, UpTo
<1> QED BY <1>3 DEF G

\* What Scan holds before the first row and after each.
LEMMA ScanRows ==
  ASSUME NEW t \in Tree, NEW total
  PROVE  /\ Scan(t, total)[0] = NoneBest
         /\ \A i \in 1..Len(ActiveSkill[t]) :
              Scan(t, total)[i] = Consider(Scan(t, total)[i - 1], ActiveSkill[t][i], total)
<1> DEFINE n == Len(ActiveSkill[t])
           f == Scan(t, total)
<1>1. n \in Nat
  BY ValidationAssumption
<1>2. f = CHOOSE g : g = [i \in 0..n |-> IF i = 0 THEN NoneBest
                                         ELSE Consider(g[i - 1], ActiveSkill[t][i], total)]
  BY DEF Scan
<1>3. f = CHOOSE g : IsScan(g, t, total, n)
  BY <1>2, Zenon DEF IsScan
<1> HIDE DEF f, n
<1>4. IsScan(f, t, total, n)
  BY <1>1, <1>3, ScanExists
<1>5. f = [i \in 0..n |-> IF i = 0 THEN NoneBest ELSE Consider(f[i - 1], ActiveSkill[t][i], total)]
  BY <1>4 DEF IsScan
<1>6. f[0] = NoneBest /\ \A i \in 1..n : f[i] = Consider(f[i - 1], ActiveSkill[t][i], total)
  <2>1. 0 \in 0..n /\ \A i \in 1..n : i \in 0..n /\ i # 0
    BY <1>1
  <2>2. \A i \in 0..n : f[i] = IF i = 0 THEN NoneBest ELSE Consider(f[i - 1], ActiveSkill[t][i], total)
    BY <1>5
  <2> QED BY <2>1, <2>2
<1> QED BY <1>6 DEF f, n

\* The rows a total reaches, and which of two it is further with.
Reached(a, total) ==
  \/ a.threshold > 0 /\ total >= a.threshold
  \/ a.threshold < 0 /\ total <= a.threshold
Further(a, b, total) == IF total > 0 THEN a.threshold >= b.threshold ELSE a.threshold <= b.threshold

\* What the loop knows after some rows: none is reached, or the best is one of
\* them and its threshold is the bound that the next has to pass.
BestOf(best, rows, total) ==
  \/ best = NoneBest /\ \A b \in rows : ~Reached(b, total)
  \/ \E a \in rows :
       /\ Reached(a, total) /\ best.skill = a.skill
       /\ \A b \in rows : Reached(b, total) => Further(a, b, total)
       /\ total > 0 => best.positive = a.threshold
       /\ total < 0 => best.negative = a.threshold

\* One more row, whatever the order of the rows.
LEMMA ConsiderKeepsBest ==
  ASSUME NEW total \in Int, NEW best, NEW rows, \A b \in rows : b.threshold \in Int,
         NEW a, a.threshold \in Int, BestOf(best, rows, total)
  PROVE  BestOf(Consider(best, a, total), rows \cup {a}, total)
<1> DEFINE next == Consider(best, a, total)
           new == [skill |-> a.skill,
                   positive |-> IF a.threshold > 0 THEN a.threshold ELSE best.positive,
                   negative |-> IF a.threshold < 0 THEN a.threshold ELSE best.negative]
           passes == \/ a.threshold > 0 /\ total >= a.threshold /\ a.threshold > best.positive
                     \/ a.threshold < 0 /\ total <= a.threshold /\ a.threshold < best.negative
<1>1. next = IF passes THEN new ELSE best
  BY DEF Consider
<1>2. /\ new.skill = a.skill
      /\ a.threshold > 0 => new.positive = a.threshold
      /\ a.threshold < 0 => new.negative = a.threshold
  OBVIOUS
<1> SUFFICES BestOf(next, rows \cup {a}, total)
  OBVIOUS
<1>3. CASE best = NoneBest /\ \A b \in rows : ~Reached(b, total)
  <2>1. best.positive = -1073741824 /\ best.negative = 1073741824
    BY <1>3 DEF NoneBest
  <2>2. CASE Reached(a, total)
    <3>1. next = new
      BY <1>1, <2>1, <2>2 DEF Reached
    <3>2. \A b \in rows \cup {a} : Reached(b, total) => b = a
      BY <1>3
    <3>3. Further(a, a, total)
      BY DEF Further
    <3>4. (total > 0 => a.threshold > 0) /\ (total < 0 => a.threshold < 0)
      BY <2>2 DEF Reached
    <3> HIDE DEF new, next
    <3> QED BY <1>2, <2>2, <3>1, <3>2, <3>3, <3>4 DEF BestOf
  <2>3. CASE ~Reached(a, total)
    <3>1. next = best
      BY <1>1, <2>3 DEF Reached
    <3> QED BY <1>3, <2>3, <3>1 DEF BestOf
  <2> QED BY <2>2, <2>3
<1>4. CASE \E b \in rows : /\ Reached(b, total) /\ best.skill = b.skill
                           /\ \A x \in rows : Reached(x, total) => Further(b, x, total)
                           /\ total > 0 => best.positive = b.threshold
                           /\ total < 0 => best.negative = b.threshold
  <2>1. PICK b \in rows : /\ Reached(b, total) /\ best.skill = b.skill
                          /\ \A x \in rows : Reached(x, total) => Further(b, x, total)
                          /\ total > 0 => best.positive = b.threshold
                          /\ total < 0 => best.negative = b.threshold
    BY <1>4
  <2>2. b.threshold \in Int /\ total # 0
    BY <2>1 DEF Reached
  <2>3. CASE passes
    <3>1. next = new /\ Reached(a, total)
      BY <1>1, <2>3 DEF Reached
    <3>2. (total > 0 => a.threshold > 0) /\ (total < 0 => a.threshold < 0)
      BY <2>3
    <3>3. total > 0 => a.threshold > b.threshold
      BY <2>1, <2>3, <3>2
    <3>4. total < 0 => a.threshold < b.threshold
      BY <2>1, <2>3, <3>2
    <3>5. \A x \in rows \cup {a} : Reached(x, total) => Further(a, x, total)
      BY <2>1, <2>2, <3>3, <3>4 DEF Further
    <3> HIDE DEF new, next, passes
    <3> QED BY <1>2, <3>1, <3>2, <3>5 DEF BestOf
  <2>4. CASE ~passes
    <3>1. next = best
      BY <1>1, <2>4
    <3>2. Reached(a, total) => Further(b, a, total)
      BY <2>1, <2>2, <2>4 DEF Reached, Further
    <3> HIDE DEF next, passes
    <3> QED BY <2>1, <3>1, <3>2 DEF BestOf
  <2> QED BY <2>3, <2>4
<1> QED BY <1>3, <1>4 DEF BestOf

\* After the last row the best is the best of the tree's rows.
LEMMA ScanFindsBest ==
  ASSUME NEW t \in Tree, NEW total \in Int
  PROVE  BestOf(Scan(t, total)[Len(ActiveSkill[t])],
                {ActiveSkill[t][i] : i \in 1..Len(ActiveSkill[t])}, total)
<1> DEFINE n == Len(ActiveSkill[t])
           first(m) == {ActiveSkill[t][i] : i \in 1..m}
           G == {m \in 0..n : BestOf(Scan(t, total)[m], first(m), total)}
<1>1. n \in Nat /\ \A i \in 1..n : ActiveSkill[t][i].threshold \in Int
  <2> DEFINE Row == [threshold : Int, skill : Skill]
             rows == ActiveSkill[t]
  <2>1. rows \in Seq(Row)
    BY ValidationAssumption
  <2>2. \A a \in Row : a.threshold \in Int
    OBVIOUS
  <2> HIDE DEF Row, rows
  <2>3. Len(rows) \in Nat /\ \A i \in 1..Len(rows) : rows[i] \in Row
    BY <2>1
  <2> QED BY <2>2, <2>3 DEF rows
<1>2. 0 \in G
  <2>1. first(0) = {}
    OBVIOUS
  <2>2. Scan(t, total)[0] = NoneBest
    BY ScanRows
  <2> HIDE DEF first
  <2> QED BY <1>1, <2>1, <2>2 DEF BestOf
<1>3. ASSUME NEW m \in 1..n, m - 1 \in G
      PROVE  m \in G
  <2>1. first(m) = first(m - 1) \cup {ActiveSkill[t][m]}
    OBVIOUS
  <2>2. \A b \in first(m - 1) : b.threshold \in Int
    BY <1>1
  <2>3. Scan(t, total)[m] = Consider(Scan(t, total)[m - 1], ActiveSkill[t][m], total)
    BY ScanRows
  <2>4. BestOf(Scan(t, total)[m - 1], first(m - 1), total)
    BY <1>3
  <2>5. ActiveSkill[t][m].threshold \in Int
    BY <1>1
  <2> HIDE DEF first
  <2>6. BestOf(Scan(t, total)[m], first(m), total)
    BY <2>1, <2>2, <2>3, <2>4, <2>5, ConsiderKeepsBest
  <2> QED BY <1>1, <2>6
<1> HIDE DEF G, n
<1>4. n \in 0..n
  BY <1>1
<1>5. n \in G
  BY <1>1, <1>2, <1>3, <1>4, UpTo
<1> QED BY <1>5 DEF G, n

\* The points of an accepted loadout are numbers.
LEMMA TotalsAreInt ==
  ASSUME NEW l \in Submitted, ~Refused(l), NEW t \in Met(l)
  PROVE  OverSlots(Final(l)[t]) \in Int
<1>1. Final(l)[t] \in [Slot -> Int]
  BY DoubledTypes DEF Final
<1>2. \A s \in Slot : Final(l)[t][s] \in Int
  BY <1>1
<1> HIDE DEF Final
<1> QED BY <1>2 DEF OverSlots, Slot, Worn, Armor

\* A tree's skill is the one furthest from 0 among those that its points reach,
\* in whatever order the query returns the rows.
THEOREM FurthestSkill == Spec => []StrongestSkill
<1>1. IInv => StrongestSkill
  <2> SUFFICES ASSUME IInv, Accepted
               PROVE  StrongestSkill
    BY DEF StrongestSkill
  <2> DEFINE l == answer.loadout
             skills == answer.result.skills
  <2>1. l \in Submitted /\ ~Refused(l)
    BY AcceptedAnswer
  <2>2. skills = [t \in Met(l) |-> [points |-> OverSlots(Final(l)[t]),
                                    active |-> Activated(t, OverSlots(Final(l)[t]))]]
    BY AcceptedAnswer
  <2>3. DOMAIN skills = Met(l)
    BY <2>2
  <2>4. SUFFICES ASSUME NEW t \in Met(l)
                 PROVE  LET total == skills[t].points
                            rows == {ActiveSkill[t][i] : i \in 1..Len(ActiveSkill[t])}
                            reached == {a \in rows : Reached(a, total)}
                            furthest == {a \in reached : \A b \in reached : Further(a, b, total)}
                        IN skills[t].active \in
                             IF reached = {} THEN {NoSkill} ELSE {a.skill : a \in furthest}
    BY <2>3 DEF StrongestSkill, Reached, Further
  <2> DEFINE total == skills[t].points
             rows == {ActiveSkill[t][i] : i \in 1..Len(ActiveSkill[t])}
             best == Scan(t, total)[Len(ActiveSkill[t])]
  <2>5. total = OverSlots(Final(l)[t]) /\ skills[t].active = Activated(t, total)
    BY <2>2
  <2>6. total \in Int /\ t \in Tree
    BY <2>1, <2>5, TotalsAreInt, MetIsInTree
  <2>7. skills[t].active = best.skill
    BY <2>5 DEF Activated
  <2> HIDE DEF total
  <2>8. BestOf(best, rows, total)
    BY <2>6, ScanFindsBest
  <2> HIDE DEF rows, best, skills
  <2>9. CASE best = NoneBest /\ \A b \in rows : ~Reached(b, total)
    <3>1. {a \in rows : Reached(a, total)} = {} /\ best.skill = NoSkill
      BY <2>9 DEF NoneBest
    <3> QED BY <3>1, <2>7 DEF rows, total
  <2>10. CASE \E a \in rows : /\ Reached(a, total) /\ best.skill = a.skill
                              /\ \A b \in rows : Reached(b, total) => Further(a, b, total)
    BY <2>7, <2>10 DEF rows, total
  <2> QED BY <2>8, <2>9, <2>10 DEF BestOf
<1> QED BY <1>1, AnswerIsResult, PTL

-----------------------------------------------------------------------------
(* Fingerprints.                                                           *)

\* The places of a list that hold a value.
Places(d, k) == {i \in DOMAIN d : d[i] = k}

\* p tells for every place of e one of d with the same value, each once.
Permutes(p, d, e) ==
  /\ p \in [1..Len(e) -> 1..Len(d)]
  /\ \A i, j \in 1..Len(e) : p[i] = p[j] => i = j
  /\ \A i \in 1..Len(e) : e[i] = d[p[i]]

\* Lists that sort to the same are permutations of each other.
LEMMA SortedPermutes ==
  ASSUME NEW d \in Seq(Int), NEW e \in Seq(Int), Sorted(d) = Sorted(e)
  PROVE  \E p : Permutes(p, d, e)
<1> DEFINE bij(k) == CHOOSE b : b \in Bijection(Places(e, k), Places(d, k))
           p == [i \in 1..Len(e) |-> bij(e[i])[i]]
<1>1. /\ DOMAIN d = 1..Len(d) /\ Len(d) \in Nat /\ DOMAIN e = 1..Len(e) /\ Len(e) \in Nat
  OBVIOUS
<1>2. \A k : IsFiniteSet(Places(d, k)) /\ IsFiniteSet(Places(e, k))
  <2>1. IsFiniteSet(1..Len(d)) /\ IsFiniteSet(1..Len(e))
    BY <1>1, FS_Interval
  <2>2. \A k : Places(d, k) \subseteq 1..Len(d) /\ Places(e, k) \subseteq 1..Len(e)
    BY <1>1 DEF Places
  <2> QED BY <2>1, <2>2, FS_Subset
<1>3. ASSUME NEW i \in 1..Len(e)
      PROVE  bij(e[i]) \in Bijection(Places(e, e[i]), Places(d, e[i]))
  <2> DEFINE k == e[i]
  <2>1. k \in {e[j] : j \in DOMAIN e}
    BY <1>1
  <2>2. DOMAIN Sorted(e) = {e[j] : j \in DOMAIN e} /\ DOMAIN Sorted(d) = {d[j] : j \in DOMAIN d}
    BY DEF Sorted
  <2>3. k \in {d[j] : j \in DOMAIN d}
    BY <2>1, <2>2
  <2> HIDE DEF k
  <2>4. Sorted(e)[k] = Cardinality(Places(e, k)) /\ Sorted(d)[k] = Cardinality(Places(d, k))
    BY <2>1, <2>3 DEF Sorted, Places
  <2>5. Cardinality(Places(e, k)) = Cardinality(Places(d, k))
    BY <2>4
  <2>6. ExistsBijection(Places(e, k), Places(d, k))
    BY <1>2, <2>5, FS_SameCardinalityBij
  <2>7. bij(k) \in Bijection(Places(e, k), Places(d, k))
    BY <2>6 DEF ExistsBijection
  <2> QED BY <2>7 DEF k
<1> HIDE DEF bij
<1>4. ASSUME NEW i \in 1..Len(e)
      PROVE  p[i] \in 1..Len(d) /\ e[i] = d[p[i]]
  <2>1. i \in Places(e, e[i])
    BY <1>1 DEF Places
  <2>2. bij(e[i])[i] \in Places(d, e[i])
    BY <1>3, <2>1 DEF Bijection, Injection
  <2> QED BY <1>1, <2>2 DEF Places
<1>5. ASSUME NEW i \in 1..Len(e), NEW j \in 1..Len(e), p[i] = p[j]
      PROVE  i = j
  <2>1. e[i] = e[j]
    BY <1>4, <1>5
  <2>2. i \in Places(e, e[i]) /\ j \in Places(e, e[i])
    BY <1>1, <2>1 DEF Places
  <2>3. bij(e[i])[i] = bij(e[i])[j]
    BY <1>5, <2>1
  <2> QED BY <1>3, <2>2, <2>3 DEF Bijection, Injection, IsInjective
<1> HIDE DEF p
<1>6. p = [i \in 1..Len(e) |-> p[i]]
  BY DEF p
<1>7. p \in [1..Len(e) -> 1..Len(d)]
  BY <1>4, <1>6
<1> QED BY <1>4, <1>5, <1>7 DEF Permutes

\* They are as long as each other, and have the same values.
LEMMA SortedAlike ==
  ASSUME NEW d \in Seq(Int), NEW e \in Seq(Int), Sorted(d) = Sorted(e)
  PROVE  Len(d) = Len(e) /\ {d[i] : i \in DOMAIN d} = {e[i] : i \in DOMAIN e}
<1>1. ASSUME NEW x \in Seq(Int), NEW y \in Seq(Int), Sorted(x) = Sorted(y)
      PROVE  Len(y) <= Len(x)
  <2>1. PICK p : Permutes(p, x, y)
    BY <1>1, SortedPermutes
  <2>2. p \in Injection(1..Len(y), 1..Len(x))
    BY <2>1 DEF Permutes, Injection, IsInjective
  <2>3. Len(x) \in Nat /\ Len(y) \in Nat
    OBVIOUS
  <2>4. /\ IsFiniteSet(1..Len(x)) /\ Cardinality(1..Len(x)) = Len(x)
        /\ IsFiniteSet(1..Len(y)) /\ Cardinality(1..Len(y)) = Len(y)
    <3>1. ASSUME NEW n \in Nat
          PROVE  IsFiniteSet(1..n) /\ Cardinality(1..n) = n
      <4>1. IsFiniteSet(1..n) /\ Cardinality(1..n) = IF 1 > n THEN 0 ELSE n - 1 + 1
        BY FS_Interval
      <4> QED BY <4>1
    <3> QED BY <2>3, <3>1
  <2>5. Cardinality(1..Len(y)) <= Cardinality(1..Len(x))
    BY <2>2, <2>4, FS_Injection
  <2> QED BY <2>4, <2>5
<1>2. Len(d) \in Nat /\ Len(e) \in Nat /\ Len(d) <= Len(e) /\ Len(e) <= Len(d)
  BY <1>1
<1>3. DOMAIN Sorted(e) = {e[j] : j \in DOMAIN e} /\ DOMAIN Sorted(d) = {d[j] : j \in DOMAIN d}
  BY DEF Sorted
<1>4. Len(d) = Len(e)
  BY <1>2
<1>5. {d[i] : i \in DOMAIN d} = {e[i] : i \in DOMAIN e}
  BY <1>3, Zenon
<1> QED BY <1>4, <1>5

\* Of a list of three at most the sum does not depend on the order.
LEMMA SumPermuted ==
  ASSUME NEW d \in Seq(Int), NEW e \in Seq(Int), Sorted(d) = Sorted(e), Len(d) <= 3,
         NEW value, \A k \in Set(d) : value[k] \in Int
  PROVE  OverSet(d, value) = OverSet(e, value)
<1> DEFINE n == Len(d)
           w(i) == IF d[i] # 0 THEN value[d[i]] ELSE 0
           x(i) == IF e[i] # 0 THEN value[e[i]] ELSE 0
<1>1. PICK p : Permutes(p, d, e)
  BY SortedPermutes
<1>2. n \in 0..3 /\ Len(e) = n /\ DOMAIN d = 1..n /\ DOMAIN e = 1..n
  <2>1. Len(e) = Len(d)
    BY SortedAlike
  <2>2. Len(d) \in Nat /\ DOMAIN d = 1..Len(d) /\ DOMAIN e = 1..Len(e)
    OBVIOUS
  <2>3. Len(d) \in 0..3
    BY <2>2, SMTT(30)
  <2> QED BY <2>1, <2>2, <2>3
<1>3. \A i \in 1..n : w(i) \in Int
  BY <1>2 DEF Set
<1>4. /\ \A i \in 1..n : p[i] \in 1..n /\ x(i) = w(p[i])
      /\ \A i, j \in 1..n : p[i] = p[j] => i = j
  BY <1>1, <1>2 DEF Permutes
<1>5. /\ OverSet(d, value) = (IF 1 \in 1..n THEN w(1) ELSE 0) + (IF 2 \in 1..n THEN w(2) ELSE 0)
                               + (IF 3 \in 1..n THEN w(3) ELSE 0)
      /\ OverSet(e, value) = (IF 1 \in 1..n THEN x(1) ELSE 0) + (IF 2 \in 1..n THEN x(2) ELSE 0)
                               + (IF 3 \in 1..n THEN x(3) ELSE 0)
  BY <1>2 DEF OverSet
<1> HIDE DEF n, w, x
<1>6. CASE n = 0
  BY <1>5, <1>6
<1>7. CASE n = 1
  <2>1. p[1] = 1
    BY <1>4, <1>7
  <2> QED BY <1>4, <1>5, <1>7, <2>1
<1>8. CASE n = 2
  <2>1. /\ w(1) \in Int /\ w(2) \in Int /\ x(1) = w(p[1]) /\ x(2) = w(p[2])
        /\ p[1] \in {1, 2} /\ p[2] \in {1, 2} /\ p[1] # p[2]
    BY <1>3, <1>4, <1>8
  <2>2. x(1) + x(2) = w(1) + w(2)
    BY <2>1
  <2> QED BY <1>5, <1>8, <2>1, <2>2
<1>9. CASE n = 3
  <2>1. /\ w(1) \in Int /\ w(2) \in Int /\ w(3) \in Int
        /\ x(1) = w(p[1]) /\ x(2) = w(p[2]) /\ x(3) = w(p[3])
        /\ p[1] \in {1, 2, 3} /\ p[2] \in {1, 2, 3} /\ p[3] \in {1, 2, 3}
        /\ p[1] # p[2] /\ p[1] # p[3] /\ p[2] # p[3]
    BY <1>3, <1>4, <1>9
  <2>2. x(1) + x(2) + x(3) = w(1) + w(2) + w(3)
    BY <2>1
  <2> QED BY <1>5, <1>9, <2>1, <2>2
<1> QED BY <1>2, <1>6, <1>7, <1>8, <1>9

\* What equal fingerprints say of two loadouts.
SameBuild(l, m) ==
  /\ l.data = m.data /\ l.gender = m.gender
  /\ \A s \in Worn : l.piece[s].type = m.piece[s].type /\ l.piece[s].id = m.piece[s].id
  /\ l.charm.class = m.charm.class /\ l.charm.slots = m.charm.slots
  /\ l.charm.id = m.charm.id /\ l.charm.points = m.charm.points
  /\ \A s \in Slot : Sorted(Decorations(l, s)) = Sorted(Decorations(m, s))

\* A fingerprint leaves out the name and the order of decorations, and no more.
LEMMA SameFingerprint ==
  ASSUME NEW l \in Submitted, NEW m \in Submitted, Fingerprint(l) = Fingerprint(m)
  PROVE  SameBuild(l, m)
<1> DEFINE f(x) == Fingerprint(x)
<1>1. ASSUME NEW x \in Submitted
      PROVE  /\ f(x).data = x.data /\ f(x).gender = x.gender
             /\ \A s \in Worn : /\ f(x).piece[s].type = x.piece[s].type
                                /\ f(x).piece[s].id = x.piece[s].id
                                /\ f(x).piece[s].decorations = Sorted(x.piece[s].decorations)
             /\ f(x).charm.class = x.charm.class /\ f(x).charm.slots = x.charm.slots
             /\ f(x).charm.id = x.charm.id /\ f(x).charm.points = x.charm.points
             /\ f(x).charm.decorations = Sorted(x.charm.decorations)
  <2>1. x \in Loadout
    BY ValidationAssumption
  <2>2. x.piece \in [Worn -> Piece] /\ x.charm \in Charm
    BY <2>1 DEF Loadout
  <2>3. \A s \in Worn : x.piece[s] \in Piece
    BY <2>2
  <2>4. /\ f(x).data = x.data /\ f(x).gender = x.gender
        /\ f(x).piece = [s \in Worn |-> [x.piece[s] EXCEPT !.decorations = Sorted(@)]]
        /\ f(x).charm = [x.charm EXCEPT !.decorations = Sorted(@)]
    BY <2>1 DEF Fingerprint, Loadout
  <2> HIDE DEF f
  <2>5. \A s \in Worn : /\ f(x).piece[s].type = x.piece[s].type
                        /\ f(x).piece[s].id = x.piece[s].id
                        /\ f(x).piece[s].decorations = Sorted(x.piece[s].decorations)
    BY <2>3, <2>4 DEF Piece
  <2>6. /\ f(x).charm.class = x.charm.class /\ f(x).charm.slots = x.charm.slots
        /\ f(x).charm.id = x.charm.id /\ f(x).charm.points = x.charm.points
        /\ f(x).charm.decorations = Sorted(x.charm.decorations)
    BY <2>2, <2>4 DEF Charm
  <2> QED BY <2>4, <2>5, <2>6
<1>2. f(l) = f(m)
  OBVIOUS
<1> HIDE DEF f
<1>3. \A s \in Slot : Sorted(Decorations(l, s)) = Sorted(Decorations(m, s))
  <2> SUFFICES ASSUME NEW s \in Slot
               PROVE  Sorted(Decorations(l, s)) = Sorted(Decorations(m, s))
    OBVIOUS
  <2>1. CASE s = "charm"
    BY <1>1, <1>2, <2>1 DEF Decorations
  <2>2. CASE s # "charm"
    BY <1>1, <1>2, <2>2 DEF Decorations, Slot
  <2> QED BY <2>1, <2>2
<1>4. \A s \in Worn : l.piece[s].type = m.piece[s].type /\ l.piece[s].id = m.piece[s].id
  BY <1>1, <1>2
<1>5. /\ l.data = m.data /\ l.gender = m.gender
      /\ l.charm.class = m.charm.class /\ l.charm.slots = m.charm.slots
      /\ l.charm.id = m.charm.id /\ l.charm.points = m.charm.points
  BY <1>1, <1>2
<1> QED BY <1>3, <1>4, <1>5 DEF SameBuild

\* Builds with one fingerprint are refused together.
LEMMA SameRefused ==
  ASSUME NEW l \in Submitted, NEW m \in Submitted, SameBuild(l, m), l.name # "", m.name # ""
  PROVE  Refused(l) <=> Refused(m)
<1>1. ASSUME NEW s \in Slot
      PROVE  Decodable(Decorations(l, s)) <=> Decodable(Decorations(m, s))
  <2> DEFINE d == Decorations(l, s)
             e == Decorations(m, s)
  <2>1. d \in Seq(Int) /\ e \in Seq(Int)
    BY Fields
  <2>2. Sorted(d) = Sorted(e)
    BY DEF SameBuild
  <2> HIDE DEF d, e
  <2>3. Len(d) = Len(e) /\ {d[i] : i \in DOMAIN d} = {e[i] : i \in DOMAIN e}
    BY <2>1, <2>2, SortedAlike
  <2>4. \A x : Decodable(x) <=>
          (Len(x) <= 3 /\ \A k \in {x[i] : i \in DOMAIN x} : k \in SaveId /\ (k = 0 \/ k \in DOMAIN Decoration))
    BY DEF Decodable
  <2>5. Decodable(d) <=> Decodable(e)
    BY <2>3, <2>4
  <2> QED BY <2>5 DEF d, e
<1>2. \A s \in Worn : WearRefused(l, s) <=> WearRefused(m, s)
  <2> SUFFICES ASSUME NEW s \in Worn
               PROVE  WearRefused(l, s) <=> WearRefused(m, s)
    OBVIOUS
  <2>1. l.piece[s].type = m.piece[s].type /\ l.piece[s].id = m.piece[s].id
    BY DEF SameBuild
  <2>2. Decodable(l.piece[s].decorations) <=> Decodable(m.piece[s].decorations)
    BY <1>1 DEF Decorations, Slot, Worn, Armor
  <2> QED BY <2>1, <2>2 DEF WearRefused
<1>3. CharmRefused(l.charm) <=> CharmRefused(m.charm)
  <2>1. Decodable(l.charm.decorations) <=> Decodable(m.charm.decorations)
    BY <1>1 DEF Decorations, Slot
  <2> QED BY <2>1 DEF CharmRefused, SameBuild
<1> QED BY <1>2, <1>3 DEF Refused, SameBuild

\* Accepted builds with one fingerprint have the same points in every slot.
LEMMA SamePoints ==
  ASSUME NEW l \in Submitted, NEW m \in Submitted, SameBuild(l, m), ~Refused(l), ~Refused(m)
  PROVE  /\ \A s \in Worn : Item(l, s) = Item(m, s)
         /\ \A s \in Slot : Used(l, s) = Used(m, s)
         /\ Met(l) = Met(m) /\ Collected(l) = Collected(m)
<1>1. \A s \in Worn : Item(l, s) = Item(m, s)
  BY DEF Item, SameBuild
<1>2. ASSUME NEW s \in Slot
      PROVE  /\ Set(Decorations(l, s)) = Set(Decorations(m, s))
             /\ OverSet(Decorations(l, s), Sizes) = OverSet(Decorations(m, s), Sizes)
             /\ \A t : OverSet(Decorations(l, s), PointsOn(t)) = OverSet(Decorations(m, s), PointsOn(t))
  <2> DEFINE d == Decorations(l, s)
             e == Decorations(m, s)
  <2>1. d \in Seq(Int) /\ e \in Seq(Int)
    BY Fields
  <2>2. Sorted(d) = Sorted(e)
    BY DEF SameBuild
  <2>3. Len(d) <= 3 /\ Set(d) \subseteq DOMAIN Decoration
    BY AcceptedItems
  <2> HIDE DEF d, e
  <2>4. Set(d) = Set(e)
    BY <2>1, <2>2, SortedAlike DEF Set
  <2>5. \A k \in Set(d) : Sizes[k] \in Int
    BY <2>3, ValidationAssumption DEF Sizes
  <2>6. OverSet(d, Sizes) = OverSet(e, Sizes)
    BY <2>1, <2>2, <2>3, <2>5, SumPermuted
  <2>7. ASSUME NEW t
        PROVE  OverSet(d, PointsOn(t)) = OverSet(e, PointsOn(t))
    <3>1. \A k \in Set(d) : PointsOn(t)[k] \in Int
      BY <2>3, AtIsInt, ValidationAssumption DEF PointsOn
    <3> QED BY <2>1, <2>2, <2>3, <3>1, SumPermuted
  <2> QED BY <2>4, <2>6, <2>7 DEF d, e
<1>3. \A s \in Slot : Used(l, s) = Used(m, s)
  BY <1>2 DEF Used
<1>4. Met(l) = Met(m)
  <2>1. {l.charm.id[1], l.charm.id[2]} = {m.charm.id[1], m.charm.id[2]}
    BY DEF SameBuild
  <2>2. UNION {DOMAIN Item(l, s).points : s \in Armor} = UNION {DOMAIN Item(m, s).points : s \in Armor}
    BY <1>1 DEF Worn
  <2>3. UNION {Set(Decorations(l, s)) : s \in Slot} = UNION {Set(Decorations(m, s)) : s \in Slot}
    BY <1>2
  <2> QED BY <2>1, <2>2, <2>3 DEF Met
<1>5. \A s \in Slot : \A t : OfItem(l, s, t) = OfItem(m, s, t)
  BY <1>1 DEF OfItem, SameBuild, Worn
<1>6. Collected(l) = Collected(m)
  BY <1>2, <1>4, <1>5 DEF Collected
<1> QED BY <1>1, <1>3, <1>4, <1>6

\* And the same diagnostics.
LEMMA SameDiagnostics ==
  ASSUME NEW l \in Submitted, NEW m \in Submitted, SameBuild(l, m), ~Refused(l), ~Refused(m)
  PROVE  Diagnostics(l) = Diagnostics(m)
<1>1. Combat(l) = Combat(m) /\ Gender(l) = Gender(m)
  BY DEF Combat, Gender, SameBuild, Worn
<1>2. \A s \in Worn : Item(l, s) = Item(m, s)
  BY SamePoints
<1>3. \A s \in Slot : Used(l, s) = Used(m, s) /\ Capacity(l, s) = Capacity(m, s)
  BY <1>2, SamePoints DEF Capacity, SameBuild, Slot
<1>4. WearDiagnostics(l) = WearDiagnostics(m)
  BY <1>1, <1>2, <1>3 DEF WearDiagnostics, Worn
<1>5. CharmDiagnostics(l.charm) = CharmDiagnostics(m.charm)
  <2>1. /\ Of(l.charm) = Of(m.charm) /\ Generated(l.charm) = Generated(m.charm)
        /\ \A i \in 1..2 : Offered(l.charm, i) = Offered(m.charm, i)
    BY DEF Of, Generated, Offered, SameBuild
  <2> DEFINE c == l.charm  e == m.charm
  <2>2. c.id = e.id /\ c.points = e.points /\ c.slots = e.slots
    BY DEF SameBuild
  <2> HIDE DEF c, e
  <2>3. {i \in 1..2 : Offered(c, i) = {}} = {i \in 1..2 : Offered(e, i) = {}}
    BY <2>1 DEF c, e
  <2>4. {i \in 1..2 : Offered(c, i) # {} /\ \A k \in Offered(c, i) : k.points[i] # c.points[i]}
          = {i \in 1..2 : Offered(e, i) # {} /\ \A k \in Offered(e, i) : k.points[i] # e.points[i]}
    BY <2>1, <2>2 DEF c, e
  <2>5. Of(c) = Of(e) /\ Generated(c) = Generated(e)
    BY <2>1 DEF c, e
  <2>6. {i \in 1..2 : c.id[i] = 0 /\ c.points[i] # 0} = {i \in 1..2 : e.id[i] = 0 /\ e.points[i] # 0}
    BY <2>2
  <2>7. /\ At0("CHARM_DUPLICATE_SKILL", c.id[1] # 0 /\ c.id[1] = c.id[2])
            = At0("CHARM_DUPLICATE_SKILL", e.id[1] # 0 /\ e.id[1] = e.id[2])
        /\ At0("CHARM_SLOT_NOT_GENERATED", \A k \in Of(c) : k.slots # c.slots)
            = At0("CHARM_SLOT_NOT_GENERATED", \A k \in Of(e) : k.slots # e.slots)
        /\ At0("CHARM_SKILL_PAIR_NOT_GENERATED", 0 \notin {c.id[1], c.id[2]} /\ \A k \in Of(c) : k.id # c.id)
            = At0("CHARM_SKILL_PAIR_NOT_GENERATED", 0 \notin {e.id[1], e.id[2]} /\ \A k \in Of(e) : k.id # e.id)
        /\ At0("CHARM_COMBINATION_NOT_GENERATED", ~Generated(c))
            = At0("CHARM_COMBINATION_NOT_GENERATED", ~Generated(e))
    BY <2>2, <2>5 DEF At0
  <2>8. CharmDiagnostics(c) = CharmDiagnostics(e)
    BY <2>3, <2>4, <2>6, <2>7, Zenon DEF CharmDiagnostics
  <2> QED BY <2>8 DEF c, e
<1> QED BY <1>4, <1>5 DEF Diagnostics

\* So the answer is the same, field by field.
LEMMA SameResult ==
  ASSUME NEW l \in Submitted, NEW m \in Submitted, Fingerprint(l) = Fingerprint(m),
         l.name # "", m.name # ""
  PROVE  Result(l) = Result(m)
<1>1. SameBuild(l, m)
  BY SameFingerprint
<1>2. Refused(l) <=> Refused(m)
  BY <1>1, SameRefused
<1>3. CASE Refused(l)
  BY <1>2, <1>3 DEF Result
<1>4. CASE ~Refused(l)
  <2>1. Met(l) = Met(m) /\ Collected(l) = Collected(m) /\ Diagnostics(l) = Diagnostics(m)
    BY <1>1, <1>2, <1>4, SamePoints, SameDiagnostics
  <2>2. Final(l) = Final(m)
    BY <2>1 DEF Final, Doubled
  <2> QED BY <1>2, <1>4, <2>1, <2>2 DEF Result
<1> QED BY <1>3, <1>4

\* Loadouts that the server takes for identical get the same answer: whatever the
\* order of their decorations and of the maps, and however many lie between them.
THEOREM SameBuildSameAnswer == Spec => SameBuildSameResult
<1> DEFINE A == /\ answer.loadout # NoLoadout
                /\ "" \notin {answer.loadout.name, answer'.loadout.name}
                /\ Fingerprint(answer.loadout) = Fingerprint(answer'.loadout)
                => answer'.result = answer.result
<1>1. IInv /\ IInv' /\ [Next]_vars => [A]_vars
  <2> SUFFICES ASSUME IInv, IInv', [Next]_vars, answer.loadout # NoLoadout,
                      "" \notin {answer.loadout.name, answer'.loadout.name},
                      Fingerprint(answer.loadout) = Fingerprint(answer'.loadout)
               PROVE  answer'.result = answer.result
    OBVIOUS
  <2>0. NoAnswer.loadout = NoLoadout
    BY DEF NoAnswer
  <2>1. answer.loadout \in Submitted /\ answer.result = Result(answer.loadout)
    BY <2>0 DEF IInv, Answered
  <2>2. answer' = answer \/ answer'.loadout \in Submitted
    <3>1. ASSUME NEW l \in Submitted, Refuse(l)
          PROVE  answer'.loadout \in Submitted
      <4>1. answer'.loadout = l
        BY <3>1 DEF Refuse
      <4> QED BY <4>1
    <3>2. ASSUME Finish
          PROVE  answer'.loadout \in Submitted
      <4>1. answer'.loadout = loadout /\ loadout # NoLoadout
        BY <3>2 DEF Finish
      <4> QED BY <4>1 DEF IInv, CollectedSoFar
    <3> QED BY <3>1, <3>2 DEF Next, Collect, Visit, CopyChest, vars
  <2>3. answer'.loadout \in Submitted
    BY <2>1, <2>2
  <2>4. answer'.result = Result(answer'.loadout)
    <3>1. answer' # NoAnswer
      BY <2>0, <2>3, ValidationAssumption
    <3> QED BY <3>1 DEF IInv, Answered
  <2>5. Result(answer.loadout) = Result(answer'.loadout)
    BY <2>1, <2>3, SameResult
  <2> QED BY <2>1, <2>4, <2>5
<1> QED BY <1>1, AnswerIsResult, PTL DEF Spec, SameBuildSameResult

=============================================================================
