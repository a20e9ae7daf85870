----------------------------- MODULE Validation -----------------------------
(***************************************************************************)
(* Validation of a submitted loadout against the MH3G database: what is    *)
(* refused, what is accepted with diagnostics, the skill points it adds up *)
(* to and the fingerprint by which the server finds identical builds.      *)
(*                                                                         *)
(* applyTorsoUp ranges over Go maps, whose order is not defined: each of   *)
(* its loops visits what is left in any order.  Everything else is a       *)
(* function of the loadout and of the tables, which are constants (the     *)
(* database is opened read-only and immutable).  Defences, resistances,    *)
(* names and the wording of diagnostics are left out.  Sums are written    *)
(* out, since they have seven terms, or three, or two.                     *)
(***************************************************************************)
EXTENDS Integers, Sequences, FiniteSets

CONSTANTS
  Submitted,    \* the loadouts clients send
  NoLoadout,
  Equipment,    \* weapons and armors: <<save_type, save_id>> -> item
  Decoration,   \* decorations: save_id -> [slots, points]
  Tree,         \* ids of skill_trees
  ActiveSkill,  \* active_skills: tree -> its rows in the order the query returns them
  Skill, NoSkill,
  Class,        \* save_ids of charm_classes
  Combination   \* charm_combinations: [class, slots, id, points], ids and points in pairs

Armor == {"head", "chest", "arms", "waist", "legs"}
Worn == Armor \cup {"weapon"}
Slot == Worn \cup {"charm"}
ArmorType == [head |-> 5, chest |-> 1, arms |-> 2, waist |-> 3, legs |-> 4]
WeaponTypes == (7..19) \ {12}
RangedTypes == {11, 13, 17}
TorsoUp == 1

\* What Decode makes of a request: fields of Go's types, with any values.
Piece == [type : Int, id : Int, decorations : Seq(Int)]
Charm == [class : Int, slots : Int, id : [1..2 -> Int], points : [1..2 -> Int], decorations : Seq(Int)]
Loadout == [data : STRING, name : STRING, gender : STRING, piece : [Worn -> Piece], charm : Charm]

\* Skill points in the database are of trees it has, and integers.
Columns(f) == DOMAIN f \subseteq Tree /\ \A t \in DOMAIN f : f[t] \in Int

ASSUME ValidationAssumption ==
  /\ Submitted \subseteq Loadout /\ NoLoadout \notin Submitted
  /\ TorsoUp \in Tree /\ 0 \notin Tree
  /\ \A d \in DOMAIN Decoration :
       d \in Nat \ {0} /\ Decoration[d].slots \in Int /\ Columns(Decoration[d].points)
  /\ \A e \in DOMAIN Equipment : Columns(Equipment[e].points)
  /\ ActiveSkill \in [Tree -> Seq([threshold : Int, skill : Skill])]

VARIABLES
  loadout,  \* the one being validated
  points,   \* tree -> slot -> skill points, for the trees met
  slots,    \* marked slots that applyTorsoUp has yet to visit
  slot,     \* the one it is at
  trees,    \* trees it has yet to visit for that slot
  answer    \* history: the last loadout answered, with its result

vars == <<loadout, points, slots, slot, trees, answer>>

-----------------------------------------------------------------------------
(* What a loadout is made of.                                              *)

Item(l, s) == Equipment[<<l.piece[s].type, l.piece[s].id>>]
Decorations(l, s) == IF s = "charm" THEN l.charm.decorations ELSE l.piece[s].decorations
At(f, t) == IF t \in DOMAIN f THEN f[t] ELSE 0

\* A list has three decorations at most, and 0 is an empty place.
Set(d) == {d[i] : i \in DOMAIN d} \ {0}
OverSet(d, value) ==
  LET at(i) == IF i \in DOMAIN d /\ d[i] # 0 THEN value[d[i]] ELSE 0 IN at(1) + at(2) + at(3)
OverSlots(f) ==
  f["weapon"] + f["head"] + f["chest"] + f["arms"] + f["waist"] + f["legs"] + f["charm"]

PointsOn(t) == [k \in DOMAIN Decoration |-> At(Decoration[k].points, t)]
Sizes == [k \in DOMAIN Decoration |-> Decoration[k].slots]

\* Skill points of a slot's item, without its decorations: weapons have none.
OfItem(l, s, t) ==
  IF s = "charm"
  THEN LET of(j) == IF l.charm.id[j] = t THEN l.charm.points[j] ELSE 0 IN of(1) + of(2)
  ELSE IF s \in Armor THEN At(Item(l, s).points, t) ELSE 0

Met(l) ==
  ({l.charm.id[1], l.charm.id[2]} \ {0})
    \cup (UNION {DOMAIN Item(l, s).points : s \in Armor})
    \cup (UNION {DOMAIN Decoration[k].points : k \in UNION {Set(Decorations(l, s)) : s \in Slot}})

\* The points of every slot, before applyTorsoUp.
Collected(l) ==
  [t \in Met(l) |-> [s \in Slot |->
     OfItem(l, s, t) + OverSet(Decorations(l, s), PointsOn(t))]]

Used(l, s) == OverSet(Decorations(l, s), Sizes)
Capacity(l, s) == IF s = "charm" THEN l.charm.slots ELSE Item(l, s).slots

-----------------------------------------------------------------------------
(* Refusals.                                                               *)

\* What the fields of a save file hold.
SaveId == 0..65535
SkillId == 0..255

Decodable(d) ==
  Len(d) <= 3 /\ \A i \in DOMAIN d : d[i] \in SaveId /\ (d[i] = 0 \/ d[i] \in DOMAIN Decoration)

WearRefused(l, s) ==
  LET p == l.piece[s] IN
  \/ p.type = 0 \/ p.id = 0
  \/ IF s = "weapon" THEN p.type \notin WeaponTypes ELSE p.type # ArmorType[s]
  \/ <<p.type, p.id>> \notin DOMAIN Equipment
  \/ ~Decodable(p.decorations)

CharmRefused(c) ==
  \/ c.class \notin SaveId \/ c.class \notin Class \/ c.slots \notin 0..3
  \/ \E j \in 1..2 : \/ c.id[j] \notin SkillId \/ c.id[j] \notin Tree \cup {0}
                      \/ c.points[j] \notin -128..127
  \/ ~Decodable(c.decorations)

Refused(l) ==
  \/ l.data # "current"       \* schema, game or data_version
  \/ l.name = ""              \* stands for names of a forbidden length
  \/ l.gender \notin {"male", "female"}
  \/ \E s \in Worn : WearRefused(l, s)
  \/ CharmRefused(l.charm)

-----------------------------------------------------------------------------
(* Diagnostics: <<code, field>>.  A loadout is legal if it has none.       *)

Combat(l) == IF l.piece["weapon"].type \in RangedTypes THEN 2 ELSE 1
Gender(l) == IF l.gender = "female" THEN 2 ELSE 1
At0(code, condition) == IF condition THEN {<<code, 0>>} ELSE {}

\* A capacity of -1 stands for an unknown number of slots.
WearDiagnostics(l) ==
  {<<"ARMOR_COMBAT_MISMATCH", s>> : s \in {a \in Armor : Item(l, a).combat \notin {0, Combat(l)}}}
    \cup {<<"ARMOR_GENDER_MISMATCH", s>> :
             s \in {a \in Armor : Item(l, a).gender \notin {0, Gender(l)}}}
    \cup {<<"EQUIPMENT_PARAMETERS_UNKNOWN", s>> : s \in {a \in Worn : ~Item(l, a).confirmed}}
    \cup {<<"SLOT_CAPACITY_EXCEEDED", s>> :
             s \in {a \in Slot : Capacity(l, a) >= 0 /\ Used(l, a) > Capacity(l, a)}}

Of(c) == {k \in Combination : k.class = c.class}

\* Wrong: the second skill is looked up in the column of the first.
OfferedFirst(c, j) == {k \in Of(c) : k.id[1] = c.id[j]}

\* The class's combinations that have the skill in that position.
Offered(c, j) == {k \in Of(c) : k.id[j] = c.id[j]}

Generated(c) == \E k \in Of(c) : k.slots = c.slots /\ k.id = c.id /\ k.points = c.points

CharmDiagnostics(c) ==
  {<<"CHARM_SKILL_POINTS_WITHOUT_SKILL", j>> : j \in {i \in 1..2 : c.id[i] = 0 /\ c.points[i] # 0}}
    \cup At0("CHARM_DUPLICATE_SKILL", c.id[1] # 0 /\ c.id[1] = c.id[2])
    \cup At0("CHARM_SLOT_NOT_GENERATED", \A k \in Of(c) : k.slots # c.slots)
    \cup {<<"CHARM_SKILL_POSITION_INVALID", j>> : j \in {i \in 1..2 : Offered(c, i) = {}}}
    \cup {<<"CHARM_SKILL_POINTS_INVALID", j>> :
             j \in {i \in 1..2 : /\ Offered(c, i) # {}
                                 /\ \A k \in Offered(c, i) : k.points[i] # c.points[i]}}
    \cup At0("CHARM_SKILL_PAIR_NOT_GENERATED",
             0 \notin {c.id[1], c.id[2]} /\ \A k \in Of(c) : k.id # c.id)
    \cup At0("CHARM_COMBINATION_NOT_GENERATED", ~Generated(c))

Diagnostics(l) == WearDiagnostics(l) \cup CharmDiagnostics(l.charm)

\* Adapter.CharmRules: what an editor may offer for a class and two skills.
CharmRules(class, id1, id2) ==
  LET of == {k \in Combination : k.class = class} IN
  [slots |-> {k.slots : k \in of},
   points |-> <<{k.points[1] : k \in {x \in of : x.id[1] = id1}},
                {k.points[2] : k \in {x \in of : x.id[2] = id2}}>>,
   pair |-> id1 = 0 \/ id2 = 0 \/ \E k \in of : k.id = <<id1, id2>>]

-----------------------------------------------------------------------------
(* finishSkills.                                                           *)

\* Wrong: the threshold itself does not activate the skill.
ConsiderAbove(best, a, total) ==
  IF \/ a.threshold > 0 /\ total > a.threshold /\ a.threshold > best.positive
     \/ a.threshold < 0 /\ total < a.threshold /\ a.threshold < best.negative
  THEN [skill |-> a.skill,
        positive |-> IF a.threshold > 0 THEN a.threshold ELSE best.positive,
        negative |-> IF a.threshold < 0 THEN a.threshold ELSE best.negative]
  ELSE best

\* One row of the loop: a skill that is reached and further from 0 is better.
Consider(best, a, total) ==
  IF \/ a.threshold > 0 /\ total >= a.threshold /\ a.threshold > best.positive
     \/ a.threshold < 0 /\ total <= a.threshold /\ a.threshold < best.negative
  THEN [skill |-> a.skill,
        positive |-> IF a.threshold > 0 THEN a.threshold ELSE best.positive,
        negative |-> IF a.threshold < 0 THEN a.threshold ELSE best.negative]
  ELSE best

\* The loop over a tree's rows: the best after each of them.  The bounds are 2^30.
NoneBest == [skill |-> NoSkill, positive |-> -1073741824, negative |-> 1073741824]
Scan(t, total) ==
  LET best[i \in 0..Len(ActiveSkill[t])] ==
        IF i = 0 THEN NoneBest ELSE Consider(best[i - 1], ActiveSkill[t][i], total)
  IN best
Activated(t, total) == Scan(t, total)[Len(ActiveSkill[t])].skill

Total(t) == OverSlots(points[t])
Skills == [t \in DOMAIN points |-> [points |-> Total(t), active |-> Activated(t, Total(t))]]

-----------------------------------------------------------------------------
(* Fingerprints.                                                           *)

\* Wrong: two decorations of a kind count once.
SortedKinds(d) == {d[i] : i \in DOMAIN d}

\* What a sorted list tells: how often it has each decoration, and each empty place.
Sorted(d) == [k \in {d[i] : i \in DOMAIN d} |-> Cardinality({i \in DOMAIN d : d[i] = k})]

\* loadoutFingerprint, before it is hashed.
Fingerprint(l) ==
  [l EXCEPT !.name = "",
            !.piece = [s \in Worn |-> [l.piece[s] EXCEPT !.decorations = Sorted(@)]],
            !.charm.decorations = Sorted(@)]

-----------------------------------------------------------------------------
(* A call of Validate.                                                     *)

NoAnswer == [loadout |-> NoLoadout, result |-> [refused |-> TRUE]]

TypeOK ==
  /\ loadout \in Submitted \cup {NoLoadout}
  /\ DOMAIN points \subseteq Tree
  /\ \A t \in DOMAIN points : points[t] \in [Slot -> Int]
  /\ slots \subseteq Slot /\ slot \in Slot /\ trees \subseteq DOMAIN points
  /\ answer.loadout \in Submitted \cup {NoLoadout}
  /\ loadout = NoLoadout => DOMAIN points = {} /\ slots = {}

Idle == loadout = NoLoadout /\ points = <<>> /\ slots = {} /\ slot = "chest" /\ trees = {}
Init == Idle /\ answer = NoAnswer

Refuse(l) ==
  /\ loadout = NoLoadout /\ Refused(l)
  /\ answer' = [loadout |-> l, result |-> [refused |-> TRUE]]
  /\ UNCHANGED <<loadout, points, slots, slot, trees>>

\* Wrong: the chest is copied onto itself when it has torso up too.
MarkedWithChest(p) ==
  IF TorsoUp \in DOMAIN p THEN {s \in Slot : p[TorsoUp][s] > 0} ELSE {}

\* The slots the outer loop of applyTorsoUp does not skip.
Marked(p) ==
  IF TorsoUp \in DOMAIN p THEN {s \in Slot \ {"chest"} : p[TorsoUp][s] > 0} ELSE {}

Collect(l) ==
  /\ loadout = NoLoadout /\ ~Refused(l)
  /\ loadout' = l
  /\ points' = Collected(l)
  /\ slots' = Marked(points')
  /\ UNCHANGED <<slot, trees, answer>>

\* applyTorsoUp, the outer loop ...
Visit(s) ==
  /\ trees = {} /\ s \in slots
  /\ slots' = slots \ {s} /\ slot' = s
  /\ trees' = DOMAIN points \ {TorsoUp}
  /\ UNCHANGED <<loadout, points, answer>>

\* ... and the inner.
CopyChest(t) ==
  /\ t \in trees
  /\ points' = [points EXCEPT ![t][slot] = @ + points[t]["chest"]]
  /\ trees' = trees \ {t}
  /\ UNCHANGED <<loadout, slots, slot, answer>>

\* Wrong: the points are kept for the next loadout.
FinishKeepsPoints ==
  /\ loadout # NoLoadout /\ slots = {} /\ trees = {}
  /\ answer' = [loadout |-> loadout,
                result |-> [refused |-> FALSE, diagnostics |-> Diagnostics(loadout),
                            skills |-> Skills]]
  /\ loadout' = NoLoadout /\ slot' = "chest"
  /\ UNCHANGED <<points, slots, trees>>

Finish ==
  /\ loadout # NoLoadout /\ slots = {} /\ trees = {}
  /\ answer' = [loadout |-> loadout,
                result |-> [refused |-> FALSE, diagnostics |-> Diagnostics(loadout),
                            skills |-> Skills]]
  /\ loadout' = NoLoadout /\ points' = <<>> /\ slot' = "chest"
  /\ UNCHANGED <<slots, trees>>

Next ==
  \/ \E l \in Submitted : Refuse(l) \/ Collect(l)
  \/ \E s \in Slot : Visit(s)
  \/ \E t \in Tree : CopyChest(t)
  \/ Finish

Spec == Init /\ [][Next]_vars

-----------------------------------------------------------------------------
Accepted == ~answer.result.refused

\* Torso up doubles the chest once for each other part that has it, in every
\* tree but its own, in whatever order Go ranges over the two maps.
TorsoUpOnce ==
  Accepted =>
    LET own == Collected(answer.loadout)
        counts(s) == TorsoUp \in DOMAIN own /\ own[TorsoUp][s] > 0
        parts == {s \in Slot \ {"chest"} : counts(s)}
    IN \A t \in DOMAIN own :
         answer.result.skills[t].points =
           OverSlots(own[t]) + (IF t = TorsoUp THEN 0 ELSE Cardinality(parts) * own[t]["chest"])

\* A tree's skill is the one furthest from 0 among those its points reach, and
\* there is none if they reach none.
StrongestSkill ==
  Accepted =>
    \A t \in DOMAIN answer.result.skills :
      LET total == answer.result.skills[t].points
          rows == {ActiveSkill[t][i] : i \in 1..Len(ActiveSkill[t])}
          reached == {a \in rows : \/ a.threshold > 0 /\ total >= a.threshold
                                   \/ a.threshold < 0 /\ total <= a.threshold}
          furthest == {a \in reached : \A b \in reached :
                          IF total > 0 THEN a.threshold >= b.threshold ELSE a.threshold <= b.threshold}
      IN answer.result.skills[t].active \in
           IF reached = {} THEN {NoSkill} ELSE {a.skill : a \in furthest}

\* What charm-rules tells an editor to choose from and what the validator says of the
\* choice agree: two readings of charm_combinations, in different files.  A charm
\* within the offered slots, points and pairs gets none of these diagnostics, and
\* one that is not gets one, whether or not the combination as a whole is generated.
CharmRulesAgree ==
  Accepted =>
    LET c == answer.loadout.charm  rules == CharmRules(c.class, c.id[1], c.id[2]) IN
    (/\ c.slots \in rules.slots
     /\ \A i \in 1..2 : c.points[i] \in rules.points[i]
     /\ rules.pair) <=>
    \A d \in answer.result.diagnostics :
      d[1] \notin {"CHARM_SLOT_NOT_GENERATED", "CHARM_SKILL_POSITION_INVALID",
                   "CHARM_SKILL_POINTS_INVALID", "CHARM_SKILL_PAIR_NOT_GENERATED"}

\* Loadouts that the server takes for identical (loadouts are unique by the
\* hash of the fingerprint) are refused together or have the same skills,
\* active skills and diagnostics.
SameBuildSameResult ==
  [][/\ answer.loadout # NoLoadout
     /\ "" \notin {answer.loadout.name, answer'.loadout.name}
     /\ Fingerprint(answer.loadout) = Fingerprint(answer'.loadout)
     => answer'.result = answer.result]_vars
=============================================================================
