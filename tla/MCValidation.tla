---------------------------- MODULE MCValidation ----------------------------
(* A small game database and loadouts around its edges: parts with torso    *)
(* up, skills at their thresholds, decorations in either order and twice,   *)
(* and charms that miss a generated one in each of its columns.             *)
EXTENDS Validation, TLC

CONSTANTS attack, attackL, guard, guardDown

item(size, combat, gender, confirmed, pts) ==
  [slots |-> size, combat |-> combat, gender |-> gender, confirmed |-> confirmed, points |-> pts]

MCEquipment ==
  <<7, 1>> :> item(1, 0, 0, TRUE, <<>>) @@ <<11, 1>> :> item(-1, 0, 0, FALSE, <<>>)
    @@ <<5, 1>> :> item(1, 1, 0, TRUE, 2 :> 2) @@ <<5, 2>> :> item(0, 0, 0, TRUE, 1 :> 1)
    @@ <<1, 1>> :> item(3, 0, 1, TRUE, 2 :> 3 @@ 3 :> -3)
    @@ <<1, 2>> :> item(3, 0, 0, TRUE, 1 :> 1 @@ 2 :> 3)
    @@ <<2, 1>> :> item(0, 0, 0, TRUE, <<>>) @@ <<3, 1>> :> item(0, 0, 0, TRUE, <<>>)
    @@ <<4, 1>> :> item(1, 0, 0, TRUE, 3 :> -1) @@ <<4, 2>> :> item(1, 0, 0, TRUE, 1 :> 1)

MCDecoration ==
  21 :> [slots |-> 1, points |-> 2 :> 1 @@ 3 :> -1] @@ 22 :> [slots |-> 2, points |-> 2 :> 2]

MCTree == 1..3
MCClass == {1, 2, 65536}
row(threshold, skill) == [threshold |-> threshold, skill |-> skill]
MCSkill == {attack, attackL, guard, guardDown}
MCActiveSkill ==
  1 :> <<>> @@ 2 :> <<row(10, attack), row(15, attackL)>> @@ 3 :> <<row(-10, guardDown), row(10, guard)>>

MCCombination ==
  {[class |-> 1, slots |-> 0, id |-> <<2, 0>>, points |-> <<1, 0>>],
   [class |-> 1, slots |-> 1, id |-> <<2, 3>>, points |-> <<1, 2>>],
   [class |-> 2, slots |-> 2, id |-> <<3, 0>>, points |-> <<4, 0>>]}

charm(class, size, id, pts, d) ==
  [class |-> class, slots |-> size, id |-> id, points |-> pts, decorations |-> d]
plain == charm(1, 0, <<2, 0>>, <<1, 0>>, <<>>)
piece(type, id, d) == [type |-> type, id |-> id, decorations |-> d]

build(name, gender, weapon, head, chest, d, legs, ch) ==
  [data |-> "current", name |-> name, gender |-> gender, charm |-> ch,
   piece |-> [weapon |-> piece(weapon, 1, <<>>), head |-> piece(5, head, <<>>),
              chest |-> piece(1, chest, d), arms |-> piece(2, 1, <<>>),
              waist |-> piece(3, 1, <<>>), legs |-> piece(4, legs, <<>>)]]

Bodies ==
  {build("A", "male", 7, h, c, d, g, plain) : h \in {1, 2}, c \in {1, 2}, g \in {1, 2},
      d \in {<<21>>, <<21, 22>>, <<21, 21, 0>>}}
Twins ==
  {build("B", "male", 7, 2, 1, d, 2, plain) : d \in {<<22, 21>>, <<0, 21, 21>>, <<21, 22, 22>>}}
    \cup {build("B", x, w, 1, 1, <<21>>, 1, plain) : x \in {"male", "female"}, w \in {7, 11}}
Charms ==
  {build("A", "male", 7, 1, 1, <<>>, 1, ch) : ch \in
     {charm(1, 1, <<2, 3>>, <<1, 2>>, <<21>>), charm(1, 0, <<2, 3>>, <<1, 2>>, <<21>>),
      charm(1, 1, <<3, 2>>, <<2, 1>>, <<>>), charm(1, 2, <<2, 0>>, <<1, 0>>, <<>>),
      charm(1, 0, <<2, 0>>, <<2, 1>>, <<>>), charm(2, 2, <<3, 3>>, <<4, 0>>, <<>>),
      charm(2, 2, <<3, 0>>, <<4, 0>>, <<22>>), charm(1, 0, <<0, 0>>, <<0, 0>>, <<>>)}}
Bad ==
  LET b == build("A", "male", 7, 1, 1, <<>>, 1, plain) IN
  {[b EXCEPT !.data = "other"], [b EXCEPT !.name = ""], [b EXCEPT !.gender = "any"],
   [b EXCEPT !.piece["head"].id = 0], [b EXCEPT !.piece["head"].type = 4],
   [b EXCEPT !.piece["weapon"].type = 12], [b EXCEPT !.piece["legs"].id = 9],
   [b EXCEPT !.piece["arms"].decorations = <<21, 99>>], [b EXCEPT !.piece["arms"].decorations = <<99, 21>>],
   [b EXCEPT !.piece["arms"].decorations = <<0, 0, 0, 0>>], [b EXCEPT !.charm.class = 3],
   [b EXCEPT !.charm.class = 65536], [b EXCEPT !.charm.id = <<9, 0>>],
   [b EXCEPT !.charm.points = <<128, 0>>]}

MCSubmitted == Bodies \cup Twins \cup Charms \cup Bad
=============================================================================
