\* Every order in which applyTorsoUp may visit its maps, for every pair of
\* loadouts validated one after the other.
SPECIFICATION Spec
CONSTANTS
  NoLoadout = NoLoadout
  attack = attack
  attackL = attackL
  guard = guard
  guardDown = guardDown
  NoSkill = NoSkill
  Submitted <- MCSubmitted
  Equipment <- MCEquipment
  Decoration <- MCDecoration
  Tree <- MCTree
  ActiveSkill <- MCActiveSkill
  Skill <- MCSkill
  Class <- MCClass
  Combination <- MCCombination
INVARIANTS TypeOK TorsoUpOnce StrongestSkill CharmRulesAgree
PROPERTIES SameBuildSameResult
