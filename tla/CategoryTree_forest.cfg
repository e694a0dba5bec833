\* One request at a time on four tags: every forest of up to four categories.
SPECIFICATION TreeSpec
CONSTANTS
  Tags = {g1, g2, g3, g4}
  Things = {x1}
  None = None
SYMMETRY TagSymmetry
INVARIANTS TreeTypeOK Forest OneTypePerTree LeafTruthful LabelsExist
PROPERTIES DestroyKeepsTheRest
