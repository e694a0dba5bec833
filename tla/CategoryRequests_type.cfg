\* A category created while its parent's type changes keeps the old type.
SPECIFICATION CRSpec
CONSTANTS
  Tags = {g1, g2}
  Things = {}
  None = None
  TypeInputs = {"expense", "income"}
  BudgetInputs = {TRUE, FALSE}
  Workers = {w1, w2}
SYMMETRY Symmetry
INVARIANTS OneTypePerTree
