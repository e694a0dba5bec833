\* One request at a time, beside categorising, implements the atomic requests.
SPECIFICATION CRSpec
CONSTANTS
  Tags = {g1, g2, g3}
  Things = {x1}
  None = None
  TypeInputs = {"expense", "income"}
  BudgetInputs = {TRUE, FALSE}
  Workers = {w1}
SYMMETRY Symmetry
INVARIANTS LinksExist
PROPERTIES OneAtATime
