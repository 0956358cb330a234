SPECIFICATION Spec
CONSTANTS
  None = None
  c1 = c1
  c2 = c2
  x = x
  y = y
  f1 = f1
  f2 = f2
  f3 = f3
  Windows = {w1}
  Importer = importer
  Commands = {k1}
  Customers = {c1, c2}
  Jobs = {j1}
  Values = {x, y}
  FirstRows <- TheRows
  Drafts <- TheDrafts
  CommandForms <- TheCommandForms
  Details = {d1, d2}
  Pairs <- ThePairs
  Budgets <- TheBudgets
INVARIANTS
  ResultIsOfTheForm
  EditsAreOfTheSelection
PROPERTIES
  NoLostUpdate
  OutputsAreKept
CHECK_DEADLOCK FALSE
