CONSTANTS
  i1 = i1
  i2 = i2
  i3 = i3
  Items <- MCItems
  Data <- MCData
  NULL = NULL
  Clients <- MCClients
  MaxCount = 5
SPECIFICATION Spec
INVARIANTS TypeOK WalksAgree SortedList
PROPERTY KeepsTheSequence
SYMMETRY MCSymmetry
CONSTRAINT MCTwoOfThem
