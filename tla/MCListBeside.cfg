CONSTANTS
  i1 = i1
  i2 = i2
  i3 = i3
  Items <- MCItems
  Data <- MCData
  NULL = NULL
  Clients <- MCClients
  MaxCount = 5
SPECIFICATION Spec
PROPERTY IsTheSequence
SYMMETRY MCSymmetry
CONSTRAINT MCTwoOfThem
