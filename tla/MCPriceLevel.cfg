SPECIFICATION Spec
CONSTANTS
  Orders = {o1, o2, o3, o4}
  NULL = NULL
  Width = 2
SYMMETRY Symmetry
INVARIANTS
  ListExact
  TotalExact
