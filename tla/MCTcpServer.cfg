SPECIFICATION Spec
CONSTANTS
  Conns = {c1, c2, c3}
  MaxThreads = 2
INVARIANTS
  MapHoldsOpen
  
  LoopsBalanced

  
