SPECIFICATION Spec
CONSTANTS
  Pcbs = {p1, p2, p3, p4}
  Queues <- TwoQueues
  NULL = NULL
SYMMETRY PcbSymmetry
INVARIANTS
  TypeOK
  RingsClosed
  SiblingsLinked

  
