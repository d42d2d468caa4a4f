SPECIFICATION Spec
CONSTANTS
  Pcbs = {p1, p2, p3, p4}
  Sems = {10, 20, 30, 40}
  MAXINT = 100
SYMMETRY PcbSymmetry
INVARIANTS
  ListSorted
  DescriptorsConserved
PROPERTIES
  ImplementsQueues
