CONSTANTS
  r1 = r1
  r2 = r2
  Requests = {r1, r2}
  NumSlots = 2
  NumRacks = 2
  MaxId = 4
SPECIFICATION Spec
SYMMETRY RequestSymmetry
INVARIANTS TypeOK OnePlacePerMachine LocationAgrees MachinesConserved NoDanglingRack RackExclusive EngineFresh
CHECK_DEADLOCK FALSE
