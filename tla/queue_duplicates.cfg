SPECIFICATION Spec
CONSTANTS
  ann = ann
  bob = bob
  a1 = a1
  a2 = a2
  b1 = b1
  Events <- TwoEvents
  Owner <- OwnerOfTwo
  Owners = {ann, bob}
  Tasks = {t1, t2, t3}
  NoEvent = NoEvent
  Batch = 2
  MaxKeep = 3
  MaxPushes = 2
  MaxFaults = 1
INVARIANTS TypeOK 
SYMMETRY Symmetry
