CONSTANTS
  N = 3
  IdMod = 8
  RawIds <- AcrossTheWrap
  Payload = {fwd, stop}
  Absent = Absent
  MaxStores = 5
SPECIFICATION Spec
INVARIANTS TypeOK TakeIsCurrent WindowIsFound CountCovers
