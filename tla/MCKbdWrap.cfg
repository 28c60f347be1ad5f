CONSTANTS
  A = A
  B = B
  R1 = R1
  CHUNK = 2
  Letters = {A, B}
  LShift = LShift
  RShift = RShift
  LCtrl = LCtrl
  RCtrl = RCtrl
  LAlt = LAlt
  RAlt = RAlt
  Caps = Caps
  Readers = {R1}
  MaxPresses = 3
  MaxWire = 2
  MaxReads = 5
SPECIFICATION Spec
CHECK_DEADLOCK FALSE
INVARIANTS NextTyped
