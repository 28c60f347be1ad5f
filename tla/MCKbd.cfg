CONSTANTS
  A = A
  B = B
  R1 = R1
  CHUNK = 3
  Letters = {A}
  LShift = LShift
  RShift = RShift
  LCtrl = LCtrl
  RCtrl = RCtrl
  LAlt = LAlt
  RAlt = RAlt
  Caps = Caps
  Readers = {R1}
  MaxPresses = 4
  MaxWire = 2
  MaxReads = 5
SPECIFICATION FairSpec
CHECK_DEADLOCK FALSE
INVARIANTS TypeOK NeverFull NextTypedUntilWrap ModifiersFollow
PROPERTIES EveryCharRead
