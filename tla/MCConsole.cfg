CONSTANTS
  CHARSIZE = 2
  CURSOR_HEIGHT = 1
  BASELINE_OFFSET = 1
  Width = 3
  Heights = {6, 7}
  Glyphs = {"0", "1"}
  BUFFER_SIZE = 4
  Strings <- MCStrings
  Formats <- MCFormats
  Writers = {"main", "irq"}
  MaxPrints = 3
SPECIFICATION Spec
INVARIANTS TypeOK StaysInside OneCursor FormatsRight
PROPERTIES ImplementsTerminal
CHECK_DEADLOCK FALSE
