\* Two format keys, an event and the file with its unit.
CONSTANTS
  W = 4
  Wrap = 16
  MaxByte = 7
  Keys = {"event", "gt"}
  Names = {"busy", "busy.unit"}
  Dotted = {"busy.unit"}
  FormatFiles <- SomeFormats
  Lines <- SomeLines
SPECIFICATION Spec
INVARIANTS TypeOK EncodedFaithfully OnlyUnderstoodEvents
\* A load ends.
CHECK_DEADLOCK FALSE
