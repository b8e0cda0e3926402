SPECIFICATION Spec
CONSTANTS
  Hardware = {"h1", "h2"}
  Nil = "nil"
  Other = 2
  MaxBytes = 3
  MaxChanges = 2
  MaxTroubles = 2
INVARIANTS EachByteOnce
PROPERTIES HardwareIsKnown
