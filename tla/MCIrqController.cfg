SPECIFICATION Spec
CONSTANTS
  Sources = {s1, s2}
  OtherBits = {b}
  MaxWire = 3
INVARIANT EndToEnd
PROPERTY Interrupts
