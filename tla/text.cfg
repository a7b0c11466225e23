SPECIFICATION Spec
CONSTANTS
  Half = 128
  Bases = {0, 1, 2, 3, 7, 8, 10, 15, 16, 17}
  Items = 3
  Failures = 2
CHECK_DEADLOCK FALSE
INVARIANTS ConvTypeOK RoundTrip WritesNumeral FileTypeOK PrintedWasWritten StopsOnlyAtTorn
