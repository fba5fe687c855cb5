SPECIFICATION Spec
CONSTANTS
  MinLength = 2
  MaxLength = 6
  MaxLengthEast = 7
  Octets = 3
  OctetDigits = 2
  MaxWritten = 8
INVARIANTS NamesAreLabels PortableToEast
CHECK_DEADLOCK FALSE
