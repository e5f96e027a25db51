\* generateCHeader on slices of 0 to 25 bytes.
CONSTANTS
  Inputs <- MCInputs
  varName = "hardcoded_policies"

SPECIFICATION Spec

INVARIANTS
  TypeOK
  HeaderMatchesReference
