\* generate_json.go when the scanner of an .fbs file stops on a read error.
CONSTANTS
  Inputs <- MCFaultInputs
  IOFaults = {"read"}

SPECIFICATION Spec

INVARIANT
  SilentRunIsComplete
