\* generate_json.go over a two-file schema, unions written inline or as blocks.
CONSTANTS
  Inputs <- MCInputs
  IOFaults = {"open", "read", "create", "short"}

SPECIFICATION Spec

INVARIANTS
  GeneratedMatchesSchema
