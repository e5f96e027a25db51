\* generate_json.go on a schema whose Eval union has its last member on the
\* closing brace's line and whose NumEvaluator.value has a default value.
CONSTANTS
  Inputs <- MCLayoutInputs
  IOFaults = {}

SPECIFICATION Spec

INVARIANT
  GeneratedMatchesSchema
