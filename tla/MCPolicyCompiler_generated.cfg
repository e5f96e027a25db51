\* The decoders tools/generate_json.go generates: one case per member
\* listed in the union of the .fbs schema, which never lists the implicit
\* NONE member.
CONSTANTS
  Absent = Absent
  Corrupt = Corrupt
  Malformed = Malformed
  NoFile = NoFile
  Truncated = Truncated
  WriteOutcomes = {"ok"}
  Pending = Pending
  Failure = Failure
  EnvFailure = EnvFailure
  NodeUnionMembers = {"EvaluatorNode", "CompositeNode"}
  EvalUnionMembers = {"StrEvaluator", "NumEvaluator", "UNumEvaluator"}
  NoneChildren = FALSE
  Docs <- MCDocs

SPECIFICATION Spec

INVARIANTS
  FailsOnlyOnUnknownKinds
