\* The spec's decoders, and NONE nodes also below a composite: the
\* encoder returns the 0 sentinel for a NONE child and writes it into
\* the composite's children vector.
CONSTANTS
  Absent = Absent
  Corrupt = Corrupt
  Malformed = Malformed
  NoFile = NoFile
  Truncated = Truncated
  WriteOutcomes = {"ok"}
  Pending = Pending
  Failure = Failure
  EnvFailure = EnvFailure
  NodeUnionMembers = {"EvaluatorNode", "CompositeNode", "NONE"}
  EvalUnionMembers = {"StrEvaluator", "NumEvaluator", "UNumEvaluator", "NONE"}
  NoneChildren = TRUE
  Docs <- MCDocs

SPECIFICATION Spec

INVARIANTS
  NoDanglingReference
