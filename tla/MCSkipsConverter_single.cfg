\* A policy whose only condition has no values, runtime "all".
CONSTANTS
  Absent = Absent
  Corrupt = Corrupt
  Malformed = Malformed
  NoFile = NoFile
  Truncated = Truncated
  Stale = Stale
  WriteOutcomes = {"ok"}
  Pending = Pending
  Failure = Failure
  EnvFailure = EnvFailure
  NodeUnionMembers = {"EvaluatorNode", "CompositeNode", "NONE"}
  EvalUnionMembers = {"StrEvaluator", "NumEvaluator", "UNumEvaluator", "NONE"}
  Docs <- SingleEmptyDocs

SPECIFICATION Spec

INVARIANT
  NoUnconditionalPolicy
