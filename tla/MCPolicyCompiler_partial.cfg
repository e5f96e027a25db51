\* Spec section 7 says no partial output file is ever produced; a WriteFile
\* that fails after truncating the file leaves one.
CONSTANTS
  Absent = Absent
  Corrupt = Corrupt
  Malformed = Malformed
  NoFile = NoFile
  Truncated = Truncated
  WriteOutcomes = {"ok", "open", "partial"}
  Pending = Pending
  Failure = Failure
  EnvFailure = EnvFailure
  NodeUnionMembers = {"EvaluatorNode", "CompositeNode", "NONE"}
  EvalUnionMembers = {"StrEvaluator", "NumEvaluator", "UNumEvaluator", "NONE"}
  NoneChildren = FALSE
  Docs <- MCDocs

SPECIFICATION Spec

INVARIANTS
  FailedCompileWritesNothing
