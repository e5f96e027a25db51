\* The converter on skips documents that are converted only when every
\* condition of every policy has a value, under every outcome of MkdirAll
\* and of the two os.WriteFile calls of finalizePolicies.
CONSTANTS
  Absent = Absent
  Corrupt = Corrupt
  Malformed = Malformed
  NoFile = NoFile
  Truncated = Truncated
  Stale = Stale
  WriteOutcomes = {"ok", "open", "partial"}
  Pending = Pending
  Failure = Failure
  EnvFailure = EnvFailure
  NodeUnionMembers = {"EvaluatorNode", "CompositeNode", "NONE"}
  EvalUnionMembers = {"StrEvaluator", "NumEvaluator", "UNumEvaluator", "NONE"}
  Docs <- GoodDocs

SPECIFICATION Spec

INVARIANTS
  TypeOK
  NoDanglingReference

PROPERTIES
  RefinesCompilation
