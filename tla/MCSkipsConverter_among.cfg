\* A condition with no values among several conditions of a policy.
CONSTANTS
  Absent = Absent
  Corrupt = Corrupt
  Malformed = Malformed
  NoFile = NoFile
  Truncated = Truncated
  Stale = Stale
  WriteOutcomes = {"ok"}
  Pending = Pending
  Failure = Failure
  EnvFailure = EnvFailure
  NodeUnionMembers = {"EvaluatorNode", "CompositeNode", "NONE"}
  EvalUnionMembers = {"StrEvaluator", "NumEvaluator", "UNumEvaluator", "NONE"}
  Docs <- EmptyAmongDocs

SPECIFICATION Spec

INVARIANT
  FailsOnEmptyRuleSet
