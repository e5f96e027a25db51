\* The compile command on every document of MCDocs, with the decoders of
\* the spec (section 4.1): NONE is a known kind of node and of evaluator.
\* NONE nodes occur at the root of a policy but not below a composite
\* (that case is the run MCPolicyCompiler_sentinel).  os.WriteFile may
\* succeed, fail before touching the file, or fail after truncating it.
CONSTANTS
  Absent = Absent
  Corrupt = Corrupt
  Malformed = Malformed
  NoFile = NoFile
  Truncated = Truncated
  WriteOutcomes = {"ok", "open", "partial"}
  Pending = Pending
  Failure = Failure
  EnvFailure = EnvFailure
  NodeUnionMembers = {"EvaluatorNode", "CompositeNode", "NONE"}
  EvalUnionMembers = {"StrEvaluator", "NumEvaluator", "UNumEvaluator", "NONE"}
  NoneChildren = FALSE
  Docs <- MCDocs

SPECIFICATION Spec

INVARIANTS
  TypeOK
  NoPanic
  ExitStatusTruthful

PROPERTIES
  RefinesCompilation
