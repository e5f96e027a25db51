---------------------------- MODULE SkipsConverter ----------------------------
(***************************************************************************)
(* The skips converter (examples/example_json_to_hardcoded_injector_       *)
(* policies): main reads a skips document, JSONPolicies.ConvertToWLS      *)
(* encodes it through the schema creators, and finalizePolicies finishes  *)
(* the buffer and writes it out.                                           *)
(*                                                                         *)
(* A skips policy has a runtime, a skip flag and conditions; a condition  *)
(* is a list of path values, each one string comparison.  The converter   *)
(* gives a policy the rule tree                                            *)
(*     runtime-language AND (OR of conditions),  a condition = OR of values *)
(* and one action, DENY when skip is set, ALLOW otherwise.                 *)
(*                                                                         *)
(* The program is sequential; its nested ConvertToWLS calls are modelled *)
(* with an explicit call stack, as the encoder in PolicyCompiler is.      *)
(***************************************************************************)
EXTENDS PolicyIR, PolicySchema

CONSTANTS
  Docs,       (* the skips documents the program may read                 *)
  Malformed,  (* a file that cannot be opened, read or unmarshalled       *)
  NoFile,     (* the output before anything is written                    *)
  Truncated,  (* a file os.WriteFile failed to write after truncating it  *)
  Stale,      (* a file an earlier run left in out/                      *)
  WriteOutcomes, (* what os.WriteFile may do: "ok", "open" (fails before  *)
                 (* touching the file), "partial" (fails part way)        *)
  Pending,
  Failure,
  EnvFailure

VARIABLES
  input,   (* the skips document                                          *)
  status,  (* "start", "converting", "written", "failed", "panicked"     *)
  fb,      (* the flatbuffers.Builder                                     *)
  stack,   (* the ConvertToWLS calls, innermost last                      *)
  ret,     (* the [off, err] the last returning call gave back            *)
  out,     (* the buffer written to out/hardcoded.bin                     *)
  hdr      (* out/hardcoded.h, recorded as the buffer it prints           *)

vars == <<input, status, fb, stack, ret, out, hdr>>

---------------------------------------------------------------------------
(* path_values.go: the subject and comparator a path value names; an      *)
(* unknown name falls back to a default instead of failing.               *)
JsonStrValueTypeToWls(value_type) ==
  CASE value_type = "class"      -> "RUNTIME_ENTRY_POINT_CLASS"
    [] value_type = "entry_file" -> "RUNTIME_ENTRY_POINT_FILE"
    [] OTHER                     -> "PROCESS_EXE_FULL_PATH"

JsonStrCompareStrategyToWls(cmp_strategy) ==
  CASE cmp_strategy = "prefix"   -> "PREFIX"
    [] cmp_strategy = "suffix"   -> "SUFFIX"
    [] cmp_strategy = "contains" -> "CONTAINS"
    [] OTHER                     -> "EXACT"

(* JSONPathValue.ConvertToWLS: a string evaluator, its evaluator node and *)
(* the node wrapper; it never fails.                                      *)
PathValueConvertToWLS(b, v) ==
  LET b1 == StrEvaluatorCreate(b, JsonStrValueTypeToWls(v.value_type), v.value,
                               JsonStrCompareStrategyToWls(v.cmp_strategy))
      b2 == EvaluatorNodeCreate(b1, "StrEvaluator", Desc, Offset(b1))
  IN  NodeTypeWrapperCreate(b2, Offset(b2), "EvaluatorNode")

(* An OR composite over offsets, in its node wrapper.                     *)
WrappedOr(b, nodes) ==
  LET b1 == CompositeNodeCreate(b, "BOOL_OR", Desc, nodes)
  IN  NodeTypeWrapperCreate(b1, Offset(b1), "CompositeNode")

AddRuntimeCondition(runtime) ==
  runtime \in {"python", "java", "nodejs", "dotnet", "ruby", "go", "php"}

GetActionId(skip) == IF skip THEN "INJECT_DENY" ELSE "INJECT_ALLOW"

(* appendRuntimeRule: RUNTIME_LANGUAGE EXACT runtime, AND-ed with node;  *)
(* the composite is an argument of NodeTypeWrapperCreate, so Go creates   *)
(* it before the wrapper is started.                                      *)
appendRuntimeRule(b, node, runtime, description) ==
  LET b1 == StrEvaluatorCreate(b, "RUNTIME_LANGUAGE", runtime, "EXACT")
      b2 == EvaluatorNodeCreate(b1, "StrEvaluator", Desc, Offset(b1))
      b3 == NodeTypeWrapperCreate(b2, Offset(b2), "EvaluatorNode")
      b4 == CompositeNodeCreate(b3, "BOOL_AND", description, <<Offset(b3), node>>)
  IN  NodeTypeWrapperCreate(b4, Offset(b4), "CompositeNode")

---------------------------------------------------------------------------
(* The ConvertToWLS methods call each other (policies, policy, condition) *)
(* through one builder.  As in PolicyCompiler the call stack is explicit: *)
(* a frame per active call, with its place pc, its item, the loop index i, *)
(* the offsets acc collected and the rules node of a policy; a returning  *)
(* call leaves [off, err] in ret.  An action is the stretch of a method   *)
(* between two calls, every builder call on it included.                  *)
Frame(fn, item) ==
  [fn |-> fn, pc |-> "start", item |-> item, i |-> 1, acc |-> <<>>, node |-> 0]

Top == stack[Len(stack)]

At(fn, pc) == /\ status = "converting" /\ stack # <<>>
              /\ Top.fn = fn /\ Top.pc = pc

Continue(b) ==
  /\ fb' = b
  /\ status' = IF b.panicked THEN "panicked" ELSE status

(* The current call goes on at pc with builder b and frame fields f.      *)
Goto(b, f) ==
  /\ Continue(b)
  /\ stack' = [stack EXCEPT ![Len(stack)] = [@ EXCEPT !.pc = f.pc, !.i = f.i,
                                                      !.acc = f.acc, !.node = f.node]]
  /\ UNCHANGED ret

Return(b, off, err) ==
  /\ Continue(b)
  /\ stack' = Front(stack)
  /\ ret' = [off |-> off, err |-> err]

Call(fn, item, pc) ==
  /\ stack' = Append([stack EXCEPT ![Len(stack)].pc = pc], Frame(fn, item))
  /\ UNCHANGED <<fb, status, ret>>

(* main: os.Open, io.ReadAll or json.Unmarshal fails: log.Fatalf.         *)
ParseFailed ==
  /\ status = "start" /\ input = Malformed
  /\ status' = "failed"
  /\ UNCHANGED <<input, fb, stack, ret, out, hdr>>

(* main: NewBuilder(1024), then JSONPolicies.ConvertToWLS.                *)
StartConversion ==
  /\ status = "start" /\ input # Malformed
  /\ status' = "converting"
  /\ fb' = NewBuilder
  /\ stack' = <<Frame("Policies", input.policies)>>
  /\ UNCHANGED <<input, ret, out, hdr>>

(* JSONPolicies.ConvertToWLS: for each policy, JSONPolicy.ConvertToWLS,  *)
(* `return 0, err` on an error, then PoliciesCreate.                      *)
PoliciesLoop ==
  /\ At("Policies", "start") /\ Top.i <= Len(Top.item)
  /\ Call("Policy", Top.item[Top.i], "await")
  /\ UNCHANGED <<input, out, hdr>>

PoliciesNext ==
  /\ At("Policies", "await") /\ ~ret.err
  /\ Goto(fb, [Top EXCEPT !.pc = "start", !.i = @ + 1, !.acc = Append(@, ret.off)])
  /\ UNCHANGED <<input, out, hdr>>

PoliciesError ==
  /\ At("Policies", "await") /\ ret.err
  /\ Return(fb, 0, TRUE)
  /\ UNCHANGED <<input, out, hdr>>

PoliciesEnd ==
  /\ At("Policies", "start") /\ Top.i > Len(Top.item)
  /\ LET b == PoliciesCreate(fb, Top.acc) IN Return(b, Offset(b), FALSE)
  /\ UNCHANGED <<input, out, hdr>>

(* JSONPolicy.ConvertToWLS: no conditions is an error ...                 *)
PolicyNoConditions ==
  /\ At("Policy", "start") /\ Top.item.conditions = <<>>
  /\ Return(fb, 0, TRUE)
  /\ UNCHANGED <<input, out, hdr>>

(* ... one condition is converted and its error discarded: its offset,   *)
(* 0 on error, is the conditions node ...                                 *)
PolicySingle ==
  /\ At("Policy", "start") /\ Len(Top.item.conditions) = 1
  /\ Call("Condition", Top.item.conditions[1], "single")
  /\ UNCHANGED <<input, out, hdr>>

PolicySingleDone ==
  /\ At("Policy", "single")
  /\ Goto(fb, [Top EXCEPT !.pc = "runtime", !.node = ret.off])
  /\ UNCHANGED <<input, out, hdr>>

(* ... several are converted in order, a failing one skipped (continue), *)
(* and the rest OR-ed.                                                    *)
PolicyLoop ==
  /\ At("Policy", "start") /\ Len(Top.item.conditions) > 1
  /\ Top.i <= Len(Top.item.conditions)
  /\ Call("Condition", Top.item.conditions[Top.i], "await")
  /\ UNCHANGED <<input, out, hdr>>

PolicyKeepCondition ==
  /\ At("Policy", "await") /\ ~ret.err
  /\ Goto(fb, [Top EXCEPT !.pc = "start", !.i = @ + 1, !.acc = Append(@, ret.off)])
  /\ UNCHANGED <<input, out, hdr>>

PolicySkipCondition ==
  /\ At("Policy", "await") /\ ret.err
  /\ Goto(fb, [Top EXCEPT !.pc = "start", !.i = @ + 1])
  /\ UNCHANGED <<input, out, hdr>>

PolicyOr ==
  /\ At("Policy", "start") /\ Len(Top.item.conditions) > 1
  /\ Top.i > Len(Top.item.conditions)
  /\ LET b == WrappedOr(fb, Top.acc)
     IN  Goto(b, [Top EXCEPT !.pc = "runtime", !.node = Offset(b)])
  /\ UNCHANGED <<input, out, hdr>>

(* ... then the runtime rule when the runtime names a language ...       *)
PolicyRuntimeRule ==
  /\ At("Policy", "runtime") /\ AddRuntimeCondition(Top.item.runtime)
  /\ LET b == appendRuntimeRule(fb, Top.node, Top.item.runtime, Desc)
     IN  Goto(b, [Top EXCEPT !.pc = "end", !.node = Offset(b)])
  /\ UNCHANGED <<input, out, hdr>>

PolicyNoRuntimeRule ==
  /\ At("Policy", "runtime") /\ ~AddRuntimeCondition(Top.item.runtime)
  /\ Goto(fb, [Top EXCEPT !.pc = "end"])
  /\ UNCHANGED <<input, out, hdr>>

(* ... then the action and PolicyCreate.                                  *)
PolicyEnd ==
  /\ At("Policy", "end")
  /\ LET p  == Top.item
         b1 == ActionCreate(fb, GetActionId(p.skip), Desc, <<p.runtime>>)
         b  == PolicyCreate(b1, Desc, Top.node, <<Offset(b1)>>)
     IN  Return(b, Offset(b), FALSE)
  /\ UNCHANGED <<input, out, hdr>>

(* JSONCondition.ConvertToWLS: an error for no values ...                 *)
ConditionNoValues ==
  /\ At("Condition", "start") /\ Top.item.values = <<>>
  /\ Return(fb, 0, TRUE)
  /\ UNCHANGED <<input, out, hdr>>

(* Variant: no special case for one value, which is OR-ed alone.         *)
ConditionSingleAsOr ==
  /\ At("Condition", "start") /\ Len(Top.item.values) = 1
  /\ LET b1 == PathValueConvertToWLS(fb, Top.item.values[1])
         b  == WrappedOr(b1, <<Offset(b1)>>)
     IN  Return(b, Offset(b), FALSE)
  /\ UNCHANGED <<input, out, hdr>>

(* ... the value itself for one ...                                       *)
ConditionSingle ==
  /\ At("Condition", "start") /\ Len(Top.item.values) = 1
  /\ LET b == PathValueConvertToWLS(fb, Top.item.values[1])
     IN  Return(b, Offset(b), FALSE)
  /\ UNCHANGED <<input, out, hdr>>

(* ... otherwise each value in order (nodes[i] = node) ...                *)
ConditionLoop ==
  /\ At("Condition", "start") /\ Len(Top.item.values) > 1
  /\ Top.i <= Len(Top.item.values)
  /\ LET b == PathValueConvertToWLS(fb, Top.item.values[Top.i])
     IN  Goto(b, [Top EXCEPT !.i = @ + 1, !.acc = Append(@, Offset(b))])
  /\ UNCHANGED <<input, out, hdr>>

(* Variant: nodes made with make(len) and then appended to.              *)
ConditionOrMakeAppend ==
  /\ At("Condition", "start") /\ Len(Top.item.values) > 1
  /\ Top.i > Len(Top.item.values)
  /\ LET b == WrappedOr(fb, [k \in DOMAIN Top.item.values |-> 0] \o Top.acc)
     IN  Return(b, Offset(b), FALSE)
  /\ UNCHANGED <<input, out, hdr>>

(* ... and their OR in a node wrapper.                                    *)
ConditionOr ==
  /\ At("Condition", "start") /\ Len(Top.item.values) > 1
  /\ Top.i > Len(Top.item.values)
  /\ LET b == WrappedOr(fb, Top.acc) IN Return(b, Offset(b), FALSE)
  /\ UNCHANGED <<input, out, hdr>>

(* main: an error of ConvertToWLS is fatal (log.Fatalf), nothing written. *)
ConvertFailed ==
  /\ status = "converting" /\ stack = <<>> /\ ret.err
  /\ status' = "failed"
  /\ UNCHANGED <<input, fb, stack, ret, out, hdr>>

(* The file after os.WriteFile of content with outcome w, over old.      *)
WriteFile(w, content, old) ==
  CASE w = "ok" -> content [] w = "open" -> old [] w = "partial" -> Truncated

(* writeBufferToFile: MkdirAll of out/ (on error: print and return, so    *)
(* main ends with exit 0), then os.WriteFile, whose error is log.Fatalf.  *)
writeBufferToFile(buffer) ==
  \/ /\ status' = "nodir"
     /\ UNCHANGED out
  \/ \E wb \in WriteOutcomes :
       /\ out' = WriteFile(wb, buffer, out)
       /\ status' = IF wb = "ok" THEN "written" ELSE "failed"

(* The rest of finalizePolicies once the buffer is finished: MkdirAll of  *)
(* out/ (on error: print and return, exit 0), hardcoded.h written with   *)
(* its error ignored, then writeBufferToFile.                             *)
WriteOut(buffer) ==
  \/ /\ status' = "nodir"
     /\ UNCHANGED <<out, hdr>>
  \/ \E wh \in WriteOutcomes :
       /\ hdr' = WriteFile(wh, buffer, hdr)
       /\ writeBufferToFile(buffer)

(* Variant: FinishedBytes taken before Finish.                            *)
FinalizeUnfinished ==
  /\ status = "converting" /\ stack = <<>> /\ ~ret.err
  /\ fb' = Finish(fb, ret.off)
  /\ IF fb'.panicked THEN status' = "panicked" /\ UNCHANGED <<out, hdr>>
     ELSE WriteOut(fb)
  /\ UNCHANGED <<input, stack, ret>>

(* finalizePolicies: Finish, FinishedBytes, the C header, and the files.  *)
Finalize ==
  /\ status = "converting" /\ stack = <<>> /\ ~ret.err
  /\ fb' = Finish(fb, ret.off)
  /\ IF fb'.panicked THEN status' = "panicked" /\ UNCHANGED <<out, hdr>>
     ELSE WriteOut(fb')
  /\ UNCHANGED <<input, stack, ret>>

Terminated ==
  /\ status \in {"written", "failed", "nodir", "panicked"}
  /\ UNCHANGED vars

Init ==
  /\ input \in Docs
  /\ status = "start"
  /\ fb = NewBuilder
  /\ stack = <<>>
  /\ ret = [off |-> 0, err |-> FALSE]
  /\ out \in {NoFile, Stale}
  /\ hdr \in {NoFile, Stale}

Next ==
  \/ ParseFailed \/ StartConversion
  \/ PoliciesLoop \/ PoliciesNext \/ PoliciesError \/ PoliciesEnd
  \/ PolicyNoConditions \/ PolicySingle \/ PolicySingleDone
  \/ PolicyLoop \/ PolicyKeepCondition \/ PolicySkipCondition \/ PolicyOr
  \/ PolicyRuntimeRule \/ PolicyNoRuntimeRule \/ PolicyEnd
  \/ ConditionNoValues \/ ConditionSingle \/ ConditionLoop \/ ConditionOr
  \/ ConvertFailed \/ Finalize
  \/ Terminated

Running == status \in {"start", "converting"}

(* One goroutine that never blocks: weak fairness of Next, written with   *)
(* Running for ENABLED <<Next>>_vars as in PolicyCompiler.                *)
Fairness == []<>~Running \/ []<><<Next>>_vars

Spec == Init /\ [][Next]_vars /\ Fairness

---------------------------------------------------------------------------
TypeOK ==
  /\ status \in {"start", "converting", "written", "failed", "nodir", "panicked"}
  /\ \A k \in DOMAIN stack :
       /\ stack[k].fn \in {"Policies", "Policy", "Condition"}
       /\ stack[k].acc \in Seq(Nat) /\ stack[k].node \in Nat
  /\ ret \in [off : Nat, err : BOOLEAN]
  /\ \A f \in {out, hdr} : f \in {NoFile, Truncated, Stale} \/ f.finished

(* Every reference in the written buffer designates an object written    *)
(* before the one holding it (no 0 element in a vector).                  *)
NoDanglingReference ==
  status = "written" =>
    \A k \in DOMAIN out.objs : \A r \in Refs(out.objs[k]) : r \in 1..(k - 1)

(* A policy with no conditions, or with a condition of no values.       *)
EmptyRuleSet(p) ==
  p.conditions = <<>> \/ \E k \in DOMAIN p.conditions : p.conditions[k].values = <<>>

(* Spec 4.2 and 7: a policy whose conditions supply no usable child is   *)
(* an EmptyRuleSet error that fails the whole run; JSONPolicy.ConvertToWLS *)
(* must not write such a policy.                                          *)
FailsOnEmptyRuleSet ==
  status = "written" => \A k \in DOMAIN input.policies : ~EmptyRuleSet(input.policies[k])

(* A skips file cannot ask for an always-matching policy: every policy of *)
(* the written buffer has a rule tree (spec 4.2: zero children supplied   *)
(* must not be conflated with an intentionally absent root).              *)
NoUnconditionalPolicy ==
  status = "written" =>
    \A k \in DOMAIN ReadPolicies(out) : ReadPolicies(out)[k].rules # Absent

(* The spec's reading of a skips document (spec sections 4.2 and 6): the *)
(* canonical policy document it stands for.  A group of one condition or  *)
(* one value is that child itself (arity-1 collapse), and a policy with no *)
(* conditions, or with a condition of no values, is an EmptyRuleSet error, *)
(* so the document must fail as a whole.  The subject and comparator names *)
(* and the action of the skip flag are the converter's own mappings.      *)
SpecLeaf(v) ==
  Evaluator("StrEvaluator", JsonStrValueTypeToWls(v.value_type),
            JsonStrCompareStrategyToWls(v.cmp_strategy), v.value)

Group(op, s) == IF Len(s) = 1 THEN s[1] ELSE Composite(op, s)

SpecRules(p) ==
  LET conds == [k \in DOMAIN p.conditions |->
                  LET vs == p.conditions[k].values
                  IN  Group("BOOL_OR", [j \in DOMAIN vs |-> SpecLeaf(vs[j])])]
      rules == Group("BOOL_OR", conds)
      lang  == Evaluator("StrEvaluator", "RUNTIME_LANGUAGE", "EXACT", p.runtime)
  IN  IF AddRuntimeCondition(p.runtime) THEN Composite("BOOL_AND", <<lang, rules>>)
      ELSE rules

Translate(d) ==
  IF d = Malformed \/ \E k \in DOMAIN d.policies : EmptyRuleSet(d.policies[k])
  THEN Malformed
  ELSE [policies |->
          [k \in DOMAIN d.policies |->
             [rules   |-> SpecRules(d.policies[k]),
              actions |-> <<[action |-> GetActionId(d.policies[k].skip),
                             values |-> <<d.policies[k].runtime>>]>>]]]

(* The skips file was rejected: read, parse or ConvertToWLS failed.      *)
Rejected == input = Malformed \/ ret.err

Result ==
  CASE status = "failed" /\ Rejected -> Failure
    [] status = "nodir" \/ (status = "failed" /\ ~Rejected) -> EnvFailure
    [] status = "written" -> ReadPolicies(out)
    [] OTHER              -> Pending

Compilation == INSTANCE PolicyCompilation
                 WITH Docs <- {Translate(d) : d \in Docs},
                      doc <- Translate(input), result <- Result

(* The converter does what the compiler promises for the document the    *)
(* skips file stands for: it ends; it fails (log.Fatalf, no file) exactly *)
(* on a malformed file or an empty rule set; otherwise the buffer reads    *)
(* back as that document: every policy in order, each condition and value *)
(* in order, groups of one not wrapped, the runtime rule first under AND. *)
RefinesCompilation == Compilation!Spec
=============================================================================
