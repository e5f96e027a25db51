---------------------------- MODULE PolicyCompiler ----------------------------
(***************************************************************************)
(* dd-compile-policy: the `compile` command (cmd/dd-compile-policy/main.go *)
(* Compile) and the recursive encoder it runs (policies.go).               *)
(*                                                                         *)
(* The encoder is a set of mutually recursive Go functions.  The model     *)
(* keeps their call stack explicit: a frame per active call with its       *)
(* function, its place in the body (pc: "start" before the next call,     *)
(* "await" while the callee runs), the JSON item it works on, the loop     *)
(* index i and the offsets acc collected so far.  A callee returns by     *)
(* popping its frame and leaving (offset, error) in ret.  Each action is   *)
(* the stretch of a function body between two calls into the encoder,     *)
(* every builder call on that stretch included.                            *)
(*                                                                         *)
(* A builder panic (never recovered) ends the program: status "panicked". *)
(***************************************************************************)
EXTENDS PolicyIR, PolicySchema

CONSTANTS
  Docs,       (* the input documents (--input-json)                       *)
  Malformed,  (* an input json.Unmarshal rejects                          *)
  NoFile,     (* the output file before anything is written               *)
  Truncated,  (* the output file after a WriteFile that failed part way   *)
  WriteOutcomes, (* what os.WriteFile may do: "ok", "open" (fails before  *)
                 (* touching the file), "partial" (truncates the file,    *)
                 (* then fails writing, e.g. on a full disk)              *)
  Pending,
  Failure,
  EnvFailure

ASSUME NodeUnionMembers \subseteq NodeTypes /\ EvalUnionMembers \subseteq EvalTypes

VARIABLES
  input,   (* the document given to the command                           *)
  status,  (* "start", "compiling", "written", "failed", "panicked"      *)
  fb,      (* the flatbuffers.Builder                                     *)
  stack,   (* the encoder's call stack, innermost call last               *)
  ret,     (* the (offset, error) the last returning call gave back       *)
  out      (* the content of the --output file                            *)

vars == <<input, status, fb, stack, ret, out>>

Frame(fn, item) == [fn |-> fn, pc |-> "start", item |-> item, i |-> 1, acc |-> <<>>]

Top == stack[Len(stack)]

At(fn, pc) == /\ status = "compiling" /\ stack # <<>>
              /\ Top.fn = fn /\ Top.pc = pc

(* Continue the current call with builder b; a panic ends the program.    *)
Continue(b) ==
  /\ fb' = b
  /\ status' = IF b.panicked THEN "panicked" ELSE status

(* The current call returns (off, err) after its builder calls gave b.    *)
Return(b, off, err) ==
  /\ Continue(b)
  /\ stack' = Front(stack)
  /\ ret' = [off |-> off, err |-> err]

(* The current call, now at pc "await", calls fn on item.                 *)
Call(fn, item) ==
  /\ stack' = Append([stack EXCEPT ![Len(stack)].pc = "await"], Frame(fn, item))
  /\ UNCHANGED <<fb, status, ret>>

(* The current call appends the offset its callee returned and goes on.   *)
Collect ==
  /\ stack' = [stack EXCEPT ![Len(stack)] =
                 [@ EXCEPT !.pc = "start", !.i = @ + 1, !.acc = Append(@, ret.off)]]
  /\ UNCHANGED <<fb, status, ret>>

---------------------------------------------------------------------------
(* Compile: the usage check and json.Unmarshal of the whole document (an *)
(* unknown ActionId name fails it too): an error, before any builder      *)
(* exists.  Enum names inside union payloads are met only when the        *)
(* encoder decodes the payload.                                            *)
Unmarshals == input # Malformed /\ ActionsKnown(input)

UnmarshalFailed ==
  /\ status = "start" /\ ~Unmarshals
  /\ status' = "failed"
  /\ UNCHANGED <<input, fb, stack, ret, out>>

(* ... then NewBuilder(0) and the call PoliciesFbsFromSchema.             *)
StartEncoding ==
  /\ status = "start" /\ Unmarshals
  /\ status' = "compiling"
  /\ fb' = NewBuilder
  /\ stack' = <<Frame("Policies", input.policies)>>
  /\ UNCHANGED <<input, ret, out>>

(* Every `if err != nil { return 0, err }` after a call into the encoder. *)
PropagateError ==
  /\ status = "compiling" /\ stack # <<>> /\ Top.pc = "await" /\ ret.err
  /\ Return(fb, 0, TRUE)
  /\ UNCHANGED <<input, out>>

(* PoliciesFbsFromSchema: for each policy, PolicyFbsFromSchema ...        *)
PoliciesLoop ==
  /\ At("Policies", "start") /\ Top.i <= Len(Top.item)
  /\ Call("Policy", Top.item[Top.i])
  /\ UNCHANGED <<input, out>>

PoliciesNext ==
  /\ At("Policies", "await") /\ ~ret.err
  /\ Collect
  /\ UNCHANGED <<input, out>>

(* ... then schema.PoliciesCreate over the collected offsets.             *)
PoliciesEnd ==
  /\ At("Policies", "start") /\ Top.i > Len(Top.item)
  /\ LET b == PoliciesCreate(fb, Top.acc) IN Return(b, Offset(b), FALSE)
  /\ UNCHANGED <<input, out>>

(* PolicyFbsFromSchema: NodeFbsFromSchema on the rules ...                *)
PolicyRules ==
  /\ At("Policy", "start")
  /\ Call("Node", Top.item.rules)
  /\ UNCHANGED <<input, out>>

(* Variant: the slice made with make(len) and then appended to, so that  *)
(* it starts with one 0 per action.                                       *)
ActionsFbsFromSchemaPrealloc(b, actions) ==
  FoldLeft(LAMBDA acc, a :
             LET b2 == ActionCreate(acc.b, a.action, Desc, a.values)
             IN  [b |-> b2, offs |-> Append(acc.offs, Offset(b2))],
           [b |-> b, offs |-> [i \in DOMAIN actions |-> 0]], actions)

(* ActionsFbsFromSchema: ActionCreate for each action, in order.          *)
ActionsFbsFromSchema(b, actions) ==
  FoldLeft(LAMBDA acc, a :
             LET b2 == ActionCreate(acc.b, a.action, Desc, a.values)
             IN  [b |-> b2, offs |-> Append(acc.offs, Offset(b2))],
           [b |-> b, offs |-> <<>>], actions)

(* ... then the actions and schema.PolicyCreate.                          *)
PolicyEnd ==
  /\ At("Policy", "await") /\ ~ret.err
  /\ LET as == ActionsFbsFromSchema(fb, Top.item.actions)
         b  == PolicyCreate(as.b, Desc, ret.off, as.offs)
     IN  Return(b, Offset(b), FALSE)
  /\ UNCHANGED <<input, out>>

(* NodeFbsFromSchema: DecodeNode, then the switch on node_type.           *)
NodeDecodeFailed ==
  /\ At("Node", "start") /\ ~DecodeNode(Top.item)
  /\ Return(fb, 0, TRUE)
  /\ UNCHANGED <<input, out>>

NodeEvaluator ==
  /\ At("Node", "start") /\ DecodeNode(Top.item)
  /\ Top.item.node_type = "EvaluatorNode"
  /\ Call("Evaluator", Top.item)
  /\ UNCHANGED <<input, out>>

NodeComposite ==
  /\ At("Node", "start") /\ DecodeNode(Top.item)
  /\ Top.item.node_type = "CompositeNode"
  /\ Call("Composite", Top.item)
  /\ UNCHANGED <<input, out>>

(* case wls.NodeTypeNONE: return 0, nil                                   *)
NodeNone ==
  /\ At("Node", "start") /\ DecodeNode(Top.item)
  /\ Top.item.node_type = "NONE"
  /\ Return(fb, 0, FALSE)
  /\ UNCHANGED <<input, out>>

(* After the switch: schema.NodeTypeWrapperCreate around the node.        *)
NodeWrap ==
  /\ At("Node", "await") /\ ~ret.err
  /\ LET b == NodeTypeWrapperCreate(fb, ret.off, Top.item.node_type)
     IN  Return(b, Offset(b), FALSE)
  /\ UNCHANGED <<input, out>>

(* CompositeNodeFbsFromSchema: NodeFbsFromSchema on each child ...        *)
CompositeLoop ==
  /\ At("Composite", "start") /\ Top.i <= Len(Top.item.children)
  /\ Call("Node", Top.item.children[Top.i])
  /\ UNCHANGED <<input, out>>

CompositeNext ==
  /\ At("Composite", "await") /\ ~ret.err
  /\ Collect
  /\ UNCHANGED <<input, out>>

(* ... then schema.CompositeNodeCreate over the children's offsets.       *)
CompositeEnd ==
  /\ At("Composite", "start") /\ Top.i > Len(Top.item.children)
  /\ LET b == CompositeNodeCreate(fb, Top.item.op, Desc, Top.acc)
     IN  Return(b, Offset(b), FALSE)
  /\ UNCHANGED <<input, out>>

(* The switch of EvaluatorNodeFbsFromSchema: the payload table, or 0.     *)
EvaluatorPayload(b, n) ==
  CASE n.eval_type = "StrEvaluator"  -> StrEvaluatorCreate(b, n.eval.id, n.eval.value, n.eval.cmp)
    [] n.eval_type = "NumEvaluator"  -> NumEvaluatorCreate(b, n.eval.id, n.eval.value, n.eval.cmp)
    [] n.eval_type = "UNumEvaluator" -> UNumEvaluatorCreate(b, n.eval.id, n.eval.value, n.eval.cmp)
    [] OTHER                         -> b

(* EvaluatorNodeFbsFromSchema: DecodeEval, the payload, then             *)
(* schema.EvaluatorNodeCreate.                                            *)
EvaluatorDecodeFailed ==
  /\ At("Evaluator", "start") /\ ~DecodeEval(Top.item)
  /\ Return(fb, 0, TRUE)
  /\ UNCHANGED <<input, out>>

EvaluatorEncode ==
  /\ At("Evaluator", "start") /\ DecodeEval(Top.item)
  /\ LET n == Top.item
         p == EvaluatorPayload(fb, n)
         b == EvaluatorNodeCreate(p, n.eval_type, Desc,
                                  IF n.eval_type = "NONE" THEN 0 ELSE Offset(p))
     IN  Return(b, Offset(b), FALSE)
  /\ UNCHANGED <<input, out>>

(* Compile, after the encoder: Finish, FinishedBytes, then the error      *)
(* check, then os.WriteFile.                                              *)
FinishFailed ==
  /\ status = "compiling" /\ stack = <<>> /\ ret.err
  /\ fb' = Finish(fb, ret.off)
  /\ status' = "failed"
  /\ UNCHANGED <<input, stack, ret, out>>

(* The output file after os.WriteFile of buffer with outcome w.          *)
WriteFile(w, buffer) ==
  CASE w = "ok" -> buffer [] w = "open" -> out [] w = "partial" -> Truncated

(* Variant: FinishedBytes taken before Finish.                            *)
FinishWrittenUnfinished ==
  /\ status = "compiling" /\ stack = <<>> /\ ~ret.err
  /\ fb' = Finish(fb, ret.off)
  /\ \E w \in WriteOutcomes :
       /\ out' = WriteFile(w, fb)
       /\ status' = IF w = "ok" THEN "written" ELSE "failed"
  /\ UNCHANGED <<input, stack, ret>>

(* Variant: the error of os.WriteFile not returned.                      *)
FinishWrittenIgnoreError ==
  /\ status = "compiling" /\ stack = <<>> /\ ~ret.err
  /\ fb' = Finish(fb, ret.off)
  /\ \E w \in WriteOutcomes :
       /\ out' = WriteFile(w, fb')
       /\ status' = "written"
  /\ UNCHANGED <<input, stack, ret>>

(* No encoder error: os.WriteFile, whose error Compile returns.           *)
FinishWritten ==
  /\ status = "compiling" /\ stack = <<>> /\ ~ret.err
  /\ fb' = Finish(fb, ret.off)
  /\ \E w \in WriteOutcomes :
       /\ out' = WriteFile(w, fb')
       /\ status' = IF w = "ok" THEN "written" ELSE "failed"
  /\ UNCHANGED <<input, stack, ret>>

(* The command has returned: nothing changes any more.                    *)
Terminated ==
  /\ status \in {"written", "failed", "panicked"}
  /\ UNCHANGED vars

Init ==
  /\ input \in Docs
  /\ status = "start"
  /\ fb = NewBuilder
  /\ stack = <<>>
  /\ ret = [off |-> 0, err |-> FALSE]
  /\ out = NoFile

Next ==
  \/ UnmarshalFailed \/ StartEncoding \/ PropagateError
  \/ PoliciesLoop \/ PoliciesNext \/ PoliciesEnd
  \/ PolicyRules \/ PolicyEnd
  \/ NodeDecodeFailed \/ NodeEvaluator \/ NodeComposite \/ NodeNone \/ NodeWrap
  \/ CompositeLoop \/ CompositeNext \/ CompositeEnd
  \/ EvaluatorDecodeFailed \/ EvaluatorEncode
  \/ FinishFailed \/ FinishWritten
  \/ Terminated

(* The command has not returned yet.                                      *)
Running == status \in {"start", "compiling"}

(* The command runs on one goroutine and never blocks inside the encoder, *)
(* so it keeps taking steps while it has one to take: weak fairness of    *)
(* Next.  ENABLED <<Next>>_vars is Running (a running state always has a  *)
(* step, which the deadlock check confirms, and Terminated changes        *)
(* nothing), so WF_vars(Next) is written with Running in its place.       *)
Fairness == []<>~Running \/ []<><<Next>>_vars

Spec == Init /\ [][Next]_vars /\ Fairness

---------------------------------------------------------------------------
TypeOK ==
  /\ status \in {"start", "compiling", "written", "failed", "panicked"}
  /\ \A k \in DOMAIN stack :
       /\ stack[k].fn \in {"Policies", "Policy", "Node", "Composite", "Evaluator"}
       /\ stack[k].pc \in {"start", "await"}
       /\ stack[k].acc \in Seq(Nat)
  /\ ret \in [off : Nat, err : BOOLEAN]
  /\ \A k \in DOMAIN fb.objs : fb.objs[k].kind \in {"string", "vector", "table"}
  /\ out \in {NoFile, Truncated} \/ out.finished

(* The builder never panics: every creator writes the strings and vectors *)
(* a table refers to before it opens the table, and every offset the      *)
(* encoder hands to a creator was returned by an earlier creator of the   *)
(* same builder, across all the recursive calls.                          *)
NoPanic == status # "panicked"

(* The document was rejected: json.Unmarshal or the encoder failed.       *)
Rejected == ~Unmarshals \/ ret.err

(* Spec section 7: "the whole compile fails atomically; no partial or    *)
(* corrupt output file is ever produced".  Compile returns an error       *)
(* without writing, although it has already called Finish and            *)
(* FinishedBytes on the partly built buffer, and a failing os.WriteFile   *)
(* must leave no file behind either.                                      *)
FailedCompileWritesNothing == status \in {"start", "compiling", "failed"} => out = NoFile

(* Every reference in the written buffer designates an object written     *)
(* before the one holding it: no vector element is the 0 sentinel, which  *)
(* would designate the end of the buffer instead of a table.              *)
NoDanglingReference ==
  status = "written" =>
    \A k \in DOMAIN out.objs : \A r \in Refs(out.objs[k]) : r \in 1..(k - 1)

(* main: app.Run returns Compile's error and log.Fatal exits with 1; a   *)
(* Go panic exits with 2.                                                  *)
ExitCode == CASE status = "written" -> 0 [] status = "failed" -> 1 [] OTHER -> 2

(* The outcome of the command as the abstract specification sees it.      *)
Result ==
  CASE status = "failed" /\ Rejected  -> Failure
    [] status = "failed" /\ ~Rejected -> EnvFailure
    [] status = "written" -> ReadPolicies(out)
    [] OTHER              -> Pending

Abstract == INSTANCE PolicyCompilation WITH doc <- input, result <- Result

(* The compile fails only on a document the spec says it must reject     *)
(* (malformed, or naming a kind of node or evaluator section 4.1 does not *)
(* know): a NONE node or evaluator is decoded as absent, not an error.    *)
FailsOnlyOnUnknownKinds == status = "failed" /\ Rejected => ~Abstract!Compilable(input)

(* The exit status tells the truth about the output file, whatever        *)
(* os.WriteFile does: the command exits 0 exactly when the file holds a   *)
(* complete buffer that reads back as the input, so a truncated file, or  *)
(* none, is always reported by a failing exit.                            *)
ExitStatusTruthful ==
  status \in {"written", "failed"} =>
    (ExitCode = 0 <=> out \notin {NoFile, Truncated}
                      /\ ReadPolicies(out) = Abstract!Expected(input))

(* The encoder implements the abstract compile: it ends, it fails exactly *)
(* when the document names an unknown kind, and otherwise the buffer it   *)
(* writes reads back as the document, orders and absent nodes included.   *)
RefinesCompilation == Abstract!Spec
=============================================================================
