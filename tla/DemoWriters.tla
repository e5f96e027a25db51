----------------------------- MODULE DemoWriters -----------------------------
(***************************************************************************)
(* The two demo programs that build policy buffers with fixed creator     *)
(* calls and write them to files:                                          *)
(*  - examples/example_writer: main calls seven create* functions, each   *)
(*    with its own builder, each ending in writeBufferToFile;             *)
(*  - examples/example_generate_c_header_buffer: createFlatPolicies        *)
(*    builds three policies, then writes out/buffer.h and out/buffer.bin. *)
(*                                                                         *)
(* main is straight-line code, so it is the sequence todo of the steps    *)
(* still to run; a step is one helper call (a policy into offs), the      *)
(* PoliciesCreate/Finish/FinishedBytes tail of a create* function, or its *)
(* file writes.  Each MkdirAll succeeds or fails; each os.WriteFile has *)
(* an outcome of WriteOutcomes: "ok", "open" (fails before truncating,   *)
(* the file keeps its old content) or "partial" (truncates the file, then *)
(* fails part way: Truncated).  out/ exists once a MkdirAll or a         *)
(* WriteFile into it has succeeded.                                       *)
(*                                                                         *)
(* A C header file is recorded as the buffer it prints; its layout is     *)
(* generateCHeader, modelled in CHeader.                                   *)
(***************************************************************************)
EXTENDS PolicySchema

CONSTANTS
  NoFile,        (* a file that has not been written                      *)
  Truncated,     (* a file os.WriteFile truncated and failed to write     *)
  WriteOutcomes  (* a subset of {"ok", "open", "partial"}                 *)

VARIABLES
  todo,    (* the steps of main still to run                              *)
  status,  (* "running", "exited" (main returned), "fatal" (log.Fatalf), *)
           (* "panicked"                                                  *)
  fb,      (* the builder of the running create* function                 *)
  offs,    (* the policy offsets it has collected                         *)
  dir,     (* out/ exists                                                 *)
  files    (* the content of each output file                            *)

vars == <<todo, status, fb, offs, dir, files>>

Values3 == <<"value_1", "value_2", "value_3">>
Values5 == <<"value_1", "value_2", "value_3", "value_4", "value_5">>

---------------------------------------------------------------------------
(* The helpers, the same in both programs.                                *)

createStrEvaluatorNode(b, evaluatorId, value, cmpp) ==
  LET b1 == StrEvaluatorCreate(b, evaluatorId, value, cmpp)
      b2 == EvaluatorNodeCreate(b1, "StrEvaluator", Desc, Offset(b1))
  IN  NodeTypeWrapperCreate(b2, Offset(b2), "EvaluatorNode")

(* Variant: the evaluator node returned without its wrapper.             *)
createDenyByRuntimePolicyUnwrapped(b, runtime) ==
  LET b0 == StrEvaluatorCreate(b, "RUNTIME_LANGUAGE", runtime, "EXACT")
      b1 == EvaluatorNodeCreate(b0, "StrEvaluator", Desc, Offset(b0))
      b2 == ActionCreate(b1, "INJECT_DENY", Desc, Values3)
  IN  PolicyCreate(b2, Desc, Offset(b1), <<Offset(b2)>>)

createDenyByRuntimePolicy(b, runtime) ==
  LET b1 == createStrEvaluatorNode(b, "RUNTIME_LANGUAGE", runtime, "EXACT")
      b2 == ActionCreate(b1, "INJECT_DENY", Desc, Values3)
  IN  PolicyCreate(b2, Desc, Offset(b1), <<Offset(b2)>>)

createRoot(b, oper, description, nodes) ==
  LET b1 == CompositeNodeCreate(b, oper, description, nodes)
  IN  NodeTypeWrapperCreate(b1, Offset(b1), "CompositeNode")

createDenyByMultipleEvaluatorsPolicy(b, runtime) ==
  LET b1 == createStrEvaluatorNode(b, "RUNTIME_LANGUAGE", runtime, "EXACT")
      b2 == createStrEvaluatorNode(b1, "PROCESS_EXE_FULL_PATH",
                                   "/some/stairway/to/heaven", "PREFIX")
      b3 == createRoot(b2, "BOOL_AND", Desc, <<Offset(b1), Offset(b2)>>)
      b4 == ActionCreate(b3, "INJECT_DENY", Desc, Values3)
  IN  PolicyCreate(b4, Desc, Offset(b3), <<Offset(b4)>>)

---------------------------------------------------------------------------
(* The two mains, as the steps they run.                                  *)

S(op, arg) == [op |-> op, arg |-> arg]

(* A create* function of example_writer: its policies, then Finish and    *)
(* writeBufferToFile(buffer, fileName).                                    *)
WriterFunction(policies, fileName) ==
  policies \o <<S("finish", ""), S("write", "out/" \o fileName)>>

WriterMain ==
  WriterFunction(<<S("deny", "jvm"), S("deny", "python"), S("deny", "go")>>,
                 "MultipleFlatPolicies.bin")
  \o WriterFunction(<<S("deny", "jvm")>>, "FlatPolicy.bin")
  \o WriterFunction(<<S("deep", "ruby")>>, "DeepPolicy.bin")
  \o WriterFunction(<<S("allowAll", "")>>, "FlatPolicyNoEvaluators.bin")
  \o WriterFunction(<<S("empty", "")>>, "EmptyPolicies.bin")
  \o WriterFunction(<<S("noActions", "")>>, "FlatPolicyNoActions.bin")
  \o WriterFunction(<<S("empty", "")>>, "ZeropPolicies.bin")

HeaderMain ==
  <<S("deny", "jvm"), S("deny", "python"), S("deny", "go"), S("finish", ""),
    S("header", [h |-> "out/buffer.h", bin |-> "out/buffer.bin"])>>

FileNames ==
  {WriterMain[k].arg : k \in {j \in DOMAIN WriterMain : WriterMain[j].op = "write"}}
  \cup {"out/buffer.h", "out/buffer.bin"}

---------------------------------------------------------------------------
(* The steps.  Each one that adds a policy appends its offset to offs.    *)

Step == Head(todo)

AddPolicy(b) ==
  /\ fb' = b
  /\ offs' = Append(offs, Offset(b))
  /\ status' = IF b.panicked THEN "panicked" ELSE status
  /\ todo' = Tail(todo)
  /\ UNCHANGED <<dir, files>>

(* createDenyByRuntimePolicy(builder, runtime).                           *)
DenyByRuntime ==
  /\ status = "running" /\ todo # <<>> /\ Step.op = "deny"
  /\ AddPolicy(createDenyByRuntimePolicy(fb, Step.arg))

(* CreateDeepPolicy: createDenyByMultipleEvaluatorsPolicy(builder, "ruby").*)
DenyByMultipleEvaluators ==
  /\ status = "running" /\ todo # <<>> /\ Step.op = "deep"
  /\ AddPolicy(createDenyByMultipleEvaluatorsPolicy(fb, Step.arg))

(* createFlatPolicyNoEvaluators: an ALLOW action and a policy with rules 0.*)
AllowAllPolicy ==
  /\ status = "running" /\ todo # <<>> /\ Step.op = "allowAll"
  /\ LET b1 == ActionCreate(fb, "INJECT_ALLOW", Desc, Values5)
     IN  AddPolicy(PolicyCreate(b1, Desc, 0, <<Offset(b1)>>))

(* createEmptyPolicies and createZeropPolicies: rules 0 and no action.    *)
EmptyPolicy ==
  /\ status = "running" /\ todo # <<>> /\ Step.op = "empty"
  /\ AddPolicy(PolicyCreate(fb, Desc, 0, <<>>))

(* createFlatPolicyNoActions: one evaluator and no action.                *)
NoActionsPolicy ==
  /\ status = "running" /\ todo # <<>> /\ Step.op = "noActions"
  /\ LET b1 == createStrEvaluatorNode(fb, "RUNTIME_LANGUAGE", "some runtime", "EXACT")
     IN  AddPolicy(PolicyCreate(b1, Desc, Offset(b1), <<>>))

(* Variant: builder.Finish left out.                                     *)
FinishBufferUnfinished ==
  /\ status = "running" /\ todo # <<>> /\ Step.op = "finish"
  /\ fb' = PoliciesCreate(fb, offs)
  /\ status' = IF fb'.panicked THEN "panicked" ELSE status
  /\ todo' = Tail(todo)
  /\ UNCHANGED <<offs, dir, files>>

(* PoliciesCreate, builder.Finish(policies), builder.FinishedBytes().     *)
FinishBuffer ==
  /\ status = "running" /\ todo # <<>> /\ Step.op = "finish"
  /\ LET b1 == PoliciesCreate(fb, offs)
     IN  fb' = Finish(b1, Offset(b1))
  /\ status' = IF fb'.panicked THEN "panicked" ELSE status
  /\ todo' = Tail(todo)
  /\ UNCHANGED <<offs, dir, files>>

(* The next create* function starts from flatbuffers.NewBuilder.         *)
Return == fb' = NewBuilder /\ offs' = <<>> /\ todo' = Tail(todo)

(* example_writer's writeBufferToFile: MkdirAll("out/") fails, it prints *)
(* the error and returns, and main goes on with the next function.       *)
WriterMkdirFailed ==
  /\ status = "running" /\ todo # <<>> /\ Step.op = "write"
  /\ ~dir
  /\ Return
  /\ UNCHANGED <<status, dir, files>>

(* The file f after os.WriteFile of buffer with outcome w.                *)
WriteFile(w, buffer, f) ==
  CASE w = "ok" -> buffer [] w = "open" -> files[f] [] w = "partial" -> Truncated

(* MkdirAll succeeds and WriteFile fails: log.Fatalf exits the process,  *)
(* the file left as the failed write left it.                              *)
WriterWriteFailed ==
  /\ status = "running" /\ todo # <<>> /\ Step.op = "write"
  /\ dir' = TRUE
  /\ \E w \in WriteOutcomes \ {"ok"} :
       files' = [files EXCEPT ![Step.arg] = WriteFile(w, fb, Step.arg)]
  /\ status' = "fatal"
  /\ UNCHANGED <<todo, fb, offs>>

(* Both succeed: out/<fileName> holds the finished bytes.                 *)
WriterWritten ==
  /\ status = "running" /\ todo # <<>> /\ Step.op = "write"
  /\ "ok" \in WriteOutcomes
  /\ dir' = TRUE
  /\ files' = [files EXCEPT ![Step.arg] = fb]
  /\ Return
  /\ UNCHANGED status

(* example_generate_c_header_buffer's createFlatPolicies, after           *)
(* generateCHeader: MkdirAll fails, it prints and returns.                *)
HeaderMkdirFailed ==
  /\ status = "running" /\ todo # <<>> /\ Step.op = "header"
  /\ ~dir
  /\ Return
  /\ UNCHANGED <<status, dir, files>>

(* MkdirAll succeeds; the error of os.WriteFile for the header (wh) is   *)
(* not looked at; writeBufferToFile then writes the .bin (wb), and calls *)
(* log.Fatalf when that fails.                                            *)
HeaderWrite ==
  /\ status = "running" /\ todo # <<>> /\ Step.op = "header"
  /\ dir' = TRUE
  /\ \E wh, wb \in WriteOutcomes :
       /\ files' = [files EXCEPT ![Step.arg.h] = WriteFile(wh, fb, Step.arg.h),
                                 ![Step.arg.bin] = WriteFile(wb, fb, Step.arg.bin)]
       /\ IF wb = "ok" THEN Return /\ UNCHANGED status
          ELSE status' = "fatal" /\ UNCHANGED <<todo, fb, offs>>

(* main returns once every step has run.                                  *)
MainReturns ==
  /\ status = "running" /\ todo = <<>>
  /\ status' = "exited"
  /\ UNCHANGED <<todo, fb, offs, dir, files>>

Stopped == status # "running" /\ UNCHANGED vars

Init ==
  /\ todo \in {WriterMain, HeaderMain}
  /\ status = "running"
  /\ fb = NewBuilder
  /\ offs = <<>>
  /\ dir \in BOOLEAN
  /\ files = [f \in FileNames |-> NoFile]

Next ==
  \/ DenyByRuntime \/ DenyByMultipleEvaluators \/ AllowAllPolicy
  \/ EmptyPolicy \/ NoActionsPolicy \/ FinishBuffer
  \/ WriterMkdirFailed \/ WriterWriteFailed \/ WriterWritten
  \/ HeaderMkdirFailed \/ HeaderWrite
  \/ MainReturns \/ Stopped

Spec == Init /\ [][Next]_vars

---------------------------------------------------------------------------
TypeOK ==
  /\ status \in {"running", "exited", "fatal", "panicked"}
  /\ \E m \in {WriterMain, HeaderMain} : \E n \in 0..Len(m) : todo = SubSeq(m, n + 1, Len(m))
  /\ dir \in BOOLEAN
  /\ offs \in Seq(Nat)
  /\ \A f \in FileNames : files[f] \in {NoFile, Truncated} \/ files[f].finished

(* The policies each file must read back as, from the arguments main    *)
(* and the create* functions pass.                                        *)
Leaf(id, cmp, value) ==
  [node_type |-> "EvaluatorNode", eval_type |-> "StrEvaluator",
   eval |-> [id |-> id, cmp |-> cmp, value |-> value]]

Deny == [action |-> "INJECT_DENY", values |-> Values3]

DenyPolicy(runtime) ==
  [rules |-> Leaf("RUNTIME_LANGUAGE", "EXACT", runtime), actions |-> <<Deny>>]

Intended(f) ==
  CASE f \in {"out/MultipleFlatPolicies.bin", "out/buffer.h", "out/buffer.bin"} ->
         <<DenyPolicy("jvm"), DenyPolicy("python"), DenyPolicy("go")>>
    [] f = "out/FlatPolicy.bin" -> <<DenyPolicy("jvm")>>
    [] f = "out/DeepPolicy.bin" ->
         <<[rules |-> [node_type |-> "CompositeNode", op |-> "BOOL_AND",
                       children |-> <<Leaf("RUNTIME_LANGUAGE", "EXACT", "ruby"),
                                      Leaf("PROCESS_EXE_FULL_PATH", "PREFIX",
                                           "/some/stairway/to/heaven")>>],
            actions |-> <<Deny>>]>>
    [] f = "out/FlatPolicyNoEvaluators.bin" ->
         <<[rules |-> Absent,
            actions |-> <<[action |-> "INJECT_ALLOW", values |-> Values5]>>]>>
    [] f = "out/FlatPolicyNoActions.bin" ->
         <<[rules |-> Leaf("RUNTIME_LANGUAGE", "EXACT", "some runtime"), actions |-> <<>>]>>
    [] OTHER -> <<[rules |-> Absent, actions |-> <<>>]>>

(* Whatever MkdirAll and os.WriteFile do, every file the demos leave     *)
(* holding a buffer (neither missing nor truncated by a failed write) has *)
(* references that all designate earlier objects, and reads back, from    *)
(* its root, as the policies the create* function that wrote it meant:   *)
(* wrappers around every node, rules 0 read as no rules, the children and *)
(* policies in call order, and no buffer of another create* function     *)
(* (each starts from a new builder).                                      *)
WrittenAsIntended ==
  \A f \in FileNames : files[f] \notin {NoFile, Truncated} =>
    /\ \A k \in DOMAIN files[f].objs :
         \A r \in Refs(files[f].objs[k]) : r \in 1..(k - 1)
    /\ ReadPolicies(files[f]) = Intended(f)
=============================================================================
