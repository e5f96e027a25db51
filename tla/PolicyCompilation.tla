-------------------------- MODULE PolicyCompilation --------------------------
(***************************************************************************)
(* What a compile promises (spec sections 4.1, 4.2, 7 and 8), with no     *)
(* builder, no recursion and no intermediate state: in one step, a        *)
(* document becomes either a failure or a buffer whose policies read back  *)
(* as the document itself.                                                 *)
(*                                                                         *)
(*  - fail-fast: the compile fails exactly when the document is malformed  *)
(*    or names a node or evaluator kind, an operator, a subject, a        *)
(*    comparator or an action the spec does not know;                     *)
(*  - round trip: otherwise the result, read back, is the input with the   *)
(*    same policies, actions and children in the same order, where a       *)
(*    NONE node or NONE evaluator reads back as absent;                    *)
(*  - the file system may still keep a compiled document from being       *)
(*    written (EnvFailure), but only after the document compiled: an       *)
(*    input error is never reported as, nor hidden by, a write failure;    *)
(*  - a compile ends.                                                      *)
(***************************************************************************)
EXTENDS PolicyIR

CONSTANTS
  Docs,       (* the documents a compile may be given                     *)
  Malformed,  (* input that is not a wls.PoliciesJSON                     *)
  Absent,     (* an absent node or evaluator                              *)
  Pending,    (* no result yet                                            *)
  Failure,    (* the compile returned an error                            *)
  EnvFailure  (* the output could not be written                          *)

VARIABLES doc, result

(* The kinds the spec's decoder knows (section 4.1).                      *)
KnownNodeTypes == {"EvaluatorNode", "CompositeNode", "NONE"}
KnownEvalTypes == {"StrEvaluator", "NumEvaluator", "UNumEvaluator", "NONE"}

Compilable(d) ==
  /\ d # Malformed
  /\ \A n \in DocNodes(d) :
       /\ n.node_type \in KnownNodeTypes
       /\ n.node_type = "CompositeNode" => n.op \in BoolOperationNames
       /\ n.node_type = "EvaluatorNode" =>
            n.eval_type \in KnownEvalTypes /\ PayloadEnumsKnown(n)
  /\ ActionsKnown(d)

(* The rule tree a reader must find for a node.                           *)
RECURSIVE Tree(_)
Tree(n) ==
  CASE n.node_type = "NONE" -> Absent
    [] n.node_type = "EvaluatorNode" ->
         [node_type |-> "EvaluatorNode", eval_type |-> n.eval_type,
          eval |-> IF n.eval_type = "NONE" THEN Absent ELSE n.eval]
    [] OTHER ->
         [node_type |-> "CompositeNode", op |-> n.op,
          children |-> [i \in DOMAIN n.children |-> Tree(n.children[i])]]

Expected(d) ==
  [i \in DOMAIN d.policies |->
     [rules |-> Tree(d.policies[i].rules), actions |-> d.policies[i].actions]]

Init == doc \in Docs /\ result = Pending

Compile ==
  /\ result = Pending
  /\ result' = IF Compilable(doc) THEN Expected(doc) ELSE Failure
  /\ UNCHANGED doc

(* The directory or the output file cannot be written.                   *)
WriteFailed ==
  /\ result = Pending /\ Compilable(doc)
  /\ result' = EnvFailure
  /\ UNCHANGED doc

Next == Compile \/ WriteFailed

(* Compile is enabled exactly while there is no result, and a result is   *)
(* never taken back: weak fairness of Next is this.                       *)
Termination == <>(result # Pending)

Spec == Init /\ [][Next]_<<doc, result>> /\ Termination
=============================================================================
