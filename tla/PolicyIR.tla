------------------------------ MODULE PolicyIR ------------------------------
(***************************************************************************)
(* The policy documents dd-compile-policy reads (wls.PoliciesJSON), and    *)
(* the two-phase decoding of their union fields.                           *)
(*                                                                         *)
(* json.Unmarshal decodes the whole document except the union payloads,    *)
(* which stay json.RawMessage.  The compiler decodes each payload only     *)
(* when it reaches it, with the Decode<Field> methods that                 *)
(* tools/generate_json.go generates: one case per member of the union in   *)
(* the .fbs schema, and an error for any other tag.                        *)
(*                                                                         *)
(* Data abstraction: a node is a record with its tag and its (already     *)
(* structured) payload; descriptions, string values and numbers are small  *)
(* constants, never strings built character by character.                  *)
(***************************************************************************)
EXTENDS Naturals, Sequences

CONSTANTS
  NodeUnionMembers,  (* node_type tags DecodeNode has a case for          *)
  EvalUnionMembers   (* eval_type tags DecodeEval has a case for          *)

(* The tags the compiler's switches name (the wls.NodeType and wls.EvaluatorType constants). *)
NodeTypes == {"EvaluatorNode", "CompositeNode", "NONE"}
EvalTypes == {"StrEvaluator", "NumEvaluator", "UNumEvaluator", "NONE"}

(* A leaf payload: an evaluator id, a comparator and a value.             *)
Evaluator(et, id, cmp, v) ==
  [node_type |-> "EvaluatorNode", eval_type |-> et,
   eval |-> [id |-> id, cmp |-> cmp, value |-> v]]

Composite(op, children) ==
  [node_type |-> "CompositeNode", op |-> op, children |-> children]

(* A node whose tag is t and whose payload is irrelevant (NONE, unknown). *)
Tagged(t) == [node_type |-> t]

(* The names the generated enum UnmarshalJSON functions accept: the keys *)
(* of the EnumValues<Enum> maps of the wls package (spec section 3; the    *)
(* numeric subjects are left open by the spec, RUNTIME_VERSION stands for *)
(* them).                                                                  *)
BoolOperationNames   == {"BOOL_AND", "BOOL_OR"}
CmpTypeSTRNames      == {"EXACT", "PREFIX", "SUFFIX", "CONTAINS"}
CmpTypeNUMNames      == {"EQ", "LT", "LE", "GT", "GE"}
StringEvaluatorNames == {"RUNTIME_LANGUAGE", "PROCESS_EXE_FULL_PATH",
                         "RUNTIME_ENTRY_POINT_CLASS", "RUNTIME_ENTRY_POINT_FILE"}
NumEvaluatorNames    == {"RUNTIME_VERSION"}
ActionIdNames        == {"INJECT_ALLOW", "INJECT_DENY"}

(* json.Unmarshal of an evaluator payload into its <Member>JSON struct:   *)
(* the UnmarshalJSON of its id and cmp enums fails on an unknown name.    *)
PayloadEnumsKnown(n) ==
  CASE n.eval_type = "StrEvaluator" ->
         n.eval.id \in StringEvaluatorNames /\ n.eval.cmp \in CmpTypeSTRNames
    [] n.eval_type \in {"NumEvaluator", "UNumEvaluator"} ->
         n.eval.id \in NumEvaluatorNames /\ n.eval.cmp \in CmpTypeNUMNames
    [] OTHER -> TRUE

(* The generated NodeTypeWrapperJSON.DecodeNode: succeeds only for a  *)
(* tag that is a member of the union in the schema, and unmarshals the    *)
(* payload, so a composite's op must be a BoolOperation name.             *)
DecodeNode(n) ==
  /\ n.node_type \in NodeUnionMembers
  /\ n.node_type = "CompositeNode" => n.op \in BoolOperationNames

(* The generated EvaluatorNodeJSON.DecodeEval.                         *)
DecodeEval(n) == n.eval_type \in EvalUnionMembers /\ PayloadEnumsKnown(n)

(* json.Unmarshal of the whole document: the actions are no union        *)
(* payload, so an unknown ActionId name fails it before any encoding.     *)
ActionsKnown(doc) ==
  \A i \in DOMAIN doc.policies :
    \A j \in DOMAIN doc.policies[i].actions : doc.policies[i].actions[j].action \in ActionIdNames

(* The nodes of a tree, the root included.                                *)
RECURSIVE SubNodes(_)
SubNodes(n) ==
  {n} \cup IF n.node_type = "CompositeNode" /\ "children" \in DOMAIN n
            THEN UNION {SubNodes(n.children[i]) : i \in DOMAIN n.children}
            ELSE {}

(* The nodes of every rule tree of a document.                            *)
DocNodes(doc) ==
  UNION {SubNodes(doc.policies[i].rules) : i \in DOMAIN doc.policies}
=============================================================================
