----------------------------- MODULE PolicySchema ---------------------------
(***************************************************************************)
(* The schema package (go/schema/Creators.go): one creator per table of    *)
(* the wls schema.  Each creator first writes every string and vector its  *)
(* table refers to, then Start/Add/End the table, and returns the table's  *)
(* offset, which is Offset of the builder it returns.                      *)
(*                                                                         *)
(* The second half is the paired reader: how a consumer of the buffer     *)
(* reads the rule trees back, following offsets from the root.  It is the *)
(* reference the round-trip properties compare the input with.            *)
(***************************************************************************)
EXTENDS FlatBuffersBuilder, SequencesExt

CONSTANTS
  Absent,   (* a reference field that was not written: no node            *)
  Corrupt   (* a reference that designates no table of the expected type  *)

(* A description string; its content is abstracted away.                  *)
Desc == "description"

slicesToFBStrings(b, values) ==
  FoldLeft(LAMBDA acc, v : CreateString(acc, v), b, values)

ActionCreate(b, action, description, values) ==
  LET b1   == CreateString(b, description)
      strs == [i \in DOMAIN values |-> Offset(b1) + i]
      b2   == CreateVectorOfTables(slicesToFBStrings(b1, values), strs)
  IN  BuildTable(b2, "Action", [action |-> action],
                 [description |-> Offset(b1), values |-> Offset(b2)])

StrEvaluatorCreate(b, evaluator, value, cmp) ==
  LET b1 == CreateString(b, value)
  IN  BuildTable(b1, "StrEvaluator", [cmp |-> cmp, id |-> evaluator],
                 [value |-> Offset(b1)])

NumEvaluatorCreate(b, evaluator, value, cmp) ==
  BuildTable(b, "NumEvaluator", [cmp |-> cmp, id |-> evaluator, value |-> value], <<>>)

UNumEvaluatorCreate(b, evaluator, value, cmp) ==
  BuildTable(b, "UNumEvaluator", [cmp |-> cmp, id |-> evaluator, value |-> value], <<>>)

EvaluatorNodeCreate(b, evaluatorType, description, evalOffset) ==
  LET b1 == CreateString(b, description)
  IN  BuildTable(b1, "EvaluatorNode", [eval_type |-> evaluatorType],
                 [description |-> Offset(b1), eval |-> evalOffset])

(* Variant: the description string created after CompositeNodeStart.     *)
CompositeNodeCreateLateString(b, oper, description, nodes) ==
  LET b1 == CreateVectorOfTables(b, nodes)
      b2 == CreateString(StartObject(b1), description)
  IN  EndObject(b2, "CompositeNode")

CompositeNodeCreate(b, oper, description, nodes) ==
  LET b1 == CreateString(b, description)
      b2 == CreateVectorOfTables(b1, nodes)
  IN  BuildTable(b2, "CompositeNode", [op |-> oper],
                 [description |-> Offset(b1), children |-> Offset(b2)])

NodeTypeWrapperCreate(b, nodeOffset, nodeType) ==
  BuildTable(b, "NodeTypeWrapper", [node_type |-> nodeType], [node |-> nodeOffset])

PolicyCreate(b, description, rulesRoot, actions) ==
  LET b1 == CreateString(b, description)
      b2 == CreateVectorOfTables(b1, actions)
  IN  BuildTable(b2, "Policy", <<>>,
                 [description |-> Offset(b1), rules |-> rulesRoot, actions |-> Offset(b2)])

PoliciesCreate(b, policies) ==
  LET b1 == CreateVectorOfTables(b, policies)
  IN  BuildTable(b1, "Policies", <<>>, [policies |-> Offset(b1)])

---------------------------------------------------------------------------
(* The paired reader.                                                     *)

(* The object an offset designates; 0 (a vector element written as 0)    *)
(* designates the end of the buffer, where there is no object.            *)
Object(b, off) ==
  IF off \in 1..Offset(b) THEN b.objs[off] ELSE [kind |-> "none"]

IsTable(o, type) == o.kind = "table" /\ o.type = type

(* The offset a reference field holds; an omitted field reads as 0.       *)
Field(t, name) ==
  IF t.kind = "table" /\ name \in DOMAIN t.refs THEN t.refs[name] ELSE 0

Elems(b, t, name) ==
  LET v == Object(b, Field(t, name))
  IN  IF v.kind = "vector" THEN v.elems ELSE <<>>

ReadEval(b, et, off) ==
  LET t == Object(b, off)
  IN  CASE off = 0 -> Absent
        [] IsTable(t, et) /\ et = "StrEvaluator" ->
             [id |-> t.vals.id, cmp |-> t.vals.cmp,
              value |-> Object(b, Field(t, "value")).val]
        [] IsTable(t, et) -> [id |-> t.vals.id, cmp |-> t.vals.cmp, value |-> t.vals.value]
        [] OTHER -> Corrupt

(* The rule tree at each offset, as the IR it was built from: a recursive *)
(* function over the offsets (a child is always written before its parent).*)
ReadNodes(b) ==
  LET tree[off \in 0..Offset(b)] ==
        LET w == Object(b, off)
            n == Object(b, Field(w, "node"))
            kids == Elems(b, n, "children")
        IN  CASE ~IsTable(w, "NodeTypeWrapper") -> Corrupt
              [] w.vals.node_type = "EvaluatorNode" /\ IsTable(n, "EvaluatorNode") ->
                   [node_type |-> "EvaluatorNode", eval_type |-> n.vals.eval_type,
                    eval |-> ReadEval(b, n.vals.eval_type, Field(n, "eval"))]
              [] w.vals.node_type = "CompositeNode" /\ IsTable(n, "CompositeNode") ->
                   [node_type |-> "CompositeNode", op |-> n.vals.op,
                    children |-> [i \in DOMAIN kids |-> tree[kids[i]]]]
              [] OTHER -> Corrupt
  IN  tree

ReadAction(b, a) ==
  LET t == Object(b, a)
      vs == Elems(b, t, "values")
  IN  IF ~IsTable(t, "Action") THEN Corrupt
      ELSE [action |-> t.vals.action, values |-> [i \in DOMAIN vs |-> Object(b, vs[i]).val]]

(* The policy set a finished buffer holds, read from its root; a policy's *)
(* rules field that was not written reads as absent.                      *)
ReadPolicies(b) ==
  LET ps == Elems(b, Object(b, b.root), "policies")
      tree == ReadNodes(b)
  IN  [i \in DOMAIN ps |->
         LET p == Object(b, ps[i])
             as == Elems(b, p, "actions")
         IN  IF ~IsTable(p, "Policy") THEN Corrupt
             ELSE [rules |-> IF Field(p, "rules") = 0 THEN Absent ELSE tree[Field(p, "rules")],
                   actions |-> [j \in DOMAIN as |-> ReadAction(b, as[j])]]]
=============================================================================
