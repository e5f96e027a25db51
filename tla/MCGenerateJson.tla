---------------------------- MODULE MCGenerateJson ----------------------------
(***************************************************************************)
(* Schemas for generate_json.go, and the .fbs lines they are written as.   *)
(* The schema has the shape of the policy schema: two unions (Eval, Node), *)
(* tables that use them, vectors of tables, and enums, one of them        *)
(* declared in both files and one used in a.fbs but declared in b.fbs.    *)
(* A union is written down inline, as a block with "}" on its own line,   *)
(* or as a block whose last member shares the "}" line; a field is plain  *)
(* or carries a default value.                                            *)
(***************************************************************************)
EXTENDS GenerateJson

Line(k, name, text, close) ==
  [k |-> k, name |-> name, text |-> text, close |-> close, inline |-> FALSE,
   inside |-> <<>>, plain |-> FALSE, type |-> [base |-> "", array |-> FALSE]]

CloseLine == Line("close", "", "}", TRUE)
Blank == Line("text", "", "", FALSE)

EnumLines(d) ==
  <<Line("enum", d.name, "enum " \o d.name \o " : byte {", FALSE),
    Line("text", "", "Value", FALSE), CloseLine>>

MemberLines(ms) == [j \in DOMAIN ms |-> Line("text", "", ms[j], FALSE)]

UnionLines(d) ==
  LET head == Line("union", d.name, "union " \o d.name \o " {", FALSE)
  IN  CASE d.layout = "inline" ->
             <<[head EXCEPT !.close = TRUE, !.inline = TRUE, !.inside = d.members]>>
        [] d.layout = "block" -> <<head>> \o MemberLines(d.members) \o <<CloseLine>>
        [] d.layout = "closeLine" ->
             <<head>> \o MemberLines(Front(d.members))
               \o <<Line("text", "", Last(d.members) \o " }", TRUE)>>

FieldLine(f) ==
  [Line("field", f.name, f.name \o ": " \o f.base \o ";", FALSE) EXCEPT
     !.plain = (f.form = "plain"), !.type = [base |-> f.base, array |-> f.array]]

TableLines(d) ==
  <<Line("table", d.name, "table " \o d.name \o " {", FALSE)>>
    \o [j \in DOMAIN d.fields |-> FieldLine(d.fields[j])] \o <<CloseLine>>

DeclLines(d) ==
  (CASE d.k = "enum" -> EnumLines(d) [] d.k = "union" -> UnionLines(d)
     [] d.k = "table" -> TableLines(d)) \o <<Blank>>

Render(schema) == [i \in DOMAIN schema |-> FlattenSeq([j \in DOMAIN schema[i] |-> DeclLines(schema[i][j])])]

F(name, base, array, form) == [name |-> name, base |-> base, array |-> array, form |-> form]

(* a.fbs and b.fbs, in Glob order; CompositeNode.children a vector of   *)
(* `children`.                                                            *)
Schema(evalLayout, nodeLayout, valueForm, children) ==
  << << [k |-> "union", name |-> "Eval", members |-> <<"StrEvaluator", "NumEvaluator">>,
         layout |-> evalLayout],
        [k |-> "table", name |-> "EvaluatorNode",
         fields |-> <<F("eval", "Eval", FALSE, "plain"), F("id", "StringEvaluators", FALSE, "plain")>>],
        [k |-> "table", name |-> "CompositeNode",
         fields |-> <<F("children", children, TRUE, "plain"), F("op", "BoolOperation", FALSE, "plain")>>],
        [k |-> "enum", name |-> "BoolOperation"] >>,
     << [k |-> "enum", name |-> "StringEvaluators"],
        [k |-> "enum", name |-> "BoolOperation"],
        [k |-> "table", name |-> "NumEvaluator",
         fields |-> <<F("value", "float", FALSE, valueForm), F("tags", "string", TRUE, "plain")>>],
        [k |-> "table", name |-> "NodeTypeWrapper", fields |-> <<F("node", "Node", FALSE, "plain")>>],
        [k |-> "union", name |-> "Node", members |-> <<"EvaluatorNode", "CompositeNode">>,
         layout |-> nodeLayout] >> >>

In(schema) == [files |-> Render(schema), schema |-> schema]

(* The ways of writing the schema the generator reads correctly.          *)
MCInputs ==
  {In(Schema(e, n, "plain", "NodeTypeWrapper")) : e, n \in {"inline", "block"}}

(* One input, for the runs where I/O calls fail.                          *)
MCFaultInputs == {In(Schema("block", "inline", "plain", "NodeTypeWrapper"))}

(* Eval's last member on the line of its closing brace, and             *)
(* NumEvaluator.value written with a default value, `value: float = 0;`, *)
(* and CompositeNode.children a vector of the Node union itself,         *)
(* `children: [Node];`, rather than of the NodeTypeWrapper table.         *)
MCLayoutInputs == {In(Schema("closeLine", "block", "default", "Node"))}
=============================================================================
