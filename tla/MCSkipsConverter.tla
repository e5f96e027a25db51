--------------------------- MODULE MCSkipsConverter ---------------------------
(***************************************************************************)
(* Model-checking instance of SkipsConverter: the skips documents the      *)
(* program is run on.                                                      *)
(***************************************************************************)
EXTENDS SkipsConverter, SequencesExt

PathValue(vt, cs, v) == [value_type |-> vt, cmp_strategy |-> cs, value |-> v]

PV1 == PathValue("class", "prefix", "v1")
PV2 == PathValue("bogus", "bogus", "v2")

Condition(vs) == [values |-> vs]

SkipsPolicy(skip, runtime, conds) ==
  [skip |-> skip, runtime |-> runtime, conditions |-> conds]

Doc(ps) == [policies |-> ps]

(* Every name of a subject and of a comparator, known and unknown.        *)
MappingDocs ==
  {Doc(<<SkipsPolicy(FALSE, "all", <<Condition(<<PathValue(vt, cs, "v1")>>)>>)>>) :
     vt \in {"exe_full_path", "class", "entry_file", "bogus"},
     cs \in {"prefix", "suffix", "contains", "equals", "bogus"}}

(* One or two conditions of one or two values, in both orders, with and  *)
(* without the runtime rule ("jvm" is no runtime the converter knows).    *)
Conds == {Condition(<<PV1>>), Condition(<<PV2>>), Condition(<<PV1, PV2>>)}

ShapeDocs ==
  {Doc(<<SkipsPolicy(skip, rt, cs)>>) :
     skip \in BOOLEAN, rt \in {"all", "java", "jvm"},
     cs \in BoundedSeq(Conds, 2) \ {<<>>}}

(* Two policies, and a second policy without conditions that fails the   *)
(* run after the first was converted.                                     *)
First == SkipsPolicy(TRUE, "java", <<Condition(<<PV1>>)>>)

TwoPolicyDocs ==
  {Doc(<<First, SkipsPolicy(FALSE, "all", <<Condition(<<PV2>>), Condition(<<PV1, PV2>>)>>)>>),
   Doc(<<First, SkipsPolicy(FALSE, "all", <<>>)>>)}

Empty == Condition(<<>>)

(* Empty conditions converted, skipped or kept as 0, in a run that a     *)
(* later policy without conditions fails anyway.                          *)
FailingDocs ==
  {Doc(<<SkipsPolicy(FALSE, rt, cs), SkipsPolicy(TRUE, "all", <<>>)>>) :
     rt \in {"all", "java"}, cs \in {<<Empty>>, <<Empty, Condition(<<PV1>>)>>}}

GoodDocs ==
  {Malformed, Doc(<<>>), Doc(<<SkipsPolicy(TRUE, "all", <<>>)>>)}
  \cup MappingDocs \cup ShapeDocs \cup TwoPolicyDocs \cup FailingDocs

(* The only condition has no values.                                      *)
SingleEmptyDocs ==
  {Doc(<<SkipsPolicy(skip, "all", <<Empty>>)>>) : skip \in BOOLEAN}

(* A condition with no values among several.                              *)
EmptyAmongDocs ==
  {Doc(<<SkipsPolicy(FALSE, rt, cs)>>) :
     rt \in {"all", "java"},
     cs \in {<<Empty, Condition(<<PV1>>)>>, <<Condition(<<PV1>>), Empty>>, <<Empty, Empty>>}}
=============================================================================
