--------------------------- MODULE MCPolicyCompiler ---------------------------
(***************************************************************************)
(* Model-checking instance of PolicyCompiler: the documents the command    *)
(* is run on.  Every kind of node and evaluator appears, known and        *)
(* unknown, with unknown enum names in a payload, an operator and an      *)
(* action, at the root, as a child and as a grandchild, with composites  *)
(* of 0 to 3 children in every order, a tree of depth 4, policies with   *)
(* and without actions, documents of two and three policies and a         *)
(* malformed input.                                                       *)
(***************************************************************************)
EXTENDS PolicyCompiler, SequencesExt

CONSTANT
  NoneChildren  (* whether NONE-tagged nodes occur below a composite      *)

StrLeaf  == Evaluator("StrEvaluator", "RUNTIME_LANGUAGE", "EXACT", "jvm")
NumLeaf  == Evaluator("NumEvaluator", "RUNTIME_VERSION", "GE", 11)
UNumLeaf == Evaluator("UNumEvaluator", "RUNTIME_VERSION", "LT", 17)
NoneEval == Evaluator("NONE", "RUNTIME_LANGUAGE", "EXACT", "jvm")
BadEval  == Evaluator("bogus", "RUNTIME_LANGUAGE", "EXACT", "jvm")
NoneNode == Tagged("NONE")
BadNode  == Tagged("bogus")
BadCmp   == Evaluator("NumEvaluator", "RUNTIME_VERSION", "bogus", 11)

Leaves == {StrLeaf, NumLeaf, UNumLeaf, NoneEval, BadEval, NoneNode, BadNode, BadCmp}

ChildLeaves == IF NoneChildren THEN Leaves ELSE Leaves \ {NoneNode}

(* Composites of up to two leaves, and of a composite and a leaf.        *)
Flat == {Composite(op, s) : op \in {"BOOL_AND", "BOOL_OR"}, s \in BoundedSeq(ChildLeaves, 2)}
Nested == {Composite("BOOL_AND", s) :
             s \in {<<c, l>> : c \in {Composite("BOOL_OR", <<StrLeaf, NumLeaf>>),
                                      Composite("BOOL_OR", <<StrLeaf, BadNode>>)},
                               l \in ChildLeaves}}

(* Three children, where a bad one may follow two written siblings, and *)
(* a tree of depth 4.                                                     *)
Wide == {Composite(op, <<a, b, c>>) :
           op \in {"BOOL_AND", "BOOL_OR"}, a, b, c \in {StrLeaf, NumLeaf, NoneEval, BadNode}}
Deep == {Composite("BOOL_AND", <<Composite("BOOL_OR", <<Composite("BOOL_AND", <<StrLeaf, l>>), NumLeaf>>),
                                 UNumLeaf>>) : l \in {NumLeaf, BadEval}}

Rules == Leaves \cup Flat \cup Nested \cup {Composite("bogus", <<StrLeaf>>)}

Deny == [action |-> "INJECT_DENY", values |-> <<"v1", "v2">>]
Allow == [action |-> "INJECT_ALLOW", values |-> <<>>]
BadAction == [action |-> "bogus", values |-> <<>>]

Policy(r, as) == [rules |-> r, actions |-> as]

MCDocs ==
  {Malformed, [policies |-> <<>>]}
  \cup {[policies |-> <<Policy(r, as)>>] : r \in Rules, as \in {<<>>, <<Deny>>}}
  \cup {[policies |-> <<Policy(StrLeaf, <<Deny>>), Policy(r, <<Allow, BadAction>>)>>] :
          r \in {StrLeaf, BadNode}}
  \cup {[policies |-> <<Policy(r1, <<Deny>>), Policy(r2, <<Allow, Deny>>)>>] :
          r1, r2 \in {StrLeaf, NoneNode, BadNode, Composite("BOOL_OR", <<NumLeaf, UNumLeaf>>)}}
  \cup {[policies |-> <<Policy(r, <<Deny>>)>>] : r \in Wide \cup Deep}
  \cup {[policies |-> <<Policy(r1, <<Deny>>), Policy(r2, <<>>), Policy(r3, <<Allow>>)>>] :
          r1, r2, r3 \in {StrLeaf, BadNode, Composite("BOOL_OR", <<NumLeaf, UNumLeaf>>)}}
=============================================================================
