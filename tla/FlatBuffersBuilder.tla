------------------------- MODULE FlatBuffersBuilder -------------------------
(***************************************************************************)
(* The append-only table builder every encoder of the policy engine writes *)
(* through (flatbuffers.Builder, spec section 6).  It is a library outside *)
(* this repository, so it is modelled from its contract, as a value that   *)
(* the encoders thread through their calls.                                *)
(*                                                                         *)
(* Abstraction: the byte buffer is the sequence objs of the objects        *)
(* written so far, and the offset the builder returns for an object is its *)
(* position in objs.  Like UOffsetT this grows with every object and is    *)
(* never 0 for a written object, so 0 stays free as the "absent" sentinel. *)
(* A reference to an object is an offset; a table field holding the       *)
(* default 0 is not written at all (PrependUOffsetTSlot), while a vector   *)
(* element 0 IS written, as a relative offset that designates the end of  *)
(* the buffer, which is no object.                                         *)
(*                                                                         *)
(* The builder panics (Go panic, never recovered by the callers) when an   *)
(* object is started while another is open (assertNotNested) or closed     *)
(* when none is open, and when a reference names an offset not yet        *)
(* written (PrependUOffsetT: off <= Offset()).                             *)
(***************************************************************************)
EXTENDS Naturals, Sequences, TLC

(* The builder of flatbuffers.NewBuilder: empty, nothing open.            *)
NewBuilder ==
  [objs |-> <<>>, nested |-> FALSE, refs |-> <<>>, vals |-> <<>>,
   panicked |-> FALSE, finished |-> FALSE, root |-> 0]

(* Offset(): the offset of the last object written.                       *)
Offset(b) == Len(b.objs)

Panic(b) == [b EXCEPT !.panicked = TRUE]

(* A reference the builder accepts: 0 or an object already written.       *)
Written(b, off) == off <= Offset(b)

Put(b, obj) == [b EXCEPT !.objs = Append(@, obj)]

(* CreateString: a string object; not allowed inside an open table.       *)
CreateString(b, s) ==
  IF b.nested THEN Panic(b)
  ELSE Put(b, [kind |-> "string", val |-> s])

(* CreateVectorOfTables: a vector of offsets, 0 elements included.        *)
CreateVectorOfTables(b, offs) ==
  IF b.nested \/ \E i \in DOMAIN offs : ~Written(b, offs[i]) THEN Panic(b)
  ELSE Put(b, [kind |-> "vector", elems |-> offs])

(* StartObject: open a table.                                             *)
StartObject(b) ==
  IF b.nested THEN Panic(b)
  ELSE [b EXCEPT !.nested = TRUE, !.refs = <<>>, !.vals = <<>>]

(* EndObject: close the open table and write it.                          *)
EndObject(b, type) ==
  IF ~b.nested THEN Panic(b)
  ELSE [Put(b, [kind |-> "table", type |-> type, refs |-> b.refs, vals |-> b.vals])
          EXCEPT !.nested = FALSE, !.refs = <<>>, !.vals = <<>>]

(* The generated <T>Start, <T>Add<Field>..., <T>End sequence of one     *)
(* table: the scalar fields vals and the reference fields refs.  A        *)
(* reference field holding 0 is omitted (PrependUOffsetTSlot with default *)
(* 0); any other must name an object already written.                     *)
BuildTable(b, type, vals, refs) ==
  LET open == StartObject(b)
      kept == {x \in DOMAIN refs : refs[x] # 0}
      full == IF \E x \in kept : ~Written(open, refs[x]) THEN Panic(open)
              ELSE [open EXCEPT !.vals = vals, !.refs = [x \in kept |-> refs[x]]]
  IN  EndObject(full, type)

(* Finish(root): write the root offset; FinishedBytes is then the buffer. *)
Finish(b, rootOff) ==
  IF b.nested \/ ~Written(b, rootOff) THEN Panic(b)
  ELSE [b EXCEPT !.finished = TRUE, !.root = rootOff]

(* Every reference held by an object.                                     *)
Refs(obj) ==
  CASE obj.kind = "vector" -> {obj.elems[i] : i \in DOMAIN obj.elems}
    [] obj.kind = "table"  -> {obj.refs[x] : x \in DOMAIN obj.refs}
    [] OTHER               -> {}
=============================================================================
