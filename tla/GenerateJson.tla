----------------------------- MODULE GenerateJson -----------------------------
(***************************************************************************)
(* tools/generate_json.go: reads the .fbs schema files and writes the Go  *)
(* JSON types the compiler decodes into (wls.*JSON, their Decode<Field>   *)
(* methods and the enum UnmarshalJSON functions).                          *)
(*                                                                         *)
(* main makes two passes over the files in Glob order: findEnumsAndUnions *)
(* fills the global enumTypes, enumList and unionDefs; processFile then   *)
(* emits a struct for each table, with two fields and a Decode method for *)
(* each union-typed field.  Each pass scans a file line by line, so a step *)
(* of the model is one scanned line.                                      *)
(*                                                                         *)
(* A line is abstracted to what the regular expressions and the string    *)
(* tests of the code see in it, after strings.TrimSpace:                   *)
(*   k      "enum" (reEnum: `enum E :`), "union" (reUnionStart: `union U`),*)
(*          "table" (reStruct: `table T {` or `struct T {`), "field",      *)
(*          "close"                                                       *)
(*          (the line is exactly "}") or "text" (anything else);          *)
(*   name   the captured name;                                            *)
(*   close  the line contains "}";  inline  it contains "{" and "}";      *)
(*   inside the comma-separated, trimmed pieces between the braces;       *)
(*   text   the line after TrimSuffix(",") and TrimSpace;                 *)
(*   plain  a field line matches reField, `name: type;` with no default   *)
(*          value and no attribute; its type is [base, array].            *)
(* The generated code is the sequence of items it consists of; spelling  *)
(* and layout of the Go text are left out.                                *)
(***************************************************************************)
EXTENDS Naturals, Sequences, SequencesExt, TLC

CONSTANTS
  Inputs,   (* records [files, schema]: the .fbs files as line sequences, *)
            (* and the schema they were written from                      *)
  IOFaults  (* the I/O failures the run allows, a subset of               *)
            (* {"open", "read", "create", "short"}                        *)

VARIABLES
  input,      (* the files and the schema                                  *)
  pass,       (* "scan" (findEnumsAndUnions), "process", "written"        *)
  fi, li,     (* the file and the line being scanned                      *)
  scan,       (* findEnumsAndUnions' locals: inUnion, unionName, fields  *)
  proc,       (* processFile's locals: inStruct, structName,              *)
              (* currentStruct, decodeMethods, output                     *)
  enumTypes, enumList, unionDefs,   (* the globals of the first pass      *)
  allStructs, (* main's allStructs                                        *)
  out,        (* the items written to json.go                             *)
  errs,       (* the <<pass, file>> main printed an error for             *)
  faulted     (* an I/O call has failed in this run (history)             *)

vars == <<input, pass, fi, li, scan, proc, enumTypes, enumList, unionDefs,
          allStructs, out, errs, faulted>>

Files == input.files
Cur == Files[fi][li]

NoScan == [inUnion |-> FALSE, unionName |-> "", unionFields |-> <<>>]
NoProc == [inStruct |-> FALSE, structName |-> "", currentStruct |-> <<>>,
           decodeMethods |-> <<>>, output |-> <<>>]

(* The typeMap of base FlatBuffers types.                                 *)
typeMap ==
  ("string" :> "string") @@ ("int" :> "int") @@ ("float" :> "float32")
  @@ ("bool" :> "bool") @@ ("ulong" :> "uint64") @@ ("long" :> "int64")

(* convertType: base types by typeMap, enums by their own name, tables    *)
(* with the JSON suffix; "[]" for a vector.  (Its union branch and the    *)
(* "array of unions" panic are unreachable: processFile sends union-typed *)
(* fields down its own branch before calling convertType.)                *)
convertType(t) ==
  LET goType == CASE t.base \in DOMAIN typeMap -> typeMap[t.base]
                  [] t.base \in enumTypes     -> t.base
                  [] OTHER                    -> t.base \o "JSON"
  IN  IF t.array THEN "[]" \o goType ELSE goType

---------------------------------------------------------------------------
(* findEnumsAndUnions, one scanned line each.                             *)

ScanLine == pass = "scan" /\ fi <= Len(Files) /\ li <= Len(Files[fi])

Scanned(s) == scan' = s /\ li' = li + 1

(* Variant: an enum recorded again when a second file declares it.       *)
ScanEnumNoDedup ==
  /\ ScanLine /\ ~scan.inUnion /\ Cur.k = "enum"
  /\ enumTypes' = enumTypes \cup {Cur.name}
  /\ enumList' = Append(enumList, Cur.name)
  /\ Scanned(scan)
  /\ UNCHANGED <<input, pass, fi, proc, unionDefs, allStructs, out, errs, faulted>>

(* An enum, recorded once however many files declare it.                  *)
ScanEnum ==
  /\ ScanLine /\ ~scan.inUnion /\ Cur.k = "enum"
  /\ enumTypes' = enumTypes \cup {Cur.name}
  /\ enumList' = IF Cur.name \in enumTypes THEN enumList ELSE Append(enumList, Cur.name)
  /\ Scanned(scan)
  /\ UNCHANGED <<input, pass, fi, proc, unionDefs, allStructs, out, errs, faulted>>

(* `union U { A, B }` on one line: the non-empty pieces are the members.  *)
ScanUnionInline ==
  /\ ScanLine /\ ~scan.inUnion /\ Cur.k = "union" /\ Cur.inline
  /\ unionDefs' = (Cur.name :> SelectSeq(Cur.inside, LAMBDA m : m # "")) @@ unionDefs
  /\ Scanned(scan)
  /\ UNCHANGED <<input, pass, fi, proc, enumTypes, enumList, allStructs, out, errs, faulted>>

(* `union U {` (or `union U`): a multi-line block starts.                 *)
ScanUnionStart ==
  /\ ScanLine /\ ~scan.inUnion /\ Cur.k = "union" /\ ~Cur.inline
  /\ Scanned([inUnion |-> TRUE, unionName |-> Cur.name, unionFields |-> <<>>])
  /\ UNCHANGED <<input, pass, fi, proc, enumTypes, enumList, unionDefs, allStructs, out, errs, faulted>>

(* Any line outside a union that is neither an enum nor a union start.   *)
ScanOther ==
  /\ ScanLine /\ ~scan.inUnion /\ Cur.k \notin {"enum", "union"}
  /\ Scanned(scan)
  /\ UNCHANGED <<input, pass, fi, proc, enumTypes, enumList, unionDefs, allStructs, out, errs, faulted>>

(* Inside a block, any line containing "}" ends the union.                *)
ScanUnionEnd ==
  /\ ScanLine /\ scan.inUnion /\ Cur.close
  /\ unionDefs' = (scan.unionName :> scan.unionFields) @@ unionDefs
  /\ Scanned(NoScan)
  /\ UNCHANGED <<input, pass, fi, proc, enumTypes, enumList, allStructs, out, errs, faulted>>

(* Any other line in the block is a member, unless it is empty.           *)
ScanUnionMember ==
  /\ ScanLine /\ scan.inUnion /\ ~Cur.close
  /\ Scanned(IF Cur.text = "" THEN scan
             ELSE [scan EXCEPT !.unionFields = Append(@, Cur.text)])
  /\ UNCHANGED <<input, pass, fi, proc, enumTypes, enumList, unionDefs, allStructs, out, errs, faulted>>

(* On to the next file, or to the second pass after the last one.        *)
NextScanFile ==
  /\ IF fi < Len(Files) THEN fi' = fi + 1 /\ pass' = "scan"
     ELSE fi' = 1 /\ pass' = "process"
  /\ li' = 1 /\ scan' = NoScan

(* End of a file: its locals are gone (an unclosed union is lost).        *)
ScanFileEnd ==
  /\ pass = "scan" /\ fi <= Len(Files) /\ li > Len(Files[fi])
  /\ NextScanFile
  /\ UNCHANGED <<input, proc, enumTypes, enumList, unionDefs, allStructs, out, errs, faulted>>

(* os.Open fails, or the scanner stops on a read error (scanner.Err()):   *)
(* the error is returned and main prints it and goes on with the next    *)
(* file.  What the lines already scanned put in the globals stays.        *)
ScanFailed ==
  /\ pass = "scan" /\ fi <= Len(Files)
  /\ \/ li = 1 /\ "open" \in IOFaults
     \/ ScanLine /\ "read" \in IOFaults
  /\ NextScanFile
  /\ errs' = errs \cup {<<"scan", fi>>} /\ faulted' = TRUE
  /\ UNCHANGED <<input, proc, enumTypes, enumList, unionDefs, allStructs, out>>

---------------------------------------------------------------------------
(* processFile, one scanned line each.                                    *)

ProcLine == pass = "process" /\ fi <= Len(Files) /\ li <= Len(Files[fi])

Processed(p) == proc' = p /\ li' = li + 1

ProcUnchanged == UNCHANGED <<input, pass, fi, scan, enumTypes, enumList, unionDefs, allStructs, out, errs, faulted>>

(* `table T {` or `struct T {`: a new struct, whatever was open before.   *)
StructStart ==
  /\ ProcLine /\ Cur.k = "table"
  /\ Processed([proc EXCEPT !.inStruct = TRUE, !.structName = Cur.name,
                            !.currentStruct = <<>>, !.decodeMethods = <<>>])
  /\ ProcUnchanged

(* A line that is exactly "}": the struct, then its Decode methods.       *)
StructEnd ==
  /\ ProcLine /\ Cur.k = "close" /\ proc.inStruct
  /\ Processed([proc EXCEPT !.inStruct = FALSE,
                  !.output = @ \o <<[item |-> "struct", name |-> proc.structName,
                                     fields |-> proc.currentStruct]>>
                               \o proc.decodeMethods])
  /\ ProcUnchanged

(* A union-typed field: <Field>Type string and <Field> json.RawMessage,   *)
(* and Decode<Field> with a case for each member of the union.            *)
FieldUnion ==
  /\ ProcLine /\ proc.inStruct /\ Cur.k = "field" /\ Cur.plain
  /\ Cur.type.base \in DOMAIN unionDefs
  /\ Processed([proc EXCEPT
       !.currentStruct = @ \o <<[field |-> Cur.name, role |-> "type", go |-> "string"],
                                [field |-> Cur.name, role |-> "value", go |-> "json.RawMessage"]>>,
       !.decodeMethods = Append(@, [item |-> "decode", name |-> proc.structName,
                                    field |-> Cur.name,
                                    members |-> unionDefs[Cur.type.base]])])
  /\ ProcUnchanged

(* Any other field, typed by convertType.                                 *)
FieldNormal ==
  /\ ProcLine /\ proc.inStruct /\ Cur.k = "field" /\ Cur.plain
  /\ Cur.type.base \notin DOMAIN unionDefs
  /\ Processed([proc EXCEPT !.currentStruct =
       Append(@, [field |-> Cur.name, role |-> "plain", go |-> convertType(Cur.type)])])
  /\ ProcUnchanged

(* Every other line: outside a struct, or inside one but neither "}" nor *)
(* a field the regular expression matches.                                *)
ProcOther ==
  /\ ProcLine /\ Cur.k # "table"
  /\ (~proc.inStruct \/ (Cur.k # "close" /\ ~(Cur.k = "field" /\ Cur.plain)))
  /\ Processed(proc)
  /\ ProcUnchanged

NextProcFile == fi' = fi + 1 /\ li' = 1 /\ proc' = NoProc

(* End of a file: main appends its output to allStructs.                  *)
ProcFileEnd ==
  /\ pass = "process" /\ fi <= Len(Files) /\ li > Len(Files[fi])
  /\ allStructs' = allStructs \o proc.output
  /\ NextProcFile
  /\ UNCHANGED <<input, pass, scan, enumTypes, enumList, unionDefs, out, errs, faulted>>

(* os.Open fails: processFile returns the error, main prints it and      *)
(* skips the file.                                                        *)
ProcOpenFailed ==
  /\ pass = "process" /\ fi <= Len(Files) /\ li = 1 /\ "open" \in IOFaults
  /\ NextProcFile
  /\ errs' = errs \cup {<<"process", fi>>} /\ faulted' = TRUE
  /\ UNCHANGED <<input, pass, scan, enumTypes, enumList, unionDefs, allStructs, out>>

(* The scanner stops on a read error.  processFile never asks             *)
(* scanner.Err(): it returns the output so far with a nil error, and main *)
(* appends it as if the file had ended there.                             *)
ProcReadFailed ==
  /\ ProcLine /\ "read" \in IOFaults
  /\ allStructs' = allStructs \o proc.output
  /\ NextProcFile
  /\ faulted' = TRUE
  /\ UNCHANGED <<input, pass, scan, enumTypes, enumList, unionDefs, out, errs>>

---------------------------------------------------------------------------
(* generateEnumUnmarshalFuncs: one UnmarshalJSON per enum of enumList.     *)
generateEnumUnmarshalFuncs ==
  [k \in DOMAIN enumList |-> [item |-> "enum", name |-> enumList[k]]]

(* main, after the passes: the structs, then the enum functions, written  *)
(* to json.go.                                                            *)
Write ==
  /\ pass = "process" /\ fi > Len(Files)
  /\ out' = allStructs \o generateEnumUnmarshalFuncs
  /\ pass' = "written"
  /\ UNCHANGED <<input, fi, li, scan, proc, enumTypes, enumList, unionDefs, allStructs, errs, faulted>>

(* os.Create fails: main panics and json.go is not written.               *)
WriteCreateFailed ==
  /\ pass = "process" /\ fi > Len(Files) /\ "create" \in IOFaults
  /\ pass' = "panicked" /\ faulted' = TRUE
  /\ UNCHANGED <<input, fi, li, scan, proc, enumTypes, enumList, unionDefs, allStructs, out, errs>>

(* A Fprintln fails part way (a full disk): its error is ignored, the     *)
(* later lines fail too, and main still prints its success message; the   *)
(* file holds a prefix of the items.                                      *)
WriteShort ==
  /\ pass = "process" /\ fi > Len(Files) /\ "short" \in IOFaults
  /\ LET items == allStructs \o generateEnumUnmarshalFuncs
     IN  \E k \in 0..Len(items) - 1 : out' = SubSeq(items, 1, k)
  /\ pass' = "written" /\ faulted' = TRUE
  /\ UNCHANGED <<input, fi, li, scan, proc, enumTypes, enumList, unionDefs, allStructs, errs>>

Done == pass \in {"written", "panicked"} /\ UNCHANGED vars

Init ==
  /\ input \in Inputs
  /\ pass = "scan" /\ fi = 1 /\ li = 1
  /\ scan = NoScan /\ proc = NoProc
  /\ enumTypes = {} /\ enumList = <<>> /\ unionDefs = <<>>
  /\ allStructs = <<>> /\ out = <<>>
  /\ errs = {} /\ faulted = FALSE

Next ==
  \/ ScanEnum \/ ScanUnionInline \/ ScanUnionStart \/ ScanOther
  \/ ScanUnionEnd \/ ScanUnionMember \/ ScanFileEnd \/ ScanFailed
  \/ StructStart \/ StructEnd \/ FieldUnion \/ FieldNormal \/ ProcOther
  \/ ProcFileEnd \/ ProcOpenFailed \/ ProcReadFailed
  \/ Write \/ WriteCreateFailed \/ WriteShort \/ Done

Spec == Init /\ [][Next]_vars

---------------------------------------------------------------------------
(* The reference: what json.go should hold for a schema.  A schema is a   *)
(* sequence of files, each a sequence of declarations                     *)
(*   [k |-> "enum", name], [k |-> "union", name, members],                *)
(*   [k |-> "table", name, fields |-> << [name, base, array] ... >>]       *)
(* (the MC module also records how each was written down).               *)
Decls(schema) == FlattenSeq(schema)

DeclsOf(schema, kind) == SelectSeq(Decls(schema), LAMBDA d : d.k = kind)

(* The elements of s at their first occurrence, in order.                 *)
FirstOccurrences(s) ==
  LET keep == SelectSeq([k \in DOMAIN s |-> k],
                        LAMBDA k : \A j \in 1..k - 1 : s[j] # s[k])
  IN  [i \in DOMAIN keep |-> s[keep[i]]]

EnumNames(schema) ==
  FirstOccurrences([k \in DOMAIN DeclsOf(schema, "enum") |-> DeclsOf(schema, "enum")[k].name])

UnionNamed(schema, u) ==
  Last(SelectSeq(DeclsOf(schema, "union"), LAMBDA d : d.name = u))

IsUnion(schema, u) == \E k \in DOMAIN DeclsOf(schema, "union") : DeclsOf(schema, "union")[k].name = u

GoBase == [string |-> "string", int |-> "int", float |-> "float32", bool |-> "bool",
           ulong |-> "uint64", long |-> "int64"]

GoTypeOf(schema, f) ==
  (IF f.array THEN "[]" ELSE "")
    \o (IF f.base \in DOMAIN GoBase THEN GoBase[f.base]
        ELSE IF f.base \in Range(EnumNames(schema)) THEN f.base
        ELSE f.base \o "JSON")

ExpectedFields(schema, f) ==
  IF IsUnion(schema, f.base)
  THEN <<[field |-> f.name, role |-> "type", go |-> "string"],
         [field |-> f.name, role |-> "value", go |-> "json.RawMessage"]>>
  ELSE <<[field |-> f.name, role |-> "plain", go |-> GoTypeOf(schema, f)]>>

ExpectedTable(schema, t) ==
  LET unionFields == SelectSeq(t.fields, LAMBDA f : IsUnion(schema, f.base))
  IN  <<[item |-> "struct", name |-> t.name,
         fields |-> FlattenSeq([j \in DOMAIN t.fields |-> ExpectedFields(schema, t.fields[j])])]>>
      \o [j \in DOMAIN unionFields |->
            [item |-> "decode", name |-> t.name, field |-> unionFields[j].name,
             members |-> UnionNamed(schema, unionFields[j].base).members]]

Expected(schema) ==
  LET tables == DeclsOf(schema, "table")
  IN  FlattenSeq([j \in DOMAIN tables |-> ExpectedTable(schema, tables[j])])
      \o [k \in DOMAIN EnumNames(schema) |-> [item |-> "enum", name |-> EnumNames(schema)[k]]]

(* A table field that is a vector of a union, `children: [Node];`.       *)
HasUnionVector(schema) ==
  \E j \in DOMAIN DeclsOf(schema, "table") :
    \E f \in Range(DeclsOf(schema, "table")[j].fields) : f.array /\ IsUnion(schema, f.base)

(* When no I/O call fails, json.go holds, in schema order, one struct for *)
(* every table with every field of it (a union-typed one as its Type and  *)
(* value pair), a Decode method for every union field with a case for     *)
(* every member of the union, and one UnmarshalJSON for every enum however *)
(* many files declare it; and it is written only for a schema without a   *)
(* vector of unions, which convertType refuses ("array of unions not      *)
(* supported").  This needs the two passes of main (a table may use an    *)
(* enum or a union of a later file), the dedup of enumTypes, the          *)
(* union-end test and the regular expressions of processFile to agree     *)
(* with how the schema is written.                                        *)
GeneratedMatchesSchema ==
  pass = "written" /\ ~faulted =>
    /\ ~HasUnionVector(input.schema)
    /\ out = Expected(input.schema)

(* When main prints no error, json.go is complete: a failed open or read  *)
(* of an .fbs file, in either pass, is reported rather than leaving out   *)
(* the types of the rest of the file without a word.                      *)
SilentRunIsComplete == pass = "written" /\ errs = {} => out = Expected(input.schema)

=============================================================================
