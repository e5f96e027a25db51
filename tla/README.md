# TLA+ models of the dd-policy-engine policy compiler

This directory holds the model-checking project for the Go part of the policy engine, which lives under
`src/shared/src/native-lib/dd-policy-engine/go/`. That code compiles JSON policy documents into a
FlatBuffers buffer. A native runtime, which is not part of this repository, then reads the buffer and
decides whether to allow or deny instrumentation injection.

## The system

| Part | Source | State | Operations |
|---|---|---|---|
| FlatBuffers builder | `github.com/google/flatbuffers/go` (external library) | the bytes written so far, whether a table is open, the fields of the open table, the root | `CreateString`, `CreateVectorOfTables`, `Start`/`Add`/`End` of a table, `Finish`, `FinishedBytes` |
| Schema creators | `schema/Creators.go` | none of its own (writes into the builder) | one `<Table>Create` per table of the wls schema |
| Policy IR and union decoding | the `wls.*JSON` types that `tools/generate_json.go` generates | the decoded JSON; union payloads stay `json.RawMessage` until `Decode<Field>` is called | `json.Unmarshal`, `DecodeNode`, `DecodeEval`, enum `UnmarshalJSON` |
| JSON type generator | `tools/generate_json.go` | the globals `enumTypes`, `enumList` and `unionDefs`; each pass's scanner locals; `allStructs` | `findEnumsAndUnions` (first pass), `processFile` (second pass), `convertType`, `generateEnumUnmarshalFuncs`, writing `json.go` |
| Compile command | `cmd/dd-compile-policy/main.go` | input string, builder, output file | `Compile`: usage check, unmarshal, encode, `Finish`, error check, `WriteFile` |
| Recursive encoder | `cmd/dd-compile-policy/policies.go` | the Go call stack, with the offsets collected in each frame | `Policies/Policy/Node/CompositeNode/EvaluatorNode/…FbsFromSchema`, `ActionsFbsFromSchema` |
| Skips converter (example) | `examples/example_json_to_hardcoded_injector_policies/` | builder, the loop over policies and conditions | `JSONPolicies/JSONPolicy/JSONCondition/JSONPathValue.ConvertToWLS`, `appendRuntimeRule`, `finalizePolicies` |
| Demo writers | `examples/example_writer`, `examples/example_generate_c_header_buffer` | a builder | fixed sequences of creator calls, then the buffer printed as a C header |
| Go HTTP test apps | `src/tracer/test/test-applications/golang/` | HTTP handlers | unrelated to policies |

How the parts interact:

- `Compile` unmarshals the whole document. Only the union payloads (`node`, `eval`) are left undecoded.
- The encoder walks the rule trees depth first. It decodes each union payload only when it reaches it.
  Each call writes its children first, then calls a creator for its own table, and returns that
  table's offset.
- Every creator writes its strings and vectors before it opens its table. The builder panics if an
  object is started inside an open table, or if a table refers to an offset not yet written.
- The encoder passes offset 0 for "absent": a NONE node, or a NONE evaluator. The builder omits a table
  field that holds 0. But a vector element that is 0 is still written, as a reference to the end of
  the buffer.
- The generator reads the `.fbs` schema files twice. The first pass collects the enums and unions of
  all files, and the second emits a struct for each table. So a table may use an enum or a union of a
  later file.
- The skips converter writes through the same creators. It builds its own tree shape: the runtime
  condition AND the OR of the conditions, where each condition is the OR of its path values.

### What is hard

- **Recursion through one shared builder.** Offsets from several levels of the call stack are
  interleaved in the buffer. The vectors must still keep the input order.
- **Two-phase decoding.** An unknown kind deep in the last policy fails the compile after everything
  before it has been written. `Finish` runs on that partial buffer before the error is checked.
- **The 0 sentinel.** It means "absent" in a table field and "end of buffer" in a vector.
- **Generated decoders.** They have a case only for the union members listed in the schema, and the
  implicit `NONE` member is never listed.
- **The generator's line matching.** It recognises the schema with line-based regular expressions,
  so how a declaration is laid out decides what gets generated.
- **The converter's error handling.** It ignores the error of a single condition and skips failing
  conditions among several. It also wraps groups of one, or of none, in a composite.

### Properties that make each part correct

- **Creators:** never panic the builder. Every reference names a table already written.
- **Encoder and Compile:**
  - *fail-fast*: the compile fails exactly on a document the spec rejects;
  - *round trip*: the buffer reads back as the document, with orders kept and absent nodes read as
    absent;
  - *no partial output*: nothing is written on error;
  - *termination*: a compile ends.
- **Converter:**
  - a policy with no usable conditions is an error, never an unconditional policy;
  - no condition is dropped silently;
  - groups of one are not wrapped (spec section 3);
  - the buffer has no dangling reference.
- **Generator:** when no I/O call fails, `json.go` holds every table with all its fields, a Decode
  method per union field with a case for every member, and one `UnmarshalJSON` per enum. It is
  written only for a schema without a vector of unions, which `convertType` refuses. When no error
  is printed, `json.go` is complete.
- **Demo writers:** every file left holding a buffer reads back as the policies its function
  meant, whatever file system call fails; a failed write may leave a truncated file.
- **C header:** the printed rows hold exactly the buffer's bytes. The `%12` boundaries must give
  no empty row and no trailing comma.

## Modules

Each module below is listed after the modules it uses.

| Module | Models | Uses |
|---|---|---|
| `FlatBuffersBuilder` | the builder contract (spec section 6), as a record value the encoder threads through its calls | — |
| `PolicySchema` | every creator of `Creators.go`, and a reader of finished buffers that the round-trip properties compare with | `FlatBuffersBuilder` |
| `PolicyIR` | JSON documents as records; `DecodeNode` and `DecodeEval` as the generator emits them, with the generated enum `UnmarshalJSON` (`PayloadEnumsKnown`, `ActionsKnown`) | — |
| `PolicyCompilation` | **abstract spec** of a compile: in one step, a document becomes `Failure` or the tree it must read back as. For a compilable document it may instead become `EnvFailure`, when the output cannot be written | `PolicyIR` |
| `PolicyCompiler` | `Compile` and the recursive encoder, with an explicit call stack | `PolicyIR`, `PolicySchema`; instances `PolicyCompilation` |
| `MCPolicyCompiler` | the documents the checks are run on | `PolicyCompiler` |
| `SkipsConverter` | the example converter: `main`, `ConvertToWLS` of policies, policy, condition and path value, `appendRuntimeRule`, `finalizePolicies` | `PolicyIR`, `PolicySchema`; instances `PolicyCompilation` |
| `MCSkipsConverter` | the skips documents the converter checks are run on | `SkipsConverter` |
| `DemoWriters` | the two demo mains, `example_writer` and `example_generate_c_header_buffer`, with the outcomes of their file system calls | `PolicySchema` |
| `CHeader` | `generateCHeader`, one step per byte, and a reference layout by rows | — |
| `GenerateJson` | `tools/generate_json.go`: both passes of `main`, one step per scanned line, and a reference `Expected(schema)` | — |
| `MCGenerateJson` | schemas and the `.fbs` lines they are written as | `GenerateJson` |
| `MCCHeader` | the byte slices the header check is run on | `CHeader` |

### How `PolicyCompiler` corresponds to the code

- Each Go call is a frame `[fn, pc, item, i, acc]` on `stack`.
  - `pc` is `"start"` before the frame's next call into the encoder, and `"await"` while the callee
    runs.
  - `i` is the loop index, and `acc` holds the offsets collected so far.
- A callee returns by popping its frame and leaving `[off, err]` in `ret`.
- An action is the stretch of a function body between two calls into the encoder. It includes every
  builder call on that stretch. For example:
  - `PolicyEnd` covers `ActionsFbsFromSchema` and `PolicyCreate`;
  - `EvaluatorEncode` covers the evaluator switch and `EvaluatorNodeCreate`.
- `PropagateError` covers every `if err != nil { return 0, err }` after a call.
- Enum names are checked where the generated code meets them:
  - An `ActionId` name is in the document itself, so an unknown one fails the first
    `json.Unmarshal` (`Unmarshals`, `UnmarshalFailed`).
  - A composite's operator, and an evaluator's subject and comparator, are inside union payloads.
    An unknown one fails `DecodeNode` or `DecodeEval` only when the encoder reaches that node.
  - The accepted names are the keys of the generated `EnumValues<Enum>` maps. That package is not in
    the repository, so the names come from spec section 3.
  - The abstract `Compilable` rejects the same names, so `RefinesCompilation` checks fail-fast for
    them too.
- `FinishFailed` and `FinishWritten` are the end of `Compile`: `Finish`, `FinishedBytes`, the error
  check, then `WriteFile`.
- `WriteFile` has an outcome `w` in `WriteOutcomes`:
  - `"ok"` writes the buffer;
  - `"open"` fails before writing and leaves the file as it was;
  - `"partial"` fails after a short write and leaves `Truncated`.

  A failed write makes `Compile` return the error, so the exit code (`ExitCode`) is 1.
- A builder panic sets `status` to `"panicked"`.
- The refinement mapping sends `result` to `Failure`, to the policies read back from `out`, or to
  `Pending`.

Data is abstracted:
- descriptions are one constant string;
- evaluator ids, comparators and values are single constants per kind;
- the buffer is the sequence of objects written, and an object's offset is its position in that
  sequence. Like a `UOffsetT`, a position is never 0 for a written object and grows with every write.

### How `SkipsConverter` corresponds to the code

- The converter's nested `ConvertToWLS` calls use the same frame stack as the encoder. A frame also
  holds `node`, the rules root of the policy being built.
- The actions follow the branches of each function:
  - `PolicyNoConditions`, `PolicySingle` and `PolicySingleDone` cover `len == 0`, `len == 1` and
    the ignored error of the single condition (`policy.go:51-59`);
  - `PolicyKeepCondition` and `PolicySkipCondition` cover the loop's `continue` on error
    (`policy.go:66-70`);
  - `ConditionNoValues`, `ConditionSingle` and `ConditionOr` cover the three arities of
    `JSONCondition.ConvertToWLS`.
- `PathValueConvertToWLS` is a helper, not a frame: a path value never fails. Unknown subject and
  comparator names fall back to `PROCESS_EXE_FULL_PATH` and `EXACT`, as in `path_values.go`.
- The refinement maps a skips document `d` to `Translate(d)`, the canonical policy document the
  spec says it stands for:
  - a group of one child is that child;
  - the runtime rule is the first child of an AND;
  - a policy with no conditions, or with a condition of no values, makes the document
    `Malformed`, so the whole run must fail.

  `result` is mapped as follows:
  - `Failure` on a rejected file (`log.Fatalf` on read, parse or conversion);
  - `EnvFailure` when `out/` cannot be created or the `.bin` write fails;
  - otherwise, the policies read back from the written buffer.
- `Finalize` is the whole of `finalizePolicies`. `WriteOut` is its file part:
  - `MkdirAll` may fail, and then the program prints an error and exits 0 (status `"nodir"`);
  - otherwise `hardcoded.h` is written with its error ignored (`hdr`);
  - then `writeBufferToFile` runs its own `MkdirAll`. If that fails, it prints and returns, and
    the program exits 0 (again `"nodir"`). Otherwise it writes `hardcoded.bin`, and a failing
    write is `log.Fatalf`.
- `out/` may already hold both files from an earlier run (the model value `Stale`). A run can
  therefore end with a header and a binary from different runs. `Init` starts from every
  combination.

  Each write has an outcome in `WriteOutcomes`.

### How `DemoWriters` and `CHeader` correspond to the code

- Both demo mains are straight-line code. Each is the sequence `todo` of its remaining steps
  (`WriterMain`, `HeaderMain`). A step is one of:
  - a helper call that adds a policy (`DenyByRuntime`, `DenyByMultipleEvaluators`, …);
  - `FinishBuffer`, which runs `PoliciesCreate`, `Finish` and `FinishedBytes`;
  - the file writes.
- Every `MkdirAll` may succeed or fail, and every `os.WriteFile` has an outcome in `WriteOutcomes`,
  as in `PolicyCompiler`: `"ok"`, `"open"` (the file keeps its old content) or `"partial"` (the
  file is left `Truncated`, since `os.WriteFile` truncates before it writes):
  - a failing `MkdirAll` in `writeBufferToFile` prints and returns, and `main` goes on;
  - a failing `WriteFile` of a buffer is `log.Fatalf`, with the file left as the failed write left
    it (`WriterWriteFailed`);
  - the error of writing `buffer.h` is ignored, so `HeaderWrite` can leave a truncated
    `buffer.h` and still return normally once `buffer.bin` is written.

  `MkdirAll` fails only while `out/` does not exist.
- A header file is recorded as the buffer it prints. Its text is `generateCHeader`, checked in
  `CHeader` on byte slices: `sb` is the sequence of `WriteString` arguments, and `%02X` is
  `Hex`.

### How `GenerateJson` corresponds to the code

- A `.fbs` file is a sequence of line records. Each record holds only what the code's regular
  expressions and string tests see after `strings.TrimSpace`:
  - `k`: whether `reEnum`, `reUnionStart` or `reStruct` matches, or whether the line is a field or
    exactly `}`;
  - `close` and `inline`: whether the line contains `}`, or both braces;
  - `inside`: the split and trimmed pieces of an inline union;
  - `text`: the line as a union member;
  - `plain`: whether a field line matches `reField`.
- `MCGenerateJson` writes a schema out as these lines:
  - a union inline, as a block, or as a block whose last member shares the `}` line;
  - a field plain or with a default value.
- Each branch of the scanner loops is an action:
  - `ScanEnum`, `ScanUnionInline`, `ScanUnionStart`, `ScanUnionEnd`, `ScanUnionMember` and
    `ScanOther` are the branches of `findEnumsAndUnions`;
  - `StructStart`, `StructEnd`, `FieldUnion`, `FieldNormal` and `ProcOther` are the branches of
    `processFile`.
- `ScanFileEnd` and `ProcFileEnd` end a file's scan. `NextScanFile` and `NextProcFile` are `main`'s
  loops over the files. `Write` is the assembly of `json.go`.
- The I/O failures are actions, allowed by the constant `IOFaults`:
  - `ScanFailed`: `os.Open` or the scanner fails in the first pass. The error is returned and
    printed, and what the lines already scanned put in the globals stays.
  - `ProcOpenFailed`: `os.Open` fails in the second pass. The error is printed and the file skipped.
  - `ProcReadFailed`: the scanner stops in the second pass. `processFile` returns its output with
    a nil error (line 246), so the partial output is appended and nothing is printed.
  - `WriteCreateFailed`: `os.Create` fails and `main` panics.
  - `WriteShort`: a `Fprintln` fails part way. The file holds a prefix of the items, and the
    success message is still printed.
- `errs` records the errors `main` printed, and `faulted` records whether any I/O call failed.
- The output is the sequence of items the Go text consists of: `struct`, `decode` and `enum`. Their
  spelling is not modelled.
- `Expected(schema)` is the reference. It is computed from the schema, not from the lines.

## Runs

| Run | Config | Expect | Shows |
|---|---|---|---|
| `compile` | `MCPolicyCompiler.cfg` | pass | Uses the decoders the spec describes, under every `os.WriteFile` outcome. The compile never panics. The exit code is 0 exactly when the file reads back as the input. The compile ends and refines `PolicyCompilation`: it fails exactly on unknown kinds, a write fails only for a compilable document, and otherwise it writes a buffer that reads back as the input. |
| `compile_none_child` | `MCPolicyCompiler_sentinel.cfg` | violation of `NoDanglingReference` | A NONE node below a composite becomes a 0 element of the children vector (`policies.go:66`, `:84`). |
| `compile_generated_decoders` | `MCPolicyCompiler_generated.cfg` | violation of `FailsOnlyOnUnknownKinds` | With the decoders the generator writes, which have no `NONE` case, a NONE node fails the compile (`generate_json.go:221`). One caveat: `policies.go` uses `wls.NodeType` where this generator emits `string`, so the repository's `json.go` is not this generator's output verbatim; the run assumes its `Decode` methods have the generator's member cases. |
| `compile_partial_output` | `MCPolicyCompiler_partial.cfg` | violation of `FailedCompileWritesNothing` | `os.WriteFile` truncates the file first (`main.go:67`). A write that fails part way leaves a corrupt file, which the spec (section 7) says never happens. |
| `generate` | `MCGenerateJson.cfg` | pass | For a two-file schema, with each union written inline or as a block, `json.go` holds exactly the expected items whenever no I/O call fails. This includes an enum declared in both files and an enum used before the file that declares it. Every open, read, create and write failure is allowed. |
| `generate_read_error` | `MCGenerateJson_io.cfg` | violation of `SilentRunIsComplete` | With read errors allowed, the scanner stops in the second pass. `processFile` never consults `scanner.Err()` (`:246`), so `json.go` is written without the file's remaining tables and no error is printed. |
| `generate_layouts` | `MCGenerateJson_layouts.cfg` | violation of `GeneratedMatchesSchema` | One schema with three forms the generator mishandles. `CompositeNode.children` is `[Node]`, a vector of a union. `processFile` strips the brackets before its union test (`:201`), so the field gets a single-value Decode method, and `convertType`'s "array of unions not supported" panic is never reached. `Eval`'s last member is on the line of its closing brace, and any line containing `}` ends a union block (`generate_json.go:127`), so `DecodeEval` has no case for `NumEvaluator`. `NumEvaluator.value` has a default value, does not match `reField` (`:167`), and is missing from its struct. The schema files are not in the repository, so whether the real schema is written this way is unknown. |
| `convert` | `MCSkipsConverter.cfg` | pass | On documents where every condition has a value, or that fail as a whole, the converter writes no dangling reference, and refines `PolicyCompilation` for `Translate(input)`: it checks order, arity-1 collapse, the runtime rule, and fail on an empty rule set. This holds under every outcome of `MkdirAll` and of both writes. |
| `convert_single_empty_condition` | `MCSkipsConverter_single.cfg` | violation of `NoUnconditionalPolicy` | The error of a policy's only condition is ignored (`policy.go:58`). The policy is written with no rules, which a reader takes as always matching. The trace uses runtime `all`, so no runtime AND is built. |
| `convert_empty_among_conditions` | `MCSkipsConverter_among.cfg` | violation of `FailsOnEmptyRuleSet` | A condition with no values among several is skipped with `continue` (`policy.go:67`) instead of failing the run. |
| `demo_writers` | `MCDemoWriters.cfg` | pass | Under every outcome of `MkdirAll` and `os.WriteFile`, every file the demos leave is missing, truncated, or a finished buffer with no dangling reference that reads back as the policies its `create*` function meant. Reached but not asserted: exit 0 with a truncated `buffer.h` (its error is ignored at `main.go:87`) and exit 0 with files missing after a failed `MkdirAll`; neither demo claims anything about its exit status. |
| `c_header` | `MCCHeader.cfg` | pass | For 0 to 25 bytes, `generateCHeader` prints every byte with two hex digits, twelve to an indented row, with no empty row at a multiple of twelve and no trailing comma. Its text is the reference text. |

Each property of a passing run has a mutant in `PROJECT.json`. A mutant is a plausible bug in the
mapped code that TLC must find under the run's own cfg. Examples:
- a creator that starts its table before writing its string;
- a children vector preallocated with zeros;
- `Finish` left out;
- a helper that drops the node wrapper;
- `%X` without zero padding;
- the closing newline written at every length.

Bounds (`MCDocs`, about 8,600 states):
- a malformed document and an empty policy list;
- one-policy documents, with or without an action, whose rules are any of:
  - every leaf kind, known, NONE or unknown;
  - every composite of up to two such leaves, under both operators;
  - an AND of an OR composite and a leaf, which gives depth 3;
  - every composite of three children drawn from a string leaf, a numeric leaf, a NONE evaluator
    and an unknown node, under both operators;
  - a tree of depth 4, with a good or an unknown innermost evaluator;
  - a numeric leaf with an unknown comparator, and a composite with an unknown operator;
- two-policy documents with one and two actions;
- three-policy documents, each policy good or unknown;
- a two-policy document whose second policy has an unknown action id.

These bounds cover:
- each encoder path at the root, as a child and as a grandchild;
- an error after earlier siblings and policies were written;
- composites of 0 to 3 children;
- an error after two written siblings, and in the third policy after two were written.

With three elements, a vector written in any rotated or reversed order differs from the input
order. Deeper trees and longer lists repeat the same frames.

Generator bounds (328 states without failures): two files with two unions, five tables, a vector field and three
enum declarations. The unions are written inline or as blocks, in all four combinations. With every
I/O failure allowed at every line, the run has 15,556 states. Each union,
enum and table form of the code occurs, in both files and in both passes. The schema files are not
in the repository, so the schema follows the shape that spec section 3 gives.

Converter bounds (`GoodDocs`, 7,500 states, with every write outcome and every initial state of
`out/`):
- every subject name, plus an unknown one, crossed with every comparator name, plus an unknown one;
- skip × runtime in {`all`, `java`, `jvm`}, with 1 or 2 conditions of 1 or 2 values;
- two-policy documents;
- documents with an empty condition or no conditions, which must fail as a whole.

`jvm` is not in the runtime list, so it covers the path without a runtime rule. That path is the
hazard at `converter/policy.go:26`: a runtime the list does not know applies the policy to every
process.

The violation runs use one document each that shows the divergence.

Demo bounds: both mains, and `out/` existing or not at start. Every file system outcome gives
185 states.

Header bounds: every length from 0 to 25. These include 0, 1, 12, 13, 24 and 25, the edges of the
`%12` checks. Byte values include ones below 16, which need the zero padding.

**Fairness.** The command runs on one goroutine and never waits inside the encoder, so it keeps
stepping until it returns. The project assumes weak fairness of `Next`. In `Spec` it is written as
`[]<>~Running \/ []<><<Next>>_vars`, which is equivalent here because `Next` is enabled exactly while
the command runs. This form avoids evaluating `ENABLED` on the stack machine. `SkipsConverter` assumes the same fairness, for
the same reason. `DemoWriters`, `CHeader` and `GenerateJson` check only invariants, so they assume
no fairness. (That the generator ends holds by the shape of its loops, which range over finite
files, so no run states it.)

For the compiler, `WF_vars(Next)` was tried and took more than 15 minutes
under TLC's coverage mode. `ENABLED` re-evaluates the builder chains of every action in every
state, so the compiler keeps the equivalent `[]<>` form.

## Not modelled

- The flag handling of `main()` (urfave/cli) and the text of error messages.
- The read errors of the compile command and the converter. Their write outcomes are modelled, as
  are the generator's open, read, create and write failures.
- The generator's `filepath.Glob` panic. Glob fails only on a malformed pattern, and the pattern is
  a constant.
- The spelling of the Go text that `tools/generate_json.go` writes (`strings.Title`, the format
  strings).
- Byte layout, vtables, alignment and `FinishedBytes` slicing. The buffer is its sequence of objects.
- The converter's read errors. They are one `log.Fatalf` outcome, `Malformed`, and nothing more.
- The Go test applications under `src/tracer/test/`. They are unrelated HTTP demos.

## Plan

1. Done:
   - builder, creators and IR;
   - the abstract compile, the encoder, and its refinement;
   - the skips converter with its refinement and two violation runs;
   - the demo writers and the C header layout;
   - the compile's write outcomes;
   - the generator's two passes;
   - the converter's write outcomes, with `EnvFailure` in the abstract spec;
   - the generator's I/O failures, and union vectors in its layouts run;
   - the converter's `writeBufferToFile` and files left by an earlier run; three-child and
     three-policy documents for `compile`;
   - the generated enum `UnmarshalJSON`, in the payloads and in the actions;
   - the demos' truncating `os.WriteFile` outcome.
2. Later: numeric evaluators in the converter's output, if the converter gains them.
