------------------------------- MODULE CHeader -------------------------------
(***************************************************************************)
(* generateCHeader (examples/example_generate_c_header_buffer/main.go):   *)
(* prints a finished buffer as a C array, twelve bytes to a row.  The      *)
(* strings.Builder is the sequence sb of the strings written to it, one    *)
(* per WriteString; the loop over the bytes is one step per byte.         *)
(***************************************************************************)
EXTENDS Naturals, Sequences, SequencesExt, TLC

CONSTANTS
  Inputs,   (* the byte slices the function may be given                  *)
  varName   (* the name of the C array                                    *)

VARIABLES
  data,  (* the buffer                                                    *)
  i,     (* the loop index: bytes printed so far                          *)
  sb,    (* the strings written to the strings.Builder                    *)
  done   (* the function has returned sb.String()                         *)

vars == <<data, i, sb, done>>

HexDigit == <<"0", "1", "2", "3", "4", "5", "6", "7",
              "8", "9", "A", "B", "C", "D", "E", "F">>

(* Variant: the byte printed with %X, without the zero padding.           *)
HexNoPad(b) ==
  IF b < 16 THEN "0x" \o HexDigit[b + 1]
  ELSE "0x" \o HexDigit[b \div 16 + 1] \o HexDigit[(b % 16) + 1]

(* fmt.Sprintf("0x%02X", b).                                              *)
Hex(b) == "0x" \o HexDigit[b \div 16 + 1] \o HexDigit[(b % 16) + 1]

(* The three WriteStrings before the loop.                                *)
Preamble ==
  <<"#pragma once\n\n", "#include <stdint.h>\n\n",
    "const uint8_t " \o varName \o "[] = {\n">>

Init ==
  /\ data \in Inputs
  /\ i = 0
  /\ sb = Preamble
  /\ done = FALSE

(* One iteration of `for i, b := range data`.                             *)
Step ==
  /\ i < Len(data)
  /\ sb' = sb \o (IF i % 12 = 0 THEN <<"  ">> ELSE <<>>)
              \o <<Hex(data[i + 1])>>
              \o (IF i < Len(data) - 1 THEN <<", ">> ELSE <<>>)
              \o (IF (i + 1) % 12 = 0 THEN <<"\n">> ELSE <<>>)
  /\ i' = i + 1
  /\ UNCHANGED <<data, done>>

(* Variant: the closing newline written whatever the length.              *)
EndAlwaysNewline ==
  /\ i = Len(data) /\ ~done
  /\ sb' = sb \o <<"\n", "};\n",
                   "const unsigned int " \o varName \o "_len = "
                     \o ToString(Len(data)) \o ";\n">>
  /\ done' = TRUE
  /\ UNCHANGED <<data, i>>

(* After the loop: the newline of an incomplete last row, the closing    *)
(* brace and the length constant.                                         *)
End ==
  /\ i = Len(data) /\ ~done
  /\ sb' = sb \o (IF Len(data) % 12 # 0 THEN <<"\n">> ELSE <<>>)
              \o <<"};\n",
                   "const unsigned int " \o varName \o "_len = "
                     \o ToString(Len(data)) \o ";\n">>
  /\ done' = TRUE
  /\ UNCHANGED <<data, i>>

Returned == done /\ UNCHANGED vars

Next == Step \/ End \/ Returned

Spec == Init /\ [][Next]_vars

---------------------------------------------------------------------------
(* The text the strings.Builder holds.                                    *)
RECURSIVE Text(_)
Text(s) == IF s = <<>> THEN "" ELSE Head(s) \o Text(Tail(s))

(* The two-digit upper-case hex spellings of a byte.                      *)
ByteTokens == {"0x" \o h \o l : h, l \in {HexDigit[k] : k \in 1..16}}

(* Every string written is a fixed piece or the spelling of a byte: in   *)
(* particular every byte is printed with exactly two hex digits.          *)
TypeOK ==
  /\ data \in Inputs
  /\ i \in 0..Len(data)
  /\ done \in BOOLEAN
  /\ \A k \in DOMAIN sb :
       sb[k] \in ByteTokens \cup {"  ", ", ", "\n", "};\n"} \cup Range(Preamble)
       \/ (done /\ k = Len(sb))

---------------------------------------------------------------------------
(* A reference layout, written by rows rather than by bytes: row r holds  *)
(* bytes 12(r-1)+1 .. 12r; every row is indented, ends with a newline,    *)
(* and its bytes are separated by ", ", as is the end of every row but    *)
(* the last.  A byte is its high and its low hex digit after "0x".       *)
Spelling(b) == "0x" \o HexDigit[b \div 16 + 1] \o HexDigit[(b % 16) + 1]

RowCount(n) == (n + 11) \div 12

Row(d, r) == SubSeq(d, 12 * (r - 1) + 1, IF 12 * r < Len(d) THEN 12 * r ELSE Len(d))

RowText(d, r) ==
  LET bytes == Row(d, r)
      sep(k) == IF k < Len(bytes) \/ r < RowCount(Len(d)) THEN ", " ELSE ""
  IN  "  " \o Text([k \in DOMAIN bytes |-> Spelling(bytes[k]) \o sep(k)]) \o "\n"

ReferenceHeader(d) ==
  Text(Preamble)
    \o Text([r \in 1..RowCount(Len(d)) |-> RowText(d, r)])
    \o "};\n"
    \o "const unsigned int " \o varName \o "_len = " \o ToString(Len(d)) \o ";\n"

(* generateCHeader prints the buffer in rows of twelve, with no empty row *)
(* when the length is a multiple of twelve (the len(data)%12 check) and   *)
(* no trailing comma after the last byte: its text is the reference one.  *)
HeaderMatchesReference == done => Text(sb) = ReferenceHeader(data)
=============================================================================
