------------------------------ MODULE MCCHeader ------------------------------
EXTENDS CHeader

(* Slices of every length up to MaxLen: 0, one row, exactly one and two   *)
(* rows, and one byte past each.  Byte k is 37k mod 256, which includes   *)
(* values below 16 (k = 7) that need the zero padding.                    *)
MaxLen == 25

MCInputs == {[k \in 1..n |-> (37 * k) % 256] : n \in 0..MaxLen}
=============================================================================
