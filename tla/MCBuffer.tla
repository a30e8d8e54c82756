------------------------------ MODULE MCBuffer ------------------------------
(***************************************************************************)
(* Buffer over bits, with byte strings of up to MaxData of them.           *)
(***************************************************************************)
EXTENDS Buffer

CONSTANT MaxData

MCData == UNION {[1..n -> Byte] : n \in 0..MaxData}
=============================================================================
