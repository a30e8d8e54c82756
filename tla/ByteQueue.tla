----------------------------- MODULE ByteQueue ------------------------------
(***************************************************************************)
(* What net/Buffer.h promises its callers: a sequence of bytes that grows  *)
(* and shrinks at both ends.  Where the bytes lie and when they move is no *)
(* part of it.  op is the call just made, with the bytes given or returned.*)
(***************************************************************************)
EXTENDS Naturals, Sequences

CONSTANT Data           \* the byte strings callers pass

VARIABLES content, op

Init ==
  /\ content = << >>
  /\ op = <<"new", << >> >>

PutBack(d) ==
  /\ content' = content \o d
  /\ op' = <<"append", d>>

PutFront(d) ==
  /\ content' = d \o content
  /\ op' = <<"prepend", d>>

TakeFront(n) ==
  /\ content' = SubSeq(content, n + 1, Len(content))
  /\ op' = <<"retrieve", SubSeq(content, 1, n)>>

DropBack(n) ==
  /\ content' = SubSeq(content, 1, Len(content) - n)
  /\ op' = <<"unwrite", << >> >>

Reorganise ==
  /\ content' = content
  /\ op' = <<"shrink", << >> >>

Next ==
  \/ \E d \in Data : PutBack(d) \/ PutFront(d)
  \/ \E n \in 0..Len(content) : TakeFront(n) \/ DropBack(n)
  \/ Reorganise

Spec == Init /\ [][Next]_<<content, op>>
=============================================================================
