------------------------------- MODULE Buffer -------------------------------
(***************************************************************************)
(* net/Buffer.h and net/Buffer.cpp: bytes between two indices of a vector, *)
(* with room in front of them that prepend() uses and makeSpace() reclaims.*)
(*                                                                         *)
(* A Buffer is a record of the class's three members; its methods are      *)
(* operators from a buffer to the buffer they leave.  Vector indices are   *)
(* one higher than in C++.  The actions call the methods with every        *)
(* argument their assertions allow.                                        *)
(***************************************************************************)
EXTENDS Integers, Sequences

CONSTANTS Base,           \* number of values of a byte (256)
          kCheapPrepend,
          kInitialSize,
          ExtraBuf,       \* sizeof extrabuf in readFd()
          Data,           \* the byte strings passed or received
          Reserves,       \* the arguments of shrink()
          IntSizes,       \* sizeof the integer types read and written
          MaxSize         \* bound: the vector does not grow beyond it

Byte == 0..(Base - 1)

ASSUME BufferAssumption ==
  /\ Base \in Nat \ {0}
  /\ kCheapPrepend \in Nat
  /\ kInitialSize \in Nat
  /\ ExtraBuf \in Nat
  /\ Data \subseteq Seq(Byte)
  /\ Reserves \subseteq Nat

VARIABLES buf,          \* the buffer
          op            \* the last call and the bytes it took or returned

vars == <<buf, op>>
-----------------------------------------------------------------------------
readableBytes(b) == b.writerIndex_ - b.readerIndex_
writableBytes(b) == Len(b.buffer_) - b.writerIndex_
prependableBytes(b) == b.readerIndex_

\* The readable bytes, from peek() to beginWrite().
Content(b) == [i \in 1..readableBytes(b) |-> b.buffer_[b.readerIndex_ + i]]

\* std::vector::resize(n) and std::copy of data to begin() + at.
Resize(bytes, n) ==
  [i \in 1..n |-> IF i <= Len(bytes) THEN bytes[i] ELSE 0]
CopyTo(bytes, at, data) ==
  [i \in 1..Len(bytes) |-> IF i - at \in 1..Len(data) THEN data[i - at] ELSE bytes[i]]

NewBuffer ==
  [buffer_ |-> [i \in 1..(kCheapPrepend + kInitialSize) |-> 0],
   readerIndex_ |-> kCheapPrepend,
   writerIndex_ |-> kCheapPrepend]

retrieveAll(b) ==
  [b EXCEPT !.readerIndex_ = kCheapPrepend, !.writerIndex_ = kCheapPrepend]

retrieve(b, len) ==
  IF len < readableBytes(b) THEN [b EXCEPT !.readerIndex_ = @ + len]
                            ELSE retrieveAll(b)

unwrite(b, len) == [b EXCEPT !.writerIndex_ = @ - len]

Grow(b, len) == [b EXCEPT !.buffer_ = Resize(@, b.writerIndex_ + len)]

\* std::copy(begin() + readerIndex_, begin() + writerIndex_, begin() + kCheapPrepend)
MoveToFront(b) ==
  [buffer_ |-> CopyTo(b.buffer_, kCheapPrepend, Content(b)),
   readerIndex_ |-> kCheapPrepend,
   writerIndex_ |-> kCheapPrepend + readableBytes(b)]

RoomWithMovingNoReserve(b, len) ==
  writableBytes(b) + prependableBytes(b) >= len

\* The else branch of makeSpace(): moving the bytes frees enough room.
RoomWithMoving(b, len) ==
  writableBytes(b) + prependableBytes(b) >= len + kCheapPrepend

makeSpace(b, len) ==
  IF RoomWithMoving(b, len) THEN MoveToFront(b) ELSE Grow(b, len)

ensureWritableBytesNever(b, len) == b

ensureWritableBytes(b, len) ==
  IF writableBytes(b) < len THEN makeSpace(b, len) ELSE b

\* Bytes stored at beginWrite(), then hasWritten().
Write(b, data) ==
  [buffer_ |-> CopyTo(b.buffer_, b.writerIndex_, data),
   readerIndex_ |-> b.readerIndex_,
   writerIndex_ |-> b.writerIndex_ + Len(data)]

append(b, data) == Write(ensureWritableBytes(b, Len(data)), data)

prepend(b, data) ==
  [buffer_ |-> CopyTo(b.buffer_, b.readerIndex_ - Len(data), data),
   readerIndex_ |-> b.readerIndex_ - Len(data),
   writerIndex_ |-> b.writerIndex_]

\* shrink(): a new buffer with room for the bytes and the reserve, swapped in.
shrink(b, reserve) ==
  append(ensureWritableBytes(NewBuffer, readableBytes(b) + reserve), Content(b))

readFdNoExtra(b, data) ==
  IF Len(data) <= writableBytes(b)
  THEN Write(b, data) ELSE Write(b, SubSeq(data, 1, writableBytes(b)))

\* readFd(): readv() fills the writable bytes first, then extrabuf, which is
\* appended; the second iovec is only passed when it may be needed.
ReadFdLimit(b) ==
  writableBytes(b) + IF writableBytes(b) < ExtraBuf THEN ExtraBuf ELSE 0
readFd(b, data) ==
  LET w == writableBytes(b)
  IN  IF Len(data) <= w
      THEN Write(b, data)
      ELSE append(Write(b, SubSeq(data, 1, w)), SubSeq(data, w + 1, Len(data)))
-----------------------------------------------------------------------------
(***************************************************************************)
(* Integers in network byte order, len bytes wide.                         *)
(***************************************************************************)
IntRange(len) == -(Base^len \div 2)..(((Base^len + 1) \div 2) - 1)

hostOrder(x, len) == [i \in 1..len |-> (x \div Base^(i - 1)) % Base]

hostToNetwork(x, len) == [i \in 1..len |-> (x \div Base^(len - i)) % Base]

networkToHost(bytes) ==
  LET len == Len(bytes)
      Value[n \in 0..len] == IF n = 0 THEN 0 ELSE Value[n - 1] * Base + bytes[n]
      u == Value[len]
  IN  IF u >= (Base^len + 1) \div 2 THEN u - Base^len ELSE u

appendInt(b, x, len) == append(b, hostToNetwork(x, len))
prependInt(b, x, len) == prepend(b, hostToNetwork(x, len))
peekInt(b, len) == networkToHost(SubSeq(Content(b), 1, len))
-----------------------------------------------------------------------------
Init ==
  /\ buf = NewBuffer
  /\ op = <<"new", << >> >>

\* A call leaves the buffer b; the model's bound on its size is MaxSize.
Leaves(b) == Len(b.buffer_) <= MaxSize /\ buf' = b

AppendData(d) ==
  /\ Leaves(append(buf, d))
  /\ op' = <<"append", d>>

\* The caller stores d at beginWrite() itself and calls hasWritten().
HasWritten(d) ==
  /\ Len(d) <= writableBytes(buf)
  /\ Leaves(Write(buf, d))
  /\ op' = <<"append", d>>

ReadFd(d) ==
  /\ Len(d) <= ReadFdLimit(buf)
  /\ Leaves(readFd(buf, d))
  /\ op' = <<"append", d>>

Prepend(d) ==
  /\ Len(d) <= prependableBytes(buf)
  /\ Leaves(prepend(buf, d))
  /\ op' = <<"prepend", d>>

\* retrieveAsString(len), and retrieve(len) with what was peeked before it.
Retrieve(len) ==
  /\ Leaves(retrieve(buf, len))
  /\ op' = <<"retrieve", SubSeq(Content(buf), 1, len)>>

Unwrite(len) ==
  /\ Leaves(unwrite(buf, len))
  /\ op' = <<"unwrite", << >> >>

Shrink(reserve) ==
  /\ Leaves(shrink(buf, reserve))
  /\ op' = <<"shrink", << >> >>

Next ==
  \/ \E d \in Data : AppendData(d) \/ HasWritten(d) \/ ReadFd(d) \/ Prepend(d)
  \/ \E len \in 0..readableBytes(buf) : Retrieve(len) \/ Unwrite(len)
  \/ \E reserve \in Reserves : Shrink(reserve)

Spec == Init /\ [][Next]_vars
-----------------------------------------------------------------------------
WellFormed(b) ==
  /\ b \in [buffer_ : Seq(Byte), readerIndex_ : Nat, writerIndex_ : Nat]
  /\ b.readerIndex_ <= b.writerIndex_
  /\ b.writerIndex_ <= Len(b.buffer_)
  /\ kCheapPrepend <= Len(b.buffer_)

\* The picture in Buffer.h: 0 <= readerIndex <= writerIndex <= size, kept by
\* every sequence of calls whose assertions hold.
TypeOK == WellFormed(buf)

\* ensureWritableBytes() keeps its promise for every length, and so do the
\* two assertions it runs into: there is room afterwards, and bytes are only
\* moved to the front when they do not already start there.
RoomIsMade ==
  \A len \in 0..MaxSize :
    LET b == ensureWritableBytes(buf, len)
    IN  /\ writableBytes(b) >= len
        /\ Content(b) = Content(buf)
        /\ writableBytes(buf) < len /\ RoomWithMoving(buf, len)
             => kCheapPrepend < buf.readerIndex_

\* The caller sees a queue of bytes: growing, moving, shrinking and reading
\* past the end into extrabuf never lose, repeat or reorder a byte.
Queue == INSTANCE ByteQueue WITH content <- Content(buf)
IsByteQueue == Queue!Spec

\* An integer written with appendInt or prependInt is the one peekInt returns,
\* in every layout of the buffer the calls can produce.
IntsSurvive ==
  \A len \in IntSizes : \A x \in IntRange(len) :
    /\ readableBytes(buf) = 0 => peekInt(appendInt(buf, x, len), len) = x
    /\ prependableBytes(buf) >= len => peekInt(prependInt(buf, x, len), len) = x
=============================================================================
