---------------------------- MODULE BufferProofs ----------------------------
(***************************************************************************)
(* The buffer's index invariant and its refinement of ByteQueue, for every *)
(* byte size, prepend size, initial size, extrabuf and data.               *)
(***************************************************************************)
EXTENDS Buffer, SequenceTheorems, TLAPS

\* A function on 1..n is a sequence of length n.
LEMMA FunctionIsSeq ==
  ASSUME NEW S, NEW n \in Nat, NEW f \in [1..n -> S]
  PROVE  f \in Seq(S) /\ Len(f) = n
<1>1. f \in Seq(S)
  BY SeqDef, Zenon
<1>2. Len(f) \in Nat /\ 1..Len(f) = 1..n
  BY <1>1, LenProperties, Zenon
<1>. QED
  BY <1>1, <1>2

\* A sequence that starts with s and goes on with t is s \o t.
LEMMA IsConcat ==
  ASSUME NEW S, NEW c \in Seq(S), NEW s \in Seq(S), NEW t \in Seq(S),
         Len(c) = Len(s) + Len(t),
         \A i \in 1..Len(s) : c[i] = s[i],
         \A i \in 1..Len(t) : c[Len(s) + i] = t[i]
  PROVE  c = s \o t
<1>1. Len(s) \in Nat /\ Len(t) \in Nat
  BY LenProperties, Zenon
<1>2. s \o t \in Seq(S) /\ Len(s \o t) = Len(s) + Len(t)
  BY ConcatProperties, Zenon
<1>3. \A i \in 1..Len(c) : c[i] = (s \o t)[i]
  <2>. TAKE i \in 1..Len(c)
  <2>1. CASE i <= Len(s)
    <3>1. i \in 1..Len(s)
      BY <1>1, <2>1
    <3>2. (s \o t)[i] = s[i]
      BY <1>1, <2>1, ConcatProperties, Zenon
    <3>. QED
      BY <3>1, <3>2, Zenon
  <2>2. CASE i > Len(s)
    <3>1. i - Len(s) \in 1..Len(t) /\ Len(s) + (i - Len(s)) = i
      BY <1>1, <2>2
    <3>2. (s \o t)[i] = t[i - Len(s)]
      BY <1>1, <2>2, ConcatProperties
    <3>. QED
      BY <3>1, <3>2, Zenon
  <2>. QED
    BY <1>1, <2>1, <2>2
<1>. QED
  BY <1>2, <1>3, SeqEqual, Zenon

\* The readable bytes form a sequence of bytes.
LEMMA ContentType ==
  ASSUME NEW b, WellFormed(b)
  PROVE  /\ Content(b) \in Seq(Byte)
         /\ Len(Content(b)) = readableBytes(b)
         /\ readableBytes(b) \in Nat
         /\ \A i \in 1..readableBytes(b) : Content(b)[i] = b.buffer_[b.readerIndex_ + i]
<1>1. readableBytes(b) \in Nat
  BY DEF WellFormed, readableBytes
<1>2. \A i \in 1..readableBytes(b) : b.buffer_[b.readerIndex_ + i] \in Byte
  <2>. TAKE i \in 1..readableBytes(b)
  <2>1. b.readerIndex_ + i \in 1..Len(b.buffer_)
    BY LenProperties DEF WellFormed, readableBytes
  <2>. QED
    BY <2>1, ElementOfSeq, Zenon DEF WellFormed
<1>3. Content(b) \in [1..readableBytes(b) -> Byte]
  BY <1>2, Zenon DEF Content
<1>. QED
  BY <1>1, <1>3, FunctionIsSeq, Zenon DEF Content

\* std::copy changes the bytes it covers and no others.
LEMMA CopyToType ==
  ASSUME NEW bytes \in Seq(Byte), NEW at \in Int, NEW data \in Seq(Byte)
  PROVE  /\ CopyTo(bytes, at, data) \in Seq(Byte)
         /\ Len(CopyTo(bytes, at, data)) = Len(bytes)
         /\ \A i \in 1..Len(bytes) : CopyTo(bytes, at, data)[i] =
              IF i - at \in 1..Len(data) THEN data[i - at] ELSE bytes[i]
<1>1. Len(bytes) \in Nat /\ Len(data) \in Nat
  BY LenProperties, Zenon
<1>2. CopyTo(bytes, at, data) \in [1..Len(bytes) -> Byte]
  BY ElementOfSeq, Zenon DEF CopyTo
<1>. QED
  BY <1>1, <1>2, FunctionIsSeq DEF CopyTo

\* resize() keeps the bytes there are and fills up with zeros.
LEMMA ResizeType ==
  ASSUME NEW bytes \in Seq(Byte), NEW n \in Nat
  PROVE  /\ Resize(bytes, n) \in Seq(Byte)
         /\ Len(Resize(bytes, n)) = n
         /\ \A i \in 1..n : i <= Len(bytes) => Resize(bytes, n)[i] = bytes[i]
<1>1. Len(bytes) \in Nat /\ 0 \in Byte
  BY LenProperties, BufferAssumption DEF Byte
<1>2. Resize(bytes, n) \in [1..n -> Byte]
  BY <1>1, ElementOfSeq DEF Resize
<1>. QED
  BY <1>1, <1>2, FunctionIsSeq, Zenon DEF Resize

\* The constructor's buffer is well formed and empty.
LEMMA NewBufferType ==
  /\ WellFormed(NewBuffer)
  /\ Content(NewBuffer) = << >>
<1>1. kCheapPrepend \in Nat /\ kCheapPrepend + kInitialSize \in Nat /\ 0 \in Byte
  BY BufferAssumption DEF Byte
<1>2. [i \in 1..(kCheapPrepend + kInitialSize) |-> 0]
        \in [1..(kCheapPrepend + kInitialSize) -> Byte]
  BY <1>1, Zenon
<1>3. /\ NewBuffer.buffer_ \in Seq(Byte)
      /\ Len(NewBuffer.buffer_) = kCheapPrepend + kInitialSize
  BY <1>1, <1>2, FunctionIsSeq, Zenon DEF NewBuffer
<1>4. WellFormed(NewBuffer)
  BY <1>1, <1>3, BufferAssumption DEF WellFormed, NewBuffer
<1>5. Len(Content(NewBuffer)) = 0 /\ Content(NewBuffer) \in Seq(Byte)
  BY <1>1, <1>4, ContentType DEF readableBytes, NewBuffer
<1>. QED
  BY <1>4, <1>5, EmptySeq, Zenon

\* Two buffers with the same bytes between their indices have the same content.
LEMMA SameContent ==
  ASSUME NEW a, NEW b, WellFormed(a), WellFormed(b),
         readableBytes(a) = readableBytes(b),
         \A i \in 1..readableBytes(b) :
           a.buffer_[a.readerIndex_ + i] = b.buffer_[b.readerIndex_ + i]
  PROVE  Content(a) = Content(b)
BY Zenon DEF Content

\* resize() in makeSpace() makes room behind the bytes and moves none.
LEMMA GrowType ==
  ASSUME NEW b, WellFormed(b), NEW len \in Nat, writableBytes(b) < len
  PROVE  /\ WellFormed(Grow(b, len))
         /\ Content(Grow(b, len)) = Content(b)
         /\ writableBytes(Grow(b, len)) = len
<1>. DEFINE g == Grow(b, len)
<1>1. b.writerIndex_ + len \in Nat /\ Len(b.buffer_) \in Nat /\ b.buffer_ \in Seq(Byte)
  BY LenProperties DEF WellFormed
<1>2. /\ g.buffer_ = Resize(b.buffer_, b.writerIndex_ + len)
      /\ g.readerIndex_ = b.readerIndex_
      /\ g.writerIndex_ = b.writerIndex_
      /\ g \in [buffer_ : Seq(Byte), readerIndex_ : Nat, writerIndex_ : Nat]
  BY <1>1, ResizeType, Zenon DEF WellFormed, Grow
<1>. HIDE DEF g
<1>. DEFINE r == Resize(b.buffer_, b.writerIndex_ + len)
<1>resize. /\ Len(r) = b.writerIndex_ + len
      /\ \A i \in 1..(b.writerIndex_ + len) : i <= Len(b.buffer_) => r[i] = b.buffer_[i]
  BY <1>1, ResizeType, Zenon
<1>. HIDE DEF r
<1>3. Len(g.buffer_) = b.writerIndex_ + len
  BY <1>2, <1>resize, Zenon DEF r
<1>4. WellFormed(g)
  BY <1>1, <1>2, <1>3, BufferAssumption DEF WellFormed, writableBytes
<1>5. \A i \in 1..readableBytes(b) :
        g.buffer_[g.readerIndex_ + i] = b.buffer_[b.readerIndex_ + i]
  <2>. TAKE i \in 1..readableBytes(b)
  <2>1. /\ b.readerIndex_ + i \in 1..(b.writerIndex_ + len)
        /\ b.readerIndex_ + i <= Len(b.buffer_)
    BY <1>1 DEF WellFormed, readableBytes
  <2>. QED
    BY <1>2, <1>resize, <2>1, SMTT(60) DEF r
<1>6. readableBytes(g) = readableBytes(b)
  BY <1>2, Zenon DEF readableBytes
<1>7. Content(g) = Content(b)
  BY <1>4, <1>5, <1>6, SameContent, Zenon
<1>8. writableBytes(g) = len
  BY <1>1, <1>2, <1>3 DEF writableBytes, WellFormed
<1>. QED
  BY <1>4, <1>7, <1>8, Zenon DEF g

\* Moving the bytes to the front keeps them and makes the room asked for.
LEMMA MoveType ==
  ASSUME NEW b, WellFormed(b), NEW len \in Nat, RoomWithMoving(b, len)
  PROVE  /\ WellFormed(MoveToFront(b))
         /\ Content(MoveToFront(b)) = Content(b)
         /\ writableBytes(MoveToFront(b)) >= len
<1>. DEFINE m == MoveToFront(b)
            n == readableBytes(b)
<1>1. /\ kCheapPrepend \in Nat /\ n \in Nat /\ Len(b.buffer_) \in Nat
      /\ b.buffer_ \in Seq(Byte) /\ Content(b) \in Seq(Byte) /\ Len(Content(b)) = n
      /\ \A i \in 1..n : Content(b)[i] = b.buffer_[b.readerIndex_ + i]
  BY LenProperties, ContentType, BufferAssumption, Zenon DEF WellFormed
<1>2. kCheapPrepend + n + len <= Len(b.buffer_)
  BY <1>1, SMTT(60) DEF RoomWithMoving, WellFormed, writableBytes, prependableBytes, readableBytes
<1>3. /\ m.buffer_ = CopyTo(b.buffer_, kCheapPrepend, Content(b))
      /\ m.readerIndex_ = kCheapPrepend
      /\ m.writerIndex_ = kCheapPrepend + n
  BY Zenon DEF MoveToFront
<1>4. m.buffer_ \in Seq(Byte) /\ Len(m.buffer_) = Len(b.buffer_)
  BY <1>1, <1>3, CopyToType
<1>5. m \in [buffer_ : Seq(Byte), readerIndex_ : Nat, writerIndex_ : Nat]
  BY <1>1, <1>3, <1>4 DEF MoveToFront
<1>. HIDE DEF m, n
<1>6. WellFormed(m)
  BY <1>1, <1>2, <1>3, <1>4, <1>5 DEF WellFormed
<1>7. readableBytes(m) = n
  BY <1>1, <1>3 DEF readableBytes, n
<1>8. \A i \in 1..n : m.buffer_[m.readerIndex_ + i] = b.buffer_[b.readerIndex_ + i]
  <2>. TAKE i \in 1..n
  <2>1. kCheapPrepend + i \in 1..Len(b.buffer_) /\ (kCheapPrepend + i) - kCheapPrepend = i
    BY <1>1, <1>2
  <2>2. m.buffer_[kCheapPrepend + i] = Content(b)[i]
    BY <1>1, <1>3, <2>1, CopyToType, SMTT(60)
  <2>. QED
    BY <1>1, <1>3, <2>2, Zenon
<1>9. Content(m) = Content(b)
  BY <1>6, <1>7, <1>8, SameContent, Zenon DEF n
<1>10. writableBytes(m) >= len
  BY <1>1, <1>2, <1>3, <1>4 DEF writableBytes
<1>. QED
  BY <1>6, <1>9, <1>10, Zenon DEF m

\* ensureWritableBytes() makes the room asked for and keeps the content.
LEMMA EnsureType ==
  ASSUME NEW b, WellFormed(b), NEW len \in Nat
  PROVE  /\ WellFormed(ensureWritableBytes(b, len))
         /\ Content(ensureWritableBytes(b, len)) = Content(b)
         /\ writableBytes(ensureWritableBytes(b, len)) >= len
<1>0. writableBytes(b) \in Int
  BY LenProperties DEF writableBytes, WellFormed
<1>1. CASE ~(writableBytes(b) < len)
  BY <1>0, <1>1 DEF ensureWritableBytes
<1>2. CASE writableBytes(b) < len /\ RoomWithMoving(b, len)
  BY <1>2, MoveType, Zenon DEF ensureWritableBytes, makeSpace
<1>3. CASE writableBytes(b) < len /\ ~RoomWithMoving(b, len)
  BY <1>3, GrowType DEF ensureWritableBytes, makeSpace
<1>. QED
  BY <1>1, <1>2, <1>3, Zenon

\* Bytes stored behind the content, with hasWritten(), are appended to it.
LEMMA WriteType ==
  ASSUME NEW b, WellFormed(b), NEW data \in Seq(Byte), Len(data) <= writableBytes(b)
  PROVE  /\ WellFormed(Write(b, data))
         /\ Content(Write(b, data)) = Content(b) \o data
         /\ writableBytes(Write(b, data)) = writableBytes(b) - Len(data)
<1>. DEFINE w == Write(b, data)
            n == readableBytes(b)
<1>1. /\ n \in Nat /\ Len(b.buffer_) \in Nat /\ Len(data) \in Nat
      /\ b.buffer_ \in Seq(Byte) /\ Content(b) \in Seq(Byte) /\ Len(Content(b)) = n
      /\ \A i \in 1..n : Content(b)[i] = b.buffer_[b.readerIndex_ + i]
      /\ b.readerIndex_ \in Nat /\ b.writerIndex_ \in Nat
      /\ b.writerIndex_ = b.readerIndex_ + n
  <2>1. /\ b.buffer_ \in Seq(Byte) /\ Len(b.buffer_) \in Nat /\ Len(data) \in Nat
        /\ b.readerIndex_ \in Nat /\ b.writerIndex_ \in Nat
    BY LenProperties, Zenon DEF WellFormed
  <2>2. b.writerIndex_ = b.readerIndex_ + n
    BY <2>1 DEF readableBytes
  <2>. QED
    BY <2>1, <2>2, ContentType, Zenon
<1>2. b.writerIndex_ + Len(data) <= Len(b.buffer_)
  BY <1>1 DEF writableBytes
<1>3. /\ w.buffer_ = CopyTo(b.buffer_, b.writerIndex_, data)
      /\ w.readerIndex_ = b.readerIndex_
      /\ w.writerIndex_ = b.writerIndex_ + Len(data)
  BY Zenon DEF Write, WellFormed
<1>4. w.buffer_ \in Seq(Byte) /\ Len(w.buffer_) = Len(b.buffer_)
  BY <1>1, <1>3, CopyToType
<1>5. w \in [buffer_ : Seq(Byte), readerIndex_ : Nat, writerIndex_ : Nat]
  BY <1>1, <1>3, <1>4 DEF Write
<1>. HIDE DEF w, n
<1>6. WellFormed(w)
  BY <1>1, <1>2, <1>3, <1>4, <1>5 DEF WellFormed
<1>7. readableBytes(w) = n + Len(data)
  BY <1>1, <1>3 DEF readableBytes, n
<1>8. Content(w) \in Seq(Byte) /\ Len(Content(w)) = n + Len(data)
  BY <1>6, <1>7, ContentType, Zenon
<1>9. \A i \in 1..(n + Len(data)) :
        Content(w)[i] = IF i - n \in 1..Len(data) THEN data[i - n]
                                                  ELSE b.buffer_[b.readerIndex_ + i]
  <2>. TAKE i \in 1..(n + Len(data))
  <2>1. /\ b.readerIndex_ + i \in 1..Len(b.buffer_)
        /\ (b.readerIndex_ + i) - b.writerIndex_ = i - n
    BY <1>1, <1>2, SMTT(60)
  <2>2. Content(w)[i] = w.buffer_[w.readerIndex_ + i]
    BY <1>6, <1>7, ContentType, Zenon
  <2>3. w.buffer_[b.readerIndex_ + i] =
          IF i - n \in 1..Len(data) THEN data[i - n] ELSE b.buffer_[b.readerIndex_ + i]
    <3>. DEFINE k == b.readerIndex_ + i
                c == CopyTo(b.buffer_, b.writerIndex_, data)
    <3>1. \A j \in 1..Len(b.buffer_) :
            c[j] = IF j - b.writerIndex_ \in 1..Len(data)
                   THEN data[j - b.writerIndex_] ELSE b.buffer_[j]
      BY Zenon DEF CopyTo
    <3>2. k \in 1..Len(b.buffer_) /\ k - b.writerIndex_ = i - n /\ w.buffer_ = c
      BY <1>3, <2>1, Zenon
    <3>. HIDE DEF k, c
    <3>3. w.buffer_[k] = IF i - n \in 1..Len(data) THEN data[i - n] ELSE b.buffer_[k]
      BY <3>1, <3>2, Zenon
    <3>. QED
      BY <3>3, Zenon DEF k
  <2>. QED
    BY <1>3, <2>2, <2>3, Zenon
<1>10. Content(w) = Content(b) \o data
  <2>1. \A i \in 1..n : Content(w)[i] = Content(b)[i]
    BY <1>1, <1>9, SMTT(60)
  <2>2. \A i \in 1..Len(data) : Content(w)[n + i] = data[i]
    <3>. TAKE i \in 1..Len(data)
    <3>1. n + i \in 1..(n + Len(data)) /\ (n + i) - n = i
      BY <1>1
    <3>. QED
      BY <1>9, <3>1, Zenon
  <2>. QED
    BY <1>1, <1>8, <2>1, <2>2, IsConcat, ZenonT(60)
<1>11. writableBytes(w) = writableBytes(b) - Len(data)
  BY <1>1, <1>3, <1>4 DEF writableBytes
<1>. QED
  BY <1>6, <1>10, <1>11, Zenon DEF w

\* append() puts the data behind the content.
LEMMA AppendType ==
  ASSUME NEW b, WellFormed(b), NEW data \in Seq(Byte)
  PROVE  /\ WellFormed(append(b, data))
         /\ Content(append(b, data)) = Content(b) \o data
<1>. DEFINE e == ensureWritableBytes(b, Len(data))
<1>1. Len(data) \in Nat
  BY LenProperties, Zenon
<1>2. WellFormed(e) /\ Content(e) = Content(b) /\ writableBytes(e) >= Len(data)
  BY <1>1, EnsureType, Zenon
<1>3. writableBytes(e) \in Int
  BY <1>2, LenProperties DEF WellFormed, writableBytes
<1>. HIDE DEF e
<1>4. WellFormed(Write(e, data)) /\ Content(Write(e, data)) = Content(e) \o data
  BY <1>1, <1>2, <1>3, WriteType, Zenon
<1>. QED
  BY <1>2, <1>4, Zenon DEF append, e

\* prepend() puts the data in front of the content.
LEMMA PrependType ==
  ASSUME NEW b, WellFormed(b), NEW data \in Seq(Byte), Len(data) <= prependableBytes(b)
  PROVE  /\ WellFormed(prepend(b, data))
         /\ Content(prepend(b, data)) = data \o Content(b)
<1>. DEFINE p == prepend(b, data)
            n == readableBytes(b)
            at == b.readerIndex_ - Len(data)
<1>1. /\ n \in Nat /\ Len(b.buffer_) \in Nat /\ Len(data) \in Nat
      /\ b.buffer_ \in Seq(Byte) /\ b.readerIndex_ \in Nat /\ b.writerIndex_ \in Nat
      /\ b.writerIndex_ = b.readerIndex_ + n /\ b.writerIndex_ <= Len(b.buffer_)
      /\ kCheapPrepend <= Len(b.buffer_)
  BY LenProperties DEF WellFormed, readableBytes
<1>2. at \in Nat /\ at + Len(data) = b.readerIndex_
  BY <1>1 DEF prependableBytes
<1>3. /\ p.buffer_ = CopyTo(b.buffer_, at, data)
      /\ p.readerIndex_ = at
      /\ p.writerIndex_ = b.writerIndex_
      /\ p = [buffer_ |-> p.buffer_, readerIndex_ |-> p.readerIndex_,
              writerIndex_ |-> p.writerIndex_]
  BY Zenon DEF prepend
<1>4. Content(b) \in Seq(Byte) /\ Len(Content(b)) = n
  BY ContentType, Zenon
<1>5. \A i \in 1..n : Content(b)[i] = b.buffer_[b.readerIndex_ + i]
  BY ContentType, Zenon
<1>. HIDE DEF p, n, at
<1>6. p.buffer_ \in Seq(Byte) /\ Len(p.buffer_) = Len(b.buffer_)
  BY <1>1, <1>2, <1>3, CopyToType
<1>7. p \in [buffer_ : Seq(Byte), readerIndex_ : Nat, writerIndex_ : Nat]
  BY <1>1, <1>2, <1>3, <1>6, Zenon
<1>8. WellFormed(p)
  BY <1>1, <1>2, <1>3, <1>6, <1>7 DEF WellFormed
<1>9. readableBytes(p) = Len(data) + n
  BY <1>1, <1>2, <1>3 DEF readableBytes
<1>10. /\ Content(p) \in Seq(Byte) /\ Len(Content(p)) = Len(data) + n
       /\ \A i \in 1..(Len(data) + n) : Content(p)[i] = p.buffer_[at + i]
  BY <1>3, <1>8, <1>9, ContentType, Zenon
<1>11. \A j \in 1..Len(b.buffer_) :
         p.buffer_[j] = IF j - at \in 1..Len(data) THEN data[j - at] ELSE b.buffer_[j]
  BY <1>3, Zenon DEF CopyTo
<1>12. \A i \in 1..Len(data) : Content(p)[i] = data[i]
  <2>. TAKE i \in 1..Len(data)
  <2>1. /\ i \in 1..(Len(data) + n) /\ at + i \in 1..Len(b.buffer_)
        /\ (at + i) - at = i
    BY <1>1, <1>2
  <2>. QED
    BY <1>10, <1>11, <2>1, Zenon
<1>13. \A i \in 1..n : Content(p)[Len(data) + i] = Content(b)[i]
  <2>. TAKE i \in 1..n
  <2>. DEFINE k == at + (Len(data) + i)
  <2>1. /\ Len(data) + i \in 1..(Len(data) + n) /\ k \in 1..Len(b.buffer_)
        /\ k - at \notin 1..Len(data) /\ k = b.readerIndex_ + i
    BY <1>1, <1>2, SMTT(60)
  <2>2. Content(p)[Len(data) + i] = p.buffer_[k]
    BY <1>10, <2>1, Zenon
  <2>. HIDE DEF k
  <2>3. p.buffer_[k] = b.buffer_[k]
    BY <1>11, <2>1, Zenon
  <2>. QED
    BY <1>5, <2>1, <2>2, <2>3, Zenon
<1>. QED
  BY <1>4, <1>8, <1>10, <1>12, <1>13, IsConcat, Zenon DEF p

\* retrieve() drops the first bytes of the content.
LEMMA RetrieveType ==
  ASSUME NEW b, WellFormed(b), NEW len \in 0..readableBytes(b)
  PROVE  /\ WellFormed(retrieve(b, len))
         /\ Content(retrieve(b, len)) = SubSeq(Content(b), len + 1, Len(Content(b)))
<1>. DEFINE r == retrieve(b, len)
            n == readableBytes(b)
            s == SubSeq(Content(b), len + 1, n)
<1>1. /\ n \in Nat /\ Len(b.buffer_) \in Nat /\ len \in Nat /\ len <= n
      /\ b.buffer_ \in Seq(Byte) /\ b.readerIndex_ \in Nat /\ b.writerIndex_ \in Nat
      /\ b.writerIndex_ = b.readerIndex_ + n /\ b.writerIndex_ <= Len(b.buffer_)
      /\ kCheapPrepend <= Len(b.buffer_) /\ kCheapPrepend \in Nat
  BY LenProperties, BufferAssumption DEF WellFormed, readableBytes
<1>2. Content(b) \in Seq(Byte) /\ Len(Content(b)) = n
  BY ContentType, Zenon
<1>3. \A i \in 1..n : Content(b)[i] = b.buffer_[b.readerIndex_ + i]
  BY ContentType, Zenon
<1>4. /\ r \in [buffer_ : Seq(Byte), readerIndex_ : Nat, writerIndex_ : Nat]
      /\ r.buffer_ = b.buffer_
      /\ r.writerIndex_ - r.readerIndex_ = n - len
      /\ r.readerIndex_ <= r.writerIndex_ /\ r.writerIndex_ <= Len(b.buffer_)
      /\ len < n => r.readerIndex_ = b.readerIndex_ + len
  <2>1. CASE len < n
    <3>1. r = [b EXCEPT !.readerIndex_ = b.readerIndex_ + len]
      BY <2>1, Zenon DEF retrieve
    <3>2. /\ r \in [buffer_ : Seq(Byte), readerIndex_ : Nat, writerIndex_ : Nat]
          /\ r.buffer_ = b.buffer_ /\ r.writerIndex_ = b.writerIndex_
          /\ r.readerIndex_ = b.readerIndex_ + len
      BY <1>1, <3>1 DEF WellFormed
    <3>. HIDE DEF r, n
    <3>. QED
      BY <1>1, <2>1, <3>2
  <2>2. CASE ~(len < n)
    <3>1. r = [b EXCEPT !.readerIndex_ = kCheapPrepend, !.writerIndex_ = kCheapPrepend]
      BY <2>2, Zenon DEF retrieve, retrieveAll
    <3>2. len = n
      BY <1>1, <2>2
    <3>3. /\ r \in [buffer_ : Seq(Byte), readerIndex_ : Nat, writerIndex_ : Nat]
          /\ r.buffer_ = b.buffer_ /\ r.writerIndex_ = kCheapPrepend
          /\ r.readerIndex_ = kCheapPrepend
      BY <1>1, <3>1, Zenon DEF WellFormed
    <3>. HIDE DEF r, n
    <3>. QED
      BY <1>1, <3>2, <3>3
  <2>. QED
    BY <2>1, <2>2, Zenon
<1>. HIDE DEF r
<1>5. WellFormed(r) /\ readableBytes(r) = n - len
  BY <1>1, <1>4, Zenon DEF WellFormed, readableBytes
<1>6. /\ Content(r) \in Seq(Byte) /\ Len(Content(r)) = n - len
      /\ \A i \in 1..(n - len) : Content(r)[i] = b.buffer_[r.readerIndex_ + i]
  BY <1>4, <1>5, ContentType, Zenon
<1>. HIDE DEF n
<1>7. /\ s \in Seq(Byte)
      /\ Len(s) = n - len
      /\ \A i \in 1..(n - len) : s[i] = Content(b)[len + i]
  <2>1. \A i \in (len + 1)..n : Content(b)[i] \in Byte
    BY <1>1, <1>2, ElementOfSeq
  <2>2. /\ s \in Seq(Byte)
        /\ Len(s) = IF len + 1 <= n THEN n - (len + 1) + 1 ELSE 0
        /\ \A i \in 1..(n - (len + 1) + 1) : s[i] = Content(b)[(len + 1) + i - 1]
    BY <1>1, <2>1, SubSeqProperties
  <2>3. /\ n - (len + 1) + 1 = n - len
        /\ \A i \in 1..(n - len) : (len + 1) + i - 1 = len + i
    BY <1>1
  <2>. QED
    BY <1>1, <2>2, <2>3
<1>. HIDE DEF s
<1>8. \A i \in 1..(n - len) : Content(r)[i] = s[i]
  <2>. TAKE i \in 1..(n - len)
  <2>1. /\ len < n /\ len + i \in 1..n
        /\ r.readerIndex_ + i = b.readerIndex_ + (len + i)
    BY <1>1, <1>4, SMTT(60)
  <2>. QED
    BY <1>3, <1>6, <1>7, <2>1, Zenon
<1>9. Content(r) = s
  BY <1>6, <1>7, <1>8, SeqEqual, Zenon
<1>. QED
  BY <1>2, <1>5, <1>9, Zenon DEF r, s

\* unwrite() drops the last bytes of the content.
LEMMA UnwriteType ==
  ASSUME NEW b, WellFormed(b), NEW len \in 0..readableBytes(b)
  PROVE  /\ WellFormed(unwrite(b, len))
         /\ Content(unwrite(b, len)) = SubSeq(Content(b), 1, Len(Content(b)) - len)
<1>. DEFINE u == unwrite(b, len)
            n == readableBytes(b)
            s == SubSeq(Content(b), 1, n - len)
<1>1. /\ n \in Nat /\ Len(b.buffer_) \in Nat /\ len \in Nat /\ len <= n
      /\ b.buffer_ \in Seq(Byte) /\ b.readerIndex_ \in Nat /\ b.writerIndex_ \in Nat
      /\ b.writerIndex_ = b.readerIndex_ + n /\ b.writerIndex_ <= Len(b.buffer_)
      /\ kCheapPrepend <= Len(b.buffer_)
  BY LenProperties DEF WellFormed, readableBytes
<1>2. Content(b) \in Seq(Byte) /\ Len(Content(b)) = n
  BY ContentType, Zenon
<1>3. \A i \in 1..n : Content(b)[i] = b.buffer_[b.readerIndex_ + i]
  BY ContentType, Zenon
<1>4. /\ u \in [buffer_ : Seq(Byte), readerIndex_ : Nat, writerIndex_ : Nat]
      /\ u.buffer_ = b.buffer_ /\ u.readerIndex_ = b.readerIndex_
      /\ u.writerIndex_ = b.writerIndex_ - len
  <2>1. b.writerIndex_ - len \in Nat /\ u = [b EXCEPT !.writerIndex_ = b.writerIndex_ - len]
    BY <1>1 DEF unwrite
  <2>. QED
    BY <2>1, Zenon DEF WellFormed
<1>. HIDE DEF u
<1>5. WellFormed(u) /\ readableBytes(u) = n - len
  BY <1>1, <1>4, SMTT(60) DEF WellFormed, readableBytes
<1>6. /\ Content(u) \in Seq(Byte) /\ Len(Content(u)) = n - len
      /\ \A i \in 1..(n - len) : Content(u)[i] = b.buffer_[b.readerIndex_ + i]
  BY <1>4, <1>5, ContentType, ZenonT(60)
<1>. HIDE DEF n
<1>7. /\ s \in Seq(Byte) /\ Len(s) = n - len
      /\ \A i \in 1..(n - len) : s[i] = Content(b)[i]
  <2>1. \A i \in 1..(n - len) : Content(b)[i] \in Byte
    BY <1>1, <1>2, ElementOfSeq
  <2>2. /\ s \in Seq(Byte)
        /\ Len(s) = IF 1 <= n - len THEN (n - len) - 1 + 1 ELSE 0
        /\ \A i \in 1..((n - len) - 1 + 1) : s[i] = Content(b)[1 + i - 1]
    BY <1>1, <2>1, SubSeqProperties
  <2>. QED
    BY <1>1, <2>2, SMTT(60)
<1>. HIDE DEF s
<1>8. \A i \in 1..(n - len) : Content(u)[i] = s[i]
  BY <1>1, <1>3, <1>6, <1>7, SMTT(60)
<1>9. Content(u) = s
  BY <1>6, <1>7, <1>8, SeqEqual, Zenon
<1>. QED
  BY <1>2, <1>5, <1>9, Zenon DEF u, s

\* shrink() keeps the content.
LEMMA ShrinkType ==
  ASSUME NEW b, WellFormed(b), NEW reserve \in Nat
  PROVE  WellFormed(shrink(b, reserve)) /\ Content(shrink(b, reserve)) = Content(b)
<1>. DEFINE e == ensureWritableBytes(NewBuffer, readableBytes(b) + reserve)
<1>1. readableBytes(b) + reserve \in Nat /\ Content(b) \in Seq(Byte)
  BY ContentType
<1>2. WellFormed(e) /\ Content(e) = << >>
  BY <1>1, NewBufferType, EnsureType, Zenon
<1>. HIDE DEF e
<1>3. WellFormed(append(e, Content(b))) /\ Content(append(e, Content(b))) = << >> \o Content(b)
  BY <1>1, <1>2, AppendType, Zenon
<1>4. << >> \o Content(b) = Content(b)
  BY <1>1, ConcatEmptySeq, Zenon
<1>. QED
  BY <1>3, <1>4, Zenon DEF shrink, e

\* readFd() appends what readv() returned, with or without extrabuf.
LEMMA ReadFdType ==
  ASSUME NEW b, WellFormed(b), NEW data \in Seq(Byte)
  PROVE  WellFormed(readFd(b, data)) /\ Content(readFd(b, data)) = Content(b) \o data
<1>. DEFINE w == writableBytes(b)
            fst == SubSeq(data, 1, w)
            snd == SubSeq(data, w + 1, Len(data))
<1>1. w \in Nat /\ Len(data) \in Nat /\ Content(b) \in Seq(Byte)
  BY LenProperties, ContentType DEF WellFormed, writableBytes
<1>2. CASE Len(data) <= w
  BY <1>2, WriteType, Zenon DEF readFd
<1>3. CASE ~(Len(data) <= w)
  <2>1. fst \in Seq(Byte) /\ snd \in Seq(Byte) /\ Len(fst) = w
    <3>1. \A i \in 1..w : data[i] \in Byte
      BY <1>1, <1>3, ElementOfSeq
    <3>2. \A i \in (w + 1)..Len(data) : data[i] \in Byte
      BY <1>1, ElementOfSeq
    <3>3. fst \in Seq(Byte) /\ Len(fst) = IF 1 <= w THEN w - 1 + 1 ELSE 0
      BY <1>1, <3>1, SubSeqProperties
    <3>4. snd \in Seq(Byte)
      BY <1>1, <3>2, SubSeqProperties
    <3>. QED
      BY <1>1, <3>3, <3>4
  <2>2. fst \o snd = data
    <3>1. SubSeq(data, 1, w) \o SubSeq(data, w + 1, Len(data)) = SubSeq(data, 1, Len(data))
      BY <1>1, <1>3, ConcatAdjacentSubSeq, SMTT(60)
    <3>. QED
      BY <3>1, SubSeqFull, Zenon
  <2>3. readFd(b, data) = append(Write(b, fst), snd)
    BY <1>3, Zenon DEF readFd
  <2>. HIDE DEF fst, snd
  <2>4. WellFormed(Write(b, fst)) /\ Content(Write(b, fst)) = Content(b) \o fst
    BY <1>1, <2>1, WriteType, SMTT(60)
  <2>5. /\ WellFormed(append(Write(b, fst), snd))
        /\ Content(append(Write(b, fst), snd)) = (Content(b) \o fst) \o snd
    BY <2>1, <2>4, AppendType, Zenon
  <2>6. (Content(b) \o fst) \o snd = Content(b) \o (fst \o snd)
    <3>1. \A s, t, u \in Seq(Byte) : (s \o t) \o u = s \o (t \o u)
      BY ConcatAssociative, SMTT(60)
    <3>2. Content(b) \in Seq(Byte) /\ fst \in Seq(Byte) /\ snd \in Seq(Byte)
      BY <1>1, <2>1, Zenon
    <3>. QED
      BY <3>1, <3>2, ZenonT(60)
  <2>. QED
    BY <2>2, <2>3, <2>5, <2>6, Zenon
<1>. QED
  BY <1>2, <1>3, Zenon
-----------------------------------------------------------------------------
\* Every call keeps 0 <= readerIndex <= writerIndex <= size: the assertions of
\* retrieve(), hasWritten(), unwrite() and prepend() are all a caller must meet.
THEOREM TypeCorrect == Spec => []TypeOK
<1>1. Init => TypeOK
  BY NewBufferType, Zenon DEF Init, TypeOK
<1>2. TypeOK /\ [Next]_vars => TypeOK'
  <2>. SUFFICES ASSUME TypeOK, [Next]_vars PROVE TypeOK'
    BY Zenon
  <2>. USE DEF TypeOK, Leaves
  <2>1. ASSUME NEW d \in Data, AppendData(d) \/ HasWritten(d) \/ ReadFd(d) \/ Prepend(d)
        PROVE  TypeOK'
    BY <2>1, BufferAssumption, AppendType, WriteType, ReadFdType, PrependType, Zenon
       DEF AppendData, HasWritten, ReadFd, Prepend
  <2>2. ASSUME NEW len \in 0..readableBytes(buf), Retrieve(len) \/ Unwrite(len)
        PROVE  TypeOK'
    BY <2>2, RetrieveType, UnwriteType, Zenon DEF Retrieve, Unwrite
  <2>3. ASSUME NEW reserve \in Reserves, Shrink(reserve) PROVE TypeOK'
    BY <2>3, BufferAssumption, ShrinkType, Zenon DEF Shrink
  <2>4. CASE UNCHANGED vars
    BY <2>4, Zenon DEF vars
  <2>. QED
    BY <2>1, <2>2, <2>3, <2>4, Zenon DEF Next
<1>. QED
  BY <1>1, <1>2, PTL DEF Spec

\* ensureWritableBytes() makes the room asked for, for every length, keeps
\* the content, and moves bytes only when makeSpace()'s assertion
\* kCheapPrepend < readerIndex_ holds.
THEOREM RoomAlwaysMade == Spec => []RoomIsMade
<1>1. ASSUME TypeOK PROVE \A len \in Nat :
        LET b == ensureWritableBytes(buf, len)
        IN  /\ writableBytes(b) >= len
            /\ Content(b) = Content(buf)
            /\ writableBytes(buf) < len /\ RoomWithMoving(buf, len)
                 => kCheapPrepend < buf.readerIndex_
  <2>. TAKE len \in Nat
  <2>1. /\ writableBytes(ensureWritableBytes(buf, len)) >= len
        /\ Content(ensureWritableBytes(buf, len)) = Content(buf)
    BY <1>1, EnsureType, Zenon DEF TypeOK
  <2>2. writableBytes(buf) \in Int /\ buf.readerIndex_ \in Nat /\ kCheapPrepend \in Nat
    BY <1>1, LenProperties, BufferAssumption DEF TypeOK, WellFormed, writableBytes
  <2>3. writableBytes(buf) < len /\ RoomWithMoving(buf, len)
          => kCheapPrepend < buf.readerIndex_
    BY <2>2 DEF RoomWithMoving, prependableBytes
  <2>. QED
    BY <2>1, <2>3, Zenon
<1>2. TypeOK => RoomIsMade
  BY <1>1 DEF RoomIsMade
<1>. QED
  BY <1>2, TypeCorrect, PTL

\* To its callers the buffer is a queue of bytes that can also be extended in
\* front: no call loses, repeats or reorders a byte, wherever the bytes lie.
THEOREM BufferIsByteQueue == Spec => IsByteQueue
<1>1. Init => Queue!Init
  BY NewBufferType, Zenon DEF Init, Queue!Init
<1>2. TypeOK /\ [Next]_vars => [Queue!Next]_<<Content(buf), op>>
  <2>. SUFFICES ASSUME TypeOK, [Next]_vars PROVE [Queue!Next]_<<Content(buf), op>>
    BY Zenon
  <2>0. WellFormed(buf) /\ Content(buf) \in Seq(Byte) /\ Len(Content(buf)) = readableBytes(buf)
    BY ContentType, Zenon DEF TypeOK
  <2>1. ASSUME NEW d \in Data, AppendData(d) PROVE Queue!PutBack(d)
    BY <2>0, <2>1, BufferAssumption, AppendType, Zenon DEF AppendData, Leaves, Queue!PutBack
  <2>2. ASSUME NEW d \in Data, HasWritten(d) PROVE Queue!PutBack(d)
    BY <2>0, <2>2, BufferAssumption, WriteType, Zenon DEF HasWritten, Leaves, Queue!PutBack
  <2>3. ASSUME NEW d \in Data, ReadFd(d) PROVE Queue!PutBack(d)
    BY <2>0, <2>3, BufferAssumption, ReadFdType, Zenon DEF ReadFd, Leaves, Queue!PutBack
  <2>4. ASSUME NEW d \in Data, Prepend(d) PROVE Queue!PutFront(d)
    BY <2>0, <2>4, BufferAssumption, PrependType, Zenon DEF Prepend, Leaves, Queue!PutFront
  <2>5. ASSUME NEW len \in 0..readableBytes(buf), Retrieve(len) PROVE Queue!TakeFront(len)
    BY <2>0, <2>5, RetrieveType, Zenon DEF Retrieve, Leaves, Queue!TakeFront
  <2>6. ASSUME NEW len \in 0..readableBytes(buf), Unwrite(len) PROVE Queue!DropBack(len)
    BY <2>0, <2>6, UnwriteType, Zenon DEF Unwrite, Leaves, Queue!DropBack
  <2>7. ASSUME NEW reserve \in Reserves, Shrink(reserve) PROVE Queue!Reorganise
    BY <2>0, <2>7, BufferAssumption, ShrinkType, Zenon DEF Shrink, Leaves, Queue!Reorganise
  <2>8. CASE UNCHANGED vars
    BY <2>8, Zenon DEF vars, Content, readableBytes
  <2>. QED
    BY <2>0, <2>1, <2>2, <2>3, <2>4, <2>5, <2>6, <2>7, <2>8, Zenon DEF Next, Queue!Next
<1>. QED
  BY <1>1, <1>2, TypeCorrect, PTL DEF Spec, IsByteQueue, Queue!Spec
=============================================================================
