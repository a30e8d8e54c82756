-------------------------- MODULE ProtobufCodecLite --------------------------
(***************************************************************************)
(* The framing of src/net/protobuf/ProtobufCodecLite.cpp: a length, a tag  *)
(* and the message, a checksum.  A byte string is a sequence of units.  A  *)
(* frame is one unit for the length field and then as many units as the    *)
(* field says; unit i of a body carries the message it is part of and i,   *)
(* so that a body is intact (its checksum is right) when it is all the     *)
(* units of one message in order.                                          *)
(***************************************************************************)
EXTENDS Integers, Sequences

CONSTANTS
  tag_,            \* the codec's tag
  kMinMessageLen,  \* tag and checksum
  kMaxMessageLen   \* 64 MiB in the code

ASSUME CodecAssumption == 0 < kMinMessageLen /\ kMinMessageLen <= kMaxMessageLen

kHeaderLen == 1

\* A message is a record with the fields tag and len; len counts tag, message
\* and checksum.  Nothing here compares len with kMaxMessageLen.
fillEmptyBuffer(m) ==
  <<[length |-> m.len]>> \o [i \in 1..m.len |-> [message |-> m, part |-> i]]

peekInt32(buf) == IF "length" \in DOMAIN buf[1] THEN buf[1].length ELSE -1

validateChecksum(body) ==
  \A i \in DOMAIN body :
    /\ "part" \in DOMAIN body[i] /\ body[i].part = i
    /\ body[i].message = body[1].message
    /\ body[1].message.len = Len(body)

\* A message parses when it has the fields that rpc.proto requires.
parseFromBuffer(m) == {"type", "id"} \subseteq DOMAIN m

parse(body) ==
  IF ~validateChecksum(body) THEN "kCheckSumError"
  ELSE IF body[1].message.tag # tag_ THEN "kUnknownMessageType"
  ELSE IF ~parseFromBuffer(body[1].message) THEN "kParseError"
  ELSE "kNoError"

\* A loop that takes one message per call, as if its break were unconditional.
atMostOne(messages) == Len(messages) = 0
goOn(messages) == TRUE

\* What a decoded frame takes off the buffer; and without its length field.
bodyOnly(len) == len
frameLen(len) == kHeaderLen + len

\* onMessage: the messages given to messageCallback_, the error given to
\* errorCallback_, and what stays in the buffer.  The codec of an RpcChannel has no
\* rawCb_, so that every frame goes on to parse().
RECURSIVE decode(_, _)
decode(buf, messages) ==
  IF Len(buf) < kMinMessageLen + kHeaderLen \/ ~goOn(messages)
  THEN [messages |-> messages, error |-> "kNoError", rest |-> buf]
  ELSE LET len == peekInt32(buf)
           body == SubSeq(buf, kHeaderLen + 1, kHeaderLen + len)
       IN  IF len > kMaxMessageLen \/ len < kMinMessageLen
           THEN [messages |-> messages, error |-> "kInvalidLength", rest |-> buf]
           ELSE IF Len(buf) < kHeaderLen + len
           THEN [messages |-> messages, error |-> "kNoError", rest |-> buf]
           ELSE IF parse(body) # "kNoError"
           THEN [messages |-> messages, error |-> parse(body), rest |-> buf]
           ELSE decode(SubSeq(buf, frameLen(len) + 1, Len(buf)), Append(messages, body[1].message))
=============================================================================
