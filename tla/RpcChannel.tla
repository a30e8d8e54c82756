----------------------------- MODULE RpcChannel -----------------------------
(***************************************************************************)
(* Remote calls (src/net/protorpc): a client's RpcChannel and the one      *)
(* RpcServer::onConnection makes for the connection, over the codec of     *)
(* ProtobufCodecLite.  Threads of the client call CallMethod at any time;  *)
(* the loops read what has arrived in pieces of any size; a service may    *)
(* run its done closure at any later time and in any order; the            *)
(* connection may go down at any time.                                     *)
(*                                                                         *)
(* TcpConnection::send of the two ends is abstract: it appends to the      *)
(* stream while the sender's end is connected and is void otherwise        *)
(* (TcpConnection models it).                                              *)
(***************************************************************************)
EXTENDS ProtobufCodecLite, FiniteSets

CONSTANTS
  Calls,   \* the calls the client's threads make
  Kinds,   \* what a request may be: see ErrorOf
  Services \* the services registered at the server

Unsent == 0

VARIABLES
  kind,          \* what each call asks for
  pc,            \* where each call's CallMethod stands
  id,            \* the id each call got
  id_,           \* RpcChannel: the last id given
  outstandings_, \* RpcChannel: the calls waiting for an answer, by id
  results,       \* what each call's done found, one entry per run
  toServer, toClient,         \* the bytes in flight
  serverInput, clientInput,   \* the two input buffers
  link,          \* the connection: up or down
  shut,          \* the ends that have shut down: they send no more
  channel,       \* the server's RpcChannel: alive or freed
  pending,       \* the done closures the services hold: <<id, call>>
  codecError,    \* a codec's errorCallback_ ran
  mishaps

callers == <<kind, pc, id, id_>>
server == <<serverInput, channel, pending>>
vars == <<callers, outstandings_, results, toServer, toClient, clientInput, link, shut, server,
          codecError, mishaps>>

-----------------------------------------------------------------------------
(* Messages *)

\* Lengths depend on what is carried: a "huge" request, or the reply to a
\* "hugereply", is longer than the receiver takes, and fillEmptyBuffer does
\* not mind.
LengthOf(k) == IF k = "huge" THEN kMaxMessageLen + 1 ELSE kMinMessageLen
ReplyLengthOf(k) == IF k = "hugereply" THEN kMaxMessageLen + 1 ELSE kMaxMessageLen

Request(n, c) == [type |-> "REQUEST", tag |-> tag_, id |-> n, call |-> c, len |-> LengthOf(kind[c])]
Response(n, c) == [type |-> "RESPONSE", tag |-> tag_, id |-> n, call |-> c, error |-> "NO_ERROR",
                   len |-> ReplyLengthOf(kind[c])]
Failure(n, e) == [type |-> "RESPONSE", tag |-> tag_, id |-> n, error |-> e, len |-> kMinMessageLen]

\* What RpcChannel::onRpcMessage makes of a request.
ErrorOf(k) ==
  CASE "echo" \notin Services \/ k = "noservice" -> "NO_SERVICE"
    [] "echo" \in Services /\ k = "nomethod" -> "NO_METHOD"
    [] "echo" \in Services /\ k = "unparsable" -> "INVALID_REQUEST"
    [] OTHER -> "NO_ERROR"

send(end, wire, m) == IF link = "up" /\ end \notin shut THEN wire \o fillEmptyBuffer(m) ELSE wire

\* ProtobufCodecLite::defaultErrorCallback: shutdown, if connected.
defaultErrorCallback(end, error) ==
  /\ codecError' = (codecError \/ error # "kNoError")
  /\ shut' = IF error # "kNoError" THEN shut \union {end} ELSE shut

-----------------------------------------------------------------------------
(* CallMethod, in a thread of the client *)

\* The next id read from id_ without the increment: calls share it.
TakeNext(c) ==
  /\ pc[c] = "idle"
  /\ pc' = [pc EXCEPT ![c] = "numbered"]
  /\ id' = [id EXCEPT ![c] = id_ + 1]
  /\ UNCHANGED <<kind, id_, outstandings_, results, toServer, toClient, clientInput, link, shut, server, codecError, mishaps>>

\* int64_t id = id_.incrementAndGet()
TakeId(c) ==
  /\ pc[c] = "idle"
  /\ pc' = [pc EXCEPT ![c] = "numbered"]
  /\ id_' = id_ + 1
  /\ id' = [id EXCEPT ![c] = id_ + 1]
  /\ UNCHANGED <<kind, outstandings_, results, toServer, toClient, clientInput, link, shut, server, codecError, mishaps>>

Insert(c) ==
  /\ pc[c] = "numbered"
  /\ pc' = [pc EXCEPT ![c] = "listed"]
  /\ outstandings_' = [n \in DOMAIN outstandings_ \union {id[c]} |-> IF n = id[c] THEN c ELSE outstandings_[n]]
  /\ UNCHANGED <<kind, id, id_, results, toServer, toClient, clientInput, link, shut, server, codecError, mishaps>>

Send(c) ==
  /\ pc[c] = "listed"
  /\ pc' = [pc EXCEPT ![c] = "called"]
  /\ toServer' = send("client", toServer, Request(id[c], c))
  /\ UNCHANGED <<kind, id, id_, outstandings_, results, toClient, clientInput, link, shut, server, codecError, mishaps>>

-----------------------------------------------------------------------------
(* onRpcMessage *)

Failures(messages) ==
  LET refused == SelectSeq(messages, LAMBDA m : ErrorOf(kind[m.call]) # "NO_ERROR")
  IN  [i \in DOMAIN refused |-> Failure(refused[i].id, ErrorOf(kind[refused[i].call]))]

RECURSIVE Frames(_)
Frames(messages) ==
  IF messages = <<>> THEN <<>> ELSE fillEmptyBuffer(Head(messages)) \o Frames(Tail(messages))

\* The server's loop reads n units: requests are handed to their service or
\* refused.
ServerReads(n) ==
  LET got == decode(serverInput \o SubSeq(toServer, 1, n), <<>>)
      served == {m \in {got.messages[i] : i \in DOMAIN got.messages} : ErrorOf(kind[m.call]) = "NO_ERROR"}
  IN  /\ link # "down"
      /\ toServer' = SubSeq(toServer, n + 1, Len(toServer))
      /\ serverInput' = got.rest
      /\ pending' = pending \union {<<m.id, m.call>> : m \in served}
      /\ toClient' = IF "server" \in shut THEN toClient ELSE toClient \o Frames(Failures(got.messages))
      /\ defaultErrorCallback("server", got.error)
      /\ UNCHANGED <<callers, outstandings_, results, clientInput, link, channel, mishaps>>

\* A service runs the closure it was given: RpcChannel::doneCallback, on the
\* channel the closure holds a plain pointer to.
doneCallback(p) ==
  /\ p \in pending
  /\ pending' = pending \ {p}
  /\ mishaps' = mishaps \union (IF channel = "freed" THEN {"doneAfterFree"} ELSE {})
  /\ toClient' = IF channel = "alive" THEN send("server", toClient, Response(p[1], p[2])) ELSE toClient
  /\ UNCHANGED <<callers, outstandings_, results, toServer, clientInput, link, shut, serverInput, channel, codecError>>

\* The responses of one read, applied in order: each takes its call out of
\* outstandings_ and runs done, which finds the response filled in or, after
\* an error, untouched.
RECURSIVE complete(_, _, _)
complete(messages, outstanding, found) ==
  IF messages = <<>> THEN [outstanding |-> outstanding, found |-> found]
  ELSE LET m == Head(messages)
           value == IF m.error = "NO_ERROR" THEN <<"reply", m.call>> ELSE <<"untouched">>
       IN  IF m.id \notin DOMAIN outstanding THEN complete(Tail(messages), outstanding, found)
           ELSE complete(Tail(messages), [n \in DOMAIN outstanding \ {m.id} |-> outstanding[n]],
                         [found EXCEPT ![outstanding[m.id]] = Append(@, value)])

ClientReads(n) ==
  LET got == decode(clientInput \o SubSeq(toClient, 1, n), <<>>)
      after == complete(got.messages, outstandings_, results)
  IN  /\ link # "down"
      /\ toClient' = SubSeq(toClient, n + 1, Len(toClient))
      /\ clientInput' = got.rest
      /\ outstandings_' = after.outstanding
      /\ results' = after.found
      /\ defaultErrorCallback("client", got.error)
      /\ UNCHANGED <<callers, toServer, link, server, mishaps>>

-----------------------------------------------------------------------------
(* RpcServer::onConnection, when the connection goes down: the context, and  *)
(* with it the channel, is let go of.  What has not been read is lost.       *)

onConnectionDown ==
  /\ link' = "down"
  /\ channel' = "freed"
  /\ toServer' = <<>> /\ toClient' = <<>>
  /\ serverInput' = <<>> /\ clientInput' = <<>>
  /\ UNCHANGED <<callers, outstandings_, results, shut, pending, codecError, mishaps>>

\* An end has read to the end of a stream that the other shut down, and
\* closes: handleClose at both.
Closed ==
  /\ link = "up"
  /\ ("server" \in shut /\ toClient = <<>>) \/ ("client" \in shut /\ toServer = <<>>)
  /\ onConnectionDown

\* The network fails.
Breaks == link = "up" /\ onConnectionDown

Init ==
  /\ kind \in [Calls -> Kinds]
  /\ pc = [c \in Calls |-> "idle"]
  /\ id = [c \in Calls |-> Unsent]
  /\ id_ = 0
  /\ outstandings_ = <<>>
  /\ results = [c \in Calls |-> <<>>]
  /\ toServer = <<>> /\ toClient = <<>>
  /\ serverInput = <<>> /\ clientInput = <<>>
  /\ link = "up"
  /\ shut = {}
  /\ channel = "alive"
  /\ pending = {}
  /\ codecError = FALSE
  /\ mishaps = {}

Next ==
  \/ \E c \in Calls : TakeId(c) \/ Insert(c) \/ Send(c)
  \/ \E n \in 1..Len(toServer) : ServerReads(n)
  \/ \E n \in 1..Len(toClient) : ClientReads(n)
  \/ \E p \in pending : doneCallback(p)
  \/ Closed
  \/ Breaks

\* The client's threads go on, both loops read what has arrived (the poller
\* is level-triggered), and services answer what they are asked.
Fairness ==
  /\ \A c \in Calls : WF_vars(TakeId(c)) /\ WF_vars(Insert(c)) /\ WF_vars(Send(c))
  /\ WF_vars(\E n \in 1..Len(toServer) : ServerReads(n))
  /\ WF_vars(\E n \in 1..Len(toClient) : ClientReads(n))
  /\ WF_vars(\E p \in pending : doneCallback(p))
  /\ WF_vars(Closed)

Spec == Init /\ [][Next]_vars /\ Fairness

(***************************************************************************)
(* Properties                                                              *)
(***************************************************************************)

\* The done of a call runs once at most, and finds the reply to its own
\* request, or after a refusal none, in whatever order threads called and
\* services answered and however the bytes were cut (CallMethod numbers the
\* call and lists it before it sends; onRpcMessage takes it off the list).
RepliesMatch ==
  \A c \in Calls :
    /\ Len(results[c]) <= 1
    /\ results[c] # <<>> =>
         results[c][1] = IF ErrorOf(kind[c]) = "NO_ERROR" THEN <<"reply", c>> ELSE <<"untouched">>

\* Of two ends that use one codec, neither takes the other's bytes for a bad
\* frame unless a message was too long for it, which the sender does not
\* check (ProtobufCodecLite::onMessage and fillEmptyBuffer).
OnlyHugeFails == codecError => \E c \in Calls : pc[c] = "called" /\ kind[c] \in {"huge", "hugereply"}

\* A call made while the connection stays up, and neither end shuts down, is answered.  (When it goes
\* down, the call stays in outstandings_ and its done never runs:
\* RpcChannel.cpp:67.)
CallsComplete == \A c \in Calls : (pc[c] = "called") ~> (results[c] # <<>> \/ shut # {} \/ link = "down")

\* Calls are kept apart: each gets its own answer, and the codec finds every
\* frame where the sender put it.
CallsApart == RepliesMatch /\ OnlyHugeFails

=============================================================================
