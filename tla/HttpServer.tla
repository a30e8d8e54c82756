----------------------------- MODULE HttpServer -----------------------------
(***************************************************************************)
(* The HTTP server (src/net/http) on one connection, with the Inspector    *)
(* (src/net/inspect) as its httpCallback_.  A client's bytes arrive in     *)
(* pieces of any size; each piece is one call of HttpServer::onMessage,    *)
(* which parses what it can, answers at most one request and leaves the    *)
(* rest in the connection's input buffer.                                  *)
(*                                                                         *)
(* A byte string is a sequence of atoms: the text of a request line, the   *)
(* text of a header line, other text without blank or colon, and CRLF.     *)
(* Splitting an atom in two would change nothing, since the parser only    *)
(* ever looks at the text before a CRLF.                                   *)
(***************************************************************************)
EXTENDS Integers, Sequences, SequencesExt

CONSTANTS
  Requests,     \* what a client may send: sequences of atoms
  MaxRequests,  \* how many of them it sends
  Builtin,      \* the commands registered before the server starts: module, command
  UserCommands  \* the commands other threads add and remove

VARIABLES
  httpCallback_, \* "inspector", or "default" when nobody called setHttpCallback
  modules_,      \* Inspector: the commands of each module
  helps_,        \* Inspector: the commands each module lists
  net,           \* sent by the client and not yet read
  input,         \* the connection's input buffer
  context,       \* the HttpContext in the connection's context_
  state_,        \* the TcpConnection's state: connected, disconnecting, down
  sent,          \* the responses handed to the kernel
  aborted,       \* an assertion failed
  delivered,     \* every atom ever read
  asked,         \* how many requests the client has sent
  pipelined      \* the client once sent a request before the previous answer

inspector == <<modules_, helps_>>
history == <<delivered, asked, pipelined>>
vars == <<httpCallback_, inspector, net, input, context, state_, sent, aborted, history>>

CRLF == [kind |-> "crlf"]

-----------------------------------------------------------------------------
(* HttpRequest and HttpContext *)

Methods == {"GET", "POST", "HEAD", "PUT", "DELETE"}

\* Only the Connection header is ever looked up by the server.
HttpRequest == [method_ |-> "kInvalid", version_ |-> "kUnknown", path_ |-> <<>>, headers_ |-> [Connection |-> ""]]

HttpContext == [state_ |-> "kExpectRequestLine", request_ |-> HttpRequest]

\* A reset that forgets the headers, and one that forgets the method.
keepHeaders(ctx) == [HttpContext EXCEPT !.request_.headers_ = ctx.request_.headers_]
keepMethod(ctx) == [HttpContext EXCEPT !.request_.method_ = ctx.request_.method_]

reset(ctx) == HttpContext

findCRLF(buf) == IF Contains(buf, CRLF) THEN SelectInSeq(buf, LAMBDA a : a = CRLF) ELSE 0

HasSpace(line) == \E i \in DOMAIN line : line[i].kind \in {"request", "header"}
HasColon(line) == \E i \in DOMAIN line : line[i].kind = "header"

\* The text before the first blank of a line that has one.
FirstWord(line) == IF line[1].kind = "request" THEN line[1].method ELSE "other"

setMethod(m) == IF m \in Methods THEN m ELSE "kInvalid"

\* assert(method_ == kInvalid), on entry to setMethod.
AssertsInvalid(ctx, buf) ==
  LET line == SubSeq(buf, 1, findCRLF(buf) - 1)
  IN  (ctx.state_ = "kExpectRequestLine" /\ findCRLF(buf) > 0 /\ HasSpace(line))
        => ctx.request_.method_ = "kInvalid"

\* setPath and setQuery: the target up to its question mark.
PathOf(target) == SubSeq(target, 1, SelectInSeq(Append(target, "?"), LAMBDA c : c = "?") - 1)

Version(v) == CASE v = "HTTP/1.1" -> "kHttp11" [] v = "HTTP/1.0" -> "kHttp10" [] OTHER -> "kUnknown"

processRequestLine(req, line) ==
  IF ~HasSpace(line) THEN [succeed |-> FALSE, request |-> req]
  ELSE LET named == [req EXCEPT !.method_ = setMethod(FirstWord(line))]
           whole == [named EXCEPT !.path_ = PathOf(line[1].target), !.version_ = Version(line[1].version)]
       IN  IF named.method_ = "kInvalid" THEN [succeed |-> FALSE, request |-> named]
           ELSE [succeed |-> Len(line) = 1 /\ whole.version_ # "kUnknown", request |-> whole]

addHeader(req, line) ==
  IF Len(line) = 1 /\ line[1].field = "Connection"
  THEN [req EXCEPT !.headers_.Connection = line[1].value] ELSE req

\* A parser that drops what follows the request it has just completed.
leaveNothing(rest) == <<>>
retrieveUntil(rest) == rest

RECURSIVE parseRequest(_, _)
parseRequest(ctx, buf) ==
  LET crlf == findCRLF(buf)
      line == SubSeq(buf, 1, crlf - 1)
      rest == SubSeq(buf, crlf + 1, Len(buf))
      parsed == processRequestLine(ctx.request_, line)
  IN  CASE crlf = 0 -> [ok |-> TRUE, ctx |-> ctx, buf |-> buf]
        [] crlf > 0 /\ ctx.state_ = "kExpectRequestLine" ->
             IF parsed.succeed
             THEN parseRequest([state_ |-> "kExpectHeaders", request_ |-> parsed.request], retrieveUntil(rest))
             ELSE [ok |-> FALSE, ctx |-> [ctx EXCEPT !.request_ = parsed.request], buf |-> buf]
        [] crlf > 0 /\ ctx.state_ = "kExpectHeaders" ->
             IF HasColon(line)
             THEN parseRequest([ctx EXCEPT !.request_ = addHeader(@, line)], retrieveUntil(rest))
             ELSE [ok |-> TRUE, ctx |-> [ctx EXCEPT !.state_ = "kGotAll"], buf |-> retrieveUntil(rest)]

gotAll(ctx) == ctx.state_ = "kGotAll"

-----------------------------------------------------------------------------
(* Inspector *)

split(path) == SelectSeq(path, LAMBDA c : c # "/")

Registered(modules, module, command) == module \in DOMAIN modules /\ command \in modules[module]

\* The status Inspector::onRequest sets, and what the page "/" lists.
Inspect(path) ==
  LET words == split(path)
      found == CASE Len(words) = 0 -> FALSE
                 [] Len(words) = 1 -> words[1] = "favicon.ico"
                 [] OTHER -> Registered(modules_, words[1], words[2])
  IN  CASE path = <<"/">> -> [status |-> 200, lists |-> helps_]
        [] path # <<"/">> /\ found -> [status |-> 200, lists |-> <<>>]
        [] OTHER -> [status |-> 404, lists |-> <<>>]

With(modules, module, command) ==
  [m \in DOMAIN modules \union {module} |->
     (IF m \in DOMAIN modules THEN modules[m] ELSE {}) \union (IF m = module THEN {command} ELSE {})]

Without(modules, module, command) ==
  IF module \in DOMAIN modules THEN [modules EXCEPT ![module] = @ \ {command}] ELSE modules

\* The maps after the inspectors' registerCommands.
registerCommands == [m \in {c[1] : c \in Builtin} |-> {c[2] : c \in {d \in Builtin : d[1] = m}}]

add(module, command) ==
  /\ modules_' = With(modules_, module, command)
  /\ helps_' = With(helps_, module, command)
  /\ UNCHANGED <<httpCallback_, net, input, context, state_, sent, aborted, history>>

remove(module, command) ==
  /\ modules_' = Without(modules_, module, command)
  /\ helps_' = Without(helps_, module, command)
  /\ UNCHANGED <<httpCallback_, net, input, context, state_, sent, aborted, history>>

-----------------------------------------------------------------------------
(* HttpServer *)

onConnection == HttpContext

defaultHttpCallback == [status |-> 404, lists |-> <<>>, close |-> TRUE]

getHeader(req, field) == req.headers_[field]

Closes(req) == \/ getHeader(req, "Connection") = "close"
               \/ req.version_ = "kHttp10" /\ getHeader(req, "Connection") # "Keep-Alive"

\* What goes out for a response: only one that keeps the connection says how
\* long its body is.
appendToBuffer(response) ==
  [status |-> response.status, lists |-> response.lists, sized |-> ~response.close,
   connection |-> IF response.close THEN "close" ELSE "Keep-Alive"]

\* The HttpResponse to a request.
onRequest(req) ==
  IF httpCallback_ = "default" THEN defaultHttpCallback
  ELSE LET page == Inspect(req.path_)
       IN  [status |-> page.status, lists |-> page.lists, close |-> Closes(req)]

\* A request that was refused gets a status line alone.
BadRequest == [status |-> 400, lists |-> <<>>, sized |-> FALSE, connection |-> ""]

\* TcpConnection::send, and shutdown if close; both do nothing unless the state
\* is kConnected.
Answer(bytes, close) ==
  IF state_ = "connected"
  THEN /\ sent' = Append(sent, bytes)
       /\ state_' = IF close THEN "disconnecting" ELSE state_
  ELSE UNCHANGED <<sent, state_>>

\* The n next atoms arrive: one onMessage.
onMessage(n) ==
  LET buf == input \o SubSeq(net, 1, n)
      parsed == parseRequest(context, buf)
      response == onRequest(parsed.ctx.request_)
  IN  /\ state_ # "down" /\ ~aborted
      /\ net' = SubSeq(net, n + 1, Len(net))
      /\ delivered' = delivered \o SubSeq(net, 1, n)
      /\ UNCHANGED <<httpCallback_, inspector, asked, pipelined>>
      /\ \/ /\ ~AssertsInvalid(context, buf)
            /\ aborted' = TRUE
            /\ input' = buf
            /\ UNCHANGED <<context, state_, sent>>
         \/ /\ AssertsInvalid(context, buf)
            /\ UNCHANGED aborted
            /\ input' = parsed.buf
            /\ context' = IF gotAll(parsed.ctx) THEN reset(parsed.ctx) ELSE parsed.ctx
            /\ \/ ~parsed.ok /\ Answer(BadRequest, TRUE)
               \/ parsed.ok /\ gotAll(parsed.ctx) /\ Answer(appendToBuffer(response), response.close)
               \/ parsed.ok /\ ~gotAll(parsed.ctx) /\ UNCHANGED <<sent, state_>>

-----------------------------------------------------------------------------
(* The client *)

Ask(request) ==
  /\ asked < MaxRequests
  /\ state_ # "down"
  /\ asked' = asked + 1
  /\ net' = net \o request
  /\ pipelined' = (pipelined \/ asked > Len(sent))
  /\ UNCHANGED <<httpCallback_, inspector, input, context, state_, sent, aborted, delivered>>

\* The client closes: handleClose.
HangUp ==
  /\ state_ # "down" /\ ~aborted
  /\ net = <<>>
  /\ state_' = "down"
  /\ UNCHANGED <<httpCallback_, inspector, net, input, context, sent, aborted, history>>

Init ==
  /\ httpCallback_ \in {"inspector", "default"}
  /\ modules_ = registerCommands
  /\ helps_ = registerCommands
  /\ net = <<>>
  /\ input = <<>>
  /\ context = onConnection
  /\ state_ = "connected"
  /\ sent = <<>>
  /\ aborted = FALSE
  /\ delivered = <<>>
  /\ asked = 0
  /\ pipelined = FALSE

Next ==
  \/ \E c \in UserCommands : add(c[1], c[2]) \/ remove(c[1], c[2])
  \/ \E n \in 1..Len(net) : onMessage(n)
  \/ \E r \in Requests : Ask(r)
  \/ HangUp

Spec == Init /\ [][Next]_vars

-----------------------------------------------------------------------------
(* What the bytes say, whatever pieces they came in *)

\* The complete lines of a byte string.
RECURSIVE LinesOf(_)
LinesOf(s) ==
  IF ~Contains(s, CRLF) THEN <<>>
  ELSE LET i == SelectInSeq(s, LAMBDA a : a = CRLF)
       IN  <<SubSeq(s, 1, i - 1)>> \o LinesOf(SubSeq(s, i + 1, Len(s)))

GoodRequestLine(line) ==
  /\ Len(line) = 1 /\ line[1].kind = "request"
  /\ line[1].method \in Methods /\ line[1].version \in {"HTTP/1.0", "HTTP/1.1"}

Bad == [line |-> [kind |-> "bad"]]

\* The requests of a sequence of lines: a request line, its headers, and the
\* line without a colon that ends them; or a request line that is none, after
\* which nothing is read.
RECURSIVE RequestsOf(_)
RequestsOf(lines) ==
  LET ends == {i \in 2..Len(lines) : ~HasColon(lines[i])}
      last == CHOOSE i \in ends : \A j \in ends : i <= j
      stated == {i \in 2..last : lines[i] # <<>> /\ lines[i][1].kind = "header" /\ lines[i][1].field = "Connection"}
  IN  CASE lines = <<>> -> <<>>
        [] lines # <<>> /\ ~GoodRequestLine(Head(lines)) -> <<Bad>>
        [] lines # <<>> /\ GoodRequestLine(Head(lines)) /\ ends = {} -> <<>>
        [] OTHER ->
             <<[line |-> lines[1][1],
                connection |-> IF stated = {} THEN ""
                               ELSE lines[CHOOSE i \in stated : \A j \in stated : j <= i][1].value]>>
               \o RequestsOf(SubSeq(lines, last + 1, Len(lines)))

Asked == RequestsOf(LinesOf(delivered))

\* A request after which the server closes.
IsLast(r) ==
  \/ r = Bad
  \/ httpCallback_ = "default"
  \/ r.connection = "close"
  \/ r.line.version = "HTTP/1.0" /\ r.connection # "Keep-Alive"

\* The requests that get an answer: all up to the first the server closes after.
Due == IF \E i \in DOMAIN Asked : IsLast(Asked[i])
       THEN SubSeq(Asked, 1, CHOOSE i \in DOMAIN Asked : IsLast(Asked[i]) /\ \A j \in 1..i - 1 : ~IsLast(Asked[j]))
       ELSE Asked

\* The statuses a request may get.  A command that other threads add and
\* remove is found or not.
Statuses(r) ==
  IF r = Bad THEN {400}
  ELSE LET path == PathOf(r.line.target)
           words == split(path)
       IN  CASE httpCallback_ = "default" -> {404}
             [] httpCallback_ # "default" /\ path = <<"/">> -> {200}
             [] httpCallback_ # "default" /\ Len(words) >= 2 /\ SubSeq(words, 1, 2) \in Builtin -> {200}
             [] httpCallback_ # "default" /\ Len(words) >= 2 /\ SubSeq(words, 1, 2) \in UserCommands -> {200, 404}
             [] OTHER -> {IF words = <<"favicon.ico">> THEN 200 ELSE 404}

(***************************************************************************)
(* Properties                                                              *)
(***************************************************************************)

\* However the bytes were cut into messages and whatever other threads did
\* to the Inspector's maps, the answers are those of the requests in the byte
\* stream, in order, each one decided by the headers of its own request
\* alone, the ones after which the connection stays say how long they are, none
\* follows an answer that closed the connection, and the list of commands that the page
\* "/" shows has all those nobody may remove
\* (HttpContext::parseRequest and reset, HttpServer::onMessage and onRequest).
AnswersFit ==
  /\ Len(sent) <= Len(Due)
  /\ \A i \in DOMAIN sent :
       /\ sent[i].status \in Statuses(Due[i])
       /\ sent[i].connection = "Keep-Alive" <=> ~IsLast(Due[i])
       /\ sent[i].sized <=> ~IsLast(Due[i])
       /\ sent[i].lists # <<>> => \A c \in Builtin : Registered(sent[i].lists, c[1], c[2])

\* A client that waits for each answer before it asks again never waits for
\* an answer whose request has arrived: the call of onMessage that completes
\* a request answers it.  (onMessage answers one request per call, so this is
\* not so for a client that pipelines: HttpServer.cpp:79.)
AnsweredAtOnce == ~pipelined => Len(sent) = Len(Due)

\* The assertion of setMethod fails only on a line that was refused before:
\* it stays in the buffer and its method in the context, and the next piece
\* of input has it parsed again (HttpRequest.h:60).  No request that follows
\* a good one meets the method of the one before it.
AbortsOnlyOnRetry == aborted => Contains(Asked, Bad)

\* Requests are kept apart: neither the answers nor the parser's assertion see
\* anything of a request but its own bytes.
RequestsApart == AnswersFit /\ AbortsOnlyOnRetry

=============================================================================
