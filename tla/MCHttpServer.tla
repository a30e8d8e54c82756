---------------------------- MODULE MCHttpServer ----------------------------
(* The requests and commands of the HTTP server's instance. *)
EXTENDS HttpServer

RequestLine(method, target, version) ==
  [kind |-> "request", method |-> method, target |-> target, version |-> version]
Header(field, value) == [kind |-> "header", field |-> field, value |-> value]

Pid == <<"/", "proc", "/", "pid">>
User == <<"/", "user", "/", "cmd", "/", "arg">>

MCRequests ==
  { \* kept alive, with a query, and a header that is not looked up
    <<RequestLine("GET", Pid \o <<"?", "q">>, "HTTP/1.1"), CRLF, Header("Host", "h"), CRLF, CRLF>>,
    \* closed by the header
    <<RequestLine("GET", User, "HTTP/1.1"), CRLF, Header("Connection", "close"), CRLF, CRLF>>,
    \* closed by the version, and kept alive in spite of it
    <<RequestLine("HEAD", <<"/", "favicon.ico">>, "HTTP/1.0"), CRLF, CRLF>>,
    <<RequestLine("GET", <<"/">>, "HTTP/1.0"), CRLF, Header("Connection", "Keep-Alive"), CRLF, CRLF>>,
    \* a body, which nobody reads
    <<RequestLine("POST", <<"/", "/">>, "HTTP/1.1"), CRLF, CRLF, [kind |-> "text"]>>,
    \* an unknown version, an unknown method
    <<RequestLine("GET", Pid, "HTTP/2.0"), CRLF, CRLF>>,
    <<RequestLine("FETCH", Pid, "HTTP/1.1"), CRLF, CRLF>> }

MCBuiltin == {<<"proc", "pid">>, <<"sys", "stat">>}
MCUserCommands == {<<"user", "cmd">>}
=============================================================================
