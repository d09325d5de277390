--------------------------- MODULE WebServer ---------------------------
(***************************************************************************)
(* The web server of webproxy-lab/webserver.c and those that led up to it: *)
(* server_test.c, server_test2.c and webserver2.c, which answer nothing or *)
(* a fixed text.  One connection at a time.                                *)
(*                                                                         *)
(* webserver.c reads a request with one recv() and takes its lines in      *)
(* turn.  A request line is its method and what its url finds.  After an   *)
(* error it closes the connection and goes on to the next line, which it   *)
(* takes for a request line, and closes the connection again at the end:   *)
(* descriptors have numbers here, so that such a one could be another's.   *)
(* A client that has gone kills the process when it is sent to (SIGPIPE).  *)
(***************************************************************************)
EXTENDS Naturals, Sequences, FiniteSets

CONSTANTS MaxLines  \* bound on the lines of a request

VARIABLES
    server,         \* the program that runs
    wpc,            \* what it is doing
    fds,            \* what each open descriptor is: "listen", "conn", "file"
    new_socket,     \* the descriptor of the connection
    rest,           \* the lines of the buffer that are not taken yet
    is_first_line,
    maps, children, \* mapped files, and processes not waited for
    sent,           \* what the client has been sent
    asked           \* history: the first line of the request

wsVars == <<server, wpc, fds, new_socket, rest, is_first_line, maps, children,
            sent, asked>>

Servers == {"server_test", "server_test2", "webserver2", "webserver"}

\* What a url finds: the CGI program, a page or an empty, missing or refused
\* one (".." in its name), the video or none, any other file, or a directory.
Targets == {"cgi", "page", "empty page", "no page", "refused", "video",
         "file", "no file", "directory"}
Lines == [method : {"GET"}, url : Targets] \cup [method : {"other"}, url : {"any"}]
Buffers == UNION {[1..n -> Lines] : n \in 0..MaxLines}

Lowest(open) == CHOOSE d \in 3..(Cardinality(DOMAIN open) + 3) :
                   /\ d \notin DOMAIN open
                   /\ \A e \in 3..(d - 1) : e \in DOMAIN open
Opened(open, what) == [d \in DOMAIN open \cup {Lowest(open)} |->
                         IF d \in DOMAIN open THEN open[d] ELSE what]
Closed(open, d) == [e \in DOMAIN open \ {d} |-> open[e]]

\* socket(), bind() and listen()
WsInit ==
    /\ server \in Servers
    /\ wpc = "accept"
    /\ fds = [d \in {3} |-> "listen"]
    /\ new_socket = 0 /\ rest = <<>> /\ is_first_line = 1
    /\ maps = 0 /\ children = 0
    /\ sent = <<>> /\ asked = <<>>

\* The process ends, and with it all that it has open.
Ends == /\ wpc' = "ended" /\ fds' = << >> /\ maps' = 0
        /\ UNCHANGED <<server, new_socket, rest, is_first_line, children, sent,
                       asked>>

\* accept() and recv(): the connection may be closed, or be reset.
Connect ==
    /\ wpc = "accept"
    /\ new_socket' = Lowest(fds)
    /\ fds' = Opened(fds, "conn")
    /\ rest' \in Buffers
    /\ asked' = IF rest' = <<>> THEN <<>> ELSE <<Head(rest')>>
    /\ is_first_line' = 1 /\ sent' = <<>>
    /\ wpc' = "lines"
    /\ UNCHANGED <<server, maps, children>>

\* send(new_socket, ...): what it is sent is lost unless it is a connection.
Send(what) ==
    sent' = IF new_socket \in DOMAIN fds /\ fds[new_socket] = "conn"
            THEN sent \o what ELSE sent
ClientGone == new_socket \in DOMAIN fds /\ fds[new_socket] = "conn" /\ Ends

\* server_test.c closes its one connection, unread, and ends.
AnswerTest == server = "server_test" /\ wpc = "lines" /\ Ends

\* The fixed answers.
AnswerTest2 ==
    /\ server = "server_test2" /\ wpc = "lines"
    /\ \/ /\ IF rest = <<>> THEN UNCHANGED sent ELSE Send(<<"message">>)
          /\ wpc' = "close" /\ rest' = <<>>
          /\ UNCHANGED <<server, fds, new_socket, is_first_line, maps,
                         children, asked>>
       \/ rest # <<>> /\ ClientGone
AnswerWeb2 ==
    /\ server = "webserver2" /\ wpc = "lines"
    /\ \/ /\ IF rest = <<>> THEN UNCHANGED sent ELSE Send(<<"200", "body">>)
          /\ wpc' = "close" /\ rest' = <<>>
          /\ UNCHANGED <<server, fds, new_socket, is_first_line, maps,
                         children, asked>>
       \/ rest # <<>> /\ ClientGone

----------------------------------------------------------------------------
(* webserver.c: the lines of the buffer.                                   *)

AtLine == server = "webserver" /\ wpc = "lines" /\ rest # <<>>
AtRequestLine(method, urls) ==
    /\ AtLine /\ is_first_line = 1
    /\ Head(rest).method = method /\ Head(rest).url \in urls

\* A header is printed; after the last line the loop ends.
HeaderLine ==
    /\ AtLine /\ is_first_line = 0
    /\ rest' = Tail(rest)
    /\ UNCHANGED <<server, wpc, fds, new_socket, is_first_line, maps, children,
                   sent, asked>>
EndOfLines ==
    /\ server = "webserver" /\ wpc = "lines" /\ rest = <<>>
    /\ wpc' = "close"
    /\ UNCHANGED <<server, fds, new_socket, rest, is_first_line, maps, children,
                   sent, asked>>

\* The request line is served: what follows are headers.
Served == /\ rest' = Tail(rest) /\ is_first_line' = 0 /\ wpc' = "lines"
          /\ UNCHANGED <<server, new_socket, children, asked>>
\* "break"
Broken == /\ wpc' = "close"
          /\ UNCHANGED <<server, new_socket, rest, is_first_line, maps, children,
                         asked>>

\* The error is sent, the connection closed, and the loop continued.
Error(status) ==
    /\ Send(<<status>>)
    /\ fds' = Closed(fds, new_socket)
    /\ rest' = Tail(rest)
    /\ UNCHANGED <<server, wpc, new_socket, is_first_line, maps, children, asked>>

NotGet ==
    /\ AtRequestLine("other", {"any"})
    /\ Error("405") \/ ClientGone

\* fork(); the parent waits in waitpid().
Cgi ==
    /\ AtRequestLine("GET", {"cgi"})
    /\ \/ children' = children + 1 /\ wpc' = "waitpid"
          /\ UNCHANGED <<server, fds, new_socket, rest, is_first_line, maps,
                         sent, asked>>
       \/ Ends
\* The child answers on the connection, or it fails.
CgiEnds ==
    /\ wpc = "waitpid"
    /\ children' = children - 1
    /\ Send(<<"200", "body">>) \/ UNCHANGED sent
    /\ rest' = Tail(rest) /\ is_first_line' = 0 /\ wpc' = "lines"
    /\ UNCHANGED <<server, fds, new_socket, maps, asked>>

\* open(), fstat() and mmap() of what can be mapped; a page is closed before
\* it is sent and another file after, in SendFile.
MapPage ==
    /\ AtRequestLine("GET", {"page"})
    /\ maps' = maps + 1 /\ wpc' = "send"
    /\ UNCHANGED <<server, fds, new_socket, rest, is_first_line, children, sent,
                   asked>>
MapFile ==
    /\ AtRequestLine("GET", {"video", "file"})
    /\ maps' = maps + 1 /\ wpc' = "send"
    /\ fds' = Opened(fds, "file")
    /\ UNCHANGED <<server, new_socket, rest, is_first_line, children, sent,
                   asked>>
TheFile == CHOOSE d \in DOMAIN fds : fds[d] = "file"
SendFile ==
    /\ wpc = "send"
    /\ \/ /\ Send(<<"200", "body">>)
          /\ maps' = maps - 1
          /\ fds' = IF Head(rest).url = "page" THEN fds ELSE Closed(fds, TheFile)
          /\ Served
       \/ ClientGone

\* What cannot be mapped is closed again and ends the loop: an empty page, a
\* directory.  The video may not be there.
NoMapping ==
    /\ AtRequestLine("GET", {"empty page", "directory", "video"})
    /\ Broken
    /\ UNCHANGED <<fds, sent>>
\* 404, and then fstat() fails.
NoPage ==
    /\ AtRequestLine("GET", {"no page"})
    /\ \/ Send(<<"404">>) /\ Broken /\ UNCHANGED fds
       \/ ClientGone
NoFile ==
    /\ AtRequestLine("GET", {"no file"})
    /\ Error("404") \/ ClientGone
\* ".." in the name of a page: main() returns.
Refused == AtRequestLine("GET", {"refused"}) /\ Ends

\* close(new_socket), whatever that is by now.
CloseSocket ==
    /\ wpc = "close"
    /\ fds' = Closed(fds, new_socket)
    /\ wpc' = "accept" /\ rest' = <<>>
    /\ UNCHANGED <<server, new_socket, is_first_line, maps, children, sent,
                   asked>>

\* All but accept(), which waits for a client.
Serve ==
    \/ AnswerTest \/ AnswerTest2 \/ AnswerWeb2 \/ HeaderLine \/ EndOfLines
    \/ NotGet \/ Cgi \/ CgiEnds \/ MapPage \/ MapFile \/ SendFile \/ NoMapping \/ NoPage
    \/ NoFile \/ Refused \/ CloseSocket

WsNext == Connect \/ Serve

----------------------------------------------------------------------------
\* A client gets at most one response, to the line that it sent first; the
\* server waits for the next one with only its socket open, nothing mapped
\* and no child left, whatever lines came after an error.
WebServerExact ==
    /\ wpc = "accept" => /\ fds = [d \in {3} |-> "listen"]
                         /\ maps = 0 /\ children = 0
    /\ wpc # "ended" => 3 \in DOMAIN fds /\ fds[3] = "listen"
    /\ sent # <<>> /\ server = "webserver" =>
         /\ asked # <<>>
         /\ sent = IF asked[1].method # "GET" THEN <<"405">>
                   ELSE IF asked[1].url \in {"no page", "no file"}
                   THEN <<"404">> ELSE <<"200", "body">>

\* Every connection is closed, or the process has ended.
ServersAnswer == wpc = "lines" ~> wpc \in {"accept", "ended"}
========================================================================
