------------------------------ MODULE Tiny ------------------------------
(***************************************************************************)
(* The Tiny web server (tiny/tiny.c, linked with tiny/csapp.c): one        *)
(* connection at a time, a static file from a mapping or the output of a   *)
(* CGI program.                                                            *)
(*                                                                         *)
(* A line that is read, a response that is written and a system call with  *)
(* an effect are steps.  A request is its lines; a file is named by what   *)
(* stat() says of it.  Every wrapper of csapp.c ends the process when its  *)
(* call fails, and a write to a client that has gone kills it (SIGPIPE).   *)
(***************************************************************************)
EXTENDS Naturals, Sequences, SequencesExt

CONSTANTS MaxHeaders  \* bound on the header lines of a request

VARIABLES
    tpc,      \* what the server is doing
    lines,    \* the lines of the request that are not read yet
    line,     \* the request line: method and uri
    opened,   \* open descriptors
    mapped,   \* whether a file is mapped
    child,    \* the CGI process: "none", "running" or "ended"
    reply     \* what the client has been sent

tinyVars == <<tpc, lines, line, opened, mapped, child, reply>>

Methods == {"GET", "POST"}
Static == {"page", "empty", "secret", "directory", "missing"}
Dynamic == {"program", "data", "no program"}
RequestLines == [method : Methods, uri : Static \cup Dynamic]

\* A client sends a request line and headers, whole or up to a point.
Headers == {[i \in 1..h |-> "header"] : h \in 0..MaxHeaders}
AfterRequestLine == Headers \cup {Append(hs, "blank") : hs \in Headers}
Requests == {<<>>} \cup UNION {{<<l>> \o rest : l \in RequestLines} :
                                   rest \in AfterRequestLine}

\* Open_listenfd()
TinyInit ==
    /\ tpc = "accept"
    /\ lines = <<>> /\ line = [method |-> "GET", uri |-> "page"]
    /\ opened = {"listenfd"} /\ mapped = FALSE /\ child = "none"
    /\ reply = <<>>

Exits == /\ tpc' = "exited" /\ opened' = {} /\ mapped' = FALSE
         /\ UNCHANGED <<lines, line, child, reply>>

\* Accept(), and Rio_readinitb() of doit().
AcceptConnection ==
    /\ tpc = "accept"
    /\ lines' \in Requests
    /\ opened' = opened \cup {"connfd"}
    /\ reply' = <<>>
    /\ tpc' = "doit"
    /\ UNCHANGED <<line, mapped, child>>

\* The request line.  At the end of the input buf is not written, and method
\* and uri are whatever the stack holds.
ReadRequestLine ==
    /\ tpc = "doit"
    /\ \/ lines # <<>> /\ line' = Head(lines) /\ lines' = Tail(lines)
       \/ lines = <<>> /\ line' \in RequestLines /\ UNCHANGED lines
    /\ tpc' = IF line'.method = "GET" THEN "read_requesthdrs" ELSE "501"
    /\ UNCHANGED <<opened, mapped, child, reply>>

\* A turn of read_requesthdrs().  At the end of the input it goes round for
\* ever, unless buf was never written and holds an old blank line.
ReadRequestHdrs ==
    /\ tpc \in {"read_requesthdrs", "more"}
    /\ \/ /\ lines # <<>>
          /\ lines' = Tail(lines)
          /\ tpc' = IF Head(lines) = "blank" THEN "stat" ELSE "more"
       \/ /\ lines = <<>> /\ tpc = "read_requesthdrs"
          /\ tpc' \in {"stat", "more"}
          /\ UNCHANGED lines
    /\ UNCHANGED <<line, opened, mapped, child, reply>>

\* parse_uri(), stat() and the tests of doit().
Stat ==
    /\ tpc = "stat"
    /\ tpc' = CASE line.uri \in {"missing", "no program"} -> "404"
                [] line.uri \in {"secret", "directory", "data"} -> "403"
                [] line.uri \in {"page", "empty"} -> "serve_static"
                [] OTHER -> "serve_dynamic"
    /\ UNCHANGED <<lines, line, opened, mapped, child, reply>>

\* Rio_writen() of a part of the response, or the client has gone.
Write(part, next) ==
    \/ reply' = Append(reply, part) /\ tpc' = next
       /\ UNCHANGED <<lines, line, opened, mapped, child>>
    \/ Exits

ClientError == tpc \in {"501", "404", "403"} /\ Write(tpc, "close")

\* serve_static(): the headers, Open(), Mmap(), Close(), the body, Munmap().
\* The file may be gone by then, and an empty file cannot be mapped.
ServeStatic == tpc = "serve_static" /\ Write("200", "open")
OpenFile ==
    /\ tpc = "open"
    /\ \/ opened' = opened \cup {"srcfd"} /\ tpc' = "mmap"
          /\ UNCHANGED <<lines, line, mapped, child, reply>>
       \/ Exits
MapFile ==
    /\ tpc = "mmap"
    /\ \/ /\ line.uri # "empty"
          /\ mapped' = TRUE /\ opened' = opened \ {"srcfd"} /\ tpc' = "body"
          /\ UNCHANGED <<lines, line, child, reply>>
       \/ line.uri = "empty" /\ Exits
WriteBody == tpc = "body" /\ Write("body", "munmap")

UnmapFile ==
    /\ tpc = "munmap"
    /\ mapped' = FALSE /\ tpc' = "close"
    /\ UNCHANGED <<lines, line, opened, child, reply>>

\* serve_dynamic(): the first headers, Fork(), the child, Wait().
ServeDynamic == tpc = "serve_dynamic" /\ Write("200", "fork")
ForkChild ==
    /\ tpc = "fork"
    /\ \/ child' = "running" /\ tpc' = "wait"
          /\ UNCHANGED <<lines, line, opened, mapped, reply>>
       \/ Exits
\* The program writes the rest of the response, or it fails or cannot be run.
ChildRuns ==
    /\ child = "running"
    /\ child' = "ended"
    /\ reply' \in {reply, Append(reply, "body")}
    /\ UNCHANGED <<tpc, lines, line, opened, mapped>>
WaitChild ==
    /\ tpc = "wait" /\ child = "ended"
    /\ child' = "none" /\ tpc' = "close"
    /\ UNCHANGED <<lines, line, opened, mapped, reply>>

\* Close(connfd), and back to Accept().
CloseConnection ==
    /\ tpc = "close"
    /\ opened' = opened \ {"connfd"} /\ tpc' = "accept"
    /\ lines' = <<>>
    /\ UNCHANGED <<line, mapped, child, reply>>

\* All but Accept(), which waits for a client.
Doit ==
    \/ ReadRequestLine \/ ReadRequestHdrs \/ Stat \/ ClientError
    \/ ServeStatic \/ OpenFile \/ MapFile \/ WriteBody \/ UnmapFile
    \/ ServeDynamic \/ ForkChild \/ ChildRuns \/ WaitChild \/ CloseConnection

TinyNext == AcceptConnection \/ Doit

----------------------------------------------------------------------------
\* The one whole response of the kind that the request calls for (but a CGI
\* program may not have written its part).
Answered ==
    IF line.method # "GET" THEN reply = <<"501">>
    ELSE /\ line.uri = "page" => reply = <<"200", "body">>
         /\ line.uri = "program" => reply \in {<<"200", "body">>, <<"200">>}
         /\ line.uri \in {"missing", "no program"} => reply = <<"404">>
         /\ line.uri \in {"secret", "directory", "data"} => reply = <<"403">>
         /\ line.uri # "empty"

\* Between connections only the listening socket is open, nothing is mapped
\* and no child is left, and the client has its response.
TinyExact ==
    tpc = "accept" =>
      /\ opened = {"listenfd"} /\ ~mapped /\ child = "none"
      /\ reply # <<>> => Answered

Complete ==
    /\ tpc = "doit" /\ lines # <<>>
    /\ Head(lines).method # "GET" \/ Contains(Tail(lines), "blank")

\* A request that reaches its blank line, or is not a GET, is done with, or
\* the process has ended.
TinyAnswers == Complete ~> tpc \in {"accept", "exited"}
=========================================================================
