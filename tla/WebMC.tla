----------------------------- MODULE WebMC -----------------------------
(* The programs of the web proxy lab for TLC: the proxy, the calls of      *)
(* csapp.c, Tiny and the lab servers.  A behaviour is of one of them, and  *)
(* the others stay as they began.                                          *)
EXTENDS Proxy, TLC

\* URLs of sizes 0, 1, 2 and, not cached, 3.
CONSTANTS empty, small, other, large, huge

MCSizeOf == [u \in Urls |-> CASE u = huge -> 3
                            [] u \in {large, other} -> 2
                            [] u = small -> 1 [] u = empty -> 0]

Symmetry == Permutations(Blocks)

CONSTANTS Bytes, Streams, Newline, RIO_BUFSIZE, Counts, MaxAddresses, MaxCalls,
          MaxHeaders, MaxLines

\* Sizes and numbers of bytes, of type size_t and int.
ASSUME WebAssumption ==
    /\ Streams \subseteq Seq(Bytes)
    /\ Counts \subseteq Nat
    /\ {RIO_BUFSIZE, MaxAddresses, MaxHeaders, MaxLines} \subseteq Nat

VARIABLES subject,
          stream, wire, rio_buf, usrbuf, call, results, listp, sockets, unclosed,
          tpc, lines, line, opened, mapped, child, sentTiny,
          server, wpc, fds, new_socket, rest, is_first_line, maps, children,
          sent, asked

csappv == <<stream, wire, rio_buf, usrbuf, call, results, listp, sockets,
            unclosed>>
tinyv == <<tpc, lines, line, opened, mapped, child, sentTiny>>
serverv == <<server, wpc, fds, new_socket, rest, is_first_line, maps, children,
             sent, asked>>
webv == <<vars, subject, csappv, tinyv, serverv>>

\* What a peer sends: bytes of a line, "a", and newlines.
MCBytes == {"a", Newline}
MCStreams == UNION {[1..n -> MCBytes] : n \in 0..4}

C == INSTANCE Csapp WITH fds <- sockets
T == INSTANCE Tiny WITH reply <- sentTiny
W == INSTANCE WebServer

\* Of the programs that are not the subject, one initial state.
CsappStill == stream = <<>> /\ call.op = "read"
ServerStill == server = "webserver"

WebInit ==
    /\ subject \in {"proxy", "csapp", "tiny", "servers"}
    /\ Init /\ C!CsappInit /\ T!TinyInit /\ W!WsInit
    /\ subject # "csapp" => CsappStill
    /\ subject # "servers" => ServerStill

WebNext ==
    /\ UNCHANGED subject
    /\ \/ subject = "proxy" /\ Next /\ UNCHANGED <<csappv, tinyv, serverv>>
       \/ subject = "csapp" /\ C!CsappNext
          /\ UNCHANGED <<vars, tinyv, serverv>>
       \/ subject = "tiny" /\ T!TinyNext /\ UNCHANGED <<vars, csappv, serverv>>
       \/ subject = "servers" /\ W!WsNext
          /\ UNCHANGED <<vars, csappv, tinyv>>

\* A thread of the proxy goes on, and so does a server that need not wait for
\* a client.
WebSpec ==
    /\ WebInit /\ [][WebNext]_webv
    /\ \A t \in Threads : WF_vars(subject = "proxy" /\ Handle(t))
    /\ WF_tinyv(subject = "tiny" /\ T!Doit)
    /\ WF_serverv(subject = "servers" /\ W!Serve)

\* The robust I/O package delivers every byte once, in order and in whole
\* calls, open_clientfd() and open_listenfd() keep one socket, and Tiny and
\* the lab servers send one right response and keep nothing of a connection
\* (csapp.c, tiny.c, webserver.c, server_test2.c, webserver2.c).
WebExact ==
    /\ subject = "csapp" => C!BytesInOrder /\ C!CallsAreWhole /\ C!OneSocket
    /\ subject = "tiny" => T!TinyExact
    /\ subject = "servers" => W!WebServerExact

========================================================================
