----------------------------- MODULE Csapp -----------------------------
(***************************************************************************)
(* The parts of csapp.c that keep state over several system calls: the     *)
(* robust I/O package, rio, and the search of open_clientfd() and          *)
(* open_listenfd() for an address that works.                              *)
(*                                                                         *)
(* A system call is a step.  read() and write() move any number of bytes   *)
(* that they may, and the kernel's side of each call is external.  When a  *)
(* call returns -1 its capitalised wrapper ends the process.               *)
(***************************************************************************)
EXTENDS Naturals, Sequences, SequencesExt, FiniteSets

CONSTANTS
    Streams,       \* what a peer may send, or a caller may write
    Newline,       \* the byte that ends a line
    RIO_BUFSIZE,   \* 8192 in csapp.h
    Counts,        \* the sizes that callers ask for
    MaxAddresses,  \* bound on the addresses that getaddrinfo() finds
    MaxCalls       \* bound on the calls of a behaviour

VARIABLES
    stream,   \* all that is sent or written in this behaviour
    wire,     \* what has not been read yet, or has been written
    rio_buf,  \* the unread bytes of the internal buffer
    usrbuf,   \* what the running call has so far
    call,     \* the running call
    results,  \* what the calls returned, and all the bytes up to then
    listp,    \* addresses not tried yet
    fds,      \* open sockets
    unclosed  \* whether a close() failed

rioVars == <<stream, wire, rio_buf, usrbuf, call, results>>
socketVars == <<listp, fds, unclosed>>
csappVars == <<rioVars, socketVars>>

NoCall == [op |-> "none", n |-> 0]
Exited == [op |-> "exited", n |-> 0]
Buffered == {"rio_readlineb", "rio_readnb"}

\* rio_readinitb(), for the streams that are read.
CsappInit ==
    /\ stream \in Streams
    /\ \E op \in {"read", "write", "socket"} :
          /\ call = [op |-> op, n |-> 0]
          /\ wire = IF op = "read" THEN stream ELSE <<>>
    /\ rio_buf = <<>> /\ usrbuf = <<>> /\ results = <<>>
    /\ listp = 0 /\ fds = {} /\ unclosed = FALSE

----------------------------------------------------------------------------
(* rio                                                                     *)

\* A descriptor is read with the buffer or without it, as csapp.h asks.
ReadsSoFar == {results[i].op : i \in DOMAIN results}

CallRead ==
    /\ call.op \in {"read", "idle"}
    /\ Len(results) < MaxCalls
    /\ \E op \in Buffered \cup {"rio_readn"}, n \in Counts :
          /\ op \in Buffered => "rio_readn" \notin ReadsSoFar
          /\ op = "rio_readn" => ReadsSoFar \cap Buffered = {}
          /\ op = "rio_readlineb" => n > 1
          /\ call' = [op |-> op, n |-> n]
    /\ usrbuf' = <<>>
    /\ UNCHANGED <<stream, wire, rio_buf, results, socketVars>>

\* All the bytes that calls have returned, in order.
Returned == IF results = <<>> THEN <<>> ELSE Last(results).upto

Return(bytes, ret) ==
    /\ results' = Append(results, [op |-> call.op, n |-> call.n,
                                   bytes |-> bytes, ret |-> ret,
                                   upto |-> Returned \o bytes])
    /\ call' = [op |-> "idle", n |-> 0]

\* The system call fails: -1, and unix_error() in the wrapper.
Fails ==
    /\ call' = Exited
    /\ UNCHANGED <<stream, wire, rio_buf, usrbuf, results, socketVars>>

\* Faulty: the bytes that a first read() left out are not waited for.
ShortFull == usrbuf # <<>>

\* A line ends with its newline, and at maxlen - 1 bytes.
Full == IF call.op = "rio_readlineb"
        THEN \/ Len(usrbuf) = call.n - 1
             \/ usrbuf # <<>> /\ Last(usrbuf) = Newline
        ELSE Len(usrbuf) = call.n

\* rio_read() finds the buffer empty and refills it, or is at the end.  (An
\* interrupted read() changes nothing.)
Refill ==
    /\ call.op \in Buffered /\ ~Full /\ rio_buf = <<>>
    /\ \/ \E k \in 1..RIO_BUFSIZE :
             /\ k <= Len(wire)
             /\ rio_buf' = SubSeq(wire, 1, k)
             /\ wire' = SubSeq(wire, k + 1, Len(wire))
             /\ UNCHANGED <<stream, usrbuf, call, results, socketVars>>
       \/ /\ wire = <<>>
          /\ Return(usrbuf, Len(usrbuf))
          /\ UNCHANGED <<stream, wire, rio_buf, usrbuf, socketVars>>
       \/ Fails

\* rio_read() copies min(n, rio_cnt) bytes, where rio_readlineb() asks for 1.
Copy ==
    /\ call.op \in Buffered /\ ~Full /\ rio_buf # <<>>
    /\ LET n == IF call.op = "rio_readlineb" THEN 1 ELSE call.n - Len(usrbuf)
           cnt == IF Len(rio_buf) < n THEN Len(rio_buf) ELSE n
       IN  /\ usrbuf' = usrbuf \o SubSeq(rio_buf, 1, cnt)
           /\ rio_buf' = SubSeq(rio_buf, cnt + 1, Len(rio_buf))
    /\ UNCHANGED <<stream, wire, call, results, socketVars>>

\* A turn of rio_readn(), which reads into the caller's buffer.
ReadN ==
    /\ call.op = "rio_readn" /\ ~Full
    /\ \/ \E k \in 1..(call.n - Len(usrbuf)) :
             /\ k <= Len(wire)
             /\ usrbuf' = usrbuf \o SubSeq(wire, 1, k)
             /\ wire' = SubSeq(wire, k + 1, Len(wire))
             /\ UNCHANGED <<stream, rio_buf, call, results, socketVars>>
       \/ /\ wire = <<>>
          /\ Return(usrbuf, Len(usrbuf))
          /\ UNCHANGED <<stream, wire, rio_buf, usrbuf, socketVars>>
       \/ Fails

ReadReturns ==
    /\ call.op \in Buffered \cup {"rio_readn"} /\ Full
    /\ Return(usrbuf, Len(usrbuf))
    /\ UNCHANGED <<stream, wire, rio_buf, usrbuf, socketVars>>

\* rio_writen(): the rest of the caller's bytes, any number at a time.
WriteN ==
    /\ call.op = "write" /\ Len(wire) < Len(stream)
    /\ \/ \E k \in 1..(Len(stream) - Len(wire)) :
             /\ wire' = wire \o SubSeq(stream, Len(wire) + 1, Len(wire) + k)
             /\ UNCHANGED <<stream, rio_buf, usrbuf, call, results, socketVars>>
       \/ Fails

WriteReturns ==
    /\ call.op = "write" /\ Len(wire) = Len(stream)
    /\ results' = <<[op |-> "rio_writen", n |-> Len(stream), bytes |-> wire,
                     ret |-> Len(stream), upto |-> wire]>>
    /\ call' = NoCall
    /\ UNCHANGED <<stream, wire, rio_buf, usrbuf, socketVars>>

Rio == CallRead \/ Refill \/ Copy \/ ReadN \/ ReadReturns \/ WriteN
       \/ WriteReturns

----------------------------------------------------------------------------
(* open_clientfd() and open_listenfd()                                     *)

\* getaddrinfo() gives a list, or fails.
GetAddresses ==
    /\ call.op = "socket"
    /\ \/ \E op \in {"open_clientfd", "open_listenfd"},
             n \in 0..MaxAddresses :
             listp' = n /\ call' = [op |-> op, n |-> n]
       \/ call' = Exited /\ UNCHANGED listp
    /\ UNCHANGED <<stream, wire, rio_buf, usrbuf, results, fds, unclosed>>

\* The address at the head of the list gets a socket: the next number.
Socket == Cardinality(fds)

\* socket() fails, and the next address is tried.
NoSocket ==
    /\ call.op \in {"open_clientfd", "open_listenfd"} /\ listp > 0
    /\ listp' = listp - 1
    /\ UNCHANGED <<rioVars, fds, unclosed>>

\* A socket is closed, and may be open still when close() fails.
CloseFails ==
    /\ unclosed' = TRUE
    /\ call' = Exited
    /\ fds' \in {fds, fds \cup {Socket}}
    /\ UNCHANGED <<stream, wire, rio_buf, usrbuf, results, listp>>

\* connect() works, or the socket is closed and the next address is tried.
ClientTurn ==
    /\ call.op = "open_clientfd" /\ listp > 0
    /\ \/ /\ fds' = fds \cup {Socket}
          /\ call' = [op |-> "connected", n |-> Socket]
          /\ UNCHANGED <<stream, wire, rio_buf, usrbuf, results, listp, unclosed>>
       \/ /\ listp' = listp - 1
          /\ UNCHANGED <<rioVars, fds, unclosed>>
       \/ CloseFails

\* bind() works, and then listen() or not, or the next address is tried.
ListenTurn ==
    /\ call.op = "open_listenfd" /\ listp > 0
    /\ \/ /\ fds' = fds \cup {Socket}
          /\ call' = [op |-> "bound", n |-> Socket]
          /\ UNCHANGED <<stream, wire, rio_buf, usrbuf, results, listp, unclosed>>
       \/ /\ listp' = listp - 1
          /\ UNCHANGED <<rioVars, fds, unclosed>>
       \/ CloseFails

Listen ==
    /\ call.op = "bound"
    /\ \/ call' = [call EXCEPT !.op = "listening"] /\ UNCHANGED fds
       \/ call' = Exited /\ fds' = fds \ {call.n}
    /\ UNCHANGED <<stream, wire, rio_buf, usrbuf, results, listp, unclosed>>

\* No address worked.
NoAddress ==
    /\ call.op \in {"open_clientfd", "open_listenfd"} /\ listp = 0
    /\ Fails

CsappNext == Rio \/ GetAddresses \/ NoSocket \/ ClientTurn \/ ListenTurn
             \/ Listen \/ NoAddress

----------------------------------------------------------------------------
\* No byte is lost, repeated or out of order, however the kernel cuts the
\* stream: those that were returned, are on their way to the caller, are in
\* the buffer and are still to come are the stream.
BytesInOrder ==
    /\ call.op \in Buffered \cup {"rio_readn"} =>
          stream = Returned \o (usrbuf \o (rio_buf \o wire))
    /\ call.op = "idle" => stream = Returned \o (rio_buf \o wire)
    /\ call.op \in {"write", "none"} => IsPrefix(wire, stream)
    /\ call.op = "none" => wire = stream

\* A call returns fewer bytes than it was asked for only at the end of the
\* stream or, a line, with its first newline as its last byte.
CallsAreWhole ==
    \A i \in DOMAIN results :
        LET r == results[i]
            want == IF r.op = "rio_readlineb" THEN r.n - 1 ELSE r.n
            line == r.op = "rio_readlineb" /\ r.bytes # <<>>
        IN  /\ r.ret = Len(r.bytes) /\ r.ret <= want
            /\ r.ret < want => \/ r.upto = stream
                               \/ line /\ Last(r.bytes) = Newline
            /\ line => \A j \in 1..(r.ret - 1) : r.bytes[j] # Newline

\* The socket that is returned is open, and no other one is.
OneSocket ==
    ~unclosed =>
       fds = IF call.op \in {"connected", "bound", "listening"} THEN {call.n}
             ELSE {}
=======================================================================
