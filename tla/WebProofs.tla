----------------------------- MODULE WebProofs -----------------------------
(* The calls of csapp.c, Tiny and the lab servers do what WebExact says,   *)
(* for all streams, buffer sizes, counts, numbers of headers and lines.    *)
(*                                                                         *)
(* Each program has an inductive invariant of its own.  RioInv says where  *)
(* the bytes of the stream are while a call runs (returned, in the         *)
(* caller's buffer, in the package's buffer, still to come) and what the   *)
(* running call has; TinyInv and ServerInv say what is open, mapped and    *)
(* sent at each statement, and which request leads there.                  *)
EXTENDS WebMC, TLAPS, SequenceTheorems, FiniteSetTheorems

\* The calls that read.
Reading == {"rio_readlineb", "rio_readnb", "rio_readn"}

\* The bytes that the running call may still be asked for.
Want == IF call.op = "rio_readlineb" THEN call.n - 1 ELSE call.n

\* What is noted of a call that has returned.
Result == [op : Reading \cup {"rio_writen"}, n : Nat, bytes : Seq(Bytes), ret : Nat, upto : Seq(Bytes)]

\* The types of the state of the package.
RioTypes ==
    /\ stream \in Seq(Bytes) /\ wire \in Seq(Bytes)
    /\ rio_buf \in Seq(Bytes) /\ usrbuf \in Seq(Bytes)
    /\ results \in Seq(Result)
    /\ call = [op |-> call.op, n |-> call.n]
    /\ call.op \in Reading => call.n \in Nat

\* The running call has no more than it may take, a line has no newline before
\* its last byte, and a descriptor is read with the buffer or without it.
RioCall ==
    /\ call.op \in Reading => Len(usrbuf) <= Want
    /\ call.op = "rio_readlineb" =>
          /\ call.n > 1
          /\ \A j \in 1..(Len(usrbuf) - 1) : usrbuf[j] # Newline
    /\ call.op = "rio_readn" => rio_buf = <<>> /\ C!ReadsSoFar \cap C!Buffered = {}
    /\ call.op \in {"read", "idle"} /\ rio_buf # <<>> => C!ReadsSoFar \cap C!Buffered # {}
    /\ call.op = "read" => results = <<>> /\ stream = wire /\ rio_buf = <<>>
    /\ call.op = "write" => results = <<>>

\* The inductive invariant of the calls that read and write.
RioInv == RioTypes /\ RioCall /\ C!BytesInOrder /\ C!CallsAreWhole

\* It holds before the first call (csapp.c).
LEMMA RioStarts == C!CsappInit => RioInv
<1> SUFFICES ASSUME C!CsappInit PROVE RioInv
  OBVIOUS
<1>1. stream \in Seq(Bytes) /\ <<>> \in Seq(Bytes) /\ <<>> \in Seq(Result)
  BY WebAssumption, EmptySeq DEF C!CsappInit
<1>2. RioTypes
  <2>1. PICK op \in {"read", "write", "socket"} :
            call = [op |-> op, n |-> 0] /\ wire = IF op = "read" THEN stream ELSE <<>>
    BY DEF C!CsappInit
  <2>2. call.op = op /\ call.n = 0
    BY <2>1
  <2> QED BY <1>1, <2>1, <2>2 DEF C!CsappInit, RioTypes, Reading
<1>3. RioCall
  BY <1>1 DEF C!CsappInit, RioCall, Reading
<1>4. C!BytesInOrder
  <2>1. C!IsPrefix(<<>>, stream)
    BY <1>1, EmptySeq, SubSeqEmpty DEF C!IsPrefix
  <2> QED BY <2>1 DEF C!CsappInit, C!BytesInOrder, C!Buffered
<1>5. C!CallsAreWhole
  BY DEF C!CsappInit, C!CallsAreWhole
<1> QED BY <1>2, <1>3, <1>4, <1>5 DEF RioInv

\* Concatenation of streams is associative.
LEMMA Associative == \A a, b, c \in Seq(Bytes) : (a \o b) \o c = a \o (b \o c)
  BY ConcatAssociative

\* A sequence cut in two.
LEMMA Cut ==
    ASSUME NEW s \in Seq(Bytes), NEW k \in 0..Len(s)
    PROVE  /\ SubSeq(s, 1, k) \in Seq(Bytes) /\ Len(SubSeq(s, 1, k)) = k
           /\ SubSeq(s, k + 1, Len(s)) \in Seq(Bytes)
           /\ s = SubSeq(s, 1, k) \o SubSeq(s, k + 1, Len(s))
           /\ \A j \in 1..k : SubSeq(s, 1, k)[j] = s[j]
<1>1. Len(s) \in Nat /\ \A i \in 1..Len(s) : s[i] \in Bytes
  BY LenProperties, ElementOfSeq
<1>2. SubSeq(s, 1, k) \in Seq(Bytes) /\ Len(SubSeq(s, 1, k)) = k
  BY <1>1, SubSeqProperties
<1>3. SubSeq(s, k + 1, Len(s)) \in Seq(Bytes)
  <2>1. \A i \in (k + 1)..Len(s) : s[i] \in Bytes
    BY <1>1
  <2> QED BY <1>1, <2>1, SubSeqProperties
<1>4. s = SubSeq(s, 1, k) \o SubSeq(s, k + 1, Len(s))
  <2>1. SubSeq(s, 1, k) \o SubSeq(s, k + 1, Len(s)) = SubSeq(s, 1, Len(s))
    <3>1. 1 \in 1..(Len(s) + 1) /\ k \in (1 - 1)..Len(s) /\ Len(s) \in k..Len(s)
      BY <1>1
    <3> QED BY <3>1, ConcatAdjacentSubSeq
  <2> QED BY <2>1, SubSeqFull
<1>5. \A j \in 1..k : SubSeq(s, 1, k)[j] = s[j]
  BY <1>1
<1> QED BY <1>2, <1>3, <1>4, <1>5

\* A step that leaves the reading and writing of a stream as they are.
LEMMA RioLeft ==
    ASSUME RioInv, UNCHANGED <<stream, wire, rio_buf, usrbuf, results>>,
           call' = [op |-> call.op', n |-> call.n'],
           call.op' \notin Reading \cup {"read", "idle", "write", "none"}
    PROVE  RioInv'
<1>1. RioTypes'
  BY DEF RioInv, RioTypes
<1>2. RioCall'
  BY DEF RioCall, Reading
<1>3. C!BytesInOrder'
  BY DEF C!BytesInOrder, Reading, C!Buffered
<1>4. C!CallsAreWhole'
  BY DEF RioInv, C!CallsAreWhole
<1> QED BY <1>1, <1>2, <1>3, <1>4 DEF RioInv

\* A read() or write() that fails ends the process (unix_error()).
LEMMA RioFails == ASSUME RioInv, C!Fails PROVE RioInv'
<1>1. call.op' = "exited" /\ call' = [op |-> call.op', n |-> call.n']
  BY DEF C!Fails, C!Exited
<1> QED BY <1>1, RioLeft DEF C!Fails, Reading

\* The results with one more.
LEMMA Appended ==
    ASSUME NEW S, NEW list \in Seq(S), NEW x \in S
    PROVE  /\ Append(list, x) \in Seq(S) /\ Append(list, x) # <<>>
           /\ DOMAIN Append(list, x) = DOMAIN list \cup {Len(list) + 1}
           /\ Len(Append(list, x)) = Len(list) + 1
           /\ Append(list, x)[Len(list) + 1] = x
           /\ \A i \in DOMAIN list : Append(list, x)[i] = list[i]
<1>1. Len(list) \in Nat /\ DOMAIN list = 1..Len(list)
  BY LenProperties
<1>2. /\ Append(list, x) \in Seq(S) /\ Append(list, x) # <<>>
      /\ Len(Append(list, x)) = Len(list) + 1
      /\ \A i \in 1..Len(list) : Append(list, x)[i] = list[i]
      /\ Append(list, x)[Len(list) + 1] = x
  BY <1>1, AppendProperties
<1>3. DOMAIN Append(list, x) = 1..(Len(list) + 1)
  BY <1>2, LenProperties
<1> QED BY <1>1, <1>2, <1>3

\* What the calls have returned is a sequence of bytes.
LEMMA ReturnedType == RioInv => C!Returned \in Seq(Bytes)
<1> SUFFICES ASSUME RioInv PROVE C!Returned \in Seq(Bytes)
  OBVIOUS
<1>1. CASE results = <<>>
  BY <1>1, EmptySeq DEF C!Returned
<1>2. CASE results # <<>>
  <2>1. Len(results) \in 1..Len(results)
    BY <1>2, EmptySeq, LenProperties DEF RioInv, RioTypes
  <2>2. results[Len(results)] \in Result
    BY <2>1, ElementOfSeq DEF RioInv, RioTypes
  <2> QED BY <1>2, <2>2 DEF C!Returned, C!Last, Result
<1> QED BY <1>1, <1>2

\* A call returns what it has, when it has all or at the end of the stream.
LEMMA RioReturns ==
    ASSUME RioInv, call.op \in Reading, C!Return(usrbuf, Len(usrbuf)),
           UNCHANGED <<stream, wire, rio_buf, usrbuf>>,
           C!Full \/ (wire = <<>> /\ rio_buf = <<>>)
    PROVE  RioInv'
<1> DEFINE r == [op |-> call.op, n |-> call.n, bytes |-> usrbuf, ret |-> Len(usrbuf),
                 upto |-> C!Returned \o usrbuf]
<1>0. /\ results' = Append(results, r) /\ call' = [op |-> "idle", n |-> 0]
      /\ stream' = stream /\ wire' = wire /\ rio_buf' = rio_buf /\ usrbuf' = usrbuf
  BY DEF C!Return
<1>1. /\ C!Returned \in Seq(Bytes) /\ usrbuf \in Seq(Bytes) /\ rio_buf \in Seq(Bytes)
      /\ wire \in Seq(Bytes) /\ results \in Seq(Result) /\ call.n \in Nat
  BY ReturnedType DEF RioInv, RioTypes
<1>2. Len(usrbuf) \in Nat /\ C!Returned \o usrbuf \in Seq(Bytes)
  BY <1>1, LenProperties, ConcatProperties
<1>3. r \in Result
  BY <1>1, <1>2 DEF Result
<1>4. /\ results' \in Seq(Result) /\ results' # <<>>
      /\ DOMAIN results' = DOMAIN results \cup {Len(results) + 1}
      /\ Len(results') = Len(results) + 1 /\ results'[Len(results) + 1] = r
      /\ \A i \in DOMAIN results : results'[i] = results[i]
  BY <1>0, <1>1, <1>3, Appended
<1>5. RioTypes'
  BY <1>0, <1>4 DEF RioInv, RioTypes, Reading
<1>6. RioCall'
  <2>1. rio_buf # <<>> => call.op \in C!Buffered
    BY DEF RioInv, RioCall, Reading, C!Buffered
  <2>2. call.op \in C!ReadsSoFar'
    <3>1. results'[Len(results) + 1].op = call.op /\ Len(results) + 1 \in DOMAIN results'
      BY <1>4
    <3> QED BY <3>1 DEF C!ReadsSoFar
  <2> QED BY <1>0, <2>1, <2>2 DEF RioCall, Reading, C!Buffered
<1>7. stream = C!Returned \o (usrbuf \o (rio_buf \o wire))
  BY DEF RioInv, C!BytesInOrder, Reading, C!Buffered
<1>8. C!BytesInOrder'
  <2>1. C!Returned' = C!Returned \o usrbuf
    BY <1>4 DEF C!Returned, C!Last
  <2>2. rio_buf \o wire \in Seq(Bytes)
    BY <1>1, ConcatProperties
  <2>3. stream = (C!Returned \o usrbuf) \o (rio_buf \o wire)
    <3>1. PICK left : left = rio_buf \o wire
      OBVIOUS
    <3>2. (C!Returned \o usrbuf) \o left = C!Returned \o (usrbuf \o left)
      BY <1>1, <2>2, <3>1, Associative
    <3> QED BY <1>7, <3>1, <3>2
  <2> QED BY <1>0, <2>1, <2>3 DEF C!BytesInOrder, C!Buffered
<1>9. C!CallsAreWhole'
  <2> DEFINE want == IF r.op = "rio_readlineb" THEN r.n - 1 ELSE r.n
             ended == r.op = "rio_readlineb" /\ r.bytes # <<>>
  <2>1. r.ret = Len(r.bytes) /\ r.ret <= want
    BY DEF RioInv, RioCall, Want
  <2>2. r.ret < want => r.upto = stream \/ (ended /\ C!Last(r.bytes) = Newline)
    <3>1. CASE C!Full
      BY <3>1, <1>1, <1>2 DEF C!Full, C!Last
    <3>2. CASE wire = <<>> /\ rio_buf = <<>>
      <4>1. <<>> \in Seq(Bytes) /\ <<>> \o <<>> = <<>> /\ usrbuf \o <<>> = usrbuf
        BY <1>1, EmptySeq, ConcatEmptySeq
      <4> QED BY <1>7, <3>2, <4>1
    <3> QED BY <3>1, <3>2
  <2>3. ended => \A j \in 1..(r.ret - 1) : r.bytes[j] # Newline
    BY DEF RioInv, RioCall
  <2> HIDE DEF r
  <2>4. \A i \in DOMAIN results : results'[i] = results[i]
    BY <1>4
  <2> QED
    BY <1>0, <1>4, <2>1, <2>2, <2>3, <2>4 DEF RioInv, C!CallsAreWhole, C!Last
<1> QED BY <1>5, <1>6, <1>8, <1>9 DEF RioInv

\* The call gets bytes: got is what it has then, of what is left of the
\* stream after the bytes that were returned.
LEMMA RioGets ==
    ASSUME RioInv, call.op \in Reading, UNCHANGED <<stream, call, results>>,
           wire' \in Seq(Bytes), rio_buf' \in Seq(Bytes), usrbuf' \in Seq(Bytes),
           usrbuf' \o (rio_buf' \o wire') = usrbuf \o (rio_buf \o wire),
           Len(usrbuf') <= Want,
           call.op = "rio_readlineb" => \A j \in 1..(Len(usrbuf') - 1) : usrbuf'[j] # Newline,
           call.op = "rio_readn" => rio_buf' = <<>>
    PROVE  RioInv'
<1>1. RioTypes'
  BY DEF RioInv, RioTypes
<1>2. RioCall'
  BY DEF RioInv, RioCall, Want, Reading, C!ReadsSoFar
<1>3. C!BytesInOrder'
  BY DEF RioInv, C!BytesInOrder, C!Returned, Reading, C!Buffered
<1>4. C!CallsAreWhole'
  BY DEF RioInv, C!CallsAreWhole
<1> QED BY <1>1, <1>2, <1>3, <1>4 DEF RioInv

\* rio_read() fills its buffer, or is at the end of the stream.
LEMMA RioRefills == ASSUME RioInv, C!Refill PROVE RioInv'
<1>1. call.op \in Reading /\ rio_buf = <<>>
  BY DEF C!Refill, C!Buffered, Reading
<1>2. CASE /\ wire = <<>> /\ C!Return(usrbuf, Len(usrbuf))
           /\ UNCHANGED <<stream, wire, rio_buf, usrbuf, C!socketVars>>
  BY <1>1, <1>2, RioReturns
<1>3. CASE C!Fails
  BY <1>3, RioFails
<1>4. ASSUME NEW k \in 1..RIO_BUFSIZE, k <= Len(wire), rio_buf' = SubSeq(wire, 1, k),
             wire' = SubSeq(wire, k + 1, Len(wire)),
             UNCHANGED <<stream, usrbuf, call, results, C!socketVars>>
      PROVE  RioInv'
  <2>1. wire \in Seq(Bytes) /\ usrbuf \in Seq(Bytes) /\ k \in 0..Len(wire)
    BY <1>4, WebAssumption DEF RioInv, RioTypes
  <2>2. rio_buf' \in Seq(Bytes) /\ wire' \in Seq(Bytes) /\ rio_buf' \o wire' = wire
    BY <1>4, <2>1, Cut
  <2>3. rio_buf \o wire = wire
    BY <1>1, <2>1, ConcatEmptySeq
  <2>4. usrbuf' = usrbuf /\ call.op # "rio_readn"
    BY <1>4 DEF C!Refill, C!Buffered
  <2> QED BY <1>1, <1>4, <2>1, <2>2, <2>3, <2>4, RioGets DEF RioInv, RioCall
<1> QED BY <1>2, <1>3, <1>4 DEF C!Refill

\* A call that is not complete has room, and a line no newline yet.
LEMMA NotFull ==
    ASSUME RioInv, call.op \in Reading, ~C!Full
    PROVE  /\ Len(usrbuf) \in Nat /\ Want \in Nat /\ Len(usrbuf) < Want
           /\ call.op = "rio_readlineb" => \A j \in 1..Len(usrbuf) : usrbuf[j] # Newline
<1>1. Len(usrbuf) \in Nat /\ call.n \in Nat /\ usrbuf \in Seq(Bytes)
  BY LenProperties DEF RioInv, RioTypes
<1>2. Len(usrbuf) <= Want /\ Len(usrbuf) # Want
  BY DEF RioInv, RioCall, C!Full, Want
<1>3. Want \in Nat
  BY <1>1 DEF RioInv, RioCall, Want
<1>4. call.op = "rio_readlineb" => \A j \in 1..Len(usrbuf) : usrbuf[j] # Newline
  <2>1. call.op = "rio_readlineb" /\ usrbuf # <<>> => usrbuf[Len(usrbuf)] # Newline
    BY DEF C!Full, C!Last
  <2>2. usrbuf = <<>> => Len(usrbuf) = 0
    BY EmptySeq
  <2>3. call.op = "rio_readlineb" => \A j \in 1..(Len(usrbuf) - 1) : usrbuf[j] # Newline
    BY DEF RioInv, RioCall
  <2> QED BY <1>1, <2>1, <2>2, <2>3
<1> QED BY <1>1, <1>2, <1>3, <1>4

\* The call gets a piece of one byte, for a line, or of what it has room for.
LEMMA RioExtends ==
    ASSUME RioInv, call.op \in Reading, ~C!Full, UNCHANGED <<stream, call, results>>,
           NEW piece \in Seq(Bytes), usrbuf' = usrbuf \o piece,
           Len(piece) <= Want - Len(usrbuf),
           call.op = "rio_readlineb" => Len(piece) = 1,
           wire' \in Seq(Bytes), rio_buf' \in Seq(Bytes),
           rio_buf \o wire = piece \o (rio_buf' \o wire'),
           call.op = "rio_readn" => rio_buf' = <<>>
    PROVE  RioInv'
<1>1. usrbuf \in Seq(Bytes) /\ rio_buf' \o wire' \in Seq(Bytes)
  BY ConcatProperties DEF RioInv, RioTypes
<1>2. /\ usrbuf' \in Seq(Bytes) /\ Len(usrbuf') = Len(usrbuf) + Len(piece)
      /\ \A j \in 1..Len(usrbuf) : usrbuf'[j] = usrbuf[j]
      /\ Len(usrbuf) \in Nat /\ Len(piece) \in Nat
  BY <1>1, ConcatProperties, LenProperties
<1>3. usrbuf' \o (rio_buf' \o wire') = usrbuf \o (rio_buf \o wire)
  <2>1. PICK left : left = rio_buf' \o wire'
    OBVIOUS
  <2>2. (usrbuf \o piece) \o left = usrbuf \o (piece \o left)
    BY <1>1, <2>1, Associative
  <2> QED BY <2>1, <2>2
<1>4. Len(usrbuf') <= Want
  BY <1>2, NotFull
<1>5. call.op = "rio_readlineb" => \A j \in 1..(Len(usrbuf') - 1) : usrbuf'[j] # Newline
  <2>1. SUFFICES ASSUME call.op = "rio_readlineb", NEW j \in 1..(Len(usrbuf') - 1)
                 PROVE  usrbuf'[j] # Newline
    OBVIOUS
  <2>2. Len(piece) = 1
    BY <2>1
  <2>3. j \in 1..Len(usrbuf)
    BY ONLY <1>2, <2>1, <2>2
  <2> QED BY <1>2, <2>1, <2>3, NotFull
<1> QED BY <1>2, <1>3, <1>4, <1>5, RioGets

\* rio_read() copies bytes of its buffer to the caller's.
LEMMA RioCopies == ASSUME RioInv, C!Copy PROVE RioInv'
<1>1. call.op \in Reading /\ call.op # "rio_readn" /\ ~C!Full /\ rio_buf # <<>>
  BY DEF C!Copy, C!Buffered, Reading
<1>2. /\ rio_buf \in Seq(Bytes) /\ wire \in Seq(Bytes) /\ usrbuf \in Seq(Bytes)
      /\ Len(rio_buf) \in Nat \ {0} /\ call.n \in Nat
  BY <1>1, EmptySeq DEF RioInv, RioTypes
<1>3. Len(usrbuf) \in Nat /\ Want \in Nat /\ Len(usrbuf) < Want
  BY <1>1, NotFull
<1>4. PICK n : n = IF call.op = "rio_readlineb" THEN 1 ELSE call.n - Len(usrbuf)
  OBVIOUS
<1>5. n \in Nat \ {0} /\ n <= Want - Len(usrbuf)
  BY <1>2, <1>3, <1>4 DEF Want
<1>6. PICK cnt : cnt = IF Len(rio_buf) < n THEN Len(rio_buf) ELSE n
  OBVIOUS
<1>7. /\ cnt \in 0..Len(rio_buf) /\ cnt <= Want - Len(usrbuf)
      /\ call.op = "rio_readlineb" => cnt = 1
  BY <1>2, <1>3, <1>4, <1>5, <1>6
<1>8. /\ usrbuf' = usrbuf \o SubSeq(rio_buf, 1, cnt)
      /\ rio_buf' = SubSeq(rio_buf, cnt + 1, Len(rio_buf))
      /\ UNCHANGED <<stream, wire, call, results>>
  BY <1>4, <1>6 DEF C!Copy
<1>9. PICK piece : piece = SubSeq(rio_buf, 1, cnt)
  OBVIOUS
<1>10. piece \in Seq(Bytes) /\ Len(piece) = cnt /\ rio_buf' \in Seq(Bytes)
       /\ rio_buf = piece \o rio_buf'
  BY <1>2, <1>7, <1>8, <1>9, Cut
<1>11. rio_buf \o wire = piece \o (rio_buf' \o wire')
  <2>1. PICK left : left = rio_buf'
    OBVIOUS
  <2>2. (piece \o left) \o wire = piece \o (left \o wire)
    BY <1>2, <1>10, <2>1, Associative
  <2> QED BY <1>8, <1>10, <2>1, <2>2
<1> QED BY <1>1, <1>2, <1>7, <1>8, <1>9, <1>10, <1>11, RioExtends

\* A read() of rio_readn().
LEMMA RioReadN == ASSUME RioInv, C!ReadN PROVE RioInv'
<1>1. call.op \in Reading /\ call.op = "rio_readn" /\ ~C!Full
  BY DEF C!ReadN, Reading
<1>2. rio_buf = <<>> /\ wire \in Seq(Bytes) /\ usrbuf \in Seq(Bytes) /\ call.n \in Nat
  BY <1>1 DEF RioInv, RioTypes, RioCall
<1>3. CASE /\ wire = <<>> /\ C!Return(usrbuf, Len(usrbuf))
           /\ UNCHANGED <<stream, wire, rio_buf, usrbuf, C!socketVars>>
  BY <1>1, <1>2, <1>3, RioReturns
<1>4. CASE C!Fails
  BY <1>4, RioFails
<1>5. ASSUME NEW k \in 1..(call.n - Len(usrbuf)), k <= Len(wire),
             usrbuf' = usrbuf \o SubSeq(wire, 1, k),
             wire' = SubSeq(wire, k + 1, Len(wire)),
             UNCHANGED <<stream, rio_buf, call, results, C!socketVars>>
      PROVE  RioInv'
  <2>1. Len(usrbuf) \in Nat /\ Want = call.n /\ k \in 0..Len(wire) /\ k <= Want - Len(usrbuf)
    BY <1>1, <1>2, <1>5, NotFull, LenProperties DEF Want
  <2>2. PICK piece : piece = SubSeq(wire, 1, k)
    OBVIOUS
  <2>3. piece \in Seq(Bytes) /\ Len(piece) = k /\ wire' \in Seq(Bytes) /\ wire = piece \o wire'
    BY <1>2, <1>5, <2>1, <2>2, Cut
  <2>4. rio_buf' = <<>> /\ rio_buf' \in Seq(Bytes)
    BY <1>2, <1>5, EmptySeq
  <2>5. rio_buf \o wire = piece \o (rio_buf' \o wire')
    BY <1>2, <2>3, <2>4, ConcatEmptySeq
  <2> QED BY <1>1, <1>5, <2>1, <2>2, <2>3, <2>4, <2>5, RioExtends
<1> QED BY <1>3, <1>4, <1>5 DEF C!ReadN

\* A reading call that has all it wants returns.
LEMMA RioReadReturns == ASSUME RioInv, C!ReadReturns PROVE RioInv'
<1>1. call.op \in Reading
  BY DEF C!ReadReturns, C!Buffered, Reading
<1> QED BY <1>1, RioReturns DEF C!ReadReturns

\* A call to read.
LEMMA RioCallRead == ASSUME RioInv, C!CallRead PROVE RioInv'
<1>1. PICK op \in C!Buffered \cup {"rio_readn"}, n \in Counts :
          /\ op \in C!Buffered => "rio_readn" \notin C!ReadsSoFar
          /\ op = "rio_readn" => C!ReadsSoFar \cap C!Buffered = {}
          /\ op = "rio_readlineb" => n > 1
          /\ call' = [op |-> op, n |-> n]
  BY DEF C!CallRead
<1>2. /\ call.op' = op /\ call.n' = n /\ n \in Nat /\ op \in Reading
      /\ call' = [op |-> call.op', n |-> call.n'] /\ usrbuf' = <<>>
      /\ UNCHANGED <<stream, wire, rio_buf, results>> /\ call.op \in {"read", "idle"}
  BY <1>1, WebAssumption DEF C!CallRead, C!Buffered, Reading
<1>3. <<>> \in Seq(Bytes) /\ Len(<<>>) = 0
  BY EmptySeq
<1>4. RioTypes'
  BY <1>2, <1>3 DEF RioInv, RioTypes
<1>5. RioCall'
  <2>1. op = "rio_readn" => rio_buf = <<>>
    BY <1>1, <1>2 DEF RioInv, RioCall
  <2>2. Want' \in Nat
    BY <1>1, <1>2 DEF Want
  <2> QED BY <1>1, <1>2, <1>3, <2>1, <2>2 DEF RioCall, C!ReadsSoFar, Reading
<1>6. C!BytesInOrder'
  <2>1. rio_buf \o wire \in Seq(Bytes)
    BY ConcatProperties DEF RioInv, RioTypes
  <2>2. <<>> \o (rio_buf \o wire) = rio_buf \o wire
    BY <2>1, ConcatEmptySeq
  <2>3. stream = C!Returned \o (rio_buf \o wire)
    <3>1. CASE call.op = "idle"
      BY <3>1 DEF RioInv, C!BytesInOrder
    <3>2. CASE call.op = "read"
      <4>1. results = <<>> /\ stream = wire /\ rio_buf = <<>> /\ wire \in Seq(Bytes)
        BY <3>2 DEF RioInv, RioCall, RioTypes
      <4> QED BY <4>1, ConcatEmptySeq DEF C!Returned
    <3> QED BY <1>2, <3>1, <3>2
  <2> QED BY <1>2, <2>2, <2>3 DEF C!BytesInOrder, C!Returned, Reading
<1>7. C!CallsAreWhole'
  BY <1>2 DEF RioInv, C!CallsAreWhole
<1> QED BY <1>4, <1>5, <1>6, <1>7 DEF RioInv

\* A write() of rio_writen().
LEMMA RioWrites == ASSUME RioInv, C!WriteN PROVE RioInv'
<1>1. CASE C!Fails
  BY <1>1, RioFails
<1>2. ASSUME NEW k \in 1..(Len(stream) - Len(wire)),
             wire' = wire \o SubSeq(stream, Len(wire) + 1, Len(wire) + k),
             UNCHANGED <<stream, rio_buf, usrbuf, call, results, C!socketVars>>
      PROVE  RioInv'
  <2>1. /\ call.op = "write" /\ stream \in Seq(Bytes) /\ wire \in Seq(Bytes)
        /\ Len(stream) \in Nat /\ Len(wire) \in Nat
    BY LenProperties DEF RioInv, RioTypes, C!WriteN
  <2>2. wire = SubSeq(stream, 1, Len(wire))
    <3>1. C!IsPrefix(wire, stream)
      BY <2>1 DEF RioInv, C!BytesInOrder
    <3> QED BY <2>1, <3>1, SubSeqFull DEF C!IsPrefix
  <2>3. PICK n : n = Len(wire) + k
    OBVIOUS
  <2>4. n \in Len(wire)..Len(stream) /\ n \in 0..Len(stream) /\ Len(wire) \in 0..Len(stream)
    BY <2>1, <2>3
  <2>5. wire' = SubSeq(stream, 1, n)
    <3>1. 1 \in 1..(Len(stream) + 1) /\ Len(wire) \in (1 - 1)..Len(stream) /\ n \in Len(wire)..Len(stream)
      BY <2>1, <2>4
    <3>2. SubSeq(stream, 1, Len(wire)) \o SubSeq(stream, Len(wire) + 1, n) = SubSeq(stream, 1, n)
      BY <2>1, <3>1, ConcatAdjacentSubSeq
    <3> QED BY <1>2, <2>2, <2>3, <3>2
  <2>6. wire' \in Seq(Bytes) /\ Len(wire') = n /\ SubSeq(wire', 1, n) = SubSeq(stream, 1, n)
    BY <2>1, <2>4, <2>5, Cut, SubSeqFull
  <2>7. RioTypes'
    BY <1>2, <2>6 DEF RioInv, RioTypes
  <2>8. RioCall'
    BY <1>2, <2>1 DEF RioInv, RioCall, Want, Reading
  <2>9. C!BytesInOrder'
    BY <1>2, <2>1, <2>4, <2>6 DEF C!BytesInOrder, C!IsPrefix, C!Buffered
  <2>10. C!CallsAreWhole'
    BY <1>2 DEF RioInv, C!CallsAreWhole
  <2> QED BY <2>7, <2>8, <2>9, <2>10 DEF RioInv
<1> QED BY <1>1, <1>2 DEF C!WriteN

\* rio_writen() returns.
LEMMA RioWriteReturns == ASSUME RioInv, C!WriteReturns PROVE RioInv'
<1>1. /\ stream \in Seq(Bytes) /\ wire \in Seq(Bytes) /\ Len(stream) \in Nat
      /\ call.op = "write" /\ Len(wire) = Len(stream) /\ stream' = stream /\ wire' = wire
      /\ call' = [op |-> "none", n |-> 0] /\ UNCHANGED <<rio_buf, usrbuf>>
  BY LenProperties DEF RioInv, RioTypes, C!WriteReturns, C!NoCall
<1>2. C!IsPrefix(wire, stream)
  BY <1>1 DEF RioInv, C!BytesInOrder
<1>3. wire = stream
  BY <1>1, <1>2, SubSeqFull DEF C!IsPrefix
<1>4. PICK r : r = [op |-> "rio_writen", n |-> Len(stream), bytes |-> wire,
                    ret |-> Len(stream), upto |-> wire]
  OBVIOUS
<1>5. r \in Result /\ results' = <<r>>
  BY <1>1, <1>4 DEF Result, C!WriteReturns
<1>6. RioTypes'
  BY <1>1, <1>5 DEF RioInv, RioTypes, Reading
<1>7. RioCall'
  BY <1>1 DEF RioCall, Reading
<1>8. C!BytesInOrder'
  BY <1>1, <1>2, <1>3 DEF C!BytesInOrder, C!Buffered
<1>9. C!CallsAreWhole'
  BY <1>1, <1>4, <1>5 DEF C!CallsAreWhole
<1> QED BY <1>6, <1>7, <1>8, <1>9 DEF RioInv
----------------------------------------------------------------------------
(* open_clientfd() and open_listenfd().                                    *)

\* The states of a call that keeps a socket.
OpenLabels == {"connected", "bound", "listening"}

\* The inductive invariant of the sockets: a close() that fails ends the process.
SocketInv == C!OneSocket /\ (unclosed => call.op = "exited")

\* The calls of the package leave the sockets alone.
LEMMA RioStep == ASSUME RioInv, SocketInv, C!Rio PROVE RioInv' /\ SocketInv'
<1>1. RioInv'
  BY RioCallRead, RioRefills, RioCopies, RioReadN, RioReadReturns, RioWrites, RioWriteReturns
  DEF C!Rio
<1>2. /\ UNCHANGED C!socketVars
      /\ call.op \in Reading \cup {"read", "idle", "write"}
      /\ call.op' \notin OpenLabels
  <2>1. CASE C!CallRead
    BY <2>1 DEF C!CallRead, C!Buffered, Reading, OpenLabels
  <2>2. CASE C!Refill
    BY <2>2 DEF C!Refill, C!Fails, C!Exited, C!Return, C!Buffered, Reading, OpenLabels
  <2>3. CASE C!Copy
    BY <2>3 DEF C!Copy, C!Buffered, Reading, OpenLabels
  <2>4. CASE C!ReadN
    BY <2>4 DEF C!ReadN, C!Fails, C!Exited, C!Return, Reading, OpenLabels
  <2>5. CASE C!ReadReturns
    BY <2>5 DEF C!ReadReturns, C!Return, C!Buffered, Reading, OpenLabels
  <2>6. CASE C!WriteN
    BY <2>6 DEF C!WriteN, C!Fails, C!Exited, OpenLabels
  <2>7. CASE C!WriteReturns
    BY <2>7 DEF C!WriteReturns, C!NoCall, OpenLabels
  <2> QED BY <2>1, <2>2, <2>3, <2>4, <2>5, <2>6, <2>7 DEF C!Rio
<1>3. SocketInv'
  BY <1>2 DEF SocketInv, C!OneSocket, C!socketVars, Reading, OpenLabels
<1> QED BY <1>1, <1>3

\* open_clientfd() and open_listenfd() leave the streams alone.
LEMMA SocketStep ==
    ASSUME RioInv, SocketInv,
           C!GetAddresses \/ C!NoSocket \/ C!ClientTurn \/ C!ListenTurn \/ C!Listen \/ C!NoAddress
    PROVE  RioInv' /\ SocketInv'
<1> DEFINE Opening == {"open_clientfd", "open_listenfd"}
           Left == UNCHANGED <<stream, wire, rio_buf, usrbuf, results>>
           Shape == call' = [op |-> call.op', n |-> call.n']
<1>0. call = [op |-> call.op, n |-> call.n]
  BY DEF RioInv, RioTypes
<1>1. CASE C!GetAddresses
  <2>1. Left /\ Shape /\ call.op' \in Opening \cup {"exited"} /\ call.op = "socket"
        /\ sockets' = sockets /\ unclosed' = unclosed
    BY <1>1 DEF C!GetAddresses, C!Exited
  <2> QED BY <2>1, RioLeft DEF Reading, SocketInv, C!OneSocket
<1>2. CASE C!NoSocket
  <2>1. Left /\ Shape /\ call.op' \in Opening /\ call' = call
        /\ sockets' = sockets /\ unclosed' = unclosed
    BY <1>0, <1>2 DEF C!NoSocket, C!rioVars
  <2> QED BY <2>1, RioLeft DEF Reading, SocketInv, C!OneSocket
<1>3. CASE C!CloseFails
  <2>1. Left /\ Shape /\ call.op' = "exited" /\ unclosed' = TRUE
    BY <1>3 DEF C!CloseFails, C!Exited
  <2> QED BY <2>1, RioLeft DEF Reading, SocketInv, C!OneSocket
<1>4. CASE (C!ClientTurn \/ C!ListenTurn) /\ ~C!CloseFails
  <2>1. Left /\ Shape /\ call.op \in Opening /\ call.op' \in Opening \cup OpenLabels
        /\ unclosed' = unclosed
        /\ \/ call' = call /\ sockets' = sockets
           \/ call.op' \in OpenLabels /\ sockets' = sockets \cup {call.n'}
    BY <1>0, <1>4 DEF C!ClientTurn, C!ListenTurn, C!rioVars, OpenLabels
  <2>2. sockets = {} /\ ~unclosed
    BY <2>1 DEF SocketInv, C!OneSocket
  <2> QED BY <2>1, <2>2, RioLeft DEF Reading, SocketInv, C!OneSocket, OpenLabels
<1>5. CASE C!Listen
  <2>1. Left /\ Shape /\ call.op = "bound" /\ unclosed' = unclosed
        /\ \/ call.op' = "listening" /\ call.n' = call.n /\ sockets' = sockets
           \/ call.op' = "exited" /\ sockets' = sockets \ {call.n}
    BY <1>0, <1>5 DEF C!Listen, C!Exited
  <2>2. sockets = {call.n} /\ ~unclosed
    BY <2>1 DEF SocketInv, C!OneSocket
  <2> QED BY <2>1, <2>2, RioLeft DEF Reading, SocketInv, C!OneSocket
<1>6. CASE C!NoAddress
  <2>1. Left /\ Shape /\ call.op' = "exited" /\ call.op \in Opening
        /\ sockets' = sockets /\ unclosed' = unclosed
    BY <1>6 DEF C!NoAddress, C!Fails, C!Exited, C!socketVars
  <2> QED BY <2>1, RioLeft DEF Reading, SocketInv, C!OneSocket
<1> QED BY <1>1, <1>2, <1>3, <1>4, <1>5, <1>6

\* The calls of csapp.c keep the stream in order and their promise.
LEMMA CsappKept ==
    ASSUME RioInv, SocketInv, C!CsappNext \/ UNCHANGED csappv
    PROVE  RioInv' /\ SocketInv'
<1>1. CASE UNCHANGED csappv
  BY <1>1 DEF csappv, RioInv, RioTypes, RioCall, C!BytesInOrder, C!CallsAreWhole, SocketInv,
     C!OneSocket, C!Returned, C!ReadsSoFar, Want
<1> QED BY <1>1, RioStep, SocketStep DEF C!CsappNext
----------------------------------------------------------------------------
(* Tiny.                                                                   *)

\* Where a connection is being served, and where its file is.
Connected == {"doit", "read_requesthdrs", "more", "stat", "501", "404", "403",
              "serve_static", "open", "mmap", "body", "munmap", "serve_dynamic",
              "fork", "wait", "close"}

\* What is open, mapped and running at each statement.
TinyHas ==
    /\ tpc \in Connected \cup {"accept", "exited"}
    /\ tpc = "accept" => opened = {"listenfd"}
    /\ tpc \in Connected =>
          opened = IF tpc = "mmap" THEN {"listenfd", "connfd", "srcfd"} ELSE {"listenfd", "connfd"}
    /\ mapped => tpc \in {"body", "munmap"}
    /\ IF tpc = "wait" THEN child \in {"running", "ended"} ELSE child = "none"

\* The request that leads to each statement.
TinyAsked ==
    /\ line \in T!RequestLines
    /\ tpc = "doit" => lines = <<>> \/ Head(lines) \in T!RequestLines
    /\ tpc = "501" => line.method # "GET"
    /\ tpc \in Connected \ {"doit", "501", "close"} => line.method = "GET"
    /\ tpc = "404" => line.uri \in {"missing", "no program"}
    /\ tpc = "403" => line.uri \in {"secret", "directory", "data"}
    /\ tpc \in {"serve_static", "open", "mmap"} => line.uri \in {"page", "empty"}
    /\ tpc \in {"body", "munmap"} => line.uri = "page"
    /\ tpc \in {"serve_dynamic", "fork", "wait"} => line.uri = "program"

\* What has been sent at each statement.
TinySent ==
    /\ tpc = "accept" => sentTiny = <<>> \/ T!Answered
    /\ tpc = "close" => T!Answered
    /\ tpc \in {"doit", "read_requesthdrs", "more", "stat", "501", "404", "403",
                "serve_static", "serve_dynamic"} => sentTiny = <<>>
    /\ tpc \in {"open", "mmap", "body", "fork"} => sentTiny = <<"200">>
    /\ tpc = "munmap" => sentTiny = <<"200", "body">>
    /\ tpc = "wait" => \/ sentTiny = <<"200">>
                       \/ child = "ended" /\ sentTiny = <<"200", "body">>

\* The inductive invariant of Tiny.
TinyInv == TinyHas /\ TinyAsked /\ TinySent

\* It holds when Tiny starts.
LEMMA TinyStarts == T!TinyInit => TinyInv
<1> SUFFICES ASSUME T!TinyInit PROVE TinyInv
  OBVIOUS
<1>1. TinyHas
  BY DEF T!TinyInit, TinyHas, Connected
<1>2. TinyAsked
  BY DEF T!TinyInit, TinyAsked, Connected, T!RequestLines, T!Methods, T!Static, T!Dynamic
<1>3. TinySent
  BY DEF T!TinyInit, TinySent
<1> QED BY <1>1, <1>2, <1>3 DEF TinyInv

\* A request is empty or begins with a request line.
LEMMA RequestHead ==
    ASSUME NEW r \in T!Requests PROVE r = <<>> \/ Head(r) \in T!RequestLines
<1> SUFFICES ASSUME r # <<>> PROVE Head(r) \in T!RequestLines
  OBVIOUS
<1>1. PICK l \in T!RequestLines, after \in T!AfterRequestLine : r = <<l>> \o after
  BY DEF T!Requests
<1>2. PICK S : S = T!RequestLines \cup {"header", "blank"}
  OBVIOUS
<1>3. \A hs \in T!Headers : hs \in Seq(S)
  <2>1. SUFFICES ASSUME NEW h \in 0..MaxHeaders PROVE [i \in 1..h |-> "header"] \in Seq(S)
    BY DEF T!Headers
  <2>2. h \in Nat /\ [i \in 1..h |-> "header"] \in [1..h -> S]
    BY <1>2, WebAssumption
  <2> QED BY <2>2, SeqDef
<1>4. after \in Seq(S)
  BY <1>1, <1>2, <1>3, AppendProperties DEF T!AfterRequestLine
<1>5. <<l>> \in Seq(S) /\ Len(<<l>>) = 1 /\ Len(after) \in Nat
  BY <1>1, <1>2, <1>4, LenProperties
<1>6. (<<l>> \o after)[1] = l
  BY <1>4, <1>5, ConcatProperties
<1> QED BY <1>1, <1>6

\* A response of two parts.
LEMMA TwoParts == Append(<<"200">>, "body") = <<"200", "body">>
<1> DEFINE S == {"200", "body"}
           two == Append(<<"200">>, "body")
<1>1. <<"200">> \in Seq(S) /\ "body" \in S /\ <<"200", "body">> \in Seq(S)
      /\ Len(<<"200">>) = 1 /\ Len(<<"200", "body">>) = 2
  OBVIOUS
<1>2. two \in Seq(S) /\ Len(two) = 2 /\ two[1] = "200" /\ two[2] = "body"
  BY <1>1, AppendProperties
<1>3. \A i \in 1..2 : two[i] = <<"200", "body">>[i]
  BY <1>2
<1> QED BY <1>1, <1>2, <1>3, SeqEqual

\* The descriptors that are opened and closed.
LEMMA TinySets ==
    /\ {"listenfd"} \cup {"connfd"} = {"listenfd", "connfd"}
    /\ {"listenfd", "connfd"} \cup {"srcfd"} = {"listenfd", "connfd", "srcfd"}
    /\ {"listenfd", "connfd", "srcfd"} \ {"srcfd"} = {"listenfd", "connfd"}
    /\ {"listenfd", "connfd"} \ {"connfd"} = {"listenfd"}
  OBVIOUS

\* Every step of Tiny keeps its invariant (main(), doit() and what it calls).
LEMMA TinyKept == ASSUME TinyInv, T!TinyNext \/ UNCHANGED tinyv PROVE TinyInv'
<1>a. \A p : Append(<<>>, p) = <<p>>
  OBVIOUS
<1>1. CASE T!AcceptConnection
  <2>1. TinyHas'
    BY <1>1, RequestHead, <1>a, TwoParts, TinySets
       DEF T!AcceptConnection, TinyInv, TinyHas, TinyAsked, TinySent, Connected
  <2>2. TinyAsked'
    BY <1>1, RequestHead, <1>a, TwoParts, TinySets
       DEF T!AcceptConnection, TinyInv, TinyHas, TinyAsked, TinySent, Connected, T!RequestLines
  <2>3. TinySent'
    BY <1>1, RequestHead, <1>a, TwoParts, TinySets
       DEF T!AcceptConnection, TinyInv, TinyHas, TinyAsked, TinySent, Connected, T!Answered
  <2> QED BY <2>1, <2>2, <2>3 DEF TinyInv
<1>2. CASE T!ReadRequestLine
  <2>1. line' \in T!RequestLines
    BY <1>2 DEF T!ReadRequestLine, TinyInv, TinyAsked
  <2>2. TinyHas' /\ TinyAsked' /\ TinySent'
    BY <1>2, <2>1
       DEF T!ReadRequestLine, T!RequestLines, TinyInv, TinyHas, TinyAsked, TinySent, Connected
  <2> QED BY <2>2 DEF TinyInv
<1>3. CASE T!ReadRequestHdrs
  <2>1. TinyHas'
    BY <1>3, <1>a, TwoParts, TinySets
       DEF T!ReadRequestHdrs, TinyInv, TinyHas, TinyAsked, TinySent, Connected
  <2>2. TinyAsked'
    BY <1>3, <1>a, TwoParts, TinySets
       DEF T!ReadRequestHdrs, TinyInv, TinyHas, TinyAsked, TinySent, Connected, T!RequestLines
  <2>3. TinySent'
    BY <1>3, <1>a, TwoParts, TinySets
       DEF T!ReadRequestHdrs, TinyInv, TinyHas, TinyAsked, TinySent, Connected, T!Answered
  <2> QED BY <2>1, <2>2, <2>3 DEF TinyInv
<1>4. CASE T!Stat
  <2>1. TinyHas'
    BY <1>4, <1>a, TwoParts, TinySets
       DEF T!Stat, T!RequestLines, T!Static, T!Dynamic, TinyInv, TinyHas, TinyAsked, TinySent,
           Connected
  <2>2. TinyAsked'
    BY <1>4, <1>a, TwoParts, TinySets
       DEF T!Stat, T!RequestLines, T!Static, T!Dynamic, TinyInv, TinyHas, TinyAsked, TinySent,
           Connected, T!RequestLines
  <2>3. TinySent'
    BY <1>4, <1>a, TwoParts, TinySets
       DEF T!Stat, T!RequestLines, T!Static, T!Dynamic, TinyInv, TinyHas, TinyAsked, TinySent,
           Connected, T!Answered
  <2> QED BY <2>1, <2>2, <2>3 DEF TinyInv
<1>5. CASE T!ClientError
  <2>1. tpc \in {"501", "404", "403"} /\ sentTiny = <<>>
    BY <1>5 DEF T!ClientError, TinyInv, TinySent
  <2>2. CASE T!Exits
    <3>1. /\ tpc' = "exited" /\ child' = child /\ line' = line /\ mapped' = FALSE
          /\ child = "none" /\ line \in T!RequestLines
      BY <2>1, <2>2 DEF T!Exits, TinyInv, TinyHas, TinyAsked
    <3> QED BY <3>1 DEF TinyInv, TinyHas, TinyAsked, TinySent, Connected
  <2>3. CASE /\ sentTiny' = Append(sentTiny, tpc) /\ tpc' = "close"
             /\ UNCHANGED <<lines, line, opened, mapped, child>>
    <3>1. sentTiny' = <<tpc>>
      BY <2>1, <2>3, <1>a
    <3>2. T!Answered'
      <4>1. line' = line
        BY <2>3
      <4>2. CASE tpc = "501"
        BY <4>1, <4>2, <3>1 DEF TinyInv, TinyAsked, T!Answered
      <4>3. CASE tpc = "404"
        BY <4>1, <4>3, <3>1 DEF TinyInv, TinyAsked, T!Answered, Connected
      <4>4. CASE tpc = "403"
        BY <4>1, <4>4, <3>1 DEF TinyInv, TinyAsked, T!Answered, Connected
      <4> QED BY <2>1, <4>2, <4>3, <4>4
    <3> QED
      BY <2>1, <2>3, <3>2 DEF TinyInv, TinyHas, TinyAsked, TinySent, Connected
  <2> QED BY <1>5, <2>2, <2>3 DEF T!ClientError, T!Write
<1>6. CASE T!ServeStatic
  <2>1. TinyHas'
    BY <1>6, <1>a, TwoParts, TinySets
       DEF T!ServeStatic, T!Write, T!Exits, TinyInv, TinyHas, TinyAsked, TinySent, Connected
  <2>2. TinyAsked'
    BY <1>6, <1>a, TwoParts, TinySets
       DEF T!ServeStatic, T!Write, T!Exits, TinyInv, TinyHas, TinyAsked, TinySent, Connected,
           T!RequestLines
  <2>3. TinySent'
    BY <1>6, <1>a, TwoParts, TinySets
       DEF T!ServeStatic, T!Write, T!Exits, TinyInv, TinyHas, TinyAsked, TinySent, Connected,
           T!Answered
  <2> QED BY <2>1, <2>2, <2>3 DEF TinyInv
<1>7. CASE T!OpenFile
  <2>1. TinyHas'
    BY <1>7, <1>a, TwoParts, TinySets
       DEF T!OpenFile, T!Exits, TinyInv, TinyHas, TinyAsked, TinySent, Connected
  <2>2. TinyAsked'
    BY <1>7, <1>a, TwoParts, TinySets
       DEF T!OpenFile, T!Exits, TinyInv, TinyHas, TinyAsked, TinySent, Connected,
           T!RequestLines
  <2>3. TinySent'
    BY <1>7, <1>a, TwoParts, TinySets
       DEF T!OpenFile, T!Exits, TinyInv, TinyHas, TinyAsked, TinySent, Connected, T!Answered
  <2> QED BY <2>1, <2>2, <2>3 DEF TinyInv
<1>8. CASE T!MapFile
  <2>1. TinyHas'
    BY <1>8, <1>a, TwoParts, TinySets
       DEF T!MapFile, T!Exits, TinyInv, TinyHas, TinyAsked, TinySent, Connected
  <2>2. TinyAsked'
    BY <1>8, <1>a, TwoParts, TinySets
       DEF T!MapFile, T!Exits, TinyInv, TinyHas, TinyAsked, TinySent, Connected, T!RequestLines
  <2>3. TinySent'
    BY <1>8, <1>a, TwoParts, TinySets
       DEF T!MapFile, T!Exits, TinyInv, TinyHas, TinyAsked, TinySent, Connected, T!Answered
  <2> QED BY <2>1, <2>2, <2>3 DEF TinyInv
<1>9. CASE T!WriteBody
  <2>1. TinyHas'
    BY <1>9, <1>a, TwoParts, TinySets
       DEF T!WriteBody, T!Write, T!Exits, TinyInv, TinyHas, TinyAsked, TinySent, Connected
  <2>2. TinyAsked'
    BY <1>9, <1>a, TwoParts, TinySets
       DEF T!WriteBody, T!Write, T!Exits, TinyInv, TinyHas, TinyAsked, TinySent, Connected,
           T!RequestLines
  <2>3. TinySent'
    BY <1>9, <1>a, TwoParts, TinySets
       DEF T!WriteBody, T!Write, T!Exits, TinyInv, TinyHas, TinyAsked, TinySent, Connected,
           T!Answered
  <2> QED BY <2>1, <2>2, <2>3 DEF TinyInv
<1>10. CASE T!UnmapFile
  <2>1. TinyHas'
    BY <1>10, <1>a, TwoParts, TinySets
       DEF T!UnmapFile, TinyInv, TinyHas, TinyAsked, TinySent, Connected
  <2>2. TinyAsked'
    BY <1>10, <1>a, TwoParts, TinySets
       DEF T!UnmapFile, TinyInv, TinyHas, TinyAsked, TinySent, Connected, T!RequestLines
  <2>3. TinySent'
    BY <1>10, <1>a, TwoParts, TinySets
       DEF T!UnmapFile, TinyInv, TinyHas, TinyAsked, TinySent, Connected, T!Answered
  <2> QED BY <2>1, <2>2, <2>3 DEF TinyInv
<1>11. CASE T!ServeDynamic
  <2>1. TinyHas'
    BY <1>11, <1>a, TwoParts, TinySets
       DEF T!ServeDynamic, T!Write, T!Exits, TinyInv, TinyHas, TinyAsked, TinySent, Connected
  <2>2. TinyAsked'
    BY <1>11, <1>a, TwoParts, TinySets
       DEF T!ServeDynamic, T!Write, T!Exits, TinyInv, TinyHas, TinyAsked, TinySent, Connected,
           T!RequestLines
  <2>3. TinySent'
    BY <1>11, <1>a, TwoParts, TinySets
       DEF T!ServeDynamic, T!Write, T!Exits, TinyInv, TinyHas, TinyAsked, TinySent, Connected,
           T!Answered
  <2> QED BY <2>1, <2>2, <2>3 DEF TinyInv
<1>12. CASE T!ForkChild
  <2>1. TinyHas'
    BY <1>12, <1>a, TwoParts, TinySets
       DEF T!ForkChild, T!Exits, TinyInv, TinyHas, TinyAsked, TinySent, Connected
  <2>2. TinyAsked'
    BY <1>12, <1>a, TwoParts, TinySets
       DEF T!ForkChild, T!Exits, TinyInv, TinyHas, TinyAsked, TinySent, Connected,
           T!RequestLines
  <2>3. TinySent'
    BY <1>12, <1>a, TwoParts, TinySets
       DEF T!ForkChild, T!Exits, TinyInv, TinyHas, TinyAsked, TinySent, Connected, T!Answered
  <2> QED BY <2>1, <2>2, <2>3 DEF TinyInv
<1>13. CASE T!ChildRuns
  <2>1. TinyHas'
    BY <1>13, <1>a, TwoParts, TinySets
       DEF T!ChildRuns, TinyInv, TinyHas, TinyAsked, TinySent, Connected
  <2>2. TinyAsked'
    BY <1>13, <1>a, TwoParts, TinySets
       DEF T!ChildRuns, TinyInv, TinyHas, TinyAsked, TinySent, Connected, T!RequestLines
  <2>3. TinySent'
    BY <1>13, <1>a, TwoParts, TinySets
       DEF T!ChildRuns, TinyInv, TinyHas, TinyAsked, TinySent, Connected, T!Answered
  <2> QED BY <2>1, <2>2, <2>3 DEF TinyInv
<1>14. CASE T!WaitChild
  <2>1. TinyHas'
    BY <1>14, <1>a, TwoParts, TinySets
       DEF T!WaitChild, TinyInv, TinyHas, TinyAsked, TinySent, Connected
  <2>2. TinyAsked'
    BY <1>14, <1>a, TwoParts, TinySets
       DEF T!WaitChild, TinyInv, TinyHas, TinyAsked, TinySent, Connected, T!RequestLines
  <2>3. TinySent'
    BY <1>14, <1>a, TwoParts, TinySets
       DEF T!WaitChild, TinyInv, TinyHas, TinyAsked, TinySent, Connected, T!Answered
  <2> QED BY <2>1, <2>2, <2>3 DEF TinyInv
<1>15. CASE T!CloseConnection
  <2>1. TinyHas'
    BY <1>15, <1>a, TwoParts, TinySets
       DEF T!CloseConnection, TinyInv, TinyHas, TinyAsked, TinySent, Connected
  <2>2. TinyAsked'
    BY <1>15, <1>a, TwoParts, TinySets
       DEF T!CloseConnection, TinyInv, TinyHas, TinyAsked, TinySent, Connected, T!RequestLines
  <2>3. TinySent'
    BY <1>15, <1>a, TwoParts, TinySets
       DEF T!CloseConnection, TinyInv, TinyHas, TinyAsked, TinySent, Connected, T!Answered
  <2> QED BY <2>1, <2>2, <2>3 DEF TinyInv
<1>16. CASE UNCHANGED tinyv
  <2>1. TinyHas'
    BY <1>16, <1>a, TwoParts, TinySets
       DEF tinyv, TinyInv, TinyHas, TinyAsked, TinySent, Connected
  <2>2. TinyAsked'
    BY <1>16, <1>a, TwoParts, TinySets
       DEF tinyv, TinyInv, TinyHas, TinyAsked, TinySent, Connected, T!RequestLines
  <2>3. TinySent'
    BY <1>16, <1>a, TwoParts, TinySets
       DEF tinyv, TinyInv, TinyHas, TinyAsked, TinySent, Connected, T!Answered
  <2> QED BY <2>1, <2>2, <2>3 DEF TinyInv
<1> QED
  BY <1>1, <1>2, <1>3, <1>4, <1>5, <1>6, <1>7, <1>8, <1>9, <1>10, <1>11, <1>12, <1>13, <1>14,
     <1>15, <1>16 DEF T!TinyNext, T!Doit
----------------------------------------------------------------------------
(* The lab servers.                                                        *)

\* The connection is open.
OnLine == 4 \in DOMAIN fds /\ fds[4] = "conn"

\* What is open and mapped while lines are taken; a file that is sent has the
\* number after the connection, or its number when that has been closed.
LinesHave ==
    /\ DOMAIN fds \in {{3}, {3, 4}}
    /\ 4 \in DOMAIN fds => fds[4] = "conn"
FileHas ==
    \/ DOMAIN fds = {3, 4, 5} /\ fds[4] = "conn" /\ fds[5] = "file"
    \/ DOMAIN fds = {3, 4} /\ fds[4] = "file"

\* What is open and mapped, and which request is served, at each place.
ServerHas ==
    /\ wpc \in {"accept", "lines", "waitpid", "send", "close", "ended"}
    /\ wpc # "ended" =>
          /\ fds = [d \in DOMAIN fds |-> fds[d]]
          /\ 3 \in DOMAIN fds /\ fds[3] = "listen"
          /\ maps = IF wpc = "send" THEN 1 ELSE 0
          /\ children = IF wpc = "waitpid" THEN 1 ELSE 0
    /\ wpc = "accept" => DOMAIN fds = {3}
    /\ wpc \in {"lines", "waitpid", "close"} => new_socket = 4 /\ LinesHave
    /\ wpc = "send" =>
          /\ new_socket = 4 /\ rest # <<>> /\ Head(rest).method = "GET"
          /\ \/ Head(rest).url = "page" /\ LinesHave
             \/ Head(rest).url \in {"video", "file"} /\ FileHas
    /\ wpc = "waitpid" => rest # <<>> /\ Head(rest).method = "GET" /\ Head(rest).url = "cgi"

\* The response to the first line.
Responded ==
    /\ asked # <<>>
    /\ sent = IF asked[1].method # "GET" THEN <<"405">>
              ELSE IF asked[1].url \in {"no page", "no file"}
              THEN <<"404">> ELSE <<"200", "body">>

\* A connection that is open with its request line ahead has got nothing.
ServerSent ==
    /\ sent = <<>> \/ Responded
    /\ OnLine /\ (wpc \in {"waitpid", "send"} \/ (wpc = "lines" /\ is_first_line = 1)) =>
          sent = <<>> /\ (rest # <<>> => asked # <<>> /\ asked[1] = Head(rest))
    /\ wpc \in {"waitpid", "send"} => is_first_line = 1

\* The inductive invariant of the lab servers; only webserver.c answers requests.
ServerInv == ServerHas /\ (server = "webserver" => ServerSent)

\* It holds when a server starts to listen.
LEMMA ServerStarts == W!WsInit => ServerInv
  BY DEF W!WsInit, ServerInv, ServerHas, ServerSent, LinesHave, FileHas

\* The descriptors that open() and accept() return.
LEMMA LowestIs ==
    /\ DOMAIN fds = {3} => W!Lowest(fds) = 4
    /\ DOMAIN fds = {3, 4} => W!Lowest(fds) = 5
<1>1. Cardinality({3}) = 1 /\ Cardinality({3, 4}) = 2
  <2>1. IsFiniteSet({3}) /\ Cardinality({3}) = 1
    BY FS_Singleton
  <2>2. {3, 4} = {3} \cup {4} /\ 4 \notin {3}
    OBVIOUS
  <2>3. Cardinality({3} \cup {4}) = Cardinality({3}) + 1
    BY <2>1, <2>2, FS_AddElement
  <2> QED BY <2>1, <2>2, <2>3
<1>2. ASSUME DOMAIN fds = {3} PROVE W!Lowest(fds) = 4
  BY <1>1, <1>2 DEF W!Lowest
<1>3. ASSUME DOMAIN fds = {3, 4} PROVE W!Lowest(fds) = 5
  BY <1>1, <1>3 DEF W!Lowest
<1> QED BY <1>2, <1>3

\* What send() does to a client that has been sent nothing.
LEMMA SendIs ==
    ASSUME NEW what, W!Send(what), new_socket = 4
    PROVE  IF OnLine THEN sent' = sent \o what ELSE sent' = sent
  BY DEF W!Send, OnLine

\* The first that a client is sent.
LEMMA FirstSent ==
    /\ <<>> \o <<"405">> = <<"405">> /\ <<>> \o <<"404">> = <<"404">>
    /\ <<>> \o <<"200", "body">> = <<"200", "body">>
<1>1. /\ <<"405">> \in Seq({"405"}) /\ <<"404">> \in Seq({"404"})
      /\ <<"200", "body">> \in Seq({"200", "body"})
  OBVIOUS
<1> QED BY <1>1, ConcatEmptySeq

\* The file that is closed after it was sent.
LEMMA TheFileIs ==
    ASSUME FileHas, 3 \in DOMAIN fds, fds[3] = "listen"
    PROVE  /\ DOMAIN W!Closed(fds, W!TheFile) \in {{3}, {3, 4}}
           /\ \A d \in DOMAIN W!Closed(fds, W!TheFile) :
                 d \in DOMAIN fds /\ W!Closed(fds, W!TheFile)[d] = fds[d]
           /\ W!Closed(fds, W!TheFile) =
                 [d \in DOMAIN W!Closed(fds, W!TheFile) |-> W!Closed(fds, W!TheFile)[d]]
           /\ 4 \in DOMAIN W!Closed(fds, W!TheFile) => fds[4] = "conn"
<1>1. W!TheFile \in DOMAIN fds /\ fds[W!TheFile] = "file"
  BY DEF W!TheFile, FileHas
<1>2. CASE DOMAIN fds = {3, 4, 5} /\ fds[4] = "conn" /\ fds[5] = "file"
  <2>1. W!TheFile = 5
    BY <1>1, <1>2
  <2> QED BY <1>2, <2>1 DEF W!Closed
<1>3. CASE DOMAIN fds = {3, 4} /\ fds[4] = "file"
  <2>1. W!TheFile = 4
    BY <1>1, <1>3
  <2> QED BY <1>3, <2>1 DEF W!Closed
<1> QED BY <1>2, <1>3 DEF FileHas

\* Every step of a server keeps its invariant.
LEMMA ServerKept == ServerInv /\ [W!WsNext]_serverv => ServerInv'
<1> SUFFICES ASSUME ServerInv, [W!WsNext]_serverv PROVE ServerInv'
  OBVIOUS
<1>1. CASE W!Connect
  <2>1. ServerHas'
    BY <1>1, LowestIs DEF W!Connect, W!Opened, ServerInv, ServerHas, LinesHave, FileHas
  <2>2. server = "webserver" => ServerSent'
    BY <1>1, LowestIs
       DEF W!Connect, W!Opened, ServerInv, ServerHas, LinesHave, FileHas, ServerSent, Responded,
           OnLine
  <2> QED BY <1>1, <2>1, <2>2 DEF ServerInv, W!Connect, W!Opened
<1>2. CASE W!AnswerTest
  <2>1. ServerHas'
    BY <1>2 DEF W!AnswerTest, W!Ends, ServerInv, ServerHas, LinesHave, FileHas
  <2>2. server = "webserver" => ServerSent'
    BY <1>2
       DEF W!AnswerTest, W!Ends, ServerInv, ServerHas, LinesHave, FileHas, ServerSent,
           Responded, OnLine
  <2> QED BY <1>2, <2>1, <2>2 DEF ServerInv, W!AnswerTest, W!Ends
<1>3. CASE W!AnswerTest2
  <2>1. ServerHas'
    BY <1>3 DEF W!AnswerTest2, W!ClientGone, W!Ends, ServerInv, ServerHas, LinesHave, FileHas
  <2>2. server = "webserver" => ServerSent'
    BY <1>3
       DEF W!AnswerTest2, W!ClientGone, W!Ends, ServerInv, ServerHas, LinesHave, FileHas,
           ServerSent, Responded, OnLine
  <2> QED BY <1>3, <2>1, <2>2 DEF ServerInv, W!AnswerTest2, W!ClientGone, W!Ends
<1>4. CASE W!AnswerWeb2
  <2>1. ServerHas'
    BY <1>4 DEF W!AnswerWeb2, W!ClientGone, W!Ends, ServerInv, ServerHas, LinesHave, FileHas
  <2>2. server = "webserver" => ServerSent'
    BY <1>4
       DEF W!AnswerWeb2, W!ClientGone, W!Ends, ServerInv, ServerHas, LinesHave, FileHas,
           ServerSent, Responded, OnLine
  <2> QED BY <1>4, <2>1, <2>2 DEF ServerInv, W!AnswerWeb2, W!ClientGone, W!Ends
<1>5. CASE W!HeaderLine
  <2>1. ServerHas'
    BY <1>5 DEF W!HeaderLine, W!AtLine, ServerInv, ServerHas, LinesHave, FileHas
  <2>2. server = "webserver" => ServerSent'
    BY <1>5
       DEF W!HeaderLine, W!AtLine, ServerInv, ServerHas, LinesHave, FileHas, ServerSent,
           Responded, OnLine
  <2> QED BY <1>5, <2>1, <2>2 DEF ServerInv, W!HeaderLine, W!AtLine
<1>6. CASE W!EndOfLines
  <2>1. ServerHas'
    BY <1>6 DEF W!EndOfLines, ServerInv, ServerHas, LinesHave, FileHas
  <2>2. server = "webserver" => ServerSent'
    BY <1>6
       DEF W!EndOfLines, ServerInv, ServerHas, LinesHave, FileHas, ServerSent, Responded,
           OnLine
  <2> QED BY <1>6, <2>1, <2>2 DEF ServerInv, W!EndOfLines
<1>7. CASE W!NotGet
  <2>1. ServerHas'
    BY <1>7, SendIs, FirstSent
       DEF W!NotGet, W!AtLine, W!AtRequestLine, W!Error, W!Closed, W!ClientGone, W!Ends,
           ServerInv, ServerHas, LinesHave, FileHas
  <2>2. server = "webserver" => ServerSent'
    BY <1>7, SendIs, FirstSent
       DEF W!NotGet, W!AtLine, W!AtRequestLine, W!Error, W!Closed, W!ClientGone, W!Ends,
           ServerInv, ServerHas, LinesHave, FileHas, ServerSent, Responded, OnLine
  <2> QED BY <1>7, <2>1, <2>2
    DEF ServerInv, W!NotGet, W!AtLine, W!AtRequestLine, W!Error, W!Closed, W!ClientGone, W!Ends
<1>8. CASE W!Cgi
  <2>1. ServerHas'
    BY <1>8
       DEF W!Cgi, W!AtLine, W!AtRequestLine, W!Ends, ServerInv, ServerHas, LinesHave, FileHas
  <2>2. server = "webserver" => ServerSent'
    BY <1>8
       DEF W!Cgi, W!AtLine, W!AtRequestLine, W!Ends, ServerInv, ServerHas, LinesHave, FileHas,
           ServerSent, Responded, OnLine
  <2> QED BY <1>8, <2>1, <2>2 DEF ServerInv, W!Cgi, W!AtLine, W!AtRequestLine, W!Ends
<1>9. CASE W!CgiEnds
  <2>1. ServerHas'
    BY <1>9, SendIs, FirstSent DEF W!CgiEnds, ServerInv, ServerHas, LinesHave, FileHas
  <2>2. server = "webserver" => ServerSent'
    BY <1>9, SendIs, FirstSent
       DEF W!CgiEnds, ServerInv, ServerHas, LinesHave, FileHas, ServerSent, Responded, OnLine
  <2> QED BY <1>9, <2>1, <2>2 DEF ServerInv, W!CgiEnds
<1>10. CASE W!MapPage
  <2>1. ServerHas'
    BY <1>10 DEF W!MapPage, W!AtLine, W!AtRequestLine, ServerInv, ServerHas, LinesHave, FileHas
  <2>2. server = "webserver" => ServerSent'
    BY <1>10
       DEF W!MapPage, W!AtLine, W!AtRequestLine, ServerInv, ServerHas, LinesHave, FileHas,
           ServerSent, Responded, OnLine
  <2> QED BY <1>10, <2>1, <2>2 DEF ServerInv, W!MapPage, W!AtLine, W!AtRequestLine
<1>11. CASE W!MapFile
  <2>1. ServerHas'
    BY <1>11, LowestIs
       DEF W!MapFile, W!AtLine, W!AtRequestLine, W!Opened, ServerInv, ServerHas, LinesHave,
           FileHas
  <2>2. server = "webserver" => ServerSent'
    BY <1>11, LowestIs
       DEF W!MapFile, W!AtLine, W!AtRequestLine, W!Opened, ServerInv, ServerHas, LinesHave,
           FileHas, ServerSent, Responded, OnLine
  <2> QED BY <1>11, <2>1, <2>2 DEF ServerInv, W!MapFile, W!AtLine, W!AtRequestLine, W!Opened
<1>12. CASE W!SendFile
  <2>1. CASE W!ClientGone
    BY <1>12, <2>1
       DEF W!SendFile, W!Served, W!ClientGone, W!Ends, ServerInv, ServerHas, ServerSent,
           Responded, OnLine
  <2>2. CASE Head(rest).url = "page" /\ W!Send(<<"200", "body">>) /\ fds' = fds /\ maps' = maps - 1 /\ W!Served
    <3>1. ServerHas'
      BY <1>12, <2>2
         DEF W!SendFile, W!Served, W!ClientGone, W!Ends, ServerInv, ServerHas, LinesHave
    <3>2. server = "webserver" => ServerSent'
      BY <1>12, <2>2, SendIs, FirstSent
         DEF W!SendFile, W!Served, W!ClientGone, W!Ends, ServerInv, ServerHas, ServerSent,
             Responded, OnLine
    <3> QED BY <2>2, <3>1, <3>2 DEF ServerInv, W!Served
  <2>3. CASE Head(rest).url # "page" /\ W!Send(<<"200", "body">>) /\ fds' = W!Closed(fds, W!TheFile) /\ maps' = maps - 1 /\ W!Served
    <3>0. wpc = "send" /\ FileHas /\ 3 \in DOMAIN fds /\ fds[3] = "listen"
      BY <1>12, <2>3 DEF W!SendFile, ServerInv, ServerHas
    <3>1. ServerHas'
      <4>1. 3 \in DOMAIN fds' /\ fds'[3] = "listen" /\ LinesHave' /\ fds' = [d \in DOMAIN fds' |-> fds'[d]]
        BY <2>3, <3>0, TheFileIs DEF LinesHave
      <4> QED BY <1>12, <2>3, <3>0, <4>1 DEF W!SendFile, W!Served, ServerInv, ServerHas
    <3>2. /\ wpc' = "lines" /\ is_first_line' = 0 /\ asked' = asked /\ server' = server
          /\ rest # <<>> /\ Head(rest).method = "GET" /\ Head(rest).url \in {"video", "file"}
      BY <1>12, <2>3, <3>0 DEF W!Served, ServerInv, ServerHas
    <3>3. IF OnLine THEN sent' = sent \o <<"200", "body">> ELSE sent' = sent
      BY <2>3, <3>0, SendIs DEF ServerInv, ServerHas
    <3>4. ASSUME server = "webserver" PROVE ServerSent'
      <4>1. CASE OnLine
        <5>1. sent = <<>> /\ asked # <<>> /\ asked[1] = Head(rest)
          BY <3>0, <3>2, <3>4, <4>1 DEF ServerInv, ServerSent
        <5>2. Responded'
          BY <3>2, <3>3, <4>1, <5>1, FirstSent DEF Responded
        <5> QED BY <3>2, <5>2 DEF ServerSent, OnLine
      <4>2. CASE ~OnLine
        <5>1. sent' = sent /\ (sent = <<>> \/ Responded)
          BY <3>3, <3>4, <4>2 DEF ServerInv, ServerSent
        <5>2. Responded => Responded'
          BY <3>2, <5>1 DEF Responded
        <5> QED BY <3>2, <5>1, <5>2 DEF ServerSent, OnLine
      <4> QED BY <4>1, <4>2
    <3> QED BY <2>3, <3>1, <3>4 DEF ServerInv, W!Served
  <2> QED BY <1>12, <2>1, <2>2, <2>3 DEF W!SendFile
<1>13. CASE W!NoMapping
  <2>1. ServerHas'
    BY <1>13
       DEF W!NoMapping, W!AtLine, W!AtRequestLine, W!Broken, ServerInv, ServerHas, LinesHave,
           FileHas
  <2>2. server = "webserver" => ServerSent'
    BY <1>13
       DEF W!NoMapping, W!AtLine, W!AtRequestLine, W!Broken, ServerInv, ServerHas, LinesHave,
           FileHas, ServerSent, Responded, OnLine
  <2> QED BY <1>13, <2>1, <2>2 DEF ServerInv, W!NoMapping, W!AtLine, W!AtRequestLine, W!Broken
<1>14. CASE W!NoPage
  <2>1. ServerHas'
    BY <1>14, SendIs, FirstSent
       DEF W!NoPage, W!AtLine, W!AtRequestLine, W!Broken, W!ClientGone, W!Ends, ServerInv,
           ServerHas, LinesHave, FileHas
  <2>2. server = "webserver" => ServerSent'
    BY <1>14, SendIs, FirstSent
       DEF W!NoPage, W!AtLine, W!AtRequestLine, W!Broken, W!ClientGone, W!Ends, ServerInv,
           ServerHas, LinesHave, FileHas, ServerSent, Responded, OnLine
  <2> QED BY <1>14, <2>1, <2>2
    DEF ServerInv, W!NoPage, W!AtLine, W!AtRequestLine, W!Broken, W!ClientGone, W!Ends
<1>15. CASE W!NoFile
  <2>1. ServerHas'
    BY <1>15, SendIs, FirstSent
       DEF W!NoFile, W!AtLine, W!AtRequestLine, W!Error, W!Closed, W!ClientGone, W!Ends,
           ServerInv, ServerHas, LinesHave, FileHas
  <2>2. server = "webserver" => ServerSent'
    BY <1>15, SendIs, FirstSent
       DEF W!NoFile, W!AtLine, W!AtRequestLine, W!Error, W!Closed, W!ClientGone, W!Ends,
           ServerInv, ServerHas, LinesHave, FileHas, ServerSent, Responded, OnLine
  <2> QED BY <1>15, <2>1, <2>2
    DEF ServerInv, W!NoFile, W!AtLine, W!AtRequestLine, W!Error, W!Closed, W!ClientGone, W!Ends
<1>16. CASE W!Refused
  <2>1. ServerHas'
    BY <1>16
       DEF W!Refused, W!AtLine, W!AtRequestLine, W!Ends, ServerInv, ServerHas, LinesHave,
           FileHas
  <2>2. server = "webserver" => ServerSent'
    BY <1>16
       DEF W!Refused, W!AtLine, W!AtRequestLine, W!Ends, ServerInv, ServerHas, LinesHave,
           FileHas, ServerSent, Responded, OnLine
  <2> QED BY <1>16, <2>1, <2>2 DEF ServerInv, W!Refused, W!AtLine, W!AtRequestLine, W!Ends
<1>17. CASE W!CloseSocket
  <2>1. ServerHas'
    BY <1>17 DEF W!CloseSocket, W!Closed, ServerInv, ServerHas, LinesHave, FileHas
  <2>2. server = "webserver" => ServerSent'
    BY <1>17
       DEF W!CloseSocket, W!Closed, ServerInv, ServerHas, LinesHave, FileHas, ServerSent,
           Responded, OnLine
  <2> QED BY <1>17, <2>1, <2>2 DEF ServerInv, W!CloseSocket, W!Closed
<1>18. CASE UNCHANGED serverv
  BY <1>18 DEF serverv, ServerInv, ServerHas, LinesHave, FileHas, ServerSent, Responded, OnLine
<1> QED
  BY <1>1, <1>2, <1>3, <1>4, <1>5, <1>6, <1>7, <1>8, <1>9, <1>10, <1>11, <1>12, <1>13, <1>14,
     <1>15, <1>16, <1>17, <1>18
     DEF W!WsNext, W!Serve
----------------------------------------------------------------------------
(* All of them.                                                            *)

\* The inductive invariant of the programs: each keeps its own.
WebInv == RioInv /\ SocketInv /\ TinyInv /\ ServerInv

\* It holds at first.
LEMMA WebStarts == WebInit => WebInv
<1> SUFFICES ASSUME WebInit PROVE WebInv
  OBVIOUS
<1>1. C!CsappInit /\ T!TinyInit /\ W!WsInit
  BY DEF WebInit
<1>2. SocketInv
  BY <1>1 DEF C!CsappInit, SocketInv, C!OneSocket
<1> QED BY <1>1, <1>2, RioStarts, TinyStarts, ServerStarts DEF WebInv

\* A step is of one program, and leaves the others as they were.
LEMMA WebKept == WebInv /\ [WebNext]_webv => WebInv'
<1> SUFFICES ASSUME WebInv, [WebNext]_webv PROVE WebInv'
  OBVIOUS
<1>1. /\ C!CsappNext \/ UNCHANGED csappv
      /\ T!TinyNext \/ UNCHANGED tinyv
      /\ W!WsNext \/ UNCHANGED serverv
  BY DEF WebNext, webv
<1> QED BY <1>1, CsappKept, TinyKept, ServerKept DEF WebInv

\* What the invariant says of the programs.
LEMMA WebIs == WebInv => WebExact
<1> SUFFICES ASSUME WebInv PROVE WebExact
  OBVIOUS
<1>1. C!BytesInOrder /\ C!CallsAreWhole /\ C!OneSocket
  BY DEF WebInv, RioInv, SocketInv
<1>2. T!TinyExact
  BY DEF WebInv, TinyInv, TinyHas, TinySent, T!TinyExact
<1>3. W!WebServerExact
  <2>1. wpc = "accept" => fds = [d \in {3} |-> "listen"] /\ maps = 0 /\ children = 0
    BY DEF WebInv, ServerInv, ServerHas
  <2>2. wpc # "ended" => 3 \in DOMAIN fds /\ fds[3] = "listen"
    BY DEF WebInv, ServerInv, ServerHas
  <2> QED BY <2>1, <2>2 DEF WebInv, ServerInv, ServerSent, Responded, W!WebServerExact
<1> QED BY <1>1, <1>2, <1>3 DEF WebExact

\* The robust I/O package delivers every byte once, in order and in whole
\* calls, open_clientfd() and open_listenfd() keep one socket, and Tiny and
\* the lab servers send one right response and keep nothing of a connection,
\* for every stream, buffer size, count, request and failure (csapp.c, tiny.c,
\* webserver.c, server_test2.c, webserver2.c).
THEOREM WebIsExact == WebSpec => []WebExact
<1>1. WebInit => WebInv
  BY WebStarts
<1>2. WebInv /\ [WebNext]_webv => WebInv'
  BY WebKept
<1>3. WebInv => WebExact
  BY WebIs
<1> QED BY <1>1, <1>2, <1>3, PTL DEF WebSpec
===========================================================================
