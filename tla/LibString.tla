--------------------------- MODULE LibString ---------------------------
(***************************************************************************)
(* lib/string.c: the copies, the bounded copy and concatenation, the       *)
(* searches and comparisons that other code builds on, and the tokenizer   *)
(* strtok_r(), which cuts the string up as it goes and keeps its place in  *)
(* save_ptr between calls, each with its own delimiters.                   *)
(*                                                                         *)
(* Memory is a few cells; a pointer is the number of a cell.  A loop that  *)
(* writes is a function of the turns taken, and a turn of strtok_r() is a  *)
(* step.                                                                   *)
(***************************************************************************)
EXTENDS Integers, Sequences, SequencesExt, FiniteSetsExt

CONSTANTS
    MaxChar,  \* a character is 1..MaxChar
    MemSize,  \* the cells of the memory
    Strings   \* contents that strtok_r() is given

VARIABLES
    cells,     \* the memory
    before,    \* history: as it was when the function was called
    strcall,   \* the function that was called, its arguments and its result
    s,         \* strtok_r(): the character it looks at
    save_ptr,
    token,     \* strtok_r(): where the token starts, NoPtr while it skips
    delimiters,
    tokens     \* history: what strtok_r() returned, where it cut and by what

stringVars == <<cells, before, strcall, s, save_ptr, token, delimiters, tokens>>

NUL == 0
NoPtr == -1
Cells == 0..(MemSize - 1)
Memories == {m \in [Cells -> 0..MaxChar] : m[MemSize - 1] = NUL}
NotCalled == [op |-> "none", dst |-> 0, src |-> 0, size |-> 0, ret |-> 0]

StringStart(op, memories) ==
    /\ cells \in memories /\ before = cells
    /\ strcall = [NotCalled EXCEPT !.op = op]
    /\ s = 0 /\ save_ptr = 0 /\ token = NoPtr /\ delimiters = {}
    /\ tokens = <<>>
StringIdle == StringStart("none", {[c \in Cells |-> NUL]})
StringInit ==
    \/ StringStart("call", Memories)
    \/ StringStart("strtok_r", {[c \in Cells |-> IF c < Len(t) THEN t[c + 1]
                                                ELSE NUL] : t \in Strings})

----------------------------------------------------------------------------
StrLen(m, p) == Min({n \in 0..(MemSize - 1 - p) : m[p + n] = NUL})
StringAt(m, p) == [i \in 1..StrLen(m, p) |-> m[p + i - 1]]

\* memcpy(), and memmove() down: from the first byte on.
Memcpy(m, dst, src, size) ==
    LET after[k \in 0..size] ==
          IF k = 0 THEN m
          ELSE [after[k - 1] EXCEPT ![dst + k - 1] = after[k - 1][src + k - 1]]
    IN  after[size]


\* memmove() up: from the last byte on.
Memmove(m, dst, src, size) ==
    LET up[k \in 0..size] ==
          IF k = 0 THEN m
          ELSE [up[k - 1] EXCEPT ![dst + size - k] = up[k - 1][src + size - k]]
    IN  IF dst < src THEN Memcpy(m, dst, src, size) ELSE up[size]

Memcmp(m, a, b, size) ==
    LET differ == {k \in 0..(size - 1) : m[a + k] # m[b + k]}
    IN  IF differ = {} THEN 0
        ELSE IF m[a + Min(differ)] > m[b + Min(differ)] THEN 1 ELSE -1

Strcmp(m, a, b) ==
    LET both == Min({StrLen(m, a), StrLen(m, b)})
        k == Min({i \in 0..both : m[a + i] = NUL \/ m[a + i] # m[b + i]})
    IN  IF m[a + k] < m[b + k] THEN -1 ELSE IF m[a + k] > m[b + k] THEN 1 ELSE 0

Strstr(m, haystack, needle) ==
    LET places == {i \in 0..(StrLen(m, haystack) - StrLen(m, needle)) :
                      Memcmp(m, haystack + i, needle, StrLen(m, needle)) = 0}
    IN  IF places = {} THEN NoPtr ELSE haystack + Min(places)

----------------------------------------------------------------------------
\* A call of memmove() or memset() with room for what it writes.
Returns(op, dst, src, size, ret) ==
    /\ strcall' = [op |-> op, dst |-> dst, src |-> src, size |-> size, ret |-> ret]
    /\ UNCHANGED <<before, s, save_ptr, token, delimiters, tokens>>
Called == strcall.op = "call"
Moves ==
    /\ Called
    /\ \E dst, src \in Cells, size \in 0..MemSize :
          /\ dst + size <= MemSize /\ src + size <= MemSize
          /\ cells' = Memmove(cells, dst, src, size)
          /\ Returns("memmove", dst, src, size,
                     IF dst < src THEN dst + size ELSE dst)

\* strlcpy() and strlcat() from a string to a buffer that is elsewhere.
Apart(dst, size, src) == \/ dst + size <= src
                         \/ src + StrLen(cells, src) < dst
Strlcpy ==
    /\ Called
    /\ \E dst, src \in Cells, size \in 0..MemSize :
          LET src_len == StrLen(cells, src)
              dst_len == Min({size - 1, src_len})
          IN  /\ dst + size <= MemSize /\ Apart(dst, size, src)
              /\ cells' = IF size = 0 THEN cells
                          ELSE [Memcpy(cells, dst, src, dst_len)
                                EXCEPT ![dst + dst_len] = NUL]
              /\ Returns("strlcpy", dst, src, size, src_len)
Strlcat ==
    /\ Called
    /\ \E dst, src \in Cells, size \in 0..MemSize :
          LET src_len == StrLen(cells, src)
              dst_len == StrLen(cells, dst)
              copy_cnt == Min({size - dst_len - 1, src_len})
          IN  /\ dst + size <= MemSize /\ Apart(dst, size, src)
              /\ cells' = IF size > 0 /\ dst_len < size
                          THEN [Memcpy(cells, dst + dst_len, src, copy_cnt)
                                EXCEPT ![dst + dst_len + copy_cnt] = NUL]
                          ELSE cells
              /\ Returns("strlcat", dst, src, size, src_len + dst_len)

Compares ==
    /\ Called
    /\ \E a, b \in Cells :
          \/ Returns("strcmp", a, b, 0, Strcmp(cells, a, b))
          \/ Returns("strstr", a, b, 0, Strstr(cells, a, b))
    /\ UNCHANGED cells

----------------------------------------------------------------------------
(* strtok_r()                                                              *)

\* A call, the first with the string and the others with a null pointer.
Strtok ==
    /\ strcall.op = "strtok_r"
    /\ \E d \in SUBSET (1..MaxChar) : delimiters' = d \cup {NUL}
    /\ s' = save_ptr /\ token' = NoPtr
    /\ strcall' = [strcall EXCEPT !.op = "skip"]
    /\ UNCHANGED <<cells, before, save_ptr, tokens>>

SkipDelimiter ==
    /\ strcall.op = "skip" /\ cells[s] \in delimiters \ {NUL}
    /\ s' = s + 1
    /\ UNCHANGED <<cells, before, strcall, save_ptr, token, delimiters, tokens>>

NoMoreTokens ==
    /\ strcall.op = "skip" /\ cells[s] = NUL
    /\ save_ptr' = s
    /\ strcall' = [strcall EXCEPT !.op = "no token"]
    /\ UNCHANGED <<cells, before, s, token, delimiters, tokens>>

ScanToken ==
    /\ strcall.op \in {"skip", "scan"} /\ cells[s] \notin delimiters
    /\ token' = IF strcall.op = "skip" THEN s ELSE token
    /\ s' = s + 1
    /\ strcall' = [strcall EXCEPT !.op = "scan"]
    /\ UNCHANGED <<cells, before, save_ptr, delimiters, tokens>>

EndToken ==
    /\ strcall.op = "scan" /\ cells[s] \in delimiters
    /\ cells' = [cells EXCEPT ![s] = NUL]
    /\ save_ptr' = IF cells[s] # NUL THEN s + 1 ELSE s
    /\ tokens' = Append(tokens, [first |-> token, end |-> s, by |-> delimiters,
                                 from |-> save_ptr])
    /\ strcall' = [strcall EXCEPT !.op = "strtok_r"]
    /\ UNCHANGED <<before, s, token, delimiters>>

StringNext == Moves \/ Strlcpy \/ Strlcat \/ Compares \/ Strtok \/ SkipDelimiter
              \/ NoMoreTokens \/ ScanToken \/ EndToken

----------------------------------------------------------------------------
Same(cs) == \A c \in cs : cells[c] = before[c]
Outside(dst, size) == Cells \ (dst..(dst + size - 1))

\* A copy takes what was there before it, also over itself; a bounded one is
\* the longest beginning that fits with its null byte, and reports the length
\* that it would have needed; nothing else is written.
CopiesExact ==
    LET c == strcall
        old == StringAt(before, c.src)
        whole == (IF c.op = "strlcat" THEN StringAt(before, c.dst) ELSE <<>>) \o old
        fits == Min({c.size - 1, Len(whole)})
    IN  /\ c.op = "memmove" =>
             /\ \A k \in 0..(c.size - 1) : cells[c.dst + k] = before[c.src + k]
             /\ Same(Outside(c.dst, c.size))
        /\ c.op \in {"strlcpy", "strlcat"} =>
             /\ c.ret = Len(whole)
             /\ Same(Outside(c.dst, c.size))
             /\ c.size > 0 /\ (c.op = "strlcat" => StrLen(before, c.dst) < c.size) =>
                  StringAt(cells, c.dst) = SubSeq(whole, 1, fits)

\* strstr() finds the first occurrence and strcmp() is the order of strings.
SearchesExact ==
    LET a == StringAt(cells, strcall.dst)
        b == StringAt(cells, strcall.src)
        r == strcall.ret
        Before(x, y) == \E k \in 0..Len(x) :
                           /\ k <= Len(y) /\ SubSeq(x, 1, k) = SubSeq(y, 1, k)
                           /\ k < Len(y)
                           /\ k < Len(x) => x[k + 1] < y[k + 1]
    IN  /\ strcall.op = "strstr" =>
             IF r = NoPtr THEN ~ \E i \in 1..(Len(a) + 1) :
                                   IsPrefix(b, SubSeq(a, i, Len(a)))
             ELSE LET i == r - strcall.dst + 1
                  IN  /\ IsPrefix(b, SubSeq(a, i, Len(a)))
                      /\ \A j \in 1..(i - 1) : ~IsPrefix(b, SubSeq(a, j, Len(a)))
        /\ strcall.op = "strcmp" =>
             /\ (r = 0) = (a = b) /\ (r < 0) = Before(a, b)
             /\ (r > 0) = Before(b, a)

\* The tokens are maximal runs, in order, of what is no delimiter of their
\* call; only the delimiter after each is overwritten, and nothing but
\* delimiters is passed over, up to the end when there is no token left.
TokensExact ==
    /\ \A i \in DOMAIN tokens :
          LET t == tokens[i]
          IN  /\ t.first < t.end /\ t.from <= t.first
              /\ t.from = IF i = 1 THEN 0 ELSE tokens[i - 1].end + 1
              /\ \A c \in t.from..(t.first - 1) : before[c] \in t.by \ {NUL}
              /\ \A c \in t.first..(t.end - 1) : before[c] \notin t.by
              /\ before[t.end] \in t.by
              /\ StringAt(cells, t.first) = [k \in 1..(t.end - t.first) |->
                                                before[t.first + k - 1]]
    /\ strcall.op \in {"strtok_r", "skip", "scan", "no token"} =>
         Same(Cells \ {tokens[i].end : i \in DOMAIN tokens})
    /\ strcall.op = "no token" =>
         \A c \in save_ptr..(MemSize - 1) : before[c] = NUL
========================================================================
