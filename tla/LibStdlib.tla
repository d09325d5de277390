--------------------------- MODULE LibStdlib ---------------------------
(***************************************************************************)
(* lib/stdlib.c and lib/arithmetic.c: the heapsort of sort() and the       *)
(* binary_search() of what it sorted, a turn of a loop being a step;       *)
(* atoi(); and the division of double words by a processor that divides a  *)
(* double word by a word, of W bits here and of 32 in the code.            *)
(***************************************************************************)
EXTENDS Integers, Sequences, SequencesExt, FiniteSetsExt, Folds, Functions

CONSTANTS
    SortValues,  \* what an array holds
    MaxArray,    \* bound on its length
    W,           \* bits of a word, a power of two
    IntBits,     \* bits of atoi()'s int
    Digits,      \* the digits of a number's text, of base Len(Digits)
    Texts        \* what atoi() is given

VARIABLES
    libpc,       \* where the call is
    array,       \* sorted in place
    unsorted,    \* history: what was given
    i, cnt, at,  \* sort()'s i, heapify()'s cnt and i
    first, last, \* binary_search()
    key, libret

libVars == <<libpc, array, unsorted, i, cnt, at, first, last, key, libret>>
sortVars == <<array, unsorted, i, cnt, at>>
searchVars == <<first, last, key, libret>>

LibStart(pc, arrays) ==
    /\ libpc = pc
    /\ array \in arrays /\ unsorted = array
    /\ i = Len(array) \div 2 /\ cnt = Len(array) /\ at = i
    /\ first = 0 /\ last = 0 /\ key = 0 /\ libret = 0
LibIdle == LibStart("idle", {<<>>})
LibInit ==
    \/ LibStart("build", UNION {[1..n -> SortValues] : n \in 0..MaxArray})
    \/ LibStart("call", {<<>>})

----------------------------------------------------------------------------
(* sort()                                                                  *)

Swap(a, j, k) == [a EXCEPT ![j] = a[k], ![k] = a[j]]

\* The largest of an element and its children, of which the first wins a tie.
MaxChild(a, n, j) ==
    LET left == 2 * j
        right == 2 * j + 1
        max == IF left <= n /\ a[left] > a[j] THEN left ELSE j
    IN  IF right <= n /\ a[right] > a[max] THEN right ELSE max

\* A turn of heapify().
Float ==
    /\ libpc \in {"build", "sort"} /\ at > 0
    /\ LET max == MaxChild(array, cnt, at)
       IN  /\ max # at
           /\ array' = Swap(array, at, max)
           /\ at' = max
    /\ UNCHANGED <<libpc, unsorted, i, cnt, searchVars>>
Floated == at > 0 => MaxChild(array, cnt, at) = at

\* heapify() returns; the next element of the loop that builds the heap.
BuildNext ==
    /\ libpc = "build" /\ i > 0 /\ Floated
    /\ i' = i - 1 /\ at' = i - 1
    /\ UNCHANGED <<libpc, array, unsorted, cnt, searchVars>>
HeapBuilt ==
    /\ libpc = "build" /\ i = 0
    /\ i' = Len(array) /\ at' = 0
    /\ libpc' = "sort"
    /\ UNCHANGED <<array, unsorted, cnt, searchVars>>

\* The largest goes to the end, and the element it changes with floats down.
SortNext ==
    /\ libpc = "sort" /\ Floated /\ i > 1
    /\ array' = Swap(array, 1, i)
    /\ cnt' = i - 1 /\ at' = 1
    /\ i' = i - 1
    /\ UNCHANGED <<libpc, unsorted, searchVars>>
SortReturns ==
    /\ libpc = "sort" /\ Floated /\ i <= 1
    /\ libpc' = "sorted"
    /\ UNCHANGED <<sortVars, searchVars>>

----------------------------------------------------------------------------
(* binary_search(), of elements first + 1 to last.                         *)

Search ==
    /\ libpc = "sorted"
    /\ key' \in SortValues
    /\ first' = 0 /\ last' = Len(array)
    /\ libpc' = "search"
    /\ UNCHANGED <<sortVars, libret>>
Middle == first + (last - first) \div 2 + 1
Probe ==
    /\ libpc = "search" /\ first < last
    /\ IF key = array[Middle]
       THEN libret' = Middle /\ libpc' = "found" /\ UNCHANGED <<first, last>>
       ELSE /\ IF key < array[Middle]
               THEN last' = Middle - 1 /\ UNCHANGED first
               ELSE first' = Middle /\ UNCHANGED last
            /\ UNCHANGED <<libpc, libret>>
    /\ UNCHANGED <<sortVars, key>>
NotFound ==
    /\ libpc = "search" /\ first >= last
    /\ libret' = 0 /\ libpc' = "found"
    /\ UNCHANGED <<sortVars, first, last, key>>

----------------------------------------------------------------------------
(* atoi(), of texts that are sequences of spaces, signs and digits.        *)

Signed(v, bits) == LET m == v % 2^bits
                   IN  IF m >= 2^(bits - 1) THEN m - 2^bits ELSE m
IsDigit(c) == c \in Range(Digits)
DigitValue(c) == (CHOOSE d \in DOMAIN Digits : Digits[d] = c) - 1

\* The position after the characters of a set, from position p on.
Skip(text, p, cs) ==
    LET others == {q \in p..Len(text) : text[q] \notin cs}
    IN  IF others = {} THEN Len(text) + 1 ELSE Min(others)
Atoi(text) ==
    LET p == Skip(text, 1, {" "})
        signed == p <= Len(text) /\ text[p] \in {"+", "-"}
        d == IF signed THEN p + 1 ELSE p
        digits == SubSeq(text, d, Skip(text, d, Range(Digits)) - 1)
        value == FoldLeft(LAMBDA v, c : Signed(v * Len(Digits) - DigitValue(c),
                                               IntBits), 0, digits)
    IN  IF signed /\ text[p] = "-" THEN value ELSE Signed(-value, IntBits)

CallAtoi ==
    /\ libpc = "call"
    /\ \E text \in Texts : key' = text /\ libret' = Atoi(text)
    /\ libpc' = "atoi"
    /\ UNCHANGED <<sortVars, first, last>>

----------------------------------------------------------------------------
(* arithmetic.c                                                            *)

Word == 2^W
Double == 2^(2 * W)
Trap == -1  \* the quotient of the processor's division does not fit

Divl(n, d) == IF n \div d < Word THEN n \div d ELSE Trap

\* The leading zeros of a word, by halves of it.
Nlz(x) ==
    LET Half(h, r) == IF r.x < 2^(W - h) THEN [n |-> r.n + h, x |-> r.x * 2^h] ELSE r
        halves == {h \in 1..(W \div 2) : \E e \in 0..W : h = 2^e}
        f[h \in halves \cup {W}] ==
            IF h = W THEN [n |-> 0, x |-> x] ELSE Half(h, f[2 * h])
    IN  f[1].n

Udiv64(n, d) ==
    IF d < Word
    THEN LET low == Divl((Word * ((n \div Word) % d)) + (n % Word), d)
         IN  IF low = Trap THEN Trap ELSE low + (Word * ((n \div Word) \div d))
    ELSE IF n < d THEN 0
    ELSE LET sh == Nlz(d \div Word)
             ql == Divl(n \div 2, ((d * 2^sh) % Double) \div Word)
             q == ql \div 2^(W - 1 - sh)
         IN  IF ql = Trap THEN Trap
             ELSE IF (n - (q - 1) * d) % Double < d THEN q - 1 ELSE q

\* umod64() returns a word.
Umod64(n, d) == (n - d * Udiv64(n, d)) % Word

Abs(x) == IF Signed(x, 2 * W) < 0 THEN -Signed(x, 2 * W) ELSE x
Sdiv64(n, d) ==
    LET q == Udiv64(Abs(n), Abs(d))
    IN  IF (Signed(n, 2 * W) < 0) = (Signed(d, 2 * W) < 0)
        THEN Signed(q, 2 * W) ELSE Signed(-q, 2 * W)
\* smod64() returns a signed word.
Smod64(n, d) == Signed(Signed(n, 2 * W) - Signed(d, 2 * W) * Sdiv64(n, d), W)

\* A divisor, and the four results for every dividend.
Divide ==
    /\ libpc = "call"
    /\ key' \in 1..(Double - 1)
    /\ libret' = [n \in 0..(Double - 1) |->
                    <<Udiv64(n, key'), Umod64(n, key'),
                      Sdiv64(n, key'), Smod64(n, key')>>]
    /\ libpc' = "divided"
    /\ UNCHANGED <<sortVars, first, last>>

LibNext == Float \/ BuildNext \/ HeapBuilt \/ SortNext \/ SortReturns \/ Search
           \/ Probe \/ NotFound \/ CallAtoi \/ Divide

----------------------------------------------------------------------------
\* The heap is one beyond the element that floats, what is behind it is
\* sorted and larger; sort() returns a sorted permutation, and
\* binary_search() finds the key in it if it is there.
SortExact ==
    LET Heap(low, n) == \A j \in 2..n : (j \div 2) >= low /\ j \div 2 # at =>
                                         array[j \div 2] >= array[j]
        Count(a, v) == Cardinality({j \in DOMAIN a : a[j] = v})
    IN  /\ libpc = "build" => Heap(i, cnt)
        /\ libpc = "sort" =>
             /\ Heap(1, Min({cnt, i}))
             /\ \A k, j \in DOMAIN array : k < j /\ j > i => array[k] <= array[j]
        /\ libpc \in {"sorted", "search", "found"} =>
             \A k, j \in DOMAIN array : k < j => array[k] <= array[j]
        /\ \A v \in SortValues : Count(array, v) = Count(unsorted, v)
        /\ libpc = "found" => IF libret = 0 THEN key \notin Range(array)
                              ELSE array[libret] = key

\* The text's digits, up to the first other character, make the number that
\* is returned, if it is an int.
AtoiExact ==
    libpc = "atoi" =>
      LET text == key
          Number(p, q) == FoldLeft(LAMBDA v, c : v * Len(Digits) + DigitValue(c), 0,
                                   SubSeq(text, p, q))
          Fits(v) == v \in -(2^(IntBits - 1))..(2^(IntBits - 1) - 1)
      IN  \A p, q \in 1..Len(text) :
             /\ \A k \in p..q : IsDigit(text[k])
             /\ p <= q /\ (q < Len(text) => ~IsDigit(text[q + 1]))
             /\ \A k \in 1..(p - 2) : text[k] = " "
             /\ p > 1 => text[p - 1] \in {" ", "+", "-"}
             => LET v == IF p > 1 /\ text[p - 1] = "-" THEN -Number(p, q)
                         ELSE Number(p, q)
                IN  Fits(v) => libret = v

\* The division never traps and is that of the integers, truncated, where
\* the quotient is a double word and the remainder a word.
DivisionExact ==
    libpc = "divided" =>
      \A n \in 0..(Double - 1) :
         LET d == key
             sn == Signed(n, 2 * W)
             sd == Signed(d, 2 * W)
             q == libret[n]
         IN  /\ q[1] * d <= n /\ n - q[1] * d < d /\ q[1] >= 0
             /\ d <= Word => q[2] = n - q[1] * d
             /\ <<sn, sd>> # <<-(Double \div 2), -1>> =>
                  LET r == sn - q[3] * sd
                      AbsOf(x) == IF x < 0 THEN -x ELSE x
                  IN  /\ AbsOf(r) < AbsOf(sd)
                      /\ r # 0 => (r < 0) = (sn < 0)
                      /\ AbsOf(sd) <= Word \div 2 => q[4] = r
========================================================================
