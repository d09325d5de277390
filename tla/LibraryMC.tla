--------------------------- MODULE LibraryMC ---------------------------
(* The kernel's lists and hash tables, the exercises, and the kernel's C   *)
(* library for TLC: a behaviour is of one of them, and the others stay as  *)
(* they began.                                                             *)
EXTENDS Hash, Integers, TLC

----------------------------------------------------------------------------
(* The lists and hash tables of the kernel.                                *)

CONSTANTS e1, e2, e3, e4, e5

\* A behaviour is of calls of two lists or of a hash table.
VARIABLES subject, contents
kernelVars == <<links, done, h, iter, contents>>
svars == <<kernelVars, subject>>

MCLists == {<<a, i>> : a \in Arrays, i \in 0..(MaxBuckets - 1)}
Pair == {<<"A", 0>>, <<"A", 1>>}
MCValue == (e1 :> 1 @@ e2 :> 1 @@ e3 :> 2 @@ e4 :> 3 @@ e5 :> 4)
MCHashOf == <<1, 3, 5, 2>>

\* What the structures contain, kept in a variable so that TLC reads the
\* links once in each state.
Contents(k, t, i) ==
    [seqs |-> [l \in Pair |-> IF subject = "list" THEN ElemsOf(k, l) ELSE <<>>],
     members |-> IF subject = "hash" THEN MembersOf(k, t) ELSE {}, left |-> LeftOf(k, t, i)]

SInit ==
    /\ subject \in {"list", "hash"}
    /\ links = IF subject = "list" THEN AllInit(Pair) ELSE AllInit({})
    /\ done = <<>> /\ h = NULL /\ iter = NULL
    /\ contents = Contents(links, h, iter)

SIdle(other) ==
    /\ subject = other
    /\ links = AllInit({}) /\ done = <<>> /\ h = NULL /\ iter = NULL
    /\ contents = Contents(links, h, iter)

SNext ==
    /\ UNCHANGED subject
    /\ \/ subject = "list" /\ ListNext(Pair) /\ UNCHANGED <<h, iter>>
       \/ subject = "hash" /\ HashCall
    /\ contents' = Contents(links', h', iter')

SSpec == SInit /\ [][SNext]_svars

ListBothWays == subject = "list" => BothWays(Pair)
HashTableExact == subject = "hash" => TableExact

\* Between two calls the nodes of the lists, or of the buckets, are linked
\* both ways and are the elements that were put there.
LinksExact == ListBothWays /\ HashTableExact

\* The calls do to the nodes what they promise to do to the sequences.
LS == INSTANCE ListStore WITH Lists <- Pair,
                              seqs <- contents.seqs,
                              done <- IF subject = "list" THEN done ELSE <<"none", NULL>>
ListStoreSpec == LS!Spec

HS == INSTANCE HashStore WITH members <- contents.members, left <- contents.left,
                              done <- IF subject = "hash" THEN done ELSE <<"none", NULL>>
HashStoreSpec == HS!Spec

\* The links of the nodes that are in lists.
Used == InLists(Lists) \union {n \in Node \ Elems : links[n] # Loose}
SView == <<subject, [n \in Used |-> links[n]], h, iter>>

----------------------------------------------------------------------------
(* The exercises.                                                          *)

CONSTANTS Items, Strings, MaxNodes, BTItems, BSTKeys, MaxTreeNodes

VARIABLES program, mem, lists, str, answer,
          tprogram, tmem, roots, creating, tstack, tanswer

listv == <<program, mem, lists, str, answer>>
treev == <<tprogram, tmem, roots, creating, tstack, tanswer>>

EL == INSTANCE ExerciseLists
ET == INSTANCE ExerciseTrees WITH Keys <- BSTKeys

\* Up to two brackets, or four of which the first opens and the last closes.
Brackets == {"(", ")", "[", "]"}
MCStrings ==
    (UNION {[1..n -> Brackets] : n \in 0..2}) \cup
    {s \in [1..4 -> Brackets] : s[1] \in {"(", "["} /\ s[4] \in {")", "]"}}

exvars == <<svars, listv, treev>>

ExInit ==
    /\ \/ SInit /\ EL!ListIdle /\ ET!TreeIdle
       \/ SIdle("lists") /\ EL!ListInit /\ ET!TreeIdle
       \/ SIdle("trees") /\ ET!TreeInit /\ EL!ListIdle

ExNext ==
    \/ SNext /\ UNCHANGED <<listv, treev>>
    \/ subject = "lists" /\ EL!ListNext /\ UNCHANGED <<svars, treev>>
    \/ subject = "trees" /\ ET!TreeNext /\ UNCHANGED <<svars, listv>>


----------------------------------------------------------------------------
(* The C library.                                                          *)

CONSTANTS MaxChar, MemSize, SortValues, MaxArray, W, BufSizes,
          CharBits, ShortBits, IntBits, LongBits, BufLen

VARIABLES cells, before, strcall, scanned, save_ptr, token, delimiters, tokens,
          libpc, array, unsorted, sorti, heapcnt, heapi, first, last, key, libret,
          wanted, buf_size, format, vargs, buffer, outlength

stringv == <<cells, before, strcall, scanned, save_ptr, token, delimiters, tokens>>
stdlibv == <<libpc, array, unsorted, sorti, heapcnt, heapi, first, last, key,
             libret>>
stdiov == <<wanted, buf_size, format, vargs, buffer, outlength>>

\* Strings to cut up, and texts of base 3 for atoi().
MCTokenStrings == UNION {[1..n -> 1..MaxChar] : n \in 0..(MemSize - 1)}
MCDigits == <<"0", "1", "2">>
MCTexts == UNION {[1..n -> {" ", "-", "+", "0", "1", "2"}] : n \in 0..4}

\* Every flag alone and the pairs that bear on each other, with the widths,
\* precisions and types that change the result, in the format or as "*".
MCFlags == {{}, {"-"}, {"+"}, {" "}, {"#"}, {"0"}, {"'"}, {"-", "0"}, {"+", " "},
            {"#", "0"}, {"0", "+"}, {"'", "0"}}
MCConversions ==
    [flags : MCFlags, width : {0, 9}, precision : {-1, 0, 3}, star : {FALSE},
     type : {"char", "int", "long"}, conv : {"d", "u", "o", "x"},
     arg : {0, 9, 100, 2047, 4084, 12345, 65535}]
    \cup [flags : {{}, {"-"}, {"0"}}, width : {-6, 6}, precision : {-1, 2},
          star : {TRUE}, type : {"short", "intmax"}, conv : {"i", "X"},
          arg : {200, 65000}]
    \cup [flags : {{}, {"-"}}, width : {0, 2, 6}, precision : {-1, 0, 2},
          star : BOOLEAN, type : {"int"}, conv : {"s"},
          arg : {<<>>, <<"a">>, <<"a", "b", "c">>}]
    \cup [flags : {{}, {"-"}}, width : {0, 3}, precision : {-1}, star : {FALSE},
          type : {"int"}, conv : {"c"}, arg : {"a"}]
    \cup [flags : {{}}, width : {0}, precision : {-1}, star : {FALSE},
          type : {"int"}, conv : {"%", "p", "f"}, arg : {100}]

STR == INSTANCE LibString WITH Strings <- MCTokenStrings, s <- scanned
LIB == INSTANCE LibStdlib WITH Digits <- MCDigits, Texts <- MCTexts,
                               i <- sorti, cnt <- heapcnt, at <- heapi
OUT == INSTANCE LibStdio WITH Conversions <- MCConversions, args <- vargs,
                              length <- outlength

libraryv == <<exvars, stringv, stdlibv, stdiov>>

LibraryInit ==
    \/ ExInit /\ STR!StringIdle /\ LIB!LibIdle /\ OUT!StdioIdle
    \/ SIdle("string") /\ EL!ListIdle /\ ET!TreeIdle
       /\ STR!StringInit /\ LIB!LibIdle /\ OUT!StdioIdle
    \/ SIdle("stdlib") /\ EL!ListIdle /\ ET!TreeIdle
       /\ STR!StringIdle /\ LIB!LibInit /\ OUT!StdioIdle
    \/ SIdle("stdio") /\ EL!ListIdle /\ ET!TreeIdle
       /\ STR!StringIdle /\ LIB!LibIdle /\ OUT!StdioInit

LibraryNext ==
    \/ ExNext /\ UNCHANGED <<stringv, stdlibv, stdiov>>
    \/ subject = "string" /\ STR!StringNext /\ UNCHANGED <<exvars, stdlibv, stdiov>>
    \/ subject = "stdlib" /\ LIB!LibNext /\ UNCHANGED <<exvars, stringv, stdiov>>
    \/ subject = "stdio" /\ OUT!StdioNext /\ UNCHANGED <<exvars, stringv, stdlibv>>

LibrarySpec == LibraryInit /\ [][LibraryNext]_libraryv


LibraryView == <<SView, listv, treev, stringv, stdlibv, stdiov>>
========================================================================
