---------------------------- MODULE Proxy ----------------------------
(***************************************************************************)
(* The caching web proxy (webproxy-lab/proxy.c): main() starts a thread    *)
(* for each connection, and handle_client() looks the URL up in a cache    *)
(* that all threads share, serves it from there, or forwards the origin's  *)
(* response and enters it in the cache, evicting by second chance.  The    *)
(* cache is a doubly linked list of blocks; cache.lock is initialised and  *)
(* never taken.                                                            *)
(*                                                                         *)
(* A response is named by its URL and has a size; a turn of a loop of      *)
(* handle_client() is one step.  When a call of csapp.c fails, its wrapper *)
(* ends the process, and every connection with it.                         *)
(***************************************************************************)
EXTENDS Naturals, Sequences, FiniteSets, FiniteSetsExt

CONSTANTS
    Threads,          \* connections that can be open at the same time
    Urls,
    SizeOf,           \* the size of the origin's response to each URL
    Blocks,           \* addresses that malloc() gives cache blocks
    NULL,
    MAX_CACHE_SIZE, MAX_OBJECT_SIZE

(***************************************************************************)
(* proxy.c has MAX_CACHE_SIZE = 1049000 and MAX_OBJECT_SIZE = 102400: two  *)
(* objects always fit, so that the block that gets a second chance is      *)
(* never the only one.  A response may be empty.                           *)
(***************************************************************************)
ASSUME ProxyAssumption ==
    /\ SizeOf \in [Urls -> Nat]
    /\ NULL \notin Urls \cup Blocks
    /\ MAX_OBJECT_SIZE \in Nat /\ MAX_CACHE_SIZE \in Nat
    /\ MAX_CACHE_SIZE >= 2 * MAX_OBJECT_SIZE

VARIABLES
    head, tail, total_size,  \* cache
    block,                   \* the cache_block_t at each address
    allocated,               \* addresses of blocks not yet freed
    pc, full_url, temp,      \* of each thread
    reply                    \* the response its client has got

cacheVars == <<head, tail, total_size, block, allocated>>
threadVars == <<pc, full_url, temp, reply>>
vars == <<cacheVars, threadVars>>

Unused == [url |-> NULL, size |-> 0, reference_bit |-> 0, prev |-> NULL,
           next |-> NULL]

\* cache_init(), before any connection is accepted.
Init ==
    /\ head = NULL
    /\ tail = NULL
    /\ total_size = 0
    /\ block = [b \in Blocks |-> Unused]
    /\ allocated = {}
    /\ pc = [t \in Threads |-> "free"]
    /\ full_url = [t \in Threads |-> NULL]
    /\ temp = [t \in Threads |-> NULL]
    /\ reply = [t \in Threads |-> NULL]

Goto(t, label) == pc' = [pc EXCEPT ![t] = label]

----------------------------------------------------------------------------
\* main() accepts a connection; its thread reads a request for u.
Accept(t, u) ==
    /\ pc[t] = "free"
    /\ full_url' = [full_url EXCEPT ![t] = u]
    /\ Goto(t, "search")
    /\ UNCHANGED <<cacheVars, temp, reply>>

\* temp = cache.head
StartSearch(t) ==
    /\ pc[t] = "search"
    /\ temp' = [temp EXCEPT ![t] = head]
    /\ Goto(t, "lookup")
    /\ UNCHANGED <<cacheVars, full_url, reply>>

Hit(t) == temp[t] # NULL /\ block[temp[t]].url = full_url[t]

\* The block is the one wanted, or the search goes on, or fails.
LookupHit(t) ==
    /\ pc[t] = "lookup" /\ Hit(t)
    /\ block' = [block EXCEPT ![temp[t]].reference_bit = 1]
    /\ Goto(t, "serve")
    /\ UNCHANGED <<head, tail, total_size, allocated, full_url, temp, reply>>

LookupNext(t) ==
    /\ pc[t] = "lookup" /\ temp[t] # NULL /\ ~Hit(t)
    /\ temp' = [temp EXCEPT ![t] = block[temp[t]].next]
    /\ UNCHANGED <<cacheVars, pc, full_url, reply>>

LookupMiss(t) ==
    /\ pc[t] = "lookup" /\ temp[t] = NULL
    /\ Goto(t, "connect")
    /\ UNCHANGED <<cacheVars, full_url, temp, reply>>

\* serve_from_cache()
Serve(t) ==
    /\ pc[t] = "serve"
    /\ reply' = [reply EXCEPT ![t] = block[temp[t]].url]
    /\ Goto(t, "close")
    /\ UNCHANGED <<cacheVars, full_url, temp>>

\* Open_clientfd() cannot reach the origin, or Rio_writen() the client:
\* unix_error() calls exit().
Exit(t) ==
    /\ pc[t] \in {"connect", "serve"}
    /\ pc' = [x \in Threads |-> "exited"]
    /\ UNCHANGED <<cacheVars, full_url, temp, reply>>

\* The request is sent on and the response forwarded; it is cached when it
\* fits in response_buf.
Forward(t) ==
    /\ pc[t] = "connect"
    /\ reply' = [reply EXCEPT ![t] = full_url[t]]
    /\ Goto(t, IF SizeOf[full_url[t]] <= MAX_OBJECT_SIZE THEN "evict"
               ELSE "close")
    /\ UNCHANGED <<cacheVars, full_url, temp>>

----------------------------------------------------------------------------
TooLarge(t) == total_size + SizeOf[full_url[t]] > MAX_CACHE_SIZE


\* A turn of the eviction loop: the tail moves to the front.
SecondChance(t) ==
    LET last == tail
        prev == block[last].prev
        cut == IF prev = NULL THEN block ELSE [block EXCEPT ![prev].next = NULL]
        moved == [cut EXCEPT ![last].prev = NULL, ![last].next = head,
                             ![last].reference_bit = 0]
    IN  /\ pc[t] = "evict" /\ TooLarge(t) /\ tail # NULL
        /\ block[last].reference_bit = 1
        /\ block' = IF head = NULL THEN moved
                    ELSE [moved EXCEPT ![head].prev = last]
        /\ head' = last
        /\ tail' = IF prev = NULL THEN last ELSE prev
        /\ UNCHANGED <<total_size, allocated, threadVars>>

\* Faulty: the new tail still points to the freed block.
BadEvict(t) ==
    LET last == tail
        prev == block[last].prev
    IN  /\ pc[t] = "evict" /\ TooLarge(t) /\ tail # NULL
        /\ block[last].reference_bit = 0
        /\ tail' = prev
        /\ head' = IF prev = NULL THEN NULL ELSE head
        /\ total_size' = total_size - block[last].size
        /\ block' = [block EXCEPT ![last] = Unused]
        /\ allocated' = allocated \ {last}
        /\ UNCHANGED threadVars

\* A turn of the eviction loop: the tail is removed and freed.
Evict(t) ==
    LET last == tail
        prev == block[last].prev
        cut == IF prev = NULL THEN block ELSE [block EXCEPT ![prev].next = NULL]
    IN  /\ pc[t] = "evict" /\ TooLarge(t) /\ tail # NULL
        /\ block[last].reference_bit = 0
        /\ tail' = prev
        /\ head' = IF prev = NULL THEN NULL ELSE head
        /\ total_size' = total_size - block[last].size
        /\ block' = [cut EXCEPT ![last] = Unused]
        /\ allocated' = allocated \ {last}
        /\ UNCHANGED threadVars

\* The eviction loop ends, and the response becomes the head of the cache.
Insert(t, b) ==
    LET new == [url |-> full_url[t], size |-> SizeOf[full_url[t]],
                reference_bit |-> 1, prev |-> NULL, next |-> head]
        entered == [block EXCEPT ![b] = new]
    IN  /\ pc[t] = "evict" /\ (~TooLarge(t) \/ tail = NULL)
        /\ b \notin allocated
        /\ allocated' = allocated \cup {b}
        /\ block' = IF head = NULL THEN entered
                    ELSE [entered EXCEPT ![head].prev = b]
        /\ head' = b
        /\ tail' = IF head = NULL THEN b ELSE tail
        /\ total_size' = total_size + SizeOf[full_url[t]]
        /\ Goto(t, "close")
        /\ UNCHANGED <<full_url, temp, reply>>

\* The connection is closed and the thread ends.
Finish(t) ==
    /\ pc[t] = "close"
    /\ Goto(t, "free")
    /\ full_url' = [full_url EXCEPT ![t] = NULL]
    /\ temp' = [temp EXCEPT ![t] = NULL]
    /\ reply' = [reply EXCEPT ![t] = NULL]
    /\ UNCHANGED cacheVars

----------------------------------------------------------------------------
\* The steps of handle_client() that wait for nobody.
Handle(t) ==
    \/ StartSearch(t) \/ LookupHit(t) \/ LookupNext(t) \/ LookupMiss(t)
    \/ Serve(t)
    \/ SecondChance(t) \/ Evict(t) \/ (\E b \in Blocks : Insert(t, b))
    \/ Finish(t)

Next ==
    \E t \in Threads :
        \/ \E u \in Urls : Accept(t, u)
        \/ Handle(t) \/ Forward(t) \/ Exit(t)

Spec == Init /\ [][Next]_vars

\* Each thread runs on; the origin need not answer.
FairSpec == Spec /\ \A t \in Threads : WF_vars(Handle(t))

----------------------------------------------------------------------------
\* The blocks from the head by next, and from the tail by prev.
Chain(start, Link(_)) ==
    LET n == Cardinality(Blocks)
        step[i \in 0..n] ==
            IF i = 0 THEN <<start>>
            ELSE LET chain == step[i - 1]
                     last == chain[Len(chain)]
                 IN  IF last = NULL THEN chain ELSE Append(chain, Link(last))
    IN  SelectSeq(step[n], LAMBDA b : b # NULL)

Forwards == Chain(head, LAMBDA b : block[b].next)
Backwards == Chain(tail, LAMBDA b : block[b].prev)
Listed == {Forwards[i] : i \in DOMAIN Forwards}

TypeOK ==
    /\ head \in Blocks \cup {NULL} /\ tail \in Blocks \cup {NULL}
    /\ total_size \in 0..MAX_CACHE_SIZE
    /\ allocated \subseteq Blocks
    /\ block \in [Blocks -> [url : Urls \cup {NULL}, size : Nat,
                             reference_bit : {0, 1},
                             prev : Blocks \cup {NULL},
                             next : Blocks \cup {NULL}]]
    /\ temp \in [Threads -> Blocks \cup {NULL}]
    /\ reply \in [Threads -> Urls \cup {NULL}]

(***************************************************************************)
(* The list reads the same from both ends, holds the allocated blocks and  *)
(* no others, and total_size is the sum of their sizes.                    *)
(***************************************************************************)
CacheIsList ==
    /\ Len(Forwards) = Len(Backwards)
    /\ \A i \in DOMAIN Forwards :
          Forwards[i] = Backwards[Len(Forwards) + 1 - i]
    /\ Listed = allocated
    /\ Len(Forwards) = Cardinality(allocated)
    /\ total_size = MapThenSumSet(LAMBDA b : block[b].size, allocated)

\* A URL is cached once: a second response is not stored beside the first.
UrlsUnique ==
    \A b, c \in allocated : block[b].url = block[c].url => b = c

\* The block a thread looks at has not been freed by another's eviction.
BlocksLive ==
    \A t \in Threads : pc[t] \in {"lookup", "serve"} /\ temp[t] # NULL =>
        temp[t] \in allocated

\* The cache is a list of the blocks that are allocated, one for each URL,
\* and no connection looks at a block that is not one of them.
CacheSound == CacheIsList /\ UrlsUnique /\ BlocksLive

(***************************************************************************)
(* The search and the eviction loop end: a connection that does not wait   *)
(* for the origin is closed, or waits, or the process is gone.             *)
(***************************************************************************)
ConnectionsClose ==
    \A t \in Threads : pc[t] \in {"search", "lookup", "serve", "evict"} ~>
        pc[t] \in {"connect", "free", "exited"}
=======================================================================
