---------------------------- MODULE Bitmap ----------------------------
(***************************************************************************)
(* lib/kernel/bitmap.c: a bitmap is a function from bit numbers to         *)
(* booleans.  The words and masks that hold the bits are left out; a word  *)
(* is changed by one instruction, so a step of a client that must not be   *)
(* interrupted sets a single bit.                                          *)
(***************************************************************************)
EXTENDS Integers, FiniteSets

\* (size_t) -1: no group of bits was found.
BITMAP_ERROR == -1

\* bitmap_create(): every bit is false.
BitmapCreate(bit_cnt) == [i \in 0..(bit_cnt - 1) |-> FALSE]

BitCnt(b) == Cardinality(DOMAIN b)

BitmapSetMultiple(b, start, cnt, value) ==
    [i \in DOMAIN b |-> IF start <= i /\ i < start + cnt THEN value ELSE b[i]]

BitmapContains(b, start, cnt, value) ==
    \E i \in DOMAIN b : start <= i /\ i < start + cnt /\ b[i] = value

BitmapAll(b, start, cnt) == ~BitmapContains(b, start, cnt, FALSE)

BitmapScan(b, start, cnt, value) ==
    LET fits == {i \in start..BitCnt(b) : i + cnt <= BitCnt(b) /\ ~BitmapContains(b, i, cnt, ~value)}
    IN  IF fits = {} THEN BITMAP_ERROR
        ELSE CHOOSE i \in fits : \A j \in fits : i <= j

\* bitmap_scan_and_flip() where nothing comes between the scan and the
\* flip: the index it returns and the bitmap it leaves.
BitmapScanAndFlip(b, start, cnt, value) ==
    LET idx == BitmapScan(b, start, cnt, value)
    IN  [idx |-> idx, bits |-> IF idx = BITMAP_ERROR THEN b ELSE BitmapSetMultiple(b, idx, cnt, ~value)]
=======================================================================
