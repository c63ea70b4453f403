------------------------------ MODULE BufCache ------------------------------
(***************************************************************************)
(* The buffer cache of src/kernel/bio.c as operators on a cache value     *)
(* C = [buf, lru]: buf[i] is struct buf i (its blockno, valid, refcnt and *)
(* data), lru the list from bcache.head.next (most recent) to head.prev.  *)
(* The disk is a function from block numbers to contents.  Block 0, the   *)
(* blockno of a buffer nothing has used yet, is not a home block.         *)
(*                                                                         *)
(* A result is [c |-> cache, id |-> buffer, fault |-> "none" or panic].    *)
(***************************************************************************)
EXTENDS Integers, Sequences

CONSTANT NBUF

Bufs == 0 .. NBUF - 1

\* binit: every buffer pushed after the head in turn, so buf[NBUF-1] is
\* head.next; the buffers are zeroed (blockno 0, invalid, unreferenced).
BInit == [buf |-> [i \in Bufs |-> [blk |-> 0, valid |-> 0, refcnt |-> 0,
                                   data |-> 0]],
          lru |-> [k \in 1 .. NBUF |-> NBUF - k]]

CacheResult(C, i, f) == [c |-> C, id |-> i, fault |-> f]

(***************************************************************************)
(* bget: a buffer already holding blockno gets one more reference;        *)
(* otherwise the unreferenced buffer nearest head.prev is recycled for    *)
(* it, invalid, with one reference; with none, panic.                     *)
(***************************************************************************)
bget(C, b) ==
  LET hit == {i \in Bufs : C.buf[i].blk = b}
      free == {k \in 1 .. NBUF : C.buf[C.lru[k]].refcnt = 0}
  IN  IF hit # {}
      THEN LET i == CHOOSE i \in hit : TRUE
           IN  CacheResult([C EXCEPT !.buf[i].refcnt = @ + 1], i, "none")
      ELSE IF free = {} THEN CacheResult(C, 0, "bget: no buffers")
      ELSE LET i == C.lru[CHOOSE k \in free : \A j \in free : j <= k]
           IN  CacheResult([C EXCEPT !.buf[i] = [@ EXCEPT !.blk = b, !.valid = 0,
                                                           !.refcnt = 1]],
                           i, "none")

\* bread: bget, then read the block from disk if the buffer is not valid.
bread(C, b, disk) ==
  LET r == bget(C, b)
  IN  IF r.fault # "none" \/ r.c.buf[r.id].valid = 1 THEN r
      ELSE [r EXCEPT !.c.buf[r.id] = [@ EXCEPT !.data = disk[b], !.valid = 1]]

\* bwrite: the buffer's contents reach its block on disk.
bwrite(C, i, disk) == [disk EXCEPT ![C.buf[i].blk] = C.buf[i].data]

\* brelse: drop a reference; an unreferenced buffer moves to head.next.
brelse(C, i) ==
  LET C1 == [C EXCEPT !.buf[i].refcnt = @ - 1]
  IN  IF C1.buf[i].refcnt # 0 THEN C1
      ELSE [C1 EXCEPT !.lru = <<i>> \o SelectSeq(C.lru, LAMBDA j : j # i)]

bpin(C, i) == [C EXCEPT !.buf[i].refcnt = @ + 1]

bunpin(C, i) == [C EXCEPT !.buf[i].refcnt = @ - 1]
=============================================================================
