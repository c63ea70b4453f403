------------------------------ MODULE Deadline ------------------------------
(***************************************************************************)
(* The deadline elevator (IO_type 3) of src/kernel/virtio_disk.c: two     *)
(* red-black trees keyed by block number and two arrival rings, one of    *)
(* each per class (0 read, 1 write), with the global disk.readyArea.      *)
(*                                                                         *)
(* The C structures are arenas of records linked by pointers.  Here a     *)
(* pointer into tree c (or ring c) is a slot index 0 .. TreeSize-1, the   *)
(* sentinel SEN, or NULLP; every field the code reads or writes is a      *)
(* function over the pointers.  All fields start as the bss leaves them   *)
(* (zero: NULL links, colour RED, rank 0, a request with b == NULL) and   *)
(* as virtio_disk_init sets them.                                          *)
(*                                                                         *)
(* Operators return [d |-> state, fault |-> f]: f is "none" or why the    *)
(* kernel stops (a panic, a NULL dereference, an array overrun).  Then    *)
(* chains the statements of a function, stopping at the first fault.      *)
(***************************************************************************)
EXTENDS Integers, FiniteSets

CONSTANTS
  TreeSize,   \* TREESIZE (128 in the code)
  TickBits,   \* width of uint ticks and of int time (32 in the code)
  TimeLimit   \* ring->timeLimit (22 in the code)

Classes == {0, 1}
Slots == 0 .. TreeSize - 1
SEN == TreeSize
NULLP == -1
Ptrs == Slots \cup {SEN}
RED == 0
BLACK == 1
\* node->rank and section->rank are never assigned: 0 from the bss.
Rank == 0
DNullReq == [b |-> -1, w |-> 0]

Ok(d) == [d |-> d, fault |-> "none"]
Fail(d, f) == [d |-> d, fault |-> f]
Then(r, F(_)) == IF r.fault = "none" THEN F(r.d) ELSE r

(***************************************************************************)
(* virtio_disk_init: tree[i] and ring[i] for i in 0..1.  The loops that   *)
(* fill the free stacks write disk.tree->avail and disk.ring->avail, that *)
(* is class 0's, twice; class 1's stacks stay all zero.                   *)
(***************************************************************************)
NoLinks == [n \in Ptrs |-> [k \in 0 .. 2 |-> NULLP]]

FreeStack(c) == [j \in Slots |-> IF c = 0 THEN j ELSE 0]

TreeInit(c) ==
  [lnk |-> NoLinks, color |-> [n \in Ptrs |-> IF n = SEN THEN BLACK ELSE RED],
   data |-> [n \in Ptrs |-> DNullReq], pSec |-> [n \in Ptrs |-> NULLP],
   pos |-> TreeSize - 1, avail |-> FreeStack(c), size |-> 0]

RingInit(c) ==
  [fr |-> [s \in Ptrs |-> NULLP], bk |-> [s \in Ptrs |-> NULLP],
   time |-> [s \in Ptrs |-> 0], data |-> [s \in Ptrs |-> DNullReq],
   pNode |-> [s \in Ptrs |-> NULLP], rear |-> SEN,
   pos |-> TreeSize - 1, avail |-> FreeStack(c), size |-> 0]

DInit == [tree |-> [c \in Classes |-> TreeInit(c)],
          ring |-> [c \in Classes |-> RingInit(c)],
          ready |-> DNullReq]

(***************************************************************************)
(* Nowtime() returns the uint ticks as a uint64; a section stores it in   *)
(* an int; timecost = Nowtime() - time in uint64, the int sign-extended.  *)
(***************************************************************************)
Nowtime(ticks) == ticks % 2^TickBits
ToInt(u) == IF u < 2^(TickBits - 1) THEN u ELSE u - 2^TickBits
TimeCost(now, time) == (now - time) % 2^(2 * TickBits)

\* while (temp->p[0] != NULL) temp = temp->p[0], from the sentinel.
RECURSIVE LeftFrom(_, _)
LeftFrom(T, p) == IF T.lnk[p][0] = NULLP THEN p ELSE LeftFrom(T, T.lnk[p][0])
Leftmost(T) == LeftFrom(T, SEN)

\* A free: pos++; avail[pos] = rank.  Past avail[] it overwrites size.
Overruns(S) == S.pos + 1 \notin Slots
Freed(S) == [S EXCEPT !.pos = @ + 1, !.avail[S.pos + 1] = Rank]

(***************************************************************************)
(* GetFromRBTree: the leftmost node of tree[0], or of tree[1] when        *)
(* tree[0].size == 0.                                                      *)
(***************************************************************************)
GetFromRBTree(d) ==
  LET c == IF d.tree[0].size = 0 THEN 1 ELSE 0
  IN  d.tree[c].data[Leftmost(d.tree[c])]

(***************************************************************************)
(* BalanceAfterDeletion(temp): when temp's parent is the sentinel or red, *)
(* colour temp black.  Otherwise the rotations run; they need a node      *)
(* whose parent is another node, which no insert creates (see             *)
(* InsertToRBTree), and are not modelled: the model stops with            *)
(* "rebalance".  A NULL parent is dereferenced for its colour.            *)
(***************************************************************************)
BalanceAfterDeletion(d, c, temp) ==
  LET T == d.tree[c]
      par == T.lnk[temp][2]
  IN  CASE par = NULLP -> Fail(d, "null")
        [] par = SEN \/ T.color[par] = RED ->
             Ok([d EXCEPT !.tree[c].color[temp] = BLACK])
        [] OTHER -> Fail(d, "rebalance")

(***************************************************************************)
(* DeleteFromRBTree(node, tree): find dir with node->p[2]->p[dir] == node *)
(* (the loop has no bound: past p[2] it reads beyond the node), unlink,   *)
(* push the rank, clear the parent's p[0], and rebalance from the PARENT. *)
(* tree->size is not decremented.                                          *)
(***************************************************************************)
DeleteFromRBTree(d, c, node) ==
  LET T == d.tree[c]
      par == IF node = NULLP THEN NULLP ELSE T.lnk[node][2]
      dirs == {k \in 0 .. 2 : par # NULLP /\ T.lnk[par][k] = node}
      dir == CHOOSE k \in dirs : \A j \in dirs : k <= j
  IN  CASE node = NULLP \/ par = NULLP -> Fail(d, "null")
        [] dirs = {} -> Fail(d, "ub")
        [] Overruns(T) -> Fail(d, "ub")
        [] OTHER ->
             BalanceAfterDeletion(
               [d EXCEPT !.tree[c] = [Freed([T EXCEPT !.lnk[par][dir] = NULLP])
                                        EXCEPT !.lnk[par][0] = NULLP]],
               c, par)

(***************************************************************************)
(* One pass of RenewReadyArea's loop for ring i: when its sentinel's      *)
(* pBack (the oldest section) has waited more than timeLimit, make it     *)
(* ready, delete its node, free the section and unlink it; the new oldest *)
(* section's pFront is written without a NULL check.                      *)
(***************************************************************************)
Expire(d, i, now) ==
  LET R == d.ring[i]
      o == R.bk[SEN]
      x == R.data[o]
      nb == R.bk[o]
  IN  IF o = NULLP \/ TimeCost(now, R.time[o]) <= TimeLimit THEN Ok(d)
      ELSE Then(DeleteFromRBTree([d EXCEPT !.ready = x], x.w, R.pNode[o]),
                LAMBDA d1 :
                  CASE Overruns(R) -> Fail(d1, "ub")
                    [] nb = NULLP -> Fail(d1, "null")
                    [] OTHER -> Ok([d1 EXCEPT !.ring[i] =
                                      [Freed(R) EXCEPT !.size = @ - 1,
                                                       !.bk[SEN] = nb,
                                                       !.fr[nb] = SEN]]))

\* RenewReadyArea: both passes (there is no break), then readyArea is
\* overwritten with GetFromRBTree(&disk.tree[0]).
RenewReadyArea(d, now) ==
  Then(Expire(d, 0, now), LAMBDA d1 :
    Then(Expire(d1, 1, now), LAMBDA d2 :
      Ok([d2 EXCEPT !.ready = GetFromRBTree(d2)])))

(***************************************************************************)
(* InsertToRing(ring, x): take section avail[pos], stamp it, link it      *)
(* after ring->rear and make it the rear.  Its own pBack is not cleared.  *)
(***************************************************************************)
InsertToRing(d, c, x, now) ==
  LET R == d.ring[c]
      s == R.avail[R.pos]
  IN  IF R.size = TreeSize THEN Fail(d, "panic")
      ELSE Ok([d EXCEPT !.ring[c] =
                 [R EXCEPT !.size = @ + 1, !.pos = @ - 1, !.data[s] = x,
                           !.time[s] = ToInt(now), !.fr[s] = R.rear,
                           !.bk[R.rear] = s, !.rear = s]])

(***************************************************************************)
(* InsertToRBTree(tree, x).  The search starts at tree->root, which       *)
(* nothing but virtio_disk_init assigns (NULL): it never runs, so hot is  *)
(* the sentinel and dir is 0.  The new node replaces sentinel.p[0] and is *)
(* coloured black; BalanceAfterAddition's loop tests the sentinel's       *)
(* colour (black) and its root fix-up tests root (NULL), so it does       *)
(* nothing.  Then RenewReadyArea.                                          *)
(***************************************************************************)
\* BalanceAfterAddition(node): fix-ups run while node's parent is red; as
\* with BalanceAfterDeletion, reaching them stops the model.  The final
\* recolouring is of tree->root, which is NULL.
BalanceAfterAddition(d, c, node) ==
  IF d.tree[c].color[d.tree[c].lnk[node][2]] = RED THEN Fail(d, "rebalance")
  ELSE Ok(d)

InsertToRBTree(d, c, x, now) ==
  LET T == d.tree[c]
      n == T.avail[T.pos]
  IN  IF T.size = TreeSize THEN Fail(d, "panic")
      ELSE Then(BalanceAfterAddition(
                  [d EXCEPT !.tree[c] =
                     [T EXCEPT !.size = @ + 1, !.pos = @ - 1, !.color[n] = BLACK,
                               !.data[n] = x, !.lnk[n][2] = SEN, !.lnk[SEN][0] = n]],
                  c, n),
                LAMBDA d1 : RenewReadyArea(d1, now))

(***************************************************************************)
(* The IO_type 3 branch of rw_queue under queue_lock: insert into the     *)
(* ring and the tree of class x.write, then cross-link section and node.  *)
(***************************************************************************)
DeadlineInsert(d, x, now) ==
  LET c == x.w
  IN  Then(InsertToRing(d, c, x, now), LAMBDA d1 :
        LET s == d.ring[c].avail[d.ring[c].pos]
            n == d1.tree[c].avail[d1.tree[c].pos]
        IN  Then(InsertToRBTree(d1, c, x, now), LAMBDA d2 :
              Ok([d2 EXCEPT !.ring[c].pNode[s] = n, !.tree[c].pSec[n] = s])))

(***************************************************************************)
(* PrimRBTree(&disk.tree[0]) from the interrupt handler: recurse into     *)
(* tree[1] when tree[0].size == 0; decrement size unless it is 0; take    *)
(* the leftmost node (the sentinel itself in an empty tree), push its     *)
(* rank, clear its parent's p[0]; free its section in the ring of its     *)
(* request's class and unlink it; then splice a right child up or         *)
(* rebalance.                                                              *)
(***************************************************************************)
RECURSIVE PrimRBTree(_, _)

PrimFrom(d, c, R, rc) ==
  LET T == d.tree[c]
      temp == Leftmost(T)
      par == T.lnk[temp][2]
      sec == T.pSec[temp]
      T1 == [Freed([T EXCEPT !.size = IF @ # 0 THEN @ - 1 ELSE @])
               EXCEPT !.lnk[par][0] = NULLP]
      R1 == [Freed(R) EXCEPT !.size = @ - 1, !.bk[R.fr[sec]] = R.bk[sec]]
      R2 == IF R1.bk[sec] # NULLP THEN [R1 EXCEPT !.fr[R1.bk[sec]] = R1.fr[sec]]
                                  ELSE R1
      d1 == [d EXCEPT !.tree[c] = T1, !.ring[rc] = R2]
  IN  CASE Overruns(T) -> Fail(d, "ub")
        [] par = NULLP \/ sec = NULLP -> Fail(d, "null")
        [] Overruns(R) -> Fail(d, "ub")
        [] R.fr[sec] = NULLP -> Fail(d, "null")
        [] T1.lnk[temp][1] # NULLP ->
             Ok([d1 EXCEPT !.tree[c].lnk[par][0] = T1.lnk[temp][1]])
        [] OTHER -> BalanceAfterDeletion(d1, c, temp)

PrimRBTree(d, c) ==
  IF c = 0 /\ d.tree[0].size = 0 THEN PrimRBTree(d, 1)
  ELSE LET rc == d.tree[c].data[Leftmost(d.tree[c])].w
       IN  PrimFrom(d, c, d.ring[rc], rc)

\* The request PrimRBTree(&disk.tree[0]) removes.
DeadlineRetired(d) == GetFromRBTree(d)
=============================================================================
