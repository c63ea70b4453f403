------------------------------- MODULE Inode -------------------------------
(***************************************************************************)
(* The inode layer of src/kernel/fs.c: the block allocator (balloc,       *)
(* bfree), the inode table (iget, idup, ilock, iunlock, iput with its     *)
(* truncate-and-free path), ialloc, iupdate, and writei through bmap's    *)
(* direct blocks.                                                          *)
(*                                                                         *)
(* Disk inodes and the bitmap are seen through the buffer cache and the   *)
(* log, which Log shows to serve every read its latest write, so a        *)
(* log_write is visible at once and there are no crashes here.  Each     *)
(* region under itable.lock, or under one buffer's or inode's sleeplock,  *)
(* is one step; iput's free path is the several steps the code takes      *)
(* between its locks.  A thread holds at most one inode reference, as a   *)
(* process holding one open file, and keeps to the rules of the comment  *)
(* at fs.c 160-178: ilock only with a reference, iput only unlocked.      *)
(***************************************************************************)
EXTENDS Integers, FiniteSets, TLC

CONSTANTS
  Procs,       \* kernel threads making file-system calls
  NINODES,     \* sb.ninodes: disk inodes 1 .. NINODES-1 (0 is never used)
  NBLOCKS,     \* data blocks 1 .. NBLOCKS managed by the bitmap
  NINODE,      \* slots of the in-memory inode table
  NDIRECT,     \* direct block addresses per inode
  MaxCalls,    \* bound on the calls that take a reference
  NoProc       \* the holder of an unlocked sleeplock

Inums == 1 .. NINODES - 1
Slots == 0 .. NINODE - 1
BNos == 0 .. NDIRECT - 1

NoSlot == -1

VARIABLES
  dinode,      \* the disk inodes (type, nlink, size in blocks, addrs)
  bitmap,      \* the data blocks marked in use
  itable,      \* itable.inode[]: inum, ref, valid, the cached dinode, lock
  links,       \* directory entries naming each inode (sysfile.c's view)
  hold,        \* the table slot each thread holds a reference to
  pc,          \* where each thread is
  arg,         \* the inum ialloc claimed, between its scan and its iget
  calls,       \* calls that took a reference so far
  halted       \* "none", or the panic that stopped the kernel

vars == <<dinode, bitmap, itable, links, hold, pc, arg, calls, halted>>

FreeDinode == [type |-> 0, nlink |-> 0, size |-> 0, addrs |-> [j \in BNos |-> 0]]
Fields(ip) == [type |-> ip.type, nlink |-> ip.nlink, size |-> ip.size,
               addrs |-> ip.addrs]

Init ==
  /\ dinode = [i \in Inums |-> FreeDinode]
  /\ bitmap = {}
  /\ itable = [s \in Slots |-> [inum |-> 0, ref |-> 0, valid |-> 0, lock |-> NoProc]
                               @@ FreeDinode]
  /\ links = [i \in Inums |-> 0]
  /\ hold = [p \in Procs |-> NoSlot]
  /\ pc = [p \in Procs |-> "idle"]
  /\ arg = [p \in Procs |-> 0]
  /\ calls = 0
  /\ halted = "none"

Running == halted = "none"
\* iupdate(ip): the cached dinode fields are written to the disk inode.
iupdate(it, s, d) == [d EXCEPT ![it[s].inum] = Fields(it[s])]
-----------------------------------------------------------------------------
(***************************************************************************)
(* iget(inum): a slot with ref > 0 holding inum gets one more reference;  *)
(* otherwise the first slot with ref == 0 is recycled for inum, invalid,  *)
(* with ref 1; with none, panic.  Result: [it, slot, fault].             *)
(***************************************************************************)
iget(it, inum) ==
  LET hit == {s \in Slots : it[s].ref > 0 /\ it[s].inum = inum}
      empty == {s \in Slots : it[s].ref = 0}
  IN  IF hit # {}
      THEN LET s == CHOOSE s \in hit : TRUE
           IN  [it |-> [it EXCEPT ![s].ref = @ + 1], slot |-> s, fault |-> "none"]
      ELSE IF empty = {} THEN [it |-> it, slot |-> NoSlot, fault |-> "iget: no inodes"]
      ELSE LET s == CHOOSE s \in empty : \A t \in empty : s <= t
           IN  [it |-> [it EXCEPT ![s] = [@ EXCEPT !.inum = inum, !.ref = 1,
                                                    !.valid = 0]],
                slot |-> s, fault |-> "none"]

\* Taking a reference: thread p now holds the slot iget returned.
Took(p, r) ==
  /\ halted' = r.fault
  /\ itable' = r.it
  /\ hold' = [hold EXCEPT ![p] = r.slot]
  /\ pc' = [pc EXCEPT ![p] = IF r.fault = "none" THEN "held" ELSE pc[p]]

(***************************************************************************)
(* ialloc(type), its scan: under each inode block's sleeplock, claim the  *)
(* first disk inode of type 0 (memset it, set the type, log_write); panic *)
(* when there is none.  The iget that follows is a separate step.         *)
(***************************************************************************)
IAlloc(p) ==
  LET free == {i \in Inums : dinode[i].type = 0}
      i == CHOOSE i \in free : \A j \in free : i <= j
  IN  /\ Running /\ pc[p] = "idle" /\ calls < MaxCalls
      /\ calls' = calls + 1
      /\ IF free = {}
         THEN halted' = "ialloc: no inodes" /\ UNCHANGED <<dinode, pc, arg>>
         ELSE /\ dinode' = [dinode EXCEPT ![i] = [FreeDinode EXCEPT !.type = 1]]
              /\ arg' = [arg EXCEPT ![p] = i]
              /\ pc' = [pc EXCEPT ![p] = "ialloc.iget"]
              /\ UNCHANGED halted
      /\ UNCHANGED <<bitmap, itable, links, hold>>

IAllocGet(p) ==
  /\ Running /\ pc[p] = "ialloc.iget"
  /\ Took(p, iget(itable, arg[p]))
  /\ UNCHANGED <<dinode, bitmap, links, arg, calls>>

\* Path lookup reaching an inode a directory names: dirlookup's iget.
Open(p, i) ==
  /\ Running /\ pc[p] = "idle" /\ calls < MaxCalls /\ links[i] > 0
  /\ calls' = calls + 1
  /\ Took(p, iget(itable, i))
  /\ UNCHANGED <<dinode, bitmap, links, arg>>

\* idup: thread q (a child sharing the inode) takes another reference.
IDup(p, q) ==
  /\ Running /\ pc[p] \in {"held", "locked"} /\ pc[q] = "idle" /\ calls < MaxCalls
  /\ calls' = calls + 1
  /\ itable' = [itable EXCEPT ![hold[p]].ref = @ + 1]
  /\ hold' = [hold EXCEPT ![q] = hold[p]]
  /\ pc' = [pc EXCEPT ![q] = "held"]
  /\ UNCHANGED <<dinode, bitmap, links, arg, halted>>
-----------------------------------------------------------------------------
(***************************************************************************)
(* ilock: acquiresleep (disabled while another thread holds the lock),   *)
(* then, if the slot is not valid, read the disk inode and panic if its  *)
(* type is 0.                                                              *)
(***************************************************************************)
ILock(p) ==
  LET s == hold[p]
      d == dinode[itable[s].inum]
  IN  /\ Running /\ pc[p] = "held" /\ itable[s].lock = NoProc
      /\ itable' = [itable EXCEPT ![s] =
                      IF @.valid = 1 THEN [@ EXCEPT !.lock = p]
                      ELSE [@ EXCEPT !.lock = p, !.valid = 1, !.type = d.type,
                                     !.nlink = d.nlink, !.size = d.size,
                                     !.addrs = d.addrs]]
      /\ halted' = IF itable[s].valid = 0 /\ d.type = 0 THEN "ilock: no type"
                   ELSE "none"
      /\ pc' = [pc EXCEPT ![p] = "locked"]
      /\ UNCHANGED <<dinode, bitmap, links, hold, arg, calls>>

IUnlock(p) ==
  /\ Running /\ pc[p] = "locked"
  /\ itable' = [itable EXCEPT ![hold[p]].lock = NoProc]
  /\ pc' = [pc EXCEPT ![p] = "held"]
  /\ UNCHANGED <<dinode, bitmap, links, hold, arg, calls, halted>>

(***************************************************************************)
(* balloc: the lowest data block whose bitmap bit is clear is marked and  *)
(* zeroed; panic when there is none.  bfree: panic if the bit is already  *)
(* clear, else clear it.                                                   *)
(***************************************************************************)
\* Mutant: the bit is found clear but never set.
BallocNoMark(bm) ==
  LET free == (1 .. NBLOCKS) \ bm
      b == CHOOSE b \in free : \A c \in free : b <= c
  IN  IF free = {} THEN [bm |-> bm, b |-> 0, fault |-> "balloc: out of blocks"]
      ELSE [bm |-> bm, b |-> b, fault |-> "none"]

balloc(bm) ==
  LET free == (1 .. NBLOCKS) \ bm
      b == CHOOSE b \in free : \A c \in free : b <= c
  IN  IF free = {} THEN [bm |-> bm, b |-> 0, fault |-> "balloc: out of blocks"]
      ELSE [bm |-> bm \cup {b}, b |-> b, fault |-> "none"]

bfree(r, b) ==
  IF r.fault # "none" THEN r
  ELSE IF b \notin r.bm THEN [r EXCEPT !.fault = "freeing free block"]
  ELSE [r EXCEPT !.bm = @ \ {b}]

\* bmap for a direct block: its address, allocating one if it is 0.
bmap(x, bn, bm) ==
  IF x.addrs[bn] = 0 THEN balloc(bm)
  ELSE [bm |-> bm, b |-> x.addrs[bn], fault |-> "none"]

(***************************************************************************)
(* writei of one block bn (off = bn*BSIZE <= size): bmap allocates the    *)
(* direct block if addrs[bn] is 0, the data is log_written, size grows    *)
(* to cover it, and iupdate writes the inode back.                        *)
(***************************************************************************)
WriteI(p, bn) ==
  LET s == hold[p]
      x == itable[s]
      r == bmap(x, bn, bitmap)
      it == [itable EXCEPT ![s].addrs[bn] = r.b,
                           ![s].size = IF bn + 1 > @ THEN bn + 1 ELSE @]
  IN  /\ Running /\ pc[p] = "locked" /\ bn <= x.size
      /\ halted' = r.fault
      /\ bitmap' = r.bm
      /\ itable' = IF r.fault = "none" THEN it ELSE itable
      /\ dinode' = IF r.fault = "none" THEN iupdate(it, s, dinode) ELSE dinode
      /\ UNCHANGED <<links, hold, pc, arg, calls>>

\* The directory side of create/link/unlink (sysfile.c): with the inode
\* locked, nlink changes with the entries naming it, then iupdate.  A
\* second link to an inode is left out (nlink stays within 0 .. 1).
Link(p) ==
  LET s == hold[p]
      it == [itable EXCEPT ![s].nlink = @ + 1]
  IN  /\ Running /\ pc[p] = "locked" /\ itable[s].nlink = 0
      /\ itable' = it
      /\ dinode' = iupdate(it, s, dinode)
      /\ links' = [links EXCEPT ![itable[s].inum] = @ + 1]
      /\ UNCHANGED <<bitmap, hold, pc, arg, calls, halted>>

\* Mutant: unlink's "nlink < 1" panic check is left out.
UnlinkNoCheck(p) ==
  LET s == hold[p]
      it == [itable EXCEPT ![s].nlink = @ - 1]
  IN  /\ Running /\ pc[p] = "locked"
      /\ itable' = it
      /\ dinode' = iupdate(it, s, dinode)
      /\ links' = [links EXCEPT ![itable[s].inum] = @ - 1]
      /\ UNCHANGED <<bitmap, hold, pc, arg, calls, halted>>

Unlink(p) ==
  LET s == hold[p]
      it == [itable EXCEPT ![s].nlink = @ - 1]
  IN  /\ Running /\ pc[p] = "locked" /\ itable[s].nlink > 0
      /\ itable' = it
      /\ dinode' = iupdate(it, s, dinode)
      /\ links' = [links EXCEPT ![itable[s].inum] = @ - 1]
      /\ UNCHANGED <<bitmap, hold, pc, arg, calls, halted>>
-----------------------------------------------------------------------------
(***************************************************************************)
(* iput, under itable.lock: with ref == 1, valid and nlink == 0 it takes  *)
(* the inode's sleeplock ("won't block": the comment's claim; if it is    *)
(* held the thread waits in "iput.wait") and goes on to free; otherwise   *)
(* it drops the reference.                                                 *)
(***************************************************************************)
FreeCond(x) == x.ref = 1 /\ x.valid = 1 /\ x.nlink = 0

\* Mutant: the free path is taken without ip->ref == 1.
IPutNoRefCheck(p) ==
  LET s == hold[p]
      x == itable[s]
  IN  /\ Running /\ pc[p] = "held"
      /\ IF x.valid = 1 /\ x.nlink = 0
         THEN IF x.lock = NoProc
              THEN /\ itable' = [itable EXCEPT ![s].lock = p]
                   /\ pc' = [pc EXCEPT ![p] = "iput.trunc"]
              ELSE /\ pc' = [pc EXCEPT ![p] = "iput.wait"]
                   /\ UNCHANGED itable
         ELSE /\ itable' = [itable EXCEPT ![s].ref = @ - 1]
              /\ pc' = [pc EXCEPT ![p] = "idle"]
      /\ hold' = IF pc'[p] = "idle" THEN [hold EXCEPT ![p] = NoSlot] ELSE hold
      /\ UNCHANGED <<dinode, bitmap, links, arg, calls, halted>>

IPut(p) ==
  LET s == hold[p]
      x == itable[s]
  IN  /\ Running /\ pc[p] = "held"
      /\ IF FreeCond(x)
         THEN IF x.lock = NoProc
              THEN /\ itable' = [itable EXCEPT ![s].lock = p]
                   /\ pc' = [pc EXCEPT ![p] = "iput.trunc"]
              ELSE /\ pc' = [pc EXCEPT ![p] = "iput.wait"]
                   /\ UNCHANGED itable
         ELSE /\ itable' = [itable EXCEPT ![s].ref = @ - 1]
              /\ pc' = [pc EXCEPT ![p] = "idle"]
      /\ hold' = IF pc'[p] = "idle" THEN [hold EXCEPT ![p] = NoSlot] ELSE hold
      /\ UNCHANGED <<dinode, bitmap, links, arg, calls, halted>>

\* itrunc: bfree every direct block, clear addrs, size = 0, iupdate.
ITrunc(p) ==
  LET s == hold[p]
      x == itable[s]
      RECURSIVE FreeAll(_, _)
      FreeAll(r, J) == IF J = {} THEN r
                       ELSE LET j == CHOOSE j \in J : \A k \in J : j <= k
                            IN  FreeAll(IF x.addrs[j] # 0 THEN bfree(r, x.addrs[j])
                                        ELSE r, J \ {j})
      r == FreeAll([bm |-> bitmap, fault |-> "none"], BNos)
      it == [itable EXCEPT ![s].addrs = [j \in BNos |-> 0], ![s].size = 0]
  IN  /\ Running /\ pc[p] = "iput.trunc"
      /\ halted' = r.fault
      /\ bitmap' = r.bm
      /\ itable' = it
      /\ dinode' = iupdate(it, s, dinode)
      /\ pc' = [pc EXCEPT ![p] = "iput.type"]
      /\ UNCHANGED <<links, hold, arg, calls>>

\* ip->type = 0; iupdate(ip): the disk inode is free from here on.
IPutFreeType(p) ==
  LET it == [itable EXCEPT ![hold[p]].type = 0]
  IN  /\ Running /\ pc[p] = "iput.type"
      /\ itable' = it
      /\ dinode' = iupdate(it, hold[p], dinode)
      /\ pc' = [pc EXCEPT ![p] = "iput.invalidate"]
      /\ UNCHANGED <<bitmap, links, hold, arg, calls, halted>>

\* Mutant: ip->valid = 0 is left out.
IPutInvalidateKeepsValid(p) ==
  /\ Running /\ pc[p] = "iput.invalidate"
  /\ itable' = [itable EXCEPT ![hold[p]].lock = NoProc]
  /\ pc' = [pc EXCEPT ![p] = "iput.ref"]
  /\ UNCHANGED <<dinode, bitmap, links, hold, arg, calls, halted>>

\* ip->valid = 0; releasesleep(&ip->lock).
IPutInvalidate(p) ==
  /\ Running /\ pc[p] = "iput.invalidate"
  /\ itable' = [itable EXCEPT ![hold[p]].valid = 0, ![hold[p]].lock = NoProc]
  /\ pc' = [pc EXCEPT ![p] = "iput.ref"]
  /\ UNCHANGED <<dinode, bitmap, links, hold, arg, calls, halted>>

\* acquire(&itable.lock); ip->ref--; release.
IPutRef(p) ==
  /\ Running /\ pc[p] = "iput.ref"
  /\ itable' = [itable EXCEPT ![hold[p]].ref = @ - 1]
  /\ hold' = [hold EXCEPT ![p] = NoSlot]
  /\ pc' = [pc EXCEPT ![p] = "idle"]
  /\ UNCHANGED <<dinode, bitmap, links, arg, calls, halted>>
-----------------------------------------------------------------------------
\* The workload is over (every call made and returned) or the kernel
\* panicked: stutter.
Terminating ==
  /\ halted # "none" \/ (calls = MaxCalls /\ \A p \in Procs : pc[p] = "idle")
  /\ UNCHANGED vars

Next ==
  \/ \E p \in Procs :
       \/ IAlloc(p) \/ IAllocGet(p) \/ (\E i \in Inums : Open(p, i))
       \/ (\E q \in Procs : IDup(p, q))
       \/ ILock(p) \/ IUnlock(p) \/ (\E bn \in BNos : WriteI(p, bn))
       \/ Link(p) \/ Unlink(p)
       \/ IPut(p) \/ ITrunc(p) \/ IPutFreeType(p)
       \/ IPutInvalidate(p) \/ IPutRef(p)
  \/ Terminating

Spec == Init /\ [][Next]_vars

\* Threads are interchangeable: nothing in the code tells them apart.
Perms == Permutations(Procs)
-----------------------------------------------------------------------------
Dinodes == [type : {0, 1}, nlink : 0 .. 1, size : 0 .. NDIRECT,
            addrs : [BNos -> 0 .. NBLOCKS]]

\* Every variable holds a value of its intended kind.
TypeOK ==
  /\ dinode \in [Inums -> Dinodes]
  /\ bitmap \subseteq 1 .. NBLOCKS
  /\ \A s \in Slots : /\ itable[s].inum \in {0} \cup Inums
                      /\ itable[s].ref \in 0 .. Cardinality(Procs)
                      /\ itable[s].valid \in {0, 1}
                      /\ itable[s].lock \in Procs \cup {NoProc}
                      /\ Fields(itable[s]) \in Dinodes
  /\ hold \in [Procs -> Slots \cup {NoSlot}]
  /\ calls \in 0 .. MaxCalls

\* The blocks named by disk inodes' addrs (their owners).
Owned == {dinode[i].addrs[j] : i \in Inums, j \in BNos} \ {0}

(***************************************************************************)
(* balloc/bmap, itrunc/bfree and ialloc's memset keep the bitmap and the  *)
(* inodes in step: the bitmap marks exactly the blocks some inode owns,   *)
(* and no block is owned twice, by two inodes or by two addrs of one.    *)
(***************************************************************************)
BlocksOwnedOnce ==
  /\ bitmap = Owned
  /\ \A i, k \in Inums, j, l \in BNos :
       dinode[i].addrs[j] # 0 /\ <<i, j>> # <<k, l>>
         => dinode[i].addrs[j] # dinode[k].addrs[l]

(***************************************************************************)
(* A referenced, valid table entry that nobody has locked is the disk     *)
(* inode: what the next ilock will trust without reading the disk.  This  *)
(* is what iput's ip->valid = 0 protects when ialloc and iget reuse an    *)
(* inode between iput's free steps and its ref--.                         *)
(***************************************************************************)
CachedInodeCoherent ==
  \A s \in Slots :
    itable[s].ref > 0 /\ itable[s].valid = 1 /\ itable[s].lock = NoProc
      => Fields(itable[s]) = dinode[itable[s].inum]

(***************************************************************************)
(* iput's comment: "ip->ref == 1 means no other process can have ip      *)
(* locked, so this acquiresleep() won't block (or deadlock)" -- it would  *)
(* sleep holding itable.lock, which every iget, idup and iput spins on,  *)
(* so "iput.wait" has no way out.  No thread ever waits there.           *)
(***************************************************************************)
IputFreeNeverBlocks == \A p \in Procs : pc[p] # "iput.wait"
=============================================================================
