---------------------------- MODULE KernelCheck ----------------------------
(***************************************************************************)
(* The inode layer (Inode), the file table above it (FileTable) and       *)
(* sys_sleep against the clock (SysSleep) in one model: each behaviour   *)
(* runs one of the three, chosen by its initial state, so the states are *)
(* those of the three models side by side.  The two file-system layers  *)
(* share the inode counts; their processes and call bounds differ.      *)
(***************************************************************************)
EXTENDS Integers, TLC

CONSTANTS Procs, NINODES, NINODE, NBLOCKS, NDIRECT, NoProc,
          IMaxCalls,           \* reference-taking calls in the inode layer
          FProcs,              \* processes of the file layer
          NFILE, NOFILE, MAXFILE, MaxN,
          FMaxCalls,           \* system calls in the file layer
          Threads, TickBits, Ns, MaxLag,
          SMaxCalls            \* sleep calls

VARIABLES layer,
          dinode, bitmap, itable, links, hold, pc, arg, calls, halted,
          ftab, ofile, iref, isize, fpc, wr, ff, wrote, nwrites, fcalls, fhalted,
          ticks, spc, ticks0, n, killed, lag, elapsed, result, scalls

ivars == <<dinode, bitmap, itable, links, hold, pc, arg, calls, halted>>
fvars == <<ftab, ofile, iref, isize, fpc, wr, ff, wrote, nwrites, fcalls, fhalted>>
svars == <<ticks, spc, ticks0, n, killed, lag, elapsed, result, scalls>>
vars == <<layer, ivars, fvars, svars>>

I == INSTANCE Inode WITH MaxCalls <- IMaxCalls
F == INSTANCE FileTable WITH Procs <- FProcs, MaxCalls <- FMaxCalls, pc <- fpc, calls <- fcalls,
                             halted <- fhalted
S == INSTANCE SysSleep WITH pc <- spc, calls <- scalls, MaxCalls <- SMaxCalls

\* The sleep layer starts at any value of ticks; the other layers never read it.
Init == /\ layer \in {"inode", "file", "sleep"}
        /\ I!Init /\ F!Init /\ S!Init
        /\ layer # "sleep" => ticks = 0

Next == \/ layer = "inode" /\ I!Next /\ UNCHANGED <<layer, fvars, svars>>
        \/ layer = "file" /\ F!Next /\ UNCHANGED <<layer, ivars, svars>>
        \/ layer = "sleep" /\ S!Next /\ UNCHANGED <<layer, ivars, fvars>>

Spec == Init /\ [][Next]_vars

\* The arguments sleep is called with: none, zero, a few ticks, and -1.
SleepNs == {-1, 0, 2}

\* Each file-system layer's processes are interchangeable among themselves
\* (the sleep layer is small enough to check without symmetry).
Perms == {s @@ t : s \in Permutations(Procs), t \in Permutations(FProcs)}
----
\* Each variable of either layer holds a value of its intended kind.
TypeOK == I!TypeOK /\ F!TypeOK /\ S!TypeOK

\* balloc, bfree and ialloc keep the bitmap equal to the owned blocks (Inode).
BlocksOwnedOnce == I!BlocksOwnedOnce

\* No referenced, valid, unlocked table entry is stale after iput (Inode).
CachedInodeCoherent == I!CachedInodeCoherent

\* iput's free path never sleeps on the inode lock (Inode).
IputFreeNeverBlocks == I!IputFreeNeverBlocks

\* File refs equal the descriptors naming them (FileTable).
FileRefsMatchDescriptors == F!FileRefsMatchDescriptors

\* Inode refs equal the open files on it plus pending iput(ff.ip) (FileTable).
InodeRefsMatchFiles == F!InodeRefsMatchFiles

\* No unit is written twice through one open file (FileTable).
WritesNeverOverlap == F!WritesNeverOverlap

\* sleep(n) returns 0 only after n ticks, across the wrap of ticks (SysSleep).
SleepsAtLeastN == S!SleepsAtLeastN

\* A sleep of n >= 0 ticks ends within n + MaxLag ticks (SysSleep).
SleepBounded == S!SleepBounded
====
