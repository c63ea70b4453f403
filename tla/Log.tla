-------------------------------- MODULE Log --------------------------------
(***************************************************************************)
(* The write-ahead log of src/kernel/log.c: begin_op, log_write, end_op,  *)
(* commit (write_log, write_head, install_trans, write_head), and          *)
(* recover_from_log at boot, with crashes at any point between two disk   *)
(* writes.                                                                 *)
(*                                                                         *)
(* Procs are kernel threads running file-system calls.  begin_op, end_op  *)
(* and log_write hold log.lock and are one step each; commit runs without *)
(* the lock, but no other thread touches the log while committing is set, *)
(* so each of its bwrites is one step: the points a crash can fall        *)
(* between.  A block's contents are one of Vals; 0 is the initial one.    *)
(* Home blocks go through the buffer cache (BufCache): log_write pins a   *)
(* block until install_trans unpins it.  The cache's use for the header   *)
(* and log blocks, which only ever take a free buffer for the length of  *)
(* one step, is left out.                                                 *)
(***************************************************************************)
EXTENDS Integers, FiniteSets, BufCache

CONSTANTS
  Procs,        \* threads making file-system calls
  Blocks,       \* home block numbers they modify
  Vals,         \* contents they write (0 is the formatted contents)
  LOGSIZE,      \* LOGSIZE of param.h: the log space begin_op reserves against
  MAXOPBLOCKS,  \* MAXOPBLOCKS of param.h: blocks one call may write
  LogDiskSize,  \* sb->nlog (log.size): the log region, header block included
  MaxOps,       \* bound on begin_op calls in a behaviour
  MaxCrashes    \* bound on crashes in a behaviour

ASSUME LogDiskSize - 1 <= LOGSIZE

VARIABLES
  home,         \* the home blocks on disk
  logdisk,      \* log blocks on disk: logdisk[tail] at log.start+tail+1
  dhead,        \* the log header block on disk
  cache,        \* the buffer cache (BufCache)
  lh,           \* log.lh
  outstanding,  \* log.outstanding
  committing,   \* log.committing
  pc,           \* where each thread is
  nw,           \* log_writes made by each thread's current call
  phase,        \* "up", or the step of recovery: "recover", "rinstall"
  cphase,       \* the step of commit: "wlog", "head", "install", "clear", "done"
  tail,         \* the loop index of write_log / install_trans
  ops, crashes, \* begin_op calls and crashes so far
  halted,       \* "none", or the panic that stopped the kernel
  latest,       \* ghost: each block's last write (since boot: the disk's)
  intent,       \* ghost: latest when the committing end_op began commit
  stable        \* ghost: the contents of the last committed transaction

vars == <<home, logdisk, dhead, cache, lh, outstanding, committing, pc, nw,
          phase, cphase, tail, ops, crashes, halted, latest, intent, stable>>

LogSlots == 0 .. LOGSIZE - 1
Zero == [b \in Blocks |-> 0]
EmptyHead == [n |-> 0, block |-> [i \in LogSlots |-> 0]]
Logged(h) == {h.block[i] : i \in 0 .. h.n - 1}
Committer == {p \in Procs : pc[p] = "commit"}

Init ==
  /\ home = Zero /\ cache = BInit
  /\ latest = Zero /\ intent = Zero /\ stable = Zero
  /\ logdisk = [i \in LogSlots |-> 0]
  /\ dhead = EmptyHead /\ lh = EmptyHead
  /\ outstanding = 0 /\ committing = 0
  /\ pc = [p \in Procs |-> "idle"] /\ nw = [p \in Procs |-> 0]
  /\ phase = "up" /\ cphase = "done" /\ tail = 0
  /\ ops = 0 /\ crashes = 0 /\ halted = "none"

Up == phase = "up" /\ halted = "none"

\* wakeup(&log): every thread asleep in begin_op retries its loop.
WakeLog(f) == [p \in Procs |-> IF f[p] = "sleep" THEN "begin" ELSE f[p]]

(***************************************************************************)
(* begin_op: one pass of its loop.  Sleep while committing, or while this *)
(* call's MAXOPBLOCKS might not fit in LOGSIZE; otherwise take a share.   *)
(***************************************************************************)
BeginOp(p) ==
  /\ Up
  /\ \/ pc[p] = "idle" /\ ops < MaxOps /\ ops' = ops + 1
     \/ pc[p] = "begin" /\ UNCHANGED ops
  /\ IF committing = 1 \/ lh.n + (outstanding + 1) * MAXOPBLOCKS > LOGSIZE
     THEN pc' = [pc EXCEPT ![p] = "sleep"] /\ UNCHANGED <<outstanding, nw>>
     ELSE /\ outstanding' = outstanding + 1
          /\ pc' = [pc EXCEPT ![p] = "op"]
          /\ nw' = [nw EXCEPT ![p] = 0]
  /\ UNCHANGED <<home, logdisk, dhead, cache, lh, committing, phase, cphase,
                 tail, crashes, halted, latest, intent, stable>>

(***************************************************************************)
(* A call modifies block b in the cache (bread, write b->data) and calls  *)
(* log_write(b): panic if the log is full or no call is in progress;      *)
(* absorb b if already logged, else append it (and bpin).                 *)
(***************************************************************************)
LogFull == lh.n >= LOGSIZE \/ lh.n >= LogDiskSize - 1

\* Mutant: a newly logged block is not pinned (bpin left out).
LogWriteNoPin(p, b, v) ==
  LET r == bread(cache, b, home)
      C1 == [r.c EXCEPT !.buf[r.id].data = v]
  IN  /\ Up
      /\ pc[p] = "op"
      /\ nw[p] < MAXOPBLOCKS
      /\ nw' = [nw EXCEPT ![p] = @ + 1]
      /\ halted' = CASE r.fault # "none" -> r.fault
                      [] LogFull -> "too big a transaction"
                      [] outstanding < 1 -> "log_write outside of trans"
                      [] OTHER -> "none"
      /\ cache' = IF halted' # "none" THEN cache ELSE brelse(C1, r.id)
      /\ latest' = IF halted' # "none" THEN latest ELSE [latest EXCEPT ![b] = v]
      /\ lh' = IF halted' # "none" \/ b \in Logged(lh) THEN lh
               ELSE [n |-> lh.n + 1, block |-> [lh.block EXCEPT ![lh.n] = b]]
      /\ UNCHANGED <<home, logdisk, dhead, outstanding, committing, pc, phase,
                     cphase, tail, ops, crashes, intent, stable>>

LogWrite(p, b, v) ==
  LET r == bread(cache, b, home)
      C1 == [r.c EXCEPT !.buf[r.id].data = v]
      new == b \notin Logged(lh)
  IN  /\ Up
      /\ pc[p] = "op"
      /\ nw[p] < MAXOPBLOCKS
      /\ nw' = [nw EXCEPT ![p] = @ + 1]
      /\ halted' = CASE r.fault # "none" -> r.fault
                      [] LogFull -> "too big a transaction"
                      [] outstanding < 1 -> "log_write outside of trans"
                      [] OTHER -> "none"
      /\ cache' = IF halted' # "none" THEN cache
                  ELSE brelse(IF new THEN bpin(C1, r.id) ELSE C1, r.id)
      /\ latest' = IF halted' # "none" THEN latest ELSE [latest EXCEPT ![b] = v]
      /\ lh' = IF halted' # "none" \/ ~new THEN lh
               ELSE [n |-> lh.n + 1, block |-> [lh.block EXCEPT ![lh.n] = b]]
      /\ UNCHANGED <<home, logdisk, dhead, outstanding, committing, pc, phase,
                     cphase, tail, ops, crashes, intent, stable>>

(***************************************************************************)
(* end_op: give back the share; the last call out commits, the others   *)
(* wake begin_op's sleepers.                                              *)
(***************************************************************************)
EndOp(p) ==
  /\ Up
  /\ pc[p] = "op"
  /\ outstanding' = outstanding - 1
  /\ halted' = IF committing = 1 THEN "log.committing" ELSE "none"
  /\ IF outstanding - 1 = 0
     THEN /\ committing' = 1
          /\ pc' = [pc EXCEPT ![p] = "commit"]
          /\ cphase' = IF lh.n > 0 THEN "wlog" ELSE "done"
          /\ tail' = 0
          /\ intent' = latest
     ELSE /\ pc' = [WakeLog(pc) EXCEPT ![p] = "idle"]
          /\ UNCHANGED <<committing, cphase, tail, intent>>
  /\ UNCHANGED <<home, logdisk, dhead, cache, lh, nw, phase, ops, crashes,
                 latest, stable>>

\* write_log, one iteration: bread the home block (pinned, so cached) and
\* copy it to log slot tail; brelse.
\* Mutant: the loop stops one block short (tail < n - 1).
WriteLogShort ==
  LET r == bread(cache, lh.block[tail], home)
  IN  /\ Up /\ Committer # {} /\ cphase = "wlog"
      /\ halted' = r.fault
      /\ logdisk' = [logdisk EXCEPT ![tail] = r.c.buf[r.id].data]
      /\ cache' = IF r.fault # "none" THEN cache ELSE brelse(r.c, r.id)
      /\ tail' = tail + 1
      /\ cphase' = IF tail + 1 >= lh.n - 1 THEN "head" ELSE "wlog"
      /\ UNCHANGED <<home, dhead, lh, outstanding, committing, pc, nw, phase,
                     ops, crashes, latest, intent, stable>>

WriteLog ==
  LET r == bread(cache, lh.block[tail], home)
  IN  /\ Up /\ Committer # {} /\ cphase = "wlog"
      /\ halted' = r.fault
      /\ logdisk' = [logdisk EXCEPT ![tail] = r.c.buf[r.id].data]
      /\ cache' = IF r.fault # "none" THEN cache ELSE brelse(r.c, r.id)
      /\ tail' = tail + 1
      /\ cphase' = IF tail + 1 = lh.n THEN "head" ELSE "wlog"
      /\ UNCHANGED <<home, dhead, lh, outstanding, committing, pc, nw, phase,
                     ops, crashes, latest, intent, stable>>

\* write_head: the header reaches the disk, the commit point.
WriteHead ==
  /\ Up /\ Committer # {} /\ cphase = "head"
  /\ dhead' = lh
  /\ stable' = intent
  /\ cphase' = "install" /\ tail' = 0
  /\ UNCHANGED <<home, logdisk, cache, lh, outstanding, committing, pc, nw,
                 phase, ops, crashes, halted, latest, intent>>

(***************************************************************************)
(* install_trans, one iteration: bread the home block, copy log slot     *)
(* tail into it, bwrite it, bunpin it unless recovering, brelse.  Commit  *)
(* goes on to clear the log; recovery to clear it and boot.               *)
(***************************************************************************)
InstallTrans ==
  LET recovering == phase = "rinstall"
      r == bread(cache, lh.block[tail], home)
      C1 == [r.c EXCEPT !.buf[r.id].data = logdisk[tail]]
  IN  /\ halted = "none"
      /\ \/ phase = "up" /\ Committer # {} /\ cphase = "install"
         \/ recovering
      /\ tail < lh.n
      /\ halted' = r.fault
      /\ home' = IF r.fault # "none" THEN home ELSE bwrite(C1, r.id, home)
      /\ cache' = IF r.fault # "none" THEN cache
                  ELSE brelse(IF recovering THEN C1 ELSE bunpin(C1, r.id), r.id)
      /\ tail' = tail + 1
      /\ cphase' = IF ~recovering /\ tail + 1 = lh.n THEN "clear" ELSE cphase
      /\ UNCHANGED <<logdisk, dhead, lh, outstanding, committing, pc, nw,
                     phase, ops, crashes, latest, intent, stable>>

\* log.lh.n = 0; write_head(): the transaction is erased from the log.
ClearLog ==
  /\ Up /\ Committer # {} /\ cphase = "clear"
  /\ lh' = [lh EXCEPT !.n = 0]
  /\ dhead' = [lh EXCEPT !.n = 0]
  /\ cphase' = "done"
  /\ UNCHANGED <<home, logdisk, cache, outstanding, committing, pc, nw, phase,
                 tail, ops, crashes, halted, latest, intent, stable>>

\* After commit(): committing = 0 and wakeup(&log) under log.lock.
\* Mutant: the wakeup is left out.
CommitDoneNoWakeup ==
  /\ Up /\ cphase = "done"
  /\ \E p \in Committer : pc' = [pc EXCEPT ![p] = "idle"]
  /\ committing' = 0
  /\ UNCHANGED <<home, logdisk, dhead, cache, lh, outstanding, nw, phase,
                 cphase, tail, ops, crashes, halted, latest, intent, stable>>

CommitDone ==
  /\ Up /\ cphase = "done"
  /\ \E p \in Committer : pc' = [WakeLog(pc) EXCEPT ![p] = "idle"]
  /\ committing' = 0
  /\ UNCHANGED <<home, logdisk, dhead, cache, lh, outstanding, nw, phase,
                 cphase, tail, ops, crashes, halted, latest, intent, stable>>

(***************************************************************************)
(* A crash (or a panic's reboot) loses memory and keeps the disk.  At     *)
(* boot initlog runs recover_from_log: read_head, install_trans(1),       *)
(* log.lh.n = 0, write_head, on an empty cache (binit).                   *)
(***************************************************************************)
Crash ==
  /\ crashes < MaxCrashes
  /\ crashes' = crashes + 1
  /\ phase' = "recover"
  /\ halted' = "none"
  /\ lh' = EmptyHead /\ outstanding' = 0 /\ committing' = 0
  /\ pc' = [p \in Procs |-> "idle"] /\ nw' = [p \in Procs |-> 0]
  /\ cphase' = "done" /\ tail' = 0
  /\ cache' = BInit
  /\ UNCHANGED <<home, logdisk, dhead, ops, latest, intent, stable>>

ReadHead ==
  /\ phase = "recover"
  /\ lh' = dhead
  /\ phase' = "rinstall" /\ tail' = 0
  /\ UNCHANGED <<home, logdisk, dhead, cache, outstanding, committing, pc, nw,
                 cphase, ops, crashes, halted, latest, intent, stable>>

RecoverClear ==
  /\ phase = "rinstall"
  /\ tail = lh.n
  /\ lh' = [lh EXCEPT !.n = 0]
  /\ dhead' = [lh EXCEPT !.n = 0]
  /\ phase' = "up"
  /\ latest' = home
  /\ UNCHANGED <<home, logdisk, cache, outstanding, committing, pc, nw, cphase,
                 tail, ops, crashes, halted, intent, stable>>

ProcStep(p) == BeginOp(p) \/ (\E b \in Blocks, v \in Vals : LogWrite(p, b, v))
               \/ EndOp(p)

CommitStep == WriteLog \/ WriteHead \/ InstallTrans \/ ClearLog \/ CommitDone

RecoverStep == ReadHead \/ RecoverClear

Next == (\E p \in Procs : ProcStep(p)) \/ CommitStep \/ RecoverStep \/ Crash

(***************************************************************************)
(* Fairness: the scheduler runs every runnable thread, and the committing *)
(* thread and boot run to completion; crashes are never forced.           *)
(***************************************************************************)
Fairness ==
  /\ \A p \in Procs : WF_vars(BeginOp(p) \/ EndOp(p))
  /\ WF_vars(CommitStep) /\ WF_vars(RecoverStep)

Spec == Init /\ [][Next]_vars /\ Fairness
-----------------------------------------------------------------------------
(***************************************************************************)
(* Crash safety.  With the on-disk header empty, the home blocks hold     *)
(* exactly the last committed transaction's contents; with it non-empty,  *)
(* each logged slot holds its block's committed contents and every other  *)
(* home block is already committed.  So recovery, from a crash at any     *)
(* point of commit or of an earlier recovery, yields that transaction,    *)
(* all of it and nothing of a later one.                                   *)
(***************************************************************************)
LogRecoverable ==
  /\ dhead.n = 0 => home = stable
  /\ dhead.n > 0 =>
       /\ \A i \in 0 .. dhead.n - 1 : logdisk[i] = stable[dhead.block[i]]
       /\ \A b \in Blocks \ Logged(dhead) : home[b] = stable[b]

(***************************************************************************)
(* The cache never serves stale data: a read of a home block, from its    *)
(* valid buffer or, when none holds it, from the disk, returns its last   *)
(* write.  A block written in a transaction is pinned by log_write until  *)
(* install_trans has written it home, so bget never recycles it while the *)
(* disk still holds an older version.                                     *)
(***************************************************************************)
ReadValue(b) ==
  LET held == {i \in Bufs : cache.buf[i].blk = b /\ cache.buf[i].valid = 1}
  IN  IF held = {} THEN home[b] ELSE cache.buf[CHOOSE i \in held : TRUE].data

CacheServesLatest == Up => \A b \in Blocks : ReadValue(b) = latest[b]

(***************************************************************************)
(* Every file-system call that enters begin_op eventually completes       *)
(* end_op (or is ended by a crash): begin_op's sleepers are woken.        *)
(***************************************************************************)
OpsFinish == \A p \in Procs : pc[p] # "idle" ~> pc[p] = "idle"

(***************************************************************************)
(* A call admitted by begin_op's reservation never makes log_write panic  *)
(* with "too big a transaction".                                           *)
(***************************************************************************)
ReservationHonoured == halted # "too big a transaction"
=============================================================================
