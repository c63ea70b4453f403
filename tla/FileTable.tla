----------------------------- MODULE FileTable -----------------------------
(***************************************************************************)
(* The file table of src/kernel/file.c: filealloc, filedup, fileclose,    *)
(* fileread and filewrite, under processes that open, dup, fork, close,   *)
(* read and write.  The system calls around them (sys_open with O_TRUNC,  *)
(* sys_dup, fork's copy of the descriptor table, sys_close) are in        *)
(* sysfile.c and proc.c, which are not in the repository, and are        *)
(* modelled from xv6's documented behaviour.                               *)
(*                                                                         *)
(* The inode layer below is reduced to what file.c sees: a reference     *)
(* count and a size per inode (Inode checks the table itself).  Sizes    *)
(* and offsets count units of filewrite's per-transaction maximum, so    *)
(* each chunk of filewrite's loop writes one unit.  Each region under    *)
(* ftable.lock, and each ilock .. iunlock region (f->off is only read    *)
(* and written under the inode's sleeplock), is one step.                *)
(***************************************************************************)
EXTENDS Integers, FiniteSets, TLC

CONSTANTS
  Procs,       \* processes
  NFILE,       \* struct file slots in ftable
  NOFILE,      \* descriptors per process
  NINODES,     \* named inodes 1 .. NINODES-1 that open may reach
  NINODE,      \* in-memory inode slots: inodes referenced at once
  MAXFILE,     \* units a file may hold (writei's MAXFILE*BSIZE check)
  MaxN,        \* largest read or write, in units
  MaxCalls     \* bound on system calls

Files == 1 .. NFILE
Fds == 0 .. NOFILE - 1
Inums == 1 .. NINODES - 1
NoFile == 0

VARIABLES
  ftab,        \* ftable.file[]: ref, type, ip, off, readable, writable
  ofile,       \* each process's descriptor table
  iref,        \* the inode layer's reference count per inode
  isize,       \* the size of each inode, in units
  pc,          \* "idle", "write" (in filewrite's loop) or "close.iput"
  wr,          \* filewrite's file, units done (i) and units asked (n)
  ff,          \* fileclose's copy (ff = *f) of the file it freed, and f
  wrote,       \* history: the units written through each open file
  nwrites,     \* history: the chunks written through each open file
  calls,
  halted

vars == <<ftab, ofile, iref, isize, pc, wr, ff, wrote, nwrites, calls, halted>>

NoneFile == [ref |-> 0, type |-> "none", ip |-> 0, off |-> 0,
             readable |-> FALSE, writable |-> FALSE]

Init ==
  /\ ftab = [f \in Files |-> NoneFile]
  /\ ofile = [p \in Procs |-> [d \in Fds |-> NoFile]]
  /\ iref = [i \in Inums |-> 0]
  /\ isize = [i \in Inums |-> 0]
  /\ pc = [p \in Procs |-> "idle"]
  /\ wr = [p \in Procs |-> [f |-> NoFile, i |-> 0, n |-> 0]]
  /\ ff = [p \in Procs |-> [f |-> NoFile, type |-> "none", ip |-> 0]]
  /\ wrote = [f \in Files |-> {}]
  /\ nwrites = [f \in Files |-> 0]
  /\ calls = 0
  /\ halted = "none"

Least(S) == CHOOSE x \in S : \A y \in S : x <= y

\* A system call starts: the process is idle and the bound allows it.
Call(p) == halted = "none" /\ pc[p] = "idle" /\ calls < MaxCalls /\ calls' = calls + 1

\* filealloc: the first slot with ref == 0 (NoFile when there is none).
filealloc(ft) ==
  LET free == {f \in Files : ft[f].ref = 0}
  IN  IF free = {} THEN NoFile ELSE Least(free)

\* fdalloc (sysfile.c): the lowest free descriptor of p, or -1.
fdalloc(p) ==
  LET free == {d \in Fds : ofile[p][d] = NoFile}
  IN  IF free = {} THEN -1 ELSE Least(free)

\* filedup: one more reference (panic "filedup" if there was none).
filedup(ft, f) == [ft EXCEPT ![f].ref = @ + 1]

\* iget as file.c sees it: panic "iget: no inodes" when NINODE other
\* inodes are referenced.
IgetFull(i) == iref[i] = 0 /\ Cardinality({j \in Inums : iref[j] > 0}) = NINODE
-----------------------------------------------------------------------------
(***************************************************************************)
(* sys_open(path, omode) of an existing inode i: namei's iget, O_TRUNC's *)
(* itrunc, then filealloc and fdalloc.  If either fails, fileclose of the *)
(* fresh FD_NONE file puts nothing and iunlockput drops the inode: -1,    *)
(* with the truncation done.  Otherwise f gets FD_INODE, ip, off 0 and    *)
(* the mode.                                                               *)
(***************************************************************************)
SysOpen(p, i, trunc, rw) ==
  LET f == filealloc(ftab)
      d == fdalloc(p)
  IN  /\ Call(p)
      /\ IF IgetFull(i)
         THEN halted' = "iget: no inodes"
              /\ UNCHANGED <<ftab, ofile, iref, isize, wrote, nwrites>>
         ELSE /\ isize' = IF trunc THEN [isize EXCEPT ![i] = 0] ELSE isize
              /\ IF f = NoFile \/ d = -1
                 THEN UNCHANGED <<ftab, ofile, iref, wrote, nwrites>>
                 ELSE /\ ftab' = [ftab EXCEPT ![f] =
                                    [ref |-> 1, type |-> "inode", ip |-> i, off |-> 0,
                                     readable |-> TRUE, writable |-> rw]]
                      /\ ofile' = [ofile EXCEPT ![p][d] = f]
                      /\ iref' = [iref EXCEPT ![i] = @ + 1]
                      /\ wrote' = [wrote EXCEPT ![f] = {}]
                      /\ nwrites' = [nwrites EXCEPT ![f] = 0]
              /\ UNCHANGED halted
      /\ UNCHANGED <<pc, wr, ff>>

\* sys_dup(fd): fdalloc, then filedup; -1 when no descriptor is free.
SysDup(p, d) ==
  LET e == fdalloc(p)
  IN  /\ Call(p) /\ ofile[p][d] # NoFile /\ e # -1
      /\ ftab' = filedup(ftab, ofile[p][d])
      /\ ofile' = [ofile EXCEPT ![p][e] = ofile[p][d]]
      /\ UNCHANGED <<iref, isize, pc, wr, ff, wrote, nwrites, halted>>

\* fork: the child q gets p's descriptors, each file filedup'ed.
Fork(p, q) ==
  LET fs == {ofile[p][d] : d \in Fds} \ {NoFile}
      cnt(f) == Cardinality({d \in Fds : ofile[p][d] = f})
  IN  /\ Call(p) /\ q # p /\ pc[q] = "idle" /\ \A d \in Fds : ofile[q][d] = NoFile
      /\ ftab' = [f \in Files |-> IF f \in fs THEN [ftab[f] EXCEPT !.ref = @ + cnt(f)]
                                   ELSE ftab[f]]
      /\ ofile' = [ofile EXCEPT ![q] = ofile[p]]
      /\ UNCHANGED <<iref, isize, pc, wr, ff, wrote, nwrites, halted>>
-----------------------------------------------------------------------------
\* Mutant: "if(--f->ref > 0)" without the decrement.
FileCloseNoDecrement(ft, f) ==
  IF ft[f].ref > 1 THEN [ft EXCEPT ![f].ref = @]
  ELSE [ft EXCEPT ![f].ref = 0, ![f].type = "none"]

\* fileclose, under ftable.lock: drop a reference; the last one frees the
\* slot (ref = 0, type = FD_NONE) after copying it to ff.
fileclose(ft, f) ==
  IF ft[f].ref > 1 THEN [ft EXCEPT ![f].ref = @ - 1]
  ELSE [ft EXCEPT ![f].ref = 0, ![f].type = "none"]

\* sys_close(fd): clear the descriptor, then fileclose; an FD_INODE copy
\* goes on to iput(ff.ip) once ftable.lock is released.
SysClose(p, d) ==
  LET f == ofile[p][d]
      last == ftab[f].ref = 1
  IN  /\ Call(p) /\ f # NoFile
      /\ ofile' = [ofile EXCEPT ![p][d] = NoFile]
      /\ ftab' = fileclose(ftab, f)
      /\ ff' = [ff EXCEPT ![p] = [f |-> f, type |-> ftab[f].type, ip |-> ftab[f].ip]]
      /\ pc' = [pc EXCEPT ![p] = IF last /\ ftab[f].type = "inode" THEN "close.iput"
                                 ELSE "idle"]
      /\ UNCHANGED <<iref, isize, wr, wrote, nwrites, halted>>

\* Mutant: iput(f->ip), reading the slot after ftable.lock was released.
CloseIputSlot(p) ==
  /\ halted = "none" /\ pc[p] = "close.iput"
  /\ iref' = [iref EXCEPT ![ftab[ff[p].f].ip] = @ - 1]
  /\ pc' = [pc EXCEPT ![p] = "idle"]
  /\ UNCHANGED <<ftab, ofile, isize, wr, ff, wrote, nwrites, calls, halted>>

\* begin_op(); iput(ff.ip); end_op().
CloseIput(p) ==
  /\ halted = "none" /\ pc[p] = "close.iput"
  /\ iref' = [iref EXCEPT ![ff[p].ip] = @ - 1]
  /\ pc' = [pc EXCEPT ![p] = "idle"]
  /\ UNCHANGED <<ftab, ofile, isize, wr, ff, wrote, nwrites, calls, halted>>
-----------------------------------------------------------------------------
(***************************************************************************)
(* fileread of n units, between ilock and iunlock: readi returns 0 past   *)
(* the end, else min(n, size - off) units, or -1 when copyout faults     *)
(* (ok = FALSE); "if(r > 0) f->off += r".                                *)
(***************************************************************************)
readi(f, n, ok) ==
  LET x == ftab[f]
      m == IF x.off > isize[x.ip] THEN 0
           ELSE IF n < isize[x.ip] - x.off THEN n ELSE isize[x.ip] - x.off
  IN  IF m > 0 /\ ~ok THEN -1 ELSE m

\* Mutant: f->off += r without "r > 0".
FileReadNoCheck(p, d, n, ok) ==
  LET f == ofile[p][d]
      r == readi(f, n, ok)
  IN  /\ Call(p) /\ f # NoFile /\ ftab[f].readable
      /\ ftab' = [ftab EXCEPT ![f].off = @ + r]
      /\ UNCHANGED <<ofile, iref, isize, pc, wr, ff, wrote, nwrites, halted>>

FileRead(p, d, n, ok) ==
  LET f == ofile[p][d]
      r == readi(f, n, ok)
  IN  /\ Call(p) /\ f # NoFile /\ ftab[f].readable
      /\ ftab' = IF r > 0 THEN [ftab EXCEPT ![f].off = @ + r] ELSE ftab
      /\ UNCHANGED <<ofile, iref, isize, pc, wr, ff, wrote, nwrites, halted>>

\* filewrite(f, n): a writable FD_INODE file enters the chunk loop.
FileWrite(p, d, n) ==
  LET f == ofile[p][d]
  IN  /\ Call(p) /\ f # NoFile /\ ftab[f].writable
      /\ pc' = [pc EXCEPT ![p] = "write"]
      /\ wr' = [wr EXCEPT ![p] = [f |-> f, i |-> 0, n |-> n]]
      /\ UNCHANGED <<ftab, ofile, iref, isize, ff, wrote, nwrites, halted>>

(***************************************************************************)
(* writei of one unit at f->off: -1 if off > size or off + 1 > MAXFILE;  *)
(* 0 if copyin faults (ok = FALSE); else 1, and the size grows to cover  *)
(* it.  iupdate follows in every case but the -1 ones.                    *)
(***************************************************************************)
writei(x, ok) ==
  IF x.off > isize[x.ip] \/ x.off + 1 > MAXFILE THEN -1
  ELSE IF ok THEN 1 ELSE 0

\* Mutant: f->off += r without "r > 0".
WriteChunkNoCheck(p, ok) ==
  LET f == wr[p].f
      x == ftab[f]
      r == writei(x, ok)
  IN  /\ halted = "none" /\ pc[p] = "write"
      /\ isize' = IF r = 1 /\ x.off + 1 > isize[x.ip]
                  THEN [isize EXCEPT ![x.ip] = x.off + 1] ELSE isize
      /\ ftab' = [ftab EXCEPT ![f].off = @ + r]
      /\ wrote' = IF r = 1 THEN [wrote EXCEPT ![f] = @ \cup {x.off}] ELSE wrote
      /\ nwrites' = IF r = 1 THEN [nwrites EXCEPT ![f] = @ + 1] ELSE nwrites
      /\ wr' = [wr EXCEPT ![p].i = @ + 1]
      /\ pc' = [pc EXCEPT ![p] = IF r # 1 \/ wr[p].i + 1 = wr[p].n THEN "idle"
                                 ELSE "write"]
      /\ UNCHANGED <<ofile, iref, ff, calls, halted>>

(***************************************************************************)
(* One turn of filewrite's loop: begin_op; ilock; writei; "if(r > 0)     *)
(* f->off += r"; iunlock; end_op; then break if r != n1, else i += r and *)
(* go on while i < n.                                                      *)
(***************************************************************************)
WriteChunk(p, ok) ==
  LET f == wr[p].f
      x == ftab[f]
      r == writei(x, ok)
  IN  /\ halted = "none" /\ pc[p] = "write"
      /\ isize' = IF r = 1 /\ x.off + 1 > isize[x.ip]
                  THEN [isize EXCEPT ![x.ip] = x.off + 1] ELSE isize
      /\ ftab' = IF r > 0 THEN [ftab EXCEPT ![f].off = @ + r] ELSE ftab
      /\ wrote' = IF r = 1 THEN [wrote EXCEPT ![f] = @ \cup {x.off}] ELSE wrote
      /\ nwrites' = IF r = 1 THEN [nwrites EXCEPT ![f] = @ + 1] ELSE nwrites
      /\ wr' = [wr EXCEPT ![p].i = @ + 1]
      /\ pc' = [pc EXCEPT ![p] = IF r # 1 \/ wr[p].i + 1 = wr[p].n THEN "idle"
                                 ELSE "write"]
      /\ UNCHANGED <<ofile, iref, ff, calls, halted>>
-----------------------------------------------------------------------------
\* Every call made and returned, or a panic: stutter.
Terminating ==
  /\ halted # "none" \/ (calls = MaxCalls /\ \A p \in Procs : pc[p] = "idle")
  /\ UNCHANGED vars

Next ==
  \/ \E p \in Procs :
       \/ \E i \in Inums, trunc, rw \in BOOLEAN : SysOpen(p, i, trunc, rw)
       \/ \E d \in Fds : SysDup(p, d) \/ SysClose(p, d)
       \/ \E q \in Procs : Fork(p, q)
       \/ CloseIput(p)
       \/ \E d \in Fds, n \in 1 .. MaxN, ok \in BOOLEAN : FileRead(p, d, n, ok)
       \/ \E d \in Fds, n \in 1 .. MaxN : FileWrite(p, d, n)
       \/ \E ok \in BOOLEAN : WriteChunk(p, ok)
  \/ Terminating

Spec == Init /\ [][Next]_vars

Perms == Permutations(Procs)
-----------------------------------------------------------------------------
\* Every variable holds a value of its intended kind.
TypeOK ==
  /\ ftab \in [Files -> [ref : 0 .. NOFILE * Cardinality(Procs),
                         type : {"none", "inode"}, ip : {0} \cup Inums,
                         off : 0 .. MAXFILE, readable : BOOLEAN, writable : BOOLEAN]]
  /\ ofile \in [Procs -> [Fds -> {NoFile} \cup Files]]
  /\ iref \in [Inums -> 0 .. NFILE + Cardinality(Procs)]
  /\ isize \in [Inums -> 0 .. MAXFILE]
  /\ calls \in 0 .. MaxCalls

(***************************************************************************)
(* filedup, fork and fileclose keep a file's ref equal to the descriptors *)
(* naming it, in every process's table.                                   *)
(***************************************************************************)
FileRefsMatchDescriptors ==
  \A f \in Files : ftab[f].ref = Cardinality({<<p, d>> \in Procs \X Fds : ofile[p][d] = f})

(***************************************************************************)
(* An inode's references are the open FD_INODE files on it, plus the     *)
(* closes that have freed such a file and not yet called iput(ff.ip):    *)
(* fileclose's copy keeps the put on the right inode even when the freed *)
(* slot is reallocated to another one first.                              *)
(***************************************************************************)
InodeRefsMatchFiles ==
  \A i \in Inums :
    iref[i] = Cardinality({f \in Files : ftab[f].ref > 0 /\ ftab[f].type = "inode"
                                         /\ ftab[f].ip = i})
              + Cardinality({p \in Procs : pc[p] = "close.iput" /\ ff[p].ip = i})

(***************************************************************************)
(* Processes sharing an open file (after fork or dup) share its offset:  *)
(* no unit of the inode is ever written twice through one open file,     *)
(* whatever the interleaving of their chunks, reads, and other opens'    *)
(* truncations.                                                            *)
(***************************************************************************)
WritesNeverOverlap ==
  \A f \in Files : Cardinality(wrote[f]) = nwrites[f]
====
