------------------------------ MODULE SysSleep ------------------------------
(***************************************************************************)
(* sys_sleep of src/kernel/sysproc.c against the clock.  ticks is a uint  *)
(* of TickBits bits, so "ticks - ticks0" is taken modulo 2^TickBits, and  *)
(* the int n it is compared with converts to that unsigned type: a       *)
(* negative n becomes a long sleep.  Each tickslock region is one step.  *)
(* The clock interrupt (ticks++, wakeup(&ticks)) and kill() are in trap.c *)
(* and proc.c, not in the repository, and are modelled from xv6's         *)
(* documented behaviour.                                                   *)
(*                                                                         *)
(* The scheduler runs a woken thread within MaxLag ticks: with 32-bit     *)
(* ticks no thread waits 2^32 ticks to run, and this bound keeps the      *)
(* model's narrow counter from wrapping while a thread waits to run.      *)
(***************************************************************************)
EXTENDS Integers

CONSTANTS
  Threads,     \* threads that call sleep(n)
  TickBits,    \* width of ticks
  Ns,          \* the arguments n that sleep is called with
  MaxLag,      \* ticks a woken thread may wait before it runs
  MaxCalls     \* bound on sleep calls

Wrap == 2 ^ TickBits
\* The C conversion of the int n to the uint it is compared with.
Unsigned(k) == k % Wrap
\* elapsed counts up to here and stops: past every bound the properties use.
Cap == Wrap + MaxLag
\* A value sys_sleep never returns: no call has returned yet.
NoResult == 1

VARIABLES
  ticks,       \* the global tick counter
  pc,          \* "idle", "asleep" (in sleep(&ticks)), "woken" (runnable)
  ticks0,      \* sys_sleep's ticks0
  n,           \* sys_sleep's n
  killed,      \* myproc()->killed
  lag,         \* ticks since a woken thread was woken
  elapsed,     \* history: ticks since the current call read ticks0
  result,      \* what the last call returned: 0, -1 or NoResult
  calls

vars == <<ticks, pc, ticks0, n, killed, lag, elapsed, result, calls>>

Init ==
  /\ ticks \in 0 .. Wrap - 1
  /\ pc = [t \in Threads |-> "idle"]
  /\ ticks0 = [t \in Threads |-> 0]
  /\ n = [t \in Threads |-> 0]
  /\ killed = [t \in Threads |-> FALSE]
  /\ lag = [t \in Threads |-> 0]
  /\ elapsed = [t \in Threads |-> 0]
  /\ result = [t \in Threads |-> NoResult]
  /\ calls = 0

(***************************************************************************)
(* One test of the loop, holding tickslock: "while(ticks - ticks0 < n)";  *)
(* inside, a killed thread releases and returns -1, any other sleeps;    *)
(* once the test fails the thread releases and returns 0.                 *)
(***************************************************************************)
\* Mutant: the test written "ticks < ticks0 + n", which wraps.
WaitingAbsolute(t0, k) == ticks < (t0 + Unsigned(k)) % Wrap

Waiting(t0, k) == (ticks - t0) % Wrap < Unsigned(k)

LoopTest(t, t0, k) ==
  /\ pc' = [pc EXCEPT ![t] = IF Waiting(t0, k) /\ ~killed[t] THEN "asleep"
                             ELSE "idle"]
  /\ result' = [result EXCEPT ![t] = IF ~Waiting(t0, k) THEN 0
                                     ELSE IF killed[t] THEN -1 ELSE NoResult]

\* sys_sleep(n): acquire(&tickslock); ticks0 = ticks; the loop's first test.
Sleep(t, k) ==
  /\ pc[t] = "idle" /\ calls < MaxCalls
  /\ ~killed[t]        \* usertrap exits a killed process before its next call
  /\ calls' = calls + 1
  /\ ticks0' = [ticks0 EXCEPT ![t] = ticks]
  /\ n' = [n EXCEPT ![t] = k]
  /\ elapsed' = [elapsed EXCEPT ![t] = 0]
  /\ LoopTest(t, ticks, k)
  /\ UNCHANGED <<ticks, killed, lag>>

\* Mutant: ticks0 is read again at every test of the loop.
RecheckResetting(t) ==
  /\ pc[t] = "woken"
  /\ ticks0' = [ticks0 EXCEPT ![t] = ticks]
  /\ LoopTest(t, ticks, n[t])
  /\ lag' = [lag EXCEPT ![t] = 0]
  /\ UNCHANGED <<ticks, n, killed, elapsed, calls>>

\* sleep() returns with tickslock held again: the loop tests once more.
Recheck(t) ==
  /\ pc[t] = "woken"
  /\ LoopTest(t, ticks0[t], n[t])
  /\ lag' = [lag EXCEPT ![t] = 0]
  /\ UNCHANGED <<ticks, ticks0, n, killed, elapsed, calls>>

\* clockintr: ticks++; wakeup(&ticks) makes every sleeper runnable.
Tick ==
  /\ \A t \in Threads : pc[t] = "woken" => lag[t] < MaxLag
  /\ ticks' = (ticks + 1) % Wrap
  /\ pc' = [t \in Threads |-> IF pc[t] = "asleep" THEN "woken" ELSE pc[t]]
  /\ lag' = [t \in Threads |-> IF pc[t] = "woken" THEN lag[t] + 1 ELSE 0]
  /\ elapsed' = [t \in Threads |-> IF pc[t] # "idle" /\ elapsed[t] < Cap
                                   THEN elapsed[t] + 1 ELSE elapsed[t]]
  /\ UNCHANGED <<ticks0, n, killed, result, calls>>

\* kill(pid): p->killed = 1, and a SLEEPING thread is made RUNNABLE.
Kill(t) ==
  /\ ~killed[t]
  /\ killed' = [killed EXCEPT ![t] = TRUE]
  /\ pc' = [pc EXCEPT ![t] = IF @ = "asleep" THEN "woken" ELSE @]
  /\ UNCHANGED <<ticks, ticks0, n, lag, elapsed, result, calls>>

Next ==
  \/ \E t \in Threads : \/ \E k \in Ns : Sleep(t, k)
                        \/ Recheck(t)
                        \/ Kill(t)
  \/ Tick

Spec == Init /\ [][Next]_vars
-----------------------------------------------------------------------------
\* Every variable holds a value of its intended kind.
TypeOK ==
  /\ ticks \in 0 .. Wrap - 1
  /\ pc \in [Threads -> {"idle", "asleep", "woken"}]
  /\ n \in [Threads -> Ns \cup {0}]
  /\ elapsed \in [Threads -> 0 .. Cap]
  /\ result \in [Threads -> {NoResult, 0, -1}]

(***************************************************************************)
(* sleep(n) returns 0 only after n ticks (n as the unsigned it is compared *)
(* as), however the counter wrapped in between and however late the      *)
(* thread ran after each wakeup.                                           *)
(***************************************************************************)
SleepsAtLeastN ==
  \A t \in Threads : pc[t] = "idle" /\ result[t] = 0 => elapsed[t] >= Unsigned(n[t])

(***************************************************************************)
(* A sleep of n >= 0 ticks is over within n + MaxLag ticks: no test of   *)
(* the loop after the n-th tick keeps it asleep.                          *)
(***************************************************************************)
SleepBounded ==
  \A t \in Threads : pc[t] # "idle" /\ n[t] >= 0 => elapsed[t] <= n[t] + MaxLag
====
