---------------------------- MODULE BlockDevice ----------------------------
(***************************************************************************)
(* What the block layer promises its callers (bread/bwrite through        *)
(* rw_queue): a call names a request, the device transfers that request,  *)
(* and only then does the call return.  Every call is eventually served   *)
(* and returns.                                                            *)
(***************************************************************************)
CONSTANTS
  Threads,   \* callers
  Req,       \* requests they may make
  NoReq      \* the request of a thread that has made none

VARIABLES
  req,       \* the request of each thread's current or last call
  st         \* "idle", "waiting" for its transfer, or "done" and returning

vars == <<req, st>>

Init ==
  /\ req = [t \in Threads |-> NoReq]
  /\ st = [t \in Threads |-> "idle"]

Submit(t, r) ==
  /\ st[t] = "idle"
  /\ req' = [req EXCEPT ![t] = r]
  /\ st' = [st EXCEPT ![t] = "waiting"]

Transfer(t) ==
  /\ st[t] = "waiting"
  /\ st' = [st EXCEPT ![t] = "done"]
  /\ UNCHANGED req

Return(t) ==
  /\ st[t] = "done"
  /\ st' = [st EXCEPT ![t] = "idle"]
  /\ UNCHANGED req

Next == \E t \in Threads : (\E r \in Req : Submit(t, r)) \/ Transfer(t) \/ Return(t)

Spec == Init /\ [][Next]_vars
        /\ \A t \in Threads : WF_vars(Transfer(t)) /\ WF_vars(Return(t))
=============================================================================
