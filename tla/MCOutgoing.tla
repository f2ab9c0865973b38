----------------------------- MODULE MCOutgoing -----------------------------
(***************************************************************************)
(* Instances for TLC of the two ways out of the service: the worker pool   *)
(* and the submissions to customs.  They share no state.  The submissions  *)
(* are explored where the pool has returned from a call that nobody        *)
(* cancelled and in which every task that can succeed did.                 *)
(***************************************************************************)
EXTENDS WorkerPool, Customs

\* The last task is for a channel without a sender.
AllButLast == 1 .. Size - 1

\* As configured: nothing set; three attempts, the second backoff of
\* which overflows Width bits; a backoff longer than the default maximum.
MCPolicies ==
  {[attempts |-> 0, backoff |-> 0, maximum |-> 0],
   [attempts |-> 3, backoff |-> 2, maximum |-> 3],
   [attempts |-> 2, backoff |-> 3, maximum |-> -1]}

-----------------------------------------------------------------------------
all == <<poolVars, vars>>

PoolEnded ==
  /\ caller = "returned" /\ ~cancelled
  /\ results = [i \in Tasks |-> IF i \in CanSend THEN "sent" ELSE "error"]

AllInit == PoolInit /\ Init

AllNext ==
  \/ /\ caller # "returned"
     /\ PoolNext
     /\ UNCHANGED vars
  \/ /\ PoolEnded
     /\ Next
     /\ UNCHANGED poolVars

\* The fairness of either specification.
AllSpec ==
  /\ AllInit
  /\ [][AllNext]_all
  /\ Fairness
  /\ \A c \in Calls : WF_vars(Step(c))
=============================================================================
