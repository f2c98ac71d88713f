-------------------------------- MODULE Escrow --------------------------------
(***************************************************************************)
(* What a bounty market promises about a reward, with no server, graph or   *)
(* chain call in sight: it is locked before the work is judged, judged      *)
(* once, and leaves the escrow once, to the side the verdict names.         *)
(*                                                                         *)
(* Orchestrator implements this escrow with runs that interleave, raise at  *)
(* any await and are lost in restarts.  A reward may stay locked for ever:  *)
(* nothing here promises that it leaves.                                    *)
(***************************************************************************)
CONSTANT Bounties

VARIABLES escrow,     \* of every bounty: none, locked, released or withdrawn
          verdict     \* of every bounty: none, pass or fail

vars == <<escrow, verdict>>

Init ==
  /\ escrow = [b \in Bounties |-> "none"]
  /\ verdict = [b \in Bounties |-> "none"]

Lock(b) ==
  /\ escrow[b] = "none" /\ verdict[b] = "none"
  /\ escrow' = [escrow EXCEPT ![b] = "locked"]
  /\ UNCHANGED verdict

(* A job that is refused before the lock is judged too.                     *)
Judge(b, v) ==
  /\ verdict[b] = "none"
  /\ escrow[b] = "locked" \/ v = "fail"
  /\ verdict' = [verdict EXCEPT ![b] = v]
  /\ UNCHANGED escrow

PayOut(b, v, to) ==
  /\ escrow[b] = "locked" /\ verdict[b] = v
  /\ escrow' = [escrow EXCEPT ![b] = to]
  /\ UNCHANGED verdict

Release(b) == PayOut(b, "pass", "released")
Withdraw(b) == PayOut(b, "fail", "withdrawn")

Next ==
  \E b \in Bounties :
    \/ Lock(b)
    \/ \E v \in {"pass", "fail"} : Judge(b, v)
    \/ Release(b) \/ Withdraw(b)

Spec == Init /\ [][Next]_vars
=============================================================================
