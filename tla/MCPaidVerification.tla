------------------------- MODULE MCPaidVerification -------------------------
(***************************************************************************)
(* Two buyers at a time, which is what it takes for one to disturb another; *)
(* they may share an authorization, a task and a test, or nothing.          *)
(***************************************************************************)
EXTENDS PaidVerification, TLC

(* Everything a caller can send.                                            *)
AllCalls == PossibleCalls

(* For liveness: payers of both doors on one task, and one without a body.  *)
LiveCalls ==
  {c \in PossibleCalls :
     /\ c.door \in PaidDoors /\ c.auth # None
     /\ c.door = "http" => (c.task = None <=> c.test = None)}

Symmetry == Permutations(Buyers) \cup Permutations(Auths) \cup Permutations(Tasks)
              \cup Permutations(Tests)
=============================================================================
