----------------------------- MODULE EscrowProofs -----------------------------
(***************************************************************************)
(* The market implements the escrow of module Escrow, for any number of     *)
(* bounties, posters, agents, rewards and faults.                           *)
(***************************************************************************)
EXTENDS OrchestratorProofs

-----------------------------------------------------------------------------
(* What the refinement needs beside the invariant of OrchestratorProofs: a  *)
(* run that has not been judged has no verdict yet.                         *)

Unjudged == {"idle", "discovering", "locking", "executing", "verifying", "adjudicating"}

VerdictInv == \A b \in Bounties : pc[b] \in Unjudged => bounty[b].verdict = "none"

Verdicts == [b \in Bounties |-> bounty[b].verdict]

(* The step gives b the verdict v, perhaps the one it has, and no other.    *)
Gives(b, v) == \A c \in Bounties : bounty'[c].verdict = IF c = b THEN v ELSE bounty[c].verdict

(* A step of one run that leads from verdict and escrow <<u, d>> to <<v, e>> *)
(* takes a step of the escrow, or none.                                     *)
Allowed(u, d, v, e) ==
  \/ v = u /\ e = d
  \/ v = u /\ u = "none" /\ d = "none" /\ e = "locked"
  \/ u = "none" /\ e = d /\ \/ v = "fail"
                            \/ v = "pass" /\ d = "locked"
  \/ v = u /\ d = "locked" /\ \/ u = "pass" /\ e = "released"
                              \/ u = "fail" /\ e = "withdrawn"

LEMMA OneRun ==
  ASSUME IInv, VerdictInv, NEW b \in Bounties, NEW p, NEW v, NEW e,
         pc' = [pc EXCEPT ![b] = p],
         Gives(b, v),
         escrow' = [escrow EXCEPT ![b] = e],
         p \in Unjudged => v = "none",
         Allowed(bounty[b].verdict, escrow[b], v, e)
  PROVE  VerdictInv' /\ [E!Next]_(E!vars)
<1>1. pc'[b] = p /\ \A c \in Bounties \ {b} : pc'[c] = pc[c]
  BY DEF IInv, TypeOK
<1>2. VerdictInv'
  BY <1>1 DEF VerdictInv, Gives
<1>3. Verdicts' = [Verdicts EXCEPT ![b] = v] /\ Verdicts[b] = bounty[b].verdict
  BY DEF Verdicts, Gives
<1>4. escrow \in [Bounties -> Escrows]
  BY DEF IInv, TypeOK, Escrows
<1>5. (v = bounty[b].verdict => Verdicts' = Verdicts) /\ (e = escrow[b] => escrow' = escrow)
  BY <1>3, <1>4 DEF Verdicts
<1>6. CASE v = bounty[b].verdict /\ e = escrow[b]
  BY <1>2, <1>5, <1>6 DEF E!vars, Verdicts
<1>7. CASE v = bounty[b].verdict /\ v = "none" /\ escrow[b] = "none" /\ e = "locked"
  <2>1. E!Lock(b)
    BY <1>3, <1>5, <1>7 DEF E!Lock, Verdicts
  <2> QED BY <1>2, <2>1 DEF E!Next
<1>8. CASE /\ bounty[b].verdict = "none" /\ e = escrow[b]
           /\ \/ v = "fail"
              \/ v = "pass" /\ escrow[b] = "locked"
  <2>1. E!Judge(b, v)
    BY <1>3, <1>5, <1>8 DEF E!Judge, Verdicts
  <2> QED BY <1>2, <1>8, <2>1 DEF E!Next
<1>9. CASE /\ v = bounty[b].verdict /\ escrow[b] = "locked"
           /\ \/ v = "pass" /\ e = "released"
              \/ v = "fail" /\ e = "withdrawn"
  <2>1. E!Release(b) \/ E!Withdraw(b)
    BY <1>3, <1>5, <1>9 DEF E!Release, E!Withdraw, E!PayOut, Verdicts
  <2> QED BY <1>2, <2>1 DEF E!Next
<1> QED BY <1>6, <1>7, <1>8, <1>9 DEF Allowed

(* The same of a step that leaves the verdicts and the escrow alone.        *)
LEMMA OneRunGoes ==
  ASSUME IInv, VerdictInv, NEW b \in Bounties, NEW p, pc' = [pc EXCEPT ![b] = p],
         \A c \in Bounties : bounty'[c].verdict = bounty[c].verdict,
         UNCHANGED escrow, p \in Unjudged => pc[b] \in Unjudged
  PROVE  VerdictInv' /\ [E!Next]_(E!vars)
<1>1. escrow' = [escrow EXCEPT ![b] = escrow[b]]
  BY DEF IInv, TypeOK
<1>2. p \in Unjudged => bounty[b].verdict = "none"
  BY DEF VerdictInv
<1>3. Allowed(bounty[b].verdict, escrow[b], bounty[b].verdict, escrow[b])
  BY DEF Allowed
<1>4. Gives(b, bounty[b].verdict)
  BY DEF Gives
<1> QED BY <1>1, <1>2, <1>3, <1>4, OneRun

-----------------------------------------------------------------------------

LEMMA InitEscrow == Init => VerdictInv /\ E!Init
<1> SUFFICES ASSUME Init PROVE VerdictInv /\ E!Init
  OBVIOUS
<1>1. \A b \in Bounties : bounty[b].verdict = "none"
  BY DEF Init, Draft
<1> QED BY <1>1 DEF Init, VerdictInv, E!Init

LEMMA GateRefines == ASSUME IInv, VerdictInv, NEW b \in Bounties, pc[b] = "discovering",
                            NEW w \in Workers, Gate(b, w)
                     PROVE  VerdictInv' /\ [E!Next]_(E!vars)
<1>1. bounty[b].verdict = "none" /\ UNCHANGED escrow
  BY DEF VerdictInv, Unjudged, Gate, chain
<1>2. escrow' = [escrow EXCEPT ![b] = escrow[b]]
  BY <1>1 DEF IInv, TypeOK
<1>3. CASE Quarantined(bounty[b].poster, w)
  <2>1. pc' = [pc EXCEPT ![b] = "sealing"]
    BY <1>3 DEF Gate, Goto
  <2>2. Gives(b, "fail")
    BY <1>3 DEF Gate, IInv, TypeOK, BountyRecords, Gives
  <2> QED BY <1>1, <1>2, <2>1, <2>2, OneRun DEF Allowed, Unjudged
<1>4. CASE ~Quarantined(bounty[b].poster, w)
  <2>1. pc' = [pc EXCEPT ![b] = "locking"]
    BY <1>4 DEF Gate, Goto
  <2>2. bounty' = [bounty EXCEPT ![b].worker = w] /\ bounty \in [Bounties -> BountyRecords]
    BY <1>4 DEF Gate, IInv, TypeOK
  <2>3. \A c \in Bounties : bounty'[c].verdict = bounty[c].verdict
    BY <2>2 DEF BountyRecords
  <2> QED BY <1>1, <2>1, <2>3, OneRunGoes DEF Unjudged
<1> QED BY <1>3, <1>4

LEMMA JudgedRefines ==
  ASSUME IInv, VerdictInv, NEW b \in Bounties, pc[b] \in {"verifying", "adjudicating"},
         NEW v \in {"pass", "fail"}, NEW rs, Judged(b, v, rs), UNCHANGED escrow
  PROVE  VerdictInv' /\ [E!Next]_(E!vars)
<1>1. bounty[b].verdict = "none" /\ escrow[b] = "locked"
  BY Known DEF VerdictInv, Unjudged, PlaceInv, Open
<1>2. escrow' = [escrow EXCEPT ![b] = escrow[b]]
  BY DEF IInv, TypeOK
<1>3. PICK p \in {"releasing", "refunding"} : pc' = [pc EXCEPT ![b] = p]
  BY DEF Judged, Goto
<1>4. Gives(b, v)
  BY DEF Judged, IInv, TypeOK, BountyRecords, Gives
<1>5. Allowed(bounty[b].verdict, escrow[b], v, escrow[b]) /\ p \notin Unjudged
  BY <1>1 DEF Allowed, Unjudged
<1> QED BY <1>2, <1>3, <1>4, <1>5, OneRun

(* The calls that move the escrow: whether they return or raise, the        *)
(* escrow is where the step says it may be, and the verdict is as before.   *)
LEMMA PaidOutRefines ==
  ASSUME IInv, VerdictInv, NEW b \in Bounties, NEW p \in {"rating", "raised"}, NEW e,
         pc' = [pc EXCEPT ![b] = p], escrow' = [escrow EXCEPT ![b] = e],
         \A c \in Bounties : bounty'[c].verdict = bounty[c].verdict,
         \/ pc[b] = "releasing" /\ e \in {"locked", "released"}
         \/ pc[b] = "refunding" /\ e \in {"locked", "withdrawn"}
  PROVE  VerdictInv' /\ [E!Next]_(E!vars)
<1>1. escrow[b] = "locked"
  BY Known DEF PlaceInv, Open
<1>2. /\ pc[b] = "releasing" => bounty[b].verdict = "pass"
      /\ pc[b] = "refunding" => bounty[b].verdict = "fail"
  BY Known DEF PlaceInv
<1>3. Gives(b, bounty[b].verdict)
  BY DEF Gives
<1>4. Allowed(bounty[b].verdict, escrow[b], bounty[b].verdict, e) /\ p \notin Unjudged
  BY <1>1, <1>2 DEF Allowed, Unjudged
<1> QED BY <1>3, <1>4, OneRun

LEMMA LocksRefines ==
  ASSUME IInv, VerdictInv, NEW b \in Bounties, NEW p \in {"executing", "raised"},
         NEW e \in {"none", "locked"}, pc[b] = "locking",
         pc' = [pc EXCEPT ![b] = p], escrow' = [escrow EXCEPT ![b] = e],
         \A c \in Bounties : bounty'[c].verdict = bounty[c].verdict
  PROVE  VerdictInv' /\ [E!Next]_(E!vars)
<1>1. bounty[b].verdict = "none" /\ escrow[b] = "none"
  BY Known DEF VerdictInv, Unjudged, PlaceInv, Untouched
<1>2. Gives(b, bounty[b].verdict)
  BY DEF Gives
<1>3. Allowed(bounty[b].verdict, escrow[b], bounty[b].verdict, e)
  BY <1>1 DEF Allowed
<1> QED BY <1>1, <1>2, <1>3, OneRun

-----------------------------------------------------------------------------

LEMMA ProceedsRefines == ASSUME IInv, VerdictInv, NEW b \in Bounties, Proceeds(b)
                         PROVE  VerdictInv' /\ [E!Next]_(E!vars)
<1>1. CASE NoWorkerFound(b)
  <2>1. \A c \in Bounties : bounty'[c].verdict = bounty[c].verdict
    BY <1>1 DEF NoWorkerFound, IInv, TypeOK, BountyRecords
  <2> QED BY <1>1, <2>1, OneRunGoes DEF NoWorkerFound, Return, Goto, chain, Unjudged
<1>2. CASE \E found \in SUBSET (Workers \ {bounty[b].poster}) \ {{}} : Discovered(b, found)
  <2>1. PICK w \in Workers : Gate(b, w) /\ pc[b] = "discovering"
    BY <1>2 DEF Discovered, Choices
  <2> QED BY <2>1, GateRefines
<1>3. CASE Locked(b)
  <2>1. \A c \in Bounties : bounty'[c].verdict = bounty[c].verdict
    BY <1>3 DEF Locked, IInv, TypeOK, BountyRecords
  <2> QED BY <1>3, <2>1, LocksRefines DEF Locked, Goto
<1>4. CASE \E a \in AceAnswers : Executed(b, a)
  <2>1. \A c \in Bounties : bounty'[c].verdict = bounty[c].verdict
    BY <1>4 DEF Executed, IInv, TypeOK, BountyRecords
  <2> QED BY <1>4, <2>1, OneRunGoes DEF Executed, Goto, Unjudged
<1>5. CASE \E v \in {"pass", "fail", "undecided"} : Verified(b, v)
  <2>1. PICK v \in {"pass", "fail", "undecided"} : Verified(b, v)
    BY <1>5
  <2>2. CASE v = "undecided"
    BY <2>1, <2>2, OneRunGoes DEF Verified, Goto, chain, Unjudged
  <2>3. CASE v # "undecided"
    BY <2>1, <2>3, JudgedRefines DEF Verified, chain
  <2> QED BY <2>2, <2>3
<1>6. CASE \E v \in {"pass", "fail"}, a \in AceAnswers : Adjudicated(b, v, a)
  BY <1>6, JudgedRefines DEF Adjudicated
<1>7. CASE Released(b)
  <2>1. \A c \in Bounties : bounty'[c].verdict = bounty[c].verdict
    BY <1>7 DEF Released, Settled, IInv, TypeOK, BountyRecords
  <2> QED BY <1>7, <2>1, PaidOutRefines DEF Released, Settled, Goto
<1>8. CASE Refunded(b)
  <2>1. \A c \in Bounties : bounty'[c].verdict = bounty[c].verdict
    BY <1>8 DEF Refunded, IInv, TypeOK, BountyRecords
  <2> QED BY <1>8, <2>1, PaidOutRefines DEF Refunded, Goto
<1>9. CASE Rated(b) \/ Sealed(b)
  BY <1>9, OneRunGoes DEF Rated, Sealed, Return, Goto, chain, Unjudged
<1> QED BY <1>1, <1>2, <1>3, <1>4, <1>5, <1>6, <1>7, <1>8, <1>9 DEF Proceeds

LEMMA FailsRefines == ASSUME IInv, VerdictInv, NEW b \in Bounties, Fails(b)
                      PROVE  VerdictInv' /\ [E!Next]_(E!vars)
<1>1. CASE AdjudicationFails(b)
  <2>1. pc[b] = "adjudicating" /\ Judged(b, "pass", {}) /\ UNCHANGED escrow
    BY <1>1 DEF AdjudicationFails
  <2> QED BY <2>1, JudgedRefines
<1>2. CASE DiscoveryFails(b) \/ ExecuteFails(b) \/ RatingFails(b)
  <2>1. pc' = [pc EXCEPT ![b] = "raised"] /\ UNCHANGED <<bounty, escrow>>
    BY <1>2 DEF DiscoveryFails, ExecuteFails, RatingFails, Raise, Goto, chain
  <2> QED BY <2>1, OneRunGoes DEF Unjudged
<1>3. CASE LockFails(b)
  <2>1. /\ pc' = [pc EXCEPT ![b] = "raised"] /\ UNCHANGED bounty /\ pc[b] = "locking"
        /\ \E e \in {"none", "locked"} : escrow' = [escrow EXCEPT ![b] = e]
    BY <1>3 DEF LockFails, Raise, Goto
  <2> QED BY <2>1, LocksRefines
<1>4. CASE ReleaseFails(b)
  <2>1. /\ pc' = [pc EXCEPT ![b] = "raised"] /\ UNCHANGED bounty /\ pc[b] = "releasing"
        /\ \E e \in {"locked", "released"} : escrow' = [escrow EXCEPT ![b] = e]
    BY <1>4 DEF ReleaseFails, Raise, Goto
  <2> QED BY <2>1, PaidOutRefines
<1>5. CASE RefundFails(b)
  <2>1. /\ pc' = [pc EXCEPT ![b] = "raised"] /\ UNCHANGED bounty /\ pc[b] = "refunding"
        /\ \E e \in {"locked", "withdrawn"} : escrow' = [escrow EXCEPT ![b] = e]
    BY <1>5 DEF RefundFails, Raise, Goto
  <2> QED BY <2>1, PaidOutRefines
<1> QED BY <1>1, <1>2, <1>3, <1>4, <1>5 DEF Fails

LEMMA NextRefines == IInv /\ VerdictInv /\ [Next]_vars => VerdictInv' /\ [E!Next]_(E!vars)
<1> SUFFICES ASSUME IInv, VerdictInv, [Next]_vars PROVE VerdictInv' /\ [E!Next]_(E!vars)
  OBVIOUS
<1>1. CASE UNCHANGED <<bounty, escrow>> /\ \A b \in Bounties : pc'[b] \in {pc[b], "lost"}
  BY <1>1 DEF VerdictInv, Unjudged, E!vars
<1>2. CASE Restart \/ UNCHANGED vars
  BY <1>1, <1>2 DEF Restart, vars, chain
<1>3. ASSUME NEW b \in Bounties, Post(b) PROVE VerdictInv' /\ [E!Next]_(E!vars)
  BY <1>3, OneRunGoes DEF Post, Goto, chain, Unjudged
<1> QED BY <1>2, <1>3, ProceedsRefines, FailsRefines DEF Next

(* Whatever the runs of the market interleave, whichever call raises and    *)
(* whenever the process restarts, every reward is locked, judged and paid   *)
(* out at most once and in this order (orchestrator.py, rails/router.py).   *)
THEOREM Refinement == Spec => ImplementsEscrow
  BY InitEscrow, NextRefines, InductiveInvariant, PTL DEF Spec, ImplementsEscrow, E!Spec

-----------------------------------------------------------------------------

(* What has been done about a reward is done: a lock is not undone, money   *)
(* that left the escrow neither comes back nor leaves on the other side,    *)
(* and the verdict it follows is not changed afterwards.                    *)
Final(b) ==
  /\ escrow[b] = "locked" => escrow'[b] # "none"
  /\ escrow[b] \in {"released", "withdrawn"} => escrow'[b] = escrow[b]
  /\ bounty[b].verdict # "none" => bounty'[b].verdict = bounty[b].verdict

RewardIsFinal == [][\A b \in Bounties : Final(b)]_vars

(* The escrow allows no other step, and the market takes only the escrow's. *)
LEMMA EscrowIsFinal ==
  ASSUME escrow \in [Bounties -> Escrows], [E!Next]_(E!vars), NEW b \in Bounties
  PROVE  Final(b)
<1>1. \A c \in Bounties : Verdicts[c] = bounty[c].verdict /\ Verdicts'[c] = bounty'[c].verdict
  BY DEF Verdicts
<1>2. ASSUME NEW c \in Bounties, E!Lock(c) PROVE Final(b)
  <2>1. escrow[c] = "none" /\ escrow' = [escrow EXCEPT ![c] = "locked"] /\ Verdicts' = Verdicts
    BY <1>2 DEF E!Lock, Verdicts
  <2> QED BY <1>1, <2>1 DEF Final
<1>3. ASSUME NEW c \in Bounties, NEW v, E!Judge(c, v) PROVE Final(b)
  <2>1. Verdicts[c] = "none" /\ Verdicts' = [Verdicts EXCEPT ![c] = v] /\ escrow' = escrow
    BY <1>3 DEF E!Judge, Verdicts
  <2>2. b # c => Verdicts'[b] = Verdicts[b]
    BY <2>1 DEF Verdicts
  <2> QED BY <1>1, <2>1, <2>2 DEF Final
<1>4. ASSUME NEW c \in Bounties, NEW v, NEW to \in {"released", "withdrawn"}, E!PayOut(c, v, to)
      PROVE  Final(b)
  <2>1. escrow[c] = "locked" /\ escrow' = [escrow EXCEPT ![c] = to] /\ Verdicts' = Verdicts
    BY <1>4 DEF E!PayOut, Verdicts
  <2> QED BY <1>1, <2>1 DEF Final
<1>5. CASE UNCHANGED E!vars
  <2>1. escrow' = escrow /\ Verdicts' = Verdicts
    BY <1>5 DEF E!vars, Verdicts
  <2> QED BY <1>1, <2>1 DEF Final
<1> QED BY <1>2, <1>3, <1>4, <1>5 DEF E!Next, E!Release, E!Withdraw

(* A reward that was released or withdrawn, and a verdict that was reached, *)
(* stay so through every exception, retry and restart of the market.        *)
THEOREM RewardFinal == Spec => RewardIsFinal
<1>1. ASSUME IInv, VerdictInv, [Next]_vars
      PROVE  VerdictInv' /\ \A b \in Bounties : Final(b)
  <2>1. escrow \in [Bounties -> Escrows]
    BY <1>1 DEF IInv, TypeOK, Escrows
  <2>2. VerdictInv' /\ [E!Next]_(E!vars)
    BY <1>1, NextRefines
  <2> QED BY <2>1, <2>2, EscrowIsFinal
<1> QED BY <1>1, InitEscrow, InductiveInvariant, PTL DEF Spec, RewardIsFinal
=============================================================================
