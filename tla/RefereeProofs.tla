---------------------------- MODULE RefereeProofs ----------------------------
(***************************************************************************)
(* For any set of numbers a judge may answer with: what tier 1 may reject   *)
(* and pass, and in whose favour doubt is resolved.                         *)
(***************************************************************************)
EXTENDS Referee, TLAPS

-----------------------------------------------------------------------------
(* The inductive invariant: where each verdict comes from.                  *)

(* A run that answered answered as the test does for this deliverable.      *)
Speaks(behaviour, run) ==
  /\ run.passed => run.ok /\ behaviour \in {"accepts", "flaky"}
  /\ run.ok /\ ~run.passed => behaviour \in {"rejects", "raises", "flaky"}

RunsInv ==
  /\ Speaks(job.behaviour, first) /\ Speaks(job.behaviour, second)
  /\ stage \in {"first", "second"} \/ first.ok => job.revealed

(* The four ways tier 1 concludes: a reveal that does not match, no         *)
(* decision, and two runs that agree on yes or on no.                       *)
Tier1Inv ==
  \/ verdict = GoalpostsMoved /\ ~job.revealed
  \/ verdict = Undecided
  \/ verdict = Verdict(TRUE, 100, TRUE, 1) /\ BothSaid(TRUE)
  \/ verdict = Verdict(FALSE, 100, TRUE, 1) /\ BothSaid(FALSE)

(* What the judge leaves: a rejection only of a confidence not too low.     *)
Tier2Inv ==
  /\ verdict.tier = 2
  /\ ~verdict.passed => ~Less(verdict.confidence, EscalateBelow)

VerdictInv ==
  /\ stage = "decided" => Tier1Inv
  /\ stage = "final" => (Tier1Inv /\ ~Escalates) \/ Tier2Inv

IInv == TypeOK /\ RunsInv /\ VerdictInv

-----------------------------------------------------------------------------

(* Verdicts are well typed.                                                 *)
LEMMA VerdictType ==
  \A p, r \in BOOLEAN, t \in {0, 1, 2}, c \in Numbers \cup {0, 100} :
    Verdict(p, c, r, t) \in VerdictRecords
  BY DEF Verdict, VerdictRecords

(* Those that do not depend on a judge, in particular.                      *)
LEMMA FixedVerdicts ==
  {GoalpostsMoved, Undecided, JudgeFailed, NoVerdict,
   Verdict(TRUE, 100, TRUE, 1), Verdict(FALSE, 100, TRUE, 1)} \subseteq VerdictRecords
  BY VerdictType DEF GoalpostsMoved, Undecided, JudgeFailed, NoVerdict

(* What two runs are made into: an answer only if both gave it.             *)
LEMMA RunsConclude ==
  ASSUME NEW a \in Runs, NEW b \in Runs
  PROVE  \/ FromRuns(a, b) = Undecided
         \/ /\ FromRuns(a, b) = Verdict(TRUE, 100, TRUE, 1)
            /\ a.ok /\ a.passed = TRUE /\ b.ok /\ b.passed = TRUE
         \/ /\ FromRuns(a, b) = Verdict(FALSE, 100, TRUE, 1)
            /\ a.ok /\ a.passed = FALSE /\ b.ok /\ b.passed = FALSE
  BY DEF FromRuns, Runs

(* What a run says of the test.                                             *)
LEMMA RunSpeaks ==
  ASSUME NEW behaviour \in Behaviours, NEW e \in Endings(behaviour)
  PROVE  RunOnce(e) \in Runs /\ Speaks(behaviour, RunOnce(e))
<1>1. behaviour = "accepts" \/ behaviour = "flaky" \/ "true" \notin Endings(behaviour)
  BY DEF Behaviours, Decisive, Broken, Endings
<1>2. \/ behaviour \in {"rejects", "raises", "flaky"}
      \/ "false" \notin Endings(behaviour) /\ "raised" \notin Endings(behaviour)
  BY DEF Behaviours, Decisive, Broken, Endings
<1>3. RunOnce(e) \in Runs
  BY DEF RunOnce, Runs
<1>4. RunOnce(e).passed => RunOnce(e).ok /\ e = "true"
  BY DEF RunOnce
<1>5. RunOnce(e).ok /\ ~RunOnce(e).passed => e = "false" \/ e = "raised"
  BY DEF RunOnce
<1>6. RunOnce(e).passed => behaviour \in {"accepts", "flaky"}
  BY <1>1, <1>4
<1>7. RunOnce(e).ok /\ ~RunOnce(e).passed => behaviour \in {"rejects", "raises", "flaky"}
  BY <1>2, <1>5
<1> QED BY <1>3, <1>4, <1>6, <1>7 DEF Speaks

(* What the judge's answer is made into.                                    *)
LEMMA JudgeConcludes ==
  ASSUME NEW answer \in JudgeAnswers
  PROVE  /\ FromJudge(answer) \in VerdictRecords
         /\ FromJudge(answer).tier = 2
         /\ ~FromJudge(answer).passed =>
              ~Less(FromJudge(answer).confidence, EscalateBelow)
<1> DEFINE c == answer.confidence
           released == AtLeast(answer.score, ReleaseThreshold)
<1>1. c \in Numbers \cup {0, 100} /\ released \in BOOLEAN
  BY DEF JudgeAnswers, AtLeast
<1>2. CASE Less(c, EscalateBelow)
  <2>1. FromJudge(answer) = Verdict(TRUE, c, TRUE, 2)
    BY <1>2 DEF FromJudge
  <2>2. Verdict(TRUE, c, TRUE, 2) \in VerdictRecords
    BY <1>1, VerdictType
  <2> QED BY <2>1, <2>2 DEF Verdict
<1>3. CASE ~Less(c, EscalateBelow)
  <2>1. FromJudge(answer) = Verdict(released, c, TRUE, 2)
    BY <1>3 DEF FromJudge
  <2>2. Verdict(released, c, TRUE, 2) \in VerdictRecords
    BY <1>1, VerdictType
  <2> QED BY <1>3, <2>1, <2>2 DEF Verdict
<1> QED BY <1>2, <1>3

(* A conclusion of tier 1 keeps the invariant.                              *)
LEMMA Concludes ==
  ASSUME IInv, NEW v, Conclude(v), UNCHANGED first, first.ok => job.revealed,
         second' \in Runs, Speaks(job.behaviour, second'),
         v \in VerdictRecords,
         (verdict' = v) => Tier1Inv'
  PROVE  IInv'
  BY DEF IInv, TypeOK, RunsInv, Speaks, VerdictInv, Conclude

LEMMA InitInv == Init => IInv
  BY FixedVerdicts DEF Init, IInv, TypeOK, RunsInv, Speaks, VerdictInv, NotRun, Runs

(* One step per action.                                                     *)
LEMMA StepInv == IInv /\ [Next]_vars => IInv'
<1> SUFFICES ASSUME IInv, [Next]_vars PROVE IInv'
  OBVIOUS
<1> USE DEF IInv
<1>1. CASE CheckReveal
  <2>1. CASE job.revealed
    BY <1>1, <2>1 DEF CheckReveal, runs, TypeOK, RunsInv, VerdictInv
  <2>2. CASE ~job.revealed
    <3>1. Conclude(GoalpostsMoved) /\ UNCHANGED <<first, second>>
      BY <1>1, <2>2 DEF CheckReveal, runs
    <3>2. GoalpostsMoved \in VerdictRecords
      BY FixedVerdicts
    <3>3. (verdict' = GoalpostsMoved) => Tier1Inv'
      BY <2>2, <3>1 DEF Tier1Inv, Conclude
    <3> QED BY <3>1, <3>2, <3>3, Concludes DEF RunsInv, TypeOK
  <2> QED BY <2>1, <2>2
<1>2. ASSUME NEW e \in Endings(job.behaviour), FirstRun(e) PROVE IInv'
  <2>1. RunOnce(e) \in Runs /\ Speaks(job.behaviour, RunOnce(e))
    BY RunSpeaks DEF TypeOK, Jobs
  <2> QED BY <1>2, <2>1 DEF FirstRun, TypeOK, RunsInv, VerdictInv
<1>3. ASSUME NEW e \in Endings(job.behaviour), SecondRun(e) PROVE IInv'
  <2> DEFINE v == FromRuns(first, RunOnce(e))
  <2>1. /\ second' = RunOnce(e)
        /\ Conclude(v) /\ UNCHANGED first /\ stage = "second"
    BY <1>3 DEF SecondRun
  <2>2. RunOnce(e) \in Runs /\ Speaks(job.behaviour, RunOnce(e))
    BY RunSpeaks DEF TypeOK, Jobs
  <2>3. \/ v = Undecided
        \/ v = Verdict(TRUE, 100, TRUE, 1) /\ BothSaid(TRUE)'
        \/ v = Verdict(FALSE, 100, TRUE, 1) /\ BothSaid(FALSE)'
    BY <2>1, <2>2, RunsConclude DEF TypeOK, BothSaid
  <2>4. v \in VerdictRecords
    BY <2>3, FixedVerdicts
  <2>5. (verdict' = v) => Tier1Inv'
    BY <2>3 DEF Tier1Inv
  <2> HIDE DEF v
  <2> QED BY <2>1, <2>2, <2>4, <2>5, Concludes DEF RunsInv
<1>4. CASE SandboxLost
  <2>1. Undecided \in VerdictRecords
    BY FixedVerdicts
  <2>2. (verdict' = Undecided) => Tier1Inv'
    BY DEF Tier1Inv
  <2> QED BY <1>4, <2>1, <2>2, Concludes DEF SandboxLost, runs, RunsInv, TypeOK
<1>5. ASSUME NEW a \in JudgeAnswers, Adjudicate(a) PROVE IInv'
  BY <1>5, JudgeConcludes DEF Adjudicate, runs, TypeOK, RunsInv, VerdictInv, Tier2Inv
<1>6. CASE AdjudicationFails
  <2>1. JudgeFailed.tier = 2 /\ JudgeFailed.passed
    BY DEF JudgeFailed, Verdict
  <2> QED BY <1>6, <2>1, FixedVerdicts
          DEF AdjudicationFails, runs, TypeOK, RunsInv, VerdictInv, Tier2Inv
<1>7. CASE Accept
  BY <1>7 DEF Accept, runs, TypeOK, RunsInv, VerdictInv, Tier1Inv, BothSaid, Escalates
<1>8. CASE UNCHANGED vars
  BY <1>8 DEF vars, runs, TypeOK, RunsInv, VerdictInv, Tier1Inv, BothSaid, Tier2Inv,
              Escalates
<1> QED BY <1>1, <1>2, <1>3, <1>4, <1>5, <1>6, <1>7, <1>8 DEF Next

(* The inductive invariant holds.                                           *)
THEOREM InductiveInvariant == Spec => []IInv
  BY InitInv, StepInv, PTL DEF Spec

-----------------------------------------------------------------------------

(* TypeOK: every confidence is on the judge's scale.                        *)
THEOREM TypeCorrect == Spec => []TypeOK
<1>1. IInv => TypeOK
  BY DEF IInv
<1> QED BY <1>1, InductiveInvariant, PTL

(* Tier 1 rejects only what the sealed test has twice said no to.           *)
THEOREM RejectionsHold == Spec => []RejectionsAreEarned
<1>1. IInv => RejectionsAreEarned
  BY DEF IInv, RunsInv, Speaks, BothSaid, VerdictInv, Tier1Inv, Tier2Inv,
         RejectionsAreEarned, Rejected, Decided, GoalpostsMoved, Undecided, Verdict
<1> QED BY <1>1, InductiveInvariant, PTL

(* Tier 1 passes only what a test has twice said yes to, or on a false      *)
(* reveal.                                                                  *)
THEOREM PassesHold == Spec => []PassesAreEarned
<1>1. IInv => PassesAreEarned
  BY DEF IInv, RunsInv, Speaks, BothSaid, VerdictInv, Tier1Inv, Tier2Inv,
         PassesAreEarned, Decided, GoalpostsMoved, Undecided, Verdict
<1> QED BY <1>1, InductiveInvariant, PTL

(* A bounty is rejected by a test or by a judge that decided.               *)
THEOREM DoubtHolds == Spec => []DoubtFavoursTheWorker
<1>1. IInv => DoubtFavoursTheWorker
  BY DEF IInv, RunsInv, Speaks, BothSaid, VerdictInv, Tier1Inv, Tier2Inv,
         DoubtFavoursTheWorker, Escalates, GoalpostsMoved, Undecided, Verdict
<1> QED BY <1>1, InductiveInvariant, PTL
=============================================================================
