------------------------------- MODULE Referee -------------------------------
(***************************************************************************)
(* One judgement, from the revealed test to the verdict that moves money:   *)
(* the two sandboxed runs of referee/tier1.py, the clients that stand       *)
(* between a door and the sandbox (asp/verify_client.py, referee/client.py, *)
(* referee/service.py), and, for bounties only, the adjudication of         *)
(* referee/tier2.py when the first tier says "I don't know".                *)
(*                                                                         *)
(* A test is known by what check() does with the deliverable at hand; the   *)
(* host adds what it may do to any run: kill it at a limit, let it run into *)
(* the wall clock, fail to drop privileges, or be unreachable.              *)
(***************************************************************************)
EXTENDS Integers

CONSTANTS
  Percents,   \* the numbers a judge may answer with, in per cent
  NaN         \* float("nan"), which compares false with everything

ASSUME NumbersAssumption == Percents \subseteq Int /\ NaN \notin Int

VARIABLES
  job,        \* the case: what the test does, whether the reveal matches, who asks
  stage,      \* how far the judgement is
  first,      \* the first sandbox run, once there is one
  second,     \* the second
  verdict     \* the verdict so far

runs == <<first, second>>
vars == <<job, stage, runs, verdict>>

-----------------------------------------------------------------------------
(* What a test can be for a deliverable.                                    *)

Decisive == {"accepts", "rejects"}
Broken   == {"unloadable", "exhausts", "crashes", "hangs", "garbles"}
Behaviours == Decisive \cup Broken \cup {"flaky", "raises"}

(* asp: a paying caller; brain: a bounty, where tier 2 takes over.          *)
Jobs == [behaviour : Behaviours, revealed : BOOLEAN, asker : {"asp", "brain"}]

(* What one process of the harness ends with: a printed result (accepted,   *)
(* rejected or raised), a printed refusal, an exit code that is not 0, the  *)
(* wall clock, an unreadable output, or the refusal to run uncontained.     *)
Endings(behaviour) ==
  {"killed", "overtime", "uncontained"} \cup
  CASE behaviour = "accepts"    -> {"true"}
    [] behaviour = "rejects"    -> {"false"}
    [] behaviour = "flaky"      -> {"true", "false"}
    [] behaviour = "raises"     -> {"raised"}
    [] behaviour = "unloadable" -> {"notLoaded"}
    [] behaviour = "exhausts"   -> {"outOfMemory"}
    [] behaviour = "crashes"    -> {}
    [] behaviour = "hangs"      -> {}
    [] behaviour = "garbles"    -> {"unreadable"}

NotRun == [ok |-> FALSE, passed |-> FALSE, ran |-> FALSE]

(* Mutant of RunOnce: whatever the process ends with is an answer.          *)
RunOnceAlwaysAnswers(ending) == [ok |-> TRUE, passed |-> ending = "true", ran |-> TRUE]

(* _run_once: ok says the test gave an answer, passed what it was.  A check *)
(* that raises has answered "no".                                           *)
RunOnce(ending) ==
  [ok     |-> ending \in {"true", "false", "raised"},
   passed |-> ending = "true",
   ran    |-> TRUE]

Runs == [ok : BOOLEAN, passed : BOOLEAN, ran : BOOLEAN]

-----------------------------------------------------------------------------
(* Verdicts; the confidence is a percentage.                                *)

Verdict(passed, confidence, revealValid, tier) ==
  [passed |-> passed, confidence |-> confidence, revealValid |-> revealValid, tier |-> tier]

NoVerdict == Verdict(FALSE, 0, TRUE, 0)

(* Mutant of Undecided: "I could not decide" passes.                        *)
UndecidedPasses == Verdict(TRUE, 0, TRUE, 1)

(* "I could not decide": what both clients make of any exception, and tier1 *)
(* of a test that did not run or disagreed with itself.                     *)
Undecided == Verdict(FALSE, 0, TRUE, 1)

(* Mutants of FromRuns: the first of two answers decides, whatever the      *)
(* second is; the confidence is a fraction.                                 *)
FromRunsFirst(a, b) ==
  IF ~a.ok \/ ~b.ok THEN Undecided ELSE Verdict(a.passed, 100, TRUE, 1)

FromRunsFraction(a, b) ==
  IF ~a.ok \/ ~b.ok \/ a.passed # b.passed
    THEN Undecided
    ELSE Verdict(a.passed, 1, TRUE, 1)

(* tier1.verify, on two runs.                                               *)
FromRuns(a, b) ==
  IF ~a.ok \/ ~b.ok \/ a.passed # b.passed
    THEN Undecided
    ELSE Verdict(a.passed, 100, TRUE, 1)

(* A reveal that does not match rules for the worker, unseen.               *)
GoalpostsMoved == Verdict(TRUE, 100, FALSE, 1)

ReleaseThreshold == 70
EscalateBelow == 45

Numbers == Percents \cup {NaN}

VerdictRecords ==
  [passed : BOOLEAN, confidence : Numbers \cup {0, 100}, revealValid : BOOLEAN, tier : 0 .. 2]

Less(x, y) == x # NaN /\ x < y
AtLeast(x, y) == x # NaN /\ x >= y

JudgeAnswers == [score : Numbers, confidence : Numbers]

(* tier2.adjudicate on the judge's answer.                                  *)
FromJudge(answer) ==
  IF Less(answer.confidence, EscalateBelow)
    THEN Verdict(TRUE, answer.confidence, TRUE, 2)
    ELSE Verdict(AtLeast(answer.score, ReleaseThreshold), answer.confidence, TRUE, 2)

(* Mutant of JudgeFailed: an unreachable judge fails the worker.            *)
JudgeFailedRejects == Verdict(FALSE, 0, TRUE, 2)

(* The judge cannot be reached, or what it says cannot be read.             *)
JudgeFailed == Verdict(TRUE, 0, TRUE, 2)

-----------------------------------------------------------------------------

Init ==
  /\ job \in Jobs
  /\ stage = "reveal"
  /\ first = NotRun /\ second = NotRun
  /\ verdict = NoVerdict

Conclude(v) ==
  /\ verdict' = v
  /\ stage' = "decided"
  /\ UNCHANGED job

CheckReveal ==
  /\ stage = "reveal"
  /\ IF job.revealed
       THEN stage' = "first" /\ UNCHANGED <<job, runs, verdict>>
       ELSE Conclude(GoalpostsMoved) /\ UNCHANGED runs

FirstRun(ending) ==
  /\ stage = "first"
  /\ ending # "uncontained"
  /\ first' = RunOnce(ending)
  /\ stage' = "second"
  /\ UNCHANGED <<job, second, verdict>>

SecondRun(ending) ==
  /\ stage = "second"
  /\ ending # "uncontained"
  /\ second' = RunOnce(ending)
  /\ Conclude(FromRuns(first, second'))
  /\ UNCHANGED first

(* SandboxUnavailable is raised (and becomes a 503 of the service), the     *)
(* service cannot be reached, or it answers too late: the client's except.  *)
SandboxLost ==
  /\ stage \in {"reveal", "first", "second"}
  /\ Conclude(Undecided)
  /\ UNCHANGED runs

(* verify_and_settle: confidence 0 with a valid reveal goes to tier 2.      *)
Escalates == job.asker = "brain" /\ verdict.confidence = 0 /\ verdict.revealValid

Adjudicate(answer) ==
  /\ stage = "decided"
  /\ Escalates
  /\ verdict' = FromJudge(answer)
  /\ stage' = "final"
  /\ UNCHANGED <<job, runs>>

AdjudicationFails ==
  /\ stage = "decided"
  /\ Escalates
  /\ verdict' = JudgeFailed
  /\ stage' = "final"
  /\ UNCHANGED <<job, runs>>

Accept ==
  /\ stage = "decided"
  /\ ~Escalates
  /\ stage' = "final"
  /\ UNCHANGED <<job, runs, verdict>>

Next ==
  \/ CheckReveal
  \/ \E e \in Endings(job.behaviour) : FirstRun(e) \/ SecondRun(e)
  \/ SandboxLost
  \/ \E a \in JudgeAnswers : Adjudicate(a)
  \/ AdjudicationFails
  \/ Accept

Spec == Init /\ [][Next]_vars

-----------------------------------------------------------------------------

(* The variables hold what their declarations say; in particular every      *)
(* confidence is a number on the judge's scale.                             *)
TypeOK ==
  /\ job \in Jobs
  /\ stage \in {"reveal", "first", "second", "decided", "final"}
  /\ first \in Runs /\ second \in Runs
  /\ verdict \in VerdictRecords

Decided == stage \in {"decided", "final"}

(* The escrow goes back to the poster, or the caller is told to reject.     *)
Rejected == Decided /\ ~verdict.passed /\ verdict.confidence # 0

(* What both runs of the test said.                                         *)
BothSaid(answer) ==
  /\ first.ok /\ first.passed = answer
  /\ second.ok /\ second.passed = answer

(* Tier 1 rejects only what the sealed test has twice said no to: whatever  *)
(* the host, the service or the network does to either run ("an honest      *)
(* worker must never be rejected because our container was OOM-killed",     *)
(* asp/verify_client.py), whatever else than answer the test does, and      *)
(* never on two answers that differ ("never slash on our own flakiness",    *)
(* tier1.verify).                                                           *)
RejectionsAreEarned ==
  Rejected /\ verdict.tier # 2
    => /\ job.revealed /\ job.behaviour \in {"rejects", "raises", "flaky"}
       /\ BothSaid(FALSE)

(* Infrastructure that falls over never turns into a silent pass either,    *)
(* nor does one lucky run: a pass in tier 1 means that two runs said yes,   *)
(* or that the poster's reveal failed.                                      *)
PassesAreEarned ==
  Decided /\ verdict.passed /\ verdict.tier = 1
    => (BothSaid(TRUE) /\ job.behaviour \in {"accepts", "flaky"}) \/ ~job.revealed

(* A bounty that ends with a rejection had a judge or a test that decided:  *)
(* an unreachable sandbox or judge, an unreadable answer or a confidence    *)
(* below the threshold always ends in favour of the worker.                 *)
DoubtFavoursTheWorker ==
  stage = "final" /\ job.asker = "brain" /\ ~verdict.passed
    => \/ verdict.tier = 1 /\ job.behaviour \in {"rejects", "raises", "flaky"}
       \/ verdict.tier = 2 /\ ~Less(verdict.confidence, EscalateBelow)

(* "We never slash a worker because the poster wrote a test that blows up"  *)
(* (referee/tier1.py, _run_once).                                           *)
NoSlashForATestThatBlowsUp ==
  job.behaviour \in Broken \cup {"raises"} /\ Rejected => verdict.tier = 2
=============================================================================
