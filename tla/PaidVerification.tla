--------------------------- MODULE PaidVerification ---------------------------
(***************************************************************************)
(* The service as a buyer meets it: the plain HTTP door (asp/http_x402.py), *)
(* the MCP door behind the paywall (asp/paywall.py, verify_deliverable of   *)
(* asp/server.py), and the unpaid doors that serve Merita's own delivery    *)
(* worker and the browser demo (internal_verify, public_verify), all over   *)
(* one commitment store, one verifier and one facilitator.                  *)
(*                                                                         *)
(* Every call to the database, the facilitator or the verifier is a step of *)
(* its own, so that other requests, other instances of the server (a        *)
(* rolling deploy) and posters come between them.  Between two awaits of    *)
(* one instance the code cannot be interleaved; requests handled by         *)
(* different instances can.                                                 *)
(*                                                                         *)
(* The store is the ledger CommitStore implements; the facilitator's        *)
(* answers are those module Facilitator reads; a verdict is what module     *)
(* Referee ends with.                                                       *)
(***************************************************************************)
EXTENDS Naturals, FiniteSets

CONSTANTS
  Buyers,      \* callers, each with one call it may retry
  Auths,       \* signed payment authorizations
  Tasks,       \* task ids
  Tests,       \* acceptance-test sources
  DemoTask,    \* the id "demo:<second>"
  DemoTest,    \* _DEMO_TEST
  None,        \* an absent header, field or row
  Calls,       \* the calls buyers make in this instance
  MaxFaults    \* how many faults there may be in a behaviour

AllTasks == Tasks \cup {DemoTask}
AllTests == Tests \cup {DemoTest}

(* "free" is a token-bearing delivery worker or the browser demo.           *)
Doors == {"http", "mcp", "free"}
PaidDoors == {"http", "mcp"}

(* The MCP tool and the free doors take no test; the free doors no payment. *)
PossibleCalls ==
  {c \in [door : Doors, auth : Auths \cup {None}, task : Tasks \cup {None},
          test : Tests \cup {None}] :
     /\ c.door # "http" => c.test = None
     /\ c.door = "free" => c.auth = None /\ c.task # None}

ASSUME CallsAssumption == Calls \subseteq PossibleCalls
ASSUME NoneAssumption == None \notin Auths \cup AllTasks \cup AllTests
ASSUME DemoAssumption == DemoTask \notin Tasks /\ DemoTest \notin Tests
ASSUME FaultsAssumption == MaxFaults \in Nat

VARIABLES
  sealed,      \* the commitment store: the test sealed for each task
  judged,      \* what deliverables were judged against: [task, seal]
  spent,       \* the authorizations that have moved money on chain
  call,        \* the call of each buyer
  pc,          \* where its current request is
  work,        \* the local variables of the request
  reply,       \* its last answer
  log,         \* the public verdict log
  faults       \* the faults so far

store == <<sealed, judged>>
vars == <<sealed, judged, spent, call, pc, work, reply, log, faults>>

-----------------------------------------------------------------------------

Outcomes == {"pass", "fail", "undecided"}

(* task and test are what the handler works with after the demonstration    *)
(* has replaced them, rec the sealed test read, pre the `precommitted' flag, *)
(* tx whether the settlement named a transaction.  Two fields are history:  *)
(* own, that the seal of the task is this request's work, and blind, that   *)
(* the precheck could not be made.                                          *)
NoWork == [task |-> None, test |-> None, rec |-> None, pre |-> FALSE, tx |-> FALSE,
           own |-> FALSE, blind |-> FALSE]

WorkRecords == [task : AllTasks \cup {None}, test : AllTests \cup {None},
                rec : AllTests \cup {None}, pre : BOOLEAN, tx : BOOLEAN,
                own : BOOLEAN, blind : BOOLEAN]

(* charged is the field of that name, "unsaid" where an answer has none;    *)
(* paid is history: whether the buyer's money had moved by then.            *)
Kinds == {"none", "challenge", "refused", "rejected", "noTest", "error", "timeout", "verdict"}

Replies == [kind : Kinds, charged : {"yes", "no", "unknown", "unsaid"}, paid : BOOLEAN,
            outcome : Outcomes \cup {None}]

NoReply == [kind |-> "none", charged |-> "unsaid", paid |-> FALSE, outcome |-> None]

LogEntries == [task : AllTasks, seal : AllTests, outcome : Outcomes,
               auth : Auths \cup {None}, tx : BOOLEAN]

Steps == {"idle", "settling", "paid", "lookup", "seal", "reread", "tool", "verifying", "done",
          "dropped"}

InFlight == {"settling", "paid", "lookup", "seal", "reread", "tool", "verifying"}

-----------------------------------------------------------------------------

Init ==
  /\ sealed = [t \in AllTasks |-> None]
  /\ judged = {}
  /\ spent = {}
  /\ call \in [Buyers -> Calls]
  /\ pc = [b \in Buyers |-> "idle"]
  /\ work = [b \in Buyers |-> NoWork]
  /\ reply = [b \in Buyers |-> NoReply]
  /\ log = {}
  /\ faults = 0

Goto(b, step) == pc' = [pc EXCEPT ![b] = step]

Fault == faults < MaxFaults /\ faults' = faults + 1

AnswerWhen(b, kind, charged, outcome, chain) ==
  /\ Goto(b, "done")
  /\ reply' = [reply EXCEPT ![b] = [kind |-> kind, charged |-> charged,
                                    paid |-> call[b].auth \in chain, outcome |-> outcome]]

Answer(b, kind, charged, outcome) == AnswerWhen(b, kind, charged, outcome, spent)

IsSealed(t) == t # None /\ sealed[t] # None

-----------------------------------------------------------------------------
(* Posters, buyers and the chain.                                           *)

(* commit_acceptance_test or public_commit, on any instance: only the first *)
(* commit for a task changes the store (module CommitStore).  Nothing       *)
(* reserves the demonstration's ids.                                        *)
PosterCommits(t, s) ==
  /\ sealed[t] = None
  /\ sealed' = [sealed EXCEPT ![t] = s]
  /\ UNCHANGED <<judged, spent, call, pc, work, reply, log, faults>>

(* Buyer tooling that settles on chain first and sends its request later.   *)
BuyerSettles(a) ==
  /\ a \notin spent
  /\ spent' = spent \cup {a}
  /\ UNCHANGED <<store, call, pc, work, reply, log, faults>>

(* A buyer that has no verdict sends its request once more.                 *)
Retry(b) ==
  /\ \/ pc[b] = "dropped"
     \/ pc[b] = "done" /\ reply[b].kind # "verdict"
  /\ Goto(b, "idle")
  /\ work' = [work EXCEPT ![b] = NoWork]
  /\ reply' = [reply EXCEPT ![b] = NoReply]
  /\ UNCHANGED <<store, spent, call, log, faults>>

-----------------------------------------------------------------------------
(* Arrival: what happens before the first await.                            *)

Arrived(b) == work' = [work EXCEPT ![b].task = call[b].task, ![b].test = call[b].test]

(* _verify_inner: without a payment, the challenge.                         *)
HttpArrives(b) ==
  /\ pc[b] = "idle" /\ call[b].door = "http"
  /\ Arrived(b)
  /\ IF call[b].auth = None
       THEN Answer(b, "challenge", "unsaid", None)
       ELSE Goto(b, "settling") /\ UNCHANGED reply
  /\ UNCHANGED <<store, spent, call, log, faults>>

(* The paywall on a call of verify_deliverable: first the precheck, then    *)
(* the challenge or the settlement.                                         *)
Gate(b, doomed) ==
  IF doomed THEN Answer(b, "rejected", "no", None)
  ELSE IF call[b].auth = None THEN Answer(b, "challenge", "unsaid", None)
  ELSE Goto(b, "settling") /\ UNCHANGED reply

(* Mutant of McpArrives: payment first, questions later.                    *)
McpArrivesUngated(b) ==
  /\ pc[b] = "idle" /\ call[b].door = "mcp"
  /\ Arrived(b)
  /\ Gate(b, call[b].task = None)
  /\ UNCHANGED <<store, spent, call, log, faults>>

McpArrives(b) ==
  /\ pc[b] = "idle" /\ call[b].door = "mcp"
  /\ Arrived(b)
  /\ Gate(b, ~IsSealed(call[b].task))
  /\ UNCHANGED <<store, spent, call, log, faults>>

(* The database fails under the precheck, which then lets the call pass.    *)
McpArrivesUnchecked(b) ==
  /\ pc[b] = "idle" /\ call[b].door = "mcp" /\ call[b].task # None
  /\ work' = [work EXCEPT ![b].task = call[b].task, ![b].blind = TRUE]
  /\ Gate(b, FALSE)
  /\ Fault
  /\ UNCHANGED <<store, spent, call, log>>

(* internal_verify and public_verify read the record at once.               *)
FreeArrives(b) ==
  /\ pc[b] = "idle" /\ call[b].door = "free"
  /\ work' = [work EXCEPT ![b].task = call[b].task, ![b].rec = sealed[call[b].task]]
  /\ IF IsSealed(call[b].task)
       THEN Goto(b, "verifying") /\ UNCHANGED reply
       ELSE Answer(b, "noTest", "unsaid", None)
  /\ UNCHANGED <<store, spent, call, log, faults>>

(* The database fails under that read, and nobody catches it.               *)
FreeLookupFails(b) ==
  /\ pc[b] = "idle" /\ call[b].door = "free"
  /\ Answer(b, "error", "unsaid", None)
  /\ Fault
  /\ UNCHANGED <<store, spent, call, work, log>>

-----------------------------------------------------------------------------
(* Settlement: await settle_or_accept.                                      *)

Honoured(b, tx) ==
  /\ work' = [work EXCEPT ![b].tx = tx]
  /\ Goto(b, IF call[b].door = "http" THEN "paid" ELSE "tool")
  /\ UNCHANGED <<store, call, reply, log, faults>>

(* An answer that says `success' or `settled' need not name a transaction.  *)
Settles(b) ==
  /\ pc[b] = "settling" /\ call[b].auth \notin spent
  /\ spent' = spent \cup {call[b].auth}
  /\ \E tx \in BOOLEAN : Honoured(b, tx)

(* Mutant of SettledAlready: a spent authorization is refused, as it was    *)
(* before settle_or_accept.                                                 *)
SettledAlreadyRefused(b) ==
  /\ pc[b] = "settling" /\ call[b].auth \in spent
  /\ Answer(b, "refused", "unsaid", None)
  /\ UNCHANGED <<store, spent, call, work, log, faults>>

(* Already settled is as good as settled.                                   *)
SettledAlready(b) ==
  /\ pc[b] = "settling" /\ call[b].auth \in spent
  /\ \E tx \in BOOLEAN : Honoured(b, tx)
  /\ UNCHANGED spent

(* A bad signature, other terms, no balance, expired.                       *)
Declines(b) ==
  /\ pc[b] = "settling" /\ call[b].auth \notin spent
  /\ Answer(b, "refused", "unsaid", None)
  /\ UNCHANGED <<store, spent, call, work, log, faults>>

(* Mutant of FacilitatorSilent: no answer is taken for a yes.               *)
FacilitatorSilentHonoured(b) ==
  /\ pc[b] = "settling"
  /\ spent' \in {spent, spent \cup {call[b].auth}}
  /\ Goto(b, IF call[b].door = "http" THEN "paid" ELSE "tool")
  /\ Fault
  /\ UNCHANGED <<store, call, work, reply, log>>

(* The facilitator, or its answer, does not come through: refused, whether  *)
(* the settlement took place or not, and without a word on `charged'.       *)
FacilitatorSilent(b) ==
  /\ pc[b] = "settling"
  /\ spent' \in {spent, spent \cup {call[b].auth}}
  /\ AnswerWhen(b, "refused", "unsaid", None, spent')
  /\ Fault
  /\ UNCHANGED <<store, call, work, log>>

(* It answers with JSON of another shape (a list, say): the AttributeError  *)
(* is not caught before verify_http, or not at all.                         *)
FacilitatorGarbles(b) ==
  /\ pc[b] = "settling"
  /\ spent' \in {spent, spent \cup {call[b].auth}}
  /\ AnswerWhen(b, "error", IF call[b].door = "http" THEN "unknown" ELSE "unsaid", None, spent')
  /\ Fault
  /\ UNCHANGED <<store, call, work, log>>

-----------------------------------------------------------------------------
(* The HTTP door between the payment and the sandbox.                       *)

(* Mutant of IsDemo: a task without a test is let through.                  *)
IsDemoWithoutTask(b) == work[b].task = None

(* Without a task id, or without a test for an unsealed task, the request   *)
(* is turned into the demonstration.                                        *)
IsDemo(b) == work[b].task = None \/ (work[b].test = None /\ ~IsSealed(work[b].task))

ChooseDemo(b) ==
  /\ pc[b] = "paid"
  /\ work' = IF IsDemo(b)
               THEN [work EXCEPT ![b].task = DemoTask, ![b].test = DemoTest]
               ELSE work
  /\ Goto(b, "lookup")
  /\ UNCHANGED <<store, spent, call, reply, log, faults>>

LookUp(b) ==
  /\ pc[b] = "lookup"
  /\ Goto(b, IF IsSealed(work[b].task) THEN "reread" ELSE "seal")
  /\ UNCHANGED <<store, spent, call, work, reply, log, faults>>

(* Mutant of Sealing: the inline test replaces the sealed one.              *)
SealingOver(b) == [sealed EXCEPT ![work[b].task] = work[b].test]

(* store.commit of the inline test: sealed now, or already there, or        *)
(* another test stands and the ValueError is swallowed.                     *)
Sealing(b) ==
  IF IsSealed(work[b].task) THEN sealed
  ELSE [sealed EXCEPT ![work[b].task] = work[b].test]

(* Mutant of SealInline: that ValueError is an error like any other.        *)
SealInlineRaises(b) ==
  /\ pc[b] = "seal"
  /\ sealed' = Sealing(b)
  /\ IF IsSealed(work[b].task) /\ sealed[work[b].task] # work[b].test
       THEN Answer(b, "error", "unknown", None) /\ UNCHANGED work
       ELSE /\ work' = [work EXCEPT ![b].own = ~IsSealed(work[b].task)]
            /\ Goto(b, "reread")
            /\ UNCHANGED reply
  /\ UNCHANGED <<judged, spent, call, log, faults>>

SealInline(b) ==
  /\ pc[b] = "seal"
  /\ sealed' = Sealing(b)
  /\ work' = [work EXCEPT ![b].own = ~IsSealed(work[b].task)]
  /\ Goto(b, "reread")
  /\ UNCHANGED <<judged, spent, call, reply, log, faults>>

(* The database fails in the try block: commit_failed, whether the row was  *)
(* written or not; or in its `except ValueError', which is an internal      *)
(* error.                                                                   *)
SealFails(b) ==
  /\ pc[b] = "seal"
  /\ \/ /\ sealed' \in {sealed, Sealing(b)}
        /\ Answer(b, "error", "yes", None)
     \/ /\ IsSealed(work[b].task) /\ sealed[work[b].task] # work[b].test
        /\ UNCHANGED sealed
        /\ Answer(b, "error", "unknown", None)
  /\ Fault
  /\ UNCHANGED <<judged, spent, call, work, log>>

(* The second store.get, which also sets `precommitted' anew.  A seal is    *)
(* never taken back, so that it finds the record an earlier step has seen   *)
(* or written; the branches for a missing one, which all say that nothing   *)
(* was charged, are one answer here.                                        *)
ReRead(b) ==
  /\ pc[b] = "reread"
  /\ work' = [work EXCEPT ![b].rec = sealed[work[b].task], ![b].pre = IsSealed(work[b].task)]
  /\ IF IsSealed(work[b].task)
       THEN Goto(b, "verifying") /\ UNCHANGED reply
       ELSE Answer(b, "noTest", "no", None)
  /\ UNCHANGED <<store, spent, call, log, faults>>

(* verify_deliverable, once the payment is behind it.                       *)
ToolReads(b) ==
  /\ pc[b] = "tool"
  /\ work' = [work EXCEPT ![b].rec = sealed[work[b].task]]
  /\ IF IsSealed(work[b].task)
       THEN Goto(b, "verifying") /\ UNCHANGED reply
       ELSE Answer(b, "noTest", "unsaid", None)
  /\ UNCHANGED <<store, spent, call, log, faults>>

(* Mutant of DatabaseFails: an error is free of charge.                     *)
DatabaseFailsUncharged(b) ==
  /\ pc[b] \in {"paid", "lookup", "reread", "tool"}
  /\ Answer(b, "error", "no", None)
  /\ Fault
  /\ UNCHANGED <<store, spent, call, work, log>>

(* The database fails under a store.get: the unhandled exception that       *)
(* verify_http, or FastMCP, turns into an error.                            *)
DatabaseFails(b) ==
  /\ pc[b] \in {"paid", "lookup", "reread", "tool"}
  /\ Answer(b, "error", IF pc[b] = "tool" THEN "unsaid" ELSE "unknown", None)
  /\ Fault
  /\ UNCHANGED <<store, spent, call, work, log>>

-----------------------------------------------------------------------------
(* The verdict.                                                             *)

(* Mutant of Entry: the log names the test that came with the request.      *)
EntryOfInline(b, outcome) ==
  [task |-> work[b].task, seal |-> work[b].test, outcome |-> outcome,
   auth |-> call[b].auth, tx |-> work[b].tx]

Entry(b, outcome) ==
  [task |-> work[b].task, seal |-> work[b].rec, outcome |-> outcome,
   auth |-> call[b].auth, tx |-> work[b].tx]

(* The verifier answers; the verdict is logged if the log can be written,   *)
(* and is the reply either way.                                             *)
Verified(b, outcome) ==
  /\ pc[b] = "verifying"
  /\ judged' = judged \cup {[task |-> work[b].task, seal |-> work[b].rec]}
  /\ log' = log \cup {Entry(b, outcome)}
  /\ Answer(b, "verdict", IF call[b].door = "http" THEN "yes" ELSE "unsaid", outcome)
  /\ UNCHANGED <<sealed, spent, call, work, faults>>

VerifiedUnlogged(b, outcome) ==
  /\ pc[b] = "verifying"
  /\ judged' = judged \cup {[task |-> work[b].task, seal |-> work[b].rec]}
  /\ Answer(b, "verdict", IF call[b].door = "http" THEN "yes" ELSE "unsaid", outcome)
  /\ Fault
  /\ UNCHANGED <<sealed, spent, call, work, log>>

(* wait_for gives up: only the HTTP door has this limit of its own.         *)
TimedOut(b) ==
  /\ pc[b] = "verifying" /\ call[b].door = "http"
  /\ Answer(b, "timeout", "yes", None)
  /\ Fault
  /\ UNCHANGED <<store, spent, call, work, log>>

(* The server restarts or the connection is reset: no answer at all.        *)
Dropped(b) ==
  /\ pc[b] \in InFlight
  /\ Goto(b, "dropped")
  /\ Fault
  /\ UNCHANGED <<store, spent, call, work, reply, log>>

-----------------------------------------------------------------------------

Arrives(b) == HttpArrives(b) \/ McpArrives(b) \/ FreeArrives(b)

Proceeds(b) ==
  \/ Settles(b) \/ SettledAlready(b) \/ Declines(b)
  \/ ChooseDemo(b) \/ LookUp(b) \/ SealInline(b) \/ ReRead(b) \/ ToolReads(b)
  \/ \E o \in Outcomes : Verified(b, o)

Fails(b) ==
  \/ McpArrivesUnchecked(b) \/ FreeLookupFails(b)
  \/ FacilitatorSilent(b) \/ FacilitatorGarbles(b)
  \/ DatabaseFails(b) \/ SealFails(b)
  \/ \E o \in Outcomes : VerifiedUnlogged(b, o)
  \/ TimedOut(b)
  \/ Dropped(b)

Next ==
  \/ \E t \in AllTasks, s \in Tests : PosterCommits(t, s)
  \/ \E a \in Auths : BuyerSettles(a)
  \/ \E b \in Buyers : Retry(b) \/ Arrives(b) \/ Proceeds(b) \/ Fails(b)

Spec == Init /\ [][Next]_vars

(* Requests that were accepted go on, because every await in them ends (the *)
(* clients have timeouts); a buyer without a verdict tries again.  Nobody   *)
(* is obliged to commit a test, to settle, or to fail.                      *)
Fairness == \A b \in Buyers : WF_vars(Retry(b)) /\ WF_vars(Arrives(b)) /\ WF_vars(Proceeds(b))

FairSpec == Spec /\ Fairness

-----------------------------------------------------------------------------

(* Every request is at one of its awaits and every answer and log entry     *)
(* has the shape the doors and record_verdict give it.                      *)
TypeOK ==
  /\ sealed \in [AllTasks -> AllTests \cup {None}]
  /\ judged \subseteq [task : AllTasks, seal : AllTests]
  /\ spent \subseteq Auths
  /\ call \in [Buyers -> Calls]
  /\ pc \in [Buyers -> Steps]
  /\ work \in [Buyers -> WorkRecords]
  /\ reply \in [Buyers -> Replies]
  /\ log \subseteq LogEntries
  /\ faults \in 0 .. MaxFaults

Verdict(b) == pc[b] = "done" /\ reply[b].kind = "verdict"

(* No verdict leaves a paid door, and none is logged there, unless the      *)
(* buyer's money has moved: settle_or_accept stands before the sandbox on   *)
(* both, and no retry, lost answer or failing database gets around it.      *)
NoVerdictUnpaid ==
  /\ \A b \in Buyers : Verdict(b) /\ call[b].door \in PaidDoors => call[b].auth \in spent
  /\ \A e \in log : e.tx => e.auth \in spent

(* What verify_http says of the buyer's money is true, and a payer is left  *)
(* without a `yes' only by a failure: a refusal after the facilitator's     *)
(* answer was lost, or an internal error, which tells it to look at the     *)
(* chain.  No interleaving with posters, other buyers or another instance   *)
(* leaves it so.  ("every path out of this handler returns .. `charged`" is *)
(* not what the code does: the refusal has none.)                           *)
PayerIsTold ==
  \A b \in Buyers : call[b].door = "http" =>
    /\ reply[b].charged = "yes" => reply[b].paid
    /\ reply[b].charged = "no" => ~reply[b].paid
    /\ reply[b].paid /\ reply[b].charged # "yes" =>
         faults > 0 /\ reply[b].kind \in {"refused", "error"}

(* Every verdict and every log entry, of whichever door, is about the test  *)
(* sealed for its task: no inline test, however it races with posters and   *)
(* other buyers, is judged in place of a sealed one.                        *)
VerdictBindsSeal ==
  /\ \A e \in log : e.seal = sealed[e.task]
  /\ \A b \in Buyers :
       pc[b] = "verifying" \/ Verdict(b) => work[b].rec = sealed[work[b].task]
                                            /\ work[b].rec # None

(* "Never charge for a call that cannot produce a result" (paywall.py): a   *)
(* paid MCP call is told that there is no test only if the precheck itself  *)
(* could not be made.                                                       *)
PrecheckedIsJudged ==
  \A b \in Buyers : call[b].door = "mcp" /\ reply[b].kind = "noTest" => work[b].blind

(* A paid request of the HTTP door is judged, whatever is missing from its  *)
(* body and whoever seals its task meanwhile: without a fault it ends with  *)
(* a verdict or with the facilitator's refusal.                             *)
PaidHttpIsJudged ==
  \A b \in Buyers : call[b].door = "http" /\ call[b].auth # None =>
    /\ reply[b].kind \in {"none", "refused", "verdict", "error", "timeout"}
    /\ reply[b].kind \in {"error", "timeout"} => faults > 0

Ledger == INSTANCE SealedLedger
            WITH Tasks <- AllTasks, Seals <- AllTests, Unsealed <- None, promised <- {}

(* The doors, whatever they interleave, use the store as the ledger that    *)
(* CommitStore implements: one seal a task, verdicts against nothing else.  *)
(* (What posters are told is CommitStore's side of it.)                     *)
ImplementsLedger == Ledger!Spec

(* A buyer whose money has moved gets its verdict in the end, if it keeps   *)
(* asking: at the HTTP door always, at the MCP door once the task is sealed *)
(* ("paid three times, zero verdicts" is the bug settle_or_accept removed). *)
PayerGetsVerdict ==
  \A b \in Buyers :
    (/\ call[b].door \in PaidDoors
     /\ call[b].auth \in spent
     /\ call[b].door = "mcp" => IsSealed(call[b].task)) ~> Verdict(b)

-----------------------------------------------------------------------------
(* What comments in the code say and the code does not do.                  *)

(* "`precommitted' .. false -- the test arrived with the deliverable"       *)
(* (http_x402.py, on the two modes): no verdict on a test that this very    *)
(* request sealed says that it was committed in advance.                    *)
PrecommittedMeansSealedBefore ==
  \A b \in Buyers : Verdict(b) /\ work[b].pre => ~work[b].own
=============================================================================
