------------------------------ MODULE A2AWorker ------------------------------
(***************************************************************************)
(* The delivery of one A2A job by asp/a2a_worker.py.  Each attempt is a     *)
(* process that checks the wallet session, reads the job's status, fetches  *)
(* the verdict from the server, writes it to a file and has the OnchainOS   *)
(* CLI deliver the file; a supervisor runs it again when it exits non-zero. *)
(* A process may be killed at any step, with the CLI it is waiting for.     *)
(*                                                                         *)
(* The CLI and the chain are outside the repository: the CLI delivers what  *)
(* the file holds, to a job that is `accepted', which is then `submitted';  *)
(* its answer may be lost (_run gives up after 120 seconds).                *)
(***************************************************************************)
EXTENDS Naturals, Sequences

CONSTANTS
  Workers,     \* processes of the worker
  None,        \* absent data
  MaxFaults,   \* how many faults and dry runs there may be in a behaviour
  Stray        \* statuses the CLI's text may mention that the job has not had

ASSUME FaultsAssumption == MaxFaults \in Nat

VARIABLES
  job,         \* what does not change: [merit, alone]
  sealed,      \* the store has a test for the job's task
  status,      \* on chain: the job's status
  been,        \* the statuses it has had
  delivered,   \* on chain: what was delivered
  file,        \* merita-verdict-<job>.json in the temporary directory
  worker,      \* the processes
  faults       \* the faults so far

chain == <<status, been, delivered>>
vars == <<job, sealed, chain, file, worker, faults>>

-----------------------------------------------------------------------------

(* What task_status looks for in the CLI's text, in this order.             *)
Candidates == <<"accepted", "submitted", "completed", "applied", "rejected", "disputed">>

Statuses == {Candidates[i] : i \in DOMAIN Candidates}

ASSUME StrayAssumption == Stray \subseteq Statuses

(* What build_verdict_document makes: a verdict (undecided is passed=false  *)
(* with confidence 0), or a document that says why there is none.           *)
Verdicts == {"passed", "failed", "undecided"}
Documents == Verdicts \cup {"noTask", "noTest"}

(* merit: what the job's test says of the deliverable, when it can say, or  *)
(* that the event names no task.  alone: the supervisor never runs two      *)
(* processes of the job at a time.                                          *)
Jobs == [merit : {"passed", "failed", "noTask"}, alone : BOOLEAN]

Named == job.merit # "noTask"

(* deliver's message, which looks at `passed' only.                         *)
MessageFor(doc) ==
  CASE doc = "passed" -> "PASSED"
    [] doc \in {"failed", "undecided"} -> "FAILED"
    [] OTHER -> "no verdict"

Running == {"gate", "status", "fetching", "opening", "writing", "delivering"}

(* saw: the task's test was sealed when the run began, and no 404 of        *)
(* another origin has denied it.  exit: how the last run ended.             *)
Processes ==
  [pc : Running \cup {"off"}, dry : BOOLEAN, saw : BOOLEAN, doc : Documents \cup {None},
   exit : {"none", "ok", "failed"}]

Idle == [pc |-> "off", dry |-> FALSE, saw |-> FALSE, doc |-> None, exit |-> "none"]

Deliveries ==
  [by : Workers, saw : BOOLEAN, doc : Documents \cup {"torn"},
   message : {"PASSED", "FAILED", "no verdict"}]

ASSUME NoneAssumption == None \notin Documents \cup {"torn"} \cup Deliveries

Init ==
  /\ job \in Jobs
  /\ sealed \in BOOLEAN
  /\ status = "applied"
  /\ been = {"applied"}
  /\ delivered = None
  /\ file = None
  /\ worker = [p \in Workers |-> Idle]
  /\ faults = 0

Fault == faults < MaxFaults /\ faults' = faults + 1

Goto(p, step) == worker' = [worker EXCEPT ![p].pc = step]

(* main returns 0, or logs the error and returns 1.                         *)
Done(p) ==
  worker' = [worker EXCEPT ![p] = [Idle EXCEPT !.dry = worker[p].dry, !.exit = "ok"]]

ExitFailed(p) == worker' = [worker EXCEPT ![p] = [Idle EXCEPT !.exit = "failed"]]

Becomes(s) == status' = s /\ been' = been \cup {s}

-----------------------------------------------------------------------------

(* main is run for this job: by the supervisor, on the job_accepted event   *)
(* and again after a failure, or by hand; a dry run is only ever by hand.   *)
Start(p, dry) ==
  /\ worker[p].pc = "off"
  /\ job.alone => \A q \in Workers : worker[q].pc = "off"
  /\ worker' = [worker EXCEPT ![p] = [Idle EXCEPT !.pc = "gate", !.dry = dry, !.saw = sealed]]
  /\ IF dry THEN Fault ELSE UNCHANGED faults
  /\ UNCHANGED <<job, sealed, chain, file>>

GateChecked(p) ==
  /\ worker[p].pc = "gate"
  /\ Goto(p, "status")
  /\ UNCHANGED <<job, sealed, chain, file, faults>>

(* The first of a list that a text mentions.                                *)
FirstOf(list, mentioned) ==
  LET found == {i \in DOMAIN list : list[i] \in mentioned}
  IN  IF found = {} THEN "unknown"
      ELSE list[CHOOSE i \in found : \A j \in found : i <= j]

(* Mutants of StatusIn: an unreadable status is taken for the one hoped     *)
(* for; the statuses are looked for in the order a job has them.            *)
StatusInOrAccepted(mentioned) ==
  IF mentioned = {} THEN "accepted" ELSE FirstOf(Candidates, mentioned)

StatusInOldest(mentioned) == FirstOf(<<"applied">> \o Candidates, mentioned)

(* task_status: the field of a JSON answer, or the first candidate that is  *)
(* part of a text.                                                          *)
StatusIn(mentioned) == FirstOf(Candidates, mentioned)

(* What the CLI may say of the job: the status it has, alone (as JSON has   *)
(* it) or in a text with earlier ones, or with stray ones ("not yet         *)
(* accepted", an `accepted_at').                                            *)
Texts == {{status} \cup others : others \in SUBSET (been \cup Stray)}

(* The hard gate of process.  A text without a status is a fault.           *)
StatusRead(p, mentioned) ==
  /\ worker[p].pc = "status"
  /\ IF StatusIn(mentioned) = "accepted" THEN Goto(p, "fetching") ELSE ExitFailed(p)
  /\ IF mentioned = {} THEN Fault ELSE UNCHANGED faults
  /\ UNCHANGED <<job, sealed, chain, file>>

(* Mutant of Answers: nothing is made of a job without a task.              *)
AnswersOrNothing ==
  IF ~Named THEN {None} ELSE IF ~sealed THEN {"noTest"} ELSE {job.merit, "undecided"}

(* What the server's own answer makes of the job: /internal/verify knows no *)
(* test, or judges; a sandbox outage decides nothing.                       *)
Answers ==
  IF ~Named THEN {"noTask"}
  ELSE IF ~sealed THEN {"noTest"}
  ELSE {job.merit, "undecided"}

Fetched(p, doc) ==
  /\ worker[p].pc = "fetching"
  /\ worker' = [worker EXCEPT ![p].pc = "opening", ![p].doc = doc]
  /\ UNCHANGED <<job, sealed, chain, file, faults>>

(* The server is not reached in 90 seconds, refuses the token or fails; a   *)
(* job without a task is not asked about.                                   *)
FetchFails(p) ==
  /\ worker[p].pc = "fetching"
  /\ Named
  /\ ExitFailed(p)
  /\ Fault
  /\ UNCHANGED <<job, sealed, chain, file>>

(* The 404 of a host or proxy in front of the server (an instance that is   *)
(* being deployed, say) counts as "no committed acceptance test".           *)
Misrouted(p) ==
  /\ worker[p].pc = "fetching"
  /\ Named
  /\ worker' = [worker EXCEPT ![p].pc = "opening", ![p].doc = "noTest", ![p].saw = FALSE]
  /\ Fault
  /\ UNCHANGED <<job, sealed, chain, file>>

(* The wallet is logged out; the status cannot be read.                     *)
CliFails(p) ==
  /\ worker[p].pc \in {"gate", "status"}
  /\ ExitFailed(p)
  /\ Fault
  /\ UNCHANGED <<job, sealed, chain, file>>

-----------------------------------------------------------------------------
(* deliver: the file is truncated, written, and handed to the CLI.          *)

(* Mutant of Open: a document that is there already will do.                *)
OpenUnlessThere(p) ==
  /\ worker[p].pc = "opening"
  /\ IF file = None THEN file' = "torn" /\ Goto(p, "writing")
                    ELSE UNCHANGED file /\ Goto(p, "delivering")
  /\ UNCHANGED <<job, sealed, chain, faults>>

Open(p) ==
  /\ worker[p].pc = "opening"
  /\ file' = "torn"
  /\ Goto(p, "writing")
  /\ UNCHANGED <<job, sealed, chain, faults>>

Write(p) ==
  /\ worker[p].pc = "writing"
  /\ file' = worker[p].doc
  /\ IF worker[p].dry THEN Done(p) ELSE Goto(p, "delivering")
  /\ UNCHANGED <<job, sealed, chain, faults>>

(* The CLI's work: what the file holds now goes to the client.              *)
TakesEffect(p) ==
  /\ status = "accepted"
  /\ Becomes("submitted")
  /\ delivered' = [by |-> p, saw |-> worker[p].saw, doc |-> file,
                   message |-> MessageFor(worker[p].doc)]

Delivered(p) ==
  /\ worker[p].pc = "delivering"
  /\ TakesEffect(p)
  /\ Done(p)
  /\ UNCHANGED <<job, sealed, file, faults>>

(* The CLI refuses a job that is not, or no longer, accepted.               *)
Refused(p) ==
  /\ worker[p].pc = "delivering"
  /\ status # "accepted"
  /\ ExitFailed(p)
  /\ UNCHANGED <<job, sealed, chain, file, faults>>

(* Mutant of DeliverFails: the exit code of the CLI is not looked at.       *)
DeliverFailsSilently(p) ==
  /\ worker[p].pc = "delivering"
  /\ TakesEffect(p) \/ UNCHANGED chain
  /\ Done(p)
  /\ Fault
  /\ UNCHANGED <<job, sealed, file>>

(* A non-zero exit or a time-out, whether or not the job was delivered.     *)
DeliverFails(p) ==
  /\ worker[p].pc = "delivering"
  /\ TakesEffect(p) \/ UNCHANGED chain
  /\ ExitFailed(p)
  /\ Fault
  /\ UNCHANGED <<job, sealed, file>>

(* The process group is killed, or the machine goes down.                   *)
Killed(p) ==
  /\ worker[p].pc \in Running
  /\ (worker[p].pc = "delivering" /\ TakesEffect(p)) \/ UNCHANGED chain
  /\ ExitFailed(p)
  /\ Fault
  /\ UNCHANGED <<job, sealed, file>>

-----------------------------------------------------------------------------
(* The client and the poster.                                               *)

Advance ==
  /\ \E s \in Statuses :
       /\ CASE status = "applied"   -> s \in {"accepted", "rejected"}
            [] status = "submitted" -> s \in {"completed", "rejected", "disputed"}
            [] OTHER                -> FALSE
       /\ Becomes(s)
  /\ UNCHANGED <<job, sealed, delivered, file, worker, faults>>

Seal ==
  /\ ~sealed
  /\ sealed' = TRUE
  /\ UNCHANGED <<job, chain, file, worker, faults>>

-----------------------------------------------------------------------------

Proceeds(p) ==
  \/ GateChecked(p)
  \/ \E mentioned \in Texts : StatusRead(p, mentioned)
  \/ \E doc \in Answers : Fetched(p, doc)
  \/ Open(p) \/ Write(p) \/ Delivered(p) \/ Refused(p)

Fails(p) ==
  \/ CliFails(p) \/ StatusRead(p, {}) \/ FetchFails(p) \/ Misrouted(p)
  \/ DeliverFails(p) \/ Killed(p)

Next ==
  \/ \E p \in Workers : Start(p, TRUE) \/ Start(p, FALSE) \/ Proceeds(p) \/ Fails(p)
  \/ Advance \/ Seal

Spec == Init /\ [][Next]_vars

(* Every call a process makes has a time limit, and the supervisor runs a   *)
(* worker that is not running.  The client and the poster owe nothing.      *)
Fairness ==
  /\ \A p \in Workers : WF_vars(Proceeds(p))
  /\ WF_vars(\E p \in Workers : Start(p, FALSE))

FairSpec == Spec /\ Fairness

-----------------------------------------------------------------------------

(* The variables hold what their declarations say; in particular every     *)
(* document is one build_verdict_document makes, and the status is one of   *)
(* those the job has had.                                                   *)
TypeOK ==
  /\ job \in Jobs
  /\ sealed \in BOOLEAN
  /\ status \in been /\ been \subseteq Statuses
  /\ delivered = None \/ delivered \in Deliveries
  /\ file \in Documents \cup {None, "torn"}
  /\ worker \in [Workers -> Processes]
  /\ faults \in 0 .. MaxFaults

(* "Never exit 0 having done nothing" (main): a run that exits 0, unless it *)
(* was a dry run, has delivered itself, whatever other processes of the job *)
(* did meanwhile and whichever answer was lost.                             *)
ExitIsTrue ==
  \A p \in Workers :
    worker[p].exit = "ok" /\ ~worker[p].dry => delivered # None /\ delivered.by = p

(* "THE HARD GATE. Refuse to work before escrow is funded" (process): no    *)
(* verdict is fetched for a job that was never accepted, through stale      *)
(* statuses, silent texts and other processes.  It depends on the CLI's     *)
(* wording: of a job that waits, a text may mention any status but          *)
(* "accepted" ("accepted" \notin Stray); with one that does, say "not yet   *)
(* accepted", the gate opens.                                               *)
FundedFirst ==
  \A p \in Workers :
    worker[p].pc \in {"fetching", "opening", "writing", "delivering"} => "accepted" \in been

(* One process at a time: what the client gets is a whole document, and the *)
(* message beside it is about that document, although earlier runs of the   *)
(* job were killed while they wrote the same file; and the one delivery is  *)
(* not wasted on an error document when there is a test to judge by: of a   *)
(* server that is down or refuses nothing is delivered, unless somebody     *)
(* else's 404 speaks for it.                                                *)
DeliveryIsSound ==
  job.alone /\ delivered # None =>
    /\ delivered.doc \in Documents /\ delivered.message = MessageFor(delivered.doc)
    /\ Named /\ delivered.saw => delivered.doc \in Verdicts

(* "The buyer's escrow is funded and they are waiting" (DeliveryError): a   *)
(* funded job is delivered in the end, although runs failed or were killed, *)
(* and whatever else than "accepted" the CLI's text mentions.               *)
FundedJobIsDelivered == status = "accepted" ~> delivered # None

-----------------------------------------------------------------------------
(* What the documentation says and the code does not do.                    *)

(* "confidence=0.0 -> I could not decide deterministically. Escalate - do   *)
(* not punish" (server.py): no client is told FAILED of work that nobody    *)
(* could judge.                                                             *)
OutageIsNoFailure ==
  delivered # None => ~(delivered.doc = "undecided" /\ delivered.message = "FAILED")
=============================================================================
