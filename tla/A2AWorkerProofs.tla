--------------------------- MODULE A2AWorkerProofs ---------------------------
(***************************************************************************)
(* For any number of worker processes and faults: what a run that exits 0   *)
(* has done, on what the funding gate depends, and what the client gets.    *)
(***************************************************************************)
EXTENDS A2AWorker, TLAPS

-----------------------------------------------------------------------------
(* The inductive invariant.                                                 *)

(* What a process knows of the document it carries: from the fetch on there *)
(* is one, and it is a verdict if the test was there when the run began     *)
(* (no step ever unseals it).                                               *)
DocInv(p) ==
  /\ worker[p].saw => sealed
  /\ worker[p].pc \in {"opening", "writing", "delivering"} =>
       /\ worker[p].doc \in Documents
       /\ Named /\ worker[p].saw => worker[p].doc \in Verdicts
  /\ worker[p].pc \in {"writing", "delivering"} => file # None

(* Alone, a process delivers what it has written itself.                    *)
AloneInv(p) ==
  /\ worker[p].pc # "off" => \A q \in Workers \ {p} : worker[q].pc = "off"
  /\ worker[p].pc = "delivering" => file = worker[p].doc

(* A job is delivered once: it is not accepted any more afterwards.         *)
OnceInv == delivered # None => status \notin {"applied", "accepted"}

(* A process past the gate works on a job that was accepted, or the texts   *)
(* of the CLI may say so of any job.                                        *)
Gated == "accepted" \in been \cup Stray

GateInv ==
  \A p \in Workers :
    worker[p].pc \in {"fetching", "opening", "writing", "delivering"} => Gated

IInv ==
  /\ TypeOK /\ ExitIsTrue /\ GateInv /\ OnceInv /\ DeliveryIsSound
  /\ \A p \in Workers : DocInv(p) /\ (job.alone => AloneInv(p))

-----------------------------------------------------------------------------

(* task_status finds only what the text mentions.                           *)
LEMMA StatusIsMentioned ==
  ASSUME NEW mentioned, StatusIn(mentioned) = "accepted"
  PROVE  "accepted" \in mentioned
<1> DEFINE found == {i \in DOMAIN Candidates : Candidates[i] \in mentioned}
           least == CHOOSE i \in found : \A j \in found : i <= j
<1>1. found # {}
  BY DEF StatusIn, FirstOf
<1>2. found \subseteq 1 .. 6
  BY DEF Candidates
<1>3. \E i \in found : \A j \in found : i <= j
  <2> HIDE DEF found
  <2>1. ASSUME NEW i \in found, \A j \in 1 .. 6 : j < i => j \notin found
        PROVE  \A j \in found : i <= j
    BY <1>2, <2>1
  <2>2. 1 \in found \/ 2 \in found \/ 3 \in found \/ 4 \in found \/ 5 \in found \/ 6 \in found
    <3>1. PICK i : i \in found
      BY <1>1
    <3>2. i = 1 \/ i = 2 \/ i = 3 \/ i = 4 \/ i = 5 \/ i = 6
      BY <1>2, <3>1
    <3> QED BY <3>1, <3>2
  <2>3. CASE 1 \in found
    BY <2>1, <2>3
  <2>4. CASE 1 \notin found /\ 2 \in found
    BY <2>1, <2>4
  <2>5. CASE {1, 2} \cap found = {} /\ 3 \in found
    BY <2>1, <2>5
  <2>6. CASE {1, 2, 3} \cap found = {} /\ 4 \in found
    BY <2>1, <2>6
  <2>7. CASE {1, 2, 3, 4} \cap found = {} /\ 5 \in found
    BY <2>1, <2>7
  <2>8. CASE {1, 2, 3, 4, 5} \cap found = {} /\ 6 \in found
    BY <2>1, <2>8
  <2> QED BY <2>2, <2>3, <2>4, <2>5, <2>6, <2>7, <2>8
<1>4. least \in found
  BY <1>3
<1>5. Candidates[least] = "accepted"
  BY <1>1 DEF StatusIn, FirstOf
<1> QED BY <1>4, <1>5

(* And finds "accepted" before all others.                                  *)
LEMMA AcceptedIsFound ==
  ASSUME NEW mentioned, "accepted" \in mentioned
  PROVE  StatusIn(mentioned) = "accepted"
<1> DEFINE found == {i \in DOMAIN Candidates : Candidates[i] \in mentioned}
           least == CHOOSE i \in found : \A j \in found : i <= j
<1>1. found \subseteq 1 .. 6 /\ 1 \in found
  BY DEF Candidates
<1>2. least \in found /\ \A j \in found : least <= j
  <2> HIDE DEF found
  <2>1. \A j \in found : 1 <= j
    BY <1>1
  <2> QED BY <1>1, <2>1
<1>3. StatusIn(mentioned) = Candidates[least]
  BY <1>1 DEF StatusIn, FirstOf
<1>4. least = 1
  <2> HIDE DEF found, least
  <2> QED BY <1>1, <1>2
<1> QED BY <1>3, <1>4 DEF Candidates

LEMMA MessageType ==
  \A d \in Documents \cup {None} : MessageFor(d) \in {"PASSED", "FAILED", "no verdict"}
  BY NoneAssumption DEF MessageFor, Documents, Verdicts

LEMMA InitInv == Init => IInv
<1> SUFFICES ASSUME Init PROVE IInv
  OBVIOUS
<1>1. Idle \in Processes
  BY DEF Idle, Processes, Running
<1>2. TypeOK
  BY <1>1, FaultsAssumption DEF Init, TypeOK, Statuses, Candidates
<1>3. \A p \in Workers : worker[p] = Idle
  BY DEF Init
<1> QED BY <1>2, <1>3 DEF Init, IInv, ExitIsTrue, GateInv, OnceInv, DeliveryIsSound,
                          DocInv, AloneInv, Idle, Running

(* A step of process p that leaves the chain and the file alone.            *)
Moves(p, w) == worker' = [worker EXCEPT ![p] = w]

(* What such a step must keep to keep the invariant.                        *)
Sound(p, w) ==
  /\ w \in Processes
  /\ w.exit = "ok" /\ ~w.dry => delivered' # None /\ delivered'.by = p
  /\ w.pc \in {"fetching", "opening", "writing", "delivering"} => Gated
  /\ w.saw => sealed
  /\ w.pc \in {"opening", "writing", "delivering"} =>
       /\ w.doc \in Documents
       /\ Named /\ w.saw => w.doc \in Verdicts
  /\ w.pc \in {"writing", "delivering"} => file' # None
  /\ w.pc # "off" /\ job.alone => \A q \in Workers \ {p} : worker[q].pc = "off"
  /\ w.pc = "delivering" /\ job.alone => file' = w.doc

LEMMA ProcessStep ==
  ASSUME IInv, NEW p \in Workers, NEW w, Moves(p, w), Sound(p, w),
         UNCHANGED <<job, sealed, chain>>, UNCHANGED file \/ file' \in Documents \cup {"torn"},
         faults' \in 0 .. MaxFaults,
         job.alone /\ worker[p].pc = "off" => UNCHANGED file
  PROVE  IInv'
<1>1. /\ worker'[p] = w
      /\ \A q \in Workers \ {p} : worker'[q] = worker[q]
      /\ worker' \in [Workers -> Processes]
  BY DEF Moves, Sound, IInv, TypeOK
<1>2. TypeOK'
  BY <1>1 DEF IInv, TypeOK, chain
<1>3. ExitIsTrue'
  BY <1>1 DEF IInv, ExitIsTrue, Sound, chain
<1>4. GateInv'
  BY <1>1 DEF IInv, GateInv, Gated, Sound, chain
<1>5. OnceInv' /\ DeliveryIsSound'
  BY DEF IInv, OnceInv, DeliveryIsSound, chain, Named
<1>6. ASSUME NEW q \in Workers PROVE DocInv(q)'
  BY <1>1, NoneAssumption DEF IInv, DocInv, Sound, Named
<1>7. ASSUME NEW q \in Workers, job.alone PROVE AloneInv(q)'
  <2>1. CASE q = p
    BY <1>1, <1>7, <2>1 DEF AloneInv, Sound
  <2>2. CASE q # p
    BY <1>1, <1>7, <2>2 DEF IInv, AloneInv, Sound
  <2> QED BY <2>1, <2>2
<1> QED BY <1>2, <1>3, <1>4, <1>5, <1>6, <1>7 DEF IInv

(* The CLI's work, and the end of the process in the same step.             *)
LEMMA DeliveryStep ==
  ASSUME IInv, NEW p \in Workers, worker[p].pc = "delivering", TakesEffect(p),
         NEW w \in Processes, Moves(p, w), w.pc = "off", ~w.saw,
         UNCHANGED <<job, sealed, file>>, faults' \in 0 .. MaxFaults
  PROVE  IInv'
<1>1. /\ worker'[p] = w
      /\ \A q \in Workers \ {p} : worker'[q] = worker[q]
      /\ worker' \in [Workers -> Processes]
  BY DEF Moves, IInv, TypeOK
<1>2. /\ worker[p] \in Processes
      /\ DocInv(p)
      /\ MessageFor(worker[p].doc) \in {"PASSED", "FAILED", "no verdict"}
  <2>1. worker[p] \in Processes /\ DocInv(p)
    BY DEF IInv, TypeOK
  <2>2. worker[p].doc \in Documents \cup {None}
    BY <2>1 DEF Processes
  <2> QED BY <2>1, <2>2, MessageType
<1>3. /\ status = "accepted" /\ status' = "submitted" /\ been' = been \cup {"submitted"}
      /\ delivered' = [by |-> p, saw |-> worker[p].saw, doc |-> file,
                       message |-> MessageFor(worker[p].doc)]
  BY DEF TakesEffect, Becomes
<1>4. delivered = None
  BY <1>3 DEF IInv, OnceInv
<1>5. delivered' \in Deliveries
  BY <1>2, <1>3 DEF DocInv, Deliveries, IInv, TypeOK, Processes
<1>6. /\ delivered'.by = p /\ delivered'.doc = file /\ delivered'.saw = worker[p].saw
      /\ delivered'.message = MessageFor(worker[p].doc)
  BY <1>3
<1>7. delivered' # None
  BY <1>5, NoneAssumption
<1>8. TypeOK'
  BY <1>1, <1>3, <1>5 DEF IInv, TypeOK, Statuses, Candidates
<1>9. ExitIsTrue'
  <2>1. \A q \in Workers : worker[q].exit = "ok" => worker[q].dry
    BY <1>4 DEF IInv, ExitIsTrue
  <2> QED BY <1>1, <1>6, <1>7, <2>1 DEF ExitIsTrue
<1>10. GateInv' /\ OnceInv'
  BY <1>1, <1>3 DEF IInv, GateInv, Gated, OnceInv
<1>11. DeliveryIsSound'
  <2>1. SUFFICES ASSUME job.alone
                 PROVE  /\ file = worker[p].doc
                        /\ worker[p].doc \in Documents
                        /\ Named /\ worker[p].saw => worker[p].doc \in Verdicts
    BY <1>6 DEF DeliveryIsSound, Named
  <2> QED BY <1>2, <2>1 DEF IInv, DocInv, AloneInv
<1>12. ASSUME NEW q \in Workers PROVE DocInv(q)' /\ (job.alone => AloneInv(q))'
  BY <1>1 DEF IInv, DocInv, AloneInv, Named
<1> QED BY <1>8, <1>9, <1>10, <1>11, <1>12 DEF IInv

(* What the steps of a process assign to it.                                *)
LEMMA Assignments ==
  ASSUME NEW p
  PROVE  /\ \A step : Goto(p, step) => Moves(p, [worker[p] EXCEPT !.pc = step])
         /\ Done(p) => Moves(p, [Idle EXCEPT !.dry = worker[p].dry, !.exit = "ok"])
         /\ ExitFailed(p) => Moves(p, [Idle EXCEPT !.exit = "failed"])
  BY DEF Goto, Done, ExitFailed, Moves

(* A process that ends with an error keeps the invariant, whether or not    *)
(* the CLI had done its work.                                               *)
LEMMA Stops ==
  ASSUME IInv, NEW p \in Workers, worker[p].pc # "off", ExitFailed(p),
         UNCHANGED chain \/ (worker[p].pc = "delivering" /\ TakesEffect(p)),
         UNCHANGED <<job, sealed, file>>, UNCHANGED faults \/ Fault
  PROVE  IInv'
<1> DEFINE w == [Idle EXCEPT !.exit = "failed"]
<1>1. Moves(p, w)
  BY Assignments
<1>2. /\ w \in Processes /\ w.pc = "off" /\ ~w.saw /\ w.exit = "failed"
  BY DEF Idle, Processes
<1>3. faults' \in 0 .. MaxFaults
  BY FaultsAssumption DEF Fault, IInv, TypeOK
<1> HIDE DEF w
<1>4. CASE UNCHANGED chain
  <2>1. Sound(p, w)
    BY <1>2 DEF Sound
  <2> QED BY <1>1, <1>3, <1>4, <2>1, ProcessStep
<1>5. CASE worker[p].pc = "delivering" /\ TakesEffect(p)
  BY <1>1, <1>2, <1>3, <1>5, DeliveryStep
<1> QED BY <1>4, <1>5

(* Going on to the next step keeps what a process must keep, if the step    *)
(* may be taken and the file is as the step says.                           *)
LEMMA GoesOn ==
  ASSUME IInv, NEW p \in Workers, worker[p].pc # "off", NEW step \in Running,
         Goto(p, step), UNCHANGED <<job, sealed, chain>>,
         UNCHANGED file \/ file' \in Documents \cup {"torn"}, UNCHANGED faults \/ Fault,
         step \in {"fetching", "opening", "writing", "delivering"} => Gated,
         step \in {"opening", "writing", "delivering"} =>
           /\ worker[p].doc \in Documents
           /\ Named /\ worker[p].saw => worker[p].doc \in Verdicts,
         step \in {"writing", "delivering"} => file' # None,
         step = "delivering" => file' = worker[p].doc
  PROVE  IInv'
<1> DEFINE w == [worker[p] EXCEPT !.pc = step]
<1>1. Moves(p, w)
  BY Assignments
<1>2. worker[p] \in Processes /\ DocInv(p) /\ (job.alone => AloneInv(p))
  BY DEF IInv, TypeOK
<1>3. /\ w \in Processes /\ w.pc = step /\ w.saw = worker[p].saw /\ w.doc = worker[p].doc
      /\ w.exit = worker[p].exit /\ w.dry = worker[p].dry
  BY <1>2 DEF Processes
<1>4. faults' \in 0 .. MaxFaults
  BY FaultsAssumption DEF Fault, IInv, TypeOK
<1> HIDE DEF w
<1>5. Sound(p, w)
  BY <1>2, <1>3 DEF IInv, ExitIsTrue, DocInv, AloneInv, Sound, chain
<1> QED BY <1>1, <1>4, <1>5, ProcessStep

(* What the fetch can come to.                                              *)
LEMMA AnswersJudge ==
  ASSUME job \in Jobs, NEW doc \in Answers
  PROVE  doc \in Documents /\ (Named /\ sealed => doc \in Verdicts)
  BY DEF Answers, Jobs, Named, Documents, Verdicts

(* One lemma per kind of step: those of a process that is doing well,       *)
LEMMA ProceedsInv ==
  ASSUME IInv, NEW p \in Workers, Proceeds(p)
  PROVE  IInv'
<1>1. worker[p] \in Processes /\ DocInv(p) /\ (job.alone => AloneInv(p))
  BY DEF IInv, TypeOK
<1>2. CASE GateChecked(p)
  BY <1>2, GoesOn DEF GateChecked, Running
<1>3. ASSUME NEW mentioned \in Texts, StatusRead(p, mentioned) PROVE IInv'
  <2>1. StatusIn(mentioned) = "accepted" => Gated
    <3>1. mentioned \subseteq been \cup Stray
      BY DEF IInv, TypeOK, Texts
    <3> QED BY <3>1, StatusIsMentioned DEF Gated
  <2>2. worker[p].pc = "status" /\ UNCHANGED <<job, sealed, chain, file, faults>>
    BY <1>3 DEF StatusRead, Texts
  <2>3. \/ StatusIn(mentioned) = "accepted" /\ Goto(p, "fetching")
        \/ ExitFailed(p)
    BY <1>3 DEF StatusRead
  <2>4. CASE StatusIn(mentioned) = "accepted" /\ Goto(p, "fetching")
    BY <2>1, <2>2, <2>4, GoesOn DEF Running
  <2>5. CASE ExitFailed(p)
    BY <2>2, <2>5, Stops
  <2> QED BY <2>3, <2>4, <2>5
<1>4. ASSUME NEW doc \in Answers, Fetched(p, doc) PROVE IInv'
  <2> DEFINE w == [worker[p] EXCEPT !.pc = "opening", !.doc = doc]
  <2>1. doc \in Documents /\ (Named /\ sealed => doc \in Verdicts)
    BY AnswersJudge DEF IInv, TypeOK
  <2>2. /\ worker[p].pc = "fetching" /\ Moves(p, w)
        /\ UNCHANGED <<job, sealed, chain, file, faults>>
    BY <1>4 DEF Fetched, Moves
  <2>3. /\ w \in Processes /\ w.pc = "opening" /\ w.saw = worker[p].saw /\ w.doc = doc
        /\ w.exit = worker[p].exit /\ w.dry = worker[p].dry
    BY <1>1, <2>1 DEF Processes, Running
  <2> HIDE DEF w
  <2>4. Sound(p, w)
    BY <1>1, <2>1, <2>2, <2>3
    DEF IInv, ExitIsTrue, GateInv, DocInv, AloneInv, Sound, chain
  <2>5. faults' \in 0 .. MaxFaults
    BY <2>2 DEF IInv, TypeOK
  <2> QED BY <2>2, <2>4, <2>5, ProcessStep
<1>5. CASE Open(p)
  <2>1. Gated
    BY <1>5 DEF IInv, GateInv, Open
  <2> QED BY <1>1, <1>5, <2>1, NoneAssumption, GoesOn DEF Open, Running, DocInv
<1>6. CASE Write(p)
  <2>1. /\ worker[p].pc = "writing" /\ file' = worker[p].doc
        /\ UNCHANGED <<job, sealed, chain, faults>>
    BY <1>6 DEF Write
  <2>2. /\ Gated /\ worker[p].doc \in Documents
        /\ Named /\ worker[p].saw => worker[p].doc \in Verdicts
    BY <1>1, <2>1 DEF IInv, GateInv, DocInv
  <2>3. CASE Goto(p, "delivering")
    BY <2>1, <2>2, <2>3, NoneAssumption, GoesOn DEF Running
  <2>4. CASE worker[p].dry /\ Done(p)
    <3> DEFINE w == [Idle EXCEPT !.dry = worker[p].dry, !.exit = "ok"]
    <3>1. Moves(p, w)
      BY <2>4, Assignments
    <3>2. w \in Processes /\ w.pc = "off" /\ w.dry /\ ~w.saw
      BY <1>1, <2>4 DEF Idle, Processes
    <3> HIDE DEF w
    <3>3. Sound(p, w) /\ faults' \in 0 .. MaxFaults
      BY <2>1, <3>2 DEF Sound, IInv, TypeOK
    <3> QED BY <2>1, <2>2, <3>1, <3>3, ProcessStep
  <2> QED BY <1>6, <2>3, <2>4 DEF Write
<1>7. CASE Delivered(p)
  <2> DEFINE w == [Idle EXCEPT !.dry = worker[p].dry, !.exit = "ok"]
  <2>1. Moves(p, w)
    BY <1>7, Assignments DEF Delivered
  <2>2. w \in Processes /\ w.pc = "off" /\ ~w.saw
    BY <1>1 DEF Idle, Processes
  <2> HIDE DEF w
  <2>3. faults' \in 0 .. MaxFaults
    BY <1>7 DEF Delivered, IInv, TypeOK
  <2> QED BY <1>7, <2>1, <2>2, <2>3, DeliveryStep DEF Delivered
<1>8. CASE Refused(p)
  BY <1>8, Stops DEF Refused
<1> QED BY <1>2, <1>3, <1>4, <1>5, <1>6, <1>7, <1>8 DEF Proceeds

(* those of a process that is not,                                          *)
LEMMA FailsInv ==
  ASSUME IInv, NEW p \in Workers, Fails(p)
  PROVE  IInv'
<1>1. CASE CliFails(p)
  BY <1>1, Stops DEF CliFails
<1>2. CASE StatusRead(p, {})
  <2>1. StatusIn({}) # "accepted"
    BY StatusIsMentioned
  <2> QED BY <1>2, <2>1, Stops DEF StatusRead
<1>3. CASE FetchFails(p)
  BY <1>3, Stops DEF FetchFails
<1>4. ASSUME Misrouted(p) PROVE IInv'
  <2> DEFINE w == [worker[p] EXCEPT !.pc = "opening", !.doc = "noTest", !.saw = FALSE]
  <2>1. worker[p] \in Processes /\ DocInv(p) /\ (job.alone => AloneInv(p))
    BY DEF IInv, TypeOK
  <2>2. /\ worker[p].pc = "fetching" /\ Moves(p, w)
        /\ UNCHANGED <<job, sealed, chain, file>> /\ Fault
    BY <1>4 DEF Misrouted, Moves
  <2>3. faults' \in 0 .. MaxFaults
    BY <2>2, FaultsAssumption DEF Fault, IInv, TypeOK
  <2>4. /\ w \in Processes /\ w.pc = "opening" /\ ~w.saw /\ w.doc \in Documents
        /\ w.exit = worker[p].exit /\ w.dry = worker[p].dry
    BY <2>1 DEF Processes, Running, Documents
  <2> HIDE DEF w
  <2>5. Sound(p, w)
    BY <2>1, <2>2, <2>4 DEF IInv, ExitIsTrue, GateInv, DocInv, AloneInv, Sound, chain
  <2> QED BY <2>2, <2>3, <2>5, ProcessStep
<1>5. CASE DeliverFails(p)
  BY <1>5, Stops DEF DeliverFails
<1>6. CASE Killed(p)
  BY <1>6, Stops DEF Killed, Running
<1> QED BY <1>1, <1>2, <1>3, <1>4, <1>5, <1>6 DEF Fails

(* the start of one,                                                        *)
LEMMA StartInv ==
  ASSUME IInv, NEW p \in Workers, NEW dry \in BOOLEAN, Start(p, dry)
  PROVE  IInv'
<1> DEFINE w == [Idle EXCEPT !.pc = "gate", !.dry = dry, !.saw = sealed]
<1>1. Moves(p, w)
  BY DEF Start, Moves
<1>2. /\ w \in Processes /\ w.pc = "gate" /\ w.saw = sealed /\ w.exit = "none"
  BY DEF IInv, TypeOK, Idle, Processes, Running
<1>3. /\ job.alone => \A q \in Workers : worker[q].pc = "off"
      /\ UNCHANGED <<job, sealed, chain, file>>
      /\ faults' \in 0 .. MaxFaults
  BY FaultsAssumption DEF Start, Fault, IInv, TypeOK
<1> HIDE DEF w
<1>4. Sound(p, w)
  BY <1>2, <1>3 DEF Sound
<1> QED BY <1>1, <1>3, <1>4, ProcessStep

(* and those of the others.                                                 *)
LEMMA OthersInv ==
  ASSUME IInv, Advance \/ Seal \/ UNCHANGED vars
  PROVE  IInv'
<1>1. CASE Advance
  <2>1. PICK s \in Statuses :
          /\ s \notin {"applied"} /\ Becomes(s)
          /\ s = "accepted" => status = "applied"
    BY <1>1 DEF Advance
  <2>2. UNCHANGED <<job, sealed, delivered, file, worker, faults>>
    BY <1>1 DEF Advance
  <2>3. TypeOK'
    BY <2>1, <2>2 DEF IInv, TypeOK, Becomes
  <2> QED BY <2>1, <2>2, <2>3 DEF IInv, ExitIsTrue, GateInv, Gated, OnceInv, DeliveryIsSound,
                             DocInv, AloneInv, Becomes, Named
<1>2. CASE Seal
  BY <1>2 DEF Seal, chain, IInv, TypeOK, ExitIsTrue, GateInv, Gated, OnceInv, DeliveryIsSound,
              DocInv, AloneInv, Named
<1>3. CASE UNCHANGED vars
  BY <1>3 DEF vars, chain, IInv, TypeOK, ExitIsTrue, GateInv, Gated, OnceInv, DeliveryIsSound,
              DocInv, AloneInv, Named
<1> QED BY <1>1, <1>2, <1>3

(* The inductive invariant holds.                                           *)
THEOREM InductiveInvariant == Spec => []IInv
<1>1. IInv /\ [Next]_vars => IInv'
  BY ProceedsInv, FailsInv, StartInv, OthersInv DEF Next
<1> QED BY <1>1, InitInv, PTL DEF Spec

-----------------------------------------------------------------------------

(* TypeOK: what is delivered is a document with its message, and the        *)
(* status one the job has had.                                              *)
THEOREM TypeCorrect == Spec => []TypeOK
<1>1. IInv => TypeOK
  BY DEF IInv
<1> QED BY <1>1, InductiveInvariant, PTL

(* A run that exits 0 has delivered itself, or was a dry run.               *)
THEOREM ExitHolds == Spec => []ExitIsTrue
<1>1. IInv => ExitIsTrue
  BY DEF IInv
<1> QED BY <1>1, InductiveInvariant, PTL

(* No verdict is fetched for a job that was never accepted, if no text of   *)
(* the CLI mentions "accepted" of such a job.                               *)
THEOREM FundedHolds ==
  ASSUME "accepted" \notin Stray
  PROVE  Spec => []FundedFirst
<1>1. IInv => FundedFirst
  BY DEF IInv, GateInv, Gated, FundedFirst
<1> QED BY <1>1, InductiveInvariant, PTL

(* An accepted job passes the gate, whatever else the text mentions: no     *)
(* stray or earlier status keeps a funded job from its delivery.            *)
LetThrough ==
  \A p \in Workers, mentioned \in Texts :
    status = "accepted" /\ StatusRead(p, mentioned) => worker'[p].pc = "fetching"

FundedPasses == [][LetThrough]_vars

(* It does because task_status looks for "accepted" before all others.      *)
THEOREM FundedPassesHolds == Spec => FundedPasses
<1>1. ASSUME IInv PROVE LetThrough
  <2> SUFFICES ASSUME NEW p \in Workers, NEW mentioned \in Texts,
                      status = "accepted", StatusRead(p, mentioned)
               PROVE  worker'[p].pc = "fetching"
    BY DEF LetThrough
  <2>1. "accepted" \in mentioned
    BY DEF Texts
  <2>2. StatusIn(mentioned) = "accepted"
    BY <2>1, AcceptedIsFound
  <2>3. Goto(p, "fetching")
    BY <2>2 DEF StatusRead
  <2> QED BY <1>1, <2>3 DEF Goto, IInv, TypeOK, Processes
<1> QED BY <1>1, InductiveInvariant, PTL DEF FundedPasses

(* One process at a time, the client gets a whole document and the message  *)
(* that belongs to it, and a verdict when there is a test.                  *)
THEOREM DeliveryHolds == Spec => []DeliveryIsSound
<1>1. IInv => DeliveryIsSound
  BY DEF IInv
<1> QED BY <1>1, InductiveInvariant, PTL
=============================================================================
