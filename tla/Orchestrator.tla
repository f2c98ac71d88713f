----------------------------- MODULE Orchestrator -----------------------------
(***************************************************************************)
(* Bounties from trigger to settlement: Orchestrator.run of                 *)
(* brain/merita/orchestrator.py, the escrow and Ace calls of                *)
(* rails/router.py, the gate of integrity/graph.py as these runs feed it,   *)
(* and the state main.py keeps for /bounties and /volume.                   *)
(*                                                                         *)
(* Runs are coroutines of one process.  They interleave at every await: the *)
(* discovery, the lock, the Ace call, the verifier, the judge, the          *)
(* settlement, the rating, the audit seal.  The escrow, the Ace payments    *)
(* and the ratings are what is on chain, behind the sidecar; a sidecar call *)
(* that raises may have taken effect or not.  Everything else is memory and *)
(* goes when the process restarts.                                          *)
(***************************************************************************)
EXTENDS Integers, Sequences, FiniteSets

CONSTANTS
  Bounties,    \* calls of POST /bounties/run
  Posters,     \* poster_pda of a call
  Workers,     \* the agents SAP may return for a capability
  Nobody,      \* claimed_by_pda before the escrow is locked
  Referee,     \* the agent the fees are paid to, and the poster of a call that names none
  Specs,       \* fingerprints of specifications
  Rewards,     \* reward_lamports of a call
  AceAnswers,  \* what a call of Ace may be: {"free", "paid", "unproven"}
  Past,        \* how many rewards a worker may have had before these calls
  MaxFaults    \* how many faults there may be in a behaviour

ASSUME RewardsAssumption == Rewards \subseteq Nat
ASSUME PastAssumption == Past \subseteq Nat
ASSUME AceAssumption == AceAnswers \subseteq {"free", "paid", "unproven"}
ASSUME NobodyAssumption == Nobody \notin Workers
ASSUME FaultsAssumption == MaxFaults \in Nat

VARIABLES
  pc,          \* where the run of a bounty is
  bounty,      \* the Bounty objects
  escrow,      \* on chain: the escrow of a bounty
  aceMoved,    \* on chain: the Ace payments, [bounty, leg]
  ratings,     \* on chain: the feedback, [bounty, stars]
  served,      \* IntegrityGraph._pairs: countable payments to an agent
  posted,      \* IntegrityGraph._specs: what a poster has posted
  stored,      \* main.STATE
  faults       \* the faults so far

chain == <<escrow, aceMoved, ratings>>
graph == <<served, posted>>
vars == <<pc, bounty, chain, graph, stored, faults>>

-----------------------------------------------------------------------------

Waiting == {"discovering", "locking", "executing", "verifying", "adjudicating", "releasing",
            "refunding", "rating", "sealing"}

(* returned: run() returned the bounty; raised: it ended in a 502; lost: it *)
(* was in flight when the process restarted.                                *)
Steps == Waiting \cup {"idle", "returned", "raised", "lost"}

(* SUBMITTED is overwritten by VERIFYING before the next await.             *)
States == {"draft", "expired", "quarantined", "claimed", "verifying", "settled", "failed"}

TakeRateBps == 300

RefereeFee(reward) == (reward * TakeRateBps) \div 10000

AceLegs == {"service", "judge"}

Receipts == [leg : AceLegs \cup {"reward", "refereeFee"},
             amount : Rewards \cup {RefereeFee(r) : r \in Rewards} \cup {1}, tx : BOOLEAN]

Receipt(leg, amount, tx) == [leg |-> leg, amount |-> amount, tx |-> tx]

(* Receipt.is_countable.                                                    *)
IsCountable(r) == r.tx /\ r.amount > 0

Draft(p, s, r) ==
  [poster |-> p, spec |-> s, reward |-> r, state |-> "draft", worker |-> Nobody,
   verdict |-> "none", receipts |-> {}]

BountyRecords ==
  [poster : Posters, spec : Specs, reward : Rewards, state : States,
   worker : Workers \cup {Nobody}, verdict : {"none", "pass", "fail"},
   receipts : SUBSET Receipts]

-----------------------------------------------------------------------------
(* IntegrityGraph.  Every reward is booked as paid by POSTER_WALLET, so a   *)
(* worker has one counterparty whoever the posters are; the payments that   *)
(* leave a worker go to Ace, which pays nobody, so that no cycle is found   *)
(* and an Ace receipt changes no signal; and nothing calls observe_funding. *)
(* Two signals remain.                                                      *)

(* _pairing_entropy: 0 for one payer, once there are three payments.        *)
PairingIsClean(w) == served[w] < 3

(* _spec_diversity is below QUARANTINE_THRESHOLD, which is 0.35.            *)
SpecsAreSpam(p) ==
  LET n == Len(posted[p])
  IN  n >= 3 /\ 100 * Cardinality({posted[p][i] : i \in 1 .. n}) < 35 * n

Quarantined(p, w) == p = w \/ ~PairingIsClean(w) \/ SpecsAreSpam(p)

(* rank = (1 + reputation) * integrity: whatever the reputations, a worker  *)
(* whose score is 0 is only taken when no other was found.                  *)
Choices(found) ==
  LET clean == {w \in found : PairingIsClean(w)}
  IN  IF clean # {} THEN clean ELSE found

(* Mutant of Observe: the graph is not told of rewards.                     *)
ObserveNothing(w, receipts) == UNCHANGED served

(* observe() of these receipts of a job of worker w: the reward is paid to  *)
(* the worker, the fee to the referee, who may be found as a worker too.    *)
Observe(w, receipts) ==
  LET Payee(r) == IF r.leg = "reward" THEN w ELSE Referee
  IN  served' = [v \in Workers |->
                   served[v] + Cardinality({r \in receipts : IsCountable(r) /\ Payee(r) = v})]

-----------------------------------------------------------------------------

Init ==
  /\ pc = [b \in Bounties |-> "idle"]
  /\ bounty \in [Bounties -> {Draft(p, s, r) : p \in Posters, s \in Specs, r \in Rewards}]
  /\ escrow = [b \in Bounties |-> "none"]
  /\ aceMoved = {}
  /\ ratings = {}
  /\ served \in [Workers -> Past]
  /\ posted = [p \in Posters |-> <<>>]
  /\ stored = {}
  /\ faults = 0

Goto(b, step) == pc' = [pc EXCEPT ![b] = step]

Fault == faults < MaxFaults /\ faults' = faults + 1

(* run() returns, and main.run stores what it returned.                     *)
Return(b) == Goto(b, "returned") /\ stored' = stored \cup {b}

(* An exception leaves run(): HTTPException(502), nothing stored.           *)
Raise(b) == Goto(b, "raised") /\ Fault /\ UNCHANGED stored

(* post_bounty up to the discovery: the specification counts at once.       *)
Post(b) ==
  /\ pc[b] = "idle"
  /\ posted' = [posted EXCEPT ![bounty[b].poster] = Append(@, bounty[b].spec)]
  /\ Goto(b, "discovering")
  /\ UNCHANGED <<bounty, chain, served, stored, faults>>

NoWorkerFound(b) ==
  /\ pc[b] = "discovering"
  /\ bounty' = [bounty EXCEPT ![b].state = "expired"]
  /\ Return(b)
  /\ UNCHANGED <<chain, graph, faults>>

(* Mutant of Gate: the detector runs when the escrow is locked.             *)
GateAfterLock(b, w) ==
  /\ escrow' = [escrow EXCEPT ![b] = "locked"]
  /\ IF Quarantined(bounty[b].poster, w)
       THEN /\ bounty' = [bounty EXCEPT ![b].state = "quarantined", ![b].verdict = "fail"]
            /\ Goto(b, "sealing")
       ELSE /\ bounty' = [bounty EXCEPT ![b].worker = w, ![b].state = "claimed"]
            /\ Goto(b, "executing")
  /\ UNCHANGED <<aceMoved, ratings>>

(* The gate.  (claimed_by_pda is assigned once the escrow is locked; the    *)
(* worker chosen is a local variable until then.)                           *)
Gate(b, w) ==
  /\ IF Quarantined(bounty[b].poster, w)
       THEN /\ bounty' = [bounty EXCEPT ![b].state = "quarantined", ![b].verdict = "fail"]
            /\ Goto(b, "sealing")
       ELSE /\ bounty' = [bounty EXCEPT ![b].worker = w]
            /\ Goto(b, "locking")
  /\ UNCHANGED chain

(* The agents found, without the poster: one is chosen and gated.           *)
Discovered(b, found) ==
  /\ pc[b] = "discovering"
  /\ \E w \in Choices(found) : Gate(b, w)
  /\ UNCHANGED <<graph, stored, faults>>

DiscoveryFails(b) ==
  /\ pc[b] = "discovering"
  /\ Raise(b)
  /\ UNCHANGED <<bounty, chain, graph>>

Locked(b) ==
  /\ pc[b] = "locking"
  /\ escrow' = [escrow EXCEPT ![b] = "locked"]
  /\ bounty' = [bounty EXCEPT ![b].state = "claimed"]
  /\ Goto(b, "executing")
  /\ UNCHANGED <<aceMoved, ratings, graph, stored, faults>>

LockFails(b) ==
  /\ pc[b] = "locking"
  /\ \E now \in {"none", "locked"} : escrow' = [escrow EXCEPT ![b] = now]
  /\ Raise(b)
  /\ UNCHANGED <<bounty, aceMoved, ratings, graph>>

-----------------------------------------------------------------------------
(* pay_ace: the call is free, and has no receipt; or paid, with a receipt   *)
(* that may lack the transaction (or the amount, which makes no other       *)
(* difference).                                                             *)

(* Mutant of AceReceipts: a free call has a receipt too.                    *)
AceReceiptsAlways(leg, answer) == {Receipt(leg, 1, answer # "unproven")}

AceReceipts(leg, answer) ==
  IF answer = "free" THEN {} ELSE {Receipt(leg, 1, answer = "paid")}

Moves(b, leg) == aceMoved' = aceMoved \cup {[bounty |-> b, leg |-> leg]}

Pays(b, leg, answer) == IF answer = "free" THEN UNCHANGED aceMoved ELSE Moves(b, leg)

(* The call raises, before or after the payment.                            *)
MayHavePaid(b, leg) == UNCHANGED aceMoved \/ Moves(b, leg)

Executed(b, answer) ==
  /\ pc[b] = "executing"
  /\ Pays(b, "service", answer)
  /\ bounty' = [bounty EXCEPT ![b].receipts = @ \cup AceReceipts("service", answer),
                              ![b].state = "verifying"]
  /\ Goto(b, "verifying")
  /\ UNCHANGED <<escrow, ratings, graph, stored, faults>>

ExecuteFails(b) ==
  /\ pc[b] = "executing"
  /\ MayHavePaid(b, "service")
  /\ Raise(b)
  /\ UNCHANGED <<bounty, escrow, ratings, graph>>

(* The verdict decides which way the money goes.                            *)
Judged(b, verdict, rs) ==
  /\ bounty' = [bounty EXCEPT ![b].verdict = verdict, ![b].receipts = @ \cup rs]
  /\ Goto(b, IF verdict = "pass" THEN "releasing" ELSE "refunding")

(* The verifier answers, and its client never raises (module Referee).      *)
Verified(b, verdict) ==
  /\ pc[b] = "verifying"
  /\ IF verdict = "undecided"
       THEN Goto(b, "adjudicating") /\ UNCHANGED bounty
       ELSE Judged(b, verdict, {})
  /\ UNCHANGED <<chain, graph, stored, faults>>

(* Mutant of Adjudicated: the first tier's FALSE still decides.             *)
AdjudicatedInVain(b, verdict, answer) ==
  /\ pc[b] = "adjudicating"
  /\ Pays(b, "judge", answer)
  /\ bounty' = [bounty EXCEPT ![b].verdict = verdict,
                              ![b].receipts = @ \cup AceReceipts("judge", answer)]
  /\ Goto(b, "refunding")
  /\ UNCHANGED <<escrow, ratings, graph, stored, faults>>

(* tier2.adjudicate; booked on the bounty's receipts.                       *)
Adjudicated(b, verdict, answer) ==
  /\ pc[b] = "adjudicating"
  /\ Pays(b, "judge", answer)
  /\ Judged(b, verdict, AceReceipts("judge", answer))
  /\ UNCHANGED <<escrow, ratings, graph, stored, faults>>

(* The judge cannot be reached: its exception is caught, and the work       *)
(* passes.                                                                  *)
AdjudicationFails(b) ==
  /\ pc[b] = "adjudicating"
  /\ MayHavePaid(b, "judge")
  /\ Judged(b, "pass", {})
  /\ Fault
  /\ UNCHANGED <<escrow, ratings, graph, stored>>

-----------------------------------------------------------------------------
(* Settlement, rating and audit trail.                                      *)

RewardReceipts(reward) ==
  {Receipt("reward", reward, TRUE), Receipt("refereeFee", RefereeFee(reward), TRUE)}

Settled(b) ==
  LET rs == RewardReceipts(bounty[b].reward)
  IN  /\ bounty' = [bounty EXCEPT ![b].receipts = @ \cup rs, ![b].state = "settled"]
      /\ Observe(bounty[b].worker, rs)
      /\ Goto(b, "rating")

Released(b) ==
  /\ pc[b] = "releasing"
  /\ escrow' = [escrow EXCEPT ![b] = "released"]
  /\ Settled(b)
  /\ UNCHANGED <<aceMoved, ratings, posted, stored, faults>>

(* Mutant of ReleaseFails: the SidecarError is swallowed.                   *)
ReleaseFailsSwallowed(b) ==
  /\ pc[b] = "releasing"
  /\ \E now \in {"locked", "released"} : escrow' = [escrow EXCEPT ![b] = now]
  /\ Settled(b)
  /\ Fault
  /\ UNCHANGED <<aceMoved, ratings, posted, stored>>

(* Mutant of ReleaseFails: the poster gets its money back instead.          *)
ReleaseFailsRefunds(b) ==
  /\ pc[b] = "releasing"
  /\ \E now \in {"locked", "released"} : escrow' = [escrow EXCEPT ![b] = now]
  /\ Goto(b, "refunding")
  /\ Fault
  /\ UNCHANGED <<bounty, aceMoved, ratings, graph, stored>>

ReleaseFails(b) ==
  /\ pc[b] = "releasing"
  /\ \E now \in {"locked", "released"} : escrow' = [escrow EXCEPT ![b] = now]
  /\ Raise(b)
  /\ UNCHANGED <<bounty, aceMoved, ratings, graph>>

Refunded(b) ==
  /\ pc[b] = "refunding"
  /\ escrow' = [escrow EXCEPT ![b] = "withdrawn"]
  /\ bounty' = [bounty EXCEPT ![b].state = "failed"]
  /\ Goto(b, "rating")
  /\ UNCHANGED <<aceMoved, ratings, graph, stored, faults>>

RefundFails(b) ==
  /\ pc[b] = "refunding"
  /\ \E now \in {"locked", "withdrawn"} : escrow' = [escrow EXCEPT ![b] = now]
  /\ Raise(b)
  /\ UNCHANGED <<bounty, aceMoved, ratings, graph>>

(* Mutant of Stars: a fraction instead of one to five.                      *)
StarsFraction(b) == IF bounty[b].verdict = "pass" THEN 1 ELSE 0

Stars(b) == IF bounty[b].verdict = "pass" THEN 5 ELSE 1

Rating(b) == [bounty |-> b, stars |-> Stars(b)]

Rated(b) ==
  /\ pc[b] = "rating"
  /\ ratings' = ratings \cup {Rating(b)}
  /\ Goto(b, "sealing")
  /\ UNCHANGED <<bounty, escrow, aceMoved, graph, stored, faults>>

RatingFails(b) ==
  /\ pc[b] = "rating"
  /\ ratings' \in {ratings, ratings \cup {Rating(b)}}
  /\ Raise(b)
  /\ UNCHANGED <<bounty, escrow, aceMoved, graph>>

(* _seal swallows its failure, so the run returns either way.               *)
Sealed(b) ==
  /\ pc[b] = "sealing"
  /\ Return(b)
  /\ UNCHANGED <<bounty, chain, graph, faults>>

-----------------------------------------------------------------------------

(* The process restarts: STATE, the graph and the runs in flight are gone.  *)
Restart ==
  /\ \E b \in Bounties : pc[b] \in Waiting
  /\ pc' = [b \in Bounties |-> IF pc[b] \in Waiting THEN "lost" ELSE pc[b]]
  /\ served' = [w \in Workers |-> 0]
  /\ posted' = [p \in Posters |-> <<>>]
  /\ stored' = {}
  /\ Fault
  /\ UNCHANGED <<bounty, chain>>

Proceeds(b) ==
  \/ NoWorkerFound(b)
  \/ \E found \in SUBSET (Workers \ {bounty[b].poster}) \ {{}} : Discovered(b, found)
  \/ Locked(b)
  \/ \E a \in AceAnswers : Executed(b, a)
  \/ \E v \in {"pass", "fail", "undecided"} : Verified(b, v)
  \/ \E v \in {"pass", "fail"}, a \in AceAnswers : Adjudicated(b, v, a)
  \/ Released(b) \/ Refunded(b) \/ Rated(b) \/ Sealed(b)

Fails(b) ==
  \/ DiscoveryFails(b) \/ LockFails(b) \/ ExecuteFails(b) \/ AdjudicationFails(b)
  \/ ReleaseFails(b) \/ RefundFails(b) \/ RatingFails(b)

Next ==
  \/ \E b \in Bounties :
       Post(b) \/ Proceeds(b) \/ Fails(b)
  \/ Restart

Spec == Init /\ [][Next]_vars

-----------------------------------------------------------------------------

(* Every Bounty, receipt, payment and rating has the shape models.py and    *)
(* the sidecar give it.                                                     *)
TypeOK ==
  /\ pc \in [Bounties -> Steps]
  /\ bounty \in [Bounties -> BountyRecords]
  /\ escrow \in [Bounties -> {"none", "locked", "released", "withdrawn"}]
  /\ aceMoved \subseteq [bounty : Bounties, leg : AceLegs]
  /\ ratings \subseteq [bounty : Bounties, stars : 1 .. 5]
  /\ served \in [Workers -> Nat]
  /\ posted \in [Posters -> Seq(Specs)]
  /\ stored \subseteq Bounties
  /\ faults \in 0 .. MaxFaults

(* Money and reputation go where the last verdict points, whichever call    *)
(* raises and whenever the process restarts: the reward to a worker that    *)
(* passed, back to the poster otherwise, and five stars or one to match     *)
(* (orchestrator.py, verify_and_settle).                                    *)
MoneyFollowsVerdict ==
  /\ \A b \in Bounties :
       /\ escrow[b] = "released" => bounty[b].verdict = "pass"
       /\ escrow[b] = "withdrawn" => bounty[b].verdict = "fail"
  /\ \A x \in ratings :
       escrow[x.bounty] = (IF x.stars = 5 THEN "released" ELSE "withdrawn")

(* What /bounties shows is the truth about the escrow: "a swallowed         *)
(* settlement error is a lie about money" (sidecar.py, SidecarError).       *)
StoredIsTrue ==
  \A b \in stored :
    CASE bounty[b].state = "settled" -> escrow[b] = "released"
      [] bounty[b].state = "failed"  -> escrow[b] = "withdrawn"
      [] OTHER                       -> escrow[b] = "none"

(* Every receipt /volume counts is money that moved on chain (models.py,    *)
(* Receipt: never "quietly pass one off as successful").                    *)
VolumeIsReal ==
  \A b \in stored : \A r \in bounty[b].receipts :
    bounty[b].state = "settled" /\ IsCountable(r) =>
      IF r.leg \in AceLegs THEN [bounty |-> b, leg |-> r.leg] \in aceMoved
                           ELSE escrow[b] = "released"

(* The rewards /volume counts are all known to the detector: no run, however *)
(* it ended, adds to the volume behind the gate's back (graph.py: "every    *)
(* lamport of volume we report" went through it).                           *)
VolumeIsWatched ==
  \A w \in Workers :
    Cardinality({b \in stored : /\ bounty[b].worker = w /\ bounty[b].state = "settled"
                                /\ bounty[b].reward > 0}) <= served[w]

(* "No lamports move at all" for a job in QUARANTINED (orchestrator.py),    *)
(* whatever other runs do between the gate and the end of this one.         *)
QuarantineMovesNothing ==
  \A b \in Bounties : bounty[b].state = "quarantined" =>
    /\ escrow[b] = "none" /\ bounty[b].receipts = {}
    /\ \A m \in aceMoved \cup ratings : m.bounty # b

(* The runs implement module Escrow: no sequence of lost calls, exceptions  *)
(* and restarts judges a job twice, locks a reward again, or moves it once  *)
(* more or against the verdict (orchestrator.py, post_bounty to             *)
(* verify_and_settle).                                                      *)
E == INSTANCE Escrow WITH verdict <- [b \in Bounties |-> bounty[b].verdict]

ImplementsEscrow == E!Spec

-----------------------------------------------------------------------------
(* What the documentation says and the code does not do.                    *)

(* "honest worker (4 posters, one-way flow): 1.00, quarantined=False"       *)
(* (README): no job is quarantined while no poster has posted twice.        *)
HonestWorkersStayClean ==
  (\A b, c \in Bounties : b # c => bounty[b].poster # bounty[c].poster)
    => \A b \in Bounties : bounty[b].state # "quarantined"
=============================================================================
