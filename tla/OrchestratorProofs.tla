-------------------------- MODULE OrchestratorProofs --------------------------
(***************************************************************************)
(* For any number of bounties, posters, agents, rewards and faults: money   *)
(* and ratings follow the verdict, and what /bounties and /volume show is   *)
(* true of the chain.                                                       *)
(***************************************************************************)
EXTENDS Orchestrator, FiniteSetTheorems, TLAPS

-----------------------------------------------------------------------------
(* The inductive invariant: what each run knows at each await.              *)

Escrows == {"none", "locked", "released", "withdrawn"}

Unpaid(b) == \A leg \in AceLegs : [bounty |-> b, leg |-> leg] \notin aceMoved

Unrated(b) == \A s \in 1 .. 5 : [bounty |-> b, stars |-> s] \notin ratings

(* Nothing has moved for b.                                                 *)
Untouched(b) ==
  escrow[b] = "none" /\ bounty[b].receipts = {} /\ Unpaid(b) /\ Unrated(b)

(* The reward waits in escrow for the verdict.                              *)
Open(b) ==
  escrow[b] = "locked" /\ bounty[b].state \in {"claimed", "verifying"} /\ Unrated(b)

(* What an await says of its run.                                           *)
PlaceInv(b) ==
  /\ pc[b] \in {"idle", "discovering", "locking"} =>
       bounty[b].state = "draft" /\ Untouched(b)
  /\ pc[b] \in {"locking", "executing", "verifying", "adjudicating", "releasing"} =>
       bounty[b].worker \in Workers
  /\ pc[b] \in {"executing", "verifying", "adjudicating", "releasing", "refunding"} => Open(b)
  /\ pc[b] = "releasing" => bounty[b].verdict = "pass"
  /\ pc[b] = "refunding" => bounty[b].verdict = "fail"
  /\ pc[b] = "rating" => bounty[b].state \in {"settled", "failed"} /\ Unrated(b)
  /\ pc[b] = "sealing" => bounty[b].state \in {"settled", "failed", "quarantined"}
  /\ pc[b] = "returned" => bounty[b].state \in {"settled", "failed", "quarantined", "expired"}

(* What the state of a bounty says of the chain, wherever its run is and    *)
(* after it has ended.                                                      *)
MoneyInv(b) ==
  /\ bounty[b].state = "settled" => escrow[b] = "released"
  /\ bounty[b].state = "failed" => escrow[b] = "withdrawn"
  /\ bounty[b].state \in {"quarantined", "expired"} => Untouched(b)
  /\ escrow[b] = "released" => bounty[b].verdict = "pass"
  /\ escrow[b] = "withdrawn" => bounty[b].verdict = "fail"

RatingInv(b) ==
  \A s \in 1 .. 5 : [bounty |-> b, stars |-> s] \in ratings =>
    bounty[b].state \in {"settled", "failed"} /\ s = Stars(b)

ReceiptInv(b) ==
  \A r \in bounty[b].receipts :
    IF r.leg \in AceLegs
      THEN IsCountable(r) => [bounty |-> b, leg |-> r.leg] \in aceMoved
      ELSE bounty[b].state = "settled"

StoredInv(b) == b \in stored => pc[b] = "returned"

RunInv(b) == PlaceInv(b) /\ MoneyInv(b) /\ RatingInv(b) /\ ReceiptInv(b) /\ StoredInv(b)

IInv == TypeOK /\ \A b \in Bounties : RunInv(b)

-----------------------------------------------------------------------------
(* A step of one run: place p, bounty d and escrow e for b, and on chain    *)
(* nothing that is not b's.                                                 *)

Own(b) ==
  /\ \A c \in Bounties \ {b}, leg \in AceLegs :
       [bounty |-> c, leg |-> leg] \in aceMoved' <=> [bounty |-> c, leg |-> leg] \in aceMoved
  /\ \A c \in Bounties \ {b}, s \in 1 .. 5 :
       [bounty |-> c, stars |-> s] \in ratings' <=> [bounty |-> c, stars |-> s] \in ratings
  /\ stored' \subseteq stored \cup {b}

Moves3(b, p, d, e) ==
  /\ pc' = [pc EXCEPT ![b] = p]
  /\ bounty' = [bounty EXCEPT ![b] = d]
  /\ escrow' = [escrow EXCEPT ![b] = e]

RestType ==
  /\ aceMoved \subseteq [bounty : Bounties, leg : AceLegs]
  /\ ratings \subseteq [bounty : Bounties, stars : 1 .. 5]
  /\ served \in [Workers -> Nat]
  /\ posted \in [Posters -> Seq(Specs)]
  /\ stored \subseteq Bounties
  /\ faults \in 0 .. MaxFaults

LEMMA Frame == ASSUME TypeOK, NEW b \in Bounties, NEW c \in Bounties \ {b}, RunInv(c), Own(b),
                      pc'[c] = pc[c], bounty'[c] = bounty[c], escrow'[c] = escrow[c]
               PROVE  RunInv(c)'
<1>1. (Unpaid(c) => Unpaid(c)') /\ (Unrated(c) => Unrated(c)')
  BY DEF Own, Unpaid, Unrated
<1>2. (Untouched(c) => Untouched(c)') /\ (Open(c) => Open(c)')
  BY <1>1 DEF Untouched, Open
<1>3. PlaceInv(c)'
  BY <1>1, <1>2 DEF RunInv, PlaceInv
<1>4. MoneyInv(c)'
  BY <1>2 DEF RunInv, MoneyInv
<1>5. RatingInv(c)'
  BY DEF RunInv, RatingInv, Own, Stars
<1>6. ReceiptInv(c)'
  BY DEF RunInv, ReceiptInv, Own
<1>7. StoredInv(c)'
  BY DEF RunInv, StoredInv, Own
<1> QED BY <1>3, <1>4, <1>5, <1>6, <1>7 DEF RunInv

LEMMA RunStep == ASSUME IInv, NEW b \in Bounties, NEW p \in Steps, NEW d \in BountyRecords,
                        NEW e \in Escrows, Moves3(b, p, d, e), Own(b), RestType',
                        pc'[b] = p /\ bounty'[b] = d /\ escrow'[b] = e => RunInv(b)'
                 PROVE  IInv'
<1>1. pc'[b] = p /\ bounty'[b] = d /\ escrow'[b] = e
  BY DEF IInv, TypeOK, Moves3
<1>2. \A c \in Bounties \ {b} :
        pc'[c] = pc[c] /\ bounty'[c] = bounty[c] /\ escrow'[c] = escrow[c]
  BY DEF IInv, TypeOK, Moves3
<1>3. \A c \in Bounties : RunInv(c)'
  BY <1>1, <1>2, Frame DEF IInv
<1>4. TypeOK'
  BY DEF IInv, TypeOK, RestType, Moves3, Escrows
<1> QED BY <1>3, <1>4 DEF IInv

-----------------------------------------------------------------------------
(* The fields of a bounty, and what the actions assign to them.             *)

LEMMA FieldsAreTyped ==
  ASSUME NEW d \in BountyRecords
  PROVE  /\ d.state \in States /\ d.worker \in Workers \cup {Nobody}
         /\ d.verdict \in {"none", "pass", "fail"} /\ d.receipts \subseteq Receipts
         /\ d.poster \in Posters /\ d.spec \in Specs /\ d.reward \in Rewards
  BY DEF BountyRecords

LEMMA Receives ==
  ASSUME NEW d \in BountyRecords, NEW st \in States, NEW v \in {"none", "pass", "fail"},
         NEW rs \in SUBSET Receipts
  PROVE  /\ [d EXCEPT !.receipts = d.receipts \cup rs, !.state = st] \in BountyRecords
         /\ [d EXCEPT !.verdict = v, !.receipts = d.receipts \cup rs] \in BountyRecords
<1>1. d.receipts \cup rs \in SUBSET Receipts
  BY FieldsAreTyped
<1> QED BY <1>1 DEF BountyRecords

LEMMA AceReceiptsAreTyped ==
  ASSUME NEW leg \in AceLegs, NEW answer
  PROVE  AceReceipts(leg, answer) \in SUBSET Receipts
  BY DEF AceReceipts, Receipt, Receipts

LEMMA RewardReceiptsAreTyped ==
  ASSUME NEW reward \in Rewards PROVE RewardReceipts(reward) \in SUBSET Receipts
  BY DEF RewardReceipts, Receipt, Receipts

(* What a step leaves alone.                                                *)
LEMMA SameChain == ASSUME NEW b \in Bounties, UNCHANGED <<aceMoved, ratings>>,
                          stored' \in {stored, stored \cup {b}}
                   PROVE  /\ Own(b) /\ Unpaid(b)' = Unpaid(b) /\ Unrated(b)' = Unrated(b)
  BY DEF Own, Unpaid, Unrated

LEMMA SameRest == ASSUME IInv, NEW b \in Bounties, UNCHANGED <<aceMoved, ratings, graph>>,
                         stored' \in {stored, stored \cup {b}}, faults' = faults \/ Fault
                  PROVE  RestType'
  BY FaultsAssumption DEF IInv, TypeOK, RestType, graph, Fault

LEMMA InitIInv == Init => IInv
<1> SUFFICES ASSUME Init PROVE IInv
  OBVIOUS
<1>1. bounty \in [Bounties -> BountyRecords]
  BY DEF Init, Draft, BountyRecords, States
<1>2. served \in [Workers -> Nat]
  <2>1. served \in [Workers -> Past]
    BY DEF Init
  <2> QED BY <2>1, PastAssumption
<1>3. TypeOK
  BY <1>1, <1>2, FaultsAssumption DEF Init, TypeOK, Steps
<1>4. ASSUME NEW b \in Bounties PROVE RunInv(b)
  <2>1. bounty[b].state = "draft" /\ bounty[b].receipts = {}
    BY DEF Init, Draft
  <2> QED BY <2>1 DEF Init, RunInv, PlaceInv, MoneyInv, RatingInv, ReceiptInv, StoredInv,
           Untouched, Unpaid, Unrated
<1> QED BY <1>3, <1>4 DEF IInv

(* What a bounty and the chain say of a run when neither changes.           *)
LEMMA SameRun == ASSUME IInv, NEW b \in Bounties, UNCHANGED <<bounty, chain>>
                 PROVE  /\ MoneyInv(b)' /\ RatingInv(b)' /\ ReceiptInv(b)'
                        /\ Untouched(b)' = Untouched(b) /\ Open(b)' = Open(b)
                        /\ Unrated(b)' = Unrated(b)
<1>1. /\ Untouched(b)' = Untouched(b) /\ Open(b)' = Open(b)
      /\ Unrated(b)' = Unrated(b)
  BY DEF chain, Untouched, Open, Unpaid, Unrated
<1>2. MoneyInv(b)'
  BY <1>1 DEF IInv, chain, RunInv, MoneyInv
<1>3. RatingInv(b)'
  BY DEF IInv, chain, RunInv, RatingInv, Stars
<1>4. ReceiptInv(b)'
  BY DEF IInv, chain, RunInv, ReceiptInv
<1> QED BY <1>1, <1>2, <1>3, <1>4

LEMMA StutterIInv == ASSUME IInv, UNCHANGED vars PROVE IInv'
<1>1. TypeOK'
  BY DEF IInv, vars, chain, graph, TypeOK
<1>2. ASSUME NEW b \in Bounties PROVE RunInv(b)'
  <2>1. PlaceInv(b)' /\ StoredInv(b)'
    BY SameRun DEF IInv, vars, RunInv, PlaceInv, StoredInv
  <2> QED BY <2>1, SameRun DEF RunInv, vars
<1> QED BY <1>1, <1>2 DEF IInv

(* The run moves, and nothing else does.                                    *)
LEMMA OnlyGoes == ASSUME IInv, NEW b \in Bounties, NEW p \in Steps, Goto(b, p),
                         UNCHANGED <<bounty, chain, graph>>,
                         stored' \in {stored, stored \cup {b}}, faults' = faults \/ Fault,
                         pc'[b] = p => PlaceInv(b)' /\ StoredInv(b)'
                  PROVE  IInv'
<1>1. Moves3(b, p, bounty[b], escrow[b]) /\ pc'[b] = p
  BY DEF IInv, TypeOK, Goto, Moves3, chain
<1>2. bounty[b] \in BountyRecords /\ escrow[b] \in Escrows
  BY DEF IInv, TypeOK, Escrows
<1>3. MoneyInv(b)' /\ RatingInv(b)' /\ ReceiptInv(b)'
  BY SameRun
<1> QED BY <1>1, <1>2, <1>3, SameChain, SameRest, RunStep DEF RunInv, chain

(* A run that ends in an exception.                                         *)
LEMMA RaisesUntouched == ASSUME IInv, NEW b \in Bounties, Raise(b), b \notin stored,
                                UNCHANGED <<bounty, chain, graph>>
                         PROVE  IInv'
  BY OnlyGoes DEF Raise, Steps, Waiting, PlaceInv, StoredInv

(* Nothing of b is stored before it has returned.                           *)
LEMMA NotStored == ASSUME IInv, NEW b \in Bounties, pc[b] # "returned" PROVE b \notin stored
  BY DEF IInv, RunInv, StoredInv

LEMMA Known == ASSUME IInv, NEW b \in Bounties
               PROVE  /\ bounty[b] \in BountyRecords /\ escrow[b] \in Escrows
                      /\ PlaceInv(b) /\ MoneyInv(b) /\ RatingInv(b) /\ ReceiptInv(b)
  BY DEF IInv, TypeOK, RunInv, Escrows

-----------------------------------------------------------------------------
(* The actions, in the order of the run.                                    *)

LEMMA PostInv == ASSUME IInv, NEW b \in Bounties, Post(b) PROVE IInv'
<1>1. Moves3(b, "discovering", bounty[b], escrow[b]) /\ pc'[b] = "discovering"
  BY DEF IInv, TypeOK, Post, Goto, Moves3, chain
<1>2. RestType'
  <2>1. posted' \in [Posters -> Seq(Specs)]
    BY FieldsAreTyped, Known DEF IInv, TypeOK, Post
  <2> QED BY <2>1 DEF IInv, TypeOK, Post, RestType, chain
<1>3. Own(b)
  BY SameChain DEF Post, chain
<1>4. PlaceInv(b)' /\ StoredInv(b)'
  BY <1>1, SameRun, Known, NotStored DEF Post, PlaceInv, StoredInv
<1>5. RunInv(b)'
  BY <1>4, SameRun DEF Post, RunInv
<1>6. "discovering" \in Steps
  BY DEF Steps, Waiting
<1> QED BY <1>1, <1>2, <1>3, <1>5, <1>6, Known, RunStep

LEMMA NoWorkerFoundInv == ASSUME IInv, NEW b \in Bounties, NoWorkerFound(b) PROVE IInv'
<1> DEFINE d == [bounty[b] EXCEPT !.state = "expired"]
<1>1. Moves3(b, "returned", d, escrow[b])
  BY DEF IInv, TypeOK, NoWorkerFound, Return, Goto, Moves3, chain
<1>2. d \in BountyRecords /\ d.state = "expired" /\ d.receipts = bounty[b].receipts
      /\ d.verdict = bounty[b].verdict
  BY Known DEF BountyRecords, States
<1>3. Own(b) /\ RestType' /\ Unpaid(b)' = Unpaid(b) /\ Unrated(b)' = Unrated(b)
  BY SameChain, SameRest DEF NoWorkerFound, Return, chain
<1>4. ASSUME pc'[b] = "returned", bounty'[b] = d, escrow'[b] = escrow[b] PROVE RunInv(b)'
  <2>1. Untouched(b) /\ Untouched(b)'
    BY <1>2, <1>3, <1>4, Known DEF NoWorkerFound, PlaceInv, Untouched
  <2> QED BY <1>2, <1>4, <2>1 DEF RunInv, PlaceInv, MoneyInv, RatingInv, ReceiptInv, StoredInv,
             Untouched, Unrated
<1>5. "returned" \in Steps
  BY DEF Steps
<1> HIDE DEF d
<1> QED BY <1>1, <1>2, <1>3, <1>4, <1>5, Known, RunStep

LEMMA GateInv == ASSUME IInv, NEW b \in Bounties, pc[b] = "discovering", NEW w \in Workers,
                        Gate(b, w), UNCHANGED <<graph, stored, faults>>
                 PROVE  IInv'
<1>1. Own(b) /\ RestType' /\ Unpaid(b)' = Unpaid(b) /\ Unrated(b)' = Unrated(b)
  BY SameChain, SameRest DEF Gate, chain
<1>2. Untouched(b) /\ b \notin stored
  BY Known, NotStored DEF PlaceInv
<1>3. CASE Quarantined(bounty[b].poster, w)
  <2> DEFINE d == [bounty[b] EXCEPT !.state = "quarantined", !.verdict = "fail"]
  <2>1. Moves3(b, "sealing", d, escrow[b])
    BY <1>3 DEF IInv, TypeOK, Gate, Goto, Moves3, chain
  <2>2. d \in BountyRecords /\ d.state = "quarantined" /\ d.receipts = bounty[b].receipts
    BY Known DEF BountyRecords, States
  <2>3. ASSUME pc'[b] = "sealing", bounty'[b] = d, escrow'[b] = escrow[b] PROVE RunInv(b)'
    <3>1. Untouched(b)'
      BY <1>1, <1>2, <2>2, <2>3 DEF Untouched
    <3> QED BY <1>2, <2>2, <2>3, <3>1 DEF RunInv, PlaceInv, MoneyInv, RatingInv, ReceiptInv,
               StoredInv, Untouched, Unrated, Gate
  <2>4. "sealing" \in Steps
    BY DEF Steps, Waiting
  <2> HIDE DEF d
  <2> QED BY <1>1, <2>1, <2>2, <2>3, <2>4, Known, RunStep
<1>4. CASE ~Quarantined(bounty[b].poster, w)
  <2> DEFINE d == [bounty[b] EXCEPT !.worker = w]
  <2>1. Moves3(b, "locking", d, escrow[b])
    BY <1>4 DEF IInv, TypeOK, Gate, Goto, Moves3, chain
  <2>2. d \in BountyRecords /\ d.state = bounty[b].state /\ d.receipts = bounty[b].receipts
        /\ d.worker = w
    BY Known DEF BountyRecords
  <2>3. ASSUME pc'[b] = "locking", bounty'[b] = d, escrow'[b] = escrow[b] PROVE RunInv(b)'
    <3>1. Untouched(b)' /\ d.state = "draft"
      BY <1>1, <1>2, <2>2, <2>3, Known DEF Untouched, PlaceInv
    <3> QED BY <1>2, <2>2, <2>3, <3>1 DEF RunInv, PlaceInv, MoneyInv, RatingInv, ReceiptInv,
               StoredInv, Untouched, Unrated
  <2>4. "locking" \in Steps
    BY DEF Steps, Waiting
  <2> HIDE DEF d
  <2> QED BY <1>1, <2>1, <2>2, <2>3, <2>4, Known, RunStep
<1> QED BY <1>3, <1>4

LEMMA DiscoveredInv ==
  ASSUME IInv, NEW b \in Bounties, NEW found \in SUBSET Workers, Discovered(b, found)
  PROVE  IInv'
<1>1. PICK w \in Workers : Gate(b, w)
  BY DEF Discovered, Choices
<1> QED BY <1>1, GateInv DEF Discovered

LEMMA DiscoveryFailsInv == ASSUME IInv, NEW b \in Bounties, DiscoveryFails(b) PROVE IInv'
  BY RaisesUntouched, NotStored DEF DiscoveryFails

LEMMA LockedInv == ASSUME IInv, NEW b \in Bounties, Locked(b) PROVE IInv'
<1> DEFINE d == [bounty[b] EXCEPT !.state = "claimed"]
<1>1. Moves3(b, "executing", d, "locked")
  BY DEF IInv, TypeOK, Locked, Goto, Moves3
<1>2. d \in BountyRecords /\ d.state = "claimed" /\ d.receipts = bounty[b].receipts
      /\ d.worker = bounty[b].worker
  BY Known DEF BountyRecords, States
<1>3. Own(b) /\ RestType' /\ Unrated(b)' = Unrated(b)
  BY SameChain, SameRest DEF Locked
<1>4. Untouched(b) /\ b \notin stored /\ bounty[b].worker \in Workers
  BY Known, NotStored DEF Locked, PlaceInv
<1>5. ASSUME pc'[b] = "executing", bounty'[b] = d, escrow'[b] = "locked" PROVE RunInv(b)'
  <2>1. Open(b)'
    BY <1>2, <1>3, <1>4, <1>5 DEF Open, Untouched
  <2> QED BY <1>2, <1>4, <1>5, <2>1 DEF RunInv, PlaceInv, MoneyInv, RatingInv, ReceiptInv,
             StoredInv, Untouched, Open, Unrated, Locked
<1>6. "executing" \in Steps /\ "locked" \in Escrows
  BY DEF Steps, Waiting, Escrows
<1> HIDE DEF d
<1> QED BY <1>1, <1>2, <1>3, <1>5, <1>6, RunStep

(* A settlement call that raises: the escrow is one way or the other.       *)
LEMMA RaisesInEscrow ==
  ASSUME IInv, NEW b \in Bounties, NEW e \in Escrows, Raise(b), b \notin stored,
         escrow' = [escrow EXCEPT ![b] = e], UNCHANGED <<bounty, aceMoved, ratings, graph>>,
         escrow'[b] = e => MoneyInv(b)'
  PROVE  IInv'
<1>1. Moves3(b, "raised", bounty[b], e) /\ pc'[b] = "raised" /\ bounty'[b] = bounty[b]
      /\ escrow'[b] = e
  BY DEF IInv, TypeOK, Raise, Goto, Moves3
<1>2. Own(b) /\ RestType'
  BY SameChain, SameRest DEF Raise
<1>3. RatingInv(b)' /\ ReceiptInv(b)'
  BY <1>1, Known DEF RatingInv, ReceiptInv, Stars
<1>4. RunInv(b)'
  BY <1>1, <1>3 DEF RunInv, PlaceInv, StoredInv, Raise
<1>5. "raised" \in Steps
  BY DEF Steps
<1> QED BY <1>1, <1>2, <1>4, <1>5, Known, RunStep

LEMMA LockFailsInv == ASSUME IInv, NEW b \in Bounties, LockFails(b) PROVE IInv'
<1>1. PICK e \in {"none", "locked"} : escrow' = [escrow EXCEPT ![b] = e]
  BY DEF LockFails
<1>2. bounty[b].state = "draft" /\ b \notin stored
  BY Known, NotStored DEF LockFails, PlaceInv
<1>3. escrow'[b] = e => MoneyInv(b)'
  BY <1>2 DEF LockFails, MoneyInv
<1> QED BY <1>1, <1>2, <1>3, RaisesInEscrow DEF LockFails, Escrows

(* An Ace call of b: nobody else's money moves.                             *)
LEMMA AceCall ==
  ASSUME IInv, NEW b \in Bounties, NEW leg \in AceLegs,
         aceMoved' \in {aceMoved, aceMoved \cup {[bounty |-> b, leg |-> leg]}},
         UNCHANGED <<ratings, graph, stored>>, faults' = faults \/ Fault
  PROVE  Own(b) /\ RestType' /\ Unrated(b)' = Unrated(b) /\ aceMoved \subseteq aceMoved'
<1>1. Own(b) /\ Unrated(b)' = Unrated(b)
  BY DEF Own, Unrated
<1>2. RestType'
  BY FaultsAssumption DEF IInv, TypeOK, RestType, graph, Fault
<1> QED BY <1>1, <1>2

(* A countable receipt of an Ace call is money that moved.                  *)
LEMMA AceReceiptsAreReal ==
  ASSUME NEW b, NEW leg \in AceLegs, NEW answer, Pays(b, leg, answer),
         NEW r \in AceReceipts(leg, answer)
  PROVE  r.leg = leg /\ [bounty |-> b, leg |-> leg] \in aceMoved'
  BY DEF AceReceipts, Receipt, Pays, Moves

LEMMA ExecutedInv == ASSUME IInv, NEW b \in Bounties, NEW a \in AceAnswers, Executed(b, a)
                     PROVE  IInv'
<1> DEFINE rs == AceReceipts("service", a)
           d == [bounty[b] EXCEPT !.receipts = bounty[b].receipts \cup rs, !.state = "verifying"]
<1>1. Moves3(b, "verifying", d, escrow[b])
  BY DEF IInv, TypeOK, Executed, Goto, Moves3
<1>2. "service" \in AceLegs
  BY DEF AceLegs
<1>3. d \in BountyRecords
  <2>1. rs \in SUBSET Receipts /\ "verifying" \in States
    BY <1>2, AceReceiptsAreTyped DEF States
  <2> HIDE DEF rs
  <2> QED BY <2>1, Known, Receives
<1>4. d.state = "verifying" /\ d.receipts = bounty[b].receipts \cup rs
      /\ d.worker = bounty[b].worker /\ d.verdict = bounty[b].verdict
  BY Known DEF BountyRecords
<1>5. Own(b) /\ RestType' /\ Unrated(b)' = Unrated(b) /\ aceMoved \subseteq aceMoved'
  BY <1>2, AceCall DEF Executed, Pays, Moves
<1>6. Open(b) /\ b \notin stored /\ bounty[b].worker \in Workers
  BY Known, NotStored DEF Executed, PlaceInv
<1>7. ASSUME pc'[b] = "verifying", bounty'[b] = d, escrow'[b] = escrow[b] PROVE RunInv(b)'
  <2>1. Open(b)'
    BY <1>4, <1>5, <1>6, <1>7 DEF Open
  <2>2. ReceiptInv(b)'
    <3> SUFFICES ASSUME NEW r \in bounty'[b].receipts
                 PROVE  IF r.leg \in AceLegs
                          THEN IsCountable(r) => [bounty |-> b, leg |-> r.leg] \in aceMoved'
                          ELSE bounty'[b].state = "settled"
      BY DEF ReceiptInv
    <3>1. CASE r \in rs
      BY <1>2, <3>1, AceReceiptsAreReal DEF Executed
    <3>2. CASE r \in bounty[b].receipts
      BY <1>5, <1>6, <3>2, Known DEF ReceiptInv, Open
    <3> QED BY <1>4, <1>7, <3>1, <3>2
  <2> HIDE DEF d
  <2> QED BY <1>4, <1>6, <1>7, <2>1, <2>2 DEF RunInv, PlaceInv, MoneyInv, RatingInv, StoredInv,
             Open, Unrated, Executed
<1>8. "verifying" \in Steps
  BY DEF Steps, Waiting
<1> HIDE DEF d
<1> QED BY <1>1, <1>3, <1>5, <1>7, <1>8, Known, RunStep

LEMMA ExecuteFailsInv == ASSUME IInv, NEW b \in Bounties, ExecuteFails(b) PROVE IInv'
<1>1. "service" \in AceLegs
  BY DEF AceLegs
<1>2. Own(b) /\ RestType' /\ Unrated(b)' = Unrated(b) /\ aceMoved \subseteq aceMoved'
  BY <1>1, AceCall DEF ExecuteFails, MayHavePaid, Moves, Raise
<1>3. Moves3(b, "raised", bounty[b], escrow[b]) /\ pc'[b] = "raised"
  BY DEF IInv, TypeOK, ExecuteFails, Raise, Goto, Moves3
<1>4. Open(b) /\ b \notin stored
  BY Known, NotStored DEF ExecuteFails, PlaceInv
<1>5. ReceiptInv(b)'
  BY <1>2, Known DEF ReceiptInv, ExecuteFails
<1>6. Open(b)'
  BY <1>2, <1>4 DEF Open, ExecuteFails
<1>7. RunInv(b)'
  BY <1>3, <1>4, <1>5, <1>6 DEF RunInv, PlaceInv, MoneyInv, RatingInv, StoredInv, Open,
     Unrated, ExecuteFails, Raise
<1>8. "raised" \in Steps
  BY DEF Steps
<1> QED BY <1>2, <1>3, <1>7, <1>8, Known, RunStep

(* The verdict is in: the reward goes one way or the other.                 *)
LEMMA JudgedInv ==
  ASSUME IInv, NEW b \in Bounties, pc[b] \in {"verifying", "adjudicating"},
         NEW v \in {"pass", "fail"}, NEW rs \in SUBSET Receipts, Judged(b, v, rs),
         Own(b), RestType', Unrated(b)' = Unrated(b), aceMoved \subseteq aceMoved',
         UNCHANGED <<escrow, stored>>,
         \A r \in rs : r.leg \in AceLegs /\ [bounty |-> b, leg |-> r.leg] \in aceMoved'
  PROVE  IInv'
<1> DEFINE p == IF v = "pass" THEN "releasing" ELSE "refunding"
           d == [bounty[b] EXCEPT !.verdict = v, !.receipts = bounty[b].receipts \cup rs]
<1>1. Moves3(b, p, d, escrow[b])
  BY DEF IInv, TypeOK, Judged, Goto, Moves3
<1>2. d \in BountyRecords
  BY Known, Receives DEF States
<1>3. d.state = bounty[b].state /\ d.receipts = bounty[b].receipts \cup rs
      /\ d.worker = bounty[b].worker /\ d.verdict = v
  BY Known DEF BountyRecords
<1>4. Open(b) /\ b \notin stored /\ bounty[b].worker \in Workers
  BY Known, NotStored DEF PlaceInv
<1>5. ASSUME pc'[b] = p, bounty'[b] = d, escrow'[b] = escrow[b] PROVE RunInv(b)'
  <2>1. Open(b)'
    BY <1>3, <1>4, <1>5 DEF Open
  <2>2. ReceiptInv(b)'
    <3> SUFFICES ASSUME NEW r \in bounty'[b].receipts
                 PROVE  IF r.leg \in AceLegs
                          THEN IsCountable(r) => [bounty |-> b, leg |-> r.leg] \in aceMoved'
                          ELSE bounty'[b].state = "settled"
      BY DEF ReceiptInv
    <3>1. CASE r \in rs
      BY <3>1
    <3>2. CASE r \in bounty[b].receipts
      BY <1>4, <3>2, Known DEF ReceiptInv, Open
    <3> QED BY <1>3, <1>5, <3>1, <3>2
  <2> HIDE DEF d
  <2> QED BY <1>3, <1>4, <1>5, <2>1, <2>2 DEF RunInv, PlaceInv, MoneyInv, RatingInv, StoredInv,
             Open, Unrated
<1>6. p \in Steps
  BY DEF Steps, Waiting
<1> HIDE DEF d, p
<1> QED BY <1>1, <1>2, <1>5, <1>6, Known, RunStep

LEMMA VerifiedInv ==
  ASSUME IInv, NEW b \in Bounties, NEW v \in {"pass", "fail", "undecided"}, Verified(b, v)
  PROVE  IInv'
<1>1. CASE v = "undecided"
  <2>1. Goto(b, "adjudicating") /\ UNCHANGED <<bounty, chain, graph, stored, faults>>
    BY <1>1 DEF Verified
  <2>2. ASSUME pc'[b] = "adjudicating" PROVE PlaceInv(b)' /\ StoredInv(b)'
    BY <2>1, <2>2, Known, NotStored, SameRun DEF PlaceInv, StoredInv, Verified
  <2>3. "adjudicating" \in Steps
    BY DEF Steps, Waiting
  <2> QED BY <2>1, <2>2, <2>3, OnlyGoes
<1>2. CASE v # "undecided"
  <2>1. v \in {"pass", "fail"} /\ Judged(b, v, {}) /\ pc[b] \in {"verifying", "adjudicating"}
    BY <1>2 DEF Verified
  <2>2. Own(b) /\ RestType' /\ Unrated(b)' = Unrated(b)
    BY SameChain, SameRest DEF Verified, chain
  <2>3. aceMoved \subseteq aceMoved' /\ UNCHANGED <<escrow, stored>>
    BY DEF Verified, chain
  <2> QED BY <2>1, <2>2, <2>3, JudgedInv
<1> QED BY <1>1, <1>2

LEMMA AdjudicatedInv ==
  ASSUME IInv, NEW b \in Bounties, NEW v \in {"pass", "fail"}, NEW a \in AceAnswers,
         Adjudicated(b, v, a)
  PROVE  IInv'
<1>1. "judge" \in AceLegs
  BY DEF AceLegs
<1>2. AceReceipts("judge", a) \in SUBSET Receipts
  BY <1>1, AceReceiptsAreTyped
<1>3. Own(b) /\ RestType' /\ Unrated(b)' = Unrated(b) /\ aceMoved \subseteq aceMoved'
  BY <1>1, AceCall DEF Adjudicated, Pays, Moves
<1>4. \A r \in AceReceipts("judge", a) :
        r.leg \in AceLegs /\ [bounty |-> b, leg |-> r.leg] \in aceMoved'
  BY <1>1, AceReceiptsAreReal DEF Adjudicated
<1>5. /\ pc[b] \in {"verifying", "adjudicating"} /\ UNCHANGED <<escrow, stored>>
      /\ Judged(b, v, AceReceipts("judge", a))
  BY DEF Adjudicated
<1> QED BY <1>2, <1>3, <1>4, <1>5, JudgedInv

LEMMA AdjudicationFailsInv ==
  ASSUME IInv, NEW b \in Bounties, AdjudicationFails(b) PROVE IInv'
<1>1. "judge" \in AceLegs
  BY DEF AceLegs
<1>2. Own(b) /\ RestType' /\ Unrated(b)' = Unrated(b) /\ aceMoved \subseteq aceMoved'
  BY <1>1, AceCall DEF AdjudicationFails, MayHavePaid, Moves
<1>3. /\ pc[b] \in {"verifying", "adjudicating"} /\ UNCHANGED <<escrow, stored>>
      /\ Judged(b, "pass", {})
  BY DEF AdjudicationFails
<1> QED BY <1>2, <1>3, JudgedInv

(* What a settlement adds to an agent's countable payments.                 *)
LEMMA ObserveAdds ==
  ASSUME IInv, NEW w, NEW reward \in Rewards, Observe(w, RewardReceipts(reward))
  PROVE  /\ served' \in [Workers -> Nat]
         /\ \A v \in Workers : /\ served'[v] >= served[v]
                               /\ v = w /\ reward > 0 => served'[v] >= served[v] + 1
<1> DEFINE x == Receipt("reward", reward, TRUE)
           y == Receipt("refereeFee", RefereeFee(reward), TRUE)
           rs == RewardReceipts(reward)
           Payee(r) == IF r.leg = "reward" THEN w ELSE Referee
           counted(v) == {r \in rs : IsCountable(r) /\ Payee(r) = v}
<1>1. IsFiniteSet(rs)
  <2>1. rs = {x} \cup {y}
    BY DEF RewardReceipts
  <2> HIDE DEF x, y
  <2>2. IsFiniteSet({x} \cup {y})
    BY FS_Singleton, FS_AddElement
  <2> QED BY <2>1, <2>2
<1>2. served' = [v \in Workers |-> served[v] + Cardinality(counted(v))]
  BY DEF Observe
<1>3. ASSUME reward > 0 PROVE x \in counted(w)
  BY <1>3 DEF RewardReceipts, Receipt, IsCountable
<1>4. \A v \in Workers : counted(v) \in SUBSET rs
  OBVIOUS
<1> HIDE DEF rs, counted, x
<1>5. ASSUME NEW v \in Workers
      PROVE  /\ IsFiniteSet(counted(v)) /\ Cardinality(counted(v)) \in Nat
             /\ counted(v) # {} => Cardinality(counted(v)) # 0
  BY <1>1, <1>4, FS_Subset, FS_CardinalityType, FS_EmptySet
<1>6. \A v \in Workers : served[v] \in Nat
  BY DEF IInv, TypeOK
<1>7. served' \in [Workers -> Nat]
  BY <1>2, <1>5, <1>6
<1>8. ASSUME NEW v \in Workers
      PROVE  /\ served'[v] >= served[v]
             /\ v = w /\ reward > 0 => served'[v] >= served[v] + 1
  BY <1>2, <1>3, <1>5, <1>6
<1> QED BY <1>7, <1>8

LEMMA ReleasedInv == ASSUME IInv, NEW b \in Bounties, Released(b) PROVE IInv'
<1> DEFINE rs == RewardReceipts(bounty[b].reward)
           d == [bounty[b] EXCEPT !.receipts = bounty[b].receipts \cup rs, !.state = "settled"]
<1>1. Moves3(b, "rating", d, "released")
  BY DEF IInv, TypeOK, Released, Settled, Goto, Moves3
<1>2. rs \in SUBSET Receipts /\ "settled" \in States
  BY RewardReceiptsAreTyped, FieldsAreTyped, Known DEF States
<1>3. d.state = "settled" /\ d.receipts = bounty[b].receipts \cup rs
      /\ d.verdict = bounty[b].verdict
  BY Known DEF BountyRecords
<1>4. Own(b) /\ Unrated(b)' = Unrated(b)
  BY SameChain DEF Released
<1>5. RestType'
  BY ObserveAdds, FieldsAreTyped, Known DEF Released, Settled, IInv, TypeOK, RestType
<1>6. Open(b) /\ b \notin stored /\ bounty[b].verdict = "pass"
  BY Known, NotStored DEF Released, PlaceInv
<1>7. \A r \in rs : r.leg \notin AceLegs
  BY DEF RewardReceipts, Receipt, AceLegs
<1>8. d \in BountyRecords
  <2> HIDE DEF rs
  <2> QED BY <1>2, Known, Receives
<1>9. ASSUME pc'[b] = "rating", bounty'[b] = d, escrow'[b] = "released" PROVE RunInv(b)'
  <2>1. ReceiptInv(b)'
    <3> SUFFICES ASSUME NEW r \in bounty'[b].receipts, r.leg \in AceLegs, IsCountable(r)
                 PROVE  [bounty |-> b, leg |-> r.leg] \in aceMoved'
      BY <1>3, <1>9 DEF ReceiptInv
    <3>1. r \in bounty[b].receipts
      BY <1>3, <1>7, <1>9
    <3> QED BY <3>1, Known DEF ReceiptInv, Released
  <2> HIDE DEF d
  <2> QED BY <1>3, <1>4, <1>6, <1>9, <2>1 DEF RunInv, PlaceInv, MoneyInv, RatingInv, StoredInv,
             Open, Unrated, Released
<1>10. "rating" \in Steps /\ "released" \in Escrows
  BY DEF Steps, Waiting, Escrows
<1> HIDE DEF d
<1> QED BY <1>1, <1>4, <1>5, <1>8, <1>9, <1>10, RunStep

LEMMA ReleaseFailsInv == ASSUME IInv, NEW b \in Bounties, ReleaseFails(b) PROVE IInv'
<1>1. PICK e \in {"locked", "released"} : escrow' = [escrow EXCEPT ![b] = e]
  BY DEF ReleaseFails
<1>2. Open(b) /\ b \notin stored /\ bounty[b].verdict = "pass"
  BY Known, NotStored DEF ReleaseFails, PlaceInv
<1>3. escrow'[b] = e => MoneyInv(b)'
  BY <1>2 DEF ReleaseFails, MoneyInv, Open
<1> QED BY <1>1, <1>2, <1>3, RaisesInEscrow DEF ReleaseFails, Escrows

LEMMA RefundedInv == ASSUME IInv, NEW b \in Bounties, Refunded(b) PROVE IInv'
<1> DEFINE d == [bounty[b] EXCEPT !.state = "failed"]
<1>1. Moves3(b, "rating", d, "withdrawn")
  BY DEF IInv, TypeOK, Refunded, Goto, Moves3
<1>2. d \in BountyRecords /\ d.state = "failed" /\ d.receipts = bounty[b].receipts
      /\ d.verdict = bounty[b].verdict
  BY Known DEF BountyRecords, States
<1>3. Own(b) /\ RestType' /\ Unrated(b)' = Unrated(b)
  BY SameChain, SameRest DEF Refunded
<1>4. Open(b) /\ b \notin stored /\ bounty[b].verdict = "fail"
  BY Known, NotStored DEF Refunded, PlaceInv
<1>5. ASSUME pc'[b] = "rating", bounty'[b] = d, escrow'[b] = "withdrawn" PROVE RunInv(b)'
  <2>1. ReceiptInv(b)'
    BY <1>2, <1>4, <1>5, Known DEF ReceiptInv, Open, Refunded
  <2> HIDE DEF d
  <2> QED BY <1>2, <1>3, <1>4, <1>5, <2>1 DEF RunInv, PlaceInv, MoneyInv, RatingInv, StoredInv,
             Open, Unrated, Refunded
<1>6. "rating" \in Steps /\ "withdrawn" \in Escrows
  BY DEF Steps, Waiting, Escrows
<1> HIDE DEF d
<1> QED BY <1>1, <1>2, <1>3, <1>5, <1>6, RunStep

LEMMA RefundFailsInv == ASSUME IInv, NEW b \in Bounties, RefundFails(b) PROVE IInv'
<1>1. PICK e \in {"locked", "withdrawn"} : escrow' = [escrow EXCEPT ![b] = e]
  BY DEF RefundFails
<1>2. Open(b) /\ b \notin stored /\ bounty[b].verdict = "fail"
  BY Known, NotStored DEF RefundFails, PlaceInv
<1>3. escrow'[b] = e => MoneyInv(b)'
  BY <1>2 DEF RefundFails, MoneyInv, Open
<1> QED BY <1>1, <1>2, <1>3, RaisesInEscrow DEF RefundFails, Escrows

(* The one rating of b, given or perhaps given.                             *)
LEMMA RatesInv ==
  ASSUME IInv, NEW b \in Bounties, pc[b] = "rating", NEW p \in {"sealing", "raised"},
         ratings' \in {ratings, ratings \cup {Rating(b)}}, Goto(b, p),
         UNCHANGED <<bounty, escrow, aceMoved, graph, stored>>, faults' = faults \/ Fault
  PROVE  IInv'
<1>1. Moves3(b, p, bounty[b], escrow[b]) /\ pc'[b] = p
  BY DEF IInv, TypeOK, Goto, Moves3
<1>2. /\ bounty[b].state \in {"settled", "failed"} /\ Unrated(b) /\ b \notin stored
  BY Known, NotStored DEF PlaceInv
<1>3. Stars(b) \in 1 .. 5 /\ Stars(b)' = Stars(b)
  BY DEF Stars
<1>4. Own(b)
  BY DEF Own, Rating
<1>5. RestType'
  BY <1>3, FaultsAssumption DEF IInv, TypeOK, RestType, graph, Fault, Rating
<1>6. RatingInv(b)'
  BY <1>2, <1>3 DEF RatingInv, Unrated, Rating
<1>7. MoneyInv(b)' /\ ReceiptInv(b)'
  BY <1>2, Known DEF MoneyInv, ReceiptInv
<1>8. RunInv(b)'
  BY <1>1, <1>2, <1>6, <1>7 DEF RunInv, PlaceInv, StoredInv
<1>9. p \in Steps
  BY DEF Steps, Waiting
<1> QED BY <1>1, <1>4, <1>5, <1>8, <1>9, Known, RunStep

LEMMA SealedInv == ASSUME IInv, NEW b \in Bounties, Sealed(b) PROVE IInv'
<1>1. ASSUME pc'[b] = "returned" PROVE PlaceInv(b)' /\ StoredInv(b)'
  BY <1>1, Known DEF Sealed, PlaceInv, StoredInv
<1> QED BY <1>1, OnlyGoes DEF Sealed, Return, Steps

LEMMA RestartInv == ASSUME IInv, Restart PROVE IInv'
<1>1. TypeOK'
  BY FaultsAssumption DEF IInv, TypeOK, Restart, Fault, chain, Steps
<1>2. ASSUME NEW b \in Bounties PROVE RunInv(b)'
  <2>1. pc'[b] = (IF pc[b] \in Waiting THEN "lost" ELSE pc[b]) /\ stored' = {}
    BY DEF Restart
  <2>2. PlaceInv(b)' /\ StoredInv(b)'
    BY <2>1, SameRun, Known DEF Restart, PlaceInv, StoredInv, Waiting
  <2> QED BY <2>2, SameRun DEF RunInv, Restart
<1> QED BY <1>1, <1>2 DEF IInv

LEMMA NextIInv == IInv /\ [Next]_vars => IInv'
<1> SUFFICES ASSUME IInv, [Next]_vars PROVE IInv'
  OBVIOUS
<1>1. CASE Restart
  BY <1>1, RestartInv
<1>2. CASE UNCHANGED vars
  BY <1>2, StutterIInv
<1>3. ASSUME NEW b \in Bounties, Post(b) PROVE IInv'
  BY <1>3, PostInv
<1>4. ASSUME NEW b \in Bounties, Proceeds(b) PROVE IInv'
  <2>1. CASE NoWorkerFound(b)
    BY <2>1, NoWorkerFoundInv
  <2>2. CASE \E found \in SUBSET (Workers \ {bounty[b].poster}) \ {{}} : Discovered(b, found)
    BY <2>2, DiscoveredInv
  <2>3. CASE Locked(b)
    BY <2>3, LockedInv
  <2>4. CASE \E a \in AceAnswers : Executed(b, a)
    BY <2>4, ExecutedInv
  <2>5. CASE \E v \in {"pass", "fail", "undecided"} : Verified(b, v)
    BY <2>5, VerifiedInv
  <2>6. CASE \E v \in {"pass", "fail"}, a \in AceAnswers : Adjudicated(b, v, a)
    BY <2>6, AdjudicatedInv
  <2>7. CASE Released(b)
    BY <2>7, ReleasedInv
  <2>8. CASE Refunded(b)
    BY <2>8, RefundedInv
  <2>9. CASE Rated(b)
    BY <2>9, RatesInv DEF Rated
  <2>10. CASE Sealed(b)
    BY <2>10, SealedInv
  <2> QED BY <1>4, <2>1, <2>2, <2>3, <2>4, <2>5, <2>6, <2>7, <2>8, <2>9, <2>10 DEF Proceeds
<1>5. ASSUME NEW b \in Bounties, Fails(b) PROVE IInv'
  <2>1. CASE DiscoveryFails(b)
    BY <2>1, DiscoveryFailsInv
  <2>2. CASE LockFails(b)
    BY <2>2, LockFailsInv
  <2>3. CASE ExecuteFails(b)
    BY <2>3, ExecuteFailsInv
  <2>4. CASE AdjudicationFails(b)
    BY <2>4, AdjudicationFailsInv
  <2>5. CASE ReleaseFails(b)
    BY <2>5, ReleaseFailsInv
  <2>6. CASE RefundFails(b)
    BY <2>6, RefundFailsInv
  <2>7. CASE RatingFails(b)
    BY <2>7, RatesInv DEF RatingFails, Raise
  <2> QED BY <1>5, <2>1, <2>2, <2>3, <2>4, <2>5, <2>6, <2>7 DEF Fails
<1> QED BY <1>1, <1>2, <1>3, <1>4, <1>5 DEF Next

-----------------------------------------------------------------------------
(* What follows for every behaviour.                                        *)

(* Whatever the runs do, whichever call raises and whenever the process     *)
(* restarts, what each await of run() relies on holds (orchestrator.py).    *)
THEOREM InductiveInvariant == Spec => []IInv
<1> QED BY InitIInv, NextIInv, PTL DEF Spec

(* Every Bounty, receipt, payment and rating has the shape models.py and    *)
(* the sidecar give it.                                                     *)
THEOREM TypeCorrect == Spec => []TypeOK
<1>1. IInv => TypeOK
  BY DEF IInv
<1> QED BY <1>1, InductiveInvariant, PTL

(* A released reward was earned and a withdrawn one was not; whoever has    *)
(* five stars was paid, and whoever has one was not.                        *)
THEOREM MoneyHolds == Spec => []MoneyFollowsVerdict
<1>1. ASSUME IInv PROVE MoneyFollowsVerdict
  <2>1. ASSUME NEW x \in ratings
        PROVE  escrow[x.bounty] = (IF x.stars = 5 THEN "released" ELSE "withdrawn")
    <3>1. PICK b \in Bounties, s \in 1 .. 5 : x = [bounty |-> b, stars |-> s]
      BY <1>1 DEF IInv, TypeOK
    <3>2. bounty[b].state \in {"settled", "failed"} /\ s = Stars(b)
      BY <1>1, <3>1, Known DEF RatingInv
    <3>3. x.bounty = b /\ x.stars = s
      BY <3>1
    <3>4. CASE bounty[b].state = "settled"
      BY <1>1, <3>2, <3>3, <3>4, Known DEF MoneyInv, Stars
    <3>5. CASE bounty[b].state = "failed"
      BY <1>1, <3>2, <3>3, <3>5, Known DEF MoneyInv, Stars
    <3> QED BY <3>2, <3>4, <3>5
  <2>2. \A b \in Bounties : MoneyInv(b)
    BY <1>1, Known
  <2> QED BY <2>1, <2>2 DEF MoneyFollowsVerdict, MoneyInv
<1> QED BY <1>1, InductiveInvariant, PTL

(* GET /bounties never says that a reward was paid, or given back, when the *)
(* escrow on chain says otherwise.                                          *)
THEOREM StoredHolds == Spec => []StoredIsTrue
<1>1. ASSUME IInv PROVE StoredIsTrue
  <2>1. ASSUME NEW b \in stored
        PROVE  CASE bounty[b].state = "settled" -> escrow[b] = "released"
                 [] bounty[b].state = "failed"  -> escrow[b] = "withdrawn"
                 [] OTHER                       -> escrow[b] = "none"
    <3>1. b \in Bounties /\ pc[b] = "returned"
      BY <1>1 DEF IInv, TypeOK, RunInv, StoredInv
    <3>2. MoneyInv(b) /\ bounty[b].state \in {"settled", "failed", "quarantined", "expired"}
      BY <1>1, <3>1, Known DEF PlaceInv
    <3> QED BY <3>2 DEF MoneyInv, Untouched
  <2> QED BY <2>1 DEF StoredIsTrue
<1> QED BY <1>1, InductiveInvariant, PTL

(* GET /volume adds up nothing that did not move on chain.                  *)
THEOREM VolumeHolds == Spec => []VolumeIsReal
<1>1. ASSUME IInv PROVE VolumeIsReal
  <2>1. stored \subseteq Bounties
    BY <1>1 DEF IInv, TypeOK
  <2> QED BY <1>1, <2>1, Known DEF VolumeIsReal, MoneyInv, ReceiptInv
<1> QED BY <1>1, InductiveInvariant, PTL

(* A job the detector stopped never moves a lamport nor a star, whatever    *)
(* the other runs do and whatever it does after.                            *)
THEOREM QuarantineHolds == Spec => []QuarantineMovesNothing
<1>1. ASSUME IInv PROVE QuarantineMovesNothing
  <2> SUFFICES ASSUME NEW b \in Bounties, bounty[b].state = "quarantined"
               PROVE  /\ escrow[b] = "none" /\ bounty[b].receipts = {}
                      /\ \A m \in aceMoved \cup ratings : m.bounty # b
    BY DEF QuarantineMovesNothing
  <2>1. Untouched(b)
    BY <1>1, Known DEF MoneyInv
  <2>2. ASSUME NEW m \in aceMoved PROVE m.bounty # b
    <3>1. PICK c \in Bounties, leg \in AceLegs : m = [bounty |-> c, leg |-> leg]
      BY <1>1 DEF IInv, TypeOK
    <3> QED BY <2>1, <3>1 DEF Untouched, Unpaid
  <2>3. ASSUME NEW m \in ratings PROVE m.bounty # b
    <3>1. PICK c \in Bounties, s \in 1 .. 5 : m = [bounty |-> c, stars |-> s]
      BY <1>1 DEF IInv, TypeOK
    <3> QED BY <2>1, <3>1 DEF Untouched, Unrated
  <2> QED BY <2>1, <2>2, <2>3 DEF Untouched
<1> QED BY <1>1, InductiveInvariant, PTL

-----------------------------------------------------------------------------
(* The detector and the volume.  A reward is told to the detector before    *)
(* its run goes on to the rating, and counted in the volume after, so the   *)
(* runs between the two count as well.                                      *)

Watched(w) ==
  {b \in Bounties : /\ pc[b] \in {"rating", "sealing"} \/ b \in stored
                    /\ bounty[b].worker = w /\ bounty[b].state = "settled"
                    /\ bounty[b].reward > 0}

WatchInv ==
  \A w \in Workers : IsFiniteSet(Watched(w)) /\ Cardinality(Watched(w)) <= served[w]

LEMMA NoMoreWatched ==
  ASSUME IInv, WatchInv, NEW w \in Workers, Watched(w)' \subseteq Watched(w)
  PROVE  IsFiniteSet(Watched(w)') /\ Cardinality(Watched(w)') <= served[w]
<1>1. IsFiniteSet(Watched(w)) /\ Cardinality(Watched(w)) <= served[w]
  BY DEF WatchInv
<1>2. IsFiniteSet(Watched(w)') /\ Cardinality(Watched(w)') <= Cardinality(Watched(w))
  BY <1>1, FS_Subset
<1>3. /\ Cardinality(Watched(w)') \in Nat /\ Cardinality(Watched(w)) \in Nat
      /\ served[w] \in Nat
  BY <1>1, <1>2, FS_CardinalityType DEF IInv, TypeOK
<1> QED BY <1>1, <1>2, <1>3

(* A step of b that tells the detector nothing: b is not between the two    *)
(* places, or it was before.                                                *)
LEMMA QuietStep ==
  ASSUME IInv, WatchInv, NEW b \in Bounties, NEW p, Goto(b, p), UNCHANGED served,
         \A c \in Bounties \ {b} : bounty'[c] = bounty[c],
         stored' \in {stored, stored \cup {b}},
         \/ p \notin {"rating", "sealing"} /\ b \notin stored'
         \/ bounty'[b].state # "settled"
         \/ pc[b] \in {"rating", "sealing"} /\ bounty' = bounty
  PROVE  WatchInv'
<1>1. pc'[b] = p /\ \A c \in Bounties \ {b} : pc'[c] = pc[c]
  BY DEF IInv, TypeOK, Goto
<1>2. ASSUME NEW w \in Workers PROVE Watched(w)' \subseteq Watched(w)
  BY <1>1 DEF Watched
<1> QED BY <1>2, NoMoreWatched DEF WatchInv

LEMMA InitWatch == Init => WatchInv
<1> SUFFICES ASSUME Init, NEW w \in Workers
             PROVE  IsFiniteSet(Watched(w)) /\ Cardinality(Watched(w)) <= served[w]
  BY DEF WatchInv
<1>1. Watched(w) = {}
  BY DEF Init, Watched
<1>2. served[w] \in Nat
  BY InitIInv DEF IInv, TypeOK
<1> QED BY <1>1, <1>2, FS_EmptySet

LEMMA ReleasedWatch == ASSUME IInv, WatchInv, NEW b \in Bounties, Released(b) PROVE WatchInv'
<1> DEFINE r == bounty[b].reward
<1>1. r \in Rewards
  BY FieldsAreTyped, Known
<1>2. Observe(bounty[b].worker, RewardReceipts(r)) /\ UNCHANGED stored
  BY DEF Released, Settled
<1>3. bounty'[b].worker = bounty[b].worker /\ bounty'[b].reward = r
      /\ \A c \in Bounties \ {b} : bounty'[c] = bounty[c] /\ pc'[c] = pc[c]
  BY Known DEF Released, Settled, Goto, IInv, TypeOK, BountyRecords
<1> SUFFICES ASSUME NEW w \in Workers
             PROVE  IsFiniteSet(Watched(w)') /\ Cardinality(Watched(w)') <= served'[w]
  BY DEF WatchInv
<1>4. served[w] \in Nat /\ served'[w] \in Nat
  BY <1>1, <1>2, ObserveAdds DEF IInv, TypeOK
<1>5. CASE bounty[b].worker = w /\ r > 0
  <2>1. Watched(w)' \in SUBSET (Watched(w) \cup {b})
    BY <1>2, <1>3 DEF Watched
  <2>2. IsFiniteSet(Watched(w)) /\ Cardinality(Watched(w)) <= served[w]
    BY DEF WatchInv
  <2>3. /\ IsFiniteSet(Watched(w) \cup {b}) /\ Cardinality(Watched(w)) \in Nat
        /\ Cardinality(Watched(w) \cup {b}) <= Cardinality(Watched(w)) + 1
        /\ Cardinality(Watched(w) \cup {b}) \in Nat
    <3> DEFINE S == Watched(w)
    <3>1. IsFiniteSet(S) /\ Cardinality(S) \in Nat
      BY <2>2, FS_CardinalityType
    <3> HIDE DEF S
    <3>2. /\ IsFiniteSet(S \cup {b})
          /\ Cardinality(S \cup {b}) = IF b \in S THEN Cardinality(S) ELSE Cardinality(S) + 1
      BY <3>1, FS_AddElement
    <3>3. IsFiniteSet(S \cup {b}) /\ Cardinality(S \cup {b}) <= Cardinality(S) + 1
          /\ Cardinality(S \cup {b}) \in Nat
      BY <3>1, <3>2
    <3> QED BY <3>1, <3>3 DEF S
  <2>4. /\ IsFiniteSet(Watched(w)') /\ Cardinality(Watched(w)') \in Nat
        /\ Cardinality(Watched(w)') <= Cardinality(Watched(w) \cup {b})
    BY <2>1, <2>3, FS_Subset, FS_CardinalityType
  <2>5. served'[w] >= served[w] + 1
    BY <1>1, <1>2, <1>5, ObserveAdds
  <2> QED BY <1>4, <2>2, <2>3, <2>4, <2>5
<1>6. CASE ~(bounty[b].worker = w /\ r > 0)
  <2>1. Watched(w)' \subseteq Watched(w)
    BY <1>2, <1>3, <1>6 DEF Watched
  <2>2. /\ IsFiniteSet(Watched(w)') /\ Cardinality(Watched(w)') <= served[w]
    BY <2>1, NoMoreWatched
  <2>3. Cardinality(Watched(w)') \in Nat
    BY <2>2, FS_CardinalityType
  <2>4. served'[w] >= served[w]
    BY <1>1, <1>2, ObserveAdds
  <2> QED BY <1>4, <2>2, <2>3, <2>4
<1> QED BY <1>5, <1>6

LEMMA RestartWatch == ASSUME IInv, WatchInv, Restart PROVE WatchInv'
<1> SUFFICES ASSUME NEW w \in Workers
             PROVE  IsFiniteSet(Watched(w)') /\ Cardinality(Watched(w)') <= served'[w]
  BY DEF WatchInv
<1>1. Watched(w)' = {}
  BY DEF Restart, Watched, Waiting
<1>2. served'[w] = 0
  BY DEF Restart
<1> QED BY <1>1, <1>2, FS_EmptySet

LEMMA NextWatch == IInv /\ WatchInv /\ [Next]_vars => WatchInv'
<1> SUFFICES ASSUME IInv, WatchInv, [Next]_vars PROVE WatchInv'
  OBVIOUS
<1>1. CASE Restart
  BY <1>1, RestartWatch
<1>2. CASE UNCHANGED vars
  BY <1>2 DEF WatchInv, Watched, vars, graph
<1>3. ASSUME NEW b \in Bounties, Post(b) PROVE WatchInv'
  BY <1>3, QuietStep, NotStored DEF Post
<1>4. ASSUME NEW b \in Bounties, Proceeds(b) PROVE WatchInv'
  <2>1. CASE NoWorkerFound(b)
    <3>1. bounty'[b].state = "expired"
      BY <2>1 DEF NoWorkerFound, IInv, TypeOK, BountyRecords
    <3>2. \A c \in Bounties \ {b} : bounty'[c] = bounty[c]
      BY <2>1 DEF NoWorkerFound, IInv, TypeOK
    <3> QED BY <2>1, <3>1, <3>2, QuietStep DEF NoWorkerFound, Return, graph
  <2>2. CASE \E found \in SUBSET (Workers \ {bounty[b].poster}) \ {{}} : Discovered(b, found)
    <3>1. PICK w \in Workers : Gate(b, w)
      BY <2>2 DEF Discovered, Choices
    <3>2. pc[b] = "discovering" /\ UNCHANGED <<graph, stored>>
      BY <2>2 DEF Discovered
    <3>3. \A c \in Bounties \ {b} : bounty'[c] = bounty[c]
      BY <3>1 DEF Gate, IInv, TypeOK
    <3>4. CASE Quarantined(bounty[b].poster, w)
      <4>1. bounty'[b].state = "quarantined"
        BY <3>1, <3>4 DEF Gate, IInv, TypeOK, BountyRecords
      <4> QED BY <3>1, <3>2, <3>3, <3>4, <4>1, QuietStep DEF Gate, graph
    <3>5. CASE ~Quarantined(bounty[b].poster, w)
      BY <3>1, <3>2, <3>3, <3>5, QuietStep, NotStored DEF Gate, graph
    <3> QED BY <3>4, <3>5
  <2>3. CASE Locked(b)
    <3>1. \A c \in Bounties \ {b} : bounty'[c] = bounty[c]
      BY <2>3 DEF Locked, IInv, TypeOK
    <3> QED BY <2>3, <3>1, QuietStep, NotStored DEF Locked, graph
  <2>4. CASE \E a \in AceAnswers : Executed(b, a)
    <3>1. \A c \in Bounties \ {b} : bounty'[c] = bounty[c]
      BY <2>4 DEF Executed, IInv, TypeOK
    <3> QED BY <2>4, <3>1, QuietStep, NotStored DEF Executed, graph
  <2>5. CASE \E v \in {"pass", "fail", "undecided"} : Verified(b, v)
    <3>1. \A c \in Bounties \ {b} : bounty'[c] = bounty[c]
      BY <2>5 DEF Verified, Judged, IInv, TypeOK
    <3> QED BY <2>5, <3>1, QuietStep, NotStored DEF Verified, Judged, graph
  <2>6. CASE \E v \in {"pass", "fail"}, a \in AceAnswers : Adjudicated(b, v, a)
    <3>1. \A c \in Bounties \ {b} : bounty'[c] = bounty[c]
      BY <2>6 DEF Adjudicated, Judged, IInv, TypeOK
    <3> QED BY <2>6, <3>1, QuietStep, NotStored DEF Adjudicated, Judged, graph
  <2>7. CASE Released(b)
    BY <2>7, ReleasedWatch
  <2>8. CASE Refunded(b)
    <3>1. bounty'[b].state = "failed"
      BY <2>8 DEF Refunded, IInv, TypeOK, BountyRecords
    <3>2. \A c \in Bounties \ {b} : bounty'[c] = bounty[c]
      BY <2>8 DEF Refunded, IInv, TypeOK
    <3> QED BY <2>8, <3>1, <3>2, QuietStep DEF Refunded, graph
  <2>9. CASE Rated(b)
    BY <2>9, QuietStep DEF Rated, graph
  <2>10. CASE Sealed(b)
    BY <2>10, QuietStep DEF Sealed, Return, graph
  <2> QED BY <1>4, <2>1, <2>2, <2>3, <2>4, <2>5, <2>6, <2>7, <2>8, <2>9, <2>10 DEF Proceeds
<1>5. ASSUME NEW b \in Bounties, Fails(b) PROVE WatchInv'
  <2>1. CASE AdjudicationFails(b)
    <3>1. \A c \in Bounties \ {b} : bounty'[c] = bounty[c]
      BY <2>1 DEF AdjudicationFails, Judged, IInv, TypeOK
    <3> QED BY <2>1, <3>1, QuietStep, NotStored DEF AdjudicationFails, Judged, graph
  <2>2. CASE ~AdjudicationFails(b)
    <3>1. pc[b] # "returned" /\ Raise(b) /\ UNCHANGED <<bounty, served>>
      BY <1>5, <2>2 DEF Fails, DiscoveryFails, LockFails, ExecuteFails, ReleaseFails,
         RefundFails, RatingFails, graph
    <3> QED BY <3>1, QuietStep, NotStored DEF Raise
  <2> QED BY <2>1, <2>2
<1> QED BY <1>1, <1>2, <1>3, <1>4, <1>5 DEF Next

(* The detector knows of every reward that GET /volume counts, whichever    *)
(* run ended how, and also after a restart.                                 *)
THEOREM VolumeIsWatchedHolds == Spec => []VolumeIsWatched
<1>1. ASSUME IInv, WatchInv PROVE VolumeIsWatched
  <2> SUFFICES ASSUME NEW w \in Workers
               PROVE  Cardinality({b \in stored :
                                     /\ bounty[b].worker = w /\ bounty[b].state = "settled"
                                     /\ bounty[b].reward > 0}) <= served[w]
    BY DEF VolumeIsWatched
  <2> DEFINE S == {b \in stored : /\ bounty[b].worker = w /\ bounty[b].state = "settled"
                                  /\ bounty[b].reward > 0}
  <2>1. S \subseteq Watched(w)
    BY <1>1 DEF IInv, TypeOK, Watched
  <2>2. IsFiniteSet(Watched(w)) /\ Cardinality(Watched(w)) <= served[w] /\ served[w] \in Nat
    BY <1>1 DEF WatchInv, IInv, TypeOK
  <2> HIDE DEF S
  <2>3. IsFiniteSet(S) /\ Cardinality(S) <= Cardinality(Watched(w))
    BY <2>1, <2>2, FS_Subset
  <2>4. Cardinality(S) \in Nat /\ Cardinality(Watched(w)) \in Nat
    BY <2>2, <2>3, FS_CardinalityType
  <2>5. Cardinality(S) <= served[w]
    BY <2>2, <2>3, <2>4
  <2> QED BY <2>5 DEF S
<1> QED BY <1>1, InductiveInvariant, InitWatch, NextWatch, PTL DEF Spec
=============================================================================
