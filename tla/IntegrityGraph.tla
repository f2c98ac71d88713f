---------------------------- MODULE IntegrityGraph ----------------------------
(***************************************************************************)
(* The anti-collusion detector, integrity/graph.py: what it is told of      *)
(* payments, specifications and funders, the four signals it computes from  *)
(* that, and whom it quarantines.                                           *)
(*                                                                         *)
(* A signal is a real number between 0 (collusion) and 1 (clean); all that  *)
(* is done with the least of them is to compare it with the threshold       *)
(* 0.35.  Here a signal is low or not, by exact comparisons of integers;    *)
(* logarithms are in thousandths, which decides as the code's floats do for *)
(* every distribution of up to MaxPayments payments.                        *)
(***************************************************************************)
EXTENDS Integers, Sequences, FiniteSets, Functions

CONSTANTS
  Agents,      \* wallets: posters, workers, funders
  None,        \* the funder of a wallet nothing is known of
  Specs,       \* fingerprints of specifications
  Receipts,    \* [amount, tx]: what is reported of a payment
  Histories,   \* what the graph may have been told before
  MaxNews      \* how much it is told in a behaviour

ASSUME AgentsAssumption == IsFiniteSet(Agents) /\ None \notin Agents
ASSUME ReceiptsAssumption == Receipts \subseteq [amount : Nat, tx : BOOLEAN]
ASSUME NewsAssumption == MaxNews \in Nat
ASSUME SpecsAssumption == IsFiniteSet(Specs)

VARIABLES
  amount,      \* _edges: the value paid by one agent to another
  pairs,       \* _pairs: payee -> payer -> number of payments
  specs,       \* _specs: poster -> fingerprint -> how often
  funder,      \* _funding_parent
  news         \* how much the graph was told

vars == <<amount, pairs, specs, funder, news>>

-----------------------------------------------------------------------------

Log2 == <<0, 1000, 1585, 2000, 2322, 2585, 2807, 3000, 3170, 3322, 3459, 3585>>

MaxPayments == Len(Log2)

Threshold == 35      \* QUARANTINE_THRESHOLD, in percent

Total(f) == SumFunction(f)

(* Mutants of PairingIsLow: the newness of a worker does not count, or is   *)
(* measured by how many customers it has.                                   *)
PairingIsLowFromStart(w) ==
  LET t == Total(pairs[w])
  IN  t > 0 /\ \E x \in Agents : pairs[w][x] = t

PairingIsLowWithTwo(w) ==
  LET t == Total(pairs[w])
      repeats == Total([x \in Agents |-> IF pairs[w][x] = 0 THEN 0
                                          ELSE pairs[w][x] * Log2[pairs[w][x]]])
  IN  /\ Cardinality({x \in Agents : pairs[w][x] > 0}) >= 2
      /\ t >= 3
      /\ 100 * (t * Log2[t] - repeats) < Threshold * t * Log2[IF t < 4 THEN t ELSE 4]

(* _pairing_entropy: log t - (sum of c log c) / t is the entropy of counts  *)
(* c with total t; it is set against that of four customers at most.        *)
PairingIsLow(w) ==
  LET t == Total(pairs[w])
      repeats == Total([x \in Agents |-> IF pairs[w][x] = 0 THEN 0
                                          ELSE pairs[w][x] * Log2[pairs[w][x]]])
  IN  /\ t >= 3
      /\ 100 * (t * Log2[t] - repeats) < Threshold * t * Log2[IF t < 4 THEN t ELSE 4]

Least(m, n) == IF m < n THEN m ELSE n

(* What comes back to w: from each agent b it pays, directly and through    *)
(* each agent b pays.                                                       *)
Returned(w) ==
  Total([b \in Agents |->
    IF amount[w][b] = 0 THEN 0
    ELSE amount[b][w] + Total([c \in Agents |-> Least(amount[b][c], amount[c][w])])])

(* _cycle_conservation.                                                     *)
ValueIsLow(w) ==
  LET outbound == Total(amount[w])
  IN  outbound > 0 /\ 100 * Returned(w) > (100 - Threshold) * outbound

(* _spec_diversity.                                                         *)
SpecsAreLow(p) ==
  LET n == Total(specs[p])
  IN  n >= 3 /\ 100 * Cardinality({s \in Specs : specs[p][s] > 0}) < Threshold * n

(* _ancestors: up to four funders up, until one is unknown or seen before.  *)
Ancestors(a) ==
  LET walk[i \in 0 .. 4] ==
        IF i = 0 THEN [cur |-> a, seen |-> {}]
        ELSE LET before == walk[i - 1]
                 parent == funder[before.cur]
             IN  IF parent \in before.seen \cup {None} THEN before
                 ELSE [cur |-> parent, seen |-> before.seen \cup {parent}]
  IN  walk[4].seen

(* _funding_independence, and the plain self-dealing check of assess.       *)
FundingIsLow(p, w) == p = w \/ Ancestors(p) \cap Ancestors(w) # {}

(* Mutant of Quarantined: one bad signal is made up for by three good ones. *)
QuarantinedByTwo(p, w) ==
  \/ PairingIsLow(w) /\ (ValueIsLow(w) \/ SpecsAreLow(p) \/ FundingIsLow(p, w))
  \/ ValueIsLow(w) /\ (SpecsAreLow(p) \/ FundingIsLow(p, w))
  \/ SpecsAreLow(p) /\ FundingIsLow(p, w)

(* assess(poster, worker).quarantined: the least signal is below the        *)
(* threshold.                                                               *)
Quarantined(p, w) ==
  PairingIsLow(w) \/ ValueIsLow(w) \/ SpecsAreLow(p) \/ FundingIsLow(p, w)

-----------------------------------------------------------------------------

Nothing ==
  [paid |-> [a \in Agents |-> [b \in Agents |-> 0]],
   posted |-> [a \in Agents |-> [s \in Specs |-> 0]],
   funder |-> [a \in Agents |-> None]]

(* A history is of this shape, with no more payments than Log2 covers.      *)
ASSUME HistoriesAssumption ==
  \A h \in Histories :
    /\ h.paid \in [Agents -> [Agents -> Nat]]
    /\ h.posted \in [Agents -> [Specs -> Nat]]
    /\ h.funder \in [Agents -> Agents \cup {None}]
    /\ \A w \in Agents : Total(h.paid[w]) <= MaxPayments

(* Payments of amount 1 each, specifications and funders of some history.   *)
Init ==
  /\ \E h \in Histories :
       /\ pairs = h.paid
       /\ amount = [a \in Agents |-> [b \in Agents |-> h.paid[b][a]]]
       /\ specs = h.posted
       /\ funder = h.funder
  /\ news = 0

News == news < MaxNews /\ news' = news + 1

(* observe, which passes over a receipt that is not countable.              *)
Observe(payer, payee, r) ==
  /\ Total(pairs[payee]) < MaxPayments
  /\ IF r.tx /\ r.amount > 0
       THEN /\ amount' = [amount EXCEPT ![payer][payee] = @ + r.amount]
            /\ pairs' = [pairs EXCEPT ![payee][payer] = @ + 1]
       ELSE UNCHANGED <<amount, pairs>>
  /\ News
  /\ UNCHANGED <<specs, funder>>

ObserveSpec(poster, s) ==
  /\ specs' = [specs EXCEPT ![poster][s] = @ + 1]
  /\ News
  /\ UNCHANGED <<amount, pairs, funder>>

ObserveFunding(wallet, by) ==
  /\ funder' = [funder EXCEPT ![wallet] = by]
  /\ News
  /\ UNCHANGED <<amount, pairs, specs>>

Next ==
  \/ \E payer, payee \in Agents, r \in Receipts : Observe(payer, payee, r)
  \/ \E a \in Agents, s \in Specs : ObserveSpec(a, s)
  \/ \E a, b \in Agents : ObserveFunding(a, b)

Spec == Init /\ [][Next]_vars

(* Counts and values are numbers, of as many payments as Log2 covers.       *)
TypeOK ==
  /\ amount \in [Agents -> [Agents -> Nat]]
  /\ pairs \in [Agents -> [Agents -> Nat]]
  /\ specs \in [Agents -> [Specs -> Nat]]
  /\ funder \in [Agents -> Agents \cup {None}]
  /\ news \in 0 .. MaxNews
  /\ \A w \in Agents : Total(pairs[w]) <= MaxPayments

(* The two books observe keeps, of values and of counts, tell of the same   *)
(* payments, though two signals read one each.                              *)
BooksAgree ==
  \A a, b \in Agents :
    /\ pairs[b][a] <= amount[a][b]
    /\ pairs[b][a] = 0 => amount[a][b] = 0

-----------------------------------------------------------------------------
(* What honest and colluding agents are, in terms of the graph alone.       *)

(* No customer made more than half of the payments, or there are too few.   *)
HasCustomers(w) ==
  LET t == Total(pairs[w])
  IN  t < 3 \/ \A x \in Agents : 2 * pairs[w][x] <= t

Payees(a) == {b \in Agents : amount[a][b] > 0}

(* No money that leaves w comes back on any way: it stays among agents that *)
(* do not pay w.                                                            *)
OneWay(w) ==
  \E S \in SUBSET (Agents \ {w}) :
    Payees(w) \subseteq S /\ \A a \in S : Payees(a) \subseteq S

(* At least half of the poster's specifications are new ones.               *)
VariesSpecs(p) == Total(specs[p]) <= 2 * Cardinality({s \in Specs : specs[p][s] > 0})

(* Whoever is at most four steps up, by the definition of a step.           *)
ShareFunder(a, b) ==
  LET up(x) == IF x = None THEN None ELSE funder[x]
      within(x) == {up(x), up(up(x)), up(up(up(x))), up(up(up(up(x))))} \ {None}
  IN  within(a) \cap within(b) # {}

(* Two thirds of the value of payments x come back as y.                    *)
Launders(x, y) == x > 0 /\ 3 * y >= 2 * x

Laundry(w) ==
  \E b \in Agents \ {w} :
    /\ amount[w][b] = Total(amount[w])
    /\ \/ Launders(amount[w][b], amount[b][w])
       \/ \E c \in Agents \ {w, b} :
            Launders(amount[w][b], amount[b][c]) /\ Launders(amount[w][b], amount[c][w])

(* "unknown -> innocent.  We do not punish newness" (graph.py) and "honest  *)
(* worker: quarantined=False" (README): a worker with several customers or  *)
(* hardly any payments, whose money does not come back on any way, working  *)
(* for another operator that varies its specifications, is never            *)
(* quarantined, however uneven its customers are otherwise.                 *)
HonestWorkersAreClean ==
  \A p, w \in Agents :
    HasCustomers(w) /\ OneWay(w) /\ VariesSpecs(p) /\ p # w /\ ~ShareFunder(p, w)
      => ~Quarantined(p, w)

(* One poster serving as the only customer, a laundry over two or three     *)
(* wallets, a farm of equal specifications, an operator with two wallets.   *)
Colludes(p, w) ==
  \/ Total(pairs[w]) >= 3 /\ \E x \in Agents : pairs[w][x] = Total(pairs[w])
  \/ Laundry(w)
  \/ Total(specs[p]) >= 3 /\ \E s \in Specs : specs[p][s] = Total(specs[p])
  \/ p = w \/ ShareFunder(p, w)

(* "A single strong collusion signal should not be dilutable by three weak  *)
(* innocent ones" (graph.py): each of these is caught, whatever else the    *)
(* two agents do.                                                           *)
CollusionIsCaught == \A p, w \in Agents : Colludes(p, w) => Quarantined(p, w)

(* w is paid for the first time by x, which got no money from w or from     *)
(* those w pays.                                                            *)
FirstPayment(x, w) ==
  /\ pairs[w][x] = 0 /\ pairs'[w][x] = 1
  /\ x # w /\ amount[w][x] = 0
  /\ \A b \in Agents : amount[w][b] > 0 => amount[b][x] = 0

(* Faking entropy "means acquiring real distinct counterparties" (README),  *)
(* and conversely: such a new customer never brings a worker that was clean *)
(* for some poster into quarantine.                                         *)
NewCustomerNeverAccuses ==
  [][\A p, w, x \in Agents :
       FirstPayment(x, w) /\ ~Quarantined(p, w) => ~Quarantined(p, w)']_vars
=============================================================================
