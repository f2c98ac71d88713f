# Merita in TLA+

Merita judges work that one agent does for another. A poster seals an acceptance
test; a worker delivers; Merita runs the sealed test in a sandbox and says pass,
fail or "I could not decide". Around that referee the repository builds two
things: a **paid verification service** (`asp/`), where a buyer pays per verdict
over x402, and a **bounty market** (`brain/merita/`), where the verdict releases
or returns an on-chain escrow.

This directory models both in TLA+, checks the models with TLC on small
instances, and proves the main results with TLAPS for all instances.

    tlc -workers 2 -config MCPaid.cfg MCPaidVerification.tla
    tlapm PaidVerificationProofs.tla

Only `PaidVerification`, `CommitStore`, `Orchestrator` and `IntegrityGraph` have an
`MC...` module, which defines the small sets their constants take; the other
configurations give model values and numbers directly.

## 1. The system

| component | code | state | operations |
|---|---|---|---|
| commitment store | `asp/store.py` | Postgres rows: task, test, nonce, hash; verdict log | `commit`, `get`, `record_verdict`, reads |
| facilitator client | `asp/okx_x402.py` | none of its own | `settle_or_accept` over `_call` |
| paywall | `asp/paywall.py` | none; the body it has drained | one ASGI handler: drain, pass, challenge, reject, settle and pass, replay the body |
| plain HTTP door | `asp/http_x402.py` | none; locals of a request | `verify_http` |
| MCP tools, free doors | `asp/server.py` | none; precheck, tokens | `verify_deliverable`, `commit_acceptance_test`, `internal_verify`, `public_*` |
| referee, tier 1 | `referee/tier1.py`, `service.py`, both clients | none | two sandbox runs, one verdict |
| referee, tier 2 | `referee/tier2.py` | none | one Ace call, thresholds |
| orchestrator | `orchestrator.py`, `rails/router.py`, `main.py` | bounties, sealed tests, `STATE`; the escrow on chain | `run` |
| integrity graph | `integrity/graph.py` | payments, specifications, funders | `observe`, `assess` |
| delivery worker | `asp/a2a_worker.py` | a file per job; the job on chain | wallet gate, status gate, verdict, write, deliver |
| sidecar | outside; client in `sidecar.py` | the chain | discover, lock, settle, withdraw, rate, seal |

How they interact. A request enters the paywall, which passes it, answers it, or
settles its payment through the facilitator and passes it on. The HTTP door does
its own settlement. Both then read the store, call the verifier and append to the
log. Several instances of the server may share the database (a rolling deploy).
The orchestrator awaits the sidecar, Ace, the verifier and the judge in turn;
runs of different bounties interleave at each await and share the graph and
`STATE`. The delivery worker is a process of its own: it calls the server's
internal door for a verdict and the OnchainOS CLI for everything else, and is run
again by its supervisor when it exits non-zero.

What is hard: commits racing in the database; a settlement whose answer is lost;
buyers that settle first or retry; posters and other buyers acting between two
reads of one request; a failing database after the money has moved; sandbox runs
that end in a dozen ways; a chain call that raises after taking effect; a restart
between any two steps; a client that hangs up in the middle of its body; a worker
killed while it writes the file it will deliver. `PROJECT.json` lists these hazards at their lines, each
with the properties that would catch it going wrong.

What makes each part correct:

* store: one test per task for ever, and posters are told the truth about it;
* facilitator client: honoured means paid, and who has paid is honoured;
* paywall: paid tools cost money, everything else is free, a paid replay is
  settled instead of being challenged again, and the app behind it gets the whole
  stream;
* doors: no verdict unpaid, `charged` is true and only a failure leaves a payer
  without it, the judged test is the sealed one, a payer gets its verdict in the end;
* referee: no honest worker rejected by a broken test, host or judge; no unearned pass;
* orchestrator: money and ratings follow the verdict; what the API shows is true
  of the chain; a reward is locked once and leaves once, as the last verdict
  says; a quarantined job moves nothing;
* integrity graph: collusion is caught whatever else the two agents do, honest
  agents are not, and new customers never make a worker look worse;
* delivery worker: exit 0 means delivered, nothing is judged before the escrow is
  funded, the client gets a whole document with its own message, and a funded job
  is delivered in the end.

## 2. The modules

| module | models | needs |
|---|---|---|
| `SealedLedger` | abstract: tasks are sealed once, promises and verdicts are about the seal | |
| `CommitStore` | `commit` statement by statement, in several processes | `SealedLedger` |
| `Referee` | one judgement, from the reveal to what the caller acts on | |
| `Facilitator` | one authorization, its settlement, and how answers are read | |
| `Paywall` | a request through the paywall: stream, branches, payment, replay | `Facilitator` |
| `PaidVerification` | requests through all doors over one store | `SealedLedger` |
| `Escrow` | abstract: locked once, judged once, out once, to the side of the verdict | |
| `Orchestrator` | concurrent bounties, chain calls, graph, `STATE` | `Escrow` |
| `IntegrityGraph` | the four signals over any graph, and whom they quarantine | |
| `A2AWorker` | the processes that deliver one job | |
| `MC...` | instances for TLC | the above |
| `...Proofs` | theorems: `CommitStore`, `PaidVerification`, `Orchestrator`, `Escrow` (the refinement), `Referee`, `Paywall`, `IntegrityGraph`, `A2AWorker` | the above, TLAPS |

The parts are composed through what they promise. `CommitStore` is shown to
implement `SealedLedger`; `PaidVerification` uses the store as that ledger, one
atomic step per call, and is shown to implement the ledger again, whatever its
doors interleave. Its facilitator actions (`Settles`, `SettledAlready`,
`Declines`, `FacilitatorSilent`, `FacilitatorGarbles`) are what `Facilitator`
makes of the possible answers (theorem `PaymentDecided`); its three outcomes, those of `Orchestrator`'s
`Verified` and `Adjudicated`, and the three verdicts of `A2AWorker` are what
`Referee` ends with. `Paywall` extends `Facilitator` and puts its actions behind
the branch that settles. `Orchestrator` is shown to implement `Escrow`. Its graph
is the part of `IntegrityGraph` that its runs can move.

### CommitStore
`calls` holds where each process is in `commit`: the INSERT (which waits while
another transaction holds an uncommitted row of the same key, as Postgres'
unique index makes it), the end of the transaction, the conflict's SELECT, the
answer. `Fail` is a lost connection or a killed process at any statement; the
row is then rolled back, or stands when the commit had reached the server.
`Get` is a reader. A hash is the pair of test and nonce: collision-free, and it
hides the test only through the nonce.

### Referee
A *job* says what the poster's test does to this deliverable (accepts, rejects,
differs from run to run, raises, or breaks in one of five ways), whether the
reveal matches and who asks. A sandbox run ends in any way that behaviour allows,
or is killed, overruns the wall clock, or is refused by the host. Both runs are kept
(`first`, `second`), so that a verdict can be held against what each of them said:
who rejects or passes on one of two contradicting runs is caught. `Undecided` is
what both clients make of every exception. For a bounty the judge follows; its
confidence and score are percentages around the two thresholds, and NaN, which
Python's `float` accepts.

### Facilitator
An answer is what the code looks at: JSON or not, `code`, the fields `success`,
`settled`, `transaction`, and where a marker like "already used" stands. The
authorization moves its money at most once (`spent`), through the server or
because its buyer settles it, and may be presented as often as the buyer likes;
a call whose answer is lost may or may not have settled it. The constants
`MarkerPlaces` and `FailedSettled` say what the facilitator, which is outside the
repository, may send: a spent authorization may be spoken of in `data`, in `msg`,
or not at all ("none": it is only called expired, say), and a failed settlement
may have a field `settled`. The run states its assumption.

### Paywall
A request is a path, a method, a payment header name, an x402 signal, an Accept
header, a kind of body, and how many messages the body comes in. `Drain` is one
`receive()` of `_drain`, which ends at the last message or at the disconnect of a
client that left; what was read is parsed as the whole body (`Seen`). `Branch` is
the list of early returns in order. A handed-on request hears the drained body
once and then the transport (`Receive` is `_replay`); the app ends when it has
its body, or gives up when it hears a disconnect. `PaymentRaises` is a payment
header or an answer of the facilitator that is JSON of another shape and makes
`_call` raise. The buyer is an x402 client: it
sends the same request again with a payment when challenged, pays unasked, hangs
up anywhere and comes again.

### PaidVerification
One request per buyer at a time, on one of three doors; each await or database
call of the handlers is an action, so everything else may happen between two of
them. `spent` is the chain: the authorizations that have moved money. Faults
(`Fails`) are the facilitator silent or garbled, the database failing at any
read (of the free doors too), at the seal (before or after it took effect) or at
the log, the time limit, a dropped connection. `Retry` sends the same call again. Two history
fields say that the request made the seal itself (`own`) and that the precheck
failed (`blind`); the reply's `paid` records the chain at the moment of the answer.

### Orchestrator
`pc` is the await a run is in. A sidecar call returns (`Locked`, `Executed`,
`Released`, ...) or raises (`LockFails`, ...), and then may have taken effect or
not. Exceptions end in `Raise` (the 502 of `main.run`, nothing stored), except
in the judge (work passes) and the audit seal (ignored). The graph is reduced
to what these runs can make it see: every reward is booked as paid by the one
`POSTER_WALLET`, so a payee's pairing entropy is 1 below three payments and 0
after; Ace pays nobody, so there is no cycle; nobody calls `observe_funding`.
`Restart` loses the runs, the graph and `STATE`, not the chain. The refinement to
`Escrow` maps a bounty's verdict to the last one its run has reached, tier 2's
when there is one.

### IntegrityGraph
The state is what `observe`, `observe_spec` and `observe_funding` have collected.
A signal is compared with the quarantine threshold by integers: ratios are
multiplied out, logarithms are in thousandths, which is exact enough to decide as
the code's floats do for every distribution of up to `MaxPayments` (12) payments.
`Returned` follows 2- and 3-cycles as the code does, counting the last edge once
for every way to it. `Orchestrator`'s reduction agrees with this module: for a worker
that only the market's wallet pays, the four signals come to "deals with itself,
has three payments, or works for a poster of low specifications", which is theorem
`MarketGateHolds`.

### A2AWorker
One job, and the processes run for it. `pc` is where `process` is: the wallet
gate, the status gate, the fetch, and within `deliver` the truncated file, the
written file and the CLI call. The CLI's status text mentions the current status
alone or among others (`Texts`): statuses the job has had, and those in the
constant `Stray`, which it has not ("not yet accepted", a field `disputed_at`);
`StatusIn` is `task_status`, a search for substrings in a fixed order. The CLI delivers what the file holds at that moment. `job.alone` says
whether the supervisor keeps processes of the job apart. Faults are a logged-out
wallet, a text without a status, a server that fails or is not reached, a 404
that is not the server's (`Misrouted`), a delivery that fails or whose answer is lost, and a kill at any step. The client
advances the job, the poster may seal its test at any moment.

## 3. The runs

| run | instance | states | shows |
|---|---|---|---|
| `commit_store` | 2 processes, 2 tasks, 2 tests, 3 nonces | 300,300 | one seal per task, truth to posters, hiding, refinement, every call ends |
| `referee` | all behaviours, percentages 0, 44, 45, 69, 70, 100, NaN | 933 | who may be rejected, who may pass |
| `paywall` | every request shape in 1 or 2 messages, x402 configured or not, markers in `data`, failures without `settled` | 200,557 | what is billed, free, settled; a payer is served; the stream |
| `paid` | 2 buyers, every call, 2 authorizations, 1 task, 2 tests, 2 faults | 1.76 million | the safety of the doors, refinement |
| `paid_live` | 2 payers of one authorization and one task, 2 faults | 123,000 | a payer gets its verdict |
| `orchestrator` | 3 bounties, 1 poster, 3 agents, 1 fault | 2.16 million | money, ratings, receipts and API agree; implements `Escrow` |
| `integrity` | 4 wallets, 2 specifications, 2 more observations | 108,385 (up to symmetry) | who is caught and who is clean |
| `a2a` | 2 processes, 1 fault, every job, test sealed or not, texts that mention any status but "accepted" | 600,804 | exit codes, gates, the document, delivery in the end |
| `referee_raises`, `paid_precommitted`, `orchestrator_honest`, `a2a_outage` | small | | a statement of the documentation that the code does not keep |

Why the bounds are enough. Everything the store or a door does is about one key
or one authorization at a time, so two parties are what it takes to disturb one,
and a second task or test is what it takes to confuse them; the proofs cover all
sizes. Three nonces let two calls differ and one be retried. The percentages are
the two thresholds and their neighbours. `MaxFaults` bounds the faults of a
behaviour: most of them end a request, and a fault during the retry of a failed
request meets the same states. In `orchestrator`, three bounties are the number
from which specifications and payments count; `Past` is 0 or 3 earlier
rewards, so that a worker can already be suspect when the runs start (and the
third reward can come while another gate is open).

In `paywall`, two messages are the number from which a body can be cut in the
middle or lack only its empty end; the theorems are about any number. In
`integrity`, the histories are any funders among four wallets (chains, cycles and
shared ancestors), any distribution of up to eight payments from the counts 0, 1,
2, 3 and 5, and up to four postings of each specification; two more observations
then close 2- and 3-cycles over the paid worker and cross the thresholds. Wallets
other than the one worker, and specifications, are symmetric. In `a2a`, two
processes are what a stale status, a shared file or a second delivery takes, and
one fault already leaves a torn file, a lost answer or a dead process behind for
the next run to meet.

Deadlock is not checked where a system may stop: a store whose clients have all
been answered, a judgement that is final, bounties that have all ended.

Fairness. `commit_store`: a process whose statement can proceed proceeds
(database and driver make progress; a lock's holder commits or fails).
`paid_live`: an accepted request goes on, because every await in it has a time
limit, and a buyer without a verdict tries again. Nobody is obliged to commit a
test, to pay, to settle, or to fail; the property therefore starts from an
authorization that is spent. What happens when buyers stop retrying is not
promised: after a lost answer the verdict is only to be had by asking again.
`a2a`: every call of a worker has a time limit (`_run`'s 120 and the client's 90
seconds), so a running process goes on, and the supervisor runs the worker again
when none is running; client and poster owe nothing. Dry runs count as faults,
since nobody starts them without end.

## 4. What is proved

Theorems hold for every value of the constants satisfying the modules' ASSUMEs.

**CommitStoreProofs.** The inductive invariant adds to the stated properties
what each process knows at each statement: a row it inserted is still pending
and its own, a conflicting row it saw is committed and will stay, a hash it is
about to return is the row's. Without these, nothing rules out that the SELECT
after a conflict finds no row or another row. From it: `TypeCorrect`,
`BindingHolds`, `DurabilityHolds`, `IdempotenceHolds`, `HidingHolds`,
`AppendOnlyHolds`, and `Refinement` to `SealedLedger`.

**PaidVerificationProofs.** The invariant ties the position of a request to the
chain and the store: from `paid` or `tool` on, the authorization is spent (no
step ever unspends one); at the second read the task is sealed (no step ever
unseals one); at `verifying` the record read is the seal. From it:
`TypeCorrect`, `PaymentPrecedesVerdict`, `ToldHolds`, `SealHolds`,
`PrecheckHolds`, `HttpJudges`, and `Refinement` to `SealedLedger`. A consequence
read off the proof: the branches for a missing record at the second read of the
HTTP door, with their second seal and `charged: false` (`http_x402.py:269-304`),
are unreachable; `ReRead` has one answer for all of them.
`RecordHolds` (no step takes back a seal, a payment, a judgement or a log entry)
is read off the refinement and the steps; `VerdictLoggedHolds` says that, without
a fault, whoever holds a verdict finds it in the public log with its test,
authorization and transaction. The latter is an invariant on its own: a request
that has its verdict stands still, because `Retry` is for those that have none.

**OrchestratorProofs.** `PlaceInv` says what is known at each await (until the
lock has returned nothing has moved; from then to the settlement the reward is
in escrow and unrated; `releasing` means a pass), `MoneyInv`, `RatingInv` and
`ReceiptInv` what a bounty's state says of the chain wherever its run is. They
are needed because an exception or a restart can freeze a run at any await:
the properties must follow from the bounty alone. Lemma `RunStep` reduces each
action to the bounty it is about. From it: `TypeCorrect`, `MoneyHolds`,
`StoredHolds`, `VolumeHolds`, `QuarantineHolds`. `VolumeIsWatchedHolds` adds
`WatchInv`, which counts the rewards told to the detector whose runs have not
returned yet along with those stored.

**EscrowProofs.** `Orchestrator` implements `Escrow`. Beside the invariant of
`OrchestratorProofs` it takes `VerdictInv`: a run that has not been judged has
no verdict, so that a lock or a judgement maps to the abstract one. Lemma
`OneRun` says which changes of one bounty's verdict and reward are steps of the escrow, and
each action is shown to make one of these. `RewardFinal` follows from the
refinement: the escrow has no step that undoes a lock, moves a reward a second
time or changes a verdict, so the market has none, whatever raises or restarts.

**RefereeProofs.** `Tier1Inv` lists the four ways tier 1 concludes, each with what
it says of the two runs and the reveal; `RunsInv` says what a run that answered
tells about the test. From it: `TypeCorrect`, `RejectionsHold`, `PassesHold`,
`DoubtHolds`, for any set of numbers a judge may answer with.

**PaywallProofs.** `BranchInv`: the outcome is the branch's, and stays it until
the request is sent again, since nothing `Branch` reads moves after the draining;
`StreamInv`: only a client that left is cut short. From it: `TypeCorrect`,
`FreeHolds`, `ReplayHolds`, `StreamHolds`, for bodies in any number of messages.
`PaidHolds` needs that failed settlements carry no field `settled`
(`"false" \notin FailedSettled`), `PayerHolds` that "already used" is said in
`data` (`MarkerPlaces \subseteq {"data"}`); both are hypotheses of the theorem.
Under both, `PaymentDecided` says what a presentation of a payment comes to: an
answer that arrives decides as the chain does, a missing one refuses, and money
that moved stays moved. These are the facilitator steps of `PaidVerification`,
whose theorems thus hold behind the paywall's settlement too.

**A2AWorkerProofs.** The invariant says what a process carries at each step
(`DocInv`), that a lone process delivers the file it wrote (`AloneInv`), and that
a job is delivered once because it is not accepted afterwards (`OnceInv`), without
which a later delivery could make an earlier exit 0 untrue. `StatusIsMentioned`
and `AcceptedIsFound` are the facts about `task_status` the funding gate rests on.
From it: `TypeCorrect`, `ExitHolds`, `DeliveryHolds`, for any number of processes
and faults and any texts. The gate has two sides. `FundedHolds`: nothing is worked
on unfunded, under the hypothesis that no text mentions "accepted" of a job that
was never accepted (`"accepted" \notin Stray`), without which it is false.
`FundedPassesHolds`: whatever a text mentions, an accepted job passes.

**IntegrityGraphProofs.** For any finite set of wallets and of specifications, any
history and any further observations:

* *Sums.* Every signal is a sum over wallets, a recursive function on subsets. What
  such a sum is cannot be had by the library's induction theorems (they take an
  operator), so the proof takes a smallest counterexample instead: the subsets of
  a finite set are well-founded under inclusion (`Minimal`), which gives that the
  function exists and is unique (`Exists`, `Unique`), can be computed by taking
  out any element (`SumRemove`), and keeps inequalities (`SumAtMost`). The `Total`
  lemmas say it for the counters of a wallet.
* *Funders.* `FundingExact`: the bounded walk with its stop at a wallet seen before
  finds exactly the funders within four steps (a chain that comes back goes on in
  wallets already seen), so that funding accuses the operators it should and
  nobody else.
* *Invariant.* `IInv` is `TypeOK` and `BooksAgree`: `observe` keeps values and
  counts in two dictionaries of which two signals read one each, and a payment is in
  both or in neither. TLC finds no violation of it on the `integrity` instance. What
  follows is argued from its first part.
* `HonestClean`: the entropy of a worker with customers is bounded from below term
  by term (no customer made more than half of the payments, `CustomersPair`), the value that
  returns to a one-way worker is a sum of zeros. `CollusionCaught`: the entropy of
  a single payer is zero, and a laundered edge is one term of the returned value
  that alone reaches the threshold. `NewCustomerClean`: a first payment by a
  stranger takes nothing from the entropy that it does not put back as the total
  grows, and no way back leads through it.
* `MarketGateHolds` ties the module to `Orchestrator`, as said above.

Logarithms are the table of the twelve that the instance uses (`MaxPayments`): the
theorems are about workers with at most that many payments, in graphs of any size.

The proofs stand on ASSUMEs that say what the constants are (an absent value is
no task, the demonstration's id is no buyer's task, calls have the shape the
doors accept, rewards and faults are natural numbers, wallets and specifications
are finitely many, the histories a run may start from are typed). The action
properties and invariants that only the proofs state (`RewardIsFinal`,
`PaymentIsDecided`, `RecordStands`, `VerdictIsLogged`, `FundedPasses`,
`MarketGate`) are stated beside their theorems.

Every safety property that a run checks is a theorem. Only checked by TLC: liveness
(`EveryCallEnds`, `PayerGetsVerdict`, `FundedJobIsDelivered`), which is out of the
prover's reach, as are the enabledness conditions in it.

## 5. Where documentation and code differ

Four statements are refuted by a run each (`PROJECT.json`, findings):

1. A test that raises slashes the worker with full confidence
   (`tier1.py:148-149` against `:210-211`).
2. `precommitted` is true on a test the request itself brought
   (`http_x402.py:266-267` against `:262`, `:365-366`).
3. A worker with four posters is quarantined, since the payer booked is the one
   poster wallet (`router.py:96`, `main.py:101` against the repository's
   `README.md:97`).
4. A sandbox outage is delivered to an A2A client as a failed verification
   (`a2a_worker.py:270-271` against `server.py:212`).

Met while modelling, without a run of their own:

* NaN as the judge's confidence rejects (`tier2.py:83`), against "an unsure
  verdict releases the escrow" (`tier2.py:14-18`). `DoubtFavoursTheWorker` is
  worded so that NaN counts as not below the threshold.
* A failed settlement with `settled: false` in it is honoured, since the marker
  "settled" is found in the name of the field (`okx_x402.py:332` against
  `:112-113`): with `"false"` in `FailedSettled`, `PaidToolsArePaid` fails.
* A facilitator's `msg` is dropped (`okx_x402.py:439-441`): an "already used"
  said only there refuses a payer on every retry, and so does an answer that only
  says "expired" of a spent authorization (`"msg"` or `"none"` in `MarkerPlaces`;
  authorizations do expire, `okx_x402.py:265-283`).
* "every path out of this handler returns .. `charged` so the buyer always knows
  whether their money moved" (`http_x402.py:80-82`): the refusal of a payment has
  no `charged` (`:170-191`), and it is also what a buyer gets whose settlement
  took place and whose facilitator's answer was lost (`FacilitatorSilent` with the
  money moved). `PayerIsTold` is what holds: after a failure, and only then, a
  payer may be left with that refusal or an internal error.
* "THE HARD GATE. Refuse to work before escrow is funded" (`a2a_worker.py:306`):
  when the CLI's JSON has no status field, `task_status` takes the first candidate
  that is a substring of the text, "accepted" before the others (`:159-166`). A
  text about an unfunded job that mentions the word opens the gate: with
  `"accepted"` in `Stray`, `FundedFirst` fails after the two gates of one process.
* Any 404, also a proxy's or another host's, becomes a document that says there is
  no committed test (`a2a_worker.py:232-239`), and may be what a funded job is
  delivered (`Misrouted`).
* The headers of `okx_x402.py` (`:8-30`) and `server.py` (`:41-45`) describe
  verify, work, settle; the code settles first, on both doors. What they warn of,
  "charging for verifications that then blow up", is `DatabaseFails` and
  `TimedOut`; `PayerGetsVerdict` is what repairs it.
* "the bounty reopens; the worker's stake is slashed" (`router.py:106`,
  `models.py:51`): there is no stake in the code, and nothing reopens a bounty.
* `authorization-payment` is a payment header for `_payment_header`
  (`paywall.py:345`) and not for the probe test (`paywall.py:303-305`).
* A streaming client whose body is not JSON-RPC is challenged again with its
  payment (`paywall.py:174-177`), against "There is no path left where a paid
  buyer is re-challenged" (`paywall.py:249-250`). So is a buyer whose
  settlement's answer is lost (`okx_x402.py:435-437`).
* "No payment was taken" in the free rejection (`server.py:681-682`) is not true of a buyer
  that settled before it asked.
* The judge's receipt names the worker as payer, against "WE PAY FOR IT"
  (`tier2.py:20`); the referee is paid only when the work passes.
* A rating that fails after the release makes a settled bounty a 502, missing
  from `/volume`: what is stored is true (`StoredIsTrue`), not complete.
* A run that raises after the lock leaves the reward in escrow with no record and
  nobody to withdraw it (`main.py:112-115` against `orchestrator.py:6-7`).
  `Escrow` therefore promises no exit.
* A body cut short by its client is handed on as if complete (`paywall.py:389-396`,
  `:165`); at the HTTP door an unreadable body counts as an empty one
  (`http_x402.py:108-112`) and a paid request becomes a demonstration (`:214-219`).
  A `tools/call` whose `params` is a list ends in a 500 (`paywall.py:444-451`).
* Value that returns over four or more wallets is not seen (`graph.py:119-121`
  calls 2- and 3-cycles exact); a last edge shared by several ways is
  counted once for each. A poster that funded the worker itself, and
  whose own funder is unknown, shares no ancestor with it and is not found.
* The server's own graph is fed specifications under the task's id
  (`server.py:180`) and no payments, so the screening it sells (`:284`) finds
  everybody clean but for self-dealing.
* A delivery whose answer is lost makes every retry exit 1, since the job is
  submitted by then: exit 1 does not mean undelivered. A job accepted before its
  test is sealed spends its one delivery on a document that says so. Two
  processes at once may deliver a half-written file, or the other's.

## 6. Abstractions

Tests, nonces, names and payloads are model values; hashes do not collide; HTTP
status codes other than those that decide something, wording and logs are left
out. An instance handles its steps between two awaits atomically, but since
several instances may run, the models allow other requests between any two
database calls. Time appears only as "the limit is reached". The demonstration's
ids of different seconds are one id, `DemoTask`, which is the worse case: they
collide. The `public:` prefix is represented by tasks being distinct values. The
integrity tool reads a graph that the service never feeds and is left out. The
store's pool of four connections (`store.py:81`) is left out: a call that waits
for it holds nothing yet, and gives up in time.

The A2A worker's document is its kind; the CLI is modelled by what the worker
relies on. A fingerprint of a specification is a model value.

Not modelled: start-up, health and feed (they report and decide nothing; that
paid tools refuse to serve without credentials is in `Paywall`), the explorer,
deployment files, the sidecar's own code, the kernel limits of the sandbox (each
is an ending of a run), the leaderboard and the flags of the integrity report.

## 7. Plan

Done: the store, the doors, the paywall with its facilitator and stream, the
referee, the market with its escrow, the integrity graph, the delivery worker;
theorems about all of them. Left, in order of worth:

1. `A2AWorker` over `PaidVerification`'s free door, so that the test is sealed by
   the store's steps instead of by one action.
2. The sidecar's retries, should its client get any; today a call is made once.
