------------------------ MODULE PaidVerificationProofs ------------------------
(***************************************************************************)
(* For any number of buyers, authorizations, tasks, tests and faults: the   *)
(* safety properties of PaidVerification, and that it implements            *)
(* SealedLedger.                                                            *)
(***************************************************************************)
EXTENDS PaidVerification, TLAPS

-----------------------------------------------------------------------------
(* The inductive invariant: what each buyer's request knows at each step.   *)

(* Which door a step belongs to.                                            *)
DoorInv(b) ==
  /\ pc[b] = "settling" => call[b].door \in PaidDoors /\ call[b].auth # None
  /\ pc[b] \in {"paid", "lookup", "seal", "reread"} => call[b].door = "http"
  /\ pc[b] = "tool" => call[b].door = "mcp"

(* Beyond the settlement the money has moved.                               *)
MoneyInv(b) ==
  /\ pc[b] \in {"paid", "lookup", "seal", "reread", "tool"} => call[b].auth \in spent
  /\ pc[b] = "verifying" \/ Verdict(b) =>
       (call[b].door \in PaidDoors => call[b].auth \in spent)
  /\ work[b].tx => call[b].auth \in spent

(* What the request can rely on in the store: each later read finds the row *)
(* an earlier step has seen, or there is a test to seal.                    *)
SealInv(b) ==
  /\ pc[b] \in {"lookup", "seal"} =>
       work[b].task # None /\ (work[b].test # None \/ IsSealed(work[b].task))
  /\ pc[b] = "reread" => IsSealed(work[b].task)
  /\ pc[b] \in {"settling", "tool"} /\ call[b].door = "mcp" =>
       work[b].task # None /\ (work[b].blind \/ IsSealed(work[b].task))
  /\ pc[b] = "verifying" \/ Verdict(b) =>
       /\ IsSealed(work[b].task)
       /\ work[b].rec = sealed[work[b].task]

(* What the answers say.                                                    *)
ReplyInv(b) ==
  /\ call[b].door = "http" =>
       /\ reply[b].charged # "no"
       /\ reply[b].charged = "yes" => reply[b].paid
       /\ reply[b].paid /\ reply[b].charged # "yes" =>
            faults > 0 /\ reply[b].kind \in {"refused", "error"}
  /\ call[b].door = "mcp" /\ reply[b].kind = "noTest" => work[b].blind
  /\ call[b].door = "http" /\ call[b].auth # None =>
       /\ reply[b].kind \in {"none", "refused", "verdict", "error", "timeout"}
       /\ reply[b].kind \in {"error", "timeout"} => faults > 0

BuyerInv(b) == DoorInv(b) /\ MoneyInv(b) /\ SealInv(b) /\ ReplyInv(b)

(* What has been published and judged.                                      *)
HistoryInv ==
  /\ \A e \in log : e.seal = sealed[e.task] /\ (e.tx => e.auth \in spent)
  /\ \A j \in judged : j.seal = sealed[j.task]

IInv == TypeOK /\ (\A b \in Buyers : BuyerInv(b)) /\ HistoryInv

-----------------------------------------------------------------------------
(* What every step has in common: money, seals and faults only grow, what   *)
(* was published stays true, and the other requests stand still.            *)

SharedType ==
  /\ sealed \in [AllTasks -> AllTests \cup {None}]
  /\ judged \subseteq [task : AllTasks, seal : AllTests]
  /\ spent \subseteq Auths
  /\ log \subseteq LogEntries
  /\ faults \in 0 .. MaxFaults

Grows ==
  /\ spent \subseteq spent'
  /\ \A t \in AllTasks : sealed[t] # None => sealed'[t] = sealed[t]
  /\ faults <= faults'
  /\ call' = call

(* A step whose effect on the shared state is sound.                        *)
Shared == SharedType' /\ Grows /\ HistoryInv'

Still(c) == pc'[c] = pc[c] /\ work'[c] = work[c] /\ reply'[c] = reply[c]

(* The step of b's request to p, with local variables w and answer r.       *)
Moves(b, p, w, r) ==
  /\ pc' = [pc EXCEPT ![b] = p]
  /\ work' = [work EXCEPT ![b] = w]
  /\ reply' = [reply EXCEPT ![b] = r]

Reply(b, kind, charged, outcome, chain) ==
  [kind |-> kind, charged |-> charged, paid |-> call[b].auth \in chain, outcome |-> outcome]

LEMMA NoneApart == None \notin AllTests /\ None \notin AllTasks /\ None \notin Auths
  BY NoneAssumption

(* The fields of a call.                                                    *)
LEMMA CallType == ASSUME TypeOK, NEW b \in Buyers
                  PROVE  /\ call[b].door \in Doors
                         /\ call[b].auth \in Auths \cup {None}
                         /\ call[b].task \in AllTasks \cup {None}
                         /\ call[b].test \in AllTests \cup {None}
                         /\ call[b].door # "http" => call[b].test = None
                         /\ call[b].door = "free" => call[b].auth = None /\ call[b].task # None
  BY CallsAssumption DEF TypeOK, PossibleCalls, AllTasks, AllTests

(* The local variables keep their type when a field is assigned.            *)
LEMMA WorkFields == ASSUME NEW w \in WorkRecords, NEW t \in AllTasks \cup {None},
                           NEW s \in AllTests \cup {None}, NEW x \in BOOLEAN
                    PROVE  /\ [w EXCEPT !.task = t, !.test = s] \in WorkRecords
                           /\ [w EXCEPT !.task = t, !.rec = s] \in WorkRecords
                           /\ [w EXCEPT !.task = t, !.blind = x] \in WorkRecords
                           /\ [w EXCEPT !.rec = s] \in WorkRecords
                           /\ [w EXCEPT !.tx = x] \in WorkRecords
                           /\ [w EXCEPT !.own = x] \in WorkRecords
                           /\ [w EXCEPT !.rec = s, !.pre = x] \in WorkRecords
  BY DEF WorkRecords

(* Where AnswerWhen and Goto leave the request.                             *)
LEMMA Answers == ASSUME NEW b \in Buyers, NEW kind \in Kinds,
                        NEW charged \in {"yes", "no", "unknown", "unsaid"},
                        NEW outcome \in Outcomes \cup {None}, NEW chain, NEW w,
                        work' = [work EXCEPT ![b] = w],
                        AnswerWhen(b, kind, charged, outcome, chain)
                 PROVE  /\ Moves(b, "done", w, Reply(b, kind, charged, outcome, chain))
                        /\ Reply(b, kind, charged, outcome, chain) \in Replies
  BY DEF AnswerWhen, Goto, Moves, Reply, Replies

LEMMA GoesOn == ASSUME TypeOK, NEW b \in Buyers, NEW p, NEW w,
                       Goto(b, p), UNCHANGED reply, work' = [work EXCEPT ![b] = w]
                PROVE  Moves(b, p, w, reply[b]) /\ reply[b] \in Replies
  BY DEF TypeOK, Goto, Moves

(* A request that stands still keeps its invariant while the rest grows.    *)
LEMMA Frame == ASSUME TypeOK, NEW c \in Buyers, BuyerInv(c), Shared, Still(c)
               PROVE  BuyerInv(c)'
<1>1. work[c].task \in AllTasks \cup {None} /\ call'[c] = call[c]
  BY DEF TypeOK, WorkRecords, Shared, Grows
<1>2. IsSealed(work[c].task) => IsSealed(work[c].task)'
                                /\ sealed'[work[c].task] = sealed[work[c].task]
  BY <1>1 DEF IsSealed, Shared, Grows, Still
<1>3. Verdict(c)' <=> Verdict(c)
  BY DEF Verdict, Still
<1>4. faults > 0 => faults' > 0
  BY FaultsAssumption DEF TypeOK, Shared, SharedType, Grows
<1>5. DoorInv(c)'
  BY <1>1 DEF BuyerInv, DoorInv, Still
<1>6. MoneyInv(c)'
  BY <1>1, <1>3 DEF BuyerInv, MoneyInv, Still, Shared, Grows
<1>7. SealInv(c)'
  BY <1>1, <1>2, <1>3 DEF BuyerInv, SealInv, Still
<1>8. ReplyInv(c)'
  BY <1>1, <1>4 DEF BuyerInv, ReplyInv, Still
<1> QED BY <1>5, <1>6, <1>7, <1>8 DEF BuyerInv

LEMMA HistoryFrame == ASSUME TypeOK, HistoryInv, Grows, UNCHANGED <<log, judged>>
                      PROVE  HistoryInv'
<1>1. \A e \in log : e.task \in AllTasks /\ e.seal # None
  BY NoneApart DEF TypeOK, LogEntries
<1>2. \A j \in judged : j.task \in AllTasks /\ j.seal # None
  BY NoneApart DEF TypeOK
<1> QED BY <1>1, <1>2 DEF HistoryInv, Grows

(* Most steps leave the shared state alone, but for a fault.                *)
LEMMA SharedStill == ASSUME IInv, UNCHANGED <<store, spent, call, log>>,
                            faults' = faults \/ Fault
                     PROVE  Shared
<1>1. SharedType' /\ Grows
  BY FaultsAssumption DEF IInv, TypeOK, SharedType, Grows, store, Fault
<1> QED BY <1>1, HistoryFrame DEF IInv, Shared, store

(* Money may move.                                                          *)
LEMMA SharedSpends == ASSUME IInv, UNCHANGED <<store, call, log>>, spent \subseteq spent',
                             spent' \subseteq Auths, faults' = faults \/ Fault
                      PROVE  Shared
<1>1. SharedType' /\ Grows
  BY FaultsAssumption DEF IInv, TypeOK, SharedType, Grows, store, Fault
<1> QED BY <1>1, HistoryFrame DEF IInv, Shared, store

(* A step of one buyer's request keeps the invariant if it keeps that       *)
(* request's part of it.                                                    *)
LEMMA BuyerStep == ASSUME IInv, Shared, NEW b \in Buyers, NEW p \in Steps,
                          NEW w \in WorkRecords, NEW r \in Replies, Moves(b, p, w, r),
                          pc'[b] = p /\ work'[b] = w /\ reply'[b] = r => BuyerInv(b)'
                   PROVE  IInv'
<1>1. pc'[b] = p /\ work'[b] = w /\ reply'[b] = r
  BY DEF IInv, TypeOK, Moves
<1>2. \A c \in Buyers \ {b} : Still(c)
  BY DEF IInv, TypeOK, Moves, Still
<1>3. ASSUME NEW c \in Buyers PROVE BuyerInv(c)'
  BY <1>1, <1>2, Frame DEF IInv
<1>4. TypeOK'
  BY DEF IInv, TypeOK, Shared, SharedType, Moves, Grows
<1> QED BY <1>3, <1>4 DEF IInv, Shared

-----------------------------------------------------------------------------
(* One lemma per action.                                                    *)

LEMMA InitIInv == Init => IInv
<1> SUFFICES ASSUME Init PROVE IInv
  OBVIOUS
<1>1. TypeOK
  BY NoneApart, FaultsAssumption DEF Init, TypeOK, Steps, NoWork, WorkRecords, NoReply,
     Replies, Kinds
<1>2. ASSUME NEW b \in Buyers PROVE BuyerInv(b)
  BY DEF Init, BuyerInv, DoorInv, MoneyInv, SealInv, ReplyInv, Verdict, NoWork, NoReply
<1>3. HistoryInv
  BY DEF Init, HistoryInv
<1> QED BY <1>1, <1>2, <1>3 DEF IInv

(* Steps that touch no request.                                             *)
LEMMA Elsewhere == ASSUME IInv, Shared, UNCHANGED <<pc, work, reply>> PROVE IInv'
<1>1. \A c \in Buyers : Still(c)
  BY DEF Still
<1>2. TypeOK'
  BY DEF IInv, TypeOK, Shared, SharedType, Grows
<1> QED BY <1>1, <1>2, Frame DEF IInv, Shared

LEMMA StutterIInv == ASSUME IInv, UNCHANGED vars PROVE IInv'
  BY SharedStill, Elsewhere DEF vars, store

LEMMA PosterCommitsIInv == ASSUME IInv, NEW t \in AllTasks, NEW s \in Tests, PosterCommits(t, s)
                           PROVE  IInv'
<1>1. SharedType' /\ Grows
  BY FaultsAssumption DEF IInv, TypeOK, PosterCommits, AllTasks, AllTests, SharedType, Grows
<1>2. Shared
  BY <1>1, HistoryFrame DEF IInv, PosterCommits, Shared
<1> QED BY <1>2, Elsewhere DEF PosterCommits

LEMMA BuyerSettlesIInv == ASSUME IInv, NEW a \in Auths, BuyerSettles(a) PROVE IInv'
<1>1. spent' \subseteq Auths
  BY DEF IInv, TypeOK, BuyerSettles
<1> QED BY <1>1, SharedSpends, Elsewhere DEF BuyerSettles, store

LEMMA RetryIInv == ASSUME IInv, NEW b \in Buyers, Retry(b) PROVE IInv'
<1>1. Moves(b, "idle", NoWork, NoReply) /\ Shared
  BY SharedStill DEF Retry, Goto, Moves
<1>2. NoWork \in WorkRecords /\ NoReply \in Replies /\ "idle" \in Steps
  BY DEF NoWork, WorkRecords, NoReply, Replies, Kinds, Steps
<1>3. pc'[b] = "idle" /\ work'[b] = NoWork /\ reply'[b] = NoReply => BuyerInv(b)'
  BY DEF BuyerInv, DoorInv, MoneyInv, SealInv, ReplyInv, Verdict, NoWork, NoReply
<1> QED BY <1>1, <1>2, <1>3, BuyerStep

LEMMA HttpArrivesIInv == ASSUME IInv, NEW b \in Buyers, HttpArrives(b) PROVE IInv'
<1> DEFINE w == [work[b] EXCEPT !.task = call[b].task, !.test = call[b].test]
           r == Reply(b, "challenge", "unsaid", None, spent)
<1>1. w \in WorkRecords /\ work' = [work EXCEPT ![b] = w] /\ Shared
  BY CallType, WorkFields, SharedStill DEF IInv, TypeOK, HttpArrives, Arrived
<1>2. BuyerInv(b) /\ call'[b] = call[b] /\ work[b] \in WorkRecords /\ spent \subseteq spent'
  BY <1>1 DEF IInv, TypeOK, Shared, Grows
<1>3. CASE call[b].auth = None
  <2>1. Moves(b, "done", w, r) /\ r \in Replies
    BY <1>1, <1>3, Answers DEF HttpArrives, Answer, Kinds
  <2>3. ~r.paid
    BY <1>3, NoneApart DEF Reply, IInv, TypeOK
  <2>2. pc'[b] = "done" /\ work'[b] = w /\ reply'[b] = r => BuyerInv(b)'
    BY <1>2, <1>3, <2>3 DEF BuyerInv, DoorInv, MoneyInv, SealInv, ReplyInv, Verdict, Reply,
       HttpArrives, WorkRecords
  <2> QED BY <1>1, <2>1, <2>2, BuyerStep DEF Steps
<1>4. CASE call[b].auth # None
  <2>1. Moves(b, "settling", w, reply[b]) /\ reply[b] \in Replies
    BY <1>1, <1>4, GoesOn DEF IInv, HttpArrives
  <2>2. pc'[b] = "settling" /\ work'[b] = w /\ reply'[b] = reply[b] => BuyerInv(b)'
    BY <1>2, <1>4 DEF BuyerInv, DoorInv, MoneyInv, SealInv, ReplyInv, Verdict, HttpArrives,
       PaidDoors, WorkRecords
  <2> QED BY <1>1, <2>1, <2>2, BuyerStep DEF Steps
<1> QED BY <1>3, <1>4

(* The gate of the paywall, for either way a call of the tool arrives.      *)
LEMMA GateKeeps == ASSUME IInv, NEW b \in Buyers, pc[b] = "idle", call[b].door = "mcp",
                          NEW w \in WorkRecords, work' = [work EXCEPT ![b] = w], Shared,
                          w.task = call[b].task, w.tx = work[b].tx, work[b].blind => w.blind,
                          NEW doomed, Gate(b, doomed),
                          ~doomed => w.task # None /\ (w.blind \/ IsSealed(w.task))
                   PROVE  IInv'
<1> DEFINE r == Reply(b, "rejected", "no", None, spent)
           q == Reply(b, "challenge", "unsaid", None, spent)
<1>1. BuyerInv(b) /\ call'[b] = call[b] /\ spent \subseteq spent'
  BY DEF IInv, TypeOK, Shared, Grows
<1>2. IsSealed(w.task) => IsSealed(w.task)'
  BY CallType DEF IInv, Shared, Grows, IsSealed
<1>3. CASE doomed
  <2>1. Moves(b, "done", w, r) /\ r \in Replies
    BY <1>3, Answers DEF Gate, Answer, Kinds
  <2>2. pc'[b] = "done" /\ work'[b] = w /\ reply'[b] = r => BuyerInv(b)'
    BY <1>1 DEF BuyerInv, DoorInv, MoneyInv, SealInv, ReplyInv, Verdict, Reply
  <2> QED BY <2>1, <2>2, BuyerStep DEF Steps
<1>4. CASE ~doomed /\ call[b].auth = None
  <2>1. Moves(b, "done", w, q) /\ q \in Replies
    BY <1>4, Answers DEF Gate, Answer, Kinds
  <2>2. pc'[b] = "done" /\ work'[b] = w /\ reply'[b] = q => BuyerInv(b)'
    BY <1>1 DEF BuyerInv, DoorInv, MoneyInv, SealInv, ReplyInv, Verdict, Reply
  <2> QED BY <2>1, <2>2, BuyerStep DEF Steps
<1>5. CASE ~doomed /\ call[b].auth # None
  <2>1. Moves(b, "settling", w, reply[b]) /\ reply[b] \in Replies
    BY <1>5, GoesOn DEF IInv, Gate
  <2>2. w.blind \/ IsSealed(w.task)'
    BY <1>2, <1>5
  <2>3. pc'[b] = "settling" /\ work'[b] = w /\ reply'[b] = reply[b] =>
          (IsSealed(work[b].task)' <=> IsSealed(w.task)')
    BY DEF IsSealed
  <2>4. pc'[b] = "settling" /\ work'[b] = w /\ reply'[b] = reply[b] => BuyerInv(b)'
    BY <1>1, <1>5, <2>2, <2>3 DEF BuyerInv, DoorInv, MoneyInv, SealInv, ReplyInv, Verdict,
       PaidDoors
  <2> QED BY <2>1, <2>4, BuyerStep DEF Steps
<1> QED BY <1>3, <1>4, <1>5

LEMMA McpArrivesIInv == ASSUME IInv, NEW b \in Buyers, McpArrives(b) PROVE IInv'
<1> DEFINE w == [work[b] EXCEPT !.task = call[b].task, !.test = call[b].test]
<1>1. w \in WorkRecords /\ work' = [work EXCEPT ![b] = w] /\ Shared
  BY CallType, WorkFields, SharedStill DEF IInv, TypeOK, McpArrives, Arrived
<1>2. w.task = call[b].task /\ w.tx = work[b].tx /\ w.blind = work[b].blind
  BY DEF IInv, TypeOK, WorkRecords
<1> HIDE DEF w
<1>3. IsSealed(call[b].task) => w.task # None /\ IsSealed(w.task)
  BY <1>2 DEF IsSealed
<1> QED BY <1>1, <1>2, <1>3, GateKeeps DEF McpArrives

LEMMA McpArrivesUncheckedIInv == ASSUME IInv, NEW b \in Buyers, McpArrivesUnchecked(b)
                                 PROVE  IInv'
<1> DEFINE w == [work[b] EXCEPT !.task = call[b].task, !.blind = TRUE]
<1>1. w \in WorkRecords /\ work' = [work EXCEPT ![b] = w] /\ Shared
  BY CallType, WorkFields, SharedStill DEF IInv, TypeOK, McpArrivesUnchecked
<1>2. w.task = call[b].task /\ w.tx = work[b].tx /\ w.blind
  BY DEF IInv, TypeOK, WorkRecords
<1> HIDE DEF w
<1> QED BY <1>1, <1>2, GateKeeps DEF McpArrivesUnchecked

LEMMA FreeArrivesIInv == ASSUME IInv, NEW b \in Buyers, FreeArrives(b) PROVE IInv'
<1> DEFINE w == [work[b] EXCEPT !.task = call[b].task, !.rec = sealed[call[b].task]]
           r == Reply(b, "noTest", "unsaid", None, spent)
<1>1. call[b].task \in AllTasks /\ sealed[call[b].task] \in AllTests \cup {None}
  BY CallType DEF IInv, TypeOK, FreeArrives
<1>2. w \in WorkRecords /\ work' = [work EXCEPT ![b] = w] /\ Shared
  BY <1>1, WorkFields, SharedStill DEF IInv, TypeOK, FreeArrives
<1>3. BuyerInv(b) /\ call'[b] = call[b] /\ work[b] \in WorkRecords /\ sealed' = sealed
      /\ spent \subseteq spent'
  BY <1>2 DEF IInv, TypeOK, Shared, Grows, FreeArrives, store
<1>4. w.task = call[b].task /\ w.rec = sealed[w.task] /\ w.tx = work[b].tx
      /\ w.blind = work[b].blind
  BY <1>3 DEF WorkRecords
<1> HIDE DEF w
<1>5. CASE ~IsSealed(call[b].task)
  <2>1. Moves(b, "done", w, r) /\ r \in Replies
    BY <1>2, <1>5, Answers DEF FreeArrives, Answer, Kinds
  <2>2. pc'[b] = "done" /\ work'[b] = w /\ reply'[b] = r => BuyerInv(b)'
    BY <1>3, <1>4 DEF BuyerInv, DoorInv, MoneyInv, SealInv, ReplyInv, Verdict, Reply,
       FreeArrives
  <2> QED BY <1>2, <2>1, <2>2, BuyerStep DEF Steps
<1>6. CASE IsSealed(call[b].task)
  <2>1. Moves(b, "verifying", w, reply[b]) /\ reply[b] \in Replies
    BY <1>2, <1>6, GoesOn DEF IInv, FreeArrives
  <2>2. pc'[b] = "verifying" /\ work'[b] = w /\ reply'[b] = reply[b] => BuyerInv(b)'
    BY <1>3, <1>4, <1>6 DEF BuyerInv, DoorInv, MoneyInv, SealInv, ReplyInv, Verdict, IsSealed,
       FreeArrives, PaidDoors
  <2> QED BY <1>2, <2>1, <2>2, BuyerStep DEF Steps
<1> QED BY <1>5, <1>6

(* A payment that is honoured, settled now or before.                       *)
LEMMA HonouredKeeps == ASSUME IInv, NEW b \in Buyers, NEW tx \in BOOLEAN, Honoured(b, tx),
                              pc[b] = "settling", spent' = spent \cup {call[b].auth}
                       PROVE  IInv'
<1> DEFINE w == [work[b] EXCEPT !.tx = tx]
           p == IF call[b].door = "http" THEN "paid" ELSE "tool"
<1>1. BuyerInv(b) /\ work[b] \in WorkRecords /\ call' = call /\ sealed' = sealed
  BY DEF IInv, TypeOK, Honoured, store
<1>2. call[b].auth \in Auths /\ call[b].door \in PaidDoors
  BY <1>1, CallType DEF IInv, BuyerInv, DoorInv
<1>3. w \in WorkRecords /\ work' = [work EXCEPT ![b] = w] /\ Shared
  BY <1>1, <1>2, WorkFields, SharedSpends DEF IInv, TypeOK, Honoured, store
<1>4. w.task = work[b].task /\ w.blind = work[b].blind /\ w.rec = work[b].rec
  BY <1>1 DEF WorkRecords
<1> HIDE DEF w
<1>5. Moves(b, p, w, reply[b]) /\ reply[b] \in Replies
  BY <1>3, GoesOn DEF IInv, Honoured
<1>6. pc'[b] = p /\ work'[b] = w /\ reply'[b] = reply[b] => BuyerInv(b)'
  BY <1>1, <1>2, <1>4 DEF BuyerInv, DoorInv, MoneyInv, SealInv, ReplyInv, Verdict,
     IsSealed, PaidDoors, Honoured, Shared, Grows
<1> QED BY <1>3, <1>5, <1>6, BuyerStep DEF Steps

LEMMA SettlesIInv == ASSUME IInv, NEW b \in Buyers, Settles(b) PROVE IInv'
  BY HonouredKeeps DEF Settles

LEMMA SettledAlreadyIInv == ASSUME IInv, NEW b \in Buyers, SettledAlready(b) PROVE IInv'
<1>1. spent' = spent \cup {call[b].auth}
  BY DEF SettledAlready
<1> QED BY <1>1, HonouredKeeps DEF SettledAlready

(* An answer that is not a verdict, from a handler that leaves its local    *)
(* variables alone.                                                         *)
LEMMA AnswerKeeps == ASSUME IInv, Shared, NEW b \in Buyers, UNCHANGED work,
                            NEW kind \in {"refused", "error", "timeout"},
                            NEW charged \in {"yes", "unknown", "unsaid"},
                            NEW chain, AnswerWhen(b, kind, charged, None, chain),
                            charged = "yes" => call[b].auth \in chain,
                            kind = "timeout" => charged = "yes",
                            faults' > 0 \/ (kind = "refused" /\ call[b].auth \notin chain)
                     PROVE  IInv'
<1> DEFINE r == Reply(b, kind, charged, None, chain)
<1>1. BuyerInv(b) /\ call' = call /\ spent \subseteq spent' /\ work[b] \in WorkRecords
  BY DEF IInv, TypeOK, Shared, Grows
<1>2. work' = [work EXCEPT ![b] = work[b]]
  BY DEF IInv, TypeOK
<1>3. Moves(b, "done", work[b], r) /\ r \in Replies
  BY <1>2, Answers DEF Kinds
<1>4. /\ r.kind = kind /\ r.charged = charged
      /\ charged = "yes" => r.paid
      /\ r.paid => call[b].auth \in chain
  BY DEF Reply
<1> HIDE DEF r
<1>5. pc'[b] = "done" /\ work'[b] = work[b] /\ reply'[b] = r => BuyerInv(b)'
  BY <1>1, <1>4 DEF BuyerInv, DoorInv, MoneyInv, SealInv, ReplyInv, Verdict
<1> QED BY <1>1, <1>3, <1>5, BuyerStep DEF Steps

LEMMA DeclinesIInv == ASSUME IInv, NEW b \in Buyers, Declines(b) PROVE IInv'
  BY AnswerKeeps, SharedStill DEF Declines, Answer

LEMMA FaultCounts == ASSUME IInv, Fault PROVE faults' > 0
  BY DEF IInv, TypeOK, Fault

LEMMA FacilitatorSilentIInv == ASSUME IInv, NEW b \in Buyers, FacilitatorSilent(b) PROVE IInv'
<1>1. call[b].auth \in Auths
  BY CallType DEF IInv, BuyerInv, DoorInv, FacilitatorSilent
<1>2. Shared
  BY <1>1, SharedSpends DEF IInv, TypeOK, FacilitatorSilent, store
<1> QED BY <1>2, AnswerKeeps, FaultCounts DEF FacilitatorSilent

LEMMA FacilitatorGarblesIInv == ASSUME IInv, NEW b \in Buyers, FacilitatorGarbles(b) PROVE IInv'
<1>1. call[b].auth \in Auths
  BY CallType DEF IInv, BuyerInv, DoorInv, FacilitatorGarbles
<1>2. Shared
  BY <1>1, SharedSpends DEF IInv, TypeOK, FacilitatorGarbles, store
<1>3. (IF call[b].door = "http" THEN "unknown" ELSE "unsaid") \in {"unknown", "unsaid"}
  OBVIOUS
<1> QED BY <1>2, <1>3, AnswerKeeps, FaultCounts DEF FacilitatorGarbles

LEMMA DatabaseFailsIInv == ASSUME IInv, NEW b \in Buyers, DatabaseFails(b) PROVE IInv'
<1>1. (IF pc[b] = "tool" THEN "unsaid" ELSE "unknown") \in {"unknown", "unsaid"}
  OBVIOUS
<1> QED BY <1>1, AnswerKeeps, SharedStill, FaultCounts DEF DatabaseFails, Answer

LEMMA FreeLookupFailsIInv == ASSUME IInv, NEW b \in Buyers, FreeLookupFails(b) PROVE IInv'
  BY AnswerKeeps, SharedStill, FaultCounts DEF FreeLookupFails, Answer

LEMMA TimedOutIInv == ASSUME IInv, NEW b \in Buyers, TimedOut(b) PROVE IInv'
<1>1. call[b].auth \in spent
  BY DEF IInv, BuyerInv, MoneyInv, TimedOut, PaidDoors
<1> QED BY <1>1, AnswerKeeps, SharedStill, FaultCounts DEF TimedOut, Answer

LEMMA DroppedIInv == ASSUME IInv, NEW b \in Buyers, Dropped(b) PROVE IInv'
<1>1. BuyerInv(b) /\ Shared /\ call' = call /\ spent' = spent
  BY SharedStill DEF IInv, Dropped
<1>2. work' = [work EXCEPT ![b] = work[b]] /\ work[b] \in WorkRecords
  BY DEF IInv, TypeOK, Dropped
<1>3. Moves(b, "dropped", work[b], reply[b]) /\ reply[b] \in Replies
  BY <1>2, GoesOn DEF IInv, Dropped
<1>4. faults' > 0
  BY FaultCounts DEF Dropped
<1>5. pc'[b] = "dropped" /\ work'[b] = work[b] /\ reply'[b] = reply[b] => BuyerInv(b)'
  BY <1>1, <1>4 DEF BuyerInv, DoorInv, MoneyInv, SealInv, ReplyInv, Verdict, Dropped
<1> QED BY <1>1, <1>2, <1>3, <1>5, BuyerStep DEF Steps

LEMMA ChooseDemoIInv == ASSUME IInv, NEW b \in Buyers, ChooseDemo(b) PROVE IInv'
<1> DEFINE w == IF IsDemo(b) THEN [work[b] EXCEPT !.task = DemoTask, !.test = DemoTest]
                ELSE work[b]
<1>1. BuyerInv(b) /\ work[b] \in WorkRecords /\ call' = call /\ sealed' = sealed
      /\ spent' = spent /\ Shared
  BY SharedStill DEF IInv, TypeOK, ChooseDemo, store
<1>2. DemoTask \in AllTasks /\ DemoTest \in AllTests
  BY DEF AllTasks, AllTests
<1>3. w \in WorkRecords /\ work' = [work EXCEPT ![b] = w]
  BY <1>1, <1>2, WorkFields DEF IInv, TypeOK, ChooseDemo
<1>4. w.tx = work[b].tx /\ w.blind = work[b].blind /\ w.task # None
      /\ (w.test # None \/ IsSealed(w.task))
  BY <1>1, <1>2, NoneApart DEF WorkRecords, IsDemo
<1> HIDE DEF w
<1>5. Moves(b, "lookup", w, reply[b]) /\ reply[b] \in Replies
  BY <1>3, GoesOn DEF IInv, ChooseDemo
<1>6. pc'[b] = "lookup" /\ work'[b] = w /\ reply'[b] = reply[b] => BuyerInv(b)'
  BY <1>1, <1>4 DEF BuyerInv, DoorInv, MoneyInv, SealInv, ReplyInv, Verdict, IsSealed,
     ChooseDemo
<1> QED BY <1>1, <1>3, <1>5, <1>6, BuyerStep DEF Steps

LEMMA LookUpIInv == ASSUME IInv, NEW b \in Buyers, LookUp(b) PROVE IInv'
<1> DEFINE p == IF IsSealed(work[b].task) THEN "reread" ELSE "seal"
<1>1. BuyerInv(b) /\ work[b] \in WorkRecords /\ call' = call /\ sealed' = sealed
      /\ spent' = spent /\ Shared
  BY SharedStill DEF IInv, TypeOK, LookUp, store
<1>2. work' = [work EXCEPT ![b] = work[b]]
  BY DEF IInv, TypeOK, LookUp
<1>3. Moves(b, p, work[b], reply[b]) /\ reply[b] \in Replies
  BY <1>2, GoesOn DEF IInv, LookUp
<1>4. pc'[b] = p /\ work'[b] = work[b] /\ reply'[b] = reply[b] => BuyerInv(b)'
  BY <1>1 DEF BuyerInv, DoorInv, MoneyInv, SealInv, ReplyInv, Verdict, IsSealed, LookUp
<1> QED BY <1>1, <1>3, <1>4, BuyerStep DEF Steps

(* Sealing an inline test adds a row or leaves the store alone.             *)
LEMMA SealingKeeps == ASSUME IInv, NEW b \in Buyers, pc[b] = "seal",
                             sealed' \in {sealed, Sealing(b)},
                             UNCHANGED <<judged, spent, call, log>>,
                             faults' = faults \/ Fault
                      PROVE  /\ Shared
                             /\ work[b].task \in AllTasks
                             /\ sealed' = Sealing(b) => sealed'[work[b].task] # None
<1>1. work[b].task \in AllTasks /\ (IsSealed(work[b].task) \/ work[b].test \in AllTests)
      /\ work[b].task # None
  BY NoneApart DEF IInv, TypeOK, BuyerInv, SealInv, WorkRecords
<1>2. SharedType' /\ Grows
  <2>1. CASE sealed' = sealed
    BY <2>1, FaultsAssumption DEF IInv, TypeOK, SharedType, Grows, Fault
  <2>2. CASE ~IsSealed(work[b].task) /\ sealed' = [sealed EXCEPT ![work[b].task] = work[b].test]
    BY <1>1, <2>2, FaultsAssumption DEF IInv, TypeOK, SharedType, Grows, IsSealed, Fault
  <2> QED BY <2>1, <2>2 DEF Sealing
<1>3. sealed' = Sealing(b) => sealed'[work[b].task] # None
  BY <1>1, NoneApart DEF IInv, TypeOK, Sealing, IsSealed
<1> QED BY <1>1, <1>2, <1>3, HistoryFrame DEF IInv, Shared

LEMMA SealInlineIInv == ASSUME IInv, NEW b \in Buyers, SealInline(b) PROVE IInv'
<1> DEFINE w == [work[b] EXCEPT !.own = ~IsSealed(work[b].task)]
<1>1. BuyerInv(b) /\ work[b] \in WorkRecords /\ call' = call /\ spent' = spent
  BY DEF IInv, TypeOK, SealInline
<1>2. Shared /\ work[b].task \in AllTasks /\ sealed'[work[b].task] # None
  BY SealingKeeps DEF SealInline
<1>3. w \in WorkRecords /\ work' = [work EXCEPT ![b] = w]
  BY <1>1, WorkFields DEF IInv, TypeOK, SealInline, IsSealed
<1>4. w.task = work[b].task /\ w.tx = work[b].tx /\ w.blind = work[b].blind
  BY <1>1 DEF WorkRecords
<1> HIDE DEF w
<1>5. Moves(b, "reread", w, reply[b]) /\ reply[b] \in Replies
  BY <1>3, GoesOn DEF IInv, SealInline
<1>6. pc'[b] = "reread" /\ work'[b] = w /\ reply'[b] = reply[b] => BuyerInv(b)'
  BY <1>1, <1>2, <1>4, NoneApart DEF BuyerInv, DoorInv, MoneyInv, SealInv, ReplyInv, Verdict,
     SealInline, IsSealed
<1> QED BY <1>2, <1>3, <1>5, <1>6, BuyerStep DEF Steps

LEMMA SealFailsIInv == ASSUME IInv, NEW b \in Buyers, SealFails(b) PROVE IInv'
<1>1. Shared /\ faults' > 0 /\ UNCHANGED work
  BY SealingKeeps, FaultCounts DEF SealFails
<1>2. call[b].auth \in spent
  BY DEF IInv, BuyerInv, MoneyInv, SealFails
<1>3. AnswerWhen(b, "error", "yes", None, spent) \/ AnswerWhen(b, "error", "unknown", None, spent)
  BY DEF SealFails, Answer
<1> QED BY <1>1, <1>2, <1>3, AnswerKeeps

LEMMA ReReadIInv == ASSUME IInv, NEW b \in Buyers, ReRead(b) PROVE IInv'
<1> DEFINE w == [work[b] EXCEPT !.rec = sealed[work[b].task], !.pre = IsSealed(work[b].task)]
<1>1. BuyerInv(b) /\ work[b] \in WorkRecords /\ call' = call /\ sealed' = sealed
      /\ spent' = spent /\ Shared
  BY SharedStill DEF IInv, TypeOK, ReRead, store
<1>2. IsSealed(work[b].task) /\ work[b].task \in AllTasks
  BY <1>1 DEF BuyerInv, SealInv, ReRead, WorkRecords, IsSealed
<1>3. sealed[work[b].task] \in AllTests \cup {None} /\ IsSealed(work[b].task) \in BOOLEAN
  BY <1>2 DEF IInv, TypeOK
<1>4. w \in WorkRecords /\ work' = [work EXCEPT ![b] = w]
  BY <1>1, <1>3, WorkFields DEF IInv, TypeOK, ReRead
<1>5. w.task = work[b].task /\ w.tx = work[b].tx /\ w.blind = work[b].blind
      /\ w.rec = sealed[w.task]
  BY <1>1 DEF WorkRecords
<1> HIDE DEF w
<1>6. Moves(b, "verifying", w, reply[b]) /\ reply[b] \in Replies
  BY <1>2, <1>4, GoesOn DEF IInv, ReRead
<1>7. pc'[b] = "verifying" /\ work'[b] = w /\ reply'[b] = reply[b] => BuyerInv(b)'
  BY <1>1, <1>2, <1>5 DEF BuyerInv, DoorInv, MoneyInv, SealInv, ReplyInv, Verdict,
     IsSealed, ReRead
<1> QED BY <1>1, <1>4, <1>6, <1>7, BuyerStep DEF Steps

LEMMA ToolReadsIInv == ASSUME IInv, NEW b \in Buyers, ToolReads(b) PROVE IInv'
<1> DEFINE w == [work[b] EXCEPT !.rec = sealed[work[b].task]]
           r == Reply(b, "noTest", "unsaid", None, spent)
<1>1. BuyerInv(b) /\ work[b] \in WorkRecords /\ call' = call /\ sealed' = sealed
      /\ spent' = spent /\ Shared
  BY SharedStill DEF IInv, TypeOK, ToolReads, store
<1>2. call[b].door = "mcp" /\ call[b].auth \in spent /\ work[b].task \in AllTasks
      /\ (work[b].blind \/ IsSealed(work[b].task))
  BY <1>1 DEF BuyerInv, DoorInv, MoneyInv, SealInv, ToolReads, WorkRecords
<1>3. sealed[work[b].task] \in AllTests \cup {None}
  BY <1>2 DEF IInv, TypeOK
<1>4. w \in WorkRecords /\ work' = [work EXCEPT ![b] = w]
  BY <1>1, <1>3, WorkFields DEF IInv, TypeOK, ToolReads
<1>5. w.task = work[b].task /\ w.tx = work[b].tx /\ w.blind = work[b].blind
      /\ w.rec = sealed[w.task]
  BY <1>1 DEF WorkRecords
<1> HIDE DEF w
<1>6. CASE ~IsSealed(work[b].task)
  <2>1. Moves(b, "done", w, r) /\ r \in Replies
    BY <1>4, <1>6, Answers DEF ToolReads, Answer, Kinds
  <2>2. pc'[b] = "done" /\ work'[b] = w /\ reply'[b] = r => BuyerInv(b)'
    BY <1>1, <1>2, <1>5, <1>6 DEF BuyerInv, DoorInv, MoneyInv, SealInv, ReplyInv, Verdict, Reply
  <2> QED BY <1>1, <1>4, <2>1, <2>2, BuyerStep DEF Steps
<1>7. CASE IsSealed(work[b].task)
  <2>1. Moves(b, "verifying", w, reply[b]) /\ reply[b] \in Replies
    BY <1>4, <1>7, GoesOn DEF IInv, ToolReads
  <2>2. pc'[b] = "verifying" /\ work'[b] = w /\ reply'[b] = reply[b] => BuyerInv(b)'
    BY <1>1, <1>2, <1>5, <1>7 DEF BuyerInv, DoorInv, MoneyInv, SealInv, ReplyInv, Verdict, IsSealed
  <2> QED BY <1>1, <1>4, <2>1, <2>2, BuyerStep DEF Steps
<1> QED BY <1>6, <1>7

(* The verdict, logged or not.                                              *)
LEMMA VerdictKeeps == ASSUME IInv, NEW b \in Buyers, NEW o \in Outcomes, pc[b] = "verifying",
                             judged' = judged \cup {[task |-> work[b].task, seal |-> work[b].rec]},
                             log' = log \/ log' = log \cup {Entry(b, o)},
                             UNCHANGED <<sealed, spent, call, work>>, faults' = faults \/ Fault,
                             Answer(b, "verdict",
                                    IF call[b].door = "http" THEN "yes" ELSE "unsaid", o)
                      PROVE  IInv'
<1> DEFINE charged == IF call[b].door = "http" THEN "yes" ELSE "unsaid"
           r == Reply(b, "verdict", charged, o, spent)
<1>1. BuyerInv(b) /\ work[b] \in WorkRecords
  BY DEF IInv, TypeOK
<1>2. /\ work[b].task \in AllTasks /\ work[b].rec \in AllTests
      /\ IsSealed(work[b].task) /\ work[b].rec = sealed[work[b].task]
      /\ work[b].tx \in BOOLEAN /\ (work[b].tx => call[b].auth \in spent)
      /\ (call[b].door \in PaidDoors => call[b].auth \in spent)
  BY <1>1, NoneApart DEF BuyerInv, SealInv, MoneyInv, WorkRecords, IsSealed
<1>3. Entry(b, o) \in LogEntries /\ [task |-> work[b].task, seal |-> work[b].rec]
        \in [task : AllTasks, seal : AllTests]
  BY <1>2, CallType DEF IInv, Entry, LogEntries
<1>4. SharedType' /\ Grows
  BY <1>3, FaultsAssumption DEF IInv, TypeOK, SharedType, Grows, Fault
<1>5. HistoryInv'
  BY <1>2 DEF IInv, HistoryInv, Entry
<1>6. work' = [work EXCEPT ![b] = work[b]]
  BY DEF IInv, TypeOK
<1>7. Moves(b, "done", work[b], r) /\ r \in Replies
  BY <1>6, Answers DEF Answer, Kinds
<1>8. r.kind = "verdict" /\ r.charged = charged /\ (charged = "yes" => r.paid)
      /\ (call[b].door = "http" => charged = "yes")
  BY <1>2 DEF Reply, PaidDoors
<1> HIDE DEF r
<1>9. pc'[b] = "done" /\ work'[b] = work[b] /\ reply'[b] = r => BuyerInv(b)'
  BY <1>1, <1>2, <1>8 DEF BuyerInv, DoorInv, MoneyInv, SealInv, ReplyInv, Verdict, IsSealed
<1> QED BY <1>1, <1>4, <1>5, <1>7, <1>9, BuyerStep DEF Shared, Steps

LEMMA NextIInv == ASSUME IInv, [Next]_vars PROVE IInv'
<1>1. ASSUME NEW t \in AllTasks, NEW s \in Tests, PosterCommits(t, s) PROVE IInv'
  BY <1>1, PosterCommitsIInv
<1>2. ASSUME NEW a \in Auths, BuyerSettles(a) PROVE IInv'
  BY <1>2, BuyerSettlesIInv
<1>3. ASSUME NEW b \in Buyers, Retry(b) \/ Arrives(b) PROVE IInv'
  BY <1>3, RetryIInv, HttpArrivesIInv, McpArrivesIInv, FreeArrivesIInv DEF Arrives
<1>4. ASSUME NEW b \in Buyers, Proceeds(b) PROVE IInv'
  <2>1. ASSUME NEW o \in Outcomes, Verified(b, o) PROVE IInv'
    BY <2>1, VerdictKeeps DEF Verified
  <2> QED BY <1>4, <2>1, SettlesIInv, SettledAlreadyIInv, DeclinesIInv, ChooseDemoIInv,
             LookUpIInv, SealInlineIInv, ReReadIInv, ToolReadsIInv DEF Proceeds
<1>5. ASSUME NEW b \in Buyers, Fails(b) PROVE IInv'
  <2>1. ASSUME NEW o \in Outcomes, VerifiedUnlogged(b, o) PROVE IInv'
    BY <2>1, VerdictKeeps DEF VerifiedUnlogged
  <2> QED BY <1>5, <2>1, McpArrivesUncheckedIInv, FreeLookupFailsIInv, FacilitatorSilentIInv,
             FacilitatorGarblesIInv, DatabaseFailsIInv, SealFailsIInv, TimedOutIInv,
             DroppedIInv DEF Fails
<1>6. CASE UNCHANGED vars
  BY <1>6, StutterIInv
<1> QED BY <1>1, <1>2, <1>3, <1>4, <1>5, <1>6 DEF Next

-----------------------------------------------------------------------------
(* The theorems.                                                            *)

(* In every reachable state every request is where its local variables, the *)
(* store and the chain say it is: the invariant the others follow from.     *)
THEOREM InductiveInvariant == Spec => []IInv
  BY InitIInv, NextIInv, PTL DEF Spec

(* Every variable keeps its type.                                           *)
THEOREM TypeCorrect == Spec => []TypeOK
<1>1. IInv => TypeOK
  BY DEF IInv
<1> QED BY <1>1, InductiveInvariant, PTL

(* No verdict leaves a paid door, and none is logged with a transaction,    *)
(* unless the buyer's money has moved.                                      *)
THEOREM PaymentPrecedesVerdict == Spec => []NoVerdictUnpaid
<1>1. IInv => NoVerdictUnpaid
  BY DEF IInv, BuyerInv, MoneyInv, HistoryInv, NoVerdictUnpaid
<1> QED BY <1>1, InductiveInvariant, PTL

(* The HTTP door's `charged' is true, and only a failure keeps a payer from *)
(* being told that it has paid.                                             *)
THEOREM ToldHolds == Spec => []PayerIsTold
<1>1. IInv => PayerIsTold
  BY DEF IInv, BuyerInv, ReplyInv, PayerIsTold
<1> QED BY <1>1, InductiveInvariant, PTL

(* No door judges, answers or logs anything but the sealed test.            *)
THEOREM SealHolds == Spec => []VerdictBindsSeal
<1>1. IInv => VerdictBindsSeal
  BY DEF IInv, BuyerInv, SealInv, HistoryInv, VerdictBindsSeal, IsSealed
<1> QED BY <1>1, InductiveInvariant, PTL

(* A paid MCP call that passed the precheck finds its test.                 *)
THEOREM PrecheckHolds == Spec => []PrecheckedIsJudged
<1>1. IInv => PrecheckedIsJudged
  BY DEF IInv, BuyerInv, ReplyInv, PrecheckedIsJudged
<1> QED BY <1>1, InductiveInvariant, PTL

(* A paid HTTP request ends with a verdict, a refusal, or a fault.          *)
THEOREM HttpJudges == Spec => []PaidHttpIsJudged
<1>1. IInv => PaidHttpIsJudged
  BY DEF IInv, BuyerInv, ReplyInv, PaidHttpIsJudged
<1> QED BY <1>1, InductiveInvariant, PTL

-----------------------------------------------------------------------------
(* Every step of the doors is a step of the ledger, or none.                *)

LEMMA LedgerInit == Init => Ledger!Init
  BY DEF Init, Ledger!Init

(* A verdict judges the sealed test of its task.                            *)
LEMMA VerdictJudges == ASSUME IInv, NEW b \in Buyers, pc[b] = "verifying", UNCHANGED sealed,
                              judged' = judged \cup {[task |-> work[b].task, seal |-> work[b].rec]}
                       PROVE  \E t \in AllTasks : Ledger!Judge(t)
<1>1. work[b].task \in AllTasks /\ work[b].rec = sealed[work[b].task]
      /\ sealed[work[b].task] \in AllTests
  BY NoneApart DEF IInv, TypeOK, BuyerInv, SealInv, WorkRecords, IsSealed
<1>2. Ledger!Judge(work[b].task)
  BY <1>1 DEF Ledger!Judge
<1> QED BY <1>1, <1>2

(* An inline test seals its task, or changes nothing.                       *)
LEMMA InlineSeals == ASSUME IInv, NEW b \in Buyers, pc[b] = "seal",
                            sealed' \in {sealed, Sealing(b)}, UNCHANGED judged
                     PROVE  Ledger!Next \/ UNCHANGED store
<1>1. CASE sealed' = sealed
  BY <1>1 DEF store
<1>2. CASE ~IsSealed(work[b].task) /\ sealed' = [sealed EXCEPT ![work[b].task] = work[b].test]
  <2>1. work[b].task \in AllTasks /\ work[b].test \in AllTests
    BY <1>2, NoneApart DEF IInv, TypeOK, BuyerInv, SealInv, WorkRecords
  <2>2. Ledger!Seal(work[b].task, work[b].test)
    BY <1>2, <2>1, NoneApart DEF IsSealed, Ledger!Seal
  <2> QED BY <2>1, <2>2 DEF Ledger!Next
<1> QED BY <1>1, <1>2 DEF Sealing

LEMMA LedgerStep == IInv /\ [Next]_vars => [Ledger!Next]_(Ledger!vars)
<1> SUFFICES ASSUME IInv, [Next]_vars PROVE Ledger!Next \/ UNCHANGED store
  BY DEF Ledger!vars, store
<1>1. ASSUME NEW t \in AllTasks, NEW s \in Tests, PosterCommits(t, s) PROVE Ledger!Next
  BY <1>1 DEF PosterCommits, Ledger!Seal, Ledger!Next, AllTasks, AllTests
<1>2. ASSUME NEW b \in Buyers, NEW o \in Outcomes, Verified(b, o) \/ VerifiedUnlogged(b, o)
      PROVE  Ledger!Next
  BY <1>2, VerdictJudges DEF Verified, VerifiedUnlogged, Ledger!Next
<1>3. ASSUME NEW b \in Buyers, SealInline(b) \/ SealFails(b)
      PROVE  Ledger!Next \/ UNCHANGED store
  BY <1>3, InlineSeals DEF SealInline, SealFails
<1>4. ASSUME NEW b \in Buyers, Retry(b) \/ Arrives(b) PROVE UNCHANGED store
  BY <1>4 DEF Retry, Arrives, HttpArrives, McpArrives, FreeArrives
<1>5. ASSUME NEW b \in Buyers, Proceeds(b) PROVE Ledger!Next \/ UNCHANGED store
  BY <1>2, <1>3, <1>5 DEF Proceeds, Settles, SettledAlready, Honoured, Declines,
     ChooseDemo, LookUp, ReRead, ToolReads
<1>6. ASSUME NEW b \in Buyers, Fails(b) PROVE Ledger!Next \/ UNCHANGED store
  BY <1>2, <1>3, <1>6 DEF Fails, McpArrivesUnchecked, FreeLookupFails, FacilitatorSilent,
     FacilitatorGarbles, DatabaseFails, TimedOut, Dropped
<1>7. CASE (\E a \in Auths : BuyerSettles(a)) \/ UNCHANGED vars
  BY <1>7 DEF BuyerSettles, vars, store
<1> QED BY <1>1, <1>4, <1>5, <1>6, <1>7 DEF Next

(* Whatever the doors interleave, the store stays the ledger CommitStore    *)
(* implements.                                                              *)
THEOREM Refinement == Spec => ImplementsLedger
  BY LedgerInit, LedgerStep, InductiveInvariant, PTL DEF Spec, ImplementsLedger, Ledger!Spec

-----------------------------------------------------------------------------
(* The public log.                                                          *)

(* Unless something fails, who has a verdict finds it in the public log,    *)
(* with the test, the authorization and the transaction it was given for    *)
(* (record_verdict, which the doors call and whose failure they ignore).    *)
Logged(b) == Verdict(b) /\ faults = 0 => Entry(b, reply[b].outcome) \in log

VerdictIsLogged == \A b \in Buyers : Logged(b)

(* A request that stands still keeps its entry.                             *)
LEMMA LogFrame ==
  ASSUME NEW b \in Buyers, Logged(b), Still(b), UNCHANGED <<call, faults>>, log \subseteq log'
  PROVE  Logged(b)'
  BY DEF Logged, Verdict, Entry, Still

(* A step of b that is no verdict and no fault.                             *)
LEMMA LogStep ==
  ASSUME TypeOK, VerdictIsLogged, NEW b \in Buyers, NEW p, NEW r,
         pc' = [pc EXCEPT ![b] = p], reply' = [reply EXCEPT ![b] = r],
         \A c \in Buyers \ {b} : work'[c] = work[c],
         p = "done" => r.kind # "verdict",
         UNCHANGED <<call, faults, log>>
  PROVE  VerdictIsLogged'
<1>1. ASSUME NEW c \in Buyers \ {b} PROVE Logged(c)'
  BY LogFrame DEF TypeOK, VerdictIsLogged, Still
<1>2. Logged(b)'
  BY DEF TypeOK, Logged, Verdict
<1> QED BY <1>1, <1>2 DEF VerdictIsLogged

LEMMA GoesOnLogged ==
  ASSUME TypeOK, VerdictIsLogged, NEW b \in Buyers, NEW p, p # "done", Goto(b, p),
         UNCHANGED reply \/ reply' = [reply EXCEPT ![b] = NoReply],
         \A c \in Buyers \ {b} : work'[c] = work[c],
         UNCHANGED <<call, faults, log>>
  PROVE  VerdictIsLogged'
<1>1. PICK r : reply' = [reply EXCEPT ![b] = r]
  <2>1. reply = [reply EXCEPT ![b] = reply[b]]
    BY DEF TypeOK
  <2> QED BY <2>1
<1> QED BY <1>1, LogStep DEF Goto

LEMMA AnsweredLogged ==
  ASSUME TypeOK, VerdictIsLogged, NEW b \in Buyers, NEW kind, kind # "verdict", NEW charged,
         Answer(b, kind, charged, None),
         \A c \in Buyers \ {b} : work'[c] = work[c],
         UNCHANGED <<call, faults, log>>
  PROVE  VerdictIsLogged'
  BY LogStep DEF Answer, AnswerWhen, Goto

LEMMA GateLogged ==
  ASSUME TypeOK, VerdictIsLogged, NEW b \in Buyers, NEW doomed \in BOOLEAN, Gate(b, doomed),
         \A c \in Buyers \ {b} : work'[c] = work[c],
         UNCHANGED <<call, faults, log>>
  PROVE  VerdictIsLogged'
  BY GoesOnLogged, AnsweredLogged DEF Gate

LEMMA VerdictLogged ==
  ASSUME TypeOK, VerdictIsLogged, NEW b \in Buyers, NEW o \in Outcomes, Verified(b, o)
  PROVE  VerdictIsLogged'
<1>1. /\ UNCHANGED <<call, faults, work>> /\ log' = log \cup {Entry(b, o)}
      /\ pc' = [pc EXCEPT ![b] = "done"]
  BY DEF Verified, Answer, AnswerWhen, Goto
<1> DEFINE r == Reply(b, "verdict", IF call[b].door = "http" THEN "yes" ELSE "unsaid", o, spent)
<1>2. reply' = [reply EXCEPT ![b] = r] /\ r.outcome = o
  BY DEF Verified, Answer, AnswerWhen, Reply
<1> HIDE DEF r
<1>3. ASSUME NEW c \in Buyers \ {b} PROVE Logged(c)'
  BY <1>1, <1>2, LogFrame DEF TypeOK, VerdictIsLogged, Still
<1>4. Logged(b)'
  BY <1>1, <1>2 DEF TypeOK, Logged, Entry
<1> QED BY <1>3, <1>4 DEF VerdictIsLogged

LEMMA NextLogged ==
  ASSUME IInv, VerdictIsLogged, [Next]_vars
  PROVE  VerdictIsLogged'
<1>1. TypeOK
  BY DEF IInv
<1>2. ASSUME UNCHANGED <<call, pc, work, reply, log, faults>> PROVE VerdictIsLogged'
  BY <1>2, LogFrame DEF VerdictIsLogged, Still
<1>3. ASSUME NEW b \in Buyers, Fails(b) PROVE VerdictIsLogged'
  <2>1. faults' > 0
    BY <1>3, FaultCounts DEF Fails, McpArrivesUnchecked, FreeLookupFails, FacilitatorSilent,
       FacilitatorGarbles, DatabaseFails, SealFails, VerifiedUnlogged, TimedOut, Dropped
  <2> QED BY <2>1 DEF VerdictIsLogged, Logged
<1>4. ASSUME NEW b \in Buyers, \A c \in Buyers \ {b} : work'[c] = work[c],
             Retry(b) \/ Arrives(b) PROVE VerdictIsLogged'
  <2>1. CASE Retry(b)
    BY <1>1, <1>4, <2>1, GoesOnLogged DEF Retry
  <2>2. CASE HttpArrives(b) \/ FreeArrives(b)
    BY <1>1, <1>4, <2>2, GoesOnLogged, AnsweredLogged DEF HttpArrives, FreeArrives
  <2>3. CASE McpArrives(b)
    <3>1. Gate(b, ~IsSealed(call[b].task)) /\ (~IsSealed(call[b].task)) \in BOOLEAN
      BY <2>3 DEF McpArrives
    <3> QED BY <1>1, <1>4, <2>3, <3>1, GateLogged DEF McpArrives
  <2> QED BY <1>4, <2>1, <2>2, <2>3 DEF Arrives
<1>5. ASSUME NEW b \in Buyers, \A c \in Buyers \ {b} : work'[c] = work[c],
             Proceeds(b) PROVE VerdictIsLogged'
  <2>1. CASE Settles(b) \/ SettledAlready(b)
    BY <1>1, <1>5, <2>1, GoesOnLogged DEF Settles, SettledAlready, Honoured
  <2>2. CASE Declines(b)
    BY <1>1, <1>5, <2>2, AnsweredLogged DEF Declines
  <2>3. CASE ChooseDemo(b) \/ LookUp(b) \/ SealInline(b)
    BY <1>1, <1>5, <2>3, GoesOnLogged DEF ChooseDemo, LookUp, SealInline
  <2>4. CASE ReRead(b) \/ ToolReads(b)
    BY <1>1, <1>5, <2>4, GoesOnLogged, AnsweredLogged DEF ReRead, ToolReads
  <2> QED BY <1>1, <1>5, <2>1, <2>2, <2>3, <2>4, VerdictLogged DEF Proceeds
<1>6. ASSUME NEW b \in Buyers, Retry(b) \/ Arrives(b) \/ Proceeds(b)
      PROVE  \A c \in Buyers \ {b} : work'[c] = work[c]
  <2>1. \/ UNCHANGED work
        \/ \E w : work' = [work EXCEPT ![b] = w]
    BY <1>6 DEF Retry, Arrives, HttpArrives, McpArrives, FreeArrives, Arrived, Proceeds,
       Settles, SettledAlready, Honoured, Declines, ChooseDemo, LookUp, SealInline, ReRead,
       ToolReads, Verified
  <2> QED BY <1>1, <2>1 DEF TypeOK
<1>7. CASE UNCHANGED vars
  BY <1>2, <1>7 DEF vars
<1> QED BY <1>2, <1>3, <1>4, <1>5, <1>6, <1>7 DEF Next, PosterCommits, BuyerSettles

(* Only a fault keeps a verdict out of the log.                             *)
THEOREM VerdictLoggedHolds == Spec => []VerdictIsLogged
<1>1. Init => VerdictIsLogged
  BY DEF Init, VerdictIsLogged, Logged, Verdict
<1> QED BY <1>1, NextLogged, InductiveInvariant, PTL DEF Spec

-----------------------------------------------------------------------------

(* Nothing the doors have done is undone: a seal stands, moved money has    *)
(* moved, and what was judged or published stays on record.                 *)
DoneIsDone ==
  /\ \A t \in AllTasks : IsSealed(t) => sealed'[t] = sealed[t]
  /\ spent \subseteq spent' /\ judged \subseteq judged' /\ log \subseteq log'

RecordStands == [][DoneIsDone]_vars

(* No door, fault or retry takes back a seal, a payment, a judgement or a   *)
(* log entry.                                                               *)
THEOREM RecordHolds == Spec => RecordStands
<1>1. ASSUME IInv, [Next]_vars PROVE DoneIsDone
  <2>1. /\ \A t \in AllTasks : IsSealed(t) => sealed'[t] = sealed[t]
        /\ judged \subseteq judged'
    <3>1. [Ledger!Next]_(Ledger!vars) /\ sealed \in [AllTasks -> AllTests \cup {None}]
      BY <1>1, LedgerStep DEF IInv, TypeOK
    <3>2. CASE UNCHANGED store
      BY <3>2 DEF store
    <3>3. ASSUME NEW t \in AllTasks, NEW s \in AllTests, Ledger!Seal(t, s)
          PROVE  sealed[t] = None /\ sealed' = [sealed EXCEPT ![t] = s] /\ judged' = judged
      BY <3>3 DEF Ledger!Seal
    <3>4. ASSUME NEW t \in AllTasks, Ledger!Judge(t)
          PROVE  sealed' = sealed /\ judged \subseteq judged'
      BY <3>4 DEF Ledger!Judge
    <3>5. ASSUME NEW t \in AllTasks, Ledger!Promise(t)
          PROVE  UNCHANGED store
      BY <3>5 DEF Ledger!Promise, store
    <3> QED BY <3>1, <3>2, <3>3, <3>4, <3>5 DEF Ledger!Next, Ledger!vars, store, IsSealed
  <2>2. ASSUME NEW b \in Buyers, Retry(b) \/ Arrives(b)
        PROVE  spent \subseteq spent' /\ log \subseteq log'
    BY <2>2 DEF Retry, Arrives, HttpArrives, McpArrives, FreeArrives
  <2>3. ASSUME NEW b \in Buyers, Proceeds(b)
        PROVE  spent \subseteq spent' /\ log \subseteq log'
    BY <2>3 DEF Proceeds, Settles, SettledAlready, Honoured, Declines, ChooseDemo, LookUp,
       SealInline, ReRead, ToolReads, Verified
  <2>4. ASSUME NEW b \in Buyers, Fails(b)
        PROVE  spent \subseteq spent' /\ log \subseteq log'
    BY <2>4 DEF Fails, McpArrivesUnchecked, FreeLookupFails, FacilitatorSilent,
       FacilitatorGarbles, DatabaseFails, SealFails, VerifiedUnlogged, TimedOut, Dropped
  <2>5. spent \subseteq spent' /\ log \subseteq log'
    BY <1>1, <2>2, <2>3, <2>4 DEF Next, PosterCommits, BuyerSettles, vars
  <2> QED BY <2>1, <2>5 DEF DoneIsDone
<1> QED BY <1>1, InductiveInvariant, PTL DEF Spec, RecordStands
=============================================================================
