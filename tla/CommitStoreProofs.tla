-------------------------- MODULE CommitStoreProofs --------------------------
(***************************************************************************)
(* For any number of server processes, tasks, tests and nonces: the         *)
(* properties of CommitStore, and that it implements SealedLedger.          *)
(***************************************************************************)
EXTENDS CommitStore, TLAPS

-----------------------------------------------------------------------------
(* The inductive invariant, part by part.                                   *)

HasRow(t) == table[t] # NoRow

(* An uncommitted row stands alone: nothing committed, and no second        *)
(* transaction with a row, for its task.                                    *)
LockInv ==
  \A p \in Processes : call[p].pc = "inserted" =>
    /\ ~HasRow(call[p].task)
    /\ \A q \in Processes : call[q].pc = "inserted" /\ call[q].task = call[p].task => q = p

(* After COMMIT the row is ours; after a conflict there is one.             *)
OutcomeInv ==
  \A p \in Processes :
    /\ call[p].pc = "committed" => table[call[p].task] = Row(p)
    /\ call[p].pc = "conflict" => HasRow(call[p].task)

(* A stored hash opens with the stored source and nonce.                    *)
OpenInv ==
  \A t \in Tasks : HasRow(t) => table[t].commitment = Commitment(table[t].source, table[t].nonce)

(* What was returned or read is what the row says.                          *)
ClaimInv ==
  \A a \in acks \cup judged :
    /\ HasRow(a.task)
    /\ table[a.task].source = a.source
    /\ table[a.task].commitment = a.commitment

RefusedInv ==
  \A r \in refused : HasRow(r.task) /\ table[r.task].source # r.source

(* A nonce serves one call and ends up in at most one row.                  *)
NonceInv ==
  /\ \A p \in Processes : call[p].pc # "idle" => call[p].nonce \in drawn
  /\ \A p, q \in Processes :
       call[p].pc # "idle" /\ call[q].pc # "idle" /\ call[p].nonce = call[q].nonce => p = q
  /\ \A t \in Tasks : HasRow(t) => table[t].nonce \in drawn
  /\ \A p \in Processes, t \in Tasks :
       call[p].pc \in {"insert", "inserted"} /\ HasRow(t) => table[t].nonce # call[p].nonce
  /\ \A t, u \in Tasks : HasRow(t) /\ HasRow(u) /\ table[t].nonce = table[u].nonce => t = u

IInv ==
  /\ TypeOK
  /\ LockInv
  /\ OutcomeInv
  /\ OpenInv
  /\ ClaimInv
  /\ RefusedInv
  /\ NonceInv

-----------------------------------------------------------------------------

LEMMA InitIInv == Init => IInv
  BY NoRowAssumption
  DEF Init, IInv, TypeOK, LockInv, OutcomeInv, OpenInv, ClaimInv, RefusedInv, NonceInv,
      HasRow, Calls, Steps

LEMMA StutterIInv == IInv /\ UNCHANGED vars => IInv'
  BY DEF vars, IInv, TypeOK, LockInv, OutcomeInv, OpenInv, ClaimInv, RefusedInv, NonceInv,
         HasRow, Row, Commitment

(* A row a process is about to write is a row.                              *)
LEMMA RowType == ASSUME TypeOK, NEW p \in Processes
                 PROVE  Row(p) \in Rows /\ Row(p) # NoRow
  BY NoRowAssumption DEF TypeOK, Calls, Row, Rows, Commitment, Commitments

LEMMA BeginIInv == ASSUME NEW p \in Processes, NEW t \in Tasks, NEW s \in Sources,
                          IInv, Begin(p, t, s)
                   PROVE  IInv'
<1>1. PICK n \in Nonces \ drawn :
        /\ drawn' = drawn \cup {n}
        /\ call' = [call EXCEPT ![p] = [pc |-> "insert", task |-> t, source |-> s, nonce |-> n]]
  BY DEF Begin
<1>2. UNCHANGED <<table, acks, refused, judged>> /\ call \in [Processes -> Calls]
  BY DEF Begin, IInv, TypeOK
<1>3. TypeOK'
  BY <1>1, <1>2 DEF IInv, TypeOK, Calls, Steps
<1>4. LockInv'
  BY <1>1, <1>2 DEF IInv, LockInv, HasRow
<1>5. OutcomeInv'
  BY <1>1, <1>2 DEF IInv, OutcomeInv, HasRow, Row
<1>6. OpenInv' /\ ClaimInv' /\ RefusedInv'
  BY <1>2 DEF IInv, OpenInv, ClaimInv, RefusedInv, HasRow, Commitment
<1>7. NonceInv'
  BY <1>1, <1>2 DEF IInv, NonceInv, HasRow
<1> QED BY <1>3, <1>4, <1>5, <1>6, <1>7 DEF IInv

LEMMA InsertIInv == ASSUME NEW p \in Processes, IInv, Insert(p)
                    PROVE  IInv'
<1>1. /\ call[p].pc = "insert"
      /\ ~HasRow(call[p].task)
      /\ ~Locked(p)
      /\ call' = [call EXCEPT ![p].pc = "inserted"]
      /\ UNCHANGED <<table, drawn, acks, refused, judged>>
  BY DEF Insert, Goto, HasRow
<1>2. call \in [Processes -> Calls]
  BY DEF IInv, TypeOK
<1>3. TypeOK'
  BY <1>1, <1>2 DEF IInv, TypeOK, Calls, Steps
<1>4. LockInv'
  BY <1>1, <1>2 DEF IInv, LockInv, HasRow, Locked, Calls
<1>5. OutcomeInv'
  BY <1>1, <1>2 DEF IInv, OutcomeInv, HasRow, Row, Calls
<1>6. OpenInv' /\ ClaimInv' /\ RefusedInv'
  BY <1>1 DEF IInv, OpenInv, ClaimInv, RefusedInv, HasRow, Commitment
<1>7. NonceInv'
  BY <1>1, <1>2 DEF IInv, NonceInv, HasRow, Calls
<1> QED BY <1>3, <1>4, <1>5, <1>6, <1>7 DEF IInv

(* Conflict and Fail change nothing but where a process stands.             *)
LEMMA ConflictIInv == ASSUME NEW p \in Processes, IInv, Conflict(p)
                      PROVE  IInv'
<1>1. /\ call[p].pc = "insert"
      /\ HasRow(call[p].task)
      /\ call' = [call EXCEPT ![p].pc = "conflict"]
      /\ UNCHANGED <<table, drawn, acks, refused, judged>>
  BY DEF Conflict, Goto, HasRow
<1>2. call \in [Processes -> Calls]
  BY DEF IInv, TypeOK
<1>3. TypeOK'
  BY <1>1, <1>2 DEF IInv, TypeOK, Calls, Steps
<1>4. LockInv'
  BY <1>1, <1>2 DEF IInv, LockInv, HasRow, Calls
<1>5. OutcomeInv'
  BY <1>1, <1>2 DEF IInv, OutcomeInv, HasRow, Row, Calls
<1>6. OpenInv' /\ ClaimInv' /\ RefusedInv'
  BY <1>1 DEF IInv, OpenInv, ClaimInv, RefusedInv, HasRow, Commitment
<1>7. NonceInv'
  BY <1>1, <1>2 DEF IInv, NonceInv, HasRow, Calls
<1> QED BY <1>3, <1>4, <1>5, <1>6, <1>7 DEF IInv

LEMMA FailIInv == ASSUME NEW p \in Processes, IInv, Fail(p)
                  PROVE  IInv'
<1>1. /\ call' = [call EXCEPT ![p].pc = "idle"]
      /\ UNCHANGED <<table, drawn, acks, refused, judged>>
  BY DEF Fail, Goto
<1>2. call \in [Processes -> Calls]
  BY DEF IInv, TypeOK
<1>3. TypeOK'
  BY <1>1, <1>2 DEF IInv, TypeOK, Calls, Steps
<1>4. LockInv'
  BY <1>1, <1>2 DEF IInv, LockInv, HasRow, Calls
<1>5. OutcomeInv'
  BY <1>1, <1>2 DEF IInv, OutcomeInv, HasRow, Row, Calls
<1>6. OpenInv' /\ ClaimInv' /\ RefusedInv'
  BY <1>1 DEF IInv, OpenInv, ClaimInv, RefusedInv, HasRow, Commitment
<1>7. NonceInv'
  BY <1>1, <1>2 DEF IInv, NonceInv, HasRow, Calls
<1> QED BY <1>3, <1>4, <1>5, <1>6, <1>7 DEF IInv

(* The only step that writes the table writes where nothing was.            *)
LEMMA CommitTxIInv == ASSUME NEW p \in Processes, IInv, CommitTx(p)
                      PROVE  IInv'
<1> DEFINE t == call[p].task
<1>1. /\ call[p].pc = "inserted"
      /\ table' = [table EXCEPT ![t] = Row(p)]
      /\ call' = [call EXCEPT ![p].pc = "committed"]
      /\ UNCHANGED <<drawn, acks, refused, judged>>
  BY DEF CommitTx, Goto
<1>2. /\ call \in [Processes -> Calls]
      /\ table \in [Tasks -> Rows \cup {NoRow}]
      /\ t \in Tasks
  BY DEF IInv, TypeOK, Calls
<1>3. Row(p) \in Rows /\ Row(p) # NoRow
  BY RowType DEF IInv
<1>4. ~HasRow(t)
  BY <1>1 DEF IInv, LockInv
<1>5. /\ table'[t] = Row(p)
      /\ \A u \in Tasks \ {t} : table'[u] = table[u]
      /\ \A u \in Tasks : HasRow(u) => table'[u] = table[u]
  BY <1>1, <1>2, <1>4
<1>6. /\ call'[p].pc = "committed" /\ call'[p].task = t /\ call'[p].nonce = call[p].nonce
      /\ call'[p].source = call[p].source
      /\ \A q \in Processes \ {p} : call'[q] = call[q]
  BY <1>1, <1>2 DEF Calls
<1> HIDE DEF t
<1>7. TypeOK'
  BY <1>1, <1>2, <1>3 DEF IInv, TypeOK, Calls, Steps
<1>8. LockInv'
  <2> SUFFICES ASSUME NEW q \in Processes, call'[q].pc = "inserted"
               PROVE  /\ ~HasRow(call[q].task)'
                      /\ \A r \in Processes :
                           call'[r].pc = "inserted" /\ call'[r].task = call'[q].task => r = q
    BY DEF LockInv
  <2>1. q # p /\ call'[q] = call[q] /\ call[q].task \in Tasks
    BY <1>2, <1>6 DEF Calls
  <2>2. call[q].task # t
    BY <1>1, <2>1 DEF IInv, LockInv, t
  <2> QED BY <1>5, <1>6, <2>1, <2>2 DEF IInv, LockInv, HasRow
<1>9. OutcomeInv'
  <2> SUFFICES ASSUME NEW q \in Processes
               PROVE  /\ call'[q].pc = "committed" => table'[call'[q].task] = Row(q)'
                      /\ call'[q].pc = "conflict" => HasRow(call[q].task)'
    BY DEF OutcomeInv
  <2>1. CASE q = p
    BY <2>1, <1>5, <1>6 DEF Row
  <2>2. CASE q # p
    <3>1. call'[q] = call[q] /\ call[q].task \in Tasks /\ Row(q)' = Row(q)
      BY <2>2, <1>2, <1>6 DEF Calls, Row
    <3>2. Row(q) # NoRow
      BY RowType DEF IInv
    <3> QED BY <3>1, <3>2, <1>5 DEF IInv, OutcomeInv, HasRow
  <2> QED BY <2>1, <2>2
<1>10. OpenInv'
  BY <1>5 DEF IInv, OpenInv, HasRow, Row
<1>11. ClaimInv' /\ RefusedInv'
  BY <1>1, <1>5 DEF IInv, TypeOK, ClaimInv, RefusedInv, HasRow, Claims
<1>12. NonceInv'
  <2>1. table'[t].nonce = call[p].nonce /\ call[p].nonce \in drawn
    BY <1>1, <1>5 DEF IInv, NonceInv, Row
  <2>2. \A u \in Tasks : HasRow(u)' /\ u # t => HasRow(u) /\ table[u].nonce # call[p].nonce
    BY <1>1, <1>5 DEF IInv, NonceInv, HasRow
  <2>3. \A q \in Processes \ {p} : call[q].pc # "idle" => call[q].nonce # call[p].nonce
    BY <1>1 DEF IInv, NonceInv
  <2> QED BY <2>1, <2>2, <2>3, <1>1, <1>2, <1>5, <1>6 DEF IInv, NonceInv, HasRow
<1> QED BY <1>7, <1>8, <1>9, <1>10, <1>11, <1>12 DEF IInv

(* An answer moves a process to idle and adds one claim the table backs.    *)
LEMMA AnswerIInv == ASSUME NEW p \in Processes, IInv,
                           call' = [call EXCEPT ![p].pc = "idle"],
                           UNCHANGED <<table, drawn>>,
                           acks' \subseteq Claims, refused' \subseteq [task : Tasks, source : Sources],
                           judged' \subseteq Claims, ClaimInv', RefusedInv'
                    PROVE  IInv'
<1>1. call \in [Processes -> Calls]
  BY DEF IInv, TypeOK
<1>2. TypeOK'
  BY <1>1 DEF IInv, TypeOK, Calls, Steps
<1>3. LockInv'
  BY <1>1 DEF IInv, LockInv, HasRow, Calls
<1>4. OutcomeInv'
  BY <1>1 DEF IInv, OutcomeInv, HasRow, Row, Calls
<1>5. OpenInv'
  BY DEF IInv, OpenInv, HasRow, Commitment
<1>6. NonceInv'
  BY <1>1 DEF IInv, NonceInv, HasRow, Calls
<1> QED BY <1>2, <1>3, <1>4, <1>5, <1>6 DEF IInv

LEMMA ReturnFreshIInv == ASSUME NEW p \in Processes, IInv, ReturnFresh(p)
                         PROVE  IInv'
<1> DEFINE a == [task |-> call[p].task, source |-> call[p].source,
                 commitment |-> Row(p).commitment]
<1>1. /\ call[p].pc = "committed"
      /\ acks' = acks \cup {a}
      /\ call' = [call EXCEPT ![p].pc = "idle"]
      /\ UNCHANGED <<table, drawn, refused, judged>>
  BY DEF ReturnFresh, Goto
<1>2. a \in Claims
  BY DEF IInv, TypeOK, Calls, Claims, Row, Commitment, Commitments
<1>3. HasRow(a.task) /\ table[a.task].source = a.source /\ table[a.task].commitment = a.commitment
  <2>1. Row(p) # NoRow
    BY RowType DEF IInv
  <2>2. table[call[p].task] = Row(p)
    BY <1>1 DEF IInv, OutcomeInv
  <2> QED BY <2>1, <2>2 DEF HasRow, Row
<1> HIDE DEF a
<1>4. ClaimInv' /\ RefusedInv'
  BY <1>1, <1>3 DEF IInv, ClaimInv, RefusedInv, HasRow
<1> QED BY <1>1, <1>2, <1>4, AnswerIInv DEF IInv, TypeOK

LEMMA ReturnExistingIInv == ASSUME NEW p \in Processes, IInv, ReturnExisting(p)
                            PROVE  IInv'
<1> DEFINE a == [task |-> call[p].task, source |-> call[p].source,
                 commitment |-> table[call[p].task].commitment]
<1>1. /\ call[p].pc = "conflict"
      /\ table[call[p].task].source = call[p].source
      /\ acks' = acks \cup {a}
      /\ call' = [call EXCEPT ![p].pc = "idle"]
      /\ UNCHANGED <<table, drawn, refused, judged>>
  BY DEF ReturnExisting, Goto
<1>2. HasRow(call[p].task)
  BY <1>1 DEF IInv, OutcomeInv
<1>3. a \in Claims
  BY <1>2 DEF IInv, TypeOK, Calls, Claims, Rows, HasRow
<1>4. HasRow(a.task) /\ table[a.task].source = a.source /\ table[a.task].commitment = a.commitment
  BY <1>1, <1>2
<1> HIDE DEF a
<1>5. ClaimInv' /\ RefusedInv'
  BY <1>1, <1>4 DEF IInv, ClaimInv, RefusedInv, HasRow
<1> QED BY <1>1, <1>3, <1>5, AnswerIInv DEF IInv, TypeOK

LEMMA RefuseIInv == ASSUME NEW p \in Processes, IInv, Refuse(p)
                    PROVE  IInv'
<1> DEFINE r == [task |-> call[p].task, source |-> call[p].source]
<1>1. /\ call[p].pc = "conflict"
      /\ table[call[p].task].source # call[p].source
      /\ refused' = refused \cup {r}
      /\ call' = [call EXCEPT ![p].pc = "idle"]
      /\ UNCHANGED <<table, drawn, acks, judged>>
  BY DEF Refuse, Goto
<1>2. r \in [task : Tasks, source : Sources]
  BY DEF IInv, TypeOK, Calls
<1>3. HasRow(r.task) /\ table[r.task].source # r.source
  BY <1>1 DEF IInv, OutcomeInv
<1> HIDE DEF r
<1>4. ClaimInv' /\ RefusedInv'
  BY <1>1, <1>3 DEF IInv, ClaimInv, RefusedInv, HasRow
<1> QED BY <1>1, <1>2, <1>4, AnswerIInv DEF IInv, TypeOK

LEMMA GetIInv == ASSUME NEW t \in Tasks, IInv, Get(t)
                 PROVE  IInv'
<1> DEFINE a == [task |-> t, source |-> table[t].source, commitment |-> table[t].commitment]
<1>1. HasRow(t) /\ judged' = judged \cup {a} /\ UNCHANGED <<table, call, drawn, acks, refused>>
  BY DEF Get, HasRow
<1>2. a \in Claims
  BY <1>1 DEF IInv, TypeOK, Claims, Rows, HasRow
<1>3. HasRow(a.task) /\ table[a.task].source = a.source /\ table[a.task].commitment = a.commitment
  BY <1>1
<1> HIDE DEF a
<1>4. TypeOK'
  BY <1>1, <1>2 DEF IInv, TypeOK
<1>5. ClaimInv'
  BY <1>1, <1>3 DEF IInv, ClaimInv, HasRow
<1>6. LockInv' /\ OutcomeInv' /\ OpenInv' /\ RefusedInv' /\ NonceInv'
  BY <1>1 DEF IInv, LockInv, OutcomeInv, OpenInv, RefusedInv, NonceInv, HasRow, Row, Commitment
<1> QED BY <1>4, <1>5, <1>6 DEF IInv

LEMMA NextIInv == IInv /\ [Next]_vars => IInv'
<1> SUFFICES ASSUME IInv, [Next]_vars PROVE IInv'
  OBVIOUS
<1>1. ASSUME NEW p \in Processes, NEW t \in Tasks, NEW s \in Sources, Begin(p, t, s) PROVE IInv'
  BY <1>1, BeginIInv
<1>2. ASSUME NEW p \in Processes, Step(p) PROVE IInv'
  BY <1>2, InsertIInv, ConflictIInv, CommitTxIInv, ReturnFreshIInv, ReturnExistingIInv, RefuseIInv
  DEF Step
<1>3. ASSUME NEW p \in Processes, Fail(p) PROVE IInv'
  BY <1>3, FailIInv
<1>4. ASSUME NEW t \in Tasks, Get(t) PROVE IInv'
  BY <1>4, GetIInv
<1>5. CASE UNCHANGED vars
  BY <1>5, StutterIInv
<1> QED BY <1>1, <1>2, <1>3, <1>4, <1>5 DEF Next

-----------------------------------------------------------------------------
(* The theorems.                                                            *)

(* The strengthening holds in every reachable state of the store.           *)
THEOREM InductiveInvariant == Spec => []IInv
  BY InitIInv, NextIInv, PTL DEF Spec

(* Every variable keeps its type, whatever interleaving and crashes.        *)
THEOREM TypeCorrect == Spec => []TypeOK
<1>1. IInv => TypeOK
  BY DEF IInv
<1> QED BY <1>1, InductiveInvariant, PTL

(* commit and get never contradict each other about a task: both are bound  *)
(* to its one row.                                                          *)
THEOREM BindingHolds == Spec => []Binding
<1>1. IInv => Binding
  BY DEF IInv, ClaimInv, Binding
<1> QED BY <1>1, InductiveInvariant, PTL

(* A returned commitment is backed by a committed row that opens it.        *)
THEOREM DurabilityHolds == Spec => []AckedIsDurable
<1>1. IInv => AckedIsDurable
  BY DEF IInv, TypeOK, Claims, ClaimInv, OpenInv, HasRow, AckedIsDurable
<1> QED BY <1>1, InductiveInvariant, PTL

(* commit is idempotent over retries, crashes and other callers.            *)
THEOREM IdempotenceHolds == Spec => []NeverAcceptedAndRefused
<1>1. IInv => NeverAcceptedAndRefused
  BY DEF IInv, ClaimInv, RefusedInv, NeverAcceptedAndRefused
<1> QED BY <1>1, InductiveInvariant, PTL

(* Fresh nonces keep the hashes of two tasks apart even for one test.       *)
THEOREM HidingHolds == Spec => []SealsHideReuse
<1>1. IInv => SealsHideReuse
  BY DEF IInv, OpenInv, NonceInv, HasRow, SealsHideReuse, Commitment
<1> QED BY <1>1, InductiveInvariant, PTL

(* No step replaces or removes a committed row.                             *)
LEMMA StepAppends ==
  IInv /\ [Next]_vars => \A t \in Tasks : table[t] # NoRow => table'[t] = table[t]
<1> SUFFICES ASSUME IInv, [Next]_vars, NEW t \in Tasks, table[t] # NoRow
             PROVE  table'[t] = table[t]
  OBVIOUS
<1>1. ASSUME NEW p \in Processes, CommitTx(p) PROVE table'[t] = table[t]
  <2>1. t # call[p].task
    BY <1>1 DEF CommitTx, IInv, LockInv, HasRow
  <2> QED BY <1>1, <2>1 DEF CommitTx, IInv, TypeOK
<1>2. CASE UNCHANGED table
  BY <1>2
<1> QED
  BY <1>1, <1>2 DEF Next, Step, Begin, Insert, Conflict, ReturnFresh, ReturnExisting, Refuse,
                    Fail, Get, vars

THEOREM AppendOnlyHolds == Spec => AppendOnly
<1>1. IInv /\ [Next]_vars
        => [\A t \in Tasks : table[t] # NoRow => table'[t] = table[t]]_vars
  BY StepAppends
<1> QED BY <1>1, InductiveInvariant, PTL DEF Spec, AppendOnly

-----------------------------------------------------------------------------
(* Refinement: COMMIT is the seal, an answer the promise, a read the        *)
(* judgement; everything else, crashes included, is invisible.              *)

LEMMA InitLedger == Init => Ledger!Init
  BY DEF Init, Ledger!Init, SealOf

(* A committed row gives its task a seal, the one its claims carry.         *)
LEMMA SealedType == ASSUME IInv, NEW t \in Tasks, HasRow(t)
                    PROVE  SealOf(table[t]) \in [source : Sources, commitment : Commitments]
  BY DEF IInv, TypeOK, Rows, HasRow, SealOf

LEMMA CommitTxSeals == ASSUME IInv, NEW p \in Processes, CommitTx(p)
                       PROVE  \E t \in Tasks, s \in [source : Sources, commitment : Commitments] :
                                Ledger!Seal(t, s)
<1> DEFINE t == call[p].task
           s == [source |-> Row(p).source, commitment |-> Row(p).commitment]
<1>1. t \in Tasks /\ Row(p) \in Rows /\ Row(p) # NoRow
  BY RowType DEF IInv, TypeOK, Calls
<1>2. s \in [source : Sources, commitment : Commitments] /\ SealOf(Row(p)) = s
  BY <1>1 DEF Rows, SealOf
<1>3. table[t] = NoRow /\ table' = [table EXCEPT ![t] = Row(p)] /\ UNCHANGED <<acks, judged>>
  BY DEF CommitTx, IInv, LockInv, HasRow
<1>4. table \in [Tasks -> Rows \cup {NoRow}]
  BY DEF IInv, TypeOK
<1> HIDE DEF t, s
<1>5. [u \in Tasks |-> SealOf(table'[u])] = [[u \in Tasks |-> SealOf(table[u])] EXCEPT ![t] = s]
  BY <1>1, <1>2, <1>3, <1>4
<1>6. Ledger!Seal(t, s)
  BY <1>1, <1>3, <1>5 DEF Ledger!Seal, SealOf
<1> QED BY <1>1, <1>2, <1>6

(* Adding a claim the row of its task backs is a promise of that seal.      *)
LEMMA AnswerPromises == ASSUME IInv, NEW a \in Claims, HasRow(a.task),
                               table[a.task].source = a.source,
                               table[a.task].commitment = a.commitment,
                               acks' = acks \cup {a}, UNCHANGED <<table, judged>>
                        PROVE  Ledger!Promise(a.task)
<1>1. a.task \in Tasks
  BY DEF Claims
<1>2. SealOf(table[a.task]) \in [source : Sources, commitment : Commitments]
  BY <1>1, SealedType
<1>3. EntryOf(a) = [task |-> a.task, seal |-> SealOf(table[a.task])]
  BY DEF EntryOf, SealOf, HasRow
<1>4. {EntryOf(b) : b \in acks'} = {EntryOf(b) : b \in acks} \cup {EntryOf(a)}
  OBVIOUS
<1> QED BY <1>1, <1>2, <1>3, <1>4 DEF Ledger!Promise

LEMMA ReturnFreshPromises == ASSUME IInv, NEW p \in Processes, ReturnFresh(p)
                             PROVE  \E t \in Tasks : Ledger!Promise(t)
<1> DEFINE a == [task |-> call[p].task, source |-> call[p].source,
                 commitment |-> Row(p).commitment]
<1>1. acks' = acks \cup {a} /\ UNCHANGED <<table, judged>> /\ call[p].pc = "committed"
  BY DEF ReturnFresh
<1>2. a \in Claims
  BY DEF IInv, TypeOK, Calls, Claims, Row, Commitment, Commitments
<1>3. table[a.task] = Row(p) /\ Row(p) # NoRow
  BY <1>1, RowType DEF IInv, OutcomeInv
<1>4. HasRow(a.task) /\ table[a.task].source = a.source /\ table[a.task].commitment = a.commitment
  BY <1>3 DEF HasRow, Row
<1>5. a.task \in Tasks
  BY <1>2 DEF Claims
<1> HIDE DEF a
<1> QED BY <1>1, <1>2, <1>4, <1>5, AnswerPromises

LEMMA ReturnExistingPromises == ASSUME IInv, NEW p \in Processes, ReturnExisting(p)
                                PROVE  \E t \in Tasks : Ledger!Promise(t)
<1> DEFINE a == [task |-> call[p].task, source |-> call[p].source,
                 commitment |-> table[call[p].task].commitment]
<1>1. /\ acks' = acks \cup {a} /\ UNCHANGED <<table, judged>> /\ call[p].pc = "conflict"
      /\ table[call[p].task].source = call[p].source
  BY DEF ReturnExisting
<1>2. HasRow(a.task) /\ table[a.task].source = a.source /\ table[a.task].commitment = a.commitment
  BY <1>1 DEF IInv, OutcomeInv
<1>3. a \in Claims
  BY <1>2 DEF IInv, TypeOK, Calls, Claims, Rows, HasRow
<1>4. a.task \in Tasks
  BY <1>3 DEF Claims
<1> HIDE DEF a
<1> QED BY <1>1, <1>2, <1>3, <1>4, AnswerPromises

LEMMA GetJudges == ASSUME IInv, NEW t \in Tasks, Get(t)
                   PROVE  Ledger!Judge(t)
<1> DEFINE a == [task |-> t, source |-> table[t].source, commitment |-> table[t].commitment]
<1>1. HasRow(t) /\ judged' = judged \cup {a} /\ UNCHANGED <<table, acks>>
  BY DEF Get, HasRow
<1>2. SealOf(table[t]) \in [source : Sources, commitment : Commitments]
  BY <1>1, SealedType
<1>3. EntryOf(a) = [task |-> t, seal |-> SealOf(table[t])]
  BY <1>1 DEF EntryOf, SealOf, HasRow
<1> HIDE DEF a
<1>4. {EntryOf(b) : b \in judged'} = {EntryOf(b) : b \in judged} \cup {EntryOf(a)}
  BY <1>1
<1> QED BY <1>1, <1>2, <1>3, <1>4 DEF Ledger!Judge

LEMMA StepLedger == IInv /\ [Next]_vars => [Ledger!Next]_(Ledger!vars)
<1> SUFFICES ASSUME IInv, [Next]_vars PROVE [Ledger!Next]_(Ledger!vars)
  OBVIOUS
<1>1. ASSUME NEW p \in Processes, CommitTx(p) PROVE Ledger!Next
  BY <1>1, CommitTxSeals DEF Ledger!Next
<1>2. ASSUME NEW p \in Processes, ReturnFresh(p) \/ ReturnExisting(p) PROVE Ledger!Next
  BY <1>2, ReturnFreshPromises, ReturnExistingPromises DEF Ledger!Next
<1>3. ASSUME NEW t \in Tasks, Get(t) PROVE Ledger!Next
  BY <1>3, GetJudges DEF Ledger!Next
<1>4. CASE UNCHANGED <<table, acks, judged>>
  BY <1>4 DEF Ledger!vars
<1> QED
  BY <1>1, <1>2, <1>3, <1>4 DEF Next, Step, Begin, Insert, Conflict, Refuse, Fail, vars

(* The store with its transactions, its lock waits and its crashes behaves  *)
(* as a ledger whose seals are single steps.                                *)
THEOREM Refinement == Spec => ImplementsLedger
  BY InitLedger, StepLedger, InductiveInvariant, PTL DEF Spec, ImplementsLedger, Ledger!Spec
=============================================================================
