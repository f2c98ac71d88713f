----------------------------- MODULE CommitStore -----------------------------
(***************************************************************************)
(* The durable commitment store, asp/store.py, as several server processes  *)
(* use it at once (a rolling deploy runs two instances against one Postgres *)
(* database).                                                               *)
(*                                                                         *)
(* commit() is one transaction, taken apart into the steps other processes  *)
(* can come between: draw a nonce, INSERT .. ON CONFLICT DO NOTHING (which  *)
(* waits while another transaction holds an uncommitted row for the same    *)
(* primary key), then either the COMMIT that leaving the `with' block       *)
(* performs followed by the return, or the SELECT of the existing row and a *)
(* comparison of sources.  A process may lose its connection or be killed   *)
(* at each of those points.                                                 *)
(***************************************************************************)
EXTENDS Naturals

CONSTANTS Processes,   \* server processes sharing the database
          Tasks,       \* task ids, the primary key
          Sources,     \* acceptance-test sources
          Nonces,      \* what secrets.token_hex(16) can return
          NoRow        \* a task without a committed row

ASSUME NoRowAssumption == NoRow \notin [source : Sources, nonce : Nonces,
                                        commitment : Sources \X Nonces]

VARIABLES table,     \* the committed rows of `commitments'
          call,      \* the commit() call each process is in
          drawn,     \* the nonces handed out so far
          acks,      \* commitments returned to callers: [task, source, commitment]
          refused,   \* (task, source) pairs answered with the ValueError
          judged     \* rows get() has returned: [task, source, commitment]

vars == <<table, call, drawn, acks, refused, judged>>

-----------------------------------------------------------------------------

(* Mutant of Commitment: the hash of the test alone.                        *)
CommitmentUnsalted(source, nonce) == <<source>>

(* sha256(source || 0 || nonce): collision free and, with the zero byte as  *)
(* separator, injective in the pair.                                        *)
Commitment(source, nonce) == <<source, nonce>>

Commitments == Sources \X Nonces

Rows == [source : Sources, nonce : Nonces, commitment : Commitments]

Claims == [task : Tasks, source : Sources, commitment : Commitments]

Steps == {"idle", "insert", "inserted", "committed", "conflict"}

(* task, source and nonce of an idle process are those of its last call.    *)
Calls == [pc : Steps, task : Tasks, source : Sources, nonce : Nonces]

Row(p) == [source     |-> call[p].source,
           nonce      |-> call[p].nonce,
           commitment |-> Commitment(call[p].source, call[p].nonce)]

Goto(p, step) == call' = [call EXCEPT ![p].pc = step]

(* An uncommitted row of another transaction for the task: INSERT waits.    *)
Locked(p) ==
  \E q \in Processes \ {p} : call[q].pc = "inserted" /\ call[q].task = call[p].task

-----------------------------------------------------------------------------

Init ==
  /\ table = [t \in Tasks |-> NoRow]
  /\ call \in {[p \in Processes |-> [pc |-> "idle", task |-> t, source |-> s, nonce |-> n]] :
                 t \in Tasks, s \in Sources, n \in Nonces}
  /\ drawn = {}
  /\ acks = {}
  /\ refused = {}
  /\ judged = {}

(* commit() is entered: a nonce nobody has drawn before.                    *)
Begin(p, t, s) ==
  /\ call[p].pc = "idle"
  /\ \E n \in Nonces \ drawn :
       /\ drawn' = drawn \cup {n}
       /\ call' = [call EXCEPT ![p] = [pc |-> "insert", task |-> t, source |-> s, nonce |-> n]]
  /\ UNCHANGED <<table, acks, refused, judged>>

(* Mutant of Insert: a check and a write that a scheduler can split.        *)
InsertUnlocked(p) ==
  /\ call[p].pc = "insert"
  /\ table[call[p].task] = NoRow
  /\ Goto(p, "inserted")
  /\ UNCHANGED <<table, drawn, acks, refused, judged>>

(* INSERT finds no row: ours is written, uncommitted.                       *)
Insert(p) ==
  /\ call[p].pc = "insert"
  /\ table[call[p].task] = NoRow
  /\ ~Locked(p)
  /\ Goto(p, "inserted")
  /\ UNCHANGED <<table, drawn, acks, refused, judged>>

(* ON CONFLICT DO NOTHING: no row comes back.                               *)
Conflict(p) ==
  /\ call[p].pc = "insert"
  /\ table[call[p].task] # NoRow
  /\ Goto(p, "conflict")
  /\ UNCHANGED <<table, drawn, acks, refused, judged>>

(* Leaving the `with' block commits the transaction.                        *)
CommitTx(p) ==
  /\ call[p].pc = "inserted"
  /\ table' = [table EXCEPT ![call[p].task] = Row(p)]
  /\ Goto(p, "committed")
  /\ UNCHANGED <<drawn, acks, refused, judged>>

(* Mutant of ReturnFresh: the answer leaves before the transaction commits. *)
ReturnUncommitted(p) ==
  /\ call[p].pc = "inserted"
  /\ acks' = acks \cup {[task |-> call[p].task, source |-> call[p].source,
                         commitment |-> Row(p).commitment]}
  /\ Goto(p, "idle")
  /\ UNCHANGED <<table, drawn, refused, judged>>

(* return row[0]: only now does the caller hear of its commitment.          *)
ReturnFresh(p) ==
  /\ call[p].pc = "committed"
  /\ acks' = acks \cup {[task |-> call[p].task, source |-> call[p].source,
                         commitment |-> Row(p).commitment]}
  /\ Goto(p, "idle")
  /\ UNCHANGED <<table, drawn, refused, judged>>

(* Mutant of ReturnExisting: the hash computed for this call is returned.   *)
ReturnOwnHash(p) ==
  /\ call[p].pc = "conflict"
  /\ table[call[p].task].source = call[p].source
  /\ acks' = acks \cup {[task |-> call[p].task, source |-> call[p].source,
                         commitment |-> Row(p).commitment]}
  /\ Goto(p, "idle")
  /\ UNCHANGED <<table, drawn, refused, judged>>

(* The row that was there holds the same test: its hash is returned.        *)
ReturnExisting(p) ==
  /\ call[p].pc = "conflict"
  /\ table[call[p].task].source = call[p].source
  /\ acks' = acks \cup {[task |-> call[p].task, source |-> call[p].source,
                         commitment |-> table[call[p].task].commitment]}
  /\ Goto(p, "idle")
  /\ UNCHANGED <<table, drawn, refused, judged>>

(* Mutants of Refuse: whoever finds a row is refused; or tries again.       *)
RefuseAnyDuplicate(p) ==
  /\ call[p].pc = "conflict"
  /\ refused' = refused \cup {[task |-> call[p].task, source |-> call[p].source]}
  /\ Goto(p, "idle")
  /\ UNCHANGED <<table, drawn, acks, judged>>

InsertAgain(p) ==
  /\ call[p].pc = "conflict"
  /\ table[call[p].task].source # call[p].source
  /\ Goto(p, "insert")
  /\ UNCHANGED <<table, drawn, acks, refused, judged>>

(* The row that was there holds another test: ValueError.                   *)
Refuse(p) ==
  /\ call[p].pc = "conflict"
  /\ table[call[p].task].source # call[p].source
  /\ refused' = refused \cup {[task |-> call[p].task, source |-> call[p].source]}
  /\ Goto(p, "idle")
  /\ UNCHANGED <<table, drawn, acks, judged>>

(* The connection drops or the process dies inside commit(): an uncommitted *)
(* row is rolled back, a committed one stays although nobody is told.       *)
Fail(p) ==
  /\ call[p].pc # "idle"
  /\ Goto(p, "idle")
  /\ UNCHANGED <<table, drawn, acks, refused, judged>>

(* get(): one SELECT, by any process, of a row a verdict will be based on.  *)
Get(t) ==
  /\ table[t] # NoRow
  /\ judged' = judged \cup {[task |-> t, source |-> table[t].source,
                             commitment |-> table[t].commitment]}
  /\ UNCHANGED <<table, call, drawn, acks, refused>>

Step(p) ==
  \/ Insert(p)
  \/ Conflict(p)
  \/ CommitTx(p)
  \/ ReturnFresh(p)
  \/ ReturnExisting(p)
  \/ Refuse(p)

Next ==
  \/ \E p \in Processes :
       \/ \E t \in Tasks, s \in Sources : Begin(p, t, s)
       \/ Step(p)
       \/ Fail(p)
  \/ \E t \in Tasks : Get(t)

(* Nothing in Begin or Fail is obliged to happen.  A transaction that has   *)
(* begun goes on, and one that waits for a row lock gets it whenever it is  *)
(* released time and again (Postgres grants locks in queue order).          *)
Fairness == \A p \in Processes : SF_vars(Step(p))

Spec == Init /\ [][Next]_vars

FairSpec == Spec /\ Fairness

-----------------------------------------------------------------------------

(* Every call of commit() is at one of its statements, and every row and    *)
(* hash has the shape _commitment and the table give it.                    *)
TypeOK ==
  /\ table \in [Tasks -> Rows \cup {NoRow}]
  /\ call \in [Processes -> Calls]
  /\ drawn \subseteq Nonces
  /\ acks \subseteq Claims
  /\ refused \subseteq [task : Tasks, source : Sources]
  /\ judged \subseteq Claims

(* Whatever two processes were told about a task, before or after any crash, *)
(* and whatever a verdict was later based on, is the same test under the     *)
(* same hash (store.py commit: "cannot be lost to a race between two         *)
(* concurrent commits").                                                     *)
Binding ==
  \A a, b \in acks \cup judged :
    a.task = b.task => a.source = b.source /\ a.commitment = b.commitment

(* A poster who was told that the test is sealed can rely on the row: it is *)
(* committed, holds that test, and its hash opens with the stored nonce     *)
(* (store.py __init__: a referee must not "tell the poster it is sealed,    *)
(* and lose it").                                                           *)
AckedIsDurable ==
  \A a \in acks :
    /\ table[a.task] # NoRow
    /\ table[a.task].source = a.source
    /\ a.commitment = Commitment(a.source, table[a.task].nonce)

(* A test is not both accepted and refused for one task: a retry of an      *)
(* accepted commit, or a rerun after a crash that lost the answer, is never *)
(* told that another test is sealed (store.py commit: "Idempotent").        *)
NeverAcceptedAndRefused ==
  \A a \in acks \cup judged : [task |-> a.task, source |-> a.source] \notin refused

(* Two tasks sealed with the same test have different hashes, so the public *)
(* hash does not tell a worker that a test it already knows is used again.  *)
SealsHideReuse ==
  \A t, u \in Tasks :
    t # u /\ table[t] # NoRow /\ table[u] # NoRow
      => table[t].commitment # table[u].commitment

(* A committed row is never replaced and never removed.                     *)
AppendOnly ==
  [][\A t \in Tasks : table[t] # NoRow => table'[t] = table[t]]_vars

(* Every commit() ends, also one that waited for another transaction's row. *)
EveryCallEnds ==
  \A p \in Processes : call[p].pc # "idle" ~> call[p].pc = "idle"

-----------------------------------------------------------------------------
(* The ledger this store implements.  A seal is a test with its hash.       *)

SealOf(r) == IF r = NoRow THEN NoRow
             ELSE [source |-> r.source, commitment |-> r.commitment]

EntryOf(a) == [task |-> a.task,
               seal |-> [source |-> a.source, commitment |-> a.commitment]]

Ledger == INSTANCE SealedLedger
            WITH Seals    <- [source : Sources, commitment : Commitments],
                 Unsealed <- NoRow,
                 sealed   <- [t \in Tasks |-> SealOf(table[t])],
                 promised <- {EntryOf(a) : a \in acks},
                 judged   <- {EntryOf(a) : a \in judged}

(* The store with its concurrent transactions and crashes is the ledger of  *)
(* single indivisible seals.                                                *)
ImplementsLedger == Ledger!Spec
=============================================================================
