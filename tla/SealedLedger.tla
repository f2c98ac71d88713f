---------------------------- MODULE SealedLedger ----------------------------
(***************************************************************************)
(* What Merita promises about acceptance tests, with no database, process  *)
(* or HTTP door in sight: a task is sealed at most once, the seal is never  *)
(* replaced, a poster is only ever told of the seal that is really there,   *)
(* and work is only ever judged against that seal.                          *)
(*                                                                         *)
(* A seal is opaque here.  CommitStore implements this ledger with rows of  *)
(* a Postgres table written by concurrent transactions; PaidVerification    *)
(* implements it with the two paid doors of the service.                    *)
(***************************************************************************)
CONSTANTS Tasks,      \* the task ids a poster may use
          Seals,      \* what a task may be sealed with
          Unsealed    \* the value of a task nobody has committed to yet

VARIABLES sealed,     \* the seal of every task
          promised,   \* what posters have been told: [task, seal]
          judged      \* what deliverables have been judged against: [task, seal]

vars == <<sealed, promised, judged>>

Init ==
  /\ sealed = [t \in Tasks |-> Unsealed]
  /\ promised = {}
  /\ judged = {}

Seal(t, s) ==
  /\ sealed[t] = Unsealed
  /\ sealed' = [sealed EXCEPT ![t] = s]
  /\ UNCHANGED <<promised, judged>>

Promise(t) ==
  /\ sealed[t] \in Seals
  /\ promised' = promised \cup {[task |-> t, seal |-> sealed[t]]}
  /\ UNCHANGED <<sealed, judged>>

Judge(t) ==
  /\ sealed[t] \in Seals
  /\ judged' = judged \cup {[task |-> t, seal |-> sealed[t]]}
  /\ UNCHANGED <<sealed, promised>>

Next ==
  \E t \in Tasks :
    \/ \E s \in Seals : Seal(t, s)
    \/ Promise(t)
    \/ Judge(t)

Spec == Init /\ [][Next]_vars
=============================================================================
