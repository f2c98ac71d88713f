--------------------------- MODULE MCIntegrityGraph ---------------------------
(***************************************************************************)
(* Graphs of four wallets with any funders, or a worker with any            *)
(* distribution of up to eight payments over three customers, or a poster   *)
(* of any specifications; and everything two more observations can do.      *)
(***************************************************************************)
EXTENDS IntegrityGraph, TLC

CONSTANT worker

Others == Agents \ {worker}

PaidHistories ==
  {[Nothing EXCEPT !.paid[worker] = [a \in Agents |-> IF a = worker THEN 0 ELSE c[a]]] :
     c \in {d \in [Others -> {0, 1, 2, 3, 5}] : Total(d) <= 8}}

PostedHistories ==
  {[Nothing EXCEPT !.posted[worker] = c] : c \in [Specs -> 0 .. 4]}

FunderHistories ==
  {[Nothing EXCEPT !.funder = f] : f \in [Agents -> Agents \cup {None}]}

AllHistories == PaidHistories \cup PostedHistories \cup FunderHistories

ReportedReceipts ==
  {[amount |-> 2, tx |-> TRUE], [amount |-> 3, tx |-> TRUE], [amount |-> 3, tx |-> FALSE]}

Symmetry == Permutations(Others) \cup Permutations(Specs)
=============================================================================
