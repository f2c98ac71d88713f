----------------------------- MODULE Facilitator -----------------------------
(***************************************************************************)
(* How asp/okx_x402.py reads the facilitator: a signed authorization that   *)
(* is settled on chain at most once, presented as often as its buyer likes, *)
(* and for every presentation a decision to honour the payment or not.      *)
(*                                                                         *)
(* The facilitator is outside the repository.  It is modelled by the answers *)
(* the code takes into account: whether JSON came back at all, its `code',  *)
(* the fields success, settled and transaction of its `data', and whether   *)
(* one of the already-settled markers appears in `data' or in the `msg'     *)
(* beside it.  Module Paywall says when it is asked.                        *)
(***************************************************************************)
CONSTANTS
  MarkerPlaces,    \* where a facilitator may say "already used" of a spent
                   \* authorization: in `data', in `msg', or, with "none",
                   \* nowhere, declining it in other words (`expired', say)
  FailedSettled    \* what a failed settlement may have in `settled'

ASSUME PlacesAssumption == MarkerPlaces \subseteq {"data", "msg", "none"}
ASSUME FailedAssumption == FailedSettled \subseteq {"false", "absent"}

VARIABLES
  spent,       \* the authorization has moved its money
  fundable,    \* its signature, terms and balance are good
  answer       \* the facilitator's last answer

-----------------------------------------------------------------------------

Flag == {"true", "false", "absent"}

Answers == [json : BOOLEAN, codeZero : BOOLEAN, success : Flag, settled : Flag,
            transaction : BOOLEAN, marker : {"data", "msg", "none"}]

(* No JSON: a timeout, a refused connection, a proxy's error page.          *)
Silence == [json |-> FALSE, codeZero |-> FALSE, success |-> "absent", settled |-> "absent",
            transaction |-> FALSE, marker |-> "none"]

(* The three things a facilitator has to say.                               *)
SettledNow ==
  {a \in Answers : /\ a.json /\ a.codeZero /\ a.marker = "none"
                   /\ "false" \notin {a.success, a.settled}
                   /\ "true" \in {a.success, a.settled} \/ a.transaction}

SettledBefore ==
  {a \in Answers : /\ a.json /\ a.marker \in MarkerPlaces
                   /\ a.success # "true" /\ a.settled = "absent" /\ ~a.transaction}

NotSettled ==
  {a \in Answers : /\ a.json /\ a.marker = "none"
                   /\ a.success # "true" /\ a.settled \in FailedSettled /\ ~a.transaction}

-----------------------------------------------------------------------------

(* _call: an exception, or a code other than 0, is a failed call; only the  *)
(* `data' of the answer is handed on.                                       *)
CallOk(a) == a.json /\ a.codeZero

(* Mutant of LooksAlreadySettled: a spent authorization is a bad one.       *)
NeverLooksSettled(a) == FALSE

(* _looks_already_settled, applied to the dumped data: a marker in its text *)
(* or the bare word "settled", which is also the name of a field.           *)
LooksAlreadySettled(a) == a.marker = "data" \/ a.settled # "absent"

(* Mutant of SaysSettled: an answer without an error code will do.          *)
SaysSettledByCode(a) == a.codeZero

SaysSettled(a) == a.success = "true" \/ a.settled = "true" \/ a.transaction

(* settle_or_accept.                                                        *)
Honours(a) == (CallOk(a) /\ SaysSettled(a)) \/ LooksAlreadySettled(a)

-----------------------------------------------------------------------------

(* The settlement happens and is reported.                                  *)
Settle ==
  /\ fundable /\ ~spent
  /\ spent' = TRUE
  /\ answer' \in SettledNow
  /\ UNCHANGED fundable

(* The buyer settled first, or the authorization is presented once more.    *)
SettleAgain ==
  /\ spent
  /\ answer' \in SettledBefore
  /\ UNCHANGED <<spent, fundable>>

(* An envelope that cannot be decoded is declined too, by the client itself. *)
Decline ==
  /\ ~spent /\ ~fundable
  /\ answer' \in NotSettled
  /\ UNCHANGED <<spent, fundable>>

(* The call or its answer is lost; the money may have moved.                *)
NoAnswer ==
  /\ spent' \in {spent, spent \/ fundable}
  /\ answer' = Silence
  /\ UNCHANGED fundable

(* The buyer settles on chain by itself.                                    *)
BuyerSettles ==
  /\ fundable /\ ~spent
  /\ spent' = TRUE
  /\ UNCHANGED <<fundable, answer>>

TopUp ==
  /\ ~fundable
  /\ fundable' = TRUE
  /\ UNCHANGED <<spent, answer>>
=============================================================================
