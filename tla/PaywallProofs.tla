---------------------------- MODULE PaywallProofs ----------------------------
(***************************************************************************)
(* For every request, however its body is cut into messages, and however    *)
(* often its buyer hangs up and comes back: what is paid, what is free, and *)
(* what the app gets of the stream.                                         *)
(***************************************************************************)
EXTENDS Paywall, TLAPS

-----------------------------------------------------------------------------
(* The inductive invariant.                                                 *)

AtOnce == {"past", "httpDoor", "probe", "plainChallenge", "raised", "notRpcChallenge",
           "unconfigured"}

(* The stream: once a branch is taken the body is drained, and only a       *)
(* client that left has cut it short or is heard to have gone.              *)
StreamInv ==
  /\ stage # "paywall" => Drained
  /\ drained <= request.messages
  /\ cut \/ heard = "disconnect" \/ outcome = "tornDown" => left

(* The outcome is that of the branch, and stays so until the request is     *)
(* sent again: nothing the branch depends on moves after the draining.      *)
BranchInv ==
  /\ outcome = "none" <=> stage = "paywall"
  /\ outcome \in AtOnce => Branch = outcome
  /\ outcome \in {"freeRejection", "toolChallenge", "refused", "garbled", "tool"} =>
       Branch = "paidTool"
  /\ outcome = "toolChallenge" => ~carrying

IInv == TypeOK /\ StreamInv /\ BranchInv

(* What depends on the facilitator.                                         *)
PaidInv == outcome = "tool" => spent

-----------------------------------------------------------------------------
(* The facilitator's answers.                                               *)

LEMMA AnswersTyped == Silence \in Answers
  BY DEF Silence, Answers, Flag

LEMMA PaymentTyped ==
  ASSUME TypeOK, Settle \/ SettleAgain \/ Decline \/ NoAnswer
  PROVE  spent' \in BOOLEAN /\ fundable' \in BOOLEAN /\ answer' \in Answers
  BY AnswersTyped DEF TypeOK, Settle, SettleAgain, Decline, NoAnswer, SettledNow,
                      SettledBefore, NotSettled

(* Only a settled authorization is honoured, if a failed settlement has no  *)
(* field `settled'.                                                         *)
LEMMA HonouredIsSpent ==
  ASSUME TypeOK, Settle \/ SettleAgain \/ Decline \/ NoAnswer, Honours(answer'),
         "false" \notin FailedSettled
  PROVE  spent'
<1>1. CASE Settle
  BY <1>1 DEF Settle
<1>2. CASE SettleAgain
  BY <1>2 DEF SettleAgain
<1>3. CASE Decline
  <2>1. answer'.settled = "absent" /\ answer'.marker = "none" /\ answer'.success # "true"
        /\ ~answer'.transaction
    BY <1>3, FailedAssumption DEF Decline, NotSettled
  <2> QED BY <2>1 DEF Honours, SaysSettled, LooksAlreadySettled
<1>4. CASE NoAnswer
  <2>1. answer' = Silence
    BY <1>4 DEF NoAnswer
  <2> QED BY <2>1 DEF Silence, Honours, CallOk, LooksAlreadySettled
<1> QED BY <1>1, <1>2, <1>3, <1>4

(* A settled authorization is honoured, whoever settled it, if "already     *)
(* used" is said in `data'.                                                 *)
LEMMA SpentIsHonoured ==
  ASSUME Settle \/ SettleAgain \/ Decline \/ NoAnswer, answer'.json, spent',
         MarkerPlaces \subseteq {"data"}
  PROVE  Honours(answer')
<1>1. CASE Settle
  BY <1>1 DEF Settle, SettledNow, Honours, CallOk, SaysSettled
<1>2. CASE SettleAgain
  BY <1>2 DEF SettleAgain, SettledBefore, Honours, LooksAlreadySettled
<1>3. CASE Decline
  BY <1>3 DEF Decline
<1>4. CASE NoAnswer
  BY <1>4 DEF NoAnswer, Silence
<1> QED BY <1>1, <1>2, <1>3, <1>4

-----------------------------------------------------------------------------

(* What the branch is computed from.                                        *)
LEMMA SameBranch ==
  ASSUME UNCHANGED <<client, drained, cut>>
  PROVE  Branch' = Branch /\ Drained' = Drained /\ Drains' = Drains
  BY DEF client, Branch, Drained, Drains, LooksLikeProbe, PaymentFound,
         PaymentSeenByProbeTest, NotRpc, Seen, Whole

LEMMA InitInv == Init => IInv /\ PaidInv
<1> SUFFICES ASSUME Init PROVE IInv /\ PaidInv
  OBVIOUS
<1>1. TypeOK
  <2>1. 0 \in 0 .. MaxMessages
    BY MessagesAssumption
  <2> QED BY <2>1, AnswersTyped DEF Init, TypeOK, Outcomes
<1>2. StreamInv
  BY DEF Init, StreamInv, Requests
<1> QED BY <1>1, <1>2 DEF Init, IInv, BranchInv, AtOnce, PaidInv

(* A branch that answers or hands on.                                       *)
LEMMA Concludes ==
  ASSUME IInv, stage = "paywall", Drained, NEW result, result # "none",
         Answered(result) \/ HandedOn(result),
         result \in AtOnce => Branch = result,
         result \in {"freeRejection", "toolChallenge", "refused", "garbled", "tool"} =>
           Branch = "paidTool",
         result = "toolChallenge" => ~carrying,
         result \in Outcomes, result # "tornDown",
         spent' \in BOOLEAN /\ fundable' \in BOOLEAN /\ answer' \in Answers
  PROVE  IInv'
<1>1. /\ UNCHANGED <<client, left, drained, cut, heard>>
      /\ outcome' = result /\ stage' \in {"app", "over"}
  BY DEF Answered, HandedOn
<1>2. Branch' = Branch /\ Drained' = Drained
  BY <1>1, SameBranch
<1>3. TypeOK'
  BY <1>1 DEF IInv, TypeOK, client
<1>4. StreamInv'
  BY <1>1, <1>2 DEF IInv, StreamInv, client
<1>5. BranchInv'
  BY <1>1, <1>2 DEF BranchInv, client
<1> QED BY <1>3, <1>4, <1>5 DEF IInv

(* The request is sent again.                                               *)
LEMMA Sends ==
  ASSUME IInv, Send, carrying' \in BOOLEAN
  PROVE  IInv'
<1>1. TypeOK'
  <2>1. 0 \in 0 .. MaxMessages
    BY MessagesAssumption
  <2> QED BY <2>1, AnswersTyped DEF IInv, TypeOK, Send, Outcomes
<1>2. StreamInv'
  BY DEF IInv, TypeOK, StreamInv, Send, Requests
<1> QED BY <1>1, <1>2 DEF IInv, BranchInv, AtOnce, Send

(* One step per action.                                                     *)
LEMMA StepInv == IInv /\ [Next]_vars => IInv'
<1> SUFFICES ASSUME IInv, [Next]_vars PROVE IInv'
  OBVIOUS
<1>0. spent \in BOOLEAN /\ fundable \in BOOLEAN /\ answer \in Answers
  BY DEF IInv, TypeOK
<1>1. CASE Drain
  <2>1. /\ stage = "paywall" /\ Drains /\ drained # request.messages /\ ~cut
        /\ UNCHANGED <<client, payment, left, stage, heard, outcome>>
        /\ \/ drained' = drained + 1 /\ UNCHANGED cut
           \/ left /\ cut' = TRUE /\ UNCHANGED drained
    BY <1>1 DEF Drain, Drained
  <2>2. /\ request.messages \in 1 .. MaxMessages /\ drained \in 0 .. MaxMessages
        /\ drained <= request.messages /\ cut \in BOOLEAN
    BY DEF IInv, TypeOK, StreamInv, Requests
  <2>3. drained' \in 0 .. MaxMessages /\ drained' <= request.messages
    <3>1. CASE drained' = drained + 1
      BY <2>1, <2>2, <3>1, MessagesAssumption
    <3>2. CASE drained' = drained
      BY <2>2, <3>2
    <3> QED BY <2>1, <3>1, <3>2
  <2>4. TypeOK'
    BY <2>1, <2>2, <2>3 DEF IInv, TypeOK, client, payment
  <2>5. outcome' = "none" /\ stage' = "paywall"
    BY <2>1 DEF IInv, BranchInv
  <2>6. StreamInv'
    BY <2>1, <2>3, <2>5 DEF IInv, StreamInv, client
  <2> QED BY <2>4, <2>5, <2>6 DEF IInv, BranchInv, AtOnce
<1>2. CASE AnswerAtOnce
  <2>1. PICK b \in {"probe", "plainChallenge", "raised", "notRpcChallenge", "unconfigured"} :
          Decides(b) /\ Answered(b) /\ UNCHANGED payment
    BY <1>2 DEF AnswerAtOnce
  <2>2. b \in Outcomes /\ b \in AtOnce
    BY DEF Outcomes, Challenges, AtOnce
  <2> QED BY <1>0, <2>1, <2>2, Concludes DEF Decides, payment
<1>3. CASE PassOn
  <2>1. PICK b \in {"past", "httpDoor"} : Decides(b) /\ HandedOn(b) /\ UNCHANGED payment
    BY <1>3 DEF PassOn
  <2>2. b \in Outcomes /\ b \in AtOnce
    BY DEF Outcomes, Handed, AtOnce
  <2> QED BY <1>0, <2>1, <2>2, Concludes DEF Decides, payment
<1>4. CASE RejectFree
  <2>1. "freeRejection" \in Outcomes /\ "freeRejection" \notin AtOnce
    BY DEF Outcomes, AtOnce
  <2> QED BY <1>0, <1>4, <2>1, Concludes DEF RejectFree, Decides, payment
<1>5. CASE ChallengeTool
  <2>1. "toolChallenge" \in Outcomes /\ "toolChallenge" \notin AtOnce
    BY DEF Outcomes, Challenges, AtOnce
  <2> QED BY <1>0, <1>5, <2>1, Concludes DEF ChallengeTool, Decides, PaymentFound, payment
<1>6. CASE PresentPayment
  <2>1. {"tool", "refused"} \subseteq Outcomes \ AtOnce
    BY DEF Outcomes, Handed, AtOnce
  <2>2. spent' \in BOOLEAN /\ fundable' \in BOOLEAN /\ answer' \in Answers
    BY <1>6, PaymentTyped DEF PresentPayment, IInv
  <2>3. PICK result \in {"tool", "refused"} : Answered(result) \/ HandedOn(result)
    BY <1>6 DEF PresentPayment
  <2>4. stage = "paywall" /\ Drained /\ Branch = "paidTool"
    BY <1>6 DEF PresentPayment, Decides
  <2> QED BY <2>1, <2>2, <2>3, <2>4, Concludes
<1>7. CASE PaymentRaises
  <2>1. "garbled" \in Outcomes /\ "garbled" \notin AtOnce
    BY DEF Outcomes, AtOnce
  <2>2. spent' \in BOOLEAN /\ fundable' \in BOOLEAN /\ answer' \in Answers
    BY <1>7, PaymentTyped DEF PaymentRaises, IInv
  <2> QED BY <1>7, <2>1, <2>2, Concludes DEF PaymentRaises, Decides
<1>8. CASE AppReceives
  <2>1. /\ stage = "app" /\ heard' \in {"body", "disconnect"}
        /\ heard' = "disconnect" => left
        /\ UNCHANGED <<client, payment, left, stage, drained, cut, outcome>>
    BY <1>8 DEF AppReceives, Receive, Original
  <2>2. Branch' = Branch /\ Drained' = Drained
    BY <2>1, SameBranch
  <2>3. TypeOK'
    BY <2>1 DEF IInv, TypeOK, client, payment
  <2> QED BY <2>1, <2>2, <2>3 DEF IInv, StreamInv, BranchInv, client
<1>9. CASE AppEnds
  <2>1. /\ stage = "app" /\ stage' = "over"
        /\ UNCHANGED <<client, payment, left, drained, cut, heard>>
        /\ outcome' = outcome \/ (outcome' = "tornDown" /\ heard = "disconnect")
    BY <1>9 DEF AppEnds, Answered, IInv, TypeOK
  <2>2. Branch' = Branch /\ Drained' = Drained
    BY <2>1, SameBranch
  <2>3. TypeOK'
    BY <2>1 DEF IInv, TypeOK, client, payment, Outcomes
  <2>4. StreamInv'
    BY <2>1, <2>2 DEF IInv, StreamInv, client
  <2> QED BY <2>1, <2>2, <2>3, <2>4 DEF IInv, BranchInv, AtOnce, client
<1>10. CASE HangUp
  <2>1. /\ left' = TRUE
        /\ UNCHANGED <<client, payment, stage, drained, cut, heard, outcome>>
    BY <1>10 DEF HangUp
  <2>2. Branch' = Branch /\ Drained' = Drained
    BY <2>1, SameBranch
  <2>3. TypeOK'
    BY <2>1 DEF IInv, TypeOK, client, payment
  <2> QED BY <2>1, <2>2, <2>3 DEF IInv, StreamInv, BranchInv, client
<1>11. CASE PayAndReplay \/ PayFirst \/ ComeAgain
  BY <1>11, Sends DEF PayAndReplay, PayFirst, ComeAgain, IInv, TypeOK
<1>12. CASE Wallet
  <2>1. /\ UNCHANGED <<client, left, stage, drained, cut, heard, outcome>>
        /\ spent' \in BOOLEAN /\ fundable' \in BOOLEAN /\ answer' \in Answers
    BY <1>0, <1>12 DEF Wallet, BuyerSettles, TopUp
  <2>2. Branch' = Branch /\ Drained' = Drained
    BY <2>1, SameBranch
  <2>3. TypeOK'
    BY <2>1 DEF IInv, TypeOK, client
  <2> QED BY <2>1, <2>2, <2>3 DEF IInv, StreamInv, BranchInv, client
<1>13. CASE UNCHANGED vars
  <2>1. UNCHANGED <<client, payment, left, stage, drained, cut, heard, outcome>>
    BY <1>13 DEF vars
  <2>2. Branch' = Branch /\ Drained' = Drained
    BY <2>1, SameBranch
  <2>3. TypeOK'
    BY <2>1 DEF IInv, TypeOK, client, payment
  <2> QED BY <2>1, <2>2, <2>3 DEF IInv, StreamInv, BranchInv, client
<1> QED BY <1>1, <1>2, <1>3, <1>4, <1>5, <1>6, <1>7, <1>8, <1>9, <1>10, <1>11, <1>12,
           <1>13 DEF Next

(* The inductive invariant holds.                                           *)
THEOREM InductiveInvariant == Spec => []IInv
  BY InitInv, StepInv, PTL DEF Spec

(* With a facilitator that does not fill in `settled' when it fails, what   *)
(* reaches a paid tool is paid: no step ever unspends an authorization.     *)
LEMMA PaidStep ==
  ASSUME IInv, PaidInv, [Next]_vars, "false" \notin FailedSettled
  PROVE  PaidInv'
<1>1. CASE PresentPayment
  BY <1>1, HonouredIsSpent DEF IInv, PresentPayment, Answered, PaidInv
<1>2. CASE AnswerAtOnce \/ PassOn \/ RejectFree \/ ChallengeTool \/ PaymentRaises
  <2>1. outcome' # "tool"
    BY <1>2 DEF AnswerAtOnce, PassOn, RejectFree, ChallengeTool, PaymentRaises, Answered,
                HandedOn
  <2> QED BY <2>1 DEF PaidInv
<1>3. CASE AppEnds
  BY <1>3 DEF AppEnds, Answered, PaidInv, payment
<1>4. CASE PayAndReplay \/ PayFirst \/ ComeAgain
  BY <1>4 DEF PayAndReplay, PayFirst, ComeAgain, Send, PaidInv
<1>5. CASE Drain \/ AppReceives \/ HangUp \/ UNCHANGED vars
  BY <1>5 DEF Drain, AppReceives, HangUp, vars, payment, PaidInv
<1>6. CASE Wallet
  BY <1>6 DEF Wallet, BuyerSettles, TopUp, PaidInv
<1> QED BY <1>1, <1>2, <1>3, <1>4, <1>5, <1>6 DEF Next

-----------------------------------------------------------------------------
(* What follows from the branch.                                            *)

(* A body of which nothing is missing is what the paywall parses.           *)
LEMMA WaitedFor ==
  ASSUME IInv, stage # "paywall", ~left, Drains
  PROVE  Whole /\ Seen = request.body
<1>1. drained = request.messages
  BY DEF IInv, StreamInv, Drained
<1>2. /\ request.full <= request.messages
      /\ request.full \in 1 .. MaxMessages /\ request.messages \in 1 .. MaxMessages
  BY DEF IInv, TypeOK, Requests
<1>3. Whole
  BY <1>1, <1>2 DEF Whole
<1> QED BY <1>3 DEF Seen

(* Every outcome is one of these.                                           *)
LEMMA OutcomeKinds ==
  ASSUME IInv
  PROVE  \/ outcome = "none" /\ stage = "paywall"
         \/ outcome \in AtOnce /\ outcome = Branch
         \/ outcome \in {"freeRejection", "refused", "garbled", "tool"} /\ Branch = "paidTool"
         \/ outcome = "toolChallenge" /\ Branch = "paidTool" /\ ~carrying
         \/ outcome = "tornDown" /\ left
  BY DEF IInv, TypeOK, StreamInv, BranchInv, Outcomes, Challenges, Handed, AtOnce

(* The branch of a paid tool is taken for a whole call of one.              *)
LEMMA PaidToolBranch ==
  ASSUME Branch = "paidTool"
  PROVE  configured /\ Whole /\ CallsPaidTool
<1>1. /\ configured /\ Seen \in PaidTools
      /\ request.path # "x402" /\ request.method = "POST"
  BY DEF Branch
<1>2. Whole /\ request.body = Seen
  BY <1>1 DEF Seen, PaidTools
<1> QED BY <1>1, <1>2 DEF CallsPaidTool

(* The challenges on no paid tool are only on the MCP path.                 *)
LEMMA ChallengeBranches ==
  Branch \in {"probe", "plainChallenge", "notRpcChallenge"} => request.path = "mcp"
  BY DEF Branch, LooksLikeProbe

(* A whole call of a paid tool never just passes.                           *)
LEMMA PaidNeverPasses ==
  ASSUME CallsPaidTool, Whole
  PROVE  Branch # "past"
<1>1. Seen = request.body /\ Seen \in PaidTools
  BY DEF CallsPaidTool, Seen
<1> QED BY <1>1 DEF Branch, CallsPaidTool

(* A free request of an MCP client passes, whether or not it carries a      *)
(* payment.                                                                 *)
LEMMA FreePasses ==
  ASSUME IInv, AsksNothingPaid, stage # "paywall"
  PROVE  Branch = "past"
<1>1. ~LooksLikeProbe
  BY DEF AsksNothingPaid, LooksLikeProbe
<1>2. Seen = request.body
  BY <1>1, WaitedFor DEF AsksNothingPaid, Drains
<1>3. Seen \in {"rpc", "freeTool"}
  BY <1>2 DEF AsksNothingPaid
<1> QED BY <1>1, <1>3 DEF Branch, AsksNothingPaid, NotRpc, PaidTools

(* A replayed request is not challenged before its payment is looked at.    *)
LEMMA ReplayBranches ==
  ASSUME IInv, carrying, SpeaksOneProtocol, ~left, stage # "paywall",
         request.header = "listed" \/ ~request.signal
  PROVE  Branch \in {"httpDoor", "unconfigured", "paidTool"}
<1>1. ~LooksLikeProbe
  BY DEF SpeaksOneProtocol, LooksLikeProbe, PaymentSeenByProbeTest
<1>2. CASE ~request.sse
  BY <1>1, <1>2 DEF Branch, SpeaksOneProtocol, PaymentFound
<1>3. CASE request.sse
  <2>1. Seen = request.body
    BY <1>1, WaitedFor DEF SpeaksOneProtocol, Drains
  <2>2. Seen \in {"verify", "integrity"}
    BY <1>3, <2>1 DEF SpeaksOneProtocol, PaidTools
  <2> QED BY <1>1, <1>3, <2>2 DEF Branch, SpeaksOneProtocol, NotRpc, PaidTools
<1> QED BY <1>2, <1>3

-----------------------------------------------------------------------------

(* TypeOK: the paywall never reads past the end of a body, and the answers  *)
(* it acts on are answers a facilitator gives.                              *)
THEOREM TypeCorrect == Spec => []TypeOK
<1>1. IInv => TypeOK
  BY DEF IInv
<1> QED BY <1>1, InductiveInvariant, PTL

(* Paid tools are paid, as far as the facilitator does not report a failure *)
(* in the words the code takes for success.                                 *)
THEOREM PaidHolds ==
  ASSUME "false" \notin FailedSettled
  PROVE  Spec => []PaidToolsArePaid
<1>1. IInv /\ PaidInv => PaidToolsArePaid
  <2> SUFFICES ASSUME IInv, PaidInv PROVE PaidToolsArePaid
    OBVIOUS
  <2>1. outcome = "past" => Branch = "past"
    BY DEF IInv, BranchInv, AtOnce
  <2>2. outcome = "tool" => Branch = "paidTool"
    BY DEF IInv, BranchInv
  <2> QED BY <2>1, <2>2, PaidNeverPasses, PaidToolBranch DEF PaidToolsArePaid, PaidInv
<1>2. IInv /\ PaidInv /\ [Next]_vars => PaidInv'
  BY PaidStep
<1> QED BY <1>1, <1>2, InitInv, StepInv, PTL DEF Spec

(* What is free is neither billed nor refused.                              *)
THEOREM FreeHolds == Spec => []FreeStaysFree
<1>1. IInv => FreeStaysFree
  <2> SUFFICES ASSUME IInv PROVE FreeStaysFree
    OBVIOUS
  <2>1. ASSUME AsksNothingPaid PROVE outcome \in {"none", "past"}
    BY <2>1, OutcomeKinds, FreePasses DEF IInv, BranchInv, AsksNothingPaid
  <2>2. ASSUME request.path # "mcp", outcome \in Challenges PROVE CallsPaidTool
    <3>1. \/ outcome \in {"probe", "plainChallenge", "notRpcChallenge"}
          \/ outcome = "toolChallenge"
      BY <2>2 DEF Challenges
    <3>2. CASE outcome \in {"probe", "plainChallenge", "notRpcChallenge"}
      BY <2>2, <3>2, ChallengeBranches DEF IInv, BranchInv, AtOnce
    <3>3. CASE outcome = "toolChallenge"
      BY <3>3, PaidToolBranch DEF IInv, BranchInv
    <3> QED BY <3>1, <3>2, <3>3
  <2> QED BY <2>1, <2>2 DEF FreeStaysFree
<1> QED BY <1>1, InductiveInvariant, PTL

(* Who pays as challenged gets to the settlement.                           *)
THEOREM ReplayHolds == Spec => []ReplayReachesSettlement
<1>1. IInv => ReplayReachesSettlement
  <2> SUFFICES ASSUME IInv, carrying, SpeaksOneProtocol, ~left,
                      request.header = "listed" \/ ~request.signal
               PROVE  outcome \in {"none", "httpDoor", "tool", "refused", "garbled",
                                   "freeRejection", "unconfigured"}
    BY DEF ReplayReachesSettlement
  <2>1. CASE stage = "paywall"
    BY <2>1 DEF IInv, BranchInv
  <2>2. CASE stage # "paywall"
    <3>1. Branch \in {"httpDoor", "unconfigured", "paidTool"}
      BY <2>2, ReplayBranches
    <3> QED BY <2>2, <3>1, OutcomeKinds DEF AtOnce
  <2> QED BY <2>1, <2>2
<1> QED BY <1>1, InductiveInvariant, PTL

(* The app hears the end of the stream only when there is one, and gets     *)
(* part of a body only of a client that has left.                           *)
THEOREM StreamHolds == Spec => []StreamIsHandedOn
<1>1. IInv => StreamIsHandedOn
  <2> SUFFICES ASSUME IInv PROVE StreamIsHandedOn
    OBVIOUS
  <2>1. outcome = "tornDown" => left
    BY DEF IInv, StreamInv
  <2>2. Drains /\ stage = "app" => Whole \/ left
    BY WaitedFor
  <2> QED BY <2>1, <2>2 DEF StreamIsHandedOn
<1> QED BY <1>1, InductiveInvariant, PTL

(* Who has paid is honoured, as far as "already used" is said in `data'.    *)
THEOREM PayerHolds ==
  ASSUME MarkerPlaces \subseteq {"data"}
  PROVE  Spec => PayerIsHonoured
<1>1. PresentPayment /\ answer'.json /\ spent' => outcome' = "tool"
  BY SpentIsHonoured DEF PresentPayment, HandedOn
<1>2. [Next]_vars => [PresentPayment /\ answer'.json /\ spent' => outcome' = "tool"]_vars
  BY <1>1
<1> QED BY <1>2, PTL DEF Spec, PayerIsHonoured

-----------------------------------------------------------------------------

(* What one presentation of a payment comes to, which is all that module    *)
(* PaidVerification lets its facilitator actions do: money that has moved   *)
(* stays moved; an answer that arrives decides as the chain does, whoever   *)
(* settled and however often (Settles, SettledAlready, Declines); and a     *)
(* call without an answer is refused, whatever became of the money          *)
(* (FacilitatorSilent).  PaymentRaises is its FacilitatorGarbles.           *)
ChainDecides ==
  /\ spent => spent'
  /\ answer' # Silence => outcome' = (IF spent' THEN "tool" ELSE "refused")
  /\ answer' = Silence => outcome' = "refused"

PaymentIsDecided == [][PresentPayment => ChainDecides]_vars

(* With the facilitator that PaidHolds and PayerHolds assume, the door of   *)
(* PaidVerification is the paywall's settlement.                            *)
THEOREM PaymentDecided ==
  ASSUME "false" \notin FailedSettled, MarkerPlaces \subseteq {"data"}
  PROVE  Spec => PaymentIsDecided
<1>1. ASSUME IInv, PresentPayment PROVE ChainDecides
  <2>1. Settle \/ SettleAgain \/ Decline \/ NoAnswer
    BY <1>1 DEF PresentPayment
  <2>2. outcome' = IF Honours(answer') THEN "tool" ELSE "refused"
    BY <1>1 DEF PresentPayment, HandedOn, Answered
  <2>3. spent \in BOOLEAN /\ spent' \in BOOLEAN /\ (spent => spent')
    BY <1>1, <2>1, PaymentTyped
    DEF IInv, TypeOK, Settle, SettleAgain, Decline, NoAnswer
  <2>4. answer'.json <=> answer' # Silence
    BY <2>1 DEF Settle, SettleAgain, Decline, NoAnswer, SettledNow, SettledBefore,
                NotSettled, Silence
  <2>5. Honours(answer') => spent'
    BY <1>1, <2>1, HonouredIsSpent DEF IInv
  <2>6. answer' # Silence /\ spent' => Honours(answer')
    BY <2>1, <2>4, SpentIsHonoured
  <2>7. ~Honours(Silence)
    BY DEF Silence, Honours, CallOk, LooksAlreadySettled
  <2> QED BY <2>2, <2>3, <2>5, <2>6, <2>7 DEF ChainDecides
<1> QED BY <1>1, InductiveInvariant, PTL DEF Spec, PaymentIsDecided
=============================================================================
