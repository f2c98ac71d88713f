-------------------------------- MODULE Paywall --------------------------------
(***************************************************************************)
(* The ASGI middleware of asp/paywall.py, from the request to the answer:   *)
(* which branch a request takes (past the paywall, to the plain HTTP door,  *)
(* to a 402, to a free rejection, to a settlement and the tool), the body   *)
(* it drains from the stream before it can tell and hands on afterwards,    *)
(* and the settlement, through module Facilitator.                          *)
(*                                                                         *)
(* One buyer sends its request without a payment first and, when            *)
(* challenged, once more with the payment in a header of whatever name its  *)
(* tooling uses, as x402 clients do.  It may hang up at any moment, also    *)
(* in the middle of its body, and come again.                               *)
(***************************************************************************)
EXTENDS Naturals, Facilitator

CONSTANT MaxMessages   \* into how many messages of the stream a body may be cut

ASSUME MessagesAssumption == MaxMessages \in Nat \ {0}

VARIABLES
  request,      \* the buyer's request, the same each time it is sent
  configured,   \* fac.configured: x402 credentials are set
  carrying,     \* the payment header is on it
  left,         \* the client has closed the connection
  stage,        \* the request is in the paywall, in the app behind it, or over
  drained,      \* messages of the body that the paywall has read
  cut,          \* the draining ended at a disconnect
  heard,        \* what the app's receive() has given it last
  outcome       \* what came of sending the request

client == <<request, configured, carrying>>
payment == <<spent, fundable, answer>>
vars == <<client, payment, left, stage, drained, cut, heard, outcome>>

-----------------------------------------------------------------------------
(* Requests, by what the branches of the paywall look at.                   *)

Paths == {"mcp", "x402", "other"}
Methods == {"GET", "POST", "DELETE"}

(* Header names the payment may travel under: those in both lists of        *)
(* paywall.py, and the one that only _payment_header has.                   *)
HeaderNames == {"listed", "authorization-payment"}

(* A JSON-RPC call of a paid or a free tool, another JSON-RPC request, a    *)
(* JSON-RPC response, a tools/call whose params are no object, or a body    *)
(* that is none of these.                                                   *)
Bodies == {"verify", "integrity", "freeTool", "rpc", "rpcResponse", "listParams", "plain"}

PaidTools == {"verify", "integrity"}

(* A body comes in `messages' messages, its bytes in the first `full'.      *)
Requests ==
  {r \in [path : Paths, method : Methods, header : HeaderNames, signal : BOOLEAN,
          sse : BOOLEAN, body : Bodies, messages : 1 .. MaxMessages, full : 1 .. MaxMessages] :
     r.full <= r.messages}

(* Mutant of PaymentFound: only the names of the probe test are known.      *)
PaymentFoundIfListed == carrying /\ request.header = "listed"

(* _payment_header.                                                         *)
PaymentFound == carrying

(* The list inside _looks_like_x402_probe.                                  *)
PaymentSeenByProbeTest == carrying /\ request.header = "listed"

(* Mutant of LooksLikeProbe: every GET is a probe, /health above all.       *)
LooksLikeProbeAnywhere ==
  /\ ~PaymentSeenByProbeTest
  /\ request.method = "GET" \/ request.signal

(* _looks_like_x402_probe.                                                  *)
LooksLikeProbe ==
  /\ request.path = "mcp"
  /\ ~PaymentSeenByProbeTest
  /\ request.method = "GET" \/ request.signal

-----------------------------------------------------------------------------
(* The body: a stream, read to its end before the branches that need it.    *)

Drains == request.path # "x402" /\ ~LooksLikeProbe /\ request.method = "POST"

(* Mutant of Drained: more_body is not looked at.                           *)
DrainedAtDisconnect == Drains => cut

Drained == Drains => drained = request.messages \/ cut

(* What there is of the body is all of it, if perhaps without its last,     *)
(* empty, messages.                                                         *)
Whole == drained >= request.full

(* The body as the paywall parses it, and hands it on: the beginning of a   *)
(* JSON text is no JSON.                                                    *)
Seen == IF Whole THEN request.body ELSE "plain"

(* Mutant of NotRpc: what names no tool is not JSON-RPC.                    *)
NamesNoTool == Seen \in {"rpc", "rpcResponse", "plain"}

(* _tool_name is None, and not _is_mcp_rpc.                                 *)
NotRpc == Seen \in {"rpcResponse", "plain"}

(* Mutant of Branch: unconfigured, the paid tools are served.               *)
BranchServingUnpaid ==
  IF request.path = "x402" THEN "httpDoor"
  ELSE IF LooksLikeProbe THEN "probe"
  ELSE IF request.method = "POST" /\ Seen \in PaidTools /\ configured THEN "paidTool"
  ELSE "past"

(* The early returns of __call__, in their order.  A tools/call whose       *)
(* params are a list makes _tool_name raise: the server answers 500.        *)
Branch ==
  IF request.path = "x402" THEN "httpDoor"
  ELSE IF LooksLikeProbe THEN "probe"
  ELSE IF request.method # "POST" THEN "past"
  ELSE IF request.path = "mcp" /\ ~request.sse
    THEN IF PaymentFound THEN "httpDoor" ELSE "plainChallenge"
  ELSE IF Seen = "listParams" THEN "raised"
  ELSE IF request.path = "mcp" /\ NotRpc THEN "notRpcChallenge"
  ELSE IF Seen \notin PaidTools THEN "past"
  ELSE IF ~configured THEN "unconfigured"
  ELSE "paidTool"

-----------------------------------------------------------------------------

Challenges == {"probe", "plainChallenge", "notRpcChallenge", "toolChallenge"}

(* What the app behind the paywall is called for.                           *)
Handed == {"past", "httpDoor", "tool"}

Outcomes == Challenges \cup Handed \cup {"none", "raised", "unconfigured", "freeRejection",
                                         "refused", "garbled", "tornDown"}

Init ==
  /\ request \in Requests
  /\ configured \in BOOLEAN
  /\ carrying = FALSE
  /\ spent = FALSE /\ fundable \in BOOLEAN /\ answer = Silence
  /\ left = FALSE
  /\ stage = "paywall" /\ drained = 0 /\ cut = FALSE
  /\ heard = "nothing"
  /\ outcome = "none"

(* _drain, one receive(): the next message, or the disconnect of a client   *)
(* that left.  What such a client had sent may still be there to be read.   *)
Drain ==
  /\ stage = "paywall" /\ ~Drained
  /\ \/ drained' = drained + 1 /\ UNCHANGED cut
     \/ left /\ cut' = TRUE /\ UNCHANGED drained
  /\ UNCHANGED <<client, payment, left, stage, heard, outcome>>

Decides(branch) == stage = "paywall" /\ Drained /\ Branch = branch

Answered(result) ==
  /\ stage' = "over" /\ outcome' = result
  /\ UNCHANGED <<client, left, drained, cut, heard>>

HandedOn(to) ==
  /\ stage' = "app" /\ outcome' = to
  /\ UNCHANGED <<client, left, drained, cut, heard>>

(* Branches that answer, and branches that call the app, at once.           *)
AnswerAtOnce ==
  \E b \in {"probe", "plainChallenge", "raised", "notRpcChallenge", "unconfigured"} :
    Decides(b) /\ Answered(b) /\ UNCHANGED payment

PassOn == \E b \in {"past", "httpDoor"} : Decides(b) /\ HandedOn(b) /\ UNCHANGED payment

(* The precheck knows that the call cannot produce a result; only           *)
(* verify_deliverable has such a precondition.                              *)
RejectFree ==
  Decides("paidTool") /\ Seen = "verify" /\ Answered("freeRejection") /\ UNCHANGED payment

ChallengeTool ==
  Decides("paidTool") /\ ~PaymentFound /\ Answered("toolChallenge") /\ UNCHANGED payment

(* settle_or_accept, and what its answer decides: the tool runs, or the 402 *)
(* says why not.                                                            *)
PresentPayment ==
  /\ Decides("paidTool") /\ PaymentFound
  /\ Settle \/ SettleAgain \/ Decline \/ NoAnswer
  /\ IF Honours(answer') THEN HandedOn("tool") ELSE Answered("refused")

(* The payment header or the facilitator's answer is JSON of another shape  *)
(* (a list, say): _call raises, and the server answers 500.  As with no     *)
(* answer, the money may have moved.                                        *)
PaymentRaises ==
  Decides("paidTool") /\ PaymentFound /\ NoAnswer /\ Answered("garbled")

-----------------------------------------------------------------------------
(* The app's side of the stream.                                            *)

(* The transport's receive(): a message of the body, if the paywall has not *)
(* read it, or the disconnect of a client that left.                        *)
Original ==
  (IF heard = "nothing" /\ ~Drains THEN {"body"} ELSE {})
    \cup (IF left THEN {"disconnect"} ELSE {})

(* Mutant of Receive: the stream ends where the buffered body does.         *)
ReceiveThenDisconnect == IF heard = "nothing" THEN {"body"} ELSE {"disconnect"}

(* _replay: the drained body first, as one last message, and then whatever  *)
(* the transport has.                                                       *)
Receive == IF Drains /\ heard = "nothing" THEN {"body"} ELSE Original

AppReceives ==
  /\ stage = "app" /\ heard # "disconnect"
  /\ heard' \in Receive
  /\ UNCHANGED <<client, payment, left, stage, drained, cut, outcome>>

(* The app answers; a streaming one watches for a hang-up and gives up when *)
(* it hears one.                                                            *)
AppEnds ==
  /\ stage = "app" /\ heard # "nothing"
  /\ Answered(IF heard = "body" THEN outcome ELSE "tornDown")
  /\ UNCHANGED payment

-----------------------------------------------------------------------------
(* The buyer.                                                               *)

Send ==
  /\ left' = FALSE
  /\ stage' = "paywall" /\ drained' = 0 /\ cut' = FALSE
  /\ heard' = "nothing"
  /\ outcome' = "none"
  /\ answer' = Silence
  /\ UNCHANGED <<request, configured, spent, fundable>>

HangUp ==
  /\ stage # "over" /\ ~left
  /\ left' = TRUE
  /\ UNCHANGED <<client, payment, stage, drained, cut, heard, outcome>>

(* It signs the challenge and replays its request.                          *)
PayAndReplay ==
  /\ outcome \in Challenges /\ ~left /\ ~carrying
  /\ carrying' = TRUE
  /\ Send

(* It pays unasked, having seen the challenge elsewhere.                    *)
PayFirst ==
  /\ stage = "paywall" /\ drained = 0 /\ ~carrying
  /\ carrying' = TRUE
  /\ Send

(* Refused, answered with an error, or cut off, it comes again.             *)
ComeAgain ==
  /\ stage = "over"
  /\ outcome \in {"refused", "garbled", "freeRejection", "unconfigured", "tornDown"} \/ left
  /\ Send
  /\ UNCHANGED carrying

(* Its own wallet, meanwhile.                                               *)
Wallet ==
  /\ BuyerSettles \/ TopUp
  /\ UNCHANGED <<client, left, stage, drained, cut, heard, outcome>>

Next ==
  \/ Drain \/ AnswerAtOnce \/ PassOn
  \/ RejectFree \/ ChallengeTool \/ PresentPayment \/ PaymentRaises
  \/ AppReceives \/ AppEnds
  \/ HangUp \/ PayAndReplay \/ PayFirst \/ ComeAgain \/ Wallet

Spec == Init /\ [][Next]_vars

-----------------------------------------------------------------------------

(* The variables hold what their declarations say; in particular the        *)
(* paywall reads no message beyond the end of the body.                     *)
TypeOK ==
  /\ request \in Requests
  /\ configured \in BOOLEAN /\ carrying \in BOOLEAN /\ left \in BOOLEAN /\ cut \in BOOLEAN
  /\ spent \in BOOLEAN /\ fundable \in BOOLEAN /\ answer \in Answers
  /\ stage \in {"paywall", "app", "over"}
  /\ drained \in 0 .. MaxMessages
  /\ heard \in {"nothing", "body", "disconnect"}
  /\ outcome \in Outcomes

(* The request calls a paid tool of the MCP app.                            *)
CallsPaidTool ==
  request.method = "POST" /\ request.path # "x402" /\ request.body \in PaidTools

(* No call of a paid tool gets to the tools before its money has moved: not *)
(* with other Accept headers, on another path, in pieces, or while x402 is  *)
(* unconfigured ("paid tools will refuse to serve", server.py _startup);    *)
(* and being liberal about what counts as settled "cannot let a non-payer   *)
(* through" (okx_x402.py, _ALREADY_SETTLED_MARKERS).                        *)
PaidToolsArePaid ==
  /\ CallsPaidTool /\ Whole => outcome # "past"
  /\ outcome = "tool" => configured /\ spent /\ Whole

(* An MCP client's request that is not for a paid tool, and that it waits   *)
(* to hear about.                                                           *)
AsksNothingPaid ==
  /\ request.path = "mcp" /\ request.method = "POST" /\ request.sse /\ ~request.signal
  /\ request.body \in {"rpc", "freeTool"}
  /\ ~left

(* "tools/list, initialize, ping, and every free tool sail straight         *)
(* through": an MCP client that does not announce x402 is never billed for  *)
(* them, and never refused when x402 is unconfigured; and outside the MCP   *)
(* path only the call of a paid tool is ever challenged ("a paywall that    *)
(* bills the landlord does not get to stay in the building").               *)
FreeStaysFree ==
  /\ AsksNothingPaid => outcome \in {"none", "past"}
  /\ request.path # "mcp" /\ outcome \in Challenges => CallsPaidTool

(* A buyer who speaks one of the two protocols through and through: JSON    *)
(* over plain HTTP, or JSON-RPC over MCP, calling a paid tool.              *)
SpeaksOneProtocol ==
  /\ request.path = "mcp" /\ request.method = "POST"
  /\ request.sse => request.body \in PaidTools

(* Such a buyer's replay reaches the settlement (or is told why not), never *)
(* another challenge, under whichever header name the payment travels,      *)
(* provided it waits for the answer and does not also announce x402 in its  *)
(* headers under a name the probe test misses.                              *)
ReplayReachesSettlement ==
  /\ carrying /\ SpeaksOneProtocol /\ ~left
  /\ request.header = "listed" \/ ~request.signal
  => outcome \in {"none", "httpDoor", "tool", "refused", "garbled", "freeRejection",
                  "unconfigured"}

(* "You already paid" is never mistaken for "you didn't pay" (okx_x402.py): *)
(* a buyer whose authorization has moved the money by the time the          *)
(* facilitator answers gets to the tool, whether the paywall settled it,    *)
(* the buyer did, or an earlier attempt whose answer was lost.              *)
PayerIsHonoured ==
  [][PresentPayment /\ answer'.json /\ spent' => outcome' = "tool"]_vars

(* "A middleware that swallows a request stream must forward the rest of    *)
(* that stream, not fabricate its end" (_replay): the app gives up only on  *)
(* a client that has left, and works on part of a body only for such a one. *)
StreamIsHandedOn ==
  /\ outcome = "tornDown" => left
  /\ Drains /\ stage = "app" => Whole \/ left
=============================================================================
