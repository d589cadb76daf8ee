----------------------------- MODULE IndexQuery -----------------------------
(***************************************************************************)
(* How the pages of the web application get a list from an index actor of  *)
(* the sharding sample.  On each web node one actor (FetchAllProducts-     *)
(* Consumer, and its two siblings for sales and warnings) takes one page's *)
(* request at a time and sends it to the index, a cluster singleton.  The  *)
(* index answers through a pair of Akka.Delivery controllers: it may send  *)
(* a response when its ProducerController has asked for one, and retries   *)
(* a request three times until it has.                                     *)
(*                                                                         *)
(* The three indexes share these lines but for names; what they hold is    *)
(* the subject of ProductIndex.  A response is represented by the request  *)
(* that it was made for, which the code does not know.  A web node that    *)
(* comes back has another producer id, and is another consumer.            *)
(***************************************************************************)
EXTENDS Integers, Sequences, FiniteSets

CONSTANTS Consumers,
          MaxAttempts,   \* MaxAttempts
          HostOf,        \* the consumer on the node of a page, by the page's turn
          Window,        \* responses that a warm ProducerController lets out unconfirmed
          MaxPages,      \* bound on the requests of pages
          MaxFaults      \* bound on lost requests, web nodes that go down, and exceptions
                         \* in other handlers of the index, taken together

ASSUME NumbersAssumption ==
    /\ MaxAttempts \in Nat \ {0, 1} /\ Window \in Nat \ {0}
    /\ MaxPages \in Nat /\ MaxFaults \in Nat

Pages == 1 .. MaxPages

ASSUME HostAssumption == HostOf \in [Pages -> Consumers]

VARIABLES
    asks,        \* pages that have asked, in this order
    outcome,     \* of each page: "none", "waiting", "answered", "timedout" or "dead"
    answer,      \* the response a page got, by the page it was made for
    alive,       \* of each consumer: its node is up
    requestor,   \* the page whose response the consumer waits for, or 0
    mailbox, stash,
    transit,     \* responses between the controllers, and in the ConsumerController
    controller,  \* the ProducerController: "none", "active", "failed" or "stopping"
    wanted,      \* it has asked for a response that it has not got
    unconfirmed, \* responses of this controller that are not confirmed
    warm,        \* one has been confirmed
    watched,     \* the index watches the consumer
    inbox,       \* the mailbox of the index
    producers,   \* _producers
    retry,       \* the timer of each producer id
    threw,       \* history: a handler of this module threw
    sent,        \* history: the last request answered, by consumer
    disturbed,   \* history: a web node went down, or another handler threw
    faults

pageVars       == << asks, outcome, answer >>
consumerVars   == << requestor, mailbox, stash >>
controllerVars == << transit, controller, wanted, unconfirmed, warm >>
indexVars      == << inbox, producers, retry, watched, threw, sent >>
faultVars      == << alive, disturbed, faults >>
vars == << pageVars, consumerVars, controllerVars, indexVars, faultVars >>

FetchAllProducts(p) == [type |-> "Fetch", page |-> p]
Delivery(p)         == [type |-> "Delivery", page |-> p]

FetchImpl(c, p) == [type |-> "Fetch", from |-> c, page |-> p]
RequestNext(c)  == [type |-> "RequestNext", from |-> c]
Terminated(c)   == [type |-> "Terminated", from |-> c]

Unknown == [known |-> FALSE, demand |-> FALSE]
NoTimer == [set |-> FALSE, page |-> 0, attempt |-> 0]

Init ==
    /\ asks = 0
    /\ outcome = [p \in Pages |-> "none"]
    /\ answer = [p \in Pages |-> 0]
    /\ alive = [c \in Consumers |-> TRUE]
    /\ requestor = [c \in Consumers |-> 0]
    /\ mailbox = [c \in Consumers |-> << >>]
    /\ stash = [c \in Consumers |-> << >>]
    /\ transit = [c \in Consumers |-> << >>]
    /\ controller = [c \in Consumers |-> "none"]
    /\ wanted = [c \in Consumers |-> FALSE]
    /\ unconfirmed = [c \in Consumers |-> 0]
    /\ warm = [c \in Consumers |-> FALSE]
    /\ watched = [c \in Consumers |-> FALSE]
    /\ inbox = << >>
    /\ producers = [c \in Consumers |-> Unknown]
    /\ retry = [c \in Consumers |-> NoTimer]
    /\ threw = FALSE
    /\ sent = [c \in Consumers |-> 0]
    /\ disturbed = FALSE /\ faults = 0

-----------------------------------------------------------------------------
(* Pages and consumers.                                                    *)

\* A page asks the consumer of its node.  Its own limit of 3 seconds only decides
\* whether somebody still looks at the answer.
AskForPage ==
    /\ asks < MaxPages
    /\ LET p == asks + 1
       IN /\ alive[HostOf[p]]
          /\ asks' = p
          /\ outcome' = [outcome EXCEPT ![p] = "waiting"]
          /\ mailbox' = [mailbox EXCEPT ![HostOf[p]] = Append(@, FetchAllProducts(p))]
    /\ UNCHANGED << answer, requestor, stash, controllerVars, indexVars, faultVars >>

NextIs(c, type) == alive[c] /\ mailbox[c] # << >> /\ Head(mailbox[c]).type = type

\* The request goes through the proxy of the singleton, which may lose it.
TellIndex(m) ==
    \/ inbox' = Append(inbox, m) /\ UNCHANGED faults
    \/ faults < MaxFaults /\ faults' = faults + 1 /\ UNCHANGED inbox

ReceiveFetch(c) ==
    /\ NextIs(c, "Fetch") /\ requestor[c] = 0
    /\ LET p == Head(mailbox[c]).page
       IN /\ TellIndex(FetchImpl(c, p))
          /\ requestor' = [requestor EXCEPT ![c] = p]
    /\ mailbox' = [mailbox EXCEPT ![c] = Tail(@)]
    /\ UNCHANGED << pageVars, stash, controllerVars, producers, retry, watched, threw,
                    sent, alive, disturbed >>

\* Mutant of StashFetch: the waiting actor turns to the new requestor.
StashFetch_Replace(c) ==
    /\ NextIs(c, "Fetch") /\ requestor[c] # 0
    /\ requestor' = [requestor EXCEPT ![c] = Head(mailbox[c]).page]
    /\ mailbox' = [mailbox EXCEPT ![c] = Tail(@)]
    /\ UNCHANGED << pageVars, stash, controllerVars, indexVars, faultVars >>

StashFetch(c) ==
    /\ NextIs(c, "Fetch") /\ requestor[c] # 0
    /\ stash' = [stash EXCEPT ![c] = Append(@, Head(mailbox[c]))]
    /\ mailbox' = [mailbox EXCEPT ![c] = Tail(@)]
    /\ UNCHANGED << pageVars, requestor, controllerVars, indexVars, faultVars >>

\* Mutant of BecomeActive: UnstashAll is forgotten.
BecomeActive_StashStays(c, rest) ==
    /\ requestor' = [requestor EXCEPT ![c] = 0]
    /\ mailbox' = [mailbox EXCEPT ![c] = rest]
    /\ UNCHANGED stash

\* Also cancels the timer: one that has fired and waits in the mailbox is dropped.
BecomeActive(c, rest) ==
    /\ requestor' = [requestor EXCEPT ![c] = 0]
    /\ mailbox' = [mailbox EXCEPT ![c] = stash[c] \o rest]
    /\ stash' = [stash EXCEPT ![c] = << >>]

\* The oldest responses are those of controllers that are gone.
Confirm(c) ==
    LET own == unconfirmed[c] > Len(transit[c])
    IN /\ unconfirmed' = [unconfirmed EXCEPT ![c] = IF own THEN @ - 1 ELSE @]
       /\ warm' = [warm EXCEPT ![c] = own \/ @]

\* Whatever is delivered is confirmed, and answers whoever waits.
ReceiveDelivery(c) ==
    /\ NextIs(c, "Delivery")
    /\ Confirm(c)
    /\ LET p == requestor[c]
       IN IF p = 0
          THEN /\ mailbox' = [mailbox EXCEPT ![c] = Tail(@)]
               /\ UNCHANGED << outcome, answer, requestor, stash >>
          ELSE /\ outcome' = [outcome EXCEPT ![p] = "answered"]
               /\ answer' = [answer EXCEPT ![p] = Head(mailbox[c]).page]
               /\ BecomeActive(c, Tail(mailbox[c]))
    /\ UNCHANGED << asks, transit, controller, wanted, indexVars, faultVars >>

RequestTimeout(c) ==
    /\ alive[c] /\ requestor[c] # 0
    /\ outcome' = [outcome EXCEPT ![requestor[c]] = "timedout"]
    /\ BecomeActive(c, mailbox[c])
    /\ UNCHANGED << asks, answer, controllerVars, indexVars, faultVars >>

Die(c) ==
    /\ alive[c] /\ faults < MaxFaults
    /\ alive' = [alive EXCEPT ![c] = FALSE]
    /\ faults' = faults + 1 /\ disturbed' = TRUE
    /\ outcome' = [p \in Pages |-> IF HostOf[p] = c /\ outcome[p] = "waiting"
                                   THEN "dead" ELSE outcome[p]]
    /\ UNCHANGED << asks, answer, consumerVars, controllerVars, indexVars >>

-----------------------------------------------------------------------------
(* The controllers of Akka.Delivery.                                       *)

\* A started controller lets out one response, and several once it is confirmed.
AskForNext(c) ==
    /\ controller[c] = "active" /\ ~wanted[c]
    /\ unconfirmed[c] < (IF warm[c] THEN Window ELSE 1)
    /\ wanted' = [wanted EXCEPT ![c] = TRUE]
    /\ inbox' = Append(inbox, RequestNext(c))
    /\ UNCHANGED << pageVars, consumerVars, transit, controller, unconfirmed, warm,
                    producers, retry, watched, threw, sent, faultVars >>

\* One delivery at a time, the next one after its confirmation.
Deliver(c) ==
    /\ alive[c] /\ transit[c] # << >>
    /\ ~ \E i \in DOMAIN mailbox[c] : mailbox[c][i].type = "Delivery"
    /\ mailbox' = [mailbox EXCEPT ![c] = Append(@, Delivery(Head(transit[c])))]
    /\ transit' = [transit EXCEPT ![c] = Tail(@)]
    /\ UNCHANGED << pageVars, requestor, stash, controller, wanted, unconfirmed, warm,
                    indexVars, faultVars >>

\* A controller has stopped; its name is free.
Stopped(c) ==
    /\ controller[c] = "stopping"
    /\ controller' = [controller EXCEPT ![c] = "none"]
    /\ UNCHANGED << pageVars, consumerVars, transit, wanted, unconfirmed, warm, indexVars,
                    faultVars >>

\* DeathWatch tells the index of a consumer that is gone.
Notice(c) ==
    /\ ~alive[c] /\ watched[c]
    /\ watched' = [watched EXCEPT ![c] = FALSE]
    /\ inbox' = Append(inbox, Terminated(c))
    /\ UNCHANGED << pageVars, consumerVars, controllerVars, producers, retry, threw, sent,
                    faultVars >>

-----------------------------------------------------------------------------
(* The index.                                                              *)

\* An exception: the children are stopped before the new instance starts, timers and
\* fields are gone, the mailbox is not.  Responses on their way may be lost with the
\* controller that would have resent them.
Restart(rest) ==
    /\ inbox' = rest
    /\ producers' = [c \in Consumers |-> Unknown]
    /\ retry' = [c \in Consumers |-> NoTimer]
    /\ controller' = [c \in Consumers |-> "none"]
    /\ wanted' = [c \in Consumers |-> FALSE]
    /\ unconfirmed' = [c \in Consumers |-> 0]
    /\ warm' = [c \in Consumers |-> FALSE]
    /\ transit' \in {transit, [c \in Consumers |-> << >>]}
    /\ UNCHANGED << watched, sent >>

\* Mutant of SendResponse: hasDemand stays set.
SendResponse_DemandStays(c, p) ==
    /\ transit' = [transit EXCEPT ![c] = IF wanted[c] THEN Append(@, p) ELSE @]
    /\ unconfirmed' = [unconfirmed EXCEPT ![c] = IF wanted[c] THEN @ + 1 ELSE @]
    /\ controller' = [controller EXCEPT ![c] = IF wanted[c] THEN @ ELSE "failed"]
    /\ wanted' = [wanted EXCEPT ![c] = FALSE]
    /\ retry' = [retry EXCEPT ![c] = NoTimer]
    /\ sent' = [sent EXCEPT ![c] = p]
    /\ UNCHANGED << producers, warm, watched, threw >>

\* Mutant of SendResponse: a retry is scheduled after the response, too.
SendResponse_AndRetry(c, p) ==
    /\ transit' = [transit EXCEPT ![c] = IF wanted[c] THEN Append(@, p) ELSE @]
    /\ unconfirmed' = [unconfirmed EXCEPT ![c] = IF wanted[c] THEN @ + 1 ELSE @]
    /\ controller' = [controller EXCEPT ![c] = IF wanted[c] THEN @ ELSE "failed"]
    /\ wanted' = [wanted EXCEPT ![c] = FALSE]
    /\ producers' = [producers EXCEPT ![c].demand = FALSE]
    /\ retry' = [retry EXCEPT ![c] = [set |-> TRUE, page |-> p, attempt |-> MaxAttempts]]
    /\ sent' = [sent EXCEPT ![c] = p]
    /\ UNCHANGED << warm, watched, threw >>

\* Mutant of SendResponse: the pending retry of an older request is not cancelled.
SendResponse_TimerStays(c, p) ==
    /\ transit' = [transit EXCEPT ![c] = IF wanted[c] THEN Append(@, p) ELSE @]
    /\ unconfirmed' = [unconfirmed EXCEPT ![c] = IF wanted[c] THEN @ + 1 ELSE @]
    /\ controller' = [controller EXCEPT ![c] = IF wanted[c] THEN @ ELSE "failed"]
    /\ wanted' = [wanted EXCEPT ![c] = FALSE]
    /\ producers' = [producers EXCEPT ![c].demand = FALSE]
    /\ sent' = [sent EXCEPT ![c] = p]
    /\ UNCHANGED << retry, warm, watched, threw >>

\* A controller that has not asked for a response fails when it gets one, and is
\* restarted without being registered or started again.
SendResponse(c, p) ==
    /\ transit' = [transit EXCEPT ![c] = IF wanted[c] THEN Append(@, p) ELSE @]
    /\ unconfirmed' = [unconfirmed EXCEPT ![c] = IF wanted[c] THEN @ + 1 ELSE @]
    /\ controller' = [controller EXCEPT ![c] = IF wanted[c] THEN @ ELSE "failed"]
    /\ wanted' = [wanted EXCEPT ![c] = FALSE]
    /\ producers' = [producers EXCEPT ![c].demand = FALSE]
    /\ retry' = [retry EXCEPT ![c] = NoTimer]
    /\ sent' = [sent EXCEPT ![c] = p]
    /\ UNCHANGED << warm, watched, threw >>

\* Mutant of RetryRequest: the attempts are not counted.
RetryRequest_NoLimit(c, p, attempt) ==
    retry' = [retry EXCEPT ![c] = [set |-> TRUE, page |-> p, attempt |-> attempt]]

RetryRequest(c, p, attempt) ==
    retry' = [retry EXCEPT ![c] =
        IF attempt > MaxAttempts THEN NoTimer
        ELSE [set |-> TRUE, page |-> p, attempt |-> attempt]]

CreateProducerController(c) ==
    /\ controller' = [controller EXCEPT ![c] = "active"]
    /\ watched' = [watched EXCEPT ![c] = TRUE]
    /\ wanted' = [wanted EXCEPT ![c] = FALSE]
    /\ unconfirmed' = [unconfirmed EXCEPT ![c] = 0]
    /\ warm' = [warm EXCEPT ![c] = FALSE]

\* The name of a controller that has not quite stopped yet is not free: ActorOf throws,
\* after the consumer was watched.
ReceiveFetchProducts(c, p, attempt, rest) ==
    \/ /\ producers[c].known /\ producers[c].demand
       /\ SendResponse(c, p)
       /\ inbox' = rest
    \/ /\ producers[c].known /\ ~producers[c].demand
       /\ RetryRequest(c, p, attempt + 1)
       /\ inbox' = rest
       /\ UNCHANGED << controllerVars, producers, watched, threw, sent >>
    \/ /\ ~producers[c].known /\ controller[c] = "none"
       /\ CreateProducerController(c)
       /\ producers' = [producers EXCEPT ![c] = [known |-> TRUE, demand |-> FALSE]]
       /\ RetryRequest(c, p, attempt + 1)
       /\ inbox' = rest
       /\ UNCHANGED << transit, threw, sent >>
    \/ /\ ~producers[c].known /\ controller[c] # "none"
       /\ threw' = TRUE
       /\ Restart(rest)

\* The actor runs, and this is the next message.
InboxIs(type) == inbox # << >> /\ Head(inbox).type = type

HandleFetch ==
    /\ InboxIs("Fetch")
    /\ ReceiveFetchProducts(Head(inbox).from, Head(inbox).page, 1, Tail(inbox))
    /\ UNCHANGED << pageVars, consumerVars, faultVars >>

\* A single timer: it is unset when it fires, and one that was replaced never does.
HandleRetry(c) ==
    /\ retry[c].set
    /\ ReceiveFetchProducts(c, retry[c].page, retry[c].attempt, inbox)
    /\ UNCHANGED << pageVars, consumerVars, faultVars >>

\* The message is not asked which controller it is of, and the indexer throws if the
\* producer id is not there.
HandleRequestNext ==
    /\ InboxIs("RequestNext")
    /\ LET c == Head(inbox).from
       IN IF producers[c].known
          THEN /\ producers' = [producers EXCEPT ![c].demand = TRUE]
               /\ inbox' = Tail(inbox)
               /\ UNCHANGED << controllerVars, retry, watched, threw, sent >>
          ELSE /\ threw' = TRUE
               /\ Restart(Tail(inbox))
    /\ UNCHANGED << pageVars, consumerVars, faultVars >>

\* Mutant of Forget: the controller is stopped and its entry kept.
Forget_Keep(c) == UNCHANGED producers

Forget(c) == producers' = [producers EXCEPT ![c] = Unknown]

HandleTerminated ==
    /\ InboxIs("Terminated")
    /\ LET c == Head(inbox).from
       IN IF producers[c].known
          THEN /\ controller' = [controller EXCEPT ![c] = "stopping"]
               /\ wanted' = [wanted EXCEPT ![c] = FALSE]
               /\ Forget(c)
          ELSE UNCHANGED << controller, wanted, producers >>
    /\ inbox' = Tail(inbox)
    /\ UNCHANGED << pageVars, consumerVars, transit, unconfirmed, warm, retry, watched,
                    threw, sent, faultVars >>

\* A handler of the contents throws: see ProductIndex.
ContentsThrow ==
    /\ faults < MaxFaults
    /\ faults' = faults + 1 /\ disturbed' = TRUE
    /\ Restart(inbox)
    /\ UNCHANGED << pageVars, consumerVars, threw, alive >>

Handle == HandleFetch \/ HandleRequestNext \/ HandleTerminated

Next ==
    \/ AskForPage
    \/ \E c \in Consumers :
        \/ ReceiveFetch(c) \/ StashFetch(c) \/ ReceiveDelivery(c) \/ RequestTimeout(c)
        \/ Die(c) \/ AskForNext(c) \/ Deliver(c) \/ Stopped(c) \/ Notice(c)
        \/ HandleRetry(c)
    \/ HandleFetch \/ HandleRequestNext \/ HandleTerminated \/ ContentsThrow

Spec == Init /\ [][Next]_vars

\* Dispatchers run actors that have a message, timers fire, DeathWatch works, and the
\* controllers do their part.
FairSpec ==
    /\ Spec
    /\ WF_vars(Handle)
    /\ \A c \in Consumers :
        /\ WF_vars(ReceiveFetch(c) \/ StashFetch(c) \/ ReceiveDelivery(c))
        /\ WF_vars(RequestTimeout(c)) /\ WF_vars(HandleRetry(c))
        /\ WF_vars(AskForNext(c)) /\ WF_vars(Deliver(c))
        /\ WF_vars(Stopped(c)) /\ WF_vars(Notice(c))

-----------------------------------------------------------------------------
(* Properties.                                                             *)

Outcomes == {"none", "waiting", "answered", "timedout", "dead"}

FetchMsg    == [type : {"Fetch"}, page : Pages]
DeliveryMsg == [type : {"Delivery"}, page : Pages]
IndexMsg    == [type : {"Fetch"}, from : Consumers, page : Pages]
                 \cup [type : {"RequestNext", "Terminated"}, from : Consumers]

\* Types; a controller has a wish only while it runs, and has room for it.
TypeOK ==
    /\ asks \in 0 .. MaxPages
    /\ outcome \in [Pages -> Outcomes] /\ answer \in [Pages -> 0 .. MaxPages]
    /\ alive \in [Consumers -> BOOLEAN] /\ requestor \in [Consumers -> 0 .. MaxPages]
    /\ mailbox \in [Consumers -> Seq(FetchMsg \cup DeliveryMsg)]
    /\ stash \in [Consumers -> Seq(FetchMsg)] /\ transit \in [Consumers -> Seq(Pages)]
    /\ controller \in [Consumers -> {"none", "active", "failed", "stopping"}]
    /\ wanted \in [Consumers -> BOOLEAN] /\ unconfirmed \in [Consumers -> 0 .. Window]
    /\ warm \in [Consumers -> BOOLEAN] /\ watched \in [Consumers -> BOOLEAN]
    /\ inbox \in Seq(IndexMsg)
    /\ producers \in [Consumers -> [known : BOOLEAN, demand : BOOLEAN]]
    /\ retry \in [Consumers -> {NoTimer} \cup
                      [set : {TRUE}, page : Pages, attempt : 2 .. MaxAttempts]]
    /\ threw \in BOOLEAN /\ sent \in [Consumers -> 0 .. MaxPages]
    /\ disturbed \in BOOLEAN /\ faults \in 0 .. MaxFaults
    /\ \A c \in Consumers : wanted[c] => controller[c] = "active" /\ unconfirmed[c] < Window

\* How often a page waits with the consumer: as a message, stashed, or as requestor.
Waits(queue, p) == {i \in DOMAIN queue : queue[i] = FetchAllProducts(p)}
Places(c, p) ==
    Cardinality(Waits(mailbox[c], p)) + Cardinality(Waits(stash[c], p))
        + (IF requestor[c] = p THEN 1 ELSE 0)

\* While its node is up, a page that has neither an answer nor a timeout is in exactly
\* one place of the consumer, and one that has is in none: stashing and unstashing
\* lose nobody, and nobody is served twice.
PageIsInOnePlace ==
    \A p \in Pages :
        alive[HostOf[p]] =>
            Places(HostOf[p], p) = (IF outcome[p] = "waiting" THEN 1 ELSE 0)

Timeouts(c) == {p \in Pages : HostOf[p] = c /\ outcome[p] = "timedout"}

\* A page gets the response to its own request, unless an earlier page of the same
\* consumer has timed out: no retry makes a second response to one request.
OnlyATimeoutShifts ==
    \A p \in Pages :
        outcome[p] = "answered" /\ answer[p] # p
            => \E q \in Timeouts(HostOf[p]) : q < p

\* The index answers the requests of a consumer in their order, each of them at most
\* once: a newer request replaces the retry of an older one for good.
ResponsesInOrder ==
    [][\A c \in Consumers : sent'[c] # sent[c] \/ Len(transit'[c]) > Len(transit[c])
            => sent'[c] > sent[c]]_vars

\* Until a web node goes down or another handler fails, the index sends a response
\* only to a controller that has asked for it, and none of its handlers throws.
UndisturbedIndexWorks ==
    ~disturbed =>
        /\ ~threw
        /\ \A c \in Consumers : controller[c] # "failed"

\* When a web node is gone the index comes to forget its controller, also if a retry
\* or a late request makes another one for it.
GoneMeansForgotten ==
    \A c \in Consumers : ~alive[c] ~> [](~producers[c].known)

\* A page that asks gets an answer or an error, unless its node goes down.
PagesSettle == \A p \in Pages : outcome[p] = "waiting" ~> outcome[p] # "waiting"

\* Neither a page nor a controller is left behind.
NothingIsLeftBehind == PagesSettle /\ GoneMeansForgotten

=============================================================================
