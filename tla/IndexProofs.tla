---------------------------- MODULE IndexProofs ----------------------------
(***************************************************************************)
(* The index actors, for all consumers, pages, products, attempts, windows *)
(* and faults.  First what IndexQuery says of their answers: no page is    *)
(* lost or served twice by a consumer, only a timeout shifts the answers,  *)
(* the index answers a consumer's requests in their order, and,            *)
(* undisturbed, sends a response only to a controller that has asked for   *)
(* it.  Then what ProductIndex says of their contents: they show what the  *)
(* stream has sent, across restarts, and sales twice only where a message  *)
(* outlived one.                                                           *)
(***************************************************************************)
EXTENDS IndexQuery, ProductIndex, FiniteSetTheorems, FunctionTheorems, TLAPS

-----------------------------------------------------------------------------
(* Queues.                                                                 *)

\* What is left when the first message is taken.
LEMMA QueueTail ==
    ASSUME NEW S, NEW q \in Seq(S), q # << >>
    PROVE  /\ Len(q) \in Nat /\ DOMAIN q = 1 .. Len(q) /\ 1 \in DOMAIN q
           /\ Head(q) = q[1] /\ Head(q) \in S /\ Tail(q) \in Seq(S)
           /\ DOMAIN Tail(q) = 1 .. Len(q) - 1
           /\ \A i \in DOMAIN Tail(q) : i + 1 \in DOMAIN q /\ Tail(q)[i] = q[i + 1]
           /\ \A i \in DOMAIN q : i = 1 \/ (i - 1 \in DOMAIN Tail(q) /\ q[i] = Tail(q)[i - 1])
<1>1. /\ Len(q) \in Nat /\ DOMAIN q = 1 .. Len(q) /\ 1 \in DOMAIN q
      /\ Head(q) = q[1] /\ Head(q) \in S /\ Tail(q) \in Seq(S)
  OBVIOUS
<1>2. /\ DOMAIN Tail(q) = 1 .. Len(q) - 1
      /\ \A i \in 1 .. Len(q) - 1 : Tail(q)[i] = q[i + 1]
  OBVIOUS
<1>3. \A i \in 1 .. Len(q) - 1 : i + 1 \in 1 .. Len(q)
  BY <1>1
<1>4. \A i \in 1 .. Len(q) : i = 1 \/ (i - 1 \in 1 .. Len(q) - 1 /\ (i - 1) + 1 = i)
  BY <1>1
<1>5. QED
  BY <1>1, <1>2, <1>3, <1>4

\* What is there when a message was put behind.
LEMMA QueueAppend ==
    ASSUME NEW S, NEW q \in Seq(S), NEW x \in S
    PROVE  /\ Len(q) \in Nat /\ DOMAIN q = 1 .. Len(q) /\ Append(q, x) \in Seq(S)
           /\ DOMAIN Append(q, x) = 1 .. Len(q) + 1
           /\ \A i \in DOMAIN q : i \in DOMAIN Append(q, x) /\ Append(q, x)[i] = q[i]
           /\ Append(q, x)[Len(q) + 1] = x
           /\ \A i \in DOMAIN Append(q, x) : i \in DOMAIN q \/ i = Len(q) + 1
<1>1. /\ Len(q) \in Nat /\ DOMAIN q = 1 .. Len(q) /\ Append(q, x) \in Seq(S)
      /\ DOMAIN Append(q, x) = 1 .. Len(q) + 1
      /\ \A i \in 1 .. Len(q) : Append(q, x)[i] = q[i]
      /\ Append(q, x)[Len(q) + 1] = x
  OBVIOUS
<1>2. \A i \in 1 .. Len(q) : i \in 1 .. Len(q) + 1
  BY <1>1
<1>3. \A i \in 1 .. Len(q) + 1 : i \in 1 .. Len(q) \/ i = Len(q) + 1
  BY <1>1
<1>4. QED
  BY <1>1, <1>2, <1>3

\* What is there when one queue is put before another.
LEMMA QueueConcat ==
    ASSUME NEW S, NEW q \in Seq(S), NEW r \in Seq(S)
    PROVE  /\ Len(q) \in Nat /\ Len(r) \in Nat /\ q \o r \in Seq(S)
           /\ DOMAIN q = 1 .. Len(q) /\ DOMAIN r = 1 .. Len(r)
           /\ \A i \in DOMAIN q : i \in DOMAIN (q \o r) /\ (q \o r)[i] = q[i]
           /\ \A i \in DOMAIN r : /\ Len(q) + i \in DOMAIN (q \o r)
                                  /\ (q \o r)[Len(q) + i] = r[i]
           /\ \A k \in DOMAIN (q \o r) :
                 k \in DOMAIN q \/ (k - Len(q) \in DOMAIN r /\ (q \o r)[k] = r[k - Len(q)])
<1>1. /\ Len(q) \in Nat /\ Len(r) \in Nat /\ q \o r \in Seq(S)
      /\ DOMAIN q = 1 .. Len(q) /\ DOMAIN r = 1 .. Len(r)
      /\ DOMAIN (q \o r) = 1 .. Len(q) + Len(r)
      /\ \A i \in 1 .. Len(q) : (q \o r)[i] = q[i]
      /\ \A i \in 1 .. Len(r) : (q \o r)[Len(q) + i] = r[i]
  OBVIOUS
<1>2. /\ \A i \in 1 .. Len(q) : i \in 1 .. Len(q) + Len(r)
      /\ \A i \in 1 .. Len(r) : Len(q) + i \in 1 .. Len(q) + Len(r)
  BY <1>1
<1>3. \A k \in 1 .. Len(q) + Len(r) :
         k \in 1 .. Len(q) \/ (k - Len(q) \in 1 .. Len(r) /\ Len(q) + (k - Len(q)) = k)
  BY <1>1
<1>4. QED
  BY <1>1, <1>2, <1>3

-----------------------------------------------------------------------------
(* The invariant.                                                          *)

Requests(c) == [type : {"Fetch"}, from : {c}, page : Pages]

\* Of a queue: its messages of one sort have pages that grow, and pages above a number.
Grow(queue, sort) ==
    \A i, j \in DOMAIN queue :
        i < j /\ queue[i] \in sort /\ queue[j] \in sort => queue[i].page < queue[j].page
Above(n, queue, sort) ==
    \A i \in DOMAIN queue : queue[i] \in sort => n < queue[i].page

\* Of a queue: it has at most one message of one sort.
AtMostOne(queue, sort) ==
    \A i, j \in DOMAIN queue : queue[i] \in sort /\ queue[j] \in sort => i = j

\* The consumer's turn has come to a page, or is past it.
Reached(c, p) ==
    /\ p <= asks /\ (requestor[c] # 0 => p <= requestor[c])
    /\ Above(p, stash[c], FetchMsg) /\ Above(p, mailbox[c], FetchMsg)
Passed(c, p) == Reached(c, p) /\ p # requestor[c]

\* The pages of a consumer stand in the order in which they asked: the requestor, those
\* that are stashed, and those in the mailbox.
Line(c) ==
    /\ Grow(mailbox[c], FetchMsg) /\ Grow(stash[c], FetchMsg)
    /\ \A i \in DOMAIN stash[c] :
          /\ Above(stash[c][i].page, mailbox[c], FetchMsg)
          /\ stash[c][i].page <= asks /\ HostOf[stash[c][i].page] = c
    /\ \A i \in DOMAIN mailbox[c] : mailbox[c][i] \in FetchMsg =>
          mailbox[c][i].page <= asks /\ HostOf[mailbox[c][i].page] = c
    /\ requestor[c] = 0 => stash[c] = << >>
    /\ requestor[c] # 0 => Reached(c, requestor[c]) /\ HostOf[requestor[c]] = c
LineInv == \A c \in Consumers : Line(c)

\* A page waits if it stands there.
InQueue(queue, p) == \E i \in DOMAIN queue : queue[i] \in FetchMsg /\ queue[i].page = p
InLine(c, p) == requestor[c] = p \/ InQueue(stash[c], p) \/ InQueue(mailbox[c], p)
WaitInv ==
    \A p \in Pages : alive[HostOf[p]] => (outcome[p] = "waiting" <=> InLine(HostOf[p], p))

\* What the index has still to answer, and what it has answered, is in this order, too:
\* requests on their way, the one that is retried, the last one answered, and before that
\* the responses between the controllers and the one that is delivered.
Chain(c) ==
    /\ Grow(inbox, Requests(c)) /\ Above(sent[c], inbox, Requests(c))
    /\ retry[c].set => sent[c] < retry[c].page /\ Above(retry[c].page, inbox, Requests(c))
    /\ \A i, j \in DOMAIN transit[c] : i < j => transit[c][i] < transit[c][j]
    /\ \A i \in DOMAIN transit[c] : transit[c][i] <= sent[c]
    /\ \A k \in DOMAIN mailbox[c] : mailbox[c][k] \in DeliveryMsg =>
          /\ mailbox[c][k].page <= sent[c]
          /\ \A i \in DOMAIN transit[c] : mailbox[c][k].page < transit[c][i]
    /\ AtMostOne(mailbox[c], DeliveryMsg)
ChainInv == \A c \in Consumers : Chain(c)

\* No request is ahead of its page.
Made(c) ==
    /\ Reached(c, sent[c])
    /\ retry[c].set => Reached(c, retry[c].page)
    /\ \A i \in DOMAIN inbox : inbox[i] \in Requests(c) => Reached(c, inbox[i].page)
MadeInv == \A c \in Consumers : Made(c)

\* As long as no page of the consumer has timed out, all that is under way is for the page
\* whose turn it is; a page that has timed out is passed.
UnderWay(c, p) ==
    \/ \E i \in DOMAIN inbox : inbox[i] \in Requests(c) /\ inbox[i].page = p
    \/ retry[c].set /\ retry[c].page = p
    \/ \E i \in DOMAIN transit[c] : transit[c][i] = p
    \/ \E k \in DOMAIN mailbox[c] : mailbox[c][k] \in DeliveryMsg /\ mailbox[c][k].page = p
Punctual(c) ==
    /\ \A q \in Timeouts(c) : Passed(c, q)
    /\ Timeouts(c) = {} => \A p \in Pages : UnderWay(c, p) => p = requestor[c]
PunctualInv == \A c \in Consumers : Punctual(c)

\* While nothing disturbs it the index knows the controllers that run, and a demand that it
\* knows, or is to be told of, is one that its controller has.
Demand(c) ==
    /\ alive[c] /\ controller[c] \in {"none", "active"}
    /\ producers[c].known <=> controller[c] = "active"
    /\ producers[c].demand => wanted[c]
    /\ \A i \in DOMAIN inbox : inbox[i] = RequestNext(c) => wanted[c] /\ ~producers[c].demand
    /\ AtMostOne(inbox, {RequestNext(c)})
DemandInv ==
    ~disturbed => /\ ~threw /\ \A i \in DOMAIN inbox : inbox[i].type # "Terminated"
                  /\ \A c \in Consumers : Demand(c)

-----------------------------------------------------------------------------
(* Order in a queue.                                                       *)

\* Taking the first message keeps the order, and what is left comes after it.
LEMMA OrderOfTail ==
    ASSUME NEW S, NEW q \in Seq(S), q # << >>, NEW K
    PROVE  /\ Grow(q, K) => Grow(Tail(q), K) /\ (Head(q) \in K => Above(Head(q).page, Tail(q), K))
           /\ \A n : Above(n, q, K) => Above(n, Tail(q), K)
<1>1. /\ Len(q) \in Nat /\ DOMAIN q = 1 .. Len(q) /\ 1 \in DOMAIN q /\ Head(q) = q[1]
      /\ DOMAIN Tail(q) = 1 .. Len(q) - 1
      /\ \A i \in DOMAIN Tail(q) : i + 1 \in DOMAIN q /\ Tail(q)[i] = q[i + 1]
  BY QueueTail
<1>2. \A i, j \in DOMAIN Tail(q) : 1 < i + 1 /\ (i < j => i + 1 < j + 1)
  BY <1>1
<1>3. Grow(q, K) => Grow(Tail(q), K)
  BY <1>1, <1>2 DEF Grow
<1>4. Grow(q, K) /\ Head(q) \in K => Above(Head(q).page, Tail(q), K)
  BY <1>1, <1>2 DEF Grow, Above
<1>5. \A n : Above(n, q, K) => Above(n, Tail(q), K)
  BY <1>1 DEF Above
<1>6. QED
  BY <1>3, <1>4, <1>5

\* A message of another kind changes nothing; one of this kind comes last.
LEMMA OrderOfAppend ==
    ASSUME NEW S, NEW q \in Seq(S), NEW x \in S, NEW K
    PROVE  /\ Grow(q, K)
              /\ (x \in K => \A i \in DOMAIN q : q[i] \in K => q[i].page < x.page)
              => Grow(Append(q, x), K)
           /\ \A n : Above(n, q, K) /\ (x \in K => n < x.page) => Above(n, Append(q, x), K)
<1> DEFINE more == Append(q, x)
<1>1. /\ Len(q) \in Nat /\ DOMAIN q = 1 .. Len(q)
      /\ \A i \in DOMAIN q : i \in DOMAIN more /\ more[i] = q[i]
      /\ more[Len(q) + 1] = x
      /\ \A i \in DOMAIN more : i \in DOMAIN q \/ i = Len(q) + 1
  BY QueueAppend
<1> HIDE DEF more
<1>2. ASSUME Grow(q, K), x \in K => \A i \in DOMAIN q : q[i] \in K => q[i].page < x.page
      PROVE  Grow(more, K)
  <2> SUFFICES ASSUME NEW i \in DOMAIN more, NEW j \in DOMAIN more, i < j,
                      more[i] \in K, more[j] \in K
               PROVE  more[i].page < more[j].page
    BY DEF Grow
  <2>1. i \in DOMAIN q
    BY <1>1
  <2>2. CASE j \in DOMAIN q
    BY <1>1, <1>2, <2>1, <2>2 DEF Grow
  <2>3. CASE j = Len(q) + 1
    BY <1>1, <1>2, <2>1, <2>3
  <2>4. QED
    BY <1>1, <2>2, <2>3
<1>3. ASSUME NEW n, Above(n, q, K), x \in K => n < x.page PROVE Above(n, more, K)
  BY <1>1, <1>3 DEF Above
<1>4. QED
  BY <1>2, <1>3 DEF more

\* Two queues in order, the one before the other.
LEMMA OrderOfConcat ==
    ASSUME NEW S, NEW q \in Seq(S), NEW r \in Seq(S), NEW K
    PROVE  /\ Grow(q, K) /\ Grow(r, K)
              /\ (\A i \in DOMAIN q : q[i] \in K => Above(q[i].page, r, K))
              => Grow(q \o r, K)
           /\ \A n : Above(n, q, K) /\ Above(n, r, K) => Above(n, q \o r, K)
<1> DEFINE all == q \o r
<1>1. /\ Len(q) \in Nat /\ DOMAIN q = 1 .. Len(q) /\ DOMAIN r = 1 .. Len(r) /\ Len(r) \in Nat
      /\ \A i \in DOMAIN q : i \in DOMAIN all /\ all[i] = q[i]
      /\ \A k \in DOMAIN all :
            k \in DOMAIN q \/ (k - Len(q) \in DOMAIN r /\ all[k] = r[k - Len(q)])
      /\ DOMAIN all = 1 .. Len(q) + Len(r)
  BY QueueConcat
<1> HIDE DEF all
<1>2. ASSUME Grow(q, K), Grow(r, K),
             \A i \in DOMAIN q : q[i] \in K => Above(q[i].page, r, K)
      PROVE  Grow(all, K)
  <2> SUFFICES ASSUME NEW i \in DOMAIN all, NEW j \in DOMAIN all, i < j,
                      all[i] \in K, all[j] \in K
               PROVE  all[i].page < all[j].page
    BY DEF Grow
  <2>1. CASE i \in DOMAIN q /\ j \in DOMAIN q
    BY <1>1, <1>2, <2>1 DEF Grow
  <2>2. CASE i \in DOMAIN q /\ j \notin DOMAIN q
    BY <1>1, <1>2, <2>2 DEF Above
  <2>3. CASE i \notin DOMAIN q
    <3>1. j \notin DOMAIN q
      BY <1>1, <2>3
    <3>2. /\ i - Len(q) \in DOMAIN r /\ all[i] = r[i - Len(q)]
          /\ j - Len(q) \in DOMAIN r /\ all[j] = r[j - Len(q)]
      BY <1>1, <2>3, <3>1
    <3>3. i - Len(q) < j - Len(q)
      BY <1>1
    <3>4. QED
      BY <1>2, <3>2, <3>3 DEF Grow
  <2>4. QED
    BY <2>1, <2>2, <2>3
<1>3. ASSUME NEW n, Above(n, q, K), Above(n, r, K) PROVE Above(n, all, K)
  BY <1>1, <1>3 DEF Above
<1>4. QED
  BY <1>2, <1>3 DEF all


-----------------------------------------------------------------------------
(* Types.                                                                  *)

LEMMA Numbers ==
    /\ MaxPages \in Nat /\ MaxFaults \in Nat /\ Window \in Nat \ {0}
    /\ MaxAttempts \in Nat \ {0, 1}
    /\ Pages = 1 .. MaxPages /\ 0 \notin Pages /\ Pages \subseteq 0 .. MaxPages
    /\ HostOf \in [Pages -> Consumers]
  BY NumbersAssumption, HostAssumption DEF Pages

\* The first message of a queue, and the queue without it.
LEMMA FirstTypes ==
    ASSUME TypeOK
    PROVE  /\ \A c \in Consumers : mailbox[c] # << >> =>
                 /\ Head(mailbox[c]) \in FetchMsg \cup DeliveryMsg
                 /\ Tail(mailbox[c]) \in Seq(FetchMsg \cup DeliveryMsg)
                 /\ Head(mailbox[c]).type = "Fetch" => Head(mailbox[c]) \in FetchMsg
                 /\ Head(mailbox[c]).type = "Delivery" => Head(mailbox[c]) \in DeliveryMsg
                 /\ Head(mailbox[c]).page \in Pages
           /\ \A c \in Consumers : transit[c] # << >> =>
                 Head(transit[c]) \in Pages /\ Tail(transit[c]) \in Seq(Pages)
           /\ inbox # << >> =>
                 /\ Head(inbox) \in IndexMsg /\ Tail(inbox) \in Seq(IndexMsg)
                 /\ Head(inbox).from \in Consumers
                 /\ Head(inbox).type = "Fetch" => Head(inbox).page \in Pages
<1>1. ASSUME NEW c \in Consumers, mailbox[c] # << >>
      PROVE  /\ Head(mailbox[c]) \in FetchMsg \cup DeliveryMsg
             /\ Tail(mailbox[c]) \in Seq(FetchMsg \cup DeliveryMsg)
  <2>1. mailbox[c] \in Seq(FetchMsg \cup DeliveryMsg)
    BY DEF TypeOK
  <2>2. QED
    BY <1>1, <2>1, QueueTail
<1>2. \A m \in FetchMsg \cup DeliveryMsg :
         /\ m.type = "Fetch" => m \in FetchMsg
         /\ m.type = "Delivery" => m \in DeliveryMsg
         /\ m.page \in Pages
  BY DEF FetchMsg, DeliveryMsg
<1>3. ASSUME NEW c \in Consumers, transit[c] # << >>
      PROVE  Head(transit[c]) \in Pages /\ Tail(transit[c]) \in Seq(Pages)
  <2>1. transit[c] \in Seq(Pages)
    BY DEF TypeOK
  <2>2. QED
    BY <1>3, <2>1, QueueTail
<1>4. inbox # << >> => Head(inbox) \in IndexMsg /\ Tail(inbox) \in Seq(IndexMsg)
  BY QueueTail DEF TypeOK
<1>5. \A m \in IndexMsg : m.from \in Consumers /\ (m.type = "Fetch" => m.page \in Pages)
  BY DEF IndexMsg
<1>6. QED
  BY <1>1, <1>2, <1>3, <1>4, <1>5

LEMMA BecomeActiveTypes ==
    ASSUME TypeOK, NEW c \in Consumers, NEW rest \in Seq(FetchMsg \cup DeliveryMsg),
           BecomeActive(c, rest)
    PROVE  /\ requestor' \in [Consumers -> 0 .. MaxPages]
           /\ mailbox' \in [Consumers -> Seq(FetchMsg \cup DeliveryMsg)]
           /\ stash' \in [Consumers -> Seq(FetchMsg)]
<1>1. stash[c] \in Seq(FetchMsg \cup DeliveryMsg)
  BY DEF TypeOK
<1>2. stash[c] \o rest \in Seq(FetchMsg \cup DeliveryMsg)
  BY <1>1
<1>3. << >> \in Seq(FetchMsg) /\ 0 \in 0 .. MaxPages
  BY Numbers
<1>4. QED
  BY <1>2, <1>3 DEF TypeOK, BecomeActive

LEMMA RestartTypes ==
    ASSUME TypeOK, NEW rest \in Seq(IndexMsg), Restart(rest)
    PROVE  /\ inbox' \in Seq(IndexMsg) /\ transit' \in [Consumers -> Seq(Pages)]
           /\ producers' \in [Consumers -> [known : BOOLEAN, demand : BOOLEAN]]
           /\ retry' \in [Consumers -> {NoTimer} \cup
                              [set : {TRUE}, page : Pages, attempt : 2 .. MaxAttempts]]
           /\ controller' \in [Consumers -> {"none", "active", "failed", "stopping"}]
           /\ wanted' \in [Consumers -> BOOLEAN] /\ unconfirmed' \in [Consumers -> 0 .. Window]
           /\ warm' \in [Consumers -> BOOLEAN]
           /\ UNCHANGED << watched, sent >>
           /\ \A c \in Consumers : wanted'[c] => controller'[c] = "active" /\ unconfirmed'[c] < Window
<1>1. << >> \in Seq(Pages) /\ 0 \in 0 .. Window /\ Unknown \in [known : BOOLEAN, demand : BOOLEAN]
  BY Numbers DEF Unknown
<1>2. transit' \in [Consumers -> Seq(Pages)]
  BY <1>1 DEF TypeOK, Restart
<1>3. /\ producers' \in [Consumers -> [known : BOOLEAN, demand : BOOLEAN]]
      /\ wanted' \in [Consumers -> BOOLEAN] /\ warm' \in [Consumers -> BOOLEAN]
      /\ \A c \in Consumers : ~wanted'[c]
  BY <1>1, Zenon DEF Restart
<1>4. /\ retry' \in [Consumers -> {NoTimer} \cup
                          [set : {TRUE}, page : Pages, attempt : 2 .. MaxAttempts]]
      /\ controller' \in [Consumers -> {"none", "active", "failed", "stopping"}]
      /\ unconfirmed' \in [Consumers -> 0 .. Window]
  BY <1>1 DEF Restart
<1>5. QED
  BY <1>2, <1>3, <1>4 DEF Restart

LEMMA FetchTypes ==
    ASSUME TypeOK, NEW c \in Consumers, NEW p \in Pages, NEW attempt \in 1 .. MaxAttempts,
           NEW rest \in Seq(IndexMsg), ReceiveFetchProducts(c, p, attempt, rest)
    PROVE  /\ inbox' \in Seq(IndexMsg) /\ transit' \in [Consumers -> Seq(Pages)]
           /\ producers' \in [Consumers -> [known : BOOLEAN, demand : BOOLEAN]]
           /\ retry' \in [Consumers -> {NoTimer} \cup
                              [set : {TRUE}, page : Pages, attempt : 2 .. MaxAttempts]]
           /\ controller' \in [Consumers -> {"none", "active", "failed", "stopping"}]
           /\ wanted' \in [Consumers -> BOOLEAN] /\ unconfirmed' \in [Consumers -> 0 .. Window]
           /\ warm' \in [Consumers -> BOOLEAN] /\ watched' \in [Consumers -> BOOLEAN]
           /\ sent' \in [Consumers -> 0 .. MaxPages] /\ threw' \in BOOLEAN
           /\ \A k \in Consumers : wanted'[k] => controller'[k] = "active" /\ unconfirmed'[k] < Window
<1>1. CASE producers[c].known /\ producers[c].demand /\ SendResponse(c, p) /\ inbox' = rest
  <2>1. Append(transit[c], p) \in Seq(Pages)
    BY DEF TypeOK
  <2>2. transit' \in [Consumers -> Seq(Pages)]
    BY <1>1, <2>1 DEF TypeOK, SendResponse
  <2>3. unconfirmed' \in [Consumers -> 0 .. Window]
    <3>1. unconfirmed[c] \in 0 .. Window /\ (wanted[c] => unconfirmed[c] < Window)
      BY DEF TypeOK
    <3>2. wanted[c] => unconfirmed[c] + 1 \in 0 .. Window
      BY <3>1, Numbers
    <3>3. QED
      BY <1>1, <3>1, <3>2 DEF TypeOK, SendResponse
  <2>4. \A k \in Consumers :
           wanted'[k] => controller'[k] = "active" /\ unconfirmed'[k] < Window
    BY <1>1 DEF TypeOK, SendResponse
  <2>5. producers' \in [Consumers -> [known : BOOLEAN, demand : BOOLEAN]]
    BY <1>1, Zenon DEF TypeOK, SendResponse
  <2>6. /\ wanted' \in [Consumers -> BOOLEAN] /\ sent' \in [Consumers -> 0 .. MaxPages]
        /\ controller' \in [Consumers -> {"none", "active", "failed", "stopping"}]
    BY <1>1, Numbers DEF TypeOK, SendResponse
  <2>7. retry' \in [Consumers -> {NoTimer} \cup
                        [set : {TRUE}, page : Pages, attempt : 2 .. MaxAttempts]]
    BY <1>1 DEF TypeOK, SendResponse
  <2>8. QED
    BY <1>1, <2>2, <2>3, <2>4, <2>5, <2>6, <2>7 DEF TypeOK, SendResponse
<1>2. ASSUME RetryRequest(c, p, attempt + 1)
      PROVE  retry' \in [Consumers -> {NoTimer} \cup
                             [set : {TRUE}, page : Pages, attempt : 2 .. MaxAttempts]]
  <2>1. (IF attempt + 1 > MaxAttempts THEN NoTimer
         ELSE [set |-> TRUE, page |-> p, attempt |-> attempt + 1])
           \in {NoTimer} \cup [set : {TRUE}, page : Pages, attempt : 2 .. MaxAttempts]
    BY Numbers
  <2>2. QED
    BY <1>2, <2>1 DEF TypeOK, RetryRequest
<1>3. CASE /\ RetryRequest(c, p, attempt + 1) /\ inbox' = rest
           /\ UNCHANGED << controllerVars, producers, watched, threw, sent >>
  BY <1>2, <1>3 DEF TypeOK, controllerVars
<1>4. CASE /\ CreateProducerController(c)
           /\ producers' = [producers EXCEPT ![c] = [known |-> TRUE, demand |-> FALSE]]
           /\ RetryRequest(c, p, attempt + 1) /\ inbox' = rest
           /\ UNCHANGED << transit, threw, sent >>
  <2>1. /\ controller' \in [Consumers -> {"none", "active", "failed", "stopping"}]
        /\ unconfirmed' \in [Consumers -> 0 .. Window]
    <3>1. 0 \in 0 .. Window
      BY Numbers
    <3>2. QED
      BY <1>4, <3>1 DEF TypeOK, CreateProducerController
  <2>4. wanted' \in [Consumers -> BOOLEAN] /\ warm' \in [Consumers -> BOOLEAN]
    BY <1>4, Zenon DEF TypeOK, CreateProducerController
  <2>5. \A k \in Consumers :
           wanted'[k] => controller'[k] = "active" /\ unconfirmed'[k] < Window
    BY <1>4 DEF TypeOK, CreateProducerController
  <2>2. producers' \in [Consumers -> [known : BOOLEAN, demand : BOOLEAN]]
    BY <1>4, Zenon DEF TypeOK
  <2>3. QED
    BY <1>2, <1>4, <2>1, <2>2, <2>4, <2>5 DEF TypeOK, CreateProducerController
<1>5. CASE threw' = TRUE /\ Restart(rest)
  BY <1>5, RestartTypes DEF TypeOK
<1>6. QED
  BY <1>1, <1>3, <1>4, <1>5 DEF ReceiveFetchProducts

\* Every step keeps the types.
LEMMA TypeStep ==
    ASSUME TypeOK, [Next]_vars
    PROVE  TypeOK'
<1> USE DEF pageVars, consumerVars, controllerVars, indexVars, faultVars
<1>1. CASE AskForPage
  <2>1. PICK p : p = asks + 1
    OBVIOUS
  <2>2. asks < MaxPages /\ p \in Pages /\ HostOf[p] \in Consumers /\ p \in 0 .. MaxPages
    BY <1>1, <2>1, Numbers DEF TypeOK, AskForPage
  <2>3. /\ asks' = p /\ outcome' = [outcome EXCEPT ![p] = "waiting"]
        /\ mailbox' = [mailbox EXCEPT ![HostOf[p]] = Append(@, FetchAllProducts(p))]
        /\ UNCHANGED << answer, requestor, stash, controllerVars, indexVars, faultVars >>
    BY <1>1, <2>1 DEF AskForPage
  <2>4. FetchAllProducts(p) \in FetchMsg \cup DeliveryMsg
    BY <2>2 DEF FetchAllProducts, FetchMsg
  <2>5. Append(mailbox[HostOf[p]], FetchAllProducts(p)) \in Seq(FetchMsg \cup DeliveryMsg)
    BY <2>2, <2>4 DEF TypeOK
  <2>6. mailbox' \in [Consumers -> Seq(FetchMsg \cup DeliveryMsg)]
    BY <2>3, <2>5 DEF TypeOK
  <2>7. outcome' \in [Pages -> Outcomes]
    BY <2>3 DEF TypeOK, Outcomes
  <2>8. QED
    BY <2>2, <2>3, <2>6, <2>7 DEF TypeOK
<1>2. ASSUME NEW c \in Consumers, ReceiveFetch(c) PROVE TypeOK'
  <2>1. mailbox[c] # << >> /\ NextIs(c, "Fetch")
    BY <1>2 DEF ReceiveFetch, NextIs
  <2>2. PICK p \in Pages : p = Head(mailbox[c]).page
    BY <2>1, FirstTypes
  <2>3. /\ TellIndex(FetchImpl(c, p)) /\ requestor' = [requestor EXCEPT ![c] = p]
        /\ mailbox' = [mailbox EXCEPT ![c] = Tail(@)]
        /\ UNCHANGED << pageVars, stash, controllerVars, producers, retry, watched, threw,
                        sent, alive, disturbed >>
    BY <1>2, <2>2 DEF ReceiveFetch
  <2>4. FetchImpl(c, p) \in IndexMsg
    BY DEF FetchImpl, IndexMsg
  <2>5. inbox' \in Seq(IndexMsg)
    <3>1. inbox \in Seq(IndexMsg) /\ Append(inbox, FetchImpl(c, p)) \in Seq(IndexMsg)
      BY <2>4 DEF TypeOK
    <3>2. inbox' = inbox \/ inbox' = Append(inbox, FetchImpl(c, p))
      BY <2>3 DEF TellIndex
    <3>3. QED
      BY <3>1, <3>2
  <2>6. faults' \in 0 .. MaxFaults
    <3>1. faults' = faults \/ (faults < MaxFaults /\ faults' = faults + 1)
      BY <2>3 DEF TellIndex
    <3>2. faults \in 0 .. MaxFaults
      BY DEF TypeOK
    <3>3. QED
      BY <3>1, <3>2, Numbers
  <2>7. mailbox' \in [Consumers -> Seq(FetchMsg \cup DeliveryMsg)]
    BY <2>1, <2>3, FirstTypes DEF TypeOK
  <2>8. requestor' \in [Consumers -> 0 .. MaxPages]
    BY <2>3, Numbers DEF TypeOK
  <2>9. QED
    BY <2>3, <2>5, <2>6, <2>7, <2>8 DEF TypeOK
<1>3. ASSUME NEW c \in Consumers, StashFetch(c) PROVE TypeOK'
  <2>1. mailbox[c] # << >> /\ Head(mailbox[c]).type = "Fetch"
    BY <1>3 DEF StashFetch, NextIs
  <2>2. Append(stash[c], Head(mailbox[c])) \in Seq(FetchMsg)
    <3>1. Head(mailbox[c]) \in FetchMsg
      BY <2>1, FirstTypes
    <3>2. stash[c] \in Seq(FetchMsg)
      BY DEF TypeOK
    <3>3. QED
      BY <3>1, <3>2
  <2>3. stash' \in [Consumers -> Seq(FetchMsg)]
    BY <1>3, <2>2 DEF TypeOK, StashFetch
  <2>4. mailbox' \in [Consumers -> Seq(FetchMsg \cup DeliveryMsg)]
    BY <1>3, <2>1, FirstTypes DEF TypeOK, StashFetch
  <2>5. QED
    BY <1>3, <2>3, <2>4 DEF TypeOK, StashFetch
<1>4. ASSUME NEW c \in Consumers, ReceiveDelivery(c) PROVE TypeOK'
  <2>1. mailbox[c] # << >> /\ Confirm(c)
        /\ UNCHANGED << asks, transit, controller, wanted, indexVars, faultVars >>
    BY <1>4 DEF ReceiveDelivery, NextIs
  <2>2. /\ Tail(mailbox[c]) \in Seq(FetchMsg \cup DeliveryMsg)
        /\ Head(mailbox[c]).page \in 0 .. MaxPages
    BY <2>1, FirstTypes, Numbers
  <2>3. /\ unconfirmed' \in [Consumers -> 0 .. Window]
        /\ \A k \in Consumers : unconfirmed'[k] <= unconfirmed[k]
    <3>1. PICK n : n = Len(transit[c])
      OBVIOUS
    <3>2. n \in Nat /\ unconfirmed[c] \in 0 .. Window
      BY <3>1 DEF TypeOK
    <3>3. unconfirmed' = [unconfirmed EXCEPT ![c] = IF unconfirmed[c] > n
                                                    THEN unconfirmed[c] - 1 ELSE unconfirmed[c]]
      BY <2>1, <3>1 DEF Confirm
    <3>4. (IF unconfirmed[c] > n THEN unconfirmed[c] - 1 ELSE unconfirmed[c]) \in 0 .. unconfirmed[c]
      BY <3>2, Numbers
    <3>5. unconfirmed \in [Consumers -> 0 .. Window]
      BY DEF TypeOK
    <3>6. QED
      BY <3>2, <3>3, <3>4, <3>5, Numbers
  <2>4. warm' \in [Consumers -> BOOLEAN]
    BY <2>1 DEF TypeOK, Confirm
  <2>5. \A k \in Consumers : wanted'[k] => controller'[k] = "active" /\ unconfirmed'[k] < Window
    <3>1. \A k \in Consumers : wanted[k] => controller[k] = "active" /\ unconfirmed[k] < Window
      BY DEF TypeOK
    <3>2. \A k \in Consumers : unconfirmed[k] < Window => unconfirmed'[k] < Window
      BY <2>3, Numbers DEF TypeOK
    <3>3. QED
      BY <2>1, <3>1, <3>2
  <2>6. CASE /\ requestor[c] = 0 /\ mailbox' = [mailbox EXCEPT ![c] = Tail(@)]
             /\ UNCHANGED << outcome, answer, requestor, stash >>
    <3>1. mailbox' \in [Consumers -> Seq(FetchMsg \cup DeliveryMsg)]
      BY <2>2, <2>6 DEF TypeOK
    <3>2. QED
      BY <2>1, <2>3, <2>4, <2>5, <2>6, <3>1 DEF TypeOK
  <2>7. CASE /\ requestor[c] # 0
             /\ outcome' = [outcome EXCEPT ![requestor[c]] = "answered"]
             /\ answer' = [answer EXCEPT ![requestor[c]] = Head(mailbox[c]).page]
             /\ BecomeActive(c, Tail(mailbox[c]))
    <3>1. outcome' \in [Pages -> Outcomes] /\ answer' \in [Pages -> 0 .. MaxPages]
      BY <2>2, <2>7 DEF TypeOK, Outcomes
    <3>2. /\ requestor' \in [Consumers -> 0 .. MaxPages]
          /\ mailbox' \in [Consumers -> Seq(FetchMsg \cup DeliveryMsg)]
          /\ stash' \in [Consumers -> Seq(FetchMsg)]
      BY <2>2, <2>7, BecomeActiveTypes
    <3>3. QED
      BY <2>1, <2>3, <2>4, <2>5, <3>1, <3>2 DEF TypeOK
  <2>8. QED
    BY <1>4, <2>6, <2>7 DEF ReceiveDelivery
<1>5. ASSUME NEW c \in Consumers, RequestTimeout(c) PROVE TypeOK'
  <2>1. outcome' \in [Pages -> Outcomes]
    BY <1>5 DEF TypeOK, RequestTimeout, Outcomes
  <2>2. mailbox[c] \in Seq(FetchMsg \cup DeliveryMsg) /\ BecomeActive(c, mailbox[c])
    BY <1>5 DEF TypeOK, RequestTimeout
  <2>3. /\ requestor' \in [Consumers -> 0 .. MaxPages]
        /\ mailbox' \in [Consumers -> Seq(FetchMsg \cup DeliveryMsg)]
        /\ stash' \in [Consumers -> Seq(FetchMsg)]
    BY <2>2, BecomeActiveTypes
  <2>4. QED
    BY <1>5, <2>1, <2>3 DEF TypeOK, RequestTimeout
<1>6. ASSUME NEW c \in Consumers, Die(c) PROVE TypeOK'
  <2>1. outcome' \in [Pages -> Outcomes]
    BY <1>6 DEF TypeOK, Die, Outcomes
  <2>2. alive' \in [Consumers -> BOOLEAN] /\ disturbed' \in BOOLEAN
    BY <1>6 DEF TypeOK, Die
  <2>3. faults' \in 0 .. MaxFaults
    BY <1>6, Numbers DEF TypeOK, Die
  <2>4. QED
    BY <1>6, <2>1, <2>2, <2>3 DEF TypeOK, Die
<1>7. ASSUME NEW c \in Consumers, AskForNext(c) PROVE TypeOK'
  <2>1. RequestNext(c) \in IndexMsg
    BY DEF RequestNext, IndexMsg
  <2>2. inbox' \in Seq(IndexMsg)
    BY <1>7, <2>1 DEF TypeOK, AskForNext
  <2>3. unconfirmed[c] < Window
    BY <1>7, Numbers DEF TypeOK, AskForNext
  <2>4. wanted' \in [Consumers -> BOOLEAN] /\ wanted' = [wanted EXCEPT ![c] = TRUE]
    BY <1>7 DEF TypeOK, AskForNext
  <2>5. \A k \in Consumers : wanted'[k] => controller'[k] = "active" /\ unconfirmed'[k] < Window
    BY <1>7, <2>3, <2>4 DEF TypeOK, AskForNext
  <2>6. QED
    BY <1>7, <2>2, <2>4, <2>5 DEF TypeOK, AskForNext
<1>8. ASSUME NEW c \in Consumers, Deliver(c) PROVE TypeOK'
  <2>1. Head(transit[c]) \in Pages /\ Tail(transit[c]) \in Seq(Pages)
    BY <1>8, FirstTypes DEF Deliver
  <2>2. Delivery(Head(transit[c])) \in FetchMsg \cup DeliveryMsg
    BY <2>1 DEF Delivery, DeliveryMsg
  <2>3. Append(mailbox[c], Delivery(Head(transit[c]))) \in Seq(FetchMsg \cup DeliveryMsg)
    BY <2>2 DEF TypeOK
  <2>4. mailbox' \in [Consumers -> Seq(FetchMsg \cup DeliveryMsg)]
    BY <1>8, <2>3 DEF TypeOK, Deliver
  <2>5. transit' \in [Consumers -> Seq(Pages)]
    BY <1>8, <2>1 DEF TypeOK, Deliver
  <2>6. QED
    BY <1>8, <2>4, <2>5 DEF TypeOK, Deliver
<1>9. ASSUME NEW c \in Consumers, Stopped(c) PROVE TypeOK'
  BY <1>9 DEF TypeOK, Stopped
<1>10. ASSUME NEW c \in Consumers, Notice(c) PROVE TypeOK'
  <2>1. Terminated(c) \in IndexMsg
    BY DEF Terminated, IndexMsg
  <2>2. inbox' \in Seq(IndexMsg)
    BY <1>10, <2>1 DEF TypeOK, Notice
  <2>3. watched' \in [Consumers -> BOOLEAN]
    BY <1>10 DEF TypeOK, Notice
  <2>4. QED
    BY <1>10, <2>2, <2>3 DEF TypeOK, Notice
<1>11. ASSUME NEW c \in Consumers, HandleRetry(c) PROVE TypeOK'
  <2>1. retry[c] \in [set : {TRUE}, page : Pages, attempt : 2 .. MaxAttempts]
    <3>1. retry[c].set /\ ~NoTimer.set
      BY <1>11 DEF HandleRetry, NoTimer
    <3>2. retry[c] # NoTimer
      BY <3>1
    <3>3. QED
      BY <3>2 DEF TypeOK
  <2>2. retry[c].page \in Pages /\ retry[c].attempt \in 1 .. MaxAttempts /\ inbox \in Seq(IndexMsg)
    BY <2>1, Numbers DEF TypeOK
  <2>3. ReceiveFetchProducts(c, retry[c].page, retry[c].attempt, inbox)
        /\ UNCHANGED << pageVars, consumerVars, faultVars >>
    BY <1>11 DEF HandleRetry
  <2>4. QED
    BY <2>2, <2>3, FetchTypes DEF TypeOK
<1>12. CASE HandleFetch
  <2>1. /\ Head(inbox).from \in Consumers /\ Head(inbox).page \in Pages
        /\ 1 \in 1 .. MaxAttempts /\ Tail(inbox) \in Seq(IndexMsg)
    BY <1>12, FirstTypes, Numbers DEF HandleFetch, InboxIs
  <2>2. ReceiveFetchProducts(Head(inbox).from, Head(inbox).page, 1, Tail(inbox))
        /\ UNCHANGED << pageVars, consumerVars, faultVars >>
    BY <1>12 DEF HandleFetch
  <2>3. QED
    BY <2>1, <2>2, FetchTypes DEF TypeOK
<1>13. CASE HandleRequestNext
  <2>1. PICK c \in Consumers : c = Head(inbox).from
    BY <1>13, FirstTypes DEF HandleRequestNext, InboxIs
  <2>2. Tail(inbox) \in Seq(IndexMsg) /\ UNCHANGED << pageVars, consumerVars, faultVars >>
    BY <1>13, FirstTypes DEF HandleRequestNext, InboxIs
  <2>3. CASE /\ producers' = [producers EXCEPT ![c].demand = TRUE] /\ inbox' = Tail(inbox)
             /\ UNCHANGED << controllerVars, retry, watched, threw, sent >>
    <3>1. producers' \in [Consumers -> [known : BOOLEAN, demand : BOOLEAN]]
      BY <2>3, Zenon DEF TypeOK
    <3>2. QED
      BY <2>2, <2>3, <3>1 DEF TypeOK
  <2>4. CASE threw' = TRUE /\ Restart(Tail(inbox))
    BY <2>2, <2>4, RestartTypes DEF TypeOK
  <2>5. QED
    BY <1>13, <2>1, <2>3, <2>4 DEF HandleRequestNext
<1>14. CASE HandleTerminated
  <2>1. PICK c \in Consumers : c = Head(inbox).from
    BY <1>14, FirstTypes DEF HandleTerminated, InboxIs
  <2>2. /\ inbox' = Tail(inbox) /\ Tail(inbox) \in Seq(IndexMsg)
        /\ UNCHANGED << pageVars, consumerVars, transit, unconfirmed, warm, retry, watched,
                        threw, sent, faultVars >>
    BY <1>14, FirstTypes DEF HandleTerminated, InboxIs
  <2>3. CASE /\ controller' = [controller EXCEPT ![c] = "stopping"]
             /\ wanted' = [wanted EXCEPT ![c] = FALSE] /\ Forget(c)
    <3>1. controller' \in [Consumers -> {"none", "active", "failed", "stopping"}]
      BY <2>3 DEF TypeOK
    <3>2. wanted' \in [Consumers -> BOOLEAN]
      BY <2>3 DEF TypeOK
    <3>3. producers' \in [Consumers -> [known : BOOLEAN, demand : BOOLEAN]]
      BY <2>3, Zenon DEF TypeOK, Forget, Unknown
    <3>4. \A k \in Consumers : wanted'[k] => controller'[k] = "active" /\ unconfirmed'[k] < Window
      BY <2>2, <2>3 DEF TypeOK
    <3>5. QED
      BY <2>2, <3>1, <3>2, <3>3, <3>4 DEF TypeOK
  <2>4. CASE UNCHANGED << controller, wanted, producers >>
    BY <2>2, <2>4 DEF TypeOK
  <2>5. QED
    BY <1>14, <2>1, <2>3, <2>4 DEF HandleTerminated
<1>15. CASE ContentsThrow
  <2>1. /\ Restart(inbox) /\ inbox \in Seq(IndexMsg) /\ disturbed' \in BOOLEAN
        /\ UNCHANGED << pageVars, consumerVars, threw, alive >>
    BY <1>15 DEF ContentsThrow, TypeOK
  <2>2. faults' \in 0 .. MaxFaults
    BY <1>15, Numbers DEF TypeOK, ContentsThrow
  <2>3. QED
    BY <2>1, <2>2, RestartTypes DEF TypeOK
<1>16. CASE UNCHANGED vars
  BY <1>16 DEF TypeOK, vars
<1>17. QED
  BY <1>1, <1>2, <1>3, <1>4, <1>5, <1>6, <1>7, <1>8, <1>9, <1>10, <1>11, <1>12, <1>13, <1>14,
     <1>15, <1>16 DEF Next

-----------------------------------------------------------------------------
(* The pages of a consumer in their order.                                 *)

\* Nothing happens with a consumer while other pages ask.
LEMMA Elsewhere ==
    ASSUME TypeOK, NEW c \in Consumers, Line(c), asks' \in Nat, asks <= asks',
           requestor'[c] = requestor[c], mailbox'[c] = mailbox[c], stash'[c] = stash[c]
    PROVE  Line(c)' /\ \A p \in Nat : Reached(c, p) => Reached(c, p)'
<1>1. asks \in Nat
  BY Numbers DEF TypeOK
<1>2. \A n \in Nat : n <= asks => n <= asks'
  BY <1>1
<1>3. /\ \A i \in DOMAIN stash[c] : stash[c][i].page \in Nat
      /\ \A i \in DOMAIN mailbox[c] : mailbox[c][i] \in FetchMsg => mailbox[c][i].page \in Nat
  <2>1. \A m \in FetchMsg : m.page \in Nat
    BY Numbers DEF FetchMsg
  <2>2. stash[c] \in Seq(FetchMsg)
    BY DEF TypeOK
  <2>3. \A i \in DOMAIN stash[c] : stash[c][i] \in FetchMsg
    BY <2>2
  <2>4. QED
    BY <2>1, <2>3
<1>4. \A p \in Nat : Reached(c, p) => Reached(c, p)'
  BY <1>2 DEF Reached, Above
<1>5. requestor[c] \in Nat
  BY Numbers DEF TypeOK
<1>6. requestor'[c] # 0 => Reached(c, requestor[c])' /\ HostOf[requestor'[c]] = c
  BY <1>2, <1>4, <1>5 DEF Line, Reached, Above
<1>7. QED
  BY <1>2, <1>3, <1>4, <1>6 DEF Line, Grow, Above

\* When the consumer is done with a page, the stashed ones come before the others.
LEMMA Unstashed ==
    ASSUME TypeOK, NEW c \in Consumers, Line(c), requestor[c] # 0, asks' = asks,
           NEW rest \in Seq(FetchMsg \cup DeliveryMsg), BecomeActive(c, rest),
           Grow(rest, FetchMsg),
           \A i \in DOMAIN rest : \E j \in DOMAIN mailbox[c] : rest[i] = mailbox[c][j]
    PROVE  Line(c)' /\ \A p \in Nat : Reached(c, p) => Reached(c, p)'
<1>1. PICK all : all = stash[c] \o rest
  OBVIOUS
<1>2. /\ requestor'[c] = 0 /\ stash'[c] = << >> /\ mailbox'[c] = all
  BY <1>1 DEF TypeOK, BecomeActive
<1>3. stash[c] \in Seq(FetchMsg \cup DeliveryMsg)
  BY DEF TypeOK
<1>4. \A n : Above(n, mailbox[c], FetchMsg) => Above(n, rest, FetchMsg)
  BY DEF Above
<1>5. Grow(all, FetchMsg)
  <2>1. \A i \in DOMAIN stash[c] : Above(stash[c][i].page, rest, FetchMsg)
    BY <1>4 DEF Line
  <2>2. QED
    BY <1>1, <1>3, <2>1, OrderOfConcat DEF Line
<1>6. \A n : Above(n, stash[c], FetchMsg) /\ Above(n, mailbox[c], FetchMsg)
                => Above(n, all, FetchMsg)
  BY <1>1, <1>3, <1>4, OrderOfConcat
<1>7. \A k \in DOMAIN all : all[k] \in FetchMsg => all[k].page <= asks /\ HostOf[all[k].page] = c
  <2>1. \A k \in DOMAIN all : (\E i \in DOMAIN stash[c] : all[k] = stash[c][i])
                              \/ (\E i \in DOMAIN rest : all[k] = rest[i])
    <3> DEFINE q == stash[c]
    <3>1. q \in Seq(FetchMsg \cup DeliveryMsg)
      BY <1>3
    <3> HIDE DEF q
    <3>2. \A k \in DOMAIN (q \o rest) :
              (k \in DOMAIN q /\ (q \o rest)[k] = q[k])
              \/ (k - Len(q) \in DOMAIN rest /\ (q \o rest)[k] = rest[k - Len(q)])
      BY <3>1, QueueConcat
    <3>3. all = q \o rest
      BY <1>1 DEF q
    <3>4. QED
      BY <3>2, <3>3 DEF q
  <2>2. QED
    BY <2>1 DEF Line
<1>8. DOMAIN << >> = {}
  OBVIOUS
<1>9. \A p \in Nat : Reached(c, p) => Reached(c, p)'
  <2>1. \A p \in Nat : Reached(c, p) => Above(p, all, FetchMsg) /\ Above(p, << >>, FetchMsg)
    BY <1>6, <1>8 DEF Reached, Above
  <2>2. QED
    BY <1>2, <2>1 DEF Reached
<1>10. QED
  BY <1>2, <1>5, <1>7, <1>8, <1>9 DEF Line, Grow

\* Of a message for a consumer: the pages of both kinds, and that there are two.
LEMMA ConsumerMessages ==
    /\ \A m \in FetchMsg : m.page \in Pages /\ m.page \in Nat \ {0} /\ m \notin DeliveryMsg
                           /\ m = FetchAllProducts(m.page)
    /\ \A m \in DeliveryMsg : m.page \in Pages /\ m.page \in Nat \ {0} /\ m \notin FetchMsg
    /\ \A p \in Pages : FetchAllProducts(p) \in FetchMsg /\ FetchAllProducts(p).page = p
                        /\ Delivery(p) \in DeliveryMsg /\ Delivery(p).page = p
  BY Numbers DEF FetchMsg, DeliveryMsg, FetchAllProducts, Delivery

\* Every step keeps the order, and no consumer goes back behind a page.
LEMMA LineStep ==
    ASSUME TypeOK, LineInv, [Next]_vars
    PROVE  LineInv' /\ \A c \in Consumers, p \in Nat : Reached(c, p) => Reached(c, p)'
<1> USE DEF pageVars, consumerVars, controllerVars, indexVars, faultVars
<1> DEFINE Kept(k) == Line(k)' /\ \A p \in Nat : Reached(k, p) => Reached(k, p)'
<1>1. SUFFICES \A k \in Consumers : Kept(k)
  BY DEF LineInv
<1>2. asks \in Nat /\ \A k \in Consumers : requestor[k] \in Nat /\ Line(k)
  BY Numbers DEF TypeOK, LineInv
<1>3. ASSUME NEW c \in Consumers, asks' = asks,
             \A k \in Consumers \ {c} : /\ requestor'[k] = requestor[k]
                                        /\ mailbox'[k] = mailbox[k] /\ stash'[k] = stash[k]
      PROVE  \A k \in Consumers \ {c} : Kept(k)
  <2>1. asks' \in Nat /\ asks <= asks'
    BY <1>2, <1>3
  <2>2. TAKE k \in Consumers \ {c}
  <2>3. QED
    BY <1>2, <1>3, <2>1, Elsewhere
<1>4. ASSUME UNCHANGED << asks, requestor, mailbox, stash >> PROVE \A k \in Consumers : Kept(k)
  BY <1>2, <1>4, Elsewhere
<1>5. CASE AskForPage
  <2>1. PICK p : p = asks + 1
    OBVIOUS
  <2>2. p \in Pages /\ HostOf[p] \in Consumers /\ asks < p /\ p \in Nat
    BY <1>2, <1>5, <2>1, Numbers DEF AskForPage
  <2>3. PICK c \in Consumers : c = HostOf[p]
    BY <2>2
  <2>4. /\ asks' = p /\ UNCHANGED << requestor, stash >>
        /\ mailbox' = [mailbox EXCEPT ![c] = Append(@, FetchAllProducts(p))]
    BY <1>5, <2>1, <2>3 DEF AskForPage
  <2>5. asks' \in Nat /\ asks <= asks'
    BY <1>2, <2>2, <2>4
  <2>6. ASSUME NEW k \in Consumers, k # c PROVE Kept(k)
    <3>1. mailbox'[k] = mailbox[k]
      BY <2>4, <2>6 DEF TypeOK
    <3>2. QED
      BY <1>2, <2>4, <2>5, <3>1, Elsewhere
  <2>7. PICK m : m = FetchAllProducts(p)
    OBVIOUS
  <2>8. m \in FetchMsg /\ m \in FetchMsg \cup DeliveryMsg /\ m.page = p
    BY <2>2, <2>7, ConsumerMessages
  <2>9. PICK q \in Seq(FetchMsg \cup DeliveryMsg) : q = mailbox[c]
    BY DEF TypeOK
  <2>10. mailbox'[c] = Append(q, m) /\ stash'[c] = stash[c] /\ requestor'[c] = requestor[c]
    BY <2>4, <2>7, <2>9 DEF TypeOK
  <2>11. PICK more : more = Append(q, m)
    OBVIOUS
  <2>12. \A i \in DOMAIN q : q[i] \in FetchMsg => q[i].page < p
    BY <1>2, <2>2, <2>9, ConsumerMessages DEF Line
  <2>13. Grow(more, FetchMsg)
    BY <1>2, <2>8, <2>9, <2>11, <2>12, OrderOfAppend DEF Line
  <2>14. \A n : Above(n, q, FetchMsg) /\ n < p => Above(n, more, FetchMsg)
    BY <2>8, <2>11, OrderOfAppend
  <2>15. \A i \in DOMAIN more : more[i] \in FetchMsg => more[i].page <= p /\ HostOf[more[i].page] = c
    <3>1. \A i \in DOMAIN more : (\E j \in DOMAIN q : more[i] = q[j]) \/ more[i] = m
      BY <2>8, <2>11, QueueAppend
    <3>2. \A j \in DOMAIN q : q[j] \in FetchMsg => q[j].page <= p /\ HostOf[q[j].page] = c
      BY <1>2, <2>2, <2>9, <2>12, ConsumerMessages DEF Line
    <3>3. QED
      BY <2>2, <2>3, <2>8, <3>1, <3>2
  <2>16. \A n \in Nat : n <= asks => n <= p /\ n < p
    BY <1>2, <2>2
  <2>17. \A n \in Nat : Reached(c, n) => Reached(c, n)'
    <3>1. \A n \in Nat : Reached(c, n) => n <= asks /\ Above(n, more, FetchMsg)
      BY <2>9, <2>14, <2>16 DEF Reached
    <3>2. QED
      BY <2>4, <2>10, <2>11, <2>16, <3>1 DEF Reached
  <2>18. \A i \in DOMAIN stash[c] :
            /\ stash[c][i].page \in Nat /\ stash[c][i].page <= p
            /\ HostOf[stash[c][i].page] = c /\ Above(stash[c][i].page, more, FetchMsg)
    <3>1. \A i \in DOMAIN stash[c] : stash[c][i] \in FetchMsg
      BY DEF TypeOK
    <3>2. \A i \in DOMAIN stash[c] : stash[c][i].page \in Nat
      BY <3>1, ConsumerMessages
    <3>3. QED
      BY <1>2, <2>9, <2>14, <2>16, <3>2 DEF Line
  <2>19. requestor[c] # 0 => Reached(c, requestor[c])' /\ HostOf[requestor[c]] = c
    BY <1>2, <2>10, <2>17 DEF Line
  <2>20. requestor[c] = 0 => stash[c] = << >>
    BY <1>2 DEF Line
  <2>21. Line(c)'
    <3>1. /\ mailbox'[c] = more /\ stash'[c] = stash[c] /\ requestor'[c] = requestor[c] /\ asks' = p
      BY <2>4, <2>10, <2>11
    <3>2. Grow(stash[c], FetchMsg)
      BY <1>2 DEF Line
    <3>3. QED
      BY <2>13, <2>15, <2>18, <2>19, <2>20, <3>1, <3>2 DEF Line
  <2>22. QED
    BY <2>6, <2>17, <2>21
<1>6. ASSUME NEW c \in Consumers, ReceiveFetch(c) PROVE \A k \in Consumers : Kept(k)
  <2>1. PICK m : m = Head(mailbox[c])
    OBVIOUS
  <2>2. PICK rest : rest = Tail(mailbox[c])
    OBVIOUS
  <2>3. /\ mailbox[c] # << >> /\ m.type = "Fetch" /\ requestor[c] = 0
        /\ requestor' = [requestor EXCEPT ![c] = m.page]
        /\ mailbox' = [mailbox EXCEPT ![c] = rest] /\ UNCHANGED << asks, stash >>
    BY <1>6, <2>1, <2>2 DEF ReceiveFetch, NextIs
  <2>4. m \in FetchMsg /\ m.page \in Nat \ {0} /\ mailbox[c] \in Seq(FetchMsg \cup DeliveryMsg)
    BY <2>1, <2>3, FirstTypes, ConsumerMessages DEF TypeOK
  <2>5. /\ requestor'[c] = m.page /\ mailbox'[c] = rest /\ stash'[c] = << >> /\ stash[c] = << >>
        /\ asks' = asks
    BY <1>2, <2>3 DEF TypeOK, Line
  <2>6. \A k \in Consumers \ {c} : Kept(k)
    BY <1>3, <2>3 DEF TypeOK
  <2>7. Grow(rest, FetchMsg) /\ Above(m.page, rest, FetchMsg)
    BY <1>2, <2>1, <2>2, <2>3, <2>4, OrderOfTail DEF Line
  <2>8. /\ m.page <= asks /\ HostOf[m.page] = c
        /\ \A n : Above(n, mailbox[c], FetchMsg) => n < m.page /\ Above(n, rest, FetchMsg)
        /\ \A i \in DOMAIN rest : \E j \in DOMAIN mailbox[c] : rest[i] = mailbox[c][j]
    <3>1. /\ 1 \in DOMAIN mailbox[c] /\ m = mailbox[c][1]
          /\ \A i \in DOMAIN rest : i + 1 \in DOMAIN mailbox[c] /\ rest[i] = mailbox[c][i + 1]
      BY <2>1, <2>2, <2>3, <2>4, QueueTail
    <3>2. QED
      BY <1>2, <2>4, <3>1 DEF Line, Above
  <2>9. DOMAIN << >> = {}
    OBVIOUS
  <2>10. \A n \in Nat : Reached(c, n) => Reached(c, n)'
    <3>1. \A n \in Nat : Reached(c, n) => n <= asks /\ n <= m.page /\ Above(n, rest, FetchMsg)
      BY <2>4, <2>8 DEF Reached
    <3>2. QED
      BY <2>5, <2>9, <3>1 DEF Reached, Above
  <2>11. Reached(c, m.page)'
    BY <2>4, <2>5, <2>7, <2>8, <2>9 DEF Reached, Above
  <2>12. \A i \in DOMAIN rest : rest[i] \in FetchMsg => rest[i].page <= asks /\ HostOf[rest[i].page] = c
    BY <1>2, <2>8 DEF Line
  <2>13. Kept(c)
    BY <2>4, <2>5, <2>7, <2>8, <2>9, <2>10, <2>11, <2>12 DEF Line, Reached, Grow
  <2>14. QED
    BY <2>6, <2>13
<1>7. ASSUME NEW c \in Consumers, StashFetch(c) PROVE \A k \in Consumers : Kept(k)
  <2>1. PICK m : m = Head(mailbox[c])
    OBVIOUS
  <2>2. PICK rest : rest = Tail(mailbox[c])
    OBVIOUS
  <2>3. /\ mailbox[c] # << >> /\ m.type = "Fetch" /\ requestor[c] # 0
        /\ stash' = [stash EXCEPT ![c] = Append(@, m)]
        /\ mailbox' = [mailbox EXCEPT ![c] = rest] /\ UNCHANGED << asks, requestor >>
    BY <1>7, <2>1, <2>2 DEF StashFetch, NextIs
  <2>4. m \in FetchMsg /\ m.page \in Nat \ {0} /\ mailbox[c] \in Seq(FetchMsg \cup DeliveryMsg)
    BY <2>1, <2>3, FirstTypes, ConsumerMessages DEF TypeOK
  <2>5. PICK q \in Seq(FetchMsg) : q = stash[c]
    BY DEF TypeOK
  <2>6. PICK more : more = Append(q, m)
    OBVIOUS
  <2>7. /\ requestor'[c] = requestor[c] /\ mailbox'[c] = rest /\ stash'[c] = more /\ asks' = asks
    BY <2>3, <2>5, <2>6 DEF TypeOK
  <2>8. \A k \in Consumers \ {c} : Kept(k)
    BY <1>3, <2>3 DEF TypeOK
  <2>9. Grow(rest, FetchMsg) /\ Above(m.page, rest, FetchMsg)
    BY <1>2, <2>1, <2>2, <2>3, <2>4, OrderOfTail DEF Line
  <2>10. /\ m.page <= asks /\ HostOf[m.page] = c
         /\ \A n : Above(n, mailbox[c], FetchMsg) => n < m.page /\ Above(n, rest, FetchMsg)
         /\ \A i \in DOMAIN rest : \E j \in DOMAIN mailbox[c] : rest[i] = mailbox[c][j]
    <3>1. /\ 1 \in DOMAIN mailbox[c] /\ m = mailbox[c][1]
          /\ \A i \in DOMAIN rest : i + 1 \in DOMAIN mailbox[c] /\ rest[i] = mailbox[c][i + 1]
      BY <2>1, <2>2, <2>3, <2>4, QueueTail
    <3>2. QED
      BY <1>2, <2>4, <3>1 DEF Line, Above
  <2>11. \A i \in DOMAIN q : q[i].page < m.page /\ Above(q[i].page, rest, FetchMsg)
    BY <1>2, <2>5, <2>10 DEF Line
  <2>12. Grow(more, FetchMsg)
    BY <1>2, <2>4, <2>5, <2>6, <2>11, OrderOfAppend DEF Line
  <2>13. \A n : Above(n, q, FetchMsg) /\ n < m.page => Above(n, more, FetchMsg)
    BY <2>4, <2>6, OrderOfAppend
  <2>14. \A i \in DOMAIN more :
            /\ Above(more[i].page, rest, FetchMsg)
            /\ more[i].page <= asks /\ HostOf[more[i].page] = c
    <3>1. \A i \in DOMAIN more : (\E j \in DOMAIN q : more[i] = q[j]) \/ more[i] = m
      BY <2>4, <2>6, QueueAppend
    <3>2. QED
      BY <1>2, <2>5, <2>9, <2>10, <2>11, <3>1 DEF Line
  <2>15. \A n \in Nat : Reached(c, n) => Reached(c, n)'
    <3>1. \A n \in Nat : Reached(c, n) =>
             /\ n <= asks /\ n <= requestor[c]
             /\ Above(n, rest, FetchMsg) /\ Above(n, more, FetchMsg)
      BY <2>3, <2>5, <2>10, <2>13 DEF Reached
    <3>2. QED
      BY <2>7, <3>1 DEF Reached
  <2>16. Reached(c, requestor[c])' /\ HostOf[requestor[c]] = c
    BY <1>2, <2>3, <2>15 DEF Line
  <2>17. \A i \in DOMAIN rest : rest[i] \in FetchMsg => rest[i].page <= asks /\ HostOf[rest[i].page] = c
    BY <1>2, <2>10 DEF Line
  <2>18. Kept(c)
    BY <2>3, <2>7, <2>9, <2>12, <2>14, <2>15, <2>16, <2>17 DEF Line, Reached
  <2>19. QED
    BY <2>8, <2>18
<1>8. ASSUME NEW c \in Consumers, ReceiveDelivery(c) PROVE \A k \in Consumers : Kept(k)
  <2>1. PICK rest : rest = Tail(mailbox[c])
    OBVIOUS
  <2>2. mailbox[c] # << >> /\ mailbox[c] \in Seq(FetchMsg \cup DeliveryMsg) /\ asks' = asks
    BY <1>8 DEF ReceiveDelivery, NextIs, TypeOK
  <2>3. /\ rest \in Seq(FetchMsg \cup DeliveryMsg) /\ Grow(rest, FetchMsg)
        /\ \A i \in DOMAIN rest : \E j \in DOMAIN mailbox[c] : rest[i] = mailbox[c][j]
        /\ \A n : Above(n, mailbox[c], FetchMsg) => Above(n, rest, FetchMsg)
    <3>1. \A i \in DOMAIN rest : i + 1 \in DOMAIN mailbox[c] /\ rest[i] = mailbox[c][i + 1]
      BY <2>1, <2>2, QueueTail
    <3>2. QED
      BY <1>2, <2>1, <2>2, <3>1, FirstTypes, OrderOfTail DEF Line
  <2>4. \A k \in Consumers \ {c} : Kept(k)
    <3>1. \A k \in Consumers \ {c} : /\ requestor'[k] = requestor[k]
                                     /\ mailbox'[k] = mailbox[k] /\ stash'[k] = stash[k]
      BY <1>8 DEF ReceiveDelivery, BecomeActive, TypeOK
    <3>2. QED
      BY <1>3, <2>2, <3>1
  <2>5. CASE requestor[c] # 0
    <3>1. BecomeActive(c, rest)
      BY <1>8, <2>1, <2>5 DEF ReceiveDelivery
    <3>2. Kept(c)
      BY <1>2, <2>2, <2>3, <2>5, <3>1, Unstashed
    <3>3. QED
      BY <2>4, <3>2
  <2>6. CASE requestor[c] = 0
    <3>1. mailbox'[c] = rest /\ requestor'[c] = 0 /\ stash'[c] = stash[c] /\ stash[c] = << >>
      BY <1>2, <1>8, <2>1, <2>6 DEF ReceiveDelivery, TypeOK, Line
    <3>2. DOMAIN << >> = {}
      OBVIOUS
    <3>3. \A n \in Nat : Reached(c, n) => Reached(c, n)'
      <4>1. \A n \in Nat : Reached(c, n) => Above(n, rest, FetchMsg)
        BY <2>3 DEF Reached
      <4>2. QED
        BY <2>2, <3>1, <3>2, <4>1 DEF Reached, Above
    <3>4. \A i \in DOMAIN rest : rest[i] \in FetchMsg => rest[i].page <= asks /\ HostOf[rest[i].page] = c
      BY <1>2, <2>3 DEF Line
    <3>5. Kept(c)
      BY <2>2, <2>3, <3>1, <3>2, <3>3, <3>4 DEF Line, Grow
    <3>6. QED
      BY <2>4, <3>5
  <2>7. QED
    BY <2>5, <2>6
<1>9. ASSUME NEW c \in Consumers, RequestTimeout(c) PROVE \A k \in Consumers : Kept(k)
  <2>1. /\ mailbox[c] \in Seq(FetchMsg \cup DeliveryMsg) /\ Grow(mailbox[c], FetchMsg)
        /\ asks' = asks /\ requestor[c] # 0 /\ BecomeActive(c, mailbox[c])
    BY <1>2, <1>9 DEF RequestTimeout, TypeOK, Line
  <2>2. \A k \in Consumers \ {c} : /\ requestor'[k] = requestor[k]
                                   /\ mailbox'[k] = mailbox[k] /\ stash'[k] = stash[k]
    BY <2>1 DEF BecomeActive, TypeOK
  <2>3. Kept(c)
    BY <1>2, <2>1, Unstashed
  <2>4. QED
    BY <1>3, <2>1, <2>2, <2>3
<1>10. ASSUME NEW c \in Consumers, Deliver(c) PROVE \A k \in Consumers : Kept(k)
  <2>1. PICK m : m = Delivery(Head(transit[c]))
    OBVIOUS
  <2>2. PICK q \in Seq(FetchMsg \cup DeliveryMsg) : q = mailbox[c]
    BY DEF TypeOK
  <2>3. PICK more : more = Append(q, m)
    OBVIOUS
  <2>4. m \in FetchMsg \cup DeliveryMsg /\ m \notin FetchMsg
    BY <1>10, <2>1, FirstTypes, ConsumerMessages DEF Deliver
  <2>5. /\ mailbox' = [mailbox EXCEPT ![c] = more] /\ UNCHANGED << asks, requestor, stash >>
    BY <1>10, <2>1, <2>2, <2>3 DEF Deliver
  <2>6. /\ mailbox'[c] = more /\ requestor'[c] = requestor[c] /\ stash'[c] = stash[c]
        /\ asks' = asks
    BY <2>5 DEF TypeOK
  <2>7. \A k \in Consumers \ {c} : Kept(k)
    BY <1>3, <2>5 DEF TypeOK
  <2>8. /\ Grow(more, FetchMsg) /\ \A n : Above(n, q, FetchMsg) => Above(n, more, FetchMsg)
    BY <1>2, <2>2, <2>3, <2>4, OrderOfAppend DEF Line
  <2>9. \A i \in DOMAIN more : more[i] \in FetchMsg => more[i].page <= asks /\ HostOf[more[i].page] = c
    <3>1. \A i \in DOMAIN more : (\E j \in DOMAIN q : more[i] = q[j]) \/ more[i] = m
      BY <2>3, <2>4, QueueAppend
    <3>2. QED
      BY <1>2, <2>2, <2>4, <3>1 DEF Line
  <2>10. \A n \in Nat : Reached(c, n) => Reached(c, n)'
    <3>1. \A n \in Nat : Reached(c, n) => Above(n, more, FetchMsg)
      BY <2>2, <2>8 DEF Reached
    <3>2. QED
      BY <2>6, <3>1 DEF Reached
  <2>11. requestor[c] # 0 => Reached(c, requestor[c])' /\ HostOf[requestor[c]] = c
    BY <1>2, <2>6, <2>10 DEF Line
  <2>12. \A i \in DOMAIN stash[c] : Above(stash[c][i].page, more, FetchMsg)
    BY <1>2, <2>2, <2>8 DEF Line
  <2>13. Kept(c)
    BY <1>2, <2>6, <2>8, <2>9, <2>10, <2>11, <2>12 DEF Line, Reached
  <2>14. QED
    BY <2>7, <2>13
<1>11. CASE \/ \E c \in Consumers : Die(c) \/ AskForNext(c) \/ Stopped(c) \/ Notice(c) \/ HandleRetry(c)
            \/ HandleFetch \/ HandleRequestNext \/ HandleTerminated \/ ContentsThrow \/ UNCHANGED vars
  <2>1. UNCHANGED << asks, requestor, mailbox, stash >>
    BY <1>11 DEF Die, AskForNext, Stopped, Notice, HandleRetry, HandleFetch, HandleRequestNext,
                 HandleTerminated, ContentsThrow, vars
  <2>2. QED
    BY <1>4, <2>1
<1>12. QED
  BY <1>5, <1>6, <1>7, <1>8, <1>9, <1>10, <1>11 DEF Next

-----------------------------------------------------------------------------
(* The requests and the responses of a consumer in their order.            *)

\* What a step of the index does with one consumer: nothing, or it forgets the retry and
\* may lose the responses; it retries the request of a page, or answers it.
Keeps(c) ==
    /\ sent'[c] = sent[c] /\ (retry'[c] = retry[c] \/ ~retry'[c].set)
    /\ transit'[c] = transit[c] \/ transit'[c] = << >>
Retries(c, p) ==
    /\ sent'[c] = sent[c] /\ transit'[c] = transit[c] /\ (retry'[c].set => retry'[c].page = p)
Answers(c, p) ==
    /\ sent'[c] = p /\ ~retry'[c].set
    /\ transit'[c] = transit[c] \/ transit'[c] = Append(transit[c], p)

\* The page is that of the request the index takes, or of the retry whose timer fires.
Turns(c, p) ==
    \/ retry[c].set /\ p = retry[c].page /\ inbox' = inbox
    \/ inbox # << >> /\ Head(inbox) \in Requests(c) /\ p = Head(inbox).page /\ inbox' = Tail(inbox)

\* Of two queues: the messages of one sort in the one are also in the other.
From(queue, old, sort) ==
    \A i \in DOMAIN queue : queue[i] \in sort => \E j \in DOMAIN old : queue[i] = old[j]

\* A step that brings the consumer no request and no delivery: the index may turn to one
\* of its requests.
Ordinary(c) ==
    /\ From(inbox', inbox, Requests(c)) /\ (Grow(inbox, Requests(c)) => Grow(inbox', Requests(c)))
    /\ From(mailbox'[c], mailbox[c], DeliveryMsg)
    /\ AtMostOne(mailbox[c], DeliveryMsg) => AtMostOne(mailbox'[c], DeliveryMsg)
    /\ Keeps(c) \/ \E p \in Pages : Turns(c, p) /\ (Retries(c, p) \/ Answers(c, p))

\* The first message is gone.
LEMMA FromTail ==
    ASSUME NEW S, NEW q \in Seq(S), q # << >>, NEW K
    PROVE  From(Tail(q), q, K) /\ (AtMostOne(q, K) => AtMostOne(Tail(q), K))
<1>1. /\ \A i \in DOMAIN Tail(q) : i + 1 \in DOMAIN q /\ Tail(q)[i] = q[i + 1]
      /\ DOMAIN Tail(q) = 1 .. Len(q) - 1 /\ Len(q) \in Nat
  BY QueueTail
<1>2. From(Tail(q), q, K)
  BY <1>1 DEF From
<1>3. ASSUME AtMostOne(q, K), NEW k \in DOMAIN Tail(q), NEW l \in DOMAIN Tail(q),
             Tail(q)[k] \in K, Tail(q)[l] \in K
      PROVE  k = l
  <2>1. k + 1 = l + 1
    BY <1>1, <1>3 DEF AtMostOne
  <2>2. QED
    BY <1>1, <2>1
<1>4. QED
  BY <1>2, <1>3 DEF AtMostOne

\* A message of another kind is put behind.
LEMMA FromAppend ==
    ASSUME NEW S, NEW q \in Seq(S), NEW x \in S, NEW K
    PROVE  /\ x \notin K => From(Append(q, x), q, K)
           /\ AtMostOne(q, K) /\ x \notin K => AtMostOne(Append(q, x), K)
<1>1. \A i \in DOMAIN Append(q, x) :
         (i \in DOMAIN q /\ Append(q, x)[i] = q[i]) \/ Append(q, x)[i] = x
  BY QueueAppend
<1>2. QED
  BY <1>1 DEF From, AtMostOne

\* Requests of pages are put before.
LEMMA FromConcat ==
    ASSUME NEW s \in Seq(FetchMsg), NEW q \in Seq(FetchMsg \cup DeliveryMsg)
    PROVE  From(s \o q, q, DeliveryMsg) /\ (AtMostOne(q, DeliveryMsg) => AtMostOne(s \o q, DeliveryMsg))
<1>1. s \in Seq(FetchMsg \cup DeliveryMsg)
  OBVIOUS
<1>2. /\ \A i \in DOMAIN s : (s \o q)[i] = s[i] /\ s[i] \notin DeliveryMsg
      /\ \A k \in DOMAIN (s \o q) :
            k \in DOMAIN s \/ (k - Len(s) \in DOMAIN q /\ (s \o q)[k] = q[k - Len(s)])
      /\ Len(s) \in Nat /\ DOMAIN q = 1 .. Len(q)
  <2>1. \A i \in DOMAIN s : s[i] \in FetchMsg
    OBVIOUS
  <2>2. QED
    BY <1>1, <2>1, QueueConcat, ConsumerMessages
<1>3. From(s \o q, q, DeliveryMsg)
  BY <1>2 DEF From
<1>4. ASSUME AtMostOne(q, DeliveryMsg), NEW k \in DOMAIN (s \o q), NEW l \in DOMAIN (s \o q),
             (s \o q)[k] \in DeliveryMsg, (s \o q)[l] \in DeliveryMsg
      PROVE  k = l
  <2>1. k - Len(s) = l - Len(s)
    BY <1>2, <1>4 DEF AtMostOne
  <2>2. k \in Nat /\ l \in Nat
    BY <1>1
  <2>3. QED
    BY <1>2, <2>1, <2>2
<1>5. QED
  BY <1>3, <1>4 DEF AtMostOne

\* What the index does with the request of a page.
LEMMA FetchKinds ==
    ASSUME TypeOK, NEW c \in Consumers, NEW p, NEW attempt, NEW rest,
           ReceiveFetchProducts(c, p, attempt, rest)
    PROVE  /\ inbox' = rest /\ \A k \in Consumers \ {c} : Keeps(k)
           /\ Keeps(c) \/ Retries(c, p) \/ Answers(c, p)
<1>1. CASE SendResponse(c, p) /\ inbox' = rest
  <2>1. \A k \in Consumers \ {c} : Keeps(k)
    BY <1>1 DEF TypeOK, SendResponse, Keeps
  <2>2. sent'[c] = p /\ ~retry'[c].set
    BY <1>1 DEF TypeOK, SendResponse, NoTimer
  <2>3. transit'[c] = transit[c] \/ transit'[c] = Append(transit[c], p)
    BY <1>1 DEF TypeOK, SendResponse
  <2>4. QED
    BY <1>1, <2>1, <2>2, <2>3 DEF Answers
<1>2. CASE /\ RetryRequest(c, p, attempt + 1) /\ inbox' = rest /\ UNCHANGED << transit, sent >>
  BY <1>2 DEF TypeOK, RetryRequest, NoTimer, Keeps, Retries
<1>3. CASE Restart(rest)
  BY <1>3 DEF Restart, NoTimer, Keeps
<1>4. QED
  BY <1>1, <1>2, <1>3 DEF ReceiveFetchProducts, controllerVars

\* Every step is of this kind for a consumer, or brings it a request or a delivery.
LEMMA StepKinds ==
    ASSUME TypeOK, [Next]_vars
    PROVE  \A k \in Consumers : ReceiveFetch(k) \/ Deliver(k) \/ Ordinary(k)
<1> USE DEF pageVars, consumerVars, controllerVars, indexVars, faultVars
<1>1. /\ inbox \in Seq(IndexMsg)
      /\ \A k \in Consumers : /\ mailbox[k] \in Seq(FetchMsg \cup DeliveryMsg)
                              /\ stash[k] \in Seq(FetchMsg)
  BY DEF TypeOK
<1>2. \A queue, sort : From(queue, queue, sort)
  BY DEF From
<1>3. ASSUME NEW k \in Consumers, inbox' = inbox, sent'[k] = sent[k], retry'[k] = retry[k],
             transit'[k] = transit[k], From(mailbox'[k], mailbox[k], DeliveryMsg),
             AtMostOne(mailbox[k], DeliveryMsg) => AtMostOne(mailbox'[k], DeliveryMsg)
      PROVE  Ordinary(k)
  BY <1>2, <1>3 DEF Ordinary, Keeps
<1>4. ASSUME NEW k \in Consumers, mailbox'[k] = mailbox[k],
             Keeps(k) \/ \E p \in Pages : Turns(k, p) /\ (Retries(k, p) \/ Answers(k, p)),
             From(inbox', inbox, Requests(k)),
             Grow(inbox, Requests(k)) => Grow(inbox', Requests(k))
      PROVE  Ordinary(k)
  BY <1>2, <1>4 DEF Ordinary
<1>5. ASSUME inbox # << >>
      PROVE  \A k \in Consumers : /\ From(Tail(inbox), inbox, Requests(k))
                                  /\ Grow(inbox, Requests(k)) => Grow(Tail(inbox), Requests(k))
  BY <1>1, <1>5, OrderOfTail, FromTail
<1>6. ASSUME NEW m \in IndexMsg, NEW k \in Consumers, m \notin Requests(k)
      PROVE  /\ From(Append(inbox, m), inbox, Requests(k))
             /\ Grow(inbox, Requests(k)) => Grow(Append(inbox, m), Requests(k))
  BY <1>1, <1>6, OrderOfAppend, FromAppend
<1>7. ASSUME NEW c \in Consumers, mailbox[c] # << >>
      PROVE  /\ From(Tail(mailbox[c]), mailbox[c], DeliveryMsg)
             /\ AtMostOne(mailbox[c], DeliveryMsg) => AtMostOne(Tail(mailbox[c]), DeliveryMsg)
  BY <1>1, <1>7, FromTail
<1>8. CASE AskForPage
  <2>1. PICK p \in Pages : p = asks + 1
    BY <1>8, Numbers DEF TypeOK, AskForPage
  <2>2. /\ mailbox' = [mailbox EXCEPT ![HostOf[p]] = Append(@, FetchAllProducts(p))]
        /\ UNCHANGED << inbox, sent, retry, transit >>
    BY <1>8, <2>1 DEF AskForPage
  <2>3. TAKE k \in Consumers
  <2>4. mailbox'[k] = mailbox[k] \/ mailbox'[k] = Append(mailbox[k], FetchAllProducts(p))
    BY <2>2 DEF TypeOK
  <2>5. FetchAllProducts(p) \in FetchMsg /\ FetchAllProducts(p) \notin DeliveryMsg
    BY ConsumerMessages
  <2>6. /\ From(mailbox'[k], mailbox[k], DeliveryMsg)
        /\ (AtMostOne(mailbox[k], DeliveryMsg) => AtMostOne(mailbox'[k], DeliveryMsg))
    <3>1. FetchAllProducts(p) \in FetchMsg \cup DeliveryMsg
      BY <2>5
    <3>2. /\ From(Append(mailbox[k], FetchAllProducts(p)), mailbox[k], DeliveryMsg)
          /\ AtMostOne(mailbox[k], DeliveryMsg)
                => AtMostOne(Append(mailbox[k], FetchAllProducts(p)), DeliveryMsg)
      BY <1>1, <2>5, <3>1, FromAppend
    <3>3. QED
      BY <1>2, <2>4, <3>2
  <2>7. QED
    BY <1>3, <2>2, <2>6
<1>9. ASSUME NEW c \in Consumers, ReceiveFetch(c), NEW k \in Consumers, k # c PROVE Ordinary(k)
  <2>1. PICK p \in Pages : p = Head(mailbox[c]).page
    BY <1>9, FirstTypes DEF ReceiveFetch, NextIs
  <2>2. /\ inbox' = inbox \/ inbox' = Append(inbox, FetchImpl(c, p))
        /\ mailbox'[k] = mailbox[k] /\ UNCHANGED << sent, retry, transit >>
    BY <1>9, <2>1 DEF TypeOK, ReceiveFetch, TellIndex
  <2>3. FetchImpl(c, p) \in IndexMsg /\ FetchImpl(c, p) \notin Requests(k)
    BY <1>9 DEF FetchImpl, IndexMsg, Requests
  <2>4. From(inbox', inbox, Requests(k)) /\ (Grow(inbox, Requests(k)) => Grow(inbox', Requests(k)))
    BY <1>2, <1>6, <2>2, <2>3
  <2>5. QED
    BY <1>4, <2>2, <2>4 DEF Keeps
<1>10. ASSUME NEW c \in Consumers, StashFetch(c) PROVE \A k \in Consumers : Ordinary(k)
  <2>1. /\ mailbox[c] # << >> /\ mailbox' = [mailbox EXCEPT ![c] = Tail(@)]
        /\ UNCHANGED << inbox, sent, retry, transit >>
    BY <1>10 DEF StashFetch, NextIs
  <2>2. TAKE k \in Consumers
  <2>3. mailbox'[k] = mailbox[k] \/ (k = c /\ mailbox'[k] = Tail(mailbox[k]))
    BY <2>1 DEF TypeOK
  <2>4. QED
    BY <1>2, <1>3, <1>7, <2>1, <2>3
<1>11. ASSUME NEW c \in Consumers, ReceiveDelivery(c) PROVE \A k \in Consumers : Ordinary(k)
  <2>1. mailbox[c] # << >> /\ UNCHANGED << inbox, sent, retry, transit >>
    BY <1>11 DEF ReceiveDelivery, NextIs
  <2>2. TAKE k \in Consumers
  <2>3. \/ mailbox'[k] = mailbox[k]
        \/ k = c /\ (mailbox'[k] = Tail(mailbox[k]) \/ mailbox'[k] = stash[k] \o Tail(mailbox[k]))
    <3>1. CASE mailbox' = [mailbox EXCEPT ![c] = Tail(@)]
      BY <3>1 DEF TypeOK
    <3>2. CASE mailbox' = [mailbox EXCEPT ![c] = stash[c] \o Tail(mailbox[c])]
      BY <3>2 DEF TypeOK
    <3>3. QED
      BY <1>11, <3>1, <3>2 DEF ReceiveDelivery, BecomeActive
  <2>4. CASE mailbox'[k] = mailbox[k]
    BY <1>2, <1>3, <2>1, <2>4
  <2>5. CASE k = c /\ (mailbox'[k] = Tail(mailbox[k]) \/ mailbox'[k] = stash[k] \o Tail(mailbox[k]))
    <3>1. PICK rest \in Seq(FetchMsg \cup DeliveryMsg) : rest = Tail(mailbox[k])
      BY <2>1, <2>5, FirstTypes
    <3>2. /\ From(rest, mailbox[k], DeliveryMsg)
          /\ (AtMostOne(mailbox[k], DeliveryMsg) => AtMostOne(rest, DeliveryMsg))
      BY <1>7, <2>1, <2>5, <3>1
    <3>3. /\ From(stash[k] \o rest, rest, DeliveryMsg)
          /\ (AtMostOne(rest, DeliveryMsg) => AtMostOne(stash[k] \o rest, DeliveryMsg))
      BY <1>1, <3>1, FromConcat
    <3>4. From(stash[k] \o rest, mailbox[k], DeliveryMsg)
      BY <3>2, <3>3 DEF From
    <3>5. QED
      BY <1>3, <2>1, <2>5, <3>1, <3>2, <3>3, <3>4
  <2>6. QED
    BY <2>3, <2>4, <2>5
<1>12. ASSUME NEW c \in Consumers, RequestTimeout(c) PROVE \A k \in Consumers : Ordinary(k)
  <2>1. UNCHANGED << inbox, sent, retry, transit >>
    BY <1>12 DEF RequestTimeout
  <2>2. TAKE k \in Consumers
  <2>3. mailbox'[k] = mailbox[k] \/ mailbox'[k] = stash[k] \o mailbox[k]
    BY <1>12 DEF TypeOK, RequestTimeout, BecomeActive
  <2>4. /\ From(mailbox'[k], mailbox[k], DeliveryMsg)
        /\ (AtMostOne(mailbox[k], DeliveryMsg) => AtMostOne(mailbox'[k], DeliveryMsg))
    BY <1>1, <1>2, <2>3, FromConcat
  <2>5. QED
    BY <1>3, <2>1, <2>4
<1>13. ASSUME NEW c \in Consumers, Deliver(c), NEW k \in Consumers, k # c PROVE Ordinary(k)
  <2>1. mailbox'[k] = mailbox[k] /\ transit'[k] = transit[k] /\ UNCHANGED << inbox, sent, retry >>
    BY <1>13 DEF TypeOK, Deliver
  <2>2. QED
    BY <1>2, <1>3, <2>1
<1>14. CASE UNCHANGED << mailbox, inbox, sent, retry, transit >>
  BY <1>2, <1>3, <1>14
<1>15. ASSUME NEW c \in Consumers, AskForNext(c) \/ Notice(c) PROVE \A k \in Consumers : Ordinary(k)
  <2>1. UNCHANGED << mailbox, sent, retry, transit >>
    BY <1>15 DEF AskForNext, Notice
  <2>2. PICK m \in IndexMsg : inbox' = Append(inbox, m) /\ \A k \in Consumers : m \notin Requests(k)
    BY <1>15 DEF AskForNext, Notice, RequestNext, Terminated, IndexMsg, Requests
  <2>3. QED
    BY <1>4, <1>6, <2>1, <2>2 DEF Keeps
<1>16. ASSUME NEW c \in Consumers, HandleRetry(c) PROVE \A k \in Consumers : Ordinary(k)
  <2>1. retry[c].set /\ mailbox' = mailbox
    BY <1>16 DEF HandleRetry
  <2>2. PICK p \in Pages : p = retry[c].page
    <3>1. ~NoTimer.set
      BY DEF NoTimer
    <3>2. retry[c] \in [set : {TRUE}, page : Pages, attempt : 2 .. MaxAttempts]
      BY <2>1, <3>1 DEF TypeOK
    <3>3. QED
      BY <3>2
  <2>3. ReceiveFetchProducts(c, p, retry[c].attempt, inbox)
    BY <1>16, <2>2 DEF HandleRetry
  <2>4. /\ inbox' = inbox /\ \A k \in Consumers \ {c} : Keeps(k)
        /\ Keeps(c) \/ Retries(c, p) \/ Answers(c, p)
    BY <2>3, FetchKinds
  <2>5. Turns(c, p)
    BY <2>1, <2>2, <2>4 DEF Turns
  <2>6. QED
    BY <1>2, <1>4, <2>1, <2>4, <2>5
<1>17. CASE HandleFetch
  <2>1. inbox # << >> /\ Head(inbox).type = "Fetch" /\ mailbox' = mailbox
    BY <1>17 DEF HandleFetch, InboxIs
  <2>2. PICK m \in IndexMsg : m = Head(inbox)
    BY <2>1, FirstTypes
  <2>3. PICK c \in Consumers, p \in Pages : c = m.from /\ p = m.page
    BY <2>1, <2>2 DEF IndexMsg
  <2>4. m \in Requests(c)
    BY <2>1, <2>2, <2>3 DEF IndexMsg, Requests
  <2>5. ReceiveFetchProducts(c, p, 1, Tail(inbox))
    BY <1>17, <2>2, <2>3 DEF HandleFetch
  <2>6. /\ inbox' = Tail(inbox) /\ \A k \in Consumers \ {c} : Keeps(k)
        /\ Keeps(c) \/ Retries(c, p) \/ Answers(c, p)
    BY <2>5, FetchKinds
  <2>7. Turns(c, p)
    BY <2>1, <2>2, <2>3, <2>4, <2>6 DEF Turns
  <2>8. QED
    BY <1>4, <1>5, <2>1, <2>6, <2>7
<1>18. CASE HandleRequestNext \/ HandleTerminated
  <2>1. inbox # << >> /\ mailbox' = mailbox
    BY <1>18 DEF HandleRequestNext, HandleTerminated, InboxIs
  <2>2. inbox' = Tail(inbox) /\ \A k \in Consumers : Keeps(k)
    BY <1>18 DEF HandleRequestNext, HandleTerminated, Restart, Keeps, NoTimer
  <2>3. QED
    BY <1>4, <1>5, <2>1, <2>2
<1>19. CASE ContentsThrow
  <2>1. inbox' = inbox /\ mailbox' = mailbox /\ \A k \in Consumers : Keeps(k)
    BY <1>19 DEF ContentsThrow, Restart, Keeps, NoTimer
  <2>2. QED
    BY <1>2, <1>4, <2>1
<1>20. CASE UNCHANGED vars \/ \E c \in Consumers : Die(c) \/ Stopped(c)
  <2>1. UNCHANGED << mailbox, inbox, sent, retry, transit >>
    BY <1>20 DEF vars, Die, Stopped
  <2>2. QED
    BY <1>14, <2>1
<1>21. QED
  BY <1>8, <1>9, <1>10, <1>11, <1>12, <1>13, <1>15, <1>16, <1>17, <1>18, <1>19, <1>20 DEF Next

\* Of a consumer in the next state.
LEMMA MadeNext ==
    ASSUME TypeOK', NEW c \in Consumers,
           \A n \in Nat :
              \/ n = sent'[c]
              \/ retry'[c].set /\ n = retry'[c].page
              \/ \E i \in DOMAIN inbox' : inbox'[i] \in Requests(c) /\ n = inbox'[i].page
              => Reached(c, n)'
    PROVE  Made(c)'
<1>1. sent'[c] \in Nat /\ \A m \in Requests(c) : m.page \in Nat
  BY Numbers DEF TypeOK, Requests
<1>2. retry'[c].set => retry'[c].page \in Nat
  <2>1. ~NoTimer.set
    BY DEF NoTimer
  <2>2. \A r \in [set : {TRUE}, page : Pages, attempt : 2 .. MaxAttempts] : r.page \in Nat
    BY Numbers
  <2>3. retry'[c] = NoTimer \/ retry'[c] \in [set : {TRUE}, page : Pages, attempt : 2 .. MaxAttempts]
    BY DEF TypeOK
  <2>4. QED
    BY <2>1, <2>2, <2>3
<1>3. QED
  BY <1>1, <1>2 DEF Made, Reached

\* A page that the index turns to comes after those it has answered.
LEMMA TurnsInOrder ==
    ASSUME TypeOK, NEW c \in Consumers, Chain(c), Made(c), NEW p \in Pages, Turns(c, p)
    PROVE  sent[c] < p /\ Above(p, inbox', Requests(c)) /\ Reached(c, p)
<1>1. CASE retry[c].set /\ p = retry[c].page /\ inbox' = inbox
  BY <1>1 DEF Chain, Made
<1>2. CASE inbox # << >> /\ Head(inbox) \in Requests(c) /\ p = Head(inbox).page /\ inbox' = Tail(inbox)
  <2>1. inbox \in Seq(IndexMsg)
    BY DEF TypeOK
  <2>2. 1 \in DOMAIN inbox /\ inbox[1] = Head(inbox)
    BY <1>2, <2>1, QueueTail
  <2>3. sent[c] < p /\ Reached(c, p)
    BY <1>2, <2>2 DEF Chain, Made, Above
  <2>4. Above(p, Tail(inbox), Requests(c))
    BY <1>2, <2>1, OrderOfTail DEF Chain
  <2>5. QED
    BY <1>2, <2>3, <2>4
<1>3. QED
  BY <1>1, <1>2 DEF Turns

\* An ordinary step keeps the chain.
LEMMA ChainKept ==
    ASSUME TypeOK, TypeOK', NEW c \in Consumers, Chain(c), Made(c), Ordinary(c),
           \A n \in Nat : Reached(c, n) => Reached(c, n)'
    PROVE  Chain(c)' /\ Made(c)'
<1>0. /\ Grow(inbox', Requests(c)) /\ From(inbox', inbox, Requests(c))
      /\ AtMostOne(mailbox'[c], DeliveryMsg) /\ From(mailbox'[c], mailbox[c], DeliveryMsg)
  BY DEF Ordinary, Chain
<1>1. sent[c] \in Nat /\ sent'[c] \in Nat /\ \A m \in Requests(c) : m.page \in Nat
  BY Numbers DEF TypeOK, Requests
<1>2. /\ transit[c] \in Seq(Nat) /\ transit'[c] \in Seq(Nat)
      /\ \A i \in DOMAIN transit[c] : transit[c][i] \in Nat
  <2>1. transit[c] \in Seq(Pages) /\ transit'[c] \in Seq(Pages)
    BY DEF TypeOK
  <2>2. QED
    BY <2>1, Numbers
<1>3. \A n : Above(n, inbox, Requests(c)) => Above(n, inbox', Requests(c))
  BY <1>0 DEF From, Above
<1>4. \A n \in Nat :
         (\E i \in DOMAIN inbox' : inbox'[i] \in Requests(c) /\ n = inbox'[i].page)
            => Reached(c, n)'
  <2>1. \A i \in DOMAIN inbox' : inbox'[i] \in Requests(c)
           => \E j \in DOMAIN inbox : inbox[j] \in Requests(c) /\ inbox'[i] = inbox[j]
    BY <1>0 DEF From
  <2>2. \A j \in DOMAIN inbox : inbox[j] \in Requests(c) => Reached(c, inbox[j].page)
    BY DEF Made
  <2>3. QED
    BY <2>1, <2>2
<1>5. \A n : /\ \A k \in DOMAIN mailbox[c] : mailbox[c][k] \in DeliveryMsg => mailbox[c][k].page <= n
             => \A k \in DOMAIN mailbox'[c] : mailbox'[c][k] \in DeliveryMsg => mailbox'[c][k].page <= n
  BY <1>0 DEF From
<1>6. \A k \in DOMAIN mailbox'[c] : mailbox'[c][k] \in DeliveryMsg =>
         /\ mailbox'[c][k].page <= sent[c] /\ mailbox'[c][k].page \in Nat
         /\ \A i \in DOMAIN transit[c] : mailbox'[c][k].page < transit[c][i]
  BY <1>0, ConsumerMessages DEF From, Chain
<1>7. DOMAIN << >> = {}
  OBVIOUS
<1>8. CASE Keeps(c)
  <2>1. retry'[c].set => retry'[c] = retry[c]
    BY <1>8 DEF Keeps
  <2>2. \A n \in Nat : n = sent'[c] \/ (retry'[c].set /\ n = retry'[c].page) => Reached(c, n)'
    BY <1>8, <2>1 DEF Made, Keeps
  <2>3. Made(c)'
    BY <1>4, <2>2, MadeNext
  <2>4. /\ Above(sent[c], inbox', Requests(c))
        /\ retry'[c].set => sent[c] < retry'[c].page /\ Above(retry'[c].page, inbox', Requests(c))
    BY <1>3, <2>1 DEF Chain
  <2>5. /\ \A i, j \in DOMAIN transit'[c] : i < j => transit'[c][i] < transit'[c][j]
        /\ \A i \in DOMAIN transit'[c] : transit'[c][i] <= sent[c]
        /\ \A k \in DOMAIN mailbox'[c] : mailbox'[c][k] \in DeliveryMsg =>
              \A i \in DOMAIN transit'[c] : mailbox'[c][k].page < transit'[c][i]
    BY <1>6, <1>7, <1>8 DEF Keeps, Chain
  <2>6. sent'[c] = sent[c]
    BY <1>8 DEF Keeps
  <2>7. QED
    BY <1>0, <1>6, <2>3, <2>4, <2>5, <2>6 DEF Chain
<1>9. ASSUME NEW p \in Nat, sent[c] < p, Above(p, inbox', Requests(c)), Reached(c, p), Retries(c, p)
      PROVE  Chain(c)' /\ Made(c)'
  <2>1. /\ sent'[c] = sent[c] /\ transit'[c] = transit[c]
        /\ retry'[c].set => retry'[c].page = p
    BY <1>9 DEF Retries
  <2>2. \A n \in Nat : n = sent'[c] \/ (retry'[c].set /\ n = retry'[c].page) => Reached(c, n)'
    BY <1>9, <2>1 DEF Made
  <2>3. Made(c)'
    BY <1>4, <2>2, MadeNext
  <2>4. Above(sent[c], inbox', Requests(c))
    BY <1>3 DEF Chain
  <2>5. QED
    BY <1>0, <1>6, <1>9, <2>1, <2>3, <2>4 DEF Chain
<1>10. ASSUME NEW p \in Nat, sent[c] < p, Above(p, inbox', Requests(c)), Reached(c, p), Answers(c, p)
       PROVE  Chain(c)' /\ Made(c)'
  <2>1. /\ sent'[c] = p /\ ~retry'[c].set
        /\ transit'[c] = transit[c] \/ transit'[c] = Append(transit[c], p)
    BY <1>10 DEF Answers
  <2>2. Made(c)'
    <3>1. \A n \in Nat : n = sent'[c] \/ (retry'[c].set /\ n = retry'[c].page) => Reached(c, n)'
      BY <1>10, <2>1
    <3>2. QED
      BY <1>4, <3>1, MadeNext
  <2>3. PICK s \in Seq(Nat) : s = transit[c]
    BY <1>2
  <2>4. /\ DOMAIN s = 1 .. Len(s) /\ Len(s) \in Nat
        /\ \A i \in DOMAIN s : s[i] \in Nat /\ s[i] < p /\ s[i] <= p
        /\ \A i, j \in DOMAIN s : i < j => s[i] < s[j]
    BY <1>1, <1>2, <1>10, <2>3 DEF Chain
  <2>5. \A k \in DOMAIN mailbox'[c] : mailbox'[c][k] \in DeliveryMsg =>
           /\ mailbox'[c][k].page < p /\ mailbox'[c][k].page <= p
           /\ \A i \in DOMAIN s : mailbox'[c][k].page < s[i]
    BY <1>1, <1>6, <1>10, <2>3
  <2>6. PICK t : t = transit'[c]
    OBVIOUS
  <2>7. \A i \in DOMAIN t : (i \in DOMAIN s /\ t[i] = s[i]) \/ (i = Len(s) + 1 /\ t[i] = p)
    <3>1. t = s \/ t = Append(s, p)
      BY <2>1, <2>3, <2>6
    <3>2. CASE t = s
      BY <3>2
    <3>3. CASE t = Append(s, p)
      BY <1>10, <3>3, QueueAppend
    <3>4. QED
      BY <3>1, <3>2, <3>3
  <2>8. /\ \A i, j \in DOMAIN t : i < j => t[i] < t[j]
        /\ \A i \in DOMAIN t : t[i] <= p
        /\ \A k \in DOMAIN mailbox'[c] : mailbox'[c][k] \in DeliveryMsg =>
              \A i \in DOMAIN t : mailbox'[c][k].page < t[i]
    BY <1>10, <2>4, <2>5, <2>7
  <2>9. QED
    BY <1>0, <1>10, <2>1, <2>2, <2>5, <2>6, <2>8 DEF Chain
<1>11. QED
  <2>1. Pages \subseteq Nat
    BY Numbers
  <2>2. QED
    BY <1>8, <1>9, <1>10, <2>1, TurnsInOrder DEF Ordinary

\* Every step keeps the chains, and makes no request ahead of its page.
LEMMA ChainStep ==
    ASSUME TypeOK, TypeOK', LineInv, LineInv', ChainInv, MadeInv, [Next]_vars,
           \A c \in Consumers, p \in Nat : Reached(c, p) => Reached(c, p)'
    PROVE  ChainInv' /\ MadeInv'
<1> USE DEF pageVars, consumerVars, controllerVars, indexVars, faultVars
<1>1. SUFFICES ASSUME NEW c \in Consumers PROVE Chain(c)' /\ Made(c)'
  BY DEF ChainInv, MadeInv
<1>2. /\ Chain(c) /\ Made(c) /\ Grow(inbox, Requests(c)) /\ AtMostOne(mailbox[c], DeliveryMsg)
      /\ mailbox[c] \in Seq(FetchMsg \cup DeliveryMsg)
  BY DEF ChainInv, MadeInv, Chain, TypeOK
<1>3. inbox \in Seq(IndexMsg)
  BY DEF TypeOK
<1>4. CASE Ordinary(c)
  BY <1>2, <1>4, ChainKept
<1>5. CASE ReceiveFetch(c)
  <2>1. mailbox[c] # << >> /\ Head(mailbox[c]).type = "Fetch"
    BY <1>5 DEF ReceiveFetch, NextIs
  <2>2. PICK m \in FetchMsg : m = Head(mailbox[c])
    BY <2>1, FirstTypes
  <2>3. PICK p \in Pages : p = m.page
    BY ConsumerMessages
  <2>4. /\ TellIndex(FetchImpl(c, p)) /\ requestor' = [requestor EXCEPT ![c] = p]
        /\ mailbox' = [mailbox EXCEPT ![c] = Tail(@)]
        /\ UNCHANGED << sent, retry, transit >>
    BY <1>5, <2>2, <2>3 DEF ReceiveFetch
  <2>5. AtMostOne(mailbox'[c], DeliveryMsg) /\ From(mailbox'[c], mailbox[c], DeliveryMsg)
    BY <1>2, <2>1, <2>4, FromTail DEF TypeOK
  <2>6. CASE inbox' = inbox
    <3>1. Ordinary(c)
      BY <2>4, <2>5, <2>6 DEF Ordinary, Keeps, From
    <3>2. QED
      BY <1>4, <3>1
  <2>7. CASE inbox' = Append(inbox, FetchImpl(c, p))
    <3>1. PICK r \in IndexMsg : r = FetchImpl(c, p)
      BY DEF FetchImpl, IndexMsg
    <3>2. r \in Requests(c) /\ r.page = p
      BY <3>1 DEF FetchImpl, Requests
    <3>3. \A n \in Nat : Reached(c, n) => n < p
      <4>1. 1 \in DOMAIN mailbox[c] /\ mailbox[c][1] = m
        BY <1>2, <2>1, <2>2, QueueTail
      <4>2. QED
        BY <2>3, <4>1 DEF Reached, Above
    <3>4. \A i \in DOMAIN inbox : inbox[i] \in Requests(c) => inbox[i].page < p
      <4>1. \A q \in Requests(c) : q.page \in Nat
        BY Numbers DEF Requests
      <4>2. QED
        BY <1>2, <3>3, <4>1 DEF Made
    <3>5. sent[c] < p /\ (retry[c].set => retry[c].page < p)
      <4>1. sent[c] \in Nat
        BY Numbers DEF TypeOK
      <4>2. retry[c].set => retry[c].page \in Nat
        <5>1. \A t \in [set : {TRUE}, page : Pages, attempt : 2 .. MaxAttempts] : t.page \in Nat
          BY Numbers
        <5>2. ~NoTimer.set
          BY DEF NoTimer
        <5>3. QED
          BY <5>1, <5>2 DEF TypeOK
      <4>3. QED
        BY <1>2, <3>3, <4>1, <4>2 DEF Made
    <3>6. PICK more : more = Append(inbox, r)
      OBVIOUS
    <3>7. Grow(more, Requests(c))
      BY <1>2, <1>3, <3>2, <3>4, <3>6, OrderOfAppend
    <3>8. \A n : Above(n, inbox, Requests(c)) /\ n < p => Above(n, more, Requests(c))
      BY <1>3, <3>2, <3>6, OrderOfAppend
    <3>9. /\ Above(sent[c], more, Requests(c))
          /\ retry[c].set => sent[c] < retry[c].page /\ Above(retry[c].page, more, Requests(c))
      BY <1>2, <3>5, <3>8 DEF Chain
    <3>10. \A i \in DOMAIN more : more[i] = r \/ \E j \in DOMAIN inbox : more[i] = inbox[j]
      BY <1>3, <3>6, QueueAppend
    <3>11. /\ \A k \in DOMAIN mailbox'[c] : mailbox'[c][k] \in DeliveryMsg =>
                 /\ mailbox'[c][k].page <= sent[c]
                 /\ \A i \in DOMAIN transit[c] : mailbox'[c][k].page < transit[c][i]
      BY <1>2, <2>5 DEF Chain, From
    <3>12. Chain(c)'
      <4>1. /\ inbox' = more /\ sent'[c] = sent[c] /\ retry'[c] = retry[c] /\ transit'[c] = transit[c]
        BY <2>4, <2>7, <3>1, <3>6
      <4>2. /\ \A i, j \in DOMAIN transit[c] : i < j => transit[c][i] < transit[c][j]
            /\ \A i \in DOMAIN transit[c] : transit[c][i] <= sent[c]
        BY <1>2 DEF Chain
      <4>3. QED
        BY <2>5, <3>7, <3>9, <3>11, <4>1, <4>2 DEF Chain
    <3>13. Made(c)'
      <4>1. Reached(c, p)'
        <5>1. requestor'[c] = p /\ p # 0
          BY <2>4, Numbers DEF TypeOK
        <5>2. requestor'[c] # 0 => Reached(c, requestor[c])'
          BY DEF LineInv, Line
        <5>3. QED
          BY <5>1, <5>2
      <4>2. \A n \in Nat : n = sent'[c] \/ (retry'[c].set /\ n = retry'[c].page) => Reached(c, n)'
        BY <1>2, <2>4 DEF Made
      <4>3. \A n \in Nat : (\E i \in DOMAIN inbox' : inbox'[i] \in Requests(c) /\ n = inbox'[i].page)
                              => Reached(c, n)'
        <5>1. inbox' = more
          BY <2>7, <3>1, <3>6
        <5>2. \A i \in DOMAIN inbox : inbox[i] \in Requests(c) => Reached(c, inbox[i].page)
          BY <1>2 DEF Made
        <5>3. QED
          BY <3>2, <3>10, <4>1, <5>1, <5>2
      <4>4. QED
        BY <4>2, <4>3, MadeNext
    <3>14. QED
      BY <3>12, <3>13
  <2>8. QED
    BY <2>4, <2>6, <2>7 DEF TellIndex
<1>6. CASE Deliver(c)
  <2>1. PICK s \in Seq(Nat) : s = transit[c]
    <3>1. transit[c] \in Seq(Pages)
      BY DEF TypeOK
    <3>2. QED
      BY <3>1, Numbers
  <2>2. PICK m : m = Delivery(Head(s))
    OBVIOUS
  <2>3. /\ s # << >> /\ mailbox' = [mailbox EXCEPT ![c] = Append(@, m)]
        /\ transit' = [transit EXCEPT ![c] = Tail(s)]
        /\ \A i \in DOMAIN mailbox[c] : mailbox[c][i].type # "Delivery"
        /\ UNCHANGED << inbox, sent, retry >>
    BY <1>6, <2>1, <2>2 DEF Deliver
  <2>4. /\ m \in DeliveryMsg /\ m \in FetchMsg \cup DeliveryMsg /\ m.page = Head(s)
        /\ \A i \in DOMAIN mailbox[c] : mailbox[c][i] \notin DeliveryMsg
    <3>1. m \in DeliveryMsg /\ m.page = Head(s)
      BY <2>1, <2>2, <2>3, FirstTypes, ConsumerMessages
    <3>2. \A x \in DeliveryMsg : x.type = "Delivery"
      BY DEF DeliveryMsg
    <3>3. QED
      BY <2>3, <3>1, <3>2
  <2>5. PICK t : t = Tail(s)
    OBVIOUS
  <2>6. PICK more : more = Append(mailbox[c], m)
    OBVIOUS
  <2>7. mailbox'[c] = more /\ transit'[c] = t
    BY <2>1, <2>3, <2>5, <2>6 DEF TypeOK
  <2>8. /\ 1 \in DOMAIN s /\ Head(s) = s[1] /\ DOMAIN t = 1 .. Len(s) - 1 /\ Len(s) \in Nat
        /\ \A i \in DOMAIN t : i + 1 \in DOMAIN s /\ t[i] = s[i + 1] /\ i \in Nat \ {0}
    BY <2>3, <2>5, QueueTail
  <2>9. /\ \A i \in DOMAIN more : more[i] \in DeliveryMsg => i = Len(mailbox[c]) + 1 /\ more[i] = m
    BY <1>2, <2>4, <2>6, QueueAppend
  <2>10. /\ \A i, j \in DOMAIN s : i < j => s[i] < s[j]
         /\ \A i \in DOMAIN s : s[i] <= sent[c]
    BY <1>2, <2>1 DEF Chain
  <2>11. /\ \A i, j \in DOMAIN t : i < j => t[i] < t[j]
         /\ \A i \in DOMAIN t : t[i] <= sent[c] /\ m.page < t[i]
         /\ m.page <= sent[c]
    <3>1. \A i, j \in DOMAIN t : 1 < i + 1 /\ (i < j => i + 1 < j + 1)
      BY <2>8
    <3>2. QED
      BY <2>4, <2>8, <2>10, <3>1
  <2>12. Chain(c)'
    <3>1. /\ Grow(inbox, Requests(c)) /\ Above(sent[c], inbox, Requests(c))
          /\ retry[c].set => sent[c] < retry[c].page /\ Above(retry[c].page, inbox, Requests(c))
      BY <1>2 DEF Chain
    <3>2. AtMostOne(more, DeliveryMsg)
      BY <2>9 DEF AtMostOne
    <3>3. inbox' = inbox /\ sent'[c] = sent[c] /\ retry'[c] = retry[c]
      BY <2>3
    <3>4. QED
      BY <2>7, <2>9, <2>11, <3>1, <3>2, <3>3 DEF Chain
  <2>13. Made(c)'
    <3>1. \A n \in Nat : n = sent'[c] \/ (retry'[c].set /\ n = retry'[c].page) => Reached(c, n)'
      BY <1>2, <2>3 DEF Made
    <3>2. \A n \in Nat : (\E i \in DOMAIN inbox' : inbox'[i] \in Requests(c) /\ n = inbox'[i].page)
                            => Reached(c, n)'
      BY <1>2, <2>3 DEF Made
    <3>3. QED
      BY <3>1, <3>2, MadeNext
  <2>14. QED
    BY <2>12, <2>13
<1>7. QED
  BY <1>4, <1>5, <1>6, StepKinds

-----------------------------------------------------------------------------
(* Only a timeout shifts the answers.                                      *)

\* A page that has timed out stays so, and is passed.
LEMMA TimeoutsStay ==
    ASSUME TypeOK, TypeOK', LineInv, PunctualInv, [Next]_vars, NEW c \in Consumers,
           \A p \in Nat : Reached(c, p) => Reached(c, p)'
    PROVE  Timeouts(c) \subseteq Timeouts(c)' /\ \A q \in Timeouts(c)' : Passed(c, q)'
<1> USE DEF pageVars, consumerVars, controllerVars, indexVars, faultVars
<1>1. /\ Line(c) /\ \A k \in Consumers : requestor[k] # 0 => HostOf[requestor[k]] = k
      /\ \A k \in Consumers : \A q \in Timeouts(k) : Passed(k, q)
      /\ \A k \in Consumers : \A q \in Timeouts(k) : q \in Pages /\ q \in Nat \ {0}
  <2>1. \A k \in Consumers : \A q \in Timeouts(k) : q \in Pages /\ q \in Nat \ {0}
    BY Numbers DEF Timeouts
  <2>2. QED
    BY <2>1 DEF LineInv, Line, PunctualInv, Punctual
<1>2. \A q \in Timeouts(c) : q # asks + 1 /\ q # requestor[c]
  <2>1. asks \in Nat
    BY Numbers DEF TypeOK
  <2>2. \A q \in Timeouts(c) : q <= asks /\ q # requestor[c]
    BY <1>1 DEF Passed, Reached
  <2>3. QED
    BY <1>1, <2>1, <2>2
<1>3. ASSUME requestor'[c] = requestor[c] \/ requestor'[c] = 0 \/
                (ReceiveFetch(c) /\ requestor'[c] = Head(mailbox[c]).page)
      PROVE  \A q \in Timeouts(c) : Passed(c, q)'
  <2>1. ASSUME NEW q \in Timeouts(c) PROVE Passed(c, q)'
    <3>1. Reached(c, q) /\ Reached(c, q)' /\ q # requestor[c] /\ q # 0
      BY <1>1 DEF Passed
    <3>2. ASSUME ReceiveFetch(c) PROVE q # Head(mailbox[c]).page
      <4>1. /\ mailbox[c] # << >> /\ Head(mailbox[c]).type = "Fetch"
            /\ mailbox[c] \in Seq(FetchMsg \cup DeliveryMsg)
        BY <3>2 DEF ReceiveFetch, NextIs, TypeOK
      <4>2. 1 \in DOMAIN mailbox[c] /\ mailbox[c][1] = Head(mailbox[c]) /\ Head(mailbox[c]) \in FetchMsg
        BY <4>1, QueueTail, FirstTypes
      <4>3. q < Head(mailbox[c]).page
        BY <3>1, <4>2 DEF Reached, Above
      <4>4. QED
        BY <1>1, <4>2, <4>3, ConsumerMessages
    <3>3. q # requestor'[c]
      BY <1>3, <3>1, <3>2
    <3>4. QED
      BY <3>1, <3>3 DEF Passed
  <2>2. QED
    BY <2>1
<1>4. ASSUME outcome' = outcome, requestor'[c] = requestor[c] \/ requestor'[c] = 0 \/
                (ReceiveFetch(c) /\ requestor'[c] = Head(mailbox[c]).page)
      PROVE  Timeouts(c) \subseteq Timeouts(c)' /\ \A q \in Timeouts(c)' : Passed(c, q)'
  <2>1. Timeouts(c)' = Timeouts(c)
    BY <1>4 DEF Timeouts
  <2>2. QED
    BY <1>3, <1>4, <2>1
<1>5. CASE AskForPage
  <2>1. Timeouts(c)' = Timeouts(c)
    BY <1>2, <1>5 DEF TypeOK, AskForPage, Timeouts
  <2>2. requestor'[c] = requestor[c]
    BY <1>5 DEF AskForPage
  <2>3. QED
    BY <1>3, <2>1, <2>2
<1>6. ASSUME NEW k \in Consumers, ReceiveDelivery(k)
      PROVE  Timeouts(c) \subseteq Timeouts(c)' /\ \A q \in Timeouts(c)' : Passed(c, q)'
  <2>1. CASE outcome' = outcome /\ requestor' = requestor
    BY <1>4, <2>1
  <2>2. CASE /\ requestor[k] # 0 /\ outcome' = [outcome EXCEPT ![requestor[k]] = "answered"]
             /\ requestor' = [requestor EXCEPT ![k] = 0]
    <3>1. requestor[k] \notin Timeouts(c)
      <4>1. HostOf[requestor[k]] = k
        BY <1>1, <2>2
      <4>2. QED
        BY <1>2, <4>1 DEF Timeouts
    <3>2. Timeouts(c)' = Timeouts(c)
      BY <2>2, <3>1 DEF TypeOK, Timeouts
    <3>3. requestor'[c] = requestor[c] \/ requestor'[c] = 0
      BY <2>2 DEF TypeOK
    <3>4. QED
      BY <1>3, <3>2, <3>3
  <2>3. QED
    BY <1>6, <2>1, <2>2 DEF ReceiveDelivery, BecomeActive
<1>7. ASSUME NEW k \in Consumers, RequestTimeout(k)
      PROVE  Timeouts(c) \subseteq Timeouts(c)' /\ \A q \in Timeouts(c)' : Passed(c, q)'
  <2>1. PICK r : r = requestor[k]
    OBVIOUS
  <2>2. /\ r # 0 /\ r \in Pages /\ HostOf[r] = k
        /\ outcome' = [outcome EXCEPT ![r] = "timedout"]
        /\ requestor' = [requestor EXCEPT ![k] = 0]
    <3>1. r \in 0 .. MaxPages /\ r # 0
      BY <1>7, <2>1 DEF RequestTimeout, TypeOK
    <3>2. r \in Pages
      BY <3>1, Numbers
    <3>3. QED
      BY <1>1, <1>7, <2>1, <3>1, <3>2 DEF RequestTimeout, BecomeActive
  <2>3. requestor'[c] = requestor[c] \/ requestor'[c] = 0
    BY <2>2 DEF TypeOK
  <2>4. \A q \in Timeouts(c) : Passed(c, q)'
    BY <1>3, <2>3
  <2>5. Timeouts(c)' \subseteq Timeouts(c) \cup (IF k = c THEN {r} ELSE {})
    BY <2>2 DEF TypeOK, Timeouts
  <2>6. Timeouts(c) \subseteq Timeouts(c)'
    BY <2>2 DEF TypeOK, Timeouts
  <2>7. ASSUME k = c PROVE Passed(c, r)'
    <3>1. r \in Nat
      BY <2>2, Numbers
    <3>2. Reached(c, r)
      BY <1>1, <2>1, <2>2, <2>7 DEF Line
    <3>3. Reached(c, r)' /\ requestor'[c] = 0
      BY <2>2, <2>7, <3>1, <3>2 DEF TypeOK
    <3>4. QED
      BY <2>2, <3>3 DEF Passed
  <2>8. QED
    BY <2>4, <2>5, <2>6, <2>7
<1>8. ASSUME NEW k \in Consumers, Die(k)
      PROVE  Timeouts(c) \subseteq Timeouts(c)' /\ \A q \in Timeouts(c)' : Passed(c, q)'
  <2>1. Timeouts(c)' = Timeouts(c)
    BY <1>8 DEF TypeOK, Die, Timeouts
  <2>2. requestor'[c] = requestor[c]
    BY <1>8 DEF Die
  <2>3. QED
    BY <1>3, <2>1, <2>2
<1>9. ASSUME NEW k \in Consumers, ReceiveFetch(k)
      PROVE  Timeouts(c) \subseteq Timeouts(c)' /\ \A q \in Timeouts(c)' : Passed(c, q)'
  <2>1. outcome' = outcome
    BY <1>9 DEF ReceiveFetch
  <2>2. requestor'[c] = requestor[c] \/ (c = k /\ requestor'[c] = Head(mailbox[c]).page)
    BY <1>9 DEF TypeOK, ReceiveFetch
  <2>3. QED
    BY <1>4, <1>9, <2>1, <2>2
<1>10. CASE \/ \E k \in Consumers :
                  StashFetch(k) \/ AskForNext(k) \/ Deliver(k) \/ Stopped(k) \/ Notice(k) \/ HandleRetry(k)
            \/ HandleFetch \/ HandleRequestNext \/ HandleTerminated \/ ContentsThrow \/ UNCHANGED vars
  <2>1. outcome' = outcome /\ requestor' = requestor
    BY <1>10 DEF StashFetch, AskForNext, Deliver, Stopped, Notice, HandleRetry, HandleFetch,
                 HandleRequestNext, HandleTerminated, ContentsThrow, vars
  <2>2. QED
    BY <1>4, <2>1
<1>11. QED
  BY <1>5, <1>6, <1>7, <1>8, <1>9, <1>10 DEF Next

\* Nothing new gets under way in an ordinary step, or when a response is delivered.
LEMMA NothingNew ==
    ASSUME TypeOK, NEW c \in Consumers, Ordinary(c) \/ Deliver(c), NEW n, UnderWay(c, n)'
    PROVE  UnderWay(c, n)
<1>1. /\ inbox \in Seq(IndexMsg) /\ transit[c] \in Seq(Pages)
      /\ mailbox[c] \in Seq(FetchMsg \cup DeliveryMsg)
  BY DEF TypeOK
<1>2. CASE Ordinary(c)
  <2>1. ASSUME NEW p \in Pages, Turns(c, p) PROVE UnderWay(c, p)
    BY <1>1, <2>1, QueueTail DEF Turns, UnderWay
  <2>2. CASE \E i \in DOMAIN inbox' : inbox'[i] \in Requests(c) /\ inbox'[i].page = n
    BY <1>2, <2>2 DEF Ordinary, From, UnderWay
  <2>3. CASE \E k \in DOMAIN mailbox'[c] : mailbox'[c][k] \in DeliveryMsg /\ mailbox'[c][k].page = n
    BY <1>2, <2>3 DEF Ordinary, From, UnderWay
  <2>4. CASE retry'[c].set /\ retry'[c].page = n
    <3>1. CASE Keeps(c)
      BY <2>4, <3>1 DEF Keeps, UnderWay
    <3>2. ASSUME NEW p \in Pages, Turns(c, p), Retries(c, p) \/ Answers(c, p) PROVE n = p
      BY <2>4, <3>2 DEF Retries, Answers
    <3>3. QED
      BY <1>2, <2>1, <3>1, <3>2 DEF Ordinary
  <2>5. CASE \E i \in DOMAIN transit'[c] : transit'[c][i] = n
    <3>1. CASE transit'[c] = transit[c] \/ transit'[c] = << >>
      BY <2>5, <3>1 DEF UnderWay
    <3>2. ASSUME NEW p \in Pages, Turns(c, p), transit'[c] = Append(transit[c], p)
          PROVE  UnderWay(c, n)
      <4>1. n = p \/ \E i \in DOMAIN transit[c] : transit[c][i] = n
        BY <1>1, <2>5, <3>2, QueueAppend
      <4>2. QED
        BY <2>1, <3>2, <4>1 DEF UnderWay
    <3>3. QED
      BY <1>2, <3>1, <3>2 DEF Ordinary, Keeps, Retries, Answers
  <2>6. QED
    BY <2>2, <2>3, <2>4, <2>5 DEF UnderWay
<1>3. CASE Deliver(c)
  <2>1. /\ transit[c] # << >> /\ inbox' = inbox /\ retry' = retry
        /\ mailbox'[c] = Append(mailbox[c], Delivery(Head(transit[c])))
        /\ transit'[c] = Tail(transit[c])
    <3>1. mailbox \in [Consumers -> Seq(FetchMsg \cup DeliveryMsg)] /\ transit \in [Consumers -> Seq(Pages)]
      BY DEF TypeOK
    <3>2. QED
      BY <1>3, <3>1 DEF Deliver, indexVars
  <2>2. PICK m \in DeliveryMsg : m = Delivery(Head(transit[c])) /\ m.page = Head(transit[c])
    BY <2>1, FirstTypes, ConsumerMessages
  <2>3. \A k \in DOMAIN mailbox'[c] :
            mailbox'[c][k] = m \/ \E j \in DOMAIN mailbox[c] : mailbox'[c][k] = mailbox[c][j]
    BY <1>1, <2>1, <2>2, QueueAppend
  <2>4. /\ 1 \in DOMAIN transit[c] /\ transit[c][1] = m.page
        /\ \A i \in DOMAIN transit'[c] : \E j \in DOMAIN transit[c] : transit'[c][i] = transit[c][j]
    BY <1>1, <2>1, <2>2, QueueTail
  <2>5. QED
    BY <2>1, <2>3, <2>4 DEF UnderWay
<1>4. QED
  BY <1>2, <1>3

\* Whose turn it is changes with a request, a delivery or a timeout.
LEMMA WhoseTurn ==
    ASSUME TypeOK, [Next]_vars, NEW c \in Consumers
    PROVE  \/ requestor'[c] = requestor[c]
           \/ ReceiveFetch(c) \/ (requestor[c] # 0 /\ ReceiveDelivery(c)) \/ RequestTimeout(c)
<1> USE DEF pageVars, consumerVars, controllerVars, indexVars, faultVars
<1>1. ASSUME NEW k \in Consumers, ReceiveFetch(k) \/ ReceiveDelivery(k) \/ RequestTimeout(k), k # c
      PROVE  requestor'[c] = requestor[c]
  BY <1>1 DEF TypeOK, ReceiveFetch, ReceiveDelivery, RequestTimeout, BecomeActive
<1>2. ASSUME ReceiveDelivery(c), requestor[c] = 0 PROVE requestor'[c] = requestor[c]
  BY <1>2 DEF ReceiveDelivery
<1>3. CASE \/ \E k \in Consumers :
                 \/ StashFetch(k) \/ AskForNext(k) \/ Deliver(k) \/ Stopped(k) \/ Notice(k)
                 \/ HandleRetry(k) \/ Die(k)
           \/ AskForPage
           \/ HandleFetch \/ HandleRequestNext \/ HandleTerminated \/ ContentsThrow \/ UNCHANGED vars
  BY <1>3 DEF StashFetch, AskForNext, Deliver, Stopped, Notice, HandleRetry, HandleFetch, Die,
              HandleRequestNext, HandleTerminated, ContentsThrow, vars, AskForPage
<1>4. QED
  BY <1>1, <1>2, <1>3 DEF Next

\* What is answered, when its turn comes.
LEMMA WhoIsAnswered ==
    ASSUME TypeOK, [Next]_vars, NEW p \in Pages, outcome'[p] = "answered"
    PROVE  \/ outcome[p] = "answered" /\ answer'[p] = answer[p]
           \/ \E c \in Consumers : /\ ReceiveDelivery(c) /\ requestor[c] = p
                                   /\ answer'[p] = Head(mailbox[c]).page
<1> USE DEF pageVars, consumerVars, controllerVars, indexVars, faultVars
<1>1. CASE AskForPage
  BY <1>1 DEF TypeOK, AskForPage
<1>2. ASSUME NEW c \in Consumers, RequestTimeout(c)
      PROVE  outcome[p] = "answered" /\ answer'[p] = answer[p]
  BY <1>2 DEF TypeOK, RequestTimeout
<1>3. ASSUME NEW c \in Consumers, Die(c)
      PROVE  outcome[p] = "answered" /\ answer'[p] = answer[p]
  BY <1>3 DEF TypeOK, Die
<1>4. ASSUME NEW c \in Consumers, ReceiveDelivery(c)
      PROVE  \/ outcome[p] = "answered" /\ answer'[p] = answer[p]
             \/ requestor[c] = p /\ answer'[p] = Head(mailbox[c]).page
  BY <1>4, Numbers DEF TypeOK, ReceiveDelivery
<1>5. CASE \/ \E k \in Consumers :
                 \/ StashFetch(k) \/ AskForNext(k) \/ Deliver(k) \/ Stopped(k) \/ Notice(k)
                 \/ HandleRetry(k) \/ ReceiveFetch(k)
           \/ HandleFetch \/ HandleRequestNext \/ HandleTerminated \/ ContentsThrow \/ UNCHANGED vars
  <2>1. outcome' = outcome /\ answer' = answer
    BY <1>5 DEF StashFetch, AskForNext, Deliver, Stopped, Notice, HandleRetry, HandleFetch, ReceiveFetch,
                HandleRequestNext, HandleTerminated, ContentsThrow, vars
  <2>2. QED
    BY <2>1
<1>6. QED
  BY <1>1, <1>2, <1>3, <1>4, <1>5 DEF Next

\* When a response answers a page before any has timed out, nothing else was under way.
LEMMA ResponseIsLast ==
    ASSUME TypeOK, TypeOK', NEW c \in Consumers, Chain(c), NextIs(c, "Delivery"), Ordinary(c),
           UNCHANGED << inbox, retry, transit >>, NEW p \in Pages,
           \A n \in Pages : UnderWay(c, n) => n = p,
           \A k \in DOMAIN mailbox'[c] : mailbox'[c][k] \notin DeliveryMsg
    PROVE  \A n \in Pages : ~UnderWay(c, n)'
<1>1. PICK m \in DeliveryMsg : m = Head(mailbox[c])
  BY FirstTypes DEF NextIs
<1>2. 1 \in DOMAIN mailbox[c] /\ mailbox[c][1] = m /\ m.page \in Pages
  <2>1. mailbox[c] # << >> /\ mailbox[c] \in Seq(FetchMsg \cup DeliveryMsg)
    BY DEF NextIs, TypeOK
  <2>2. QED
    BY <1>1, <2>1, QueueTail, ConsumerMessages
<1>3. m.page = p
  BY <1>2 DEF UnderWay
<1>4. /\ \A i \in DOMAIN inbox : inbox[i] \in Requests(c) => p < inbox[i].page
      /\ retry[c].set => p < retry[c].page
      /\ \A i \in DOMAIN transit[c] : p < transit[c][i]
  <2>1. p <= sent[c] /\ \A i \in DOMAIN transit[c] : p < transit[c][i]
    BY <1>2, <1>3 DEF Chain
  <2>2. /\ \A i \in DOMAIN inbox : inbox[i] \in Requests(c) => sent[c] < inbox[i].page
        /\ retry[c].set => sent[c] < retry[c].page
    BY DEF Chain, Above
  <2>3. p \in Nat /\ sent[c] \in Nat /\ \A q \in Requests(c) : q.page \in Nat
    BY Numbers DEF TypeOK, Requests
  <2>4. retry[c].set => retry[c].page \in Nat
    <3>1. \A t \in [set : {TRUE}, page : Pages, attempt : 2 .. MaxAttempts] : t.page \in Nat
      BY Numbers
    <3>2. ~NoTimer.set
      BY DEF NoTimer
    <3>3. QED
      BY <3>1, <3>2 DEF TypeOK
  <2>5. QED
    BY <2>1, <2>2, <2>3, <2>4
<1>5. ASSUME NEW n \in Pages, UnderWay(c, n)' PROVE FALSE
  <2>1. n = p
    BY <1>5, NothingNew
  <2>2. p \in Nat
    BY Numbers
  <2>3. QED
    BY <1>4, <1>5, <2>1, <2>2 DEF UnderWay
<1>6. QED
  BY <1>5

\* Every step keeps the pages punctual, and answers that are shifted have their timeout.
LEMMA PunctualStep ==
    ASSUME TypeOK, TypeOK', LineInv, ChainInv, PunctualInv, OnlyATimeoutShifts, [Next]_vars,
           \A c \in Consumers, p \in Nat : Reached(c, p) => Reached(c, p)'
    PROVE  PunctualInv' /\ OnlyATimeoutShifts'
<1> USE DEF pageVars, consumerVars, controllerVars, indexVars, faultVars
<1>1. \A c \in Consumers : /\ Timeouts(c) \subseteq Timeouts(c)'
                           /\ \A q \in Timeouts(c)' : Passed(c, q)'
  BY TimeoutsStay
<1>2. \A c \in Consumers : /\ requestor[c] \in Nat /\ (requestor[c] # 0 => requestor[c] \in Pages)
                           /\ Chain(c) /\ Line(c) /\ Punctual(c)
  <2> SUFFICES ASSUME NEW c \in Consumers
               PROVE  /\ requestor[c] \in Nat /\ (requestor[c] # 0 => requestor[c] \in Pages)
                      /\ Chain(c) /\ Line(c) /\ Punctual(c)
    OBVIOUS
  <2>1. requestor[c] \in Nat
    BY Numbers DEF TypeOK
  <2>2. requestor[c] # 0 => requestor[c] \in Pages
    BY Numbers DEF TypeOK, Pages
  <2>3. QED
    BY <2>1, <2>2 DEF ChainInv, LineInv, PunctualInv
<1>3. ASSUME NEW c \in Consumers, Timeouts(c)' = {}, NEW p \in Pages, UnderWay(c, p)'
      PROVE  p = requestor'[c]
  <2>1. /\ Timeouts(c) = {} /\ \A n \in Pages : UnderWay(c, n) => n = requestor[c]
    BY <1>1, <1>2, <1>3 DEF Punctual
  <2>2. ReceiveFetch(c) \/ Deliver(c) \/ Ordinary(c)
    BY StepKinds
  <2>3. CASE requestor'[c] = requestor[c] /\ (Deliver(c) \/ Ordinary(c))
    BY <1>3, <2>1, <2>3, NothingNew
  <2>4. CASE ReceiveFetch(c)
    <3>1. mailbox[c] # << >> /\ Head(mailbox[c]).type = "Fetch" /\ requestor[c] = 0
      BY <2>4 DEF ReceiveFetch, NextIs
    <3>2. PICK r \in Pages : r = Head(mailbox[c]).page
      BY <3>1, FirstTypes
    <3>3. /\ inbox' = inbox \/ inbox' = Append(inbox, FetchImpl(c, r))
          /\ requestor'[c] = r /\ mailbox'[c] = Tail(mailbox[c])
          /\ transit' = transit /\ retry' = retry
      <4>1. /\ mailbox \in [Consumers -> Seq(FetchMsg \cup DeliveryMsg)]
            /\ requestor \in [Consumers -> 0 .. MaxPages]
        BY DEF TypeOK
      <4>2. QED
        BY <2>4, <3>2, <4>1 DEF ReceiveFetch, TellIndex
    <3>4. ~UnderWay(c, p)
      BY <2>1, <3>1, Numbers
    <3>5. From(mailbox'[c], mailbox[c], DeliveryMsg)
      BY <3>1, <3>3, FromTail DEF TypeOK
    <3>6. FetchImpl(c, r).page = r /\ inbox \in Seq(IndexMsg) /\ FetchImpl(c, r) \in IndexMsg
      BY DEF FetchImpl, TypeOK, IndexMsg
    <3>7. \A i \in DOMAIN inbox' : inbox'[i] = FetchImpl(c, r) \/ \E j \in DOMAIN inbox : inbox'[i] = inbox[j]
      BY <3>3, <3>6, QueueAppend
    <3>8. QED
      BY <1>3, <3>3, <3>4, <3>5, <3>6, <3>7 DEF UnderWay, From
  <2>5. CASE requestor[c] # 0 /\ ReceiveDelivery(c) /\ Ordinary(c)
    <3>1. /\ NextIs(c, "Delivery") /\ UNCHANGED << inbox, retry, transit >>
          /\ mailbox' = [mailbox EXCEPT ![c] = stash[c] \o Tail(mailbox[c])]
      BY <2>5 DEF ReceiveDelivery, BecomeActive
    <3>2. PICK q \in Seq(FetchMsg \cup DeliveryMsg) : q = mailbox[c]
      BY DEF TypeOK
    <3>3. PICK rest \in Seq(FetchMsg \cup DeliveryMsg) : rest = Tail(mailbox[c])
      BY <3>1, FirstTypes DEF NextIs
    <3>4. /\ q # << >> /\ 1 \in DOMAIN q /\ q[1] \in DeliveryMsg
          /\ \A i \in DOMAIN rest : i + 1 \in DOMAIN q /\ rest[i] = q[i + 1] /\ i + 1 # 1
      <4>1. q # << >> /\ q[1] \in DeliveryMsg /\ rest = Tail(q)
        BY <3>1, <3>2, <3>3, FirstTypes, QueueTail DEF NextIs
      <4>2. DOMAIN rest = 1 .. Len(q) - 1 /\ Len(q) \in Nat
        BY <4>1, QueueTail
      <4>3. QED
        BY <4>1, <4>2, QueueTail
    <3>5. \A i \in DOMAIN rest : rest[i] \notin DeliveryMsg
      BY <1>2, <3>2, <3>4 DEF Chain, AtMostOne
    <3>6. mailbox'[c] = stash[c] \o rest /\ stash[c] \in Seq(FetchMsg)
      BY <3>1, <3>3 DEF TypeOK
    <3>7. From(mailbox'[c], rest, DeliveryMsg)
      BY <3>6, FromConcat
    <3>8. \A k \in DOMAIN mailbox'[c] : mailbox'[c][k] \notin DeliveryMsg
      BY <3>5, <3>7 DEF From
    <3>9. \A n \in Pages : ~UnderWay(c, n)'
      BY <1>2, <2>1, <2>5, <3>1, <3>8, ResponseIsLast
    <3>10. QED
      BY <1>3, <3>9
  <2>6. CASE RequestTimeout(c)
    <3>1. requestor[c] \in Pages /\ HostOf[requestor[c]] = c
      BY <1>2, <2>6 DEF RequestTimeout, Line
    <3>2. requestor[c] \in Timeouts(c)'
      BY <2>6, <3>1 DEF RequestTimeout, TypeOK, Timeouts
    <3>3. QED
      BY <1>3, <3>2
  <2>7. ~(ReceiveDelivery(c) /\ Deliver(c))
    BY DEF ReceiveDelivery, Deliver, NextIs
  <2>8. QED
    BY <2>2, <2>3, <2>4, <2>5, <2>6, <2>7, WhoseTurn
<1>4. ASSUME NEW p \in Pages, outcome'[p] = "answered", answer'[p] # p
      PROVE  \E q \in Timeouts(HostOf[p])' : q < p
  <2>1. HostOf[p] \in Consumers
    BY Numbers
  <2>2. CASE outcome[p] = "answered" /\ answer'[p] = answer[p]
    BY <1>1, <1>4, <2>1, <2>2 DEF OnlyATimeoutShifts
  <2>3. ASSUME NEW c \in Consumers, ReceiveDelivery(c), requestor[c] = p, answer'[p] = Head(mailbox[c]).page
        PROVE  \E q \in Timeouts(c) : q < p
    <3>1. requestor[c] # 0 /\ NextIs(c, "Delivery") /\ mailbox[c] \in Seq(FetchMsg \cup DeliveryMsg)
      BY <2>3, Numbers DEF ReceiveDelivery, TypeOK
    <3>2. Head(mailbox[c]) \in DeliveryMsg /\ Head(mailbox[c]).page \in Pages
      BY <3>1, FirstTypes DEF NextIs
    <3>3. UnderWay(c, Head(mailbox[c]).page)
      BY <3>1, <3>2, QueueTail DEF NextIs, UnderWay
    <3>4. Timeouts(c) # {}
      BY <1>2, <1>4, <2>3, <3>2, <3>3 DEF Punctual
    <3>5. PICK q \in Timeouts(c) : TRUE
      BY <3>4
    <3>6. q <= p /\ q # p
      BY <1>2, <2>3, <3>1 DEF Punctual, Passed, Reached
    <3>7. q \in Nat /\ p \in Nat
      BY Numbers DEF Timeouts
    <3>8. QED
      BY <3>6, <3>7
  <2>4. ASSUME NEW c \in Consumers, ReceiveDelivery(c), requestor[c] = p PROVE c = HostOf[p]
    BY <1>2, <2>4, Numbers DEF Line
  <2>5. QED
    BY <1>1, <1>4, <2>1, <2>2, <2>3, <2>4, WhoIsAnswered
<1>5. QED
  BY <1>1, <1>3, <1>4 DEF PunctualInv, Punctual, OnlyATimeoutShifts

-----------------------------------------------------------------------------
(* A page that waits stands in the line.                                   *)

\* What stands in a queue of which the first is taken, to which one comes, or before which
\* others are put.
LEMMA InTail ==
    ASSUME NEW S, NEW q \in Seq(S), q # << >>, NEW n
    PROVE  InQueue(q, n) <=> (Head(q) \in FetchMsg /\ Head(q).page = n) \/ InQueue(Tail(q), n)
<1>1. /\ 1 \in DOMAIN q /\ Head(q) = q[1]
      /\ \A i \in DOMAIN Tail(q) : i + 1 \in DOMAIN q /\ Tail(q)[i] = q[i + 1]
      /\ \A i \in DOMAIN q : i = 1 \/ (i - 1 \in DOMAIN Tail(q) /\ q[i] = Tail(q)[i - 1])
  BY QueueTail
<1>2. QED
  BY <1>1 DEF InQueue

LEMMA InAppend ==
    ASSUME NEW S, NEW q \in Seq(S), NEW x \in S, NEW n
    PROVE  InQueue(Append(q, x), n) <=> InQueue(q, n) \/ (x \in FetchMsg /\ x.page = n)
<1>1. /\ \A i \in DOMAIN q : i \in DOMAIN Append(q, x) /\ Append(q, x)[i] = q[i]
      /\ Append(q, x)[Len(q) + 1] = x /\ Len(q) + 1 \in DOMAIN Append(q, x)
      /\ \A i \in DOMAIN Append(q, x) : i \in DOMAIN q \/ i = Len(q) + 1
  BY QueueAppend
<1>2. QED
  BY <1>1 DEF InQueue

LEMMA InConcat ==
    ASSUME NEW S, NEW q \in Seq(S), NEW r \in Seq(S), NEW n
    PROVE  InQueue(q \o r, n) <=> InQueue(q, n) \/ InQueue(r, n)
<1>1. /\ \A i \in DOMAIN q : i \in DOMAIN (q \o r) /\ (q \o r)[i] = q[i]
      /\ \A i \in DOMAIN r : /\ Len(q) + i \in DOMAIN (q \o r)
                             /\ (q \o r)[Len(q) + i] = r[i]
      /\ \A k \in DOMAIN (q \o r) :
            k \in DOMAIN q \/ (k - Len(q) \in DOMAIN r /\ (q \o r)[k] = r[k - Len(q)])
  BY QueueConcat
<1>2. InQueue(q \o r, n) => InQueue(q, n) \/ InQueue(r, n)
  BY <1>1 DEF InQueue
<1>3. InQueue(q, n) => InQueue(q \o r, n)
  BY <1>1 DEF InQueue
<1>4. ASSUME NEW i \in DOMAIN r, r[i] \in FetchMsg, r[i].page = n PROVE InQueue(q \o r, n)
  <2>1. PICK k \in DOMAIN (q \o r) : (q \o r)[k] = r[i]
    BY <1>1
  <2>2. QED
    BY <1>4, <2>1 DEF InQueue
<1>5. QED
  BY <1>2, <1>3, <1>4 DEF InQueue

\* The page whose turn it is stands nowhere else.
LEMMA TurnIsUnique ==
    ASSUME TypeOK, NEW c \in Consumers, Line(c), requestor[c] # 0
    PROVE  ~InQueue(stash[c], requestor[c]) /\ ~InQueue(mailbox[c], requestor[c])
<1>1. requestor[c] \in Nat
  BY Numbers DEF TypeOK
<1>2. Above(requestor[c], stash[c], FetchMsg) /\ Above(requestor[c], mailbox[c], FetchMsg)
  BY DEF Line, Reached
<1>3. QED
  BY <1>1, <1>2, ConsumerMessages DEF InQueue, Above

\* A consumer that is done with a page has the others in its line.
LEMMA DoneWith ==
    ASSUME TypeOK, NEW c \in Consumers, Line(c), requestor[c] # 0,
           NEW rest \in Seq(FetchMsg \cup DeliveryMsg), BecomeActive(c, rest),
           NEW n \in Pages, InQueue(rest, n) <=> InQueue(mailbox[c], n)
    PROVE  InLine(c, n)' <=> InLine(c, n) /\ n # requestor[c]
<1>1. requestor'[c] = 0 /\ stash'[c] = << >> /\ mailbox'[c] = stash[c] \o rest
  BY DEF TypeOK, BecomeActive
<1>2. stash[c] \in Seq(FetchMsg \cup DeliveryMsg)
  BY DEF TypeOK
<1>3. ~InQueue(<< >>, n)
  BY DEF InQueue
<1>4. InQueue(stash[c] \o rest, n) <=> InQueue(stash[c], n) \/ InQueue(mailbox[c], n)
  BY <1>2, InConcat
<1>5. n # 0
  BY Numbers
<1>6. InLine(c, n)' <=> InQueue(stash[c], n) \/ InQueue(mailbox[c], n)
  BY <1>1, <1>3, <1>4, <1>5 DEF InLine, InQueue
<1>7. QED
  BY <1>6, TurnIsUnique DEF InLine

\* Every step keeps those in line who wait, and no one else.
LEMMA WaitStep ==
    ASSUME TypeOK, TypeOK', LineInv, WaitInv, [Next]_vars
    PROVE  WaitInv'
<1> USE DEF pageVars, consumerVars, controllerVars, indexVars, faultVars
<1>1. SUFFICES ASSUME NEW p \in Pages, NEW k \in Consumers, k = HostOf[p], alive'[k]
               PROVE  outcome'[p] = "waiting" <=> InLine(k, p)'
  BY Numbers DEF WaitInv
<1>2. alive[k]
  <2>1. \A c \in Consumers : Die(c) => alive' = [alive EXCEPT ![c] = FALSE]
    BY DEF Die
  <2>2. (\E c \in Consumers : Die(c)) \/ alive' = alive
    BY DEF Next, AskForPage, ReceiveFetch, StashFetch, ReceiveDelivery, RequestTimeout, AskForNext,
           Deliver, Stopped, Notice, HandleRetry, HandleFetch, HandleRequestNext, HandleTerminated,
           ContentsThrow, vars
  <2>3. QED
    BY <1>1, <2>1, <2>2 DEF TypeOK
<1>3. outcome[p] = "waiting" <=> InLine(k, p)
  BY <1>1, <1>2 DEF WaitInv
<1>4. /\ Line(k) /\ p # 0 /\ \A c \in Consumers : requestor[c] # 0 => HostOf[requestor[c]] = c
      /\ mailbox[k] \in Seq(FetchMsg \cup DeliveryMsg) /\ stash[k] \in Seq(FetchMsg)
      /\ mailbox \in [Consumers -> Seq(FetchMsg \cup DeliveryMsg)]
      /\ stash \in [Consumers -> Seq(FetchMsg)] /\ requestor \in [Consumers -> 0 .. MaxPages]
      /\ outcome \in [Pages -> Outcomes] /\ alive \in [Consumers -> BOOLEAN]
  BY Numbers DEF LineInv, Line, TypeOK
<1>5. ASSUME outcome'[p] = outcome[p], requestor'[k] = requestor[k], mailbox'[k] = mailbox[k],
             stash'[k] = stash[k]
      PROVE  outcome'[p] = "waiting" <=> InLine(k, p)'
  BY <1>3, <1>5 DEF InLine, InQueue
<1>6. CASE AskForPage
  <2>1. PICK q \in Pages : q = asks + 1
    BY <1>6, Numbers DEF TypeOK, AskForPage
  <2>2. PICK m \in FetchMsg : m = FetchAllProducts(q) /\ m.page = q
    BY ConsumerMessages
  <2>3. /\ outcome' = [outcome EXCEPT ![q] = "waiting"] /\ UNCHANGED << requestor, stash >>
        /\ mailbox' = [mailbox EXCEPT ![HostOf[q]] = Append(@, m)]
    BY <1>6, <2>1, <2>2 DEF AskForPage
  <2>4. HostOf[q] = k => (InQueue(mailbox'[k], p) <=> InQueue(mailbox[k], p) \/ q = p)
    <3>1. InQueue(Append(mailbox[k], m), p) <=> InQueue(mailbox[k], p) \/ q = p
      <4>1. m \in FetchMsg \cup DeliveryMsg
        OBVIOUS
      <4>2. InQueue(Append(mailbox[k], m), p) <=> InQueue(mailbox[k], p) \/ (m \in FetchMsg /\ m.page = p)
        BY <1>4, <4>1, InAppend
      <4>3. QED
        BY <2>2, <4>2
    <3>2. HostOf[q] = k => mailbox'[k] = Append(mailbox[k], m)
      BY <1>4, <2>3
    <3>3. QED
      BY <3>1, <3>2
  <2>5. CASE p = q
    <3>1. InQueue(mailbox'[k], p) /\ outcome'[p] = "waiting"
      BY <1>1, <1>4, <2>3, <2>4, <2>5
    <3>2. QED
      BY <3>1 DEF InLine, InQueue
  <2>6. CASE p # q /\ HostOf[q] = k
    <3>1. (InQueue(mailbox'[k], p) <=> InQueue(mailbox[k], p)) /\ outcome'[p] = outcome[p]
      BY <1>4, <2>3, <2>4, <2>6
    <3>2. QED
      BY <1>3, <2>3, <3>1 DEF InLine, InQueue
  <2>7. CASE p # q /\ HostOf[q] # k
    BY <1>4, <1>5, <2>3, <2>7
  <2>8. QED
    BY <2>5, <2>6, <2>7
<1>7. ASSUME NEW c \in Consumers, ReceiveFetch(c) \/ StashFetch(c)
      PROVE  outcome'[p] = "waiting" <=> InLine(k, p)'
  <2>1. outcome' = outcome
    BY <1>7 DEF ReceiveFetch, StashFetch
  <2>2. CASE c # k
    <3>1. requestor'[k] = requestor[k] /\ mailbox'[k] = mailbox[k] /\ stash'[k] = stash[k]
      BY <1>4, <1>7, <2>2 DEF ReceiveFetch, StashFetch
    <3>2. QED
      BY <1>5, <2>1, <3>1
  <2>3. CASE c = k
    <3>1. mailbox[k] # << >> /\ Head(mailbox[k]).type = "Fetch" /\ mailbox'[k] = Tail(mailbox[k])
      BY <1>4, <1>7, <2>3 DEF ReceiveFetch, StashFetch, NextIs
    <3>2. PICK m \in FetchMsg : m = Head(mailbox[k])
      BY <3>1, FirstTypes
    <3>3. InQueue(mailbox[k], p) <=> m.page = p \/ InQueue(mailbox'[k], p)
      BY <1>4, <3>1, <3>2, InTail
    <3>4. CASE ReceiveFetch(k)
      <4>1. requestor[k] = 0 /\ requestor'[k] = m.page /\ stash'[k] = stash[k]
        BY <1>4, <3>2, <3>4 DEF ReceiveFetch
      <4>2. InLine(k, p)' <=> InLine(k, p)
        BY <1>4, <3>3, <4>1 DEF InLine, InQueue
      <4>3. QED
        BY <1>3, <2>1, <4>2
    <3>5. CASE StashFetch(k)
      <4>1. requestor'[k] = requestor[k] /\ stash'[k] = Append(stash[k], m)
        BY <1>4, <3>2, <3>5 DEF StashFetch
      <4>2. InQueue(stash'[k], p) <=> InQueue(stash[k], p) \/ m.page = p
        BY <1>4, <4>1, InAppend
      <4>3. InLine(k, p)' <=> InLine(k, p)
        BY <3>3, <4>1, <4>2 DEF InLine, InQueue
      <4>4. QED
        BY <1>3, <2>1, <4>3
    <3>6. QED
      BY <1>7, <2>3, <3>4, <3>5
  <2>4. QED
    BY <2>2, <2>3
<1>8. ASSUME NEW c \in Consumers, NEW rest \in Seq(FetchMsg \cup DeliveryMsg), requestor[c] # 0,
             BecomeActive(c, rest), NEW o \in {"answered", "timedout"},
             outcome' = [outcome EXCEPT ![requestor[c]] = o],
             c = k => (InQueue(rest, p) <=> InQueue(mailbox[k], p))
      PROVE  outcome'[p] = "waiting" <=> InLine(k, p)'
  <2>1. CASE c # k
    <3>1. p # requestor[c]
      BY <1>1, <1>4, <1>8, <2>1
    <3>2. requestor'[k] = requestor[k] /\ mailbox'[k] = mailbox[k] /\ stash'[k] = stash[k]
      BY <1>4, <1>8, <2>1 DEF BecomeActive
    <3>3. QED
      BY <1>4, <1>5, <1>8, <3>1, <3>2
  <2>2. CASE c = k
    <3>1. InLine(k, p)' <=> InLine(k, p) /\ p # requestor[k]
      BY <1>4, <1>8, <2>2, DoneWith
    <3>2. p = requestor[k] => outcome'[p] = o
      BY <1>4, <1>8, <2>2
    <3>3. p # requestor[k] => outcome'[p] = outcome[p]
      BY <1>4, <1>8, <2>2
    <3>4. QED
      BY <1>3, <1>8, <3>1, <3>2, <3>3
  <2>3. QED
    BY <2>1, <2>2
<1>9. ASSUME NEW c \in Consumers, ReceiveDelivery(c)
      PROVE  outcome'[p] = "waiting" <=> InLine(k, p)'
  <2>1. mailbox[c] # << >> /\ Head(mailbox[c]).type = "Delivery"
    BY <1>9 DEF ReceiveDelivery, NextIs
  <2>2. PICK rest \in Seq(FetchMsg \cup DeliveryMsg) : rest = Tail(mailbox[c])
    BY <2>1, FirstTypes
  <2>3. InQueue(rest, p) <=> InQueue(mailbox[c], p)
    <3>1. Head(mailbox[c]) \notin FetchMsg /\ mailbox[c] \in Seq(FetchMsg \cup DeliveryMsg)
      BY <1>4, <2>1, FirstTypes, ConsumerMessages
    <3>2. QED
      BY <2>1, <2>2, <3>1, InTail
  <2>4. CASE requestor[c] # 0
    BY <1>8, <1>9, <2>2, <2>3, <2>4 DEF ReceiveDelivery
  <2>5. CASE requestor[c] = 0
    <3>1. /\ mailbox' = [mailbox EXCEPT ![c] = rest]
          /\ UNCHANGED << outcome, answer, requestor, stash >>
      BY <1>9, <2>2, <2>5 DEF ReceiveDelivery
    <3>2. InQueue(mailbox'[k], p) <=> InQueue(mailbox[k], p)
      BY <1>4, <2>3, <3>1
    <3>3. QED
      BY <1>3, <3>1, <3>2 DEF InLine, InQueue
  <2>6. QED
    BY <2>4, <2>5
<1>10. ASSUME NEW c \in Consumers, RequestTimeout(c)
       PROVE  outcome'[p] = "waiting" <=> InLine(k, p)'
  BY <1>4, <1>8, <1>10 DEF RequestTimeout
<1>11. ASSUME NEW c \in Consumers, Die(c) PROVE outcome'[p] = "waiting" <=> InLine(k, p)'
  <2>1. c # k
    BY <1>1, <1>4, <1>11 DEF Die
  <2>2. outcome'[p] = outcome[p] /\ UNCHANGED << requestor, stash, mailbox >>
    BY <1>1, <1>4, <1>11, <2>1 DEF Die
  <2>3. QED
    BY <1>5, <2>2
<1>12. ASSUME NEW c \in Consumers, Deliver(c) PROVE outcome'[p] = "waiting" <=> InLine(k, p)'
  <2>1. PICK m \in DeliveryMsg : m = Delivery(Head(transit[c]))
    BY <1>12, FirstTypes, ConsumerMessages DEF Deliver
  <2>2. /\ mailbox' = [mailbox EXCEPT ![c] = Append(@, m)]
        /\ UNCHANGED << outcome, requestor, stash >>
    BY <1>12, <2>1 DEF Deliver
  <2>3. m \notin FetchMsg
    BY ConsumerMessages
  <2>4. InQueue(mailbox'[k], p) <=> InQueue(mailbox[k], p)
    <3>1. InQueue(Append(mailbox[k], m), p) <=> InQueue(mailbox[k], p)
      <4>1. m \in FetchMsg \cup DeliveryMsg
        OBVIOUS
      <4>2. InQueue(Append(mailbox[k], m), p) <=> InQueue(mailbox[k], p) \/ (m \in FetchMsg /\ m.page = p)
        BY <1>4, <4>1, InAppend
      <4>3. QED
        BY <2>3, <4>2
    <3>2. mailbox'[k] = mailbox[k] \/ mailbox'[k] = Append(mailbox[k], m)
      BY <1>4, <2>2
    <3>3. QED
      BY <3>1, <3>2
  <2>5. QED
    BY <1>3, <2>2, <2>4 DEF InLine, InQueue
<1>13. CASE \/ \E c \in Consumers :
                  AskForNext(c) \/ Stopped(c) \/ Notice(c) \/ HandleRetry(c)
            \/ HandleFetch \/ HandleRequestNext \/ HandleTerminated \/ ContentsThrow \/ UNCHANGED vars
  <2>1. UNCHANGED << outcome, requestor, stash, mailbox >>
    BY <1>13 DEF AskForNext, Stopped, Notice, HandleRetry, HandleFetch,
                 HandleRequestNext, HandleTerminated, ContentsThrow, vars
  <2>2. QED
    BY <1>5, <2>1
<1>14. QED
  BY <1>6, <1>7, <1>9, <1>10, <1>11, <1>12, <1>13 DEF Next

-----------------------------------------------------------------------------
(* The undisturbed index.                                                  *)

\* For one consumer: a step with the inbox keeps what the index knows of its controller
\* if nothing about it changes.
LEMMA DemandKept ==
    ASSUME NEW c \in Consumers, Demand(c), From(inbox', inbox, {RequestNext(c)}),
           AtMostOne(inbox', {RequestNext(c)}), alive'[c] = alive[c],
           controller'[c] = controller[c], producers'[c] = producers[c], wanted'[c] = wanted[c]
    PROVE  Demand(c)'
<1>1. \A i \in DOMAIN inbox' : inbox'[i] = RequestNext(c) => \E j \in DOMAIN inbox : inbox[j] = RequestNext(c)
  BY DEF From
<1>2. RequestNext(c)' = RequestNext(c)
  BY DEF RequestNext
<1>3. QED
  BY <1>1, <1>2 DEF Demand

\* The index is not disturbed by a request of a page: it answers only where one is wanted,
\* and makes a controller only where there is none.
LEMMA UndisturbedFetch ==
    ASSUME TypeOK, \A k \in Consumers : Demand(k), ~threw, NEW c \in Consumers, NEW p, NEW attempt,
           NEW rest, ReceiveFetchProducts(c, p, attempt, rest), alive' = alive,
           \A k \in Consumers : /\ From(rest, inbox, {RequestNext(k)})
                                /\ AtMostOne(rest, {RequestNext(k)})
    PROVE  ~threw' /\ inbox' = rest /\ \A k \in Consumers : Demand(k)'
<1>1. ASSUME inbox' = rest, NEW k \in Consumers, controller'[k] = controller[k],
             producers'[k] = producers[k], wanted'[k] = wanted[k]
      PROVE  Demand(k)'
  BY <1>1, DemandKept
<1>2. /\ Demand(c) /\ (wanted[c] => controller[c] = "active")
      /\ controller \in [Consumers -> {"none", "active", "failed", "stopping"}]
      /\ wanted \in [Consumers -> BOOLEAN]
      /\ producers \in [Consumers -> [known : BOOLEAN, demand : BOOLEAN]]
  BY DEF TypeOK
<1>3. (wanted[c] /\ producers[c].demand) \/ ~wanted[c] => \A i \in DOMAIN inbox : inbox[i] # RequestNext(c)
  BY <1>2 DEF Demand
<1>4. CASE producers[c].known /\ producers[c].demand /\ SendResponse(c, p) /\ inbox' = rest
  <2>1. wanted[c] /\ controller[c] = "active" /\ alive'[c]
    BY <1>2, <1>4 DEF Demand
  <2>2. /\ controller' = [controller EXCEPT ![c] = IF wanted[c] THEN @ ELSE "failed"]
        /\ wanted' = [wanted EXCEPT ![c] = FALSE]
        /\ producers' = [producers EXCEPT ![c] = [@ EXCEPT !.demand = FALSE]]
        /\ threw' = threw
    BY <1>4 DEF SendResponse
  <2>3. controller'[c] = "active" /\ ~wanted'[c] /\ producers'[c] = [producers[c] EXCEPT !.demand = FALSE]
    BY <1>2, <2>1, <2>2
  <2>4. producers'[c].known /\ ~producers'[c].demand
    BY <1>2, <1>4, <2>3
  <2>5. \A i \in DOMAIN rest : rest[i] # RequestNext(c)
    BY <1>3, <1>4, <2>1 DEF From
  <2>6. Demand(c)'
    BY <1>4, <2>1, <2>3, <2>4, <2>5 DEF Demand, RequestNext
  <2>7. \A k \in Consumers : k # c => controller'[k] = controller[k] /\ producers'[k] = producers[k]
                                       /\ wanted'[k] = wanted[k]
    BY <1>2, <2>2
  <2>8. QED
    BY <1>1, <1>4, <2>2, <2>6, <2>7
<1>5. CASE inbox' = rest /\ UNCHANGED << controllerVars, producers, threw >>
  BY <1>1, <1>5 DEF controllerVars
<1>6. CASE /\ ~producers[c].known /\ controller[c] = "none"
           /\ CreateProducerController(c) /\ inbox' = rest /\ threw' = threw
           /\ producers' = [producers EXCEPT ![c] = [known |-> TRUE, demand |-> FALSE]]
  <2>1. ~wanted[c] /\ alive'[c]
    BY <1>2, <1>6 DEF Demand
  <2>2. /\ controller' = [controller EXCEPT ![c] = "active"] /\ wanted' = [wanted EXCEPT ![c] = FALSE]
    BY <1>6 DEF CreateProducerController
  <2>3. /\ controller'[c] = "active" /\ ~wanted'[c]
        /\ producers'[c] = [known |-> TRUE, demand |-> FALSE]
    BY <1>2, <1>6, <2>2
  <2>4. \A i \in DOMAIN rest : rest[i] # RequestNext(c)
    BY <1>3, <2>1 DEF From
  <2>5. Demand(c)'
    BY <1>6, <2>1, <2>3, <2>4 DEF Demand, RequestNext
  <2>6. \A k \in Consumers : k # c => controller'[k] = controller[k] /\ producers'[k] = producers[k]
                                       /\ wanted'[k] = wanted[k]
    BY <1>2, <1>6, <2>2
  <2>7. QED
    BY <1>1, <1>6, <2>5, <2>6
<1>7. ~(~producers[c].known /\ controller[c] # "none")
  BY <1>2 DEF Demand
<1>8. QED
  BY <1>4, <1>5, <1>6, <1>7 DEF ReceiveFetchProducts

\* Every step leaves the index undisturbed, but a web node that goes down, and an exception
\* in another handler.
LEMMA DemandStep ==
    ASSUME TypeOK, DemandInv, [Next]_vars
    PROVE  DemandInv'
<1> USE DEF pageVars, consumerVars, controllerVars, indexVars, faultVars
<1>1. SUFFICES ASSUME ~disturbed'
               PROVE  /\ ~threw' /\ \A i \in DOMAIN inbox' : inbox'[i].type # "Terminated"
                      /\ \A c \in Consumers : Demand(c)'
  BY DEF DemandInv
<1>2. CASE \E c \in Consumers : Die(c)
  BY <1>1, <1>2 DEF Die
<1>3. CASE ContentsThrow
  BY <1>1, <1>3 DEF ContentsThrow
<1>4. ASSUME disturbed' = disturbed
      PROVE  /\ ~threw /\ \A i \in DOMAIN inbox : inbox[i].type # "Terminated"
             /\ \A c \in Consumers : Demand(c)
  BY <1>1, <1>4 DEF DemandInv
<1>5. inbox \in Seq(IndexMsg)
  BY DEF TypeOK
<1>6. ASSUME disturbed' = disturbed, UNCHANGED << inbox, alive, controller, producers, wanted, threw >>
      PROVE  /\ ~threw' /\ \A i \in DOMAIN inbox' : inbox'[i].type # "Terminated"
             /\ \A c \in Consumers : Demand(c)'
  BY <1>4, <1>6 DEF Demand, RequestNext
<1>7. CASE \/ AskForPage \/ UNCHANGED vars
           \/ \E c \in Consumers : StashFetch(c) \/ ReceiveDelivery(c) \/ RequestTimeout(c) \/ Deliver(c)
  <2>1. disturbed' = disturbed /\ UNCHANGED << inbox, alive, controller, producers, wanted, threw >>
    BY <1>7 DEF AskForPage, vars, StashFetch, ReceiveDelivery, RequestTimeout, Deliver
  <2>2. QED
    BY <1>6, <2>1
<1>8. ASSUME NEW c \in Consumers, Stopped(c) PROVE FALSE
  <2>1. disturbed' = disturbed /\ controller[c] = "stopping"
    BY <1>8 DEF Stopped
  <2>2. QED
    BY <1>4, <2>1 DEF Demand
<1>9. ASSUME NEW c \in Consumers, Notice(c) PROVE FALSE
  <2>1. disturbed' = disturbed /\ ~alive[c]
    BY <1>9 DEF Notice
  <2>2. QED
    BY <1>4, <2>1 DEF Demand
<1>10. ASSUME NEW m \in IndexMsg, inbox' = Append(inbox, m) \/ inbox' = inbox, m.type # "Terminated",
              disturbed' = disturbed
       PROVE  \A i \in DOMAIN inbox' : inbox'[i].type # "Terminated"
  <2>1. \A i \in DOMAIN inbox' : inbox'[i] = m \/ \E j \in DOMAIN inbox : inbox'[i] = inbox[j]
    BY <1>5, <1>10, QueueAppend
  <2>2. QED
    BY <1>4, <1>10, <2>1
<1>11. ASSUME NEW c \in Consumers, ReceiveFetch(c)
       PROVE  /\ ~threw' /\ \A i \in DOMAIN inbox' : inbox'[i].type # "Terminated"
              /\ \A k \in Consumers : Demand(k)'
  <2>1. PICK p \in Pages : p = Head(mailbox[c]).page
    BY <1>11, FirstTypes DEF ReceiveFetch, NextIs
  <2>2. /\ inbox' = inbox \/ inbox' = Append(inbox, FetchImpl(c, p))
        /\ UNCHANGED << alive, controller, producers, wanted, threw >>
    BY <1>11, <2>1 DEF ReceiveFetch, TellIndex
  <2>3. PICK m \in IndexMsg : m = FetchImpl(c, p) /\ m.type = "Fetch"
    <3>1. FetchImpl(c, p) \in IndexMsg
      BY DEF FetchImpl, IndexMsg
    <3>2. FetchImpl(c, p).type = "Fetch"
      BY DEF FetchImpl
    <3>3. QED
      BY <3>1, <3>2
  <2>4. disturbed' = disturbed
    BY <1>11 DEF ReceiveFetch
  <2>5. \A k \in Consumers : /\ From(inbox', inbox, {RequestNext(k)})
                             /\ AtMostOne(inbox', {RequestNext(k)})
    <3>1. \A k \in Consumers : AtMostOne(inbox, {RequestNext(k)}) /\ From(inbox, inbox, {RequestNext(k)})
      BY <1>4, <2>4 DEF Demand, From
    <3>2. \A k \in Consumers : m \notin {RequestNext(k)}
      BY <2>3 DEF RequestNext
    <3>3. \A k \in Consumers : /\ From(Append(inbox, m), inbox, {RequestNext(k)})
                               /\ AtMostOne(Append(inbox, m), {RequestNext(k)})
      BY <1>5, <3>1, <3>2, FromAppend
    <3>4. QED
      BY <2>2, <2>3, <3>1, <3>3
  <2>6. \A k \in Consumers : Demand(k)'
    BY <1>4, <2>2, <2>4, <2>5, DemandKept
  <2>7. QED
    BY <1>4, <1>10, <2>2, <2>3, <2>4, <2>6
<1>12. ASSUME NEW c \in Consumers, AskForNext(c)
       PROVE  /\ ~threw' /\ \A i \in DOMAIN inbox' : inbox'[i].type # "Terminated"
              /\ \A k \in Consumers : Demand(k)'
  <2>1. /\ controller[c] = "active" /\ ~wanted[c] /\ wanted' = [wanted EXCEPT ![c] = TRUE]
        /\ inbox' = Append(inbox, RequestNext(c)) /\ disturbed' = disturbed
        /\ UNCHANGED << alive, controller, producers, threw >>
    BY <1>12 DEF AskForNext
  <2>2. PICK m \in IndexMsg : m = RequestNext(c) /\ m.type = "RequestNext" /\ m.from = c
    <3>1. RequestNext(c) \in IndexMsg
      BY DEF RequestNext, IndexMsg
    <3>2. RequestNext(c).type = "RequestNext" /\ RequestNext(c).from = c
      BY DEF RequestNext
    <3>3. QED
      BY <3>1, <3>2
  <2>3. \A k \in Consumers : Demand(k) /\ AtMostOne(inbox, {RequestNext(k)})
    BY <1>4, <2>1 DEF Demand
  <2>4. ASSUME NEW k \in Consumers, k # c PROVE Demand(k)'
    <3>1. From(inbox', inbox, {RequestNext(k)}) /\ AtMostOne(inbox', {RequestNext(k)})
      <4>1. m \notin {RequestNext(k)}
        BY <2>2, <2>4 DEF RequestNext
      <4>2. QED
        BY <1>5, <2>1, <2>2, <2>3, <4>1, FromAppend
    <3>2. wanted'[k] = wanted[k]
      BY <2>1, <2>4 DEF TypeOK
    <3>3. QED
      BY <2>1, <2>3, <3>1, <3>2, DemandKept
  <2>5. Demand(c)'
    <3>1. \A i \in DOMAIN inbox : inbox[i] # m
      BY <2>1, <2>2, <2>3 DEF Demand
    <3>2. \A i \in DOMAIN inbox' : (i \in DOMAIN inbox /\ inbox'[i] = inbox[i]) \/ i = Len(inbox) + 1
      BY <1>5, <2>1, <2>2, QueueAppend
    <3>3. AtMostOne(inbox', {m})
      BY <3>1, <3>2 DEF AtMostOne
    <3>4. wanted'[c] /\ ~producers[c].demand
      BY <2>1, <2>3 DEF TypeOK, Demand
    <3>5. RequestNext(c)' = m
      BY <2>2 DEF RequestNext
    <3>6. QED
      BY <2>1, <2>3, <3>3, <3>4, <3>5 DEF Demand
  <2>6. QED
    BY <1>4, <1>10, <2>1, <2>2, <2>4, <2>5
<1>13. ASSUME disturbed' = disturbed, inbox # << >>
       PROVE  /\ \A k \in Consumers : /\ From(Tail(inbox), inbox, {RequestNext(k)})
                                      /\ AtMostOne(Tail(inbox), {RequestNext(k)})
              /\ \A i \in DOMAIN Tail(inbox) : Tail(inbox)[i].type # "Terminated"
              /\ Head(inbox).type # "Terminated"
  <2>1. \A k \in Consumers : AtMostOne(inbox, {RequestNext(k)})
    BY <1>4, <1>13 DEF Demand
  <2>2. /\ \A i \in DOMAIN Tail(inbox) : i + 1 \in DOMAIN inbox /\ Tail(inbox)[i] = inbox[i + 1]
        /\ 1 \in DOMAIN inbox /\ Head(inbox) = inbox[1]
    BY <1>5, <1>13, QueueTail
  <2>3. QED
    BY <1>4, <1>5, <1>13, <2>1, <2>2, FromTail
<1>14. CASE HandleFetch
  <2>1. PICK c \in Consumers : c = Head(inbox).from
    BY <1>14, FirstTypes DEF HandleFetch, InboxIs
  <2>2. /\ ReceiveFetchProducts(c, Head(inbox).page, 1, Tail(inbox))
        /\ inbox # << >> /\ disturbed' = disturbed /\ alive' = alive
    BY <1>14, <2>1 DEF HandleFetch, InboxIs
  <2>3. ~threw' /\ inbox' = Tail(inbox) /\ \A k \in Consumers : Demand(k)'
    BY <1>4, <1>13, <2>2, UndisturbedFetch
  <2>4. QED
    BY <1>13, <2>2, <2>3
<1>15. ASSUME NEW c \in Consumers, HandleRetry(c)
       PROVE  /\ ~threw' /\ \A i \in DOMAIN inbox' : inbox'[i].type # "Terminated"
              /\ \A k \in Consumers : Demand(k)'
  <2>1. /\ ReceiveFetchProducts(c, retry[c].page, retry[c].attempt, inbox)
        /\ disturbed' = disturbed /\ alive' = alive
    BY <1>15 DEF HandleRetry
  <2>2. \A k \in Consumers : From(inbox, inbox, {RequestNext(k)}) /\ AtMostOne(inbox, {RequestNext(k)})
    BY <1>4, <2>1 DEF From, Demand
  <2>3. ~threw' /\ inbox' = inbox /\ \A k \in Consumers : Demand(k)'
    BY <1>4, <2>1, <2>2, UndisturbedFetch
  <2>4. QED
    BY <1>4, <2>1, <2>3
<1>16. CASE HandleRequestNext
  <2>1. /\ inbox # << >> /\ Head(inbox).type = "RequestNext" /\ disturbed' = disturbed /\ alive' = alive
    BY <1>16 DEF HandleRequestNext, InboxIs
  <2>2. PICK c \in Consumers : c = Head(inbox).from
    BY <2>1, FirstTypes
  <2>3. Head(inbox) = RequestNext(c) /\ 1 \in DOMAIN inbox /\ inbox[1] = Head(inbox)
    <3>1. Head(inbox) \in IndexMsg
      BY <2>1, FirstTypes
    <3>2. QED
      BY <1>5, <2>1, <2>2, <3>1, QueueTail DEF IndexMsg, RequestNext
  <2>4. \A k \in Consumers : Demand(k)
    BY <1>4, <2>1
  <2>5. wanted[c] /\ producers[c].known
    BY <2>3, <2>4 DEF Demand, TypeOK
  <2>6. /\ producers' = [producers EXCEPT ![c] = [@ EXCEPT !.demand = TRUE]] /\ inbox' = Tail(inbox)
        /\ UNCHANGED << controller, wanted, threw >>
    BY <1>16, <2>2, <2>5 DEF HandleRequestNext
  <2>7. ASSUME NEW k \in Consumers, k # c PROVE Demand(k)'
    <3>1. producers'[k] = producers[k]
      BY <2>6, <2>7 DEF TypeOK
    <3>2. QED
      BY <1>13, <2>1, <2>4, <2>6, <3>1, DemandKept
  <2>8. \A i \in DOMAIN Tail(inbox) : Tail(inbox)[i] # RequestNext(c)
    <3>1. \A i \in DOMAIN Tail(inbox) : i + 1 \in DOMAIN inbox /\ Tail(inbox)[i] = inbox[i + 1] /\ i + 1 # 1
      <4>1. DOMAIN Tail(inbox) = 1 .. Len(inbox) - 1 /\ Len(inbox) \in Nat
        BY <1>5, <2>1, QueueTail
      <4>2. QED
        BY <1>5, <2>1, <4>1, QueueTail
    <3>2. AtMostOne(inbox, {RequestNext(c)})
      BY <2>4 DEF Demand
    <3>3. QED
      BY <2>3, <3>1, <3>2 DEF AtMostOne
  <2>9. /\ producers'[c] = [producers[c] EXCEPT !.demand = TRUE]
        /\ producers[c] \in [known : BOOLEAN, demand : BOOLEAN]
    BY <2>6 DEF TypeOK
  <2>10. producers'[c].known
    BY <2>5, <2>9
  <2>11. Demand(c)'
    <3>1. alive[c] /\ controller[c] = "active" /\ AtMostOne(Tail(inbox), {RequestNext(c)})
      BY <1>13, <2>1, <2>4, <2>5 DEF Demand
    <3>2. RequestNext(c)' = RequestNext(c)
      BY DEF RequestNext
    <3>3. QED
      BY <2>1, <2>5, <2>6, <2>8, <2>10, <3>1, <3>2 DEF Demand
  <2>12. QED
    BY <1>4, <1>13, <2>1, <2>6, <2>7, <2>11
<1>17. CASE HandleTerminated
  <2>1. inbox # << >> /\ Head(inbox).type = "Terminated" /\ disturbed' = disturbed
    BY <1>17 DEF HandleTerminated, InboxIs
  <2>2. QED
    BY <1>13, <2>1
<1>18. QED
  BY <1>2, <1>3, <1>7, <1>8, <1>9, <1>11, <1>12, <1>14, <1>15, <1>16, <1>17 DEF Next

-----------------------------------------------------------------------------
(* The invariant holds, and what it says.                                  *)

IInv == /\ TypeOK /\ LineInv /\ ChainInv /\ MadeInv /\ WaitInv
        /\ PunctualInv /\ OnlyATimeoutShifts /\ DemandInv

LEMMA InitInvariant ==
    ASSUME Init
    PROVE  IInv
<1>1. TypeOK
  <2>1. /\ asks \in 0 .. MaxPages /\ faults \in 0 .. MaxFaults
        /\ outcome \in [Pages -> Outcomes] /\ answer \in [Pages -> 0 .. MaxPages]
        /\ requestor \in [Consumers -> 0 .. MaxPages] /\ sent \in [Consumers -> 0 .. MaxPages]
        /\ unconfirmed \in [Consumers -> 0 .. Window]
        /\ controller \in [Consumers -> {"none", "active", "failed", "stopping"}]
    BY Numbers DEF Init, Outcomes
  <2>2. /\ alive \in [Consumers -> BOOLEAN] /\ wanted \in [Consumers -> BOOLEAN]
        /\ warm \in [Consumers -> BOOLEAN] /\ watched \in [Consumers -> BOOLEAN]
        /\ threw \in BOOLEAN /\ disturbed \in BOOLEAN /\ \A c \in Consumers : ~wanted[c]
    BY Zenon DEF Init
  <2>3. /\ mailbox \in [Consumers -> Seq(FetchMsg \cup DeliveryMsg)]
        /\ stash \in [Consumers -> Seq(FetchMsg)] /\ transit \in [Consumers -> Seq(Pages)]
        /\ inbox \in Seq(IndexMsg)
    BY DEF Init
  <2>4. producers \in [Consumers -> [known : BOOLEAN, demand : BOOLEAN]]
    <3>1. Unknown \in [known : BOOLEAN, demand : BOOLEAN]
      BY DEF Unknown
    <3>2. QED
      BY <3>1 DEF Init
  <2>5. retry \in [Consumers -> {NoTimer} \cup
                       [set : {TRUE}, page : Pages, attempt : 2 .. MaxAttempts]]
    BY DEF Init
  <2>6. QED
    BY <2>1, <2>2, <2>3, <2>4, <2>5 DEF TypeOK
<1>2. DOMAIN << >> = {}
  OBVIOUS
<1>3. \A c \in Consumers :
         /\ mailbox[c] = << >> /\ stash[c] = << >> /\ transit[c] = << >> /\ requestor[c] = 0
         /\ retry[c] = NoTimer /\ sent[c] = 0 /\ producers[c] = Unknown /\ ~wanted[c]
         /\ controller[c] = "none" /\ alive[c]
  BY DEF Init
<1>4. inbox = << >> /\ asks = 0 /\ ~threw /\ \A p \in Pages : outcome[p] = "none"
  BY DEF Init
<1>5. \A c \in Consumers : Line(c)
  BY <1>2, <1>3 DEF Line, Grow
<1>6. \A c \in Consumers : Chain(c)
  BY <1>2, <1>3, <1>4 DEF Chain, Grow, Above, AtMostOne, NoTimer
<1>7. \A c \in Consumers : Made(c)
  BY <1>2, <1>3, <1>4 DEF Made, Reached, Above, NoTimer
<1>8. WaitInv
  <2>1. \A p \in Pages : HostOf[p] \in Consumers /\ p # 0
    BY Numbers
  <2>2. QED
    BY <1>2, <1>3, <1>4, <2>1 DEF WaitInv, InLine, InQueue
<1>9. \A c \in Consumers : Punctual(c)
  <2>1. \A c \in Consumers : Timeouts(c) = {}
    BY <1>4 DEF Timeouts
  <2>2. \A c \in Consumers, p \in Pages : ~UnderWay(c, p)
    BY <1>2, <1>3, <1>4 DEF UnderWay, NoTimer
  <2>3. QED
    BY <2>1, <2>2 DEF Punctual
<1>10. OnlyATimeoutShifts
  BY <1>4 DEF OnlyATimeoutShifts
<1>11. \A c \in Consumers : Demand(c)
  BY <1>2, <1>3, <1>4 DEF Demand, AtMostOne, Unknown
<1>12. QED
  BY <1>1, <1>2, <1>4, <1>5, <1>6, <1>7, <1>8, <1>9, <1>10, <1>11
     DEF IInv, LineInv, ChainInv, MadeInv, PunctualInv, DemandInv

LEMMA StepInvariant ==
    ASSUME IInv, [Next]_vars
    PROVE  IInv'
<1>1. /\ TypeOK /\ LineInv /\ ChainInv /\ MadeInv /\ WaitInv /\ PunctualInv
      /\ OnlyATimeoutShifts /\ DemandInv
  BY DEF IInv
<1>2. TypeOK'
  BY <1>1, TypeStep
<1>3. LineInv' /\ \A c \in Consumers, p \in Nat : Reached(c, p) => Reached(c, p)'
  BY <1>1, LineStep
<1>4. ChainInv' /\ MadeInv'
  BY <1>1, <1>2, <1>3, ChainStep
<1>5. WaitInv'
  BY <1>1, <1>2, WaitStep
<1>6. PunctualInv' /\ OnlyATimeoutShifts'
  BY <1>1, <1>2, <1>3, PunctualStep
<1>7. DemandInv'
  BY <1>1, DemandStep
<1>8. QED
  BY <1>2, <1>3, <1>4, <1>5, <1>6, <1>7 DEF IInv

\* Everything below is a consequence of this.
THEOREM Invariance == Spec => []IInv
<1>1. Init => IInv
  BY InitInvariant
<1>2. IInv /\ [Next]_vars => IInv'
  BY StepInvariant
<1>3. QED
  BY <1>1, <1>2, PTL DEF Spec

\* Types; a controller has a wish only while it runs, and has room for it.
THEOREM TypeCorrect == Spec => []TypeOK
<1>1. IInv => TypeOK
  BY DEF IInv
<1>2. QED
  BY <1>1, Invariance, PTL

\* How often a page stands in a queue of growing pages.
LEMMA WaitsSize ==
    ASSUME NEW queue \in Seq(FetchMsg \cup DeliveryMsg), Grow(queue, FetchMsg), NEW p \in Pages
    PROVE  Cardinality(Waits(queue, p)) = IF InQueue(queue, p) THEN 1 ELSE 0
<1>1. \A i \in DOMAIN queue : queue[i] = FetchAllProducts(p) <=> queue[i] \in FetchMsg /\ queue[i].page = p
  BY ConsumerMessages
<1>2. CASE InQueue(queue, p)
  <2>1. PICK i \in DOMAIN queue : queue[i] \in FetchMsg /\ queue[i].page = p
    BY <1>2 DEF InQueue
  <2>2. ASSUME NEW j \in Waits(queue, p) PROVE j = i
    <3>1. j \in DOMAIN queue /\ queue[j] \in FetchMsg /\ queue[j].page = p
      BY <1>1, <2>2 DEF Waits
    <3>2. ~(i < j) /\ ~(j < i)
      <4>1. ~(p < p)
        BY Numbers
      <4>2. QED
        BY <2>1, <3>1, <4>1 DEF Grow
    <3>3. i \in Nat /\ j \in Nat
      BY <3>1
    <3>4. QED
      BY <3>2, <3>3
  <2>3. Waits(queue, p) = {i}
    BY <1>1, <2>1, <2>2 DEF Waits
  <2>4. QED
    BY <1>2, <2>3, FS_Singleton
<1>3. CASE ~InQueue(queue, p)
  <2>1. Waits(queue, p) = {}
    BY <1>1, <1>3 DEF Waits, InQueue
  <2>2. QED
    BY <1>3, <2>1, FS_EmptySet
<1>4. QED
  BY <1>2, <1>3

\* While its node is up, a page that has neither an answer nor a timeout is in exactly one
\* place of the consumer, and one that has is in none: no page is lost, or served twice.
THEOREM NoPageIsLost == Spec => []PageIsInOnePlace
<1>1. ASSUME IInv PROVE PageIsInOnePlace
  <2>1. SUFFICES ASSUME NEW p \in Pages, NEW c \in Consumers, c = HostOf[p], alive[c]
                 PROVE  Places(c, p) = (IF outcome[p] = "waiting" THEN 1 ELSE 0)
    BY Numbers DEF PageIsInOnePlace
  <2>2. TypeOK /\ Line(c) /\ (outcome[p] = "waiting" <=> InLine(c, p))
    BY <1>1, <2>1 DEF IInv, LineInv, WaitInv
  <2>3. /\ mailbox[c] \in Seq(FetchMsg \cup DeliveryMsg) /\ stash[c] \in Seq(FetchMsg \cup DeliveryMsg)
        /\ Grow(mailbox[c], FetchMsg) /\ Grow(stash[c], FetchMsg)
    BY <2>2 DEF TypeOK, Line
  <2>4. /\ Cardinality(Waits(mailbox[c], p)) = IF InQueue(mailbox[c], p) THEN 1 ELSE 0
        /\ Cardinality(Waits(stash[c], p)) = IF InQueue(stash[c], p) THEN 1 ELSE 0
    BY <2>3, WaitsSize
  <2>5. requestor[c] = p => ~InQueue(stash[c], p) /\ ~InQueue(mailbox[c], p)
    BY <2>2, Numbers, TurnIsUnique
  <2>6. InQueue(stash[c], p) => ~InQueue(mailbox[c], p)
    <3>1. \A i \in DOMAIN stash[c] : Above(stash[c][i].page, mailbox[c], FetchMsg)
      BY <2>2 DEF Line
    <3>2. ~(p < p)
      BY Numbers
    <3>3. QED
      BY <3>1, <3>2 DEF InQueue, Above
  <2>7. QED
    BY <2>2, <2>4, <2>5, <2>6 DEF Places, InLine
<1>2. QED
  BY <1>1, Invariance, PTL

\* A page gets the response to its own request, unless an earlier page of the same consumer
\* has timed out.
THEOREM AnswersAreForTheirPage == Spec => []OnlyATimeoutShifts
<1>1. IInv => OnlyATimeoutShifts
  BY DEF IInv
<1>2. QED
  BY <1>1, Invariance, PTL

\* The index answers the requests of a consumer in their order, each of them at most once.
THEOREM InOrder == Spec => ResponsesInOrder
<1>1. ASSUME IInv, [Next]_vars, NEW c \in Consumers,
             sent'[c] # sent[c] \/ Len(transit'[c]) > Len(transit[c])
      PROVE  sent'[c] > sent[c]
  <2>1. /\ TypeOK /\ Chain(c) /\ Made(c)
        /\ ReceiveFetch(c) \/ Deliver(c) \/ Ordinary(c)
    BY <1>1, StepKinds DEF IInv, ChainInv, MadeInv
  <2>2. transit[c] \in Seq(Pages) /\ sent[c] \in Nat /\ Pages \subseteq Nat
    BY <2>1, Numbers DEF TypeOK
  <2>3. Len(transit[c]) \in Nat /\ Len(<< >>) = 0
    BY <2>2
  <2>4. ASSUME sent'[c] = sent[c], transit'[c] = transit[c] \/ transit'[c] = << >> PROVE FALSE
    BY <1>1, <2>3, <2>4
  <2>5. CASE ReceiveFetch(c)
    <3>1. sent'[c] = sent[c] /\ transit'[c] = transit[c]
      BY <2>5 DEF ReceiveFetch, controllerVars
    <3>2. QED
      BY <2>4, <3>1
  <2>6. CASE Deliver(c)
    <3>1. sent'[c] = sent[c] /\ transit[c] # << >> /\ transit'[c] = Tail(transit[c])
      BY <2>1, <2>6 DEF Deliver, indexVars, TypeOK
    <3>2. Len(Tail(transit[c])) = Len(transit[c]) - 1
      BY <2>2, <3>1
    <3>3. QED
      BY <1>1, <2>3, <3>1, <3>2
  <2>7. CASE Ordinary(c)
    <3>1. CASE Keeps(c)
      BY <2>4, <3>1 DEF Keeps
    <3>2. ASSUME NEW p \in Pages, Retries(c, p) PROVE FALSE
      BY <2>4, <3>2 DEF Retries
    <3>3. ASSUME NEW p \in Pages, Turns(c, p), Answers(c, p) PROVE sent'[c] > sent[c]
      BY <2>1, <2>2, <3>3, TurnsInOrder DEF Answers
    <3>4. QED
      BY <2>7, <3>1, <3>2, <3>3 DEF Ordinary
  <2>8. QED
    BY <2>1, <2>5, <2>6, <2>7
<1>2. IInv /\ [Next]_vars =>
        [\A c \in Consumers : sent'[c] # sent[c] \/ Len(transit'[c]) > Len(transit[c])
            => sent'[c] > sent[c]]_vars
  BY <1>1
<1>3. QED
  BY <1>2, Invariance, PTL DEF Spec, ResponsesInOrder

\* Until a web node goes down or another handler fails, the index sends a response only to a
\* controller that has asked for it, and none of its handlers throws.
THEOREM IndexWorks == Spec => []UndisturbedIndexWorks
<1>1. IInv => UndisturbedIndexWorks
  BY DEF IInv, DemandInv, Demand, UndisturbedIndexWorks
<1>2. QED
  BY <1>1, Invariance, PTL

-----------------------------------------------------------------------------
(* The contents of an index.  ProductIndex has state and a mailbox of its  *)
(* own: QuerySideThrows stands there for all that happens above.           *)

\* Messages and entries are about events that are there, an entry about those of its
\* product.
GivenInv ==
    /\ \A i \in DOMAIN mail : mail[i].type = "Found" => mail[i].event <= Len(events)
    /\ \A p \in Products : \A i \in DOMAIN index[p].items :
          index[p].items[i] <= Len(events) /\ events[index[p].items[i]] = p
    /\ \A k \in Events : k > Len(events) => left[k] = 0

\* What is shown, known and on its way, together.
ContentsInv == ContentsTypeOK /\ GivenInv /\ ContentsAccount

\* Messages differ by their types, and those of a type by what they are for.
LEMMA MessagesDiffer ==
    /\ \A j, k : Found(j) = Found(k) => j = k
    /\ \A p, q : Result(p) = Result(q) => p = q
    /\ \A k : Found(k) # Failure /\ \A p : Found(k) # Result(p)
    /\ \A p : Result(p) # Failure
    /\ \A k : Found(k).type = "Found" /\ Found(k).event = k
    /\ \A p : Result(p).type = "Result" /\ Result(p).product = p
    /\ Failure.type = "Failure"
<1>1. /\ \A k : Found(k).type = "Found" /\ Found(k).event = k
      /\ \A p : Result(p).type = "Result" /\ Result(p).product = p
      /\ Failure.type = "Failure"
  BY DEF Found, Result, Failure
<1>2. /\ \A j, k : Found(j) = Found(k) => j = k
      /\ \A p, q : Result(p) = Result(q) => p = q
      /\ \A k : Found(k) # Failure /\ \A p : Found(k) # Result(p)
      /\ \A p : Result(p) # Failure
  BY <1>1
<1>3. QED
  BY <1>1, <1>2

\* What is counted is a natural number, and something where it is there.
LEMMA CountType ==
    ASSUME NEW S, NEW s \in Seq(S), NEW x
    PROVE  /\ IsFiniteSet({i \in DOMAIN s : s[i] = x})
           /\ Count(s, x) \in Nat
           /\ Count(s, x) = 0 <=> ~Contains(s, x)
<1> DEFINE P == {i \in DOMAIN s : s[i] = x}
<1>1. DOMAIN s = 1 .. Len(s) /\ Len(s) \in Nat
  OBVIOUS
<1>2. IsFiniteSet(1 .. Len(s)) /\ P \in SUBSET (1 .. Len(s))
  BY <1>1, FS_Interval
<1>3. IsFiniteSet(P)
  BY <1>2, FS_Subset
<1>4. Cardinality(P) \in Nat /\ (Cardinality(P) = 0 <=> P = {})
  BY <1>3, FS_CardinalityType, FS_EmptySet
<1>5. QED
  BY <1>3, <1>4 DEF Count, Contains

\* One more at the end of a sequence.
LEMMA CountOfAppend ==
    ASSUME NEW S, NEW s \in Seq(S), NEW x \in S
    PROVE  /\ \A y : Count(Append(s, x), y) = Count(s, y) + IF x = y THEN 1 ELSE 0
           /\ \A y : Contains(Append(s, x), y) <=> x = y \/ Contains(s, y)
<1>1. /\ DOMAIN s = 1 .. Len(s) /\ Len(s) \in Nat
      /\ DOMAIN Append(s, x) = 1 .. Len(s) + 1
      /\ \A i \in DOMAIN s : Append(s, x)[i] = s[i]
      /\ Append(s, x)[Len(s) + 1] = x
  OBVIOUS
<1>2. ASSUME NEW y
      PROVE  Count(Append(s, x), y) = Count(s, y) + IF x = y THEN 1 ELSE 0
  <2> DEFINE P == {i \in DOMAIN s : s[i] = y}
             Q == {i \in DOMAIN Append(s, x) : Append(s, x)[i] = y}
  <2>1. IsFiniteSet(P) /\ Cardinality(P) \in Nat
    BY CountType DEF Count
  <2>2. CASE x = y
    <3>1. Q = P \union {Len(s) + 1} /\ Len(s) + 1 \notin P
      BY <1>1, <2>2
    <3>2. Cardinality(Q) = Cardinality(P) + 1
      BY <2>1, <3>1, FS_AddElement
    <3>3. QED
      BY <2>2, <3>2 DEF Count
  <2>3. CASE x # y
    <3>1. Q = P
      BY <1>1, <2>3
    <3>2. Count(Append(s, x), y) = Count(s, y) /\ Count(s, y) \in Nat
      BY <2>1, <3>1 DEF Count
    <3>3. QED
      BY <2>3, <3>2
  <2>4. QED
    BY <2>2, <2>3
<1>3. ASSUME NEW y
      PROVE  Contains(Append(s, x), y) <=> x = y \/ Contains(s, y)
  BY <1>1 DEF Contains
<1>4. QED
  BY <1>2, <1>3

\* One less at its beginning.
LEMMA CountOfTail ==
    ASSUME NEW S, NEW s \in Seq(S), s # << >>
    PROVE  /\ Head(s) \in S /\ Tail(s) \in Seq(S)
           /\ \A y : Count(s, y) = Count(Tail(s), y) + IF Head(s) = y THEN 1 ELSE 0
           /\ \A y : Contains(s, y) <=> Head(s) = y \/ Contains(Tail(s), y)
           /\ \A i \in DOMAIN Tail(s) : \E j \in DOMAIN s : Tail(s)[i] = s[j]
           /\ \E j \in DOMAIN s : Head(s) = s[j]
<1>1. /\ DOMAIN s = 1 .. Len(s) /\ Len(s) \in Nat \ {0}
      /\ DOMAIN Tail(s) = 1 .. Len(s) - 1
      /\ \A i \in DOMAIN Tail(s) : Tail(s)[i] = s[i + 1]
      /\ Head(s) = s[1] /\ Head(s) \in S /\ Tail(s) \in Seq(S)
  OBVIOUS
<1>2. ASSUME NEW y
      PROVE  Count(s, y) = Count(Tail(s), y) + IF Head(s) = y THEN 1 ELSE 0
  <2> DEFINE P == {i \in DOMAIN s : s[i] = y}
             Q == {i \in DOMAIN Tail(s) : Tail(s)[i] = y}
             f == [i \in Q |-> i + 1]
  <2>1. IsFiniteSet(P) /\ IsFiniteSet(Q) /\ Cardinality(P) \in Nat
    BY <1>1, CountType DEF Count
  <2>2. f \in Bijection(Q, P \ {1})
    <3>1. \A i \in Q : i \in Int /\ f[i] \in P \ {1}
      BY <1>1
    <3>2. \A i, j \in Q : f[i] = f[j] => i = j
      BY <3>1
    <3>3. \A k \in P \ {1} : k - 1 \in Q /\ f[k - 1] = k
      BY <1>1
    <3> HIDE DEF P, Q
    <3>4. f \in [Q -> P \ {1}] /\ \A k \in P \ {1} : \E i \in Q : f[i] = k
      BY <3>1, <3>3
    <3> HIDE DEF f
    <3>5. QED
      BY <3>2, <3>4, Fun_IsBij
  <2>3. ExistsBijection(Q, P \ {1})
    BY <2>2 DEF ExistsBijection
  <2>4. Cardinality(P \ {1}) = Cardinality(Q)
    BY <2>1, <2>3, FS_Bijection
  <2>5. Cardinality(P \ {1}) = IF 1 \in P THEN Cardinality(P) - 1 ELSE Cardinality(P)
    BY <2>1, FS_RemoveElement
  <2>6. 1 \in P <=> Head(s) = y
    BY <1>1
  <2> HIDE DEF P, Q
  <2>7. Cardinality(P) = Cardinality(Q) + IF Head(s) = y THEN 1 ELSE 0
    BY <2>1, <2>4, <2>5, <2>6
  <2>8. QED
    BY <2>7 DEF Count, P, Q
<1>3. ASSUME NEW y
      PROVE  Contains(s, y) <=> Head(s) = y \/ Contains(Tail(s), y)
  <2>1. ASSUME Contains(s, y), Head(s) # y PROVE Contains(Tail(s), y)
    <3>1. PICK i \in DOMAIN s : s[i] = y
      BY <2>1 DEF Contains
    <3>2. i - 1 \in DOMAIN Tail(s) /\ Tail(s)[i - 1] = y
      BY <1>1, <2>1, <3>1
    <3>3. QED
      BY <3>2 DEF Contains
  <2>2. ASSUME Contains(Tail(s), y) PROVE Contains(s, y)
    <3>1. PICK i \in DOMAIN Tail(s) : Tail(s)[i] = y
      BY <2>2 DEF Contains
    <3>2. i + 1 \in DOMAIN s /\ s[i + 1] = y
      BY <1>1, <3>1
    <3>3. QED
      BY <3>2 DEF Contains
  <2>3. Head(s) = y => Contains(s, y)
    BY <1>1 DEF Contains
  <2>4. QED
    BY <2>1, <2>2, <2>3
<1>4. \A i \in DOMAIN Tail(s) : i + 1 \in DOMAIN s /\ Tail(s)[i] = s[i + 1]
  BY <1>1
<1>5. QED
  BY <1>1, <1>2, <1>3, <1>4

\* A message is one of three kinds, and only the first is about an element.
LEMMA MessageOf ==
    ASSUME NEW m \in Messages
    PROVE  /\ m.type = "Found" => m.event \in Events /\ m = Found(m.event)
           /\ m.type = "Result" => m.product \in Products /\ m = Result(m.product)
           /\ m.type = "Failure" => m = Failure
           /\ m.type \in {"Found", "Result", "Failure"}
BY MessagesDiffer DEF Messages

\* Nothing is known of an element that is not there yet.
LEMMA NotThereYet ==
    ASSUME ContentsInv, NEW k \in Events, k > Len(events)
    PROVE  /\ Copies(mail, k) = 0 /\ left[k] = 0
           /\ \A p \in Products : Count(index[p].items, k) = 0
<1>1. /\ mail \in Seq(Messages) /\ left[k] = 0 /\ k \in Int /\ Len(events) \in Int
      /\ \A p \in Products : index[p].items \in Seq(Events)
  BY DEF ContentsInv, ContentsTypeOK, GivenInv, Entries, Events
<1>2. ~Contains(mail, Found(k))
  BY <1>1, MessagesDiffer DEF ContentsInv, GivenInv, Contains
<1>3. \A p \in Products : ~Contains(index[p].items, k)
  BY <1>1 DEF ContentsInv, GivenInv, Contains
<1>4. QED
  BY <1>1, <1>2, <1>3, CountType DEF Copies

\* A new instance has nothing and reads all, and what outlived the restart is in left.
LEMMA RestartStep ==
    ASSUME ContentsInv, NEW box \in Seq(Messages),
           \A i \in DOMAIN box : box[i].type = "Found" => box[i].event <= Len(events),
           StartOver(box), failures' \in 0 .. MaxFailures
    PROVE  ContentsInv'
<1>1. /\ index' = NoIndex /\ pos' = 0 /\ open' = TRUE
      /\ left' = [k \in Events |-> Copies(box, k)]
      /\ mail' = box \/ mail' = Append(box, Failure)
      /\ kind' = kind /\ events' = events /\ asked' = asked /\ lost' = lost
  BY DEF StartOver
<1>2. /\ Failure \in Messages /\ \A k : Failure # Found(k)
  BY MessagesDiffer DEF Messages
<1>3. \A k \in Events : /\ Copies(mail', k) = Copies(box, k)
                            /\ Copies(box, k) \in Nat
  <2> SUFFICES ASSUME NEW k \in Events
               PROVE  Copies(mail', k) = Copies(box, k) /\ Copies(box, k) \in Nat
    OBVIOUS
  <2>1. Copies(box, k) \in Nat
    BY CountType DEF Copies
  <2>2. Count(Append(box, Failure), Found(k)) = Count(box, Found(k)) + 0
    BY <1>2, CountOfAppend
  <2>3. CASE mail' = box
    BY <2>1, <2>3
  <2>4. CASE mail' = Append(box, Failure)
    <3>1. Copies(mail', k) = Count(Append(box, Failure), Found(k))
      BY <2>4 DEF Copies
    <3>2. QED
      BY <2>1, <2>2, <3>1 DEF Copies
  <2>5. QED
    BY <1>1, <2>3, <2>4
<1>4. mail' \in Seq(Messages)
  BY <1>1, <1>2
<1>5. \A p \in Products : index'[p] = Absent
  BY <1>1 DEF NoIndex
<1>6. ContentsTypeOK'
  <2>1. Absent \in Entries'
    BY DEF Absent, Entries
  <2>2. index' \in [Products -> Entries']
    BY <1>1, <2>1 DEF NoIndex
  <2>3. left' \in [Events -> Nat]
    BY <1>1, <1>3
  <2>4. pos' \in 0 .. Len(events')
    BY <1>1 DEF ContentsInv, ContentsTypeOK
  <2>5. QED
    BY <1>1, <1>4, <2>2, <2>3, <2>4 DEF ContentsInv, ContentsTypeOK
<1>7. GivenInv'
  <2>1. \A i \in DOMAIN mail' : mail'[i].type = "Found" => mail'[i].event <= Len(events')
    <3>1. CASE mail' = box
      BY <1>1, <3>1
    <3>2. CASE mail' = Append(box, Failure)
      <4>1. \A i \in DOMAIN mail' : 
              \/ i \in DOMAIN box /\ mail'[i] = box[i]
              \/ mail'[i] = Failure
        BY <3>2, <1>2
      <4>2. QED
        BY <1>1, <4>1, MessagesDiffer
    <3>3. QED
      BY <1>1, <3>1, <3>2
  <2>2. \A p \in Products : index'[p].items = << >>
    BY <1>5 DEF Absent
  <2>3. ASSUME NEW k \in Events, k > Len(events') PROVE left'[k] = 0
    <3>1. k \in Int /\ Len(events) \in Int
      BY DEF ContentsInv, ContentsTypeOK, Events
    <3>2. ~Contains(box, Found(k))
      BY <1>1, <2>3, <3>1, MessagesDiffer DEF Contains
    <3>3. QED
      BY <1>1, <3>2, CountType DEF Copies
  <2>4. QED
    BY <2>1, <2>2, <2>3 DEF GivenInv
<1>8. ContentsAccount'
  <2>1. NothingMissed'
    BY <1>1 DEF NothingMissed
  <2>2. SalesAccount'
    <3> SUFFICES ASSUME NEW k \in 1 .. Len(events)
                 PROVE  Count(index'[events[k]].items, k) + Copies(mail', k)
                          = left'[k] + (IF k <= pos' THEN 1 ELSE 0)
      BY <1>1 DEF SalesAccount
    <3>1. events[k] \in Products /\ k \in Events
      BY BoundsAssumption DEF ContentsInv, ContentsTypeOK, Events
    <3>2. Count(<< >>, k) = 0
      <4>1. << >> \in Seq(Events) /\ ~Contains(<< >>, k)
        BY DEF Contains
      <4>2. QED
        BY <4>1, CountType
    <3>3. index'[events[k]].items = << >>
      BY <1>5, <3>1 DEF Absent
    <3>4. /\ left'[k] = Copies(box, k) /\ Copies(mail', k) = Copies(box, k)
          /\ Copies(box, k) \in Nat
      BY <1>1, <1>3, <3>1
    <3>5. QED
      BY <1>1, <3>2, <3>3, <3>4
  <2>3. OneWarningPerInstant'
    BY <1>5 DEF OneWarningPerInstant, Absent
  <2>4. DataIsComing'
    BY <1>5 DEF DataIsComing, Absent
  <2>5. QED
    BY <2>1, <2>2, <2>3, <2>4 DEF ContentsAccount
<1>9. QED
  BY <1>6, <1>7, <1>8 DEF ContentsInv

\* A message arrives: the next element, an answer to a request, or a failure.
LEMMA ArrivalStep ==
    ASSUME ContentsInv, NEW m \in Messages, mail' = Append(mail, m),
           UNCHANGED << kind, events, index, lost, left >>,
           \/ pos' = pos /\ m.type # "Found"
           \/ pos' = pos + 1 /\ pos < Len(events) /\ m = Found(pos + 1),
           open' \in BOOLEAN, failures' \in 0 .. MaxFailures,
           asked' \in [Products -> 0 .. MaxAsked],
           \A p \in Products : asked'[p] = asked[p] \/ m = Result(p)
    PROVE  ContentsInv'
<1>1. /\ mail \in Seq(Messages) /\ Len(events) \in Nat /\ pos \in 0 .. Len(events)
      /\ \A k \in 1 .. Len(events) : k \in Events /\ events[k] \in Products
      /\ \A k \in Events : left[k] \in Nat
  <2>1. /\ mail \in Seq(Messages) /\ events \in Seq(Products) /\ Len(events) <= MaxEvents
        /\ pos \in 0 .. Len(events) /\ left \in [Events -> Nat] /\ MaxEvents \in Nat
    BY BoundsAssumption DEF ContentsInv, ContentsTypeOK
  <2>2. \A k \in 1 .. Len(events) : k \in Events /\ events[k] \in Products
    BY <2>1 DEF Events
  <2>3. Len(events) \in Nat
    BY <2>1
  <2>4. \A k \in Events : left[k] \in Nat
    BY <2>1
  <2>5. QED
    BY <2>1, <2>2, <2>3, <2>4, Zenon
<1>2. /\ mail' \in Seq(Messages) /\ pos' \in 0 .. Len(events)
      /\ \A y : Contains(mail', y) <=> m = y \/ Contains(mail, y)
  BY <1>1, CountOfAppend
<1>3. \A k : Copies(mail', k) = Copies(mail, k) + IF m = Found(k) THEN 1 ELSE 0
  <2> SUFFICES ASSUME NEW k
               PROVE  Copies(mail', k)
                        = Copies(mail, k) + IF m = Found(k) THEN 1 ELSE 0
    OBVIOUS
  <2>1. Count(Append(mail, m), Found(k))
          = Count(mail, Found(k)) + IF m = Found(k) THEN 1 ELSE 0
    BY <1>1, CountOfAppend
  <2>2. Copies(mail', k) = Count(Append(mail, m), Found(k))
    BY DEF Copies
  <2>3. QED
    BY <2>1, <2>2 DEF Copies
<1>4. ContentsTypeOK'
  <2>1. Entries' = Entries
    BY DEF Entries
  <2>2. QED
    BY <1>1, <1>2, <2>1 DEF ContentsInv, ContentsTypeOK
<1>5. GivenInv'
  <2>1. ASSUME NEW i \in DOMAIN mail', mail'[i].type = "Found"
        PROVE  mail'[i].event <= Len(events')
    <3>1. (i \in DOMAIN mail /\ mail'[i] = mail[i]) \/ mail'[i] = m
      BY <1>1
    <3>2. CASE i \in DOMAIN mail /\ mail'[i] = mail[i]
      BY <2>1, <3>2 DEF ContentsInv, GivenInv
    <3>3. CASE mail'[i] = m
      <4>1. m = Found(pos + 1) /\ pos < Len(events) /\ m.event = pos + 1
        BY <2>1, <3>3, MessagesDiffer
      <4>2. QED
        BY <1>1, <3>3, <4>1
    <3>4. QED
      BY <3>1, <3>2, <3>3
  <2>2. QED
    BY <2>1 DEF ContentsInv, GivenInv
<1>6. NothingMissed'
  <2> SUFFICES ASSUME NEW k \in 1 .. pos' PROVE Holds(k)' \/ Contains(mail', Found(k))
    BY DEF NothingMissed
  <2>1. CASE k \in 1 .. pos
    <3>1. Holds(k) \/ Contains(mail, Found(k))
      BY <2>1 DEF ContentsInv, ContentsAccount, NothingMissed
    <3>2. Holds(k)' <=> Holds(k)
      BY DEF Holds
    <3>3. QED
      BY <1>2, <3>1, <3>2
  <2>2. CASE k = pos + 1 /\ m = Found(pos + 1)
    BY <1>2, <2>2
  <2>3. QED
    BY <1>1, <2>1, <2>2
<1>7. SalesAccount'
  <2> SUFFICES ASSUME kind = "sold", NEW k \in 1 .. Len(events)
               PROVE  Count(index[events[k]].items, k) + Copies(mail', k)
                        = left[k] + (IF k <= pos' THEN 1 ELSE 0)
    BY DEF SalesAccount
  <2>1. /\ Count(index[events[k]].items, k) + Copies(mail, k)
             = left[k] + (IF k <= pos THEN 1 ELSE 0)
        /\ left[k] \in Nat
    BY <1>1 DEF ContentsInv, ContentsAccount, SalesAccount
  <2>2. Count(index[events[k]].items, k) \in Nat /\ Copies(mail, k) \in Nat
    <3>1. index[events[k]].items \in Seq(Events)
      BY <1>1 DEF ContentsInv, ContentsTypeOK, Entries
    <3>2. QED
      BY <1>1, <3>1, CountType DEF Copies
  <2>3. Copies(mail', k) = Copies(mail, k) + IF m = Found(k) THEN 1 ELSE 0
    BY <1>3
  <2>4. \/ pos' = pos /\ m # Found(k)
        \/ pos' = pos + 1 /\ (m = Found(k) <=> k = pos + 1)
    BY MessagesDiffer
  <2> HIDE DEF Copies
  <2>5. QED
    BY <1>1, <2>1, <2>2, <2>3, <2>4
<1>8. OneWarningPerInstant'
  BY DEF ContentsInv, ContentsAccount, OneWarningPerInstant
<1>9. DataIsComing'
  BY <1>2 DEF ContentsInv, ContentsAccount, DataIsComing
<1>10. QED
  BY <1>4, <1>5, <1>6, <1>7, <1>8, <1>9 DEF ContentsInv, ContentsAccount

\* An entity writes an event: its place was not used before.
LEMMA TagStep ==
    ASSUME ContentsInv, NEW p \in Products, Tag(p)
    PROVE  ContentsInv'
<1> DEFINE L == Len(events)
<1>1. /\ L \in Nat /\ L < MaxEvents /\ MaxEvents \in Nat /\ events \in Seq(Products)
      /\ events' = Append(events, p) /\ Len(events') = L + 1
      /\ events' \in Seq(Products) /\ L + 1 \in Events
      /\ pos \in 0 .. L
      /\ UNCHANGED << kind, pos, open, mail, asked, index, failures, lost, left >>
  BY BoundsAssumption DEF ContentsInv, ContentsTypeOK, Tag, Events
<1>2. events'[L + 1] = p /\ \A k \in 1 .. L : events'[k] = events[k]
  BY <1>1
<1>3. ContentsTypeOK'
  <2>1. Entries' = Entries
    BY <1>1 DEF Entries
  <2>2. Len(events') <= MaxEvents /\ pos' \in 0 .. Len(events')
    BY <1>1
  <2>3. QED
    BY <1>1, <2>1, <2>2 DEF ContentsInv, ContentsTypeOK
<1>4. GivenInv'
  <2>1. /\ \A i \in DOMAIN mail : mail[i].type = "Found" => mail[i].event \in Int
        /\ \A q \in Products : \A i \in DOMAIN index[q].items : index[q].items[i] \in Int
    <3>1. \A i \in DOMAIN mail : mail[i] \in Messages
      BY DEF ContentsInv, ContentsTypeOK
    <3>2. \A i \in DOMAIN mail : mail[i].type = "Found" => mail[i].event \in Int
      BY <3>1, MessageOf DEF Events
    <3>3. \A q \in Products : index[q].items \in Seq(Events)
      BY DEF ContentsInv, ContentsTypeOK, Entries
    <3>4. \A q \in Products : \A i \in DOMAIN index[q].items : index[q].items[i] \in Events
      BY <3>3
    <3>5. QED
      BY <3>2, <3>4 DEF Events
  <2>2. \A x \in Int : x <= L => x <= Len(events')
    BY <1>1
  <2>3. \A x \in Int : x > Len(events') => x > L
    BY <1>1
  <2>4. ASSUME NEW q \in Products, NEW i \in DOMAIN index[q].items
        PROVE  index[q].items[i] <= Len(events') /\ events'[index[q].items[i]] = q
    <3>1. index[q].items[i] <= L /\ events[index[q].items[i]] = q
      BY DEF ContentsInv, GivenInv
    <3>2. index[q].items[i] \in 1 .. L
      <4>1. index[q].items \in Seq(Events)
        BY DEF ContentsInv, ContentsTypeOK, Entries
      <4>2. index[q].items[i] \in Events
        BY <4>1
      <4>3. QED
        BY <1>1, <3>1, <4>2 DEF Events
    <3>3. QED
      BY <1>1, <1>2, <3>1, <3>2
  <2>5. \A i \in DOMAIN mail : mail[i].type = "Found" => mail[i].event <= Len(events')
    BY <2>1, <2>2 DEF ContentsInv, GivenInv
  <2>6. \A k \in Events : k > Len(events') => left[k] = 0
    BY <2>3 DEF ContentsInv, GivenInv, Events
  <2>7. QED
    BY <1>1, <2>4, <2>5, <2>6 DEF GivenInv
<1>5. NothingMissed'
  <2> SUFFICES ASSUME NEW k \in 1 .. pos PROVE Holds(k)' \/ Contains(mail, Found(k))
    BY <1>1 DEF NothingMissed
  <2>1. Holds(k) \/ Contains(mail, Found(k))
    BY DEF ContentsInv, ContentsAccount, NothingMissed
  <2>2. Holds(k)' <=> Holds(k)
    <3>1. events'[k] = events[k]
      BY <1>1, <1>2
    <3>2. QED
      BY <1>1, <3>1 DEF Holds
  <2>3. QED
    BY <2>1, <2>2
<1>6. SalesAccount'
  <2> SUFFICES ASSUME kind = "sold", NEW k \in 1 .. L + 1
               PROVE  Count(index[events'[k]].items, k) + Copies(mail, k)
                        = left[k] + (IF k <= pos THEN 1 ELSE 0)
    BY <1>1 DEF SalesAccount, Copies
  <2>1. CASE k \in 1 .. L
    BY <1>2, <2>1 DEF ContentsInv, ContentsAccount, SalesAccount
  <2>2. CASE k = L + 1
    <3>1. k \in Events /\ k > L /\ ~(k <= pos)
      BY <1>1, <2>2
    <3>2. Copies(mail, k) = 0 /\ left[k] = 0 /\ Count(index[p].items, k) = 0
      BY <3>1, NotThereYet
    <3>3. QED
      BY <1>2, <2>2, <3>1, <3>2
  <2>3. QED
    BY <1>1, <2>1, <2>2
<1>7. OneWarningPerInstant' /\ DataIsComing'
  BY <1>1 DEF ContentsInv, ContentsAccount, OneWarningPerInstant, DataIsComing
<1>8. QED
  BY <1>3, <1>4, <1>5, <1>6, <1>7 DEF ContentsInv, ContentsAccount

\* A request is lost.
LEMMA LoseStep ==
    ASSUME ContentsInv, NEW p \in Products, Lose(p)
    PROVE  ContentsInv'
<1>1. /\ UNCHANGED << kind, events, pos, open, mail, index, failures, left >>
      /\ asked' \in [Products -> 0 .. MaxAsked]
      /\ lost' \in 0 .. MaxLost /\ lost' > 0
  BY BoundsAssumption DEF ContentsInv, ContentsTypeOK, Lose
<1>2. ContentsTypeOK'
  <2>1. Entries' = Entries
    BY <1>1 DEF Entries
  <2>2. QED
    BY <1>1, <2>1 DEF ContentsInv, ContentsTypeOK
<1>3. GivenInv'
  BY <1>1 DEF ContentsInv, GivenInv
<1>4. NothingMissed' /\ SalesAccount' /\ OneWarningPerInstant'
  BY <1>1 DEF ContentsInv, ContentsAccount, NothingMissed, Holds,
              SalesAccount, Copies,
              OneWarningPerInstant
<1>5. DataIsComing'
  BY <1>1 DEF DataIsComing
<1>6. QED
  BY <1>2, <1>3, <1>4, <1>5 DEF ContentsInv, ContentsAccount

\* An event is added to a list, or to a set unless one of its instant is there.
LEMMA ItemAdded ==
    ASSUME NEW items \in Seq(Events), NEW k \in Events,
           NEW new, new = AddItem(items, k)
    PROVE  /\ new \in Seq(Events) /\ new # << >>
           /\ \A i \in DOMAIN items : i \in DOMAIN new /\ new[i] = items[i]
           /\ \A i \in DOMAIN new : (i \in DOMAIN items /\ new[i] = items[i]) \/ new[i] = k
           /\ \E i \in DOMAIN new : InstantOf[new[i]] = InstantOf[k]
           /\ kind = "warnings" /\ (\A i, j \in DOMAIN items :
                    InstantOf[items[i]] = InstantOf[items[j]] => i = j)
                => \A i, j \in DOMAIN new : InstantOf[new[i]] = InstantOf[new[j]] => i = j
           /\ kind # "warnings" => new = Append(items, k)
<1>1. CASE kind = "warnings" /\ \E i \in DOMAIN items : InstantOf[items[i]] = InstantOf[k]
  <2>1. new = items
    BY <1>1 DEF AddItem
  <2>2. new # << >>
    BY <1>1, <2>1
  <2>3. QED
    BY <1>1, <2>1, <2>2
<1>2. CASE ~(kind = "warnings" /\ \E i \in DOMAIN items : InstantOf[items[i]] = InstantOf[k])
  <2>1. new = Append(items, k)
    BY <1>2 DEF AddItem
  <2>2. /\ DOMAIN items = 1 .. Len(items) /\ Len(items) \in Nat
        /\ DOMAIN new = 1 .. Len(items) + 1 /\ new \in Seq(Events)
        /\ new[Len(items) + 1] = k /\ new # << >>
    BY <2>1
  <2>3. \A i \in DOMAIN items : new[i] = items[i]
    BY <2>1
  <2>4. /\ \A i \in DOMAIN items : i \in DOMAIN new /\ new[i] = items[i]
        /\ \A i \in DOMAIN new :
              \/ i \in DOMAIN items /\ new[i] = items[i]
              \/ i = Len(items) + 1 /\ new[i] = k
        /\ Len(items) + 1 \in DOMAIN new
    <3>1. Len(items) + 1 \in DOMAIN new
      BY <2>2
    <3>2. \A i \in DOMAIN items : i \in DOMAIN new /\ new[i] = items[i]
      BY <2>2, <2>3
    <3>3. ASSUME NEW i \in DOMAIN new
          PROVE  \/ i \in DOMAIN items /\ new[i] = items[i]
                 \/ i = Len(items) + 1 /\ new[i] = k
      <4>1. i \in 1 .. Len(items) + 1
        BY <2>2
      <4>2. i \in 1 .. Len(items) \/ i = Len(items) + 1
        BY <2>2, <4>1
      <4>3. CASE i \in 1 .. Len(items)
        <5>1. i \in DOMAIN items
          BY <2>2, <4>3
        <5>2. QED
          BY <2>3, <5>1
      <4>4. CASE i = Len(items) + 1
        BY <2>2, <4>4
      <4>5. QED
        BY <4>2, <4>3, <4>4
    <3>4. QED
      BY <3>1, <3>2, <3>3
  <2>5. ASSUME kind = "warnings",
               \A i, j \in DOMAIN items : InstantOf[items[i]] = InstantOf[items[j]] => i = j
        PROVE  \A i, j \in DOMAIN new : InstantOf[new[i]] = InstantOf[new[j]] => i = j
    BY <1>2, <2>4, <2>5
  <2>6. \E i \in DOMAIN new : InstantOf[new[i]] = InstantOf[k]
    BY <2>2, <2>4
  <2>7. QED
    BY <2>1, <2>2, <2>4, <2>5, <2>6
<1>3. QED
  BY <1>1, <1>2

\* The first message is handled, and gone.
LEMMA HeadHandled ==
    ASSUME ContentsInv, mail # << >>
    PROVE  /\ Head(mail) \in Messages /\ Tail(mail) \in Seq(Messages)
           /\ \A i \in DOMAIN Tail(mail) :
                 Tail(mail)[i].type = "Found" => Tail(mail)[i].event <= Len(events)
           /\ Head(mail).type = "Found" =>
                 /\ Head(mail).event \in 1 .. Len(events)
                 /\ events[Head(mail).event] \in Products
           /\ \A k : Copies(mail, k)
                      = Copies(Tail(mail), k) + IF Head(mail) = Found(k) THEN 1 ELSE 0
           /\ \A k : Copies(mail, k) \in Nat /\ Copies(Tail(mail), k) \in Nat
           /\ \A y : Contains(mail, y) <=> Head(mail) = y \/ Contains(Tail(mail), y)
<1>1. mail \in Seq(Messages) /\ events \in Seq(Products) /\ Len(events) \in Nat
  BY DEF ContentsInv, ContentsTypeOK
<1>2. Head(mail) \in Messages /\ Tail(mail) \in Seq(Messages)
  BY <1>1, CountOfTail
<1>3. /\ \A i \in DOMAIN Tail(mail) : \E j \in DOMAIN mail : Tail(mail)[i] = mail[j]
      /\ \E j \in DOMAIN mail : Head(mail) = mail[j]
      /\ \A y : Contains(mail, y) <=> Head(mail) = y \/ Contains(Tail(mail), y)
  BY <1>1, CountOfTail
<1>4. \A k : Copies(mail, k)
                = Copies(Tail(mail), k) + IF Head(mail) = Found(k) THEN 1 ELSE 0
  <2> SUFFICES ASSUME NEW k
               PROVE  Copies(mail, k)
                        = Copies(Tail(mail), k) + IF Head(mail) = Found(k) THEN 1 ELSE 0
    OBVIOUS
  <2>1. Count(mail, Found(k))
          = Count(Tail(mail), Found(k)) + IF Head(mail) = Found(k) THEN 1 ELSE 0
    BY <1>1, CountOfTail
  <2>2. QED
    BY <2>1 DEF Copies
<1>5. \A k : Copies(mail, k) \in Nat /\ Copies(Tail(mail), k) \in Nat
  BY <1>1, <1>2, CountType DEF Copies
<1>6. ASSUME NEW i \in DOMAIN Tail(mail), Tail(mail)[i].type = "Found"
      PROVE  Tail(mail)[i].event <= Len(events)
  BY <1>3, <1>6 DEF ContentsInv, GivenInv
<1>7. ASSUME Head(mail).type = "Found"
      PROVE  Head(mail).event \in 1 .. Len(events) /\ events[Head(mail).event] \in Products
  <2>1. Head(mail).event \in Events
    BY <1>2, <1>7, MessageOf
  <2>2. Head(mail).event <= Len(events)
    BY <1>3, <1>7 DEF ContentsInv, GivenInv
  <2>3. Head(mail).event \in 1 .. Len(events)
    BY <1>1, <2>1, <2>2 DEF Events
  <2>4. QED
    BY <1>1, <2>3
<1>8. QED
  BY <1>2, <1>3, <1>4, <1>5, <1>6, <1>7

\* An event is found: the entry of its product has it, and is asked for where it is new.
LEMMA FoundStep ==
    ASSUME ContentsInv, HandleFound,
           ~FoundThrows(events[Head(mail).event])
    PROVE  ContentsInv'
<1> DEFINE k == Head(mail).event
           p == events[k]
           new == index'[p]
<1>1. /\ mail # << >> /\ Head(mail).type = "Found" /\ ~FoundThrows(p)
      /\ index' = [index EXCEPT ![p] =
            IF kind = "products" THEN Empty
            ELSE [index[p] EXCEPT !.known = TRUE, !.items = AddItem(@, k)]]
      /\ IF kind = "products" \/ ~index[p].known THEN Ask(p) ELSE UNCHANGED asked
      /\ mail' = Tail(mail)
      /\ UNCHANGED << kind, events, pos, open, failures, lost, left >>
  BY DEF HandleFound
<1>2. /\ k \in 1 .. Len(events) /\ k \in Events /\ p \in Products
      /\ Head(mail) = Found(k)
      /\ mail' \in Seq(Messages)
  BY <1>1, HeadHandled, MessageOf
<1>3. /\ kind \in {"products", "sold", "warnings"}
      /\ index \in [Products -> Entries] /\ index[p] \in Entries
      /\ index[p].items \in Seq(Events) /\ asked \in [Products -> 0 .. MaxAsked]
      /\ MaxAsked \in Nat \ {0} /\ Len(events) \in Nat
  <2>1. kind \in {"products", "sold", "warnings"}
    BY KindsAssumption DEF ContentsInv, ContentsTypeOK
  <2>2. /\ index \in [Products -> Entries] /\ index[p] \in Entries
        /\ asked \in [Products -> 0 .. MaxAsked]
        /\ MaxAsked \in Nat \ {0} /\ Len(events) \in Nat
    BY <1>2, BoundsAssumption DEF ContentsInv, ContentsTypeOK
  <2>3. index[p].items \in Seq(Events)
    BY <2>2 DEF Entries
  <2>4. QED
    BY <2>1, <2>2, <2>3
<1> DEFINE added == AddItem(index[p].items, k)
<1> HIDE DEF k, p
<1>4. /\ \A q \in Products : q # p => index'[q] = index[q]
      /\ kind = "products" => new = Empty
      /\ kind # "products" => new = [known |-> TRUE, data |-> index[p].data, items |-> added]
  <2>1. index[p] = [known |-> index[p].known, data |-> index[p].data, items |-> index[p].items]
    BY <1>3 DEF Entries
  <2>2. \A q \in Products : q # p => index'[q] = index[q]
    BY <1>1, <1>2, <1>3
  <2>3. CASE kind = "products"
    BY <1>1, <1>2, <1>3, <2>2, <2>3
  <2>4. CASE kind # "products"
    <3>1. index' = [index EXCEPT ![p] =
              [index[p] EXCEPT !.known = TRUE, !.items = AddItem(@, k)]]
      BY <1>1, <2>4
    <3>2. new = [index[p] EXCEPT !.known = TRUE, !.items = AddItem(@, k)]
      BY <1>2, <1>3, <3>1
    <3>3. QED
      BY <2>1, <2>2, <2>4, <3>2
  <2>5. QED
    BY <2>3, <2>4
<1>5. /\ asked' \in [Products -> 0 .. MaxAsked]
      /\ kind = "products" \/ ~index[p].known => asked'[p] > 0
      /\ \A q \in Products : q # p => asked'[q] = asked[q]
      /\ ~(kind = "products" \/ ~index[p].known) => asked' = asked
  <2>1. CASE kind = "products" \/ ~index[p].known
    <3>1. asked' = [asked EXCEPT ![p] = IF @ < MaxAsked THEN @ + 1 ELSE @]
      BY <1>1, <2>1 DEF Ask
    <3>2. asked[p] \in 0 .. MaxAsked
      BY <1>2, <1>3
    <3>3. (IF asked[p] < MaxAsked THEN asked[p] + 1 ELSE asked[p]) \in 1 .. MaxAsked
      BY <1>3, <3>2
    <3>4. QED
      BY <1>2, <1>3, <2>1, <3>1, <3>3
  <2>2. CASE ~(kind = "products" \/ ~index[p].known)
    BY <1>1, <1>3, <2>2
  <2>3. QED
    BY <2>1, <2>2
<1>6. /\ added \in Seq(Events) /\ added # << >>
      /\ \A i \in DOMAIN index[p].items : i \in DOMAIN added /\ added[i] = index[p].items[i]
      /\ \A i \in DOMAIN added : \/ i \in DOMAIN index[p].items /\ added[i] = index[p].items[i]
                                \/ added[i] = k
      /\ \E i \in DOMAIN added : InstantOf[added[i]] = InstantOf[k]
      /\ kind = "warnings" /\ (\A i, j \in DOMAIN index[p].items :
              InstantOf[index[p].items[i]] = InstantOf[index[p].items[j]] => i = j)
          => \A i, j \in DOMAIN added : InstantOf[added[i]] = InstantOf[added[j]] => i = j
      /\ kind # "warnings" => added = Append(index[p].items, k)
  <2>1. added = AddItem(index[p].items, k)
    BY DEF added
  <2>2. k \in Events /\ index[p].items \in Seq(Events)
    BY <1>2, <1>3
  <2>3. QED
    BY <2>1, <2>2, ItemAdded
<1> HIDE DEF new, added
<1>7. ContentsTypeOK'
  <2>1. new \in Entries
    <3>1. CASE kind = "products"
      <4>1. Empty \in Entries
        BY <3>1 DEF Empty, Entries
      <4>2. QED
        BY <1>4, <3>1, <4>1
    <3>2. CASE kind # "products"
      <4>1. index[p].data \in BOOLEAN
        BY <1>3 DEF Entries
      <4>2. [known |-> TRUE, data |-> index[p].data, items |-> added] \in Entries
        BY <1>6, <3>2, <4>1 DEF Entries
      <4>3. QED
        BY <1>4, <3>2, <4>2
    <3>3. QED
      BY <3>1, <3>2
  <2>2. index' \in [Products -> Entries]
    <3>1. index' = [index EXCEPT ![p] = new]
      BY <1>1, <1>2, <1>3 DEF new
    <3>2. QED
      BY <1>3, <2>1, <3>1
  <2>3. Entries' = Entries
    BY <1>1 DEF Entries
  <2>4. QED
    BY <1>1, <1>2, <1>5, <2>2, <2>3 DEF ContentsInv, ContentsTypeOK
<1>8. GivenInv'
  <2>1. \A i \in DOMAIN mail' : mail'[i].type = "Found" => mail'[i].event <= Len(events')
    BY <1>1, HeadHandled
  <2>2. ASSUME NEW q \in Products, NEW i \in DOMAIN index'[q].items
        PROVE  index'[q].items[i] <= Len(events') /\ events'[index'[q].items[i]] = q
    <3>1. CASE q # p
      BY <1>1, <1>4, <2>2, <3>1 DEF ContentsInv, GivenInv
    <3>2. CASE q = p /\ kind = "products"
      BY <1>4, <2>2, <3>2 DEF new, Empty
    <3>3. CASE q = p /\ kind # "products"
      <4>1. index'[q].items = added /\ i \in DOMAIN added
        BY <1>4, <2>2, <3>3 DEF new
      <4>2. k <= Len(events) /\ events[k] = p
        BY <1>2, <1>3 DEF p
      <4>3. QED
        BY <1>1, <1>2, <1>6, <3>3, <4>1, <4>2 DEF ContentsInv, GivenInv
    <3>4. QED
      BY <3>1, <3>2, <3>3
  <2>3. QED
    BY <1>1, <2>1, <2>2 DEF ContentsInv, GivenInv
<1>9. NothingMissed'
  <2> SUFFICES ASSUME NEW j \in 1 .. pos PROVE Holds(j)' \/ Contains(mail', Found(j))
    BY <1>1 DEF NothingMissed
  <2>1. Holds(j) \/ Contains(mail, Found(j))
    BY DEF ContentsInv, ContentsAccount, NothingMissed
  <2>2. events'[j] = events[j] /\ events[j] \in Products
    BY <1>1 DEF ContentsInv, ContentsTypeOK
  <2>3. CASE events[j] # p
    <3>1. Holds(j)' <=> Holds(j)
      <4>1. index'[events'[j]] = index[events[j]]
        BY <1>4, <2>2, <2>3
      <4>2. QED
        BY <1>1, <4>1 DEF Holds
    <3>2. j # k
      BY <2>3 DEF p
    <3>3. Contains(mail, Found(j)) => Contains(mail', Found(j))
      BY <1>1, <1>2, <3>2, HeadHandled, MessagesDiffer
    <3>4. QED
      BY <2>1, <3>1, <3>3
  <2>4. CASE events[j] = p /\ kind = "products"
    BY <1>1, <1>4, <2>2, <2>4 DEF Holds, new, Empty
  <2>5. CASE events[j] = p /\ kind # "products"
    <3>1. index'[events'[j]].known /\ index'[events'[j]].items = added
      BY <1>4, <2>2, <2>5 DEF new
    <3>2. CASE j = k
      <4>1. CASE kind = "sold"
        <5>1. Contains(added, j)
          <6>1. added = Append(index[p].items, k)
            BY <1>6, <4>1
          <6>2. Contains(Append(index[p].items, k), k)
            BY <1>2, <1>3, CountOfAppend
          <6>3. QED
            BY <3>2, <6>1, <6>2
        <5>2. QED
          BY <1>1, <3>1, <4>1, <5>1 DEF Holds
      <4>2. CASE kind = "warnings"
        <5>1. \E i \in DOMAIN added : InstantOf[added[i]] = InstantOf[j]
          BY <1>6, <3>2
        <5>2. QED
          BY <1>1, <3>1, <4>2, <5>1 DEF Holds
      <4>3. QED
        BY <1>3, <2>5, <4>1, <4>2
    <3>3. CASE j # k /\ Contains(mail, Found(j))
      BY <1>1, <1>2, <3>3, HeadHandled, MessagesDiffer
    <3>4. CASE Holds(j)
      <4>1. CASE kind = "sold"
        <5>1. Contains(index[p].items, j)
          BY <2>5, <3>4, <4>1 DEF Holds
        <5>2. Contains(added, j)
          BY <1>6, <5>1 DEF Contains
        <5>3. QED
          BY <1>1, <3>1, <4>1, <5>2 DEF Holds
      <4>2. CASE kind = "warnings"
        <5>1. \E i \in DOMAIN index[p].items : InstantOf[index[p].items[i]] = InstantOf[j]
          BY <2>5, <3>4, <4>2 DEF Holds
        <5>2. \E i \in DOMAIN added : InstantOf[added[i]] = InstantOf[j]
          BY <1>6, <5>1
        <5>3. QED
          BY <1>1, <3>1, <4>2, <5>2 DEF Holds
      <4>3. QED
        BY <1>3, <2>5, <4>1, <4>2
    <3>5. QED
      BY <2>1, <3>2, <3>3, <3>4
  <2>6. QED
    BY <2>3, <2>4, <2>5
<1>10. SalesAccount'
  <2> SUFFICES ASSUME kind = "sold", NEW j \in 1 .. Len(events)
               PROVE  Count(index'[events[j]].items, j) + Copies(mail', j)
                        = left[j] + (IF j <= pos THEN 1 ELSE 0)
    BY <1>1 DEF SalesAccount, Copies
  <2>1. Count(index[events[j]].items, j) + Copies(mail, j)
          = left[j] + (IF j <= pos THEN 1 ELSE 0)
    BY DEF ContentsInv, ContentsAccount, SalesAccount
  <2>2. /\ Copies(mail, j) = Copies(mail', j) + IF j = k THEN 1 ELSE 0
        /\ Copies(mail', j) \in Nat
    <3>1. Head(mail) = Found(j) <=> j = k
      BY <1>2, MessagesDiffer
    <3>2. /\ Copies(mail, j)
                = Copies(Tail(mail), j) + IF Head(mail) = Found(j) THEN 1 ELSE 0
          /\ Copies(Tail(mail), j) \in Nat
      BY <1>1, HeadHandled
    <3>3. Copies(mail', j) = Copies(Tail(mail), j)
      BY <1>1 DEF Copies
    <3>4. QED
      BY <3>1, <3>2, <3>3
  <2>3. events[j] \in Products /\ index[events[j]].items \in Seq(Events)
    BY DEF ContentsInv, ContentsTypeOK, Entries
  <2>4. Count(index[events[j]].items, j) \in Nat
    BY <2>3, CountType
  <2>5. Count(index'[events[j]].items, j)
          = Count(index[events[j]].items, j) + IF j = k THEN 1 ELSE 0
    <3>1. CASE events[j] # p
      BY <1>4, <2>3, <2>4, <3>1 DEF p
    <3>2. CASE events[j] = p
      <4>1. index'[events[j]].items = Append(index[p].items, k)
        BY <1>4, <1>6, <3>2 DEF new
      <4>2. Count(Append(index[p].items, k), j)
              = Count(index[p].items, j) + IF k = j THEN 1 ELSE 0
        BY <1>2, <1>3, CountOfAppend
      <4>3. QED
        BY <3>2, <4>1, <4>2
    <3>3. QED
      BY <3>1, <3>2
  <2> HIDE DEF Copies
  <2>6. QED
    BY <2>1, <2>2, <2>4, <2>5
<1>11. OneWarningPerInstant'
  <2> SUFFICES ASSUME kind = "warnings", NEW q \in Products
               PROVE  \A i, j \in DOMAIN index'[q].items :
                          InstantOf[index'[q].items[i]] = InstantOf[index'[q].items[j]] => i = j
    BY <1>1 DEF OneWarningPerInstant
  <2>1. \A i, j \in DOMAIN index[q].items :
           InstantOf[index[q].items[i]] = InstantOf[index[q].items[j]] => i = j
    BY DEF ContentsInv, ContentsAccount, OneWarningPerInstant
  <2>2. CASE q # p
    BY <1>4, <2>1, <2>2
  <2>3. CASE q = p
    <3>1. index'[q].items = added
      BY <1>4, <2>3 DEF new
    <3>2. QED
      BY <1>6, <2>1, <2>3, <3>1
  <2>4. QED
    BY <2>2, <2>3
<1>12. DataIsComing'
  <2> SUFFICES ASSUME NEW q \in Products, index'[q].known, ~index'[q].data, ~(lost > 0)
               PROVE  asked'[q] > 0 \/ Contains(mail', Result(q))
    BY <1>1 DEF DataIsComing
  <2>1. Contains(mail, Result(q)) => Contains(mail', Result(q))
    BY <1>1, <1>2, HeadHandled, MessagesDiffer
  <2>2. index[q].known /\ ~index[q].data => asked[q] > 0 \/ Contains(mail, Result(q))
    BY DEF ContentsInv, ContentsAccount, DataIsComing
  <2>3. CASE q # p
    BY <1>4, <1>5, <2>1, <2>2, <2>3
  <2>4. CASE q = p /\ (kind = "products" \/ ~index[p].known)
    BY <1>5, <2>4
  <2>5. CASE q = p /\ ~(kind = "products" \/ ~index[p].known)
    <3>1. index[q].known /\ ~index[q].data
      BY <1>4, <2>5 DEF new
    <3>2. QED
      BY <1>5, <2>1, <2>2, <2>5, <3>1
  <2>6. QED
    BY <2>3, <2>4, <2>5
<1>13. QED
  BY <1>7, <1>8, <1>9, <1>10, <1>11, <1>12 DEF ContentsInv, ContentsAccount

\* An answer fills the entry of its product.
LEMMA ResultStep ==
    ASSUME ContentsInv, HandleResult, ~ResultThrows(Head(mail).product)
    PROVE  ContentsInv'
<1> DEFINE p == Head(mail).product
<1>1. /\ mail # << >> /\ Head(mail).type = "Result" /\ ~ResultThrows(p)
      /\ index' = [index EXCEPT ![p].known = TRUE, ![p].data = TRUE]
      /\ mail' = Tail(mail)
      /\ UNCHANGED << kind, events, pos, open, asked, failures, lost, left >>
  BY DEF HandleResult
<1>2. p \in Products /\ Head(mail) = Result(p) /\ mail' \in Seq(Messages)
  BY <1>1, HeadHandled, MessageOf
<1>3. index \in [Products -> Entries] /\ index[p] \in Entries
  BY <1>2 DEF ContentsInv, ContentsTypeOK
<1>4. /\ \A q \in Products : q # p => index'[q] = index[q]
      /\ index'[p] = [known |-> TRUE, data |-> TRUE, items |-> index[p].items]
      /\ \A q \in Products : index'[q].items = index[q].items
      /\ \A q \in Products : index[q].known => index'[q].known
  <2>1. index[p] = [known |-> index[p].known, data |-> index[p].data, items |-> index[p].items]
    BY <1>3 DEF Entries
  <2>2. /\ \A q \in Products : q # p => index'[q] = index[q]
        /\ index'[p] = [known |-> TRUE, data |-> TRUE, items |-> index[p].items]
    BY <1>1, <1>2, <1>3, <2>1
  <2>3. QED
    BY <2>2
<1>5. \A k : /\ Copies(mail', k) = Copies(mail, k)
             /\ Contains(mail, Found(k)) <=> Contains(mail', Found(k))
  <2> SUFFICES ASSUME NEW k
               PROVE  /\ Copies(mail', k) = Copies(mail, k)
                      /\ Contains(mail, Found(k)) <=> Contains(mail', Found(k))
    OBVIOUS
  <2>1. Head(mail) # Found(k)
    BY <1>2, MessagesDiffer
  <2>2. /\ Copies(mail, k) = Copies(Tail(mail), k) + 0
        /\ Copies(Tail(mail), k) \in Nat
        /\ Contains(mail, Found(k)) <=> Contains(Tail(mail), Found(k))
    BY <1>1, <2>1, HeadHandled
  <2>3. Copies(mail', k) = Copies(Tail(mail), k)
    BY <1>1 DEF Copies
  <2>4. QED
    BY <1>1, <2>2, <2>3
<1> HIDE DEF p
<1>6. ContentsTypeOK'
  <2>1. index'[p] \in Entries
    <3>1. index[p].items \in Seq(Events)
      BY <1>3 DEF Entries
    <3>2. index[p].items # << >> <=> kind # "products"
      BY <1>1, <1>3 DEF Entries, ResultThrows
    <3>3. QED
      BY <1>4, <3>1, <3>2 DEF Entries
  <2>2. index' \in [Products -> Entries]
    <3>1. index' = [index EXCEPT ![p] = index'[p]]
      BY <1>1, <1>2, <1>3, <1>4
    <3>2. QED
      BY <1>3, <2>1, <3>1
  <2>3. Entries' = Entries
    BY <1>1 DEF Entries
  <2>4. QED
    BY <1>1, <1>2, <2>2, <2>3 DEF ContentsInv, ContentsTypeOK
<1>7. GivenInv'
  <2>1. \A i \in DOMAIN mail' : mail'[i].type = "Found" => mail'[i].event <= Len(events')
    BY <1>1, HeadHandled
  <2>2. ASSUME NEW q \in Products, NEW i \in DOMAIN index'[q].items
        PROVE  index'[q].items[i] <= Len(events') /\ events'[index'[q].items[i]] = q
    <3>1. index'[q].items = index[q].items
      BY <1>4
    <3>2. QED
      BY <1>1, <2>2, <3>1 DEF ContentsInv, GivenInv
  <2>3. QED
    BY <1>1, <2>1, <2>2 DEF ContentsInv, GivenInv
<1>8. NothingMissed'
  <2> SUFFICES ASSUME NEW j \in 1 .. pos PROVE Holds(j)' \/ Contains(mail', Found(j))
    BY <1>1 DEF NothingMissed
  <2>1. Holds(j) \/ Contains(mail, Found(j))
    BY DEF ContentsInv, ContentsAccount, NothingMissed
  <2>2. events'[j] = events[j] /\ events[j] \in Products
    BY <1>1 DEF ContentsInv, ContentsTypeOK
  <2>3. /\ index'[events'[j]].items = index[events[j]].items
        /\ index[events[j]].known => index'[events'[j]].known
    BY <1>4, <2>2
  <2>4. Holds(j) => Holds(j)'
    BY <1>1, <2>3 DEF Holds
  <2>5. QED
    BY <1>5, <2>1, <2>4
<1>9. SalesAccount'
  <2> SUFFICES ASSUME kind = "sold", NEW j \in 1 .. Len(events)
               PROVE  Count(index'[events[j]].items, j) + Copies(mail', j)
                        = left[j] + (IF j <= pos THEN 1 ELSE 0)
    BY <1>1 DEF SalesAccount, Copies
  <2>1. events[j] \in Products
    BY DEF ContentsInv, ContentsTypeOK
  <2>2. /\ index'[events[j]].items = index[events[j]].items
        /\ Copies(mail', j) = Copies(mail, j)
    BY <1>4, <1>5, <2>1
  <2>3. QED
    BY <2>2 DEF ContentsInv, ContentsAccount, SalesAccount
<1>10. OneWarningPerInstant'
  <2> SUFFICES ASSUME kind = "warnings", NEW q \in Products
               PROVE  \A i, j \in DOMAIN index'[q].items :
                          InstantOf[index'[q].items[i]] = InstantOf[index'[q].items[j]] => i = j
    BY <1>1 DEF OneWarningPerInstant
  <2>1. index'[q].items = index[q].items
    BY <1>4
  <2>2. QED
    BY <2>1 DEF ContentsInv, ContentsAccount, OneWarningPerInstant
<1>11. DataIsComing'
  <2> SUFFICES ASSUME NEW q \in Products, index'[q].known, ~index'[q].data, ~(lost > 0)
               PROVE  asked[q] > 0 \/ Contains(mail', Result(q))
    BY <1>1 DEF DataIsComing
  <2>1. q # p /\ index'[q] = index[q]
    BY <1>4
  <2>2. asked[q] > 0 \/ Contains(mail, Result(q))
    BY <2>1 DEF ContentsInv, ContentsAccount, DataIsComing
  <2>3. Result(q) # Result(p)
    BY <2>1, MessagesDiffer
  <2>4. QED
    BY <1>1, <1>2, <2>2, <2>3, HeadHandled
<1>12. QED
  BY <1>6, <1>7, <1>8, <1>9, <1>10, <1>11 DEF ContentsInv, ContentsAccount

\* Nothing is there at the beginning.
LEMMA ContentsHoldAtFirst == ContentsInit => ContentsInv
<1> SUFFICES ASSUME ContentsInit PROVE ContentsInv
  OBVIOUS
<1>1. /\ kind \in Kinds /\ events = << >> /\ Len(events) = 0 /\ pos = 0 /\ open = TRUE
      /\ mail = << >> /\ asked = [q \in Products |-> 0] /\ index = NoIndex
      /\ failures = 0 /\ lost = 0 /\ left = [k \in Events |-> 0]
      /\ \A q \in Products : index[q].items = << >> /\ ~index[q].known
  BY DEF ContentsInit, NoIndex, Absent
<1>2. ContentsTypeOK
  <2>1. Absent \in Entries
    BY DEF Absent, Entries
  <2>2. index \in [Products -> Entries]
    BY <1>1, <2>1 DEF NoIndex
  <2>3. QED
    BY <1>1, <2>2, BoundsAssumption DEF ContentsTypeOK
<1>3. GivenInv
  BY <1>1 DEF GivenInv
<1>4. ContentsAccount
  BY <1>1 DEF ContentsAccount, NothingMissed, SalesAccount,
              OneWarningPerInstant, DataIsComing
<1>5. QED
  BY <1>2, <1>3, <1>4 DEF ContentsInv

\* Each step, by its action.
LEMMA ContentsStep ==
    ASSUME ContentsInv, [ContentsNext]_contentsVars
    PROVE  ContentsInv'
<1>1. /\ mail \in Seq(Messages) /\ pos \in 0 .. Len(events) /\ Len(events) \in Nat
      /\ Len(events) <= MaxEvents /\ MaxEvents \in Nat
      /\ failures \in 0 .. MaxFailures /\ MaxFailures \in Nat
      /\ asked \in [Products -> 0 .. MaxAsked] /\ open \in BOOLEAN
      /\ \A i \in DOMAIN mail : mail[i].type = "Found" => mail[i].event <= Len(events)
  BY BoundsAssumption DEF ContentsInv, ContentsTypeOK, GivenInv
<1>2. ASSUME NEW p \in Products, Tag(p) PROVE ContentsInv'
  BY <1>2, TagStep
<1>3. ASSUME NEW p \in Products, Answer(p) PROVE ContentsInv'
  <2>1. Result(p) \in Messages /\ Result(p).type # "Found"
    BY MessagesDiffer DEF Messages
  <2>2. /\ asked' \in [Products -> 0 .. MaxAsked]
        /\ \A q \in Products : asked'[q] = asked[q] \/ Result(p) = Result(q)
    <3>1. asked[p] > 0 /\ asked' = [asked EXCEPT ![p] = @ - 1]
      BY <1>3 DEF Answer
    <3>2. asked[p] \in 0 .. MaxAsked /\ MaxAsked \in Nat
      BY <1>1, BoundsAssumption
    <3>3. asked[p] - 1 \in 0 .. MaxAsked
      BY <3>1, <3>2
    <3>4. QED
      BY <1>1, <3>1, <3>3
  <2>3. /\ mail' = Append(mail, Result(p))
        /\ UNCHANGED << kind, events, pos, open, index, failures, lost, left >>
    BY <1>3 DEF Answer, Enqueue
  <2>4. QED
    BY <1>1, <2>1, <2>2, <2>3, ArrivalStep
<1>4. ASSUME NEW p \in Products, Lose(p) PROVE ContentsInv'
  BY <1>4, LoseStep
<1>5. ASSUME Emit PROVE ContentsInv'
  <2>1. pos < Len(events) /\ pos' = pos + 1 /\ mail' = Append(mail, Found(pos + 1))
    BY <1>5 DEF Emit, Enqueue
  <2>2. Found(pos + 1) \in Messages
    BY <1>1, <2>1 DEF Messages, Events
  <2>3. UNCHANGED << kind, events, open, asked, index, failures, lost, left >>
    BY <1>5 DEF Emit
  <2>4. QED
    BY <1>1, <2>1, <2>2, <2>3, ArrivalStep
<1>6. ASSUME FailStream PROVE ContentsInv'
  <2>1. Failure \in Messages /\ Failure.type # "Found"
    BY MessagesDiffer DEF Messages
  <2>2. open' \in BOOLEAN /\ failures' \in 0 .. MaxFailures
    <3>1. open' = FALSE /\ failures' = failures + 1 /\ failures < MaxFailures
      BY <1>6 DEF FailStream
    <3>2. failures + 1 \in 0 .. MaxFailures
      BY <1>1, <3>1
    <3>3. QED
      BY <3>1, <3>2
  <2>3. /\ mail' = Append(mail, Failure)
        /\ UNCHANGED << kind, events, pos, asked, index, lost, left >>
    BY <1>6 DEF FailStream, Enqueue
  <2>4. QED
    BY <1>1, <2>1, <2>2, <2>3, ArrivalStep
<1>7. ASSUME HandleFound PROVE ContentsInv'
  <2>1. CASE FoundThrows(events[Head(mail).event])
    <3>1. mail # << >> /\ StartOver(Tail(mail)) /\ failures' = failures
      BY <1>7, <2>1 DEF HandleFound
    <3>2. QED
      BY <1>1, <3>1, HeadHandled, RestartStep
  <2>2. QED
    BY <1>7, <2>1, FoundStep
<1>8. ASSUME HandleResult PROVE ContentsInv'
  <2>1. CASE ResultThrows(Head(mail).product)
    <3>1. mail # << >> /\ StartOver(Tail(mail)) /\ failures' = failures
      BY <1>8, <2>1 DEF HandleResult
    <3>2. QED
      BY <1>1, <3>1, HeadHandled, RestartStep
  <2>2. QED
    BY <1>8, <2>1, ResultStep
<1>9. ASSUME HandleFailure PROVE ContentsInv'
  <2>1. mail # << >> /\ StartOver(Tail(mail)) /\ failures' = failures
    BY <1>9 DEF HandleFailure
  <2>2. QED
    BY <1>1, <2>1, HeadHandled, RestartStep
<1>10. ASSUME QuerySideThrows PROVE ContentsInv'
  <2>1. StartOver(mail) /\ failures' \in 0 .. MaxFailures
    BY <1>1, <1>10 DEF QuerySideThrows
  <2>2. QED
    BY <1>1, <2>1, RestartStep
<1>11. ASSUME UNCHANGED contentsVars PROVE ContentsInv'
  BY <1>11 DEF contentsVars, ContentsInv, ContentsTypeOK, Entries, GivenInv, ContentsAccount,
               NothingMissed, Holds,
               SalesAccount, Copies, OneWarningPerInstant, DataIsComing
<1>12. QED
  BY <1>2, <1>3, <1>4, <1>5, <1>6, <1>7, <1>8, <1>9, <1>10, <1>11 DEF ContentsNext

\* Whatever the journal grows to, however its query and the handlers fail, and whatever is
\* lost: an index, its mailbox and the requests for its products stay together.
THEOREM ContentsInvariance == ContentsSpec => []ContentsInv
<1>1. ContentsInit => ContentsInv
  BY ContentsHoldAtFirst
<1>2. ContentsInv /\ [ContentsNext]_contentsVars => ContentsInv'
  BY ContentsStep
<1>3. QED
  BY <1>1, <1>2, PTL DEF ContentsSpec

\* Messages, entries and counters have their types, and the sales page lists no product
\* without a sale.
THEOREM ContentsAreTyped == ContentsSpec => []ContentsTypeOK
<1>1. ContentsInv => ContentsTypeOK
  BY DEF ContentsInv
<1>2. QED
  BY ContentsInvariance, <1>1, PTL

\* An index, with what is on its way to it, shows what its stream has sent and what outlived
\* the last restart in the mailbox, no more and no less, for all three kinds.
THEOREM ContentsAreAccounted == ContentsSpec => []ContentsAccount
<1>1. ContentsInv => ContentsAccount
  BY DEF ContentsInv
<1>2. QED
  BY ContentsInvariance, <1>1, PTL

\* No event is waiting in the mailbox, nor was one when the actor last restarted.
Settled == \A k \in Events : left[k] = 0 /\ Copies(mail, k) = 0

\* Then the sales page lists each sale that the stream has sent once, for its product, and
\* no other: what was sold twice on the page was in the mailbox across a restart.
SettledSalesAreExact ==
    kind = "sold" /\ Settled =>
        \A p \in Products : \A k \in 1 .. Len(events) :
            Count(index[p].items, k) = IF k <= pos /\ events[k] = p THEN 1 ELSE 0

\* Every such moment, after any number of failures: the sales page repairs itself with each
\* restart that finds no event in the mailbox.
THEOREM SalesAreExact == ContentsSpec => []SettledSalesAreExact
<1>1. ContentsInv => SettledSalesAreExact
  <2> SUFFICES ASSUME ContentsInv, kind = "sold", Settled,
                      NEW p \in Products, NEW k \in 1 .. Len(events)
               PROVE  Count(index[p].items, k) = IF k <= pos /\ events[k] = p THEN 1 ELSE 0
    BY DEF SettledSalesAreExact
  <2>1. index[p].items \in Seq(Events) /\ k \in Events
    BY BoundsAssumption DEF ContentsInv, ContentsTypeOK, Entries, Events
  <2>2. Count(index[p].items, k) \in Nat
        /\ (Count(index[p].items, k) = 0 <=> ~Contains(index[p].items, k))
    BY <2>1, CountType
  <2>3. CASE events[k] = p
    <3>1. left[k] = 0 /\ Copies(mail, k) = 0
      BY <2>1 DEF Settled
    <3>2. Count(index[p].items, k) + Copies(mail, k)
            = left[k] + (IF k <= pos THEN 1 ELSE 0)
      BY <2>3 DEF ContentsInv, ContentsAccount, SalesAccount
    <3>3. Count(index[p].items, k) + 0 = 0 + (IF k <= pos THEN 1 ELSE 0)
      BY <3>1, <3>2
    <3>4. QED
      BY <2>2, <2>3, <3>3
  <2>4. CASE events[k] # p
    <3>1. ~Contains(index[p].items, k)
      BY <2>4 DEF ContentsInv, GivenInv, Contains
    <3>2. QED
      BY <2>2, <2>4, <3>1
  <2>5. QED
    BY <2>3, <2>4
<1>2. QED
  BY ContentsInvariance, <1>1, PTL

=============================================================================
