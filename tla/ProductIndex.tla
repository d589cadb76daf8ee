---------------------------- MODULE ProductIndex ----------------------------
(***************************************************************************)
(* The contents of an index actor of the sharding sample.  There are three *)
(* of them (ProductIndexActor, SoldProductIndexActor and                   *)
(* WarningEventIndexActor), and kind says which one this is.  Each runs a  *)
(* live query of the journal as a stream into its own mailbox, asks the    *)
(* shard region for the state of each product that it meets, and keeps     *)
(* both in memory.  Whenever a handler throws, its supervisor restarts it: *)
(* memory and stream are gone, the mailbox is not, and PreStart runs the   *)
(* query again from the beginning.                                         *)
(*                                                                         *)
(* How it answers the web application is IndexQuery.  The two share no     *)
(* name, so that the proofs about the actor extend both.                   *)
(***************************************************************************)
EXTENDS Integers, Sequences, FiniteSets

CONSTANTS Products,
          Kinds,          \* which of "products", "sold" and "warnings" to look at
          InstantOf,      \* timestamps of the events, by their place in the query
          AbortNotifies,  \* may an aborted stream report a failure to the sink?
          MaxEvents,      \* bound on the events of the query
          MaxInbox,       \* bound on the mailbox
          MaxAsked,       \* bound on the requests for one product under way
          MaxFailures,    \* bound on failures of the stream and of other handlers
          MaxLost         \* bound on requests or answers that are lost

ASSUME KindsAssumption == Kinds \subseteq {"products", "sold", "warnings"}
ASSUME BoundsAssumption ==
    /\ MaxEvents \in Nat /\ MaxFailures \in Nat /\ MaxLost \in Nat
    /\ MaxInbox \in Nat \ {0} /\ MaxAsked \in Nat \ {0}
ASSUME InstantAssumption == InstantOf \in [1 .. MaxEvents -> Nat]
ASSUME AbortAssumption == AbortNotifies \subseteq BOOLEAN /\ AbortNotifies # {}

Events == 1 .. MaxEvents

VARIABLES
    kind,     \* the index that this is
    events,   \* the products of the query's elements, in its order
    pos,      \* elements that the running stream has sent
    open,     \* the stream runs
    mail,     \* the mailbox, oldest first
    asked,    \* FetchProduct messages at the entities, by product
    index,    \* _productIds, _soldProducts or _warningEvents
    failures, lost,
    left      \* history: Found messages in the mailbox at the last restart

contentsVars == << kind, events, pos, open, mail, asked, index, failures, lost, left >>

Found(k)  == [type |-> "Found", event |-> k]
Result(p) == [type |-> "Result", product |-> p]
Failure   == [type |-> "Failure"]

\* An entry knows whether FetchResult has filled it, and the events it holds.
Absent == [known |-> FALSE, data |-> FALSE, items |-> << >>]
Empty  == [known |-> TRUE, data |-> FALSE, items |-> << >>]

NoIndex == [p \in Products |-> Absent]

\* Does an element stand in a sequence, and at how many places?
Contains(seq, x) == \E i \in DOMAIN seq : seq[i] = x
Count(seq, x)    == Cardinality({i \in DOMAIN seq : seq[i] = x})

\* How often the Found message of an element is in a mailbox.
Copies(box, k) == Count(box, Found(k))

ContentsInit ==
    /\ kind \in Kinds
    /\ events = << >> /\ pos = 0 /\ open = TRUE /\ mail = << >>
    /\ asked = [p \in Products |-> 0]
    /\ index = NoIndex
    /\ failures = 0 /\ lost = 0
    /\ left = [k \in Events |-> 0]

-----------------------------------------------------------------------------
(* The journal, its query and the entities.                                *)

\* An entity writes an event that the query selects.  The query of the products
\* returns each persistence id once.
Tag(p) ==
    /\ Len(events) < MaxEvents
    /\ kind = "products" => \A k \in 1 .. Len(events) : events[k] # p
    /\ events' = Append(events, p)
    /\ UNCHANGED << kind, pos, open, mail, asked, index, failures, lost, left >>

Enqueue(m) == /\ Len(mail) < MaxInbox
              /\ mail' = Append(mail, m)

\* The stream sends the next element to the actor, without any backpressure.
Emit ==
    /\ open /\ pos < Len(events)
    /\ Enqueue(Found(pos + 1))
    /\ pos' = pos + 1
    /\ UNCHANGED << kind, events, open, asked, index, failures, lost, left >>

\* The query fails, and the sink says so.
FailStream ==
    /\ open /\ failures < MaxFailures
    /\ Enqueue(Failure)
    /\ open' = FALSE /\ failures' = failures + 1
    /\ UNCHANGED << kind, events, pos, asked, index, lost, left >>

\* The entity answers.  It exists, since the query has met one of its events.
Answer(p) ==
    /\ asked[p] > 0
    /\ Enqueue(Result(p))
    /\ asked' = [asked EXCEPT ![p] = @ - 1]
    /\ UNCHANGED << kind, events, pos, open, index, failures, lost, left >>

\* A request or its answer is lost: both are plain messages between nodes.
Lose(p) ==
    /\ asked[p] > 0 /\ lost < MaxLost
    /\ asked' = [asked EXCEPT ![p] = @ - 1]
    /\ lost' = lost + 1
    /\ UNCHANGED << kind, events, pos, open, mail, index, failures, left >>

-----------------------------------------------------------------------------
(* The handlers.                                                           *)

\* Mutant of Ask: a product that is found is not asked for.
Ask_Forgotten(p) == UNCHANGED asked

Ask(p) == asked' = [asked EXCEPT ![p] = IF @ < MaxAsked THEN @ + 1 ELSE @]

\* Mutant of AddItem: warnings are kept in a list, too.
AddItem_List(items, k) == Append(items, k)

\* Collections of events: a list of sales, and a set of warnings that is sorted,
\* and compared, by timestamp.
AddItem(items, k) ==
    IF kind = "warnings" /\ \E i \in DOMAIN items : InstantOf[items[i]] = InstantOf[k]
    THEN items
    ELSE Append(items, k)

\* Mutant of StartOver: the new instance reads on where the old one was.
StartOver_ReadsOn(box) ==
    /\ index' = NoIndex
    /\ open' = TRUE
    /\ mail' = box
    /\ left' = [k \in Events |-> Copies(box, k)]
    /\ UNCHANGED << kind, events, pos, asked, lost >>

\* Mutant of StartOver: the dictionary outlives the instance.
StartOver_KeepsIndex(box) ==
    /\ pos' = 0 /\ open' = TRUE
    /\ mail' = box
    /\ left' = [k \in Events |-> Copies(box, k)]
    /\ UNCHANGED << kind, events, asked, index, lost >>

\* The supervisor's answer to an exception, with PreStart of the new instance.
StartOver(box) ==
    /\ index' = NoIndex
    /\ pos' = 0 /\ open' = TRUE
    /\ \E notify \in AbortNotifies :
        mail' = IF open /\ notify THEN Append(box, Failure) ELSE box
    /\ left' = [k \in Events |-> Copies(box, k)]
    /\ UNCHANGED << kind, events, asked, lost >>

FoundThrows(p)  == kind = "products" /\ index[p].known /\ index[p].data

\* Mutant of ResultThrows: an entry is made for a product that is not there.
ResultThrows_Lenient(p) == FALSE

ResultThrows(p) == kind # "products" /\ ~index[p].known

\* Add throws if the product is there with another value; SetItem does not.
HandleFound ==
    /\ mail # << >> /\ Head(mail).type = "Found"
    /\ LET k == Head(mail).event
           p == events[k]
       IN IF FoundThrows(p)
          THEN StartOver(Tail(mail)) /\ UNCHANGED failures
          ELSE /\ index' = [index EXCEPT ![p] =
                    IF kind = "products" THEN Empty
                    ELSE [index[p] EXCEPT !.known = TRUE, !.items = AddItem(@, k)]]
               /\ IF kind = "products" \/ ~index[p].known
                  THEN Ask(p) ELSE UNCHANGED asked
               /\ mail' = Tail(mail)
               /\ UNCHANGED << kind, events, pos, open, failures, lost, left >>

HandleResult ==
    /\ mail # << >> /\ Head(mail).type = "Result"
    /\ LET p == Head(mail).product
       IN IF ResultThrows(p)
          THEN StartOver(Tail(mail)) /\ UNCHANGED failures
          ELSE /\ index' = [index EXCEPT ![p].known = TRUE, ![p].data = TRUE]
               /\ mail' = Tail(mail)
               /\ UNCHANGED << kind, events, pos, open, asked, failures, lost, left >>

HandleFailure ==
    /\ mail # << >> /\ Head(mail).type = "Failure"
    /\ StartOver(Tail(mail))
    /\ UNCHANGED failures

\* A handler of the query side throws: see IndexQuery.
QuerySideThrows ==
    /\ failures < MaxFailures
    /\ failures' = failures + 1
    /\ StartOver(mail)

HandleMessage == HandleFound \/ HandleResult \/ HandleFailure

ContentsNext ==
    \/ \E p \in Products : Tag(p) \/ Answer(p) \/ Lose(p)
    \/ Emit \/ FailStream
    \/ HandleFound \/ HandleResult \/ HandleFailure
    \/ QuerySideThrows

ContentsSpec == ContentsInit /\ [][ContentsNext]_contentsVars

\* The dispatcher runs the actor, the database answers, and so do the entities.
FairContents ==
    /\ ContentsSpec
    /\ WF_contentsVars(Emit) /\ WF_contentsVars(HandleMessage)
    /\ \A p \in Products : WF_contentsVars(Answer(p))


-----------------------------------------------------------------------------
(* Properties.                                                             *)

Messages == {Found(k) : k \in Events} \union {Result(p) : p \in Products}
            \union {Failure}

\* Sales and warnings are shown for products that have some.
Entries ==
    {e \in [known : BOOLEAN, data : BOOLEAN, items : Seq(Events)] :
        /\ e.data => e.known
        /\ e.items # << >> <=> e.known /\ kind # "products"}

\* Messages, entries and counters have their types and stay within their bounds, and
\* the sales page lists no product without a sale: FetchResult throws rather than
\* make an entry of its own.
ContentsTypeOK ==
    /\ kind \in Kinds
    /\ events \in Seq(Products) /\ Len(events) <= MaxEvents
    /\ pos \in 0 .. Len(events) /\ open \in BOOLEAN
    /\ mail \in Seq(Messages)
    /\ asked \in [Products -> 0 .. MaxAsked]
    /\ index \in [Products -> Entries]
    /\ failures \in 0 .. MaxFailures /\ lost \in 0 .. MaxLost
    /\ left \in [Events -> Nat]

Holds(k) ==
    LET entry == index[events[k]]
    IN /\ entry.known
       /\ CASE kind = "products" -> TRUE
            [] kind = "sold"     -> Contains(entry.items, k)
            [] kind = "warnings" -> \E i \in DOMAIN entry.items :
                                       InstantOf[entry.items[i]] = InstantOf[k]

\* Whatever the stream has sent is in the index or on its way to it, across the
\* restarts that empty the index: PreStart reads from the beginning again.  Of two
\* warnings of one product with one timestamp, only the first is shown.
NothingMissed == \A k \in 1 .. pos : Holds(k) \/ Contains(mail, Found(k))

\* The list of sales shows a sale once for the running stream, and once more for each
\* of its messages that was waiting in the mailbox when the actor last restarted:
\* the mailbox survives the restart, and nothing tells the two streams apart.
SalesAccount ==
    kind = "sold" =>
        \A k \in 1 .. Len(events) :
            Count(index[events[k]].items, k) + Copies(mail, k)
                = left[k] + (IF k <= pos THEN 1 ELSE 0)

\* No two warnings of a product carry one timestamp, whatever is read twice.
OneWarningPerInstant ==
    kind = "warnings" =>
        \A p \in Products : \A i, j \in DOMAIN index[p].items :
            InstantOf[index[p].items[i]] = InstantOf[index[p].items[j]] => i = j

\* A product that is shown without its data has a request under way, unless one was
\* lost: the actor asks once, when it meets the product, and never again.
DataIsComing ==
    \A p \in Products :
        index[p].known /\ ~index[p].data
            => asked[p] > 0 \/ Contains(mail, Result(p)) \/ lost > 0

\* What an index shows, with what is on its way to it, is what its stream has sent and
\* what outlived the last restart in the mailbox, no more and no less.
ContentsAccount == NothingMissed /\ SalesAccount /\ OneWarningPerInstant /\ DataIsComing

\* A product that the query selects comes to be shown with its data, unless a message
\* is lost or a handler fails: then an answer that outlives the restart can make the
\* next instance throw as well, and so on for ever.
CaughtUp ==
    \A p \in Products :
        (\E k \in 1 .. Len(events) : events[k] = p)
            ~> index[p].data \/ failures > 0 \/ lost > 0

=============================================================================
