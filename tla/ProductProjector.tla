-------------------------- MODULE ProductProjector --------------------------
(***************************************************************************)
(* The ProductProjectorActor of the CQRS sample: a persistent actor that   *)
(* renders the events of all products into rows of a read model.  It runs  *)
(* a stream of the tagged events from the last offset that it persisted,   *)
(* takes one event at a time (Sink.ActorRefWithAck), updates the row in a  *)
(* transaction of its own, persists the offset, and acknowledges.  Its own *)
(* journal and snapshot store are purged after every snapshot.             *)
(*                                                                         *)
(* The write side is what ProductTotals is shown to implement: a command   *)
(* appends all of its events, judged on the product as it is.  An offset   *)
(* is the position in the tagged events.                                   *)
(***************************************************************************)
EXTENDS ProductState, FiniteSets

CONSTANTS Products,          \* the product ids
          Commands,          \* [product, command], each sent once
          MaxRetryAttempts,  \* 3 in the code
          SnapshotEvery,     \* 10 in the code
          MaxFailures        \* bound on the failures of a behaviour

\* The one source of commands of this sample is its data generator, whose quantities are
\* positive.
ASSUME ProductCommandsAssumption ==
    /\ Commands \subseteq [product : Products, command : Command]
    /\ \A c \in Commands : c.command.qty >= 0
ASSUME RetryAssumption ==
    /\ MaxRetryAttempts \in Nat \ {0} /\ SnapshotEvery \in Nat \ {0}
    /\ MaxFailures \in Nat

\* ProductListing; LastModified is left out.
Listing == [exists : BOOLEAN, allInventory : Int, soldUnits : Int,
            totalRevenue : Int]
NoRow      == [exists |-> FALSE, allInventory |-> 0, soldUnits |-> 0,
               totalRevenue |-> 0]
NewListing == [NoRow EXCEPT !.exists = TRUE]

VARIABLES
    \* the write side
    tagged,      \* the tagged events of all products, in offset order
    products,    \* the products, each the sum of its events
    executed,    \* the commands that were executed
    \* the read side
    rows,        \* the row of each product, or NoRow
    \* the projector's own journal and snapshots
    written,     \* offsets persisted so far: the highest sequence number
    offsets,     \* the persisted offsets that are not deleted, by number
    snapshots, saving,  \* snapshots stored, and on their way to the store
    purges,      \* deletions on their way to the stores
    \* the projector
    status,      \* "stopped", "loading", "replaying", "idle", "projecting",
                 \* "persisting", "persisted"
    seqNr,       \* LastSequenceNr
    lastOffset,  \* CurrentState.LastOffset
    attempts,
    saved,       \* SaveSnapshotSuccess messages that wait
    \* its stream
    stream,      \* "none", "starting", "acked", "sent"
    cursor,      \* the offset of the last envelope that it sent
    failures,
    applied      \* history: how often each event went into a row

writeSide == << tagged, products, executed >>
readSide  == << rows, applied >>
stores    == << written, offsets, snapshots, saving, purges >>
actor     == << status, seqNr, lastOffset, attempts, saved >>
source    == << stream, cursor >>
vars      == << writeSide, readSide, stores, actor, source, failures >>

Init ==
    /\ tagged = << >> /\ executed = {}
    /\ products = [p \in Products |-> EmptyState]
    /\ rows = [p \in Products |-> NoRow] /\ applied = << >>
    /\ written = 0 /\ offsets = {} /\ snapshots = {} /\ saving = {} /\ purges = {}
    /\ status = "loading" /\ seqNr = 0 /\ lastOffset = 0 /\ attempts = 0
    /\ saved = {}
    /\ stream = "none" /\ cursor = 0 /\ failures = 0

-----------------------------------------------------------------------------
(* The write side.                                                         *)

\* A product executes a command; MessageTagger tags each of its events.
Publish(c) ==
    \E now \in Times :
      LET p  == c.product
          es == ProcessCommand(products[p], c.command, now)
      IN  /\ c \notin executed
          /\ es # << >>
          /\ executed' = executed \cup {c}
          /\ tagged' = tagged \o [k \in 1 .. Len(es) |->
                                    [product |-> p, event |-> es[k]]]
          /\ products' = [products EXCEPT ![p] = Unfold(@, es)[Len(es)]]
          /\ applied' = applied \o [k \in 1 .. Len(es) |-> 0]
          /\ UNCHANGED << rows, stores, actor, source, failures >>

-----------------------------------------------------------------------------
(* Recovery.                                                               *)

\* The process is started again.
Start ==
    /\ status = "stopped"
    /\ status' = "loading"
    /\ UNCHANGED << writeSide, readSide, stores, seqNr, lastOffset, attempts,
                    saved, source, failures >>

Latest(S) == CHOOSE s \in S : \A t \in S : t.seqNr <= s.seqNr

\* Recover<SnapshotOffer>
LoadSnapshot ==
    /\ status = "loading"
    /\ status' = "replaying"
    /\ IF snapshots = {} THEN UNCHANGED << seqNr, lastOffset >>
       ELSE /\ seqNr' = Latest(snapshots).seqNr
            /\ lastOffset' = Latest(snapshots).offset
    /\ UNCHANGED << writeSide, readSide, stores, attempts, saved, source, failures >>

\* Mutant of Replay: the offsets after the snapshot are not recovered.
Replay_SnapshotOnly ==
    /\ status = "replaying"
    /\ status' = "idle"
    /\ seqNr' = written
    /\ stream' = "starting"
    /\ cursor' = lastOffset
    /\ UNCHANGED << writeSide, readSide, stores, lastOffset, attempts, saved, failures >>

\* Recover<MaterializedViewState> for the offsets after the snapshot, and
\* OnReplaySuccess: a new stream from the offset that is known now.
Replay ==
    LET after == {o \in offsets : o.seqNr > seqNr} IN
    /\ status = "replaying"
    /\ status' = "idle"
    /\ lastOffset' = IF after = {} THEN lastOffset ELSE Latest(after).offset
    /\ seqNr' = written
    /\ stream' = "starting"
    /\ cursor' = lastOffset'
    /\ UNCHANGED << writeSide, readSide, stores, attempts, saved, failures >>

-----------------------------------------------------------------------------
(* The stream and the projection of an event.                              *)

\* Mutant of StartProjection: the ack of ProjectionStarting is forgotten.
StartProjection_NoAck ==
    /\ status = "idle" /\ stream = "starting"
    /\ stream' = "sent"
    /\ UNCHANGED << writeSide, readSide, stores, actor, cursor, failures >>

\* Command<ProjectionStarting>
StartProjection ==
    /\ status = "idle" /\ stream = "starting"
    /\ stream' = "acked"
    /\ UNCHANGED << writeSide, readSide, stores, actor, cursor, failures >>

\* Command<EventEnvelope>; an acknowledged stream sends the next event.
ReceiveEnvelope ==
    /\ status = "idle" /\ stream = "acked"
    /\ cursor < Len(tagged)
    /\ cursor' = cursor + 1
    /\ stream' = "sent"
    /\ status' = "projecting"
    /\ attempts' = 0
    /\ UNCHANGED << writeSide, readSide, stores, seqNr, lastOffset, saved, failures >>

\* Mutant of Project: revenue without the quantity.
Project_UnitPrice(row, e) ==
    CASE e.type = "created" /\ ~row.exists -> NewListing
      [] e.type = "changed" /\ row.exists ->
            [row EXCEPT !.allInventory = @ + e.qty]
      [] e.type = "sold" /\ row.exists ->
            [row EXCEPT !.soldUnits = @ + e.qty, !.totalRevenue = @ + e.price]
      [] OTHER -> row

\* UpdateProductDefinitionAsync, UpdateProductInventoryAsync and
\* UpdateProductSoldAsync: the row after the event.
Project(row, e) ==
    CASE e.type = "created" /\ ~row.exists -> NewListing
      [] e.type = "changed" /\ row.exists ->
            [row EXCEPT !.allInventory = @ + e.qty]
      [] e.type = "sold" /\ row.exists ->
            [row EXCEPT !.soldUnits = @ + e.qty,
                        !.totalRevenue = @ + TotalPrice(e)]
      [] OTHER -> row

\* The events that a row shows; only their projection uses the database.
Rendered(e) == e.type # "warning"
Saves(row, e) == IF e.type = "created" THEN ~row.exists ELSE row.exists

\* SaveChangesAsync: the transaction for the event at the cursor commits.
Commit ==
    LET p == tagged[cursor].product
        e == tagged[cursor].event
    IN  /\ rows' = [rows EXCEPT ![p] = Project(@, e)]
        /\ applied' = IF Rendered(e) /\ Saves(rows[p], e)
                      THEN [applied EXCEPT ![cursor] = @ + 1] ELSE applied

\* Mutant of TryProcess: only every second offset is persisted.
TryProcess_EverySecond ==
    /\ status = "projecting"
    /\ Commit
    /\ IF cursor % 2 = 0 THEN status' = "persisting" /\ UNCHANGED stream
       ELSE status' = "idle" /\ stream' = "acked"
    /\ UNCHANGED << writeSide, stores, seqNr, lastOffset, attempts, saved, cursor,
                    failures >>

\* An attempt that does what it should.
TryProcess ==
    /\ status = "projecting"
    /\ Commit
    /\ status' = "persisting"
    /\ UNCHANGED << writeSide, stores, seqNr, lastOffset, attempts, saved, source,
                    failures >>

\* The actor is rebuilt by its supervisor; its stream, a child, dies with it,
\* its mailbox does not.
Restart ==
    /\ status' = "loading" /\ seqNr' = 0 /\ lastOffset' = 0
    /\ stream' = "none" /\ cursor' = 0

\* Mutant of TryAgain: after the last attempt the event is passed over.
TryAgain_GiveUp ==
    IF attempts' < MaxRetryAttempts THEN UNCHANGED << status, seqNr, lastOffset, source >>
    ELSE status' = "persisting" /\ UNCHANGED << seqNr, lastOffset, source >>

\* The `while' over the attempts, and the throw when they are used up.
TryAgain ==
    IF attempts' < MaxRetryAttempts THEN UNCHANGED << status, seqNr, lastOffset, source >>
    ELSE Restart

\* An attempt that ends in an exception: the database is away, or the timeout
\* strikes, before the commit or after it.
AttemptFails ==
    /\ status = "projecting"
    /\ Rendered(tagged[cursor].event)
    /\ failures < MaxFailures
    /\ failures' = failures + 1
    /\ Commit \/ UNCHANGED readSide
    /\ attempts' = attempts + 1
    /\ TryAgain
    /\ UNCHANGED << writeSide, stores, saved >>

\* PersistAndAck: the journal writes the offset ...
WriteOffset ==
    /\ status = "persisting"
    /\ status' = "persisted"
    /\ written' = written + 1
    /\ seqNr' = seqNr + 1
    /\ offsets' = offsets \cup {[seqNr |-> seqNr', offset |-> cursor]}
    /\ UNCHANGED << writeSide, readSide, snapshots, saving, purges, lastOffset,
                    attempts, saved, source, failures >>

\* ... and its callback acknowledges the event.
Acknowledge ==
    /\ status = "persisted"
    /\ status' = "idle"
    /\ lastOffset' = cursor
    /\ stream' = "acked"
    /\ saving' = IF seqNr % SnapshotEvery = 0
                 THEN saving \cup {[seqNr |-> seqNr, offset |-> cursor]}
                 ELSE saving
    /\ UNCHANGED << writeSide, readSide, written, offsets, snapshots, purges,
                    seqNr, attempts, saved, cursor, failures >>

-----------------------------------------------------------------------------
(* Snapshots.                                                              *)

StoreSnapshot(s) ==
    /\ saving' = saving \ {s}
    /\ snapshots' = snapshots \cup {s}
    /\ saved' = IF status = "stopped" THEN saved ELSE saved \cup {s.seqNr}
    /\ UNCHANGED << writeSide, readSide, written, offsets, purges, status, seqNr,
                    lastOffset, attempts, source, failures >>

\* Mutant of Purges: the snapshot itself is purged with the older ones.
Purges_Own(n) == {[store |-> "journal", upTo |-> n],
                  [store |-> "snapshots", upTo |-> n]}

Purges(n) == {[store |-> "journal", upTo |-> n],
              [store |-> "snapshots", upTo |-> n - 1]}

\* Command<SaveSnapshotSuccess>: DeleteMessages and DeleteSnapshots.
PurgeBehind(n) ==
    /\ status = "idle"
    /\ saved' = saved \ {n}
    /\ purges' = purges \cup Purges(n)
    /\ UNCHANGED << writeSide, readSide, written, offsets, snapshots, saving,
                    status, seqNr, lastOffset, attempts, source, failures >>

\* A store carries a deletion out; the two are in no order.
Purge(d) ==
    /\ purges' = purges \ {d}
    /\ IF d.store = "journal"
       THEN offsets' = {o \in offsets : o.seqNr > d.upTo} /\ UNCHANGED snapshots
       ELSE snapshots' = {s \in snapshots : s.seqNr > d.upTo} /\ UNCHANGED offsets
    /\ UNCHANGED << writeSide, readSide, written, saving, actor, source, failures >>

-----------------------------------------------------------------------------
(* Failures.                                                               *)

\* Command<ProjectionFailed>: the handler throws.
ProjectionFailed ==
    /\ status = "idle"
    /\ failures < MaxFailures
    /\ failures' = failures + 1
    /\ Restart
    /\ UNCHANGED << writeSide, readSide, stores, attempts, saved >>

\* The process dies; or the projector's journal fails in a recovery or a write,
\* which stops the actor, and nothing starts it but the next process.
StopProjector ==
    /\ status # "stopped"
    /\ failures < MaxFailures
    /\ failures' = failures + 1
    /\ status' = "stopped" /\ seqNr' = 0 /\ lastOffset' = 0
    /\ stream' = "none" /\ cursor' = 0 /\ saved' = {}
    /\ UNCHANGED << writeSide, readSide, stores, attempts >>

-----------------------------------------------------------------------------
Work ==
    \/ LoadSnapshot \/ Replay
    \/ StartProjection \/ ReceiveEnvelope \/ TryProcess
    \/ WriteOffset \/ Acknowledge

Next ==
    \/ \E c \in Commands : Publish(c)
    \/ Start \/ Work
    \/ AttemptFails \/ ProjectionFailed \/ StopProjector
    \/ \E s \in saving : StoreSnapshot(s)
    \/ \E n \in saved : PurgeBehind(n)
    \/ \E d \in purges : Purge(d)

Spec == Init /\ [][Next]_vars

\* The dispatcher runs the projector, and its journal and database answer.
FairSpec == Spec /\ WF_vars(Work)

-----------------------------------------------------------------------------
(* Properties.                                                             *)

Position == [seqNr : Nat, offset : Nat]

\* Every variable has its type.
TypeOK ==
    /\ tagged \in Seq([product : Products, event : Event])
    /\ products \in [Products -> State] /\ executed \subseteq Commands
    /\ rows \in [Products -> Listing]
    /\ applied \in Seq(Nat) /\ Len(applied) = Len(tagged)
    /\ written \in Nat /\ offsets \subseteq Position
    /\ snapshots \subseteq Position /\ saving \subseteq Position
    /\ purges \subseteq [store : {"journal", "snapshots"}, upTo : Nat]
    /\ status \in {"stopped", "loading", "replaying", "idle", "projecting",
                   "persisting", "persisted"}
    /\ seqNr \in Nat /\ lastOffset \in Nat /\ attempts \in Nat
    /\ saved \subseteq Nat /\ failures \in Nat
    /\ stream \in {"none", "starting", "acked", "sent"}
    /\ cursor \in 0 .. Len(tagged)

\* The offset that a recovery finds in the stores as they are.
Recoverable ==
    IF offsets \cup snapshots = {} THEN 0
    ELSE Latest(offsets \cup snapshots).offset

\* No event is passed over: one that a recovery would not read again is in the
\* rows, whatever failed, restarted or was purged.
NothingSkipped ==
    \A n \in 1 .. Recoverable : Rendered(tagged[n].event) => applied[n] > 0

\* Snapshots and purges never take the projection back.
OffsetNeverRegresses == [][Recoverable' >= Recoverable]_vars

\* An event goes into a row only when everything before it is settled, so that
\* only the event in hand can be counted twice by a crash.
OnlyTheLastIsInDoubt ==
    \A n \in 1 .. Len(tagged) : applied[n] > 0 => n <= Recoverable + 1

\* An event is counted twice only by a failure, and each failure adds one.
Excess(n) == IF applied[n] > 1 THEN applied[n] - 1 ELSE 0
DoubleCountCostsAFailure ==
    Total([n \in 1 .. Len(tagged) |-> Excess(n)], Len(tagged)) <= failures

\* No failure, in whatever phase, puts more in doubt than the event in hand.
DoubtIsBounded == OnlyTheLastIsInDoubt /\ DoubleCountCostsAFailure

\* A row shows what its product says of itself, once the projector has caught
\* up, unless an event was counted twice: the read side and the write side
\* compute the totals from different events.
Shows(p) ==
    IF ~rows[p].exists THEN IsEmpty(products[p])
    ELSE /\ rows[p].allInventory = products[p].remaining
         /\ rows[p].soldUnits = products[p].sold
         /\ rows[p].totalRevenue = products[p].revenue
CaughtUp == status = "idle" /\ lastOffset = Len(tagged)
ReadModelAgrees ==
    CaughtUp /\ (\A n \in 1 .. Len(tagged) : applied[n] <= 1) =>
      \A p \in Products : Shows(p)

\* Every event is projected in the end, unless the projector stopped.
EverythingIsProjected ==
    Recoverable < Len(tagged) ~> Recoverable = Len(tagged) \/ status = "stopped"

\* "Safely renders read models": the rows show the products.
ReadModelIsExact == CaughtUp => \A p \in Products : Shows(p)

=============================================================================
