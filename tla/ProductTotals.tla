---------------------------- MODULE ProductTotals ----------------------------
(***************************************************************************)
(* One ProductTotalsActor: a persistent, cluster-sharded entity.  It       *)
(* judges a command on its state in memory, writes the events of the       *)
(* command to the journal as one batch (PersistAll), then applies them one *)
(* at a time, answering the sender at the first and asking for a snapshot  *)
(* at every SnapshotEvery-th.  It loses its memory when it stops and comes *)
(* back from the latest snapshot and the events after it.                  *)
(*                                                                         *)
(* The mailbox, the shard that passivates the entity, the journal and the  *)
(* snapshot store are Akka.NET's and are modelled from the way this code   *)
(* uses them.                                                              *)
(***************************************************************************)
EXTENDS ProductState, FiniteSets

CONSTANTS Commands,       \* the commands, each sent at most once
          Fetches,        \* identities of the FetchProduct queries
          SnapshotEvery,  \* 10 in the code
          MaxFailures     \* bound on the failures of a behaviour

ASSUME CommandsAssumption ==
    /\ Commands \subseteq Command
    /\ \A c, d \in Commands : c.id = d.id => c = d
ASSUME SnapshotAssumption == SnapshotEvery \in Nat \ {0}
ASSUME FailuresAssumption == MaxFailures \in Nat

Fetch(f)  == [type |-> "fetch", id |-> f]
PoisonPill == [type |-> "pill"]
NoCommand == [type |-> "none"]
Queries   == {Fetch(f) : f \in Fetches}
Messages  == Commands \cup Queries

VARIABLES
    \* durable
    journal,       \* the events, in sequence-number order
    snapshots,     \* the snapshot store
    saving,        \* snapshots on their way to the store
    \* the actor
    status,        \* "stopped", "loading", "replaying", "idle", "writing", "handling"
    state,         \* State
    seqNr,         \* LastSequenceNr
    current,       \* the command whose events are written or handled
    batch,         \* the events still to write or to handle
    sentResponse,  \* the flag of the command's closure
    \* the mailbox and the shard
    inbox,         \* mailbox and stash of the entity, oldest first
    passivation,   \* "none", "asked" (Passivate on its way), "pill" (sent)
    buffer,        \* messages the shard holds back while it passivates
    \* the outside
    sent,          \* the messages sent so far
    replies,       \* the responses each sender of a command received
    views,         \* the states each query was answered with
    failures,      \* failures so far
    \* history
    history,       \* history[n+1] is the sum of the first n events
    executed,      \* the commands whose events were written
    dropped        \* messages that a stop left unanswered

durable == << journal, snapshots, saving >>
actor   == << status, state, seqNr, current, batch, sentResponse >>
shard   == << inbox, passivation, buffer >>
outside == << sent, replies, views, failures >>
past    == << history, executed, dropped >>
vars    == << durable, actor, shard, outside, past >>

Init ==
    /\ journal = << >> /\ snapshots = {} /\ saving = {}
    /\ status = "stopped" /\ state = EmptyState /\ seqNr = 0
    /\ current = NoCommand /\ batch = << >> /\ sentResponse = FALSE
    /\ inbox = << >> /\ passivation = "none" /\ buffer = << >>
    /\ sent = {} /\ failures = 0
    /\ replies = [c \in Commands |-> << >>]
    /\ views = [f \in Fetches |-> << >>]
    /\ history = << EmptyState >> /\ executed = {} /\ dropped = {}

-----------------------------------------------------------------------------
(* The outside and the shard.                                              *)

\* A page or the data generator sends a command or a query; the shard region
\* delivers it, or holds it back while the entity is being passivated.
Send(m) ==
    /\ m \notin sent
    /\ sent' = sent \cup {m}
    /\ IF passivation = "pill"
       THEN buffer' = Append(buffer, m) /\ UNCHANGED inbox
       ELSE inbox' = Append(inbox, m) /\ UNCHANGED buffer
    /\ UNCHANGED << durable, actor, past, passivation, replies, views, failures >>

\* The shard creates the entity: for a message, or after a failure, since
\* entities are remembered.
Start ==
    /\ status = "stopped"
    /\ inbox # << >> \/ failures > 0
    /\ status' = "loading"
    /\ UNCHANGED << durable, state, seqNr, current, batch, sentResponse, shard,
                    outside, past >>

\* The shard receives the entity's Passivate and sends it the stop message.
SendPoisonPill ==
    /\ passivation = "asked"
    /\ passivation' = "pill"
    /\ inbox' = Append(inbox, PoisonPill)
    /\ UNCHANGED << durable, actor, outside, past, buffer >>

\* The actor ends with everything it had in memory.  `next' is what the shard
\* delivers to its next incarnation, `lost' the messages that die with it.
Stop(next, lost) ==
    /\ status' = "stopped" /\ state' = EmptyState /\ seqNr' = 0
    /\ current' = NoCommand /\ batch' = << >> /\ sentResponse' = FALSE
    /\ inbox' = next /\ buffer' = << >> /\ passivation' = "none"
    /\ LET unanswered == IF sentResponse THEN lost ELSE lost \cup {current}
       IN  dropped' = dropped \cup (unanswered \cap Messages)

Held(q) == {q[i] : i \in 1 .. Len(q)}

-----------------------------------------------------------------------------
(* Recovery.                                                               *)

\* Recover<SnapshotOffer>: the latest snapshot, when there is one.
LoadSnapshot ==
    /\ status = "loading"
    /\ status' = "replaying"
    /\ \/ /\ snapshots = {}
          /\ UNCHANGED << state, seqNr >>
       \/ \E s \in snapshots :
            /\ \A t \in snapshots : t.seqNr <= s.seqNr
            /\ state' = s.state
            /\ seqNr' = s.seqNr
    /\ UNCHANGED << durable, current, batch, sentResponse, shard, outside, past >>

\* Recover<IProductEvent>.
ReplayEvent ==
    /\ status = "replaying"
    /\ seqNr < Len(journal)
    /\ state' = ProcessEvent(state, journal[seqNr + 1])
    /\ seqNr' = seqNr + 1
    /\ UNCHANGED << durable, status, current, batch, sentResponse, shard,
                    outside, past >>

CompleteRecovery ==
    /\ status = "replaying"
    /\ seqNr = Len(journal)
    /\ status' = "idle"
    /\ UNCHANGED << durable, state, seqNr, current, batch, sentResponse, shard,
                    outside, past >>

-----------------------------------------------------------------------------
(* Command<IProductCommand>.                                               *)

\* Mutant of AcceptCommand: the sender is answered before the events are
\* written.
AcceptCommand_ReplyFirst(c) ==
    /\ status = "idle" /\ inbox # << >> /\ Head(inbox) = c
    /\ \E now \in Times : batch' = ProcessCommand(state, c, now)
    /\ batch' # << >>
    /\ status' = "writing"
    /\ current' = c
    /\ sentResponse' = TRUE
    /\ replies' = [replies EXCEPT ![c] = Append(@, "success")]
    /\ inbox' = Tail(inbox)
    /\ UNCHANGED << durable, state, seqNr, passivation, buffer, sent, views,
                    failures, past >>

\* The command has events: they go to the journal, other messages wait.
AcceptCommand(c) ==
    /\ status = "idle" /\ inbox # << >> /\ Head(inbox) = c
    /\ \E now \in Times : batch' = ProcessCommand(state, c, now)
    /\ batch' # << >>
    /\ status' = "writing"
    /\ current' = c
    /\ sentResponse' = FALSE
    /\ inbox' = Tail(inbox)
    /\ UNCHANGED << durable, state, seqNr, passivation, buffer, outside, past >>

\* Mutant of RefuseCommand: only the branch with events answers.
RefuseCommand_Silent(c) ==
    /\ status = "idle" /\ inbox # << >> /\ Head(inbox) = c
    /\ \E now \in Times : ProcessCommand(state, c, now) = << >>
    /\ inbox' = Tail(inbox)
    /\ UNCHANGED << durable, actor, passivation, buffer, outside, past >>

\* The command has none: the sender gets the failure.
RefuseCommand(c) ==
    /\ status = "idle" /\ inbox # << >> /\ Head(inbox) = c
    /\ \E now \in Times : ProcessCommand(state, c, now) = << >>
    /\ replies' = [replies EXCEPT ![c] = Append(@, "failure")]
    /\ inbox' = Tail(inbox)
    /\ UNCHANGED << durable, actor, passivation, buffer, sent, views, failures,
                    past >>

\* The journal writes the whole batch in one transaction.
WriteBatch ==
    /\ status = "writing"
    /\ journal' = journal \o batch
    /\ status' = "handling"
    /\ history' = history \o Unfold(history[Len(history)], batch)
    /\ executed' = executed \cup {current}
    /\ UNCHANGED << snapshots, saving, state, seqNr, current, batch,
                    sentResponse, shard, outside, dropped >>

\* Mutant of Respond: "otherwise we'll generate a response-per-event".
Respond_PerEvent == replies' = [replies EXCEPT ![current] = Append(@, "success")]

Respond ==
    IF sentResponse THEN UNCHANGED replies
    ELSE replies' = [replies EXCEPT ![current] = Append(@, "success")]

\* Mutant of SnapshotDue: the snapshot is numbered before its last event.
SnapshotDue_Early(n, s) ==
    IF n % SnapshotEvery = 0 THEN {[seqNr |-> n - 1, state |-> s]} ELSE {}

SnapshotDue(n, s) ==
    IF n % SnapshotEvery = 0 THEN {[seqNr |-> n, state |-> s]} ELSE {}

\* The callback of PersistAll, for one event of the batch.
HandleEvent ==
    /\ status = "handling"
    /\ state' = ProcessEvent(state, Head(batch))
    /\ seqNr' = seqNr + 1
    /\ Respond
    /\ sentResponse' = TRUE
    /\ saving' = saving \cup SnapshotDue(seqNr', state')
    /\ batch' = Tail(batch)
    /\ status' = IF batch' = << >> THEN "idle" ELSE "handling"
    /\ UNCHANGED << journal, snapshots, current, shard, sent, views, failures,
                    past >>

\* The snapshot store writes a snapshot, whatever became of the actor; or it
\* fails to, and nobody handles the failure.
SaveSnapshot(s) ==
    /\ saving' = saving \ {s}
    /\ snapshots' \in {snapshots, snapshots \cup {s}}
    /\ UNCHANGED << journal, actor, shard, outside, past >>

-----------------------------------------------------------------------------
(* Command<FetchProduct>, and the passivation it may cause.                *)

\* Mutant of WantsToEnd: the guard of the passivation forgotten.
WantsToEnd_Always(s) == TRUE

\* "We don't exist, so don't let remember-entities keep us alive."
WantsToEnd(s) == IsEmpty(s)

\* Mutant of FetchProduct: the events are persisted without holding other
\* messages back (PersistAllAsync), and a query falls between them.
FetchProduct_NotStashed(f) ==
    /\ status \in {"idle", "handling"} /\ inbox # << >> /\ Head(inbox) = Fetch(f)
    /\ views' = [views EXCEPT ![f] = Append(@, state)]
    /\ passivation' = IF WantsToEnd(state) /\ passivation = "none"
                      THEN "asked" ELSE passivation
    /\ inbox' = Tail(inbox)
    /\ UNCHANGED << durable, actor, buffer, sent, replies, failures, past >>

FetchProduct(f) ==
    /\ status = "idle" /\ inbox # << >> /\ Head(inbox) = Fetch(f)
    /\ views' = [views EXCEPT ![f] = Append(@, state)]
    /\ passivation' = IF WantsToEnd(state) /\ passivation = "none"
                      THEN "asked" ELSE passivation
    /\ inbox' = Tail(inbox)
    /\ UNCHANGED << durable, actor, buffer, sent, replies, failures, past >>

\* The stop message is handled in its turn by an idle actor, but is not
\* stashed by one that waits for the journal: it then ends the actor at once.
ReceivePoisonPill ==
    /\ \/ status = "idle" /\ inbox # << >> /\ Head(inbox) = PoisonPill
       \/ status \in {"writing", "handling"} /\ PoisonPill \in Held(inbox)
    /\ Stop(buffer, Held(inbox))
    /\ UNCHANGED << durable, outside, history, executed >>

-----------------------------------------------------------------------------
(* Failures.                                                               *)

\* The journal or the snapshot store reports an error.  A write that is
\* reported as failed may have been committed.
PersistenceFailure ==
    /\ failures < MaxFailures
    /\ \/ status \in {"loading", "replaying", "writing"}
       \/ status = "handling" /\ ~sentResponse
    /\ failures' = failures + 1
    /\ Stop(buffer, Held(inbox))
    /\ UNCHANGED << durable, sent, replies, views, history, executed >>

\* The node goes down, and the shard with it.
NodeCrash ==
    /\ failures < MaxFailures
    /\ status # "stopped"
    /\ failures' = failures + 1
    /\ Stop(<< >>, Held(inbox) \cup Held(buffer))
    /\ UNCHANGED << durable, sent, replies, views, history, executed >>

-----------------------------------------------------------------------------
Work ==
    \/ Start \/ LoadSnapshot \/ ReplayEvent \/ CompleteRecovery
    \/ \E c \in Commands : AcceptCommand(c) \/ RefuseCommand(c)
    \/ WriteBatch \/ HandleEvent
    \/ \E f \in Fetches : FetchProduct(f)
    \/ SendPoisonPill \/ ReceivePoisonPill

Next ==
    \/ Work
    \/ \E m \in Messages : Send(m)
    \/ \E s \in saving : SaveSnapshot(s)
    \/ PersistenceFailure \/ NodeCrash

Spec == Init /\ [][Next]_vars

\* The dispatcher runs an actor that has work to do, and the journal answers.
FairSpec == Spec /\ WF_vars(Work)

-----------------------------------------------------------------------------
(* Properties.                                                             *)

Snapshot == [seqNr : Nat, state : State]

\* Every variable has its type.
TypeOK ==
    /\ journal \in Seq(Event)
    /\ snapshots \subseteq Snapshot /\ saving \subseteq Snapshot
    /\ status \in {"stopped", "loading", "replaying", "idle", "writing",
                   "handling"}
    /\ state \in State /\ seqNr \in Nat
    /\ current \in Commands \cup {NoCommand}
    /\ batch \in Seq(Event) /\ sentResponse \in BOOLEAN
    /\ inbox \in Seq(Messages \cup {PoisonPill}) /\ buffer \in Seq(Messages)
    /\ passivation \in {"none", "asked", "pill"}
    /\ sent \subseteq Messages /\ failures \in Nat
    /\ replies \in [Commands -> Seq({"success", "failure"})]
    /\ views \in [Fetches -> Seq(State)]
    /\ history \in Seq(State)
    /\ executed \subseteq Commands /\ dropped \subseteq Messages

\* Whatever stopped and came back, and in the middle of a replay or of a batch
\* as well: the state in memory is the sum of exactly the first seqNr events of
\* the journal, and so is every snapshot that is or may come to be stored.
\* (`Recover' handlers, the callback of PersistAll and SaveSnapshot agree.)
StateIsSumOfEvents ==
    /\ Len(history) = Len(journal) + 1
    /\ history[1] = EmptyState
    /\ \A n \in 1 .. Len(journal) :
          history[n + 1] = ProcessEvent(history[n], journal[n])
    /\ seqNr <= Len(journal)
    /\ state = history[seqNr + 1]
    /\ \A s \in snapshots \cup saving :
          s.seqNr <= Len(journal) /\ s.state = history[s.seqNr + 1]

\* A sender that was told of success never loses its command: a reported sale
\* is in the journal, through crashes and restarts.
ReportedSaleIsDurable ==
    \A c \in Commands :
      c.type = "purchase" /\ replies[c] # << >> /\ replies[c][1] = "success"
        => \E n \in 1 .. Len(journal) : /\ journal[n].type = "sold"
                                        /\ journal[n].order = c.id

\* No sender hears twice of its command, although a batch has several events
\* ("otherwise we'll generate a response-per-event").
OneResponse == \A c \in Commands : Len(replies[c]) <= 1

\* What a sender hears of its command is true for ever, and it hears it once.
RepliesAreTrue == ReportedSaleIsDurable /\ OneResponse

\* A sale is judged on the stock that it really leaves: no other event comes
\* between the judgement and the write.  A sale that is not marked as back
\* ordered leaves stock behind, one that is does not, and every sale that
\* leaves the threshold or less is preceded by the right warning.
SalesJudgedOnRealStock ==
    \A n \in 1 .. Len(journal) :
      journal[n].type = "sold" =>
        LET left == history[n].remaining IN
        /\ journal[n].backOrdered = (left <= 0)
        /\ left <= LowInventoryWarningThreshold <=>
             /\ journal[n - 1].type = "warning"
             /\ journal[n - 1].at = journal[n].at
        /\ journal[n - 1].type = "warning" =>
             (journal[n - 1].reason = "NoSupply") = (left <= 0)

\* Without failures a message is lost only to a race of a query and a creation: the
\* query sees the product missing and asks the shard to end the entity, a
\* CreateProduct is handled meanwhile or dies with it.
PassivationLosesOnlyARace ==
    dropped # {} /\ failures = 0 =>
      /\ \E f \in Fetches : views[f] # << >> /\ IsEmpty(views[f][1])
      /\ \E c \in executed \cup dropped : c.type = "create"

\* The actor implements the ledger: its commands are atomic, its replies and
\* its reads are those of one durable sequence of commands.
Ledger == INSTANCE ProductLedger WITH ledger <- journal,
                                      product <- history[Len(history)]
Linearizable == Ledger!Spec

\* Every message that was sent is answered in the end, or died with a stop.
Answered(m) == IF m.type = "fetch" THEN views[m.id] # << >> ELSE replies[m] # << >>
EverythingIsSettled ==
    \A m \in Messages : m \in sent ~> Answered(m) \/ m \in dropped

\* The totals are those of the journal even when two events have the same
\* timestamp, and whatever the sign of a quantity: stock is the sum of its
\* changes, what was sold that of the sizes of the fulfilments, and revenue that
\* of the sales.
StockChange(e) == IF e.type = "changed" THEN e.qty ELSE 0
Shipped(e)     == IF e.type = "changed" /\ e.reason = "Fulfillment"
                  THEN IF e.qty < 0 THEN -e.qty ELSE e.qty
                  ELSE 0
Earned(e)      == IF e.type = "sold" THEN e.qty * e.price ELSE 0

TotalsMatchJournal ==
    /\ state.remaining = Total([n \in 1 .. seqNr |-> StockChange(journal[n])], seqNr)
    /\ state.sold      = Total([n \in 1 .. seqNr |-> Shipped(journal[n])], seqNr)
    /\ state.revenue   = Total([n \in 1 .. seqNr |-> Earned(journal[n])], seqNr)

-----------------------------------------------------------------------------
(* The inductive invariant behind the properties (see ProductTotalsProofs). *)

Busy == status \in {"writing", "handling"}

\* What each phase of the actor knows about the journal: an actor that is idle
\* or waits for a write is up to date, a batch that is being written was
\* judged on the state of the moment, and one that is being handled is the rest
\* of the journal.
PhaseInv ==
    /\ status \in {"idle", "writing"} => seqNr = Len(journal)
    /\ Busy => current \in Commands /\ batch # << >> /\ current \in sent
    /\ status = "writing" =>
         /\ ~sentResponse /\ current \notin executed
         /\ \E now \in Times : batch = ProcessCommand(state, current, now)
    /\ status = "handling" =>
         /\ current \in executed
         /\ seqNr + Len(batch) = Len(journal)
         /\ \A k \in 1 .. Len(batch) : journal[seqNr + k] = batch[k]
    /\ Busy /\ ~sentResponse => replies[current] = << >>

\* A message that nobody has handled yet.
Untouched(m) ==
    /\ m \in Commands => /\ replies[m] = << >> /\ m \notin executed
                         /\ Busy => m # current
    /\ \A f \in Fetches : m = Fetch(f) => views[f] = << >>

\* A message waits in one place at most, and only before it is handled.
MailInv ==
    /\ \A m \in Messages \ sent : Untouched(m)
    /\ \A i \in 1 .. Len(inbox) : inbox[i] # PoisonPill =>
         /\ inbox[i] \in sent /\ Untouched(inbox[i])
         /\ \A j \in 1 .. Len(inbox) : inbox[j] = inbox[i] => j = i
         /\ \A j \in 1 .. Len(buffer) : buffer[j] # inbox[i]
    /\ \A i \in 1 .. Len(buffer) :
         /\ buffer[i] \in sent /\ Untouched(buffer[i])
         /\ \A j \in 1 .. Len(buffer) : buffer[j] = buffer[i] => j = i

\* Only what is in the journal is reported, once, and an executed purchase has
\* its sale there.
ReplyInv ==
    /\ \A c \in Commands : /\ Len(replies[c]) <= 1
                           /\ replies[c] # << >> /\ replies[c][1] = "success"
                                 => c \in executed
    /\ \A c \in executed : c.type = "purchase" =>
         \E n \in 1 .. Len(journal) : /\ journal[n].type = "sold"
                                      /\ journal[n].order = c.id

\* A purchase writes the change of stock before its sale.
SaleInv ==
    /\ \A n \in 1 .. Len(journal) : journal[n].type = "sold" => n > 1
    /\ SalesJudgedOnRealStock

\* How a stop without a failure comes about: a query found the product missing,
\* the pill comes last, and only a creation gives the entity anything to do.
RaceInv ==
    /\ passivation # "none" =>
         \E f \in Fetches : views[f] # << >> /\ IsEmpty(views[f][1])
    /\ \A i \in 1 .. Len(inbox) :
         inbox[i] = PoisonPill => passivation = "pill" /\ i = Len(inbox)
    /\ ~Busy /\ ~sentResponse => current = NoCommand
    /\ executed # {} \/ history[Len(history)].created =>
         \E c \in executed : c.type = "create"
    /\ PassivationLosesOnlyARace

IInv == TypeOK /\ StateIsSumOfEvents /\ PhaseInv /\ MailInv /\ ReplyInv /\ SaleInv
          /\ RaceInv

=============================================================================
