------------------------- MODULE ProductTotalsProofs -------------------------
(***************************************************************************)
(* For every set of commands and queries, every snapshot interval and      *)
(* every number of failures: ProductTotals keeps its inductive invariant   *)
(* IInv, hence its safety properties, and implements ProductLedger.        *)
(***************************************************************************)
EXTENDS ProductTotals, ProductStateProofs, SequenceTheorems

-----------------------------------------------------------------------------
(* Messages.                                                               *)

\* Commands, queries and the stop message are told apart by their types.
LEMMA MessageKinds ==
    /\ \A c \in Commands : /\ c \in Command
                           /\ c # NoCommand /\ c # PoisonPill
                           /\ \A f \in Fetches : c # Fetch(f)
    /\ \A f \in Fetches : Fetch(f) # NoCommand /\ Fetch(f) # PoisonPill
    /\ \A f, g \in Fetches : Fetch(f) = Fetch(g) => f = g
    /\ NoCommand # PoisonPill
<1>1. \A f, g \in Fetches : Fetch(f) = Fetch(g) => f = g
  <2>1. \A f : Fetch(f).id = f
    BY DEF Fetch
  <2>2. QED
    BY <2>1
<1>2. \A f : Fetch(f).type = "fetch"
  BY DEF Fetch
<1>3. \A c \in Commands : c \in Command /\ c.type \in {"create", "supply", "purchase"}
  BY CommandsAssumption DEF Command
<1>4. NoCommand.type = "none" /\ PoisonPill.type = "pill"
  BY DEF NoCommand, PoisonPill
<1>5. QED
  BY <1>1, <1>2, <1>3, <1>4

-----------------------------------------------------------------------------
(* Type correctness.                                                       *)

\* The entity starts out empty.
LEMMA InitInvariant == Init => IInv
<1> SUFFICES ASSUME Init PROVE IInv
  OBVIOUS
<1>1. EmptyState \in State
  BY DEF EmptyState, State
<1>2. TypeOK
  <2>1. replies \in [Commands -> Seq({"success", "failure"})]
    BY EmptySeq DEF Init
  <2>2. views \in [Fetches -> Seq(State)]
    BY EmptySeq DEF Init
  <2>3. history \in Seq(State)
    BY <1>1 DEF Init
  <2>4. /\ journal \in Seq(Event) /\ batch \in Seq(Event)
        /\ inbox \in Seq(Messages \cup {PoisonPill}) /\ buffer \in Seq(Messages)
    BY EmptySeq DEF Init
  <2>5. QED
    BY <1>1, <2>1, <2>2, <2>3, <2>4 DEF Init, TypeOK
<1>3. StateIsSumOfEvents
  BY DEF Init, StateIsSumOfEvents
<1>4. PhaseInv
  BY DEF Init, PhaseInv, Busy
<1>5. MailInv
  BY DEF Init, MailInv, Untouched, Busy, Messages
<1>6. ReplyInv
  BY DEF Init, ReplyInv
<1>7. SaleInv
  BY DEF Init, SaleInv, SalesJudgedOnRealStock
<1>8. RaceInv
  <2>1. ~EmptyState.created
    BY DEF EmptyState
  <2>2. QED
    BY <2>1 DEF Init, RaceInv, Busy, PassivationLosesOnlyARace
<1>9. QED
  BY <1>2, <1>3, <1>4, <1>5, <1>6, <1>7, <1>8 DEF IInv

\* The type invariant after a stop, whatever stopped the actor.
LEMMA StopType ==
    ASSUME TypeOK, NEW next \in Seq(Messages), NEW lost, Stop(next, lost)
    PROVE  /\ status' \in {"stopped"} /\ state' \in State /\ seqNr' \in Nat
           /\ current' \in Commands \cup {NoCommand} /\ batch' \in Seq(Event)
           /\ sentResponse' \in BOOLEAN
           /\ inbox' \in Seq(Messages \cup {PoisonPill})
           /\ buffer' \in Seq(Messages)
           /\ passivation' \in {"none", "asked", "pill"}
           /\ dropped' \subseteq Messages
<1>1. EmptyState \in State
  BY DEF EmptyState, State
<1>2. batch' \in Seq(Event) /\ buffer' \in Seq(Messages)
  BY EmptySeq DEF Stop
<1>3. inbox' \in Seq(Messages \cup {PoisonPill})
  BY DEF Stop
<1>4. QED
  BY <1>1, <1>2, <1>3 DEF Stop, TypeOK

\* Every step keeps the types.
LEMMA TypeStep == IInv /\ [Next]_vars => TypeOK'
<1> SUFFICES ASSUME IInv, [Next]_vars PROVE TypeOK'
  OBVIOUS
<1> USE DEF durable, actor, shard, outside, past
<1>0. TypeOK /\ PhaseInv /\ StateIsSumOfEvents
  BY DEF IInv
<1>1. ASSUME NEW m \in Messages, Send(m) PROVE TypeOK'
  <2>1. Append(inbox, m) \in Seq(Messages \cup {PoisonPill})
    BY <1>0 DEF TypeOK
  <2>2. Append(buffer, m) \in Seq(Messages)
    BY <1>0 DEF TypeOK
  <2>3. QED
    BY <1>0, <1>1, <2>1, <2>2 DEF Send, TypeOK
<1>2. CASE Start
  BY <1>0, <1>2 DEF Start, TypeOK
<1>3. CASE SendPoisonPill
  BY <1>0, <1>3 DEF SendPoisonPill, TypeOK
<1>4. CASE LoadSnapshot
  BY <1>0, <1>4 DEF LoadSnapshot, TypeOK, Snapshot
<1>5. CASE ReplayEvent
  <2>1. journal[seqNr + 1] \in Event
    BY <1>0, <1>5 DEF ReplayEvent, TypeOK
  <2>2. state' \in State
    BY <1>0, <1>5, <2>1, ProcessEventType DEF ReplayEvent, TypeOK
  <2>3. QED
    BY <1>0, <1>5, <2>2 DEF ReplayEvent, TypeOK
<1>6. CASE CompleteRecovery
  BY <1>0, <1>6 DEF CompleteRecovery, TypeOK
<1>7. ASSUME NEW c \in Commands, AcceptCommand(c) PROVE TypeOK'
  <2>1. batch' \in Seq(Event)
    BY <1>0, <1>7, ProcessCommandType, MessageKinds DEF AcceptCommand, TypeOK
  <2>2. inbox' \in Seq(Messages \cup {PoisonPill})
    BY <1>0, <1>7 DEF AcceptCommand, TypeOK
  <2>3. QED
    BY <1>0, <1>7, <2>1, <2>2 DEF AcceptCommand, TypeOK
<1>8. ASSUME NEW c \in Commands, RefuseCommand(c) PROVE TypeOK'
  BY <1>0, <1>8 DEF RefuseCommand, TypeOK
<1>9. CASE WriteBatch
  <2>1. history[Len(history)] \in State /\ batch # << >> /\ current \in Commands
    BY <1>0, <1>9 DEF WriteBatch, TypeOK, StateIsSumOfEvents, PhaseInv, Busy
  <2>2. Len(batch) <= 3
    BY <1>0, <1>9, <2>1, ProcessCommandType, MessageKinds
       DEF WriteBatch, TypeOK, PhaseInv, Busy
  <2>3. Unfold(history[Len(history)], batch) \in Seq(State)
    BY <1>0, <2>1, <2>2, UnfoldSteps DEF TypeOK
  <2>4. history' \in Seq(State) /\ journal' \in Seq(Event)
    BY <1>0, <1>9, <2>3 DEF WriteBatch, TypeOK
  <2>5. QED
    BY <1>0, <1>9, <2>1, <2>4 DEF WriteBatch, TypeOK
<1>10. CASE HandleEvent
  <2>1. Head(batch) \in Event /\ current \in Commands
    BY <1>0, <1>10 DEF HandleEvent, TypeOK, PhaseInv, Busy
  <2>2. state' \in State /\ seqNr' \in Nat
    BY <1>0, <1>10, <2>1, ProcessEventType DEF HandleEvent, TypeOK
  <2>3. saving' \subseteq Snapshot
    BY <1>0, <1>10, <2>2 DEF HandleEvent, TypeOK, SnapshotDue, Snapshot
  <2>4. replies' \in [Commands -> Seq({"success", "failure"})]
    <3>1. Append(replies[current], "success") \in Seq({"success", "failure"})
      BY <1>0, <2>1 DEF TypeOK
    <3>2. QED
      BY <1>0, <1>10, <2>1, <3>1 DEF HandleEvent, Respond, TypeOK
  <2>5. batch' \in Seq(Event)
    <3>1. batch \in Seq(Event) /\ batch # << >> /\ batch' = Tail(batch)
      BY <1>0, <1>10 DEF HandleEvent, TypeOK, PhaseInv, Busy
    <3>2. QED
      BY <3>1, HeadTailProperties
  <2>6. QED
    BY <1>0, <1>10, <2>2, <2>3, <2>4, <2>5 DEF HandleEvent, TypeOK
<1>11. ASSUME NEW s \in saving, SaveSnapshot(s) PROVE TypeOK'
  BY <1>0, <1>11 DEF SaveSnapshot, TypeOK
<1>12. ASSUME NEW f \in Fetches, FetchProduct(f) PROVE TypeOK'
  BY <1>0, <1>12 DEF FetchProduct, TypeOK
<1>13. CASE ReceivePoisonPill
  <2>1. buffer \in Seq(Messages) /\ Stop(buffer, Held(inbox))
    BY <1>0, <1>13 DEF ReceivePoisonPill, TypeOK
  <2>2. QED
    BY <1>0, <1>13, <2>1, StopType DEF ReceivePoisonPill, TypeOK
<1>14. CASE PersistenceFailure
  <2>1. buffer \in Seq(Messages) /\ Stop(buffer, Held(inbox))
    BY <1>0, <1>14 DEF PersistenceFailure, TypeOK
  <2>2. QED
    BY <1>0, <1>14, <2>1, StopType DEF PersistenceFailure, TypeOK
<1>15. CASE NodeCrash
  <2>1. << >> \in Seq(Messages)
    BY EmptySeq
  <2>2. \E next \in Seq(Messages) : \E lost : Stop(next, lost)
    BY <1>15, <2>1 DEF NodeCrash
  <2>3. QED
    BY <1>0, <1>15, <2>2, StopType DEF NodeCrash, TypeOK
<1>16. CASE UNCHANGED vars
  BY <1>0, <1>16 DEF vars, TypeOK
<1>17. QED
  BY <1>1, <1>2, <1>3, <1>4, <1>5, <1>6, <1>7, <1>8, <1>9, <1>10, <1>11,
     <1>12, <1>13, <1>14, <1>15, <1>16 DEF Next, Work

-----------------------------------------------------------------------------
(* The state is the sum of the events.                                     *)

\* Where the elements of a concatenation come from.
LEMMA ConcatIndices ==
    ASSUME NEW S, NEW s \in Seq(S), NEW t \in Seq(S)
    PROVE  /\ Len(s \o t) = Len(s) + Len(t)
           /\ \A n \in 1 .. Len(s) : (s \o t)[n] = s[n]
           /\ \A k \in 1 .. Len(t) : (s \o t)[Len(s) + k] = t[k]
<1>1. Len(s) \in Nat /\ Len(t) \in Nat
  OBVIOUS
<1>2. \A n \in 1 .. Len(s) : (s \o t)[n] = s[n]
  <2> TAKE n \in 1 .. Len(s)
  <2>1. n \in 1 .. Len(s) + Len(t) /\ n <= Len(s)
    BY <1>1
  <2>2. QED
    BY <2>1, ConcatProperties
<1>3. \A k \in 1 .. Len(t) : (s \o t)[Len(s) + k] = t[k]
  <2> TAKE k \in 1 .. Len(t)
  <2>1. /\ Len(s) + k \in 1 .. Len(s) + Len(t) /\ ~(Len(s) + k <= Len(s))
        /\ Len(s) + k - Len(s) = k
    BY <1>1
  <2>2. QED
    BY <2>1, ConcatProperties
<1>4. QED
  BY <1>2, <1>3, ConcatProperties

\* A stop forgets the events that were counted, and with them the state.
LEMMA StopSum ==
    ASSUME TypeOK, StateIsSumOfEvents, UNCHANGED << durable, history >>,
           state' = EmptyState, seqNr' = 0
    PROVE  StateIsSumOfEvents'
BY DEF StateIsSumOfEvents, TypeOK, durable

\* The batch that is written extends the journal and its sums alike.
LEMMA WriteSum ==
    ASSUME IInv, WriteBatch
    PROVE  /\ Len(journal') = Len(journal) + Len(batch)
           /\ Len(history') = Len(journal') + 1
           /\ \A n \in 1 .. Len(journal) : journal'[n] = journal[n]
           /\ \A k \in 1 .. Len(batch) : journal'[Len(journal) + k] = batch[k]
           /\ \A n \in 1 .. Len(history) : history'[n] = history[n]
           /\ \A n \in 1 .. Len(journal') :
                history'[n + 1] = ProcessEvent(history'[n], journal'[n])
<1> DEFINE base == history[Len(history)]
           U    == Unfold(base, batch)
<1>1. /\ journal \in Seq(Event) /\ batch \in Seq(Event) /\ history \in Seq(State)
      /\ Len(history) = Len(journal) + 1
      /\ \A n \in 1 .. Len(journal) :
           history[n + 1] = ProcessEvent(history[n], journal[n])
  BY DEF IInv, TypeOK, StateIsSumOfEvents
<1>2. base \in State /\ batch # << >> /\ Len(batch) <= 3
  <2>1. current \in Commands /\ batch # << >>
        /\ \E now \in Times : batch = ProcessCommand(state, current, now)
    BY DEF IInv, PhaseInv, Busy, WriteBatch
  <2>2. Len(batch) <= 3
    BY <2>1, ProcessCommandType, MessageKinds DEF IInv, TypeOK
  <2>3. QED
    BY <1>1, <2>1, <2>2
<1>3. /\ U \in Seq(State) /\ Len(U) = Len(batch)
      /\ U[1] = ProcessEvent(base, batch[1])
      /\ \A k \in 2 .. Len(batch) : U[k] = ProcessEvent(U[k - 1], batch[k])
  BY <1>1, <1>2, UnfoldSteps
<1>4. journal' = journal \o batch /\ history' = history \o U
  BY DEF WriteBatch
<1> HIDE DEF U
<1>5. /\ Len(journal') = Len(journal) + Len(batch)
      /\ Len(history') = Len(journal') + 1
      /\ \A n \in 1 .. Len(journal) : journal'[n] = journal[n]
      /\ \A k \in 1 .. Len(batch) : journal'[Len(journal) + k] = batch[k]
      /\ \A n \in 1 .. Len(history) : history'[n] = history[n]
      /\ \A k \in 1 .. Len(batch) : history'[Len(history) + k] = U[k]
  <2>1. /\ Len(journal') = Len(journal) + Len(batch)
        /\ \A n \in 1 .. Len(journal) : journal'[n] = journal[n]
        /\ \A k \in 1 .. Len(batch) : journal'[Len(journal) + k] = batch[k]
    BY <1>1, <1>4, ConcatIndices
  <2>2. /\ Len(history') = Len(history) + Len(U)
        /\ \A n \in 1 .. Len(history) : history'[n] = history[n]
        /\ \A k \in 1 .. Len(U) : history'[Len(history) + k] = U[k]
    <3>1. history \in Seq(State) /\ U \in Seq(State) /\ history' = history \o U
      BY <1>1, <1>3, <1>4
    <3>2. QED
      BY <3>1, ConcatIndices
  <2>3. Len(history') = Len(journal') + 1
    <3>1. Len(journal) \in Nat /\ Len(batch) \in Nat
      BY <1>1
    <3>2. QED
      BY <1>1, <1>3, <2>1, <2>2, <3>1
  <2>4. QED
    BY <1>3, <2>1, <2>2, <2>3
<1>6. ASSUME NEW n \in 1 .. Len(journal')
      PROVE  history'[n + 1] = ProcessEvent(history'[n], journal'[n])
  <2>0. Len(journal) \in Nat /\ Len(batch) \in Nat
    BY <1>1
  <2>1. CASE n <= Len(journal)
    <3>1. /\ n \in 1 .. Len(journal) /\ n \in 1 .. Len(history)
          /\ n + 1 \in 1 .. Len(history)
      BY <1>1, <2>0, <2>1
    <3>2. QED
      BY <1>1, <1>5, <3>1
  <2>2. CASE n = Len(journal) + 1
    <3>1. /\ 1 \in 1 .. Len(batch) /\ n = Len(history)
          /\ n \in 1 .. Len(history)
      BY <1>1, <1>2, <2>0, <2>2
    <3>2. /\ history'[n + 1] = U[1] /\ history'[n] = base
          /\ journal'[n] = batch[1]
      BY <1>5, <2>2, <3>1
    <3>3. QED
      BY <1>3, <3>2
  <2>3. CASE n > Len(journal) + 1
    <3> DEFINE k == n - Len(journal)
    <3>1. /\ k \in 2 .. Len(batch) /\ k \in 1 .. Len(batch)
          /\ k - 1 \in 1 .. Len(batch)
          /\ n = Len(journal) + k /\ n + 1 = Len(history) + k
          /\ n = Len(history) + (k - 1)
      BY <1>1, <1>5, <2>0, <2>3
    <3> HIDE DEF k
    <3>2. /\ history'[n + 1] = U[k] /\ history'[n] = U[k - 1]
          /\ journal'[n] = batch[k]
      BY <1>5, <3>1
    <3>3. QED
      BY <1>3, <3>1, <3>2
  <2>4. QED
    BY <2>0, <2>1, <2>2, <2>3
<1>7. QED
  BY <1>5, <1>6

\* Every step keeps the state a sum of events.
LEMMA SumStep == IInv /\ [Next]_vars => StateIsSumOfEvents'
<1> SUFFICES ASSUME IInv, [Next]_vars PROVE StateIsSumOfEvents'
  OBVIOUS
<1> USE DEF durable, actor, shard, outside, past
<1>0. TypeOK /\ StateIsSumOfEvents /\ PhaseInv
  BY DEF IInv
<1>1. CASE UNCHANGED << journal, snapshots, saving, state, seqNr, history >>
  BY <1>0, <1>1 DEF StateIsSumOfEvents
<1>2. CASE LoadSnapshot
  <2>1. CASE UNCHANGED << state, seqNr >>
    BY <1>1, <1>2, <2>1 DEF LoadSnapshot
  <2>2. ASSUME NEW s \in snapshots, state' = s.state, seqNr' = s.seqNr
        PROVE  StateIsSumOfEvents'
    BY <1>0, <1>2, <2>2 DEF LoadSnapshot, StateIsSumOfEvents
  <2>3. QED
    BY <1>2, <2>1, <2>2 DEF LoadSnapshot
<1>3. CASE ReplayEvent
  <2>1. /\ seqNr + 1 \in 1 .. Len(journal)
        /\ seqNr' = seqNr + 1
        /\ state' = ProcessEvent(history[seqNr + 1], journal[seqNr + 1])
    BY <1>0, <1>3 DEF ReplayEvent, TypeOK, StateIsSumOfEvents
  <2>2. state' = history[seqNr' + 1] /\ seqNr' <= Len(journal)
    BY <1>0, <2>1 DEF StateIsSumOfEvents
  <2>3. QED
    BY <1>0, <1>3, <2>2 DEF ReplayEvent, StateIsSumOfEvents
<1>4. CASE WriteBatch
  <2>1. 1 \in 1 .. Len(history) /\ seqNr + 1 \in 1 .. Len(history)
    BY <1>0 DEF StateIsSumOfEvents, TypeOK
  <2>2. history'[1] = EmptyState /\ state' = history'[seqNr' + 1]
    BY <1>0, <1>4, <2>1, WriteSum DEF StateIsSumOfEvents, WriteBatch
  <2>3. seqNr' <= Len(journal')
    <3>1. Len(batch) \in Nat /\ Len(journal) \in Nat /\ seqNr \in Nat
      BY <1>0 DEF TypeOK
    <3>2. QED
      BY <1>0, <1>4, <3>1, WriteSum DEF StateIsSumOfEvents, WriteBatch
  <2>4. ASSUME NEW s \in snapshots' \cup saving'
        PROVE  s.seqNr <= Len(journal') /\ s.state = history'[s.seqNr + 1]
    <3>1. /\ s.seqNr \in Nat /\ s.seqNr <= Len(journal)
          /\ s.state = history[s.seqNr + 1]
      BY <1>0, <1>4, <2>4 DEF WriteBatch, TypeOK, Snapshot, StateIsSumOfEvents
    <3>2. s.seqNr + 1 \in 1 .. Len(history)
      BY <1>0, <3>1 DEF StateIsSumOfEvents, TypeOK
    <3>3. Len(batch) \in Nat /\ Len(journal) \in Nat
      BY <1>0 DEF TypeOK
    <3>4. QED
      BY <1>4, <3>1, <3>2, <3>3, WriteSum
  <2>5. QED
    BY <1>4, <2>2, <2>3, <2>4, WriteSum DEF StateIsSumOfEvents
<1>5. CASE HandleEvent
  <2>1. batch # << >> /\ Len(batch) \in Nat /\ 1 \in 1 .. Len(batch)
    BY <1>0, <1>5 DEF HandleEvent, PhaseInv, Busy, TypeOK
  <2>2. /\ seqNr + 1 \in 1 .. Len(journal)
        /\ journal[seqNr + 1] = batch[1]
    BY <1>0, <1>5, <2>1 DEF HandleEvent, PhaseInv, TypeOK
  <2>3. /\ seqNr' = seqNr + 1
        /\ state' = ProcessEvent(history[seqNr + 1], journal[seqNr + 1])
    BY <1>0, <1>5, <2>1, <2>2 DEF HandleEvent, TypeOK, StateIsSumOfEvents
  <2>4. state' = history[seqNr' + 1] /\ seqNr' <= Len(journal)
    BY <1>0, <2>2, <2>3 DEF StateIsSumOfEvents
  <2>5. \A s \in saving' \ saving : s.seqNr = seqNr' /\ s.state = state'
    BY <1>5 DEF HandleEvent, SnapshotDue
  <2>6. UNCHANGED << journal, snapshots, history >>
    BY <1>5 DEF HandleEvent
  <2>7. QED
    BY <1>0, <2>4, <2>5, <2>6 DEF StateIsSumOfEvents
<1>6. ASSUME NEW s \in saving, SaveSnapshot(s) PROVE StateIsSumOfEvents'
  BY <1>0, <1>6 DEF SaveSnapshot, StateIsSumOfEvents
<1>7. CASE ReceivePoisonPill
  BY <1>0, <1>7, StopSum DEF ReceivePoisonPill, Stop
<1>8. CASE PersistenceFailure
  BY <1>0, <1>8, StopSum DEF PersistenceFailure, Stop
<1>9. CASE NodeCrash
  BY <1>0, <1>9, StopSum DEF NodeCrash, Stop
<1>10. ASSUME \/ \E m \in Messages : Send(m)
              \/ Start \/ SendPoisonPill \/ CompleteRecovery
              \/ \E c \in Commands : AcceptCommand(c) \/ RefuseCommand(c)
              \/ \E f \in Fetches : FetchProduct(f)
              \/ UNCHANGED vars
       PROVE  StateIsSumOfEvents'
  BY <1>1, <1>10 DEF Send, Start, SendPoisonPill, CompleteRecovery,
     AcceptCommand, RefuseCommand, FetchProduct, vars
<1>11. QED
  BY <1>2, <1>3, <1>4, <1>5, <1>6, <1>7, <1>8, <1>9, <1>10 DEF Next, Work

-----------------------------------------------------------------------------
(* What each phase knows.                                                  *)

\* A command at the head of the mailbox was sent, and nothing was done for it.
LEMMA HeadIsUntouched ==
    ASSUME IInv, NEW c \in Commands, inbox # << >>, Head(inbox) = c
    PROVE  c \in sent /\ replies[c] = << >> /\ c \notin executed
<1>1. 1 \in 1 .. Len(inbox) /\ inbox[1] = c
  BY DEF IInv, TypeOK
<1>2. inbox[1] # PoisonPill
  BY <1>1, MessageKinds
<1>3. QED
  BY <1>1, <1>2 DEF IInv, MailInv, Untouched

\* Every step keeps what is known of a phase.
LEMMA PhaseStep == IInv /\ [Next]_vars => PhaseInv'
<1> SUFFICES ASSUME IInv, [Next]_vars PROVE PhaseInv'
  OBVIOUS
<1> USE DEF durable, actor, shard, outside, past
<1>0. TypeOK /\ StateIsSumOfEvents /\ PhaseInv
  BY DEF IInv
<1>1. CASE UNCHANGED << journal, actor, executed, replies >> /\ sent \subseteq sent'
  BY <1>0, <1>1 DEF PhaseInv, Busy
<1>2. CASE status' \in {"stopped", "loading", "replaying"}
  BY <1>2 DEF PhaseInv, Busy
<1>3. CASE CompleteRecovery
  BY <1>3 DEF CompleteRecovery, PhaseInv, Busy
<1>4. ASSUME NEW c \in Commands, AcceptCommand(c) PROVE PhaseInv'
  <2>1. c \in sent /\ replies[c] = << >> /\ c \notin executed
    BY <1>4, HeadIsUntouched DEF AcceptCommand
  <2>2. \E now \in Times : batch' = ProcessCommand(state', current', now)
    BY <1>4 DEF AcceptCommand
  <2>3. QED
    BY <1>0, <1>4, <2>1, <2>2 DEF AcceptCommand, PhaseInv, Busy
<1>5. ASSUME NEW c \in Commands, RefuseCommand(c) PROVE PhaseInv'
  BY <1>0, <1>5 DEF RefuseCommand, PhaseInv, Busy
<1>6. CASE WriteBatch
  <2>1. /\ seqNr = Len(journal) /\ Len(batch) \in Nat /\ Len(journal) \in Nat
        /\ current \in Commands /\ batch # << >> /\ current \in sent
    BY <1>0, <1>6 DEF WriteBatch, PhaseInv, Busy, TypeOK
  <2>2. /\ seqNr + Len(batch) = Len(journal')
        /\ \A k \in 1 .. Len(batch) : journal'[seqNr + k] = batch[k]
    BY <1>6, <2>1, WriteSum
  <2>3. QED
    BY <1>0, <1>6, <2>1, <2>2 DEF WriteBatch, PhaseInv, Busy
<1>7. CASE HandleEvent
  <2>1. /\ batch # << >> /\ current \in Commands /\ current \in sent
        /\ current \in executed /\ seqNr + Len(batch) = Len(journal)
        /\ \A k \in 1 .. Len(batch) : journal[seqNr + k] = batch[k]
    BY <1>0, <1>7 DEF HandleEvent, PhaseInv, Busy
  <2>2. /\ batch' \in Seq(Event) /\ Len(batch') = Len(batch) - 1
        /\ \A k \in 1 .. Len(batch') : batch'[k] = batch[k + 1]
    BY <1>0, <1>7, <2>1, HeadTailProperties DEF HandleEvent, TypeOK
  <2>3. seqNr' = seqNr + 1 /\ journal' = journal /\ Len(batch) \in Nat
        /\ seqNr \in Nat /\ Len(journal) \in Nat
    BY <1>0, <1>7 DEF HandleEvent, TypeOK
  <2>4. seqNr' + Len(batch') = Len(journal')
    <3>1. /\ seqNr' = seqNr + 1 /\ Len(batch') = Len(batch) - 1
          /\ Len(journal') = seqNr + Len(batch)
      BY <2>1, <2>2, <2>3
    <3>2. seqNr \in Nat /\ Len(batch) \in Nat
      BY <2>3
    <3>3. QED
      BY <3>1, <3>2
  <2>5. ASSUME NEW k \in 1 .. Len(batch') PROVE journal'[seqNr' + k] = batch'[k]
    <3>1. k + 1 \in 1 .. Len(batch) /\ seqNr' + k = seqNr + (k + 1)
      BY <2>2, <2>3
    <3>2. QED
      BY <2>1, <2>2, <2>3, <3>1
  <2>6. batch' = << >> => seqNr' = Len(journal')
    <3>1. batch' = << >> => Len(batch') = 0
      BY EmptySeq
    <3>2. Len(journal') \in Nat /\ seqNr' \in Nat
      BY <2>3
    <3>3. QED
      BY <2>4, <3>1, <3>2
  <2>7. sentResponse' /\ UNCHANGED << current, sent, executed >>
        /\ status' = IF batch' = << >> THEN "idle" ELSE "handling"
    BY <1>7 DEF HandleEvent
  <2>8. QED
    BY <2>1, <2>4, <2>5, <2>6, <2>7 DEF PhaseInv, Busy
<1>8. CASE Start \/ LoadSnapshot \/ ReplayEvent \/ ReceivePoisonPill
             \/ PersistenceFailure \/ NodeCrash
  BY <1>2, <1>8 DEF Start, LoadSnapshot, ReplayEvent, ReceivePoisonPill,
     PersistenceFailure, NodeCrash, Stop
<1>9. ASSUME \/ \E m \in Messages : Send(m)
             \/ \E s \in saving : SaveSnapshot(s)
             \/ \E f \in Fetches : FetchProduct(f)
             \/ SendPoisonPill \/ UNCHANGED vars
      PROVE  PhaseInv'
  BY <1>1, <1>9 DEF Send, SaveSnapshot, FetchProduct, SendPoisonPill, vars
<1>10. QED
  BY <1>3, <1>4, <1>5, <1>6, <1>7, <1>8, <1>9 DEF Next, Work

-----------------------------------------------------------------------------
(* The messages that wait.                                                 *)

\* Nothing is taken from the mailbox, and no message is handled.
LEMMA MailStays ==
    ASSUME IInv, UNCHANGED << inbox, buffer, sent >>,
           \A m \in Messages : Untouched(m) => Untouched(m)'
    PROVE  MailInv'
<1>1. sent \subseteq Messages
  BY DEF IInv, TypeOK
<1>2. QED
  BY <1>1 DEF IInv, MailInv

\* The head of the mailbox is taken, and at most that message is handled.
LEMMA MailAdvances ==
    ASSUME IInv, inbox # << >>, Head(inbox) # PoisonPill,
           inbox' = Tail(inbox), UNCHANGED << buffer, sent >>,
           \A m \in Messages : m # Head(inbox) /\ Untouched(m) => Untouched(m)'
    PROVE  MailInv'
<1>1. /\ sent \subseteq Messages
      /\ inbox \in Seq(Messages \cup {PoisonPill})
  BY DEF IInv, TypeOK
<1>2. /\ Len(inbox') = Len(inbox) - 1 /\ Len(inbox) \in Nat
      /\ \A i \in 1 .. Len(inbox') : inbox'[i] = inbox[i + 1]
  BY <1>1, HeadTailProperties
<1>3. 1 \in 1 .. Len(inbox) /\ Head(inbox) = inbox[1]
  BY <1>1
<1>4. MailInv
  BY DEF IInv
<1>5. ASSUME NEW m \in Messages \ sent' PROVE Untouched(m)'
  <2>1. Head(inbox) \in sent
    BY <1>3, <1>4 DEF MailInv
  <2>2. QED
    BY <1>4, <1>5, <2>1 DEF MailInv
<1>6. ASSUME NEW i \in 1 .. Len(inbox'), inbox'[i] # PoisonPill
      PROVE  /\ inbox'[i] \in sent' /\ Untouched(inbox[i])'
             /\ \A j \in 1 .. Len(inbox') : inbox'[j] = inbox'[i] => j = i
             /\ \A j \in 1 .. Len(buffer') : buffer'[j] # inbox'[i]
  <2>1. i + 1 \in 1 .. Len(inbox) /\ inbox'[i] = inbox[i + 1] /\ i + 1 # 1
    BY <1>2
  <2>2. /\ inbox[i + 1] \in sent /\ Untouched(inbox[i + 1])
        /\ \A j \in 1 .. Len(inbox) : inbox[j] = inbox[i + 1] => j = i + 1
        /\ \A j \in 1 .. Len(buffer) : buffer[j] # inbox[i + 1]
    BY <1>4, <1>6, <2>1 DEF MailInv
  <2>3. inbox[i + 1] # Head(inbox)
    BY <1>3, <2>1, <2>2
  <2>4. Untouched(inbox[i])'
    <3>1. PICK m \in Messages : m = inbox[i + 1]
      BY <1>1, <2>2
    <3>2. Untouched(m) /\ m # Head(inbox)
      BY <2>2, <2>3, <3>1
    <3>3. Untouched(m)'
      BY <3>1, <3>2
    <3>4. inbox'[i] = m
      BY <2>1, <3>1
    <3>5. QED
      BY <3>3, <3>4 DEF Untouched, Busy
  <2>5. ASSUME NEW j \in 1 .. Len(inbox'), inbox'[j] = inbox'[i] PROVE j = i
    <3>1. j + 1 \in 1 .. Len(inbox) /\ inbox'[j] = inbox[j + 1]
      BY <1>2
    <3>2. j + 1 = i + 1
      BY <2>1, <2>2, <2>5, <3>1
    <3>3. QED
      BY <3>2
  <2>6. QED
    BY <2>1, <2>2, <2>4, <2>5
<1>7. ASSUME NEW i \in 1 .. Len(buffer')
      PROVE  /\ buffer'[i] \in sent' /\ Untouched(buffer[i])'
             /\ \A j \in 1 .. Len(buffer') : buffer'[j] = buffer'[i] => j = i
  <2>1. /\ buffer[i] \in sent /\ Untouched(buffer[i])
        /\ \A j \in 1 .. Len(buffer) : buffer[j] = buffer[i] => j = i
    BY <1>4, <1>7 DEF MailInv
  <2>2. buffer[i] # Head(inbox)
    BY <1>3, <1>4, <1>7 DEF MailInv
  <2>3. Untouched(buffer[i])'
    BY <1>1, <2>1, <2>2
  <2>4. QED
    BY <2>1, <2>3
<1>8. QED
  BY <1>5, <1>6, <1>7 DEF MailInv

\* After a stop the held-back messages, or none, are the mailbox.
LEMMA MailRestarts ==
    ASSUME IInv, inbox' = buffer \/ inbox' = << >>, buffer' = << >>,
           UNCHANGED << sent, replies, views, executed >>, status' = "stopped"
    PROVE  MailInv'
<1>1. MailInv /\ sent \subseteq Messages
  BY DEF IInv, TypeOK
<1>2. \A m \in Messages : Untouched(m) => Untouched(m)'
  BY DEF Untouched, Busy
<1>3. Len(buffer') = 0
  BY EmptySeq
<1>4. CASE inbox' = buffer
  BY <1>1, <1>2, <1>3, <1>4 DEF MailInv
<1>5. CASE inbox' = << >>
  BY <1>1, <1>2, <1>3, <1>5, EmptySeq DEF MailInv
<1>6. QED
  BY <1>4, <1>5

\* A message that is sent joins the mailbox or the buffer.
LEMMA MailGrows == ASSUME IInv, NEW m \in Messages, Send(m) PROVE MailInv'
<1> USE DEF durable, actor, past
<1>1. /\ MailInv /\ sent \subseteq Messages /\ buffer \in Seq(Messages)
      /\ inbox \in Seq(Messages \cup {PoisonPill})
  BY DEF IInv, TypeOK
<1>2. m \notin sent /\ sent' = sent \cup {m} /\ Untouched(m)
  BY <1>1 DEF Send, MailInv
<1>3. \A x \in Messages : Untouched(x) => Untouched(x)'
  BY DEF Send, Untouched, Busy
<1>4. \A i \in 1 .. Len(inbox) : inbox[i] # m \/ inbox[i] = PoisonPill
  BY <1>1, <1>2 DEF MailInv
<1>5. m # PoisonPill
  BY MessageKinds DEF Messages, Queries
<1>6. \A i \in 1 .. Len(buffer) : buffer[i] # m
  BY <1>1, <1>2 DEF MailInv
<1>7. Len(inbox) \in Nat /\ Len(buffer) \in Nat
  BY <1>1
<1>8. CASE passivation = "pill"
  <2>1. /\ inbox' = inbox /\ Len(buffer') = Len(buffer) + 1
        /\ \A i \in 1 .. Len(buffer) : buffer'[i] = buffer[i]
        /\ buffer'[Len(buffer) + 1] = m
    BY <1>1, <1>8, AppendProperties DEF Send
  <2>2. \A i \in 1 .. Len(buffer') : i \in 1 .. Len(buffer) \/ i = Len(buffer) + 1
    BY <1>7, <2>1
  <2>3. \A x \in Messages \ sent' : Untouched(x)'
    BY <1>1, <1>2, <1>3 DEF MailInv
  <2>4. ASSUME NEW i \in 1 .. Len(inbox'), inbox'[i] # PoisonPill
        PROVE  /\ inbox'[i] \in sent' /\ Untouched(inbox[i])'
               /\ \A j \in 1 .. Len(inbox') : inbox'[j] = inbox'[i] => j = i
               /\ \A j \in 1 .. Len(buffer') : buffer'[j] # inbox'[i]
    BY <1>1, <1>2, <1>3, <1>4, <2>1, <2>2, <2>4 DEF MailInv
  <2>5. ASSUME NEW i \in 1 .. Len(buffer')
        PROVE  /\ buffer'[i] \in sent' /\ Untouched(buffer[i])'
               /\ \A j \in 1 .. Len(buffer') : buffer'[j] = buffer'[i] => j = i
    BY <1>1, <1>2, <1>3, <1>6, <2>1, <2>2 DEF MailInv
  <2>6. QED
    BY <2>3, <2>4, <2>5 DEF MailInv
<1>9. CASE passivation # "pill"
  <2>1. /\ buffer' = buffer /\ Len(inbox') = Len(inbox) + 1
        /\ \A i \in 1 .. Len(inbox) : inbox'[i] = inbox[i]
        /\ inbox'[Len(inbox) + 1] = m
    BY <1>1, <1>9, AppendProperties DEF Send
  <2>2. \A i \in 1 .. Len(inbox') : i \in 1 .. Len(inbox) \/ i = Len(inbox) + 1
    BY <1>7, <2>1
  <2>3. \A x \in Messages \ sent' : Untouched(x)'
    BY <1>1, <1>2, <1>3 DEF MailInv
  <2>4. ASSUME NEW i \in 1 .. Len(inbox'), inbox'[i] # PoisonPill
        PROVE  /\ inbox'[i] \in sent' /\ Untouched(inbox[i])'
               /\ \A j \in 1 .. Len(inbox') : inbox'[j] = inbox'[i] => j = i
               /\ \A j \in 1 .. Len(buffer') : buffer'[j] # inbox'[i]
    BY <1>1, <1>2, <1>3, <1>4, <1>6, <2>1, <2>2, <2>4 DEF MailInv
  <2>5. ASSUME NEW i \in 1 .. Len(buffer')
        PROVE  /\ buffer'[i] \in sent' /\ Untouched(buffer[i])'
               /\ \A j \in 1 .. Len(buffer') : buffer'[j] = buffer'[i] => j = i
    BY <1>1, <1>2, <1>3, <2>1 DEF MailInv
  <2>6. QED
    BY <2>3, <2>4, <2>5 DEF MailInv
<1>10. QED
  BY <1>8, <1>9

\* Every step keeps what is known of the mailbox and of the reply.
LEMMA MailStep == IInv /\ [Next]_vars => MailInv'
<1> SUFFICES ASSUME IInv, [Next]_vars PROVE MailInv'
  OBVIOUS
<1> USE DEF durable, actor, shard, outside, past
<1>0. TypeOK /\ PhaseInv /\ MailInv
  BY DEF IInv
<1>1. ASSUME NEW m \in Messages, Send(m) PROVE MailInv'
  BY <1>1, MailGrows
<1>2. CASE SendPoisonPill
  <2>1. inbox \in Seq(Messages \cup {PoisonPill})
    BY <1>0 DEF TypeOK
  <2>2. /\ Len(inbox') = Len(inbox) + 1 /\ Len(inbox) \in Nat
        /\ \A i \in 1 .. Len(inbox) : inbox'[i] = inbox[i]
        /\ inbox'[Len(inbox) + 1] = PoisonPill
    BY <1>2, <2>1, AppendProperties DEF SendPoisonPill
  <2>3. \A i \in 1 .. Len(inbox') : i \in 1 .. Len(inbox) \/ i = Len(inbox) + 1
    BY <2>2
  <2>4. sent \subseteq Messages /\ \A m \in Messages : Untouched(m) => Untouched(m)'
    BY <1>0, <1>2 DEF SendPoisonPill, Untouched, Busy, TypeOK
  <2>5. UNCHANGED << buffer, sent >>
    BY <1>2 DEF SendPoisonPill
  <2>6. QED
    BY <1>0, <2>2, <2>3, <2>4, <2>5 DEF MailInv
<1>3. ASSUME NEW c \in Commands, AcceptCommand(c) PROVE MailInv'
  <2>1. \A m \in Messages : m # c /\ Untouched(m) => Untouched(m)'
    BY <1>3 DEF AcceptCommand, Untouched, Busy
  <2>2. QED
    BY <1>3, <2>1, MailAdvances, MessageKinds DEF AcceptCommand
<1>4. ASSUME NEW c \in Commands, RefuseCommand(c) PROVE MailInv'
  <2>1. \A m \in Messages : m # c /\ Untouched(m) => Untouched(m)'
    BY <1>0, <1>4 DEF RefuseCommand, Untouched, Busy, TypeOK
  <2>2. QED
    BY <1>4, <2>1, MailAdvances, MessageKinds DEF RefuseCommand
<1>5. ASSUME NEW f \in Fetches, FetchProduct(f) PROVE MailInv'
  <2>1. \A m \in Messages : m # Fetch(f) /\ Untouched(m) => Untouched(m)'
    BY <1>0, <1>5, MessageKinds DEF FetchProduct, Untouched, Busy, TypeOK
  <2>2. QED
    BY <1>5, <2>1, MailAdvances, MessageKinds DEF FetchProduct
<1>6. CASE WriteBatch
  <2>1. \A m \in Messages : Untouched(m) => Untouched(m)'
    BY <1>6 DEF WriteBatch, Untouched, Busy
  <2>2. QED
    BY <1>6, <2>1, MailStays DEF WriteBatch
<1>7. CASE HandleEvent
  <2>1. \A m \in Messages : Untouched(m) => Untouched(m)'
    BY <1>0, <1>7 DEF HandleEvent, Respond, Untouched, Busy, TypeOK
  <2>2. QED
    BY <1>7, <2>1, MailStays DEF HandleEvent
<1>8. ASSUME \/ Start \/ LoadSnapshot \/ ReplayEvent \/ CompleteRecovery
             \/ \E s \in saving : SaveSnapshot(s)
             \/ UNCHANGED vars
      PROVE  MailInv'
  <2>1. UNCHANGED << inbox, buffer, sent, replies, views, executed, current >>
        /\ (Busy' => Busy)
    BY <1>8 DEF Start, LoadSnapshot, ReplayEvent, CompleteRecovery,
       SaveSnapshot, vars, Busy
  <2>2. \A m \in Messages : Untouched(m) => Untouched(m)'
    BY <2>1 DEF Untouched
  <2>3. QED
    BY <2>1, <2>2, MailStays
<1>9. CASE ReceivePoisonPill \/ PersistenceFailure \/ NodeCrash
  BY <1>9, MailRestarts DEF ReceivePoisonPill, PersistenceFailure, NodeCrash, Stop
<1>10. QED
  BY <1>1, <1>2, <1>3, <1>4, <1>5, <1>6, <1>7, <1>8, <1>9 DEF Next, Work

-----------------------------------------------------------------------------
(* Replies.                                                                *)

\* An executed purchase keeps its sale when the journal grows, and the purchase
\* that is written brings its own.
LEMMA WriteBringsSale ==
    ASSUME IInv, WriteBatch, NEW c \in executed', c.type = "purchase"
    PROVE  \E n \in 1 .. Len(journal') : /\ journal'[n].type = "sold"
                                         /\ journal'[n].order = c.id
<1>1. /\ Len(journal') = Len(journal) + Len(batch)
      /\ \A n \in 1 .. Len(journal) : journal'[n] = journal[n]
      /\ \A k \in 1 .. Len(batch) : journal'[Len(journal) + k] = batch[k]
  BY WriteSum
<1>2. Len(journal) \in Nat /\ Len(batch) \in Nat
  BY DEF IInv, TypeOK
<1>3. CASE c \in executed
  <2>1. PICK n \in 1 .. Len(journal) : /\ journal[n].type = "sold"
                                       /\ journal[n].order = c.id
    BY <1>3 DEF IInv, ReplyInv
  <2>2. n \in 1 .. Len(journal') /\ journal'[n] = journal[n]
    BY <1>1, <1>2, <2>1
  <2>3. QED
    BY <2>1, <2>2
<1>4. CASE c = current
  <2>1. /\ c \in Command /\ state \in State /\ batch # << >>
        /\ \E now \in Times : batch = ProcessCommand(state, c, now)
    BY <1>4, MessageKinds DEF IInv, TypeOK, PhaseInv, Busy, WriteBatch
  <2>2. batch[Len(batch)].type = "sold" /\ batch[Len(batch)].order = c.id
    BY <2>1, PurchaseEndsInSale
  <2>3. Len(batch) \in 1 .. Len(batch)
    BY <1>2, <2>1 DEF IInv, TypeOK
  <2>4. /\ Len(journal) + Len(batch) \in 1 .. Len(journal')
        /\ journal'[Len(journal) + Len(batch)] = batch[Len(batch)]
    BY <1>1, <1>2, <2>3
  <2>5. QED
    BY <2>2, <2>4
<1>5. QED
  BY <1>3, <1>4 DEF WriteBatch

\* A reply is the first of its command, and a success is that of an executed one.
LEMMA ReplyJoins ==
    ASSUME TypeOK, ReplyInv, NEW c \in Commands, NEW r \in {"success", "failure"},
           replies[c] = << >>, r = "success" => c \in executed,
           replies' = [replies EXCEPT ![c] = Append(@, r)],
           UNCHANGED << journal, executed >>
    PROVE  ReplyInv'
<1>1. replies'[c] = << r >>
  <2>1. replies'[c] = Append(<< >>, r)
    BY DEF TypeOK
  <2>2. Append(<< >>, r) = << r >>
    OBVIOUS
  <2>3. QED
    BY <2>1, <2>2
<1>2. \A d \in Commands : d # c => replies'[d] = replies[d]
  BY DEF TypeOK
<1>3. ASSUME NEW d \in Commands
      PROVE  /\ Len(replies'[d]) <= 1
             /\ replies'[d] # << >> /\ replies'[d][1] = "success" => d \in executed
  <2>1. CASE d = c
    <3>1. Len(<< r >>) = 1 /\ << r >>[1] = r
      OBVIOUS
    <3>2. QED
      BY <1>1, <2>1, <3>1
  <2>2. CASE d # c
    BY <1>2, <2>2 DEF ReplyInv
  <2>3. QED
    BY <2>1, <2>2
<1>4. QED
  BY <1>3 DEF ReplyInv

\* Every step keeps replies single and true.
LEMMA ReplyStep == IInv /\ [Next]_vars => ReplyInv'
<1> SUFFICES ASSUME IInv, [Next]_vars PROVE ReplyInv'
  OBVIOUS
<1> USE DEF durable, actor, shard, outside, past
<1>0. TypeOK /\ PhaseInv /\ ReplyInv
  BY DEF IInv
<1>1. CASE UNCHANGED << journal, replies, executed >>
  BY <1>0, <1>1 DEF ReplyInv
<1>2. ASSUME NEW c \in Commands, RefuseCommand(c) PROVE ReplyInv'
  <2>1. replies[c] = << >>
    BY <1>2, HeadIsUntouched DEF RefuseCommand
  <2>2. QED
    BY <1>0, <1>2, <2>1, ReplyJoins DEF RefuseCommand
<1>3. CASE WriteBatch
  <2>1. replies' = replies /\ executed \subseteq executed'
    BY <1>3 DEF WriteBatch
  <2>2. QED
    BY <1>0, <1>3, <2>1, WriteBringsSale DEF ReplyInv
<1>4. CASE HandleEvent
  <2>1. CASE sentResponse
    BY <1>0, <1>1, <1>4, <2>1 DEF HandleEvent, Respond
  <2>2. CASE ~sentResponse
    <3>1. current \in Commands /\ current \in executed /\ replies[current] = << >>
      BY <1>0, <1>4, <2>2 DEF HandleEvent, PhaseInv, Busy
    <3>2. QED
      BY <1>0, <1>4, <2>2, <3>1, ReplyJoins DEF HandleEvent, Respond
  <2>3. QED
    BY <2>1, <2>2
<1>5. ASSUME \/ \E m \in Messages : Send(m)
             \/ Start \/ SendPoisonPill \/ LoadSnapshot \/ ReplayEvent
             \/ CompleteRecovery \/ \E c \in Commands : AcceptCommand(c)
             \/ \E s \in saving : SaveSnapshot(s)
             \/ \E f \in Fetches : FetchProduct(f)
             \/ ReceivePoisonPill \/ PersistenceFailure \/ NodeCrash
             \/ UNCHANGED vars
      PROVE  ReplyInv'
  BY <1>1, <1>5 DEF Send, Start, SendPoisonPill, LoadSnapshot, ReplayEvent,
     CompleteRecovery, AcceptCommand, SaveSnapshot, FetchProduct,
     ReceivePoisonPill, PersistenceFailure, NodeCrash, vars
<1>6. QED
  BY <1>2, <1>3, <1>4, <1>5 DEF Next, Work

-----------------------------------------------------------------------------
(* What is read and written is current.                                    *)

\* An actor that is idle or waits for a write has the whole ledger in memory.
LEMMA UpToDate ==
    ASSUME IInv, status \in {"idle", "writing"}
    PROVE  state = history[Len(history)]
<1>1. /\ seqNr = Len(journal) /\ Len(history) = Len(journal) + 1
      /\ state = history[seqNr + 1]
  BY DEF IInv, PhaseInv, StateIsSumOfEvents
<1>2. QED
  BY <1>1

\* The first entry of a list of replies or views.
LEMMA AppendToEmpty == \A r : Append(<< >>, r) = << r >>
OBVIOUS

-----------------------------------------------------------------------------
(* Sales.                                                                  *)

\* What is written was judged on the state that its events are added to.
LEMMA WriteIsJudged ==
    ASSUME IInv, WriteBatch
    PROVE  /\ history[Len(history)] \in State
           /\ history'[Len(journal) + 1] = history[Len(history)]
           /\ current \in Commands /\ current \in Command
           /\ batch \in Seq(Event) /\ batch # << >>
           /\ \E now \in Times :
                batch = ProcessCommand(history[Len(history)], current, now)
<1>1. /\ current \in Commands /\ batch # << >>
      /\ \E now \in Times : batch = ProcessCommand(state, current, now)
  BY DEF IInv, PhaseInv, Busy, WriteBatch
<1>2. /\ state = history[Len(history)] /\ state \in State /\ batch \in Seq(Event)
      /\ Len(history) = Len(journal) + 1 /\ history \in Seq(State)
  <2>1. seqNr = Len(journal) /\ state = history[seqNr + 1]
        /\ Len(history) = Len(journal) + 1
    BY DEF IInv, PhaseInv, StateIsSumOfEvents, WriteBatch
  <2>2. QED
    BY <2>1 DEF IInv, TypeOK
<1>3. Len(history) \in 1 .. Len(history) /\ Len(journal) + 1 = Len(history)
  BY <1>2 DEF IInv, TypeOK
<1>4. history'[Len(history)] = history[Len(history)]
  BY <1>3, WriteSum
<1>5. QED
  BY <1>1, <1>2, <1>3, <1>4, MessageKinds

\* The sale that is written is judged on the stock that it leaves.
LEMMA WrittenSale ==
    ASSUME IInv, WriteBatch, NEW k \in 1 .. Len(batch), batch[k].type = "sold"
    PROVE  LET n    == Len(journal) + k
               left == history'[n].remaining
           IN  /\ k > 1
               /\ journal'[n].backOrdered = (left <= 0)
               /\ left <= LowInventoryWarningThreshold <=>
                    /\ journal'[n - 1].type = "warning"
                    /\ journal'[n - 1].at = journal'[n].at
               /\ journal'[n - 1].type = "warning" =>
                    (journal'[n - 1].reason = "NoSupply") = (left <= 0)
<1> DEFINE L    == Len(journal)
           base == history[Len(history)]
           left == base.remaining - current.qty
<1>1. /\ base \in State /\ history'[L + 1] = base /\ current \in Command
      /\ batch \in Seq(Event) /\ batch # << >>
      /\ \E now \in Times : batch = ProcessCommand(base, current, now)
  BY WriteIsJudged
<1>2. /\ \A n \in 1 .. Len(journal') :
           history'[n + 1] = ProcessEvent(history'[n], journal'[n])
      /\ Len(journal') = L + Len(batch)
      /\ \A j \in 1 .. Len(batch) : journal'[L + j] = batch[j]
  BY WriteSum
<1>3. L \in Nat /\ Len(batch) \in Nat
  BY DEF IInv, TypeOK
<1>4. PICK now \in Times : batch = ProcessCommand(base, current, now)
  BY <1>1
<1> HIDE DEF base, L
<1>5. /\ current.qty \in Int
      /\ batch[k].backOrdered = (left <= 0)
      /\ batch[1].type = "changed" /\ batch[1].qty = -current.qty
      /\ \/ k = 2 /\ ~(left <= LowInventoryWarningThreshold)
         \/ /\ k = 3 /\ left <= LowInventoryWarningThreshold
            /\ batch[2].type = "warning" /\ batch[2].at = batch[3].at
            /\ (batch[2].reason = "NoSupply") = (left <= 0)
  BY <1>1, <1>4, SaleClosesPurchase
<1>6. base.remaining \in Int
  BY <1>1 DEF State
<1>7. /\ batch[1] \in Event /\ journal'[L + 1] = batch[1]
      /\ L + 1 \in 1 .. Len(journal')
  BY <1>1, <1>2, <1>3
<1>8. history'[L + 1 + 1] = ProcessEvent(base, batch[1])
  BY <1>1, <1>2, <1>7
<1>9. history'[L + 2] = ProcessEvent(base, batch[1]) /\ L + 1 + 1 = L + 2
  BY <1>3, <1>8
<1>10. /\ history'[L + 2] \in State
       /\ history'[L + 2].remaining = left
  <2> DEFINE e == batch[1]
             s == ProcessEvent(base, e)
  <2>1. e \in Event /\ e.type = "changed" /\ e.qty = -current.qty
    BY <1>5, <1>7
  <2> HIDE DEF e, left
  <2>2. s \in State
    BY <1>1, <2>1, ProcessEventType
  <2>3. s.remaining = base.remaining + e.qty
    BY <1>1, <2>1, ProcessEventTotals
  <2>4. s.remaining = left
    BY <1>5, <1>6, <2>1, <2>3 DEF left
  <2>5. QED
    BY <1>9, <2>2, <2>4 DEF e
<1> HIDE DEF left
<1>11. CASE k = 2
  <2>1. /\ L + k = L + 2 /\ L + k - 1 = L + 1 /\ journal'[L + 2] = batch[2]
    BY <1>2, <1>3, <1>11
  <2>2. batch[1].type # "warning" /\ ~(left <= LowInventoryWarningThreshold)
    BY <1>5, <1>11
  <2>3. QED
    BY <1>5, <1>7, <1>10, <1>11, <2>1, <2>2 DEF L
<1>12. CASE k = 3
  <2>1. /\ L + k = L + 3 /\ L + k - 1 = L + 2 /\ L + 2 + 1 = L + 3
        /\ 2 \in 1 .. Len(batch) /\ 3 \in 1 .. Len(batch)
        /\ L + 2 \in 1 .. Len(journal')
    BY <1>2, <1>3, <1>12
  <2>2. journal'[L + 2] = batch[2] /\ journal'[L + 3] = batch[3]
        /\ batch[2] \in Event
    BY <1>1, <1>2, <2>1
  <2>3. history'[L + 3] = ProcessEvent(history'[L + 2], batch[2])
    BY <1>2, <2>1, <2>2
  <2>4. /\ batch[2].type = "warning" /\ batch[2].at = batch[3].at
        /\ (batch[2].reason = "NoSupply") = (left <= 0)
        /\ left <= LowInventoryWarningThreshold
    BY <1>5, <1>12
  <2>5. history'[L + 3].remaining = left
    BY <1>10, <2>2, <2>3, <2>4, ProcessEventTotals
  <2>6. QED
    BY <1>5, <1>12, <2>1, <2>2, <2>4, <2>5 DEF L
<1>13. QED
  BY <1>5, <1>11, <1>12

\* Every step keeps sales judged on the stock of the journal.
LEMMA SaleStep == IInv /\ [Next]_vars => SaleInv'
<1> SUFFICES ASSUME IInv, [Next]_vars PROVE SaleInv'
  OBVIOUS
<1> USE DEF durable, actor, shard, outside, past
<1>1. CASE UNCHANGED << journal, history >>
  BY <1>1 DEF IInv, SaleInv, SalesJudgedOnRealStock
<1>2. CASE WriteBatch
  <2>1. /\ Len(journal') = Len(journal) + Len(batch)
        /\ \A n \in 1 .. Len(journal) : journal'[n] = journal[n]
        /\ \A k \in 1 .. Len(batch) : journal'[Len(journal) + k] = batch[k]
        /\ \A n \in 1 .. Len(history) : history'[n] = history[n]
    BY <1>2, WriteSum
  <2>2. /\ Len(journal) \in Nat /\ Len(batch) \in Nat
        /\ Len(history) = Len(journal) + 1 /\ SaleInv
    BY DEF IInv, TypeOK, StateIsSumOfEvents
  <2>3. ASSUME NEW n \in 1 .. Len(journal'), journal'[n].type = "sold"
        PROVE  LET left == history'[n].remaining IN
               /\ n > 1
               /\ journal'[n].backOrdered = (left <= 0)
               /\ left <= LowInventoryWarningThreshold <=>
                    /\ journal'[n - 1].type = "warning"
                    /\ journal'[n - 1].at = journal'[n].at
               /\ journal'[n - 1].type = "warning" =>
                    (journal'[n - 1].reason = "NoSupply") = (left <= 0)
    <3>1. CASE n \in 1 .. Len(journal)
      <4>1. journal'[n] = journal[n] /\ n > 1
        BY <2>1, <2>2, <2>3, <3>1 DEF SaleInv
      <4>2. n - 1 \in 1 .. Len(journal) /\ n \in 1 .. Len(history)
        BY <2>2, <3>1, <4>1
      <4>3. journal'[n - 1] = journal[n - 1] /\ history'[n] = history[n]
        BY <2>1, <4>2
      <4>4. QED
        BY <2>2, <2>3, <3>1, <4>1, <4>3 DEF SaleInv, SalesJudgedOnRealStock
    <3>2. CASE n \notin 1 .. Len(journal)
      <4>1. PICK k \in 1 .. Len(batch) : n = Len(journal) + k
        <5>1. n - Len(journal) \in 1 .. Len(batch)
              /\ n = Len(journal) + (n - Len(journal))
          BY <2>1, <2>2, <3>2
        <5>2. QED
          BY <5>1
      <4>2. batch[k].type = "sold"
        BY <2>1, <2>3, <4>1
      <4>3. k > 1 => n > 1
        BY <2>2, <4>1
      <4>4. QED
        BY <1>2, <4>1, <4>2, <4>3, WrittenSale
    <3>3. QED
      BY <3>1, <3>2
  <2>4. QED
    BY <2>3 DEF SaleInv, SalesJudgedOnRealStock
<1>3. ASSUME \/ \E m \in Messages : Send(m)
             \/ Start \/ SendPoisonPill \/ LoadSnapshot \/ ReplayEvent
             \/ CompleteRecovery
             \/ \E c \in Commands : AcceptCommand(c) \/ RefuseCommand(c)
             \/ HandleEvent
             \/ \E s \in saving : SaveSnapshot(s)
             \/ \E f \in Fetches : FetchProduct(f)
             \/ ReceivePoisonPill \/ PersistenceFailure \/ NodeCrash
             \/ UNCHANGED vars
      PROVE  SaleInv'
  BY <1>1, <1>3 DEF Send, Start, SendPoisonPill, LoadSnapshot, ReplayEvent,
     CompleteRecovery, AcceptCommand, RefuseCommand, HandleEvent, SaveSnapshot,
     FetchProduct, ReceivePoisonPill, PersistenceFailure, NodeCrash, vars
<1>4. QED
  BY <1>2, <1>3 DEF Next, Work

-----------------------------------------------------------------------------
(* Passivation.                                                            *)

\* A query found the product missing, in a first answer.
FoundMissing == \E f \in Fetches : views[f] # << >> /\ IsEmpty(views[f][1])

\* The stop message comes last, and only while the shard passivates.
PillComesLast ==
    \A i \in 1 .. Len(inbox) :
      inbox[i] = PoisonPill => passivation = "pill" /\ i = Len(inbox)

\* A product is created before anything else is executed.
CreatedFirst ==
    executed # {} \/ history[Len(history)].created =>
      \E c \in executed : c.type = "create"

\* RaceInv by its parts.
LEMMA RaceParts ==
    RaceInv <=> /\ passivation # "none" => FoundMissing
                /\ PillComesLast /\ CreatedFirst
                /\ ~Busy /\ ~sentResponse => current = NoCommand
                /\ dropped # {} /\ failures = 0 =>
                     FoundMissing /\ \E c \in executed \cup dropped : c.type = "create"
BY DEF RaceInv, FoundMissing, PillComesLast, CreatedFirst,
   PassivationLosesOnlyARace

\* Nothing that the race is about changes, but for answers.
LEMMA RaceStays ==
    ASSUME RaceInv, FoundMissing => FoundMissing', PillComesLast',
           passivation' # "none" => passivation # "none" \/ FoundMissing',
           UNCHANGED << executed, history, dropped, failures >>,
           \/ Busy' \/ sentResponse'
           \/ ~Busy /\ UNCHANGED << sentResponse, current >>
    PROVE  RaceInv'
<1>1. CreatedFirst'
  BY RaceParts DEF CreatedFirst
<1>2. ~Busy' /\ ~sentResponse' => current' = NoCommand
  BY RaceParts
<1>3. dropped' # {} /\ failures' = 0 =>
        FoundMissing' /\ \E c \in executed' \cup dropped' : c.type = "create"
  BY RaceParts
<1>4. RaceInv' <=> /\ passivation' # "none" => FoundMissing'
                   /\ PillComesLast' /\ CreatedFirst'
                   /\ ~Busy' /\ ~sentResponse' => current' = NoCommand
                   /\ dropped' # {} /\ failures' = 0 =>
                        FoundMissing'
                        /\ \E c \in executed' \cup dropped' : c.type = "create"
  BY DEF RaceInv, FoundMissing, PillComesLast, CreatedFirst,
     PassivationLosesOnlyARace
<1>5. passivation' # "none" => FoundMissing'
  BY RaceParts
<1>6. QED
  BY <1>1, <1>2, <1>3, <1>4, <1>5

\* A message that is taken from the mailbox leaves the stop message last.
LEMMA PillStaysLast ==
    TypeOK /\ PillComesLast /\ inbox # << >> /\ inbox' = Tail(inbox)
      /\ (passivation = "pill" => passivation' = "pill") => PillComesLast'
<1>1. ASSUME TypeOK, inbox # << >>, inbox' = Tail(inbox)
      PROVE  /\ Len(inbox') = Len(inbox) - 1 /\ Len(inbox) \in Nat
             /\ \A i \in 1 .. Len(inbox') : inbox'[i] = inbox[i + 1]
  BY <1>1, HeadTailProperties DEF TypeOK
<1>2. ASSUME /\ Len(inbox') = Len(inbox) - 1 /\ Len(inbox) \in Nat
             /\ \A i \in 1 .. Len(inbox') : inbox'[i] = inbox[i + 1],
             PillComesLast, passivation = "pill" => passivation' = "pill",
             NEW i \in 1 .. Len(inbox'), inbox'[i] = PoisonPill
      PROVE  passivation' = "pill" /\ i = Len(inbox')
  <2>1. i + 1 \in 1 .. Len(inbox) /\ inbox[i + 1] = PoisonPill
    BY <1>2
  <2>2. passivation = "pill" /\ i + 1 = Len(inbox)
    BY <1>2, <2>1 DEF PillComesLast
  <2>3. i = Len(inbox')
    BY <1>2, <2>2
  <2>4. QED
    BY <1>2, <2>2, <2>3
<1>3. QED
  BY <1>1, <1>2 DEF PillComesLast

\* After a stop nothing is left of the passivation.
LEMMA StopForgets ==
    ASSUME TypeOK, NEW next \in Seq(Messages), NEW lost, Stop(next, lost)
    PROVE  /\ passivation' = "none" /\ PillComesLast'
           /\ current' = NoCommand
<1>1. inbox' \in Seq(Messages)
  BY DEF Stop
<1>2. PoisonPill \notin Messages
  BY MessageKinds DEF Messages, Queries
<1>3. \A i \in 1 .. Len(inbox') : inbox'[i] # PoisonPill
  BY <1>1, <1>2
<1>4. QED
  BY <1>3 DEF Stop, PillComesLast

\* What the stop message leaves unanswered: nothing when the actor was idle,
\* and a creation, sooner or later, when it was waiting for the journal.
LEMMA PillLosesTheRace ==
    ASSUME IInv, ReceivePoisonPill, dropped' # {}, failures = 0
    PROVE  FoundMissing /\ \E c \in executed \cup dropped' : c.type = "create"
<1>0. /\ TypeOK /\ PhaseInv /\ StateIsSumOfEvents /\ PillComesLast /\ CreatedFirst
      /\ passivation # "none" => FoundMissing
      /\ ~Busy /\ ~sentResponse => current = NoCommand
      /\ dropped # {} /\ failures = 0 =>
           FoundMissing /\ \E c \in executed \cup dropped : c.type = "create"
  BY RaceParts DEF IInv
<1>1. \E i \in 1 .. Len(inbox) : inbox[i] = PoisonPill
  BY <1>0 DEF ReceivePoisonPill, Held, TypeOK
<1>2. FoundMissing
  BY <1>0, <1>1 DEF PillComesLast
<1>3. dropped \subseteq dropped'
  BY DEF ReceivePoisonPill, Stop
<1>4. CASE status = "idle"
  <2>1. inbox # << >> /\ Head(inbox) = PoisonPill /\ ~Busy
    BY <1>4 DEF ReceivePoisonPill, Busy
  <2>2. 1 \in 1 .. Len(inbox) /\ inbox[1] = PoisonPill
    BY <1>0, <2>1 DEF TypeOK
  <2>3. Len(inbox) = 1
    BY <1>0, <2>2 DEF PillComesLast
  <2>4. Held(inbox) = {PoisonPill}
    BY <2>2, <2>3 DEF Held
  <2>5. PoisonPill \notin Messages /\ NoCommand \notin Messages
    BY MessageKinds DEF Messages, Queries
  <2>6. dropped' = dropped
    <3>1. CASE sentResponse
      BY <2>4, <2>5, <3>1 DEF ReceivePoisonPill, Stop
    <3>2. CASE ~sentResponse
      BY <1>0, <2>1, <2>4, <2>5, <3>2 DEF ReceivePoisonPill, Stop
    <3>3. QED
      BY <3>1, <3>2
  <2>7. QED
    BY <1>0, <1>2, <2>6
<1>5. CASE status = "handling"
  <2>1. current \in executed
    BY <1>0, <1>5 DEF PhaseInv
  <2>2. QED
    BY <1>0, <1>2, <2>1 DEF CreatedFirst
<1>6. CASE status = "writing"
  <2>1. /\ ~sentResponse /\ current \in Commands /\ batch # << >>
        /\ \E now \in Times : batch = ProcessCommand(state, current, now)
    BY <1>0, <1>6 DEF PhaseInv, Busy
  <2>2. CASE current.type = "create"
    <3>1. current \in dropped'
      BY <2>1, <1>6 DEF ReceivePoisonPill, Stop, Messages
    <3>2. QED
      BY <1>2, <2>2, <3>1
  <2>3. CASE current.type # "create"
    <3>1. ~IsEmpty(state)
      BY <2>1, <2>3 DEF ProcessCommand
    <3>2. state = history[Len(history)]
      BY <1>6, UpToDate
    <3>3. QED
      BY <1>0, <1>2, <3>1, <3>2 DEF CreatedFirst, IsEmpty
  <2>4. QED
    BY <2>2, <2>3
<1>7. QED
  BY <1>4, <1>5, <1>6 DEF ReceivePoisonPill

\* What is executed first is a creation.
LEMMA WriteCreatesFirst == ASSUME IInv, WriteBatch PROVE CreatedFirst'
<1>1. CreatedFirst /\ executed' = executed \cup {current}
  BY RaceParts DEF IInv, WriteBatch
<1>2. CASE current.type = "create"
  BY <1>1, <1>2 DEF CreatedFirst
<1>3. CASE current.type # "create"
  <2>1. ~IsEmpty(history[Len(history)])
    BY <1>3, WriteIsJudged DEF ProcessCommand
  <2>2. QED
    BY <1>1, <2>1 DEF CreatedFirst, IsEmpty
<1>4. QED
  BY <1>2, <1>3

\* Every step keeps what is known of a stop without a failure.
LEMMA RaceStep == IInv /\ [Next]_vars => RaceInv'
<1> SUFFICES ASSUME IInv, [Next]_vars PROVE RaceInv'
  OBVIOUS
<1> USE DEF durable, actor, shard, outside, past
<1>0. /\ TypeOK /\ PhaseInv /\ MailInv /\ RaceInv /\ PillComesLast
      /\ passivation # "none" => FoundMissing
      /\ dropped # {} /\ failures = 0 =>
           FoundMissing /\ \E c \in executed \cup dropped : c.type = "create"
  BY RaceParts DEF IInv
<1>1. ASSUME NEW m \in Messages, Send(m) PROVE RaceInv'
  <2>1. PillComesLast'
    <3>1. CASE passivation = "pill"
      BY <1>0, <1>1, <3>1 DEF Send, PillComesLast
    <3>2. CASE passivation # "pill"
      <4>1. /\ Len(inbox') = Len(inbox) + 1 /\ Len(inbox) \in Nat
            /\ \A i \in 1 .. Len(inbox) : inbox'[i] = inbox[i]
            /\ inbox'[Len(inbox) + 1] = m
        <5>1. inbox \in Seq(Messages \cup {PoisonPill}) /\ inbox' = Append(inbox, m)
          BY <1>0, <1>1, <3>2 DEF Send, TypeOK
        <5>2. QED
          BY <5>1, AppendProperties
      <4>2. m # PoisonPill
        BY MessageKinds DEF Messages, Queries
      <4>3. \A i \in 1 .. Len(inbox') : i \in 1 .. Len(inbox) \/ i = Len(inbox) + 1
        BY <4>1
      <4>4. QED
        BY <1>0, <3>2, <4>1, <4>2, <4>3 DEF PillComesLast
    <3>3. QED
      BY <3>1, <3>2
  <2>2. /\ UNCHANGED << views, passivation, executed, history, dropped, failures,
                        status, sentResponse, current >>
    BY <1>1 DEF Send
  <2>3. QED
    BY <1>0, <2>1, <2>2, RaceStays DEF FoundMissing, Busy
<1>2. CASE SendPoisonPill
  <2>1. PillComesLast'
    <3>1. /\ Len(inbox') = Len(inbox) + 1 /\ Len(inbox) \in Nat
          /\ \A i \in 1 .. Len(inbox) : inbox'[i] = inbox[i]
      <4>1. /\ inbox \in Seq(Messages \cup {PoisonPill})
            /\ inbox' = Append(inbox, PoisonPill)
        BY <1>0, <1>2 DEF SendPoisonPill, TypeOK
      <4>2. QED
        BY <4>1, AppendProperties
    <3>2. \A i \in 1 .. Len(inbox') : i \in 1 .. Len(inbox) \/ i = Len(inbox')
      BY <3>1
    <3>3. passivation = "asked" /\ passivation' = "pill"
      BY <1>2 DEF SendPoisonPill
    <3>4. QED
      BY <1>0, <3>1, <3>2, <3>3 DEF PillComesLast
  <2>2. /\ UNCHANGED << views, executed, history, dropped, failures,
                        status, sentResponse, current >>
        /\ passivation # "none"
    BY <1>2 DEF SendPoisonPill
  <2>3. QED
    BY <1>0, <2>1, <2>2, RaceStays DEF FoundMissing, Busy
<1>3. ASSUME NEW c \in Commands, AcceptCommand(c) PROVE RaceInv'
  <2>1. PillComesLast'
    BY <1>0, <1>3, PillStaysLast DEF AcceptCommand
  <2>2. UNCHANGED << views, passivation, executed, history, dropped, failures >>
        /\ Busy'
    BY <1>3 DEF AcceptCommand, Busy
  <2>3. QED
    BY <1>0, <2>1, <2>2, RaceStays DEF FoundMissing
<1>4. ASSUME NEW c \in Commands, RefuseCommand(c) PROVE RaceInv'
  <2>1. PillComesLast'
    BY <1>0, <1>4, PillStaysLast DEF RefuseCommand
  <2>2. /\ UNCHANGED << views, passivation, executed, history, dropped, failures,
                        status, sentResponse, current >>
    BY <1>4 DEF RefuseCommand
  <2>3. QED
    BY <1>0, <2>1, <2>2, RaceStays DEF FoundMissing, Busy
<1>5. ASSUME NEW f \in Fetches, FetchProduct(f) PROVE RaceInv'
  <2>1. PillComesLast'
    BY <1>0, <1>5, PillStaysLast DEF FetchProduct
  <2>2. views[f] = << >>
    <3>1. 1 \in 1 .. Len(inbox) /\ inbox[1] = Fetch(f)
      BY <1>0, <1>5 DEF FetchProduct, TypeOK
    <3>2. QED
      BY <1>0, <3>1, MessageKinds DEF MailInv, Untouched
  <2>3. views'[f] = << state >> /\ \A g \in Fetches : g # f => views'[g] = views[g]
    BY <1>0, <1>5, <2>2, AppendToEmpty DEF FetchProduct, TypeOK
  <2>4. FoundMissing => FoundMissing'
    BY <2>2, <2>3 DEF FoundMissing
  <2>5. IsEmpty(state) => FoundMissing'
    <3>1. views'[f] # << >> /\ views'[f][1] = state
      BY <2>3
    <3>2. QED
      BY <3>1 DEF FoundMissing
  <2>6. passivation' # "none" => passivation # "none" \/ FoundMissing'
    BY <1>5, <2>5 DEF FetchProduct, WantsToEnd
  <2>7. UNCHANGED << executed, history, dropped, failures, status, sentResponse,
                     current >>
    BY <1>5 DEF FetchProduct
  <2>8. QED
    BY <1>0, <2>1, <2>4, <2>6, <2>7, RaceStays DEF Busy
<1>6. CASE WriteBatch
  <2>1. /\ UNCHANGED << views, passivation, inbox, dropped, failures >>
        /\ executed \subseteq executed' /\ Busy'
    BY <1>6 DEF WriteBatch, Busy
  <2>2. CreatedFirst'
    BY <1>6, WriteCreatesFirst
  <2>3. (FoundMissing <=> FoundMissing') /\ PillComesLast'
    BY <1>0, <2>1 DEF FoundMissing, PillComesLast
  <2>4. dropped' # {} /\ failures' = 0 =>
          FoundMissing' /\ \E c \in executed' \cup dropped' : c.type = "create"
    BY <1>0, <2>1, <2>3
  <2>5. QED
    BY <1>0, <2>1, <2>2, <2>3, <2>4
       DEF RaceInv, FoundMissing, PillComesLast, CreatedFirst,
           PassivationLosesOnlyARace
<1>7. CASE HandleEvent
  <2>1. UNCHANGED << views, passivation, inbox, executed, history, dropped,
                     failures >> /\ sentResponse'
    BY <1>7 DEF HandleEvent
  <2>2. QED
    BY <1>0, <2>1, RaceStays DEF FoundMissing, PillComesLast
<1>8. ASSUME \/ Start \/ LoadSnapshot \/ ReplayEvent \/ CompleteRecovery
             \/ \E s \in saving : SaveSnapshot(s)
             \/ UNCHANGED vars
      PROVE  RaceInv'
  <2>1. UNCHANGED << views, passivation, inbox, executed, history, dropped,
                     failures, sentResponse, current >> /\ (Busy <=> Busy')
    BY <1>8 DEF Start, LoadSnapshot, ReplayEvent, CompleteRecovery,
       SaveSnapshot, vars, Busy
  <2>2. QED
    BY <1>0, <2>1, RaceStays DEF FoundMissing, PillComesLast
<1>9. CASE ReceivePoisonPill
  <2>1. buffer \in Seq(Messages) /\ Stop(buffer, Held(inbox))
    BY <1>0, <1>9 DEF ReceivePoisonPill, TypeOK
  <2>2. passivation' = "none" /\ PillComesLast' /\ current' = NoCommand
    BY <1>0, <2>1, StopForgets
  <2>3. UNCHANGED << views, executed, history, failures >>
    BY <1>9 DEF ReceivePoisonPill
  <2>4. CreatedFirst' /\ (FoundMissing => FoundMissing')
    BY <2>3, RaceParts DEF IInv, CreatedFirst, FoundMissing
  <2>5. dropped' # {} /\ failures' = 0 =>
          FoundMissing' /\ \E c \in executed' \cup dropped' : c.type = "create"
    BY <1>9, <2>3, <2>4, PillLosesTheRace
  <2>6. QED
    BY <2>2, <2>4, <2>5
       DEF RaceInv, FoundMissing, PillComesLast, CreatedFirst,
           PassivationLosesOnlyARace
<1>10. CASE PersistenceFailure \/ NodeCrash
  <2>1. \E next \in Seq(Messages) : \E lost : Stop(next, lost)
    <3>1. << >> \in Seq(Messages) /\ buffer \in Seq(Messages)
      BY <1>0, EmptySeq DEF TypeOK
    <3>2. QED
      BY <1>10, <3>1 DEF PersistenceFailure, NodeCrash
  <2>2. passivation' = "none" /\ PillComesLast' /\ current' = NoCommand
    BY <1>0, <2>1, StopForgets
  <2>3. UNCHANGED << views, executed, history >> /\ failures' = failures + 1
    BY <1>10 DEF PersistenceFailure, NodeCrash
  <2>4. CreatedFirst' /\ failures' # 0
    BY <1>0, <2>3, RaceParts DEF IInv, CreatedFirst, TypeOK
  <2>5. QED
    BY <2>2, <2>4
       DEF RaceInv, FoundMissing, PillComesLast, CreatedFirst,
           PassivationLosesOnlyARace
<1>11. QED
  BY <1>1, <1>2, <1>3, <1>4, <1>5, <1>6, <1>7, <1>8, <1>9, <1>10 DEF Next, Work

-----------------------------------------------------------------------------
(* The totals.                                                             *)

\* The totals in memory are the sums over the events that were counted.
LEMMA TotalsFollow == IInv => TotalsMatchJournal
<1> SUFFICES ASSUME IInv PROVE TotalsMatchJournal
  OBVIOUS
<1>1. /\ seqNr \in Nat /\ seqNr <= Len(journal) /\ Len(journal) \in Nat
      /\ journal \in Seq(Event) /\ history \in Seq(State)
      /\ Len(history) = Len(journal) + 1 /\ history[1] = EmptyState
      /\ state = history[seqNr + 1]
      /\ \A n \in 1 .. Len(journal) :
           history[n + 1] = ProcessEvent(history[n], journal[n])
  BY DEF IInv, TypeOK, StateIsSumOfEvents
<1>2. ASSUME NEW k \in 0 .. seqNr
      PROVE  /\ history[k + 1].remaining \in Int
             /\ history[k + 1].sold \in Int /\ history[k + 1].revenue \in Int
  <2>1. k + 1 \in 1 .. Len(history)
    BY <1>1
  <2>2. history[k + 1] \in State
    BY <1>1, <2>1
  <2>3. QED
    BY <2>2 DEF State
<1>3. ASSUME NEW k \in 1 .. seqNr
      PROVE  LET s == history[k]  e == journal[k]  t == history[k + 1] IN
             /\ t.remaining = s.remaining + StockChange(e)
             /\ t.sold = s.sold + Shipped(e)
             /\ t.revenue = s.revenue + Earned(e)
  <2>1. k \in 1 .. Len(journal) /\ k \in 1 .. Len(history) /\ k = (k - 1) + 1
        /\ k - 1 \in 0 .. seqNr
    BY <1>1
  <2>2. /\ history[k] \in State /\ journal[k] \in Event
        /\ history[k + 1] = ProcessEvent(history[k], journal[k])
    BY <1>1, <2>1
  <2>3. /\ history[k].remaining \in Int /\ history[k].sold \in Int
        /\ history[k].revenue \in Int
    BY <2>2 DEF State
  <2> DEFINE s == history[k]  e == journal[k]  t == history[k + 1]
  <2>4. /\ e.type = "changed" =>
             /\ t.remaining = s.remaining + e.qty
             /\ t.sold = IF e.reason = "Fulfillment" THEN s.sold + Abs(e.qty)
                                                     ELSE s.sold
        /\ e.type # "changed" => t.remaining = s.remaining /\ t.sold = s.sold
        /\ t.revenue = IF e.type = "sold" THEN s.revenue + TotalPrice(e)
                                          ELSE s.revenue
    BY <2>2, ProcessEventTotals
  <2>5. e.type = "changed" => e.qty \in Int
    <3>1. e.type = "changed" => e \in ChangedEvent
      BY <2>2 DEF Event, CreatedEvent, ChangedEvent, WarningEvent, SoldEvent
    <3>2. QED
      BY <3>1 DEF ChangedEvent
  <2> HIDE DEF s, e, t
  <2>6. s.remaining \in Int /\ s.sold \in Int /\ s.revenue \in Int
    BY <2>3 DEF s
  <2>7. t.remaining = s.remaining + StockChange(e)
    BY <2>4, <2>6 DEF StockChange
  <2>8. t.sold = s.sold + Shipped(e)
    BY <2>4, <2>5, <2>6 DEF Shipped, Abs
  <2>9. t.revenue = s.revenue + Earned(e)
    BY <2>4, <2>6 DEF Earned, TotalPrice
  <2>10. QED
    BY <2>7, <2>8, <2>9 DEF s, e, t
<1>4. seqNr \in 0 .. seqNr /\ 0 \in 0 .. seqNr /\ 0 + 1 = 1
  BY <1>1
<1>5. /\ EmptyState.remaining = 0 /\ EmptyState.sold = 0
      /\ EmptyState.revenue = 0
  BY DEF EmptyState
<1>6. \A k \in 1 .. seqNr : k - 1 \in 0 .. seqNr /\ k \in 0 .. seqNr /\ (k - 1) + 1 = k
  BY <1>1
<1>7. state.remaining = Total([n \in 1 .. seqNr |-> StockChange(journal[n])], seqNr)
  <2> DEFINE amount == [n \in 1 .. seqNr |-> StockChange(journal[n])]
             h      == [k \in 0 .. seqNr |-> history[k + 1].remaining]
  <2>1. /\ \A k \in 0 .. seqNr : h[k] \in Int
        /\ h[0] = 0 /\ h[seqNr] = state.remaining
    BY <1>1, <1>2, <1>4, <1>5
  <2>2. \A k \in 1 .. seqNr : h[k] = h[k - 1] + amount[k]
    BY <1>3, <1>6
  <2> HIDE DEF amount, h
  <2>3. Running(h, amount, seqNr)
    BY <2>1, <2>2 DEF Running
  <2>4. Total(amount, seqNr) = h[seqNr]
    BY <1>1, <2>3, TotalIs
  <2>5. QED
    BY <2>1, <2>4 DEF amount
<1>8. state.sold = Total([n \in 1 .. seqNr |-> Shipped(journal[n])], seqNr)
  <2> DEFINE amount == [n \in 1 .. seqNr |-> Shipped(journal[n])]
             h      == [k \in 0 .. seqNr |-> history[k + 1].sold]
  <2>1. /\ \A k \in 0 .. seqNr : h[k] \in Int
        /\ h[0] = 0 /\ h[seqNr] = state.sold
    BY <1>1, <1>2, <1>4, <1>5
  <2>2. \A k \in 1 .. seqNr : h[k] = h[k - 1] + amount[k]
    BY <1>3, <1>6
  <2> HIDE DEF amount, h
  <2>3. Running(h, amount, seqNr)
    BY <2>1, <2>2 DEF Running
  <2>4. Total(amount, seqNr) = h[seqNr]
    BY <1>1, <2>3, TotalIs
  <2>5. QED
    BY <2>1, <2>4 DEF amount
<1>9. state.revenue = Total([n \in 1 .. seqNr |-> Earned(journal[n])], seqNr)
  <2> DEFINE amount == [n \in 1 .. seqNr |-> Earned(journal[n])]
             h      == [k \in 0 .. seqNr |-> history[k + 1].revenue]
  <2>1. /\ \A k \in 0 .. seqNr : h[k] \in Int
        /\ h[0] = 0 /\ h[seqNr] = state.revenue
    BY <1>1, <1>2, <1>4, <1>5
  <2>2. \A k \in 1 .. seqNr : h[k] = h[k - 1] + amount[k]
    BY <1>3, <1>6
  <2> HIDE DEF amount, h
  <2>3. Running(h, amount, seqNr)
    BY <2>1, <2>2 DEF Running
  <2>4. Total(amount, seqNr) = h[seqNr]
    BY <1>1, <2>3, TotalIs
  <2>5. QED
    BY <2>1, <2>4 DEF amount
<1>10. QED
  BY <1>7, <1>8, <1>9 DEF TotalsMatchJournal

-----------------------------------------------------------------------------
(* The invariant and what follows from it.                                 *)

\* IInv holds in every reachable state.
THEOREM Invariance == Spec => []IInv
<1>1. IInv /\ [Next]_vars => IInv'
  BY TypeStep, SumStep, PhaseStep, MailStep, ReplyStep, SaleStep, RaceStep DEF IInv
<1>2. QED
  BY InitInvariant, <1>1, PTL DEF Spec

\* Every variable keeps its type (fields of ProductTotalsActor and its mailbox).
THEOREM TypeCorrect == Spec => []TypeOK
BY Invariance, PTL DEF IInv

\* Recovery is exact: through snapshots, replays and partly handled batches the
\* state is the sum of the first seqNr events of the journal.
THEOREM RecoveryIsExact == Spec => []StateIsSumOfEvents
BY Invariance, PTL DEF IInv

\* No sender is answered twice, though a command has several events.
THEOREM AnsweredOnce == Spec => []OneResponse
<1>1. ReplyInv => OneResponse
  BY DEF ReplyInv, OneResponse
<1>2. QED
  BY Invariance, <1>1, PTL DEF IInv

\* A purchase that was reported as a success has its sale in the journal.
THEOREM ReportedMeansDurable == Spec => []ReportedSaleIsDurable
<1>1. ReplyInv => ReportedSaleIsDurable
  BY DEF ReplyInv, ReportedSaleIsDurable
<1>2. QED
  BY Invariance, <1>1, PTL DEF IInv

\* What the sender of a command hears is heard once, and true for ever.
THEOREM TrueReplies == Spec => []RepliesAreTrue
BY AnsweredOnce, ReportedMeansDurable, PTL DEF RepliesAreTrue

\* A sale is judged on the stock that it leaves, and its warning with it: nothing
\* comes between ProcessCommand and the write of its events.
THEOREM SalesAreJudgedRight == Spec => []SalesJudgedOnRealStock
BY Invariance, PTL DEF IInv, SaleInv

\* Without failures a message is lost only to the race of the query of a missing
\* product with its creation.
THEOREM OnlyARaceLoses == Spec => []PassivationLosesOnlyARace
BY Invariance, PTL DEF IInv, RaceInv

\* Stock, sold pieces and revenue are the sums over the journal, however long it
\* is and whatever timestamps coincide.
THEOREM TotalsAreSums == Spec => []TotalsMatchJournal
BY Invariance, TotalsFollow, PTL

-----------------------------------------------------------------------------
(* The actor implements the ledger.                                        *)

\* The ledger and the actor judge commands and count events alike.
LEMMA SameProduct ==
    /\ Ledger!EmptyState = EmptyState
    /\ \A s, c, now : Ledger!ProcessCommand(s, c, now) = ProcessCommand(s, c, now)
    /\ \A s, es : Ledger!Unfold(s, es) = Unfold(s, es)
<1>1. Ledger!EmptyState = EmptyState
  BY DEF Ledger!EmptyState, EmptyState
<1>2. ASSUME NEW s, NEW c, NEW now
      PROVE  Ledger!ProcessCommand(s, c, now) = ProcessCommand(s, c, now)
  <2>1. Ledger!CreateEvents(c, now) = CreateEvents(c, now)
    BY DEF Ledger!CreateEvents, CreateEvents, Ledger!Created, Created,
           Ledger!Changed, Changed
  <2>2. Ledger!SupplyEvents(c, now) = SupplyEvents(c, now)
    BY DEF Ledger!SupplyEvents, SupplyEvents, Ledger!Changed, Changed
  <2>3. Ledger!PurchaseEvents(s, c) = PurchaseEvents(s, c)
    BY Zenon DEF Ledger!PurchaseEvents, PurchaseEvents, Ledger!Changed, Changed,
           Ledger!Warning, Warning, Ledger!Sold, Sold,
           Ledger!LowInventoryWarningThreshold, LowInventoryWarningThreshold
  <2>4. Ledger!IsEmpty(s) = IsEmpty(s)
    BY Zenon DEF Ledger!IsEmpty, IsEmpty
  <2>5. QED
    BY Zenon, <2>1, <2>2, <2>3, <2>4 DEF Ledger!ProcessCommand, ProcessCommand
<1>3. ASSUME NEW s, NEW e
      PROVE  Ledger!ProcessEvent(s, e) = ProcessEvent(s, e)
  BY Zenon DEF Ledger!ProcessEvent, ProcessEvent, Ledger!SortedAdd, SortedAdd,
         Ledger!Abs, Abs, Ledger!TotalPrice, TotalPrice
<1>4. ASSUME NEW s, NEW es PROVE Ledger!Unfold(s, es) = Unfold(s, es)
  BY Zenon, <1>3 DEF Ledger!Unfold, Unfold
<1>5. QED
  BY <1>1, <1>2, <1>4

\* The initial states map to initial states of the ledger.
LEMMA LedgerInit == Init => Ledger!Init
<1> SUFFICES ASSUME Init PROVE Ledger!Init
  OBVIOUS
<1>1. history[Len(history)] = EmptyState
  BY DEF Init
<1>2. QED
  BY <1>1, SameProduct DEF Init, Ledger!Init

\* The write of a batch is the moment at which its command takes effect.
LEMMA WriteExecutes == ASSUME IInv, WriteBatch PROVE Ledger!Execute(current)
<1>1. /\ current \notin executed /\ batch # << >> /\ batch \in Seq(Event)
      /\ current \in Commands
      /\ \E now \in Times : batch = ProcessCommand(state, current, now)
  BY DEF IInv, TypeOK, PhaseInv, Busy, WriteBatch
<1>2. state = history[Len(history)] /\ state \in State
  BY UpToDate DEF WriteBatch, IInv, TypeOK
<1>3. Len(batch) <= 3
  BY <1>1, <1>2, ProcessCommandType, MessageKinds
<1>4. /\ Unfold(state, batch) \in Seq(State)
      /\ Len(Unfold(state, batch)) = Len(batch)
  BY <1>1, <1>2, <1>3, UnfoldSteps
<1>5. history' = history \o Unfold(state, batch) /\ history \in Seq(State)
  BY <1>2 DEF WriteBatch, IInv, TypeOK
<1>6. history'[Len(history')] = Unfold(state, batch)[Len(batch)]
  <2> DEFINE U == Unfold(state, batch)
  <2>0. /\ history \in Seq(State) /\ U \in Seq(State) /\ history' = history \o U
        /\ Len(U) = Len(batch)
    BY Zenon, <1>4, <1>5
  <2>1. Len(history) \in Nat /\ Len(batch) \in Nat /\ Len(batch) # 0
    BY <1>1, <1>5
  <2> HIDE DEF U
  <2>2. /\ Len(history') = Len(history) + Len(batch)
        /\ \A k \in 1 .. Len(batch) : history'[Len(history) + k] = U[k]
    <3>1. history \in Seq(State) /\ U \in Seq(State) /\ history' = history \o U
      BY <2>0
    <3>2. /\ Len(history') = Len(history) + Len(U)
          /\ \A n \in 1 .. Len(history) : history'[n] = history[n]
          /\ \A k \in 1 .. Len(U) : history'[Len(history) + k] = U[k]
      BY <3>1, ConcatIndices
    <3>3. QED
      BY <2>0, <3>2
  <2>3. Len(batch) \in 1 .. Len(batch)
    BY <2>1
  <2>4. QED
    BY <2>2, <2>3 DEF U
<1>7. /\ journal' = journal \o batch /\ executed' = executed \cup {current}
      /\ UNCHANGED << replies, views >>
  BY DEF WriteBatch, outside
<1>8. QED
  BY <1>1, <1>2, <1>6, <1>7, SameProduct DEF Ledger!Execute

\* Every step maps to a step of the ledger or to a stutter.
LEMMA LedgerStep == IInv /\ [Next]_vars => [Ledger!Next]_(Ledger!vars)
<1> SUFFICES ASSUME IInv, [Next]_vars PROVE [Ledger!Next]_(Ledger!vars)
  OBVIOUS
<1> USE DEF durable, actor, shard, outside, past
<1>0. TypeOK /\ PhaseInv /\ MailInv
  BY DEF IInv
<1>1. CASE UNCHANGED << journal, history, executed, replies, views >>
  BY <1>1 DEF Ledger!vars
<1>2. CASE WriteBatch
  <2>1. current \in Commands
    BY <1>0, <1>2 DEF WriteBatch, PhaseInv, Busy
  <2>2. QED
    BY <1>2, <2>1, WriteExecutes DEF Ledger!Next
<1>3. CASE HandleEvent
  <2>1. CASE sentResponse
    BY <1>1, <1>3, <2>1 DEF HandleEvent, Respond
  <2>2. CASE ~sentResponse
    <3>1. current \in Commands /\ current \in executed /\ replies[current] = << >>
      BY <1>0, <1>3, <2>2 DEF HandleEvent, PhaseInv, Busy
    <3>2. replies' = [replies EXCEPT ![current] = << "success" >>]
      BY <1>3, <2>2, <3>1, AppendToEmpty DEF HandleEvent, Respond
    <3>3. Ledger!Confirm(current)
      BY <1>3, <3>1, <3>2 DEF HandleEvent, Ledger!Confirm
    <3>4. QED
      BY <3>1, <3>3 DEF Ledger!Next
  <2>3. QED
    BY <2>1, <2>2
<1>4. ASSUME NEW c \in Commands, RefuseCommand(c)
      PROVE  [Ledger!Next]_(Ledger!vars)
  <2>1. replies[c] = << >> /\ c \notin executed
    BY <1>4, HeadIsUntouched DEF RefuseCommand
  <2>2. state = history[Len(history)]
    BY <1>4, UpToDate DEF RefuseCommand
  <2>3. replies' = [replies EXCEPT ![c] = << "failure" >>]
    BY <1>4, <2>1, AppendToEmpty DEF RefuseCommand
  <2>4. Ledger!Refuse(c)
    BY <1>4, <2>1, <2>2, <2>3, SameProduct DEF RefuseCommand, Ledger!Refuse
  <2>5. QED
    BY <2>4 DEF Ledger!Next
<1>5. ASSUME NEW f \in Fetches, FetchProduct(f)
      PROVE  [Ledger!Next]_(Ledger!vars)
  <2>1. views[f] = << >>
    <3>1. 1 \in 1 .. Len(inbox) /\ inbox[1] = Fetch(f)
      BY <1>0, <1>5 DEF FetchProduct, TypeOK
    <3>2. QED
      BY <1>0, <3>1, MessageKinds DEF MailInv, Untouched
  <2>2. state = history[Len(history)]
    BY <1>5, UpToDate DEF FetchProduct
  <2>3. views' = [views EXCEPT ![f] = << history[Len(history)] >>]
    BY <1>5, <2>1, <2>2, AppendToEmpty DEF FetchProduct
  <2>4. Ledger!Read(f)
    BY <1>5, <2>1, <2>3 DEF FetchProduct, Ledger!Read
  <2>5. QED
    BY <2>4 DEF Ledger!Next
<1>6. ASSUME \/ \E m \in Messages : Send(m)
             \/ Start \/ SendPoisonPill \/ LoadSnapshot \/ ReplayEvent
             \/ CompleteRecovery \/ \E c \in Commands : AcceptCommand(c)
             \/ \E s \in saving : SaveSnapshot(s)
             \/ ReceivePoisonPill \/ PersistenceFailure \/ NodeCrash
             \/ UNCHANGED vars
      PROVE  [Ledger!Next]_(Ledger!vars)
  BY <1>1, <1>6 DEF Send, Start, SendPoisonPill, LoadSnapshot, ReplayEvent,
     CompleteRecovery, AcceptCommand, SaveSnapshot, ReceivePoisonPill,
     PersistenceFailure, NodeCrash, vars
<1>7. QED
  BY <1>2, <1>3, <1>4, <1>5, <1>6 DEF Next, Work

\* The persistent actor, with its crashes, its snapshots, its replays and its
\* passivation, implements the ledger of atomic commands.
THEOREM ActorImplementsLedger == Spec => Linearizable
<1>1. IInv /\ [Next]_vars => [Ledger!Next]_(Ledger!vars)
  BY LedgerStep
<1>2. QED
  BY LedgerInit, Invariance, <1>1, PTL DEF Spec, Linearizable, Ledger!Spec

=============================================================================
