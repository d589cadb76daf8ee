-------------------------- MODULE BatchImportProofs --------------------------
(***************************************************************************)
(* For all sizes, numbers of imports and degrees of parallelism: the actor *)
(* never loses hold of a stream that runs uncancelled, an import that it   *)
(* starts finds no such stream besides its own, it is never left importing *)
(* nothing, and what it reports of an import that nobody cancelled is      *)
(* exact.                                                                  *)
(***************************************************************************)
EXTENDS BatchImport, SequenceTheorems, TLAPS

\* Idle, nothing is counted.
LEMMA TypeInit == Init => TypeOK
<1> SUFFICES ASSUME Init PROVE TypeOK
  OBVIOUS
<1>1. mailbox \in Seq(Completion)
  BY EmptySeq DEF Init
<1>2. started \in 0 .. MaxImports /\ cancels \in Nat
  BY BoundsAssumption DEF Init
<1>3. /\ size \in [Imports -> Nat] /\ pulled \in [Imports -> Nat]
      /\ processed \in [Imports -> Nat]
  BY DEF Init
<1>4. answer \in [processed : Nat, total : Nat, active : BOOLEAN]
  BY DEF Init
<1>5. QED
  BY <1>1, <1>2, <1>3, <1>4 DEF Init, TypeOK

\* What a returning stream pipes to the actor is a completion.
LEMMA ReturnType ==
    ASSUME TypeOK, NEW i \in Imports, NEW s \in BOOLEAN, Return(i, s)
    PROVE  TypeOK'
<1> DEFINE msg == [import |-> i, processed |-> processed[i],
                   total |-> totalRecords, success |-> s]
<1>1. msg \in Completion
  BY DEF Completion, TypeOK
<1>2. mailbox' = Append(mailbox, msg) /\ mailbox \in Seq(Completion)
  BY DEF Return, PipeToSelf, TypeOK
<1> HIDE DEF msg
<1>3. mailbox' \in Seq(Completion)
  BY <1>1, <1>2, AppendProperties
<1>4. QED
  BY <1>3 DEF Return, TypeOK, actor, outside

\* Every handler and every step of a stream keeps the types.
LEMMA TypeStep == TypeOK /\ [Next]_vars => TypeOK'
<1> SUFFICES ASSUME TypeOK, [Next]_vars PROVE TypeOK'
  OBVIOUS
<1> USE DEF actor, streams, outside
<1>1. ASSUME NEW n \in Sizes, RejectStart PROVE TypeOK'
  BY <1>1 DEF RejectStart, TypeOK, Status
<1>2. ASSUME NEW n \in Sizes, BeginImport(n) PROVE TypeOK'
  <2>1. started' \in Imports /\ n \in Nat
    BY <1>2, SizesAssumption, BoundsAssumption DEF BeginImport, TypeOK, Imports
  <2>2. importCts' \in Imports /\ cancelled' \subseteq Imports
    BY <1>2, <2>1 DEF BeginImport, ReplaceToken, CancelToken, TypeOK
  <2>3. started' \in 0 .. MaxImports
    BY <2>1, BoundsAssumption DEF Imports
  <2>4. live' \subseteq Imports /\ size' \in [Imports -> Nat]
    BY <1>2, <2>1 DEF BeginImport, TypeOK
  <2>5. QED
    BY <1>2, <2>1, <2>2, <2>3, <2>4 DEF BeginImport, TypeOK
<1>3. CASE HandleGetStatus
  BY <1>3 DEF HandleGetStatus, TypeOK, Status
<1>4. CASE HandleCancelImport
  <2>1. importCts' \in Imports \cup {None} /\ cancelled' \subseteq Imports
        /\ isImporting' \in BOOLEAN
    BY <1>4 DEF HandleCancelImport, CancelCurrent, CancelToken, TypeOK
  <2>2. QED
    BY <1>4, <2>1 DEF HandleCancelImport, TypeOK
<1>5. CASE HandleImportCompleted
  <2>1. mailbox \in Seq(Completion) /\ mailbox # << >> /\ mailbox' = Tail(mailbox)
    BY <1>5 DEF HandleImportCompleted, TypeOK
  <2>2. mailbox' \in Seq(Completion)
    BY <2>1, HeadTailProperties
  <2>3. QED
    BY <1>5, <2>2 DEF HandleImportCompleted, TypeOK
<1>6. CASE PostStop
  <2>1. mailbox' \in Seq(Completion)
    BY <1>6, EmptySeq DEF PostStop
  <2>2. cancelled' \subseteq Imports
    BY <1>6 DEF PostStop, CancelToken, TypeOK
  <2>3. QED
    BY <1>6, <2>1, <2>2 DEF PostStop, TypeOK
<1>7. ASSUME NEW i \in Imports, PullBatch(i) PROVE TypeOK'
  BY <1>7 DEF PullBatch, TypeOK
<1>8. ASSUME NEW i \in Imports, SinkBatch(i) PROVE TypeOK'
  BY <1>8 DEF SinkBatch, TypeOK
<1>9. ASSUME NEW i \in Imports, CompleteStream(i) PROVE TypeOK'
  BY <1>9, ReturnType DEF CompleteStream
<1>10. ASSUME NEW i \in Imports, FailStream(i) PROVE TypeOK'
  BY <1>10, ReturnType DEF FailStream
<1>11. CASE UNCHANGED vars
  BY <1>11 DEF TypeOK, vars
<1>12. QED
  BY <1>1, <1>2, <1>3, <1>4, <1>5, <1>6, <1>7, <1>8, <1>9, <1>10, <1>11
     DEF Next, HandleStartImport, Stream

\* Every field of the actor and of its streams keeps its type.
THEOREM TypeCorrect == Spec => []TypeOK
BY TypeInit, TypeStep, PTL DEF Spec

-----------------------------------------------------------------------------

\* The stream that is not cancelled is always the one whose token is held.
LEMMA OrphanStep == TypeOK /\ NoOrphanStream /\ [Next]_vars => NoOrphanStream'
<1> SUFFICES ASSUME TypeOK, NoOrphanStream, [Next]_vars PROVE NoOrphanStream'
  OBVIOUS
<1> USE DEF actor, streams, outside, NoOrphanStream
<1>0. live \subseteq Imports /\ None \notin Imports
  BY DEF TypeOK, Imports, None
<1>1. ASSUME NEW n \in Sizes, BeginImport(n) PROVE NoOrphanStream'
  <2>1. cancelled' = cancelled \cup ({importCts} \ {None})
    BY <1>1 DEF BeginImport, ReplaceToken, CancelToken
  <2>2. live \subseteq cancelled'
    BY <1>0, <2>1
  <2>3. live' = live \cup {importCts'}
    BY <1>1 DEF BeginImport, ReplaceToken
  <2>4. QED
    BY <2>2, <2>3
<1>2. CASE HandleCancelImport
  BY <1>0, <1>2 DEF HandleCancelImport, CancelCurrent, CancelToken
<1>3. CASE PostStop
  BY <1>3 DEF PostStop
<1>4. ASSUME NEW i \in Imports, Stream(i) PROVE NoOrphanStream'
  BY <1>4 DEF Stream, PullBatch, SinkBatch, CompleteStream, FailStream, Return
<1>5. CASE RejectStart \/ HandleGetStatus \/ HandleImportCompleted \/ UNCHANGED vars
  BY <1>5 DEF RejectStart, HandleGetStatus, HandleImportCompleted, vars
<1>6. QED
  BY <1>1, <1>2, <1>3, <1>4, <1>5 DEF Next, HandleStartImport

\* A stream that runs uncancelled is the one the actor can cancel, however
\* cancellations, stale completions and new starts interleave.
THEOREM NoOrphan == Spec => []NoOrphanStream
<1>1. Init => NoOrphanStream
  BY DEF Init, NoOrphanStream
<1>2. QED
  BY <1>1, TypeCorrect, OrphanStep, PTL DEF Spec

\* What stands behind "Second start should be rejected" once a result of an
\* import that is long over has told the actor that it is idle: the second
\* import does start then, but every stream that is still live has its token
\* cancelled in the same step (ReplaceToken), so two never run uncancelled.
ReplacedIsCancelled == started' # started => live \subseteq cancelled'

THEOREM AStartCancelsTheOthers == Spec => [][ReplacedIsCancelled]_vars
<1>1. ASSUME TypeOK, NoOrphanStream, [Next]_vars PROVE [ReplacedIsCancelled]_vars
  <2> USE DEF actor, outside
  <2> SUFFICES ASSUME started' # started PROVE live \subseteq cancelled'
    BY DEF ReplacedIsCancelled
  <2>1. PICK n \in Sizes : BeginImport(n)
    BY <1>1 DEF Next, HandleStartImport, RejectStart, HandleGetStatus,
       HandleCancelImport, HandleImportCompleted, PostStop, Stream, PullBatch,
       SinkBatch, CompleteStream, FailStream, Return, vars
  <2>2. cancelled' = cancelled \cup ({importCts} \ {None})
    BY <2>1 DEF BeginImport, ReplaceToken, CancelToken
  <2>3. live \subseteq Imports /\ None \notin Imports
    BY <1>1 DEF TypeOK, Imports, None
  <2>4. QED
    BY <1>1, <2>2, <2>3 DEF NoOrphanStream
<1>2. QED
  BY <1>1, TypeCorrect, NoOrphan, PTL DEF Spec

-----------------------------------------------------------------------------

\* A start sets the flag with its stream; a completion or a cancellation clears it.
LEMMA BackedStep == TypeOK /\ ImportingIsBacked /\ [Next]_vars => ImportingIsBacked'
<1> SUFFICES ASSUME TypeOK, ImportingIsBacked, [Next]_vars PROVE ImportingIsBacked'
  OBVIOUS
<1> USE DEF actor, streams, outside, ImportingIsBacked
<1>1. ASSUME NEW n \in Sizes, BeginImport(n) PROVE ImportingIsBacked'
  BY <1>1 DEF BeginImport, ReplaceToken
<1>2. CASE HandleCancelImport
  BY <1>2 DEF HandleCancelImport, CancelCurrent
<1>3. CASE HandleImportCompleted
  BY <1>3 DEF HandleImportCompleted
<1>4. CASE PostStop
  BY <1>4 DEF PostStop
<1>5. ASSUME NEW i \in Imports, NEW s \in BOOLEAN, Return(i, s)
      PROVE  ImportingIsBacked'
  <2> DEFINE msg == [import |-> i, processed |-> processed[i],
                     total |-> totalRecords, success |-> s]
  <2>1. /\ mailbox \in Seq(Completion) /\ msg \in Completion
        /\ mailbox' = Append(mailbox, msg) /\ msg.import = i
    BY <1>5 DEF Return, PipeToSelf, TypeOK, Completion
  <2> HIDE DEF msg
  <2>2. /\ Len(mailbox') = Len(mailbox) + 1 /\ Len(mailbox) \in Nat
        /\ \A k \in 1 .. Len(mailbox) : mailbox'[k] = mailbox[k]
        /\ mailbox'[Len(mailbox) + 1] = msg
    BY <2>1, AppendProperties
  <2>3. UNCHANGED << isImporting, importCts, stopped >> /\ live' = live \ {i}
    BY <1>5 DEF Return
  <2>4. CASE importCts = i
    <3>1. /\ Len(mailbox) + 1 \in 1 .. Len(mailbox')
          /\ mailbox'[Len(mailbox) + 1].import = importCts'
      BY <2>1, <2>2, <2>3, <2>4
    <3>2. QED
      BY <3>1
  <2>5. CASE importCts # i
    <3>1. \A k \in 1 .. Len(mailbox) : k \in 1 .. Len(mailbox')
      BY <2>2
    <3>2. QED
      BY <2>2, <2>3, <2>5, <3>1
  <2>6. QED
    BY <2>4, <2>5
<1>6. ASSUME NEW i \in Imports, PullBatch(i) \/ SinkBatch(i)
      PROVE  ImportingIsBacked'
  <2>1. UNCHANGED << isImporting, importCts, mailbox, live, stopped >>
    BY <1>6 DEF PullBatch, SinkBatch
  <2>2. QED
    BY <2>1
<1>7. CASE RejectStart \/ HandleGetStatus \/ UNCHANGED vars
  <2>1. UNCHANGED << isImporting, importCts, mailbox, live, stopped >>
    BY <1>7 DEF RejectStart, HandleGetStatus, vars
  <2>2. QED
    BY <2>1
<1>8. QED
  BY <1>1, <1>2, <1>3, <1>4, <1>5, <1>6, <1>7
     DEF Next, HandleStartImport, Stream, CompleteStream, FailStream

\* An actor that reports an import in progress has one: its stream runs, or its
\* result waits in the mailbox.
THEOREM Backed == Spec => []ImportingIsBacked
<1>1. Init => ImportingIsBacked
  BY DEF Init, ImportingIsBacked
<1>2. QED
  BY <1>1, TypeCorrect, BackedStep, PTL DEF Spec

-----------------------------------------------------------------------------

\* Numbers that were not given yet stand for nothing.  As long as nothing was cancelled, one
\* thing is under way at most: the stream of the import, whose counts the fields of the
\* actor show, or its result.
Fresh ==
    /\ importCts <= started /\ cancelled \subseteq 1 .. started /\ live \subseteq 1 .. started
    /\ \A i \in Imports : i > started => pulled[i] = 0 /\ processed[i] = 0
Running ==
    /\ isImporting /\ mailbox = << >> /\ live = {importCts} /\ importCts \notin cancelled
    /\ totalRecords = size[importCts] /\ recordsProcessed = processed[importCts]
    /\ processed[importCts] <= pulled[importCts] /\ pulled[importCts] <= size[importCts]
Ended ==
    /\ live = {} /\ recordsProcessed = totalRecords
    /\ mailbox # << >> => isImporting /\ Len(mailbox) = 1
    /\ isImporting => mailbox # << >>
OneAtATime == cancels = 0 /\ ~stopped => Running \/ Ended

ExactInv == TypeOK /\ Fresh /\ OneAtATime

\* The steps of a stream: its counts are the actor's, and it ends when all is counted.
LEMMA StreamCounts ==
    ASSUME ExactInv, NEW i \in Imports, Stream(i), cancels = 0, ~stopped
    PROVE  Running' \/ Ended'
<1> USE DEF actor, streams, outside
<1>0. i \in live
  BY DEF Stream, PullBatch, SinkBatch, CompleteStream, FailStream
<1>1. /\ Running /\ i = importCts /\ i \notin cancelled
      /\ size \in [Imports -> Nat] /\ pulled \in [Imports -> Nat]
      /\ processed \in [Imports -> Nat]
  BY <1>0 DEF ExactInv, OneAtATime, Running, Ended, TypeOK
<1>2. size[i] \in Nat /\ pulled[i] \in Nat /\ processed[i] \in Nat
  BY <1>1
<1>3. CASE PullBatch(i)
  <2>1. /\ pulled[i] < size[i] /\ pulled'[i] = pulled[i] + 1
        /\ UNCHANGED << isImporting, importCts, recordsProcessed, totalRecords, mailbox,
                        live, cancelled, size, processed >>
    BY <1>1, <1>3 DEF PullBatch
  <2>2. processed[i] <= pulled'[i] /\ pulled'[i] <= size[i]
    BY <1>1, <1>2, <2>1 DEF Running
  <2>3. QED
    BY <1>1, <2>1, <2>2 DEF Running
<1>4. CASE SinkBatch(i)
  <2>1. /\ InFlight(i) > 0 /\ processed'[i] = processed[i] + 1
        /\ recordsProcessed' = processed'[i]
        /\ UNCHANGED << isImporting, importCts, totalRecords, mailbox, live,
                        cancelled, size, pulled >>
    BY <1>1, <1>4 DEF SinkBatch
  <2>2. processed'[i] <= pulled[i]
    BY <1>2, <2>1 DEF InFlight
  <2>3. QED
    BY <1>1, <2>1, <2>2 DEF Running
<1>5. CASE CompleteStream(i)
  <2>1. InFlight(i) = 0 /\ pulled[i] = size[i] /\ Return(i, TRUE)
    BY <1>1, <1>5 DEF CompleteStream
  <2>2. recordsProcessed = totalRecords
    BY <1>1, <1>2, <2>1 DEF Running, InFlight
  <2>3. /\ live' = {} /\ UNCHANGED << isImporting, recordsProcessed, totalRecords >>
        /\ isImporting
    BY <1>1, <2>1 DEF Return, Running
  <2>4. Len(mailbox') = 1 /\ mailbox' # << >>
    <3> DEFINE msg == [import |-> i, processed |-> processed[i],
                       total |-> totalRecords, success |-> TRUE]
    <3>1. mailbox' = Append(<< >>, msg)
      BY <1>1, <2>1 DEF Return, PipeToSelf, Running
    <3> HIDE DEF msg
    <3>2. QED
      BY <3>1
  <2>5. QED
    BY <2>2, <2>3, <2>4 DEF Ended
<1>6. CASE FailStream(i)
  BY <1>1, <1>6 DEF FailStream
<1>7. QED
  BY <1>3, <1>4, <1>5, <1>6 DEF Stream

\* Every step keeps to one import at a time, until one is cancelled.
LEMMA ExactStep == ExactInv /\ [Next]_vars => ExactInv'
<1> SUFFICES ASSUME ExactInv, [Next]_vars PROVE ExactInv'
  OBVIOUS
<1> USE DEF actor, streams, outside
<1>0. TypeOK'
  BY TypeStep DEF ExactInv
<1>1. /\ started \in Nat /\ MaxImports \in Nat /\ importCts \in Nat /\ cancels \in Nat
      /\ live \subseteq Imports /\ \A i \in Imports : i \in Nat
      /\ size \in [Imports -> Nat] /\ pulled \in [Imports -> Nat]
      /\ processed \in [Imports -> Nat]
  <2>1. MaxImports \in Nat /\ Imports = 1 .. MaxImports /\ \A i \in Imports : i \in Nat
    BY BoundsAssumption DEF Imports
  <2>2. /\ size \in [Imports -> Nat] /\ pulled \in [Imports -> Nat]
        /\ processed \in [Imports -> Nat]
    BY DEF ExactInv, TypeOK
  <2>3. live \subseteq Imports
    BY DEF ExactInv, TypeOK
  <2>4. started \in Nat /\ importCts \in Nat /\ cancels \in Nat
    BY <2>1, BoundsAssumption DEF ExactInv, TypeOK, None
  <2>5. QED
    BY <2>1, <2>2, <2>3, <2>4
<1>2. ASSUME NEW n \in Sizes, BeginImport(n) PROVE Fresh' /\ OneAtATime'
  <2>1. /\ ~isImporting /\ started' = started + 1 /\ isImporting' = TRUE
        /\ recordsProcessed' = 0 /\ totalRecords' = n /\ importCts' = started + 1
        /\ cancelled' \subseteq cancelled \cup ({importCts} \ {None})
        /\ live' = live \cup {started + 1}
        /\ size' = [size EXCEPT ![started + 1] = n]
        /\ UNCHANGED << mailbox, pulled, processed, cancels, stopped >>
    BY <1>2 DEF BeginImport, ReplaceToken, CancelToken
  <2>2. started + 1 \in Imports /\ n \in Nat
    BY <1>1, <1>2, SizesAssumption DEF BeginImport, Imports
  <2>3. /\ importCts <= started /\ cancelled \subseteq 1 .. started
        /\ live \subseteq 1 .. started
        /\ \A i \in Imports : i > started => pulled[i] = 0 /\ processed[i] = 0
    BY DEF ExactInv, Fresh
  <2>4. cancelled' \subseteq 1 .. started
    <3>1. importCts # None => importCts \in 1 .. started
      BY <1>1, <2>3 DEF None
    <3>2. QED
      BY <2>1, <2>3, <3>1
  <2>5. Fresh'
    <3>1. 1 .. started \subseteq 1 .. started' /\ started + 1 \in 1 .. started'
      BY <1>1, <2>1
    <3>2. cancelled' \subseteq 1 .. started' /\ live' \subseteq 1 .. started'
      BY <2>1, <2>3, <2>4, <3>1
    <3>3. \A i \in Imports : i > started' => i > started
      BY <1>1, <2>1
    <3>4. importCts' <= started'
      BY <1>1, <2>1
    <3>5. QED
      BY <2>1, <2>3, <3>2, <3>3, <3>4 DEF Fresh
  <2>6. ASSUME cancels' = 0, ~stopped' PROVE Running'
    <3>1. live = {} /\ mailbox = << >>
      BY <2>1, <2>6 DEF ExactInv, OneAtATime, Running, Ended
    <3>2. live' = {importCts'} /\ importCts' \notin cancelled' /\ mailbox' = << >>
      BY <1>1, <2>1, <2>4, <3>1
    <3>3. /\ processed'[importCts'] = 0 /\ pulled'[importCts'] = 0 /\ size'[importCts'] = n
      BY <1>1, <2>1, <2>2, <2>3
    <3>4. QED
      BY <2>1, <2>2, <3>2, <3>3 DEF Running
  <2>7. QED
    BY <2>5, <2>6 DEF OneAtATime
<1>3. CASE HandleCancelImport
  <2>1. /\ cancels' = cancels + 1 /\ importCts' \in {importCts, None}
        /\ cancelled' \subseteq cancelled \cup ({importCts} \ {None})
        /\ UNCHANGED << live, pulled, processed, started >>
    BY <1>3 DEF HandleCancelImport, CancelCurrent, CancelToken
  <2>2. importCts # None => importCts \in 1 .. started
    BY <1>1 DEF ExactInv, Fresh, None
  <2>3. importCts' <= started
    BY <1>1, <2>1 DEF ExactInv, Fresh, None
  <2>4. Fresh'
    BY <2>1, <2>2, <2>3 DEF ExactInv, Fresh
  <2>5. cancels' # 0
    BY <1>1, <2>1
  <2>6. QED
    BY <1>0, <2>4, <2>5 DEF ExactInv, OneAtATime
<1>4. CASE HandleImportCompleted
  <2>1. /\ mailbox # << >> /\ isImporting' = FALSE /\ mailbox' = Tail(mailbox)
        /\ UNCHANGED << importCts, recordsProcessed, totalRecords, live, cancelled, size,
                        pulled, processed, started, cancels, stopped >>
    BY <1>4 DEF HandleImportCompleted
  <2>2. Fresh'
    BY <2>1 DEF ExactInv, Fresh
  <2>3. ASSUME cancels' = 0, ~stopped' PROVE Ended'
    <3>1. Ended /\ Len(mailbox) = 1
      BY <2>1, <2>3 DEF ExactInv, OneAtATime, Running, Ended
    <3>2. mailbox' = << >>
      <4>1. mailbox \in Seq(Completion)
        BY DEF ExactInv, TypeOK
      <4> HIDE DEF Completion
      <4>2. QED
        BY <2>1, <3>1, <4>1
    <3>3. QED
      BY <2>1, <3>1, <3>2 DEF Ended
  <2>4. QED
    BY <1>0, <2>2, <2>3 DEF ExactInv, OneAtATime
<1>5. CASE PostStop
  <2>1. /\ stopped' = TRUE /\ importCts' = None /\ live' = {}
        /\ cancelled' \subseteq cancelled \cup ({importCts} \ {None})
        /\ UNCHANGED << pulled, processed, started >>
    BY <1>5 DEF PostStop, CancelToken
  <2>2. importCts # None => importCts \in 1 .. started
    BY <1>1 DEF ExactInv, Fresh, None
  <2>3. importCts' <= started
    BY <1>1, <2>1 DEF None
  <2>4. QED
    BY <1>0, <2>1, <2>2, <2>3 DEF ExactInv, Fresh, OneAtATime
<1>6. ASSUME NEW i \in Imports, Stream(i) PROVE Fresh' /\ OneAtATime'
  <2>1. /\ i \in live /\ live' \subseteq live
        /\ UNCHANGED << importCts, cancelled, started, cancels, stopped >>
        /\ \A j \in Imports : j # i => pulled'[j] = pulled[j] /\ processed'[j] = processed[j]
    BY <1>1, <1>6 DEF Stream, PullBatch, SinkBatch, CompleteStream, FailStream, Return
  <2>2. ~(i > started)
    BY <1>1, <2>1 DEF ExactInv, Fresh
  <2>3. Fresh'
    BY <2>1, <2>2 DEF ExactInv, Fresh
  <2>4. QED
    BY <1>6, <2>1, <2>3, StreamCounts DEF OneAtATime
<1>7. CASE RejectStart \/ HandleGetStatus \/ UNCHANGED vars
  <2>1. UNCHANGED << isImporting, importCts, recordsProcessed, totalRecords, mailbox, live,
                     cancelled, size, pulled, processed, started, cancels, stopped >>
    BY <1>7 DEF RejectStart, HandleGetStatus, vars
  <2>2. Fresh'
    BY <2>1 DEF ExactInv, Fresh
  <2>3. (Running' <=> Running) /\ (Ended' <=> Ended)
    BY <2>1 DEF Running, Ended
  <2>4. QED
    BY <1>0, <2>1, <2>2, <2>3 DEF ExactInv, OneAtATime
<1>8. QED
  BY <1>0, <1>2, <1>3, <1>4, <1>5, <1>6, <1>7 DEF ExactInv, Next, HandleStartImport

\* Until somebody cancels, an import that the actor reports as ended has counted all of its
\* records, though its stream writes the fields and reads them from another thread.
THEOREM Exact == Spec => []ExactWithoutCancel
<1>1. Init => ExactInv
  <2> SUFFICES ASSUME Init PROVE ExactInv
    OBVIOUS
  <2>1. Fresh /\ Ended
    BY DEF Init, Fresh, Ended, None
  <2>2. QED
    BY <2>1, TypeInit DEF ExactInv, OneAtATime
<1>2. ExactInv => ExactWithoutCancel
  BY DEF ExactInv, OneAtATime, Running, Ended, ExactWithoutCancel
<1>3. QED
  BY <1>1, <1>2, ExactStep, PTL DEF Spec

=============================================================================
