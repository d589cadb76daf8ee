----------------------------- MODULE BatchImport -----------------------------
(***************************************************************************)
(* The BatchImportActor of the long-running-tasks sample: an actor that    *)
(* starts an import as a background stream, answers status queries while   *)
(* it runs and can cancel it.  The stream pipes its result back to the     *)
(* actor, writes the actor's progress field from its own thread and reads  *)
(* the actor's total when it ends, all concurrently with the handlers.     *)
(*                                                                         *)
(* Records are counted in batches of the import's BatchSize.  Of the       *)
(* messages only the results of streams are kept in the mailbox: a message *)
(* of the user carries nothing that ages, so that its handling alone says  *)
(* where it stood among them.  Import n is the n-th that was started; its  *)
(* number also stands for its CancellationTokenSource.                     *)
(***************************************************************************)
EXTENDS Integers, Sequences

CONSTANTS Sizes,        \* numbers of batches of the imports that are asked for
          Parallelism,  \* batches in flight at once, 5 in the code
          MaxImports,   \* bound on the imports that are started
          MaxCancels    \* bound on the CancelImport messages

ASSUME SizesAssumption == Sizes \subseteq Nat
ASSUME BoundsAssumption ==
    Parallelism \in Nat \ {0} /\ MaxImports \in Nat /\ MaxCancels \in Nat

Imports == 1 .. MaxImports
None    == 0

VARIABLES
    \* fields of the actor
    isImporting, importCts, recordsProcessed, totalRecords,
    mailbox,    \* the ImportCompleted messages that wait, oldest first
    \* the streams, by import
    live,       \* RunStreamPipeline has begun and not returned
    cancelled,  \* the token is cancelled
    size,       \* batches of the import
    pulled,     \* batches handed to SelectAsync
    processed,  \* the local recordsProcessed: batches that reached the sink
    \* the outside
    started,    \* imports started so far
    cancels,    \* CancelImport messages so far
    answer,     \* the last StatusResponse
    stopped     \* PostStop ran

actor   == << isImporting, importCts, recordsProcessed, totalRecords >>
streams == << live, cancelled, size, pulled, processed >>
outside == << started, cancels, answer, stopped >>
vars    == << actor, mailbox, streams, outside >>

Init ==
    /\ isImporting = FALSE /\ importCts = None
    /\ recordsProcessed = 0 /\ totalRecords = 0
    /\ mailbox = << >>
    /\ live = {} /\ cancelled = {}
    /\ size = [i \in Imports |-> 0]
    /\ pulled = [i \in Imports |-> 0]
    /\ processed = [i \in Imports |-> 0]
    /\ started = 0 /\ cancels = 0 /\ stopped = FALSE
    /\ answer = [processed |-> 0, total |-> 0, active |-> FALSE]

\* The StatusResponse that the actor would send.
Status == [processed |-> recordsProcessed, total |-> totalRecords,
           active |-> isImporting]

-----------------------------------------------------------------------------
(* The handlers.                                                           *)

\* Mutant of CancelToken: `?.' forgotten, there may be no token to cancel.
CancelToken_NullToken == cancelled' = cancelled \cup {importCts}

\* _importCts?.Cancel() and Dispose().
CancelToken == cancelled' = cancelled \cup ({importCts} \ {None})

\* Mutant of ReplaceToken: the token of the import before is only dropped.
ReplaceToken_Dropped(i) == importCts' = i /\ UNCHANGED cancelled

ReplaceToken(i) == importCts' = i /\ CancelToken

RejectStart ==
    /\ isImporting
    /\ answer' = Status
    /\ UNCHANGED << actor, mailbox, streams, started, cancels, stopped >>

\* Mutant of BeginImport: the guard on _isImporting is forgotten.
BeginImport_Unguarded(n) ==
    /\ started < MaxImports
    /\ started' = started + 1
    /\ isImporting' = TRUE
    /\ recordsProcessed' = 0
    /\ totalRecords' = n
    /\ ReplaceToken(started')
    /\ live' = live \cup {started'}
    /\ size' = [size EXCEPT ![started'] = n]
    /\ UNCHANGED << mailbox, pulled, processed, cancels, answer, stopped >>

\* HandleStartImport of an actor that is not importing; the stream runs.
BeginImport(n) ==
    /\ ~isImporting
    /\ started < MaxImports
    /\ started' = started + 1
    /\ isImporting' = TRUE
    /\ recordsProcessed' = 0
    /\ totalRecords' = n
    /\ ReplaceToken(started')
    /\ live' = live \cup {started'}
    /\ size' = [size EXCEPT ![started'] = n]
    /\ UNCHANGED << mailbox, pulled, processed, cancels, answer, stopped >>

HandleStartImport(n) == ~stopped /\ (RejectStart \/ BeginImport(n))

HandleGetStatus ==
    /\ ~stopped
    /\ answer' = Status
    /\ UNCHANGED << actor, mailbox, streams, started, cancels, stopped >>

\* Mutant of CancelCurrent: the flag of the import is forgotten.
CancelCurrent_FlagStays ==
    importCts' = None /\ CancelToken /\ UNCHANGED isImporting

CancelCurrent == importCts' = None /\ CancelToken /\ isImporting' = FALSE

HandleCancelImport ==
    /\ ~stopped
    /\ cancels < MaxCancels
    /\ cancels' = cancels + 1
    /\ IF isImporting THEN CancelCurrent
       ELSE UNCHANGED << importCts, cancelled, isImporting >>
    /\ UNCHANGED << recordsProcessed, totalRecords, mailbox, live, size, pulled,
                    processed, started, answer, stopped >>

\* Whichever import completed, the actor is no longer importing.
HandleImportCompleted ==
    /\ ~stopped
    /\ mailbox # << >>
    /\ isImporting' = FALSE
    /\ mailbox' = Tail(mailbox)
    /\ UNCHANGED << importCts, recordsProcessed, totalRecords, streams, outside >>

\* PostStop; the streams are children of the actor and end with it.
PostStop ==
    /\ ~stopped
    /\ stopped' = TRUE
    /\ importCts' = None /\ CancelToken
    /\ live' = {}
    /\ mailbox' = << >>
    /\ UNCHANGED << isImporting, recordsProcessed, totalRecords, size, pulled,
                    processed, started, cancels, answer >>

-----------------------------------------------------------------------------
(* The stream of import i.                                                 *)

InFlight(i) == pulled[i] - processed[i]

\* A batch passes the token's flow and enters SelectAsync.
PullBatch(i) ==
    /\ i \in live \ cancelled
    /\ pulled[i] < size[i]
    /\ InFlight(i) < Parallelism
    /\ pulled' = [pulled EXCEPT ![i] = @ + 1]
    /\ UNCHANGED << actor, mailbox, live, cancelled, size, processed, outside >>

\* The oldest batch in flight is done and reaches the sink, which also writes
\* the actor's field.  It may have been done before the token was cancelled.
SinkBatch(i) ==
    /\ i \in live
    /\ InFlight(i) > 0
    /\ processed' = [processed EXCEPT ![i] = @ + 1]
    /\ recordsProcessed' = processed'[i]
    /\ UNCHANGED << isImporting, importCts, totalRecords, mailbox, live,
                    cancelled, size, pulled, outside >>

\* Mutant of PipeToSelf: the result of the task is not piped to the actor.
PipeToSelf_Forgotten(i, success) == UNCHANGED mailbox

\* The task returns; _totalRecords is read from the actor at that moment.
PipeToSelf(i, success) ==
    mailbox' = Append(mailbox, [import |-> i, processed |-> processed[i],
                                total |-> totalRecords, success |-> success])

Return(i, success) ==
    /\ live' = live \ {i}
    /\ PipeToSelf(i, success)
    /\ UNCHANGED << actor, cancelled, size, pulled, processed, outside >>

\* The source is exhausted, or was completed by the token, and nothing is in
\* flight: the stream ends normally.
CompleteStream(i) ==
    /\ i \in live
    /\ InFlight(i) = 0
    /\ pulled[i] = size[i] \/ i \in cancelled
    /\ Return(i, TRUE)

\* A Task.Delay that is in flight, or starts now, sees the cancelled token.
FailStream(i) ==
    /\ i \in live \cap cancelled
    /\ InFlight(i) > 0 \/ pulled[i] < size[i]
    /\ Return(i, FALSE)

-----------------------------------------------------------------------------
Stream(i) ==
    PullBatch(i) \/ SinkBatch(i) \/ CompleteStream(i) \/ FailStream(i)

Next ==
    \/ \E n \in Sizes : HandleStartImport(n)
    \/ HandleGetStatus \/ HandleCancelImport \/ HandleImportCompleted
    \/ PostStop
    \/ \E i \in Imports : Stream(i)

Spec == Init /\ [][Next]_vars

\* The thread pool runs the streams and the dispatcher the actor.
FairSpec ==
    /\ Spec
    /\ \A i \in Imports : WF_vars(Stream(i))
    /\ WF_vars(HandleImportCompleted)

-----------------------------------------------------------------------------
(* Properties.                                                             *)

Completion == [import : Imports, processed : Nat, total : Nat, success : BOOLEAN]

\* Every variable has its type.
TypeOK ==
    /\ isImporting \in BOOLEAN /\ importCts \in Imports \cup {None}
    /\ recordsProcessed \in Nat /\ totalRecords \in Nat
    /\ mailbox \in Seq(Completion)
    /\ live \subseteq Imports /\ cancelled \subseteq Imports
    /\ size \in [Imports -> Nat] /\ pulled \in [Imports -> Nat]
    /\ processed \in [Imports -> Nat]
    /\ started \in 0 .. MaxImports /\ cancels \in Nat /\ stopped \in BOOLEAN
    /\ answer \in [processed : Nat, total : Nat, active : BOOLEAN]

\* No stream is beyond the actor's reach: one that runs and is not cancelled is
\* the one whose token the actor holds, so at most one does, and a stop of the
\* actor leaves none (the _importCts?.Cancel() of HandleStartImport).
NoOrphanStream == live \ cancelled \subseteq {importCts}

\* An actor that says it is importing is: the import whose token it holds runs,
\* or its result is on the way.  It cannot be stuck importing nothing.
ImportingIsBacked ==
    isImporting /\ ~stopped =>
      \/ importCts \in live
      \/ \E k \in 1 .. Len(mailbox) : mailbox[k].import = importCts

\* As long as nothing was cancelled, an actor that is not importing reports a
\* finished import: all of its records, and its own total.
ExactWithoutCancel ==
    cancels = 0 /\ ~isImporting /\ ~stopped => recordsProcessed = totalRecords

\* An import does not keep the actor busy for ever.
ImportEnds == isImporting ~> ~isImporting \/ stopped

\* "Second start should be rejected": no import starts while another, which
\* nobody cancelled, is running.
StartRejectedWhileImporting ==
    [][started' # started => live \subseteq cancelled]_vars

=============================================================================
