----------------------------- MODULE BatchedWork -----------------------------
(***************************************************************************)
(* The cluster client sample: a front end asks the gateway of a cluster    *)
(* for batches of work; WorkerManagerActor numbers the pieces and its      *)
(* router forwards them in turn to the workers of the nodes; a worker      *)
(* sends its result to the front end and a WorkComplete to the counter of  *)
(* the gateway, which answers the front end's requests for a report.       *)
(*                                                                         *)
(* A node brings one worker here (10 in the code), and its address is new  *)
(* each time it starts.  Messages between two actors arrive in order, or   *)
(* not at all.                                                             *)
(***************************************************************************)
EXTENDS Integers, Sequences, FiniteSets

CONSTANTS Workers,      \* one worker each; within a life of the gateway none comes back
          BatchSize,    \* size of a BatchedWork
          MaxBatches,   \* bound on the batches of one run
          MaxLife,      \* bound on the lives of the gateway's process
          MaxReports,   \* bound on reports
          MaxFaults     \* bound on nodes that go down and messages that are lost

ASSUME BoundsAssumption ==
    /\ IsFiniteSet(Workers)
    /\ BatchSize \in Nat \ {0} /\ MaxBatches \in Nat /\ MaxLife \in Nat \ {0}
    /\ MaxReports \in Nat /\ MaxFaults \in Nat

VARIABLES
    batches,    \* batches that were asked for
    received,   \* of each work: how often the front end got its result
    report,     \* the last Report that WorkReportCollector got
    toManager,  \* BatchedWork messages on their way to the manager
    life,       \* which life of the gateway's process this is
    nextId,     \* _nextId, static in WorkerManagerActor
    routees,    \* the router's workers, the next one first
    counts,     \* MetricCounterActor.counts, 0 where there is no entry
    asked,      \* SendReport messages that the counter got
    reports,    \* Report messages on their way
    joined,     \* workers that were deployed in this life
    alive,      \* those that run
    mailbox,    \* of each worker: its Work messages
    told,       \* workers that have sent the result of their work and no WorkComplete yet
    worked,     \* history: of each worker: the results it has sent
    results,    \* Result messages on their way to the front end
    completes,  \* of each worker: WorkComplete messages on their way
    faults

client  == << batches, received, report >>
manager == << life, nextId, routees >>
counter == << counts, asked, reports >>
workers == << joined, alive, mailbox, told, worked >>
vars    == << client, manager, counter, workers, toManager, results, completes, faults >>

Work   == 1 .. MaxBatches * BatchSize
None   == [w \in Workers |-> 0]
Report == [life : 1 .. MaxLife, counts : [Workers -> Nat]]

Init ==
    /\ batches = 0 /\ received = [x \in Work |-> 0]
    /\ report = [life |-> 1, counts |-> None]
    /\ toManager = 0 /\ life = 1 /\ nextId = 1 /\ routees = << >>
    /\ counts = None /\ asked = 0 /\ reports = << >>
    /\ joined = {} /\ alive = {} /\ mailbox = [w \in Workers |-> << >>]
    /\ told = {} /\ worked = None
    /\ results = {} /\ completes = None
    /\ faults = 0

-----------------------------------------------------------------------------
(* The front end.                                                          *)

\* The timer fires, and its handler starts it again.
RequestBatch ==
    /\ batches < MaxBatches
    /\ batches' = batches + 1
    /\ toManager' = toManager + 1
    /\ UNCHANGED << received, report, manager, counter, workers, results, completes, faults >>

ReceiveResult(x) ==
    /\ x \in results
    /\ results' = results \ {x}
    /\ received' = [received EXCEPT ![x] = @ + 1]
    /\ UNCHANGED << batches, report, manager, counter, workers,
                    toManager, completes, faults >>

ReceiveReport ==
    /\ reports # << >>
    /\ report' = Head(reports) /\ reports' = Tail(reports)
    /\ UNCHANGED << batches, received, manager, counts, asked, workers,
                    toManager, results, completes, faults >>

-----------------------------------------------------------------------------
(* The gateway.                                                            *)

NodeJoins(w) ==
    /\ w \notin joined
    /\ joined' = joined \union {w} /\ alive' = alive \union {w}
    /\ routees' = Append(routees, w)
    /\ UNCHANGED << client, life, nextId, counter, mailbox, told, worked,
                    toManager, results, completes, faults >>

\* Mutant of Pieces: the loop goes one too far.
Pieces_OneMore == BatchSize + 1

Pieces == BatchSize

\* Mutant of Number: the counter is incremented once for the batch.
Number_OfBatch(k) == nextId

\* new Work(_nextId++)
Number(k) == nextId + k - 1

\* Where a worker stands in the router's list.
Place(w) == CHOOSE p \in DOMAIN routees : routees[p] = w

\* The works of a batch that go to a worker: one in each round of the router.
Share(w) ==
    LET n == Len(routees)
    IN  [j \in 1 .. (Pieces + n - Place(w)) \div n |-> Number(Place(w) + (j - 1) * n)]

\* The loop over the batch.  What is forwarded to a worker that is down is lost.
Forward == [w \in Workers |-> mailbox[w] \o IF w \in alive THEN Share(w) ELSE << >>]

\* The router's list, the worker first whose turn comes after the batch.
Turned == [k \in DOMAIN routees |-> routees[1 + ((k - 1 + Pieces) % Len(routees))]]

\* Without a worker the router drops what it gets.
HandleBatch ==
    /\ toManager > 0
    /\ toManager' = toManager - 1
    /\ nextId' = nextId + Pieces
    /\ IF routees = << >> THEN UNCHANGED << mailbox, routees >>
                          ELSE mailbox' = Forward /\ routees' = Turned
    /\ UNCHANGED << client, life, counter, joined, alive, told, worked,
                    results, completes, faults >>

\* Mutant of Counted: the entry of a worker is started anew.
Counted_Anew(n) == 1

Counted(n) == n + 1

CountWork(w) ==
    /\ completes[w] > 0
    /\ completes' = [completes EXCEPT ![w] = @ - 1]
    /\ counts' = [counts EXCEPT ![w] = Counted(@)]
    /\ UNCHANGED << client, manager, asked, reports, workers, toManager, results, faults >>

\* Mutant of SendReport: the counter starts again after each report.
SendReport_Empties ==
    /\ asked < MaxReports
    /\ asked' = asked + 1
    /\ reports' = Append(reports, [life |-> life, counts |-> counts])
    /\ counts' = None
    /\ UNCHANGED << client, manager, workers, toManager, results, completes, faults >>

\* A SendReport of the front end's timer, which may have been on its way for any time.  The
\* report has a copy of the counts.
SendReport ==
    /\ asked < MaxReports
    /\ asked' = asked + 1
    /\ reports' = Append(reports, [life |-> life, counts |-> counts])
    /\ UNCHANGED << client, manager, counts, workers, toManager, results, completes, faults >>

\* The router is told of a node that went down some time ago.
NodeRemoved(w) ==
    /\ w \in {routees[k] : k \in DOMAIN routees} \ alive
    /\ routees' = [k \in 1 .. Len(routees) - 1 |->
                      routees[IF k < Place(w) THEN k ELSE k + 1]]
    /\ UNCHANGED << client, life, nextId, counter, workers, toManager, results,
                    completes, faults >>

\* The gateway's process ends and starts again, with a new manager, router and counter.
\* Front end and workers reach each other through a tunnel of the old process: whatever the
\* old workers still do is lost.  Results that have passed the tunnel count as received
\* before; the front end only logs them, and `received' begins again with the numbers.
RestartGateway ==
    /\ life < MaxLife
    /\ life' = life + 1 /\ nextId' = 1 /\ routees' = << >>
    /\ counts' = None /\ reports' = << >> /\ UNCHANGED asked
    /\ joined' = {} /\ alive' = {} /\ told' = {} /\ worked' = None
    /\ mailbox' = [w \in Workers |-> << >>]
    /\ toManager' = 0 /\ results' = {} /\ completes' = None
    /\ received' = [x \in Work |-> 0]
    /\ UNCHANGED << batches, report, faults >>

-----------------------------------------------------------------------------
(* The workers.                                                            *)

\* The work is done: its result first, which leaves the WorkComplete to be sent.
SendResult(w) ==
    /\ w \in alive \ told /\ mailbox[w] # << >>
    /\ results' = results \union {Head(mailbox[w])}
    /\ worked' = [worked EXCEPT ![w] = @ + 1]
    /\ told' = told \union {w}
    /\ UNCHANGED << client, manager, counter, joined, alive, mailbox,
                    toManager, completes, faults >>

\* Mutant of Completed: a second message for the same work.
Completed_Twice(n) == n + 2

Completed(n) == n + 1

SendComplete(w) ==
    /\ w \in told
    /\ completes' = [completes EXCEPT ![w] = Completed(@)]
    /\ told' = told \ {w}
    /\ mailbox' = [mailbox EXCEPT ![w] = Tail(@)]
    /\ UNCHANGED << client, manager, counter, joined, alive, worked,
                    toManager, results, faults >>

\* A node goes down, perhaps between the two messages.
NodeGoesDown(w) ==
    /\ w \in alive /\ faults < MaxFaults
    /\ faults' = faults + 1
    /\ alive' = alive \ {w} /\ told' = told \ {w}
    /\ mailbox' = [mailbox EXCEPT ![w] = << >>]
    /\ UNCHANGED << client, manager, counter, joined, worked, toManager, results, completes >>

\* A connection breaks, with a result or a WorkComplete on it.
LoseMessage ==
    /\ faults < MaxFaults
    /\ faults' = faults + 1
    /\ \/ \E x \in results : results' = results \ {x} /\ UNCHANGED completes
       \/ \E w \in Workers : /\ completes[w] > 0
                             /\ completes' = [completes EXCEPT ![w] = @ - 1]
                             /\ UNCHANGED results
    /\ UNCHANGED << client, manager, counter, workers, toManager >>

-----------------------------------------------------------------------------
WorkOf(w) == SendResult(w) \/ SendComplete(w)

Next ==
    \/ RequestBatch \/ HandleBatch \/ SendReport \/ ReceiveReport
    \/ \E x \in Work : ReceiveResult(x)
    \/ \E w \in Workers :
        \/ NodeJoins(w) \/ WorkOf(w) \/ CountWork(w)
        \/ NodeGoesDown(w) \/ NodeRemoved(w)
    \/ RestartGateway \/ LoseMessage

Spec == Init /\ [][Next]_vars

-----------------------------------------------------------------------------
(* Properties.                                                             *)

\* Every variable has its type, the numbers that were given are those of the batches that
\* this gateway handled, and only a worker with a work has sent a result.
TypeOK ==
    /\ batches \in 0 .. MaxBatches
    /\ received \in [Work -> Nat] /\ report \in Report
    /\ life \in 1 .. MaxLife /\ nextId \in 1 .. (batches - toManager) * BatchSize + 1
    /\ counts \in [Workers -> Nat] /\ asked \in 0 .. MaxReports
    /\ reports \in Seq(Report) /\ toManager \in 0 .. batches
    /\ alive \subseteq joined /\ joined \subseteq Workers
    /\ alive \subseteq {routees[k] : k \in DOMAIN routees}
    /\ mailbox \in [Workers -> Seq(Work)] /\ worked \in [Workers -> Nat]
    /\ told \subseteq {w \in alive : mailbox[w] # << >>}
    /\ results \subseteq Work /\ completes \in [Workers -> Nat]
    /\ faults \in 0 .. MaxFaults

\* A number stands for one work: it is given once in a life of the gateway, and its work or
\* its result is in one place, so that the front end gets at most one result of it.
Places(x) ==
    {w \in Workers : \E k \in DOMAIN mailbox[w] : mailbox[w][k] = x /\ ~(k = 1 /\ w \in told)}
OneResultPerWork ==
    /\ \A x \in Work :
        Cardinality(Places(x)) + Cardinality(results \intersect {x}) + received[x] <= 1
    /\ \A w \in Workers : \A j, k \in DOMAIN mailbox[w] :
        mailbox[w][j] = mailbox[w][k] => j = k

\* The report that arrived last, those on their way, and the counts as they are now: each
\* counts no worker less than the one before it in this life of the gateway, and none
\* counts more than the worker has done, in whatever order results, counts and reports
\* arrive.
Reports == << report >> \o reports \o << [life |-> life, counts |-> counts] >>
ReportsAreTrue ==
    \A j, k \in DOMAIN Reports : j <= k /\ Reports[j].life = life =>
        \A w \in Workers : /\ Reports[j].counts[w] <= Reports[k].counts[w]
                           /\ Reports[k].counts[w] <= worked[w]

\* When nothing was lost and nothing is under way, counter and front end agree: the counts
\* are what each worker has done, and their sum is the number of results that arrived.
\* (Units has an element for every unit of every count.)
Units(c) == UNION {{w} \X (1 .. c[w]) : w \in Workers}
Quiet ==
    /\ told = {} /\ completes = None /\ results = {}
    /\ \A w \in Workers : mailbox[w] = << >>
EverythingIsCounted ==
    Quiet /\ faults = 0 =>
        /\ counts = worked
        /\ Cardinality(Units(counts)) = Cardinality({x \in Work : received[x] > 0})

=============================================================================
