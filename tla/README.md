# Akka.NET code samples in TLA+

Specifications of the programs of this repository, the TLC configurations that
check them on small instances, and proofs of their main properties for every
value of their constants. Paths are relative to the directory that holds `src/`.

## The system

The repository is a collection of samples that share a domain (products,
orders, stock) and a toolkit (Akka.NET actors, persistence, sharding, streams).
Each sample is a small distributed program.

| Part | State | Operations | Talks to |
|---|---|---|---|
| Product value (`SqlSharding.Shared/ProductState.cs`, `Events/`) | none, pure | `ProcessCommand`, `ProcessEvent` | the entity |
| Product entity (`ProductTotalsActor.cs`, two copies) | state in memory, journal, snapshots | recovery, commands, queries, passivation | pages and generators (Ask, 3 s), the journal, its shard |
| Child-per-entity parent (CQRS sample) | children | forward | the entities |
| Product projector (`ProductProjectorActor.cs`) | offset, its own journal and snapshots, rows of the read model | recovery, `EventEnvelope`, `ProjectionStarting`, `ProjectionFailed`, `SaveSnapshotSuccess` | a stream of all tagged events, the database |
| Index actors (three) | an index of products, sales or warnings; producers, their demand, one timer each | found, fetched, fetch, retry, demand, terminated | live queries of the journal, the shard region, the consumers |
| Index consumers (three, on each web node) | the page that waits, a stash | fetch, delivery, timeout | the web pages, the index (Akka.Delivery) |
| Batch import (`BatchImportActor.cs`) | flag, token, progress, total | start, status, cancel, completed, stop | a background stream (PipeTo, shared fields) |
| RabbitMQ consumer and product | orders in the stream's hands; orders of a product | deliver, ask, ack, nack | the broker, sharded products |
| Cluster client | next id, router, counts | batches, work, results, reports | another cluster, workers on its nodes |
| Web pages with forms (`Product.cshtml`, `CreateProduct.cshtml`, `jquery.validate.unobtrusive.js`) | texts, rules, messages, posts under way | parse, type, leave, submit, serve | the user, the entity |
| Serializers | none, pure | messages to and from protobuf | everything remote or durable |
| SQL connection checker | a timer | try, retry, terminate | the database |

What is hard in them: a persistent actor stops accepting messages while it
writes, and stops altogether when a write fails; replies, snapshots and
deletions arrive later or never; a stop message is not stashed and overtakes
what is; a stream works on its own thread beside the actor that started it; two
stores that are written one after the other disagree after a crash between; an
actor that is restarted loses its memory and keeps its mailbox; a response does
not say which request it answers; a message is processed again when its first
processing was too late. The list of these hazards, each at its line and with
the properties that watch it, is `hazards` in `PROJECT.json`.

What makes each part correct:

* *Value*: the totals are those of the events; warnings and back orders fit the
  stock that a sale leaves.
* *Entity*: whatever stopped and recovered, the state is the sum of the journal;
  commands are atomic and answered once; a reported sale is durable.
* *Projector*: no event is skipped; the offset never goes back; an event is
  counted twice only by a failure; the rows agree with the entities.
* *Import*: one uncancelled stream at most, the one that can be cancelled; the
  flag and the streams agree; progress is that of the import under way.
* *Index*: after any restart it holds, or has in its mailbox, all that the query
  has sent; a page gets one answer, to its own request unless one timed out.
* *RabbitMQ*: no order is lost before it is acknowledged, none counted twice,
  none forgotten without an answer to the broker.
* *Cluster client*: numbers are unique; a report counts the work that was done.
* *Forms*: what is shown is true of what is typed; script and server agree on
  what is allowed, but for texts that they read differently.

## Modules

| Module | Models | Composition |
|---|---|---|
| `ProductState` | the value: commands, events, state | used by all product modules |
| `ProductLedger` | what an entity promises: commands take effect atomically, one after another, on one durable ledger | abstract specification |
| `ProductTotals` | the entity actor with its mailbox, journal, snapshot store, shard and failures | implements `ProductLedger` |
| `ProductProjector` | the projector with its stream, stores and failures, and the read model | runs on the events of `ProductState`'s commands, appended as `ProductLedger` says |
| `BatchImport` | the import actor and its streams | |
| `ProductIndex` | what an index actor holds, and how it gets it | its restarts are those of `IndexQuery` (`QuerySideThrows`) |
| `IndexQuery` | how a page gets an answer of an index: consumers, controllers, demand, retries | its restarts are those of `ProductIndex` (`ContentsThrow`) |
| `OrderPromise` | a queue whose messages are processed at least once | abstract specification |
| `OrderQueue` | broker, stream of the consumer, products | implements `OrderPromise` |
| `BatchedWork` | front end, gateway, router, workers, counter | |
| `FormValidation` | the forms in the browser, their script, and their handlers on the server | the entity is `ProductTotals`, seen as executing, refusing or losing a command |
| `ProductStateProofs`, `ProductTotalsProofs`, `ProductProjectorProofs`, `BatchImportProofs`, `IndexProofs`, `OrderQueueProofs`, `BatchedWorkProofs`, `FormValidationProofs` | theorems | extend the modules above; the projector's also the value's; `IndexProofs` extends both sides of the index actor |
| `MCProductTotals`, `MCProductProjector`, `MCBatchImport`, `MCProductIndex`, `MCIndexQuery`, `MCOrderQueue`, `MCBatchedWork`, `MCFormValidation` | small instances for TLC | |

A definition named `X_Y` beside a definition `X` is a mutant of it: the bug that
the comment names. It is used to see that a property fails when `X` is replaced
by it, and by nothing else.

### ProductState

`ProcessCommand` has the three `when` branches of the code and its default, and
returns the events; an empty sequence is a refusal. `ProcessEvent` is the switch
over the events. `SortedAdd` is `ImmutableSortedSet.Add` under the `CompareTo`
of the events, which looks at timestamps only. A price is a whole number, on
which the serializer's units and nanos are exact. The quantity of a supply or an
order may be negative: the product page sends what it read without looking at
`ModelState` (`Product.cshtml.cs:43-61`), and nothing behind it tests a quantity.
That of a creation is not, since its page does look. All totals are taken to stay
within 32 bits (`Math.Abs` of the least int would throw). Names, tags and texts
are left out.

### ProductTotals

| Code | Specification |
|---|---|
| `State`, `LastSequenceNr` | `state`, `seqNr` |
| `sentResponse` in the closure of a command | `sentResponse`, with `current` and the rest of the `batch` |
| events and snapshots in SQL Server | `journal`, `snapshots`; `saving` are snapshots not yet stored |
| mailbox and stash | `inbox`; `buffer` is what the shard holds back while it passivates |
| `Recover<SnapshotOffer>`, `Recover<IProductEvent>` | `LoadSnapshot`, `ReplayEvent`, `CompleteRecovery` |
| `Command<IProductCommand>` | `AcceptCommand` (with `PersistAll`), `RefuseCommand` |
| the write and the callback of `PersistAll` | `WriteBatch`, `HandleEvent` (one event each) |
| `Command<FetchProduct>` | `FetchProduct`, with `Passivate` when the state is empty |
| Akka.NET | `Start`, `SendPoisonPill`, `ReceivePoisonPill`, `PersistenceFailure`, `NodeCrash` |

The events of a command are written in one transaction. A failed write stops the
actor, and may have been committed; this is `WriteBatch` followed by
`PersistenceFailure`. `history`, `executed` and `dropped` are history variables:
no action reads them.

`Linearizable` is `ProductLedger!Spec` with the journal as the ledger and the sum
of the whole journal as the product. The entity reads and judges on its state in
memory, which is behind the journal while a batch is handled: that nothing looks
at it then is what the refinement says.

### ProductProjector

The write side is one action, `Publish`: a product executes a command. This is
what `ProductTotals` implements; `MessageTagger` tags every event. Offsets are
positions in that sequence. `ReceiveEnvelope`, `TryProcess` or `AttemptFails`,
`WriteOffset` and `Acknowledge` are the steps of one event, between any two of
which the process can die. An attempt that fails may have committed its row.
A throw restarts the actor: its memory and stream are gone, its mailbox is not;
a failure of its own journal stops it, and only `Start`, a new process, brings it
back. The purge of messages and that of snapshots reach the stores separately.
That the stream delivers the tagged events in order and without gaps is the
promise of the read journal, and assumed.

### BatchImport

The handlers run one at a time; the streams' actions interleave with them freely
and touch the actor's fields as the code does: `SinkBatch` writes
`recordsProcessed`, `PipeToSelf` reads `totalRecords`. `CompleteStream` and
`FailStream` are both possible for a cancelled stream, since the token completes
the source and the delays of the batches in flight observe it too. Records are
counted in batches.

### ProductIndex and IndexQuery

One actor, seen from its two sides, which share no name so that one module can
extend both. The three index actors share their code but for what they collect;
`kind` says which one `ProductIndex` is.

| Code | Specification |
|---|---|
| the live query with its `Sink.ActorRef` | `Tag`, `Emit`, `FailStream`; elements come without backpressure |
| the handlers of `ProductFound`, `SoldProductFound`, `WarningEventFound` | `HandleFound`, which asks the shard region for the product |
| the entity's `FetchResult` | `Answer` or `Lose`, then `HandleResult` |
| exception, supervision, `PreStart` | `StartOver`, and `Restart` of `IndexQuery`: memory, timers, stream and children are gone, the mailbox is kept, the query starts again from its beginning |
| `FetchAllProductsConsumer` and its siblings | `ReceiveFetch`, `StashFetch`, `ReceiveDelivery`, `RequestTimeout` |
| `ReceiveFetchProducts`, `RetryRequest` and its timer | `HandleFetch`, `HandleRetry`, `ReceiveFetchProducts` |
| `RequestNext`, `Terminated` | `HandleRequestNext`, `HandleTerminated` |
| Akka.Delivery's controllers (external) | `AskForNext`, `Deliver`, `Stopped`, with `wanted` and `Window` |

A response is represented by the page it was made for, which the code does not
know: this is how `OnlyATimeoutShifts` can say that a page got another's answer.
`ContentsThrow` and `QuerySideThrows` compose the two modules: each side may be
restarted at any time by an exception of the other. Whether an aborted stream
tells its sink is left to the build of Akka.Streams, and both are checked.

### OrderQueue

`broker` is the queue's view of an order, `handler` that of the stream, `request`
the `CreateOrder` of the Ask under way, and `stale` the messages of Asks that are
over. `Deliver` is the source with its buffer of twice the parallelism; `Ask`,
`ReceiveReply`, `TimeOut`, `Ack`, `AckFails` and `Nack` are the steps of the
`SelectAsync` stage in and outside of its `try`. `StreamFails` is an exception
outside of it, after which nothing starts the stream again but a `Handover` of
the singleton. A product accepts or drops an order (`AcceptOrder`, `DropOrder`
and their `Stale` variants), and forgets all of them in `CrashProduct`.
`AtLeastOnce` is `OrderPromise!Spec`: an order is processed at least once, and
before it leaves the queue.

### BatchedWork

`RequestBatch` is the front end's timer, `HandleBatch` the loop that numbers the
pieces and hands them to the round-robin router, `SendResult` and `SendComplete`
the two messages that a worker sends one after the other, `CountWork` and
`SendReport` the counter. Nodes join (`NodeJoins`), go down (`NodeGoesDown`) and
are later removed from the router (`NodeRemoved`); the gateway's process starts
again with a new manager and counter (`RestartGateway`); a message is lost
(`LoseMessage`). `worked` and `received` are history.

### FormValidation

The script of the page turns the `data-val-*` attributes into rules (`Parse`,
`Adapt`, `AddMinMax`), and shows or clears a message per input (`onError`,
`onSuccess`) as the user types (`Type`), leaves an input (`Leave`) or posts
(`Submit`). `Binds`, `Meets` and `ModelStateIsValid` are the server's model
binding and validation, which only the page that creates a product looks at
(`TestsModelState`). `Execute`, `Refuse` and `LoseIt` are what becomes of a
command; `Confirm`, `BadRequest` and `TimeOut` what the page returns; `Receive`
the new document.

A text is what its readers make of it: its length, whether it is blank, whether
it matches the regular expression of jquery.validate's `number`, and the numbers
that JavaScript's comparison, the reader of an int and that of a decimal see in
it, or `NaN`. Numbers are in quarters, which suffices for what lies below, at and
above a half. These readings differ, and `Passes` and `Binds` follow each side:

| Text | The script | The server |
|---|---|---|
| `1e3`, `5.`, `1.0` as a quantity | a number in the range, since `>=` and `<=` coerce (`jquery.validate.js:1447`) | not read: the int stays 0 |
| `1.5` as a quantity | in the range | not read: 0 |
| six blanks as a name | not empty (line 1374), and long enough | nothing, `[Required]` rejects it |
| `0.999...` as a price, with more nines than a double holds | 1 | a decimal below 1, which `RangeAttribute` rounds to 1 before it compares |

The methods of `jquery.validate.js` are translated, like the adapters of the
unobtrusive script; the browser, model binding and the attributes' own tests are
external. The browser lets fewer texts into the quantity of a new product, whose
input is of type `number`, than the model does. A price beyond 32 bits makes
`RangeAttribute` throw: the error page that follows is taken as a rejection.

## Runs

| Run | Expected | What it shows |
|---|---|---|
| `ProductTotals_sales` | pass | exact recovery, true, durable and single replies, right warnings, no loss without a race, refinement of the ledger |
| `ProductTotals_stock` | pass | totals are the sums over the journal; every message is answered or dies with the actor |
| `ProductProjector_safety` | pass | nothing skipped, double counts bounded by failures, offset monotone, rows agree with the entities; every event is projected unless the projector stops |
| `ProductProjector_exact` | violation | a failure between commit and offset counts an event twice |
| `BatchImport_safety` | pass | one reachable stream, flag backed by a stream, exact without cancellation; an import ends |
| `BatchImport_start` | violation | the stale completion of a cancelled import lets a second start through |
| `ProductIndex_safety` | pass | after restarts, failed streams and lost answers nothing the stream sent is missing, and what is listed twice was in the mailbox at a restart; data comes |
| `IndexQuery_safety` | pass | no page is lost or served twice, only a timeout shifts answers, responses in the order of requests; every page settles, and no dead node is kept |
| `OrderQueue_safety` | pass | every delivery is in hand, no order counted twice, at least once (refinement); the queue drains while the stream runs |
| `OrderQueue_stuck` | violation | a stream that failed leaves the queue full for good |
| `BatchedWork_safety` | pass | a number stands for one work, reports never shrink or exceed the work; without faults counter and front end agree |
| `FormValidation_safety` | pass | messages follow the texts; script and server agree but for texts that they read differently, and a command out of bounds has one of the known causes |

**Bounds.**

| Run | Instance |
|---|---|
| `sales` | creation and 2 orders of one instant, 1 query, a snapshot every 2 events, 1 failure |
| `stock` | creation, supply of -4, order; 2 timestamps, so that they also collide; a snapshot every 3; 1 query, 2 failures |
| `projector` | 2 products, 3 commands (7 events), 2 attempts, a snapshot every 2 offsets, 2 failures |
| `projector_exact` | 1 product, the code's 3 attempts and snapshot every 10, 1 failure |
| `import`, `import_start` | 3 imports of 1 or 2 batches, 2 in flight, 2 cancellations |
| `index` | 3 kinds, 2 products, 3 events of which the first two have one instant, a mailbox of 3, 2 requests for a product under way, 1 failure, 1 lost request, aborted streams with and without a notice |
| `query` | 2 consumers, 3 pages (2 on the first), 3 attempts, a window of 2, 1 fault |
| `orders_queue` | 2 orders of 1 product, parallelism 1, 1 stale message of each, 1 fault, 1 handover, 1 crash |
| `orders_stuck` | the same without handover and crash |
| `work` | 2 workers, 2 batches of 2, 2 lives of the gateway, 2 reports, 1 fault |
| `form` | 2 posts not settled; a quantity in, and one above, its bounds, and `1e3`; names of 5 and 6 letters and of 6 blanks; a price of 1, and one just below it |

They are enough for the interesting cases: a snapshot falls inside a batch and
between two; a purchase has up to three events, so that a crash finds the
handling of a batch begun and unfinished; the stock of 5 with orders of 3 and 2
reaches the warning threshold and zero; two failures let a recovery itself fail,
or the attempts on one event be used up; three imports let a stale completion hit
a second import and a third one start; a restarted index has messages of its
earlier life before and after those of its stream; two pages on one consumer let
an answer come late, and the third is another node's; one order waits in the
buffer while another is asked for, and a stale message of it arrives meanwhile; a
batch is larger than the workers it finds, or finds none, and a node goes down
between two messages of one work; two posts let a user order again while the
first order is on its way. `SnapshotEvery` is 10, `MaxRetryAttempts` 3 and
`MaxParallelism` 50 in the code and its settings; smaller values bring the same cases nearer.
`MaxFailures`, `MaxFaults`, `MaxImports`, `MaxCancels`, `MaxStale`, `MaxReports`
and the like bound behaviours that are otherwise infinite. Deadlock is not
checked: all inputs may have been sent and handled, and the programs then rest.

**Fairness.** `ProductTotals!FairSpec` and `ProductProjector!FairSpec` have weak
fairness of the actor's own work: a dispatcher runs an actor that has something
to do, and the stores answer. Sending, failures, snapshots, purges and the start
of a process have none. `BatchImport!FairSpec` has weak fairness of each stream
(its thread, and timers of 100 ms) and of the handling of a completion. A stream
may not be starved by another, hence one condition per stream.
`FairContents` of `ProductIndex` lets the stream emit, the actor run and each entity
answer what it is asked. `IndexQuery!FairSpec` has one weak condition for the
index, for each consumer's mailbox, each timer, each controller's steps and the
notice of a death; none for pages, faults or deaths. `OrderQueue!FairSpec` needs
strong fairness of `Deliver`, `Ask`, `AcceptOrder` and `ReceiveReply`: a slot of
the stream opens and closes again and again, and a product answers each request
with a coin and within 3 seconds, or not; an order that is asked for over and over
is in the end delivered, accepted and answered in time. `TimeOut`, `Ack` and
`Nack` are weakly fair. Forms and batched work are checked for safety: a user
need not post, and a lost message has no second try.

## What disagrees with the documentation

Three are violation runs; `findings` in `PROJECT.json` quotes the lines.

1. A read model row and the projector's offset are committed separately, and the
   update is an addition: one failure in between counts an event twice
   (`ProductProjectorActor.cs:112`, against `cqrs-sqlserver/README.md:31`).
2. `ImportCompleted` does not say which import it is of. The late completion of a
   cancelled import clears the flag of the next: a second start is accepted
   (`BatchImportActor.cs:138`, against `BatchImportActorSpecs.cs:108`).
3. The RabbitMQ stream fails with its source, or by an exception of `FromBinary`
   or `Nack`, which stand outside of the `try`, and nothing starts it again
   (`RabbitMqConsumerActor.cs:79`, against `rabbitmq-backpressure/README.md:134`
   and the comment at line 74). In the run's trace it fails with no order in hand.

Met while modelling, visible in the models, without a run of their own:

* Orders are compared by timestamp, so that a second order of the same instant is
  missing from the state although its revenue is counted
  (`ProductEvents.cs:21-26`, against `sharding-sqlserver/README.md:65`).
* A cancellation can find "no import in progress" while one runs, after a stale
  completion (`BatchImportActor.cs:120`, against `long-running-tasks/README.md:29`).
  The next start cancels it, which `NoOrphanStream` confirms.
* The progress field is written by every stream, also that of a cancelled import
  (`BatchImportActor.cs:91`, against the comment at line 90).
* A response that arrives after its page's timeout answers the next page of the
  same node (`FetchAllProductsConsumer.cs:71`); `OnlyATimeoutShifts` says that
  nothing else does it.
* `RequestNext` of a controller that was already forgotten makes the index throw
  and start over (`ProductIndexActor.cs:55`); `UndisturbedIndexWorks` says that
  this takes a node that went down or another failure.
* A restarted product index that finds messages of its earlier life throws again
  (`ProductIndexActor.cs:40`), once for each of them.
* The task of an Ask that timed out makes room for another, while its message is
  still in the product's mailbox: more than `MaxParallelism` messages can be out
  for processing (`RabbitMqConsumerActor.cs:82`, against
  `rabbitmq-backpressure/README.md:67`).
* The product page does not look at `ModelState`: a post from before the script
  was ready, or a text like `1e3` that the script takes for a number and the
  server cannot read, orders a quantity of 0 or one out of bounds
  (`Product.cshtml.cs:43-46`). `OutOfBoundsHasACause` says that every such order
  has one of these causes; what a negative order then does to the totals is in
  `ProductTotals`: it adds stock, counts as sold, and lowers the revenue.
* The page that creates a product lets a price pass that rounding brings into its
  bounds, and shows an error that the script did not for a name of blanks.

## Proofs

All are theorems about every value of the constants (sets of commands, queries,
orders and workers, intervals, degrees of parallelism, bounds on failures), from
the named assumptions of the modules only.

*Value* (`ProductStateProofs`). `ProcessEventType`: an event takes states to
states and what was sold never shrinks, whatever the sign of the event's quantity
(stock and revenue have no such direction). `ProcessCommandType`
types the events of a command and bounds their number by three.
`PurchaseEndsInSale`: an accepted purchase ends in its sale. `UnfoldSteps`: the
states of a batch follow from each other by `ProcessEvent`. `Total`, the sum of
the first amounts of a function, is recursive over the naturals. That it exists,
and what it makes of equal, changed and more amounts (`TotalsExist`,
`TotalOfSame`, `TotalOfChange`, `TotalOfMore`, `TotalOfNaturals`), is proved from the least
counterexample: `NoLeast` says that a set of naturals in which every element has
a smaller one is empty, which does for each of these facts what an induction
rule would.

*Entity* (`ProductTotalsProofs`). `StateIsSumOfEvents` and `RepliesAreTrue` are
not inductive. `IInv` adds what each phase of the actor knows (`PhaseInv`: an
idle or writing actor is up to date, a batch being handled is the tail of the
journal, nobody was answered before `sentResponse`) and where a message can be
(`MailInv`: waiting in one place, and untouched until it is handled),
`ReplyInv`, and two for properties about the past. `SaleInv` says of the journal
that a sale is never first, and `SalesJudgedOnRealStock` itself: a batch is computed from the state
after the last event (`WriteIsJudged`), and its change of stock is written before
its sale (`SalesAreJudgedRight`). `RaceInv` says how a stop without a failure comes
about: a query saw the product missing, the pill is the last message, an actor
that is not busy holds no command, and whatever was executed or created includes a
`CreateProduct` (`OnlyARaceLoses`).
Each action preserves each part; `Invariance` combines them. `TypeCorrect`,
`RecoveryIsExact` and `TrueReplies` follow. `TotalsAreSums` follows from
`StateIsSumOfEvents` alone, since each event moves stock, sold units and revenue
by its own amounts: it holds at any length of the journal, whatever
timestamps coincide, and for quantities of either sign. `ActorImplementsLedger`
shows that, under `IInv`, `WriteBatch` is the ledger's `Execute`, the first
`HandleEvent` of a batch its `Confirm`, `RefuseCommand` its `Refuse`,
`FetchProduct` its `Read`, and every other action a stutter.

*Projector* (`ProductProjectorProofs`). `ProductCommandsAssumption` leaves out
negative quantities: the pages of this sample only show, and its only source of
orders is a generator that draws from 1 to 99 (`FakeDataGenerator.cs:76`). The units sold of
a row and of a product agree for these only, since one adds the quantity and the
other its absolute value. A single purge that came too early would
lose the offset, so `NothingSkipped` needs to know the stores. `IInv` adds:
`StoreInv`, positions in the two stores are monotone and the last written one is
in one of them; `PurgeInv`, whatever is to be deleted lies behind a snapshot that
stays; `ActorInv`, what the projector knows of the stores in each phase;
`WriteInv` and `RowInv`, the events of a product begin with its only creation,
and a row exists when that was applied, so that no event finds its row missing.
`Invariance` gives `NoEventIsSkipped`; `OffsetIsKept` is the action property
`OffsetNeverRegresses`. `DoubtStaysBounded` has two halves: an event that was
applied is at most the one after the recoverable offset; and a sum over all
events, in which one more count of an event in doubt takes the failure that put
it there (`CostInv`, with the lemmas about `Total`). For `ReadSideAgrees`, `ViewInv`
says that there is a view of the rows for each number of events, each view the one
before with one event projected and the last one a mirror of the products, and
that the rows are the view after the recoverable offset, or one further while the
event in hand was applied and its offset is not written, as long as none was
counted twice. A projector that has caught up has nothing in hand, so the rows are
the last view. `OnlyAFailureCountsTwice` is what is left of `ReadModelIsExact`, which
a run violates: while nothing has failed it holds, and an event is never counted
more often than once and once for each failure.

*Import* (`BatchImportProofs`). `NoOrphanStream` and `ImportingIsBacked` are
inductive with `TypeOK`; the crux is that `BeginImport` cancels the token that it
replaces, and that a stream's return puts into the mailbox what `live` loses.
`Exact` takes that, until the first cancellation, either one stream runs, that of
the latest import, and the actor's fields are its counts, or none runs, the
progress is the total and the completion at most still to be read (`OneAtATime`);
a number not yet given has no stream, no cancellation and no records (`Fresh`).
`AStartCancelsTheOthers` is what is left of `StartRejectedWhileImporting`, which a
run violates: a start that is accepted while another stream is live cancels it in
the same step.

*Index queries* (`IndexProofs`, first part). A page's fate is spread over its consumer's
mailbox, stash and turn, the index's inbox, retry and last answer, and the
controllers' window, and none of these properties is inductive without the
others. `IInv` has eight parts: `LineInv`, the pages of a consumer stand in the
order in which they asked, the stash before the mailbox and the turn before the
stash; `WaitInv`, a page waits if and only if it stands there; `ChainInv`,
requests, the retry, the last answer, responses on their way and the one being
delivered are in the same order, each page in one of them; `MadeInv`, nothing of
a page is ahead of its turn; `PunctualInv`, while no page of the consumer timed
out, what is under way is for the page whose turn it is; `OnlyATimeoutShifts`
itself; `DemandInv`, while nothing disturbs it the index knows exactly the
active controllers, and a demand that it holds, or that is on its way to it, is
one that its controller has, and not both; and `TypeOK`. `NoPageIsLost` counts
by cardinality the places of a page, of which `LineInv` leaves one.
`AnswersAreForTheirPage` is the point where order and turn meet: a delivered response is under way, hence the turn's. `InOrder`
(`ResponsesInOrder`) is an action property from `ChainInv`, `IndexWorks` follows
from `DemandInv`. That a retry, of which the handler keeps one per consumer, makes
no second response is `ChainInv`'s clause on the retry: it lies between the last
answer and all requests that still come.

*Index contents* (`IndexProofs`, second part). `ContentsAccount` speaks of what is
shown and of what waits, and needs to know that both are about events that exist,
and that an entry lists only those of its product (`GivenInv`). With that and
`ContentsTypeOK` it is inductive (`ContentsInv`). An index and its mailbox are lists with
repetitions; how often an event stands in one is the cardinality of the places
where it does, and the lemmas say what an appended, a taken and a missing element
make of that number. The step that decides is `HandleFound`: the message leaves
the mailbox and its event enters the entry, so that the sum that `SalesAccount`
gives stays; a restart moves what waits into `left`. `ContentsAreTyped` and
`ContentsAreAccounted` follow, and so does `SalesAreExact`: at any moment at which
no event waits and none waited at the last restart, the sales page lists each sale
that was sent once, for its product, and no other.

*Orders* (`OrderQueueProofs`). `DeliveriesAreHeld` and `CountedOnce` are proved
with what a handler that acknowledges knows, and from them `QueueKeepsItsPromise`:
the queue, its stream and its products implement `OrderPromise`, whatever is
dropped, repeated, late or handed over.

*Work* (`BatchedWorkProofs`). Two inductive invariants. `WorkInv` follows a work:
the router's list has each worker once (`RouterInv`), every number in use was
given (`NumberInv`), it is in one place of one mailbox and has no result before it
is done (`PlaceInv`), and before the first fault what was done is counted or about
to be, and arrived or about to (`AccountInv`, where sums are cardinalities of
`Units`). A batch gives numbers by the rounds of the router: the arithmetic of
the rounds (`Rounds`, `RoundBound`, `Turning`) shows that no number is given twice,
whatever the number of workers and the size of a batch. `TypeCorrect`,
`NumbersAreUnique` and `AccountsAgree` follow. `TruthInv` is for `TrueReports`: what
the counter has counted, what is on its way to it and the message a worker still
owes never exceed what the worker did, and the reports on their way are in order
and of this life of the gateway.

*Forms* (`FormValidationProofs`). `MessagesAreRight` and `BoundsHold`, for all
texts, whatever their readers make of them, and any number of open posts. The
second rests on the rules being those of the attributes once a form has its
validator, so that a text which both sides read alike and the script lets pass
also meets the server's tests. What it says of other texts is only which posts
they can be in.

Only model-checked: the liveness properties (`EverythingIsSettled`,
`EverythingIsProjected`, `ImportEnds`, `CaughtUp`, `NothingIsLeftBehind`,
`DrainsWhileItRuns`), since the prover does neither fairness nor `ENABLED`; and the
three violations, which are counterexamples on an instance. All invariants of the passing runs, their action
properties and their two refinements are theorems.

## Not modelled

* *Product entity of the CQRS sample*: the value and the handlers are those of the
  sharding sample and are modelled once. Its parent swallows `Passivate`, for
  which its extractor finds no id, so that an entity is never passivated; this is
  the case in which `ProductTotals` does not take that step.
* *Serializers*: field by field copies with a switch over manifests. No state and
  no order of steps; decimals as units and nanos are exact on whole prices.
* *SQL connection checker*: one retry loop with a timer, and no second actor.
* *Test data generators*: their commands are the inputs of `ProductTotals`.
* *Rendering*: Blazor components, page layout and the other vendored scripts. Of
  the validation script, `onErrors` and `onReset` have nothing to act on in these
  pages, and the adapters that no attribute names are left out.
* *Overflow*: quantities and totals are integers without a width.
* *Negative quantities in the CQRS sample*, which has no source of them.
* *Dependency injection sample* (no state), *hosting, Aspire projects,
  migrations* (configuration, or generated).
* What Akka.NET, RabbitMQ and SQL Server do (mailboxes, stashing, sharding,
  persistence, streams, delivery, queues) is modelled as this code relies on it,
  and marked external in the map.
