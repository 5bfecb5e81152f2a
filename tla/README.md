# Outbox pattern: verification project

TLA+ models of the program in this repository (the `api`, `db` and `utils`
packages), TLC runs that check them on small instances, and TLAPS proofs about
them for instances of every size.

    tlc -config WelcomeEmailQueue.cfg WelcomeEmailQueue     # one of the runs
    tlapm OutboxDispatchProofs.tla                          # the proofs of a module

`PROJECT.json` lists the components, the runs with what each checks, the source
lines behind every definition, the findings, the hazards and the theorems.

## 1. The system

Three kinds of process share one PostgreSQL table and one BullMQ queue in Redis
(`api/ecosystem.config.js` starts them, several API processes, one of each worker).

| part | state | operations | talks to |
|---|---|---|---|
| API, create user (`createUsers/endpoints`) | a transaction on a pooled connection per request | connect, begin, map, INSERT user, INSERT outbox row, commit; on any error roll back; release | outbox table |
| cron process (`createUsers/job`, `events/publish/SendEmail`) | overlapping runs ("ticks"), each with one connection, one transaction and the entities it read | every 20 s: connect, begin, SELECT claimable rows, UPDATE them as claimed, publish all of them concurrently, UPDATE each after its reply, commit, release | outbox table, queue |
| request/reply queue (`bullMq/queues/patterns/requestReply`) | jobs in Redis, calls waiting for a reply | add, wait until finished | cron process, email worker |
| email worker (`notifications/.../subscribe`) | at most one job in hand | take a job, send the email, return a reply, be restarted | queue |
| outbox table (`db/.../outbox`) | `jobStatus`, `isPublished`, `lockedBy` per row | the SELECT and the three writes above | all of the above |

The `utils` and `db` packages also offer helpers that the program uses only in
part, each with a protocol of its own:

| part | state | operations | promise |
|---|---|---|---|
| Kafka producers and consumers (`kafka/patterns`) | one shared kafkajs producer, the partition, position and committed offset | connect, send with retries, disconnect; handle with retries, commit, rejoin | at least once, in order |
| RabbitMQ send/receive and publish/subscribe | queue or exchange, unacknowledged deliveries | send, deliver, call back, acknowledge, reconnect | at least once through a durable queue, but for acknowledgements of callbacks that outlive their channel; what is queued for a subscriber reaches it |
| RabbitMQ request/reply | a reply queue shared by consumers that are never cancelled | send, serve, reply, deal replies out, reconnect | a call gets the reply to its own request |
| BullMQ send/receive and triggered jobs (`bullMq/queues/patterns/senderReceiver`, `bullMq/jobs`) | jobs by identifier, attempts, stalls | add, trigger, remove, run, retry with a backoff | a trigger that is accepted has an effect; only a job that BullMQ has given up blocks its identifier |
| saga builder | the steps executed by a run and their effects | runAsync, retries, onError, compensation, resuming from a label | how a run ends says what it has done: a success has done its steps, `isCompensated` that all of them are undone; compensation goes backwards |
| pipeline workflow | the context of results by name | step, stepParallel, ifElseStep | results of earlier calls are there; the first failure is the one reported |
| batch helper | the handlers started and their results | batches or one item at a time | every item once, under its own outcome |
| generic database services | one table, callers with overlapping transactions | read, insert, update, deactivate | a deletion is final and one caller's |
| paged list | a count, and pages fetched later | walk while `hasNext` | every row that stays is seen |

What makes it hard: ticks overlap, because the cron library does not wait for the
callback; the SELECT takes no lock and the UPDATE that claims is conditioned on
`id` only; the UPDATE that publishes writes an entity read before the claim; the
email is sent inside an open database transaction; one path releases the
connection without ending its transaction; `sendAsync` waits without a timeout for
a job that is deleted as soon as it is finished; processes die. In the helpers:
calls disconnect a producer others are using; replies are dealt out to consumers
that did not ask for them; callbacks throw where nobody handles the rejection, or go
on after their channel is gone and acknowledge on the next one;
compensations fail half-way; steps of a group go on after the caller has been
thrown out; a statement waits for a lock and then decides on a status read before.

What each part of the outbox promises:

* create user: user and event are committed together or not at all; an address
  belongs to one user; the status of the response is true; connections go back
  clean; every request is answered.
* dispatcher: a row is marked as published only after its email; marks are never
  taken back; a claim does not outlive a lost transaction; every tick ends; every
  row that the query can find is published in the end.
* queue: a successful reply is never made up; an email is repeated only when a
  worker died, and boundedly often; every call returns.
* together: the contract of section 3.

## 2. Modules

| module | models | composed of |
|---|---|---|
| `OutboxRow` | the columns of a row, the WHERE clause and the three writes | |
| `WelcomeEmailQueue` | `RequestReplyProducerBullMq`, `RequestReplyConsumerBullMq`, the subscriber, BullMQ | |
| `OutboxDispatch` | cron job, `handleAsync`, `GetOutboxListService`, `GetOutboxDbService`, `OutboxBatchService`, `PublishWelcomeUserEmailEventService`, `UpdateService`, PostgreSQL sessions | extends `WelcomeEmailQueue`, `OutboxRow` |
| `OutboxContract` | the abstract specification of the outbox | |
| `CreateUser` | `CreateUserCommandHandler.handle` and what it calls | extends `OutboxRow` |
| `OutboxSystem` | everything on one table | extends `OutboxDispatch`, instantiates `CreateUser` |
| `AtLeastOnce` | the abstract specification of a durable channel | |
| `KafkaDelivery` | the producers and consumers of both Kafka patterns | instantiates `AtLeastOnce` |
| `RabbitDelivery` | RabbitMQ send/receive and publish/subscribe | instantiates `AtLeastOnce` |
| `RabbitRequestReply` | RabbitMQ request/reply | |
| `BullMqJobs` | BullMQ send/receive and triggered jobs | |
| `Saga` | `SagaOrchestratorBuilder`, `tryCatchSagaAsync` | |
| `Pipeline` | `PipelineWorkflow` | |
| `BatchArray` | `executeBatchArrayAsync` | |
| `EntityStore` | the generic add, get, get-version, update and delete services, `GetUserByEmailDbService` | |
| `PagedList` | `GetService` and `PagedList.toPagedListAsync` | |
| `MCOutboxDispatch`, `MCCreateUser` | symmetry sets for TLC | |
| `MCMessaging`, `MCLibrary` | several helpers in one run | extend the helpers |
| `WelcomeEmailQueueProofs`, `OutboxDispatchProofs`, `CreateUserProofs` | proofs | each extends its module |
| `OutboxSystemProofs` | proofs of the composition | extends `OutboxSystem` and `OutboxDispatchProofs`, instantiates `CreateUserProofs` |
| `MessagingProofs` | proofs about `KafkaDelivery`, `RabbitDelivery`, `RabbitRequestReply`, `BullMqJobs` | extends them |
| `WorkflowProofs` | proofs about `Saga`, `Pipeline`, `BatchArray` | extends them and `Induction` |
| `DatabaseProofs` | proofs about `EntityStore`, `PagedList` | extends them |
| `Induction` | induction and recursion over the natural numbers as theorems about sets and functions | |

### The outbox

In `OutboxDispatch` an action is what happens between two awaits that can be
observed: a statement on the session (`Begin`, `List`, `Claim`, `UpdateRow`,
`Commit`), waiting for the pool (`Connect`), the end (`Release`). `pc[t]` is where
`handleAsync` of tick `t` is; `snap[t]` is the list of entities the SELECT
returned; `txn`, `write` and `row` are PostgreSQL at READ COMMITTED: a statement
sees its own session's writes over what is committed, a written row is locked by
its session until the transaction ends, an error aborts the transaction, COMMIT of
an aborted transaction is a rollback. `call[t][e]` is the publish call of tick `t`
for row `e`, up to the use of its reply. A tick is a name, reused once the run it
named and the jobs that run left in Redis are finished.

A row is cut down to the columns decisions depend on. `ORDER BY`, dates, version,
`lockedAt`, payload and logging are left out; `eventType` and `status` are the same
in every row the program writes. Writes of the whole entity (`UpdateService`) are
modelled as what they do to these columns: `Published(snapshot)` keeps the stale
`lockedBy` of the snapshot. `executeBatchArrayAsync` starts all handlers without
waiting and then waits for all, so that all calls of a tick are concurrent.

`Claim` waits for every lock at once where PostgreSQL locks row by row. Ticks lock
rows in the same order (the scan of the same table by primary key) and a tick takes
no other lock afterwards, so that the two agree on what can be reached.

`NOT_FOUND` is reported as success and leaves the transaction open (`ListEmpty`) or
aborted (`GetOutboxFails`) on the connection that `Release` gives back; the next
`Begin` on it goes on in the open transaction (a warning of the server) or fails
(`BeginFails`). The pool may also close an idle connection (`ReapIdle`).

Publish calls end in an error without a job (`AddFails`: a failing command; a
payload that does not parse ends there as well), with a lost reply (`MissReply`), or
with a refusal. `OutboxBatchService` logs the error and succeeds, and the tick
commits.

In `CreateUser` a request names the user and the row it may insert. Several API
processes are one set of requests and one set of connections; a crash takes any set
of the requests in progress, `gracefulShutdown` included, which waits for none of
them. `connect()` may fail (a pool or a database that is not there), and the
connection may be lost during COMMIT, with or without effect, or during ROLLBACK,
which ends the session and its transaction; the server refuses no ROLLBACK. An
exception out of the handler is answered by the exception middleware
(`AnswerError`). A handler object serves one request (`new Mediator()` is created
without a resolver, and the library then creates the handler for every request), so
that the results of the pipeline's steps are private to it. The unique index on
`users.email` is a wait for the other transaction and then a conflict.

### The helpers

`KafkaDelivery`: `kcall[m]` is where the method that sends message `m` is;
`connected` belongs to the one producer all calls share, so that `KClose` of one call
makes `KSend` of another impossible until it, or a third, connects again
(`KSendFails`). The consumer's retries (`kfailed`) are those of the helper; after the
last one the error leaves `eachMessage`, and kafkajs delivers the same entry again.

`RabbitDelivery`: `place[m]` is where the broker has a message. A callback that
throws is a rejection nobody handles, hence `RConsumerCrash`; `RConnectionLost` loses
the connection alone, while callbacks in progress go on. `work` is the deliveries
whose callback the process is in, each with its tag: the broker numbers the
deliveries of a channel, `tags` of them so far. `age` is 0 on the present channel and
ranks former ones (`Outlive`). `RAck` is `this.channel.ack(msg)` as the code has it:
`this.channel` is the wrapper, and the tag goes to the channel it has by now. There it
belongs to the message of the callback, or to another message that is still in work
(`MistakenAck`), or to none, and then the broker closes the channel (`Refused`); while
there is no channel it goes nowhere (`NotSent`). Errors of the producer are only
logged (`RSendFails`).

`RabbitRequestReply`: `QDeliver(r, d)` gives a reply to the consumer of any call.
Only the right one acknowledges; the others keep it, unacknowledged, until the
channel is lost (`QReconnect`, `QClientCrash`).

`BullMqJobs`: `bmode` chooses between the two helpers, which differ in what happens
to failed jobs, in the delay, and in who chooses the identifier. `AddTaken` is a
trigger for an identifier that exists. `wanted` is history: a run that was asked for
and is still to come.

`Saga`: how an action ends is a choice among the endings its wrapper allows
(`ActionEndings`; `tryCatchSagaAsync` is the operator `TryCatchSaga`). `effect` is
history: which actions have succeeded and were not successfully compensated since.
`verdict` is how one run ended. The field `isSuccess` is not: it is set by a run that
succeeds and never reset, so that it stays true when a later run of the same object
fails; no property is about it.

`Pipeline`: `calls` is the program of the caller, `current` the call it is in;
actions end in any order, also after the caller was thrown out. A program is a
sequence of calls on steps with names of their own (`WellFormed`; a name that is used
twice would overwrite its own result). TLC goes through the `Programs`.

`BatchArray`: `HandlerThrows` before `Promise.all` is an unhandled rejection that
ends the process, later it rejects the call. `ResultsOf` is the loop over the resolved
promises, as a recursive function.

`EntityStore`: one action per service, each decided when the lock is free, with the
status the caller has read. `PagedList`: the count and the fetch of a page are two
steps, with insertions and deactivations between them.

External, modelled from how the program uses them: PostgreSQL, the node-postgres
pool, BullMQ (attempts, stalled jobs with the default of one, deletion of finished
jobs, one job at a time per worker), kafkajs and the Kafka broker, the RabbitMQ
broker and the connection manager. `PROJECT.json` marks these definitions.

Operators marked "Slip" are wrong variants of a definition next to them: what a
plausible mistake at that point of the code would be. No specification uses them;
putting one in the place of its definition makes TLC find the property listed with
it under "mutants" violated, which shows that the property depends on it.

## 3. The contracts

`OutboxContract` says what the pattern promises, with three variables: events are
committed, only committed events are delivered (perhaps repeatedly), an event is
marked as published only after a delivery, and nothing is taken back. The mapping,
in `OutboxDispatch`:

    committed <- {e : row[e] # NoRow}    delivered <- emailed
    published <- {e : row[e].isPublished = "YES"}

`KeepsContract` and, with the API's own transactions in the place of `ApiInsert`,
`SystemKeepsContract`, both checked by TLC and proved. The refinement has three levels:
`OutboxSystem` implements `OutboxDispatch` (`SystemImplementsDispatch`), which
implements `OutboxContract`.

`AtLeastOnce` says what a durable channel promises: what the sender was told is sent
is stored, handlers succeed only for what is stored, and the broker forgets only what
a handler has succeeded for. Kafka implements it (`KafkaIsAChannel`):

    stored <- messages in the log        returned <- calls that returned normally
    handled <- entries handled           forgotten <- entries below the offset

RabbitMQ's durable queue implements it but for one kind of step (`QueueIsAChannel`),
with acknowledged messages as `forgotten` and with a weaker `returned`: its
`sendAsync` also returns normally for a message it could not send, so that messages
lost on the way to the broker are left out of it. The exception is `MistakenAck`: a
callback that has outlived its channel acknowledges on the next one
(`sendReceiver/consumer/index.ts:38`) with a tag that may be another message's. The
broker then forgets a message nobody has handled yet, and delivery at least once does
not hold for it: the second part of the property says that it is still in the hands
of a callback, from where only the end of the process can take it. Publish/subscribe,
whose queue lives as long as the subscriber's connection, is mapped to a channel that
is never used.

## 4. Runs

| run | instance | checks |
|---|---|---|
| `queue` | 2 calls, 3 attempts, 1 stall, 3 faults of the queue | `QTypeOK`, `ReplyOkMeansEmailed`, `BoundedRedelivery`, `EveryCallReturns` |
| `dispatch_overlap` | 2 ticks, 2 rows, 2 connections, 3 faults of any kind | `TypeOK`, `PublishedMeansEmailed`, `StatusAgrees`, `LeakIsHarmless`, `NeverReopened`, `KeepsContract` |
| `dispatch_single` | 1 tick, 2 rows, take 1, 3 faults of the reply path | `EmailedOnce` |
| `dispatch_recovery` | 2 ticks, 1 row, failing statements and crashes | `ClaimIsProvisional`, `ClaimableIsPublished`, `TickEnds` |
| `create_user` | 3 requests, 2 addresses, 2 connections, 3 faults | `ApiTypeOK`, `UserIffEvent`, `UniqueEmail`, `OutcomeIsTrue`, `PoolIsClean` |
| `create_user_live` | 2 requests, 2 connections, 2 faults | `EveryRequestAnswered` |
| `system` | 1 tick, 1 old row, 2 requests, a fault on each side | `SystemKeepsContract` |
| `messaging` | Kafka: 2 messages, 2 attempts, 2 faults; RabbitMQ request/reply: 2 calls, 2 faults; BullMQ: 2 identifiers, 2 triggers each, 3 attempts, 3 faults | `PartitionInOrder`, `KafkaIsAChannel`, `LoggedIsHandled`, `OwnReply`, `ReplyIsSomewhere`, `AnsweredWhenAlone`, `BlockedOnlyByFailure`, `TriggerIsHonoured` |
| `library` | saga: 3 steps, 0 to 2 attempts each, run twice; pipeline: 3 steps; batch: up to 4 items in batches of 3; entities: 3 callers on one row; list: up to 3 rows, pages of 0 (none) to 2; RabbitMQ queues: 2 messages, 2 faults | `CompensatedMeansUndone`, `ReverseOrder`, `SuccessMeansDone`, `SagaEnds`, `EarlierResultsAreThere`, `FirstFailureIsRaised`, `ResultIsComplete`, `DeletedOnceForAll`, `WalkIsComplete`, `QueueIsAChannel`, `QueuedReachesCallback` |
| `dispatch_loss` (violation) | 1 tick, 1 row, 1 failing queue command | `EventsAreNeverLost` |
| `system_dispatch` (violation) | 1 request, no fault | `CommittedIsDispatched` |
| `batch_throttle` (violation) | 4 items, batches of 3, concurrency 2 | `ThrottleHolds` |

`messaging` and `library` each run helpers that share no state: a behaviour is one of
`helper`, and what is not that helper's stays as it was initially.

Bounds of the outbox. Two ticks are what it takes to overlap, to claim the same rows,
to inherit one another's connection and to wait for one another's locks; a third tick
adds no new kind of pair. Two rows let a failure of one call meet a success of the
other in one transaction. Two connections let a leaked one be reused or avoided. Three
faults let a fault happen during the recovery from another and once more; `MaxFaults`
and `MaxApiFaults` are the only bounds on behaviours, everything else is finite by
itself. `Attempts` is 3, as in the code, where retries are the subject (`queue`), and
1 or 2 elsewhere. Symmetry is used in safety runs only.

Bounds of the helpers. Two messages are what order, a shared producer and misdealt
replies need; with one message, the tag of a callback that has outlived its channel
could only be that message's own. Two lost connections are enough for a mistaken
acknowledgement: the first leaves a callback of `m` behind with tag 1, `m` is
delivered and acknowledged again, and after the second `n` gets tag 1. Kafka's three attempts are cut to two: two faults then use them up, and
a disconnected producer uses them up without any. Three steps of a saga leave one
before and one after the one that fails in between; two runs let the second resume
what the first has left. Four items in batches of three make two batches, the last of
them short. Three callers let one wait for another while a third has read before
both. Three rows in pages of two make a last page that is not full. `BFaults`,
`RFaults`, `QFaults`, `KFaults`, `MaxRuns`, `MaxTriggers` and `MaxVersion` are the
bounds on behaviours.

Deadlock is checked where the cron timer keeps the system going; the runs of the
queue, of the API and of the helpers make each call once and may stop.

The three violations are disagreements between the code and what it says of itself:

* `system_dispatch`: `CreateOutboxDbService` sets `lockedBy` in the row it inserts,
  and the query of the cron process takes rows where it is NULL. The event of a new
  user is never dispatched. Only rows from before the migration that added the
  column are claimable; the other runs of the dispatcher start from such rows
  (`LegacyRow`), as many of them as there are events. `EventsOfNewUsersAreStuck` proves
  it for every instance and every schedule, with faults or without.
* `dispatch_loss`: when a publish call fails, the claim is committed and the row
  stays PROCESSING; "events are never lost due to broker failures" does not hold.
* `batch_throttle`: `concurrency`, "Max parallel tasks per batch", limits nothing: the
  handlers of all chunks of a batch are started before any is waited for.

`EmailedOnce` leaves out failing statements, crashes and overlapping ticks, under
which an email may go out twice (at least once is what the design gives);
`ClaimIsProvisional` and `ClaimableIsPublished` leave out the faults of the queue,
under which `dispatch_loss` shows the opposite. `AnsweredWhenAlone` says only what is
true: a call of RabbitMQ's request/reply that has company on the reply queue may wait
for ever, because another call's consumer may keep its reply. `SuccessMeansDone` is
about the steps from the one a run started at; a run resumed from a label relies on
an earlier run for the steps before it, and a run from a label no step has, which
does nothing, is a success as the code has it. `CompensatedMeansUndone` is about the
exception of a compensated run; an exception that an action throws itself says
nothing about compensation, and there is none.

## 5. Fairness

* weak fairness of each tick, call and job: event loops keep turning and statements
  are answered;
* weak fairness of `Fire`: the timer fires every 20 s;
* strong fairness of `Connect`/`ApiConnect`, `Claim` and `AddUser`: the pool's
  waiting list and PostgreSQL's lock queue are first come first served, so that a
  waiter is not overtaken for ever;
* strong fairness of `TakeJob` and `RunJob`: the waiting list of a queue is first in
  first out;
* weak fairness of `ConsumerRestart`: pm2 restarts the worker (`autorestart`);
* in `messaging`, weak fairness of consuming, of the broker's deliveries, of the
  handlers and of reconnecting; senders need not do anything;
* in `library`, weak fairness of `SagaProgress`: actions and compensations end; weak
  fairness of `RConsume`: the broker delivers and callbacks end; weak fairness of
  `RSubscribe`: the connection manager connects again and the wrapper then has a
  channel. After `Refused` this assumes that a new connection comes as well: the
  wrapper waits for one before it opens another channel (a channel's error that no
  listener handles makes the client library close the connection).

Nothing is assumed of faults: they may or may not happen.

## 6. Proofs

The theorems hold for every value of the constants that satisfies the named
assumptions of the module (`QueueAssumption`, `DispatchAssumption`,
`CreateUserAssumption`, `KafkaAssumption`, `RabbitAssumption`,
`RequestReplyAssumption`, `BullMqAssumption`, `SagaAssumption`, `PipelineAssumption`,
`BatchAssumption`, `EntityAssumption`, `PagedListAssumption`, `SystemAssumption`).
`SystemAssumption` says that requests are events, that "no address" and "no connection"
are none, and which kinds of faults there are; `BatchAssumption` that the batch size
is not 0. Every invariant that a run checks is also proved. `RedeliveryIsBounded`, `ClaimsAreProvisional` and `AtMostOneEmail` need more, and
state it as an assumption of the theorem (`ASSUME ... PROVE`).

| theorem | |
|---|---|
| `QueueTypeCorrect` | `QSpec => []QTypeOK` |
| `ReplyOkImpliesEmailed` | `QSpec => []ReplyOkMeansEmailed` |
| `RedeliveryIsBounded` | `QSpec => []BoundedRedelivery`, for finitely many ticks |
| `DispatchTypeCorrect` | `Spec => []TypeOK` |
| `PublishedImpliesEmailed` | `Spec => []PublishedMeansEmailed` |
| `StatusAlwaysAgrees` | `Spec => []StatusAgrees` |
| `LeakIsAlwaysHarmless` | `Spec => []LeakIsHarmless` |
| `NothingIsReopened` | `Spec => NeverReopened` |
| `DispatchImplementsContract` | `Spec => KeepsContract` |
| `ClaimsAreProvisional` | `Spec => []ClaimIsProvisional`, without faults of the queue |
| `AtMostOneEmail` | `Spec => []EmailedOnce`, with one tick and without the fault kinds db, cron and consumer |
| `TypeCorrect`, `Atomicity`, `Uniqueness`, `TrueAnswers`, `CleanPool` | `CreateUserSafety =>` `[]ApiTypeOK`, `[]UserIffEvent`, `[]UniqueEmail`, `[]OutcomeIsTrue`, `[]PoolIsClean` |
| `SystemImplementsDispatch` | `SystemSpec => Spec` |
| `SystemImplementsContract` | `SystemSpec => SystemKeepsContract` |
| `SystemKeepsDispatch` | `SystemSpec =>` `[]PublishedMeansEmailed`, `[]StatusAgrees`, `[]LeakIsHarmless`, `NeverReopened` |
| `SystemAtomicity`, `SystemAnswersAreTrue` | `SystemSpec =>` `[]UserIffEvent`; `[]UniqueEmail`, `[]OutcomeIsTrue` (of `CreateUser`, in the system) |
| `EventsOfNewUsersAreStuck` | `SystemSpec => []NewUsersAreNotEmailed` |
| `KafkaRefinesChannel`, `HandledInOrder` | `KSpec => KafkaIsAChannel`, `KSpec => []PartitionInOrder` |
| `QueueRefinesChannel` | `RSpec => QueueIsAChannel`: a channel but for `MistakenAck`, after which the message is still in a callback |
| `ReplyIsOwn`, `ReplyNotLost` | `QSpec =>` `[]OwnReply`, `[]ReplyIsSomewhere` (of `RabbitRequestReply`) |
| `OnlyFailureBlocks` | `BSpec => []BlockedOnlyByFailure` |
| `CompensationIsReversed`, `CompensationIsTold`, `SuccessIsComplete` | `SSpec =>` `[]ReverseOrder`, `[]CompensatedMeansUndone`, `[]SuccessMeansDone` |
| `ResultsAreThere`, `FirstFailureReported` | `PSpec =>` `[]EarlierResultsAreThere`, `[]FirstFailureIsRaised`, for every well-formed program |
| `BatchIsComplete` | `BASpec => []ResultIsComplete` |
| `DeletionIsFinal` | `ESpec => []DeletedOnceForAll` |
| `WalkComesPast` | `LSpec => []WalkIsComplete` |

The arguments.

Queue. `ReplyOkMeansEmailed` is not inductive: a reply becomes "ok" from a job that is
"ok", which was "sent"; `EmailEvidence` says that all three have an email behind them.
For `BoundedRedelivery` every email is charged to one of the pairs (tick, number of
stalls its job had): a pair is charged once, because a job leaves "sent" only as
finished or with one more stall. There are `Cardinality(Tick) * (1 + MaxStalled)`
pairs.

Dispatcher. What matters is what uncommitted writes may become, and the invariant
`DispatchInv` follows them from the claim to the commit:

* `ConnInv`: a connection has one user, and a tick that looks for rows has a live
  transaction;
* `LockInv`: only a tick in its batch has written, its transaction is alive, and no
  two sessions have written the same row;
* `CallInv`: a tick with a live transaction holds the lock of every row it is
  publishing. This is why the stale entity is harmless: nobody else could write the
  row between its claim and its publication;
* `WriteInv`: a written row has left PENDING, is COMPLETED only with isPublished,
  does not take a publication back, and is marked only with an email behind it;
* `ExistInv`: nothing is read, written, asked for or sent for a row that was not
  committed.

Each part is preserved by every action (one lemma a part, one step an action), and
the properties are what `WriteInv` says once a commit has made the write the row.
The refinement maps `Commit` to `MarkPublished`, `ApiInsert` to `CommitEvent`,
`SendEmail` to `Deliver` and every other step to a stutter. TLC has checked
`DispatchInv` on the instance of `dispatch_overlap`.

`ClaimsAreProvisional` adds `ProvisionalInv`: without faults of the queue every job
succeeds, a call then ends in an error only by aborting its transaction, and a row
that is written as PROCESSING is one whose call is not done; so a commit, which waits
for all calls and needs a live transaction, finds none. `AtMostOneEmail` adds
`OnceInv`: with one tick and without failing statements and crashes no transaction
aborts, a tick claims what can be claimed and asks once for what it has claimed
(`ClaimsFit`), and a row that can be claimed and is not in the tick's hands was never
asked for (`AskedOnce`). The last is why a failed call cannot repeat an email: its row
was committed as PROCESSING and cannot be claimed again.

Create user. `OneSession` and `Sessions` tie the session of a request to the step it
is at: what it has inserted, and whether its transaction is open. Commits then make
both inserts public or none. For uniqueness, `InsertsDiffer` says that uncommitted
users differ from each other and from committed ones, which the index enforces at the
INSERT and later commits do not change; `UsersAreDone` and `OutcomeFits` tie a
committed user to a request that has answered.

Kafka. `InOrder`: everything at or below the position or a handled entry is handled or
has no value; `SentIsLogged`: a call past its send has its message in the log. RabbitMQ.
A callback acknowledges only when it has succeeded (`OverIsDone`), and among the
deliveries of one channel a tag stands for one message (`TagsDiffer`): an
acknowledgement on the callback's own channel forgets a handled message. One on a later
channel is a `MistakenAck`, of a message whose delivery is in `work`; `OutliveKeeps`
says that callbacks keep their message when the channel goes. `ReplyIsSomewhere` is inductive once the types are known, because a reply is
removed only by the consumer it is for. BullMQ. `BlockedOnlyByFailure`
also bounds the attempts and stalls of a job that may still run, which makes it
inductive; `WantedMayRun` and `OneActive` go with it. Saga. `Forward` and `Backward` are the loop
invariants of the two loops of `runAsync`: they account for every step the run has
done, as still to be compensated, compensated, or failed to be. Entities. `Checked`: what an update or a
deletion was decided on still holds when it commits, because the row is locked from
the decision on (`OneWriter`); `Gone` follows.

System. `SystemInv` is `DispatchInv` and the API's invariant, read on the shared
table. Each side's invariant must survive the other's steps: the API only inserts rows
that were not there (`ApiStepIsInsert`; its INSERT becomes visible as a whole with the
COMMIT, hence as one `ApiInsert`), the dispatcher only rewrites rows that are
(`DispatchKeepsRows`), and all the API's invariant asks of a table is which rows exist
(`InvElsewhere` of `CreateUserProofs`). That the event of a new user stays where it is
(`Stuck`) is inductive: a row with `lockedBy` set is not read, a row not read is not
written or published, and a commit changes only rows it has written.

Pipeline. All steps of a call start at once (`AllOrNone`), only steps of the current
call run (`RunningIsCurrent`), and the caller is in its call as long as nothing has
failed (`FailureIsRaised`): a call that returns leaves none of its steps behind. The
programs TLC goes through are well-formed (`ProgramsAreWellFormed`), so that the
theorem includes the instance of the run.

Batch. Handlers are started in the order of the items (`InOrder`), and `Promise.all`
waits for the last. The rest is about the loop that sorts the results, a recursive
function: that it exists, and what it lists after n items, are inductions over n.

Paged list. A row of the beginning has been seen or is behind the pages passed
(`NoneMissed`): an insertion moves a row only backwards. A row that has been seen and
is still there is in front of them (`NoneTwice`): a deactivation moves a row only
forwards. When the last page by a count that is not stale has been read, nothing is
behind it (`LastPageEnds`, the arithmetic of `Math.ceil`).

Induction. The library's induction theorems take operators as parameters, which the
installed provers cannot instantiate. `Induction` states what is needed about sets:
a set that holds 0 and with every number the next one holds all of them
(`SetInduction`, from the well-foundedness of `<`), and every recursion
f[n + 1] = d[n + 1, f[n]] has a solution (`RecursionExists`).

Only model-checked: liveness (`EveryCallReturns`, `TickEnds`, `ClaimableIsPublished`,
`EveryRequestAnswered`, `LoggedIsHandled`, `QueuedReachesCallback`,
`AnsweredWhenAlone`, `TriggerIsHonoured`, `SagaEnds`), which is out of the prover's
reach.

## 7. Not modelled

* Worker threads (`thread/index.ts`): the function handed to workerpool refers to
  variables of its closure (`fn`, `name`, `traceId`, lines 59-64), which do not exist
  where the worker evaluates its text; a model of retries after a timeout would be of
  successes the code does not have.
* Repeated BullMQ jobs (cron patterns) and the list of workers of `BullMqRunner`: the
  schedule is BullMQ's, and no process changes the list after its start.
* Start-up order and the second `listen` of `gracefulShutdown`: a database that is not
  there yet is a `connect()` that fails, and a shutdown is a crash of the requests in
  progress, both in `CreateUser`; the order of the remaining tasks decides nothing
  that other components see.
* Redis cache helper: nothing in the program caches anything, so that there is no
  cached value to be stale.
* HTTP middlewares (but for the exception middleware), configuration, loggers, JWT,
  HMAC, AES, axios, Consul and Pusher wrappers, generated and build files: filters,
  conversions and I/O around third-party libraries with no protocol state of their own.

What the plan has left: what the liveness properties rest on and a proof can reach, that
no tick, call or request is ever in a state without a step that it may still take.
