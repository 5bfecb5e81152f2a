------------------------- MODULE WelcomeEmailQueue -------------------------
(***************************************************************************)
(* The BullMQ queue 'welcome-user-email-queue' as the program uses it: the *)
(* request/reply producer in the cron process, the consumer in the worker  *)
(* process, and between them the job kept in Redis.  BullMQ itself is a    *)
(* library, modelled from how the program calls it: a job is retried when  *)
(* its processor throws, handed out again when the worker that held it has *)
(* died, and deleted from Redis as soon as it has finished.                *)
(*                                                                         *)
(* A call is named by the tick of the cron job that makes it and the event *)
(* it is about; the correlationId plays that part in the code.             *)
(***************************************************************************)
EXTENDS Naturals, FiniteSets

CONSTANTS
  Tick,        \* runs of the cron job that may be in progress
  Event,       \* outbox rows, and the welcome emails they ask for
  Attempts,    \* the job option `attempts' (3 in the code)
  MaxStalled,  \* BullMQ's maxStalledCount (its default, 1)
  Faults,      \* the kinds of fault that may happen
  MaxFaults    \* bound: how many faults happen in one behaviour

\* redis       the command that adds the job is answered by an error
\* missedReply the job finished, and was deleted, before the producer asked
\* refuse      the consumer answers success: false
\* throw       the processor throws
\* consumer    the worker process dies
\* db, cron    used by the modules that extend this one
FaultKind == {"redis", "missedReply", "refuse", "throw", "consumer", "db", "cron"}

ASSUME QueueAssumption ==
  /\ Attempts \in Nat \ {0}
  /\ MaxStalled \in Nat
  /\ Faults \subseteq FaultKind
  /\ MaxFaults \in Nat

VARIABLES
  call,        \* [Tick -> [Event -> state of sendAsync for that event]]
  job,         \* [Tick -> [Event -> the job in Redis]]
  emailed,     \* [Event -> Nat]: how often the email went out (history)
  consumerUp,  \* is the worker process running?
  faults       \* faults so far

qvars == <<call, job, emailed, consumerUp, faults>>

(***************************************************************************)
(* none    not asked for          todo     about to be sent                *)
(* added   queues.add() returned  waiting  isFinished answered "not yet"   *)
(* ok      reply with success     err      reply without, or an exception  *)
(* done    the caller has used the reply                                   *)
(***************************************************************************)
CallState == {"none", "todo", "added", "waiting", "ok", "err", "done"}

(***************************************************************************)
(* active   the processor runs    sent    ... and has sent the email       *)
(* stalled  its worker is dead    ok      finished, reply success: true    *)
(* refused  finished, reply success: false                                 *)
(* failed   finished, attempts or stalls exhausted                         *)
(***************************************************************************)
Finished == {"ok", "refused", "failed"}
JobState == {"none", "waiting", "active", "sent", "stalled"} \union Finished
Job == [st : JobState, tries : Nat, stalls : Nat]

NoJob == [st |-> "none", tries |-> 0, stalls |-> 0]
NewJobDelayed == [NoJob EXCEPT !.st = "delayed"]  \* slip: a delayed job
NewJob == [NoJob EXCEPT !.st = "waiting"]

QTypeOK ==
  /\ call \in [Tick -> [Event -> CallState]]
  /\ job \in [Tick -> [Event -> Job]]
  /\ emailed \in [Event -> Nat]
  /\ consumerUp \in BOOLEAN
  /\ faults \in Nat

\* A fault of kind k happens in this step.
Fault(k) ==
  /\ k \in Faults
  /\ faults < MaxFaults
  /\ faults' = faults + 1

SetCall(t, e, s) == call' = [call EXCEPT ![t][e] = s]
SetJob(t, e, j) == job' = [job EXCEPT ![t][e] = j]
JobIs(t, e, s) == job[t][e].st = s
JobTo(t, e, s) == SetJob(t, e, [job[t][e] EXCEPT !.st = s])

-----------------------------------------------------------------------------
(* The producer: RequestReplyProducerBullMq.sendAsync                        *)

\* await this._queues.add(...)
Add(t, e) ==
  /\ call[t][e] = "todo"
  /\ SetJob(t, e, NewJob)
  /\ SetCall(t, e, "added")
  /\ UNCHANGED <<emailed, consumerUp, faults>>

\* The add command is answered by an error.  Whether Redis ran it first is
\* not known: the job may or may not be there.
AddFails(t, e) ==
  /\ call[t][e] = "todo"
  /\ Fault("redis")
  /\ job' \in {job, [job EXCEPT ![t][e] = NewJob]}
  /\ SetCall(t, e, "err")
  /\ UNCHANGED <<emailed, consumerUp>>

\* waitUntilFinished asks Redis once, after its listeners are in place.
Wait(t, e) ==
  /\ call[t][e] = "added"
  /\ job[t][e].st \notin Finished
  /\ SetCall(t, e, "waiting")
  /\ UNCHANGED <<job, emailed, consumerUp, faults>>

\* It asked, and the job had finished and had been removed (removeOnComplete,
\* removeOnFail): "Missing key for job", an exception, whatever the outcome.
MissReply(t, e) ==
  /\ call[t][e] = "added"
  /\ job[t][e].st \in Finished
  /\ Fault("missedReply")
  /\ SetCall(t, e, "err")
  /\ UNCHANGED <<job, emailed, consumerUp>>

\* The completed event arrives with the processor's return value.
ReplyOk(t, e) ==
  /\ call[t][e] \in {"added", "waiting"}
  /\ JobIs(t, e, "ok")
  /\ SetCall(t, e, "ok")
  /\ UNCHANGED <<job, emailed, consumerUp, faults>>

\* Slip: nobody listens for the failed event.
ReplyErrorRefusedOnly(t, e) ==
  /\ call[t][e] \in {"added", "waiting"}
  /\ JobIs(t, e, "refused")
  /\ SetCall(t, e, "err")
  /\ UNCHANGED <<job, emailed, consumerUp, faults>>

\* Slip: the caller does not look at success.
ReplyErrorIgnored(t, e) ==
  /\ call[t][e] \in {"added", "waiting"}
  /\ job[t][e].st \in {"refused", "failed"}
  /\ SetCall(t, e, "ok")
  /\ UNCHANGED <<job, emailed, consumerUp, faults>>

\* The completed event carries success: false, or the failed event arrives and
\* sendAsync throws; the caller turns both into an error.
ReplyError(t, e) ==
  /\ call[t][e] \in {"added", "waiting"}
  /\ job[t][e].st \in {"refused", "failed"}
  /\ SetCall(t, e, "err")
  /\ UNCHANGED <<job, emailed, consumerUp, faults>>

-----------------------------------------------------------------------------
(* The consumer: welcomeUserEmailSubscribeIntegrationEvent                   *)

\* The worker is created without `concurrency': it runs one job at a time.
TakeJob(t, e) ==
  /\ consumerUp
  /\ JobIs(t, e, "waiting")
  /\ \A u \in Tick, f \in Event : job[u][f].st \notin {"active", "sent"}
  /\ JobTo(t, e, "active")
  /\ UNCHANGED <<call, emailed, consumerUp, faults>>

\* EmailSentService sends the email.
SendEmail(t, e) ==
  /\ JobIs(t, e, "active")
  /\ JobTo(t, e, "sent")
  /\ emailed' = [emailed EXCEPT ![e] = @ + 1]
  /\ UNCHANGED <<call, consumerUp, faults>>

\* The processor returns the success message and BullMQ completes the job.
CompleteJob(t, e) ==
  /\ JobIs(t, e, "sent")
  /\ JobTo(t, e, "ok")
  /\ UNCHANGED <<call, emailed, consumerUp, faults>>

\* No data, the contract cannot be mapped, or the email service returns an
\* error: the processor returns success: false, and the job is complete.
RefuseJob(t, e) ==
  /\ JobIs(t, e, "active")
  /\ Fault("refuse")
  /\ JobTo(t, e, "refused")
  /\ UNCHANGED <<call, emailed, consumerUp>>

\* The processor throws: the job is tried again until `attempts' is used up.
ThrowJob(t, e) ==
  /\ JobIs(t, e, "active")
  /\ Fault("throw")
  /\ LET n == job[t][e].tries + 1
     IN  SetJob(t, e, [st |-> IF n < Attempts THEN "waiting" ELSE "failed",
                       tries |-> n,
                       stalls |-> job[t][e].stalls])
  /\ UNCHANGED <<call, emailed, consumerUp>>

\* The worker dies; the job it held stays active in Redis with nobody at it.
ConsumerCrash ==
  /\ consumerUp
  /\ Fault("consumer")
  /\ consumerUp' = FALSE
  /\ job' = [t \in Tick |-> [e \in Event |->
               IF job[t][e].st \in {"active", "sent"}
                 THEN [job[t][e] EXCEPT !.st = "stalled"]
                 ELSE job[t][e]]]
  /\ UNCHANGED <<call, emailed>>

\* The process manager starts it again.
ConsumerRestart ==
  /\ ~consumerUp
  /\ consumerUp' = TRUE
  /\ UNCHANGED <<call, job, emailed, faults>>

\* Slip: stalls are not counted.
RecoverStalledAlways(t, e) ==
  /\ consumerUp
  /\ JobIs(t, e, "stalled")
  /\ JobTo(t, e, "waiting")
  /\ UNCHANGED <<call, emailed, consumerUp, faults>>

\* The stalled-job check of a running worker puts the job back, or fails it
\* when it has stalled more often than allowed.
RecoverStalled(t, e) ==
  /\ consumerUp
  /\ JobIs(t, e, "stalled")
  /\ IF job[t][e].stalls < MaxStalled
       THEN SetJob(t, e, [st |-> "waiting",
                          tries |-> job[t][e].tries,
                          stalls |-> job[t][e].stalls + 1])
       ELSE JobTo(t, e, "failed")
  /\ UNCHANGED <<call, emailed, consumerUp, faults>>

-----------------------------------------------------------------------------
(* The queue on its own: every tick asks once for every event.               *)

ProducerStep(t, e) ==
  Add(t, e) \/ Wait(t, e) \/ ReplyOk(t, e) \/ ReplyError(t, e)

ConsumerStep(t, e) ==
  TakeJob(t, e) \/ SendEmail(t, e) \/ CompleteJob(t, e) \/ RecoverStalled(t, e)

\* What goes wrong with one call.
CallFault(t, e) ==
  AddFails(t, e) \/ MissReply(t, e) \/ RefuseJob(t, e) \/ ThrowJob(t, e)

QueueStep ==
  \/ \E t \in Tick, e \in Event :
       ProducerStep(t, e) \/ ConsumerStep(t, e) \/ CallFault(t, e)
  \/ ConsumerCrash
  \/ ConsumerRestart

QInit ==
  /\ call = [t \in Tick |-> [e \in Event |-> "todo"]]
  /\ job = [t \in Tick |-> [e \in Event |-> NoJob]]
  /\ emailed = [e \in Event |-> 0]
  /\ consumerUp = TRUE
  /\ faults = 0

\* The event loops of both processes keep running, and pm2 restarts the worker.
QFairness ==
  /\ \A t \in Tick, e \in Event :
       /\ WF_qvars(ProducerStep(t, e))
       /\ SF_qvars(TakeJob(t, e))
       /\ WF_qvars(ConsumerStep(t, e))
  /\ WF_qvars(ConsumerRestart)

QSpec == QInit /\ [][QueueStep]_qvars /\ QFairness

-----------------------------------------------------------------------------
\* A reply that says success is never made up: by then the email has gone out.
\* (subscribe/index.ts returns success only after EmailSentService.)
ReplyOkMeansEmailed ==
  \A t \in Tick, e \in Event : call[t][e] = "ok" => emailed[e] >= 1

\* What makes it inductive: a job that is past the email has sent it.
EmailEvidence ==
  \A t \in Tick, e \in Event :
    call[t][e] = "ok" \/ job[t][e].st \in {"sent", "ok"} => emailed[e] >= 1

\* Retries alone never send an email twice, because the processor cannot throw
\* after it has sent; only a dead worker's job goes out again, and BullMQ hands
\* it out at most MaxStalled more times.  (One call for each tick and event.)
BoundedRedelivery ==
  \A e \in Event : emailed[e] <= Cardinality(Tick) * (1 + MaxStalled)

\* sendAsync has no timeout, and still every call returns in the end: a job is
\* completed or failed after finitely many attempts and stalls, provided the
\* worker always comes back.
EveryCallReturns ==
  \A t \in Tick, e \in Event :
    (call[t][e] = "todo") ~> (call[t][e] \in {"ok", "err"})
=============================================================================
