----------------------------- MODULE BullMqJobs -----------------------------
(***************************************************************************)
(* The one-way BullMQ helpers.  "send": SenderReceiverProducerBullMq,      *)
(* whose jobs are removed when they fail.  "trigger": TriggerJobBullMq,    *)
(* whose jobs have an identifier chosen by the caller, are delayed, retried*)
(* with a backoff, and kept when they fail.  The workers of both           *)
(* (SenderReceiverConsumerBullMq, RunJobBullMq) run one job at a time.     *)
(* Repeated jobs (cron patterns) are left out.                             *)
(***************************************************************************)
EXTENDS Naturals

CONSTANTS
  Id,          \* identifiers of jobs
  BAttempts,   \* attempts of a job (3 in the code)
  BMaxStalled, \* how often a job may stall (1, the default of BullMQ)
  MaxTriggers, \* bound: how often a job is asked for
  BFaults      \* bound: how many faults happen in one behaviour

ASSUME BullMqAssumption ==
  BAttempts \in Nat \ {0} /\ BMaxStalled \in Nat /\ MaxTriggers \in Nat /\ BFaults \in Nat

VARIABLES
  bmode,     \* "send" or "trigger"
  queueSet,  \* the producer has a queue: setQueues was called, closeAsync not
  bjob,      \* [Id -> where the job is]
  btries,    \* [Id -> failed attempts of the job]
  bstalls,   \* [Id -> how often it has stalled]
  wanted,    \* [Id -> somebody has asked for a run that is still to come]
  asked,     \* [Id -> how often it was asked for]
  bfaults

bvars == <<bmode, queueSet, bjob, btries, bstalls, wanted, asked, bfaults>>

BJobState == {"none", "delayed", "waiting", "active", "failed"}

BFault == bfaults < BFaults /\ bfaults' = bfaults + 1

\* removeOnFail: true for "send", false for "trigger".
AfterFailure == IF bmode = "send" THEN "none" ELSE "failed"

-----------------------------------------------------------------------------
\* setQueues(queueName)
SetQueues ==
  /\ ~queueSet
  /\ queueSet' = TRUE
  /\ UNCHANGED <<bmode, bjob, btries, bstalls, wanted, asked, bfaults>>

\* closeAsync(): the jobs of the queue stay where they are.
CloseQueues ==
  /\ queueSet
  /\ BFault
  /\ queueSet' = FALSE
  /\ UNCHANGED <<bmode, bjob, btries, bstalls, wanted, asked>>

\* sendAsync / triggerAsync, for an identifier that no job of the queue has:
\* queue.add makes one.  (Without setQueues they throw.)
AddJob(i) ==
  /\ queueSet
  /\ asked[i] < (IF bmode = "send" THEN 1 ELSE MaxTriggers)
  /\ bjob[i] = "none"
  /\ \E s \in (IF bmode = "send" THEN {"waiting"} ELSE {"waiting", "delayed"}) :
       bjob' = [bjob EXCEPT ![i] = s]
  /\ asked' = [asked EXCEPT ![i] = @ + 1]
  /\ wanted' = [wanted EXCEPT ![i] = TRUE]
  /\ btries' = [btries EXCEPT ![i] = 0]
  /\ bstalls' = [bstalls EXCEPT ![i] = 0]
  /\ UNCHANGED <<bmode, queueSet, bfaults>>

\* triggerAsync for an identifier that is taken: queue.add leaves the job as it
\* is.  A failed one is not run again, and the caller does not learn of it.
AddTaken(i) ==
  /\ queueSet
  /\ bmode = "trigger" /\ asked[i] < MaxTriggers
  /\ bjob[i] # "none"
  /\ asked' = [asked EXCEPT ![i] = @ + 1]
  /\ wanted' = [wanted EXCEPT ![i] = bjob[i] # "failed"]
  /\ UNCHANGED <<bmode, queueSet, bjob, btries, bstalls, bfaults>>

\* removeJobByIdAsync(jobId): does nothing to a job that a worker has locked.
RemoveJob(i) ==
  /\ queueSet
  /\ bmode = "trigger" /\ BFault
  /\ bjob[i] \in {"delayed", "waiting", "failed"}
  /\ bjob' = [bjob EXCEPT ![i] = "none"]
  /\ wanted' = [wanted EXCEPT ![i] = FALSE]
  /\ UNCHANGED <<bmode, queueSet, btries, bstalls, asked>>

\* The delay, or the backoff, is over.
Promote(i) ==
  /\ bjob[i] = "delayed"
  /\ bjob' = [bjob EXCEPT ![i] = "waiting"]
  /\ UNCHANGED <<bmode, queueSet, btries, bstalls, wanted, asked, bfaults>>

\* new Worker(queueName, job, ...): one job at a time.
RunJob(i) ==
  /\ bjob[i] = "waiting"
  /\ \A k \in Id : bjob[k] # "active"
  /\ bjob' = [bjob EXCEPT ![i] = "active"]
  /\ UNCHANGED <<bmode, queueSet, btries, bstalls, wanted, asked, bfaults>>

\* Slip: completed jobs are kept as well.
JobDoneKept(i) ==
  /\ bjob[i] = "active"
  /\ bjob' = [bjob EXCEPT ![i] = "failed"]
  /\ wanted' = [wanted EXCEPT ![i] = FALSE]
  /\ UNCHANGED <<bmode, queueSet, btries, bstalls, asked, bfaults>>

\* The processor succeeds; removeOnComplete: true.
JobDone(i) ==
  /\ bjob[i] = "active"
  /\ bjob' = [bjob EXCEPT ![i] = "none"]
  /\ wanted' = [wanted EXCEPT ![i] = FALSE]
  /\ UNCHANGED <<bmode, queueSet, btries, bstalls, asked, bfaults>>

\* Slip: a failed attempt is not tried again.
JobThrowsOnce(i) ==
  /\ bjob[i] = "active"
  /\ BFault
  /\ btries' = [btries EXCEPT ![i] = @ + 1]
  /\ bjob' = [bjob EXCEPT ![i] = AfterFailure]
  /\ wanted' = [wanted EXCEPT ![i] = @ /\ btries'[i] < BAttempts]
  /\ UNCHANGED <<bmode, queueSet, bstalls, asked>>

\* The processor throws: another attempt, at once ("send") or after a backoff
\* ("trigger"), or the job has failed.
JobThrows(i) ==
  /\ bjob[i] = "active"
  /\ BFault
  /\ btries' = [btries EXCEPT ![i] = @ + 1]
  /\ bjob' = [bjob EXCEPT ![i] =
                IF btries'[i] >= BAttempts THEN AfterFailure
                ELSE IF bmode = "send" THEN "waiting" ELSE "delayed"]
  /\ wanted' = [wanted EXCEPT ![i] = @ /\ btries'[i] < BAttempts]
  /\ UNCHANGED <<bmode, queueSet, bstalls, asked>>

\* The process of the worker dies, perhaps after the processor has done its
\* work: the job has stalled.
JobStalls(i) ==
  /\ bjob[i] = "active"
  /\ BFault
  /\ bstalls' = [bstalls EXCEPT ![i] = @ + 1]
  /\ bjob' = [bjob EXCEPT ![i] =
                IF bstalls'[i] > BMaxStalled THEN AfterFailure ELSE "waiting"]
  /\ wanted' = [wanted EXCEPT ![i] = @ /\ bstalls'[i] <= BMaxStalled]
  /\ UNCHANGED <<bmode, queueSet, btries, asked>>

-----------------------------------------------------------------------------
BInit ==
  /\ bmode \in {"send", "trigger"}
  /\ queueSet = FALSE
  /\ bjob = [i \in Id |-> "none"]
  /\ btries = [i \in Id |-> 0]
  /\ bstalls = [i \in Id |-> 0]
  /\ wanted = [i \in Id |-> FALSE]
  /\ asked = [i \in Id |-> 0]
  /\ bfaults = 0

JobStep(i) == Promote(i) \/ RunJob(i) \/ JobDone(i)

BNext ==
  \/ \E i \in Id : \/ AddJob(i) \/ AddTaken(i) \/ RemoveJob(i)
                   \/ JobStep(i) \/ JobThrows(i) \/ JobStalls(i)
  \/ SetQueues \/ CloseQueues

BSpec == BInit /\ [][BNext]_bvars

-----------------------------------------------------------------------------
\* An identifier stays taken only by a job BullMQ has given up, in "trigger" mode:
\* after its last attempt has failed, or because it has stalled once too often,
\* which happens without any failed attempt.  A job that may still run is neither,
\* and a completed or removed job does not block its identifier.
BlockedOnlyByFailure ==
  \A i \in Id :
    /\ bjob[i] = "failed" =>
         bmode = "trigger" /\ (btries[i] = BAttempts \/ bstalls[i] = BMaxStalled + 1)
    /\ bjob[i] \in {"delayed", "waiting", "active"} =>
         btries[i] < BAttempts /\ bstalls[i] <= BMaxStalled

\* A run that was asked for, while the identifier was free or its job still to
\* end, happens, unless the job fails for good or is removed.
TriggerIsHonoured ==
  \A i \in Id : wanted[i] ~> ~wanted[i]
=============================================================================
