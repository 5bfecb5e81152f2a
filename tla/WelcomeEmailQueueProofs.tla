---------------------- MODULE WelcomeEmailQueueProofs ----------------------
(***************************************************************************)
(* Proofs about the queue, for every set of ticks and events, every number *)
(* of attempts and stalls, and every combination of faults.  The two step  *)
(* lemmas are also used for the dispatcher, which runs the same steps.     *)
(***************************************************************************)
EXTENDS WelcomeEmailQueue, FiniteSetTheorems, TLAPS

\* Storing a well-formed job keeps the table of jobs well-formed.
LEMMA SetJobType ==
  ASSUME job \in [Tick -> [Event -> Job]],
         NEW t \in Tick, NEW e \in Event, NEW j \in Job, SetJob(t, e, j)
  PROVE  job' \in [Tick -> [Event -> Job]]
  BY DEF SetJob

\* The same for moving a job to another state.
LEMMA JobToType ==
  ASSUME job \in [Tick -> [Event -> Job]],
         NEW t \in Tick, NEW e \in Event, NEW s \in JobState, JobTo(t, e, s)
  PROVE  job' \in [Tick -> [Event -> Job]]
<1>1. [job[t][e] EXCEPT !.st = s] \in Job
  BY DEF Job
<1>2. QED
  BY <1>1, SetJobType DEF JobTo

\* The same for moving a call.
LEMMA SetCallType ==
  ASSUME call \in [Tick -> [Event -> CallState]],
         NEW t \in Tick, NEW e \in Event, NEW s \in CallState, SetCall(t, e, s)
  PROVE  call' \in [Tick -> [Event -> CallState]]
  BY DEF SetCall

\* The job that queues.add() creates is well-formed.
LEMMA NewJobType == NewJob \in Job
  BY DEF NewJob, NoJob, Job, JobState

\* Every step of the queue keeps the types of its variables: sendAsync and the
\* consumer move a call and a job only between their states.
LEMMA QueueStepType ==
  ASSUME QTypeOK, QueueStep
  PROVE  QTypeOK'
<1> USE DEF QTypeOK
<1>a. /\ \A s \in {"todo", "added", "waiting", "ok", "err"} : s \in CallState
      /\ \A s \in {"waiting", "active", "sent", "ok", "refused", "failed", "stalled"} :
           s \in JobState
  BY DEF CallState, JobState, Finished
<1>1. ASSUME NEW t \in Tick, NEW e \in Event, ProducerStep(t, e)
      PROVE  QTypeOK'
  <2>1. CASE Add(t, e)
    <3>1. job' \in [Tick -> [Event -> Job]]
      BY <2>1, SetJobType, NewJobType DEF Add
    <3>2. call' \in [Tick -> [Event -> CallState]]
      BY <2>1, <1>a, SetCallType DEF Add
    <3>3. QED
      BY <2>1, <3>1, <3>2 DEF Add
  <2>2. CASE Wait(t, e)
    <3>1. call' \in [Tick -> [Event -> CallState]]
      BY <2>2, <1>a, SetCallType DEF Wait
    <3>2. QED
      BY <2>2, <3>1 DEF Wait
  <2>3. CASE ReplyOk(t, e)
    <3>1. call' \in [Tick -> [Event -> CallState]]
      BY <2>3, <1>a, SetCallType DEF ReplyOk
    <3>2. QED
      BY <2>3, <3>1 DEF ReplyOk
  <2>4. CASE ReplyError(t, e)
    <3>1. call' \in [Tick -> [Event -> CallState]]
      BY <2>4, <1>a, SetCallType DEF ReplyError
    <3>2. QED
      BY <2>4, <3>1 DEF ReplyError
  <2>5. QED
    BY <1>1, <2>1, <2>2, <2>3, <2>4 DEF ProducerStep
<1>2. ASSUME NEW t \in Tick, NEW e \in Event, ConsumerStep(t, e)
      PROVE  QTypeOK'
  <2>1. CASE TakeJob(t, e)
    <3>1. job' \in [Tick -> [Event -> Job]]
      BY <2>1, <1>a, JobToType DEF TakeJob
    <3>2. QED
      BY <2>1, <3>1 DEF TakeJob
  <2>2. CASE SendEmail(t, e)
    <3>1. job' \in [Tick -> [Event -> Job]]
      BY <2>2, <1>a, JobToType DEF SendEmail
    <3>2. emailed' \in [Event -> Nat]
      BY <2>2 DEF SendEmail
    <3>3. QED
      BY <2>2, <3>1, <3>2 DEF SendEmail
  <2>3. CASE CompleteJob(t, e)
    <3>1. job' \in [Tick -> [Event -> Job]]
      BY <2>3, <1>a, JobToType DEF CompleteJob
    <3>2. QED
      BY <2>3, <3>1 DEF CompleteJob
  <2>4. CASE RecoverStalled(t, e)
    <3>0. job[t][e] \in Job
      OBVIOUS
    <3>1. [st |-> "waiting", tries |-> job[t][e].tries,
           stalls |-> job[t][e].stalls + 1] \in Job
      BY <3>0, <1>a DEF Job
    <3>2. job' \in [Tick -> [Event -> Job]]
      BY <2>4, <3>1, <1>a, SetJobType, JobToType DEF RecoverStalled
    <3>3. QED
      BY <2>4, <3>2 DEF RecoverStalled
  <2>5. QED
    BY <1>2, <2>1, <2>2, <2>3, <2>4 DEF ConsumerStep
<1>3. ASSUME NEW t \in Tick, NEW e \in Event, CallFault(t, e)
      PROVE  QTypeOK'
  <2>0. \A k \in FaultKind : Fault(k) => faults' \in Nat
    BY DEF Fault
  <2>1. CASE AddFails(t, e)
    <3>0. [job EXCEPT ![t][e] = NewJob] \in [Tick -> [Event -> Job]]
      BY NewJobType
    <3>1. job' \in [Tick -> [Event -> Job]]
      BY <2>1, <3>0 DEF AddFails
    <3>2. call' \in [Tick -> [Event -> CallState]]
      BY <2>1, <1>a, SetCallType DEF AddFails
    <3>3. QED
      BY <2>1, <2>0, <3>1, <3>2 DEF AddFails, FaultKind
  <2>2. CASE MissReply(t, e)
    <3>1. call' \in [Tick -> [Event -> CallState]]
      BY <2>2, <1>a, SetCallType DEF MissReply
    <3>2. QED
      BY <2>2, <2>0, <3>1 DEF MissReply, FaultKind
  <2>3. CASE RefuseJob(t, e)
    <3>1. job' \in [Tick -> [Event -> Job]]
      BY <2>3, <1>a, JobToType DEF RefuseJob
    <3>2. QED
      BY <2>3, <2>0, <3>1 DEF RefuseJob, FaultKind
  <2>4. CASE ThrowJob(t, e)
    <3> DEFINE n == job[t][e].tries + 1
               j == [st |-> IF n < Attempts THEN "waiting" ELSE "failed",
                     tries |-> n,
                     stalls |-> job[t][e].stalls]
    <3>0. job[t][e] \in Job
      OBVIOUS
    <3>1. j \in Job
      BY <3>0, <1>a DEF Job
    <3>2. SetJob(t, e, j)
      BY <2>4 DEF ThrowJob
    <3>3. job' \in [Tick -> [Event -> Job]]
      BY <3>1, <3>2, SetJobType
    <3>4. QED
      BY <2>4, <2>0, <3>3 DEF ThrowJob, FaultKind
  <2>5. QED
    BY <1>3, <2>1, <2>2, <2>3, <2>4 DEF CallFault
<1>4. CASE ConsumerCrash
  <2>1. \A t \in Tick, e \in Event :
          job[t][e] \in Job /\ [job[t][e] EXCEPT !.st = "stalled"] \in Job
    <3>1. \A t \in Tick, e \in Event : job[t][e] \in Job
      OBVIOUS
    <3>2. QED
      BY <3>1, <1>a DEF Job
  <2>2. job' \in [Tick -> [Event -> Job]]
    BY <1>4, <2>1 DEF ConsumerCrash
  <2>3. faults' \in Nat
    BY <1>4 DEF ConsumerCrash, Fault
  <2>4. QED
    BY <1>4, <2>2, <2>3 DEF ConsumerCrash
<1>5. CASE ConsumerRestart
  BY <1>5 DEF ConsumerRestart
<1>6. QED
  BY <1>1, <1>2, <1>3, <1>4, <1>5 DEF QueueStep

\* No step of the queue invents a successful reply: a call or a job reaches
\* "ok" only from a job that is past SendEmail.
LEMMA QueueStepEvidence ==
  ASSUME QTypeOK, EmailEvidence, QueueStep
  PROVE  EmailEvidence'
<1> USE DEF QTypeOK, EmailEvidence, SetCall, SetJob, JobTo, JobIs, Job
<1>1. ASSUME NEW t \in Tick, NEW e \in Event, ProducerStep(t, e)
      PROVE  EmailEvidence'
  <2>1. CASE Add(t, e)
    BY <2>1 DEF Add, NewJob, NoJob
  <2>2. CASE Wait(t, e)
    BY <2>2 DEF Wait
  <2>3. CASE ReplyOk(t, e)
    BY <2>3 DEF ReplyOk
  <2>4. CASE ReplyError(t, e)
    BY <2>4 DEF ReplyError
  <2>5. QED
    BY <1>1, <2>1, <2>2, <2>3, <2>4 DEF ProducerStep
<1>2. ASSUME NEW t \in Tick, NEW e \in Event, ConsumerStep(t, e)
      PROVE  EmailEvidence'
  <2>1. CASE TakeJob(t, e)
    BY <2>1 DEF TakeJob
  <2>2. CASE SendEmail(t, e)
    BY <2>2 DEF SendEmail
  <2>3. CASE CompleteJob(t, e)
    BY <2>3 DEF CompleteJob
  <2>4. CASE RecoverStalled(t, e)
    <3>1. \A u \in Tick, f \in Event : u # t \/ f # e => job'[u][f] = job[u][f]
      BY <2>4 DEF RecoverStalled
    <3>2. job'[t][e].st \in {"waiting", "failed"}
      <4>1. CASE job[t][e].stalls < MaxStalled
        BY <2>4, <4>1 DEF RecoverStalled
      <4>2. CASE ~(job[t][e].stalls < MaxStalled)
        BY <2>4, <4>2 DEF RecoverStalled
      <4>3. QED
        BY <4>1, <4>2
    <3>3. QED
      BY <2>4, <3>1, <3>2 DEF RecoverStalled
  <2>5. QED
    BY <1>2, <2>1, <2>2, <2>3, <2>4 DEF ConsumerStep
<1>3. ASSUME NEW t \in Tick, NEW e \in Event, CallFault(t, e)
      PROVE  EmailEvidence'
  <2>1. CASE AddFails(t, e)
    BY <2>1 DEF AddFails, NewJob, NoJob
  <2>2. CASE MissReply(t, e)
    BY <2>2 DEF MissReply
  <2>3. CASE RefuseJob(t, e)
    BY <2>3 DEF RefuseJob
  <2>4. CASE ThrowJob(t, e)
    BY <2>4 DEF ThrowJob
  <2>5. QED
    BY <1>3, <2>1, <2>2, <2>3, <2>4 DEF CallFault
<1>4. CASE ConsumerCrash
  BY <1>4 DEF ConsumerCrash
<1>5. CASE ConsumerRestart
  BY <1>5 DEF ConsumerRestart
<1>6. QED
  BY <1>1, <1>2, <1>3, <1>4, <1>5 DEF QueueStep

\* What a step of the queue leaves alone: it starts no call, adds a job only for
\* a call that was made, and sends one email, for a job that exists.
QueueFrame ==
  /\ \A t \in Tick, e \in Event :
       call'[t][e] # call[t][e] => call[t][e] # "none" /\ call'[t][e] # "none"
  /\ \A t \in Tick, e \in Event :
       call[t][e] = "none" /\ job[t][e].st = "none" => job'[t][e].st = "none"
  /\ \/ emailed' = emailed
     \/ \E t \in Tick, e \in Event :
          /\ job[t][e].st # "none"
          /\ emailed' = [emailed EXCEPT ![e] = @ + 1]

LEMMA QueueStepFrame ==
  ASSUME QTypeOK, QueueStep
  PROVE  QueueFrame
<1> USE DEF QTypeOK, QueueFrame, SetCall, SetJob, JobTo, JobIs, Job
<1>1. ASSUME NEW t \in Tick, NEW e \in Event, ProducerStep(t, e)
      PROVE  QueueFrame
  <2>1. PICK s \in CallState :
          call[t][e] # "none" /\ s # "none" /\ call' = [call EXCEPT ![t][e] = s]
    BY <1>1 DEF ProducerStep, Add, Wait, ReplyOk, ReplyError, CallState
  <2>2. /\ emailed' = emailed
        /\ \A u \in Tick, f \in Event : u # t \/ f # e => job'[u][f] = job[u][f]
    BY <1>1 DEF ProducerStep, Add, Wait, ReplyOk, ReplyError
  <2>3. QED
    BY <2>1, <2>2
<1>2. ASSUME NEW t \in Tick, NEW e \in Event, ConsumerStep(t, e)
      PROVE  QueueFrame
  <2>1. /\ job[t][e].st # "none"
        /\ \A u \in Tick, f \in Event : u # t \/ f # e => job'[u][f] = job[u][f]
    BY <1>2 DEF ConsumerStep, TakeJob, SendEmail, CompleteJob, RecoverStalled
  <2>2. /\ call' = call
        /\ emailed' = emailed \/ emailed' = [emailed EXCEPT ![e] = @ + 1]
    BY <1>2 DEF ConsumerStep, TakeJob, SendEmail, CompleteJob, RecoverStalled
  <2>3. QED
    BY <2>1, <2>2
<1>3. ASSUME NEW t \in Tick, NEW e \in Event, CallFault(t, e)
      PROVE  QueueFrame
  <2>1. CASE AddFails(t, e) \/ MissReply(t, e)
    <3>1. call[t][e] # "none" /\ call' = [call EXCEPT ![t][e] = "err"]
      BY <2>1 DEF AddFails, MissReply
    <3>2. /\ emailed' = emailed
          /\ \A u \in Tick, f \in Event : u # t \/ f # e => job'[u][f] = job[u][f]
      BY <2>1 DEF AddFails, MissReply
    <3>3. QED
      BY <3>1, <3>2
  <2>2. CASE RefuseJob(t, e) \/ ThrowJob(t, e)
    <3>1. /\ job[t][e].st # "none"
          /\ \A u \in Tick, f \in Event : u # t \/ f # e => job'[u][f] = job[u][f]
          /\ UNCHANGED <<call, emailed>>
      BY <2>2 DEF RefuseJob, ThrowJob
    <3>2. QED
      BY <3>1
  <2>3. QED
    BY <1>3, <2>1, <2>2 DEF CallFault
<1>4. CASE ConsumerCrash
  BY <1>4 DEF ConsumerCrash
<1>5. CASE ConsumerRestart
  BY <1>5 DEF ConsumerRestart
<1>6. QED
  BY <1>1, <1>2, <1>3, <1>4, <1>5 DEF QueueStep

\* The types of the queue's variables hold in every behaviour.
THEOREM QueueTypeCorrect == QSpec => []QTypeOK
<1>1. QInit => QTypeOK
  BY DEF QInit, QTypeOK, CallState, NoJob, Job, JobState, Finished
<1>2. QTypeOK /\ [QueueStep]_qvars => QTypeOK'
  <2>1. QTypeOK /\ UNCHANGED qvars => QTypeOK'
    BY DEF QTypeOK, qvars
  <2>2. QED
    BY <2>1, QueueStepType
<1>3. QED
  BY <1>1, <1>2, PTL DEF QSpec

\* A reply that says success is never made up, whatever is retried, refused,
\* redelivered or lost (subscribe/index.ts, producer/index.ts).
THEOREM ReplyOkImpliesEmailed == QSpec => []ReplyOkMeansEmailed
<1>1. QInit => EmailEvidence
  BY DEF QInit, EmailEvidence, NoJob
<1>2. QTypeOK /\ EmailEvidence /\ [QueueStep]_qvars => EmailEvidence'
  <2>1. EmailEvidence /\ UNCHANGED qvars => EmailEvidence'
    BY DEF EmailEvidence, qvars
  <2>2. QED
    BY <2>1, QueueStepEvidence
<1>3. EmailEvidence => ReplyOkMeansEmailed
  BY DEF EmailEvidence, ReplyOkMeansEmailed
<1>4. QED
  BY <1>1, <1>2, <1>3, QueueTypeCorrect, PTL DEF QSpec

-----------------------------------------------------------------------------
\* The number of emails, bounded by the number of times a job was handed out:
\* Sends(e) has an element for every tick and every stall of its job up to the
\* present one, the present one only if its email may have gone out.
MaySent == {"sent", "ok", "stalled", "failed"}

Sends(e) ==
  {x \in Tick \X (0..MaxStalled) :
     LET j == job[x[1]][e]
     IN  x[2] < j.stalls \/ (x[2] = j.stalls /\ j.st \in MaySent)}

RedeliveryInv ==
  /\ \A t \in Tick, e \in Event :
       /\ job[t][e].stalls <= MaxStalled
       /\ call[t][e] = "todo" => job[t][e] = NoJob
  /\ \A e \in Event : emailed[e] <= Cardinality(Sends(e))

\* There are finitely many chances to send an email.
LEMMA SendsBounded ==
  ASSUME IsFiniteSet(Tick), NEW e \in Event
  PROVE  /\ IsFiniteSet(Sends(e))
         /\ Cardinality(Sends(e)) \in Nat
         /\ Cardinality(Sends(e)) <= Cardinality(Tick) * (1 + MaxStalled)
<1> DEFINE Chances == Tick \X (0..MaxStalled)
<1>1. IsFiniteSet(0..MaxStalled) /\ Cardinality(0..MaxStalled) = 1 + MaxStalled
  BY FS_Interval, QueueAssumption
<1>2. IsFiniteSet(Chances) /\ Cardinality(Chances) = Cardinality(Tick) * (1 + MaxStalled)
  BY <1>1, FS_Product
<1>3. Sends(e) \in SUBSET Chances
  BY DEF Sends
<1>4. IsFiniteSet(Sends(e)) /\ Cardinality(Sends(e)) <= Cardinality(Chances)
  BY <1>2, <1>3, FS_Subset
<1>5. QED
  BY <1>2, <1>4, FS_CardinalityType

\* A step that changes the jobs of event f only in these ways keeps the bound.
LEMMA SendsGrow ==
  ASSUME IsFiniteSet(Tick), QTypeOK, QTypeOK', RedeliveryInv, NEW f \in Event,
         \A t \in Tick :
           \/ job'[t][f] = job[t][f]
           \/ job[t][f].stalls < job'[t][f].stalls
           \/ /\ job'[t][f].stalls = job[t][f].stalls
              /\ job[t][f].st \in MaySent => job'[t][f].st \in MaySent,
         \/ emailed'[f] = emailed[f]
         \/ /\ emailed'[f] = emailed[f] + 1
            /\ \E t \in Tick : /\ job[t][f].st \notin MaySent
                               /\ job'[t][f].st \in MaySent
                               /\ job'[t][f].stalls = job[t][f].stalls
  PROVE  emailed'[f] <= Cardinality(Sends(f)')
<1> USE DEF QTypeOK, Job
<1>0. /\ emailed[f] \in Nat /\ emailed[f] <= Cardinality(Sends(f))
      /\ \A t \in Tick : job[t][f].stalls \in Nat /\ job'[t][f].stalls \in Nat
      /\ \A t \in Tick : job[t][f].stalls <= MaxStalled
  BY DEF RedeliveryInv
<1>1. Sends(f) \subseteq Sends(f)'
  <2>1. ASSUME NEW x \in Sends(f) PROVE x \in Sends(f)'
    <3>1. /\ x \in Tick \X (0..MaxStalled) /\ x[1] \in Tick /\ x[2] \in Nat
          /\ x[2] < job[x[1]][f].stalls \/ (x[2] = job[x[1]][f].stalls /\ job[x[1]][f].st \in MaySent)
      BY QueueAssumption DEF Sends
    <3>2. ASSUME NEW t \in Tick, NEW k \in Nat,
                 k < job[t][f].stalls \/ (k = job[t][f].stalls /\ job[t][f].st \in MaySent)
          PROVE  k < job'[t][f].stalls \/ (k = job'[t][f].stalls /\ job'[t][f].st \in MaySent)
      <4>1. CASE job'[t][f] = job[t][f]
        BY <3>2, <4>1
      <4>2. CASE job[t][f].stalls < job'[t][f].stalls
        BY <3>2, <4>2, <1>0
      <4>3. CASE /\ job'[t][f].stalls = job[t][f].stalls
                 /\ job[t][f].st \in MaySent => job'[t][f].st \in MaySent
        BY <3>2, <4>3
      <4>4. QED
        BY <4>1, <4>2, <4>3
    <3>3. QED
      BY <3>1, <3>2 DEF Sends
  <2>2. QED
    BY <2>1
<1>2. IsFiniteSet(Sends(f)) /\ Cardinality(Sends(f)) \in Nat
  BY SendsBounded
<1>3. IsFiniteSet(Sends(f)') /\ Cardinality(Sends(f)') \in Nat
  <2>1. Sends(f)' \in SUBSET (Tick \X (0..MaxStalled))
    BY DEF Sends
  <2>2. IsFiniteSet(0..MaxStalled)
    BY FS_Interval, QueueAssumption
  <2>3. IsFiniteSet(Tick \X (0..MaxStalled))
    BY <2>2, FS_Product
  <2>4. QED
    BY <2>1, <2>3, FS_Subset, FS_CardinalityType
<1>4. CASE emailed'[f] = emailed[f]
  <2>1. Cardinality(Sends(f)) <= Cardinality(Sends(f)')
    BY <1>1, <1>3, FS_Subset
  <2>2. QED
    BY <2>1, <1>0, <1>2, <1>3, <1>4
<1>5. ASSUME NEW t \in Tick,
             emailed'[f] = emailed[f] + 1,
             job[t][f].st \notin MaySent, job'[t][f].st \in MaySent,
             job'[t][f].stalls = job[t][f].stalls
      PROVE  emailed'[f] <= Cardinality(Sends(f)')
  <2> DEFINE x == <<t, job[t][f].stalls>>
  <2>1. x \notin Sends(f)
    BY <1>5, <1>0 DEF Sends
  <2>2. x \in Sends(f)'
    BY <1>5, <1>0, QueueAssumption DEF Sends
  <2>3. Cardinality(Sends(f) \union {x}) = Cardinality(Sends(f)) + 1
    BY <2>1, <1>2, FS_AddElement
  <2>4. Sends(f) \union {x} \in SUBSET Sends(f)'
    BY <2>2, <1>1
  <2>5. Cardinality(Sends(f) \union {x}) <= Cardinality(Sends(f)')
    BY <2>4, <1>3, FS_Subset
  <2>6. QED
    BY <2>3, <2>5, <1>0, <1>2, <1>3, <1>5
<1>6. QED
  BY <1>4, <1>5

\* Every step of the queue keeps the bound: only SendEmail sends, from a job
\* that is active, and a job starts anew only when it is added.
LEMMA QueueStepSends ==
  ASSUME IsFiniteSet(Tick), QTypeOK, QTypeOK', RedeliveryInv, QueueStep
  PROVE  RedeliveryInv'
<1> DEFINE Same(t, e) == job'[t][e] = job[t][e]
<1> DEFINE Kept(t, e) ==
      /\ job'[t][e].stalls = job[t][e].stalls
      /\ job[t][e].st \in MaySent => job'[t][e].st \in MaySent
<1> DEFINE Forth(t, e) == job'[t][e].stalls = job[t][e].stalls + 1 /\ job[t][e].stalls < MaxStalled
<1> DEFINE Fine(t, e) == Same(t, e) \/ Kept(t, e) \/ Forth(t, e)
<1> DEFINE Sent(e) ==
      \/ emailed'[e] = emailed[e]
      \/ /\ emailed'[e] = emailed[e] + 1
         /\ \E t \in Tick : /\ job[t][e].st \notin MaySent
                            /\ job'[t][e].st \in MaySent
                            /\ job'[t][e].stalls = job[t][e].stalls
<1> DEFINE Todo(t, e) == call'[t][e] = "todo" => call[t][e] = "todo" /\ Same(t, e)
<1> USE DEF QTypeOK, Job
<1>0. \A t \in Tick, e \in Event : job[t][e].stalls \in Nat /\ job'[t][e].stalls \in Nat
  OBVIOUS
<1>1. ASSUME \A t \in Tick, e \in Event : Fine(t, e) /\ Todo(t, e), \A e \in Event : Sent(e)
      PROVE  RedeliveryInv'
  <2>1. ASSUME NEW t \in Tick, NEW e \in Event
        PROVE  /\ job'[t][e].stalls <= MaxStalled
               /\ call'[t][e] = "todo" => job'[t][e] = NoJob
    <3>1. Fine(t, e) /\ Todo(t, e)
      BY <1>1
    <3>2. job[t][e].stalls <= MaxStalled /\ (call[t][e] = "todo" => job[t][e] = NoJob)
      BY DEF RedeliveryInv
    <3>3. QED
      BY <3>1, <3>2, <1>0, QueueAssumption
  <2>2. ASSUME NEW e \in Event
        PROVE  emailed'[e] <= Cardinality(Sends(e)')
    <3>1. \A t \in Tick :
            \/ job'[t][e] = job[t][e]
            \/ job[t][e].stalls < job'[t][e].stalls
            \/ /\ job'[t][e].stalls = job[t][e].stalls
               /\ job[t][e].st \in MaySent => job'[t][e].st \in MaySent
      BY <1>1, <1>0
    <3>2. Sent(e)
      BY <1>1
    <3>3. QED
      BY <3>1, <3>2, SendsGrow
  <2>3. QED
    BY <2>1, <2>2 DEF RedeliveryInv, Sends
<1>2. ASSUME NEW t \in Tick, NEW e \in Event,
             ProducerStep(t, e) \/ AddFails(t, e) \/ MissReply(t, e)
      PROVE  RedeliveryInv'
  <2>1. call[t][e] = "todo" => job[t][e] = NoJob
    BY DEF RedeliveryInv
  <2>2. /\ \A u \in Tick, f \in Event : u # t \/ f # e => Same(u, f) /\ call'[u][f] = call[u][f]
        /\ emailed' = emailed
        /\ call'[t][e] # "todo"
    BY <1>2 DEF ProducerStep, Add, Wait, ReplyOk, ReplyError, AddFails, MissReply, SetCall, SetJob
  <2>3. Same(t, e) \/ Kept(t, e)
    BY <1>2, <2>1 DEF ProducerStep, Add, Wait, ReplyOk, ReplyError, AddFails, MissReply, SetJob,
                      NoJob, NewJob, MaySent
  <2>4. QED
    BY <2>2, <2>3, <1>1
<1>3. ASSUME NEW t \in Tick, NEW e \in Event,
             ConsumerStep(t, e) \/ RefuseJob(t, e) \/ ThrowJob(t, e)
      PROVE  RedeliveryInv'
  <2>1. /\ \A u \in Tick, f \in Event : u # t \/ f # e => Same(u, f)
        /\ call' = call
        /\ job[t][e].st # "none"
    BY <1>3 DEF ConsumerStep, TakeJob, SendEmail, CompleteJob, RecoverStalled, RefuseJob, ThrowJob,
                SetJob, JobTo, JobIs
  <2>2. Fine(t, e)
    BY <1>3 DEF ConsumerStep, TakeJob, SendEmail, CompleteJob, RecoverStalled, RefuseJob, ThrowJob,
                SetJob, JobTo, JobIs, MaySent
  <2>3. \A f \in Event : Sent(f)
    <3>1. CASE SendEmail(t, e)
      <4>1. \A f \in Event : emailed'[f] = IF f = e THEN emailed[e] + 1 ELSE emailed[f]
        BY <3>1 DEF SendEmail
      <4>2. /\ job[t][e].st \notin MaySent
            /\ job'[t][e].st \in MaySent
            /\ job'[t][e].stalls = job[t][e].stalls
        BY <3>1 DEF SendEmail, SetJob, JobTo, JobIs, MaySent
      <4>3. QED
        BY <4>1, <4>2
    <3>2. CASE ~SendEmail(t, e)
      BY <1>3, <3>2 DEF ConsumerStep, TakeJob, CompleteJob, RecoverStalled, RefuseJob, ThrowJob
    <3>3. QED
      BY <3>1, <3>2
  <2>4. call[t][e] # "todo"
    BY <2>1 DEF RedeliveryInv, NoJob
  <2>5. QED
    BY <2>1, <2>2, <2>3, <2>4, <1>1
<1>4. CASE ConsumerCrash
  <2>1. \A t \in Tick, e \in Event : Kept(t, e) /\ (call[t][e] = "todo" => Same(t, e))
    BY <1>4 DEF ConsumerCrash, MaySent, RedeliveryInv, NoJob
  <2>2. call' = call /\ emailed' = emailed
    BY <1>4 DEF ConsumerCrash
  <2>3. QED
    BY <2>1, <2>2, <1>1
<1>5. CASE ConsumerRestart
  BY <1>5, <1>1 DEF ConsumerRestart
<1>6. QED
  BY <1>2, <1>3, <1>4, <1>5 DEF QueueStep, CallFault

\* However often jobs are retried and workers die, an email goes out at most once
\* for each call and each time its job may stall (producer/index.ts:54-58: three
\* attempts; the processor cannot throw after it has sent).
THEOREM RedeliveryIsBounded ==
  ASSUME IsFiniteSet(Tick)
  PROVE  QSpec => []BoundedRedelivery
<1>1. QInit => RedeliveryInv
  <2> SUFFICES ASSUME QInit PROVE RedeliveryInv
    OBVIOUS
  <2>1. \A e \in Event : Cardinality(Sends(e)) \in Nat
    BY SendsBounded
  <2>2. QED
    BY <2>1, QueueAssumption DEF QInit, RedeliveryInv, NoJob
<1>2. QTypeOK /\ QTypeOK' /\ RedeliveryInv /\ [QueueStep]_qvars => RedeliveryInv'
  <2>1. RedeliveryInv /\ UNCHANGED qvars => RedeliveryInv'
    BY DEF RedeliveryInv, Sends, qvars
  <2>2. QED
    BY <2>1, QueueStepSends
<1>3. QTypeOK /\ RedeliveryInv => BoundedRedelivery
  <2> SUFFICES ASSUME QTypeOK, RedeliveryInv, NEW e \in Event
               PROVE  emailed[e] <= Cardinality(Tick) * (1 + MaxStalled)
    BY DEF BoundedRedelivery
  <2>1. emailed[e] \in Nat /\ emailed[e] <= Cardinality(Sends(e))
    BY DEF QTypeOK, RedeliveryInv
  <2>2. Cardinality(Sends(e)) \in Nat
        /\ Cardinality(Sends(e)) <= Cardinality(Tick) * (1 + MaxStalled)
    BY SendsBounded
  <2>3. Cardinality(Tick) * (1 + MaxStalled) \in Nat
    BY FS_CardinalityType, QueueAssumption
  <2>4. QED
    BY <2>1, <2>2, <2>3
<1>4. QED
  BY <1>1, <1>2, <1>3, QueueTypeCorrect, PTL DEF QSpec
=============================================================================
