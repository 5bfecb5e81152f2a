--------------------------- MODULE WorkflowProofs ----------------------------
(***************************************************************************)
(* Proofs about the helpers for workflows: the saga builder, the pipeline  *)
(* and the batch helper.                                                   *)
(***************************************************************************)
EXTENDS Saga, Pipeline, BatchArray, Induction, SequenceTheorems, TLAPS

-----------------------------------------------------------------------------
(***************************************************************************)
(* SagaOrchestratorBuilder.runAsync, for every number of steps, attempts   *)
(* and runs, every wrapping of the actions and every way they may end.     *)
(*                                                                         *)
(* The properties speak of the end of a run; the invariant says what the   *)
(* loop has done so far (Forward) and what the compensation has still to do *)
(* (Backward).                                                             *)
(***************************************************************************)

\* What the variables may be.
STypeOK ==
  /\ retry \in [SagaStep -> Nat]
  /\ phase \in {"action", "onError", "compensate", "over"}
  /\ at \in 1..(NumSteps + 1)
  /\ begun \in 1..at
  /\ attempt \in Nat
  /\ executed \subseteq SagaStep
  /\ tried \subseteq SagaStep
  /\ allDone \in BOOLEAN
  /\ effect \in [SagaStep -> BOOLEAN]

\* Steps with retry 0 are passed over.
Counts(i) == i \in SagaStep /\ retry[i] > 0

\* The steps the loop has done before it comes to step n.
DoneBefore(n) == {i \in begun..(n - 1) : Counts(i)}

\* In the loop over the steps.
Forward ==
  phase \in {"action", "onError"} =>
    /\ tried = {} /\ allDone = TRUE
    /\ executed = DoneBefore(at)
    /\ \A i \in executed : effect[i] = TRUE

\* In the loop over the executed steps, backwards.
Backward ==
  phase = "compensate" =>
    /\ executed \union tried = DoneBefore(at)
    /\ \A i \in executed : effect[i] = TRUE
    /\ allDone = TRUE => \A i \in tried : effect[i] = FALSE
    /\ allDone = FALSE => \E i \in tried : effect[i] = TRUE

\* There is a step at which something failed.
Failing == phase \in {"onError", "compensate"} => at \in SagaStep

\* After the loops, CompensatedMeansUndone and SuccessMeansDone in other words.
Ended ==
  phase = "over" =>
    /\ verdict \in {"compensated", "partly"} => tried = DoneBefore(stopped)
    /\ verdict = "compensated" => \A i \in tried : effect[i] = FALSE
    /\ verdict = "partly" => \E i \in tried : effect[i] = TRUE
    /\ verdict = "success" => \A i \in begun..NumSteps : Counts(i) => effect[i] = TRUE
    /\ verdict = "thrown" =>
         \A i \in begun..(stopped - 1) : Counts(i) => effect[i] = TRUE
    /\ verdict # "none" => stopped = at

SInv == STypeOK /\ Forward /\ Backward /\ Failing /\ ReverseOrder /\ Ended

-----------------------------------------------------------------------------
\* No run has been started.
LEMMA SInvInit == SInit => SInv
<1> SUFFICES ASSUME SInit PROVE SInv
  OBVIOUS
<1>1. STypeOK
  BY SagaAssumption DEF SInit, STypeOK, SagaStep
<1>2. Forward /\ Backward /\ Failing /\ ReverseOrder /\ Ended
  BY DEF SInit, Forward, Backward, Failing, ReverseOrder, Ended
<1>3. QED
  BY <1>1, <1>2 DEF SInv

\* A run begins with no step behind it.
LEMMA NoneBefore == \A n \in Nat : \A i \in n..(n - 1) : FALSE
OBVIOUS

\* A step of the loop over the steps.
LEMMA ForwardStep ==
  ASSUME SInv, Run \/ SkipStep \/ ActionOk \/ ActionErr \/ AfterError
  PROVE  SInv'
<1> USE SagaAssumption DEF SInv, SagaStep, config, run
<1>1. CASE Run
  <2>1. STypeOK'
    BY <1>1 DEF Run, STypeOK
  <2>2. \A i \in begun'..(at' - 1) : FALSE
    <3>1. begun' \in Nat /\ at' = begun'
      BY <1>1 DEF Run
    <3>2. \A i \in begun'..(begun' - 1) : FALSE
      BY <3>1, NoneBefore
    <3>3. QED
      BY <3>1, <3>2
  <2>3. phase' = "action" /\ tried' = {} /\ executed' = {} /\ allDone' = TRUE
    BY <1>1 DEF Run
  <2>4. Forward'
    BY <2>2, <2>3 DEF Forward, DoneBefore
  <2>5. Backward' /\ Failing' /\ ReverseOrder' /\ Ended'
    BY <2>3 DEF Backward, Failing, ReverseOrder, Ended
  <2>6. QED
    BY <2>1, <2>4, <2>5
<1>2. CASE SkipStep
  <2>1. STypeOK'
    BY <1>2 DEF SkipStep, NextStep, STypeOK
  <2>2. Forward'
    BY <1>2 DEF SkipStep, NextStep, STypeOK, Forward, Counts, DoneBefore
  <2>3. Backward' /\ Failing' /\ ReverseOrder' /\ Ended'
    BY <1>2 DEF SkipStep, STypeOK, Backward, Failing, ReverseOrder, Ended
  <2>4. QED
    BY <2>1, <2>2, <2>3
<1>3. CASE ActionOk
  <2>1. STypeOK'
    BY <1>3 DEF ActionOk, NextStep, STypeOK
  <2>2. Forward'
    BY <1>3 DEF ActionOk, NextStep, STypeOK, Forward, Counts, DoneBefore
  <2>3. Backward' /\ Failing' /\ ReverseOrder' /\ Ended'
    BY <1>3 DEF ActionOk, STypeOK, Forward, Backward, Failing, ReverseOrder, Ended
  <2>4. QED
    BY <2>1, <2>2, <2>3
<1>4. CASE ActionErr
  <2>1. STypeOK'
    BY <1>4 DEF ActionErr, STypeOK
  <2>2. Forward' /\ Backward' /\ Failing' /\ ReverseOrder' /\ Ended'
    BY <1>4 DEF ActionErr, STypeOK, Forward, Backward, Failing, ReverseOrder, Ended, Counts, DoneBefore
  <2>3. QED
    BY <2>1, <2>2
<1>5. CASE AfterError
  <2>1. STypeOK'
    BY <1>5 DEF AfterError, STypeOK
  <2>2. Forward' /\ Failing' /\ ReverseOrder' /\ Ended'
    BY <1>5 DEF AfterError, STypeOK, Forward, Failing, ReverseOrder, Ended, Counts, DoneBefore
  <2>3. Backward'
    BY <1>5 DEF AfterError, STypeOK, Forward, Backward, Counts, DoneBefore
  <2>4. QED
    BY <2>1, <2>2, <2>3
<1>6. QED
  BY <1>1, <1>2, <1>3, <1>4, <1>5

\* One compensation, of the last step executed that is not compensated yet.
LEMMA BackwardStep ==
  ASSUME SInv, Compensate
  PROVE  SInv'
<1> USE SagaAssumption DEF SInv, SagaStep
<1>1. PICK i \in executed :
        /\ \A j \in executed : j <= i
        /\ executed' = executed \ {i}
        /\ tried' = tried \union {i}
        /\ \/ effect' = [effect EXCEPT ![i] = FALSE] /\ allDone' = allDone
           \/ allDone' = FALSE /\ effect' = effect
  BY DEF Compensate
<1>2. phase = "compensate" /\ UNCHANGED <<retry, begun, phase, at, attempt, verdict, stopped>>
  BY DEF Compensate, config, run
<1>3. i \in SagaStep
  BY DEF STypeOK
<1>4. STypeOK'
  BY <1>1, <1>2, <1>3 DEF STypeOK
<1>5. ReverseOrder'
  BY <1>1, <1>3 DEF STypeOK, ReverseOrder
<1>6. Backward'
  <2>1. executed' \union tried' = DoneBefore(at)'
    BY <1>1, <1>2 DEF Backward, DoneBefore, Counts
  <2>2. i \notin tried /\ effect[i] = TRUE
    BY <1>1, <1>2, <1>3 DEF STypeOK, Backward, ReverseOrder
  <2>3. \A k \in executed' : effect'[k] = TRUE
    BY <1>1, <1>2, <1>3 DEF STypeOK, Backward
  <2>4. allDone' = TRUE => \A k \in tried' : effect'[k] = FALSE
    BY <1>1, <1>2, <1>3 DEF STypeOK, Backward
  <2>5. allDone' = FALSE => \E k \in tried' : effect'[k] = TRUE
    BY <1>1, <1>2, <1>3, <2>2 DEF STypeOK, Backward
  <2>6. QED
    BY <1>2, <2>1, <2>3, <2>4, <2>5 DEF Backward
<1>7. Forward' /\ Failing' /\ Ended'
  BY <1>2 DEF Forward, Failing, Ended
<1>8. QED
  BY <1>4, <1>5, <1>6, <1>7

\* The end of a run, with one verdict or another.
LEMMA LastStep ==
  ASSUME SInv, Throws \/ Compensated \/ Finish
  PROVE  SInv'
<1> USE SagaAssumption DEF SInv, SagaStep
<1>1. /\ phase' = "over" /\ stopped' = at
      /\ UNCHANGED <<retry, begun, at, attempt, executed, tried, allDone, effect>>
  BY DEF Throws, Compensated, Finish, End, config, run
<1>2. STypeOK' /\ Forward' /\ Backward' /\ Failing' /\ ReverseOrder'
  BY <1>1 DEF STypeOK, Forward, Backward, Failing, ReverseOrder
<1>3. CASE Throws
  <2>1. phase \in {"action", "onError"} /\ verdict' = "thrown"
    BY <1>3 DEF Throws, End
  <2>2. Ended'
    BY <1>1, <2>1 DEF Forward, Ended, Counts, DoneBefore
  <2>3. QED
    BY <1>2, <2>2
<1>4. CASE Compensated
  <2>1. /\ phase = "compensate" /\ executed = {}
        /\ verdict' = IF allDone THEN "compensated" ELSE "partly"
    BY <1>4 DEF Compensated, End
  <2>2. tried' = DoneBefore(stopped)'
    BY <1>1, <2>1 DEF Backward, DoneBefore, Counts
  <2>3. Ended'
    BY <1>1, <2>1, <2>2 DEF STypeOK, Backward, Ended
  <2>4. QED
    BY <1>2, <2>3
<1>5. CASE Finish
  <2>1. phase = "action" /\ at = NumSteps + 1 /\ verdict' = "success"
    BY <1>5 DEF Finish, End, STypeOK
  <2>2. Ended'
    BY <1>1, <2>1 DEF Forward, Ended, Counts, DoneBefore
  <2>3. QED
    BY <1>2, <2>2
<1>6. QED
  BY <1>3, <1>4, <1>5

\* The invariant in every reachable state.
THEOREM SagaInvariance == SSpec => []SInv
<1>1. SInv /\ UNCHANGED svars => SInv'
  BY DEF svars, SInv, STypeOK, Forward, Backward, Failing, ReverseOrder, Ended, Counts, DoneBefore
<1>2. SInv /\ [SNext]_svars => SInv'
  BY <1>1, ForwardStep, BackwardStep, LastStep DEF SNext, SagaProgress
<1>3. QED
  BY SInvInit, <1>2, PTL DEF SSpec

\* Compensation runs backwards through what was executed.
THEOREM CompensationIsReversed == SSpec => []ReverseOrder
<1>1. SInv => ReverseOrder
  BY DEF SInv
<1>2. QED
  BY SagaInvariance, <1>1, PTL

\* isCompensated is true exactly when all compensations have succeeded, each step
\* the run did being compensated.
THEOREM CompensationIsTold == SSpec => []CompensatedMeansUndone
<1>1. SInv => CompensatedMeansUndone
  <2> SUFFICES ASSUME SInv, phase = "over" PROVE CompensatedMeansUndone
    BY DEF CompensatedMeansUndone
  <2> SUFFICES ASSUME verdict \in {"compensated", "partly"} PROVE CompensatedMeansUndone
    BY DEF CompensatedMeansUndone
  <2>1. {i \in begun..(stopped - 1) : retry[i] > 0} = DoneBefore(stopped)
    BY SagaAssumption DEF SInv, STypeOK, Ended, DoneBefore, Counts, SagaStep
  <2>2. tried = DoneBefore(stopped)
    BY DEF SInv, Ended
  <2>3. (verdict = "compensated") <=> \A i \in tried : ~effect[i]
    BY DEF SInv, Ended
  <2>4. QED
    BY <2>1, <2>2, <2>3 DEF CompensatedMeansUndone
<1>2. QED
  BY SagaInvariance, <1>1, PTL

\* A run that succeeds has done its steps, one that throws has undone none.
THEOREM SuccessIsComplete == SSpec => []SuccessMeansDone
<1>1. SInv => SuccessMeansDone
  <2> SUFFICES ASSUME SInv, phase = "over" PROVE SuccessMeansDone
    BY DEF SuccessMeansDone
  <2>1. verdict = "success" => \A i \in begun..NumSteps : retry[i] > 0 => effect[i]
    BY SagaAssumption DEF SInv, STypeOK, Ended, Counts, SagaStep
  <2>2. verdict = "thrown" => \A i \in begun..(stopped - 1) : retry[i] > 0 => effect[i]
    BY SagaAssumption DEF SInv, STypeOK, Ended, Counts, SagaStep
  <2>3. QED
    BY <2>1, <2>2 DEF SuccessMeansDone
<1>2. QED
  BY SagaInvariance, <1>1, PTL

-----------------------------------------------------------------------------
(***************************************************************************)
(* PipelineWorkflow, for every sequence of calls on steps that are not     *)
(* used twice.                                                             *)
(*                                                                         *)
(* What makes EarlierResultsAreThere inductive is that all steps of a call *)
(* start at once (AllOrNone), so that none is left behind when the call    *)
(* returns, and that the caller goes on only as long as nothing has failed *)
(* (FailureIsRaised).                                                      *)
(***************************************************************************)

\* The caller is in some call, one after the last at most.
PTypeOK ==
  /\ WellFormed(calls)
  /\ current \in 1..(Len(calls) + 1)
  /\ pstep \in [PStep -> PStepState]
  /\ context \subseteq PStep
  /\ failures \in Seq(PStep)
  /\ raised \in PStep \union {Nothing, NoStep}

\* Only steps of the call the caller is in are running.
RunningIsCurrent ==
  \A s \in PStep : pstep[s] = "running" => current <= Len(calls) /\ s \in CallOf(current)

\* A call starts all its steps at once, unless it is a branch.
AllOrNone ==
  \A i \in 1..Len(calls) :
    calls[i].kind # "ifElse" => Idle(i) \/ \A s \in CallOf(i) : pstep[s] # "idle"

\* A result that is not undefined has been put into the context.
ValueIsInContext == \A s \in PStep : pstep[s] = "value" => s \in context

\* The caller was thrown out if and only if a step has failed, by the first that
\* did, or by an empty group, when nothing was running.
FailureIsRaised ==
  /\ failures = <<>> => \A s \in PStep : pstep[s] # "failed"
  /\ failures # <<>> =>
       raised = Head(failures) /\ current <= Len(calls) /\ raised \in CallOf(current)
  /\ failures = <<>> => raised \in {Nothing, NoStep}
  /\ raised = NoStep => \A s \in PStep : pstep[s] # "running"

\* The inductive invariant.
PInv ==
  /\ PTypeOK /\ RunningIsCurrent /\ AllOrNone /\ ValueIsInContext
  /\ FailureIsRaised /\ EarlierResultsAreThere

\* A call is about named steps.
LEMMA StepsOfCall ==
  ASSUME WellFormed(calls), NEW i \in 1..Len(calls)
  PROVE  CallOf(i) \subseteq PStep
<1>1. calls[i] \in PCall
  BY DEF WellFormed
<1>2. QED
  BY <1>1 DEF PCall, CallOf

\* No two calls have a step in common.
LEMMA OneCallOfStep ==
  ASSUME WellFormed(calls), NEW i \in 1..Len(calls), NEW j \in 1..Len(calls), i # j,
         NEW s \in CallOf(i)
  PROVE  s \in PStep /\ s \notin CallOf(j)
  BY StepsOfCall DEF WellFormed, CallOf

\* Before the first call.
LEMMA PInvInit == WellFormed(calls) /\ PStart => PInv
<1> SUFFICES ASSUME WellFormed(calls), PStart PROVE PInv
  OBVIOUS
<1>1. PTypeOK
  BY DEF PStart, PTypeOK, PStepState, WellFormed
<1>2. \A i \in 1..Len(calls) : Idle(i)
  BY StepsOfCall DEF PStart, Idle
<1>3. RunningIsCurrent /\ AllOrNone /\ ValueIsInContext /\ FailureIsRaised
  BY <1>2, PipelineAssumption
     DEF PStart, RunningIsCurrent, AllOrNone, ValueIsInContext, FailureIsRaised
<1>4. EarlierResultsAreThere
  BY DEF PStart, EarlierResultsAreThere
<1>5. QED
  BY <1>1, <1>3, <1>4 DEF PInv

\* The caller starts the steps T of the call it is in.
LEMMA StartStep ==
  ASSUME PInv, InProgress, Idle(current), UNCHANGED <<calls, current, context, failures, raised>>,
         NEW T, T \subseteq CallOf(current),
         calls[current].kind # "ifElse" => T = CallOf(current),
         pstep' = [s \in PStep |-> IF s \in T THEN "running" ELSE pstep[s]]
  PROVE  PInv'
<1> DEFINE i == current
<1> USE DEF PInv
<1>1. i \in 1..Len(calls) /\ calls \in Seq(PCall) /\ calls[i] \in PCall
  BY DEF PTypeOK, WellFormed, InProgress
<1>2. T \subseteq PStep
  BY <1>1 DEF CallOf, PCall
<1>3. \A s \in T : pstep[s] = "idle"
  BY DEF Idle
<1>4. PTypeOK'
  BY DEF PTypeOK, PStepState
<1>5. RunningIsCurrent'
  BY <1>1, <1>2 DEF RunningIsCurrent, CallOf
<1>6. AllOrNone'
  <2>1. ASSUME NEW j \in 1..Len(calls), calls[j].kind # "ifElse"
        PROVE  Idle(j)' \/ \A s \in CallOf(j) : pstep'[s] # "idle"
    <3>1. CASE j = i
      BY <3>1, <2>1, <1>2
    <3>2. CASE j # i
      <4>1. \A s \in CallOf(j) : s \in PStep /\ s \notin T
        BY <1>1, <3>2, OneCallOfStep DEF PTypeOK
      <4>2. \A s \in CallOf(j) : pstep'[s] = pstep[s]
        BY <4>1
      <4>3. QED
        BY <2>1, <4>2 DEF AllOrNone, Idle, CallOf
    <3>3. QED
      BY <3>1, <3>2
  <2>2. QED
    BY <2>1 DEF AllOrNone, Idle, CallOf
<1>7. ValueIsInContext' /\ FailureIsRaised'
  <2>1. ValueIsInContext'
    BY <1>2 DEF ValueIsInContext
  <2>2. raised = Nothing /\ failures = <<>>
    BY <1>1, PipelineAssumption, StepsOfCall DEF InProgress, FailureIsRaised, PTypeOK
  <2>3. FailureIsRaised'
    BY <2>2, PipelineAssumption DEF FailureIsRaised, Nothing, NoStep
  <2>4. QED
    BY <2>1, <2>3
<1>8. EarlierResultsAreThere'
  <2>1. ASSUME NEW j \in 1..(i - 1), NEW s \in CallOf(j)
        PROVE  s \in PStep /\ pstep'[s] = pstep[s]
    <3>1. j \in 1..Len(calls) /\ j # i
      BY <1>1 DEF PTypeOK
    <3>2. s \in PStep /\ s \notin T
      BY <1>1, <3>1, OneCallOfStep DEF PTypeOK
    <3>3. QED
      BY <3>2
  <2>2. QED
    BY <2>1 DEF EarlierResultsAreThere, CallOf
<1>9. QED
  BY <1>4, <1>5, <1>6, <1>7, <1>8

\* A running step ends in state st, and is a step of the call the caller is in.
LEMMA EndStep ==
  ASSUME PInv, NEW s \in PStep, NEW st \in {"void", "value", "failed"},
         pstep[s] = "running", pstep' = [pstep EXCEPT ![s] = st],
         UNCHANGED <<calls, current>>, context \subseteq context', context' \subseteq PStep,
         st = "value" => s \in context'
  PROVE  /\ pstep' \in [PStep -> PStepState]
         /\ current \in 1..Len(calls) /\ s \in CallOf(current)
         /\ RunningIsCurrent' /\ AllOrNone' /\ ValueIsInContext' /\ EarlierResultsAreThere'
<1> USE DEF PInv
<1>1. current \in 1..Len(calls) /\ s \in CallOf(current)
  BY DEF RunningIsCurrent, PTypeOK, WellFormed
<1>2. pstep' \in [PStep -> PStepState] /\ \A t \in PStep : pstep'[t] = IF t = s THEN st ELSE pstep[t]
  BY DEF PTypeOK, PStepState
<1>3. RunningIsCurrent' /\ ValueIsInContext'
  BY <1>2 DEF RunningIsCurrent, ValueIsInContext, CallOf
<1>4. ASSUME NEW j \in 1..Len(calls), NEW t \in CallOf(j)
      PROVE  t \in PStep
  BY StepsOfCall DEF PTypeOK
<1>5. AllOrNone'
  BY <1>2, <1>4 DEF AllOrNone, Idle, CallOf
<1>6. EarlierResultsAreThere'
  <2>1. ASSUME NEW j \in 1..(current - 1), NEW t \in CallOf(j)
        PROVE  t \in PStep /\ pstep'[t] = pstep[t]
    <3>1. j \in 1..Len(calls) /\ j # current
      BY <1>1
    <3>2. t # s
      BY <1>1, <3>1, OneCallOfStep DEF PTypeOK
    <3>3. QED
      BY <1>2, <1>4, <3>1, <3>2
  <2>2. QED
    BY <2>1 DEF EarlierResultsAreThere, CallOf
<1>7. QED
  BY <1>1, <1>2, <1>3, <1>5, <1>6

\* Every action keeps the invariant.
LEMMA PInvStep == PInv /\ [PNext]_pvars => PInv'
<1> SUFFICES ASSUME PInv, [PNext]_pvars PROVE PInv'
  OBVIOUS
<1>0. calls \in Seq(PCall) /\ current \in 1..(Len(calls) + 1)
  BY DEF PInv, PTypeOK, WellFormed
<1>1. CASE EmptyGroup
  <2>1. \A s \in PStep : pstep[s] # "running"
    BY <1>1 DEF EmptyGroup, PInv, RunningIsCurrent
  <2>2. failures = <<>>
    BY <1>1, PipelineAssumption DEF EmptyGroup, InProgress, PInv, FailureIsRaised, PTypeOK, WellFormed, PCall, CallOf
  <2>3. PTypeOK' /\ FailureIsRaised'
    BY <1>1, <2>1, <2>2 DEF EmptyGroup, PInv, PTypeOK, FailureIsRaised
  <2>4. RunningIsCurrent' /\ AllOrNone' /\ ValueIsInContext' /\ EarlierResultsAreThere'
    BY <1>1 DEF EmptyGroup, PInv, RunningIsCurrent, AllOrNone, ValueIsInContext,
                EarlierResultsAreThere, CallOf, Idle
  <2>5. QED
    BY <2>3, <2>4 DEF PInv
<1>2. CASE StartSteps
  BY <1>2, StartStep DEF StartSteps
<1>3. CASE StartBranch
  <2>1. PICK s \in CallOf(current) : pstep' = [pstep EXCEPT ![s] = "running"]
    BY <1>3 DEF StartBranch
  <2>2. pstep' = [t \in PStep |-> IF t \in {s} THEN "running" ELSE pstep[t]]
    BY <2>1 DEF PInv, PTypeOK
  <2>3. QED
    BY <1>3, <2>2, StartStep DEF StartBranch
<1>4. CASE CallReturns
  <2>1. current \in 1..Len(calls) /\ current' = current + 1
        /\ UNCHANGED <<calls, pstep, context, failures, raised>>
    BY <1>0, <1>4 DEF CallReturns, InProgress
  <2>2. \A s \in CallOf(current) : s \in PStep /\ pstep[s] \in PStepState
    BY <2>1, StepsOfCall DEF PInv, PTypeOK
  <2>3. failures = <<>> /\ \A s \in PStep : pstep[s] # "failed" /\ pstep[s] # "running"
    <3>1. failures = <<>>
      BY <1>4, <2>1, <2>2, PipelineAssumption DEF CallReturns, InProgress, PInv, FailureIsRaised
    <3>2. QED
      BY <1>4, <3>1 DEF CallReturns, PInv, FailureIsRaised, RunningIsCurrent
  <2>4. \A s \in CallOf(current) :
          /\ pstep[s] \in Succeeded \/ (calls[current].kind = "ifElse" /\ pstep[s] = "idle")
          /\ pstep[s] = "value" => s \in context
    BY <1>4, <2>1, <2>2, <2>3
       DEF CallReturns, PInv, AllOrNone, Idle, Succeeded, PStepState, ValueIsInContext
  <2>5. EarlierResultsAreThere'
    <3>1. \A j \in 1..(current' - 1) : j \in 1..(current - 1) \/ j = current
      BY <2>1
    <3>2. QED
      BY <1>4, <2>1, <2>4, <3>1 DEF CallReturns, PInv, EarlierResultsAreThere, CallOf
  <2>6. PTypeOK' /\ RunningIsCurrent' /\ AllOrNone' /\ ValueIsInContext' /\ FailureIsRaised'
    BY <2>1, <2>3 DEF PInv, PTypeOK, RunningIsCurrent, AllOrNone, ValueIsInContext,
                      FailureIsRaised, CallOf, Idle
  <2>7. QED
    BY <2>5, <2>6 DEF PInv
<1>5. ASSUME NEW s \in PStep, StepSucceeds(s) PROVE PInv'
  <2>1. PICK st \in {"void", "value"} :
          /\ pstep' = [pstep EXCEPT ![s] = st]
          /\ context \subseteq context' /\ context' \subseteq PStep
          /\ st = "value" => s \in context'
    BY <1>5 DEF StepSucceeds, PInv, PTypeOK
  <2>2. pstep[s] = "running" /\ UNCHANGED <<calls, current, failures, raised>>
    BY <1>5 DEF StepSucceeds
  <2>3. /\ pstep' \in [PStep -> PStepState]
        /\ RunningIsCurrent' /\ AllOrNone' /\ ValueIsInContext' /\ EarlierResultsAreThere'
    BY <2>1, <2>2, EndStep
  <2>4. PTypeOK'
    BY <2>1, <2>2, <2>3 DEF PInv, PTypeOK
  <2>5. FailureIsRaised'
    BY <2>1, <2>2 DEF PInv, PTypeOK, FailureIsRaised, CallOf
  <2>6. QED
    BY <2>3, <2>4, <2>5 DEF PInv
<1>6. ASSUME NEW s \in PStep, StepFails(s) PROVE PInv'
  <2>1. /\ pstep[s] = "running" /\ pstep' = [pstep EXCEPT ![s] = "failed"]
        /\ UNCHANGED <<calls, current, context>>
        /\ failures' = Append(failures, s)
        /\ raised' = IF raised = Nothing THEN s ELSE raised
    BY <1>6 DEF StepFails
  <2>2. /\ pstep' \in [PStep -> PStepState]
        /\ current \in 1..Len(calls) /\ s \in CallOf(current)
        /\ RunningIsCurrent' /\ AllOrNone' /\ ValueIsInContext' /\ EarlierResultsAreThere'
    BY <2>1, EndStep DEF PInv, PTypeOK
  <2>3. PTypeOK'
    BY <2>1, <2>2 DEF PInv, PTypeOK
  <2>4. failures' # <<>> /\ Head(failures') = IF failures = <<>> THEN s ELSE Head(failures)
    BY <2>1 DEF PInv, PTypeOK
  <2>5. raised = Nothing <=> failures = <<>>
    BY <2>1, PipelineAssumption DEF PInv, PTypeOK, FailureIsRaised, WellFormed, PCall, CallOf
  <2>6. raised' # NoStep
    BY <2>1, PipelineAssumption DEF PInv, FailureIsRaised
  <2>7. FailureIsRaised'
    BY <2>1, <2>2, <2>4, <2>5, <2>6 DEF PInv, FailureIsRaised, CallOf
  <2>8. QED
    BY <2>2, <2>3, <2>7 DEF PInv
<1>7. CASE UNCHANGED pvars
  BY <1>7 DEF pvars, PInv, PTypeOK, RunningIsCurrent, AllOrNone, ValueIsInContext,
              FailureIsRaised, EarlierResultsAreThere, CallOf, Idle
<1>8. QED
  BY <1>1, <1>2, <1>3, <1>4, <1>5, <1>6, <1>7 DEF PNext

\* The invariant in every reachable state.
LEMMA PipelineInvariance == PSpec => []PInv
  BY PInvInit, PInvStep, PTL DEF PSpec

\* When a call of the workflow is reached, every step of the calls before it has
\* succeeded, and what getResult promises of it is in the context.
THEOREM ResultsAreThere == PSpec => []EarlierResultsAreThere
<1>1. PInv => EarlierResultsAreThere
  BY DEF PInv
<1>2. QED
  BY <1>1, PipelineInvariance, PTL

\* The caller is thrown the error of the step of a call that failed first.
THEOREM FirstFailureReported == PSpec => []FirstFailureIsRaised
<1>1. PInv => FirstFailureIsRaised
  BY DEF PInv, FailureIsRaised, RunningIsCurrent, FirstFailureIsRaised
<1>2. QED
  BY <1>1, PipelineInvariance, PTL

\* The workflows TLC goes through are among those the theorems are about.
LEMMA ProgramsAreWellFormed == \A p \in Programs : WellFormed(p)
<1> SUFFICES ASSUME NEW p \in Programs PROVE WellFormed(p)
  OBVIOUS
<1>1. ASSUME NEW a \in PCall, p = <<a>> PROVE WellFormed(p)
  BY <1>1 DEF WellFormed
<1>2. ASSUME NEW a \in PCall, NEW b \in PCall, p = <<a, b>>, a.steps \intersect b.steps = {}
      PROVE  WellFormed(p)
  <2>1. p \in Seq(PCall) /\ Len(p) = 2 /\ p[1] = a /\ p[2] = b
    BY <1>2
  <2>2. QED
    BY <1>2, <2>1 DEF WellFormed
<1>3. \A k \in {"step", "parallel", "ifElse"}, S \in SUBSET PStep :
        [kind |-> k, steps |-> S] \in PCall
  BY DEF PCall
<1>4. \/ \E a \in PCall : p = <<a>>
      \/ \E a \in PCall, b \in PCall : p = <<a, b>> /\ a.steps \intersect b.steps = {}
  BY <1>3 DEF Programs
<1>5. QED
  BY <1>1, <1>2, <1>4

-----------------------------------------------------------------------------
(***************************************************************************)
(* executeBatchArrayAsync, for every number of items and every batch size. *)
(*                                                                         *)
(* ResultIsComplete speaks of the lists that a loop over the items fills; by *)
(* induction over the items, the recursive function that stands for the loop *)
(* lists the items of one outcome in their order (ResultsAreInOrder), and the *)
(* items of both outcomes are all items (ResultsAreAll).                   *)
(***************************************************************************)

\* f[n]: the items with outcome s among the first n.
ByItem(f, s) ==
  /\ f \in [0..Len(started) -> Seq(Nat)]
  /\ ResultsOf(s) = f[Len(started)]
  /\ f[0] = <<>>
  /\ \A n \in 1..Len(started) :
       f[n] = IF handler[started[n]] = s THEN Append(f[n - 1], started[n]) ELSE f[n - 1]

\* ResultsOf is what its recursion says: the function it chooses exists, and takes
\* sequences as values.
LEMMA ResultsByItem ==
  ASSUME NEW s, started \in Seq(Nat)
  PROVE  \E f : ByItem(f, s)
<1> DEFINE L == Len(started)
           Def(f) == f = [n \in 0..L |->
                        IF n = 0 THEN <<>>
                        ELSE IF handler[started[n]] = s THEN Append(f[n - 1], started[n])
                             ELSE f[n - 1]]
           upTo == CHOOSE f : Def(f)
           S == Seq(Nat)
           v == <<>>
           d == [p \in Nat \X S |->
                  IF p[1] \in 1..L /\ handler[started[p[1]]] = s
                    THEN Append(p[2], started[p[1]]) ELSE p[2]]
<1>1. ResultsOf(s) = upTo[L]
  BY DEF ResultsOf
<1>2. L \in Nat /\ \A n \in 1..L : started[n] \in Nat
  OBVIOUS
<1>3. d \in [Nat \X S -> S] /\ v \in S
  BY <1>2
<1>4. PICK f : IsRecursion(f, S, v, d)
  <2> HIDE DEF S, v, d
  <2>1. QED
    BY <1>3, RecursionExists
<1>5. /\ f \in [Nat -> S] /\ f[0] = <<>>
      /\ \A n \in Nat : f[n + 1] = d[<<n + 1, f[n]>>]
  BY <1>4 DEF IsRecursion
<1>6. \A n \in 1..L : f[n] = IF handler[started[n]] = s THEN Append(f[n - 1], started[n]) ELSE f[n - 1]
  <2>1. SUFFICES ASSUME NEW n \in 1..L
                 PROVE  f[n] = IF handler[started[n]] = s THEN Append(f[n - 1], started[n]) ELSE f[n - 1]
    OBVIOUS
  <2>2. n - 1 \in Nat /\ n \in Nat /\ (n - 1) + 1 = n
    BY <1>2
  <2>3. f[n] = d[<<n, f[n - 1]>>]
    BY <1>5, <2>2
  <2>4. f[n - 1] \in S
    BY <1>5, <2>2
  <2>5. QED
    BY <2>2, <2>3, <2>4
<1> DEFINE g == [n \in 0..L |-> f[n]]
<1>7. g \in [0..L -> S] /\ g[0] = <<>> /\ L \in 0..L
  BY <1>2, <1>5
<1>8. \A n \in 1..L : g[n] = IF handler[started[n]] = s THEN Append(g[n - 1], started[n]) ELSE g[n - 1]
  <2>1. \A n \in 1..L : n \in 0..L /\ n - 1 \in 0..L
    BY <1>2
  <2>2. QED
    BY <1>6, <2>1
<1> HIDE DEF g, d
<1>9. Def(g)
  <2>1. \A n \in 0..L : n = 0 \/ n \in 1..L
    BY <1>2
  <2>2. QED
    BY <1>7, <1>8, <2>1
<1>10. Def(upTo)
  <2> HIDE DEF Def
  <2>1. QED
    BY <1>9
<1> HIDE DEF upTo
<1>11. /\ upTo[0] = <<>>
       /\ \A n \in 1..L : upTo[n] = IF handler[started[n]] = s
                                      THEN Append(upTo[n - 1], started[n]) ELSE upTo[n - 1]
       /\ DOMAIN upTo = 0..L
       /\ upTo = [n \in 0..L |-> upTo[n]]
  <2>1. \A n \in 1..L : n \in 0..L /\ n # 0
    BY <1>2
  <2>2. 0 \in 0..L
    BY <1>2
  <2> HIDE DEF L
  <2>3. QED
    BY <1>10, <2>1, <2>2
<1> HIDE DEF Def
<1>12. \A n \in 0..L : upTo[n] \in S
  <2> DEFINE T == {n \in Nat : n \in 0..L => upTo[n] \in S}
  <2>1. 0 \in T
    BY <1>11, <1>3
  <2>2. ASSUME NEW n \in Nat, n \in T PROVE n + 1 \in T
    <3>1. SUFFICES ASSUME n + 1 \in 0..L PROVE upTo[n + 1] \in S
      OBVIOUS
    <3>2. n + 1 \in 1..L /\ n \in 0..L /\ (n + 1) - 1 = n
      BY <1>2, <3>1
    <3>3. upTo[n] \in S
      BY <2>2, <3>2
    <3>4. started[n + 1] \in Nat
      BY <1>2, <3>2
    <3>5. upTo[n + 1] = IF handler[started[n + 1]] = s
                          THEN Append(upTo[n], started[n + 1]) ELSE upTo[n]
      BY <1>11, <3>2
    <3> HIDE DEF L
    <3>6. QED
      BY <3>3, <3>4, <3>5
  <2>3. Nat \subseteq T
    <3> HIDE DEF T
    <3>1. QED
      BY <2>1, <2>2, SetInduction
  <2>4. QED
    BY <1>2, <2>3
<1>13. upTo \in [0..L -> S]
  BY <1>11, <1>12
<1>14. ByItem(upTo, s)
  BY <1>1, <1>11, <1>13 DEF ByItem
<1>15. QED
  BY <1>14

\* In the order of the items, none twice.
Ascending(list) == \A j, k \in 1..Len(list) : j < k => list[j] < list[k]

\* The items were started in order, each once.
InOrder == Len(started) \in 0..count /\ started = [i \in 1..Len(started) |-> i]

\* The loop has gone through all items.
AllStarted == bphase \in {"wait", "returned"} => Len(started) = count

\* Promise.all has waited for all handlers.
AllSettled == bphase = "returned" => \A i \in Items : handler[i] \in Settled

\* The lists are filled at the end.
NoResultsYet == bphase # "returned" => success = <<>> /\ error = <<>>

\* The inductive invariant.
BAInv ==
  /\ count \in 0..MaxItems
  /\ handler \in [1..MaxItems -> HandlerState]
  /\ bphase \in BatchPhase
  /\ InOrder /\ AllStarted /\ AllSettled /\ NoResultsYet
  /\ ResultIsComplete

\* The same when the n-th item started is n.
ByNumber(f, s) ==
  /\ f \in [0..count -> Seq(Nat)]
  /\ ResultsOf(s) = f[count]
  /\ f[0] = <<>>
  /\ \A n \in 1..count :
       f[n] = IF handler[n] = s THEN Append(f[n - 1], n) ELSE f[n - 1]

\* The recursion in a batch whose items were started in order.
LEMMA ResultsByNumber ==
  ASSUME NEW s, count \in Nat, Len(started) = count, InOrder
  PROVE  \E f : ByNumber(f, s)
<1>1. started \in Seq(Nat) /\ \A n \in 1..count : started[n] = n
  <2>1. started = [i \in 1..count |-> i]
    BY DEF InOrder
  <2>2. QED
    BY <2>1
<1>2. PICK f : ByItem(f, s)
  BY <1>1, ResultsByItem
<1>3. \A n \in 1..count : f[n] = IF handler[n] = s THEN Append(f[n - 1], n) ELSE f[n - 1]
  <2>1. SUFFICES ASSUME NEW n \in 1..count
                 PROVE  f[n] = IF handler[n] = s THEN Append(f[n - 1], n) ELSE f[n - 1]
    OBVIOUS
  <2>2. started[n] = n
    BY <1>1
  <2>3. f[n] = IF handler[started[n]] = s THEN Append(f[n - 1], started[n]) ELSE f[n - 1]
    BY <1>2 DEF ByItem
  <2>4. QED
    BY <2>2, <2>3, Zenon
<1>4. ByNumber(f, s)
  BY <1>2, <1>3 DEF ByItem, ByNumber
<1>5. QED
  BY <1>4

\* The items of one outcome, in ascending order.
LEMMA ResultsAreInOrder ==
  ASSUME NEW s, count \in Nat, Len(started) = count, InOrder
  PROVE  /\ ResultsOf(s) \in Seq(Nat)
         /\ \A k \in 1..Len(ResultsOf(s)) : handler[ResultsOf(s)[k]] = s
         /\ Ascending(ResultsOf(s))
<1>2. PICK f : ByNumber(f, s)
  BY ResultsByNumber
<1> DEFINE Good(n) == /\ f[n] \in Seq(Nat)
                      /\ \A k \in 1..Len(f[n]) : f[n][k] <= n /\ handler[f[n][k]] = s
                      /\ Ascending(f[n])
           T == {n \in Nat : n \in 0..count => Good(n)}
<1>3. 0 \in T
  BY <1>2 DEF ByNumber, Ascending
<1>4. ASSUME NEW n \in Nat, n \in T PROVE n + 1 \in T
  <2>1. SUFFICES ASSUME n + 1 \in 0..count PROVE Good(n + 1)
    OBVIOUS
  <2>2. n + 1 \in 1..count /\ n \in 0..count /\ (n + 1) - 1 = n
    BY <2>1
  <2>3. Good(n)
    BY <1>4, <2>2
  <2>4. f[n + 1] = IF handler[n + 1] = s THEN Append(f[n], n + 1) ELSE f[n]
    BY <1>2, <2>2 DEF ByNumber
  <2>5. CASE handler[n + 1] # s
    BY <2>3, <2>4, <2>5
  <2>6. CASE handler[n + 1] = s
    <3>1. f[n + 1] = Append(f[n], n + 1)
      BY <2>4, <2>6
    <3>2. /\ f[n + 1] \in Seq(Nat) /\ Len(f[n + 1]) = Len(f[n]) + 1
          /\ f[n + 1][Len(f[n]) + 1] = n + 1
          /\ \A k \in 1..Len(f[n]) : f[n + 1][k] = f[n][k]
      BY <2>3, <3>1
    <3>3. \A k \in 1..Len(f[n + 1]) : k \in 1..Len(f[n]) \/ k = Len(f[n]) + 1
      BY <2>3, <3>2
    <3>4. \A k \in 1..Len(f[n]) : f[n][k] \in Nat
      BY <2>3
    <3>5. \A k \in 1..Len(f[n + 1]) : f[n + 1][k] <= n + 1 /\ handler[f[n + 1][k]] = s
      <4>1. ASSUME NEW k \in 1..Len(f[n]) PROVE f[n + 1][k] <= n + 1 /\ handler[f[n + 1][k]] = s
        <5>1. f[n][k] \in Nat /\ f[n][k] <= n /\ handler[f[n][k]] = s
          BY <2>3, <3>4
        <5>2. f[n + 1][k] = f[n][k]
          BY <3>2
        <5>3. QED
          BY <5>1, <5>2
      <4>2. f[n + 1][Len(f[n]) + 1] <= n + 1 /\ handler[f[n + 1][Len(f[n]) + 1]] = s
        BY <2>6, <3>2
      <4>3. QED
        BY <3>3, <4>1, <4>2
    <3>6. Ascending(f[n + 1])
      <4>1. SUFFICES ASSUME NEW j \in 1..Len(f[n + 1]), NEW k \in 1..Len(f[n + 1]), j < k
                     PROVE  f[n + 1][j] < f[n + 1][k]
        BY DEF Ascending
      <4>2. j \in 1..Len(f[n]) /\ f[n + 1][j] = f[n][j]
        BY <2>3, <3>2, <3>3, <4>1
      <4>3. CASE k \in 1..Len(f[n])
        BY <2>3, <3>2, <4>1, <4>2, <4>3 DEF Ascending
      <4>4. CASE k = Len(f[n]) + 1
        <5>1. f[n][j] \in Nat /\ f[n][j] <= n
          BY <2>3, <3>4, <4>2
        <5>2. f[n + 1][k] = n + 1
          BY <3>2, <4>4
        <5>3. QED
          BY <4>2, <5>1, <5>2
      <4>5. QED
        BY <3>3, <4>3, <4>4
    <3>7. QED
      BY <3>2, <3>5, <3>6
  <2>7. QED
    BY <2>5, <2>6
<1>5. Nat \subseteq T
  <2> HIDE DEF T
  <2>1. QED
    BY <1>3, <1>4, SetInduction
<1>6. Good(count)
  BY <1>5
<1>7. QED
  BY <1>2, <1>6 DEF ByNumber

\* Every item is in one of the two lists.
LEMMA ResultsAreAll ==
  ASSUME count \in Nat, Len(started) = count, InOrder,
         \A i \in Items : handler[i] \in Settled
  PROVE  Len(ResultsOf("ok")) + Len(ResultsOf("err")) = count
<1>2. PICK f : ByNumber(f, "ok")
  BY ResultsByNumber
<1>3. PICK g : ByNumber(g, "err")
  BY ResultsByNumber
<1> DEFINE Sum(n) == Len(f[n]) + Len(g[n]) = n
           T == {n \in Nat : n \in 0..count => Sum(n)}
<1>4. 0 \in T
  BY <1>2, <1>3 DEF ByNumber
<1>5. ASSUME NEW n \in Nat, n \in T PROVE n + 1 \in T
  <2>1. SUFFICES ASSUME n + 1 \in 0..count PROVE Sum(n + 1)
    <3> HIDE DEF Sum
    <3>1. QED
      OBVIOUS
  <2>2. n + 1 \in 1..count /\ n \in 0..count /\ (n + 1) - 1 = n
    BY <2>1
  <2>3. Len(f[n]) + Len(g[n]) = n /\ f[n] \in Seq(Nat) /\ g[n] \in Seq(Nat)
    BY <1>2, <1>3, <1>5, <2>2 DEF ByNumber
  <2>4. /\ f[n + 1] = IF handler[n + 1] = "ok" THEN Append(f[n], n + 1) ELSE f[n]
        /\ g[n + 1] = IF handler[n + 1] = "err" THEN Append(g[n], n + 1) ELSE g[n]
    BY <1>2, <1>3, <2>2 DEF ByNumber
  <2>5. handler[n + 1] \in {"ok", "err"}
    BY <2>2 DEF Items, Settled
  <2>6. Len(Append(f[n], n + 1)) = Len(f[n]) + 1 /\ Len(Append(g[n], n + 1)) = Len(g[n]) + 1
    BY <2>3
  <2>7. Len(f[n]) \in Nat /\ Len(g[n]) \in Nat
    BY <2>3
  <2>8. CASE handler[n + 1] = "ok"
    <3>1. f[n + 1] = Append(f[n], n + 1) /\ g[n + 1] = g[n]
      BY <2>4, <2>8
    <3>2. Len(f[n + 1]) = Len(f[n]) + 1 /\ Len(g[n + 1]) = Len(g[n])
      BY <2>6, <3>1, Zenon
    <3>3. (Len(f[n]) + 1) + Len(g[n]) = n + 1
      <4>1. \A a, b \in Nat : a + b = n => (a + 1) + b = n + 1
        OBVIOUS
      <4>2. QED
        BY <2>3, <2>7, <4>1, Zenon
    <3>4. QED
      BY <3>2, <3>3, Zenon DEF Sum
  <2>9. CASE handler[n + 1] = "err"
    <3>1. f[n + 1] = f[n] /\ g[n + 1] = Append(g[n], n + 1)
      BY <2>4, <2>9
    <3>2. Len(f[n + 1]) = Len(f[n]) /\ Len(g[n + 1]) = Len(g[n]) + 1
      BY <2>6, <3>1, Zenon
    <3>3. Len(f[n]) + (Len(g[n]) + 1) = n + 1
      <4>1. \A a, b \in Nat : a + b = n => a + (b + 1) = n + 1
        OBVIOUS
      <4>2. QED
        BY <2>3, <2>7, <4>1, Zenon
    <3>4. QED
      BY <3>2, <3>3, Zenon DEF Sum
  <2>10. QED
    BY <2>5, <2>8, <2>9
<1>6. Nat \subseteq T
  <2> HIDE DEF T
  <2>1. QED
    BY <1>4, <1>5, SetInduction
<1>7. QED
  BY <1>2, <1>3, <1>6 DEF ByNumber

\* No item has been started.
LEMMA BAInvInit == BAInit => BAInv
BY BatchAssumption DEF BAInit, BAInv, InOrder, AllStarted, AllSettled, NoResultsYet,
   ResultIsComplete, BatchPhase, HandlerState

\* The next items in order are started.
LEMMA StartInOrder ==
  ASSUME BAInv, NEW n \in Nat, Len(started) + n <= count, StartItems(n), UNCHANGED count
  PROVE  InOrder' /\ handler' \in [1..MaxItems -> HandlerState]
<1> DEFINE L == Len(started)
           m == L + n
<1>1. L \in Nat /\ started = [i \in 1..L |-> i] /\ count \in Nat
  BY BatchAssumption DEF BAInv, InOrder
<1>2. started' = started \o [k \in 1..n |-> L + k]
  BY DEF StartItems
<1>3. started \in Seq(Nat) /\ [k \in 1..n |-> L + k] \in Seq(Nat) /\ Len([k \in 1..n |-> L + k]) = n
  <2> HIDE DEF L
  <2>1. QED
    BY <1>1
<1>4. started' \in Seq(Nat) /\ Len(started') = m
  BY <1>2, <1>3 DEF ByNumber
<1>5. \A i \in 1..m : started'[i] = i
  <2> HIDE DEF L
  <2>1. SUFFICES ASSUME NEW i \in 1..m PROVE started'[i] = i
    OBVIOUS
  <2>2. CASE i \in 1..L
    BY <1>1, <1>2, <1>3, <2>2 DEF L
  <2>3. CASE i \in (L + 1)..m
    <3>1. i - L \in 1..n /\ L + (i - L) = i
      BY <1>1, <2>3
    <3>2. started'[i] = [k \in 1..n |-> L + k][i - L]
      BY <1>1, <1>2, <1>3, <2>3 DEF L
    <3>3. QED
      BY <3>1, <3>2
  <2>4. QED
    BY <1>1, <2>2, <2>3
<1>6. started' = [i \in 1..m |-> i]
  <2> HIDE DEF L
  <2>1. started' = [i \in 1..m |-> started'[i]]
    BY <1>1, <1>4
  <2>2. QED
    BY <1>5, <2>1
<1>7. InOrder'
  <2> HIDE DEF L
  <2>1. m \in 0..count
    BY <1>1 DEF L
  <2>2. QED
    BY <1>4, <1>6, <2>1 DEF InOrder
<1>8. handler' \in [1..MaxItems -> HandlerState]
  BY DEF BAInv, StartItems, HandlerState
<1>9. QED
  BY <1>7, <1>8

\* Every action keeps the invariant.
LEMMA BAInvStep == BAInv /\ [BANext]_bavars => BAInv'
<1> SUFFICES ASSUME BAInv, [BANext]_bavars PROVE BAInv'
  OBVIOUS
<1> USE BatchAssumption
<1>1. CASE StartBatch
  <2>1. Smaller(BatchSize, count - Len(started)) \in Nat
        /\ Len(started) + Smaller(BatchSize, count - Len(started)) <= count
    BY <1>1 DEF StartBatch, BAInv, InOrder, Smaller
  <2>2. InOrder' /\ handler' \in [1..MaxItems -> HandlerState]
    BY <1>1, <2>1, StartInOrder DEF StartBatch
  <2>3. QED
    BY <1>1, <2>2 DEF StartBatch, BAInv, AllStarted, AllSettled, NoResultsYet,
      ResultIsComplete, BatchPhase
<1>2. CASE StartItem
  <2>1. Len(started) + 1 <= count
    BY <1>2 DEF StartItem, BAInv, InOrder
  <2>2. InOrder' /\ handler' \in [1..MaxItems -> HandlerState]
    BY <1>2, <2>1, StartInOrder DEF StartItem
  <2>3. QED
    BY <1>2, <2>2 DEF StartItem, BAInv, AllStarted, AllSettled, NoResultsYet,
      ResultIsComplete, BatchPhase
<1>3. CASE Immediate
  BY <1>3 DEF Immediate, BAInv, InOrder, AllStarted, AllSettled, NoResultsYet,
     ResultIsComplete, BatchPhase
<1>4. CASE LoopOver
  <2>1. /\ Len(started) = count /\ UNCHANGED <<count, started, handler, success, error>>
        /\ bphase = "loop" /\ bphase' = IF count = 0 THEN "returned" ELSE "wait"
    <3>1. Len(started) >= count /\ Len(started) \in 0..count /\ count \in Nat
      BY <1>4 DEF LoopOver, BAInv, InOrder
    <3>2. Len(started) = count
      BY <3>1
    <3>3. QED
      BY <1>4, <3>2 DEF LoopOver
  <2>2. success = <<>> /\ error = <<>>
    BY <2>1 DEF BAInv, NoResultsYet
  <2>3. ResultIsComplete'
    <3>1. SUFFICES ASSUME bphase' = "returned" PROVE ResultIsComplete'
      BY DEF ResultIsComplete
    <3>2. count = 0 /\ started' = [i \in Items' |-> i]
      BY <2>1, <3>1 DEF BAInv, InOrder, Items
    <3>3. QED
      BY <2>1, <2>2, <3>2 DEF ResultIsComplete
  <2>4. AllSettled' /\ AllStarted' /\ NoResultsYet'
    BY <2>1, <2>2 DEF AllSettled, AllStarted, NoResultsYet, Items
  <2>5. InOrder'
    BY <2>1 DEF BAInv, InOrder
  <2>6. QED
    BY <2>1, <2>3, <2>4, <2>5 DEF BAInv, BatchPhase
<1>5. CASE Return
  <2>1. /\ bphase = "wait" /\ bphase' = "returned" /\ UNCHANGED <<count, started, handler>>
        /\ success' = ResultsOf("ok") /\ error' = ResultsOf("err")
        /\ \A i \in Items : handler[i] \in Settled
    BY <1>5 DEF Return
  <2>2. count \in Nat /\ Len(started) = count /\ InOrder
    BY <2>1 DEF BAInv, AllStarted
  <2>3. /\ Len(success') + Len(error') = count
        /\ \A k \in 1..Len(success') : handler[success'[k]] = "ok"
        /\ \A k \in 1..Len(error') : handler[error'[k]] = "err"
        /\ Ascending(success') /\ Ascending(error')
    BY <2>1, <2>2, ResultsAreInOrder, ResultsAreAll
  <2>4. ResultIsComplete'
    <3>1. started = [i \in Items |-> i]
      BY <2>2 DEF InOrder, Items
    <3>2. QED
      BY <2>1, <2>3, <3>1 DEF ResultIsComplete, Ascending, Items
  <2>5. QED
    BY <2>1, <2>2, <2>4 DEF BAInv, InOrder, AllStarted, AllSettled, NoResultsYet, Items, BatchPhase
<1>6. ASSUME NEW i \in Items, HandlerEnds(i) PROVE BAInv'
  <2>1. PICK s \in Settled : handler' = [handler EXCEPT ![i] = s]
    BY <1>6 DEF HandlerEnds
  <2>2. handler[i] = "running" /\ UNCHANGED <<count, started, bphase, success, error>>
    BY <1>6 DEF HandlerEnds
  <2>3. bphase # "returned"
    BY <2>2 DEF BAInv, AllSettled, Settled
  <2>4. QED
    BY <2>1, <2>2, <2>3 DEF BAInv, InOrder, AllStarted, AllSettled, NoResultsYet,
       ResultIsComplete, HandlerState, Settled
<1>7. ASSUME NEW i \in Items, HandlerThrows(i) PROVE BAInv'
  <2>1. /\ handler[i] = "running" /\ UNCHANGED <<count, started, success, error>>
        /\ handler' = [handler EXCEPT ![i] = "thrown"]
        /\ bphase' \in {"rejected", "crash", bphase}
    BY <1>7 DEF HandlerThrows
  <2>2. bphase # "returned"
    BY <2>1 DEF BAInv, AllSettled, Settled
  <2>3. QED
    BY <2>1, <2>2 DEF BAInv, InOrder, AllStarted, AllSettled, NoResultsYet,
       ResultIsComplete, HandlerState, BatchPhase
<1>8. CASE UNCHANGED bavars
  BY <1>8 DEF bavars, BAInv, InOrder, AllStarted, AllSettled, NoResultsYet,
     ResultIsComplete, Items
<1>9. QED
  BY <1>1, <1>2, <1>3, <1>4, <1>5, <1>6, <1>7, <1>8 DEF BANext

\* A batch that returns has handled every item once and lists it under the
\* outcome of its handler, whatever its size and the order the handlers end in.
THEOREM BatchIsComplete == BASpec => []ResultIsComplete
<1>1. BAInv => ResultIsComplete
  BY DEF BAInv
<1>2. QED
  BY BAInvInit, BAInvStep, <1>1, PTL DEF BASpec
=============================================================================
