--------------------------------- MODULE Saga ---------------------------------
(***************************************************************************)
(* SagaOrchestratorBuilder: one saga object, whose runAsync is called      *)
(* several times, from the first step or from a label.  The steps are      *)
(* numbered in the order of step(); how an action ends is up to the caller,*)
(* who may have wrapped it in tryCatchSagaAsync.                           *)
(***************************************************************************)
EXTENDS Naturals

CONSTANTS
  NumSteps,    \* number of steps
  MaxRetry,    \* bound: the largest `retry' of a step
  MaxRuns      \* bound: how often runAsync is called

ASSUME SagaAssumption == NumSteps \in Nat /\ MaxRetry \in Nat /\ MaxRuns \in Nat

SagaStep == 1..NumSteps

VARIABLES
  retry,      \* [SagaStep -> attempts of the step, step.retry ?? 1]
  wrap,       \* [SagaStep -> how its action is wrapped]
  phase,      \* where runAsync is
  at,         \* the step of the loop
  attempt,    \* failed attempts of that step
  begun,      \* the step this run started from, NumSteps + 1 if the label is unknown
  executed,   \* steps this run has executed and not yet compensated
  tried,      \* steps whose compensation this run has tried
  allDone,    \* allCompensated
  effect,     \* [SagaStep -> its action has succeeded, and no compensation since]
  verdict,    \* how the last run ended
  stopped,    \* the step at which it ended
  sagaRuns

svars == <<retry, wrap, phase, at, attempt, begun, executed, tried, allDone,
           effect, verdict, stopped, sagaRuns>>

config == <<retry, wrap>>
run == <<begun, sagaRuns>>

Wrap == {"none", "try", "tryFallback"}

\* How an action ends: an Ok or an Err result, or an exception.
Ending == {"ok", "err", "throw"}

\* tryCatchSagaAsync: an Err result or an exception goes to the fallback.  A
\* fallback that throws inside the try block is called once more by the catch
\* block, and what that call throws leaves the function.
TryCatchSaga(hasFallback, onTry, first, second) ==
  IF hasFallback
    THEN CASE onTry = "ok" -> "ok"
           [] onTry = "err" -> IF first = "throw" THEN second ELSE first
           [] onTry = "throw" -> first
    ELSE IF onTry = "throw" THEN "err" ELSE onTry

ActionEndings(i) ==
  IF wrap[i] = "none"
    THEN Ending
    ELSE {TryCatchSaga(wrap[i] = "tryFallback", t, f, s) : t, f, s \in Ending}

Active == phase \in {"action", "onError", "compensate"}

-----------------------------------------------------------------------------
\* runAsync(resumeFromLabel), with no label, with the label of a step or with
\* a label that no step has.
Run ==
  /\ ~Active
  /\ sagaRuns < MaxRuns
  /\ sagaRuns' = sagaRuns + 1
  /\ begun' \in 1..(NumSteps + 1)
  /\ at' = begun'
  /\ phase' = "action"
  /\ attempt' = 0 /\ executed' = {} /\ tried' = {} /\ allDone' = TRUE
  /\ UNCHANGED <<config, effect, verdict, stopped>>

\* The loop goes on to the next step.
NextStep == at' = at + 1 /\ attempt' = 0

End(v) == phase' = "over" /\ verdict' = v /\ stopped' = at

\* A step with retry 0: the loop of attempts is not entered.
SkipStep ==
  /\ phase = "action" /\ at <= NumSteps
  /\ retry[at] = 0
  /\ NextStep
  /\ UNCHANGED <<config, run, phase, executed, tried, allDone, effect, verdict, stopped>>

\* result.isOk()
ActionOk ==
  /\ phase = "action" /\ at <= NumSteps
  /\ retry[at] > 0 /\ "ok" \in ActionEndings(at)
  /\ effect' = [effect EXCEPT ![at] = TRUE]
  /\ executed' = executed \union {at}
  /\ NextStep
  /\ UNCHANGED <<config, run, phase, tried, allDone, verdict, stopped>>

\* An Err result: attempt++.
ActionErr ==
  /\ phase = "action" /\ at <= NumSteps
  /\ retry[at] > 0 /\ "err" \in ActionEndings(at)
  /\ attempt' = attempt + 1
  /\ phase' = "onError"
  /\ UNCHANGED <<config, run, at, executed, tried, allDone, effect, verdict, stopped>>

\* The action, or onError, throws: `throw err', and nothing is compensated.
Throws ==
  /\ at <= NumSteps
  /\ \/ phase = "action" /\ retry[at] > 0 /\ "throw" \in ActionEndings(at)
     \/ phase = "onError"
  /\ End("thrown")
  /\ UNCHANGED <<config, run, at, attempt, executed, tried, allDone, effect>>

\* Slip: a failed attempt is not counted.
RetryForEver ==
  /\ phase = "onError"
  /\ phase' = "action"
  /\ attempt' = attempt - 1
  /\ UNCHANGED <<config, run, at, executed, tried, allDone, effect, verdict, stopped>>

\* onError is over (or there is none): try again, or start to compensate.
AfterError ==
  /\ phase = "onError"
  /\ phase' = IF attempt >= retry[at] THEN "compensate" ELSE "action"
  /\ UNCHANGED <<config, run, at, attempt, executed, tried, allDone, effect,
                 verdict, stopped>>

\* Slip: compensation goes forward.
CompensateForward ==
  /\ phase = "compensate" /\ executed # {}
  /\ \E i \in executed :
       /\ \A j \in executed : i <= j
       /\ executed' = executed \ {i}
       /\ tried' = tried \union {i}
       /\ \/ effect' = [effect EXCEPT ![i] = FALSE] /\ UNCHANGED allDone
          \/ allDone' = FALSE /\ UNCHANGED effect
  /\ UNCHANGED <<config, run, phase, at, attempt, verdict, stopped>>

\* Slip: an exception of compensate is swallowed without a trace.
CompensateSilently ==
  /\ phase = "compensate" /\ executed # {}
  /\ \E i \in executed :
       /\ \A j \in executed : j <= i
       /\ executed' = executed \ {i}
       /\ tried' = tried \union {i}
       /\ effect' \in {effect, [effect EXCEPT ![i] = FALSE]}
  /\ UNCHANGED <<config, run, phase, at, attempt, allDone, verdict, stopped>>

\* for (const executed of executedSteps.reverse()): compensate succeeds, or
\* throws, which is noted in allCompensated.
Compensate ==
  /\ phase = "compensate" /\ executed # {}
  /\ \E i \in executed :
       /\ \A j \in executed : j <= i
       /\ executed' = executed \ {i}
       /\ tried' = tried \union {i}
       /\ \/ effect' = [effect EXCEPT ![i] = FALSE] /\ UNCHANGED allDone
          \/ allDone' = FALSE /\ UNCHANGED effect
  /\ UNCHANGED <<config, run, phase, at, attempt, verdict, stopped>>

\* throw new SagaExecutionException(..., allCompensated, ...)
Compensated ==
  /\ phase = "compensate" /\ executed = {}
  /\ End(IF allDone THEN "compensated" ELSE "partly")
  /\ UNCHANGED <<config, run, at, attempt, executed, tried, allDone, effect>>

\* Slip: the loop ends one step early.
FinishEarly ==
  /\ phase = "action" /\ at >= NumSteps
  /\ End("success")
  /\ UNCHANGED <<config, run, at, attempt, executed, tried, allDone, effect>>

\* this.sagaCtx.isSuccess = true.  The verdict is that of one run, which the field
\* is not: no later run of the object resets it.
Finish ==
  /\ phase = "action" /\ at > NumSteps
  /\ End("success")
  /\ UNCHANGED <<config, run, at, attempt, executed, tried, allDone, effect>>

-----------------------------------------------------------------------------
SInit ==
  /\ retry \in [SagaStep -> 0..MaxRetry]
  /\ wrap \in {[i \in SagaStep |-> w] : w \in Wrap}
  /\ phase = "over"
  /\ at = 1 /\ attempt = 0 /\ begun = 1
  /\ executed = {} /\ tried = {} /\ allDone = TRUE
  /\ effect = [i \in SagaStep |-> FALSE]
  /\ verdict = "none" /\ stopped = 0
  /\ sagaRuns = 0

SagaProgress ==
  SkipStep \/ ActionOk \/ ActionErr \/ Throws \/ AfterError \/ Compensate
  \/ Compensated \/ Finish

SNext == Run \/ SagaProgress

SSpec == SInit /\ [][SNext]_svars

-----------------------------------------------------------------------------
\* A SagaExecutionException is thrown after the compensation of every step this
\* run has done, and of no other, has been tried; it says isCompensated exactly
\* when all of these have succeeded, so one that does not say so leaves the effect
\* of some step.  (An exception of an action or of onError says nothing of this.)
CompensatedMeansUndone ==
  LET done == {i \in begun..(stopped - 1) : retry[i] > 0}
  IN  phase = "over" /\ verdict \in {"compensated", "partly"} =>
        /\ tried = done
        /\ (verdict = "compensated") <=> \A i \in done : ~effect[i]

\* Steps are compensated in the reverse order of their execution: none before
\* the compensation of every later one has been tried.
ReverseOrder ==
  \A i \in tried : \A j \in executed : j < i

\* A run that succeeds has done every step from the one it started from, except
\* those with retry 0.  A run that throws has undone none of its steps, so that
\* a run resumed at the step that threw completes the saga.  (After a
\* compensated run, resuming at the failed step skips what was undone.  A run from
\* a label that no step has does nothing and is a success.)
SuccessMeansDone ==
  /\ phase = "over" /\ verdict = "success" =>
       \A i \in begun..NumSteps : retry[i] > 0 => effect[i]
  /\ phase = "over" /\ verdict = "thrown" =>
       \A i \in begun..(stopped - 1) : retry[i] > 0 => effect[i]

\* Every run ends, however often actions fail.
SagaEnds == Active ~> ~Active
=============================================================================
