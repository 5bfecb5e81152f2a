------------------------------- MODULE Pipeline -------------------------------
(***************************************************************************)
(* PipelineWorkflow: a caller awaits one call after the other of step,     *)
(* stepParallel and ifElseStep on one pipeline object, whose context keeps *)
(* the results by name, and stops at the first exception.  The actions are *)
(* the caller's; they end in any order.                                    *)
(***************************************************************************)
EXTENDS Naturals, Sequences

CONSTANT PStep   \* names of steps

NoStep == "noStep"
Nothing == "nothing"

ASSUME PipelineAssumption == NoStep \notin PStep /\ Nothing \notin PStep

VARIABLES
  calls,     \* the calls: sequence of [kind, steps]
  current,   \* the call the caller is in, or Len(calls) + 1
  pstep,     \* [PStep -> where the step is]
  context,   \* names with a result in the context
  failures,  \* names of the steps that failed, in this order
  raised     \* what the caller was thrown: nothing yet, a step, or "noStep"

pvars == <<calls, current, pstep, context, failures, raised>>

PStepState == {"idle", "running", "void", "value", "failed"}
Succeeded == {"void", "value"}

\* What a caller may write down: calls of steps that all have names of their own.
PCall == [kind : {"step", "parallel", "ifElse"}, steps : SUBSET PStep]
WellFormed(p) ==
  /\ p \in Seq(PCall)
  /\ \A i, j \in 1..Len(p) : i # j => p[i].steps \intersect p[j].steps = {}

CallOf(i) == calls[i].steps
InProgress == current <= Len(calls) /\ raised = Nothing

\* Some programs: single steps, groups, branches, and a group without steps.
Programs ==
  LET PlanOf(k, S) == [kind |-> k, steps |-> S]
  IN  {<<PlanOf(k, PStep)>> : k \in {"parallel", "ifElse"}}
        \union {<<PlanOf(k, S), PlanOf("ifElse", PStep \ S)>> :
                  k \in {"parallel", "ifElse"}, S \in (SUBSET PStep) \ {{}, PStep}}
        \union {<<PlanOf("step", {s}), PlanOf("parallel", PStep \ {s})>> : s \in PStep}
        \union {<<PlanOf("ifElse", PStep), PlanOf("parallel", {})>>}

Idle(i) == \A s \in CallOf(i) : pstep[s] = "idle"

-----------------------------------------------------------------------------
\* Slip: an empty group is taken for one that is done.
EmptyGroupPasses ==
  /\ InProgress
  /\ calls[current].kind = "parallel" /\ CallOf(current) = {}
  /\ current' = current + 1
  /\ UNCHANGED <<calls, pstep, context, failures, raised>>

\* stepParallel([]) throws BAD_REQUEST.
EmptyGroup ==
  /\ InProgress
  /\ calls[current].kind = "parallel" /\ CallOf(current) = {}
  /\ raised' = NoStep
  /\ UNCHANGED <<calls, current, pstep, context, failures>>

\* step, or stepParallel: steps.map(...) starts all actions.
StartSteps ==
  /\ InProgress
  /\ calls[current].kind \in {"step", "parallel"} /\ CallOf(current) # {} /\ Idle(current)
  /\ pstep' = [s \in PStep |-> IF s \in CallOf(current) THEN "running" ELSE pstep[s]]
  /\ UNCHANGED <<calls, current, context, failures, raised>>

\* ifElseStep: the condition, evaluated twice on the same context, chooses the
\* action and the name, NAME_IF or NAME_ELSE.
StartBranch ==
  /\ InProgress
  /\ calls[current].kind = "ifElse" /\ Idle(current)
  /\ \E s \in CallOf(current) : pstep' = [pstep EXCEPT ![s] = "running"]
  /\ UNCHANGED <<calls, current, context, failures, raised>>

\* The action of a step ends with a result: VOID_RESULT is not put into the
\* context.  It does so too after the caller was thrown out by another step.
StepSucceeds(s) ==
  /\ pstep[s] = "running"
  /\ \/ /\ pstep' = [pstep EXCEPT ![s] = "void"]
        /\ UNCHANGED context
     \/ /\ pstep' = [pstep EXCEPT ![s] = "value"]
        /\ context' = context \union {s}
  /\ UNCHANGED <<calls, current, failures, raised>>

\* Slip: the caller gets the last exception of a group.
StepFailsLast(s) ==
  /\ pstep[s] = "running"
  /\ pstep' = [pstep EXCEPT ![s] = "failed"]
  /\ failures' = Append(failures, s)
  /\ raised' = s
  /\ UNCHANGED <<calls, current, context>>

\* The action ends with an error, throws, or returns a falsy value (NO_CONTENT):
\* Promise.all hands the first exception of the group to the caller.
StepFails(s) ==
  /\ pstep[s] = "running"
  /\ pstep' = [pstep EXCEPT ![s] = "failed"]
  /\ failures' = Append(failures, s)
  /\ raised' = IF raised = Nothing THEN s ELSE raised
  /\ UNCHANGED <<calls, current, context>>

\* Slip: the first step of a group to be done ends the call.
CallReturnsEarly ==
  /\ InProgress
  /\ \E s \in CallOf(current) : pstep[s] \in Succeeded
  /\ current' = current + 1
  /\ UNCHANGED <<calls, pstep, context, failures, raised>>

\* The call returns its results: all steps that were started are done.
CallReturns ==
  /\ InProgress
  /\ \E s \in CallOf(current) : pstep[s] \in Succeeded
  /\ \A s \in CallOf(current) : pstep[s] # "running"
  /\ current' = current + 1
  /\ UNCHANGED <<calls, pstep, context, failures, raised>>

-----------------------------------------------------------------------------
PStart ==
  /\ current = 1
  /\ pstep = [s \in PStep |-> "idle"]
  /\ context = {} /\ failures = <<>> /\ raised = Nothing

PInit == calls \in Programs /\ PStart

PNext ==
  \/ EmptyGroup \/ StartSteps \/ StartBranch \/ CallReturns
  \/ \E s \in PStep : StepSucceeds(s) \/ StepFails(s)

\* A caller with any program, of any length; PInit picks some for TLC.
PSpec == WellFormed(calls) /\ PStart /\ [][PNext]_pvars

-----------------------------------------------------------------------------
\* getResult finds what earlier calls have produced: when the caller is in some
\* call, every step of the calls before has ended well and its value is in the
\* context, one step of every branch and all steps of every group.
EarlierResultsAreThere ==
  \A i \in 1..(current - 1) :
    /\ \E s \in CallOf(i) : pstep[s] \in Succeeded
    /\ \A s \in CallOf(i) :
         /\ pstep[s] \in Succeeded \/ (calls[i].kind = "ifElse" /\ pstep[s] = "idle")
         /\ pstep[s] = "value" => s \in context

\* The exception the caller sees is that of the first step to fail.  What goes on
\* behind its back (its transaction may be rolled back by now) are steps of the
\* same group only: no later call has started.
FirstFailureIsRaised ==
  failures # <<>> =>
    /\ raised = Head(failures)
    /\ \A s \in PStep : pstep[s] = "running" => s \in CallOf(current)
    /\ raised \in CallOf(current)
=============================================================================
