------------------------------ MODULE BatchArray ------------------------------
(***************************************************************************)
(* executeBatchArrayAsync.  Items are numbered; the handlers are the       *)
(* caller's and end in any order, with a result or with an exception.      *)
(***************************************************************************)
EXTENDS Integers, Sequences, FiniteSets

CONSTANTS
  MaxItems,     \* bound: the length of `items'
  BatchSize,    \* options.batchSize
  Concurrency   \* options.concurrency

\* With a batch size of 0 the loop would never end.
ASSUME BatchAssumption ==
  MaxItems \in Nat /\ BatchSize \in Nat \ {0} /\ Concurrency \in Nat \ {0}

VARIABLES
  count,     \* items.length
  runMode,   \* "parallel" or "sequential"
  started,   \* sequence of the items whose handler was called
  handler,   \* [1..MaxItems -> where the handler of the item is]
  bphase,    \* where executeBatchArrayAsync is
  success,   \* result.success and result.error
  error

bavars == <<count, runMode, started, handler, bphase, success, error>>

HandlerState == {"idle", "running", "ok", "err", "thrown"}
Settled == {"ok", "err"}

\* loop     in the loop that calls handlers
\* yield    waiting for setImmediate
\* wait     await Promise.all(promises)
\* crash    an unhandled rejection has ended the process
BatchPhase == {"loop", "yield", "wait", "returned", "rejected", "crash"}

Items == 1..count
Smaller(a, b) == IF a < b THEN a ELSE b

StartItems(n) ==
  /\ started' = started \o [k \in 1..n |-> Len(started) + k]
  /\ handler' = [i \in 1..MaxItems |->
       IF i \in (Len(started) + 1)..(Len(started) + n) THEN "running" ELSE handler[i]]

-----------------------------------------------------------------------------
\* Slip: batches are cut one item too long.
StartOverlappingBatch ==
  /\ bphase = "loop" /\ runMode = "parallel"
  /\ Len(started) < count
  /\ started' = started \o [k \in 1..(Smaller(BatchSize + 1, count - Len(started))) |->
                               IF started = <<>> THEN k ELSE Len(started) + k - 1]
  /\ handler' = [i \in 1..MaxItems |->
       IF \E k \in 1..Len(started') : started'[k] = i /\ handler[i] = "idle"
         THEN "running" ELSE handler[i]]
  /\ bphase' = "yield"
  /\ UNCHANGED <<count, runMode, success, error>>

\* processParallel: the handlers of all chunks of a batch are called, one after
\* the other and without waiting for any of them.
StartBatch ==
  /\ bphase = "loop" /\ runMode = "parallel"
  /\ Len(started) < count
  /\ StartItems(Smaller(BatchSize, count - Len(started)))
  /\ bphase' = "yield"
  /\ UNCHANGED <<count, runMode, success, error>>

\* processSequential: the next handler is called after a turn of the event loop,
\* not after the handler before it.
StartItem ==
  /\ bphase = "loop" /\ runMode = "sequential"
  /\ Len(started) < count
  /\ StartItems(1)
  /\ bphase' = "yield"
  /\ UNCHANGED <<count, runMode, success, error>>

\* setImmediate(res)
Immediate ==
  /\ bphase = "yield"
  /\ bphase' = "loop"
  /\ UNCHANGED <<count, runMode, started, handler, success, error>>

LoopOver ==
  /\ bphase = "loop" /\ Len(started) >= count
  /\ bphase' = IF count = 0 THEN "returned" ELSE "wait"
  /\ UNCHANGED <<count, runMode, started, handler, success, error>>

HandlerEnds(i) ==
  /\ handler[i] = "running"
  /\ bphase # "crash"
  /\ \E s \in Settled : handler' = [handler EXCEPT ![i] = s]
  /\ UNCHANGED <<count, runMode, started, bphase, success, error>>

\* A handler throws.  While Promise.all waits, the call is rejected and the other
\* handlers go on; before, nobody handles the rejection and the process ends.
HandlerThrows(i) ==
  /\ handler[i] = "running"
  /\ bphase # "crash"
  /\ handler' = [handler EXCEPT ![i] = "thrown"]
  /\ bphase' = CASE bphase = "wait" -> "rejected"
                 [] bphase \in {"loop", "yield"} -> "crash"
                 [] OTHER -> bphase
  /\ UNCHANGED <<count, runMode, started, success, error>>

\* for (const r of resolved): the items with the outcome s, in their order.
ResultsOf(s) ==
  LET upTo[n \in 0..Len(started)] ==
        IF n = 0 THEN <<>>
        ELSE IF handler[started[n]] = s THEN Append(upTo[n - 1], started[n])
             ELSE upTo[n - 1]
  IN  upTo[Len(started)]

\* Slip: one result is enough (Promise.race for Promise.all).
ReturnFirst ==
  /\ bphase = "wait"
  /\ \E i \in Items : handler[i] \in Settled
  /\ success' = ResultsOf("ok") /\ error' = ResultsOf("err")
  /\ bphase' = "returned"
  /\ UNCHANGED <<count, runMode, started, handler>>

\* All promises are fulfilled: the results go to success and to error.
Return ==
  /\ bphase = "wait"
  /\ \A i \in Items : handler[i] \in Settled
  /\ success' = ResultsOf("ok") /\ error' = ResultsOf("err")
  /\ bphase' = "returned"
  /\ UNCHANGED <<count, runMode, started, handler>>

-----------------------------------------------------------------------------
BAInit ==
  /\ count \in 0..MaxItems
  /\ runMode \in {"parallel", "sequential"}
  /\ started = <<>>
  /\ handler = [i \in 1..MaxItems |-> "idle"]
  /\ bphase = "loop"
  /\ success = <<>> /\ error = <<>>

BANext ==
  \/ StartBatch \/ StartItem \/ Immediate \/ LoopOver \/ Return
  \/ \E i \in Items : HandlerEnds(i) \/ HandlerThrows(i)

BASpec == BAInit /\ [][BANext]_bavars

-----------------------------------------------------------------------------
\* When the batch returns, every item was handled exactly once and is in
\* exactly one of the two lists, in the order of the items, under the outcome
\* its own handler had: OutboxBatchService looks at nothing else.
ResultIsComplete ==
  bphase = "returned" =>
    /\ started = [i \in Items |-> i]
    /\ Len(success) + Len(error) = count
    /\ \A k \in 1..Len(success) : handler[success[k]] = "ok"
    /\ \A k \in 1..Len(error) : handler[error[k]] = "err"
    /\ \A list \in {success, error} :
         \A j, k \in 1..Len(list) : j < k => list[j] < list[k]

\* utils/src/core/shared/utils/miscellaneous/batchArray/index.ts:11 "Max
\* parallel tasks per batch": no more handlers of one batch run at a time than
\* `concurrency' says.
ThrottleHolds ==
  \A b \in 0..MaxItems :
    LET batch == (b * BatchSize + 1)..(b * BatchSize + BatchSize)
    IN  Cardinality({i \in Items \intersect batch : handler[i] = "running"}) <= Concurrency
=============================================================================
