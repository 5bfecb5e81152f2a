------------------------- MODULE OutboxSystemProofs -------------------------
(***************************************************************************)
(* Proofs about the whole system, from those about its parts.  The API and *)
(* the dispatcher share the table and nothing else, and each asks one thing*)
(* of the other.  The dispatcher asks that a row appears once, as the API  *)
(* builds it (ApiInsert); the API asks that nobody else makes a row appear *)
(* or disappear.  Both hold only because the invariant of each side holds  *)
(* while the other takes its steps.                                        *)
(***************************************************************************)
EXTENDS OutboxSystem, OutboxDispatchProofs

ApiP == INSTANCE CreateUserProofs

SystemInv == DispatchInv /\ ApiP!ConnInv /\ ApiP!UserInv

-----------------------------------------------------------------------------
\* The theorems of CreateUserProofs are about the API of this system.
LEMMA ConstantsFit ==
  /\ Request \subseteq Event
  /\ NoEmail \notin Email
  /\ NoApiConn \notin ApiConn
  /\ ApiFaults \subseteq ApiP!ApiFaultKind
  /\ MaxApiFaults \in Nat
  BY SystemAssumption DEF Api!ApiFaultKind, ApiP!ApiFaultKind

LEMMA SameApi == (Api!ApiInit <=> ApiP!ApiInit) /\ (Api!ApiStep <=> ApiP!ApiStep)
<1>1. Api!ApiInit <=> ApiP!ApiInit
  BY DEF Api!ApiInit, ApiP!ApiInit, Api!NothingPending, ApiP!NothingPending
<1>2. Api!ApiStep <=> ApiP!ApiStep
  BY DEF Api!ApiStep, ApiP!ApiStep, Api!HandleStep, ApiP!HandleStep,
         Api!Receive, ApiP!Receive, Api!ApiConnect, ApiP!ApiConnect,
         Api!ApiConnectFails, ApiP!ApiConnectFails, Api!AnswerError, ApiP!AnswerError,
         Api!ApiBegin, ApiP!ApiBegin, Api!MapEntity, ApiP!MapEntity,
         Api!AddUser, ApiP!AddUser, Api!AddUserConflict, ApiP!AddUserConflict,
         Api!AddOutbox, ApiP!AddOutbox, Api!MapResponse, ApiP!MapResponse,
         Api!PipelineFails, ApiP!PipelineFails, Api!ApiCommit, ApiP!ApiCommit,
         Api!ApiCommitLost, ApiP!ApiCommitLost, Api!RollBack, ApiP!RollBack,
         Api!RollBackLost, ApiP!RollBackLost, Api!ApiRelease, ApiP!ApiRelease,
         Api!ApiCrash, ApiP!ApiCrash, Api!ApiFault, ApiP!ApiFault,
         Api!StepTo, ApiP!StepTo, Api!OutcomeIs, ApiP!OutcomeIs,
         Api!EndApiTxn, ApiP!EndApiTxn, Api!NothingPending, ApiP!NothingPending,
         Api!SameEmail, ApiP!SameEmail, Api!Publicise, ApiP!Publicise,
         Api!ApiRow, ApiP!ApiRow, Api!Instance, ApiP!Instance
<1>3. QED
  BY <1>1, <1>2

LEMMA SameProperties ==
  /\ ApiP!UserIffEvent <=> Api!UserIffEvent
  /\ ApiP!UniqueEmail <=> Api!UniqueEmail
  /\ ApiP!OutcomeIsTrue <=> Api!OutcomeIsTrue
  /\ ApiP!PoolIsClean <=> Api!PoolIsClean
  BY DEF Api!UserIffEvent, ApiP!UserIffEvent, Api!UniqueEmail, ApiP!UniqueEmail,
         Api!OutcomeIsTrue, ApiP!OutcomeIsTrue, Api!SameEmail, ApiP!SameEmail,
         Api!PoolIsClean, ApiP!PoolIsClean, Api!NothingPending, ApiP!NothingPending,
         Api!NoRow, ApiP!NoRow, Api!Null, ApiP!Null

\* Both name the rows alike.
LEMMA SameRows ==
  ApiP!NoRow = NoRow /\ ApiP!ApiRow = ApiRow /\ ApiP!MaybeRow = MaybeRow
  BY DEF ApiP!NoRow, NoRow, ApiP!ApiRow, ApiRow, ApiP!MaybeRow, MaybeRow,
         ApiP!Row, Row, ApiP!Null, Null, ApiP!Instance, Instance

-----------------------------------------------------------------------------
\* To the dispatcher, a step of the API is an insert or nothing.
LEMMA ApiStepIsInsert ==
  ASSUME ApiP!ConnInv, ApiP!UserInv, Api!ApiStep,
         UNCHANGED <<txn, write, pc, conn, snap, qvars>>
  PROVE  [Next]_vars
<1>1. \/ row' = row
      \/ \E r \in Request : row[r] = NoRow /\ row' = [row EXCEPT ![r] = ApiRow]
  BY ApiP!ApiInsertsOneRow, ConstantsFit, SameApi, SameRows
<1>2. CASE row' = row
  BY <1>2 DEF vars
<1>3. ASSUME NEW r \in Request, row[r] = NoRow, row' = [row EXCEPT ![r] = ApiRow]
      PROVE  \E e \in Event : ApiInsert(e)
  BY <1>3, SystemAssumption DEF ApiInsert
<1>4. QED
  BY <1>1, <1>2, <1>3 DEF Next

\* The dispatcher neither inserts nor deletes a row: what it commits was read
\* from a committed row.
LEMMA DispatchKeepsRows ==
  ASSUME DispatchInv, DispatchStep, NEW e \in Event
  PROVE  row'[e] = NoRow <=> row[e] = NoRow
<1>1. ASSUME NEW t \in Tick, Commit(t)
      PROVE  row'[e] = NoRow <=> row[e] = NoRow
  BY <1>1, CommittedRow DEF Visible, DispatchInv, ExistInv
<1>2. CASE row' = row
  BY <1>2
<1>3. QED
  BY <1>1, <1>2
  DEF DispatchStep, TickStep, PublishStep, Fire, Connect, Begin, BeginFails, List,
      ListEmpty, Claim, GetOutboxFails, UpdateRow, UpdateFails, CommitAborted, Release,
      ReapIdle, CronCrash

\* A step of the system is a step of the dispatcher with its environment.
LEMMA SystemStepIsNext ==
  ASSUME SystemInv, [SystemNext]_systemVars
  PROVE  [Next]_vars
<1>1. CASE DispatchStep
  BY <1>1 DEF Next
<1>2. CASE QueueStep /\ UNCHANGED <<tvars, apiLocal>>
  BY <1>2 DEF Next
<1>3. CASE Api!ApiStep /\ UNCHANGED <<txn, write, pc, conn, snap, qvars>>
  BY <1>3, ApiStepIsInsert DEF SystemInv
<1>4. CASE UNCHANGED systemVars
  BY <1>4 DEF systemVars
<1>5. QED
  BY <1>1, <1>2, <1>3, <1>4 DEF SystemNext

\* The invariant of the API survives the steps of the others.
LEMMA ApiInvStep ==
  ASSUME SystemInv, [SystemNext]_systemVars
  PROVE  ApiP!ConnInv' /\ ApiP!UserInv'
<1>1. CASE Api!ApiStep
  BY <1>1, SameApi, ApiP!ConnStep, ApiP!UserStep, ConstantsFit DEF SystemInv
<1>2. CASE UNCHANGED apiLocal /\ (DispatchStep \/ row' = row)
  <2>1. row' \in [Event -> ApiP!MaybeRow]
    <3>1. TypeOK'
      BY SystemStepIsNext, InvPreserved DEF SystemInv, DispatchInv
    <3>2. QED
      BY <3>1, SameRows DEF TypeOK
  <2>2. \A e \in Event : row'[e] = ApiP!NoRow <=> row[e] = ApiP!NoRow
    BY <1>2, DispatchKeepsRows, SameRows DEF SystemInv
  <2>3. UNCHANGED ApiP!localvars
    BY <1>2 DEF apiLocal, ApiP!localvars
  <2>4. QED
    BY <2>1, <2>2, <2>3, ApiP!InvElsewhere, ConstantsFit DEF SystemInv
<1>3. QED
  BY <1>1, <1>2 DEF SystemNext, systemVars, vars, tvars

LEMMA SystemInvInit == SystemInit => SystemInv
<1> SUFFICES ASSUME SystemInit PROVE SystemInv
  OBVIOUS
<1>1. DispatchInv
  BY InvInitial DEF SystemInit
<1>2. ApiP!ApiInit /\ row \in [Event -> ApiP!MaybeRow] /\ \A r \in Request : row[r] = ApiP!NoRow
  BY <1>1, SameApi, SameRows DEF SystemInit, DispatchInv, TypeOK
<1>3. QED
  BY <1>1, <1>2, ApiP!InvInit, ConstantsFit DEF SystemInv

LEMMA SystemInvariance == SystemSpec => []SystemInv
<1>1. SystemInv /\ [SystemNext]_systemVars => SystemInv'
  BY SystemStepIsNext, ApiInvStep, InvPreserved DEF SystemInv
<1>2. QED
  BY <1>1, SystemInvInit, PTL DEF SystemSpec

-----------------------------------------------------------------------------
\* In the whole system the dispatcher behaves as OutboxDispatch says: the action
\* ApiInsert, which stands there for the API, loses nothing the API does.
THEOREM SystemImplementsDispatch == SystemSpec => Spec
<1>1. SystemInit => Init
  BY DEF SystemInit
<1>2. SystemInv /\ [SystemNext]_systemVars => [Next]_vars
  BY SystemStepIsNext
<1>3. QED
  BY <1>1, <1>2, SystemInvariance, PTL DEF SystemSpec, Spec

\* API processes, cron process, queue and email worker together implement the
\* contract of the outbox pattern.
THEOREM SystemImplementsContract == SystemSpec => SystemKeepsContract
  BY SystemImplementsDispatch, DispatchImplementsContract, PTL
     DEF SystemKeepsContract, KeepsContract

\* What is proved of the dispatcher next to ApiInsert holds next to the API itself:
\* overlapping ticks, leaked transactions and stale entities do no harm to rows
\* that transactions of the API are inserting meanwhile.
THEOREM SystemKeepsDispatch ==
  SystemSpec => [](PublishedMeansEmailed /\ StatusAgrees /\ LeakIsHarmless) /\ NeverReopened
  BY SystemImplementsDispatch, PublishedImpliesEmailed, StatusAlwaysAgrees,
     LeakIsAlwaysHarmless, NothingIsReopened, PTL

\* With the cron process rewriting rows all the time, a user is committed if and
\* only if its outbox row is.
THEOREM SystemAtomicity == SystemSpec => []Api!UserIffEvent
<1>1. SystemInv => Api!UserIffEvent
  BY SameProperties DEF SystemInv, ApiP!UserInv
<1>2. QED
  BY <1>1, SystemInvariance, PTL

\* Two users never get one address, and a client is told the truth, in the
\* presence of the cron process.
THEOREM SystemAnswersAreTrue == SystemSpec => [](Api!UniqueEmail /\ Api!OutcomeIsTrue)
<1>1. SystemInv => Api!UniqueEmail /\ Api!OutcomeIsTrue
  BY SameProperties DEF SystemInv, ApiP!UserInv
<1>2. QED
  BY <1>1, SystemInvariance, PTL

-----------------------------------------------------------------------------
\* The event of a request is not there, or as the API wrote it, and nobody is
\* working on it.
Stuck(e) == Untouched(e) /\ row[e] \in {NoRow, ApiRow} /\ emailed[e] = 0

\* The query asks for lockedBy IS NULL, and the API has set lockedBy.
LEMMA StuckStep ==
  ASSUME DispatchInv, [Next]_vars, NEW e \in Event, Stuck(e)
  PROVE  Stuck(e)'
<1> USE DEF DispatchInv, TypeOK, QTypeOK
<1>1. ~Claimable(row[e])
  BY DEF Stuck, Claimable, NoRow, ApiRow, Null, Instance
<1>2. Untouched(e)'
  BY <1>1, NextUntouched DEF Stuck
<1>3. row'[e] \in {NoRow, ApiRow}
  <2>1. ASSUME NEW t \in Tick, Commit(t)
        PROVE  row'[e] = row[e]
    BY <2>1, CommittedRow DEF Stuck, Untouched, Visible
  <2>2. ASSUME NEW f \in Event, ApiInsert(f)
        PROVE  row'[e] \in {row[e], ApiRow}
    BY <2>2 DEF ApiInsert
  <2>3. QED
    BY <2>1, <2>2, RowChanges DEF Stuck
<1>4. emailed'[e] = 0
  <2>1. CASE emailed' = emailed
    BY <2>1 DEF Stuck
  <2>2. CASE QueueStep
    BY <2>2, QueueStepFrame DEF QueueFrame, Stuck, Untouched
  <2>3. QED
    BY <2>1, <2>2
    DEF Next, DispatchStep, TickStep, PublishStep, Fire, Connect, Begin, BeginFails,
        List, ListEmpty, Claim, GetOutboxFails, UpdateRow, UpdateFails, Commit,
        CommitAborted, Release, ReapIdle, CronCrash, ApiInsert, vars, qvars
<1>5. QED
  BY <1>2, <1>3, <1>4 DEF Stuck

\* No event of a new user is ever claimed, published or emailed: the violation of
\* CommittedIsDispatched is no accident of one schedule or one instance.
THEOREM EventsOfNewUsersAreStuck == SystemSpec => []NewUsersAreNotEmailed
<1> DEFINE AllStuck == \A r \in Request : Stuck(r)
<1>1. SystemInit => AllStuck
  <2>1. SystemInit => Init /\ \A r \in Request : row[r] = NoRow
    BY DEF SystemInit
  <2>2. QED
    BY <2>1, SystemAssumption DEF Stuck, Untouched, Init, NoWrites, NoJob
<1>2. SystemInv /\ AllStuck /\ [SystemNext]_systemVars => AllStuck'
  BY StuckStep, SystemStepIsNext, SystemAssumption DEF SystemInv
<1>3. AllStuck => NewUsersAreNotEmailed
  BY DEF Stuck, NewUsersAreNotEmailed
<1>4. QED
  BY <1>1, <1>2, <1>3, SystemInvariance, PTL DEF SystemSpec
=============================================================================
