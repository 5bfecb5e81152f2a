---------------------------- MODULE OutboxSystem ----------------------------
(***************************************************************************)
(* The whole system: the API processes that create users (CreateUser), the *)
(* cron process and the email queue (OutboxDispatch), and between them the *)
(* outbox table.  The only state they share is `row'.  Here the rows of new*)
(* users are those the API really commits, in place of the environment     *)
(* action ApiInsert of OutboxDispatch.                                     *)
(***************************************************************************)
EXTENDS OutboxDispatch

CONSTANTS Request, Email, NoEmail, ApiConn, NoApiConn, ApiFaults, MaxApiFaults

VARIABLES user, mail, step, outcome, apiConn, apiTxn, pending, apiFaults

Api == INSTANCE CreateUser

\* What CreateUser asks of its constants: only requests insert rows.
ASSUME SystemAssumption ==
  /\ Request \subseteq Event
  /\ NoEmail \notin Email
  /\ NoApiConn \notin ApiConn
  /\ ApiFaults \subseteq Api!ApiFaultKind
  /\ MaxApiFaults \in Nat

apiLocal == <<user, mail, step, outcome, apiConn, apiTxn, pending, apiFaults>>
systemVars == <<vars, apiLocal>>

SystemInit ==
  /\ Init
  /\ \A r \in Request : row[r] = NoRow
  /\ Api!ApiInit

SystemNext ==
  \/ DispatchStep /\ UNCHANGED apiLocal
  \/ QueueStep /\ UNCHANGED <<tvars, apiLocal>>
  \/ Api!ApiStep /\ UNCHANGED <<txn, write, pc, conn, snap, qvars>>

\* The fairness of each part, as steps of the whole.
SystemTick(t) == TickStep(t) /\ UNCHANGED apiLocal
SystemQueue == ConsumerRestart /\ UNCHANGED <<tvars, apiLocal>>
SystemCall(t, e) ==
  \/ PublishStep(t, e) /\ UNCHANGED apiLocal
  \/ (ProducerStep(t, e) \/ ConsumerStep(t, e)) /\ UNCHANGED <<tvars, apiLocal>>
SystemHandle(r) ==
  Api!HandleStep(r) /\ UNCHANGED <<txn, write, pc, conn, snap, qvars>>

SystemFairness ==
  /\ \A t \in Tick :
       /\ WF_systemVars(Fire(t) /\ UNCHANGED apiLocal)
       /\ WF_systemVars(SystemTick(t))
       /\ \A e \in Event : WF_systemVars(SystemCall(t, e))
  /\ WF_systemVars(SystemQueue)
  /\ \A r \in Request : WF_systemVars(SystemHandle(r))

SystemSpec == SystemInit /\ [][SystemNext]_systemVars

FairSystemSpec == SystemSpec /\ SystemFairness

-----------------------------------------------------------------------------
\* The system implements the contract of the outbox pattern: with the API
\* inserting rows while ticks rewrite others, no commit of either side undoes
\* or anticipates a commit of the other.
SystemKeepsContract == Contract!ContractSpec

\* README.md: "A separate process then reads from this table and dispatches
\* events asynchronously": an event the API has committed is published in the
\* end when nothing fails.
CommittedIsDispatched ==
  \A r \in Request : (row[r] # NoRow) ~> (row[r].isPublished = "YES")

\* What the code does instead: the row of a new user stays as the API wrote it,
\* lockedBy set, and nobody is sent an email.
NewUsersAreNotEmailed ==
  \A r \in Request : row[r] \in {NoRow, ApiRow} /\ emailed[r] = 0
=============================================================================
