----------------------------- MODULE CreateUser -----------------------------
(***************************************************************************)
(* The API processes creating users: CreateUserCommandHandler.handle, one  *)
(* transaction on one pooled connection that inserts the user and the      *)
(* outbox row, run as the steps of a PipelineWorkflow.  A step that returns*)
(* an error or throws makes the pipeline throw, and the handler's catch    *)
(* block rolls back and turns the exception into a response.               *)
(*                                                                         *)
(* The user and the outbox row of a request are both named by the request; *)
(* their identifiers are random UUIDs in the code.  Requests reach the     *)
(* handler after the validation middleware, so that the body is valid.     *)
(***************************************************************************)
EXTENDS Naturals, OutboxRow

CONSTANTS
  Event,        \* all rows the outbox table may ever hold
  Request,      \* the requests, each with the row it may insert
  Email,
  NoEmail,
  ApiConn,      \* the connections of the API's pools (10 a process)
  NoApiConn,
  ApiFaults,    \* the kinds of fault that may happen
  MaxApiFaults  \* bound: how many faults happen in one behaviour

\* sql     a statement is answered by an error, which aborts the transaction
\* step    a step returns an error without having sent a statement
\* commit  the connection is lost while COMMIT or ROLLBACK is under way
\* crash   an API process dies
ApiFaultKind == {"sql", "step", "commit", "crash"}

ASSUME CreateUserAssumption ==
  /\ Request \subseteq Event
  /\ NoEmail \notin Email
  /\ NoApiConn \notin ApiConn
  /\ ApiFaults \subseteq ApiFaultKind
  /\ MaxApiFaults \in Nat

VARIABLES
  row,       \* [Event -> MaybeRow]: the committed outbox table
  user,      \* SUBSET Request: the committed users
  mail,      \* [Request -> the email address asked for]
  step,      \* [Request -> where handle is]
  outcome,   \* [Request -> status of the response]
  apiConn,   \* [Request -> the connection its query runner holds]
  apiTxn,    \* [ApiConn -> {"none", "open", "aborted"}]
  pending,   \* [ApiConn -> what the session inserted: users and outbox rows]
  apiFaults  \* faults so far

localvars == <<user, mail, step, outcome, apiConn, apiTxn, pending, apiFaults>>
apivars == <<row, localvars>>

Step == {"new", "connect", "begin", "mapEntity", "addUser", "addOutbox",
         "mapResponse", "commit", "catch", "release", "done", "lost"}
Outcome == {"none", "201", "409", "500"}
NothingPending == [users |-> {}, rows |-> {}]

ApiTypeOK ==
  /\ row \in [Event -> MaybeRow]
  /\ user \subseteq Request
  /\ mail \in [Request -> Email \union {NoEmail}]
  /\ step \in [Request -> Step]
  /\ outcome \in [Request -> Outcome]
  /\ apiConn \in [Request -> ApiConn \union {NoApiConn}]
  /\ apiTxn \in [ApiConn -> {"none", "open", "aborted"}]
  /\ pending \in [ApiConn -> [users : SUBSET Request, rows : SUBSET Request]]
  /\ apiFaults \in Nat

StepTo(r, s) == step' = [step EXCEPT ![r] = s]
OutcomeIs(r, o) == outcome' = [outcome EXCEPT ![r] = o]

ApiFault(k) ==
  /\ k \in ApiFaults
  /\ apiFaults < MaxApiFaults
  /\ apiFaults' = apiFaults + 1

\* The transaction of session c ends, or is aborted, without effect.
EndApiTxn(c, state) ==
  /\ apiTxn' = [apiTxn EXCEPT ![c] = state]
  /\ pending' = [pending EXCEPT ![c] = NothingPending]

SameEmail(r, S) == \E s \in S : mail[s] = mail[r]

\* The effect of COMMIT on session c.
Publicise(c) ==
  /\ user' = user \union pending[c].users
  /\ row' = [e \in Event |-> IF e \in pending[c].rows THEN ApiRow ELSE row[e]]

-----------------------------------------------------------------------------
\* A request for some email address reaches the handler.
Receive(r) ==
  /\ step[r] = "new"
  /\ \E m \in Email : mail' = [mail EXCEPT ![r] = m]
  /\ StepTo(r, "connect")
  /\ UNCHANGED <<row, user, outcome, apiConn, apiTxn, pending, apiFaults>>

\* await queryRunner.connect()
ApiConnect(r) ==
  /\ step[r] = "connect"
  /\ \E c \in ApiConn :
       /\ \A s \in Request : apiConn[s] # c
       /\ apiConn' = [apiConn EXCEPT ![r] = c]
  /\ StepTo(r, "begin")
  /\ UNCHANGED <<row, user, mail, outcome, apiTxn, pending, apiFaults>>

\* ErrorMiddleware: an exception without a status of its own is a 500.
AnswerError(r) == OutcomeIs(r, "500") /\ StepTo(r, "done")

\* connect() is called before the try block: when it throws, because the data
\* source is not initialised yet (setDatabase does not wait for it), because its
\* pool has ended or because the server is away, nothing is rolled back or
\* released, and the error middleware answers.
ApiConnectFails(r) ==
  /\ step[r] = "connect"
  /\ AnswerError(r)
  /\ UNCHANGED <<row, user, mail, apiConn, apiTxn, pending, apiFaults>>

\* await queryRunner.startTransaction()
ApiBegin(r) ==
  /\ step[r] = "begin"
  /\ apiTxn' = [apiTxn EXCEPT ![apiConn[r]] = "open"]
  /\ StepTo(r, "mapEntity")
  /\ UNCHANGED <<row, user, mail, outcome, apiConn, pending, apiFaults>>

\* MAP_ENTITY: an entity with an identifier of its own, in memory.
MapEntity(r) ==
  /\ step[r] = "mapEntity"
  /\ StepTo(r, "addUser")
  /\ UNCHANGED <<row, user, mail, outcome, apiConn, apiTxn, pending, apiFaults>>

\* Slip: the address is looked up among committed users only.
AddUserUnlocked(r) ==
  /\ step[r] = "addUser"
  /\ ~SameEmail(r, user)
  /\ pending' = [pending EXCEPT ![apiConn[r]].users = @ \union {r}]
  /\ StepTo(r, "addOutbox")
  /\ UNCHANGED <<row, user, mail, outcome, apiConn, apiTxn, apiFaults>>

\* ADD_USER_DB_SERVICE.  The unique index on users.email makes the INSERT wait
\* while another session has inserted the same address and not ended.
AddUser(r) ==
  /\ step[r] = "addUser"
  /\ \A c \in ApiConn : ~SameEmail(r, pending[c].users)
  /\ ~SameEmail(r, user)
  /\ pending' = [pending EXCEPT ![apiConn[r]].users = @ \union {r}]
  /\ StepTo(r, "addOutbox")
  /\ UNCHANGED <<row, user, mail, outcome, apiConn, apiTxn, apiFaults>>

\* Slip: the conflict is reported while the other request may still roll back.
AddUserConflictEarly(r) ==
  /\ step[r] = "addUser"
  /\ SameEmail(r, user) \/ \E c \in ApiConn : SameEmail(r, pending[c].users)
  /\ EndApiTxn(apiConn[r], "aborted")
  /\ OutcomeIs(r, "409")
  /\ StepTo(r, "catch")
  /\ UNCHANGED <<row, user, mail, apiConn, apiFaults>>

\* "duplicate key value violates unique constraint": the transaction is
\* aborted, and CreateUserDbService makes it CONFLICT.
AddUserConflict(r) ==
  /\ step[r] = "addUser"
  /\ SameEmail(r, user)
  /\ EndApiTxn(apiConn[r], "aborted")
  /\ OutcomeIs(r, "409")
  /\ StepTo(r, "catch")
  /\ UNCHANGED <<row, user, mail, apiConn, apiFaults>>

\* Slip: AddService is not given the query runner and commits on its own.
AddOutboxAutocommit(r) ==
  /\ step[r] = "addOutbox"
  /\ row' = [row EXCEPT ![r] = ApiRow]
  /\ StepTo(r, "mapResponse")
  /\ UNCHANGED <<user, mail, outcome, apiConn, apiTxn, pending, apiFaults>>

\* ADD_OUTBOX_DB_SERVICE
AddOutbox(r) ==
  /\ step[r] = "addOutbox"
  /\ pending' = [pending EXCEPT ![apiConn[r]].rows = @ \union {r}]
  /\ StepTo(r, "mapResponse")
  /\ UNCHANGED <<row, user, mail, outcome, apiConn, apiTxn, apiFaults>>

\* MAP_RESPONSE, in memory again.
MapResponse(r) ==
  /\ step[r] = "mapResponse"
  /\ StepTo(r, "commit")
  /\ UNCHANGED <<row, user, mail, outcome, apiConn, apiTxn, pending, apiFaults>>

\* A statement fails, or a step of the pipeline without a statement having been
\* sent: startTransaction or the pipeline throws.
PipelineFails(r) ==
  /\ \/ /\ step[r] \in {"begin", "addUser", "addOutbox"}
        /\ ApiFault("sql")
        /\ EndApiTxn(apiConn[r], "aborted")
     \/ /\ step[r] \in {"mapEntity", "addUser", "addOutbox", "mapResponse"}
        /\ ApiFault("step")
        /\ UNCHANGED <<apiTxn, pending>>
  /\ OutcomeIs(r, "500")
  /\ StepTo(r, "catch")
  /\ UNCHANGED <<row, user, mail, apiConn>>

\* await queryRunner.commitTransaction(); the response is 201.
ApiCommit(r) ==
  /\ step[r] = "commit"
  /\ Publicise(apiConn[r])
  /\ EndApiTxn(apiConn[r], "none")
  /\ OutcomeIs(r, "201")
  /\ StepTo(r, "release")
  /\ UNCHANGED <<mail, apiConn, apiFaults>>

\* The connection is lost during COMMIT: the server may have committed or not,
\* and the handler sees an exception.  ROLLBACK has nothing left to undo.
ApiCommitLost(r) ==
  /\ step[r] = "commit"
  /\ ApiFault("commit")
  /\ Publicise(apiConn[r]) \/ UNCHANGED <<user, row>>
  /\ EndApiTxn(apiConn[r], "none")
  /\ OutcomeIs(r, "500")
  /\ StepTo(r, "release")
  /\ UNCHANGED <<mail, apiConn>>

\* Slip: the catch block does not roll back.
RollBackForgotten(r) ==
  /\ step[r] = "catch"
  /\ StepTo(r, "release")
  /\ UNCHANGED <<row, user, mail, outcome, apiConn, apiTxn, pending, apiFaults>>

\* catch: DataResponseFactory.pipelineError rolls back an active transaction.
RollBack(r) ==
  /\ step[r] = "catch"
  /\ EndApiTxn(apiConn[r], "none")
  /\ StepTo(r, "release")
  /\ UNCHANGED <<row, user, mail, outcome, apiConn, apiFaults>>

\* The connection is lost during ROLLBACK: rollbackTransaction throws inside the
\* catch block, and the error middleware answers instead of handle.  (There is no
\* other way for it to fail: PostgreSQL accepts ROLLBACK in every transaction.)
RollBackLost(r) ==
  /\ step[r] = "catch"
  /\ ApiFault("commit")
  /\ EndApiTxn(apiConn[r], "none")
  /\ OutcomeIs(r, "500")
  /\ StepTo(r, "release")
  /\ UNCHANGED <<row, user, mail, apiConn>>

\* finally { await queryRunner.release() }; the response goes out.
ApiRelease(r) ==
  /\ step[r] = "release"
  /\ apiConn' = [apiConn EXCEPT ![r] = NoApiConn]
  /\ StepTo(r, "done")
  /\ UNCHANGED <<row, user, mail, outcome, apiTxn, pending, apiFaults>>

\* An API process dies, or is told to stop: gracefulShutdown waits for none of
\* the requests in progress.  pm2 runs several processes, so any of them may be
\* in this one.  Their sessions are closed by the server.
ApiCrash ==
  /\ ApiFault("crash")
  /\ \E S \in SUBSET {r \in Request : step[r] \notin {"new", "done", "lost"}} :
       LET dead == {c \in ApiConn : \E r \in S : apiConn[r] = c}
       IN  /\ S # {}
           /\ step' = [r \in Request |-> IF r \in S THEN "lost" ELSE step[r]]
           /\ apiConn' = [r \in Request |-> IF r \in S THEN NoApiConn ELSE apiConn[r]]
           /\ apiTxn' = [c \in ApiConn |-> IF c \in dead THEN "none" ELSE apiTxn[c]]
           /\ pending' = [c \in ApiConn |->
                            IF c \in dead THEN NothingPending ELSE pending[c]]
  /\ UNCHANGED <<row, user, mail, outcome>>

-----------------------------------------------------------------------------
HandleStep(r) ==
  \/ ApiConnect(r) \/ ApiBegin(r) \/ MapEntity(r)
  \/ AddUser(r) \/ AddUserConflict(r) \/ AddOutbox(r)
  \/ MapResponse(r) \/ ApiCommit(r) \/ RollBack(r) \/ ApiRelease(r)

ApiStep ==
  \/ \E r \in Request :
       \/ Receive(r) \/ HandleStep(r)
       \/ ApiConnectFails(r) \/ PipelineFails(r)
       \/ ApiCommitLost(r) \/ RollBackLost(r)
  \/ ApiCrash

ApiInit ==
  /\ user = {}
  /\ mail = [r \in Request |-> NoEmail]
  /\ step = [r \in Request |-> "new"]
  /\ outcome = [r \in Request |-> "none"]
  /\ apiConn = [r \in Request |-> NoApiConn]
  /\ apiTxn = [c \in ApiConn |-> "none"]
  /\ pending = [c \in ApiConn |-> NothingPending]
  /\ apiFaults = 0

\* The event loop turns, and waiting for a connection of the pool or for the
\* unique index is first come first served.
HandleFairness(r) ==
  /\ WF_apivars(HandleStep(r))
  /\ SF_apivars(ApiConnect(r))
  /\ SF_apivars(AddUser(r))

\* The API on its own, with an empty outbox table.
CreateUserInit == ApiInit /\ row = [e \in Event |-> NoRow]

CreateUserSafety == CreateUserInit /\ [][ApiStep]_apivars

CreateUserSpec ==
  CreateUserSafety /\ \A r \in Request : HandleFairness(r)

-----------------------------------------------------------------------------
\* The user and the event are committed together or not at all, whichever step
\* fails and wherever the process dies: the one guarantee the outbox pattern
\* rests on.
UserIffEvent == \A r \in Request : r \in user <=> row[r] # NoRow

\* Two requests racing for one address do not both get it.
UniqueEmail ==
  \A r, s \in user : mail[r] = mail[s] => r = s

\* The status the client is given is true: 201 only when the user is there, 409
\* only when the address belongs to another user.  (500 tells nothing: COMMIT
\* may have been carried out although the handler saw an exception.)
OutcomeIsTrue ==
  \A r \in Request :
    /\ outcome[r] = "201" => r \in user
    /\ outcome[r] = "409" => r \notin user /\ SameEmail(r, user)

\* A connection goes back to the pool without a transaction on it, on every
\* path through handle, so that no request blocks or commits for another.
PoolIsClean ==
  \A c \in ApiConn :
    (\A r \in Request : apiConn[r] # c) =>
      apiTxn[c] = "none" /\ pending[c] = NothingPending

\* Every request is answered, unless its process dies: requests that wait for
\* a connection, or for the unique index, never wait for each other in a circle.
EveryRequestAnswered ==
  \A r \in Request : (step[r] = "connect") ~> (step[r] \in {"done", "lost"})
=============================================================================
