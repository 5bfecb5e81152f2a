-------------------------- MODULE CreateUserProofs --------------------------
(***************************************************************************)
(* Proofs about CreateUserCommandHandler.handle, for every number of       *)
(* requests, addresses and pooled connections, with every fault.           *)
(*                                                                         *)
(* The properties of CreateUser speak of committed rows; what makes them   *)
(* inductive is what the open transaction of a request has inserted at     *)
(* each step of the pipeline (Session), that a pooled connection serves one*)
(* request (OneSession), and that the unique index keeps inserted addresses*)
(* apart from each other and from the committed ones (InsertsDiffer).      *)
(***************************************************************************)
EXTENDS CreateUser, TLAPS

\* The steps at which a request holds a connection, and those after the answer.
Holding == {"begin", "mapEntity", "addUser", "addOutbox", "mapResponse",
            "commit", "catch", "release"}
Answered == {"release", "done", "lost"}

OneSession ==
  /\ \A r \in Request : apiConn[r] # NoApiConn <=> step[r] \in Holding
  /\ \A r, s \in Request : apiConn[r] = apiConn[s] /\ apiConn[r] # NoApiConn => r = s

\* Session c is in this state, with these inserts.
Has(c, state, users, rows) ==
  apiTxn[c] = state /\ pending[c] = [users |-> users, rows |-> rows]

\* What the transaction of request r has done so far.
Session(r) ==
  /\ step[r] \in {"begin", "release"} => Has(apiConn[r], "none", {}, {})
  /\ step[r] \in {"mapEntity", "addUser"} => Has(apiConn[r], "open", {}, {})
  /\ step[r] = "addOutbox" => Has(apiConn[r], "open", {r}, {})
  /\ step[r] \in {"mapResponse", "commit"} => Has(apiConn[r], "open", {r}, {r})
  /\ step[r] = "catch" =>
       pending[apiConn[r]].users \subseteq {r} /\ pending[apiConn[r]].rows \subseteq {r}

Sessions == \A r \in Request : Session(r)

\* The part of the invariant about connections, and the part about users.
ConnInv == ApiTypeOK /\ OneSession /\ PoolIsClean /\ Sessions

UsersAreDone == \A r \in user : step[r] \in Answered /\ outcome[r] # "409"

InsertsDiffer ==
  \A c \in ApiConn : \A r \in pending[c].users :
    /\ ~SameEmail(r, user)
    /\ \A d \in ApiConn : \A s \in pending[d].users : mail[r] = mail[s] => r = s

OutcomeFits ==
  \A r \in Request :
    /\ outcome[r] = "201" => step[r] \in Answered
    /\ outcome[r] = "409" => step[r] \in {"catch"} \union Answered

UserInv ==
  /\ UsersAreDone /\ UserIffEvent /\ InsertsDiffer
  /\ UniqueEmail /\ OutcomeFits /\ OutcomeIsTrue

-----------------------------------------------------------------------------
\* A request at work has a connection, which no other request has.
LEMMA ConnectionOf ==
  ASSUME ConnInv, NEW r \in Request, step[r] \in Holding
  PROVE  /\ apiConn[r] \in ApiConn
         /\ \A s \in Request \ {r} : apiConn[s] # apiConn[r]
  BY CreateUserAssumption DEF ConnInv, ApiTypeOK, OneSession

\* A request without a connection has inserted nothing that is still pending,
\* and what is pending on a connection was inserted by the request that has it.
LEMMA PendingIsOwn ==
  ASSUME ConnInv, NEW c \in ApiConn, NEW r \in pending[c].users \union pending[c].rows
  PROVE  r \in Request /\ apiConn[r] = c /\ step[r] \in Holding
<1>0. pending[c].users \union pending[c].rows \subseteq Request
  BY DEF ConnInv, ApiTypeOK
<1>1. PICK s \in Request : apiConn[s] = c
  BY DEF ConnInv, PoolIsClean, NothingPending
<1>2. apiConn[s] # NoApiConn /\ step[s] \in Holding
  BY <1>1, CreateUserAssumption DEF ConnInv, OneSession
<1>3. Session(s)
  BY DEF ConnInv, Sessions
<1>4. pending[c].users \subseteq {s} /\ pending[c].rows \subseteq {s}
  BY <1>1, <1>2, <1>3 DEF Session, Has, Holding
<1>5. QED
  BY <1>0, <1>1, <1>2, <1>4

\* Ending a transaction, or making it aborted, keeps the types.
LEMMA EndApiTxnType ==
  ASSUME ApiTypeOK, NEW c \in ApiConn, NEW st \in {"none", "aborted"}, EndApiTxn(c, st)
  PROVE  /\ apiTxn' \in [ApiConn -> {"none", "open", "aborted"}]
         /\ pending' \in [ApiConn -> [users : SUBSET Request, rows : SUBSET Request]]
         /\ apiTxn'[c] = st /\ pending'[c] = NothingPending
         /\ \A d \in ApiConn \ {c} : apiTxn'[d] = apiTxn[d] /\ pending'[d] = pending[d]
<1>1. NothingPending \in [users : SUBSET Request, rows : SUBSET Request]
  BY DEF NothingPending
<1>2. QED
  BY <1>1 DEF EndApiTxn, ApiTypeOK

\* A commit publishes users and rows that fit the types.
LEMMA PubliciseType ==
  ASSUME ApiTypeOK, NEW c \in ApiConn, Publicise(c)
  PROVE  user' \subseteq Request /\ row' \in [Event -> MaybeRow]
<1>1. pending[c].users \subseteq Request
  BY DEF ApiTypeOK
<1>2. ApiRow \in MaybeRow
  BY DEF ApiRow, MaybeRow, Row, Instance
<1>3. row \in [Event -> MaybeRow] /\ user \subseteq Request
  BY DEF ApiTypeOK
<1>4. QED
  BY <1>1, <1>2, <1>3 DEF Publicise

\* An insert of request r into its own transaction.
LEMMA InsertType ==
  ASSUME ConnInv, NEW r \in Request, step[r] \in Holding,
         \/ pending' = [pending EXCEPT ![apiConn[r]].users = @ \union {r}]
         \/ pending' = [pending EXCEPT ![apiConn[r]].rows = @ \union {r}]
  PROVE  /\ pending' \in [ApiConn -> [users : SUBSET Request, rows : SUBSET Request]]
         /\ \A d \in ApiConn \ {apiConn[r]} : pending'[d] = pending[d]
<1>1. apiConn[r] \in ApiConn
  BY ConnectionOf
<1>2. pending \in [ApiConn -> [users : SUBSET Request, rows : SUBSET Request]]
  BY DEF ConnInv, ApiTypeOK
<1>3. pending[apiConn[r]] \in [users : SUBSET Request, rows : SUBSET Request]
  BY <1>1, <1>2
<1>4. /\ [pending[apiConn[r]] EXCEPT !.users = @ \union {r}]
           \in [users : SUBSET Request, rows : SUBSET Request]
      /\ [pending[apiConn[r]] EXCEPT !.rows = @ \union {r}]
           \in [users : SUBSET Request, rows : SUBSET Request]
  BY <1>3
<1>5. QED
  BY <1>1, <1>2, <1>4

\* A step of request r on its own connection disturbs no other request, and
\* leaves the pool clean.
LEMMA OthersUndisturbed ==
  ASSUME ConnInv, NEW r \in Request, step[r] \in Holding, apiConn' = apiConn,
         \A s \in Request \ {r} : step'[s] = step[s],
         \A c \in ApiConn \ {apiConn[r]} : apiTxn'[c] = apiTxn[c] /\ pending'[c] = pending[c]
  PROVE  PoolIsClean' /\ \A s \in Request \ {r} : Session(s)'
<1>1. apiConn[r] \in ApiConn /\ \A s \in Request \ {r} : apiConn[s] # apiConn[r]
  BY ConnectionOf
<1>2. PoolIsClean'
  BY <1>1 DEF ConnInv, PoolIsClean, NothingPending
<1>3. ASSUME NEW s \in Request \ {r}
      PROVE  Session(s)'
  <2>1. Session(s)
    BY DEF ConnInv, Sessions
  <2>2. CASE step[s] \notin Holding
    BY <2>2 DEF Session, Holding
  <2>3. CASE step[s] \in Holding
    <3>1. apiConn[s] \in ApiConn \ {apiConn[r]}
      BY <1>1, <2>3, ConnectionOf
    <3>2. QED
      BY <2>1, <3>1 DEF Session, Has
  <2>4. QED
    BY <2>2, <2>3
<1>4. QED
  BY <1>2, <1>3

-----------------------------------------------------------------------------
\* A step of handle on the connection of its request, in terms of what the
\* lemmas above ask: the sessions of the other requests are as they were.
LEMMA OwnStep ==
  ASSUME ConnInv, NEW r \in Request,
         \/ ApiBegin(r) \/ MapEntity(r) \/ AddUser(r) \/ AddUserConflict(r)
         \/ AddOutbox(r) \/ MapResponse(r) \/ PipelineFails(r) \/ ApiCommit(r)
         \/ ApiCommitLost(r) \/ RollBack(r) \/ RollBackLost(r)
  PROVE  ApiTypeOK' /\ OneSession' /\ PoolIsClean' /\ Sessions'
<1> DEFINE c == apiConn[r]
<1>1. step[r] \in Holding
  BY DEF ApiBegin, MapEntity, AddUser, AddUserConflict, AddOutbox, MapResponse,
         PipelineFails, ApiCommit, ApiCommitLost, RollBack, RollBackLost, Holding
<1>2. c \in ApiConn /\ ApiTypeOK /\ Session(r)
  BY <1>1, ConnectionOf DEF ConnInv, Sessions
<1>3. SUFFICES /\ ApiTypeOK'
               /\ apiConn' = apiConn /\ step'[r] \in Holding
               /\ \A s \in Request \ {r} : step'[s] = step[s]
               /\ \A d \in ApiConn \ {c} : apiTxn'[d] = apiTxn[d] /\ pending'[d] = pending[d]
               /\ Session(r)'
  <2>1. PoolIsClean' /\ \A s \in Request \ {r} : Session(s)'
    BY <1>1, <1>3, OthersUndisturbed
  <2>2. OneSession'
    BY <1>1, <1>3 DEF ConnInv, OneSession
  <2>3. QED
    BY <1>3, <2>1, <2>2 DEF Sessions
<1>4. CASE ApiBegin(r)
  <2>1. pending' = pending
    BY <1>4 DEF ApiBegin
  <2>2. user' \subseteq Request /\ row' \in [Event -> MaybeRow]
    BY <1>4, <1>2 DEF ApiBegin, ApiTypeOK
  <2>3. ApiTypeOK'
    BY <1>4, <1>2, <2>1, <2>2 DEF ApiBegin, StepTo, ApiTypeOK, Step, Outcome
  <2>4. /\ apiConn' = apiConn /\ step'[r] \in Holding
        /\ \A s \in Request \ {r} : step'[s] = step[s]
        /\ \A d \in ApiConn \ {c} : apiTxn'[d] = apiTxn[d] /\ pending'[d] = pending[d]
    BY <1>4, <1>1, <1>2, <2>1 DEF ApiBegin, StepTo, ApiTypeOK, Holding
  <2>5. Session(r)'
    BY <1>4, <1>1, <1>2, <2>1 DEF ApiBegin, StepTo, ApiTypeOK, Session, Has, NothingPending
  <2>6. QED
    BY <2>3, <2>4, <2>5
<1>5. CASE MapEntity(r)
  <2>1. pending' = pending
    BY <1>5 DEF MapEntity
  <2>2. user' \subseteq Request /\ row' \in [Event -> MaybeRow]
    BY <1>5, <1>2 DEF MapEntity, ApiTypeOK
  <2>3. ApiTypeOK'
    BY <1>5, <1>2, <2>1, <2>2 DEF MapEntity, StepTo, ApiTypeOK, Step, Outcome
  <2>4. /\ apiConn' = apiConn /\ step'[r] \in Holding
        /\ \A s \in Request \ {r} : step'[s] = step[s]
        /\ \A d \in ApiConn \ {c} : apiTxn'[d] = apiTxn[d] /\ pending'[d] = pending[d]
    BY <1>5, <1>1, <1>2, <2>1 DEF MapEntity, StepTo, ApiTypeOK, Holding
  <2>5. Session(r)'
    BY <1>5, <1>1, <1>2, <2>1 DEF MapEntity, StepTo, ApiTypeOK, Session, Has, NothingPending
  <2>6. QED
    BY <2>3, <2>4, <2>5
<1>6. CASE AddUser(r)
  <2>1. apiTxn' = apiTxn /\ pending' \in [ApiConn -> [users : SUBSET Request, rows : SUBSET Request]]
    BY <1>6, <1>1, InsertType DEF AddUser
  <2>2. user' \subseteq Request /\ row' \in [Event -> MaybeRow]
    BY <1>6, <1>2 DEF AddUser, ApiTypeOK
  <2>3. ApiTypeOK'
    BY <1>6, <1>2, <2>1, <2>2 DEF AddUser, StepTo, ApiTypeOK, Step, Outcome
  <2>4. /\ apiConn' = apiConn /\ step'[r] \in Holding
        /\ \A s \in Request \ {r} : step'[s] = step[s]
        /\ \A d \in ApiConn \ {c} : apiTxn'[d] = apiTxn[d] /\ pending'[d] = pending[d]
    BY <1>6, <1>1, <1>2, <2>1, InsertType DEF AddUser, StepTo, ApiTypeOK, Holding
  <2>5. apiTxn[c] = "open" /\ pending[c] = [users |-> {}, rows |-> {}]
    BY <1>6, <1>2 DEF AddUser, Session, Has
  <2>6. pending'[c] = [users |-> {r}, rows |-> {}]
    <3>1. pending'[c] = [[users |-> {}, rows |-> {}] EXCEPT !.users = @ \union {r}]
      BY <1>6, <1>2, <2>5 DEF AddUser, ApiTypeOK
    <3>2. QED
      BY <3>1
  <2>7. step'[r] = "addOutbox"
    BY <1>6, <1>2 DEF AddUser, StepTo, ApiTypeOK
  <2>8. Session(r)'
    BY <2>1, <2>4, <2>5, <2>6, <2>7 DEF Session, Has
  <2>9. QED
    BY <2>3, <2>4, <2>8
<1>7. CASE AddUserConflict(r)
  <2>1. EndApiTxn(c, "aborted")
    BY <1>7 DEF AddUserConflict
  <2>2. user' \subseteq Request /\ row' \in [Event -> MaybeRow]
    BY <1>7, <1>2 DEF AddUserConflict, ApiTypeOK
  <2>3. ApiTypeOK'
    BY <1>7, <1>2, <2>1, <2>2, EndApiTxnType DEF AddUserConflict, StepTo, EndApiTxn, OutcomeIs, ApiTypeOK, Step, Outcome
  <2>4. /\ apiConn' = apiConn /\ step'[r] \in Holding
        /\ \A s \in Request \ {r} : step'[s] = step[s]
        /\ \A d \in ApiConn \ {c} : apiTxn'[d] = apiTxn[d] /\ pending'[d] = pending[d]
    BY <1>7, <1>1, <1>2, <2>1, EndApiTxnType DEF AddUserConflict, StepTo, ApiTypeOK, Holding
  <2>5. Session(r)'
    BY <1>7, <1>1, <1>2, <2>1, EndApiTxnType DEF AddUserConflict, StepTo, EndApiTxn, OutcomeIs, ApiTypeOK, Session, Has, NothingPending
  <2>6. QED
    BY <2>3, <2>4, <2>5
<1>8. CASE AddOutbox(r)
  <2>1. apiTxn' = apiTxn /\ pending' \in [ApiConn -> [users : SUBSET Request, rows : SUBSET Request]]
    BY <1>8, <1>1, InsertType DEF AddOutbox
  <2>2. user' \subseteq Request /\ row' \in [Event -> MaybeRow]
    BY <1>8, <1>2 DEF AddOutbox, ApiTypeOK
  <2>3. ApiTypeOK'
    BY <1>8, <1>2, <2>1, <2>2 DEF AddOutbox, StepTo, ApiTypeOK, Step, Outcome
  <2>4. /\ apiConn' = apiConn /\ step'[r] \in Holding
        /\ \A s \in Request \ {r} : step'[s] = step[s]
        /\ \A d \in ApiConn \ {c} : apiTxn'[d] = apiTxn[d] /\ pending'[d] = pending[d]
    BY <1>8, <1>1, <1>2, <2>1, InsertType DEF AddOutbox, StepTo, ApiTypeOK, Holding
  <2>5. apiTxn[c] = "open" /\ pending[c] = [users |-> {r}, rows |-> {}]
    BY <1>8, <1>2 DEF AddOutbox, Session, Has
  <2>6. pending'[c] = [users |-> {r}, rows |-> {r}]
    <3>1. pending'[c] = [[users |-> {r}, rows |-> {}] EXCEPT !.rows = @ \union {r}]
      BY <1>8, <1>2, <2>5 DEF AddOutbox, ApiTypeOK
    <3>2. QED
      BY <3>1
  <2>7. step'[r] = "mapResponse"
    BY <1>8, <1>2 DEF AddOutbox, StepTo, ApiTypeOK
  <2>8. Session(r)'
    BY <2>1, <2>4, <2>5, <2>6, <2>7 DEF Session, Has
  <2>9. QED
    BY <2>3, <2>4, <2>8
<1>9. CASE MapResponse(r)
  <2>1. pending' = pending
    BY <1>9 DEF MapResponse
  <2>2. user' \subseteq Request /\ row' \in [Event -> MaybeRow]
    BY <1>9, <1>2 DEF MapResponse, ApiTypeOK
  <2>3. ApiTypeOK'
    BY <1>9, <1>2, <2>1, <2>2 DEF MapResponse, StepTo, ApiTypeOK, Step, Outcome
  <2>4. /\ apiConn' = apiConn /\ step'[r] \in Holding
        /\ \A s \in Request \ {r} : step'[s] = step[s]
        /\ \A d \in ApiConn \ {c} : apiTxn'[d] = apiTxn[d] /\ pending'[d] = pending[d]
    BY <1>9, <1>1, <1>2, <2>1 DEF MapResponse, StepTo, ApiTypeOK, Holding
  <2>5. Session(r)'
    BY <1>9, <1>1, <1>2, <2>1 DEF MapResponse, StepTo, ApiTypeOK, Session, Has, NothingPending
  <2>6. QED
    BY <2>3, <2>4, <2>5
<1>10. CASE PipelineFails(r)
  <2>1. \/ EndApiTxn(c, "aborted") \/ UNCHANGED <<apiTxn, pending>>
    BY <1>10 DEF PipelineFails
  <2>2. user' \subseteq Request /\ row' \in [Event -> MaybeRow]
    BY <1>10, <1>2 DEF PipelineFails, ApiTypeOK
  <2>3. ApiTypeOK'
    BY <1>10, <1>2, <2>1, <2>2, EndApiTxnType DEF PipelineFails, StepTo, OutcomeIs, ApiFault, ApiTypeOK, Step, Outcome
  <2>4. /\ apiConn' = apiConn /\ step'[r] \in Holding
        /\ \A s \in Request \ {r} : step'[s] = step[s]
        /\ \A d \in ApiConn \ {c} : apiTxn'[d] = apiTxn[d] /\ pending'[d] = pending[d]
    BY <1>10, <1>1, <1>2, <2>1, EndApiTxnType DEF PipelineFails, StepTo, ApiTypeOK, Holding
  <2>5. Session(r)'
    BY <1>10, <1>1, <1>2, <2>1, EndApiTxnType DEF PipelineFails, StepTo, OutcomeIs, ApiFault, ApiTypeOK, Session, Has, NothingPending
  <2>6. QED
    BY <2>3, <2>4, <2>5
<1>11. CASE ApiCommit(r)
  <2>1. EndApiTxn(c, "none")
    BY <1>11 DEF ApiCommit
  <2>2. user' \subseteq Request /\ row' \in [Event -> MaybeRow]
    BY <1>11, <1>2, PubliciseType DEF ApiCommit
  <2>3. ApiTypeOK'
    BY <1>11, <1>2, <2>1, <2>2, EndApiTxnType DEF ApiCommit, StepTo, OutcomeIs, ApiTypeOK, Step, Outcome
  <2>4. /\ apiConn' = apiConn /\ step'[r] \in Holding
        /\ \A s \in Request \ {r} : step'[s] = step[s]
        /\ \A d \in ApiConn \ {c} : apiTxn'[d] = apiTxn[d] /\ pending'[d] = pending[d]
    BY <1>11, <1>1, <1>2, <2>1, EndApiTxnType DEF ApiCommit, StepTo, ApiTypeOK, Holding
  <2>5. Session(r)'
    BY <1>11, <1>1, <1>2, <2>1, EndApiTxnType DEF ApiCommit, StepTo, OutcomeIs, ApiTypeOK, Session, Has, NothingPending
  <2>6. QED
    BY <2>3, <2>4, <2>5
<1>12. CASE ApiCommitLost(r)
  <2>1. EndApiTxn(c, "none")
    BY <1>12 DEF ApiCommitLost
  <2>2. user' \subseteq Request /\ row' \in [Event -> MaybeRow]
    BY <1>12, <1>2, PubliciseType DEF ApiCommitLost, ApiTypeOK
  <2>3. ApiTypeOK'
    BY <1>12, <1>2, <2>1, <2>2, EndApiTxnType DEF ApiCommitLost, StepTo, OutcomeIs, ApiFault, ApiTypeOK, Step, Outcome
  <2>4. /\ apiConn' = apiConn /\ step'[r] \in Holding
        /\ \A s \in Request \ {r} : step'[s] = step[s]
        /\ \A d \in ApiConn \ {c} : apiTxn'[d] = apiTxn[d] /\ pending'[d] = pending[d]
    BY <1>12, <1>1, <1>2, <2>1, EndApiTxnType DEF ApiCommitLost, StepTo, ApiTypeOK, Holding
  <2>5. Session(r)'
    BY <1>12, <1>1, <1>2, <2>1, EndApiTxnType DEF ApiCommitLost, StepTo, OutcomeIs, ApiFault, ApiTypeOK, Session, Has, NothingPending
  <2>6. QED
    BY <2>3, <2>4, <2>5
<1>13. CASE RollBack(r)
  <2>1. EndApiTxn(c, "none")
    BY <1>13 DEF RollBack
  <2>2. user' \subseteq Request /\ row' \in [Event -> MaybeRow]
    BY <1>13, <1>2 DEF RollBack, ApiTypeOK
  <2>3. ApiTypeOK'
    BY <1>13, <1>2, <2>1, <2>2, EndApiTxnType DEF RollBack, StepTo, OutcomeIs, ApiTypeOK, Step, Outcome
  <2>4. /\ apiConn' = apiConn /\ step'[r] \in Holding
        /\ \A s \in Request \ {r} : step'[s] = step[s]
        /\ \A d \in ApiConn \ {c} : apiTxn'[d] = apiTxn[d] /\ pending'[d] = pending[d]
    BY <1>13, <1>1, <1>2, <2>1, EndApiTxnType DEF RollBack, StepTo, ApiTypeOK, Holding
  <2>5. Session(r)'
    BY <1>13, <1>1, <1>2, <2>1, EndApiTxnType DEF RollBack, StepTo, OutcomeIs, ApiTypeOK, Session, Has, NothingPending
  <2>6. QED
    BY <2>3, <2>4, <2>5
<1>14. CASE RollBackLost(r)
  <2>1. EndApiTxn(c, "none")
    BY <1>14 DEF RollBackLost
  <2>2. user' \subseteq Request /\ row' \in [Event -> MaybeRow]
    BY <1>14, <1>2 DEF RollBackLost, ApiTypeOK
  <2>3. ApiTypeOK'
    BY <1>14, <1>2, <2>1, <2>2, EndApiTxnType DEF RollBackLost, StepTo, OutcomeIs, ApiFault, ApiTypeOK, Step, Outcome
  <2>4. /\ apiConn' = apiConn /\ step'[r] \in Holding
        /\ \A s \in Request \ {r} : step'[s] = step[s]
        /\ \A d \in ApiConn \ {c} : apiTxn'[d] = apiTxn[d] /\ pending'[d] = pending[d]
    BY <1>14, <1>1, <1>2, <2>1, EndApiTxnType DEF RollBackLost, StepTo, ApiTypeOK, Holding
  <2>5. Session(r)'
    BY <1>14, <1>1, <1>2, <2>1, EndApiTxnType DEF RollBackLost, StepTo, OutcomeIs, ApiFault, ApiTypeOK, Session, Has, NothingPending
  <2>6. QED
    BY <2>3, <2>4, <2>5
<1>15. QED
  BY <1>4, <1>5, <1>6, <1>7, <1>8, <1>9, <1>10, <1>11, <1>12, <1>13, <1>14

\* What connections and transactions hold is kept by every step of the API.
LEMMA ConnStep ==
  ASSUME ConnInv, ApiStep
  PROVE  ConnInv'
<1> USE CreateUserAssumption
<1>1. ASSUME NEW r \in Request,
             Receive(r) \/ HandleStep(r) \/ ApiConnectFails(r)
               \/ PipelineFails(r) \/ ApiCommitLost(r) \/ RollBackLost(r)
      PROVE  ApiTypeOK' /\ OneSession' /\ PoolIsClean' /\ Sessions'
  <2>1. CASE Receive(r) \/ ApiConnectFails(r)
    <3>1. ApiTypeOK' /\ OneSession'
      <4>1. CASE Receive(r)
        BY <4>1 DEF Receive, StepTo, ConnInv, ApiTypeOK, OneSession, Step, Holding
      <4>2. CASE ApiConnectFails(r)
        BY <4>2 DEF ApiConnectFails, AnswerError, OutcomeIs, StepTo,
                    ConnInv, ApiTypeOK, OneSession, Step, Outcome, Holding
      <4>3. QED
        BY <2>1, <4>1, <4>2
    <3>2. UNCHANGED <<apiConn, apiTxn, pending>>
      BY <2>1 DEF Receive, ApiConnectFails
    <3>3. PoolIsClean'
      BY <3>2 DEF ConnInv, PoolIsClean
    <3>4. /\ step'[r] \in {"connect", "done"}
          /\ \A s \in Request \ {r} : step'[s] = step[s]
      BY <2>1 DEF Receive, ApiConnectFails, AnswerError, StepTo, ConnInv, ApiTypeOK
    <3>5. Sessions'
      BY <3>2, <3>4 DEF ConnInv, Sessions, Session, Has
    <3>6. QED
      BY <3>1, <3>3, <3>5
  <2>2. CASE ApiConnect(r)
    <3>1. PICK c \in ApiConn : /\ \A s \in Request : apiConn[s] # c
                               /\ apiConn' = [apiConn EXCEPT ![r] = c]
      BY <2>2 DEF ApiConnect
    <3>2. ApiTypeOK' /\ OneSession'
      BY <2>2, <3>1 DEF ApiConnect, StepTo, ConnInv, ApiTypeOK, OneSession, Step, Holding
    <3>3. apiTxn[c] = "none" /\ pending[c] = NothingPending
      BY <3>1 DEF ConnInv, PoolIsClean
    <3>4. PoolIsClean'
      BY <2>2, <3>1 DEF ApiConnect, ConnInv, ApiTypeOK, OneSession, PoolIsClean, Holding
    <3>5. Session(r)'
      BY <2>2, <3>1, <3>3 DEF ApiConnect, StepTo, ConnInv, ApiTypeOK, Session, Has, NothingPending
    <3>6. ASSUME NEW s \in Request \ {r} PROVE Session(s)'
      BY <2>2, <3>1 DEF ApiConnect, StepTo, ConnInv, ApiTypeOK, Sessions, Session, Has
    <3>7. QED
      BY <3>2, <3>4, <3>5, <3>6 DEF Sessions
  <2>3. CASE ApiRelease(r)
    <3>1. ApiTypeOK' /\ OneSession'
      BY <2>3 DEF ApiRelease, StepTo, ConnInv, ApiTypeOK, OneSession, Step, Holding
    <3>2. Session(r) /\ apiConn[r] \in ApiConn /\ \A s \in Request \ {r} : apiConn[s] # apiConn[r]
      BY <2>3, ConnectionOf DEF ApiRelease, ConnInv, Sessions, Holding
    <3>3. apiTxn[apiConn[r]] = "none" /\ pending[apiConn[r]] = NothingPending
      BY <2>3, <3>2 DEF ApiRelease, Session, Has, NothingPending
    <3>4. PoolIsClean'
      BY <2>3, <3>3 DEF ApiRelease, ConnInv, ApiTypeOK, PoolIsClean
    <3>5. Sessions'
      BY <2>3 DEF ApiRelease, StepTo, ConnInv, ApiTypeOK, Sessions, Session, Has
    <3>6. QED
      BY <3>1, <3>4, <3>5
  <2>4. QED
    BY <1>1, <2>1, <2>2, <2>3, OwnStep DEF HandleStep
<1>2. ASSUME ApiCrash
      PROVE  ApiTypeOK' /\ OneSession' /\ PoolIsClean' /\ Sessions'
  <2> DEFINE Dead(S) == {c \in ApiConn : \E r \in S : apiConn[r] = c}
  <2>1. PICK S \in SUBSET {r \in Request : step[r] \notin {"new", "done", "lost"}} :
          /\ step' = [r \in Request |-> IF r \in S THEN "lost" ELSE step[r]]
          /\ apiConn' = [r \in Request |-> IF r \in S THEN NoApiConn ELSE apiConn[r]]
          /\ apiTxn' = [c \in ApiConn |-> IF c \in Dead(S) THEN "none" ELSE apiTxn[c]]
          /\ pending' = [c \in ApiConn |-> IF c \in Dead(S) THEN NothingPending ELSE pending[c]]
    BY <1>2, Zenon DEF ApiCrash
  <2>2. UNCHANGED <<row, user, mail, outcome>> /\ apiFaults' \in Nat
    BY <1>2 DEF ApiCrash, ApiFault, ConnInv, ApiTypeOK
  <2>3. NothingPending \in [users : SUBSET Request, rows : SUBSET Request]
    BY DEF NothingPending
  <2>4. ApiTypeOK'
    BY <2>1, <2>2, <2>3 DEF ConnInv, ApiTypeOK, Step
  <2>5. OneSession'
    BY <2>1 DEF ConnInv, ApiTypeOK, OneSession, Holding
  <2>6. PoolIsClean'
    BY <2>1 DEF ConnInv, ApiTypeOK, PoolIsClean
  <2>7. ASSUME NEW s \in Request PROVE Session(s)'
    <3>1. CASE step'[s] \notin Holding
      BY <3>1 DEF Session, Holding
    <3>2. CASE step'[s] \in Holding
      <4>1. s \notin S /\ step'[s] = step[s] /\ apiConn'[s] = apiConn[s]
        BY <2>1, <3>2 DEF Holding
      <4>2. apiConn[s] \in ApiConn \ Dead(S)
        BY <2>1, <3>2, <4>1, ConnectionOf
      <4>3. QED
        BY <2>1, <4>1, <4>2 DEF ConnInv, Sessions, Session, Has
    <3>3. QED
      BY <3>1, <3>2
  <2>8. QED
    BY <2>4, <2>5, <2>6, <2>7 DEF Sessions
<1>3. QED
  BY <1>1, <1>2 DEF ApiStep, ConnInv

-----------------------------------------------------------------------------
\* The email, the committed users and the committed rows of every request are
\* left alone, no insert is added, and outcomes only change as they may.
Quiet ==
  /\ UNCHANGED <<row, user, mail>>
  /\ \A c \in ApiConn : pending'[c].users \subseteq pending[c].users
  /\ \A s \in user : step'[s] \in Answered /\ outcome'[s] # "409"
  /\ \A s \in Request : outcome'[s] = "201" => outcome[s] = "201" /\ step'[s] \in Answered
  /\ \A s \in Request : outcome'[s] = "409" =>
       step'[s] \in {"catch"} \union Answered /\ s \notin user /\ SameEmail(s, user)

\* Such a step keeps the invariant about users.
LEMMA QuietStep ==
  ASSUME ConnInv, UserInv, Quiet
  PROVE  UserInv'
<1>1. UsersAreDone' /\ UserIffEvent' /\ UniqueEmail'
  BY DEF Quiet, UserInv, UsersAreDone, UserIffEvent, UniqueEmail
<1>2. \A s \in Request : SameEmail(s, user)' <=> SameEmail(s, user)
  BY DEF Quiet, SameEmail
<1>3. InsertsDiffer'
  <2>1. ASSUME NEW c \in ApiConn, NEW r \in pending'[c].users
        PROVE  /\ ~SameEmail(r, user)'
               /\ \A d \in ApiConn : \A s \in pending'[d].users : mail'[r] = mail'[s] => r = s
    <3>1. r \in pending[c].users /\ r \in Request
      BY PendingIsOwn DEF Quiet
    <3>2. ~SameEmail(r, user)'
      BY <1>2, <3>1 DEF UserInv, InsertsDiffer
    <3>3. \A d \in ApiConn : \A s \in pending'[d].users : mail'[r] = mail'[s] => r = s
      BY <3>1 DEF Quiet, UserInv, InsertsDiffer
    <3>4. QED
      BY <3>2, <3>3
  <2>2. QED
    BY <2>1 DEF InsertsDiffer
<1>4. OutcomeFits' /\ OutcomeIsTrue'
  BY <1>2 DEF Quiet, UserInv, OutcomeFits, OutcomeIsTrue
<1>5. QED
  BY <1>1, <1>3, <1>4 DEF UserInv

\* A step of handle after which its request is neither answered 201 nor, unless
\* it was before or the address is taken, 409.
LEMMA HandlerStepIsQuiet ==
  ASSUME ConnInv, UserInv, NEW r \in Request, r \notin user, UNCHANGED <<row, user, mail>>,
         \A s \in Request \ {r} : step'[s] = step[s] /\ outcome'[s] = outcome[s],
         \/ outcome'[r] = "500"
         \/ outcome'[r] = outcome[r] /\ step[r] \notin {"catch"} \union Answered
         \/ outcome'[r] = "409" /\ step'[r] = "catch" /\ SameEmail(r, user),
         \A c \in ApiConn : pending'[c].users \subseteq pending[c].users
  PROVE  Quiet
<1>1. \A s \in user : s \in Request /\ s # r
  BY DEF ConnInv, ApiTypeOK
<1>2. \A s \in user : step'[s] \in Answered /\ outcome'[s] # "409"
  BY <1>1 DEF UserInv, UsersAreDone
<1>3. ASSUME NEW s \in Request, outcome'[s] = "201"
      PROVE  outcome[s] = "201" /\ step'[s] \in Answered
  BY <1>3 DEF UserInv, OutcomeFits
<1>4. ASSUME NEW s \in Request, outcome'[s] = "409"
      PROVE  step'[s] \in {"catch"} \union Answered /\ s \notin user /\ SameEmail(s, user)
  BY <1>4 DEF UserInv, OutcomeFits, OutcomeIsTrue
<1>5. QED
  BY <1>2, <1>3, <1>4 DEF Quiet

\* Only a request that has just arrived changes its address.
LEMMA ReceiveKeeps ==
  ASSUME ConnInv, UserInv, NEW r \in Request, Receive(r)
  PROVE  UserInv'
<1>1. /\ UNCHANGED <<row, user, outcome, pending>>
      /\ \A s \in Request \ {r} : mail'[s] = mail[s] /\ step'[s] = step[s]
      /\ step[r] = "new"
  BY DEF Receive, StepTo, ConnInv, ApiTypeOK
<1>2. user \subseteq Request \ {r} /\ outcome[r] \notin {"201", "409"}
  BY <1>1 DEF ConnInv, ApiTypeOK, UserInv, UsersAreDone, OutcomeFits, Answered
<1>3. \A s \in Request \ {r} : SameEmail(s, user)' <=> SameEmail(s, user)
  BY <1>1, <1>2 DEF SameEmail
<1>4. \A c \in ApiConn : pending[c].users \subseteq Request \ {r}
  BY <1>1, PendingIsOwn DEF Holding
<1>5. UsersAreDone' /\ UserIffEvent' /\ UniqueEmail'
  BY <1>1, <1>2 DEF UserInv, UsersAreDone, UserIffEvent, UniqueEmail
<1>6. InsertsDiffer'
  BY <1>1, <1>3, <1>4 DEF UserInv, InsertsDiffer
<1>7. OutcomeFits' /\ OutcomeIsTrue'
  BY <1>1, <1>2, <1>3 DEF UserInv, OutcomeFits, OutcomeIsTrue
<1>8. QED
  BY <1>5, <1>6, <1>7 DEF UserInv

\* The unique index: an insert differs from what is committed and from what the
\* other sessions have inserted.
LEMMA AddUserKeeps ==
  ASSUME ConnInv, UserInv, NEW r \in Request, AddUser(r)
  PROVE  UserInv'
<1>1. /\ UNCHANGED <<row, user, mail, outcome>> /\ step[r] = "addUser"
      /\ \A s \in Request \ {r} : step'[s] = step[s]
  BY DEF AddUser, StepTo, ConnInv, ApiTypeOK
<1>2. user \subseteq Request \ {r} /\ outcome[r] \notin {"201", "409"}
  BY <1>1 DEF ConnInv, ApiTypeOK, UserInv, UsersAreDone, OutcomeFits, Answered
<1>3. \A S : SameEmail(r, S)' <=> SameEmail(r, S)
  BY <1>1 DEF SameEmail
<1>4. \A s \in Request : SameEmail(s, user)' <=> SameEmail(s, user)
  BY <1>1 DEF SameEmail
<1>5. UsersAreDone' /\ UserIffEvent' /\ UniqueEmail'
  BY <1>1, <1>2 DEF UserInv, UsersAreDone, UserIffEvent, UniqueEmail
<1>6. apiConn[r] \in ApiConn /\ pending \in [ApiConn -> [users : SUBSET Request, rows : SUBSET Request]]
  BY <1>1, ConnectionOf DEF Holding, ConnInv, ApiTypeOK
<1>7. \A c \in ApiConn : pending'[c].users \subseteq pending[c].users \union {r}
  BY <1>6 DEF AddUser
<1>8. \A c \in ApiConn : \A s \in pending[c].users : mail[s] # mail[r]
  BY DEF AddUser, SameEmail
<1>9. ASSUME NEW c \in ApiConn, NEW s \in pending'[c].users
      PROVE  /\ ~SameEmail(s, user)'
             /\ \A d \in ApiConn : \A t \in pending'[d].users : mail'[s] = mail'[t] => s = t
  <2>1. s \in Request
    BY <1>6, <1>7
  <2>2. ~SameEmail(s, user)
    BY <1>7 DEF AddUser, UserInv, InsertsDiffer
  <2>3. \A d \in ApiConn : \A t \in pending'[d].users : mail[s] = mail[t] => s = t
    BY <1>7, <1>8 DEF UserInv, InsertsDiffer
  <2>4. QED
    BY <1>1, <1>4, <2>1, <2>2, <2>3
<1>10. InsertsDiffer'
  BY <1>9 DEF InsertsDiffer
<1>11. OutcomeFits' /\ OutcomeIsTrue'
  BY <1>1, <1>2, <1>4 DEF UserInv, OutcomeFits, OutcomeIsTrue
<1>12. QED
  BY <1>5, <1>10, <1>11 DEF UserInv

\* COMMIT makes the user and the row of its request, and nothing else, public.
LEMMA CommitKeeps ==
  ASSUME ConnInv, UserInv, NEW r \in Request, step[r] = "commit",
         Publicise(apiConn[r]), EndApiTxn(apiConn[r], "none"), UNCHANGED mail,
         StepTo(r, "release"), OutcomeIs(r, "201") \/ OutcomeIs(r, "500")
  PROVE  UserInv'
<1> DEFINE c == apiConn[r]
<1>1. c \in ApiConn /\ pending[c] = [users |-> {r}, rows |-> {r}]
  <2>1. c \in ApiConn
    BY ConnectionOf DEF Holding
  <2>2. Session(r)
    BY DEF ConnInv, Sessions
  <2>3. QED
    BY <2>1, <2>2 DEF Session, Has
<1>2. /\ user' = user \union {r} /\ row'[r] = ApiRow
      /\ \A s \in Request \ {r} : row'[s] = row[s]
  BY <1>1, CreateUserAssumption DEF Publicise
<1>3. /\ step'[r] = "release" /\ outcome'[r] \in {"201", "500"}
      /\ \A s \in Request \ {r} : step'[s] = step[s] /\ outcome'[s] = outcome[s]
  BY DEF StepTo, OutcomeIs, ConnInv, ApiTypeOK
<1>4. r \notin user /\ user \subseteq Request
  BY DEF ConnInv, ApiTypeOK, UserInv, UsersAreDone, Answered
<1>5. ~SameEmail(r, user)
  BY <1>1 DEF UserInv, InsertsDiffer
<1>6. UsersAreDone'
  BY <1>2, <1>3, <1>4 DEF UserInv, UsersAreDone, Answered
<1>7. UserIffEvent'
  <2>1. ApiRow # NoRow
    BY DEF ApiRow, NoRow
  <2>2. QED
    BY <1>2, <2>1 DEF UserInv, UserIffEvent
<1>8. UniqueEmail'
  BY <1>2, <1>5 DEF UserInv, UniqueEmail, SameEmail
<1>9. InsertsDiffer'
  <2>1. /\ pending'[c].users = {}
        /\ \A d \in ApiConn \ {c} : pending'[d] = pending[d]
    BY <1>1 DEF EndApiTxn, NothingPending, ConnInv, ApiTypeOK
  <2>2. ASSUME NEW d \in ApiConn, NEW s \in pending'[d].users
        PROVE  /\ ~SameEmail(s, user)'
               /\ \A e \in ApiConn : \A t \in pending'[e].users : mail'[s] = mail'[t] => s = t
    <3>1. d # c /\ s \in pending[d].users
      BY <2>1
    <3>2. s \in Request /\ s # r
      BY <3>1, PendingIsOwn
    <3>3. mail[s] # mail[r] /\ ~SameEmail(s, user)
      BY <1>1, <3>1, <3>2 DEF UserInv, InsertsDiffer
    <3>4. ~SameEmail(s, user)'
      BY <1>2, <3>3 DEF SameEmail
    <3>5. \A e \in ApiConn : \A t \in pending'[e].users : t \in pending[e].users
      BY <2>1
    <3>6. QED
      BY <3>1, <3>4, <3>5 DEF UserInv, InsertsDiffer
  <2>3. QED
    BY <2>2 DEF InsertsDiffer
<1>10. OutcomeFits'
  BY <1>3 DEF UserInv, OutcomeFits, Answered
<1>11. OutcomeIsTrue'
  <2>1. \A s \in Request : SameEmail(s, user) => SameEmail(s, user)'
    BY <1>2 DEF SameEmail
  <2>2. QED
    BY <1>2, <1>3, <2>1 DEF UserInv, OutcomeIsTrue
<1>12. QED
  BY <1>6, <1>7, <1>8, <1>9, <1>10, <1>11 DEF UserInv

\* Every step of the API keeps the part of the invariant about users.
LEMMA UserStep ==
  ASSUME ConnInv, UserInv, ApiStep
  PROVE  UserInv'
<1>1. ASSUME NEW r \in Request,
             \/ ApiConnect(r) \/ ApiBegin(r) \/ MapEntity(r) \/ AddOutbox(r)
             \/ MapResponse(r) \/ AddUserConflict(r) \/ RollBack(r) \/ ApiRelease(r)
             \/ ApiConnectFails(r) \/ PipelineFails(r) \/ RollBackLost(r)
      PROVE  UserInv'
  <2>1. ConnInv'
    BY <1>1, ConnStep DEF ApiStep, HandleStep
  <2>2. UNCHANGED <<row, user, mail>>
    BY <1>1 DEF ApiConnect, ApiBegin, MapEntity, AddOutbox, MapResponse, AddUserConflict,
                RollBack, ApiRelease, ApiConnectFails, PipelineFails, RollBackLost
  <2>3. \A c \in ApiConn : pending'[c].users \subseteq pending[c].users
    <3>1. CASE pending' = pending
      BY <3>1
    <3>2. CASE step[r] \in Holding /\ \E st \in {"none", "aborted"} : EndApiTxn(apiConn[r], st)
      BY <3>2, ConnectionOf DEF EndApiTxn, NothingPending, ConnInv, ApiTypeOK
    <3>3. CASE AddOutbox(r)
      <4>1. apiConn[r] \in ApiConn /\ pending \in [ApiConn -> [users : SUBSET Request, rows : SUBSET Request]]
        BY <3>3, ConnectionOf DEF AddOutbox, Holding, ConnInv, ApiTypeOK
      <4>2. QED
        BY <3>3, <4>1 DEF AddOutbox
    <3>4. QED
      BY <1>1, <3>1, <3>2, <3>3
         DEF ApiConnect, ApiBegin, MapEntity, MapResponse, AddUserConflict, RollBack,
             ApiRelease, ApiConnectFails, PipelineFails, RollBackLost, Holding
  <2>4. \A s \in Request \ {r} : step'[s] = step[s] /\ outcome'[s] = outcome[s]
    BY <1>1 DEF ApiConnect, ApiBegin, MapEntity, AddOutbox, MapResponse, AddUserConflict,
                RollBack, ApiRelease, ApiConnectFails, AnswerError, PipelineFails,
                RollBackLost, StepTo, OutcomeIs, ConnInv, ApiTypeOK
  <2>5. CASE RollBack(r) \/ ApiRelease(r)
    <3>1. outcome' = outcome /\ step[r] \in {"catch", "release"} /\ step'[r] \in Answered
      BY <2>5 DEF RollBack, ApiRelease, StepTo, ConnInv, ApiTypeOK, Answered
    <3>2. Quiet
      BY <2>2, <2>3, <2>4, <3>1
         DEF Quiet, UserInv, UsersAreDone, OutcomeFits, OutcomeIsTrue, ConnInv, ApiTypeOK
    <3>3. QED
      BY <3>2, QuietStep
  <2>6. CASE ~(RollBack(r) \/ ApiRelease(r))
    <3>1. step[r] \notin Answered
      BY <1>1, <2>6
         DEF ApiConnect, ApiBegin, MapEntity, AddOutbox, MapResponse, AddUserConflict,
             ApiConnectFails, PipelineFails, RollBackLost, Answered
    <3>2. r \notin user
      BY <3>1 DEF UserInv, UsersAreDone
    <3>3. \/ outcome'[r] = "500"
          \/ outcome'[r] = outcome[r] /\ step[r] \notin {"catch"} \union Answered
          \/ outcome'[r] = "409" /\ step'[r] = "catch" /\ SameEmail(r, user)
      BY <1>1, <2>6, <3>1
         DEF ApiConnect, ApiBegin, MapEntity, AddOutbox, MapResponse, AddUserConflict,
             ApiConnectFails, AnswerError, PipelineFails, RollBackLost, StepTo, OutcomeIs,
             ConnInv, ApiTypeOK
    <3>4. QED
      BY <2>2, <2>3, <2>4, <3>2, <3>3, HandlerStepIsQuiet, QuietStep
  <2>7. QED
    BY <2>5, <2>6
<1>2. ASSUME NEW r \in Request, ApiCommit(r) PROVE UserInv'
  BY <1>2, CommitKeeps DEF ApiCommit
<1>3. ASSUME NEW r \in Request, ApiCommitLost(r) PROVE UserInv'
  <2>1. CASE Publicise(apiConn[r])
    BY <1>3, <2>1, CommitKeeps DEF ApiCommitLost
  <2>2. CASE UNCHANGED <<user, row>>
    <3>1. apiConn[r] \in ApiConn /\ step[r] = "commit"
      BY <1>3, ConnectionOf DEF ApiCommitLost, Holding
    <3>2. /\ UNCHANGED <<row, user, mail>> /\ outcome'[r] = "500"
          /\ \A s \in Request \ {r} : step'[s] = step[s] /\ outcome'[s] = outcome[s]
          /\ \A c \in ApiConn : pending'[c].users \subseteq pending[c].users
      BY <1>3, <2>2, <3>1
         DEF ApiCommitLost, StepTo, OutcomeIs, EndApiTxn, NothingPending, ConnInv, ApiTypeOK
    <3>3. r \notin user
      BY <3>1 DEF UserInv, UsersAreDone, Answered
    <3>4. QED
      BY <3>2, <3>3, HandlerStepIsQuiet, QuietStep
  <2>3. QED
    BY <1>3, <2>1, <2>2 DEF ApiCommitLost
<1>4. ASSUME ApiCrash PROVE UserInv'
  <2>1. UNCHANGED <<row, user, mail, outcome>>
    BY <1>4 DEF ApiCrash
  <2>2. \A s \in Request : step'[s] = step[s] \/ step'[s] = "lost"
    BY <1>4 DEF ApiCrash
  <2>3. \A c \in ApiConn : pending'[c] = pending[c] \/ pending'[c] = NothingPending
    BY <1>4 DEF ApiCrash
  <2>4. Quiet
    BY <2>1, <2>2, <2>3
       DEF Quiet, NothingPending, ConnInv, ApiTypeOK, UserInv, UsersAreDone, OutcomeFits,
           OutcomeIsTrue, Answered
  <2>5. QED
    BY <2>4, QuietStep
<1>5. QED
  BY <1>1, <1>2, <1>3, <1>4, ReceiveKeeps, AddUserKeeps DEF ApiStep, HandleStep

-----------------------------------------------------------------------------
\* No request has arrived, no connection is in use, and no request has a row.
LEMMA InvInit ==
  ASSUME ApiInit, row \in [Event -> MaybeRow], \A r \in Request : row[r] = NoRow
  PROVE  ConnInv /\ UserInv
<1> USE CreateUserAssumption DEF ApiInit, NothingPending
<1>1. ApiTypeOK
  BY DEF ApiTypeOK, Step, Outcome
<1>2. OneSession /\ PoolIsClean
  BY DEF OneSession, PoolIsClean, Holding
<1>3. Sessions
  BY DEF Sessions, Session
<1>4. UsersAreDone /\ UserIffEvent /\ InsertsDiffer /\ UniqueEmail
  BY DEF UsersAreDone, UserIffEvent, InsertsDiffer, UniqueEmail
<1>5. OutcomeFits /\ OutcomeIsTrue
  BY DEF OutcomeFits, OutcomeIsTrue
<1>6. QED
  BY <1>1, <1>2, <1>3, <1>4, <1>5 DEF ConnInv, UserInv

\* A step of the rest of the system, which may rewrite rows but neither inserts
\* nor deletes one, keeps the invariant.
LEMMA InvElsewhere ==
  ASSUME ConnInv, UserInv, UNCHANGED localvars, row' \in [Event -> MaybeRow],
         \A e \in Event : row'[e] = NoRow <=> row[e] = NoRow
  PROVE  ConnInv' /\ UserInv'
<1> USE DEF localvars
<1>1. ConnInv'
  BY DEF ConnInv, ApiTypeOK, OneSession, PoolIsClean, Sessions, Session, Has
<1>2. \A s \in Request : SameEmail(s, user)' <=> SameEmail(s, user)
  BY DEF SameEmail
<1>3. \A c \in ApiConn : \A r \in pending[c].users : r \in Request
  BY DEF ConnInv, ApiTypeOK
<1>4. UserIffEvent'
  BY CreateUserAssumption DEF UserInv, UserIffEvent
<1>5. UsersAreDone' /\ UniqueEmail' /\ OutcomeFits'
  BY DEF UserInv, UsersAreDone, UniqueEmail, OutcomeFits
<1>6. InsertsDiffer' /\ OutcomeIsTrue'
  BY <1>2, <1>3 DEF UserInv, InsertsDiffer, OutcomeIsTrue
<1>7. QED
  BY <1>1, <1>4, <1>5, <1>6 DEF UserInv

\* What the outbox table sees of the API: one new row at a time, of a request
\* that had none, and no other change.
LEMMA ApiInsertsOneRow ==
  ASSUME ConnInv, UserInv, ApiStep
  PROVE  \/ row' = row
         \/ \E r \in Request : row[r] = NoRow /\ row' = [row EXCEPT ![r] = ApiRow]
<1>1. ASSUME NEW r \in Request, step[r] = "commit", Publicise(apiConn[r])
      PROVE  row[r] = NoRow /\ row' = [row EXCEPT ![r] = ApiRow]
  <2>1. apiConn[r] \in ApiConn
    BY <1>1, ConnectionOf DEF Holding
  <2>2. pending[apiConn[r]].rows = {r}
    <3>1. Session(r)
      BY DEF ConnInv, Sessions
    <3>2. pending[apiConn[r]] = [users |-> {r}, rows |-> {r}]
      BY <1>1, <3>1 DEF Session, Has
    <3>3. QED
      BY <3>2
  <2>3. row' = [row EXCEPT ![r] = ApiRow]
    BY <1>1, <2>2 DEF Publicise, ConnInv, ApiTypeOK
  <2>4. r \notin user
    BY <1>1 DEF UserInv, UsersAreDone, Answered
  <2>5. QED
    BY <2>3, <2>4 DEF UserInv, UserIffEvent
<1>2. ASSUME NEW r \in Request, ApiCommit(r) \/ ApiCommitLost(r)
      PROVE  row' = row \/ (step[r] = "commit" /\ Publicise(apiConn[r]))
  BY <1>2 DEF ApiCommit, ApiCommitLost
<1>3. ASSUME \A r \in Request : ~ApiCommit(r) /\ ~ApiCommitLost(r)
      PROVE  row' = row
  BY <1>3 DEF ApiStep, HandleStep, Receive, ApiConnect, ApiConnectFails, ApiBegin,
              MapEntity, AddUser, AddUserConflict, AddOutbox, MapResponse, PipelineFails,
              RollBack, RollBackLost, ApiRelease, ApiCrash
<1>4. QED
  BY <1>1, <1>2, <1>3

\* The invariant holds in every reachable state, whatever fails and whenever.
THEOREM Invariance == CreateUserSafety => [](ConnInv /\ UserInv)
<1>1. CreateUserInit => ConnInv /\ UserInv
  BY InvInit, CreateUserAssumption DEF CreateUserInit, MaybeRow
<1>2. (ConnInv /\ UserInv) /\ [ApiStep]_apivars => (ConnInv /\ UserInv)'
  <2>1. ConnInv /\ UserInv /\ UNCHANGED apivars => (ConnInv /\ UserInv)'
    BY InvElsewhere DEF apivars, ConnInv, ApiTypeOK
  <2>2. QED
    BY <2>1, ConnStep, UserStep
<1>3. QED
  BY <1>1, <1>2, PTL DEF CreateUserSafety

\* The types of the handler's state.
THEOREM TypeCorrect == CreateUserSafety => []ApiTypeOK
<1>1. ConnInv => ApiTypeOK
  BY DEF ConnInv
<1>2. QED
  BY Invariance, <1>1, PTL

\* The user and its outbox row are committed together or not at all.
THEOREM Atomicity == CreateUserSafety => []UserIffEvent
<1>1. UserInv => UserIffEvent
  BY DEF UserInv
<1>2. QED
  BY Invariance, <1>1, PTL

\* No two users have one address, however many requests race for it.
THEOREM Uniqueness == CreateUserSafety => []UniqueEmail
<1>1. UserInv => UniqueEmail
  BY DEF UserInv
<1>2. QED
  BY Invariance, <1>1, PTL

\* A client is told 201 or 409 only when it is true.
THEOREM TrueAnswers == CreateUserSafety => []OutcomeIsTrue
<1>1. UserInv => OutcomeIsTrue
  BY DEF UserInv
<1>2. QED
  BY Invariance, <1>1, PTL

\* A connection no request holds has no transaction and nothing pending on it.
THEOREM CleanPool == CreateUserSafety => []PoolIsClean
<1>1. ConnInv => PoolIsClean
  BY DEF ConnInv
<1>2. QED
  BY Invariance, <1>1, PTL
=============================================================================
