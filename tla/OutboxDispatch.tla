--------------------------- MODULE OutboxDispatch ---------------------------
(***************************************************************************)
(* The cron process that reads the outbox table and asks the queue to send *)
(* the emails.  Its parts:                                                 *)
(*   - the cron job, which starts a tick every 20 seconds whether or not   *)
(*     the ticks before it have ended;                                     *)
(*   - a tick: WelcomeUserEmailPublishIntegrationEventService.handleAsync, *)
(*     one transaction on one pooled connection from BEGIN to the release; *)
(*   - the publish calls of a tick, one per claimed row, all concurrent and*)
(*     all on the transaction of the tick;                                 *)
(*   - PostgreSQL at READ COMMITTED: committed rows, what each session has *)
(*     written, and row locks, held by the session that wrote the row.     *)
(* A tick is a name: it can be used again once the run it named and the    *)
(* jobs that run left in Redis are finished.                               *)
(***************************************************************************)
EXTENDS WelcomeEmailQueue, OutboxRow

CONSTANTS
  Conn,    \* the connections of the process's pool (10 in the code)
  NoConn,
  Take     \* rows a tick claims at most (12 in the code)

ASSUME DispatchAssumption ==
  /\ NoConn \notin Conn
  /\ Take \in Nat \ {0}

VARIABLES
  row,     \* [Event -> MaybeRow]: the committed outbox table
  txn,     \* [Conn -> {"none", "open", "aborted"}]: the session's transaction
  write,   \* [Conn -> [Event -> MaybeRow]]: what it wrote; such rows are locked
  pc,      \* [Tick -> where handleAsync is]
  conn,    \* [Tick -> the connection its query runner holds]
  snap     \* [Tick -> [Event -> MaybeRow]]: the entities the SELECT returned

tvars == <<row, txn, write, pc, conn, snap>>
vars == <<row, txn, write, pc, conn, snap, qvars>>

NoWrites == [e \in Event |-> NoRow]
PcState == {"off", "connect", "begin", "list", "claim", "batch", "release"}

TypeOK ==
  /\ QTypeOK
  /\ row \in [Event -> MaybeRow]
  /\ txn \in [Conn -> {"none", "open", "aborted"}]
  /\ write \in [Conn -> [Event -> MaybeRow]]
  /\ pc \in [Tick -> PcState]
  /\ conn \in [Tick -> Conn \union {NoConn}]
  /\ snap \in [Tick -> [Event -> MaybeRow]]

\* The rows a tick has read and means to publish.
Picked(t) == {e \in Event : snap[t][e] # NoRow}

\* A statement of session c sees the session's own writes over what is
\* committed when the statement runs.
Visible(c, e) == IF write[c][e] # NoRow THEN write[c][e] ELSE row[e]

\* Another session has written this row and its transaction is not over.
LockedByOther(c, e) == \E d \in Conn \ {c} : write[d][e] # NoRow

\* The rows the query of the tick on session c finds, and how many it takes.
\* The ORDER BY is left out: no decision depends on the order.
FoundRows(c) == {e \in Event : Claimable(Visible(c, e))}
FirstRows(S) ==
  {P \in SUBSET S :
     Cardinality(P) = IF Cardinality(S) < Take THEN Cardinality(S) ELSE Take}

Goto(t, p) == pc' = [pc EXCEPT ![t] = p]

\* Slip: the end of the transaction leaves its writes and locks behind.
EndTxnKeepsLocks(c, state) ==
  /\ txn' = [txn EXCEPT ![c] = state]
  /\ UNCHANGED write

\* ROLLBACK, or the server's own rollback: the writes and the locks are gone.
EndTxn(c, state) ==
  /\ txn' = [txn EXCEPT ![c] = state]
  /\ write' = [write EXCEPT ![c] = NoWrites]

-----------------------------------------------------------------------------
(* One tick                                                                  *)

\* The cron job fires.  It does not wait for the tick before it to complete.
Fire(t) ==
  /\ pc[t] = "off"
  /\ \A e \in Event : job[t][e].st \in {"none"} \union Finished
  /\ Goto(t, "connect")
  /\ job' = [job EXCEPT ![t] = [e \in Event |-> NoJob]]
  /\ UNCHANGED <<row, txn, write, conn, snap, call, emailed, consumerUp, faults>>

\* await queryRunner.connect(): waits for a connection of the pool.
Connect(t) ==
  /\ pc[t] = "connect"
  /\ \E c \in Conn :
       /\ \A u \in Tick : conn[u] # c
       /\ conn' = [conn EXCEPT ![t] = c]
  /\ Goto(t, "begin")
  /\ UNCHANGED <<row, txn, write, snap, qvars>>

\* await queryRunner.startTransaction().  On a connection whose transaction was
\* never ended START TRANSACTION is only a warning.
Begin(t) ==
  /\ pc[t] = "begin"
  /\ txn[conn[t]] # "aborted"
  /\ txn' = [txn EXCEPT ![conn[t]] = "open"]
  /\ Goto(t, "list")
  /\ UNCHANGED <<row, write, conn, snap, qvars>>

\* START TRANSACTION is an error on a connection that was released with an
\* aborted transaction, or for any reason of the server's.  The catch block
\* rolls back and the tick ends.
BeginFails(t) ==
  /\ pc[t] = "begin"
  /\ IF txn[conn[t]] = "aborted" THEN UNCHANGED faults ELSE Fault("db")
  /\ EndTxn(conn[t], "none")
  /\ Goto(t, "release")
  /\ UNCHANGED <<row, conn, snap, call, job, emailed, consumerUp>>

\* The SELECT of GetOutboxDbService finds rows.  It locks none of them.
List(t) ==
  /\ pc[t] = "list"
  /\ FoundRows(conn[t]) # {}
  /\ \E P \in FirstRows(FoundRows(conn[t])) :
       snap' = [snap EXCEPT ![t] =
                  [e \in Event |-> IF e \in P THEN Visible(conn[t], e) ELSE NoRow]]
  /\ Goto(t, "claim")
  /\ UNCHANGED <<row, txn, write, conn, qvars>>

\* It finds none: NOT_FOUND, which handleAsync reports as success.  The
\* connection is released with the transaction still open.
ListEmpty(t) ==
  /\ pc[t] = "list"
  /\ FoundRows(conn[t]) = {}
  /\ Goto(t, "release")
  /\ UNCHANGED <<row, txn, write, conn, snap, qvars>>

\* The UPDATE ... WHERE id IN (...) that claims the rows.  It waits for the
\* locks of other sessions and then overwrites whatever they committed: its
\* condition is the id alone.  (Rows are locked in the order of the scan, the
\* same for every tick, so that two claims never wait for each other.)
Claim(t) ==
  /\ pc[t] = "claim"
  /\ \A e \in Picked(t) : ~LockedByOther(conn[t], e)
  /\ write' = [write EXCEPT ![conn[t]] =
                 [e \in Event |-> IF e \in Picked(t)
                                    THEN Claimed(Visible(conn[t], e))
                                    ELSE write[conn[t]][e]]]
  /\ call' = [call EXCEPT ![t] =
                [e \in Event |-> IF e \in Picked(t) THEN "todo" ELSE "none"]]
  /\ Goto(t, "batch")
  /\ UNCHANGED <<row, txn, conn, snap, job, emailed, consumerUp, faults>>

\* The SELECT or the UPDATE is answered by an error, which aborts the
\* transaction.  GetOutboxListService reports every error as NOT_FOUND, so
\* that handleAsync returns success and does not roll back.
GetOutboxFails(t) ==
  /\ pc[t] \in {"list", "claim"}
  /\ Fault("db")
  /\ EndTxn(conn[t], "aborted")
  /\ Goto(t, "release")
  /\ UNCHANGED <<row, conn, snap, call, job, emailed, consumerUp>>

\* The caller's half of a publish call: after a successful reply,
\* UpdateOutboxDbService writes the entity the SELECT returned.
UpdateRow(t, e) ==
  /\ pc[t] = "batch"
  /\ call[t][e] = "ok"
  /\ txn[conn[t]] = "open"
  /\ write' = [write EXCEPT ![conn[t]][e] = Published(snap[t][e])]
  /\ SetCall(t, e, "done")
  /\ UNCHANGED <<row, txn, pc, conn, snap, job, emailed, consumerUp, faults>>

\* Slip: each UPDATE is on its own, its failure leaves the claim in place.
UpdateFailsAlone(t, e) ==
  /\ pc[t] = "batch"
  /\ call[t][e] = "ok"
  /\ Fault("db")
  /\ SetCall(t, e, "err")
  /\ UNCHANGED <<row, txn, write, pc, conn, snap, job, emailed, consumerUp>>

\* The UPDATE is answered by an error: it aborts the transaction of the whole
\* tick, or another row's UPDATE already has.  Only this call reports it, and
\* OutboxBatchService logs and forgets it.
UpdateFails(t, e) ==
  /\ pc[t] = "batch"
  /\ call[t][e] = "ok"
  /\ IF txn[conn[t]] = "aborted" THEN UNCHANGED faults ELSE Fault("db")
  /\ EndTxn(conn[t], "aborted")
  /\ SetCall(t, e, "err")
  /\ UNCHANGED <<row, pc, conn, snap, job, emailed, consumerUp>>

\* All publish calls have settled.
BatchOver(t) == \A e \in Picked(t) : call[t][e] \in {"done", "err"}

\* await queryRunner.commitTransaction().
Commit(t) ==
  /\ pc[t] = "batch"
  /\ BatchOver(t)
  /\ txn[conn[t]] = "open"
  /\ row' = [e \in Event |-> Visible(conn[t], e)]
  /\ EndTxn(conn[t], "none")
  /\ Goto(t, "release")
  /\ UNCHANGED <<conn, snap, qvars>>

\* COMMIT of an aborted transaction is a rollback and no error.
CommitAborted(t) ==
  /\ pc[t] = "batch"
  /\ BatchOver(t)
  /\ txn[conn[t]] = "aborted"
  /\ EndTxn(conn[t], "none")
  /\ Goto(t, "release")
  /\ UNCHANGED <<row, conn, snap, qvars>>

\* finally { await queryRunner.release() }: the connection goes back to the
\* pool as it is; release ends no transaction.
Release(t) ==
  /\ pc[t] = "release"
  /\ conn' = [conn EXCEPT ![t] = NoConn]
  /\ snap' = [snap EXCEPT ![t] = NoWrites]
  /\ call' = [call EXCEPT ![t] = [e \in Event |-> "none"]]
  /\ Goto(t, "off")
  /\ UNCHANGED <<row, txn, write, job, emailed, consumerUp, faults>>

-----------------------------------------------------------------------------
(* Around the ticks                                                          *)

\* The pool closes a connection that has been idle for some time, and the
\* server rolls back what was open on it.
ReapIdle(c) ==
  /\ \A t \in Tick : conn[t] # c
  /\ txn[c] # "none"
  /\ EndTxn(c, "none")
  /\ UNCHANGED <<row, pc, conn, snap, qvars>>

\* The cron process dies and is started again: its sessions are closed, its
\* ticks are gone, and the jobs it added stay in Redis.  An exception out of
\* connect() or out of the catch block ends here too.
CronCrash ==
  /\ Fault("cron")
  /\ txn' = [c \in Conn |-> "none"]
  /\ write' = [c \in Conn |-> NoWrites]
  /\ pc' = [t \in Tick |-> "off"]
  /\ conn' = [t \in Tick |-> NoConn]
  /\ snap' = [t \in Tick |-> NoWrites]
  /\ call' = [t \in Tick |-> [e \in Event |-> "none"]]
  /\ UNCHANGED <<row, job, emailed, consumerUp>>

\* The API process commits the outbox row of a new user.
ApiInsert(e) ==
  /\ row[e] = NoRow
  /\ row' = [row EXCEPT ![e] = ApiRow]
  /\ UNCHANGED <<txn, write, pc, conn, snap, qvars>>

-----------------------------------------------------------------------------
TickStep(t) ==
  \/ Connect(t) \/ Begin(t) \/ List(t) \/ ListEmpty(t) \/ Claim(t)
  \/ Commit(t) \/ CommitAborted(t) \/ Release(t)
  \/ BeginFails(t) \/ GetOutboxFails(t)

PublishStep(t, e) == UpdateRow(t, e) \/ UpdateFails(t, e)

DispatchStep ==
  \/ \E t \in Tick : Fire(t) \/ TickStep(t)
  \/ \E t \in Tick, e \in Event : PublishStep(t, e)
  \/ \E c \in Conn : ReapIdle(c)
  \/ CronCrash

Next ==
  \/ DispatchStep
  \/ QueueStep /\ UNCHANGED tvars
  \/ \E e \in Event : ApiInsert(e)

\* The table may hold rows from before the migration.
Init ==
  /\ row \in [Event -> {LegacyRow, NoRow}]
  /\ txn = [c \in Conn |-> "none"]
  /\ write = [c \in Conn |-> NoWrites]
  /\ pc = [t \in Tick |-> "off"]
  /\ conn = [t \in Tick |-> NoConn]
  /\ snap = [t \in Tick |-> NoWrites]
  /\ call = [t \in Tick |-> [e \in Event |-> "none"]]
  /\ job = [t \in Tick |-> [e \in Event |-> NoJob]]
  /\ emailed = [e \in Event |-> 0]
  /\ consumerUp = TRUE
  /\ faults = 0

Spec == Init /\ [][Next]_vars

\* The cron timer keeps firing, event loops keep turning, and waiting for a
\* connection or a row lock is first come first served.
TickFairness(t) ==
  /\ WF_vars(Fire(t))
  /\ WF_vars(TickStep(t))
  /\ SF_vars(Connect(t))
  /\ SF_vars(Claim(t))
  /\ \A e \in Event :
       /\ WF_vars(PublishStep(t, e))
       /\ WF_vars(ProducerStep(t, e) /\ UNCHANGED tvars)
       /\ WF_vars(ConsumerStep(t, e) /\ UNCHANGED tvars)
       /\ SF_vars(TakeJob(t, e) /\ UNCHANGED tvars)

Fairness ==
  /\ \A t \in Tick : TickFairness(t)
  /\ WF_vars(ConsumerRestart /\ UNCHANGED tvars)

FairSpec == Spec /\ Fairness

-----------------------------------------------------------------------------
\* Safety

\* A row says isPublished = YES only if its email has gone out, whatever fails
\* and whichever ticks overlap: sendEmailEvent/index.ts sets the column after
\* the reply, and the reply comes after the email.
PublishedMeansEmailed ==
  \A e \in Event : row[e].isPublished = "YES" => emailed[e] >= 1

\* A published row is never taken for one that is still pending, although the
\* UPDATE that publishes it writes an entity read before the row was claimed;
\* and COMPLETED never stands in a row that was not published.
StatusAgrees ==
  \A e \in Event :
    /\ row[e].isPublished = "YES" => row[e].jobStatus \in {"COMPLETED", "PROCESSING"}
    /\ row[e].jobStatus = "COMPLETED" => row[e].isPublished = "YES"

\* A row has uncommitted writes of one session at most, and a connection in
\* the pool has none: the transaction that the NOT_FOUND path of handleAsync
\* leaves open holds no lock that could block a later tick, and no write that
\* the next user of the connection could commit.
LeakIsHarmless ==
  /\ \A c, d \in Conn, e \in Event :
       write[c][e] # NoRow /\ write[d][e] # NoRow => c = d
  /\ \A c \in Conn : (\A t \in Tick : conn[t] # c) => write[c] = NoWrites

\* What one step may do to the committed table: isPublished never goes back to
\* NO, and a row that could not be claimed never becomes claimable (again),
\* although publishing it writes lockedBy = NULL back into it.
NeverReopened ==
  [][\A e \in Event :
       /\ row[e].isPublished = "YES" => row'[e].isPublished = "YES"
       /\ row[e] # NoRow /\ ~Claimable(row[e]) => ~Claimable(row'[e])]_row

\* With one tick at a time, an email goes out twice only if the transaction of
\* the tick that sent it was lost: refusals, exceptions of the processor,
\* missed replies and failing queue commands never cause a duplicate.
\* (Checked without the fault kinds db, cron and consumer.)
EmailedOnce == \A e \in Event : emailed[e] <= 1

\* A claim is never committed without its publication as long as only database
\* statements and the cron process fail: the claim and the result of the call
\* are in one transaction.  (Checked without the fault kinds of the queue.)
ClaimIsProvisional == \A e \in Event : row[e].jobStatus # "PROCESSING"

-----------------------------------------------------------------------------
\* The inductive invariant behind these properties, in its parts.

\* A tick past connect() holds a connection of its own, and its transaction is
\* alive while it looks for rows.
HasConn(t) == pc[t] \in {"begin", "list", "claim", "batch", "release"}

ConnInv ==
  /\ \A t \in Tick : IF HasConn(t) THEN conn[t] \in Conn ELSE conn[t] = NoConn
  /\ \A t, u \in Tick : conn[t] = conn[u] /\ conn[t] # NoConn => t = u
  /\ \A t \in Tick : pc[t] \in {"list", "claim"} => txn[conn[t]] = "open"

\* Only a tick in its batch has uncommitted writes, in a transaction that is
\* alive, and no two sessions have written the same row.
LockInv ==
  /\ \A c \in Conn, e \in Event :
       write[c][e] # NoRow =>
         txn[c] = "open" /\ \E t \in Tick : conn[t] = c /\ pc[t] = "batch"
  /\ \A c, d \in Conn, e \in Event :
       write[c][e] # NoRow /\ write[d][e] # NoRow => c = d

\* While its transaction is alive a tick holds the lock of every row it is
\* publishing, so that no other session can write that row.
CallInv ==
  /\ \A t \in Tick, e \in Event :
       call[t][e] # "none" => pc[t] \in {"batch", "release"}
  /\ \A t \in Tick, e \in Event :
       pc[t] = "batch" /\ txn[conn[t]] = "open" /\ call[t][e] # "none" =>
         write[conn[t]][e] # NoRow

\* A written row has left PENDING, is COMPLETED only if published, and does not
\* take a published row back; a row that is marked was emailed.
GoodWrite(c, e) ==
  /\ write[c][e].jobStatus \in {"PROCESSING", "COMPLETED"}
  /\ write[c][e].jobStatus = "COMPLETED" => write[c][e].isPublished = "YES"
  /\ row[e].isPublished = "YES" => write[c][e].isPublished = "YES"
  /\ write[c][e].isPublished = "YES" => emailed[e] >= 1

WriteInv ==
  \A c \in Conn, e \in Event : write[c][e] # NoRow => GoodWrite(c, e)

\* Nothing is read, written, asked for or emailed that was not committed.
ExistInv ==
  \A e \in Event :
    row[e] = NoRow =>
      /\ \A t \in Tick : snap[t][e] = NoRow /\ call[t][e] = "none" /\ job[t][e].st = "none"
      /\ \A c \in Conn : write[c][e] = NoRow

DispatchInv ==
  /\ TypeOK
  /\ EmailEvidence
  /\ PublishedMeansEmailed
  /\ StatusAgrees
  /\ ConnInv
  /\ LockInv
  /\ CallInv
  /\ WriteInv
  /\ ExistInv

-----------------------------------------------------------------------------
\* The cron process and the queue together implement the contract: an event is
\* emailed only if its row was committed, marked only after it was emailed, and
\* commits of several ticks change nothing but these marks.
Contract == INSTANCE OutboxContract WITH
  committed <- {e \in Event : row[e] # NoRow},
  delivered <- emailed,
  published <- {e \in Event : row[e].isPublished = "YES"}

KeepsContract == Contract!ContractSpec

-----------------------------------------------------------------------------
\* Liveness

\* Every row the query can find is published in the end, in spite of failing
\* statements and crashes of the cron process.
ClaimableIsPublished ==
  \A e \in Event : Claimable(row[e]) ~> (row[e].isPublished = "YES")

\* A tick that has started ends: it does not hold its connection for ever
\* although sendAsync has no timeout.
TickEnds == \A t \in Tick : (pc[t] # "off") ~> (pc[t] = "off")

\* README.md: "events are never lost due to broker failures or network issues".
\* An event in the table, that the query can find, is published in the end.
EventsAreNeverLost == ClaimableIsPublished
=============================================================================
