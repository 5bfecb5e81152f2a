----------------------------- MODULE OutboxRow -----------------------------
(***************************************************************************)
(* A row of the outbox table, cut down to the three columns the dispatch   *)
(* protocol reads and writes.  eventType and status never change and are   *)
(* the same in every row the program writes, so they are left out; so are  *)
(* the payload (the name of the event stands for it), the dates and the    *)
(* version column, which no decision of the program depends on.            *)
(***************************************************************************)

Null == "NULL"
Instance == "CRON_JOB_INSTANCE_1"

\* Every value the three columns can hold: nothing writes FAILED.
Row == [jobStatus   : {"PENDING", "PROCESSING", "COMPLETED"},
        isPublished : {"NO", "YES"},
        lockedBy    : {Null, Instance}]

\* No such row: an event that was never inserted, or a row a transaction has
\* not written.
NoRow == [jobStatus |-> "ABSENT", isPublished |-> "NO", lockedBy |-> Null]

MaybeRow == Row \union {NoRow}

\* A row written before the migration that added jobStatus and lockedBy: the
\* ALTER TABLE gives it the default status and leaves lockedBy NULL.
LegacyRow == [jobStatus |-> "PENDING", isPublished |-> "NO", lockedBy |-> Null]

\* Slip: the row is written as published already.
ApiRowPublished == [jobStatus |-> "PENDING", isPublished |-> "YES", lockedBy |-> Instance]

\* Slip: no value of BoolEnum.
ApiRowFalse == [jobStatus |-> "PENDING", isPublished |-> "FALSE", lockedBy |-> Instance]

\* The row CreateOutboxDbService builds for a new user.  lockedBy is already
\* set to the name of the cron instance.
ApiRow == [jobStatus |-> "PENDING", isPublished |-> "NO", lockedBy |-> Instance]

\* The WHERE clause of the query that looks for work.
Claimable(r) ==
  /\ r.jobStatus = "PENDING"
  /\ r.isPublished = "NO"
  /\ r.lockedBy = Null

\* Slip: the rows are returned without being marked.
ClaimedLater(r) == r

\* Slip: the claim saves the entity that was read, with isPublished = NO.
ClaimedAnew(r) == [jobStatus |-> "PROCESSING", isPublished |-> "NO", lockedBy |-> Instance]

\* Slip: a status the reader of the table does not know.
ClaimedFailed(r) == [jobStatus |-> "FAILED", isPublished |-> r.isPublished, lockedBy |-> Instance]

\* The UPDATE that claims a row: it sets two columns and leaves isPublished as
\* the latest committed version of the row has it.
Claimed(r) == [jobStatus   |-> "PROCESSING",
               isPublished |-> r.isPublished,
               lockedBy    |-> Instance]

\* Slip: the status set in memory is lost, the entity still says PENDING.
PublishedPending(snapshot) == [snapshot EXCEPT !.isPublished = "YES"]

\* The UPDATE after a successful reply.  It writes every column of the entity
\* in memory, so all but the two columns set here take the values the SELECT
\* saw before the row was claimed.
Published(snapshot) == [jobStatus   |-> "COMPLETED",
                        isPublished |-> "YES",
                        lockedBy    |-> snapshot.lockedBy]
=============================================================================
