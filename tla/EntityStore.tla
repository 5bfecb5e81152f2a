----------------------------- MODULE EntityStore -----------------------------
(***************************************************************************)
(* The generic services of the db package on one table: AddService,        *)
(* GetByIdentifierService, GetVersionByIdentifierService, UpdateService and*)
(* DeleteService, called with query runners whose transactions overlap, at *)
(* READ COMMITTED.  A row is deleted by setting its status to INACTIVE.    *)
(* Columns other than status and version are one value, named by who wrote *)
(* it.                                                                     *)
(***************************************************************************)
EXTENDS Naturals, FiniteSets

CONSTANTS
  Identifier,
  Client,        \* the callers, each with a transaction of its own
  MaxVersion,    \* bound: versions of a row
  Absent         \* no row

VARIABLES
  table,     \* [Identifier -> Absent or a row]: what is committed
  dirty,     \* [Client -> the row its open transaction has written, or Absent]
  found,     \* [Client -> the entity it has read, or Absent]
  aim,       \* [Client -> the identifier it works on]
  estep,     \* [Client -> where it is]
  reply      \* [Client -> status of the result of its last call]

evars == <<table, dirty, found, aim, estep, reply>>

Status == {"ACTIVE", "INACTIVE"}
Version == 1..MaxVersion
Entity == [status : Status, version : Version, by : Client]

ASSUME EntityAssumption == MaxVersion \in Nat \ {0} /\ Absent \notin Entity

\* Another open transaction has written row i, or inserted it: wait for it.
Locked(c, i) == \E d \in Client \ {c} : dirty[d] # Absent /\ aim[d] = i

\* WHERE identifier = ... AND status = ...: an UPDATE looks again after having
\* waited for a lock.
Matches(i, s) == table[i] # Absent /\ table[i].status = s

Write(c, e) == dirty' = [dirty EXCEPT ![c] = e]

Result(c, r) ==
  /\ reply' = [reply EXCEPT ![c] = r]
  /\ estep' = [estep EXCEPT ![c] = "called"]

-----------------------------------------------------------------------------
\* GetByIdentifierService: getOne() by identifier and status.
GetByIdentifier(c, i, s) ==
  /\ estep[c] = "start"
  /\ aim' = [aim EXCEPT ![c] = i]
  /\ \/ /\ Matches(i, s)
        /\ found' = [found EXCEPT ![c] = table[i]]
        /\ estep' = [estep EXCEPT ![c] = "read"]
        /\ UNCHANGED reply
     \/ /\ ~Matches(i, s)
        /\ Result(c, "NOT_FOUND")
        /\ UNCHANGED found
  /\ UNCHANGED <<table, dirty>>

\* GetUserByEmailDbService: the one ACTIVE user with the address, another column
\* with a unique index.
GetUserByEmail(c, i) == GetByIdentifier(c, i, "ACTIVE")

\* AddService: the unique index on identifier lets one insert win; an error
\* aborts the transaction.
Add(c, i, s) ==
  /\ estep[c] = "start"
  /\ aim' = [aim EXCEPT ![c] = i]
  /\ ~Locked(c, i)
  /\ IF table[i] = Absent
       THEN Write(c, [status |-> s, version |-> 1, by |-> c]) /\ Result(c, "ADDED")
       ELSE Result(c, "ERROR") /\ UNCHANGED dirty
  /\ UNCHANGED <<table, found>>

\* Slip: the row is found by its identifier alone.
UpdateById(c) ==
  /\ estep[c] = "read"
  /\ ~Locked(c, aim[c])
  /\ IF table[aim[c]] # Absent
       THEN Write(c, [found[c] EXCEPT !.by = c]) /\ Result(c, "UPDATED")
       ELSE Result(c, "NOT_FOUND") /\ UNCHANGED dirty
  /\ UNCHANGED <<table, found, aim>>

\* UpdateService: every column of the entity is set, the version it was read
\* with included; the version is counted up only when the entity has none.
Update(c) ==
  /\ estep[c] = "read"
  /\ ~Locked(c, aim[c])
  /\ IF Matches(aim[c], found[c].status)
       THEN /\ \E v \in {found[c].version, table[aim[c]].version + 1} \intersect Version :
                 Write(c, [status |-> found[c].status, version |-> v, by |-> c])
            /\ Result(c, "UPDATED")
       ELSE Result(c, "NOT_FOUND") /\ UNCHANGED dirty
  /\ UNCHANGED <<table, found, aim>>

\* Slip: the row is looked up when the call starts, not when the lock is free.
DeleteUnchecked(c) ==
  /\ estep[c] = "read"
  /\ ~Locked(c, aim[c])
  /\ table[aim[c]].version < MaxVersion
  /\ Write(c, [table[aim[c]] EXCEPT !.status = "INACTIVE", !.version = @ + 1])
  /\ Result(c, "DELETED")
  /\ UNCHANGED <<table, found, aim>>

\* DeleteService: set({ status: INACTIVE }), and the version is counted up.
Delete(c) ==
  /\ estep[c] = "read"
  /\ ~Locked(c, aim[c])
  /\ IF Matches(aim[c], found[c].status)
       THEN /\ table[aim[c]].version < MaxVersion
            /\ Write(c, [table[aim[c]] EXCEPT !.status = "INACTIVE", !.version = @ + 1])
            /\ Result(c, "DELETED")
       ELSE Result(c, "NOT_FOUND") /\ UNCHANGED dirty
  /\ UNCHANGED <<table, found, aim>>

\* GetVersionByIdentifierService: NOT_FOUND when another has deleted the row
\* since it was read.
GetVersion(c) ==
  /\ estep[c] = "read"
  /\ IF Matches(aim[c], found[c].status)
       THEN /\ found' = [found EXCEPT ![c].version = table[aim[c]].version]
            /\ UNCHANGED <<estep, reply>>
       ELSE Result(c, "NOT_FOUND") /\ UNCHANGED found
  /\ UNCHANGED <<table, dirty, aim>>

\* The caller commits what succeeded.
EntityCommit(c) ==
  /\ estep[c] = "called" /\ reply[c] \in {"ADDED", "UPDATED", "DELETED"}
  /\ table' = [table EXCEPT ![aim[c]] = dirty[c]]
  /\ dirty' = [dirty EXCEPT ![c] = Absent]
  /\ estep' = [estep EXCEPT ![c] = "committed"]
  /\ UNCHANGED <<found, aim, reply>>

\* It rolls back, after an error or for a reason of its own, or its session
\* ends.
EntityRollback(c) ==
  /\ estep[c] \in {"read", "called"}
  /\ dirty' = [dirty EXCEPT ![c] = Absent]
  /\ estep' = [estep EXCEPT ![c] = "rolledBack"]
  /\ UNCHANGED <<table, found, aim, reply>>

-----------------------------------------------------------------------------
EInit ==
  /\ \E c \in Client :
       table \in [Identifier -> {Absent, [status |-> "ACTIVE", version |-> 1, by |-> c]}]
  /\ dirty = [c \in Client |-> Absent]
  /\ found = [c \in Client |-> Absent]
  /\ \E i \in Identifier : aim = [c \in Client |-> i]
  /\ estep = [c \in Client |-> "start"]
  /\ reply = [c \in Client |-> "none"]

ENext ==
  \E c \in Client :
    \/ \E i \in Identifier, s \in Status : GetByIdentifier(c, i, s) \/ Add(c, i, s)
    \/ \E i \in Identifier : GetUserByEmail(c, i)
    \/ Update(c) \/ Delete(c) \/ GetVersion(c)
    \/ EntityCommit(c) \/ EntityRollback(c)

ESpec == EInit /\ [][ENext]_evars

-----------------------------------------------------------------------------
\* A deletion is final, and one caller's: of several callers that read the same
\* active row and delete it, one is told that it did, and no update by a caller
\* who read the row before brings it back, whichever waited for whom.
DeletedOnceForAll ==
  LET Deleted(c) == estep[c] = "committed" /\ reply[c] = "DELETED"
  IN  \A c \in Client :
        /\ Deleted(c) => table[aim[c]].status = "INACTIVE"
        /\ \A d \in Client \ {c} :
             Deleted(c) /\ Deleted(d) /\ aim[c] = aim[d] =>
               "INACTIVE" \in {found[c].status, found[d].status}
=============================================================================
