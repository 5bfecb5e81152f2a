--------------------------- MODULE DatabaseProofs ----------------------------
(***************************************************************************)
(* Proofs about the generic database services and the paged lists.         *)
(***************************************************************************)
EXTENDS EntityStore, PagedList, FiniteSetTheorems, TLAPS

-----------------------------------------------------------------------------
(***************************************************************************)
(* The services, for every number of callers and rows and every order of   *)
(* their statements.                                                       *)
(*                                                                         *)
(* What makes DeletedOnceForAll inductive is what an open transaction knows *)
(* about the committed row while it holds the lock (Checked), and that only *)
(* one holds it (OneWriter).                                               *)
(***************************************************************************)

\* What the variables may be.
ETypeOK ==
  /\ table \in [Identifier -> Entity \union {Absent}]
  /\ dirty \in [Client -> Entity \union {Absent}]
  /\ found \in [Client -> Entity \union {Absent}]
  /\ aim \in [Client -> Identifier]
  /\ estep \in [Client -> {"start", "read", "called", "committed", "rolledBack"}]
  /\ reply \in [Client -> {"none", "NOT_FOUND", "ERROR", "ADDED", "UPDATED", "DELETED"}]

\* The answers of calls that have written.
Wrote == {"ADDED", "UPDATED", "DELETED"}

\* A transaction has written exactly when its call has succeeded and it is open.
WrittenIsCalled ==
  \A c \in Client : dirty[c] # Absent <=> estep[c] = "called" /\ reply[c] \in Wrote

\* The lock on a row.
OneWriter ==
  \A c, d \in Client :
    dirty[c] # Absent /\ dirty[d] # Absent /\ aim[c] = aim[d] => c = d

\* What an update or a deletion was based on still holds when it commits.
Checked ==
  \A c \in Client :
    dirty[c] # Absent =>
      /\ reply[c] = "ADDED" => table[aim[c]] = Absent
      /\ reply[c] \in {"UPDATED", "DELETED"} =>
           /\ table[aim[c]] # Absent
           /\ table[aim[c]].status = found[c].status
      /\ reply[c] = "UPDATED" => dirty[c].status = found[c].status
      /\ reply[c] = "DELETED" => dirty[c].status = "INACTIVE"

\* A caller that has read a row has an entity.
ReadIsFound ==
  \A c \in Client :
    /\ estep[c] = "read" => found[c] # Absent
    /\ reply[c] \in {"UPDATED", "DELETED"} => found[c] # Absent
    /\ estep[c] \in {"start", "read"} => reply[c] = "none"

Deleted(c) == estep[c] = "committed" /\ reply[c] = "DELETED"

\* A row that was deleted stays deleted.
Gone ==
  \A c \in Client :
    Deleted(c) => table[aim[c]] # Absent /\ table[aim[c]].status = "INACTIVE"

\* Of two deletions of one row one was of a row that was INACTIVE already.
OneWasLate ==
  \A c, d \in Client :
    c # d /\ Deleted(c) /\ Deleted(d) /\ aim[c] = aim[d] =>
      "INACTIVE" \in {found[c].status, found[d].status}

EInv ==
  /\ ETypeOK /\ WrittenIsCalled /\ OneWriter /\ Checked /\ ReadIsFound
  /\ Gone /\ OneWasLate

-----------------------------------------------------------------------------
\* The invariant holds before any call.
LEMMA EInvInit == EInit => EInv
<1> SUFFICES ASSUME EInit PROVE EInv
  OBVIOUS
<1>1. ETypeOK
  <2>1. PICK c \in Client :
          table \in [Identifier -> {Absent, [status |-> "ACTIVE", version |-> 1, by |-> c]}]
    BY DEF EInit
  <2>2. [status |-> "ACTIVE", version |-> 1, by |-> c] \in Entity
    BY EntityAssumption DEF Entity, Status, Version
  <2>3. table \in [Identifier -> Entity \union {Absent}]
    BY <2>1, <2>2
  <2>4. QED
    BY <2>3 DEF EInit, ETypeOK
<1>2. WrittenIsCalled /\ OneWriter /\ Checked /\ ReadIsFound /\ Gone /\ OneWasLate
  BY DEF EInit, WrittenIsCalled, OneWriter, Checked, ReadIsFound, Gone, OneWasLate, Deleted
<1>3. QED
  BY <1>1, <1>2 DEF EInv

\* Reading, and calls that write nothing.
LEMMA ReadStep ==
  ASSUME EInv, NEW c \in Client, UNCHANGED <<table, dirty>>, ETypeOK',
         estep[c] \in {"start", "read"}, estep'[c] \in {"read", "called"},
         estep'[c] = "read" => found'[c] # Absent /\ reply'[c] = reply[c],
         estep'[c] = "called" => reply'[c] \in {"NOT_FOUND", "ERROR"},
         \A d \in Client \ {c} :
           /\ aim'[d] = aim[d] /\ estep'[d] = estep[d] /\ reply'[d] = reply[d]
           /\ found'[d] = found[d]
  PROVE  EInv'
<1>1. dirty[c] = Absent /\ reply[c] = "none"
  BY DEF EInv, WrittenIsCalled, ReadIsFound
<1>2. reply'[c] \in {"none", "NOT_FOUND", "ERROR"}
  BY <1>1
<1>3. WrittenIsCalled' /\ OneWriter'
  BY <1>1, <1>2 DEF EInv, WrittenIsCalled, OneWriter, Wrote
<1>4. Checked'
  BY <1>1 DEF EInv, Checked
<1>5. ReadIsFound'
  BY <1>1, <1>2 DEF EInv, ReadIsFound
<1>6. Gone' /\ OneWasLate'
  BY <1>2 DEF EInv, Gone, OneWasLate, Deleted
<1>7. QED
  BY <1>3, <1>4, <1>5, <1>6 DEF EInv

\* A call that writes, when nobody else has a lock on the row.
LEMMA WriteStep ==
  ASSUME EInv, NEW c \in Client, NEW e \in Entity, NEW r \in Wrote, Write(c, e), Result(c, r),
         UNCHANGED <<table, found>>, aim' \in [Client -> Identifier],
         \A d \in Client \ {c} : aim'[d] = aim[d],
         ~Locked(c, aim'[c]), estep[c] \in {"start", "read"},
         r = "ADDED" => table[aim'[c]] = Absent,
         r \in {"UPDATED", "DELETED"} =>
           /\ found[c] # Absent /\ table[aim'[c]] # Absent
           /\ table[aim'[c]].status = found[c].status,
         r = "UPDATED" => e.status = found[c].status,
         r = "DELETED" => e.status = "INACTIVE"
  PROVE  EInv'
<1>1. /\ dirty'[c] = e /\ estep'[c] = "called" /\ reply'[c] = r /\ e # Absent
      /\ \A d \in Client \ {c} :
           dirty'[d] = dirty[d] /\ estep'[d] = estep[d] /\ reply'[d] = reply[d]
  BY EntityAssumption DEF EInv, ETypeOK, Write, Result
<1>2. ETypeOK'
  BY DEF EInv, ETypeOK, Write, Result, Wrote
<1>3. WrittenIsCalled'
  BY <1>1 DEF EInv, WrittenIsCalled
<1>4. OneWriter'
  BY <1>1 DEF EInv, OneWriter, Locked
<1>5. Checked'
  BY <1>1 DEF EInv, Checked
<1>6. ReadIsFound'
  BY <1>1 DEF EInv, ReadIsFound
<1>7. Gone' /\ OneWasLate'
  BY <1>1 DEF EInv, Gone, OneWasLate, Deleted
<1>8. QED
  BY <1>2, <1>3, <1>4, <1>5, <1>6, <1>7 DEF EInv

\* A commit makes what the caller wrote the row everybody sees.
LEMMA CommitStep ==
  ASSUME EInv, NEW c \in Client, EntityCommit(c)
  PROVE  EInv'
<1>1. /\ estep[c] = "called" /\ reply[c] \in Wrote
      /\ UNCHANGED <<found, aim, reply>>
  BY DEF EntityCommit, Wrote
<1>2. dirty[c] # Absent
  BY <1>1 DEF EInv, WrittenIsCalled
<1>3. dirty[c] \in Entity /\ aim[c] \in Identifier
  BY <1>2 DEF EInv, ETypeOK
<1>4. /\ table'[aim[c]] = dirty[c]
      /\ \A i \in Identifier \ {aim[c]} : table'[i] = table[i]
      /\ dirty'[c] = Absent /\ estep'[c] = "committed"
      /\ \A d \in Client \ {c} : dirty'[d] = dirty[d] /\ estep'[d] = estep[d]
  BY <1>3 DEF EntityCommit, EInv, ETypeOK
<1>5. ETypeOK'
  BY <1>3 DEF EntityCommit, EInv, ETypeOK
<1>6. WrittenIsCalled' /\ OneWriter' /\ ReadIsFound'
  BY <1>1, <1>4 DEF EInv, WrittenIsCalled, OneWriter, ReadIsFound
<1>7. Checked'
  <2>1. ASSUME NEW d \in Client, dirty'[d] # Absent
        PROVE  d # c /\ dirty[d] # Absent /\ aim[d] \in Identifier \ {aim[c]}
    BY <1>2, <1>4, <2>1 DEF EInv, OneWriter, ETypeOK
  <2>2. QED
    BY <1>1, <1>4, <2>1 DEF EInv, Checked
<1>8. ASSUME NEW d \in Client \ {c}, Deleted(d), aim[d] = aim[c]
      PROVE  /\ reply[c] \in {"UPDATED", "DELETED"}
             /\ found[c].status = "INACTIVE" /\ dirty[c].status = "INACTIVE"
  <2>1. table[aim[c]] # Absent /\ table[aim[c]].status = "INACTIVE"
    BY <1>8 DEF EInv, Gone
  <2>2. reply[c] # "ADDED"
    BY <1>2, <2>1 DEF EInv, Checked
  <2>3. QED
    BY <1>1, <1>2, <2>1, <2>2 DEF EInv, Checked, Wrote
<1>9. \A d \in Client \ {c} : Deleted(d)' => Deleted(d)
  BY <1>1, <1>4 DEF Deleted
<1>10. Gone'
  <2>1. ASSUME NEW d \in Client, Deleted(d)'
        PROVE  table'[aim[d]] # Absent /\ table'[aim[d]].status = "INACTIVE"
    <3>1. CASE aim[d] # aim[c]
      <4>1. d \in Client \ {c} /\ aim[d] \in Identifier \ {aim[c]}
        BY <3>1 DEF EInv, ETypeOK
      <4>2. QED
        BY <1>4, <1>9, <2>1, <4>1 DEF EInv, Gone
    <3>2. CASE d = c
      BY <1>1, <1>2, <1>4, <2>1, <3>2 DEF Deleted, EInv, Checked
    <3>3. CASE d # c /\ aim[d] = aim[c]
      BY <1>2, <1>4, <1>8, <1>9, <2>1, <3>3
    <3>4. QED
      BY <3>1, <3>2, <3>3
  <2>2. QED
    BY <1>1, <2>1 DEF Gone
<1>11. OneWasLate'
  BY <1>1, <1>8, <1>9 DEF EInv, OneWasLate
<1>12. QED
  BY <1>5, <1>6, <1>7, <1>10, <1>11 DEF EInv

\* A rollback leaves the row as it is and gives up the lock.
LEMMA RollbackStep ==
  ASSUME EInv, NEW c \in Client, EntityRollback(c)
  PROVE  EInv'
<1>1. /\ UNCHANGED <<table, found, aim, reply>>
      /\ dirty'[c] = Absent /\ estep'[c] = "rolledBack"
      /\ \A d \in Client \ {c} : dirty'[d] = dirty[d] /\ estep'[d] = estep[d]
  BY DEF EntityRollback, EInv, ETypeOK
<1>2. ETypeOK'
  BY DEF EntityRollback, EInv, ETypeOK
<1>3. WrittenIsCalled' /\ OneWriter' /\ ReadIsFound'
  BY <1>1 DEF EInv, WrittenIsCalled, OneWriter, ReadIsFound
<1>4. Checked' /\ Gone' /\ OneWasLate'
  BY <1>1 DEF EInv, Checked, Gone, OneWasLate, Deleted
<1>5. QED
  BY <1>2, <1>3, <1>4 DEF EInv

\* Every service call, commit and rollback keeps the invariant.
LEMMA EInvStep == EInv /\ [ENext]_evars => EInv'
<1> SUFFICES ASSUME EInv, [ENext]_evars PROVE EInv'
  OBVIOUS
<1>1. CASE UNCHANGED evars
  BY <1>1 DEF evars, EInv, ETypeOK, WrittenIsCalled, OneWriter, Checked, ReadIsFound,
              Gone, OneWasLate, Deleted
<1>2. ASSUME NEW c \in Client, NEW i \in Identifier, NEW s \in Status, GetByIdentifier(c, i, s)
      PROVE  EInv'
  <2>1. ETypeOK'
    BY <1>2 DEF GetByIdentifier, Result, EInv, ETypeOK
  <2>2. QED
    BY <1>2, <2>1, ReadStep DEF GetByIdentifier, Result, Matches, EInv, ETypeOK
<1>3. ASSUME NEW c \in Client, NEW i \in Identifier, NEW s \in Status, Add(c, i, s)
      PROVE  EInv'
  <2> DEFINE e == [status |-> s, version |-> 1, by |-> c]
  <2>1. /\ aim' \in [Client -> Identifier] /\ aim'[c] = i
        /\ \A d \in Client \ {c} : aim'[d] = aim[d]
    BY <1>3 DEF Add, EInv, ETypeOK
  <2>2. CASE table[i] = Absent
    <3>1. e \in Entity
      BY EntityAssumption DEF Entity, Version
    <3>2. Write(c, e) /\ Result(c, "ADDED") /\ UNCHANGED <<table, found>> /\ ~Locked(c, i)
      BY <1>3, <2>2 DEF Add
    <3>3. "ADDED" \in Wrote /\ estep[c] = "start"
      BY <1>3 DEF Add, Wrote
    <3>4. QED
      BY <2>1, <2>2, <3>1, <3>2, <3>3, WriteStep
  <2>3. CASE table[i] # Absent
    <3>1. Result(c, "ERROR") /\ UNCHANGED <<table, found, dirty>> /\ estep[c] = "start"
      BY <1>3, <2>3 DEF Add
    <3>2. ETypeOK'
      BY <2>1, <3>1 DEF Result, EInv, ETypeOK
    <3>3. QED
      BY <2>1, <3>1, <3>2, ReadStep DEF Result, EInv, ETypeOK
  <2>4. QED
    BY <2>2, <2>3
<1>4. ASSUME NEW c \in Client, Update(c) PROVE EInv'
  <2>1. /\ estep[c] = "read" /\ ~Locked(c, aim[c]) /\ UNCHANGED <<table, found, aim>>
        /\ found[c] \in Entity /\ found[c] # Absent
    BY <1>4 DEF Update, EInv, ReadIsFound, ETypeOK
  <2>2. CASE Matches(aim[c], found[c].status)
    <3>1. PICK v \in Version :
            Write(c, [status |-> found[c].status, version |-> v, by |-> c]) /\ Result(c, "UPDATED")
      BY <1>4, <2>2 DEF Update
    <3>2. [status |-> found[c].status, version |-> v, by |-> c] \in Entity
      BY <2>1 DEF Entity
    <3>3. QED
      BY <2>1, <2>2, <3>1, <3>2, WriteStep DEF Matches, Wrote, EInv, ETypeOK
  <2>3. CASE ~Matches(aim[c], found[c].status)
    <3>1. Result(c, "NOT_FOUND") /\ UNCHANGED dirty
      BY <1>4, <2>3 DEF Update
    <3>2. QED
      BY <2>1, <3>1, ReadStep DEF Result, EInv, ETypeOK
  <2>4. QED
    BY <2>2, <2>3
<1>5. ASSUME NEW c \in Client, Delete(c) PROVE EInv'
  <2> DEFINE e == [table[aim[c]] EXCEPT !.status = "INACTIVE", !.version = @ + 1]
  <2>1. /\ estep[c] = "read" /\ ~Locked(c, aim[c]) /\ UNCHANGED <<table, found, aim>>
        /\ found[c] \in Entity /\ found[c] # Absent
    BY <1>5 DEF Delete, EInv, ReadIsFound, ETypeOK
  <2>2. CASE Matches(aim[c], found[c].status)
    <3>1. Write(c, e) /\ Result(c, "DELETED") /\ table[aim[c]].version < MaxVersion
      BY <1>5, <2>2 DEF Delete
    <3>2. table[aim[c]] \in Entity
      BY <2>2 DEF Matches, EInv, ETypeOK
    <3>3. e \in Entity /\ e.status = "INACTIVE"
      <4>1. table[aim[c]].version \in Nat /\ table[aim[c]].version + 1 \in Version
        BY <3>1, <3>2, EntityAssumption DEF Entity, Version
      <4>2. QED
        BY <3>2, <4>1 DEF Entity, Status
    <3>4. QED
      BY <2>1, <2>2, <3>1, <3>3, WriteStep DEF Matches, Wrote, EInv, ETypeOK
  <2>3. CASE ~Matches(aim[c], found[c].status)
    <3>1. Result(c, "NOT_FOUND") /\ UNCHANGED dirty
      BY <1>5, <2>3 DEF Delete
    <3>2. QED
      BY <2>1, <3>1, ReadStep DEF Result, EInv, ETypeOK
  <2>4. QED
    BY <2>2, <2>3
<1>6. ASSUME NEW c \in Client, GetVersion(c) PROVE EInv'
  <2>1. /\ estep[c] = "read" /\ UNCHANGED <<table, dirty, aim>>
        /\ found[c] \in Entity /\ found[c] # Absent
    BY <1>6 DEF GetVersion, EInv, ReadIsFound, ETypeOK
  <2>2. CASE Matches(aim[c], found[c].status)
    <3>1. table[aim[c]] \in Entity
      BY <2>2 DEF Matches, EInv, ETypeOK
    <3>2. [found[c] EXCEPT !.version = table[aim[c]].version] \in Entity
      BY <2>1, <3>1 DEF Entity
    <3>3. /\ found' = [found EXCEPT ![c] = [found[c] EXCEPT !.version = table[aim[c]].version]]
          /\ UNCHANGED <<estep, reply>>
      BY <1>6, <2>2 DEF GetVersion, EInv, ETypeOK
    <3>4. ETypeOK' /\ found'[c] # Absent
      BY <2>1, <3>2, <3>3, EntityAssumption DEF EInv, ETypeOK
    <3>5. QED
      BY <2>1, <3>3, <3>4, ReadStep DEF EInv, ETypeOK
  <2>3. CASE ~Matches(aim[c], found[c].status)
    <3>1. Result(c, "NOT_FOUND") /\ UNCHANGED found
      BY <1>6, <2>3 DEF GetVersion
    <3>2. QED
      BY <2>1, <3>1, ReadStep DEF Result, EInv, ETypeOK
  <2>4. QED
    BY <2>2, <2>3
<1>7. ASSUME NEW c \in Client, NEW i \in Identifier, GetUserByEmail(c, i) PROVE EInv'
  BY <1>2, <1>7 DEF GetUserByEmail, Status
<1>8. QED
  BY <1>1, <1>2, <1>3, <1>4, <1>5, <1>6, <1>7, CommitStep, RollbackStep DEF ENext

\* The invariant in every reachable state.
THEOREM EntityInvariance == ESpec => []EInv
<1>1. QED
  BY EInvInit, EInvStep, PTL DEF ESpec

\* A deletion is final, and one caller's.
THEOREM DeletionIsFinal == ESpec => []DeletedOnceForAll
<1>1. EInv => DeletedOnceForAll
  BY DEF EInv, Gone, OneWasLate, Deleted, DeletedOnceForAll
<1>2. QED
  BY EntityInvariance, <1>1, PTL

-----------------------------------------------------------------------------
(***************************************************************************)
(* A walk over the pages, for every list, every page size and every way the *)
(* list changes in between.                                                *)
(*                                                                         *)
(* What the end of the walk says of the rows seen follows from where the   *)
(* other rows are in the meantime: those not seen are behind the pages     *)
(* passed (NoneMissed), those seen are in front of them (NoneTwice), and   *)
(* nothing is behind the last page by the count (LastPageEnds).            *)
(***************************************************************************)

\* skip: the rows in front of the page.
Passed == (pageNumber - 1) * pageSize

\* What the variables may be; no row is in the list twice.
LTypeOK ==
  /\ rows \in Seq(ListRow) /\ IsInjective(rows)
  /\ pageSize \in Nat /\ pageNumber \in Nat \ {0}
  /\ totalPages \in Nat
  /\ lphase \in {"count", "rows", "end"}
  /\ seen \in Seq(ListRow)
  /\ atFirst \subseteq ListRow
  /\ gone \in BOOLEAN /\ added \in BOOLEAN /\ late \in BOOLEAN

\* Without pagination there is one page.
OnePage == pageSize = 0 /\ lphase \in {"rows", "end"} => totalPages = 1

\* The count of a page is not stale when its rows are fetched.
CountIsRight == lphase = "rows" /\ ~gone /\ ~late => totalPages = TotalPages(Len(rows))

\* A row of the beginning has been seen or is not passed yet.
NoneMissed ==
  lphase # "end" /\ ~gone /\ ~late =>
    \A r \in atFirst : \/ \E i \in 1..Len(seen) : seen[i] = r
                       \/ \E k \in 1..Len(rows) : k > Passed /\ rows[k] = r

\* A row that has been seen and is still there is passed.
NoneTwice ==
  ~added =>
    /\ IsInjective(seen)
    /\ lphase # "end" =>
         \A i \in 1..Len(seen), k \in 1..Len(rows) : seen[i] = rows[k] => k <= Passed

\* The inductive invariant.
LInv ==
  /\ LTypeOK /\ OnePage /\ CountIsRight /\ NoneMissed /\ NoneTwice
  /\ lphase = "end" /\ ~gone /\ ~late => atFirst \subseteq ToSet(seen)
\* A sequence with e put in at position k.
LEMMA InsertIs ==
  ASSUME NEW S, NEW s \in Seq(S), NEW k \in 1..(Len(s) + 1), NEW e \in S
  PROVE  /\ InsertAt(s, k, e) \in Seq(S)
         /\ Len(InsertAt(s, k, e)) = Len(s) + 1
         /\ \A i \in 1..(k - 1) : InsertAt(s, k, e)[i] = s[i]
         /\ InsertAt(s, k, e)[k] = e
         /\ \A i \in k..Len(s) : InsertAt(s, k, e)[i + 1] = s[i]
<1>1. SubSeq(s, 1, k - 1) \in Seq(S) /\ Len(SubSeq(s, 1, k - 1)) = k - 1
      /\ \A i \in 1..(k - 1) : SubSeq(s, 1, k - 1)[i] = s[i]
  OBVIOUS
<1>2. SubSeq(s, k, Len(s)) \in Seq(S) /\ Len(SubSeq(s, k, Len(s))) = Len(s) - k + 1
      /\ \A i \in 1..(Len(s) - k + 1) : SubSeq(s, k, Len(s))[i] = s[k + i - 1]
  OBVIOUS
<1> DEFINE a == SubSeq(s, 1, k - 1)
           c == SubSeq(s, k, Len(s))
<1>3. InsertAt(s, k, e) = (a \o <<e>>) \o c
  BY DEF InsertAt
<1>4. a \in Seq(S) /\ c \in Seq(S) /\ Len(a) = k - 1 /\ Len(c) = Len(s) - k + 1 /\ k \in Int /\ Len(s) \in Nat
  BY <1>1, <1>2
<1>5. /\ \A i \in 1..(k - 1) : a[i] = s[i]
      /\ \A i \in 1..(Len(s) - k + 1) : c[i] = s[k + i - 1]
  BY <1>1, <1>2
<1> HIDE DEF a, c
<1> DEFINE b == a \o <<e>>
<1>6. b \in Seq(S) /\ Len(b) = k /\ b[k] = e /\ \A i \in 1..(k - 1) : b[i] = a[i]
  BY <1>4
<1> HIDE DEF b
<1>7. /\ b \o c \in Seq(S) /\ Len(b \o c) = Len(s) + 1
      /\ \A i \in 1..k : (b \o c)[i] = b[i]
      /\ \A i \in 1..(Len(s) - k + 1) : (b \o c)[k + i] = c[i]
  BY <1>4, <1>6
<1>8. \A i \in k..Len(s) : (b \o c)[i + 1] = s[i]
  <2>1. SUFFICES ASSUME NEW i \in k..Len(s) PROVE (b \o c)[i + 1] = s[i]
    OBVIOUS
  <2>2. i - k + 1 \in 1..(Len(s) - k + 1) /\ k + (i - k + 1) = i + 1 /\ k + (i - k + 1) - 1 = i
    BY <1>4
  <2> DEFINE j == i - k + 1
  <2>3. (b \o c)[k + j] = c[j]
    BY <1>7, <2>2
  <2>4. c[j] = s[k + j - 1]
    BY <1>5, <2>2
  <2>5. QED
    BY <2>2, <2>3, <2>4
<1>9. InsertAt(s, k, e) = b \o c
  BY <1>3 DEF b
<1>10. \A i \in 1..(k - 1) : i \in 1..k
  BY <1>4
<1>11. k \in 1..k
  BY <1>4
<1>12. QED
  BY <1>5, <1>6, <1>7, <1>8, <1>9, <1>10, <1>11

\* A sequence without its element k.
LEMMA RemoveIs ==
  ASSUME NEW S, NEW s \in Seq(S), NEW k \in 1..Len(s)
  PROVE  /\ RemoveAt(s, k) \in Seq(S)
         /\ Len(RemoveAt(s, k)) = Len(s) - 1
         /\ \A i \in 1..(k - 1) : RemoveAt(s, k)[i] = s[i]
         /\ \A i \in k..(Len(s) - 1) : RemoveAt(s, k)[i] = s[i + 1]
<1> DEFINE a == SubSeq(s, 1, k - 1)
           c == SubSeq(s, k + 1, Len(s))
<1>1. a \in Seq(S) /\ Len(a) = k - 1 /\ \A i \in 1..(k - 1) : a[i] = s[i]
  OBVIOUS
<1>2. c \in Seq(S) /\ Len(c) = Len(s) - k /\ \A i \in 1..(Len(s) - k) : c[i] = s[k + i]
  <2>1. SubSeq(s, k + 1, Len(s)) \in Seq(S) /\ Len(SubSeq(s, k + 1, Len(s))) = Len(s) - k
    OBVIOUS
  <2>2. \A i \in 1..(Len(s) - k) : SubSeq(s, k + 1, Len(s))[i] = s[(k + 1) + i - 1]
    OBVIOUS
  <2>3. \A i \in 1..(Len(s) - k) : (k + 1) + i - 1 = k + i
    OBVIOUS
  <2>4. QED
    BY <2>1, <2>2, <2>3
<1>3. RemoveAt(s, k) = a \o c
  BY DEF RemoveAt
<1>4. Len(s) \in Nat /\ k \in Int /\ k >= 1 /\ k <= Len(s)
  OBVIOUS
<1> HIDE DEF a, c
<1>5. /\ a \o c \in Seq(S) /\ Len(a \o c) = Len(s) - 1
      /\ \A i \in 1..(k - 1) : (a \o c)[i] = a[i]
      /\ \A i \in 1..(Len(s) - k) : (a \o c)[(k - 1) + i] = c[i]
  <2>1. a \in Seq(S) /\ c \in Seq(S) /\ Len(a) = k - 1 /\ Len(c) = Len(s) - k
    BY <1>1, <1>2
  <2>2. a \o c \in Seq(S) /\ Len(a \o c) = Len(a) + Len(c)
    BY <2>1
  <2>3. \A i \in 1..Len(a) : (a \o c)[i] = a[i]
    BY <2>1
  <2>4. \A i \in 1..Len(c) : (a \o c)[Len(a) + i] = c[i]
    BY <2>1
  <2>5. (k - 1) + (Len(s) - k) = Len(s) - 1
    BY <1>4
  <2>6. QED
    BY <2>1, <2>2, <2>3, <2>4, <2>5
<1>6. \A i \in k..(Len(s) - 1) : (a \o c)[i] = s[i + 1]
  <2>1. SUFFICES ASSUME NEW i \in k..(Len(s) - 1) PROVE (a \o c)[i] = s[i + 1]
    OBVIOUS
  <2> DEFINE j == i - k + 1
  <2>2. j \in 1..(Len(s) - k) /\ (k - 1) + j = i /\ k + j = i + 1
    BY <1>4
  <2>3. (a \o c)[(k - 1) + j] = c[j]
    BY <1>5, <2>2
  <2>4. c[j] = s[k + j]
    BY <1>2, <2>2
  <2>5. QED
    BY <2>2, <2>3, <2>4
<1>7. QED
  BY <1>1, <1>3, <1>5, <1>6

\* A new row makes no row come twice and moves none forward.
LEMMA InsertKeeps ==
  ASSUME NEW s \in Seq(ListRow), IsInjective(s), NEW k \in 1..(Len(s) + 1),
         NEW e \in ListRow \ ToSet(s)
  PROVE  /\ InsertAt(s, k, e) \in Seq(ListRow)
         /\ IsInjective(InsertAt(s, k, e))
         /\ \A i \in 1..Len(s) : \E j \in 1..(Len(s) + 1) : j >= i /\ InsertAt(s, k, e)[j] = s[i]
<1> DEFINE t == InsertAt(s, k, e)
<1>1. /\ t \in Seq(ListRow) /\ Len(t) = Len(s) + 1
      /\ \A i \in 1..(k - 1) : t[i] = s[i]
      /\ t[k] = e
      /\ \A i \in k..Len(s) : t[i + 1] = s[i]
  BY InsertIs
<1>2. Len(s) \in Nat /\ k \in Int /\ k >= 1 /\ k <= Len(s) + 1
  OBVIOUS
<1>3. \A i \in 1..Len(s) : s[i] # e
  BY DEF ToSet
<1> HIDE DEF t
<1> DEFINE back(j) == IF j < k THEN j ELSE j - 1
<1>4. ASSUME NEW j \in 1..(Len(s) + 1), j # k
      PROVE  back(j) \in 1..Len(s) /\ t[j] = s[back(j)]
  <2>1. CASE j < k
    BY <1>1, <1>2, <2>1
  <2>2. CASE j > k
    <3>1. j - 1 \in k..Len(s) /\ (j - 1) + 1 = j /\ ~(j < k) /\ j - 1 \in 1..Len(s)
      BY <1>2, <2>2
    <3>2. QED
      BY <1>1, <3>1
  <2>3. QED
    BY <1>2, <1>4, <2>1, <2>2
<1>5. IsInjective(t)
  <2>1. SUFFICES ASSUME NEW a \in 1..(Len(s) + 1), NEW b \in 1..(Len(s) + 1), t[a] = t[b]
                 PROVE  a = b
    BY <1>1 DEF IsInjective
  <2>2. CASE a = k \/ b = k
    BY <1>1, <1>3, <1>4, <2>1, <2>2
  <2>3. CASE a # k /\ b # k
    <3>1. back(a) = back(b)
      <4> HIDE DEF back
      <4>1. QED
        BY <1>4, <2>1, <2>3 DEF IsInjective
    <3>2. QED
      BY <1>2, <2>3, <3>1
  <2>4. QED
    BY <2>2, <2>3
<1>6. ASSUME NEW i \in 1..Len(s) PROVE \E j \in 1..(Len(s) + 1) : j >= i /\ t[j] = s[i]
  <2>1. CASE i < k
    <3>1. i \in 1..(k - 1) /\ i \in 1..(Len(s) + 1) /\ i >= i
      BY <1>2, <2>1
    <3>2. QED
      BY <1>1, <3>1
  <2>2. CASE i >= k
    <3>1. i \in k..Len(s) /\ i + 1 \in 1..(Len(s) + 1) /\ i + 1 >= i
      BY <1>2, <2>2
    <3>2. QED
      BY <1>1, <3>1
  <2>3. QED
    BY <1>2, <2>1, <2>2
<1>7. QED
  BY <1>1, <1>5, <1>6 DEF t

\* Without a row, no row comes twice and none moves back.
LEMMA RemoveKeeps ==
  ASSUME NEW s \in Seq(ListRow), IsInjective(s), NEW k \in 1..Len(s)
  PROVE  /\ RemoveAt(s, k) \in Seq(ListRow)
         /\ IsInjective(RemoveAt(s, k))
         /\ \A j \in 1..Len(RemoveAt(s, k)) :
              \E i \in 1..Len(s) : j <= i /\ RemoveAt(s, k)[j] = s[i]
<1> DEFINE t == RemoveAt(s, k)
           from(j) == IF j < k THEN j ELSE j + 1
<1>1. /\ t \in Seq(ListRow) /\ Len(t) = Len(s) - 1
      /\ \A i \in 1..(k - 1) : t[i] = s[i]
      /\ \A i \in k..(Len(s) - 1) : t[i] = s[i + 1]
  BY RemoveIs
<1>2. Len(s) \in Nat /\ k \in Int /\ k >= 1 /\ k <= Len(s)
  OBVIOUS
<1> HIDE DEF t
<1>3. ASSUME NEW j \in 1..Len(t)
      PROVE  from(j) \in 1..Len(s) /\ t[j] = s[from(j)] /\ j <= from(j)
  <2>1. CASE j < k
    BY <1>1, <1>2, <2>1
  <2>2. CASE j >= k
    <3>1. j \in k..(Len(s) - 1) /\ ~(j < k) /\ j + 1 \in 1..Len(s) /\ j <= j + 1
      BY <1>1, <1>2, <2>2
    <3>2. QED
      BY <1>1, <3>1
  <2>3. QED
    BY <1>1, <1>2, <2>1, <2>2
<1>4. IsInjective(t)
  <2>1. SUFFICES ASSUME NEW a \in 1..Len(t), NEW b \in 1..Len(t), t[a] = t[b]
                 PROVE  a = b
    BY <1>1 DEF IsInjective
  <2>2. from(a) = from(b)
    <3> HIDE DEF from
    <3>1. QED
      BY <1>3, <2>1 DEF IsInjective
  <2>3. QED
    BY <1>1, <1>2, <2>2
<1>5. QED
  <2> HIDE DEF from
  <2>1. \A j \in 1..Len(t) : \E i \in 1..Len(s) : j <= i /\ t[j] = s[i]
    BY <1>3
  <2>2. QED
    BY <1>1, <1>4, <2>1 DEF t

\* SetToSeq lists every element once.
LEMMA SetToSeqLists ==
  ASSUME NEW S \in SUBSET ListRow
  PROVE  SetToSeq(S) \in Seq(ListRow) /\ IsInjective(SetToSeq(S))
<1>1. IsFiniteSet(S)
  BY PagedListAssumption, FS_Subset
<1>2. Cardinality(S) \in Nat /\ ExistsBijection(1..Cardinality(S), S)
  BY <1>1, FS_CardinalityType
<1>3. \E f \in [1..Cardinality(S) -> S] : IsInjective(f)
  BY <1>2 DEF ExistsBijection, Bijection, Injection, IsInjective
<1>4. SetToSeq(S) \in [1..Cardinality(S) -> S] /\ IsInjective(SetToSeq(S))
  BY <1>3 DEF SetToSeq
<1>5. QED
  BY <1>2, <1>4

\* The rows up to here have been passed when the page is read.
PageEnd == IF pageSize = 0 THEN Len(rows) ELSE Passed + pageSize

\* One page further.
LEMMA PassedNat ==
  ASSUME LTypeOK
  PROVE  /\ Passed \in Nat
         /\ pageNumber * pageSize = Passed + pageSize
         /\ pageSize = 0 => Passed = 0
<1>1. pageNumber \in Nat /\ pageNumber >= 1 /\ pageSize \in Nat
  BY DEF LTypeOK
<1>2. PICK m \in Nat : pageNumber = m + 1
  <2>1. pageNumber - 1 \in Nat /\ pageNumber = (pageNumber - 1) + 1
    BY <1>1
  <2>2. QED
    BY <2>1
<1>3. pageNumber - 1 = m
  BY <1>2
<1>4. m * pageSize \in Nat /\ (m + 1) * pageSize = m * pageSize + pageSize
  BY <1>1
<1>5. pageSize = 0 => m * pageSize = 0
  BY <1>1
<1>6. Passed = m * pageSize
  BY <1>3 DEF Passed
<1>7. QED
  BY <1>2, <1>3, <1>4, <1>5, <1>6

\* A page is what is behind the rows passed, up to PageEnd.
LEMMA PageIs ==
  ASSUME LTypeOK
  PROVE  /\ Page \in Seq(ListRow)
         /\ \A i \in 1..Len(Page) : /\ Passed + i \in 1..Len(rows)
                                    /\ Passed + i <= PageEnd
                                    /\ Page[i] = rows[Passed + i]
         /\ \A k \in 1..Len(rows) : k > Passed /\ k <= PageEnd => k - Passed \in 1..Len(Page)
<1>1. rows \in Seq(ListRow) /\ Len(rows) \in Nat /\ pageSize \in Nat
  BY DEF LTypeOK
<1>2. CASE pageSize = 0
  <2>1. Passed = 0 /\ Page = rows /\ PageEnd = Len(rows)
    BY <1>2, PassedNat DEF Page, PageEnd
  <2>2. QED
    BY <1>1, <2>1
<1>3. CASE pageSize # 0
  <2> DEFINE P == Passed
             e == Smallest(P + pageSize, Len(rows))
  <2>1. P \in Nat /\ PageEnd = P + pageSize /\ Page = SubSeq(rows, P + 1, e)
    BY <1>3, PassedNat DEF Page, PageEnd, Passed
  <2>2. e \in Nat /\ e <= Len(rows) /\ e <= P + pageSize /\ (e = Len(rows) \/ e = P + pageSize)
    BY <1>1, <2>1 DEF Smallest
  <2> HIDE DEF P, e
  <2>3. Page \in Seq(ListRow) /\ Len(Page) = IF P + 1 <= e THEN e - P ELSE 0
    <3>1. CASE P + 1 <= e
      BY <1>1, <2>1, <2>2, <3>1
    <3>2. CASE ~(P + 1 <= e)
      <4>1. SubSeq(rows, P + 1, e) = <<>>
        BY <1>1, <2>1, <2>2, <3>2
      <4>2. <<>> \in Seq(ListRow) /\ Len(<<>>) = 0
        OBVIOUS
      <4>3. Page \in Seq(ListRow) /\ Len(Page) = 0
        BY <2>1, <4>1, <4>2, Zenon
      <4>4. QED
        BY <3>2, <4>3
    <3>3. QED
      BY <3>1, <3>2
  <2>4. ASSUME NEW i \in 1..Len(Page)
        PROVE  P + i \in 1..Len(rows) /\ P + i <= P + pageSize /\ Page[i] = rows[P + i]
    <3>1. P + 1 <= e /\ i \in 1..(e - P)
      BY <2>1, <2>2, <2>3
    <3>2. SubSeq(rows, P + 1, e)[i] = rows[(P + 1) + i - 1]
      BY <1>1, <2>1, <2>2, <3>1
    <3>3. (P + 1) + i - 1 = P + i /\ P + i \in 1..Len(rows) /\ P + i <= P + pageSize
      BY <1>1, <2>1, <2>2, <3>1
    <3>4. QED
      BY <2>1, <3>2, <3>3
  <2>5. ASSUME NEW k \in 1..Len(rows), k > P, k <= P + pageSize PROVE k - P \in 1..Len(Page)
    BY <1>1, <2>1, <2>2, <2>3, <2>5
  <2>6. QED
    BY <2>1, <2>4, <2>5, <2>3 DEF P
<1>4. QED
  BY <1>2, <1>3

\* The last page by the count ends behind the last row.
LEMMA LastPageEnds ==
  ASSUME LTypeOK, OnePage, lphase = "rows", totalPages = TotalPages(Len(rows)),
         ~(pageNumber < totalPages)
  PROVE  Len(rows) <= PageEnd
<1>1. Len(rows) \in Nat /\ pageSize \in Nat /\ pageNumber \in Nat /\ Passed \in Nat
      /\ pageNumber * pageSize = Passed + pageSize
  BY PassedNat DEF LTypeOK
<1>2. CASE pageSize = 0
  BY <1>1, <1>2 DEF PageEnd
<1>3. CASE pageSize # 0
  <2> DEFINE n == Len(rows)
             q == (n + pageSize - 1) \div pageSize
  <2>1. q <= pageNumber
    <3>1. totalPages = q /\ totalPages \in Nat
      BY <1>3 DEF TotalPages, LTypeOK
    <3>2. QED
      BY <1>1, <3>1
  <2>2. \A a \in Nat, d \in Nat \ {0} : a \div d \in Nat /\ a < (a \div d) * d + d
    OBVIOUS
  <2>3. n + pageSize - 1 \in Nat
    BY <1>1, <1>3
  <2>4. q \in Nat /\ n + pageSize - 1 < q * pageSize + pageSize
    BY <1>1, <1>3, <2>2, <2>3
  <2>5. \A a, b, c \in Nat : a <= b => a * c <= b * c
    OBVIOUS
  <2>6. q * pageSize <= pageNumber * pageSize
    BY <1>1, <2>1, <2>4, <2>5
  <2>7. q * pageSize \in Nat
    BY <1>1, <2>4
  <2> HIDE DEF q
  <2>8. n <= pageNumber * pageSize
    BY <1>1, <2>4, <2>6, <2>7
  <2>9. QED
    BY <1>1, <1>3, <2>8 DEF PageEnd
<1>4. QED
  BY <1>2, <1>3

\* At the beginning of a walk nothing is passed.
LEMMA LInvInit == LInit => LInv
<1> SUFFICES ASSUME LInit PROVE LInv
  OBVIOUS
<1>1. PICK S \in SUBSET ListRow : rows = SetToSeq(S)
  BY DEF LInit
<1>2. rows \in Seq(ListRow) /\ IsInjective(rows)
  BY <1>1, SetToSeqLists
<1>3. seen = <<>> /\ <<>> \in Seq(ListRow) /\ Len(<<>>) = 0 /\ IsInjective(<<>>)
  BY DEF LInit, IsInjective
<1>4. LTypeOK
  <2>1. atFirst \subseteq ListRow
    BY <1>2 DEF LInit, ToSet
  <2>2. pageSize \in Nat /\ pageNumber \in Nat \ {0} /\ totalPages \in Nat
    BY PagedListAssumption DEF LInit
  <2>3. lphase \in {"count", "rows", "end"}
    BY DEF LInit
  <2>4. gone \in BOOLEAN /\ added \in BOOLEAN /\ late \in BOOLEAN
    BY Zenon DEF LInit
  <2>5. QED
    BY <1>2, <1>3, <2>1, <2>2, <2>3, <2>4 DEF LTypeOK
<1>5. NoneMissed
  <2>1. Passed = 0
    BY <1>4, PagedListAssumption DEF LInit, Passed
  <2>2. ASSUME NEW r \in atFirst PROVE \E k \in 1..Len(rows) : k > 0 /\ rows[k] = r
    <3>1. DOMAIN rows = 1..Len(rows)
      BY <1>2
    <3>2. PICK k \in 1..Len(rows) : rows[k] = r
      BY <2>2, <3>1 DEF LInit, ToSet
    <3>3. QED
      BY <3>2
  <2>3. QED
    BY <2>1, <2>2 DEF NoneMissed
<1>6. NoneTwice
  BY <1>3 DEF NoneTwice
<1>7. QED
  BY <1>4, <1>5, <1>6 DEF LInit, LInv, OnePage, CountIsRight

\* The count of a page.
LEMMA GetCountStep == LInv /\ GetCount => LInv'
<1> SUFFICES ASSUME LInv, GetCount PROVE LInv'
  OBVIOUS
<1>1. /\ lphase = "count" /\ lphase' = "rows" /\ totalPages' = TotalPages(Len(rows))
      /\ UNCHANGED <<rows, pageSize, pageNumber, seen, atFirst, gone, added, late>>
  BY DEF GetCount, others
<1>2. totalPages' \in Nat
  <2>1. Len(rows) \in Nat /\ pageSize \in Nat
    BY DEF LInv, LTypeOK
  <2>2. \A a \in Nat, d \in Nat \ {0} : (a + d - 1) \div d \in Nat
    OBVIOUS
  <2>3. QED
    BY <1>1, <2>1, <2>2 DEF TotalPages
<1>3. LTypeOK'
  BY <1>1, <1>2 DEF LInv, LTypeOK
<1>4. OnePage' /\ CountIsRight'
  BY <1>1 DEF OnePage, CountIsRight, TotalPages
<1>5. NoneMissed' /\ NoneTwice'
  BY <1>1 DEF LInv, NoneMissed, NoneTwice, Passed
<1>6. QED
  BY <1>1, <1>3, <1>4, <1>5 DEF LInv

\* The rows of a page.
LEMMA GetRowsStep == LInv /\ GetRows => LInv'
<1> SUFFICES ASSUME LInv, GetRows PROVE LInv'
  OBVIOUS
<1>1. /\ lphase = "rows" /\ seen' = seen \o Page
      /\ \/ pageNumber < totalPages /\ pageNumber' = pageNumber + 1 /\ lphase' = "count"
         \/ ~(pageNumber < totalPages) /\ pageNumber' = pageNumber /\ lphase' = "end"
      /\ UNCHANGED <<rows, pageSize, totalPages, atFirst, gone, added, late>>
  BY DEF GetRows, others
<1>2. LTypeOK /\ rows \in Seq(ListRow) /\ Len(rows) \in Nat /\ seen \in Seq(ListRow) /\ Len(seen) \in Nat
  BY DEF LInv, LTypeOK
<1>3. /\ Page \in Seq(ListRow) /\ Len(Page) \in Nat
      /\ \A i \in 1..Len(Page) : /\ Passed + i \in 1..Len(rows)
                                 /\ Passed + i <= PageEnd
                                 /\ Page[i] = rows[Passed + i]
      /\ \A k \in 1..Len(rows) : k > Passed /\ k <= PageEnd => k - Passed \in 1..Len(Page)
  BY <1>2, PageIs
<1>4. Passed \in Nat
  BY <1>2, PassedNat
<1>5. /\ seen' \in Seq(ListRow) /\ Len(seen') = Len(seen) + Len(Page)
      /\ \A i \in 1..Len(seen) : seen'[i] = seen[i]
      /\ \A i \in 1..Len(Page) : seen'[Len(seen) + i] = Page[i]
  BY <1>1, <1>2, <1>3
<1>6. ASSUME NEW i \in 1..Len(seen')
      PROVE  i \in 1..Len(seen) \/ \E j \in 1..Len(Page) : i = Len(seen) + j
  <2>1. CASE i <= Len(seen)
    BY <1>2, <1>5, <2>1
  <2>2. CASE i > Len(seen)
    <3>1. i - Len(seen) \in 1..Len(Page) /\ i = Len(seen) + (i - Len(seen))
      BY <1>2, <1>3, <1>5, <2>2
    <3>2. QED
      BY <3>1
  <2>3. QED
    BY <1>2, <1>5, <2>1, <2>2
<1>7. LTypeOK'
  BY <1>1, <1>2, <1>5 DEF LTypeOK
<1>8. lphase' = "count" => Passed' = PageEnd
  <2>1. ASSUME lphase' = "count" PROVE Passed' = PageEnd
    <3>1. pageNumber < totalPages /\ pageNumber' = pageNumber + 1
      BY <1>1, <2>1
    <3>2. pageSize # 0
      BY <1>1, <3>1 DEF LInv, OnePage, LTypeOK
    <3>3. pageNumber' - 1 = pageNumber /\ pageSize' = pageSize
      BY <1>1, <1>2, <3>1 DEF LTypeOK
    <3>4. Passed' = pageNumber * pageSize
      BY <3>3 DEF Passed
    <3>5. QED
      BY <1>2, <3>2, <3>4, PassedNat DEF PageEnd
  <2>2. QED
    BY <2>1
<1>9. ASSUME NEW r \in atFirst, ~gone, ~late
      PROVE  \/ \E i \in 1..Len(seen') : seen'[i] = r
             \/ \E k \in 1..Len(rows) : k > PageEnd /\ rows[k] = r
  <2>1. CASE \E i \in 1..Len(seen) : seen[i] = r
    <3>1. PICK i \in 1..Len(seen) : seen[i] = r
      BY <2>1
    <3>2. i \in 1..Len(seen') /\ seen'[i] = r
      BY <1>2, <1>3, <1>5, <3>1
    <3>3. QED
      BY <3>2
  <2>2. CASE \E k \in 1..Len(rows) : k > Passed /\ rows[k] = r
    <3>1. PICK k \in 1..Len(rows) : k > Passed /\ rows[k] = r
      BY <2>2
    <3>2. CASE k > PageEnd
      BY <3>1, <3>2
    <3>3. CASE ~(k > PageEnd)
      <4>1. PageEnd \in Int
        BY <1>2, <1>4 DEF PageEnd, LTypeOK
      <4>2. k - Passed \in 1..Len(Page) /\ Passed + (k - Passed) = k
        BY <1>2, <1>3, <1>4, <3>1, <3>3, <4>1
      <4> DEFINE j == k - Passed
      <4>3. Page[j] = r /\ seen'[Len(seen) + j] = Page[j]
        BY <1>3, <1>5, <3>1, <4>2
      <4>4. Len(seen) + j \in 1..Len(seen')
        BY <1>2, <1>3, <1>5, <4>2
      <4>5. QED
        BY <4>3, <4>4
    <3>4. QED
      BY <3>2, <3>3
  <2>3. QED
    BY <1>1, <1>9, <2>1, <2>2 DEF LInv, NoneMissed
<1>10. NoneMissed'
  <2>1. SUFFICES ASSUME lphase' # "end", ~gone', ~late', NEW r \in atFirst'
                 PROVE  \/ \E i \in 1..Len(seen') : seen'[i] = r
                        \/ \E k \in 1..Len(rows') : k > Passed' /\ rows'[k] = r
    BY DEF NoneMissed
  <2>2. Passed' = PageEnd
    BY <1>1, <1>8, <2>1
  <2>3. QED
    BY <1>1, <1>9, <2>1, <2>2
<1>11. lphase' = "end" /\ ~gone' /\ ~late' => atFirst' \subseteq ToSet(seen')
  <2>1. SUFFICES ASSUME lphase' = "end", ~gone, ~late, NEW r \in atFirst
                 PROVE  r \in ToSet(seen')
    BY <1>1
  <2>2. Len(rows) <= PageEnd
    BY <1>1, <1>2, <2>1, LastPageEnds DEF LInv, CountIsRight
  <2>3. ~\E k \in 1..Len(rows) : k > PageEnd /\ rows[k] = r
    <3>1. PageEnd \in Int
      BY <1>2, <1>4 DEF PageEnd, LTypeOK
    <3>2. QED
      BY <1>2, <2>2, <3>1
  <2>4. PICK i \in 1..Len(seen') : seen'[i] = r
    BY <1>9, <2>1, <2>3
  <2>5. DOMAIN seen' = 1..Len(seen')
    BY <1>5
  <2>6. QED
    BY <2>4, <2>5 DEF ToSet
<1>12. ASSUME ~added PROVE IsInjective(seen')
  <2>1. SUFFICES ASSUME NEW a \in 1..Len(seen'), NEW b \in 1..Len(seen'), seen'[a] = seen'[b]
                 PROVE  a = b
    BY <1>5 DEF IsInjective
  <2>2. /\ \A i, j \in 1..Len(seen) : seen[i] = seen[j] => i = j
        /\ \A i \in 1..Len(seen), k \in 1..Len(rows) : seen[i] = rows[k] => k <= Passed
    BY <1>1, <1>2, <1>12 DEF LInv, NoneTwice, IsInjective
  <2>3. \A i, j \in 1..Len(rows) : rows[i] = rows[j] => i = j
    BY <1>2 DEF LTypeOK, IsInjective
  <2>4. \A i \in 1..Len(seen), j \in 1..Len(Page) : seen[i] # Page[j]
    <3>1. SUFFICES ASSUME NEW i \in 1..Len(seen), NEW j \in 1..Len(Page), seen[i] = Page[j]
                   PROVE  FALSE
      OBVIOUS
    <3>2. Passed + j \in 1..Len(rows) /\ seen[i] = rows[Passed + j]
      BY <1>3, <3>1
    <3>3. Passed + j <= Passed
      BY <2>2, <3>2
    <3>4. QED
      BY <1>4, <3>3
  <2>5. \A i, j \in 1..Len(Page) : Page[i] = Page[j] => i = j
    <3>1. SUFFICES ASSUME NEW i \in 1..Len(Page), NEW j \in 1..Len(Page), Page[i] = Page[j]
                   PROVE  i = j
      OBVIOUS
    <3>2. Passed + i = Passed + j
      BY <1>3, <2>3, <3>1
    <3>3. QED
      BY <1>4, <3>2
  <2>6. CASE a \in 1..Len(seen) /\ b \in 1..Len(seen)
    BY <1>5, <2>1, <2>2, <2>6
  <2>7. ASSUME a \in 1..Len(seen), NEW j \in 1..Len(Page), b = Len(seen) + j PROVE FALSE
    BY <1>5, <2>1, <2>4, <2>7
  <2>8. ASSUME b \in 1..Len(seen), NEW j \in 1..Len(Page), a = Len(seen) + j PROVE FALSE
    BY <1>5, <2>1, <2>4, <2>8
  <2>9. ASSUME NEW i \in 1..Len(Page), NEW j \in 1..Len(Page),
               a = Len(seen) + i, b = Len(seen) + j PROVE a = b
    BY <1>5, <2>1, <2>5, <2>9
  <2>10. QED
    BY <1>6, <2>6, <2>7, <2>8, <2>9
<1>13. ASSUME ~added, NEW i \in 1..Len(seen'), NEW k \in 1..Len(rows), seen'[i] = rows[k]
       PROVE  k <= PageEnd
  <2>1. PageEnd \in Int /\ (pageSize = 0 => PageEnd = Len(rows)) /\ (pageSize # 0 => Passed <= PageEnd)
    BY <1>2, <1>4 DEF PageEnd, LTypeOK
  <2>2. CASE i \in 1..Len(seen)
    <3>1. k <= Passed
      BY <1>1, <1>5, <1>13, <2>2 DEF LInv, NoneTwice
    <3>2. QED
      BY <1>2, <1>4, <2>1, <3>1
  <2>3. ASSUME NEW j \in 1..Len(Page), i = Len(seen) + j PROVE k <= PageEnd
    <3>1. rows[Passed + j] = rows[k] /\ Passed + j \in 1..Len(rows) /\ Passed + j <= PageEnd
      BY <1>3, <1>5, <1>13, <2>3
    <3>2. Passed + j = k
      BY <1>2, <3>1 DEF LTypeOK, IsInjective
    <3>3. QED
      BY <3>1, <3>2
  <2>4. QED
    BY <1>6, <2>2, <2>3
<1>14. NoneTwice'
  <2>1. lphase' # "end" => Passed' = PageEnd
    BY <1>1, <1>8
  <2>2. QED
    BY <1>1, <1>12, <1>13, <2>1 DEF NoneTwice
<1>15. OnePage' /\ CountIsRight'
  BY <1>1 DEF LInv, OnePage, CountIsRight
<1>16. QED
  BY <1>7, <1>10, <1>11, <1>14, <1>15 DEF LInv

\* A row more, in front of what is passed or behind it.
LEMMA RowAddedStep == LInv /\ RowAdded => LInv'
<1> SUFFICES ASSUME LInv, RowAdded PROVE LInv'
  OBVIOUS
<1>1. PICK e \in ListRow \ ToSet(rows), k \in 1..(Len(rows) + 1) : rows' = InsertAt(rows, k, e)
  BY DEF RowAdded
<1>2. /\ lphase # "end" /\ added' = TRUE /\ late' = (late \/ lphase = "rows")
      /\ UNCHANGED <<pageSize, pageNumber, totalPages, lphase, seen, atFirst, gone>>
  BY DEF RowAdded
<1>3. rows \in Seq(ListRow) /\ IsInjective(rows) /\ Len(rows) \in Nat
  BY DEF LInv, LTypeOK
<1>4. /\ rows' \in Seq(ListRow) /\ IsInjective(rows')
      /\ \A i \in 1..Len(rows) : \E j \in 1..(Len(rows) + 1) : j >= i /\ rows'[j] = rows[i]
  BY <1>1, <1>3, InsertKeeps
<1>5. Len(rows') = Len(rows) + 1
  <2>1. e \in ListRow
    OBVIOUS
  <2>2. Len(InsertAt(rows, k, e)) = Len(rows) + 1
    BY <1>3, <2>1, InsertIs
  <2>3. QED
    BY <1>1, <2>2
<1>6. LTypeOK'
  BY <1>2, <1>4 DEF LInv, LTypeOK
<1>7. NoneMissed'
  <2>1. SUFFICES ASSUME ~gone, ~late, NEW r \in atFirst
                 PROVE  \/ \E i \in 1..Len(seen) : seen[i] = r
                        \/ \E j \in 1..Len(rows') : j > Passed /\ rows'[j] = r
    BY <1>2 DEF NoneMissed, Passed
  <2>2. ASSUME NEW i \in 1..Len(rows), i > Passed, rows[i] = r
        PROVE  \E j \in 1..Len(rows') : j > Passed /\ rows'[j] = r
    <3>1. PICK j \in 1..(Len(rows) + 1) : j >= i /\ rows'[j] = rows[i]
      BY <1>4
    <3>2. Passed \in Nat
      BY PassedNat DEF LInv
    <3>3. j > Passed
      BY <1>3, <2>2, <3>1, <3>2
    <3>4. QED
      BY <1>5, <2>2, <3>1, <3>3
  <2>3. QED
    BY <1>2, <2>1, <2>2 DEF LInv, NoneMissed
<1>8. NoneTwice' /\ OnePage' /\ CountIsRight'
  BY <1>2 DEF LInv, NoneTwice, OnePage, CountIsRight
<1>9. QED
  BY <1>2, <1>6, <1>7, <1>8 DEF LInv

\* A row less.
LEMMA RowGoneStep == LInv /\ RowGone => LInv'
<1> SUFFICES ASSUME LInv, RowGone PROVE LInv'
  OBVIOUS
<1>1. PICK k \in 1..Len(rows) : rows' = RemoveAt(rows, k)
  BY DEF RowGone
<1>2. /\ lphase # "end" /\ gone' = TRUE
      /\ UNCHANGED <<pageSize, pageNumber, totalPages, lphase, seen, atFirst, added, late>>
  BY DEF RowGone
<1>3. rows \in Seq(ListRow) /\ IsInjective(rows) /\ Len(rows) \in Nat
  BY DEF LInv, LTypeOK
<1>4. /\ rows' \in Seq(ListRow) /\ IsInjective(rows')
      /\ \A j \in 1..Len(rows') : \E i \in 1..Len(rows) : j <= i /\ rows'[j] = rows[i]
  BY <1>1, <1>3, RemoveKeeps
<1>5. LTypeOK'
  BY <1>2, <1>4 DEF LInv, LTypeOK
<1>6. NoneTwice'
  <2>1. SUFFICES ASSUME ~added PROVE /\ IsInjective(seen)
                                     /\ \A i \in 1..Len(seen), j \in 1..Len(rows') :
                                          seen[i] = rows'[j] => j <= Passed
    BY <1>2 DEF NoneTwice, Passed
  <2>2. ASSUME NEW i \in 1..Len(seen), NEW j \in 1..Len(rows'), seen[i] = rows'[j]
        PROVE  j <= Passed
    <3>1. PICK m \in 1..Len(rows) : j <= m /\ rows'[j] = rows[m]
      BY <1>4
    <3>2. m <= Passed
      BY <1>2, <2>1, <2>2, <3>1 DEF LInv, NoneTwice
    <3>3. Passed \in Nat /\ Len(rows') \in Nat
      BY <1>4, PassedNat DEF LInv
    <3>4. QED
      BY <1>3, <3>1, <3>2, <3>3
  <2>3. QED
    BY <2>1, <2>2 DEF LInv, NoneTwice
<1>7. NoneMissed' /\ OnePage' /\ CountIsRight'
  BY <1>2 DEF LInv, NoneMissed, OnePage, CountIsRight
<1>8. QED
  BY <1>2, <1>5, <1>6, <1>7 DEF LInv

\* A walk over the pages comes past every row that was there all the time, and
\* past none twice, for lists and pages of every size.
THEOREM WalkComesPast == LSpec => []WalkIsComplete
<1>1. LInv /\ [LNext]_lvars => LInv'
  <2> SUFFICES ASSUME LInv, [LNext]_lvars PROVE LInv'
    OBVIOUS
  <2>1. CASE UNCHANGED lvars
    BY <2>1 DEF lvars, others, LInv, LTypeOK, OnePage, CountIsRight, NoneMissed, NoneTwice, Passed,
       TotalPages
  <2>2. QED
    BY <2>1, GetCountStep, GetRowsStep, RowAddedStep, RowGoneStep DEF LNext
<1>2. LInv => WalkIsComplete
  BY DEF LInv, NoneTwice, WalkIsComplete
<1>3. QED
  BY LInvInit, <1>1, <1>2, PTL DEF LSpec
=============================================================================
