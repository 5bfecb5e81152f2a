------------------------ MODULE OutboxDispatchProofs ------------------------
(***************************************************************************)
(* Proofs about the dispatcher, for every set of ticks, events and         *)
(* connections and every combination of faults.                            *)
(***************************************************************************)
EXTENDS OutboxDispatch, WelcomeEmailQueueProofs

\* What the two UPDATEs and the inserted rows look like.
LEMMA RowFacts ==
  /\ NoRow \in MaybeRow /\ NoRow \notin Row /\ Row \subseteq MaybeRow
  /\ LegacyRow \in Row /\ ApiRow \in Row
  /\ \A r \in MaybeRow :
       /\ Claimed(r) \in Row
       /\ Claimed(r).jobStatus = "PROCESSING"
       /\ Claimed(r).isPublished = r.isPublished
       /\ Published(r) \in Row
       /\ Published(r).jobStatus = "COMPLETED"
       /\ Published(r).isPublished = "YES"
  BY DEF Row, MaybeRow, NoRow, LegacyRow, ApiRow, Claimed, Published, Null, Instance

\* The function that stands for a session without writes is one.
LEMMA NoWritesType == NoWrites \in [Event -> MaybeRow]
  BY RowFacts DEF NoWrites

\* What a statement sees is a row of the table or of the session.
LEMMA VisibleType ==
  ASSUME TypeOK, NEW c \in Conn, NEW e \in Event
  PROVE  Visible(c, e) \in MaybeRow
  BY DEF TypeOK, Visible

\* Ending a transaction leaves well-formed sessions.
LEMMA EndTxnType ==
  ASSUME TypeOK, NEW c \in Conn, NEW s \in {"none", "open", "aborted"}, EndTxn(c, s)
  PROVE  /\ txn' \in [Conn -> {"none", "open", "aborted"}]
         /\ write' \in [Conn -> [Event -> MaybeRow]]
  BY NoWritesType DEF TypeOK, EndTxn

\* Moving a tick leaves a well-formed program counter.
LEMMA GotoType ==
  ASSUME TypeOK, NEW t \in Tick, NEW p \in PcState, Goto(t, p)
  PROVE  pc' \in [Tick -> PcState]
  BY DEF TypeOK, Goto

\* A tick past connect() holds a connection (ConnInv states it of every tick).
LEMMA HoldsConn ==
  ASSUME ConnInv, NEW t \in Tick, pc[t] \in {"begin", "list", "claim", "batch", "release"}
  PROVE  conn[t] \in Conn
  BY DEF ConnInv, HasConn

-----------------------------------------------------------------------------
\* A step of a tick keeps the types.
LEMMA TickStepType ==
  ASSUME TypeOK, ConnInv, NEW t \in Tick, TickStep(t)
  PROVE  TypeOK'
<1>p. /\ "off" \in PcState /\ "connect" \in PcState /\ "begin" \in PcState
      /\ "list" \in PcState /\ "claim" \in PcState /\ "batch" \in PcState
      /\ "release" \in PcState
  BY DEF PcState
<1>1. CASE Connect(t)
  <2>1. pc' \in [Tick -> PcState]
    BY <1>1, <1>p, GotoType DEF Connect
  <2>2. conn' \in [Tick -> Conn \union {NoConn}]
    BY <1>1 DEF Connect, TypeOK
  <2>3. QED
    BY <1>1, <2>1, <2>2 DEF Connect, TypeOK, QTypeOK, qvars
<1>2. CASE Begin(t)
  <2>1. pc' \in [Tick -> PcState]
    BY <1>2, <1>p, GotoType DEF Begin
  <2>2. txn' \in [Conn -> {"none", "open", "aborted"}]
    BY <1>2 DEF Begin, TypeOK
  <2>3. QED
    BY <1>2, <2>1, <2>2 DEF Begin, TypeOK, QTypeOK, qvars
<1>3. CASE List(t)
  <2>1. pc' \in [Tick -> PcState]
    BY <1>3, <1>p, GotoType DEF List
  <2>2. conn[t] \in Conn
    BY <1>3, HoldsConn DEF List
  <2>3. snap' \in [Tick -> [Event -> MaybeRow]]
    BY <1>3, <2>2, VisibleType, RowFacts DEF List, TypeOK
  <2>4. QED
    BY <1>3, <2>1, <2>3 DEF List, TypeOK, QTypeOK, qvars
<1>4. CASE ListEmpty(t)
  <2>1. pc' \in [Tick -> PcState]
    BY <1>4, <1>p, GotoType DEF ListEmpty
  <2>2. QED
    BY <1>4, <2>1 DEF ListEmpty, TypeOK, QTypeOK, qvars
<1>5. CASE Claim(t)
  <2>1. pc' \in [Tick -> PcState]
    BY <1>5, <1>p, GotoType DEF Claim
  <2>2. conn[t] \in Conn
    BY <1>5, HoldsConn DEF Claim
  <2>3. [e \in Event |-> IF e \in Picked(t) THEN Claimed(Visible(conn[t], e))
                                            ELSE write[conn[t]][e]]
          \in [Event -> MaybeRow]
    BY <2>2, VisibleType, RowFacts DEF TypeOK
  <2>4. write' \in [Conn -> [Event -> MaybeRow]]
    BY <1>5, <2>3 DEF Claim, TypeOK
  <2>5. call' \in [Tick -> [Event -> CallState]]
    BY <1>5 DEF Claim, TypeOK, QTypeOK, CallState
  <2>6. QED
    BY <1>5, <2>1, <2>4, <2>5 DEF Claim, TypeOK, QTypeOK
<1>6. CASE Commit(t)
  <2>1. pc' \in [Tick -> PcState]
    BY <1>6, <1>p, GotoType DEF Commit
  <2>2. conn[t] \in Conn
    BY <1>6, HoldsConn DEF Commit
  <2>3. row' \in [Event -> MaybeRow]
    BY <1>6, <2>2, VisibleType DEF Commit
  <2>4. QED
    BY <1>6, <2>1, <2>2, <2>3, EndTxnType DEF Commit, TypeOK, QTypeOK, qvars
<1>7. CASE CommitAborted(t)
  <2>1. pc' \in [Tick -> PcState]
    BY <1>7, <1>p, GotoType DEF CommitAborted
  <2>2. conn[t] \in Conn
    BY <1>7, HoldsConn DEF CommitAborted
  <2>3. QED
    BY <1>7, <2>1, <2>2, EndTxnType DEF CommitAborted, TypeOK, QTypeOK, qvars
<1>8. CASE Release(t)
  <2>1. pc' \in [Tick -> PcState]
    BY <1>8, <1>p, GotoType DEF Release
  <2>2. conn' \in [Tick -> Conn \union {NoConn}]
    BY <1>8 DEF Release, TypeOK
  <2>3. snap' \in [Tick -> [Event -> MaybeRow]]
    BY <1>8, NoWritesType DEF Release, TypeOK
  <2>4. call' \in [Tick -> [Event -> CallState]]
    BY <1>8 DEF Release, TypeOK, QTypeOK, CallState
  <2>5. QED
    BY <1>8, <2>1, <2>2, <2>3, <2>4 DEF Release, TypeOK, QTypeOK
<1>9. CASE BeginFails(t)
  <2>1. pc' \in [Tick -> PcState]
    BY <1>9, <1>p, GotoType DEF BeginFails
  <2>2. conn[t] \in Conn
    BY <1>9, HoldsConn DEF BeginFails
  <2>3. faults' \in Nat
    BY <1>9 DEF BeginFails, Fault, TypeOK, QTypeOK
  <2>4. QED
    BY <1>9, <2>1, <2>2, <2>3, EndTxnType DEF BeginFails, TypeOK, QTypeOK
<1>10. CASE GetOutboxFails(t)
  <2>1. pc' \in [Tick -> PcState]
    BY <1>10, <1>p, GotoType DEF GetOutboxFails
  <2>2. conn[t] \in Conn
    BY <1>10, HoldsConn DEF GetOutboxFails
  <2>3. faults' \in Nat
    BY <1>10 DEF GetOutboxFails, Fault, TypeOK, QTypeOK
  <2>4. QED
    BY <1>10, <2>1, <2>2, <2>3, EndTxnType DEF GetOutboxFails, TypeOK, QTypeOK
<1>11. QED
  BY <1>1, <1>2, <1>3, <1>4, <1>5, <1>6, <1>7, <1>8, <1>9, <1>10 DEF TickStep

\* Every step keeps the types.
LEMMA NextType ==
  ASSUME TypeOK, ConnInv, [Next]_vars
  PROVE  TypeOK'
<1>1. ASSUME NEW t \in Tick, Fire(t)
      PROVE  TypeOK'
  <2>1. pc' \in [Tick -> PcState]
    BY <1>1, GotoType DEF Fire, PcState
  <2>2. NoJob \in Job
    BY DEF NoJob, Job, JobState
  <2>3. job' \in [Tick -> [Event -> Job]]
    BY <1>1, <2>2 DEF Fire, TypeOK, QTypeOK
  <2>4. QED
    BY <1>1, <2>1, <2>3 DEF Fire, TypeOK, QTypeOK
<1>2. ASSUME NEW t \in Tick, TickStep(t)
      PROVE  TypeOK'
  BY <1>2, TickStepType
<1>3. ASSUME NEW t \in Tick, NEW e \in Event, UpdateRow(t, e)
      PROVE  TypeOK'
  <2>1. conn[t] \in Conn
    BY <1>3, HoldsConn DEF UpdateRow
  <2>2. Published(snap[t][e]) \in MaybeRow
    BY RowFacts DEF TypeOK
  <2>3. write' \in [Conn -> [Event -> MaybeRow]]
    BY <1>3, <2>1, <2>2 DEF UpdateRow, TypeOK
  <2>4. call' \in [Tick -> [Event -> CallState]]
    BY <1>3 DEF UpdateRow, SetCall, TypeOK, QTypeOK, CallState
  <2>5. QED
    BY <1>3, <2>3, <2>4 DEF UpdateRow, TypeOK, QTypeOK
<1>4. ASSUME NEW t \in Tick, NEW e \in Event, UpdateFails(t, e)
      PROVE  TypeOK'
  <2>1. conn[t] \in Conn
    BY <1>4, HoldsConn DEF UpdateFails
  <2>2. faults' \in Nat
    BY <1>4 DEF UpdateFails, Fault, TypeOK, QTypeOK
  <2>3. call' \in [Tick -> [Event -> CallState]]
    BY <1>4 DEF UpdateFails, SetCall, TypeOK, QTypeOK, CallState
  <2>4. QED
    BY <1>4, <2>1, <2>2, <2>3, EndTxnType DEF UpdateFails, TypeOK, QTypeOK
<1>5. ASSUME NEW c \in Conn, ReapIdle(c)
      PROVE  TypeOK'
  BY <1>5, EndTxnType DEF ReapIdle, TypeOK, QTypeOK, qvars
<1>6. CASE CronCrash
  <2>1. faults' \in Nat
    BY <1>6 DEF CronCrash, Fault, TypeOK, QTypeOK
  <2>2. /\ write' \in [Conn -> [Event -> MaybeRow]]
        /\ snap' \in [Tick -> [Event -> MaybeRow]]
    BY <1>6, NoWritesType DEF CronCrash
  <2>3. call' \in [Tick -> [Event -> CallState]]
    BY <1>6 DEF CronCrash, CallState
  <2>4. QED
    BY <1>6, <2>1, <2>2, <2>3 DEF CronCrash, TypeOK, QTypeOK, PcState
<1>7. CASE QueueStep /\ UNCHANGED tvars
  BY <1>7, QueueStepType DEF TypeOK, tvars
<1>8. ASSUME NEW e \in Event, ApiInsert(e)
      PROVE  TypeOK'
  BY <1>8, RowFacts DEF ApiInsert, TypeOK, QTypeOK, qvars
<1>9. CASE UNCHANGED vars
  BY <1>9 DEF vars, qvars, TypeOK, QTypeOK
<1>10. QED
  BY <1>1, <1>2, <1>3, <1>4, <1>5, <1>6, <1>7, <1>8, <1>9
  DEF Next, DispatchStep, PublishStep

-----------------------------------------------------------------------------
\* Connections.  In every step but Connect a tick keeps its connection or gives
\* it up, and no transaction is ended under a tick that is looking for rows.

LEMMA TickStepConn ==
  ASSUME TypeOK, ConnInv, NEW t \in Tick, TickStep(t)
  PROVE  ConnInv'
<1> USE DEF TypeOK, QTypeOK, ConnInv, HasConn, Goto
<1>1. CASE Connect(t)
  <2>1. PICK c \in Conn : /\ \A u \in Tick : conn[u] # c
                          /\ conn' = [conn EXCEPT ![t] = c]
    BY <1>1 DEF Connect
  <2>2. /\ pc' = [pc EXCEPT ![t] = "begin"]
        /\ txn' = txn
    BY <1>1 DEF Connect
  <2>3. \A u \in Tick : IF HasConn(u)' THEN conn'[u] \in Conn ELSE conn'[u] = NoConn
    BY <2>1, <2>2
  <2>4. \A u, v \in Tick : conn'[u] = conn'[v] /\ conn'[u] # NoConn => u = v
    BY <2>1
  <2>5. \A u \in Tick : pc'[u] \in {"list", "claim"} => txn'[conn'[u]] = "open"
    BY <2>1, <2>2
  <2>6. QED
    BY <2>3, <2>4, <2>5
<1>2. CASE Begin(t)
  <2>1. /\ pc[t] = "begin"
        /\ pc' = [pc EXCEPT ![t] = "list"]
        /\ txn' = [txn EXCEPT ![conn[t]] = "open"]
        /\ conn' = conn
    BY <1>2 DEF Begin
  <2>2. QED
    BY <2>1
<1>3. CASE List(t)
  <2>1. /\ pc[t] = "list"
        /\ pc' = [pc EXCEPT ![t] = "claim"]
        /\ UNCHANGED <<txn, conn>>
    BY <1>3 DEF List
  <2>2. QED
    BY <2>1
<1>4. CASE ListEmpty(t)
  <2>1. /\ pc[t] = "list"
        /\ pc' = [pc EXCEPT ![t] = "release"]
        /\ UNCHANGED <<txn, conn>>
    BY <1>4 DEF ListEmpty
  <2>2. QED
    BY <2>1
<1>5. CASE Claim(t)
  <2>1. /\ pc[t] = "claim"
        /\ pc' = [pc EXCEPT ![t] = "batch"]
        /\ UNCHANGED <<txn, conn>>
    BY <1>5 DEF Claim
  <2>2. QED
    BY <2>1
<1>6. CASE Commit(t) \/ CommitAborted(t) \/ BeginFails(t) \/ GetOutboxFails(t)
  <2>1. PICK s \in {"none", "aborted"} :
          /\ HasConn(t)
          /\ pc' = [pc EXCEPT ![t] = "release"]
          /\ txn' = [txn EXCEPT ![conn[t]] = s]
          /\ conn' = conn
    BY <1>6 DEF Commit, CommitAborted, BeginFails, GetOutboxFails, EndTxn, qvars
  <2>2. conn[t] \in Conn
    BY <2>1
  <2>3. \A u \in Tick : pc'[u] \in {"list", "claim"} => u # t /\ pc[u] = pc'[u]
    BY <2>1
  <2>4. \A u \in Tick : pc'[u] \in {"list", "claim"} => txn'[conn'[u]] = "open"
    BY <2>1, <2>2, <2>3, DispatchAssumption
  <2>5. \A u \in Tick : IF HasConn(u)' THEN conn'[u] \in Conn ELSE conn'[u] = NoConn
    BY <2>1
  <2>6. QED
    BY <2>1, <2>4, <2>5
<1>7. CASE Release(t)
  <2>1. /\ pc[t] = "release"
        /\ pc' = [pc EXCEPT ![t] = "off"]
        /\ conn' = [conn EXCEPT ![t] = NoConn]
        /\ txn' = txn
    BY <1>7 DEF Release
  <2>2. QED
    BY <2>1
<1>8. QED
  BY <1>1, <1>2, <1>3, <1>4, <1>5, <1>6, <1>7 DEF TickStep

LEMMA NextConn ==
  ASSUME TypeOK, ConnInv, [Next]_vars
  PROVE  ConnInv'
<1> USE DEF TypeOK, QTypeOK, ConnInv, HasConn
<1>1. ASSUME NEW t \in Tick, Fire(t)
      PROVE  ConnInv'
  <2>1. /\ pc[t] = "off"
        /\ pc' = [pc EXCEPT ![t] = "connect"]
        /\ UNCHANGED <<txn, conn>>
    BY <1>1 DEF Fire, Goto
  <2>2. QED
    BY <2>1
<1>2. ASSUME NEW t \in Tick, TickStep(t)
      PROVE  ConnInv'
  BY <1>2, TickStepConn
<1>3. ASSUME NEW t \in Tick, NEW e \in Event, PublishStep(t, e)
      PROVE  ConnInv'
  <2>1. PICK s \in {"open", "aborted"} :
          /\ pc[t] = "batch"
          /\ txn' = [txn EXCEPT ![conn[t]] = s]
          /\ UNCHANGED <<pc, conn>>
    BY <1>3 DEF PublishStep, UpdateRow, UpdateFails, EndTxn
  <2>2. conn[t] \in Conn
    BY <2>1
  <2>3. \A u \in Tick : pc[u] \in {"list", "claim"} => conn[u] # conn[t]
    BY <2>1, <2>2, DispatchAssumption
  <2>4. QED
    BY <2>1, <2>2, <2>3
<1>4. ASSUME NEW c \in Conn, ReapIdle(c)
      PROVE  ConnInv'
  BY <1>4 DEF ReapIdle, EndTxn
<1>5. CASE CronCrash
  BY <1>5 DEF CronCrash
<1>6. CASE QueueStep /\ UNCHANGED tvars
  BY <1>6 DEF tvars
<1>7. ASSUME NEW e \in Event, ApiInsert(e)
      PROVE  ConnInv'
  BY <1>7 DEF ApiInsert
<1>8. CASE UNCHANGED vars
  BY <1>8 DEF vars
<1>9. QED
  BY <1>1, <1>2, <1>3, <1>4, <1>5, <1>6, <1>7, <1>8 DEF Next, DispatchStep
-----------------------------------------------------------------------------
\* Locks.  Only Claim and UpdateRow take them; whatever ends a transaction
\* gives all of its locks back.

\* The end of tick t's transaction, in any of the ways a tick can end it.
LEMMA EndTxnLocks ==
  ASSUME TypeOK, ConnInv, LockInv, CallInv, NEW t \in Tick, HasConn(t),
         NEW s \in {"none", "aborted"}, EndTxn(conn[t], s),
         conn' = conn, call' = call \/ \E e \in Event : SetCall(t, e, "err"),
         pc' = pc \/ pc' = [pc EXCEPT ![t] = "release"],
         \A e \in Event : call'[t][e] # "none" => pc'[t] \in {"batch", "release"}
  PROVE  LockInv' /\ CallInv'
<1> USE DEF TypeOK, QTypeOK, HasConn
<1>1. conn[t] \in Conn
  BY DEF ConnInv
<1>2. /\ txn' = [txn EXCEPT ![conn[t]] = s]
      /\ write' = [write EXCEPT ![conn[t]] = NoWrites]
      /\ \A e \in Event : NoWrites[e] = NoRow
  BY DEF EndTxn, NoWrites
<1>3. \A u \in Tick : u # t /\ conn[u] \in Conn =>
         conn[u] # conn[t] /\ pc'[u] = pc[u] /\ call'[u] = call[u]
  BY DispatchAssumption DEF ConnInv, SetCall
<1>4. \A c \in Conn, e \in Event :
         write'[c][e] # NoRow => c # conn[t] /\ write'[c][e] = write[c][e] /\ txn'[c] = txn[c]
  BY <1>1, <1>2
<1>5. LockInv'
  <2>1. ASSUME NEW c \in Conn, NEW e \in Event, write'[c][e] # NoRow
        PROVE  txn'[c] = "open" /\ \E u \in Tick : conn'[u] = c /\ pc'[u] = "batch"
    <3>1. PICK u \in Tick : conn[u] = c /\ pc[u] = "batch"
      BY <1>4, <2>1 DEF LockInv
    <3>2. u # t /\ pc'[u] = "batch" /\ conn'[u] = c
      BY <1>3, <1>4, <2>1, <3>1
    <3>3. QED
      BY <1>4, <2>1, <3>2 DEF LockInv
  <2>2. \A c, d \in Conn, e \in Event :
          write'[c][e] # NoRow /\ write'[d][e] # NoRow => c = d
    BY <1>4 DEF LockInv
  <2>3. QED
    BY <2>1, <2>2 DEF LockInv
<1>6. CallInv'
  <2>1. ASSUME NEW u \in Tick, NEW e \in Event, call'[u][e] # "none"
        PROVE  pc'[u] \in {"batch", "release"}
    <3>1. CASE u = t
      BY <2>1, <3>1
    <3>2. CASE u # t
      BY <2>1, <3>2 DEF CallInv, SetCall
    <3>3. QED
      BY <3>1, <3>2
  <2>2. ASSUME NEW u \in Tick, NEW e \in Event, pc'[u] = "batch",
               txn'[conn'[u]] = "open", call'[u][e] # "none"
        PROVE  write'[conn'[u]][e] # NoRow
    <3>1. u # t
      BY <1>1, <1>2, <2>2
    <3>2. pc[u] = "batch" /\ conn[u] \in Conn
      BY <2>2, <3>1 DEF ConnInv
    <3>3. conn[u] # conn[t] /\ call[u][e] # "none"
      BY <1>3, <2>2, <3>1, <3>2
    <3>4. txn[conn[u]] = "open" /\ write'[conn[u]] = write[conn[u]]
      BY <1>1, <1>2, <2>2, <3>2, <3>3
    <3>5. QED
      BY <2>2, <3>2, <3>3, <3>4 DEF CallInv
  <2>3. QED
    BY <2>1, <2>2 DEF CallInv
<1>7. QED
  BY <1>5, <1>6

LEMMA TickStepLocks ==
  ASSUME TypeOK, ConnInv, LockInv, CallInv, NEW t \in Tick, TickStep(t)
  PROVE  LockInv' /\ CallInv'
<1> USE DEF TypeOK, QTypeOK, Goto
<1>1. CASE Connect(t)
  <2>1. /\ pc[t] = "connect"
        /\ pc' = [pc EXCEPT ![t] = "begin"]
        /\ \A u \in Tick : u # t => conn'[u] = conn[u]
        /\ UNCHANGED <<txn, write, call>>
    BY <1>1 DEF Connect, qvars
  <2>2. \A u \in Tick : pc[u] \in {"batch", "release"} => u # t /\ pc'[u] = pc[u]
    BY <2>1
  <2>3. \A u \in Tick : pc'[u] = "batch" => u # t /\ pc[u] = "batch"
    BY <2>1
  <2>4. LockInv'
    <3>1. ASSUME NEW c \in Conn, NEW e \in Event, write'[c][e] # NoRow
          PROVE  txn'[c] = "open" /\ \E u \in Tick : conn'[u] = c /\ pc'[u] = "batch"
      <4>1. PICK u \in Tick : conn[u] = c /\ pc[u] = "batch"
        BY <2>1, <3>1 DEF LockInv
      <4>2. QED
        BY <2>1, <2>2, <3>1, <4>1 DEF LockInv
    <3>2. QED
      BY <2>1, <3>1 DEF LockInv
  <2>5. CallInv'
    BY <2>1, <2>2, <2>3 DEF CallInv
  <2>6. QED
    BY <2>4, <2>5
<1>2. CASE List(t) \/ ListEmpty(t)
  <2>1. PICK p \in {"claim", "release"} :
          /\ pc[t] = "list"
          /\ pc' = [pc EXCEPT ![t] = p]
          /\ UNCHANGED <<txn, write, conn, call>>
    BY <1>2 DEF List, ListEmpty, qvars
  <2>2. LockInv'
    BY <2>1 DEF LockInv
  <2>3. CallInv'
    BY <2>1 DEF CallInv
  <2>4. QED
    BY <2>2, <2>3
<1>3. CASE Begin(t)
  <2>1. /\ pc[t] = "begin"
        /\ txn' = [txn EXCEPT ![conn[t]] = "open"]
        /\ pc' = [pc EXCEPT ![t] = "list"]
        /\ UNCHANGED <<write, conn, call>>
    BY <1>3 DEF Begin, qvars
  <2>2. conn[t] \in Conn
    BY <2>1, HoldsConn
  <2>3. \A u \in Tick : pc[u] = "batch" => conn[u] # conn[t]
    BY <2>1, <2>2, DispatchAssumption DEF ConnInv
  <2>4. LockInv'
    BY <2>1, <2>2, <2>3 DEF LockInv
  <2>5. CallInv'
    <3>1. \A u \in Tick : pc'[u] = "batch" => pc[u] = "batch" /\ conn[u] \in Conn
      BY <2>1, HoldsConn
    <3>2. \A u \in Tick : pc'[u] = "batch" => txn'[conn[u]] = txn[conn[u]]
      BY <2>1, <2>3, <3>1
    <3>3. QED
      BY <2>1, <3>1, <3>2 DEF CallInv
  <2>6. QED
    BY <2>4, <2>5
<1>4. CASE Claim(t)
  <2> DEFINE c0 == conn[t]
  <2>1. /\ pc[t] = "claim"
        /\ pc' = [pc EXCEPT ![t] = "batch"]
        /\ UNCHANGED <<txn, conn>>
        /\ \A e \in Picked(t) : ~LockedByOther(c0, e)
        /\ call' = [call EXCEPT ![t] =
                      [e \in Event |-> IF e \in Picked(t) THEN "todo" ELSE "none"]]
        /\ write' = [write EXCEPT ![c0] =
                       [e \in Event |-> IF e \in Picked(t) THEN Claimed(Visible(c0, e))
                                                           ELSE write[c0][e]]]
    BY <1>4 DEF Claim
  <2>2. c0 \in Conn /\ txn[c0] = "open"
    BY <2>1, HoldsConn DEF ConnInv
  <2>3. \A e \in Event : write[c0][e] = NoRow
    <3>1. \A u \in Tick : conn[u] = c0 => u = t
      BY <2>2, DispatchAssumption DEF ConnInv
    <3>2. QED
      BY <2>1, <2>2, <3>1 DEF LockInv
  <2>4. \A c \in Conn, e \in Event :
          write'[c][e] # NoRow =>
            \/ c = c0 /\ e \in Picked(t)
            \/ c # c0 /\ write'[c][e] = write[c][e] /\ write[c][e] # NoRow
    BY <2>1, <2>2, <2>3
  <2>5. \A e \in Picked(t) : write'[c0][e] # NoRow
    <3>1. \A e \in Picked(t) : Claimed(Visible(c0, e)) # NoRow
      BY <2>2, VisibleType, RowFacts DEF Picked
    <3>2. QED
      BY <2>1, <2>2, <3>1 DEF Picked
  <2>6. LockInv'
    <3>1. ASSUME NEW c \in Conn, NEW e \in Event, write'[c][e] # NoRow
          PROVE  txn'[c] = "open" /\ \E u \in Tick : conn'[u] = c /\ pc'[u] = "batch"
      <4>1. CASE c = c0
        BY <2>1, <2>2, <4>1
      <4>2. CASE c # c0
        BY <2>1, <2>4, <3>1, <4>2 DEF LockInv
      <4>3. QED
        BY <4>1, <4>2
    <3>2. \A c, d \in Conn, e \in Event :
            write'[c][e] # NoRow /\ write'[d][e] # NoRow => c = d
      BY <2>1, <2>4 DEF LockInv, LockedByOther
    <3>3. QED
      BY <3>1, <3>2 DEF LockInv
  <2>7. CallInv'
    <3>1. \A u \in Tick, e \in Event :
            call'[u][e] # "none" => IF u = t THEN e \in Picked(t) ELSE call[u][e] # "none"
      BY <2>1
    <3>2. \A u \in Tick, e \in Event : call'[u][e] # "none" => pc'[u] \in {"batch", "release"}
      BY <2>1, <3>1 DEF CallInv
    <3>3. ASSUME NEW u \in Tick, NEW e \in Event, pc'[u] = "batch",
                 txn'[conn'[u]] = "open", call'[u][e] # "none"
          PROVE  write'[conn'[u]][e] # NoRow
      <4>1. CASE u = t
        BY <2>1, <2>5, <3>1, <3>3, <4>1
      <4>2. CASE u # t
        <5>1. pc[u] = "batch" /\ conn[u] \in Conn /\ conn[u] # c0
          BY <2>1, <2>2, <3>3, <4>2, DispatchAssumption, HoldsConn DEF ConnInv
        <5>2. write'[conn[u]] = write[conn[u]] /\ call[u][e] # "none"
          BY <2>1, <2>2, <3>1, <3>3, <4>2, <5>1
        <5>3. QED
          BY <2>1, <3>3, <5>1, <5>2 DEF CallInv
      <4>3. QED
        BY <4>1, <4>2
    <3>4. QED
      BY <3>2, <3>3 DEF CallInv
  <2>8. QED
    BY <2>6, <2>7
<1>5. CASE Commit(t) \/ CommitAborted(t) \/ BeginFails(t) \/ GetOutboxFails(t)
  <2>1. PICK s \in {"none", "aborted"} :
          /\ HasConn(t)
          /\ pc' = [pc EXCEPT ![t] = "release"]
          /\ EndTxn(conn[t], s)
          /\ UNCHANGED <<conn, call>>
    BY <1>5 DEF Commit, CommitAborted, BeginFails, GetOutboxFails, HasConn, qvars
  <2>2. \A e \in Event : call'[t][e] # "none" => pc'[t] \in {"batch", "release"}
    BY <2>1
  <2>3. QED
    BY <2>1, <2>2, EndTxnLocks
<1>6. CASE Release(t)
  <2>1. /\ pc[t] = "release"
        /\ pc' = [pc EXCEPT ![t] = "off"]
        /\ conn' = [conn EXCEPT ![t] = NoConn]
        /\ call' = [call EXCEPT ![t] = [e \in Event |-> "none"]]
        /\ UNCHANGED <<txn, write>>
    BY <1>6 DEF Release
  <2>2. LockInv'
    BY <2>1 DEF LockInv
  <2>3. \A u \in Tick, e \in Event : call'[u][e] # "none" => u # t /\ call'[u] = call[u]
    BY <2>1
  <2>4. CallInv'
    BY <2>1, <2>3 DEF CallInv
  <2>5. QED
    BY <2>2, <2>4
<1>7. QED
  BY <1>1, <1>2, <1>3, <1>4, <1>5, <1>6 DEF TickStep

LEMMA NextLocks ==
  ASSUME TypeOK, ConnInv, LockInv, CallInv, [Next]_vars
  PROVE  LockInv' /\ CallInv'
<1> USE DEF TypeOK, QTypeOK
<1>1. ASSUME NEW t \in Tick, Fire(t)
      PROVE  LockInv' /\ CallInv'
  <2>1. /\ pc[t] = "off"
        /\ pc' = [pc EXCEPT ![t] = "connect"]
        /\ UNCHANGED <<txn, write, conn, call>>
    BY <1>1 DEF Fire, Goto
  <2>2. LockInv'
    BY <2>1 DEF LockInv
  <2>3. CallInv'
    BY <2>1 DEF CallInv
  <2>4. QED
    BY <2>2, <2>3
<1>2. ASSUME NEW t \in Tick, TickStep(t)
      PROVE  LockInv' /\ CallInv'
  BY <1>2, TickStepLocks
<1>3. ASSUME NEW t \in Tick, NEW e \in Event, UpdateRow(t, e)
      PROVE  LockInv' /\ CallInv'
  <2>1. /\ pc[t] = "batch"
        /\ call[t][e] = "ok"
        /\ txn[conn[t]] = "open"
        /\ write' = [write EXCEPT ![conn[t]][e] = Published(snap[t][e])]
        /\ call' = [call EXCEPT ![t][e] = "done"]
        /\ UNCHANGED <<txn, pc, conn>>
    BY <1>3 DEF UpdateRow, SetCall
  <2>2. conn[t] \in Conn
    BY <2>1, HoldsConn
  <2>3. Published(snap[t][e]) # NoRow /\ write[conn[t]][e] # NoRow
    BY <2>1, RowFacts DEF CallInv
  <2>4. \A c \in Conn, f \in Event : write'[c][f] # NoRow <=> write[c][f] # NoRow
    BY <2>1, <2>2, <2>3
  <2>5. LockInv'
    BY <2>1, <2>4 DEF LockInv
  <2>6. \A u \in Tick, f \in Event : call'[u][f] # "none" => call[u][f] # "none"
    BY <2>1
  <2>7. CallInv'
    <3>1. \A u \in Tick : pc[u] = "batch" => conn[u] \in Conn
      BY HoldsConn
    <3>2. QED
      BY <2>1, <2>4, <2>6, <3>1 DEF CallInv
  <2>8. QED
    BY <2>5, <2>7
<1>4. ASSUME NEW t \in Tick, NEW e \in Event, UpdateFails(t, e)
      PROVE  LockInv' /\ CallInv'
  <2>1. /\ pc[t] = "batch" /\ pc' = pc /\ conn' = conn
        /\ EndTxn(conn[t], "aborted")
        /\ SetCall(t, e, "err")
    BY <1>4 DEF UpdateFails
  <2>2. QED
    BY <2>1, EndTxnLocks DEF HasConn
<1>5. ASSUME NEW c \in Conn, ReapIdle(c)
      PROVE  LockInv' /\ CallInv'
  <2>1. /\ \A t \in Tick : conn[t] # c
        /\ txn' = [txn EXCEPT ![c] = "none"]
        /\ write' = [write EXCEPT ![c] = NoWrites]
        /\ \A e \in Event : NoWrites[e] = NoRow
        /\ UNCHANGED <<pc, conn, call>>
    BY <1>5 DEF ReapIdle, EndTxn, NoWrites, qvars
  <2>2. \A d \in Conn, e \in Event :
          write'[d][e] # NoRow => d # c /\ write'[d][e] = write[d][e] /\ txn'[d] = txn[d]
    BY <2>1
  <2>3. LockInv'
    BY <2>1, <2>2 DEF LockInv
  <2>4. CallInv'
    <3>1. \A t \in Tick : pc[t] = "batch" => conn[t] \in Conn \ {c}
      BY <2>1, HoldsConn
    <3>2. QED
      BY <2>1, <3>1 DEF CallInv
  <2>5. QED
    BY <2>3, <2>4
<1>6. CASE CronCrash
  BY <1>6 DEF CronCrash, NoWrites, LockInv, CallInv
<1>7. CASE QueueStep /\ UNCHANGED tvars
  <2>1. \A t \in Tick, e \in Event : call'[t][e] # "none" => call[t][e] # "none"
    BY <1>7, QueueStepFrame DEF QueueFrame
  <2>2. QED
    BY <1>7, <2>1 DEF tvars, LockInv, CallInv
<1>8. ASSUME NEW e \in Event, ApiInsert(e)
      PROVE  LockInv' /\ CallInv'
  BY <1>8 DEF ApiInsert, qvars, LockInv, CallInv
<1>9. CASE UNCHANGED vars
  BY <1>9 DEF vars, qvars, LockInv, CallInv
<1>10. QED
  BY <1>1, <1>2, <1>3, <1>4, <1>5, <1>6, <1>7, <1>8, <1>9
  DEF Next, DispatchStep, PublishStep

-----------------------------------------------------------------------------
\* What a step may change, whichever step it is.

\* The committed table changes in a commit of a tick or of the API only.
LEMMA RowChanges ==
  ASSUME [Next]_vars
  PROVE  \/ row' = row
         \/ \E t \in Tick : Commit(t)
         \/ \E e \in Event : ApiInsert(e)
  BY DEF Next, DispatchStep, TickStep, PublishStep, Fire, Connect, Begin, BeginFails,
         List, ListEmpty, Claim, GetOutboxFails, UpdateRow, UpdateFails, CommitAborted,
         Release, ReapIdle, CronCrash, tvars, vars

\* A session's writes are taken back, or come from one of the two UPDATEs.
LEMMA WriteChanges ==
  ASSUME TypeOK, ConnInv, [Next]_vars, NEW c \in Conn, NEW e \in Event,
         write'[c][e] # NoRow, write'[c][e] # write[c][e]
  PROVE  \/ \E t \in Tick : /\ Claim(t) /\ conn[t] = c /\ e \in Picked(t)
                            /\ write'[c][e] = Claimed(Visible(c, e))
         \/ \E t \in Tick : /\ UpdateRow(t, e) /\ conn[t] = c
                            /\ write'[c][e] = Published(snap[t][e])
<1> USE DEF TypeOK
<1>1. ASSUME NEW d \in Conn \union {NoConn}, NEW s, EndTxn(d, s)
      PROVE  write'[c][e] = NoRow \/ write'[c][e] = write[c][e]
  BY <1>1 DEF EndTxn, NoWrites
<1>2. ASSUME NEW t \in Tick, Claim(t)
      PROVE  conn[t] = c /\ e \in Picked(t) /\ write'[c][e] = Claimed(Visible(c, e))
  <2>1. conn[t] \in Conn
    BY <1>2, HoldsConn DEF Claim
  <2>2. QED
    BY <1>2, <2>1 DEF Claim
<1>3. ASSUME NEW t \in Tick, NEW f \in Event, UpdateRow(t, f)
      PROVE  f = e /\ conn[t] = c /\ write'[c][e] = Published(snap[t][e])
  <2>1. conn[t] \in Conn
    BY <1>3, HoldsConn DEF UpdateRow
  <2>2. QED
    BY <1>3, <2>1 DEF UpdateRow
<1>4. ASSUME NEW t \in Tick, Fire(t) \/ TickStep(t), ~Claim(t)
      PROVE  FALSE
  BY <1>1, <1>4 DEF Fire, TickStep, Connect, Begin, BeginFails, List, ListEmpty,
     GetOutboxFails, Commit, CommitAborted, Release
<1>5. ASSUME NEW t \in Tick, NEW f \in Event, UpdateFails(t, f)
      PROVE  FALSE
  BY <1>1, <1>5 DEF UpdateFails
<1>6. ASSUME NEW d \in Conn, ReapIdle(d)
      PROVE  FALSE
  BY <1>1, <1>6 DEF ReapIdle
<1>7. CASE CronCrash
  BY <1>7 DEF CronCrash, NoWrites
<1>8. CASE UNCHANGED write
  BY <1>8
<1>9. QED
  BY <1>2, <1>3, <1>4, <1>5, <1>6, <1>7, <1>8
  DEF Next, DispatchStep, PublishStep, ApiInsert, tvars, vars

\* Only the queue sends emails, and no email is unsent.
LEMMA EmailedGrows ==
  ASSUME TypeOK, [Next]_vars, NEW e \in Event
  PROVE  emailed'[e] \in Nat /\ emailed'[e] >= emailed[e]
<1> USE DEF TypeOK, QTypeOK
<1>1. CASE emailed' = emailed
  BY <1>1
<1>2. CASE QueueStep
  BY <1>2, QueueStepFrame DEF QueueFrame
<1>3. QED
  BY <1>1, <1>2
  DEF Next, DispatchStep, TickStep, PublishStep, Fire, Connect, Begin, BeginFails,
      List, ListEmpty, Claim, GetOutboxFails, UpdateRow, UpdateFails, Commit,
      CommitAborted, Release, ReapIdle, CronCrash, ApiInsert, vars, qvars

\* No step of the dispatcher makes a reply or a finished job up.
LEMMA NextEvidence ==
  ASSUME TypeOK, EmailEvidence, [Next]_vars
  PROVE  EmailEvidence'
<1> USE DEF TypeOK, QTypeOK
<1>1. ASSUME emailed' = emailed,
             \A t \in Tick, e \in Event :
               /\ call'[t][e] = "ok" => call[t][e] = "ok"
               /\ job'[t][e].st \in {"sent", "ok"} => job[t][e].st = job'[t][e].st
      PROVE  EmailEvidence'
  BY <1>1 DEF EmailEvidence
<1>2. ASSUME NEW t \in Tick, Fire(t)
      PROVE  EmailEvidence'
  BY <1>1, <1>2 DEF Fire, NoJob
<1>3. ASSUME NEW t \in Tick, TickStep(t)
      PROVE  EmailEvidence'
  <2>1. emailed' = emailed /\ job' = job
    BY <1>3 DEF TickStep, Connect, Begin, BeginFails, List, ListEmpty, Claim,
       GetOutboxFails, Commit, CommitAborted, Release, qvars
  <2>2. \A u \in Tick, e \in Event : call'[u][e] = "ok" => call[u][e] = "ok"
    <3>1. CASE call' = call
      BY <3>1
    <3>2. CASE Claim(t) \/ Release(t)
      <4>1. CASE Claim(t)
        BY <4>1 DEF Claim
      <4>2. CASE Release(t)
        BY <4>2 DEF Release
      <4>3. QED
        BY <3>2, <4>1, <4>2
    <3>3. QED
      BY <1>3, <3>1, <3>2 DEF TickStep, Connect, Begin, BeginFails, List, ListEmpty,
         GetOutboxFails, Commit, CommitAborted, qvars
  <2>3. QED
    BY <1>1, <2>1, <2>2
<1>4. ASSUME NEW t \in Tick, NEW e \in Event, PublishStep(t, e)
      PROVE  EmailEvidence'
  <2>1. PICK s \in {"done", "err"} :
          call' = [call EXCEPT ![t][e] = s] /\ UNCHANGED <<emailed, job>>
    BY <1>4 DEF PublishStep, UpdateRow, UpdateFails, SetCall
  <2>2. QED
    BY <1>1, <2>1
<1>5. CASE CronCrash
  BY <1>1, <1>5 DEF CronCrash
<1>6. CASE QueueStep
  BY <1>6, QueueStepEvidence
<1>7. CASE UNCHANGED <<emailed, call, job>>
  BY <1>1, <1>7
<1>8. QED
  BY <1>2, <1>3, <1>4, <1>5, <1>6, <1>7
  DEF Next, DispatchStep, ReapIdle, ApiInsert, vars, qvars

-----------------------------------------------------------------------------
\* The rest of the inductive invariant, one part at a time.

\* Nobody is working on event e: no tick has read or claimed it, no call, job or
\* uncommitted write is about it.
Untouched(e) ==
  /\ \A t \in Tick : snap[t][e] = NoRow /\ call[t][e] = "none" /\ job[t][e].st = "none"
  /\ \A c \in Conn : write[c][e] = NoRow

\* Work on an event starts only with the query, which finds claimable rows.
LEMMA NextUntouched ==
  ASSUME TypeOK, ConnInv, [Next]_vars, NEW e \in Event, Untouched(e), ~Claimable(row[e])
  PROVE  Untouched(e)'
<1> USE DEF TypeOK, QTypeOK
<1>1. ASSUME NEW c \in Conn
      PROVE  write'[c][e] = NoRow
  <2>1. \A t \in Tick : snap[t][e] = NoRow /\ call[t][e] # "ok"
    BY DEF Untouched
  <2>2. write[c][e] = NoRow
    BY DEF Untouched
  <2>3. \A t \in Tick : ~UpdateRow(t, e) /\ e \notin Picked(t)
    BY <2>1 DEF Picked, UpdateRow
  <2>4. QED
    BY <2>2, <2>3, WriteChanges
<1>2. ASSUME NEW t \in Tick
      PROVE  snap'[t][e] = NoRow
  <2>1. \A u \in Tick : snap[u][e] = NoRow
    BY DEF Untouched
  <2>2. ASSUME NEW u \in Tick, List(u)
        PROVE  snap'[t][e] = NoRow
    <3>1. conn[u] \in Conn
      BY <2>2, HoldsConn DEF List
    <3>2. Visible(conn[u], e) = row[e]
      BY <3>1 DEF Untouched, Visible
    <3>3. \A P \in FirstRows(FoundRows(conn[u])) : e \notin P
      BY <3>2 DEF FirstRows, FoundRows
    <3>4. QED
      BY <2>1, <2>2, <3>3 DEF List
  <2>3. CASE CronCrash \/ \E u \in Tick : Release(u)
    <3>1. NoWrites[e] = NoRow
      BY DEF NoWrites
    <3>2. snap'[t] = NoWrites \/ snap'[t] = snap[t]
      BY <2>3 DEF CronCrash, Release
    <3>3. QED
      BY <2>1, <3>1, <3>2
  <2>4. CASE snap' = snap
    BY <2>1, <2>4
  <2>5. QED
    BY <2>2, <2>3, <2>4
    DEF Next, DispatchStep, TickStep, PublishStep, Fire, Connect, Begin, BeginFails,
        ListEmpty, Claim, GetOutboxFails, UpdateRow, UpdateFails, Commit,
        CommitAborted, ReapIdle, ApiInsert, tvars, vars
<1>3. ASSUME NEW t \in Tick
      PROVE  call'[t][e] = "none"
  <2>1. \A u \in Tick : snap[u][e] = NoRow /\ call[u][e] = "none"
    BY DEF Untouched
  <2>2. ASSUME NEW u \in Tick, Claim(u)
        PROVE  call'[t][e] = "none"
    BY <2>1, <2>2 DEF Claim, Picked
  <2>3. ASSUME NEW u \in Tick, Release(u)
        PROVE  call'[t][e] = "none"
    BY <2>1, <2>3 DEF Release
  <2>4. ASSUME NEW u \in Tick, NEW f \in Event, PublishStep(u, f)
        PROVE  call'[t][e] = "none"
    <3>1. call[u][f] = "ok"
      BY <2>4 DEF PublishStep, UpdateRow, UpdateFails
    <3>2. f # e
      BY <2>1, <3>1
    <3>3. PICK s : SetCall(u, f, s)
      BY <2>4 DEF PublishStep, UpdateRow, UpdateFails
    <3>4. call'[t][e] = call[t][e]
      BY <3>2, <3>3 DEF SetCall
    <3>5. QED
      BY <2>1, <3>4
  <2>5. CASE CronCrash
    BY <2>5 DEF CronCrash
  <2>6. CASE QueueStep
    BY <2>1, <2>6, QueueStepFrame DEF QueueFrame
  <2>7. CASE call' = call
    BY <2>1, <2>7
  <2>8. QED
    BY <2>2, <2>3, <2>4, <2>5, <2>6, <2>7
    DEF Next, DispatchStep, TickStep, Fire, Connect, Begin, BeginFails, List,
        ListEmpty, GetOutboxFails, Commit, CommitAborted, ReapIdle, ApiInsert, vars, qvars
<1>4. ASSUME NEW t \in Tick
      PROVE  job'[t][e].st = "none"
  <2>1. \A u \in Tick : job[u][e].st = "none" /\ call[u][e] = "none"
    BY DEF Untouched
  <2>2. ASSUME NEW u \in Tick, Fire(u)
        PROVE  job'[t][e].st = "none"
    BY <2>1, <2>2 DEF Fire, NoJob
  <2>3. CASE QueueStep
    BY <2>1, <2>3, QueueStepFrame DEF QueueFrame
  <2>4. CASE job' = job
    BY <2>1, <2>4
  <2>5. QED
    BY <2>2, <2>3, <2>4
    DEF Next, DispatchStep, TickStep, PublishStep, Connect, Begin, BeginFails, List,
        ListEmpty, Claim, GetOutboxFails, UpdateRow, UpdateFails, Commit,
        CommitAborted, Release, ReapIdle, CronCrash, ApiInsert, vars, qvars
<1>5. QED
  BY <1>1, <1>2, <1>3, <1>4 DEF Untouched

\* Rows never vanish, and nothing refers to one that was not committed.
LEMMA NextExist ==
  ASSUME TypeOK, ConnInv, ExistInv, [Next]_vars
  PROVE  ExistInv'
<1>1. ASSUME NEW e \in Event, row[e] # NoRow
      PROVE  row'[e] # NoRow
  <2>1. ASSUME NEW t \in Tick, Commit(t)
        PROVE  row'[e] # NoRow
    BY <1>1, <2>1 DEF Commit, Visible
  <2>2. ASSUME NEW f \in Event, ApiInsert(f)
        PROVE  row'[e] # NoRow
    BY <1>1, <2>2 DEF ApiInsert, TypeOK
  <2>3. QED
    BY <1>1, <2>1, <2>2, RowChanges
<1>2. ASSUME NEW e \in Event, row[e] = NoRow
      PROVE  Untouched(e)'
  BY <1>2, NextUntouched DEF ExistInv, Untouched, Claimable, NoRow
<1>3. QED
  BY <1>1, <1>2 DEF ExistInv, Untouched

\* What a commit puts into the table: the row as it was, or a good write.
LEMMA CommittedRow ==
  ASSUME DispatchInv, NEW t \in Tick, Commit(t), NEW e \in Event
  PROVE  /\ conn[t] \in Conn
         /\ row'[e] = Visible(conn[t], e)
         /\ \/ row'[e] = row[e] /\ write[conn[t]][e] = NoRow
            \/ row'[e] = write[conn[t]][e] /\ GoodWrite(conn[t], e)
<1>1. conn[t] \in Conn
  BY HoldsConn DEF DispatchInv, Commit
<1>2. row'[e] = Visible(conn[t], e)
  BY DEF Commit
<1>3. QED
  BY <1>1, <1>2 DEF DispatchInv, WriteInv, Visible

LEMMA NextPublished ==
  ASSUME DispatchInv, [Next]_vars
  PROVE  PublishedMeansEmailed'
<1>1. SUFFICES ASSUME NEW e \in Event, row'[e].isPublished = "YES"
               PROVE  emailed'[e] >= 1
  BY DEF PublishedMeansEmailed
<1>2. emailed[e] \in Nat /\ emailed'[e] \in Nat /\ emailed'[e] >= emailed[e]
  BY EmailedGrows DEF DispatchInv, TypeOK, QTypeOK
<1>3. row[e].isPublished = "YES" => emailed[e] >= 1
  BY DEF DispatchInv, PublishedMeansEmailed
<1>4. ASSUME NEW t \in Tick, Commit(t)
      PROVE  emailed[e] >= 1
  BY <1>1, <1>3, <1>4, CommittedRow DEF GoodWrite
<1>5. ASSUME NEW f \in Event, ApiInsert(f)
      PROVE  emailed[e] >= 1
  BY <1>1, <1>3, <1>5 DEF ApiInsert, ApiRow, DispatchInv, TypeOK
<1>6. emailed[e] >= 1
  BY <1>1, <1>3, <1>4, <1>5, RowChanges
<1>7. QED
  BY <1>2, <1>6

LEMMA NextStatus ==
  ASSUME DispatchInv, [Next]_vars
  PROVE  StatusAgrees'
<1> DEFINE Agrees(r) ==
      /\ r.isPublished = "YES" => r.jobStatus \in {"COMPLETED", "PROCESSING"}
      /\ r.jobStatus = "COMPLETED" => r.isPublished = "YES"
<1>1. SUFFICES ASSUME NEW e \in Event
               PROVE  Agrees(row'[e])
  BY DEF StatusAgrees
<1>2. Agrees(row[e])
  BY DEF DispatchInv, StatusAgrees
<1>3. ASSUME NEW t \in Tick, Commit(t)
      PROVE  Agrees(row'[e])
  BY <1>2, <1>3, CommittedRow DEF GoodWrite
<1>4. ASSUME NEW f \in Event, ApiInsert(f)
      PROVE  Agrees(row'[e])
  <2>1. row'[e] = ApiRow \/ row'[e] = row[e]
    BY <1>4 DEF ApiInsert, DispatchInv, TypeOK
  <2>2. Agrees(ApiRow)
    BY DEF ApiRow
  <2>3. QED
    BY <1>2, <2>1, <2>2
<1>5. QED
  BY <1>2, <1>3, <1>4, RowChanges

LEMMA NextWrites ==
  ASSUME DispatchInv, [Next]_vars
  PROVE  WriteInv'
<1>1. SUFFICES ASSUME NEW c \in Conn, NEW e \in Event, write'[c][e] # NoRow
               PROVE  GoodWrite(c, e)'
  BY DEF WriteInv
<1>2. emailed[e] \in Nat /\ emailed'[e] \in Nat /\ emailed'[e] >= emailed[e]
  BY EmailedGrows DEF DispatchInv, TypeOK, QTypeOK
<1>3. CASE write'[c][e] = write[c][e]
  <2>1. GoodWrite(c, e)
    BY <1>1, <1>3 DEF DispatchInv, WriteInv
  <2>2. row'[e] = row[e]
    <3>1. ASSUME NEW t \in Tick, Commit(t)
          PROVE  row'[e] = row[e]
      <4>1. c # conn[t]
        BY <1>1, <3>1, CommittedRow DEF Commit, EndTxn, NoWrites, DispatchInv, TypeOK
      <4>2. write[conn[t]][e] = NoRow
        BY <1>1, <1>3, <3>1, <4>1, CommittedRow DEF DispatchInv, LockInv
      <4>3. QED
        BY <3>1, <4>2, CommittedRow DEF Visible
    <3>2. ASSUME NEW f \in Event, ApiInsert(f)
          PROVE  row'[e] = row[e]
      <4>1. f # e
        BY <1>1, <1>3, <3>2 DEF ApiInsert, DispatchInv, ExistInv
      <4>2. QED
        BY <3>2, <4>1 DEF ApiInsert, DispatchInv, TypeOK
    <3>3. QED
      BY <3>1, <3>2, RowChanges
  <2>3. QED
    BY <1>2, <1>3, <2>1, <2>2 DEF GoodWrite
<1>4. ASSUME NEW t \in Tick, Claim(t), conn[t] = c, e \in Picked(t),
             write'[c][e] = Claimed(Visible(c, e))
      PROVE  GoodWrite(c, e)'
  <2>1. write[c][e] = NoRow
    <3>1. \A u \in Tick : conn[u] = c => u = t
      BY <1>4, DispatchAssumption DEF DispatchInv, ConnInv
    <3>2. pc[t] # "batch"
      BY <1>4 DEF Claim
    <3>3. QED
      BY <3>1, <3>2 DEF DispatchInv, LockInv
  <2>2. row[e] \in MaybeRow /\ write'[c][e] = Claimed(row[e])
    BY <1>4, <2>1 DEF Visible, DispatchInv, TypeOK
  <2>3. /\ write'[c][e].jobStatus = "PROCESSING"
        /\ write'[c][e].isPublished = row[e].isPublished
    BY <2>2, RowFacts
  <2>4. row' = row /\ emailed' = emailed
    BY <1>4 DEF Claim
  <2>5. QED
    BY <2>3, <2>4 DEF GoodWrite, DispatchInv, PublishedMeansEmailed
<1>5. ASSUME NEW t \in Tick, UpdateRow(t, e), conn[t] = c,
             write'[c][e] = Published(snap[t][e])
      PROVE  GoodWrite(c, e)'
  <2>1. snap[t][e] \in MaybeRow
    BY DEF DispatchInv, TypeOK
  <2>2. write'[c][e].jobStatus = "COMPLETED" /\ write'[c][e].isPublished = "YES"
    BY <1>5, <2>1, RowFacts
  <2>3. emailed'[e] >= 1
    BY <1>5 DEF UpdateRow, DispatchInv, EmailEvidence
  <2>4. QED
    BY <2>2, <2>3 DEF GoodWrite
<1>6. QED
  BY <1>1, <1>3, <1>4, <1>5, WriteChanges DEF DispatchInv

\* The invariant is inductive.
LEMMA InvInitial ==
  ASSUME Init
  PROVE  DispatchInv
<1>1. NoJob \in Job /\ NoJob.st = "none"
  BY DEF NoJob, Job, JobState
<1>2. TypeOK
  BY <1>1, RowFacts, NoWritesType
  DEF Init, TypeOK, QTypeOK, CallState, PcState
<1>3. \A e \in Event : NoWrites[e] = NoRow
  BY DEF NoWrites
<1>4. EmailEvidence
  BY <1>1 DEF Init, EmailEvidence
<1>5. PublishedMeansEmailed /\ StatusAgrees
  BY DEF Init, PublishedMeansEmailed, StatusAgrees, LegacyRow, NoRow
<1>6. ConnInv
  BY DEF Init, ConnInv, HasConn
<1>7. LockInv /\ WriteInv /\ CallInv /\ ExistInv
  BY <1>1, <1>3 DEF Init, LockInv, WriteInv, CallInv, ExistInv
<1>8. QED
  BY <1>2, <1>4, <1>5, <1>6, <1>7 DEF DispatchInv

LEMMA InvPreserved ==
  ASSUME DispatchInv, [Next]_vars
  PROVE  DispatchInv'
<1>1. TypeOK' /\ ConnInv' /\ LockInv' /\ CallInv'
  BY NextType, NextConn, NextLocks DEF DispatchInv
<1>2. EmailEvidence' /\ ExistInv'
  BY NextEvidence, NextExist DEF DispatchInv
<1>3. PublishedMeansEmailed' /\ StatusAgrees' /\ WriteInv'
  BY NextPublished, NextStatus, NextWrites
<1>4. QED
  BY <1>1, <1>2, <1>3 DEF DispatchInv

LEMMA InvHolds == Spec => []DispatchInv
  BY InvInitial, InvPreserved, PTL DEF Spec

-----------------------------------------------------------------------------
\* The types of the dispatcher's variables hold in every behaviour.
THEOREM DispatchTypeCorrect == Spec => []TypeOK
  BY InvHolds, PTL DEF DispatchInv

\* A committed row says it was published only if its email went out: for every
\* overlap of ticks and every fault (sendEmailEvent/index.ts, the order of the
\* reply and the UPDATE).
THEOREM PublishedImpliesEmailed == Spec => []PublishedMeansEmailed
  BY InvHolds, PTL DEF DispatchInv

\* jobStatus and isPublished of a committed row never contradict each other,
\* although two UPDATEs write them, one of them from a stale entity.
THEOREM StatusAlwaysAgrees == Spec => []StatusAgrees
  BY InvHolds, PTL DEF DispatchInv

\* A connection that goes back to the pool carries no write into the next use,
\* and two sessions never hold the same row (handleAsync of SendEmail/index.ts).
THEOREM LeakIsAlwaysHarmless == Spec => []LeakIsHarmless
<1>1. DispatchInv => LeakIsHarmless
  <2>1. SUFFICES ASSUME DispatchInv
                 PROVE  LeakIsHarmless
    OBVIOUS
  <2>2. ASSUME NEW c \in Conn, \A t \in Tick : conn[t] # c
        PROVE  write[c] = NoWrites
    <3>1. write[c] \in [Event -> MaybeRow]
      BY <2>1 DEF DispatchInv, TypeOK
    <3>2. \A e \in Event : write[c][e] = NoRow
      BY <2>1, <2>2 DEF DispatchInv, LockInv
    <3>3. QED
      BY <3>1, <3>2 DEF NoWrites
  <2>3. QED
    BY <2>1, <2>2 DEF LeakIsHarmless, DispatchInv, LockInv
<1>2. QED
  BY <1>1, InvHolds, PTL

\* No step takes a publication back, and no step makes a row that was claimed,
\* or that the API wrote, visible to the query again.
THEOREM NothingIsReopened == Spec => NeverReopened
<1> DEFINE Keeps(e) ==
      /\ row[e].isPublished = "YES" => row'[e].isPublished = "YES"
      /\ row[e] # NoRow /\ ~Claimable(row[e]) => ~Claimable(row'[e])
<1>1. ASSUME DispatchInv, [Next]_vars, NEW e \in Event
      PROVE  Keeps(e)
  <2>1. ASSUME NEW t \in Tick, Commit(t)
        PROVE  Keeps(e)
    BY <1>1, <2>1, CommittedRow DEF GoodWrite, Claimable
  <2>2. ASSUME NEW f \in Event, ApiInsert(f)
        PROVE  Keeps(e)
    <3>1. row'[e] = row[e] \/ row[e] = NoRow
      BY <1>1, <2>2 DEF ApiInsert, DispatchInv, TypeOK
    <3>2. NoRow.isPublished # "YES"
      BY DEF NoRow
    <3>3. QED
      BY <3>1, <3>2
  <2>3. QED
    BY <1>1, <2>1, <2>2, RowChanges
<1>2. DispatchInv /\ [Next]_vars => [\A e \in Event : Keeps(e)]_row
  BY <1>1
<1>3. QED
  BY <1>2, InvHolds, PTL DEF Spec, NeverReopened

-----------------------------------------------------------------------------
\* The dispatcher implements the contract of the outbox pattern.

\* A step of the dispatcher is a step of the contract, or changes nothing of it.
LEMMA StepRefines ==
  ASSUME DispatchInv, [Next]_vars
  PROVE  [Contract!ContractNext]_(Contract!contractVars)
<1> DEFINE committed == {e \in Event : row[e] # NoRow}
           published == {e \in Event : row[e].isPublished = "YES"}
<1>1. ASSUME NEW t \in Tick, Commit(t)
      PROVE  Contract!ContractNext
  <2>1. emailed' = emailed
    BY <1>1 DEF Commit, qvars
  <2>2. committed' = committed
    <3>1. \A e \in Event : row'[e] # NoRow <=> row[e] # NoRow
      BY <1>1, CommittedRow DEF Visible, DispatchInv, ExistInv
    <3>2. QED
      BY <3>1
  <2>3. \A e \in Event : row[e].isPublished = "YES" => row'[e].isPublished = "YES"
    BY <1>1, CommittedRow DEF GoodWrite
  <2>4. published' = published \union published'
    BY <2>3
  <2>5. \A e \in published' : e \in committed' /\ emailed[e] >= 1
    <3>1. ASSUME NEW e \in published'
          PROVE  emailed'[e] >= 1
      BY NextPublished DEF PublishedMeansEmailed
    <3>2. NoRow.isPublished # "YES"
      BY DEF NoRow
    <3>3. QED
      BY <2>1, <3>1, <3>2
  <2>6. PICK S \in SUBSET Event : S = published'
    OBVIOUS
  <2>7. Contract!MarkPublished(S)
    BY <2>1, <2>2, <2>4, <2>5, <2>6 DEF Contract!MarkPublished
  <2>8. QED
    BY <2>7 DEF Contract!ContractNext
<1>2. ASSUME NEW e \in Event, ApiInsert(e)
      PROVE  Contract!ContractNext
  <2>1. /\ row[e] = NoRow
        /\ row' = [row EXCEPT ![e] = ApiRow]
        /\ emailed' = emailed
    BY <1>2 DEF ApiInsert, qvars
  <2>2. ApiRow # NoRow /\ ApiRow.isPublished # "YES" /\ NoRow.isPublished # "YES"
    BY DEF ApiRow, NoRow
  <2>3. committed' = committed \union {e} /\ e \notin committed
    BY <2>1, <2>2 DEF DispatchInv, TypeOK
  <2>4. published' = published
    BY <2>1, <2>2 DEF DispatchInv, TypeOK
  <2>5. Contract!CommitEvent(e)
    BY <2>1, <2>3, <2>4 DEF Contract!CommitEvent
  <2>6. QED
    BY <2>5 DEF Contract!ContractNext
<1>3. CASE QueueStep /\ UNCHANGED tvars
  <2>1. row' = row
    BY <1>3 DEF tvars
  <2>2. CASE emailed' = emailed
    BY <2>1, <2>2 DEF Contract!contractVars
  <2>3. ASSUME NEW t \in Tick, NEW e \in Event, job[t][e].st # "none",
               emailed' = [emailed EXCEPT ![e] = @ + 1]
        PROVE  Contract!ContractNext
    <3>1. e \in committed
      BY <2>3 DEF DispatchInv, ExistInv
    <3>2. Contract!Deliver(e)
      BY <2>1, <2>3, <3>1 DEF Contract!Deliver
    <3>3. QED
      BY <3>2 DEF Contract!ContractNext
  <2>4. QED
    BY <1>3, <2>2, <2>3, QueueStepFrame DEF QueueFrame, DispatchInv, TypeOK
<1>4. CASE UNCHANGED <<row, emailed>>
  BY <1>4 DEF Contract!contractVars
<1>5. QED
  BY <1>1, <1>2, <1>3, <1>4
  DEF Next, DispatchStep, TickStep, PublishStep, Fire, Connect, Begin, BeginFails, List,
      ListEmpty, Claim, GetOutboxFails, UpdateRow, UpdateFails, CommitAborted, Release,
      ReapIdle, CronCrash, vars, qvars

\* Only committed events are emailed, they are marked only once they were, and
\* no mark is taken back: the cron process, the queue and the email worker
\* together implement OutboxContract, for every number of overlapping ticks.
THEOREM DispatchImplementsContract == Spec => KeepsContract
<1>1. Init => Contract!ContractInit
  BY DEF Init, Contract!ContractInit, LegacyRow, NoRow
<1>2. DispatchInv /\ [Next]_vars => [Contract!ContractNext]_(Contract!contractVars)
  BY StepRefines
<1>3. QED
  BY <1>1, <1>2, InvHolds, PTL DEF Spec, KeepsContract, Contract!ContractSpec

-----------------------------------------------------------------------------
\* What a claim becomes when only statements and the cron process fail.

\* No fault of the queue happens.
QueueIsSound ==
  Faults \intersect {"redis", "missedReply", "refuse", "throw", "consumer"} = {}

\* Every job that is asked for ends well.
JobsSucceed ==
  \A t \in Tick, e \in Event : job[t][e].st \in {"none", "waiting", "active", "sent", "ok"}

\* A publish call fails only with the transaction of its tick.
ErrAborts ==
  \A t \in Tick, e \in Event :
    pc[t] = "batch" /\ call[t][e] = "err" => txn[conn[t]] # "open"

\* A row that is claimed and no more is one that its tick still has to publish.
StillToDo ==
  \A t \in Tick, e \in Event :
    pc[t] = "batch" /\ write[conn[t]][e].jobStatus = "PROCESSING" =>
      e \in Picked(t) /\ call[t][e] # "done"

ProvisionalInv == JobsSucceed /\ ErrAborts /\ StillToDo /\ ClaimIsProvisional

\* Jobs are refused and fail by faults of the queue only.
LEMMA NextJobs ==
  ASSUME QueueIsSound, TypeOK, JobsSucceed, [Next]_vars
  PROVE  JobsSucceed'
<1> USE DEF TypeOK, QTypeOK, JobsSucceed, Job
<1>1. CASE job' = job
  BY <1>1
<1>2. ASSUME NEW t \in Tick, Fire(t)
      PROVE  JobsSucceed'
  BY <1>2 DEF Fire, NoJob
<1>3. ASSUME NEW t \in Tick, NEW e \in Event, ProducerStep(t, e) \/ ConsumerStep(t, e)
      PROVE  JobsSucceed'
  <2>1. ~RecoverStalled(t, e)
    BY DEF RecoverStalled, JobIs
  <2>2. \/ job' = job
        \/ \E s \in {"waiting", "active", "sent", "ok"} :
             \E j \in Job : j.st = s /\ job' = [job EXCEPT ![t][e] = j]
    <3>1. CASE Add(t, e)
      BY <3>1, NewJobType DEF Add, SetJob, NewJob, NoJob
    <3>2. CASE TakeJob(t, e) \/ SendEmail(t, e) \/ CompleteJob(t, e)
      <4>1. PICK s \in {"active", "sent", "ok"} : job' = [job EXCEPT ![t][e] = [job[t][e] EXCEPT !.st = s]]
        BY <3>2 DEF TakeJob, SendEmail, CompleteJob, SetJob, JobTo
      <4>2. [job[t][e] EXCEPT !.st = s] \in Job /\ [job[t][e] EXCEPT !.st = s].st = s
        <5>1. job[t][e] \in Job /\ s \in JobState
          BY DEF JobState, Finished
        <5>2. QED
          BY <5>1
      <4>3. QED
        BY <4>1, <4>2
    <3>3. CASE Wait(t, e) \/ ReplyOk(t, e) \/ ReplyError(t, e)
      BY <3>3 DEF Wait, ReplyOk, ReplyError
    <3>4. QED
      BY <1>3, <2>1, <3>1, <3>2, <3>3 DEF ProducerStep, ConsumerStep
  <2>3. ASSUME NEW s \in {"waiting", "active", "sent", "ok"}, NEW j \in Job, j.st = s,
               job' = [job EXCEPT ![t][e] = j], NEW u \in Tick, NEW f \in Event
        PROVE  job'[u][f].st \in {"none", "waiting", "active", "sent", "ok"}
    <3>1. job'[u][f] = IF u = t /\ f = e THEN j ELSE job[u][f]
      BY <2>3
    <3>2. QED
      BY <2>3, <3>1
  <2>4. QED
    BY <2>2, <2>3
<1>4. ASSUME NEW t \in Tick, NEW e \in Event, CallFault(t, e) \/ ConsumerCrash
      PROVE  FALSE
  BY <1>4 DEF CallFault, AddFails, MissReply, RefuseJob, ThrowJob, ConsumerCrash, Fault,
     QueueIsSound
<1>5. CASE QueueStep
  <2>1. CASE ConsumerCrash
    BY <2>1 DEF ConsumerCrash, Fault, QueueIsSound
  <2>2. CASE ConsumerRestart
    BY <2>2, <1>1 DEF ConsumerRestart
  <2>3. QED
    BY <1>3, <1>4, <1>5, <2>1, <2>2 DEF QueueStep
<1>6. QED
  BY <1>1, <1>2, <1>5
  DEF Next, DispatchStep, TickStep, PublishStep, Connect, Begin, BeginFails, List,
      ListEmpty, Claim, GetOutboxFails, UpdateRow, UpdateFails, Commit, CommitAborted,
      Release, ReapIdle, CronCrash, ApiInsert, vars, qvars

\* How the calls of a tick in its batch may end.
CallMoves(t, e) ==
  \/ call'[t][e] = call[t][e]
  \/ call'[t][e] \in {"added", "waiting", "ok"}
  \/ UpdateRow(t, e)
  \/ UpdateFails(t, e)

\* A tick that is in its batch after a step was in it before, with the same
\* connection, entities and, unless it ended, transaction; or it has claimed.
LEMMA BatchFrame ==
  ASSUME QueueIsSound, TypeOK, ConnInv, JobsSucceed, [Next]_vars,
         NEW t \in Tick, pc'[t] = "batch"
  PROVE  \/ Claim(t)
         \/ /\ pc[t] = "batch" /\ conn'[t] = conn[t] /\ snap'[t] = snap[t]
            /\ txn'[conn[t]] = "open" => txn[conn[t]] = "open"
            /\ \A e \in Event : CallMoves(t, e)
<1> USE DEF TypeOK, QTypeOK
<1> DEFINE Framed == /\ pc[t] = "batch" /\ conn'[t] = conn[t] /\ snap'[t] = snap[t]
                     /\ txn'[conn[t]] = "open" => txn[conn[t]] = "open"
                     /\ \A e \in Event : CallMoves(t, e)
<1>1. ASSUME NEW u \in Tick, Fire(u) \/ TickStep(u), ~Claim(t)
      PROVE  Framed
  <2>1. u # t
    BY <1>1 DEF Fire, TickStep, Connect, Begin, BeginFails, List, ListEmpty, Claim,
       GetOutboxFails, Commit, CommitAborted, Release, Goto
  <2>2. /\ pc[t] = "batch" /\ conn'[t] = conn[t] /\ snap'[t] = snap[t]
        /\ call'[t] = call[t]
    BY <1>1, <2>1 DEF Fire, TickStep, Connect, Begin, BeginFails, List, ListEmpty, Claim,
       GetOutboxFails, Commit, CommitAborted, Release, Goto, qvars
  <2>3. txn'[conn[t]] = txn[conn[t]]
    <3>1. conn[t] \in Conn
      BY <2>2, HoldsConn
    <3>2. pc[u] \in {"begin", "list", "claim", "batch", "release"} => conn[u] \in Conn
      BY HoldsConn
    <3>3. conn[u] = conn[t] => u = t
      BY <3>1, DispatchAssumption DEF ConnInv
    <3>4. QED
      BY <1>1, <2>1, <3>1, <3>2, <3>3 DEF Fire, TickStep, Connect, Begin, BeginFails, List,
         ListEmpty, Claim, GetOutboxFails, Commit, CommitAborted, Release, EndTxn
  <2>4. QED
    BY <2>2, <2>3 DEF CallMoves
<1>2. ASSUME NEW u \in Tick, NEW f \in Event, PublishStep(u, f)
      PROVE  Framed
  <2>1. /\ pc[t] = "batch" /\ conn'[t] = conn[t] /\ snap'[t] = snap[t]
        /\ \A e \in Event : (u # t \/ f # e) => call'[t][e] = call[t][e]
    <3>1. pc' = pc /\ conn' = conn /\ snap' = snap /\ \E s \in CallState : SetCall(u, f, s)
      BY <1>2 DEF PublishStep, UpdateRow, UpdateFails, CallState
    <3>2. QED
      BY <3>1 DEF SetCall
  <2>2. conn[u] \in Conn
    BY <1>2, HoldsConn DEF PublishStep, UpdateRow, UpdateFails
  <2>3. txn' = txn \/ txn' = [txn EXCEPT ![conn[u]] = "aborted"]
    BY <1>2 DEF PublishStep, UpdateRow, UpdateFails, EndTxn
  <2>4. conn[t] \in Conn
    BY <2>1, HoldsConn
  <2>5. txn'[conn[t]] = "open" => txn[conn[t]] = "open"
    BY <2>2, <2>3, <2>4
  <2>6. \A e \in Event : CallMoves(t, e)
    BY <1>2, <2>1 DEF PublishStep, CallMoves
  <2>7. QED
    BY <2>1, <2>5, <2>6
<1>3. ASSUME NEW c \in Conn, ReapIdle(c)
      PROVE  Framed
  <2>1. /\ pc[t] = "batch" /\ conn'[t] = conn[t] /\ snap'[t] = snap[t] /\ call' = call
    BY <1>3 DEF ReapIdle, qvars
  <2>2. conn[t] # c /\ conn[t] \in Conn /\ txn' = [txn EXCEPT ![c] = "none"]
    BY <1>3, <2>1, HoldsConn DEF ReapIdle, EndTxn
  <2>3. QED
    BY <2>1, <2>2 DEF CallMoves
<1>4. CASE CronCrash
  BY <1>4 DEF CronCrash
<1>5. CASE QueueStep /\ UNCHANGED tvars
  <2>1. ASSUME NEW u \in Tick, NEW f \in Event,
               ProducerStep(u, f) \/ ConsumerStep(u, f) \/ CallFault(u, f)
        PROVE  \A e \in Event : CallMoves(t, e)
    <3>1. ~CallFault(u, f) /\ ~ReplyError(u, f)
      BY DEF CallFault, AddFails, MissReply, RefuseJob, ThrowJob, Fault, QueueIsSound,
             ReplyError, JobsSucceed
    <3>2. call' = call \/ \E s \in {"added", "waiting", "ok"} : SetCall(u, f, s)
      BY <2>1, <3>1 DEF ProducerStep, ConsumerStep, Add, Wait, ReplyOk, TakeJob, SendEmail,
         CompleteJob, RecoverStalled
    <3>3. ASSUME NEW s \in {"added", "waiting", "ok"}, SetCall(u, f, s), NEW e \in Event
          PROVE  CallMoves(t, e)
      <4>1. call'[t][e] = IF u = t /\ f = e THEN s ELSE call[t][e]
        BY <3>3 DEF SetCall
      <4>2. QED
        BY <4>1 DEF CallMoves
    <3>4. QED
      BY <3>2, <3>3 DEF CallMoves
  <2>2. ASSUME ConsumerCrash \/ ConsumerRestart
        PROVE  \A e \in Event : CallMoves(t, e)
    BY <2>2 DEF ConsumerCrash, ConsumerRestart, CallMoves
  <2>3. \A e \in Event : CallMoves(t, e)
    BY <1>5, <2>1, <2>2 DEF QueueStep
  <2>4. QED
    BY <1>5, <2>3 DEF tvars
<1>6. CASE UNCHANGED <<txn, pc, conn, snap, call>>
  BY <1>6 DEF CallMoves
<1>7. QED
  BY <1>1, <1>2, <1>3, <1>4, <1>5, <1>6 DEF Next, DispatchStep, ApiInsert, vars, qvars

\* Each step keeps the tie between claims, calls and transactions.
LEMMA NextProvisional ==
  ASSUME QueueIsSound, DispatchInv, DispatchInv', ProvisionalInv, [Next]_vars
  PROVE  ProvisionalInv'
<1> USE DEF ProvisionalInv
<1>0. TypeOK /\ ConnInv /\ LockInv /\ TypeOK'
  BY DEF DispatchInv
<1>1. JobsSucceed'
  BY <1>0, NextJobs
<1>2. ErrAborts'
  <2>1. SUFFICES ASSUME NEW t \in Tick, NEW e \in Event, pc'[t] = "batch", call'[t][e] = "err"
                 PROVE  txn'[conn'[t]] # "open"
    BY DEF ErrAborts
  <2>2. ~Claim(t)
    BY <2>1, <1>0 DEF Claim, TypeOK, QTypeOK
  <2>3. /\ pc[t] = "batch" /\ conn'[t] = conn[t] /\ CallMoves(t, e)
        /\ txn'[conn[t]] = "open" => txn[conn[t]] = "open"
    BY <2>1, <2>2, <1>0, BatchFrame
  <2>4. CASE call'[t][e] = call[t][e]
    BY <2>1, <2>3, <2>4 DEF ErrAborts
  <2>5. CASE UpdateFails(t, e)
    BY <2>3, <2>5, <1>0, HoldsConn DEF UpdateFails, EndTxn, TypeOK
  <2>6. CASE UpdateRow(t, e)
    BY <2>1, <2>6, <1>0 DEF UpdateRow, SetCall, TypeOK, QTypeOK
  <2>7. QED
    BY <2>1, <2>3, <2>4, <2>5, <2>6 DEF CallMoves
<1>3. StillToDo'
  <2>1. SUFFICES ASSUME NEW t \in Tick, NEW e \in Event, pc'[t] = "batch",
                        write'[conn'[t]][e].jobStatus = "PROCESSING"
                 PROVE  e \in Picked(t)' /\ call'[t][e] # "done"
    BY DEF StillToDo
  <2>2. NoRow.jobStatus # "PROCESSING"
    BY DEF NoRow
  <2>3. CASE Claim(t)
    <3>1. conn'[t] = conn[t] /\ conn[t] \in Conn /\ snap' = snap
      BY <2>3, <1>0, HoldsConn DEF Claim
    <3>2. write[conn[t]][e] = NoRow
      <4>1. \A u \in Tick : conn[u] = conn[t] => u = t
        BY <3>1, <1>0, DispatchAssumption DEF ConnInv
      <4>2. pc[t] # "batch"
        BY <2>3 DEF Claim
      <4>3. QED
        BY <3>1, <4>1, <4>2, <1>0 DEF LockInv
    <3>3. e \in Picked(t)
      BY <2>1, <2>2, <2>3, <3>1, <3>2, <1>0 DEF Claim, TypeOK
    <3>4. call'[t][e] = "todo"
      BY <2>3, <3>3, <1>0 DEF Claim, TypeOK, QTypeOK
    <3>5. QED
      BY <3>1, <3>3, <3>4 DEF Picked
  <2>4. CASE ~Claim(t)
    <3>1. /\ pc[t] = "batch" /\ conn'[t] = conn[t] /\ snap'[t] = snap[t] /\ CallMoves(t, e)
      BY <2>1, <2>4, <1>0, BatchFrame
    <3>2. conn[t] \in Conn
      BY <3>1, <1>0, HoldsConn
    <3>3. write'[conn[t]][e] = write[conn[t]][e]
      <4>1. SUFFICES ASSUME write'[conn[t]][e] # write[conn[t]][e] PROVE FALSE
        OBVIOUS
      <4>2. write'[conn[t]][e] # NoRow
        BY <2>1, <2>2, <3>1
      <4>3. ASSUME NEW u \in Tick, Claim(u), conn[u] = conn[t] PROVE FALSE
        BY <4>3, <3>1, <3>2, <1>0, DispatchAssumption DEF Claim, ConnInv
      <4>4. ASSUME NEW u \in Tick, write'[conn[t]][e] = Published(snap[u][e]) PROVE FALSE
        BY <2>1, <3>1, <4>4 DEF Published
      <4>5. QED
        BY <3>2, <4>1, <4>2, <4>3, <4>4, <1>0, WriteChanges
    <3>4. e \in Picked(t) /\ call[t][e] # "done"
      BY <2>1, <3>1, <3>3 DEF StillToDo
    <3>5. ~UpdateRow(t, e)
      BY <2>1, <3>1, <3>2, <1>0 DEF UpdateRow, Published, TypeOK
    <3>6. call'[t][e] # "done"
      BY <3>1, <3>4, <3>5, <1>0 DEF CallMoves, UpdateFails, SetCall, TypeOK, QTypeOK
    <3>7. QED
      BY <3>1, <3>4, <3>6 DEF Picked
  <2>5. QED
    BY <2>3, <2>4
<1>4. ClaimIsProvisional'
  <2>1. SUFFICES ASSUME NEW e \in Event PROVE row'[e].jobStatus # "PROCESSING"
    BY DEF ClaimIsProvisional
  <2>2. row[e].jobStatus # "PROCESSING"
    BY DEF ClaimIsProvisional
  <2>3. ASSUME NEW t \in Tick, Commit(t) PROVE row'[e].jobStatus # "PROCESSING"
    <3>1. conn[t] \in Conn /\ (row'[e] = row[e] \/ row'[e] = write[conn[t]][e])
      BY <2>3, CommittedRow
    <3>2. pc[t] = "batch" /\ BatchOver(t) /\ txn[conn[t]] = "open"
      BY <2>3 DEF Commit
    <3>3. write[conn[t]][e].jobStatus # "PROCESSING"
      BY <3>2 DEF StillToDo, BatchOver, ErrAborts
    <3>4. QED
      BY <2>2, <3>1, <3>3
  <2>4. ASSUME NEW f \in Event, ApiInsert(f) PROVE row'[e].jobStatus # "PROCESSING"
    BY <2>2, <2>4, <1>0 DEF ApiInsert, ApiRow, TypeOK
  <2>5. QED
    BY <2>2, <2>3, <2>4, RowChanges
<1>5. QED
  BY <1>1, <1>2, <1>3, <1>4

\* As long as only statements of the database and the cron process fail, no
\* commit leaves a row claimed and unpublished: the call that fails takes the
\* whole transaction with it (SendEmail/index.ts:77-93).
THEOREM ClaimsAreProvisional ==
  ASSUME QueueIsSound
  PROVE  Spec => []ClaimIsProvisional
<1>1. Init => ProvisionalInv
  BY DEF Init, ProvisionalInv, JobsSucceed, ErrAborts, StillToDo, ClaimIsProvisional,
         NoJob, LegacyRow, NoRow
<1>2. DispatchInv /\ DispatchInv' /\ ProvisionalInv /\ [Next]_vars => ProvisionalInv'
  BY NextProvisional
<1>3. ProvisionalInv => ClaimIsProvisional
  BY DEF ProvisionalInv
<1>4. QED
  BY <1>1, <1>2, <1>3, InvHolds, PTL DEF Spec

-----------------------------------------------------------------------------
\* One tick at a time, with faults of the reply path only.

OneAtATime == \A t, u \in Tick : t = u

OnlyRepliesFail == Faults \intersect {"db", "cron", "consumer"} = {}

\* The transaction of a tick in its batch is alive, and none is ever aborted.
NoAbort ==
  /\ \A c \in Conn : txn[c] # "aborted"
  /\ \A t \in Tick : pc[t] = "batch" => txn[conn[t]] = "open"

\* A tick publishes what it has claimed, and claims what can be claimed.
ClaimsFit ==
  \A t \in Tick, e \in Event :
    /\ call[t][e] = "todo" => pc[t] = "batch" /\ e \in Picked(t)
    /\ pc[t] = "batch" /\ e \in Picked(t) => call[t][e] # "none"
    /\ pc[t] = "claim" /\ e \in Picked(t) => Claimable(row[e])

\* A row that can be claimed, and whose tick is not at it, was never asked for;
\* and an email is sent by a job for an event without one.
AskedOnce ==
  \A t \in Tick, e \in Event :
    /\ job[t][e].st # "stalled"
    /\ job[t][e].st \in {"waiting", "active"} => emailed[e] = 0
    /\ call[t][e] = "todo" => emailed[e] = 0 /\ job[t][e].st = "none"
    /\ Claimable(row[e]) /\ ~(pc[t] = "batch" /\ e \in Picked(t)) =>
         emailed[e] = 0 /\ job[t][e].st = "none"

OnceInv == NoAbort /\ ClaimsFit /\ AskedOnce /\ EmailedOnce

\* The steps of the queue.
LEMMA OnceQueueStep ==
  ASSUME OneAtATime, OnlyRepliesFail, DispatchInv, OnceInv, QueueStep, UNCHANGED tvars
  PROVE  OnceInv'
<1> USE DEF OnceInv
<1>0. /\ call \in [Tick -> [Event -> CallState]] /\ job \in [Tick -> [Event -> Job]]
      /\ emailed \in [Event -> Nat]
      /\ row' = row /\ txn' = txn /\ pc' = pc /\ conn' = conn /\ snap' = snap
  BY DEF DispatchInv, TypeOK, QTypeOK, tvars
<1>1. NoAbort'
  BY <1>0 DEF NoAbort
<1>2. ASSUME NEW t \in Tick, NEW e \in Event,
             ProducerStep(t, e) \/ ConsumerStep(t, e) \/ CallFault(t, e)
      PROVE  OnceInv'
  <2>0. \A u \in Tick : u = t
    BY DEF OneAtATime
  <2>1. /\ call'[t][e] = call[t][e] \/ (call[t][e] # "none" /\ call'[t][e] \notin {"none", "todo"})
        /\ \A f \in Event \ {e} : call'[t][f] = call[t][f] /\ job'[t][f] = job[t][f]
        /\ \A f \in Event \ {e} : emailed'[f] = emailed[f]
    BY <1>0, <1>2 DEF ProducerStep, ConsumerStep, CallFault, Add, Wait, ReplyOk, ReplyError,
       TakeJob, SendEmail, CompleteJob, RecoverStalled, AddFails, MissReply, RefuseJob,
       ThrowJob, SetCall, SetJob, JobTo
  <2>2. ClaimsFit'
    BY <1>0, <2>0, <2>1 DEF ClaimsFit, Picked
  <2> DEFINE Quiet ==
         /\ emailed' = emailed
         /\ \/ job'[t][e].st = job[t][e].st
            \/ job'[t][e].st \in Finished /\ job[t][e].st # "none"
            \/ /\ job'[t][e].st \in {"waiting", "active"}
               /\ job[t][e].st \in {"waiting", "active"} \/ call[t][e] = "todo"
         /\ call'[t][e] # "todo" \/ job'[t][e].st = job[t][e].st
  <2>3. Quiet => (AskedOnce /\ EmailedOnce)'
    <3>0. call[t][e] = "todo" => pc[t] = "batch" /\ e \in Picked(t)
      BY DEF ClaimsFit
    <3>1. Quiet => EmailedOnce'
      BY DEF EmailedOnce
    <3>2. Quiet => AskedOnce'
      BY <1>0, <2>0, <2>1, <3>0 DEF AskedOnce, Picked, Finished
    <3>3. QED
      BY <3>1, <3>2
  <2> HIDE DEF Quiet
  <2>5. CASE Add(t, e) \/ AddFails(t, e)
    <3>1. emailed' = emailed /\ call[t][e] = "todo" /\ call'[t][e] # "todo"
      BY <1>0, <2>5 DEF Add, AddFails, SetCall
    <3>2. job'[t][e].st = job[t][e].st \/ job'[t][e].st = "waiting"
      BY <1>0, <2>5 DEF Add, AddFails, SetJob, NewJob, NoJob
    <3>3. QED
      BY <1>1, <2>2, <2>3, <3>1, <3>2 DEF Quiet
  <2>6. CASE Wait(t, e) \/ MissReply(t, e) \/ ReplyOk(t, e) \/ ReplyError(t, e)
    <3>1. emailed' = emailed /\ job' = job
      BY <2>6 DEF Wait, MissReply, ReplyOk, ReplyError
    <3>2. QED
      BY <1>1, <2>2, <2>3, <3>1 DEF Quiet
  <2>7. CASE TakeJob(t, e) \/ CompleteJob(t, e) \/ RefuseJob(t, e) \/ ThrowJob(t, e)
    <3>0. job[t][e].st # "none" /\ call' = call /\ emailed' = emailed
      BY <2>7 DEF TakeJob, CompleteJob, RefuseJob, ThrowJob, JobIs
    <3>1. call[t][e] # "todo"
      BY <3>0 DEF AskedOnce
    <3>2. \/ job'[t][e].st \in {"ok", "refused", "failed"}
          \/ /\ job'[t][e].st \in {"waiting", "active"}
             /\ job[t][e].st \in {"waiting", "active"}
      BY <1>0, <2>7 DEF TakeJob, CompleteJob, RefuseJob, ThrowJob, JobIs, JobTo, SetJob, Job
    <3>3. QED
      BY <1>1, <2>2, <2>3, <3>0, <3>1, <3>2 DEF Quiet, Finished
  <2>8. CASE SendEmail(t, e)
    <3>1. job[t][e].st = "active" /\ job'[t][e].st = "sent" /\ call' = call
      BY <1>0, <2>8 DEF SendEmail, JobIs, JobTo, SetJob, Job
    <3>2. emailed[e] = 0 /\ emailed' = [emailed EXCEPT ![e] = emailed[e] + 1]
      BY <2>8, <3>1 DEF SendEmail, AskedOnce
    <3>3. /\ emailed'[e] = 1
          /\ \A f \in Event \ {e} : emailed'[f] = emailed[f]
      BY <1>0, <3>2
    <3>4. EmailedOnce'
      BY <3>3 DEF EmailedOnce
    <3>5. call[t][e] # "todo" /\ ~(Claimable(row[e]) /\ ~(pc[t] = "batch" /\ e \in Picked(t)))
      BY <3>1 DEF AskedOnce
    <3>6. ASSUME NEW f \in Event
          PROVE  /\ job'[t][f].st # "stalled"
                 /\ job'[t][f].st \in {"waiting", "active"} => emailed'[f] = 0
                 /\ call[t][f] = "todo" => emailed'[f] = 0 /\ job'[t][f].st = "none"
                 /\ Claimable(row[f]) /\ ~(pc[t] = "batch" /\ f \in Picked(t)) =>
                      emailed'[f] = 0 /\ job'[t][f].st = "none"
      <4>1. CASE f = e
        BY <3>1, <3>5, <4>1
      <4>2. CASE f # e
        BY <2>1, <3>3, <4>2 DEF AskedOnce
      <4>3. QED
        BY <4>1, <4>2
    <3>7. AskedOnce'
      BY <1>0, <2>0, <3>1, <3>6 DEF AskedOnce, Picked
    <3>8. QED
      BY <1>1, <2>2, <3>4, <3>7
  <2>9. ~RecoverStalled(t, e)
    BY DEF RecoverStalled, JobIs, AskedOnce
  <2>10. QED
    BY <1>2, <2>5, <2>6, <2>7, <2>8, <2>9 DEF ProducerStep, ConsumerStep, CallFault
<1>3. ~ConsumerCrash
  BY DEF ConsumerCrash, Fault, OnlyRepliesFail
<1>4. CASE ConsumerRestart
  BY <1>0, <1>1, <1>4 DEF ConsumerRestart, ClaimsFit, AskedOnce, EmailedOnce, Picked
<1>5. QED
  BY <1>2, <1>3, <1>4 DEF QueueStep

\* The steps of the tick, of the pool and of the API.
LEMMA OnceDispatchStep ==
  ASSUME OneAtATime, OnlyRepliesFail, DispatchInv, OnceInv,
         DispatchStep \/ \E e \in Event : ApiInsert(e)
  PROVE  OnceInv'
<1> USE DEF OnceInv
<1>0. /\ call \in [Tick -> [Event -> CallState]] /\ job \in [Tick -> [Event -> Job]]
      /\ emailed \in [Event -> Nat] /\ row \in [Event -> MaybeRow]
      /\ txn \in [Conn -> {"none", "open", "aborted"}]
      /\ write \in [Conn -> [Event -> MaybeRow]]
      /\ pc \in [Tick -> PcState]
      /\ conn \in [Tick -> Conn \union {NoConn}]
      /\ snap \in [Tick -> [Event -> MaybeRow]]
      /\ ConnInv /\ LockInv /\ CallInv /\ WriteInv
  BY DEF DispatchInv, TypeOK, QTypeOK
<1>k. ~Fault("db") /\ ~Fault("cron")
  BY DEF Fault, OnlyRepliesFail
<1>n. NoRow.jobStatus = "ABSENT" /\ ~Claimable(NoRow) /\ ~Claimable(ApiRow)
  BY DEF NoRow, ApiRow, Claimable, Null, Instance
<1>1. ASSUME NEW t \in Tick, Fire(t) \/ TickStep(t) PROVE OnceInv'
  <2>0. \A u \in Tick : u = t
    BY DEF OneAtATime
  <2>c. pc[t] \in {"begin", "list", "claim", "batch", "release"} => conn[t] \in Conn
    BY <1>0, HoldsConn
  <2>w. pc[t] # "batch" => \A c \in Conn, e \in Event : write[c][e] = NoRow
    BY <1>0, <2>0 DEF LockInv
  <2>1. CASE Fire(t)
    <3>1. /\ UNCHANGED <<row, txn, conn, snap, call, emailed>>
          /\ pc[t] = "off" /\ pc'[t] = "connect"
          /\ \A e \in Event : job'[t][e].st = "none"
      BY <1>0, <2>1 DEF Fire, Goto, NoJob
    <3>2. QED
      BY <2>0, <3>1 DEF NoAbort, ClaimsFit, AskedOnce, EmailedOnce, Picked
  <2>2. CASE Connect(t) \/ Begin(t) \/ ListEmpty(t)
    <3>1. /\ UNCHANGED <<row, snap, call, job, emailed>>
          /\ pc[t] \in {"connect", "begin", "list"} /\ pc'[t] \in {"begin", "list", "release"}
          /\ \A c \in Conn : txn'[c] # "aborted"
      BY <1>0, <2>2, <2>c DEF Connect, Begin, ListEmpty, Goto, qvars, NoAbort
    <3>2. QED
      BY <2>0, <3>1 DEF NoAbort, ClaimsFit, AskedOnce, EmailedOnce, Picked
  <2>3. CASE List(t)
    <3>1. /\ UNCHANGED <<row, txn, call, job, emailed>>
          /\ pc[t] = "list" /\ pc'[t] = "claim"
      BY <1>0, <2>3 DEF List, Goto, qvars
    <3>2. \A e \in Event : snap'[t][e] # NoRow => Claimable(row[e])
      <4>1. PICK P \in FirstRows(FoundRows(conn[t])) :
              snap' = [snap EXCEPT ![t] = [e \in Event |-> IF e \in P THEN Visible(conn[t], e) ELSE NoRow]]
        BY <2>3 DEF List
      <4>2. \A e \in P : Claimable(Visible(conn[t], e))
        BY <4>1 DEF FirstRows, FoundRows
      <4>3. \A e \in Event : Visible(conn[t], e) = row[e]
        BY <2>c, <2>w, <3>1 DEF Visible
      <4>4. QED
        BY <1>0, <4>1, <4>2, <4>3
    <3>3. QED
      BY <2>0, <3>1, <3>2 DEF NoAbort, ClaimsFit, AskedOnce, EmailedOnce, Picked
  <2>4. CASE Claim(t)
    <3>1. /\ UNCHANGED <<row, txn, snap, job, emailed, conn>>
          /\ pc[t] = "claim" /\ pc'[t] = "batch"
          /\ \A e \in Event : call'[t][e] = IF e \in Picked(t) THEN "todo" ELSE "none"
      BY <1>0, <2>4 DEF Claim, Goto
    <3>2. txn[conn[t]] = "open"
      BY <1>0, <3>1 DEF ConnInv
    <3>3. QED
      BY <2>0, <3>1, <3>2 DEF NoAbort, ClaimsFit, AskedOnce, EmailedOnce, Picked
  <2>5. CASE Commit(t)
    <3>1. /\ UNCHANGED <<snap, call, job, emailed>>
          /\ pc[t] = "batch" /\ pc'[t] = "release"
          /\ \A e \in Event : e \in Picked(t) => call[t][e] \in {"done", "err"}
          /\ \A c \in Conn : txn'[c] # "aborted"
      BY <1>0, <2>5, <2>c DEF Commit, Goto, qvars, BatchOver, EndTxn, NoAbort
    <3>2. \A e \in Event : Claimable(row'[e]) => row'[e] = row[e] /\ e \notin Picked(t)
      <4>1. SUFFICES ASSUME NEW e \in Event, Claimable(row'[e])
                     PROVE  row'[e] = row[e] /\ e \notin Picked(t)
        OBVIOUS
      <4>2. row'[e] = row[e] /\ write[conn[t]][e] = NoRow
        BY <2>5, <4>1, CommittedRow DEF GoodWrite, Claimable
      <4>3. call[t][e] = "none"
        BY <1>0, <3>1, <4>2 DEF CallInv, NoAbort
      <4>4. QED
        BY <3>1, <4>2, <4>3
    <3>3. QED
      BY <2>0, <3>1, <3>2 DEF NoAbort, ClaimsFit, AskedOnce, EmailedOnce, Picked
  <2>6. CASE Release(t)
    <3>1. /\ UNCHANGED <<row, txn, job, emailed>>
          /\ pc[t] = "release" /\ pc'[t] = "off"
          /\ \A e \in Event : call'[t][e] = "none"
      BY <1>0, <2>6 DEF Release, Goto
    <3>2. QED
      BY <2>0, <3>1 DEF NoAbort, ClaimsFit, AskedOnce, EmailedOnce, Picked
  <2>7. ~BeginFails(t) /\ ~GetOutboxFails(t) /\ ~CommitAborted(t)
    BY <1>k, <2>c DEF BeginFails, GetOutboxFails, CommitAborted, NoAbort
  <2>8. QED
    BY <1>1, <2>1, <2>2, <2>3, <2>4, <2>5, <2>6, <2>7 DEF TickStep
<1>2. ASSUME NEW t \in Tick, NEW e \in Event, PublishStep(t, e) PROVE OnceInv'
  <2>0. \A u \in Tick : u = t
    BY DEF OneAtATime
  <2>1. UpdateRow(t, e)
    BY <1>2, <1>k, <1>0, HoldsConn DEF PublishStep, UpdateFails, NoAbort
  <2>2. /\ UNCHANGED <<row, txn, pc, conn, snap, job, emailed>>
        /\ call[t][e] # "none" /\ call'[t][e] = "done"
        /\ \A f \in Event \ {e} : call'[t][f] = call[t][f]
    BY <1>0, <2>1 DEF UpdateRow, SetCall
  <2>3. QED
    BY <2>0, <2>2 DEF NoAbort, ClaimsFit, AskedOnce, EmailedOnce, Picked
<1>3. ASSUME NEW c \in Conn, ReapIdle(c) PROVE OnceInv'
  <2>1. /\ UNCHANGED <<row, pc, conn, snap, call, job, emailed>>
        /\ \A d \in Conn : txn'[d] = IF d = c THEN "none" ELSE txn[d]
        /\ \A t \in Tick : conn[t] # c
    BY <1>0, <1>3 DEF ReapIdle, EndTxn, qvars
  <2>2. NoAbort'
    BY <1>0, <2>1, HoldsConn DEF NoAbort
  <2>3. QED
    BY <2>1, <2>2 DEF ClaimsFit, AskedOnce, EmailedOnce, Picked
<1>4. ~CronCrash
  BY <1>k DEF CronCrash
<1>5. ASSUME NEW f \in Event, ApiInsert(f) PROVE OnceInv'
  <2>1. /\ UNCHANGED <<txn, pc, conn, snap, call, job, emailed>>
        /\ row[f] = NoRow
        /\ \A e \in Event : row'[e] = IF e = f THEN ApiRow ELSE row[e]
    BY <1>0, <1>5 DEF ApiInsert, qvars
  <2>2. QED
    BY <1>n, <2>1 DEF NoAbort, ClaimsFit, AskedOnce, EmailedOnce, Picked
<1>6. QED
  BY <1>1, <1>2, <1>3, <1>4, <1>5 DEF DispatchStep

\* With one tick at a time, refusals, exceptions of the processor, missed replies
\* and failing queue commands never send an email twice: a row whose publication
\* failed is not claimed again (getOutBox/index.ts:87-97).
THEOREM AtMostOneEmail ==
  ASSUME OneAtATime, OnlyRepliesFail
  PROVE  Spec => []EmailedOnce
<1>1. Init => OnceInv
  <2> SUFFICES ASSUME Init PROVE OnceInv
    OBVIOUS
  <2>1. \A t \in Tick, e \in Event : snap[t][e] = NoRow /\ job[t][e].st = "none"
    BY DEF Init, NoWrites, NoJob
  <2>2. QED
    BY <2>1 DEF Init, OnceInv, NoAbort, ClaimsFit, AskedOnce, EmailedOnce, Picked
<1>2. DispatchInv /\ OnceInv /\ [Next]_vars => OnceInv'
  <2>1. OnceInv /\ UNCHANGED vars => OnceInv'
    BY DEF OnceInv, NoAbort, ClaimsFit, AskedOnce, EmailedOnce, Picked, vars, qvars
  <2>2. QED
    BY <2>1, OnceQueueStep, OnceDispatchStep DEF Next
<1>3. OnceInv => EmailedOnce
  BY DEF OnceInv
<1>4. QED
  BY <1>1, <1>2, <1>3, InvHolds, PTL DEF Spec
=============================================================================
