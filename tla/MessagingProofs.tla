--------------------------- MODULE MessagingProofs ---------------------------
(***************************************************************************)
(* Proofs about the helpers for messages: Kafka, RabbitMQ and the jobs of  *)
(* BullMQ queues.                                                          *)
(***************************************************************************)
EXTENDS KafkaDelivery, RabbitDelivery, RabbitRequestReply, BullMqJobs, FiniteSetTheorems,
        TLAPS

-----------------------------------------------------------------------------
(***************************************************************************)
(* Proofs about the Kafka helpers, for every number of messages, attempts  *)
(* and faults: entries are handled in the order of the partition, and      *)
(* producer, partition and consumer are a channel that delivers at least   *)
(* once, although every call disconnects the producer the others use.      *)
(*                                                                         *)
(* The argument: a call is past its send only when its message is in the   *)
(* log (SentIsLogged), the consumer has been through no entry it has not   *)
(* handled (InOrder), and the committed offset is not ahead of it.         *)
(***************************************************************************)

\* What the variables may be, with the consumer inside the log.
KTypeOK ==
  /\ kcall \in [KMsg -> KCallState]
  /\ ktries \in [KMsg -> Nat]
  /\ log \in Seq(KMsg \union {NoValue})
  /\ position \in 0..Len(log)
  /\ offset \in 0..position
  /\ kfailed \in Nat
  /\ kdone \subseteq 1..Len(log)
  /\ kfaults \in Nat

\* The consumer has nothing to do any more at entry i.
Settled(i) == i \in kdone \/ log[i] = NoValue

InOrder ==
  /\ \A i \in 1..position : Settled(i)
  /\ \A j \in kdone : log[j] # NoValue /\ \A i \in 1..j : Settled(i)

SentIsLogged ==
  \A m \in KMsg : kcall[m] \in {"close", "sent"} => \E i \in 1..Len(log) : log[i] = m

KInv == KTypeOK /\ InOrder /\ SentIsLogged

-----------------------------------------------------------------------------
\* A step of a producer's method leaves the consumer alone and adds at most its
\* own message to the log.
LEMMA ProducerStep ==
  ASSUME KInv, NEW m \in KMsg, SameConsumer,
         log' \in {log, Append(log, m)}, kfaults' \in Nat,
         NEW s \in KCallState, kcall' = [kcall EXCEPT ![m] = s],
         ktries' \in [KMsg -> Nat],
         s \in {"close", "sent"} => log' = Append(log, m) \/ kcall[m] = "close"
  PROVE  KInv'
<1> USE DEF KInv, SameConsumer
<1>1. /\ Len(log) \in Nat /\ Len(log') \in Nat /\ Len(log) <= Len(log')
      /\ log' \in Seq(KMsg \union {NoValue})
      /\ \A i \in 1..Len(log) : log'[i] = log[i] /\ i \in 1..Len(log')
  <2>1. CASE log' = log
    BY <2>1 DEF KTypeOK
  <2>2. CASE log' = Append(log, m)
    <3>1. /\ Len(log) \in Nat /\ Len(log') = Len(log) + 1
          /\ log' \in Seq(KMsg \union {NoValue})
          /\ \A i \in 1..Len(log) : log'[i] = log[i]
      BY <2>2 DEF KTypeOK
    <3>2. QED
      BY <3>1
  <2>3. QED
    BY <2>1, <2>2
<1>2. position \in 0..Len(log) /\ offset \in 0..position /\ kdone \subseteq 1..Len(log)
  BY DEF KTypeOK
<1>3. KTypeOK'
  <2>1. position' \in 0..Len(log') /\ offset' \in 0..position' /\ kdone' \subseteq 1..Len(log')
    BY <1>1, <1>2
  <2>2. QED
    BY <1>1, <2>1 DEF KTypeOK
<1>4. InOrder'
  <2>1. \A i \in 1..position : i \in 1..Len(log)
    BY <1>1, <1>2
  <2>2. \A j \in kdone : \A i \in 1..j : i \in 1..Len(log)
    BY <1>1, <1>2
  <2>3. \A i \in 1..Len(log) : Settled(i) => Settled(i)'
    BY <1>1 DEF Settled
  <2>4. QED
    BY <1>1, <1>2, <2>1, <2>2, <2>3 DEF InOrder
<1>5. SentIsLogged'
  <2>1. ASSUME NEW n \in KMsg, kcall'[n] \in {"close", "sent"}
        PROVE  \E i \in 1..Len(log') : log'[i] = n
    <3>1. CASE kcall[n] \in {"close", "sent"}
      BY <1>1, <3>1 DEF SentIsLogged
    <3>2. CASE kcall[n] \notin {"close", "sent"}
      <4>1. n = m /\ log' = Append(log, m)
        BY <2>1, <3>2 DEF KTypeOK
      <4>2. Len(log') = Len(log) + 1 /\ log'[Len(log) + 1] = m
        BY <4>1 DEF KTypeOK
      <4>3. QED
        BY <1>1, <4>1, <4>2
    <3>3. QED
      BY <3>1, <3>2
  <2>2. QED
    BY <2>1 DEF SentIsLogged
<1>6. QED
  BY <1>3, <1>4, <1>5

\* A step of the consumer leaves the producers and the log alone.
LEMMA ConsumerStep ==
  ASSUME KInv, KReceive \/ KHandlerThrows \/ KCommit \/ KConsumerCrash
  PROVE  KInv'
<1> USE KafkaAssumption DEF KInv, SameProducer
<1>1. Len(log) \in Nat /\ UNCHANGED <<kcall, ktries, connected, log>>
  BY DEF KTypeOK, KReceive, KSkip, KHandle, KHandlerThrows, KCommit, KConsumerCrash
<1>2. CASE KSkip
  BY <1>1, <1>2 DEF KSkip, KTypeOK, InOrder, Settled, SentIsLogged
<1>3. CASE KHandle
  BY <1>1, <1>3 DEF KHandle, KTypeOK, InOrder, Settled, SentIsLogged
<1>4. CASE KHandlerThrows
  BY <1>1, <1>4 DEF KHandlerThrows, KFault, KTypeOK, InOrder, Settled, SentIsLogged
<1>5. CASE KCommit
  BY <1>1, <1>5 DEF KCommit, KTypeOK, InOrder, Settled, SentIsLogged
<1>6. CASE KConsumerCrash
  BY <1>1, <1>6 DEF KConsumerCrash, KFault, KTypeOK, InOrder, Settled, SentIsLogged
<1>7. QED
  BY <1>2, <1>3, <1>4, <1>5, <1>6 DEF KReceive

\* Every step of producers, broker and consumer keeps the invariant.
LEMMA KInvStep == KInv /\ [KNext]_kvars => KInv'
<1> SUFFICES ASSUME KInv, [KNext]_kvars PROVE KInv'
  OBVIOUS
<1>1. CASE UNCHANGED kvars
  BY <1>1 DEF kvars, KInv, KTypeOK, InOrder, Settled, SentIsLogged
<1>2. ASSUME NEW m \in KMsg, KStart(m) \/ KConnect(m) \/ KSend(m) \/ KSendFails(m) \/ KClose(m)
      PROVE  KInv'
  <2> USE DEF KCallTo, KCallState
  <2>1. SameConsumer /\ kfaults' \in Nat /\ log' \in {log, Append(log, m)}
    BY <1>2 DEF KStart, KConnect, KSend, KSendFails, KClose, KFault, KInv, KTypeOK
  <2>2. ktries' \in [KMsg -> Nat]
    BY <1>2 DEF KStart, KConnect, KSend, KSendFails, KClose, KInv, KTypeOK
  <2>3. kcall = [kcall EXCEPT ![m] = kcall[m]] /\ kcall[m] \in KCallState
    BY DEF KInv, KTypeOK
  <2>4. \E s \in KCallState :
          /\ kcall' = [kcall EXCEPT ![m] = s]
          /\ s \in {"close", "sent"} => log' = Append(log, m) \/ kcall[m] = "close"
    BY <1>2, <2>3 DEF KStart, KConnect, KSend, KSendFails, KClose
  <2>5. QED
    BY <2>1, <2>2, <2>4, ProducerStep
<1>3. QED
  BY <1>1, <1>2, ConsumerStep DEF KNext

\* The invariant in every reachable state.
THEOREM KafkaInvariance == KSpec => []KInv
<1>1. KInit => KInv
  <2> SUFFICES ASSUME KInit PROVE KInv
    OBVIOUS
  <2>1. log = <<>> \/ log = <<NoValue>>
    BY DEF KInit
  <2>2. log \in Seq(KMsg \union {NoValue}) /\ Len(log) \in Nat
    <3>1. <<>> \in Seq(KMsg \union {NoValue}) /\ <<NoValue>> \in Seq(KMsg \union {NoValue})
      OBVIOUS
    <3>2. log \in Seq(KMsg \union {NoValue})
      BY <2>1, <3>1
    <3>3. QED
      BY <3>2
  <2>3. KTypeOK
    BY <2>2, KafkaAssumption DEF KInit, KTypeOK, KCallState
  <2>4. InOrder /\ SentIsLogged
    BY DEF KInit, InOrder, SentIsLogged
  <2>5. QED
    BY <2>3, <2>4 DEF KInv
<1>2. QED
  BY <1>1, KInvStep, PTL DEF KSpec

\* An entry that fails is never passed, neither by a later one nor by the
\* committed offset.
THEOREM HandledInOrder == KSpec => []PartitionInOrder
<1>1. KInv => PartitionInOrder
  <2> SUFFICES ASSUME KInv PROVE PartitionInOrder
    OBVIOUS
  <2>1. Len(log) \in Nat /\ position \in 0..Len(log) /\ offset \in 0..position
        /\ kdone \subseteq 1..Len(log)
    BY DEF KInv, KTypeOK
  <2>2. ASSUME NEW i \in 1..Len(log), i <= position \/ \E j \in kdone : j >= i
        PROVE  i \in kdone \/ log[i] = NoValue
    <3>1. i \in 1..position \/ \E j \in kdone : i \in 1..j
      BY <2>1, <2>2
    <3>2. QED
      BY <3>1 DEF KInv, InOrder, Settled
  <2>3. QED
    BY <2>1, <2>2 DEF PartitionInOrder
<1>2. QED
  BY KafkaInvariance, <1>1, PTL

-----------------------------------------------------------------------------
\* What the log holds after a step.
LEMMA AppendedEntries ==
  ASSUME KTypeOK, NEW m \in KMsg, log' = Append(log, m)
  PROVE  /\ Entries(1..Len(log))' = Entries(1..Len(log)) \union {m}
         /\ \A S \in SUBSET (1..Len(log)) : {log'[i] : i \in S} = {log[i] : i \in S}
<1>1. /\ Len(log) \in Nat /\ Len(log') = Len(log) + 1
      /\ log'[Len(log) + 1] = m
      /\ \A i \in 1..Len(log) : log'[i] = log[i]
  BY DEF KTypeOK
<1>2. 1..Len(log') = (1..Len(log)) \union {Len(log) + 1}
  BY <1>1
<1>3. m # NoValue
  BY KafkaAssumption
<1>4. Entries(1..Len(log))' = Entries(1..Len(log)) \union {m}
  BY <1>1, <1>2, <1>3 DEF Entries
<1>5. QED
  BY <1>1, <1>4

\* Each step is a step of the channel, or leaves the channel alone.
LEMMA KChannelStep ==
  ASSUME KInv, KNext
  PROVE  [KChannel!ChannelNext]_(KChannel!channel)
<1> DEFINE stored == Entries(1..Len(log))
           returned == {m \in KMsg : kcall[m] = "sent"}
           handled == Entries(kdone)
           forgotten == Entries(1..offset)
<1>1. SUFFICES \/ UNCHANGED <<stored, returned, handled, forgotten>>
               \/ \E m \in KMsg :
                    \/ /\ stored' = stored \union {m}
                       /\ UNCHANGED <<returned, handled, forgotten>>
                    \/ /\ m \in stored /\ returned' = returned \union {m}
                       /\ UNCHANGED <<stored, handled, forgotten>>
               \/ \E S \in SUBSET KMsg :
                    \/ /\ S \subseteq stored /\ handled' = handled \union S
                       /\ UNCHANGED <<stored, returned, forgotten>>
                    \/ /\ S \subseteq handled /\ forgotten' = forgotten \union S
                       /\ UNCHANGED <<stored, returned, handled>>
  BY <1>1 DEF KChannel!ChannelNext, KChannel!channel, KChannel!Store,
              KChannel!ReturnToSender, KChannel!Handle, KChannel!Forget
<1>2. /\ KTypeOK /\ InOrder /\ SentIsLogged /\ Len(log) \in Nat
      /\ kdone \subseteq 1..Len(log) /\ 1..offset \subseteq 1..Len(log)
  BY DEF KInv, KTypeOK
<1>3. ASSUME NEW m \in KMsg, KSend(m) \/ KSendFails(m), log' = Append(log, m)
      PROVE  stored' = stored \union {m} /\ UNCHANGED <<returned, handled, forgotten>>
  <2>1. SameConsumer /\ returned' = returned
    BY <1>2, <1>3 DEF KSend, KSendFails, KCallTo, KTypeOK
  <2>2. stored' = stored \union {m}
    BY <1>2, <1>3, AppendedEntries
  <2>3. {log'[i] : i \in kdone} = {log[i] : i \in kdone}
    BY <1>2, <1>3, AppendedEntries
  <2>4. {log'[i] : i \in 1..offset} = {log[i] : i \in 1..offset}
    BY <1>2, <1>3, AppendedEntries
  <2>5. QED
    BY <2>1, <2>2, <2>3, <2>4 DEF SameConsumer, Entries
<1>4. ASSUME NEW m \in KMsg, KStart(m) \/ KConnect(m) \/ KSendFails(m), log' = log
      PROVE  UNCHANGED <<stored, returned, handled, forgotten>>
  <2>1. SameConsumer /\ returned' = returned
    BY <1>2, <1>4 DEF KStart, KConnect, KSendFails, KCallTo, KTypeOK
  <2>2. QED
    BY <1>4, <2>1 DEF SameConsumer, Entries
<1>5. ASSUME NEW m \in KMsg, KClose(m)
      PROVE  \/ UNCHANGED <<stored, returned, handled, forgotten>>
             \/ /\ m \in stored /\ returned' = returned \union {m}
                /\ UNCHANGED <<stored, handled, forgotten>>
  <2>1. UNCHANGED <<stored, handled, forgotten>>
    BY <1>5 DEF KClose, SameConsumer, Entries
  <2>2. CASE kcall[m] = "close"
    <3>1. m # NoValue
      BY KafkaAssumption
    <3>2. m \in stored
      BY <1>2, <2>2, <3>1 DEF SentIsLogged, Entries
    <3>3. returned' = returned \union {m}
      BY <1>2, <1>5, <2>2 DEF KClose, KCallTo, KTypeOK
    <3>4. QED
      BY <2>1, <3>2, <3>3
  <2>3. CASE kcall[m] # "close"
    <3>1. returned' = returned
      BY <1>2, <1>5, <2>3 DEF KClose, KCallTo, KTypeOK
    <3>2. QED
      BY <2>1, <3>1
  <2>4. QED
    BY <2>2, <2>3
<1>6. CASE KSkip \/ KConsumerCrash
  BY <1>6 DEF KSkip, KConsumerCrash, SameProducer, Entries
<1>7. CASE KHandle
  <2> DEFINE m == log[position + 1]
  <2>1. position + 1 \in 1..Len(log) /\ m \in KMsg
    BY <1>2, <1>7 DEF KHandle, KTypeOK
  <2>2. m # NoValue
    BY <1>7 DEF KHandle
  <2>3. {m} \subseteq stored
    BY <2>1, <2>2 DEF Entries
  <2>4. log' = log /\ kcall' = kcall /\ offset' = offset /\ kdone' = kdone \union {position + 1}
    BY <1>7 DEF KHandle, SameProducer
  <2>5. handled' = handled \union {m}
    BY <2>2, <2>4 DEF Entries
  <2>6. UNCHANGED <<stored, returned, forgotten>>
    BY <2>4 DEF Entries
  <2>7. QED
    BY <2>1, <2>3, <2>5, <2>6
<1>8. CASE KHandlerThrows \/ KCommit
  <2>1. CASE offset' = offset
    BY <1>8, <2>1 DEF KHandlerThrows, KCommit, SameProducer, Entries
  <2>2. CASE offset' = position
    <3>1. log' = log /\ kcall' = kcall /\ kdone' = kdone
      BY <1>8 DEF KHandlerThrows, KCommit, SameProducer
    <3>2. Entries(1..position) \subseteq handled
      BY <1>2 DEF InOrder, Settled, Entries
    <3>3. Entries(1..position) \in SUBSET KMsg
      BY <1>2 DEF KTypeOK, Entries
    <3>4. Entries(1..offset) \subseteq Entries(1..position)
      BY <1>2 DEF KTypeOK, Entries
    <3>5. forgotten' = forgotten \union Entries(1..position)
      BY <2>2, <3>1, <3>4 DEF Entries
    <3>6. UNCHANGED <<stored, returned, handled>>
      BY <3>1 DEF Entries
    <3>7. QED
      BY <3>2, <3>3, <3>5, <3>6
  <2>3. QED
    BY <1>8, <2>1, <2>2 DEF KHandlerThrows, KCommit
<1>9. ASSUME NEW m \in KMsg, KStart(m) \/ KConnect(m) \/ KSend(m) \/ KSendFails(m)
      PROVE  log' = Append(log, m) \/ (log' = log /\ ~KSend(m))
  <2>1. CASE KSend(m)
    BY <2>1 DEF KSend
  <2>2. CASE ~KSend(m)
    BY <1>9, <2>2 DEF KStart, KConnect, KSendFails
  <2>3. QED
    BY <2>1, <2>2
<1>10. ASSUME NEW m \in KMsg, KStart(m) \/ KConnect(m), log' = Append(log, m) PROVE FALSE
  <2>1. Len(log') = Len(log) + 1
    BY <1>2, <1>10 DEF KTypeOK
  <2>2. log' = log
    BY <1>10 DEF KStart, KConnect
  <2>3. QED
    BY <1>2, <2>1, <2>2
<1>11. QED
  BY <1>3, <1>4, <1>5, <1>6, <1>7, <1>8, <1>9, <1>10 DEF KNext, KReceive

\* The helpers together deliver at least once.
THEOREM KafkaRefinesChannel == KSpec => KafkaIsAChannel
<1>1. KInit => KChannel!ChannelInit
  BY DEF KInit, KChannel!ChannelInit, Entries
<1>2. KInv /\ [KNext]_kvars => [KChannel!ChannelNext]_(KChannel!channel)
  <2>1. KInv /\ KNext => [KChannel!ChannelNext]_(KChannel!channel)
    BY KChannelStep
  <2>2. UNCHANGED kvars => UNCHANGED KChannel!channel
    BY DEF kvars, KChannel!channel, Entries
  <2>3. QED
    BY <2>1, <2>2
<1>3. QED
  BY <1>1, <1>2, KafkaInvariance, PTL DEF KSpec, KafkaIsAChannel, KChannel!ChannelSpec

-----------------------------------------------------------------------------
(***************************************************************************)
(* Proofs about the RabbitMQ helpers, for every number of messages and     *)
(* calls and every number of faults.  The durable queue is a channel that  *)
(* delivers at least once but for acknowledgements of callbacks that have  *)
(* outlived their channel, and a message forgotten by such a mistake is    *)
(* still in a callback; the shared reply queue loses and mixes up nothing. *)
(*                                                                         *)
(* The argument: a callback acknowledges when it has succeeded             *)
(* (OverIsDone), and on one channel a tag stands for one message           *)
(* (TagsDiffer), so on its own channel it acknowledges only its message.   *)
(***************************************************************************)

\* The states of the one-way helpers.
RTypeOK ==
  /\ pattern \in {"send", "publish"}
  /\ rcall \in [RMsg -> {"new", "wait", "returned"}]
  /\ place \in [RMsg -> Place]
  /\ tags \in Nat
  /\ work \subseteq Delivery
  /\ rdone \subseteq RMsg

\* The deliveries of the present channel.
TagsDiffer ==
  /\ \A w \in work : w.age = 0 => w.tag <= tags
  /\ \A v, w \in work : v.age = 0 /\ w.age = 0 /\ v.tag = w.tag => v.msg = w.msg

OverIsDone == \A w \in work : w.over => w.msg \in rdone

\* What a callback has been given from the durable queue, the broker has stored.
WorkIsStored ==
  pattern = "send" => \A w \in work : place[w.msg] \notin {"none", "lost"}

RInv == RTypeOK /\ TagsDiffer /\ OverIsDone /\ WorkIsStored

\* The invariant holds when nothing has been sent.
LEMMA RInvInit == RInit => RInv
  BY DEF RInit, RInv, RTypeOK, Place, TagsDiffer, OverIsDone, WorkIsStored

\* Callbacks that go on without their channel keep their message; they no longer
\* belong to the present channel.
LEMMA OutliveKeeps ==
  ASSUME NEW W \in SUBSET Delivery
  PROVE  /\ Outlive(W) \subseteq Delivery
         /\ \A x \in Outlive(W) :
              x.age # 0 /\ \E w \in W : w.msg = x.msg /\ w.over = x.over
         /\ \A w \in W : \E x \in Outlive(W) : x.msg = w.msg
<1> DEFINE Younger(w) == {n \in 0..w.age : n < w.age /\ \E v \in W : v.age = n}
           Aged(w) == [w EXCEPT !.age = 1 + Cardinality(Younger(w))]
<1>1. Outlive(W) = {Aged(w) : w \in W}
  BY DEF Outlive
<1>2. ASSUME NEW w \in W PROVE 1 + Cardinality(Younger(w)) \in Nat \ {0}
  <2>1. IsFiniteSet(0..w.age)
    BY FS_Interval DEF Delivery
  <2>2. IsFiniteSet(Younger(w))
    BY <2>1, FS_Subset
  <2>3. Cardinality(Younger(w)) \in Nat
    BY <2>2, FS_CardinalityType
  <2>4. QED
    BY <2>3
<1> HIDE DEF Younger
<1>3. ASSUME NEW w \in W
      PROVE  /\ Aged(w) \in Delivery /\ Aged(w).age # 0
             /\ Aged(w).msg = w.msg /\ Aged(w).over = w.over
  BY <1>2, <1>3 DEF Delivery
<1> HIDE DEF Aged
<1>4. QED
  BY <1>1, <1>3

\* Losing the channel, whether the callbacks W go on or none does.
LEMMA DisconnectedKeeps ==
  ASSUME RInv, Disconnected, NEW W \in SUBSET work, work' = Outlive(W),
         UNCHANGED <<pattern, rcall, rdone>>
  PROVE  RInv'
<1>1. W \in SUBSET Delivery
  BY DEF RInv, RTypeOK
<1>2. RTypeOK'
  BY <1>1, OutliveKeeps DEF RInv, RTypeOK, Disconnected, Place
<1>3. TagsDiffer'
  BY <1>1, OutliveKeeps DEF TagsDiffer
<1>4. OverIsDone'
  BY <1>1, OutliveKeeps DEF RInv, OverIsDone
<1>5. WorkIsStored'
  <2> SUFFICES ASSUME pattern = "send", NEW x \in work' PROVE place'[x.msg] \notin {"none", "lost"}
    BY DEF WorkIsStored
  <2>1. PICK w \in work : w.msg = x.msg /\ w.msg \in RMsg
    BY <1>1, OutliveKeeps DEF Delivery
  <2>2. QED
    BY <2>1 DEF RInv, RTypeOK, WorkIsStored, Disconnected
<1>6. QED
  BY <1>2, <1>3, <1>4, <1>5 DEF RInv

\* Every step of sender, broker and receiver keeps the invariant.
LEMMA RInvStep == RInv /\ [RNext]_rvars => RInv'
<1> SUFFICES ASSUME RInv, [RNext]_rvars PROVE RInv'
  OBVIOUS
<1>1. CASE UNCHANGED rvars
  BY <1>1 DEF rvars, consumer, RInv, RTypeOK, TagsDiffer, OverIsDone, WorkIsStored
<1>2. ASSUME NEW m \in RMsg, RSend(m) \/ RStore(m) \/ RRoute(m) \/ RReturn(m) \/ RSendFails(m)
      PROVE  RInv'
  <2>1. /\ UNCHANGED <<consumer, pattern, rdone>>
        /\ \A n \in RMsg : place[n] \notin {"none", "lost"} => place'[n] = place[n]
    BY <1>2 DEF RSend, RStore, RRoute, RReturn, RSendFails, RInv, RTypeOK
  <2>2. RTypeOK'
    BY <1>2 DEF RSend, RStore, RRoute, RReturn, RSendFails, RInv, RTypeOK, Place, consumer
  <2>3. TagsDiffer' /\ OverIsDone'
    BY <2>1 DEF consumer, RInv, TagsDiffer, OverIsDone
  <2>4. WorkIsStored'
    BY <2>1 DEF consumer, RInv, RTypeOK, Delivery, WorkIsStored
  <2>5. QED
    BY <2>2, <2>3, <2>4 DEF RInv
<1>3. ASSUME NEW m \in RMsg, RDeliver(m) PROVE RInv'
  <2> DEFINE new == [msg |-> m, tag |-> tags + 1, age |-> 0, over |-> FALSE]
  <2>1. /\ new \in Delivery /\ work' = work \union {new} /\ tags' = tags + 1
        /\ new.msg = m /\ new.tag = tags + 1 /\ new.age = 0 /\ ~new.over
        /\ place' = [place EXCEPT ![m] = "unacked"]
        /\ UNCHANGED <<pattern, rcall, rdone>>
    BY <1>3 DEF RDeliver, RInv, RTypeOK, Delivery
  <2> HIDE DEF new
  <2>2. RTypeOK'
    BY <2>1 DEF RInv, RTypeOK, Place
  <2>3. TagsDiffer'
    BY <2>1 DEF RInv, RTypeOK, Delivery, TagsDiffer
  <2>4. OverIsDone'
    BY <2>1 DEF RInv, OverIsDone
  <2>5. WorkIsStored'
    BY <2>1 DEF RInv, RTypeOK, Delivery, WorkIsStored
  <2>6. QED
    BY <2>2, <2>3, <2>4, <2>5 DEF RInv
<1>4. ASSUME NEW w \in work, RCallback(w) PROVE RInv'
  <2> DEFINE over == [w EXCEPT !.over = TRUE]
  <2>1. /\ over \in Delivery /\ work' = (work \ {w}) \union {over}
        /\ over.msg = w.msg /\ over.tag = w.tag /\ over.age = w.age
        /\ rdone' = rdone \union {w.msg} /\ w.msg \in RMsg
        /\ UNCHANGED <<pattern, rcall, place, tags>>
    BY <1>4 DEF RCallback, RInv, RTypeOK, Delivery
  <2> HIDE DEF over
  <2>2. RTypeOK'
    BY <2>1 DEF RInv, RTypeOK
  <2>3. TagsDiffer'
    BY <2>1 DEF RInv, TagsDiffer
  <2>4. OverIsDone' /\ WorkIsStored'
    BY <2>1 DEF RInv, OverIsDone, WorkIsStored
  <2>5. QED
    BY <2>2, <2>3, <2>4 DEF RInv
<1>5. ASSUME NEW w \in work, RAck(w) PROVE RInv'
  <2>1. CASE Refused(w)
    BY <1>5, <2>1, DisconnectedKeeps DEF RAck, Refused
  <2>2. CASE NotSent(w) \/ Accepted(w)
    <3>1. /\ work' \subseteq work /\ UNCHANGED <<pattern, rcall, tags, rdone>>
          /\ place' \in [RMsg -> Place]
          /\ \A m \in RMsg : place'[m] = place[m] \/ place'[m] = "acked"
      BY <1>5, <2>2 DEF RAck, NotSent, Accepted, RInv, RTypeOK, Place
    <3>2. RTypeOK'
      BY <3>1 DEF RInv, RTypeOK
    <3>3. TagsDiffer' /\ OverIsDone'
      BY <3>1 DEF RInv, TagsDiffer, OverIsDone
    <3>4. WorkIsStored'
      BY <3>1 DEF RInv, RTypeOK, Delivery, WorkIsStored
    <3>5. QED
      BY <3>2, <3>3, <3>4 DEF RInv
  <2>3. QED
    BY <1>5, <2>1, <2>2 DEF RAck
<1>6. CASE RSubscribe
  BY <1>6 DEF RSubscribe, RInv, RTypeOK, TagsDiffer, OverIsDone, WorkIsStored
<1>7. CASE RConsumerCrash
  <2>1. Outlive({}) = {}
    BY DEF Outlive
  <2>2. QED
    BY <1>7, <2>1, DisconnectedKeeps DEF RConsumerCrash
<1>8. CASE RConnectionLost
  BY <1>8, DisconnectedKeeps DEF RConnectionLost
<1>9. QED
  BY <1>1, <1>2, <1>3, <1>4, <1>5, <1>6, <1>7, <1>8 DEF RNext, RConsume

\* The invariant in every reachable state.
THEOREM RabbitInvariance == RSpec => []RInv
  BY RInvInit, RInvStep, PTL DEF RSpec

-----------------------------------------------------------------------------
\* An acknowledgement is that of the callback's own message, or a mistake.
LEMMA AckStep ==
  ASSUME RInv, pattern = "send", NEW w \in work, RAck(w)
  PROVE  MistakenAck \/ [RChannel!ChannelNext]_(RChannel!channel)
<1> USE DEF SentByQueue, RStored, RReturned, RHandled, RForgotten
<1>1. CASE NotSent(w)
  BY <1>1 DEF RAck, NotSent, RChannel!channel
<1>2. CASE Refused(w)
  <2>1. \A m \in RMsg : /\ place'[m] \in {"none", "lost"} <=> place[m] \in {"none", "lost"}
                        /\ place'[m] = "lost" <=> place[m] = "lost"
                        /\ place'[m] = "acked" <=> place[m] = "acked"
    BY <1>2 DEF Refused, Disconnected
  <2>2. QED
    BY <1>2, <2>1 DEF RAck, RChannel!channel
<1>3. CASE Accepted(w)
  <2>1. PICK v \in Tagged(w.tag) : TRUE
    BY <1>3 DEF Accepted
  <2>2. /\ v \in work /\ v.age = 0 /\ v.tag = w.tag /\ place[v.msg] = "unacked"
        /\ v.msg \in RMsg
    BY <2>1 DEF Tagged, RInv, RTypeOK, Delivery
  <2>3. \A x \in Tagged(w.tag) : x.msg = v.msg
    BY <2>2 DEF Tagged, RInv, TagsDiffer
  <2>4. place' = [m \in RMsg |-> IF m = v.msg THEN "acked" ELSE place[m]]
    BY <1>3, <2>1, <2>3 DEF Accepted
  <2>5. /\ RForgotten' = RForgotten \union {v.msg}
        /\ UNCHANGED <<RStored, RReturned, RHandled>>
    BY <1>3, <2>2, <2>4 DEF RAck
  <2>6. CASE w.age = 0
    <3>1. w.msg = v.msg
      BY <2>2, <2>6 DEF RInv, TagsDiffer
    <3>2. {v.msg} \in SUBSET RMsg /\ {v.msg} \subseteq RHandled
      BY <1>3, <2>2, <3>1 DEF RAck, RInv, OverIsDone
    <3>3. RChannel!Forget({v.msg})
      BY <2>5, <3>2 DEF RChannel!Forget
    <3>4. QED
      BY <3>2, <3>3 DEF RChannel!ChannelNext
  <2>7. CASE w.age # 0
    <3>1. w.age > 0
      BY <2>7 DEF RInv, RTypeOK, Delivery
    <3>2. QED
      BY <1>3, <2>2, <2>5, <3>1 DEF MistakenAck, RAck, Accepted
  <2>8. QED
    BY <2>6, <2>7
<1>4. QED
  BY <1>1, <1>2, <1>3 DEF RAck

\* Each step of the queue is a step of the channel, leaves the channel alone, or is
\* a mistaken acknowledgement.
LEMMA RChannelStep ==
  ASSUME RInv, RNext
  PROVE  MistakenAck \/ [RChannel!ChannelNext]_(RChannel!channel)
<1> DEFINE stored == SentByQueue({m \in RMsg : place[m] \notin {"none", "lost"}})
           returned == SentByQueue({m \in RMsg : rcall[m] = "returned" /\ place[m] # "lost"})
           handled == SentByQueue(rdone)
           forgotten == SentByQueue({m \in RMsg : place[m] = "acked"})
<1>0. RChannel!channel = <<stored, returned, handled, forgotten>>
  BY DEF RChannel!channel, RStored, RReturned, RHandled, RForgotten
<1> USE DEF RInv, RTypeOK, Place, SentByQueue, RStored, RReturned, RHandled, RForgotten
<1>1. CASE pattern # "send"
  <2>1. pattern' # "send"
    BY <1>1 DEF RNext, RSend, RStore, RRoute, RReturn, RSendFails, RConsume, RDeliver,
                RCallback, RAck, RSubscribe, RConsumerCrash, RConnectionLost
  <2>2. UNCHANGED RChannel!channel
    BY <1>1, <2>1 DEF RChannel!channel
  <2>3. QED
    BY <2>2
<1>2. CASE pattern = "send"
  <2> USE <1>2
  <2>1. ASSUME NEW m \in RMsg, RSend(m) \/ RDeliver(m)
        PROVE  UNCHANGED <<stored, returned, handled, forgotten>>
    BY <2>1 DEF RSend, RDeliver
  <2>2. ASSUME NEW m \in RMsg, RStore(m)
        PROVE  stored' = stored \union {m} /\ UNCHANGED <<returned, handled, forgotten>>
    BY <2>2 DEF RStore
  <2>3. ASSUME NEW m \in RMsg, RReturn(m), place[m] # "lost"
        PROVE  /\ m \in stored /\ returned' = returned \union {m}
               /\ UNCHANGED <<stored, handled, forgotten>>
    BY <2>3 DEF RReturn
  <2>4. ASSUME NEW m \in RMsg, RReturn(m), place[m] = "lost"
        PROVE  UNCHANGED <<stored, returned, handled, forgotten>>
    BY <2>4 DEF RReturn
  <2>5. ASSUME NEW m \in RMsg, RSendFails(m), place[m] \in {"none", "lost"}
        PROVE  UNCHANGED <<stored, returned, handled, forgotten>>
    BY <2>5 DEF RSendFails
  <2>6. ASSUME NEW m \in RMsg, RSendFails(m), place[m] \notin {"none", "lost"}
        PROVE  /\ m \in stored /\ returned' = returned \union {m}
               /\ UNCHANGED <<stored, handled, forgotten>>
    BY <2>6 DEF RSendFails
  <2>7. ASSUME NEW w \in work, RCallback(w)
        PROVE  RChannel!Handle({w.msg}) /\ {w.msg} \in SUBSET RMsg
    BY <2>7 DEF RCallback, WorkIsStored, Delivery, RChannel!Handle
  <2>8. ASSUME NEW m \in RMsg, RSend(m) \/ RDeliver(m) \/ RStore(m) \/ RReturn(m) \/ RSendFails(m)
         PROVE  [RChannel!ChannelNext]_(RChannel!channel)
    <3>1. \/ UNCHANGED RChannel!channel
          \/ RChannel!Store(m) \/ RChannel!ReturnToSender(m)
      BY <2>1, <2>2, <2>3, <2>4, <2>5, <2>6, <2>8
         DEF RChannel!channel, RChannel!Store, RChannel!ReturnToSender
    <3>2. QED
      BY <3>1 DEF RChannel!ChannelNext
  <2>9. CASE RSubscribe \/ RConsumerCrash \/ RConnectionLost
    <3>1. UNCHANGED <<stored, returned, handled, forgotten>>
      BY <2>9 DEF RSubscribe, RConsumerCrash, RConnectionLost, Disconnected
    <3>2. QED
      BY <1>0, <3>1 DEF RChannel!channel
  <2>10. ASSUME NEW m \in RMsg, RRoute(m) PROVE FALSE
    BY <2>10 DEF RRoute
  <2>11. ASSUME NEW w \in work, RCallback(w) PROVE [RChannel!ChannelNext]_(RChannel!channel)
    BY <2>7, <2>11 DEF RChannel!ChannelNext
  <2>12. ASSUME NEW w \in work, RAck(w)
         PROVE  MistakenAck \/ [RChannel!ChannelNext]_(RChannel!channel)
    BY <2>12, AckStep
  <2>13. QED
    BY <2>8, <2>9, <2>10, <2>11, <2>12 DEF RNext, RConsume
<1>3. QED
  BY <1>1, <1>2

\* What was handled, or is in the hands of the consumer, stays so.
LEMMA AccountedStep ==
  ASSUME RInv, RNext, NEW m \in RMsg, Accounted(m)
  PROVE  Accounted(m)' \/ RConsumerCrash
<1> SUFFICES ASSUME place'[m] = "acked", ~RConsumerCrash
             PROVE  m \in rdone' \/ \E w \in work' : w.msg = m
  BY DEF Accounted
<1> USE DEF RInv, RTypeOK, Place
<1>1. ASSUME place[m] = "acked", rdone \subseteq rdone',
             \A w \in work : w.msg \in rdone' \/ \E x \in work' : x.msg = w.msg
      PROVE  m \in rdone' \/ \E w \in work' : w.msg = m
  BY <1>1 DEF Accounted
<1>2. ASSUME NEW n \in RMsg, RSend(n) \/ RStore(n) \/ RRoute(n) \/ RReturn(n) \/ RSendFails(n)
      PROVE  m \in rdone' \/ \E w \in work' : w.msg = m
  BY <1>1, <1>2 DEF RSend, RStore, RRoute, RReturn, RSendFails, consumer
<1>3. ASSUME NEW n \in RMsg, RDeliver(n) PROVE m \in rdone' \/ \E w \in work' : w.msg = m
  BY <1>1, <1>3 DEF RDeliver
<1>4. ASSUME NEW w \in work, RCallback(w) PROVE m \in rdone' \/ \E x \in work' : x.msg = m
  BY <1>1, <1>4 DEF RCallback
<1>5. ASSUME NEW w \in work, RAck(w) PROVE m \in rdone' \/ \E x \in work' : x.msg = m
  <2>1. rdone' = rdone /\ w.msg \in rdone
    BY <1>5 DEF RAck, OverIsDone
  <2>2. CASE NotSent(w)
    BY <1>1, <2>1, <2>2 DEF NotSent
  <2>3. CASE Accepted(w)
    BY <1>1, <2>1, <2>3 DEF Accepted, Tagged
  <2>4. CASE Refused(w)
    <3>1. place[m] = "acked"
      BY <2>4 DEF Refused, Disconnected
    <3>2. \A v \in work \ {w} : \E x \in work' : x.msg = v.msg
      BY <2>4, OutliveKeeps DEF Refused
    <3>3. QED
      BY <1>1, <2>1, <3>1, <3>2
  <2>5. QED
    BY <1>5, <2>2, <2>3, <2>4 DEF RAck
<1>6. CASE RSubscribe
  BY <1>1, <1>6 DEF RSubscribe
<1>7. CASE RConnectionLost
  <2>1. place[m] = "acked" /\ rdone' = rdone
    BY <1>7 DEF RConnectionLost, Disconnected
  <2>2. \A v \in work : \E x \in work' : x.msg = v.msg
    BY <1>7, OutliveKeeps DEF RConnectionLost
  <2>3. QED
    BY <1>1, <2>1, <2>2
<1>8. QED
  BY <1>2, <1>3, <1>4, <1>5, <1>6, <1>7 DEF RNext, RConsume

\* SenderReceiverProducerRabbitMq, the durable queue and
\* SenderReceiverConsumerRabbitMq together deliver at least once, except that a
\* callback which has outlived its channel may acknowledge the message another
\* callback is still in; that message is lost to the consumer only if the process
\* then dies before the callback has handled it.
THEOREM QueueRefinesChannel == RSpec => QueueIsAChannel
<1>1. RInit => RChannel!ChannelInit
  BY DEF RInit, RChannel!ChannelInit, SentByQueue, RStored, RReturned, RHandled, RForgotten
<1>2. RInv /\ [RNext]_rvars => [MistakenAck \/ [RChannel!ChannelNext]_(RChannel!channel)]_rvars
  BY RChannelStep
<1>3. RInv /\ [RNext]_rvars
      => [\A m \in RMsg : Accounted(m) => Accounted(m)' \/ RConsumerCrash]_rvars
  BY AccountedStep
<1>4. QED
  BY <1>1, <1>2, <1>3, RabbitInvariance, PTL DEF RSpec, QueueIsAChannel

-----------------------------------------------------------------------------
\* The states of request and reply.
QTypeOK ==
  /\ rr \in [Call -> {"new", "waiting", "replied", "lost"}]
  /\ answer \in [Call -> Call \union {NoCall}]
  /\ consuming \subseteq Call
  /\ request \in [Call -> RequestState]
  /\ reply \subseteq [to : Call, at : Call \union {NoCall}, nr : Nat]
  /\ qfaults \in Nat

QInv == QTypeOK /\ OwnReply /\ ReplyIsSomewhere

\* Moving replies about changes neither their types nor whom they are for.
LEMMA MovedReply ==
  ASSUME QTypeOK, NEW r \in reply, NEW d \in Call \union {NoCall}
  PROVE  /\ [r EXCEPT !.at = d] \in [to : Call, at : Call \union {NoCall}, nr : Nat]
         /\ [r EXCEPT !.at = d].to = r.to
BY DEF QTypeOK

\* Replies given back to the queue are as many as before, and for the same calls.
LEMMA GivenBack ==
  ASSUME QTypeOK, GiveBack
  PROVE  /\ reply' \subseteq [to : Call, at : Call \union {NoCall}, nr : Nat]
         /\ \A r \in reply : \E s \in reply' : s.to = r.to
<1>1. \A r \in reply : [r EXCEPT !.at = NoCall] \in reply'
  BY DEF GiveBack
<1>2. QED
  BY <1>1, MovedReply DEF GiveBack

\* Every step of caller, broker and responder keeps the invariant.
LEMMA QInvStep == QInv /\ [QNext]_rrvars => QInv'
<1> SUFFICES ASSUME QInv, [QNext]_rrvars PROVE QInv'
  OBVIOUS
<1> USE RequestReplyAssumption DEF QInv, RequestState
<1>1. CASE UNCHANGED rrvars
  BY <1>1 DEF rrvars, QTypeOK, OwnReply, ReplyIsSomewhere
<1>2. ASSUME NEW c \in Call, QSend(c) PROVE QInv'
  BY <1>2 DEF QSend, QTypeOK, OwnReply, ReplyIsSomewhere
<1>3. ASSUME NEW c \in Call, QTake(c) PROVE QInv'
  BY <1>3 DEF QTake, QTypeOK, OwnReply, ReplyIsSomewhere
<1>4. ASSUME NEW c \in Call, QReply(c) PROVE QInv'
  <2> DEFINE new == [to |-> c, at |-> NoCall, nr |-> qfaults]
  <2>1. new \in [to : Call, at : Call \union {NoCall}, nr : Nat] /\ new.to = c
    BY DEF QTypeOK
  <2>2. reply' = reply \union {new}
    BY <1>4 DEF QReply
  <2>3. QTypeOK' /\ OwnReply'
    BY <1>4, <2>1, <2>2 DEF QReply, QTypeOK, OwnReply
  <2>4. ReplyIsSomewhere'
    BY <1>4, <2>1, <2>2 DEF QReply, QTypeOK, ReplyIsSomewhere
  <2>5. QED
    BY <2>3, <2>4
<1>5. ASSUME NEW c \in Call, QAck(c) PROVE QInv'
  BY <1>5 DEF QAck, QTypeOK, OwnReply, ReplyIsSomewhere
<1>6. ASSUME NEW r \in reply, NEW d \in Call, QDeliver(r, d) PROVE QInv'
  <2>1. CASE r.to = d
    BY <1>6, <2>1 DEF QDeliver, QTypeOK, OwnReply, ReplyIsSomewhere
  <2>2. CASE r.to # d
    <3>1. /\ reply' = (reply \ {r}) \union {[r EXCEPT !.at = d]}
          /\ UNCHANGED <<rr, answer, consuming, request, qfaults>>
      BY <1>6, <2>2 DEF QDeliver
    <3>2. QTypeOK' /\ OwnReply'
      BY <3>1, MovedReply DEF QTypeOK, OwnReply
    <3>3. \A s \in reply : \E t \in reply' : t.to = s.to
      BY <3>1, MovedReply
    <3>4. ReplyIsSomewhere'
      BY <3>1, <3>3 DEF ReplyIsSomewhere
    <3>5. QED
      BY <3>2, <3>4
  <2>3. QED
    BY <2>1, <2>2
<1>7. CASE QServerCrash
  BY <1>7 DEF QServerCrash, QFault, QTypeOK, OwnReply, ReplyIsSomewhere
<1>8. CASE QReconnect \/ QClientCrash
  <2>1. GiveBack /\ UNCHANGED <<answer, request>> /\ qfaults' \in Nat
    BY <1>8 DEF QReconnect, QClientCrash, QFault, QTypeOK
  <2>2. /\ rr' \in [Call -> {"new", "waiting", "replied", "lost"}]
        /\ \A c \in Call : rr'[c] = "waiting" => rr[c] = "waiting"
        /\ consuming' \subseteq Call
    BY <1>8 DEF QReconnect, QClientCrash, QTypeOK
  <2>3. QTypeOK' /\ OwnReply'
    BY <2>1, <2>2, GivenBack DEF QTypeOK, OwnReply
  <2>4. ReplyIsSomewhere'
    BY <2>1, <2>2, GivenBack DEF ReplyIsSomewhere
  <2>5. QED
    BY <2>3, <2>4
<1>9. QED
  BY <1>1, <1>2, <1>3, <1>4, <1>5, <1>6, <1>7, <1>8 DEF QNext, QServe, QBroker

\* The invariant in every reachable state.
THEOREM RequestReplyInvariance == QSpec => []QInv
<1>1. QInit => QInv
  BY RequestReplyAssumption
     DEF QInit, QInv, QTypeOK, RequestState, OwnReply, ReplyIsSomewhere
<1>2. QED
  BY <1>1, QInvStep, PTL DEF QSpec

\* sendAsync is resolved with the reply to its own request.
THEOREM ReplyIsOwn == QSpec => []OwnReply
<1>1. QInv => OwnReply
  BY DEF QInv
<1>2. QED
  BY RequestReplyInvariance, <1>1, PTL

\* While sendAsync waits, its reply is on its way or can still be made.
THEOREM ReplyNotLost == QSpec => []ReplyIsSomewhere
<1>1. QInv => ReplyIsSomewhere
  BY DEF QInv
<1>2. QED
  BY RequestReplyInvariance, <1>1, PTL

-----------------------------------------------------------------------------
(***************************************************************************)
(* Proofs about the jobs of BullMQ queues, for every number of jobs,       *)
(* attempts, triggers and faults: what keeps an identifier taken.          *)
(***************************************************************************)

\* What the variables may be.
BTypeOK ==
  /\ bmode \in {"send", "trigger"}
  /\ bjob \in [Id -> BJobState]
  /\ btries \in [Id -> Nat]
  /\ bstalls \in [Id -> Nat]
  /\ wanted \in [Id -> BOOLEAN]
  /\ asked \in [Id -> Nat]
  /\ bfaults \in Nat

\* The worker runs one job at a time.
OneActive == \A i, k \in Id : bjob[i] = "active" /\ bjob[k] = "active" => i = k

\* A run is wanted only of a job that may still run.
WantedMayRun ==
  \A i \in Id : wanted[i] = TRUE => bjob[i] \in {"delayed", "waiting", "active"}

BInv == BTypeOK /\ OneActive /\ WantedMayRun /\ BlockedOnlyByFailure

-----------------------------------------------------------------------------
\* The caller's side: jobs are added and removed.
LEMMA CallerStep ==
  ASSUME BInv, NEW i \in Id, AddJob(i) \/ AddTaken(i) \/ RemoveJob(i)
  PROVE  BInv'
<1> USE BullMqAssumption DEF BInv, BTypeOK, BJobState
<1>1. CASE AddJob(i)
  <2>1. BTypeOK'
    BY <1>1 DEF AddJob
  <2>2. OneActive' /\ WantedMayRun' /\ BlockedOnlyByFailure'
    BY <1>1 DEF AddJob, OneActive, WantedMayRun, BlockedOnlyByFailure
  <2>3. QED
    BY <2>1, <2>2
<1>2. CASE AddTaken(i)
  <2>1. BTypeOK'
    BY <1>2 DEF AddTaken
  <2>2. OneActive' /\ WantedMayRun' /\ BlockedOnlyByFailure'
    BY <1>2 DEF AddTaken, OneActive, WantedMayRun, BlockedOnlyByFailure
  <2>3. QED
    BY <2>1, <2>2
<1>3. CASE RemoveJob(i)
  <2>1. BTypeOK'
    BY <1>3 DEF RemoveJob, BFault
  <2>2. OneActive' /\ WantedMayRun' /\ BlockedOnlyByFailure'
    BY <1>3 DEF RemoveJob, OneActive, WantedMayRun, BlockedOnlyByFailure
  <2>3. QED
    BY <2>1, <2>2
<1>4. QED
  BY <1>1, <1>2, <1>3

\* The worker's side: a job is run, succeeds, fails or stalls.
LEMMA WorkerStep ==
  ASSUME BInv, NEW i \in Id, JobStep(i) \/ JobThrows(i) \/ JobStalls(i)
  PROVE  BInv'
<1> USE BullMqAssumption DEF BInv, BTypeOK, BJobState
<1>1. CASE Promote(i)
  <2>1. BTypeOK'
    BY <1>1 DEF Promote
  <2>2. OneActive' /\ WantedMayRun' /\ BlockedOnlyByFailure'
    BY <1>1 DEF Promote, OneActive, WantedMayRun, BlockedOnlyByFailure
  <2>3. QED
    BY <2>1, <2>2
<1>2. CASE RunJob(i)
  <2>1. BTypeOK'
    BY <1>2 DEF RunJob
  <2>2. OneActive' /\ WantedMayRun' /\ BlockedOnlyByFailure'
    BY <1>2 DEF RunJob, OneActive, WantedMayRun, BlockedOnlyByFailure
  <2>3. QED
    BY <2>1, <2>2
<1>3. CASE JobDone(i)
  <2>1. BTypeOK'
    BY <1>3 DEF JobDone
  <2>2. OneActive' /\ WantedMayRun' /\ BlockedOnlyByFailure'
    BY <1>3 DEF JobDone, OneActive, WantedMayRun, BlockedOnlyByFailure
  <2>3. QED
    BY <2>1, <2>2
<1>4. CASE JobThrows(i)
  <2>1. /\ btries'[i] = btries[i] + 1 /\ btries' \in [Id -> Nat]
        /\ \A k \in Id \ {i} :
             btries'[k] = btries[k] /\ bjob'[k] = bjob[k] /\ wanted'[k] = wanted[k]
    BY <1>4 DEF JobThrows
  <2>2. CASE btries'[i] >= BAttempts
    <3>1. bjob'[i] = AfterFailure /\ wanted'[i] = FALSE
      <4>1. bjob'[i] = AfterFailure
        BY <1>4, <2>1, <2>2 DEF JobThrows
      <4>2. ~(btries'[i] < BAttempts)
        BY <2>1, <2>2
      <4>3. wanted'[i] = (wanted[i] /\ btries'[i] < BAttempts)
        BY <1>4, Zenon DEF JobThrows
      <4>4. QED
        BY <4>1, <4>2, <4>3, Zenon
    <3>2. BTypeOK'
      BY <1>4, <2>1, <2>2 DEF JobThrows, BFault, AfterFailure
    <3>3. OneActive' /\ WantedMayRun' /\ BlockedOnlyByFailure'
      BY <1>4, <2>1, <2>2, <3>1
         DEF JobThrows, AfterFailure, OneActive, WantedMayRun, BlockedOnlyByFailure
    <3>4. QED
      BY <3>2, <3>3
  <2>3. CASE btries'[i] < BAttempts
    <3>1. bjob'[i] \in {"waiting", "delayed"}
      BY <1>4, <2>1, <2>3 DEF JobThrows
    <3>2. BTypeOK'
      BY <1>4, <2>1, <2>3 DEF JobThrows, BFault
    <3>3. OneActive' /\ WantedMayRun' /\ BlockedOnlyByFailure'
      BY <1>4, <2>1, <2>3, <3>1
         DEF JobThrows, OneActive, WantedMayRun, BlockedOnlyByFailure
    <3>4. QED
      BY <3>2, <3>3
  <2>4. QED
    BY <2>1, <2>2, <2>3
<1>5. CASE JobStalls(i)
  <2>1. /\ bstalls'[i] = bstalls[i] + 1 /\ bstalls' \in [Id -> Nat]
        /\ \A k \in Id \ {i} :
             bstalls'[k] = bstalls[k] /\ bjob'[k] = bjob[k] /\ wanted'[k] = wanted[k]
    BY <1>5 DEF JobStalls
  <2>2. CASE bstalls'[i] > BMaxStalled
    <3>1. bjob'[i] = AfterFailure /\ wanted'[i] = FALSE
      <4>1. bjob'[i] = AfterFailure
        BY <1>5, <2>1, <2>2 DEF JobStalls
      <4>2. ~(bstalls'[i] <= BMaxStalled)
        BY <2>1, <2>2
      <4>3. wanted'[i] = (wanted[i] /\ bstalls'[i] <= BMaxStalled)
        BY <1>5, Zenon DEF JobStalls
      <4>4. QED
        BY <4>1, <4>2, <4>3, Zenon
    <3>2. BTypeOK'
      BY <1>5, <2>1, <2>2 DEF JobStalls, BFault, AfterFailure
    <3>3. OneActive' /\ WantedMayRun' /\ BlockedOnlyByFailure'
      BY <1>5, <2>1, <2>2, <3>1
         DEF JobStalls, AfterFailure, OneActive, WantedMayRun, BlockedOnlyByFailure
    <3>4. QED
      BY <3>2, <3>3
  <2>3. CASE bstalls'[i] <= BMaxStalled
    <3>1. bjob'[i] = "waiting"
      BY <1>5, <2>1, <2>3 DEF JobStalls
    <3>2. BTypeOK'
      BY <1>5, <2>1, <2>3 DEF JobStalls, BFault
    <3>3. OneActive' /\ WantedMayRun' /\ BlockedOnlyByFailure'
      BY <1>5, <2>1, <2>3, <3>1
         DEF JobStalls, OneActive, WantedMayRun, BlockedOnlyByFailure
    <3>4. QED
      BY <3>2, <3>3
  <2>4. QED
    BY <2>1, <2>2, <2>3
<1>6. QED
  BY <1>1, <1>2, <1>3, <1>4, <1>5 DEF JobStep

\* The invariant in every reachable state.
THEOREM BullMqInvariance == BSpec => []BInv
<1>1. BInit => BInv
  <2> SUFFICES ASSUME BInit PROVE BInv
    OBVIOUS
  <2>1. BTypeOK
    BY BullMqAssumption DEF BInit, BTypeOK, BJobState
  <2>2. OneActive /\ WantedMayRun /\ BlockedOnlyByFailure
    BY DEF BInit, OneActive, WantedMayRun, BlockedOnlyByFailure
  <2>3. QED
    BY <2>1, <2>2 DEF BInv
<1>2. BInv /\ [BNext]_bvars => BInv'
  <2> SUFFICES ASSUME BInv, [BNext]_bvars PROVE BInv'
    OBVIOUS
  <2>1. CASE UNCHANGED bvars \/ SetQueues \/ CloseQueues
    <3>1. UNCHANGED <<bmode, bjob, btries, bstalls, wanted, asked>> /\ bfaults' \in Nat
      BY <2>1 DEF bvars, SetQueues, CloseQueues, BFault, BInv, BTypeOK
    <3>2. QED
      BY <3>1 DEF BInv, BTypeOK, OneActive, WantedMayRun, BlockedOnlyByFailure
  <2>2. QED
    BY <2>1, CallerStep, WorkerStep DEF BNext
<1>3. QED
  BY <1>1, <1>2, PTL DEF BSpec

\* Only a job that BullMQ has given up, after its last attempt or one stall too
\* many, keeps its identifier taken.
THEOREM OnlyFailureBlocks == BSpec => []BlockedOnlyByFailure
<1>1. BInv => BlockedOnlyByFailure
  BY DEF BInv
<1>2. QED
  BY BullMqInvariance, <1>1, PTL
=============================================================================
