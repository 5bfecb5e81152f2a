---------------------------- MODULE KafkaDelivery ----------------------------
(***************************************************************************)
(* The Kafka helpers: PubSubProducerKafka / SenderReceiverProducerKafka and*)
(* PubSubConsumerKafka / SenderReceiverConsumerKafka, whose methods are the*)
(* same but for the type of the message.  All calls of a process share one *)
(* kafkajs producer, which every call connects first and disconnects last. *)
(* The topic has one partition; kafkajs commits offsets by itself.         *)
(***************************************************************************)
EXTENDS Naturals, Sequences, FiniteSets

CONSTANTS
  KMsg,         \* the messages, each sent by one call
  NoValue,      \* an entry without a value, written by somebody else
  KFaults,      \* bound: how many faults happen in one behaviour
  KAttempts     \* attempts of sender and receiver (3 in the code)

ASSUME KafkaAssumption ==
  NoValue \notin KMsg /\ KFaults \in Nat /\ KAttempts \in Nat \ {0}

VARIABLES
  kcall,     \* [KMsg -> where the producer's method is]
  ktries,    \* [KMsg -> failed attempts to send]
  connected, \* whether the shared producer is connected
  log,       \* the partition: a sequence of messages
  position,  \* entries the consumer has been through since it started
  offset,    \* the committed offset of the consumer group
  kfailed,   \* failed attempts to handle the entry at position + 1
  kdone,     \* entries of the log whose handler succeeded
  kfaults

kvars == <<kcall, ktries, connected, log, position, offset, kfailed, kdone, kfaults>>

KCallState == {"new", "connect", "send", "close", "throw", "sent", "error"}

KFault == kfaults < KFaults /\ kfaults' = kfaults + 1

KCallTo(m, s) == kcall' = [kcall EXCEPT ![m] = s]

SameConsumer == UNCHANGED <<position, offset, kfailed, kdone>>
SameProducer == UNCHANGED <<kcall, ktries, connected, log>>

-----------------------------------------------------------------------------
\* publishMessageAsync / sendAsync is called.
KStart(m) ==
  /\ kcall[m] = "new"
  /\ KCallTo(m, "connect")
  /\ UNCHANGED <<ktries, connected, log, kfaults>> /\ SameConsumer

\* await this.producer.connect()
KConnect(m) ==
  /\ kcall[m] = "connect"
  /\ \/ connected' = TRUE /\ KCallTo(m, "send") /\ UNCHANGED kfaults
     \/ KFault /\ KCallTo(m, "throw") /\ UNCHANGED connected
  /\ UNCHANGED <<ktries, log>> /\ SameConsumer

\* await this.producer.send(...), and break
KSend(m) ==
  /\ kcall[m] = "send"
  /\ connected
  /\ log' = Append(log, m)
  /\ KCallTo(m, "close")
  /\ UNCHANGED <<ktries, connected, kfaults>> /\ SameConsumer

\* Slip: the last error is logged like the others, and not thrown.
KSendFailsQuietly(m) ==
  /\ kcall[m] = "send"
  /\ \/ ~connected /\ UNCHANGED <<log, kfaults>>
     \/ connected /\ KFault /\ log' \in {log, Append(log, m)}
  /\ ktries' = [ktries EXCEPT ![m] = @ + 1]
  /\ IF ktries'[m] = KAttempts THEN KCallTo(m, "close") ELSE UNCHANGED kcall
  /\ UNCHANGED connected /\ SameConsumer

\* An attempt fails: at once when another call has disconnected the producer
\* in between, or without an answer, and then the broker may have stored the
\* message.  The third error is thrown.
KSendFails(m) ==
  /\ kcall[m] = "send"
  /\ \/ ~connected /\ UNCHANGED <<log, kfaults>>
     \/ connected /\ KFault /\ log' \in {log, Append(log, m)}
  /\ ktries' = [ktries EXCEPT ![m] = @ + 1]
  /\ IF ktries'[m] = KAttempts THEN KCallTo(m, "throw") ELSE UNCHANGED kcall
  /\ UNCHANGED connected /\ SameConsumer

\* finally { await this.producer.disconnect() }, taken to succeed: an exception
\* here would replace the result of a call that has sent its message.
KClose(m) ==
  /\ \/ kcall[m] = "close" /\ KCallTo(m, "sent")
     \/ kcall[m] = "throw" /\ KCallTo(m, "error")
  /\ connected' = FALSE
  /\ UNCHANGED <<ktries, log, kfaults>> /\ SameConsumer

-----------------------------------------------------------------------------
\* Slip: the body is parsed before it is looked at, and null is no object.
KParseFirst ==
  /\ position < Len(log)
  /\ log[position + 1] = NoValue
  /\ offset' = position
  /\ UNCHANGED <<position, kfailed, kdone, kfaults>> /\ SameProducer

\* if (!message.value) return
KSkip ==
  /\ position < Len(log)
  /\ log[position + 1] = NoValue
  /\ position' = position + 1
  /\ UNCHANGED <<offset, kfailed, kdone, kfaults>> /\ SameProducer

\* await onMessage(parsedMessage), and break
KHandle ==
  /\ position < Len(log)
  /\ log[position + 1] # NoValue
  /\ kdone' = kdone \union {position + 1}
  /\ position' = position + 1
  /\ kfailed' = 0
  /\ UNCHANGED <<offset, kfaults>> /\ SameProducer

\* Slip: after the last attempt the entry is given up.
KHandlerGivesUp ==
  /\ position < Len(log)
  /\ log[position + 1] # NoValue
  /\ KFault
  /\ IF kfailed + 1 = KAttempts
       THEN kfailed' = 0 /\ position' = position + 1 /\ UNCHANGED offset
       ELSE kfailed' = kfailed + 1 /\ UNCHANGED <<position, offset>>
  /\ UNCHANGED kdone /\ SameProducer

\* The handler throws.  The third error leaves eachMessage: kafkajs commits
\* what it has been through and delivers the same entry again.
KHandlerThrows ==
  /\ position < Len(log)
  /\ log[position + 1] # NoValue
  /\ KFault
  /\ IF kfailed + 1 = KAttempts
       THEN kfailed' = 0 /\ offset' = position
       ELSE kfailed' = kfailed + 1 /\ UNCHANGED offset
  /\ UNCHANGED <<position, kdone>> /\ SameProducer

\* kafkajs commits by itself, between two messages.
KCommit ==
  /\ offset < position
  /\ offset' = position
  /\ UNCHANGED <<position, kfailed, kdone, kfaults>> /\ SameProducer

\* The consumer's process dies; the next one of the group starts from the
\* committed offset, or from the beginning.
KConsumerCrash ==
  /\ KFault
  /\ position' = offset
  /\ kfailed' = 0
  /\ UNCHANGED <<offset, kdone>> /\ SameProducer

-----------------------------------------------------------------------------
KInit ==
  /\ kcall = [m \in KMsg |-> "new"]
  /\ ktries = [m \in KMsg |-> 0]
  /\ connected = FALSE
  /\ log \in {<<>>, <<NoValue>>}
  /\ position = 0 /\ offset = 0 /\ kfailed = 0 /\ kdone = {}
  /\ kfaults = 0

KReceive == KSkip \/ KHandle

KNext ==
  \/ \E m \in KMsg : KStart(m) \/ KConnect(m) \/ KSend(m) \/ KSendFails(m) \/ KClose(m)
  \/ KReceive \/ KHandlerThrows \/ KCommit \/ KConsumerCrash

KSpec == KInit /\ [][KNext]_kvars

-----------------------------------------------------------------------------
Entries(S) == {log[i] : i \in S} \ {NoValue}

KChannel == INSTANCE AtLeastOnce WITH
  Msg <- KMsg,
  stored <- Entries(1..Len(log)),
  returned <- {m \in KMsg : kcall[m] = "sent"},
  handled <- Entries(kdone),
  forgotten <- Entries(1..offset)

\* The retries, the shared producer that any call may disconnect under the
\* others, and the offsets committed behind the handler's back make a channel
\* that delivers at least once: sendAsync returns normally only when the
\* message is stored, and what is committed has been handled.
KafkaIsAChannel == KChannel!ChannelSpec

\* Entries are handled in the order of the log: one that fails three times is
\* never passed by a later one, and the committed offset never passes it.
PartitionInOrder ==
  /\ offset <= position
  /\ \A i \in 1..Len(log) :
       i <= position \/ (\E j \in kdone : j >= i) => i \in kdone \/ log[i] = NoValue

\* What is in the log is handled in the end, whoever sent it and however often
\* handler and consumer fail first.
LoggedIsHandled ==
  \A i \in 1..(1 + Cardinality(KMsg) * KAttempts) :
    (i <= Len(log) /\ log[i] # NoValue) ~> (i \in kdone)
=============================================================================
