---------------------------- MODULE RabbitDelivery ----------------------------
(***************************************************************************)
(* The one-way RabbitMQ helpers.  "send": SenderReceiverProducerRabbitMq   *)
(* to a durable queue, SenderReceiverConsumerRabbitMq without a prefetch   *)
(* limit.  "publish": PubSubProducerRabbitMq to a topic exchange,          *)
(* PubSubConsumerRabbitMq with a queue that exists as long as its          *)
(* connection, and one message at a time.                                  *)
(***************************************************************************)
EXTENDS Naturals, Sequences, FiniteSets

CONSTANTS
  RMsg,      \* the messages, each sent by one call
  RFaults    \* bound: how many faults happen in one behaviour

ASSUME RabbitAssumption == RFaults \in Nat

VARIABLES
  pattern,    \* "send" or "publish"
  rcall,      \* [RMsg -> "new", "wait", "returned"]
  place,      \* [RMsg -> where the broker has the message]
  arrival,    \* the messages that came into the queue, in this order
  subscribed, \* the consumer has a channel, which consumes
  tags,       \* deliveries on its channel so far: each has the next tag
  work,       \* the deliveries whose callback the consumer process is in
  rdone,      \* messages whose callback has succeeded
  rfaults

consumer == <<subscribed, tags, work>>
rvars == <<pattern, rcall, place, arrival, consumer, rdone, rfaults>>

\* unacked  delivered on the present channel
\* lost     dropped by the broker, or never taken by it
Place == {"none", "queued", "unacked", "acked", "lost"}

\* What a callback knows is its message and the tag of its delivery.  The age is
\* 0 on the present channel and ranks those of former channels; a callback that
\* has done its work has only the acknowledgement left.
Delivery == [msg : RMsg, tag : Nat, age : Nat, over : BOOLEAN]

RFault == rfaults < RFaults /\ rfaults' = rfaults + 1

-----------------------------------------------------------------------------
\* sendAsync / publishAsync is called: await this.channel.sendToQueue / publish.
RSend(m) ==
  /\ rcall[m] = "new"
  /\ rcall' = [rcall EXCEPT ![m] = "wait"]
  /\ UNCHANGED <<pattern, place, arrival, consumer, rdone, rfaults>>

\* The broker takes the message into the durable queue, which the setup of the
\* producer's channel has declared.
RStore(m) ==
  /\ pattern = "send"
  /\ rcall[m] = "wait"
  /\ place[m] = "none"
  /\ place' = [place EXCEPT ![m] = "queued"]
  /\ arrival' = Append(arrival, m)
  /\ UNCHANGED <<pattern, rcall, consumer, rdone, rfaults>>

\* The topic exchange routes the message to the queue of the subscriber, when
\* there is one: publishing is not mandatory.
RRoute(m) ==
  /\ pattern = "publish"
  /\ rcall[m] = "wait"
  /\ place[m] = "none"
  /\ place' = [place EXCEPT ![m] = IF subscribed THEN "queued" ELSE "lost"]
  /\ arrival' = Append(arrival, m)
  /\ UNCHANGED <<pattern, rcall, consumer, rdone, rfaults>>

\* The broker has confirmed.
RReturn(m) ==
  /\ rcall[m] = "wait"
  /\ place[m] # "none"
  /\ rcall' = [rcall EXCEPT ![m] = "returned"]
  /\ UNCHANGED <<pattern, place, arrival, consumer, rdone, rfaults>>

\* catch (error) { console.error(...) }: the caller is told nothing, whether the
\* broker has the message or never got it.
RSendFails(m) ==
  /\ rcall[m] = "wait"
  /\ RFault
  /\ rcall' = [rcall EXCEPT ![m] = "returned"]
  /\ place' = [place EXCEPT ![m] = IF @ = "none" THEN "lost" ELSE @]
  /\ UNCHANGED <<pattern, arrival, consumer, rdone>>

\* The queue is first in first out; what is queued again has its old position.
First(m) ==
  \E i \in 1..Len(arrival) :
    arrival[i] = m /\ \A j \in 1..(i - 1) : place[arrival[j]] # "queued"

\* channel.consume(...): prefetch(1) for the subscriber, no limit otherwise.  The
\* callback starts at once, whatever others are in progress.
RDeliver(m) ==
  /\ subscribed
  /\ place[m] = "queued" /\ First(m)
  /\ pattern = "publish" => \A n \in RMsg : place[n] # "unacked"
  /\ place' = [place EXCEPT ![m] = "unacked"]
  /\ tags' = tags + 1
  /\ work' = work \union {[msg |-> m, tag |-> tags + 1, age |-> 0, over |-> FALSE]}
  /\ UNCHANGED <<pattern, rcall, arrival, subscribed, rdone, rfaults>>

\* await callback(message) / await onMessage(parsedMessage)
RCallback(w) ==
  /\ ~w.over
  /\ rdone' = rdone \union {w.msg}
  /\ work' = (work \ {w}) \union {[w EXCEPT !.over = TRUE]}
  /\ UNCHANGED <<pattern, rcall, place, arrival, subscribed, tags, rfaults>>

\* The consumer has no channel any more.  Its own queue goes with it; what the
\* durable queue had delivered without an acknowledgement is queued again.
Disconnected ==
  /\ subscribed' = FALSE
  /\ tags' = 0
  /\ place' = [m \in RMsg |->
       CASE pattern = "send" /\ place[m] = "unacked" -> "queued"
         [] pattern = "publish" /\ place[m] \in {"queued", "unacked"} -> "lost"
         [] OTHER -> place[m]]

\* Callbacks in progress go on without their channel.
Outlive(W) ==
  LET Younger(w) == {n \in 0..w.age : n < w.age /\ \E v \in W : v.age = n}
  IN  {[w EXCEPT !.age = 1 + Cardinality(Younger(w))] : w \in W}

\* The deliveries of the present channel that are not acknowledged and have tag t.
Tagged(t) ==
  {v \in work : v.age = 0 /\ v.tag = t /\ place[v.msg] = "unacked"}

\* Nobody gets the acknowledgement.
NotSent(w) ==
  /\ ~subscribed
  /\ work' = work \ {w}
  /\ UNCHANGED <<place, subscribed, tags>>

\* The broker acknowledges what it has delivered on the channel with this tag.
Accepted(w) ==
  /\ subscribed /\ Tagged(w.tag) # {}
  /\ place' = [m \in RMsg |->
       IF \E v \in Tagged(w.tag) : v.msg = m THEN "acked" ELSE place[m]]
  /\ work' = work \ {w}
  /\ UNCHANGED <<subscribed, tags>>

\* A tag it does not expect makes the broker close the channel
\* (PRECONDITION_FAILED).  The wrapper gets another with the next connection.
Refused(w) ==
  /\ subscribed /\ Tagged(w.tag) = {}
  /\ Disconnected
  /\ work' = Outlive(work \ {w})

\* Slip: the acknowledgement is sent before the callback is awaited.
RAckEarly(w) ==
  /\ NotSent(w) \/ Accepted(w) \/ Refused(w)
  /\ UNCHANGED <<pattern, rcall, arrival, rdone, rfaults>>

\* Slip: the acknowledgement is forgotten.
RAckForgotten(w) ==
  /\ w.over
  /\ work' = work \ {w}
  /\ UNCHANGED <<pattern, rcall, place, arrival, subscribed, tags, rdone, rfaults>>

\* this.channel.ack(msg): this.channel is the wrapper, which sends the tag of the
\* delivery on whatever channel it has by now, and nothing while it has none.  A
\* callback that has outlived its channel may so acknowledge another message.
RAck(w) ==
  /\ w.over
  /\ NotSent(w) \/ Accepted(w) \/ Refused(w)
  /\ UNCHANGED <<pattern, rcall, arrival, rdone, rfaults>>

\* The callback throws: a rejection that nobody handles ends the process, and
\* with it every other callback.  Or the process dies in another way.
RConsumerCrash ==
  /\ subscribed \/ work # {}
  /\ RFault
  /\ Disconnected
  /\ work' = {}
  /\ UNCHANGED <<pattern, rcall, arrival, rdone>>

\* Only the connection is lost.
RConnectionLost ==
  /\ subscribed
  /\ RFault
  /\ Disconnected
  /\ work' = Outlive(work)
  /\ UNCHANGED <<pattern, rcall, arrival, rdone>>

\* pm2 restarts the worker, or the connection manager connects again; the
\* channel's setup declares the queue, and the wrapper consumes from it.
RSubscribe ==
  /\ ~subscribed
  /\ subscribed' = TRUE
  /\ UNCHANGED <<pattern, rcall, place, arrival, tags, work, rdone, rfaults>>

-----------------------------------------------------------------------------
RInit ==
  /\ pattern \in {"send", "publish"}
  /\ rcall = [m \in RMsg |-> "new"]
  /\ place = [m \in RMsg |-> "none"]
  /\ arrival = <<>>
  /\ subscribed = FALSE /\ tags = 0
  /\ work = {}
  /\ rdone = {}
  /\ rfaults = 0

RConsume ==
  \/ \E m \in RMsg : RDeliver(m)
  \/ \E w \in work : RCallback(w) \/ RAck(w)

RNext ==
  \/ \E m \in RMsg :
       RSend(m) \/ RStore(m) \/ RRoute(m) \/ RReturn(m) \/ RSendFails(m)
  \/ RConsume \/ RSubscribe \/ RConsumerCrash \/ RConnectionLost

RSpec == RInit /\ [][RNext]_rvars

-----------------------------------------------------------------------------
SentByQueue(S) == IF pattern = "send" THEN S ELSE {}

RStored == SentByQueue({m \in RMsg : place[m] \notin {"none", "lost"}})
RReturned == SentByQueue({m \in RMsg : rcall[m] = "returned" /\ place[m] # "lost"})
RHandled == SentByQueue(rdone)
RForgotten == SentByQueue({m \in RMsg : place[m] = "acked"})

RChannel == INSTANCE AtLeastOnce WITH
  Msg <- RMsg, stored <- RStored, returned <- RReturned,
  handled <- RHandled, forgotten <- RForgotten

\* A callback from before a reconnect ends, and its acknowledgement makes the
\* broker forget the one message another callback, of this channel, is still in.
MistakenAck ==
  \E w, v \in work :
    /\ w.over /\ w.age > 0 /\ v.age = 0
    /\ work' = work \ {w}
    /\ RForgotten' = RForgotten \union {v.msg}
    /\ UNCHANGED <<RStored, RReturned, RHandled>>

\* What the broker has forgotten was handled, or is in the hands of the consumer.
Accounted(m) ==
  place[m] = "acked" => m \in rdone \/ \E w \in work : w.msg = m

\* The durable queue is a channel that delivers at least once, whatever crashes,
\* connections lost and callbacks that overlap, but for one kind of step: the
\* acknowledgement of a callback that has outlived its channel.  A message that
\* is forgotten so is still in a callback, and only the death of the process
\* takes it from there before it is handled.  (sendAsync returning says less than
\* with Kafka: a message it could not send is lost, which the caller does not
\* learn.)
QueueIsAChannel ==
  /\ RChannel!ChannelInit
  /\ [][MistakenAck \/ [RChannel!ChannelNext]_(RChannel!channel)]_rvars
  /\ [][\A m \in RMsg : Accounted(m) => Accounted(m)' \/ RConsumerCrash]_rvars

\* A message in a queue reaches the callback, even if only one is delivered at a
\* time, unless the queue goes with its subscriber or the message is acknowledged
\* by mistake.
QueuedReachesCallback ==
  \A m \in RMsg :
    (place[m] = "queued") ~> (m \in rdone \/ place[m] \in {"lost", "acked"})
=============================================================================
