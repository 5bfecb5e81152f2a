-------------------------- MODULE RabbitRequestReply --------------------------
(***************************************************************************)
(* RequestReplyProducerRabbitMq and RequestReplyConsumerRabbitMq.  Every   *)
(* call of sendAsync adds one more consumer to the reply queue, which is   *)
(* never cancelled; the broker deals the replies out to all of them, and a *)
(* consumer acknowledges only the reply of its own call.  A reply that     *)
(* another call's consumer got stays unacknowledged until the channel is   *)
(* lost.  There is no timeout.                                             *)
(***************************************************************************)
EXTENDS Naturals

CONSTANTS
  Call,       \* the calls of sendAsync on one reply queue, each with its own
              \* correlationId
  NoCall,
  QFaults     \* bound: how many faults happen in one behaviour

ASSUME RequestReplyAssumption == NoCall \notin Call /\ QFaults \in Nat

VARIABLES
  rr,         \* [Call -> where the call is]
  answer,     \* [Call -> the call whose reply resolved the promise]
  consuming,  \* calls whose consumer is registered on the reply queue
  request,    \* [Call -> where the request is]
  reply,      \* the replies not acknowledged: to which call, who has it, and
              \* a number that tells duplicates apart
  qfaults

rrvars == <<rr, answer, consuming, request, reply, qfaults>>

QFault == qfaults < QFaults /\ qfaults' = qfaults + 1

RequestState == {"none", "queued", "held", "replied", "acked"}

\* A reply is in the queue, at NoCall, or delivered to the consumer of a call.
\* Two replies to one request have a crash between them.
Reply == [to : Call, at : Call \union {NoCall}, nr : 0..QFaults]

-----------------------------------------------------------------------------
\* sendAsync: consume the reply queue, then send the request.  Neither is awaited,
\* and the failure of either is left out.
QSend(c) ==
  /\ rr[c] = "new"
  /\ rr' = [rr EXCEPT ![c] = "waiting"]
  /\ consuming' = consuming \union {c}
  /\ request' = [request EXCEPT ![c] = "queued"]
  /\ UNCHANGED <<answer, reply, qfaults>>

\* channel.consume(queueName, ...): no prefetch limit.
QTake(c) ==
  /\ request[c] = "queued"
  /\ request' = [request EXCEPT ![c] = "held"]
  /\ UNCHANGED <<rr, answer, consuming, reply, qfaults>>

\* Slip: the request is acknowledged before onMessage has replied.
QAckFirst(c) ==
  /\ request[c] = "held"
  /\ request' = [request EXCEPT ![c] = "acked"]
  /\ UNCHANGED <<rr, answer, consuming, reply, qfaults>>

\* onMessage calls reply: sendToQueue(replyQueue, ..., { correlationId }).  The
\* handler is assumed to put no other correlationId into its response than the
\* one of the request, which is the default.
QReply(c) ==
  /\ request[c] = "held"
  /\ request' = [request EXCEPT ![c] = "replied"]
  /\ reply' = reply \union {[to |-> c, at |-> NoCall, nr |-> qfaults]}
  /\ UNCHANGED <<rr, answer, consuming, qfaults>>

\* channel.ack(msg)
QAck(c) ==
  /\ request[c] = "replied"
  /\ request' = [request EXCEPT ![c] = "acked"]
  /\ UNCHANGED <<rr, answer, consuming, reply, qfaults>>

\* onMessage throws, or the process of the consumer dies, and is restarted: its
\* unacknowledged requests are queued again.
QServerCrash ==
  /\ QFault
  /\ request' = [c \in Call |->
       IF request[c] \in {"held", "replied"} THEN "queued" ELSE request[c]]
  /\ UNCHANGED <<rr, answer, consuming, reply>>

\* Slip: any reply will do.
QDeliverAny(r, d) ==
  /\ d \in consuming
  /\ r.at = NoCall
  /\ rr' = [rr EXCEPT ![d] = "replied"]
  /\ answer' = [answer EXCEPT ![d] = IF @ = NoCall THEN r.to ELSE @]
  /\ reply' = reply \ {r}
  /\ UNCHANGED <<consuming, request, qfaults>>

\* The broker gives reply r to the consumer of call d.  Only with the right
\* correlationId does the callback resolve and acknowledge; resolving a promise
\* again does nothing.
QDeliver(r, d) ==
  /\ d \in consuming
  /\ r.at = NoCall
  /\ IF r.to = d
       THEN /\ rr' = [rr EXCEPT ![d] = "replied"]
            /\ answer' = [answer EXCEPT ![d] = IF @ = NoCall THEN r.to ELSE @]
            /\ reply' = reply \ {r}
       ELSE /\ reply' = (reply \ {r}) \union {[r EXCEPT !.at = d]}
            /\ UNCHANGED <<rr, answer>>
  /\ UNCHANGED <<consuming, request, qfaults>>

\* What was delivered and not acknowledged is in the queue again.
GiveBack == reply' = {[r EXCEPT !.at = NoCall] : r \in reply}

\* The channel of the caller is lost; the channel wrapper registers all its
\* consumers on the next one.
QReconnect ==
  /\ QFault
  /\ GiveBack
  /\ UNCHANGED <<rr, answer, consuming, request>>

\* The process of the caller dies, with the calls it was waiting for.
QClientCrash ==
  /\ QFault
  /\ GiveBack
  /\ rr' = [c \in Call |-> IF rr[c] = "waiting" THEN "lost" ELSE rr[c]]
  /\ consuming' = {}
  /\ UNCHANGED <<answer, request>>

-----------------------------------------------------------------------------
QInit ==
  /\ rr = [c \in Call |-> "new"]
  /\ answer = [c \in Call |-> NoCall]
  /\ consuming = {}
  /\ request = [c \in Call |-> "none"]
  /\ reply = {}
  /\ qfaults = 0

QServe(c) == QTake(c) \/ QReply(c) \/ QAck(c)

QBroker == \E r \in reply, d \in Call : QDeliver(r, d)

QNext ==
  \/ \E c \in Call : QSend(c) \/ QServe(c)
  \/ QBroker \/ QServerCrash \/ QReconnect \/ QClientCrash

QSpec == QInit /\ [][QNext]_rrvars

-----------------------------------------------------------------------------
\* A call is resolved with the reply to its own request, whatever else arrives
\* in the shared reply queue: duplicates, replies to other calls, replies to
\* calls of a process that is gone.
OwnReply ==
  \A c \in Call : answer[c] # NoCall => answer[c] = c

\* While a call waits, its answer exists or can still be made: the request is
\* queued or in work, or a reply is in the queue or in some consumer's hands.
ReplyIsSomewhere ==
  \A c \in Call :
    rr[c] = "waiting" =>
      \/ request[c] \in {"queued", "held"}
      \/ \E r \in reply : r.to = c

\* A call is answered unless a consumer of another call was there to take its
\* reply.  (With one there it may wait for ever: see the hazards.)
AnsweredWhenAlone ==
  \A c \in Call : (rr[c] = "waiting") ~> (rr[c] # "waiting" \/ consuming # {c})
=============================================================================
