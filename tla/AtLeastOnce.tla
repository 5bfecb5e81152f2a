----------------------------- MODULE AtLeastOnce -----------------------------
(***************************************************************************)
(* What a durable channel between two processes promises: a message whose  *)
(* sending has been reported as done is stored, what is stored is handed to*)
(* the receiver's handler until the handler has succeeded (perhaps more    *)
(* often), and only then may the broker forget it.                         *)
(***************************************************************************)
CONSTANT Msg

VARIABLES
  stored,     \* messages the broker has taken
  returned,   \* messages whose sender has been told that they were sent
  handled,    \* messages a handler call has succeeded for
  forgotten   \* messages the broker need not deliver again

channel == <<stored, returned, handled, forgotten>>

ChannelInit ==
  stored = {} /\ returned = {} /\ handled = {} /\ forgotten = {}

Store(m) ==
  /\ stored' = stored \union {m}
  /\ UNCHANGED <<returned, handled, forgotten>>

ReturnToSender(m) ==
  /\ m \in stored
  /\ returned' = returned \union {m}
  /\ UNCHANGED <<stored, handled, forgotten>>

Handle(S) ==
  /\ S \subseteq stored
  /\ handled' = handled \union S
  /\ UNCHANGED <<stored, returned, forgotten>>

\* The receiver acknowledges, or commits its offset, up to some message.
Forget(S) ==
  /\ S \subseteq handled
  /\ forgotten' = forgotten \union S
  /\ UNCHANGED <<stored, returned, handled>>

ChannelNext ==
  \/ \E m \in Msg : Store(m) \/ ReturnToSender(m)
  \/ \E S \in SUBSET Msg : Handle(S) \/ Forget(S)

ChannelSpec == ChannelInit /\ [][ChannelNext]_channel
=============================================================================
