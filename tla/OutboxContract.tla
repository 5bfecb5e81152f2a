--------------------------- MODULE OutboxContract ---------------------------
(***************************************************************************)
(* What the outbox pattern promises, without transactions, processes or    *)
(* queues: an event is committed with the data it is about; only a         *)
(* committed event is delivered; it is marked as published only after it   *)
(* was delivered; and neither mark is ever taken back.  Delivery may be    *)
(* repeated.                                                               *)
(***************************************************************************)
EXTENDS Naturals

CONSTANT Event

VARIABLES
  committed,  \* events in the outbox table
  delivered,  \* [Event -> Nat]: how often each was delivered
  published   \* events marked as published

contractVars == <<committed, delivered, published>>

ContractInit ==
  /\ committed \subseteq Event
  /\ delivered = [e \in Event |-> 0]
  /\ published = {}

CommitEvent(e) ==
  /\ e \notin committed
  /\ committed' = committed \union {e}
  /\ UNCHANGED <<delivered, published>>

Deliver(e) ==
  /\ e \in committed
  /\ delivered' = [delivered EXCEPT ![e] = @ + 1]
  /\ UNCHANGED <<committed, published>>

\* One transaction may mark several events.
MarkPublished(S) ==
  /\ S \subseteq committed
  /\ \A e \in S : delivered[e] >= 1
  /\ published' = published \union S
  /\ UNCHANGED <<committed, delivered>>

ContractNext ==
  \/ \E e \in Event : CommitEvent(e) \/ Deliver(e)
  \/ \E S \in SUBSET Event : MarkPublished(S)

ContractSpec == ContractInit /\ [][ContractNext]_contractVars
=============================================================================
