------------------------- MODULE MCOutboxDispatch -------------------------
(* Model values and symmetry for the runs of OutboxDispatch.                 *)
EXTENDS OutboxDispatch, TLC

Symmetry == Permutations(Tick) \union Permutations(Event) \union Permutations(Conn)
=============================================================================
