------------------------------ MODULE MCLibrary ------------------------------
(* The helpers for workflows, for the database and for RabbitMQ queues, which*)
(* have no state in common: a behaviour is one of `helper', the state of the *)
(* others stays as it is initially.                                          *)
EXTENDS Saga, Pipeline, BatchArray, EntityStore, PagedList, RabbitDelivery

VARIABLE helper

OthersThan(h) ==
  /\ h # "saga" => UNCHANGED svars
  /\ h # "pipeline" => UNCHANGED pvars
  /\ h # "batch" => UNCHANGED bavars
  /\ h # "entity" => UNCHANGED evars
  /\ h # "list" => UNCHANGED lvars
  /\ h # "rabbit" => UNCHANGED rvars
  /\ UNCHANGED helper

library == <<helper, svars, bavars, pvars, evars, lvars, rvars>>

\* One initial state of each helper that a behaviour does not use.
SagaAside == retry = [i \in SagaStep |-> 1] /\ wrap = [i \in SagaStep |-> "none"]
BatchAside == count = 0 /\ runMode = "parallel"
PipelineAside == calls = CHOOSE p \in Programs : TRUE
ListAside == rows = <<>> /\ pageSize = CHOOSE n \in PageSizes : TRUE
EntityAside == \A i \in Identifier : table[i] = Absent
RabbitAside == pattern = "send"

LibraryInit ==
  /\ SInit /\ BAInit /\ PInit /\ EInit /\ LInit /\ RInit
  /\ helper \in {"saga", "pipeline", "batch", "entity", "list", "rabbit"}
  /\ helper # "saga" => SagaAside
  /\ helper # "batch" => BatchAside
  /\ helper # "pipeline" => PipelineAside
  /\ helper # "entity" => EntityAside
  /\ helper # "list" => ListAside
  /\ helper # "rabbit" => RabbitAside

LibraryNext ==
  \/ helper = "saga" /\ SNext /\ OthersThan("saga")
  \/ helper = "pipeline" /\ PNext /\ OthersThan("pipeline")
  \/ helper = "batch" /\ BANext /\ OthersThan("batch")
  \/ helper = "entity" /\ ENext /\ OthersThan("entity")
  \/ helper = "list" /\ LNext /\ OthersThan("list")
  \/ helper = "rabbit" /\ RNext /\ OthersThan("rabbit")

\* Actions and compensations of a saga end; the broker delivers, callbacks end, and
\* a consumer without a channel gets one.
LibraryFairness ==
  /\ WF_library(helper = "saga" /\ SagaProgress /\ OthersThan("saga"))
  /\ WF_library(helper = "rabbit" /\ RConsume /\ OthersThan("rabbit"))
  /\ WF_library(helper = "rabbit" /\ RSubscribe /\ OthersThan("rabbit"))

LibrarySpec == LibraryInit /\ [][LibraryNext]_library /\ LibraryFairness
=============================================================================
