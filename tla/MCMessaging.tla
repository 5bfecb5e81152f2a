----------------------------- MODULE MCMessaging -----------------------------
(* Messaging helpers, which have no state in common: a behaviour is one of   *)
(* `helper', and the state of the others stays as it is initially.           *)
EXTENDS KafkaDelivery, RabbitRequestReply, BullMqJobs

VARIABLE helper

OthersThan(h) ==
  /\ h # "kafka" => UNCHANGED kvars
  /\ h # "requestReply" => UNCHANGED rrvars
  /\ h # "bullMq" => UNCHANGED bvars
  /\ UNCHANGED helper

messaging == <<helper, kvars, rrvars, bvars>>

MessagingInit ==
  \/ /\ helper = "kafka" /\ KInit
     /\ QInit /\ BInit /\ bmode = "send"
  \/ /\ helper = "requestReply" /\ QInit
     /\ KInit /\ log = <<>> /\ BInit /\ bmode = "send"
  \/ /\ helper = "bullMq" /\ BInit
     /\ KInit /\ log = <<>> /\ QInit

MessagingNext ==
  \/ helper = "kafka" /\ KNext /\ OthersThan("kafka")
  \/ helper = "requestReply" /\ QNext /\ OthersThan("requestReply")
  \/ helper = "bullMq" /\ BNext /\ OthersThan("bullMq")

\* Consumers go on consuming, the broker delivering, processes are restarted.
\* The list of waiting jobs is first in first out.
MessagingFairness ==
  /\ WF_messaging(helper = "kafka" /\ KReceive /\ OthersThan("kafka"))
  /\ WF_messaging(helper = "requestReply" /\ QBroker /\ OthersThan("requestReply"))
  /\ \A c \in Call :
       WF_messaging(helper = "requestReply" /\ QServe(c) /\ OthersThan("requestReply"))
  /\ \A i \in Id :
       /\ WF_messaging(helper = "bullMq" /\ JobStep(i) /\ OthersThan("bullMq"))
       /\ SF_messaging(helper = "bullMq" /\ RunJob(i) /\ OthersThan("bullMq"))

MessagingSpec ==
  MessagingInit /\ [][MessagingNext]_messaging /\ MessagingFairness
=============================================================================
