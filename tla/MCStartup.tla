----------------------------- MODULE MCStartup -----------------------------
EXTENDS Startup
MCSchemaOf == [r \in Replicas |-> "new"]
MCFlags ==
  {[broker |-> "", uri |-> "", queue |-> "q"], [broker |-> "AMQP", uri |-> "u", queue |-> "q"],
   [broker |-> "amqp", uri |-> "", queue |-> "q"], [broker |-> "kafka", uri |-> "u", queue |-> "q"]}
=============================================================================
