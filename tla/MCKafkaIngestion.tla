-------------------------- MODULE MCKafkaIngestion --------------------------
(* KafkaIngestion for TLC: small topics with good, poison and empty messages. *)
EXTENDS KafkaIngestion

CONSTANTS k1

Write(k) == [kind |-> "write", key |-> k]
Poison == [kind |-> "poison", key |-> k1]
Tombstone == [kind |-> "empty", key |-> k1]

\* One record written twice, also around a poison message, and topics that a
\* consumer cannot get past: poison under the blocking policy, a message without payload.
CleanTopic == << <<Write(k1), Write(k1)>> >>
PoisonedTopic == << <<Write(k1), Poison, Write(k1)>> >>
BlockedTopic == << <<Poison>> >>
TombstoneTopic == << <<Tombstone>> >>

MCConfigs ==
  [topic : {CleanTopic}, policy : {"block"}, env : {TRUE}]
    \cup [topic : {PoisonedTopic}, policy : {"dlq"}, env : {FALSE}]
    \cup [topic : {BlockedTopic}, policy : {"block"}, env : {FALSE}]
    \cup [topic : {TombstoneTopic}, policy : {"dlq"}, env : {FALSE}]
=============================================================================
