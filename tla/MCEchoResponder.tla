-------------------------- MODULE MCEchoResponder --------------------------
(* Instances of EchoResponder for TLC. *)
EXTENDS EchoResponder

CONSTANTS ping, blob, pub, own

\* An echo request, a blob request, a published ping and the mirror of one,
\* which comes back because the responder subscribes that topic, too.
MCTopicOf(m) == CASE m = ping -> "echo" [] m = blob -> "putblob"
                  [] m = pub -> "pubsub" [] m = own -> "pubsubRes"
MCAsks(m) == m \in {ping, blob}
=============================================================================
