---------------------------- MODULE MCTopicCache ----------------------------
(* Values for the constants of TopicCache that a .cfg cannot write down.   *)
EXTENDS TopicCache

BothRoles == {"producer", "consumer"}
=============================================================================
