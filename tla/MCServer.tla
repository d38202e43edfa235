------------------------------ MODULE MCServer ------------------------------
(* Instances of Server for TLC. *)
EXTENDS Server

\* One client uses every endpoint; another lists the subscribers now and then.
MCServed == [c \in Clients |-> IF c = "c1" THEN Routes ELSE {GetSubscribers}]
=============================================================================
