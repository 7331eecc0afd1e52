---- MODULE MCOutgoingReplies ----
(* Small instances of OutgoingReplies for TLC. *)
EXTENDS OutgoingReplies
====
