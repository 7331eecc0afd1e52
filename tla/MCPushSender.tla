---- MODULE MCPushSender ----
(* Small instances of PushSender for TLC. *)
EXTENDS PushSender
====
