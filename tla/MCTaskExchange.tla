---- MODULE MCTaskExchange ----
(* Small instances of TaskExchange for TLC. *)
EXTENDS TaskExchange
====
