---- MODULE MCDiscovery ----
(* Small instances of Discovery for TLC. *)
EXTENDS Discovery, TLC

CONSTANTS b1, b2, u1

\* A bridge and its successor at the same fixed port.
SameUrl == b1 :> u1 @@ b2 :> u1

Alone == b1 :> u1
====
