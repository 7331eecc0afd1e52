---- MODULE PushDelivery ----
(***************************************************************************)
(* What the push sender promises its callers, with no worker, channel or   *)
(* lock in sight: each push config has one ordered list of events that     *)
(* were accepted and not yet settled, only its head is ever settled, and   *)
(* after shutdown nothing more is accepted.                                *)
(* PushSender (internal/agent/push.go) is shown to implement this module.  *)
(***************************************************************************)
EXTENDS Naturals, Sequences

CONSTANTS Configs,      \* webhook registrations, one per (taskID, configID)
          MaxEvents     \* bound on the events raised per config

VARIABLES shut,         \* TRUE once no event is accepted any more
          raised,       \* raised[k]: how many events were handed over for k
          pending,      \* pending[k]: accepted, unsettled event numbers, oldest first
          delivered,    \* delivered[k]: numbers of the events the webhook took
          failed        \* failed[k]: numbers of the events given up on

vars == <<shut, raised, pending, delivered, failed>>

Init ==
    /\ shut = FALSE
    /\ raised = [k \in Configs |-> 0]
    /\ pending = [k \in Configs |-> <<>>]
    /\ delivered = [k \in Configs |-> {}]
    /\ failed = [k \in Configs |-> {}]

\* The next event of config k is accepted behind the ones already waiting.
Accept(k) ==
    /\ ~shut
    /\ raised[k] < MaxEvents
    /\ raised' = [raised EXCEPT ![k] = @ + 1]
    /\ pending' = [pending EXCEPT ![k] = Append(@, raised[k] + 1)]
    /\ UNCHANGED <<shut, delivered, failed>>

\* The next event of config k is counted as failed without being accepted.
Refuse(k) ==
    /\ raised[k] < MaxEvents
    /\ raised' = [raised EXCEPT ![k] = @ + 1]
    /\ failed' = [failed EXCEPT ![k] = @ \cup {raised[k] + 1}]
    /\ UNCHANGED <<shut, pending, delivered>>

\* The oldest waiting event is settled, one way or the other.
Settle(k) ==
    /\ pending[k] # <<>>
    /\ pending' = [pending EXCEPT ![k] = Tail(@)]
    /\ \/ /\ delivered' = [delivered EXCEPT ![k] = @ \cup {Head(pending[k])}]
          /\ UNCHANGED failed
       \/ /\ failed' = [failed EXCEPT ![k] = @ \cup {Head(pending[k])}]
          /\ UNCHANGED delivered
    /\ UNCHANGED <<shut, raised>>

Shutdown ==
    /\ shut' = TRUE
    /\ UNCHANGED <<raised, pending, delivered, failed>>

Next ==
    \/ Shutdown
    \/ \E k \in Configs : Accept(k) \/ Refuse(k) \/ Settle(k)

\* What may happen.
Safety == Init /\ [][Next]_vars

\* Every accepted event is settled in the end: no retry loop is unbounded.
Spec == Safety /\ \A k \in Configs : WF_vars(Settle(k))

====
