---- MODULE MCInbound ----
(* Small instances of Inbound for TLC. *)
EXTENDS Inbound, TLC

CONSTANTS host  \* the host's call of a2a_complete_task
MCCalls == Tasks \cup {host}

Sp(parts, padded) == [parts |-> parts, padded |-> padded]
Form(binding, body, header, param, known, names) ==
    [binding |-> binding, body |-> body, header |-> header, param |-> param,
     known |-> known, names |-> names]

\* 1.0 and a padded 1.0.3 in the header, 1.0.3 in the parameter (also beside a
\* blank header, and a wrong one beside a right header), an empty, an old and a
\* malformed version, an unreadable and an oversized body, and a subscription
\* without a task.
MCForms == {
    Form("jsonrpc", "ok", Served, <<>>, TRUE, TRUE),
    Form("rest", "ok", Sp(<<1, 0, 3>>, TRUE), <<Sp(<<0, 3>>, FALSE)>>, TRUE, TRUE),
    Form("rest", "ok", Sp(<<>>, TRUE), <<Sp(<<1, 0, 3>>, FALSE)>>, TRUE, TRUE),
    Form("jsonrpc", "ok", Absent, <<>>, TRUE, TRUE),
    Form("rest", "ok", Sp(<<0, 3>>, FALSE), <<Served>>, TRUE, TRUE),
    Form("jsonrpc", "ok", Sp(<<1, -1>>, FALSE), <<>>, FALSE, FALSE),
    Form("jsonrpc", "oversized", Served, <<>>, FALSE, FALSE),
    Form("rest", "broken", Served, <<>>, TRUE, TRUE),
    Form("jsonrpc", "ok", Served, <<>>, FALSE, FALSE)}

Symmetry == Permutations(Tasks) \cup Permutations(Messages)
====
