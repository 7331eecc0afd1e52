---- MODULE Guard ----
(***************************************************************************)
(* What the bridge checks of a request before the A2A server sees it       *)
(* (internal/agent/guard.go, wired in server.go): the size of the body,    *)
(* the protocol version, and whether a task can be subscribed to. Module   *)
(* Inbound takes the steps; here are the decisions, over one request.      *)
(***************************************************************************)
EXTENDS Integers, Sequences

-----------------------------------------------------------------------------
(* Protocol versions *)

\* A version as it is written: its first three dot-separated parts, -1 for one
\* that is not a number, and whether blanks surround it.
Spelling == [parts : Seq(Int), padded : BOOLEAN]

Absent == [parts |-> <<>>, padded |-> FALSE]
Served == [parts |-> <<1, 0>>, padded |-> FALSE]

\* What TrimSpace makes of it is the empty string.
Blank(v) == v.parts = <<>>

\* Two numbers are a version, a third part is ignored; <<>> is no version.
majorMinor(v) ==
    IF Len(v.parts) >= 2 /\ v.parts[1] >= 0 /\ v.parts[2] >= 0
    THEN <<v.parts[1], v.parts[2]>> ELSE <<>>

-----------------------------------------------------------------------------
(* Requests *)

\* binding: the route NewA2AHTTPHandler takes; body: what reading it gives,
\* under the limit of MaxBytesReader; header and param: A2A-Version, the query
\* parameter as a sequence of at most one; known: JSON-RPC 2.0 with a string or
\* number id, or GET or POST; names: the params, or the path, name a task.
Request == [binding : {"jsonrpc", "rest"}, body : {"ok", "oversized", "broken"},
            header : Spelling, param : Seq(Spelling),
            known : BOOLEAN, names : BOOLEAN]

\* The status of an error, spec 5.4; JSON-RPC errors travel with 200 unless
\* the body could not be read.
httpStatus == [InvalidRequest |-> 400, TaskNotFound |-> 404,
               UnsupportedOperation |-> 400, VersionNotSupported |-> 400]

Refusal(err, status) == [err |-> err, status |-> status]

writeError(q, err) ==
    Refusal(err, IF q.binding = "jsonrpc" THEN 200 ELSE httpStatus[err])

bodyReadError(q) ==
    Refusal("InvalidRequest", IF q.body = "oversized" THEN 413 ELSE 400)

\* The header, or the parameter when the header says nothing.
SentVersion(q) ==
    IF ~Blank(q.header) THEN q.header
    ELSE IF q.param # <<>> THEN q.param[1] ELSE Absent

checkProtocolVersion(q) ==
    LET v == SentVersion(q)
    IN  ~Blank(v) /\ majorMinor(v) = majorMinor(Served)

MutantPinHeader(q) == [q EXCEPT !.header = IF @ # Absent THEN Served ELSE @]

\* Every place the version was sent in gets the exact text the server compares.
pinProtocolVersion(q) ==
    [q EXCEPT !.header = IF @ # Absent THEN Served ELSE @,
              !.param = IF @ # <<>> THEN <<Served>> ELSE @]

\* The server compares texts, in whichever place it looks for the version.
ServerTakes(q) ==
    /\ q.header \in {Absent, Served}
    /\ q.param \in {<<>>, <<Served>>}
    /\ q.header = Served \/ q.param = <<Served>>

\* checkSubscribable: the error for a task in that state, "" for none. A lookup
\* that fails is left to the server.
SubscribeError(state) ==
    CASE state = "missing" -> "TaskNotFound"
      [] state = "terminal" -> "UnsupportedOperation"
      [] OTHER -> ""
====
