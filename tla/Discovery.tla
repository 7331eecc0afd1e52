---- MODULE Discovery ----
(***************************************************************************)
(* How peers find a bridge: the directory daemon's registry                *)
(* (internal/directory/registry.go), the Heartbeat goroutine that keeps a  *)
(* bridge listed (internal/agent/mcp.go) and the life of the bridge        *)
(* process around it (internal/cli/bridge.go RunBridge): bind as singleton *)
(* lock, run, shut down.                                                   *)
(*                                                                         *)
(* Directory calls are HTTP requests that may be answered, refused, lost,  *)
(* or carried out after their sender gave up. A clock unit is the request  *)
(* timeout; Period and TTL are the heartbeat ticker's period and the       *)
(* registry's ttl in that unit. A ticker fires when it is due.             *)
(***************************************************************************)
EXTENDS Integers

CONSTANTS Bridges,      \* bridge processes
          Urls,         \* the URLs they advertise
          UrlOf,        \* successive bridges of one agent share its URL
          NoBridge,     \* a free port
          Period,       \* heartbeat period
          TTL,          \* Registry.ttl
          MaxLost       \* heartbeats in a row whose loss must not matter

ASSUME DiscoveryAssumption ==
    /\ UrlOf \in [Bridges -> Urls]
    /\ NoBridge \notin Bridges
    /\ {Period, TTL} \subseteq Nat \ {0}
    /\ MaxLost \in Nat

VARIABLES
    proc,       \* proc[b]: the bridge process
    port,       \* port[u]: the process that listens at u, or NoBridge
    hb,         \* hb[b]: where its Heartbeat goroutine is
    timer,      \* timer[b]: time since the ticker fired or the call began
    net,        \* requests on their way to the directory
    age,        \* age[u]: time since LastSeen, Absent without an entry
    lost,       \* lost[b]: heartbeats in a row that were not answered
    known       \* known[b]: the entry is b's to lose; see StaysListed

procVars == <<proc, port>>
vars == <<procVars, hb, timer, net, age, lost, known>>

Absent == -1
Listed(u) == age[u] # Absent

Requests == [from : Bridges, op : {"register", "unregister"}]

\* ctx of RunBridge is canceled
Cancelled(b) == proc[b] \in {"stopping", "draining"}
Alive(b) == proc[b] = "running" \/ Cancelled(b)

\* Posting: the goroutine waits for the answer to a request.
Posting == {"registering", "beating", "unregistering"}

TypeOK ==
    /\ proc \in [Bridges -> {"off", "running", "stopping", "draining", "exited", "crashed"}]
    /\ port \in [Urls -> Bridges \cup {NoBridge}]
    /\ hb \in [Bridges -> {"start", "wait", "leave", "done"} \cup Posting]
    /\ timer \in [Bridges -> 0..Period]
    /\ net \subseteq Requests
    /\ age \in [Urls -> Absent..TTL + 1]
    /\ lost \in [Bridges -> 0..MaxLost + 1]
    /\ known \in [Bridges -> BOOLEAN]

Init ==
    /\ proc = [b \in Bridges |-> "off"]
    /\ port = [u \in Urls |-> NoBridge]
    /\ hb = [b \in Bridges |-> "start"]
    /\ timer = [b \in Bridges |-> 0]
    /\ net = {}
    /\ age = [u \in Urls |-> Absent]
    /\ lost = [b \in Bridges |-> 0]
    /\ known = [b \in Bridges |-> FALSE]

-----------------------------------------------------------------------------
(* RunBridge *)

\* net.Listen succeeds: the port is ours.
Bind(b) ==
    /\ proc[b] = "off"
    /\ port[UrlOf[b]] = NoBridge
    /\ port' = [port EXCEPT ![UrlOf[b]] = b]
    /\ proc' = [proc EXCEPT ![b] = "running"]
    /\ UNCHANGED <<hb, timer, net, age, lost, known>>

\* The address was in use at every attempt: defer to the other bridge and exit.
\* A retry that finds the port free is a Bind.
BindInUse(b) ==
    /\ proc[b] = "off"
    /\ port[UrlOf[b]] # NoBridge
    /\ proc' = [proc EXCEPT ![b] = "exited"]
    /\ UNCHANGED <<port, hb, timer, net, age, lost, known>>

\* What only matters while the bridge runs.
Forget(b) ==
    /\ timer' = [timer EXCEPT ![b] = 0]
    /\ lost' = [lost EXCEPT ![b] = 0]
    /\ known' = [known EXCEPT ![b] = FALSE]

\* stdin is closed, or a signal arrives: ctx is canceled.
Stop(b) ==
    /\ proc[b] = "running"
    /\ proc' = [proc EXCEPT ![b] = "stopping"]
    /\ Forget(b)
    /\ UNCHANGED <<port, hb, net, age>>

\* httpSrv.Shutdown closes the listener first.
CloseListener(b) ==
    /\ proc[b] = "stopping"
    /\ proc' = [proc EXCEPT ![b] = "draining"]
    /\ port' = [port EXCEPT ![UrlOf[b]] = NoBridge]
    /\ UNCHANGED <<hb, timer, net, age, lost, known>>

\* Connections and webhooks are drained: RunBridge returns, and the process
\* takes its Heartbeat goroutine along wherever it is.
Exit(b) ==
    /\ proc[b] = "draining"
    /\ proc' = [proc EXCEPT ![b] = "exited"]
    /\ Forget(b)
    /\ UNCHANGED <<port, hb, net, age>>

Crash(b) ==
    /\ Alive(b)
    /\ proc' = [proc EXCEPT ![b] = "crashed"]
    /\ port' = [u \in Urls |-> IF port[u] = b THEN NoBridge ELSE port[u]]
    /\ Forget(b)
    /\ UNCHANGED <<hb, net, age>>

-----------------------------------------------------------------------------
(* Heartbeat *)

Post(b, op, next) ==
    /\ Alive(b)
    /\ net' = net \cup {[from |-> b, op |-> op]}
    /\ hb' = [hb EXCEPT ![b] = next]
    /\ timer' = [timer EXCEPT ![b] = 0]
    /\ UNCHANGED <<procVars, age, lost, known>>

\* do(ctx, "/register", ...) on start
FirstRegister(b) == hb[b] = "start" /\ ~Cancelled(b) /\ Post(b, "register", "registering")

MutantNoBeat(b) == FALSE

\* case <-t.C: do(ctx, "/heartbeat", ...), which registers as well
Beat(b) ==
    /\ hb[b] = "wait"
    /\ timer[b] = Period
    /\ ~Cancelled(b)
    /\ Post(b, "register", "beating")

\* case <-ctx.Done(); a call on the canceled ctx returns at once
SeesCancel(b) ==
    /\ Cancelled(b)
    /\ hb[b] \in {"start", "wait", "registering", "beating"}
    /\ hb' = [hb EXCEPT ![b] = "leave"]
    /\ UNCHANGED <<procVars, timer, net, age, lost, known>>

\* do(context.Background(), "/unregister", ...)
Leave(b) == hb[b] = "leave" /\ Post(b, "unregister", "unregistering")

MutantSleepAfterCall(b) ==
    /\ hb' = [hb EXCEPT ![b] = IF @ = "unregistering" THEN "done" ELSE "wait"]
    /\ timer' = [timer EXCEPT ![b] = 0]

\* do returns; the ticker starts after the first call.
AfterCall(b) ==
    /\ hb' = [hb EXCEPT ![b] = IF @ = "unregistering" THEN "done" ELSE "wait"]
    /\ timer' = [timer EXCEPT ![b] = IF hb[b] = "registering" THEN 0 ELSE @]

\* No answer: the connection is refused, or the call times out and the request
\* may still be carried out later.
GiveUp(b) ==
    /\ Alive(b)
    /\ hb[b] \in Posting
    /\ AfterCall(b)
    /\ lost' = [lost EXCEPT ![b] = IF @ > MaxLost THEN @ ELSE @ + 1]
    /\ known' = [known EXCEPT ![b] = @ /\ lost[b] < MaxLost]
    /\ UNCHANGED <<procVars, net, age>>

\* A request disappears on its way.
Lose(r) ==
    /\ r \in net
    /\ net' = net \ {r}
    /\ UNCHANGED <<procVars, hb, timer, age, lost, known>>

-----------------------------------------------------------------------------
(* The registry *)

\* The answer reaches a caller that still waits for it.
Answer(r) ==
    LET b == r.from
        waits == Alive(b) /\ hb[b] \in (IF r.op = "register" THEN {"registering", "beating"}
                                                             ELSE {"unregistering"})
    IN  IF waits THEN AfterCall(b) ELSE UNCHANGED <<hb, timer>>

Register(r) ==
    /\ r \in net /\ r.op = "register"
    /\ net' = net \ {r}
    /\ age' = [age EXCEPT ![UrlOf[r.from]] = 0]
    /\ lost' = [lost EXCEPT ![r.from] = 0]
    /\ known' = [known EXCEPT ![r.from] = proc[r.from] = "running"]
    /\ Answer(r)
    /\ UNCHANGED procVars

Unregister(r) ==
    /\ r \in net /\ r.op = "unregister"
    /\ net' = net \ {r}
    /\ age' = [age EXCEPT ![UrlOf[r.from]] = Absent]
    /\ known' = [b \in Bridges |-> known[b] /\ UrlOf[b] # UrlOf[r.from]]
    /\ Answer(r)
    /\ UNCHANGED <<procVars, lost>>

MutantStaleEarly(u) == age[u] > TTL - Period

MutantNeverStale(u) == FALSE

\* e.LastSeen.Before(cutoff)
Stale(u) == age[u] > TTL

gc ==
    /\ \E u \in Urls : Stale(u)
    /\ age' = [u \in Urls |-> IF Stale(u) THEN Absent ELSE age[u]]
    /\ UNCHANGED <<procVars, hb, timer, net, lost, known>>

\* The daemon restarts with an empty registry.
DirectoryRestart ==
    /\ \E u \in Urls : Listed(u)
    /\ age' = [u \in Urls |-> Absent]
    /\ known' = [b \in Bridges |-> FALSE]
    /\ UNCHANGED <<procVars, hb, timer, net, lost>>

-----------------------------------------------------------------------------

\* Time passes: not past a ticker that is due nor past the timeout of a call.
Tick ==
    /\ \A b \in Bridges : Alive(b) =>
          /\ hb[b] = "wait" /\ ~Cancelled(b) => timer[b] < Period
          /\ hb[b] \in Posting => timer[b] < 1
          /\ hb[b] = "start" => Cancelled(b)
    /\ timer' = [b \in Bridges |->
                   IF Alive(b) /\ timer[b] < Period THEN timer[b] + 1 ELSE timer[b]]
    /\ age' = [u \in Urls |-> IF Listed(u) /\ age[u] <= TTL THEN age[u] + 1 ELSE age[u]]
    /\ UNCHANGED <<procVars, hb, net, lost, known>>

Next ==
    \/ \E b \in Bridges :
          \/ Bind(b) \/ BindInUse(b) \/ Stop(b) \/ CloseListener(b) \/ Exit(b) \/ Crash(b)
          \/ FirstRegister(b) \/ Beat(b) \/ SeesCancel(b) \/ Leave(b) \/ GiveUp(b)
    \/ \E r \in net : Lose(r) \/ Register(r) \/ Unregister(r)
    \/ gc \/ DirectoryRestart \/ Tick

\* Goroutines run, calls end, the gc and heartbeat tickers fire, time passes.
\* The network may lose messages, not all of them: Register is strongly fair.
Fairness ==
    /\ WF_vars(gc) /\ WF_vars(Tick)
    /\ \A b \in Bridges :
          /\ WF_vars(FirstRegister(b)) /\ WF_vars(Beat(b)) /\ WF_vars(GiveUp(b))
          /\ SF_vars(\E r \in net : r.from = b /\ Register(r))

Spec == Init /\ [][Next]_vars
FairSpec == Spec /\ Fairness

-----------------------------------------------------------------------------
(* Correctness *)

\* A running bridge stays listed through MaxLost lost heartbeats in a row: no
\* schedule of ticker, timeout and gc lets its entry outlive the ttl. (Until
\* the directory restarts or a predecessor's late unregister takes the entry.)
StaysListed == \A b \in Bridges : proc[b] = "running" /\ known[b] => Listed(UrlOf[b])

\* How old the entry of a running bridge can be: one period for every lost
\* heartbeat, one for the heartbeat on its way, and what has passed since.
LeaseAge(b) == timer[b] + Period * (IF hb[b] = "beating" THEN lost[b] + 1 ELSE lost[b])

\* The lease of a bridge that the directory knows: the bridge runs, and its
\* entry is no older than its heartbeats allow.
LeaseOf(b) ==
    /\ proc[b] = "running"
    /\ hb[b] \in {"wait", "beating"}
    /\ hb[b] = "beating" => timer[b] <= 1
    /\ lost[b] <= MaxLost
    /\ Listed(UrlOf[b])
    /\ age[UrlOf[b]] <= LeaseAge(b)

Lease == \A b \in Bridges : known[b] => LeaseOf(b)

\* The Heartbeat goroutine leaves its loop only when the bridge stops, and has
\* nothing on its way before its first call.
HeartbeatShape ==
    \A b \in Bridges :
        /\ proc[b] = "off" => hb[b] = "start"
        /\ proc[b] = "running" => hb[b] \in {"start", "wait", "registering", "beating"}
        /\ hb[b] = "start" => \A r \in net : r.from # b

IInv == TypeOK /\ HeartbeatShape /\ Lease

Served(u) == \E b \in Bridges : UrlOf[b] = u /\ proc[b] = "running"

\* A URL that keeps being served by a running bridge is listed again and again,
\* whatever happened to its entry: heartbeats repair a restarted directory and
\* the late unregister of a predecessor.
RunningIsListed == \A u \in Urls : Served(u) ~> ~Served(u) \/ Listed(u)

\* When every bridge of a URL is gone, also by a crash and with requests still
\* on their way, the URL does not stay listed.
DeadIsUnlisted ==
    \A u \in Urls :
        <>[](\A b \in Bridges : UrlOf[b] = u => proc[b] \in {"exited", "crashed"})
            => []<>~Listed(u)

====
