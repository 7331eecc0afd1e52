---- MODULE InboundProofs ----
(***************************************************************************)
(* Proofs about TaskExchange and about Inbound, which contains it.         *)
(*                                                                         *)
(* IInv ties the place an execution has reached to its waiter, to its task *)
(* and to what the host knows: a waiter exists from before the question is *)
(* queued until after the task has ended. A step of Inbound is a step of   *)
(* the exchange, leaves it alone, or tells the responder of an entry; the  *)
(* rest of InboundInv follows a request through the guard, a call through  *)
(* CompleteTask and the clock of the nudger.                               *)
(***************************************************************************)
EXTENDS Inbound, TLAPS

-----------------------------------------------------------------------------
(* The exchange *)

\* Nothing has arrived.
LEMMA InitIInv == Init => IInv
<1> SUFFICES ASSUME Init PROVE IInv
  OBVIOUS
<1>1. PICK t0 : t0 \in Tasks
  BY ExchangeAssumption
<1>2. (CHOOSE t \in Tasks : TRUE) \in Tasks
  BY <1>1
<1> QED
  BY <1>2, ExchangeAssumption
     DEF Init, IInv, TypeOK, ExecutionShape, AnswerableWhileOpen, WaitingIsKnown, Ended

\* The steps of an execution up to the queueing of its message.
LEMMA ArriveIInv ==
    ASSUME IInv, NEW t \in Tasks,
           YieldSubmitted(t) \/ registerWaiter(t) \/ deliverIncoming(t)
    PROVE  IInv'
<1>1. CASE YieldSubmitted(t)
  BY <1>1 DEF IInv, TypeOK, ExecutionShape, AnswerableWhileOpen, WaitingIsKnown, Ended,
              YieldSubmitted, YieldStatus, callVars
<1>2. CASE registerWaiter(t)
  BY <1>2 DEF IInv, TypeOK, ExecutionShape, AnswerableWhileOpen, WaitingIsKnown, Ended,
              registerWaiter, callVars
<1>3. CASE deliverIncoming(t)
  BY <1>3 DEF IInv, TypeOK, ExecutionShape, AnswerableWhileOpen, WaitingIsKnown, Ended,
              deliverIncoming, callVars
<1> QED
  BY <1>1, <1>2, <1>3

\* The events an execution yields, and the two ways out of its select.
LEMMA AnswerIInv ==
    ASSUME IInv, NEW t \in Tasks,
           \/ YieldRejected(t) \/ YieldWorking(t) \/ TakeReply(t) \/ ContextDone(t)
           \/ YieldArtifact(t) \/ YieldCompleted(t) \/ unregisterWaiter(t)
    PROVE  IInv'
<1>1. CASE YieldRejected(t) \/ YieldWorking(t) \/ YieldCompleted(t)
  BY <1>1 DEF IInv, TypeOK, ExecutionShape, AnswerableWhileOpen, WaitingIsKnown, Ended,
              YieldRejected, YieldWorking, YieldCompleted, YieldStatus, callVars
<1>2. CASE TakeReply(t) \/ ContextDone(t) \/ YieldArtifact(t)
  BY <1>2 DEF IInv, TypeOK, ExecutionShape, AnswerableWhileOpen, WaitingIsKnown, Ended,
              TakeReply, ContextDone, YieldArtifact, callVars
<1>3. CASE unregisterWaiter(t)
  BY <1>3 DEF IInv, TypeOK, ExecutionShape, AnswerableWhileOpen, WaitingIsKnown, Ended,
              unregisterWaiter, callVars
<1> QED
  BY <1>1, <1>2, <1>3

\* The peer and the host.
LEMMA OutsideIInv ==
    ASSUME IInv,
           \/ \E t \in Tasks : Cancel(t)
           \/ \E drain \in BOOLEAN : HostReads(drain)
           \/ \E c \in Calls : CompleteTask(c) \/ \E t \in Tasks : dropTaskEntries(c, t)
    PROVE  IInv'
<1>1. CASE \E t \in Tasks : Cancel(t)
  BY <1>1 DEF IInv, TypeOK, ExecutionShape, AnswerableWhileOpen, WaitingIsKnown, Ended,
              Cancel, execVars, callVars
<1>2. CASE \E drain \in BOOLEAN : HostReads(drain)
  BY <1>2 DEF IInv, TypeOK, ExecutionShape, AnswerableWhileOpen, WaitingIsKnown, Ended,
              HostReads, execVars, callVars
<1>3. CASE \E c \in Calls : CompleteTask(c)
  BY <1>3 DEF IInv, TypeOK, ExecutionShape, AnswerableWhileOpen, WaitingIsKnown, Ended,
              CompleteTask
<1>4. CASE \E c \in Calls, t \in Tasks : dropTaskEntries(c, t)
  BY <1>4 DEF IInv, TypeOK, ExecutionShape, AnswerableWhileOpen, WaitingIsKnown, Ended,
              dropTaskEntries, execVars
<1> QED
  BY <1>1, <1>2, <1>3, <1>4

\* A restart ends every task it forgets the waiter of.
LEMMA RestartIInv ==
    ASSUME IInv, Restart
    PROVE  IInv'
BY DEF IInv, TypeOK, ExecutionShape, AnswerableWhileOpen, WaitingIsKnown, Ended, Restart

\* Every step of an execution, the peer, the host or a restart keeps IInv.
LEMMA NextIInv == IInv /\ [Next]_vars => IInv'
<1> SUFFICES ASSUME IInv, [Next]_vars PROVE IInv'
  OBVIOUS
<1>1. CASE UNCHANGED vars
  BY <1>1 DEF vars, execVars, callVars, IInv, TypeOK, ExecutionShape,
              AnswerableWhileOpen, WaitingIsKnown, Ended
<1>2. CASE Next
  BY <1>2, ArriveIInv, AnswerIInv, OutsideIInv, RestartIInv DEF Next, Step
<1> QED
  BY <1>1, <1>2

\* The invariant holds in every reachable state, for any number of tasks and
\* calls, any soft cap and any number of restarts.
THEOREM ExchangeInvariant == Spec => []IInv
BY InitIInv, NextIInv, PTL DEF Spec

\* The host's answer to an open task always finds the waiter.
THEOREM AlwaysAnswerable == Spec => []AnswerableWhileOpen
<1>1. IInv => AnswerableWhileOpen
  BY DEF IInv
<1> QED
  BY <1>1, ExchangeInvariant, PTL

\* No peer waits for an answer to a question that nobody was ever offered.
THEOREM NobodyWaitsUnknown == Spec => []WaitingIsKnown
<1>1. IInv => WaitingIsKnown
  BY DEF IInv
<1> QED
  BY <1>1, ExchangeInvariant, PTL

-----------------------------------------------------------------------------
(* Steps of Inbound as steps of the exchange *)

\* Responder.Handle is told of an entry that was queued.
LEMMA RespondIInv ==
    ASSUME IInv, WakeShape, NEW t \in Tasks, NEW empty \in BOOLEAN, Respond(t, empty)
    PROVE  IInv'
<1>1. pc[t] \notin {"idle", "submitted", "registered", "duplicate"}
  BY DEF Respond, WakeShape
<1>2. t \in waiters \/ Ended(t)
  BY <1>1 DEF IInv, ExecutionShape
<1>3. UNCHANGED <<messageOf, pc, waiters, replies, taken, inbox, status, callPc, callTask,
                  restarts, evicted, answer>> /\ handed' = handed \cup {t}
  BY DEF Respond
<1>4. TypeOK'
  BY <1>3 DEF IInv, TypeOK
<1>5. ExecutionShape'
  BY <1>1, <1>3 DEF IInv, ExecutionShape, Ended
<1>6. AnswerableWhileOpen'
  BY <1>2, <1>3 DEF IInv, AnswerableWhileOpen, Ended
<1>7. WaitingIsKnown'
  BY <1>3 DEF IInv, WaitingIsKnown
<1> QED
  BY <1>4, <1>5, <1>6, <1>7 DEF IInv

\* The exchange part of every step.
LEMMA InboundIInv ==
    ASSUME IInv, WakeShape, InboundAssumption, [InboundNext]_inboundVars
    PROVE  IInv'
<1>1. CASE UNCHANGED inboundVars
  BY <1>1, NextIInv DEF inboundVars
<1>2. CASE \E q \in Tasks \cup Subs :
             \/ \E t \in Tasks, form \in Forms : (q \in Subs \/ q = t) /\ Receive(q, t, form)
             \/ \E found \in {"missing", "terminal", "open", "failed"} : checkSubscribable(q, found)
             \/ Subscribe(q)
  <2>1. UNCHANGED vars
    BY <1>2 DEF Receive, checkSubscribable, Subscribe
  <2> QED
    BY <2>1, NextIInv
<1>3. CASE \E t \in Tasks : Submit(t) \/ Deliver(t) \/ Execute(t) \/ PeerCancels(t)
  <2>1. \E t \in Tasks : YieldSubmitted(t) \/ Step(t) \/ Cancel(t)
    BY <1>3 DEF Submit, Deliver, Execute, PeerCancels, Step
  <2> QED
    BY <2>1, NextIInv DEF Next
<1>4. CASE \E t \in Tasks : Handler(t)
  <2>1. PICK t \in Tasks : Handler(t)
    BY <1>4
  <2>2. CASE \E empty \in BOOLEAN : Respond(t, empty)
    BY <2>2, RespondIInv
  <2>3. CASE RunFails(t) \/ Nudge(t) \/ \E ok \in BOOLEAN : NudgeEnds(t, ok)
    <3>1. UNCHANGED vars
      BY <2>3 DEF RunFails, Nudge, NudgeEnds
    <3> QED
      BY <3>1, NextIInv
  <2>4. CASE RunAnswers(t) \/ Complete(t)
    <3>1. t \in Calls
      BY InboundAssumption
    <3>2. CompleteTask(t) \/ dropTaskEntries(t, t)
      BY <2>4 DEF RunAnswers, Complete
    <3> QED
      BY <3>1, <3>2, OutsideIInv
  <2> QED
    BY <2>1, <2>2, <2>3, <2>4 DEF Handler
<1>5. CASE \/ \E drain \in BOOLEAN : HostLooks(drain)
           \/ \E c \in Calls : HostAnswered(c) \/ \E t \in Tasks : HostAnswers(c, t)
  <2>1. \/ \E drain \in BOOLEAN : HostReads(drain)
        \/ \E c \in Calls : CompleteTask(c) \/ \E t \in Tasks : dropTaskEntries(c, t)
    BY <1>5 DEF HostLooks, HostAnswered, HostAnswers
  <2> QED
    BY <2>1, OutsideIInv
<1>6. CASE Tick
  <2>1. UNCHANGED vars
    BY <1>6 DEF Tick
  <2> QED
    BY <2>1, NextIInv
<1> QED
  BY <1>1, <1>2, <1>3, <1>4, <1>5, <1>6 DEF InboundNext

-----------------------------------------------------------------------------
(* The guard *)

\* The reason the guard pins the version: whatever form of 1.0 it accepted, in
\* the header or in the parameter, the server finds the text it compares with.
LEMMA PinnedIsTaken ==
    ASSUME NEW form \in Request, checkProtocolVersion(form)
    PROVE  ServerTakes(pinProtocolVersion(form))
<1> DEFINE h == IF form.header # Absent THEN Served ELSE form.header
           p == IF form.param # <<>> THEN <<Served>> ELSE form.param
<1>1. pinProtocolVersion(form).header = h /\ pinProtocolVersion(form).param = p
  BY DEF pinProtocolVersion, Request
<1>2. h \in {Absent, Served} /\ p \in {<<>>, <<Served>>}
  OBVIOUS
<1>3. form.header # Absent \/ form.param # <<>>
  <2>1. SUFFICES ASSUME form.header = Absent, form.param = <<>> PROVE FALSE
    OBVIOUS
  <2>2. Blank(form.header)
    BY <2>1 DEF Blank, Absent
  <2>3. SentVersion(form) = Absent
    BY <2>1, <2>2 DEF SentVersion
  <2> QED
    BY <2>3 DEF checkProtocolVersion, Blank, Absent
<1>4. h = Served \/ p = <<Served>>
  BY <1>3
<1> QED
  BY <1>1, <1>2, <1>4 DEF ServerTakes

\* A task that has ended stays ended: no yield is stored after that, and a
\* cancelation finds no open task.
LEMMA EndedStays ==
    ASSUME TypeOK, [InboundNext]_inboundVars, NEW o \in Tasks, Ended(o)
    PROVE  Ended(o)'
<1>1. CASE \E t \in Tasks : Submit(t)
  BY <1>1 DEF TypeOK, Ended, Submit, YieldSubmitted, YieldStatus
<1>2. CASE \E t \in Tasks : PeerCancels(t)
  BY <1>2 DEF TypeOK, Ended, PeerCancels, Cancel
<1>3. CASE \E t \in Tasks : Execute(t)
  BY <1>3 DEF TypeOK, Ended, Execute, registerWaiter, YieldRejected, YieldWorking, TakeReply,
              ContextDone, YieldArtifact, YieldCompleted, unregisterWaiter, YieldStatus
<1>4. CASE UNCHANGED status
  BY <1>4 DEF Ended
<1>5. \/ \E t \in Tasks : Submit(t) \/ PeerCancels(t) \/ Execute(t)
      \/ UNCHANGED status
  <2>1. CASE UNCHANGED inboundVars
    BY <2>1 DEF inboundVars, vars
  <2>2. CASE \E q \in Tasks \cup Subs :
             \/ \E t \in Tasks, form \in Forms : (q \in Subs \/ q = t) /\ Receive(q, t, form)
             \/ \E found \in {"missing", "terminal", "open", "failed"} : checkSubscribable(q, found)
             \/ Subscribe(q)
    BY <2>2 DEF Receive, checkSubscribable, Subscribe, vars
  <2>3. CASE \E t \in Tasks : Deliver(t)
    BY <2>3 DEF Deliver, deliverIncoming
  <2>4. CASE \E t \in Tasks : Handler(t)
    BY <2>4 DEF Handler, Respond, RunFails, RunAnswers, Complete, Nudge, NudgeEnds, vars,
                CompleteTask, dropTaskEntries
  <2>5. CASE \/ \E drain \in BOOLEAN : HostLooks(drain)
             \/ \E c \in Calls : HostAnswered(c) \/ \E t \in Tasks : HostAnswers(c, t)
             \/ Tick
    BY <2>5 DEF HostLooks, HostReads, HostAnswered, CompleteTask, HostAnswers, dropTaskEntries,
                Tick, vars
  <2> QED
    BY <2>1, <2>2, <2>3, <2>4, <2>5 DEF InboundNext
<1> QED
  BY <1>1, <1>2, <1>3, <1>4, <1>5

-----------------------------------------------------------------------------
(* Requests *)

\* What InboundTypeOK says of one request, and what RequestShape says of it.
Places == {"none", "lookup", "passed", "served", "stream", "errorStream"} \cup DOMAIN httpStatus
RequestRecord == [at : Places, task : Tasks \cup {NoCall}, accepted : BOOLEAN, over : BOOLEAN]
GoodRequest(r) ==
    /\ r.at \in {"lookup", "passed"} => r.accepted
    /\ r.at = "lookup" => r.task \in Tasks /\ (r.over => Ended(r.task))
    /\ r.at = "passed" => ~r.over

\* The errors a request can be answered with are places of their own.
LEMMA ErrorPlaces ==
    \A e \in {"InvalidRequest", "TaskNotFound", "UnsupportedOperation", "VersionNotSupported"} :
        e \in Places /\ e \notin {"none", "lookup", "passed"}
BY DEF Places, httpStatus

\* jsonrpc and rest leave a good request: the version was checked before it
\* went on, and whether the task has ended is what the step saw.
LEMMA ReceiveGood ==
    ASSUME InboundTypeOK, InboundAssumption, NEW q \in Tasks \cup Subs, NEW t \in Tasks,
           NEW form \in Forms, q \in Subs \/ q = t, Receive(q, t, form)
    PROVE  \E r \in RequestRecord : GoodRequest(r) /\ rq' = [rq EXCEPT ![q] = r]
<1> DEFINE passed == [at |-> IF LooksUp(q, form) THEN "lookup" ELSE "passed",
                      task |-> IF LooksUp(q, form) \/ q = t THEN t ELSE NoCall,
                      over |-> LooksUp(q, form) /\ Ended(t),
                      accepted |-> ServerTakes(pinProtocolVersion(form))]
           broken == [rq[q] EXCEPT !.at = bodyReadError(form).err]
           old == [rq[q] EXCEPT !.at = writeError(form, "VersionNotSupported").err]
<1>1. rq[q] \in RequestRecord
  BY DEF InboundTypeOK, RequestRecord, Places
<1>2. ASSUME NEW e \in {"InvalidRequest", "VersionNotSupported"}
      PROVE  [rq[q] EXCEPT !.at = e] \in RequestRecord /\ GoodRequest([rq[q] EXCEPT !.at = e])
  <2>1. e \in Places /\ e \notin {"none", "lookup", "passed"}
    BY ErrorPlaces
  <2>2. [rq[q] EXCEPT !.at = e] \in RequestRecord /\ [rq[q] EXCEPT !.at = e].at = e
    BY <1>1, <2>1 DEF RequestRecord
  <2> QED
    BY <2>1, <2>2 DEF GoodRequest
<1>3. CASE form.body # "ok"
  <2>1. rq' = [rq EXCEPT ![q] = broken]
    BY <1>3 DEF Receive
  <2>2. bodyReadError(form).err = "InvalidRequest"
    BY DEF bodyReadError, Refusal
  <2> QED
    BY <1>2, <2>1, <2>2
<1>4. CASE form.body = "ok" /\ ~checkProtocolVersion(form)
  <2>1. rq' = [rq EXCEPT ![q] = old]
    BY <1>4 DEF Receive
  <2>2. writeError(form, "VersionNotSupported").err = "VersionNotSupported"
    BY DEF writeError, Refusal
  <2> QED
    BY <1>2, <2>1, <2>2
<1>5. CASE form.body = "ok" /\ checkProtocolVersion(form)
  <2>1. rq' = [rq EXCEPT ![q] = passed]
    BY <1>5 DEF Receive
  <2>2. ServerTakes(pinProtocolVersion(form))
    BY <1>5, PinnedIsTaken, InboundAssumption
  <2>3. passed \in RequestRecord
    BY DEF RequestRecord, Places, ServerTakes, LooksUp, Ended
  <2>4. GoodRequest(passed)
    BY <2>2 DEF GoodRequest
  <2> QED
    BY <2>1, <2>3, <2>4
<1> QED
  BY <1>3, <1>4, <1>5

\* A lookup that does not fail finds an ended task missing or terminal, so the
\* request is answered; one that fails forgets that the task had ended.
LEMMA LookupGood ==
    ASSUME InboundTypeOK, RequestShape, NEW q \in Tasks \cup Subs,
           NEW found \in {"missing", "terminal", "open", "failed"}, checkSubscribable(q, found)
    PROVE  \E r \in RequestRecord : GoodRequest(r) /\ rq' = [rq EXCEPT ![q] = r]
<1> DEFINE err == SubscribeError(found)
           place == IF err = "" THEN "passed" ELSE err
           gone == rq[q].over /\ found # "failed"
           r == [rq[q] EXCEPT !.at = place, !.over = gone]
<1>1. rq[q] \in RequestRecord /\ rq \in [Tasks \cup Subs -> RequestRecord]
  BY DEF InboundTypeOK, RequestRecord, Places
<1>2. rq' = [rq EXCEPT ![q] = r]
  BY <1>1 DEF checkSubscribable, RequestRecord
<1>3. place \in Places /\ place # "lookup"
  BY ErrorPlaces DEF SubscribeError, Places
<1>4. r \in RequestRecord /\ r.at = place /\ r.over = gone /\ r.accepted = rq[q].accepted
  BY <1>1, <1>3 DEF RequestRecord
<1>5. rq[q].at = "lookup" /\ rq[q].accepted /\ (rq[q].over => Ended(rq[q].task))
  BY DEF checkSubscribable, RequestShape
<1>6. place = "passed" => ~gone
  <2>1. SUFFICES ASSUME place = "passed", gone PROVE FALSE
    OBVIOUS
  <2>2. found \in {"open", "failed"}
    BY <2>1 DEF SubscribeError
  <2>3. found = "open" /\ found = Lookup(rq[q].task)
    BY <2>1, <2>2 DEF checkSubscribable
  <2>4. Ended(rq[q].task)
    BY <2>1, <1>5
  <2> QED
    BY <2>3, <2>4 DEF Lookup
<1>7. GoodRequest(r)
  BY <1>3, <1>4, <1>5, <1>6 DEF GoodRequest
<1> QED
  BY <1>2, <1>4, <1>7

\* The server's steps leave a request that is over.
LEMMA ServedGood ==
    ASSUME InboundTypeOK, NEW q \in Tasks \cup Subs,
           Subscribe(q) \/ (q \in Tasks /\ Submit(q))
    PROVE  \E r \in RequestRecord : GoodRequest(r) /\ rq' = [rq EXCEPT ![q] = r]
<1>1. rq[q] \in RequestRecord /\ rq \in [Tasks \cup Subs -> RequestRecord]
  BY DEF InboundTypeOK, RequestRecord, Places
<1>2. PICK place \in {"InvalidRequest", "stream", "errorStream", "served"} :
        rq' = [rq EXCEPT ![q] = [rq[q] EXCEPT !.at = place]]
  BY DEF Subscribe, Submit
<1>3. place \in Places /\ place \notin {"lookup", "passed"}
  BY ErrorPlaces DEF Places
<1> DEFINE r == [rq[q] EXCEPT !.at = place]
<1>4. r \in RequestRecord /\ r.at = place
  BY <1>1, <1>3 DEF RequestRecord
<1>5. GoodRequest(r)
  BY <1>3, <1>4 DEF GoodRequest
<1> QED
  BY <1>2, <1>4, <1>5

\* Requests stay good: none of the other steps touches one, and what they say
\* of an ended task stays true.
LEMMA RequestsGood ==
    ASSUME InboundTypeOK, RequestShape, InboundAssumption, [InboundNext]_inboundVars
    PROVE  rq' \in [Tasks \cup Subs -> RequestRecord] /\ RequestShape'
<1>1. rq \in [Tasks \cup Subs -> RequestRecord] /\ TypeOK
  BY DEF InboundTypeOK, RequestRecord, Places
<1>2. \A q \in Tasks \cup Subs : GoodRequest(rq[q])
  BY DEF RequestShape, GoodRequest
<1>3. \/ \E q \in Tasks \cup Subs, r \in RequestRecord :
            GoodRequest(r) /\ rq' = [rq EXCEPT ![q] = r]
      \/ UNCHANGED rq
  <2>1. CASE UNCHANGED inboundVars
    BY <2>1 DEF inboundVars
  <2>2. ASSUME NEW q \in Tasks \cup Subs, NEW t \in Tasks, NEW form \in Forms,
               q \in Subs \/ q = t, Receive(q, t, form)
        PROVE  \E r \in RequestRecord : GoodRequest(r) /\ rq' = [rq EXCEPT ![q] = r]
    BY <2>2, ReceiveGood
  <2>3. ASSUME NEW q \in Tasks \cup Subs, NEW found \in {"missing", "terminal", "open", "failed"},
               checkSubscribable(q, found)
        PROVE  \E r \in RequestRecord : GoodRequest(r) /\ rq' = [rq EXCEPT ![q] = r]
    BY <2>3, LookupGood
  <2>4. ASSUME NEW q \in Tasks \cup Subs, Subscribe(q)
        PROVE  \E r \in RequestRecord : GoodRequest(r) /\ rq' = [rq EXCEPT ![q] = r]
    BY <2>4, ServedGood
  <2>5. ASSUME NEW t \in Tasks, Submit(t)
        PROVE  \E r \in RequestRecord : GoodRequest(r) /\ rq' = [rq EXCEPT ![t] = r]
    BY <2>5, ServedGood
  <2>6. CASE \E t \in Tasks : Deliver(t) \/ Execute(t) \/ PeerCancels(t) \/ Handler(t)
    BY <2>6 DEF Deliver, Execute, PeerCancels, Handler, Respond, RunFails, RunAnswers, Complete,
                Nudge, NudgeEnds
  <2>7. CASE \/ \E drain \in BOOLEAN : HostLooks(drain)
             \/ \E c \in Calls : HostAnswered(c) \/ \E t \in Tasks : HostAnswers(c, t)
             \/ Tick
    BY <2>7 DEF HostLooks, HostAnswered, HostAnswers, Tick
  <2> QED
    BY <2>1, <2>2, <2>3, <2>4, <2>5, <2>6, <2>7 DEF InboundNext
<1>4. rq' \in [Tasks \cup Subs -> RequestRecord] /\ \A q \in Tasks \cup Subs : GoodRequest(rq'[q])
  BY <1>1, <1>2, <1>3
<1>5. \A o \in Tasks : Ended(o) => Ended(o)'
  BY <1>1, EndedStays
<1>6. RequestShape'
  <2> SUFFICES ASSUME NEW q \in Tasks \cup Subs
               PROVE  /\ rq'[q].at \in {"lookup", "passed"} => rq'[q].accepted
                      /\ rq'[q].at = "lookup" => rq'[q].task \in Tasks
                      /\ rq'[q].at = "lookup" => (rq'[q].over => Ended(rq[q].task)')
                      /\ rq'[q].at = "passed" => ~rq'[q].over
    BY DEF RequestShape
  <2>1. GoodRequest(rq'[q])
    BY <1>4
  <2>2. rq'[q].task \in Tasks /\ Ended(rq'[q].task) => Ended(rq[q].task)'
    BY <1>5 DEF Ended
  <2> QED
    BY <2>1, <2>2 DEF GoodRequest
<1> QED
  BY <1>4, <1>6

-----------------------------------------------------------------------------
(* Handlers *)

\* A handler is started when the message is queued, and an execution does not
\* go back to before that.
LEMMA WakeKept ==
    ASSUME InboundTypeOK, WakeShape, [InboundNext]_inboundVars
    PROVE  WakeShape'
<1> USE DEF InboundTypeOK, TypeOK, WakeShape
<1>1. CASE UNCHANGED <<pc, wake>>
  BY <1>1
<1>2. ASSUME NEW t \in Tasks, Submit(t) PROVE WakeShape'
  BY <1>2 DEF Submit, YieldSubmitted, YieldStatus, wakeVars
<1>3. ASSUME NEW t \in Tasks, Deliver(t) PROVE WakeShape'
  BY <1>3 DEF Deliver, deliverIncoming
<1>4. ASSUME NEW t \in Tasks, Execute(t) PROVE WakeShape'
  BY <1>4 DEF Execute, registerWaiter, YieldRejected, YieldWorking, TakeReply,
              ContextDone, YieldArtifact, YieldCompleted, unregisterWaiter, YieldStatus, wakeVars
<1>5. ASSUME NEW t \in Tasks, Handler(t) PROVE WakeShape'
  <2>1. wake[t] # "none" /\ UNCHANGED pc /\ \E place : Wake(t, place)
    BY <1>5 DEF Handler, Respond, RunFails, RunAnswers, Complete, Nudge, NudgeEnds, vars, execVars,
                CompleteTask, dropTaskEntries
  <2> QED
    BY <2>1 DEF Wake
<1>6. \/ UNCHANGED <<pc, wake>>
      \/ \E t \in Tasks : Submit(t) \/ Deliver(t) \/ Execute(t) \/ Handler(t)
  <2>1. CASE UNCHANGED inboundVars
    BY <2>1 DEF inboundVars, vars, execVars, wakeVars
  <2>2. CASE \E q \in Tasks \cup Subs :
             \/ \E t \in Tasks, form \in Forms : (q \in Subs \/ q = t) /\ Receive(q, t, form)
             \/ \E found \in {"missing", "terminal", "open", "failed"} : checkSubscribable(q, found)
             \/ Subscribe(q)
    BY <2>2 DEF Receive, checkSubscribable, Subscribe, vars, execVars, wakeVars
  <2>3. CASE \E t \in Tasks : PeerCancels(t)
    BY <2>3 DEF PeerCancels, Cancel, execVars, wakeVars
  <2>4. CASE \/ \E drain \in BOOLEAN : HostLooks(drain)
             \/ \E c \in Calls : HostAnswered(c) \/ \E t \in Tasks : HostAnswers(c, t)
             \/ Tick
    BY <2>4 DEF HostLooks, HostReads, HostAnswered, CompleteTask, HostAnswers, dropTaskEntries,
                Tick, vars, execVars, wakeVars
  <2> QED
    BY <2>1, <2>2, <2>3, <2>4 DEF InboundNext
<1> QED
  BY <1>1, <1>2, <1>3, <1>4, <1>5, <1>6

-----------------------------------------------------------------------------
(* Calls *)

\* The first critical section, of the host or of the responder: the call is
\* about a task the host was told of, the responder's about its own.
LEMMA DropCall ==
    ASSUME TypeOK, CallShape, RefusedOnlyWhenLate, ExchangeAssumption, InboundAssumption,
           NEW c \in Calls, NEW t \in Tasks, dropTaskEntries(c, t), c \in Tasks => c = t
    PROVE  CallShape' /\ RefusedOnlyWhenLate'
<1>1. /\ callPc[c] = "idle" /\ t \in handed /\ UNCHANGED <<replies, status, handed>>
      /\ callPc' = [callPc EXCEPT ![c] = "dropped"] /\ callTask' = [callTask EXCEPT ![c] = t]
  BY DEF dropTaskEntries, execVars
<1>2. \A b \in Calls : callPc[b] # "idle" => callPc'[b] = callPc[b] /\ callTask'[b] = callTask[b]
  BY <1>1 DEF TypeOK
<1>3. callPc'[c] = "dropped" /\ callTask'[c] = t
  BY <1>1 DEF TypeOK
<1>4. CallShape'
  <2>1. \A b \in Calls : callPc'[b] # "idle" => callTask'[b] \in handed'
    BY <1>1 DEF TypeOK, CallShape
  <2>2. \A o \in Tasks : callPc'[o] # "idle" => callTask'[o] = o
    BY <1>1, InboundAssumption DEF TypeOK, CallShape
  <2>3. \A o \in Tasks : replies'[o] # NoCall =>
           callPc'[replies'[o]] = "ok" /\ callTask'[replies'[o]] = o
    BY <1>1, <1>2 DEF TypeOK, CallShape
  <2> QED
    BY <2>1, <2>2, <2>3 DEF CallShape
<1>5. RefusedOnlyWhenLate'
  <2> SUFFICES ASSUME NEW o \in Tasks
               PROVE  /\ callPc'[o] = "notFound" => Ended(o)'
                      /\ callPc'[o] = "pending" =>
                            \E b \in Calls \ Tasks : callTask'[b] = o /\ callPc'[b] = "ok"
    BY DEF RefusedOnlyWhenLate
  <2>1. callPc'[o] \in {"notFound", "pending"} => callPc[o] = callPc'[o]
    BY <1>1, InboundAssumption DEF TypeOK
  <2>2. \A b \in Calls \ Tasks : callPc[b] = "ok" =>
           callTask'[b] = callTask[b] /\ callPc'[b] = "ok"
    BY <1>2
  <2> QED
    BY <1>1, <2>1, <2>2 DEF RefusedOnlyWhenLate, Ended
<1> QED
  BY <1>4, <1>5

\* The second critical section. A call that finds no waiter is late, since the
\* host was told of its task; a reply that is still in the channel when the
\* responder's call comes is another one's, so the host's.
LEMMA HandOver ==
    ASSUME IInv, CallShape, RefusedOnlyWhenLate, ExchangeAssumption, InboundAssumption,
           NEW c \in Calls, CompleteTask(c)
    PROVE  CallShape' /\ RefusedOnlyWhenLate'
<1> DEFINE t == callTask[c]
           result == IF t \notin waiters THEN "notFound"
                     ELSE IF replies[t] # NoCall THEN "pending" ELSE "ok"
<1>1. TypeOK /\ t \in Tasks
  BY DEF IInv, TypeOK
<1>2. /\ callPc[c] = "dropped" /\ callPc' = [callPc EXCEPT ![c] = result]
      /\ replies' = IF result = "ok" THEN [replies EXCEPT ![t] = c] ELSE replies
      /\ UNCHANGED <<callTask, status, handed, waiters>>
  BY DEF CompleteTask
<1>3. \A b \in Calls : b # c => callPc'[b] = callPc[b]
  BY <1>1, <1>2 DEF TypeOK
<1>4. callPc'[c] = result /\ result \in {"notFound", "pending", "ok"}
  BY <1>1, <1>2 DEF TypeOK
<1>5. CallShape'
  <2>1. \A b \in Calls : callPc'[b] # "idle" => callTask'[b] \in handed'
    BY <1>2, <1>3 DEF CallShape
  <2>2. \A o \in Tasks : callPc'[o] # "idle" => callTask'[o] = o
    BY <1>2, <1>3, InboundAssumption DEF CallShape
  <2>3. \A o \in Tasks : replies'[o] # NoCall =>
           callPc'[replies'[o]] = "ok" /\ callTask'[replies'[o]] = o
    <3> SUFFICES ASSUME NEW o \in Tasks, replies'[o] # NoCall
                 PROVE  callPc'[replies'[o]] = "ok" /\ callTask'[replies'[o]] = o
      OBVIOUS
    <3>1. CASE result = "ok" /\ o = t
      <4>1. replies'[o] = c
        BY <1>1, <1>2, <3>1 DEF TypeOK
      <4> QED
        BY <4>1, <3>1, <1>2, <1>4
    <3>2. CASE ~(result = "ok" /\ o = t)
      <4>1. replies'[o] = replies[o] /\ replies[o] \in Calls
        BY <1>1, <1>2, <3>2 DEF TypeOK
      <4>2. callPc[replies[o]] = "ok" /\ callTask[replies[o]] = o
        BY <4>1 DEF CallShape
      <4> QED
        BY <4>1, <4>2, <1>2, <1>3
    <3> QED
      BY <3>1, <3>2
  <2> QED
    BY <2>1, <2>2, <2>3 DEF CallShape
<1>6. RefusedOnlyWhenLate'
  <2> SUFFICES ASSUME NEW o \in Tasks
               PROVE  /\ callPc'[o] = "notFound" => Ended(o)'
                      /\ callPc'[o] = "pending" =>
                            \E b \in Calls \ Tasks : callTask'[b] = o /\ callPc'[b] = "ok"
    BY DEF RefusedOnlyWhenLate
  <2>1. o \in Calls
    BY InboundAssumption
  <2>2. CASE o # c
    <3>1. callPc'[o] = callPc[o]
      BY <1>3, <2>1, <2>2
    <3>2. \A b \in Calls \ Tasks : callPc[b] = "ok" => callPc'[b] = "ok"
      BY <1>2, <1>3
    <3> QED
      BY <1>2, <3>1, <3>2 DEF RefusedOnlyWhenLate, Ended
  <2>3. CASE o = c
    <3>1. t = o /\ o \in handed
      BY <1>2, <2>3 DEF CallShape
    <3>2. callPc'[o] = "notFound" => Ended(o)'
      BY <1>2, <1>4, <2>3, <3>1 DEF IInv, AnswerableWhileOpen, Ended
    <3>3. ASSUME callPc'[o] = "pending"
          PROVE  \E b \in Calls \ Tasks : callTask'[b] = o /\ callPc'[b] = "ok"
      <4>1. replies[o] # NoCall /\ replies[o] \in Calls
        BY <1>1, <1>4, <2>3, <3>1, <3>3 DEF TypeOK
      <4>2. callPc[replies[o]] = "ok" /\ callTask[replies[o]] = o
        BY <4>1 DEF CallShape
      <4>3. replies[o] # c
        BY <4>2, <1>2
      <4>4. replies[o] \notin Tasks
        BY <4>2, <4>3, <2>3 DEF CallShape
      <4> QED
        BY <4>1, <4>2, <4>3, <4>4, <1>2, <1>3
    <3> QED
      BY <3>2, <3>3
  <2> QED
    BY <2>2, <2>3
<1> QED
  BY <1>5, <1>6

\* No other step changes a call; a channel may be emptied and the host told.
LEMMA CallsKept ==
    ASSUME IInv, CallShape, RefusedOnlyWhenLate, ExchangeAssumption, InboundAssumption,
           [InboundNext]_inboundVars
    PROVE  CallShape' /\ RefusedOnlyWhenLate'
<1>0. TypeOK
  BY DEF IInv
<1>1. ASSUME UNCHANGED callVars, handed \subseteq handed',
             \A o \in Tasks : replies'[o] \in {replies[o], NoCall}
      PROVE  CallShape' /\ RefusedOnlyWhenLate'
  <2>1. UNCHANGED <<callPc, callTask>>
    BY <1>1 DEF callVars
  <2>2. CallShape'
    BY <1>0, <1>1, <2>1 DEF CallShape, TypeOK
  <2>3. \A o \in Tasks : Ended(o) => Ended(o)'
    BY <1>0, EndedStays
  <2>4. RefusedOnlyWhenLate'
    BY <2>1, <2>3 DEF RefusedOnlyWhenLate
  <2> QED
    BY <2>2, <2>4
<1>2. CASE \E t \in Tasks : RunAnswers(t)
  <2>1. PICK t \in Tasks : dropTaskEntries(t, t)
    BY <1>2 DEF RunAnswers
  <2> QED
    BY <1>0, <2>1, DropCall, InboundAssumption
<1>3. CASE \E c \in Calls : \E t \in Tasks : HostAnswers(c, t)
  <2>1. PICK c \in Calls, t \in Tasks : dropTaskEntries(c, t) /\ c \notin Tasks
    BY <1>3 DEF HostAnswers
  <2> QED
    BY <1>0, <2>1, DropCall
<1>4. CASE (\E t \in Tasks : Complete(t)) \/ (\E c \in Calls : HostAnswered(c))
  <2>1. PICK c \in Calls : CompleteTask(c)
    BY <1>4, InboundAssumption DEF Complete, HostAnswered
  <2> QED
    BY <2>1, HandOver
<1>5. CASE UNCHANGED inboundVars
  BY <1>1, <1>5 DEF inboundVars, vars, execVars
<1>6. CASE \E q \in Tasks \cup Subs :
             \/ \E t \in Tasks, form \in Forms : (q \in Subs \/ q = t) /\ Receive(q, t, form)
             \/ \E found \in {"missing", "terminal", "open", "failed"} : checkSubscribable(q, found)
             \/ Subscribe(q)
  <2>1. UNCHANGED vars
    BY <1>6 DEF Receive, checkSubscribable, Subscribe
  <2> QED
    BY <1>1, <2>1 DEF vars, execVars
<1>7. CASE \E t \in Tasks : Submit(t) \/ Deliver(t) \/ PeerCancels(t)
  BY <1>1, <1>7 DEF Submit, YieldSubmitted, Deliver, deliverIncoming, PeerCancels, Cancel, execVars
<1>8. CASE \E t \in Tasks : Execute(t)
  <2>1. UNCHANGED callVars /\ UNCHANGED handed
    BY <1>8 DEF Execute, registerWaiter, YieldRejected, YieldWorking, TakeReply,
                ContextDone, YieldArtifact, YieldCompleted, unregisterWaiter
  <2>2. \A o \in Tasks : replies'[o] \in {replies[o], NoCall}
    BY <1>0, <1>8 DEF TypeOK, Execute, registerWaiter, YieldRejected, YieldWorking, TakeReply,
                ContextDone, YieldArtifact, YieldCompleted, unregisterWaiter
  <2> QED
    BY <1>1, <2>1, <2>2
<1>9. CASE \E t \in Tasks : \/ \E empty \in BOOLEAN : Respond(t, empty)
                            \/ RunFails(t) \/ Nudge(t) \/ \E ok \in BOOLEAN : NudgeEnds(t, ok)
  BY <1>1, <1>9 DEF Respond, RunFails, Nudge, NudgeEnds, vars, execVars, callVars
<1>10. CASE (\E drain \in BOOLEAN : HostLooks(drain)) \/ Tick
  BY <1>1, <1>10 DEF HostLooks, HostReads, Tick, vars, execVars
<1> QED
  BY <1>2, <1>3, <1>4, <1>5, <1>6, <1>7, <1>8, <1>9, <1>10 DEF InboundNext, Handler

-----------------------------------------------------------------------------
(* Nudges *)

\* What one nudger handler does: a message inside the window rests on the nudge
\* that opened it, any other one gets a nudge of its own, a window after the
\* last.
LEMMA NudgeKept ==
    ASSUME InboundTypeOK, InboundAssumption, NudgeClock, NudgeCadence, NEW t \in Tasks, Nudge(t)
    PROVE  NudgeClock' /\ NudgeCadence'
<1>1. /\ clock \in Nat /\ lastNudgeAt \in Nat /\ nudges \subseteq Nat /\ CoalesceFor \in Nat \ {0}
      /\ arrived \in [Tasks -> Nat] /\ UNCHANGED <<clock, arrived, mode>>
      /\ \A o \in Tasks : o # t => wake'[o] = wake[o]
  BY InboundAssumption DEF InboundTypeOK, Nudge, Wake
<1>2. CASE Coalesces
  <2>1. UNCHANGED <<lastNudgeAt, nudges>>
    BY <1>2 DEF Nudge
  <2>2. clock - lastNudgeAt < CoalesceFor
    BY <1>2 DEF Coalesces
  <2>3. nudges # {}
    BY <1>1, <2>2 DEF NudgeClock
  <2>4. lastNudgeAt \in nudges /\ lastNudgeAt + CoalesceFor > arrived[t]
    BY <1>1, <2>2, <2>3 DEF NudgeClock
  <2>5. NudgeClock'
    BY <1>1, <2>1 DEF NudgeClock
  <2>6. NudgeCadence'
    BY <1>1, <2>1, <2>4 DEF NudgeCadence
  <2> QED
    BY <2>5, <2>6
<1>3. CASE ~Coalesces
  <2>1. lastNudgeAt' = clock /\ nudges' = nudges \cup {clock}
    BY <1>3 DEF Nudge
  <2>2. clock - lastNudgeAt >= CoalesceFor
    BY <1>1, <1>3 DEF Coalesces
  <2>3. \A n \in nudges : clock - n >= CoalesceFor
    BY <1>1, <2>2 DEF NudgeClock
  <2>4. NudgeClock'
    BY <1>1, <2>1, <2>3 DEF NudgeClock
  <2>5. clock + CoalesceFor > arrived[t]
    BY <1>1 DEF NudgeClock
  <2>6. \A m, n \in nudges' : m < n => n - m >= CoalesceFor
    <3> SUFFICES ASSUME NEW m \in nudges', NEW n \in nudges', m < n PROVE n - m >= CoalesceFor
      OBVIOUS
    <3>1. CASE m \in nudges /\ n \in nudges
      BY <3>1 DEF NudgeCadence
    <3>2. CASE m \in nudges /\ n = clock
      BY <2>3, <3>2
    <3>3. m # clock
      <4>1. ASSUME m = clock, n \in nudges PROVE FALSE
        <5>1. clock - n >= CoalesceFor /\ n \in Nat
          BY <1>1, <2>3, <4>1
        <5> QED
          BY <1>1, <4>1, <5>1
      <4> QED
        BY <1>1, <2>1, <4>1
    <3> QED
      BY <2>1, <3>1, <3>2, <3>3
  <2>7. \A o \in Tasks : mode' = "nudger" /\ wake'[o] \notin {"none", "started"} =>
           \E n \in nudges' : n + CoalesceFor > arrived'[o]
    BY <1>1, <2>1, <2>5 DEF NudgeCadence
  <2> QED
    BY <2>4, <2>6, <2>7 DEF NudgeCadence
<1> QED
  BY <1>2, <1>3

\* The queueing of a message opens its wait for a nudge.
LEMMA DeliverNudges ==
    ASSUME InboundTypeOK, InboundAssumption, NudgeClock, NudgeCadence, NEW t \in Tasks, Deliver(t)
    PROVE  NudgeClock' /\ NudgeCadence'
<1>1. /\ clock \in Nat /\ lastNudgeAt \in Nat /\ nudges \subseteq Nat
      /\ arrived \in [Tasks -> Nat] /\ UNCHANGED <<clock, mode, lastNudgeAt, nudges>>
  BY DEF InboundTypeOK, Deliver
<1>2. \A o \in Tasks : \/ arrived'[o] = arrived[o] /\ wake'[o] = wake[o]
                       \/ arrived'[o] = clock /\ wake'[o] = "started"
  BY DEF InboundTypeOK, Deliver
<1>3. NudgeClock'
  BY <1>1, <1>2 DEF NudgeClock
<1>4. NudgeCadence'
  BY <1>1, <1>2 DEF NudgeCadence
<1> QED
  BY <1>3, <1>4

\* The other steps leave the nudges alone; time only passes.
LEMMA NudgesKept ==
    ASSUME InboundTypeOK, InboundAssumption, NudgeClock, NudgeCadence, [InboundNext]_inboundVars
    PROVE  NudgeClock' /\ NudgeCadence'
<1>1. ASSUME UNCHANGED <<lastNudgeAt, nudges, arrived, mode>>, clock' \in Nat, clock' >= clock,
             \A o \in Tasks : wake'[o] = wake[o] \/ wake[o] \notin {"none", "started"}
                                                 \/ mode # "nudger"
      PROVE  NudgeClock' /\ NudgeCadence'
  <2>1. clock \in Nat /\ lastNudgeAt \in Nat /\ CoalesceFor \in Nat /\ arrived \in [Tasks -> Nat]
    BY InboundAssumption DEF InboundTypeOK
  <2>2. NudgeClock'
    BY <1>1, <2>1 DEF NudgeClock
  <2>3. NudgeCadence'
    BY <1>1 DEF NudgeCadence
  <2> QED
    BY <2>2, <2>3
<1>2. clock \in Nat /\ clock >= clock /\ wake = [o \in Tasks |-> wake[o]]
  BY DEF InboundTypeOK
<1>3. CASE UNCHANGED wakeVars
  BY <1>1, <1>2, <1>3 DEF wakeVars
<1>4. CASE \E t \in Tasks : Deliver(t)
  BY <1>4, DeliverNudges
<1>5. CASE \E t \in Tasks : Nudge(t)
  BY <1>5, NudgeKept
<1>6. ASSUME NEW t \in Tasks,
             \/ \E empty \in BOOLEAN : Respond(t, empty)
             \/ RunFails(t) \/ RunAnswers(t) \/ Complete(t) \/ \E ok \in BOOLEAN : NudgeEnds(t, ok)
      PROVE  NudgeClock' /\ NudgeCadence'
  <2>1. /\ UNCHANGED <<lastNudgeAt, nudges, arrived, mode, clock>>
        /\ wake[t] \notin {"none", "started"} \/ mode # "nudger"
        /\ \E place : Wake(t, place)
    BY <1>6 DEF Respond, RunFails, RunAnswers, Complete, NudgeEnds
  <2>2. \A o \in Tasks : o # t => wake'[o] = wake[o]
    BY <1>2, <2>1 DEF Wake
  <2> QED
    BY <1>1, <1>2, <2>1, <2>2
<1>7. CASE Tick
  BY <1>1, <1>2, <1>7 DEF Tick
<1>8. CASE UNCHANGED inboundVars
  BY <1>3, <1>8 DEF inboundVars
<1>9. CASE \E q \in Tasks \cup Subs :
             \/ \E t \in Tasks, form \in Forms : (q \in Subs \/ q = t) /\ Receive(q, t, form)
             \/ \E found \in {"missing", "terminal", "open", "failed"} : checkSubscribable(q, found)
             \/ Subscribe(q)
  <2>1. UNCHANGED wakeVars
    BY <1>9 DEF Receive, checkSubscribable, Subscribe
  <2> QED
    BY <1>3, <2>1
<1>10. CASE \/ \E t \in Tasks : Submit(t) \/ Execute(t) \/ PeerCancels(t)
            \/ \E drain \in BOOLEAN : HostLooks(drain)
            \/ \E c \in Calls : HostAnswered(c) \/ \E t \in Tasks : HostAnswers(c, t)
  <2>1. UNCHANGED wakeVars
    BY <1>10 DEF Submit, Execute, PeerCancels, HostLooks, HostAnswered, HostAnswers
  <2> QED
    BY <1>3, <2>1
<1> QED
  BY <1>4, <1>5, <1>6, <1>7, <1>8, <1>9, <1>10 DEF InboundNext, Handler

-----------------------------------------------------------------------------
(* Types *)

\* The state of requests, handlers and nudges keeps its type.
LEMMA InboundTypes ==
    ASSUME InboundTypeOK, TypeOK', InboundAssumption, [InboundNext]_inboundVars,
           rq' \in [Tasks \cup Subs -> RequestRecord]
    PROVE  InboundTypeOK'
<1>1. requests' \in 0..MaxRequests
  <2>1. CASE \E q \in Tasks \cup Subs : \E t \in Tasks, form \in Forms : Receive(q, t, form)
    BY <2>1, InboundAssumption DEF InboundTypeOK, Receive
  <2>2. CASE UNCHANGED requests
    BY <2>2 DEF InboundTypeOK
  <2>3. \/ \E q \in Tasks \cup Subs : \E t \in Tasks, form \in Forms : Receive(q, t, form)
        \/ UNCHANGED requests
    <3>1. CASE UNCHANGED inboundVars
      BY <3>1 DEF inboundVars
    <3>2. ASSUME NEW q \in Tasks \cup Subs, NEW found \in {"missing", "terminal", "open", "failed"},
                 checkSubscribable(q, found)
          PROVE  UNCHANGED requests
      BY <3>2 DEF checkSubscribable
    <3>3. ASSUME NEW q \in Tasks \cup Subs, Subscribe(q) PROVE UNCHANGED requests
      BY <3>3 DEF Subscribe
    <3>4. CASE \E t \in Tasks : \/ Submit(t) \/ Deliver(t) \/ Execute(t) \/ PeerCancels(t)
                                \/ Handler(t)
      BY <3>4 DEF Submit, Deliver, Execute, PeerCancels, Handler, Respond, RunFails, RunAnswers,
                  Complete, Nudge, NudgeEnds
    <3>5. CASE \/ \E drain \in BOOLEAN : HostLooks(drain)
               \/ \E c \in Calls : HostAnswered(c) \/ \E t \in Tasks : HostAnswers(c, t)
               \/ Tick
      BY <3>5 DEF HostLooks, HostAnswered, HostAnswers, Tick
    <3> QED
      BY <3>1, <3>2, <3>3, <3>4, <3>5 DEF InboundNext
  <2> QED
    BY <2>1, <2>2, <2>3
<1> DEFINE WakeTypes ==
        /\ mode' \in Modes
        /\ wake' \in [Tasks -> {"none", "started", "running", "completing", "nudging", "skipped",
                                "answered", "failed", "done"}]
        /\ clock' \in Nat /\ lastNudgeAt' \in Nat /\ nudges' \subseteq Nat
        /\ arrived' \in [Tasks -> Nat]
<1>2. WakeTypes
  <2>1. CASE UNCHANGED wakeVars
    BY <2>1 DEF InboundTypeOK, wakeVars
  <2>2. ASSUME NEW t \in Tasks, Deliver(t) PROVE WakeTypes
    BY <2>2 DEF InboundTypeOK, Deliver
  <2>3. ASSUME NEW t \in Tasks, Handler(t) PROVE WakeTypes
    <3>1. CASE Nudge(t)
      BY <3>1 DEF InboundTypeOK, Nudge, Wake
    <3>2. CASE ~Nudge(t)
      BY <2>3, <3>2 DEF InboundTypeOK, Handler, Respond, RunFails, RunAnswers, Complete, NudgeEnds,
                  Wake
    <3> QED
      BY <3>1, <3>2
  <2>4. CASE Tick
    BY <2>4 DEF InboundTypeOK, Tick
  <2>5. CASE UNCHANGED inboundVars
    BY <2>1, <2>5 DEF inboundVars
  <2>6. CASE \E q \in Tasks \cup Subs :
             \/ \E t \in Tasks, form \in Forms : (q \in Subs \/ q = t) /\ Receive(q, t, form)
             \/ \E found \in {"missing", "terminal", "open", "failed"} : checkSubscribable(q, found)
             \/ Subscribe(q)
    <3>1. UNCHANGED wakeVars
      BY <2>6 DEF Receive, checkSubscribable, Subscribe
    <3> QED
      BY <2>1, <3>1
  <2>7. CASE \/ \E t \in Tasks : Submit(t) \/ Execute(t) \/ PeerCancels(t)
             \/ \E drain \in BOOLEAN : HostLooks(drain)
             \/ \E c \in Calls : HostAnswered(c) \/ \E t \in Tasks : HostAnswers(c, t)
    <3>1. UNCHANGED wakeVars
      BY <2>7 DEF Submit, Execute, PeerCancels, HostLooks, HostAnswered, HostAnswers
    <3> QED
      BY <2>1, <3>1
  <2> QED
    BY <2>2, <2>3, <2>4, <2>5, <2>6, <2>7 DEF InboundNext
<1> QED
  BY <1>1, <1>2 DEF InboundTypeOK, RequestRecord, Places

-----------------------------------------------------------------------------
(* The theorems *)

\* Nothing has come in, and no nudge was sent.
LEMMA InboundInitInv == InboundInit => InboundInv
<1> SUFFICES ASSUME InboundInit PROVE InboundInv
  OBVIOUS
<1>1. IInv /\ TypeOK
  BY InitIInv DEF InboundInit, IInv
<1>2. \A q \in Tasks \cup Subs : rq[q] = NoRequest
  BY DEF InboundInit
<1>3. NoRequest \in RequestRecord
  BY DEF NoRequest, RequestRecord, Places
<1>4. InboundTypeOK
  BY <1>1, <1>3, InboundAssumption DEF InboundInit, InboundTypeOK, RequestRecord, Places, Modes
<1>5. RequestShape
  BY <1>2 DEF RequestShape, NoRequest
<1>6. WakeShape /\ NudgeClock /\ NudgeCadence
  BY InboundAssumption DEF InboundInit, WakeShape, NudgeClock, NudgeCadence
<1>7. CallShape /\ RefusedOnlyWhenLate
  BY InboundAssumption DEF InboundInit, Init, CallShape, RefusedOnlyWhenLate
<1> QED
  BY <1>1, <1>4, <1>5, <1>6, <1>7 DEF InboundInv

\* Every step keeps every part.
LEMMA InboundNextInv == InboundInv /\ [InboundNext]_inboundVars => InboundInv'
<1> SUFFICES ASSUME InboundInv, [InboundNext]_inboundVars PROVE InboundInv'
  OBVIOUS
<1> USE ExchangeAssumption, InboundAssumption
<1>1. /\ InboundTypeOK /\ IInv /\ RequestShape /\ WakeShape /\ CallShape /\ NudgeClock
      /\ NudgeCadence /\ RefusedOnlyWhenLate
  BY DEF InboundInv
<1>2. IInv'
  BY <1>1, InboundIInv
<1>3. rq' \in [Tasks \cup Subs -> RequestRecord] /\ RequestShape'
  BY <1>1, RequestsGood
<1>4. InboundTypeOK'
  BY <1>1, <1>2, <1>3, InboundTypes DEF IInv
<1>5. WakeShape'
  BY <1>1, WakeKept
<1>6. CallShape' /\ RefusedOnlyWhenLate'
  BY <1>1, CallsKept
<1>7. NudgeClock' /\ NudgeCadence'
  BY <1>1, NudgesKept
<1> QED
  BY <1>2, <1>3, <1>4, <1>5, <1>6, <1>7 DEF InboundInv

\* The invariant of the whole way in, for any tasks, calls, subscriptions and
\* forms of a request, any window and any bound.
THEOREM InboundInvariant == InboundSpec => []InboundInv
BY InboundInitInv, InboundNextInv, PTL DEF InboundSpec

\* The server takes the version of every request the guard lets through.
THEOREM GuardIsEnough == InboundSpec => []AcceptedIsServed
<1>1. InboundInv => AcceptedIsServed
  BY DEF InboundInv, RequestShape, AcceptedIsServed
<1> QED
  BY <1>1, InboundInvariant, PTL

\* Nudges keep their distance and no message goes without one.
THEOREM NudgesKeepCadence == InboundSpec => []NudgeCadence
<1>1. InboundInv => NudgeCadence
  BY DEF InboundInv
<1> QED
  BY <1>1, InboundInvariant, PTL

\* The responder's answer is refused only when it is late.
THEOREM OnlyLateAnswersRefused == InboundSpec => []RefusedOnlyWhenLate
<1>1. InboundInv => RefusedOnlyWhenLate
  BY DEF InboundInv
<1> QED
  BY <1>1, InboundInvariant, PTL

\* No stream is opened for a task that had ended before the subscription came.
THEOREM EndedGetsNoStream == InboundSpec => NoStreamForEnded
<1>1. InboundInv => \A q \in Subs : rq[q].at = "passed" => ~rq[q].over
  BY DEF InboundInv, RequestShape
<1>2. InboundInv /\ [InboundNext]_inboundVars =>
        [\A q \in Subs : rq'[q].at = "errorStream" /\ rq[q].at = "passed" => ~rq[q].over]_inboundVars
  BY <1>1
<1> QED
  BY <1>2, InboundInvariant, PTL DEF InboundSpec, NoStreamForEnded

====
