------------------------------ MODULE Gateway ------------------------------
(***************************************************************************)
(* The voice gateway's control plane (gateway/gateway.go, handlers.go)     *)
(* over the call system: the HTTP goroutines that handle webhooks and      *)
(* media streams, the application's goroutines, and the map of sessions.   *)
(*                                                                         *)
(* Telnyx delivers a webhook at least once, in any order and concurrently. *)
(* A Session is seen here as far as the map and Session.Close go; its      *)
(* inside is in AudioMode and VoicePipeline.                               *)
(***************************************************************************)
EXTENDS CallSystem

CONSTANTS Workers,        \* goroutines handling webhooks
          Streams,        \* goroutines handling media streams
          Apps,           \* the application's goroutines
          DialledTo,      \* where the webhooks of placed calls are posted
          MaxDeliveries,  \* webhooks delivered in all (bound)
          MaxOps,         \* operations of the application in all (bound)
          Ops             \* which operations the application performs

ASSUME GatewayConstants ==
  /\ Workers \cup Streams \cup Apps = Threads
  /\ DialledTo \subseteq {"event", "status", "upgrade"}
  /\ MaxDeliveries \in Nat /\ MaxOps \in Nat
  /\ Ops \subseteq {"dial", "hangup", "close", "shutdown", "stop"}

VARIABLES
  sessions,   \* Gateway.sessions: id -> index of a Session, 0 when absent
  objects,    \* the Session objects ever created
  gmu,        \* the goroutine holding Gateway.mu across steps, {} when free
  delivered,  \* webhooks delivered so far
  ops,        \* operations of the application so far
  serving,    \* the HTTP server has not been shut down
  returned,   \* history: the session MakeCall returned for each call, or 0
  agreed,     \* history: calls the OnCall handler has accepted
  handled     \* history: webhooks a handler has dealt with to the end

gate == <<sessions, objects, gmu>>
intake == <<delivered, ops, serving>>
record == <<returned, agreed, handled>>
vars == <<telnyx, registry, job, history, gate, intake, record>>
system == <<telnyx, registry, history>>

Init ==
  /\ SystemInit
  /\ sessions = [id \in Ids |-> 0]
  /\ objects = <<>>
  /\ gmu = {}
  /\ delivered = 0
  /\ ops = 0
  /\ serving = TRUE
  /\ returned = [id \in Ids |-> 0]
  /\ agreed = {}
  /\ handled = {}

\* A step of the call system, with the gateway's own state unchanged.
Calls(A) == A /\ UNCHANGED <<gate, intake, record>>
-----------------------------------------------------------------------------
(* Sessions. *)

\* createSession replaces what the map holds for the call.
CreateSession(t, next) ==
  /\ gmu = {}
  /\ objects' = Append(objects, [id |-> job[t].id, close |-> "open"])
  /\ sessions' = [sessions EXCEPT ![job[t].id] = Len(objects) + 1]
  /\ job' = [job EXCEPT ![t].at = next, ![t].sess = Len(objects) + 1]
  /\ UNCHANGED gmu

\* A call of Session.Close by goroutine t, which waits for its end; closed,
\* done and the media stream's close come first (AudioMode has the steps).
CallClose(t, label, s, next) ==
  /\ At(t, label)
  /\ objects' = [objects EXCEPT ![s].close = IF @ = "open" THEN "closed"
                                             ELSE @]
  /\ job' = [job EXCEPT ![t].at = next, ![t].sess = s]
  /\ UNCHANGED <<system, sessions, gmu, intake, record>>

\* Mutant: Close leaves the session in the map.
CloseRemoves_Nothing(s) ==
  /\ objects[s].close = "closed" /\ gmu = {}
  /\ objects' = [objects EXCEPT ![s].close = "finished"]
  /\ UNCHANGED <<system, job, sessions, gmu, intake, record>>

\* removeSession, by call ID and under Gateway.mu, then the events channel.
CloseRemoves(s) ==
  /\ objects[s].close = "closed" /\ gmu = {}
  /\ objects' = [objects EXCEPT ![s].close = "finished"]
  /\ sessions' = [sessions EXCEPT ![objects[s].id] = 0]
  /\ UNCHANGED <<system, job, gmu, intake, record>>

Closing == \E s \in DOMAIN objects : CloseRemoves(s)

Closed(t, label) == At(t, label) /\ objects[job[t].sess].close = "finished"
-----------------------------------------------------------------------------
(* Webhooks.  "event" is handleInboundCall, "status" handleCallStatus and  *)
(* "upgrade" handleMediaStream, whose address New gives the call system as *)
(* the webhook URL of the calls it places; Provider.Configure changes it.  *)

Deliver(t, type, id, endpoint) ==
  /\ serving /\ At(t, "idle")
  /\ <<type, id>> \in emitted
  /\ endpoint \in IF id \in Outbound THEN DialledTo ELSE {"event", "status"}
  /\ delivered < MaxDeliveries
  /\ delivered' = delivered + 1
  /\ job' = [job EXCEPT ![t] = [Idle EXCEPT !.at = endpoint, !.id = id,
                                            !.ev = type]]
  /\ UNCHANGED <<system, gate, ops, serving, record>>

HandledOK(t) == handled' = handled \cup {<<job[t].ev, job[t].id>>}

\* handleMediaStream: a webhook is no WebSocket handshake.
UpgradeFails(t) ==
  /\ At(t, "upgrade")
  /\ Return(t) /\ HandledOK(t)
  /\ UNCHANGED <<system, gate, intake, returned, agreed>>

\* handleCallInitiated, for a call not placed by MakeCall.
Initiated(t) ==
  /\ At(t, "event") /\ job[t].ev = "call.initiated"
  /\ \/ job[t].id \in Outbound /\ Return(t) /\ UNCHANGED gate
     \/ job[t].id \in Inbound /\ CreateSession(t, "decide")
  /\ UNCHANGED <<system, intake, record>>

\* Mutant: a refused call's session is left behind.
Decide_KeepsSession(t) ==
  /\ At(t, "decide")
  /\ \/ Go(t, "reject") /\ UNCHANGED agreed
     \/ Go(t, "register") /\ agreed' = agreed \cup {job[t].id}
  /\ UNCHANGED <<system, gate, intake, returned, handled>>

\* The OnCall handler, which may decide differently on a repeated webhook; a
\* refused call's session leaves the map.
Decide(t) ==
  /\ At(t, "decide")
  /\ \/ /\ gmu = {}
        /\ sessions' = [sessions EXCEPT ![job[t].id] = 0]
        /\ Go(t, "reject")
        /\ UNCHANGED <<objects, gmu, agreed>>
     \/ /\ Go(t, "register")
        /\ agreed' = agreed \cup {job[t].id}
        /\ UNCHANGED gate
  /\ UNCHANGED <<system, intake, returned, handled>>

\* GetCall in a handler, which is done when the call is not known.
HandlerLooksUp(t, label, found) ==
  /\ LookUpCall(t, label, found)
  /\ \/ calls[job[t].id] = 0 /\ HandledOK(t)
     \/ calls[job[t].id] # 0 /\ UNCHANGED handled
  /\ UNCHANGED <<gate, intake, returned, agreed>>

\* The refused call is looked up to hang it up.
Reject(t) ==
  \/ HandlerLooksUp(t, "reject", "refuse")
  \/ Calls(RequestHangup(t, "refuse", Go(t, "refused"), Return(t)))
  \/ Calls(MarkEnded(t, "refused", Return(t)))

Accept(t) ==
  Calls(RegisterInbound(t) \/ RequestAnswer(t) \/ MarkAnswered(t))

\* handleCallAnswered.
Answered(t) ==
  \/ /\ job[t].ev = "call.answered"
     /\ HandlerLooksUp(t, "event", "digits")
  \/ Calls(TakeDigits(t) \/ SendDtmf(t))
  \/ /\ StartStreaming(t) /\ HandledOK(t)
     /\ UNCHANGED <<gate, intake, returned, agreed>>

\* handleCallHangup: the call system first, then the session.
HungUpEvent(t) ==
  \/ /\ job[t].ev = "call.hangup"
     /\ Calls(ApplyEvent(t, "event", "drop", Go(t, "find")))
  \/ Calls(DropIfEnded(t, "drop", Go(t, "find")))
  \/ /\ At(t, "find") /\ gmu = {}
     /\ sessions[job[t].id] = 0
     /\ Return(t) /\ HandledOK(t)
     /\ UNCHANGED <<system, gate, intake, returned, agreed>>
  \/ /\ At(t, "find") /\ gmu = {}
     /\ sessions[job[t].id] # 0
     /\ job' = [job EXCEPT ![t].at = "found", ![t].sess = sessions[job[t].id]]
     /\ UNCHANGED <<system, gate, intake, record>>
  \/ CallClose(t, "found", job[t].sess, "closing")
  \/ /\ Closed(t, "closing")
     /\ Return(t) /\ HandledOK(t)
     /\ UNCHANGED <<system, gate, intake, returned, agreed>>

\* handleCallStatus: the call system only.
StatusEvent(t) ==
  \/ Calls(ApplyEvent(t, "status", "statusDrop", Return(t)))
  \/ Calls(DropIfEnded(t, "statusDrop", Return(t)))

Worker(t) == \/ UpgradeFails(t) \/ Initiated(t) \/ Decide(t) \/ Reject(t)
             \/ Accept(t) \/ Answered(t) \/ HungUpEvent(t) \/ StatusEvent(t)
-----------------------------------------------------------------------------
(* Media streams: handleMediaStream, from the start message on.  A stream's *)
(* connection ends when Telnyx ends the stream, or with the Close of the    *)
(* session it is attached to, the one startPipeline has given it to.        *)

StreamConnects(t, id) ==
  /\ serving /\ At(t, "idle") /\ streamed[id] = "started"
  /\ streamed' = [streamed EXCEPT ![id] = "open"]
  /\ job' = [job EXCEPT ![t] = [Idle EXCEPT !.at = "start", !.id = id]]
  /\ UNCHANGED <<tel, emitted, registry, history, gate, intake, record>>

\* Telnyx stops the stream or the WebSocket breaks; the read loop closes the
\* connection.
StreamBreaks(id) ==
  /\ streamed[id] = "open"
  /\ streamed' = [streamed EXCEPT ![id] = "over"]
  /\ UNCHANGED <<tel, emitted, registry, job, history, gate, intake, record>>

Open(s) == objects[s].close = "open"
Attached(t) == job[t].at \in {"forwarding", "talking", "attached"}
ConnDone(t) == \/ ~At(t, "idle") /\ streamed[job[t].id] = "over"
               \/ Attached(t) /\ ~Open(job[t].sess)

\* getSessionInternal and, when it finds nothing, createSession.
StreamStart(t) ==
  /\ At(t, "start") /\ gmu = {}
  /\ LET s == sessions[job[t].id]
     IN job' = [job EXCEPT ![t].at = IF s = 0 THEN "create" ELSE "bound",
                           ![t].sess = s]
  /\ UNCHANGED <<system, gate, intake, record>>

StreamCreates(t) ==
  /\ At(t, "create")
  /\ CreateSession(t, "bound")
  /\ UNCHANGED <<system, intake, record>>

\* startPipeline in PipelineModeAudio leaves a closed session alone.  In the
\* other modes it attaches the connection whatever the session's state, which
\* is too late for a Close that has looked for one; what is left to wait for is
\* then the end of the stream (and before it the pipeline's duration).
TakeOver(t) ==
  /\ At(t, "bound")
  /\ IF Open(job[t].sess) THEN Go(t, "forwarding") ELSE Go(t, "unattached")

SetsPipeline(t) ==
  /\ At(t, "bound")
  /\ \/ objects[job[t].sess].close # "finished" /\ Go(t, "talking")
     \/ ~Open(job[t].sess) /\ Go(t, "unattached")

\* The select before startPipeline may also see a connection that has ended.
StreamBound(t) ==
  /\ \/ TakeOver(t)
     \/ SetsPipeline(t)
     \/ At(t, "bound") /\ ConnDone(t) /\ Return(t)
  /\ UNCHANGED <<system, gate, intake, record>>

\* The forwarder closes the session when the stream or the session ends, and
\* when MaxSessionDuration has passed, which it may have at any time.
ForwarderCloses(t) ==
  CallClose(t, "forwarding", job[t].sess, "stopped")

ForwarderEnds(t) ==
  /\ Closed(t, "stopped")
  /\ Return(t)
  /\ UNCHANGED <<system, gate, intake, record>>

\* Pipeline.Start returns when the session is closed and when its duration has
\* passed, NewPipeline may fail; none of them closes anything.
PipelineReturns(t) ==
  /\ At(t, "talking") /\ Go(t, "attached")
  /\ UNCHANGED <<system, gate, intake, record>>

\* handleMediaStream's last line: <-conn.done.
StreamEnds(t) ==
  /\ At(t, "attached") \/ At(t, "unattached")
  /\ ConnDone(t)
  /\ Return(t)
  /\ UNCHANGED <<system, gate, intake, record>>

Stream(t) == \/ StreamStart(t) \/ StreamCreates(t) \/ StreamBound(t)
             \/ ForwarderCloses(t) \/ ForwarderEnds(t)
             \/ PipelineReturns(t) \/ StreamEnds(t)
-----------------------------------------------------------------------------
(* The application.                                                        *)

Begins(op) == op \in Ops /\ ops < MaxOps /\ ops' = ops + 1

\* MakeCallWithOptions: Dial and registration, then the session.
AppDials(t) ==
  \/ /\ Begins("dial")
     /\ \E id \in Outbound : Dial(t, id)
     /\ UNCHANGED <<gate, delivered, serving, record>>
  \/ Calls(RegisterOutbound(t, "registered"))
  \/ /\ At(t, "registered")
     /\ CreateSession(t, "made")
     /\ UNCHANGED <<system, intake, record>>
  \/ /\ At(t, "made")
     /\ returned' = [returned EXCEPT ![job[t].id] = job[t].sess]
     /\ Return(t)
     /\ UNCHANGED <<system, gate, intake, agreed, handled>>

\* Session.Hangup or Session.Close on a session from GetSession or MakeCall.
AppEnds(t, s) ==
  /\ At(t, "idle")
  /\ s \in {sessions[id] : id \in Ids} \cup {returned[id] : id \in Ids}
  /\ s # 0 /\ (s \in {sessions[id] : id \in Ids} => gmu = {})
  /\ \/ Begins("hangup") /\ job' = [job EXCEPT ![t] =
          [Idle EXCEPT !.at = "hangup", !.id = objects[s].id, !.sess = s]]
     \/ Begins("close") /\ job' = [job EXCEPT ![t] =
          [Idle EXCEPT !.at = "close", !.id = objects[s].id, !.sess = s]]
  /\ UNCHANGED <<system, gate, delivered, serving, record>>

AppEnding(t) ==
  \/ Calls(RequestHangup(t, "hangup", Go(t, "close"), Return(t)))
  \/ CallClose(t, "close", job[t].sess, "ending")
  \/ /\ Closed(t, "ending")
     /\ Return(t)
     /\ UNCHANGED <<system, gate, intake, record>>

\* Provider.Close, reached through Gateway.CallSystem.
AppShutsDown(t) ==
  \/ /\ Begins("shutdown") /\ Shutdown(t)
     /\ UNCHANGED <<gate, delivered, serving, record>>
  \/ Calls(ShutdownNext(t) \/ ShutdownHangs(t) \/ ShutdownForgets(t)
             \/ ShutdownEnds(t))

\* Gateway.Stop closes the sessions under Gateway.mu, one after the other,
\* then the HTTP server.
InStop(t) == At(t, "stop") \/ Closed(t, "stopping")
AppStops(t) ==
  \/ /\ Begins("stop") /\ At(t, "idle") /\ gmu = {}
     /\ gmu' = {t}
     /\ Go(t, "stop")
     /\ UNCHANGED <<system, sessions, objects, delivered, serving, record>>
  \/ /\ InStop(t)
     /\ \E id \in Ids : /\ sessions[id] # 0
                        /\ CallClose(t, job[t].at, sessions[id], "stopping")
  \/ /\ InStop(t) /\ \A id \in Ids : sessions[id] = 0
     /\ gmu' = {}
     /\ serving' = FALSE
     /\ Return(t)
     /\ UNCHANGED <<system, sessions, objects, delivered, ops, record>>

App(t) == AppDials(t) \/ AppEnding(t) \/ AppShutsDown(t) \/ AppStops(t)
-----------------------------------------------------------------------------
Environment ==
  \/ Telnyx /\ UNCHANGED <<gate, intake, record>>
  \/ \E t \in Workers, e \in EventTypes, id \in Ids,
        endpoint \in {"event", "status", "upgrade"} :
        Deliver(t, e, id, endpoint)
  \/ \E t \in Streams, id \in Ids : StreamConnects(t, id)
  \/ \E id \in Ids : StreamBreaks(id)
  \/ \E t \in Apps, s \in DOMAIN objects : AppEnds(t, s)

Next ==
  \/ Environment
  \/ Closing
  \/ \E t \in Workers : Worker(t)
  \/ \E t \in Streams : Stream(t)
  \/ \E t \in Apps : App(t)

Spec == Init /\ [][Next]_vars

\* Goroutines run, a webhook handler's requests end by their context's
\* deadline, and MaxSessionDuration passes.  Nothing else is owed: no webhook
\* or end of a stream by Telnyx, no operation by the application, and no end
\* of a hangup request, whose context is the application's (Session.Hangup)
\* or has no deadline (Provider.Close).
OwnsStep(t) == job[t].at \notin {"idle", "hangup", "hanging"}

FairSpec ==
  /\ Spec
  /\ WF_vars(Closing)
  /\ \A t \in Workers : WF_vars(Worker(t))
  /\ \A t \in Streams : WF_vars(Stream(t))
  /\ \A t \in Apps : WF_vars(App(t) /\ OwnsStep(t))
-----------------------------------------------------------------------------
Labels == {"idle", "event", "status", "upgrade", "statusDrop", "decide",
           "reject", "refuse", "refused", "register", "answer", "answered",
           "digits", "dtmf", "stream", "drop", "find", "found", "closing",
           "start", "create", "bound", "forwarding", "talking", "attached",
           "unattached", "stopped", "dialled", "registered", "made", "hangup",
           "close", "ending", "shutdown", "hanging", "hung", "forget", "stop",
           "stopping"}

\* Where a goroutine uses a Call or a Session, it has found one.
WithCall == {"answer", "answered", "refuse", "refused", "digits", "dtmf",
             "stream", "hanging", "hung"}
WithSession == {"bound", "forwarding", "talking", "attached", "unattached",
                "stopped", "made", "hangup", "close", "ending", "found",
                "closing", "stopping"}

\* The type of every variable, and that of the goroutines' local variables.
TypeOK ==
  /\ tel \in [Ids -> {"none", "ringing", "answered", "ended"}]
  /\ emitted \subseteq EventTypes \X Ids
  /\ streamed \in [Ids -> {"no", "started", "open", "over"}]
  /\ calls \in [Ids -> 0..Len(objs)]
  /\ objs \in Seq([id : Ids, status : Statuses, digits : BOOLEAN])
  /\ pmu \in {{}} \cup {{t} : t \in Threads}
  /\ job \in [Threads -> [at : Labels, id : Ids \cup {"none"},
                          ev : EventTypes \cup {"none"},
                          call : 0..Len(objs), sess : 0..Len(objects)]]
  /\ \A t \in Threads : /\ job[t].at \in WithCall => job[t].call # 0
                        /\ job[t].at \in WithSession => job[t].sess # 0
  /\ dtmf \in [Ids -> Nat]
  /\ hangups \subseteq Ids
  /\ sessions \in [Ids -> 0..Len(objects)]
  /\ objects \in Seq([id : Ids, close : {"open", "closed", "finished"}])
  /\ gmu \in {{}} \cup {{t} : t \in Apps}
  /\ delivered \in 0..MaxDeliveries
  /\ ops \in 0..MaxOps
  /\ serving \in BOOLEAN
  /\ returned \in [Ids -> 0..Len(objects)]
  /\ agreed \subseteq Ids
  /\ handled \subseteq EventTypes \X Ids

\* README, "Digits are sent once per call": however often call.answered is
\* delivered, at most one request enters them.
DigitsOnce == \A id \in Ids : dtmf[id] <= 1

\* A call leaves the registry only after Telnyx has ended it, whatever order
\* the webhooks come in, except by Provider.Close.
DropsOnlyEnded ==
  [][\A id \in Ids : calls[id] # 0 /\ calls'[id] = 0
       => \/ tel[id] = "ended"
          \/ \E t \in Apps : At(t, "forget")]_vars

\* Once no goroutine works on it, a call the OnCall handler has never accepted
\* has left neither a session nor a Call behind, and was not answered.
Busy(id) == \E t \in Threads : job[t].id = id
RejectedLeavesNothing ==
  \A id \in Inbound \ agreed :
     ~Busy(id) => sessions[id] = 0 /\ calls[id] = 0 /\ tel[id] # "answered"

\* A session whose Close has finished is not in the map, although removal is
\* by call ID and the map may have held another session of the call.
ClosedIsUnlisted ==
  \A id \in Ids : sessions[id] # 0 => objects[sessions[id]].close # "finished"

\* Every webhook handler returns, and every media stream handler does once
\* its connection has ended or, in audio mode, the session's duration has
\* passed: no cycle of waiting between Provider.mu, Gateway.mu and
\* Session.Close (short of Gateway.Stop), as long as Provider.Close, which
\* waits for Telnyx under Provider.mu, gets an answer.
ShutdownAnswered == \A t \in Apps : At(t, "hanging") ~> ~At(t, "hanging")
HandlersReturn ==
  ShutdownAnswered =>
    /\ \A t \in Workers : ~At(t, "idle") ~> At(t, "idle")
    /\ \A t \in Streams : ConnDone(t) \/ At(t, "forwarding") ~> At(t, "idle")
-----------------------------------------------------------------------------
\* handlers.go, "Reject the call via Call Control API": once the call.initiated
\* of a call that was never accepted has been handled, its hangup has been
\* requested.
RejectionHangsUp ==
  \A id \in Inbound \ agreed :
     <<"call.initiated", id>> \in handled => id \in hangups

\* gateway.go, "Stop gracefully shuts down the gateway": Stop returns.
StopReturns == \A t \in Apps : At(t, "stop") ~> At(t, "idle")
=============================================================================
