---------------------------- MODULE MediaStream ----------------------------
(***************************************************************************)
(* One call's Session (gateway/session.go) and the mediaStreamConn that    *)
(* carries its audio (gateway/connection.go): the two structs, the steps   *)
(* of Session.Close and mediaStreamConn.close, the read loop, emitEvent,   *)
(* and the call.hangup webhook.  What the HTTP handler goroutine does once *)
(* the stream is bound depends on the pipeline mode and is in the modules  *)
(* that extend this one.                                                   *)
(*                                                                         *)
(* Each close is guarded by a sync.Once: the first caller runs its steps   *)
(* and every later caller blocks until they have finished, so the steps    *)
(* need no thread of their own: field "close" names the next one to run.   *)
(***************************************************************************)
EXTENDS Naturals, Sequences

CONSTANTS MaxMedia,   \* media messages Telnyx sends on the stream (bound)
          InCap,      \* capacity of audioIn (250 in the code)
          EvCap       \* capacity of Session.events (100 in the code)

ASSUME MediaBounds == MaxMedia \in Nat /\ InCap \in Nat /\ EvCap \in Nat

VARIABLES
  sess,      \* the Session struct
  conn,      \* the mediaStreamConn struct
  pc,        \* where each goroutine is
  rlock,     \* goroutines holding Session.mu for reading inside emitEvent
  events,    \* number of events buffered in Session.events
  announced, \* history: a session.ended event has entered events ("sent"),
             \* or every one so far found it full ("full")
  sent,      \* media messages read since the pipeline was ready
  chunk,     \* the audio chunk the read loop holds (0: none)
  audioIn,   \* the audioIn channel
  accepted,  \* history: every chunk that entered audioIn
  panic      \* the channel whose misuse panicked ("none": no panic)

bus == <<rlock, events, announced>>
media == <<sent, chunk, audioIn, accepted>>

Threads == {"reader", "handler", "webhook", "app"}

CloseSteps == {"idle", "flag", "done", "pipeline", "conn", "connWait",
               "remove", "events", "finished"}
ConnCloseSteps == {"idle", "flag", "done", "in", "out", "ws", "finished"}

Sessions == [close : CloseSteps, by : Threads \cup {"none"},
             closed : BOOLEAN, done : BOOLEAN, conn : BOOLEAN,
             pipeline : BOOLEAN, stopped : BOOLEAN, forwarding : BOOLEAN,
             recvClosed : BOOLEAN, registered : BOOLEAN, evClosed : BOOLEAN]

Conns == [close : ConnCloseSteps, closed : BOOLEAN, done : BOOLEAN,
          inClosed : BOOLEAN, outClosed : BOOLEAN, wsOpen : BOOLEAN,
          bound : BOOLEAN, ready : BOOLEAN]

\* createSession: the session is in Gateway.sessions from the start.
NewSession == [close |-> "idle", by |-> "none", closed |-> FALSE,
               done |-> FALSE, conn |-> FALSE, pipeline |-> FALSE,
               stopped |-> FALSE, forwarding |-> FALSE, recvClosed |-> FALSE,
               registered |-> TRUE, evClosed |-> FALSE]

\* handleMediaStream: a fresh connection wrapper.
NewConn == [close |-> "idle", closed |-> FALSE, done |-> FALSE,
            inClosed |-> FALSE, outClosed |-> FALSE, wsOpen |-> TRUE,
            bound |-> FALSE, ready |-> FALSE]

StreamInit ==
  /\ sess = NewSession
  /\ conn = NewConn
  /\ pc = [t \in Threads |-> CASE t = "reader"  -> "top"
                              [] t = "handler" -> "await"
                              [] t = "webhook" -> "idle"
                              [] t = "app"     -> "run"]
  /\ rlock = {}
  /\ events = 0
  /\ announced = "no"
  /\ sent = 0
  /\ chunk = 0
  /\ audioIn = <<>>
  /\ accepted = <<>>
  /\ panic = "none"

Goto(t, label) == pc' = [pc EXCEPT ![t] = label]

\* A step of goroutine t that only moves its control from one label to another.
Moves(t, from, to) ==
  /\ pc[t] = from
  /\ Goto(t, to)
  /\ UNCHANGED <<sess, conn, bus, media, panic>>
-----------------------------------------------------------------------------
(* Session.emitEvent: the read lock is taken and closed is tested; the     *)
(* event is sent, or dropped when the buffer is full, before it is         *)
(* released.  sync.RWMutex admits no new reader while a writer waits:      *)
(* Session.Close at "flag" and the handler at "start" have called Lock.    *)

WriterWaits == sess.close = "flag" \/ pc["handler"] = "start"

EmitSkip(t, at, next) ==
  /\ t \notin rlock /\ ~WriterWaits /\ sess.closed
  /\ Moves(t, at, next)

EmitLock(t, at) ==
  /\ pc[t] = at
  /\ t \notin rlock /\ ~WriterWaits /\ ~sess.closed
  /\ rlock' = rlock \cup {t}
  /\ UNCHANGED <<sess, conn, pc, events, announced, media, panic>>

Room == events < EvCap /\ ~sess.evClosed

Announced(type) ==
  IF type = "ended" /\ announced # "sent"
  THEN IF Room THEN "sent" ELSE "full"
  ELSE announced

\* Mutant: the events channel has no capacity.
EmitSend_Unbounded(t, at, next, type) ==
  /\ pc[t] = at
  /\ t \in rlock
  /\ rlock' = rlock \ {t}
  /\ events' = events + 1
  /\ announced' = Announced(type)
  /\ panic' = IF sess.evClosed THEN "events" ELSE panic
  /\ Goto(t, next)
  /\ UNCHANGED <<sess, conn, media>>

EmitSend(t, at, next, type) ==
  /\ pc[t] = at
  /\ t \in rlock
  /\ rlock' = rlock \ {t}
  /\ events' = IF Room THEN events + 1 ELSE events
  /\ announced' = Announced(type)
  /\ panic' = IF sess.evClosed THEN "events" ELSE panic
  /\ Goto(t, next)
  /\ UNCHANGED <<sess, conn, media>>

Emit(t, at, next, type) ==
  EmitSkip(t, at, next) \/ EmitLock(t, at) \/ EmitSend(t, at, next, type)
-----------------------------------------------------------------------------
(* mediaStreamConn.close, one step per statement of the Once body.         *)

ConnCloseFlag ==
  /\ conn.close = "flag"
  /\ conn' = [conn EXCEPT !.close = "done", !.closed = TRUE]

ConnCloseDone ==
  /\ conn.close = "done"
  /\ conn' = [conn EXCEPT !.close = "in", !.done = TRUE]

ConnCloseIn ==
  /\ conn.close = "in"
  /\ conn' = [conn EXCEPT !.close = "out", !.inClosed = TRUE]

ConnCloseOut ==
  /\ conn.close = "out"
  /\ conn' = [conn EXCEPT !.close = "ws", !.outClosed = TRUE]

\* Mutant: close waits for the read loop, which calls close itself.
ConnCloseWs_JoinsReader ==
  /\ conn.close = "ws" /\ pc["reader"] = "end"
  /\ conn' = [conn EXCEPT !.close = "finished", !.wsOpen = FALSE]

ConnCloseWs ==
  /\ conn.close = "ws"
  /\ conn' = [conn EXCEPT !.close = "finished", !.wsOpen = FALSE]

ConnClose ==
  /\ ConnCloseFlag \/ ConnCloseDone \/ ConnCloseIn \/ ConnCloseOut
       \/ ConnCloseWs
  /\ UNCHANGED <<sess, pc, bus, media, panic>>

\* A call of close: the first one starts the Once body.
StartConnClose ==
  conn' = IF conn.close = "idle" THEN [conn EXCEPT !.close = "flag"] ELSE conn
-----------------------------------------------------------------------------
(* Session.Close, one step per statement of the Once body.                 *)

\* Mutant: closed is set without the lock, so a sender that has tested it
\* may still be sending.
SessCloseFlag_Unlocked ==
  /\ sess.close = "flag"
  /\ sess' = [sess EXCEPT !.close = "done", !.closed = TRUE,
                          !.recvClosed = @ \/ ~sess.forwarding]
  /\ UNCHANGED conn

\* Mutant: Close always closes audioRecv, whoever owns it.
SessCloseFlag_IgnoresOwner ==
  /\ sess.close = "flag"
  /\ rlock = {}
  /\ sess' = [sess EXCEPT !.close = "done", !.closed = TRUE,
                          !.recvClosed = TRUE]
  /\ UNCHANGED conn

SessCloseFlag ==
  /\ sess.close = "flag"
  /\ rlock = {}
  /\ sess' = [sess EXCEPT !.close = "done", !.closed = TRUE,
                          !.recvClosed = @ \/ ~sess.forwarding]
  /\ UNCHANGED conn

SessCloseDone ==
  /\ sess.close = "done"
  /\ sess' = [sess EXCEPT !.close = "pipeline", !.done = TRUE]
  /\ UNCHANGED conn

\* Pipeline.Stop, when startPipeline has stored a pipeline.
SessClosePipeline ==
  /\ sess.close = "pipeline"
  /\ sess' = [sess EXCEPT !.close = "conn", !.stopped = sess.pipeline]
  /\ UNCHANGED conn

SessCloseConn ==
  /\ sess.close = "conn"
  /\ \/ sess.conn /\ StartConnClose
                  /\ sess' = [sess EXCEPT !.close = "connWait"]
     \/ ~sess.conn /\ sess' = [sess EXCEPT !.close = "remove"]
                   /\ UNCHANGED conn

SessCloseConnWait ==
  /\ sess.close = "connWait"
  /\ conn.close = "finished"
  /\ sess' = [sess EXCEPT !.close = "remove"]
  /\ UNCHANGED conn

SessCloseRemove ==
  /\ sess.close = "remove"
  /\ sess' = [sess EXCEPT !.close = "events", !.registered = FALSE]
  /\ UNCHANGED conn

SessCloseEvents ==
  /\ sess.close = "events"
  /\ sess' = [sess EXCEPT !.close = "finished", !.evClosed = TRUE]
  /\ UNCHANGED conn

SessClose ==
  /\ SessCloseFlag \/ SessCloseDone \/ SessClosePipeline \/ SessCloseConn
       \/ SessCloseConnWait \/ SessCloseRemove \/ SessCloseEvents
  /\ UNCHANGED <<pc, bus, media, panic>>

\* A call of Close by goroutine t, which then blocks in the Once.
CallClose(t, at) ==
  /\ pc[t] = at
  /\ Goto(t, "closing")
  /\ sess' = IF sess.close = "idle"
             THEN [sess EXCEPT !.close = "flag", !.by = t] ELSE sess
  /\ UNCHANGED <<conn, bus, media, panic>>

\* Mutant: a compare-and-swap instead of sync.Once: later callers return
\* before the first one has finished.
CloseReturns_WithoutOnce(t, next) ==
  (sess.close = "finished" \/ sess.by # t) /\ Moves(t, "closing", next)

CloseReturns(t, next) ==
  sess.close = "finished" /\ Moves(t, "closing", next)
-----------------------------------------------------------------------------
(* mediaStreamConn.readLoop.                                               *)

ReadTop ==
  \/ conn.done /\ Moves("reader", "top", "exit")
  \/ ~conn.done /\ Moves("reader", "top", "read")

\* "start": the session is found by call control ID and sessionReady is
\* closed.  A session that is no longer registered is replaced by a new one,
\* which is another Session; Telnyx sends one start message per stream.
ReadStart ==
  /\ pc["reader"] = "read" /\ conn.wsOpen
  /\ ~conn.bound /\ sess.registered
  /\ conn' = [conn EXCEPT !.bound = TRUE]
  /\ Goto("reader", "top")
  /\ UNCHANGED <<sess, bus, media, panic>>

\* "media" on the inbound track: skipped until the pipeline is ready, numbered
\* from then on.
ReadMedia ==
  /\ pc["reader"] = "read" /\ conn.wsOpen
  /\ \/ /\ conn.bound /\ conn.ready /\ sent < MaxMedia
        /\ sent' = sent + 1 /\ chunk' = sent + 1
        /\ Goto("reader", "media")
     \/ /\ ~(conn.bound /\ conn.ready)
        /\ Goto("reader", "top")
        /\ UNCHANGED <<sent, chunk>>
  /\ UNCHANGED <<sess, conn, bus, audioIn, accepted, panic>>

\* Mutant: a full channel makes room by dropping its oldest chunk.
SendAudioIn_DropsOldest ==
  /\ pc["reader"] = "media" /\ ~conn.inClosed
  /\ chunk' = 0
  /\ audioIn' = Append(IF Len(audioIn) < InCap THEN audioIn ELSE Tail(audioIn),
                       chunk)
  /\ accepted' = Append(accepted, chunk)
  /\ Goto("reader", "top")
  /\ UNCHANGED <<sess, conn, bus, sent, panic>>

\* The non-blocking send of the chunk to audioIn: dropped when it is full,
\* and a panic when another goroutine has closed the channel meanwhile.
SendAudioIn ==
  /\ pc["reader"] = "media"
  /\ chunk' = 0
  /\ \/ /\ conn.inClosed
        /\ panic' = "audioIn"
        /\ UNCHANGED <<audioIn, accepted>>
     \/ /\ ~conn.inClosed /\ Len(audioIn) < InCap
        /\ audioIn' = Append(audioIn, chunk)
        /\ accepted' = Append(accepted, chunk)
        /\ UNCHANGED panic
     \/ /\ ~conn.inClosed /\ Len(audioIn) >= InCap
        /\ UNCHANGED <<audioIn, accepted, panic>>
  /\ Goto("reader", "top")
  /\ UNCHANGED <<sess, conn, bus, sent>>

\* "dtmf" on a bound stream emits an event; "connected", "mark", the other
\* track and unparsable messages change nothing.
ReadDtmf == conn.wsOpen /\ conn.bound /\ Moves("reader", "read", "dtmf")

ReadOther == conn.wsOpen /\ Moves("reader", "read", "top")

\* Mutant: the connection is closed, and the read loop goes on.
ReadStop_GoesOn ==
  /\ conn.wsOpen /\ pc["reader"] = "read"
  /\ Goto("reader", "top")
  /\ StartConnClose
  /\ UNCHANGED <<sess, bus, media, panic>>

\* "stop", or the remote end closed the WebSocket.
ReadStop == conn.wsOpen /\ Moves("reader", "read", "exit")

\* ReadMessage fails because this side closed the WebSocket.
ReadFails == ~conn.wsOpen /\ Moves("reader", "read", "exit")

\* The deferred close.
ReaderExit ==
  /\ pc["reader"] = "exit"
  /\ StartConnClose
  /\ Goto("reader", "wait")
  /\ UNCHANGED <<sess, bus, media, panic>>

ReaderEnd == conn.close = "finished" /\ Moves("reader", "wait", "end")

\* What the read loop does without waiting for Telnyx.
Reader == \/ ReadTop \/ SendAudioIn \/ ReadFails \/ ReaderExit \/ ReaderEnd
          \/ Emit("reader", "dtmf", "top", "dtmf")

Telnyx == ReadStart \/ ReadMedia \/ ReadDtmf \/ ReadOther \/ ReadStop
-----------------------------------------------------------------------------
(* handleCallHangup, for a session still registered.                       *)

HangupArrives == sess.registered /\ Moves("webhook", "idle", "emit")

Webhook == \/ Emit("webhook", "emit", "close", "ended")
           \/ CallClose("webhook", "close")
           \/ CloseReturns("webhook", "end")
-----------------------------------------------------------------------------
(* The application: Session.Close (also the end of Session.Hangup),        *)
(* Session.Interrupt's event, and reading Session.Events.                  *)

AppInterrupts == Moves("app", "run", "interrupt")

AppCloses == CallClose("app", "run")

AppReadsEvent ==
  /\ events > 0
  /\ events' = events - 1
  /\ UNCHANGED <<sess, conn, pc, rlock, announced, media, panic>>

AppReturns == \/ Emit("app", "interrupt", "run", "interruption")
              \/ CloseReturns("app", "end")
-----------------------------------------------------------------------------
\* handleMediaStream's select before the stream is bound: the connection
\* ended, or thirty seconds passed and the WebSocket is closed.
HandlerGivesUp ==
  /\ pc["handler"] = "await"
  /\ Goto("handler", "end")
  /\ \/ conn.done /\ UNCHANGED conn
     \/ conn' = [conn EXCEPT !.wsOpen = FALSE]
  /\ UNCHANGED <<sess, bus, media, panic>>

\* The same select when sessionReady is closed: startPipeline runs.
HandlerStarts == conn.bound /\ Moves("handler", "await", "start")
=============================================================================
