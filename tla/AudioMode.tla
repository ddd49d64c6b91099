----------------------------- MODULE AudioMode -----------------------------
(***************************************************************************)
(* A call in PipelineModeAudio (gateway/audio.go): the HTTP handler        *)
(* goroutine forwards the stream's audio to the application through        *)
(* Session.audioRecv until the stream, the session or the deadline ends,   *)
(* and then closes the session and the channel.                            *)
(***************************************************************************)
EXTENDS MediaStream

CONSTANT RecvCap     \* capacity of audioRecv (500 in the code)

ASSUME RecvBound == RecvCap \in Nat

VARIABLES
  hand,       \* the chunk the forwarder took from audioIn (0: none)
  audioRecv,  \* the audioRecv channel
  received,   \* history: what the application has read from ReceiveAudio
  expired     \* the context's MaxSessionDuration has passed

feed == <<hand, audioRecv, received, expired>>
vars == <<sess, conn, pc, bus, media, panic, feed>>

Init ==
  /\ StreamInit
  /\ hand = 0
  /\ audioRecv = <<>>
  /\ received = <<>>
  /\ expired = FALSE
-----------------------------------------------------------------------------
(* runAudioPassthrough.                                                    *)

\* Under Session.mu: a closed session is left alone, otherwise this goroutine
\* becomes the owner of audioRecv.
TakeOver ==
  /\ pc["handler"] = "start"
  /\ rlock = {}
  /\ \/ sess.closed /\ Goto("handler", "drain") /\ UNCHANGED sess
     \/ /\ ~sess.closed
        /\ sess' = [sess EXCEPT !.conn = TRUE, !.forwarding = TRUE]
        /\ Goto("handler", "ready")
  /\ UNCHANGED <<conn, bus, media, panic, feed>>

\* close(conn.pipelineReady): the read loop may now deliver audio.
OpenGate ==
  /\ pc["handler"] = "ready"
  /\ conn' = [conn EXCEPT !.ready = TRUE]
  /\ Goto("handler", "started")
  /\ UNCHANGED <<sess, bus, media, panic, feed>>

ForwardTake ==
  /\ pc["handler"] = "loop" /\ audioIn # <<>>
  /\ hand' = Head(audioIn)
  /\ audioIn' = Tail(audioIn)
  /\ Goto("handler", "have")
  /\ UNCHANGED <<sess, conn, bus, sent, chunk, accepted, panic>>
  /\ UNCHANGED <<audioRecv, received, expired>>

\* Mutant: the chunk is dropped when the application is slow.
ForwardGive_NonBlocking ==
  /\ pc["handler"] = "have"
  /\ hand' = 0
  /\ audioRecv' = IF Len(audioRecv) < RecvCap THEN Append(audioRecv, hand)
                  ELSE audioRecv
  /\ Goto("handler", "loop")
  /\ UNCHANGED <<sess, conn, bus, media, panic, received, expired>>

ForwardGive ==
  /\ pc["handler"] = "have"
  /\ \/ /\ sess.recvClosed
        /\ panic' = "audioRecv"
        /\ UNCHANGED <<audioRecv, hand, pc>>
     \/ /\ ~sess.recvClosed /\ Len(audioRecv) < RecvCap
        /\ audioRecv' = Append(audioRecv, hand)
        /\ hand' = 0
        /\ Goto("handler", "loop")
        /\ UNCHANGED panic
  /\ UNCHANGED <<sess, conn, bus, media, received, expired>>

\* Mutant: a blocked send does not watch the context.
ForwardInterrupted_NoDeadline ==
  /\ pc["handler"] \in {"loop", "have"}
  /\ sess.done
  /\ hand' = 0
  /\ Goto("handler", "ended")
  /\ UNCHANGED <<sess, conn, bus, media, panic, audioRecv, received>>
  /\ UNCHANGED expired

\* ctx.Done or Session.done in either select.
ForwardInterrupted ==
  /\ pc["handler"] \in {"loop", "have"}
  /\ expired \/ sess.done
  /\ hand' = 0
  /\ Goto("handler", "ended")
  /\ UNCHANGED <<sess, conn, bus, media, panic, audioRecv, received>>
  /\ UNCHANGED expired

\* Mutant: the forwarder leaves as soon as the stream is over, with audio
\* still buffered in audioIn.
ForwardEnds_Early ==
  /\ conn.inClosed
  /\ Moves("handler", "loop", "ended")
  /\ UNCHANGED feed

\* Mutant: the deferred function closes the session without its event.
ForwardEnds_Silently ==
  /\ conn.inClosed /\ audioIn = <<>>
  /\ Moves("handler", "loop", "close")
  /\ UNCHANGED feed

\* Mutant: the closed channel's empty chunks are skipped, not an end.
ForwardEnds_Never ==
  /\ conn.inClosed /\ audioIn = <<>>
  /\ Moves("handler", "loop", "loop")
  /\ UNCHANGED feed

\* audioIn is closed and drained.
ForwardEnds ==
  /\ conn.inClosed /\ audioIn = <<>>
  /\ Moves("handler", "loop", "ended")
  /\ UNCHANGED feed

\* The deferred close(s.audioRecv), after the session has been closed.
CloseRecv ==
  /\ pc["handler"] = "closeRecv"
  /\ panic' = IF sess.recvClosed THEN "audioRecv" ELSE panic
  /\ sess' = [sess EXCEPT !.recvClosed = TRUE]
  /\ Goto("handler", "drain")
  /\ UNCHANGED <<conn, bus, media, feed>>

\* handleMediaStream's last line: <-conn.done.
HandlerEnd ==
  conn.done /\ Moves("handler", "drain", "end") /\ UNCHANGED feed

Handler ==
  \/ TakeOver \/ OpenGate \/ ForwardTake \/ ForwardGive \/ ForwardInterrupted
  \/ ForwardEnds \/ CloseRecv \/ HandlerEnd
  \/ /\ \/ HandlerGivesUp \/ HandlerStarts
        \/ Emit("handler", "started", "loop", "started")
        \/ Emit("handler", "ended", "close", "ended")
        \/ CallClose("handler", "close")
        \/ CloseReturns("handler", "closeRecv")
     /\ UNCHANGED feed
-----------------------------------------------------------------------------
\* The application reads ReceiveAudio, as slowly as it likes.
AppReceives ==
  /\ audioRecv # <<>>
  /\ received' = Append(received, Head(audioRecv))
  /\ audioRecv' = Tail(audioRecv)
  /\ UNCHANGED <<sess, conn, pc, bus, media, panic, hand, expired>>

\* startPipeline's context.WithTimeout runs out.
Expire ==
  /\ pc["handler"] \notin {"await", "end"}
  /\ ~expired /\ expired' = TRUE
  /\ UNCHANGED <<sess, conn, pc, bus, media, panic, hand, audioRecv>>
  /\ UNCHANGED received

\* A goroutine of the stream, the webhook or the application takes a step,
\* or Telnyx sends something; a panic ends the process.
Next ==
  /\ panic = "none"
  /\ \/ Handler
     \/ AppReceives
     \/ Expire
     \/ /\ \/ Reader \/ Telnyx \/ ConnClose \/ SessClose
           \/ HangupArrives \/ Webhook
           \/ AppInterrupts \/ AppCloses \/ AppReadsEvent \/ AppReturns
        /\ UNCHANGED feed

Spec == Init /\ [][Next]_vars

\* The Go scheduler runs every runnable goroutine; neither Telnyx nor the
\* application owes a step.
Runs(A) == panic = "none" /\ A /\ UNCHANGED feed

FairSpec ==
  /\ Spec
  /\ WF_vars(panic = "none" /\ Handler)
  /\ WF_vars(Runs(Reader))
  /\ WF_vars(Runs(ConnClose))
  /\ WF_vars(Runs(SessClose))
  /\ WF_vars(Runs(Webhook))
  /\ WF_vars(Runs(AppReturns))
-----------------------------------------------------------------------------
ReaderLabels == {"top", "read", "media", "dtmf", "exit", "wait", "end"}
HandlerLabels == {"await", "start", "ready", "started", "loop", "have",
                  "ended", "close", "closing", "closeRecv", "drain", "end"}
WebhookLabels == {"idle", "emit", "close", "closing", "end"}
AppLabels == {"run", "interrupt", "closing", "end"}
Labels == ReaderLabels \cup HandlerLabels \cup WebhookLabels \cup AppLabels

PcOK ==
  /\ pc \in [Threads -> Labels]
  /\ pc["reader"] \in ReaderLabels /\ pc["handler"] \in HandlerLabels
  /\ pc["webhook"] \in WebhookLabels /\ pc["app"] \in AppLabels

\* The type of every variable.
TypeOK ==
  /\ sess \in Sessions
  /\ conn \in Conns
  /\ PcOK
  /\ rlock \in SUBSET Threads
  /\ events \in 0..EvCap
  /\ announced \in {"no", "sent", "full"}
  /\ sent \in 0..MaxMedia
  /\ chunk \in 0..MaxMedia
  /\ audioIn \in Seq(1..MaxMedia)
  /\ accepted \in Seq(1..MaxMedia)
  /\ panic \in {"none", "audioIn", "audioRecv", "events"}
  /\ hand \in 0..MaxMedia
  /\ audioRecv \in Seq(1..MaxMedia)
  /\ received \in Seq(1..MaxMedia)
  /\ expired \in BOOLEAN
-----------------------------------------------------------------------------
\* The events channel is never sent on after it is closed, and audioRecv is
\* closed once and never sent on after that: emitEvent's read lock keeps
\* Close out, and audioForwarding, set under the lock, moves the duty of
\* closing audioRecv from Close to the forwarder.
ChannelsSafe == panic \notin {"events", "audioRecv"}

\* Whoever's call of Session.Close has returned finds the session entirely
\* closed: signalled, out of the gateway, its events closed and the media
\* stream it was given closed too.  A second caller does not get ahead of the
\* first (sync.Once).
CloseReturned == \/ pc["handler"] = "closeRecv"
                 \/ pc["webhook"] = "end" \/ pc["app"] = "end"
CloseComplete ==
  CloseReturned => /\ sess.closed /\ sess.done /\ sess.evClosed
                   /\ ~sess.registered
                   /\ sess.conn => conn.done /\ conn.inClosed /\ ~conn.wsOpen

\* Every chunk the read loop accepted is still on its way or delivered, in
\* order and once, as long as the session is open and within its duration:
\* the forwarder blocks on a slow application, it does not drop.
Held == IF hand = 0 THEN <<>> ELSE <<hand>>
NothingLost ==
  ~expired /\ ~sess.done => received \o audioRecv \o Held \o audioIn = accepted

\* When the end of the stream is what ended the session, the application gets
\* every accepted chunk, the ones buffered at the stop included, before
\* ReceiveAudio is closed.
StreamEndDeliversAll ==
  sess.recvClosed /\ sess.by = "handler" /\ ~expired
    => received \o audioRecv = accepted

\* Once the forwarder owns ReceiveAudio, its end is the last thing to happen:
\* an application that sees the channel closed finds the session closed,
\* unregistered and its events ended.
ReceiveEndsLast ==
  sess.forwarding /\ sess.recvClosed => sess.close = "finished"

\* A session closed by the forwarder or by the hangup webhook has put
\* EventSessionEnded into its event channel before that was closed, unless
\* the application had left the channel full of unread events.
EndAnnounced ==
  sess.evClosed /\ sess.by \in {"handler", "webhook"} /\ announced # "full"
    => announced = "sent"

\* The end of a stream cannot meet a read loop that is still delivering audio:
\* the read loop itself closes audioIn then.  Only a call of Session.Close can
\* (by the hangup webhook, at the deadline, by the application), and the send
\* on the closed channel panics.
StreamEndIsSafe == panic = "audioIn" => sess.close # "idle"

\* While the application reads, the stop of the media stream is enough to
\* end ReceiveAudio (README, "closed when the media stream stops").
Listening == WF_vars(panic = "none" /\ AppReceives)
StreamStopEndsAudio ==
  Listening =>
    (sess.forwarding /\ conn.done ~> sess.recvClosed \/ panic # "none")

\* MaxSessionDuration ends the session whatever Telnyx and the application
\* do, also when the application has stopped reading.
DeadlineEndsAudio ==
  sess.forwarding /\ expired ~> sess.recvClosed \/ panic # "none"

\* A call of Session.Close gets to its end: nobody holds Session.mu for good,
\* and the connection's close does not wait for the goroutines of the stream.
\* (Gateway.mu is free when removeSession asks for it, except in Gateway.Stop:
\* StopReturns in Gateway.)
CloseFinishes ==
  sess.close # "idle" ~> sess.close = "finished" \/ panic # "none"
-----------------------------------------------------------------------------
\* The pipe from the read loop to the application implements AudioFeed.  Both
\* channels are buffers between "taken" and "handed": what sits in audioRecv
\* counts as handed over, since closing a Go channel does not discard it.
Promise == INSTANCE AudioFeed WITH Chunk <- 1..MaxMedia,
                                   taken <- accepted,
                                   handed <- received \o audioRecv,
                                   open <- ~sess.recvClosed
FeedsAudio == Promise!Spec
=============================================================================
