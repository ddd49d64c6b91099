-------------------------- MODULE AudioFeedProofs --------------------------
(***************************************************************************)
(* Proofs about the audio a call in PipelineModeAudio carries, for every   *)
(* buffer capacity and every number of media messages: nothing accepted is *)
(* lost before the end, the end of a stream delivers everything, the end   *)
(* is announced if there is room, and ReceiveAudio keeps AudioFeed.        *)
(***************************************************************************)
EXTENDS AudioModeProofs, SequenceTheorems

\* Where the handler is once it has left the forwarding loop, and once it has
\* called Session.Close.
Over == {"ended", "close", "closing", "closeRecv", "drain", "end"}
HasClosed == {"closing", "closeRecv", "drain", "end"}

\* What has been accepted is still on its way or delivered.
Pipe == received \o audioRecv \o Held \o audioIn = accepted

\* Only the forwarder holds a chunk, and it drops one only when the session
\* or its time is over.
PipeKept ==
  /\ hand # 0 => pc["handler"] = "have"
  /\ Pipe \/ (pc["handler"] \in Over /\ (expired \/ sess.done))

\* The stream has ended and everything it brought has been handed over.
Drained == Pipe /\ conn.inClosed /\ audioIn = <<>> /\ hand = 0

\* A forwarder that has left the loop of an open session, in time, has
\* drained the stream, and it is then the first to call Session.Close.
EndsDrained ==
  /\ sess.done => sess.closed
  /\ sess.close = "idle" => sess.by = "none"
  /\ sess.by = "handler" => pc["handler"] \in HasClosed
  /\ (pc["handler"] \in {"ended", "close"} /\ sess.close = "idle") \/ sess.by = "handler"
       => expired \/ Drained

\* Who is about to close a session that is not closed has sent the event of
\* its end, or found no room for it.
Announces ==
  /\ \A t \in {"handler", "webhook"} :
       pc[t] = "close" => announced # "no" \/ sess.closed
  /\ sess.by \in {"handler", "webhook"} => announced # "no"

DataInv == PipeKept /\ EndsDrained /\ Announces
-----------------------------------------------------------------------------
(* Most steps move no audio.  What they keep of the rest is enough.        *)

\* A goroutine that becomes the first to call Close was about to do so.
TakesClose(t) ==
  sess'.by = t /\ sess.close = "idle" /\ pc[t] = "close" /\ pc'[t] = "closing"

\* The handler leaves the loop, and a goroutine gets to Close, in no other
\* step than the ones that are not quiet.
HandlerOnward ==
  /\ pc["handler"] = "have" => pc'["handler"] = "have"
  /\ pc["handler"] \in Over => pc'["handler"] \in Over
  /\ pc["handler"] \in HasClosed => pc'["handler"] \in HasClosed
  /\ pc'["handler"] \in {"ended", "close"} => pc["handler"] \in {"ended", "close"}

ToClose ==
  \A t \in {"handler", "webhook"} :
    pc'[t] = "close" => pc[t] = "close" \/ announced' # "no" \/ sess.closed

Quiet ==
  /\ UNCHANGED <<audioIn, accepted, feed>>
  /\ conn.inClosed => conn'.inClosed
  /\ sess.closed => sess'.closed
  /\ sess.done => sess'.done
  /\ sess'.done => sess'.closed
  /\ announced # "no" => announced' # "no"
  /\ sess'.close = "idle" => sess.close = "idle" /\ sess'.by = sess.by
  /\ \/ sess'.by \in {sess.by, "app"}
     \/ \E t \in {"handler", "webhook"} : TakesClose(t)
  /\ HandlerOnward
  /\ ToClose

LEMMA QuietInv ==
  ASSUME IInv, DataInv, Quiet  PROVE  DataInv'
<1>1. Pipe' <=> Pipe
  BY DEF Quiet, feed, Pipe, Held
<1>2. PipeKept'
  BY <1>1 DEF DataInv, PipeKept, Quiet, HandlerOnward, feed
<1>3. sess.closed => sess.close # "idle"
  BY DEF IInv, Safe, CloseProgress
<1>4. Drained => Drained'
  BY <1>1 DEF Quiet, Drained, feed
<1>5. sess'.by = "handler" => pc'["handler"] \in HasClosed
  BY DEF DataInv, EndsDrained, Quiet, HandlerOnward, TakesClose, HasClosed
<1>6. ASSUME (pc'["handler"] \in {"ended", "close"} /\ sess'.close = "idle")
                \/ sess'.by = "handler"
      PROVE  expired' \/ Drained'
  <2>1. (pc["handler"] \in {"ended", "close"} /\ sess.close = "idle")
           \/ sess.by = "handler"
    BY <1>6 DEF Quiet, HandlerOnward, TakesClose
  <2> QED
    BY <2>1, <1>4 DEF DataInv, EndsDrained, Quiet, feed
<1>7. EndsDrained'
  BY <1>5, <1>6 DEF DataInv, EndsDrained, Quiet
<1>8. Announces'
  BY <1>3 DEF DataInv, Announces, Quiet, ToClose, TakesClose
<1> QED
  BY <1>2, <1>7, <1>8 DEF DataInv

\* A goroutine moves; nobody calls Close in it.
LEMMA MoveQuiet ==
  ASSUME IInv, DataInv, NEW t \in Threads, NEW to \in LabelsOf(t), Goto(t, to),
         UNCHANGED <<sess, audioIn, accepted, feed>>,
         conn.inClosed => conn'.inClosed, announced # "no" => announced' # "no",
         t = "handler" =>
           \/ pc[t] \notin Over \cup {"have"} /\ to \notin {"ended", "close"}
           \/ pc[t] = "ended" /\ to = "close"
           \/ pc[t] \in HasClosed /\ to \in HasClosed,
         t \in {"handler", "webhook"} /\ to = "close" =>
           announced' # "no" \/ sess.closed
  PROVE  Quiet
<1>1. pc'[t] = to /\ \A u \in Threads \ {t} : pc'[u] = pc[u]
  BY GotoPc DEF IInv, TypeOK
<1>2. HandlerOnward
  BY <1>1 DEF HandlerOnward, Threads, Over, HasClosed
<1>3. ToClose
  BY <1>1 DEF ToClose, Threads
<1> QED
  BY <1>2, <1>3 DEF Quiet, DataInv, EndsDrained

\* Nobody moves.
LEMMA StayQuiet ==
  ASSUME DataInv, UNCHANGED <<pc, audioIn, accepted, feed>>,
         conn.inClosed => conn'.inClosed, announced # "no" => announced' # "no",
         sess.closed => sess'.closed, sess.done => sess'.done,
         sess'.done => sess'.closed, sess'.by = sess.by,
         sess'.close = "idle" => sess.close = "idle"
  PROVE  Quiet
  BY DEF Quiet, HandlerOnward, ToClose

LEMMA EmitQuiet ==
  ASSUME IInv, DataInv, NEW t \in Threads, NEW at, NEW to \in LabelsOf(t),
         NEW type, Emit(t, at, to, type), UNCHANGED feed,
         t = "handler" => (at = "started" /\ to = "loop")
                            \/ (at = "ended" /\ to = "close"),
         t \in {"handler", "webhook"} /\ to = "close" => type = "ended"
  PROVE  Quiet
<1>1. CASE EmitSkip(t, at, to)
  BY <1>1, MoveQuiet DEF EmitSkip, Moves, bus, media, Over
<1>2. CASE EmitLock(t, at)
  BY <1>2, StayQuiet DEF EmitLock, media, DataInv, EndsDrained
<1>3. CASE EmitSend(t, at, to, type)
  BY <1>3, MoveQuiet DEF EmitSend, Announced, media, Over
<1> QED
  BY <1>1, <1>2, <1>3 DEF Emit

LEMMA CallCloseQuiet ==
  ASSUME IInv, DataInv, UNCHANGED feed,
         \/ CallClose("handler", "close") \/ CallClose("webhook", "close")
         \/ CallClose("app", "run")
  PROVE  Quiet
<1>1. PICK t \in {"handler", "webhook", "app"} :
        CallClose(t, IF t = "app" THEN "run" ELSE "close")
  BY Zenon
<1>2. t \in Threads /\ "closing" \in LabelsOf(t)
  BY DEF Threads, LabelsOf, HandlerLabels, WebhookLabels, AppLabels
<1>3. pc'[t] = "closing" /\ \A u \in Threads \ {t} : pc'[u] = pc[u]
  BY <1>1, <1>2, GotoPc DEF IInv, TypeOK, CallClose
<1>4. HandlerOnward /\ ToClose
  BY <1>1, <1>3 DEF HandlerOnward, ToClose, Threads, Over, HasClosed, CallClose
<1>5. UNCHANGED <<conn, announced, audioIn, accepted, feed>>
  BY <1>1 DEF CallClose, bus, media
<1>6. CASE sess.close = "idle"
  <2>1. sess' = [sess EXCEPT !.close = "flag", !.by = t]
    BY <1>1, <1>6 DEF CallClose
  <2>2. /\ sess'.by = t /\ sess'.close = "flag"
        /\ sess'.closed = sess.closed /\ sess'.done = sess.done
    BY <2>1 DEF IInv, TypeOK, Sessions
  <2>3. t = "app" \/ TakesClose(t)
    BY <1>1, <1>3, <1>6, <2>2 DEF TakesClose, CallClose
  <2> QED
    BY <1>4, <1>5, <2>2, <2>3 DEF Quiet, DataInv, EndsDrained
<1>7. CASE sess.close # "idle"
  <2>1. sess' = sess
    BY <1>1, <1>7 DEF CallClose
  <2> QED
    BY <1>4, <1>5, <2>1 DEF Quiet, DataInv, EndsDrained
<1> QED
  BY <1>6, <1>7

LEMMA CloseStepsQuiet ==
  ASSUME IInv, DataInv, UNCHANGED feed, ConnClose \/ SessClose
  PROVE  Quiet
<1>1. CASE ConnClose
  <2>1. UNCHANGED <<sess, pc, announced, audioIn, accepted>>
    BY <1>1 DEF ConnClose, bus, media
  <2>2. conn.inClosed => conn'.inClosed
    BY <1>1 DEF ConnClose, ConnCloseFlag, ConnCloseDone, ConnCloseIn,
                ConnCloseOut, ConnCloseWs, IInv, TypeOK, Conns
  <2> QED
    BY <2>1, <2>2, StayQuiet DEF DataInv, EndsDrained
<1>2. CASE SessClose
  <2>1. UNCHANGED <<pc, announced, audioIn, accepted>>
    BY <1>2 DEF SessClose, bus, media
  <2>2. conn.inClosed => conn'.inClosed
    BY <1>2 DEF SessClose, SessCloseFlag, SessCloseDone, SessClosePipeline,
                SessCloseConn, SessCloseConnWait, SessCloseRemove,
                SessCloseEvents, StartConnClose, IInv, TypeOK, Conns
  <2>3. /\ sess.closed => sess'.closed
        /\ sess.done => sess'.done
        /\ sess'.by = sess.by /\ sess'.close # "idle"
        /\ sess'.done => sess'.closed
    <3>1. sess \in Sessions
      BY DEF IInv, TypeOK
    <3>2. sess.done => sess.closed
      BY DEF DataInv, EndsDrained
    <3>3. CASE SessCloseFlag
      BY <3>1, <3>3 DEF SessCloseFlag, Sessions
    <3>4. CASE SessCloseDone
      BY <3>1, <3>4 DEF SessCloseDone, Sessions, IInv, Safe, CloseProgress
    <3>5. CASE SessClosePipeline
      BY <3>1, <3>2, <3>5 DEF SessClosePipeline, Sessions
    <3>6. CASE SessCloseConn \/ SessCloseConnWait
      BY <3>1, <3>2, <3>6 DEF SessCloseConn, SessCloseConnWait, Sessions
    <3>7. CASE SessCloseRemove \/ SessCloseEvents
      BY <3>1, <3>2, <3>7 DEF SessCloseRemove, SessCloseEvents, Sessions
    <3> QED
      BY <1>2, <3>3, <3>4, <3>5, <3>6, <3>7 DEF SessClose
  <2> QED
    BY <2>1, <2>2, <2>3, StayQuiet
<1> QED
  BY <1>1, <1>2

LEMMA ReaderQuiet ==
  ASSUME IInv, DataInv, UNCHANGED feed, Reader \/ Telnyx, ~SendAudioIn
  PROVE  Quiet
<1> USE DEF Threads, ReaderLabels, LabelsOf, bus, media
<1>1. CASE ReadTop \/ ReadFails \/ ReaderEnd \/ ReadDtmf \/ ReadOther \/ ReadStop
  <2>1. PICK to \in ReaderLabels : Goto("reader", to) /\ UNCHANGED <<sess, conn, bus, media>>
    BY <1>1 DEF ReadTop, ReadFails, ReaderEnd, ReadDtmf, ReadOther, ReadStop,
                Moves
  <2> QED
    BY <2>1, MoveQuiet
<1>2. CASE Emit("reader", "dtmf", "top", "dtmf")
  BY <1>2, EmitQuiet
<1>3. CASE ReadStart
  BY <1>3, MoveQuiet DEF ReadStart, IInv, TypeOK, Conns
<1>4. CASE ReadMedia
  BY <1>4, MoveQuiet DEF ReadMedia
<1>5. CASE ReaderExit
  BY <1>5, MoveQuiet DEF ReaderExit, StartConnClose, IInv, TypeOK, Conns
<1> QED
  BY <1>1, <1>2, <1>3, <1>4, <1>5 DEF Reader, Telnyx

LEMMA OthersQuiet ==
  ASSUME IInv, DataInv, UNCHANGED feed,
         \/ HangupArrives \/ Webhook
         \/ AppInterrupts \/ AppCloses \/ AppReadsEvent \/ AppReturns
  PROVE  Quiet
<1> USE DEF Threads, WebhookLabels, AppLabels, LabelsOf, bus, media
<1>1. CASE HangupArrives
  BY <1>1, MoveQuiet DEF HangupArrives, Moves
<1>2. CASE AppInterrupts
  BY <1>2, MoveQuiet DEF AppInterrupts, Moves
<1>3. CASE CloseReturns("webhook", "end")
  BY <1>3, MoveQuiet DEF CloseReturns, Moves
<1>4. CASE CloseReturns("app", "end")
  BY <1>4, MoveQuiet DEF CloseReturns, Moves
<1>5. CASE Emit("webhook", "emit", "close", "ended")
  BY <1>5, EmitQuiet
<1>6. CASE Emit("app", "interrupt", "run", "interruption")
  BY <1>6, EmitQuiet
<1>7. CASE AppReadsEvent
  BY <1>7, StayQuiet DEF AppReadsEvent, DataInv, EndsDrained
<1> QED
  BY <1>1, <1>2, <1>3, <1>4, <1>5, <1>6, <1>7, CallCloseQuiet
     DEF Webhook, AppCloses, AppReturns

\* The handler's steps outside of the forwarding loop.
LEMMA HandlerQuiet ==
  ASSUME IInv, DataInv, Handler,
         ~ForwardTake, ~ForwardGive, ~ForwardInterrupted, ~ForwardEnds
  PROVE  Quiet
<1> USE DEF Threads, HandlerLabels, LabelsOf, bus, media, Over, HasClosed
<1>1. CASE TakeOver
  <2>1. UNCHANGED <<conn, announced, audioIn, accepted, feed>> /\ pc["handler"] = "start"
    BY <1>1 DEF TakeOver
  <2>2. CASE sess.closed /\ Goto("handler", "drain") /\ UNCHANGED sess
    BY <2>1, <2>2, MoveQuiet
  <2>3. CASE /\ sess' = [sess EXCEPT !.conn = TRUE, !.forwarding = TRUE]
             /\ Goto("handler", "ready")
    <3>1. /\ sess'.by = sess.by /\ sess'.close = sess.close
          /\ sess'.closed = sess.closed /\ sess'.done = sess.done
      BY <2>3 DEF IInv, TypeOK, Sessions
    <3>2. pc'["handler"] = "ready" /\ \A u \in Threads \ {"handler"} : pc'[u] = pc[u]
      BY <2>3, GotoPc DEF IInv, TypeOK
    <3>3. HandlerOnward /\ ToClose
      BY <2>1, <3>2 DEF HandlerOnward, ToClose
    <3> QED
      BY <2>1, <3>1, <3>3 DEF Quiet, DataInv, EndsDrained
  <2> QED
    BY <1>1, <2>2, <2>3 DEF TakeOver
<1>2. CASE OpenGate
  BY <1>2, MoveQuiet DEF OpenGate, IInv, TypeOK, Conns
<1>3. CASE CloseRecv
  <2>1. /\ pc["handler"] = "closeRecv" /\ Goto("handler", "drain")
        /\ UNCHANGED <<conn, announced, audioIn, accepted, feed>>
    BY <1>3 DEF CloseRecv
  <2>2. /\ sess'.by = sess.by /\ sess'.close = sess.close
        /\ sess'.closed = sess.closed /\ sess'.done = sess.done
    BY <1>3 DEF CloseRecv, IInv, TypeOK, Sessions
  <2>3. pc'["handler"] = "drain" /\ \A u \in Threads \ {"handler"} : pc'[u] = pc[u]
    BY <2>1, GotoPc DEF IInv, TypeOK
  <2>4. HandlerOnward /\ ToClose
    BY <2>1, <2>3 DEF HandlerOnward, ToClose
  <2> QED
    BY <2>1, <2>2, <2>4 DEF Quiet, DataInv, EndsDrained
<1>4. CASE HandlerEnd
  BY <1>4, MoveQuiet DEF HandlerEnd, Moves
<1>5. CASE HandlerGivesUp /\ UNCHANGED feed
  BY <1>5, MoveQuiet DEF HandlerGivesUp, IInv, TypeOK, Conns
<1>6. CASE HandlerStarts /\ UNCHANGED feed
  BY <1>6, MoveQuiet DEF HandlerStarts, Moves
<1>7. CASE Emit("handler", "started", "loop", "started") /\ UNCHANGED feed
  BY <1>7, EmitQuiet
<1>8. CASE Emit("handler", "ended", "close", "ended") /\ UNCHANGED feed
  BY <1>8, EmitQuiet
<1>9. CASE CloseReturns("handler", "closeRecv") /\ UNCHANGED feed
  BY <1>9, MoveQuiet DEF CloseReturns, Moves
<1> QED
  BY <1>1, <1>2, <1>3, <1>4, <1>5, <1>6, <1>7, <1>8, <1>9, CallCloseQuiet
     DEF Handler
-----------------------------------------------------------------------------
(* The steps that move audio.                                              *)

\* One chunk goes from a buffer to the next: the pipe is the same.
LEMMA SeqTake ==
  ASSUME NEW S, NEW a \in Seq(S), NEW q \in Seq(S), q # <<>>
  PROVE  a \o <<Head(q)>> \o Tail(q) = a \o <<>> \o q
  BY SMTT(30)

LEMMA SeqGive ==
  ASSUME NEW S, NEW r \in Seq(S), NEW a \in Seq(S), NEW h \in S
  PROVE  r \o Append(a, h) = Append(r \o a, h)
  BY SMTT(30)

LEMMA SeqReceive ==
  ASSUME NEW S, NEW r \in Seq(S), NEW a \in Seq(S), a # <<>>
  PROVE  Append(r, Head(a)) \o Tail(a) = r \o a
  BY SMTT(30)

LEMMA ForwardTakeData ==
  ASSUME IInv, DataInv, ForwardTake  PROVE  DataInv'
<1>1. /\ pc["handler"] = "loop" /\ hand = 0 /\ Pipe /\ audioIn # <<>>
      /\ UNCHANGED <<sess, conn, announced, accepted, audioRecv, received, expired>>
      /\ hand' = Head(audioIn) /\ audioIn' = Tail(audioIn)
  BY DEF ForwardTake, bus, DataInv, PipeKept, Over
<1>2. pc'["handler"] = "have" /\ \A u \in Threads \ {"handler"} : pc'[u] = pc[u]
  BY GotoPc DEF IInv, TypeOK, ForwardTake, Threads, LabelsOf, HandlerLabels
<1>3. Pipe'
  <2>1. received \o audioRecv \in Seq(1..MaxMedia) /\ audioIn \in Seq(1..MaxMedia)
    BY ConcatProperties DEF IInv, TypeOK
  <2>2. hand' # 0
    <3>1. Head(audioIn) \in 1..MaxMedia
      BY <1>1, <2>1, HeadTailProperties
    <3> QED
      BY <1>1, <3>1, MediaBounds
  <2> QED
    BY <1>1, <2>1, <2>2, SeqTake DEF Pipe, Held
<1>4. PipeKept'
  BY <1>2, <1>3 DEF PipeKept
<1>5. EndsDrained' /\ Announces'
  BY <1>1, <1>2 DEF DataInv, EndsDrained, Announces, HasClosed, Threads
<1> QED
  BY <1>4, <1>5 DEF DataInv

LEMMA ForwardGiveData ==
  ASSUME IInv, DataInv, ForwardGive  PROVE  DataInv'
<1>1. CASE sess.recvClosed
  BY <1>1 DEF ForwardGive, IInv, Safe, OneOwner, Owning
<1>2. CASE ~sess.recvClosed
  <2>1. /\ pc["handler"] = "have" /\ hand # 0 /\ Pipe
        /\ UNCHANGED <<sess, conn, announced, accepted, audioIn, received, expired>>
        /\ hand' = 0 /\ audioRecv' = Append(audioRecv, hand)
    BY <1>2 DEF ForwardGive, bus, media, DataInv, PipeKept, Over, IInv, Safe,
                HoldsChunk
  <2>2. pc'["handler"] = "loop" /\ \A u \in Threads \ {"handler"} : pc'[u] = pc[u]
    BY <1>2, GotoPc DEF IInv, TypeOK, ForwardGive, Threads, LabelsOf, HandlerLabels
  <2>3. Pipe'
    <3>1. hand \in 1..MaxMedia
      BY <2>1, MediaBounds DEF IInv, TypeOK
    <3>2. /\ received \o audioRecv \in Seq(1..MaxMedia)
          /\ received \o audioRecv' = Append(received \o audioRecv, hand)
      BY SMTT(30), <2>1, <3>1, SeqGive, ConcatProperties DEF IInv, TypeOK
    <3>3. /\ Append(received \o audioRecv, hand) = received \o audioRecv \o <<hand>>
          /\ Append(received \o audioRecv, hand) \in Seq(1..MaxMedia)
      BY <3>1, <3>2, AppendIsConcat, AppendProperties
    <3>4. received \o audioRecv' \o <<>> = received \o audioRecv \o <<hand>>
      BY <3>2, <3>3, ConcatEmptySeq
    <3> QED
      BY <2>1, <3>4 DEF Pipe, Held
  <2>4. PipeKept'
    BY <2>1, <2>3 DEF PipeKept
  <2>5. EndsDrained' /\ Announces'
    BY <2>1, <2>2 DEF DataInv, EndsDrained, Announces, HasClosed, Threads
  <2> QED
    BY <2>4, <2>5 DEF DataInv
<1> QED
  BY <1>1, <1>2

LEMMA ForwardInterruptedData ==
  ASSUME IInv, DataInv, ForwardInterrupted  PROVE  DataInv'
<1>1. /\ pc["handler"] \in {"loop", "have"} /\ (expired \/ sess.done)
      /\ UNCHANGED <<sess, conn, announced, expired>> /\ hand' = 0
  BY DEF ForwardInterrupted, bus
<1>2. pc'["handler"] = "ended" /\ \A u \in Threads \ {"handler"} : pc'[u] = pc[u]
  BY GotoPc DEF IInv, TypeOK, ForwardInterrupted, Threads, LabelsOf, HandlerLabels
<1>3. PipeKept'
  BY <1>1, <1>2 DEF PipeKept, Over
<1>4. sess.done => sess.close # "idle"
  BY DEF DataInv, EndsDrained, IInv, Safe, CloseProgress
<1>5. sess.by # "handler"
  BY <1>1 DEF DataInv, EndsDrained, HasClosed
<1>6. EndsDrained' /\ Announces'
  BY <1>1, <1>2, <1>4, <1>5 DEF DataInv, EndsDrained, Announces, Threads
<1> QED
  BY <1>3, <1>6 DEF DataInv

LEMMA ForwardEndsData ==
  ASSUME IInv, DataInv, ForwardEnds  PROVE  DataInv'
<1>1. /\ pc["handler"] = "loop" /\ conn.inClosed /\ audioIn = <<>>
      /\ hand = 0 /\ Pipe
      /\ UNCHANGED <<sess, conn, announced, audioIn, accepted, feed>>
  BY DEF ForwardEnds, Moves, bus, media, DataInv, PipeKept, Over
<1>2. pc'["handler"] = "ended" /\ \A u \in Threads \ {"handler"} : pc'[u] = pc[u]
  BY GotoPc DEF IInv, TypeOK, ForwardEnds, Moves, Threads, LabelsOf, HandlerLabels
<1>3. Pipe' /\ Drained'
  BY <1>1 DEF Pipe, Held, Drained, feed
<1>4. PipeKept'
  BY <1>1, <1>3 DEF PipeKept, feed
<1>5. sess.by # "handler"
  BY <1>1 DEF DataInv, EndsDrained, HasClosed
<1>6. EndsDrained' /\ Announces'
  BY <1>1, <1>2, <1>3, <1>5 DEF DataInv, EndsDrained, Announces, Threads
<1> QED
  BY <1>4, <1>6 DEF DataInv

LEMMA SendAudioInData ==
  ASSUME IInv, DataInv, SendAudioIn, UNCHANGED feed  PROVE  DataInv'
<1>1. /\ UNCHANGED <<sess, conn, announced, feed>>
      /\ pc["reader"] = "media" /\ Goto("reader", "top")
  BY DEF SendAudioIn, bus
<1>2. \A u \in Threads \ {"reader"} : pc'[u] = pc[u]
  BY <1>1, GotoPc DEF IInv, TypeOK, Threads, LabelsOf, ReaderLabels
<1>3. CASE UNCHANGED <<audioIn, accepted>>
  <2>1. (Pipe' <=> Pipe) /\ (Drained' <=> Drained)
    BY <1>1, <1>3 DEF Pipe, Held, Drained, feed
  <2> QED
    BY <1>1, <1>2, <2>1 DEF DataInv, PipeKept, EndsDrained, Announces, Threads, feed
<1>4. CASE /\ ~conn.inClosed /\ audioIn' = Append(audioIn, chunk)
           /\ accepted' = Append(accepted, chunk)
  <2>1. chunk \in 1..MaxMedia
    BY <1>1, MediaBounds DEF IInv, TypeOK, Safe, HoldsChunk
  <2>2. Pipe => Pipe'
    <3>1. Held \in Seq(1..MaxMedia)
      <4>1. CASE hand = 0
        BY <4>1 DEF Held
      <4>2. CASE hand # 0
        <5>1. hand \in 1..MaxMedia
          BY <4>2, MediaBounds DEF IInv, TypeOK
        <5> QED
          BY <4>2, <5>1 DEF Held
      <4> QED
        BY <4>1, <4>2
    <3>2. received \o audioRecv \in Seq(1..MaxMedia)
      BY ConcatProperties DEF IInv, TypeOK
    <3>3. /\ received \o audioRecv \o Held \in Seq(1..MaxMedia)
          /\ audioIn \in Seq(1..MaxMedia)
      BY <3>1, <3>2, ConcatProperties DEF IInv, TypeOK
    <3>4. received \o audioRecv \o Held \o Append(audioIn, chunk)
            = Append(received \o audioRecv \o Held \o audioIn, chunk)
      BY SMTT(30), <2>1, <3>3, SeqGive
    <3> QED
      BY <1>1, <1>4, <3>4 DEF Pipe, Held, feed
  <2>3. ~Drained
    BY <1>4 DEF Drained
  <2> QED
    BY <1>1, <1>2, <2>2, <2>3
       DEF DataInv, PipeKept, EndsDrained, Announces, Threads, feed
<1> QED
  BY <1>3, <1>4 DEF SendAudioIn

LEMMA AppReceivesData ==
  ASSUME IInv, DataInv, AppReceives  PROVE  DataInv'
<1>1. /\ UNCHANGED <<sess, conn, pc, announced, audioIn, accepted, hand, expired>>
      /\ received' \o audioRecv' = received \o audioRecv
  BY SeqReceive DEF AppReceives, bus, media, IInv, TypeOK
<1>2. (Pipe' <=> Pipe) /\ (Drained' <=> Drained)
  BY <1>1 DEF Pipe, Held, Drained
<1> QED
  BY <1>1, <1>2 DEF DataInv, PipeKept, EndsDrained, Announces

LEMMA ExpireData ==
  ASSUME IInv, DataInv, Expire  PROVE  DataInv'
<1>1. /\ UNCHANGED <<sess, conn, pc, announced, audioIn, accepted, hand, audioRecv, received>>
      /\ expired'
  BY DEF Expire, bus, media
<1>2. Pipe' <=> Pipe
  BY <1>1 DEF Pipe, Held
<1> QED
  BY <1>1, <1>2 DEF DataInv, PipeKept, EndsDrained, Announces
-----------------------------------------------------------------------------
LEMMA InitData == Init => DataInv
<1> SUFFICES ASSUME Init PROVE DataInv
  OBVIOUS
<1> USE DEF Init, StreamInit, NewSession, NewConn
<1>1. Pipe
  BY ConcatEmptySeq DEF Pipe, Held
<1>2. pc["handler"] = "await" /\ pc["webhook"] = "idle"
  BY DEF Threads
<1> QED
  BY <1>1, <1>2 DEF DataInv, PipeKept, EndsDrained, Announces

\* A step is quiet, or one of those that move audio or let time pass.
LEMMA Steps ==
  ASSUME IInv, DataInv, [Next]_vars
  PROVE  \/ Quiet
         \/ ForwardTake \/ ForwardGive \/ ForwardInterrupted \/ ForwardEnds
         \/ SendAudioIn /\ UNCHANGED feed
         \/ AppReceives \/ Expire
<1>1. CASE UNCHANGED vars
  BY <1>1, StayQuiet DEF vars, bus, media, DataInv, EndsDrained
<1>2. CASE Handler
  BY <1>2, HandlerQuiet
<1>3. CASE (Reader \/ Telnyx) /\ UNCHANGED feed
  BY <1>3, ReaderQuiet
<1>4. CASE (ConnClose \/ SessClose) /\ UNCHANGED feed
  BY <1>4, CloseStepsQuiet
<1> QED
  BY <1>1, <1>2, <1>3, <1>4, OthersQuiet DEF Next

LEMMA NextData == IInv /\ DataInv /\ [Next]_vars => DataInv'
  BY Steps, QuietInv, ForwardTakeData, ForwardGiveData, ForwardInterruptedData,
     ForwardEndsData, SendAudioInData, AppReceivesData, ExpireData

\* What the goroutines of a session have done so far always accounts for every
\* chunk accepted from Telnyx, however they interleave and end.
THEOREM DataInductive == Spec => [](IInv /\ DataInv)
<1>1. Init => IInv /\ DataInv
  BY InitInv, InitData
<1>2. IInv /\ DataInv /\ [Next]_vars => (IInv /\ DataInv)'
  BY NextInv, NextData
<1> QED
  BY <1>1, <1>2, PTL DEF Spec

\* An accepted chunk is on its way or delivered, in order and once, as long
\* as the session is open and in time.
THEOREM NothingIsLost == Spec => []NothingLost
<1>1. IInv /\ DataInv => NothingLost
  BY DEF DataInv, PipeKept, Pipe, NothingLost
<1> QED
  BY <1>1, DataInductive, PTL

\* The end of the stream is the end of ReceiveAudio only after everything
\* accepted has been put into it.
THEOREM StreamEndDelivers == Spec => []StreamEndDeliversAll
<1>1. IInv /\ DataInv => StreamEndDeliversAll
  <2> SUFFICES ASSUME IInv, DataInv, sess.by = "handler", ~expired
               PROVE  received \o audioRecv = accepted
    BY DEF StreamEndDeliversAll
  <2>1. Pipe /\ audioIn = <<>> /\ hand = 0
    BY DEF DataInv, EndsDrained, Drained
  <2>2. received \o audioRecv \in Seq(1..MaxMedia)
    BY ConcatProperties DEF IInv, TypeOK
  <2> QED
    BY <2>1, <2>2, ConcatEmptySeq DEF Pipe, Held
<1> QED
  BY <1>1, DataInductive, PTL

\* The stream's end and a hangup put the event of the session's end into its
\* channel before that is closed, unless the channel is full of unread events.
THEOREM EndIsAnnounced == Spec => []EndAnnounced
<1>1. IInv /\ DataInv => EndAnnounced
  BY DEF IInv, TypeOK, DataInv, Announces, EndAnnounced
<1> QED
  BY <1>1, DataInductive, PTL
-----------------------------------------------------------------------------
(* The refinement of AudioFeed.                                            *)

\* What the application has been handed is what was accepted, up to the
\* chunk the forwarder is about to hand over.
LEMMA NextToHand ==
  ASSUME IInv, DataInv, pc["handler"] = "have"
  PROVE  /\ Len(received \o audioRecv) < Len(accepted)
         /\ accepted[Len(received \o audioRecv) + 1] = hand
<1> DEFINE handed == received \o audioRecv
<1>1. hand # 0 /\ hand \in 1..MaxMedia
  BY MediaBounds DEF IInv, TypeOK, Safe, HoldsChunk
<1>2. handed \in Seq(1..MaxMedia) /\ audioIn \in Seq(1..MaxMedia)
  BY ConcatProperties DEF IInv, TypeOK
<1>3. accepted = handed \o <<hand>> \o audioIn
  BY <1>1 DEF DataInv, PipeKept, Over, Pipe, Held
<1> HIDE DEF handed
<1>4. /\ handed \o <<hand>> = Append(handed, hand)
      /\ Append(handed, hand) \in Seq(1..MaxMedia)
      /\ Len(Append(handed, hand)) = Len(handed) + 1
      /\ Append(handed, hand)[Len(handed) + 1] = hand
  BY <1>1, <1>2, AppendIsConcat, AppendProperties
<1>5. Len(handed) < Len(accepted) /\ accepted[Len(handed) + 1] = hand
  BY <1>2, <1>3, <1>4, ConcatProperties
<1> QED
  BY <1>5 DEF handed

\* A closed audioRecv stays closed.
LEMMA RecvClosedKept ==
  ASSUME IInv, [Next]_vars, sess.recvClosed  PROVE  sess'.recvClosed
<1>0. sess \in Sessions
  BY DEF IInv, TypeOK
<1>1. CASE SessClose
  BY <1>0, <1>1 DEF Sessions, SessClose, SessCloseFlag, SessCloseDone,
                    SessClosePipeline, SessCloseConn, SessCloseConnWait,
                    SessCloseRemove, SessCloseEvents
<1>2. CASE \E t \in Threads, at \in Labels : CallClose(t, at)
  BY <1>0, <1>2 DEF Sessions, CallClose
<1>3. CASE TakeOver \/ CloseRecv
  BY <1>0, <1>3 DEF Sessions, TakeOver, CloseRecv
<1>4. CASE UNCHANGED sess
  BY <1>4
<1>5. ASSUME Handler  PROVE  TakeOver \/ CloseRecv \/ CallClose("handler", "close")
                               \/ UNCHANGED sess
  BY <1>5 DEF Handler, OpenGate, ForwardTake, ForwardGive, ForwardInterrupted,
              ForwardEnds, HandlerEnd, HandlerGivesUp, HandlerStarts, Emit,
              EmitSkip, EmitLock, EmitSend, CloseReturns, Moves
<1>6. ASSUME Reader \/ Telnyx \/ ConnClose \/ HangupArrives \/ AppInterrupts
               \/ AppReadsEvent
      PROVE  UNCHANGED sess
  BY <1>6 DEF Reader, Telnyx, ConnClose, HangupArrives, AppInterrupts,
              AppReadsEvent, ReadTop, SendAudioIn, ReadFails, ReaderExit,
              ReaderEnd, ReadStart, ReadMedia, ReadDtmf, ReadOther, ReadStop,
              Emit, EmitSkip, EmitLock, EmitSend, Moves
<1>7. ASSUME Webhook \/ AppCloses \/ AppReturns
      PROVE  CallClose("webhook", "close") \/ CallClose("app", "run")
               \/ UNCHANGED sess
  BY <1>7 DEF Webhook, AppCloses, AppReturns, Emit, EmitSkip, EmitLock,
              EmitSend, CloseReturns, Moves
<1>8. AppReceives \/ Expire \/ UNCHANGED vars => UNCHANGED sess
  BY DEF AppReceives, Expire, vars
<1> QED
  BY <1>1, <1>2, <1>3, <1>4, <1>5, <1>6, <1>7, <1>8
     DEF Next, Threads, Labels, HandlerLabels, WebhookLabels, AppLabels

\* Every step takes a chunk, hands one over, signals the end, or none of it.
LEMMA StepRefines ==
  ASSUME IInv, DataInv, [Next]_vars  PROVE  [Promise!Next]_Promise!vars
<1> DEFINE handed == received \o audioRecv
<1>1. \/ sess'.recvClosed = sess.recvClosed
      \/ ~sess.recvClosed /\ sess'.recvClosed
  BY RecvClosedKept, NextInv DEF IInv, TypeOK, Sessions
<1>2. CASE UNCHANGED <<accepted, handed>>
  <2>1. CASE sess'.recvClosed = sess.recvClosed
    BY <1>2, <2>1 DEF Promise!vars
  <2>2. CASE ~sess.recvClosed /\ sess'.recvClosed
    <3>1. (~sess'.recvClosed) = FALSE
      BY <2>2
    <3> QED
      BY <1>2, <2>2, <3>1 DEF Promise!Next, Promise!End
  <2> QED
    BY <1>1, <2>1, <2>2
<1>3. CASE Quiet \/ ForwardTake \/ ForwardInterrupted \/ ForwardEnds \/ Expire
  BY <1>2, <1>3 DEF Quiet, feed, ForwardTake, ForwardInterrupted, ForwardEnds,
                    Expire, Moves, media
<1>4. CASE AppReceives
  <2>1. UNCHANGED handed
    BY <1>4, SeqReceive DEF AppReceives, IInv, TypeOK
  <2> QED
    BY <1>2, <1>4, <2>1 DEF AppReceives, media
<1>5. CASE SendAudioIn /\ UNCHANGED feed
  <2>1. CASE UNCHANGED <<audioIn, accepted>>
    BY <1>2, <1>5, <2>1 DEF feed
  <2>2. CASE accepted' = Append(accepted, chunk)
    <3>1. chunk \in 1..MaxMedia
      BY <1>5, MediaBounds DEF SendAudioIn, IInv, TypeOK, Safe, HoldsChunk
    <3> QED
      BY <1>5, <2>2, <3>1 DEF SendAudioIn, feed, Promise!Next, Promise!Take
  <2> QED
    BY <1>5, <2>1, <2>2 DEF SendAudioIn
<1>6. CASE ForwardGive
  <2>1. CASE sess.recvClosed
    BY <1>2, <1>6, <2>1 DEF ForwardGive, media
  <2>2. CASE ~sess.recvClosed
    <3>1. /\ pc["handler"] = "have" /\ audioRecv' = Append(audioRecv, hand)
          /\ UNCHANGED <<sess, accepted, received>>
      BY <1>6, <2>2 DEF ForwardGive, media
    <3>2. /\ Len(handed) < Len(accepted)
          /\ accepted[Len(handed) + 1] = hand
      BY <3>1, NextToHand
    <3>3. hand \in 1..MaxMedia
      BY <3>1, MediaBounds DEF IInv, TypeOK, Safe, HoldsChunk
    <3>4. handed' = Append(handed, hand)
      BY <3>1, <3>3, SeqGive DEF IInv, TypeOK
    <3>5. Promise!Hand
      BY <2>2, <3>1, <3>2, <3>4 DEF Promise!Hand
    <3> QED
      BY <3>5 DEF Promise!Next
  <2> QED
    BY <2>1, <2>2
<1> QED
  BY <1>3, <1>4, <1>5, <1>6, Steps

\* The whole pipe, two channels and two goroutines, behaves as AudioFeed
\* promises, whatever the capacities.
THEOREM Feeds == Spec => FeedsAudio
<1>1. Init => Promise!Init
  BY ConcatEmptySeq DEF Init, StreamInit, NewSession, Promise!Init
<1>2. IInv /\ DataInv /\ [Next]_vars => [Promise!Next]_Promise!vars
  BY StepRefines
<1> QED
  BY <1>1, <1>2, DataInductive, PTL DEF Spec, Promise!Spec, FeedsAudio
=============================================================================
