-------------------------- MODULE AudioModeProofs --------------------------
(***************************************************************************)
(* Proofs about AudioMode, for every buffer capacity and every number of   *)
(* media messages: type correctness, no misuse of the events and audioRecv *)
(* channels, what a returned Close means, and that the end of ReceiveAudio *)
(* comes last.                                                             *)
(***************************************************************************)
EXTENDS AudioMode, TLAPS

\* Where the handler is while it owns audioRecv.
Owning == {"ready", "started", "loop", "have", "ended", "close", "closing",
           "closeRecv"}

\* The chunk a goroutine is about to send is a real one.
HoldsChunk ==
  /\ pc["reader"] = "media" => chunk # 0
  /\ pc["handler"] = "have" => hand # 0

\* How far Session.Close has come is visible in the fields it has written.
CloseProgress ==
  /\ sess.closed <=> sess.close \notin {"idle", "flag"}
  /\ sess.close \in {"pipeline", "conn", "connWait", "remove", "events",
                     "finished"} => sess.done
  /\ sess.close \in {"events", "finished"} => ~sess.registered
  /\ sess.evClosed <=> sess.close = "finished"
  /\ sess.close \in {"remove", "events", "finished"} /\ sess.conn
       => conn.close = "finished"
  /\ conn.close = "finished" => conn.done /\ conn.inClosed /\ ~conn.wsOpen
  /\ conn.close = "ws" => conn.done /\ conn.inClosed
  /\ conn.close = "out" => conn.done /\ conn.inClosed
  /\ conn.close = "in" => conn.done

\* Nobody is inside emitEvent's critical section once closed is set.
LockExcludes == rlock # {} => ~sess.closed

\* audioRecv has one owner: Session.Close until the handler has taken over,
\* the handler from then on.
OneOwner ==
  /\ pc["handler"] \in {"await", "start"} => ~sess.forwarding
  /\ pc["handler"] \in Owning => sess.forwarding /\ ~sess.recvClosed
  /\ ~sess.forwarding => (sess.recvClosed <=> sess.closed)
  /\ sess.forwarding /\ pc["handler"] \in {"closeRecv", "drain", "end"}
       => sess.close = "finished"

\* A call of Close that has returned was served by a finished Once body.
Returned == CloseReturned => sess.close = "finished"

Safe == HoldsChunk /\ CloseProgress /\ LockExcludes /\ OneOwner /\ Returned
          /\ ChannelsSafe

IInv == TypeOK /\ Safe
-----------------------------------------------------------------------------
(* Lemmas about the control of the goroutines. *)

LabelsOf(t) == CASE t = "reader"  -> ReaderLabels
                 [] t = "handler" -> HandlerLabels
                 [] t = "webhook" -> WebhookLabels
                 [] t = "app"     -> AppLabels

\* A goroutine that goes to one of its own labels keeps PcOK and moves no
\* other goroutine.
LEMMA GotoPc ==
  ASSUME PcOK, NEW t \in Threads, NEW label \in LabelsOf(t), Goto(t, label)
  PROVE  /\ PcOK'
         /\ pc'[t] = label
         /\ \A u \in Threads \ {t} : pc'[u] = pc[u]
<1>1. label \in Labels
  BY DEF LabelsOf, Labels, Threads
<1>2. pc' \in [Threads -> Labels]
  BY <1>1 DEF Goto, PcOK
<1>3. pc'[t] = label /\ \A u \in Threads \ {t} : pc'[u] = pc[u]
  BY DEF Goto, PcOK
<1>4. \A u \in Threads : pc'[u] \in LabelsOf(u)
  BY <1>3 DEF PcOK, Threads, LabelsOf
<1> QED
  BY <1>2, <1>3, <1>4 DEF PcOK, Threads, LabelsOf

\* The moves that neither pick up a chunk, nor take over or give up
\* audioRecv, nor return from a call of Close.
Plain(t, at, next) ==
  /\ t \in Threads
  /\ next \in LabelsOf(t)
  /\ t = "reader" => next # "media"
  /\ t = "handler" =>
       \/ at \in Owning /\ next \in Owning \ {"have", "closeRecv"}
       \/ at = "await" /\ next = "start"
       \/ at = "drain" /\ next = "end"
  /\ t \in {"webhook", "app"} => next # "end"

\* Such a move preserves the invariant; emitEvent may go with it.
LEMMA PlainMove ==
  ASSUME IInv, NEW t, NEW at, NEW next, Plain(t, at, next),
         pc[t] = at, Goto(t, next),
         UNCHANGED <<sess, conn, media, panic, feed>>,
         rlock' \in SUBSET Threads, rlock' # {} => ~sess.closed,
         events' \in 0..EvCap, announced' \in {"no", "sent", "full"}
  PROVE  IInv'
<1> USE DEF media, feed
<1>0. PcOK /\ PcOK' /\ pc'[t] = next
        /\ \A u \in Threads \ {t} : pc'[u] = pc[u]
  BY GotoPc DEF Plain, IInv, TypeOK
<1>1. TypeOK'
  BY <1>0 DEF IInv, TypeOK
<1>2. HoldsChunk'
  BY <1>0 DEF IInv, Safe, HoldsChunk, Plain, Threads, Owning
<1>3. CloseProgress' /\ LockExcludes' /\ ChannelsSafe'
  BY DEF IInv, Safe, CloseProgress, LockExcludes, ChannelsSafe
<1>4. OneOwner'
  BY <1>0 DEF IInv, Safe, OneOwner, Plain, Threads, Owning
<1>5. Returned'
  BY <1>0 DEF IInv, Safe, Returned, CloseReturned, Plain, Threads, Owning
<1> QED
  BY <1>1, <1>2, <1>3, <1>4, <1>5 DEF IInv, Safe

\* An emitEvent that moves plainly preserves the invariant.
LEMMA EmitInv ==
  ASSUME IInv, NEW t, NEW at, NEW next, NEW type, Plain(t, at, next),
         Emit(t, at, next, type), UNCHANGED feed
  PROVE  IInv'
<1>1. CASE EmitSkip(t, at, next)
  BY <1>1, PlainMove DEF EmitSkip, Moves, bus, IInv, TypeOK, Safe, LockExcludes
<1>2. CASE EmitLock(t, at)
  <2> USE <1>2 DEF EmitLock, media, feed
  <2>0. PcOK'
    BY DEF IInv, TypeOK, PcOK
  <2>1. TypeOK'
    BY <2>0 DEF IInv, TypeOK, Plain
  <2> QED
    BY <2>1 DEF IInv, Safe, HoldsChunk, CloseProgress, LockExcludes, OneOwner,
                Returned, CloseReturned, ChannelsSafe
<1>3. CASE EmitSend(t, at, next, type)
  <2>1. ~sess.closed /\ ~sess.evClosed
    BY <1>3 DEF EmitSend, IInv, Safe, LockExcludes, CloseProgress
  <2>2. /\ pc[t] = at /\ Goto(t, next)
        /\ UNCHANGED <<sess, conn, media, panic, feed>>
        /\ rlock' \in SUBSET Threads
    BY <1>3, <2>1 DEF EmitSend, IInv, TypeOK
  <2>3. events' \in 0..EvCap
    BY <1>3, MediaBounds DEF EmitSend, Room, IInv, TypeOK
  <2>4. announced' \in {"no", "sent", "full"}
    BY <1>3 DEF EmitSend, Announced, IInv, TypeOK
  <2> QED
    BY <2>1, <2>2, <2>3, <2>4, PlainMove
<1> QED
  BY <1>1, <1>2, <1>3 DEF Emit

\* A step that only moves the control, plainly, preserves the invariant.
LEMMA MovesInv ==
  ASSUME IInv, NEW t, NEW at, NEW next, Plain(t, at, next),
         Moves(t, at, next), UNCHANGED feed
  PROVE  IInv'
BY PlainMove DEF Moves, bus, IInv, TypeOK, Safe, LockExcludes

-----------------------------------------------------------------------------
(* The steps of the two closes, which move no goroutine. *)

\* Setting closed, with nobody sending an event.
LEMMA SessCloseFlagInv ==
  ASSUME IInv, SessCloseFlag, UNCHANGED <<pc, bus, media, panic, feed>>
  PROVE  IInv'
<1> USE DEF SessCloseFlag, bus, media, feed
<1>0. PcOK'
  BY DEF IInv, TypeOK, PcOK
<1>1. TypeOK'
  BY ZenonT(30), <1>0 DEF IInv, TypeOK, Sessions, CloseSteps
<1>2. CloseProgress'
  BY DEF IInv, TypeOK, Safe, CloseProgress, Sessions, CloseSteps
<1>3. OneOwner' /\ Returned'
  BY DEF IInv, TypeOK, Safe, OneOwner, Owning, Returned, CloseReturned,
         CloseProgress, Sessions, CloseSteps
<1>4. HoldsChunk' /\ LockExcludes' /\ ChannelsSafe'
  BY DEF IInv, TypeOK, Safe, HoldsChunk, LockExcludes, ChannelsSafe,
         Sessions, CloseSteps
<1> QED
  BY <1>1, <1>2, <1>3, <1>4 DEF IInv, Safe

\* Closing Session.done.
LEMMA SessCloseDoneInv ==
  ASSUME IInv, SessCloseDone, UNCHANGED <<pc, bus, media, panic, feed>>
  PROVE  IInv'
<1> USE DEF SessCloseDone, bus, media, feed
<1>0. PcOK'
  BY DEF IInv, TypeOK, PcOK
<1>1. TypeOK'
  BY <1>0 DEF IInv, TypeOK, Sessions, CloseSteps
<1>2. CloseProgress'
  BY DEF IInv, TypeOK, Safe, CloseProgress, Sessions, CloseSteps
<1>3. OneOwner' /\ Returned'
  BY DEF IInv, TypeOK, Safe, OneOwner, Owning, Returned, CloseReturned,
         CloseProgress, Sessions, CloseSteps
<1>4. HoldsChunk' /\ LockExcludes' /\ ChannelsSafe'
  BY DEF IInv, TypeOK, Safe, HoldsChunk, LockExcludes, ChannelsSafe,
         Sessions, CloseSteps
<1> QED
  BY <1>1, <1>2, <1>3, <1>4 DEF IInv, Safe

\* Stopping the pipeline.
LEMMA SessClosePipelineInv ==
  ASSUME IInv, SessClosePipeline, UNCHANGED <<pc, bus, media, panic, feed>>
  PROVE  IInv'
<1> USE DEF SessClosePipeline, bus, media, feed
<1>0. PcOK'
  BY DEF IInv, TypeOK, PcOK
<1>1. TypeOK'
  BY <1>0 DEF IInv, TypeOK, Sessions, CloseSteps
<1>2. CloseProgress'
  BY DEF IInv, TypeOK, Safe, CloseProgress, Sessions, CloseSteps
<1>3. OneOwner' /\ Returned'
  BY DEF IInv, TypeOK, Safe, OneOwner, Owning, Returned, CloseReturned,
         CloseProgress, Sessions, CloseSteps
<1>4. HoldsChunk' /\ LockExcludes' /\ ChannelsSafe'
  BY DEF IInv, TypeOK, Safe, HoldsChunk, LockExcludes, ChannelsSafe,
         Sessions, CloseSteps
<1> QED
  BY <1>1, <1>2, <1>3, <1>4 DEF IInv, Safe

\* Returning from the connection's close.
LEMMA SessCloseConnWaitInv ==
  ASSUME IInv, SessCloseConnWait, UNCHANGED <<pc, bus, media, panic, feed>>
  PROVE  IInv'
<1> USE DEF SessCloseConnWait, bus, media, feed
<1>0. PcOK'
  BY DEF IInv, TypeOK, PcOK
<1>1. TypeOK'
  BY <1>0 DEF IInv, TypeOK, Sessions, CloseSteps
<1>2. CloseProgress'
  BY DEF IInv, TypeOK, Safe, CloseProgress, Sessions, CloseSteps
<1>3. OneOwner' /\ Returned'
  BY DEF IInv, TypeOK, Safe, OneOwner, Owning, Returned, CloseReturned,
         CloseProgress, Sessions, CloseSteps
<1>4. HoldsChunk' /\ LockExcludes' /\ ChannelsSafe'
  BY DEF IInv, TypeOK, Safe, HoldsChunk, LockExcludes, ChannelsSafe,
         Sessions, CloseSteps
<1> QED
  BY <1>1, <1>2, <1>3, <1>4 DEF IInv, Safe

\* Leaving Gateway.sessions.
LEMMA SessCloseRemoveInv ==
  ASSUME IInv, SessCloseRemove, UNCHANGED <<pc, bus, media, panic, feed>>
  PROVE  IInv'
<1> USE DEF SessCloseRemove, bus, media, feed
<1>0. PcOK'
  BY DEF IInv, TypeOK, PcOK
<1>1. TypeOK'
  BY <1>0 DEF IInv, TypeOK, Sessions, CloseSteps
<1>2. CloseProgress'
  BY DEF IInv, TypeOK, Safe, CloseProgress, Sessions, CloseSteps
<1>3. OneOwner' /\ Returned'
  BY DEF IInv, TypeOK, Safe, OneOwner, Owning, Returned, CloseReturned,
         CloseProgress, Sessions, CloseSteps
<1>4. HoldsChunk' /\ LockExcludes' /\ ChannelsSafe'
  BY DEF IInv, TypeOK, Safe, HoldsChunk, LockExcludes, ChannelsSafe,
         Sessions, CloseSteps
<1> QED
  BY <1>1, <1>2, <1>3, <1>4 DEF IInv, Safe

\* Closing the events channel.
LEMMA SessCloseEventsInv ==
  ASSUME IInv, SessCloseEvents, UNCHANGED <<pc, bus, media, panic, feed>>
  PROVE  IInv'
<1> USE DEF SessCloseEvents, bus, media, feed
<1>0. PcOK'
  BY DEF IInv, TypeOK, PcOK
<1>1. TypeOK'
  BY <1>0 DEF IInv, TypeOK, Sessions, CloseSteps
<1>2. CloseProgress'
  BY DEF IInv, TypeOK, Safe, CloseProgress, Sessions, CloseSteps
<1>3. OneOwner' /\ Returned'
  BY DEF IInv, TypeOK, Safe, OneOwner, Owning, Returned, CloseReturned,
         CloseProgress, Sessions, CloseSteps
<1>4. HoldsChunk' /\ LockExcludes' /\ ChannelsSafe'
  BY DEF IInv, TypeOK, Safe, HoldsChunk, LockExcludes, ChannelsSafe,
         Sessions, CloseSteps
<1> QED
  BY <1>1, <1>2, <1>3, <1>4 DEF IInv, Safe

\* Calling the connection's close.
LEMMA SessCloseConnInv ==
  ASSUME IInv, SessCloseConn, UNCHANGED <<pc, bus, media, panic, feed>>
  PROVE  IInv'
<1> USE DEF SessCloseConn, bus, media, feed
<1>0. PcOK'
  BY DEF IInv, TypeOK, PcOK
<1>1. TypeOK'
  <2>1. sess' \in Sessions
    BY DEF IInv, TypeOK, Sessions, CloseSteps
  <2>2. conn' \in Conns
    BY DEF IInv, TypeOK, Conns, ConnCloseSteps, StartConnClose
  <2> QED
    BY <1>0, <2>1, <2>2 DEF IInv, TypeOK
<1>2. CloseProgress'
  BY ZenonT(30) DEF IInv, TypeOK, Safe, CloseProgress, Sessions, CloseSteps,
         Conns, ConnCloseSteps,
         StartConnClose
<1>3. OneOwner' /\ Returned'
  BY ZenonT(30) DEF IInv, TypeOK, Safe, OneOwner, Owning, Returned, CloseReturned,
         CloseProgress, Sessions, CloseSteps, Conns, ConnCloseSteps,
         StartConnClose
<1>4. HoldsChunk' /\ LockExcludes' /\ ChannelsSafe'
  BY ZenonT(30) DEF IInv, TypeOK, Safe, HoldsChunk, LockExcludes, ChannelsSafe,
         Sessions, CloseSteps, Conns, ConnCloseSteps,
         StartConnClose
<1> QED
  BY <1>1, <1>2, <1>3, <1>4 DEF IInv, Safe

\* Marking the connection closed.
LEMMA ConnCloseFlagInv ==
  ASSUME IInv, ConnCloseFlag, UNCHANGED <<sess, pc, bus, media, panic, feed>>
  PROVE  IInv'
<1> USE DEF ConnCloseFlag, bus, media, feed
<1>0. PcOK'
  BY DEF IInv, TypeOK, PcOK
<1>1. TypeOK'
  BY <1>0 DEF IInv, TypeOK, Conns, ConnCloseSteps
<1>2. CloseProgress'
  BY DEF IInv, TypeOK, Safe, CloseProgress, Conns, ConnCloseSteps
<1>3. OneOwner' /\ Returned'
  BY DEF IInv, TypeOK, Safe, OneOwner, Owning, Returned, CloseReturned,
         CloseProgress, Conns, ConnCloseSteps
<1>4. HoldsChunk' /\ LockExcludes' /\ ChannelsSafe'
  BY DEF IInv, TypeOK, Safe, HoldsChunk, LockExcludes, ChannelsSafe,
         Conns, ConnCloseSteps
<1> QED
  BY <1>1, <1>2, <1>3, <1>4 DEF IInv, Safe

\* Closing mediaStreamConn.done.
LEMMA ConnCloseDoneInv ==
  ASSUME IInv, ConnCloseDone, UNCHANGED <<sess, pc, bus, media, panic, feed>>
  PROVE  IInv'
<1> USE DEF ConnCloseDone, bus, media, feed
<1>0. PcOK'
  BY DEF IInv, TypeOK, PcOK
<1>1. TypeOK'
  BY <1>0 DEF IInv, TypeOK, Conns, ConnCloseSteps
<1>2. CloseProgress'
  BY DEF IInv, TypeOK, Safe, CloseProgress, Conns, ConnCloseSteps
<1>3. OneOwner' /\ Returned'
  BY DEF IInv, TypeOK, Safe, OneOwner, Owning, Returned, CloseReturned,
         CloseProgress, Conns, ConnCloseSteps
<1>4. HoldsChunk' /\ LockExcludes' /\ ChannelsSafe'
  BY DEF IInv, TypeOK, Safe, HoldsChunk, LockExcludes, ChannelsSafe,
         Conns, ConnCloseSteps
<1> QED
  BY <1>1, <1>2, <1>3, <1>4 DEF IInv, Safe

\* Closing audioIn.
LEMMA ConnCloseInInv ==
  ASSUME IInv, ConnCloseIn, UNCHANGED <<sess, pc, bus, media, panic, feed>>
  PROVE  IInv'
<1> USE DEF ConnCloseIn, bus, media, feed
<1>0. PcOK'
  BY DEF IInv, TypeOK, PcOK
<1>1. TypeOK'
  BY <1>0 DEF IInv, TypeOK, Conns, ConnCloseSteps
<1>2. CloseProgress'
  BY DEF IInv, TypeOK, Safe, CloseProgress, Conns, ConnCloseSteps
<1>3. OneOwner' /\ Returned'
  BY DEF IInv, TypeOK, Safe, OneOwner, Owning, Returned, CloseReturned,
         CloseProgress, Conns, ConnCloseSteps
<1>4. HoldsChunk' /\ LockExcludes' /\ ChannelsSafe'
  BY DEF IInv, TypeOK, Safe, HoldsChunk, LockExcludes, ChannelsSafe,
         Conns, ConnCloseSteps
<1> QED
  BY <1>1, <1>2, <1>3, <1>4 DEF IInv, Safe

\* Closing audioOut.
LEMMA ConnCloseOutInv ==
  ASSUME IInv, ConnCloseOut, UNCHANGED <<sess, pc, bus, media, panic, feed>>
  PROVE  IInv'
<1> USE DEF ConnCloseOut, bus, media, feed
<1>0. PcOK'
  BY DEF IInv, TypeOK, PcOK
<1>1. TypeOK'
  BY <1>0 DEF IInv, TypeOK, Conns, ConnCloseSteps
<1>2. CloseProgress'
  BY DEF IInv, TypeOK, Safe, CloseProgress, Conns, ConnCloseSteps
<1>3. OneOwner' /\ Returned'
  BY DEF IInv, TypeOK, Safe, OneOwner, Owning, Returned, CloseReturned,
         CloseProgress, Conns, ConnCloseSteps
<1>4. HoldsChunk' /\ LockExcludes' /\ ChannelsSafe'
  BY DEF IInv, TypeOK, Safe, HoldsChunk, LockExcludes, ChannelsSafe,
         Conns, ConnCloseSteps
<1> QED
  BY <1>1, <1>2, <1>3, <1>4 DEF IInv, Safe

\* Closing the WebSocket.
LEMMA ConnCloseWsInv ==
  ASSUME IInv, ConnCloseWs, UNCHANGED <<sess, pc, bus, media, panic, feed>>
  PROVE  IInv'
<1> USE DEF ConnCloseWs, bus, media, feed
<1>0. PcOK'
  BY DEF IInv, TypeOK, PcOK
<1>1. TypeOK'
  BY <1>0 DEF IInv, TypeOK, Conns, ConnCloseSteps
<1>2. CloseProgress'
  BY DEF IInv, TypeOK, Safe, CloseProgress, Conns, ConnCloseSteps
<1>3. OneOwner' /\ Returned'
  BY DEF IInv, TypeOK, Safe, OneOwner, Owning, Returned, CloseReturned,
         CloseProgress, Conns, ConnCloseSteps
<1>4. HoldsChunk' /\ LockExcludes' /\ ChannelsSafe'
  BY DEF IInv, TypeOK, Safe, HoldsChunk, LockExcludes, ChannelsSafe,
         Conns, ConnCloseSteps
<1> QED
  BY <1>1, <1>2, <1>3, <1>4 DEF IInv, Safe

-----------------------------------------------------------------------------
(* The handler goroutine. *)

\* Taking from a queue and adding to it keep the type of its elements.
LEMMA HeadTail ==
  ASSUME NEW S, NEW q \in Seq(S), q # <<>>
  PROVE  Head(q) \in S /\ Tail(q) \in Seq(S)
OBVIOUS

LEMMA AppendType ==
  ASSUME NEW S, NEW q \in Seq(S), NEW e \in S
  PROVE  Append(q, e) \in Seq(S)
OBVIOUS

\* Becoming the owner of audioRecv, or finding the session closed.
LEMMA TakeOverInv ==
  ASSUME IInv, TakeOver
  PROVE  IInv'
<1> USE DEF TakeOver, bus, media, feed
<1>0. /\ PcOK' /\ pc'["handler"] \in {"drain", "ready"}
      /\ \A u \in Threads \ {"handler"} : pc'[u] = pc[u]
  BY GotoPc DEF LabelsOf, Threads, HandlerLabels, IInv, TypeOK
<1>1. TypeOK'
  BY <1>0 DEF IInv, TypeOK, Sessions, CloseSteps
<1>2. HoldsChunk' /\ LockExcludes' /\ ChannelsSafe'
  BY <1>0 DEF IInv, TypeOK, Safe, HoldsChunk, LockExcludes, ChannelsSafe,
              Sessions, Threads
<1>3. CloseProgress'
  BY DEF IInv, TypeOK, Safe, CloseProgress, Sessions, CloseSteps
<1>4. OneOwner'
  BY ZenonT(30) DEF Goto, IInv, TypeOK, PcOK, Safe, OneOwner, Owning, CloseProgress,
         Sessions, Threads
<1>5. Returned'
  BY <1>0 DEF IInv, TypeOK, Safe, Returned, CloseReturned, Sessions, Threads
<1> QED
  BY <1>1, <1>2, <1>3, <1>4, <1>5 DEF IInv, Safe

\* Closing pipelineReady.
LEMMA OpenGateInv ==
  ASSUME IInv, OpenGate
  PROVE  IInv'
<1> USE DEF OpenGate, bus, media, feed
<1>0. /\ PcOK'
      /\ pc'["handler"] = "started"
      /\ \A u \in Threads \ {"handler"} : pc'[u] = pc[u]
  BY GotoPc DEF LabelsOf, Threads, HandlerLabels, IInv, TypeOK, Safe, OneOwner,
                Owning
<1>1. TypeOK'
  BY <1>0 DEF IInv, TypeOK, Conns, ConnCloseSteps
<1>2. HoldsChunk' /\ LockExcludes' /\ ChannelsSafe'
  BY <1>0 DEF IInv, TypeOK, Safe, HoldsChunk, LockExcludes, ChannelsSafe,
              OneOwner, Owning, Threads, Conns, ConnCloseSteps
<1>3. CloseProgress'
  BY <1>0 DEF IInv, TypeOK, Safe, CloseProgress, Conns, ConnCloseSteps
<1>4. OneOwner'
  BY <1>0 DEF IInv, TypeOK, Safe, OneOwner, Owning, Returned,
              CloseReturned, Conns, ConnCloseSteps
<1>5. Returned'
  BY <1>0 DEF IInv, TypeOK, Safe, Returned, CloseReturned, OneOwner, Owning,
              Threads, Conns, ConnCloseSteps
<1> QED
  BY <1>1, <1>2, <1>3, <1>4, <1>5 DEF IInv, Safe

\* Taking a chunk from audioIn.
LEMMA ForwardTakeInv ==
  ASSUME IInv, ForwardTake
  PROVE  IInv'
<1> USE DEF ForwardTake, bus, media, feed
<1>0. /\ PcOK'
      /\ pc'["handler"] = "have"
      /\ \A u \in Threads \ {"handler"} : pc'[u] = pc[u]
  BY GotoPc DEF LabelsOf, Threads, HandlerLabels, IInv, TypeOK, Safe, OneOwner,
                Owning
<1>a. hand' \in 1..MaxMedia /\ audioIn' \in Seq(1..MaxMedia)
  BY HeadTail DEF IInv, TypeOK
<1>1. TypeOK'
  BY <1>0, <1>a DEF IInv, TypeOK
<1>2. HoldsChunk' /\ LockExcludes' /\ ChannelsSafe'
  BY <1>0, <1>a DEF IInv, TypeOK, Safe, HoldsChunk, LockExcludes, ChannelsSafe,
              OneOwner, Owning, Threads
<1>3. CloseProgress'
  BY <1>0 DEF IInv, TypeOK, Safe, CloseProgress
<1>4. OneOwner'
  BY <1>0 DEF IInv, TypeOK, Safe, OneOwner, Owning, Returned,
              CloseReturned
<1>5. Returned'
  BY <1>0 DEF IInv, TypeOK, Safe, Returned, CloseReturned, OneOwner, Owning,
              Threads
<1> QED
  BY <1>1, <1>2, <1>3, <1>4, <1>5 DEF IInv, Safe

\* Handing the chunk over: audioRecv is still open, it is the handler's.
LEMMA ForwardGiveInv ==
  ASSUME IInv, ForwardGive
  PROVE  IInv'
<1> USE DEF ForwardGive, bus, media, feed
<1>0. /\ PcOK'
      /\ pc'["handler"] = "loop"
      /\ \A u \in Threads \ {"handler"} : pc'[u] = pc[u]
  BY GotoPc DEF LabelsOf, Threads, HandlerLabels, IInv, TypeOK, Safe, OneOwner,
                Owning
<1>a. hand \in 1..MaxMedia /\ ~sess.recvClosed
  BY DEF IInv, TypeOK, Safe, HoldsChunk, OneOwner, Owning
<1>b. audioRecv' \in Seq(1..MaxMedia)
  BY <1>a, AppendType DEF IInv, TypeOK
<1>1. TypeOK'
  BY <1>0, <1>a, <1>b, MediaBounds DEF IInv, TypeOK
<1>2. HoldsChunk' /\ LockExcludes' /\ ChannelsSafe'
  BY <1>0, <1>a DEF IInv, TypeOK, Safe, HoldsChunk, LockExcludes, ChannelsSafe,
              OneOwner, Owning, Threads
<1>3. CloseProgress'
  BY <1>0 DEF IInv, TypeOK, Safe, CloseProgress
<1>4. OneOwner'
  BY <1>0 DEF IInv, TypeOK, Safe, OneOwner, Owning, Returned,
              CloseReturned
<1>5. Returned'
  BY <1>0 DEF IInv, TypeOK, Safe, Returned, CloseReturned, OneOwner, Owning,
              Threads
<1> QED
  BY <1>1, <1>2, <1>3, <1>4, <1>5 DEF IInv, Safe

\* Leaving the loop at the deadline or when the session is done.
LEMMA ForwardInterruptedInv ==
  ASSUME IInv, ForwardInterrupted
  PROVE  IInv'
<1> USE DEF ForwardInterrupted, bus, media, feed
<1>0. /\ PcOK'
      /\ pc'["handler"] = "ended"
      /\ \A u \in Threads \ {"handler"} : pc'[u] = pc[u]
  BY GotoPc DEF LabelsOf, Threads, HandlerLabels, IInv, TypeOK, Safe, OneOwner,
                Owning
<1>1. TypeOK'
  BY <1>0, MediaBounds DEF IInv, TypeOK
<1>2. HoldsChunk' /\ LockExcludes' /\ ChannelsSafe'
  BY <1>0 DEF IInv, TypeOK, Safe, HoldsChunk, LockExcludes, ChannelsSafe,
              OneOwner, Owning, Threads
<1>3. CloseProgress'
  BY <1>0 DEF IInv, TypeOK, Safe, CloseProgress
<1>4. OneOwner'
  BY <1>0 DEF IInv, TypeOK, Safe, OneOwner, Owning, Returned,
              CloseReturned
<1>5. Returned'
  BY <1>0 DEF IInv, TypeOK, Safe, Returned, CloseReturned, OneOwner, Owning,
              Threads
<1> QED
  BY <1>1, <1>2, <1>3, <1>4, <1>5 DEF IInv, Safe

\* Closing audioRecv, which only its owner does.
LEMMA CloseRecvInv ==
  ASSUME IInv, CloseRecv
  PROVE  IInv'
<1> USE DEF CloseRecv, bus, media, feed
<1>0. /\ PcOK'
      /\ pc'["handler"] = "drain"
      /\ \A u \in Threads \ {"handler"} : pc'[u] = pc[u]
  BY GotoPc DEF LabelsOf, Threads, HandlerLabels, IInv, TypeOK, Safe, OneOwner,
                Owning
<1>1. TypeOK'
  BY <1>0 DEF IInv, TypeOK, Sessions, CloseSteps
<1>2. HoldsChunk' /\ LockExcludes' /\ ChannelsSafe'
  BY <1>0 DEF IInv, TypeOK, Safe, HoldsChunk, LockExcludes, ChannelsSafe,
              OneOwner, Owning, Threads, Sessions, CloseSteps
<1>3. CloseProgress'
  BY <1>0 DEF IInv, TypeOK, Safe, CloseProgress, Sessions, CloseSteps
<1>4. OneOwner'
  BY <1>0 DEF IInv, TypeOK, Safe, OneOwner, Owning, Returned,
              CloseReturned, Sessions, CloseSteps
<1>5. Returned'
  BY <1>0 DEF IInv, TypeOK, Safe, Returned, CloseReturned, OneOwner, Owning,
              Threads, Sessions, CloseSteps
<1> QED
  BY <1>1, <1>2, <1>3, <1>4, <1>5 DEF IInv, Safe

\* Giving up before the stream was bound.
LEMMA HandlerGivesUpInv ==
  ASSUME IInv, HandlerGivesUp, UNCHANGED feed
  PROVE  IInv'
<1> USE DEF HandlerGivesUp, bus, media, feed
<1>0. /\ PcOK'
      /\ pc'["handler"] = "end"
      /\ \A u \in Threads \ {"handler"} : pc'[u] = pc[u]
  BY GotoPc DEF LabelsOf, Threads, HandlerLabels, IInv, TypeOK, Safe, OneOwner,
                Owning
<1>1. TypeOK'
  BY <1>0 DEF IInv, TypeOK, Conns, ConnCloseSteps
<1>2. HoldsChunk' /\ LockExcludes' /\ ChannelsSafe'
  BY <1>0 DEF IInv, TypeOK, Safe, HoldsChunk, LockExcludes, ChannelsSafe,
              OneOwner, Owning, Threads, Conns, ConnCloseSteps
<1>3. CloseProgress'
  BY <1>0 DEF IInv, TypeOK, Safe, CloseProgress, Conns, ConnCloseSteps
<1>4. OneOwner'
  BY <1>0 DEF IInv, TypeOK, Safe, OneOwner, Owning, Returned,
              CloseReturned, Conns, ConnCloseSteps
<1>5. Returned'
  BY <1>0 DEF IInv, TypeOK, Safe, Returned, CloseReturned, OneOwner, Owning,
              Threads, Conns, ConnCloseSteps
<1> QED
  BY <1>1, <1>2, <1>3, <1>4, <1>5 DEF IInv, Safe

-----------------------------------------------------------------------------
(* The read loop. *)

\* Binding the stream to the session.
LEMMA ReadStartInv ==
  ASSUME IInv, ReadStart, UNCHANGED feed
  PROVE  IInv'
<1> USE DEF ReadStart, bus, media, feed
<1>0. /\ PcOK'
      /\ pc'["reader"] = "top"
      /\ \A u \in Threads \ {"reader"} : pc'[u] = pc[u]
  BY GotoPc DEF LabelsOf, Threads, ReaderLabels, IInv, TypeOK
<1>1. TypeOK'
  BY <1>0 DEF IInv, TypeOK,
              Conns, ConnCloseSteps
<1>2. HoldsChunk' /\ LockExcludes' /\ ChannelsSafe'
  BY <1>0 DEF IInv, TypeOK, Safe, HoldsChunk, LockExcludes, ChannelsSafe,
              Threads
<1>3. CloseProgress'
  BY DEF IInv, TypeOK, Safe, CloseProgress,
              Conns, ConnCloseSteps
<1>4. OneOwner' /\ Returned'
  BY <1>0 DEF IInv, TypeOK, Safe, OneOwner, Returned, CloseReturned, Threads
<1> QED
  BY <1>1, <1>2, <1>3, <1>4 DEF IInv, Safe

\* Reading a media message.
LEMMA ReadMediaInv ==
  ASSUME IInv, ReadMedia, UNCHANGED feed
  PROVE  IInv'
<1> USE DEF ReadMedia, bus, media, feed
<1>0. /\ PcOK'
      /\ pc'["reader"] \in {"top", "media"}
      /\ pc'["reader"] = "media" => chunk' = sent + 1
      /\ \A u \in Threads \ {"reader"} : pc'[u] = pc[u]
  BY GotoPc DEF LabelsOf, Threads, ReaderLabels, IInv, TypeOK
<1>1. TypeOK'
  BY <1>0, MediaBounds DEF IInv, TypeOK
<1>2. HoldsChunk' /\ LockExcludes' /\ ChannelsSafe'
  BY <1>0, MediaBounds DEF IInv, TypeOK, Safe, HoldsChunk, LockExcludes,
              ChannelsSafe, Threads
<1>3. CloseProgress'
  BY DEF IInv, TypeOK, Safe, CloseProgress
<1>4. OneOwner' /\ Returned'
  BY <1>0 DEF IInv, TypeOK, Safe, OneOwner, Returned, CloseReturned, Threads
<1> QED
  BY <1>1, <1>2, <1>3, <1>4 DEF IInv, Safe

\* Sending the chunk to audioIn.
LEMMA SendAudioInInv ==
  ASSUME IInv, SendAudioIn, UNCHANGED feed
  PROVE  IInv'
<1> USE DEF SendAudioIn, bus, media, feed
<1>0. /\ PcOK'
      /\ pc'["reader"] = "top"
      /\ \A u \in Threads \ {"reader"} : pc'[u] = pc[u]
  BY GotoPc DEF LabelsOf, Threads, ReaderLabels, IInv, TypeOK
<1>a. chunk \in 1..MaxMedia
  BY DEF IInv, TypeOK, Safe, HoldsChunk
<1>b. audioIn' \in Seq(1..MaxMedia) /\ accepted' \in Seq(1..MaxMedia)
  BY <1>a, AppendType DEF IInv, TypeOK
<1>1. TypeOK'
  BY SMTT(30), <1>0, <1>b, MediaBounds DEF IInv, TypeOK
<1>2. HoldsChunk' /\ LockExcludes' /\ ChannelsSafe'
  BY <1>0 DEF IInv, TypeOK, Safe, HoldsChunk, LockExcludes, ChannelsSafe,
              Threads
<1>3. CloseProgress'
  BY DEF IInv, TypeOK, Safe, CloseProgress
<1>4. OneOwner' /\ Returned'
  BY <1>0 DEF IInv, TypeOK, Safe, OneOwner, Returned, CloseReturned, Threads
<1> QED
  BY <1>1, <1>2, <1>3, <1>4 DEF IInv, Safe

\* Calling the connection's close.
LEMMA ReaderExitInv ==
  ASSUME IInv, ReaderExit, UNCHANGED feed
  PROVE  IInv'
<1> USE DEF ReaderExit, bus, media, feed
<1>0. /\ PcOK'
      /\ pc'["reader"] = "wait"
      /\ \A u \in Threads \ {"reader"} : pc'[u] = pc[u]
  BY GotoPc DEF LabelsOf, Threads, ReaderLabels, IInv, TypeOK
<1>1. TypeOK'
  BY <1>0 DEF IInv, TypeOK,
              Conns, ConnCloseSteps, StartConnClose
<1>2. HoldsChunk' /\ LockExcludes' /\ ChannelsSafe'
  BY <1>0 DEF IInv, TypeOK, Safe, HoldsChunk, LockExcludes, ChannelsSafe,
              Threads
<1>3. CloseProgress'
  BY DEF IInv, TypeOK, Safe, CloseProgress,
              Conns, ConnCloseSteps, StartConnClose
<1>4. OneOwner' /\ Returned'
  BY <1>0 DEF IInv, TypeOK, Safe, OneOwner, Returned, CloseReturned, Threads
<1> QED
  BY <1>1, <1>2, <1>3, <1>4 DEF IInv, Safe

-----------------------------------------------------------------------------
(* The application, the deadline, and calls of Session.Close. *)

\* Reading ReceiveAudio.
LEMMA AppReceivesInv ==
  ASSUME IInv, AppReceives
  PROVE  IInv'
<1> USE DEF AppReceives, bus, media, feed
<1>0. PcOK'
  BY DEF IInv, TypeOK, PcOK
<1>a. /\ audioRecv' \in Seq(1..MaxMedia)
      /\ received' \in Seq(1..MaxMedia)
  BY HeadTail, AppendType DEF IInv, TypeOK
<1>1. TypeOK'
  BY <1>0, <1>a DEF IInv, TypeOK
<1>2. HoldsChunk' /\ LockExcludes' /\ ChannelsSafe'
  BY <1>0 DEF IInv, TypeOK, Safe, HoldsChunk, LockExcludes, ChannelsSafe,
              Threads
<1>3. CloseProgress'
  BY DEF IInv, TypeOK, Safe, CloseProgress
<1>4. OneOwner' /\ Returned'
  BY <1>0 DEF IInv, TypeOK, Safe, OneOwner, Returned, CloseReturned, Threads
<1> QED
  BY <1>1, <1>2, <1>3, <1>4 DEF IInv, Safe

\* The deadline passes.
LEMMA ExpireInv ==
  ASSUME IInv, Expire
  PROVE  IInv'
<1> USE DEF Expire, bus, media, feed
<1>0. PcOK'
  BY DEF IInv, TypeOK, PcOK
<1>1. TypeOK'
  BY <1>0 DEF IInv, TypeOK
<1>2. HoldsChunk' /\ LockExcludes' /\ ChannelsSafe'
  BY <1>0 DEF IInv, TypeOK, Safe, HoldsChunk, LockExcludes, ChannelsSafe,
              Threads
<1>3. CloseProgress'
  BY DEF IInv, TypeOK, Safe, CloseProgress
<1>4. OneOwner' /\ Returned'
  BY <1>0 DEF IInv, TypeOK, Safe, OneOwner, Returned, CloseReturned, Threads
<1> QED
  BY <1>1, <1>2, <1>3, <1>4 DEF IInv, Safe

\* Reading Events.
LEMMA AppReadsEventInv ==
  ASSUME IInv, AppReadsEvent, UNCHANGED feed
  PROVE  IInv'
<1> USE DEF AppReadsEvent, bus, media, feed
<1>0. PcOK'
  BY DEF IInv, TypeOK, PcOK
<1>1. TypeOK'
  BY <1>0, MediaBounds DEF IInv, TypeOK
<1>2. HoldsChunk' /\ LockExcludes' /\ ChannelsSafe'
  BY <1>0 DEF IInv, TypeOK, Safe, HoldsChunk, LockExcludes, ChannelsSafe,
              Threads
<1>3. CloseProgress'
  BY DEF IInv, TypeOK, Safe, CloseProgress
<1>4. OneOwner' /\ Returned'
  BY <1>0 DEF IInv, TypeOK, Safe, OneOwner, Returned, CloseReturned, Threads
<1> QED
  BY <1>1, <1>2, <1>3, <1>4 DEF IInv, Safe

\* A call of Session.Close.
LEMMA CallCloseInv ==
  ASSUME IInv, NEW t \in {"handler", "webhook", "app"}, NEW at,
         t = "handler" => at = "close", CallClose(t, at), UNCHANGED feed
  PROVE  IInv'
<1> USE DEF CallClose, bus, media, feed
<1>0. /\ PcOK' /\ pc'[t] = "closing"
      /\ \A u \in Threads \ {t} : pc'[u] = pc[u]
  BY GotoPc DEF LabelsOf, Threads, HandlerLabels, WebhookLabels, AppLabels,
                IInv, TypeOK
<1>1. TypeOK'
  BY ZenonT(30), <1>0 DEF IInv, TypeOK, Sessions, CloseSteps, Threads
<1>2. HoldsChunk' /\ LockExcludes' /\ ChannelsSafe'
  BY <1>0 DEF IInv, TypeOK, Safe, HoldsChunk, LockExcludes, ChannelsSafe,
              Sessions, Threads
<1>3. CloseProgress'
  BY DEF IInv, TypeOK, Safe, CloseProgress, Sessions, CloseSteps
<1>4. OneOwner'
  BY <1>0 DEF IInv, TypeOK, Safe, OneOwner, Owning, Sessions, Threads
<1>5. Returned'
  BY <1>0 DEF IInv, TypeOK, Safe, Returned, CloseReturned, Sessions, Threads
<1> QED
  BY <1>1, <1>2, <1>3, <1>4, <1>5 DEF IInv, Safe

\* A call of Session.Close returns: the session is closed.
LEMMA CloseReturnsInv ==
  ASSUME IInv, NEW t \in {"handler", "webhook", "app"},
         NEW next, next = (IF t = "handler" THEN "closeRecv" ELSE "end"),
         CloseReturns(t, next), UNCHANGED feed
  PROVE  IInv'
<1> USE DEF CloseReturns, Moves, bus, media, feed
<1>0. /\ PcOK' /\ pc'[t] = next
      /\ \A u \in Threads \ {t} : pc'[u] = pc[u]
  BY GotoPc DEF LabelsOf, Threads, HandlerLabels, WebhookLabels, AppLabels,
                IInv, TypeOK
<1>1. TypeOK'
  BY <1>0 DEF IInv, TypeOK
<1>2. HoldsChunk' /\ LockExcludes' /\ ChannelsSafe' /\ CloseProgress'
  BY <1>0 DEF IInv, Safe, HoldsChunk, LockExcludes, ChannelsSafe,
              CloseProgress, Threads
<1>3. OneOwner'
  BY <1>0 DEF IInv, Safe, OneOwner, Owning, Threads
<1>4. Returned'
  BY DEF Returned
<1> QED
  BY <1>1, <1>2, <1>3, <1>4 DEF IInv, Safe

-----------------------------------------------------------------------------
\* The invariant holds initially.
LEMMA InitInv == Init => IInv
<1> SUFFICES ASSUME Init
             PROVE  IInv
  OBVIOUS
<1> USE MediaBounds, RecvBound DEF Init, StreamInit
<1>1. PcOK
  <2>1. \A t \in Threads : pc[t] \in LabelsOf(t)
    BY DEF Threads, LabelsOf, ReaderLabels, HandlerLabels, WebhookLabels,
           AppLabels
  <2>2. \A t \in Threads : LabelsOf(t) \subseteq Labels
    BY DEF Threads, LabelsOf, Labels
  <2>3. pc \in [Threads -> Labels]
    BY ZenonT(30), <2>1, <2>2
  <2> QED
    BY <2>1, <2>3 DEF PcOK, Threads, LabelsOf
<1>2. TypeOK
  <2>1. sess \in Sessions
    BY DEF NewSession, Sessions, CloseSteps
  <2>2. conn \in Conns
    BY DEF NewConn, Conns, ConnCloseSteps
  <2>3. rlock \in SUBSET Threads /\ announced = "no" /\ expired \in BOOLEAN
    OBVIOUS
  <2>4. events \in 0..EvCap /\ {sent, chunk, hand} \subseteq 0..MaxMedia
    OBVIOUS
  <2>5. {audioIn, accepted, audioRecv, received} \subseteq Seq(1..MaxMedia)
    OBVIOUS
  <2>6. panic \in {"none", "audioIn", "audioRecv", "events"}
    OBVIOUS
  <2> QED
    BY <1>1, <2>1, <2>2, <2>3, <2>4, <2>5, <2>6 DEF TypeOK
<1>3. HoldsChunk /\ OneOwner /\ Returned
  BY DEF HoldsChunk, OneOwner, Owning, Returned, CloseReturned, NewSession,
         Threads
<1>4. CloseProgress /\ LockExcludes /\ ChannelsSafe
  BY DEF CloseProgress, LockExcludes, ChannelsSafe, NewSession, NewConn
<1> QED
  BY <1>2, <1>3, <1>4 DEF IInv, Safe

\* Every step of every goroutine preserves the invariant.
LEMMA NextInv == IInv /\ [Next]_vars => IInv'
<1> SUFFICES ASSUME IInv, [Next]_vars
             PROVE  IInv'
  OBVIOUS
<1> USE DEF Plain, LabelsOf, Owning
<1>1. CASE Handler
  <2>1. CASE ForwardEnds
    BY <2>1, MovesInv DEF ForwardEnds, Threads, HandlerLabels
  <2>2. CASE HandlerEnd
    BY <2>2, MovesInv DEF HandlerEnd, Threads, HandlerLabels
  <2>3. CASE HandlerStarts /\ UNCHANGED feed
    BY <2>3, MovesInv DEF HandlerStarts, Threads, HandlerLabels
  <2>4. CASE Emit("handler", "started", "loop", "started") /\ UNCHANGED feed
    BY <2>4, EmitInv DEF Threads, HandlerLabels
  <2>5. CASE Emit("handler", "ended", "close", "ended") /\ UNCHANGED feed
    BY <2>5, EmitInv DEF Threads, HandlerLabels
  <2>6. CASE CallClose("handler", "close") /\ UNCHANGED feed
    BY <2>6, CallCloseInv
  <2>7. CASE CloseReturns("handler", "closeRecv") /\ UNCHANGED feed
    BY <2>7, CloseReturnsInv
  <2> QED
    BY <1>1, <2>1, <2>2, <2>3, <2>4, <2>5, <2>6, <2>7, TakeOverInv,
       OpenGateInv, ForwardTakeInv, ForwardGiveInv, ForwardInterruptedInv,
       CloseRecvInv, HandlerGivesUpInv DEF Handler
<1>2. CASE (Reader \/ Telnyx) /\ UNCHANGED feed
  <2> USE <1>2 DEF Threads, ReaderLabels
  <2>1. CASE ReadTop
    BY <2>1, MovesInv DEF ReadTop
  <2>2. CASE ReadFails
    BY <2>2, MovesInv DEF ReadFails
  <2>3. CASE ReaderEnd
    BY <2>3, MovesInv DEF ReaderEnd
  <2>4. CASE Emit("reader", "dtmf", "top", "dtmf")
    BY <2>4, EmitInv
  <2>5. CASE ReadDtmf
    BY <2>5, MovesInv DEF ReadDtmf
  <2>6. CASE ReadOther
    BY <2>6, MovesInv DEF ReadOther
  <2>7. CASE ReadStop
    BY <2>7, MovesInv DEF ReadStop
  <2> QED
    BY <2>1, <2>2, <2>3, <2>4, <2>5, <2>6, <2>7, ReadStartInv, ReadMediaInv,
       SendAudioInInv, ReaderExitInv DEF Reader, Telnyx
<1>3. CASE ConnClose /\ UNCHANGED feed
  BY <1>3, ConnCloseFlagInv, ConnCloseDoneInv, ConnCloseInInv,
     ConnCloseOutInv, ConnCloseWsInv DEF ConnClose
<1>4. CASE SessClose /\ UNCHANGED feed
  BY <1>4, SessCloseFlagInv, SessCloseDoneInv, SessClosePipelineInv,
     SessCloseConnInv, SessCloseConnWaitInv, SessCloseRemoveInv,
     SessCloseEventsInv DEF SessClose
<1>5. CASE (HangupArrives \/ Webhook) /\ UNCHANGED feed
  <2>1. CASE HangupArrives
    BY <1>5, <2>1, MovesInv DEF HangupArrives, Threads, WebhookLabels
  <2>2. CASE Emit("webhook", "emit", "close", "ended")
    BY <1>5, <2>2, EmitInv DEF Threads, WebhookLabels
  <2> QED
    BY <1>5, <2>1, <2>2, CallCloseInv, CloseReturnsInv DEF Webhook
<1>6. CASE (AppInterrupts \/ AppCloses \/ AppReturns) /\ UNCHANGED feed
  <2>1. CASE AppInterrupts
    BY <1>6, <2>1, MovesInv DEF AppInterrupts, Threads, AppLabels
  <2>2. CASE Emit("app", "interrupt", "run", "interruption")
    BY <1>6, <2>2, EmitInv DEF Threads, AppLabels
  <2> QED
    BY <1>6, <2>1, <2>2, CallCloseInv, CloseReturnsInv
       DEF AppCloses, AppReturns
<1>7. CASE UNCHANGED vars
  BY <1>7 DEF vars, bus, media, feed, IInv, TypeOK, PcOK, Safe, HoldsChunk,
              CloseProgress, LockExcludes, OneOwner, Returned, CloseReturned,
              ChannelsSafe
<1> QED
  BY <1>1, <1>2, <1>3, <1>4, <1>5, <1>6, <1>7, AppReceivesInv, ExpireInv,
     AppReadsEventInv DEF Next

LEMMA Inductive == Spec => []IInv
  BY InitInv, NextInv, PTL DEF Spec

\* Every variable keeps its type, whatever the capacities and the length of
\* the stream.
THEOREM TypeCorrect == Spec => []TypeOK
<1>1. IInv => TypeOK
  BY DEF IInv
<1> QED
  BY <1>1, Inductive, PTL

\* No goroutine sends on or closes a closed events or audioRecv channel.
THEOREM ChannelsNeverMisused == Spec => []ChannelsSafe
<1>1. IInv => ChannelsSafe
  BY DEF IInv, Safe
<1> QED
  BY <1>1, Inductive, PTL

\* Whoever's Close has returned finds the session and its connection closed.
THEOREM CloseIsComplete == Spec => []CloseComplete
<1>1. IInv => CloseComplete
  BY DEF IInv, Safe, Returned, CloseProgress, CloseComplete
<1> QED
  BY <1>1, Inductive, PTL

\* The end of ReceiveAudio is the last thing to happen to a session.
THEOREM ReceiveEndIsLast == Spec => []ReceiveEndsLast
<1>1. IInv => ReceiveEndsLast
  BY DEF IInv, Safe, OneOwner, ReceiveEndsLast, Owning, TypeOK, PcOK,
         HandlerLabels
<1> QED
  BY <1>1, Inductive, PTL

-----------------------------------------------------------------------------
(* Who can have closed audioIn: the read loop itself, on its way out, or a *)
(* call of Session.Close.                                                  *)

StreamOwner ==
  /\ conn.inClosed => conn.close # "idle"
  /\ conn.close # "idle" =>
       sess.close # "idle" \/ pc["reader"] \in {"wait", "end"}
  /\ StreamEndIsSafe

\* A step that neither starts the connection's close, nor moves the read loop,
\* nor sends on audioIn.
LEMMA OwnerKept ==
  ASSUME StreamOwner, sess.close # "idle" => sess'.close # "idle",
         conn'.close = conn.close, conn'.inClosed = conn.inClosed,
         pc'["reader"] = pc["reader"], panic' \in {panic, "events", "audioRecv"}
  PROVE  StreamOwner'
BY DEF StreamOwner, StreamEndIsSafe

\* The read loop moves on from where it has not called the close.
LEMMA ReaderKept ==
  ASSUME StreamOwner, UNCHANGED sess, pc["reader"] \notin {"wait", "end"},
         conn'.close = conn.close, conn'.inClosed = conn.inClosed,
         panic' \in {panic, "events"}
  PROVE  StreamOwner'
BY DEF StreamOwner, StreamEndIsSafe

LEMMA OwnerInv ==
  ASSUME IInv, StreamOwner, [Next]_vars
  PROVE  StreamOwner'
<1>0. /\ \A t \in Threads \ {"reader"} : \A label : Goto(t, label)
            => pc'["reader"] = pc["reader"]
      /\ sess \in Sessions /\ conn \in Conns
      /\ DOMAIN pc = Threads
  BY DEF IInv, TypeOK, PcOK, Goto, Threads
<1> USE DEF Threads, Sessions, Conns
<1>1. CASE Handler
  <2>1. CASE TakeOver
    BY <1>0, <2>1, OwnerKept DEF TakeOver
  <2>2. CASE OpenGate
    BY <1>0, <2>2, OwnerKept DEF OpenGate
  <2>3. CASE ForwardTake \/ ForwardGive
    BY <1>0, <2>3, OwnerKept DEF ForwardTake, ForwardGive
  <2>4. CASE ForwardInterrupted \/ ForwardEnds
    BY <1>0, <2>4, OwnerKept DEF ForwardInterrupted, ForwardEnds, Moves
  <2>5. CASE CloseRecv \/ HandlerEnd
    BY <1>0, <2>5, OwnerKept DEF CloseRecv, HandlerEnd, Moves
  <2>6. CASE HandlerGivesUp
    BY <1>0, <2>6, OwnerKept DEF HandlerGivesUp
  <2>7. CASE HandlerStarts
    BY <1>0, <2>7, OwnerKept DEF HandlerStarts, Moves
  <2>8. CASE \/ Emit("handler", "started", "loop", "started")
             \/ Emit("handler", "ended", "close", "ended")
    BY <1>0, <2>8, OwnerKept DEF Emit, EmitSkip, EmitLock, EmitSend, Moves
  <2>9. CASE \/ CallClose("handler", "close")
             \/ CloseReturns("handler", "closeRecv")
    BY <1>0, <2>9, OwnerKept DEF CallClose, CloseReturns, Moves
  <2> QED
    BY <1>1, <2>1, <2>2, <2>3, <2>4, <2>5, <2>6, <2>7, <2>8, <2>9 DEF Handler
<1>2. CASE Reader \/ Telnyx
  <2>1. CASE \/ ReadTop \/ ReadFails \/ ReadDtmf \/ ReadOther \/ ReadStop
    BY <2>1, ReaderKept DEF ReadTop, ReadFails, ReadDtmf, ReadOther, ReadStop,
                            Moves
  <2>2. CASE ReadStart \/ ReadMedia
    BY <1>0, <2>2, ReaderKept DEF ReadStart, ReadMedia
  <2>3. CASE Emit("reader", "dtmf", "top", "dtmf")
    <3>1. CASE EmitLock("reader", "dtmf")
      BY <3>1, OwnerKept DEF EmitLock
    <3> QED
      BY <2>3, <3>1, ReaderKept DEF Emit, EmitSkip, EmitSend, Moves
  <2>4. CASE SendAudioIn
    \* The channel is closed, and not by the read loop, which is still here.
    <3>1. CASE conn.inClosed
      <4>1. sess.close # "idle"
        BY <2>4, <3>1 DEF SendAudioIn, StreamOwner
      <4> QED
        BY <2>4, <4>1 DEF SendAudioIn, StreamOwner, StreamEndIsSafe
    <3>2. CASE ~conn.inClosed
      BY <2>4, <3>2, ReaderKept DEF SendAudioIn
    <3> QED
      BY <3>1, <3>2
  <2>5. CASE ReaderExit
    <3>1. pc'["reader"] = "wait"
      BY <1>0, <2>5 DEF ReaderExit, Goto
    <3>2. conn'.inClosed = conn.inClosed /\ conn'.close # "idle"
      BY <1>0, <2>5 DEF ReaderExit, StartConnClose
    <3> QED
      BY <2>5, <3>1, <3>2 DEF ReaderExit, StreamOwner, StreamEndIsSafe
  <2>6. CASE ReaderEnd
    <3>1. pc'["reader"] = "end"
      BY <1>0, <2>6 DEF ReaderEnd, Moves, Goto
    <3> QED
      BY <2>6, <3>1 DEF ReaderEnd, Moves, StreamOwner, StreamEndIsSafe
  <2> QED
    BY <1>2, <2>1, <2>2, <2>3, <2>4, <2>5, <2>6 DEF Reader, Telnyx
<1>3. CASE ConnClose
  \* The body of the close runs only once it has been called.
  <2>1. conn.close # "idle" /\ conn'.close # "idle"
    BY <1>0, <1>3 DEF ConnClose, ConnCloseFlag, ConnCloseDone, ConnCloseIn,
                      ConnCloseOut, ConnCloseWs
  <2> QED
    BY <1>3, <2>1 DEF ConnClose, StreamOwner, StreamEndIsSafe
<1>4. CASE SessClose
  <2>1. /\ sess'.close # "idle" /\ conn'.inClosed = conn.inClosed
        /\ conn.close # "idle" => conn'.close # "idle"
    BY ZenonT(30), <1>0, <1>4 DEF SessClose, SessCloseFlag, SessCloseDone,
                      SessClosePipeline, SessCloseConn, SessCloseConnWait,
                      SessCloseRemove, SessCloseEvents, StartConnClose
  <2> QED
    BY <1>4, <2>1 DEF SessClose, StreamOwner, StreamEndIsSafe
<1>5. CASE HangupArrives \/ Webhook
  <2>1. CASE HangupArrives \/ Emit("webhook", "emit", "close", "ended")
    BY <1>0, <2>1, OwnerKept DEF HangupArrives, Moves, Emit, EmitSkip, EmitLock,
                                 EmitSend
  <2>2. CASE CallClose("webhook", "close") \/ CloseReturns("webhook", "end")
    BY <1>0, <2>2, OwnerKept DEF CallClose, CloseReturns, Moves
  <2> QED
    BY <1>5, <2>1, <2>2 DEF Webhook
<1>6. CASE AppInterrupts \/ AppCloses \/ AppReturns
  <2>1. CASE AppInterrupts \/ Emit("app", "interrupt", "run", "interruption")
    BY <1>0, <2>1, OwnerKept DEF AppInterrupts, Moves, Emit, EmitSkip, EmitLock,
                                 EmitSend
  <2>2. CASE CallClose("app", "run") \/ CloseReturns("app", "end")
    BY <1>0, <2>2, OwnerKept DEF CallClose, CloseReturns, Moves
  <2> QED
    BY <1>6, <2>1, <2>2 DEF AppCloses, AppReturns
<1>7. CASE AppReceives \/ Expire \/ AppReadsEvent \/ UNCHANGED vars
  BY <1>7, OwnerKept DEF AppReceives, Expire, AppReadsEvent, vars
<1> QED
  BY <1>1, <1>2, <1>3, <1>4, <1>5, <1>6, <1>7 DEF Next

\* A stream that ends by itself brings nothing down: the read loop finds its
\* channel closed only when Session.Close has been called.
THEOREM StreamEndSafe == Spec => []StreamEndIsSafe
<1>1. Init => StreamOwner
  BY DEF Init, StreamInit, NewConn, StreamOwner, StreamEndIsSafe
<1>2. IInv /\ StreamOwner /\ [Next]_vars => StreamOwner'
  BY OwnerInv
<1>3. StreamOwner => StreamEndIsSafe
  BY DEF StreamOwner
<1> QED
  BY <1>1, <1>2, <1>3, Inductive, PTL DEF Spec
=============================================================================
