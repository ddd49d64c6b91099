-------------------------- MODULE TransportProofs --------------------------
(***************************************************************************)
(* Proofs about Transport, for every capacity of its channels, every size  *)
(* of a chunk and every number of moves: type correctness, what a returned *)
(* Close has left behind, that the remote end brings nothing down, that    *)
(* Read returns every byte once and in order before io.EOF, and that Write *)
(* keeps the promise of LossyQueue.                                        *)
(***************************************************************************)
EXTENDS Transport, SequenceTheorems, TLAPS

\* How far Connection.Close has come is visible in the fields it has written.
CloseProgress ==
  /\ conn.closed <=> conn.close \notin {"idle", "flag"}
  /\ conn.done <=> conn.close \notin {"idle", "flag", "done"}
  /\ in.closed <=> conn.close \notin {"idle", "flag", "done", "in"}
  /\ conn.outClosed <=> conn.close \in {"events", "ws", "delist", "finished"}
  /\ conn.evClosed <=> conn.close \in {"ws", "delist", "finished"}
  /\ conn.close \in {"delist", "finished"} => ~conn.wsOpen

\* Who has returned from Close returned from a finished one; after that only a
\* read loop about to send its event can have listed the connection.
Returned ==
  /\ At("reader", "over") \/ At("app", "over") => conn.close = "finished"
  /\ conn.close = "finished" /\ provider.listed => At("reader", "event")

\* While the application closes neither the connection nor the provider, the
\* read loop is the one to close, and does not send any more.
RemoteOnly ==
  /\ ~provider.listening => At("owner", "over")
  /\ At("app", "idle") /\ At("owner", "idle") =>
       /\ conn.close # "idle" => At("reader", "closing") \/ At("reader", "over")
       /\ panic = "none"

\* Write holds an item exactly while it makes room for it.
HandHeld == in.hand # None <=> At("speaker", "drop") \/ At("speaker", "put")

\* Items and chunks are moves; the one being delivered is not yet counted.
Counted ==
  written + Len(accepted) + (IF At("reader", "media") THEN 1 ELSE 0) <= moves

\* The bytes of what has left the channel have been read or are kept, and are
\* all read before Read waits for more.
ByteFlow ==
  /\ ReadsEveryByte
  /\ Len(out.ch) <= Len(accepted)
  /\ At("player", "wait") \/ At("player", "eof") => out.buffer = <<>>
  /\ At("player", "eof") => conn.outClosed /\ out.ch = <<>>

IInv == TypeOK /\ CloseProgress /\ Returned /\ RemoteOnly /\ HandHeld
          /\ Counted /\ ByteFlow
-----------------------------------------------------------------------------
(* What most steps leave alone.                                            *)

LEMMA BytesKept ==
  ASSUME IInv, UNCHANGED <<out, accepted, read>>, pc'.player = pc.player,
         conn.outClosed => conn'.outClosed
  PROVE  ByteFlow'
  BY DEF IInv, ByteFlow, ReadsEveryByte, BytesOfFirst, At

\* The audioWriter and the speaker.
LEMMA HandKept ==
  ASSUME IInv, in'.hand = in.hand, pc'.speaker = pc.speaker
  PROVE  HandHeld'
  BY DEF IInv, HandHeld, At

LEMMA TypeKept ==
  ASSUME IInv, pc' \in Labels, conn' \in Connections,
         provider' \in [mu : {"free", "owner"}, listed : BOOLEAN,
                       listening : BOOLEAN],
         events' \in 0..EvCap, moves' \in 0..MaxMoves,
         panic' \in {"none", "events", "audioOut", "listener"},
         UNCHANGED <<in, out, written, taken, accepted, read>>
  PROVE  TypeOK'
  BY DEF IInv, TypeOK

LEMMA MovedType ==
  ASSUME IInv, Moved  PROVE  moves' \in 0..MaxMoves
  BY TransportBounds DEF IInv, TypeOK, Moved

LEMMA StartCloseType ==
  ASSUME IInv, StartClose  PROVE  conn' \in Connections
  BY DEF IInv, TypeOK, Connections, StartClose

LEMMA HandlerInv ==
  ASSUME IInv, panic = "none", Handler  PROVE  IInv'
<1> USE DEF Handler, Lookup, Notify, Step, Goto, At, writing, reading
<1>1. TypeOK'
  BY DEF IInv, TypeOK, Labels, Connections
<1>2. CloseProgress'
  BY DEF IInv, TypeOK, Connections, CloseProgress
<1>3. Returned'
  BY DEF IInv, TypeOK, Labels, Connections, CloseProgress, Returned
<1>4. RemoteOnly'
  BY DEF IInv, TypeOK, Labels, Connections, CloseProgress, RemoteOnly
<1>5. HandHeld'
  BY HandKept DEF IInv, TypeOK, Labels
<1>6. Counted'
  BY DEF IInv, TypeOK, Labels, Counted
<1>7. ByteFlow'
  BY BytesKept DEF IInv, TypeOK, Labels, Connections
<1> QED
  BY <1>1, <1>2, <1>3, <1>4, <1>5, <1>6, <1>7 DEF IInv

LEMMA CloseBodyInv ==
  ASSUME IInv, CloseBody  PROVE  IInv'
<1>0. /\ UNCHANGED <<pc, events, written, taken, out, accepted, read, moves, panic>>
      /\ in'.ch = in.ch /\ in'.hand = in.hand
      /\ provider'.listening = provider.listening
  BY DEF CloseBody, CloseFlag, CloseDone, CloseIn, CloseOut, CloseEvents, CloseWs,
         CloseDelist, reading, IInv, TypeOK
<1>1. /\ conn' \in Connections /\ CloseProgress'
      /\ provider' \in [mu : {"free", "owner"}, listed : BOOLEAN,
                        listening : BOOLEAN]
      /\ in' \in [ch : Seq(1..MaxMoves), closed : BOOLEAN, hand : 0..MaxMoves]
      /\ conn'.close = "finished" => ~provider'.listed
      /\ conn.close # "idle"
      /\ conn.outClosed => conn'.outClosed
  <2> USE DEF IInv, TypeOK, Connections, CloseProgress
  <2>1. CASE CloseFlag
    BY <2>1 DEF CloseFlag, CloseStatement
  <2>2. CASE CloseDone
    BY <2>2 DEF CloseDone, CloseStatement
  <2>3. CASE CloseIn
    BY <2>3 DEF CloseIn
  <2>4. CASE CloseOut
    BY <2>4 DEF CloseOut, CloseStatement
  <2>5. CASE CloseEvents
    BY <2>5 DEF CloseEvents, CloseStatement
  <2>6. CASE CloseWs
    BY <2>6 DEF CloseWs
  <2>7. CASE CloseDelist
    BY <2>7 DEF CloseDelist
  <2> QED
    BY <2>1, <2>2, <2>3, <2>4, <2>5, <2>6, <2>7 DEF CloseBody
<1>2. TypeOK'
  BY <1>0, <1>1 DEF IInv, TypeOK
<1>3. Returned'
  BY <1>0, <1>1 DEF IInv, Returned, At, CloseBody, CloseFlag, CloseDone, CloseIn,
                    CloseOut, CloseEvents, CloseWs, CloseDelist, CloseStatement
<1>4. RemoteOnly' /\ HandHeld' /\ Counted'
  BY <1>0, <1>1 DEF IInv, RemoteOnly, HandHeld, Counted, At
<1>5. ByteFlow'
  BY <1>0, <1>1, BytesKept
<1> QED
  BY <1>1, <1>2, <1>3, <1>4, <1>5 DEF IInv

LEMMA CloseReturnsInv ==
  ASSUME IInv, CloseReturns("reader", "over") \/ CloseReturns("app", "over")  PROVE  IInv'
<1> USE DEF CloseReturns, Step, Goto, At, writing, reading
<1>1. TypeOK'
  BY DEF IInv, TypeOK, Labels, Connections
<1>2. CloseProgress'
  BY DEF IInv, TypeOK, Connections, CloseProgress
<1>3. Returned'
  BY DEF IInv, TypeOK, Labels, Connections, CloseProgress, Returned
<1>4. RemoteOnly'
  BY DEF IInv, TypeOK, Labels, Connections, CloseProgress, RemoteOnly
<1>5. HandHeld'
  BY HandKept DEF IInv, TypeOK, Labels
<1>6. Counted'
  BY DEF IInv, TypeOK, Labels, Counted
<1>7. ByteFlow'
  BY BytesKept DEF IInv, TypeOK, Labels, Connections
<1> QED
  BY <1>1, <1>2, <1>3, <1>4, <1>5, <1>6, <1>7 DEF IInv

LEMMA CallCloseReaderInv ==
  ASSUME IInv, CallClose("reader", "leave"), UNCHANGED moves  PROVE  IInv'
<1> USE DEF CallClose, StartClose, Step, Goto, At, writing, reading
<1>1. TypeOK'
  <2>1. pc' \in Labels
    BY DEF IInv, TypeOK, Labels
  <2>2. conn' \in Connections
    BY StartCloseType DEF IInv, TypeOK, Connections
  <2>3. moves' \in 0..MaxMoves
    BY DEF IInv, TypeOK
  <2> QED
    BY <2>1, <2>2, <2>3, TypeKept DEF IInv, TypeOK
<1>2. CloseProgress'
  BY DEF IInv, TypeOK, Connections, CloseProgress
<1>3. Returned'
  BY DEF IInv, TypeOK, Labels, Connections, CloseProgress, Returned
<1>4. RemoteOnly'
  BY DEF IInv, TypeOK, Labels, Connections, CloseProgress, RemoteOnly
<1>5. HandHeld'
  BY HandKept DEF IInv, TypeOK, Labels
<1>6. Counted'
  BY DEF IInv, TypeOK, Labels, Counted
<1>7. ByteFlow'
  BY BytesKept DEF IInv, TypeOK, Labels, Connections
<1> QED
  BY <1>1, <1>2, <1>3, <1>4, <1>5, <1>6, <1>7 DEF IInv

LEMMA AppClosesInv ==
  ASSUME IInv, panic = "none", AppCloses  PROVE  IInv'
<1> USE DEF AppCloses, CallClose, StartClose, Moved, Step, Goto, At, writing, reading
<1>1. TypeOK'
  <2>1. pc' \in Labels
    BY DEF IInv, TypeOK, Labels
  <2>2. conn' \in Connections
    BY StartCloseType DEF IInv, TypeOK, Connections
  <2>3. moves' \in 0..MaxMoves
    BY MovedType DEF IInv, TypeOK
  <2> QED
    BY <2>1, <2>2, <2>3, TypeKept DEF IInv, TypeOK
<1>2. CloseProgress'
  BY DEF IInv, TypeOK, Connections, CloseProgress
<1>3. Returned'
  BY DEF IInv, TypeOK, Labels, Connections, CloseProgress, Returned
<1>4. RemoteOnly'
  BY DEF IInv, TypeOK, Labels, Connections, CloseProgress, RemoteOnly
<1>5. HandHeld'
  BY HandKept DEF IInv, TypeOK, Labels
<1>6. Counted'
  BY DEF IInv, TypeOK, Labels, Counted
<1>7. ByteFlow'
  BY BytesKept DEF IInv, TypeOK, Labels, Connections
<1> QED
  BY <1>1, <1>2, <1>3, <1>4, <1>5, <1>6, <1>7 DEF IInv

LEMMA OwnerLocksInv ==
  ASSUME IInv, OwnerLocks  PROVE  IInv'
<1> USE DEF OwnerLocks, Moved, Step, Goto, At, writing, reading
<1>1. TypeOK'
  <2>1. pc' \in Labels
    BY DEF IInv, TypeOK, Labels
  <2>2. conn' \in Connections
    BY DEF IInv, TypeOK, Connections
  <2>3. moves' \in 0..MaxMoves
    BY MovedType DEF IInv, TypeOK
  <2> QED
    BY <2>1, <2>2, <2>3, TypeKept DEF IInv, TypeOK
<1>2. CloseProgress'
  BY DEF IInv, TypeOK, Connections, CloseProgress
<1>3. Returned'
  BY DEF IInv, TypeOK, Labels, Connections, CloseProgress, Returned
<1>4. RemoteOnly'
  BY DEF IInv, TypeOK, Labels, Connections, CloseProgress, RemoteOnly
<1>5. HandHeld'
  BY HandKept DEF IInv, TypeOK, Labels
<1>6. Counted'
  BY DEF IInv, TypeOK, Labels, Counted
<1>7. ByteFlow'
  BY BytesKept DEF IInv, TypeOK, Labels, Connections
<1> QED
  BY <1>1, <1>2, <1>3, <1>4, <1>5, <1>6, <1>7 DEF IInv

LEMMA OwnerClosesConnInv ==
  ASSUME IInv, OwnerClosesConn  PROVE  IInv'
<1> USE DEF OwnerClosesConn, CallClose, StartClose, Step, Goto, At, writing, reading
<1>1. TypeOK'
  <2>1. pc' \in Labels
    BY DEF IInv, TypeOK, Labels
  <2>2. conn' \in Connections
    BY StartCloseType DEF IInv, TypeOK, Connections
  <2>3. moves' \in 0..MaxMoves
    BY DEF IInv, TypeOK
  <2> QED
    BY <2>1, <2>2, <2>3, TypeKept DEF IInv, TypeOK
<1>2. CloseProgress'
  BY DEF IInv, TypeOK, Connections, CloseProgress
<1>3. Returned'
  BY DEF IInv, TypeOK, Labels, Connections, CloseProgress, Returned
<1>4. RemoteOnly'
  BY DEF IInv, TypeOK, Labels, Connections, CloseProgress, RemoteOnly
<1>5. HandHeld'
  BY HandKept DEF IInv, TypeOK, Labels
<1>6. Counted'
  BY DEF IInv, TypeOK, Labels, Counted
<1>7. ByteFlow'
  BY BytesKept DEF IInv, TypeOK, Labels, Connections
<1> QED
  BY <1>1, <1>2, <1>3, <1>4, <1>5, <1>6, <1>7 DEF IInv

LEMMA OwnerUnlocksInv ==
  ASSUME IInv, OwnerUnlocks  PROVE  IInv'
<1> USE DEF OwnerUnlocks, Step, Goto, At, writing, reading
<1>1. TypeOK'
  <2>1. pc' \in Labels
    BY DEF IInv, TypeOK, Labels
  <2>2. conn' \in Connections
    BY DEF IInv, TypeOK, Connections
  <2>3. moves' \in 0..MaxMoves
    BY DEF IInv, TypeOK
  <2> QED
    BY <2>1, <2>2, <2>3, TypeKept DEF IInv, TypeOK
<1>2. CloseProgress'
  BY DEF IInv, TypeOK, Connections, CloseProgress
<1>3. Returned'
  BY DEF IInv, TypeOK, Labels, Connections, CloseProgress, Returned
<1>4. RemoteOnly'
  BY DEF IInv, TypeOK, Labels, Connections, CloseProgress, RemoteOnly
<1>5. HandHeld'
  BY HandKept DEF IInv, TypeOK, Labels
<1>6. Counted'
  BY DEF IInv, TypeOK, Labels, Counted
<1>7. ByteFlow'
  BY BytesKept DEF IInv, TypeOK, Labels, Connections
<1> QED
  BY <1>1, <1>2, <1>3, <1>4, <1>5, <1>6, <1>7 DEF IInv

LEMMA ReaderMovesInv ==
  ASSUME IInv, ReadTop \/ ReceiveFails \/ ReceiveEvent \/ ReceiveStop  PROVE  IInv'
<1> USE DEF ReadTop, ReceiveFails, ReceiveEvent, ReceiveStop, ReaderMoves,
            Moved, Step, Goto, At, writing, reading
<1>1. TypeOK'
  <2>1. pc' \in Labels
    BY DEF IInv, TypeOK, Labels
  <2>2. conn' \in Connections
    BY DEF IInv, TypeOK, Connections
  <2>3. moves' \in 0..MaxMoves
    BY MovedType DEF IInv, TypeOK
  <2> QED
    BY <2>1, <2>2, <2>3, TypeKept DEF IInv, TypeOK
<1>2. CloseProgress'
  BY DEF IInv, TypeOK, Connections, CloseProgress
<1>3. Returned'
  BY DEF IInv, TypeOK, Labels, Connections, CloseProgress, Returned
<1>4. RemoteOnly'
  BY DEF IInv, TypeOK, Labels, Connections, CloseProgress, RemoteOnly
<1>5. HandHeld'
  BY HandKept DEF IInv, TypeOK, Labels
<1>6. Counted'
  BY SMTT(30) DEF IInv, TypeOK, Labels, Counted
<1>7. ByteFlow'
  BY BytesKept DEF IInv, TypeOK, Labels, Connections
<1> QED
  BY <1>1, <1>2, <1>3, <1>4, <1>5, <1>6, <1>7 DEF IInv

LEMMA ReceiveMediaInv ==
  ASSUME IInv, ReceiveMedia  PROVE  IInv'
<1> USE DEF ReceiveMedia, ReaderMoves, Moved, Step, Goto, At, writing, reading
<1>1. TypeOK'
  <2>1. pc' \in Labels
    BY DEF IInv, TypeOK, Labels
  <2>2. conn' \in Connections
    BY DEF IInv, TypeOK, Connections
  <2>3. moves' \in 0..MaxMoves
    BY MovedType DEF IInv, TypeOK
  <2> QED
    BY <2>1, <2>2, <2>3, TypeKept DEF IInv, TypeOK
<1>2. CloseProgress'
  BY DEF IInv, TypeOK, Connections, CloseProgress
<1>3. Returned'
  BY DEF IInv, TypeOK, Labels, Connections, CloseProgress, Returned
<1>4. RemoteOnly'
  BY DEF IInv, TypeOK, Labels, Connections, CloseProgress, RemoteOnly
<1>5. HandHeld'
  BY HandKept DEF IInv, TypeOK, Labels
<1>6. Counted'
  BY DEF IInv, TypeOK, Labels, Counted
<1>7. ByteFlow'
  BY BytesKept DEF IInv, TypeOK, Labels, Connections
<1> QED
  BY <1>1, <1>2, <1>3, <1>4, <1>5, <1>6, <1>7 DEF IInv

LEMMA ReceiveStartInv ==
  ASSUME IInv, ReceiveStart  PROVE  IInv'
<1> USE DEF ReceiveStart, Moved, Step, Goto, At, writing, reading
<1>1. TypeOK'
  <2>1. pc' \in Labels
    BY DEF IInv, TypeOK, Labels
  <2>2. conn' \in Connections
    BY DEF IInv, TypeOK, Connections
  <2>3. moves' \in 0..MaxMoves
    BY MovedType DEF IInv, TypeOK
  <2> QED
    BY <2>1, <2>2, <2>3, TypeKept DEF IInv, TypeOK
<1>2. CloseProgress'
  BY DEF IInv, TypeOK, Connections, CloseProgress
<1>3. Returned'
  BY DEF IInv, TypeOK, Labels, Connections, CloseProgress, Returned
<1>4. RemoteOnly'
  BY DEF IInv, TypeOK, Labels, Connections, CloseProgress, RemoteOnly
<1>5. HandHeld'
  BY HandKept DEF IInv, TypeOK, Labels
<1>6. Counted'
  BY DEF IInv, TypeOK, Labels, Counted
<1>7. ByteFlow'
  BY BytesKept DEF IInv, TypeOK, Labels, Connections
<1> QED
  BY <1>1, <1>2, <1>3, <1>4, <1>5, <1>6, <1>7 DEF IInv

LEMMA ListInv ==
  ASSUME IInv, List  PROVE  IInv'
<1> USE DEF List, Step, Goto, At, writing, reading
<1>1. TypeOK'
  <2>1. pc' \in Labels
    BY DEF IInv, TypeOK, Labels
  <2>2. conn' \in Connections
    BY DEF IInv, TypeOK, Connections
  <2>3. moves' \in 0..MaxMoves
    BY DEF IInv, TypeOK
  <2> QED
    BY <2>1, <2>2, <2>3, TypeKept DEF IInv, TypeOK
<1>2. CloseProgress'
  BY DEF IInv, TypeOK, Connections, CloseProgress
<1>3. Returned'
  BY DEF IInv, TypeOK, Labels, Connections, CloseProgress, Returned
<1>4. RemoteOnly'
  BY DEF IInv, TypeOK, Labels, Connections, CloseProgress, RemoteOnly
<1>5. HandHeld'
  BY HandKept DEF IInv, TypeOK, Labels
<1>6. Counted'
  BY DEF IInv, TypeOK, Labels, Counted
<1>7. ByteFlow'
  BY BytesKept DEF IInv, TypeOK, Labels, Connections
<1> QED
  BY <1>1, <1>2, <1>3, <1>4, <1>5, <1>6, <1>7 DEF IInv

LEMMA TelnyxHangsUpInv ==
  ASSUME IInv, TelnyxHangsUp  PROVE  IInv'
<1> USE DEF TelnyxHangsUp, Moved, Step, Goto, At, writing, reading
<1>1. TypeOK'
  <2>1. pc' \in Labels
    BY ZenonT(30) DEF IInv, TypeOK, Labels
  <2>2. conn' \in Connections
    BY DEF IInv, TypeOK, Connections
  <2>3. moves' \in 0..MaxMoves
    BY MovedType DEF IInv, TypeOK
  <2> QED
    BY <2>1, <2>2, <2>3, TypeKept DEF IInv, TypeOK
<1>2. CloseProgress'
  BY DEF IInv, TypeOK, Connections, CloseProgress
<1>3. Returned'
  BY DEF IInv, TypeOK, Labels, Connections, CloseProgress, Returned
<1>4. RemoteOnly'
  BY DEF IInv, TypeOK, Labels, Connections, CloseProgress, RemoteOnly
<1>5. HandHeld'
  BY HandKept DEF IInv, TypeOK, Labels
<1>6. Counted'
  BY DEF IInv, TypeOK, Labels, Counted
<1>7. ByteFlow'
  BY BytesKept DEF IInv, TypeOK, Labels, Connections
<1> QED
  BY <1>1, <1>2, <1>3, <1>4, <1>5, <1>6, <1>7 DEF IInv

LEMMA AppReceivesInv ==
  ASSUME IInv, AppReceives  PROVE  IInv'
<1> USE DEF AppReceives, At, writing, reading
<1>1. TypeOK'
  <2>1. pc' \in Labels
    BY DEF IInv, TypeOK, Labels
  <2>2. conn' \in Connections
    BY DEF IInv, TypeOK, Connections
  <2>3. moves' \in 0..MaxMoves
    BY DEF IInv, TypeOK
  <2>4. events' \in 0..EvCap
    <3>1. events \in 1..EvCap /\ EvCap \in Nat
      BY TransportBounds DEF IInv, TypeOK
    <3> QED
      BY <3>1
  <2> QED
    BY <2>1, <2>2, <2>3, <2>4, TypeKept DEF IInv, TypeOK
<1>2. CloseProgress'
  BY DEF IInv, TypeOK, Connections, CloseProgress
<1>3. Returned'
  BY DEF IInv, TypeOK, Labels, Connections, CloseProgress, Returned
<1>4. RemoteOnly'
  BY DEF IInv, TypeOK, Labels, Connections, CloseProgress, RemoteOnly
<1>5. HandHeld'
  BY HandKept DEF IInv, TypeOK, Labels
<1>6. Counted'
  BY DEF IInv, TypeOK, Labels, Counted
<1>7. ByteFlow'
  BY BytesKept DEF IInv, TypeOK, Labels, Connections
<1> QED
  BY <1>1, <1>2, <1>3, <1>4, <1>5, <1>6, <1>7 DEF IInv

LEMMA WriterStopsInv ==
  ASSUME IInv, WriterStops  PROVE  IInv'
<1> USE DEF WriterStops, Step, Goto, At, writing, reading
<1>1. TypeOK'
  <2>1. pc' \in Labels
    BY DEF IInv, TypeOK, Labels
  <2>2. conn' \in Connections
    BY DEF IInv, TypeOK, Connections
  <2>3. moves' \in 0..MaxMoves
    BY DEF IInv, TypeOK
  <2> QED
    BY <2>1, <2>2, <2>3, TypeKept DEF IInv, TypeOK
<1>2. CloseProgress'
  BY DEF IInv, TypeOK, Connections, CloseProgress
<1>3. Returned'
  BY DEF IInv, TypeOK, Labels, Connections, CloseProgress, Returned
<1>4. RemoteOnly'
  BY DEF IInv, TypeOK, Labels, Connections, CloseProgress, RemoteOnly
<1>5. HandHeld'
  BY HandKept DEF IInv, TypeOK, Labels
<1>6. Counted'
  BY DEF IInv, TypeOK, Labels, Counted
<1>7. ByteFlow'
  BY BytesKept DEF IInv, TypeOK, Labels, Connections
<1> QED
  BY <1>1, <1>2, <1>3, <1>4, <1>5, <1>6, <1>7 DEF IInv

LEMMA SendEventInv ==
  ASSUME IInv, panic = "none",
         \/ SendEvent("event", "top") \/ SendEvent("failed", "leave")
         \/ SendEvent("stopped", "disconnected")
         \/ SendEvent("disconnected", "leave")
  PROVE  IInv'
<1> USE DEF SendEvent, Goto, At, writing, reading
<1>1. TypeOK'
  <2>1. pc' \in Labels
    BY DEF IInv, TypeOK, Labels
  <2>2. events' \in 0..EvCap
    <3>1. events \in 0..EvCap /\ EvCap \in Nat
      BY TransportBounds DEF IInv, TypeOK
    <3> QED
      BY <3>1
  <2> QED
    BY <2>1, <2>2, TypeKept DEF IInv, TypeOK
<1>2. CloseProgress'
  BY DEF IInv, TypeOK, Connections, CloseProgress
<1>3. Returned'
  BY DEF IInv, TypeOK, Labels, Connections, CloseProgress, Returned
<1>4. RemoteOnly'
  BY DEF IInv, TypeOK, Labels, Connections, CloseProgress, RemoteOnly
<1>5. HandHeld'
  BY HandKept DEF IInv, TypeOK, Labels
<1>6. Counted'
  BY DEF IInv, TypeOK, Labels, Counted
<1>7. ByteFlow'
  BY BytesKept DEF IInv, TypeOK, Labels, Connections
<1> QED
  BY <1>1, <1>2, <1>3, <1>4, <1>5, <1>6, <1>7 DEF IInv

-----------------------------------------------------------------------------
(* Write and the write loop.                                               *)

\* A step of the audioWriter leaves the read side and the closing alone.
LEMMA WriteSide ==
  ASSUME IInv, pc' \in Labels, moves' \in 0..MaxMoves,
         \A g \in {"handler", "reader", "player", "app", "owner"} : pc'[g] = pc[g],
         UNCHANGED <<conn, provider, events, out, accepted, read, panic>>,
         in' \in [ch : Seq(1..MaxMoves), closed : BOOLEAN, hand : 0..MaxMoves],
         in'.closed = in.closed, Len(in'.ch) <= WriteCap,
         written' \in 0..MaxMoves, taken' \in Seq(1..MaxMoves), HandHeld',
         written' - written <= moves' - moves
  PROVE  IInv'
<1>1. TypeOK'
  BY DEF IInv, TypeOK
<1>2. CloseProgress' /\ Returned' /\ RemoteOnly'
  BY DEF IInv, CloseProgress, Returned, RemoteOnly, At
<1>3. Counted'
  <2>1. moves \in Nat /\ moves' \in Nat /\ written \in Nat /\ written' \in Nat
    BY TransportBounds DEF IInv, TypeOK
  <2>2. Len(accepted) \in Nat
    BY DEF IInv, TypeOK
  <2>3. PICK n \in 0..1 : n = IF At("reader", "media") THEN 1 ELSE 0
    OBVIOUS
  <2>4. (IF At("reader", "media")' THEN 1 ELSE 0) = n
    BY <2>3 DEF At
  <2>5. written + Len(accepted) + n <= moves
    BY <2>3 DEF IInv, Counted
  <2>6. written' + Len(accepted) + n <= moves'
    <3>1. \A w, w1, m, m1, k \in Nat : \A b \in 0..1 :
            w1 - w <= m1 - m /\ w + k + b <= m => w1 + k + b <= m1
      OBVIOUS
    <3> QED
      BY <2>1, <2>2, <2>3, <2>5, <3>1
  <2>7. UNCHANGED accepted
    OBVIOUS
  <2> QED
    BY <2>4, <2>6, <2>7 DEF Counted
<1>4. ByteFlow'
  BY BytesKept
<1> QED
  BY <1>1, <1>2, <1>3, <1>4 DEF IInv

\* The item Write is called with is a move.
LEMMA NewItem ==
  ASSUME IInv, Moved
  PROVE  /\ written + 1 \in 1..MaxMoves
         /\ moves' = moves + 1 /\ moves \in Nat /\ written \in Nat
<1>1. /\ moves \in Nat /\ written \in Nat /\ MaxMoves \in Nat
      /\ Len(accepted) \in Nat
  BY TransportBounds DEF IInv, TypeOK
<1> QED
  BY <1>1 DEF Moved, IInv, Counted

LEMMA WriteInv ==
  ASSUME IInv, Write  PROVE  IInv'
<1>1. /\ written' = written + 1 /\ written + 1 \in 1..MaxMoves
      /\ moves' = moves + 1 /\ moves' \in 0..MaxMoves
      /\ moves \in Nat /\ written \in Nat
      /\ UNCHANGED <<conn, provider, events, taken, out, accepted, read, panic>>
  BY NewItem, MovedType DEF Write, reading
<1>2. /\ in \in [ch : Seq(1..MaxMoves), closed : BOOLEAN, hand : 0..MaxMoves]
      /\ WriteCap \in Nat /\ Len(in.ch) <= WriteCap /\ Len(in.ch) \in Nat
      /\ pc \in Labels /\ pc.speaker = "idle" /\ in.hand = None
  BY TransportBounds DEF IInv, TypeOK, Write, At, HandHeld
<1>3. CASE UNCHANGED <<pc, in>>
  BY <1>1, <1>2, <1>3, WriteSide DEF IInv, TypeOK, HandHeld, At
<1>4. CASE /\ Len(in.ch) < WriteCap /\ UNCHANGED pc
           /\ in' = [in EXCEPT !.ch = Append(@, written + 1)]
  <2>1. /\ in' \in [ch : Seq(1..MaxMoves), closed : BOOLEAN, hand : 0..MaxMoves]
        /\ in'.closed = in.closed /\ in'.hand = in.hand
        /\ in'.ch = Append(in.ch, written + 1)
    <3>1. Append(in.ch, written + 1) \in Seq(1..MaxMoves)
      BY <1>1, <1>2
    <3> QED
      BY <1>2, <1>4, <3>1
  <2>2. Len(in'.ch) <= WriteCap
    BY <1>1, <1>2, <1>4, <2>1
  <2>3. HandHeld'
    BY <1>4, <2>1, HandKept
  <2>4. /\ pc' \in Labels /\ taken' \in Seq(1..MaxMoves)
        /\ written' \in 0..MaxMoves /\ written' - written <= moves' - moves
    BY SMTT(30), <1>1, <1>2, <1>4 DEF IInv, TypeOK
  <2> QED
    BY <1>1, <1>4, <2>1, <2>2, <2>3, <2>4, WriteSide
<1>5. CASE /\ in' = [in EXCEPT !.hand = written + 1]
           /\ Goto("speaker", "drop")
  <2>1. /\ in' \in [ch : Seq(1..MaxMoves), closed : BOOLEAN, hand : 0..MaxMoves]
        /\ in'.closed = in.closed /\ in'.hand = written + 1 /\ in'.ch = in.ch
    BY <1>1, <1>2, <1>5
  <2>2. /\ pc' \in Labels /\ pc'.speaker = "drop"
        /\ \A g \in {"handler", "reader", "player", "app", "owner"} : pc'[g] = pc[g]
    BY <1>2, <1>5 DEF Goto, Labels
  <2>3. HandHeld'
    BY <1>1, <2>1, <2>2 DEF HandHeld, At, None
  <2> QED
    BY <1>1, <1>2, <2>1, <2>2, <2>3, WriteSide DEF IInv, TypeOK
<1> QED
  BY <1>3, <1>4, <1>5 DEF Write

\* The other steps of the audioWriter are no moves.
LEMMA TailType ==
  ASSUME NEW S, NEW s \in Seq(S), s # <<>>
  PROVE  Tail(s) \in Seq(S) /\ Len(Tail(s)) = Len(s) - 1 /\ Head(s) \in S
  BY HeadTailProperties

LEMMA DropOldestInv ==
  ASSUME IInv, DropOldest  PROVE  IInv'
<1>1. /\ in \in [ch : Seq(1..MaxMoves), closed : BOOLEAN, hand : 0..MaxMoves]
      /\ WriteCap \in Nat /\ Len(in.ch) <= WriteCap /\ Len(in.ch) \in Nat
      /\ moves \in 0..MaxMoves /\ written \in 0..MaxMoves /\ MaxMoves \in Nat
  BY TransportBounds DEF IInv, TypeOK
<1>2. /\ pc' \in Labels /\ pc.speaker = "drop" /\ pc'.speaker = "put"
      /\ \A g \in {"handler", "reader", "player", "app", "owner"} : pc'[g] = pc[g]
  BY DEF DropOldest, Step, At, Goto, IInv, TypeOK, Labels
<1>3. /\ in'.ch = IF in.ch = <<>> THEN in.ch ELSE Tail(in.ch)
      /\ in'.hand = in.hand /\ in'.closed = in.closed
      /\ in' = [in EXCEPT !.ch = in'.ch]
  BY <1>1 DEF DropOldest
<1>4. in'.ch \in Seq(1..MaxMoves) /\ Len(in'.ch) <= WriteCap
  <2>1. CASE in.ch = <<>>
    BY <1>1, <1>3, <2>1
  <2>2. CASE in.ch # <<>>
    BY <1>1, <1>3, <2>2, TailType
  <2> QED
    BY <2>1, <2>2
<1>5. in' \in [ch : Seq(1..MaxMoves), closed : BOOLEAN, hand : 0..MaxMoves]
  BY <1>1, <1>3, <1>4
<1>6. HandHeld'
  BY <1>2, <1>3 DEF IInv, HandHeld, At
<1> QED
  BY SMTT(30), <1>1, <1>2, <1>3, <1>4, <1>5, <1>6, WriteSide
     DEF DropOldest, reading, IInv, TypeOK

LEMMA PutNewestInv ==
  ASSUME IInv, PutNewest  PROVE  IInv'
<1>1. /\ in \in [ch : Seq(1..MaxMoves), closed : BOOLEAN, hand : 0..MaxMoves]
      /\ WriteCap \in Nat /\ Len(in.ch) < WriteCap /\ Len(in.ch) \in Nat
      /\ moves \in 0..MaxMoves /\ written \in 0..MaxMoves /\ MaxMoves \in Nat
  BY TransportBounds DEF IInv, TypeOK, PutNewest
<1>2. /\ pc' \in Labels /\ pc.speaker = "put" /\ pc'.speaker = "idle"
      /\ \A g \in {"handler", "reader", "player", "app", "owner"} : pc'[g] = pc[g]
  BY DEF PutNewest, Step, At, Goto, IInv, TypeOK, Labels
<1>3. in.hand \in 1..MaxMoves
  BY <1>1, <1>2 DEF IInv, HandHeld, At, None
<1>4. /\ in'.ch = Append(in.ch, in.hand) /\ in'.hand = None
      /\ in'.closed = in.closed
      /\ in' = [in EXCEPT !.ch = in'.ch, !.hand = None]
  BY <1>1 DEF PutNewest
<1>5. in'.ch \in Seq(1..MaxMoves) /\ Len(in'.ch) <= WriteCap
  BY <1>1, <1>3, <1>4
<1>6. in' \in [ch : Seq(1..MaxMoves), closed : BOOLEAN, hand : 0..MaxMoves]
  <2>1. None \in 0..MaxMoves
    BY <1>1 DEF None
  <2> QED
    BY <1>1, <1>4, <1>5, <2>1
<1>7. HandHeld'
  BY <1>2, <1>4 DEF HandHeld, At
<1> QED
  BY SMTT(30), <1>1, <1>2, <1>4, <1>5, <1>6, <1>7, WriteSide
     DEF PutNewest, reading, IInv, TypeOK

LEMMA WriterTakesInv ==
  ASSUME IInv, WriterTakes  PROVE  IInv'
<1>1. /\ in \in [ch : Seq(1..MaxMoves), closed : BOOLEAN, hand : 0..MaxMoves]
      /\ WriteCap \in Nat /\ Len(in.ch) <= WriteCap /\ Len(in.ch) \in Nat
      /\ moves \in 0..MaxMoves /\ written \in 0..MaxMoves /\ MaxMoves \in Nat
      /\ in.ch # <<>> /\ taken \in Seq(1..MaxMoves)
  BY TransportBounds DEF IInv, TypeOK, WriterTakes
<1>2. /\ pc' \in Labels /\ pc'.speaker = pc.speaker
      /\ \A g \in {"handler", "reader", "player", "app", "owner"} : pc'[g] = pc[g]
  BY DEF WriterTakes, At, Goto, IInv, TypeOK, Labels
<1>3. /\ in'.ch = Tail(in.ch) /\ in'.hand = in.hand /\ in'.closed = in.closed
      /\ in' = [in EXCEPT !.ch = in'.ch]
  BY <1>1 DEF WriterTakes
<1>4. /\ in'.ch \in Seq(1..MaxMoves) /\ Len(in'.ch) <= WriteCap
      /\ Head(in.ch) \in 1..MaxMoves
  BY <1>1, <1>3, TailType
<1>5. in' \in [ch : Seq(1..MaxMoves), closed : BOOLEAN, hand : 0..MaxMoves]
  BY <1>1, <1>3, <1>4
<1>6. taken' \in Seq(1..MaxMoves)
  BY <1>1, <1>4 DEF WriterTakes
<1>7. HandHeld'
  BY <1>2, <1>3, HandKept
<1> QED
  BY SMTT(30), <1>1, <1>2, <1>3, <1>4, <1>5, <1>6, <1>7, WriteSide
     DEF WriterTakes, reading, IInv, TypeOK
-----------------------------------------------------------------------------
(* Read and the delivery of chunks.                                        *)

Byte == (1..MaxMoves) \X (1..Size)

LEMMA ChunkBytes ==
  ASSUME NEW c \in 1..MaxMoves
  PROVE  /\ Bytes(c) \in Seq(Byte) /\ Len(Bytes(c)) = Size
         /\ \A i \in 1..Size : Bytes(c)[i] = <<c, i>>
<1>1. \A i \in 1..Size : <<c, i>> \in Byte
  BY DEF Byte
<1>2. Bytes(c) \in [1..Size -> Byte]
  BY <1>1 DEF Bytes
<1> QED
  BY <1>2, TransportBounds DEF Bytes

\* What is returned and what is kept make up the whole.
LEMMA Split ==
  ASSUME NEW s \in Seq(Byte), NEW n \in 1..Size
  PROVE  /\ FirstBytes(s, n) \in Seq(Byte) /\ Rest(s, n) \in Seq(Byte)
         /\ FirstBytes(s, n) \o Rest(s, n) = s
         /\ Len(Rest(s, n)) < Size \/ Len(s) > Size
         /\ Len(Rest(s, n)) <= Len(s)
<1>1. Len(s) \in Nat /\ n \in Nat /\ n >= 1 /\ Size \in Nat
  BY TransportBounds
<1>2. PICK k \in 0..Len(s) : k = IF n < Len(s) THEN n ELSE Len(s)
  BY <1>1
<1>3. FirstBytes(s, n) = SubSeq(s, 1, k)
  BY <1>2 DEF FirstBytes
<1>4. Rest(s, n) = SubSeq(s, k + 1, Len(s))
  <2>1. CASE n < Len(s)
    BY <1>2, <2>1 DEF Rest
  <2>2. CASE ~(n < Len(s))
    <3>1. SubSeq(s, n + 1, Len(s)) = <<>>
      BY <1>1, <2>2, SubSeqEmpty
    <3>2. SubSeq(s, k + 1, Len(s)) = <<>>
      BY <1>1, <1>2, <2>2, SubSeqEmpty
    <3> QED
      BY <3>1, <3>2 DEF Rest
  <2> QED
    BY <2>1, <2>2
<1>5. SubSeq(s, 1, k) \o SubSeq(s, k + 1, Len(s)) = SubSeq(s, 1, Len(s))
  <2>1. 1 \in 1..(Len(s) + 1) /\ k \in (1 - 1)..Len(s) /\ Len(s) \in k..Len(s)
    BY <1>1, <1>2
  <2> QED
    BY <2>1, ConcatAdjacentSubSeq
<1>6. SubSeq(s, 1, Len(s)) = s
  BY SubSeqFull
<1>7. \A i \in 1..Len(s) : s[i] \in Byte
  BY ElementOfSeq
<1>8. SubSeq(s, 1, k) \in Seq(Byte) /\ SubSeq(s, k + 1, Len(s)) \in Seq(Byte)
  BY <1>1, <1>2, <1>7, SubSeqProperties
<1>9. Len(SubSeq(s, k + 1, Len(s))) = Len(s) - k
  <2>1. k + 1 \in Int /\ Len(s) \in Int /\ \A i \in (k + 1)..Len(s) : s[i] \in Byte
    BY <1>1, <1>2, <1>7
  <2>2. Len(SubSeq(s, k + 1, Len(s)))
          = IF k + 1 <= Len(s) THEN Len(s) - (k + 1) + 1 ELSE 0
    BY <2>1, SubSeqProperties
  <2>3. k \in Nat /\ k <= Len(s)
    BY <1>1, <1>2
  <2>4. CASE k = Len(s)
    BY <1>1, <2>2, <2>3, <2>4
  <2>5. CASE k < Len(s)
    BY <1>1, <2>2, <2>3, <2>5
  <2> QED
    BY <1>1, <2>3, <2>4, <2>5
<1>10. /\ Len(s) - k < Size \/ Len(s) > Size
       /\ Len(s) - k <= Len(s)
  BY <1>1, <1>2
<1> QED
  BY ZenonT(30), <1>3, <1>4, <1>5, <1>6, <1>8, <1>9, <1>10

\* Bytes that move to the end of what has been read stay in their place.
LEMMA Regroup ==
  ASSUME NEW s \in Seq(Byte), NEW t \in Seq(Byte), NEW u \in Seq(Byte)
  PROVE  s \o t \in Seq(Byte) /\ (s \o t) \o u = s \o (t \o u)
  BY SMTT(30), ConcatProperties, ConcatAssociative

\* One more chunk.
LEMMA BytesExtend ==
  ASSUME NEW m \in Nat, m + 1 \in 1..MaxMoves, NEW s \in Seq(Byte),
         BytesOfFirst(m, s)
  PROVE  BytesOfFirst(m + 1, s \o Bytes(m + 1))
<1> DEFINE b == Bytes(m + 1)
           t == s \o b
<1>1. b \in Seq(Byte) /\ Len(b) = Size /\ \A i \in 1..Size : b[i] = <<m + 1, i>>
  BY ChunkBytes
<1> HIDE DEF b
<1>2. /\ t \in Seq(Byte) /\ Len(t) = Len(s) + Size /\ Len(s) \in Nat
      /\ Size \in Nat /\ Size >= 1
      /\ \A i \in 1..Len(s) : t[i] = s[i]
      /\ \A i \in 1..Size : t[Len(s) + i] = <<m + 1, i>>
  <2>1. \A i \in 1..(Len(s) + Size) :
          t[i] = IF i <= Len(s) THEN s[i] ELSE b[i - Len(s)]
    BY <1>1, ConcatProperties
  <2>2. Len(s) \in Nat /\ Size \in Nat /\ Size >= 1
    BY TransportBounds
  <2>3. t \in Seq(Byte) /\ Len(t) = Len(s) + Size
    BY <1>1, ConcatProperties
  <2>4. \A i \in 1..Size : t[Len(s) + i] = b[i]
    <3> SUFFICES ASSUME NEW i \in 1..Size  PROVE t[Len(s) + i] = b[i]
      OBVIOUS
    <3>1. /\ Len(s) + i \in 1..(Len(s) + Size) /\ ~(Len(s) + i <= Len(s))
          /\ Len(s) + i - Len(s) = i
      BY <2>2
    <3> HIDE DEF t
    <3> QED
      BY <2>1, <3>1
  <2>5. \A i \in 1..Len(s) : t[i] = s[i]
    BY <2>1, <2>2
  <2> QED
    BY <1>1, <2>2, <2>3, <2>4, <2>5
<1> HIDE DEF t
<1>3. t # <<>> /\ t[Len(t)] = <<m + 1, Size>>
  <2>1. Len(t) # 0 /\ Size \in 1..Size
    BY <1>2
  <2>2. t # <<>>
    BY <2>1
  <2> QED
    BY <1>2, <2>1, <2>2
<1>4. t[1] = <<1, 1>>
  <2>1. CASE m = 0 /\ s = <<>>
    <3>1. Len(s) = 0
      BY <2>1
    <3>2. t[Len(s) + 1] = <<m + 1, 1>>
      BY <1>2
    <3> QED
      BY <2>1, <3>1, <3>2
  <2>2. CASE s # <<>> /\ s[1] = <<1, 1>>
    BY <1>2, <2>2
  <2> QED
    BY <2>1, <2>2 DEF BytesOfFirst
<1>5. ASSUME NEW i \in 1..(Len(t) - 1)  PROVE t[i + 1] = NextByte(t[i])
  <2>1. CASE i < Len(s)
    <3>1. i \in 1..(Len(s) - 1) /\ t[i] = s[i] /\ t[i + 1] = s[i + 1] /\ s # <<>>
      BY SMTT(30), <1>2, <2>1
    <3> QED
      BY <3>1 DEF BytesOfFirst
  <2>2. CASE i = Len(s)
    <3>1. s # <<>> /\ t[i] = s[Len(s)] /\ t[i + 1] = <<m + 1, 1>>
      BY <1>2, <2>2
    <3>2. s[Len(s)] = <<m, Size>>
      BY <3>1 DEF BytesOfFirst
    <3> QED
      BY <3>1, <3>2, <1>2 DEF NextByte
  <2>3. CASE i > Len(s)
    <3>1. PICK j \in 1..(Size - 1) : i = Len(s) + j
      <4>1. i - Len(s) \in 1..(Size - 1) /\ i = Len(s) + (i - Len(s))
        BY <1>2, <2>3
      <4> QED
        BY <4>1
    <3>2. t[i] = <<m + 1, j>> /\ t[i + 1] = <<m + 1, j + 1>>
      <4>1. j \in 1..Size /\ j + 1 \in 1..Size /\ i + 1 = Len(s) + (j + 1)
        BY <1>2, <3>1
      <4> QED
        BY <1>2, <3>1, <4>1
    <3> QED
      BY <1>2, <3>1, <3>2 DEF NextByte
  <2> QED
    BY SMTT(30), <1>2, <2>1, <2>2, <2>3
<1>6. BytesOfFirst(m + 1, t)
  BY <1>3, <1>4, <1>5 DEF BytesOfFirst
<1> QED
  BY <1>6 DEF t, b

\* A step of the player leaves the write side and the closing alone.
LEMMA ReadSide ==
  ASSUME IInv, pc' \in Labels, moves' \in 0..MaxMoves, moves <= moves',
         \A g \in {"handler", "reader", "speaker", "app", "owner"} : pc'[g] = pc[g],
         UNCHANGED <<conn, provider, events, in, written, taken, accepted, panic>>,
         out' \in [ch : Seq(1..MaxMoves), buffer : Seq(Byte)],
         Len(out'.ch) <= ReadCap, Len(out'.buffer) < Size, read' \in Seq(Byte),
         ByteFlow'
  PROVE  IInv'
<1>1. TypeOK'
  BY DEF IInv, TypeOK, Byte
<1>2. CloseProgress' /\ Returned' /\ RemoteOnly' /\ HandHeld'
  BY DEF IInv, CloseProgress, Returned, RemoteOnly, HandHeld, At
<1>3. Counted'
  <2>1. moves \in Nat /\ moves' \in Nat /\ written \in Nat /\ Len(accepted) \in Nat
    BY TransportBounds DEF IInv, TypeOK
  <2> QED
    BY <2>1 DEF IInv, Counted, At
<1> QED
  BY <1>1, <1>2, <1>3 DEF IInv

\* What a step of the player starts from.
LEMMA ReadTypes ==
  ASSUME IInv
  PROVE  /\ out \in [ch : Seq(1..MaxMoves), buffer : Seq(Byte)]
         /\ read \in Seq(Byte) /\ Len(out.ch) \in Nat /\ Len(out.ch) <= ReadCap
         /\ ReadCap \in Nat /\ Len(out.buffer) \in Nat /\ Len(out.buffer) < Size
         /\ Size \in Nat /\ Len(accepted) \in Nat /\ Len(accepted) <= MaxMoves
         /\ Len(out.ch) <= Len(accepted) /\ MaxMoves \in Nat
         /\ moves \in 0..MaxMoves /\ moves <= moves
<1>1. /\ out \in [ch : Seq(1..MaxMoves), buffer : Seq(Byte)]
      /\ read \in Seq(Byte) /\ Len(out.ch) <= ReadCap
      /\ Len(out.buffer) < Size
      /\ Len(out.ch) <= Len(accepted) /\ moves \in 0..MaxMoves
      /\ accepted \in Seq(1..MaxMoves) /\ written \in 0..MaxMoves
  BY DEF IInv, TypeOK, ByteFlow, Byte
<1>2. /\ Len(out.ch) \in Nat /\ Len(out.buffer) \in Nat /\ Len(accepted) \in Nat
      /\ ReadCap \in Nat /\ Size \in Nat /\ MaxMoves \in Nat
  BY <1>1, TransportBounds
<1>3. Len(accepted) <= MaxMoves
  BY SMTT(30), <1>1, <1>2 DEF IInv, Counted
<1> QED
  BY <1>1, <1>2, <1>3

LEMMA ReadInv ==
  ASSUME IInv, NEW n \in 1..Size, Read(n)  PROVE  IInv'
<1>1. /\ pc.player = "idle" /\ moves' \in 0..MaxMoves /\ moves <= moves'
      /\ UNCHANGED <<conn, provider, events, in, written, taken, accepted, panic>>
  BY MovedType, ReadTypes DEF Read, At, writing, Moved
<1>2. CASE /\ read' = read \o FirstBytes(out.buffer, n)
           /\ out' = [out EXCEPT !.buffer = Rest(@, n)] /\ UNCHANGED pc
  <2>1. /\ out'.ch = out.ch /\ out'.buffer = Rest(out.buffer, n)
        /\ out' = [out EXCEPT !.buffer = out'.buffer]
    BY <1>2, ReadTypes
  <2>2. /\ FirstBytes(out.buffer, n) \in Seq(Byte) /\ Rest(out.buffer, n) \in Seq(Byte)
        /\ FirstBytes(out.buffer, n) \o Rest(out.buffer, n) = out.buffer
        /\ Len(Rest(out.buffer, n)) <= Len(out.buffer)
    BY Split, ReadTypes
  <2>3. read' \in Seq(Byte) /\ read' \o out'.buffer = read \o out.buffer
    <3> DEFINE f == FirstBytes(out.buffer, n)
               r == Rest(out.buffer, n)
    <3> HIDE DEF f, r
    <3>0. read \in Seq(Byte)
      BY ReadTypes
    <3>1. f \in Seq(Byte) /\ r \in Seq(Byte) /\ f \o r = out.buffer
      BY <2>2 DEF f, r
    <3>2. read \o f \in Seq(Byte) /\ (read \o f) \o r = read \o (f \o r)
      BY <3>0, <3>1, Regroup
    <3>3. read' = read \o f /\ out'.buffer = r
      BY <1>2, <2>1 DEF f, r
    <3> QED
      BY <3>1, <3>2, <3>3
  <2>4. /\ out' \in [ch : Seq(1..MaxMoves), buffer : Seq(Byte)]
        /\ Len(out'.ch) <= ReadCap
    BY <2>1, <2>2, ReadTypes
  <2>5. Len(out'.buffer) < Size
    <3>1. Len(Rest(out.buffer, n)) \in Nat
      BY <2>2
    <3> QED
      BY <2>1, <2>2, <3>1, ReadTypes
  <2>6. ByteFlow'
    BY ZenonT(30), <1>1, <1>2, <2>1, <2>3 DEF IInv, ByteFlow, ReadsEveryByte, BytesOfFirst, At
  <2> QED
    BY <1>1, <1>2, <2>3, <2>4, <2>5, <2>6, ReadSide DEF IInv, TypeOK
<1>3. CASE out.buffer = <<>> /\ Goto("player", "wait") /\ UNCHANGED <<read, out>>
  <2>1. /\ pc' \in Labels /\ pc'.player = "wait"
        /\ \A g \in {"handler", "reader", "speaker", "app", "owner"} : pc'[g] = pc[g]
    BY <1>3 DEF Goto, IInv, TypeOK, Labels
  <2>2. ByteFlow'
    BY <1>1, <1>3, <2>1 DEF IInv, ByteFlow, ReadsEveryByte, BytesOfFirst, At
  <2> QED
    BY <1>1, <1>3, <2>1, <2>2, ReadSide, ReadTypes
<1> QED
  BY <1>2, <1>3 DEF Read

LEMMA ReadChunkInv ==
  ASSUME IInv, NEW n \in 1..Size, ReadChunk(n)  PROVE  IInv'
<1> DEFINE c == Head(out.ch)
           left == Len(accepted) - Len(out.ch)
<1>1. /\ pc.player = "wait" /\ out.ch # <<>>
      /\ read' = read \o FirstBytes(Bytes(c), n)
      /\ out' = [ch |-> Tail(out.ch), buffer |-> Rest(Bytes(c), n)]
      /\ Goto("player", "idle")
      /\ UNCHANGED <<conn, provider, events, in, written, taken, accepted,
                     moves, panic>>
  BY DEF ReadChunk, At, writing
<1>2. /\ c \in 1..MaxMoves /\ c = out.ch[1]
      /\ Tail(out.ch) \in Seq(1..MaxMoves) /\ Len(Tail(out.ch)) = Len(out.ch) - 1
      /\ \A i \in 1..Len(Tail(out.ch)) : Tail(out.ch)[i] = out.ch[i + 1]
      /\ Len(out.ch) >= 1
  BY <1>1, ReadTypes, HeadTailProperties
<1>3. /\ left \in Nat /\ c = left + 1
      /\ \A i \in 1..Len(out.ch) : out.ch[i] = left + i
      /\ BytesOfFirst(left, read \o out.buffer) /\ out.buffer = <<>>
  <2>1. left \in Nat
    BY ReadTypes
  <2>2. out.buffer = <<>>
    BY <1>1 DEF IInv, ByteFlow, At
  <2>3. /\ BytesOfFirst(left, read \o out.buffer)
        /\ \A i \in DOMAIN out.ch : out.ch[i] = left + i
    BY DEF IInv, ByteFlow, ReadsEveryByte
  <2>4. DOMAIN out.ch = 1..Len(out.ch)
    BY ReadTypes
  <2>5. 1 \in 1..Len(out.ch)
    BY <1>2, ReadTypes
  <2> HIDE DEF left
  <2>6. \A i \in 1..Len(out.ch) : out.ch[i] = left + i
    BY <2>3, <2>4
  <2>7. c = left + 1
    BY <1>2, <2>5, <2>6
  <2> QED
    BY <2>1, <2>2, <2>3, <2>6, <2>7
<1> HIDE DEF c
<1>4. Bytes(c) \in Seq(Byte) /\ Len(Bytes(c)) = Size
  BY <1>2, ChunkBytes
<1>5. /\ FirstBytes(Bytes(c), n) \in Seq(Byte) /\ Rest(Bytes(c), n) \in Seq(Byte)
      /\ FirstBytes(Bytes(c), n) \o Rest(Bytes(c), n) = Bytes(c)
      /\ Len(Rest(Bytes(c), n)) < Size
  <2>1. Len(Bytes(c)) = Size /\ Size \in Nat /\ ~(Size > Size)
    BY <1>4, ReadTypes
  <2>2. /\ FirstBytes(Bytes(c), n) \in Seq(Byte) /\ Rest(Bytes(c), n) \in Seq(Byte)
        /\ FirstBytes(Bytes(c), n) \o Rest(Bytes(c), n) = Bytes(c)
        /\ Len(Rest(Bytes(c), n)) < Size \/ Len(Bytes(c)) > Size
    BY <1>4, Split
  <2> QED
    BY <2>1, <2>2
<1>6. /\ out'.ch = Tail(out.ch) /\ out'.buffer = Rest(Bytes(c), n)
      /\ out' \in [ch : Seq(1..MaxMoves), buffer : Seq(Byte)]
  BY <1>1, <1>2, <1>5
<1>7. /\ read' \in Seq(Byte) /\ read' \o out'.buffer = read \o Bytes(c)
  <2> DEFINE f == FirstBytes(Bytes(c), n)
             r == Rest(Bytes(c), n)
  <2> HIDE DEF f, r
  <2>0. read \in Seq(Byte)
    BY ReadTypes
  <2>1. f \in Seq(Byte) /\ r \in Seq(Byte) /\ f \o r = Bytes(c)
    BY <1>5 DEF f, r
  <2>2. read \o f \in Seq(Byte) /\ (read \o f) \o r = read \o (f \o r)
    BY <2>0, <2>1, Regroup
  <2>3. read' = read \o f /\ out'.buffer = r
    BY <1>1, <1>6 DEF f, r
  <2> QED
    BY <2>1, <2>2, <2>3
<1>8. /\ pc' \in Labels /\ pc'.player = "idle"
      /\ \A g \in {"handler", "reader", "speaker", "app", "owner"} : pc'[g] = pc[g]
  BY <1>1 DEF Goto, IInv, TypeOK, Labels
<1>9. BytesOfFirst(left + 1, read' \o out'.buffer)
  <2>1. read \o out.buffer = read
    BY <1>3, ReadTypes, ConcatEmptySeq
  <2> QED
    BY <1>2, <1>3, <1>7, <2>1, BytesExtend, ReadTypes
<1>10. /\ (Len(accepted) - Len(out.ch))' = left + 1
       /\ Len(out'.ch) <= ReadCap /\ Len(out'.ch) <= Len(accepted)
  BY SMTT(30), <1>1, <1>2, <1>6, ReadTypes
<1>11. \A i \in DOMAIN out'.ch : out'.ch[i] = left + 1 + i
  <2>1. DOMAIN out'.ch = 1..(Len(out.ch) - 1)
    BY <1>2, <1>6
  <2> SUFFICES ASSUME NEW i \in 1..(Len(out.ch) - 1)
               PROVE  out'.ch[i] = left + 1 + i
    BY <2>1
  <2>2. out'.ch[i] = out.ch[i + 1] /\ i + 1 \in 1..Len(out.ch)
    BY <1>2, <1>6, ReadTypes
  <2> HIDE DEF left
  <2>3. left \in Nat /\ i \in Nat /\ out.ch[i + 1] = left + (i + 1)
    <3>1. i \in Nat
      BY ReadTypes
    <3>2. \A j \in 1..Len(out.ch) : out.ch[j] = left + j
      BY <1>3
    <3>3. out.ch[i + 1] = left + (i + 1)
      BY <2>2, <3>2
    <3> QED
      BY <1>3, <3>1, <3>3
  <2>4. left + (i + 1) = left + 1 + i
    BY <2>3
  <2> QED
    BY <2>2, <2>3, <2>4
<1>12. ByteFlow'
  BY ZenonT(30), <1>1, <1>8, <1>9, <1>10, <1>11 DEF ByteFlow, ReadsEveryByte, BytesOfFirst, At
<1> QED
  BY <1>1, <1>5, <1>6, <1>7, <1>8, <1>10, <1>12, ReadSide, ReadTypes

LEMMA ReadEndInv ==
  ASSUME IInv, ReadEnd  PROVE  IInv'
<1>1. /\ pc' \in Labels /\ pc.player = "wait" /\ pc'.player = "eof"
      /\ \A g \in {"handler", "reader", "speaker", "app", "owner"} : pc'[g] = pc[g]
  BY DEF ReadEnd, Step, At, Goto, IInv, TypeOK, Labels
<1>2. /\ conn.outClosed /\ out.ch = <<>>
      /\ UNCHANGED <<conn, provider, events, in, written, taken, accepted,
                     out, read, moves, panic>>
  BY DEF ReadEnd, writing, reading
<1>3. ByteFlow'
  BY <1>1, <1>2 DEF IInv, ByteFlow, ReadsEveryByte, BytesOfFirst, At
<1> QED
  BY <1>1, <1>2, <1>3, ReadSide, ReadTypes

\* The read loop hands a chunk to the channel, or drops it.
LEMMA DeliverInv ==
  ASSUME IInv, Deliver, panic = "none"  PROVE  IInv'
<1>0. /\ pc.reader = "media"
      /\ UNCHANGED <<conn, provider, events, in, written, taken, read, moves>>
  BY DEF Deliver, At, writing
<1>1. CASE conn.outClosed /\ panic' = "audioOut" /\ UNCHANGED <<pc, out, accepted>>
  <2>1. TypeOK'
    BY <1>0, <1>1 DEF IInv, TypeOK
  <2>2. CloseProgress' /\ Returned' /\ HandHeld' /\ Counted'
    BY <1>0, <1>1 DEF IInv, CloseProgress, Returned, HandHeld, Counted, At
  <2>3. RemoteOnly'
    BY <1>0, <1>1 DEF IInv, RemoteOnly, CloseProgress, At
  <2>4. ByteFlow'
    BY <1>0, <1>1, BytesKept
  <2> QED
    BY <2>1, <2>2, <2>3, <2>4 DEF IInv
<1>2. CASE ~conn.outClosed /\ Goto("reader", "top") /\ UNCHANGED panic
  <2>1. /\ pc' \in Labels /\ pc'.reader = "top"
        /\ \A g \in {"handler", "speaker", "player", "app", "owner"} : pc'[g] = pc[g]
    BY <1>2 DEF Goto, IInv, TypeOK, Labels
  <2>2. CloseProgress' /\ Returned' /\ RemoteOnly' /\ HandHeld'
    BY <1>0, <1>2, <2>1 DEF IInv, CloseProgress, Returned, RemoteOnly, HandHeld, At
  <2>3. written + Len(accepted) + 1 <= moves /\ written \in Nat
    BY <1>0, TransportBounds DEF IInv, TypeOK, Counted, At
  <2>4. CASE UNCHANGED <<out, accepted>>
    <3>1. TypeOK'
      BY <1>0, <1>2, <2>1, <2>4 DEF IInv, TypeOK
    <3>2. Counted'
      <4>1. written + Len(accepted) + 0 <= moves
        BY SMTT(30), <2>3, ReadTypes
      <4> QED
        BY <1>0, <2>1, <2>4, <4>1 DEF Counted, At
    <3>3. ByteFlow'
      BY <1>0, <2>1, <2>4, BytesKept
    <3> QED
      BY <2>2, <3>1, <3>2, <3>3 DEF IInv
  <2>5. CASE /\ Len(out.ch) < ReadCap
             /\ out' = [out EXCEPT !.ch = Append(@, Len(accepted) + 1)]
             /\ accepted' = Append(accepted, Len(accepted) + 1)
    <3> DEFINE k == Len(accepted) + 1
    <3>1. k \in 1..MaxMoves
      BY SMTT(30), <2>3, ReadTypes
    <3>2. accepted \in Seq(1..MaxMoves)
      BY DEF IInv, TypeOK
    <3> HIDE DEF k
    <3>3. /\ out'.ch = Append(out.ch, k) /\ out'.buffer = out.buffer
          /\ out' = [out EXCEPT !.ch = Append(out.ch, k)]
          /\ accepted' = Append(accepted, k)
      BY <2>5, ReadTypes DEF k
    <3>4. /\ Append(out.ch, k) \in Seq(1..MaxMoves)
          /\ Len(Append(out.ch, k)) = Len(out.ch) + 1
          /\ Append(out.ch, k)[Len(out.ch) + 1] = k
          /\ \A i \in 1..Len(out.ch) : Append(out.ch, k)[i] = out.ch[i]
      BY <3>1, ReadTypes, AppendProperties
    <3>5. accepted' \in Seq(1..MaxMoves) /\ Len(accepted') = Len(accepted) + 1
      BY <3>1, <3>2, <3>3, AppendProperties
    <3>6. /\ out' \in [ch : Seq(1..MaxMoves), buffer : Seq(Byte)]
          /\ Len(out'.ch) <= ReadCap
      <4>1. out.buffer \in Seq(Byte) /\ out = [ch |-> out.ch, buffer |-> out.buffer]
        BY ReadTypes
      <4>2. out' = [ch |-> Append(out.ch, k), buffer |-> out.buffer]
        BY <3>3, <4>1
      <4>3. Len(out.ch) + 1 <= ReadCap
        BY SMTT(30), <2>5, ReadTypes
      <4> QED
        BY <3>3, <3>4, <4>1, <4>2, <4>3
    <3>7. TypeOK'
      BY <1>0, <1>2, <2>1, <3>3, <3>5, <3>6 DEF IInv, TypeOK, Byte
    <3>8. Counted'
      <4>1. written + Len(accepted') + 0 <= moves
        BY <2>3, <3>5, ReadTypes
      <4> QED
        BY <1>0, <2>1, <4>1 DEF Counted, At
    <3>9. ByteFlow'
      <4>1. Len(accepted') - Len(out'.ch) = Len(accepted) - Len(out.ch)
        BY <3>3, <3>4, <3>5, ReadTypes
      <4>2. \A i \in DOMAIN out'.ch :
              out'.ch[i] = Len(accepted) - Len(out.ch) + i
        <5>1. DOMAIN out'.ch = 1..(Len(out.ch) + 1)
          BY <3>3, <3>4
        <5>2. \A i \in 1..Len(out.ch) : out.ch[i] = Len(accepted) - Len(out.ch) + i
          <6>1. \A i \in DOMAIN out.ch : out.ch[i] = Len(accepted) - Len(out.ch) + i
            BY DEF IInv, ByteFlow, ReadsEveryByte
          <6>2. DOMAIN out.ch = 1..Len(out.ch)
            BY ReadTypes
          <6> QED
            BY <6>1, <6>2
        <5>3. k = Len(accepted) - Len(out.ch) + (Len(out.ch) + 1)
          BY ReadTypes DEF k
        <5>4. \A i \in 1..(Len(out.ch) + 1) : i \in 1..Len(out.ch) \/ i = Len(out.ch) + 1
          BY SMTT(30), ReadTypes
        <5> QED
          BY <3>3, <3>4, <5>1, <5>2, <5>3, <5>4
      <4>3. Len(out'.ch) <= Len(accepted')
        BY <3>3, <3>4, <3>5, ReadTypes
      <4>4. ~At("player", "eof") /\ pc'.player = pc.player
        BY <1>2, <2>1 DEF IInv, ByteFlow
      <4> QED
        BY <1>0, <3>3, <4>1, <4>2, <4>3, <4>4
           DEF IInv, ByteFlow, ReadsEveryByte, BytesOfFirst, At
    <3> QED
      BY <2>2, <3>7, <3>8, <3>9 DEF IInv
  <2> QED
    BY <1>2, <2>4, <2>5 DEF Deliver
<1> QED
  BY <1>1, <1>2 DEF Deliver
-----------------------------------------------------------------------------
LEMMA InitInv == Init => IInv
<1> SUFFICES ASSUME Init  PROVE IInv
  OBVIOUS
<1>1. TypeOK
  BY TransportBounds DEF Init, TypeOK, Labels, Connections, None
<1>2. CloseProgress /\ Returned /\ RemoteOnly /\ HandHeld
  BY DEF Init, CloseProgress, Returned, RemoteOnly, HandHeld, At, None
<1>3. Counted
  BY DEF Init, Counted, At
<1>4. ByteFlow
  <2>1. read \o out.buffer = <<>> /\ Len(accepted) - Len(out.ch) = 0
    BY DEF Init
  <2>2. BytesOfFirst(0, <<>>)
    BY DEF BytesOfFirst
  <2>3. DOMAIN out.ch = {}
    BY DEF Init
  <2>4. ReadsEveryByte
    BY <2>1, <2>2, <2>3 DEF ReadsEveryByte
  <2> QED
    BY <2>4 DEF Init, ByteFlow, At
<1> QED
  BY <1>1, <1>2, <1>3, <1>4 DEF IInv

LEMMA NextInv == IInv /\ [Next]_vars => IInv'
<1> SUFFICES ASSUME IInv, [Next]_vars  PROVE IInv'
  OBVIOUS
<1>1. CASE UNCHANGED vars
  <2>1. UNCHANGED <<pc, conn, provider, events, in, written, taken, out,
                    accepted, read, moves, panic>>
    BY <1>1 DEF vars, writing, reading
  <2>2. ByteFlow'
    BY <2>1, BytesKept
  <2>3. TypeOK' /\ CloseProgress' /\ Returned' /\ RemoteOnly' /\ HandHeld' /\ Counted'
    BY <2>1 DEF IInv, TypeOK, CloseProgress, Returned, RemoteOnly, HandHeld,
                Counted, At
  <2> QED
    BY <2>2, <2>3 DEF IInv
<1>2. CASE panic = "none" /\ Reader
  BY <1>2, ReaderMovesInv, ListInv, DeliverInv, SendEventInv,
     CallCloseReaderInv, CloseReturnsInv DEF Reader
<1>3. CASE panic = "none" /\ Program
  BY <1>2, <1>3, HandlerInv, CloseBodyInv, DropOldestInv, PutNewestInv,
     WriterTakesInv, WriterStopsInv, ReadEndInv, ReadChunkInv,
     CloseReturnsInv, OwnerClosesConnInv, OwnerUnlocksInv, AppReceivesInv
     DEF Program
<1>4. CASE panic = "none" /\ Telnyx
  BY <1>4, ReaderMovesInv, ReceiveStartInv, ReceiveMediaInv, TelnyxHangsUpInv
     DEF Telnyx
<1>5. CASE panic = "none" /\ Environment
  BY <1>4, <1>5, WriteInv, AppClosesInv, OwnerLocksInv, ReadInv DEF Environment
<1> QED
  BY <1>1, <1>3, <1>5 DEF Next

\* Whatever the loops, Write, Read and the closes do, the fields show how far
\* the close has come, and every byte is accounted for.
THEOREM Inductive == Spec => []IInv
  BY InitInv, NextInv, PTL DEF Spec
-----------------------------------------------------------------------------
\* Every variable keeps its type: the channels stay within their capacities,
\* and the reader keeps less than one chunk.
THEOREM TypeCorrect == Spec => []TypeOK
<1>1. IInv => TypeOK
  BY DEF IInv
<1> QED
  BY <1>1, Inductive, PTL

\* Connection.Close: whichever of its callers has returned, everything is
\* closed, and the provider lists the connection no more, but for a read loop
\* in the middle of a start message.
THEOREM CloseIsComplete == Spec => []CloseComplete
<1>1. IInv => CloseComplete
  BY DEF IInv, CloseProgress, Returned, CloseComplete, At
<1> QED
  BY <1>1, Inductive, PTL

\* readLoop and its deferred Close: a stream that Telnyx ends makes no
\* goroutine send on a closed channel.
THEOREM RemoteEndClean == Spec => []RemoteEndIsClean
<1>1. IInv => RemoteEndIsClean
  BY DEF IInv, RemoteOnly, RemoteEndIsClean
<1> QED
  BY <1>1, Inductive, PTL

\* audioReader.Read returns the bytes of the accepted chunks in order, none
\* twice and none left out.
THEOREM ReadsEvery == Spec => []ReadsEveryByte
<1>1. IInv => ReadsEveryByte
  BY DEF IInv, ByteFlow
<1> QED
  BY <1>1, Inductive, PTL

\* io.EOF comes after the last byte of the last accepted chunk.
THEOREM EofLast == Spec => []EofIsLast
<1>1. IInv => EofIsLast
  <2> SUFFICES ASSUME IInv, At("player", "eof")
               PROVE  BytesOfFirst(Len(accepted), read)
    BY DEF EofIsLast
  <2>1. out.buffer = <<>> /\ out.ch = <<>>
    BY DEF IInv, ByteFlow
  <2>2. read \o out.buffer = read
    BY <2>1, ReadTypes, ConcatEmptySeq
  <2>3. Len(accepted) - Len(out.ch) = Len(accepted)
    BY <2>1, ReadTypes
  <2> QED
    BY <2>2, <2>3 DEF IInv, ByteFlow, ReadsEveryByte
<1> QED
  BY <1>1, Inductive, PTL
-----------------------------------------------------------------------------
(* Write keeps the promise of LossyQueue.                                  *)

\* A step that is none of the audioWriter's is no step of the queue.
LEMMA QueueStays ==
  ASSUME in'.ch = in.ch, in'.hand = in.hand, taken' = taken,
         pc'.speaker = pc.speaker
  PROVE  UNCHANGED Queue!vars
  BY DEF Queue!vars, At

LEMMA OthersStay ==
  ASSUME IInv, \/ Handler \/ CloseBody \/ Reader \/ WriterStops \/ ReadEnd
               \/ (\E n \in 1..Size : ReadChunk(n) \/ Read(n))
               \/ CloseReturns("app", "over") \/ OwnerClosesConn
               \/ OwnerUnlocks \/ AppReceives \/ Telnyx \/ AppCloses
               \/ OwnerLocks \/ UNCHANGED vars
  PROVE  UNCHANGED Queue!vars
<1> USE DEF Step, Goto, writing
<1>0. pc \in Labels /\ in \in [ch : Seq(1..MaxMoves), closed : BOOLEAN, hand : 0..MaxMoves]
  BY DEF IInv, TypeOK
<1>1. CASE Handler
  BY <1>0, <1>1, QueueStays DEF Handler, Lookup, Notify, Labels
<1>2. CASE CloseBody
  <2>1. in'.ch = in.ch /\ in'.hand = in.hand /\ UNCHANGED <<pc, taken>>
    BY <1>0, <1>2 DEF CloseBody, CloseFlag, CloseDone, CloseIn, CloseOut,
                      CloseEvents, CloseWs, CloseDelist
  <2> QED
    BY <2>1, QueueStays
<1>3. CASE Reader
  <2>1. UNCHANGED <<in, taken>> /\ pc'.speaker = pc.speaker
    BY <1>0, <1>3 DEF Reader, ReadTop, List, ReceiveFails, Deliver, SendEvent,
                      CallClose, CloseReturns, ReaderMoves, Labels
  <2> QED
    BY <2>1, QueueStays
<1>4. CASE \/ WriterStops \/ ReadEnd \/ OwnerClosesConn \/ OwnerUnlocks
           \/ CloseReturns("app", "over") \/ AppReceives \/ AppCloses
           \/ OwnerLocks
  <2>1. UNCHANGED <<in, taken>> /\ pc'.speaker = pc.speaker
    BY <1>0, <1>4 DEF WriterStops, ReadEnd, OwnerClosesConn, OwnerUnlocks,
                      CloseReturns, CallClose, AppReceives, AppCloses,
                      OwnerLocks, Labels
  <2> QED
    BY <2>1, QueueStays
<1>5. CASE \E n \in 1..Size : ReadChunk(n) \/ Read(n)
  <2>1. UNCHANGED <<in, taken>> /\ pc'.speaker = pc.speaker
    BY <1>0, <1>5 DEF ReadChunk, Read, Labels
  <2> QED
    BY <2>1, QueueStays
<1>6. CASE Telnyx
  <2>1. UNCHANGED <<in, taken>> /\ pc'.speaker = pc.speaker
    BY <1>0, <1>6 DEF Telnyx, ReceiveEvent, ReceiveStop, ReceiveStart,
                      ReceiveMedia, TelnyxHangsUp, ReaderMoves, Labels
  <2> QED
    BY <2>1, QueueStays
<1>7. CASE UNCHANGED vars
  BY <1>7, QueueStays DEF vars
<1> QED
  BY <1>1, <1>2, <1>3, <1>4, <1>5, <1>6, <1>7

\* Types of the audioWriter, and the item in Write's hand.
LEMMA WriterTypes ==
  ASSUME IInv
  PROVE  /\ in \in [ch : Seq(1..MaxMoves), closed : BOOLEAN, hand : 0..MaxMoves]
         /\ pc \in Labels /\ WriteCap \in Nat \ {0} /\ Len(in.ch) \in Nat
         /\ Len(in.ch) <= WriteCap
         /\ in.hand = None <=> pc.speaker = "idle"
  BY TransportBounds DEF IInv, TypeOK, HandHeld, At, Labels

LEMMA WritePuts ==
  ASSUME IInv, Write  PROVE  [Queue!Next]_Queue!vars
<1>1. /\ pc.speaker = "idle" /\ in.hand = None /\ taken' = taken
      /\ written + 1 \in 1..MaxMoves /\ written + 1 # None
  BY WriterTypes, NewItem DEF Write, At, None
<1> DEFINE x == written + 1
<1> HIDE DEF x
<1>2. CASE UNCHANGED <<pc, in>>
  BY <1>1, <1>2, QueueStays
<1>3. CASE /\ Len(in.ch) < WriteCap /\ UNCHANGED pc
           /\ in' = [in EXCEPT !.ch = Append(@, written + 1)]
  <2>1. in'.hand = None /\ in'.ch = Append(in.ch, x) /\ pc'.speaker = "idle"
    BY <1>1, <1>3, WriterTypes DEF x
  <2>2. (Len(in.ch) >= WriteCap) = FALSE
    BY <1>3, WriterTypes
  <2>3. Queue!Put(x)
    BY <1>1, <2>1, <2>2 DEF Queue!Put, At
  <2> QED
    BY <1>1, <2>3 DEF Queue!Next, x
<1>4. CASE /\ Len(in.ch) = WriteCap /\ Goto("speaker", "drop")
           /\ in' = [in EXCEPT !.hand = written + 1]
  <2>1. in'.hand = x /\ x # None /\ in'.ch = in.ch /\ pc'.speaker = "drop"
    BY <1>1, <1>4, WriterTypes DEF x, Goto, Labels
  <2>2. (Len(in.ch) >= WriteCap) = TRUE
    BY <1>4, WriterTypes
  <2>3. Queue!Put(x)
    BY <1>1, <2>1, <2>2 DEF Queue!Put, At
  <2> QED
    BY <1>1, <2>3 DEF Queue!Next, x
<1> QED
  BY <1>2, <1>3, <1>4 DEF Write

LEMMA DropGivesUp ==
  ASSUME IInv, DropOldest  PROVE  Queue!Next
<1> DEFINE h == in.hand
<1>1. /\ pc.speaker = "drop" /\ pc'.speaker = "put" /\ h # None
      /\ in'.hand = h /\ taken' = taken
      /\ in'.ch = IF in.ch = <<>> THEN in.ch ELSE Tail(in.ch)
  BY WriterTypes DEF DropOldest, Step, At, Goto, Labels
<1>2. h \in 1..MaxMoves
  BY <1>1, WriterTypes, TransportBounds DEF None
<1>3. /\ Len(Append(in.ch, h)) = Len(in.ch) + 1
      /\ Tail(Append(in.ch, h))
           = IF in.ch = <<>> THEN <<>> ELSE Append(Tail(in.ch), h)
  BY <1>2, WriterTypes, AppendProperties, HeadTailAppend
<1>4. CASE in.ch = <<>>
  <2>1. Len(Append(in.ch, h)) = 1
    BY <1>3, <1>4
  <2>2. Queue!Spare
    BY <1>1, <1>4, <2>1 DEF Queue!Spare, At
  <2> QED
    BY <2>2 DEF Queue!Next
<1>5. CASE in.ch # <<>>
  <2>1. Len(Append(in.ch, h)) > 1
    BY <1>3, <1>5, WriterTypes
  <2>2. Queue!GiveUp
    BY <1>1, <1>3, <1>5, <2>1 DEF Queue!GiveUp, At
  <2> QED
    BY <2>2 DEF Queue!Next
<1> QED
  BY <1>4, <1>5

LEMMA PutStays ==
  ASSUME IInv, PutNewest  PROVE  UNCHANGED Queue!vars
<1>1. /\ pc.speaker = "put" /\ pc'.speaker = "idle" /\ in.hand # None
      /\ in'.hand = None /\ taken' = taken /\ in'.ch = Append(in.ch, in.hand)
  BY WriterTypes DEF PutNewest, Step, At, Goto, Labels
<1> QED
  BY <1>1 DEF Queue!vars, At

LEMMA WriterTakesOne ==
  ASSUME IInv, WriterTakes  PROVE  Queue!Next
<1> DEFINE h == in.hand
<1>1. /\ in.ch # <<>> /\ in'.ch = Tail(in.ch) /\ in'.hand = h
      /\ taken' = Append(taken, Head(in.ch)) /\ pc'.speaker = pc.speaker
  BY WriterTypes DEF WriterTakes, Goto, Labels
<1>2. CASE h = None
  <2>1. pc.speaker = "idle"
    BY <1>2, WriterTypes
  <2>2. Queue!Take
    BY <1>1, <1>2, <2>1 DEF Queue!Take, At
  <2> QED
    BY <2>2 DEF Queue!Next
<1>3. CASE h # None
  <2>1. h \in 1..MaxMoves
    BY <1>3, WriterTypes, TransportBounds DEF None
  <2>2. /\ Len(Append(in.ch, h)) = Len(in.ch) + 1
        /\ Append(in.ch, h) # <<>>
        /\ Head(Append(in.ch, h)) = Head(in.ch)
        /\ Tail(Append(in.ch, h)) = Append(Tail(in.ch), h)
    BY <1>1, <2>1, WriterTypes, AppendProperties, HeadTailAppend
  <2>3. Len(Append(in.ch, h)) > 1
    BY <1>1, <2>2, WriterTypes
  <2>4. Queue!Take
    BY <1>1, <1>3, <2>2, <2>3 DEF Queue!Take, At
  <2> QED
    BY <2>4 DEF Queue!Next
<1> QED
  BY <1>2, <1>3

LEMMA QueueStep ==
  ASSUME IInv, [Next]_vars  PROVE  [Queue!Next]_Queue!vars
  BY OthersStay, WritePuts, DropGivesUp, PutStays, WriterTakesOne
     DEF Next, Program, Environment

\* audioWriter.Write, its making room and the write loop together behave as
\* LossyQueue promises, whatever the capacity: the write loop takes audio in
\* the order in which it was written, and only the oldest is ever given up.
THEOREM KeepsTheNewest == Spec => KeepsNewest
<1>1. Init => Queue!Init
  BY DEF Init, Queue!Init, At, None
<1>2. IInv /\ [Next]_vars => [Queue!Next]_Queue!vars
  BY QueueStep
<1> QED
  BY <1>1, <1>2, Inductive, PTL DEF Spec, KeepsNewest, Queue!Spec
=============================================================================
