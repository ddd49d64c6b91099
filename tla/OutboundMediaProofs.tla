------------------------ MODULE OutboundMediaProofs ------------------------
(***************************************************************************)
(* Proofs about OutboundMedia, for every set of sending goroutines, every  *)
(* capacity of audioOut and every number of frames: writes to the          *)
(* WebSocket are serialized, the numbers of the frames are unique and,     *)
(* while the connection is open, without gaps, and the empty chunks of a   *)
(* closed audioOut stay off the wire.                                      *)
(***************************************************************************)
EXTENDS OutboundMedia, FiniteSetTheorems, TLAPS

\* What a goroutine has chosen to write before it goes to write it.
Labelled ==
  \A g \in Goroutines :
    /\ At(g, "number") \/ At(g, "check") => go[g].type = "media"
    /\ At(g, "lock") \/ At(g, "write") => go[g].type # "none"

\* writeMu is held by the one goroutine that is inside WriteJSON.
Exclusive ==
  /\ writing = writeMu
  /\ \A g \in Goroutines : At(g, "write") <=> g \in writeMu
  /\ \A g, h \in writeMu : g = h

\* A goroutine between taking a number and the end of its write.
Holds(g) ==
  go[g].type = "media" /\ (At(g, "check") \/ At(g, "lock") \/ At(g, "write"))

\* A number is with one goroutine, or in one place on the wire.
Numbered ==
  /\ \A g \in Goroutines : Holds(g) => go[g].seq \in 1..sequence
  /\ \A i \in Media : wire[i].seq \in 1..sequence
  /\ \A g, h \in Goroutines :
       Holds(g) /\ Holds(h) /\ go[g].seq = go[h].seq => g = h
  /\ \A g \in Goroutines : \A i \in Media :
       Holds(g) => go[g].seq # wire[i].seq

\* No number has been lost.
Accounted ==
  conn.wsOpen /\ ~conn.closed =>
    \A n \in 1..sequence : \/ \E i \in Media : wire[i].seq = n
                           \/ \E g \in Goroutines : Holds(g) /\ go[g].seq = n

\* audioOut is closed last, and only then does it yield empty chunks.
EmptyAfterClose ==
  /\ conn.outClosed => conn.done
  /\ conn.done => conn.closed
  /\ \A g \in Goroutines :
       go[g].empty => conn.closed /\ (At(g, "number") \/ At(g, "check"))

IInv ==
  TypeOK /\ Labelled /\ Exclusive /\ Numbered /\ NumbersUnique /\ Accounted
    /\ EmptyAfterClose /\ NoEmptyFrame
-----------------------------------------------------------------------------
(* Every step keeps the invariant.                                         *)

LEMMA InitInv == Init => IInv
<1> SUFFICES ASSUME Init PROVE IInv
  OBVIOUS
<1>1. TypeOK
  <2>1. go \in [Goroutines ->
               [at : {"idle", "number", "check", "lock", "write", "end"},
                type : {"none", "media", "clear"}, seq : 0..MaxFrames,
                empty : BOOLEAN]]
    BY OutboundBounds DEF Init, Idle
  <2>2. conn \in [closed : BOOLEAN, done : BOOLEAN, outClosed : BOOLEAN,
                 wsOpen : BOOLEAN]
    BY DEF Init
  <2>3. sequence \in 0..MaxFrames /\ audioOut \in 0..OutCap
    BY OutboundBounds DEF Init
  <2>4. wire \in Seq([type : {"media", "clear"}, seq : 0..MaxFrames,
                     by : Goroutines, empty : BOOLEAN])
    BY DEF Init
  <2> QED
    BY <2>1, <2>2, <2>3, <2>4 DEF Init, TypeOK
<1>2. Media = {}
  BY DEF Init, Media
<1> QED
  BY <1>1, <1>2 DEF Init, IInv, Labelled, Exclusive, Numbered, NumbersUnique,
                    Accounted, EmptyAfterClose, NoEmptyFrame, Holds, At, Idle

\* The parts of the invariant that speak of the frames and their numbers
\* survive a step that writes nothing and hands out no number, as long as no
\* goroutine gives one up while the connection is open.
LEMMA NumbersKept ==
  ASSUME IInv, UNCHANGED <<sequence, wire>>,
         \A g \in Goroutines : Holds(g)' => Holds(g) /\ go'[g].seq = go[g].seq,
         conn'.wsOpen => conn.wsOpen, conn.closed => conn'.closed,
         \A g \in Goroutines :
           Holds(g) => conn'.closed \/ ~conn'.wsOpen
                         \/ (Holds(g)' /\ go'[g].seq = go[g].seq)
  PROVE  Numbered' /\ NumbersUnique' /\ Accounted' /\ NoEmptyFrame'
<1>1. Media' = Media
  BY DEF Media
<1>3. Numbered' /\ NumbersUnique' /\ NoEmptyFrame'
  BY <1>1 DEF IInv, Numbered, NumbersUnique, NoEmptyFrame
<1>4. Accounted'
  BY <1>1 DEF IInv, Accounted
<1> QED
  BY <1>3, <1>4

\* One lemma per action: types, control, and the frames with their numbers.
LEMMA SendAudioInv ==
  ASSUME NEW g \in Senders, IInv, SendAudio(g)  PROVE  IInv'
<1>0. g \in Goroutines
  BY DEF Goroutines
<1>1. TypeOK'
  BY ZenonT(30), <1>0 DEF IInv, TypeOK, SendAudio, chans
<1>2. Labelled' /\ Exclusive' /\ EmptyAfterClose'
  BY <1>0 DEF IInv, TypeOK, Labelled, Exclusive, EmptyAfterClose, SendAudio,
              chans, At
<1>3. Numbered' /\ NumbersUnique' /\ Accounted' /\ NoEmptyFrame'
  BY <1>0, NumbersKept DEF IInv, TypeOK, SendAudio, chans, At, Holds
<1> QED
  BY <1>1, <1>2, <1>3 DEF IInv

LEMMA ClearAudioInv ==
  ASSUME NEW g \in Senders, IInv, ClearAudio(g)  PROVE  IInv'
<1>0. g \in Goroutines
  BY DEF Goroutines
<1>1. TypeOK'
  BY ZenonT(30), <1>0 DEF IInv, TypeOK, ClearAudio, chans
<1>2. Labelled' /\ Exclusive' /\ EmptyAfterClose'
  BY <1>0 DEF IInv, TypeOK, Labelled, Exclusive, EmptyAfterClose, ClearAudio,
              chans, At
<1>3. Numbered' /\ NumbersUnique' /\ Accounted' /\ NoEmptyFrame'
  BY <1>0, NumbersKept DEF IInv, TypeOK, ClearAudio, chans, At, Holds
<1> QED
  BY <1>1, <1>2, <1>3 DEF IInv

LEMMA IdleType ==
  Idle \in [at : {"idle", "number", "check", "lock", "write", "end"},
            type : {"none", "media", "clear"}, seq : 0..MaxFrames,
            empty : BOOLEAN]
  BY OutboundBounds DEF Idle

LEMMA CheckOpenInv ==
  ASSUME NEW g \in Goroutines, IInv, CheckOpen(g)  PROVE  IInv'
<1>1. CASE conn.closed /\ Return(g)
  <2>1. go' = [go EXCEPT ![g] = Idle]
    BY <1>1 DEF Return
  <2>2. TypeOK'
    BY <2>1, IdleType DEF IInv, TypeOK, CheckOpen, chans
  <2>3. go'[g] = Idle /\ \A h \in Goroutines \ {g} : go'[h] = go[h]
    BY <2>1 DEF IInv, TypeOK
  <2>4. Labelled' /\ Exclusive' /\ EmptyAfterClose'
    BY <2>3 DEF IInv, Labelled, Exclusive, EmptyAfterClose, CheckOpen, chans,
                At, Idle
  <2>5. Numbered' /\ NumbersUnique' /\ Accounted' /\ NoEmptyFrame'
    BY <1>1, <2>3, NumbersKept DEF CheckOpen, chans, At, Holds, Idle
  <2> QED
    BY <2>2, <2>4, <2>5 DEF IInv
<1>2. CASE ~conn.closed /\ go' = [go EXCEPT ![g].at = "lock"]
  <2>1. TypeOK'
    BY ZenonT(30), <1>2 DEF IInv, TypeOK, CheckOpen, chans
  <2>2. Labelled' /\ Exclusive' /\ EmptyAfterClose'
    BY <1>2 DEF IInv, TypeOK, Labelled, Exclusive, EmptyAfterClose, CheckOpen,
                chans, At
  <2>3. Numbered' /\ NumbersUnique' /\ Accounted' /\ NoEmptyFrame'
    BY <1>2, NumbersKept DEF IInv, TypeOK, CheckOpen, chans, At, Holds
  <2> QED
    BY <2>1, <2>2, <2>3 DEF IInv
<1> QED
  BY <1>1, <1>2 DEF CheckOpen

LEMMA LockInv ==
  ASSUME NEW g \in Goroutines, IInv, Lock(g)  PROVE  IInv'
<1>1. TypeOK'
  BY SMTT(30) DEF IInv, TypeOK, Lock, chans
<1>2. Labelled' /\ Exclusive' /\ EmptyAfterClose'
  BY DEF IInv, TypeOK, Labelled, Exclusive, EmptyAfterClose, Lock,
              chans, At
<1>3. Numbered' /\ NumbersUnique' /\ Accounted' /\ NoEmptyFrame'
  BY NumbersKept DEF IInv, TypeOK, EmptyAfterClose, Lock, chans, At,
              Holds
<1> QED
  BY <1>1, <1>2, <1>3 DEF IInv

LEMMA WriterTakesInv ==
  ASSUME IInv, WriterTakes  PROVE  IInv'
<1>0. Writer \in Goroutines
  BY DEF Goroutines
<1>1. TypeOK'
  <2>1. audioOut' \in 0..OutCap
    BY OutboundBounds DEF IInv, TypeOK, WriterTakes
  <2> QED
    BY ZenonT(30), <1>0, <2>1 DEF IInv, TypeOK, WriterTakes
<1>2. Labelled' /\ Exclusive' /\ EmptyAfterClose'
  BY <1>0 DEF IInv, TypeOK, Labelled, Exclusive, EmptyAfterClose, WriterTakes,
              chans, At
<1>3. Numbered' /\ NumbersUnique' /\ Accounted' /\ NoEmptyFrame'
  BY <1>0, NumbersKept DEF IInv, TypeOK, EmptyAfterClose, WriterTakes, chans, At,
              Holds
<1> QED
  BY <1>1, <1>2, <1>3 DEF IInv

LEMMA WriterTakesNothingInv ==
  ASSUME IInv, WriterTakesNothing  PROVE  IInv'
<1>0. Writer \in Goroutines
  BY DEF Goroutines
<1>1. TypeOK'
  <2>1. [Idle EXCEPT !.at = "number", !.empty = TRUE, !.type = "media"]
          \in [at : {"idle", "number", "check", "lock", "write", "end"},
              type : {"none", "media", "clear"}, seq : 0..MaxFrames,
              empty : BOOLEAN]
    BY IdleType
  <2> QED
    BY <1>0, <2>1 DEF IInv, TypeOK, WriterTakesNothing, chans
<1>2. Labelled' /\ Exclusive' /\ EmptyAfterClose'
  BY <1>0 DEF IInv, TypeOK, Labelled, Exclusive, EmptyAfterClose, WriterTakesNothing,
              chans, At, Idle
<1>3. Numbered' /\ NumbersUnique' /\ Accounted' /\ NoEmptyFrame'
  BY <1>0, NumbersKept DEF IInv, TypeOK, EmptyAfterClose, WriterTakesNothing, chans, At,
              Holds, Idle
<1> QED
  BY <1>1, <1>2, <1>3 DEF IInv

LEMMA WriterStopsInv ==
  ASSUME IInv, WriterStops  PROVE  IInv'
<1>0. Writer \in Goroutines
  BY DEF Goroutines
<1>1. TypeOK'
  BY ZenonT(30), <1>0 DEF IInv, TypeOK, WriterStops, chans
<1>2. Labelled' /\ Exclusive' /\ EmptyAfterClose'
  BY <1>0 DEF IInv, TypeOK, Labelled, Exclusive, EmptyAfterClose, WriterStops,
              chans, At
<1>3. Numbered' /\ NumbersUnique' /\ Accounted' /\ NoEmptyFrame'
  BY <1>0, NumbersKept DEF IInv, TypeOK, EmptyAfterClose, WriterStops, chans, At,
              Holds
<1> QED
  BY <1>1, <1>2, <1>3 DEF IInv

LEMMA NumberInv ==
  ASSUME NEW g \in Goroutines, IInv, Number(g)  PROVE  IInv'
<1>0. sequence' = sequence + 1 /\ sequence \in Nat /\ sequence' \in 0..MaxFrames
  BY OutboundBounds DEF IInv, TypeOK, Number, NextSequence
<1>1. go' = [go EXCEPT ![g].at = "check", ![g].seq = sequence + 1]
  BY DEF Number, NextSequence
<1>2. TypeOK'
  <2>1. sequence + 1 \in 0..MaxFrames
    BY <1>0
  <2>2. go' \in [Goroutines ->
               [at : {"idle", "number", "check", "lock", "write", "end"},
                type : {"none", "media", "clear"}, seq : 0..MaxFrames,
                empty : BOOLEAN]]
    BY ZenonT(30), <1>1, <2>1 DEF IInv, TypeOK
  <2> QED
    BY <1>0, <2>2 DEF IInv, TypeOK, Number, chans
<1>3. Labelled' /\ Exclusive' /\ EmptyAfterClose'
  BY <1>1 DEF IInv, TypeOK, Labelled, Exclusive, EmptyAfterClose, Number,
              chans, At
<1>4. Media' = Media /\ UNCHANGED <<conn, wire>>
  BY DEF Number, Media, chans
<1>5. /\ Holds(g)' /\ go'[g].seq = sequence + 1 /\ ~Holds(g)
      /\ \A h \in Goroutines \ {g} : go'[h] = go[h] /\ (Holds(h)' <=> Holds(h))
  BY <1>1 DEF IInv, TypeOK, Labelled, Number, At, Holds
<1>6. Numbered'
  BY <1>0, <1>4, <1>5 DEF IInv, Numbered
<1>7. NumbersUnique' /\ NoEmptyFrame'
  BY <1>4 DEF IInv, NumbersUnique, NoEmptyFrame
<1>8. Accounted'
  BY <1>0, <1>4, <1>5 DEF IInv, Accounted
<1> QED
  BY <1>2, <1>3, <1>6, <1>7, <1>8 DEF IInv

LEMMA QuietInv ==
  ASSUME IInv, Queue \/ SessionCloses \/ ConnCloses \/ RemoteCloses
  PROVE  IInv'
<1>1. UNCHANGED <<audio, sequence, go, writeMu, writing, wire>>
  BY DEF Queue, SessionCloses, ConnCloses, RemoteCloses
<1>2. conn' \in [closed : BOOLEAN, done : BOOLEAN, outClosed : BOOLEAN,
                wsOpen : BOOLEAN]
  BY DEF IInv, TypeOK, Queue, SessionCloses, ConnCloses, RemoteCloses
<1>3. closed' \in BOOLEAN /\ panic' \in BOOLEAN /\ audioOut' \in 0..OutCap
  <2>1. CASE Queue
    <3>1. audioOut' \in 0..OutCap
      <4>1. audioOut \in Nat /\ OutCap \in Nat /\ audioOut <= OutCap
        BY OutboundBounds DEF IInv, TypeOK
      <4> QED
        BY <2>1, <4>1 DEF Queue
    <3> QED
      BY <2>1, <3>1 DEF IInv, TypeOK, Queue
  <2>2. CASE SessionCloses \/ ConnCloses \/ RemoteCloses
    BY <2>2 DEF IInv, TypeOK, SessionCloses, ConnCloses, RemoteCloses
  <2> QED
    BY <2>1, <2>2
<1>4. TypeOK'
  BY <1>1, <1>2, <1>3 DEF IInv, TypeOK
<1>5. /\ conn.closed => conn'.closed
      /\ conn'.wsOpen => conn.wsOpen
      /\ conn'.outClosed => conn'.done
      /\ conn'.done => conn'.closed
  BY DEF IInv, TypeOK, EmptyAfterClose, Queue, SessionCloses, ConnCloses,
         RemoteCloses
<1>6. Labelled' /\ Exclusive' /\ EmptyAfterClose'
  BY <1>1, <1>5 DEF IInv, Labelled, Exclusive, EmptyAfterClose, At
<1>7. Numbered' /\ NumbersUnique' /\ Accounted' /\ NoEmptyFrame'
  BY <1>1, <1>5, NumbersKept DEF Holds, At
<1> QED
  BY <1>4, <1>6, <1>7 DEF IInv

\* A write that reaches the wire moves the goroutine's number from its hands
\* to the end of the wire.
LEMMA WriteOpenInv ==
  ASSUME NEW g \in Goroutines, IInv, Write(g), conn.wsOpen
  PROVE  IInv'
<1>1. /\ wire' = Append(wire, Message(g)) /\ go' = [go EXCEPT ![g] = Idle]
      /\ writing' = writing \ {g} /\ writeMu' = {}
      /\ UNCHANGED <<chans, sequence>> /\ At(g, "write")
  BY DEF Write, Return
<1>2. /\ go[g].type \in {"media", "clear"} /\ go[g].seq \in 0..MaxFrames
      /\ go[g].empty = FALSE /\ sequence \in Nat
  BY SMTT(30), <1>1, OutboundBounds DEF IInv, TypeOK, Labelled, EmptyAfterClose, At
<1>3. Message(g) \in [type : {"media", "clear"}, seq : 0..MaxFrames,
                     by : Goroutines, empty : BOOLEAN]
  BY <1>2 DEF Message
<1>4. wire' \in Seq([type : {"media", "clear"}, seq : 0..MaxFrames,
                    by : Goroutines, empty : BOOLEAN])
  BY <1>1, <1>3 DEF IInv, TypeOK
<1>5. TypeOK'
  BY <1>1, <1>4, IdleType DEF IInv, TypeOK, chans
<1>6. /\ go'[g] = Idle
      /\ \A h \in Goroutines \ {g} : go'[h] = go[h] /\ h \notin writeMu
  BY <1>1 DEF IInv, TypeOK, Exclusive
<1>7. Labelled' /\ EmptyAfterClose'
  BY <1>1, <1>6 DEF IInv, Labelled, EmptyAfterClose, chans, At, Idle
<1>8. Exclusive'
  BY <1>1, <1>6 DEF IInv, TypeOK, Exclusive, At, Idle
<1>9. /\ Len(wire) \in Nat /\ DOMAIN wire = 1..Len(wire)
      /\ DOMAIN wire' = 1..(Len(wire) + 1)
      /\ wire'[Len(wire) + 1] = Message(g)
      /\ \A i \in DOMAIN wire : wire'[i] = wire[i]
  BY <1>1, <1>3 DEF IInv, TypeOK
<1>10. /\ Holds(g) <=> go[g].type = "media"
       /\ ~Holds(g)'
       /\ \A h \in Goroutines \ {g} : Holds(h)' <=> Holds(h)
  BY <1>1, <1>6 DEF Holds, At, Idle
<1>11. /\ Media' = IF Holds(g) THEN Media \cup {Len(wire) + 1} ELSE Media
       /\ \A i \in Media : wire'[i] = wire[i] /\ i # Len(wire) + 1
       /\ wire'[Len(wire) + 1].seq = go[g].seq
  BY <1>2, <1>9, <1>10 DEF Media, Message
<1>12. /\ sequence' = sequence /\ conn' = conn
       /\ \A h \in Goroutines : Holds(h)' => h # g /\ Holds(h) /\ go'[h] = go[h]
  BY <1>1, <1>6, <1>10 DEF chans
<1>13. Numbered' /\ NumbersUnique' /\ Accounted'
  <2>1. CASE ~Holds(g)
    <3>1. Media' = Media /\ \A i \in Media : wire'[i] = wire[i]
      BY <2>1, <1>11
    <3>2. \A h \in Goroutines : Holds(h) => Holds(h)' /\ go'[h] = go[h]
      BY <2>1, <1>6, <1>10
    <3> QED
      BY <1>12, <3>1, <3>2 DEF IInv, Numbered, NumbersUnique, Accounted
  <2>2. CASE Holds(g)
    <3> DEFINE new == Len(wire) + 1
    <3>1. /\ Media' = Media \cup {new} /\ wire'[new].seq = go[g].seq
          /\ \A i \in Media : wire'[i] = wire[i] /\ i # new
      BY <2>2, <1>11
    <3> HIDE DEF new
    <3>2. /\ go[g].seq \in 1..sequence
          /\ \A i \in Media : go[g].seq # wire[i].seq
          /\ \A h \in Goroutines \ {g} : Holds(h) => go[h].seq # go[g].seq
      BY <2>2 DEF IInv, Numbered
    <3>3. Numbered'
      BY <1>12, <3>1, <3>2 DEF IInv, Numbered
    <3>4. NumbersUnique'
      BY <3>1, <3>2 DEF IInv, NumbersUnique
    <3>5. Accounted'
      <4> SUFFICES ASSUME conn.wsOpen, ~conn.closed, NEW n \in 1..sequence
                   PROVE  \/ \E i \in Media' : wire'[i].seq = n
                          \/ \E h \in Goroutines : Holds(h)' /\ go'[h].seq = n
        BY <1>12 DEF Accounted
      <4>1. CASE \E i \in Media : wire[i].seq = n
        BY <4>1, <3>1
      <4>2. CASE n = go[g].seq
        BY <4>2, <3>1
      <4>3. CASE \E h \in Goroutines \ {g} : Holds(h) /\ go[h].seq = n
        BY <4>3, <1>6, <1>10
      <4> QED
        BY <4>1, <4>2, <4>3 DEF IInv, Accounted
    <3> QED
      BY <3>3, <3>4, <3>5
  <2> QED
    BY <2>1, <2>2
<1>14. NoEmptyFrame'
  BY <1>2, <1>9 DEF IInv, NoEmptyFrame, Message
<1> QED
  BY <1>5, <1>7, <1>8, <1>13, <1>14 DEF IInv

LEMMA WriteFailsInv ==
  ASSUME NEW g \in Goroutines, IInv, Write(g), ~conn.wsOpen
  PROVE  IInv'
<1>1. /\ wire' = wire /\ writing' = writing \ {g} /\ writeMu' = {}
      /\ UNCHANGED <<chans, sequence>> /\ At(g, "write")
      /\ \/ go' = [go EXCEPT ![g] = Idle]
         \/ go' = [go EXCEPT ![g] = [Idle EXCEPT !.at = "end"]]
  BY DEF Write, Return
<1>2. [Idle EXCEPT !.at = "end"]
        \in [at : {"idle", "number", "check", "lock", "write", "end"},
            type : {"none", "media", "clear"}, seq : 0..MaxFrames,
            empty : BOOLEAN]
  BY IdleType
<1>3. TypeOK'
  <2>1. go' \in [Goroutines ->
               [at : {"idle", "number", "check", "lock", "write", "end"},
                type : {"none", "media", "clear"}, seq : 0..MaxFrames,
                empty : BOOLEAN]]
    BY <1>1, <1>2, IdleType DEF IInv, TypeOK
  <2> QED
    BY <1>1, <2>1 DEF IInv, TypeOK, chans
<1>4. /\ go'[g].at \in {"idle", "end"} /\ go'[g].type = "none" /\ ~go'[g].empty
      /\ \A h \in Goroutines \ {g} : go'[h] = go[h] /\ h \notin writeMu
  BY SMTT(30), <1>1 DEF IInv, TypeOK, Exclusive, Idle
<1>5. Labelled' /\ EmptyAfterClose'
  BY <1>1, <1>4 DEF IInv, Labelled, EmptyAfterClose, chans, At
<1>6. Exclusive'
  BY <1>1, <1>4 DEF IInv, TypeOK, Exclusive, At
<1>7. Numbered' /\ NumbersUnique' /\ Accounted' /\ NoEmptyFrame'
  BY <1>1, <1>4, NumbersKept DEF chans, Holds, At
<1> QED
  BY <1>3, <1>5, <1>6, <1>7 DEF IInv

LEMMA NextInv == IInv /\ [Next]_vars => IInv'
<1> SUFFICES ASSUME IInv, [Next]_vars PROVE IInv'
  OBVIOUS
<1>1. ASSUME NEW g \in Senders, SendAudio(g) \/ ClearAudio(g)  PROVE IInv'
  BY <1>1, SendAudioInv, ClearAudioInv
<1>2. ASSUME NEW g \in Goroutines,
             Number(g) \/ CheckOpen(g) \/ Lock(g) \/ Write(g)
      PROVE  IInv'
  BY <1>2, NumberInv, CheckOpenInv, LockInv, WriteOpenInv, WriteFailsInv
<1>3. CASE WriterTakes \/ WriterTakesNothing \/ WriterStops
  BY <1>3, WriterTakesInv, WriterTakesNothingInv, WriterStopsInv
<1>4. CASE Queue \/ SessionCloses \/ ConnCloses \/ RemoteCloses
  BY <1>4, QuietInv
<1>5. CASE UNCHANGED vars
  <2>1. UNCHANGED <<audio, conn, closed, sequence, audioOut, go, writeMu,
                    writing, wire, panic>>
    BY <1>5 DEF vars, chans
  <2>2. TypeOK' /\ Labelled' /\ Exclusive' /\ EmptyAfterClose'
    BY <2>1 DEF IInv, TypeOK, Labelled, Exclusive, EmptyAfterClose, At
  <2>3. Numbered' /\ NumbersUnique' /\ Accounted' /\ NoEmptyFrame'
    BY <2>1, NumbersKept DEF Holds, At
  <2> QED
    BY <2>2, <2>3 DEF IInv
<1> QED
  BY <1>1, <1>2, <1>3, <1>4, <1>5 DEF Next

\* Whatever the senders, the write loop and the closes do, each number is with
\* one goroutine or in one place on the wire, and writeMu has one holder.
THEOREM Inductive == Spec => []IInv
  BY InitInv, NextInv, PTL DEF Spec
-----------------------------------------------------------------------------
\* Every variable keeps its type: among them the counter stays below its
\* bound and audioOut within its capacity.
THEOREM TypeCorrect == Spec => []TypeOK
<1>1. IInv => TypeOK
  BY DEF IInv
<1> QED
  BY <1>1, Inductive, PTL

\* v0.6.0 notes: however many goroutines send, never two of them are inside
\* WriteJSON.
THEOREM Serialized == Spec => []WritesSerialized
<1>1. IInv => WritesSerialized
  <2> SUFFICES ASSUME IInv PROVE WritesSerialized
    OBVIOUS
  <2>1. CASE writing = {}
    BY <2>1, FS_EmptySet DEF WritesSerialized
  <2>2. CASE \E g \in Goroutines : writing = {g}
    BY <2>2, FS_Singleton DEF WritesSerialized
  <2> QED
    BY <2>1, <2>2 DEF IInv, TypeOK, Exclusive
<1> QED
  BY <1>1, Inductive, PTL

\* One counter per stream: no two frames on the wire carry the same number.
THEOREM Unique == Spec => []NumbersUnique
<1>1. IInv => NumbersUnique
  BY DEF IInv
<1> QED
  BY <1>1, Inductive, PTL

\* On an open connection where nobody is sending, the frames on the wire
\* carry every number handed out.
THEOREM Complete == Spec => []NoGaps
<1>1. IInv => NoGaps
  <2> SUFFICES ASSUME IInv, conn.wsOpen, ~conn.closed,
                      \A g \in Goroutines : At(g, "idle")
               PROVE  {wire[i].seq : i \in Media} = 1..sequence
    BY DEF NoGaps
  <2>1. \A g \in Goroutines : ~Holds(g)
    BY DEF Holds, At
  <2>2. \A i \in Media : wire[i].seq \in 1..sequence
    BY DEF IInv, Numbered
  <2>3. \A n \in 1..sequence : \E i \in Media : wire[i].seq = n
    BY <2>1 DEF IInv, Accounted
  <2> QED
    BY <2>2, <2>3
<1> QED
  BY <1>1, Inductive, PTL

\* The empty chunks a closed audioOut yields never reach Telnyx.
THEOREM NoneEmpty == Spec => []NoEmptyFrame
<1>1. IInv => NoEmptyFrame
  BY DEF IInv
<1> QED
  BY <1>1, Inductive, PTL
=============================================================================
