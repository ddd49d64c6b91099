---------------------------- MODULE SpeechProofs ----------------------------
(***************************************************************************)
(* Proofs about what the caller says in VoicePipeline, for any number of   *)
(* turns and of voiced chunks: every chunk is in exactly one utterance and *)
(* in order, what the shared array costs an utterance is at most the       *)
(* chunks heard since, and every variable keeps its type.                  *)
(***************************************************************************)
EXTENDS VoicePipelineProofs, SequenceTheorems

\* The buffer holds the chunks heard last, and the others have been given to
\* turns.
Spent == p.heard - Len(audioBuffer)

Buffered ==
  /\ p.heard <= MaxHeard /\ Len(audioBuffer) <= p.heard
  /\ \A i \in 1..Len(audioBuffer) : audioBuffer[i] = Spent + i
  /\ p.isSpeaking => Len(audioBuffer) # 0

\* The turns are started in order, and so are the utterances they are given.
Passed ==
  /\ turn[0].given = <<>>
  /\ \A t \in Turns :
       /\ Len(turn[t].given) <= MaxHeard
       /\ \A i \in 1..Len(turn[t].given) : turn[t].given[i] \in 1..Spent
       /\ \A i, j \in 1..Len(turn[t].given) :
            i < j => turn[t].given[i] < turn[t].given[j]
       /\ turn[t].at = "none" => turn[t].given = <<>>
  /\ \A t, u \in Turns : t < u =>
       \A i \in 1..Len(turn[t].given), j \in 1..Len(turn[u].given) :
         turn[t].given[i] < turn[u].given[j]
  /\ \A t, u \in 1..MaxTurns :
       t < u /\ turn[u].at # "none" => turn[t].at # "none"
  /\ \A c \in 1..Spent : \E t \in Turns :
       \E i \in 1..Len(turn[t].given) : turn[t].given[i] = c

\* A slice that is still to be read differs from the utterance at most where
\* the chunks heard since have been written.
Readable(r) ==
  /\ Len(r.given) # 0 /\ Len(r.audio) = Len(r.given)
  /\ \A i \in 1..Len(r.given) :
       i > p.heard - r.given[Len(r.given)] => r.audio[i] = r.given[i]
Held ==
  \A t \in Turns :
    /\ Len(turn[t].audio) <= MaxHeard
    /\ \A i \in 1..Len(turn[t].audio) : turn[t].audio[i] \in 1..MaxHeard
    /\ turn[t].kind = "voice" /\ turn[t].at \in {"new", "stt"} => Readable(turn[t])
    /\ turn[t].left \in 0..MaxChunks
    /\ turn[t].at = "send" => turn[t].left # 0

Said == Buffered /\ Passed /\ Held
SInv == Inv /\ Said
-----------------------------------------------------------------------------
LEMMA Numbers ==
  ASSUME SInv
  PROVE  /\ p.heard \in Nat /\ p \in FlagType
         /\ audioBuffer \in Seq(Nat) /\ Len(audioBuffer) \in Nat
         /\ Spent \in Nat /\ p.heard = Spent + Len(audioBuffer)
         /\ MaxHeard \in Nat /\ MaxChunks \in Nat /\ MaxTurns \in Nat
         /\ turn \in [Turns -> TurnType]
<1>1. /\ p \in FlagType /\ audioBuffer \in Seq(Nat)
      /\ turn \in [Turns -> TurnType] /\ Len(audioBuffer) <= p.heard
  BY DEF SInv, Said, Inv, Typed, Buffered
<1>2. p.heard \in Nat /\ Len(audioBuffer) \in Nat
  BY <1>1 DEF FlagType
<1> QED
  BY <1>1, <1>2, PipelineBounds DEF Spent

\* What a turn holds.
LEMMA TurnHas ==
  ASSUME SInv, NEW t \in Turns
  PROVE  /\ turn[t] \in TurnType
         /\ turn[t].given \in Seq(Nat) /\ Len(turn[t].given) \in Nat
         /\ DOMAIN turn[t].given = 1..Len(turn[t].given)
         /\ turn[t].audio \in Seq(Nat) /\ Len(turn[t].audio) \in Nat
         /\ DOMAIN turn[t].audio = 1..Len(turn[t].audio)
<1>1. turn[t] \in TurnType
  BY Numbers
<1>2. turn[t].given \in Seq(Nat) /\ turn[t].audio \in Seq(Nat)
  BY <1>1 DEF TurnType
<1> QED
  BY <1>1, <1>2

\* Turn t takes a step: it keeps what it was given, and reads its slice while
\* it is in an early stage or not at all.
Moves(t, r) ==
  /\ r \in TurnType /\ turn' = [turn EXCEPT ![t] = r]
  /\ r.given = turn[t].given /\ r.kind = turn[t].kind
  /\ turn[t].at # "none" /\ r.at # "none"
  /\ r.at \in {"new", "stt"} => turn[t].at \in {"new", "stt"}
  /\ \/ r.audio = turn[t].audio
     \/ r.audio = <<>> /\ r.at \notin {"new", "stt"}
  /\ r.left \in 0..MaxChunks /\ (r.at = "send" => r.left # 0)

LEMMA MovesSaid ==
  ASSUME SInv, NEW t \in Turns, NEW r, Moves(t, r), UNCHANGED audioBuffer,
         p'.heard = p.heard, p'.isSpeaking = p.isSpeaking
  PROVE  Said'
<1>1. /\ turn'[t] = r /\ r.given = turn[t].given /\ r.kind = turn[t].kind
      /\ \A u \in Turns \ {t} : turn'[u] = turn[u]
  BY Numbers DEF Moves
<1>2. \A u \in Turns : /\ turn'[u].given = turn[u].given
                       /\ turn'[u].at = "none" <=> turn[u].at = "none"
  BY <1>1 DEF Moves
<1>3. Spent' = Spent
  BY DEF Spent
<1>4. Buffered'
  BY <1>3 DEF SInv, Said, Buffered
<1>5. Passed'
  <2>1. 1..MaxTurns \subseteq Turns /\ 0 \in Turns
    BY PipelineBounds DEF Turns
  <2>2. turn'[0].given = <<>>
    BY <1>2, <2>1 DEF SInv, Said, Passed
  <2>3. ASSUME NEW u \in Turns
        PROVE  /\ Len(turn'[u].given) <= MaxHeard
               /\ \A i \in 1..Len(turn'[u].given) : turn'[u].given[i] \in 1..Spent'
               /\ \A i, j \in 1..Len(turn'[u].given) :
                    i < j => turn'[u].given[i] < turn'[u].given[j]
               /\ turn'[u].at = "none" => turn'[u].given = <<>>
    BY <1>2, <1>3 DEF SInv, Said, Passed
  <2>4. ASSUME NEW u \in Turns, NEW v \in Turns, u < v
        PROVE  \A i \in 1..Len(turn'[u].given), j \in 1..Len(turn'[v].given) :
                 turn'[u].given[i] < turn'[v].given[j]
    <3>1. turn'[u].given = turn[u].given /\ turn'[v].given = turn[v].given
      BY <1>2
    <3> QED
      BY <2>4, <3>1 DEF SInv, Said, Passed
  <2>5. ASSUME NEW u \in 1..MaxTurns, NEW v \in 1..MaxTurns, u < v,
               turn'[v].at # "none"
        PROVE  turn'[u].at # "none"
    BY <1>2, <2>1, <2>5 DEF SInv, Said, Passed
  <2>6. ASSUME NEW c \in 1..Spent
        PROVE  \E u \in Turns : \E i \in 1..Len(turn'[u].given) : turn'[u].given[i] = c
    <3>1. PICK u \in Turns : \E i \in 1..Len(turn[u].given) : turn[u].given[i] = c
      BY DEF SInv, Said, Passed
    <3>2. turn'[u].given = turn[u].given
      BY <1>2
    <3> QED
      BY <3>1, <3>2
  <2> QED
    BY <1>3, <2>2, <2>3, <2>4, <2>5, <2>6 DEF Passed
<1>6. Held'
  <2> SUFFICES ASSUME NEW u \in Turns
               PROVE  /\ Len(turn'[u].audio) <= MaxHeard
                      /\ \A i \in 1..Len(turn'[u].audio) :
                           turn'[u].audio[i] \in 1..MaxHeard
                      /\ turn'[u].kind = "voice" /\ turn'[u].at \in {"new", "stt"}
                           => Readable(turn[u])'
                      /\ turn'[u].left \in 0..MaxChunks
                      /\ turn'[u].at = "send" => turn'[u].left # 0
    BY DEF Held
  <2>1. /\ Len(turn[u].audio) <= MaxHeard
        /\ \A i \in 1..Len(turn[u].audio) : turn[u].audio[i] \in 1..MaxHeard
        /\ turn[u].kind = "voice" /\ turn[u].at \in {"new", "stt"} => Readable(turn[u])
        /\ turn[u].left \in 0..MaxChunks /\ (turn[u].at = "send" => turn[u].left # 0)
    BY DEF SInv, Said, Held
  <2>2. CASE u # t
    BY <1>1, <2>1, <2>2 DEF Readable
  <2>3. CASE u = t
    <3>1. CASE r.audio = turn[t].audio
      BY <1>1, <2>1, <2>3, <3>1 DEF Moves, Readable
    <3>2. CASE r.audio = <<>> /\ r.at \notin {"new", "stt"}
      <4>1. Len(<<>>) = 0 /\ 0 <= MaxHeard
        BY PipelineBounds
      <4> QED
        BY <1>1, <2>3, <3>2, <4>1 DEF Moves
    <3> QED
      BY <3>1, <3>2 DEF Moves
  <2> QED
    BY <2>2, <2>3
<1> QED
  BY <1>4, <1>5, <1>6 DEF Said

\* Nothing of what was said changes.
LEMMA StaysSaid ==
  ASSUME SInv, UNCHANGED <<turn, audioBuffer>>,
         p'.heard = p.heard, p'.isSpeaking = p.isSpeaking
  PROVE  Said'
<1>1. Spent' = Spent
  BY DEF Spent
<1> QED
  BY <1>1 DEF SInv, Said, Buffered, Passed, Held, Readable
-----------------------------------------------------------------------------
(* The steps of a turn.                                                    *)

LEMMA GotoRecord ==
  ASSUME SInv, NEW t \in Turns, NEW l \in Labels \ {"none"}, Goto(t, l),
         turn[t].at # "none",
         l \in {"new", "stt"} => turn[t].at \in {"new", "stt"},
         l = "send" => turn[t].left # 0
  PROVE  \E r : Moves(t, r)
<1> DEFINE r == [turn[t] EXCEPT !.at = l]
<1>1. turn[t] \in TurnType /\ turn[t].left \in 0..MaxChunks
  BY TurnHas DEF SInv, Said, Held
<1>2. /\ r \in TurnType /\ r.at = l /\ r.given = turn[t].given
      /\ r.kind = turn[t].kind /\ r.audio = turn[t].audio /\ r.left = turn[t].left
  BY <1>1 DEF TurnType
<1>3. turn' = [turn EXCEPT ![t] = r]
  BY DEF Goto
<1> HIDE DEF r
<1> QED
  BY <1>1, <1>2, <1>3 DEF Moves

\* The turn's slice is dropped.
LEMMA DropRecord ==
  ASSUME SInv, NEW t \in Turns, NEW l \in {"over", "finish"}, turn[t].at # "none",
         turn' = [turn EXCEPT ![t] = [@ EXCEPT !.at = l, !.audio = <<>>, !.left = 0]]
  PROVE  \E r : Moves(t, r)
<1>1. turn[t] \in TurnType /\ l \in Labels
  BY TurnHas DEF Labels
<1>2. PICK r : r = [turn[t] EXCEPT !.at = l, !.audio = <<>>, !.left = 0]
  OBVIOUS
<1>3. r \in TurnType
  BY ZenonT(30), <1>1, <1>2, Emptied
<1>4. /\ r.at = l /\ r.given = turn[t].given /\ r.kind = turn[t].kind
      /\ r.audio = <<>> /\ r.left = 0
  BY <1>1, <1>2 DEF TurnType
<1>5. turn' = [turn EXCEPT ![t] = r]
  BY <1>2
<1>6. 0 \in 0..MaxChunks
  BY PipelineBounds
<1> QED
  BY <1>3, <1>4, <1>5, <1>6 DEF Moves

LEMMA LeavesRecord ==
  ASSUME SInv, NEW t \in Turns, turn[t].at # "none", Leaves(t)
  PROVE  \E r : Moves(t, r)
BY ZenonT(30), DropRecord DEF Leaves, Past

\* The turn speaks, with n chunks to go.
LEMMA SpeakRecord ==
  ASSUME SInv, NEW t \in Turns, NEW n \in 0..MaxChunks, turn[t].at # "none",
         turn' = [turn EXCEPT ![t] = [@ EXCEPT !.at = "speak", !.left = n]]
  PROVE  \E r : Moves(t, r)
<1> DEFINE r == [turn[t] EXCEPT !.at = "speak", !.left = n]
<1>1. turn[t] \in TurnType /\ n \in Int
  BY TurnHas, PipelineBounds
<1>2. /\ r \in TurnType /\ r.at = "speak" /\ r.given = turn[t].given
      /\ r.kind = turn[t].kind /\ r.audio = turn[t].audio /\ r.left = n
  BY <1>1 DEF TurnType, Labels
<1>3. turn' = [turn EXCEPT ![t] = r]
  OBVIOUS
<1> HIDE DEF r
<1> QED
  BY <1>2, <1>3 DEF Moves

LEMMA TurnSaid ==
  ASSUME SInv, NEW t \in Turns, TurnStep(t)
  PROVE  Said'
<1>0. UNCHANGED audioBuffer
  BY DEF TurnStep
<1>1. CASE UNCHANGED <<turn, p>>
  BY <1>0, <1>1, StaysSaid
<1>2. CASE Begin(t)
  <2>1. PICK l \in {"stt", "think"} : Goto(t, l)
    BY <1>2 DEF Begin
  <2>2. turn[t].at = "new" /\ l \in Labels \ {"none"}
    BY <1>2 DEF Begin, At, Labels
  <2>3. \E r : Moves(t, r)
    BY <2>1, <2>2, GotoRecord
  <2>4. p'.heard = p.heard /\ p'.isSpeaking = p.isSpeaking
    BY <1>2, Numbers DEF Begin, FlagType
  <2> QED
    BY <1>0, <2>3, <2>4, MovesSaid
<1>3. CASE Transcribe(t)
  <2>1. turn[t].at = "stt" /\ "think" \in Labels \ {"none"} /\ UNCHANGED p
    BY <1>3 DEF Transcribe, At, Labels
  <2>2. Leaves(t) \/ Goto(t, "think")
    BY <1>3 DEF Transcribe, Proceed
  <2>3. \E r : Moves(t, r)
    BY <2>1, <2>2, GotoRecord, LeavesRecord
  <2> QED
    BY <1>0, <2>1, <2>3, MovesSaid
<1>4. CASE Generate(t)
  <2>1. turn[t].at = "think" /\ "say" \in Labels \ {"none"} /\ UNCHANGED p
    BY <1>4 DEF Generate, At, Labels
  <2>2. Leaves(t) \/ Goto(t, "say") \/ UNCHANGED turn
    BY <1>4 DEF Generate, Proceed
  <2>3. CASE Leaves(t) \/ Goto(t, "say")
    <3>1. \E r : Moves(t, r)
      BY <2>1, <2>3, GotoRecord, LeavesRecord
    <3> QED
      BY <1>0, <2>1, <3>1, MovesSaid
  <2> QED
    BY <1>1, <2>1, <2>2, <2>3
<1>5. CASE Synthesize(t)
  <2>1. turn[t].at = "say" /\ UNCHANGED p
    BY ZenonT(30), <1>5 DEF Synthesize, At
  <2>2. \/ Leaves(t)
        \/ \E n \in 0..MaxChunks :
             turn' = [turn EXCEPT ![t] = [@ EXCEPT !.at = "speak", !.left = n]]
    BY ZenonT(30), <1>5 DEF Synthesize
  <2>3. \E r : Moves(t, r)
    BY ZenonT(30), <2>1, <2>2, SpeakRecord, LeavesRecord
  <2> QED
    BY <1>0, <2>1, <2>3, MovesSaid
<1>6. CASE Speak(t)
  <2>1. turn[t].at = "speak" /\ "send" \in Labels \ {"none"} /\ UNCHANGED p
    BY <1>6 DEF Speak, At, Labels
  <2>2. Leaves(t) \/ (Goto(t, "send") /\ turn[t].left # 0)
    BY <1>6 DEF Speak
  <2>3. \E r : Moves(t, r)
    BY <2>1, <2>2, GotoRecord, LeavesRecord
  <2> QED
    BY <1>0, <2>1, <2>3, MovesSaid
<1>7. CASE Send(t)
  <2>1. turn[t].at = "send" /\ UNCHANGED p
    BY <1>7 DEF Send, At
  <2>2. \/ Leaves(t)
        \/ turn' = [turn EXCEPT ![t] = [@ EXCEPT !.at = "speak",
                                                 !.left = turn[t].left - 1]]
    BY <1>7 DEF Send
  <2>3. turn[t].left - 1 \in 0..MaxChunks
    <3>1. turn[t].left \in 0..MaxChunks /\ turn[t].left # 0
      BY <2>1 DEF SInv, Said, Held
    <3> QED
      BY <3>1, PipelineBounds
  <2>4. \E r : Moves(t, r)
    BY ZenonT(30), <2>1, <2>2, <2>3, SpeakRecord, LeavesRecord
  <2> QED
    BY <1>0, <2>1, <2>4, MovesSaid
<1>8. CASE SendGivesUp(t)
  <2>1. turn[t].at = "send" /\ Leaves(t) /\ UNCHANGED p
    BY <1>8 DEF SendGivesUp, At
  <2>2. \E r : Moves(t, r)
    BY <2>1, LeavesRecord
  <2> QED
    BY <1>0, <2>1, <2>2, MovesSaid
<1>9. CASE Finish(t)
  <2>1. turn[t].at = "finish" /\ Past(t)
    BY <1>9 DEF Finish, At
  <2>2. \E r : Moves(t, r)
    BY ZenonT(30), <2>1, DropRecord DEF Past
  <2>3. p'.heard = p.heard /\ p'.isSpeaking = p.isSpeaking
    BY <1>9, Numbers DEF Finish, FlagType
  <2> QED
    BY <1>0, <2>2, <2>3, MovesSaid
<1> QED
  BY <1>1, <1>2, <1>3, <1>4, <1>5, <1>6, <1>7, <1>8, <1>9 DEF TurnStep, SendPanics
-----------------------------------------------------------------------------
(* The others. *)

\* A turn starts with nothing said to it: the greeting, or a text.
LEMMA StartsSilent ==
  ASSUME SInv, NEW t \in Turns, NEW r,
         \/ t = 0 /\ r = Turn("greeting", "say", <<>>, <<>>)
         \/ t \in NextTurns /\ r = Turn("typed", "new", <<>>, <<>>),
         turn' = [turn EXCEPT ![t] = r], UNCHANGED <<p, audioBuffer>>
  PROVE  Said'
<1>1. /\ r.given = <<>> /\ r.audio = <<>> /\ r.left = 0 /\ r.kind # "voice"
      /\ r.at \notin {"none", "send"}
  BY DEF Turn
<1>2. /\ turn'[t] = r /\ \A u \in Turns \ {t} : turn'[u] = turn[u]
  BY Numbers
<1>3. turn[t].given = <<>>
  <2>1. t = 0 \/ turn[t].at = "none"
    BY DEF NextTurns, Unused, At
  <2> QED
    BY <2>1 DEF SInv, Said, Passed
<1>4. \A u \in Turns : turn'[u].given = turn[u].given
  BY <1>1, <1>2, <1>3
<1>5. Spent' = Spent
  BY DEF Spent
<1>6. 1..MaxTurns \subseteq Turns /\ 0 \in Turns /\ Len(<<>>) = 0
      /\ 0 \in 0..MaxChunks /\ 0 <= MaxHeard
  BY PipelineBounds DEF Turns
<1>7. Buffered'
  BY <1>5 DEF SInv, Said, Buffered
<1>8. Passed'
  <2>1. turn'[0].given = <<>>
    BY <1>4, <1>6 DEF SInv, Said, Passed
  <2>2. ASSUME NEW u \in Turns
        PROVE  /\ Len(turn'[u].given) <= MaxHeard
               /\ \A i \in 1..Len(turn'[u].given) : turn'[u].given[i] \in 1..Spent'
               /\ \A i, j \in 1..Len(turn'[u].given) :
                    i < j => turn'[u].given[i] < turn'[u].given[j]
               /\ turn'[u].at = "none" => turn'[u].given = <<>>
    <3>1. turn'[u].at = "none" => turn[u].at = "none"
      BY <1>1, <1>2
    <3> QED
      BY <1>4, <1>5, <3>1 DEF SInv, Said, Passed
  <2>3. ASSUME NEW u \in Turns, NEW v \in Turns, u < v
        PROVE  \A i \in 1..Len(turn'[u].given), j \in 1..Len(turn'[v].given) :
                 turn'[u].given[i] < turn'[v].given[j]
    <3>1. turn'[u].given = turn[u].given /\ turn'[v].given = turn[v].given
      BY <1>4
    <3> QED
      BY <2>3, <3>1 DEF SInv, Said, Passed
  <2>4. ASSUME NEW u \in 1..MaxTurns, NEW v \in 1..MaxTurns, u < v,
               turn'[v].at # "none"
        PROVE  turn'[u].at # "none"
    <3>1. CASE v = t
      <4>1. t \in NextTurns
        <5>1. t # 0
          BY <3>1, PipelineBounds
        <5> QED
          BY <5>1
      <4>2. u # t
        BY <2>4, <3>1, PipelineBounds
      <4>3. turn[u].at # "none"
        BY <2>4, <3>1, <4>1, PipelineBounds DEF NextTurns, Unused, At
      <4> QED
        BY <1>2, <1>6, <4>2, <4>3
    <3>2. CASE v # t
      <4>1. turn[u].at # "none"
        BY <1>2, <1>6, <2>4, <3>2 DEF SInv, Said, Passed
      <4> QED
        BY <1>1, <1>2, <1>6, <4>1
    <3> QED
      BY <3>1, <3>2
  <2>5. ASSUME NEW c \in 1..Spent
        PROVE  \E u \in Turns : \E i \in 1..Len(turn'[u].given) : turn'[u].given[i] = c
    <3>1. PICK u \in Turns : \E i \in 1..Len(turn[u].given) : turn[u].given[i] = c
      BY DEF SInv, Said, Passed
    <3>2. turn'[u].given = turn[u].given
      BY <1>4
    <3> QED
      BY <3>1, <3>2
  <2> QED
    BY <1>5, <2>1, <2>2, <2>3, <2>4, <2>5 DEF Passed
<1>9. Held'
  <2> SUFFICES ASSUME NEW u \in Turns
               PROVE  /\ Len(turn'[u].audio) <= MaxHeard
                      /\ \A i \in 1..Len(turn'[u].audio) :
                           turn'[u].audio[i] \in 1..MaxHeard
                      /\ turn'[u].kind = "voice" /\ turn'[u].at \in {"new", "stt"}
                           => Readable(turn[u])'
                      /\ turn'[u].left \in 0..MaxChunks
                      /\ turn'[u].at = "send" => turn'[u].left # 0
    BY DEF Held
  <2>1. CASE u = t
    BY <1>1, <1>2, <1>6, <2>1
  <2>2. CASE u # t
    BY <1>2, <2>2 DEF SInv, Said, Held, Readable
  <2> QED
    BY <2>1, <2>2
<1> QED
  BY <1>7, <1>8, <1>9 DEF Said

LEMMA HandlerSaid ==
  ASSUME SInv, Handler  PROVE Said'
<1>0. UNCHANGED audioBuffer
  BY DEF Handler, speech
<1>1. CASE UNCHANGED turn
  <2>1. p'.heard = p.heard /\ p'.isSpeaking = p.isSpeaking
    BY Numbers DEF Handler, Bind, Create, Start, Greet, Greeted, StartReturns,
                   FlagType
  <2> QED
    BY <1>0, <1>1, <2>1, StaysSaid
<1>2. CASE Greet /\ Greets
  <2>1. /\ turn' = [turn EXCEPT ![0] = Turn("greeting", "say", <<>>, <<>>)]
        /\ UNCHANGED p /\ 0 \in Turns
    BY <1>2, PipelineBounds DEF Greet, Turns
  <2> QED
    BY <1>0, <2>1, StartsSilent
<1> QED
  BY <1>1, <1>2 DEF Handler, Bind, Create, Start, Greet, Greeted

\* A voiced chunk goes to the end of the buffer, and over at most as much of
\* a slice as has been heard since it was taken.
LEMMA HearSaid ==
  ASSUME SInv, Hear  PROVE Said'
<1> DEFINE n == Len(audioBuffer) + 1
           c == p.heard + 1
<1>1. /\ p.heard < MaxHeard /\ audioBuffer' = Append(audioBuffer, c)
      /\ p' = [p EXCEPT !.isSpeaking = TRUE, !.heard = p.heard + 1]
  BY DEF Hear, Collect
<1>2. p'.heard = c /\ c \in Nat /\ n \in Nat /\ c <= MaxHeard /\ 0 < n
  BY <1>1, Numbers DEF FlagType
<1>3. /\ Len(audioBuffer') = n /\ audioBuffer'[n] = c
      /\ \A i \in 1..Len(audioBuffer) : audioBuffer'[i] = audioBuffer[i]
  BY <1>1, <1>2, Numbers, AppendProperties
<1>4. Spent' = Spent
  BY SMTT(30), <1>2, <1>3, Numbers DEF Spent
<1>5. Buffered'
  <2>1. n <= c
    BY SMTT(30), Numbers
  <2>2. \A i \in 1..n : audioBuffer'[i] = Spent + i
    <3> SUFFICES ASSUME NEW i \in 1..n  PROVE audioBuffer'[i] = Spent + i
      OBVIOUS
    <3>1. CASE i = n
      BY <1>3, <3>1, Numbers
    <3>2. CASE i \in 1..Len(audioBuffer)
      BY <1>3, <3>2 DEF SInv, Said, Buffered
    <3> QED
      BY SMTT(30), <3>1, <3>2, Numbers
  <2> QED
    BY <1>2, <1>3, <1>4, <2>1, <2>2 DEF Buffered
<1>6. ASSUME NEW t \in Turns
      PROVE  /\ turn'[t].given = turn[t].given /\ turn'[t].at = turn[t].at
             /\ turn'[t].kind = turn[t].kind /\ turn'[t].left = turn[t].left
             /\ Len(turn'[t].audio) = Len(turn[t].audio)
             /\ \A i \in 1..Len(turn[t].audio) :
                  \/ turn'[t].audio[i] = turn[t].audio[i]
                  \/ i = n /\ turn'[t].audio[i] = c
  <2>1. CASE turn'[t] = turn[t]
    BY <2>1
  <2>2. CASE n <= Len(turn[t].audio) /\ turn'[t] = [turn[t] EXCEPT !.audio[n] = c]
    <3> DEFINE a == [turn[t].audio EXCEPT ![n] = c]
    <3>1. /\ a \in Seq(Nat) /\ Len(a) = Len(turn[t].audio)
          /\ \A i \in 1..Len(turn[t].audio) : a[i] = IF i = n THEN c ELSE turn[t].audio[i]
      BY <1>2, <2>2, TurnHas, ExceptSeq
    <3>2. turn'[t] = [turn[t] EXCEPT !.audio = a]
      BY <2>2
    <3> HIDE DEF a
    <3>3. /\ turn'[t].given = turn[t].given /\ turn'[t].at = turn[t].at
          /\ turn'[t].kind = turn[t].kind /\ turn'[t].left = turn[t].left
          /\ turn'[t].audio = a
      BY <3>2, TurnHas DEF TurnType
    <3> QED
      BY <3>1, <3>3
  <2>3. \/ turn' = turn
        \/ turn' = [u \in Turns |->
                      IF u \in array.users /\ n <= Len(turn[u].audio)
                      THEN [turn[u] EXCEPT !.audio[n] = c] ELSE turn[u]]
    BY DEF Hear, Collect
  <2> QED
    BY <2>1, <2>2, <2>3
<1>7. Passed'
  <2>0. 1..MaxTurns \subseteq Turns /\ 0 \in Turns
    BY PipelineBounds DEF Turns
  <2>1. turn'[0].given = <<>>
    BY <1>6, <2>0 DEF SInv, Said, Passed
  <2>2. ASSUME NEW u \in Turns
        PROVE  /\ Len(turn'[u].given) <= MaxHeard
               /\ \A i \in 1..Len(turn'[u].given) : turn'[u].given[i] \in 1..Spent'
               /\ \A i, j \in 1..Len(turn'[u].given) :
                    i < j => turn'[u].given[i] < turn'[u].given[j]
               /\ turn'[u].at = "none" => turn'[u].given = <<>>
    BY <1>4, <1>6 DEF SInv, Said, Passed
  <2>3. ASSUME NEW u \in Turns, NEW v \in Turns, u < v
        PROVE  \A i \in 1..Len(turn'[u].given), j \in 1..Len(turn'[v].given) :
                 turn'[u].given[i] < turn'[v].given[j]
    <3>1. turn'[u].given = turn[u].given /\ turn'[v].given = turn[v].given
      BY <1>6
    <3> QED
      BY <2>3, <3>1 DEF SInv, Said, Passed
  <2>4. ASSUME NEW u \in 1..MaxTurns, NEW v \in 1..MaxTurns, u < v,
               turn'[v].at # "none"
        PROVE  turn'[u].at # "none"
    BY <1>6, <2>0, <2>4 DEF SInv, Said, Passed
  <2>5. ASSUME NEW k \in 1..Spent
        PROVE  \E u \in Turns : \E i \in 1..Len(turn'[u].given) : turn'[u].given[i] = k
    <3>1. PICK u \in Turns : \E i \in 1..Len(turn[u].given) : turn[u].given[i] = k
      BY DEF SInv, Said, Passed
    <3>2. turn'[u].given = turn[u].given
      BY <1>6
    <3> QED
      BY <3>1, <3>2
  <2> QED
    BY <1>4, <2>1, <2>2, <2>3, <2>4, <2>5 DEF Passed
<1>8. Held'
  <2> SUFFICES ASSUME NEW u \in Turns
               PROVE  /\ Len(turn'[u].audio) <= MaxHeard
                      /\ \A i \in 1..Len(turn'[u].audio) :
                           turn'[u].audio[i] \in 1..MaxHeard
                      /\ turn'[u].kind = "voice" /\ turn'[u].at \in {"new", "stt"}
                           => Readable(turn[u])'
                      /\ turn'[u].left \in 0..MaxChunks
                      /\ turn'[u].at = "send" => turn'[u].left # 0
    BY DEF Held
  <2>1. /\ Len(turn[u].audio) <= MaxHeard
        /\ \A i \in 1..Len(turn[u].audio) : turn[u].audio[i] \in 1..MaxHeard
        /\ turn[u].kind = "voice" /\ turn[u].at \in {"new", "stt"} => Readable(turn[u])
        /\ turn[u].left \in 0..MaxChunks /\ (turn[u].at = "send" => turn[u].left # 0)
    BY DEF SInv, Said, Held
  <2>2. c \in 1..MaxHeard
    BY <1>2, Numbers
  <2>3. Readable(turn[u]) => Readable(turn[u])'
    <3> SUFFICES ASSUME Readable(turn[u])  PROVE Readable(turn[u])'
      OBVIOUS
    <3> DEFINE g == turn[u].given
               last == g[Len(g)]
    <3>1. Len(g) \in Nat /\ Len(g) # 0 /\ Len(turn[u].audio) = Len(g)
      BY TurnHas DEF Readable
    <3>2. last \in 1..Spent
      BY <3>1 DEF SInv, Said, Passed
    <3>3. ASSUME NEW i \in 1..Len(g), i > c - last
          PROVE  turn'[u].audio[i] = g[i]
      <4>0. \A h, s, l, x, k \in Nat : h = s + l /\ x <= s /\ k > h + 1 - x =>
              k > h - x /\ k # l + 1
        OBVIOUS
      <4>1. i > p.heard - last /\ i # n
        <5>1. /\ p.heard \in Nat /\ Spent \in Nat /\ Len(audioBuffer) \in Nat
              /\ p.heard = Spent + Len(audioBuffer) /\ i \in Nat
              /\ last \in Nat /\ last <= Spent /\ i > p.heard + 1 - last
          <6> HIDE DEF last, g
          <6> QED
            BY SMTT(30), <3>1, <3>2, <3>3, Numbers
        <5> HIDE DEF last, g
        <5> QED
          BY <4>0, <5>1
      <4>2. turn[u].audio[i] = g[i]
        BY <4>1 DEF Readable
      <4> QED
        BY <1>6, <3>1, <4>1, <4>2
    <3> QED
      BY <1>2, <1>6, <3>1, <3>3 DEF Readable
  <2> QED
    BY <1>6, <2>1, <2>2, <2>3
<1> QED
  BY <1>5, <1>7, <1>8 DEF Said

\* The buffer becomes the utterance of the next turn, behind all the others.
LEMMA SilenceSaid ==
  ASSUME SInv, Silence  PROVE Said'
<1>1. PICK t \in NextTurns : turn' = [turn EXCEPT ![t] = Utterance(audioBuffer)]
  BY DEF Silence
<1> DEFINE r == Utterance(audioBuffer)
           n == Len(audioBuffer)
<1>2. /\ p.isSpeaking /\ p' = [p EXCEPT !.isSpeaking = FALSE]
      /\ audioBuffer' = <<>>
  BY DEF Silence
<1>3. /\ r.given = audioBuffer /\ r.audio = audioBuffer /\ r.left = 0
      /\ r.kind = "voice" /\ r.at = "new"
  BY DEF Utterance, Turn
<1>4. /\ t \in 1..MaxTurns /\ t \in Turns /\ turn[t].at = "none"
      /\ \A u \in 1..MaxTurns : turn[u].at = "none" => t <= u
  BY <1>1, PipelineBounds DEF NextTurns, Unused, At, Turns
<1>5. turn'[t] = r /\ \A u \in Turns \ {t} : turn'[u] = turn[u]
  BY <1>1, <1>4, Numbers
<1>6. /\ p'.heard = p.heard /\ p'.isSpeaking = FALSE /\ Len(audioBuffer') = 0
      /\ Spent' = p.heard
  <2>1. p'.heard = p.heard /\ p'.isSpeaking = FALSE
    BY <1>2, Numbers DEF FlagType
  <2>2. Len(audioBuffer') = 0
    BY <1>2
  <2> QED
    BY <2>1, <2>2, Numbers DEF Spent
<1>7. /\ n \in Nat /\ n # 0 /\ n <= MaxHeard /\ Spent \in Nat
      /\ p.heard \in Nat /\ p.heard = Spent + n /\ p.heard <= MaxHeard
      /\ \A i \in 1..n : audioBuffer[i] = Spent + i
  BY <1>2, Numbers DEF SInv, Said, Buffered
<1> HIDE DEF r
<1>8. Buffered'
  BY <1>6, <1>7 DEF Buffered
<1>9. turn[t].given = <<>> /\ Len(turn[t].given) = 0
  BY <1>4 DEF SInv, Said, Passed
<1>10. Passed'
  <2>0. 1..MaxTurns \subseteq Turns /\ 0 \in Turns /\ 0 # t
    BY <1>4, PipelineBounds DEF Turns
  <2>1. turn'[0].given = <<>>
    BY <1>5, <2>0 DEF SInv, Said, Passed
  <2>2. ASSUME NEW u \in Turns
        PROVE  /\ Len(turn'[u].given) <= MaxHeard
               /\ \A i \in 1..Len(turn'[u].given) : turn'[u].given[i] \in 1..Spent'
               /\ \A i, j \in 1..Len(turn'[u].given) :
                    i < j => turn'[u].given[i] < turn'[u].given[j]
               /\ turn'[u].at = "none" => turn'[u].given = <<>>
    <3>1. CASE u = t
      BY <1>3, <1>5, <1>6, <1>7, <3>1
    <3>2. CASE u # t
      <4>1. 1..Spent \subseteq 1..Spent'
        BY <1>6, <1>7
      <4> QED
        BY <1>5, <3>2, <4>1 DEF SInv, Said, Passed
    <3> QED
      BY <3>1, <3>2
  <2>3. ASSUME NEW u \in Turns, NEW v \in Turns, u < v,
               NEW i \in 1..Len(turn'[u].given), NEW j \in 1..Len(turn'[v].given)
        PROVE  turn'[u].given[i] < turn'[v].given[j]
    <3>1. CASE u = t
      <4>1. v \in 1..MaxTurns /\ v # t /\ t < v
        BY <1>4, <2>3, <3>1, PipelineBounds DEF Turns
      <4>2. turn[v].at = "none"
        BY <1>4, <4>1 DEF SInv, Said, Passed
      <4>3. Len(turn'[v].given) = 0
        BY <1>5, <4>1, <4>2 DEF SInv, Said, Passed
      <4> QED
        BY <4>3
    <3>2. CASE v = t
      <4>1. u # t
        BY <2>3, <3>2, PipelineBounds DEF Turns
      <4>2. turn'[u].given[i] \in 1..Spent
        BY <1>5, <4>1 DEF SInv, Said, Passed
      <4>3. turn'[v].given[j] = Spent + j /\ j \in 1..n
        BY <1>3, <1>5, <1>7, <3>2
      <4> QED
        BY SMTT(30), <1>7, <4>2, <4>3
    <3>3. CASE u # t /\ v # t
      BY SMTT(30), <1>5, <2>3, <3>3 DEF SInv, Said, Passed
    <3> QED
      BY <3>1, <3>2, <3>3
  <2>4. ASSUME NEW u \in 1..MaxTurns, NEW v \in 1..MaxTurns, u < v,
               turn'[v].at # "none"
        PROVE  turn'[u].at # "none"
    <3>1. CASE u = t
      BY <1>3, <1>5, <3>1
    <3>2. CASE u # t
      <4>1. turn[u].at # "none"
        <5>1. CASE v = t
          BY <1>4, <2>4, <5>1
        <5>2. CASE v # t
          BY <1>5, <2>0, <2>4, <5>2 DEF SInv, Said, Passed
        <5> QED
          BY <5>1, <5>2
      <4> QED
        BY <1>5, <2>0, <3>2, <4>1
    <3> QED
      BY <3>1, <3>2
  <2>5. ASSUME NEW k \in 1..p.heard
        PROVE  \E u \in Turns : \E i \in 1..Len(turn'[u].given) : turn'[u].given[i] = k
    <3>1. CASE k \in 1..Spent
      <4>1. PICK u \in Turns : \E i \in 1..Len(turn[u].given) : turn[u].given[i] = k
        BY <3>1 DEF SInv, Said, Passed
      <4>2. u # t
        BY <1>9, <4>1
      <4> QED
        BY <1>5, <4>1, <4>2
    <3>2. CASE k \notin 1..Spent
      <4>1. k - Spent \in 1..n /\ Spent + (k - Spent) = k
        BY <1>7, <3>2
      <4>2. turn'[t].given = audioBuffer
        BY <1>3, <1>5
      <4>3. audioBuffer[k - Spent] = k
        BY <1>7, <4>1
      <4> QED
        BY <1>4, <4>1, <4>2, <4>3
    <3> QED
      BY <3>1, <3>2
  <2> QED
    BY <1>6, <2>1, <2>2, <2>3, <2>4, <2>5 DEF Passed
<1>11. Held'
  <2> SUFFICES ASSUME NEW u \in Turns
               PROVE  /\ Len(turn'[u].audio) <= MaxHeard
                      /\ \A i \in 1..Len(turn'[u].audio) :
                           turn'[u].audio[i] \in 1..MaxHeard
                      /\ turn'[u].kind = "voice" /\ turn'[u].at \in {"new", "stt"}
                           => Readable(turn[u])'
                      /\ turn'[u].left \in 0..MaxChunks
                      /\ turn'[u].at = "send" => turn'[u].left # 0
    BY DEF Held
  <2>1. CASE u = t
    <3>1. 0 \in 0..MaxChunks /\ \A i \in 1..n : audioBuffer[i] \in 1..MaxHeard
      BY <1>7, PipelineBounds
    <3>2. Readable(turn[u])'
      BY <1>3, <1>5, <1>7, <2>1 DEF Readable
    <3> QED
      BY <1>3, <1>5, <1>7, <2>1, <3>1, <3>2
  <2>2. CASE u # t
    BY SMTT(30), <1>5, <1>6, <2>2 DEF SInv, Said, Held, Readable
  <2> QED
    BY <2>1, <2>2
<1> QED
  BY <1>8, <1>10, <1>11 DEF Said

LEMMA InitSaid == Init => Said
<1> SUFFICES ASSUME Init  PROVE Said
  OBVIOUS
<1>1. /\ turn = [t \in Turns |-> NoTurn] /\ audioBuffer = <<>>
      /\ p.heard = 0 /\ p.isSpeaking = FALSE
  BY DEF Init
<1>2. /\ NoTurn.given = <<>> /\ NoTurn.audio = <<>> /\ NoTurn.at = "none"
      /\ NoTurn.left = 0 /\ NoTurn.kind = "none"
  BY DEF NoTurn, Turn
<1> HIDE DEF NoTurn
<1>3. Len(<<>>) = 0 /\ Len(audioBuffer) = 0 /\ Spent = 0
  <2>1. Len(<<>>) = 0
    BY EmptySeq
  <2>2. Len(audioBuffer) = 0 /\ p.heard = 0
    BY <1>1, <2>1
  <2>3. 0 - 0 = 0
    OBVIOUS
  <2> QED
    BY <2>1, <2>2, <2>3 DEF Spent
<1>4. Buffered
  BY <1>1, <1>3, PipelineBounds DEF Buffered
<1>5. Passed
  <2>1. 0 \in Turns /\ 1..MaxTurns \subseteq Turns
    BY PipelineBounds DEF Turns
  <2> QED
    BY <1>1, <1>2, <1>3, <2>1, PipelineBounds DEF Passed
<1>6. Held
  BY <1>1, <1>2, <1>3, PipelineBounds DEF Held
<1> QED
  BY <1>4, <1>5, <1>6 DEF Said

LEMMA NextSaid == ASSUME SInv, [Next]_vars  PROVE SInv'
<1>1. Inv'
  BY NextInv DEF SInv
<1>2. Said'
  <2>1. CASE Handler
    BY <2>1, HandlerSaid
  <2>2. CASE Loops
    <3>1. CASE Silence
      BY <3>1, SilenceSaid
    <3>2. CASE AudioLoop \/ SilenceLoopEnds
      <4>1. /\ UNCHANGED <<turn, audioBuffer>>
            /\ p'.heard = p.heard /\ p'.isSpeaking = p.isSpeaking
        BY <3>2, Numbers DEF AudioLoop, TestBargeIn, BargeIn, Interrupt,
              Clear, AudioLoopEnds, SilenceLoopEnds, speech, FlagType
      <4> QED
        BY <4>1, StaysSaid
    <3> QED
      BY <2>2, <3>1, <3>2 DEF Loops
  <2>3. CASE Closing \/ Ends \/ WriteLoop
    <3>1. UNCHANGED <<turn, audioBuffer>>
      BY <2>3 DEF Closing, Ends, WriteLoop, speech
    <3>2. p'.heard = p.heard /\ p'.isSpeaking = p.isSpeaking
      <4>1. CASE Stop \/ Expire
        BY <4>1, Numbers DEF Stop, Expire, FlagType
      <4> QED
        BY <2>3, <4>1 DEF Closing, Ends, WriteLoop, CloseConn, ReaderCloses,
                          SessionCloses, StreamEnds, Stalls
    <3> QED
      BY <3>1, <3>2, StaysSaid
  <2>4. CASE \E t \in Turns : TurnStep(t)
    BY <2>4, TurnSaid
  <2>5. CASE Conversation
    <3>1. CASE SendText
      <4>1. PICK t \in NextTurns :
              turn' = [turn EXCEPT ![t] = Turn("typed", "new", <<>>, <<>>)]
        BY <3>1 DEF SendText
      <4>2. t \in Turns /\ UNCHANGED <<p, audioBuffer>>
        BY <3>1, PipelineBounds DEF SendText, speech, NextTurns, Unused, Turns
      <4> QED
        BY <4>1, <4>2, StartsSilent
    <3>2. CASE AppInterrupts
      <4>1. /\ UNCHANGED <<turn, audioBuffer>>
            /\ p'.heard = p.heard /\ p'.isSpeaking = p.isSpeaking
        BY <3>2, Numbers DEF AppInterrupts, Interrupt, speech, FlagType
      <4> QED
        BY <4>1, StaysSaid
    <3> QED
      BY <2>5, <3>1, <3>2, HearSaid DEF Conversation
  <2>6. CASE UNCHANGED vars
    BY <2>6, StaysSaid DEF vars, speech
  <2> QED
    BY <2>1, <2>2, <2>3, <2>4, <2>5, <2>6 DEF Next, Program, Environment
<1> QED
  BY <1>1, <1>2 DEF SInv

LEMMA Inductive == Spec => []SInv
<1>1. Init => SInv
  BY InitInv, InitSaid DEF SInv
<1> QED
  BY <1>1, NextSaid, PTL DEF Spec
-----------------------------------------------------------------------------
(* What it shows. *)

\* Nothing the caller says is lost, repeated or reordered on its way into the
\* utterances, for any number of chunks and turns.
THEOREM HeardOnce == Spec => []EveryChunkHeardOnce
<1>1. SInv => EveryChunkHeardOnce
  <2> SUFFICES ASSUME SInv  PROVE EveryChunkHeardOnce
    OBVIOUS
  <2> DEFINE U == Utterances
             b == MaxTurns + 1
  <2>1. /\ DOMAIN U = 1..b /\ b \in Nat /\ b \in 1..b /\ U[b] = audioBuffer
        /\ \A t \in 1..MaxTurns : t \in 1..b /\ t \in Turns /\ U[t] = turn[t].given
        /\ \A t \in 1..b : t = b \/ t \in 1..MaxTurns
        /\ \A t \in 1..MaxTurns : t < b /\ ~(b < t)
    BY PipelineBounds DEF Utterances, Turns
  <2> HIDE DEF U, b
  <2>2. /\ DOMAIN U[b] = 1..Len(audioBuffer)
        /\ \A i \in DOMAIN U[b] : U[b][i] = Spent + i
    <3>1. audioBuffer \in Seq(Nat)
      BY Numbers DEF SInv, Said
    <3>2. DOMAIN audioBuffer = 1..Len(audioBuffer)
      BY <3>1, LenProperties
    <3>3. \A i \in 1..Len(audioBuffer) : audioBuffer[i] = Spent + i
      BY DEF SInv, Said, Buffered
    <3> QED
      BY <2>1, <3>2, <3>3
  <2>3. ASSUME NEW t \in 1..MaxTurns
        PROVE  /\ DOMAIN U[t] = 1..Len(turn[t].given)
               /\ \A i \in DOMAIN U[t] : U[t][i] \in 1..Spent
    BY <2>1, TurnHas DEF SInv, Said, Passed
  <2>4. ASSUME NEW t \in DOMAIN U, NEW i \in DOMAIN U[t]
        PROVE  U[t][i] \in 1..p.heard
    <3>1. CASE t = b
      BY SMTT(30), <2>2, <2>4, <3>1, Numbers
    <3>2. CASE t \in 1..MaxTurns
      BY <2>3, <2>4, <3>2, Numbers
    <3> QED
      BY <2>1, <3>1, <3>2
  <2>5. ASSUME NEW c \in 1..p.heard
        PROVE  \E t \in DOMAIN U : \E i \in DOMAIN U[t] : U[t][i] = c
    <3>1. CASE c \in 1..Spent
      <4>1. PICK t \in Turns : \E i \in 1..Len(turn[t].given) : turn[t].given[i] = c
        BY <3>1 DEF SInv, Said, Passed
      <4>2. t # 0
        <5>1. Len(turn[0].given) = 0
          BY DEF SInv, Said, Passed
        <5> QED
          BY <4>1, <5>1
      <4>3. t \in 1..MaxTurns
        BY <4>2, PipelineBounds DEF Turns
      <4> QED
        BY <2>1, <2>3, <4>1, <4>3
    <3>2. CASE c \notin 1..Spent
      <4>1. c - Spent \in 1..Len(audioBuffer) /\ Spent + (c - Spent) = c
        BY SMTT(30), <3>2, Numbers
      <4> QED
        BY <2>1, <2>2, <4>1
    <3> QED
      BY <3>1, <3>2
  <2>6. Heard = 1..p.heard
    BY <2>4, <2>5 DEF Heard, U
  <2>7. ASSUME NEW t \in DOMAIN U, NEW u \in DOMAIN U,
               NEW i \in DOMAIN U[t], NEW j \in DOMAIN U[u],
               t < u \/ (t = u /\ i < j)
        PROVE  U[t][i] < U[u][j]
    <3>1. CASE t = b
      <4>1. u = b /\ i < j
        BY <2>1, <2>7, <3>1
      <4> QED
        BY <2>2, <3>1, <4>1, Numbers
    <3>2. CASE t \in 1..MaxTurns /\ u = b
      <4>1. U[t][i] \in 1..Spent /\ U[u][j] = Spent + j /\ j \in 1..Len(audioBuffer)
        BY <2>2, <2>3, <3>2
      <4> QED
        BY <4>1, Numbers
    <3>3. CASE t \in 1..MaxTurns /\ u \in 1..MaxTurns
      <4>1. /\ t \in Turns /\ u \in Turns /\ U[t] = turn[t].given
            /\ U[u] = turn[u].given /\ i \in 1..Len(turn[t].given)
            /\ j \in 1..Len(turn[u].given)
        BY <2>1, <2>3, <3>3
      <4>2. CASE t < u
        BY <4>1, <4>2 DEF SInv, Said, Passed
      <4>3. CASE t = u /\ i < j
        BY <4>1, <4>3 DEF SInv, Said, Passed
      <4> QED
        BY <2>7, <4>2, <4>3
    <3> QED
      BY <2>1, <3>1, <3>2, <3>3
  <2> QED
    BY <2>6, <2>7 DEF EveryChunkHeardOnce, U
<1> QED
  BY <1>1, Inductive, PTL

\* However often the buffer's array is reused before an utterance is
\* transcribed, at most as many of its chunks are overwritten as have been
\* heard since.
THEOREM SurvivesReuse == Spec => []SpeechSurvives
<1>1. SInv => SpeechSurvives
  <2> SUFFICES ASSUME SInv, NEW t \in Turns, turn[t].kind = "voice",
                      turn[t].at \in {"new", "stt"}
               PROVE  LET said  == turn[t].given
                          since == p.heard - Last(said)
                      IN /\ Len(turn[t].audio) = Len(said)
                         /\ \A i \in DOMAIN said :
                              i > since => turn[t].audio[i] = said[i]
    BY DEF SpeechSurvives
  <2>1. Readable(turn[t])
    BY DEF SInv, Said, Held
  <2> QED
    BY <2>1, TurnHas DEF Readable, Last
<1> QED
  BY <1>1, Inductive, PTL
-----------------------------------------------------------------------------
(* The types of the other variables. *)

Handlers == {"bind", "create", "start", "greet", "greeting", "wait", "over"}
AudioLoops == {"off", "run", "test", "interrupt", "clear", "over"}
SilenceLoops == {"off", "run", "over"}
Closes == {"idle", "stop", "conn", "over"}
PcType == [handler : Handlers, audio : AudioLoops, silence : SilenceLoops,
           close : Closes]
ConnType == [bound : BOOLEAN, wsOpen : BOOLEAN, shut : BOOLEAN,
             writing : BOOLEAN, stalled : BOOLEAN]

\* Where the handler, the loops and Close are, the connection, and the bounds;
\* the array is never larger than twice what has been heard.
Ranges ==
  /\ pc \in PcType
  /\ conn \in ConnType
  /\ array \in [cap : 0..2 * MaxHeard, users : SUBSET Turns]
  /\ queued \in 0..OutCap
  /\ moves \in 0..MaxMoves
  /\ panic \in {"none", "audioOut", "ctx"}

\* A generator has called at most MaxCalls tools in each of its rounds.
Rounds ==
  \A g \in Generators :
    /\ llm[g].round <= MaxRounds /\ llm[g].pending <= MaxCalls
    /\ llm[g].calls <= llm[g].round * MaxCalls

TInv == SInv /\ Balanced /\ Ranges /\ Rounds

\* Arithmetic.
LEMMA TimesMonotone == \A a, b, c \in Nat : a <= b => a * c <= b * c
OBVIOUS
LEMMA TimesNext == \A a, c \in Nat : (a + 1) * c = a * c + c
OBVIOUS
LEMMA TimesNat == \A a, c \in Nat : a * c \in Nat
OBVIOUS

LEMMA RoundsStep ==
  ASSUME Balanced, Rounds, NEW t, NEW n \in 1..MaxCalls,
         CallTools(t, n) \/ RunTool(t) \/ Replies(t) \/ GenerateFails(t)
  PROVE  Rounds'
<1>0. MaxRounds \in Nat /\ MaxCalls \in Nat /\ n \in Nat /\ n <= MaxCalls
  BY RoundBounds
<1>1. CASE t \notin Generators
  <2>1. UNCHANGED llm
    BY <1>1 DEF CallTools, RunTool, Replies, GenerateFails, Balanced
  <2> QED
    BY <2>1 DEF Rounds
<1>2. CASE t \in Generators
  <2>1. \A g \in Generators \ {t} : llm'[g] = llm[g]
    BY DEF CallTools, RunTool, Replies, GenerateFails, Balanced
  <2>2. llm[t] \in Count
    BY <1>2 DEF Balanced
  <2>3. /\ llm[t].round <= MaxRounds /\ llm[t].pending <= MaxCalls
        /\ llm[t].calls <= llm[t].round * MaxCalls
    BY <1>2 DEF Rounds
  <2>4. /\ llm'[t].round <= MaxRounds /\ llm'[t].pending <= MaxCalls
        /\ llm'[t].calls <= llm'[t].round * MaxCalls
    <3>1. CASE CallTools(t, n)
      <4>1. /\ llm'[t].round = llm[t].round + 1 /\ llm'[t].pending = n
            /\ llm'[t].calls = llm[t].calls + n /\ llm[t].round < MaxRounds
        BY <1>2, <3>1 DEF CallTools, Requests, Balanced
      <4>2. llm[t].round \in Nat /\ llm[t].calls \in Nat
        BY <2>2 DEF Count
      <4>3. (llm[t].round + 1) * MaxCalls = llm[t].round * MaxCalls + MaxCalls
        BY <1>0, <4>2, TimesNext
      <4>4. llm[t].round * MaxCalls \in Nat
        BY <1>0, <4>2, TimesNat
      <4>5. \A c, k, r, m \in Nat : c <= r /\ k <= m => c + k <= r + m
        OBVIOUS
      <4>6. llm[t].calls + n <= llm[t].round * MaxCalls + MaxCalls
        BY <1>0, <2>3, <4>2, <4>4, <4>5
      <4>7. llm[t].round + 1 <= MaxRounds
        BY <1>0, <4>1, <4>2
      <4> QED
        BY <1>0, <4>1, <4>3, <4>6, <4>7
    <3>2. CASE RunTool(t)
      <4>1. /\ llm'[t].round = llm[t].round /\ llm'[t].calls = llm[t].calls
            /\ llm'[t].pending = llm[t].pending - 1
        BY <1>2, <2>2, <3>2 DEF RunTool, Balanced, Count
      <4>2. \A a, b \in Nat : a <= b => a - 1 <= b
        OBVIOUS
      <4>3. llm[t].pending \in Nat
        BY <2>2 DEF Count
      <4>4. llm[t].pending - 1 <= MaxCalls
        BY <1>0, <2>3, <4>2, <4>3
      <4> QED
        BY <2>3, <4>1, <4>4
    <3>3. CASE Replies(t) \/ GenerateFails(t)
      <4>1. llm'[t].round = 0 /\ llm'[t].calls = 0 /\ llm'[t].pending = 0
        BY <1>2, <3>3 DEF Replies, GenerateFails, Balanced, Fresh
      <4>2. 0 * MaxCalls = 0
        BY <1>0
      <4>3. 0 <= MaxRounds /\ 0 <= MaxCalls /\ 0 <= 0
        BY <1>0
      <4> QED
        BY <4>1, <4>2, <4>3
    <3> QED
      BY <3>1, <3>2, <3>3
  <2> QED
    BY <2>1, <2>4 DEF Rounds
<1> QED
  BY <1>1, <1>2

LEMMA PcRange ==
  ASSUME Ranges
  PROVE  /\ \A l \in Handlers : [pc EXCEPT !.handler = l] \in PcType
         /\ \A l \in AudioLoops : [pc EXCEPT !.audio = l] \in PcType
         /\ \A l \in SilenceLoops : [pc EXCEPT !.silence = l] \in PcType
         /\ \A l \in Closes : [pc EXCEPT !.close = l] \in PcType
         /\ \A h \in Handlers, a \in AudioLoops, s \in SilenceLoops :
              [pc EXCEPT !.handler = h, !.audio = a, !.silence = s] \in PcType
<1> pc \in PcType
  BY DEF Ranges
<1> QED
  BY ZenonT(30) DEF PcType

LEMMA ConnRange ==
  ASSUME Ranges, NEW b \in BOOLEAN
  PROVE  /\ [conn EXCEPT !.bound = b] \in ConnType
         /\ [conn EXCEPT !.wsOpen = b] \in ConnType
         /\ [conn EXCEPT !.shut = b] \in ConnType
         /\ [conn EXCEPT !.writing = b] \in ConnType
         /\ [conn EXCEPT !.stalled = b] \in ConnType
<1> conn \in ConnType
  BY DEF Ranges
<1> QED
  BY DEF ConnType

LEMMA HandlerRange ==
  ASSUME Ranges, Handler
  PROVE  Ranges'
<1>1. UNCHANGED <<array, queued, moves, panic>>
  BY DEF Handler, speech
<1>2. {"run", "off"} \subseteq AudioLoops /\ "run" \in SilenceLoops
  BY DEF AudioLoops, SilenceLoops
<1>3. {"create", "start", "greet", "greeting", "wait", "over"} \subseteq Handlers
  BY DEF Handlers
<1>4. pc' \in PcType
  <2>1. CASE \E l \in {"create", "start", "greet", "greeting", "wait", "over"} :
               pc' = [pc EXCEPT !.handler = l]
    BY ZenonT(30), <1>3, <2>1, PcRange
  <2>2. CASE Spawned("wait")
    BY ZenonT(30), <1>2, <1>3, <2>2, PcRange DEF Spawned
  <2> QED
    BY <2>1, <2>2 DEF Handler, Bind, Create, Start, Greet, Greeted, StartReturns,
                      HandlerSteps
<1>5. conn' \in ConnType
  <2>1. CASE Bind
    <3>1. conn' = [conn EXCEPT !.bound = TRUE]
      BY <2>1 DEF Bind
    <3>2. \A b \in BOOLEAN : [conn EXCEPT !.bound = b] \in ConnType
      BY ConnRange
    <3> QED
      BY <3>1, <3>2
  <2>2. CASE UNCHANGED conn
    BY <2>2 DEF Ranges
  <2> QED
    BY <2>1, <2>2 DEF Handler, Create, Start, Greet, Greeted
<1> QED
  BY <1>1, <1>4, <1>5 DEF Ranges

\* A chunk that does not fit moves the buffer to an array of twice the size, or
\* of the size it needs.
LEMMA HearRange ==
  ASSUME SInv, Ranges, Hear, UNCHANGED <<conn, panic>>
  PROVE  Ranges'
<1>1. pc' \in PcType
  <2>1. pc' = [pc EXCEPT !.audio = "test"] /\ "test" \in AudioLoops
    BY DEF Hear, AudioLoops
  <2> QED
    BY ZenonT(30), <2>1, PcRange
<1>2. array' \in [cap : 0..2 * MaxHeard, users : SUBSET Turns]
  <2>1. /\ array \in [cap : 0..2 * MaxHeard, users : SUBSET Turns]
        /\ array.cap \in Nat
    BY PipelineBounds DEF Ranges
  <2>2. Len(audioBuffer) + 1 \in Nat /\ Len(audioBuffer) + 1 <= MaxHeard
    <3>1. p.heard < MaxHeard /\ Len(audioBuffer) <= p.heard
      BY DEF Hear, SInv, Said, Buffered
    <3> QED
      BY <3>1, Numbers
  <2>3. CASE UNCHANGED array
    BY <2>1, <2>3
  <2>4. CASE /\ ~(Len(audioBuffer) + 1 <= array.cap)
             /\ array' = [cap |-> IF Len(audioBuffer) + 1 < 2 * array.cap
                                  THEN 2 * array.cap ELSE Len(audioBuffer) + 1,
                          users |-> {}]
    <3>1. \A n, c, m \in Nat :
            ~(n <= c) /\ n <= m => /\ n \in 0..2 * m
                                   /\ 2 * c \in 0..2 * m
      OBVIOUS
    <3>2. /\ Len(audioBuffer) + 1 \in 0..2 * MaxHeard
          /\ 2 * array.cap \in 0..2 * MaxHeard
      BY <2>1, <2>2, <2>4, <3>1, PipelineBounds
    <3> QED
      BY <2>4, <3>2
  <2> QED
    BY <2>3, <2>4 DEF Hear, Collect
<1>3. moves' \in 0..MaxMoves
  BY PipelineBounds DEF Hear, Moved, Ranges
<1> QED
  BY <1>1, <1>2, <1>3 DEF Hear, Ranges

LEMMA ConversationRange ==
  ASSUME SInv, Ranges, Conversation
  PROVE  Ranges'
<1>1. CASE SendText \/ AppInterrupts
  <2>1. moves' \in 0..MaxMoves
    BY <1>1, PipelineBounds DEF SendText, AppInterrupts, Moved, Ranges
  <2>2. UNCHANGED <<pc, conn, array, queued, panic>>
    BY <1>1 DEF Conversation, Hear, SendText, AppInterrupts, speech
  <2> QED
    BY <2>1, <2>2 DEF Ranges
<1> QED
  BY <1>1, HearRange DEF Conversation

LEMMA LoopsRange ==
  ASSUME Ranges, Loops
  PROVE  Ranges'
<1>1. UNCHANGED <<conn, queued, moves, panic>>
  BY DEF Loops, AudioLoop, TestBargeIn, BargeIn, Clear, AudioLoopEnds, Silence,
         SilenceLoopEnds
<1>2. pc' \in PcType
  <2>1. {"interrupt", "clear", "run", "over"} \subseteq AudioLoops /\ "over" \in SilenceLoops
    BY DEF AudioLoops, SilenceLoops
  <2>2. \/ \E l \in {"interrupt", "clear", "run", "over"} : pc' = [pc EXCEPT !.audio = l]
        \/ pc' = [pc EXCEPT !.silence = "over"]
        \/ pc' = pc
    BY DEF Loops, AudioLoop, TestBargeIn, BargeIn, Clear, AudioLoopEnds, Silence,
           SilenceLoopEnds
  <2>3. pc \in PcType
    BY DEF Ranges
  <2> QED
    BY ZenonT(30), <2>1, <2>2, <2>3, PcRange
<1>3. array' \in [cap : 0..2 * MaxHeard, users : SUBSET Turns]
  <2>1. array \in [cap : 0..2 * MaxHeard, users : SUBSET Turns]
    BY DEF Ranges
  <2>2. CASE Silence
    <3>1. PICK t \in NextTurns : array' = [array EXCEPT !.users = @ \cup {t}]
      BY <2>2 DEF Silence
    <3>2. t \in Turns
      BY PipelineBounds DEF NextTurns, Unused, Turns
    <3> QED
      BY <2>1, <3>1, <3>2
  <2>3. CASE UNCHANGED array
    BY <2>1, <2>3
  <2> QED
    BY <2>2, <2>3 DEF Loops, AudioLoop, TestBargeIn, BargeIn, Clear, AudioLoopEnds,
                      SilenceLoopEnds, speech
<1> QED
  BY <1>1, <1>2, <1>3 DEF Ranges

LEMMA TurnRange ==
  ASSUME Ranges, NEW t \in Turns, TurnStep(t)
  PROVE  Ranges'
<1>1. UNCHANGED <<pc, conn, moves>>
  BY DEF TurnStep
<1>2. panic' \in {"none", "audioOut", "ctx"}
  BY DEF TurnStep, SendPanics, Ranges
<1>3. array' \in [cap : 0..2 * MaxHeard, users : SUBSET Turns]
  <2>1. array \in [cap : 0..2 * MaxHeard, users : SUBSET Turns]
    BY DEF Ranges
  <2>2. UNCHANGED array \/ array' = [array EXCEPT !.users = @ \ {t}]
    BY ZenonT(30) DEF TurnStep, Begin, Transcribe, Generate, Synthesize, Speak, Send,
           SendGivesUp, SendPanics, Finish
  <2> QED
    BY <2>1, <2>2
<1>4. queued' \in 0..OutCap
  <2>1. queued \in 0..OutCap
    BY DEF Ranges
  <2>2. UNCHANGED queued \/ (queued < OutCap /\ queued' = queued + 1)
    BY ZenonT(30) DEF TurnStep, Begin, Transcribe, Generate, Synthesize, Speak, Send,
           SendGivesUp, SendPanics, Finish
  <2> QED
    BY <2>1, <2>2, PipelineBounds
<1> QED
  BY <1>1, <1>2, <1>3, <1>4 DEF Ranges

LEMMA EndsRange ==
  ASSUME Ranges, Closing \/ Ends \/ WriteLoop
  PROVE  Ranges'
<1>1. UNCHANGED array /\ panic' = panic
  BY DEF Closing, Ends, WriteLoop, speech
<1>2. pc' \in PcType
  <2>1. {"stop", "conn", "over"} \subseteq Closes
    BY DEF Closes
  <2>2. \/ \E l \in {"stop", "conn", "over"} : pc' = [pc EXCEPT !.close = l]
        \/ pc' = pc
    BY DEF Closing, Ends, WriteLoop, Stop, CloseConn, ReaderCloses, SessionCloses,
           StreamEnds, Stalls, Expire, CloseSteps
  <2>3. pc \in PcType
    BY DEF Ranges
  <2> QED
    BY ZenonT(30), <2>1, <2>2, <2>3, PcRange
<1>3. conn' \in ConnType
  <2>1. conn \in ConnType
    BY DEF Ranges
  <2>2. \/ conn' = conn
        \/ \E b \in BOOLEAN : \/ conn' = [conn EXCEPT !.shut = b]
                              \/ conn' = [conn EXCEPT !.wsOpen = b]
                              \/ conn' = [conn EXCEPT !.writing = b]
                              \/ conn' = [conn EXCEPT !.stalled = b]
    <3>1. conn.wsOpen \in BOOLEAN
      BY <2>1 DEF ConnType
    <3> QED
      BY <3>1 DEF Closing, Ends, WriteLoop, Stop, CloseConn, ReaderCloses,
             SessionCloses, StreamEnds, Stalls, Expire
  <2> QED
    BY <2>1, <2>2, ConnRange
<1>4. queued' \in 0..OutCap
  <2>1. queued \in 0..OutCap
    BY DEF Ranges
  <2>2. UNCHANGED queued \/ (queued > 0 /\ queued' = queued - 1)
    BY DEF Closing, Ends, WriteLoop
  <2> QED
    BY <2>1, <2>2, PipelineBounds
<1>5. moves' \in 0..MaxMoves
  <2>1. moves \in 0..MaxMoves
    BY DEF Ranges
  <2>2. UNCHANGED moves \/ Moved
    BY DEF Closing, Ends, WriteLoop, SessionCloses, StreamEnds, Stalls, Expire
  <2> QED
    BY <2>1, <2>2, PipelineBounds DEF Moved
<1> QED
  BY <1>1, <1>2, <1>3, <1>4, <1>5 DEF Ranges

LEMMA NextRanges == SInv /\ Ranges /\ [Next]_vars => Ranges'
<1> SUFFICES ASSUME SInv, Ranges, [Next]_vars  PROVE Ranges'
  OBVIOUS
<1>1. CASE UNCHANGED vars
  BY <1>1 DEF vars, speech, Ranges
<1> QED
  BY <1>1, HandlerRange, LoopsRange, TurnRange, ConversationRange, EndsRange
     DEF Next, Program, Environment

LEMMA NextRounds == Balanced /\ Rounds /\ [Next]_vars => Rounds'
<1> SUFFICES ASSUME Balanced, Rounds, [Next]_vars  PROVE Rounds'
  OBVIOUS
<1>1. CASE UNCHANGED llm
  BY <1>1 DEF Rounds
<1>2. CASE \E t \in Turns : Generate(t)
  <2>1. PICK t \in Turns : Generate(t)
    BY <1>2
  <2>2. 1 \in 1..MaxCalls
    BY RoundBounds
  <2>3. \E n \in 1..MaxCalls : CallTools(t, n) \/ RunTool(t) \/ Replies(t)
                                \/ GenerateFails(t)
    BY <2>1, <2>2 DEF Generate
  <2> QED
    BY <2>3, RoundsStep
<1>3. CASE \E t \in Turns : TurnStep(t)
  BY ZenonT(30), <1>1, <1>2, <1>3 DEF TurnStep, Begin, Transcribe, Synthesize, Speak, Send,
                          SendGivesUp, Finish, SendPanics
<1>4. CASE Handler \/ Loops \/ Closing \/ WriteLoop
  BY <1>1, <1>4 DEF Handler, Loops, AudioLoop, TestBargeIn, BargeIn,
                    Clear, AudioLoopEnds, Silence, SilenceLoopEnds, Closing, WriteLoop
<1>5. CASE Environment
  BY <1>1, <1>5 DEF Environment, Conversation, Hear, SendText, AppInterrupts, Ends
<1> QED
  BY <1>1, <1>3, <1>4, <1>5 DEF Next, Program, vars

LEMMA InitRanges == Init => Balanced /\ Ranges /\ Rounds
<1> SUFFICES ASSUME Init  PROVE Balanced /\ Ranges /\ Rounds
  OBVIOUS
<1>1. Balanced
  BY DEF Init, Balanced, Count, Fresh
<1>2. Ranges
  BY PipelineBounds DEF Init, Ranges, PcType, Handlers, AudioLoops, SilenceLoops,
                        Closes, ConnType
<1>3. Rounds
  <2>1. \A g \in Generators :
          llm[g].round = 0 /\ llm[g].pending = 0 /\ llm[g].calls = 0
    BY ZenonT(30) DEF Init, Fresh
  <2>2. 0 * MaxCalls = 0 /\ 0 <= MaxRounds /\ 0 <= MaxCalls /\ 0 <= 0
    BY RoundBounds
  <2> QED
    BY ZenonT(30), <2>1, <2>2 DEF Rounds
<1> QED
  BY <1>1, <1>2, <1>3

\* A sequence of numbers of chunks heard is one of the slices.
LEMMA SliceOf ==
  ASSUME NEW s \in Seq(Nat), Len(s) <= MaxHeard,
         \A i \in 1..Len(s) : s[i] \in 1..MaxHeard
  PROVE  s \in Slices
<1>1. Len(s) \in 0..MaxHeard
  BY PipelineBounds
<1>2. s \in [1..Len(s) -> 1..MaxHeard]
  OBVIOUS
<1> QED
  BY <1>1, <1>2 DEF Slices

\* Every variable keeps its type: the buffer, the slices of the turns and the
\* array within what can be heard, audioOut within its capacity, and Generate
\* within its rounds; for any values of the bounds.
THEOREM TypeCorrect == Spec => []TypeOK
<1>1. TInv => TypeOK
  <2> SUFFICES ASSUME TInv  PROVE TypeOK
    OBVIOUS
  <2> USE DEF TInv
  <2>1. /\ pc \in [handler : {"bind", "create", "start", "greet", "greeting",
                              "wait", "over"},
                   audio : {"off", "run", "test", "interrupt", "clear", "over"},
                   silence : {"off", "run", "over"},
                   close : {"idle", "stop", "conn", "over"}]
        /\ conn \in [bound : BOOLEAN, wsOpen : BOOLEAN,
                     shut : BOOLEAN, writing : BOOLEAN, stalled : BOOLEAN]
        /\ array \in [cap : 0..2 * MaxHeard, users : SUBSET Turns]
        /\ queued \in 0..OutCap /\ moves \in 0..MaxMoves
        /\ panic \in {"none", "audioOut", "ctx"}
    BY DEF Ranges, PcType, Handlers, AudioLoops, SilenceLoops, Closes, ConnType
  <2>2. p \in [stored : BOOLEAN, started : BOOLEAN, ctxDone : BOOLEAN,
               done : BOOLEAN, isSpeaking : BOOLEAN, isProcessing : BOOLEAN,
               interrupted : BOOLEAN, heard : 0..MaxHeard]
    <3>1. p.heard <= MaxHeard
      BY DEF SInv, Said, Buffered
    <3>2. p.heard \in 0..MaxHeard
      BY <3>1, Numbers
    <3> QED
      BY <3>2, Numbers DEF FlagType
  <2>3. audioBuffer \in Slices
    <3>1. Len(audioBuffer) <= MaxHeard
      BY Numbers DEF SInv, Said, Buffered
    <3>2. \A i \in 1..Len(audioBuffer) : audioBuffer[i] \in 1..MaxHeard
      <4> SUFFICES ASSUME NEW i \in 1..Len(audioBuffer)
                   PROVE  audioBuffer[i] \in 1..MaxHeard
        OBVIOUS
      <4>1. audioBuffer[i] = Spent + i /\ p.heard <= MaxHeard
        BY DEF SInv, Said, Buffered
      <4> QED
        BY SMTT(30), <4>1, Numbers
    <3> QED
      BY <3>1, <3>2, Numbers, SliceOf
  <2>4. turn \in [Turns -> [kind : {"none", "greeting", "voice", "typed"},
                         at : {"none", "new", "stt", "think", "say", "speak",
                               "send", "finish", "over"},
                         given : Slices, audio : Slices, left : 0..MaxChunks]]
    <3> SUFFICES ASSUME NEW t \in Turns
                 PROVE  turn[t] \in
                          [kind : {"none", "greeting", "voice", "typed"},
                           at : {"none", "new", "stt", "think", "say", "speak",
                                 "send", "finish", "over"},
                           given : Slices, audio : Slices, left : 0..MaxChunks]
      BY Numbers
    <3>1. turn[t].given \in Slices
      <4>1. Len(turn[t].given) <= MaxHeard
        BY DEF SInv, Said, Passed
      <4>2. \A i \in 1..Len(turn[t].given) : turn[t].given[i] \in 1..MaxHeard
        <5>1. \A i \in 1..Len(turn[t].given) : turn[t].given[i] \in 1..Spent
          BY DEF SInv, Said, Passed
        <5>2. 1..Spent \subseteq 1..MaxHeard
          BY Numbers DEF SInv, Said, Buffered
        <5> QED
          BY <5>1, <5>2
      <4> QED
        BY <4>1, <4>2, TurnHas, SliceOf
    <3>2. turn[t].audio \in Slices
      <4>1. /\ Len(turn[t].audio) <= MaxHeard
            /\ \A i \in 1..Len(turn[t].audio) : turn[t].audio[i] \in 1..MaxHeard
        BY DEF SInv, Said, Held
      <4> QED
        BY <4>1, TurnHas, SliceOf
    <3>3. turn[t].left \in 0..MaxChunks
      BY DEF SInv, Said, Held
    <3> QED
      BY <3>1, <3>2, <3>3, TurnHas DEF TurnType, Labels
  <2>5. llm \in LLMType
    <3> SUFFICES ASSUME NEW g \in Generators
                 PROVE  llm[g] \in [round : 0..MaxRounds, pending : 0..MaxCalls,
                                    calls : 0..MaxRounds * MaxCalls,
                                    results : 0..MaxRounds * MaxCalls]
      BY DEF LLMType, Balanced
    <3>1. llm[g] \in Count /\ llm[g].calls = llm[g].results + llm[g].pending
      BY DEF Balanced
    <3>2. /\ llm[g].round \in Nat /\ llm[g].pending \in Nat
          /\ llm[g].calls \in Nat /\ llm[g].results \in Nat
      BY <3>1 DEF Count
    <3>3. /\ llm[g].round <= MaxRounds /\ llm[g].pending <= MaxCalls
          /\ llm[g].calls <= llm[g].round * MaxCalls
      BY DEF Rounds
    <3>4. /\ MaxRounds \in Nat /\ MaxCalls \in Nat
          /\ llm[g].round * MaxCalls \in Nat /\ MaxRounds * MaxCalls \in Nat
      BY <3>2, RoundBounds, TimesNat
    <3>5. llm[g].round * MaxCalls <= MaxRounds * MaxCalls
      BY <3>2, <3>3, <3>4, TimesMonotone
    <3>6. \A c, r, d, n, m \in Nat :
            c <= n /\ n <= m /\ c = r + d => c \in 0..m /\ r \in 0..m
      OBVIOUS
    <3>7. /\ llm[g].calls \in 0..MaxRounds * MaxCalls
          /\ llm[g].results \in 0..MaxRounds * MaxCalls
      BY <3>1, <3>2, <3>3, <3>4, <3>5, <3>6
    <3>8. llm[g].round \in 0..MaxRounds /\ llm[g].pending \in 0..MaxCalls
      BY <3>2, <3>3, <3>4
    <3> QED
      BY <3>1, <3>7, <3>8 DEF Count
  <2>6. quiet \in [Turns -> {"no", "last", "quiet", "broken", "reset", "spoke"}]
    BY DEF SInv, Inv, Typed, Debts
  <2> QED
    BY <2>1, <2>2, <2>3, <2>4, <2>5, <2>6 DEF TypeOK
<1>2. Init => TInv
  BY InitInv, InitSaid, InitRanges DEF SInv, TInv
<1>3. TInv /\ [Next]_vars => TInv'
  BY NextSaid, BalancedInv, NextRanges, NextRounds DEF TInv
<1> QED
  BY <1>1, <1>2, <1>3, PTL DEF Spec
=============================================================================
