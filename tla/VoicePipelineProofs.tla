------------------------ MODULE VoicePipelineProofs ------------------------
(***************************************************************************)
(* Proofs about VoicePipeline, for any number of turns, of voiced chunks,  *)
(* of rounds and of tool calls, and whatever the interruption mode:        *)
(* an interrupted turn says nothing more, and every tool call is answered. *)
(***************************************************************************)
EXTENDS VoicePipeline, TLAPS

Labels == {"none", "new", "stt", "think", "say", "speak", "send", "finish",
           "over"}
Debts == {"no", "last", "quiet", "broken", "reset", "spoke"}

TurnType == [kind : {"none", "greeting", "voice", "typed"}, at : Labels,
             given : Seq(Nat), audio : Seq(Nat), left : Int]

FlagType == [stored : BOOLEAN, started : BOOLEAN, ctxDone : BOOLEAN,
             done : BOOLEAN, isSpeaking : BOOLEAN, isProcessing : BOOLEAN,
             interrupted : BOOLEAN, heard : Nat]

\* What the turns and the flags are, as far as the proofs need it.
Typed ==
  /\ turn \in [Turns -> TurnType]
  /\ quiet \in [Turns -> Debts]
  /\ p \in FlagType
  /\ audioBuffer \in Seq(Nat)

\* A turn owes silence only while the flag is set, and then it cannot get past
\* the test at the top of sendAudioToTelnyx: it may be inside the select of a
\* send only with that one chunk, and owes nothing before it begins.
Silenced ==
  \A t \in Turns :
    /\ quiet[t] \in {"last", "quiet"} => p.interrupted
    /\ quiet[t] = "quiet" => turn[t].at # "send"
    /\ turn[t].at \in {"none", "new"} => quiet[t] = "no"
    /\ quiet[t] # "broken"

Inv == Typed /\ Silenced
-----------------------------------------------------------------------------
(* The moves of one turn.                                                  *)

\* Turn t goes to another label, with the flags and the debts as they were:
\* to a send only past the test, and never back to its beginning.
LEMMA TurnMoves ==
  ASSUME Inv, NEW t \in Turns, NEW at \in Labels \ {"none", "new"},
         turn[t].at \notin {"none", "new"},
         at = "send" => ~p.interrupted,
         turn' \in [Turns -> TurnType],
         turn'[t].at = at,
         \A u \in Turns \ {t} : turn'[u].at = turn[u].at,
         UNCHANGED <<p, quiet, audioBuffer>>
  PROVE  Inv'
BY DEF Inv, Typed, Silenced

\* Replacing one turn.
LEMMA Replaces ==
  ASSUME Typed, NEW t \in Turns, NEW new \in TurnType,
         turn' = [turn EXCEPT ![t] = new]
  PROVE  /\ turn' \in [Turns -> TurnType]
         /\ turn'[t] = new
         /\ \A u \in Turns \ {t} : turn'[u].at = turn[u].at
BY DEF Typed

\* Goto, Past and Leaves are such moves.
LEMMA GotoMoves ==
  ASSUME Typed, NEW t \in Turns, NEW at \in Labels, Goto(t, at)
  PROVE  /\ turn' \in [Turns -> TurnType]
         /\ turn'[t].at = at
         /\ \A u \in Turns \ {t} : turn'[u].at = turn[u].at
BY DEF Typed, Goto, TurnType

LEMMA SetAt ==
  ASSUME NEW r \in TurnType, NEW at \in Labels
  PROVE  [r EXCEPT !.at = at] \in TurnType /\ [r EXCEPT !.at = at].at = at
BY DEF TurnType

LEMMA SetAudio ==
  ASSUME NEW r \in TurnType, NEW a \in Seq(Nat)
  PROVE  [r EXCEPT !.audio = a] \in TurnType /\ [r EXCEPT !.audio = a].at = r.at
BY DEF TurnType

LEMMA SetLeft ==
  ASSUME NEW r \in TurnType, NEW n \in Int
  PROVE  [r EXCEPT !.left = n] \in TurnType /\ [r EXCEPT !.left = n].at = r.at
BY DEF TurnType

LEMMA Emptied ==
  ASSUME NEW r \in TurnType, NEW at \in Labels
  PROVE  /\ [r EXCEPT !.at = at, !.audio = <<>>, !.left = 0] \in TurnType
         /\ [r EXCEPT !.at = at, !.audio = <<>>, !.left = 0].at = at
<1>1. <<>> \in Seq(Nat) /\ 0 \in Int
  OBVIOUS
<1> DEFINE moved == [r EXCEPT !.at = at]
           silent == [moved EXCEPT !.audio = <<>>]
<1>2. moved \in TurnType /\ moved.at = at
  BY SetAt
<1>3. silent \in TurnType /\ silent.at = at
  <2> HIDE DEF moved
  <2> QED
    BY <1>1, <1>2, SetAudio
<1>4. /\ [silent EXCEPT !.left = 0] \in TurnType
      /\ [silent EXCEPT !.left = 0].at = at
  <2> HIDE DEF silent
  <2> QED
    BY <1>1, <1>3, SetLeft
<1> QED
  BY <1>4, Zenon

LEMMA PastMoves ==
  ASSUME Typed, NEW t \in Turns, Past(t)
  PROVE  /\ turn' \in [Turns -> TurnType]
         /\ turn'[t].at = "over"
         /\ \A u \in Turns \ {t} : turn'[u].at = turn[u].at
<1> DEFINE new == [turn[t] EXCEPT !.at = "over", !.audio = <<>>, !.left = 0]
<1>0. turn[t] \in TurnType /\ "over" \in Labels
  BY DEF Typed, Labels
<1>1. new \in TurnType /\ new.at = "over"
  BY ZenonT(30), <1>0, Emptied
<1>2. turn' = [turn EXCEPT ![t] = new]
  BY DEF Past
<1> HIDE DEF new
<1> QED
  BY <1>1, <1>2, Replaces

LEMMA LeavesMoves ==
  ASSUME Typed, NEW t \in Turns, Leaves(t)
  PROVE  /\ turn' \in [Turns -> TurnType]
         /\ turn'[t].at \in {"over", "finish"}
         /\ \A u \in Turns \ {t} : turn'[u].at = turn[u].at
<1>1. CASE turn[t].kind = "greeting"
  BY <1>1, PastMoves DEF Leaves
<1>2. CASE turn[t].kind # "greeting"
  <2> DEFINE new == [turn[t] EXCEPT !.at = "finish", !.audio = <<>>, !.left = 0]
  <2>0. turn[t] \in TurnType /\ "finish" \in Labels
    BY DEF Typed, Labels
  <2>1. new \in TurnType /\ new.at = "finish"
    BY ZenonT(30), <2>0, Emptied
  <2>2. turn' = [turn EXCEPT ![t] = new]
    BY <1>2 DEF Leaves
  <2> HIDE DEF new
  <2> QED
    BY <2>1, <2>2, Replaces
<1> QED
  BY <1>1, <1>2

\* A turn that has begun and leaves preserves the invariant.
LEMMA LeavesInv ==
  ASSUME Inv, NEW t \in Turns, turn[t].at \notin {"none", "new"}, Leaves(t),
         UNCHANGED <<p, quiet, audioBuffer>>
  PROVE  Inv'
BY LeavesMoves, TurnMoves DEF Inv, Labels

LEMMA GotoInv ==
  ASSUME Inv, NEW t \in Turns, NEW at \in Labels \ {"none", "new"},
         turn[t].at \notin {"none", "new"}, at = "send" => ~p.interrupted,
         Goto(t, at), UNCHANGED <<p, quiet, audioBuffer>>
  PROVE  Inv'
BY GotoMoves, TurnMoves DEF Inv, Labels
-----------------------------------------------------------------------------
(* The steps of a turn.                                                    *)

\* A turn begins: the flag is reset, and with it every debt.
LEMMA BeginInv ==
  ASSUME Inv, NEW t \in Turns, Begin(t), UNCHANGED audioBuffer
  PROVE  Inv'
<1> USE DEF Begin
<1>1. /\ turn' \in [Turns -> TurnType]
      /\ turn'[t].at \in {"stt", "think"}
      /\ \A u \in Turns \ {t} : turn'[u].at = turn[u].at
  <2>1. PICK at \in {"stt", "think"} : Goto(t, at)
    OBVIOUS
  <2> QED
    BY <2>1, GotoMoves DEF Inv, Labels
<1>2. p' \in FlagType
  BY DEF Inv, Typed, FlagType
<1>3. quiet[t] = "no"
  BY DEF At, Inv, Silenced
<1>4. \A u \in Turns : quiet'[u] \in Debts \ {"last", "quiet", "broken"}
                       /\ (quiet[u] = "no" => quiet'[u] = "no")
  BY <1>3 DEF Forgiven, Inv, Typed, Silenced, Debts
<1>5. quiet' \in [Turns -> Debts]
  BY <1>4 DEF Forgiven
<1>6. Typed'
  BY <1>1, <1>2, <1>5 DEF Inv, Typed
<1>7. Silenced'
  BY <1>1, <1>4 DEF Inv, Silenced
<1> QED
  BY <1>6, <1>7 DEF Inv

LEMMA TranscribeInv ==
  ASSUME Inv, NEW t \in Turns, Transcribe(t), UNCHANGED audioBuffer
  PROVE  Inv'
BY LeavesInv, GotoInv DEF Transcribe, Proceed, At, Labels

LEMMA GenerateInv ==
  ASSUME Inv, NEW t \in Turns, Generate(t), UNCHANGED audioBuffer
  PROVE  Inv'
<1>1. CASE UNCHANGED turn
  BY <1>1 DEF Generate, Inv, Typed, Silenced
<1>2. CASE Leaves(t) \/ Goto(t, "say")
  BY <1>2, LeavesInv, GotoInv DEF Generate, At, Labels
<1> QED
  BY <1>1, <1>2 DEF Generate, Proceed

LEMMA SynthesizeInv ==
  ASSUME Inv, NEW t \in Turns, Synthesize(t), UNCHANGED audioBuffer
  PROVE  Inv'
<1>1. CASE Leaves(t)
  BY <1>1, LeavesInv DEF Synthesize, At
<1>2. CASE \E n \in 0..MaxChunks :
             turn' = [turn EXCEPT ![t] = [@ EXCEPT !.at = "speak", !.left = n]]
  <2>1. /\ turn' \in [Turns -> TurnType]
        /\ turn'[t].at = "speak"
        /\ \A u \in Turns \ {t} : turn'[u].at = turn[u].at
    <3>1. PICK n \in 0..MaxChunks :
            turn' = [turn EXCEPT ![t] = [@ EXCEPT !.at = "speak", !.left = n]]
      BY ZenonT(30), <1>2
    <3> DEFINE new == [turn[t] EXCEPT !.at = "speak", !.left = n]
    <3>2. turn[t] \in TurnType /\ n \in Int
      BY PipelineBounds DEF Inv, Typed
    <3>3. new \in TurnType /\ new.at = "speak"
      BY <3>2 DEF TurnType, Labels
    <3>4. turn' = [turn EXCEPT ![t] = new]
      BY <3>1
    <3> HIDE DEF new
    <3> QED
      BY <3>3, <3>4, Replaces DEF Inv
  <2> QED
    BY ZenonT(30), <2>1, TurnMoves DEF Synthesize, At, Labels
<1> QED
  BY ZenonT(30), <1>1, <1>2 DEF Synthesize

\* The test of the flag.
LEMMA SpeakInv ==
  ASSUME Inv, NEW t \in Turns, Speak(t), UNCHANGED audioBuffer
  PROVE  Inv'
BY LeavesInv, GotoInv DEF Speak, At, Labels

\* A chunk is queued: a turn that owes silence is here with its last one.
LEMMA SendInv ==
  ASSUME Inv, NEW t \in Turns, Send(t), UNCHANGED audioBuffer
  PROVE  Inv'
<1>1. CASE Leaves(t) /\ UNCHANGED quiet
  BY <1>1, LeavesInv DEF Send, At
<1>2. CASE /\ turn' = [turn EXCEPT ![t] = [@ EXCEPT !.at = "speak",
                                                     !.left = turn[t].left - 1]]
           /\ Spoken(t)
  <2>1. /\ turn' \in [Turns -> TurnType]
        /\ turn'[t].at = "speak"
        /\ \A u \in Turns \ {t} : turn'[u].at = turn[u].at
    <3> DEFINE new == [turn[t] EXCEPT !.at = "speak",
                                   !.left = turn[t].left - 1]
    <3>1. turn[t] \in TurnType /\ turn[t].left - 1 \in Int
      BY DEF Inv, Typed, TurnType
    <3>2. new \in TurnType /\ new.at = "speak"
      BY <3>1 DEF TurnType, Labels
    <3>3. turn' = [turn EXCEPT ![t] = new]
      BY <1>2
    <3> HIDE DEF new
    <3> QED
      BY <3>2, <3>3, Replaces DEF Inv
  <2>2. quiet[t] \in {"no", "last", "reset", "spoke"}
    BY DEF Send, At, Inv, Typed, Silenced, Debts
  <2>3. /\ quiet' \in [Turns -> Debts]
        /\ \A u \in Turns \ {t} : quiet'[u] = quiet[u]
        /\ quiet'[t] \in {"no", "quiet", "spoke"}
        /\ quiet'[t] = "quiet" => quiet[t] = "last"
    BY <1>2, <2>2 DEF Spoken, Inv, Typed, Debts
  <2> QED
    BY ZenonT(30), <2>1, <2>3 DEF Send, Inv, Typed, Silenced
<1> QED
  BY <1>1, <1>2 DEF Send

LEMMA FinishInv ==
  ASSUME Inv, NEW t \in Turns, Finish(t), UNCHANGED audioBuffer
  PROVE  Inv'
<1>1. /\ turn' \in [Turns -> TurnType]
      /\ turn'[t].at = "over"
      /\ \A u \in Turns \ {t} : turn'[u].at = turn[u].at
  BY PastMoves DEF Finish, Inv
<1>2. p' \in FlagType /\ p'.interrupted = p.interrupted
  BY DEF Finish, Inv, Typed, FlagType
<1> QED
  BY <1>1, <1>2 DEF Finish, Inv, Typed, Silenced

LEMMA TurnInv ==
  ASSUME Inv, NEW t \in Turns, TurnStep(t)
  PROVE  Inv'
<1>1. CASE SendPanics(t)
  BY <1>1 DEF TurnStep, SendPanics, Inv, Typed, Silenced
<1>2. CASE SendGivesUp(t)
  BY <1>2, LeavesInv DEF TurnStep, SendGivesUp, At
<1> QED
  BY <1>1, <1>2, BeginInv, TranscribeInv, GenerateInv, SynthesizeInv, SpeakInv,
     SendInv, FinishInv DEF TurnStep
-----------------------------------------------------------------------------
(* The steps of the others.                                                *)

\* What leaves the turns' labels, the debts and the flag alone.
LEMMA Apart ==
  ASSUME Inv, turn' \in [Turns -> TurnType],
         \A t \in Turns : turn'[t].at = turn[t].at,
         p' \in FlagType, p'.interrupted = p.interrupted,
         audioBuffer' \in Seq(Nat), UNCHANGED quiet
  PROVE  Inv'
BY DEF Inv, Typed, Silenced

\* Interrupt makes debtors of the turns that have begun, and sets the flag.
LEMMA InterruptInv ==
  ASSUME Inv, Interrupt, UNCHANGED <<turn, audioBuffer>>
  PROVE  Inv'
<1>1. p' \in FlagType /\ p'.interrupted
  BY DEF Interrupt, Inv, Typed, FlagType
<1>2. /\ quiet' \in [Turns -> Debts]
      /\ \A t \in Turns :
           /\ quiet'[t] = "quiet" => \/ quiet[t] = "quiet"
                                     \/ turn[t].at # "send"
           /\ turn[t].at \in {"none", "new"} => quiet'[t] = quiet[t]
           /\ quiet'[t] # "broken"
  BY DEF Interrupt, Begun, At, Inv, Typed, Silenced, Debts
<1> QED
  BY <1>1, <1>2 DEF Inv, Typed, Silenced

\* A turn is started: an unused one that owes nothing, or the greeting.
LEMMA StartInv ==
  ASSUME Inv, NEW t \in Turns, NEW new \in TurnType,
         \/ new.at = "new" /\ turn[t].at = "none"
         \/ new.at = "say",
         turn' = [turn EXCEPT ![t] = new],
         p' \in FlagType, p'.interrupted = p.interrupted,
         audioBuffer' \in Seq(Nat), UNCHANGED quiet
  PROVE  Inv'
BY Replaces DEF Inv, Typed, Silenced

\* Start, its greeting, and its return.
LEMMA HandlerInv ==
  ASSUME Inv, Handler
  PROVE  Inv'
<1> USE DEF Handler, HandlerSteps, speech
<1>1. CASE Bind \/ Greeted
  BY <1>1, Apart DEF Bind, Greeted, Inv, Typed
<1>2. CASE Create \/ Start \/ StartReturns
  <2>1. p' \in FlagType /\ p'.interrupted = p.interrupted
    BY <1>2 DEF Create, Start, StartReturns, Inv, Typed, FlagType
  <2>2. UNCHANGED turn
    BY <1>2 DEF Create, Start, StartReturns, Bind, Greet, Greeted
  <2> QED
    BY <2>1, <2>2, Apart DEF Inv, Typed
<1>3. CASE Greet
  <2>1. CASE Greets
    <3> DEFINE new == Turn("greeting", "say", <<>>, <<>>)
    <3>1. 0 \in Turns
      BY PipelineBounds DEF Turns
    <3>2. new \in TurnType /\ new.at = "say"
      BY DEF Turn, TurnType, Labels
    <3>3. turn' = [turn EXCEPT ![0] = new]
      BY <1>3, <2>1 DEF Greet
    <3> HIDE DEF new
    <3> QED
      BY <1>3, <3>1, <3>2, <3>3, StartInv DEF Greet, Inv, Typed
  <2>2. CASE ~Greets
    BY <1>3, <2>2, Apart DEF Greet, Inv, Typed
  <2> QED
    BY <2>1, <2>2
<1> QED
  BY <1>1, <1>2, <1>3

\* A voiced chunk is written to the buffer, and over what turns still read.
LEMMA HearInv ==
  ASSUME Inv, Hear
  PROVE  Inv'
<1>1. p' \in FlagType /\ p'.interrupted = p.interrupted
  <2>1. p \in FlagType /\ p.heard + 1 \in Nat
    BY DEF Inv, Typed, FlagType
  <2>2. p' = [p EXCEPT !.isSpeaking = TRUE, !.heard = p.heard + 1]
    BY DEF Hear
  <2> QED
    BY <2>1, <2>2 DEF FlagType
<1> DEFINE c == p.heard + 1
           n == Len(audioBuffer) + 1
<1>2. c \in Nat /\ n \in Nat \ {0}
  BY DEF Inv, Typed, FlagType
<1>3. audioBuffer' \in Seq(Nat)
  BY <1>2 DEF Hear, Collect, Inv, Typed
<1>4. /\ turn' \in [Turns -> TurnType]
      /\ \A t \in Turns : turn'[t].at = turn[t].at
  <2>1. CASE UNCHANGED turn
    BY <2>1 DEF Inv, Typed
  <2>2. CASE turn' = [t \in Turns |->
               IF t \in array.users /\ n <= Len(turn[t].audio)
               THEN [turn[t] EXCEPT !.audio[n] = c] ELSE turn[t]]
    <3>1. ASSUME NEW t \in Turns, n <= Len(turn[t].audio)
          PROVE  /\ [turn[t] EXCEPT !.audio[n] = c] \in TurnType
                 /\ [turn[t] EXCEPT !.audio[n] = c].at = turn[t].at
      <4>1. turn[t] \in TurnType /\ turn[t].audio \in Seq(Nat)
        BY DEF Inv, Typed, TurnType
      <4>2. [turn[t].audio EXCEPT ![n] = c] \in Seq(Nat)
        BY <1>2, <3>1, <4>1
      <4> QED
        BY <4>1, <4>2, SetAudio
    <3>2. \A t \in Turns : turn[t] \in TurnType
      BY DEF Inv, Typed
    <3> QED
      BY <2>2, <3>1, <3>2
  <2> QED
    BY <2>1, <2>2 DEF Hear, Collect
<1> QED
  BY <1>1, <1>3, <1>4, Apart DEF Hear

\* The utterance becomes a turn.
LEMMA SilenceInv ==
  ASSUME Inv, Silence
  PROVE  Inv'
<1>1. p' \in FlagType /\ p'.interrupted = p.interrupted
  BY DEF Silence, Inv, Typed, FlagType
<1>2. PICK t \in NextTurns : turn' = [turn EXCEPT ![t] = Utterance(audioBuffer)]
  BY DEF Silence
<1>3. t \in Turns /\ turn[t].at = "none"
  BY <1>2, PipelineBounds DEF NextTurns, Unused, At, Turns
<1>4. Utterance(audioBuffer) \in TurnType /\ Utterance(audioBuffer).at = "new"
  BY DEF Utterance, Turn, TurnType, Labels, Inv, Typed
<1>5. audioBuffer' \in Seq(Nat)
  BY DEF Silence
<1> QED
  BY <1>1, <1>2, <1>3, <1>4, <1>5, StartInv DEF Silence

\* So does a text the application sends.
LEMMA SendTextInv ==
  ASSUME Inv, SendText
  PROVE  Inv'
<1> DEFINE new == Turn("typed", "new", <<>>, <<>>)
<1>1. PICK t \in NextTurns : turn' = [turn EXCEPT ![t] = new]
  BY DEF SendText
<1>2. t \in Turns /\ turn[t].at = "none"
  BY <1>1, PipelineBounds DEF NextTurns, Unused, At, Turns
<1>3. new \in TurnType /\ new.at = "new"
  BY DEF Turn, TurnType, Labels
<1> HIDE DEF new
<1> QED
  BY <1>1, <1>2, <1>3, StartInv DEF SendText, speech, Inv, Typed

LEMMA LoopsInv ==
  ASSUME Inv, Loops
  PROVE  Inv'
<1>1. CASE TestBargeIn \/ Clear \/ AudioLoopEnds \/ SilenceLoopEnds
  BY <1>1, Apart DEF TestBargeIn, Clear, AudioLoopEnds, SilenceLoopEnds, speech,
                     Inv, Typed
<1>2. CASE BargeIn
  BY <1>2, InterruptInv DEF BargeIn, speech
<1> QED
  BY <1>1, <1>2, SilenceInv DEF Loops, AudioLoop

LEMMA ConversationInv ==
  ASSUME Inv, Conversation
  PROVE  Inv'
<1>1. CASE AppInterrupts
  BY <1>1, InterruptInv DEF AppInterrupts, speech
<1> QED
  BY <1>1, HearInv, SendTextInv DEF Conversation

\* The ends of the session and of the stream, and the write loop.
LEMMA EndsInv ==
  ASSUME Inv, Closing \/ Ends \/ WriteLoop
  PROVE  Inv'
<1>1. UNCHANGED <<turn, quiet, audioBuffer>>
  BY DEF Closing, Ends, WriteLoop, speech
<1>2. p' \in FlagType /\ p'.interrupted = p.interrupted
  <2>1. CASE Stop
    BY <2>1 DEF Stop, Inv, Typed, FlagType
  <2>2. CASE Expire
    BY <2>2 DEF Expire, Inv, Typed, FlagType
  <2> QED
    BY <2>1, <2>2 DEF Closing, Ends, WriteLoop, CloseConn, ReaderCloses,
                      SessionCloses, StreamEnds, Stalls, Inv, Typed
<1> QED
  BY <1>1, <1>2, Apart DEF Inv, Typed
-----------------------------------------------------------------------------
LEMMA InitInv == Init => Inv
<1> SUFFICES ASSUME Init
             PROVE  Inv
  OBVIOUS
<1>1. NoTurn \in TurnType /\ NoTurn.at = "none"
  BY DEF NoTurn, Turn, TurnType, Labels
<1>2. p \in FlagType
  BY DEF Init, FlagType
<1> QED
  BY <1>1, <1>2 DEF Init, Inv, Typed, Silenced, Debts

LEMMA NextInv == Inv /\ [Next]_vars => Inv'
<1> SUFFICES ASSUME Inv, [Next]_vars
             PROVE  Inv'
  OBVIOUS
<1>1. CASE UNCHANGED vars
  BY <1>1, Apart DEF vars, speech, Inv, Typed
<1> QED
  BY <1>1, HandlerInv, LoopsInv, TurnInv, ConversationInv, EndsInv
     DEF Next, Program, Environment

\* A turn that was interrupted, and whose interruption no later turn has
\* reset, queues no further chunk; for any number of turns and interruptions.
THEOREM InterruptedStaysSilent == Spec => []InterruptedIsSilent
<1>1. Inv => InterruptedIsSilent
  BY DEF Inv, Silenced, InterruptedIsSilent
<1> QED
  BY <1>1, InitInv, NextInv, PTL DEF Spec
-----------------------------------------------------------------------------
(* The tool loop.                                                          *)

Count == [round : Nat, pending : Nat, calls : Nat, results : Nat]

\* The calls not yet answered are those still to be run.
Balanced ==
  /\ llm \in [Generators -> Count]
  /\ \A g \in Generators : llm[g].calls = llm[g].results + llm[g].pending

\* The steps of Generate preserve it, whichever goroutine takes them.
LEMMA ToolStep ==
  ASSUME Balanced, NEW t, NEW n \in Nat,
         CallTools(t, n) \/ RunTool(t) \/ Replies(t) \/ GenerateFails(t)
  PROVE  Balanced'
<1>1. CASE t \notin Generators
  <2>1. UNCHANGED llm
    BY <1>1 DEF CallTools, RunTool, Replies, GenerateFails, Balanced
  <2> QED
    BY <2>1 DEF Balanced
<1>2. CASE t \in Generators
  <2> USE <1>2 DEF Balanced, Count
  <2>1. CASE CallTools(t, n)
    BY <2>1 DEF CallTools, Requests
  <2>2. CASE RunTool(t)
    BY <2>2 DEF RunTool
  <2>3. CASE Replies(t) \/ GenerateFails(t)
    BY <2>3 DEF Replies, GenerateFails, Fresh
  <2> QED
    BY <2>1, <2>2, <2>3
<1> QED
  BY <1>1, <1>2

LEMMA BalancedInv == Balanced /\ [Next]_vars => Balanced'
<1> SUFFICES ASSUME Balanced, [Next]_vars
             PROVE  Balanced'
  OBVIOUS
<1>1. CASE \E t \in Turns : Generate(t)
  <2>1. MaxCalls \in Nat /\ 0 \in Nat
    BY RoundBounds
  <2>2. PICK t \in Turns : Generate(t)
    BY <1>1
  <2>3. CASE \E n \in 1..MaxCalls : CallTools(t, n)
    BY <2>1, <2>3, ToolStep
  <2>4. CASE RunTool(t) \/ Replies(t) \/ GenerateFails(t)
    BY <2>1, <2>4, ToolStep
  <2> QED
    BY <2>2, <2>3, <2>4 DEF Generate
<1>2. CASE UNCHANGED llm
  BY <1>2 DEF Balanced
<1>3. CASE Program
  <2>1. CASE Handler \/ Loops \/ Closing \/ WriteLoop
    BY <1>2, <2>1 DEF Handler, Loops, AudioLoop, TestBargeIn, BargeIn,
                      Clear, AudioLoopEnds, Silence, SilenceLoopEnds, Closing, WriteLoop
  <2>2. CASE \E t \in Turns : TurnStep(t)
    BY ZenonT(30), <1>1, <1>2, <2>2 DEF TurnStep, Begin, Transcribe, Synthesize, Speak, Send,
                            SendGivesUp, Finish, SendPanics
  <2> QED
    BY <1>3, <2>1, <2>2 DEF Program
<1>4. CASE Environment
  BY <1>2, <1>4 DEF Environment, Conversation, Hear, SendText, AppInterrupts, Ends
<1> QED
  BY <1>2, <1>3, <1>4 DEF Next, vars

\* No completion is requested with a tool call of an earlier one unanswered,
\* however many calls and rounds there are.
THEOREM EveryToolCallAnswered == Spec => []ToolCallsAnswered
<1>1. Init => Balanced
  BY DEF Init, Balanced, Count, Fresh
<1>2. Balanced => ToolCallsAnswered
  BY DEF Balanced, Count, ToolCallsAnswered, Requests
<1> QED
  BY <1>1, <1>2, BalancedInv, PTL DEF Spec
=============================================================================
