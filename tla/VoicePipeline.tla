--------------------------- MODULE VoicePipeline ---------------------------
(***************************************************************************)
(* A call in text mode: the Pipeline that a session runs on its media      *)
(* stream (gateway/pipeline.go, and the parts of gateway/session.go that   *)
(* start, use and stop it).  Voiced chunks are collected until a silence,  *)
(* each utterance is handled by a goroutine of its own (a turn), and so is *)
(* each call of SendText; turns speak by putting chunks into audioOut.     *)
(*                                                                         *)
(* Turn 0 is the greeting, which the handler goroutine speaks before the   *)
(* loops are running.  A turn's requests to the speech and language        *)
(* providers end with or without a result.  A voiced chunk is its number;  *)
(* which chunks a turn was given is told apart from what its slice holds   *)
(* by the time it is transcribed, since audioBuffer reuses its array.      *)
(***************************************************************************)
EXTENDS ToolLoop, Sequences, SequencesExt

CONSTANTS MaxTurns,   \* turns besides the greeting (bound)
          MaxHeard,   \* voiced chunks the caller sends (bound)
          MaxChunks,  \* chunks of synthesized speech in one reply (bound)
          Greets,     \* a greeting is configured
          Immediate,  \* the configured InterruptionMode is "immediate"
          MaxMoves,   \* what the caller, the application, Telnyx and the clock
                      \* do in all (bound)
          OutCap      \* capacity of audioOut (500 in the code)

ASSUME PipelineBounds ==
  /\ MaxTurns \in Nat /\ MaxHeard \in Nat /\ MaxChunks \in Nat /\ MaxMoves \in Nat
  /\ OutCap \in Nat
  /\ Greets \in BOOLEAN /\ Immediate \in BOOLEAN
  /\ Generators = 1..MaxTurns

Turns == 0..MaxTurns

VARIABLES
  pc,         \* where the handler, the two loops and Session.Close are
  p,          \* the Pipeline's flags; field heard is a history: the number of
              \* voiced chunks the caller has sent
  conn,       \* the connection, the write loop and the WebSocket; "stalled":
              \* a WriteJSON is under way and does not return
  audioBuffer,\* the voiced chunks collected
  array,      \* capacity of its array, and the turns whose slices are in it
  turn,       \* the turns
  queued,     \* number of chunks in audioOut
  quiet,      \* history: what Interrupt obliges each turn to
  moves,      \* bound: moves of the environment so far
  panic       \* a send on the closed audioOut, or p.ctx used while nil

speech == <<audioBuffer, array>>
vars == <<pc, p, conn, speech, turn, llm, queued, quiet, moves, panic>>

Turn(kind, at, said, slice) ==
  [kind |-> kind, at |-> at, given |-> said, audio |-> slice, left |-> 0]
NoTurn == Turn("none", "none", <<>>, <<>>)

Init ==
  /\ pc = [handler |-> "bind", audio |-> "off", silence |-> "off",
           close |-> "idle"]
  /\ p = [stored |-> FALSE, started |-> FALSE, ctxDone |-> FALSE,
          done |-> FALSE, isSpeaking |-> FALSE, isProcessing |-> FALSE,
          interrupted |-> FALSE, heard |-> 0]
  /\ conn = [bound |-> FALSE, wsOpen |-> TRUE, shut |-> FALSE,
             writing |-> TRUE, stalled |-> FALSE]
  /\ audioBuffer = <<>>
  /\ array = [cap |-> 0, users |-> {}]
  /\ turn = [t \in Turns |-> NoTurn]
  /\ llm = [g \in Generators |-> Fresh]
  /\ queued = 0
  /\ quiet = [t \in Turns |-> "no"]
  /\ moves = 0
  /\ panic = "none"

Moved == moves < MaxMoves /\ moves' = moves + 1

At(t, label) == turn[t].at = label
Goto(t, label) == turn' = [turn EXCEPT ![t].at = label]
\* The turn is over: its goroutine ends, and only what it was given is kept.
Past(t) == turn' = [turn EXCEPT ![t] = [@ EXCEPT !.at = "over", !.audio = <<>>,
                                                 !.left = 0]]
\* A return: the deferred reset of isProcessing is next, which the greeting
\* does not have.
Leaves(t) ==
  IF turn[t].kind = "greeting" THEN Past(t)
  ELSE turn' = [turn EXCEPT ![t] = [@ EXCEPT !.at = "finish", !.audio = <<>>,
                                             !.left = 0]]

Unused == {t \in 1..MaxTurns : At(t, "none")}
\* The turn to be started next, if there is one left.
NextTurns == {t \in Unused : \A u \in Unused : t <= u}
-----------------------------------------------------------------------------
(* History: from an Interrupt on, a turn that had begun owes silence; one  *)
(* that is inside the select of a send may still send that chunk.          *)

Begun == {t \in Turns : turn[t].at \in {"stt", "think", "say", "speak", "send"}}

Interrupt ==
  /\ p' = [p EXCEPT !.interrupted = TRUE]
  /\ quiet' = [t \in Turns |->
                 IF t \notin Begun \/ quiet[t] \in {"broken", "spoke"}
                 THEN quiet[t] ELSE IF At(t, "send") THEN "last" ELSE "quiet"]

\* The flag is reset: nothing silences the earlier turns any more.  Remembered
\* are those that had not begun to speak.
Forgiven(t) == [u \in Turns |->
  IF u = t \/ quiet[u] \notin {"last", "quiet"} THEN quiet[u]
  ELSE IF turn[u].at \in {"stt", "think", "say"} THEN "reset" ELSE "no"]

Spoken(t) == quiet' = [quiet EXCEPT ![t] =
  CASE @ = "last" -> "quiet" [] @ = "quiet" -> "broken"
    [] @ = "reset" -> "spoke" [] OTHER -> @]
-----------------------------------------------------------------------------
(* Session.startPipeline and Pipeline.Start, in the handler's goroutine.   *)

\* Mutant: the context is not cancelled when Start has returned.
StartReturns_NoCancel ==
  /\ pc.handler = "wait" /\ (p.ctxDone \/ p.done)
  /\ pc' = [pc EXCEPT !.handler = "over"]
  /\ UNCHANGED p

\* Start's select; the deferred cancel ends the context of the pipeline.
StartReturns ==
  /\ pc.handler = "wait" /\ (p.ctxDone \/ p.done)
  /\ pc' = [pc EXCEPT !.handler = "over"]
  /\ p' = [p EXCEPT !.ctxDone = TRUE]

HandlerSteps(from, to) ==
  /\ pc.handler = from /\ pc' = [pc EXCEPT !.handler = to]

Bind ==
  /\ HandlerSteps("bind", "create")
  /\ conn' = [conn EXCEPT !.bound = TRUE]
  /\ UNCHANGED <<p, turn>>

\* NewPipeline fails without an API key or provider; otherwise it is stored.
Create ==
  /\ \/ HandlerSteps("create", "over") /\ UNCHANGED p
     \/ HandlerSteps("create", "start") /\ p' = [p EXCEPT !.stored = TRUE]
  /\ UNCHANGED <<conn, turn>>

Start ==
  /\ HandlerSteps("start", "greet")
  /\ p' = [p EXCEPT !.started = TRUE]
  /\ UNCHANGED <<conn, turn>>

\* The loops are started.
Spawned(to) == pc' = [pc EXCEPT !.handler = to, !.audio = "run", !.silence = "run"]

Greet ==
  /\ pc.handler = "greet"
  /\ IF Greets
     THEN /\ HandlerSteps("greet", "greeting")
          /\ turn' = [turn EXCEPT ![0] = Turn("greeting", "say", <<>>, <<>>)]
     ELSE Spawned("wait") /\ UNCHANGED turn
  /\ UNCHANGED <<p, conn>>

Greeted ==
  /\ pc.handler = "greeting" /\ At(0, "over") /\ Spawned("wait")
  /\ UNCHANGED <<p, conn, turn>>

Handler ==
  /\ \/ Bind \/ Create \/ Start \/ Greet \/ Greeted
     \/ StartReturns /\ UNCHANGED <<conn, turn>>
  /\ UNCHANGED <<speech, llm, queued, quiet, moves, panic>>
-----------------------------------------------------------------------------
(* processAudioLoop and handleAudio.                                       *)

\* audioBuffer.Write, under bufferMu: the chunk goes behind the collected
\* ones, over whatever an earlier utterance left there, or to a new array of
\* at least twice the size.
Collect(c) ==
  LET n == Len(audioBuffer) + 1
  IN /\ audioBuffer' = Append(audioBuffer, c)
     /\ IF n <= array.cap
        THEN /\ UNCHANGED array
             /\ turn' = [t \in Turns |->
                  IF t \in array.users /\ n <= Len(turn[t].audio)
                  THEN [turn[t] EXCEPT !.audio[n] = c] ELSE turn[t]]
        ELSE /\ array' = [cap |-> IF n < 2 * array.cap THEN 2 * array.cap ELSE n,
                          users |-> {}]
             /\ UNCHANGED turn

Hear ==
  /\ pc.audio = "run" /\ p.heard < MaxHeard /\ Moved
  /\ pc' = [pc EXCEPT !.audio = "test"]
  /\ p' = [p EXCEPT !.isSpeaking = TRUE, !.heard = @ + 1]
  /\ Collect(p.heard + 1)
  /\ UNCHANGED <<llm, queued, quiet>>

\* isProcessing is read under p.mu; Interrupt takes p.mu again, and then asks
\* Telnyx to clear what it has queued.
TestBargeIn ==
  /\ pc.audio = "test"
  /\ pc' = [pc EXCEPT !.audio =
              IF p.isProcessing /\ Immediate THEN "interrupt" ELSE "run"]
  /\ UNCHANGED <<p, speech, turn, llm, queued, quiet, moves>>

\* A write needs writeMu, which the holder keeps until its own write returns:
\* no deadline is set, and only the close of the WebSocket ends it.
WriteReturns == ~conn.stalled \/ conn.shut

BargeIn ==
  /\ pc.audio = "interrupt"
  /\ pc' = [pc EXCEPT !.audio = IF WriteReturns THEN "run" ELSE "clear"]
  /\ Interrupt
  /\ UNCHANGED <<speech, turn, llm, queued, moves>>

\* The clear that had to wait is written, or fails.
Clear ==
  /\ pc.audio = "clear" /\ WriteReturns
  /\ pc' = [pc EXCEPT !.audio = "run"]
  /\ UNCHANGED <<p, speech, turn, llm, queued, quiet, moves>>

\* The select of the loop, when it is done or audioIn is closed and drained.
AudioLoopEnds ==
  /\ pc.audio = "run" /\ (p.ctxDone \/ conn.shut)
  /\ pc' = [pc EXCEPT !.audio = "over"]
  /\ UNCHANGED <<p, speech, turn, llm, queued, quiet, moves>>

AudioLoop == TestBargeIn \/ BargeIn \/ Clear \/ AudioLoopEnds
-----------------------------------------------------------------------------
(* silenceDetectionLoop.                                                   *)

Utterance(slice) == Turn("voice", "new", audioBuffer, slice)

\* Mutant: an utterance heard while a turn is being processed is discarded.
Silence_IfIdle ==
  /\ pc.silence = "run" /\ p.isSpeaking
  /\ p' = [p EXCEPT !.isSpeaking = FALSE]
  /\ \E t \in NextTurns :
       IF p.isProcessing THEN UNCHANGED <<turn, array>>
       ELSE /\ turn' = [turn EXCEPT ![t] = Utterance(audioBuffer)]
            /\ array' = [array EXCEPT !.users = @ \cup {t}]
  /\ audioBuffer' = <<>>
  /\ UNCHANGED <<pc, llm, queued, quiet, moves>>

\* Mutant: the reset also empties the array the slice is in.
Silence_Wipes ==
  /\ pc.silence = "run" /\ p.isSpeaking
  /\ p' = [p EXCEPT !.isSpeaking = FALSE]
  /\ \E t \in NextTurns :
       /\ turn' = [turn EXCEPT ![t] = Utterance([i \in DOMAIN audioBuffer |-> 0])]
       /\ array' = [array EXCEPT !.users = @ \cup {t}]
  /\ audioBuffer' = <<>>
  /\ UNCHANGED <<pc, llm, queued, quiet, moves>>

\* Mutant: the loop ends with its first utterance.
Silence_Returns ==
  /\ pc.silence = "run" /\ p.isSpeaking
  /\ pc' = [pc EXCEPT !.silence = "over"]
  /\ p' = [p EXCEPT !.isSpeaking = FALSE]
  /\ \E t \in NextTurns :
       /\ turn' = [turn EXCEPT ![t] = Utterance(audioBuffer)]
       /\ array' = [array EXCEPT !.users = @ \cup {t}]
  /\ audioBuffer' = <<>>
  /\ UNCHANGED <<llm, queued, quiet, moves>>

\* Five hundred milliseconds without voice: under bufferMu the slice is
\* taken and the buffer reset; a turn is started on the slice.
Silence ==
  /\ pc.silence = "run" /\ p.isSpeaking
  /\ p' = [p EXCEPT !.isSpeaking = FALSE]
  /\ \E t \in NextTurns :
       /\ turn' = [turn EXCEPT ![t] = Utterance(audioBuffer)]
       /\ array' = [array EXCEPT !.users = @ \cup {t}]
  /\ audioBuffer' = <<>>
  /\ UNCHANGED <<pc, llm, queued, quiet, moves>>

SilenceLoopEnds ==
  /\ pc.silence = "run" /\ p.ctxDone
  /\ pc' = [pc EXCEPT !.silence = "over"]
  /\ UNCHANGED <<p, speech, turn, llm, queued, quiet, moves>>
-----------------------------------------------------------------------------
(* processAudio (a "voice" turn), processInput ("typed") and sendGreeting. *)

Begin(t) ==
  /\ At(t, "new")
  /\ p' = [p EXCEPT !.isProcessing = TRUE, !.interrupted = FALSE]
  /\ quiet' = Forgiven(t)
  /\ Goto(t, IF turn[t].kind = "voice" THEN "stt" ELSE "think")
  /\ UNCHANGED <<array, llm, queued>>

\* A voice turn looks at the flag after each request.
Proceed(t, label) ==
  IF turn[t].kind = "voice" /\ p.interrupted THEN Leaves(t) ELSE Goto(t, label)

Transcribe(t) ==
  /\ At(t, "stt")
  /\ \/ Leaves(t)              \* an error or an empty text
     \/ Proceed(t, "think")
  /\ array' = [array EXCEPT !.users = @ \ {t}]
  /\ UNCHANGED <<p, llm, queued, quiet>>

Generate(t) ==
  /\ At(t, "think")
  /\ \/ UNCHANGED turn /\ (RunTool(t) \/ \E n \in 1..MaxCalls : CallTools(t, n))
     \/ Replies(t) /\ Proceed(t, "say")
     \/ GenerateFails(t) /\ Leaves(t)
  /\ UNCHANGED <<p, array, queued, quiet>>

Synthesize(t) ==
  /\ At(t, "say")
  /\ \/ Leaves(t)              \* an error
     \/ \E n \in 0..MaxChunks :
          IF turn[t].kind = "voice" /\ p.interrupted THEN Leaves(t)
          ELSE turn' = [turn EXCEPT ![t] = [@ EXCEPT !.at = "speak", !.left = n]]
  /\ UNCHANGED <<p, array, llm, queued, quiet>>

\* Mutant: the flag is tested once, before the first chunk.
Speak_TestsOnce(t) ==
  /\ At(t, "speak")
  /\ IF turn[t].left = 0 THEN Leaves(t) ELSE Goto(t, "send")
  /\ UNCHANGED <<p, array, llm, queued, quiet>>

\* sendAudioToTelnyx, the top of its loop.
Speak(t) ==
  /\ At(t, "speak")
  /\ IF turn[t].left = 0 \/ p.interrupted THEN Leaves(t) ELSE Goto(t, "send")
  /\ UNCHANGED <<p, array, llm, queued, quiet>>

\* Mutant: the select does not wait for room.
Send_Unbounded(t) ==
  /\ At(t, "send") /\ p.started /\ ~conn.shut
  /\ queued' = queued + 1
  /\ turn' = [turn EXCEPT ![t] = [@ EXCEPT !.at = "speak",
                                                  !.left = turn[t].left - 1]]
  /\ Spoken(t)
  /\ UNCHANGED <<p, array, llm>>

\* Its select: room in audioOut, or the context is done; both may be ready.
Send(t) ==
  /\ At(t, "send") /\ p.started /\ ~conn.shut
  /\ \/ /\ queued < OutCap
        /\ queued' = queued + 1
        /\ turn' = [turn EXCEPT ![t] = [@ EXCEPT !.at = "speak",
                                                     !.left = turn[t].left - 1]]
        /\ Spoken(t)
     \/ p.ctxDone /\ Leaves(t) /\ UNCHANGED <<queued, quiet>>
  /\ UNCHANGED <<p, array, llm>>

\* The same select with p.ctx not yet set, or with audioOut closed.
SendPanics(t) ==
  /\ At(t, "send")
  /\ \/ ~p.started /\ panic' = "ctx"
     \/ p.started /\ conn.shut /\ panic' = "audioOut"
  /\ UNCHANGED <<turn, p, array, llm, queued, quiet>>

\* With the context done as well, the select may take that case instead.
SendGivesUp(t) ==
  /\ At(t, "send") /\ p.started /\ conn.shut /\ p.ctxDone
  /\ Leaves(t)
  /\ UNCHANGED <<p, array, llm, queued, quiet>>

Finish(t) ==
  /\ At(t, "finish")
  /\ p' = [p EXCEPT !.isProcessing = FALSE]
  /\ Past(t)
  /\ UNCHANGED <<array, llm, queued, quiet>>

TurnStep(t) ==
  /\ \/ /\ \/ Begin(t) \/ Transcribe(t) \/ Generate(t) \/ Synthesize(t)
           \/ Speak(t) \/ Send(t) \/ SendGivesUp(t) \/ Finish(t)
        /\ UNCHANGED panic
     \/ SendPanics(t)
  /\ UNCHANGED <<pc, conn, audioBuffer, moves>>
-----------------------------------------------------------------------------
(* The application: Session.SendText and Session.Interrupt, which do       *)
(* nothing before the pipeline is stored and go on working after Close.    *)
(* An Interrupt by the application may wait in clear, which holds up       *)
(* nobody but its caller.                                                  *)

SendText ==
  /\ p.stored /\ Moved
  /\ \E t \in NextTurns :
       turn' = [turn EXCEPT ![t] = Turn("typed", "new", <<>>, <<>>)]
  /\ UNCHANGED <<pc, p, speech, llm, queued, quiet>>

AppInterrupts ==
  /\ p.stored /\ Moved
  /\ Interrupt
  /\ UNCHANGED <<pc, speech, turn, llm, queued>>

\* The two loops, and what the caller and the application do.
Loops ==
  /\ AudioLoop \/ Silence \/ SilenceLoopEnds
  /\ UNCHANGED <<conn, panic>>

Conversation ==
  /\ Hear \/ SendText \/ AppInterrupts
  /\ UNCHANGED <<conn, panic>>
-----------------------------------------------------------------------------
(* Session.Close, MaxSessionDuration, and the end of the media stream.     *)

CloseSteps(from, to) ==
  /\ pc.close = from /\ pc' = [pc EXCEPT !.close = to]

SessionCloses == CloseSteps("idle", "stop") /\ Moved /\ UNCHANGED <<p, conn>>

\* Pipeline.Stop, if the pipeline is stored: cancel, if it is set, and close
\* of done.  Start sets cancel without a lock: until the handler's next lock
\* Stop may not see it.
Stop ==
  /\ CloseSteps("stop", "conn")
  /\ IF p.stored
     THEN \E seen \in {p.started, p.started /\ pc.handler # "greet"} :
            p' = [p EXCEPT !.done = TRUE, !.ctxDone = @ \/ seen]
     ELSE UNCHANGED p
  /\ UNCHANGED conn

\* mediaStreamConn.close: its statements, and Close waiting for them, are in
\* MediaStream; here audioIn and audioOut are closed in one step.
CloseConn ==
  /\ CloseSteps("conn", "over")
  /\ conn' = IF conn.bound THEN [conn EXCEPT !.shut = TRUE] ELSE conn
  /\ UNCHANGED p

\* The stream is stopped, or Telnyx closes the WebSocket; the read loop sees
\* it and closes the connection.
StreamEnds ==
  /\ conn.wsOpen /\ Moved /\ conn' = [conn EXCEPT !.wsOpen = FALSE]
  /\ UNCHANGED <<pc, p>>

ReaderCloses ==
  /\ ~conn.wsOpen /\ ~conn.shut /\ conn' = [conn EXCEPT !.shut = TRUE]
  /\ UNCHANGED <<pc, p>>

\* Telnyx takes no more data, for good.  It is a move when somebody is about
\* to wait for a write: a stall that nobody waits for, or that passes, is a
\* write loop that takes its next step late.
AwaitsWrite == \/ queued = OutCap /\ \E t \in Turns : At(t, "send")
               \/ pc.audio = "interrupt"

Stalls ==
  /\ AwaitsWrite /\ ~conn.stalled /\ Moved
  /\ conn' = [conn EXCEPT !.stalled = TRUE]
  /\ UNCHANGED <<pc, p>>

Expire ==
  /\ p.started /\ ~p.ctxDone /\ Moved
  /\ p' = [p EXCEPT !.ctxDone = TRUE]
  /\ UNCHANGED <<pc, conn>>

Closing ==
  /\ Stop \/ CloseConn \/ ReaderCloses
  /\ UNCHANGED <<speech, turn, llm, queued, quiet, moves, panic>>

Ends ==
  /\ SessionCloses \/ StreamEnds \/ Stalls \/ Expire
  /\ UNCHANGED <<speech, turn, llm, queued, quiet, panic>>
-----------------------------------------------------------------------------
(* The connection's write loop: writes a chunk, or ends when the           *)
(* connection is closed or a write fails.  The chunk whose write stalls    *)
(* has left audioOut: the stall comes after the step.                      *)

WriteLoop ==
  /\ conn.writing
  /\ \/ /\ queued > 0 /\ WriteReturns
        /\ queued' = queued - 1
        /\ conn' = [conn EXCEPT !.writing = conn.wsOpen]
     \/ conn.shut /\ conn' = [conn EXCEPT !.writing = FALSE]
                            /\ UNCHANGED queued
  /\ UNCHANGED <<pc, p, speech, turn, llm, quiet, moves, panic>>

\* What the goroutines of the program do, and what happens to them.
Program == \/ Handler \/ Loops \/ Closing \/ WriteLoop
           \/ \E t \in Turns : TurnStep(t)
Environment == Conversation \/ Ends

Next == panic = "none" /\ (Program \/ Environment)

Spec == Init /\ [][Next]_vars

\* As long as some goroutine can run, one does; requests to the providers end.
\* (The steps of Program are those that are no move of the environment.)
FairSpec == Spec /\ WF_vars(UNCHANGED moves /\ Next)
-----------------------------------------------------------------------------
\* The type of every variable.
Slices == UNION {[1..n -> 1..MaxHeard] : n \in 0..MaxHeard}
TypeOK ==
  /\ pc \in [handler : {"bind", "create", "start", "greet", "greeting",
                        "wait", "over"},
             audio : {"off", "run", "test", "interrupt", "clear", "over"},
             silence : {"off", "run", "over"},
             close : {"idle", "stop", "conn", "over"}]
  /\ p \in [stored : BOOLEAN, started : BOOLEAN, ctxDone : BOOLEAN,
            done : BOOLEAN, isSpeaking : BOOLEAN, isProcessing : BOOLEAN,
            interrupted : BOOLEAN, heard : 0..MaxHeard]
  /\ conn \in [bound : BOOLEAN, wsOpen : BOOLEAN, shut : BOOLEAN,
               writing : BOOLEAN, stalled : BOOLEAN]
  /\ audioBuffer \in Slices
  /\ array \in [cap : 0..2 * MaxHeard, users : SUBSET Turns]
  /\ turn \in [Turns -> [kind : {"none", "greeting", "voice", "typed"},
                         at : {"none", "new", "stt", "think", "say", "speak",
                               "send", "finish", "over"},
                         given : Slices, audio : Slices, left : 0..MaxChunks]]
  /\ llm \in LLMType
  /\ queued \in 0..OutCap
  /\ quiet \in [Turns -> {"no", "last", "quiet", "broken", "reset", "spoke"}]
  /\ moves \in 0..MaxMoves
  /\ panic \in {"none", "audioOut", "ctx"}

\* Every voiced chunk is in exactly one place, in the buffer or in the
\* utterance given to one turn, and the utterances follow each other in the
\* order in which they were heard.  (bufferMu around Write, and around Bytes
\* and Reset.)
Utterances == [t \in 1..MaxTurns + 1 |->
                 IF t > MaxTurns THEN audioBuffer ELSE turn[t].given]
Heard == UNION {{Utterances[t][i] : i \in DOMAIN Utterances[t]}
                  : t \in DOMAIN Utterances}
EveryChunkHeardOnce ==
  /\ Heard = 1..p.heard
  /\ \A t, u \in DOMAIN Utterances :
       \A i \in DOMAIN Utterances[t], j \in DOMAIN Utterances[u] :
         t < u \/ (t = u /\ i < j) => Utterances[t][i] < Utterances[u][j]

\* The slice a turn has not read yet differs from what the caller said by no
\* more than the chunks heard since, which are written over its beginning.
SpeechSurvives ==
  \A t \in Turns : turn[t].kind = "voice" /\ turn[t].at \in {"new", "stt"} =>
    LET said  == turn[t].given
        since == p.heard - Last(said)
    IN /\ Len(turn[t].audio) = Len(said)
       /\ \A i \in DOMAIN said : i > since => turn[t].audio[i] = said[i]

\* "Interrupt stops current speech generation": unless a new turn resets the
\* flag, a turn that was interrupted queues nothing more, except the chunk it
\* was sending at that moment; whatever stage it had reached.
InterruptedIsSilent == \A t \in Turns : quiet[t] # "broken"

\* Whenever a completion is requested, each tool call of the completions
\* before it has been answered by exactly one message.
ToolCallsAnswered ==
  \A g \in Generators : Requests(g) => llm[g].calls = llm[g].results

\* What the caller has said becomes a turn, unless the pipeline ends first.
SpeechIsProcessed ==
  <>[](p.isSpeaking => Unused = {} \/ p.ctxDone \/ panic # "none")

\* Every turn comes to its end, however its requests end, however often the
\* model calls tools, and also when the write loop has ended; a turn that waits
\* for room while Telnyx takes no data does when its context is done.
TurnsEnd ==
  <>[](panic = "none" /\ (WriteReturns \/ p.ctxDone)
         => \A t \in Turns : turn[t].at \in {"none", "over"})

\* Once Stop has run on the pipeline, or its time has expired, startPipeline
\* returns and neither loop stays, except an audio loop waiting to write to a
\* stalled stream that nothing closes.
PipelineEnds ==
  <>[](p.ctxDone \/ p.done =>
         \/ panic # "none"
         \/ /\ pc.handler = "over" /\ pc.silence \in {"off", "over"}
            /\ \/ pc.audio \in {"off", "over"}
               \/ pc.audio = "clear" /\ ~WriteReturns)
-----------------------------------------------------------------------------
\* docs/releases/v0.3.0.md, "Barge-in Support": a turn that is interrupted
\* before it speaks stays silent, also when the utterance that interrupted it
\* has become a turn of its own.
BargeInSilences ==
  (\A t \in Turns : turn[t].kind # "typed") => \A t \in Turns : quiet[t] # "spoke"
=============================================================================
