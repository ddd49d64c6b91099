--------------------------- MODULE OutboundMedia ---------------------------
(***************************************************************************)
(* What the gateway writes to a media stream's WebSocket: frames from      *)
(* concurrent calls of AudioSession.SendAudio, frames the write loop takes *)
(* from audioOut, and clear messages, while the session and the connection *)
(* are being closed (gateway/audio.go, gateway/connection.go).             *)
(*                                                                         *)
(* A write is two steps, so that two of them could overlap.  In audio mode *)
(* the application sends and nothing enters audioOut; otherwise the        *)
(* pipeline fills audioOut, the write loop is the only sender of frames,   *)
(* and the clear messages are those of Pipeline.Interrupt.  The session    *)
(* has had its connection, and the stream its start message, from the      *)
(* beginning.                                                              *)
(***************************************************************************)
EXTENDS Naturals, Sequences, FiniteSets, SequencesExt

CONSTANTS Senders,    \* goroutines calling SendAudio, ClearAudio, Interrupt
          OutCap,     \* capacity of audioOut (500 in the code)
          MaxFrames   \* numbers handed out in all (bound)

ASSUME OutboundBounds == OutCap \in Nat /\ MaxFrames \in Nat

\* "writer" is the connection's own write loop.
Writer == "writer"
Goroutines == Senders \cup {Writer}

VARIABLES
  audio,     \* the configured mode is PipelineModeAudio (it never changes)
  conn,      \* closed, done, outClosed and wsOpen of the connection
  closed,    \* Session.closed
  sequence,  \* the connection's counter of outbound frames
  audioOut,  \* number of chunks in the audioOut channel
  go,        \* what each goroutine is doing
  writeMu,   \* the goroutine holding writeMu, {} when it is free
  writing,   \* the goroutines inside WriteJSON
  wire,      \* the messages written, in order
  panic      \* the pipeline sent on the closed audioOut

chans == <<audio, conn, closed, audioOut, panic>>
vars == <<chans, sequence, go, writeMu, writing, wire>>

Idle == [at |-> "idle", type |-> "none", seq |-> 0, empty |-> FALSE]

Init ==
  /\ audio \in BOOLEAN
  /\ conn = [closed |-> FALSE, done |-> FALSE, outClosed |-> FALSE,
             wsOpen |-> TRUE]
  /\ closed = FALSE
  /\ sequence = 0
  /\ audioOut = 0
  /\ go = [g \in Goroutines |-> Idle]
  /\ writeMu = {}
  /\ writing = {}
  /\ wire = <<>>
  /\ panic = FALSE

At(g, label) == go[g].at = label
Return(g) == go' = [go EXCEPT ![g] = Idle]
-----------------------------------------------------------------------------
\* Mutant: each goroutine numbers its own frames.
NextSequence_PerSender(g) ==
  LET own == SelectSeq(wire, LAMBDA m : m.by = g /\ m.type = "media")
  IN /\ sequence < MaxFrames
     /\ sequence' = sequence + 1
     /\ go' = [go EXCEPT ![g].at = "check", ![g].seq = Len(own) + 1]

NextSequence(g) ==
  /\ sequence < MaxFrames
  /\ sequence' = sequence + 1
  /\ go' = [go EXCEPT ![g].at = "check", ![g].seq = sequence + 1]

\* SendAudio and ClearAudio: mediaConn refuses a closed session.
SendAudio(g) ==
  /\ audio /\ At(g, "idle") /\ ~closed
  /\ go' = [go EXCEPT ![g].at = "number", ![g].type = "media"]
  /\ UNCHANGED <<chans, sequence, writeMu, writing, wire>>

ClearAudio(g) ==
  /\ audio => ~closed
  /\ At(g, "idle") /\ Len(wire) < MaxFrames
  /\ go' = [go EXCEPT ![g].at = "lock", ![g].type = "clear"]
  /\ UNCHANGED <<chans, sequence, writeMu, writing, wire>>

Number(g) ==
  /\ At(g, "number")
  /\ NextSequence(g)
  /\ UNCHANGED <<chans, writeMu, writing, wire>>

\* Mutant: sendAudio does not look at closed.
CheckOpen_Never(g) ==
  /\ At(g, "check")
  /\ go' = [go EXCEPT ![g].at = "lock"]
  /\ UNCHANGED <<chans, sequence, writeMu, writing, wire>>

\* sendAudio returns without an error when the connection is closed.
CheckOpen(g) ==
  /\ At(g, "check")
  /\ \/ conn.closed /\ Return(g)
     \/ ~conn.closed /\ go' = [go EXCEPT ![g].at = "lock"]
  /\ UNCHANGED <<chans, sequence, writeMu, writing, wire>>

\* Mutant: the frame is written without the mutex.
Lock_Skipped(g) ==
  /\ At(g, "lock")
  /\ writing' = writing \cup {g}
  /\ go' = [go EXCEPT ![g].at = "write"]
  /\ UNCHANGED <<chans, sequence, writeMu, wire>>

\* Mutant: a frame is dropped when another message is being written.
Lock_OrDrop(g) ==
  /\ At(g, "lock")
  /\ \/ writeMu = {} /\ writeMu' = {g} /\ writing' = writing \cup {g}
                     /\ go' = [go EXCEPT ![g].at = "write"]
     \/ writeMu # {} /\ Return(g) /\ UNCHANGED <<writeMu, writing>>
  /\ UNCHANGED <<chans, sequence, wire>>

\* writeMu is taken and WriteJSON begins.
Lock(g) ==
  /\ At(g, "lock")
  /\ writeMu = {} /\ writeMu' = {g}
  /\ writing' = writing \cup {g}
  /\ go' = [go EXCEPT ![g].at = "write"]
  /\ UNCHANGED <<chans, sequence, wire>>

\* WriteJSON ends, with an error once the WebSocket is closed: an error ends
\* the write loop.
Message(g) == [type |-> go[g].type, seq |-> go[g].seq, by |-> g,
               empty |-> go[g].empty]
Write(g) ==
  /\ At(g, "write")
  /\ writing' = writing \ {g}
  /\ writeMu' = {}
  /\ \/ conn.wsOpen /\ wire' = Append(wire, Message(g)) /\ Return(g)
     \/ /\ ~conn.wsOpen /\ g \in Senders
        /\ Return(g) /\ UNCHANGED wire
     \/ /\ ~conn.wsOpen /\ g = Writer
        /\ go' = [go EXCEPT ![g] = [Idle EXCEPT !.at = "end"]]
        /\ UNCHANGED wire
  /\ UNCHANGED <<chans, sequence>>
-----------------------------------------------------------------------------
(* The write loop's select.                                                *)

WriterTakes ==
  /\ At(Writer, "idle") /\ audioOut > 0
  /\ audioOut' = audioOut - 1
  /\ go' = [go EXCEPT ![Writer].at = "number", ![Writer].type = "media"]
  /\ UNCHANGED <<audio, conn, closed, panic>>
  /\ UNCHANGED <<sequence, writeMu, writing, wire>>

\* A closed and drained audioOut yields an empty chunk at once.
WriterTakesNothing ==
  /\ At(Writer, "idle") /\ audioOut = 0 /\ conn.outClosed
  /\ go' = [go EXCEPT ![Writer] = [Idle EXCEPT !.at = "number", !.empty = TRUE,
                                               !.type = "media"]]
  /\ UNCHANGED <<chans, sequence, writeMu, writing, wire>>

WriterStops ==
  /\ At(Writer, "idle") /\ conn.done
  /\ go' = [go EXCEPT ![Writer].at = "end"]
  /\ UNCHANGED <<chans, sequence, writeMu, writing, wire>>

\* Mutant: audioOut has no capacity.
Queue_Unbounded ==
  /\ ~audio
  /\ audioOut' = audioOut + 1
  /\ UNCHANGED <<audio, conn, closed, panic>>
  /\ UNCHANGED <<sequence, go, writeMu, writing, wire>>

\* sendAudioToTelnyx queues one chunk, as long as it is not interrupted; the
\* send panics when the connection has been closed under it, and a select
\* may choose it although the context is done.
Queue ==
  /\ ~audio
  /\ \/ conn.outClosed /\ panic' = TRUE /\ UNCHANGED audioOut
     \/ ~conn.outClosed /\ audioOut < OutCap
          /\ audioOut' = audioOut + 1 /\ UNCHANGED panic
  /\ UNCHANGED <<audio, conn, closed>>
  /\ UNCHANGED <<sequence, go, writeMu, writing, wire>>
-----------------------------------------------------------------------------
(* Session.Close sets closed and then closes the connection; the read loop *)
(* may close the connection on its own, and Telnyx the WebSocket.          *)

SessionCloses ==
  /\ ~closed /\ closed' = TRUE
  /\ UNCHANGED <<audio, conn, audioOut, panic>>
  /\ UNCHANGED <<sequence, go, writeMu, writing, wire>>

\* mediaStreamConn.close.
ConnCloses ==
  /\ \/ ~conn.closed /\ conn' = [conn EXCEPT !.closed = TRUE]
     \/ conn.closed /\ ~conn.done /\ conn' = [conn EXCEPT !.done = TRUE]
     \/ conn.done /\ ~conn.outClosed
          /\ conn' = [conn EXCEPT !.outClosed = TRUE]
     \/ conn.outClosed /\ conn.wsOpen /\ conn' = [conn EXCEPT !.wsOpen = FALSE]
  /\ UNCHANGED <<audio, closed, audioOut, panic>>
  /\ UNCHANGED <<sequence, go, writeMu, writing, wire>>

RemoteCloses ==
  /\ conn.wsOpen /\ conn' = [conn EXCEPT !.wsOpen = FALSE]
  /\ UNCHANGED <<audio, closed, audioOut, panic>>
  /\ UNCHANGED <<sequence, go, writeMu, writing, wire>>

Next ==
  /\ ~panic
  /\ \/ \E g \in Senders : SendAudio(g) \/ ClearAudio(g)
     \/ \E g \in Goroutines : \/ Number(g) \/ CheckOpen(g)
                               \/ Lock(g) \/ Write(g)
     \/ WriterTakes \/ WriterTakesNothing \/ WriterStops \/ Queue
     \/ SessionCloses \/ ConnCloses \/ RemoteCloses

Spec == Init /\ [][Next]_vars
-----------------------------------------------------------------------------
\* The type of every variable.
TypeOK ==
  /\ audio \in BOOLEAN
  /\ conn \in [closed : BOOLEAN, done : BOOLEAN, outClosed : BOOLEAN,
               wsOpen : BOOLEAN]
  /\ closed \in BOOLEAN
  /\ sequence \in 0..MaxFrames
  /\ audioOut \in 0..OutCap
  /\ go \in [Goroutines ->
               [at : {"idle", "number", "check", "lock", "write", "end"},
                type : {"none", "media", "clear"}, seq : 0..MaxFrames,
                empty : BOOLEAN]]
  /\ writeMu \in SUBSET Goroutines
  /\ writing \in SUBSET Goroutines
  /\ wire \in Seq([type : {"media", "clear"}, seq : 0..MaxFrames,
                   by : Goroutines, empty : BOOLEAN])
  /\ panic \in BOOLEAN

\* v0.6.0 notes, "writes are now serialized": no two goroutines are inside
\* WriteJSON at once, which gorilla/websocket does not allow.
WritesSerialized == Cardinality(writing) <= 1

\* "one sequence counter per stream across all senders": no two frames on the
\* wire carry the same number, whoever sent them.
Media == {i \in DOMAIN wire : wire[i].type = "media"}
NumbersUnique == \A i, j \in Media : wire[i].seq = wire[j].seq => i = j

\* Nothing is lost on an open connection: when no goroutine is sending, the
\* numbers handed out are exactly the numbers on the wire.
NoGaps ==
  conn.wsOpen /\ ~conn.closed /\ (\A g \in Goroutines : At(g, "idle"))
    => {wire[i].seq : i \in Media} = 1..sequence

\* The empty chunks the write loop receives from the closed audioOut channel
\* never reach Telnyx: closed was set before the channel was closed.
NoEmptyFrame == \A i \in DOMAIN wire : ~wire[i].empty
-----------------------------------------------------------------------------
\* README, "Close stops only the media stream": closing the connection while
\* the agent is speaking does not bring the process down.
SpeechIsInterruptible == ~panic
=============================================================================
