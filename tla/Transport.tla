----------------------------- MODULE Transport -----------------------------
(***************************************************************************)
(* One media stream of the transport package (transport/provider.go): the  *)
(* Connection with its two loops, the audioWriter and the audioReader the  *)
(* application uses, and the Provider that lists it.                       *)
(*                                                                         *)
(* Goroutines: "handler" is HandleWebSocket, "reader" and "writer" are the *)
(* two loops, "speaker" calls Write and "player" Read, "app" closes the    *)
(* connection and "owner" the provider.  Connection.Close is a sync.Once:  *)
(* field "close" is the statement its body has come to, and later callers  *)
(* wait for the end.  Provider.mu is a variable because Provider.Close     *)
(* holds it across steps; audioWriter.mu is held while Write makes room.   *)
(*                                                                         *)
(* A chunk of audio is its number, and Size bytes long: a byte is a pair   *)
(* of the chunk and the place in it.                                       *)
(***************************************************************************)
EXTENDS Naturals, Sequences, SequencesExt

CONSTANTS WriteCap,   \* capacity of audioWriter.ch (100 in the code)
          ReadCap,    \* capacity of audioReader.ch (100 in the code)
          EvCap,      \* capacity of events (100 in the code)
          Size,       \* bytes in a chunk from Telnyx
          MaxMoves    \* what Telnyx and the application do in all (bound)

ASSUME TransportBounds ==
  /\ WriteCap \in Nat \ {0} /\ ReadCap \in Nat \ {0} /\ EvCap \in Nat \ {0}
  /\ Size \in Nat \ {0} /\ MaxMoves \in Nat

VARIABLES
  pc,        \* where each goroutine is
  conn,      \* the Connection
  provider,  \* the holder of Provider.mu, connections and listeners
  events,    \* number of events buffered
  in,        \* audioWriter: its channel, and the item Write holds
  out,       \* audioReader: its channel and its buffer
  written,   \* history: items passed to Write so far
  taken,     \* history: items the write loop received, written or not
  accepted,  \* history: chunks that entered audioReader.ch
  read,      \* history: bytes Read has returned
  moves,     \* bound: moves of Telnyx and the application so far
  panic      \* the closed channel somebody sent on

writing == <<in, written, taken>>
reading == <<out, accepted, read>>
vars == <<pc, conn, provider, events, writing, reading, moves, panic>>

Closers == {"reader", "app", "owner"}
None == 0

Init ==
  /\ pc = [handler |-> "lookup", reader |-> "top", writer |-> "run",
           speaker |-> "idle", player |-> "idle", app |-> "idle",
           owner |-> "idle"]
  /\ conn = [close |-> "idle", closed |-> FALSE, done |-> FALSE,
             outClosed |-> FALSE, evClosed |-> FALSE, wsOpen |-> TRUE,
             started |-> FALSE]
  /\ provider = [mu |-> "free", listed |-> FALSE, listening |-> TRUE]
  /\ events = 0
  /\ in = [ch |-> <<>>, closed |-> FALSE, hand |-> None]
  /\ out = [ch |-> <<>>, buffer |-> <<>>]
  /\ written = 0
  /\ taken = <<>>
  /\ accepted = <<>>
  /\ read = <<>>
  /\ moves = 0
  /\ panic = "none"

At(g, label) == pc[g] = label
Goto(g, label) == pc' = [pc EXCEPT ![g] = label]
Moved == moves < MaxMoves /\ moves' = moves + 1
Step(g, from, to) == At(g, from) /\ Goto(g, to)
-----------------------------------------------------------------------------
(* HandleWebSocket: the loops are running; the listener is looked up under *)
(* Provider.mu and notified outside it.                                    *)

Lookup ==
  /\ provider.mu = "free"
  /\ Step("handler", "lookup", IF provider.listening THEN "notify" ELSE "over")
  /\ UNCHANGED panic

Notify ==
  /\ Step("handler", "notify", "over")
  /\ panic' = IF provider.listening THEN panic ELSE "listener"

Handler ==
  /\ Lookup \/ Notify
  /\ UNCHANGED <<conn, provider, events, writing, reading, moves>>
-----------------------------------------------------------------------------
(* Connection.Close.                                                       *)

CloseStatement(at, next, field) ==
  /\ conn.close = at
  /\ conn' = [conn EXCEPT !.close = next, ![field] = TRUE]

CloseFlag == CloseStatement("flag", "done", "closed") /\ UNCHANGED <<in, provider>>
CloseDone == CloseStatement("done", "in", "done") /\ UNCHANGED <<in, provider>>

\* audioWriter.Close, under its mutex.
CloseIn ==
  /\ conn.close = "in" /\ pc.speaker \notin {"drop", "put"}
  /\ conn' = [conn EXCEPT !.close = "out"]
  /\ in' = [in EXCEPT !.closed = TRUE]
  /\ UNCHANGED provider

\* Mutant: the channel of incoming audio stays open.
CloseOut_Forgets ==
  /\ conn.close = "out"
  /\ conn' = [conn EXCEPT !.close = "events"]
  /\ UNCHANGED <<in, provider>>

CloseOut ==
  CloseStatement("out", "events", "outClosed") /\ UNCHANGED <<in, provider>>
CloseEvents ==
  CloseStatement("events", "ws", "evClosed") /\ UNCHANGED <<in, provider>>

CloseWs ==
  /\ conn.close = "ws"
  /\ conn' = [conn EXCEPT !.close = "delist", !.wsOpen = FALSE]
  /\ UNCHANGED <<in, provider>>

\* Mutant: the connection is not deleted from the provider.
CloseDelist_Forgets ==
  /\ conn.close = "delist" /\ provider.mu = "free"
  /\ conn' = [conn EXCEPT !.close = "finished"]
  /\ UNCHANGED <<in, provider>>

\* The connection is deleted under Provider.mu.
CloseDelist ==
  /\ conn.close = "delist" /\ provider.mu = "free"
  /\ conn' = [conn EXCEPT !.close = "finished"]
  /\ provider' = [provider EXCEPT !.listed = FALSE]
  /\ UNCHANGED in

CloseBody ==
  /\ \/ CloseFlag \/ CloseDone \/ CloseIn \/ CloseOut \/ CloseEvents
     \/ CloseWs \/ CloseDelist
  /\ UNCHANGED <<pc, events, written, taken, reading, moves, panic>>

StartClose ==
  conn' = IF conn.close = "idle" THEN [conn EXCEPT !.close = "flag"] ELSE conn

CallClose(g, from) ==
  /\ Step(g, from, "closing")
  /\ StartClose
  /\ UNCHANGED <<provider, events, writing, reading, panic>>

CloseReturns(g, to) ==
  /\ conn.close = "finished" /\ Step(g, "closing", to)
  /\ UNCHANGED <<conn, provider, events, writing, reading, moves, panic>>
-----------------------------------------------------------------------------
(* Provider.Close: everything under Provider.mu, the calls of              *)
(* Connection.Close included.                                              *)

OwnerLocks ==
  /\ provider.mu = "free" /\ Moved
  /\ Step("owner", "idle", "each")
  /\ provider' = [provider EXCEPT !.mu = "owner"]
  /\ UNCHANGED <<conn, events, writing, reading, panic>>

OwnerClosesConn ==
  provider.listed /\ CallClose("owner", "each") /\ UNCHANGED moves

OwnerUnlocks ==
  /\ \/ ~provider.listed /\ Step("owner", "each", "over")
     \/ conn.close = "finished" /\ Step("owner", "closing", "over")
  /\ provider' = [mu |-> "free", listed |-> FALSE, listening |-> FALSE]
  /\ UNCHANGED <<conn, events, writing, reading, moves, panic>>
-----------------------------------------------------------------------------
(* readLoop.                                                               *)

ReaderMoves(from, to) ==
  /\ Step("reader", from, to)
  /\ UNCHANGED <<conn, provider, events, writing, reading, panic>>

ReadTop ==
  ReaderMoves("top", IF conn.done THEN "leave" ELSE "receive") /\ UNCHANGED moves

\* "connected" and "dtmf" are an event each; "stop" is two and the end.
ReceiveEvent == conn.wsOpen /\ ReaderMoves("receive", "event") /\ Moved
ReceiveStop == conn.wsOpen /\ ReaderMoves("receive", "stopped") /\ Moved

\* "start": the connection gets its ID, and is listed under Provider.mu.
ReceiveStart ==
  /\ conn.wsOpen /\ ~conn.started /\ Moved
  /\ Step("reader", "receive", "list")
  /\ conn' = [conn EXCEPT !.started = TRUE]
  /\ UNCHANGED <<provider, events, writing, reading, panic>>

List ==
  /\ provider.mu = "free"
  /\ Step("reader", "list", "event")
  /\ provider' = [provider EXCEPT !.listed = TRUE]
  /\ UNCHANGED <<conn, events, writing, reading, moves, panic>>

ReceiveMedia == conn.wsOpen /\ ReaderMoves("receive", "media") /\ Moved

\* Mutant: a handler of the closing WebSocket closes the connection at once.
TelnyxHangsUp_Closes ==
  /\ conn.wsOpen /\ Moved
  /\ \E label \in {"leave", "failed"} : Step("reader", "receive", label)
  /\ conn' = [conn EXCEPT !.wsOpen = FALSE,
                         !.close = IF @ = "idle" THEN "flag" ELSE @]
  /\ UNCHANGED <<provider, events, writing, reading, panic>>

\* ReadMessage fails: quietly when Telnyx closed the WebSocket in order, with
\* an event otherwise, which is always the case after a local close.
TelnyxHangsUp ==
  /\ conn.wsOpen /\ Moved
  /\ \E label \in {"leave", "failed"} : Step("reader", "receive", label)
  /\ conn' = [conn EXCEPT !.wsOpen = FALSE]
  /\ UNCHANGED <<provider, events, writing, reading, panic>>

ReceiveFails == ~conn.wsOpen /\ ReaderMoves("receive", "failed") /\ UNCHANGED moves

\* A send on events, which blocks while it is full and panics once it is
\* closed.
SendEvent(from, to) ==
  /\ At("reader", from)
  /\ \/ conn.evClosed /\ panic' = "events" /\ UNCHANGED <<pc, events>>
     \/ /\ ~conn.evClosed /\ events < EvCap
        /\ events' = events + 1
        /\ Goto("reader", to)
        /\ UNCHANGED panic
  /\ UNCHANGED <<conn, provider, writing, reading, moves>>

\* audioReader.write: dropped when the channel is full.
Deliver ==
  /\ At("reader", "media")
  /\ \/ conn.outClosed /\ panic' = "audioOut" /\ UNCHANGED <<pc, out, accepted>>
     \/ /\ ~conn.outClosed
        /\ Goto("reader", "top")
        /\ IF Len(out.ch) < ReadCap
           THEN /\ out' = [out EXCEPT !.ch = Append(@, Len(accepted) + 1)]
                /\ accepted' = Append(accepted, Len(accepted) + 1)
           ELSE UNCHANGED <<out, accepted>>
        /\ UNCHANGED panic
  /\ UNCHANGED <<conn, provider, events, writing, read, moves>>

Reader ==
  \/ ReadTop \/ List \/ ReceiveFails \/ Deliver
  \/ SendEvent("event", "top") \/ SendEvent("failed", "leave")
  \/ SendEvent("stopped", "disconnected") \/ SendEvent("disconnected", "leave")
  \/ CallClose("reader", "leave") /\ UNCHANGED moves
  \/ CloseReturns("reader", "over")

Telnyx == ReceiveEvent \/ ReceiveStop \/ ReceiveStart \/ ReceiveMedia
            \/ TelnyxHangsUp
-----------------------------------------------------------------------------
(* audioWriter.Write and the write loop.                                   *)

\* Under the mutex: refused when it is closed, queued when there is room, and
\* otherwise room is made first.
Write ==
  /\ At("speaker", "idle") /\ Moved
  /\ written' = written + 1
  /\ \/ in.closed /\ UNCHANGED <<pc, in>>
     \/ /\ ~in.closed /\ Len(in.ch) < WriteCap
        /\ in' = [in EXCEPT !.ch = Append(@, written + 1)]
        /\ UNCHANGED pc
     \/ /\ ~in.closed /\ Len(in.ch) = WriteCap
        /\ in' = [in EXCEPT !.hand = written + 1]
        /\ Goto("speaker", "drop")
  /\ UNCHANGED <<conn, provider, events, taken, reading, panic>>

\* Mutant: room is made at the wrong end.
DropOldest_DropsNewest ==
  /\ Step("speaker", "drop", "put")
  /\ in' = [in EXCEPT !.ch = IF @ = <<>> THEN @ ELSE Front(@)]
  /\ UNCHANGED <<conn, provider, events, written, taken, reading, moves, panic>>

\* Mutant: no room is made, Write waits for the write loop.
DropOldest_Waits ==
  /\ Step("speaker", "drop", "put")
  /\ UNCHANGED <<conn, provider, events, writing, reading, moves, panic>>

\* The receive that makes room; the write loop may have been faster.
DropOldest ==
  /\ Step("speaker", "drop", "put")
  /\ in' = [in EXCEPT !.ch = IF @ = <<>> THEN @ ELSE Tail(@)]
  /\ UNCHANGED <<conn, provider, events, written, taken, reading, moves, panic>>

\* The second send, which waits for room.
PutNewest ==
  /\ Len(in.ch) < WriteCap
  /\ Step("speaker", "put", "idle")
  /\ in' = [in EXCEPT !.ch = Append(@, in.hand), !.hand = None]
  /\ UNCHANGED <<conn, provider, events, written, taken, reading, moves, panic>>

\* The write loop takes an item and writes it; on a closed connection it is
\* dropped, and an item whose write fails is the loop's last.
WriterTakes ==
  /\ At("writer", "run") /\ in.ch # <<>>
  /\ taken' = Append(taken, Head(in.ch))
  /\ in' = [in EXCEPT !.ch = Tail(@)]
  /\ Goto("writer", IF ~conn.closed /\ ~conn.wsOpen THEN "over" ELSE "run")
  /\ UNCHANGED <<conn, provider, events, written, reading, moves, panic>>

WriterStops ==
  /\ conn.done /\ Step("writer", "run", "over")
  /\ UNCHANGED <<conn, provider, events, writing, reading, moves, panic>>
-----------------------------------------------------------------------------
(* audioReader.Read, with room for n bytes.                                *)

Bytes(c) == [i \in 1..Size |-> <<c, i>>]
FirstBytes(s, n) == SubSeq(s, 1, IF n < Len(s) THEN n ELSE Len(s))
Rest(s, n) == SubSeq(s, n + 1, Len(s))

Read(n) ==
  /\ At("player", "idle") /\ Moved
  /\ \/ /\ out.buffer # <<>>
        /\ read' = read \o FirstBytes(out.buffer, n)
        /\ out' = [out EXCEPT !.buffer = Rest(@, n)]
        /\ UNCHANGED pc
     \/ /\ out.buffer = <<>>
        /\ Goto("player", "wait")
        /\ UNCHANGED <<read, out>>
  /\ UNCHANGED <<conn, provider, events, writing, accepted, panic>>

\* Mutant: what does not fit into the caller's slice is forgotten.
ReadChunk_Forgets(n) ==
  /\ At("player", "wait") /\ out.ch # <<>>
  /\ read' = read \o FirstBytes(Bytes(Head(out.ch)), n)
  /\ out' = [out EXCEPT !.ch = Tail(@)]
  /\ Goto("player", "idle")
  /\ UNCHANGED <<conn, provider, events, writing, accepted, moves, panic>>

\* Mutant: the whole chunk is kept for the next call.
ReadChunk_KeepsAll(n) ==
  /\ At("player", "wait") /\ out.ch # <<>>
  /\ read' = read \o FirstBytes(Bytes(Head(out.ch)), n)
  /\ out' = [ch |-> Tail(out.ch), buffer |-> Bytes(Head(out.ch))]
  /\ Goto("player", "idle")
  /\ UNCHANGED <<conn, provider, events, writing, accepted, moves, panic>>

\* A chunk has come: what does not fit is kept for the next call.
ReadChunk(n) ==
  /\ At("player", "wait") /\ out.ch # <<>>
  /\ read' = read \o FirstBytes(Bytes(Head(out.ch)), n)
  /\ out' = [ch |-> Tail(out.ch), buffer |-> Rest(Bytes(Head(out.ch)), n)]
  /\ Goto("player", "idle")
  /\ UNCHANGED <<conn, provider, events, writing, accepted, moves, panic>>

\* Mutant: the end is reported as soon as the connection is closed.
ReadEnd_Early ==
  /\ conn.closed /\ Step("player", "wait", "eof")
  /\ UNCHANGED <<conn, provider, events, writing, reading, moves, panic>>

\* The channel is closed and drained: io.EOF.
ReadEnd ==
  /\ conn.outClosed /\ out.ch = <<>>
  /\ Step("player", "wait", "eof")
  /\ UNCHANGED <<conn, provider, events, writing, reading, moves, panic>>
-----------------------------------------------------------------------------
AppCloses == CallClose("app", "idle") /\ Moved

\* The application receives the events.
AppReceives ==
  /\ events > 0 /\ events' = events - 1
  /\ UNCHANGED <<pc, conn, provider, writing, reading, moves, panic>>

Program ==
  \/ Handler \/ CloseBody \/ Reader \/ DropOldest \/ PutNewest
  \/ WriterTakes \/ WriterStops \/ ReadEnd \/ \E n \in 1..Size : ReadChunk(n)
  \/ CloseReturns("app", "over") \/ OwnerClosesConn \/ OwnerUnlocks
  \/ AppReceives
Environment ==
  \/ Telnyx \/ Write \/ AppCloses \/ OwnerLocks \/ \E n \in 1..Size : Read(n)

Next == panic = "none" /\ (Program \/ Environment)

Spec == Init /\ [][Next]_vars

\* As long as some goroutine can run, one does; the application receives the
\* events.
FairSpec == Spec /\ WF_vars(panic = "none" /\ Program)
-----------------------------------------------------------------------------
Labels ==
  [handler : {"lookup", "notify", "over"},
   reader : {"top", "receive", "event", "stopped", "disconnected", "list",
             "media", "failed", "leave", "closing", "over"},
   writer : {"run", "over"}, speaker : {"idle", "drop", "put"},
   player : {"idle", "wait", "eof"}, app : {"idle", "closing", "over"},
   owner : {"idle", "each", "closing", "over"}]

Connections ==
  [close : {"idle", "flag", "done", "in", "out", "events", "ws", "delist",
            "finished"},
   closed : BOOLEAN, done : BOOLEAN, outClosed : BOOLEAN, evClosed : BOOLEAN,
   wsOpen : BOOLEAN, started : BOOLEAN]

\* The type of every variable.
TypeOK ==
  /\ pc \in Labels
  /\ conn \in Connections
  /\ provider \in [mu : {"free", "owner"}, listed : BOOLEAN,
                   listening : BOOLEAN]
  /\ events \in 0..EvCap
  /\ in \in [ch : Seq(1..MaxMoves), closed : BOOLEAN, hand : 0..MaxMoves]
  /\ out \in [ch : Seq(1..MaxMoves),
             buffer : Seq((1..MaxMoves) \X (1..Size))]
  /\ Len(in.ch) <= WriteCap /\ Len(out.ch) <= ReadCap
  /\ Len(out.buffer) < Size
  /\ written \in 0..MaxMoves /\ taken \in Seq(1..MaxMoves)
  /\ accepted \in Seq(1..MaxMoves)
  /\ read \in Seq((1..MaxMoves) \X (1..Size))
  /\ moves \in 0..MaxMoves
  /\ panic \in {"none", "events", "audioOut", "listener"}

\* Write keeps the newest audio, in order, and gives up the oldest: the queue
\* with the item in Write's hand behind it is the abstract one.  This is about
\* what the write loop takes, not about what it then manages to write.
Queue == INSTANCE LossyQueue WITH
  Item <- 1..MaxMoves, Cap <- WriteCap,
  waiting <- IF in.hand = None THEN in.ch ELSE Append(in.ch, in.hand),
  full <- At("speaker", "drop")
KeepsNewest == Queue!Spec

\* The bytes of the first m accepted chunks, in order: each is followed by
\* the next place of its chunk, or by the beginning of the next chunk.
NextByte(b) == IF b[2] < Size THEN <<b[1], b[2] + 1>> ELSE <<b[1] + 1, 1>>
BytesOfFirst(m, s) ==
  \/ m = 0 /\ s = <<>>
  \/ /\ m > 0 /\ s # <<>>
     /\ s[1] = <<1, 1>> /\ s[Len(s)] = <<m, Size>>
     /\ \A i \in 1..(Len(s) - 1) : s[i + 1] = NextByte(s[i])

\* Read returns the bytes of the accepted chunks in order, whatever the size
\* of the caller's slices, nothing twice and nothing left out: what it has
\* returned, and then what it keeps, is every chunk that has left the channel,
\* and in the channel are the others.
ReadsEveryByte ==
  LET left == Len(accepted) - Len(out.ch)
  IN /\ BytesOfFirst(left, read \o out.buffer)
     /\ \A i \in DOMAIN out.ch : out.ch[i] = left + i

\* io.EOF comes after the last accepted byte, also when the connection was
\* closed with audio still buffered.
EofIsLast == At("player", "eof") => BytesOfFirst(Len(accepted), read)

\* A call of Connection.Close that has returned, whoever was first, has left
\* everything closed, and the provider no longer lists the connection; but for
\* a read loop that was in the middle of a start message, which lists it again
\* and goes on to send on the closed events.
CloseComplete ==
  At("reader", "over") \/ At("app", "over") =>
    /\ conn.closed /\ conn.done /\ conn.outClosed /\ conn.evClosed
    /\ in.closed /\ ~conn.wsOpen
    /\ provider.listed => At("reader", "event")

\* A stream that Telnyx ends, with a stop message or by closing the WebSocket
\* in whatever way, brings nothing down: only a close of the connection or
\* of the provider by the application can meet a goroutine that still sends.
RemoteEndIsClean == At("app", "idle") /\ At("owner", "idle") => panic = "none"

\* Write returns, also when the write loop has ended.
WriteReturns == <>[](panic = "none" => At("speaker", "idle"))

\* However a stream ends, the loops end, and so does a Read that waits; as
\* long as the provider is not being closed.
StreamEnds ==
  <>[](~conn.wsOpen \/ conn.close # "idle" =>
         \/ panic # "none" \/ ~At("owner", "idle")
         \/ /\ At("reader", "over") /\ At("writer", "over")
            /\ ~At("player", "wait") /\ ~At("app", "closing"))
-----------------------------------------------------------------------------
\* "Close shuts down the transport": Provider.Close returns.
ProviderCloseReturns == <>[](panic = "none" => pc.owner \in {"idle", "over"})
=============================================================================
