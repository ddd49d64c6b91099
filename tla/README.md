# A verification project for omni-telnyx

TLA+ modules that model the voice half of `omni-telnyx`, TLC configurations that
check them on small instances, and theorems about them proved with TLAPS. Paths
are relative to the repository root; `gateway/` stands for `omnivoice/gateway/`.

| Module | Models | Checked by | Theorems |
|---|---|---|---|
| `MediaStream` | a `Session` and its `mediaStreamConn`, statement by statement | through `AudioMode` | |
| `AudioMode` | a call in `PipelineModeAudio`, on top of `MediaStream` | `audio_mode`, `audio_liveness` | in `AudioModeProofs`, `AudioFeedProofs` |
| `AudioFeed` | abstract: what `ReceiveAudio` promises | as a property of `audio_mode` | |
| `AudioModeProofs` | the inductive invariant of a call in audio mode | `audio_mode` | five |
| `AudioFeedProofs` | on top of it: the audio itself, and the refinement of `AudioFeed` | | five |
| `ToolLoop` | `Generate`: completions and tool calls | through `VoicePipeline` | in `VoicePipelineProofs` |
| `VoicePipeline` | a call in text mode: the `Pipeline` and what starts, uses and ends it | `text_pipeline`, `text_bargein` | in `VoicePipelineProofs`, `SpeechProofs` |
| `VoicePipelineProofs` | the inductive invariants of turns and of tool calls | | two |
| `SpeechProofs` | on top of it: what the caller says, and the types | | three |
| `OutboundMedia` | what is written to the WebSocket | `outbound_media`, `outbound_speech` | in `OutboundMediaProofs` |
| `OutboundMediaProofs` | the inductive invariant of the frames and their numbers | | six |
| `CallSystem` | the registry of calls, the calls, Telnyx Call Control | through `Gateway` | in `GatewayProofs` |
| `Gateway` | webhooks, media streams, the session map, the application | the four `gateway_*` runs | in `GatewayProofs` |
| `GatewayProofs` | the inductive invariant of calls, sessions and goroutines | | six |
| `MCGateway` | the symmetry of a small instance of `Gateway` | | |
| `Transport` | a media stream of the transport package, and its provider | `transport`, `transport_close` | in `TransportProofs` |
| `TransportProofs` | the inductive invariant of a connection, and the refinement of `LossyQueue` | | seven |
| `LossyQueue` | abstract: what writing to a transport connection promises | as a property of `transport` | |

To check a run: `tlc -config AudioMode.cfg AudioModeProofs` (`PROJECT.json` lists the
module and the cfg of each). To check the proofs: `tlapm M.tla` for each module `M` whose
name ends in `Proofs`. Every safety invariant and every action property that a run checks
and finds to hold is also a theorem; see *The proofs*.

# 1. Inventory

## The system

`omni-telnyx` connects an application to Telnyx. A phone call involves three
parties: Telnyx Call Control (HTTP requests out, webhooks in), Telnyx Media
Streaming (one WebSocket per call, opened by Telnyx) and the application, which
embeds the gateway and runs goroutines of its own.

```
 Telnyx --webhooks--> handlers.go ----> Provider (registry) ----> Call --requests--> Telnyx
                          |                                         
                          v                                         
 application <------- Gateway.sessions ---> Session <---- events, audio ----> application
                                              |                               
 Telnyx <==WebSocket==> mediaStreamConn <-----+----> Pipeline (text) or passthrough (audio)
```

Every webhook and every WebSocket is served by a goroutine of `net/http`; a
WebSocket adds a read loop and a write loop; a session adds its pipeline's
goroutines. They meet in five mutexes (`Gateway.mu`, `Provider.mu`, `Call.mu`,
`Session.mu`, `mediaStreamConn.writeMu`), two `sync.Once` and the channels named below.

| Component | Source | State | Operations |
|---|---|---|---|
| Gateway | `gateway/gateway.go`, `gateway/handlers.go` | `sessions`, the server, the OnCall handler | the webhooks `/voice/inbound`, `/voice/status`, the WebSocket `/ws/media-stream`, `MakeCall`, `GetSession`, `ListSessions`, `Stop` |
| Session | `gateway/session.go`, `gateway/audio.go` | `closed`, `done`, `conn`, `pipeline`, `events`, `audioRecv`, `audioForwarding` | `Close`, `Hangup`, `Interrupt`, `emitEvent`, `startPipeline`, `runAudioPassthrough`, `ReceiveAudio`, `SendAudio`, `ClearAudio` |
| Media connection | `gateway/connection.go` | `closed`, `done`, `audioIn`, `audioOut`, `sequence`, `writeMu`, `sessionReady`, `pipelineReady` | `readLoop`, `writeLoop`, `sendAudio`, `sendClear`, `close` |
| Text pipeline | `gateway/pipeline.go` | `audioBuffer`, `isSpeaking`, `isProcessing`, `interrupted`, `ctx`, `done` | `Start`, the greeting, `processAudioLoop`, `silenceDetectionLoop`, turns (`processAudio`, `processInput`), `Interrupt`, `Stop` |
| Speech and language providers | `gateway/providers.go` | none of their own | one request each; the tool loop |
| Call system | `omnivoice/callsystem/` | `calls`, each call's status, digits, stream | `MakeCall`, `HandleIncomingWebhook`, `HandleCallEvent`, `GetCall`, `Close`, and a call's `Answer`, `Hangup`, `SendPendingDigits`, `StartMediaStreaming` |
| Transport | `omnivoice/transport/` | `connections`, `listeners`; of each connection `closed`, `done`, `events`, `audioIn`, `audioOut` | `HandleWebSocket`, the two loops, `Write`, `Read`, `Close` of a connection and of the provider |
| Messaging | `omnichat/provider.go` | connected, the message handler | `Connect`, `Disconnect`, `Send`, webhook handling |
| Registration, options | `gateway/init.go`, `gateway/options.go` | none after start-up | copies options into a configuration |

## What makes it hard

* **Concurrent ends.** A call is ended by the stream (a `stop` message or the
  remote close), by the hangup webhook, by the application (`Close`, `Hangup`, `Stop`)
  and by `MaxSessionDuration`, in any order and at the same time. Go punishes a wrong
  order with a panic (a send on a closed channel, a second close) that takes the whole
  process down.
* **Unordered, repeated webhooks.** Telnyx delivers a webhook at least once, each in
  a goroutine of its own: `call.hangup` may be handled before `call.initiated`, and
  `call.answered` before `MakeCall` has registered the call it placed.
* **A lock held across a wait.** `Gateway.Stop` and `Provider.Close` call, under
  their mutex, operations that wait or that lock.
* **Full buffers.** `audioIn` drops, `audioRecv` blocks, `events` drops, `audioOut`
  blocks; the transport's writer drops the oldest, its `events` block. A slow
  application must slow down nothing but itself.
* **Overlapping turns.** In text mode every utterance and every `SendText` is a
  goroutine of its own; all of them share one `interrupted` and one `isProcessing`
  flag, one `audioOut`, and one array under `audioBuffer`.
* **Indirect ownership.** Which goroutine closes `audioRecv` depends on whether the
  passthrough took over before `Close` set `closed`.

`PROJECT.json` lists each such hazard at its line, with the properties that cover it.

## What makes each component correct

* *Session and media connection, audio mode*: `events` and `audioRecv` are never misused
  (`audioIn` is, when `Close` meets the read loop); a returned `Close` means everything is
  closed; accepted audio arrives in order, complete unless the session is cut short; the
  end is announced, unless nobody reads the events; every end is reached.
* *Outbound media*: one writer at a time on the WebSocket, one number per frame, no
  frame lost on an open connection, no empty frame at the close.
* *Call system and gateway*: digits are entered once; a live call stays registered and
  a refused one leaves nothing; a closed session is off the map; webhook handlers return,
  and a media stream's with its connection.
* *Text pipeline*: what the caller says becomes exactly one turn; a turn that was
  interrupted falls silent; every turn ends, and after `Stop` or the deadline neither
  the loops nor `startPipeline` run on.
* *Providers*: every tool call is answered before the next completion is requested, and
  the loop ends.
* *Transport*: bytes are read once and in order up to the end of the stream, the newest
  audio wins, and what the remote end does ends the stream without bringing anything
  down.
* *Messaging*: nothing relates two pieces of its state.

# 2. The models

## `MediaStream` and `AudioMode`: one call in audio mode

Four goroutines (`pc`): `reader` is `readLoop`, `handler` the HTTP goroutine in
`handleMediaStream` and then `runAudioPassthrough`, `webhook` a `call.hangup`
handler, `app` the application calling `Close` or `Interrupt`; besides it, the
application reads events and audio whenever it likes. A step is what no other
goroutine can cut in two: a critical section, one channel operation, or one statement
that another goroutine can observe.

`sess` and `conn` are the structs, reduced to their flags. The bodies of the two
`sync.Once` (`Session.Close`, `mediaStreamConn.close`) are run one statement at a time
by `SessClose` and `ConnClose`: the field `close` names the next statement, a caller
(`CallClose`, `StartConnClose`) starts the body if nobody has and then waits until
it is `"finished"`, exactly as later callers of `Once.Do` block.

| In the code | In the model |
|---|---|
| `Session.mu` read-locked around `emitEvent` | `rlock`; `WriterWaits` keeps new readers out as `sync.RWMutex` does |
| `closed` and the close of `audioRecv` under `Session.mu` | `SessCloseFlag`, one step |
| `audioIn`, `audioRecv` | sequences of chunk numbers, capacities `InCap`, `RecvCap` |
| `events` | a count, capacity `EvCap`; `announced` remembers what became of `EventSessionEnded`: put into the channel (`"sent"`), or dropped because it was full (`"full"`) |
| send on, or second close of, a closed channel | sets `panic`; nothing happens after it |
| `select` with several ready cases | a disjunction: `HandlerGivesUp`, `HandlerStarts`, `ForwardInterrupted` |
| `context.WithTimeout(MaxSessionDuration)` | `Expire` |

A chunk is its number: the audio itself is never looked at by this code. `accepted`
and `received` are history variables, what entered `audioIn` and what left
`ReceiveAudio`.

`AudioFeed` is the abstract specification: chunks taken are handed over in order,
without gap or repetition, until an end. `AudioMode` implements it under `taken <-
accepted`, `handed <- received \o audioRecv`, `open <- ~recvClosed`: what sits in the
buffered `audioRecv` counts as handed over, since closing a Go channel does not
discard its buffer.

## `OutboundMedia`: what reaches the WebSocket

The goroutines are `Senders` (callers of `SendAudio`, `ClearAudio`, or of the
pipeline's `Interrupt`) and the write loop. A frame takes the steps `Number`
(`nextSequence`), `CheckOpen` (`closed` is tested), `Lock`, `Write`: the steps between
which another goroutine can run. Variable `audio` is the configured mode: chosen in
`Init`, never changed. In audio mode `Senders` send; in text mode only the
pipeline fills `audioOut` (`Queue`), and the write loop is the only sender of frames.
`SessionCloses`, `ConnCloses` and `RemoteCloses` may come at any point.

## `VoicePipeline` and `ToolLoop`: one call in text mode

The goroutines are the handler (`Session.startPipeline` and `Pipeline.Start`, which
speaks the greeting itself), `processAudioLoop`, `silenceDetectionLoop`, one per turn,
`Session.Close`, the read loop as far as it closes the connection, and the write loop.

| In the code | In the model |
|---|---|
| `isSpeaking`, `isProcessing`, `interrupted`, `done` | fields of `p` |
| the context of `Start`, its deadline and its `cancel` | `p.ctxDone`, set by `Expire`, `Stop`, `StartReturns` |
| `s.pipeline = pipeline`; `p.ctx, p.cancel = ...` | `p.stored`; `p.started` |
| `go p.processAudio(audio)`, `SendText` | a turn of kind `"voice"` or `"typed"` goes to `"new"` |
| `sendGreeting` | turn 0, started by the handler, which waits for it |
| one stage of a turn: a request and the test of the flag after it | `Transcribe`, `Generate`, `Synthesize` with `Proceed` |
| the loop of `sendAudioToTelnyx` | `Speak` (the test), `Send` (the select) |
| the deferred reset of `isProcessing` | `Leaves` goes to `"finish"`, then `Finish` |
| `audioBuffer`, a `bytes.Buffer` | `audioBuffer`, the chunks collected, and `array`, the array below it |
| a `WriteJSON` that does not return, under `writeMu` | `conn.stalled`, which holds up `WriteLoop` and the `Clear` of a barge-in |

`Stalls` is Telnyx's: it takes no more data, and no write returns. No write deadline is set,
so that only the close of the WebSocket then frees the holder of `writeMu`, and with it
whoever waits for that lock. A stall that passes is an interleaving in which the write loop
takes its next step late, and needs no action.

`bytes.Buffer` is modelled to the array because `silenceDetectionLoop` takes `Bytes()` and
then calls `Reset()`: the turn's slice and the buffer share the array from then on,
and the caller's next words are written over the beginning of what the turn has not yet
transcribed. `Collect` does this; `array.users` are the turns whose slice is in the array,
until a larger one is allocated. A turn keeps both what it was given (`given`) and what
its slice holds (`audio`).

`quiet` is a history variable: what an `Interrupt` obliges each turn to. A turn that had
begun owes silence (`"quiet"`), one inside the select of a send may finish that send
(`"last"`); queueing more makes it `"broken"`. When a new turn resets the flag, the
others are released; those that had not yet spoken are remembered (`"reset"`, then
`"spoke"` if they do).

A request to a provider returns a result, an error, or, for the transcription, an empty
text: each is a disjunct. `ToolLoop` has the steps of `Generate` for a set of
`Generators`, here the turns: a completion calls tools (`CallTools`), each is run and
answered (`RunTool`), until one calls none (`Replies`), fails, or the rounds are used up
(`GenerateFails`). `MaxRounds` is 10 in the code.

## `Transport`: a media stream of the transport package

`reader` and `writer` are the two loops, `handler` is `HandleWebSocket`, `speaker` calls
`Write`, `player` calls `Read`, `app` calls `Connection.Close`, `owner` calls
`Provider.Close`. As in `MediaStream` the body of the `sync.Once` runs one statement at a
time (`CloseBody`), and a second caller waits for it. `Provider.mu` is a variable, since
`Provider.Close` holds it across all its statements. `audioWriter.mu` is held
exactly while `speaker` is in `"drop"` or `"put"`.

Audio to Telnyx is a sequence of items. `Write` on a full channel takes three steps:
the failed send, the receive that makes room (the write loop may have taken something
in between), and the second send, which waits. `LossyQueue` is the abstract
specification: items are taken in order, and a write that finds `Cap` items waiting may
give up one, the oldest of those that are still waiting when it does, never its own.
It is about what the write loop takes (`taken`), not about what then reaches Telnyx: an item
taken after the close, or whose write fails, is lost. `Transport` implements it with the item in `Write`'s hand behind those in the channel and
with `full` while `Write` is between its first send and the receive. That an item is
given up *only while* `Cap` are waiting would be too much to promise: with a capacity of
three or more the write loop may take items between the failed send and the receive, and
the receive then drops one from a queue that has room (`provider.go:464`). A capacity
of two does not show it; the attempt to prove it did.

Audio from Telnyx is read in slices of any size, so that here a chunk has bytes:
`read` collects what `Read` has returned, `accepted` what the read loop put in.

## `CallSystem` and `Gateway`: webhooks and calls

`CallSystem` holds the registry (`calls`, `objs`, `pmu`), what Telnyx knows (`tel`,
`emitted`, `streamed`) and the steps of each operation, parameterised by the goroutine
and by its next label. `Gateway` extends it with the session map, the goroutines of
the HTTP server (`Workers`, `Streams`) and of the application (`Apps`), and composes
these steps into handlers: `Initiated`, `Decide`, `Accept`, `Reject` are
`handleCallInitiated`, `Answered` is `handleCallAnswered`, `HungUpEvent` is
`handleCallHangup`, `StatusEvent` is `handleCallStatus`, `Stream` is
`handleMediaStream`, `AppDials` is `MakeCallWithOptions`. `job[t]` holds a goroutine's
label and local variables. A mutex is a variable only where it is held across several
steps; where a critical section is one step, waiting is its guard.

A request to Telnyx succeeds, fails, or takes effect and is still reported as failed,
`Dial` included: a call that Telnyx has placed may be one that `MakeCall` has reported as
failed and never registers.
Telnyx may deliver an emitted webhook again, and an older one after a newer one. The
OnCall handler accepts or refuses, not always alike for a repeated webhook.
`DialledTo` says where the webhooks of a *placed* call are posted: to
`handleInboundCall` ("event"), to `handleCallStatus` ("status"), or to
`handleMediaStream` ("upgrade", where a webhook fails to upgrade), which is the URL
`New` configures.

A media stream is `streamed[id]`: wanted ("started"), connected ("open"), and "over" when
Telnyx has ended it (`StreamBreaks`, which nobody owes). Its handler waits for `conn.done`
in its last line, and what closes that connection depends on how `startPipeline` took it
over. In audio mode the forwarder ("forwarding") closes the session, and with it the
connection, when the stream, the session or its time is over (`ForwarderCloses`); a session
that was closed already is left alone (`TakeOver`, "unattached"). In text mode the session
gets the connection ("talking"), so that a later `Close` ends it; but the end of `Start`, by
the deadline for instance, closes nothing (`PipelineReturns`, "attached"), and a session
that was closed before it got the connection never closes it ("unattached"). Which of the
two modes is configured is left open, at each stream.

A `Session` is only as much of one here as the map and `Close` need, since its inside
is in `AudioMode`: "open", "closed" (the part before `removeSession`), "finished".
`CloseRemoves` needs `Gateway.mu`, which is what `Stop` holds.

# 3. The runs

| Run | Question | Result |
|---|---|---|
| `audio_mode` | Is a session in audio mode right, whoever ends it? | holds |
| `audio_liveness` | Does every end come, also with a stalled application? | holds |
| `text_pipeline` | Is a session in text mode right, with overlapping turns and ends? | holds |
| `text_bargein` | Does an interrupted turn stay silent? | **no** |
| `gateway_outbound` | Are placed calls handled right, with webhooks in any order? | holds |
| `gateway_inbound` | Are offered calls handled right, and do handlers return? | holds |
| `gateway_refused_call` | Is a refused call hung up? | **no** |
| `gateway_stop` | Does `Stop` return? | **no** |
| `outbound_media` | Is what reaches the WebSocket well formed? | holds |
| `outbound_speech` | May the connection close while the agent speaks? | **no** |
| `transport` | Is audio written and read right, whoever ends the stream? | holds |
| `transport_close` | Does `Provider.Close` return? | **no** |

**`audio_mode`** (1.7 million states; three media messages, every buffer of size 1).
`ChannelsSafe`: neither `events` nor `audioRecv` is sent on after its close or closed
twice. `CloseComplete`: a returned call of `Close` finds everything closed.
`NothingLost`, `StreamEndDeliversAll` and `FeedsAudio`: accepted audio arrives once, in
order, including what is buffered when the stream stops. `ReceiveEndsLast`: at
the end of `ReceiveAudio` the session is closed and unregistered. `EndAnnounced`: a session
that its handler or the hangup webhook closes has put `EventSessionEnded` into its events
before it closes them, unless they were full of events the application has not read.
`StreamEndIsSafe`: the read loop's send on the closed `audioIn` needs a call
of `Session.Close` (by the hangup webhook, at the deadline, by the application), and then it
panics; the end of the stream by itself never meets it. `IInv` is the invariant
the proofs use. With three messages a chunk
can be in each buffer and in the forwarder's hand at once, and `audioIn`, full while the
forwarder is not yet running, drops.

**`audio_liveness`** (0.2 million states; two messages, no room for events).
`DeadlineEndsAudio`: `MaxSessionDuration` ends the session even when the application has
stopped reading and the forwarder is blocked. `CloseFinishes`: no call of `Session.Close`
blocks for good inside the session; its `removeSession` also needs `Gateway.mu`, which
`Gateway.Stop` keeps (`gateway_stop`). `StreamStopEndsAudio`: for an application that keeps reading
(`Listening`), the stop of the stream alone is enough. Two messages fill `audioRecv` and
block the forwarder, the case the properties are about; with `EvCap = 0` every event takes
the code's `default` branch, and no property here depends on events.

**`gateway_outbound`** (one placed call, two webhook goroutines, one stream, one
application goroutine, three deliveries, two operations out of dial, hang up, close,
stop). `DigitsOnce`: concurrent deliveries of `call.answered` enter the digits at most
once. `ClosedIsUnlisted`: removal by call ID never leaves a closed session in the map,
though the map may have held another session of the call. Three deliveries are enough
for `call.answered` twice, concurrently, and a hangup.

**`gateway_inbound`** (one offered call, three deliveries, `Provider.Close` once; fair).
`RejectedLeavesNothing`: a call that was never accepted has left no session, no
registered call and no answer once nobody works on it. `DropsOnlyEnded`: a call leaves
the registry only when Telnyx has ended it. `HandlersReturn`: webhook handlers return, and
the handler of a media stream does once its connection is done or, in audio mode, in any
case, since `MaxSessionDuration` ends the forwarder. So there is no cycle of
waiting between `Provider.mu`, `Gateway.mu` and `Close`; `Stop`, which does have one,
is not among this run's operations. The property assumes that `Provider.Close` gets its
answers (`ShutdownAnswered`), and promises nothing about a text-mode stream whose connection
stays open: its handler does stay.

**`outbound_media`** (two senders, three numbers, `audioOut` of size 1, both modes).
`WritesSerialized`, `NumbersUnique` (of the media frames on the wire), `NoGaps` (with
nobody sending on an open connection, the numbers handed out are the numbers written), `NoEmptyFrame` (the write loop may receive empty chunks
from the closed `audioOut`, and never writes one).

**`text_pipeline`** (0.9 million states; a greeting, two turns, two voiced chunks, two
chunks of speech in a reply, `audioOut` of size 1, two rounds of one tool call; three
moves out of: a voiced chunk, `SendText`, `Interrupt`, `Close`, the end of the stream, the
deadline, a stall of the stream). `EveryChunkHeardOnce`: the utterances and the buffer hold
exactly the chunks heard, and the order of the utterances is the order of hearing.
`SpeechSurvives`: what the shared array can cost an utterance is at most the chunks heard
since, at its beginning. `InterruptedIsSilent`: after an interruption a turn queues at
most the chunk it was sending, whatever stage it was at. `ToolCallsAnswered`: see above.
`SpeechIsProcessed`, `TurnsEnd` and `PipelineEnds` are liveness: speech becomes a turn;
turns end, also when a failed write has ended the write loop and `audioOut` stays full, and
when Telnyx takes no more data with the end of their context; after `Stop` or the deadline
the loops end and `startPipeline` returns, also when `Stop` ran before
`Start` or did not see its `cancel`. Excepted is an audio loop that waits to write its
`clear` to a stalled stream that nobody closes. The goroutine that called `startPipeline`
still waits for the connection (`handlers.go:404`). Two turns are what it takes to overlap, to reset
each other's flag, and to overwrite a slice; the greeting is a third that speaks; three
moves are enough for an utterance, an interruption of it and an end.

**`transport`** (0.6 million states; queues of sizes 2, 1 and 1, chunks of two bytes, five
moves out of: a message, the remote close, `Write`, `Read`, and both kinds of `Close`).
`ReadsEveryByte`: slices smaller than a chunk lose and repeat nothing (the bytes are
stated one by one: each is followed by the next of its chunk or the first of the next). `EofIsLast`:
`io.EOF` comes after the last byte accepted. `CloseComplete`: a returned `Close` finds
everything closed and the connection delisted, with one exception, which the property
names. `RemoteEndIsClean`: however Telnyx ends the stream, nothing panics. `KeepsNewest`
is the refinement of `LossyQueue`. `WriteReturns`: `Write`, which may wait for room under
its lock, returns, also when the write loop has ended. `StreamEnds`: the loops and a
waiting `Read` end with the stream. The audio queue has size 2 so that the oldest and
the newest differ; five moves fill it, overflow it and leave two.

The instances are small because each hazard needs few actors: two deliveries of one
webhook, two goroutines at one lock, one session closed from two sides. Calls share
nothing but the two maps and their mutexes, so a second call adds no kind of conflict
except waiting for a mutex, which the second webhook goroutine already provides.

## Fairness

`FairSpec` of `AudioMode` and of `Gateway` gives weak fairness to every goroutine:
the Go scheduler runs a runnable goroutine, and a blocking operation that stays
possible is taken. None is given to Telnyx, to the application's own decisions, or to
the clock: `DeadlineEndsAudio` starts from the expiry. The application owes reading only
where `Listening` says so. In `Gateway` further assumptions are in the weak fairness of the
goroutines: a request that a webhook handler makes ends, with or without a result, by its
context's deadline; the OnCall handler returns; the context of a session's
`MaxSessionDuration` ends, which in audio mode ends the forwarder and in text mode only
`Start`. Nothing is assumed of the end of a media stream (`StreamBreaks` has no fairness),
and nothing of the hangup requests made with the application's context (`Session.Hangup`) or
with `context.Background()` (`Provider.Close`): `OwnsStep` excludes them, and
`HandlersReturn` names the one it needs. In
`VoicePipeline` and `Transport` the fairness is weaker still, one `WF_vars` on all that
the goroutines do: while some goroutine can move, one does. That suffices because
each program comes to rest once the environment, whose moves are bounded, has made its
last. In `VoicePipeline` it contains that requests to the providers end (by their contexts'
deadlines and their HTTP clients; for a turn of `SendText`, whose context is
`context.Background()`, it is the clients alone) and that the silence ticker fires; in `Transport` that the
application receives its events. `SendText` and the caller owe nothing. Strong
fairness is nowhere needed: mutexes are modelled by guards, and in these instances no
goroutine can be overtaken at one for ever, deliveries and operations being bounded.

# 4. Behaviours worth knowing

What the violation runs show, each quoted with its line in `PROJECT.json`:

* **`outbound_speech`.** `mediaStreamConn.close` closes `audioOut` although the pipeline
  sends on it; the test of the context does not help, since a select with both cases
  ready chooses at random. It takes no call of `Close`: a caller who hangs up while the
  agent is speaking ends the stream, and the read loop closes the connection.
* **`text_bargein`.** In mode "immediate" the caller who talks over a turn interrupts it.
  His words become a turn of their own, which resets `interrupted`. If the first turn was
  still waiting for a provider, it goes on, and both speak at once into one `audioOut`.
* **`gateway_refused_call`.** A refused call is looked up to be hung up, but is
  registered only when it is accepted.
* **`gateway_stop`.** `Stop` holds `Gateway.mu` and calls `Close`, which waits for it.
* **`transport_close`.** The same in the transport: `Provider.Close` holds `Provider.mu` and
  calls `Connection.Close`, which locks it at its end.

Others are reachable in these models and have no run of their own.

Ends of a call:

* `mediaStreamConn.close` closes `audioIn` as well (`connection.go:306`), so that a call of
  `Session.Close` can make the read loop panic while it delivers a media message
  (`connection.go:181`). `StreamEndIsSafe` says that nothing else can.
* A stream that starts and stops before the handler goroutine is scheduled leaves both
  cases of the handler's select ready (`handlers.go:382`). If it takes `done`, nobody
  announces, closes or removes the session; `StreamStopEndsAudio` is therefore about
  streams that the handler has taken over.
* In text mode nothing closes the session when the stream stops: the pipeline waits for
  the hangup webhook or for `MaxSessionDuration`. At `MaxSessionDuration` only `Start`
  returns (`pipeline.go:111`): session and connection stay open, the session stays in the
  map, and the handler waits at `handlers.go:404` until the connection ends.
* The same wait follows in audio mode when the session was already closed as the stream
  began (`audio.go:77`): nobody closes the new connection, and the handler returns only
  when Telnyx ends it.
* No write to the WebSocket has a deadline: with Telnyx taking no data, a barge-in waits in
  `clear` for `writeMu`, and the audio loop with it.
* `Close` between `NewPipeline` and the store of `s.pipeline` finds no pipeline to stop:
  `Start` then runs on a closed session until `MaxSessionDuration`. `SendText` between
  that store and `Start` uses a context that is still nil, and panics (`panic = "ctx"`).

Turns:

* `isProcessing` is one flag for all turns: the first to finish clears it, and barge-in is
  off while the others speak. It is never set for the greeting, which the caller cannot
  interrupt by voice; what he says while it is prepared is dropped (`connection.go:163`),
  since `pipelineReady` is closed by the audio loop, started after it.
* Mode "after_sentence" is accepted and nowhere implemented: it is the same as disabled.
* A turn that is interrupted while it generates still runs the tools it was told to run.
* `Generate` is given the user's text twice (the history already ends with it) and always
  returns no tool calls, so `EventToolCall` and `ToolCallCount` are never seen.
* On an error after `EventAgentSpeechStart` no `EventAgentSpeechEnd` follows.

Transport:

* After a local `Connection.Close` the read loop's `ReadMessage` fails with an error that
  is no close error, and it sends an event on the channel `Close` has closed
  (`provider.go:298`): a panic, unless `done` is seen first. `RemoteEndIsClean` is
  about the ends that do not meet this.
* A read loop in the middle of a start message lists the connection again after `Close`
  has delisted it.
* An application that does not receive `Events` blocks the read loop once 100 are waiting.
* `HandleWebSocket` may notify a listener whose channel `Provider.Close` has just closed.
* The write loop, `SendMark` and `Clear` write to one WebSocket without a lock
  (`provider.go:393`, `414`, `427`), which `gorilla/websocket` does not allow.

Calls:

* `New` gives `/ws/media-stream` as the webhook URL of placed calls (`gateway.go:163`): their
  webhooks are not handled, no digits are sent, no stream is started.
  `Provider.Configure` can change it, and the runs of `Gateway` assume that it did.
* A media stream, or a repeated `call.initiated`, handled before `MakeCall` has stored its
  session makes a second session for the call (`gateway.go:334`); one of the two is then
  missing from `ListSessions` and is not closed by a hangup.
* A status can go back: `Answer` stores "answered" after a hangup event stored "ended"
  (`call.go:95`).

* `call.answered` handled between the Dial request and the registration finds no call:
  the digits are not sent and no stream starts.
* Two deliveries of `call.answered`: the second finds the digits taken and may start
  streaming before the first has sent them (`TakeDigits`, `SendDtmf`), against "sends the
  digits on the `call.answered` webhook, before starting media streaming"
  (`docs/releases/v0.5.0.md:29`).
* `call.hangup` handled before `HandleIncomingWebhook` has registered the call leaves an
  ended call in `ListCalls` for ever.
* Two callers of `SendAudio` may pass each other between `nextSequence` and `writeMu`, so
  that frames of different senders are not in the order of their numbers.

# 5. The proofs

## A call in audio mode

`AudioModeProofs` proves five theorems about `AudioMode!Spec`, for **every** number of
media messages and **every** capacity of the three channels:

| Theorem | States |
|---|---|
| `TypeCorrect` | `[]TypeOK` |
| `ChannelsNeverMisused` | `[]ChannelsSafe` |
| `CloseIsComplete` | `[]CloseComplete` |
| `ReceiveEndIsLast` | `[]ReceiveEndsLast` |
| `StreamEndSafe` | `[]StreamEndIsSafe` |

They rest on nothing but `MediaBounds` and `RecvBound`: the bounds are natural numbers.

`ChannelsSafe` is not inductive: it says that no panic has happened, and nothing
about why the next step cannot cause one. `IInv` adds the why, in named parts:

* `LockExcludes`: with a goroutine inside `emitEvent`'s critical section, `closed` is
  not set. So `events`, closed after `closed` is set, is open for it. This is where the
  proof uses that `Close` takes the write lock.
* `OneOwner`: until the handler has taken over, `audioRecv` is closed exactly when the
  session is; from the takeover on, the handler alone closes it, and it is open as
  long as the handler can send. Past that, the session's close is finished.
* `CloseProgress`: how far each `Once` body has come is visible in the fields it has
  written. It turns "finished" into the conclusion of `CloseComplete`.
* `Returned`: a returned call was served by a finished body.
* `HoldsChunk`: a goroutine about to send a chunk has one.

The proof has one lemma per action that touches what `IInv` speaks of (`SessCloseFlagInv`
to `CallCloseInv`), one (`PlainMove`) for all the moves that do not, and `NextInv`
assembles them along the disjuncts of `Next`. The first four theorems follow from
`Inductive` and one implication each. `StreamEndSafe` needs a second invariant on top of
`IInv`, `StreamOwner`: without a call of `Session.Close` it is the read loop itself that
has started the connection's close, and it has left the message loop by then; so it
cannot be the one that is about to send on `audioIn`.

## A call in text mode

`VoicePipelineProofs` proves two theorems about `VoicePipeline!Spec`, for **every** number
of turns, of voiced and of spoken chunks, every capacity of `audioOut`, every number of
rounds and of tool calls. They assume `PipelineBounds` and `RoundBounds`.

* `InterruptedStaysSilent`: `[]InterruptedIsSilent`. The invariant that carries it is
  `Silenced`: as long as a turn owes silence the flag is set, and a turn that owes it
  without exception is not at the send. The first part is where each reset of
  the flag has to release the others (`BeginInv`), the second is where `Speak` has to test
  it before *every* chunk (`SpeakInv`). One lemma per step of a turn shows that it
  keeps this for the turn that moves; `TurnMoves` carries it over to the others.
* `EveryToolCallAnswered`: `[]ToolCallsAnswered`, from `Balanced`: of the calls made, those
  without a result are exactly those still to be run. `ToolStep` is about the steps of
  `ToolLoop` alone, and `BalancedInv` shows that no other step of the pipeline touches them.

## The audio of a call in audio mode

`AudioFeedProofs` adds the data to `AudioModeProofs`, again for every number of messages
and every capacity. `NothingLost` alone is not inductive: it says nothing about a
forwarder that has left its loop. `DataInv` adds, to `IInv`:

* `PipeKept`: only the forwarder between its receive and its send holds a chunk, and the
  equation of `NothingLost` holds until the session or its time is over *and* the forwarder
  has noticed.
* `EndsDrained`: a forwarder that ends in an open session, in time, found `audioIn`
  closed and empty, and is then the first to call `Session.Close`; the equation it left
  behind is `StreamEndDeliversAll` when that `Close` has closed `ReceiveAudio`.
* `Announces`: the handler and the hangup webhook are about to close only a session whose
  end they have put into `events`, or found no room for, or that is closed already.

The five theorems are `DataInductive` (`[](IInv /\ DataInv)`), `NothingIsLost`,
`StreamEndDelivers`, `EndIsAnnounced`, and `Feeds`: `Spec => FeedsAudio`, the refinement of
`AudioFeed`, where each step of `AudioMode` is shown to be a `Take`, a `Hand`, an `End` or
a stutter.

## Outbound media

`OutboundMediaProofs` is about every set of senders, capacity of `audioOut` and number of
frames. `Numbered` says that a number is with one goroutine *or* in one place on the wire;
it is what `NumbersUnique` needs to survive `Write`, and it rests on `nextSequence` being one
step. `Accounted` says that on an open connection no number is anywhere else, from which
`NoGaps` follows once nobody sends. `Exclusive` ties `writing` to the holder of `writeMu`.
`EmptyAfterClose` keeps an empty chunk before the test of `closed`, which is set before
`audioOut` is closed: therefore `NoEmptyFrame`. Six theorems: `Inductive`, `TypeCorrect`,
`Serialized`, `Unique`, `Complete`, `NoneEmpty`.

## What the caller says

`SpeechProofs` is about the array under `audioBuffer`, for every number of turns and
chunks. `Buffered`: the buffer is the run of chunks heard last. `Passed`: the others have
been given to turns, in the order in which turns are started, each to one. `Held`: what a
turn's slice holds is what it was given, except at most at its beginning, for as many
places as chunks have been heard since. `HeardOnce` and `SurvivesReuse` follow. The step
that matters is `HearSaid`: `Write` puts a chunk at the place after those in the buffer,
and this place is in the overwritten part of every slice that shares the array, since
all that is in the buffer has been heard after that slice was taken. `TypeCorrect` needs two more parts:
`Ranges`, where the array never exceeds twice what was heard, and `Rounds`, by which
`Generate` calls at most `MaxCalls` tools in each round (with `Balanced`, this bounds all
four counters).

## The transport

`TransportProofs` is about every capacity, every size of a chunk and every number of moves.
`CloseProgress` and `Returned` are to `CloseComplete` what they are in audio mode.
`RemoteOnly` explains `RemoteEndIsClean`: without a local close, it is the read loop
itself that closes, and by then it sends no more. `ByteFlow` relates the bytes returned by
`Read`, those it keeps, and the chunks in the channel; `ReadChunk` is the step that has to
keep them in sequence for every size of slice. `HandHeld` and `Counted` are what the types
need. `KeepsTheNewest` is the refinement of `LossyQueue`, step by step: the first send is
`Put`, the receive that makes room `GiveUp`, or `Spare` if the write loop has emptied the
queue meanwhile, the second send a stutter. Seven theorems: `Inductive`, `TypeCorrect`,
`CloseIsComplete`, `RemoteEndClean`, `ReadsEvery`, `EofLast`, `KeepsTheNewest`.

## Webhooks and calls

`GatewayProofs` is about every set of placed and of offered calls, every set of webhook,
stream and application goroutines, and every number of deliveries and operations. Its
invariant is `IInv`; besides the types (`Stores`, `Counters`):

* `Goroutines`: what a goroutine's local variables refer to, whatever the others have
  done since it read them. Its session and its call exist, its call has the ID it is
  handling, and the webhook it is handling was emitted. `SoundKept` shows once for
  all steps that nobody can take that away (`Grows`: objects are only added, endings
  stay).
* `Filed`: the maps hold objects of the right call, and no session whose `Close` has
  finished. The second part is `ClosedIsUnlisted`, and is where `CloseRemoves` has to
  remove what is in the map under the ID, whichever session that is.
* `Endings`: what is recorded as ended has ended at Telnyx, also through events that
  arrive late. `DropsOnlyEnded` follows.
* `DigitsInOnePlace`: the digits of a call are with the goroutine that has dialled it, in
  the `Call`, with a goroutine about to send them, or sent. `DigitsOnce` alone
  would not know why the second delivery finds nothing to send.
* `Consent`: what was never accepted has no `Call`, is not answered and does not stream,
  and its session is there only while the OnCall handler is being asked.

Six theorems: `Inductive`, `TypeCorrect`, `SentOnce`, `ClosedUnlisted`, `NothingLeft`,
`OnlyEndedDropped`. They assume `GatewayConstants` and `DisjointIds`.

**Only model-checked.** The liveness properties (`DeadlineEndsAudio`, `CloseFinishes`,
`StreamStopEndsAudio`, `HandlersReturn`, `SpeechIsProcessed`, `TurnsEnd`, `PipelineEnds`,
`WriteReturns`, `StreamEnds`): liveness under fairness, and ENABLED, are out of the proof
system's reach. Nothing needs induction over data any more: what was stated as a fold or
a filter over a sequence (`EveryChunkHeardOnce`, `ReadsEveryByte`, `NumbersUnique`) is
stated place by place. All theorems are partial in the same way as the model: they are
about the abstractions of the next section, and hold up to the first panic, after which
nothing happens.

# 6. Abstractions and limits

* Audio, text, phone numbers and message encodings are left out: a chunk is a number,
  a call its ID. JSON, base64 and codec conversions change no control state.
* `ReadStart`: Telnyx sends one start message per stream, for a session that is
  registered; a second one is not modelled. In `AudioMode` a media stream meets the
  session the map holds; the alternatives are in `Gateway`.
* `Session.Close` is one atomic "closed" step followed by `CloseRemoves` in `Gateway`.
  Everything before `removeSession` ends without a lock of the gateway: that is
  `CloseFinishes` of `AudioMode`.
* The transport provider that `Provider.Close` closes at the end has no connections of
  the gateway's: media streams go through `mediaStreamConn`.
* Data races are not modelled as torn values, except that unlocked fields are read and
  written in separate steps. `HandleCallEvent` reads `call.status` without `Call.mu`;
  that is a word, and its stale values are covered by the step between `ApplyEvent` and
  `DropIfEnded`.
* `VoicePipeline`: only voiced chunks are modelled, since the others change nothing
  (`handleAudio`); the ticks of the silence loop that find nothing to do are stutters,
  and pacing by `time.Sleep` is the distance between two steps. `Session.Close` is there
  as far as the pipeline sees it (`Stop`, then the connection); the other statements,
  events included, are those of `AudioMode`. The transcript, the metrics and the text of a
  reply are data no step tests. `isSpeaking` and the buffer are under one mutex and change
  together.
* `Transport`: one connection and one listener; each event is like the other, so `events` is
  a count. `DTMF` is an event; the handler of `OnDTMF` is the application's. The empty
  items the write loop receives from the closed channel until it sees `done` are not
  written, since `closed` is set first; they are stutters. The application does not
  close `AudioIn()` by itself.
* Bounds: `MaxMedia`, `MaxDeliveries`, `MaxOps`, `MaxFrames`, `MaxTurns`, `MaxHeard`,
  `MaxChunks`, `MaxCalls`, `MaxMoves` cap the environment, not the code. A mutant of each
  property (`PROJECT.json`) shows that the bound does not hide the case the property is
  about.

**Not modelled.** The messaging provider (`omnichat`), whose operations are each one request
to Telnyx behind one flag, with two handlers stored under a mutex: no step of it depends on
an earlier one. `init.go` and `options.go`, which run once before anything is concurrent.
The speech and synthesis providers beyond "a result or an error". The health check, the
configuration and the streaming webhooks, which only log; Call Control commands that are a
single request without local state. In the transport `SendMark`, `Clear` and the DTMF
handler.

# 7. Plan

Done: the models of all components with state of their own, the runs, and a theorem for
each safety and action property that holds. Left:

1. The call life cycle on `CallSystem`: what a status may do under late and overtaking
   events, as action properties with their proofs, from `Endings`.
2. What the violation runs show, the other way round: theorems that name the condition under
   which the documented behaviour does hold (no deadlock of `Stop` without a session to close,
   no panic of a turn while the connection is open).
3. An abstract specification of the registry and of the session map, implemented by `Gateway`.
4. Several connections in `Transport`, with the same call ID.
