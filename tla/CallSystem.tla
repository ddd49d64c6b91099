----------------------------- MODULE CallSystem -----------------------------
(***************************************************************************)
(* callsystem.Provider: the registry of calls, the Call objects, and the   *)
(* steps of the operations on them (callsystem/provider.go and call.go),   *)
(* with Telnyx as the environment: the calls it carries, the webhooks it   *)
(* has emitted and the outcome of Call Control requests.  Which goroutine  *)
(* performs which operation is in the module that extends this one.        *)
(*                                                                         *)
(* A request to Telnyx may succeed, fail, or take effect and still be      *)
(* reported as failed (the context's deadline).                            *)
(***************************************************************************)
EXTENDS Naturals, Sequences, FiniteSets

CONSTANTS Inbound,   \* call control IDs of calls Telnyx offers
          Outbound,  \* call control IDs of calls placed by MakeCall
          Threads    \* the goroutines

ASSUME DisjointIds == Inbound \cap Outbound = {}

Ids == Inbound \cup Outbound

VARIABLES
  tel,      \* the state of each call at Telnyx
  emitted,  \* webhooks Telnyx has emitted, <<type, id>>
  streamed, \* the call's media stream: asked for ("started"), open, over
  calls,    \* Provider.calls: id -> index of a Call, 0 when absent
  objs,     \* the Call objects ever created
  pmu,      \* the goroutine holding Provider.mu across steps, {} when free
  job,      \* what each goroutine is doing
  dtmf,     \* history: SendDtmf requests made for each call
  hangups   \* history: calls whose end was requested

telnyx == <<tel, emitted, streamed>>
registry == <<calls, objs, pmu>>
history == <<dtmf, hangups>>

Statuses == {"ringing", "answered", "ended"}
EventTypes == {"call.initiated", "call.answered", "call.hangup"}

\* What a goroutine holds in its local variables.
Idle == [at |-> "idle", id |-> "none", ev |-> "none", call |-> 0, sess |-> 0]

SystemInit ==
  /\ tel = [id \in Ids |-> "none"]
  /\ emitted = {}
  /\ streamed = [id \in Ids |-> "no"]
  /\ calls = [id \in Ids |-> 0]
  /\ objs = <<>>
  /\ pmu = {}
  /\ job = [t \in Threads |-> Idle]
  /\ dtmf = [id \in Ids |-> 0]
  /\ hangups = {}

\* Control: goroutine t, at a label, goes to another one or returns.
At(t, label) == job[t].at = label
Go(t, label) == job' = [job EXCEPT ![t].at = label]
Return(t) == job' = [job EXCEPT ![t] = Idle]
-----------------------------------------------------------------------------
(* Telnyx. *)

Becomes(id, state, type) ==
  /\ tel' = [tel EXCEPT ![id] = state]
  /\ emitted' = emitted \cup {<<type, id>>}
  /\ UNCHANGED streamed

Offered(id) ==
  /\ id \in Inbound /\ tel[id] = "none"
  /\ Becomes(id, "ringing", "call.initiated")

PickedUp(id) ==
  /\ id \in Outbound /\ tel[id] = "ringing"
  /\ Becomes(id, "answered", "call.answered")

HungUp(id) ==
  /\ tel[id] \in {"ringing", "answered"}
  /\ Becomes(id, "ended", "call.hangup")

Telnyx ==
  /\ \E id \in Ids : Offered(id) \/ PickedUp(id) \/ HungUp(id)
  /\ UNCHANGED <<registry, job, history>>

\* A hangup request for call id: from "label", a success leads to "ok".
RequestHangup(t, label, ok, failed) ==
  /\ At(t, label)
  /\ hangups' = hangups \cup {job[t].id}
  /\ \/ HungUp(job[t].id) /\ (ok \/ failed)
     \/ UNCHANGED telnyx /\ failed
  /\ UNCHANGED <<registry, dtmf>>
-----------------------------------------------------------------------------
(* Provider. *)

NewCall(id, digits) == [id |-> id, status |-> "ringing", digits |-> digits]

Register(t, call) ==
  /\ pmu = {}
  /\ objs' = Append(objs, call)
  /\ calls' = [calls EXCEPT ![call.id] = Len(objs) + 1]
  /\ UNCHANGED pmu

\* MakeCall, first the request, then the registration under the lock.  Refused
\* parameters and a failed request end it; the call may have been placed.
Dial(t, id) ==
  /\ At(t, "idle")
  /\ \/ /\ id \in Outbound /\ tel[id] = "none"
        /\ Becomes(id, "ringing", "call.initiated")
        /\ \/ job' = [job EXCEPT ![t] = [Idle EXCEPT !.at = "dialled",
                                                    !.id = id]]
           \/ UNCHANGED job
     \/ UNCHANGED <<telnyx, job>>
  /\ UNCHANGED <<registry, history>>

RegisterOutbound(t, next) ==
  /\ At(t, "dialled")
  /\ Register(t, NewCall(job[t].id, TRUE))
  /\ Go(t, next)
  /\ UNCHANGED <<telnyx, history>>

\* HandleIncomingWebhook; the OnIncomingCall handler may refuse the call.
RegisterInbound(t) ==
  /\ At(t, "register")
  /\ Register(t, NewCall(job[t].id, FALSE))
  /\ \/ job' = [job EXCEPT ![t].at = "answer", ![t].call = Len(objs) + 1]
     \/ Return(t)
  /\ UNCHANGED <<telnyx, history>>

\* Mutant: the result of GetCall is used without its error being tested.
LookUpCall_Unchecked(t, label, found) ==
  /\ At(t, label)
  /\ pmu = {}
  /\ job' = [job EXCEPT ![t].at = found, ![t].call = calls[job[t].id]]
  /\ UNCHANGED <<telnyx, registry, history>>

\* GetCall.
LookUpCall(t, label, found) ==
  /\ At(t, label)
  /\ pmu = {}
  /\ LET c == calls[job[t].id]
     IN \/ c # 0 /\ job' = [job EXCEPT ![t].at = found, ![t].call = c]
        \/ c = 0 /\ Return(t)
  /\ UNCHANGED <<telnyx, registry, history>>

SetStatus(c, s) == objs' = [objs EXCEPT ![c].status = s]

StatusAfter(type) == CASE type = "call.initiated" -> "ringing"
                       [] type = "call.answered"  -> "answered"
                       [] type = "call.hangup"    -> "ended"

\* HandleCallEvent: Call.handleEvent under Call.mu, and then, still under
\* Provider.mu only, the test of the status.
ApplyEvent(t, label, next, absent) ==
  /\ At(t, label)
  /\ pmu = {}
  /\ \/ /\ calls[job[t].id] # 0
        /\ SetStatus(calls[job[t].id], StatusAfter(job[t].ev))
        /\ pmu' = {t}
        /\ Go(t, next)
     \/ /\ calls[job[t].id] = 0
        /\ absent
        /\ UNCHANGED <<objs, pmu>>
  /\ UNCHANGED <<telnyx, calls, history>>

\* Mutant: the call is dropped on any event.
DropIfEnded_Always(t, label, done) ==
  /\ At(t, label)
  /\ pmu = {t}
  /\ calls' = [calls EXCEPT ![job[t].id] = 0]
  /\ pmu' = {}
  /\ done
  /\ UNCHANGED <<telnyx, objs, history>>

\* Mutant: an early return keeps Provider.mu.
DropIfEnded_KeepsLock(t, label, done) ==
  /\ At(t, label)
  /\ pmu = {t}
  /\ LET ended == objs[calls[job[t].id]].status = "ended"
     IN /\ calls' = [calls EXCEPT ![job[t].id] = IF ended THEN 0 ELSE @]
        /\ pmu' = IF ended THEN {} ELSE pmu
  /\ done
  /\ UNCHANGED <<telnyx, objs, history>>

DropIfEnded(t, label, done) ==
  /\ At(t, label)
  /\ pmu = {t}
  /\ calls' = IF objs[calls[job[t].id]].status = "ended"
              THEN [calls EXCEPT ![job[t].id] = 0] ELSE calls
  /\ pmu' = {}
  /\ done
  /\ UNCHANGED <<telnyx, objs, history>>
-----------------------------------------------------------------------------
(* Call. *)

\* Answer: the request, then the status under Call.mu.
RequestAnswer(t) ==
  /\ At(t, "answer")
  /\ \/ /\ tel[job[t].id] = "ringing"
        /\ Becomes(job[t].id, "answered", "call.answered")
        /\ Go(t, "answered") \/ Return(t)
     \/ UNCHANGED telnyx /\ Return(t)
  /\ UNCHANGED <<registry, history>>

MarkAnswered(t) ==
  /\ At(t, "answered")
  /\ SetStatus(job[t].call, "answered")
  /\ Return(t)
  /\ UNCHANGED <<telnyx, calls, pmu, history>>

\* The second half of Hangup: the status under Call.mu.
MarkEnded(t, label, next) ==
  /\ At(t, label)
  /\ SetStatus(job[t].call, "ended")
  /\ next
  /\ UNCHANGED <<telnyx, calls, pmu, history>>

\* Mutant: the digits are cleared only once they have been sent.
TakeDigits_KeepsThem(t) ==
  /\ At(t, "digits")
  /\ Go(t, IF objs[job[t].call].digits THEN "dtmf" ELSE "stream")
  /\ UNCHANGED <<telnyx, registry, history>>

\* SendPendingDigits: the digits are taken under Call.mu and sent without it;
\* a failure is logged by the caller and does not bring them back.
TakeDigits(t) ==
  /\ At(t, "digits")
  /\ Go(t, IF objs[job[t].call].digits THEN "dtmf" ELSE "stream")
  /\ objs' = [objs EXCEPT ![job[t].call].digits = FALSE]
  /\ UNCHANGED <<telnyx, calls, pmu, history>>

SendDtmf(t) ==
  /\ At(t, "dtmf")
  /\ dtmf' = [dtmf EXCEPT ![job[t].id] = @ + 1]
  /\ Go(t, "stream")
  /\ UNCHANGED <<telnyx, registry, hangups>>

\* StartMediaStreaming; Telnyx starts one stream for an answered call.
StartStreaming(t) ==
  /\ At(t, "stream")
  /\ \/ /\ tel[job[t].id] = "answered" /\ streamed[job[t].id] = "no"
        /\ streamed' = [streamed EXCEPT ![job[t].id] = "started"]
        /\ UNCHANGED <<tel, emitted>>
     \/ UNCHANGED telnyx
  /\ Return(t)
  /\ UNCHANGED <<registry, history>>
-----------------------------------------------------------------------------
(* Provider.Close: every call is hung up under Provider.mu, whatever comes  *)
(* of it, and forgotten.  The code replaces the map at the end; nobody can  *)
(* look before the lock is released.                                       *)

Shutdown(t) ==
  /\ At(t, "idle") /\ pmu = {}
  /\ pmu' = {t}
  /\ Go(t, "shutdown")
  /\ UNCHANGED <<telnyx, calls, objs, history>>

ShutdownNext(t) ==
  /\ At(t, "shutdown")
  /\ \E id \in Ids :
       /\ calls[id] # 0
       /\ job' = [job EXCEPT ![t] = [@ EXCEPT !.at = "hanging", !.id = id,
                                             !.call = calls[id]]]
  /\ UNCHANGED <<telnyx, registry, history>>

ShutdownHangs(t) ==
  \/ RequestHangup(t, "hanging", Go(t, "hung"), Go(t, "forget"))
  \/ MarkEnded(t, "hung", Go(t, "forget"))

ShutdownForgets(t) ==
  /\ At(t, "forget")
  /\ calls' = [calls EXCEPT ![job[t].id] = 0]
  /\ Go(t, "shutdown")
  /\ UNCHANGED <<telnyx, objs, pmu, history>>

ShutdownEnds(t) ==
  /\ At(t, "shutdown") /\ \A id \in Ids : calls[id] = 0
  /\ pmu' = {}
  /\ Return(t)
  /\ UNCHANGED <<telnyx, calls, objs, history>>
=============================================================================
