--------------------------- MODULE GatewayProofs ---------------------------
(***************************************************************************)
(* Proofs about Gateway and CallSystem, for any number of calls, of        *)
(* goroutines and of deliveries: type correctness, that the digits of a    *)
(* call are sent once, that a closed session is not listed, that a refused *)
(* call leaves nothing behind, and that only an ended call is dropped.     *)
(***************************************************************************)
EXTENDS Gateway, SequenceTheorems, TLAPS

\* The labels at which a goroutine is handling a webhook.
OnWebhook == {"event", "status", "upgrade", "statusDrop", "decide", "reject",
              "refuse", "refused", "register", "answer", "answered", "digits",
              "dtmf", "stream", "drop", "find", "found", "closing"}

Jobs == [at : Labels, id : Ids \cup {"none"}, ev : EventTypes \cup {"none"},
         call : Nat, sess : Nat]

\* What a goroutine with the local variables j may rely on, whatever the
\* others have done since it read them.
Sound(j) ==
  /\ j \in Jobs /\ j.call <= Len(objs) /\ j.sess <= Len(objects)
  /\ j.at \notin {"idle", "shutdown", "stop", "stopping"} => j.id \in Ids
  /\ j.at \in OnWebhook => j.ev \in EventTypes /\ <<j.ev, j.id>> \in emitted
  /\ j.at \in WithCall => j.call # 0 /\ objs[j.call].id = j.id
  /\ j.at \in WithSession => j.sess # 0
  /\ j.at \in {"refused", "hung"} => tel[j.id] = "ended"
  /\ j.at \in {"dialled", "registered"} => j.id \in Outbound
  /\ j.at \in {"register", "start", "create"} /\ j.id \in Inbound =>
       j.id \in agreed

Goroutines ==
  /\ job \in [Threads -> Jobs]
  /\ \A t \in Threads : Sound(job[t])

\* The types of the other variables.
Stores ==
  /\ tel \in [Ids -> {"none", "ringing", "answered", "ended"}]
  /\ emitted \subseteq EventTypes \X Ids
  /\ streamed \in [Ids -> {"no", "started", "open", "over"}]
  /\ calls \in [Ids -> Nat]
  /\ objs \in Seq([id : Ids, status : Statuses, digits : BOOLEAN])
  /\ pmu \in {{}} \cup {{t} : t \in Threads}
  /\ dtmf \in [Ids -> Nat] /\ hangups \subseteq Ids
  /\ sessions \in [Ids -> Nat] /\ returned \in [Ids -> Nat]
  /\ objects \in Seq([id : Ids, close : {"open", "closed", "finished"}])

Counters ==
  /\ gmu \in {{}} \cup {{t} : t \in Apps}
  /\ delivered \in 0..MaxDeliveries /\ ops \in 0..MaxOps /\ serving \in BOOLEAN
  /\ agreed \subseteq Ids /\ handled \subseteq EventTypes \X Ids

\* The two maps hold objects of the call they are asked for, and that of the
\* sessions none whose Close has finished.
Filed ==
  \A id \in Ids :
    /\ calls[id] <= Len(objs) /\ sessions[id] <= Len(objects)
    /\ returned[id] <= Len(objects)
    /\ calls[id] # 0 => objs[calls[id]].id = id
    /\ sessions[id] # 0 => /\ objects[sessions[id]].id = id
                           /\ objects[sessions[id]].close # "finished"

\* Who calls a call ended knows it from Telnyx.
Endings ==
  /\ \A id \in Ids : <<"call.hangup", id>> \in emitted => tel[id] = "ended"
  /\ \A c \in DOMAIN objs : objs[c].status = "ended" => tel[objs[c].id] = "ended"

\* The digits of a call are in one place: with the goroutine that has dialled
\* it, in the Call, with a goroutine about to send them, or sent.
Carries(t, id) == job[t].at \in {"dialled", "dtmf"} /\ job[t].id = id
Keeps(c, id) == objs[c].digits /\ objs[c].id = id
DigitsInOnePlace ==
  \A id \in Ids :
    /\ dtmf[id] <= 1
    /\ \A t \in Threads : Carries(t, id) => dtmf[id] = 0
    /\ \A c \in DOMAIN objs : Keeps(c, id) => dtmf[id] = 0
    /\ \A t, u \in Threads : Carries(t, id) /\ Carries(u, id) => t = u
    /\ \A c, d \in DOMAIN objs : Keeps(c, id) /\ Keeps(d, id) => c = d
    /\ \A t \in Threads, c \in DOMAIN objs : ~(Carries(t, id) /\ Keeps(c, id))
    /\ tel[id] = "none" => /\ dtmf[id] = 0
                           /\ \A t \in Threads : ~Carries(t, id)
                           /\ \A c \in DOMAIN objs : ~Keeps(c, id)

\* A call that is offered gets a Call, is answered and streams only after the
\* application has agreed; without that, its session is there only while a
\* goroutine is asking.
Consent ==
  /\ \A c \in DOMAIN objs : objs[c].id \in Inbound => objs[c].id \in agreed
  /\ \A id \in Inbound \ agreed :
       /\ tel[id] # "answered" /\ streamed[id] = "no"
       /\ sessions[id] # 0 => \E t \in Threads : At(t, "decide") /\ job[t].id = id

IInv == Stores /\ Counters /\ Goroutines /\ Filed /\ Endings
          /\ DigitsInOnePlace /\ Consent
-----------------------------------------------------------------------------
(* What a step may do to what the others rely on.                          *)

Call == [id : Ids, status : Statuses, digits : BOOLEAN]
Session == [id : Ids, close : {"open", "closed", "finished"}]

\* Objects are only added, and keep the call they are of; what Telnyx has
\* emitted or ended, and what the application has agreed to, stays so.
Grows ==
  /\ Len(objs) <= Len(objs') /\ Len(objects) <= Len(objects')
  /\ \A c \in 1..Len(objs) : objs'[c].id = objs[c].id
  /\ emitted \subseteq emitted' /\ agreed \subseteq agreed'
  /\ \A id \in Ids : tel[id] = "ended" => tel'[id] = "ended"

\* Only goroutine t moves.
Only(t) == job' = [job EXCEPT ![t] = job'[t]]

LEMMA Types ==
  ASSUME IInv
  PROVE  /\ objs \in Seq(Call) /\ Len(objs) \in Nat /\ DOMAIN objs = 1..Len(objs)
         /\ objects \in Seq(Session) /\ Len(objects) \in Nat
         /\ DOMAIN objects = 1..Len(objects)
         /\ job \in [Threads -> Jobs]
         /\ \A c \in 1..Len(objs) : objs[c] \in Call
         /\ \A c \in 1..Len(objects) : objects[c] \in Session
<1>1. objs \in Seq(Call) /\ objects \in Seq(Session)
  BY DEF IInv, Stores, Call, Session
<1>2. job \in [Threads -> Jobs]
  BY DEF IInv, Goroutines
<1> HIDE DEF Call, Session
<1>3. /\ Len(objs) \in Nat /\ DOMAIN objs = 1..Len(objs)
      /\ Len(objects) \in Nat /\ DOMAIN objects = 1..Len(objects)
  BY <1>1
<1>4. /\ \A c \in 1..Len(objs) : objs[c] \in Call
      /\ \A c \in 1..Len(objects) : objects[c] \in Session
  BY <1>1, ElementOfSeq
<1> QED
  BY <1>1, <1>2, <1>3, <1>4

LEMMA SoundKept ==
  ASSUME IInv, Grows, Len(objs') \in Nat, Len(objects') \in Nat, NEW j, Sound(j)
  PROVE  Sound(j)'
<1>1. /\ j \in Jobs /\ j.call <= Len(objs) /\ j.sess <= Len(objects)
      /\ j.call \in Nat /\ j.sess \in Nat
  BY DEF Sound, Jobs
<1>2. j.call <= Len(objs') /\ j.sess <= Len(objects')
  BY <1>1, Types DEF Grows
<1>3. j.at \in WithCall => j.call # 0 /\ objs'[j.call].id = j.id
  <2> SUFFICES ASSUME j.at \in WithCall
               PROVE  j.call # 0 /\ objs'[j.call].id = j.id
    OBVIOUS
  <2>1. j.call # 0 /\ objs[j.call].id = j.id
    BY DEF Sound
  <2>2. j.call \in 1..Len(objs)
    BY <1>1, <2>1, Types
  <2> QED
    BY <2>1, <2>2 DEF Grows
<1>4. j.at \in {"refused", "hung"} => j.id \in Ids /\ tel'[j.id] = "ended"
  BY DEF Sound, Grows
<1> QED
  BY <1>1, <1>2, <1>3, <1>4 DEF Sound, Grows

LEMMA GoroutinesKept ==
  ASSUME IInv, Grows, Len(objs') \in Nat, Len(objects') \in Nat,
         NEW t \in Threads, Only(t), Sound(job[t])'
  PROVE  Goroutines'
<1>1. job' \in [Threads -> Jobs] /\ \A u \in Threads \ {t} : job'[u] = job[u]
  <2>1. job'[t] \in Jobs
    BY DEF Sound
  <2> QED
    BY <2>1, Types DEF Only
<1>2. ASSUME NEW u \in Threads \ {t}  PROVE Sound(job[u])'
  <2>1. PICK j : j = job[u]
    OBVIOUS
  <2>2. Sound(j)
    BY <2>1 DEF IInv, Goroutines
  <2>3. Sound(j)'
    BY <2>2, SoundKept
  <2>4. job'[u] = j
    BY <1>1, <2>1
  <2> QED
    BY <2>3, <2>4 DEF Sound
<1> QED
  BY <1>1, <1>2 DEF Goroutines

\* The same when no goroutine moves.
LEMMA GoroutinesStay ==
  ASSUME IInv, Grows, Len(objs') \in Nat, Len(objects') \in Nat, UNCHANGED job
  PROVE  Goroutines'
<1>1. ASSUME NEW u \in Threads  PROVE Sound(job[u])'
  <2>1. PICK j : j = job[u]
    OBVIOUS
  <2>2. Sound(j)
    BY <2>1 DEF IInv, Goroutines
  <2>3. Sound(j)'
    BY <2>2, SoundKept
  <2> QED
    BY <2>1, <2>3 DEF Sound
<1> QED
  BY <1>1, Types DEF Goroutines

\* No new place for digits.
LEMMA DigitsKept ==
  ASSUME IInv, UNCHANGED dtmf,
         \A id \in Ids : tel'[id] = "none" => tel[id] = "none",
         \A id \in Ids, u \in Threads : Carries(u, id)' => Carries(u, id),
         \A id \in Ids, c \in DOMAIN objs' :
           Keeps(c, id)' => c \in DOMAIN objs /\ Keeps(c, id)
  PROVE  DigitsInOnePlace'
<1> SUFFICES ASSUME NEW id \in Ids
             PROVE  /\ dtmf'[id] <= 1
                    /\ \A t \in Threads : Carries(t, id)' => dtmf'[id] = 0
                    /\ \A c \in DOMAIN objs' : Keeps(c, id)' => dtmf'[id] = 0
                    /\ \A t, u \in Threads : Carries(t, id)' /\ Carries(u, id)' => t = u
                    /\ \A c, d \in DOMAIN objs' : Keeps(c, id)' /\ Keeps(d, id)' => c = d
                    /\ \A t \in Threads, c \in DOMAIN objs' : ~(Carries(t, id)' /\ Keeps(c, id)')
                    /\ tel'[id] = "none" =>
                         /\ dtmf'[id] = 0
                         /\ \A t \in Threads : ~Carries(t, id)'
                         /\ \A c \in DOMAIN objs' : ~Keeps(c, id)'
  BY DEF DigitsInOnePlace
<1> QED
  BY DEF IInv, DigitsInOnePlace

LEMMA EndingsKept ==
  ASSUME IInv,
         \A id \in Ids : tel[id] = "ended" => tel'[id] = "ended",
         \A id \in Ids : <<"call.hangup", id>> \in emitted' =>
           <<"call.hangup", id>> \in emitted \/ tel'[id] = "ended",
         \A c \in DOMAIN objs' : objs'[c].status = "ended" =>
           \/ tel'[objs'[c].id] = "ended"
           \/ /\ c \in DOMAIN objs /\ objs[c].status = "ended"
              /\ objs'[c].id = objs[c].id
  PROVE  Endings'
<1>1. \A c \in DOMAIN objs : objs[c].id \in Ids
  BY Types DEF Call
<1> QED
  BY <1>1 DEF IInv, Endings

LEMMA ConsentKept ==
  ASSUME IInv, agreed \subseteq agreed',
         \A c \in DOMAIN objs' :
           \/ objs'[c].id \in Inbound => objs'[c].id \in agreed'
           \/ c \in DOMAIN objs /\ objs'[c].id = objs[c].id,
         \A id \in Inbound \ agreed' :
           /\ tel'[id] = "answered" => tel[id] = "answered"
           /\ streamed[id] = "no" => streamed'[id] = "no"
           /\ sessions'[id] # 0 =>
                \/ \E t \in Threads : At(t, "decide")' /\ job'[t].id = id
                \/ /\ sessions[id] # 0
                   /\ \A t \in Threads : At(t, "decide") /\ job[t].id = id =>
                                            At(t, "decide")' /\ job'[t].id = id
  PROVE  Consent'
<1>1. \A c \in DOMAIN objs' : objs'[c].id \in Inbound => objs'[c].id \in agreed'
  BY DEF IInv, Consent
<1>2. ASSUME NEW id \in Inbound \ agreed'
      PROVE  /\ tel'[id] # "answered" /\ streamed'[id] = "no"
             /\ sessions'[id] # 0 =>
                  \E t \in Threads : At(t, "decide")' /\ job'[t].id = id
  BY DEF IInv, Consent
<1> QED
  BY <1>1, <1>2 DEF Consent

\* A goroutine that leaves a label, and where it then is.
LEMMA GoIs ==
  ASSUME IInv, NEW t \in Threads, NEW l \in Labels, Go(t, l)
  PROVE  Only(t) /\ job'[t] = [job[t] EXCEPT !.at = l]
  BY Types DEF Go, Only

LEMMA ReturnIs ==
  ASSUME IInv, NEW t \in Threads, Return(t),
         Len(objs') \in Nat, Len(objects') \in Nat
  PROVE  Only(t) /\ job'[t] = Idle /\ job'[t].at = "idle" /\ Sound(job[t])'
<1>1. Only(t) /\ job'[t] = Idle
  BY Types DEF Return, Only
<1>2. Idle \in Jobs
  BY DEF Idle, Jobs, Labels
<1>3. Sound(job[t])'
  BY <1>1, <1>2 DEF Sound, Idle, OnWebhook, WithCall, WithSession
<1> QED
  BY <1>1, <1>3 DEF Idle

\* A step in which one goroutine moves, and changes nothing the others see.
LEMMA JobStep ==
  ASSUME IInv, NEW t \in Threads, Only(t), Sound(job[t])',
         UNCHANGED <<telnyx, calls, objs, dtmf, sessions, objects, agreed>>,
         pmu' \in {{}} \cup {{u} : u \in Threads}, hangups' \subseteq Ids,
         returned' \in [Ids -> Nat],
         \A id \in Ids : returned'[id] <= Len(objects),
         Counters', job[t].at # "decide",
         job'[t].at \in {"dialled", "dtmf"} =>
           job[t].at = job'[t].at /\ job[t].id = job'[t].id
  PROVE  IInv'
<1>0. UNCHANGED <<tel, emitted, streamed, calls, objs, dtmf, sessions, objects,
                  agreed>>
  BY DEF telnyx
<1>1. Stores'
  BY <1>0 DEF IInv, Stores
<1>2. Goroutines'
  BY <1>0, Types, GoroutinesKept DEF Grows
<1>3. Filed'
  BY <1>0 DEF IInv, Filed
<1>4. \A u \in Threads \ {t} : job'[u] = job[u]
  BY Types DEF Only
<1>5. DigitsInOnePlace'
  <2>1. \A id \in Ids, u \in Threads : Carries(u, id)' => Carries(u, id)
    BY <1>4 DEF Carries
  <2>2. \A id \in Ids, c \in DOMAIN objs : Keeps(c, id)' => Keeps(c, id)
    BY <1>0 DEF Keeps
  <2> QED
    BY <1>0, <2>1, <2>2, DigitsKept
<1>6. Endings'
  BY <1>0, EndingsKept
<1>7. Consent'
  <2>1. \A u \in Threads : At(u, "decide") => At(u, "decide")' /\ job'[u] = job[u]
    BY <1>4 DEF At
  <2> QED
    BY <1>0, <2>1, ConsentKept
<1> QED
  BY <1>1, <1>2, <1>3, <1>5, <1>6, <1>7 DEF IInv
-----------------------------------------------------------------------------
(* Steps that only move a goroutine.                                       *)

\* What a goroutine with local variables relies on.
LEMMA Relies ==
  ASSUME IInv, NEW t \in Threads
  PROVE  /\ Sound(job[t]) /\ job[t] \in Jobs
         /\ job[t].call \in Nat /\ job[t].sess \in Nat
  BY DEF IInv, Goroutines, Sound, Jobs

\* The types of what JobStep leaves to the action.
LEMMA Rest ==
  ASSUME IInv
  PROVE  /\ pmu \in {{}} \cup {{u} : u \in Threads} /\ hangups \subseteq Ids
         /\ returned \in [Ids -> Nat]
         /\ \A id \in Ids : returned[id] <= Len(objects)
         /\ Counters
  BY DEF IInv, Stores, Filed

\* A goroutine returns.
LEMMA ReturnStep ==
  ASSUME IInv, NEW t \in Threads, Return(t), job[t].at # "decide",
         UNCHANGED <<telnyx, calls, objs, dtmf, sessions, objects, agreed>>,
         pmu' \in {{}} \cup {{u} : u \in Threads}, hangups' \subseteq Ids,
         returned' \in [Ids -> Nat],
         \A id \in Ids : returned'[id] <= Len(objects), Counters'
  PROVE  IInv'
  BY ReturnIs, JobStep, Types

\* A webhook has been dealt with to the end.
LEMMA HandledType ==
  ASSUME IInv, NEW t \in Threads, HandledOK(t), job[t].at \in OnWebhook,
         UNCHANGED <<gmu, delivered, ops, serving, agreed>>
  PROVE  Counters'
<1>1. job[t].ev \in EventTypes /\ job[t].id \in Ids
  BY Relies DEF Sound, OnWebhook
<1> QED
  BY <1>1 DEF IInv, Counters, HandledOK

LEMMA UpgradeFailsInv ==
  ASSUME IInv, NEW t \in Threads, UpgradeFails(t)  PROVE  IInv'
<1>1. job[t].at = "upgrade" /\ Return(t) /\ HandledOK(t)
      /\ UNCHANGED <<telnyx, calls, objs, pmu, dtmf, hangups, sessions,
                     objects, gmu, delivered, ops, serving, returned, agreed>>
  BY DEF UpgradeFails, At, system, registry, history, gate, intake
<1>2. Counters'
  BY <1>1, HandledType DEF OnWebhook
<1> QED
  BY <1>1, <1>2, Rest, ReturnStep

LEMMA DeliverInv ==
  ASSUME IInv, NEW t \in Threads, NEW type \in EventTypes, NEW id \in Ids,
         NEW endpoint \in {"event", "status", "upgrade"},
         Deliver(t, type, id, endpoint)
  PROVE  IInv'
<1>1. /\ job[t].at = "idle" /\ <<type, id>> \in emitted
      /\ delivered < MaxDeliveries /\ delivered' = delivered + 1
      /\ job' = [job EXCEPT ![t] = [Idle EXCEPT !.at = endpoint, !.id = id,
                                               !.ev = type]]
      /\ UNCHANGED <<telnyx, calls, objs, pmu, dtmf, hangups, sessions,
                     objects, gmu, ops, serving, returned, agreed, handled>>
  BY DEF Deliver, At, system, registry, history, gate, record
<1>2. /\ Only(t)
      /\ job'[t] = [at |-> endpoint, id |-> id, ev |-> type, call |-> 0, sess |-> 0]
  BY <1>1, Types DEF Only, Idle
<1>3. Sound(job[t])'
  <2>1. /\ job'[t].at \in {"event", "status", "upgrade"} /\ job'[t].id = id
        /\ job'[t].ev = type /\ job'[t].call = 0 /\ job'[t].sess = 0
    BY <1>2
  <2>2. job'[t] \in Jobs
    BY <1>2 DEF Jobs, Labels
  <2>3. 0 <= Len(objs)' /\ 0 <= Len(objects)' /\ <<type, id>> \in emitted'
    BY <1>1, Types DEF telnyx
  <2> QED
    BY <2>1, <2>2, <2>3 DEF Sound, WithCall, WithSession
<1>4. Counters'
  BY <1>1, GatewayConstants DEF IInv, Counters
<1> QED
  BY <1>1, <1>2, <1>3, <1>4, Rest, JobStep

\* A goroutine that goes to a label where it relies on no more than before,
\* or on what is given.
LEMMA SoundGo ==
  ASSUME IInv, Grows, Len(objs') \in Nat, Len(objects') \in Nat,
         NEW t \in Threads, NEW l \in Labels,
         job'[t] = [job[t] EXCEPT !.at = l],
         l \in {"idle", "shutdown", "stop", "stopping"} \/ job[t].id \in Ids,
         l \in OnWebhook => job[t].at \in OnWebhook,
         l \in WithCall => job[t].at \in WithCall,
         l \in WithSession => job[t].at \in WithSession,
         l \in {"refused", "hung"} => tel'[job[t].id] = "ended",
         l \in {"dialled", "registered"} => job[t].id \in Outbound,
         l \in {"register", "start", "create"} /\ job[t].id \in Inbound =>
           job[t].id \in agreed'
  PROVE  Sound(job[t])'
<1>1. PICK j : j = job[t]
  OBVIOUS
<1>2. Sound(j)'
  BY <1>1, Relies, SoundKept
<1>3. /\ job'[t].at = l /\ job'[t].id = j.id /\ job'[t].ev = j.ev
      /\ job'[t].call = j.call /\ job'[t].sess = j.sess /\ job'[t] \in Jobs
  BY <1>1, Relies DEF Jobs
<1>4. /\ j.at \in OnWebhook => j.ev \in EventTypes /\ <<j.ev, j.id>> \in emitted'
      /\ j.at \in WithCall => j.call # 0 /\ objs'[j.call].id = j.id
      /\ j.at \in WithSession => j.sess # 0
      /\ j.call <= Len(objs') /\ j.sess <= Len(objects')
  BY <1>2 DEF Sound
<1> QED
  BY <1>1, <1>3, <1>4 DEF Sound

\* The frame of most steps.
Unseen == UNCHANGED <<telnyx, calls, objs, dtmf, sessions, objects, agreed>>
Quiet == Unseen /\ UNCHANGED <<pmu, hangups, returned, gmu, delivered, ops,
                              serving, handled>>

LEMMA UnseenGrows ==
  ASSUME IInv, Unseen
  PROVE  Grows /\ Len(objs') \in Nat /\ Len(objects') \in Nat
<1>1. UNCHANGED <<tel, emitted, streamed, calls, objs, dtmf, sessions, objects, agreed>>
  BY DEF Unseen, telnyx
<1>2. Len(objs) <= Len(objs) /\ Len(objects) <= Len(objects)
  BY Types
<1> QED
  BY <1>1, <1>2, Types DEF Grows

LEMMA QuietRest ==
  ASSUME IInv, UNCHANGED <<pmu, hangups, returned, gmu, delivered, ops,
                           serving, handled, agreed>>
  PROVE  /\ pmu' \in {{}} \cup {{u} : u \in Threads} /\ hangups' \subseteq Ids
         /\ returned' \in [Ids -> Nat]
         /\ \A id \in Ids : returned'[id] <= Len(objects)
         /\ Counters'
  BY Rest DEF Counters

\* The same with names for the frame: one goroutine moves, or returns.
LEMMA MoveStep ==
  ASSUME IInv, NEW t \in Threads, Unseen, Only(t), Sound(job[t])',
         UNCHANGED <<pmu, hangups, returned>>, Counters',
         job[t].at # "decide", job'[t].at \notin {"dialled", "dtmf"}
  PROVE  IInv'
  BY JobStep, Rest DEF Unseen

\* GetCall: the Call found is that of the id asked for.
LEMMA LooksUpInv ==
  ASSUME IInv, NEW t \in Threads, NEW label \in OnWebhook \ {"decide"},
         NEW found \in {"refuse", "digits"},
         HandlerLooksUp(t, label, found)
  PROVE  IInv'
<1>1. /\ job[t].at = label /\ Unseen
      /\ UNCHANGED <<pmu, hangups, gmu, delivered, ops, serving, returned, agreed>>
  BY DEF HandlerLooksUp, LookUpCall, At, registry, history, gate, intake, Unseen
<1>2. job[t].id \in Ids /\ job[t].ev \in EventTypes /\ <<job[t].ev, job[t].id>> \in emitted
  BY <1>1, Relies DEF Sound, OnWebhook
<1>3. Counters'
  BY <1>1, <1>2, HandledType DEF HandlerLooksUp, IInv, Counters
<1> DEFINE c == calls[job[t].id]
<1>4. CASE c # 0 /\ job' = [job EXCEPT ![t].at = found, ![t].call = c]
  <2>1. c \in Nat /\ c <= Len(objs) /\ objs[c].id = job[t].id
    BY <1>2, <1>4 DEF IInv, Stores, Filed
  <2>2. /\ job'[t] \in Jobs /\ job'[t].at = found /\ job'[t].call = c
        /\ job'[t].id = job[t].id /\ job'[t].ev = job[t].ev
        /\ job'[t].sess = job[t].sess /\ Only(t)
    <3>1. job'[t] = [job[t] EXCEPT !.at = found, !.call = c] /\ Only(t)
      BY <1>4, Types DEF Only
    <3>2. found \in Labels /\ job[t] \in Jobs
      BY Types DEF Labels
    <3> HIDE DEF c
    <3> QED
      BY <2>1, <3>1, <3>2 DEF Jobs
  <2>3. job[t].sess <= Len(objects)
    BY Relies DEF Sound
  <2>4. Sound(job[t])'
    <3>1. UNCHANGED <<objs, objects, emitted>>
      BY <1>1 DEF Unseen, telnyx
    <3> HIDE DEF c
    <3> QED
      <4>1. /\ found \notin WithSession
            /\ found \notin {"refused", "hung", "dialled", "registered",
                             "register", "start", "create"}
        BY DEF WithSession
      <4>2. c <= Len(objs') /\ objs'[c].id = job[t].id /\ c # 0
        BY <1>4, <2>1, <3>1 DEF c
      <4>3. job[t].sess <= Len(objects') /\ <<job[t].ev, job[t].id>> \in emitted'
        BY <1>2, <2>3, <3>1
      <4> QED
        BY <1>2, <2>2, <4>1, <4>2, <4>3 DEF Sound
  <2> QED
    BY <1>1, <1>3, <2>2, <2>4, MoveStep
<1>5. CASE Return(t)
  <2>1. Only(t) /\ job'[t].at = "idle" /\ Sound(job[t])'
    BY <1>1, <1>5, ReturnIs, UnseenGrows
  <2> QED
    BY <1>1, <1>3, <2>1, MoveStep
<1> QED
  BY <1>4, <1>5 DEF HandlerLooksUp, LookUpCall

\* The lookup of the session in handleCallHangup.
LEMMA FindInv ==
  ASSUME IInv, NEW t \in Threads, At(t, "find"),
         \/ /\ Return(t) /\ HandledOK(t)
            /\ UNCHANGED <<system, gate, intake, returned, agreed>>
         \/ /\ sessions[job[t].id] # 0
            /\ job' = [job EXCEPT ![t].at = "found", ![t].sess = sessions[job[t].id]]
            /\ UNCHANGED <<system, gate, intake, record>>
  PROVE  IInv'
<1>1. /\ job[t].at = "find" /\ Unseen
      /\ UNCHANGED <<pmu, hangups, gmu, delivered, ops, serving, returned, agreed>>
  BY DEF At, system, registry, history, gate, intake, record, Unseen
<1>2. job[t].id \in Ids /\ job[t].ev \in EventTypes /\ <<job[t].ev, job[t].id>> \in emitted
  BY <1>1, Relies DEF Sound, OnWebhook
<1>3. Counters'
  BY <1>1, <1>2, HandledType DEF IInv, Counters, OnWebhook, record
<1> DEFINE s == sessions[job[t].id]
<1>4. CASE s # 0 /\ job' = [job EXCEPT ![t].at = "found", ![t].sess = s]
  <2>1. s \in Nat /\ s <= Len(objects)
    BY <1>2 DEF IInv, Stores, Filed
  <2>2. /\ job'[t] \in Jobs /\ job'[t].at = "found" /\ job'[t].sess = s
        /\ job'[t].id = job[t].id /\ job'[t].ev = job[t].ev
        /\ job'[t].call = job[t].call /\ Only(t)
    <3>1. job'[t] = [job[t] EXCEPT !.at = "found", !.sess = s] /\ Only(t)
      BY <1>4, Types DEF Only
    <3>2. "found" \in Labels /\ job[t] \in Jobs
      BY Types DEF Labels
    <3> HIDE DEF s
    <3> QED
      BY <2>1, <3>1, <3>2 DEF Jobs
  <2>3. job[t].call <= Len(objs)
    BY Relies DEF Sound
  <2>4. Sound(job[t])'
    <3>1. UNCHANGED <<objs, objects, emitted>>
      BY <1>1 DEF Unseen, telnyx
    <3> HIDE DEF s
    <3> QED
      <4>1. /\ "found" \notin WithCall
            /\ "found" \notin {"refused", "hung", "dialled", "registered",
                               "register", "start", "create"}
        BY DEF WithCall
      <4>2. s <= Len(objects') /\ s # 0
        BY <1>4, <2>1, <3>1 DEF s
      <4>3. job[t].call <= Len(objs') /\ <<job[t].ev, job[t].id>> \in emitted'
        BY <1>2, <2>3, <3>1
      <4> QED
        BY <1>2, <2>2, <4>1, <4>2, <4>3 DEF Sound
  <2> QED
    BY <1>1, <1>3, <2>2, <2>4, MoveStep
<1>5. CASE Return(t)
  <2>1. Only(t) /\ job'[t].at = "idle" /\ Sound(job[t])'
    BY <1>1, <1>5, ReturnIs, UnseenGrows
  <2> QED
    BY <1>1, <1>3, <2>1, MoveStep
<1> QED
  BY <1>4, <1>5

\* A handler that has closed the session.
LEMMA ClosedInv ==
  ASSUME IInv, NEW t \in Threads, Closed(t, "closing"), Return(t), HandledOK(t),
         UNCHANGED <<system, gate, intake, returned, agreed>>
  PROVE  IInv'
<1>1. /\ job[t].at = "closing" /\ Unseen
      /\ UNCHANGED <<pmu, hangups, returned, gmu, delivered, ops, serving, agreed>>
  BY DEF Closed, At, system, registry, history, gate, intake, Unseen
<1>2. Counters'
  BY <1>1, HandledType DEF OnWebhook
<1> QED
  BY <1>1, <1>2, UnseenGrows, ReturnIs, MoveStep

LEMMA ReturnsInv ==
  ASSUME IInv, NEW t \in Threads, Return(t),
         \/ Closed(t, "stopped") \/ Closed(t, "ending") \/ At(t, "bound")
         \/ At(t, "attached") \/ At(t, "unattached"),
         UNCHANGED <<system, gate, intake, record>>
  PROVE  IInv'
<1>1. /\ job[t].at \in {"stopped", "ending", "bound", "attached", "unattached"}
      /\ Quiet
  BY DEF Closed, At, system, registry, history, gate, intake, record, Unseen, Quiet
<1>2. Counters'
  BY <1>1, QuietRest DEF Quiet, Unseen
<1> QED
  BY <1>1, <1>2, UnseenGrows, ReturnIs, MoveStep DEF Quiet

LEMMA StreamStartInv ==
  ASSUME IInv, NEW t \in Threads, StreamStart(t)  PROVE  IInv'
<1> DEFINE s == sessions[job[t].id]
           l == IF s = 0 THEN "create" ELSE "bound"
<1>1. /\ job[t].at = "start" /\ Quiet
      /\ job' = [job EXCEPT ![t].at = l, ![t].sess = s]
  BY DEF StreamStart, At, system, registry, history, gate, intake, record,
         Unseen, Quiet
<1>2. Counters'
  BY <1>1, QuietRest DEF Quiet, Unseen
<1>3. job[t].id \in Ids /\ (job[t].id \in Inbound => job[t].id \in agreed)
  BY <1>1, Relies DEF Sound
<1>4. s \in Nat /\ s <= Len(objects) /\ job[t].call <= Len(objs)
  BY <1>3, Relies DEF IInv, Stores, Filed, Sound
<1>5. l \in {"create", "bound"} /\ (l = "bound" => s # 0)
  OBVIOUS
<1> HIDE DEF s, l
<1>6. /\ job'[t] \in Jobs /\ job'[t].at = l /\ job'[t].sess = s
      /\ job'[t].id = job[t].id /\ job'[t].call = job[t].call /\ Only(t)
  <2>1. job'[t] = [job[t] EXCEPT !.at = l, !.sess = s] /\ Only(t)
    BY <1>1, Types DEF Only
  <2>2. l \in Labels /\ job[t] \in Jobs
    BY <1>5, Types DEF Labels
  <2> QED
    BY <1>4, <2>1, <2>2 DEF Jobs
<1>7. Sound(job[t])'
  <2>1. /\ l \notin OnWebhook /\ l \notin WithCall
        /\ l \in WithSession => s # 0
        /\ l \notin {"refused", "hung", "dialled", "registered"}
    BY <1>5 DEF OnWebhook, WithCall, WithSession
  <2>2. /\ s <= Len(objects') /\ job[t].call <= Len(objs')
        /\ job[t].id \in Inbound => job[t].id \in agreed'
    BY <1>1, <1>3, <1>4 DEF Quiet, Unseen
  <2> QED
    BY <1>3, <1>6, <2>1, <2>2 DEF Sound
<1> QED
  BY <1>1, <1>2, <1>5, <1>6, <1>7, MoveStep DEF Quiet

\* A media stream handler gets on with the session it has found.
LEMMA StreamsInv ==
  ASSUME IInv, NEW t \in Threads, At(t, "bound") \/ At(t, "talking"),
         NEW l \in {"forwarding", "talking", "attached", "unattached"}, Go(t, l),
         UNCHANGED <<system, gate, intake, record>>
  PROVE  IInv'
<1>1. job[t].at \in {"bound", "talking"} /\ Quiet
  BY DEF At, system, registry, history, gate, intake, record, Unseen, Quiet
<1>2. Counters'
  BY <1>1, QuietRest DEF Quiet, Unseen
<1>3. /\ Only(t) /\ job'[t] = [job[t] EXCEPT !.at = l]
      /\ job'[t].at = l /\ l \in Labels
  <2>1. l \in Labels
    BY DEF Labels
  <2> QED
    BY <2>1, GoIs, Relies DEF Jobs
<1>4. job[t].id \in Ids
  BY <1>1, Relies DEF Sound
<1>5. Sound(job[t])'
  <2>1. /\ l \notin OnWebhook /\ l \notin WithCall
        /\ job[t].at \in WithSession
    BY <1>1 DEF OnWebhook, WithCall, WithSession
  <2>2. l \notin {"refused", "hung", "dialled", "registered", "register",
                 "start", "create"}
    OBVIOUS
  <2> QED
    BY <1>1, <1>3, <1>4, <2>1, <2>2, SoundGo, UnseenGrows DEF Quiet
<1> QED
  BY <1>1, <1>2, <1>3, <1>5, MoveStep DEF Quiet

\* MakeCall returns the session.
LEMMA MadeInv ==
  ASSUME IInv, NEW t \in Threads, At(t, "made"), Return(t),
         returned' = [returned EXCEPT ![job[t].id] = job[t].sess],
         UNCHANGED <<system, gate, intake, agreed, handled>>
  PROVE  IInv'
<1>1. /\ job[t].at = "made" /\ Unseen
      /\ UNCHANGED <<pmu, hangups, gmu, delivered, ops, serving, agreed, handled>>
  BY DEF At, system, registry, history, gate, intake, Unseen
<1>2. Counters'
  BY <1>1 DEF IInv, Counters
<1>3. job[t].sess \in Nat /\ job[t].sess <= Len(objects)
  BY Relies DEF Sound
<1>4. returned' \in [Ids -> Nat] /\ \A id \in Ids : returned'[id] <= Len(objects)
  BY <1>3, Rest
<1> QED
  BY <1>1, <1>2, <1>4, Rest, ReturnStep DEF Unseen

\* Session.Hangup or Session.Close begins.
LEMMA AppEndsInv ==
  ASSUME IInv, NEW t \in Threads, NEW s \in DOMAIN objects, AppEnds(t, s)
  PROVE  IInv'
<1>1. PICK l \in {"hangup", "close"} :
        job' = [job EXCEPT ![t] =
                  [Idle EXCEPT !.at = l, !.id = objects[s].id, !.sess = s]]
  BY DEF AppEnds
<1>2. /\ job[t].at = "idle" /\ Unseen /\ s # 0
      /\ ops < MaxOps /\ ops' = ops + 1
      /\ UNCHANGED <<pmu, hangups, gmu, delivered, serving, returned, agreed, handled>>
  BY DEF AppEnds, Begins, At, system, registry, history, gate, record, Unseen
<1>3. Counters'
  BY <1>2, GatewayConstants DEF IInv, Counters
<1>4. s \in Nat /\ s <= Len(objects) /\ objects[s].id \in Ids
  BY Types DEF Session
<1>5. /\ Only(t)
      /\ job'[t] = [at |-> l, id |-> objects[s].id, ev |-> "none", call |-> 0, sess |-> s]
  BY <1>1, Types DEF Only, Idle
<1>6. Sound(job[t])'
  <2>1. job'[t] \in Jobs
    BY <1>4, <1>5 DEF Jobs, Labels
  <2>2. /\ job'[t].at = l /\ job'[t].id \in Ids /\ job'[t].call = 0
        /\ job'[t].sess = s
    BY <1>4, <1>5
  <2>3. /\ l \notin OnWebhook /\ l \notin WithCall
        /\ l \notin {"refused", "hung", "dialled", "registered", "register",
                     "start", "create"}
    BY DEF OnWebhook, WithCall
  <2>4. 0 <= Len(objs') /\ s <= Len(objects')
    BY <1>2, <1>4, Types DEF Unseen
  <2> QED
    BY <1>2, <2>1, <2>2, <2>3, <2>4 DEF Sound
<1> QED
  BY <1>2, <1>3, <1>5, <1>6, MoveStep

\* An operation of the application that takes a lock begins.
LEMMA LocksInv ==
  ASSUME IInv, NEW t \in Threads, NEW l \in {"shutdown", "stop"},
         At(t, "idle"), Go(t, l), Unseen,
         ops < MaxOps, ops' = ops + 1,
         pmu' \in {pmu, {t}}, gmu' \in {gmu} \cup {{u} : u \in Apps},
         UNCHANGED <<hangups, returned, delivered, serving, handled>>
  PROVE  IInv'
<1>1. /\ Only(t) /\ job'[t] = [job[t] EXCEPT !.at = l]
      /\ job'[t].at = l /\ l \in Labels
  <2>1. l \in Labels
    BY DEF Labels
  <2> QED
    BY <2>1, GoIs, Relies DEF Jobs
<1>2. Sound(job[t])'
  <2>1. /\ l \notin OnWebhook /\ l \notin WithCall /\ l \notin WithSession
    BY DEF OnWebhook, WithCall, WithSession
  <2> QED
    BY <1>1, <2>1, SoundGo, UnseenGrows
<1>3. Counters'
  BY GatewayConstants DEF IInv, Counters, Unseen
<1>4. pmu' \in {{}} \cup {{u} : u \in Threads}
  BY Rest
<1> QED
  BY <1>1, <1>2, <1>3, <1>4, Rest, JobStep DEF Unseen, At

\* The same operation ends.
LEMMA UnlocksInv ==
  ASSUME IInv, NEW t \in Threads, job[t].at # "decide", Return(t), Unseen,
         pmu' \in {pmu, {}}, gmu' \in {gmu, {}}, serving' \in {serving, FALSE},
         UNCHANGED <<hangups, returned, delivered, ops, handled>>
  PROVE  IInv'
<1>1. Counters'
  BY DEF IInv, Counters, Unseen
<1>2. pmu' \in {{}} \cup {{u} : u \in Threads}
  BY Rest
<1> QED
  BY <1>1, <1>2, Rest, ReturnStep DEF Unseen

\* Provider.Close takes the next call.
LEMMA ShutdownNextInv ==
  ASSUME IInv, NEW t \in Threads, Calls(ShutdownNext(t))  PROVE  IInv'
<1>1. PICK id \in Ids :
        /\ calls[id] # 0
        /\ job' = [job EXCEPT ![t] = [@ EXCEPT !.at = "hanging", !.id = id,
                                              !.call = calls[id]]]
  BY ZenonT(30) DEF Calls, ShutdownNext
<1>2. job[t].at = "shutdown" /\ Quiet
  BY DEF Calls, ShutdownNext, At, registry, history, gate, intake, record,
         Unseen, Quiet
<1>3. Counters'
  BY <1>2, QuietRest DEF Quiet, Unseen
<1>4. PICK c : c = calls[id]
  OBVIOUS
<1>5. c \in Nat /\ c <= Len(objs) /\ objs[c].id = id /\ c # 0
  BY <1>1, <1>4 DEF IInv, Stores, Filed
<1>6. /\ job'[t] \in Jobs /\ job'[t].at = "hanging" /\ job'[t].call = c
      /\ job'[t].id = id /\ job'[t].sess = job[t].sess /\ Only(t)
  <2>1. job'[t] = [job[t] EXCEPT !.at = "hanging", !.id = id, !.call = c] /\ Only(t)
    BY <1>1, <1>4, Types DEF Only
  <2>2. "hanging" \in Labels /\ job[t] \in Jobs
    BY Types DEF Labels
  <2> QED
    BY <1>5, <2>1, <2>2 DEF Jobs
<1>7. Sound(job[t])'
  <2>1. /\ "hanging" \notin OnWebhook /\ "hanging" \notin WithSession
    BY DEF OnWebhook, WithSession
  <2>2. /\ c <= Len(objs') /\ objs'[c].id = id /\ job[t].sess <= Len(objects')
    BY <1>2, <1>5, Relies DEF Quiet, Unseen, Sound
  <2> QED
    BY <1>5, <1>6, <2>1, <2>2 DEF Sound
<1> QED
  BY <1>2, <1>3, <1>6, <1>7, MoveStep DEF Quiet
-----------------------------------------------------------------------------
(* Steps that change a Call.                                               *)

\* Only the status of Call c changes, and no digits come back to it.
Rewritten(c) ==
  /\ c \in 1..Len(objs)
  /\ \E s \in Statuses, d \in BOOLEAN :
       /\ objs' = [objs EXCEPT ![c] = [id |-> objs[c].id, status |-> s,
                                      digits |-> d]]
       /\ s = "ended" => objs[c].status = "ended" \/ tel[objs[c].id] = "ended"
       /\ d => objs[c].digits

LEMMA RewrittenCalls ==
  ASSUME IInv, NEW c, Rewritten(c)
  PROVE  /\ objs' \in Seq(Call) /\ Len(objs') = Len(objs)
         /\ DOMAIN objs' = DOMAIN objs
         /\ \A d \in 1..Len(objs) :
              /\ objs'[d].id = objs[d].id
              /\ objs'[d].digits => objs[d].digits
              /\ objs'[d].status = "ended" =>
                   objs[d].status = "ended" \/ tel[objs[d].id] = "ended"
<1>1. PICK s \in Statuses, b \in BOOLEAN :
        /\ objs' = [objs EXCEPT ![c] = [id |-> objs[c].id, status |-> s,
                                       digits |-> b]]
        /\ s = "ended" => objs[c].status = "ended" \/ tel[objs[c].id] = "ended"
        /\ b => objs[c].digits
  BY DEF Rewritten
<1> DEFINE new == [id |-> objs[c].id, status |-> s, digits |-> b]
<1>2. c \in 1..Len(objs) /\ objs[c] \in Call
  BY Types DEF Rewritten
<1>3. new \in Call /\ new.id = objs[c].id /\ new.status = s /\ new.digits = b
  BY <1>2 DEF Call
<1>4. objs' = [objs EXCEPT ![c] = new]
  BY <1>1
<1> HIDE DEF new
<1>5. objs' \in Seq(Call) /\ Len(objs') = Len(objs) /\ DOMAIN objs' = DOMAIN objs
  BY <1>2, <1>3, <1>4, Types, ExceptSeq
<1>6. \A d \in 1..Len(objs) : objs'[d] = IF d = c THEN new ELSE objs[d]
  BY <1>2, <1>4, Types
<1> QED
  BY <1>1, <1>3, <1>5, <1>6

\* A step that rewrites one Call, while one goroutine moves.
LEMMA RewriteStep ==
  ASSUME IInv, NEW t \in Threads, NEW c, Rewritten(c), Only(t), Sound(job[t])',
         UNCHANGED <<telnyx, calls, dtmf, hangups, gate, intake, record>>,
         pmu' \in {{}} \cup {{u} : u \in Threads},
         job[t].at # "decide", job'[t].at \notin {"dialled", "dtmf"}
  PROVE  IInv'
<1>0. UNCHANGED <<tel, emitted, streamed, calls, dtmf, hangups, sessions,
                  objects, gmu, delivered, ops, serving, returned, agreed,
                  handled>>
  BY DEF telnyx, gate, intake, record
<1>1. Stores' /\ Counters'
  BY <1>0, RewrittenCalls DEF IInv, Stores, Counters, Call
<1>2. Goroutines'
  <2>1. Grows
    BY <1>0, RewrittenCalls, Types DEF Grows
  <2> QED
    BY <1>0, <2>1, RewrittenCalls, Types, GoroutinesKept
<1>3. Filed'
  <2>1. \A id \in Ids : calls[id] # 0 => calls[id] \in 1..Len(objs)
    BY Types DEF IInv, Stores, Filed
  <2> QED
    BY <1>0, <2>1, RewrittenCalls DEF IInv, Filed
<1>4. \A u \in Threads \ {t} : job'[u] = job[u]
  BY Types DEF Only
<1>5. DigitsInOnePlace'
  <2>1. \A id \in Ids, u \in Threads : Carries(u, id)' => Carries(u, id)
    BY <1>4 DEF Carries
  <2>2. \A id \in Ids, d \in DOMAIN objs' :
          Keeps(d, id)' => d \in DOMAIN objs /\ Keeps(d, id)
    BY RewrittenCalls, Types DEF Keeps
  <2> QED
    BY <1>0, <2>1, <2>2, DigitsKept
<1>6. Endings'
  BY <1>0, RewrittenCalls, Types, EndingsKept
<1>7. Consent'
  <2>1. \A u \in Threads : At(u, "decide") => At(u, "decide")' /\ job'[u] = job[u]
    BY <1>4 DEF At
  <2> QED
    BY <1>0, <2>1, RewrittenCalls, Types, ConsentKept
<1> QED
  BY <1>1, <1>2, <1>3, <1>5, <1>6, <1>7 DEF IInv

\* A status set from Telnyx's, or one that does not end the call.
LEMMA SetStatusRewrites ==
  ASSUME IInv, NEW c \in 1..Len(objs), NEW s \in Statuses, SetStatus(c, s),
         s = "ended" => tel[objs[c].id] = "ended"
  PROVE  Rewritten(c)
<1>1. objs[c] \in Call
  BY Types
<1>2. objs' = [objs EXCEPT ![c] = [id |-> objs[c].id, status |-> s,
                                 digits |-> objs[c].digits]]
  <2>1. [objs[c] EXCEPT !.status = s]
          = [id |-> objs[c].id, status |-> s, digits |-> objs[c].digits]
    BY <1>1 DEF Call
  <2>2. objs' = [objs EXCEPT ![c] = [objs[c] EXCEPT !.status = s]]
    BY DEF SetStatus
  <2> QED
    BY <2>1, <2>2
<1>3. objs[c].digits \in BOOLEAN
  BY <1>1 DEF Call
<1> QED
  BY <1>2, <1>3 DEF Rewritten

LEMMA RewriteGrows ==
  ASSUME IInv, NEW c, Rewritten(c), UNCHANGED <<telnyx, objects, agreed>>
  PROVE  Grows /\ Len(objs') \in Nat /\ Len(objects') \in Nat
  BY RewrittenCalls, Types DEF Grows, telnyx

\* The Call a goroutine holds.
LEMMA HeldCall ==
  ASSUME IInv, NEW t \in Threads, job[t].at \in WithCall
  PROVE  /\ job[t].call \in 1..Len(objs) /\ job[t].id \in Ids
         /\ objs[job[t].call].id = job[t].id
<1>1. job[t].at \notin {"idle", "shutdown", "stop", "stopping"}
  BY DEF WithCall
<1> QED
  <2>1. /\ job[t].call \in Nat /\ job[t].call # 0 /\ job[t].call <= Len(objs)
        /\ job[t].id \in Ids /\ objs[job[t].call].id = job[t].id
    BY <1>1, Relies DEF Sound
  <2>2. Len(objs) \in Nat
    BY Types
  <2>3. \A n, m \in Nat : n # 0 /\ n <= m => n \in 1..m
    OBVIOUS
  <2> QED
    BY <2>1, <2>2, <2>3

LEMMA MarkAnsweredInv ==
  ASSUME IInv, NEW t \in Threads, Calls(MarkAnswered(t))  PROVE  IInv'
<1>1. /\ job[t].at = "answered" /\ Return(t)
      /\ SetStatus(job[t].call, "answered")
      /\ UNCHANGED <<telnyx, calls, pmu, dtmf, hangups, gate, intake, record>>
  BY DEF Calls, MarkAnswered, At, history
<1>2. Rewritten(job[t].call)
  <2>1. job[t].call \in 1..Len(objs)
    BY <1>1, HeldCall DEF WithCall
  <2> QED
    BY <1>1, <2>1, SetStatusRewrites DEF Statuses
<1>3. Only(t) /\ job'[t].at = "idle" /\ Sound(job[t])'
  BY <1>1, <1>2, RewriteGrows, ReturnIs DEF gate, record
<1> QED
  BY <1>1, <1>2, <1>3, Rest, RewriteStep

\* Hangup marks the Call once Telnyx has ended it.
LEMMA MarkEndedInv ==
  ASSUME IInv, NEW t \in Threads,
         \/ Calls(MarkEnded(t, "refused", Return(t)))
         \/ Calls(MarkEnded(t, "hung", Go(t, "forget")))
  PROVE  IInv'
<1>1. /\ job[t].at \in {"refused", "hung"}
      /\ Return(t) \/ Go(t, "forget")
      /\ SetStatus(job[t].call, "ended")
      /\ UNCHANGED <<telnyx, calls, pmu, dtmf, hangups, gate, intake, record>>
  BY DEF Calls, MarkEnded, At, history
<1>2. /\ job[t].call \in 1..Len(objs) /\ job[t].id \in Ids
      /\ objs[job[t].call].id = job[t].id
  BY <1>1, HeldCall DEF WithCall
<1>3. tel[job[t].id] = "ended"
  BY <1>1, Relies DEF Sound
<1>4. Rewritten(job[t].call)
  BY <1>1, <1>2, <1>3, SetStatusRewrites DEF Statuses
<1>5. Grows /\ Len(objs') \in Nat /\ Len(objects') \in Nat
  BY <1>1, <1>4, RewriteGrows DEF gate, record
<1>6. Only(t) /\ job'[t].at \in {"idle", "forget"} /\ Sound(job[t])'
  <2>1. CASE Return(t)
    BY <1>5, <2>1, ReturnIs
  <2>2. CASE Go(t, "forget")
    <3>1. "forget" \in Labels
      BY DEF Labels
    <3>2. /\ Only(t) /\ job'[t] = [job[t] EXCEPT !.at = "forget"]
          /\ job'[t].at = "forget"
      BY <2>2, <3>1, GoIs, Relies DEF Jobs
    <3>3. "forget" \notin OnWebhook /\ "forget" \notin WithCall /\ "forget" \notin WithSession
      BY DEF OnWebhook, WithCall, WithSession
    <3> QED
      BY <1>2, <1>5, <3>1, <3>2, <3>3, SoundGo
  <2> QED
    BY <1>1, <2>1, <2>2
<1> QED
  BY <1>1, <1>4, <1>6, Rest, RewriteStep

\* HandleCallEvent: the status of the Call is that of the webhook.
LEMMA ApplyEventInv ==
  ASSUME IInv, NEW t \in Threads,
         \/ Calls(ApplyEvent(t, "event", "drop", Go(t, "find")))
         \/ Calls(ApplyEvent(t, "status", "statusDrop", Return(t)))
  PROVE  IInv'
<1>1. /\ job[t].at \in {"event", "status"}
      /\ UNCHANGED <<telnyx, calls, dtmf, hangups, gate, intake, record>>
  BY DEF Calls, ApplyEvent, At, history
<1>2. /\ job[t].id \in Ids /\ job[t].ev \in EventTypes
      /\ <<job[t].ev, job[t].id>> \in emitted /\ job[t].at \in OnWebhook
  BY <1>1, Relies DEF Sound, OnWebhook
<1>3. CASE /\ calls[job[t].id] # 0
           /\ SetStatus(calls[job[t].id], StatusAfter(job[t].ev))
           /\ pmu' = {t} /\ (Go(t, "drop") \/ Go(t, "statusDrop"))
  <2>1. PICK c : c = calls[job[t].id]
    OBVIOUS
  <2>2. c \in 1..Len(objs) /\ objs[c].id = job[t].id
    <3>1. c \in Nat /\ c # 0 /\ c <= Len(objs) /\ objs[c].id = job[t].id
      BY <1>2, <1>3, <2>1 DEF IInv, Stores, Filed
    <3>2. Len(objs) \in Nat
      BY Types
    <3> QED
      BY <3>1, <3>2
  <2>3. PICK s : s = StatusAfter(job[t].ev)
    OBVIOUS
  <2>4. s \in Statuses /\ (s = "ended" => job[t].ev = "call.hangup")
    BY <1>2, <2>3 DEF StatusAfter, EventTypes, Statuses
  <2>5. s = "ended" => tel[objs[c].id] = "ended"
    BY <1>2, <2>2, <2>4 DEF IInv, Endings
  <2>6. Rewritten(c)
    BY <1>3, <2>1, <2>2, <2>3, <2>4, <2>5, SetStatusRewrites
  <2>7. Grows /\ Len(objs') \in Nat /\ Len(objects') \in Nat
    BY <1>1, <2>6, RewriteGrows DEF gate, record
  <2>8. PICK l \in {"drop", "statusDrop"} : Go(t, l)
    BY <1>3
  <2>9. /\ l \in Labels /\ l \notin WithCall /\ l \notin WithSession
    BY DEF Labels, WithCall, WithSession
  <2>10. /\ Only(t) /\ job'[t] = [job[t] EXCEPT !.at = l] /\ job'[t].at = l
    BY <2>8, <2>9, GoIs, Relies DEF Jobs
  <2>11. Sound(job[t])'
    BY <1>2, <2>7, <2>9, <2>10, SoundGo
  <2> QED
    BY <1>1, <1>3, <2>6, <2>10, <2>11, RewriteStep
<1>4. CASE UNCHANGED <<objs, pmu>> /\ (Go(t, "find") \/ Return(t))
  <2>1. Quiet
    BY <1>1, <1>4 DEF Quiet, Unseen, gate, intake, record
  <2>2. Only(t) /\ job'[t].at \in {"idle", "find"} /\ Sound(job[t])'
    <3>1. CASE Return(t)
      BY <2>1, <3>1, ReturnIs, UnseenGrows DEF Quiet
    <3>2. CASE Go(t, "find")
      <4>1. "find" \in Labels /\ "find" \notin WithCall /\ "find" \notin WithSession
        BY DEF Labels, WithCall, WithSession
      <4>2. /\ Only(t) /\ job'[t] = [job[t] EXCEPT !.at = "find"]
            /\ job'[t].at = "find"
        BY <3>2, <4>1, GoIs, Relies DEF Jobs
      <4> QED
        BY <1>2, <2>1, <4>1, <4>2, SoundGo, UnseenGrows DEF Quiet
    <3> QED
      BY <1>4, <3>1, <3>2
  <2>3. Counters'
    BY <2>1, QuietRest DEF Quiet, Unseen
  <2> QED
    BY <1>1, <2>1, <2>2, <2>3, MoveStep DEF Quiet
<1> QED
  BY <1>3, <1>4 DEF Calls, ApplyEvent
-----------------------------------------------------------------------------
(* Steps that change the map of calls.                                     *)

\* Calls are only taken out.
LEMMA DelistStep ==
  ASSUME IInv, NEW t \in Threads, Only(t), Sound(job[t])',
         calls' \in [Ids -> Nat],
         \A id \in Ids : calls'[id] = calls[id] \/ calls'[id] = 0,
         UNCHANGED <<telnyx, objs, dtmf, hangups, gate, intake, record>>,
         pmu' \in {{}} \cup {{u} : u \in Threads},
         job[t].at # "decide", job'[t].at \notin {"dialled", "dtmf"}
  PROVE  IInv'
<1>0. UNCHANGED <<tel, emitted, streamed, objs, dtmf, hangups, sessions,
                  objects, gmu, delivered, ops, serving, returned, agreed,
                  handled>>
  BY DEF telnyx, gate, intake, record
<1>1. Stores' /\ Counters'
  BY <1>0 DEF IInv, Stores, Counters
<1>2. Goroutines'
  BY <1>0, Types, GoroutinesKept DEF Grows
<1>3. Filed'
  <2>1. Len(objs) \in Nat
    BY Types
  <2> QED
    BY <1>0, <2>1 DEF IInv, Filed
<1>4. \A u \in Threads \ {t} : job'[u] = job[u]
  BY Types DEF Only
<1>5. DigitsInOnePlace'
  <2>1. \A id \in Ids, u \in Threads : Carries(u, id)' => Carries(u, id)
    BY <1>4 DEF Carries
  <2>2. \A id \in Ids, c \in DOMAIN objs : Keeps(c, id)' => Keeps(c, id)
    BY <1>0 DEF Keeps
  <2> QED
    BY <1>0, <2>1, <2>2, DigitsKept
<1>6. Endings'
  BY <1>0, EndingsKept
<1>7. Consent'
  <2>1. \A u \in Threads : At(u, "decide") => At(u, "decide")' /\ job'[u] = job[u]
    BY <1>4 DEF At
  <2> QED
    BY <1>0, <2>1, ConsentKept
<1> QED
  BY <1>1, <1>2, <1>3, <1>5, <1>6, <1>7 DEF IInv

LEMMA DropIfEndedInv ==
  ASSUME IInv, NEW t \in Threads,
         \/ Calls(DropIfEnded(t, "drop", Go(t, "find")))
         \/ Calls(DropIfEnded(t, "statusDrop", Return(t)))
  PROVE  IInv'
<1>1. /\ job[t].at \in {"drop", "statusDrop"} /\ pmu' = {}
      /\ Go(t, "find") \/ Return(t)
      /\ UNCHANGED <<telnyx, objs, dtmf, hangups, gate, intake, record>>
      /\ calls' = calls \/ calls' = [calls EXCEPT ![job[t].id] = 0]
  BY DEF Calls, DropIfEnded, At, history
<1>2. job[t].id \in Ids /\ job[t].at \in OnWebhook
  BY <1>1, Relies DEF Sound, OnWebhook
<1>3. /\ calls' \in [Ids -> Nat]
      /\ \A id \in Ids : calls'[id] = calls[id] \/ calls'[id] = 0
  <2>1. calls \in [Ids -> Nat]
    BY DEF IInv, Stores
  <2>2. calls' = calls \/ calls' = [calls EXCEPT ![job[t].id] = 0]
    BY <1>1
  <2> QED
    BY <2>1, <2>2
<1>4. Grows /\ Len(objs') \in Nat /\ Len(objects') \in Nat
  BY <1>1, Types DEF Grows, telnyx, gate, record
<1>5. Only(t) /\ job'[t].at \in {"idle", "find"} /\ Sound(job[t])'
  <2>1. CASE Return(t)
    BY <1>4, <2>1, ReturnIs
  <2>2. CASE Go(t, "find")
    <3>1. "find" \in Labels /\ "find" \notin WithCall /\ "find" \notin WithSession
      BY DEF Labels, WithCall, WithSession
    <3>2. /\ Only(t) /\ job'[t] = [job[t] EXCEPT !.at = "find"]
          /\ job'[t].at = "find"
      BY <2>2, <3>1, GoIs, Relies DEF Jobs
    <3> QED
      BY <1>2, <1>4, <3>1, <3>2, SoundGo
  <2> QED
    BY <1>1, <2>1, <2>2
<1> QED
  BY <1>1, <1>3, <1>5, DelistStep

LEMMA ShutdownForgetsInv ==
  ASSUME IInv, NEW t \in Threads, Calls(ShutdownForgets(t))  PROVE  IInv'
<1>1. /\ job[t].at = "forget" /\ Go(t, "shutdown")
      /\ calls' = [calls EXCEPT ![job[t].id] = 0]
      /\ UNCHANGED <<telnyx, objs, pmu, dtmf, hangups, gate, intake, record>>
  BY DEF Calls, ShutdownForgets, At, history
<1>2. /\ calls' \in [Ids -> Nat]
      /\ \A id \in Ids : calls'[id] = calls[id] \/ calls'[id] = 0
  BY <1>1 DEF IInv, Stores
<1>3. Grows /\ Len(objs') \in Nat /\ Len(objects') \in Nat
  BY <1>1, Types DEF Grows, telnyx, gate, record
<1>4. "shutdown" \in Labels /\ "shutdown" \notin OnWebhook
      /\ "shutdown" \notin WithCall /\ "shutdown" \notin WithSession
  BY DEF Labels, OnWebhook, WithCall, WithSession
<1>5. /\ Only(t) /\ job'[t] = [job[t] EXCEPT !.at = "shutdown"]
      /\ job'[t].at = "shutdown"
  BY <1>1, <1>4, GoIs, Relies DEF Jobs
<1>6. Sound(job[t])'
  BY <1>3, <1>4, <1>5, SoundGo
<1> QED
  BY <1>1, <1>2, <1>5, <1>6, Rest, DelistStep

\* A Call is registered: digits come into it only from the goroutine that has
\* dialled the call.
LEMMA RegisterStep ==
  ASSUME IInv, NEW t \in Threads, Only(t), Sound(job[t])',
         NEW id \in Ids, NEW d \in BOOLEAN, Register(t, NewCall(id, d)),
         UNCHANGED <<telnyx, dtmf, hangups, gate, intake, record>>,
         job[t].at # "decide", job'[t].at \notin {"dialled", "dtmf"},
         d => Carries(t, id),
         id \in Inbound => id \in agreed
  PROVE  IInv'
<1> DEFINE n == Len(objs) + 1
           new == NewCall(id, d)
<1>0. UNCHANGED <<tel, emitted, streamed, pmu, dtmf, hangups, sessions,
                  objects, gmu, delivered, ops, serving, returned, agreed,
                  handled>>
  BY DEF telnyx, gate, intake, record, Register
<1>1. /\ objs' = Append(objs, new) /\ calls' = [calls EXCEPT ![id] = n]
      /\ new \in Call /\ new.id = id /\ new.digits = d /\ new.status = "ringing"
  BY DEF Register, NewCall, Call, Statuses
<1> HIDE DEF new
<1>2. /\ objs' \in Seq(Call) /\ Len(objs') = n /\ DOMAIN objs' = 1..n
      /\ objs'[n] = new /\ \A c \in 1..Len(objs) : objs'[c] = objs[c]
  <2>1. /\ objs' \in Seq(Call) /\ Len(objs') = Len(objs) + 1
        /\ \A c \in 1..Len(objs) : objs'[c] = objs[c]
        /\ objs'[Len(objs) + 1] = new
    BY <1>1, Types, AppendProperties
  <2>2. DOMAIN objs' = 1..Len(objs')
    BY <2>1
  <2> QED
    BY <2>1, <2>2
<1>3. n \in Nat /\ n # 0 /\ Len(objs) \in Nat /\ Len(objs) <= n
      /\ (\A c \in 1..n : c \in 1..Len(objs) \/ c = n)
      /\ n \notin 1..Len(objs)
  BY Types
<1> HIDE DEF n
<1>4. Stores' /\ Counters'
  <2>1. calls' \in [Ids -> Nat]
    BY <1>1, <1>3 DEF IInv, Stores
  <2> QED
    BY <1>0, <1>2, <2>1 DEF IInv, Stores, Counters, Call
<1>5. Goroutines'
  BY <1>0, <1>2, <1>3, Types, GoroutinesKept DEF Grows
<1>6. Filed'
  <2> SUFFICES ASSUME NEW i \in Ids
               PROVE  /\ calls'[i] <= Len(objs')
                      /\ calls'[i] # 0 => objs'[calls'[i]].id = i
    BY <1>0 DEF IInv, Filed
  <2>1. CASE i = id
    <3>1. calls'[i] = n
      BY <1>1, <2>1 DEF IInv, Stores
    <3> QED
      BY <1>1, <1>2, <1>3, <2>1, <3>1
  <2>2. CASE i # id
    <3>1. calls'[i] = calls[i] /\ calls[i] \in Nat /\ calls[i] <= Len(objs)
          /\ (calls[i] # 0 => objs[calls[i]].id = i)
      BY <1>1, <2>2 DEF IInv, Stores, Filed
    <3>2. calls[i] # 0 => calls[i] \in 1..Len(objs)
      BY <1>3, <3>1
    <3> QED
      BY <1>2, <1>3, <3>1, <3>2
  <2> QED
    BY <2>1, <2>2
<1>7. \A u \in Threads \ {t} : job'[u] = job[u]
  BY Types DEF Only
<1>8. DigitsInOnePlace'
  <2>1. \A i \in Ids, u \in Threads : Carries(u, i)' => Carries(u, i) /\ u # t
    BY <1>7 DEF Carries
  <2>2. \A i \in Ids, c \in 1..n :
          Keeps(c, i)' => \/ c \in DOMAIN objs /\ Keeps(c, i)
                          \/ c = n /\ i = id /\ Carries(t, id)
    <3> SUFFICES ASSUME NEW i \in Ids, NEW c \in 1..n,
                        objs'[c].digits, objs'[c].id = i
                 PROVE  \/ c \in DOMAIN objs /\ objs[c].digits /\ objs[c].id = i
                        \/ c = n /\ i = id /\ Carries(t, id)
      BY DEF Keeps
    <3>1. CASE c = n
      BY <1>1, <1>2, <3>1
    <3>2. CASE c \in 1..Len(objs)
      BY <1>2, <3>2, Types DEF Keeps
    <3> QED
      BY <1>3, <3>1, <3>2
  <2>3. DOMAIN objs' = 1..n /\ UNCHANGED <<dtmf, tel>> /\ n \notin DOMAIN objs
    BY <1>0, <1>2, <1>3, Types
  <2> QED
    BY <2>1, <2>2, <2>3 DEF IInv, DigitsInOnePlace
<1>9. Endings'
  <2>1. "ringing" # "ended"
    OBVIOUS
  <2> QED
    BY <1>0, <1>1, <1>2, <1>3, <2>1, Types, EndingsKept
<1>10. Consent'
  <2>1. \A u \in Threads : At(u, "decide") => At(u, "decide")' /\ job'[u] = job[u]
    BY <1>7 DEF At
  <2> QED
    BY <1>0, <1>1, <1>2, <1>3, <2>1, Types, ConsentKept
<1> QED
  BY <1>4, <1>5, <1>6, <1>8, <1>9, <1>10 DEF IInv

LEMMA RegisterGrows ==
  ASSUME IInv, NEW call \in Call, NEW t \in Threads, Register(t, call),
         UNCHANGED <<telnyx, gate, record>>
  PROVE  /\ Grows /\ Len(objs') = Len(objs) + 1 /\ Len(objs') \in Nat
         /\ Len(objects') \in Nat /\ objs'[Len(objs) + 1] = call
<1>1. objs' = Append(objs, call)
  BY DEF Register
<1>2. /\ Len(objs') = Len(objs) + 1 /\ objs'[Len(objs) + 1] = call
      /\ \A c \in 1..Len(objs) : objs'[c] = objs[c]
  BY <1>1, Types, AppendProperties
<1> QED
  BY <1>2, Types DEF Grows, telnyx, gate, record

LEMMA RegisterInboundInv ==
  ASSUME IInv, NEW t \in Threads, Calls(RegisterInbound(t))  PROVE  IInv'
<1> DEFINE id == job[t].id
           n == Len(objs) + 1
<1>1. /\ job[t].at = "register" /\ Register(t, NewCall(id, FALSE))
      /\ \/ job' = [job EXCEPT ![t].at = "answer", ![t].call = n]
         \/ Return(t)
      /\ UNCHANGED <<telnyx, dtmf, hangups, gate, intake, record>>
  BY DEF Calls, RegisterInbound, At, history
<1>2. /\ id \in Ids /\ (id \in Inbound => id \in agreed)
      /\ job[t].ev \in EventTypes /\ <<job[t].ev, id>> \in emitted
      /\ job[t].sess <= Len(objects)
  BY <1>1, Relies DEF Sound, OnWebhook
<1>3. NewCall(id, FALSE) \in Call /\ NewCall(id, FALSE).id = id
  BY <1>2 DEF NewCall, Call, Statuses
<1>4. /\ Grows /\ Len(objs') = n /\ n \in Nat /\ n # 0 /\ n <= n
      /\ Len(objects') \in Nat /\ objs'[n].id = id
  <2>1. n \in Nat /\ n # 0 /\ n <= n
    BY Types
  <2> QED
    BY <1>1, <1>3, <2>1, RegisterGrows
<1>5. Only(t) /\ job'[t].at \in {"idle", "answer"} /\ Sound(job[t])'
  <2>1. CASE Return(t)
    BY <1>4, <2>1, ReturnIs
  <2>2. CASE job' = [job EXCEPT ![t].at = "answer", ![t].call = n]
    <3>1. job'[t] = [job[t] EXCEPT !.at = "answer", !.call = n] /\ Only(t)
      BY <2>2, Types DEF Only
    <3>2. "answer" \in Labels /\ job[t] \in Jobs
      BY Types DEF Labels
    <3>3. /\ job'[t] \in Jobs /\ job'[t].at = "answer" /\ job'[t].call = n
          /\ job'[t].id = id /\ job'[t].ev = job[t].ev /\ job'[t].sess = job[t].sess
      BY <1>4, <3>1, <3>2 DEF Jobs
    <3>4. "answer" \notin WithSession
      BY DEF WithSession
    <3>5. /\ <<job[t].ev, id>> \in emitted' /\ job[t].sess <= Len(objects')
      BY <1>1, <1>2 DEF telnyx, gate
    <3> QED
      BY <1>2, <1>4, <3>1, <3>3, <3>4, <3>5 DEF Sound
  <2> QED
    BY <1>1, <2>1, <2>2
<1> QED
  BY <1>1, <1>2, <1>5, RegisterStep

LEMMA RegisterOutboundInv ==
  ASSUME IInv, NEW t \in Threads, Calls(RegisterOutbound(t, "registered"))
  PROVE  IInv'
<1> DEFINE id == job[t].id
<1>1. /\ job[t].at = "dialled" /\ Register(t, NewCall(id, TRUE))
      /\ Go(t, "registered")
      /\ UNCHANGED <<telnyx, dtmf, hangups, gate, intake, record>>
  BY DEF Calls, RegisterOutbound, At, history
<1>2. id \in Outbound /\ id \in Ids /\ id \notin Inbound
  BY <1>1, Relies, DisjointIds DEF Sound, Ids
<1>3. NewCall(id, TRUE) \in Call
  BY <1>2 DEF NewCall, Call, Statuses
<1>4. /\ "registered" \in Labels /\ "registered" \notin OnWebhook
      /\ "registered" \notin WithCall /\ "registered" \notin WithSession
  BY DEF Labels, OnWebhook, WithCall, WithSession
<1>5. /\ Only(t) /\ job'[t] = [job[t] EXCEPT !.at = "registered"]
      /\ job'[t].at = "registered"
  BY <1>1, <1>4, GoIs, Relies DEF Jobs
<1>6. Sound(job[t])'
  BY <1>1, <1>2, <1>3, <1>4, <1>5, RegisterGrows, SoundGo
<1>7. Carries(t, id)
  BY <1>1 DEF Carries
<1> QED
  BY <1>1, <1>2, <1>5, <1>6, <1>7, RegisterStep
-----------------------------------------------------------------------------
(* The digits.                                                             *)

\* SendPendingDigits takes them from the Call.
LEMMA TakeDigitsInv ==
  ASSUME IInv, NEW t \in Threads, Calls(TakeDigits(t))  PROVE  IInv'
<1> DEFINE id == job[t].id
           k == job[t].call
<1>1. /\ job[t].at = "digits"
      /\ Go(t, IF objs[k].digits THEN "dtmf" ELSE "stream")
      /\ objs' = [objs EXCEPT ![k].digits = FALSE]
      /\ UNCHANGED <<telnyx, calls, pmu, dtmf, hangups, gate, intake, record>>
  BY DEF Calls, TakeDigits, At, history
<1>2. k \in 1..Len(objs) /\ id \in Ids /\ objs[k].id = id /\ objs[k] \in Call
  BY <1>1, HeldCall, Types DEF WithCall
<1>3. Rewritten(k) /\ ~objs'[k].digits
  <2>1. objs' = [objs EXCEPT ![k] = [id |-> id, status |-> objs[k].status,
                                   digits |-> FALSE]]
    <3>1. [objs[k] EXCEPT !.digits = FALSE]
            = [id |-> id, status |-> objs[k].status, digits |-> FALSE]
      <4>1. \A r \in Call, b \in BOOLEAN :
              [r EXCEPT !.digits = b] = [id |-> r.id, status |-> r.status, digits |-> b]
        BY DEF Call
      <4> HIDE DEF id, k
      <4> QED
        BY <1>2, <4>1
    <3>2. objs' = [objs EXCEPT ![k] = [objs[k] EXCEPT !.digits = FALSE]]
      BY <1>1
    <3> QED
      BY <3>1, <3>2
  <2>2. objs[k].status \in Statuses
    BY <1>2 DEF Call
  <2>3. Rewritten(k)
    BY <1>2, <2>1, <2>2 DEF Rewritten
  <2>4. objs'[k] = [id |-> id, status |-> objs[k].status, digits |-> FALSE]
    BY <1>2, <2>1, Types
  <2> QED
    BY <2>3, <2>4
<1>4. PICK l \in {"dtmf", "stream"} :
        Go(t, l) /\ (l = "dtmf" => objs[k].digits)
  BY <1>1
<1>5. /\ l \in Labels /\ l \in OnWebhook /\ l \in WithCall /\ l \notin WithSession
      /\ job[t].at \in OnWebhook /\ job[t].at \in WithCall
  BY <1>1 DEF Labels, OnWebhook, WithCall, WithSession
<1>6. /\ Only(t) /\ job'[t] = [job[t] EXCEPT !.at = l] /\ job'[t].at = l
      /\ job'[t].id = id
  BY <1>4, <1>5, GoIs, Relies DEF Jobs
<1>7. Sound(job[t])'
  <2>1. Grows /\ Len(objs') \in Nat /\ Len(objects') \in Nat
    BY <1>1, <1>3, RewriteGrows DEF gate, record
  <2> QED
    BY <1>2, <1>5, <1>6, <2>1, SoundGo
<1>8. CASE l = "stream"
  BY <1>1, <1>3, <1>6, <1>7, <1>8, Rest, RewriteStep
<1>9. CASE l = "dtmf"
  <2>0. UNCHANGED <<tel, emitted, streamed, calls, pmu, dtmf, hangups, sessions,
                    objects, gmu, delivered, ops, serving, returned, agreed,
                    handled>>
    BY <1>1 DEF telnyx, gate, intake, record
  <2>1. Stores' /\ Counters'
    BY <1>3, <2>0, RewrittenCalls DEF IInv, Stores, Counters, Call
  <2>2. Goroutines'
    <3>1. Grows /\ Len(objs') \in Nat /\ Len(objects') \in Nat
      BY <1>1, <1>3, RewriteGrows DEF gate, record
    <3> QED
      BY <1>6, <1>7, <3>1, GoroutinesKept
  <2>3. Filed'
    <3>1. \A i \in Ids : calls[i] # 0 => calls[i] \in 1..Len(objs)
      BY Types DEF IInv, Stores, Filed
    <3> QED
      BY <1>3, <2>0, <3>1, RewrittenCalls DEF IInv, Filed
  <2>4. \A u \in Threads \ {t} : job'[u] = job[u]
    BY <1>6, Types DEF Only
  <2>5. Endings'
    BY <1>3, <2>0, RewrittenCalls, Types, EndingsKept
  <2>6. Consent'
    <3>1. \A u \in Threads : At(u, "decide") => At(u, "decide")' /\ job'[u] = job[u]
      BY <1>1, <2>4 DEF At
    <3> QED
      BY <1>3, <2>0, <3>1, RewrittenCalls, Types, ConsentKept
  <2>7. DigitsInOnePlace'
    <3>1. Keeps(k, id)
      BY <1>2, <1>4, <1>9 DEF Keeps
    <3>2. \A i \in Ids, u \in Threads :
            Carries(u, i)' => Carries(u, i) \/ (u = t /\ i = id)
      BY <1>6, <2>4 DEF Carries
    <3>3. \A i \in Ids, c \in DOMAIN objs' :
            Keeps(c, i)' => c \in DOMAIN objs /\ Keeps(c, i) /\ c # k
      BY <1>3, RewrittenCalls, Types DEF Keeps
    <3>4. k \in DOMAIN objs /\ UNCHANGED <<dtmf, tel>>
      BY <1>2, <2>0, Types
    <3>5. \A i \in Ids, c \in DOMAIN objs' :
            Keeps(c, i)' => i # id
      BY <1>2, <3>1, <3>3, <3>4 DEF IInv, DigitsInOnePlace
    <3> QED
      BY <1>2, <3>1, <3>2, <3>3, <3>4, <3>5 DEF IInv, DigitsInOnePlace
  <2> QED
    BY <2>1, <2>2, <2>3, <2>5, <2>6, <2>7 DEF IInv
<1> QED
  BY <1>8, <1>9

\* The one request that enters them.
LEMMA SendDtmfInv ==
  ASSUME IInv, NEW t \in Threads, Calls(SendDtmf(t))  PROVE  IInv'
<1> DEFINE id == job[t].id
<1>1. /\ job[t].at = "dtmf" /\ Go(t, "stream")
      /\ dtmf' = [dtmf EXCEPT ![id] = @ + 1]
      /\ UNCHANGED <<telnyx, calls, objs, pmu, hangups, gate, intake, record>>
  BY DEF Calls, SendDtmf, At, registry
<1>0. UNCHANGED <<tel, emitted, streamed, calls, objs, pmu, hangups, sessions,
                  objects, gmu, delivered, ops, serving, returned, agreed,
                  handled>>
  BY <1>1 DEF telnyx, gate, intake, record
<1>2. id \in Ids /\ Carries(t, id) /\ dtmf[id] = 0
  <2>1. id \in Ids /\ Carries(t, id)
    BY <1>1, Relies DEF Sound, Carries
  <2> QED
    BY <2>1 DEF IInv, DigitsInOnePlace
<1>3. Stores' /\ Counters'
  <2>1. dtmf' \in [Ids -> Nat]
    BY <1>1, <1>2 DEF IInv, Stores
  <2> QED
    BY <1>0, <2>1 DEF IInv, Stores, Counters
<1>4. /\ "stream" \in Labels /\ "stream" \in OnWebhook /\ "stream" \in WithCall
      /\ "stream" \notin WithSession
      /\ job[t].at \in OnWebhook /\ job[t].at \in WithCall
  BY <1>1 DEF Labels, OnWebhook, WithCall, WithSession
<1>5. /\ Only(t) /\ job'[t] = [job[t] EXCEPT !.at = "stream"]
      /\ job'[t].at = "stream"
  BY <1>1, <1>4, GoIs, Relies DEF Jobs
<1>6. Grows /\ Len(objs') \in Nat /\ Len(objects') \in Nat
  BY <1>0, Types DEF Grows
<1>7. Goroutines'
  BY <1>2, <1>4, <1>5, <1>6, SoundGo, GoroutinesKept
<1>8. Filed'
  BY <1>0 DEF IInv, Filed
<1>9. \A u \in Threads \ {t} : job'[u] = job[u]
  BY <1>5, Types DEF Only
<1>10. DigitsInOnePlace'
  <2>1. \A i \in Ids, u \in Threads : Carries(u, i)' => Carries(u, i) /\ u # t
    BY <1>5, <1>9 DEF Carries
  <2>2. \A i \in Ids, c \in DOMAIN objs : Keeps(c, i)' => Keeps(c, i)
    BY <1>0 DEF Keeps
  <2>3. /\ dtmf'[id] = 1 /\ \A i \in Ids \ {id} : dtmf'[i] = dtmf[i]
    BY <1>1, <1>2 DEF IInv, Stores
  <2>4. tel[id] # "none"
    BY <1>2 DEF IInv, DigitsInOnePlace
  <2> QED
    BY <1>0, <1>2, <2>1, <2>2, <2>3, <2>4 DEF IInv, DigitsInOnePlace
<1>11. Endings'
  BY <1>0, EndingsKept
<1>12. Consent'
  <2>1. \A u \in Threads : At(u, "decide") => At(u, "decide")' /\ job'[u] = job[u]
    BY <1>1, <1>9 DEF At
  <2> QED
    BY <1>0, <2>1, ConsentKept
<1> QED
  BY <1>3, <1>7, <1>8, <1>10, <1>11, <1>12 DEF IInv
-----------------------------------------------------------------------------
(* Steps of Telnyx, and requests to it.                                    *)

\* What may happen to a call there.
TelMoves ==
  /\ tel' \in [Ids -> {"none", "ringing", "answered", "ended"}]
  /\ emitted' \subseteq EventTypes \X Ids /\ emitted \subseteq emitted'
  /\ streamed' \in [Ids -> {"no", "started", "open", "over"}]
  /\ \A id \in Ids :
       /\ tel[id] = "ended" => tel'[id] = "ended"
       /\ tel'[id] = "none" => tel[id] = "none"
       /\ <<"call.hangup", id>> \in emitted' =>
            <<"call.hangup", id>> \in emitted \/ tel'[id] = "ended"
       /\ id \in Inbound /\ tel'[id] = "answered" =>
            tel[id] = "answered" \/ id \in agreed
       /\ id \in Inbound /\ streamed[id] = "no" =>
            streamed'[id] = "no" \/ id \in agreed

LEMMA BecomesMoves ==
  ASSUME IInv, NEW id \in Ids, NEW state \in {"ringing", "answered", "ended"},
         NEW type \in EventTypes, Becomes(id, state, type),
         tel[id] # "ended" \/ state = "ended",
         type = "call.hangup" => state = "ended",
         state = "answered" /\ id \in Inbound => id \in agreed
  PROVE  TelMoves /\ tel'[id] = state /\ <<type, id>> \in emitted'
<1>1. /\ tel' = [tel EXCEPT ![id] = state] /\ emitted' = emitted \cup {<<type, id>>}
      /\ streamed' = streamed
  BY DEF Becomes
<1>2. /\ tel \in [Ids -> {"none", "ringing", "answered", "ended"}]
      /\ emitted \subseteq EventTypes \X Ids
      /\ streamed \in [Ids -> {"no", "started", "open", "over"}]
  BY DEF IInv, Stores
<1>3. \A i \in Ids : tel'[i] = IF i = id THEN state ELSE tel[i]
  BY <1>1, <1>2
<1>4. \A i \in Ids : <<"call.hangup", i>> \in emitted' =>
        <<"call.hangup", i>> \in emitted \/ tel'[i] = "ended"
  BY <1>1, <1>3
<1> QED
  BY <1>1, <1>2, <1>3, <1>4 DEF TelMoves

LEMMA TelGrows ==
  ASSUME IInv, TelMoves, UNCHANGED <<objs, objects, agreed>>
  PROVE  Grows /\ Len(objs') \in Nat /\ Len(objects') \in Nat
<1>1. Len(objs) <= Len(objs') /\ Len(objects) <= Len(objects')
  BY Types
<1> QED
  BY <1>1, Types DEF Grows, TelMoves

LEMMA TelStep ==
  ASSUME IInv, TelMoves, Goroutines', DigitsInOnePlace',
         \A u \in Threads : At(u, "decide") => At(u, "decide")' /\ job'[u].id = job[u].id,
         UNCHANGED <<registry, gate, returned, agreed>>, hangups' \subseteq Ids,
         dtmf' = dtmf, Counters'
  PROVE  IInv'
<1>0. UNCHANGED <<calls, objs, pmu, sessions, objects, gmu, returned, agreed>>
  BY DEF registry, gate
<1>1. Stores'
  BY <1>0 DEF IInv, Stores, TelMoves
<1>2. Filed'
  BY <1>0 DEF IInv, Filed
<1>3. Endings'
  BY <1>0, EndingsKept DEF TelMoves
<1>4. Consent'
  <2>1. \A id \in Inbound : id \in Ids
    BY DEF Ids
  <2> QED
    BY <1>0, <2>1, ConsentKept DEF TelMoves
<1> QED
  BY <1>1, <1>2, <1>3, <1>4 DEF IInv

\* The same when the goroutine that has made the request moves.
LEMMA RequestStep ==
  ASSUME IInv, TelMoves, NEW t \in Threads, Only(t), Sound(job[t])',
         UNCHANGED <<registry, dtmf, gate, returned, agreed>>,
         hangups' \subseteq Ids, Counters',
         job[t].at # "decide", job'[t].at \notin {"dialled", "dtmf"}
  PROVE  IInv'
<1>1. UNCHANGED <<objs, objects>>
  BY DEF registry, gate
<1>2. Goroutines'
  BY <1>1, TelGrows, GoroutinesKept
<1>3. \A u \in Threads \ {t} : job'[u] = job[u]
  BY Types DEF Only
<1>4. DigitsInOnePlace'
  <2>1. \A id \in Ids, u \in Threads : Carries(u, id)' => Carries(u, id)
    BY <1>3 DEF Carries
  <2>2. \A id \in Ids, c \in DOMAIN objs : Keeps(c, id)' => Keeps(c, id)
    BY <1>1 DEF Keeps
  <2> QED
    BY <1>1, <2>1, <2>2, DigitsKept DEF TelMoves
<1>5. \A u \in Threads : At(u, "decide") => At(u, "decide")' /\ job'[u].id = job[u].id
  BY <1>3 DEF At
<1> QED
  BY <1>2, <1>4, <1>5, TelStep

\* The same when no goroutine moves.
LEMMA TelnyxStep ==
  ASSUME IInv, TelMoves, Counters',
         UNCHANGED <<registry, job, history, gate, returned, agreed>>
  PROVE  IInv'
<1>1. UNCHANGED <<calls, objs, pmu, job, dtmf, hangups, objects>>
  BY DEF registry, history, gate
<1>2. Goroutines'
  BY <1>1, TelGrows, GoroutinesStay
<1>3. DigitsInOnePlace'
  <2>1. \A id \in Ids, u \in Threads : Carries(u, id)' => Carries(u, id)
    BY <1>1 DEF Carries
  <2>2. \A id \in Ids, c \in DOMAIN objs : Keeps(c, id)' => Keeps(c, id)
    BY <1>1 DEF Keeps
  <2> QED
    BY <1>1, <2>1, <2>2, DigitsKept DEF TelMoves
<1>4. hangups' \subseteq Ids
  BY <1>1 DEF IInv, Stores
<1>5. \A u \in Threads : At(u, "decide") => At(u, "decide")' /\ job'[u].id = job[u].id
  BY <1>1 DEF At
<1> QED
  BY <1>1, <1>2, <1>3, <1>4, <1>5, TelStep

LEMMA TelnyxInv ==
  ASSUME IInv, Telnyx, UNCHANGED <<gate, intake, record>>  PROVE  IInv'
<1>1. UNCHANGED <<registry, job, history, agreed, returned, gmu, delivered, ops,
                  serving, handled>>
  BY DEF Telnyx, gate, intake, record
<1>2. TelMoves
  <2>1. PICK id \in Ids : Offered(id) \/ PickedUp(id) \/ HungUp(id)
    BY DEF Telnyx
  <2>2. CASE Offered(id)
    BY <2>2, BecomesMoves DEF Offered, EventTypes
  <2>3. CASE PickedUp(id)
    <3>1. id \notin Inbound
      BY <2>3, DisjointIds DEF PickedUp
    <3> QED
      BY <2>3, <3>1, BecomesMoves DEF PickedUp, EventTypes
  <2>4. CASE HungUp(id)
    BY <2>4, BecomesMoves DEF HungUp, EventTypes
  <2> QED
    BY <2>1, <2>2, <2>3, <2>4
<1>3. Counters'
  BY <1>1 DEF IInv, Counters
<1> QED
  BY <1>1, <1>2, <1>3, TelnyxStep

\* A media stream breaks.
LEMMA StreamBreaksInv ==
  ASSUME IInv, NEW id \in Ids, StreamBreaks(id)  PROVE  IInv'
<1>1. /\ streamed[id] = "open" /\ streamed' = [streamed EXCEPT ![id] = "over"]
      /\ UNCHANGED <<tel, emitted, registry, job, history, gate, agreed, returned,
                     gmu, delivered, ops, serving, handled>>
  BY DEF StreamBreaks, gate, intake, record
<1>2. TelMoves
  BY <1>1 DEF IInv, Stores, TelMoves
<1>3. Counters'
  BY <1>1 DEF IInv, Counters
<1> QED
  BY <1>1, <1>2, <1>3, TelnyxStep

LEMMA TelStays ==
  ASSUME IInv, UNCHANGED telnyx  PROVE TelMoves
<1>1. UNCHANGED <<tel, emitted, streamed>>
  BY DEF telnyx
<1> QED
  BY <1>1 DEF IInv, Stores, TelMoves

\* The three callers of Call.Hangup: where they go on when it has succeeded
\* and when it has failed.
LEMMA RequestHangupInv ==
  ASSUME IInv, NEW t \in Threads,
         \/ Calls(RequestHangup(t, "refuse", Go(t, "refused"), Return(t)))
         \/ Calls(RequestHangup(t, "hangup", Go(t, "close"), Return(t)))
         \/ Calls(RequestHangup(t, "hanging", Go(t, "hung"), Go(t, "forget")))
  PROVE  IInv'
<1> DEFINE id == job[t].id
<1>1. /\ job[t].at \in {"refuse", "hangup", "hanging"}
      /\ hangups' = hangups \cup {id}
      /\ HungUp(id) \/ UNCHANGED telnyx
      /\ UNCHANGED <<registry, dtmf, gate, intake, record>>
  BY DEF Calls, RequestHangup, At
<1>2. id \in Ids
  BY <1>1, Relies DEF Sound
<1>3. TelMoves /\ (HungUp(id) => tel'[id] = "ended")
  <2>1. CASE HungUp(id)
    BY <1>2, <2>1, BecomesMoves DEF HungUp, EventTypes
  <2>2. CASE UNCHANGED telnyx
    <3>1. HungUp(id) => tel'[id] = "ended"
      BY <1>2 DEF HungUp, Becomes, IInv, Stores
    <3> QED
      BY <2>2, <3>1, TelStays
  <2> QED
    BY <1>1, <2>1, <2>2
<1>4. Grows /\ Len(objs') \in Nat /\ Len(objects') \in Nat
  BY <1>1, <1>3, TelGrows DEF registry, gate, record
<1>5. \/ Return(t)
      \/ Go(t, "refused") /\ job[t].at = "refuse" /\ HungUp(id)
      \/ Go(t, "close") /\ job[t].at = "hangup"
      \/ Go(t, "hung") /\ job[t].at = "hanging" /\ HungUp(id)
      \/ Go(t, "forget")
  BY DEF Calls, RequestHangup, At
<1>6. Only(t) /\ job'[t].at \notin {"dialled", "dtmf"} /\ Sound(job[t])'
  <2>1. CASE Return(t)
    BY <1>4, <2>1, ReturnIs
  <2>2. ASSUME NEW l \in {"refused", "close", "hung", "forget"}, Go(t, l)
        PROVE  /\ Only(t) /\ job'[t] = [job[t] EXCEPT !.at = l] /\ l \in Labels
               /\ job'[t].at \notin {"dialled", "dtmf"}
    <3>1. l \in Labels
      BY DEF Labels
    <3>2. Only(t) /\ job'[t] = [job[t] EXCEPT !.at = l] /\ job'[t].at = l
      BY <2>2, <3>1, GoIs, Relies DEF Jobs
    <3> QED
      BY <3>1, <3>2
  <2>3. CASE Go(t, "refused") /\ job[t].at = "refuse" /\ HungUp(id)
    <3>1. /\ job[t].at \in OnWebhook /\ job[t].at \in WithCall
          /\ "refused" \notin WithSession
      BY <2>3 DEF OnWebhook, WithCall, WithSession
    <3> QED
      BY <1>2, <1>3, <1>4, <2>2, <2>3, <3>1, SoundGo
  <2>4. CASE Go(t, "close") /\ job[t].at = "hangup"
    <3>1. /\ "close" \notin OnWebhook /\ "close" \notin WithCall
          /\ job[t].at \in WithSession
      BY <2>4 DEF OnWebhook, WithCall, WithSession
    <3> QED
      BY <1>2, <1>4, <2>2, <2>4, <3>1, SoundGo
  <2>5. CASE Go(t, "hung") /\ job[t].at = "hanging" /\ HungUp(id)
    <3>1. /\ "hung" \notin OnWebhook /\ job[t].at \in WithCall
          /\ "hung" \notin WithSession
      BY <2>5 DEF OnWebhook, WithCall, WithSession
    <3> QED
      BY <1>2, <1>3, <1>4, <2>2, <2>5, <3>1, SoundGo
  <2>6. CASE Go(t, "forget")
    <3>1. /\ "forget" \notin OnWebhook /\ "forget" \notin WithCall
          /\ "forget" \notin WithSession
      BY DEF OnWebhook, WithCall, WithSession
    <3> QED
      BY <1>2, <1>4, <2>2, <2>6, <3>1, SoundGo
  <2> QED
    BY <1>5, <2>1, <2>3, <2>4, <2>5, <2>6
<1>7. hangups' \subseteq Ids
  BY <1>1, <1>2, Rest
<1>8. Counters' /\ UNCHANGED <<returned, agreed>>
  BY <1>1 DEF IInv, Counters, gate, intake, record
<1> QED
  BY <1>1, <1>3, <1>6, <1>7, <1>8, RequestStep

\* Answer: only a call the application has agreed to has a Call to answer.
LEMMA RequestAnswerInv ==
  ASSUME IInv, NEW t \in Threads, Calls(RequestAnswer(t))  PROVE  IInv'
<1> DEFINE id == job[t].id
<1>1. /\ job[t].at = "answer"
      /\ \/ /\ tel[id] = "ringing" /\ Becomes(id, "answered", "call.answered")
            /\ Go(t, "answered") \/ Return(t)
         \/ UNCHANGED telnyx /\ Return(t)
      /\ UNCHANGED <<registry, dtmf, hangups, gate, intake, record>>
  BY DEF Calls, RequestAnswer, At, history
<1>2. id \in Ids /\ (id \in Inbound => id \in agreed)
  <2>1. /\ job[t].call \in 1..Len(objs) /\ id \in Ids /\ objs[job[t].call].id = id
    BY <1>1, HeldCall DEF WithCall
  <2> QED
    BY <2>1, Types DEF IInv, Consent
<1>3. TelMoves
  <2>1. CASE tel[id] = "ringing" /\ Becomes(id, "answered", "call.answered")
    BY <1>2, <2>1, BecomesMoves DEF EventTypes
  <2> QED
    BY <1>1, <2>1, TelStays
<1>4. Grows /\ Len(objs') \in Nat /\ Len(objects') \in Nat
  BY <1>1, <1>3, TelGrows DEF registry, gate, record
<1>5. Only(t) /\ job'[t].at \notin {"dialled", "dtmf"} /\ Sound(job[t])'
  <2>1. CASE Return(t)
    BY <1>4, <2>1, ReturnIs
  <2>2. CASE Go(t, "answered")
    <3>1. /\ "answered" \in Labels /\ job[t].at \in OnWebhook
          /\ job[t].at \in WithCall /\ "answered" \notin WithSession
      BY <1>1 DEF Labels, OnWebhook, WithCall, WithSession
    <3>2. /\ Only(t) /\ job'[t] = [job[t] EXCEPT !.at = "answered"]
          /\ job'[t].at = "answered"
      BY <2>2, <3>1, GoIs, Relies DEF Jobs
    <3> QED
      BY <1>2, <1>4, <3>1, <3>2, SoundGo
  <2> QED
    BY <1>1, <2>1, <2>2
<1>6. Counters' /\ UNCHANGED <<returned, agreed>>
  BY <1>1 DEF IInv, Counters, gate, intake, record
<1> QED
  BY <1>1, <1>3, <1>5, <1>6, Rest, RequestStep

\* StartMediaStreaming, on a Call.
LEMMA StartStreamingInv ==
  ASSUME IInv, NEW t \in Threads, StartStreaming(t), HandledOK(t),
         UNCHANGED <<gate, intake, returned, agreed>>
  PROVE  IInv'
<1> DEFINE id == job[t].id
<1>1. /\ job[t].at = "stream" /\ Return(t)
      /\ \/ /\ streamed' = [streamed EXCEPT ![id] = "started"]
            /\ UNCHANGED <<tel, emitted>>
         \/ UNCHANGED telnyx
      /\ UNCHANGED <<registry, dtmf, hangups, gate, intake, returned, agreed>>
  BY DEF StartStreaming, At, history
<1>2. id \in Ids /\ (id \in Inbound => id \in agreed)
  <2>1. /\ job[t].call \in 1..Len(objs) /\ id \in Ids /\ objs[job[t].call].id = id
    BY <1>1, HeldCall DEF WithCall
  <2> QED
    BY <2>1, Types DEF IInv, Consent
<1>3. TelMoves
  <2>1. CASE /\ streamed' = [streamed EXCEPT ![id] = "started"]
             /\ UNCHANGED <<tel, emitted>>
    BY <1>2, <2>1 DEF IInv, Stores, TelMoves
  <2> QED
    BY <1>1, <2>1, TelStays
<1>4. Grows /\ Len(objs') \in Nat /\ Len(objects') \in Nat
  BY <1>1, <1>3, TelGrows DEF registry, gate
<1>5. Only(t) /\ job'[t].at = "idle" /\ Sound(job[t])'
  BY <1>1, <1>4, ReturnIs
<1>6. Counters'
  BY <1>1, HandledType DEF OnWebhook, gate, intake
<1> QED
  BY <1>1, <1>3, <1>5, <1>6, Rest, RequestStep

\* Telnyx opens the stream it has been asked for.
LEMMA StreamConnectsInv ==
  ASSUME IInv, NEW t \in Threads, NEW id \in Ids, StreamConnects(t, id)
  PROVE  IInv'
<1>1. /\ job[t].at = "idle" /\ streamed[id] = "started"
      /\ streamed' = [streamed EXCEPT ![id] = "open"]
      /\ job' = [job EXCEPT ![t] = [Idle EXCEPT !.at = "start", !.id = id]]
      /\ UNCHANGED <<tel, emitted, registry, dtmf, hangups, gate, intake, record>>
  BY DEF StreamConnects, At, history
<1>2. id \in Inbound => id \in agreed
  BY <1>1 DEF IInv, Consent
<1>3. TelMoves
  BY <1>1 DEF IInv, Stores, TelMoves
<1>4. /\ Only(t)
      /\ job'[t] = [at |-> "start", id |-> id, ev |-> "none", call |-> 0, sess |-> 0]
  BY <1>1, Types DEF Only, Idle
<1>5. Sound(job[t])' /\ job'[t].at = "start"
  <2>1. job'[t] \in Jobs
    BY <1>4 DEF Jobs, Labels
  <2>2. /\ job'[t].at = "start" /\ job'[t].id = id /\ job'[t].call = 0
        /\ job'[t].sess = 0
    BY <1>4
  <2>3. /\ "start" \notin OnWebhook /\ "start" \notin WithCall
        /\ "start" \notin WithSession
    BY DEF OnWebhook, WithCall, WithSession
  <2>4. 0 <= Len(objs') /\ 0 <= Len(objects') /\ agreed' = agreed
    BY <1>1, Types DEF registry, gate, record
  <2> QED
    BY <1>2, <2>1, <2>2, <2>3, <2>4 DEF Sound
<1>6. Counters' /\ UNCHANGED <<returned, agreed>>
  BY <1>1 DEF IInv, Counters, gate, intake, record
<1> QED
  BY <1>1, <1>3, <1>4, <1>5, <1>6, Rest, RequestStep

\* MakeCall has dialled: the digits are with this goroutine.
Dialled(t, id) ==
  /\ At(t, "idle") /\ tel[id] = "none"
  /\ Becomes(id, "ringing", "call.initiated")
  /\ job' = [job EXCEPT ![t] = [Idle EXCEPT !.at = "dialled", !.id = id]]

LEMMA DialledInv ==
  ASSUME IInv, NEW t \in Threads, NEW id \in Outbound, Begins("dial"),
         Dialled(t, id),
         UNCHANGED <<registry, history, gate, delivered, serving, record>>
  PROVE  IInv'
<1>1. /\ job[t].at = "idle" /\ tel[id] = "none"
      /\ Becomes(id, "ringing", "call.initiated")
      /\ job' = [job EXCEPT ![t] = [Idle EXCEPT !.at = "dialled", !.id = id]]
      /\ ops < MaxOps /\ ops' = ops + 1
      /\ UNCHANGED <<registry, dtmf, hangups, gate, delivered, serving, record>>
  BY DEF Dialled, At, history, Begins
<1>2. id \in Ids /\ id \notin Inbound
  BY DisjointIds DEF Ids
<1>3. TelMoves /\ tel'[id] = "ringing"
  BY <1>1, <1>2, BecomesMoves DEF EventTypes
<1>4. /\ Only(t)
      /\ job'[t] = [at |-> "dialled", id |-> id, ev |-> "none", call |-> 0, sess |-> 0]
  BY <1>1, Types DEF Only, Idle
<1>5. Sound(job[t])' /\ job'[t].at = "dialled" /\ job'[t].id = id
  <2>1. job'[t] \in Jobs
    BY <1>2, <1>4 DEF Jobs, Labels
  <2>2. /\ job'[t].at = "dialled" /\ job'[t].id = id /\ job'[t].call = 0
        /\ job'[t].sess = 0
    BY <1>4
  <2>3. /\ "dialled" \notin OnWebhook /\ "dialled" \notin WithCall
        /\ "dialled" \notin WithSession
    BY DEF OnWebhook, WithCall, WithSession
  <2>4. 0 <= Len(objs') /\ 0 <= Len(objects')
    BY <1>1, Types DEF registry, gate
  <2> QED
    BY <1>2, <2>1, <2>2, <2>3, <2>4 DEF Sound
<1>6. UNCHANGED <<objs, objects, returned, agreed, gmu, handled, dtmf>>
  BY <1>1 DEF registry, gate, record
<1>7. Goroutines'
  BY <1>3, <1>4, <1>5, <1>6, TelGrows, GoroutinesKept
<1>8. \A u \in Threads \ {t} : job'[u] = job[u]
  BY <1>4, Types DEF Only
<1>9. DigitsInOnePlace'
  <2>1. \A i \in Ids, u \in Threads :
          Carries(u, i)' => Carries(u, i) \/ (u = t /\ i = id)
    BY <1>5, <1>8 DEF Carries
  <2>2. \A i \in Ids, c \in DOMAIN objs : Keeps(c, i)' => Keeps(c, i)
    BY <1>6 DEF Keeps
  <2>3. /\ dtmf[id] = 0
        /\ \A u \in Threads : ~Carries(u, id)
        /\ \A c \in DOMAIN objs : ~Keeps(c, id)
    BY <1>1, <1>2 DEF IInv, DigitsInOnePlace
  <2>4. \A i \in Ids : tel'[i] = "none" => tel[i] = "none" /\ i # id
    BY <1>3 DEF TelMoves
  <2> QED
    BY <1>2, <1>6, <2>1, <2>2, <2>3, <2>4 DEF IInv, DigitsInOnePlace
<1>10. Counters'
  BY <1>1, <1>6, GatewayConstants DEF IInv, Counters
<1>11. \A u \in Threads : At(u, "decide") => At(u, "decide")' /\ job'[u].id = job[u].id
  BY <1>1, <1>8 DEF At
<1>12. UNCHANGED <<registry, gate>> /\ hangups' \subseteq Ids
  BY <1>1, Rest
<1> QED
  BY <1>3, <1>6, <1>7, <1>9, <1>10, <1>11, <1>12, TelStep

\* A MakeCall that fails, whether the call has been placed or not, leaves the
\* goroutine as it was.
LEMMA DialInv ==
  ASSUME IInv, NEW t \in Threads, NEW id \in Outbound, Begins("dial"), Dial(t, id),
         UNCHANGED <<gate, delivered, serving, record>>
  PROVE  IInv'
<1>1. At(t, "idle") /\ UNCHANGED <<registry, history, returned, agreed>>
  BY DEF Dial, record
<1>2. CASE Dialled(t, id)
  BY <1>1, <1>2, DialledInv
<1>3. CASE /\ tel[id] = "none" /\ Becomes(id, "ringing", "call.initiated")
           /\ UNCHANGED job
  <2>1. id \in Ids /\ id \notin Inbound
    BY DisjointIds DEF Ids
  <2>2. TelMoves
    BY <1>3, <2>1, BecomesMoves DEF EventTypes
  <2>3. Counters'
    BY GatewayConstants DEF IInv, Counters, Begins, gate, record
  <2> QED
    BY <1>1, <1>3, <2>2, <2>3, TelnyxStep
<1>4. CASE UNCHANGED <<telnyx, job>>
  <2>1. Counters'
    BY GatewayConstants DEF IInv, Counters, Begins, gate, record
  <2> QED
    BY <1>1, <1>4, <2>1, TelStays, TelnyxStep
<1> QED
  BY <1>2, <1>3, <1>4 DEF Dial, Dialled
-----------------------------------------------------------------------------
(* Steps that change sessions.                                             *)

\* The map still lists sessions that are alive and of the right call, and none
\* of a call that is neither agreed to nor being decided on.
LEMMA SessionStep ==
  ASSUME IInv, Goroutines', Counters',
         UNCHANGED <<telnyx, registry, history, returned>>,
         objects' \in Seq(Session), Len(objects) <= Len(objects'),
         sessions' \in [Ids -> Nat],
         \A id \in Ids :
           /\ sessions'[id] <= Len(objects')
           /\ sessions'[id] # 0 => /\ objects'[sessions'[id]].id = id
                                   /\ objects'[sessions'[id]].close # "finished",
         agreed \subseteq agreed',
         \A id \in Inbound \ agreed' : sessions'[id] # 0 =>
           \/ \E u \in Threads : At(u, "decide")' /\ job'[u].id = id
           \/ /\ sessions[id] # 0
              /\ \A u \in Threads : At(u, "decide") /\ job[u].id = id =>
                                       At(u, "decide")' /\ job'[u].id = id,
         \A id \in Ids, u \in Threads : Carries(u, id)' => Carries(u, id)
  PROVE  IInv'
<1>0. UNCHANGED <<tel, emitted, streamed, calls, objs, pmu, dtmf, hangups,
                  returned>>
  BY DEF telnyx, registry, history
<1>1. Stores'
  BY <1>0 DEF IInv, Stores, Session
<1>2. Filed'
  <2>1. Len(objects) \in Nat /\ Len(objects') \in Nat
    BY Types
  <2>2. \A id \in Ids : returned[id] \in Nat /\ returned[id] <= Len(objects)
    BY Rest
  <2>3. \A id \in Ids : returned'[id] <= Len(objects')
    BY <1>0, <2>1, <2>2
  <2> QED
    BY <1>0, <2>3 DEF IInv, Filed
<1>3. Endings'
  BY <1>0, EndingsKept
<1>4. DigitsInOnePlace'
  <2>1. \A id \in Ids, c \in DOMAIN objs : Keeps(c, id)' => Keeps(c, id)
    BY <1>0 DEF Keeps
  <2> QED
    BY <1>0, <2>1, DigitsKept
<1>5. Consent'
  BY <1>0, ConsentKept
<1> QED
  BY <1>1, <1>2, <1>3, <1>4, <1>5 DEF IInv

\* The same when one goroutine moves.
LEMMA MoveSessionStep ==
  ASSUME IInv, NEW t \in Threads, Only(t), Sound(job[t])', Counters',
         UNCHANGED <<telnyx, registry, history, returned>>,
         objects' \in Seq(Session), Len(objects) <= Len(objects'),
         sessions' \in [Ids -> Nat],
         \A id \in Ids :
           /\ sessions'[id] <= Len(objects')
           /\ sessions'[id] # 0 => /\ objects'[sessions'[id]].id = id
                                   /\ objects'[sessions'[id]].close # "finished",
         agreed \subseteq agreed',
         \A id \in Inbound \ agreed' : sessions'[id] # 0 =>
           \/ At(t, "decide")' /\ job'[t].id = id
           \/ sessions[id] # 0 /\ ~(At(t, "decide") /\ job[t].id = id),
         job'[t].at \notin {"dialled", "dtmf"}
  PROVE  IInv'
<1>0. UNCHANGED <<tel, emitted, streamed, calls, objs>>
  BY DEF telnyx, registry
<1>1. Goroutines'
  <2>1. Len(objs') \in Nat /\ Len(objs) <= Len(objs') /\ Len(objects') \in Nat
    BY <1>0, Types
  <2>2. Grows
    BY <1>0, <2>1 DEF Grows
  <2> QED
    BY <2>1, <2>2, GoroutinesKept
<1>2. \A u \in Threads \ {t} : job'[u] = job[u]
  BY Types DEF Only
<1>3. \A id \in Ids, u \in Threads : Carries(u, id)' => Carries(u, id)
  BY <1>2 DEF Carries
<1>4. \A id \in Inbound \ agreed' : sessions'[id] # 0 =>
        \/ \E u \in Threads : At(u, "decide")' /\ job'[u].id = id
        \/ /\ sessions[id] # 0
           /\ \A u \in Threads : At(u, "decide") /\ job[u].id = id =>
                                    At(u, "decide")' /\ job'[u].id = id
  BY <1>2 DEF At
<1> QED
  BY <1>1, <1>3, <1>4, SessionStep

\* The sessions the map lists.
LEMMA Listed ==
  ASSUME IInv, NEW id \in Ids
  PROVE  /\ sessions[id] \in Nat /\ sessions[id] <= Len(objects)
         /\ sessions[id] # 0 => /\ sessions[id] \in 1..Len(objects)
                                /\ objects[sessions[id]].id = id
                                /\ objects[sessions[id]].close # "finished"
<1>1. /\ sessions[id] \in Nat /\ sessions[id] <= Len(objects)
      /\ sessions[id] # 0 => /\ objects[sessions[id]].id = id
                             /\ objects[sessions[id]].close # "finished"
  BY DEF IInv, Stores, Filed
<1>2. \A n, m \in Nat : n # 0 /\ n <= m => n \in 1..m
  OBVIOUS
<1> QED
  BY <1>1, <1>2, Types

\* createSession, and where the goroutine then is.
LEMMA CreateSessionInv ==
  ASSUME IInv, NEW t \in Threads, NEW l \in {"decide", "bound", "made"},
         CreateSession(t, l), UNCHANGED <<system, intake, record>>,
         job[t].id \in Ids, job[t].at # "decide",
         l = "decide" => job[t].at \in OnWebhook,
         l # "decide" /\ job[t].id \in Inbound => job[t].id \in agreed
  PROVE  IInv'
<1> DEFINE id == job[t].id
           n == Len(objects) + 1
           new == [id |-> id, close |-> "open"]
<1>1. /\ objects' = Append(objects, new)
      /\ sessions' = [sessions EXCEPT ![id] = n]
      /\ job' = [job EXCEPT ![t].at = l, ![t].sess = n]
      /\ UNCHANGED <<telnyx, registry, history, gmu, delivered, ops, serving,
                     returned, agreed, handled>>
  BY DEF CreateSession, system, intake, record
<1>2. new \in Session /\ new.id = id /\ new.close # "finished"
  BY DEF Session
<1> HIDE DEF new
<1>3. /\ objects' \in Seq(Session) /\ Len(objects') = n /\ objects'[n] = new
      /\ \A s \in 1..Len(objects) : objects'[s] = objects[s]
  BY <1>1, <1>2, Types, AppendProperties
<1>4. n \in Nat /\ n # 0 /\ Len(objects) \in Nat /\ Len(objects) <= n
  BY Types
<1> HIDE DEF n
<1>5. \A i \in Ids : sessions'[i] = IF i = id THEN n ELSE sessions[i]
  BY <1>1 DEF IInv, Stores
<1>6. sessions' \in [Ids -> Nat]
  BY <1>1, <1>4 DEF IInv, Stores
<1>7. ASSUME NEW i \in Ids
      PROVE  /\ sessions'[i] <= Len(objects')
             /\ sessions'[i] # 0 => /\ objects'[sessions'[i]].id = i
                                    /\ objects'[sessions'[i]].close # "finished"
  <2>1. CASE i = id
    BY <1>2, <1>3, <1>4, <1>5, <2>1
  <2>2. CASE i # id
    BY <1>3, <1>4, <1>5, <2>2, Listed
  <2> QED
    BY <2>1, <2>2
<1>8. /\ job'[t] = [job[t] EXCEPT !.at = l, !.sess = n] /\ Only(t)
  BY <1>1, Types DEF Only
<1>9. /\ job'[t] \in Jobs /\ job'[t].at = l /\ job'[t].sess = n
      /\ job'[t].id = id /\ job'[t].ev = job[t].ev /\ job'[t].call = job[t].call
  <2>1. l \in Labels /\ job[t] \in Jobs
    BY Types DEF Labels
  <2> QED
    BY <1>4, <1>8, <2>1 DEF Jobs
<1>10. Sound(job[t])'
  <2>1. /\ l \notin WithCall /\ (l \in OnWebhook => l = "decide")
        /\ l \notin {"refused", "hung", "dialled", "registered", "register",
                     "start", "create"}
    BY DEF WithCall, OnWebhook
  <2>2. UNCHANGED <<objs, emitted>>
    BY <1>1 DEF telnyx, registry
  <2>3. /\ job[t].call <= Len(objs)
        /\ job[t].at \in OnWebhook =>
             job[t].ev \in EventTypes /\ <<job[t].ev, id>> \in emitted
    BY Relies DEF Sound
  <2>4. n <= Len(objects') /\ n # 0
    BY <1>3, <1>4
  <2> QED
    BY <1>9, <2>1, <2>2, <2>3, <2>4 DEF Sound
<1>11. Counters'
  BY <1>1 DEF IInv, Counters
<1>12. \A i \in Inbound \ agreed' : sessions'[i] # 0 =>
         \/ At(t, "decide")' /\ job'[t].id = i
         \/ sessions[i] # 0 /\ ~(At(t, "decide") /\ job[t].id = i)
  <2>1. \A i \in Inbound : i \in Ids
    BY DEF Ids
  <2> QED
    BY <1>1, <1>5, <1>9, <2>1 DEF At
<1>13. /\ Len(objects) <= Len(objects') /\ agreed \subseteq agreed'
       /\ job'[t].at \notin {"dialled", "dtmf"}
  BY <1>1, <1>3, <1>4, <1>9
<1> QED
  BY <1>1, <1>3, <1>6, <1>7, <1>8, <1>10, <1>11, <1>12, <1>13, MoveSessionStep

LEMMA InitiatedInv ==
  ASSUME IInv, NEW t \in Threads, Initiated(t)  PROVE  IInv'
<1>1. job[t].at = "event" /\ UNCHANGED <<system, intake, record>>
  BY DEF Initiated, At
<1>2. CASE Return(t) /\ UNCHANGED gate
  <2>1. Quiet
    BY <1>1, <1>2 DEF system, registry, history, gate, intake, record, Unseen, Quiet
  <2>2. Counters'
    BY <2>1, QuietRest DEF Quiet, Unseen
  <2> QED
    BY <1>1, <2>1, <2>2, <1>2, UnseenGrows, ReturnIs, MoveStep DEF Quiet
<1>3. CASE job[t].id \in Inbound /\ CreateSession(t, "decide")
  BY <1>1, <1>3, CreateSessionInv DEF Ids, OnWebhook
<1> QED
  BY <1>2, <1>3 DEF Initiated

LEMMA StreamCreatesInv ==
  ASSUME IInv, NEW t \in Threads, StreamCreates(t)  PROVE  IInv'
<1>1. /\ job[t].at = "create" /\ CreateSession(t, "bound")
      /\ UNCHANGED <<system, intake, record>>
  BY DEF StreamCreates, At
<1>2. job[t].id \in Ids /\ (job[t].id \in Inbound => job[t].id \in agreed)
  BY <1>1, Relies DEF Sound
<1> QED
  BY <1>1, <1>2, CreateSessionInv

LEMMA MakeCallSessionInv ==
  ASSUME IInv, NEW t \in Threads, At(t, "registered"), CreateSession(t, "made"),
         UNCHANGED <<system, intake, record>>
  PROVE  IInv'
<1>1. job[t].at = "registered"
  BY DEF At
<1>2. job[t].id \in Ids /\ job[t].id \notin Inbound
  BY <1>1, Relies, DisjointIds DEF Sound
<1> QED
  BY <1>1, <1>2, CreateSessionInv

\* The OnCall handler's decision.
LEMMA DecideInv ==
  ASSUME IInv, NEW t \in Threads, Decide(t)  PROVE  IInv'
<1> DEFINE id == job[t].id
<1>1. /\ job[t].at = "decide"
      /\ UNCHANGED <<telnyx, registry, history, objects, gmu, delivered, ops,
                     serving, returned, handled>>
  BY DEF Decide, At, system, intake, gate
<1>2. id \in Ids /\ job[t].at \in OnWebhook
  BY <1>1, Relies DEF Sound, OnWebhook
<1>3. /\ agreed' = agreed \/ agreed' = agreed \cup {id}
      /\ sessions' = sessions \/ sessions' = [sessions EXCEPT ![id] = 0]
      /\ \/ Go(t, "reject") /\ sessions' = [sessions EXCEPT ![id] = 0]
         \/ Go(t, "register") /\ agreed' = agreed \cup {id}
  BY DEF Decide, gate
<1>4. PICK l \in {"reject", "register"} :
        /\ Go(t, l)
        /\ l = "reject" => sessions' = [sessions EXCEPT ![id] = 0]
        /\ l = "register" => agreed' = agreed \cup {id}
  BY <1>3
<1>5. /\ l \in Labels /\ l \in OnWebhook /\ l \notin WithCall /\ l \notin WithSession
  BY DEF Labels, OnWebhook, WithCall, WithSession
<1>6. Only(t) /\ job'[t] = [job[t] EXCEPT !.at = l] /\ job'[t].at = l
  BY <1>4, <1>5, GoIs, Relies DEF Jobs
<1>7. UNCHANGED <<tel, emitted, streamed, calls, objs>>
  BY <1>1 DEF telnyx, registry
<1>8. Grows /\ Len(objs') \in Nat /\ Len(objects') \in Nat
  BY <1>1, <1>3, <1>7, Types DEF Grows
<1>9. Sound(job[t])'
  BY <1>2, <1>4, <1>5, <1>6, <1>8, SoundGo
<1>10. Counters'
  BY <1>1, <1>2, <1>3 DEF IInv, Counters
<1>11. /\ sessions' \in [Ids -> Nat]
       /\ \A i \in Ids : sessions'[i] = sessions[i] \/ sessions'[i] = 0
       /\ l = "reject" => sessions'[id] = 0
  <2>1. sessions \in [Ids -> Nat]
    BY DEF IInv, Stores
  <2>2. CASE sessions' = sessions /\ l = "register"
    BY <2>1, <2>2
  <2>3. CASE sessions' = [sessions EXCEPT ![id] = 0]
    BY <1>2, <2>1, <2>3
  <2> QED
    BY <1>3, <1>4, <2>2, <2>3
<1>12. \A i \in Ids :
         /\ sessions'[i] <= Len(objects')
         /\ sessions'[i] # 0 => /\ objects'[sessions'[i]].id = i
                                /\ objects'[sessions'[i]].close # "finished"
  <2>1. Len(objects) \in Nat /\ 0 <= Len(objects) /\ objects' = objects
    BY <1>1, Types
  <2> QED
    BY <1>11, <2>1, Listed
<1>13. \A i \in Inbound \ agreed' : sessions'[i] # 0 =>
         sessions[i] # 0 /\ ~(At(t, "decide") /\ job[t].id = i)
  <2>1. \A i \in Inbound : i \in Ids
    BY DEF Ids
  <2> QED
    BY <1>4, <1>11, <2>1
<1>14. /\ objects' \in Seq(Session) /\ Len(objects) <= Len(objects')
       /\ agreed \subseteq agreed' /\ job'[t].at \notin {"dialled", "dtmf"}
  BY <1>1, <1>3, <1>6, Types
<1> QED
  BY <1>1, <1>6, <1>9, <1>10, <1>11, <1>12, <1>13, <1>14, MoveSessionStep

\* Session.Close begins: a session that is open is marked closed.
LEMMA CallCloseInv ==
  ASSUME IInv, NEW t \in Threads, NEW label,
         NEW next \in {"closing", "stopped", "ending", "stopping"},
         NEW s \in 1..Len(objects), CallClose(t, label, s, next),
         label # "decide",
         next # "stopping" => job[t].id \in Ids,
         next = "closing" => label \in OnWebhook
  PROVE  IInv'
<1> DEFINE new == IF objects[s].close = "open" THEN "closed" ELSE objects[s].close
<1>1. /\ job[t].at = label
      /\ objects' = [objects EXCEPT ![s].close = new]
      /\ job' = [job EXCEPT ![t].at = next, ![t].sess = s]
      /\ UNCHANGED <<telnyx, registry, history, sessions, gmu, delivered, ops,
                     serving, returned, agreed, handled>>
  BY DEF CallClose, At, system, intake, record
<1>2. /\ objects \in Seq(Session) /\ Len(objects) \in Nat /\ objects[s] \in Session
      /\ s \in Nat /\ s # 0 /\ s <= Len(objects)
  BY Types
<1>3. /\ new \in {"open", "closed", "finished"}
      /\ objects[s].close # "finished" => new # "finished"
  BY <1>2 DEF Session
<1> HIDE DEF new
<1>4. PICK r : r = [objects[s] EXCEPT !.close = new]
  OBVIOUS
<1>5. r \in Session /\ r.id = objects[s].id /\ r.close = new
  BY <1>2, <1>3, <1>4 DEF Session
<1>6. objects' = [objects EXCEPT ![s] = r]
  BY <1>1, <1>4
<1>7. /\ objects' \in Seq(Session) /\ Len(objects') = Len(objects)
      /\ \A k \in 1..Len(objects) : objects'[k] = IF k = s THEN r ELSE objects[k]
  BY <1>2, <1>5, <1>6, Types, ExceptSeq
<1>8. \A i \in Ids :
        /\ sessions'[i] <= Len(objects')
        /\ sessions'[i] # 0 => /\ objects'[sessions'[i]].id = i
                               /\ objects'[sessions'[i]].close # "finished"
  BY <1>1, <1>3, <1>5, <1>7, Listed
<1>9. job'[t] = [job[t] EXCEPT !.at = next, !.sess = s] /\ Only(t)
  BY <1>1, Types DEF Only
<1>10. /\ job'[t] \in Jobs /\ job'[t].at = next /\ job'[t].sess = s
       /\ job'[t].id = job[t].id /\ job'[t].ev = job[t].ev
       /\ job'[t].call = job[t].call
  <2>1. next \in Labels /\ job[t] \in Jobs
    BY Types DEF Labels
  <2> QED
    BY <1>2, <1>9, <2>1 DEF Jobs
<1>11. Sound(job[t])'
  <2>1. /\ next \notin WithCall /\ (next \in OnWebhook => next = "closing")
        /\ next \notin {"refused", "hung", "dialled", "registered", "register",
                        "start", "create"}
    BY DEF WithCall, OnWebhook
  <2>2. UNCHANGED <<objs, emitted>>
    BY <1>1 DEF telnyx, registry
  <2>3. /\ job[t].call <= Len(objs)
        /\ job[t].at \in OnWebhook =>
             job[t].ev \in EventTypes /\ <<job[t].ev, job[t].id>> \in emitted
    BY Relies DEF Sound
  <2>4. s <= Len(objects')
    BY <1>2, <1>7
  <2>5. /\ job'[t].call <= Len(objs')
        /\ next \in OnWebhook =>
             job[t].ev \in EventTypes /\ <<job[t].ev, job[t].id>> \in emitted'
    BY <1>1, <1>10, <2>1, <2>2, <2>3
  <2>6. next \notin {"idle", "shutdown", "stop", "stopping"} => job[t].id \in Ids
    OBVIOUS
  <2> QED
    BY <1>2, <1>10, <2>1, <2>4, <2>5, <2>6 DEF Sound
<1>12. Counters'
  BY <1>1 DEF IInv, Counters
<1>13. /\ Len(objects) <= Len(objects') /\ sessions' \in [Ids -> Nat]
       /\ agreed \subseteq agreed' /\ job'[t].at \notin {"dialled", "dtmf"}
       /\ \A i \in Inbound \ agreed' : sessions'[i] # 0 =>
            sessions[i] # 0 /\ ~(At(t, "decide") /\ job[t].id = i)
  <2>1. Len(objects) <= Len(objects')
    BY <1>2, <1>7
  <2>2. sessions' \in [Ids -> Nat]
    BY <1>1 DEF IInv, Stores
  <2> QED
    BY <1>1, <1>10, <2>1, <2>2 DEF At
<1> QED
  BY <1>1, <1>7, <1>8, <1>9, <1>11, <1>12, <1>13, MoveSessionStep

\* The Session a goroutine holds.
LEMMA HeldSession ==
  ASSUME IInv, NEW t \in Threads, job[t].at \in WithSession
  PROVE  job[t].sess \in 1..Len(objects)
<1>1. job[t].sess \in Nat /\ job[t].sess # 0 /\ job[t].sess <= Len(objects)
  BY Relies DEF Sound
<1>2. \A n, m \in Nat : n # 0 /\ n <= m => n \in 1..m
  OBVIOUS
<1> QED
  BY <1>1, <1>2, Types

\* The callers of Session.Close but Gateway.Stop.
LEMMA ClosesInv ==
  ASSUME IInv, NEW t \in Threads,
         \/ CallClose(t, "found", job[t].sess, "closing")
         \/ CallClose(t, "forwarding", job[t].sess, "stopped")
         \/ CallClose(t, "close", job[t].sess, "ending")
  PROVE  IInv'
<1>1. job[t].at \in {"found", "forwarding", "close"}
  BY DEF CallClose, At
<1>2. job[t].id \in Ids
  BY <1>1, Relies DEF Sound
<1>3. job[t].sess \in 1..Len(objects)
  BY <1>1, HeldSession DEF WithSession
<1>4. "found" \in OnWebhook
  BY DEF OnWebhook
<1> QED
  BY <1>2, <1>3, <1>4, CallCloseInv

\* Gateway.Stop closes a session of the map.
LEMMA StopClosesInv ==
  ASSUME IInv, NEW t \in Threads, InStop(t), NEW id \in Ids, sessions[id] # 0,
         CallClose(t, job[t].at, sessions[id], "stopping")
  PROVE  IInv'
<1>1. job[t].at # "decide"
  BY DEF InStop, Closed, At
<1> QED
  BY <1>1, Listed, CallCloseInv

\* Session.Close ends: whatever the map holds for the call is taken out.
LEMMA CloseRemovesInv ==
  ASSUME IInv, NEW s \in DOMAIN objects, CloseRemoves(s)  PROVE  IInv'
<1>1. /\ objects' = [objects EXCEPT ![s].close = "finished"]
      /\ sessions' = [sessions EXCEPT ![objects[s].id] = 0]
      /\ UNCHANGED <<telnyx, registry, history, job, gmu, delivered, ops,
                     serving, returned, agreed, handled>>
  BY DEF CloseRemoves, system, intake, record
<1>2. /\ objects \in Seq(Session) /\ Len(objects) \in Nat /\ objects[s] \in Session
      /\ s \in 1..Len(objects) /\ objects[s].id \in Ids
  BY Types DEF Session
<1>3. PICK r : r = [objects[s] EXCEPT !.close = "finished"]
  OBVIOUS
<1>4. r \in Session
  BY <1>2, <1>3 DEF Session
<1>5. objects' = [objects EXCEPT ![s] = r]
  BY <1>1, <1>3
<1>6. /\ objects' \in Seq(Session) /\ Len(objects') = Len(objects)
      /\ \A k \in 1..Len(objects) : objects'[k] = IF k = s THEN r ELSE objects[k]
  BY <1>2, <1>4, <1>5, Types, ExceptSeq
<1>7. /\ sessions' \in [Ids -> Nat]
      /\ \A i \in Ids : sessions'[i] = IF i = objects[s].id THEN 0 ELSE sessions[i]
  BY <1>1, <1>2 DEF IInv, Stores
<1>8. ASSUME NEW i \in Ids
      PROVE  /\ sessions'[i] <= Len(objects')
             /\ sessions'[i] # 0 => /\ sessions[i] # 0
                                    /\ objects'[sessions'[i]].id = i
                                    /\ objects'[sessions'[i]].close # "finished"
  <2>1. CASE i = objects[s].id
    BY <1>2, <1>6, <1>7, <2>1
  <2>2. CASE i # objects[s].id
    BY <1>6, <1>7, <2>2, Listed
  <2> QED
    BY <2>1, <2>2
<1>9. UNCHANGED <<tel, emitted, calls, objs>>
  BY <1>1 DEF telnyx, registry
<1>10. Goroutines'
  <2>1. \A k \in 1..Len(objects) : objects'[k] \in Session
    BY <1>2, <1>4, <1>6, Types
  <2>2. Grows /\ Len(objs') \in Nat /\ Len(objects') \in Nat
    BY <1>1, <1>2, <1>6, <1>9, Types DEF Grows
  <2> QED
    BY <1>1, <2>2, GoroutinesStay
<1>11. Counters'
  BY <1>1 DEF IInv, Counters
<1>12. \A i \in Inbound \ agreed' : sessions'[i] # 0 =>
         /\ sessions[i] # 0
         /\ \A u \in Threads : At(u, "decide") /\ job[u].id = i =>
                                  At(u, "decide")' /\ job'[u].id = i
  BY <1>1, <1>8 DEF Ids, At
<1>13. /\ Len(objects) <= Len(objects') /\ agreed \subseteq agreed'
       /\ \A i \in Ids, u \in Threads : Carries(u, i)' => Carries(u, i)
  BY <1>1, <1>2, <1>6 DEF Carries
<1> QED
  BY <1>1, <1>6, <1>7, <1>8, <1>10, <1>11, <1>12, <1>13, SessionStep
-----------------------------------------------------------------------------
(* The invariant. *)

LEMMA InitInv == Init => IInv
<1> SUFFICES ASSUME Init  PROVE IInv
  OBVIOUS
<1>1. /\ tel = [id \in Ids |-> "none"] /\ emitted = {}
      /\ streamed = [id \in Ids |-> "no"] /\ calls = [id \in Ids |-> 0]
      /\ objs = <<>> /\ pmu = {} /\ job = [t \in Threads |-> Idle]
      /\ dtmf = [id \in Ids |-> 0] /\ hangups = {}
      /\ sessions = [id \in Ids |-> 0] /\ objects = <<>> /\ gmu = {}
      /\ delivered = 0 /\ ops = 0 /\ serving = TRUE
      /\ returned = [id \in Ids |-> 0] /\ agreed = {} /\ handled = {}
  BY DEF Init, SystemInit
<1>2. Len(objs) = 0 /\ DOMAIN objs = {} /\ Len(objects) = 0
  BY <1>1
<1>3. Stores
  BY <1>1 DEF Stores
<1>4. Counters
  BY <1>1, GatewayConstants DEF Counters
<1>5. Goroutines
  <2>1. Idle \in Jobs
    BY DEF Idle, Jobs, Labels
  <2>2. Sound(Idle)
    BY <1>2, <2>1 DEF Sound, Idle, OnWebhook, WithCall, WithSession
  <2> QED
    BY <1>1, <2>1, <2>2 DEF Goroutines
<1>6. Filed
  BY <1>1, <1>2 DEF Filed
<1>7. Endings
  BY <1>1, <1>2 DEF Endings
<1>8. DigitsInOnePlace
  <2>1. \A t \in Threads, id \in Ids : ~Carries(t, id)
    BY <1>1 DEF Carries, Idle
  <2> QED
    BY <1>1, <1>2, <2>1 DEF DigitsInOnePlace
<1>9. Consent
  BY <1>1, <1>2 DEF Consent, Ids
<1> QED
  BY <1>3, <1>4, <1>5, <1>6, <1>7, <1>8, <1>9 DEF IInv

LEMMA WorkerInv ==
  ASSUME IInv, NEW t \in Threads, Worker(t)  PROVE  IInv'
<1>1. CASE Reject(t)
  <2>1. CASE HandlerLooksUp(t, "reject", "refuse")
    BY <2>1, LooksUpInv DEF OnWebhook
  <2>2. CASE Calls(RequestHangup(t, "refuse", Go(t, "refused"), Return(t)))
    BY <2>2, RequestHangupInv
  <2>3. CASE Calls(MarkEnded(t, "refused", Return(t)))
    BY <2>3, MarkEndedInv
  <2> QED
    BY <1>1, <2>1, <2>2, <2>3 DEF Reject
<1>2. CASE Accept(t)
  <2>1. \/ Calls(RegisterInbound(t)) \/ Calls(RequestAnswer(t))
        \/ Calls(MarkAnswered(t))
    BY <1>2 DEF Accept, Calls
  <2> QED
    BY <2>1, RegisterInboundInv, RequestAnswerInv, MarkAnsweredInv
<1>3. CASE Answered(t)
  <2>1. CASE HandlerLooksUp(t, "event", "digits")
    BY <2>1, LooksUpInv DEF OnWebhook
  <2>2. CASE Calls(TakeDigits(t) \/ SendDtmf(t))
    <3>1. Calls(TakeDigits(t)) \/ Calls(SendDtmf(t))
      BY <2>2 DEF Calls
    <3> QED
      BY <3>1, TakeDigitsInv, SendDtmfInv
  <2>3. CASE /\ StartStreaming(t) /\ HandledOK(t)
             /\ UNCHANGED <<gate, intake, returned, agreed>>
    BY <2>3, StartStreamingInv
  <2> QED
    BY <1>3, <2>1, <2>2, <2>3 DEF Answered
<1>4. CASE HungUpEvent(t)
  <2>1. CASE Calls(ApplyEvent(t, "event", "drop", Go(t, "find")))
    BY <2>1, ApplyEventInv
  <2>2. CASE Calls(DropIfEnded(t, "drop", Go(t, "find")))
    BY <2>2, DropIfEndedInv
  <2>3. CASE /\ At(t, "find")
             /\ \/ /\ Return(t) /\ HandledOK(t)
                   /\ UNCHANGED <<system, gate, intake, returned, agreed>>
                \/ /\ sessions[job[t].id] # 0
                   /\ job' = [job EXCEPT ![t].at = "found",
                                         ![t].sess = sessions[job[t].id]]
                   /\ UNCHANGED <<system, gate, intake, record>>
    BY <2>3, FindInv
  <2>4. CASE CallClose(t, "found", job[t].sess, "closing")
    BY <2>4, ClosesInv
  <2>5. CASE /\ Closed(t, "closing") /\ Return(t) /\ HandledOK(t)
             /\ UNCHANGED <<system, gate, intake, returned, agreed>>
    BY <2>5, ClosedInv
  <2> QED
    BY <1>4, <2>1, <2>2, <2>3, <2>4, <2>5 DEF HungUpEvent
<1>5. CASE StatusEvent(t)
  BY <1>5, ApplyEventInv, DropIfEndedInv DEF StatusEvent
<1> QED
  BY <1>1, <1>2, <1>3, <1>4, <1>5, UpgradeFailsInv, InitiatedInv, DecideInv
     DEF Worker

LEMMA StreamInv ==
  ASSUME IInv, NEW t \in Threads, Stream(t)  PROVE  IInv'
<1>1. CASE StreamBound(t)
  <2>1. UNCHANGED <<system, gate, intake, record>>
    BY <1>1 DEF StreamBound
  <2>2. CASE TakeOver(t) \/ SetsPipeline(t)
    BY <2>1, <2>2, StreamsInv DEF TakeOver, SetsPipeline
  <2>3. CASE At(t, "bound") /\ Return(t)
    BY <2>1, <2>3, ReturnsInv
  <2> QED
    BY <1>1, <2>2, <2>3 DEF StreamBound
<1>2. CASE ForwarderCloses(t)
  BY <1>2, ClosesInv DEF ForwarderCloses
<1>3. CASE ForwarderEnds(t) \/ StreamEnds(t)
  BY <1>3, ReturnsInv DEF ForwarderEnds, StreamEnds
<1>4. CASE PipelineReturns(t)
  BY <1>4, StreamsInv DEF PipelineReturns
<1> QED
  BY <1>1, <1>2, <1>3, <1>4, StreamStartInv, StreamCreatesInv DEF Stream

LEMMA AppInv ==
  ASSUME IInv, NEW t \in Apps, App(t)  PROVE  IInv'
<1>0. t \in Threads
  BY GatewayConstants
<1>1. CASE AppDials(t)
  <2>1. CASE /\ Begins("dial")
             /\ \E id \in Outbound : Dial(t, id)
             /\ UNCHANGED <<gate, delivered, serving, record>>
    BY <1>0, <2>1, DialInv
  <2>2. CASE Calls(RegisterOutbound(t, "registered"))
    BY <1>0, <2>2, RegisterOutboundInv
  <2>3. CASE /\ At(t, "registered") /\ CreateSession(t, "made")
             /\ UNCHANGED <<system, intake, record>>
    BY <1>0, <2>3, MakeCallSessionInv
  <2>4. CASE /\ At(t, "made")
             /\ returned' = [returned EXCEPT ![job[t].id] = job[t].sess]
             /\ Return(t)
             /\ UNCHANGED <<system, gate, intake, agreed, handled>>
    BY <1>0, <2>4, MadeInv
  <2> QED
    BY <1>1, <2>1, <2>2, <2>3, <2>4 DEF AppDials
<1>2. CASE AppEnding(t)
  BY <1>0, <1>2, RequestHangupInv, ClosesInv, ReturnsInv DEF AppEnding
<1>3. CASE AppShutsDown(t)
  <2>1. CASE /\ Begins("shutdown") /\ Shutdown(t)
             /\ UNCHANGED <<gate, delivered, serving, record>>
    <3>1. /\ At(t, "idle") /\ Go(t, "shutdown") /\ Unseen /\ ops < MaxOps
          /\ ops' = ops + 1 /\ pmu' = {t}
          /\ UNCHANGED <<gmu, hangups, returned, delivered, serving, handled>>
      BY <2>1 DEF Begins, Shutdown, Unseen, history, gate, record
    <3> QED
      BY <1>0, <3>1, LocksInv
  <2>2. CASE Calls(ShutdownNext(t))
    BY <1>0, <2>2, ShutdownNextInv
  <2>3. CASE Calls(ShutdownHangs(t))
    <3>1. \/ Calls(RequestHangup(t, "hanging", Go(t, "hung"), Go(t, "forget")))
          \/ Calls(MarkEnded(t, "hung", Go(t, "forget")))
      BY <2>3 DEF ShutdownHangs, Calls
    <3> QED
      BY <1>0, <3>1, RequestHangupInv, MarkEndedInv
  <2>4. CASE Calls(ShutdownForgets(t))
    BY <1>0, <2>4, ShutdownForgetsInv
  <2>5. CASE Calls(ShutdownEnds(t))
    <3>1. /\ job[t].at # "decide" /\ Return(t) /\ Unseen /\ pmu' = {}
          /\ UNCHANGED <<gmu, serving, hangups, returned, delivered, ops, handled>>
      BY <2>5 DEF Calls, ShutdownEnds, At, Unseen, history, gate, intake, record
    <3> QED
      BY <1>0, <3>1, UnlocksInv
  <2>6. Calls(\/ ShutdownNext(t) \/ ShutdownHangs(t) \/ ShutdownForgets(t)
              \/ ShutdownEnds(t))
          => \/ Calls(ShutdownNext(t)) \/ Calls(ShutdownHangs(t))
             \/ Calls(ShutdownForgets(t)) \/ Calls(ShutdownEnds(t))
    BY DEF Calls
  <2> QED
    BY <1>3, <2>1, <2>2, <2>3, <2>4, <2>5, <2>6 DEF AppShutsDown
<1>4. CASE AppStops(t)
  <2>1. CASE /\ Begins("stop") /\ At(t, "idle") /\ gmu = {}
             /\ gmu' = {t}
             /\ Go(t, "stop")
             /\ UNCHANGED <<system, sessions, objects, delivered, serving, record>>
    <3>1. /\ At(t, "idle") /\ Go(t, "stop") /\ Unseen /\ ops < MaxOps
          /\ ops' = ops + 1 /\ gmu' = {t}
          /\ UNCHANGED <<pmu, hangups, returned, delivered, serving, handled>>
      BY <2>1 DEF Begins, Unseen, system, registry, history, record
    <3> QED
      BY <1>0, <3>1, LocksInv
  <2>2. CASE /\ InStop(t)
             /\ \E id \in Ids :
                  /\ sessions[id] # 0
                  /\ CallClose(t, job[t].at, sessions[id], "stopping")
    BY <1>0, <2>2, StopClosesInv
  <2>3. CASE /\ InStop(t) /\ gmu' = {} /\ serving' = FALSE /\ Return(t)
             /\ UNCHANGED <<system, sessions, objects, delivered, ops, record>>
    <3>1. /\ job[t].at # "decide" /\ Unseen
          /\ UNCHANGED <<pmu, hangups, returned, delivered, ops, handled>>
      BY <2>3 DEF InStop, Closed, At, Unseen, system, registry, history, record
    <3> QED
      BY <1>0, <2>3, <3>1, UnlocksInv
  <2> QED
    BY <1>4, <2>1, <2>2, <2>3 DEF AppStops
<1> QED
  BY <1>1, <1>2, <1>3, <1>4 DEF App

LEMMA StutterInv == ASSUME IInv, UNCHANGED vars  PROVE  IInv'
<1>1. UNCHANGED <<telnyx, registry, job, history, gate, intake, record>>
  BY DEF vars
<1>2. UNCHANGED <<tel, emitted, streamed, calls, objs, pmu, job, dtmf, hangups,
                  sessions, objects, gmu, delivered, ops, serving, returned,
                  agreed, handled>>
  BY <1>1 DEF telnyx, registry, history, gate, intake, record
<1>3. TelMoves
  BY <1>1, TelStays
<1>4. Goroutines'
  BY <1>2, <1>3, TelGrows, GoroutinesStay
<1>5. Counters' /\ hangups' \subseteq Ids
  BY <1>2 DEF IInv, Counters, Stores
<1>6. DigitsInOnePlace'
  BY <1>2, DigitsKept DEF Carries, Keeps
<1>7. \A u \in Threads : At(u, "decide") => At(u, "decide")' /\ job'[u].id = job[u].id
  BY <1>2 DEF At
<1> QED
  BY <1>1, <1>2, <1>3, <1>4, <1>5, <1>6, <1>7, TelStep

LEMMA NextInv == ASSUME IInv, [Next]_vars  PROVE  IInv'
<1>0. Workers \subseteq Threads /\ Streams \subseteq Threads /\ Apps \subseteq Threads
  BY GatewayConstants
<1>1. CASE Environment
  BY <1>0, <1>1, TelnyxInv, DeliverInv, StreamConnectsInv, StreamBreaksInv,
     AppEndsInv DEF Environment
<1>2. CASE Closing
  BY <1>2, CloseRemovesInv DEF Closing
<1>3. CASE \E t \in Workers : Worker(t)
  BY <1>0, <1>3, WorkerInv
<1>4. CASE \E t \in Streams : Stream(t)
  BY <1>0, <1>4, StreamInv
<1>5. CASE \E t \in Apps : App(t)
  BY <1>5, AppInv
<1> QED
  BY <1>1, <1>2, <1>3, <1>4, <1>5, StutterInv DEF Next

\* However webhooks, streams and the application interleave, every goroutine's
\* local variables stay right, and maps, digits and endings consistent.
THEOREM Inductive == Spec => []IInv
  BY InitInv, NextInv, PTL DEF Spec
-----------------------------------------------------------------------------
(* What it shows. *)

\* Every variable keeps its type, and a goroutine that uses a Call or a
\* Session has found one.
THEOREM TypeCorrect == Spec => []TypeOK
<1>1. IInv => TypeOK
  <2> SUFFICES ASSUME IInv  PROVE TypeOK
    OBVIOUS
  <2>1. \A n, m \in Nat : n <= m => n \in 0..m
    OBVIOUS
  <2>2. /\ calls \in [Ids -> 0..Len(objs)]
        /\ sessions \in [Ids -> 0..Len(objects)]
        /\ returned \in [Ids -> 0..Len(objects)]
    <3>1. /\ calls \in [Ids -> Nat] /\ sessions \in [Ids -> Nat]
          /\ returned \in [Ids -> Nat]
          /\ \A id \in Ids : /\ calls[id] <= Len(objs)
                             /\ sessions[id] <= Len(objects)
                             /\ returned[id] <= Len(objects)
      BY DEF IInv, Stores, Filed
    <3> QED
      BY <2>1, <3>1, Types
  <2>3. /\ job \in [Threads -> [at : Labels, id : Ids \cup {"none"},
                                ev : EventTypes \cup {"none"},
                                call : 0..Len(objs), sess : 0..Len(objects)]]
        /\ \A t \in Threads : /\ job[t].at \in WithCall => job[t].call # 0
                              /\ job[t].at \in WithSession => job[t].sess # 0
    <3>1. ASSUME NEW t \in Threads
          PROVE  /\ job[t] \in [at : Labels, id : Ids \cup {"none"},
                                ev : EventTypes \cup {"none"},
                                call : 0..Len(objs), sess : 0..Len(objects)]
                 /\ job[t].at \in WithCall => job[t].call # 0
                 /\ job[t].at \in WithSession => job[t].sess # 0
      <4>1. job[t].call \in 0..Len(objs) /\ job[t].sess \in 0..Len(objects)
        BY <2>1, Relies, Types DEF Sound
      <4> QED
        BY <4>1, Relies DEF Sound, Jobs
    <3> QED
      BY <3>1, Types
  <2> QED
    BY <2>2, <2>3 DEF IInv, Stores, Counters, TypeOK
<1> QED
  BY <1>1, Inductive, PTL

\* However often call.answered is delivered, and however its handlers
\* interleave, the digits of a call are sent at most once.
THEOREM SentOnce == Spec => []DigitsOnce
<1>1. IInv => DigitsOnce
  BY DEF IInv, DigitsInOnePlace, DigitsOnce
<1> QED
  BY <1>1, Inductive, PTL

\* The map never lists a session whose Close has finished.
THEOREM ClosedUnlisted == Spec => []ClosedIsUnlisted
<1>1. IInv => ClosedIsUnlisted
  BY DEF IInv, Filed, ClosedIsUnlisted
<1> QED
  BY <1>1, Inductive, PTL

\* A call the OnCall handler never accepted leaves no session and no Call, and
\* is not answered.
THEOREM NothingLeft == Spec => []RejectedLeavesNothing
<1>1. IInv => RejectedLeavesNothing
  <2> SUFFICES ASSUME IInv, NEW id \in Inbound \ agreed, ~Busy(id)
               PROVE  sessions[id] = 0 /\ calls[id] = 0 /\ tel[id] # "answered"
    BY DEF RejectedLeavesNothing
  <2>1. id \in Ids
    BY DEF Ids
  <2>2. sessions[id] = 0 /\ tel[id] # "answered"
    BY DEF IInv, Consent, Busy
  <2>3. calls[id] = 0
    <3>1. calls[id] \in Nat /\ calls[id] <= Len(objs)
          /\ (calls[id] # 0 => objs[calls[id]].id = id)
      BY <2>1 DEF IInv, Stores, Filed
    <3>2. calls[id] # 0 => calls[id] \in DOMAIN objs
      BY <3>1, Types
    <3> QED
      BY <3>1, <3>2 DEF IInv, Consent
  <2> QED
    BY <2>2, <2>3
<1> QED
  BY <1>1, Inductive, PTL

\* The steps that change the map of calls.
LEMMA WorkerCalls ==
  ASSUME NEW t, Worker(t)
  PROVE  \/ UNCHANGED calls \/ RegisterInbound(t)
         \/ DropIfEnded(t, "drop", Go(t, "find"))
         \/ DropIfEnded(t, "statusDrop", Return(t))
<1>1. CASE UpgradeFails(t) \/ Initiated(t) \/ Decide(t)
  BY <1>1 DEF UpgradeFails, Initiated, Decide, system, registry
<1>2. CASE Reject(t)
  BY <1>2 DEF Reject, Calls, HandlerLooksUp, LookUpCall, RequestHangup,
              MarkEnded, registry
<1>3. CASE Accept(t)
  BY <1>3 DEF Accept, Calls, RequestAnswer, MarkAnswered, registry
<1>4. CASE Answered(t)
  BY <1>4 DEF Answered, Calls, HandlerLooksUp, LookUpCall, TakeDigits, SendDtmf,
              StartStreaming, registry
<1>5. CASE HungUpEvent(t)
  BY <1>5 DEF HungUpEvent, Calls, ApplyEvent, CallClose, system, registry
<1>6. CASE StatusEvent(t)
  BY <1>6 DEF StatusEvent, Calls, ApplyEvent
<1> QED
  BY <1>1, <1>2, <1>3, <1>4, <1>5, <1>6 DEF Worker

LEMMA AppCalls ==
  ASSUME NEW t, App(t)
  PROVE  \/ UNCHANGED calls \/ RegisterOutbound(t, "registered")
         \/ ShutdownForgets(t)
<1>1. CASE AppDials(t)
  <2>1. \A id \in Outbound : Dial(t, id) => UNCHANGED calls
    BY DEF Dial, registry
  <2>2. (UNCHANGED system) => UNCHANGED calls
    BY DEF system, registry
  <2> QED
    BY <1>1, <2>1, <2>2 DEF AppDials, Calls
<1>2. CASE AppEnding(t)
  BY <1>2 DEF AppEnding, Calls, RequestHangup, CallClose, system, registry
<1>3. CASE AppShutsDown(t)
  <2>1. Shutdown(t) \/ ShutdownEnds(t) => UNCHANGED calls
    BY DEF Shutdown, ShutdownEnds
  <2>2. ShutdownNext(t) => UNCHANGED calls
    BY DEF ShutdownNext, registry
  <2>3. ShutdownHangs(t) => UNCHANGED calls
    BY DEF ShutdownHangs, RequestHangup, MarkEnded, registry
  <2> QED
    BY <1>3, <2>1, <2>2, <2>3 DEF AppShutsDown, Calls
<1>4. CASE AppStops(t)
  BY <1>4 DEF AppStops, CallClose, system, registry
<1> QED
  BY <1>1, <1>2, <1>3, <1>4 DEF App

\* A call that leaves the registry has ended at Telnyx, whatever the order of
\* the webhooks, unless Provider.Close forgets it.
THEOREM OnlyEndedDropped == Spec => DropsOnlyEnded
<1> DEFINE Dropped(id) == calls[id] # 0 /\ calls'[id] = 0
           Allowed(id) == tel[id] = "ended" \/ \E t \in Apps : At(t, "forget")
<1>1. ASSUME IInv, [Next]_vars, NEW id \in Ids, Dropped(id)  PROVE Allowed(id)
  <2>0. Workers \subseteq Threads
    BY GatewayConstants
  <2>1. CASE \E t \in Workers : Worker(t)
    <3>1. PICK t \in Workers : Worker(t)
      BY <2>1
    <3>2. CASE RegisterInbound(t)
      <4>1. calls' = [calls EXCEPT ![job[t].id] = Len(objs) + 1]
        BY <3>2 DEF RegisterInbound, Register, NewCall
      <4>2. Len(objs) + 1 # 0
        BY <1>1, Types
      <4> QED
        BY <1>1, <4>1, <4>2 DEF IInv, Stores
    <3>3. CASE \/ DropIfEnded(t, "drop", Go(t, "find"))
               \/ DropIfEnded(t, "statusDrop", Return(t))
      <4>1. calls' = IF objs[calls[job[t].id]].status = "ended"
                     THEN [calls EXCEPT ![job[t].id] = 0] ELSE calls
        BY <3>3 DEF DropIfEnded
      <4>2. /\ calls[id] # 0 /\ id = job[t].id /\ objs[calls[id]].status = "ended"
        BY <1>1, <4>1 DEF IInv, Stores
      <4>3. calls[id] \in Nat /\ calls[id] <= Len(objs) /\ objs[calls[id]].id = id
        BY <1>1, <4>2 DEF IInv, Stores, Filed
      <4>4. calls[id] \in DOMAIN objs
        BY <1>1, <4>2, <4>3, Types
      <4> QED
        BY <1>1, <4>2, <4>3, <4>4 DEF IInv, Endings
    <3> QED
      BY <1>1, <3>1, <3>2, <3>3, WorkerCalls
  <2>2. CASE \E t \in Apps : App(t)
    <3>1. PICK t \in Apps : App(t)
      BY <2>2
    <3>2. CASE RegisterOutbound(t, "registered")
      <4>1. calls' = [calls EXCEPT ![job[t].id] = Len(objs) + 1]
        BY <3>2 DEF RegisterOutbound, Register, NewCall
      <4>2. Len(objs) + 1 # 0
        BY <1>1, Types
      <4> QED
        BY <1>1, <4>1, <4>2 DEF IInv, Stores
    <3>3. CASE ShutdownForgets(t)
      BY <3>1, <3>3 DEF ShutdownForgets
    <3> QED
      BY <1>1, <3>1, <3>2, <3>3, AppCalls
  <2>3. CASE Environment \/ Closing \/ (\E t \in Streams : Stream(t)) \/ UNCHANGED vars
    <3>1. UNCHANGED calls
      <4>1. (UNCHANGED registry) \/ (UNCHANGED system) => UNCHANGED calls
        BY DEF system, registry
      <4>2. CASE Environment
        <5>1. Telnyx => UNCHANGED registry
          BY DEF Telnyx
        <5>2. \A t, e, i, endpoint : Deliver(t, e, i, endpoint) => UNCHANGED system
          BY DEF Deliver
        <5>3. \A t, i : StreamConnects(t, i) => UNCHANGED registry
          BY DEF StreamConnects
        <5>4. \A t, s : AppEnds(t, s) => UNCHANGED system
          BY DEF AppEnds
        <5>5. \A i : StreamBreaks(i) => UNCHANGED registry
          BY DEF StreamBreaks
        <5> QED
          BY <4>1, <4>2, <5>1, <5>2, <5>3, <5>4, <5>5 DEF Environment
      <4>3. CASE Closing
        BY <4>1, <4>3 DEF Closing, CloseRemoves
      <4>4. CASE \E t \in Streams : Stream(t)
        BY <4>1, <4>4 DEF Stream, StreamStart, StreamCreates, StreamBound,
                          ForwarderCloses, ForwarderEnds, PipelineReturns,
                          CallClose, StreamEnds
      <4>5. CASE UNCHANGED vars
        BY <4>1, <4>5 DEF vars
      <4> QED
        BY <2>3, <4>2, <4>3, <4>4, <4>5
    <3> QED
      BY <1>1, <3>1
  <2> QED
    BY <1>1, <2>1, <2>2, <2>3 DEF Next
<1>2. IInv /\ [Next]_vars => [\A id \in Ids : calls[id] # 0 /\ calls'[id] = 0
         => \/ tel[id] = "ended"
            \/ \E t \in Apps : At(t, "forget")]_vars
  BY <1>1
<1> QED
  BY <1>2, Inductive, PTL DEF Spec, DropsOnlyEnded
=============================================================================
