----------------------------- MODULE AudioFeed -----------------------------
(***************************************************************************)
(* What PipelineModeAudio promises the application about ReceiveAudio: the *)
(* chunks taken from the media stream are handed over in order, without    *)
(* gaps or repetition, until the end is signalled, and nothing is handed   *)
(* over after it.  What was taken and not yet handed over at the end is    *)
(* dropped.                                                                *)
(***************************************************************************)
EXTENDS Naturals, Sequences

CONSTANT Chunk       \* the set of audio chunks

VARIABLES taken,     \* chunks taken from the stream
          handed,    \* chunks handed to the application
          open       \* the application has not been told of the end

vars == <<taken, handed, open>>

Init == taken = <<>> /\ handed = <<>> /\ open = TRUE

Take(c) ==
  /\ taken' = Append(taken, c)
  /\ UNCHANGED <<handed, open>>

Hand ==
  /\ open
  /\ Len(handed) < Len(taken)
  /\ handed' = Append(handed, taken[Len(handed) + 1])
  /\ UNCHANGED <<taken, open>>

End ==
  /\ open
  /\ open' = FALSE
  /\ UNCHANGED <<taken, handed>>

Next == (\E c \in Chunk : Take(c)) \/ Hand \/ End

Spec == Init /\ [][Next]_vars
=============================================================================
