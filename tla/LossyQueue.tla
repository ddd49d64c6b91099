----------------------------- MODULE LossyQueue -----------------------------
(***************************************************************************)
(* What writing to a transport connection promises: audio is taken to the  *)
(* network in the order in which it was written, and when the network is   *)
(* slower than the writer it is the oldest waiting audio that is given up. *)
(* A write that finds Cap items waiting gives up at most one, before the   *)
(* next write: the oldest of those still waiting then, and never its own.  *)
(* Nothing is promised of an item after it has been taken: on a closed     *)
(* connection, or when its write fails, it does not reach Telnyx.          *)
(***************************************************************************)
EXTENDS Naturals, Sequences

CONSTANTS Item, Cap

VARIABLES waiting,   \* items written and neither taken nor given up
          taken,     \* items taken by the write loop
          full       \* the last write found Cap items and may give one up

vars == <<waiting, taken, full>>

Init == waiting = <<>> /\ taken = <<>> /\ full = FALSE

Put(x) ==
  /\ ~full
  /\ waiting' = Append(waiting, x)
  /\ full' = (Len(waiting) >= Cap)
  /\ UNCHANGED taken

\* An item whose write is still making room is not taken.
Take ==
  /\ IF full THEN Len(waiting) > 1 ELSE waiting # <<>>
  /\ taken' = Append(taken, Head(waiting))
  /\ waiting' = Tail(waiting)
  /\ UNCHANGED full

GiveUp ==
  /\ full /\ full' = FALSE
  /\ Len(waiting) > 1
  /\ waiting' = Tail(waiting)
  /\ UNCHANGED taken

\* Everything older has been taken meanwhile.
Spare ==
  /\ full /\ full' = FALSE
  /\ Len(waiting) = 1
  /\ UNCHANGED <<waiting, taken>>

Next == (\E x \in Item : Put(x)) \/ Take \/ GiveUp \/ Spare

Spec == Init /\ [][Next]_vars
=============================================================================
