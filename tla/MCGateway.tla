----------------------------- MODULE MCGateway -----------------------------
(***************************************************************************)
(* Gateway on a small instance.  The goroutines that handle webhooks are   *)
(* interchangeable; the cfg of a safety run declares the symmetry.         *)
(***************************************************************************)
EXTENDS Gateway, TLC

Symmetry == Permutations(Workers)
=============================================================================
