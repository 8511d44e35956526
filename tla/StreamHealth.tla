---------------------------- MODULE StreamHealth ----------------------------
(***************************************************************************)
(* What the learning-continuity guard may assume of the market stream: it  *)
(* is healthy or not, and whenever it stops being healthy by itself a drop *)
(* is counted.  Only an explicit change (new providers, a shutdown) ends a *)
(* healthy period without a count, and the caller of such a change marks   *)
(* the gap itself.                                                         *)
(***************************************************************************)
EXTENDS Naturals

VARIABLES healthy, drops

healthVars == <<healthy, drops>>

HealthInit == healthy = FALSE /\ drops = 0

Recover == ~healthy /\ healthy' = TRUE /\ UNCHANGED drops

CountedDrop == healthy' = FALSE /\ drops' = drops + 1

ExplicitEnd == healthy /\ healthy' = FALSE /\ UNCHANGED drops

HealthNext(explicit) == Recover \/ CountedDrop \/ (explicit /\ ExplicitEnd)
=============================================================================
