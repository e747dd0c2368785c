----------------------------- MODULE MCMobStore -----------------------------
(* Small instances of MobStore for TLC. *)
EXTENDS MobStore

CONSTANTS m1, m2, c1, c2

\* A process that booted from a file with a mob in it twice is not followed:
\* ExactlyOnce promises nothing about it.
SoundBoot == clean
=============================================================================
