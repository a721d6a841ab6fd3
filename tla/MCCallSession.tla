---------------------------- MODULE MCCallSession ----------------------------
(* Small instances of CallSession for TLC. *)
EXTENDS CallSession, TLC

Symmetry == Permutations(VoiceTurns) \cup Permutations(Decisions) \cup Permutations(Whispers)
==============================================================================
