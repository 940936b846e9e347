---------------------------- MODULE MCDenialLatch ----------------------------
(***************************************************************************)
(* Small instances of DenialLatch.  Calls and sessions are interchangeable.*)
(***************************************************************************)
EXTENDS DenialLatch, TLC

CallSymmetry == Permutations(Call)
Symmetry == Permutations(Call) \cup Permutations(Session)

=============================================================================
