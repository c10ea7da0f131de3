---------------------------- MODULE MCDeviceProof ----------------------------
(* Instance of DeviceProof for TLC; the cfg file gives the bounds. *)
EXTENDS DeviceProof, TLC

CONSTANTS ChallengeRows    \* how many challenge rows there are

MCChallenges == 1 .. ChallengeRows

(* Keys, Screens and handlers are only compared for equality. *)
Symmetry == Permutations(Keys) \union Permutations(Screens) \union Permutations(Handlers)

=============================================================================
