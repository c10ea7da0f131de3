------------------------- MODULE MCDeviceEnrollment -------------------------
(* Instances of DeviceEnrollment for TLC; the cfg files give the bounds. *)
EXTENDS DeviceEnrollment, TLC

CONSTANTS GrantRows, AttemptRows    \* how many rows there are

MCGrants == 1 .. GrantRows
MCAttempts == 1 .. AttemptRows

(* Users, keys, Screens and idempotency keys are only compared for equality. *)
Symmetry == Permutations(Users) \union Permutations(Keys)
            \union Permutations(Screens) \union Permutations(RequestKeys)

=============================================================================
