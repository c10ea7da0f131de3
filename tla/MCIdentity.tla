----------------------------- MODULE MCIdentity -----------------------------
(***************************************************************************)
(* A small instance of Identity: two users who own one organization and    *)
(* are both members of the other, so that each can take the last owner     *)
(* away together with the other and so that their disabling takes the      *)
(* rows of both organizations.                                             *)
(***************************************************************************)
EXTENDS Identity, TLC

CONSTANTS alice, bob, k1, k2, t1, t2

\* The transactions are interchangeable; no property is about fairness.
MCSymmetry == Permutations(Transactions) \cup Permutations(Tokens)

MCInitialRole ==
    [u \in Users |-> IF u = alice THEN <<"OWNER", "OWNER">>
                     ELSE <<"OWNER", "PUBLISHER">>]
=============================================================================
