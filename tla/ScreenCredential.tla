-------------------------- MODULE ScreenCredential --------------------------
(***************************************************************************)
(* What device enrollment promises about the credential of a Screen,       *)
(* whatever grants, candidates and approvals lead to it: a Screen has at    *)
(* most one live device key, a key serves once and is spent for ever, and   *)
(* every change of the live key moves the Screen to a later generation.     *)
(*                                                                         *)
(* The in-memory DataStore (store/memory.ts), which runs each operation as  *)
(* one synchronous step, is the source of the actions.  DeviceEnrollment    *)
(* (the PostgreSQL DataStore) is shown to implement this specification and  *)
(* DeviceProof uses it as the credential life cycle under which device      *)
(* requests run.                                                            *)
(***************************************************************************)
EXTENDS Naturals, FiniteSets

CONSTANTS
    Screens,          \* Screen identifiers, never reused
    Keys,             \* device public-key fingerprints (keyId)
    MaxGeneration     \* bound on credentialGeneration

ASSUME MaxGenerationAssumption == MaxGeneration \in Nat

VARIABLES
    phase,        \* [Screens -> Phases], whether the Screen row exists
    generation,   \* [Screens -> Nat], Screen.credentialGeneration
    live,         \* [Screens -> SUBSET Keys], unrevoked attached credentials
    spent         \* SUBSET Keys, DeviceKeyTombstone

credentialVars == <<phase, generation, live, spent>>

Phases == {"UNCREATED", "ACTIVE", "DELETED"}

CredentialTypeOK ==
    /\ phase \in [Screens -> Phases]
    /\ generation \in [Screens -> 0 .. MaxGeneration]
    /\ live \in [Screens -> SUBSET Keys]
    /\ spent \in SUBSET Keys

CredentialInit ==
    /\ phase = [s \in Screens |-> "UNCREATED"]
    /\ generation = [s \in Screens |-> 0]
    /\ live = [s \in Screens |-> {}]
    /\ spent = {}

(* An operator creates the Screen; it has no identity yet. *)
CreateScreen(s) ==
    /\ phase[s] = "UNCREATED"
    /\ phase' = [phase EXCEPT ![s] = "ACTIVE"]
    /\ UNCHANGED <<generation, live, spent>>

(* A candidate is activated: a key never seen before becomes the identity. *)
Install(s, k) ==
    /\ phase[s] = "ACTIVE"
    /\ live[s] = {}
    /\ k \notin spent
    /\ generation[s] < MaxGeneration
    /\ live' = [live EXCEPT ![s] = {k}]
    /\ spent' = spent \union {k}
    /\ generation' = [generation EXCEPT ![s] = @ + 1]
    /\ UNCHANGED phase

(* Revocation, a replacement request or a reasserted revocation: whatever
   was live is detached and the generation moves on. *)
Fence(s) ==
    /\ phase[s] = "ACTIVE"
    /\ generation[s] < MaxGeneration
    /\ live' = [live EXCEPT ![s] = {}]
    /\ generation' = [generation EXCEPT ![s] = @ + 1]
    /\ UNCHANGED <<phase, spent>>

(* The Screen is decommissioned. *)
RemoveScreen(s) ==
    /\ phase[s] = "ACTIVE"
    /\ phase' = [phase EXCEPT ![s] = "DELETED"]
    /\ live' = [live EXCEPT ![s] = {}]
    /\ UNCHANGED <<generation, spent>>

CredentialNext ==
    \E s \in Screens :
        \/ CreateScreen(s)
        \/ \E k \in Keys : Install(s, k)
        \/ Fence(s)
        \/ RemoveScreen(s)

CredentialSpec == CredentialInit /\ [][CredentialNext]_credentialVars

=============================================================================
