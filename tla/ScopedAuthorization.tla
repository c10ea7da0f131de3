------------------------ MODULE ScopedAuthorization -------------------------
(***************************************************************************)
(* The policy core of scoped authorization, which for now only shadows the *)
(* role policy: whether the grants of a membership allow a capability on   *)
(* some screens.  A grant is [id, capability, scope, startsAt, expiresAt,  *)
(* revoked]; a scope is <<"ORGANIZATION", None>>, or a location, a group   *)
(* or a screen; a target is [screen, location, groups].  Three             *)
(* capabilities stand for the classes that the code distinguishes.         *)
(***************************************************************************)
EXTENDS Integers, FiniteSets

CONSTANT None

AllRoles == {"OWNER", "ADMIN", "PUBLISHER", "VIEWER"}

TargetScoped == {"releaseCandidateCreate", "releaseApprove"}

OrganizationScoped == {"mediaRead"}

Capabilities == TargetScoped \cup OrganizationScoped

\* COMPATIBILITY_GRANT_CAPABILITIES, the role ceiling of these capabilities.
CompatibilityGrants ==
    [OWNER |-> Capabilities, ADMIN |-> Capabilities,
     PUBLISHER |-> {"releaseCandidateCreate", "mediaRead"},
     VIEWER |-> {"mediaRead"}]

HasCapability(role, capability) ==
    role \in AllRoles /\ capability \in CompatibilityGrants[role]

\* activeGrant
ActiveGrant(grant, capability, at) ==
    /\ grant.capability = capability /\ ~grant.revoked
    /\ grant.startsAt <= at
    /\ grant.expiresAt # None => grant.expiresAt > at

CoversTarget(grant, target) ==
    CASE grant.scope[1] = "ORGANIZATION" -> TRUE
      [] grant.scope[1] = "LOCATION" -> target.location = grant.scope[2]
                                        /\ target.location # None
      [] grant.scope[1] = "SCREEN_GROUP" -> grant.scope[2] \in target.groups
      [] grant.scope[1] = "SCREEN" -> target.screen = grant.scope[2]

\* evaluateScopedAuthorization: the reason of the decision.
Evaluate(role, capability, grants, targets, at) ==
    LET active == {g \in grants : ActiveGrant(g, capability, at)} IN
    CASE capability \notin Capabilities -> "UNKNOWN_CAPABILITY"
      [] capability \in Capabilities /\ ~HasCapability(role, capability) ->
            "ROLE_CEILING_DENIED"
      [] HasCapability(role, capability) /\ capability \in OrganizationScoped ->
            IF targets # {} THEN "ORGANIZATION_SCOPE_REQUIRED"
            ELSE IF \E g \in active : g.scope[1] = "ORGANIZATION"
                 THEN "ALLOWED" ELSE "SCOPE_DENIED"
      [] HasCapability(role, capability) /\ capability \in TargetScoped ->
            IF targets = {} THEN "TARGETS_REQUIRED"
            ELSE IF \A t \in targets : \E g \in active : CoversTarget(g, t)
                 THEN "ALLOWED" ELSE "SCOPE_DENIED"

\* evaluatedAuthorizationShadow: what is recorded beside a role decision
\* that allowed the operation.
MismatchKind(reason) ==
    IF reason = "ALLOWED" THEN "NONE" ELSE "LEGACY_ALLOW_SCOPED_DENY"
=============================================================================
