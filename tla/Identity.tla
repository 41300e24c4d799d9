------------------------------- MODULE Identity -------------------------------
(***************************************************************************)
(* Who a request comes from (api/principal.py, models/principal.py, the    *)
(* entra half of core/config.py): the headers of a trusted gateway or the  *)
(* claims of a verified Entra token, and what becomes of each defect.      *)
(*                                                                         *)
(* A credential is what the request carries, read in the order of the      *)
(* code; an identifier, a scope or a role is a model value.  Malformed     *)
(* stands for a value of the wrong type or alphabet, Absent for a missing  *)
(* one.  A header or claim that may come several times or hold a list is a *)
(* sequence.                                                               *)
(***************************************************************************)
EXTENDS Naturals, Sequences, SequencesExt

CONSTANTS
    Identifiers,  \* what IDENTIFIER_RE accepts
    MaxGroups,    \* MAX_GROUPS and MAX_GROUP_ID_TOKENS
    Absent,
    Malformed

Principals == [tenant : Identifiers, user : Identifiers, groups : SUBSET Identifiers]
Names == [tenant : Identifiers, user : Identifiers]

ASSUME SentinelsAssumption ==
    /\ {Absent, Malformed} \cap (Identifiers \cup Principals) = {}
    /\ Absent \notin Names

\* What Settings accepts: in entra mode a tenant, and at least one gate.
Configured(settings) ==
    \/ settings.mode = "headers"
    \/ /\ settings.mode = "entra"
       /\ settings.tenant \in Identifiers
       /\ {settings.scope, settings.role} # {Absent}

\* Why the audit log says a caller was refused (AuthRejectionReason).
HeaderReasons == {"headers_missing", "headers_invalid"}
BearerReasons == {"bearer_missing", "token_invalid"}

Admitted(principal) == [status |-> 200, reason |-> Absent, principal |-> principal]
Unauthorized(reason) == [status |-> 401, reason |-> reason, principal |-> Absent]
InsufficientScope(principal) ==
    [status |-> 403, reason |-> "permission_missing", principal |-> principal]

\* A Principal, or Malformed where the model refuses the fields.  The groups
\* are counted before duplicates are dropped.
Principal(tenant, user, groups) ==
    IF {tenant, user} \cup ToSet(groups) \subseteq Identifiers /\ Len(groups) <= MaxGroups
    THEN [tenant |-> tenant, user |-> user, groups |-> ToSet(groups)]
    ELSE Malformed

-----------------------------------------------------------------------------
(* Headers of the gateway: X-Tenant-Id, X-User-Id, X-Group-Ids.            *)

\* X-Group-Ids: a value is a sequence of the parts between its commas, Absent
\* where nothing but blanks is left.
Blank(value) == value.parts = <<Absent>>

IllFormedGroupIds(values) ==
    \/ Len(values) > 1
    \/ /\ Len(values) = 1 /\ ~Blank(values[1])
       /\ \/ values[1].oversized
          \/ Absent \in ToSet(values[1].parts)
          \/ Len(values[1].parts) > MaxGroups

GroupIds(values) == IF values = <<>> \/ Blank(values[1]) THEN <<>> ELSE values[1].parts

ResolveHeaders(headers) ==
    LET wrongCount == Len(headers.tenants) # 1 \/ Len(headers.users) # 1
        missing == headers.tenants = <<>> \/ (Len(headers.tenants) = 1 /\ headers.users = <<>>)
        principal == Principal(headers.tenants[1], headers.users[1], GroupIds(headers.groups))
    IN CASE missing -> Unauthorized("headers_missing")
         [] ~missing /\ (wrongCount \/ IllFormedGroupIds(headers.groups)) ->
                Unauthorized("headers_invalid")
         [] OTHER -> IF principal = Malformed THEN Unauthorized("headers_invalid")
                                              ELSE Admitted(principal)

-----------------------------------------------------------------------------
(* An Entra access token.                                                  *)

\* _parse_bearer_token: exactly two parts, the scheme and a token.
WellFormedBearer(values) ==
    /\ Len(values) = 1
    /\ ~values[1].oversized
    /\ values[1].scheme = "bearer"
    /\ values[1].token # Absent

\* EntraTokenVerifier.verify: the first of the checks a token fails.
Flaws == {"header_unreadable", "algorithm", "no_key_id", "unknown_key", "signature", "expired",
          "issuer", "audience", "missing_claim"}
Verified(token) == token.flaw \notin Flaws

OverageByFlag(claims) == claims.hasgroups \notin {Absent, FALSE}

\* The two ways in which Entra says that a user has more groups than it lists.
Overage(claims) ==
    \/ claims.hasgroups \notin {Absent, FALSE}
    \/ /\ claims.claim_names # Absent
       /\ claims.claim_names = Malformed \/ "groups" \in claims.claim_names

\* _principal_from with _group_ids.
PrincipalFrom(settings, claims) ==
    LET groups == IF claims.groups = Absent THEN <<>> ELSE claims.groups
    IN IF claims.tid # settings.tenant \/ Overage(claims) \/ groups = Malformed
       THEN Malformed
       ELSE Principal(claims.tid, claims.oid, groups)

\* _require_permission: the presence of scp decides which gate a token meets.
\* A gate that is not configured (Absent) lets nobody through.
RequirePermission(settings, claims, principal) ==
    LET gate == IF claims.scp # Absent
                THEN [held |-> claims.scp, required |-> settings.scope]
                ELSE [held |-> IF claims.roles = Absent THEN {} ELSE claims.roles,
                      required |-> settings.role]
    IN IF gate.held = Malformed THEN Unauthorized("token_invalid")
       ELSE IF gate.required \in gate.held THEN Admitted(principal)
       ELSE InsufficientScope(principal)

\* EntraJwtPrincipalResolver.resolve: the identity before the permission.
ResolveToken(settings, values) ==
    IF values = <<>> THEN Unauthorized("bearer_missing")
    ELSE IF ~WellFormedBearer(values) \/ ~Verified(values[1].token)
         THEN Unauthorized("token_invalid")
    ELSE LET claims == values[1].token.claims
             principal == PrincipalFrom(settings, claims)
         IN IF principal = Malformed THEN Unauthorized("token_invalid")
            ELSE RequirePermission(settings, claims, principal)

\* The adapter that AUTH_MODE chose at startup.
Resolve(settings, credential) ==
    IF settings.mode = "headers" THEN ResolveHeaders(credential)
                                 ELSE ResolveToken(settings, credential)

-----------------------------------------------------------------------------
(* The event auth.rejected.                                                *)

AuthRejected(settings, verdict) ==
    [event |-> "auth.rejected", mode |-> settings.mode, status |-> verdict.status,
     reason |-> verdict.reason,
     who |-> IF verdict.principal = Absent THEN Absent
             ELSE [tenant |-> verdict.principal.tenant, user |-> verdict.principal.user]]

\* AuthRejected._identity_rules.
AcceptsRejection(e) ==
    /\ e.status = 401 <=> e.who = Absent
    /\ e.status = 403 <=> e.reason = "permission_missing"
    /\ e.mode = "headers" => e.status = 401 /\ e.reason \in HeaderReasons
    /\ e.mode = "entra" /\ e.status = 401 => e.reason \in BearerReasons
=============================================================================
