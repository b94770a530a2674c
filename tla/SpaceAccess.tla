---------------------------- MODULE SpaceAccess -----------------------------
(***************************************************************************)
(* Spaces, their members, and the keys that act for members:               *)
(*   application/services/space_service.py, api_key_service.py,            *)
(*   authorization_service.py, permission_service.py, domain/authorization *)
(*   .py, domain/permission_profiles.py, presentation/auth.py and the      *)
(*   routes on spaces and API keys of routers/management.py.               *)
(* A request is authenticated in one transaction (the principal it gets is  *)
(* not looked at again) and handled in another.  Step-up is recent, sessions*)
(* are not restricted (Members has both); a refusal ends the request.       *)
(***************************************************************************)
EXTENDS Naturals, FiniteSets

CONSTANTS Users, Admins,     \* members; those with the system role super_admin
          Spaces, Keys,      \* rows of workspaces and of personal_api_keys
          Callers,           \* requests under way at once
          ScopeChoices,      \* the scope sets and profiles keys are asked for
          ProfileChoices,
          GroupRoles,        \* the roles the provider's groups map to
          Anywhere,          \* space_grants IS NULL: no restriction
          NoOne              \* no member, no key, no profile

ASSUME AccessAssumption ==
  /\ IsFiniteSet(Users)
  /\ NoOne \notin Users \cup Keys
  /\ \A granted \in SUBSET Spaces : granted # Anywhere

VARIABLES enabled,   \* enabled[u]: members.status is active
          space,     \* space[s]: "absent", "open" or "archived"
          role,      \* role[s][u]: the membership
          key,       \* key[k]: the key, its scopes and grants
          call       \* call[q]: the principal of a request under way

accessVars == <<enabled, space, role, key, call>>

-----------------------------------------------------------------------------
(* Permissions.                                                             *)

Actions == {"member:admin", "space:create", "space:read", "space:update",
            "space:archive", "membership:manage", "content:read",
            "content:write", "api_key:manage", "session:manage"}

SpaceActions ==
  [r \in {"reader", "editor", "owner"} |->
     CASE r = "reader" -> {"space:read", "content:read"}
       [] r = "editor" -> {"space:read", "content:read", "space:update", "content:write"}
       [] r = "owner"  -> {"space:read", "content:read", "space:update", "content:write",
                           "space:archive", "membership:manage"}]

ScopeOf ==
  [a \in Actions |->
     CASE a = "content:read" -> "knowledge:read"
       [] a = "content:write" -> "knowledge:write"
       [] a = "space:read" -> "spaces:read"
       [] a \in {"space:create", "space:update", "space:archive"} -> "spaces:write"
       [] a = "membership:manage" -> "spaces:members"
       [] a = "api_key:manage" -> "api_keys:write"
       [] a = "session:manage" -> "sessions:write"
       [] a = "member:admin" -> "members:write"]

ServiceProfiles == {"reader", "project_contributor", "trusted_maintainer", "import_worker"}
Profiles == ServiceProfiles \cup {"human_admin"}

Contributing == {"knowledge:read", "knowledge:write", "spaces:read", "chat:write"}

ProfileScopes ==
  [f \in Profiles |->
     CASE f = "reader" -> Contributing \ {"knowledge:write"}
       [] f \in {"project_contributor", "import_worker"} -> Contributing
       [] f = "trusted_maintainer" -> Contributing \cup {"spaces:write", "spaces:members"}
       [] f = "human_admin" -> {"*"}]

ProfileRoutine ==
  [f \in Profiles |->
     CASE f = "reader" -> {"content:read", "space:read"}
       [] f \in {"project_contributor", "import_worker"} ->
            {"content:read", "content:write", "space:read"}
       [] f = "trusted_maintainer" ->
            SpaceActions["owner"] \cup {"space:create"}
       [] f = "human_admin" -> Actions]

Sensitive == {"member:admin", "membership:manage", "space:archive",
              "api_key:manage", "session:manage"}

Grants == (SUBSET Spaces) \cup {Anywhere}
ScopeSets == {{}, {"*"}} \cup ScopeChoices \cup {ProfileScopes[f] : f \in ProfileChoices}

\* The personal_api_keys row; parent: the key a service key was created with.
KeyRow == [status : {"absent", "active", "revoked", "expired"}, user : Users \cup {NoOne},
           scopes : ScopeSets, grants : Grants, service : BOOLEAN,
           profile : ProfileChoices \cup {NoOne}, parent : Keys \cup {NoOne}]

\* grants: the spaces a key may act in; via: the key; fresh: the spaces whose
\* revision the client has read.
Principal == [user : Users, kind : {"session", "api_key", "service"}, scopes : ScopeSets,
              grants : Grants, profile : ProfileChoices \cup {NoOne}, via : Keys \cup {NoOne},
              fresh : SUBSET Spaces]

Idle == [user |-> NoOne]      \* no request

HasScope(p, a) == "*" \in p.scopes \/ ScopeOf[a] \in p.scopes

\* is_allowed; r is the role in the space the action is about, or "none".
IsAllowed(p, r, a) ==
  /\ HasScope(p, a)
  /\ \/ a \in {"api_key:manage", "session:manage", "space:create"}
     \/ a = "member:admin" /\ p.user \in Admins
     \/ r # "none" /\ a \in SpaceActions[r]

\* A session counts as the profile human_admin; a key may have none.
ProfileOf(p) == IF p.profile = NoOne /\ p.kind = "session" THEN "human_admin" ELSE p.profile

\* What only a session may do: everything a human_admin does, and the
\* sensitive operations.
RequiresSession(f, a) == f = "human_admin" \/ a \in Sensitive

\* require_profile_operation; a key without a profile is not looked at.
RequireProfile(p, a) ==
  LET f == ProfileOf(p)
  IN f # NoOne => IF RequiresSession(f, a) THEN p.kind = "session"
                  ELSE a \in ProfileRoutine[f]

\* require_scope and require_profile_route: what every route asks first.
Admit(q, a) == call[q] # Idle /\ HasScope(call[q], a) /\ RequireProfile(call[q], a)

\* authorize_space, which the reading and writing of content goes through.
AuthorizeSpace(p, s, a) ==
  /\ p.grants # Anywhere => s \in p.grants
  /\ enabled[p.user] /\ space[s] = "open" /\ role[s][p.user] # "none"
  /\ IsAllowed(p, role[s][p.user], a)

\* effective_space_ids: where a search of the principal looks.
EffectiveSpaces(p) ==
  {s \in Spaces : /\ p.grants # Anywhere => s \in p.grants
                  /\ enabled[p.user] /\ space[s] = "open" /\ role[s][p.user] # "none"}

-----------------------------------------------------------------------------
NoKey == [status |-> "absent", user |-> NoOne, scopes |-> {}, grants |-> Anywhere,
          service |-> FALSE, profile |-> NoOne, parent |-> NoOne]

\* The first administrator owns the shared space; further members are editors.
AccessInit == /\ enabled = [u \in Users |-> TRUE]
              /\ \E g \in Spaces, a \in Admins :
                   /\ space = [s \in Spaces |-> IF s = g THEN "open" ELSE "absent"]
                   /\ role = [s \in Spaces |-> [u \in Users |->
                        IF s # g THEN "none" ELSE IF u = a THEN "owner" ELSE "editor"]]
              /\ key = [k \in Keys |-> NoKey]
              /\ call = [q \in Callers |-> Idle]

Done(q) == call' = [call EXCEPT ![q] = Idle]
\* space.revision + 1: what clients have read of the space is out of date.
Bump(q, s) == call' = [c \in Callers |->
                         IF c = q THEN Idle
                         ELSE IF call[c] = Idle THEN Idle
                         ELSE [call[c] EXCEPT !.fresh = @ \ {s}]]

\* The middleware: a session of an active member, or a key (resolve).
ResolveSession(q, u) ==
  /\ call[q] = Idle /\ enabled[u]
  /\ call' = [call EXCEPT ![q] =
       [user |-> u, kind |-> "session", scopes |-> {"*"}, grants |-> Anywhere,
        profile |-> NoOne, via |-> NoOne, fresh |-> Spaces]]
  /\ UNCHANGED <<enabled, space, role, key>>

LiveGrants_None(k) == LET live == {s \in key[k].grants : role[s][key[k].user] # "none"}
                      IN IF key[k].grants = Anywhere \/ live = {} THEN Anywhere ELSE live

LiveGrants(k) == IF key[k].grants = Anywhere THEN Anywhere
                 ELSE {s \in key[k].grants : role[s][key[k].user] # "none"}

ResolveKey(q, k) ==
  /\ call[q] = Idle
  /\ key[k].status = "active" /\ enabled[key[k].user]
  /\ call' = [call EXCEPT ![q] =
       [user |-> key[k].user, kind |-> IF key[k].service THEN "service" ELSE "api_key",
        scopes |-> key[k].scopes, grants |-> LiveGrants(k),
        profile |-> key[k].profile, via |-> k, fresh |-> Spaces]]
  /\ UNCHANGED <<enabled, space, role, key>>

\* Reading and writing content, and every request that is refused.
Finish(q) == call[q] # Idle /\ Done(q) /\ UNCHANGED <<enabled, space, role, key>>

-----------------------------------------------------------------------------
(* Spaces.                                                                  *)

CreateSpace(q, s) ==
  LET p == call[q] IN
  /\ space[s] = "absent" /\ enabled[p.user] /\ IsAllowed(p, "none", "space:create")
  /\ space' = [space EXCEPT ![s] = "open"]
  /\ role' = [role EXCEPT ![s][p.user] = "owner"]
  /\ Done(q) /\ UNCHANGED <<enabled, key>>

Owners(s) == {u \in Users : role[s][u] = "owner"}

KeepsOwner_OthersOnly(s, u) == role[s][u] = "owner" => Cardinality(Owners(s)) >= 1

\* _protect_owner_invariant
KeepsOwner(s, u) == role[s][u] = "owner" => Cardinality(Owners(s)) > 1
\* to = "none" removes the membership; nobody is made owner this way.
SetMembership(q, s, u, to) ==
  LET p == call[q] IN
  /\ space[s] = "open" /\ enabled[p.user] /\ role[s][p.user] = "owner"
  /\ IsAllowed(p, "owner", "membership:manage")
  /\ IF to = "none" THEN role[s][u] # "none" ELSE enabled[u] /\ role[s][u] # to
  /\ KeepsOwner(s, u)
  /\ role' = [role EXCEPT ![s][u] = to]
  /\ Bump(q, s) /\ UNCHANGED <<enabled, space, key>>

\* emergency: a super admin need not own the space.
TransferOwnership(q, s, u, emergency) ==
  LET p == call[q] IN
  /\ p.kind = "session" /\ space[s] = "open" /\ s \in p.fresh
  /\ enabled[p.user] /\ enabled[u]
  /\ IF emergency THEN p.user \in Admins ELSE role[s][p.user] = "owner"
  /\ role' = [role EXCEPT ![s] =
       [v \in Users |-> IF v = u THEN "owner"
                        ELSE IF @[v] = "owner" THEN "editor" ELSE @[v]]]
  /\ Bump(q, s) /\ UNCHANGED <<enabled, space, key>>

ArchiveSpace(q, s) ==
  LET p == call[q] IN
  /\ space[s] = "open" /\ enabled[p.user] /\ IsAllowed(p, role[s][p.user], "space:archive")
  /\ space' = [space EXCEPT ![s] = "archived"]
  /\ Bump(q, s) /\ UNCHANGED <<enabled, role, key>>

\* The sizes themselves are data; the revision moves.
UpdateChunkPolicy(q, s) ==
  LET p == call[q] IN
  /\ space[s] = "open" /\ enabled[p.user]
  /\ role[s][p.user] = "owner" /\ IsAllowed(p, "owner", "space:update")
  /\ Bump(q, s) /\ UNCHANGED <<enabled, space, role, key>>

-----------------------------------------------------------------------------
(* Keys.                                                                    *)

Owned(u, g) == \A s \in g : space[s] # "absent" /\ role[s][u] # "none"

CreateKey(q, k, scopes, g, f) ==
  LET p == call[q] IN
  /\ p.kind = "session"
  /\ key[k].status = "absent" /\ enabled[p.user]
  /\ f \notin {NoOne, "human_admin"} => scopes \subseteq ProfileScopes[f] \cup {"api_keys:write"}
  /\ g # Anywhere => g # {} /\ Owned(p.user, g)
  /\ key' = [key EXCEPT ![k] = [status |-> "active", user |-> p.user, scopes |-> scopes,
                                grants |-> g, service |-> FALSE, profile |-> f, parent |-> NoOne]]
  /\ Done(q) /\ UNCHANGED <<enabled, space, role>>

\* A session or a key of a member may create one, a service key may not; a key
\* that is restricted to spaces hands on no others.
CreateServiceKey(q, k, g, f) ==
  LET p == call[q] IN
  /\ p.kind # "service" /\ IsAllowed(p, "none", "api_key:manage")
  /\ key[k].status = "absent" /\ enabled[p.user]
  /\ g # {} /\ Owned(p.user, g)
  /\ p.grants # Anywhere => g \subseteq p.grants
  /\ key' = [key EXCEPT ![k] = [status |-> "active", user |-> p.user, scopes |-> ProfileScopes[f],
                                grants |-> g, service |-> TRUE, profile |-> f, parent |-> p.via]]
  /\ Done(q) /\ UNCHANGED <<enabled, space, role>>

RevokeKey(q, k) ==
  LET p == call[q] IN
  /\ key[k].status # "absent"
  /\ p.user = key[k].user \/ p.user \in Admins
  /\ key' = [key EXCEPT ![k].status = "revoked"]
  /\ Done(q) /\ UNCHANGED <<enabled, space, role>>

\* Time, member administration and the identity provider.
ExpireKey(k) == /\ key[k].status = "active"
                /\ key' = [key EXCEPT ![k].status = "expired"]
                /\ UNCHANGED <<enabled, space, role, call>>

SetStatus(u) ==
  /\ enabled' = [enabled EXCEPT ![u] = ~@]
  /\ key' = [k \in Keys |-> IF enabled[u] /\ key[k].user = u /\ key[k].status = "active"
                            THEN [key[k] EXCEPT !.status = "revoked"] ELSE key[k]]
  /\ UNCHANGED <<space, role, call>>

\* A login through the provider sets the memberships to what the groups map to;
\* no revision moves.
ProviderLogin(u, r) ==
  /\ enabled[u] /\ \A s \in Spaces : r[s] # "none" => space[s] # "absent"
  /\ role' = [s \in Spaces |-> [role[s] EXCEPT ![u] = r[s]]]
  /\ UNCHANGED <<enabled, space, key, call>>

SpaceRoles == {"none", "reader", "editor", "owner"}

Provision(u) == \E r \in [Spaces -> GroupRoles \cup {"none"}] : ProviderLogin(u, r)

-----------------------------------------------------------------------------
(* The routes, under their names in routers/management.py.  The idempotency   *)
(* record around each is in IdempotentCommands.                               *)

create_space(q, s) == Admit(q, "space:create") /\ CreateSpace(q, s)
update_space_chunk_policy(q, s) == Admit(q, "space:update") /\ UpdateChunkPolicy(q, s)
archive_space(q, s) == Admit(q, "space:archive") /\ ArchiveSpace(q, s)
set_space_membership(q, s, u, to) == Admit(q, "membership:manage") /\ SetMembership(q, s, u, to)
remove_space_membership(q, s, u) == Admit(q, "membership:manage") /\ SetMembership(q, s, u, "none")
transfer_space_ownership(q, s, u) ==
  Admit(q, "membership:manage") /\ TransferOwnership(q, s, u, FALSE)
emergency_transfer_space_ownership(q, s, u) ==
  Admit(q, "member:admin") /\ TransferOwnership(q, s, u, TRUE)

create_api_key(q, k, scopes, g, f) == Admit(q, "api_key:manage") /\ CreateKey(q, k, scopes, g, f)
create_service_key(q, k, g, f) == Admit(q, "api_key:manage") /\ CreateServiceKey(q, k, g, f)
revoke_api_key(q, k) == Admit(q, "api_key:manage") /\ RevokeKey(q, k)

SpaceStep(q) ==
  \/ Finish(q)
  \/ \E s \in Spaces :
       \/ create_space(q, s) \/ archive_space(q, s) \/ update_space_chunk_policy(q, s)
       \/ \E u \in Users :
            \/ \E to \in SpaceRoles \ {"none", "owner"} : set_space_membership(q, s, u, to)
            \/ remove_space_membership(q, s, u)
            \/ transfer_space_ownership(q, s, u) \/ emergency_transfer_space_ownership(q, s, u)

KeyStep(q) ==
  \/ \E k \in Keys : ResolveKey(q, k) \/ revoke_api_key(q, k)
  \/ \E k \in Keys, g \in SUBSET Spaces :
       \/ \E scopes \in ScopeChoices, f \in ProfileChoices \cup {NoOne} :
            create_api_key(q, k, scopes, IF g = {} THEN Anywhere ELSE g, f)
       \/ \E f \in ProfileChoices : create_service_key(q, k, g, f)

AccessNext ==
  \/ \E q \in Callers : (\E u \in Users : ResolveSession(q, u)) \/ SpaceStep(q) \/ KeyStep(q)
  \/ \E k \in Keys : ExpireKey(k)
  \/ \E u \in Users : SetStatus(u) \/ Provision(u)

AccessSpec == AccessInit /\ [][AccessNext]_accessVars

-----------------------------------------------------------------------------
(* Properties.                                                              *)

\* A service key reaches no space that the key it was created with was not
\* granted, whatever happened to the memberships in between (resolve narrows
\* the grants to live memberships; none left is not the same as unrestricted).
DelegationNarrows ==
  \A k \in Keys : LET parent == key[k].parent IN
    parent # NoOne /\ key[parent].grants # Anywhere =>
      key[k].grants # Anywhere /\ key[k].grants \subseteq key[parent].grants

\* A space that has an owner keeps one through every request of its members and
\* of administrators, overlapping ones with outdated principals included; only
\* a login through the identity provider may take it away.
OwnerKept ==
  [][(\E u \in Users : Provision(u)) \/ \A s \in Spaces : Owners(s) # {} => Owners(s)' # {}]_accessVars
=============================================================================
