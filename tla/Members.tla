------------------------------ MODULE Members -------------------------------
(***************************************************************************)
(* Members and their sessions as administration sees them:                 *)
(*   application/services/member_administration_service.py,                *)
(*   identity_service.py, bootstrap_service.py, oidc_service.py            *)
(*   and the routes that call them.                                        *)
(* A request is authenticated in one transaction and handled in another.    *)
(* Passwords and codes are right or the request is refused; a session       *)
(* family is open or closed (Sessions has its tokens) and a closed one      *)
(* leaves its place to a new one.                                           *)
(***************************************************************************)
EXTENDS Naturals, FiniteSets

CONSTANTS Members,     \* rows of members
          Families,    \* places for open session families
          Requests,    \* requests under way at once
          None         \* no member, no family

ASSUME MemberAssumption == None \notin Members \cup Families

VARIABLES member,    \* member[m]: the row, its MFA factors and its mapped spaces
          owner,     \* owner[f]: whose open session family f is
          req,       \* req[q]: a request under way
          dropped    \* members the identity provider last reported without groups

memberVars == <<member, owner, req, dropped>>

Statuses == {"absent", "pending", "active", "disabled"}
Roles == {"super_admin", "member"}

MemberRow == [status : Statuses, role : Roles, force : BOOLEAN,
              mfa : BOOLEAN, enrolling : BOOLEAN, spaces : BOOLEAN]
Absent == [status |-> "absent", role |-> "member", force |-> TRUE,
           mfa |-> FALSE, enrolling |-> FALSE, spaces |-> FALSE]

\* The columns of a member that its own requests compare and assign.
Account == [status : Statuses, role : Roles, force : BOOLEAN]
Load(r) == [status |-> r.status, role |-> r.role, force |-> r.force]

\* restricted, role: the Principal; seen: the member as the handler's session
\* loaded it; target, to: what member administration is asked for.
Request == [pc : {"idle", "authenticated", "loaded", "target", "counted"},
            actor : Members \cup {None}, family : Families \cup {None},
            role : Roles, restricted : BOOLEAN, seen : Account,
            target : Members \cup {None},
            to : [status : Statuses, role : Roles], admins : SUBSET Members]

\* A session and a request belong to a member that has a row.
MembersTypeOK == /\ member \in [Members -> MemberRow]
                 /\ owner \in [Families -> Members \cup {None}]
                 /\ req \in [Requests -> Request]
                 /\ dropped \subseteq Members
                 /\ \A f \in Families : owner[f] # None => member[owner[f]].status # "absent"
                 /\ \A q \in Requests : req[q].actor # None => member[req[q].actor].status # "absent"

NoRequest == [pc |-> "idle", actor |-> None, family |-> None,
              role |-> "member", restricted |-> TRUE, seen |-> Load(Absent),
              target |-> None,
              to |-> [status |-> "absent", role |-> "member"], admins |-> {}]

MemberInit == /\ member = [m \in Members |-> Absent]
              /\ owner = [f \in Families |-> None]
              /\ req = [q \in Requests |-> NoRequest]
              /\ dropped = {}

Done(q) == req' = [req EXCEPT ![q] = NoRequest]

ActiveAdmins == {m \in Members : member[m].status = "active" /\ member[m].role = "super_admin"}

Restricted(r) == r.force \/ r.status # "active"

-----------------------------------------------------------------------------
(* Row locks.  Member administration keeps the rows it has read FOR UPDATE   *)
(* and the family it acts under until it commits.                           *)

\* Seeded fault: the rows are read without FOR UPDATE.
Rows_Unlocked(q) == {}

Rows(q) == CASE req[q].pc = "target" -> {req[q].target}
             [] req[q].pc = "counted" -> {req[q].target} \cup req[q].admins
             [] OTHER -> {}

RowFree(m, q) == \A p \in Requests \ {q} : m \notin Rows(p)

FamilyFree(f, q) ==
  \A p \in Requests \ {q} : req[p].pc \in {"target", "counted"} => req[p].family # f

FamiliesOf(m) == {f \in Families : owner[f] = m}
FamiliesFree(m, q) == \A f \in FamiliesOf(m) : FamilyFree(f, q)

\* A place for a new family that no other request still refers to.
Vacant(f, m, q) ==
  /\ owner[f] \in {None, m}
  /\ \A p \in Requests \ {q} : req[p].pc # "idle" => req[p].family # f

Closed(m) == [f \in Families |-> IF owner[f] = m THEN None ELSE owner[f]]

-----------------------------------------------------------------------------
(* The host's command line and logins: one transaction each.                 *)

\* create_first_super_admin
Bootstrap(m) ==
  /\ \A n \in Members : member[n].role # "super_admin"
  /\ member[m].status = "absent"
  /\ member' = [member EXCEPT ![m] = [Absent EXCEPT !.status = "pending", !.role = "super_admin"]]
  /\ UNCHANGED <<owner, req, dropped>>

\* recover_super_admin
Recover(m) ==
  /\ member[m].status # "absent" /\ member[m].role = "super_admin"
  /\ \A q \in Requests : m \notin Rows(q) /\ FamiliesFree(m, q)
  /\ member' = [member EXCEPT ![m] = [@ EXCEPT !.status = "pending", !.force = TRUE,
                                               !.mfa = FALSE, !.enrolling = FALSE]]
  /\ owner' = Closed(m)
  /\ UNCHANGED <<req, dropped>>

FreePlace(f) == owner[f] = None /\ \A q \in Requests : req[q].pc # "idle" => req[q].family # f

\* login, with a second factor when the member has one; issue
Login(m, f) ==
  /\ member[m].status \in {"pending", "active"}
  /\ \A q \in Requests : m \notin Rows(q)
  /\ FreePlace(f)
  /\ owner' = [owner EXCEPT ![f] = m]
  /\ UNCHANGED <<member, req, dropped>>

\* authenticate_with_tokens: the row after a login through the identity provider.
Provisioned(r, role, groups) ==
  LET known == IF r.status = "absent" THEN [r EXCEPT !.status = "active", !.force = FALSE] ELSE r
      synced == [known EXCEPT !.role = role, !.spaces = groups] IN
  IF known.spaces /\ ~groups /\ known.status = "active"
  THEN [synced EXCEPT !.status = "disabled"] ELSE synced

\* oidc_callback refuses a member that is not active after provisioning; the
\* exception rolls the transaction back.
Accepted(r) == r.status = "active"

OidcCallback(m, role, groups, f) ==
  LET r == Provisioned(member[m], role, groups) IN
  /\ member[m].status # "disabled"
  /\ \A q \in Requests : m \notin Rows(q) /\ FamiliesFree(m, q)
  /\ FreePlace(f)
  /\ IF Accepted(r)
     THEN /\ member' = [member EXCEPT ![m] = r]
          /\ owner' = IF r.status = "active" THEN [owner EXCEPT ![f] = m] ELSE Closed(m)
     ELSE UNCHANGED <<member, owner>>
  /\ dropped' = IF member[m].spaces /\ ~groups THEN dropped \cup {m} ELSE dropped \ {m}
  /\ UNCHANGED req

-----------------------------------------------------------------------------
(* Requests with a session cookie.                                           *)

\* The middleware: resolve_access.
Authenticate(q, f) ==
  LET m == owner[f] IN
  /\ req[q].pc = "idle"
  /\ m # None /\ member[m].status # "disabled"
  /\ req' = [req EXCEPT ![q] = [NoRequest EXCEPT
       !.pc = "authenticated", !.actor = m, !.family = f, !.role = member[m].role,
       !.restricted = Restricted(member[m])]]
  /\ UNCHANGED <<member, owner, dropped>>

\* The handler refuses, fails, or is the victim of a deadlock: rolled back.
Abandon(q) ==
  /\ req[q].pc # "idle"
  /\ Done(q)
  /\ UNCHANGED <<member, owner, dropped>>

\* logout, revoke_session
CloseFamily(q, f) ==
  /\ req[q].pc = "authenticated"
  /\ f = req[q].family \/ (owner[f] = req[q].actor /\ ~req[q].restricted)
  /\ FamilyFree(f, q)
  /\ owner' = [owner EXCEPT ![f] = IF @ = req[q].actor THEN None ELSE @]
  /\ Done(q)
  /\ UNCHANGED <<member, dropped>>

\* The handlers below load the member, and later select it FOR UPDATE.  The
\* second query waits for the row but returns the object already loaded.
LoadSelf(q) ==
  /\ req[q].pc = "authenticated"
  /\ req' = [req EXCEPT ![q].pc = "loaded", ![q].seen = Load(member[req[q].actor])]
  /\ UNCHANGED <<member, owner, dropped>>

\* _verify_current_credentials, for a principal that is not restricted.
Verified(q) == req[q].restricted \/ ~Restricted(req[q].seen)

\* Seeded fault: the row becomes the object that was loaded.
Assigned_Replaces(row, seen, new) == new

\* What is written to the row: the attributes that differ from those loaded.
Assigned(row, seen, new) ==
  [a \in DOMAIN row |-> IF a \in DOMAIN seen /\ new[a] # seen[a] THEN new[a] ELSE row[a]]

\* change_password, its route, and the session and first API key it issues.
ChangePassword(q, f) ==
  LET m == req[q].actor
      seen == req[q].seen
      new == [seen EXCEPT !.force = FALSE,
                          !.status = IF seen.role = "member" THEN "active" ELSE @]
      needsMfa == seen.role = "super_admin" /\ ~member[m].mfa IN
  /\ req[q].pc = "loaded"
  /\ seen.status # "disabled" /\ Verified(q)
  /\ RowFree(m, q) /\ FamiliesFree(m, q) /\ Vacant(f, m, q)
  /\ new.status = "active" \/ needsMfa
  /\ member' = [member EXCEPT ![m] = Assigned(@, seen, new)]
  /\ owner' = [Closed(m) EXCEPT ![f] = m]
  /\ Done(q)
  /\ UNCHANGED dropped

\* begin_totp_enrollment
BeginEnrollment(q) ==
  LET m == req[q].actor IN
  /\ req[q].pc = "loaded"
  /\ req[q].seen.status # "disabled" /\ ~req[q].seen.force /\ Verified(q)
  /\ RowFree(m, q)
  /\ member' = [member EXCEPT ![m].enrolling = TRUE]
  /\ Done(q)
  /\ UNCHANGED <<owner, dropped>>

\* confirm_totp_enrollment, its route, and the session and first API key.
ConfirmEnrollment(q, f) ==
  LET m == req[q].actor
      seen == req[q].seen
      row == Assigned(member[m], seen, [seen EXCEPT !.status = "active"]) IN
  /\ req[q].pc = "loaded"
  /\ member[m].enrolling /\ ~seen.force /\ Verified(q)
  /\ seen.role = req[q].role
  /\ RowFree(m, q) /\ FamiliesFree(m, q) /\ Vacant(f, m, q)
  /\ member' = [member EXCEPT ![m] = [row EXCEPT !.mfa = TRUE, !.enrolling = FALSE]]
  /\ owner' = [Closed(m) EXCEPT ![f] = m]
  /\ Done(q)
  /\ UNCHANGED dropped

-----------------------------------------------------------------------------
(* Member administration.                                                    *)

\* _require_recent_super_admin; step-up is recent or the request is refused.
MayAdminister(q) ==
  /\ req[q].pc = "authenticated" /\ ~req[q].restricted /\ req[q].role = "super_admin"
  /\ owner[req[q].family] = req[q].actor
  /\ FamilyFree(req[q].family, q)

\* create
CreateMember(q, t) ==
  /\ MayAdminister(q)
  /\ member[t].status = "absent"
  /\ member' = [member EXCEPT ![t] = [Absent EXCEPT !.status = "pending"]]
  /\ Done(q)
  /\ UNCHANGED <<owner, dropped>>

\* reset_password
ResetPassword(q, t) ==
  /\ MayAdminister(q)
  /\ t # req[q].actor /\ member[t].status \in {"pending", "active"}
  /\ RowFree(t, q) /\ FamiliesFree(t, q)
  /\ member' = [member EXCEPT ![t].force = TRUE]
  /\ owner' = Closed(t)
  /\ Done(q)
  /\ UNCHANGED dropped

\* update, up to the lock on the member
LockTarget(q, t, status, role) ==
  /\ MayAdminister(q)
  /\ member[t].status # "absent"
  /\ RowFree(t, q)
  /\ req' = [req EXCEPT ![q] = [NoRequest EXCEPT
       !.pc = "target", !.family = req[q].family, !.target = t,
       !.to = [status |-> status, role |-> role]]]
  /\ UNCHANGED <<member, owner, dropped>>

\* the active super admins are locked and counted
CountAdmins(q) ==
  /\ req[q].pc = "target"
  /\ \A m \in ActiveAdmins : RowFree(m, q)
  /\ req' = [req EXCEPT ![q].pc = "counted", ![q].admins = ActiveAdmins]
  /\ UNCHANGED <<member, owner, dropped>>

\* the checks and the write
UpdateMember(q) ==
  LET t == req[q].target
      to == req[q].to
      promotes == to.role = "super_admin" /\ member[t].role # "super_admin" IN
  /\ req[q].pc = "counted"
  /\ t \in ActiveAdmins /\ (to.status # "active" \/ to.role # "super_admin") => Cardinality(req[q].admins) > 1
  /\ promotes => to.status = "active" /\ member[t].mfa
  /\ member' = [member EXCEPT ![t].status = to.status, ![t].role = to.role]
  /\ IF to.status = "disabled"
     THEN FamiliesFree(t, q) /\ owner' = Closed(t)
     ELSE UNCHANGED owner
  /\ Done(q)
  /\ UNCHANGED dropped

-----------------------------------------------------------------------------
HostStep(m) == Bootstrap(m) \/ Recover(m)

LoginStep(m) == \E f \in Families : Login(m, f)

OidcStep(m) ==
  \E f \in Families, role \in Roles, groups \in BOOLEAN : OidcCallback(m, role, groups, f)

SelfStep(q) ==
  \/ LoadSelf(q) \/ BeginEnrollment(q) \/ Abandon(q)
  \/ \E f \in Families : \/ Authenticate(q, f) \/ CloseFamily(q, f)
                         \/ ChangePassword(q, f) \/ ConfirmEnrollment(q, f)

AdminStep(q) ==
  \/ CountAdmins(q) \/ UpdateMember(q)
  \/ \E t \in Members : \/ CreateMember(q, t) \/ ResetPassword(q, t)
                        \/ \E status \in Statuses \ {"absent"}, role \in Roles :
                             LockTarget(q, t, status, role)

MemberNext == \/ \E m \in Members : HostStep(m) \/ LoginStep(m) \/ OidcStep(m)
              \/ \E q \in Requests : SelfStep(q) \/ AdminStep(q)

MemberSpec == MemberInit /\ [][MemberNext]_memberVars

-----------------------------------------------------------------------------
(* Properties.                                                              *)

\* Member administration keeps an administrator: when update commits, two super
\* admins changing each other or themselves at once included, an active super
\* admin is left if there was one.
AdminKept == [][ActiveAdmins # {} /\ (\E q \in Requests : UpdateMember(q)) => ActiveAdmins' # {}]_memberVars

\* "disables grant-less members": a member that logged in without any of the
\* groups that gave access has none of it left, and is disabled.
DroppedAreDisabled ==
  \A m \in dropped : member[m].status = "disabled" /\ ~member[m].spaces
=============================================================================
