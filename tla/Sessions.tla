------------------------------ MODULE Sessions ------------------------------
(***************************************************************************)
(* One session family, application/services/session_service.py, the refresh *)
(* and logout routes of presentation/routers/management_auth.py, and the    *)
(* browser that holds its cookies.  Tokens are numbered by the rotation     *)
(* that issued them.  The console serialises refreshes with a browser lock  *)
(* (web/lib/api-client.ts); the tabs here do not, and answers may be late   *)
(* or lost.                                                                *)
(***************************************************************************)
EXTENDS Naturals, FiniteSets

CONSTANTS Tabs,           \* requests to the refresh route under way
          MaxRotations    \* bound: rotations of the family

ASSUME SessionAssumption == MaxRotations \in Nat \ {0}

VARIABLES family,     \* the session_families row
          refresh,    \* refresh[g]: the refresh credential of rotation g
          access,     \* rotations whose access credential is not revoked
          outlived,   \* used refresh credentials that expire before the family
          disabled,   \* the member's account is disabled
          jar,        \* the browser's cookies
          tab,        \* tab[t]: a request of the browser to the refresh route
          stranger    \* a client other than the browser used the tokens

sessionVars == <<family, refresh, access, outlived, disabled, jar, tab, stranger>>

Gens == 1..(MaxRotations + 1)
Reasons == {"no", "expired", "refresh_reuse", "member_inactive", "member_admin", "sign_out"}

SessionFamily == [revoked : Reasons, expired : BOOLEAN, csrf : Gens]
RefreshCredential == {"none", "fresh", "grace", "used"}
TabState == [pc : {"idle", "csrf", "sent", "answered"}, csrf : Gens, refresh : Gens]

Issued == {g \in Gens : refresh[g] # "none"}

\* Every token in circulation, spent ones included, has its credential row:
\* reuse of a token that left no row could not be recognised.
SessionTypeOK == /\ family \in SessionFamily
                 /\ refresh \in [Gens -> RefreshCredential]
                 /\ access \subseteq Issued
                 /\ outlived \subseteq Issued
                 /\ disabled \in BOOLEAN /\ stranger \in BOOLEAN
                 /\ jar \in [refresh : Issued, csrf : Issued]
                 /\ tab \in [Tabs -> TabState]
                 /\ \A t \in Tabs : {tab[t].csrf, tab[t].refresh} \subseteq Issued

\* issue, and the cookies of the login answer
SessionInit ==
  /\ family = [revoked |-> "no", expired |-> FALSE, csrf |-> 1]
  /\ refresh = [g \in Gens |-> IF g = 1 THEN "fresh" ELSE "none"]
  /\ access = {1}
  /\ outlived = {}
  /\ disabled = FALSE
  /\ jar = [refresh |-> 1, csrf |-> 1]
  /\ tab = [t \in Tabs |-> [pc |-> "idle", csrf |-> 1, refresh |-> 1]]
  /\ stranger = FALSE

Newest == CHOOSE g \in Issued : \A h \in Issued : h <= g

-----------------------------------------------------------------------------
(* rotate_refresh.  The family is locked before anything is decided.         *)

\* Seeded fault: the CSRF token is looked at after the refresh token.
Verdict_CsrfLast(g, c, lapsed) ==
  IF family.revoked # "no" THEN "denied"
  ELSE IF family.expired \/ (lapsed /\ g \in outlived) THEN "expired"
  ELSE IF refresh[g] = "grace" THEN "already_rotated"
  ELSE IF refresh[g] = "used" THEN "refresh_reuse"
  ELSE IF c # family.csrf THEN "csrf"
  ELSE IF disabled THEN "member_inactive"
  ELSE "rotated"

\* lapsed: a used credential that the family outlived has itself expired.
Verdict(g, c, lapsed) ==
  IF family.revoked # "no" THEN "denied"
  ELSE IF c # family.csrf THEN "csrf"
  ELSE IF family.expired \/ (lapsed /\ g \in outlived) THEN "expired"
  ELSE IF refresh[g] = "grace" THEN "already_rotated"
  ELSE IF refresh[g] = "used" THEN "refresh_reuse"
  ELSE IF disabled THEN "member_inactive"
  ELSE "rotated"

Revoke(reason) ==
  /\ family' = [family EXCEPT !.revoked = IF @ = "no" THEN reason ELSE @]
  /\ access' = {}
  /\ UNCHANGED <<refresh, outlived>>

\* Seeded fault: the credential that was presented stays usable.
SpendCredential_Not(g) == refresh

\* Seeded fault: the credential that was presented is deleted.
SpendCredential_Deletes(g) == [refresh EXCEPT ![g] = "none"]

SpendCredential(g) == [refresh EXCEPT ![g] = "grace"]

Rotate(g) ==
  /\ Newest + 1 \in Gens
  /\ refresh' = [SpendCredential(g) EXCEPT ![Newest + 1] = "fresh"]
  /\ access' = {Newest + 1}
  /\ family' = [family EXCEPT !.csrf = Newest + 1]
  /\ UNCHANGED outlived

RotateRefresh(g, c, lapsed) ==
  LET v == Verdict(g, c, lapsed) IN
  CASE v = "rotated" -> Rotate(g)
    [] v \in Reasons -> Revoke(v)
    [] OTHER -> UNCHANGED <<family, refresh, access, outlived>>

-----------------------------------------------------------------------------
(* The browser.  A script copies the CSRF cookie into a header; the refresh  *)
(* cookie is added when the request leaves.                                  *)

ReadCsrf(t) ==
  /\ tab[t].pc = "idle"
  /\ tab' = [tab EXCEPT ![t] = [pc |-> "csrf", csrf |-> jar.csrf, refresh |-> jar.refresh]]
  /\ UNCHANGED <<family, refresh, access, outlived, disabled, jar, stranger>>

Send(t) ==
  /\ tab[t].pc = "csrf"
  /\ tab' = [tab EXCEPT ![t].pc = "sent", ![t].refresh = jar.refresh]
  /\ UNCHANGED <<family, refresh, access, outlived, disabled, jar, stranger>>

\* The route; an answer other than 200 leaves the cookies alone, as does
\* "already rotated".
Refresh(t, lapsed) ==
  LET r == tab[t] IN
  /\ r.pc = "sent"
  /\ RotateRefresh(r.refresh, r.csrf, lapsed)
  /\ tab' = [tab EXCEPT ![t] = IF Verdict(r.refresh, r.csrf, lapsed) = "rotated"
                               THEN [r EXCEPT !.pc = "answered", !.csrf = Newest + 1,
                                              !.refresh = Newest + 1]
                               ELSE [r EXCEPT !.pc = "idle"]]
  /\ UNCHANGED <<disabled, jar, stranger>>

\* _apply_session_cookies reaches the browser.
Receive(t) ==
  LET g == tab[t].refresh IN
  /\ tab[t].pc = "answered"
  /\ jar' = [refresh |-> g, csrf |-> g]
  /\ tab' = [tab EXCEPT ![t].pc = "idle"]
  /\ UNCHANGED <<family, refresh, access, outlived, disabled, stranger>>

\* The request or its answer is lost.
Lose(t) ==
  /\ tab[t].pc \in {"sent", "answered"}
  /\ tab' = [tab EXCEPT ![t].pc = "idle"]
  /\ UNCHANGED <<family, refresh, access, outlived, disabled, jar, stranger>>

\* Some other client presents tokens of this family.
Stranger(g, c, lapsed) ==
  /\ {g, c} \subseteq Issued
  /\ RotateRefresh(g, c, lapsed)
  /\ stranger' = TRUE
  /\ UNCHANGED <<disabled, jar, tab>>

-----------------------------------------------------------------------------
(* Everything else that touches the family.                                  *)

\* record_activity, of a request with the access token: unused refresh
\* credentials follow the new idle deadline.
RecordActivity ==
  /\ family.revoked = "no" /\ ~family.expired /\ ~disabled
  /\ access # {}
  /\ outlived' = {g \in Gens : refresh[g] \in {"grace", "used"}}
  /\ UNCHANGED <<family, refresh, access, disabled, jar, tab, stranger>>

\* logout and the management route that revokes a session: revoke_family
RevokeFamily ==
  /\ family.revoked = "no"
  /\ Revoke("sign_out")
  /\ UNCHANGED <<disabled, jar, tab, stranger>>

\* An administrator disables the member.  A family issued by a request that had
\* read the member before that is not among those revoked (see Members).
DisableMember(missed) ==
  /\ ~disabled
  /\ disabled' = TRUE
  /\ IF missed THEN UNCHANGED <<family, refresh, access, outlived>> ELSE Revoke("member_admin")
  /\ UNCHANGED <<jar, tab, stranger>>

\* concurrent_rotation_grace passes
GraceEnds ==
  LET waiting == {g \in Gens : refresh[g] = "grace"} IN
  /\ waiting # {}
  /\ refresh' = [refresh EXCEPT ![CHOOSE g \in waiting : \A h \in waiting : g <= h] = "used"]
  /\ UNCHANGED <<family, access, outlived, disabled, jar, tab, stranger>>

\* idle_expires_at or absolute_expires_at passes
Expire ==
  /\ ~family.expired
  /\ family' = [family EXCEPT !.expired = TRUE]
  /\ UNCHANGED <<refresh, access, outlived, disabled, jar, tab, stranger>>

SessionNext ==
  \/ \E t \in Tabs : ReadCsrf(t) \/ Send(t) \/ Receive(t) \/ Lose(t)
  \/ \E t \in Tabs, lapsed \in BOOLEAN : Refresh(t, lapsed)
  \/ \E g, c \in Gens, lapsed \in BOOLEAN : Stranger(g, c, lapsed)
  \/ RecordActivity \/ RevokeFamily \/ GraceEnds \/ Expire
  \/ \E missed \in BOOLEAN : DisableMember(missed)

SessionSpec == SessionInit /\ [][SessionNext]_sessionVars

-----------------------------------------------------------------------------
(* Properties.                                                              *)

\* Rotation never forks a session: however requests overlap, a family that is
\* not revoked has one refresh token that can be rotated, and it is the one
\* whose access token and CSRF token are accepted.
OneSuccessor ==
  family.revoked = "no" =>
    {g \in Gens : refresh[g] = "fresh"} = {family.csrf} /\ access = {family.csrf}

\* A browser that uses only its own cookies never sets off reuse detection,
\* with overlapping refreshes and with answers that are late or lost.
HonestBrowserKept == ~stranger => family.revoked # "refresh_reuse"
=============================================================================
