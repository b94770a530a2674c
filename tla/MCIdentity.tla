---------------------------- MODULE MCIdentity ------------------------------
(***************************************************************************)
(* Sessions, Members and LoginThrottle for TLC.  They share no variable; a  *)
(* behaviour is one of a session family, of members with passwords, of      *)
(* members that also log in through an identity provider, or of login       *)
(* attempts before the throttle.                                            *)
(***************************************************************************)
EXTENDS Sessions, Members, LoginThrottle, TLC

VARIABLE part

identityVars == <<sessionVars, memberVars, throttleVars, part>>

\* The limits are in the proportion of the defaults, the windows in ticks.
SmallRules ==
  [account |-> [limit |-> 2, window |-> 6, base |-> 1, longest |-> 6],
   ip |-> [limit |-> 3, window |-> 6, base |-> 1, longest |-> 6],
   global |-> [limit |-> 5, window |-> 3, base |-> 1, longest |-> 3]]

IdentityInit == /\ SessionInit
                /\ MemberInit
                /\ ThrottleInit
                /\ part \in {"sessions", "members", "provider", "throttle"}

\* With the provider there is one request at a time.
Alone(q) == \A p \in Requests \ {q} : req[p] = NoRequest

MembersOnly ==
  \/ \E m \in Members : HostStep(m) \/ LoginStep(m)
  \/ \E q \in Requests : SelfStep(q) \/ AdminStep(q)

WithProvider ==
  \/ \E m \in Members : HostStep(m) \/ OidcStep(m)
  \/ \E q \in Requests : Alone(q) /\ (SelfStep(q) \/ AdminStep(q))

IdentityNext ==
  \/ part = "sessions" /\ SessionNext /\ UNCHANGED <<memberVars, throttleVars, part>>
  \/ part = "members" /\ MembersOnly /\ UNCHANGED <<sessionVars, throttleVars, part>>
  \/ part = "provider" /\ WithProvider /\ UNCHANGED <<sessionVars, throttleVars, part>>
  \/ part = "throttle" /\ ThrottleNext /\ UNCHANGED <<sessionVars, memberVars, part>>

IdentitySpec == IdentityInit /\ [][IdentityNext]_identityVars

Symmetric == Permutations(Members) \cup Permutations(Families)
               \cup Permutations(Requests) \cup Permutations(Tabs)

\* Rows are well typed, and a session neither forks under overlapping refreshes
\* nor ends by mistake when the answers to them are late or lost.
IdentityInvariant == SessionTypeOK /\ MembersTypeOK /\ OneSuccessor /\ HonestBrowserKept
=============================================================================
