---------------------------- MODULE IdentityProofs ---------------------------
(***************************************************************************)
(* Theorems about session families, members and the login throttle, for    *)
(* any number of tabs, rotations, members, places for sessions, accounts,  *)
(* attempts and requests at once.                                          *)
(***************************************************************************)
EXTENDS MCIdentity, FiniteSetTheorems, WellFoundedInduction, TLAPS

\* A set of numbers has a least one: a property of numbers that fails, fails
\* first somewhere.
LEMMA LeastNumber ==
  ASSUME NEW S \in SUBSET Nat, S # {}
  PROVE  \E x \in S : \A y \in S : x <= y
<1>1. IsWellFoundedOn(OpToRel(<, Nat), Nat)
  BY NatLessThanWellFounded
<1>2. PICK x \in S : \A y \in S : <<y, x>> \notin OpToRel(<, Nat)
  BY <1>1, WFMin
<1>3. \A y \in S : ~ (y < x)
  BY <1>2 DEF OpToRel
<1> QED BY <1>3

-----------------------------------------------------------------------------
(* Session families.                                                        *)

\* What Init and every step keep of the columns alone.
SessionRows == /\ family \in SessionFamily
               /\ refresh \in [Gens -> RefreshCredential]
               /\ access \in SUBSET Gens
               /\ outlived \in SUBSET Gens
               /\ disabled \in BOOLEAN /\ stranger \in BOOLEAN
               /\ jar \in [refresh : Gens, csrf : Gens]
               /\ tab \in [Tabs -> TabState]

\* The rotations are those up to the family's CSRF token, and the last one's
\* refresh credential is the only fresh one.
Chain == /\ \A g \in Gens : refresh[g] # "none" <=> g <= family.csrf
         /\ \A g \in Gens : refresh[g] = "fresh" <=> g = family.csrf
         /\ \A g \in access \cup outlived : g <= family.csrf
         /\ family.revoked = "no" => access = {family.csrf}

\* Every token of the browser and of its requests was issued.
Circulating ==
         /\ jar.refresh <= family.csrf /\ jar.csrf <= family.csrf
         /\ \A t \in Tabs : tab[t].csrf <= family.csrf /\ tab[t].refresh <= family.csrf

\* Requests of the browser carry tokens no older than the order in which it read
\* them, and an answer under way carries tokens the browser has not seen.
Ordered == /\ jar.refresh = jar.csrf
           /\ \A t \in Tabs : tab[t].pc = "csrf" => tab[t].csrf <= jar.csrf
           /\ \A t \in Tabs : tab[t].pc = "sent" =>
                tab[t].csrf <= tab[t].refresh /\ tab[t].refresh <= jar.csrf
           /\ \A t \in Tabs : tab[t].pc = "answered" =>
                /\ tab[t].refresh = family.csrf /\ tab[t].csrf = family.csrf
                /\ jar.csrf < family.csrf
           /\ \A t, u \in Tabs : tab[t].pc = "answered" /\ tab[u].pc = "answered" => t = u

SessionInvariant == SessionRows /\ Chain /\ Circulating
HonestInvariant == ~stranger => Ordered /\ family.revoked # "refresh_reuse"

LEMMA GensAreNumbers ==
  /\ MaxRotations \in Nat /\ MaxRotations + 1 \in Nat /\ 1 \in Gens
  /\ \A g \in Gens : g \in Nat /\ g >= 1 /\ g <= MaxRotations + 1
  /\ \A n \in Nat : n >= 1 /\ n <= MaxRotations + 1 => n \in Gens
BY SessionAssumption DEF Gens

LEMMA NewestIsCsrf ==
  ASSUME SessionRows, Chain
  PROVE  Newest = family.csrf
<1>1. family.csrf \in Gens
  BY DEF SessionRows, SessionFamily
<1>2. \A g \in Gens : g \in Issued <=> g <= family.csrf
  BY DEF Issued, Chain
<1>3. family.csrf \in Issued /\ \A h \in Issued : h \in Gens /\ h <= family.csrf
  BY <1>1, <1>2, GensAreNumbers DEF Issued
<1>4. \A g \in Issued : (\A h \in Issued : h <= g) => g = family.csrf
  BY <1>1, <1>3, GensAreNumbers
<1> QED BY <1>3, <1>4 DEF Newest

\* What the answers to a refresh do to the family and its credentials.
LEMMA RotateRefreshKeeps ==
  ASSUME SessionRows, Chain,
         NEW g \in Gens, NEW c \in Gens, NEW lapsed \in BOOLEAN,
         refresh[g] # "none", RotateRefresh(g, c, lapsed)
  PROVE  /\ family' \in SessionFamily /\ refresh' \in [Gens -> RefreshCredential]
         /\ access' \in SUBSET Gens /\ outlived' \in SUBSET Gens
         /\ Chain'
         /\ IF Verdict(g, c, lapsed) = "rotated"
            THEN /\ c = family.csrf /\ refresh[g] = "fresh"
                 /\ family'.csrf = family.csrf + 1 /\ family'.revoked = "no"
            ELSE family'.csrf = family.csrf
         /\ family'.revoked = "refresh_reuse" =>
              \/ family.revoked = "refresh_reuse"
              \/ c = family.csrf /\ refresh[g] = "used"
<1> DEFINE v == Verdict(g, c, lapsed)
<1>1. /\ family \in SessionFamily /\ refresh \in [Gens -> RefreshCredential]
      /\ access \in SUBSET Gens /\ outlived \in SUBSET Gens
      /\ family.csrf \in Gens /\ family.revoked \in Reasons
  BY DEF SessionRows, SessionFamily
<1>2. /\ v \in {"denied", "csrf", "expired", "already_rotated", "refresh_reuse",
                "member_inactive", "rotated"}
      /\ v = "rotated" => family.revoked = "no" /\ c = family.csrf /\ refresh[g] = "fresh"
      /\ v = "refresh_reuse" => c = family.csrf /\ refresh[g] = "used"
  BY <1>1 DEF Verdict, RefreshCredential
<1> HIDE DEF v
<1>3. CASE v = "rotated"
  <2>1. Newest = family.csrf
    BY NewestIsCsrf
  <2> DEFINE n == family.csrf + 1
  <2>2. /\ n \in Gens /\ family' = [family EXCEPT !.csrf = n] /\ access' = {n}
        /\ refresh' = [SpendCredential(g) EXCEPT ![n] = "fresh"] /\ outlived' = outlived
    <3>1. Rotate(g)
      BY <1>3 DEF RotateRefresh, v, Reasons
    <3> QED BY <2>1, <3>1 DEF Rotate
  <2>3. family' \in SessionFamily /\ family'.csrf = n /\ family'.revoked = "no"
    BY <1>1, <1>2, <1>3, <2>2 DEF SessionFamily
  <2>4. SpendCredential(g) \in [Gens -> RefreshCredential]
    BY <1>1 DEF SpendCredential, RefreshCredential
  <2>5. refresh' \in [Gens -> RefreshCredential]
    BY <2>2, <2>4 DEF RefreshCredential
  <2>6. \A h \in Gens : refresh'[h] = IF h = n THEN "fresh"
                                      ELSE IF h = g THEN "grace" ELSE refresh[h]
    BY <1>1, <2>2, <2>4 DEF SpendCredential
  <2>7. g = family.csrf /\ n # g /\ \A h \in Gens : h <= n <=> h <= g \/ h = n
    BY <1>1, <1>2, <1>3, GensAreNumbers DEF Chain
  <2>8. \A h \in Gens : refresh'[h] # "none" <=> h <= n
    BY <2>6, <2>7, <1>1 DEF Chain
  <2>9. \A h \in Gens : refresh'[h] = "fresh" <=> h = n
    BY <2>6, <2>7, <1>1 DEF Chain
  <2>10. \A h \in access' \cup outlived' : h <= n
    BY <2>2, <2>7, <1>1, GensAreNumbers DEF Chain
  <2>11. Chain'
    BY <2>2, <2>3, <2>8, <2>9, <2>10 DEF Chain
  <2> QED BY <1>2, <1>3, <2>2, <2>3, <2>5, <2>11, <1>1 DEF v
<1>4. CASE v \in Reasons
  <2>1. Revoke(v)
    BY <1>2, <1>4 DEF RotateRefresh, v, Reasons
  <2>2. family' \in SessionFamily /\ family'.csrf = family.csrf
        /\ family'.revoked = IF family.revoked = "no" THEN v ELSE family.revoked
    BY <1>1, <1>4, <2>1 DEF Revoke, SessionFamily
  <2>3. family'.revoked # "no"
    BY <1>2, <1>4, <2>2 DEF Reasons
  <2>4. Chain'
    BY <2>1, <2>2, <2>3 DEF Chain, Revoke
  <2> QED BY <1>1, <1>2, <1>4, <2>1, <2>2, <2>4 DEF v, Revoke, Reasons
<1>5. CASE v \notin Reasons /\ v # "rotated"
  <2>1. UNCHANGED <<family, refresh, access, outlived>>
    BY <1>2, <1>5 DEF RotateRefresh, v
  <2> QED BY <1>1, <1>5, <2>1 DEF Chain, v
<1> QED BY <1>3, <1>4, <1>5

\* A step that leaves the credentials' order alone leaves the tokens in
\* circulation issued and, if the browser does nothing, in order.
LEMMA BrowserUntouched ==
  ASSUME Circulating, HonestInvariant, UNCHANGED <<jar, tab, stranger>>,
         family' \in SessionFamily, family'.csrf = family.csrf,
         family'.revoked = "refresh_reuse" => family.revoked = "refresh_reuse"
  PROVE  Circulating' /\ HonestInvariant'
BY DEF Circulating, HonestInvariant, Ordered

LEMMA SessionInitially ==
  ASSUME SessionInit PROVE SessionInvariant /\ HonestInvariant
<1>1. family = [revoked |-> "no", expired |-> FALSE, csrf |-> 1] /\ family \in SessionFamily
  BY GensAreNumbers DEF SessionInit, SessionFamily, Reasons
<1>2. refresh \in [Gens -> RefreshCredential] /\ access = {1} /\ outlived = {}
  BY GensAreNumbers DEF SessionInit, RefreshCredential
<1>3. jar = [refresh |-> 1, csrf |-> 1] /\ jar \in [refresh : Gens, csrf : Gens]
  BY GensAreNumbers DEF SessionInit
<1>4. tab \in [Tabs -> TabState]
  BY GensAreNumbers DEF SessionInit, TabState
<1>5. SessionRows
  BY <1>1, <1>2, <1>3, <1>4, GensAreNumbers DEF SessionRows, SessionInit
<1>6. \A g \in Gens : /\ refresh[g] = IF g = 1 THEN "fresh" ELSE "none"
                      /\ g <= 1 <=> g = 1
  BY GensAreNumbers DEF SessionInit
<1>7. Chain
  BY <1>1, <1>2, <1>6 DEF Chain
<1>8. \A t \in Tabs : tab[t] = [pc |-> "idle", csrf |-> 1, refresh |-> 1]
  BY DEF SessionInit
<1>9. Circulating /\ Ordered
  BY <1>1, <1>3, <1>8 DEF Circulating, Ordered
<1> QED BY <1>1, <1>5, <1>7, <1>9 DEF SessionInvariant, HonestInvariant

\* A request to the refresh route, of the browser.
LEMMA RefreshStep ==
  ASSUME SessionInvariant, HonestInvariant,
         NEW t \in Tabs, NEW lapsed \in BOOLEAN, Refresh(t, lapsed)
  PROVE  SessionInvariant' /\ HonestInvariant'
<1> DEFINE r == tab[t]
           turned == Verdict(r.refresh, r.csrf, lapsed) = "rotated"
<1>1. /\ tab \in [Tabs -> TabState] /\ r \in TabState /\ r.pc = "sent"
      /\ r.refresh \in Gens /\ r.csrf \in Gens
      /\ jar \in [refresh : Gens, csrf : Gens] /\ family.csrf \in Gens
      /\ stranger \in BOOLEAN /\ disabled \in BOOLEAN
  BY DEF SessionInvariant, SessionRows, SessionFamily, TabState, Refresh
<1>2. refresh[r.refresh] # "none"
  BY <1>1 DEF SessionInvariant, Chain, Circulating
<1>3. RotateRefresh(r.refresh, r.csrf, lapsed) /\ UNCHANGED <<disabled, jar, stranger>>
  BY DEF Refresh
<1>4. /\ family' \in SessionFamily /\ refresh' \in [Gens -> RefreshCredential]
      /\ access' \in SUBSET Gens /\ outlived' \in SUBSET Gens
      /\ Chain'
      /\ IF turned
         THEN /\ r.csrf = family.csrf /\ refresh[r.refresh] = "fresh"
              /\ family'.csrf = family.csrf + 1 /\ family'.revoked = "no"
         ELSE family'.csrf = family.csrf
      /\ family'.revoked = "refresh_reuse" =>
           \/ family.revoked = "refresh_reuse"
           \/ r.csrf = family.csrf /\ refresh[r.refresh] = "used"
  BY <1>1, <1>2, <1>3, RotateRefreshKeeps DEF SessionInvariant
<1>5. Newest = family.csrf
  BY NewestIsCsrf DEF SessionInvariant
<1>6. tab' = [tab EXCEPT ![t] = IF turned
                                THEN [r EXCEPT !.pc = "answered", !.csrf = family.csrf + 1,
                                               !.refresh = family.csrf + 1]
                                ELSE [r EXCEPT !.pc = "idle"]]
  BY <1>5 DEF Refresh
<1> HIDE DEF turned
<1>7. family'.csrf \in Gens /\ family.csrf <= family'.csrf
  BY <1>1, <1>4, GensAreNumbers DEF SessionFamily
<1>8. /\ turned => tab'[t] = [pc |-> "answered", csrf |-> family'.csrf, refresh |-> family'.csrf]
      /\ ~turned => tab'[t] = [pc |-> "idle", csrf |-> r.csrf, refresh |-> r.refresh]
      /\ \A u \in Tabs \ {t} : tab'[u] = tab[u]
  BY <1>1, <1>4, <1>6 DEF TabState
<1>9. tab'[t] \in TabState
  BY <1>1, <1>7, <1>8 DEF TabState
<1>10. tab' \in [Tabs -> TabState]
  BY <1>1, <1>6, <1>8, <1>9
<1>11. SessionRows'
  BY <1>1, <1>3, <1>4, <1>10 DEF SessionRows, SessionInvariant
<1>12. Circulating'
  <2>1. \A u \in Tabs : tab[u].csrf \in Gens /\ tab[u].refresh \in Gens
    BY <1>1 DEF TabState
  <2>2. jar.refresh \in Gens /\ jar.csrf \in Gens
    BY <1>1
  <2>3. \A g \in Gens : g <= family.csrf => g <= family'.csrf
    BY <1>1, <1>7, GensAreNumbers
  <2>4. \A u \in Tabs : tab'[u].csrf <= family'.csrf /\ tab'[u].refresh <= family'.csrf
    BY <1>1, <1>7, <1>8, <2>1, <2>3, GensAreNumbers DEF SessionInvariant, Circulating
  <2> QED BY <1>3, <2>2, <2>3, <2>4 DEF SessionInvariant, Circulating
<1>13. HonestInvariant'
  <2> SUFFICES ASSUME ~stranger PROVE (Ordered /\ family.revoked # "refresh_reuse")'
    BY <1>3 DEF HonestInvariant
  <2>1. /\ r.csrf <= r.refresh /\ r.refresh <= jar.csrf /\ jar.csrf <= family.csrf
        /\ family.revoked # "refresh_reuse" /\ Ordered
    BY <1>1 DEF HonestInvariant, Ordered, SessionInvariant, Circulating
  <2>2. r.csrf = family.csrf => r.refresh = family.csrf /\ jar.csrf = family.csrf
    BY <1>1, <2>1, GensAreNumbers
  <2>3. family'.revoked # "refresh_reuse"
    BY <1>1, <1>4, <2>1, <2>2 DEF SessionInvariant, Chain
  <2>4. CASE turned
    <3>1. jar.csrf = family.csrf /\ family'.csrf = family.csrf + 1 /\ jar.csrf < family'.csrf
      BY <1>1, <1>4, <2>2, <2>4, GensAreNumbers
    <3>2. \A u \in Tabs : tab[u].pc # "answered"
      BY <1>1, <2>1, <3>1, GensAreNumbers DEF Ordered
    <3>3. \A u \in Tabs : tab'[u].pc = "answered" => u = t
      BY <1>8, <3>2
    <3>4. tab'[t].refresh = family'.csrf /\ tab'[t].csrf = family'.csrf /\ tab'[t].pc = "answered"
      BY <1>8, <2>4
    <3> QED BY <1>3, <1>8, <2>1, <2>3, <3>1, <3>3, <3>4 DEF Ordered
  <2>5. CASE ~turned
    <3>1. family'.csrf = family.csrf /\ tab'[t].pc = "idle"
      BY <1>4, <1>8, <2>5
    <3> QED BY <1>3, <1>8, <2>1, <2>3, <3>1 DEF Ordered
  <2> QED BY <2>4, <2>5
<1> QED BY <1>4, <1>11, <1>12, <1>13 DEF SessionInvariant

\* The other steps of the browser move one of its requests.
LEMMA BrowserStep ==
  ASSUME SessionInvariant, HonestInvariant, NEW t \in Tabs,
         ReadCsrf(t) \/ Send(t) \/ Receive(t) \/ Lose(t)
  PROVE  SessionInvariant' /\ HonestInvariant'
<1>1. /\ tab \in [Tabs -> TabState] /\ tab[t] \in TabState
      /\ jar \in [refresh : Gens, csrf : Gens] /\ family.csrf \in Gens
      /\ \A u \in Tabs : tab[u].csrf \in Gens /\ tab[u].refresh \in Gens
  BY DEF SessionInvariant, SessionRows, SessionFamily, TabState
<1>2. UNCHANGED <<family, refresh, access, outlived, disabled, stranger>>
  BY DEF ReadCsrf, Send, Receive, Lose
<1>3. Chain'
  BY <1>2 DEF SessionInvariant, Chain
<1>4. ASSUME jar' \in [refresh : Gens, csrf : Gens], tab' \in [Tabs -> TabState]
      PROVE  SessionRows'
  BY <1>2, <1>4 DEF SessionInvariant, SessionRows
<1>5. CASE ReadCsrf(t)
  <2>1. jar' = jar /\ tab' = [tab EXCEPT ![t] = [pc |-> "csrf", csrf |-> jar.csrf, refresh |-> jar.refresh]]
    BY <1>5 DEF ReadCsrf
  <2>2. [pc |-> "csrf", csrf |-> jar.csrf, refresh |-> jar.refresh] \in TabState
    BY <1>1 DEF TabState
  <2>3. tab' \in [Tabs -> TabState]
    BY <1>1, <2>1, <2>2
  <2>4. /\ tab'[t].pc = "csrf" /\ tab'[t].csrf = jar.csrf /\ tab'[t].refresh = jar.refresh
        /\ \A u \in Tabs \ {t} : tab'[u] = tab[u]
    BY <1>1, <2>1
  <2>5. Circulating'
    BY <1>2, <2>1, <2>4 DEF SessionInvariant, Circulating
  <2>6. jar.csrf <= jar.csrf
    BY <1>1, GensAreNumbers
  <2>7. HonestInvariant'
    BY <1>2, <2>1, <2>4, <2>6 DEF HonestInvariant, Ordered
  <2> QED BY <1>1, <1>3, <1>4, <2>1, <2>3, <2>5, <2>7 DEF SessionInvariant
<1>6. CASE Send(t)
  <2>1. jar' = jar /\ tab[t].pc = "csrf"
        /\ tab' = [tab EXCEPT ![t] = [@ EXCEPT !.pc = "sent", !.refresh = jar.refresh]]
    BY <1>1, <1>6 DEF Send, TabState
  <2>2. /\ tab'[t] \in TabState /\ tab'[t].pc = "sent" /\ tab'[t].csrf = tab[t].csrf
        /\ tab'[t].refresh = jar.refresh
        /\ \A u \in Tabs \ {t} : tab'[u] = tab[u]
    BY <1>1, <2>1 DEF TabState
  <2>3. tab' \in [Tabs -> TabState]
    BY <1>1, <2>1, <2>2
  <2>4. Circulating'
    BY <1>2, <2>1, <2>2 DEF SessionInvariant, Circulating
  <2>5. jar.csrf <= jar.csrf
    BY <1>1, GensAreNumbers
  <2>6. HonestInvariant'
    BY <1>2, <2>1, <2>2, <2>5 DEF HonestInvariant, Ordered
  <2> QED BY <1>1, <1>3, <1>4, <2>1, <2>3, <2>4, <2>6 DEF SessionInvariant
<1>7. CASE Receive(t)
  <2> DEFINE g == tab[t].refresh
  <2>1. /\ tab[t].pc = "answered" /\ jar' = [refresh |-> g, csrf |-> g]
        /\ tab' = [tab EXCEPT ![t] = [@ EXCEPT !.pc = "idle"]]
    BY <1>1, <1>7 DEF Receive, TabState
  <2>2. /\ tab'[t] \in TabState /\ tab'[t].pc = "idle" /\ tab'[t].csrf = tab[t].csrf
        /\ tab'[t].refresh = tab[t].refresh
        /\ \A u \in Tabs \ {t} : tab'[u] = tab[u]
    BY <1>1, <2>1 DEF TabState
  <2>3. tab' \in [Tabs -> TabState] /\ jar' \in [refresh : Gens, csrf : Gens]
    BY <1>1, <2>1, <2>2
  <2>4. Circulating'
    BY <1>2, <2>1, <2>2 DEF SessionInvariant, Circulating
  <2>5. HonestInvariant'
    <3> SUFFICES ASSUME ~stranger PROVE (Ordered /\ family.revoked # "refresh_reuse")'
      BY <1>2 DEF HonestInvariant
    <3>1. Ordered /\ family.revoked # "refresh_reuse" /\ g = family.csrf /\ jar.csrf < g
      BY <2>1 DEF HonestInvariant, Ordered
    <3>2. \A n \in Gens : n <= jar.csrf => n <= g
      BY <1>1, <3>1, GensAreNumbers
    <3>3. \A u \in Tabs : tab'[u].pc # "answered"
      BY <2>1, <2>2, <3>1 DEF Ordered
    <3>4. \A u \in Tabs : tab'[u].pc = "csrf" => tab'[u].csrf <= g
      BY <1>1, <2>2, <3>1, <3>2 DEF Ordered
    <3>5. \A u \in Tabs : tab'[u].pc = "sent" =>
             tab'[u].csrf <= tab'[u].refresh /\ tab'[u].refresh <= g
      BY <1>1, <2>2, <3>1, <3>2 DEF Ordered
    <3> QED BY <1>2, <2>1, <3>1, <3>3, <3>4, <3>5 DEF Ordered
  <2> QED BY <1>3, <1>4, <2>3, <2>4, <2>5 DEF SessionInvariant
<1>8. CASE Lose(t)
  <2>1. jar' = jar /\ tab' = [tab EXCEPT ![t] = [@ EXCEPT !.pc = "idle"]]
    BY <1>1, <1>8 DEF Lose, TabState
  <2>2. /\ tab'[t] \in TabState /\ tab'[t].pc = "idle" /\ tab'[t].csrf = tab[t].csrf
        /\ tab'[t].refresh = tab[t].refresh
        /\ \A u \in Tabs \ {t} : tab'[u] = tab[u]
    BY <1>1, <2>1 DEF TabState
  <2>3. tab' \in [Tabs -> TabState]
    BY <1>1, <2>1, <2>2
  <2>4. Circulating'
    BY <1>2, <2>1, <2>2 DEF SessionInvariant, Circulating
  <2>5. HonestInvariant'
    BY <1>2, <2>1, <2>2 DEF HonestInvariant, Ordered
  <2> QED BY <1>1, <1>3, <1>4, <2>1, <2>3, <2>4, <2>5 DEF SessionInvariant
<1> QED BY <1>5, <1>6, <1>7, <1>8

\* A stranger's request may end the family, and never breaks the chain.
LEMMA StrangerStep ==
  ASSUME SessionInvariant, NEW g \in Gens, NEW c \in Gens, NEW lapsed \in BOOLEAN,
         Stranger(g, c, lapsed)
  PROVE  SessionInvariant' /\ HonestInvariant'
<1>1. refresh[g] # "none" /\ RotateRefresh(g, c, lapsed) /\ stranger'
      /\ UNCHANGED <<disabled, jar, tab>>
  BY DEF Stranger, Issued
<1>2. /\ family' \in SessionFamily /\ refresh' \in [Gens -> RefreshCredential]
      /\ access' \in SUBSET Gens /\ outlived' \in SUBSET Gens
      /\ Chain'
      /\ family'.csrf = family.csrf \/ family'.csrf = family.csrf + 1
  BY <1>1, RotateRefreshKeeps DEF SessionInvariant
<1>3. SessionRows'
  BY <1>1, <1>2 DEF SessionInvariant, SessionRows, Stranger
<1>4. /\ family.csrf \in Gens /\ jar.refresh \in Gens /\ jar.csrf \in Gens
      /\ \A u \in Tabs : tab[u].csrf \in Gens /\ tab[u].refresh \in Gens
  BY DEF SessionInvariant, SessionRows, SessionFamily, TabState
<1>5. \A n \in Gens : n <= family.csrf => n <= family'.csrf
  BY <1>2, <1>4, GensAreNumbers
<1>6. Circulating'
  BY <1>1, <1>4, <1>5 DEF SessionInvariant, Circulating
<1> QED BY <1>1, <1>2, <1>3, <1>6 DEF SessionInvariant, HonestInvariant

LEMMA FamilyStep ==
  ASSUME SessionInvariant, HonestInvariant,
         \/ RecordActivity \/ RevokeFamily \/ GraceEnds \/ Expire
         \/ \E missed \in BOOLEAN : DisableMember(missed)
         \/ UNCHANGED sessionVars
  PROVE  SessionInvariant' /\ HonestInvariant'
<1>1. /\ family \in SessionFamily /\ refresh \in [Gens -> RefreshCredential]
      /\ access \in SUBSET Gens /\ outlived \in SUBSET Gens
      /\ disabled \in BOOLEAN /\ stranger \in BOOLEAN
      /\ Chain /\ Circulating
      /\ family.csrf \in Gens /\ family.revoked \in Reasons
  BY DEF SessionInvariant, SessionRows, SessionFamily
<1>2. UNCHANGED <<jar, tab, stranger>>
  BY DEF RecordActivity, RevokeFamily, GraceEnds, Expire, DisableMember, sessionVars
<1>3. ASSUME family' \in SessionFamily, family'.csrf = family.csrf,
             family'.revoked = "refresh_reuse" => family.revoked = "refresh_reuse",
             refresh' \in [Gens -> RefreshCredential], access' \in SUBSET Gens,
             outlived' \in SUBSET Gens, disabled' \in BOOLEAN, Chain'
      PROVE  SessionInvariant' /\ HonestInvariant'
  <2>1. SessionRows'
    BY <1>2, <1>3 DEF SessionInvariant, SessionRows
  <2> QED BY <1>1, <1>2, <1>3, <2>1, BrowserUntouched DEF SessionInvariant
<1>4. ASSUME NEW reason \in Reasons \ {"no", "refresh_reuse"}, Revoke(reason),
             disabled' \in BOOLEAN
      PROVE  SessionInvariant' /\ HonestInvariant'
  <2>1. family' = [family EXCEPT !.revoked = IF @ = "no" THEN reason ELSE @]
        /\ access' = {} /\ refresh' = refresh /\ outlived' = outlived
    BY <1>4 DEF Revoke
  <2>2. /\ family' \in SessionFamily /\ family'.csrf = family.csrf
        /\ family'.revoked # "no"
        /\ family'.revoked = "refresh_reuse" => family.revoked = "refresh_reuse"
    BY <1>1, <2>1 DEF SessionFamily
  <2>3. Chain'
    BY <1>1, <2>1, <2>2 DEF Chain
  <2>4. refresh' \in [Gens -> RefreshCredential] /\ access' \in SUBSET Gens /\ outlived' \in SUBSET Gens
    BY <1>1, <2>1
  <2>5. family'.revoked = "refresh_reuse" => family.revoked = "refresh_reuse"
    BY <2>2
  <2> QED BY <1>3, <1>4, <2>2, <2>3, <2>4, <2>5
<1>5. CASE RecordActivity
  <2>1. outlived' = {g \in Gens : refresh[g] \in {"grace", "used"}}
        /\ UNCHANGED <<family, refresh, access, disabled>>
    BY <1>5 DEF RecordActivity
  <2>2. \A g \in outlived' : g \in Gens /\ g <= family.csrf
    BY <1>1, <2>1 DEF Chain
  <2>3. Chain'
    BY <1>1, <2>1, <2>2 DEF Chain
  <2>4. family' \in SessionFamily /\ family'.csrf = family.csrf /\ family'.revoked = family.revoked
        /\ refresh' \in [Gens -> RefreshCredential] /\ access' \in SUBSET Gens
        /\ outlived' \in SUBSET Gens /\ disabled' \in BOOLEAN
    BY <1>1, <2>1
  <2> QED BY <1>3, <2>3, <2>4
<1>6. CASE RevokeFamily
  <2>1. Revoke("sign_out") /\ disabled' = disabled
        /\ "sign_out" \in Reasons \ {"no", "refresh_reuse"}
    BY <1>6 DEF RevokeFamily, Reasons
  <2> QED BY <1>1, <1>4, <2>1
<1>7. CASE GraceEnds
  <2> DEFINE waiting == {g \in Gens : refresh[g] = "grace"}
             first == CHOOSE g \in waiting : \A h \in waiting : g <= h
  <2>1. refresh' = [refresh EXCEPT ![first] = "used"]
        /\ UNCHANGED <<family, access, outlived, disabled>>
    BY <1>7 DEF GraceEnds
  <2>2. \E g \in waiting : \A h \in waiting : g <= h
    <3>1. waiting \in SUBSET Nat /\ waiting # {}
      BY <1>7, GensAreNumbers DEF GraceEnds
    <3> HIDE DEF waiting
    <3> QED BY <3>1, LeastNumber
  <2>3. first \in waiting
    BY <2>2
  <2>4. first \in Gens /\ refresh[first] = "grace"
    BY <2>3
  <2> HIDE DEF first
  <2>5. \A g \in Gens : refresh'[g] = IF g = first THEN "used" ELSE refresh[g]
    BY <1>1, <2>1, <2>4
  <2>6. Chain'
    BY <1>1, <2>1, <2>4, <2>5 DEF Chain
  <2>7. refresh' \in [Gens -> RefreshCredential]
    BY <1>1, <2>1 DEF RefreshCredential
  <2>8. family' \in SessionFamily /\ family'.csrf = family.csrf /\ family'.revoked = family.revoked
        /\ access' \in SUBSET Gens /\ outlived' \in SUBSET Gens /\ disabled' \in BOOLEAN
    BY <1>1, <2>1
  <2> QED BY <1>3, <2>6, <2>7, <2>8
<1>8. CASE Expire
  <2>1. family' = [family EXCEPT !.expired = TRUE]
        /\ UNCHANGED <<refresh, access, outlived, disabled>>
    BY <1>8 DEF Expire
  <2>2. family' \in SessionFamily /\ family'.csrf = family.csrf /\ family'.revoked = family.revoked
    BY <1>1, <2>1 DEF SessionFamily
  <2>3. Chain'
    BY <1>1, <2>1, <2>2 DEF Chain
  <2>4. /\ refresh' \in [Gens -> RefreshCredential] /\ access' \in SUBSET Gens
        /\ outlived' \in SUBSET Gens /\ disabled' \in BOOLEAN
    BY <1>1, <2>1
  <2> QED BY <1>3, <2>2, <2>3, <2>4
<1>9. ASSUME NEW missed \in BOOLEAN, DisableMember(missed)
      PROVE  SessionInvariant' /\ HonestInvariant'
  <2>1. disabled' = TRUE
    BY <1>9 DEF DisableMember
  <2>2. CASE missed
    <3>1. UNCHANGED <<family, refresh, access, outlived>>
      BY <1>9, <2>2 DEF DisableMember
    <3>2. Chain'
      BY <1>1, <3>1 DEF Chain
    <3> QED BY <1>1, <1>3, <2>1, <3>1, <3>2
  <2>3. CASE ~missed
    <3>1. Revoke("member_admin") /\ "member_admin" \in Reasons \ {"no", "refresh_reuse"}
      BY <1>9, <2>3 DEF DisableMember, Reasons
    <3> QED BY <1>4, <2>1, <3>1
  <2> QED BY <2>2, <2>3
<1>10. CASE UNCHANGED sessionVars
  <2>1. UNCHANGED <<family, refresh, access, outlived, disabled>>
    BY <1>10 DEF sessionVars
  <2>2. Chain'
    BY <1>1, <2>1 DEF Chain
  <2> QED BY <1>1, <1>3, <2>1, <2>2
<1> QED BY <1>5, <1>6, <1>7, <1>8, <1>9, <1>10

LEMMA SessionStep ==
  ASSUME SessionInvariant, HonestInvariant, [SessionNext]_sessionVars
  PROVE  SessionInvariant' /\ HonestInvariant'
<1>1. ASSUME NEW t \in Tabs, ReadCsrf(t) \/ Send(t) \/ Receive(t) \/ Lose(t)
      PROVE  SessionInvariant' /\ HonestInvariant'
  BY <1>1, BrowserStep
<1>2. ASSUME NEW t \in Tabs, NEW lapsed \in BOOLEAN, Refresh(t, lapsed)
      PROVE  SessionInvariant' /\ HonestInvariant'
  BY <1>2, RefreshStep
<1>3. ASSUME NEW g \in Gens, NEW c \in Gens, NEW lapsed \in BOOLEAN, Stranger(g, c, lapsed)
      PROVE  SessionInvariant' /\ HonestInvariant'
  BY <1>3, StrangerStep
<1>4. CASE \/ RecordActivity \/ RevokeFamily \/ GraceEnds \/ Expire
           \/ \E missed \in BOOLEAN : DisableMember(missed)
           \/ UNCHANGED sessionVars
  BY <1>4, FamilyStep
<1> QED BY <1>1, <1>2, <1>3, <1>4 DEF SessionNext

\* What the invariant says of a family and of the browser that holds it.
LEMMA SessionMeaning ==
  ASSUME SessionInvariant, HonestInvariant
  PROVE  SessionTypeOK /\ OneSuccessor /\ HonestBrowserKept
<1>1. family.csrf \in Gens
  BY DEF SessionInvariant, SessionRows, SessionFamily
<1>2. \A g \in Gens : g \in Issued <=> g <= family.csrf
  BY DEF SessionInvariant, Chain, Issued
<1>3. access \subseteq Issued /\ outlived \subseteq Issued
  BY <1>2 DEF SessionInvariant, SessionRows, Chain
<1>4. jar \in [refresh : Issued, csrf : Issued]
  <2>1. jar.refresh \in Issued /\ jar.csrf \in Issued
    BY <1>2 DEF SessionInvariant, SessionRows, Circulating
  <2> QED BY <2>1 DEF SessionInvariant, SessionRows
<1>5. \A t \in Tabs : {tab[t].csrf, tab[t].refresh} \subseteq Issued
  BY <1>2 DEF SessionInvariant, SessionRows, TabState, Circulating
<1>6. SessionTypeOK
  BY <1>3, <1>4, <1>5 DEF SessionTypeOK, SessionInvariant, SessionRows
<1>7. {g \in Gens : refresh[g] = "fresh"} = {family.csrf}
  BY <1>1 DEF SessionInvariant, Chain
<1>8. OneSuccessor
  BY <1>7 DEF OneSuccessor, SessionInvariant, Chain
<1> QED BY <1>6, <1>8 DEF HonestBrowserKept, HonestInvariant

\* The rows of a family are well typed, rotation never forks it, and a browser
\* that uses its own cookies never sets off reuse detection.
THEOREM SessionSafety == SessionSpec => [](SessionTypeOK /\ OneSuccessor /\ HonestBrowserKept)
<1>1. SessionInit => SessionInvariant /\ HonestInvariant
  BY SessionInitially
<1>2. SessionInvariant /\ HonestInvariant /\ [SessionNext]_sessionVars
        => (SessionInvariant /\ HonestInvariant)'
  BY SessionStep
<1>3. SessionInvariant /\ HonestInvariant => SessionTypeOK /\ OneSuccessor /\ HonestBrowserKept
  BY SessionMeaning
<1> QED BY <1>1, <1>2, <1>3, PTL DEF SessionSpec

-----------------------------------------------------------------------------
(* Members.                                                                 *)

\* A request that is handled has an actor, one that waits for rows has a target.
RequestRows ==
  \A q \in Requests :
    /\ req[q].pc \in {"authenticated", "loaded"} => req[q].actor \in Members
    /\ req[q].pc # "idle" => req[q].family \in Families
    /\ req[q].pc \in {"target", "counted"} =>
         /\ req[q].target \in Members /\ req[q].to.status # "absent"
         /\ member[req[q].target].status # "absent"

\* No two requests hold a row, and the administrators a request has counted are
\* still administrators.
Locks ==
  /\ \A p, q \in Requests : p # q => Rows(p) \cap Rows(q) = {}
  /\ \A q \in Requests : req[q].pc = "counted" => req[q].admins \subseteq ActiveAdmins

MemberInvariant == MembersTypeOK /\ RequestRows /\ Locks

LEMMA NoOneMissing ==
  /\ NoRequest \in Request /\ Absent \in MemberRow
  /\ NoRequest.pc = "idle" /\ NoRequest.actor = None /\ NoRequest.family = None
  /\ None \notin Members /\ None \notin Families
<1>1. Load(Absent) \in Account
  BY DEF Load, Absent, Account, Statuses, Roles
<1>2. Absent \in MemberRow
  BY DEF Absent, MemberRow, Statuses, Roles
<1>3. NoRequest \in Request
  BY <1>1 DEF NoRequest, Request, Statuses, Roles
<1> QED BY <1>2, <1>3, MemberAssumption DEF NoRequest

LEMMA MemberInitially ==
  ASSUME MemberInit PROVE MemberInvariant
<1>1. /\ \A m \in Members : member[m] = Absent
      /\ \A f \in Families : owner[f] = None
      /\ \A q \in Requests : req[q] = NoRequest
  BY DEF MemberInit
<1>2. MembersTypeOK
  BY <1>1, NoOneMissing DEF MembersTypeOK, MemberInit
<1>3. RequestRows
  BY <1>1, NoOneMissing DEF RequestRows
<1>4. Locks
  BY <1>1, NoOneMissing DEF Locks, Rows
<1> QED BY <1>2, <1>3, <1>4 DEF MemberInvariant

\* A step that writes no row a waiting request holds, and after which a request
\* is where it was, over, or newly authenticated, keeps the invariant.
LEMMA WriteKeeps ==
  ASSUME MemberInvariant,
         member' \in [Members -> MemberRow],
         \A m \in Members : member[m].status # "absent" => member'[m].status # "absent",
         owner' \in [Families -> Members \cup {None}],
         \A f \in Families : owner'[f] # None =>
           owner'[f] = owner[f] \/ member'[owner'[f]].status # "absent",
         dropped' \in SUBSET Members,
         req' \in [Requests -> Request],
         \A p \in Requests :
           \/ req'[p] = req[p]
           \/ req'[p] = NoRequest
           \/ /\ req'[p].pc \in {"authenticated", "loaded"}
              /\ req'[p].actor \in Members /\ req'[p].family \in Families
              /\ member'[req'[p].actor].status # "absent",
         \A p \in Requests : req'[p] = req[p] =>
           \A m \in Members : m \in Rows(p) =>
             member'[m].status = member[m].status /\ member'[m].role = member[m].role
  PROVE  MemberInvariant'
<1>1. \A p \in Requests : req[p] \in Request /\ req'[p] \in Request
  BY DEF MemberInvariant, MembersTypeOK
<1>2. \A p \in Requests : req'[p].actor # None => member'[req'[p].actor].status # "absent"
  <2> TAKE p \in Requests
  <2>1. CASE req'[p] = req[p]
    BY <1>1, <2>1 DEF MemberInvariant, MembersTypeOK, Request
  <2> QED BY <2>1, NoOneMissing
<1>3. \A f \in Families : owner'[f] # None => member'[owner'[f]].status # "absent"
  BY DEF MemberInvariant, MembersTypeOK
<1>4. MembersTypeOK'
  BY <1>2, <1>3 DEF MembersTypeOK
<1>5. RequestRows'
  BY NoOneMissing DEF RequestRows, MemberInvariant
<1>6. \A p \in Requests : \/ req'[p] = req[p] /\ Rows(p)' = Rows(p)
                          \/ Rows(p)' = {}
  BY NoOneMissing DEF Rows
<1>7. \A p, q \in Requests : p # q => Rows(p)' \cap Rows(q)' = {}
  BY <1>6 DEF MemberInvariant, Locks
<1>8. ASSUME NEW p \in Requests, req'[p].pc = "counted", NEW m \in req'[p].admins
      PROVE  m \in ActiveAdmins'
  <2>1. req'[p] = req[p]
    BY <1>8, NoOneMissing
  <2>2. m \in Rows(p) /\ m \in ActiveAdmins
    BY <1>8, <2>1 DEF Rows, MemberInvariant, Locks
  <2>3. m \in Members /\ member[m].status = "active" /\ member[m].role = "super_admin"
    BY <2>2 DEF ActiveAdmins
  <2>4. member'[m].status = "active" /\ member'[m].role = "super_admin"
    BY <2>1, <2>2, <2>3
  <2> QED BY <2>3, <2>4 DEF ActiveAdmins
<1>9. Locks'
  BY <1>7, <1>8 DEF Locks
<1> QED BY <1>4, <1>5, <1>9 DEF MemberInvariant

\* The row of one member is written.
LEMMA RowWritten ==
  ASSUME MemberInvariant, NEW m \in Members, NEW row \in MemberRow, row.status # "absent",
         member' = [member EXCEPT ![m] = row],
         \A p \in Requests : req'[p] = req[p] => m \notin Rows(p)
  PROVE  /\ member' \in [Members -> MemberRow] /\ member'[m] = row
         /\ \A n \in Members : member[n].status # "absent" => member'[n].status # "absent"
         /\ \A p \in Requests : req'[p] = req[p] =>
              \A n \in Members : n \in Rows(p) =>
                member'[n].status = member[n].status /\ member'[n].role = member[n].role
<1>1. member \in [Members -> MemberRow]
  BY DEF MemberInvariant, MembersTypeOK
<1>2. member' \in [Members -> MemberRow] /\ member'[m] = row
  BY <1>1
<1>3. \A n \in Members \ {m} : member'[n] = member[n]
  BY <1>1
<1> QED BY <1>2, <1>3

\* A request is over: no row it held counts any more.
LEMMA RequestOver ==
  ASSUME MemberInvariant, NEW q \in Requests, req[q].pc # "idle", Done(q)
  PROVE  /\ req' \in [Requests -> Request]
         /\ \A p \in Requests : req'[p] = req[p] \/ req'[p] = NoRequest
         /\ \A p \in Requests : req'[p] = req[p] => p # q
<1>1. req \in [Requests -> Request] /\ req' = [req EXCEPT ![q] = NoRequest]
  BY DEF MemberInvariant, MembersTypeOK, Done
<1> QED BY <1>1, NoOneMissing

LEMMA ClosedFamilies ==
  ASSUME MemberInvariant, NEW m
  PROVE  /\ Closed(m) \in [Families -> Members \cup {None}]
         /\ \A f \in Families : Closed(m)[f] # None => Closed(m)[f] = owner[f]
BY DEF Closed, MemberInvariant, MembersTypeOK

\* The types every step's proof uses.
LEMMA MemberTypes ==
  ASSUME MemberInvariant
  PROVE  /\ member \in [Members -> MemberRow]
         /\ owner \in [Families -> Members \cup {None}]
         /\ req \in [Requests -> Request] /\ dropped \in SUBSET Members
         /\ \A q \in Requests : req[q].pc \in {"authenticated", "loaded"} =>
              /\ req[q].actor \in Members /\ req[q].family \in Families
              /\ member[req[q].actor].status # "absent"
<1>1. \A q \in Requests : req[q].actor \in Members => req[q].actor # None
  BY NoOneMissing
<1> QED BY <1>1 DEF MemberInvariant, MembersTypeOK, RequestRows

\* No request changes and no row a request waits with is written.
LEMMA RequestsAside ==
  ASSUME MemberInvariant, NEW m \in Members, NEW row \in MemberRow, row.status # "absent",
         member' = [member EXCEPT ![m] = row], req' = req,
         \A p \in Requests : m \notin Rows(p),
         owner' \in [Families -> Members \cup {None}],
         \A f \in Families : owner'[f] # None => owner'[f] = owner[f] \/ owner'[f] = m,
         dropped' \in SUBSET Members
  PROVE  MemberInvariant'
<1>1. /\ member' \in [Members -> MemberRow] /\ member'[m] = row
      /\ \A n \in Members : member[n].status # "absent" => member'[n].status # "absent"
      /\ \A p \in Requests : req'[p] = req[p] =>
           \A n \in Members : n \in Rows(p) =>
             member'[n].status = member[n].status /\ member'[n].role = member[n].role
  BY RowWritten
<1>2. req' \in [Requests -> Request] /\ \A p \in Requests : req'[p] = req[p]
  BY MemberTypes
<1> QED BY <1>1, <1>2, WriteKeeps

LEMMA HostKeeps ==
  ASSUME MemberInvariant, NEW m \in Members, HostStep(m) \/ LoginStep(m)
  PROVE  MemberInvariant'
<1>1. CASE Bootstrap(m)
  <2> DEFINE row == [Absent EXCEPT !.status = "pending", !.role = "super_admin"]
  <2>1. row \in MemberRow /\ row.status # "absent"
    BY DEF Absent, MemberRow, Statuses, Roles
  <2>2. member' = [member EXCEPT ![m] = row] /\ UNCHANGED <<owner, req, dropped>>
        /\ member[m].status = "absent"
    BY <1>1 DEF Bootstrap
  <2> HIDE DEF row
  <2>3. \A p \in Requests : m \notin Rows(p)
    BY <2>2 DEF Rows, MemberInvariant, RequestRows, Locks, ActiveAdmins
  <2> QED BY <2>1, <2>2, <2>3, MemberTypes, RequestsAside
<1>2. CASE Recover(m)
  <2> DEFINE row == [member[m] EXCEPT !.status = "pending", !.force = TRUE,
                                      !.mfa = FALSE, !.enrolling = FALSE]
  <2>1. row \in MemberRow /\ row.status # "absent"
    <3>1. member[m] \in MemberRow
      BY MemberTypes
    <3> QED BY <3>1 DEF MemberRow, Statuses
  <2>2. member' = [member EXCEPT ![m] = row] /\ owner' = Closed(m) /\ UNCHANGED <<req, dropped>>
        /\ \A p \in Requests : m \notin Rows(p)
    BY <1>2 DEF Recover
  <2> HIDE DEF row
  <2> QED BY <2>1, <2>2, MemberTypes, ClosedFamilies, RequestsAside
<1>3. ASSUME NEW f \in Families, Login(m, f) PROVE MemberInvariant'
  <2>1. /\ owner' = [owner EXCEPT ![f] = m] /\ UNCHANGED <<member, req, dropped>>
        /\ member[m].status # "absent"
    BY <1>3 DEF Login
  <2>2. /\ owner' \in [Families -> Members \cup {None}]
        /\ \A g \in Families : owner'[g] # None =>
             owner'[g] = owner[g] \/ member'[owner'[g]].status # "absent"
    BY <2>1, MemberTypes
  <2>3. req' \in [Requests -> Request] /\ \A p \in Requests : req'[p] = req[p]
    BY <2>1, MemberTypes
  <2> QED BY <2>1, <2>2, <2>3, MemberTypes, WriteKeeps
<1> QED BY <1>1, <1>2, <1>3 DEF HostStep, LoginStep

LEMMA ProvisionedRow ==
  ASSUME NEW r \in MemberRow, NEW role \in Roles, NEW groups \in BOOLEAN
  PROVE  Provisioned(r, role, groups) \in MemberRow
<1> DEFINE known == IF r.status = "absent" THEN [r EXCEPT !.status = "active", !.force = FALSE] ELSE r
<1>1. known \in MemberRow
  BY DEF MemberRow, Statuses
<1> HIDE DEF known
<1> DEFINE synced == [known EXCEPT !.role = role, !.spaces = groups]
<1>2. synced \in MemberRow
  BY <1>1 DEF MemberRow
<1> HIDE DEF synced
<1>3. [synced EXCEPT !.status = "disabled"] \in MemberRow
  BY <1>2 DEF MemberRow, Statuses
<1> QED BY <1>2, <1>3 DEF Provisioned, known, synced

LEMMA OidcKeeps ==
  ASSUME MemberInvariant, NEW m \in Members, OidcStep(m)
  PROVE  MemberInvariant'
<1>1. PICK f \in Families, role \in Roles, groups \in BOOLEAN : OidcCallback(m, role, groups, f)
  BY DEF OidcStep
<1> DEFINE r == Provisioned(member[m], role, groups)
<1>2. r \in MemberRow
  BY MemberTypes, ProvisionedRow
<1>3. /\ IF Accepted(r)
         THEN /\ member' = [member EXCEPT ![m] = r]
              /\ owner' = IF r.status = "active" THEN [owner EXCEPT ![f] = m] ELSE Closed(m)
         ELSE UNCHANGED <<member, owner>>
      /\ \A p \in Requests : m \notin Rows(p)
      /\ req' = req
  BY <1>1 DEF OidcCallback
<1>4. dropped' \in SUBSET Members
  BY <1>1, MemberTypes DEF OidcCallback
<1> HIDE DEF r
<1>5. CASE Accepted(r)
  <2>1. r.status = "active" /\ member' = [member EXCEPT ![m] = r] /\ owner' = [owner EXCEPT ![f] = m]
    BY <1>3, <1>5 DEF Accepted
  <2>2. /\ owner' \in [Families -> Members \cup {None}]
        /\ \A g \in Families : owner'[g] # None => owner'[g] = owner[g] \/ owner'[g] = m
    BY <2>1, MemberTypes
  <2> QED BY <1>2, <1>3, <1>4, <2>1, <2>2, RequestsAside
<1>6. CASE ~Accepted(r)
  <2>1. UNCHANGED <<member, owner, req>>
    BY <1>3, <1>6
  <2>2. req' \in [Requests -> Request] /\ \A p \in Requests : req'[p] = req[p]
    BY <2>1, MemberTypes
  <2> QED BY <1>4, <2>1, <2>2, MemberTypes, WriteKeeps
<1> QED BY <1>5, <1>6

\* A request commits a row that no other request holds and is over.
LEMMA RequestCommits ==
  ASSUME MemberInvariant, NEW q \in Requests, req[q].pc # "idle", Done(q),
         NEW m \in Members, NEW row \in MemberRow, row.status # "absent",
         member' = [member EXCEPT ![m] = row],
         \A p \in Requests \ {q} : m \notin Rows(p),
         owner' \in [Families -> Members \cup {None}],
         \A f \in Families : owner'[f] # None => owner'[f] = owner[f] \/ owner'[f] = m,
         UNCHANGED dropped
  PROVE  MemberInvariant'
<1>1. /\ req' \in [Requests -> Request]
      /\ \A p \in Requests : req'[p] = req[p] \/ req'[p] = NoRequest
      /\ \A p \in Requests : req'[p] = req[p] => p # q
  BY RequestOver
<1>2. /\ member' \in [Members -> MemberRow] /\ member'[m] = row
      /\ \A n \in Members : member[n].status # "absent" => member'[n].status # "absent"
      /\ \A p \in Requests : req'[p] = req[p] =>
           \A n \in Members : n \in Rows(p) =>
             member'[n].status = member[n].status /\ member'[n].role = member[n].role
  BY <1>1, RowWritten
<1> QED BY <1>1, <1>2, MemberTypes, WriteKeeps

\* A step that writes no row of a member.
LEMMA RowsAside ==
  ASSUME MemberInvariant, UNCHANGED <<member, dropped>>,
         owner' \in [Families -> Members \cup {None}],
         \A f \in Families : owner'[f] # None => owner'[f] = owner[f],
         NEW q \in Requests, NEW r \in Request, req' = [req EXCEPT ![q] = r],
         r = NoRequest \/ /\ r.pc \in {"authenticated", "loaded"}
                          /\ r.actor \in Members /\ r.family \in Families
                          /\ member[r.actor].status # "absent"
  PROVE  MemberInvariant'
<1>1. req' \in [Requests -> Request] /\ req'[q] = r /\ \A p \in Requests \ {q} : req'[p] = req[p]
  BY MemberTypes
<1>2. \A p \in Requests :
        \/ req'[p] = req[p]
        \/ req'[p] = NoRequest
        \/ /\ req'[p].pc \in {"authenticated", "loaded"}
           /\ req'[p].actor \in Members /\ req'[p].family \in Families
           /\ member'[req'[p].actor].status # "absent"
  BY <1>1
<1> QED BY <1>1, <1>2, MemberTypes, WriteKeeps

\* Only the account's columns are assigned.
LEMMA AssignedRow ==
  ASSUME NEW row \in MemberRow, NEW seen \in Account, NEW new \in Account,
         row.status # "absent", new.status = seen.status \/ new.status # "absent"
  PROVE  Assigned(row, seen, new) \in MemberRow /\ Assigned(row, seen, new).status # "absent"
<1> DEFINE w == Assigned(row, seen, new)
<1>1. DOMAIN row = {"status", "role", "force", "mfa", "enrolling", "spaces"}
      /\ DOMAIN seen = {"status", "role", "force"}
  BY DEF MemberRow, Account
<1>2. /\ w.status = IF new.status # seen.status THEN new.status ELSE row.status
      /\ w.role = IF new.role # seen.role THEN new.role ELSE row.role
      /\ w.force = IF new.force # seen.force THEN new.force ELSE row.force
      /\ w.mfa = row.mfa /\ w.enrolling = row.enrolling /\ w.spaces = row.spaces
  BY <1>1 DEF Assigned
<1>3. w = [status |-> w.status, role |-> w.role, force |-> w.force,
           mfa |-> w.mfa, enrolling |-> w.enrolling, spaces |-> w.spaces]
  BY <1>1 DEF Assigned
<1> HIDE DEF w
<1>4. w.status \in Statuses /\ w.status # "absent" /\ w.role \in Roles
  BY <1>2 DEF MemberRow, Account
<1>5. w.force \in BOOLEAN /\ w.mfa \in BOOLEAN /\ w.enrolling \in BOOLEAN /\ w.spaces \in BOOLEAN
  BY <1>2 DEF MemberRow, Account
<1>6. w \in MemberRow
  BY <1>3, <1>4, <1>5 DEF MemberRow
<1> QED BY <1>4, <1>6 DEF w

LEMMA SelfKeeps ==
  ASSUME MemberInvariant, NEW q \in Requests, SelfStep(q)
  PROVE  MemberInvariant'
<1>1. CASE LoadSelf(q)
  <2> DEFINE r == [req[q] EXCEPT !.pc = "loaded", !.seen = Load(member[req[q].actor])]
  <2>1. /\ req[q] \in Request /\ req[q].actor \in Members /\ req[q].family \in Families
        /\ member[req[q].actor] \in MemberRow /\ member[req[q].actor].status # "absent"
    BY <1>1, MemberTypes DEF LoadSelf
  <2>2. Load(member[req[q].actor]) \in Account
    BY <2>1 DEF Load, Account, MemberRow
  <2>3. r \in Request /\ r.pc = "loaded" /\ r.actor = req[q].actor /\ r.family = req[q].family
    BY <2>1, <2>2 DEF Request
  <2>4. req' = [req EXCEPT ![q] = r] /\ UNCHANGED <<member, owner, dropped>>
    BY <1>1, <2>1 DEF LoadSelf, Request
  <2> HIDE DEF r
  <2> QED BY <2>1, <2>3, <2>4, MemberTypes, RowsAside
<1>2. CASE BeginEnrollment(q)
  <2> DEFINE m == req[q].actor
             row == [member[m] EXCEPT !.enrolling = TRUE]
  <2>1. /\ req[q].pc = "loaded" /\ m \in Members
        /\ member[m] \in MemberRow /\ member[m].status # "absent"
    BY <1>2, MemberTypes DEF BeginEnrollment
  <2>2. row \in MemberRow /\ row.status # "absent"
    BY <2>1 DEF MemberRow
  <2>3. /\ member' = [member EXCEPT ![m] = row] /\ Done(q) /\ UNCHANGED <<owner, dropped>>
        /\ \A p \in Requests \ {q} : m \notin Rows(p)
    BY <1>2, <2>1 DEF BeginEnrollment, RowFree
  <2> HIDE DEF row, m
  <2> QED BY <2>1, <2>2, <2>3, MemberTypes, RequestCommits
<1>3. CASE Abandon(q)
  <2>1. req' = [req EXCEPT ![q] = NoRequest] /\ UNCHANGED <<member, owner, dropped>>
    BY <1>3 DEF Abandon, Done
  <2> QED BY <2>1, NoOneMissing, MemberTypes, RowsAside
<1>4. ASSUME NEW f \in Families, Authenticate(q, f) PROVE MemberInvariant'
  <2> DEFINE m == owner[f]
             r == [NoRequest EXCEPT !.pc = "authenticated", !.actor = m, !.family = f,
                                    !.role = member[m].role, !.restricted = Restricted(member[m])]
  <2>1. m \in Members /\ member[m].status # "absent"
    BY <1>4, MemberTypes DEF Authenticate, MemberInvariant, MembersTypeOK
  <2>2. member[m].role \in Roles /\ member[m] \in MemberRow
    BY <2>1, MemberTypes DEF MemberRow
  <2>3. Restricted(member[m]) \in BOOLEAN
    BY <2>2 DEF Restricted, MemberRow
  <2>4. r \in Request /\ r.pc = "authenticated" /\ r.actor = m /\ r.family = f
    BY <2>1, <2>2, <2>3, NoOneMissing DEF Request
  <2>5. req' = [req EXCEPT ![q] = r] /\ UNCHANGED <<member, owner, dropped>>
    BY <1>4 DEF Authenticate
  <2> HIDE DEF r, m
  <2> QED BY <2>1, <2>4, <2>5, MemberTypes, RowsAside
<1>5. ASSUME NEW f \in Families, CloseFamily(q, f) PROVE MemberInvariant'
  <2>1. /\ req' = [req EXCEPT ![q] = NoRequest] /\ UNCHANGED <<member, dropped>>
        /\ owner' = [owner EXCEPT ![f] = IF @ = req[q].actor THEN None ELSE @]
    BY <1>5 DEF CloseFamily, Done
  <2>2. /\ owner' \in [Families -> Members \cup {None}]
        /\ \A g \in Families : owner'[g] # None => owner'[g] = owner[g]
    BY <2>1, MemberTypes
  <2> QED BY <2>1, <2>2, NoOneMissing, RowsAside
<1>6. ASSUME NEW f \in Families, ChangePassword(q, f) PROVE MemberInvariant'
  <2> DEFINE m == req[q].actor
             seen == req[q].seen
             new == [seen EXCEPT !.force = FALSE,
                                 !.status = IF seen.role = "member" THEN "active" ELSE @]
             row == Assigned(member[m], seen, new)
  <2>1. /\ req[q].pc = "loaded" /\ m \in Members /\ seen \in Account
        /\ member[m] \in MemberRow /\ member[m].status # "absent"
    BY <1>6, MemberTypes DEF ChangePassword, Request
  <2>2. new \in Account /\ (new.status = seen.status \/ new.status # "absent")
    BY <2>1 DEF Account, Statuses
  <2>3. /\ member' = [member EXCEPT ![m] = row] /\ owner' = [Closed(m) EXCEPT ![f] = m]
        /\ Done(q) /\ UNCHANGED dropped
        /\ \A p \in Requests \ {q} : m \notin Rows(p)
    BY <1>6, <2>1 DEF ChangePassword, RowFree
  <2> HIDE DEF new, m, seen
  <2>4. row \in MemberRow /\ row.status # "absent"
    BY <2>1, <2>2, AssignedRow
  <2> HIDE DEF row
  <2>5. /\ owner' \in [Families -> Members \cup {None}]
        /\ \A g \in Families : owner'[g] # None => owner'[g] = owner[g] \/ owner'[g] = m
    BY <2>1, <2>3, ClosedFamilies
  <2> QED BY <2>1, <2>3, <2>4, <2>5, RequestCommits
<1>7. ASSUME NEW f \in Families, ConfirmEnrollment(q, f) PROVE MemberInvariant'
  <2> DEFINE m == req[q].actor
             seen == req[q].seen
             new == [seen EXCEPT !.status = "active"]
             old == Assigned(member[m], seen, new)
             row == [old EXCEPT !.mfa = TRUE, !.enrolling = FALSE]
  <2>1. /\ req[q].pc = "loaded" /\ m \in Members /\ seen \in Account
        /\ member[m] \in MemberRow /\ member[m].status # "absent"
    BY <1>7, MemberTypes DEF ConfirmEnrollment, Request
  <2>2. new \in Account /\ new.status # "absent"
    BY <2>1 DEF Account, Statuses
  <2>3. /\ member' = [member EXCEPT ![m] = row] /\ owner' = [Closed(m) EXCEPT ![f] = m]
        /\ Done(q) /\ UNCHANGED dropped
        /\ \A p \in Requests \ {q} : m \notin Rows(p)
    BY <1>7, <2>1 DEF ConfirmEnrollment, RowFree
  <2> HIDE DEF new, m, seen
  <2>4. old \in MemberRow /\ old.status # "absent"
    BY <2>1, <2>2, AssignedRow
  <2> HIDE DEF old
  <2>5. row \in MemberRow /\ row.status # "absent"
    BY <2>4 DEF MemberRow
  <2> HIDE DEF row
  <2>6. /\ owner' \in [Families -> Members \cup {None}]
        /\ \A g \in Families : owner'[g] # None => owner'[g] = owner[g] \/ owner'[g] = m
    BY <2>1, <2>3, ClosedFamilies
  <2> QED BY <2>1, <2>3, <2>5, <2>6, RequestCommits
<1> QED BY <1>1, <1>2, <1>3, <1>4, <1>5, <1>6, <1>7 DEF SelfStep

\* A request takes rows: those it holds afterwards are held by no other, and
\* those it has counted are administrators.
LEMMA TakesRows ==
  ASSUME MemberInvariant, UNCHANGED <<member, owner, dropped>>,
         NEW q \in Requests, NEW r \in Request, req' = [req EXCEPT ![q] = r],
         r.pc \in {"target", "counted"}, r.family \in Families,
         r.actor # None => member[r.actor].status # "absent",
         r.target \in Members, r.to.status # "absent", member[r.target].status # "absent",
         r.pc = "counted" => r.admins \subseteq ActiveAdmins,
         \A p \in Requests \ {q} :
           /\ r.target \notin Rows(p)
           /\ r.pc = "counted" => r.admins \cap Rows(p) = {}
  PROVE  MemberInvariant'
<1>1. /\ req' \in [Requests -> Request] /\ req'[q] = r
      /\ \A p \in Requests \ {q} : req'[p] = req[p]
  BY MemberTypes
<1>2. MembersTypeOK'
  <2>1. \A p \in Requests : req'[p].actor # None => member[req'[p].actor].status # "absent"
    BY <1>1 DEF MemberInvariant, MembersTypeOK
  <2> QED BY <1>1, <2>1 DEF MemberInvariant, MembersTypeOK
<1>3. RequestRows'
  BY <1>1 DEF RequestRows, MemberInvariant
<1>4. ActiveAdmins' = ActiveAdmins
  BY DEF ActiveAdmins
<1>5. \A p \in Requests \ {q} : Rows(p)' = Rows(p)
  BY <1>1 DEF Rows
<1>6. Rows(q)' = IF r.pc = "counted" THEN {r.target} \cup r.admins ELSE {r.target}
  BY <1>1 DEF Rows
<1>7. \A p \in Requests \ {q} : Rows(p) \cap Rows(q)' = {}
  BY <1>6
<1>8. \A p, o \in Requests : p # o => Rows(p)' \cap Rows(o)' = {}
  BY <1>5, <1>7 DEF MemberInvariant, Locks
<1>9. \A p \in Requests : req'[p].pc = "counted" => req'[p].admins \subseteq ActiveAdmins
  BY <1>1 DEF MemberInvariant, Locks
<1>10. Locks'
  BY <1>4, <1>8, <1>9 DEF Locks
<1> QED BY <1>2, <1>3, <1>10 DEF MemberInvariant

LEMMA AdminKeeps ==
  ASSUME MemberInvariant, NEW q \in Requests, AdminStep(q)
  PROVE  MemberInvariant'
<1>1. CASE CountAdmins(q)
  <2> DEFINE r == [req[q] EXCEPT !.pc = "counted", !.admins = ActiveAdmins]
  <2>1. req[q] \in Request /\ req[q].pc = "target" /\ ActiveAdmins \in SUBSET Members
    BY <1>1, MemberTypes DEF CountAdmins, ActiveAdmins
  <2>2. /\ r \in Request /\ r.pc = "counted" /\ r.admins = ActiveAdmins
        /\ r.target = req[q].target /\ r.family = req[q].family /\ r.to = req[q].to
        /\ r.actor = req[q].actor
    BY <2>1 DEF Request
  <2>3. req' = [req EXCEPT ![q] = r] /\ UNCHANGED <<member, owner, dropped>>
        /\ \A p \in Requests \ {q} : \A m \in ActiveAdmins : m \notin Rows(p)
    BY <1>1, <2>1 DEF CountAdmins, RowFree, Request
  <2>4. /\ r.target \in Members /\ r.family \in Families /\ r.to.status # "absent"
        /\ member[r.target].status # "absent"
    BY <2>1, <2>2 DEF MemberInvariant, RequestRows
  <2>5. r.target \in Rows(q) /\ \A p \in Requests \ {q} : r.target \notin Rows(p)
    BY <2>1, <2>2 DEF Rows, MemberInvariant, Locks
  <2>6. r.actor # None => member[r.actor].status # "absent"
    BY <2>2 DEF MemberInvariant, MembersTypeOK
  <2> HIDE DEF r
  <2> QED BY <2>2, <2>3, <2>4, <2>5, <2>6, TakesRows
<1>2. CASE UpdateMember(q)
  <2> DEFINE t == req[q].target
             to == req[q].to
             row == [member[t] EXCEPT !.status = to.status, !.role = to.role]
  <2>1. /\ req[q].pc = "counted" /\ req[q] \in Request /\ t \in Members
        /\ to.status # "absent" /\ to \in [status : Statuses, role : Roles]
        /\ member[t] \in MemberRow
    BY <1>2, MemberTypes DEF UpdateMember, MemberInvariant, RequestRows, Request
  <2>2. row \in MemberRow /\ row.status # "absent"
    BY <2>1 DEF MemberRow
  <2>3. member' = [member EXCEPT ![t] = row] /\ Done(q) /\ UNCHANGED dropped
    BY <1>2, <2>1 DEF UpdateMember, MemberRow
  <2>4. owner' = owner \/ owner' = Closed(t)
    BY <1>2 DEF UpdateMember
  <2>5. t \in Rows(q) /\ \A p \in Requests \ {q} : t \notin Rows(p)
    BY <2>1 DEF Rows, MemberInvariant, Locks
  <2> HIDE DEF row, t, to
  <2>6. /\ owner' \in [Families -> Members \cup {None}]
        /\ \A f \in Families : owner'[f] # None => owner'[f] = owner[f]
    BY <2>4, MemberTypes, ClosedFamilies
  <2> QED BY <2>1, <2>2, <2>3, <2>5, <2>6, RequestCommits
<1>3. ASSUME NEW t \in Members, CreateMember(q, t) PROVE MemberInvariant'
  <2> DEFINE row == [Absent EXCEPT !.status = "pending"]
  <2>1. row \in MemberRow /\ row.status # "absent"
    BY DEF Absent, MemberRow, Statuses, Roles
  <2>2. /\ req[q].pc = "authenticated" /\ Done(q) /\ UNCHANGED <<owner, dropped>>
        /\ member' = [member EXCEPT ![t] = row] /\ member[t].status = "absent"
    BY <1>3 DEF CreateMember, MayAdminister
  <2> HIDE DEF row
  <2>3. \A p \in Requests : t \notin Rows(p)
    BY <2>2 DEF Rows, MemberInvariant, RequestRows, Locks, ActiveAdmins
  <2> QED BY <2>1, <2>2, <2>3, MemberTypes, RequestCommits
<1>4. ASSUME NEW t \in Members, ResetPassword(q, t) PROVE MemberInvariant'
  <2> DEFINE row == [member[t] EXCEPT !.force = TRUE]
  <2>1. member[t] \in MemberRow /\ member[t].status # "absent" /\ req[q].pc = "authenticated"
    BY <1>4, MemberTypes DEF ResetPassword, MayAdminister
  <2>2. row \in MemberRow /\ row.status # "absent"
    BY <2>1 DEF MemberRow
  <2>3. /\ member' = [member EXCEPT ![t] = row] /\ owner' = Closed(t)
        /\ Done(q) /\ UNCHANGED dropped
        /\ \A p \in Requests \ {q} : t \notin Rows(p)
    BY <1>4 DEF ResetPassword, RowFree
  <2> HIDE DEF row
  <2> QED BY <2>1, <2>2, <2>3, ClosedFamilies, RequestCommits
<1>5. ASSUME NEW t \in Members, NEW status \in Statuses \ {"absent"}, NEW role \in Roles,
             LockTarget(q, t, status, role)
      PROVE  MemberInvariant'
  <2> DEFINE r == [NoRequest EXCEPT !.pc = "target", !.family = req[q].family, !.target = t,
                                    !.to = [status |-> status, role |-> role]]
  <2>1. req[q].pc = "authenticated" /\ req[q].family \in Families
    BY <1>5, MemberTypes DEF LockTarget, MayAdminister
  <2>2. [status |-> status, role |-> role] \in [status : Statuses, role : Roles]
    OBVIOUS
  <2>3. /\ r \in Request /\ r.pc = "target" /\ r.target = t /\ r.family = req[q].family
        /\ r.to.status = status /\ r.actor = None
    BY <2>1, <2>2, NoOneMissing DEF Request
  <2>4. req' = [req EXCEPT ![q] = r] /\ UNCHANGED <<member, owner, dropped>>
        /\ member[t].status # "absent"
        /\ \A p \in Requests \ {q} : t \notin Rows(p)
    BY <1>5 DEF LockTarget, RowFree
  <2> HIDE DEF r
  <2> QED BY <2>1, <2>3, <2>4, TakesRows
<1> QED BY <1>1, <1>2, <1>3, <1>4, <1>5 DEF AdminStep

LEMMA MemberStep ==
  ASSUME MemberInvariant, [MemberNext]_memberVars
  PROVE  MemberInvariant'
<1>1. ASSUME NEW m \in Members, HostStep(m) \/ LoginStep(m) PROVE MemberInvariant'
  BY <1>1, HostKeeps
<1>2. ASSUME NEW m \in Members, OidcStep(m) PROVE MemberInvariant'
  BY <1>2, OidcKeeps
<1>3. ASSUME NEW q \in Requests, SelfStep(q) PROVE MemberInvariant'
  BY <1>3, SelfKeeps
<1>4. ASSUME NEW q \in Requests, AdminStep(q) PROVE MemberInvariant'
  BY <1>4, AdminKeeps
<1>5. CASE UNCHANGED memberVars
  <2>1. UNCHANGED <<member, owner, req, dropped>> /\ \A p \in Requests : req'[p] = req[p]
    BY <1>5 DEF memberVars
  <2> QED BY <2>1, MemberTypes, WriteKeeps
<1> QED BY <1>1, <1>2, <1>3, <1>4, <1>5 DEF MemberNext

\* More than one is at least another one.
LEMMA AnotherAdmin ==
  ASSUME NEW S \in SUBSET Members, Cardinality(S) > 1, NEW t
  PROVE  \E m \in S : m # t
<1> SUFFICES ASSUME \A m \in S : m = t PROVE FALSE
  OBVIOUS
<1>1. CASE S = {}
  <2>1. Cardinality(S) = 0
    BY <1>1, FS_EmptySet
  <2> QED BY <2>1
<1>2. CASE S # {}
  <2>1. S = {t}
    BY <1>2
  <2>2. Cardinality({t}) = 1
    BY FS_Singleton
  <2>3. Cardinality(S) = 1
    BY <2>1, <2>2
  <2> QED BY <2>3
<1> QED BY <1>1, <1>2

\* The administrators counted under their locks are those that are left.
LEMMA UpdateKeepsAdmin ==
  ASSUME MemberInvariant, NEW q \in Requests, UpdateMember(q), ActiveAdmins # {}
  PROVE  ActiveAdmins' # {}
<1> DEFINE t == req[q].target
           to == req[q].to
<1>1. /\ req[q].pc = "counted" /\ t \in Members /\ member[t] \in MemberRow
      /\ member \in [Members -> MemberRow]
  BY MemberTypes DEF UpdateMember, MemberInvariant, RequestRows
<1>2. member' = [member EXCEPT ![t] = [@ EXCEPT !.status = to.status, !.role = to.role]]
  BY <1>1 DEF UpdateMember, MemberRow
<1>3. /\ member'[t].status = to.status /\ member'[t].role = to.role
      /\ \A m \in Members \ {t} : member'[m] = member[m]
  BY <1>1, <1>2 DEF MemberRow
<1>4. ASSUME NEW m \in ActiveAdmins, m # t PROVE ActiveAdmins' # {}
  BY <1>3, <1>4 DEF ActiveAdmins
<1>5. CASE t \notin ActiveAdmins
  BY <1>4, <1>5
<1>6. CASE to.status = "active" /\ to.role = "super_admin"
  BY <1>1, <1>3, <1>6 DEF ActiveAdmins
<1>7. CASE t \in ActiveAdmins /\ (to.status # "active" \/ to.role # "super_admin")
  <2>1. Cardinality(req[q].admins) > 1
    BY <1>7 DEF UpdateMember
  <2>2. req[q].admins \subseteq ActiveAdmins /\ ActiveAdmins \subseteq Members
    BY <1>1 DEF MemberInvariant, Locks, ActiveAdmins
  <2>3. \E m \in req[q].admins : m # t
    BY <2>1, <2>2, AnotherAdmin
  <2> QED BY <1>4, <2>2, <2>3
<1> QED BY <1>5, <1>6, <1>7

\* Rows and requests of members are well typed, and member administration never
\* takes the last administrator away.
THEOREM MemberTypesKept == MemberSpec => []MembersTypeOK
<1>1. MemberInit => MemberInvariant
  BY MemberInitially
<1>2. MemberInvariant /\ [MemberNext]_memberVars => MemberInvariant'
  BY MemberStep
<1>3. MemberInvariant => MembersTypeOK
  BY DEF MemberInvariant
<1> QED BY <1>1, <1>2, <1>3, PTL DEF MemberSpec

THEOREM MembersAdminKept == MemberSpec => AdminKept
<1>1. MemberInit => MemberInvariant
  BY MemberInitially
<1>2. MemberInvariant /\ [MemberNext]_memberVars => MemberInvariant'
  BY MemberStep
<1>3. MemberInvariant =>
        (ActiveAdmins # {} /\ (\E q \in Requests : UpdateMember(q)) => ActiveAdmins' # {})
  BY UpdateKeepsAdmin
<1> QED BY <1>1, <1>2, <1>3, PTL DEF MemberSpec, AdminKept

-----------------------------------------------------------------------------
(* The login throttle.                                                      *)

\* The table of doublings, as far as the nth.
IsDoubling(f, n) == f = [m \in 0 .. n |-> IF m = 0 THEN 1 ELSE 2 * f[m - 1]]

\* There is such a table of any length: no length is the first without one.
LEMMA DoublingExists ==
  ASSUME NEW n \in Nat
  PROVE  \E f : IsDoubling(f, n)
<1> DEFINE Without == {m \in Nat : ~(\E f : IsDoubling(f, m))}
<1> SUFFICES ASSUME Without # {} PROVE FALSE
  OBVIOUS
<1>1. PICK m \in Without : \A k \in Without : m <= k
  <2>1. Without \in SUBSET Nat
    OBVIOUS
  <2> HIDE DEF Without
  <2> QED BY <2>1, LeastNumber
<1>2. m \in Nat /\ ~(\E f : IsDoubling(f, m))
  BY <1>1
<1>3. CASE m = 0
  <2> DEFINE f == [k \in 0 .. 0 |-> 1]
  <2>1. f = [k \in 0 .. 0 |-> IF k = 0 THEN 1 ELSE 2 * f[k - 1]]
    OBVIOUS
  <2>2. IsDoubling(f, 0)
    BY <2>1 DEF IsDoubling
  <2> QED BY <1>2, <1>3, <2>2
<1>4. CASE m # 0
  <2>1. m - 1 \in Nat /\ ~(m <= m - 1)
    BY <1>2, <1>4
  <2>2. PICK g : IsDoubling(g, m - 1)
    BY <1>1, <2>1
  <2> DEFINE f == [k \in 0 .. m |-> IF k = m THEN 2 * g[m - 1] ELSE g[k]]
             step(k) == IF k = 0 THEN 1 ELSE 2 * f[k - 1]
  <2>3. \A k \in 0 .. (m - 1) : g[k] = IF k = 0 THEN 1 ELSE 2 * g[k - 1]
    BY <2>2 DEF IsDoubling
  <2>4. \A k \in 0 .. (m - 1) : f[k] = g[k]
    BY <1>2, <1>4
  <2>5. f[m] = 2 * g[m - 1]
    BY <1>2
  <2>6. f = [k \in 0 .. m |-> f[k]]
    OBVIOUS
  <2> HIDE DEF f
  <2>7. ASSUME NEW k \in 0 .. m PROVE f[k] = step(k)
    <3>1. CASE k = m
      <4>1. m - 1 \in 0 .. (m - 1)
        BY <1>2, <1>4
      <4> QED BY <1>4, <2>4, <2>5, <3>1, <4>1
    <3>2. CASE k # m /\ k # 0
      <4>1. k \in 0 .. (m - 1) /\ k - 1 \in 0 .. (m - 1)
        BY <1>2, <3>2
      <4> QED BY <2>3, <2>4, <3>2, <4>1
    <3>3. CASE k # m /\ k = 0
      <4>1. 0 \in 0 .. (m - 1)
        BY <1>2, <1>4
      <4> QED BY <2>3, <2>4, <3>3, <4>1
    <3> QED BY <3>1, <3>2, <3>3
  <2>8. f = [k \in 0 .. m |-> step(k)]
    BY <2>6, <2>7
  <2>9. IsDoubling(f, m)
    BY <2>8 DEF IsDoubling
  <2> QED BY <1>2, <2>9
<1> QED BY <1>3, <1>4

\* Each entry of the table is twice the one before it.
LEMMA DoubledSteps ==
  \A n \in 0 .. LastDoubling : Doubled[n] = IF n = 0 THEN 1 ELSE 2 * Doubled[n - 1]
<1>1. LastDoubling \in Nat
  BY DEF LastDoubling
<1>2. \E f : IsDoubling(f, LastDoubling)
  BY <1>1, DoublingExists
<1> DEFINE power == CHOOSE f : IsDoubling(f, LastDoubling)
<1>3. IsDoubling(power, LastDoubling)
  BY <1>2
<1>4. Doubled = [n \in 0 .. LastDoubling |-> power[n]]
  BY DEF Doubled, IsDoubling
<1> HIDE DEF power
<1>5. \A n \in 0 .. LastDoubling : n # 0 => n - 1 \in 0 .. LastDoubling
  BY <1>1
<1> QED BY <1>3, <1>4, <1>5 DEF IsDoubling

\* Doublings are positive numbers.
LEMMA DoubledPositive == \A n \in 0 .. LastDoubling : Doubled[n] \in Nat /\ Doubled[n] > 0
<1> DEFINE Wrong == {n \in 0 .. LastDoubling : ~(Doubled[n] \in Nat /\ Doubled[n] > 0)}
<1> SUFFICES ASSUME Wrong # {} PROVE FALSE
  OBVIOUS
<1>1. PICK n \in Wrong : \A k \in Wrong : n <= k
  <2>1. Wrong \in SUBSET Nat
    BY DEF LastDoubling
  <2> HIDE DEF Wrong
  <2> QED BY <2>1, LeastNumber
<1>2. n # 0
  BY <1>1, DoubledSteps
<1>3. n - 1 \in 0 .. LastDoubling /\ n - 1 \notin Wrong
  BY <1>1, <1>2 DEF LastDoubling
<1>4. Doubled[n] = 2 * Doubled[n - 1]
  BY <1>1, <1>2, DoubledSteps
<1> QED BY <1>1, <1>3, <1>4

\* Later blocks are no shorter.
LEMMA DoubledGrows ==
  ASSUME NEW m \in 0 .. LastDoubling, NEW n \in 0 .. LastDoubling, m <= n
  PROVE  Doubled[m] <= Doubled[n]
<1> DEFINE Wrong == {k \in 0 .. LastDoubling : m <= k /\ ~(Doubled[m] <= Doubled[k])}
<1> SUFFICES ASSUME Wrong # {} PROVE FALSE
  OBVIOUS
<1>1. PICK k \in Wrong : \A x \in Wrong : k <= x
  <2>1. Wrong \in SUBSET Nat
    BY DEF LastDoubling
  <2> HIDE DEF Wrong
  <2> QED BY <2>1, LeastNumber
<1>2. k # m
  BY <1>1, DoubledPositive
<1>3. k - 1 \in 0 .. LastDoubling /\ m <= k - 1 /\ k - 1 \notin Wrong /\ k # 0
  BY <1>1, <1>2 DEF LastDoubling
<1>4. Doubled[k] = 2 * Doubled[k - 1]
  BY <1>1, <1>3, DoubledSteps
<1> QED BY <1>1, <1>3, <1>4, DoubledPositive

\* The attempts let in that will be counted in the bucket k.
Underway(k) == {t \in Attempts : attempt[t] # NoAccount /\ k \in BucketKeys(attempt[t])}

Rules == {r \in [limit : Nat \ {0}, window : Nat \ {0}, base : Nat \ {0}, longest : Nat] :
            r.longest >= r.window /\ r.window <= r.base * Doubled[LastDoubling]}

\* When the jth block began, the first j - 1 of them had run their time within the
\* window; and the jth ends with the window or when it has run its time, too.
Blocked(r, b, j) ==
  IF j = 0 THEN b.count < r.limit /\ b.left = 0
  ELSE /\ j <= b.count - (r.limit - 1)
       /\ r.base * (Doubled[j - 1] - 1) < r.window
       /\ r.base * (Doubled[j - 1] - 1) <= b.age
       /\ b.age + b.left >= r.window \/ b.age + b.left >= r.base * (2 * Doubled[j - 1] - 1)

\* In each of j blocks at most one batch of attempts was counted; what is under way
\* while the jth lasts belongs to its batch.
Batched(r, b, j, underway) ==
  /\ Blocked(r, b, j)
  /\ j > 0 => b.count - (r.limit - 1) + (IF b.left > 0 THEN underway ELSE 0) <= Cardinality(Attempts) * j

Bucket(r) == [count : Nat, age : 0 .. r.window, left : Nat]

ThrottleInvariant ==
  /\ attempt \in [Attempts -> Accounts \cup {NoAccount}]
  /\ bucket = [k \in Buckets |-> bucket[k]]
  /\ \A k \in Buckets :
       /\ bucket[k] \in Bucket(Rule[Kind(k)])
       /\ \E j \in 0 .. LastDoubling + 1 :
            Batched(Rule[Kind(k)], bucket[k], j, Cardinality(Underway(k)))

\* Every bucket has a rule as the policy gives it.
LEMMA RulesTyped == \A k \in Buckets : Rule[Kind(k)] \in Rules
<1>1. \A k \in Buckets : Kind(k) \in {"account", "ip", "global"}
  BY DEF Buckets, Kind
<1> QED BY <1>1, ThrottleAssumption DEF Rules

\* A batch is no larger than the attempts there can be.
LEMMA UnderwayCounted ==
  \A k : /\ IsFiniteSet(Underway(k)) /\ Cardinality(Underway(k)) \in Nat
         /\ Cardinality(Attempts) \in Nat /\ Cardinality(Underway(k)) <= Cardinality(Attempts)
<1> TAKE k
<1>1. Underway(k) \subseteq Attempts
  BY DEF Underway
<1> QED BY <1>1, FS_Subset, FS_CardinalityType, ThrottleAssumption

\* Recording an attempt ends its being under way.
LEMMA OneLess ==
  ASSUME NEW t \in Attempts, attempt \in [Attempts -> Accounts \cup {NoAccount}],
         attempt[t] # NoAccount, attempt' = [attempt EXCEPT ![t] = NoAccount], NEW k \in Buckets
  PROVE  /\ k \in BucketKeys(attempt[t]) => Cardinality(Underway(k)') = Cardinality(Underway(k)) - 1
         /\ k \notin BucketKeys(attempt[t]) => Underway(k)' = Underway(k)
<1>1. CASE k \in BucketKeys(attempt[t])
  <2>1. Underway(k)' = Underway(k) \ {t} /\ t \in Underway(k)
    BY <1>1 DEF Underway, BucketKeys
  <2> QED BY <1>1, <2>1, UnderwayCounted, FS_RemoveElement
<1>2. CASE k \notin BucketKeys(attempt[t])
  <2>1. Underway(k)' = Underway(k)
    BY <1>2 DEF Underway, BucketKeys
  <2> QED BY <1>2, <2>1
<1> QED BY <1>1, <1>2

\* Limits, windows and blocks are not empty.
LEMMA RulesPositive == \A r \in Rules : r.limit > 0 /\ r.window > 0 /\ r.base > 0
  BY DEF Rules

\* A block lasts as many base times as its place says, or the rest of the window.
LEMMA BlockLasts ==
  ASSUME NEW r \in Rules, NEW n \in Nat, NEW j \in 1 .. LastDoubling + 1, n - (r.limit - 1) >= j
  PROVE  /\ BlockSeconds(r, n) \in Nat
         /\ BlockSeconds(r, n) >= r.window \/ BlockSeconds(r, n) >= r.base * Doubled[j - 1]
<1> DEFINE e == Least(n - r.limit, LastDoubling)
<1>0. r.limit \in Nat /\ r.base \in Nat /\ r.longest \in Nat /\ r.window \in Nat /\ r.longest >= r.window
  BY DEF Rules
<1>1. n >= r.limit
  BY <1>0 DEF LastDoubling
<1>2. e \in 0 .. LastDoubling /\ j - 1 \in 0 .. LastDoubling /\ j - 1 <= e
  BY <1>0, <1>1 DEF Least, LastDoubling
<1>3. BlockSeconds(r, n) = Least(r.longest, r.base * Doubled[e])
  BY <1>0, <1>1 DEF BlockSeconds
<1> HIDE DEF e
<1>4. Doubled[j - 1] \in Nat /\ Doubled[e] \in Nat /\ Doubled[j - 1] <= Doubled[e]
  BY <1>2, DoubledGrows, DoubledPositive
<1>5. \A b, x, y \in Nat : x <= y => b * x <= b * y /\ b * y \in Nat
  OBVIOUS
<1>6. r.base * Doubled[j - 1] <= r.base * Doubled[e] /\ r.base * Doubled[e] \in Nat /\ r.base * Doubled[j - 1] \in Nat
  BY <1>0, <1>4, <1>5
<1> QED BY <1>0, <1>3, <1>6 DEF Least

\* The first block lasts the base time.
LEMMA FirstDoubling == 0 \in 0 .. LastDoubling /\ Doubled[0] = 1
  BY DoubledSteps DEF LastDoubling

\* A failure is counted in the bucket b by the rule r: what Counted makes of it.
CountedIn(r, b) ==
  LET over == b.count = 0 \/ b.age >= r.window
      n == IF over THEN 1 ELSE b.count + 1
  IN [count |-> n, age |-> IF over THEN 0 ELSE b.age, left |-> BlockSeconds(r, n)]

\* The block the failure begins, or none.
LEMMA CountedFirst ==
  ASSUME NEW r \in Rules, NEW n \in Nat \ {0}, NEW age \in 0 .. r.window, n <= r.limit,
         NEW underway \in Nat, underway + 1 <= Cardinality(Attempts), Cardinality(Attempts) \in Nat
  PROVE  LET b == [count |-> n, age |-> age, left |-> BlockSeconds(r, n)]
         IN \/ n < r.limit /\ Batched(r, b, 0, underway)
            \/ n = r.limit /\ Batched(r, b, 1, underway)
<1> DEFINE b == [count |-> n, age |-> age, left |-> BlockSeconds(r, n)]
<1>0. r.limit \in Nat /\ r.base \in Nat /\ r.window \in Nat /\ r.window > 0 /\ age \in Nat
      /\ b.count = n /\ b.age = age /\ b.left = BlockSeconds(r, n)
  BY DEF Rules
<1> HIDE DEF b
<1>1. CASE n < r.limit
  <2>1. b.left = 0
    BY <1>0, <1>1 DEF BlockSeconds
  <2> QED BY <1>0, <1>1, <2>1 DEF Batched, Blocked, b
<1>2. CASE n = r.limit
  <2>1. n - (r.limit - 1) = 1 /\ 1 \in 1 .. LastDoubling + 1 /\ 1 - 1 = 0
    BY <1>0, <1>2 DEF LastDoubling
  <2>2. b.left \in Nat /\ (b.left >= r.window \/ b.left >= r.base)
    BY <1>0, <2>1, BlockLasts, FirstDoubling
  <2>3. r.base * (Doubled[1 - 1] - 1) = 0 /\ r.base * (2 * Doubled[1 - 1] - 1) = r.base
    BY <1>0, <2>1, FirstDoubling
  <2>4. Blocked(r, b, 1)
    BY <1>0, <2>1, <2>2, <2>3 DEF Blocked
  <2>5. Cardinality(Attempts) * 1 = Cardinality(Attempts)
    OBVIOUS
  <2> QED BY <1>0, <1>2, <2>1, <2>4, <2>5 DEF Batched, b
<1> QED BY <1>0, <1>1, <1>2

\* One more failure of the batch of the jth block.
LEMMA CountedInBlock ==
  ASSUME NEW r \in Rules, NEW b \in Bucket(r), NEW j \in 1 .. LastDoubling + 1,
         NEW underway \in Nat, underway > 0, Cardinality(Attempts) \in Nat,
         Batched(r, b, j, underway), b.left > 0, b.age < r.window
  PROVE  Batched(r, CountedIn(r, b), j, underway - 1)
<1> DEFINE n == b.count + 1
           d == Doubled[j - 1]
<1>0. /\ r.limit \in Nat /\ r.base \in Nat /\ r.window \in Nat
      /\ b.count \in Nat /\ b.age \in Nat /\ b.left \in Nat /\ j \in Nat /\ j > 0
  BY DEF Rules, Bucket, LastDoubling
<1>1. j <= b.count - (r.limit - 1) /\ r.base * (d - 1) < r.window /\ r.base * (d - 1) <= b.age
  BY <1>0 DEF Batched, Blocked
<1>2. d \in Nat
  <2>1. j - 1 \in 0 .. LastDoubling
    BY DEF LastDoubling
  <2> QED BY <2>1, DoubledPositive
<1>3. b.count # 0
  BY <1>0, <1>1, RulesPositive
<1>4. CountedIn(r, b) = [count |-> n, age |-> b.age, left |-> BlockSeconds(r, n)]
  BY <1>0, <1>3 DEF CountedIn
<1>5. n \in Nat /\ n - (r.limit - 1) >= j
  BY <1>0, <1>1
<1>6. /\ BlockSeconds(r, n) \in Nat
      /\ BlockSeconds(r, n) >= r.window \/ BlockSeconds(r, n) >= r.base * d
  BY <1>5, BlockLasts
<1>7. r.base * (2 * d - 1) = r.base * (d - 1) + r.base * d /\ r.base * d \in Nat /\ r.base * (d - 1) \in Int
  BY <1>0, <1>2
<1> HIDE DEF d
<1>8. \/ b.age + BlockSeconds(r, n) >= r.window
      \/ b.age + BlockSeconds(r, n) >= r.base * (2 * d - 1)
  BY <1>0, <1>1, <1>6, <1>7
<1>9. b.count - (r.limit - 1) + underway <= Cardinality(Attempts) * j
  BY <1>0 DEF Batched
<1>10. n - (r.limit - 1) + (underway - 1) <= Cardinality(Attempts) * j
  BY <1>0, <1>9
<1>11. n - (r.limit - 1) <= Cardinality(Attempts) * j
  <2>1. Cardinality(Attempts) * j \in Nat
    BY <1>0
  <2> QED BY <1>0, <1>10, <2>1
<1>12. Blocked(r, CountedIn(r, b), j)
  BY <1>0, <1>1, <1>4, <1>5, <1>8 DEF Blocked, d
<1> QED BY <1>0, <1>4, <1>10, <1>11, <1>12 DEF Batched

\* The jth block is over: the failure begins the next one.
LEMMA CountedInNext ==
  ASSUME NEW r \in Rules, NEW b \in Bucket(r), NEW j \in 1 .. LastDoubling + 1,
         NEW underway \in Nat, underway > 0, Cardinality(Attempts) \in Nat,
         underway <= Cardinality(Attempts),
         Batched(r, b, j, underway), b.left = 0, b.age < r.window
  PROVE  j + 1 \in 1 .. LastDoubling + 1 /\ Batched(r, CountedIn(r, b), j + 1, underway - 1)
<1> DEFINE n == b.count + 1
           d == Doubled[j - 1]
           e == Doubled[j]
<1>0. /\ r.limit \in Nat /\ r.base \in Nat /\ r.window \in Nat
      /\ b.count \in Nat /\ b.age \in Nat /\ b.left \in Nat /\ j \in Nat /\ j > 0 /\ r.base > 0
  BY RulesPositive DEF Rules, Bucket, LastDoubling
<1>1. j <= b.count - (r.limit - 1) /\ b.age >= r.base * (2 * d - 1)
  BY <1>0 DEF Batched, Blocked
<1>2. d \in Nat /\ d > 0 /\ j - 1 \in 0 .. LastDoubling
  <2>1. j - 1 \in 0 .. LastDoubling
    BY DEF LastDoubling
  <2> QED BY <2>1, DoubledPositive
<1>3. r.base * (2 * d - 1) = r.base * (d - 1) + r.base * d /\ r.base * d \in Nat /\ r.base * (d - 1) \in Nat
  BY <1>0, <1>2
<1>4. j # LastDoubling + 1
  <2> SUFFICES ASSUME j = LastDoubling + 1 PROVE FALSE
    OBVIOUS
  <2>1. d = Doubled[LastDoubling]
    BY DEF LastDoubling
  <2>2. r.window <= r.base * d
    BY <2>1 DEF Rules
  <2> HIDE DEF d
  <2> QED BY <1>0, <1>1, <1>3, <2>2
<1>5. j \in 0 .. LastDoubling /\ j + 1 \in 1 .. LastDoubling + 1 /\ (j + 1) - 1 = j
  BY <1>4 DEF LastDoubling
<1>6. e = 2 * d
  BY <1>0, <1>5, DoubledSteps
<1>7. b.count # 0
  BY <1>0, <1>1, RulesPositive
<1>8. CountedIn(r, b) = [count |-> n, age |-> b.age, left |-> BlockSeconds(r, n)]
  BY <1>0, <1>7 DEF CountedIn
<1>9. n \in Nat /\ n - (r.limit - 1) >= j + 1
  BY <1>0, <1>1
<1>10. /\ BlockSeconds(r, n) \in Nat
       /\ BlockSeconds(r, n) >= r.window \/ BlockSeconds(r, n) >= r.base * e
  BY <1>5, <1>9, BlockLasts
<1>11. r.base * (2 * e - 1) = r.base * (e - 1) + r.base * e /\ r.base * e \in Nat
  BY <1>0, <1>2, <1>6
<1>12. r.base * (e - 1) = r.base * (2 * d - 1)
  BY <1>6
<1> HIDE DEF d, e
<1>13. \/ b.age + BlockSeconds(r, n) >= r.window
       \/ b.age + BlockSeconds(r, n) >= r.base * (2 * e - 1)
  BY <1>0, <1>1, <1>3, <1>10, <1>11, <1>12
<1>14. Blocked(r, CountedIn(r, b), j + 1)
  BY <1>0, <1>1, <1>3, <1>5, <1>8, <1>9, <1>12, <1>13 DEF Blocked, e
<1>15. b.count - (r.limit - 1) <= Cardinality(Attempts) * j
  BY <1>0 DEF Batched
<1>16. Cardinality(Attempts) * (j + 1) = Cardinality(Attempts) * j + Cardinality(Attempts)
       /\ Cardinality(Attempts) * j \in Nat
  BY <1>0
<1>17. n - (r.limit - 1) + (underway - 1) <= Cardinality(Attempts) * (j + 1)
       /\ n - (r.limit - 1) <= Cardinality(Attempts) * (j + 1)
  BY <1>0, <1>15, <1>16
<1> QED BY <1>0, <1>5, <1>8, <1>14, <1>17 DEF Batched

\* At first nothing is counted.
LEMMA ThrottleStart == ThrottleInit => ThrottleInvariant
<1> SUFFICES ASSUME ThrottleInit PROVE ThrottleInvariant
  OBVIOUS
<1>1. /\ attempt \in [Attempts -> Accounts \cup {NoAccount}]
      /\ bucket = [k \in Buckets |-> bucket[k]]
  BY DEF ThrottleInit
<1>2. ASSUME NEW k \in Buckets
      PROVE  /\ bucket[k] \in Bucket(Rule[Kind(k)])
             /\ \E j \in 0 .. LastDoubling + 1 :
                  Batched(Rule[Kind(k)], bucket[k], j, Cardinality(Underway(k)))
  <2>1. bucket[k] = [count |-> 0, age |-> 0, left |-> 0]
    BY DEF ThrottleInit, NoBucket
  <2>2. Rule[Kind(k)] \in Rules
    BY RulesTyped
  <2> DEFINE r == Rule[Kind(k)]
  <2>3. r.limit \in Nat /\ r.limit > 0 /\ r.window \in Nat
    BY <2>2, RulesPositive DEF Rules
  <2> HIDE DEF r
  <2>4. bucket[k] \in Bucket(r)
    BY <2>1, <2>3 DEF Bucket
  <2>5. Batched(r, bucket[k], 0, Cardinality(Underway(k)))
    BY <2>1, <2>3 DEF Batched, Blocked
  <2>6. 0 \in 0 .. LastDoubling + 1
    BY DEF LastDoubling
  <2> QED BY <2>4, <2>5, <2>6 DEF r
<1> QED BY <1>1, <1>2 DEF ThrottleInvariant

\* Who is let in joins no batch of a block that lasts: there is none.
LEMMA LetInKeeps ==
  ASSUME ThrottleInvariant, NEW t \in Attempts, NEW u \in Accounts, LetIn(t, u)
  PROVE  ThrottleInvariant'
<1>1. attempt' = [attempt EXCEPT ![t] = u] /\ bucket' = bucket /\ attempt[t] = NoAccount
      /\ \A k \in BucketKeys(u) : bucket[k].left = 0
  BY DEF LetIn
<1>2. attempt' \in [Attempts -> Accounts \cup {NoAccount}]
  BY <1>1 DEF ThrottleInvariant
<1>3. ASSUME NEW k \in Buckets
      PROVE  \E j \in 0 .. LastDoubling + 1 :
               Batched(Rule[Kind(k)], bucket[k], j, Cardinality(Underway(k)'))
  <2>1. PICK j \in 0 .. LastDoubling + 1 : Batched(Rule[Kind(k)], bucket[k], j, Cardinality(Underway(k)))
    BY DEF ThrottleInvariant
  <2>2. bucket[k].left = 0 \/ Underway(k)' = Underway(k)
    <3>1. ASSUME k \notin BucketKeys(u) PROVE Underway(k)' = Underway(k)
      BY <1>1, <3>1 DEF Underway, ThrottleInvariant
    <3> QED BY <1>1, <3>1
  <2>3. CASE Underway(k)' = Underway(k)
    BY <2>1, <2>3
  <2>4. CASE bucket[k].left = 0
    <3>1. ~(bucket[k].left > 0)
      BY <2>4
    <3>2. Batched(Rule[Kind(k)], bucket[k], j, Cardinality(Underway(k)'))
      BY <2>1, <3>1 DEF Batched
    <3> QED BY <3>2
  <2> QED BY <2>2, <2>3, <2>4
<1> QED BY <1>1, <1>2, <1>3 DEF ThrottleInvariant

\* A failure starts a window, or counts below the limit, within a block or after one.
LEMMA CountedKeeps ==
  ASSUME NEW r \in Rules, NEW b \in Bucket(r), NEW underway \in Nat, underway > 0,
         underway <= Cardinality(Attempts), Cardinality(Attempts) \in Nat,
         NEW j \in 0 .. LastDoubling + 1, Batched(r, b, j, underway)
  PROVE  /\ CountedIn(r, b) \in Bucket(r)
         /\ \E i \in 0 .. LastDoubling + 1 : Batched(r, CountedIn(r, b), i, underway - 1)
<1> DEFINE over == b.count = 0 \/ b.age >= r.window
           n == IF over THEN 1 ELSE b.count + 1
           age == IF over THEN 0 ELSE b.age
<1>0. /\ r.limit \in Nat /\ r.limit > 0 /\ r.window \in Nat /\ r.window > 0 /\ j \in Nat
      /\ b.count \in Nat /\ b.age \in 0 .. r.window /\ b.age \in Nat /\ b.left \in Nat
  BY RulesPositive DEF Rules, Bucket, LastDoubling
<1>1. CountedIn(r, b) = [count |-> n, age |-> age, left |-> BlockSeconds(r, n)]
  BY DEF CountedIn
<1>2. n \in Nat \ {0} /\ age \in 0 .. r.window
  BY <1>0
<1>3. BlockSeconds(r, n) \in Nat
  <2>1. CASE n < r.limit
    BY <2>1 DEF BlockSeconds
  <2>2. CASE ~(n < r.limit)
    <3>1. 1 \in 1 .. LastDoubling + 1 /\ n - (r.limit - 1) >= 1 /\ n \in Nat
      BY <1>0, <1>2, <2>2 DEF LastDoubling
    <3> HIDE DEF n
    <3> QED BY <3>1, BlockLasts
  <2> QED BY <2>1, <2>2
<1>4. CountedIn(r, b) \in Bucket(r)
  BY <1>1, <1>2, <1>3 DEF Bucket
<1>5. underway - 1 \in Nat /\ (underway - 1) + 1 <= Cardinality(Attempts)
  OBVIOUS
<1>6. 0 \in 0 .. LastDoubling + 1 /\ 1 \in 0 .. LastDoubling + 1 /\ (j > 0 => j \in 1 .. LastDoubling + 1)
      /\ \A i \in 1 .. LastDoubling + 1 : i \in 0 .. LastDoubling + 1
  BY <1>0 DEF LastDoubling
<1>7. CASE n <= r.limit
  <2> HIDE DEF n, age
  <2>1. \/ Batched(r, CountedIn(r, b), 0, underway - 1)
        \/ Batched(r, CountedIn(r, b), 1, underway - 1)
    BY <1>1, <1>2, <1>5, <1>7, CountedFirst
  <2> QED BY <1>4, <1>6, <2>1
<1>8. CASE ~(n <= r.limit)
  <2>1. ~over /\ b.count >= r.limit /\ b.age < r.window
    BY <1>0, <1>8
  <2>2. j > 0
    BY <1>0, <2>1 DEF Batched, Blocked
  <2>3. CASE b.left > 0
    BY <1>4, <1>6, <2>1, <2>2, <2>3, CountedInBlock
  <2>4. CASE b.left = 0
    BY <1>4, <1>6, <2>1, <2>2, <2>4, CountedInNext
  <2> QED BY <1>0, <2>3, <2>4
<1> QED BY <1>0, <1>2, <1>7, <1>8

\* A failure is counted in its three buckets.
LEMMA RecordFailureKeeps ==
  ASSUME ThrottleInvariant, NEW t \in Attempts, RecordFailure(t)
  PROVE  ThrottleInvariant'
<1>1. /\ attempt[t] # NoAccount /\ attempt' = [attempt EXCEPT ![t] = NoAccount]
      /\ bucket' = [k \in Buckets |-> IF k \in BucketKeys(attempt[t]) THEN Counted(k) ELSE bucket[k]]
  BY DEF RecordFailure
<1>2. attempt' \in [Attempts -> Accounts \cup {NoAccount}] /\ bucket' = [k \in Buckets |-> bucket'[k]]
  BY <1>1 DEF ThrottleInvariant
<1>3. ASSUME NEW k \in Buckets
      PROVE  /\ bucket'[k] \in Bucket(Rule[Kind(k)])
             /\ \E j \in 0 .. LastDoubling + 1 :
                  Batched(Rule[Kind(k)], bucket'[k], j, Cardinality(Underway(k)'))
  <2>1. PICK j \in 0 .. LastDoubling + 1 : Batched(Rule[Kind(k)], bucket[k], j, Cardinality(Underway(k)))
    BY DEF ThrottleInvariant
  <2>2. bucket[k] \in Bucket(Rule[Kind(k)]) /\ attempt \in [Attempts -> Accounts \cup {NoAccount}]
    BY DEF ThrottleInvariant
  <2>3. CASE k \in BucketKeys(attempt[t])
    <3>1. bucket'[k] = CountedIn(Rule[Kind(k)], bucket[k])
      BY <1>1, <2>3 DEF Counted, CountedIn
    <3>2. Cardinality(Underway(k)') = Cardinality(Underway(k)) - 1
      BY <1>1, <2>2, <2>3, OneLess
    <3>3. t \in Underway(k)
      BY <1>1, <2>3 DEF Underway
    <3>4. Cardinality(Underway(k)) > 0
      BY <3>3, UnderwayCounted, FS_EmptySet
    <3>5. /\ CountedIn(Rule[Kind(k)], bucket[k]) \in Bucket(Rule[Kind(k)])
          /\ \E i \in 0 .. LastDoubling + 1 :
               Batched(Rule[Kind(k)], CountedIn(Rule[Kind(k)], bucket[k]), i, Cardinality(Underway(k)) - 1)
      BY <2>1, <2>2, <3>4, UnderwayCounted, RulesTyped, CountedKeeps
    <3> QED BY <3>1, <3>2, <3>5
  <2>4. CASE k \notin BucketKeys(attempt[t])
    <3>1. bucket'[k] = bucket[k] /\ Underway(k)' = Underway(k)
      BY <1>1, <2>2, <2>4, OneLess
    <3> QED BY <2>1, <2>2, <3>1
  <2> QED BY <2>3, <2>4
<1> QED BY <1>2, <1>3 DEF ThrottleInvariant

\* Fewer attempts under way break no bound.
LEMMA FewerUnderway ==
  ASSUME NEW r \in Rules, NEW b, NEW j \in 0 .. LastDoubling + 1, Cardinality(Attempts) \in Nat,
         NEW n \in Nat, NEW m \in Nat, m <= n, b \in Bucket(r), Batched(r, b, j, n)
  PROVE  Batched(r, b, j, m)
<1>1. b.count - (r.limit - 1) \in Int /\ Cardinality(Attempts) * j \in Nat
  BY DEF Rules, Bucket, LastDoubling
<1>2. j > 0 => b.count - (r.limit - 1) + (IF b.left > 0 THEN n ELSE 0) <= Cardinality(Attempts) * j
  BY DEF Batched
<1>3. j > 0 => b.count - (r.limit - 1) + (IF b.left > 0 THEN m ELSE 0) <= Cardinality(Attempts) * j
  BY <1>1, <1>2
<1> QED BY <1>3 DEF Batched

\* A success empties the bucket of its account.
LEMMA RecordSuccessKeeps ==
  ASSUME ThrottleInvariant, NEW t \in Attempts, RecordSuccess(t)
  PROVE  ThrottleInvariant'
<1>1. /\ attempt[t] # NoAccount /\ attempt' = [attempt EXCEPT ![t] = NoAccount]
      /\ bucket' = [bucket EXCEPT ![attempt[t]] = NoBucket]
  BY DEF RecordSuccess
<1>2. attempt' \in [Attempts -> Accounts \cup {NoAccount}] /\ bucket' = [k \in Buckets |-> bucket'[k]]
  BY <1>1 DEF ThrottleInvariant
<1>3. ASSUME NEW k \in Buckets
      PROVE  /\ bucket'[k] \in Bucket(Rule[Kind(k)])
             /\ \E j \in 0 .. LastDoubling + 1 :
                  Batched(Rule[Kind(k)], bucket'[k], j, Cardinality(Underway(k)'))
  <2>1. PICK j \in 0 .. LastDoubling + 1 : Batched(Rule[Kind(k)], bucket[k], j, Cardinality(Underway(k)))
    BY DEF ThrottleInvariant
  <2>2. bucket[k] \in Bucket(Rule[Kind(k)]) /\ attempt \in [Attempts -> Accounts \cup {NoAccount}]
    BY DEF ThrottleInvariant
  <2> DEFINE r == Rule[Kind(k)]
  <2>3. r \in Rules
    BY RulesTyped
  <2>4. CASE k = attempt[t]
    <3>1. bucket'[k] = [count |-> 0, age |-> 0, left |-> 0]
      BY <1>1, <2>4 DEF NoBucket, ThrottleInvariant
    <3>2. r.limit \in Nat /\ r.limit > 0 /\ r.window \in Nat
      BY <2>3, RulesPositive DEF Rules
    <3> HIDE DEF r
    <3>3. bucket'[k] \in Bucket(r) /\ Batched(r, bucket'[k], 0, Cardinality(Underway(k)'))
      BY <3>1, <3>2 DEF Bucket, Batched, Blocked
    <3>4. 0 \in 0 .. LastDoubling + 1
      BY DEF LastDoubling
    <3> QED BY <3>3, <3>4 DEF r
  <2>5. CASE k # attempt[t]
    <3>1. bucket'[k] = bucket[k]
      BY <1>1, <2>5 DEF ThrottleInvariant
    <3>2. Cardinality(Underway(k)') \in Nat /\ Cardinality(Underway(k)') <= Cardinality(Underway(k))
      <4>1. Cardinality(Underway(k)) \in Nat
        BY UnderwayCounted
      <4>2. CASE k \in BucketKeys(attempt[t])
        <5>1. Cardinality(Underway(k)') = Cardinality(Underway(k)) - 1 /\ t \in Underway(k)
          BY <1>1, <2>2, <4>2, OneLess DEF Underway
        <5>2. Cardinality(Underway(k)) > 0
          BY <5>1, UnderwayCounted, FS_EmptySet
        <5> QED BY <4>1, <5>1, <5>2
      <4>3. CASE k \notin BucketKeys(attempt[t])
        <5>1. Underway(k)' = Underway(k)
          BY <1>1, <2>2, <4>3, OneLess
        <5> QED BY <4>1, <5>1
      <4> QED BY <4>2, <4>3
    <3> HIDE DEF r
    <3>3. Batched(r, bucket[k], j, Cardinality(Underway(k)'))
      BY <2>1, <2>2, <2>3, <3>2, UnderwayCounted, FewerUnderway DEF r
    <3> QED BY <2>2, <3>1, <3>3 DEF r
  <2> QED BY <2>4, <2>5
<1> QED BY <1>2, <1>3 DEF ThrottleInvariant

\* A second later.
AgedBy(r, b) ==
  [count |-> b.count, age |-> IF b.count = 0 THEN 0 ELSE Least(b.age + 1, r.window),
   left |-> IF b.left = 0 THEN 0 ELSE b.left - 1]

\* What a block has run of its time is added to the age of the window.
LEMMA AgedKeeps ==
  ASSUME NEW r \in Rules, NEW b \in Bucket(r), NEW underway \in Nat, Cardinality(Attempts) \in Nat,
         NEW j \in 0 .. LastDoubling + 1, Batched(r, b, j, underway)
  PROVE  AgedBy(r, b) \in Bucket(r) /\ Batched(r, AgedBy(r, b), j, underway)
<1> DEFINE c == AgedBy(r, b)
<1>0. /\ r.limit \in Nat /\ r.limit > 0 /\ r.window \in Nat /\ r.base \in Nat /\ j \in Nat
      /\ b.count \in Nat /\ b.age \in 0 .. r.window /\ b.left \in Nat
  BY RulesPositive DEF Rules, Bucket, LastDoubling
<1>1. /\ c.count = b.count
      /\ c.age = IF b.count = 0 THEN 0 ELSE IF b.age + 1 < r.window THEN b.age + 1 ELSE r.window
      /\ c.left = IF b.left = 0 THEN 0 ELSE b.left - 1
  BY DEF AgedBy, Least
<1>2. c \in Bucket(r)
  <2>1. c = [count |-> c.count, age |-> c.age, left |-> c.left]
    BY DEF AgedBy
  <2>2. c.count \in Nat /\ c.age \in 0 .. r.window /\ c.left \in Nat
    BY <1>0, <1>1
  <2> HIDE DEF c
  <2> QED BY <2>1, <2>2 DEF Bucket
<1> HIDE DEF c
<1>3. CASE j = 0
  <2>1. b.count < r.limit /\ b.left = 0
    BY <1>3 DEF Batched, Blocked
  <2> QED BY <1>0, <1>1, <1>2, <1>3, <2>1 DEF Batched, Blocked, c
<1>4. CASE j > 0
  <2> DEFINE d == Doubled[j - 1]
  <2>1. d \in Nat
    <3>1. j - 1 \in 0 .. LastDoubling
      BY <1>0, <1>4 DEF LastDoubling
    <3> QED BY <3>1, DoubledPositive
  <2> DEFINE first == r.base * (d - 1)
             next == r.base * (2 * d - 1)
  <2>2. first \in Int /\ next \in Int
    BY <1>0, <2>1
  <2>3. /\ j <= b.count - (r.limit - 1)
        /\ first < r.window /\ first <= b.age
        /\ b.age + b.left >= r.window \/ b.age + b.left >= next
    BY <1>0, <1>4 DEF Batched, Blocked
  <2> HIDE DEF first, next
  <2>4. b.count # 0
    BY <1>0, <1>4, <2>3
  <2>5. /\ first <= c.age
        /\ c.age + c.left >= r.window \/ c.age + c.left >= next
    BY <1>0, <1>1, <2>2, <2>3, <2>4
  <2>6. Blocked(r, c, j)
    BY <1>0, <1>1, <1>4, <2>3, <2>5 DEF Blocked, first, next
  <2>7. b.count - (r.limit - 1) + (IF b.left > 0 THEN underway ELSE 0) <= Cardinality(Attempts) * j
        /\ Cardinality(Attempts) * j \in Nat
    BY <1>0, <1>4 DEF Batched
  <2>8. c.count - (r.limit - 1) + (IF c.left > 0 THEN underway ELSE 0) <= Cardinality(Attempts) * j
    BY <1>0, <1>1, <2>7
  <2> QED BY <1>2, <2>6, <2>8 DEF Batched, c
<1> QED BY <1>0, <1>3, <1>4

\* Every bucket is a second older.
LEMMA SecondKeeps ==
  ASSUME ThrottleInvariant, Second
  PROVE  ThrottleInvariant'
<1>1. /\ attempt' = attempt
      /\ bucket' = [k \in Buckets |-> AgedBy(Rule[Kind(k)], bucket[k])]
  BY DEF Second, Aged, AgedBy
<1>2. attempt' \in [Attempts -> Accounts \cup {NoAccount}] /\ bucket' = [k \in Buckets |-> bucket'[k]]
  BY <1>1 DEF ThrottleInvariant
<1>3. ASSUME NEW k \in Buckets
      PROVE  /\ bucket'[k] \in Bucket(Rule[Kind(k)])
             /\ \E j \in 0 .. LastDoubling + 1 :
                  Batched(Rule[Kind(k)], bucket'[k], j, Cardinality(Underway(k)'))
  <2>1. PICK j \in 0 .. LastDoubling + 1 : Batched(Rule[Kind(k)], bucket[k], j, Cardinality(Underway(k)))
    BY DEF ThrottleInvariant
  <2>2. bucket[k] \in Bucket(Rule[Kind(k)]) /\ Underway(k)' = Underway(k)
    BY <1>1 DEF ThrottleInvariant, Underway
  <2>3. bucket'[k] = AgedBy(Rule[Kind(k)], bucket[k])
    BY <1>1
  <2>4. /\ AgedBy(Rule[Kind(k)], bucket[k]) \in Bucket(Rule[Kind(k)])
        /\ Batched(Rule[Kind(k)], AgedBy(Rule[Kind(k)], bucket[k]), j, Cardinality(Underway(k)))
    BY <2>1, <2>2, RulesTyped, UnderwayCounted, AgedKeeps
  <2> QED BY <2>2, <2>3, <2>4
<1> QED BY <1>2, <1>3 DEF ThrottleInvariant

\* Every step keeps the invariant.
LEMMA ThrottleStepKeeps == ThrottleInvariant /\ [ThrottleNext]_throttleVars => ThrottleInvariant'
<1> SUFFICES ASSUME ThrottleInvariant, [ThrottleNext]_throttleVars PROVE ThrottleInvariant'
  OBVIOUS
<1>1. CASE UNCHANGED throttleVars
  BY <1>1 DEF throttleVars, ThrottleInvariant, Underway
<1>2. CASE ThrottleNext
  BY <1>2, LetInKeeps, RecordFailureKeeps, RecordSuccessKeeps, SecondKeeps DEF ThrottleNext
<1> QED BY <1>1, <1>2

\* The batches are no more than the rounds of a window.
LEMMA RoundsBound ==
  ASSUME NEW r \in Rules, NEW j \in 1 .. LastDoubling + 1, r.base * (Doubled[j - 1] - 1) < r.window
  PROVE  Rounds(r) \in Nat /\ j <= Rounds(r)
<1> DEFINE All == {i \in 0 .. LastDoubling : r.base * (Doubled[i] - 1) < r.window}
<1>1. IsFiniteSet(0 .. LastDoubling)
  <2>1. LastDoubling \in Int
    BY DEF LastDoubling
  <2> QED BY <2>1, FS_Interval
<1>2. IsFiniteSet(All) /\ Cardinality(All) \in Nat
  BY <1>1, FS_Subset, FS_CardinalityType
<1>3. j \in Nat /\ j > 0 /\ j - 1 \in 0 .. LastDoubling
  BY DEF LastDoubling
<1>4. 0 .. (j - 1) \subseteq All
  <2> SUFFICES ASSUME NEW i \in 0 .. (j - 1) PROVE i \in All
    OBVIOUS
  <2>1. i \in 0 .. LastDoubling /\ i <= j - 1
    BY <1>3 DEF LastDoubling
  <2>2. Doubled[i] \in Nat /\ Doubled[i] > 0 /\ Doubled[j - 1] \in Nat /\ Doubled[j - 1] > 0
        /\ Doubled[i] <= Doubled[j - 1]
    BY <1>3, <2>1, DoubledPositive, DoubledGrows
  <2>3. r.base \in Nat /\ r.window \in Nat
    BY DEF Rules
  <2>4. \A b, x, y \in Nat : x <= y => b * x <= b * y /\ b * y \in Nat /\ b * x \in Nat
    OBVIOUS
  <2>5. r.base * (Doubled[i] - 1) <= r.base * (Doubled[j - 1] - 1)
        /\ r.base * (Doubled[i] - 1) \in Nat /\ r.base * (Doubled[j - 1] - 1) \in Nat
    <3>1. Doubled[i] - 1 \in Nat /\ Doubled[j - 1] - 1 \in Nat /\ Doubled[i] - 1 <= Doubled[j - 1] - 1
      BY <2>2
    <3> QED BY <2>3, <2>4, <3>1
  <2> QED BY <2>1, <2>3, <2>5
<1>5. Cardinality(0 .. (j - 1)) = j
  <2>1. 0 \in Int /\ j - 1 \in Int /\ 0 <= j - 1 /\ j - 1 - 0 + 1 = j
    BY <1>3
  <2> QED BY <2>1, FS_Interval
<1>6. Cardinality(0 .. (j - 1)) <= Cardinality(All)
  BY <1>2, <1>4, FS_Subset
<1> QED BY <1>2, <1>5, <1>6 DEF Rounds

\* In every bucket the failures of a window are bounded.
LEMMA ThrottleMeaning == ThrottleInvariant => GuessesBounded
<1> SUFFICES ASSUME ThrottleInvariant, NEW k \in Buckets
             PROVE  bucket[k].count <= Rule[Kind(k)].limit - 1 + Cardinality(Attempts) * Rounds(Rule[Kind(k)])
  BY DEF GuessesBounded
<1> DEFINE r == Rule[Kind(k)]
           b == bucket[k]
<1>1. PICK j \in 0 .. LastDoubling + 1 : Batched(r, b, j, Cardinality(Underway(k)))
  BY DEF ThrottleInvariant
<1>2. r \in Rules /\ b \in Bucket(r) /\ Cardinality(Attempts) \in Nat /\ Cardinality(Underway(k)) \in Nat
  BY RulesTyped, UnderwayCounted DEF ThrottleInvariant
<1> HIDE DEF r, b
<1>3. r.limit \in Nat /\ b.count \in Nat /\ j \in Nat /\ r.window > 0 /\ r.base \in Nat
  BY <1>2, RulesPositive DEF Rules, Bucket, LastDoubling
<1>4. \A x, y \in Nat : x <= y => Cardinality(Attempts) * x <= Cardinality(Attempts) * y
  BY <1>2
<1>5. CASE j = 0
  <2>1. b.count < r.limit
    BY <1>1, <1>5 DEF Batched, Blocked
  <2>2. Rounds(r) \in Nat
    <3>1. 1 \in 1 .. LastDoubling + 1 /\ 1 - 1 = 0 /\ Doubled[0] - 1 = 0
      BY FirstDoubling DEF LastDoubling
    <3>2. r.base * (Doubled[1 - 1] - 1) < r.window
      BY <1>3, <3>1
    <3> QED BY <1>2, <3>1, <3>2, RoundsBound
  <2>3. Cardinality(Attempts) * Rounds(r) \in Nat
    BY <1>2, <2>2
  <2> QED BY <1>3, <2>1, <2>3 DEF r, b
<1>6. CASE j > 0
  <2>1. j \in 1 .. LastDoubling + 1
    BY <1>6 DEF LastDoubling
  <2>2. r.base * (Doubled[j - 1] - 1) < r.window
    BY <1>1, <1>6 DEF Batched, Blocked
  <2>3. Rounds(r) \in Nat /\ j <= Rounds(r)
    BY <1>2, <2>1, <2>2, RoundsBound
  <2>4. Cardinality(Attempts) * j <= Cardinality(Attempts) * Rounds(r)
    BY <1>3, <1>4, <2>3
  <2>5. b.count - (r.limit - 1) <= Cardinality(Attempts) * j
        /\ Cardinality(Attempts) * j \in Nat /\ Cardinality(Attempts) * Rounds(r) \in Nat
    BY <1>1, <1>2, <1>3, <1>6, <2>3 DEF Batched
  <2> QED BY <1>3, <2>4, <2>5 DEF r, b
<1> QED BY <1>3, <1>5, <1>6

\* Login attempts that overlap get no more guesses than one batch for each of the
\* growing blocks (login_throttle_service.py).
THEOREM ThrottleGuessesBounded == ThrottleSpec => []GuessesBounded
<1>1. ThrottleInit => ThrottleInvariant
  BY ThrottleStart
<1>2. ThrottleInvariant /\ [ThrottleNext]_throttleVars => ThrottleInvariant'
  BY ThrottleStepKeeps
<1>3. ThrottleInvariant => GuessesBounded
  BY ThrottleMeaning
<1> QED BY <1>1, <1>2, <1>3, PTL DEF ThrottleSpec

-----------------------------------------------------------------------------
(* Both, as one run checks them.                                            *)

LEMMA IdentityStep ==
  ASSUME [IdentityNext]_identityVars
  PROVE  [SessionNext]_sessionVars /\ [MemberNext]_memberVars
<1>1. MembersOnly => MemberNext
  BY DEF MembersOnly, MemberNext
<1>2. WithProvider => MemberNext
  BY DEF WithProvider, MemberNext
<1>3. UNCHANGED identityVars => UNCHANGED sessionVars /\ UNCHANGED memberVars
  BY DEF identityVars
<1> QED BY <1>1, <1>2, <1>3 DEF IdentityNext

\* Rows are well typed, overlapping refreshes never fork a session, and answers
\* that are late or lost never end one by mistake.
THEOREM IdentityKept == IdentitySpec => []IdentityInvariant
<1> DEFINE I == SessionInvariant /\ HonestInvariant /\ MemberInvariant
<1>1. IdentityInit => I
  BY SessionInitially, MemberInitially DEF IdentityInit
<1>2. I /\ [IdentityNext]_identityVars => I'
  BY IdentityStep, SessionStep, MemberStep
<1>3. I => IdentityInvariant
  BY SessionMeaning DEF IdentityInvariant, MemberInvariant
<1> QED BY <1>1, <1>2, <1>3, PTL DEF IdentitySpec
=============================================================================
