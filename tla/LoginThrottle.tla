--------------------------- MODULE LoginThrottle ----------------------------
(***************************************************************************)
(* application/services/login_throttle_service.py, as the login and the     *)
(* step-up of presentation/routers/management_auth.py use it: an attempt is *)
(* let in, its password is verified, and the outcome is recorded, each in a *)
(* transaction of its own, so attempts overlap.  Times are relative: how    *)
(* old a bucket's window is and how long its block still lasts.             *)
(***************************************************************************)
EXTENDS Naturals, FiniteSets

CONSTANTS Accounts,      \* user names tried, all from one address
          Attempts,      \* attempts under way at once
          Rule,          \* Rule[kind]: limit, window, base and longest block
          NoAccount

\* The factor of the nth doubling of a block; the exponent stops at 30.
LastDoubling == 30
Doubled ==
  LET power[n \in 0 .. LastDoubling] == IF n = 0 THEN 1 ELSE 2 * power[n - 1]
  IN [n \in 0 .. LastDoubling |-> power[n]]

\* As in LoginThrottlePolicy, whose longest blocks are as long as the windows and
\* whose windows are minutes.
ASSUME ThrottleAssumption ==
  /\ IsFiniteSet(Attempts) /\ NoAccount \notin Accounts
  /\ \A u \in Accounts : u # "ip" /\ u # "global"
  /\ \A b \in {"account", "ip", "global"} :
       /\ Rule[b] \in [limit : Nat \ {0}, window : Nat \ {0}, base : Nat \ {0}, longest : Nat]
       /\ Rule[b].longest >= Rule[b].window
       /\ Rule[b].window <= Rule[b].base * Doubled[LastDoubling]

VARIABLES bucket,    \* bucket[k]: count, age of the window, block left
          attempt    \* attempt[t]: the account being tried, once let in

throttleVars == <<bucket, attempt>>

Kind(k) == IF k \in Accounts THEN "account" ELSE k
\* _keys: the three buckets an attempt counts in.
BucketKeys(u) == {u, "ip", "global"}
Buckets == Accounts \cup {"ip", "global"}
NoBucket == [count |-> 0, age |-> 0, left |-> 0]

Least(m, n) == IF m < n THEN m ELSE n

BlockSeconds_Flat(r, n) == IF n < r.limit THEN 0 ELSE Least(r.longest, r.base)

\* ThrottleRule.block_seconds
BlockSeconds(r, n) == IF n < r.limit THEN 0
                      ELSE Least(r.longest, r.base * Doubled[Least(n - r.limit, LastDoubling)])
ThrottleInit == /\ bucket = [k \in Buckets |-> NoBucket]
                /\ attempt = [t \in Attempts |-> NoAccount]

\* assert_allowed only reads; who has passed is not counted yet.
LetIn(t, u) == /\ attempt[t] = NoAccount
               /\ \A k \in BucketKeys(u) : bucket[k].left = 0
               /\ attempt' = [attempt EXCEPT ![t] = u]
               /\ UNCHANGED bucket

\* The upsert: a window that is over starts again with this failure, and the
\* block is set anew from the count, to none when the count is below the limit.
Counted(k) == LET r == Rule[Kind(k)]
                  over == bucket[k].count = 0 \/ bucket[k].age >= r.window
                  n == IF over THEN 1 ELSE bucket[k].count + 1
              IN [count |-> n, age |-> IF over THEN 0 ELSE bucket[k].age,
                  left |-> BlockSeconds(r, n)]

RecordFailure(t) == /\ attempt[t] # NoAccount
                    /\ bucket' = [k \in Buckets |-> IF k \in BucketKeys(attempt[t])
                                                    THEN Counted(k) ELSE bucket[k]]
                    /\ attempt' = [attempt EXCEPT ![t] = NoAccount]

\* Only the account's bucket is forgotten.
RecordSuccess(t) == /\ attempt[t] # NoAccount
                    /\ bucket' = [bucket EXCEPT ![attempt[t]] = NoBucket]
                    /\ attempt' = [attempt EXCEPT ![t] = NoAccount]

\* A second passes.
Aged(k) == LET b == bucket[k]
           IN [count |-> b.count,
               age |-> IF b.count = 0 THEN 0 ELSE Least(b.age + 1, Rule[Kind(k)].window),
               left |-> IF b.left = 0 THEN 0 ELSE b.left - 1]

Second == bucket' = [k \in Buckets |-> Aged(k)] /\ UNCHANGED attempt

ThrottleNext == \/ \E t \in Attempts : (\E u \in Accounts : LetIn(t, u))
                                       \/ RecordFailure(t) \/ RecordSuccess(t)
                \/ Second

ThrottleSpec == ThrottleInit /\ [][ThrottleNext]_throttleVars

-----------------------------------------------------------------------------
\* How many blocks can begin within a window when each is twice as long.
Rounds(r) == Cardinality({i \in 0 .. LastDoubling : r.base * (Doubled[i] - 1) < r.window})

\* Failures of one window are bounded although attempts are let in before the
\* earlier ones are counted: below the limit, and then at most one batch of
\* overlapping attempts after each of the growing blocks.
GuessesBounded ==
  \A k \in Buckets : LET r == Rule[Kind(k)] IN
    bucket[k].count <= r.limit - 1 + Cardinality(Attempts) * Rounds(r)
=============================================================================
