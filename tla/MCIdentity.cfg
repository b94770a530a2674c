CONSTANTS Tabs = {t1, t2}
          MaxRotations = 3
          Members = {a, b}
          Families = {f1, f2}
          Requests = {q1, q2}
          None = None
          Accounts = {u1}
          Attempts = {l1, l2}
          NoAccount = NoAccount
          Rule <- SmallRules
INIT IdentityInit
NEXT IdentityNext
SYMMETRY Symmetric
INVARIANTS IdentityInvariant GuessesBounded
PROPERTY AdminKept
CHECK_DEADLOCK FALSE
