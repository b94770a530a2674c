CONSTANTS Members = {a, b}
          Families = {f1, f2}
          Requests = {q1, q2}
          None = None
SPECIFICATION MemberSpec
INVARIANT DroppedAreDisabled
CHECK_DEADLOCK FALSE
