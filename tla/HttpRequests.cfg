CONSTANTS
  Requests = {r1, r2, r3}
  Tenants = {t1}
  Nobody = Nobody
  Kills = 1
SYMMETRY RequestSymmetry
SPECIFICATION Spec
CHECK_DEADLOCK FALSE
INVARIANTS AnsweredAudited AckedKept
