SPECIFICATION Spec
CONSTANTS
  Users = {u1, u2}
  Numbers = {"n1"}
  Hired = {u1}
  Servers = {s1, s2}
  Admins = {a1, a2}
  Requests = {r1, r2}
  Ticks = {t1, t2}
  Completions = {c1, c2}
  MaxParts = 2
  Seeds <- MCSeeds
INVARIANTS
  AlertsTold
  OneTag
PROPERTIES
  CacheHeals
  NumberFitsRole
CHECK_DEADLOCK FALSE
