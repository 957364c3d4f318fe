SPECIFICATION Spec
CONSTANTS
  Threads = {t1, t2}
  Handles = {h1, h2}
  Conns = {c1, c2}
  Addrs = {a1, a2}
  Results = {r1, r2}
  MaxRows = 2
  MaxOpen = 2
  Shared = TRUE
  Failures = {"memory", "server"}
SYMMETRY Symmetry
INVARIANT UseDetected
