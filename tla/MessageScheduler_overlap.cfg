SPECIFICATION Spec
CONSTANTS
  Starters = {s1, s2}
  Stoppers = {p1}
  Runners = {r1, r2}
INVARIANTS StoppedMeansNoRunner
