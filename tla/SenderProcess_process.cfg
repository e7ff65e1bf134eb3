SPECIFICATION ProcessFairSpec
CONSTANTS
  Starters = {s1, s2}
  Stoppers = {main, p1}
  Runners = {r1, r2, r3}
  Main = main
  Clients = {c1}
  MaxPosts = 2
INVARIANTS ProcessTypeOK EnoughRunners NoStrayRunner OneRunner ShutdownStops AcceptedIsStored
PROPERTIES StopReturns ShutdownExits
