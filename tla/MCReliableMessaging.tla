------------------------ MODULE MCReliableMessaging ------------------------
(***************************************************************************)
(* Instances of ReliableMessaging for TLC. The .cfg files choose the       *)
(* messages, the runners, the kinds of fault and how many of them happen.  *)
(***************************************************************************)
EXTENDS ReliableMessaging, TLC

\* Safety runs only: messages, and runners, are interchangeable.
Symmetry == Permutations(Messages) \cup Permutations(Runners)
=============================================================================
