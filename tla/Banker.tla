------------------------------- MODULE Banker -------------------------------
(***************************************************************************)
(* The banker's algorithm as its name promises it: the reference that the  *)
(* grants and refusals of ResourceManager are compared with.  Nothing here *)
(* is translated from the code.                                            *)
(***************************************************************************)
EXTENDS Integers, FiniteSets
LOCAL INSTANCE FiniteSetsExt

(* P is a set of processes, avail[t] what is free of type t, held[p][t]    *)
(* what p holds and claim[p][t] the most it will ever hold.                *)
CanFinish(p, D, P, avail, held, claim) ==
  \A t \in DOMAIN avail :
    claim[p][t] - held[p][t]
      <= avail[t] + MapThenSumSet(LAMBDA q : held[q][t], P \ D)

(* No set D of processes is stuck: when all the others have finished and   *)
(* returned what they hold, one of D can obtain its whole claim.  This is  *)
(* the existence of a safe order, without naming the order.                *)
Safe(P, avail, held, claim) ==
  \A D \in SUBSET P \ {{}} :
    \E p \in D : CanFinish(p, D, P, avail, held, claim)
=============================================================================
