------------------------------ MODULE Allocation ------------------------------
(***************************************************************************)
(* What a client sees of the resource manager: files go from the pool to   *)
(* one client at a time, and are gone with it.  A client may stay registered*)
(* or not, be answered one thing or another: none of it moves a file.      *)
(***************************************************************************)
CONSTANTS Pid, Type, File

VARIABLES
  free,  \* the files of each type that nobody has had
  held,  \* those a client has
  gone   \* the clients that have finalized

allocvars == <<free, held, gone>>

Nothing == [t \in Type |-> {}]

Init ==
  /\ free = [t \in Type |-> File]
  /\ held = [p \in Pid |-> Nothing]
  /\ gone = {}

Grant(p, given) ==
  /\ p \notin gone
  /\ \A t \in Type : given[t] \subseteq free[t]
  /\ free' = [t \in Type |-> free[t] \ given[t]]
  /\ held' = [held EXCEPT ![p] = [t \in Type |-> held[p][t] \cup given[t]]]
  /\ UNCHANGED gone

(* Nobody gets them afterwards.                                            *)
Release(p) ==
  /\ p \notin gone
  /\ held' = [held EXCEPT ![p] = Nothing]
  /\ gone' = gone \cup {p}
  /\ UNCHANGED free

Next ==
  \E p \in Pid :
    Release(p) \/ \E given \in [Type -> SUBSET File] : Grant(p, given)

Spec == Init /\ [][Next]_allocvars
=============================================================================
