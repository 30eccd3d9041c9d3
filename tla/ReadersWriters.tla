--------------------------- MODULE ReadersWriters ---------------------------
(***************************************************************************)
(* What the policies of server/main.c promise to the threads of a batch,   *)
(* whatever the primitives behind them: one that locks leaves a writer     *)
(* alone with the file, and readers share it only with readers.            *)
(***************************************************************************)
CONSTANT Thread

VARIABLES
  locking, \* whether the policy locks at all
  kind,    \* what each thread of the batch does
  inside   \* the threads between their lock and their unlock

Kind == {"reader", "writer"}

Compatible(t, S) ==
  locking => \A u \in S : kind[t] = "reader" /\ kind[u] = "reader"

Init == locking \in BOOLEAN /\ kind \in [Thread -> Kind] /\ inside = {}

(* The next batch starts when every thread of the last one has left.       *)
Begin ==
  /\ inside = {}
  /\ kind' \in [Thread -> Kind]
  /\ UNCHANGED <<locking, inside>>

Enter(t) ==
  /\ t \notin inside
  /\ Compatible(t, inside)
  /\ inside' = inside \cup {t}
  /\ UNCHANGED <<locking, kind>>

Leave(t) ==
  /\ t \in inside
  /\ inside' = inside \ {t}
  /\ UNCHANGED <<locking, kind>>

Next == Begin \/ \E t \in Thread : Enter(t) \/ Leave(t)

Spec == Init /\ [][Next]_<<locking, kind, inside>>
=============================================================================
