----------------------------- MODULE SafetyScan -----------------------------
(***************************************************************************)
(* The safety scan of resource_manager_step as its loops run: over the     *)
(* entries of the process table, again and again until a pass finishes     *)
(* nobody.  ResourceManager only says who finishes in the end (Finishes).  *)
(* What the scan reads behind the vector work is past, as there.           *)
(***************************************************************************)
EXTENDS ResourceManager

(* The entries the loops visit, n being process_count.                     *)
Entries == 1 .. process_count - 1

ScanStart(S, k) ==
  [work    |-> [t \in Type |-> pool_has[t] - S[k].needs[t]],
   finish  |-> [i \in Entries |-> FALSE],
   behind  |-> {},
   changed |-> TRUE]

Allocated(S, k, i) ==
  [t \in Type |-> IF i = k THEN S[i].has[t] + S[i].needs[t] ELSE S[i].has[t]]

(* The sum of a vector.                                                    *)
Total(a) == Cardinality(UNION {{t} \X (1 .. a[t]) : t \in Type})

CanFinish(S, past, s, i) ==
  IF i \in Type THEN \A t \in Type : S[i].needs[t] <= s.work[i] ELSE past[i]

(* All of what a process holds goes to the entry of work that bears the    *)
(* index of the process.  For a process whose index is past the vector that*)
(* is a write behind it, which changes something if anything is added:     *)
(* behind collects those processes.                                        *)
Adds(S, k, i) == \E t \in Type : Allocated(S, k, i)[t] > 0

Finish(S, k, s, i) ==
  [work    |-> [t \in Type |-> IF t = i
                               THEN s.work[t] + Total(Allocated(S, k, i))
                               ELSE s.work[t]],
   finish  |-> [s.finish EXCEPT ![i] = TRUE],
   behind  |-> s.behind \cup {j \in {i} \ Type : Adds(S, k, j)},
   changed |-> TRUE]

(* Mutant: who has finished is visited again.                              *)
Visit_Again(S, k, past, s, i) ==
  IF S[i] # NULL /\ CanFinish(S, past, s, i) THEN Finish(S, k, s, i) ELSE s

Visit(S, k, past, s, i) ==
  IF S[i] # NULL /\ ~s.finish[i] /\ CanFinish(S, past, s, i)
  THEN Finish(S, k, s, i) ELSE s

PassOver(S, k, past, s) ==
  LET passed[i \in 0 .. process_count - 1] ==
        IF i = 0 THEN [s EXCEPT !.changed = FALSE]
                 ELSE Visit(S, k, past, passed[i - 1], i)
  IN passed[process_count - 1]

(* while (changed), which process_count passes are more than enough for.   *)
Scan(S, k, past) ==
  LET after[j \in 0 .. process_count] ==
        IF j = 0 THEN ScanStart(S, k)
        ELSE IF after[j - 1].changed THEN PassOver(S, k, past, after[j - 1])
        ELSE after[j - 1]
  IN after[process_count]

(* resource_manager.c:264-299: on every table a request can lead to, the   *)
(* loop ends, and those have finished who finish by the test of one entry  *)
(* against what the grant leaves: what finished processes return is added  *)
(* where nobody reads it, so that the order of the visits decides nothing  *)
(* and nobody who is passed over at first finishes later.  And the loop    *)
(* writes behind the vector exactly when ScanOverruns says so, the one case*)
(* in which the conclusion of the scan is open and the server may crash.   *)
ScanIsLoop ==
  status = "running" =>
    \A q \in Asker, wanted \in Wanted :
      \A S \in Requested(q, wanted), k \in Slot :
        IsTarget(S, k) =>
          \A past \in PastReads(S) :
            LET end == Scan(S, k, past) IN
            /\ ~end.changed
            /\ \A i \in Entries : end.finish[i] <=> Finishes(S, k, past, i)
            /\ end.behind # {} <=> ScanOverruns(S, k, past)
=============================================================================
