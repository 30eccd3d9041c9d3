-------------------------- MODULE MCResourceManager --------------------------
(* Instances of ResourceManager for TLC.                                   *)
EXTENDS SafetyScan, TLC

(* One file of the second type, or one of the first and two of the second: *)
(* a process collects its maximum in several grants, and can ask for more. *)
MixedVectors == {<<0, 1>>, <<1, 2>>}

MixedWanted ==
  {[t \in Type |-> v[t + 1]] : v \in MixedVectors}

(* An earlier server left no link, or one.                                 *)
FewOldLinks == {{}} \cup {{l} : l \in Asker \X File}

Symmetry == Permutations(Pid) \cup Permutations(File)
==============================================================================
