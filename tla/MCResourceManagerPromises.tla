---------------------- MODULE MCResourceManagerPromises ----------------------
(* The instance of ResourceManager on which its promises are examined.     *)
EXTENDS ResourceManagerPromises, TLC

(* A client asks for at most one file of each type, and for some file.     *)
UnitVectors == [Type -> 0 .. 1] \ {[t \in Type |-> 0]}

(* No earlier server left a link.                                          *)
NoOldLinks == {{}}

Symmetry == Permutations(Pid) \cup Permutations(File)
==============================================================================
