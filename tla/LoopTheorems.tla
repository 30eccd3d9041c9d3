---------------------------- MODULE LoopTheorems ----------------------------
(***************************************************************************)
(* Loops as recursive functions: f[j] is what a loop over a + 1 .. n has   *)
(* after the pass for j.  That such a function exists, and that what each  *)
(* pass keeps holds at the end, is proved from the least number principle. *)
(***************************************************************************)
EXTENDS Integers, WellFoundedInduction, TLAPS

(* f holds what a loop over a + 1 .. n has after each pass, from m on.     *)
Runs(f, X, a, n, m, step) ==
  /\ f \in [a .. n -> X]
  /\ f[a] = m
  /\ \A j \in a + 1 .. n : f[j] = step[f[j - 1]][j]

-----------------------------------------------------------------------------
LEMMA NatLeast ==
  ASSUME NEW T, T \subseteq Nat, T # {}
  PROVE  \E n \in T : \A k \in T : ~(k < n)
<1>1. IsWellFoundedOn(OpToRel(<, Nat), Nat)
  BY NatLessThanWellFounded
<1>2. PICK n \in T : \A k \in T : <<k, n>> \notin OpToRel(<, Nat)
  BY <1>1, WFMin, Zenon
<1>3. \A k \in T : k \in Nat /\ n \in Nat
  OBVIOUS
<1>4. \A k \in T : ~(k < n)
  BY <1>2, <1>3 DEF OpToRel
<1> QED
  BY <1>4

(* What holds before a loop and is kept by each pass holds after each.     *)
LEMMA EachPass ==
  ASSUME NEW a \in Nat, NEW n \in Nat, a <= n,
         NEW T, a \in T,
         \A j \in a + 1 .. n : j - 1 \in T => j \in T
  PROVE  \A j \in a .. n : j \in T
<1> DEFINE U == {j \in a .. n : j \notin T}
<1> SUFFICES ASSUME U # {} PROVE FALSE
  OBVIOUS
<1>1. U \subseteq Nat
  OBVIOUS
<1>2. PICK j \in U : \A k \in U : ~(k < j)
  BY <1>1, NatLeast
<1>3. j \in a + 1 .. n
  BY <1>2
<1>4. j - 1 \in a .. n /\ j - 1 < j
  BY <1>3
<1>5. j - 1 \in T
  BY <1>2, <1>4
<1> QED
  BY <1>2, <1>3, <1>5

(* A loop whose passes are given by a function has a result.               *)
LEMMA LoopRuns ==
  ASSUME NEW X, NEW a \in Nat, NEW n \in Nat, a <= n,
         NEW m \in X, NEW step \in [X -> [a + 1 .. n -> X]]
  PROVE  \E f : Runs(f, X, a, n, m, step)
<1> DEFINE T == {k \in a .. n : \E f : Runs(f, X, a, k, m, step)}
<1>1. a \in T
  <2>1. Runs([j \in a .. a |-> m], X, a, a, m, step)
    BY DEF Runs
  <2>2. a \in a .. n
    OBVIOUS
  <2> QED
    BY <2>1, <2>2
<1>2. ASSUME NEW k \in a + 1 .. n, k - 1 \in T PROVE k \in T
  <2>1. PICK f : Runs(f, X, a, k - 1, m, step)
    BY <1>2
  <2> DEFINE g == [j \in a .. k |-> IF j = k THEN step[f[k - 1]][k] ELSE f[j]]
  <2>2. /\ k \in Nat /\ k - 1 \in a .. k - 1 /\ k \in a .. n
        /\ \A j \in a .. k : j # k => j \in a .. k - 1
    OBVIOUS
  <2>3. f[k - 1] \in X
    BY <2>1, <2>2 DEF Runs
  <2>4. step[f[k - 1]][k] \in X
    BY <2>3
  <2>5. g \in [a .. k -> X]
    BY <2>1, <2>2, <2>4 DEF Runs
  <2>6. g[a] = m
    BY <2>1, <2>2 DEF Runs
  <2>7. ASSUME NEW j \in a + 1 .. k PROVE g[j] = step[g[j - 1]][j]
    <3>1. j \in a .. k /\ j - 1 \in a .. k /\ j - 1 # k
      OBVIOUS
    <3>2. g[j - 1] = f[j - 1]
      BY <3>1
    <3>3. CASE j = k
      BY <3>1, <3>2, <3>3
    <3>4. CASE j # k
      <4>1. j \in a + 1 .. k - 1
        BY <3>4
      <4> QED
        BY <2>1, <3>1, <3>2, <3>4, <4>1 DEF Runs
    <3> QED
      BY <3>3, <3>4
  <2>8. Runs(g, X, a, k, m, step)
    BY <2>5, <2>6, <2>7 DEF Runs
  <2> HIDE DEF g
  <2> QED
    BY <2>2, <2>8
<1> HIDE DEF T
<1>3. \A k \in a .. n : k \in T
  BY <1>1, <1>2, EachPass
<1>4. n \in T
  BY <1>3
<1> QED
  BY <1>4 DEF T
=============================================================================
