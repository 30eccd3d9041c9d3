--------------------------- MODULE FileSortProofs ----------------------------
(***************************************************************************)
(* sort of server/main.c, for batches of any size: it rearranges the       *)
(* requests and leaves the preferred ones in front.  Its two loops are     *)
(* recursive functions; what holds of them is proved by induction over the *)
(* passes, from the least number principle.                                *)
(***************************************************************************)
EXTENDS FileBatch, LoopTheorems, TLAPS

Places == 1 .. RW_BUFF_SIZE

(* b holds at each place t what m held at where[t], and nothing twice.     *)
Rearranged(b, m, where) ==
  /\ where \in [Places -> Places]
  /\ \A t, u \in Places : t # u => where[t] # where[u]
  /\ \A t \in Places : b[t] = m[where[t]]

(* From a preferred request on, every one before it is preferred: up to    *)
(* place i, this is so whatever is behind.                                 *)
SortedUpTo(b, i) ==
  \A t, u \in Places : t < u /\ t <= i /\ Preferred(b[u]) => Preferred(b[t])

-----------------------------------------------------------------------------
LEMMA PlacesAre ==
  /\ RW_BUFF_SIZE \in Nat \ {0} /\ Places = 1 .. RW_BUFF_SIZE
  /\ Places \subseteq Nat /\ Thread = Places
BY BatchAssumption DEF Places

LEMMA ExchangeType ==
  ASSUME NEW S, NEW m \in [Places -> S], NEW i \in Places, NEW j \in Places
  PROVE  Exchange(m, i, j) \in [Places -> S]
BY DEF Exchange, Swap

(* The inner loop, pass by pass.                                           *)
InnerLoop(f, S, m, i) ==
  /\ f \in [i .. RW_BUFF_SIZE -> [Places -> S]]
  /\ f[i] = m
  /\ \A j \in i + 1 .. RW_BUFF_SIZE : f[j] = Exchange(f[j - 1], i, j)
  /\ PullForward(m, i) = f[RW_BUFF_SIZE]

LEMMA PullForwardRuns ==
  ASSUME NEW S, NEW m \in [Places -> S], NEW i \in Places
  PROVE  \E f : InnerLoop(f, S, m, i)
<1> DEFINE n == RW_BUFF_SIZE
           X == [Places -> S]
           step == [b \in X |-> [j \in i + 1 .. n |-> Exchange(b, i, j)]]
           Body(f) == [j \in i .. n |-> IF j = i THEN m
                                        ELSE Exchange(f[j - 1], i, j)]
           f == CHOOSE f : f = Body(f)
<1>1. /\ n \in Nat /\ i \in Nat /\ i <= n /\ m \in X
      /\ \A j \in i .. n : j \in Places
      /\ \A j \in i + 1 .. n : j \in Places /\ j \in i .. n /\ j - 1 \in i .. n
                               /\ j # i
      /\ i \in i .. n /\ n \in i .. n
  BY PlacesAre
<1>2. \A b \in X, j \in i + 1 .. n : Exchange(b, i, j) \in X
  BY <1>1, ExchangeType
<1>3. PullForward(m, i) = f[n]
  BY DEF PullForward
<1> HIDE DEF X, n
<1>4. step \in [X -> [i + 1 .. n -> X]]
  BY <1>2
<1>5. PICK g : Runs(g, X, i, n, m, step)
  <2> HIDE DEF step
  <2> QED
    BY <1>1, <1>4, LoopRuns
<1>6. g = Body(g)
  <2>1. ASSUME NEW j \in i + 1 .. n PROVE g[j] = Exchange(g[j - 1], i, j)
    <3>1. g[j - 1] \in X
      BY <1>1, <1>5 DEF Runs
    <3> QED
      BY <1>5, <3>1 DEF Runs
  <2>2. \A j \in i .. n : g[j] = Body(g)[j]
    BY <1>1, <1>5, <2>1 DEF Runs
  <2> QED
    BY <1>5, <2>2 DEF Runs
<1>7. f = Body(f)
  BY <1>6
<1> HIDE DEF f
<1>8. /\ DOMAIN f = i .. n /\ f[i] = m
      /\ \A j \in i + 1 .. n : f[j] = Exchange(f[j - 1], i, j)
  BY <1>1, <1>7
<1>9. \A j \in i .. n : f[j] \in X
  <2> DEFINE T == {j \in i .. n : f[j] \in X}
  <2>1. i \in T
    BY <1>1, <1>8
  <2>2. ASSUME NEW j \in i + 1 .. n, j - 1 \in T PROVE j \in T
    BY <1>1, <1>2, <1>8, <2>2
  <2> HIDE DEF T
  <2>3. \A j \in i .. n : j \in T
    BY <1>1, <2>1, <2>2, EachPass
  <2> QED
    BY <2>3 DEF T
<1>10. f \in [i .. n -> X]
  BY <1>7, <1>9
<1>11. InnerLoop(f, S, m, i)
  BY <1>3, <1>8, <1>10 DEF X, n, InnerLoop
<1> QED
  BY <1>11

LEMMA SwapRearranges ==
  ASSUME NEW S, NEW m \in [Places -> S], NEW b \in [Places -> S], NEW where,
         Rearranged(b, m, where), NEW i \in Places, NEW j \in Places
  PROVE  Rearranged(Swap(b, i, j), m,
                    [where EXCEPT ![i] = where[j], ![j] = where[i]])
<1> DEFINE w == [where EXCEPT ![i] = where[j], ![j] = where[i]]
<1>1. /\ where \in [Places -> Places]
      /\ \A t, u \in Places : t # u => where[t] # where[u]
      /\ \A t \in Places : b[t] = m[where[t]]
  BY DEF Rearranged
<1>2. /\ w \in [Places -> Places]
      /\ \A t \in Places : w[t] = IF t = j THEN where[i]
                                  ELSE IF t = i THEN where[j] ELSE where[t]
  BY <1>1
<1>3. \A t \in Places : Swap(b, i, j)[t] = IF t = j THEN b[i]
                                           ELSE IF t = i THEN b[j] ELSE b[t]
  BY DEF Swap
<1> HIDE DEF w
<1>4. Rearranged(Swap(b, i, j), m, w)
  BY <1>1, <1>2, <1>3 DEF Rearranged
<1> QED
  BY <1>4 DEF w

(* What the passes of the inner loop have done up to place j: nothing      *)
(* before i has moved, and i holds a preferred request if there was one.   *)
Pulled(b, m, i, j) ==
  /\ \E where : Rearranged(b, m, where) /\ \A t \in 1 .. i - 1 : where[t] = t
  /\ Preferred(b[i]) \/ \A k \in i .. j : ~Preferred(b[k])

LEMMA PullForwardIs ==
  ASSUME NEW S, NEW m \in [Places -> S], NEW i \in Places, ~Preferred(m[i])
  PROVE  /\ PullForward(m, i) \in [Places -> S]
         /\ Pulled(PullForward(m, i), m, i, RW_BUFF_SIZE)
<1> DEFINE n == RW_BUFF_SIZE
<1>1. PICK f : InnerLoop(f, S, m, i)
  BY PullForwardRuns
<1>2. /\ f \in [i .. n -> [Places -> S]] /\ f[i] = m
      /\ \A j \in i + 1 .. n : f[j] = Exchange(f[j - 1], i, j)
      /\ PullForward(m, i) = f[n]
  BY <1>1 DEF InnerLoop
<1>3. /\ n \in Nat /\ i \in Nat /\ i <= n /\ Places = 1 .. n
      /\ i \in i .. n /\ n \in i .. n
  BY PlacesAre
<1> HIDE DEF n
<1> DEFINE T == {j \in i .. n : Pulled(f[j], m, i, j)}
<1>4. i \in T
  <2> DEFINE id == [t \in Places |-> t]
  <2>1. Rearranged(m, m, id) /\ \A t \in 1 .. i - 1 : id[t] = t
    BY <1>3 DEF Rearranged
  <2>2. \A k \in i .. i : ~Preferred(m[k])
    BY <1>3
  <2> HIDE DEF id
  <2>3. Pulled(m, m, i, i)
    BY <2>1, <2>2 DEF Pulled
  <2> QED
    BY <1>2, <1>3, <2>3
<1>5. ASSUME NEW j \in i + 1 .. n, j - 1 \in T PROVE j \in T
  <2> DEFINE b == f[j - 1]
  <2>1. /\ j - 1 \in i .. n /\ j \in i .. n /\ j \in Places /\ j > i
        /\ b \in [Places -> S]
    BY <1>2, <1>3
  <2>2. Pulled(b, m, i, j - 1)
    BY <1>5
  <2>3. PICK where : Rearranged(b, m, where) /\ \A t \in 1 .. i - 1 : where[t] = t
    BY <2>2 DEF Pulled
  <2>4. f[j] = Exchange(b, i, j)
    BY <1>2
  <2> HIDE DEF b
  <2>5. CASE Preferred(b[j])
    <3>1. f[j] = Swap(b, i, j)
      BY <2>4, <2>5 DEF Exchange
    <3> DEFINE w == [where EXCEPT ![i] = where[j], ![j] = where[i]]
    <3>2. Rearranged(f[j], m, w)
      <4>1. Rearranged(b, m, where) /\ b \in [Places -> S] /\ j \in Places
        BY <2>1, <2>3
      <4>2. Rearranged(Swap(b, i, j), m, w)
        BY <4>1, SwapRearranges
      <4> QED
        BY <3>1, <4>2
    <3>3. \A t \in 1 .. i - 1 : w[t] = t
      <4>1. where \in [Places -> Places]
        BY <2>3 DEF Rearranged
      <4>2. \A t \in 1 .. i - 1 : t \in Places /\ t # i /\ t # j
        BY <1>3, <2>1
      <4> QED
        BY <2>3, <4>1, <4>2
    <3> HIDE DEF w
    <3>4. f[j][i] = b[j]
      BY <2>1, <3>1 DEF Swap
    <3>5. Pulled(f[j], m, i, j)
      BY <2>5, <3>2, <3>3, <3>4 DEF Pulled
    <3> QED
      BY <2>1, <3>5
  <2>6. CASE ~Preferred(b[j])
    <3>1. f[j] = b
      BY <2>4, <2>6 DEF Exchange
    <3>2. Preferred(b[i]) \/ \A k \in i .. j - 1 : ~Preferred(b[k])
      BY <2>2 DEF Pulled
    <3>3. Preferred(b[i]) \/ \A k \in i .. j : ~Preferred(b[k])
      BY <1>3, <2>1, <2>6, <3>2
    <3>4. Pulled(f[j], m, i, j)
      BY <2>3, <3>1, <3>3 DEF Pulled
    <3> QED
      BY <2>1, <3>4
  <2> QED
    BY <2>5, <2>6
<1> HIDE DEF T
<1>6. \A j \in i .. n : j \in T
  BY <1>3, <1>4, <1>5, EachPass
<1> QED
  BY <1>2, <1>3, <1>6 DEF T, n

-----------------------------------------------------------------------------
(* The outer loop, pass by pass.                                           *)
OuterLoop(f, S, m) ==
  /\ f \in [0 .. RW_BUFF_SIZE -> [Places -> S]]
  /\ f[0] = m
  /\ \A i \in Places : f[i] = Fill(f[i - 1], i)
  /\ sort(m) = f[RW_BUFF_SIZE]

LEMMA FillType ==
  ASSUME NEW S, NEW m \in [Places -> S], NEW i \in Places
  PROVE  Fill(m, i) \in [Places -> S]
BY PullForwardIs DEF Fill

LEMMA SortRuns ==
  ASSUME NEW S, NEW m \in [Places -> S]
  PROVE  \E f : OuterLoop(f, S, m)
<1> DEFINE n == RW_BUFF_SIZE
           X == [Places -> S]
           step == [b \in X |-> [i \in 0 + 1 .. n |-> Fill(b, i)]]
           Body(f) == [i \in 0 .. n |-> IF i = 0 THEN m ELSE Fill(f[i - 1], i)]
           f == CHOOSE f : f = Body(f)
<1>1. /\ n \in Nat /\ 0 \in Nat /\ 0 <= n /\ m \in X /\ Places = 1 .. n
      /\ 0 \in 0 .. n /\ n \in 0 .. n
      /\ \A i \in 0 + 1 .. n : i \in Places /\ i \in 0 .. n /\ i - 1 \in 0 .. n
                               /\ i # 0
      /\ \A i \in Places : i \in 0 + 1 .. n
      /\ \A i \in 0 .. n : i # 0 => i \in 0 + 1 .. n
  BY PlacesAre
<1>2. \A b \in X, i \in 0 + 1 .. n : Fill(b, i) \in X
  BY <1>1, FillType
<1>3. sort(m) = f[n]
  BY DEF sort
<1> HIDE DEF X, n
<1>4. step \in [X -> [0 + 1 .. n -> X]]
  BY <1>2
<1>5. PICK g : Runs(g, X, 0, n, m, step)
  <2> HIDE DEF step
  <2> QED
    BY <1>1, <1>4, LoopRuns
<1>6. g = Body(g)
  <2>1. ASSUME NEW i \in 0 + 1 .. n PROVE g[i] = Fill(g[i - 1], i)
    <3>1. g[i - 1] \in X
      BY <1>1, <1>5 DEF Runs
    <3> QED
      BY <1>5, <3>1 DEF Runs
  <2>2. \A i \in 0 .. n : g[i] = Body(g)[i]
    BY <1>1, <1>5, <2>1 DEF Runs
  <2> QED
    BY <1>5, <2>2 DEF Runs
<1>7. f = Body(f)
  BY <1>6
<1> HIDE DEF f
<1>8. /\ DOMAIN f = 0 .. n /\ f[0] = m
      /\ \A i \in 0 + 1 .. n : f[i] = Fill(f[i - 1], i)
  BY <1>1, <1>7
<1>9. \A i \in 0 .. n : f[i] \in X
  <2> DEFINE T == {i \in 0 .. n : f[i] \in X}
  <2>1. 0 \in T
    BY <1>1, <1>8
  <2>2. ASSUME NEW i \in 0 + 1 .. n, i - 1 \in T PROVE i \in T
    BY <1>1, <1>2, <1>8, <2>2
  <2> HIDE DEF T
  <2>3. \A i \in 0 .. n : i \in T
    BY <1>1, <2>1, <2>2, EachPass
  <2> QED
    BY <2>3 DEF T
<1>10. f \in [0 .. n -> X]
  BY <1>7, <1>9
<1>11. OuterLoop(f, S, m)
  BY <1>1, <1>3, <1>8, <1>10 DEF X, n, OuterLoop
<1> QED
  BY <1>11

(* One pass of the outer loop keeps what is sorted before place i and adds *)
(* that place.                                                             *)
LEMMA FillSorts ==
  ASSUME NEW S, NEW b \in [Places -> S], NEW i \in Places, SortedUpTo(b, i - 1)
  PROVE  /\ SortedUpTo(Fill(b, i), i)
         /\ \E where : Rearranged(Fill(b, i), b, where)
<1>1. RW_BUFF_SIZE \in Nat /\ Places = 1 .. RW_BUFF_SIZE
  BY PlacesAre
<1>2. CASE Preferred(b[i])
  <2>1. Fill(b, i) = b
    BY <1>2 DEF Fill
  <2>2. SortedUpTo(b, i)
    BY <1>1, <1>2 DEF SortedUpTo
  <2>3. Rearranged(b, b, [t \in Places |-> t])
    BY DEF Rearranged
  <2> QED
    BY <2>1, <2>2, <2>3
<1>3. CASE ~Preferred(b[i])
  <2> DEFINE c == PullForward(b, i)
  <2>1. Fill(b, i) = c /\ c \in [Places -> S] /\ Pulled(c, b, i, RW_BUFF_SIZE)
    BY <1>3, PullForwardIs DEF Fill
  <2> HIDE DEF c
  <2>2. PICK where : Rearranged(c, b, where) /\ \A t \in 1 .. i - 1 : where[t] = t
    BY <2>1 DEF Pulled
  <2>3. ASSUME NEW t \in Places, NEW u \in Places, t < u, t <= i, Preferred(c[u])
        PROVE  Preferred(c[t])
    <3>1. CASE t = i
      <4>1. Preferred(c[i]) \/ \A k \in i .. RW_BUFF_SIZE : ~Preferred(c[k])
        BY <2>1 DEF Pulled
      <4>2. u \in i .. RW_BUFF_SIZE
        BY <1>1, <2>3, <3>1
      <4> QED
        BY <2>3, <3>1, <4>1, <4>2
    <3>2. CASE t < i
      <4>1. /\ c[t] = b[where[t]] /\ c[u] = b[where[u]]
            /\ where[t] \in Places /\ where[u] \in Places
            /\ \A s \in Places : s # u => where[s] # where[u]
        BY <2>2 DEF Rearranged
      <4>2. where[t] = t
        BY <1>1, <2>2, <3>2
      <4>3. t < where[u]
        <5> SUFFICES ASSUME where[u] <= t PROVE FALSE
          BY <1>1, <4>1
        <5>1. where[u] \in 1 .. i - 1 /\ where[u] # u
          BY <1>1, <2>3, <3>2, <4>1
        <5>2. where[where[u]] = where[u]
          BY <2>2, <5>1
        <5> QED
          BY <4>1, <5>1, <5>2
      <4>4. t <= i - 1
        BY <1>1, <3>2
      <4> QED
        BY <2>3, <4>1, <4>2, <4>3, <4>4 DEF SortedUpTo
    <3> QED
      BY <1>1, <2>3, <3>1, <3>2
  <2>4. SortedUpTo(c, i)
    BY <2>3 DEF SortedUpTo
  <2> QED
    BY <2>1, <2>2, <2>4
<1> QED
  BY <1>2, <1>3

LEMMA RearrangedTwice ==
  ASSUME NEW m, NEW b, NEW c, NEW v, NEW w,
         Rearranged(b, m, v), Rearranged(c, b, w)
  PROVE  Rearranged(c, m, [t \in Places |-> v[w[t]]])
BY DEF Rearranged

(* main.c:264-283: sort rearranges the requests it is given, and those that*)
(* the scheduling policy prefers come first, whatever their order was and  *)
(* however many there are.                                                 *)
THEOREM SortIs ==
  ASSUME NEW S, NEW m \in [Places -> S]
  PROVE  /\ sort(m) \in [Places -> S]
         /\ \E where : Rearranged(sort(m), m, where)
         /\ \A t, u \in Places :
              t < u /\ Preferred(sort(m)[u]) => Preferred(sort(m)[t])
<1> DEFINE n == RW_BUFF_SIZE
<1>1. PICK f : OuterLoop(f, S, m)
  BY SortRuns
<1>2. /\ n \in Nat /\ 0 \in Nat /\ 0 <= n /\ Places = 1 .. n
      /\ 0 \in 0 .. n /\ n \in 0 .. n
      /\ \A i \in 0 + 1 .. n : i \in Places /\ i \in 0 .. n /\ i - 1 \in 0 .. n
  BY PlacesAre
<1>3. /\ f \in [0 .. n -> [Places -> S]] /\ f[0] = m
      /\ \A i \in Places : f[i] = Fill(f[i - 1], i)
      /\ sort(m) = f[n]
  BY <1>1 DEF OuterLoop
<1> HIDE DEF n
<1> DEFINE Good(b) == \E where : Rearranged(b, m, where)
           T == {i \in 0 .. n : SortedUpTo(f[i], i) /\ Good(f[i])}
<1>4. 0 \in T
  <2>1. SortedUpTo(m, 0)
    BY <1>2 DEF SortedUpTo
  <2>2. Rearranged(m, m, [t \in Places |-> t])
    BY DEF Rearranged
  <2>3. Good(m)
    BY <2>2
  <2> HIDE DEF Good
  <2> QED
    BY <1>2, <1>3, <2>1, <2>3
<1>5. ASSUME NEW i \in 0 + 1 .. n, i - 1 \in T PROVE i \in T
  <2> DEFINE b == f[i - 1]
  <2>1. /\ b \in [Places -> S] /\ i \in Places /\ i \in 0 .. n
        /\ f[i] = Fill(b, i)
    BY <1>2, <1>3
  <2>2. SortedUpTo(b, i - 1) /\ Good(b)
    <3> HIDE DEF Good
    <3> QED
      BY <1>5
  <2> HIDE DEF b
  <2>3. PICK v : Rearranged(b, m, v)
    BY <2>2
  <2>4. SortedUpTo(f[i], i) /\ \E where : Rearranged(f[i], b, where)
    BY <2>1, <2>2, FillSorts
  <2>5. PICK w : Rearranged(f[i], b, w)
    BY <2>4
  <2>6. Rearranged(f[i], m, [t \in Places |-> v[w[t]]])
    BY <2>3, <2>5, RearrangedTwice
  <2>7. Good(f[i])
    BY <2>6
  <2> HIDE DEF Good
  <2> QED
    BY <2>1, <2>4, <2>7
<1> HIDE DEF T
<1>6. \A i \in 0 .. n : i \in T
  BY <1>2, <1>4, <1>5, EachPass
<1>7. SortedUpTo(f[n], n) /\ Good(f[n])
  <2> HIDE DEF Good
  <2> QED
    BY <1>2, <1>6 DEF T
<1> QED
  BY <1>2, <1>3, <1>7 DEF SortedUpTo
=============================================================================
