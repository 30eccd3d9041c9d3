--------------------------- MODULE FileLockProofs ---------------------------
(***************************************************************************)
(* The lock of server/main.c for batches of any size: exclusion, an idle   *)
(* lock between batches, no reader past a waiting writer, and the          *)
(* implementation of ReadersWriters, from one inductive invariant.         *)
(***************************************************************************)
EXTENDS FileLock, FiniteSetTheorems, TLAPS

(* The readers that read_count counts: those inside and the one that still *)
(* blocks on rw_lock.                                                      *)
Counted == {t \in Thread : kind[t] = "reader" /\ pc[t] \in {"count", "inside"}}

(* The writers that waiting_writers counts.                                *)
Waiting == {t \in Thread : Announced(t)}

Shape ==
  /\ rw_policy \in Policy
  /\ phase \in {"collecting", "joining"}
  /\ kind \in [Thread -> Kind]
  /\ pc \in [Thread -> Place]
  /\ phase = "collecting" => \A t \in Thread : pc[t] = "done"

Counts ==
  /\ read_count = IF rw_policy = "simultaneous" THEN 0 ELSE Cardinality(Counted)
  /\ waiting_writers = Cardinality(Waiting)

(* Under readers' priority rw_lock is held for whoever is inside, and      *)
(* read_count_lock for the one reader that blocks on it.                   *)
RwLockHeld ==
  IF rw_policy = "readers"
  THEN /\ rw_lock \in BOOLEAN
       /\ rw_lock <=> Inside # {}
       /\ read_count_lock \in Thread \cup {NoThread}
       /\ \A t \in Thread : read_count_lock = t <=> pc[t] = "count"
       /\ \A t \in Thread : pc[t] = "count" => Counted = {t}
  ELSE /\ rw_lock = FALSE
       /\ read_count_lock = NoThread
       /\ \A t \in Thread : pc[t] # "count"

(* Under writers' priority active_writers flags the writer inside, and     *)
(* only threads that sleep are in the wait sets.                           *)
MonitorHeld ==
  IF rw_policy = "writers"
  THEN /\ active_writers \in 0 .. 1
       /\ active_writers = 1 <=> \E t \in Thread : At(t, "writer", "inside")
       /\ can_read \subseteq {t \in Thread : At(t, "reader", "asleep")}
       /\ can_write \subseteq {t \in Thread : At(t, "writer", "asleep")}
  ELSE /\ active_writers = 0
       /\ can_read = {}
       /\ can_write = {}
       /\ \A t \in Thread : pc[t] \notin {"asleep", "woken"}

IInv == Shape /\ Counts /\ RwLockHeld /\ MonitorHeld /\ Exclusion

-----------------------------------------------------------------------------
LEMMA CountedFinite ==
  /\ IsFiniteSet(Counted) /\ Cardinality(Counted) \in Nat
  /\ Cardinality(Counted) = 0 <=> Counted = {}
  /\ IsFiniteSet(Waiting) /\ Cardinality(Waiting) \in Nat
  /\ Cardinality(Waiting) = 0 <=> Waiting = {}
<1>1. Counted \subseteq Thread /\ Waiting \subseteq Thread
  BY DEF Counted, Waiting
<1>2. IsFiniteSet(Counted) /\ IsFiniteSet(Waiting)
  BY <1>1, FS_Subset, ThreadAssumption
<1> QED
  BY <1>2, FS_CardinalityType, FS_EmptySet

LEMMA OneMore ==
  ASSUME NEW S, IsFiniteSet(S), NEW x, x \notin S
  PROVE  Cardinality(S \cup {x}) = Cardinality(S) + 1
BY FS_AddElement

LEMMA OneLess ==
  ASSUME NEW S, IsFiniteSet(S), NEW x \in S
  PROVE  Cardinality(S \ {x}) = Cardinality(S) - 1
BY FS_RemoveElement

(* Every variable of the lock stays in its type.                           *)
LEMMA InvImpliesTypeOK == IInv => TypeOK
<1> SUFFICES ASSUME IInv PROVE TypeOK
  OBVIOUS
<1>1. read_count \in Nat /\ waiting_writers \in Nat
  BY CountedFinite DEF IInv, Counts
<1>2. rw_lock \in BOOLEAN /\ read_count_lock \in Thread \cup {NoThread}
  BY DEF IInv, RwLockHeld
<1>3. active_writers \in 0 .. 1 /\ can_read \subseteq Thread /\ can_write \subseteq Thread
  BY DEF IInv, MonitorHeld
<1> QED
  BY <1>1, <1>2, <1>3 DEF IInv, Shape, TypeOK

LEMMA InvInit == Init => IInv
<1> SUFFICES ASSUME Init PROVE IInv
  OBVIOUS
<1>1. Counted = {} /\ Waiting = {} /\ Inside = {}
  BY DEF Init, Counted, Waiting, Inside, Announced
<1>2. Counts
  BY <1>1, FS_EmptySet DEF Counts, Init
<1>3. RwLockHeld
  BY <1>1, NoThreadAssumption DEF RwLockHeld, Init
<1>4. MonitorHeld
  BY DEF MonitorHeld, Init, At
<1> QED
  BY <1>1, <1>2, <1>3, <1>4 DEF IInv, Shape, Init, Exclusion, Place

-----------------------------------------------------------------------------
(* The steps of func_send.                                                 *)
LEMMA InvBegin == IInv /\ Begin => IInv'
<1> SUFFICES ASSUME IInv, Begin PROVE IInv'
  OBVIOUS
<1>1. \A t \in Thread : pc[t] = "done" /\ pc'[t] = "start"
  BY DEF IInv, Shape, Begin
<1>2. Counted = {} /\ Counted' = {} /\ Waiting = {} /\ Waiting' = {}
  BY <1>1 DEF Counted, Waiting, Announced
<1>3. Inside = {} /\ Inside' = {}
  BY <1>1 DEF Inside
<1>4. Shape'
  BY DEF IInv, Shape, Begin, Place
<1>5. Counts'
  BY <1>2 DEF IInv, Counts, Begin, wlvars
<1>6. RwLockHeld'
  BY <1>1, <1>3, NoThreadAssumption DEF IInv, RwLockHeld, Begin, rlvars
<1>7. MonitorHeld'
  BY <1>1 DEF IInv, MonitorHeld, Begin, wlvars, At
<1> QED
  BY <1>3, <1>4, <1>5, <1>6, <1>7 DEF IInv, Exclusion

(* A step that moves no thread keeps what is said of the threads.          *)
LEMMA InvStill ==
  IInv /\ (JoinAll \/ UNCHANGED flvars) => IInv'
<1> SUFFICES ASSUME IInv, JoinAll \/ UNCHANGED flvars PROVE IInv'
  OBVIOUS
<1>1. UNCHANGED <<rw_policy, kind, pc, read_count, rw_lock, read_count_lock,
                  waiting_writers, active_writers, can_read, can_write>>
  BY DEF JoinAll, flvars, rlvars, wlvars
<1>2. Counted' = Counted /\ Waiting' = Waiting /\ Inside' = Inside
  BY <1>1 DEF Counted, Waiting, Inside, Announced
<1>3. Shape'
  BY DEF IInv, Shape, JoinAll, flvars
<1>4. Counts'
  BY <1>1, <1>2 DEF IInv, Counts
<1>5. RwLockHeld'
  BY <1>1, <1>2 DEF IInv, RwLockHeld
<1>6. MonitorHeld'
  BY <1>1 DEF IInv, MonitorHeld, At
<1> QED
  BY <1>1, <1>2, <1>3, <1>4, <1>5, <1>6 DEF IInv, Exclusion

-----------------------------------------------------------------------------
(* What the move of one thread does to the sets the invariant counts.      *)
LEMMA MoveOne ==
  ASSUME IInv, NEW t \in Thread, NEW place \in Place, pc[t] # "done",
         Goto(t, place), UNCHANGED <<rw_policy, phase, kind>>
  PROVE  /\ Shape'
         /\ pc'[t] = place /\ \A u \in Thread \ {t} : pc'[u] = pc[u]
         /\ Counted' = IF kind[t] = "reader" /\ place \in {"count", "inside"}
                       THEN Counted \cup {t} ELSE Counted \ {t}
         /\ Waiting' = IF kind[t] = "writer" /\ place \in {"asleep", "woken"}
                       THEN Waiting \cup {t} ELSE Waiting \ {t}
         /\ Inside' = IF place = "inside" THEN Inside \cup {t}
                                          ELSE Inside \ {t}
<1>1. /\ pc' \in [Thread -> Place]
      /\ pc'[t] = place
      /\ \A u \in Thread \ {t} : pc'[u] = pc[u]
  BY DEF Goto, IInv, Shape
<1>2. phase = "joining" /\ kind' = kind
  BY DEF IInv, Shape
<1>3. Shape'
  BY <1>1, <1>2 DEF IInv, Shape
<1>4. Counted' = IF kind[t] = "reader" /\ place \in {"count", "inside"}
                 THEN Counted \cup {t} ELSE Counted \ {t}
  BY <1>1, <1>2 DEF Counted
<1>5. Waiting' = IF kind[t] = "writer" /\ place \in {"asleep", "woken"}
                 THEN Waiting \cup {t} ELSE Waiting \ {t}
  BY <1>1, <1>2 DEF Waiting, Announced
<1>6. Inside' = IF place = "inside" THEN Inside \cup {t} ELSE Inside \ {t}
  BY <1>1 DEF Inside
<1> QED
  BY <1>1, <1>3, <1>4, <1>5, <1>6

LEMMA InvPass == \A t \in Thread : IInv /\ Pass(t) => IInv'
<1> SUFFICES ASSUME NEW t \in Thread, IInv, Pass(t) PROVE IInv'
  OBVIOUS
<1>1. PICK place \in {"inside", "done"} :
        /\ pc[t] \in {"start", "inside"}
        /\ Goto(t, place)
  BY DEF Pass
<1>2. place \in Place /\ rw_policy = "simultaneous"
  BY DEF Place, Pass
<1>3. UNCHANGED <<rw_policy, phase, kind, read_count, rw_lock, read_count_lock,
                  waiting_writers, active_writers, can_read, can_write>>
  BY DEF Pass, rlvars, wlvars
<1>4. /\ Shape'
      /\ pc'[t] = place /\ \A u \in Thread \ {t} : pc'[u] = pc[u]
      /\ Waiting' = Waiting \ {t}
  BY <1>1, <1>2, <1>3, MoveOne
<1>5. t \notin Waiting
  BY <1>1 DEF Waiting, Announced
<1>6. Counts'
  BY <1>2, <1>3, <1>4, <1>5 DEF IInv, Counts
<1>7. RwLockHeld'
  BY <1>2, <1>3, <1>4 DEF IInv, RwLockHeld
<1>8. MonitorHeld'
  BY <1>2, <1>3, <1>4 DEF IInv, MonitorHeld
<1>9. Exclusion'
  BY <1>2, <1>3 DEF Exclusion
<1> QED
  BY <1>4, <1>6, <1>7, <1>8, <1>9 DEF IInv

-----------------------------------------------------------------------------
(* Readers' priority.                                                      *)
LEMMA InvCountIn == \A t \in Thread : IInv /\ CountIn(t) => IInv'
<1> SUFFICES ASSUME NEW t \in Thread, IInv, CountIn(t) PROVE IInv'
  OBVIOUS
<1> DEFINE place == IF read_count = 0 THEN "count" ELSE "inside"
<1>1. /\ rw_policy = "readers" /\ kind[t] = "reader" /\ pc[t] = "start"
      /\ read_count_lock = NoThread /\ read_count' = read_count + 1
      /\ UNCHANGED <<rw_policy, phase, kind, rw_lock, waiting_writers, active_writers,
                     can_read, can_write>>
  BY DEF CountIn, At, AddReader, wlvars
<1>2. read_count = Cardinality(Counted) /\ read_count \in Nat
  BY <1>1, CountedFinite DEF IInv, Counts
<1>3. /\ Goto(t, place)
      /\ read_count_lock' = IF read_count = 0 THEN t ELSE NoThread
  BY <1>1, <1>2 DEF CountIn, IsFirst, AddReader
<1>4. /\ Shape'
      /\ pc'[t] = place /\ \A u \in Thread \ {t} : pc'[u] = pc[u]
      /\ Counted' = Counted \cup {t}
      /\ Waiting' = Waiting \ {t}
      /\ Inside' = IF read_count = 0 THEN Inside \ {t} ELSE Inside \cup {t}
  BY <1>1, <1>3, MoveOne DEF Place
<1>5. t \notin Counted /\ t \notin Waiting /\ t \notin Inside
  BY <1>1 DEF Counted, Waiting, Announced, Inside
<1>6. Counts'
  <2>1. Cardinality(Counted') = Cardinality(Counted) + 1
    BY <1>4, <1>5, CountedFinite, OneMore
  <2> QED
    BY <1>1, <1>2, <1>4, <1>5, <2>1 DEF IInv, Counts
<1>7. \A u \in Thread : pc[u] # "count"
  BY <1>1, NoThreadAssumption DEF IInv, RwLockHeld
<1>8. read_count # 0 => \E u \in Inside : kind[u] = "reader"
  BY <1>2, <1>7, CountedFinite DEF Counted, Inside
<1>9. RwLockHeld'
  <2>1. CASE read_count = 0
    <3>1. Counted' = {t} /\ Inside' = Inside
      BY <1>2, <1>4, <1>5, <2>1, CountedFinite
    <3> QED
      BY <1>1, <1>3, <1>4, <1>7, <2>1, <3>1, NoThreadAssumption
      DEF IInv, RwLockHeld
  <2>2. CASE read_count # 0
    <3>1. Inside # {} /\ Inside' # {}
      BY <1>4, <1>8, <2>2
    <3> QED
      BY <1>1, <1>3, <1>4, <1>7, <2>2, <3>1, NoThreadAssumption
      DEF IInv, RwLockHeld
  <2> QED
    BY <2>1, <2>2
<1>10. MonitorHeld'
  BY <1>1, <1>4 DEF IInv, MonitorHeld
<1>11. Exclusion'
  BY <1>1, <1>4, <1>8 DEF IInv, Exclusion
<1> QED
  BY <1>4, <1>6, <1>9, <1>10, <1>11 DEF IInv

LEMMA InvTakeForReaders ==
  \A t \in Thread : IInv /\ TakeForReaders(t) => IInv'
<1> SUFFICES ASSUME NEW t \in Thread, IInv, TakeForReaders(t) PROVE IInv'
  OBVIOUS
<1>1. /\ rw_policy = "readers" /\ kind[t] = "reader" /\ pc[t] = "count"
      /\ ~rw_lock /\ rw_lock' = TRUE /\ read_count_lock' = NoThread
      /\ Goto(t, "inside")
      /\ UNCHANGED <<rw_policy, phase, kind, read_count, waiting_writers,
                     active_writers, can_read, can_write>>
  BY DEF TakeForReaders, At, wlvars
<1>2. /\ Shape'
      /\ pc'[t] = "inside" /\ \A u \in Thread \ {t} : pc'[u] = pc[u]
      /\ Counted' = Counted \cup {t}
      /\ Waiting' = Waiting \ {t}
      /\ Inside' = Inside \cup {t}
  BY <1>1, MoveOne DEF Place
<1>3. t \in Counted /\ t \notin Waiting /\ Inside = {}
  BY <1>1 DEF Counted, Waiting, Announced, IInv, RwLockHeld
<1>4. \A u \in Thread \ {t} : pc[u] # "count"
  BY <1>1 DEF IInv, RwLockHeld
<1>5. Counts'
  <2>1. Counted' = Counted /\ Waiting' = Waiting
    BY <1>2, <1>3
  <2> QED
    BY <1>1, <2>1 DEF IInv, Counts
<1>6. RwLockHeld'
  BY <1>1, <1>2, <1>4, NoThreadAssumption DEF IInv, RwLockHeld
<1>7. MonitorHeld'
  BY <1>1, <1>2 DEF IInv, MonitorHeld
<1>8. Exclusion'
  BY <1>1, <1>2, <1>3 DEF Exclusion
<1> QED
  BY <1>2, <1>5, <1>6, <1>7, <1>8 DEF IInv

LEMMA InvCountOut == \A t \in Thread : IInv /\ CountOut(t) => IInv'
<1> SUFFICES ASSUME NEW t \in Thread, IInv, CountOut(t) PROVE IInv'
  OBVIOUS
<1>1. /\ rw_policy = "readers" /\ kind[t] = "reader" /\ pc[t] = "inside"
      /\ read_count_lock = NoThread
      /\ read_count' = read_count - 1
      /\ rw_lock' = (rw_lock /\ read_count' # 0)
      /\ Goto(t, "done")
      /\ UNCHANGED <<rw_policy, phase, kind, read_count_lock, waiting_writers,
                     active_writers, can_read, can_write>>
  BY DEF CountOut, At, IsLast, wlvars
<1>2. /\ Shape'
      /\ pc'[t] = "done" /\ \A u \in Thread \ {t} : pc'[u] = pc[u]
      /\ Counted' = Counted \ {t}
      /\ Waiting' = Waiting \ {t}
      /\ Inside' = Inside \ {t}
  BY <1>1, MoveOne DEF Place
<1>3. t \in Counted /\ t \notin Waiting /\ t \in Inside
  BY <1>1 DEF Counted, Waiting, Announced, Inside
<1>4. Counts'
  <2>1. Cardinality(Counted') = Cardinality(Counted) - 1
    BY <1>2, <1>3, CountedFinite, OneLess
  <2> QED
    BY <1>1, <1>2, <1>3, <2>1 DEF IInv, Counts
<1>5. \A u \in Thread : pc[u] # "count"
  BY <1>1, NoThreadAssumption DEF IInv, RwLockHeld
<1>6. \A u \in Inside : kind[u] = "reader"
  BY <1>1, <1>3 DEF IInv, Exclusion
<1>7. Counted = Inside
  BY <1>5, <1>6 DEF Counted, Inside
<1>8. read_count' = 0 <=> Inside' = {}
  <2>1. read_count' = Cardinality(Counted') /\ Counted' = Inside'
    BY <1>1, <1>2, <1>4, <1>7 DEF Counts
  <2>2. IsFiniteSet(Counted')
    BY <1>2, CountedFinite, FS_RemoveElement
  <2> QED
    BY <2>1, <2>2, FS_EmptySet
<1>9. RwLockHeld'
  <2>1. rw_lock
    BY <1>1, <1>3 DEF IInv, RwLockHeld
  <2> QED
    BY <1>1, <1>2, <1>5, <1>8, <2>1, NoThreadAssumption DEF IInv, RwLockHeld
<1>10. MonitorHeld'
  BY <1>1, <1>2 DEF IInv, MonitorHeld
<1>11. Exclusion'
  BY <1>1, <1>2, <1>6 DEF Exclusion
<1> QED
  BY <1>2, <1>4, <1>9, <1>10, <1>11 DEF IInv

LEMMA InvTake == \A t \in Thread : IInv /\ Take(t) => IInv'
<1> SUFFICES ASSUME NEW t \in Thread, IInv, Take(t) PROVE IInv'
  OBVIOUS
<1>1. /\ rw_policy = "readers" /\ kind[t] = "writer" /\ pc[t] = "start"
      /\ ~rw_lock /\ rw_lock' = TRUE
      /\ Goto(t, "inside")
      /\ UNCHANGED <<rw_policy, phase, kind, read_count, read_count_lock,
                     waiting_writers, active_writers, can_read, can_write>>
  BY DEF Take, At, wlvars
<1>2. /\ Shape'
      /\ pc'[t] = "inside" /\ \A u \in Thread \ {t} : pc'[u] = pc[u]
      /\ Counted' = Counted \ {t}
      /\ Waiting' = Waiting \ {t}
      /\ Inside' = Inside \cup {t}
  BY <1>1, MoveOne DEF Place
<1>3. t \notin Counted /\ t \notin Waiting /\ Inside = {}
  BY <1>1 DEF Counted, Waiting, Announced, IInv, RwLockHeld
<1>4. Counted' = Counted /\ Waiting' = Waiting
  BY <1>2, <1>3
<1>5. Counts'
  BY <1>1, <1>4 DEF IInv, Counts
<1>6. RwLockHeld'
  BY <1>1, <1>2, <1>4 DEF IInv, RwLockHeld
<1>7. MonitorHeld'
  BY <1>1, <1>2 DEF IInv, MonitorHeld
<1>8. Exclusion'
  BY <1>1, <1>2, <1>3 DEF Exclusion
<1> QED
  BY <1>2, <1>5, <1>6, <1>7, <1>8 DEF IInv

LEMMA InvDrop == \A t \in Thread : IInv /\ Drop(t) => IInv'
<1> SUFFICES ASSUME NEW t \in Thread, IInv, Drop(t) PROVE IInv'
  OBVIOUS
<1>1. /\ rw_policy = "readers" /\ kind[t] = "writer" /\ pc[t] = "inside"
      /\ rw_lock' = FALSE
      /\ Goto(t, "done")
      /\ UNCHANGED <<rw_policy, phase, kind, read_count, read_count_lock,
                     waiting_writers, active_writers, can_read, can_write>>
  BY DEF Drop, At, wlvars
<1>2. /\ Shape'
      /\ pc'[t] = "done" /\ \A u \in Thread \ {t} : pc'[u] = pc[u]
      /\ Counted' = Counted \ {t}
      /\ Waiting' = Waiting \ {t}
      /\ Inside' = Inside \ {t}
  BY <1>1, MoveOne DEF Place
<1>3. t \notin Counted /\ t \notin Waiting /\ Inside = {t}
  BY <1>1 DEF Counted, Waiting, Announced, Inside, IInv, Exclusion
<1>4. Counted' = Counted /\ Waiting' = Waiting /\ Inside' = {}
  BY <1>2, <1>3
<1>5. Counts'
  BY <1>1, <1>4 DEF IInv, Counts
<1>6. RwLockHeld'
  BY <1>1, <1>2, <1>4 DEF IInv, RwLockHeld
<1>7. MonitorHeld'
  BY <1>1, <1>2 DEF IInv, MonitorHeld
<1>8. Exclusion'
  BY <1>4 DEF Exclusion
<1> QED
  BY <1>2, <1>5, <1>6, <1>7, <1>8 DEF IInv

-----------------------------------------------------------------------------
(* Writers' priority.                                                      *)
LEMMA InvReaderTests == \A t \in Thread : IInv /\ ReaderTests(t) => IInv'
<1> SUFFICES ASSUME NEW t \in Thread, IInv, ReaderTests(t) PROVE IInv'
  OBVIOUS
<1>1. /\ rw_policy = "writers" /\ kind[t] = "reader" /\ pc[t] \in {"start", "woken"}
      /\ UNCHANGED <<rw_policy, phase, kind, rw_lock, read_count_lock, waiting_writers,
                     active_writers, can_write>>
  BY DEF ReaderTests, At, rlvars
<1>2. t \notin Counted /\ t \notin Waiting /\ t \notin Inside
  BY <1>1 DEF Counted, Waiting, Announced, Inside
<1>3. CASE ReadersMustWait
  <2>1. /\ can_read' = can_read \cup {t}
        /\ Goto(t, "asleep") /\ read_count' = read_count
    BY <1>3 DEF ReaderTests
  <2>2. /\ Shape'
        /\ pc'[t] = "asleep" /\ \A u \in Thread \ {t} : pc'[u] = pc[u]
        /\ Counted' = Counted /\ Waiting' = Waiting /\ Inside' = Inside
    BY <1>1, <1>2, <2>1, MoveOne DEF Place
  <2>3. Counts'
    BY <1>1, <2>1, <2>2 DEF IInv, Counts
  <2>4. RwLockHeld'
    BY <1>1, <2>2 DEF IInv, RwLockHeld
  <2>5. MonitorHeld'
    BY <1>1, <2>1, <2>2 DEF IInv, MonitorHeld, At
  <2>6. Exclusion'
    BY <1>1, <2>2 DEF IInv, Exclusion
  <2> QED
    BY <2>2, <2>3, <2>4, <2>5, <2>6 DEF IInv
<1>4. CASE ~ReadersMustWait
  <2>1. /\ read_count' = read_count + 1
        /\ Goto(t, "inside") /\ can_read' = can_read
    BY <1>4 DEF ReaderTests, AddReader
  <2>2. /\ Shape'
        /\ pc'[t] = "inside" /\ \A u \in Thread \ {t} : pc'[u] = pc[u]
        /\ Counted' = Counted \cup {t} /\ Waiting' = Waiting
        /\ Inside' = Inside \cup {t}
    <3>1. /\ pc[t] # "done" /\ "inside" \in Place
          /\ UNCHANGED <<rw_policy, phase, kind>>
      BY <1>1 DEF Place
    <3> QED
      BY <1>1, <1>2, <2>1, <3>1, MoveOne
  <2>3. \A u \in Thread : ~At(u, "writer", "inside")
    BY <1>1, <1>4 DEF ReadersMustWait, IInv, MonitorHeld
  <2>4. Counts'
    <3>1. Cardinality(Counted') = Cardinality(Counted) + 1
      BY <1>2, <2>2, CountedFinite, OneMore
    <3> QED
      BY <1>1, <2>1, <2>2, <3>1 DEF IInv, Counts
  <2>5. RwLockHeld'
    BY <1>1, <2>2 DEF IInv, RwLockHeld
  <2>6. MonitorHeld'
    BY <1>1, <2>1, <2>2 DEF IInv, MonitorHeld, At
  <2>7. Exclusion'
    BY <1>1, <2>2, <2>3 DEF IInv, Shape, Kind, Exclusion, Inside, At
  <2> QED
    BY <2>2, <2>4, <2>5, <2>6, <2>7 DEF IInv
<1> QED
  BY <1>3, <1>4

LEMMA InvWriterTests == \A t \in Thread : IInv /\ WriterTests(t) => IInv'
<1> SUFFICES ASSUME NEW t \in Thread, IInv, WriterTests(t) PROVE IInv'
  OBVIOUS
<1>1. /\ rw_policy = "writers" /\ kind[t] = "writer" /\ pc[t] \in {"start", "woken"}
      /\ UNCHANGED <<rw_policy, phase, kind, read_count, rw_lock, read_count_lock,
                     can_read>>
  BY DEF WriterTests, At, rlvars
<1>2. /\ t \notin Counted /\ t \notin Inside
      /\ pc[t] = "start" <=> t \notin Waiting
  BY <1>1 DEF Counted, Waiting, Announced, Inside
<1>3. waiting_writers = Cardinality(Waiting) /\ waiting_writers \in Nat
  BY CountedFinite DEF IInv, Counts
<1>4. Announce(t) = Cardinality(Waiting \cup {t})
  <2>1. CASE pc[t] = "start"
    <3>1. t \notin Waiting
      BY <1>2, <2>1
    <3> QED
      BY <1>3, <2>1, <3>1, CountedFinite, OneMore DEF Announce
  <2>2. CASE pc[t] # "start"
    <3>1. Waiting \cup {t} = Waiting
      BY <1>2, <2>2
    <3> QED
      BY <1>3, <2>2, <3>1 DEF Announce
  <2> QED
    BY <2>1, <2>2
<1>5. CASE WritersMustWait
  <2>1. /\ waiting_writers' = Announce(t) /\ can_write' = can_write \cup {t}
        /\ Goto(t, "asleep") /\ active_writers' = active_writers
    BY <1>5 DEF WriterTests
  <2>2. /\ Shape'
        /\ pc'[t] = "asleep" /\ \A u \in Thread \ {t} : pc'[u] = pc[u]
        /\ Counted' = Counted /\ Waiting' = Waiting \cup {t}
        /\ Inside' = Inside
    BY <1>1, <1>2, <2>1, MoveOne DEF Place
  <2>3. Counts'
    BY <1>1, <1>4, <2>1, <2>2 DEF IInv, Counts
  <2>4. RwLockHeld'
    BY <1>1, <2>2 DEF IInv, RwLockHeld
  <2>5. MonitorHeld'
    BY <1>1, <2>1, <2>2 DEF IInv, MonitorHeld, At
  <2>6. Exclusion'
    BY <1>1, <2>2 DEF IInv, Exclusion
  <2> QED
    BY <2>2, <2>3, <2>4, <2>5, <2>6 DEF IInv
<1>6. CASE ~WritersMustWait
  <2>1. /\ waiting_writers' = Announce(t) - 1 /\ active_writers' = 1
        /\ Goto(t, "inside") /\ can_write' = can_write
    BY <1>6 DEF WriterTests, Withdraw
  <2>2. /\ Shape'
        /\ pc'[t] = "inside" /\ \A u \in Thread \ {t} : pc'[u] = pc[u]
        /\ Counted' = Counted /\ Waiting' = Waiting \ {t}
        /\ Inside' = Inside \cup {t}
    <3>1. /\ pc[t] # "done" /\ "inside" \in Place
          /\ UNCHANGED <<rw_policy, phase, kind>>
      BY <1>1 DEF Place
    <3>2. /\ Shape'
          /\ pc'[t] = "inside" /\ \A u \in Thread \ {t} : pc'[u] = pc[u]
          /\ Counted' = Counted \ {t} /\ Waiting' = Waiting \ {t}
          /\ Inside' = Inside \cup {t}
      BY <1>1, <2>1, <3>1, MoveOne
    <3> QED
      BY <1>2, <3>2
  <2>3. Inside = {}
    <3>1. read_count = 0 /\ active_writers = 0
      BY <1>6, CountedFinite, <1>1 DEF WritersMustWait, IInv, Counts, MonitorHeld
    <3>2. Counted = {} /\ \A u \in Thread : ~At(u, "writer", "inside")
      BY <1>1, <3>1, CountedFinite DEF IInv, Counts, MonitorHeld
    <3> QED
      BY <3>2 DEF Counted, Inside, At, IInv, Shape, Kind
  <2>4. Counts'
    <3>1. Waiting' = (Waiting \cup {t}) \ {t} /\ IsFiniteSet(Waiting \cup {t})
      BY <2>2, CountedFinite, FS_AddElement
    <3>2. Cardinality(Waiting') = Cardinality(Waiting \cup {t}) - 1
      BY <3>1, OneLess
    <3> QED
      BY <1>1, <1>4, <2>1, <2>2, <3>2 DEF IInv, Counts
  <2>5. RwLockHeld'
    BY <1>1, <2>2 DEF IInv, RwLockHeld
  <2>6. MonitorHeld'
    BY <1>1, <2>1, <2>2 DEF IInv, MonitorHeld, At
  <2>7. Exclusion'
    BY <2>2, <2>3 DEF Exclusion
  <2> QED
    BY <2>2, <2>4, <2>5, <2>6, <2>7 DEF IInv
<1> QED
  BY <1>5, <1>6

(* A thread leaves and wakes sleepers of the wait sets.                    *)
LEMMA MoveAndWake ==
  ASSUME IInv, rw_policy = "writers", NEW t \in Thread, pc[t] = "inside",
         NEW W \in SUBSET (can_read \cup can_write),
         WakeAndGo(t, "done", W), UNCHANGED <<rw_policy, phase, kind>>
  PROVE  /\ Shape'
         /\ pc'[t] = "done" /\ \A u \in W : pc'[u] = "woken"
         /\ \A u \in Thread \ (W \cup {t}) : pc'[u] = pc[u]
         /\ \A u \in W : u \in Thread /\ pc[u] = "asleep"
         /\ Counted' = Counted \ {t}
         /\ Waiting' = Waiting
         /\ Inside' = Inside \ {t}
<1>1. \A u \in W : u \in Thread /\ pc[u] = "asleep"
  BY DEF IInv, MonitorHeld, At
<1>2. /\ pc' \in [Thread -> Place]
      /\ pc'[t] = "done" /\ \A u \in W : pc'[u] = "woken"
      /\ \A u \in Thread \ (W \cup {t}) : pc'[u] = pc[u]
  BY <1>1 DEF WakeAndGo, IInv, Shape, Place
<1>3. phase = "joining"
  BY DEF IInv, Shape
<1>4. Shape'
  BY <1>2, <1>3 DEF IInv, Shape
<1>5. Counted' = Counted \ {t}
  BY <1>1, <1>2 DEF Counted
<1>6. Waiting' = Waiting
  BY <1>1, <1>2 DEF Waiting, Announced
<1>7. Inside' = Inside \ {t}
  BY <1>1, <1>2 DEF Inside
<1> QED
  BY <1>1, <1>2, <1>4, <1>5, <1>6, <1>7

LEMMA InvReaderLeaves == \A t \in Thread : IInv /\ ReaderLeaves(t) => IInv'
<1> SUFFICES ASSUME NEW t \in Thread, IInv, ReaderLeaves(t) PROVE IInv'
  OBVIOUS
<1>1. /\ rw_policy = "writers" /\ kind[t] = "reader" /\ pc[t] = "inside"
      /\ read_count' = read_count - 1
      /\ UNCHANGED <<rw_policy, phase, kind, rw_lock, read_count_lock, waiting_writers,
                     active_writers, can_read>>
  BY DEF ReaderLeaves, At, rlvars
<1>2. PICK W \in SUBSET can_write : can_write' = can_write \ W
                                    /\ WakeAndGo(t, "done", W)
  BY DEF ReaderLeaves, Signal
<1>3. /\ Shape'
      /\ pc'[t] = "done" /\ \A u \in W : pc'[u] = "woken"
      /\ \A u \in Thread \ (W \cup {t}) : pc'[u] = pc[u]
      /\ \A u \in W : u \in Thread /\ pc[u] = "asleep"
      /\ Counted' = Counted \ {t} /\ Waiting' = Waiting
      /\ Inside' = Inside \ {t}
  BY <1>1, <1>2, MoveAndWake
<1>4. t \in Counted /\ t \in Inside
  BY <1>1 DEF Counted, Inside
<1>5. Counts'
  <2>1. Cardinality(Counted') = Cardinality(Counted) - 1
    BY <1>3, <1>4, CountedFinite, OneLess
  <2> QED
    BY <1>1, <1>3, <2>1 DEF IInv, Counts
<1>6. RwLockHeld'
  BY <1>1, <1>3 DEF IInv, RwLockHeld
<1>7. MonitorHeld'
  <2>1. can_read \cap W = {}
    BY <1>1, <1>2 DEF IInv, MonitorHeld, At
  <2> QED
    BY <1>1, <1>2, <1>3, <2>1 DEF IInv, MonitorHeld, At
<1>8. Exclusion'
  BY <1>1, <1>3 DEF IInv, Exclusion
<1> QED
  BY <1>3, <1>5, <1>6, <1>7, <1>8 DEF IInv

LEMMA InvWriterLeaves == \A t \in Thread : IInv /\ WriterLeaves(t) => IInv'
<1> SUFFICES ASSUME NEW t \in Thread, IInv, WriterLeaves(t) PROVE IInv'
  OBVIOUS
<1>1. /\ rw_policy = "writers" /\ kind[t] = "writer" /\ pc[t] = "inside"
      /\ active_writers' = 0
      /\ UNCHANGED <<rw_policy, phase, kind, read_count, rw_lock, read_count_lock,
                     waiting_writers>>
  BY DEF WriterLeaves, At, rlvars
<1>2. PICK W \in SUBSET (can_read \cup can_write) :
        /\ can_write' = can_write \ W /\ can_read' = can_read \ W
        /\ WakeAndGo(t, "done", W)
  BY DEF WriterLeaves, Signal, Broadcast
<1>3. /\ Shape'
      /\ pc'[t] = "done" /\ \A u \in W : pc'[u] = "woken"
      /\ \A u \in Thread \ (W \cup {t}) : pc'[u] = pc[u]
      /\ \A u \in W : u \in Thread /\ pc[u] = "asleep"
      /\ Counted' = Counted \ {t} /\ Waiting' = Waiting
      /\ Inside' = Inside \ {t}
  BY <1>1, <1>2, MoveAndWake
<1>4. t \notin Counted /\ Inside = {t}
  BY <1>1 DEF Counted, Inside, IInv, Exclusion
<1>5. Counted' = Counted /\ Inside' = {}
  BY <1>3, <1>4
<1>6. Counts'
  BY <1>1, <1>3, <1>5 DEF IInv, Counts
<1>7. RwLockHeld'
  BY <1>1, <1>3 DEF IInv, RwLockHeld
<1>8. MonitorHeld'
  <2>1. \A u \in Thread : ~At(u, "writer", "inside")'
    BY <1>5 DEF Inside, At
  <2> QED
    BY <1>1, <1>2, <1>3, <2>1 DEF IInv, MonitorHeld, At
<1>9. Exclusion'
  BY <1>5 DEF Exclusion
<1> QED
  BY <1>3, <1>6, <1>7, <1>8, <1>9 DEF IInv

LEMMA InvSpurious == \A t \in Thread : IInv /\ Spurious(t) => IInv'
<1> SUFFICES ASSUME NEW t \in Thread, IInv, Spurious(t) PROVE IInv'
  OBVIOUS
<1>1. /\ pc[t] = "asleep" /\ Goto(t, "woken")
      /\ can_read' = can_read \ {t} /\ can_write' = can_write \ {t}
      /\ UNCHANGED <<rw_policy, phase, kind, read_count, rw_lock, read_count_lock,
                     waiting_writers, active_writers>>
  BY DEF Spurious, rlvars
<1>2. /\ Shape'
      /\ pc'[t] = "woken" /\ \A u \in Thread \ {t} : pc'[u] = pc[u]
      /\ Counted' = Counted \ {t}
      /\ Waiting' = IF kind[t] = "writer" THEN Waiting \cup {t}
                                          ELSE Waiting \ {t}
      /\ Inside' = Inside \ {t}
  BY <1>1, MoveOne DEF Place
<1>3. Counted' = Counted /\ Waiting' = Waiting /\ Inside' = Inside
  BY <1>1, <1>2 DEF Counted, Waiting, Announced, Inside
<1>4. Counts'
  BY <1>1, <1>3 DEF IInv, Counts
<1>5. rw_policy = "writers"
  BY <1>1 DEF IInv, MonitorHeld
<1>6. RwLockHeld'
  BY <1>1, <1>2, <1>5 DEF IInv, RwLockHeld
<1>7. MonitorHeld'
  BY <1>1, <1>2, <1>5 DEF IInv, MonitorHeld, At
<1>8. Exclusion'
  BY <1>1, <1>3 DEF IInv, Exclusion
<1> QED
  BY <1>2, <1>4, <1>6, <1>7, <1>8 DEF IInv

-----------------------------------------------------------------------------
LEMMA InvNext == IInv /\ [Next]_flvars => IInv'
<1> SUFFICES ASSUME IInv, [Next]_flvars PROVE IInv'
  OBVIOUS
<1>1. CASE Begin
  BY <1>1, InvBegin
<1>2. CASE JoinAll \/ UNCHANGED flvars
  BY <1>2, InvStill
<1>3. ASSUME NEW t \in Thread, ThreadStep(t) PROVE IInv'
  BY <1>3, InvPass, InvCountIn, InvTakeForReaders, InvCountOut, InvTake,
     InvDrop, InvReaderTests, InvReaderLeaves, InvWriterTests, InvWriterLeaves
     DEF ThreadStep
<1>4. ASSUME NEW t \in Thread, Spurious(t) PROVE IInv'
  BY <1>4, InvSpurious
<1> QED
  BY <1>1, <1>2, <1>3, <1>4 DEF Next

(* The invariant holds of every reachable state.                           *)
THEOREM Invariance == Safety => []IInv
BY InvInit, InvNext, PTL DEF Safety

(* TypeOK holds for any number of threads and either policy.               *)
THEOREM TypeCorrect == Safety => []TypeOK
BY Invariance, InvImpliesTypeOK, PTL

(* main.c:111-187: a writer is alone in its critical section, under either *)
(* locking policy and for a batch of any size.                             *)
THEOREM ExclusionHolds == Safety => []Exclusion
<1>1. IInv => Exclusion
  BY DEF IInv
<1> QED
  BY <1>1, Invariance, PTL

(* main.c:316-318: what is joined leaves an idle lock to the next batch.   *)
THEOREM IdleBetweenBatchesHolds == Safety => []IdleBetweenBatches
<1>1. IInv => IdleBetweenBatches
  <2> SUFFICES ASSUME IInv, phase = "collecting" PROVE IdleBetweenBatches
    BY DEF IdleBetweenBatches
  <2>1. \A t \in Thread : pc[t] = "done"
    BY DEF IInv, Shape
  <2>2. Counted = {} /\ Waiting = {} /\ Inside = {}
    BY <2>1 DEF Counted, Waiting, Announced, Inside
  <2>3. read_count = 0 /\ waiting_writers = 0
    BY <2>2, FS_EmptySet DEF IInv, Counts
  <2>4. ~rw_lock /\ read_count_lock = NoThread
    BY <2>1, <2>2 DEF IInv, RwLockHeld
  <2>5. active_writers = 0 /\ can_read = {} /\ can_write = {}
    BY <2>1 DEF IInv, MonitorHeld, At
  <2> QED
    BY <2>3, <2>4, <2>5 DEF IdleBetweenBatches
<1> QED
  BY <1>1, Invariance, PTL

(* main.c:116-121: no reader blocks on rw_lock while another one reads.    *)
THEOREM ReadersJoinReadersHolds == Safety => []ReadersJoinReaders
<1>1. IInv => ReadersJoinReaders
  BY DEF IInv, RwLockHeld, ReadersJoinReaders, At, Counted
<1> QED
  BY <1>1, Invariance, PTL

(* main.c:124: no step takes a reader inside past an announced writer.     *)
LEMMA NoOvertakingStep ==
  ASSUME IInv, [Next]_flvars, NEW r \in Thread, NEW w \in Thread,
         Announced(w), kind[r] = "reader", pc[r] # "inside"
  PROVE  pc'[r] # "inside"
<1> SUFFICES ASSUME pc'[r] = "inside" PROVE FALSE
  OBVIOUS
<1>1. rw_policy = "writers"
  BY DEF Announced, IInv, MonitorHeld
<1>2. waiting_writers > 0
  <2>1. Waiting # {} /\ waiting_writers = Cardinality(Waiting)
    BY DEF Waiting, IInv, Counts
  <2> QED
    BY <2>1, CountedFinite
<1>3. pc \in [Thread -> Place]
  BY DEF IInv, Shape
<1>4. CASE Begin
  BY <1>4 DEF Begin
<1>5. CASE JoinAll \/ UNCHANGED flvars
  BY <1>5 DEF JoinAll, flvars
<1>6. ASSUME NEW t \in Thread, ThreadStep(t) PROVE FALSE
  <2>1. CASE ReaderTests(t)
    <3>1. ReadersMustWait
      BY <1>2 DEF ReadersMustWait
    <3> QED
      BY <1>3, <2>1, <3>1 DEF ReaderTests, Goto
  <2>2. CASE WriterTests(t)
    <3>1. t # r
      BY <2>2 DEF WriterTests, At
    <3> QED
      BY <1>3, <2>2, <3>1 DEF WriterTests, Goto
  <2>3. CASE ReaderLeaves(t) \/ WriterLeaves(t)
    BY <2>3 DEF ReaderLeaves, WriterLeaves, WakeAndGo
  <2> QED
    BY <1>1, <1>6, <2>1, <2>2, <2>3
    DEF ThreadStep, Pass, CountIn, TakeForReaders, CountOut, Take, Drop
<1>7. ASSUME NEW t \in Thread, Spurious(t) PROVE FALSE
  BY <1>3, <1>7 DEF Spurious, Goto
<1> QED
  BY <1>4, <1>5, <1>6, <1>7 DEF Next

(* "for writers priority": once a writer has announced itself, readers wait*)
(* until it has had its turn.                                              *)
THEOREM NoReaderOvertakesHolds == Safety => NoReaderOvertakes
<1>1. IInv /\ [Next]_flvars =>
        [\A r, w \in Thread :
           Announced(w) /\ kind[r] = "reader" /\ pc[r] # "inside"
             => pc'[r] # "inside"]_flvars
  BY NoOvertakingStep
<1> QED
  BY <1>1, Invariance, PTL DEF Safety, NoReaderOvertakes

-----------------------------------------------------------------------------
(* Under writers' priority every sleeper is in the wait set of its kind,   *)
(* and somebody is to wake it: for a writer whoever is inside, or the one  *)
(* signalled before it; for a reader the writer it made way for.           *)
Expected ==
  /\ \A t \in Thread : pc[t] = "asleep" => t \in can_read \cup can_write
  /\ \A t \in Thread : At(t, "writer", "asleep") =>
       \E u \in Thread : pc[u] = "inside" \/ At(u, "writer", "woken")
  /\ \A t \in Thread : At(t, "reader", "asleep") =>
       \E u \in Thread : At(u, "writer", "inside") \/ Announced(u)

(* Where nobody sleeps, nobody has to be awakened.                         *)
LEMMA NobodyAsleep ==
  (\A t \in Thread : pc[t] # "asleep") => Expected
BY DEF Expected, At

LEMMA ExpectedTests ==
  ASSUME IInv, IInv', Expected, NEW t \in Thread,
         ReaderTests(t) \/ WriterTests(t)
  PROVE  Expected'
<1> USE DEF At
<1>1. /\ rw_policy = "writers" /\ UNCHANGED kind /\ kind \in [Thread -> Kind]
      /\ pc[t] \in {"start", "woken"} /\ pc \in [Thread -> Place]
  BY DEF ReaderTests, WriterTests, IInv, Shape
<1>2. CASE ReaderTests(t) /\ ReadersMustWait
  <2>1. /\ can_read' = can_read \cup {t} /\ can_write' = can_write
        /\ Goto(t, "asleep") /\ kind[t] = "reader"
    BY <1>2 DEF ReaderTests
  <2>2. pc'[t] = "asleep" /\ \A u \in Thread \ {t} : pc'[u] = pc[u]
    BY <1>1, <2>1 DEF Goto
  <2>3. \E u \in Thread : At(u, "writer", "inside") \/ Announced(u)
    <3>1. CASE waiting_writers > 0
      <4>1. Waiting # {}
        BY <3>1, FS_EmptySet DEF IInv, Counts
      <4> QED
        BY <4>1 DEF Waiting
    <3>2. CASE active_writers > 0
      BY <1>1, <3>2 DEF IInv, MonitorHeld
    <3> QED
      BY <1>2, <3>1, <3>2 DEF ReadersMustWait
  <2>4. \E u \in Thread : (At(u, "writer", "inside") \/ Announced(u))'
    BY <1>1, <2>1, <2>2, <2>3 DEF Announced
  <2>5. \A u \in Thread : pc'[u] = "asleep" => u \in can_read' \cup can_write'
    BY <2>1, <2>2 DEF Expected
  <2>6. \A u \in Thread : At(u, "writer", "asleep")' =>
          \E v \in Thread : pc'[v] = "inside" \/ At(v, "writer", "woken")'
    BY <1>1, <2>1, <2>2 DEF Expected
  <2> QED
    BY <2>4, <2>5, <2>6 DEF Expected
<1>3. CASE WriterTests(t) /\ WritersMustWait
  <2>1. /\ can_write' = can_write \cup {t} /\ can_read' = can_read
        /\ Goto(t, "asleep") /\ kind[t] = "writer"
    BY <1>3 DEF WriterTests
  <2>2. pc'[t] = "asleep" /\ \A u \in Thread \ {t} : pc'[u] = pc[u]
    BY <1>1, <2>1 DEF Goto
  <2>3. \E u \in Thread : pc[u] = "inside"
    <3>1. CASE read_count > 0
      <4>1. Counted # {}
        BY <1>1, <3>1, FS_EmptySet DEF IInv, Counts
      <4> QED
        BY <1>1, <4>1 DEF Counted, IInv, RwLockHeld
    <3>2. CASE active_writers > 0
      BY <1>1, <3>2 DEF IInv, MonitorHeld
    <3> QED
      BY <1>3, <3>1, <3>2 DEF WritersMustWait
  <2>4. \E u \in Thread : pc'[u] = "inside"
    BY <1>1, <2>2, <2>3
  <2>5. Announced(t)'
    BY <1>1, <2>1, <2>2 DEF Announced
  <2>6. \A u \in Thread : pc'[u] = "asleep" => u \in can_read' \cup can_write'
    BY <2>1, <2>2 DEF Expected
  <2> QED
    BY <2>4, <2>5, <2>6 DEF Expected
<1>4. CASE ReaderTests(t) /\ ~ReadersMustWait
  <2>1. \A u \in Thread : ~At(u, "writer", "inside") /\ ~Announced(u)
    <3>1. waiting_writers = 0 /\ active_writers = 0
      BY <1>1, <1>4, CountedFinite
         DEF ReadersMustWait, IInv, Counts, MonitorHeld
    <3>2. Waiting = {}
      BY <3>1, CountedFinite DEF IInv, Counts
    <3> QED
      BY <1>1, <3>1, <3>2 DEF Waiting, IInv, MonitorHeld
  <2>2. \A u \in Thread : pc[u] # "asleep"
    BY <1>1, <2>1 DEF Expected, Announced, Kind
  <2>3. Goto(t, "inside")
    BY <1>4 DEF ReaderTests
  <2>4. \A u \in Thread : pc'[u] # "asleep"
    BY <1>1, <2>2, <2>3 DEF Goto
  <2> QED
    BY <2>4 DEF Expected
<1>5. CASE WriterTests(t) /\ ~WritersMustWait
  <2>1. Goto(t, "inside") /\ UNCHANGED <<can_read, can_write>> /\ kind[t] = "writer"
    BY <1>5 DEF WriterTests
  <2>2. pc'[t] = "inside" /\ \A u \in Thread \ {t} : pc'[u] = pc[u]
    BY <1>1, <2>1 DEF Goto
  <2>3. At(t, "writer", "inside")'
    BY <1>1, <2>1, <2>2
  <2>4. \A u \in Thread : pc'[u] = "asleep" => u \in can_read' \cup can_write'
    BY <2>1, <2>2 DEF Expected
  <2> QED
    BY <2>3, <2>4 DEF Expected
<1> QED
  BY <1>2, <1>3, <1>4, <1>5

LEMMA ExpectedReaderLeaves ==
  ASSUME IInv, IInv', Expected, NEW t \in Thread, ReaderLeaves(t)
  PROVE  Expected'
<1> USE DEF At
<1>1. /\ rw_policy = "writers" /\ kind[t] = "reader" /\ pc[t] = "inside"
      /\ read_count' = read_count - 1
      /\ UNCHANGED <<rw_policy, phase, kind, waiting_writers, can_read>>
  BY DEF ReaderLeaves, rlvars
<1>2. PICK W \in IF IsLast(read_count') /\ waiting_writers > 0
                 THEN Signal(can_write) ELSE {{}} :
        can_write' = can_write \ W /\ WakeAndGo(t, "done", W)
  BY DEF ReaderLeaves
<1>3. W \subseteq can_write
  BY <1>2 DEF Signal
<1>4. /\ pc'[t] = "done" /\ \A u \in W : pc'[u] = "woken"
      /\ \A u \in Thread \ (W \cup {t}) : pc'[u] = pc[u]
      /\ \A u \in W : u \in Thread /\ pc[u] = "asleep"
      /\ Waiting' = Waiting
  BY <1>1, <1>2, <1>3, MoveAndWake
<1>5. \A u \in Thread : pc'[u] = "asleep" => u \in can_read' \cup can_write'
  BY <1>1, <1>2, <1>4 DEF Expected
<1>6. ASSUME NEW u \in Thread, At(u, "writer", "asleep")'
      PROVE  \E v \in Thread : (pc[v] = "inside" \/ At(v, "writer", "woken"))'
  <2>1. CASE Counted' # {}
    BY <1>1, <2>1 DEF Counted, IInv, RwLockHeld
  <2>2. CASE Counted' = {}
    <3>1. read_count' = 0
      BY <1>1, <2>2, FS_EmptySet DEF IInv, Counts
    <3>2. u \in Waiting'
      BY <1>6 DEF Waiting, Announced
    <3>3. waiting_writers > 0
      BY <1>4, <3>2, CountedFinite DEF IInv, Counts
    <3>4. W \in Signal(can_write)
      BY <1>2, <3>1, <3>3 DEF IsLast
    <3>5. u \in can_write'
      BY <1>1, <1>5, <1>6 DEF IInv, MonitorHeld
    <3>6. PICK v \in W : TRUE
      BY <1>2, <3>4, <3>5 DEF Signal
    <3>7. kind[v] = "writer" /\ v \in Thread
      BY <1>1, <1>3, <3>6 DEF IInv, MonitorHeld
    <3> QED
      BY <1>1, <1>4, <3>6, <3>7
  <2> QED
    BY <2>1, <2>2
<1>7. ASSUME NEW u \in Thread, At(u, "reader", "asleep")'
      PROVE  \E v \in Thread : (At(v, "writer", "inside") \/ Announced(v))'
  <2>1. u \notin W /\ u # t
    BY <1>4, <1>7
  <2>2. At(u, "reader", "asleep")
    BY <1>1, <1>4, <1>7, <2>1
  <2>3. PICK v \in Thread : At(v, "writer", "inside") \/ Announced(v)
    BY <2>2 DEF Expected
  <2>4. CASE Announced(v)
    BY <1>4, <2>4 DEF Waiting
  <2>5. CASE At(v, "writer", "inside")
    BY <1>1, <1>4, <2>5
  <2> QED
    BY <2>3, <2>4, <2>5
<1> QED
  BY <1>5, <1>6, <1>7 DEF Expected

LEMMA ExpectedWriterLeaves ==
  ASSUME IInv, IInv', Expected, NEW t \in Thread, WriterLeaves(t)
  PROVE  Expected'
<1> USE DEF At
<1>1. /\ rw_policy = "writers" /\ kind[t] = "writer" /\ pc[t] = "inside"
      /\ kind \in [Thread -> Kind]
      /\ UNCHANGED <<rw_policy, phase, kind, waiting_writers>>
  BY DEF WriterLeaves, rlvars, IInv, Shape
<1>2. PICK W \in IF waiting_writers > 0 THEN Signal(can_write)
                                        ELSE Broadcast(can_read) :
        /\ can_write' = can_write \ W /\ can_read' = can_read \ W
        /\ WakeAndGo(t, "done", W)
  BY DEF WriterLeaves
<1>3. W \subseteq can_read \cup can_write
  BY <1>2 DEF Signal, Broadcast
<1>4. /\ pc'[t] = "done" /\ \A u \in W : pc'[u] = "woken"
      /\ \A u \in Thread \ (W \cup {t}) : pc'[u] = pc[u]
      /\ \A u \in W : u \in Thread /\ pc[u] = "asleep"
      /\ Waiting' = Waiting
  BY <1>1, <1>2, <1>3, MoveAndWake
<1>5. \A u \in Thread : pc'[u] = "asleep" => u \in can_read' \cup can_write'
  BY <1>2, <1>4 DEF Expected
<1>6. ASSUME NEW u \in Thread, At(u, "writer", "asleep")'
      PROVE  \E v \in Thread : (pc[v] = "inside" \/ At(v, "writer", "woken"))'
  <2>1. u \in Waiting'
    BY <1>6 DEF Waiting, Announced
  <2>2. waiting_writers > 0
    BY <1>4, <2>1, CountedFinite DEF IInv, Counts
  <2>3. W \in Signal(can_write)
    BY <1>2, <2>2
  <2>4. u \in can_write'
    BY <1>1, <1>5, <1>6 DEF IInv, MonitorHeld
  <2>5. PICK v \in W : v \in can_write
    BY <1>2, <2>3, <2>4 DEF Signal
  <2>6. kind[v] = "writer" /\ v \in Thread
    BY <1>1, <2>5 DEF IInv, MonitorHeld
  <2> QED
    BY <1>1, <1>4, <2>5, <2>6
<1>7. ASSUME NEW u \in Thread, At(u, "reader", "asleep")'
      PROVE  \E v \in Thread : (At(v, "writer", "inside") \/ Announced(v))'
  <2>1. waiting_writers > 0
    <3> SUFFICES ASSUME ~(waiting_writers > 0) PROVE FALSE
      OBVIOUS
    <3>1. W = can_read
      BY <1>2 DEF Broadcast
    <3>2. u \in can_read'
      BY <1>1, <1>5, <1>7 DEF IInv, MonitorHeld
    <3> QED
      BY <1>2, <3>1, <3>2
  <2>2. Waiting' # {}
    BY <1>4, <2>1, FS_EmptySet DEF IInv, Counts
  <2> QED
    BY <2>2 DEF Waiting
<1> QED
  BY <1>5, <1>6, <1>7 DEF Expected

LEMMA ExpectedNext == IInv /\ IInv' /\ Expected /\ [Next]_flvars => Expected'
<1> SUFFICES ASSUME IInv, IInv', Expected, [Next]_flvars PROVE Expected'
  OBVIOUS
<1>1. CASE Begin
  BY <1>1 DEF Begin, Expected, At
<1>2. CASE JoinAll \/ UNCHANGED flvars
  BY <1>2 DEF JoinAll, flvars, wlvars, Expected, At, Announced
<1>3. ASSUME NEW t \in Thread, ThreadStep(t) PROVE Expected'
  <2>1. CASE rw_policy = "writers"
    BY <1>3, <2>1, ExpectedTests, ExpectedReaderLeaves, ExpectedWriterLeaves
       DEF ThreadStep, Pass, CountIn, TakeForReaders, CountOut, Take, Drop
  <2>2. CASE rw_policy # "writers"
    <3>1. rw_policy' # "writers"
      BY <1>3, <2>2 DEF ThreadStep, Pass, CountIn, TakeForReaders, CountOut,
         Take, Drop, ReaderTests, ReaderLeaves, WriterTests, WriterLeaves
    <3>2. \A u \in Thread : pc'[u] # "asleep"
      BY <3>1 DEF IInv, MonitorHeld
    <3> QED
      BY <3>2 DEF Expected, At
  <2> QED
    BY <2>1, <2>2
<1>4. ASSUME NEW t \in Thread, Spurious(t) PROVE Expected'
  <2>1. /\ pc[t] = "asleep" /\ UNCHANGED kind
        /\ can_read' = can_read \ {t} /\ can_write' = can_write \ {t}
        /\ pc'[t] = "woken" /\ \A u \in Thread \ {t} : pc'[u] = pc[u]
    BY <1>4 DEF Spurious, Goto, IInv, Shape
  <2>2. \A u \in Thread : /\ pc[u] = "inside" => pc'[u] = "inside"
                          /\ At(u, "writer", "woken") => At(u, "writer", "woken")'
                          /\ Announced(u) => Announced(u)'
    BY <2>1 DEF At, Announced
  <2> QED
    BY <2>1, <2>2 DEF Expected, At
<1> QED
  BY <1>1, <1>2, <1>3, <1>4 DEF Next

(* Who holds what another one waits for can go on.                         *)
LEMMA SomeoneGoesOn ==
  ASSUME IInv, Expected
  PROVE  NobodyStuck
<1> USE DEF At
<1> SUFFICES ASSUME NEW t \in Thread, pc[t] # "done",
                    \A u \in Thread : pc[u] # "done" => Blocked(u)
             PROVE  FALSE
  BY DEF NobodyStuck
<1>0. kind \in [Thread -> Kind] /\ pc \in [Thread -> Place]
  BY DEF IInv, Shape
<1>1. CASE rw_policy = "readers"
  <2>1. ASSUME NEW v \in Thread, pc[v] = "inside" PROVE FALSE
    <3>1. kind[v] = "reader" /\ read_count_lock # NoThread
      BY <2>1 DEF Blocked, WaitsForCount, WaitsForFile
    <3>2. PICK u \in Thread : pc[u] = "count"
      BY <1>1, <3>1 DEF IInv, RwLockHeld
    <3>3. Counted = {u} /\ v \in Counted
      BY <1>1, <2>1, <3>1, <3>2 DEF IInv, RwLockHeld, Counted
    <3> QED
      BY <2>1, <3>2, <3>3
  <2>2. ~rw_lock
    BY <1>1, <2>1 DEF IInv, RwLockHeld, Inside
  <2>3. \A u \in Thread : pc[u] # "asleep"
    BY <1>1 DEF IInv, MonitorHeld
  <2>4. \A u \in Thread : pc[u] # "done" => WaitsForCount(u)
    BY <2>2, <2>3 DEF Blocked, WaitsForFile
  <2>5. PICK u \in Thread : pc[u] = "count"
    BY <1>1, <2>4 DEF WaitsForCount, IInv, RwLockHeld
  <2> QED
    BY <2>4, <2>5 DEF WaitsForCount
<1>2. CASE rw_policy # "readers"
  <2>1. \A u \in Thread : pc[u] \in {"asleep", "done"}
    BY <1>2 DEF Blocked
  <2>2. \A u \in Thread : ~At(u, "writer", "asleep")
    BY <2>1 DEF Expected
  <2>3. At(t, "reader", "asleep")
    BY <1>0, <2>1, <2>2 DEF Kind
  <2>4. PICK u \in Thread : At(u, "writer", "inside") \/ Announced(u)
    BY <2>3 DEF Expected
  <2> QED
    BY <2>1, <2>2, <2>4 DEF Announced
<1> QED
  BY <1>1, <1>2

(* main.c:111-187: of the threads of a batch, however many, one can always *)
(* go on until all are done, under each policy.                            *)
THEOREM NobodyStuckHolds == Safety => []NobodyStuck
<1>1. Init => Expected
  BY DEF Init, Expected, At
<1>2. IInv /\ Expected => NobodyStuck
  BY SomeoneGoesOn
<1> QED
  BY <1>1, <1>2, ExpectedNext, Invariance, PTL DEF Safety

-----------------------------------------------------------------------------
(* One thread at most changes sides in a step, and a writer only when it   *)
(* is alone.                                                               *)
LEMMA StepRefines ==
  ASSUME IInv, IInv', [Next]_flvars
  PROVE  [RW!Next]_<<rw_policy # "simultaneous", kind, Inside>>
<1>1. CASE Begin
  <2>1. Inside = {} /\ Inside' = {}
    BY <1>1 DEF Begin, IInv, Shape, Inside
  <2> QED
    BY <1>1, <2>1 DEF Begin, RW!Next, RW!Begin, RW!Kind, Kind
<1>2. CASE JoinAll \/ UNCHANGED flvars
  BY <1>2 DEF JoinAll, flvars, Inside
<1>3. ASSUME NEW t \in Thread, ThreadStep(t)
      PROVE  [RW!Next]_<<rw_policy # "simultaneous", kind, Inside>>
  <2>1. UNCHANGED <<rw_policy, kind>>
    BY <1>3 DEF ThreadStep, Pass, CountIn, TakeForReaders, CountOut, Take,
                Drop, ReaderTests, ReaderLeaves, WriterTests, WriterLeaves
  <2>2. Inside' \in {Inside, Inside \cup {t}, Inside \ {t}}
    <3>1. ASSUME NEW place, Goto(t, place)
          PROVE  Inside' \in {Inside \cup {t}, Inside \ {t}}
      BY <3>1 DEF Goto, Inside, IInv, Shape
    <3>2. CASE ReaderLeaves(t) \/ WriterLeaves(t)
      <4>1. PICK W \in SUBSET (can_read \cup can_write) : WakeAndGo(t, "done", W)
        BY <3>2 DEF ReaderLeaves, WriterLeaves, Signal, Broadcast
      <4>2. /\ rw_policy = "writers" /\ pc[t] = "inside"
            /\ UNCHANGED <<rw_policy, phase, kind>>
        BY <3>2 DEF ReaderLeaves, WriterLeaves, At
      <4> QED
        BY <4>1, <4>2, MoveAndWake
    <3> QED
      BY <1>3, <3>1, <3>2 DEF ThreadStep, Pass, CountIn, TakeForReaders,
         CountOut, Take, Drop, ReaderTests, WriterTests
  <2>3. CASE t \notin Inside /\ Inside' = Inside \cup {t}
    <3>1. RW!Compatible(t, Inside)
      BY <2>1, <2>3 DEF RW!Compatible, IInv, Exclusion
    <3> QED
      BY <2>1, <2>3, <3>1 DEF RW!Next, RW!Enter
  <2>4. CASE t \in Inside /\ Inside' = Inside \ {t}
    BY <2>1, <2>4 DEF RW!Next, RW!Leave
  <2> QED
    BY <2>1, <2>2, <2>3, <2>4
<1>4. ASSUME NEW t \in Thread, Spurious(t)
      PROVE  [RW!Next]_<<rw_policy # "simultaneous", kind, Inside>>
  BY <1>4 DEF Spurious, Goto, Inside, IInv, Shape
<1> QED
  BY <1>1, <1>2, <1>3, <1>4 DEF Next

(* Either locking policy implements the readers-writers specification.     *)
THEOREM Implementation == Safety => ImplementsReadersWriters
<1>1. Init => RW!Init
  BY DEF Init, RW!Init, Inside, Kind, RW!Kind
<1>2. IInv /\ IInv' /\ [Next]_flvars => [RW!Next]_<<rw_policy # "simultaneous", kind, Inside>>
  BY StepRefines
<1> QED
  BY <1>1, <1>2, Invariance, PTL
     DEF Safety, ImplementsReadersWriters, RW!Spec
=============================================================================
