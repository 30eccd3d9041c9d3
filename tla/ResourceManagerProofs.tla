------------------------ MODULE ResourceManagerProofs ------------------------
(***************************************************************************)
(* The books of the resource manager, for any number of clients, files and *)
(* types: one entry per client, every file in one place, counters that     *)
(* agree with the lists, links that belong to a holder, and grants that    *)
(* are whole.  The invariant is the conjunction of what the runs check:    *)
(* each part needs the others in some step.                                *)
(***************************************************************************)
EXTENDS SafetyScan, FiniteSetTheorems, FunctionTheorems, LoopTheorems, TLAPS

(* What a step writes of the table is inside it.                           *)
InsideTable == status # "outgrown" => process_count <= MaxResources + 1

IInv ==
  /\ TypeOK
  /\ OneEntryPerPid
  /\ InsideTable
  /\ TableFitsPids
  /\ FilesInOnePlace
  /\ CountsMatchNames
  /\ LinksAreHeld

Entry == Process \cup {NULL}

(* What the handling of a request's vector leaves alone: S is the table    *)
(* with other needs in it.                                                 *)
SameBooks(S) ==
  /\ S \in [Slot -> Entry]
  /\ \A i \in Slot : S[i] = NULL <=> process_resources[i] = NULL
  /\ \A i \in Live(process_resources) :
       /\ S[i].pid = process_resources[i].pid
       /\ S[i].has = process_resources[i].has
       /\ S[i].names = process_resources[i].names

-----------------------------------------------------------------------------
LEMMA ZeroType == Zero \in [Type -> Nat]
BY DEF Zero

LEMMA AddNeedsType ==
  ASSUME NEW r \in Process, NEW wanted \in Wanted
  PROVE  /\ AddNeeds(r, wanted) \in Process
         /\ AddNeeds(r, wanted).pid = r.pid
         /\ AddNeeds(r, wanted).has = r.has
         /\ AddNeeds(r, wanted).names = r.names
<1>1. wanted \in [Type -> Nat] /\ r.needs \in [Type -> Nat]
  BY WantedAssumption DEF Process
<1> DEFINE n == [t \in Type |-> IF \E u \in 0 .. t - 1 : Exceeds(r, wanted, u)
                                THEN r.needs[t] ELSE r.needs[t] + wanted[t]]
<1>2. n \in [Type -> Nat]
  BY <1>1
<1>3. AddNeeds(r, wanted) = [r EXCEPT !.needs = n]
  BY DEF AddNeeds
<1> HIDE DEF n
<1> QED
  BY <1>2, <1>3 DEF Process

LEMMA AddedTable ==
  ASSUME IInv, NEW wanted \in Wanted, NEW i \in Live(process_resources),
         NEW S, S = [process_resources EXCEPT ![i] = AddNeeds(@, wanted)]
  PROVE  SameBooks(S)
<1>1. process_resources \in [Slot -> Entry]
  BY DEF IInv, TypeOK, Entry
<1>2. i \in Slot /\ process_resources[i] \in Process
  BY <1>1 DEF Live, Entry
<1> DEFINE r == AddNeeds(process_resources[i], wanted)
<1>3. /\ r \in Process /\ r.pid = process_resources[i].pid
      /\ r.has = process_resources[i].has
      /\ r.names = process_resources[i].names
  BY <1>2, AddNeedsType
<1>4. S = [process_resources EXCEPT ![i] = r]
  OBVIOUS
<1> HIDE DEF r
<1>5. S \in [Slot -> Entry] /\ S[i] = r
      /\ \A k \in Slot \ {i} : S[k] = process_resources[k]
  BY <1>1, <1>2, <1>3, <1>4 DEF Entry
<1>6. r # NULL /\ process_resources[i] # NULL
  BY <1>2, <1>3, NullAssumption
<1> QED
  BY <1>3, <1>5, <1>6 DEF SameBooks, Live

LEMMA RequestedTable ==
  ASSUME IInv, NEW q \in Asker, NEW wanted \in Wanted,
         NEW S \in Requested(q, wanted)
  PROVE  SameBooks(S)
<1>1. PICK i \in Slot : /\ IsIndexOf(q, i)
                        /\ S = [process_resources EXCEPT ![i] = AddNeeds(@, wanted)]
  BY DEF Requested
<1>2. i \in Live(process_resources)
  BY <1>1 DEF IsIndexOf
<1> QED
  BY <1>1, <1>2, AddedTable

LEMMA HeardChanges ==
  ASSUME IInv, NEW p \in Pid, NEW q \in Asker, NEW code \in Code, Hears(p, q, code)
  PROVE  /\ heard' \in [Pid -> Code]
         /\ heard'[p] \in {code, "INCORRECT_NUMBER_OF_RESOURCES"}
         /\ q = p => heard'[p] = code
         /\ \A o \in Pid \ {p} : heard'[o] = heard[o]
<1>1. PICK h \in {code, "INCORRECT_NUMBER_OF_RESOURCES"} :
        /\ heard' = [heard EXCEPT ![p] = h]
        /\ q = p => h = code
  BY DEF Hears
<1>2. heard \in [Pid -> Code] /\ h \in Code
  BY <1>1 DEF IInv, TypeOK, Code
<1>3. heard' \in [Pid -> Code]
  BY <1>1, <1>2
<1>4. heard'[p] = h
  BY <1>1, <1>2
<1>5. \A o \in Pid \ {p} : heard'[o] = heard[o]
  BY <1>1, <1>2
<1> QED
  BY <1>1, <1>3, <1>4, <1>5

(* No answer to a request makes a client a former one.                     *)
LEMMA RequestHeard ==
  ASSUME IInv, NEW p \in Pid, NEW q \in Asker, MayAsk(p),
         NEW code \in Code \ {"finalized"}, Hears(p, q, code)
  PROVE  /\ heard' \in [Pid -> Code]
         /\ heard'[p] # "finalized"
         /\ \A o \in Pid \ {p} : heard'[o] = heard[o]
         /\ \A o \in Pid : heard'[o] = "finalized" <=> heard[o] = "finalized"
         /\ status = "running"
<1>1. heard[p] # "finalized" /\ status = "running"
  BY DEF MayAsk
<1>2. /\ heard' \in [Pid -> Code]
      /\ heard'[p] \in {code, "INCORRECT_NUMBER_OF_RESOURCES"}
      /\ \A o \in Pid \ {p} : heard'[o] = heard[o]
  BY HeardChanges
<1> QED
  BY <1>1, <1>2

(* One that is sent nothing may have been refused before.                  *)
LEMMA LastHeard ==
  ASSUME IInv, NEW p \in Pid, MayAsk(p)
  PROVE  heard[p] \in Code \ {"finalized"}
BY DEF IInv, TypeOK, MayAsk

LEMMA AnswerHears ==
  ASSUME NEW p \in Pid, NEW q \in Asker, NEW code, Answer(p, q, code),
         status = "running"
  PROVE  Hears(p, q, code) /\ status' \in {"running", "crashed"}
BY DEF Answer

(* A step that only changes needs keeps the books.                         *)
LEMMA InvSameBooks ==
  ASSUME IInv, SameBooks(process_resources'),
         UNCHANGED <<pool_has, pool_names, process_count,
                     active_process_count, links, leftover>>,
         heard' \in [Pid -> Code],
         status = "running", status' \in {"running", "crashed"},
         \A p \in Pid : heard'[p] = "finalized" <=> heard[p] = "finalized"
  PROVE  IInv'
<1>1. Live(process_resources') = Live(process_resources)
  BY DEF SameBooks, Live
<1>2. TypeOK'
  BY DEF IInv, TypeOK, SameBooks, Entry
<1>3. \A i \in Live(process_resources) :
        /\ process_resources'[i].pid = process_resources[i].pid
        /\ process_resources'[i].has = process_resources[i].has
        /\ process_resources'[i].names = process_resources[i].names
        /\ process_resources[i].pid \in Asker
  BY DEF SameBooks, Live, IInv, TypeOK, Process
<1>4. OneEntryPerPid'
  BY <1>1, <1>3 DEF IInv, OneEntryPerPid
<1>5. TableFitsPids' /\ InsideTable'
  BY DEF IInv, TableFitsPids, InsideTable
<1>6. FilesInOnePlace'
  BY <1>1, <1>3 DEF IInv, FilesInOnePlace
<1>7. CountsMatchNames'
  BY <1>1, <1>3 DEF IInv, CountsMatchNames
<1>8. LinksAreHeld'
  BY <1>1, <1>3 DEF IInv, LinksAreHeld
<1> QED
  BY <1>2, <1>4, <1>5, <1>6, <1>7, <1>8 DEF IInv

LEMMA LiveFinite ==
  ASSUME NEW S
  PROVE  IsFiniteSet(Live(S)) /\ Cardinality(Live(S)) \in Nat
<1>1. IsFiniteSet(Slot)
  BY FS_Interval, SizeAssumption DEF Slot
<1>2. Live(S) \in SUBSET Slot
  BY DEF Live
<1> QED
  BY <1>1, <1>2, FS_Subset, FS_CardinalityType

LEMMA FilesFinite ==
  ASSUME NEW F \in SUBSET File
  PROVE  IsFiniteSet(F) /\ Cardinality(F) \in Nat
BY FileAssumption, FS_Subset, FS_CardinalityType

-----------------------------------------------------------------------------
LEMMA InvInit == Init => IInv
<1> SUFFICES ASSUME Init PROVE IInv
  OBVIOUS
<1>1. Live(process_resources) = {}
  BY DEF Init, Live
<1>2. Cardinality(File) \in Nat
  BY FilesFinite
<1>3. TypeOK
  BY <1>2, LinkAssumption DEF Init, TypeOK, Code
<1>4. CountsMatchNames
  BY <1>1, FS_EmptySet DEF Init, CountsMatchNames
<1>5. OneEntryPerPid /\ FilesInOnePlace
  BY <1>1 DEF OneEntryPerPid, FilesInOnePlace
<1>6. TableFitsPids /\ InsideTable
  BY SizeAssumption, PidAssumption, FS_CardinalityType
     DEF Init, TableFitsPids, InsideTable
<1>7. LinksAreHeld
  BY DEF Init, LinksAreHeld
<1> QED
  BY <1>3, <1>4, <1>5, <1>6, <1>7 DEF IInv

LEMMA InvExceedMaximum ==
  ASSUME IInv, NEW p \in Pid, NEW q \in Asker, NEW wanted \in Wanted,
         ExceedMaximum(p, q, wanted)
  PROVE  IInv'
<1>1. PICK i \in Live(process_resources) :
        process_resources' = [process_resources EXCEPT ![i] = AddNeeds(@, wanted)]
  BY DEF ExceedMaximum, IsIndexOf
<1>2. SameBooks(process_resources')
  BY <1>1, AddedTable
<1>3. /\ MayAsk(p) /\ Answer(p, q, "RESOURCE_LIMIT_EXCEEDED")
      /\ UNCHANGED <<pool_has, pool_names, process_count,
                     active_process_count, links, leftover>>
  BY DEF ExceedMaximum
<1>4. /\ status = "running" /\ status' \in {"running", "crashed"}
      /\ Hears(p, q, "RESOURCE_LIMIT_EXCEEDED")
  BY <1>3, AnswerHears DEF MayAsk
<1>5. /\ heard' \in [Pid -> Code]
      /\ \A o \in Pid : heard'[o] = "finalized" <=> heard[o] = "finalized"
  BY <1>3, <1>4, RequestHeard DEF Code
<1> QED
  BY <1>2, <1>3, <1>4, <1>5, InvSameBooks

LEMMA InvRefuse ==
  ASSUME IInv, NEW p \in Pid, NEW q \in Asker, NEW wanted \in Wanted,
         Refuse(p, q, wanted)
  PROVE  IInv'
<1>1. SameBooks(process_resources')
  BY RequestedTable DEF Refuse
<1>2. /\ MayAsk(p) /\ Answer(p, q, "DEADLOCK")
      /\ UNCHANGED <<pool_has, pool_names, process_count,
                     active_process_count, links, leftover>>
  BY DEF Refuse
<1>3. /\ status = "running" /\ status' \in {"running", "crashed"}
      /\ Hears(p, q, "DEADLOCK")
  BY <1>2, AnswerHears DEF MayAsk
<1>4. /\ heard' \in [Pid -> Code]
      /\ \A o \in Pid : heard'[o] = "finalized" <=> heard[o] = "finalized"
  BY <1>2, <1>3, RequestHeard DEF Code
<1> QED
  BY <1>1, <1>2, <1>3, <1>4, InvSameBooks

LEMMA InvCrash ==
  ASSUME IInv, NEW p \in Pid, NEW q \in Asker, NEW wanted \in Wanted,
         NoTarget(p, q, wanted) \/ Overrun(p, q, wanted)
  PROVE  IInv'
<1>1. SameBooks(process_resources')
  BY RequestedTable DEF NoTarget, Overrun
<1>2. /\ MayAsk(p) /\ Hears(p, q, heard[p]) /\ status = "running"
      /\ status' \in {"running", "crashed"}
      /\ UNCHANGED <<pool_has, pool_names, process_count,
                     active_process_count, links, leftover>>
  BY DEF NoTarget, Overrun, MayAsk
<1>3. /\ heard' \in [Pid -> Code]
      /\ \A o \in Pid : heard'[o] = "finalized" <=> heard[o] = "finalized"
  BY <1>2, LastHeard, RequestHeard
<1> QED
  BY <1>1, <1>2, <1>3, InvSameBooks

-----------------------------------------------------------------------------
(* Without a hole every entry below the first index never used is in use,  *)
(* and they belong to different processes: there are no more of them than  *)
(* pids, and one more pid finds room below that number.                    *)
LEMMA RoomForOneMore ==
  ASSUME IInv, NEW q \in Asker, ~Registered(q), NoHole, status # "outgrown"
  PROVE  /\ process_count <= Cardinality(Asker)
         /\ Cardinality(Owners) = process_count - 1
         /\ Cardinality(Asker) \in Nat
<1> DEFINE I == 1 .. process_count - 1
           f == [k \in I |-> process_resources[k].pid]
<1>1. process_count \in Nat \ {0} /\ process_count <= MaxResources + 1
  BY DEF IInv, TypeOK, InsideTable
<1>2. \A k \in I : k \in Live(process_resources) /\ k < process_count
  BY <1>1, SizeAssumption DEF NoHole, Hole, Live, Slot
<1>3. \A k \in Live(process_resources) :
        /\ process_resources[k].pid \in Asker
        /\ k \in Slot /\ k < process_count
  BY DEF Live, IInv, TypeOK, Process, OneEntryPerPid
<1>4. \A k \in I : f[k] \in Asker \ {q}
  BY <1>2, <1>3 DEF Registered, IsIndexOf
<1>5. \A k, l \in I : f[k] = f[l] => k = l
  BY <1>2 DEF IInv, OneEntryPerPid
<1>6. f \in Injection(I, Asker \ {q})
  BY <1>4, <1>5 DEF Injection, IsInjective
<1>7. /\ IsFiniteSet(Asker \ {q})
      /\ Cardinality(Asker \ {q}) = Cardinality(Asker) - 1
      /\ Cardinality(Asker) \in Nat
  BY PidAssumption, FS_RemoveElement, FS_CardinalityType
<1>8. Cardinality(I) <= Cardinality(Asker) - 1
  <2> HIDE DEF f, I
  <2> QED
    BY <1>6, <1>7, FS_Injection
<1>9. IsFiniteSet(I) /\ Cardinality(I) = process_count - 1
  <2>1. process_count - 1 \in Int /\ 1 \in Int
    BY <1>1
  <2>2. /\ IsFiniteSet(I)
        /\ Cardinality(I) = IF 1 > process_count - 1 THEN 0
                            ELSE process_count - 1 - 1 + 1
    BY <2>1, FS_Interval
  <2> QED
    BY <1>1, <2>2
<1>10. \A k \in Live(process_resources) : k \in I
  BY <1>1, <1>3, SizeAssumption DEF Slot
<1>11. Cardinality(Owners) = Cardinality(I)
  <2>1. \A o \in Owners : \E k \in I : f[k] = o
    BY <1>10 DEF Owners
  <2>2. \A k \in I : f[k] \in Owners
    BY <1>2 DEF Owners
  <2>3. f \in Surjection(I, Owners) /\ f \in Injection(I, Owners)
    BY <1>5, <2>1, <2>2 DEF Surjection, Injection, IsInjective
  <2> HIDE DEF f, I
  <2> QED
    BY <1>9, <2>3, FS_Surjection
<1> HIDE DEF I, f
<1> QED
  BY <1>1, <1>7, <1>8, <1>9, <1>11

LEMMA InvOutgrow ==
  ASSUME IInv, NEW p \in Pid, NEW q \in Asker, NEW wanted \in Wanted,
         Outgrow(p, q, wanted)
  PROVE  IInv'
<1>1. /\ MayAsk(p) /\ ~Registered(q) /\ NoHole
      /\ process_count > MaxResources /\ process_count' = process_count + 1
      /\ status' = "outgrown" /\ Hears(p, q, heard[p])
      /\ UNCHANGED <<pool_has, pool_names, process_resources,
                     active_process_count, links, leftover>>
  BY DEF Outgrow
<1>2. /\ heard' \in [Pid -> Code] /\ status = "running"
      /\ \A o \in Pid : heard'[o] = "finalized" <=> heard[o] = "finalized"
  BY <1>1, LastHeard, RequestHeard
<1>3. process_count \in Nat \ {0} /\ process_count <= MaxResources + 1
  BY <1>2 DEF IInv, TypeOK, InsideTable
<1>4. Live(process_resources)' = Live(process_resources)
  BY <1>1 DEF Live
<1>5. TypeOK'
  BY <1>1, <1>2, <1>3 DEF IInv, TypeOK
<1>6. OneEntryPerPid'
  <2>1. \A i \in Live(process_resources) :
          /\ i < process_count /\ i \in Slot
          /\ \A o \in Pid : process_resources[i].pid = o => heard[o] # "finalized"
    BY DEF IInv, OneEntryPerPid, Live
  <2>2. \A i \in Live(process_resources) : i < process_count'
    BY <1>1, <1>3, <2>1, SizeAssumption DEF Slot
  <2> QED
    BY <1>1, <1>2, <1>4, <2>1, <2>2 DEF IInv, OneEntryPerPid
<1>7. TableFitsPids' /\ InsideTable'
  <2>1. /\ process_count <= Cardinality(Asker) /\ Cardinality(Asker) \in Nat
        /\ Cardinality(Owners) = process_count - 1
    BY <1>1, <1>2, RoomForOneMore
  <2>2. Owners' = Owners
    BY <1>1, <1>4 DEF Owners
  <2>3. Cardinality(Owners') = MaxResources
    BY <1>1, <1>3, <2>1, <2>2, SizeAssumption
  <2> QED
    BY <1>1, <1>3, <2>1, <2>3 DEF TableFitsPids, InsideTable
<1>8. FilesInOnePlace' /\ CountsMatchNames' /\ LinksAreHeld'
  BY <1>1, <1>4 DEF IInv, FilesInOnePlace, CountsMatchNames, LinksAreHeld
<1> QED
  BY <1>5, <1>6, <1>7, <1>8 DEF IInv

LEMMA InvRegister ==
  ASSUME IInv, NEW p \in Pid, NEW q \in {p} \cup Stale, NEW wanted \in Wanted,
         Register(p, q, wanted)
  PROVE  IInv'
<1>a. q \in Asker /\ (q \in Pid => q = p)
  BY PidAssumption DEF Asker
<1> DEFINE r == NewProcess(q, wanted)
<1>1. /\ r \in Process /\ r # NULL /\ r.pid = q /\ r.has = Zero
      /\ \A t \in Type : r.names[t] = {}
  BY <1>a, WantedAssumption, ZeroType, NullAssumption DEF NewProcess, Process
<1> HIDE DEF r
<1>2. PICK i \in Slot :
        /\ IsFreeSlot(i)
        /\ process_resources' = [process_resources EXCEPT ![i] = r]
        /\ process_count' = IF i = process_count THEN process_count + 1
                                                 ELSE process_count
  BY DEF Register, r
<1>3. /\ ~Registered(q) /\ MayAsk(p)
      /\ active_process_count' = active_process_count + 1
      /\ Answer(p, q, "MAX_RESOURCE_NEED_REGISTERED")
      /\ UNCHANGED <<pool_has, pool_names, links, leftover>>
  BY DEF Register
<1>4. /\ process_count \in Nat \ {0} /\ process_count <= MaxResources + 1
      /\ process_resources \in [Slot -> Entry]
  BY <1>3 DEF IInv, TypeOK, InsideTable, MayAsk, Entry
<1>5. /\ status = "running" /\ status' \in {"running", "crashed"}
      /\ Hears(p, q, "MAX_RESOURCE_NEED_REGISTERED")
  BY <1>a, <1>3, AnswerHears DEF MayAsk
<1>6. i \notin Live(process_resources)
  <2>1. CASE i = process_count
    BY <1>4, <2>1 DEF IInv, OneEntryPerPid
  <2>2. CASE i # process_count
    BY <1>2, <2>2 DEF IsFreeSlot, Hole, Live
  <2> QED
    BY <2>1, <2>2
<1>7. /\ process_resources' \in [Slot -> Entry] /\ process_resources'[i] = r
      /\ \A k \in Slot \ {i} : process_resources'[k] = process_resources[k]
      /\ Live(process_resources') = Live(process_resources) \cup {i}
  BY <1>1, <1>2, <1>4 DEF Entry, Live
<1>8. /\ heard' \in [Pid -> Code] /\ heard'[p] # "finalized"
      /\ \A o \in Pid : heard'[o] = "finalized" <=> heard[o] = "finalized"
  BY <1>a, <1>3, <1>5, RequestHeard DEF Code
<1>9. \A k \in Live(process_resources) :
        /\ process_resources[k].pid \in Asker \ {q} /\ k < process_count
        /\ k \in Slot /\ k # i
  BY <1>3, <1>4, <1>6 DEF Registered, IsIndexOf, Live, Entry, Process, IInv,
                          OneEntryPerPid
<1>10. process_count' \in Nat \ {0} /\ process_count <= process_count'
       /\ i < process_count'
  BY <1>2, <1>4 DEF IsFreeSlot, Hole
<1>11. TypeOK'
  BY <1>3, <1>5, <1>7, <1>8, <1>10 DEF IInv, TypeOK, Entry
<1>12. OneEntryPerPid'
  <2>1. ASSUME NEW k \in Live(process_resources')
        PROVE  /\ k < process_count'
               /\ \A o \in Pid : process_resources'[k].pid = o
                                  => heard'[o] # "finalized"
    <3>1. CASE k = i
      BY <1>a, <1>1, <1>7, <1>8, <1>10, <3>1
    <3>2. CASE k # i
      <4>1. k \in Live(process_resources) /\ k \in Slot \ {i}
            /\ process_resources'[k] = process_resources[k]
        BY <1>7, <1>9, <2>1, <3>2
      <4>2. k < process_count' /\ process_resources[k].pid \in Asker \ {q}
        BY <1>4, <1>9, <1>10, <4>1, SizeAssumption DEF Slot
      <4> QED
        BY <1>8, <4>1, <4>2 DEF IInv, OneEntryPerPid
    <3> QED
      BY <3>1, <3>2
  <2>2. \A k, l \in Live(process_resources') :
          process_resources'[k].pid = process_resources'[l].pid => k = l
    BY <1>1, <1>7, <1>9 DEF IInv, OneEntryPerPid
  <2> QED
    BY <2>1, <2>2 DEF OneEntryPerPid
<1>13. TableFitsPids' /\ InsideTable'
  <2>1. InsideTable'
    BY <1>2, <1>4, SizeAssumption DEF InsideTable, Slot
  <2>2. process_count' <= Cardinality(Asker) + 1
    <3>1. CASE i = process_count
      <4>1. NoHole
        BY <1>2, <1>4, <3>1 DEF IsFreeSlot, Hole
      <4>2. /\ process_count <= Cardinality(Asker)
            /\ Cardinality(Asker) \in Nat
        BY <1>a, <1>3, <1>5, <4>1, RoomForOneMore
      <4> QED
        BY <1>2, <1>4, <3>1, <4>2
    <3>2. CASE i # process_count
      BY <1>2, <3>2 DEF IInv, TableFitsPids
    <3> QED
      BY <3>1, <3>2
  <2> QED
    BY <1>5, <2>1, <2>2 DEF TableFitsPids
<1>14. FilesInOnePlace'
  BY <1>1, <1>3, <1>7, <1>9 DEF IInv, FilesInOnePlace
<1>15. CountsMatchNames'
  <2>1. Cardinality(Live(process_resources')) = Cardinality(Live(process_resources)) + 1
    BY <1>6, <1>7, LiveFinite, FS_AddElement
  <2>2. \A t \in Type : r.has[t] <= Cardinality(r.names[t])
    BY <1>1, FS_EmptySet DEF Zero
  <2> QED
    BY <1>3, <1>7, <1>9, <2>1, <2>2 DEF IInv, CountsMatchNames
<1>16. LinksAreHeld'
  BY <1>3, <1>7, <1>9 DEF IInv, LinksAreHeld
<1> QED
  BY <1>11, <1>12, <1>13, <1>14, <1>15, <1>16 DEF IInv

LEMMA InvRelease ==
  ASSUME IInv, NEW p \in Pid, Release(p)
  PROVE  IInv'
<1>1. /\ Hears(p, p, "finalized") /\ status = "running" /\ status' = status
      /\ UNCHANGED <<pool_has, pool_names, process_count>>
  BY DEF Release, Answer
<1>2. /\ heard' \in [Pid -> Code]
      /\ \A o \in Pid \ {p} : heard'[o] = heard[o]
  BY <1>1, HeardChanges DEF Code, Asker
<1>a. InsideTable' /\ TableFitsPids'
  BY <1>1 DEF IInv, InsideTable, TableFitsPids
<1>3. CASE Registered(p)
  <2>a. PICK i \in Slot : IsIndexOf(p, i) /\ FreeEntry(i)
    BY <1>3 DEF Release
  <2>b. PICK stay \in StayingOf(i) :
          /\ links' = (links \ LinksOf(i)) \cup stay
          /\ leftover' = (leftover \ LinksOf(i)) \cup stay
    BY <2>a DEF FreeEntry
  <2>1. /\ IsIndexOf(p, i)
        /\ process_resources' = [process_resources EXCEPT ![i] = NULL]
        /\ active_process_count' = IF active_process_count > 0
                                   THEN active_process_count - 1
                                   ELSE active_process_count
    BY <1>3, <2>a DEF Release, FreeEntry
  <2>2. i \in Live(process_resources) /\ process_resources[i].pid = p
    BY <2>1 DEF IsIndexOf
  <2>3. process_resources \in [Slot -> Entry]
    BY DEF IInv, TypeOK, Entry
  <2>4. /\ process_resources' \in [Slot -> Entry]
        /\ \A k \in Slot \ {i} : process_resources'[k] = process_resources[k]
        /\ Live(process_resources') = Live(process_resources) \ {i}
    BY <2>1, <2>3 DEF Entry, Live
  <2>5. \A k \in Live(process_resources') :
          /\ k \in Slot \ {i} /\ k \in Live(process_resources)
          /\ process_resources[k].pid \in Asker \ {p}
    BY <2>2, <2>3, <2>4 DEF IInv, OneEntryPerPid, Live, Entry, Process
  <2>6. active_process_count' = Cardinality(Live(process_resources'))
    <3>1. Cardinality(Live(process_resources')) = Cardinality(Live(process_resources)) - 1
      BY <2>2, <2>4, LiveFinite, FS_RemoveElement
    <3>2. active_process_count = Cardinality(Live(process_resources))
      BY DEF IInv, CountsMatchNames
    <3>3. Cardinality(Live(process_resources')) \in Nat
      BY LiveFinite
    <3> QED
      BY <2>1, <3>1, <3>2, <3>3, LiveFinite
  <2>7. TypeOK'
    <3>1. active_process_count' \in Nat
      BY <2>6, LiveFinite
    <3>2. links' \subseteq Asker \X File /\ leftover' \subseteq links'
      BY <2>b DEF IInv, TypeOK, StayingOf
    <3> QED
      BY <1>1, <1>2, <2>4, <3>1, <3>2 DEF IInv, TypeOK, Entry
  <2>8. OneEntryPerPid'
    BY <1>1, <1>2, <2>4, <2>5 DEF IInv, OneEntryPerPid
  <2>10. FilesInOnePlace'
    BY <1>1, <2>4, <2>5 DEF IInv, FilesInOnePlace
  <2>11. CountsMatchNames'
    BY <1>1, <2>4, <2>5, <2>6 DEF IInv, CountsMatchNames
  <2>12. LinksAreHeld'
    <3> SUFFICES ASSUME NEW l \in links' \ leftover'
                 PROVE  \E k \in Live(process_resources'), t \in Type :
                          /\ process_resources'[k].pid = l[1]
                          /\ l[2] \in process_resources'[k].names[t]
      BY DEF LinksAreHeld
    <3>1. /\ l \in links \ leftover /\ l \notin LinksOf(i)
          /\ l \in Asker \X File
      BY <2>b DEF IInv, TypeOK
    <3>2. PICK k \in Live(process_resources), t \in Type :
            /\ process_resources[k].pid = l[1]
            /\ l[2] \in process_resources[k].names[t]
      BY <3>1 DEF IInv, LinksAreHeld
    <3>3. k # i
      BY <3>1, <3>2 DEF LinksOf
    <3> QED
      BY <2>4, <3>2, <3>3 DEF Live
  <2> QED
    BY <1>a, <2>7, <2>8, <2>10, <2>11, <2>12 DEF IInv
<1>4. CASE ~Registered(p)
  <2>1. UNCHANGED <<process_resources, links, leftover, active_process_count>>
    BY <1>4 DEF Release
  <2>2. \A k \in Live(process_resources) :
          process_resources[k].pid \in Asker \ {p}
    BY <1>4 DEF Registered, IsIndexOf, Live, IInv, TypeOK, OneEntryPerPid, Process
  <2>3. TypeOK'
    BY <1>1, <1>2, <2>1 DEF IInv, TypeOK
  <2>4. OneEntryPerPid'
    BY <1>1, <1>2, <2>1, <2>2 DEF IInv, OneEntryPerPid
  <2>5. FilesInOnePlace' /\ CountsMatchNames' /\ LinksAreHeld'
    BY <1>1, <2>1 DEF IInv, FilesInOnePlace, CountsMatchNames, LinksAreHeld
  <2> QED
    BY <1>a, <2>3, <2>4, <2>5 DEF IInv
<1> QED
  BY <1>3, <1>4

-----------------------------------------------------------------------------
(* What a grant takes: files the pool lists, as many as are needed.        *)
LEMMA PickedFiles ==
  ASSUME IInv, NEW q \in Asker, NEW wanted \in Wanted,
         NEW S \in Requested(q, wanted), NEW k \in Slot, IsTarget(S, k),
         NEW taken \in Picks(S[k].needs), NEW linked \in Linked(taken),
         NEW t \in Type
  PROVE  /\ taken[t] \in SUBSET File /\ taken[t] \subseteq pool_names[t]
         /\ Cardinality(taken[t]) = S[k].needs[t]
         /\ linked[t] \subseteq taken[t]
         /\ Cardinality(linked[t]) \in Nat
         /\ Cardinality(linked[t]) <= Cardinality(taken[t])
<1>1. taken[t] \in SUBSET File /\ taken[t] \subseteq pool_names[t]
      /\ linked[t] \subseteq taken[t]
  BY DEF Picks, Linked
<1>2. S[k].needs[t] <= pool_has[t] /\ k \in Live(S)
  BY DEF IsTarget, Runnable
<1>3. S[k] \in Process /\ S[k].needs[t] \in Nat
  <2>1. S[k] \in Process
    BY <1>2, RequestedTable DEF SameBooks, Live, Entry
  <2> QED
    BY <2>1 DEF Process
<1>4. pool_has[t] = Cardinality(pool_names[t]) /\ pool_names[t] \in SUBSET File
  BY DEF IInv, CountsMatchNames, TypeOK
<1>5. Cardinality(taken[t]) = S[k].needs[t]
  <2>1. \/ Cardinality(taken[t]) = S[k].needs[t]
        \/ taken[t] = pool_names[t] /\ Cardinality(taken[t]) < S[k].needs[t]
    BY DEF Picks
  <2> QED
    BY <1>2, <1>3, <1>4, <2>1, FilesFinite
<1>6. Cardinality(linked[t]) \in Nat /\ Cardinality(linked[t]) <= Cardinality(taken[t])
  BY <1>1, FilesFinite, FS_Subset
<1> QED
  BY <1>1, <1>5, <1>6

(* The table after a grant of the files taken, of which linked got a link, *)
(* to entry k.                                                             *)
GrantBooked(k, taken, linked) ==
  /\ process_resources' \in [Slot -> Entry]
  /\ k \in Live(process_resources)
  /\ Live(process_resources') = Live(process_resources)
  /\ \A i \in Live(process_resources) \ {k} :
       /\ process_resources'[i].pid = process_resources[i].pid
       /\ process_resources'[i].has = process_resources[i].has
       /\ process_resources'[i].names = process_resources[i].names
  /\ process_resources'[k].pid = process_resources[k].pid
  /\ process_resources'[k].needs = Zero
  /\ \A t \in Type :
       /\ process_resources'[k].has[t] =
            process_resources[k].has[t] + Cardinality(linked[t])
       /\ process_resources'[k].names[t] =
            process_resources[k].names[t] \cup taken[t]

LEMMA GrantedTable ==
  ASSUME IInv, NEW q \in Asker, NEW wanted \in Wanted,
         NEW S \in Requested(q, wanted), NEW k \in Slot, IsTarget(S, k),
         NEW taken \in Picks(S[k].needs), NEW linked \in Linked(taken),
         process_resources' = [S EXCEPT ![k] = Receive(@, taken, linked)]
  PROVE  GrantBooked(k, taken, linked)
<1>1. SameBooks(S)
  BY RequestedTable
<1>2. k \in Live(S) /\ k \in Live(process_resources)
  BY <1>1 DEF IsTarget, Runnable, Live, SameBooks
<1>3. S[k] \in Process
  BY <1>1, <1>2 DEF SameBooks, Live, Entry
<1> DEFINE r == Receive(S[k], taken, linked)
           has == [t \in Type |-> S[k].has[t] + Cardinality(linked[t])]
           needs == [t \in Type |-> S[k].needs[t] - Cardinality(taken[t])]
           names == [t \in Type |-> S[k].names[t] \cup taken[t]]
<1>4. /\ has \in [Type -> Nat] /\ needs = Zero /\ needs \in [Type -> Nat]
      /\ names \in [Type -> SUBSET File]
  <2>1. S[k].has \in [Type -> Nat] /\ S[k].needs \in [Type -> Nat]
        /\ S[k].names \in [Type -> SUBSET File]
    BY <1>3 DEF Process
  <2>2. \A t \in Type : /\ Cardinality(linked[t]) \in Nat
                        /\ Cardinality(taken[t]) = S[k].needs[t]
                        /\ taken[t] \in SUBSET File
    BY PickedFiles
  <2>3. has \in [Type -> Nat]
    BY <2>1, <2>2
  <2>4. needs = Zero
    BY <2>1, <2>2 DEF Zero
  <2>5. names \in [Type -> SUBSET File]
    BY <2>1, <2>2
  <2> QED
    BY <2>3, <2>4, <2>5, ZeroType
<1>5. r = [S[k] EXCEPT !.has = has, !.needs = needs, !.names = names]
  BY DEF Receive
<1> HIDE DEF has, needs, names
<1>6. /\ r \in Process /\ r.pid = S[k].pid /\ r.has = has
      /\ r.needs = needs /\ r.names = names
  BY <1>3, <1>4, <1>5 DEF Process
<1> HIDE DEF r
<1>7. process_resources' = [S EXCEPT ![k] = r]
  BY DEF r
<1>8. /\ process_resources' \in [Slot -> Entry] /\ process_resources'[k] = r
      /\ \A i \in Slot \ {k} : process_resources'[i] = S[i]
  BY <1>1, <1>6, <1>7 DEF SameBooks, Entry
<1>9. Live(process_resources') = Live(process_resources)
  BY <1>1, <1>2, <1>6, <1>8, NullAssumption DEF Live, SameBooks
<1>10. \A i \in Live(process_resources) \ {k} :
         /\ process_resources'[i].pid = process_resources[i].pid
         /\ process_resources'[i].has = process_resources[i].has
         /\ process_resources'[i].names = process_resources[i].names
  BY <1>1, <1>8 DEF SameBooks, Live
<1>11. /\ S[k].pid = process_resources[k].pid
       /\ S[k].has = process_resources[k].has
       /\ S[k].names = process_resources[k].names
  BY <1>1, <1>2 DEF SameBooks
<1>12. \A t \in Type :
         /\ process_resources'[k].has[t] =
              process_resources[k].has[t] + Cardinality(linked[t])
         /\ process_resources'[k].names[t] =
              process_resources[k].names[t] \cup taken[t]
  BY <1>6, <1>8, <1>11 DEF has, names
<1> QED
  BY <1>2, <1>4, <1>6, <1>8, <1>9, <1>10, <1>11, <1>12 DEF GrantBooked

LEMMA InvGrant ==
  ASSUME IInv, NEW p \in Pid, NEW q \in Asker, NEW wanted \in Wanted,
         Grant(p, q, wanted)
  PROVE  IInv'
<1>1. PICK S \in Requested(q, wanted), k \in Slot :
        /\ IsTarget(S, k)
        /\ \E taken \in Picks(S[k].needs) : \E linked \in Linked(taken) :
             /\ process_resources' = [S EXCEPT ![k] = Receive(@, taken, linked)]
             /\ pool_has' = CountLeft(taken)
             /\ pool_names' = NamesLeft(taken)
             /\ \E stay \in Staying(S[k].pid, taken, linked) :
                  links' = LinksAfter(S[k].pid, taken, linked, stay)
             /\ leftover' = leftover \ Touched(S[k].pid, taken)
  BY DEF Grant
<1> PICK taken \in Picks(S[k].needs) : \E linked \in Linked(taken) :
          /\ process_resources' = [S EXCEPT ![k] = Receive(@, taken, linked)]
          /\ pool_has' = CountLeft(taken)
          /\ pool_names' = NamesLeft(taken)
          /\ \E stay \in Staying(S[k].pid, taken, linked) :
               links' = LinksAfter(S[k].pid, taken, linked, stay)
          /\ leftover' = leftover \ Touched(S[k].pid, taken)
  BY <1>1
<1>2. PICK linked \in Linked(taken) :
        /\ process_resources' = [S EXCEPT ![k] = Receive(@, taken, linked)]
        /\ pool_has' = CountLeft(taken)
        /\ pool_names' = NamesLeft(taken)
        /\ \E stay \in Staying(S[k].pid, taken, linked) :
             links' = LinksAfter(S[k].pid, taken, linked, stay)
        /\ leftover' = leftover \ Touched(S[k].pid, taken)
  OBVIOUS
<1>a. PICK stay \in Staying(S[k].pid, taken, linked) :
        links' = LinksAfter(S[k].pid, taken, linked, stay)
  BY <1>2
<1>3. \A t \in Type :
        /\ taken[t] \in SUBSET File /\ taken[t] \subseteq pool_names[t]
        /\ linked[t] \subseteq taken[t]
        /\ Cardinality(linked[t]) \in Nat
        /\ Cardinality(linked[t]) <= Cardinality(taken[t])
  BY <1>1, PickedFiles
<1>4. /\ process_resources' \in [Slot -> Entry]
      /\ k \in Live(process_resources)
      /\ Live(process_resources') = Live(process_resources)
      /\ \A i \in Live(process_resources) \ {k} :
           /\ process_resources'[i].pid = process_resources[i].pid
           /\ process_resources'[i].has = process_resources[i].has
           /\ process_resources'[i].names = process_resources[i].names
      /\ process_resources'[k].pid = process_resources[k].pid
      /\ process_resources'[k].needs = Zero
      /\ \A t \in Type :
           /\ process_resources'[k].has[t] =
                process_resources[k].has[t] + Cardinality(linked[t])
           /\ process_resources'[k].names[t] =
                process_resources[k].names[t] \cup taken[t]
  <2>1. GrantBooked(k, taken, linked)
    BY <1>1, <1>2, GrantedTable
  <2> QED
    BY <2>1 DEF GrantBooked
<1>b. /\ MayAsk(p) /\ Answer(p, q, "OK")
      /\ UNCHANGED <<process_count, active_process_count>>
  BY DEF Grant
<1>5. /\ status = "running" /\ status' \in {"running", "crashed"}
      /\ Hears(p, q, "OK") /\ UNCHANGED <<process_count, active_process_count>>
  BY <1>b, AnswerHears DEF MayAsk
<1>6. /\ heard' \in [Pid -> Code]
      /\ \A o \in Pid : heard'[o] = "finalized" <=> heard[o] = "finalized"
  BY <1>b, <1>5, RequestHeard DEF Code
<1>7. \A t \in Type : pool_names'[t] = pool_names[t] \ taken[t]
                      /\ pool_names[t] \in SUBSET File
  BY <1>2 DEF NamesLeft, IInv, TypeOK
<1>8. \A t \in Type : pool_has'[t] = Cardinality(pool_names'[t])
                      /\ pool_has'[t] \in Nat
  <2> SUFFICES ASSUME NEW t \in Type
               PROVE  /\ pool_has'[t] = Cardinality(pool_names'[t])
                      /\ pool_has'[t] \in Nat
    OBVIOUS
  <2>1. pool_has'[t] = pool_has[t] - Cardinality(taken[t])
    BY <1>2 DEF CountLeft
  <2>2. pool_has[t] = Cardinality(pool_names[t])
    BY DEF IInv, CountsMatchNames
  <2>3. pool_names[t] \cap taken[t] = taken[t]
    BY <1>3
  <2>4. Cardinality(pool_names[t] \ taken[t])
          = Cardinality(pool_names[t]) - Cardinality(pool_names[t] \cap taken[t])
    BY <1>7, FilesFinite, FS_Difference
  <2>5. Cardinality(pool_names'[t]) \in Nat
    BY <1>7, FilesFinite
  <2> QED
    BY <1>7, <2>1, <2>2, <2>3, <2>4, <2>5
<1>9. pool_has' \in [Type -> Nat] /\ pool_names' \in [Type -> SUBSET File]
  <2>1. pool_has' = [t \in Type |-> pool_has[t] - Cardinality(taken[t])]
    BY <1>2 DEF CountLeft
  <2>2. pool_names' = [t \in Type |-> pool_names[t] \ taken[t]]
    BY <1>2 DEF NamesLeft
  <2> QED
    BY <1>7, <1>8, <2>1, <2>2
<1>10. S[k].pid = process_resources[k].pid /\ process_resources[k].pid \in Asker
  <2>1. SameBooks(S)
    BY <1>1, RequestedTable
  <2> QED
    BY <1>4, <2>1 DEF SameBooks, Live, IInv, TypeOK, Process
<1>11. links' \subseteq Asker \X File /\ leftover' \subseteq links'
  <2>1. Touched(S[k].pid, taken) \subseteq Asker \X File
    BY <1>3, <1>10 DEF Touched
  <2>2. MadeLast(S[k].pid, taken, linked) \subseteq Asker \X File
    BY <1>10 DEF MadeLast
  <2> QED
    BY <1>2, <1>a, <2>1, <2>2 DEF LinksAfter, Staying, IInv, TypeOK
<1>12. TypeOK'
  BY <1>4, <1>5, <1>6, <1>9, <1>11 DEF IInv, TypeOK, Entry
<1>13. OneEntryPerPid'
  <2>1. \A i \in Live(process_resources) :
          /\ process_resources'[i].pid = process_resources[i].pid
          /\ process_resources[i].pid \in Asker
    BY <1>4 DEF Live, IInv, TypeOK, Process
  <2>2. /\ process_count' = process_count
        /\ Live(process_resources') = Live(process_resources)
    BY <1>4, <1>5
  <2>3. OneEntryPerPid
    BY DEF IInv
  <2> QED
    BY <1>6, <2>1, <2>2, <2>3 DEF OneEntryPerPid
<1>14. TableFitsPids' /\ InsideTable'
  BY <1>5 DEF IInv, TableFitsPids, InsideTable
<1>15. FilesInOnePlace'
  <2> SUFFICES ASSUME NEW t \in Type
               PROVE  /\ \A i \in Live(process_resources) :
                           process_resources'[i].names[t] \cap pool_names'[t] = {}
                      /\ \A i, j \in Live(process_resources) :
                           i # j => process_resources'[i].names[t]
                                      \cap process_resources'[j].names[t] = {}
    BY <1>4 DEF FilesInOnePlace
  <2>1. /\ \A i \in Live(process_resources) :
             process_resources[i].names[t] \cap pool_names[t] = {}
        /\ \A i, j \in Live(process_resources) :
             i # j => process_resources[i].names[t]
                        \cap process_resources[j].names[t] = {}
    BY DEF IInv, FilesInOnePlace
  <2>2. \A i \in Live(process_resources) :
          process_resources'[i].names[t] =
            IF i = k THEN process_resources[k].names[t] \cup taken[t]
                     ELSE process_resources[i].names[t]
    BY <1>4
  <2>3. pool_names'[t] = pool_names[t] \ taken[t] /\ taken[t] \subseteq pool_names[t]
    BY <1>3, <1>7
  <2>4. \A i \in Live(process_resources) :
          process_resources'[i].names[t] \cap pool_names'[t] = {}
    BY <2>1, <2>2, <2>3
  <2>5. \A i, j \in Live(process_resources) :
          i # j => process_resources'[i].names[t]
                     \cap process_resources'[j].names[t] = {}
    BY <2>1, <2>2, <2>3
  <2> QED
    BY <2>4, <2>5
<1>16. CountsMatchNames'
  <2>1. \A i \in Live(process_resources'), t \in Type :
          process_resources'[i].has[t] <= Cardinality(process_resources'[i].names[t])
    <3> SUFFICES ASSUME NEW i \in Live(process_resources), NEW t \in Type
                 PROVE  process_resources'[i].has[t]
                          <= Cardinality(process_resources'[i].names[t])
      BY <1>4
    <3>1. process_resources[i].has[t] <= Cardinality(process_resources[i].names[t])
      BY DEF IInv, CountsMatchNames
    <3>2. CASE i # k
      BY <1>4, <3>1, <3>2
    <3>3. CASE i = k
      <4>1. /\ process_resources[k].names[t] \in SUBSET File
            /\ process_resources[k].has[t] \in Nat
        BY <1>4 DEF Live, IInv, TypeOK, Process
      <4>2. process_resources[k].names[t] \cap taken[t] = {}
        BY <1>3, <1>4 DEF IInv, FilesInOnePlace
      <4>3. Cardinality(process_resources[k].names[t] \cup taken[t])
              = Cardinality(process_resources[k].names[t]) + Cardinality(taken[t])
        <5>1. /\ IsFiniteSet(process_resources[k].names[t])
              /\ IsFiniteSet(taken[t])
              /\ Cardinality(process_resources[k].names[t]) \in Nat
              /\ Cardinality(taken[t]) \in Nat
          BY <1>3, <4>1, FilesFinite
        <5>2. Cardinality(process_resources[k].names[t] \cap taken[t]) = 0
          BY <4>2, FS_EmptySet
        <5>3. Cardinality(process_resources[k].names[t] \cup taken[t])
                = Cardinality(process_resources[k].names[t])
                    + Cardinality(taken[t])
                    - Cardinality(process_resources[k].names[t] \cap taken[t])
          BY <5>1, FS_Union
        <5> QED
          BY <5>1, <5>2, <5>3
      <4>4. /\ Cardinality(process_resources[k].names[t]) \in Nat
            /\ Cardinality(taken[t]) \in Nat
        BY <1>3, <4>1, FilesFinite
      <4>5. process_resources[k].has[t] + Cardinality(linked[t])
              <= Cardinality(process_resources[k].names[t] \cup taken[t])
        BY <1>3, <3>1, <3>3, <4>1, <4>3, <4>4
      <4> QED
        BY <1>4, <3>3, <4>5
    <3> QED
      BY <3>2, <3>3
  <2> QED
    BY <1>4, <1>5, <1>8, <2>1 DEF IInv, CountsMatchNames
<1>17. LinksAreHeld'
  <2> SUFFICES ASSUME NEW l \in links' \ leftover'
               PROVE  \E i \in Live(process_resources), t \in Type :
                        /\ process_resources'[i].pid = l[1]
                        /\ l[2] \in process_resources'[i].names[t]
    BY <1>4 DEF LinksAreHeld
  <2>1. CASE l \in Touched(S[k].pid, taken)
    <3>1. PICK t \in Type, f \in File : l = <<S[k].pid, f>> /\ f \in taken[t]
      BY <1>3, <2>1 DEF Touched
    <3>2. f \in process_resources'[k].names[t] /\ process_resources'[k].pid = S[k].pid
      BY <1>4, <1>10, <3>1
    <3> QED
      BY <1>4, <3>1, <3>2
  <2>2. CASE l \notin Touched(S[k].pid, taken)
    <3>1. MadeLast(S[k].pid, taken, linked) \subseteq Touched(S[k].pid, taken)
      BY <1>3 DEF MadeLast, Touched
    <3>2. l \in links \ leftover
      BY <1>2, <1>a, <2>2, <3>1 DEF LinksAfter, Staying
    <3>3. PICK i \in Live(process_resources), t \in Type :
            /\ process_resources[i].pid = l[1]
            /\ l[2] \in process_resources[i].names[t]
      BY <3>2 DEF IInv, LinksAreHeld
    <3>4. /\ process_resources'[i].pid = process_resources[i].pid
          /\ process_resources[i].names[t] \subseteq process_resources'[i].names[t]
      BY <1>4
    <3> QED
      BY <3>3, <3>4
  <2> QED
    BY <2>1, <2>2
<1> QED
  BY <1>12, <1>13, <1>14, <1>15, <1>16, <1>17 DEF IInv

LEMMA InvNext == IInv /\ [Next]_rmvars => IInv'
<1> SUFFICES ASSUME IInv, [Next]_rmvars PROVE IInv'
  OBVIOUS
<1>1. CASE UNCHANGED rmvars
  <2>1. Live(process_resources') = Live(process_resources) /\ Owners' = Owners
    BY <1>1 DEF rmvars, Live, Owners
  <2> QED
    BY <1>1, <2>1 DEF rmvars, IInv, TypeOK, OneEntryPerPid, InsideTable,
                      TableFitsPids, FilesInOnePlace, CountsMatchNames, LinksAreHeld
<1>2. ASSUME NEW p \in Pid, Release(p) PROVE IInv'
  BY <1>2, InvRelease
<1>3. ASSUME NEW p \in Pid, NEW q \in {p} \cup Stale, NEW wanted \in Wanted,
             Request(p, q, wanted)
      PROVE  IInv'
  <2>1. q \in Asker
    BY DEF Asker
  <2> QED
    BY <1>3, <2>1, InvRegister, InvOutgrow, InvExceedMaximum, InvGrant, InvRefuse,
       InvCrash DEF Request
<1> QED
  BY <1>1, <1>2, <1>3 DEF Next

-----------------------------------------------------------------------------
(* The invariant holds of every reachable state.                           *)
THEOREM Invariance == Spec => []IInv
BY InvInit, InvNext, PTL DEF Spec

(* No counter becomes negative and every entry of the table is well formed,*)
(* for any request vectors.                                                *)
THEOREM TypeCorrect == Spec => []TypeOK
<1>1. IInv => TypeOK
  BY DEF IInv
<1> QED
  BY <1>1, Invariance, PTL

(* resource_manager.c:380-395: a client has one entry of the table, and    *)
(* none once it has finalized.                                             *)
THEOREM OneEntryPerPidHolds == Spec => []OneEntryPerPid
<1>1. IInv => OneEntryPerPid
  BY DEF IInv
<1> QED
  BY <1>1, Invariance, PTL

(* resource_manager.c:383-397: for a table of any size, entries are reused *)
(* so that it never has more of them than there are pids, and the server   *)
(* writes behind its end only when as many processes as it has entries are *)
(* registered at once.                                                     *)
THEOREM TableFitsPidsHolds == Spec => []TableFitsPids
<1>1. IInv => TableFitsPids
  BY DEF IInv
<1> QED
  BY <1>1, Invariance, PTL

(* resource_manager.c:316-345: within a type, a file is in one place.      *)
THEOREM FilesInOnePlaceHolds == Spec => []FilesInOnePlace
<1>1. IInv => FilesInOnePlace
  BY DEF IInv
<1> QED
  BY <1>1, Invariance, PTL

(* The counters of pool and processes agree with the lists of names.       *)
THEOREM CountsMatchNamesHolds == Spec => []CountsMatchNames
<1>1. IInv => CountsMatchNames
  BY DEF IInv
<1> QED
  BY <1>1, Invariance, PTL

(* resource_manager.c:471-483: whatever links a server finds when it starts*)
(* and whichever calls fail, a link of this server survives its client only*)
(* where the unlink of the release failed.                                 *)
THEOREM LinksAreHeldHolds == Spec => []LinksAreHeld
<1>1. IInv => LinksAreHeld
  BY DEF IInv
<1> QED
  BY <1>1, Invariance, PTL

(* What GrantIsWhole says of a step that takes files from the pool.        *)
LEMMA GrantStepIsWhole ==
  ASSUME IInv, [Next]_rmvars, pool_names' # pool_names
  PROVE  \E i \in Live(process_resources) :
           /\ process_resources'[i].needs = Zero
           /\ \A t \in Type :
                /\ process_resources'[i].names[t] =
                     process_resources[i].names[t]
                       \cup (pool_names[t] \ pool_names'[t])
                /\ pool_has[t] - pool_has'[t] =
                     Cardinality(pool_names[t] \ pool_names'[t])
           /\ \A k \in Slot \ {i} :
                k \in Live(process_resources) =>
                  process_resources'[k].names = process_resources[k].names
<1>1. PICK p \in Pid, q \in Asker, wanted \in Wanted : Grant(p, q, wanted)
  <2>1. PICK p \in Pid : \E q \in {p} \cup Stale, wanted \in Wanted : Request(p, q, wanted)
    BY DEF Next, Release, rmvars
  <2> QED
    BY <2>1 DEF Request, Register, Outgrow, ExceedMaximum, Refuse, NoTarget, Overrun,
                Asker
<1>2. PICK S \in Requested(q, wanted), k \in Slot :
        /\ IsTarget(S, k)
        /\ \E taken \in Picks(S[k].needs) : \E linked \in Linked(taken) :
             /\ process_resources' = [S EXCEPT ![k] = Receive(@, taken, linked)]
             /\ pool_has' = CountLeft(taken)
             /\ pool_names' = NamesLeft(taken)
  BY <1>1 DEF Grant
<1> PICK taken \in Picks(S[k].needs) : \E linked \in Linked(taken) :
          /\ process_resources' = [S EXCEPT ![k] = Receive(@, taken, linked)]
          /\ pool_has' = CountLeft(taken)
          /\ pool_names' = NamesLeft(taken)
  BY <1>2
<1>3. PICK linked \in Linked(taken) :
        /\ process_resources' = [S EXCEPT ![k] = Receive(@, taken, linked)]
        /\ pool_has' = CountLeft(taken)
        /\ pool_names' = NamesLeft(taken)
  OBVIOUS
<1>4. \A t \in Type : taken[t] \in SUBSET File /\ taken[t] \subseteq pool_names[t]
  BY <1>2, PickedFiles
<1>5. /\ process_resources' \in [Slot -> Entry]
      /\ k \in Live(process_resources)
      /\ Live(process_resources') = Live(process_resources)
      /\ \A i \in Live(process_resources) \ {k} :
           /\ process_resources'[i].pid = process_resources[i].pid
           /\ process_resources'[i].has = process_resources[i].has
           /\ process_resources'[i].names = process_resources[i].names
      /\ process_resources'[k].pid = process_resources[k].pid
      /\ process_resources'[k].needs = Zero
      /\ \A t \in Type :
           /\ process_resources'[k].has[t] =
                process_resources[k].has[t] + Cardinality(linked[t])
           /\ process_resources'[k].names[t] =
                process_resources[k].names[t] \cup taken[t]
  <2>1. GrantBooked(k, taken, linked)
    BY <1>2, <1>3, GrantedTable
  <2> QED
    BY <2>1 DEF GrantBooked
<1>6. \A t \in Type : pool_names[t] \ pool_names'[t] = taken[t]
  BY <1>3, <1>4 DEF NamesLeft
<1>7. \A t \in Type : pool_has[t] - pool_has'[t] = Cardinality(taken[t])
  <2>1. \A t \in Type : /\ pool_has'[t] = pool_has[t] - Cardinality(taken[t])
                        /\ pool_has[t] \in Nat /\ Cardinality(taken[t]) \in Nat
    BY <1>3, <1>4, FilesFinite DEF CountLeft, IInv, TypeOK
  <2> QED
    BY <2>1
<1>8. \A t \in Type :
        /\ process_resources'[k].names[t] =
             process_resources[k].names[t]
               \cup (pool_names[t] \ pool_names'[t])
        /\ pool_has[t] - pool_has'[t] =
             Cardinality(pool_names[t] \ pool_names'[t])
  BY <1>5, <1>6, <1>7
<1>9. \A i \in Slot \ {k} :
        i \in Live(process_resources) =>
          process_resources'[i].names = process_resources[i].names
  BY <1>5
<1> QED
  BY <1>5, <1>8, <1>9

(* resource_manager.c:302-345: a grant is all or nothing and goes to one   *)
(* process.                                                                *)
THEOREM GrantIsWholeHolds == Spec => GrantIsWhole
<1>1. IInv /\ [Next]_rmvars =>
        [pool_names' # pool_names =>
           \E i \in Live(process_resources) :
             /\ process_resources'[i].needs = Zero
             /\ \A t \in Type :
                  /\ process_resources'[i].names[t] =
                       process_resources[i].names[t]
                         \cup (pool_names[t] \ pool_names'[t])
                  /\ pool_has[t] - pool_has'[t] =
                       Cardinality(pool_names[t] \ pool_names'[t])
             /\ \A k \in Slot \ {i} :
                  k \in Live(process_resources) =>
                    process_resources'[k].names = process_resources[k].names
        ]_rmvars
  BY GrantStepIsWhole
<1> QED
  BY <1>1, Invariance, PTL DEF Spec, GrantIsWhole

-----------------------------------------------------------------------------
(* The resource manager implements Allocation: every outcome of a request  *)
(* but a grant leaves the lists of names alone, a grant moves files to the *)
(* one entry it serves, and a release empties the one entry of its client. *)

(* A step that changes neither names nor owners of entries is a stutter.   *)
LEMMA BooksStutter ==
  ASSUME SameBooks(process_resources'), UNCHANGED pool_names,
         Finalized' = Finalized
  PROVE  UNCHANGED <<pool_names, FilesHeld, Finalized>>
<1>1. Live(process_resources') = Live(process_resources)
  BY DEF SameBooks, Live
<1>2. \A i \in Live(process_resources) :
        /\ process_resources'[i].pid = process_resources[i].pid
        /\ process_resources'[i].names = process_resources[i].names
  BY DEF SameBooks
<1>3. ASSUME NEW o \in Asker PROVE FilesOf(o)' = FilesOf(o)
  BY <1>1, <1>2 DEF FilesOf
<1>4. FilesHeld' = FilesHeld
  BY <1>3 DEF FilesHeld
<1> QED
  BY <1>4

(* Only CLIENT_FINALIZE makes a client a former one.                       *)
LEMMA FinalizedKept ==
  ASSUME IInv, NEW p \in Pid, NEW q \in Asker, MayAsk(p),
         NEW code \in Code \ {"finalized"}, Hears(p, q, code)
  PROVE  Finalized' = Finalized
BY RequestHeard DEF Finalized

LEMMA RequestStutters ==
  ASSUME IInv, NEW p \in Pid, NEW q \in Asker, NEW wanted \in Wanted,
         \/ ExceedMaximum(p, q, wanted) \/ Refuse(p, q, wanted)
         \/ NoTarget(p, q, wanted) \/ Overrun(p, q, wanted)
         \/ Outgrow(p, q, wanted)
  PROVE  UNCHANGED <<pool_names, FilesHeld, Finalized>>
<1>1. SameBooks(process_resources')
  <2>1. CASE ExceedMaximum(p, q, wanted)
    BY <2>1, AddedTable DEF ExceedMaximum, IsIndexOf
  <2>2. CASE Outgrow(p, q, wanted)
    BY <2>2 DEF Outgrow, SameBooks, IInv, TypeOK, Entry
  <2> QED
    BY <2>1, <2>2, RequestedTable DEF Refuse, NoTarget, Overrun
<1>2. Finalized' = Finalized
  <2>1. MayAsk(p)
    BY DEF ExceedMaximum, Refuse, NoTarget, Overrun, Outgrow
  <2>2. CASE ExceedMaximum(p, q, wanted)
    BY <2>1, <2>2, FinalizedKept DEF ExceedMaximum, Answer, Code
  <2>3. CASE Refuse(p, q, wanted)
    BY <2>1, <2>3, FinalizedKept DEF Refuse, Answer, Code
  <2>4. CASE NoTarget(p, q, wanted) \/ Overrun(p, q, wanted) \/ Outgrow(p, q, wanted)
    <3>1. Hears(p, q, heard[p])
      BY <2>4 DEF NoTarget, Overrun, Outgrow
    <3> QED
      BY <2>1, <3>1, LastHeard, FinalizedKept
  <2> QED
    BY <2>2, <2>3, <2>4
<1>3. UNCHANGED pool_names
  BY DEF ExceedMaximum, Refuse, NoTarget, Overrun, Outgrow
<1> QED
  BY <1>1, <1>2, <1>3, BooksStutter

-----------------------------------------------------------------------------
(* The new entry lists no files, and it was nobody's.                      *)
LEMMA RegisterStutters ==
  ASSUME IInv, NEW p \in Pid, NEW q \in Asker, NEW wanted \in Wanted,
         Register(p, q, wanted)
  PROVE  UNCHANGED <<pool_names, FilesHeld, Finalized>>
<1> DEFINE r == NewProcess(q, wanted)
<1>1. r # NULL /\ \A t \in Type : r.names[t] = {}
  BY WantedAssumption, ZeroType, NullAssumption DEF NewProcess, Process
<1> HIDE DEF r
<1>2. PICK i \in Slot :
        /\ IsFreeSlot(i)
        /\ process_resources' = [process_resources EXCEPT ![i] = r]
  BY DEF Register, r
<1>3. i \notin Live(process_resources)
  BY <1>2 DEF IsFreeSlot, Hole, Live, IInv, OneEntryPerPid, TypeOK
<1>4. process_resources \in [Slot -> Entry]
  BY DEF IInv, TypeOK, Entry
<1>5. \A k \in Slot \ {i} : process_resources'[k] = process_resources[k]
  BY <1>2, <1>4
<1>6. i \in Slot => process_resources'[i] = r
  BY <1>2, <1>4
<1>7. ASSUME NEW o \in Asker PROVE FilesOf(o)' = FilesOf(o)
  <2>1. ASSUME NEW t \in Type, NEW f \in File
        PROVE  (\E k \in Live(process_resources') :
                  /\ process_resources'[k].pid = o
                  /\ f \in process_resources'[k].names[t])
               <=> (\E k \in Live(process_resources) :
                      /\ process_resources[k].pid = o
                      /\ f \in process_resources[k].names[t])
    BY <1>1, <1>3, <1>5, <1>6 DEF Live
  <2> QED
    BY <2>1 DEF FilesOf
<1>8. Finalized' = Finalized
  BY FinalizedKept DEF Register, Answer, Code
<1> QED
  BY <1>7, <1>8 DEF Register, FilesHeld

(* A client's own entry is the only one whose files it has.                *)
LEMMA FilesOfEntry ==
  ASSUME IInv, NEW i \in Live(process_resources), NEW t \in Type
  PROVE  FilesOf(process_resources[i].pid)[t] = process_resources[i].names[t]
<1>1. process_resources[i] \in Process
  BY DEF IInv, TypeOK, Live
<1>2. process_resources[i].names[t] \subseteq File
  BY <1>1 DEF Process
<1> QED
  BY <1>2 DEF FilesOf, IInv, OneEntryPerPid

(* Files move from the pool to the client of the entry that is served.     *)
LEMMA GrantMoves ==
  ASSUME IInv, IInv', NEW p \in Pid, NEW a \in Asker, NEW wanted \in Wanted,
         Grant(p, a, wanted)
  PROVE  \E q \in Asker : \E given \in [Type -> SUBSET File] :
           Alloc!Grant(q, given)
<1>1. PICK S \in Requested(a, wanted), k \in Slot :
        /\ IsTarget(S, k)
        /\ \E taken \in Picks(S[k].needs) : \E linked \in Linked(taken) :
             /\ process_resources' = [S EXCEPT ![k] = Receive(@, taken, linked)]
             /\ pool_names' = NamesLeft(taken)
  BY DEF Grant
<1>2. PICK taken \in Picks(S[k].needs) : \E linked \in Linked(taken) :
        /\ process_resources' = [S EXCEPT ![k] = Receive(@, taken, linked)]
        /\ pool_names' = NamesLeft(taken)
  BY <1>1
<1>3. PICK linked \in Linked(taken) :
        process_resources' = [S EXCEPT ![k] = Receive(@, taken, linked)]
  BY <1>2
<1>4. GrantBooked(k, taken, linked)
  BY <1>1, <1>3, GrantedTable
<1>5. k \in Live(process_resources) /\ process_resources[k] \in Process
  BY <1>4 DEF GrantBooked, IInv, TypeOK, Live
<1>6. PICK q \in Asker : q = process_resources[k].pid
  BY <1>5 DEF Process
<1>7. /\ k \in Live(process_resources')
      /\ Live(process_resources') = Live(process_resources)
      /\ process_resources'[k].pid = q
      /\ \A i \in Live(process_resources) \ {k} :
           /\ process_resources'[i].pid = process_resources[i].pid
           /\ process_resources'[i].names = process_resources[i].names
      /\ \A t \in Type : process_resources'[k].names[t] =
                           process_resources[k].names[t] \cup taken[t]
  BY <1>4, <1>5, <1>6 DEF GrantBooked
<1>8. taken \in [Type -> SUBSET File] /\ \A t \in Type : taken[t] \subseteq pool_names[t]
  BY DEF Picks
<1>9. pool_names' = [t \in Type |-> pool_names[t] \ taken[t]]
  BY <1>2 DEF NamesLeft
<1>10. FilesOf(q)' = [t \in Type |-> FilesHeld[q][t] \cup taken[t]]
  <2>1. ASSUME NEW t \in Type
        PROVE  FilesOf(q)'[t] = FilesOf(q)[t] \cup taken[t]
    <3>1. FilesOf(q)[t] = process_resources[k].names[t]
      BY <1>5, <1>6, FilesOfEntry
    <3>2. process_resources'[k] \in Process
      BY <1>7 DEF IInv, TypeOK, Live
    <3>3. process_resources'[k].names[t] \subseteq File
      BY <3>2 DEF Process
    <3>4. FilesOf(q)'[t] = process_resources'[k].names[t]
      BY <1>7, <3>3 DEF FilesOf, IInv, OneEntryPerPid
    <3> QED
      BY <1>7, <3>1, <3>4
  <2> QED
    BY <2>1 DEF FilesOf, FilesHeld
<1>11. ASSUME NEW o \in Asker \ {q} PROVE FilesOf(o)' = FilesOf(o)
  BY <1>6, <1>7 DEF FilesOf
<1>12. FilesHeld' = [FilesHeld EXCEPT ![q] = [t \in Type |-> FilesHeld[q][t] \cup taken[t]]]
  BY <1>10, <1>11 DEF FilesHeld
<1>13. Finalized' = Finalized /\ q \notin Finalized
  <2>1. Finalized' = Finalized
    BY FinalizedKept DEF Grant, Answer, Code
  <2>2. q \notin Finalized
    BY <1>5, <1>6 DEF IInv, OneEntryPerPid, Finalized
  <2> QED
    BY <2>1, <2>2
<1>14. Alloc!Grant(q, taken)
  BY <1>8, <1>9, <1>12, <1>13 DEF Alloc!Grant
<1> QED
  BY <1>8, <1>14

(* An unregistered client has no files to lose.                            *)
LEMMA ReleaseFrees ==
  ASSUME IInv, NEW p \in Pid, Release(p)
  PROVE  Alloc!Release(p)
<1>1. heard[p] # "finalized" /\ Hears(p, p, "finalized") /\ UNCHANGED pool_names
  BY DEF Release, Answer
<1>2. Finalized' = Finalized \cup {p} /\ p \notin Finalized
  BY <1>1, HeardChanges DEF Finalized, Code, Asker
<1>3. process_resources \in [Slot -> Entry]
  BY DEF IInv, TypeOK, Entry
<1>4. /\ \A i \in Live(process_resources') :
           /\ i \in Live(process_resources) /\ process_resources[i].pid # p
           /\ process_resources'[i] = process_resources[i]
      /\ \A i \in Live(process_resources) :
           process_resources[i].pid # p => i \in Live(process_resources')
  <2>1. CASE Registered(p)
    <3>1. PICK i \in Slot :
            /\ IsIndexOf(p, i)
            /\ process_resources' = [process_resources EXCEPT ![i] = NULL]
      BY <2>1 DEF Release, FreeEntry
    <3>2. i \in Live(process_resources) /\ process_resources[i].pid = p
      BY <3>1 DEF IsIndexOf
    <3>3. \A k \in Live(process_resources) \ {i} : process_resources[k].pid # p
      BY <3>2 DEF IInv, OneEntryPerPid
    <3> QED
      BY <1>3, <3>1, <3>2, <3>3 DEF Live
  <2>2. CASE ~Registered(p)
    <3>1. UNCHANGED process_resources
      BY <2>2 DEF Release
    <3>2. \A i \in Live(process_resources) : process_resources[i].pid # p
      BY <2>2 DEF Registered, IsIndexOf, IInv, OneEntryPerPid, Live
    <3> QED
      BY <3>1, <3>2 DEF Live
  <2> QED
    BY <2>1, <2>2
<1>5. FilesOf(p)' = [t \in Type |-> {}]
  BY <1>4 DEF FilesOf
<1>6. ASSUME NEW o \in Asker \ {p} PROVE FilesOf(o)' = FilesOf(o)
  BY <1>4 DEF FilesOf
<1>7. FilesHeld' = [FilesHeld EXCEPT ![p] = [t \in Type |-> {}]]
  BY <1>5, <1>6 DEF FilesHeld
<1>8. p \in Asker
  BY DEF Asker
<1> QED
  BY <1>1, <1>2, <1>7, <1>8 DEF Alloc!Release, Alloc!Nothing

-----------------------------------------------------------------------------
LEMMA AllocInit == Init => Alloc!Init
<1> SUFFICES ASSUME Init PROVE Alloc!Init
  OBVIOUS
<1>1. Live(process_resources) = {} /\ Finalized = {}
  BY DEF Init, Live, Finalized
<1>2. FilesHeld = [p \in Asker |-> [t \in Type |-> {}]]
  BY <1>1 DEF FilesHeld, FilesOf
<1> QED
  BY <1>1, <1>2 DEF Init, Alloc!Init, Alloc!Nothing

LEMMA AllocNext ==
  IInv /\ IInv' /\ [Next]_rmvars => [Alloc!Next]_<<pool_names, FilesHeld, Finalized>>
<1> SUFFICES ASSUME IInv, IInv', [Next]_rmvars
             PROVE  [Alloc!Next]_<<pool_names, FilesHeld, Finalized>>
  OBVIOUS
<1>1. CASE UNCHANGED rmvars
  BY <1>1 DEF rmvars, FilesHeld, FilesOf, Live, Finalized
<1>2. ASSUME NEW p \in Pid, Release(p) PROVE Alloc!Next
  BY <1>2, ReleaseFrees DEF Alloc!Next, Asker
<1>3. ASSUME NEW p \in Pid, NEW q \in Asker, NEW wanted \in Wanted,
             Grant(p, q, wanted)
      PROVE  Alloc!Next
  BY <1>3, GrantMoves DEF Alloc!Next
<1>4. ASSUME NEW p \in Pid, NEW q \in Asker, NEW wanted \in Wanted,
             \/ Register(p, q, wanted) \/ ExceedMaximum(p, q, wanted)
             \/ Refuse(p, q, wanted) \/ NoTarget(p, q, wanted)
             \/ Overrun(p, q, wanted) \/ Outgrow(p, q, wanted)
      PROVE  UNCHANGED <<pool_names, FilesHeld, Finalized>>
  BY <1>4, RegisterStutters, RequestStutters
<1> QED
  BY <1>1, <1>2, <1>3, <1>4 DEF Next, Request, Asker

(* resource_manager.c: files move from the pool to one client, and from    *)
(* there to nobody, whatever else happens to requests, entries and answers.*)
THEOREM Implementation == Spec => ImplementsAllocation
BY Invariance, AllocInit, AllocNext, PTL
   DEF Spec, ImplementsAllocation, Alloc!Spec, Alloc!allocvars

-----------------------------------------------------------------------------
(* The safety scan, on the table S with target k, when the memory behind   *)
(* the vector reads as past.                                               *)
ScanInput(S, k, past) ==
  /\ process_count \in Nat /\ process_count - 1 <= MaxResources
  /\ pool_has \in [Type -> Nat]
  /\ S \in [Slot -> Entry] /\ k \in Live(S)
  /\ \A i \in Live(S) : i < process_count
  /\ Needy(S[k])
  /\ past \in [Slot \ Type -> BOOLEAN]

ScanState ==
  [work: [Type -> Int], finish: [Entries -> BOOLEAN],
   behind: SUBSET Entries, changed: BOOLEAN]

(* Who has finished can; the entry of work that decides on a process is as *)
(* the grant leaves it until the process has finished; and those have      *)
(* written behind the vector who have finished and whose index is there.   *)
Sound(S, k, past, s) ==
  \A i \in Entries :
    /\ IF s.finish[i] THEN Finishes(S, k, past, i)
       ELSE i \in Type => s.work[i] = pool_has[i] - S[k].needs[i]
    /\ i \in s.behind <=> s.finish[i] /\ i \notin Type /\ Adds(S, k, i)

(* Everybody up to place n who can has finished.                           *)
DoneUpTo(S, k, past, s, n) ==
  \A i \in Entries : i <= n /\ Finishes(S, k, past, i) => s.finish[i]

LEMMA TotalType ==
  ASSUME NEW a \in [Type -> Nat] PROVE Total(a) \in Nat
<1> DEFINE f == [t \in Type |-> {t} \X (1 .. a[t])]
           R == {{t} \X (1 .. a[t]) : t \in Type}
<1>1. IsFiniteSet(Type)
  BY SizeAssumption, FS_Interval DEF Type
<1>2. f \in Surjection(Type, R)
  BY DEF Surjection
<1>3. \A t \in Type : IsFiniteSet({t} \X (1 .. a[t]))
  <2> TAKE t \in Type
  <2>1. IsFiniteSet(1 .. a[t])
    BY FS_Interval
  <2>2. IsFiniteSet({t})
    BY FS_Singleton
  <2> QED
    BY <2>1, <2>2, FS_Product
<1>4. IsFiniteSet(R)
  <2> HIDE DEF f, R
  <2> QED
    BY <1>1, <1>2, FS_Surjection
<1>5. \A T \in R : IsFiniteSet(T)
  BY <1>3
<1> HIDE DEF R
<1>6. IsFiniteSet(UNION R)
  BY <1>4, <1>5, FS_UNION
<1> QED
  BY <1>6, FS_CardinalityType DEF Total, R

LEMMA VisitType ==
  ASSUME NEW S, NEW k, NEW past, ScanInput(S, k, past),
         NEW s \in ScanState, NEW i \in Entries
  PROVE  Visit(S, k, past, s, i) \in ScanState
<1> DEFINE total == Total(Allocated(S, k, i))
<1>1. CASE S[i] # NULL
  <2>1. S[i] \in Process
    BY <1>1, SizeAssumption DEF ScanInput, Entry, Entries, Slot
  <2>2. Allocated(S, k, i) \in [Type -> Nat]
    BY <2>1 DEF Allocated, Process
  <2>3. total \in Int
    BY <2>2, TotalType
  <2> HIDE DEF total
  <2>4. [t \in Type |-> IF t = i THEN s.work[t] + total ELSE s.work[t]]
          \in [Type -> Int]
    BY <2>3 DEF ScanState
  <2>5. Finish(S, k, s, i) \in ScanState
    BY <2>4 DEF Finish, ScanState, total
  <2> QED
    BY <2>5 DEF Visit
<1>2. CASE S[i] = NULL
  BY <1>2 DEF Visit
<1> QED
  BY <1>1, <1>2

(* A visit in a sound state finishes exactly a process that can.           *)
LEMMA VisitIs ==
  ASSUME NEW S, NEW k, NEW past, ScanInput(S, k, past),
         NEW s \in ScanState, Sound(S, k, past, s), NEW i \in Entries
  PROVE  LET v == Visit(S, k, past, s, i)
         IN  /\ Sound(S, k, past, v)
             /\ v.finish = [s.finish EXCEPT ![i] = @ \/ Finishes(S, k, past, i)]
             /\ (s.finish[i] <=> Finishes(S, k, past, i)) => v = s
<1>1. /\ s.finish \in [Entries -> BOOLEAN] /\ s.work \in [Type -> Int]
      /\ i \in Slot
  BY SizeAssumption DEF ScanState, ScanInput, Entries, Slot
<1>2. ~s.finish[i] => (S[i] # NULL /\ CanFinish(S, past, s, i)
                         <=> Finishes(S, k, past, i))
  BY DEF Sound, CanFinish, Finishes, FitsWork
<1>3. s.finish[i] => Finishes(S, k, past, i)
  BY DEF Sound
<1>4. CASE S[i] # NULL /\ ~s.finish[i] /\ CanFinish(S, past, s, i)
  <2> DEFINE v == Finish(S, k, s, i)
  <2>1. /\ Visit(S, k, past, s, i) = v /\ Finishes(S, k, past, i)
        /\ s.finish[i] = FALSE
    BY <1>1, <1>2, <1>4 DEF Visit
  <2>2. /\ v.finish = [s.finish EXCEPT ![i] = TRUE]
        /\ \A t \in Type : t # i => v.work[t] = s.work[t]
        /\ v.behind = s.behind \cup {j \in {i} \ Type : Adds(S, k, j)}
    BY DEF Finish
  <2> HIDE DEF v
  <2>3. ASSUME NEW j \in Entries
        PROVE  /\ IF v.finish[j] THEN Finishes(S, k, past, j)
                  ELSE j \in Type => v.work[j] = pool_has[j] - S[k].needs[j]
               /\ j \in v.behind <=> v.finish[j] /\ j \notin Type /\ Adds(S, k, j)
    <3>1. /\ IF s.finish[j] THEN Finishes(S, k, past, j)
             ELSE j \in Type => s.work[j] = pool_has[j] - S[k].needs[j]
          /\ j \in s.behind <=> s.finish[j] /\ j \notin Type /\ Adds(S, k, j)
      BY DEF Sound
    <3>2. CASE j = i
      <4>1. v.finish[j] = TRUE
        BY <1>1, <2>2, <3>2
      <4> QED
        BY <2>1, <2>2, <3>1, <3>2, <4>1
    <3>3. CASE j # i
      <4>1. v.finish[j] = s.finish[j]
        BY <1>1, <2>2, <3>3
      <4>2. j \in v.behind <=> j \in s.behind
        BY <2>2, <3>3
      <4> QED
        BY <2>2, <3>1, <3>3, <4>1, <4>2
    <3> QED
      BY <3>2, <3>3
  <2>4. Sound(S, k, past, v)
    BY <2>3 DEF Sound
  <2> QED
    BY <1>1, <2>1, <2>2, <2>4
<1>5. CASE ~(S[i] # NULL /\ ~s.finish[i] /\ CanFinish(S, past, s, i))
  <2>1. Visit(S, k, past, s, i) = s
    BY <1>5 DEF Visit
  <2>2. s.finish[i] \/ ~Finishes(S, k, past, i)
    BY <1>2, <1>5
  <2>3. s.finish = [s.finish EXCEPT ![i] = @ \/ Finishes(S, k, past, i)]
    BY <1>1, <2>2, <1>3
  <2> QED
    BY <2>1, <2>3
<1> QED
  BY <1>4, <1>5

(* The inner loop, visit by visit.                                         *)
PassRun(S, k, past, s, f) ==
  /\ f \in [0 .. process_count - 1 -> ScanState]
  /\ f[0] = [s EXCEPT !.changed = FALSE]
  /\ \A i \in Entries : f[i] = Visit(S, k, past, f[i - 1], i)
  /\ PassOver(S, k, past, s) = f[process_count - 1]

LEMMA PassRuns ==
  ASSUME NEW S, NEW k, NEW past, ScanInput(S, k, past), NEW s \in ScanState
  PROVE  \E f : PassRun(S, k, past, s, f)
<1> DEFINE n == process_count - 1
           X == ScanState
           m == [s EXCEPT !.changed = FALSE]
           step == [b \in X |-> [i \in 0 + 1 .. n |-> Visit(S, k, past, b, i)]]
           Body(f) == [i \in 0 .. n |-> IF i = 0 THEN m
                                        ELSE Visit(S, k, past, f[i - 1], i)]
           f == CHOOSE f : f = Body(f)
<1>1. /\ n \in Nat /\ Entries = 1 .. n /\ 0 + 1 = 1 /\ 0 <= n
      /\ \A i \in 1 .. n : i \in 0 .. n /\ i - 1 \in 0 .. n /\ i # 0
      /\ 0 \in 0 .. n /\ n \in 0 .. n
  BY DEF ScanInput, Live, Slot, Entries
<1>2. m \in X
  BY DEF ScanState
<1>3. \A b \in X, i \in 1 .. n : Visit(S, k, past, b, i) \in X
  BY <1>1, VisitType
<1>4. PassOver(S, k, past, s) = f[n]
  BY DEF PassOver
<1> HIDE DEF X, n, m
<1>5. step \in [X -> [0 + 1 .. n -> X]]
  BY <1>1, <1>3
<1>6. PICK g : Runs(g, X, 0, n, m, step)
  <2> HIDE DEF step
  <2> QED
    BY <1>1, <1>2, <1>5, LoopRuns
<1>7. g = Body(g)
  <2>1. ASSUME NEW j \in 1 .. n PROVE g[j] = Visit(S, k, past, g[j - 1], j)
    <3>1. g[j - 1] \in X
      BY <1>1, <1>6 DEF Runs
    <3> QED
      BY <1>1, <1>6, <3>1 DEF Runs
  <2>2. \A j \in 0 .. n : g[j] = Body(g)[j]
    BY <1>1, <1>6, <2>1 DEF Runs
  <2> QED
    BY <1>6, <2>2 DEF Runs
<1>8. f = Body(f)
  BY <1>7
<1> HIDE DEF f
<1>9. /\ DOMAIN f = 0 .. n /\ f[0] = m
      /\ \A j \in 1 .. n : f[j] = Visit(S, k, past, f[j - 1], j)
  BY <1>1, <1>8
<1>10. \A j \in 0 .. n : f[j] \in X
  <2> DEFINE T == {j \in 0 .. n : f[j] \in X}
  <2>1. 0 \in T
    BY <1>1, <1>2, <1>9
  <2>2. ASSUME NEW j \in 0 + 1 .. n, j - 1 \in T PROVE j \in T
    BY <1>1, <1>3, <1>9, <2>2
  <2> HIDE DEF T
  <2>3. \A j \in 0 .. n : j \in T
    BY <1>1, <2>1, <2>2, EachPass
  <2> QED
    BY <2>3 DEF T
<1>11. f \in [0 .. n -> X]
  BY <1>8, <1>10
<1>12. PassRun(S, k, past, s, f)
  BY <1>1, <1>4, <1>9, <1>11 DEF PassRun, X, n, m
<1> QED
  BY <1>12

(* One pass finishes everybody who can.  A second one changes nothing.     *)
LEMMA PassIs ==
  ASSUME NEW S, NEW k, NEW past, ScanInput(S, k, past),
         NEW s \in ScanState, Sound(S, k, past, s)
  PROVE  LET p == PassOver(S, k, past, s)
         IN  /\ p \in ScanState /\ Sound(S, k, past, p)
             /\ DoneUpTo(S, k, past, p, process_count - 1)
             /\ DoneUpTo(S, k, past, s, process_count - 1) => ~p.changed
<1> DEFINE n == process_count - 1
           start == [s EXCEPT !.changed = FALSE]
<1>1. PICK f : PassRun(S, k, past, s, f)
  BY PassRuns
<1>2. n \in Nat /\ 0 <= n /\ Entries = 1 .. n /\ 0 \in 0 .. n /\ n \in 0 .. n
  BY DEF ScanInput, Live, Slot, Entries
<1>3. /\ f \in [0 .. n -> ScanState] /\ f[0] = start
      /\ \A i \in 1 .. n : f[i] = Visit(S, k, past, f[i - 1], i)
      /\ PassOver(S, k, past, s) = f[n]
  BY <1>1, <1>2 DEF PassRun
<1>4. /\ start \in ScanState /\ start.finish = s.finish /\ start.work = s.work
      /\ start.changed = FALSE
  BY DEF ScanState
<1>5. Sound(S, k, past, start)
  BY <1>4 DEF Sound
<1> HIDE DEF n, start
<1> DEFINE T == {j \in 0 .. n : /\ Sound(S, k, past, f[j])
                                /\ DoneUpTo(S, k, past, f[j], j)}
<1>6. 0 \in T
  BY <1>2, <1>3, <1>5 DEF DoneUpTo
<1>7. ASSUME NEW j \in 0 + 1 .. n, j - 1 \in T PROVE j \in T
  <2>1. /\ j \in Entries /\ j \in 0 .. n /\ j - 1 \in 0 .. n
        /\ f[j - 1] \in ScanState /\ f[j] = Visit(S, k, past, f[j - 1], j)
    BY <1>2, <1>3
  <2>2. Sound(S, k, past, f[j - 1]) /\ DoneUpTo(S, k, past, f[j - 1], j - 1)
    BY <1>7
  <2>3. /\ Sound(S, k, past, f[j])
        /\ f[j].finish = [f[j - 1].finish EXCEPT
                            ![j] = @ \/ Finishes(S, k, past, j)]
    BY <2>1, <2>2, VisitIs
  <2>4. f[j - 1].finish \in [Entries -> BOOLEAN]
    BY <2>1 DEF ScanState
  <2>5. DoneUpTo(S, k, past, f[j], j)
    <3> SUFFICES ASSUME NEW i \in Entries, i <= j, Finishes(S, k, past, i)
                 PROVE  f[j].finish[i]
      BY DEF DoneUpTo
    <3>1. CASE i = j
      BY <2>1, <2>3, <2>4, <3>1
    <3>2. CASE i # j
      <4>1. i <= j - 1
        BY <1>2, <3>2
      <4> QED
        BY <2>2, <2>3, <2>4, <3>2, <4>1 DEF DoneUpTo
    <3> QED
      BY <3>1, <3>2
  <2> QED
    BY <2>1, <2>3, <2>5
<1> HIDE DEF T
<1>8. \A j \in 0 .. n : j \in T
  BY <1>2, <1>6, <1>7, EachPass
<1>9. Sound(S, k, past, f[n]) /\ DoneUpTo(S, k, past, f[n], n)
  BY <1>2, <1>8 DEF T
<1>10. ASSUME DoneUpTo(S, k, past, s, n) PROVE ~f[n].changed
  <2> DEFINE U == {j \in 0 .. n : f[j] = start}
  <2>1. 0 \in U
    BY <1>2, <1>3
  <2>2. ASSUME NEW j \in 0 + 1 .. n, j - 1 \in U PROVE j \in U
    <3>1. j \in Entries /\ j \in 0 .. n /\ f[j] = Visit(S, k, past, start, j)
      BY <1>2, <1>3, <2>2
    <3>2. start.finish[j] <=> Finishes(S, k, past, j)
      <4>1. Finishes(S, k, past, j) => start.finish[j]
        BY <1>2, <1>4, <1>10, <3>1 DEF DoneUpTo
      <4>2. start.finish[j] => Finishes(S, k, past, j)
        BY <1>5, <3>1 DEF Sound
      <4> QED
        BY <4>1, <4>2
    <3>3. Visit(S, k, past, start, j) = start
      BY <1>4, <1>5, <3>1, <3>2, VisitIs
    <3> QED
      BY <3>1, <3>3
  <2> HIDE DEF U
  <2>3. \A j \in 0 .. n : j \in U
    BY <1>2, <2>1, <2>2, EachPass
  <2> QED
    BY <1>2, <1>4, <2>3 DEF U
<1> QED
  BY <1>2, <1>3, <1>9, <1>10 DEF n

(* The outer loop, pass by pass.                                           *)
NextPass(S, k, past, s) ==
  IF s.changed THEN PassOver(S, k, past, s) ELSE s

ScanRun(S, k, past, f) ==
  /\ f \in [0 .. process_count -> ScanState]
  /\ f[0] = ScanStart(S, k)
  /\ \A j \in 1 .. process_count : f[j] = NextPass(S, k, past, f[j - 1])
  /\ Scan(S, k, past) = f[process_count]

LEMMA StartIs ==
  ASSUME NEW S, NEW k, NEW past, ScanInput(S, k, past)
  PROVE  /\ ScanStart(S, k) \in ScanState
         /\ Sound(S, k, past, ScanStart(S, k))
<1>1. S[k] \in Process
  BY DEF ScanInput, Live, Entry
<1>2. \A t \in Type : pool_has[t] - S[k].needs[t] \in Int
  BY <1>1 DEF ScanInput, Process
<1> QED
  BY <1>2 DEF ScanStart, ScanState, Sound

LEMMA ScanRuns ==
  ASSUME NEW S, NEW k, NEW past, ScanInput(S, k, past)
  PROVE  \E f : ScanRun(S, k, past, f)
<1> DEFINE n == process_count
           X == ScanState
           m == ScanStart(S, k)
           step == [b \in X |-> [j \in 0 + 1 .. n |-> NextPass(S, k, past, b)]]
           Body(f) == [j \in 0 .. n |-> IF j = 0 THEN m
                                        ELSE IF f[j - 1].changed
                                        THEN PassOver(S, k, past, f[j - 1])
                                        ELSE f[j - 1]]
           f == CHOOSE f : f = Body(f)
<1>1. /\ n \in Nat /\ 0 + 1 = 1 /\ 0 <= n
      /\ \A j \in 1 .. n : j \in 0 .. n /\ j - 1 \in 0 .. n /\ j # 0
      /\ 0 \in 0 .. n /\ n \in 0 .. n
  BY DEF ScanInput
<1>2. m \in X
  BY StartIs
<1>3. \A b \in X : NextPass(S, k, past, b) \in X
  <2> SUFFICES ASSUME NEW b \in X PROVE PassOver(S, k, past, b) \in X
    BY DEF NextPass
  <2>1. PICK g : PassRun(S, k, past, b, g)
    BY PassRuns
  <2>2. process_count - 1 \in 0 .. process_count - 1
    BY DEF ScanInput, Live, Slot
  <2> QED
    BY <2>1, <2>2 DEF PassRun
<1>4. Scan(S, k, past) = f[n]
  BY DEF Scan
<1> HIDE DEF X, n, m
<1>5. step \in [X -> [0 + 1 .. n -> X]]
  BY <1>3
<1>6. PICK g : Runs(g, X, 0, n, m, step)
  <2> HIDE DEF step
  <2> QED
    BY <1>1, <1>2, <1>5, LoopRuns
<1>7. g = Body(g)
  <2>1. ASSUME NEW j \in 1 .. n PROVE g[j] = NextPass(S, k, past, g[j - 1])
    <3>1. g[j - 1] \in X
      BY <1>1, <1>6 DEF Runs
    <3> QED
      BY <1>1, <1>6, <3>1 DEF Runs
  <2>2. \A j \in 0 .. n : g[j] = Body(g)[j]
    BY <1>1, <1>6, <2>1 DEF Runs, NextPass
  <2> QED
    BY <1>6, <2>2 DEF Runs
<1>8. f = Body(f)
  BY <1>7
<1> HIDE DEF f
<1>9. /\ DOMAIN f = 0 .. n /\ f[0] = m
      /\ \A j \in 1 .. n : f[j] = NextPass(S, k, past, f[j - 1])
  BY <1>1, <1>8 DEF NextPass
<1>10. \A j \in 0 .. n : f[j] \in X
  <2> DEFINE T == {j \in 0 .. n : f[j] \in X}
  <2>1. 0 \in T
    BY <1>1, <1>2, <1>9
  <2>2. ASSUME NEW j \in 0 + 1 .. n, j - 1 \in T PROVE j \in T
    BY <1>1, <1>3, <1>9, <2>2
  <2> HIDE DEF T
  <2>3. \A j \in 0 .. n : j \in T
    BY <1>1, <2>1, <2>2, EachPass
  <2> QED
    BY <2>3 DEF T
<1>11. f \in [0 .. n -> X]
  BY <1>8, <1>10
<1>12. ScanRun(S, k, past, f)
  BY <1>1, <1>4, <1>9, <1>11 DEF ScanRun, X, n, m
<1> QED
  BY <1>12

(* The loop ends with its second pass at the latest.                       *)
LEMMA ScanIs ==
  ASSUME NEW S, NEW k, NEW past, ScanInput(S, k, past)
  PROVE  /\ Scan(S, k, past) \in ScanState /\ Sound(S, k, past, Scan(S, k, past))
         /\ ~Scan(S, k, past).changed
         /\ \A i \in Entries :
              Scan(S, k, past).finish[i] <=> Finishes(S, k, past, i)
<1>1. PICK f : ScanRun(S, k, past, f)
  BY ScanRuns
<1> DEFINE n == process_count
           T == {j \in 0 .. n :
                   /\ Sound(S, k, past, f[j])
                   /\ j = 0 => f[j].changed
                   /\ j > 0 => DoneUpTo(S, k, past, f[j], n - 1)
                   /\ j > 1 => ~f[j].changed}
<1>2. n \in Nat /\ n >= 2 /\ 0 <= n /\ 0 \in 0 .. n /\ n \in 0 .. n
  BY DEF ScanInput, Live, Slot
<1>3. /\ f \in [0 .. n -> ScanState] /\ f[0] = ScanStart(S, k)
      /\ \A j \in 1 .. n : f[j] = NextPass(S, k, past, f[j - 1])
      /\ Scan(S, k, past) = f[n]
  BY <1>1 DEF ScanRun
<1> HIDE DEF n
<1>4. 0 \in T
  BY <1>2, <1>3, StartIs DEF ScanStart
<1>5. ASSUME NEW j \in 0 + 1 .. n, j - 1 \in T PROVE j \in T
  <2>1. /\ j \in 1 .. n /\ j \in 0 .. n /\ j - 1 \in 0 .. n
        /\ f[j - 1] \in ScanState
        /\ f[j] = NextPass(S, k, past, f[j - 1])
    BY <1>2, <1>3
  <2>2. /\ Sound(S, k, past, f[j - 1])
        /\ j = 1 => f[j - 1].changed
        /\ j > 1 => DoneUpTo(S, k, past, f[j - 1], n - 1)
    BY <1>2, <1>5, <2>1
  <2>3. CASE f[j - 1].changed
    <3>1. f[j] = PassOver(S, k, past, f[j - 1])
      BY <2>1, <2>3 DEF NextPass
    <3>2. /\ Sound(S, k, past, f[j])
          /\ DoneUpTo(S, k, past, f[j], n - 1)
          /\ DoneUpTo(S, k, past, f[j - 1], n - 1) => ~f[j].changed
      BY <2>1, <2>2, <3>1, PassIs DEF n
    <3> QED
      BY <2>1, <2>2, <3>2
  <2>4. CASE ~f[j - 1].changed
    <3>1. f[j] = f[j - 1] /\ j > 1
      BY <2>1, <2>2, <2>4 DEF NextPass
    <3> QED
      BY <2>1, <2>2, <2>4, <3>1
  <2> QED
    BY <2>3, <2>4
<1> HIDE DEF T
<1>6. \A j \in 0 .. n : j \in T
  BY <1>2, <1>4, <1>5, EachPass
<1>7. /\ Sound(S, k, past, f[n]) /\ DoneUpTo(S, k, past, f[n], n - 1)
      /\ ~f[n].changed
  BY <1>2, <1>6 DEF T
<1>8. ASSUME NEW i \in Entries
      PROVE  f[n].finish[i] <=> Finishes(S, k, past, i)
  <2>1. i <= n - 1
    BY <1>2 DEF Entries, n
  <2>2. Finishes(S, k, past, i) => f[n].finish[i]
    BY <1>7, <2>1 DEF DoneUpTo
  <2>3. f[n].finish[i] => Finishes(S, k, past, i)
    BY <1>7 DEF Sound
  <2> QED
    BY <2>2, <2>3
<1>9. f[n] \in ScanState
  BY <1>2, <1>3
<1> QED
  BY <1>3, <1>7, <1>8, <1>9

(* It writes behind the vector for the target, which needs something, and  *)
(* for those that have something already.                                  *)
LEMMA ScanWrites ==
  ASSUME NEW S, NEW k, NEW past, ScanInput(S, k, past)
  PROVE  Scan(S, k, past).behind # {} <=> ScanOverruns(S, k, past)
<1> DEFINE end == Scan(S, k, past)
<1>1. /\ end \in ScanState /\ Sound(S, k, past, end)
      /\ \A i \in Entries : end.finish[i] <=> Finishes(S, k, past, i)
  BY ScanIs
<1> HIDE DEF end
<1>2. \A i \in Slot : S[i] # NULL => i \in Entries /\ S[i] \in Process
  BY SizeAssumption DEF ScanInput, Live, Entries, Slot, Entry
<1>3. ASSUME NEW i \in Slot, S[i] # NULL
      PROVE  Adds(S, k, i) <=> i = k \/ \E t \in Type : S[i].has[t] > 0
  <2>1. /\ S[i].has \in [Type -> Nat] /\ S[i].needs \in [Type -> Nat]
    BY <1>2, <1>3 DEF Process
  <2>2. CASE i = k
    <3>1. PICK t \in Type : S[i].needs[t] > 0
      BY <2>2 DEF ScanInput, Needy
    <3>2. Allocated(S, k, i)[t] = S[i].has[t] + S[i].needs[t]
      BY <2>2 DEF Allocated
    <3>3. Allocated(S, k, i)[t] > 0
      BY <2>1, <3>1, <3>2
    <3> QED
      BY <2>2, <3>3 DEF Adds
  <2>3. CASE i # k
    BY <2>3 DEF Adds, Allocated
  <2> QED
    BY <2>2, <2>3
<1>4. \A i \in Entries :
        i \in end.behind <=> Finishes(S, k, past, i) /\ i \notin Type /\ Adds(S, k, i)
  BY <1>1 DEF Sound
<1>5. end.behind \subseteq Entries /\ Entries \subseteq Slot
  BY <1>1, SizeAssumption DEF ScanState, ScanInput, Entries, Slot
<1>6. \A i : Finishes(S, k, past, i) => S[i] # NULL
  BY DEF Finishes
<1>7. ASSUME end.behind # {} PROVE ScanOverruns(S, k, past)
  BY <1>3, <1>4, <1>5, <1>6, <1>7 DEF ScanOverruns
<1>8. ASSUME ScanOverruns(S, k, past) PROVE end.behind # {}
  BY <1>2, <1>3, <1>4, <1>6, <1>8 DEF ScanOverruns
<1> QED
  BY <1>7, <1>8 DEF end

(* resource_manager.c:264-299: in every reachable state, whatever is asked *)
(* for and whatever is read behind the vector, the loop of the safety scan *)
(* ends and finishes exactly the processes that Finishes names.            *)
THEOREM ScanIsLoopHolds == Spec => []ScanIsLoop
<1>1. IInv => ScanIsLoop
  <2> SUFFICES ASSUME IInv, status = "running",
                      NEW q \in Asker, NEW wanted \in Wanted,
                      NEW S \in Requested(q, wanted), NEW k \in Slot,
                      IsTarget(S, k), NEW past \in PastReads(S)
               PROVE  LET end == Scan(S, k, past) IN
                      /\ ~end.changed
                      /\ \A i \in Entries : end.finish[i] <=> Finishes(S, k, past, i)
                      /\ end.behind # {} <=> ScanOverruns(S, k, past)
    BY DEF ScanIsLoop
  <2>1. SameBooks(S)
    BY RequestedTable
  <2>2. /\ S \in [Slot -> Entry] /\ k \in Live(S) /\ Needy(S[k])
        /\ Live(S) = Live(process_resources)
    BY <2>1 DEF SameBooks, IsTarget, Runnable, Live
  <2>3. /\ process_count \in Nat /\ process_count - 1 <= MaxResources
        /\ pool_has \in [Type -> Nat]
    BY SizeAssumption DEF IInv, TypeOK, InsideTable
  <2>4. \A i \in Live(S) : i < process_count
    BY <2>2 DEF IInv, OneEntryPerPid
  <2>5. past \in [Slot \ Type -> BOOLEAN]
    BY DEF PastReads
  <2>6. ScanInput(S, k, past)
    BY <2>2, <2>3, <2>4, <2>5 DEF ScanInput
  <2> QED
    BY <2>6, ScanIs, ScanWrites
<1> QED
  BY <1>1, Invariance, PTL
=============================================================================
