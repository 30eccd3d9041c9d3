--------------------------- MODULE ResourceManager ---------------------------
(***************************************************************************)
(* server/resource_manager.c: the pool of resource files, the table of     *)
(* client processes and the "step of the banker's algorithm".  All its     *)
(* operations run on the single thread func_send of server/main.c, so each *)
(* handler is one action.  A request first goes through                    *)
(* resource_manager_add_request and then, for a process that is already    *)
(* registered, through resource_manager_step; the actions below are the    *)
(* outcomes of that pair of calls.                                         *)
(*                                                                         *)
(* The two calls are made for the pid that the request bears.  A request   *)
(* with the wrong number of types has been refused and freed by then, and  *)
(* bears whatever its block holds (server/main.c:488-497): in Next, p is   *)
(* the client that asks and q the pid that is read.                        *)
(***************************************************************************)
EXTENDS Integers, FiniteSets

CONSTANTS
  Pid,            \* the process ids of the clients that ever connect
  Stale,          \* what a freed request may read as: pids of no client, nor
                  \* the 0 of the pool's entry
  File,           \* the regular files of config.workingDirectory
  NTypes,         \* config.typesOfResources
  MaxResources,   \* config.maximumAllowedResources: size of the process table
  Wanted,         \* the request vectors clients may send
  OldLinks,       \* the symlinks that earlier servers may have left behind
  LinkCallsFail,  \* whether the file system may refuse symlink and unlink
  NULL            \* an empty entry of the process table

Type == 0 .. NTypes - 1

Slot == 1 .. MaxResources

(* The pids an entry of the process table can get.                         *)
Asker == Pid \cup Stale

ASSUME PidAssumption == IsFiniteSet(Asker) /\ Pid \cap Stale = {}
ASSUME FileAssumption == IsFiniteSet(File)
ASSUME SizeAssumption == NTypes \in Nat \ {0} /\ MaxResources \in Nat \ {0}
ASSUME WantedAssumption == Wanted \subseteq [Type -> Nat]
ASSUME LinkAssumption ==
  OldLinks \subseteq SUBSET (Asker \X File) /\ LinkCallsFail \in BOOLEAN

VARIABLES
  pool_has,             \* process_resources[0]->has
  pool_names,           \* process_resources[0]->individualResourceNames
  process_resources,    \* process_resources[1..]
  process_count,        \* first index never used, 1 for the pool alone
  active_process_count, \* number of registered processes
  links,                \* the symlinks .grant_<pid>_<file> on disk
  leftover,             \* history: those of an earlier server, and those that
                        \* a release could not remove
  heard,                \* the last response code each client was sent
  status                \* "running", "crashed" once the server died, or
                        \* "outgrown" once it wrote behind the process table

rmvars == <<pool_has, pool_names, process_resources, process_count,
            active_process_count, links, leftover, heard, status>>

(* One process_resource_information; has counts the files that got a link. *)
Process == [pid: Asker, has: [Type -> Nat], needs: [Type -> Nat],
            max_needs: [Type -> Nat], names: [Type -> SUBSET File]]

ASSUME NullAssumption == NULL \notin Process

Code == {"none", "OK", "MAX_RESOURCE_NEED_REGISTERED",
         "RESOURCE_LIMIT_EXCEEDED", "DEADLOCK",
         "INCORRECT_NUMBER_OF_RESOURCES", "finalized"}

Zero == [t \in Type |-> 0]

Live(S) == {i \in Slot : S[i] # NULL}

-----------------------------------------------------------------------------
(* Mutant: the search stops one entry early.                               *)
IsIndexOf_StopsEarly(p, i) ==
  /\ i \in Live(process_resources)
  /\ i < process_count - 1
  /\ process_resources[i].pid = p

(* find_process_index(p) = i.                                              *)
IsIndexOf(p, i) ==
  /\ i \in Live(process_resources)
  /\ i < process_count
  /\ process_resources[i].pid = p

Registered(p) == \E i \in Slot : IsIndexOf(p, i)

(* Mutant: an entry in use is taken for an empty one.                      *)
Hole_Any(i) == i \in 1 .. process_count - 1

(* The search for an empty entry below process_count, lowest first; with   *)
(* none, the table grows.  max_process_count is never assigned, so the     *)
(* limit it should impose compares process_count with 0 and never applies. *)
Hole(i) == i \in 1 .. process_count - 1 /\ process_resources[i] = NULL

NoHole == \A k \in 1 .. process_count - 1 : ~Hole(k)

IsFreeSlot(i) ==
  \/ Hole(i) /\ \A k \in 1 .. i - 1 : ~Hole(k)
  \/ i = process_count /\ NoHole

NewProcess(p, wanted) ==
  [pid |-> p, has |-> Zero, needs |-> Zero, max_needs |-> wanted,
   names |-> [t \in Type |-> {}]]

(* The needs of an existing process grow type by type until one exceeds    *)
(* its declared maximum; what was added up to there stays.                 *)
Exceeds(r, wanted, t) == r.needs[t] + wanted[t] > r.max_needs[t]

AddNeeds(r, wanted) ==
  [r EXCEPT !.needs =
     [t \in Type |-> IF \E u \in 0 .. t - 1 : Exceeds(r, wanted, u)
                     THEN r.needs[t]
                     ELSE r.needs[t] + wanted[t]]]

-----------------------------------------------------------------------------
(* resource_manager_step: the first process whose whole pending need fits  *)
(* in the pool is the target, whoever heard the request.                    *)
Needy(r) == \E t \in Type : r.needs[t] > 0

Runnable(S) ==
  {i \in Live(S) : Needy(S[i]) /\ \A t \in Type : S[i].needs[t] <= pool_has[t]}

IsTarget(S, k) == k \in Runnable(S) /\ \A i \in Runnable(S) : k <= i

(* The test of the safety scan for entry i.  The code indexes the vector   *)
(* work, one entry per type, with the PROCESS index i: every need of       *)
(* process i is compared with what the grant leaves of type i, and the     *)
(* allocation of a process that can finish is added where no other process *)
(* reads it, so a single pass decides.                                     *)
FitsWork(S, k, i) ==
  \A t \in Type : S[i].needs[t] <= pool_has[i] - S[k].needs[i]

(* Entries whose index is past the vector read memory behind it; past[i]   *)
(* is what that read yields for entry i.  A process that needs nothing     *)
(* passes whatever is read.                                                *)
PastReads(S) ==
  {past \in [Slot \ Type -> BOOLEAN] :
     \A i \in Slot \ Type : S[i] # NULL /\ ~Needy(S[i]) => past[i]}

Finishes(S, k, past, i) ==
  /\ S[i] # NULL
  /\ IF i \in Type THEN FitsWork(S, k, i) ELSE past[i]

(* An empty entry never finishes, so one makes every scan fail.            *)
ScanSafe(S, k, past) ==
  \A i \in 1 .. process_count - 1 : Finishes(S, k, past, i)

(* The scan adds the allocation of an entry past the vector to memory that *)
(* belongs to another object.                                              *)
ScanOverruns(S, k, past) ==
  \E i \in Slot \ Type :
    /\ Finishes(S, k, past, i)
    /\ i = k \/ \E t \in Type : S[i].has[t] > 0

(* What the scan concludes.  The array finish is the next block on the     *)
(* heap: an overrun may set flags of it, and the conclusion is then open.  *)
Verdicts(S, k, past) ==
  IF ScanOverruns(S, k, past) THEN BOOLEAN ELSE {ScanSafe(S, k, past)}

(* The files a grant moves: for each type as many as are needed, or as     *)
(* many as the pool lists.                                                 *)
Picks(need) ==
  {taken \in [Type -> SUBSET File] :
     \A t \in Type :
       /\ taken[t] \subseteq pool_names[t]
       /\ \/ Cardinality(taken[t]) = need[t]
          \/ taken[t] = pool_names[t] /\ Cardinality(taken[t]) < need[t]}

(* Symlinks that resource_manager_grant_resource manages to create; without*)
(* one the file is moved all the same, only has is not incremented.        *)
Linked(taken) ==
  {linked \in [Type -> SUBSET File] :
     /\ \A t \in Type : linked[t] \subseteq taken[t]
     /\ LinkCallsFail \/ linked = taken}

(* Each grant of file f unlinks .grant_<pid>_<f> before it links it again, *)
(* type by type: the last type that takes f decides whether a link is left.*)
Touched(pid, taken) == {<<pid, f>> : f \in UNION {taken[t] : t \in Type}}

MadeLast(pid, taken, linked) ==
  {<<pid, f>> : f \in {g \in File : \E t \in Type :
     g \in linked[t] /\ \A u \in Type : u > t => g \notin taken[u]}}

(* An unlink that fails leaves a link of before, or of another type, and   *)
(* the symlink then fails, too.                                            *)
MayStay(pid, taken, linked) ==
  links \cup {<<pid, f>> : f \in UNION {linked[t] : t \in Type}}

Staying(pid, taken, linked) ==
  {stay \in SUBSET (Touched(pid, taken) \cap MayStay(pid, taken, linked)) :
     LinkCallsFail \/ stay = {}}

LinksAfter(pid, taken, linked, stay) ==
  (links \ Touched(pid, taken)) \cup MadeLast(pid, taken, linked) \cup stay

(* Mutant: the name stays in the pool.                                     *)
NamesLeft_Uncleared(taken) == pool_names

(* What the pool keeps: the name is cleared and the count decremented.     *)
NamesLeft(taken) == [t \in Type |-> pool_names[t] \ taken[t]]

(* Mutant: the pool's count is never decremented.                          *)
CountLeft_Kept(taken) == pool_has

CountLeft(taken) == [t \in Type |-> pool_has[t] - Cardinality(taken[t])]

(* Mutant: what was granted stays in the pending need.                     *)
Receive_NeedsKept(r, taken, linked) ==
  [r EXCEPT
     !.has   = [t \in Type |-> r.has[t] + Cardinality(linked[t])],
     !.names = [t \in Type |-> r.names[t] \cup taken[t]]]

(* What the target gets.                                                   *)
Receive(r, taken, linked) ==
  [r EXCEPT
     !.has   = [t \in Type |-> r.has[t] + Cardinality(linked[t])],
     !.needs = [t \in Type |-> r.needs[t] - Cardinality(taken[t])],
     !.names = [t \in Type |-> r.names[t] \cup taken[t]]]

-----------------------------------------------------------------------------
Init ==
  /\ pool_has = [t \in Type |-> Cardinality(File)]
  /\ pool_names = [t \in Type |-> File]
  /\ process_resources = [i \in Slot |-> NULL]
  /\ process_count = 1
  /\ active_process_count = 0
  /\ links \in OldLinks
  /\ leftover = links
  /\ heard = [p \in Pid |-> "none"]
  /\ status = "running"

(* A client asks again only after one of these answers; it stops and       *)
(* finalizes after any other.                                              *)
MayAsk(p) ==
  /\ status = "running"
  /\ heard[p] \in {"none", "OK", "MAX_RESOURCE_NEED_REGISTERED"}

(* A request that is freed has been refused before.                        *)
Hears(p, q, code) ==
  heard' = [heard EXCEPT ![p] = IF q = p THEN code
                                ELSE "INCORRECT_NUMBER_OF_RESOURCES"]

(* The answer to a pid of no client goes nowhere, or faults in findByPid   *)
(* if the table of connections has a free entry.                           *)
Answer(p, q, code) ==
  /\ Hears(p, q, code)
  /\ status' \in IF q = p THEN {status} ELSE {status, "crashed"}

(* First request of q: an entry is made and the vector becomes the declared*)
(* maximum; nothing is granted.                                            *)
Register(p, q, wanted) ==
  /\ MayAsk(p)
  /\ ~Registered(q)
  /\ \E i \in Slot :
       /\ IsFreeSlot(i)
       /\ process_resources' =
            [process_resources EXCEPT ![i] = NewProcess(q, wanted)]
       /\ process_count' = IF i = process_count THEN process_count + 1
                                                ELSE process_count
  /\ active_process_count' = active_process_count + 1
  /\ Answer(p, q, "MAX_RESOURCE_NEED_REGISTERED")
  /\ UNCHANGED <<pool_has, pool_names, links, leftover>>

(* The entry is written behind the end of the table.  What that destroys   *)
(* is open, and the model says nothing of what follows.                    *)
Outgrow(p, q, wanted) ==
  /\ MayAsk(p)
  /\ ~Registered(q)
  /\ NoHole
  /\ process_count > MaxResources
  /\ process_count' = process_count + 1
  /\ status' = "outgrown"
  /\ Hears(p, q, heard[p])
  /\ UNCHANGED <<pool_has, pool_names, process_resources,
                 active_process_count, links, leftover>>

(* The request takes a pending need above the declared maximum.            *)
ExceedMaximum(p, q, wanted) ==
  /\ MayAsk(p)
  /\ \E i \in Slot :
       /\ IsIndexOf(q, i)
       /\ \E t \in Type : Exceeds(process_resources[i], wanted, t)
       /\ process_resources' =
            [process_resources EXCEPT ![i] = AddNeeds(@, wanted)]
  /\ Answer(p, q, "RESOURCE_LIMIT_EXCEEDED")
  /\ UNCHANGED <<pool_has, pool_names, process_count, active_process_count,
                 links, leftover>>

(* The table on which resource_manager_step runs after the request of the  *)
(* registered process q was added.                                         *)
Requested(q, wanted) ==
  {[process_resources EXCEPT ![i] = AddNeeds(@, wanted)] :
     i \in {k \in Slot : /\ IsIndexOf(q, k)
                         /\ \A t \in Type :
                              ~Exceeds(process_resources[k], wanted, t)}}

(* The step finds the grant safe: the target receives its whole need, and  *)
(* the answer OK goes to q, the sender of the request.                     *)
Grant(p, q, wanted) ==
  /\ MayAsk(p)
  /\ \E S \in Requested(q, wanted) : \E k \in Slot, past \in PastReads(S) :
       /\ IsTarget(S, k)
       /\ TRUE \in Verdicts(S, k, past)
       /\ \E taken \in Picks(S[k].needs) : \E linked \in Linked(taken) :
            /\ process_resources' =
                 [S EXCEPT ![k] = Receive(@, taken, linked)]
            /\ pool_has' = CountLeft(taken)
            /\ pool_names' = NamesLeft(taken)
            /\ \E stay \in Staying(S[k].pid, taken, linked) :
                 links' = LinksAfter(S[k].pid, taken, linked, stay)
            /\ leftover' = leftover \ Touched(S[k].pid, taken)
  /\ Answer(p, q, "OK")
  /\ UNCHANGED <<process_count, active_process_count>>

(* The scan fails: the need stays pending and q is told DEADLOCK.          *)
Refuse(p, q, wanted) ==
  /\ MayAsk(p)
  /\ \E S \in Requested(q, wanted) : \E k \in Slot, past \in PastReads(S) :
       /\ IsTarget(S, k)
       /\ FALSE \in Verdicts(S, k, past)
       /\ process_resources' = S
  /\ Answer(p, q, "DEADLOCK")
  /\ UNCHANGED <<pool_has, pool_names, process_count, active_process_count,
                 links, leftover>>

(* No process has a pending need that fits in the pool: the step returns   *)
(* NULL, no message can be built from it, and send_message takes strlen of *)
(* a null string.  The server dies and q hears nothing; only a pid that has*)
(* no queue spares it that.                                                *)
NoTarget(p, q, wanted) ==
  /\ MayAsk(p)
  /\ \E S \in Requested(q, wanted) :
       /\ Runnable(S) = {}
       /\ process_resources' = S
  /\ Hears(p, q, heard[p])
  /\ status' \in IF q = p THEN {"crashed"} ELSE {"crashed", status}
  /\ UNCHANGED <<pool_has, pool_names, process_count, active_process_count,
                 links, leftover>>

(* The write behind the vector work may destroy the allocator's data, and  *)
(* the next allocation then aborts.                                        *)
Overrun(p, q, wanted) ==
  /\ MayAsk(p)
  /\ \E S \in Requested(q, wanted) : \E k \in Slot, past \in PastReads(S) :
       /\ IsTarget(S, k)
       /\ ScanOverruns(S, k, past)
       /\ process_resources' = S
  /\ Hears(p, q, heard[p])
  /\ status' = "crashed"
  /\ UNCHANGED <<pool_has, pool_names, process_count, active_process_count,
                 links, leftover>>

(* Mutant: only the files of the first type are unlinked.                  *)
LinksOf_FirstType(i) ==
  {<<process_resources[i].pid, f>> : f \in process_resources[i].names[0]}

(* The links a release of entry i removes.                                 *)
LinksOf(i) ==
  {<<process_resources[i].pid, f>> : f \in
     UNION {process_resources[i].names[t] : t \in Type}}

(* The links a release of entry i cannot remove, which it does not notice. *)
StayingOf(i) ==
  {stay \in SUBSET (LinksOf(i) \cap links) : LinkCallsFail \/ stay = {}}

FreeEntry(i) ==
  /\ process_resources' = [process_resources EXCEPT ![i] = NULL]
  /\ \E stay \in StayingOf(i) :
       /\ links' = (links \ LinksOf(i)) \cup stay
       /\ leftover' = (leftover \ LinksOf(i)) \cup stay

(* Mutant: the count of processes falls before the entry is looked up.     *)
Release_CountsFirst(p) ==
  /\ status = "running"
  /\ heard[p] # "finalized"
  /\ IF Registered(p)
     THEN \E i \in Slot : IsIndexOf(p, i) /\ FreeEntry(i)
     ELSE UNCHANGED <<process_resources, links, leftover>>
  /\ active_process_count' = active_process_count - 1
  /\ Answer(p, p, "finalized")
  /\ UNCHANGED <<pool_has, pool_names, process_count>>

(* CLIENT_FINALIZE of p: resource_manager_release unlinks its links and    *)
(* frees its entry, the names it held included.  Nothing goes back to the  *)
(* pool.                                                                   *)
Release(p) ==
  /\ status = "running"
  /\ heard[p] # "finalized"
  /\ IF Registered(p)
     THEN /\ \E i \in Slot : IsIndexOf(p, i) /\ FreeEntry(i)
          /\ active_process_count' = IF active_process_count > 0
                                     THEN active_process_count - 1
                                     ELSE active_process_count
     ELSE UNCHANGED <<process_resources, links, leftover, active_process_count>>
  /\ Answer(p, p, "finalized")
  /\ UNCHANGED <<pool_has, pool_names, process_count>>

Request(p, q, wanted) ==
  \/ Register(p, q, wanted)
  \/ Outgrow(p, q, wanted)
  \/ ExceedMaximum(p, q, wanted)
  \/ Grant(p, q, wanted)
  \/ Refuse(p, q, wanted)
  \/ NoTarget(p, q, wanted)
  \/ Overrun(p, q, wanted)

Next ==
  \E p \in Pid :
    \/ Release(p)
    \/ \E q \in {p} \cup Stale, wanted \in Wanted : Request(p, q, wanted)

Spec == Init /\ [][Next]_rmvars

-----------------------------------------------------------------------------
(* Every variable stays in its type.                                       *)
TypeOK ==
  /\ pool_has \in [Type -> Nat]
  /\ pool_names \in [Type -> SUBSET File]
  /\ process_resources \in [Slot -> Process \cup {NULL}]
  /\ process_count \in Nat \ {0}
  /\ active_process_count \in Nat
  /\ links \subseteq Asker \X File
  /\ leftover \subseteq links
  /\ heard \in [Pid -> Code]
  /\ status \in {"running", "crashed", "outgrown"}

(* The counters the step relies on agree with the name lists it copies     *)
(* from: the pool's count is the number of its names (otherwise a grant    *)
(* would announce more names than it finds), a process never counts more   *)
(* files than it was handed, and active_process_count is the number of     *)
(* entries in use.                                                         *)
CountsMatchNames ==
  /\ \A t \in Type : pool_has[t] = Cardinality(pool_names[t])
  /\ \A i \in Live(process_resources), t \in Type :
       process_resources[i].has[t] <= Cardinality(process_resources[i].names[t])
  /\ active_process_count = Cardinality(Live(process_resources))

(* Within one type a file is in the pool or with one process, never in two *)
(* places: the grant moves the name, and the release frees it once.        *)
FilesInOnePlace ==
  \A t \in Type :
    /\ \A i \in Live(process_resources) :
         process_resources[i].names[t] \cap pool_names[t] = {}
    /\ \A i, k \in Live(process_resources) :
         i # k => process_resources[i].names[t]
                    \cap process_resources[k].names[t] = {}

(* A process id has one entry, below process_count, and a client that      *)
(* finalized has none: a request always finds its own entry and a reused   *)
(* entry never keeps two owners.                                           *)
OneEntryPerPid ==
  /\ \A i \in Live(process_resources) :
       /\ i < process_count
       /\ \A p \in Pid : process_resources[i].pid = p => heard[p] # "finalized"
  /\ \A i, k \in Live(process_resources) :
       process_resources[i].pid = process_resources[k].pid => i = k

(* The process table is allocated for maximumAllowedResources entries and  *)
(* grows without a limit, but entries are reused before it does: it never  *)
(* has more of them than there are pids, and is outgrown only when as many *)
(* processes as it has entries are registered at once.                     *)
Owners == {process_resources[i].pid : i \in Live(process_resources)}

TableFitsPids ==
  /\ process_count <= Cardinality(Asker) + 1
  /\ status = "outgrown" => Cardinality(Owners) = MaxResources

(* A symlink on disk belongs to a registered process that holds the file,  *)
(* or was left by an earlier server, or could not be removed by the release*)
(* of its process: a release whose calls succeed leaves no grant behind,   *)
(* whatever types the files were granted under.                            *)
LinksAreHeld ==
  \A l \in links \ leftover : \E i \in Live(process_resources), t \in Type :
    /\ process_resources[i].pid = l[1]
    /\ l[2] \in process_resources[i].names[t]

(* A grant is all or nothing: when files leave the pool, they go to one    *)
(* process, which is left with no pending need, and the count of the pool  *)
(* falls by exactly that number.                                           *)
GrantIsWhole ==
  [][pool_names' # pool_names =>
       \E i \in Live(process_resources) :
         /\ process_resources'[i].needs = Zero
         /\ \A t \in Type :
              /\ process_resources'[i].names[t] =
                   process_resources[i].names[t]
                     \cup (pool_names[t] \ pool_names'[t])
              /\ pool_has[t] - pool_has'[t] =
                   Cardinality(pool_names[t] \ pool_names'[t])
         /\ \A k \in Slot \ {i} :
              k \in Live(process_resources) =>
                process_resources'[k].names = process_resources[k].names
    ]_rmvars

(* The files the entries of p list, and the clients that have finalized.   *)
FilesOf(p) ==
  [t \in Type |-> {f \in File : \E i \in Live(process_resources) :
     process_resources[i].pid = p /\ f \in process_resources[i].names[t]}]

FilesHeld == [p \in Asker |-> FilesOf(p)]

Finalized == {p \in Pid : heard[p] = "finalized"}

Alloc == INSTANCE Allocation WITH
           Pid  <- Asker,
           free <- pool_names,
           held <- FilesHeld,
           gone <- Finalized

(* Whatever becomes of entries, counters, needs and answers, files only    *)
(* move from the pool to a client that has not finalized, and from a client*)
(* to nobody when it finalizes: a refusal, a crash, the reuse of an entry  *)
(* or the registration of another client never costs or gives anyone one.  *)
ImplementsAllocation == Alloc!Spec
=============================================================================
