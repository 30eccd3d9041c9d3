------------------------------ MODULE FileLock ------------------------------
(***************************************************************************)
(* file_lock_t of server/main.c and the reader and writer threads of one   *)
(* batch that use it.  process_file_requests starts a thread for each      *)
(* request of a full batch and joins them all before func_send goes on, so *)
(* that batches follow one another and leave the lock to the next one.     *)
(*                                                                         *)
(* A section under priority_mutex blocks nowhere but in a condition wait,  *)
(* which releases the mutex: it is one step.  read_count_lock is held by a *)
(* reader that blocks on rw_lock, so both are variables.  rw_lock is       *)
(* released by whichever reader leaves last, not by the one that took it;  *)
(* the default mutex of the build keeps no owner and allows it.            *)
(***************************************************************************)
EXTENDS Integers, FiniteSets

CONSTANTS
  Thread,    \* the threads of a batch, RW_BUFF_SIZE of them
  NoThread   \* nobody holds read_count_lock

ASSUME ThreadAssumption == IsFiniteSet(Thread)
ASSUME NoThreadAssumption == NoThread \notin Thread

VARIABLES
  rw_policy,        \* the option -p, set once
  phase,            \* func_send "collecting" requests or "joining" threads
  kind,             \* message_type of each request of the batch
  pc,               \* where each thread is
  rw_lock,          \* whether the mutex is taken
  read_count_lock,  \* the thread that holds it
  read_count,
  waiting_writers,
  active_writers,
  can_read,         \* threads asleep in pthread_cond_wait(&can_read)
  can_write         \* threads asleep in pthread_cond_wait(&can_write)

rlvars == <<rw_lock, read_count_lock>>               \* readers' priority
wlvars == <<waiting_writers, active_writers, can_read, can_write>>
flvars == <<rw_policy, phase, kind, pc, read_count, rlvars, wlvars>>

Policy == {"simultaneous", "readers", "writers"}

Kind == {"reader", "writer"}

(* "count": holds read_count_lock and blocks on rw_lock; "asleep" in a     *)
(* condition wait; "woken" from it, to test its condition again.           *)
Place == {"start", "count", "asleep", "woken", "inside", "done"}

At(t, k, place) == kind[t] = k /\ pc[t] = place

Goto(t, place) == pc' = [pc EXCEPT ![t] = place]

-----------------------------------------------------------------------------
Init ==
  /\ rw_policy \in Policy
  /\ phase = "collecting"
  /\ kind \in [Thread -> Kind]
  /\ pc = [t \in Thread |-> "done"]
  /\ rw_lock = FALSE
  /\ read_count_lock = NoThread
  /\ read_count = 0
  /\ waiting_writers = 0
  /\ active_writers = 0
  /\ can_read = {}
  /\ can_write = {}

(* A full batch: a thread for each request.  A thread that is created later*)
(* is one that takes its first step later.                                 *)
Begin ==
  /\ phase = "collecting"
  /\ phase' = "joining"
  /\ kind' \in [Thread -> Kind]
  /\ pc' = [t \in Thread |-> "start"]
  /\ UNCHANGED <<rw_policy, read_count, rlvars, wlvars>>

JoinAll ==
  /\ phase = "joining"
  /\ \A t \in Thread : pc[t] = "done"
  /\ phase' = "collecting"
  /\ UNCHANGED <<rw_policy, kind, pc, read_count, rlvars, wlvars>>

-----------------------------------------------------------------------------
(* RW_SIMULTANEOUS: the four functions return at once.                     *)
Pass(t) ==
  /\ rw_policy = "simultaneous"
  /\ \/ pc[t] = "start" /\ Goto(t, "inside")
     \/ pc[t] = "inside" /\ Goto(t, "done")
  /\ UNCHANGED <<rw_policy, phase, kind, read_count, rlvars, wlvars>>

-----------------------------------------------------------------------------
(* RW_READERS_PRIORITY.  The first reader keeps read_count_lock until it   *)
(* has rw_lock for all of them.  (Mutants: later readers are not counted,  *)
(* or take rw_lock as well.)                                               *)
AddReader_FirstOnly == IF read_count = 0 THEN 1 ELSE read_count

AddReader == read_count + 1

IsFirst_Any(n) == n >= 1

IsFirst(n) == n = 1

CountIn(t) ==
  /\ rw_policy = "readers"
  /\ At(t, "reader", "start")
  /\ read_count_lock = NoThread
  /\ read_count' = AddReader
  /\ IF IsFirst(read_count')
     THEN Goto(t, "count") /\ read_count_lock' = t
     ELSE Goto(t, "inside") /\ UNCHANGED read_count_lock
  /\ UNCHANGED <<rw_policy, phase, kind, rw_lock, wlvars>>

TakeForReaders(t) ==
  /\ rw_policy = "readers"
  /\ At(t, "reader", "count")
  /\ ~rw_lock
  /\ rw_lock' = TRUE
  /\ read_count_lock' = NoThread
  /\ Goto(t, "inside")
  /\ UNCHANGED <<rw_policy, phase, kind, read_count, wlvars>>

(* Mutant: every reader that leaves takes itself for the last one.         *)
IsLast_Always(n) == TRUE

IsLast(n) == n = 0

CountOut(t) ==
  /\ rw_policy = "readers"
  /\ At(t, "reader", "inside")
  /\ read_count_lock = NoThread
  /\ read_count' = read_count - 1
  /\ rw_lock' = (rw_lock /\ ~IsLast(read_count'))
  /\ Goto(t, "done")
  /\ UNCHANGED <<rw_policy, phase, kind, read_count_lock, wlvars>>

Take(t) ==
  /\ rw_policy = "readers"
  /\ At(t, "writer", "start")
  /\ ~rw_lock
  /\ rw_lock' = TRUE
  /\ Goto(t, "inside")
  /\ UNCHANGED <<rw_policy, phase, kind, read_count, read_count_lock, wlvars>>

Drop(t) ==
  /\ rw_policy = "readers"
  /\ At(t, "writer", "inside")
  /\ rw_lock' = FALSE
  /\ Goto(t, "done")
  /\ UNCHANGED <<rw_policy, phase, kind, read_count, read_count_lock, wlvars>>

-----------------------------------------------------------------------------
(* RW_WRITERS_PRIORITY.  (Mutants: each condition looks at the active      *)
(* writers only.)                                                          *)
ReadersMustWait_ActiveOnly == active_writers > 0

ReadersMustWait == waiting_writers > 0 \/ active_writers > 0

WritersMustWait_NoReaders == active_writers > 0

WritersMustWait == read_count > 0 \/ active_writers > 0

(* Threads that leave a wait go from asleep to woken; t goes to place.     *)
WakeAndGo(t, place, W) ==
  pc' = [u \in Thread |-> IF u = t THEN place
                          ELSE IF u \in W THEN "woken" ELSE pc[u]]

(* pthread_cond_signal wakes one of the sleepers S, if there is one.       *)
Signal(S) == IF S = {} THEN {{}} ELSE {{u} : u \in S}

ReaderTests(t) ==
  /\ rw_policy = "writers"
  /\ At(t, "reader", "start") \/ At(t, "reader", "woken")
  /\ IF ReadersMustWait
     THEN /\ can_read' = can_read \cup {t}
          /\ Goto(t, "asleep")
          /\ UNCHANGED read_count
     ELSE /\ read_count' = AddReader
          /\ Goto(t, "inside")
          /\ UNCHANGED can_read
  /\ UNCHANGED <<rw_policy, phase, kind, rlvars, waiting_writers, active_writers,
                 can_write>>

ReaderLeaves(t) ==
  /\ rw_policy = "writers"
  /\ At(t, "reader", "inside")
  /\ read_count' = read_count - 1
  /\ \E W \in IF IsLast(read_count') /\ waiting_writers > 0
              THEN Signal(can_write) ELSE {{}} :
       /\ can_write' = can_write \ W
       /\ WakeAndGo(t, "done", W)
  /\ UNCHANGED <<rw_policy, phase, kind, rlvars, waiting_writers, active_writers,
                 can_read>>

(* A writer announces itself once, before its first test, and withdraws    *)
(* when its turn comes.  (Mutant: it does not withdraw.)                   *)
Announce(t) ==
  IF pc[t] = "start" THEN waiting_writers + 1 ELSE waiting_writers

Withdraw_Never(n) == n

Withdraw(n) == n - 1

WriterTests(t) ==
  /\ rw_policy = "writers"
  /\ At(t, "writer", "start") \/ At(t, "writer", "woken")
  /\ IF WritersMustWait
     THEN /\ waiting_writers' = Announce(t)
          /\ can_write' = can_write \cup {t}
          /\ Goto(t, "asleep")
          /\ UNCHANGED active_writers
     ELSE /\ waiting_writers' = Withdraw(Announce(t))
          /\ active_writers' = 1
          /\ Goto(t, "inside")
          /\ UNCHANGED can_write
  /\ UNCHANGED <<rw_policy, phase, kind, read_count, rlvars, can_read>>

(* pthread_cond_broadcast wakes them all.  (Mutant: it is a signal.)       *)
Broadcast_One(S) == Signal(S)

Broadcast(S) == {S}

WriterLeaves(t) ==
  /\ rw_policy = "writers"
  /\ At(t, "writer", "inside")
  /\ active_writers' = 0
  /\ \E W \in IF waiting_writers > 0 THEN Signal(can_write)
                                     ELSE Broadcast(can_read) :
       /\ can_write' = can_write \ W
       /\ can_read' = can_read \ W
       /\ WakeAndGo(t, "done", W)
  /\ UNCHANGED <<rw_policy, phase, kind, read_count, rlvars, waiting_writers>>

(* A condition wait may return without a signal.                           *)
Spurious(t) ==
  /\ pc[t] = "asleep"
  /\ can_read' = can_read \ {t}
  /\ can_write' = can_write \ {t}
  /\ Goto(t, "woken")
  /\ UNCHANGED <<rw_policy, phase, kind, read_count, rlvars, waiting_writers,
                 active_writers>>

-----------------------------------------------------------------------------
ThreadStep(t) ==
  \/ Pass(t)
  \/ CountIn(t) \/ TakeForReaders(t) \/ CountOut(t) \/ Take(t) \/ Drop(t)
  \/ ReaderTests(t) \/ ReaderLeaves(t) \/ WriterTests(t) \/ WriterLeaves(t)

Next == Begin \/ JoinAll \/ \E t \in Thread : ThreadStep(t) \/ Spurious(t)

Safety == Init /\ [][Next]_flvars

(* The kernel runs every runnable thread, and a mutex that stays free is   *)
(* obtained.  Nothing makes the clients send another batch.                *)
Fairness == WF_flvars(JoinAll) /\ \A t \in Thread : WF_flvars(ThreadStep(t))

Spec == Safety /\ Fairness

-----------------------------------------------------------------------------
(* Every variable stays in its type.                                       *)
TypeOK ==
  /\ rw_policy \in Policy
  /\ phase \in {"collecting", "joining"}
  /\ kind \in [Thread -> Kind]
  /\ pc \in [Thread -> Place]
  /\ rw_lock \in BOOLEAN
  /\ read_count_lock \in Thread \cup {NoThread}
  /\ read_count \in Nat
  /\ waiting_writers \in Nat
  /\ active_writers \in 0 .. 1
  /\ can_read \subseteq Thread
  /\ can_write \subseteq Thread

Inside == {t \in Thread : pc[t] = "inside"}

(* main.c:201 and 243, "Critical section": a writer that opens the file is *)
(* alone with it, under either locking policy.                             *)
Exclusion ==
  rw_policy # "simultaneous" =>
    \A t, u \in Inside : t # u => kind[t] = "reader" /\ kind[u] = "reader"

Announced(t) == kind[t] = "writer" /\ pc[t] \in {"asleep", "woken"}

(* "for writers priority": no reader enters between the arrival of a       *)
(* writer and its turn.                                                    *)
NoReaderOvertakes ==
  [][\A r, w \in Thread :
       Announced(w) /\ kind[r] = "reader" /\ pc[r] # "inside"
         => pc'[r] # "inside"]_flvars

(* When a batch has been joined the lock is as it was made: nothing it     *)
(* counts or holds leaks into the next batch.                              *)
IdleBetweenBatches ==
  phase = "collecting" =>
    /\ ~rw_lock /\ read_count_lock = NoThread
    /\ read_count = 0 /\ waiting_writers = 0 /\ active_writers = 0
    /\ can_read = {} /\ can_write = {}

(* Under readers' priority, a reader is not made to wait for rw_lock while *)
(* another reader is already reading.                                      *)
ReadersJoinReaders ==
  rw_policy = "readers" =>
    \A r, s \in Thread : At(r, "reader", "count") => ~At(s, "reader", "inside")

(* What a thread waits for that only another thread can give: the mutexes, *)
(* and in a condition wait the signal.                                     *)
WaitsForCount(t) ==
  /\ At(t, "reader", "start") \/ At(t, "reader", "inside")
  /\ read_count_lock # NoThread

WaitsForFile(t) ==
  (At(t, "reader", "count") \/ At(t, "writer", "start")) /\ rw_lock

Blocked(t) ==
  \/ pc[t] = "asleep"
  \/ rw_policy = "readers" /\ (WaitsForCount(t) \/ WaitsForFile(t))

(* main.c:116-119 and 124-187: the threads of a batch never wait for each  *)
(* other all together.  As long as one of them is not done, one of them    *)
(* can go on without a spurious wakeup: whoever holds read_count_lock while*)
(* it blocks on rw_lock blocks nobody who is to release that, and of those *)
(* who sleep one has been signalled or somebody is inside who will signal. *)
NobodyStuck ==
  (\E t \in Thread : pc[t] # "done")
    => \E t \in Thread : pc[t] # "done" /\ ~Blocked(t)

(* func_send gets out of pthread_join: every batch ends, no thread sleeps  *)
(* through the signal meant for it.                                        *)
BatchEnds == phase = "joining" ~> phase = "collecting"

-----------------------------------------------------------------------------
(* The abstract specification the locks implement.                         *)
RW == INSTANCE ReadersWriters WITH
        locking <- rw_policy # "simultaneous", inside <- Inside

ImplementsReadersWriters == RW!Spec
=============================================================================
