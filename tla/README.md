# Verification of needyresources

TLA+ models of the `nr_server` / `nr_client` programs, the TLC instances that
check them and TLAPS proofs about them. Paths below are relative to `src/`.

## 1. The system

A server hands out the files of one directory to client processes, by a "step of
the banker's algorithm", and reads and writes files for them. Clients and server
are separate processes that exchange JSON messages over POSIX message queues:
one queue into the server, one queue into each client.

| Part | Source | State it keeps | Operations |
|---|---|---|---|
| Receiving thread `func_receive` | `server/main.c` 322-388 | `share_buff`, `write_head`, `idle_seconds` | takes a message from the server queue (1 s timeout), waits for room in the ring, puts it there; sets `shouldQuit` after five idle seconds |
| Handling thread `func_send` | `server/main.c` 390-538 | `read_head`, and alone everything below | takes a message from the ring and runs its handler to the end |
| `main`, signal handler | `server/main.c` 52-56, 549-697 | `shouldQuit` | start, `pthread_join` of the one thread, a broadcast, `pthread_join` of the other, clean-up |
| Resource manager | `server/resource_manager.c` | pool, process table, `process_count`, links on disk | index, add a request, step, grant, release |
| File requests | `server/main.c` 75-81, 194-319 | `read_write_buff`, `rw_write_head` | collects six requests, then starts a thread for each and joins them |
| File lock | `server/main.c` 83-187 | `rw_lock`, `read_count`, `waiting_writers`, `active_writers`, two condition variables | reader and writer lock/unlock under three policies |
| Connection table | `server/mq_manager.c` | `queues`, `active_count` | add, find by pid, has space (remove is never called) |
| Client | `client/main.c` | position in its list of requests | connect, request resources, read, write, finalize |
| Bootstrap | `scenario_bootstrap/main.c` | child pids | starts server and clients, waits for or kills the clients, SIGTERM to the server |
| libneedy | `libneedy/*.c` | none | messages to and from JSON, `send_message` |
| Configuration | `server/server_config.c` | none after the start | loads a JSON file |

How they interact: clients `mq_send` to the server (blocking when the queue is
full); the two server threads share the ring under `mutex_message`; the handling
thread calls the resource manager and the connection table, which nobody else
uses while it runs, except that the receiving thread reads `active_count`; the
threads of a batch share only `global_file_lock`, the files and the connection
table.

What is hard here: the two condition variables of the ring together with a flag
that is set outside the mutex; the reader and writer threads of a batch; legal
sequences of requests and releases that leave the process table with holes or
pending needs; undefined behaviour in the safety scan; a server that stops while
messages are under way. What has to be right, part by part:

* resource manager: within a type a file never has two owners, counters and name
  lists agree, a grant is whole, a release leaves no link, the table stays inside its
  allocation, grants keep the system safe, a refusal
  is justified, everything comes back on release, every request is answered;
* ring: nothing lost, duplicated or reordered, no missed wakeup, everything is
  handled, and both threads end on shutdown;
* lock: exclusion, the two priorities, no sleeper left behind, nothing leaks from
  one batch into the next;
* connection table and client: answers fit the questions, whoever crashes in
  between; every asker is in the table; nobody who is connected waits for nothing;
* file requests: the sort loses none of them, a read sees the file whole, no write
  of a batch is lost to another one, and a read is answered;
* bootstrap: whatever forks fail and children do, the server is stopped and no
  process is left behind; signals and reports are about whom they should be.

The list of hazards, each at its line, is in `PROJECT.json`.

## 2. Modules

### Resource manager

`ResourceManager` models `resource_manager.c` as `func_send` uses it. All calls
come from that one thread, so a handler is one action. A `RESOURCE_REQUEST` is
`resource_manager_add_request` followed, for a registered process, by
`resource_manager_step`; the outcomes are separate actions: `Register`, `Outgrow`,
`ExceedMaximum`, `Grant`, `Refuse`, `NoTarget` and `Overrun`; `CLIENT_FINALIZE`
is `Release`. Correspondence: `pool_has`/`pool_names` is entry 0 of the C table
and `process_resources` the entries from 1; `process_count` and
`active_process_count` are the fields of that name; `links` are the
`.grant_<pid>_<file>` symlinks in the server's directory; `heard` is the last
code a client was sent (a client goes on only after `OK` or
`MAX_RESOURCE_NEED_REGISTERED`, otherwise it finalizes); `status` becomes
`crashed` when the server dies.

A request with the wrong number of types is refused and freed, and handled all the
same (`main.c` 488-497): in `Request(p, q, wanted)`, `p` is the client that asks and
`q` the pid that is read, its own or one of `Stale`, which no client has. So a pid
that nobody has may be registered, and never finalizes. (0, the pid of the pool's own
entry, is not among them: the pool would then be taken for a process.)

`max_process_count` is never assigned, so that `process_count` is compared with 0 and
the table, which is allocated for `maximumAllowedResources` entries, has no limit.
`Outgrow` is the registration that is written behind its end; the model ends there
(`status = "outgrown"`), for what is destroyed is open.

Nothing removes links when a server starts or ends, and the results of `unlink` and
`symlink` are ignored: `links` begins as any of `OldLinks`, and where `LinkCallsFail`
a grant may leave an old link where it was or fail to make one, and a release may
leave its links behind. `leftover` records those of the latter and of earlier servers.

The same directory is indexed once per type (`main.c` 649-651), hence a pool with
every file in every type. The scan is translated as it is written: the vector
`work`, with one entry per *type*, is indexed by the *process*. For an index in
the vector the outcome is determined (`FitsWork`). Past the vector a read
yields an arbitrary value (`PastReads`), and an addition there changes foreign
memory: it can set flags of the array `finish`, so that the conclusion is open
(`Verdicts`), or destroy the allocator's data, so that the server aborts
(`Overrun`). Other damage by that write is not modelled. Allocation failures are
not modelled.

`SafetyScan` has the same scan as its loops run, visit by visit and pass by pass.
`ResourceManager` only says who has finished in the end (`Finishes`), which is
shorter and is right only because what a finished process returns is added to an
entry of `work` that nobody reads any more; `ScanIsLoop` says that the two agree, and
that the loops write behind the vector (`behind`) exactly when `ScanOverruns` says so.
Sums and needs are taken to stay below the width of `size_t`.

`Banker` is the textbook definition of a safe state. `ResourceManagerPromises`
states what comments of the repository promise, in terms of it.

`Allocation` is the abstract specification, what a client sees: files go from the
pool to one client at a time and are gone with it. `ResourceManager` refines it
with `held` mapped to the name lists of the entries of a pid, whichever entries
those are, and `gone` to the clients that have finalized. `Register`, refusals,
needs, counters and the reuse of entries are stutters.

### File lock

`FileLock` models the four lock functions and the threads that call them. A
section under `priority_mutex` blocks only in a condition wait, which releases
the mutex, so it is one step. `read_count_lock` is a variable, because a reader
holds it while it blocks on `rw_lock`. Threads in a condition wait may wake
spuriously at any time, and `pthread_cond_signal` wakes an arbitrary sleeper.
`Begin` starts a batch (any mix of readers and writers), `JoinAll` is the
`pthread_join` loop; batches follow one another without bound. The option `-p` is
the variable `rw_policy`, chosen initially and never changed. `rw_lock` may be
released by a thread other than the one that took it: the default mutex type of
the build has no owner, and the model depends on that.

`ReadersWriters` is the abstract specification: a writer is alone, readers share;
without `locking` anyone may enter. `FileLock` refines it with `inside` mapped to
the threads in their critical section and `locking` to "a policy other than
simultaneous".

### File batches

`FileBatch` extends `FileLock` with what surrounds it: `Collect` is the branch of
`func_send` for file requests, which fills `read_write_buff` and, with the last
request of a batch, sorts it and starts the threads; `JoinBatch` is the join. In
between a thread may use the file while it is `inside`: a reader opens and measures
it (`Measure`), then reads as many bytes as it measured and answers (`Read`); a
writer opens the file, which truncates it under mode "w" (`Open`), and writes: stdio
keeps what fits in its buffer (`BlockSize`, 4096 bytes, half of a message) for
`fclose` (`Write`), and of longer contents `fwrite` writes whole blocks before
(`Flush`). A write under mode "w" goes to its own offset, whatever another writer has
done to the file meanwhile, and an append to the end of the file (`Put`, `PutFile`).
`Unopened` is a failing `fopen` or `malloc`.

The file may hold anything when the server begins (`InitialFile`). The answer is a C
string, what stands before the first `Nul` (`CString`). Where a short read has left
`Garbage` in the buffer, it ends there or goes on. If it is no UTF-8 (`Packs`, a
constant operator), `json_pack` fails, there is no message, and `send_message` takes
`strlen` of a null pointer (`ReadFails`): under a lock, too, if that is what the file
holds. An answer that does not fit in a message is not sent (`Answer`). `sort` is
translated loop by loop, as two recursive functions over its passes (`PullForward` is
the inner loop, `sort` the outer one). All requests are for one file, the worst case
for the lock, which is the same for all files. A failing `pthread_create` is not
modelled.

`AtomicFile` is the abstract specification: each request of a batch is served at
one moment, in any order within the batch, and no batch starts before the last one
is served. `FileBatch` refines it where the batch is protected: under a lock, or if
no request of the batch truncates the file or is longer than a buffer of stdio, so that
each append is one `write` at the end of the file. Under `RW_SIMULTANEOUS` with a
truncating or a long writer nothing is promised but the end of the batch. A write takes
place when the file is truncated or first appended to, a read when the file is measured;
under a lock these choices cannot be told apart from others.

### Message ring

`MessageRing` models the server queue, the two threads, `main` and the signal.
Sections under `mutex_message` are single steps, except `func_send`'s test and
its wait, which `main` can separate because it broadcasts without the mutex
(`SendLock`, `SendDoze`, `SendSleep`). `shouldQuit` may be set between any two
steps. Any error of `mq_timedreceive` but the timeout, among them the signal that
interrupts it, makes `func_receive` leave, whether or not the server quits
(`Interrupted`). The double `needy_message_destroy` of a message taken while quitting is
`send = "aborted"`: the freed block is still in the allocator's thread cache,
which detects it. The handlers are one action `Handle`, whose only effect here is
on `active_count`, the one thing the receiving thread reads; that a handler
itself kills the server is the subject of `ResourceManager`.

`MessageQueue` is the abstract specification: one first-in first-out queue, taken
from one message at a time. `MessageRing` refines it with the queue mapped to
ring, hand and POSIX queue in that order (`Waiting`): the ring as far as the entries
from `read_head` up to `write_head` (`RingSeq`), and nothing once `main` has removed
the queue.

### Sessions

`Sessions` puts clients, queues and server together to answer who waits for what.
A client (`client/main.c`) makes its own queue and opens the server's (`Start`),
sends its request for a connection (`Connect`), and after a positive ack makes any
sequence of resource, read and write requests; it waits after the first two kinds.
It takes whatever message comes for the answer it waits for. `Die` covers every
end without `CLIENT_FINALIZE`: a kill by the bootstrap, an `exit` on a bad request
file, an abort in `free(resource_vector)`.

The server's half takes messages from one queue in order. That the two threads and the
ring amount to that is the refinement of `MessageQueue` by `MessageRing`; the length
of the ring and of the queue together is `Capacity`. `HandleConnect` and `FindByPid`
are `mq_manager.c`; a resource answer is any answer, for `ResourceManager` says which;
a full batch is one step, for `FileLock` shows that it is joined. `FindByPid` reads
through a null entry for a pid it does not find before one, and then the server goes
down (`Fall`). `Crash` is any other abrupt end, among them those shown for the other
modules: what was in the ring is lost, the queue stays. `Quit` is the orderly end: the
queue is unlinked, clients keep descriptors of a queue that nobody reads (`attached`
is the set of the others). `mq_send` refuses what is longer than a message, and
`send_message` returns as if it were sent: a request (`Refused`), the answer to a
grant, which has the names of all its files (`HandleResource`), or that to a read
(`HandleFile`); `overlong` records for whom. `StartServer` opens the queue it finds or
makes one (`own_queue`), and `FailToStart` is a start that fails to open it or to
index the directory, which removes the queue of that name, also beside a server that
runs (`named`); that one goes on with the clients that have opened its queue.
`HandleWrongLength` is a request whose vector does not have the length the server
expects: the code refuses and frees it, and goes on to handle it; what the freed block
has for a pid is taken to be that of no client.

Left out: reuse of a pid, two servers at a time, a `mq_receive` of the client that
fails and an answer that is no message (a client's queue takes nothing longer than its
buffer, and gets nothing but serialized answers), a client's `mq_unlink` and `mq_open`
as separate steps.

### Bootstrap

`Bootstrap` models `scenario_bootstrap/main.c` from the start of the server on:
`StartServer`, `StartClient` for each client, `wait_for_client` as `Finished`,
`NoChild`, `Poll`, `GiveUp`, `Kill` and `Killed` (its ways through one turn of the
loop), `StopServer` and `ReapServer`. Children end at any time, by themselves or of
a signal. `waitpid` and `kill` are modelled as the system defines them, also for
the pid -1 that a failed fork leaves in `client_pids`: any child, and every
process (of those, the children; that the signal also reaches others is not
modelled). A pid stands for its client; pids are not reused while `main` has not
reaped them. `elapsed` may advance by any number of seconds from poll to poll, up
to the timeout.

`LoopTheorems`, `FileLockProofs`, `FileSortProofs`, `FileBatchProofs`,
`ResourceManagerProofs`, `MessageRingProofs`, `SessionsProofs` and `BootstrapProofs`
hold the theorems (section 4). `MC*` modules hold the sets of values and the
symmetries of the instances.

## 3. What the runs check

| Run | Instance | Shows |
|---|---|---|
| `resource_manager` | 3 clients and a pid of a freed request, a table of 2, 2 files, 2 types, requests for one file or for three, `symlink` and `unlink` that fail, no or one link of an earlier server | integrity of the table through release and reuse of entries, when it is outgrown, single ownership of files within a type, counters against name lists, links against holdings, all-or-nothing grants, the loops of the safety scan against the test that stands for them, refinement of `Allocation` |
| `file_lock` | 5 threads, all three policies | exclusion, clean lock between batches, `ReadersJoinReaders`, `NoReaderOvertakes`, threads never all wait for each other, every batch is joined, refinement of `ReadersWriters` |
| `sessions` | 3 clients with two, one and no requests, table of 2, queue of 2, batch of 2, two starts of the server, some of which fail, messages refused for their length | answers fit questions and none is left over across crashes and restarts, dense table, no stranger unless the queue survived a crash, no connected client waits for nothing, requests are answered where question and answer can be sent |
| `message_ring` | 4 messages, one malformed, ring of 2, queue of 2, 5 idle seconds | refinement of `MessageQueue`, no missed wakeup, every sent message is handled, or the server quits or has stopped receiving; a server that quits ends (two races and an early end of `func_receive` apart) |
| `file_batch` | two batches of 3 requests on one file (read, truncating write of three bytes, append of one), a buffer of 2, answers of 3 bytes, a file that holds a zero or what is no UTF-8, all locking and scheduling policies | the sort permutes and puts the preferred requests first, reads are whole and answered, refinement of `AtomicFile` |
| `bootstrap` | a server and 4 clients, timeout of 2 | no process left behind, true reports, signals as meant, the server is stopped |

Why these bounds are enough: three clients and a foreign pid, of which one has left
and one is re-entering, make holes at and behind an entry, and are more than the table
of two has room for; two types are the least for which the confusion of types and
processes matters, and with two types and two entries one index is in the vector and
one behind it. Two files and requests of two let a grant take some or all of a type
and a link be shared by two types; the two vectors are few but unlike, so that needs
accumulate, exceed the declared maximum and differ between clients. A ring and a queue
of two wrap, fill and empty with four messages in flight. In `sessions` two clients
fill the table and the third is refused; a batch of two mixes kinds and senders; two
lives of the server are the least for a client to meet a server that does not know it,
and a client with two requests is the least for an answer to be left over. In
`file_batch` three requests hold two writers and a reader, a writer and two readers, a
swap over a distance and two swaps in one pass; three bytes, of which two are a block,
and one make a file that becomes shorter, longer, empty, half written or too long for
an answer; the second batch shows what the first one leaves. That an append is longer
than a block is not in this instance, only in the proofs. In `bootstrap` four clients
let a wait for a failed fork reap clients before and behind it while a third one still
runs; the timeout of 2 separates a wait that has just begun, one that is under way and
one that is up. The program's numbers (10 clients, a ring of 6, batches of 6) only
repeat these situations. The lock does not depend on the number of threads beyond
"one, several": five allow two readers and two writers to meet a fifth thread of
either kind, and six, the program's number, is covered by the proofs for any number.
The idle limit is the program's own. `CHECK_DEADLOCK FALSE` is set where the system
may stop: all clients finalized, server crashed or ended, all batches done, the
bootstrap returned.

The runs marked `violation` each check one promise that the repository states and
the code does not keep; `PROJECT.json` quotes the line under `findings`. Those of
the resource manager use two clients and three types, so that every process index
lies inside the vector `work` and no undefined behaviour takes part.

* `rm_grant_safety`: a grant leads from a safe state to an unsafe one.
* `rm_refusal`: DEADLOCK is answered where the grant would have been safe.
* `rm_reclaim`: files of a finalized client are lost to the pool.
* `rm_ok_answer`: a client is told OK for a grant that another client got.
* `rm_every_answer`: a request that cannot be met crashes the server.
* `reads_wait`: file requests that do not fill a batch are never processed; their
  clients wait for ever. The shipped `files/scenarios/scenario_1.json` has exactly
  the six file requests of one batch.

Three more defects are the exceptions of `ServerEnds`, which holds of every
behaviour without them; TLC shows each when its disjunct is dropped. `main`
broadcasts `bufferHasItems` without the mutex (`main.c` 680): if that falls between
`func_send`'s test and its wait, `func_send` sleeps for ever and is never joined.
`func_send` may leave its loop while `func_receive` waits for room in the ring
(line 375), for which nobody wakes it then. And if `func_receive` leaves on an error
(line 358) before `shouldQuit` is set, nobody reads the queue any more and `main` has
broadcast too early. A fourth one is part of the model, as the state "aborted": a
message that is taken while `shouldQuit` is set is destroyed at line 416 and again at
line 421.

Three more are exceptions of other properties, each as narrow as it can be: a message
too long to be sent (`AnswersCome`, `NobodyForgotten`, `ReadsAreAnswered`), a file that
is no UTF-8 (`ReadsAreWhole`), and links that an `unlink` has failed to remove
(`LinksAreHeld`).

Seen on the way, and not about the state of the system: the request files write
modes as the strings "A" and "W", which `json_integer_value` (`client/main.c` 264)
reads as 0, the mode that truncates.

### Fairness

`FileLock`: weak fairness of every thread and of the join. The kernel runs every
runnable thread; a mutex that stays free is obtained, and within a batch every
thread enters once, so that nobody can be overtaken for ever. `Begin` is not
fair: nothing makes clients send another batch. Spurious wakeups are never
relied upon.

`MessageRing`: weak fairness of `func_send` and of `main`, strong fairness of
`func_receive`: spurious wakeups let `func_send` take and release `mutex_message`
for ever, and a thread that finds a mutex free again and again obtains it. It
includes that a handler returns. That holds for a batch (`BatchEnds`), and for the
other handlers because no client queue is ever full (`NothingLeftOver`: at most one
message, of the ten there is room for). Signals and clients are not fair.

`FileBatch`: that of `FileLock`, with the steps inside the critical section; no
client has to send anything.

`Bootstrap`: weak fairness of `main`, and signals are delivered: a client ends of
SIGTERM, for which it has no handler, and anything of SIGKILL. A server that is sent
SIGTERM ends when it does, or not (the races above), so that `ServerIsStopped`
promises only that `main` gets as far as waiting for it.

`Sessions`: weak fairness of the server's handlers, for the same reason, and of a
client that has a message to take. Nothing makes a client ask, a server end or
another one start.

## 4. What is proved

Each theorem holds for every value of the constants that satisfies the named
assumptions.

`FileLockProofs` (assumes a finite set of threads; covers the three policies). The
properties speak of one or two threads, but the code keeps counts; the inductive
invariant `IInv` ties the counts to the sets of threads. Under readers' priority
`read_count` is the number of readers that are inside or about to take `rw_lock`,
`rw_lock` is held exactly when someone is inside, and at most the holder of
`read_count_lock` is at "count". Under writers' priority `read_count` is the number
of readers inside, `active_writers` that of the writers inside and `waiting_writers`
that of the writers asleep or woken. Each action is shown to preserve the part of
its policy, with lemmas on how the cardinality of such a set changes when one thread
moves. From it follow `TypeOK`, `Exclusion`, `IdleBetweenBatches`,
`ReadersJoinReaders`, the action property `NoReaderOvertakes`, and that every step is
a step of `ReadersWriters` or a stutter.

`NobodyStuck` is the part of `BatchEnds` that is a safety property: of the threads
that are not done one can go on without a spurious wakeup (`Blocked` spells out what
a thread waits for). It needs a second invariant, `Expected`: whoever sleeps is in
the wait set of its condition; a sleeping writer has somebody inside, or a writer
that has been signalled before it; a sleeping reader has a writer inside or
announced. The signals that a leaving thread sends are what keeps this true, and
`Counts` is what makes it send them. Under readers' priority the argument is that
the reader that holds `read_count_lock` is the only one counted, so that `rw_lock` is
then held by a writer, who needs nothing to give it back.

`LoopTheorems` is what the proofs about loops rest on. A loop is a recursive function
of the number of passes; that there is such a function (`LoopRuns`, without which
the `CHOOSE` behind a recursive definition says nothing) and that what each pass
keeps holds at the end (`EachPass`) follow from the least number principle, that is
from the well-foundedness of `<` on `Nat`. The induction is over a set of passes,
never over a predicate.

`ResourceManagerProofs` (assumes finite sets of pids and files, request vectors of
naturals, and a table of one entry or more; nothing ties the table to the pids).
`IInv` is the conjunction of the safety properties, each of which needs others in
some step. `TableFitsPids` takes a counting argument (`RoomForOneMore`): the table
grows only without a hole, so that with one entry per pid, below `process_count`, there
are never more entries than pids, and one is written behind the end only when as many
processes are registered as the table has entries. `LinksAreHeld` speaks of the links
that are not `leftover`; those are only what a server has found and what an `unlink` of
a release did not remove. `Grant` is split into what the pool
loses and what the target gains (`PickedFiles`, `GrantedTable`). Nothing in this
part looks at the verdict of the safety scan: the theorems hold whatever it
reads or concludes. Then every step is shown to map to a step of `Allocation` or a
stutter, from `OneEntryPerPid` (what a client holds is what its one entry lists, and
a new entry begins with nothing) and the fact that a client that has finalized has
no entry. The last part is `ScanIsLoop`, for a table of any size: `Sound` (who has
finished can, and the entry of `work` that decides on a process is as the grant
leaves it until that process has finished) is kept by every visit; one pass
finishes everybody who can, and the second one changes nothing, so that the loop
ends there; `behind` collects those who add something behind the vector.

`FileSortProofs` (any `RW_BUFF_SIZE`, any preferred type). `SortIs`: what `sort`
returns is a rearrangement of what it was given, the preferred requests before the
others. A pass of the inner loop moves nothing before its place `i`, and at its end
`i` holds a preferred request if there was one from `i` on (`Pulled`); the outer loop
keeps "sorted up to `i`" (`SortedUpTo`).

`FileBatchProofs` (any `RW_BUFF_SIZE`, any requests whose type is one of the two and
whose contents are bytes, any initial file, any set of strings that can be packed that
has the empty one, any buffer of stdio, any limit of an answer). `BatchesUseTheLock`:
every step of `FileBatch` is one of `FileLock` or leaves its variables alone, so that
all that is proved of the lock holds of the batches. `ReadsAreWhole` follows with one
fact on top of the lock's invariant: who has measured or opened the file is still
inside, for no thread moves another one out (`OthersStay`); so a writer that changes
the file is alone with it and no measure is outstanding (`WriterIsAlone`); what a
reader then reads is the file, which alone can bring the server down. `FBTypeOK` and
`BatchIsSorted` rest on `SortIs`. The refinement of `AtomicFile` takes `AInv`: while
requests are collected every thread is finished and no answer is left, and the kinds
of threads are those of their requests (`Settled`); under a lock a file that has been
truncated is empty until it is written, and has the first blocks of its writer's
contents when those are flushed (`OnlyWritten`); and where nobody truncates, a file
only grows after it was measured (`OnlyGrows`). Each thread then takes effect at one
step, a truncating writer when it opens the file, an appending one when it first
writes, a reader when it measures; under a lock the writer is alone in between, so
that the file "to be" is what its `fclose` will make of it.

`BootstrapProofs` (any number of clients and any timeout). The inductive invariant
`BInv` says that a client has a process exactly if it has a pid, that clients
before the current one are gone or never were, and that without a failed fork
exactly those are reaped. The steps of `wait_for_client` share one lemma
(`InvWaitStep`) on what such a step may do to the processes. Proved are `TypeOK`,
`NothingLeftBehind`, `ReportsAreTrue` and the action property `SignalsAreMeant`.

`MessageRingProofs` (any number of entries, messages and idle seconds). Until the
server quits, `RingInOrder` holds: the occupied entries are those from `read_head` up
to `write_head`, around the end of the array, and if the heads meet all entries are
occupied or none is. One entry then speaks for the whole ring, so that a thread that
finds the entry at its head full (or free) sleeps on a ring that is full (or empty),
and each thread that changes this wakes the other. Proved are `TypeOK` and
`NoMissedWakeup`. After that `func_send` may move `read_head` over free entries, and
the heads mean nothing any more. The refinement of `MessageQueue` has to hold there
too, and adds two facts (`QInv`): the ring stays in order or is empty and stays so
(`StaysInOrder`), for a message that is taken while the server quits is the last thing
the process does, and `func_send` leaves only to quit (`Leaving`), so that `main`
removes no queue before. Until `shouldQuit` is set the refinement says that nothing is
lost but what is no message; from then on only that nothing is handled twice or
overtakes, for `MessageQueue` lets a server that quits drop any message. What is put
into the ring is then appended to the sequence it stands for, and what is taken is its
head (`PutAppends`, `TakeIsHead`).

`SessionsProofs` (any number of clients, of starts and of requests, any size of the
table, of the queue, of the ring and of a batch). What the properties say of single
messages is a matter of counting: `Asked` is the cardinality of a set of positions, and
lemmas say how it changes when a message is appended, taken from the head, or lost with
the first ones when a server falls (`AskedAppend`, `AskedTail`, `AskedShift`).
`Owed` says of each client that at most one thing is under way for it, in the queue,
the batch or its inbox, and that this fits the place where the client waits; a dead
client may leave one behind. `Newcomers` (a client asks for a connection once, and
before that it is not in the table) keeps two entries from one client, and `Known`
(whoever can send to a server that made its queue itself and has been accepted, was
accepted by that server) carries `NoStrangers` over the crash of a server and the
start of the next one. It speaks of the senders of messages: the second lookup for a
request of the wrong length is for a pid that is read from freed memory and may fault in
any server. `NobodyForgotten` adds a layer, `Attended`: a client that waits and is not
`overlong` has exactly one thing under way as long as its server lives and knows it, for
what is taken out of the queue or the batch is answered, refused for its length, or
brings the server down. Proved are `TypeOK`, `TableIsDense`, `NothingLeftOver`,
`AnswersFit`, `NoStrangers` and `NobodyForgotten`.

Every safety property of a passing run, the action properties and the refinements
among them, is stated by a theorem. Only model-checked are the liveness properties,
`BatchEnds`, `EventuallyHandled`, `ServerEnds`, `AnswersCome`, `ReadsAreAnswered` and
`ServerIsStopped`, which need fairness and `ENABLED`, beyond the prover used here;
and the promises that the runs marked `violation` refute, which no proof could
establish.

No theorem assumes more of the configuration than that its numbers are positive:
nothing in the code compares `maximumClients` with `maximumAllowedResources`, of which
the shipped files have 10 and 12 (`files/config.json`) or 2 and 10
(`server/config.json`).

## 5. Plan

1. The safety part of the other liveness properties, for any size, as `NobodyStuck`
   is for `BatchEnds`: who can go on while a message waits in the ring, and while a
   client waits for an answer.
2. The lock's theorems stated of the batches of `FileBatch` one by one, and the
   textbook algorithm (repeatedly finish a process that can) against `Banker`.
3. A second server started beside one that runs, on the same queue.

## 6. Not modelled

JSON packing and parsing (no property is about the text of a message), the
configuration file (its values are the constants), memory allocation and its
failures, printing, the command line. The comment of `main.c` 25-35 on a live
update of the file list has no code behind it. `mq_manager_remove`,
`dump_to_file` and `resource_manager_state` are never used.
