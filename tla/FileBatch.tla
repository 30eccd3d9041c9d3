----------------------------- MODULE FileBatch -------------------------------
(***************************************************************************)
(* What server/main.c does with file requests: func_send collects them in  *)
(* read_write_buff until it is full; process_file_requests sorts them and  *)
(* starts a thread for each, which reads or writes the file between its    *)
(* lock and its unlock (module FileLock).  A batch is joined before the    *)
(* next message is handled.                                                *)
(*                                                                         *)
(* All requests are for one file: the lock is the same for all files.  A   *)
(* missing file reads like an empty one.  That fread may take several reads*)
(* is left out: under a lock nobody is in between, a file that only grows  *)
(* keeps what is being read, and any other batch is promised nothing.      *)
(***************************************************************************)
EXTENDS FileLock, Sequences

CONSTANTS
  RW_BUFF_SIZE,
  Byte,         \* what files are made of
  Nul,          \* the byte that ends a string
  Packs(_),     \* which strings json_pack takes: those that are UTF-8
  InitialFile,  \* what the file may hold before the server uses it
  Request,      \* [type, mode, content]: what clients ask for
  BlockSize,    \* the buffer of stdio, 4096
  MaxText,      \* the longest contents that fit in an answer, as JSON has them
  MaxRequests,  \* bound: file requests of the server's life
  Garbage,      \* what malloc left where nobody wrote
  NoReply

ASSUME BatchAssumption ==
  /\ RW_BUFF_SIZE \in Nat \ {0} /\ Thread = 1 .. RW_BUFF_SIZE
  /\ BlockSize \in Nat \ {0} /\ MaxText \in Nat /\ MaxRequests \in Nat
ASSUME ByteAssumption ==
  Nul \in Byte /\ Garbage \notin Byte /\ InitialFile \subseteq Seq(Byte)
ASSUME PackAssumption == Packs(<<>>)
ASSUME RequestAssumption ==
  \A r \in Request : /\ r.type \in {"READ_REQUEST", "WRITE_REQUEST"}
                     /\ r.content \in Seq(Byte)

VARIABLES
  scheduling_policy,  \* the option -s, set once
  read_write_buff,    \* the requests collected so far
  received,           \* how many have come
  batch,              \* the request of each thread
  file,
  io,                 \* where each thread is in its critical section
  length,             \* what ftell told a reader
  reply,              \* the contents sent to each reader
  server              \* "up" or "crashed"

collectvars == <<scheduling_policy, read_write_buff, received>>
iovars == <<file, io, length, reply>>
fbvars == <<flvars, collectvars, batch, iovars, server>>

IsRead(r) == r.type = "READ_REQUEST"

-----------------------------------------------------------------------------
Preferred(r) ==
  r.type = IF scheduling_policy = "readers" THEN "READ_REQUEST"
                                            ELSE "WRITE_REQUEST"

(* Mutant: the swap forgets what was in the first place.                   *)
Swap_Overwrites(m, i, j) == [m EXCEPT ![i] = m[j]]

Swap(m, i, j) == [m EXCEPT ![i] = m[j], ![j] = m[i]]

(* Every preferred request behind place i passes through it.               *)
Exchange(m, i, j) == IF Preferred(m[j]) THEN Swap(m, i, j) ELSE m

PullForward(m, i) ==
  LET pulled[j \in i .. RW_BUFF_SIZE] ==
        IF j = i THEN m ELSE Exchange(pulled[j - 1], i, j)
  IN pulled[RW_BUFF_SIZE]

Fill(m, i) == IF Preferred(m[i]) THEN m ELSE PullForward(m, i)

sort(m) ==
  LET sorted[i \in 0 .. RW_BUFF_SIZE] ==
        IF i = 0 THEN m ELSE Fill(sorted[i - 1], i)
  IN sorted[RW_BUFF_SIZE]

Scheduled(m) == IF scheduling_policy = "none" THEN m ELSE sort(m)

NoRequest == [type |-> "READ_REQUEST", mode |-> "none", content |-> <<>>]

NoBatch == [t \in Thread |-> NoRequest]

FBInit ==
  /\ Init
  /\ scheduling_policy \in {"none", "readers", "writers"}
  /\ read_write_buff = <<>>
  /\ received = 0
  /\ batch = NoBatch
  /\ file \in InitialFile
  /\ io = [t \in Thread |-> "finished"]
  /\ length = [t \in Thread |-> 0]
  /\ reply = [t \in Thread |-> NoReply]
  /\ server = "up"

(* Mutant: the batch starts one request late.                              *)
IsFull_Late(b) == Len(b) > RW_BUFF_SIZE

IsFull(b) == Len(b) = RW_BUFF_SIZE

(* func_send takes a READ_REQUEST or WRITE_REQUEST.  The last one of a     *)
(* batch starts its threads.                                               *)
Collect(r) ==
  /\ server = "up" /\ phase = "collecting"
  /\ received < MaxRequests
  /\ received' = received + 1
  /\ LET buff == Append(read_write_buff, r)
     IN IF ~IsFull(buff)
        THEN read_write_buff' = buff /\ UNCHANGED <<flvars, batch, io>>
        ELSE /\ read_write_buff' = <<>>
             /\ batch' = Scheduled(buff)
             /\ io' = [t \in Thread |-> "start"]
             /\ kind' = [t \in Thread |-> IF IsRead(batch'[t]) THEN "reader"
                                                               ELSE "writer"]
             /\ Begin
  /\ UNCHANGED <<scheduling_policy, file, length, reply, server>>

JoinBatch ==
  /\ server = "up" /\ JoinAll
  /\ batch' = NoBatch
  /\ length' = [t \in Thread |-> 0]
  /\ reply' = [t \in Thread |-> NoReply]
  /\ UNCHANGED <<collectvars, file, io, server>>

-----------------------------------------------------------------------------
(* Between the lock and the unlock.  (Mutant: before the lock, too.)       *)
MayUseFile_Early(t) == pc[t] # "done"

MayUseFile(t) == pc[t] = "inside"

InIO(t, k, place) == kind[t] = k /\ MayUseFile(t) /\ io[t] = place

GoIO(t, place) == io' = [io EXCEPT ![t] = place]

(* What strdup takes of the contents: what stands before the first zero.   *)
CString(text) ==
  LET ends == {i \in DOMAIN text : /\ text[i] = Nul
                                   /\ \A j \in 1 .. i - 1 : text[j] # Nul}
  IN IF ends = {} THEN text ELSE SubSeq(text, 1, (CHOOSE i \in ends : TRUE) - 1)

(* What an answer carries to the client: nothing if it does not fit in a   *)
(* message, mq_send fails and the client waits on.  (Mutant: a file without*)
(* contents is not answered.)                                              *)
Fits(s) == Len(s) <= MaxText

Answer_NonEmpty(s) == IF s # <<>> /\ Fits(s) THEN s ELSE NoReply

Answer(s) == IF Fits(s) THEN s ELSE NoReply

Reply(t, s) == reply' = [reply EXCEPT ![t] = Answer(s)]

(* fopen fails, or malloc for what is to be read.                          *)
Unopened(t) ==
  /\ \/ InIO(t, "reader", "start") /\ Reply(t, <<>>)
     \/ InIO(t, "writer", "start") /\ UNCHANGED reply
  /\ GoIO(t, "finished")
  /\ UNCHANGED <<flvars, collectvars, batch, file, length, server>>

(* fseek and ftell.                                                        *)
Measure(t) ==
  /\ InIO(t, "reader", "start")
  /\ length' = [length EXCEPT ![t] = Len(file)]
  /\ GoIO(t, "measured")
  /\ UNCHANGED <<flvars, collectvars, batch, file, reply, server>>

(* A file that has become shorter leaves the rest of the buffer as malloc  *)
(* gave it: any bytes, of which the first may be a zero.                   *)
Text(n) == [i \in 1 .. n |-> IF i <= Len(file) THEN file[i] ELSE Garbage]

Torn(s) == \E i \in DOMAIN s : s[i] = Garbage

Strings(text) ==
  LET s == CString(text)
  IN {s} \cup {SubSeq(s, 1, i - 1) : i \in {j \in DOMAIN s : s[j] = Garbage}}

(* What is no UTF-8 cannot be packed: there is no message then, and        *)
(* send_message takes strlen of a null string.                             *)
ReadFails(t) ==
  /\ InIO(t, "reader", "measured")
  /\ \E s \in Strings(Text(length[t])) : Torn(s) \/ ~Packs(s)
  /\ server' = "crashed"
  /\ UNCHANGED <<flvars, collectvars, batch, iovars>>

(* fread, and the answer.                                                  *)
Read(t) ==
  /\ InIO(t, "reader", "measured")
  /\ \E s \in Strings(Text(length[t])) : (Torn(s) \/ Packs(s)) /\ Reply(t, s)
  /\ GoIO(t, "finished")
  /\ UNCHANGED <<flvars, collectvars, batch, file, length, server>>

(* fopen truncates the file if it is to be written from its start.         *)
Open(t) ==
  /\ InIO(t, "writer", "start")
  /\ file' = IF batch[t].mode = "w" THEN <<>> ELSE file
  /\ GoIO(t, "opened")
  /\ UNCHANGED <<flvars, collectvars, batch, length, reply, server>>

(* A write goes over what is there by now; zeros fill the gap to a file    *)
(* that has become shorter.                                                *)
Put(old, at, new) ==
  LET end == at + Len(new)
  IN IF new = <<>> THEN old
     ELSE [i \in 1 .. (IF end < Len(old) THEN Len(old) ELSE end) |->
             IF i \in at + 1 .. end THEN new[i - at]
             ELSE IF i <= Len(old) THEN old[i] ELSE Nul]

(* A file opened to append is always written at its end.                   *)
PutFile(t, at, new) ==
  file' = Put(file, IF batch[t].mode = "w" THEN at ELSE Len(file), new)

(* Of contents that do not fit in its buffer fwrite writes whole blocks at *)
(* once, and fclose the rest; of others it keeps all for fclose.           *)
Whole(content) == Len(content) - (Len(content) % BlockSize)

Blocks(content) == SubSeq(content, 1, Whole(content))

Rest(content) == SubSeq(content, Whole(content) + 1, Len(content))

Flush(t) ==
  /\ InIO(t, "writer", "opened")
  /\ Len(batch[t].content) >= BlockSize
  /\ PutFile(t, 0, Blocks(batch[t].content))
  /\ GoIO(t, "flushed")
  /\ UNCHANGED <<flvars, collectvars, batch, length, reply, server>>

(* fclose.                                                                 *)
Write(t) ==
  /\ \/ InIO(t, "writer", "opened") /\ Len(batch[t].content) < BlockSize
     \/ InIO(t, "writer", "flushed")
  /\ PutFile(t, Whole(batch[t].content), Rest(batch[t].content))
  /\ GoIO(t, "finished")
  /\ UNCHANGED <<flvars, collectvars, batch, length, reply, server>>

Lock(t) ==
  /\ pc[t] = "inside" => io[t] = "finished"
  /\ ThreadStep(t)
  /\ UNCHANGED <<collectvars, batch, iovars, server>>

Wake(t) ==
  server = "up" /\ Spurious(t) /\ UNCHANGED <<collectvars, batch, iovars, server>>

BatchStep(t) ==
  /\ server = "up"
  /\ \/ Lock(t) \/ Unopened(t) \/ Measure(t) \/ Read(t) \/ ReadFails(t)
     \/ Open(t) \/ Flush(t) \/ Write(t)

FBNext ==
  \/ \E r \in Request : Collect(r)
  \/ JoinBatch
  \/ \E t \in Thread : BatchStep(t) \/ Wake(t)

(* As in FileLock: threads that can run do so, and no client has to send.  *)
FBFairness == WF_fbvars(JoinBatch) /\ \A t \in Thread : WF_fbvars(BatchStep(t))

FBSpec == FBInit /\ [][FBNext]_fbvars /\ FBFairness

-----------------------------------------------------------------------------
IOPlace == {"start", "measured", "opened", "flushed", "finished"}

Sendable == {s \in Seq(Byte \cup {Garbage}) : Fits(s)}

(* Every variable stays in its type; what a client is sent fits in a       *)
(* message.                                                                *)
FBTypeOK ==
  /\ TypeOK
  /\ scheduling_policy \in {"none", "readers", "writers"}
  /\ read_write_buff \in Seq(Request) /\ Len(read_write_buff) < RW_BUFF_SIZE
  /\ received \in 0 .. MaxRequests
  /\ batch \in [Thread -> Request \cup {NoRequest}]
  /\ file \in Seq(Byte)
  /\ io \in [Thread -> IOPlace]
  /\ length \in [Thread -> Nat]
  /\ reply \in [Thread -> {NoReply} \cup Sendable]
  /\ server \in {"up", "crashed"}

(* The batch has the requests collected, each once, with those that the    *)
(* scheduling policy puts first in front; without a policy, as they came.  *)
StartsInOrder ==
  \E r \in Request, where \in [Thread -> Thread] :
    /\ \A t, u \in Thread : t # u => where[t] # where[u]
    /\ \A t \in Thread : batch'[t] = Append(read_write_buff, r)[where[t]]
    /\ \A t, u \in Thread : t < u =>
         CASE scheduling_policy = "none" -> where[t] < where[u]
           [] scheduling_policy = "readers" ->
                IsRead(batch'[u]) => IsRead(batch'[t])
           [] scheduling_policy = "writers" ->
                IsRead(batch'[t]) => IsRead(batch'[u])

(* Every array that threads are started from is so.                        *)
BatchIsSorted ==
  [][phase' # phase /\ phase' = "joining" => StartsInOrder]_fbvars

Locks == rw_policy # "simultaneous"

(* main.c:201, "Critical section for reading": with a lock, no thread makes*)
(* the file shorter or longer between ftell and fread, so that a read does *)
(* not send what it never read.  It brings the server down only by what the*)
(* file holds, when that is no UTF-8.                                      *)
ReadsAreWhole ==
  Locks =>
    /\ server = "crashed" => ~Packs(CString(file))
    /\ \A t \in Thread : io[t] = "measured" => length[t] = Len(file)

(* A read of a full batch is answered, also by a file that is missing or   *)
(* has become empty: only a file too long for a message leaves its client  *)
(* without an answer, or a server that went down.                          *)
ReadsAreAnswered ==
  \A t \in Thread :
    kind[t] = "reader" /\ io[t] = "start"
      ~> \/ reply[t] # NoReply \/ Len(file) > MaxText
         \/ server = "crashed"

(* main.c:629, "Vom procesa toate cereile ce vin pe coada de mesaje": what *)
(* has been collected is processed.                                        *)
RequestsAreProcessed == read_write_buff # <<>> ~> read_write_buff = <<>>

-----------------------------------------------------------------------------
(* The abstract specification.  A write takes place when the file is       *)
(* truncated, or when it is first appended to; a read when the file is     *)
(* measured.                                                               *)
Truncates(t) == kind[t] = "writer" /\ batch[t].mode = "w"

Unserved == {t \in Thread : \/ io[t] = "start"
                            \/ io[t] = "opened" /\ ~Truncates(t)}

(* What the batch is promised is more than its end.                        *)
Protected ==
  Locks \/ \A t \in Thread : /\ batch[t].mode # "w"
                             /\ Len(batch[t].content) < BlockSize

(* A file that is being written has the contents that its writer is about  *)
(* to give it.                                                             *)
Halfway == {t \in Thread : \/ io[t] = "flushed"
                           \/ io[t] = "opened" /\ Truncates(t)}

Finished(t) == IF Truncates(t) THEN batch[t].content
                               ELSE file \o Rest(batch[t].content)

FileToBe == IF Locks /\ Halfway # {}
            THEN Finished(CHOOSE t \in Halfway : TRUE) ELSE file

(* What can be sent of a file with these contents.                         *)
Told(contents) == IF Packs(CString(contents)) THEN Answer(CString(contents))
                                              ELSE NoReply

ReplyToBe ==
  [t \in Thread |-> IF io[t] = "measured" THEN Told(Text(length[t])) ELSE reply[t]]

AF == INSTANCE AtomicFile WITH
  Request <- Request \cup {NoRequest},
  atomic <- Protected, request <- batch, todo <- Unserved,
  file <- FileToBe, reply <- ReplyToBe

(* The lock makes each request of a batch take place at one moment: a read *)
(* sees the file whole, no write is lost to another one and the next batch *)
(* sees them all.  Without a lock this still holds of batches that only    *)
(* read and append what fits in the buffer of stdio.                       *)
ImplementsAtomicFile == AF!Spec
=============================================================================
