-------------------------- MODULE FileBatchProofs ---------------------------
(***************************************************************************)
(* File request batches of any size, with any requests: the threads of a   *)
(* batch use the lock as module FileLock says, so that no read sees the    *)
(* file change between its ftell and its fread; the batch is the requests  *)
(* collected, sorted; and its threads implement the atomic file.           *)
(***************************************************************************)
EXTENDS FileSortProofs, FileLockProofs, SequenceTheorems

-----------------------------------------------------------------------------
LEMMA StepTakesTheLock == [FBNext]_fbvars => [Next]_flvars
<1> SUFFICES ASSUME [FBNext]_fbvars PROVE [Next]_flvars
  OBVIOUS
<1>1. ASSUME NEW r \in Request, Collect(r) PROVE [Next]_flvars
  BY <1>1 DEF Collect, Next
<1>2. CASE JoinBatch
  BY <1>2 DEF JoinBatch, Next
<1>3. ASSUME NEW t \in Thread, BatchStep(t) PROVE [Next]_flvars
  BY <1>3 DEF BatchStep, Lock, Unopened, Measure, Read, ReadFails, Open, Flush,
              Write, Next
<1>4. ASSUME NEW t \in Thread, Wake(t) PROVE [Next]_flvars
  BY <1>4 DEF Wake, Next
<1>5. CASE UNCHANGED fbvars
  BY <1>5 DEF fbvars
<1> QED
  BY <1>1, <1>2, <1>3, <1>4, <1>5 DEF FBNext

(* main.c:194-319: a batch uses the lock of module FileLock, so whatever is*)
(* proved of that lock holds of the batches.                               *)
THEOREM BatchesUseTheLock == FBSpec => Safety
<1>1. FBInit => Init
  BY DEF FBInit
<1> QED
  BY <1>1, StepTakesTheLock, PTL DEF FBSpec, Safety

-----------------------------------------------------------------------------
(* The types.                                                              *)
TInv == IInv /\ FBTypeOK

LEMMA RequestIs ==
  \A r \in Request \cup {NoRequest} :
    /\ r.type \in {"READ_REQUEST", "WRITE_REQUEST"}
    /\ r.content \in Seq(Byte)
<1>1. NoRequest.type = "READ_REQUEST" /\ NoRequest.content = <<>>
  BY DEF NoRequest
<1>2. <<>> \in Seq(Byte)
  OBVIOUS
<1> QED
  BY <1>1, <1>2, RequestAssumption

(* A full buffer has a request for each thread, which scheduling moves     *)
(* about.                                                                  *)
LEMMA ScheduledIs ==
  ASSUME NEW buff \in Seq(Request), IsFull(buff),
         scheduling_policy \in {"none", "readers", "writers"}
  PROVE  /\ Scheduled(buff) \in [Thread -> Request]
         /\ \E where : Rearranged(Scheduled(buff), buff, where)
         /\ scheduling_policy # "none" =>
              \A t, u \in Thread :
                t < u /\ Preferred(Scheduled(buff)[u])
                  => Preferred(Scheduled(buff)[t])
<1>1. Thread = Places /\ buff \in [Places -> Request]
  BY PlacesAre, LenProperties DEF IsFull
<1>2. CASE scheduling_policy = "none"
  <2>1. Scheduled(buff) = buff
    BY <1>2 DEF Scheduled
  <2>2. Rearranged(buff, buff, [t \in Places |-> t])
    BY DEF Rearranged
  <2> QED
    BY <1>1, <1>2, <2>1, <2>2
<1>3. CASE scheduling_policy # "none"
  <2>1. Scheduled(buff) = sort(buff)
    BY <1>3 DEF Scheduled
  <2>2. /\ sort(buff) \in [Places -> Request]
        /\ \E where : Rearranged(sort(buff), buff, where)
        /\ \A t, u \in Places :
             t < u /\ Preferred(sort(buff)[u]) => Preferred(sort(buff)[t])
    BY <1>1, SortIs
  <2> QED
    BY <1>1, <2>1, <2>2
<1> QED
  BY <1>2, <1>3

LEMMA TypesCollect ==
  ASSUME TInv, NEW r \in Request, Collect(r), TypeOK'
  PROVE  FBTypeOK'
<1> DEFINE buff == Append(read_write_buff, r)
<1>1. /\ buff \in Seq(Request) /\ Len(buff) = Len(read_write_buff) + 1
      /\ Len(read_write_buff) \in Nat /\ Len(read_write_buff) < RW_BUFF_SIZE
      /\ RW_BUFF_SIZE \in Nat \ {0}
  BY AppendProperties, LenProperties, BatchAssumption DEF TInv, FBTypeOK
<1>2. /\ received' \in 0 .. MaxRequests
      /\ UNCHANGED <<scheduling_policy, file, length, reply, server>>
  BY BatchAssumption DEF Collect, TInv, FBTypeOK
<1>3. CASE ~IsFull(buff)
  <2>1. /\ read_write_buff' = buff /\ UNCHANGED <<batch, io>>
    BY <1>3 DEF Collect
  <2>2. Len(buff) < RW_BUFF_SIZE
    BY <1>1, <1>3 DEF IsFull
  <2> QED
    BY <1>1, <1>2, <2>1, <2>2 DEF TInv, FBTypeOK
<1>4. CASE IsFull(buff)
  <2>1. /\ read_write_buff' = <<>> /\ batch' = Scheduled(buff)
        /\ io' = [t \in Thread |-> "start"]
    BY <1>4 DEF Collect
  <2>2. Scheduled(buff) \in [Thread -> Request]
    BY <1>1, <1>4, ScheduledIs DEF TInv, FBTypeOK
  <2>3. /\ batch' \in [Thread -> Request \cup {NoRequest}]
        /\ io' \in [Thread -> IOPlace]
    BY <2>1, <2>2 DEF IOPlace
  <2>4. read_write_buff' \in Seq(Request) /\ Len(read_write_buff') < RW_BUFF_SIZE
    BY <1>1, <2>1, EmptySeq
  <2> QED
    BY <1>2, <2>3, <2>4 DEF TInv, FBTypeOK
<1> QED
  BY <1>3, <1>4

LEMMA PrefixType ==
  ASSUME NEW A, NEW s \in Seq(A), NEW n \in 0 .. Len(s)
  PROVE  /\ SubSeq(s, 1, n) \in Seq(A) /\ Len(SubSeq(s, 1, n)) = n
         /\ \A i \in 1 .. n : SubSeq(s, 1, n)[i] = s[i]
<1>1. Len(s) \in Nat
  BY LenProperties
<1>2. \A i \in 1 .. n : s[i] \in A
  BY <1>1, ElementOfSeq
<1> QED
  BY <1>1, <1>2, SubSeqProperties

(* What a file holds that has not become shorter since it was measured.    *)
LEMMA TextIs ==
  ASSUME file \in Seq(Byte), NEW n \in Nat, n <= Len(file)
  PROVE  /\ Text(n) \in Seq(Byte)
         /\ n = Len(file) => Text(n) = file
<1>1. Len(file) \in Nat /\ file = [i \in 1 .. Len(file) |-> file[i]]
  BY LenProperties
<1>2. \A i \in 1 .. n : i <= Len(file) /\ file[i] \in Byte
  BY <1>1, ElementOfSeq
<1>3. Text(n) = [i \in 1 .. n |-> file[i]]
  BY <1>2 DEF Text
<1> QED
  BY <1>1, <1>2, <1>3

(* What stands before the first zero is part of the text.                  *)
LEMMA CStringType ==
  ASSUME NEW A, NEW text \in Seq(A)
  PROVE  CString(text) \in Seq(A) /\ Len(CString(text)) <= Len(text)
<1> DEFINE ends == {i \in DOMAIN text : /\ text[i] = Nul
                                        /\ \A j \in 1 .. i - 1 : text[j] # Nul}
<1>1. DOMAIN text = 1 .. Len(text) /\ Len(text) \in Nat
  BY LenProperties
<1>2. CASE ends = {}
  BY <1>1, <1>2 DEF CString
<1>3. CASE ends # {}
  <2> DEFINE n == (CHOOSE i \in ends : TRUE) - 1
  <2>1. CString(text) = SubSeq(text, 1, n)
    BY <1>3 DEF CString
  <2>2. n \in 0 .. Len(text) - 1
    BY <1>1, <1>3
  <2> HIDE DEF n
  <2> QED
    BY <1>1, <2>1, <2>2, PrefixType
<1> QED
  BY <1>2, <1>3

(* Nothing of a text without garbage is left to malloc.                    *)
LEMMA StringsIs ==
  ASSUME NEW text \in Seq(Byte)
  PROVE  Strings(text) = {CString(text)} /\ ~Torn(CString(text))
<1>1. CString(text) \in Seq(Byte)
  BY CStringType
<1>2. \A i \in DOMAIN CString(text) : CString(text)[i] # Garbage
  BY <1>1, ByteAssumption, ElementOfSeq, LenProperties
<1> QED
  BY <1>2 DEF Strings, Torn

(* What is sent is no longer than what was read.                           *)
LEMMA StringsType ==
  ASSUME NEW text \in Seq(Byte \cup {Garbage}), NEW s \in Strings(text)
  PROVE  s \in Seq(Byte \cup {Garbage})
<1>1. CString(text) \in Seq(Byte \cup {Garbage})
  BY CStringType
<1>2. CASE s = CString(text)
  BY <1>1, <1>2
<1>3. CASE s # CString(text)
  <2>1. PICK i \in DOMAIN CString(text) : s = SubSeq(CString(text), 1, i - 1)
    BY <1>3 DEF Strings
  <2>2. i - 1 \in 0 .. Len(CString(text))
    BY <1>1, <2>1, LenProperties
  <2> QED
    BY <1>1, <2>1, <2>2, PrefixType
<1> QED
  BY <1>2, <1>3

LEMMA TextType ==
  ASSUME NEW n \in Nat, file \in Seq(Byte)
  PROVE  Text(n) \in Seq(Byte \cup {Garbage})
<1>1. \A i \in 1 .. n : i <= Len(file) => file[i] \in Byte
  BY ElementOfSeq, LenProperties
<1>2. Text(n) \in [1 .. n -> Byte \cup {Garbage}]
  BY <1>1 DEF Text
<1> QED
  BY <1>2

(* fwrite and fclose share the contents between them.                      *)
LEMMA PartsAre ==
  ASSUME NEW c \in Seq(Byte)
  PROVE  /\ Blocks(c) \in Seq(Byte) /\ Rest(c) \in Seq(Byte)
         /\ Whole(c) \in Nat /\ Len(Blocks(c)) = Whole(c)
         /\ Blocks(c) \o Rest(c) = c
         /\ Len(c) < BlockSize => Whole(c) = 0 /\ Rest(c) = c
<1>1. Len(c) \in Nat /\ BlockSize \in Nat \ {0}
  BY LenProperties, BatchAssumption
<1>2. /\ Len(c) % BlockSize \in 0 .. Len(c)
      /\ Len(c) < BlockSize => Len(c) % BlockSize = Len(c)
  BY <1>1
<1>3. /\ Whole(c) \in 0 .. Len(c)
      /\ Len(c) < BlockSize => Whole(c) = 0
  BY <1>1, <1>2 DEF Whole
<1>4. /\ Blocks(c) \in Seq(Byte) /\ Len(Blocks(c)) = Whole(c)
      /\ \A i \in 1 .. Whole(c) : Blocks(c)[i] = c[i]
  BY <1>3, PrefixType DEF Blocks
<1>5. /\ Rest(c) \in Seq(Byte) /\ Len(Rest(c)) = Len(c) - Whole(c)
      /\ \A i \in 1 .. Len(c) - Whole(c) : Rest(c)[i] = c[i + Whole(c)]
  <2>1. \A i \in Whole(c) + 1 .. Len(c) : c[i] \in Byte
    BY <1>1, <1>3, ElementOfSeq
  <2>2. /\ Rest(c) \in Seq(Byte)
        /\ Len(Rest(c)) = IF Whole(c) + 1 <= Len(c) THEN Len(c) - (Whole(c) + 1) + 1
                                                    ELSE 0
        /\ \A i \in 1 .. Len(c) - (Whole(c) + 1) + 1 :
             Rest(c)[i] = c[(Whole(c) + 1) + i - 1]
    BY <1>1, <1>3, <2>1, SubSeqProperties DEF Rest
  <2> QED
    BY <1>1, <1>3, <2>2
<1>6. Blocks(c) \o Rest(c) = c
  <2> DEFINE d == Blocks(c) \o Rest(c)
  <2>1. /\ d \in Seq(Byte) /\ Len(d) = Whole(c) + (Len(c) - Whole(c))
        /\ \A i \in 1 .. Whole(c) + (Len(c) - Whole(c)) :
             d[i] = IF i <= Whole(c) THEN Blocks(c)[i] ELSE Rest(c)[i - Whole(c)]
    BY <1>4, <1>5, ConcatProperties
  <2> HIDE DEF d
  <2>2. Len(d) = Len(c)
    BY <1>1, <1>3, <2>1
  <2>3. ASSUME NEW i \in 1 .. Len(d) PROVE d[i] = c[i]
    <3>1. CASE i <= Whole(c)
      BY <1>1, <1>3, <1>4, <2>1, <2>2, <3>1
    <3>2. CASE i > Whole(c)
      <4>1. i - Whole(c) \in 1 .. Len(c) - Whole(c)
        BY <1>1, <1>3, <2>2, <3>2
      <4>2. Rest(c)[i - Whole(c)] = c[i]
        BY <1>1, <1>3, <1>5, <4>1
      <4> QED
        BY <1>1, <1>3, <2>1, <2>2, <3>2, <4>2
    <3> QED
      BY <1>1, <1>3, <2>2, <3>1, <3>2
  <2> QED
    BY <2>1, <2>2, <2>3, SeqEqual DEF d
<1>7. Len(c) < BlockSize => Rest(c) = c
  BY <1>1, <1>3, SubSeqFull DEF Rest
<1> QED
  BY <1>3, <1>4, <1>5, <1>6, <1>7

(* A write at the end of a file adds to it.                                *)
LEMMA PutIs ==
  ASSUME NEW old \in Seq(Byte), NEW new \in Seq(Byte), NEW at \in Nat
  PROVE  /\ Put(old, at, new) \in Seq(Byte)
         /\ at = Len(old) => Put(old, at, new) = old \o new
<1> DEFINE end == at + Len(new)
           n == IF end < Len(old) THEN Len(old) ELSE end
           p == [i \in 1 .. n |-> IF i \in at + 1 .. end THEN new[i - at]
                                  ELSE IF i <= Len(old) THEN old[i] ELSE Nul]
<1>1. Len(old) \in Nat /\ Len(new) \in Nat /\ n \in Nat
  BY LenProperties
<1>2. CASE new = <<>>
  BY <1>2, ConcatEmptySeq DEF Put
<1>3. CASE new # <<>>
  <2>1. Put(old, at, new) = p
    BY <1>3 DEF Put
  <2>2. ASSUME NEW i \in 1 .. n PROVE p[i] \in Byte
    <3>1. CASE i \in at + 1 .. end
      <4>1. i - at \in 1 .. Len(new)
        BY <1>1, <3>1
      <4> QED
        BY <3>1, <4>1, ElementOfSeq
    <3>2. CASE i \notin at + 1 .. end /\ i <= Len(old)
      BY <1>1, <3>2, ElementOfSeq
    <3>3. CASE i \notin at + 1 .. end /\ ~(i <= Len(old))
      BY <3>3, ByteAssumption
    <3> QED
      BY <3>1, <3>2, <3>3
  <2>3. p \in [1 .. n -> Byte]
    BY <2>2
  <2>4. p \in Seq(Byte) /\ Len(p) = n
    BY <1>1, <2>3
  <2>5. ASSUME at = Len(old) PROVE p = old \o new
    <3> DEFINE c == old \o new
    <3>1. /\ c \in Seq(Byte) /\ Len(c) = Len(old) + Len(new)
          /\ \A i \in 1 .. Len(old) + Len(new) :
               c[i] = IF i <= Len(old) THEN old[i] ELSE new[i - Len(old)]
      BY ConcatProperties
    <3>2. n = Len(old) + Len(new)
      BY <1>1, <2>5
    <3>3. \A i \in 1 .. n : p[i] = c[i]
      BY <1>1, <2>5, <3>1, <3>2
    <3> HIDE DEF p, c, n
    <3>4. p = c
      BY <2>4, <3>1, <3>2, <3>3, SeqEqual
    <3> QED
      BY <3>4 DEF c
  <2> HIDE DEF p
  <2> QED
    BY <2>1, <2>4, <2>5
<1> QED
  BY <1>2, <1>3

LEMMA TypesStep ==
  ASSUME TInv, NEW t \in Thread, BatchStep(t) \/ Wake(t), TypeOK'
  PROVE  FBTypeOK'
<1>1. UNCHANGED <<collectvars, batch>>
  BY DEF BatchStep, Wake, Lock, Unopened, Measure, Read, ReadFails, Open, Flush, Write
<1>2. file' \in Seq(Byte)
  <2>1. CASE Open(t)
    BY <2>1, EmptySeq DEF Open, TInv, FBTypeOK
  <2>2. CASE Flush(t) \/ Write(t)
    <3>1. batch[t].content \in Seq(Byte) /\ file \in Seq(Byte) /\ Len(file) \in Nat
      BY RequestIs, LenProperties DEF TInv, FBTypeOK
    <3>2. \E at \in Nat, new \in Seq(Byte) : file' = Put(file, at, new)
      <4>1. /\ Blocks(batch[t].content) \in Seq(Byte)
            /\ Rest(batch[t].content) \in Seq(Byte)
            /\ Whole(batch[t].content) \in Nat
        BY <3>1, PartsAre
      <4> QED
        BY <2>2, <3>1, <4>1 DEF Flush, Write, PutFile
    <3> QED
      BY <3>1, <3>2, PutIs
  <2>3. CASE ~Open(t) /\ ~Flush(t) /\ ~Write(t)
    <3>1. file' = file
      BY <2>3 DEF BatchStep, Wake, Lock, Unopened, Measure, Read, ReadFails, iovars
    <3> QED
      BY <3>1 DEF TInv, FBTypeOK
  <2> QED
    BY <2>1, <2>2, <2>3
<1>3. io' \in [Thread -> IOPlace]
  BY DEF BatchStep, Wake, Lock, Unopened, Measure, Read, ReadFails, Open, Flush, Write,
         iovars, GoIO, IOPlace, TInv, FBTypeOK
<1>4. length' \in [Thread -> Nat]
  <2>1. Len(file) \in Nat
    BY LenProperties DEF TInv, FBTypeOK
  <2> QED
    BY <2>1 DEF BatchStep, Wake, Lock, Unopened, Measure, Read, ReadFails, Open,
                Flush, Write, iovars, TInv, FBTypeOK
<1>5. reply' \in [Thread -> {NoReply} \cup Sendable]
  <2>1. ASSUME NEW s \in Seq(Byte \cup {Garbage}), Reply(t, s)
        PROVE  reply' \in [Thread -> {NoReply} \cup Sendable]
    <3>1. Answer(s) \in {NoReply} \cup Sendable
      BY DEF Answer, Sendable
    <3> QED
      BY <2>1, <3>1 DEF Reply, TInv, FBTypeOK
  <2>2. CASE Unopened(t)
    BY <2>1, <2>2, EmptySeq DEF Unopened, TInv, FBTypeOK
  <2>3. CASE Read(t)
    <3>1. length[t] \in Nat /\ file \in Seq(Byte)
      BY DEF TInv, FBTypeOK
    <3>2. \A s \in Strings(Text(length[t])) : s \in Seq(Byte \cup {Garbage})
      BY <3>1, TextType, StringsType
    <3> QED
      BY <2>1, <2>3, <3>2 DEF Read
  <2>4. CASE UNCHANGED reply
    BY <2>4 DEF TInv, FBTypeOK
  <2> QED
    BY <2>2, <2>3, <2>4 DEF BatchStep, Wake, Lock, Measure, ReadFails, Open, Flush,
       Write, iovars
<1>6. server' \in {"up", "crashed"}
  BY DEF BatchStep, Wake, Lock, Unopened, Measure, Read, ReadFails, Open, Flush, Write,
         TInv, FBTypeOK
<1> QED
  BY <1>1, <1>2, <1>3, <1>4, <1>5, <1>6 DEF TInv, FBTypeOK, collectvars

LEMMA TInvInit == FBInit => TInv
<1> SUFFICES ASSUME FBInit PROVE TInv
  OBVIOUS
<1>1. IInv /\ TypeOK
  BY InvInit, InvImpliesTypeOK DEF FBInit
<1>2. /\ read_write_buff \in Seq(Request) /\ Len(read_write_buff) = 0
      /\ file \in Seq(Byte)
  BY EmptySeq, ByteAssumption DEF FBInit
<1>3. Len(read_write_buff) < RW_BUFF_SIZE /\ received \in 0 .. MaxRequests
  BY <1>2, BatchAssumption DEF FBInit
<1>4. batch \in [Thread -> Request \cup {NoRequest}]
  BY DEF FBInit, NoBatch
<1>5. /\ io \in [Thread -> IOPlace] /\ length \in [Thread -> Nat]
      /\ reply \in [Thread -> {NoReply} \cup Sendable]
  BY DEF FBInit, IOPlace
<1> QED
  BY <1>1, <1>2, <1>3, <1>4, <1>5 DEF FBInit, TInv, FBTypeOK

LEMMA TInvNext == TInv /\ [FBNext]_fbvars => TInv'
<1> SUFFICES ASSUME TInv, [FBNext]_fbvars PROVE TInv'
  OBVIOUS
<1>1. IInv' /\ TypeOK'
  <2>1. IInv'
    BY StepTakesTheLock, InvNext DEF TInv
  <2>2. IInv' => TypeOK'
    BY InvImpliesTypeOK, PTL
  <2> QED
    BY <2>1, <2>2
<1>2. ASSUME NEW r \in Request, Collect(r) PROVE FBTypeOK'
  BY <1>1, <1>2, TypesCollect
<1>3. CASE JoinBatch
  BY <1>1, <1>3 DEF JoinBatch, NoBatch, collectvars, TInv, FBTypeOK
<1>4. ASSUME NEW t \in Thread, BatchStep(t) \/ Wake(t) PROVE FBTypeOK'
  BY <1>1, <1>4, TypesStep
<1>5. CASE UNCHANGED fbvars
  BY <1>1, <1>5 DEF fbvars, collectvars, iovars, TInv, FBTypeOK
<1> QED
  BY <1>1, <1>2, <1>3, <1>4, <1>5 DEF FBNext, TInv

LEMMA TInvariance == FBSpec => []TInv
BY TInvInit, TInvNext, PTL DEF FBSpec

(* FBTypeOK holds for batches of any size: every thread has a request, and *)
(* what a client is sent is made of bytes of the file and of what malloc   *)
(* left, and fits in a message.                                            *)
THEOREM FBTypeCorrect == FBSpec => []FBTypeOK
<1>1. TInv => FBTypeOK
  BY DEF TInv
<1> QED
  BY <1>1, TInvariance, PTL

-----------------------------------------------------------------------------
(* Who is about to read or write the file is inside its critical section.  *)
InTheFile ==
  /\ io \in [Thread -> IOPlace]
  /\ DOMAIN length = Thread
  /\ \A t \in Thread : io[t] = "measured" => At(t, "reader", "inside")
  /\ \A t \in Thread : io[t] \in {"opened", "flushed"} => At(t, "writer", "inside")

FInv == TInv /\ InTheFile /\ ReadsAreWhole

LEMMA FInvInit == FBInit => FInv
<1> SUFFICES ASSUME FBInit PROVE FInv
  OBVIOUS
<1>1. TInv
  BY TInvInit
<1>2. InTheFile /\ ReadsAreWhole
  BY DEF FBInit, InTheFile, ReadsAreWhole, IOPlace
<1> QED
  BY <1>1, <1>2 DEF FInv

(* No thread is moved out of its critical section by another one.          *)
LEMMA OthersStay ==
  ASSUME IInv, NEW t \in Thread, ThreadStep(t),
         NEW u \in Thread \ {t}, pc[u] = "inside"
  PROVE  pc'[u] = "inside" /\ UNCHANGED <<rw_policy, kind>>
<1>1. UNCHANGED <<rw_policy, kind>>
  BY DEF ThreadStep, Pass, CountIn, TakeForReaders, CountOut, Take, Drop,
         ReaderTests, ReaderLeaves, WriterTests, WriterLeaves
<1>2. ASSUME NEW place, Goto(t, place) PROVE pc'[u] = "inside"
  BY <1>2 DEF Goto, IInv, Shape
<1>3. CASE ReaderLeaves(t) \/ WriterLeaves(t)
  <2>1. PICK W \in SUBSET (can_read \cup can_write) : WakeAndGo(t, "done", W)
    BY <1>3 DEF ReaderLeaves, WriterLeaves, Signal, Broadcast
  <2>2. /\ rw_policy = "writers" /\ pc[t] = "inside"
        /\ UNCHANGED <<rw_policy, phase, kind>>
    BY <1>3 DEF ReaderLeaves, WriterLeaves, At
  <2> QED
    BY <2>1, <2>2, MoveAndWake
<1> QED
  BY <1>1, <1>2, <1>3 DEF ThreadStep, Pass, CountIn, TakeForReaders, CountOut,
     Take, Drop, ReaderTests, WriterTests

(* A thread locks, unlocks or sleeps: nobody is moved while it uses the    *)
(* file.                                                                   *)
LEMMA FInvLock ==
  ASSUME FInv, TInv', NEW t \in Thread, Lock(t)
  PROVE  InTheFile' /\ ReadsAreWhole'
<1>1. /\ ThreadStep(t)
      /\ pc[t] = "inside" => io[t] = "finished"
      /\ UNCHANGED <<file, io, length, server>>
  BY DEF Lock, iovars
<1>2. UNCHANGED <<rw_policy, kind>>
  BY <1>1 DEF ThreadStep, Pass, CountIn, TakeForReaders, CountOut, Take, Drop,
              ReaderTests, ReaderLeaves, WriterTests, WriterLeaves
<1>3. ASSUME NEW u \in Thread, io[u] \in {"measured", "opened", "flushed"}
      PROVE  pc'[u] = "inside"
  <2>1. pc[u] = "inside" /\ u # t
    BY <1>1, <1>3 DEF FInv, InTheFile, At
  <2> QED
    BY <1>1, <2>1, OthersStay DEF FInv, TInv
<1>4. InTheFile'
  BY <1>1, <1>2, <1>3 DEF FInv, InTheFile, At
<1>5. ReadsAreWhole'
  BY <1>1, <1>2 DEF FInv, ReadsAreWhole, Locks
<1> QED
  BY <1>4, <1>5

(* While a writer is inside, under a lock, nobody has measured the file.   *)
LEMMA WriterIsAlone ==
  ASSUME FInv, Locks, NEW t \in Thread, At(t, "writer", "inside")
  PROVE  \A u \in Thread : io[u] # "measured"
BY DEF FInv, InTheFile, TInv, IInv, Exclusion, Inside, At, Locks

(* Only a writer changes the file.                                         *)
LEMMA FInvWriter ==
  ASSUME FInv, NEW t \in Thread, server = "up", Open(t) \/ Flush(t) \/ Write(t)
  PROVE  InTheFile' /\ ReadsAreWhole'
<1>1. /\ At(t, "writer", "inside")
      /\ UNCHANGED <<rw_policy, kind, pc, length, server>>
      /\ \E place \in {"opened", "flushed", "finished"} :
           io' = [io EXCEPT ![t] = place]
  BY DEF Open, Flush, Write, InIO, MayUseFile, At, GoIO, flvars
<1>2. InTheFile'
  BY <1>1 DEF FInv, InTheFile, At, IOPlace
<1>3. ReadsAreWhole'
  <2>1. CASE Locks
    <3>1. \A u \in Thread : io[u] # "measured"
      BY <1>1, <2>1, WriterIsAlone
    <3>2. \A u \in Thread : io'[u] # "measured"
      BY <1>1, <3>1 DEF FInv, InTheFile
    <3> QED
      BY <1>1, <2>1, <3>2 DEF FInv, ReadsAreWhole, Locks
  <2>2. CASE ~Locks
    BY <1>1, <2>2 DEF ReadsAreWhole, Locks
  <2> QED
    BY <2>1, <2>2
<1> QED
  BY <1>2, <1>3

(* A reader measures the file, and reads what it has measured.             *)
LEMMA FInvReader ==
  ASSUME FInv, NEW t \in Thread, Measure(t) \/ Read(t) \/ Unopened(t)
  PROVE  InTheFile' /\ ReadsAreWhole'
<1>1. UNCHANGED <<rw_policy, kind, pc, file, server>>
  BY DEF Measure, Read, Unopened, flvars
<1>2. CASE Measure(t)
  <2>1. /\ At(t, "reader", "inside")
        /\ length' = [length EXCEPT ![t] = Len(file)]
        /\ io' = [io EXCEPT ![t] = "measured"]
    BY <1>2 DEF Measure, InIO, MayUseFile, At, GoIO
  <2>2. InTheFile'
    BY <1>1, <2>1 DEF FInv, InTheFile, At, IOPlace
  <2>3. ReadsAreWhole'
    BY <1>1, <2>1 DEF FInv, InTheFile, ReadsAreWhole, Locks, IOPlace
  <2> QED
    BY <2>2, <2>3
<1>3. CASE Read(t) \/ Unopened(t)
  <2>1. io' = [io EXCEPT ![t] = "finished"] /\ length' = length
    BY <1>3 DEF Read, Unopened, GoIO
  <2>2. InTheFile'
    BY <1>1, <2>1 DEF FInv, InTheFile, At, IOPlace
  <2>3. ReadsAreWhole'
    BY <1>1, <2>1 DEF FInv, InTheFile, ReadsAreWhole, Locks, IOPlace
  <2> QED
    BY <2>2, <2>3
<1> QED
  BY <1>2, <1>3

(* With a lock, a file that was measured has not become shorter, and a read*)
(* that fails fails by what the file holds.                                *)
LEMMA FInvReadFails ==
  ASSUME FInv, NEW t \in Thread, ReadFails(t)
  PROVE  InTheFile' /\ ReadsAreWhole'
<1>1. /\ io[t] = "measured"
      /\ \E s \in Strings(Text(length[t])) : Torn(s) \/ ~Packs(s)
      /\ UNCHANGED <<rw_policy, kind, pc, file, io, length>>
  BY DEF ReadFails, InIO, flvars, iovars
<1>2. Locks => ~Packs(CString(file))
  <2> SUFFICES ASSUME Locks PROVE ~Packs(CString(file))
    OBVIOUS
  <2>1. length[t] = Len(file) /\ Len(file) \in Nat
    BY <1>1, LenProperties DEF FInv, ReadsAreWhole
  <2>2. file \in Seq(Byte)
    BY DEF FInv, TInv, FBTypeOK
  <2>3. Text(length[t]) = file
    BY <2>1, <2>2, TextIs
  <2> QED
    BY <1>1, <2>2, <2>3, StringsIs
<1>3. InTheFile'
  BY <1>1 DEF FInv, InTheFile, At
<1>4. ReadsAreWhole'
  BY <1>1, <1>2 DEF FInv, ReadsAreWhole, Locks
<1> QED
  BY <1>3, <1>4

(* The threads of a new batch have yet to lock, those of a joined one are  *)
(* done.                                                                   *)
LEMMA FInvBatch ==
  ASSUME FInv, (\E r \in Request : Collect(r)) \/ JoinBatch
  PROVE  InTheFile' /\ ReadsAreWhole'
<1>1. UNCHANGED <<rw_policy, file, server>>
  BY DEF Collect, JoinBatch, JoinAll, Begin, flvars
<1>2. ASSUME NEW r \in Request, Collect(r)
      PROVE  InTheFile' /\ ReadsAreWhole'
  <2>1. /\ length' = length
        /\ \/ UNCHANGED <<kind, pc, io>>
           \/ io' = [t \in Thread |-> "start"]
    BY <1>2 DEF Collect, flvars
  <2>2. InTheFile'
    BY <2>1 DEF FInv, InTheFile, At, IOPlace
  <2>3. ReadsAreWhole'
    BY <1>1, <2>1 DEF FInv, ReadsAreWhole, Locks
  <2> QED
    BY <2>2, <2>3
<1>3. CASE JoinBatch
  <2>1. /\ UNCHANGED <<kind, pc, io>> /\ \A t \in Thread : pc[t] = "done"
        /\ length' = [t \in Thread |-> 0]
    BY <1>3 DEF JoinBatch, JoinAll
  <2>2. \A t \in Thread : io[t] # "measured"
    BY <2>1 DEF FInv, InTheFile, At
  <2> QED
    BY <1>1, <2>1, <2>2 DEF FInv, InTheFile, ReadsAreWhole, Locks, At
<1> QED
  BY <1>2, <1>3

LEMMA FInvNext == FInv /\ [FBNext]_fbvars => FInv'
<1> SUFFICES ASSUME FInv, [FBNext]_fbvars PROVE FInv'
  OBVIOUS
<1>1. TInv'
  BY TInvNext DEF FInv
<1>2. CASE (\E r \in Request : Collect(r)) \/ JoinBatch
  BY <1>1, <1>2, FInvBatch DEF FInv
<1>3. ASSUME NEW t \in Thread, BatchStep(t) PROVE FInv'
  BY <1>1, <1>3, FInvLock, FInvWriter, FInvReader, FInvReadFails
     DEF BatchStep, FInv
<1>4. ASSUME NEW t \in Thread, Wake(t) PROVE FInv'
  <2>1. /\ pc[t] = "asleep" /\ Goto(t, "woken")
        /\ UNCHANGED <<rw_policy, kind, file, io, length, server>>
    BY <1>4 DEF Wake, Spurious, iovars
  <2>2. InTheFile'
    BY <2>1 DEF FInv, InTheFile, TInv, IInv, Shape, At, Goto
  <2>3. ReadsAreWhole'
    BY <2>1 DEF FInv, ReadsAreWhole, Locks
  <2> QED
    BY <1>1, <2>2, <2>3 DEF FInv
<1>5. CASE UNCHANGED fbvars
  BY <1>1, <1>5 DEF fbvars, flvars, iovars, FInv, InTheFile, ReadsAreWhole, Locks, At
<1> QED
  BY <1>2, <1>3, <1>4, <1>5 DEF FBNext

LEMMA FInvariance == FBSpec => []FInv
BY FInvInit, FInvNext, PTL DEF FBSpec

(* main.c:194-232: under either locking policy, what a read has measured is*)
(* what it reads, in a batch of any size, whatever the file held before and*)
(* whatever is written to it; and a server that a read brings down has been*)
(* brought down by a file that holds no UTF-8.                             *)
THEOREM ReadsAreWholeHolds == FBSpec => []ReadsAreWhole
<1>1. FInv => ReadsAreWhole
  BY DEF FInv
<1> QED
  BY <1>1, FInvariance, PTL

-----------------------------------------------------------------------------
LEMMA SortedStep ==
  ASSUME FInv, [FBNext]_fbvars, phase' # phase, phase' = "joining"
  PROVE  StartsInOrder
<1>1. PICK r \in Request : Collect(r)
  BY DEF FBNext, JoinBatch, JoinAll, BatchStep, Wake, Spurious, Lock, ThreadStep,
         Pass, CountIn, TakeForReaders, CountOut, Take, Drop, ReaderTests,
         ReaderLeaves, WriterTests, WriterLeaves, Unopened, Measure, Read,
         ReadFails, Open, Flush, Write, fbvars, flvars
<1> DEFINE buff == Append(read_write_buff, r)
<1>2. IsFull(buff) /\ batch' = Scheduled(buff)
  BY <1>1 DEF Collect, flvars
<1>3. /\ buff \in Seq(Request)
      /\ scheduling_policy \in {"none", "readers", "writers"}
      /\ Thread = Places /\ Places \subseteq Nat
  BY AppendProperties, PlacesAre DEF FInv, TInv, FBTypeOK
<1> HIDE DEF buff
<1>4. /\ Scheduled(buff) \in [Thread -> Request]
      /\ \E where : Rearranged(Scheduled(buff), buff, where)
      /\ scheduling_policy # "none" =>
           \A t, u \in Thread :
             t < u /\ Preferred(Scheduled(buff)[u])
               => Preferred(Scheduled(buff)[t])
  BY <1>2, <1>3, ScheduledIs
<1> DEFINE Good(where) ==
             /\ \A t, u \in Thread : t # u => where[t] # where[u]
             /\ \A t \in Thread : batch'[t] = buff[where[t]]
           Order(where) ==
             \A t, u \in Thread : t < u =>
                CASE scheduling_policy = "none" -> where[t] < where[u]
                  [] scheduling_policy = "readers" ->
                       IsRead(batch'[u]) => IsRead(batch'[t])
                  [] scheduling_policy = "writers" ->
                       IsRead(batch'[t]) => IsRead(batch'[u])
<1>5. \E where \in [Thread -> Thread] : Good(where) /\ Order(where)
  <2>1. CASE scheduling_policy = "none"
    <3> DEFINE id == [t \in Thread |-> t]
    <3>1. id \in [Thread -> Thread] /\ \A t \in Thread : id[t] = t
      OBVIOUS
    <3>2. batch' = buff
      BY <1>2, <2>1 DEF Scheduled
    <3> HIDE DEF id
    <3>3. Good(id)
      BY <3>1, <3>2
    <3>4. Order(id)
      BY <2>1, <3>1
    <3> HIDE DEF Good, Order
    <3> QED
      BY <3>1, <3>3, <3>4
  <2>2. CASE scheduling_policy # "none"
    <3>1. PICK where : Rearranged(Scheduled(buff), buff, where)
      BY <1>4
    <3>2. where \in [Thread -> Thread] /\ Good(where)
      BY <1>2, <1>3, <3>1 DEF Rearranged
    <3>3. \A t, u \in Thread :
             t < u /\ Preferred(batch'[u]) => Preferred(batch'[t])
      BY <1>2, <1>4, <2>2
    <3>4. \A t \in Thread : batch'[t].type \in {"READ_REQUEST", "WRITE_REQUEST"}
      BY <1>2, <1>4, RequestAssumption
    <3>5. Order(where)
      BY <1>3, <2>2, <3>3, <3>4 DEF Preferred, IsRead
    <3> HIDE DEF Good, Order
    <3> QED
      BY <3>2, <3>5
  <2> QED
    BY <2>1, <2>2
<1> QED
  BY <1>5 DEF buff, StartsInOrder

(* main.c:264-292: the threads of a batch get the requests collected, each *)
(* once, those that the scheduling policy prefers first.                   *)
THEOREM BatchIsSortedHolds == FBSpec => BatchIsSorted
<1>1. FInv /\ [FBNext]_fbvars =>
        [phase' # phase /\ phase' = "joining" => StartsInOrder]_fbvars
  BY SortedStep
<1> QED
  BY <1>1, FInvariance, PTL DEF FBSpec, BatchIsSorted

-----------------------------------------------------------------------------
(* The batch as requests that are served at one moment each.               *)

(* Between batches nothing is left to do, in a batch each thread does what *)
(* its request says, and one that is done has served it.                   *)
Settled ==
  /\ phase = "collecting" =>
       \A t \in Thread : io[t] = "finished" /\ reply[t] = NoReply
  /\ phase = "joining" =>
       \A t \in Thread : kind[t] = "reader" <=> IsRead(batch[t])
  /\ \A t \in Thread : pc[t] = "done" => io[t] = "finished"
  /\ \A t \in Thread : io[t] = "flushed" => Len(batch[t].content) >= BlockSize

(* Under a lock a file that was truncated holds what its writer has written*)
(* so far; without a writer that truncates it, it only grows.              *)
OnlyWritten ==
  Locks => \A t \in Thread : Truncates(t) =>
             /\ io[t] = "opened" => file = <<>>
             /\ io[t] = "flushed" => file = Blocks(batch[t].content)

OnlyGrows ==
  (\A t \in Thread : batch[t].mode # "w") =>
    \A t \in Thread : io[t] = "measured" => length[t] <= Len(file)

AInv == FInv /\ Settled /\ OnlyWritten /\ OnlyGrows

UsesFile(t) ==
  \/ Unopened(t) \/ Measure(t) \/ Read(t) \/ ReadFails(t)
  \/ Open(t) \/ Flush(t) \/ Write(t)

LEMMA AInvInit == FBInit => AInv
<1> SUFFICES ASSUME FBInit PROVE AInv
  OBVIOUS
<1>1. Settled
  BY DEF FBInit, Init, Settled
<1>2. OnlyWritten /\ OnlyGrows
  BY DEF FBInit, OnlyWritten, OnlyGrows
<1> QED
  BY <1>1, <1>2, FInvInit DEF AInv

(* Threads take steps in a batch only.                                     *)
LEMMA InABatch ==
  ASSUME FInv, NEW t \in Thread, BatchStep(t) \/ Wake(t)
  PROVE  /\ phase = "joining"
         /\ UNCHANGED <<rw_policy, phase, kind, collectvars, batch>>
<1>1. pc[t] # "done"
  BY DEF BatchStep, Lock, ThreadStep, Pass, CountIn, TakeForReaders, CountOut, Take,
         Drop, ReaderTests, ReaderLeaves, WriterTests, WriterLeaves, Wake, Spurious,
         Unopened, Measure, Read, ReadFails, Open, Flush, Write, InIO, MayUseFile, At
<1>2. phase = "joining"
  BY <1>1 DEF FInv, TInv, IInv, Shape
<1>3. UNCHANGED <<collectvars, batch>>
  BY DEF BatchStep, Wake, Lock, Unopened, Measure, Read, ReadFails, Open, Flush, Write
<1>4. UNCHANGED <<rw_policy, phase, kind>>
  BY DEF BatchStep, Lock, ThreadStep, Pass, CountIn, TakeForReaders, CountOut, Take,
         Drop, ReaderTests, ReaderLeaves, WriterTests, WriterLeaves, Wake, Spurious,
         Unopened, Measure, Read, ReadFails, Open, Flush, Write, flvars
<1> QED
  BY <1>2, <1>3, <1>4

(* A thread is done when it leaves the critical section.                   *)
LEMMA DoneFromInside ==
  ASSUME FInv, NEW t \in Thread, ThreadStep(t) \/ Spurious(t),
         NEW u \in Thread, pc'[u] = "done"
  PROVE  pc[u] = "done" \/ (u = t /\ pc[t] = "inside" /\ ThreadStep(t))
<1>1. pc \in [Thread -> Place]
  BY DEF FInv, TInv, IInv, Shape
<1>2. ASSUME NEW place, Goto(t, place)
      PROVE  pc'[u] = IF u = t THEN place ELSE pc[u]
  BY <1>1, <1>2 DEF Goto
<1>3. CASE ReaderLeaves(t) \/ WriterLeaves(t)
  <2>1. /\ pc[t] = "inside" /\ ThreadStep(t)
        /\ \E W : WakeAndGo(t, "done", W)
    BY <1>3 DEF ReaderLeaves, WriterLeaves, At, ThreadStep
  <2> QED
    BY <2>1 DEF WakeAndGo
<1>4. CASE Spurious(t)
  BY <1>2, <1>4 DEF Spurious
<1>5. CASE \/ Pass(t) \/ CountIn(t) \/ TakeForReaders(t) \/ CountOut(t)
           \/ Take(t) \/ Drop(t) \/ ReaderTests(t) \/ WriterTests(t)
  <2>1. ThreadStep(t)
    BY <1>5 DEF ThreadStep
  <2>2. \E place \in {"inside", "count", "asleep"} :
          Goto(t, place) \/ (pc[t] = "inside" /\ Goto(t, "done"))
    BY <1>5 DEF Pass, CountIn, TakeForReaders, CountOut, Take, Drop, ReaderTests,
                WriterTests, At
  <2> QED
    BY <1>2, <2>1, <2>2
<1> QED
  BY <1>3, <1>4, <1>5 DEF ThreadStep

(* Under a lock a writer has the file for itself.                          *)
LEMMA WriterHasTheFile ==
  ASSUME FInv, Locks, NEW t \in Thread, At(t, "writer", "inside")
  PROVE  \A u \in Thread : u # t => io[u] \notin {"measured", "opened", "flushed"}
BY DEF FInv, InTheFile, TInv, IInv, Exclusion, Inside, At, Locks

LEMMA HalfwayIsAlone ==
  ASSUME FInv, Locks, NEW t \in Thread, At(t, "writer", "inside")
  PROVE  /\ Halfway = IF io[t] = "flushed" \/ (io[t] = "opened" /\ Truncates(t))
                      THEN {t} ELSE {}
         /\ \A u \in Thread : io[u] # "measured"
<1>1. \A u \in Thread : u # t => io[u] \notin {"measured", "opened", "flushed"}
  BY WriterHasTheFile
<1>2. \A u \in Thread : io[u] # "measured"
  BY <1>1 DEF FInv, InTheFile, At
<1> QED
  BY <1>1, <1>2 DEF Halfway

LEMMA NoReaderMeets ==
  ASSUME FInv, Locks, NEW t \in Thread, At(t, "reader", "inside")
  PROVE  Halfway = {}
BY DEF FInv, InTheFile, TInv, IInv, Exclusion, Inside, At, Locks, Halfway

-----------------------------------------------------------------------------
(* The invariant.                                                          *)
LEMMA AInvBatch ==
  ASSUME AInv, FInv', (\E r \in Request : Collect(r)) \/ JoinBatch
  PROVE  Settled' /\ OnlyWritten' /\ OnlyGrows'
<1>1. ASSUME NEW r \in Request, Collect(r), ~IsFull(Append(read_write_buff, r))
      PROVE  Settled' /\ OnlyWritten' /\ OnlyGrows'
  <2>1. UNCHANGED <<rw_policy, phase, kind, pc, batch, io, file, length, reply>>
    BY <1>1 DEF Collect, flvars
  <2> QED
    BY <2>1 DEF AInv, Settled, OnlyWritten, OnlyGrows, Locks, Truncates
<1>2. ASSUME NEW r \in Request, Collect(r), IsFull(Append(read_write_buff, r))
      PROVE  Settled' /\ OnlyWritten' /\ OnlyGrows'
  <2>1. /\ phase' = "joining"
        /\ io' = [t \in Thread |-> "start"] /\ pc' = [t \in Thread |-> "start"]
        /\ kind' = [t \in Thread |-> IF IsRead(batch'[t]) THEN "reader"
                                                          ELSE "writer"]
    BY <1>2 DEF Collect, Begin
  <2> QED
    BY <2>1 DEF Settled, OnlyWritten, OnlyGrows
<1>3. CASE JoinBatch
  <2>1. /\ phase' = "collecting" /\ \A t \in Thread : pc[t] = "done"
        /\ reply' = [t \in Thread |-> NoReply] /\ io' = io
    BY <1>3 DEF JoinBatch, JoinAll
  <2>2. \A t \in Thread : io[t] = "finished"
    BY <2>1 DEF AInv, Settled
  <2> QED
    BY <2>1, <2>2 DEF Settled, OnlyWritten, OnlyGrows
<1> QED
  BY <1>1, <1>2, <1>3

(* The threads lock, unlock and sleep.                                     *)
LEMMA AInvLock ==
  ASSUME AInv, FInv', NEW t \in Thread, BatchStep(t) \/ Wake(t), Lock(t) \/ Wake(t)
  PROVE  Settled' /\ OnlyWritten' /\ OnlyGrows'
<1>1. /\ phase = "joining"
      /\ UNCHANGED <<rw_policy, phase, kind, batch, io, file, length, reply>>
  BY InABatch DEF AInv, Lock, Wake, iovars
<1>2. ASSUME NEW u \in Thread, pc'[u] = "done" PROVE io'[u] = "finished"
  <2>1. ThreadStep(t) \/ Spurious(t)
    BY DEF Lock, Wake
  <2>2. pc[u] = "done" \/ (u = t /\ pc[t] = "inside" /\ ThreadStep(t))
    BY <1>2, <2>1, DoneFromInside DEF AInv
  <2>3. ThreadStep(t) /\ pc[t] = "inside" => io[t] = "finished"
    BY DEF Lock, Wake, Spurious
  <2> QED
    BY <1>1, <2>2, <2>3 DEF AInv, Settled
<1>3. Settled'
  BY <1>1, <1>2 DEF AInv, Settled
<1> QED
  BY <1>1, <1>3 DEF AInv, OnlyWritten, OnlyGrows, Locks, Truncates

LEMMA WriterAppends ==
  ASSUME NEW t \in Thread, file \in Seq(Byte), batch[t].content \in Seq(Byte),
         batch[t].mode # "w", Flush(t) \/ Write(t)
  PROVE  /\ Flush(t) => file' = file \o Blocks(batch[t].content)
         /\ ~Flush(t) => file' = file \o Rest(batch[t].content)
         /\ \E new \in Seq(Byte) : file' = file \o new
<1>1. /\ Blocks(batch[t].content) \in Seq(Byte)
      /\ Rest(batch[t].content) \in Seq(Byte) /\ Len(file) \in Nat
  BY PartsAre, LenProperties
<1>2. \A new \in Seq(Byte) : Put(file, Len(file), new) = file \o new
  BY <1>1, PutIs
<1>3. /\ Flush(t) => file' = Put(file, Len(file), Blocks(batch[t].content))
      /\ ~Flush(t) => file' = Put(file, Len(file), Rest(batch[t].content))
  BY DEF Flush, Write, PutFile
<1> QED
  BY <1>1, <1>2, <1>3

LEMMA AInvUse ==
  ASSUME AInv, FInv', NEW t \in Thread, BatchStep(t), UsesFile(t)
  PROVE  Settled' /\ OnlyWritten' /\ OnlyGrows'
<1>1. /\ phase = "joining" /\ pc[t] = "inside"
      /\ UNCHANGED <<rw_policy, phase, kind, pc, batch>>
  BY InABatch DEF AInv, UsesFile, Unopened, Measure, Read, ReadFails, Open, Flush, Write,
                  InIO, MayUseFile, flvars
<1>2. /\ io \in [Thread -> IOPlace]
      /\ file \in Seq(Byte) /\ length \in [Thread -> Nat]
      /\ batch \in [Thread -> Request \cup {NoRequest}]
  BY DEF AInv, FInv, TInv, FBTypeOK
<1>3. \A u \in Thread : u # t => io'[u] = io[u]
  BY <1>2 DEF UsesFile, Unopened, Measure, Read, ReadFails, Open, Flush, Write,
              GoIO, iovars
<1>4. /\ \A u \in Thread : Truncates(u)' <=> Truncates(u)
      /\ Locks' <=> Locks
  BY <1>1 DEF Truncates, Locks
<1>5. CASE Unopened(t) \/ Read(t) \/ ReadFails(t)
  <2>1. /\ UNCHANGED <<file, length>>
        /\ io'[t] = "finished" \/ io' = io
    BY <1>2, <1>5 DEF Unopened, Read, ReadFails, GoIO, iovars
  <2>2. Settled'
    BY <1>1, <1>3, <2>1 DEF AInv, Settled
  <2>3. OnlyWritten'
    BY <1>1, <1>3, <1>4, <2>1 DEF AInv, OnlyWritten
  <2>4. OnlyGrows'
    BY <1>1, <1>3, <2>1 DEF AInv, OnlyGrows
  <2> QED
    BY <2>2, <2>3, <2>4
<1>6. CASE Measure(t)
  <2>1. /\ At(t, "reader", "inside") /\ file' = file
        /\ io' = [io EXCEPT ![t] = "measured"]
        /\ length' = [length EXCEPT ![t] = Len(file)]
    BY <1>6 DEF Measure, InIO, MayUseFile, At, GoIO
  <2>2. Settled'
    BY <1>1, <1>2, <2>1 DEF AInv, Settled
  <2>3. OnlyWritten'
    BY <1>1, <1>2, <1>4, <2>1 DEF AInv, OnlyWritten
  <2>4. Len(file) \in Nat
    BY <1>2, LenProperties
  <2>5. OnlyGrows'
    BY <1>1, <1>2, <2>1, <2>4 DEF AInv, OnlyGrows
  <2> QED
    BY <2>2, <2>3, <2>5
<1>7. CASE Open(t) \/ Flush(t) \/ Write(t)
  <2>1. /\ At(t, "writer", "inside") /\ length' = length
        /\ io' = [io EXCEPT ![t] = IF Open(t) THEN "opened"
                                   ELSE IF Flush(t) THEN "flushed" ELSE "finished"]
    BY <1>7 DEF Open, Flush, Write, InIO, MayUseFile, At, GoIO
  <2>2. Settled'
    <3>1. Flush(t) => Len(batch[t].content) >= BlockSize
      BY DEF Flush
    <3> QED
      BY <1>1, <1>2, <2>1, <3>1 DEF AInv, Settled
  <2>3. batch[t].content \in Seq(Byte) /\ Len(file) \in Nat
    BY <1>2, RequestIs, LenProperties
  <2>4. OnlyWritten'
    <3> SUFFICES ASSUME Locks, NEW u \in Thread, Truncates(u),
                        io'[u] \in {"opened", "flushed"}
                 PROVE  /\ io'[u] = "opened" => file' = <<>>
                        /\ io'[u] = "flushed" => file' = Blocks(batch[u].content)
      BY <1>1, <1>4 DEF OnlyWritten
    <3>1. u = t
      BY <1>3, <2>1, WriterHasTheFile DEF AInv
    <3>2. CASE Open(t)
      BY <1>2, <2>1, <3>1, <3>2 DEF Open, Truncates
    <3>3. CASE Flush(t) /\ ~Open(t)
      <4>1. io[t] = "opened" /\ file = <<>>
        BY <3>1, <3>3 DEF Flush, InIO, AInv, OnlyWritten
      <4>2. file' = Put(<<>>, 0, Blocks(batch[t].content))
        BY <3>1, <3>3, <4>1 DEF Flush, PutFile, Truncates
      <4>3. Blocks(batch[t].content) \in Seq(Byte)
        BY <2>3, PartsAre
      <4>4. <<>> \in Seq(Byte) /\ Len(<<>>) = 0
        BY EmptySeq
      <4>5. file' = <<>> \o Blocks(batch[t].content)
        BY <4>2, <4>3, <4>4, PutIs
      <4>6. file' = Blocks(batch[t].content)
        BY <4>3, <4>5, ConcatEmptySeq
      <4> QED
        BY <1>2, <2>1, <3>1, <3>3, <4>6
    <3>4. CASE ~Flush(t) /\ ~Open(t)
      BY <1>2, <2>1, <3>1, <3>4
    <3> QED
      BY <3>2, <3>3, <3>4
  <2>5. OnlyGrows'
    <3> SUFFICES ASSUME \A u \in Thread : batch[u].mode # "w",
                        NEW u \in Thread, io'[u] = "measured"
                 PROVE  length[u] <= Len(file')
      BY <1>1, <2>1 DEF OnlyGrows
    <3>1. u # t /\ io[u] = "measured"
      BY <1>2, <2>1
    <3>2. length[u] <= Len(file) /\ length[u] \in Nat
      BY <1>2, <3>1 DEF AInv, OnlyGrows
    <3>3. file' = file \/ \E new \in Seq(Byte) : file' = file \o new
      BY <1>2, <1>7, <2>3, WriterAppends DEF Open
    <3>4. ASSUME NEW new \in Seq(Byte), file' = file \o new
          PROVE  Len(file) <= Len(file')
      <4>1. Len(file') = Len(file) + Len(new) /\ Len(new) \in Nat
        BY <1>2, <3>4, ConcatProperties, LenProperties
      <4> QED
        BY <2>3, <4>1
    <3>5. Len(file) <= Len(file') /\ Len(file') \in Nat
      <4>1. file' \in Seq(Byte)
        BY DEF FInv, TInv, FBTypeOK
      <4> QED
        BY <2>3, <3>3, <3>4, <4>1, LenProperties
    <3> QED
      BY <2>3, <3>2, <3>5
  <2> QED
    BY <2>2, <2>4, <2>5
<1> QED
  BY <1>5, <1>6, <1>7 DEF UsesFile

LEMMA AInvNext == AInv /\ [FBNext]_fbvars => AInv'
<1> SUFFICES ASSUME AInv, [FBNext]_fbvars PROVE AInv'
  OBVIOUS
<1>1. FInv'
  BY FInvNext DEF AInv
<1>2. CASE (\E r \in Request : Collect(r)) \/ JoinBatch
  BY <1>1, <1>2, AInvBatch DEF AInv
<1>3. ASSUME NEW t \in Thread, BatchStep(t) \/ Wake(t) PROVE AInv'
  BY <1>1, <1>3, AInvLock, AInvUse DEF AInv, BatchStep, UsesFile
<1>4. CASE UNCHANGED fbvars
  BY <1>1, <1>4 DEF fbvars, flvars, iovars, AInv, Settled, OnlyWritten, OnlyGrows,
     Locks, Truncates
<1> QED
  BY <1>2, <1>3, <1>4 DEF FBNext

-----------------------------------------------------------------------------
(* The steps as steps of the atomic file.                                  *)
AFStep == [AF!Next]_<<Protected, batch, Unserved, FileToBe, ReplyToBe>>

LEMMA MappedIs ==
  /\ Protected \in BOOLEAN
  /\ \A t \in Thread : ReplyToBe[t] = IF io[t] = "measured"
                                      THEN Told(Text(length[t])) ELSE reply[t]
  /\ DOMAIN ReplyToBe = Thread
BY DEF Protected, Locks, ReplyToBe

LEMMA FileToBeSame ==
  ASSUME UNCHANGED <<file, kind, batch>>, Locks' <=> Locks, Halfway' = Halfway
  PROVE  FileToBe' = FileToBe
BY DEF FileToBe, Finished, Truncates

(* What a reader will be told depends on what it reads.                    *)
LEMMA ToldSame ==
  ASSUME NEW u \in Thread, Text(length[u])' = Text(length[u])
  PROVE  Told(Text(length[u]))' = Told(Text(length[u]))
BY DEF Told, Answer, Fits, CString

LEMMA FileToldSame ==
  ASSUME file' = file
  PROVE  \A u \in Thread : length'[u] = length[u] =>
           Told(Text(length[u]))' = Told(Text(length[u]))
<1> SUFFICES ASSUME NEW u \in Thread, length'[u] = length[u]
             PROVE  Told(Text(length[u]))' = Told(Text(length[u]))
  OBVIOUS
<1>1. Text(length[u])' = Text(length[u])
  BY DEF Text
<1> QED
  BY <1>1, ToldSame

LEMMA RepliesSame ==
  ASSUME file' = file, length' = length, reply' = reply,
         \A u \in Thread : io'[u] = "measured" <=> io[u] = "measured"
  PROVE  ReplyToBe' = ReplyToBe
<1>1. \A u \in Thread : Told(Text(length[u]))' = Told(Text(length[u]))
  BY FileToldSame
<1> QED
  BY <1>1 DEF ReplyToBe

LEMMA AFSame ==
  ASSUME UNCHANGED <<rw_policy, kind, batch, io, file, length, reply>>
  PROVE  AFStep
<1>1. Protected' = Protected /\ Unserved' = Unserved
  BY DEF Protected, Locks, Unserved, Truncates
<1>2. Halfway' = Halfway
  BY DEF Halfway, Truncates
<1>3. FileToBe' = FileToBe
  BY <1>2, FileToBeSame DEF Locks
<1>4. ReplyToBe' = ReplyToBe
  BY RepliesSame
<1> QED
  BY <1>1, <1>3, <1>4 DEF AFStep

LEMMA ThreeParts ==
  ASSUME NEW a \in Seq(Byte), NEW b \in Seq(Byte), NEW c \in Seq(Byte)
  PROVE  (a \o b) \o c = a \o (b \o c)
BY ConcatAssociative

(* Of a file that does not open the contents are sent as empty.            *)
LEMMA ToldNothing == Told(<<>>) = <<>> /\ Answer(<<>>) = <<>>
<1>1. <<>> \in Seq(Byte) /\ Len(<<>>) = 0 /\ DOMAIN <<>> = {}
  BY EmptySeq
<1>2. CString(<<>>) = <<>>
  BY <1>1 DEF CString
<1>3. Answer(<<>>) = <<>>
  BY <1>1, BatchAssumption DEF Answer, Fits
<1> QED
  BY <1>2, <1>3, PackAssumption DEF Told

LEMMA InitIsAtomic == FBInit => AF!Init
<1> SUFFICES ASSUME FBInit PROVE AF!Init
  OBVIOUS
<1>1. Unserved = {} /\ Halfway = {}
  BY DEF FBInit, Unserved, Halfway
<1>2. FileToBe \in InitialFile
  BY <1>1 DEF FBInit, FileToBe
<1>3. ReplyToBe = [t \in Thread |-> NoReply]
  BY DEF FBInit, ReplyToBe
<1>4. batch \in [Thread -> Request \cup {NoRequest}]
  BY DEF FBInit, NoBatch
<1> QED
  BY <1>1, <1>2, <1>3, <1>4, MappedIs DEF AF!Init

(* A batch starts, or is joined, when all of the last one has been served. *)
LEMMA BatchIsNext ==
  ASSUME AInv, FInv', (\E r \in Request : Collect(r)) \/ JoinBatch
  PROVE  AFStep
<1>1. ASSUME NEW r \in Request, Collect(r), ~IsFull(Append(read_write_buff, r))
      PROVE  AFStep
  <2>1. UNCHANGED <<rw_policy, kind, batch, io, file, length, reply>>
    BY <1>1 DEF Collect, flvars
  <2> QED
    BY <2>1, AFSame
<1>2. ASSUME \A t \in Thread : io[t] = "finished",
             \/ io' = [t \in Thread |-> "start"]
             \/ io' = io,
             file' = file, reply' = [t \in Thread |-> NoReply]
      PROVE  AFStep
  <2>1. Unserved = {} /\ Halfway = {}
    BY <1>2 DEF Unserved, Halfway
  <2>2. Unserved' \in {Thread, {}} /\ Halfway' = {}
    BY <1>2 DEF Unserved, Halfway
  <2>3. FileToBe' = FileToBe
    BY <1>2, <2>1, <2>2 DEF FileToBe
  <2>4. \A t \in Thread : io'[t] # "measured"
    BY <1>2
  <2>5. ReplyToBe' = [t \in Thread |-> NoReply]
    BY <1>2, <2>4 DEF ReplyToBe
  <2>6. Protected' \in BOOLEAN
    BY DEF Protected, Locks
  <2>7. batch' \in [Thread -> Request \cup {NoRequest}]
    BY DEF FInv, TInv, FBTypeOK
  <2>8. AF!NextBatch
    BY <2>1, <2>2, <2>3, <2>5, <2>6, <2>7 DEF AF!NextBatch
  <2> QED
    BY <2>8 DEF AFStep, AF!Next
<1>3. ASSUME NEW r \in Request, Collect(r), IsFull(Append(read_write_buff, r))
      PROVE  AFStep
  <2>1. /\ phase = "collecting" /\ io' = [t \in Thread |-> "start"]
        /\ file' = file /\ reply' = reply
    BY <1>3 DEF Collect
  <2>2. \A t \in Thread : io[t] = "finished" /\ reply[t] = NoReply
    BY <2>1 DEF AInv, Settled
  <2>3. reply' = [t \in Thread |-> NoReply]
    BY <2>1, <2>2 DEF AInv, FInv, TInv, FBTypeOK
  <2> QED
    BY <1>2, <2>1, <2>2, <2>3
<1>4. CASE JoinBatch
  <2>1. /\ \A t \in Thread : pc[t] = "done"
        /\ io' = io /\ file' = file /\ reply' = [t \in Thread |-> NoReply]
    BY <1>4 DEF JoinBatch, JoinAll
  <2>2. \A t \in Thread : io[t] = "finished"
    BY <2>1 DEF AInv, Settled
  <2> QED
    BY <1>2, <2>1, <2>2
<1> QED
  BY <1>1, <1>3, <1>4

(* What a step of one thread with the file leaves alone.                   *)
LEMMA UseIs ==
  ASSUME AInv, NEW t \in Thread, BatchStep(t), UsesFile(t)
  PROVE  /\ pc[t] = "inside" /\ phase = "joining"
         /\ UNCHANGED <<rw_policy, kind, batch>>
         /\ Protected' = Protected
         /\ \A u \in Thread : Truncates(u)' <=> Truncates(u)
         /\ Locks' <=> Locks
         /\ \A u \in Thread : u # t => io'[u] = io[u]
         /\ kind[t] = "reader" <=> batch[t].type = "READ_REQUEST"
         /\ kind[t] \in {"reader", "writer"}
         /\ io \in [Thread -> IOPlace] /\ reply \in [Thread -> {NoReply} \cup Sendable]
<1>1. /\ phase = "joining" /\ pc[t] = "inside"
      /\ UNCHANGED <<rw_policy, kind, batch>>
  BY InABatch DEF AInv, UsesFile, Unopened, Measure, Read, ReadFails, Open, Flush, Write,
                  InIO, MayUseFile, flvars
<1>2. io \in [Thread -> IOPlace] /\ reply \in [Thread -> {NoReply} \cup Sendable]
  BY DEF AInv, FInv, TInv, FBTypeOK
<1>3. \A u \in Thread : u # t => io'[u] = io[u]
  BY <1>2 DEF UsesFile, Unopened, Measure, Read, ReadFails, Open, Flush, Write,
              GoIO, iovars
<1>4. kind[t] = "reader" <=> batch[t].type = "READ_REQUEST"
  BY <1>1 DEF AInv, Settled, IsRead
<1>5. kind[t] \in {"reader", "writer"}
  BY DEF AInv, FInv, TInv, IInv, Shape, Kind
<1> QED
  BY <1>1, <1>2, <1>3, <1>4, <1>5 DEF Protected, Locks, Truncates

(* A file that cannot be opened.                                           *)
LEMMA UnopenedIs ==
  ASSUME AInv, NEW t \in Thread, BatchStep(t), Unopened(t)
  PROVE  AFStep
<1>1. UsesFile(t) /\ io[t] = "start" /\ io' = [io EXCEPT ![t] = "finished"]
  BY DEF UsesFile, Unopened, InIO, GoIO
<1>2. file' = file /\ length' = length
  BY DEF Unopened
<1>3. t \in Unserved /\ Unserved' = Unserved \ {t}
  BY <1>1, UseIs DEF Unserved
<1>4. Halfway' = Halfway
  BY <1>1, UseIs DEF Halfway
<1>5. FileToBe' = FileToBe
  BY <1>1, <1>2, <1>4, FileToBeSame, UseIs
<1>6. ReplyToBe' = IF batch[t].type = "READ_REQUEST"
                   THEN [ReplyToBe EXCEPT ![t] = Told(<<>>)] ELSE ReplyToBe
  <2>1. reply \in [Thread -> {NoReply} \cup Sendable]
    BY <1>1, UseIs
  <2>0. Told(<<>>) = <<>> /\ Answer(<<>>) = <<>>
    BY ToldNothing
  <2>2. /\ kind[t] = "reader" => reply' = [reply EXCEPT ![t] = <<>>]
        /\ kind[t] = "writer" => reply' = reply
    BY <2>0 DEF Unopened, InIO, Reply
  <2>3. \A u \in Thread : io'[u] = "measured" <=> io[u] = "measured"
    BY <1>1, UseIs
  <2> QED
    <3>1. CASE kind[t] = "reader"
      <4>1. \A u \in Thread : Told(Text(length[u]))' = Told(Text(length[u]))
        BY <1>2, FileToldSame
      <4>2. \A u \in Thread : ReplyToBe'[u] = IF u = t THEN <<>> ELSE ReplyToBe[u]
        BY <1>1, <2>1, <2>2, <2>3, <3>1, <4>1 DEF ReplyToBe
      <4> HIDE DEF ReplyToBe
      <4>3. ReplyToBe' = [ReplyToBe EXCEPT ![t] = <<>>]
        BY <4>2 DEF ReplyToBe
      <4> QED
        BY <1>1, <2>0, <3>1, <4>3, UseIs
    <3>2. CASE kind[t] = "writer"
      BY <1>1, <1>2, <2>2, <2>3, <3>2, RepliesSame, UseIs
    <3> QED
      BY <1>1, <3>1, <3>2, UseIs
<1>7. AF!ServeUnopened(t)
  BY <1>1, <1>3, <1>5, <1>6, UseIs DEF AF!ServeUnopened
<1> QED
  BY <1>7 DEF AFStep, AF!Next

(* A read is served when it measures the file.                             *)
LEMMA MeasureIs ==
  ASSUME AInv, NEW t \in Thread, BatchStep(t), Measure(t)
  PROVE  AFStep
<1>1. /\ UsesFile(t) /\ kind[t] = "reader" /\ io[t] = "start"
      /\ io' = [io EXCEPT ![t] = "measured"]
      /\ length' = [length EXCEPT ![t] = Len(file)]
      /\ file' = file /\ reply' = reply
  BY DEF UsesFile, Measure, InIO, GoIO
<1>2. t \in Unserved /\ Unserved' = Unserved \ {t}
  BY <1>1, UseIs DEF Unserved
<1>3. Halfway' = Halfway
  BY <1>1, UseIs DEF Halfway
<1>4. FileToBe' = FileToBe
  BY <1>1, <1>3, FileToBeSame, UseIs
<1>5. FileToBe = file
  <2>1. Locks => Halfway = {}
    BY <1>1, UseIs, NoReaderMeets DEF AInv, At
  <2> QED
    BY <2>1 DEF FileToBe
<1>6. Text(Len(file)) = file
  <2>1. file \in Seq(Byte) /\ Len(file) \in Nat
    BY LenProperties DEF AInv, FInv, TInv, FBTypeOK
  <2> QED
    BY <2>1, TextIs
<1>7. ReplyToBe' = [ReplyToBe EXCEPT ![t] = Told(file)]
  <2>1. length \in [Thread -> Nat] /\ reply \in [Thread -> {NoReply} \cup Sendable]
    BY DEF AInv, FInv, TInv, FBTypeOK
  <2>2. Told(Text(length[t]))' = Told(file)
    <3>1. Text(length[t])' = Text(Len(file))
      BY <1>1, <2>1 DEF Text
    <3> QED
      BY <1>6, <3>1 DEF Told, Answer, Fits, CString
  <2>3. \A u \in Thread : ReplyToBe'[u] = IF u = t THEN Told(file) ELSE ReplyToBe[u]
    <3>1. \A u \in Thread : u # t =>
            Told(Text(length[u]))' = Told(Text(length[u]))
      BY <1>1, <2>1, FileToldSame
    <3> QED
      BY <1>1, <2>1, <2>2, <3>1, UseIs DEF ReplyToBe
  <2> HIDE DEF ReplyToBe
  <2> QED
    BY <2>3 DEF ReplyToBe
<1>8. AF!Serve(t)
  BY <1>1, <1>2, <1>4, <1>5, <1>7, UseIs DEF AF!Serve
<1> QED
  BY <1>8 DEF AFStep, AF!Next

(* An unprotected batch is promised nothing.                               *)
LEMMA UnprotectedIs ==
  ASSUME AInv, NEW t \in Thread, BatchStep(t), UsesFile(t), ~Protected,
         io[t] # "start" \/ Open(t)
  PROVE  AFStep
<1>1. \/ io' = io
      \/ io[t] # "start" /\ io' = [io EXCEPT ![t] = "flushed"]
      \/ io[t] # "start" /\ io' = [io EXCEPT ![t] = "finished"]
      \/ io[t] = "start" /\ io' = [io EXCEPT ![t] = "opened"]
  BY DEF UsesFile, Unopened, Measure, Read, ReadFails, Open, Flush, Write, InIO, GoIO,
         iovars
<1>2. Unserved' \subseteq Unserved
  BY <1>1, UseIs DEF Unserved
<1>3. AF!Unprotected
  BY <1>2, UseIs DEF AF!Unprotected
<1> QED
  BY <1>3 DEF AFStep, AF!Next

(* What a read then sends was decided before.                              *)
LEMMA ReadIs ==
  ASSUME AInv, NEW t \in Thread, BatchStep(t), Read(t)
  PROVE  AFStep
<1>1. /\ UsesFile(t) /\ kind[t] = "reader" /\ io[t] = "measured"
      /\ io' = [io EXCEPT ![t] = "finished"]
      /\ file' = file /\ length' = length
  BY DEF UsesFile, Read, InIO, GoIO
<1>2. CASE ~Protected
  BY <1>1, <1>2, UnprotectedIs
<1>3. CASE Protected
  <2>1. Unserved' = Unserved /\ Halfway' = Halfway
    BY <1>1, UseIs DEF Unserved, Halfway
  <2>2. FileToBe' = FileToBe
    BY <1>1, <2>1, FileToBeSame, UseIs
  <2>3. /\ file \in Seq(Byte) /\ length[t] \in Nat /\ Len(file) \in Nat
        /\ reply \in [Thread -> {NoReply} \cup Sendable]
    BY LenProperties DEF AInv, FInv, TInv, FBTypeOK
  <2>4. length[t] <= Len(file)
    BY <1>1, <1>3, <2>3 DEF AInv, FInv, ReadsAreWhole, OnlyGrows, Protected
  <2>5. Text(length[t]) \in Seq(Byte)
    BY <2>3, <2>4, TextIs
  <2>6. reply' = [reply EXCEPT ![t] = Told(Text(length[t]))]
    <3>1. /\ Strings(Text(length[t])) = {CString(Text(length[t]))}
          /\ ~Torn(CString(Text(length[t])))
      BY <2>5, StringsIs
    <3> QED
      BY <3>1 DEF Read, Reply, Told
  <2>7. ReplyToBe' = ReplyToBe
    <3>1. \A u \in Thread : Told(Text(length[u]))' = Told(Text(length[u]))
      BY <1>1, FileToldSame
    <3> QED
      BY <1>1, <2>3, <2>6, <3>1, UseIs DEF ReplyToBe
  <2> QED
    BY <1>1, <2>1, <2>2, <2>7, UseIs DEF AFStep
<1> QED
  BY <1>2, <1>3

(* A writer that truncates the file is served when it does, ...            *)
LEMMA OpenIs ==
  ASSUME AInv, NEW t \in Thread, BatchStep(t), Open(t)
  PROVE  AFStep
<1>1. /\ UsesFile(t) /\ kind[t] = "writer" /\ io[t] = "start"
      /\ io' = [io EXCEPT ![t] = "opened"]
      /\ file' = IF batch[t].mode = "w" THEN <<>> ELSE file
      /\ UNCHANGED <<length, reply>> /\ At(t, "writer", "inside")
  BY DEF UsesFile, Open, InIO, GoIO, MayUseFile, At
<1>2. CASE batch[t].mode # "w"
  <2>1. Unserved' = Unserved /\ Halfway' = Halfway /\ file' = file
    BY <1>1, <1>2, UseIs DEF Unserved, Halfway, Truncates
  <2>2. FileToBe' = FileToBe
    BY <2>1, FileToBeSame, <1>1, UseIs
  <2>3. ReplyToBe' = ReplyToBe
    BY <1>1, <2>1, RepliesSame, UseIs
  <2> QED
    BY <1>1, <2>1, <2>2, <2>3, UseIs DEF AFStep
<1>3. CASE batch[t].mode = "w" /\ Locks
  <2>1. Truncates(t)
    BY <1>1, <1>3 DEF Truncates
  <2>2. /\ Halfway = {} /\ \A u \in Thread : io[u] # "measured"
        /\ \A u \in Thread : u # t => io[u] \notin {"opened", "flushed"}
    BY <1>1, <1>3, HalfwayIsAlone, WriterHasTheFile DEF AInv
  <2>3. Halfway' = {t}
    BY <1>1, <2>1, <2>2, UseIs DEF Halfway
  <2>4. FileToBe' = batch[t].content
    BY <1>1, <1>3, <2>1, <2>3, UseIs DEF FileToBe, Finished
  <2>5. ReplyToBe' = ReplyToBe
    BY <1>1, <2>2, UseIs DEF ReplyToBe
  <2>6. t \in Unserved /\ Unserved' = Unserved \ {t}
    BY <1>1, <2>1, UseIs DEF Unserved
  <2>7. AF!Serve(t)
    BY <1>1, <1>3, <2>4, <2>5, <2>6, UseIs DEF AF!Serve, AF!Written
  <2> QED
    BY <2>7 DEF AFStep, AF!Next
<1>4. CASE batch[t].mode = "w" /\ ~Locks
  <2>1. ~Protected
    BY <1>4 DEF Protected
  <2> QED
    BY <1>1, <2>1, UnprotectedIs
<1> QED
  BY <1>2, <1>3, <1>4

(* What a write with the file leaves alone while it has the file to itself.*)
LEMMA WriteIsAlone ==
  ASSUME AInv, NEW t \in Thread, BatchStep(t), Flush(t) \/ Write(t), Locks
  PROVE  /\ Halfway = IF io[t] = "flushed" \/ Truncates(t) THEN {t} ELSE {}
         /\ Halfway' = IF Flush(t) THEN {t} ELSE {}
         /\ \A u \in Thread : u # t => io[u] \notin {"opened", "flushed"}
         /\ ReplyToBe' = ReplyToBe
<1>1. /\ UsesFile(t) /\ At(t, "writer", "inside") /\ io[t] \in {"opened", "flushed"}
      /\ io' = [io EXCEPT ![t] = IF Flush(t) THEN "flushed" ELSE "finished"]
      /\ UNCHANGED <<length, reply>>
  BY DEF UsesFile, Flush, Write, InIO, GoIO, MayUseFile, At
<1>2. /\ Halfway = IF io[t] = "flushed" \/ (io[t] = "opened" /\ Truncates(t))
                   THEN {t} ELSE {}
      /\ \A u \in Thread : io[u] # "measured"
      /\ \A u \in Thread : u # t => io[u] \notin {"opened", "flushed"}
  BY <1>1, HalfwayIsAlone, WriterHasTheFile DEF AInv
<1>3. Halfway' = IF Flush(t) THEN {t} ELSE {}
  BY <1>1, <1>2, UseIs DEF Halfway
<1>4. ReplyToBe' = ReplyToBe
  BY <1>1, <1>2, UseIs DEF ReplyToBe
<1> QED
  BY <1>1, <1>2, <1>3, <1>4

(* ... which then only makes the file what it was served as.               *)
LEMMA WriteTruncatedIs ==
  ASSUME AInv, NEW t \in Thread, BatchStep(t), Flush(t) \/ Write(t), Locks,
         batch[t].mode = "w"
  PROVE  AFStep
<1>1. /\ UsesFile(t) /\ kind[t] = "writer" /\ io[t] \in {"opened", "flushed"}
      /\ io' = [io EXCEPT ![t] = IF Flush(t) THEN "flushed" ELSE "finished"]
      /\ Truncates(t)
  BY DEF UsesFile, Flush, Write, InIO, GoIO, Truncates
<1>2. /\ Halfway = {t} /\ Halfway' = IF Flush(t) THEN {t} ELSE {}
      /\ ReplyToBe' = ReplyToBe
  BY <1>1, WriteIsAlone
<1>3. FileToBe = batch[t].content
  BY <1>1, <1>2 DEF FileToBe, Finished
<1>4. Unserved' = Unserved
  BY <1>1, UseIs DEF Unserved
<1>5. CASE Flush(t)
  <2>1. FileToBe' = batch[t].content
    BY <1>1, <1>2, <1>5, UseIs DEF FileToBe, Finished
  <2> QED
    BY <1>1, <1>2, <1>3, <1>4, <2>1, UseIs DEF AFStep
<1>6. CASE ~Flush(t)
  <2> DEFINE c == batch[t].content
  <2>1. c \in Seq(Byte) /\ <<>> \in Seq(Byte) /\ Len(<<>>) = 0
    BY RequestIs, EmptySeq DEF AInv, FInv, TInv, FBTypeOK
  <2>2. /\ Blocks(c) \in Seq(Byte) /\ Rest(c) \in Seq(Byte)
        /\ Whole(c) \in Nat /\ Len(Blocks(c)) = Whole(c)
        /\ Blocks(c) \o Rest(c) = c
        /\ Len(c) < BlockSize => Whole(c) = 0 /\ Rest(c) = c
    BY <2>1, PartsAre
  <2>3. file' = Put(file, Whole(c), Rest(c))
    BY <1>6 DEF Write, PutFile
  <2>4. ASSUME io[t] = "opened" PROVE file' = c
    <3>1. Len(c) < BlockSize /\ file = <<>>
      BY <1>1, <1>6, <2>4 DEF Write, InIO, AInv, OnlyWritten
    <3>2. file' = Put(<<>>, 0, c)
      BY <2>2, <2>3, <3>1
    <3>3. file' = <<>> \o c
      BY <2>1, <3>2, PutIs
    <3>4. file' = c
      BY <2>1, <3>3, ConcatEmptySeq
    <3> QED
      BY <3>4
  <2>5. ASSUME io[t] = "flushed" PROVE file' = c
    <3>1. file = Blocks(c)
      BY <1>1, <2>5 DEF AInv, OnlyWritten
    <3>2. file' = Blocks(c) \o Rest(c)
      BY <2>2, <2>3, <3>1, PutIs
    <3> QED
      BY <2>2, <3>2
  <2> HIDE DEF c
  <2>6. file' = c
    BY <1>1, <2>4, <2>5
  <2>7. FileToBe' = FileToBe
    BY <1>2, <1>3, <1>6, <2>6 DEF FileToBe, c
  <2> QED
    BY <1>1, <1>2, <1>4, <2>7, UseIs DEF AFStep
<1> QED
  BY <1>5, <1>6

(* The answer to a read that has measured the file does not change when the*)
(* file grows.                                                             *)
LEMMA AppendTellsTheSame ==
  ASSUME AInv, NEW t \in Thread, BatchStep(t), UsesFile(t), OnlyGrows, ~Locks,
         \A u \in Thread : batch[u].mode # "w",
         NEW new \in Seq(Byte), file' = file \o new, UNCHANGED <<length, reply>>,
         io[t] # "measured", io'[t] # "measured"
  PROVE  ReplyToBe' = ReplyToBe
<1>1. file \in Seq(Byte) /\ length \in [Thread -> Nat] /\ Len(file) \in Nat
  BY LenProperties DEF AInv, FInv, TInv, FBTypeOK
<1>2. ASSUME NEW u \in Thread, io[u] = "measured"
      PROVE  Text(length[u])' = Text(length[u])
  <2>1. length[u] <= Len(file) /\ length[u] \in Nat
    BY <1>1, <1>2 DEF OnlyGrows
  <2>2. /\ Len(file') = Len(file) + Len(new) /\ Len(new) \in Nat
        /\ \A i \in 1 .. Len(file) : file'[i] = file[i]
    BY <1>1, LenProperties, ConcatProperties
  <2>3. \A i \in 1 .. length[u] :
          i <= Len(file) /\ i <= Len(file') /\ file'[i] = file[i]
    BY <1>1, <2>1, <2>2
  <2> QED
    BY <2>3 DEF Text
<1>3. \A u \in Thread : io'[u] = "measured" <=> io[u] = "measured"
  BY UseIs
<1>4. \A u \in Thread : io[u] = "measured" =>
        Told(Text(length[u]))' = Told(Text(length[u]))
  BY <1>2, ToldSame
<1> QED
  BY <1>3, <1>4 DEF ReplyToBe

(* An append is served when it is first written, ...                       *)
LEMMA AppendIs ==
  ASSUME AInv, NEW t \in Thread, BatchStep(t), Flush(t) \/ Write(t), Protected,
         batch[t].mode # "w"
  PROVE  AFStep
<1> DEFINE c == batch[t].content
<1>1. /\ UsesFile(t) /\ kind[t] = "writer" /\ io[t] \in {"opened", "flushed"}
      /\ io' = [io EXCEPT ![t] = IF Flush(t) THEN "flushed" ELSE "finished"]
      /\ UNCHANGED <<length, reply>> /\ ~Truncates(t)
  BY DEF UsesFile, Flush, Write, InIO, GoIO, Truncates
<1>2. c \in Seq(Byte) /\ file \in Seq(Byte)
  BY RequestIs DEF AInv, FInv, TInv, FBTypeOK
<1>3. /\ Blocks(c) \in Seq(Byte) /\ Rest(c) \in Seq(Byte) /\ Blocks(c) \o Rest(c) = c
      /\ Len(c) < BlockSize => Rest(c) = c
  BY <1>2, PartsAre
<1>4. /\ Flush(t) => file' = file \o Blocks(c)
      /\ ~Flush(t) => file' = file \o Rest(c)
      /\ \E new \in Seq(Byte) : file' = file \o new
  BY <1>2, WriterAppends
<1>5. batch[t].type # "READ_REQUEST"
  BY <1>1, UseIs
<1>6. CASE io[t] = "opened"
  <2>1. t \in Unserved /\ Unserved' = Unserved \ {t}
    BY <1>1, <1>6, UseIs DEF Unserved
  <2>2. FileToBe = file
    BY <1>1, <1>6, WriteIsAlone DEF FileToBe
  <2>3. FileToBe' = file \o c
    <3>1. CASE Flush(t) /\ Locks
      <4>1. Halfway' = {t}
        BY <3>1, WriteIsAlone
      <4>2. FileToBe' = file' \o Rest(c)
        BY <1>1, <3>1, <4>1, UseIs DEF FileToBe, Finished
      <4>3. file' = file \o Blocks(c)
        BY <1>4, <3>1
      <4>4. (file \o Blocks(c)) \o Rest(c) = file \o (Blocks(c) \o Rest(c))
        BY <1>2, <1>3, ThreeParts
      <4> QED
        BY <1>3, <4>2, <4>3, <4>4
    <3>2. CASE ~Flush(t)
      <4>1. Rest(c) = c
        BY <1>3, <1>6, <3>2 DEF Write, InIO
      <4>2. FileToBe' = file'
        BY <1>1, <3>2, WriteIsAlone, UseIs DEF FileToBe
      <4> QED
        BY <1>4, <3>2, <4>1, <4>2
    <3>3. CASE Flush(t) /\ ~Locks
      BY <1>2, <3>3, LenProperties, BatchAssumption DEF Flush, Protected
    <3> QED
      BY <3>1, <3>2, <3>3
  <2>4. ReplyToBe' = ReplyToBe
    <3>1. CASE Locks
      BY <3>1, WriteIsAlone
    <3>2. CASE ~Locks
      BY <1>1, <1>4, <3>2, UseIs, AppendTellsTheSame DEF AInv, Protected
    <3> QED
      BY <3>1, <3>2
  <2>5. AF!Serve(t)
    BY <1>1, <1>5, <2>1, <2>2, <2>3, <2>4, UseIs DEF AF!Serve, AF!Written
  <2> QED
    BY <2>5 DEF AFStep, AF!Next
<1>7. CASE io[t] = "flushed"
  <2>1. ~Flush(t) /\ Len(c) >= BlockSize
    BY <1>7 DEF Flush, InIO, AInv, Settled
  <2>2. Locks
    BY <1>2, <2>1, LenProperties, BatchAssumption DEF Protected
  <2>3. /\ Halfway = {t} /\ Halfway' = {} /\ ReplyToBe' = ReplyToBe
    BY <1>7, <2>1, <2>2, WriteIsAlone
  <2>4. FileToBe = file \o Rest(c)
    BY <1>1, <2>2, <2>3 DEF FileToBe, Finished
  <2>5. FileToBe' = FileToBe
    BY <1>4, <2>1, <2>3, <2>4 DEF FileToBe
  <2>6. Unserved' = Unserved
    BY <1>1, <1>7, <2>1, UseIs DEF Unserved
  <2> QED
    BY <1>1, <2>3, <2>5, <2>6, UseIs DEF AFStep
<1> QED
  BY <1>1, <1>6, <1>7

(* ... one that truncates the file when it does that.                      *)
LEMMA WriteIs ==
  ASSUME AInv, NEW t \in Thread, BatchStep(t), Flush(t) \/ Write(t)
  PROVE  AFStep
<1>1. UsesFile(t) /\ io[t] # "start"
  BY DEF UsesFile, Flush, Write, InIO
<1>2. CASE ~Protected
  BY <1>1, <1>2, UnprotectedIs
<1>3. CASE Protected /\ batch[t].mode = "w"
  BY <1>3, WriteTruncatedIs DEF Protected
<1>4. CASE Protected /\ batch[t].mode # "w"
  BY <1>4, AppendIs
<1> QED
  BY <1>2, <1>3, <1>4

LEMMA StepIsAtomic == AInv /\ [FBNext]_fbvars => AFStep
<1> SUFFICES ASSUME AInv, [FBNext]_fbvars PROVE AFStep
  OBVIOUS
<1>1. CASE (\E r \in Request : Collect(r)) \/ JoinBatch
  <2>1. FInv'
    BY FInvNext DEF AInv
  <2> QED
    BY <1>1, <2>1, BatchIsNext
<1>2. ASSUME NEW t \in Thread, Lock(t) \/ Wake(t), BatchStep(t) \/ Wake(t)
      PROVE  AFStep
  <2>1. UNCHANGED <<rw_policy, kind, batch, io, file, length, reply>>
    BY <1>2, InABatch DEF AInv, Lock, Wake, iovars
  <2> QED
    BY <2>1, AFSame
<1>3. ASSUME NEW t \in Thread, BatchStep(t), ReadFails(t) PROVE AFStep
  <2>1. UNCHANGED <<rw_policy, kind, batch, io, file, length, reply>>
    BY <1>3 DEF ReadFails, flvars, iovars
  <2> QED
    BY <2>1, AFSame
<1>4. ASSUME NEW t \in Thread, BatchStep(t) PROVE AFStep
  BY <1>2, <1>3, <1>4, UnopenedIs, MeasureIs, ReadIs, OpenIs, WriteIs DEF BatchStep
<1>5. CASE UNCHANGED fbvars
  BY <1>5, AFSame DEF fbvars, flvars, iovars
<1> QED
  BY <1>1, <1>2, <1>4, <1>5 DEF FBNext

(* The batches implement the atomic file, whatever their size, requests,   *)
(* policies and interleaving: under a lock, or if no request truncates the *)
(* file or writes a block of stdio's, each request is served at one moment,*)
(* no write is lost to another and each read sees the file whole, or is    *)
(* told that it does not open.                                             *)
THEOREM BatchImplementation == FBSpec => ImplementsAtomicFile
<1>1. AInv /\ [FBNext]_fbvars =>
        [AF!Next]_<<Protected, batch, Unserved, FileToBe, ReplyToBe>>
  BY StepIsAtomic DEF AFStep
<1> QED
  BY <1>1, AInvInit, AInvNext, InitIsAtomic, PTL
     DEF FBSpec, ImplementsAtomicFile, AF!Spec
=============================================================================
