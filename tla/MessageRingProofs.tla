------------------------- MODULE MessageRingProofs --------------------------
(***************************************************************************)
(* The ring of server/main.c for any number of entries and messages: its   *)
(* types, that no thread sleeps on a condition that holds, and that it      *)
(* implements the message queue.                                           *)
(***************************************************************************)
EXTENDS MessageRing, SequenceTheorems, TLAPS

(* The entries from read_head up to write_head, around the end of the      *)
(* array, are the occupied ones; if the heads meet it is all or none.  Once*)
(* the server quits, func_send moves read_head over empty entries, too.    *)
Occupied(i) == share_buff[i] # NULL

Between(i) ==
  \/ read_head <= i /\ i < write_head
  \/ write_head < read_head /\ (read_head <= i \/ i < write_head)

RingInOrder ==
  IF read_head = write_head
  THEN (\A i \in Index : Occupied(i)) \/ (\A i \in Index : ~Occupied(i))
  ELSE \A i \in Index : Occupied(i) <=> Between(i)

(* What a thread has in its hands, where it is.                            *)
Hands ==
  /\ hand \in Msg <=> recv \in {"locking", "asleep"}
  /\ send = "handling" => message \in Msg
  /\ mutex = "send" <=> send \in {"testing", "dozing"}

Running ==
  ~shouldQuit => /\ RingInOrder
                 /\ idle_seconds < IdleLimit
                 /\ send = "taken" => message \in Msg

IInv == TypeOK /\ Hands /\ Running /\ NoMissedWakeup

-----------------------------------------------------------------------------
LEMMA SuccIs ==
  ASSUME NEW i \in Index
  PROVE  Succ(i) = IF i = BUFF_SIZE - 1 THEN 0 ELSE i + 1
<1>1. BUFF_SIZE \in Nat \ {0} /\ i \in 0 .. BUFF_SIZE - 1
  BY SizeAssumption DEF Index
<1>2. CASE i = BUFF_SIZE - 1
  BY <1>1, <1>2 DEF Succ
<1>3. CASE i # BUFF_SIZE - 1
  BY <1>1, <1>3 DEF Succ
<1> QED
  BY <1>2, <1>3

LEMMA SuccInIndex == \A i \in Index : Succ(i) \in Index
BY SuccIs, SizeAssumption DEF Index

LEMMA InvInit == Init => IInv
<1> SUFFICES ASSUME Init PROVE IInv
  OBVIOUS
<1>1. TypeOK
  <2>1. 0 \in Index /\ 0 \in 0 .. IdleLimit
    BY SizeAssumption DEF Index
  <2>2. mq \in Seq(Msg)
    BY DEF Init
  <2>3. share_buff \in [Index -> Msg \cup {NULL}]
    BY Zenon DEF Init
  <2>4. recv \in RecvPlace /\ send \in SendPlace /\ main \in MainPlace
    BY DEF Init, RecvPlace, SendPlace, MainPlace
  <2> QED
    BY <2>1, <2>2, <2>3, <2>4 DEF Init, TypeOK
<1>2. Hands /\ Running /\ NoMissedWakeup
  BY SizeAssumption, MsgAssumption
     DEF Init, Hands, Running, RingInOrder, Occupied, NoMissedWakeup
<1> QED
  BY <1>1, <1>2 DEF IInv

(* Where the heads meet, one entry speaks for all.                         *)
LEMMA HeadsTell ==
  ASSUME TypeOK, RingInOrder
  PROVE  /\ share_buff[write_head] # NULL => \A i \in Index : share_buff[i] # NULL
         /\ share_buff[read_head] = NULL => \A i \in Index : share_buff[i] = NULL
<1>1. read_head \in Int /\ write_head \in Int
  BY SizeAssumption DEF TypeOK, Index
<1> QED
  BY <1>1 DEF TypeOK, RingInOrder, Occupied, Between

(* A step that leaves the ring alone.                                      *)
LEMMA InvStill ==
  ASSUME IInv, UNCHANGED ringvars, TypeOK', Hands',
         shouldQuit => shouldQuit',
         ~shouldQuit' => /\ idle_seconds' < IdleLimit
                         /\ send' = "taken" => send = "taken" /\ message' = message
                         /\ recv' = "asleep" => recv = "asleep" \/ RingFull
                         /\ send' \in {"dozing", "asleep"} =>
                              \/ send \in {"dozing", "asleep"}
                              \/ share_buff[read_head] = NULL
  PROVE  IInv'
<1>1. CASE shouldQuit'
  BY <1>1 DEF IInv, Running, NoMissedWakeup
<1>2. CASE ~shouldQuit'
  <2>1. ~shouldQuit /\ RingInOrder /\ TypeOK
    BY <1>2 DEF IInv, Running
  <2>2. RingInOrder'
    BY <2>1 DEF ringvars, RingInOrder, Occupied, Between
  <2>3. Running'
    BY <1>2, <2>1, <2>2 DEF IInv, Running
  <2>4. NoMissedWakeup'
    BY <1>2, <2>1, HeadsTell DEF IInv, NoMissedWakeup, RingFull, ringvars
  <2> QED
    BY <2>3, <2>4 DEF IInv
<1> QED
  BY <1>1, <1>2

LEMMA InvOthers ==
  ASSUME IInv,
         (\E m \in Msg : ClientSend(m)) \/ TerminateHandler \/ MainStep
  PROVE  IInv'
<1>1. ASSUME NEW m \in Msg, ClientSend(m) PROVE IInv'
  <2>1. mq \in Seq(Msg) /\ mq' = Append(mq, m) /\ unsent' \subseteq Msg
    BY <1>1 DEF ClientSend, IInv, TypeOK
  <2>2. mq' \in Seq(Msg)
    BY <2>1
  <2>3. /\ UNCHANGED <<share_buff, read_head, write_head, mutex, shouldQuit>>
        /\ UNCHANGED <<active_count, recv, hand, idle_seconds>>
        /\ UNCHANGED <<send, message, handled, main>>
    BY <1>1 DEF ClientSend, ringvars, recvvars, sendvars
  <2>4. TypeOK'
    BY <2>1, <2>2, <2>3 DEF IInv, TypeOK
  <2>5. Hands'
    BY <2>3 DEF IInv, Hands
  <2> QED
    BY <1>1, <2>4, <2>5, InvStill
       DEF ClientSend, IInv, Running, recvvars, sendvars
<1>2. CASE TerminateHandler
  <2>1. TypeOK' /\ Hands'
    BY <1>2 DEF TerminateHandler, IInv, TypeOK, Hands, ringvars, recvvars,
                sendvars
  <2> QED
    BY <1>2, <2>1, InvStill DEF TerminateHandler
<1>3. CASE JoinReceive \/ JoinSend
  <2>1. /\ mq' \in {mq, <<>>} /\ main' \in MainPlace
        /\ UNCHANGED <<unsent, share_buff, read_head, write_head, mutex>>
        /\ UNCHANGED <<shouldQuit, active_count, recv, hand, idle_seconds>>
        /\ UNCHANGED <<send, message, handled>>
    BY <1>3 DEF JoinReceive, JoinSend, MainPlace, ringvars, recvvars, sendvars
  <2>2. mq' \in Seq(Msg)
    <3>1. mq \in Seq(Msg)
      BY DEF IInv, TypeOK
    <3>2. <<>> \in Seq(Msg)
      OBVIOUS
    <3> QED
      BY <2>1, <3>1, <3>2, Zenon
  <2>3. TypeOK' /\ Hands'
    BY <2>1, <2>2 DEF IInv, TypeOK, Hands
  <2> QED
    BY <1>3, <2>1, <2>3, InvStill
       DEF JoinReceive, JoinSend, IInv, Running, recvvars, sendvars
<1>4. CASE BroadcastHasItems
  <2>1. /\ UNCHANGED <<mq, unsent, ringvars, mutex, shouldQuit, active_count,
                       recvvars, message, handled>>
        /\ send' = IF send = "asleep" THEN "locking" ELSE send
        /\ main' = "joining_send"
    BY <1>4 DEF BroadcastHasItems, WakeToQuit, WakeSender
  <2>2. TypeOK' /\ Hands'
    BY <2>1 DEF IInv, TypeOK, Hands, MainPlace, SendPlace, ringvars, recvvars
  <2> QED
    BY <2>1, <2>2, InvStill DEF IInv, Running, recvvars
<1> QED
  BY <1>1, <1>2, <1>3, <1>4 DEF MainStep

-----------------------------------------------------------------------------
LEMMA InvRecvStill ==
  ASSUME IInv,
         RecvTop \/ Receive \/ Timeout \/ Interrupted \/ RecvWait \/ RecvQuit
         \/ RecvSpurious
  PROVE  IInv'
<1>1. UNCHANGED <<unsent, ringvars, mutex, active_count, sendvars, main>>
  BY DEF RecvTop, Receive, Timeout, Interrupted, RecvWait, RecvQuit, RecvSpurious
<1>2. CASE Receive
  <2>1. /\ mq \in Seq(Msg) /\ mq # <<>> /\ mq' = Tail(mq) /\ idle_seconds' = 0
        /\ recv = "receiving" /\ shouldQuit' = shouldQuit
        /\ \/ recv' = "top" /\ hand' = hand
           \/ recv' = "locking" /\ hand' = Head(mq)
    BY <1>2 DEF Receive, IInv, TypeOK
  <2>2. mq' \in Seq(Msg) /\ Head(mq) \in Msg
    BY <2>1
  <2>3. TypeOK' /\ Hands'
    BY <1>1, <2>1, <2>2, SizeAssumption
       DEF IInv, TypeOK, Hands, RecvPlace, ringvars, sendvars
  <2>4. idle_seconds' < IdleLimit
    BY <2>1, SizeAssumption
  <2> QED
    BY <1>1, <2>1, <2>3, <2>4, InvStill DEF sendvars
<1>3. CASE Timeout
  <2>1. /\ recv = "receiving" /\ UNCHANGED <<mq, hand>>
        /\ recv' \in {"top", "exited"}
    BY <1>3 DEF Timeout
  <2>2. CASE shouldQuit
    <3>1. UNCHANGED <<idle_seconds, shouldQuit>>
      BY <1>3, <2>2 DEF Timeout
    <3>2. TypeOK' /\ Hands'
      BY <1>1, <2>1, <3>1 DEF IInv, TypeOK, Hands, RecvPlace, ringvars, sendvars
    <3> QED
      BY <1>1, <2>1, <2>2, <3>1, <3>2, InvStill
  <2>3. CASE ~shouldQuit
    <3>1. /\ idle_seconds' = IF active_count = 0 THEN idle_seconds + 1 ELSE 0
          /\ shouldQuit' = (idle_seconds' >= IdleLimit)
      BY <1>3, <2>3, Zenon DEF Timeout
    <3>2. shouldQuit' \in BOOLEAN /\ (shouldQuit' <=> idle_seconds' >= IdleLimit)
      <4>1. shouldQuit' = (idle_seconds' >= IdleLimit)
        BY <3>1, Zenon
      <4>2. (idle_seconds' >= IdleLimit) \in BOOLEAN
        BY SMT
      <4>3. shouldQuit' \in BOOLEAN
        BY <4>1, <4>2, Zenon
      <4>4. shouldQuit' <=> idle_seconds' >= IdleLimit
        BY <4>1, Zenon
      <4> QED
        BY <4>3, <4>4, Zenon
    <3>3. /\ idle_seconds \in 0 .. IdleLimit /\ idle_seconds < IdleLimit
          /\ IdleLimit \in Nat \ {0}
      BY <2>3, SizeAssumption DEF IInv, TypeOK, Running
    <3>4. idle_seconds' \in {idle_seconds + 1, 0}
      BY <3>1, Zenon
    <3>5. /\ idle_seconds' \in 0 .. IdleLimit
          /\ ~(idle_seconds' >= IdleLimit) => idle_seconds' < IdleLimit
      BY <3>3, <3>4
    <3>6. TypeOK' /\ Hands'
      BY <1>1, <2>1, <3>2, <3>5
         DEF IInv, TypeOK, Hands, RecvPlace, ringvars, sendvars
    <3> QED
      BY <1>1, <2>1, <2>3, <3>2, <3>5, <3>6, InvStill DEF sendvars
  <2> QED
    BY <2>2, <2>3
<1>4. CASE RecvTop \/ Interrupted \/ RecvWait \/ RecvSpurious
  <2>1. /\ UNCHANGED <<mq, hand, idle_seconds, shouldQuit>>
        /\ \/ recv \in {"top", "receiving"} /\ recv' \in {"receiving", "exited"}
           \/ recv = "locking" /\ recv' = "asleep" /\ RingFull
           \/ recv = "asleep" /\ recv' = "locking"
    BY <1>4 DEF RecvTop, Interrupted, RecvWait, RecvSpurious
  <2>2. TypeOK' /\ Hands'
    BY <1>1, <2>1 DEF IInv, TypeOK, Hands, RecvPlace, ringvars, sendvars
  <2> QED
    BY <1>1, <2>1, <2>2, InvStill DEF IInv, Running, sendvars
<1>5. CASE RecvQuit
  <2>1. /\ UNCHANGED <<mq, idle_seconds, shouldQuit>> /\ shouldQuit
        /\ hand' = NULL /\ recv' = "exited"
    BY <1>5 DEF RecvQuit
  <2>2. TypeOK' /\ Hands'
    BY <1>1, <2>1, MsgAssumption
       DEF IInv, TypeOK, Hands, RecvPlace, ringvars, sendvars
  <2> QED
    BY <1>1, <2>1, <2>2, InvStill
<1> QED
  BY <1>2, <1>3, <1>4, <1>5

(* A message goes into the entry at write_head, which was free; func_send  *)
(* is woken.                                                               *)
LEMMA InvRecvPut == IInv /\ RecvPut => IInv'
<1> SUFFICES ASSUME IInv, RecvPut PROVE IInv'
  OBVIOUS
<1>1. /\ recv = "locking" /\ mutex = "none" /\ ~shouldQuit
      /\ share_buff[write_head] = NULL
      /\ share_buff' = [share_buff EXCEPT ![write_head] = hand]
      /\ write_head' = Succ(write_head)
      /\ send' = IF send = "asleep" THEN "locking" ELSE send
      /\ hand' = NULL /\ recv' = "top"
      /\ UNCHANGED <<unsent, mq, read_head, mutex, shouldQuit, active_count,
                     idle_seconds, message, handled, main>>
  BY DEF RecvPut, RingFull, WakeSender
<1>2. /\ TypeOK /\ hand \in Msg /\ hand # NULL /\ RingInOrder
      /\ write_head \in Index /\ read_head \in Index
  BY <1>1, MsgAssumption DEF IInv, TypeOK, Hands, Running
<1>3. TypeOK'
  BY <1>1, <1>2, SuccInIndex DEF TypeOK, RecvPlace, SendPlace
<1>4. Hands'
  BY <1>1, <1>2, MsgAssumption DEF IInv, Hands
<1>5. RingInOrder'
  <2>1. /\ BUFF_SIZE \in Nat /\ Index = 0 .. BUFF_SIZE - 1
        /\ write_head' = IF write_head = BUFF_SIZE - 1 THEN 0 ELSE write_head + 1
    BY <1>1, <1>2, SuccIs, SizeAssumption DEF Index
  <2>2. \A i \in Index : Occupied(i)' <=> i = write_head \/ Occupied(i)
    BY <1>1, <1>2 DEF Occupied, TypeOK
  <2>3. ~Occupied(write_head)
    BY <1>1 DEF Occupied
  <2>4. CASE read_head = write_head
    <3>1. \A i \in Index : ~Occupied(i)
      BY <1>2, <2>3, <2>4 DEF RingInOrder
    <3> QED
      BY <1>1, <1>2, <2>1, <2>2, <2>4, <3>1 DEF RingInOrder, Between
  <2>5. CASE read_head # write_head
    <3>1. \A i \in Index : Occupied(i) <=> Between(i)
      BY <1>2, <2>5 DEF RingInOrder
    <3> QED
      BY <1>1, <1>2, <2>1, <2>2, <2>5, <3>1 DEF RingInOrder, Between
  <2> QED
    BY <2>4, <2>5
<1>6. Running'
  BY <1>1, <1>5 DEF IInv, Running
<1>7. NoMissedWakeup'
  BY <1>1 DEF IInv, Hands, NoMissedWakeup
<1> QED
  BY <1>3, <1>4, <1>6, <1>7 DEF IInv

-----------------------------------------------------------------------------
LEMMA InvSendStill ==
  ASSUME IInv,
         SendTop \/ SendLock \/ SendDoze \/ SendSleep \/ SendSpurious
         \/ SendCheck \/ Handle
  PROVE  IInv'
<1>1. UNCHANGED <<unsent, mq, ringvars, shouldQuit, recvvars, main>>
  BY DEF SendTop, SendLock, SendDoze, SendSleep, SendSpurious, SendCheck, Handle
<1>2. CASE SendTop \/ SendLock \/ SendDoze \/ SendSleep \/ SendSpurious
  <2>1. /\ UNCHANGED <<active_count, message, handled>>
        /\ \/ send \in {"top", "asleep"} /\ send' \in {"locking", "exited"}
              /\ mutex' = mutex
           \/ send = "locking" /\ send' = "testing" /\ mutex' = "send"
           \/ send = "testing" /\ send' = "dozing" /\ mutex' = mutex
              /\ share_buff[read_head] = NULL
           \/ send = "dozing" /\ send' = "asleep" /\ mutex' = "none"
    BY <1>2 DEF SendTop, SendLock, SendDoze, SendSleep, SendSpurious
  <2>2. TypeOK' /\ Hands'
    BY <1>1, <2>1 DEF IInv, TypeOK, Hands, SendPlace, ringvars, recvvars
  <2> QED
    BY <1>1, <2>1, <2>2, InvStill DEF IInv, Running, recvvars
<1>3. CASE SendCheck
  <2>1. /\ UNCHANGED <<mutex, active_count, handled>> /\ send = "taken"
        /\ \/ shouldQuit /\ send' = "exited" /\ message' = NULL
           \/ ~shouldQuit /\ send' = "handling" /\ message' = message
    BY <1>3 DEF SendCheck
  <2>2. TypeOK' /\ Hands'
    BY <1>1, <2>1 DEF IInv, TypeOK, Hands, Running, SendPlace, ringvars, recvvars
  <2> QED
    BY <1>1, <2>1, <2>2, InvStill DEF IInv, Running, recvvars
<1>4. CASE Handle
  <2>1. /\ mutex' = mutex /\ send = "handling" /\ send' = "top"
        /\ message' = NULL /\ handled' = handled \cup {message}
        /\ active_count' \in {active_count, active_count + 1}
    BY <1>4 DEF Handle
  <2>2. TypeOK' /\ Hands'
    BY <1>1, <2>1 DEF IInv, TypeOK, Hands, SendPlace, ringvars, recvvars
  <2> QED
    BY <1>1, <2>1, <2>2, InvStill DEF IInv, Running, recvvars
<1> QED
  BY <1>2, <1>3, <1>4

(* The entry at read_head is taken; func_receive is woken.                 *)
LEMMA InvSendTake == IInv /\ SendTake => IInv'
<1> SUFFICES ASSUME IInv, SendTake PROVE IInv'
  OBVIOUS
<1>1. /\ send = "testing" /\ mutex' = "none"
      /\ share_buff[read_head] # NULL \/ shouldQuit
      /\ message' = share_buff[read_head]
      /\ share_buff' = [share_buff EXCEPT ![read_head] = NULL]
      /\ read_head' = Succ(read_head)
      /\ recv' = IF recv = "asleep" THEN "locking" ELSE recv
      /\ send' \in {"taken", "aborted"}
      /\ UNCHANGED <<unsent, mq, write_head, shouldQuit, active_count, hand,
                     idle_seconds, handled, main>>
  BY DEF SendTake, WakeReceiver
<1>2. TypeOK /\ write_head \in Index /\ read_head \in Index
  BY DEF IInv, TypeOK
<1>3. TypeOK'
  BY <1>1, <1>2, SuccInIndex DEF TypeOK, RecvPlace, SendPlace
<1>4. Hands'
  BY <1>1 DEF IInv, Hands
<1>5. CASE shouldQuit
  BY <1>1, <1>3, <1>4, <1>5 DEF IInv, Running, NoMissedWakeup
<1>6. CASE ~shouldQuit
  <2>1. RingInOrder /\ share_buff[read_head] # NULL
    BY <1>1, <1>6 DEF IInv, Running
  <2>2. message' \in Msg
    BY <1>1, <1>2, <2>1 DEF TypeOK
  <2>3. RingInOrder'
    <3>1. /\ BUFF_SIZE \in Nat /\ Index = 0 .. BUFF_SIZE - 1
          /\ read_head' = IF read_head = BUFF_SIZE - 1 THEN 0 ELSE read_head + 1
      BY <1>1, <1>2, SuccIs, SizeAssumption DEF Index
    <3>2. \A i \in Index : Occupied(i)' <=> i # read_head /\ Occupied(i)
      BY <1>1, <1>2 DEF Occupied, TypeOK
    <3>3. Occupied(read_head)
      BY <2>1 DEF Occupied
    <3>4. CASE read_head = write_head
      <4>1. \A i \in Index : Occupied(i)
        BY <1>2, <2>1, <3>3, <3>4 DEF RingInOrder
      <4> QED
        BY <1>1, <1>2, <3>1, <3>2, <3>4, <4>1 DEF RingInOrder, Between
    <3>5. CASE read_head # write_head
      <4>1. \A i \in Index : Occupied(i) <=> Between(i)
        BY <2>1, <3>5 DEF RingInOrder
      <4> QED
        BY <1>1, <1>2, <3>1, <3>2, <3>5, <4>1 DEF RingInOrder, Between
    <3> QED
      BY <3>4, <3>5
  <2>4. Running'
    BY <1>1, <1>6, <2>2, <2>3 DEF IInv, Running
  <2>5. NoMissedWakeup'
    BY <1>1 DEF NoMissedWakeup
  <2> QED
    BY <1>3, <1>4, <2>4, <2>5 DEF IInv
<1> QED
  BY <1>5, <1>6

-----------------------------------------------------------------------------
LEMMA InvNext == IInv /\ [Next]_mrvars => IInv'
<1> SUFFICES ASSUME IInv, [Next]_mrvars PROVE IInv'
  OBVIOUS
<1>1. CASE (\E m \in Msg : ClientSend(m)) \/ TerminateHandler \/ MainStep
  BY <1>1, InvOthers
<1>2. CASE RecvStep \/ RecvSpurious
  BY <1>2, InvRecvStill, InvRecvPut DEF RecvStep
<1>3. CASE SendStep \/ SendSpurious
  BY <1>3, InvSendStill, InvSendTake DEF SendStep
<1>4. CASE UNCHANGED mrvars
  BY <1>4 DEF mrvars, ringvars, recvvars, sendvars, IInv, TypeOK, Hands, Running,
              RingInOrder, Occupied, Between, NoMissedWakeup
<1> QED
  BY <1>1, <1>2, <1>3, <1>4 DEF Next

(* main.c:322-538: the ring is in order until the server quits.            *)
THEOREM Invariance == Safety => []IInv
BY InvInit, InvNext, PTL DEF Safety

(* TypeOK holds for a ring and a queue of any size.                        *)
THEOREM TypeCorrect == Safety => []TypeOK
<1>1. IInv => TypeOK
  BY DEF IInv
<1> QED
  BY <1>1, Invariance, PTL

(* main.c:374-376 and 402-404: until the server quits, func_receive sleeps *)
(* only on a full ring and func_send only on an empty one.                 *)
THEOREM NoMissedWakeupHolds == Safety => []NoMissedWakeup
<1>1. IInv => NoMissedWakeup
  BY DEF IInv
<1> QED
  BY <1>1, Invariance, PTL

-----------------------------------------------------------------------------
(* The ring as a queue.                                                    *)

(* Also when the server quits: then func_send may have moved read_head past*)
(* write_head, but over a ring that is empty and stays so.                 *)
StaysInOrder == RingInOrder \/ (shouldQuit /\ \A i \in Index : ~Occupied(i))

(* func_send leaves only to quit.  (func_receive also on an error.)        *)
Leaving == send = "exited" => shouldQuit

QInv == IInv /\ StaysInOrder /\ Leaving

LEMMA IsSeqOf ==
  ASSUME NEW S, NEW n \in Nat, NEW s \in [1 .. n -> S]
  PROVE  s \in Seq(S) /\ Len(s) = n
OBVIOUS

LEMMA WrapIs ==
  ASSUME NEW x \in 0 .. 2 * BUFF_SIZE - 1
  PROVE  x % BUFF_SIZE = IF x < BUFF_SIZE THEN x ELSE x - BUFF_SIZE
<1>1. BUFF_SIZE \in Nat \ {0} /\ x \in Nat
  BY SizeAssumption
<1>2. CASE x < BUFF_SIZE
  BY <1>1, <1>2
<1>3. CASE x >= BUFF_SIZE
  BY <1>1, <1>3
<1> QED
  BY <1>1, <1>2, <1>3

(* The ring holds what its occupied entries hold.                          *)
LEMMA RingGives ==
  ASSUME TypeOK, StaysInOrder
  PROVE  /\ InRing \in 0 .. BUFF_SIZE
         /\ RingSeq \in Seq(Msg) /\ Len(RingSeq) = InRing
         /\ \A k \in 1 .. InRing :
              /\ RingSeq[k] = share_buff[IF read_head + k - 1 < BUFF_SIZE
                                         THEN read_head + k - 1
                                         ELSE read_head + k - 1 - BUFF_SIZE]
              /\ RingSeq[k] # NULL
<1> DEFINE e(k) == IF read_head + k - 1 < BUFF_SIZE THEN read_head + k - 1
                   ELSE read_head + k - 1 - BUFF_SIZE
<1>1. /\ BUFF_SIZE \in Nat \ {0} /\ Index = 0 .. BUFF_SIZE - 1
      /\ read_head \in Index /\ write_head \in Index
      /\ share_buff \in [Index -> Msg \cup {NULL}]
  BY SizeAssumption DEF TypeOK, Index
<1>2. InRing \in 0 .. BUFF_SIZE
  BY <1>1 DEF InRing
<1>3. \A k \in 1 .. InRing : e(k) \in Index /\ (read_head + k - 1) % BUFF_SIZE = e(k)
  <2> SUFFICES ASSUME NEW k \in 1 .. InRing
               PROVE  e(k) \in Index /\ (read_head + k - 1) % BUFF_SIZE = e(k)
    OBVIOUS
  <2>1. PICK x : x = read_head + k - 1
    OBVIOUS
  <2>2. x \in 0 .. 2 * BUFF_SIZE - 1
    BY <1>1, <1>2, <2>1
  <2>3. x % BUFF_SIZE = IF x < BUFF_SIZE THEN x ELSE x - BUFF_SIZE
    BY <2>2, WrapIs
  <2> QED
    BY <1>1, <2>1, <2>2, <2>3
<1>4. \A k \in 1 .. InRing : Occupied(e(k))
  <2> SUFFICES ASSUME NEW k \in 1 .. InRing PROVE Occupied(e(k))
    OBVIOUS
  <2>1. share_buff[read_head] # NULL
    BY <1>1, <1>2 DEF InRing
  <2>2. RingInOrder
    BY <1>1, <2>1 DEF StaysInOrder, Occupied
  <2>3. e(k) \in Index
    BY <1>3
  <2>4. CASE read_head = write_head
    BY <1>1, <2>1, <2>2, <2>3, <2>4 DEF RingInOrder, Occupied
  <2>5. CASE read_head # write_head
    <3>1. Between(e(k))
      BY <1>1, <2>1, <2>5 DEF Between, InRing
    <3> QED
      BY <2>2, <2>3, <2>5, <3>1 DEF RingInOrder
  <2> QED
    BY <2>4, <2>5
<1>5. RingSeq = [k \in 1 .. InRing |-> share_buff[e(k)]]
  BY <1>3 DEF RingSeq
<1>6. RingSeq \in [1 .. InRing -> Msg]
  BY <1>1, <1>3, <1>4, <1>5 DEF Occupied
<1>7. RingSeq \in Seq(Msg) /\ Len(RingSeq) = InRing
  BY <1>2, <1>6, IsSeqOf
<1> QED
  BY <1>2, <1>4, <1>5, <1>7 DEF Occupied

(* Sequences, cut and put together again.                                  *)
LEMMA ConcatAppend ==
  ASSUME NEW S, NEW s \in Seq(S), NEW t \in Seq(S), NEW e \in S
  PROVE  s \o Append(t, e) = Append(s \o t, e)
<1>1. s \o Append(t, e) = s \o (t \o <<e>>)
  BY AppendIsConcat
<1>2. <<e>> \in Seq(S) /\ s \o t \in Seq(S)
  OBVIOUS
<1>3. s \o (t \o <<e>>) = (s \o t) \o <<e>>
  BY <1>2, ConcatAssociative
<1> QED
  BY <1>1, <1>2, <1>3, AppendIsConcat

LEMMA HeadThenTail ==
  ASSUME NEW S, NEW t \in Seq(S), t # <<>>
  PROVE  /\ Head(t) \in S /\ Tail(t) \in Seq(S)
         /\ <<Head(t)>> \in Seq(S)
         /\ t = <<Head(t)>> \o Tail(t)
<1>1. Head(t) \in S /\ Tail(t) \in Seq(S) /\ Len(t) \in Nat \ {0}
  BY HeadTailProperties, EmptySeq
<1>2. <<Head(t)>> \in Seq(S) /\ Len(<<Head(t)>>) = 1
  BY <1>1
<1>3. Len(<<Head(t)>> \o Tail(t)) = Len(t)
  BY <1>1, <1>2, HeadTailProperties, ConcatProperties
<1>4. \A i \in 1 .. Len(t) : t[i] = (<<Head(t)>> \o Tail(t))[i]
  BY <1>1, <1>2, HeadTailProperties, ConcatProperties
<1> QED
  BY <1>1, <1>2, <1>3, <1>4, SeqEqual, ConcatProperties

LEMMA TailOfConcat ==
  ASSUME NEW S, NEW s \in Seq(S), NEW t \in Seq(S), s # <<>>
  PROVE  /\ s \o t # <<>>
         /\ Head(s \o t) = Head(s)
         /\ Tail(s \o t) = Tail(s) \o t
<1>1. /\ Head(s) \in S /\ Tail(s) \in Seq(S) /\ Len(Tail(s)) = Len(s) - 1
      /\ Len(s) \in Nat \ {0} /\ Len(t) \in Nat
      /\ \A i \in 1 .. Len(s) - 1 : Tail(s)[i] = s[i + 1]
  BY HeadTailProperties, EmptySeq, LenProperties
<1>2. /\ s \o t \in Seq(S) /\ Len(s \o t) = Len(s) + Len(t)
      /\ \A i \in 1 .. Len(s) + Len(t) :
           (s \o t)[i] = IF i <= Len(s) THEN s[i] ELSE t[i - Len(s)]
  BY ConcatProperties
<1>3. s \o t # <<>>
  BY <1>1, <1>2, EmptySeq
<1>4. Head(s \o t) = Head(s)
  BY <1>1, <1>2, <1>3
<1>5. /\ Tail(s \o t) \in Seq(S) /\ Len(Tail(s \o t)) = Len(s) + Len(t) - 1
      /\ \A i \in 1 .. Len(s) + Len(t) - 1 : Tail(s \o t)[i] = (s \o t)[i + 1]
  BY <1>2, <1>3, HeadTailProperties
<1>6. /\ Tail(s) \o t \in Seq(S) /\ Len(Tail(s) \o t) = Len(s) - 1 + Len(t)
      /\ \A i \in 1 .. Len(s) - 1 + Len(t) :
           (Tail(s) \o t)[i] = IF i <= Len(s) - 1 THEN Tail(s)[i]
                                                  ELSE t[i - (Len(s) - 1)]
  BY <1>1, ConcatProperties
<1>7. \A i \in 1 .. Len(s) + Len(t) - 1 : Tail(s \o t)[i] = (Tail(s) \o t)[i]
  BY <1>1, <1>2, <1>5, <1>6
<1> QED
  BY <1>1, <1>3, <1>4, <1>5, <1>6, <1>7, SeqEqual

(* What is taken out of the middle.                                        *)
LEMMA WithoutOne ==
  ASSUME NEW S, NEW s \in Seq(S), NEW t \in Seq(S), t # <<>>,
         NEW q, q = s \o t, NEW i, i = Len(s) + 1
  PROVE  /\ i \in 1 .. Len(q) /\ q[i] = Head(t)
         /\ SubSeq(q, 1, i - 1) \o SubSeq(q, i + 1, Len(q)) = s \o Tail(t)
<1>1. /\ Tail(t) \in Seq(S) /\ Len(Tail(t)) = Len(t) - 1
      /\ Len(t) \in Nat \ {0} /\ Len(s) \in Nat
      /\ \A k \in 1 .. Len(t) - 1 : Tail(t)[k] = t[k + 1]
  BY HeadTailProperties, EmptySeq, LenProperties
<1>2. /\ q \in Seq(S) /\ Len(q) = Len(s) + Len(t)
      /\ \A k \in 1 .. Len(s) + Len(t) :
           q[k] = IF k <= Len(s) THEN s[k] ELSE t[k - Len(s)]
  BY ConcatProperties
<1>3. i \in 1 .. Len(q) /\ q[i] = Head(t)
  BY <1>1, <1>2
<1>4. SubSeq(q, 1, i - 1) = s
  <2>1. /\ SubSeq(q, 1, Len(s)) \in Seq(S) /\ Len(SubSeq(q, 1, Len(s))) = Len(s)
        /\ \A k \in 1 .. Len(s) : SubSeq(q, 1, Len(s))[k] = q[k]
    BY <1>1, <1>2, SubSeqProperties, ElementOfSeq
  <2>2. \A k \in 1 .. Len(s) : SubSeq(q, 1, Len(s))[k] = s[k]
    BY <1>1, <1>2, <2>1
  <2>3. SubSeq(q, 1, Len(s)) = s
    BY <2>1, <2>2, SeqEqual
  <2> QED
    BY <1>1, <2>3
<1>5. SubSeq(q, i + 1, Len(q)) = Tail(t)
  <2> DEFINE r == SubSeq(q, Len(s) + 2, Len(q))
  <2>0. \A k \in Len(s) + 2 .. Len(q) : q[k] \in S
    BY <1>1, <1>2, ElementOfSeq
  <2>1. /\ r \in Seq(S) /\ Len(r) = Len(t) - 1
        /\ \A k \in 1 .. Len(t) - 1 : r[k] = q[Len(s) + 2 + k - 1]
    BY <1>1, <1>2, <2>0, SubSeqProperties
  <2>2. \A k \in 1 .. Len(t) - 1 : r[k] = Tail(t)[k]
    BY <1>1, <1>2, <2>1
  <2>3. r = Tail(t)
    BY <1>1, <2>1, <2>2, SeqEqual
  <2> QED
    BY <1>1, <2>3
<1> QED
  BY <1>3, <1>4, <1>5

-----------------------------------------------------------------------------
LEMMA QInvInit == Init => QInv
<1> SUFFICES ASSUME Init PROVE QInv
  OBVIOUS
<1>1. StaysInOrder /\ Leaving
  BY DEF Init, StaysInOrder, RingInOrder, Occupied, Leaving
<1> QED
  BY <1>1, InvInit DEF QInv

(* Until the server quits the order is part of IInv; then messages are only*)
(* taken.                                                                  *)
LEMMA OrderStays == QInv /\ [Next]_mrvars => StaysInOrder'
<1> SUFFICES ASSUME QInv, [Next]_mrvars PROVE StaysInOrder'
  OBVIOUS
<1>1. IInv'
  BY InvNext DEF QInv
<1>2. CASE ~shouldQuit'
  <2>1. RingInOrder'
    BY <1>1, <1>2 DEF IInv, Running
  <2> QED
    BY <2>1 DEF StaysInOrder, Occupied
<1>3. CASE shouldQuit' /\ UNCHANGED ringvars
  <2>1. /\ share_buff' = share_buff /\ read_head' = read_head
        /\ write_head' = write_head
    BY <1>3 DEF ringvars
  <2>2. CASE RingInOrder
    <3>1. RingInOrder'
      BY <2>1, <2>2 DEF RingInOrder, Occupied, Between
    <3> QED
      BY <3>1 DEF StaysInOrder, Occupied
  <2>3. CASE \A i \in Index : ~Occupied(i)
    BY <1>3, <2>1, <2>3 DEF StaysInOrder, Occupied
  <2> QED
    BY <2>2, <2>3 DEF QInv, StaysInOrder
<1>4. CASE RecvPut
  BY <1>2, <1>4 DEF RecvPut
<1>5. CASE SendTake /\ shouldQuit
  <2>1. /\ share_buff' = [share_buff EXCEPT ![read_head] = NULL]
        /\ read_head' = Succ(read_head) /\ write_head' = write_head
        /\ shouldQuit' = shouldQuit
    BY <1>5 DEF SendTake
  <2>2. /\ BUFF_SIZE \in Nat /\ Index = 0 .. BUFF_SIZE - 1
        /\ read_head \in Index /\ write_head \in Index
        /\ read_head' = IF read_head = BUFF_SIZE - 1 THEN 0 ELSE read_head + 1
    BY <2>1, SuccIs, SizeAssumption DEF QInv, IInv, TypeOK, Index
  <2>3. \A i \in Index : Occupied(i)' <=> i # read_head /\ Occupied(i)
    BY <2>1, <2>2 DEF QInv, IInv, TypeOK, Occupied
  <2>4. CASE \A i \in Index : ~Occupied(i)
    BY <1>5, <2>1, <2>3, <2>4 DEF StaysInOrder
  <2>5. CASE RingInOrder /\ \E i \in Index : Occupied(i)
    <3>1. CASE read_head = write_head
      <4>1. \A i \in Index : Occupied(i)
        BY <2>5, <3>1 DEF RingInOrder
      <4>2. read_head' # write_head' \/ BUFF_SIZE = 1
        BY <2>1, <2>2, <3>1
      <4>3. CASE read_head' # write_head'
        <5>1. \A i \in Index : Occupied(i)' <=> Between(i)'
          BY <2>1, <2>2, <2>3, <3>1, <4>1, <4>3 DEF Between
        <5>2. RingInOrder'
          BY <4>3, <5>1 DEF RingInOrder
        <5> QED
          BY <5>2 DEF StaysInOrder
      <4>4. CASE BUFF_SIZE = 1
        <5>1. \A i \in Index : ~Occupied(i)'
          BY <2>2, <2>3, <4>4
        <5> QED
          BY <1>5, <2>1, <5>1 DEF StaysInOrder
      <4> QED
        BY <4>2, <4>3, <4>4
    <3>2. CASE read_head # write_head
      <4>1. \A i \in Index : Occupied(i) <=> Between(i)
        BY <2>5, <3>2 DEF RingInOrder
      <4>2. CASE read_head' = write_head
        <5>1. \A i \in Index : ~Occupied(i)'
          BY <2>2, <2>3, <3>2, <4>1, <4>2 DEF Between
        <5> QED
          BY <1>5, <2>1, <5>1 DEF StaysInOrder
      <4>3. CASE read_head' # write_head
        <5>1. \A i \in Index : Occupied(i)' <=> Between(i)'
          BY <2>1, <2>2, <2>3, <3>2, <4>1, <4>3 DEF Between
        <5>2. RingInOrder'
          BY <2>1, <4>3, <5>1 DEF RingInOrder
        <5> QED
          BY <5>2 DEF StaysInOrder
      <4> QED
        BY <4>2, <4>3
    <3> QED
      BY <3>1, <3>2
  <2> QED
    BY <2>4, <2>5 DEF QInv, StaysInOrder
<1>6. UNCHANGED ringvars \/ RecvPut \/ SendTake
  BY DEF Next, ClientSend, TerminateHandler, RecvStep, RecvTop, Receive, Timeout,
         Interrupted, RecvWait, RecvQuit, RecvSpurious, SendStep, SendTop,
         SendLock, SendDoze, SendSleep, SendCheck, Handle, SendSpurious,
         MainStep, JoinReceive, BroadcastHasItems, JoinSend, mrvars
<1>7. SendTake => shouldQuit' = shouldQuit
  BY DEF SendTake
<1> QED
  BY <1>2, <1>3, <1>4, <1>5, <1>6, <1>7

LEMMA LeavingStays == QInv /\ [Next]_mrvars => Leaving'
<1> SUFFICES ASSUME QInv, [Next]_mrvars PROVE Leaving'
  OBVIOUS
<1>1. shouldQuit => shouldQuit'
  BY DEF QInv, IInv, TypeOK, Next, ClientSend, TerminateHandler, RecvStep, RecvTop,
         Receive, Timeout, Interrupted, RecvWait, RecvPut, RecvQuit, RecvSpurious,
         SendStep, SendTop, SendLock, SendDoze, SendSleep, SendTake, SendCheck,
         Handle, SendSpurious, MainStep, JoinReceive, BroadcastHasItems,
         JoinSend, mrvars
<1>2. send' = "exited" => send = "exited" \/ shouldQuit
  BY DEF Next, ClientSend, TerminateHandler, RecvStep, RecvTop, Receive, Timeout,
         Interrupted, RecvWait, RecvPut, RecvQuit, RecvSpurious, WakeSender,
         SendStep, SendTop, SendLock, SendDoze, SendSleep, SendTake, SendCheck,
         Handle, SendSpurious, MainStep, JoinReceive, BroadcastHasItems,
         WakeToQuit, JoinSend, mrvars, recvvars, sendvars
<1> QED
  BY <1>1, <1>2 DEF QInv, Leaving

LEMMA QInvNext == QInv /\ [Next]_mrvars => QInv'
BY InvNext, OrderStays, LeavingStays DEF QInv

-----------------------------------------------------------------------------
(* func_receive puts its message behind the others.                        *)
LEMMA PutAppends ==
  ASSUME QInv, RecvPut
  PROVE  RingSeq' = Append(RingSeq, hand) /\ hand \in Msg
<1>1. /\ ~shouldQuit /\ recv = "locking" /\ share_buff[write_head] = NULL
      /\ share_buff' = [share_buff EXCEPT ![write_head] = hand]
      /\ write_head' = Succ(write_head) /\ read_head' = read_head
  BY DEF RecvPut, RingFull
<1>2. /\ BUFF_SIZE \in Nat \ {0} /\ Index = 0 .. BUFF_SIZE - 1
      /\ read_head \in Index /\ write_head \in Index
      /\ hand \in Msg /\ hand # NULL
      /\ write_head' = IF write_head = BUFF_SIZE - 1 THEN 0 ELSE write_head + 1
      /\ share_buff \in [Index -> Msg \cup {NULL}]
  BY <1>1, SuccIs, SizeAssumption, MsgAssumption
     DEF QInv, IInv, TypeOK, Hands, Index
<1>3. RingInOrder /\ TypeOK /\ StaysInOrder
  BY <1>1 DEF QInv, IInv, Running
<1>4. read_head # write_head => share_buff[read_head] # NULL
  BY <1>2, <1>3 DEF RingInOrder, Between, Occupied
<1>5. InRing' = InRing + 1 /\ InRing \in 0 .. BUFF_SIZE - 1
  BY <1>1, <1>2, <1>4 DEF InRing
<1> DEFINE n == InRing
           e(k) == IF read_head + k - 1 < BUFF_SIZE THEN read_head + k - 1
                   ELSE read_head + k - 1 - BUFF_SIZE
<1>6. \A k \in 1 .. n + 1 : e(k) \in Index /\ (read_head + k - 1) % BUFF_SIZE = e(k)
  <2> SUFFICES ASSUME NEW k \in 1 .. n + 1
               PROVE  e(k) \in Index /\ (read_head + k - 1) % BUFF_SIZE = e(k)
    OBVIOUS
  <2>1. PICK x : x = read_head + k - 1
    OBVIOUS
  <2>2. x \in 0 .. 2 * BUFF_SIZE - 1
    BY <1>2, <1>5, <2>1
  <2>3. x % BUFF_SIZE = IF x < BUFF_SIZE THEN x ELSE x - BUFF_SIZE
    BY <2>2, WrapIs
  <2> QED
    BY <1>2, <2>1, <2>2, <2>3
<1>7. RingSeq' = [k \in 1 .. n + 1 |-> share_buff'[e(k)]]
  BY <1>1, <1>5, <1>6 DEF RingSeq
<1>8. /\ RingSeq \in Seq(Msg) /\ Len(RingSeq) = n
      /\ \A k \in 1 .. n : RingSeq[k] = share_buff[e(k)] /\ RingSeq[k] # NULL
  BY <1>3, RingGives
<1>9. /\ Append(RingSeq, hand) \in Seq(Msg)
      /\ Len(Append(RingSeq, hand)) = n + 1
      /\ \A k \in 1 .. n + 1 :
           Append(RingSeq, hand)[k] = IF k = n + 1 THEN hand ELSE RingSeq[k]
  BY <1>2, <1>5, <1>8, AppendProperties
<1>10. e(n + 1) = write_head
  BY <1>2, <1>4, <1>5 DEF InRing
<1>11. \A k \in 1 .. n : e(k) # write_head
  BY <1>1, <1>8
<1>12. \A k \in 1 .. n + 1 :
         share_buff'[e(k)] = IF k = n + 1 THEN hand ELSE RingSeq[k]
  BY <1>1, <1>2, <1>5, <1>6, <1>8, <1>10, <1>11
<1>13. RingSeq' \in [1 .. n + 1 -> Msg]
  <2>1. \A k \in 1 .. n : RingSeq[k] \in Msg
    BY <1>5, <1>8, ElementOfSeq
  <2> HIDE DEF e, n
  <2>2. ASSUME NEW k \in 1 .. n + 1 PROVE share_buff'[e(k)] \in Msg
    <3>1. n \in Nat
      BY <1>5 DEF n
    <3>2. CASE k = n + 1
      BY <1>2, <1>12, <3>2
    <3>3. CASE k # n + 1
      <4>1. k \in 1 .. n
        BY <3>1, <3>3
      <4> QED
        BY <1>12, <2>1, <3>3, <4>1
    <3> QED
      BY <3>2, <3>3
  <2> QED
    BY <1>7, <2>2
<1>14. RingSeq' \in Seq(Msg) /\ Len(RingSeq') = n + 1
  BY <1>5, <1>13, IsSeqOf
<1>15. \A k \in 1 .. n + 1 : RingSeq'[k] = Append(RingSeq, hand)[k]
  BY <1>7, <1>9, <1>12
<1> QED
  BY <1>2, <1>9, <1>14, <1>15, SeqEqual

(* func_send takes the first one.                                          *)
LEMMA TakeIsHead ==
  ASSUME QInv, SendTake, share_buff[read_head] # NULL
  PROVE  /\ RingSeq \in Seq(Msg) /\ RingSeq # <<>>
         /\ Head(RingSeq) = share_buff[read_head]
         /\ RingSeq' = Tail(RingSeq)
<1>1. /\ share_buff' = [share_buff EXCEPT ![read_head] = NULL]
      /\ read_head' = Succ(read_head) /\ write_head' = write_head
  BY DEF SendTake
<1>2. /\ BUFF_SIZE \in Nat \ {0} /\ Index = 0 .. BUFF_SIZE - 1
      /\ read_head \in Index /\ write_head \in Index
      /\ read_head' = IF read_head = BUFF_SIZE - 1 THEN 0 ELSE read_head + 1
      /\ share_buff \in [Index -> Msg \cup {NULL}]
  BY <1>1, SuccIs, SizeAssumption DEF QInv, IInv, TypeOK, Index
<1>3. RingInOrder /\ TypeOK /\ StaysInOrder
  BY <1>2 DEF QInv, IInv, StaysInOrder, Occupied
<1>4. InRing' = InRing - 1 /\ InRing \in 1 .. BUFF_SIZE
  <2>1. InRing \in 1 .. BUFF_SIZE
    BY <1>2 DEF InRing
  <2>2. CASE read_head = write_head
    <3>1. \A i \in Index : Occupied(i)
      BY <1>2, <1>3, <2>2 DEF RingInOrder, Occupied
    <3>2. \A i \in Index : share_buff'[i] = NULL <=> i = read_head
      BY <1>1, <1>2, <3>1 DEF Occupied
    <3> QED
      BY <1>1, <1>2, <2>1, <2>2, <3>2 DEF InRing
  <2>3. CASE read_head # write_head
    <3>1. \A i \in Index : Occupied(i) <=> Between(i)
      BY <1>3, <2>3 DEF RingInOrder
    <3>2. \A i \in Index : share_buff'[i] = NULL <=> i = read_head \/ ~Between(i)
      BY <1>1, <1>2, <3>1 DEF Occupied
    <3>3. share_buff'[read_head'] = NULL <=> read_head' = write_head
      BY <1>2, <2>3, <3>2 DEF Between
    <3> QED
      BY <1>1, <1>2, <2>1, <2>3, <3>3 DEF InRing
  <2> QED
    BY <2>2, <2>3
<1> DEFINE n == InRing
           e(k) == IF read_head + k - 1 < BUFF_SIZE THEN read_head + k - 1
                   ELSE read_head + k - 1 - BUFF_SIZE
<1>5. /\ RingSeq \in Seq(Msg) /\ Len(RingSeq) = n
      /\ \A k \in 1 .. n : RingSeq[k] = share_buff[e(k)] /\ RingSeq[k] # NULL
  BY <1>3, RingGives
<1>6. RingSeq # <<>> /\ Head(RingSeq) = share_buff[read_head]
  BY <1>2, <1>4, <1>5
<1>7. \A k \in 1 .. n - 1 :
        e(k + 1) \in Index /\ (read_head' + k - 1) % BUFF_SIZE = e(k + 1)
  <2> SUFFICES ASSUME NEW k \in 1 .. n - 1
               PROVE  /\ e(k + 1) \in Index
                      /\ (read_head' + k - 1) % BUFF_SIZE = e(k + 1)
    OBVIOUS
  <2>1. PICK x : x = read_head' + k - 1
    OBVIOUS
  <2>2. x \in 0 .. 2 * BUFF_SIZE - 1
    BY <1>2, <1>4, <2>1
  <2>3. x % BUFF_SIZE = IF x < BUFF_SIZE THEN x ELSE x - BUFF_SIZE
    BY <2>2, WrapIs
  <2> QED
    BY <1>2, <1>4, <2>1, <2>2, <2>3
<1>8. RingSeq' = [k \in 1 .. n - 1 |-> share_buff'[e(k + 1)]]
  BY <1>4, <1>7 DEF RingSeq
<1>9. \A k \in 1 .. n - 1 : e(k + 1) # read_head
  BY <1>2, <1>4
<1>10. \A k \in 1 .. n - 1 : share_buff'[e(k + 1)] = RingSeq[k + 1]
  BY <1>1, <1>2, <1>4, <1>5, <1>7, <1>9
<1>11. /\ Tail(RingSeq) \in Seq(Msg) /\ Len(Tail(RingSeq)) = n - 1
       /\ \A k \in 1 .. n - 1 : Tail(RingSeq)[k] = RingSeq[k + 1]
  BY <1>5, <1>6, HeadTailProperties
<1>12. RingSeq' \in [1 .. n - 1 -> Msg]
  BY <1>4, <1>5, <1>8, <1>10, ElementOfSeq
<1>13. RingSeq' \in Seq(Msg) /\ Len(RingSeq') = n - 1
  BY <1>4, <1>12, IsSeqOf
<1>14. \A k \in 1 .. n - 1 : RingSeq'[k] = Tail(RingSeq)[k]
  BY <1>8, <1>10, <1>11
<1> QED
  BY <1>5, <1>6, <1>11, <1>13, <1>14, SeqEqual

-----------------------------------------------------------------------------
(* The steps as steps of the message queue.                                *)
ImplementsStep == [MQ!Next]_<<Waiting, Handling, shouldQuit>>

LEMMA WaitingIs ==
  ASSUME QInv
  PROVE  /\ RingSeq \in Seq(Msg) /\ InHand \in Seq(Msg) /\ mq \in Seq(Msg)
         /\ RingSeq \o InHand \in Seq(Msg)
         /\ main # "exited" => Waiting = (RingSeq \o InHand) \o mq
<1>1. TypeOK /\ StaysInOrder
  BY DEF QInv, IInv
<1>2. RingSeq \in Seq(Msg)
  BY <1>1, RingGives
<1>3. InHand \in Seq(Msg) /\ mq \in Seq(Msg)
  BY <1>1 DEF TypeOK, InHand
<1>4. RingSeq \o InHand \in Seq(Msg)
  BY <1>2, <1>3, ConcatProperties
<1> QED
  BY <1>2, <1>3, <1>4 DEF Waiting

LEMMA RingStays ==
  UNCHANGED ringvars => RingSeq' = RingSeq
BY DEF ringvars, RingSeq, InRing

LEMMA Stutters ==
  ASSUME UNCHANGED <<ringvars, hand, mq, message, shouldQuit>>,
         UNCHANGED send \/ {send, send'} \cap {"taken", "handling"} = {},
         UNCHANGED main \/ "exited" \notin {main, main'}
  PROVE  ImplementsStep
<1>1. RingSeq' = RingSeq /\ InHand' = InHand
  BY RingStays DEF InHand
<1>2. Waiting' = Waiting
  BY <1>1 DEF Waiting
<1>3. Handling' = Handling
  BY DEF Handling
<1> QED
  BY <1>2, <1>3 DEF ImplementsStep

(* What arrives is put in the queue, and a second without a message may    *)
(* make the server quit.                                                   *)
LEMMA ArrivalSteps ==
  ASSUME QInv,
         (\E m \in Msg : ClientSend(m)) \/ TerminateHandler \/ Timeout
  PROVE  ImplementsStep
<1>1. ASSUME NEW m \in Msg, ClientSend(m) PROVE ImplementsStep
  <2>1. /\ main # "exited" /\ main' = main /\ mq' = Append(mq, m)
        /\ UNCHANGED ringvars /\ hand' = hand
        /\ send' = send /\ message' = message /\ shouldQuit' = shouldQuit
    BY <1>1 DEF ClientSend, recvvars, sendvars
  <2>2. RingSeq' = RingSeq /\ InHand' = InHand /\ Handling' = Handling
    BY <2>1, RingStays DEF InHand, Handling
  <2>3. Waiting' = (RingSeq \o InHand) \o Append(mq, m)
    BY <2>1, <2>2 DEF Waiting
  <2>4. Waiting' = Append(Waiting, m)
    BY <2>1, <2>3, WaitingIs, ConcatAppend
  <2>5. MQ!Put(m)
    BY <2>1, <2>2, <2>4 DEF MQ!Put
  <2> QED
    BY <2>5 DEF ImplementsStep, MQ!Next
<1>2. CASE TerminateHandler \/ Timeout
  <2>1. /\ UNCHANGED ringvars /\ hand' = hand /\ mq' = mq /\ main' = main
        /\ send' = send /\ message' = message
    BY <1>2 DEF TerminateHandler, Timeout, recvvars, sendvars
  <2>0. shouldQuit' = shouldQuit \/ shouldQuit' = TRUE
    <3>1. CASE shouldQuit \/ TerminateHandler
      BY <1>2, <3>1 DEF TerminateHandler, Timeout
    <3>2. CASE ~shouldQuit /\ Timeout
      <4>1. shouldQuit' \in BOOLEAN /\ shouldQuit \in BOOLEAN
        BY <3>2 DEF Timeout, QInv, IInv, TypeOK
      <4> QED
        BY <3>2, <4>1
    <3> QED
      BY <1>2, <3>1, <3>2
  <2>2. RingSeq' = RingSeq /\ InHand' = InHand /\ Handling' = Handling
    BY <2>1, RingStays DEF InHand, Handling
  <2>3. Waiting' = Waiting
    BY <2>1, <2>2 DEF Waiting
  <2> QED
    BY <2>0, <2>2, <2>3 DEF ImplementsStep, MQ!Next, MQ!Quit
<1> QED
  BY <1>1, <1>2

(* func_receive takes a message in its hand or drops it.                   *)
LEMMA ReceiveStep ==
  ASSUME QInv, Receive
  PROVE  ImplementsStep
<1>1. /\ main # "exited" /\ main' = main /\ mq # <<>> /\ mq' = Tail(mq)
      /\ UNCHANGED ringvars /\ send' = send /\ message' = message
      /\ shouldQuit' = shouldQuit /\ recv = "receiving"
  BY DEF Receive, Alive, sendvars
<1>2. RingSeq' = RingSeq /\ Handling' = Handling
  BY <1>1, RingStays DEF Handling
<1>3. hand = NULL /\ InHand = <<>>
  BY <1>1 DEF QInv, IInv, TypeOK, Hands, InHand
<1>4. CASE Head(mq) \in Malformed
  <2>1. hand' = hand /\ InHand' = InHand
    BY <1>4 DEF Receive, InHand
  <2>2. Waiting' = (RingSeq \o InHand) \o Tail(mq)
    BY <1>1, <1>2, <2>1 DEF Waiting
  <2> DEFINE i == Len(RingSeq \o InHand) + 1
  <2>3. /\ i \in 1 .. Len(Waiting) /\ Waiting[i] = Head(mq)
        /\ SubSeq(Waiting, 1, i - 1) \o SubSeq(Waiting, i + 1, Len(Waiting))
             = (RingSeq \o InHand) \o Tail(mq)
    BY <1>1, WaitingIs, WithoutOne
  <2>4. MQ!Discard
    BY <1>1, <1>2, <1>4, <2>2, <2>3 DEF MQ!Discard, MQ!Without
  <2> QED
    BY <2>4 DEF ImplementsStep, MQ!Next
<1>5. CASE Head(mq) \notin Malformed
  <2>1. /\ Head(mq) \in Msg /\ Tail(mq) \in Seq(Msg) /\ <<Head(mq)>> \in Seq(Msg)
        /\ mq = <<Head(mq)>> \o Tail(mq)
    BY <1>1, WaitingIs, HeadThenTail
  <2>2. hand' = Head(mq) /\ InHand' = <<Head(mq)>>
    BY <1>5, <2>1, MsgAssumption DEF Receive, InHand
  <2>3. Waiting' = (RingSeq \o <<Head(mq)>>) \o Tail(mq)
    BY <1>1, <1>2, <2>2 DEF Waiting
  <2>4. (RingSeq \o <<Head(mq)>>) \o Tail(mq) = RingSeq \o mq
    BY <2>1, WaitingIs, ConcatAssociative
  <2>5. RingSeq \o InHand = RingSeq
    BY <1>3, WaitingIs, ConcatEmptySeq
  <2>6. Waiting' = Waiting
    BY <1>1, <2>3, <2>4, <2>5, WaitingIs
  <2> QED
    BY <1>1, <1>2, <2>6 DEF ImplementsStep
<1> QED
  BY <1>4, <1>5

(* It leaves its hand in the ring, where nothing overtakes it, ...         *)
LEMMA RecvPutStep ==
  ASSUME QInv, RecvPut
  PROVE  ImplementsStep
<1>1. /\ main # "exited" /\ main' = main /\ mq' = mq /\ hand' = NULL
      /\ send' = WakeSender /\ message' = message /\ shouldQuit' = shouldQuit
  BY DEF RecvPut, Alive
<1>2. Handling' = Handling
  BY <1>1 DEF Handling, WakeSender
<1>3. RingSeq' = Append(RingSeq, hand) /\ hand \in Msg
  BY PutAppends
<1>4. InHand = <<hand>> /\ InHand' = <<>>
  BY <1>1, <1>3, MsgAssumption DEF InHand
<1>5. RingSeq' = RingSeq \o InHand
  BY <1>3, <1>4, WaitingIs, AppendIsConcat
<1>6. RingSeq' \o InHand' = RingSeq \o InHand
  BY <1>4, <1>5, WaitingIs, ConcatEmptySeq
<1>7. Waiting' = Waiting
  BY <1>1, <1>6 DEF Waiting
<1> QED
  BY <1>1, <1>2, <1>7 DEF ImplementsStep

(* ... or destroys it, because the server quits.                           *)
LEMMA RecvQuitStep ==
  ASSUME QInv, RecvQuit
  PROVE  ImplementsStep
<1>1. /\ main # "exited" /\ main' = main /\ mq' = mq /\ hand' = NULL
      /\ UNCHANGED ringvars /\ send' = send /\ message' = message
      /\ shouldQuit /\ shouldQuit' = shouldQuit /\ recv = "locking"
  BY DEF RecvQuit, Alive, sendvars
<1>2. RingSeq' = RingSeq /\ Handling' = Handling
  BY <1>1, RingStays DEF Handling
<1>3. hand \in Msg
  BY <1>1 DEF QInv, IInv, Hands
<1>4. InHand = <<hand>> /\ InHand' = <<>>
  BY <1>1, <1>3, MsgAssumption DEF InHand
<1>5. <<hand>> \in Seq(Msg) /\ <<hand>> # <<>> /\ Tail(<<hand>>) = <<>>
  BY <1>3
<1> DEFINE t == <<hand>> \o mq
           i == Len(RingSeq) + 1
<1>6. t \in Seq(Msg) /\ t # <<>> /\ Tail(t) = mq
  <2>1. t \in Seq(Msg)
    BY <1>5, WaitingIs, ConcatProperties
  <2>2. t # <<>> /\ Tail(t) = Tail(<<hand>>) \o mq
    BY <1>5, WaitingIs, TailOfConcat
  <2>3. <<>> \o mq = mq
    BY WaitingIs, ConcatEmptySeq
  <2> QED
    BY <1>5, <2>1, <2>2, <2>3
<1>7. Waiting = RingSeq \o t
  <2>1. Waiting = (RingSeq \o <<hand>>) \o mq
    BY <1>1, <1>4, WaitingIs
  <2>2. RingSeq \in Seq(Msg) /\ mq \in Seq(Msg)
    BY WaitingIs
  <2>3. (RingSeq \o <<hand>>) \o mq = RingSeq \o t
    BY <1>5, <2>2, ConcatAssociative
  <2> QED
    BY <2>1, <2>3
<1>8. Waiting' = RingSeq \o Tail(t)
  <2>1. Waiting' = (RingSeq \o <<>>) \o mq
    BY <1>1, <1>2, <1>4 DEF Waiting
  <2> QED
    BY <1>6, <2>1, WaitingIs, ConcatEmptySeq
<1> HIDE DEF t
<1>9. /\ i \in 1 .. Len(Waiting)
      /\ SubSeq(Waiting, 1, i - 1) \o SubSeq(Waiting, i + 1, Len(Waiting))
           = RingSeq \o Tail(t)
  <2>1. RingSeq \in Seq(Msg)
    BY WaitingIs
  <2> QED
    BY <1>6, <1>7, <2>1, WithoutOne
<1>10. MQ!Abandon
  BY <1>1, <1>2, <1>8, <1>9 DEF MQ!Abandon, MQ!Without
<1> QED
  BY <1>10 DEF ImplementsStep, MQ!Next

(* func_send takes the first message; one that it takes when the server    *)
(* quits is lost with the process.                                         *)
LEMMA SendTakeStep ==
  ASSUME QInv, SendTake
  PROVE  ImplementsStep
<1>1. /\ main # "exited" /\ main' = main /\ mq' = mq /\ hand' = hand
      /\ send = "testing" /\ message' = share_buff[read_head]
      /\ send' = IF message' # NULL /\ shouldQuit THEN "aborted" ELSE "taken"
      /\ shouldQuit' = shouldQuit
      /\ share_buff' = [share_buff EXCEPT ![read_head] = NULL]
      /\ read_head' = Succ(read_head) /\ write_head' = write_head
  BY DEF SendTake, Alive
<1>2. InHand' = InHand /\ Handling = NULL
  BY <1>1 DEF InHand, Handling
<1>3. CASE share_buff[read_head] # NULL
  <2>1. /\ RingSeq # <<>> /\ Head(RingSeq) = message'
        /\ RingSeq' = Tail(RingSeq)
    BY <1>1, <1>3, TakeIsHead
  <2>2. /\ RingSeq \o InHand # <<>>
        /\ Head(RingSeq \o InHand) = message'
        /\ Tail(RingSeq \o InHand) = RingSeq' \o InHand
    BY <2>1, WaitingIs, TailOfConcat
  <2>3. /\ Waiting # <<>> /\ Head(Waiting) = message'
        /\ Tail(Waiting) = (RingSeq' \o InHand) \o mq
    <3> DEFINE s == RingSeq \o InHand
    <3>1. s \in Seq(Msg) /\ mq \in Seq(Msg) /\ Waiting = s \o mq
      BY <1>1, WaitingIs
    <3> HIDE DEF s
    <3>2. s # <<>>
      BY <2>2 DEF s
    <3>3. s \o mq # <<>> /\ Head(s \o mq) = Head(s) /\ Tail(s \o mq) = Tail(s) \o mq
      BY <3>1, <3>2, TailOfConcat
    <3> QED
      BY <2>2, <3>1, <3>3 DEF s
  <2>4. Waiting' = Tail(Waiting)
    BY <1>1, <1>2, <2>3 DEF Waiting
  <2>5. CASE ~shouldQuit
    <3>1. Handling' = message'
      BY <1>1, <2>5 DEF Handling
    <3>2. MQ!Take
      BY <1>1, <1>2, <2>3, <2>4, <3>1 DEF MQ!Take
    <3> QED
      BY <3>2 DEF ImplementsStep, MQ!Next
  <2>6. CASE shouldQuit
    <3>1. Handling' = NULL
      BY <1>1, <1>3, <2>6 DEF Handling
    <3>2. Waiting \in Seq(Msg)
      BY <1>1, WaitingIs, ConcatProperties
    <3>3. /\ 1 \in 1 .. Len(Waiting)
          /\ SubSeq(Waiting, 1, 1 - 1) \o SubSeq(Waiting, 1 + 1, Len(Waiting))
               = <<>> \o Tail(Waiting)
      <4>1. <<>> \in Seq(Msg) /\ 1 = Len(<<>>) + 1
        BY EmptySeq
      <4>2. Waiting = <<>> \o Waiting
        BY <3>2, ConcatEmptySeq
      <4> QED
        BY <2>3, <3>2, <4>1, <4>2, WithoutOne
    <3>4. <<>> \o Tail(Waiting) = Tail(Waiting)
      BY <2>3, <3>2, HeadThenTail, ConcatEmptySeq
    <3>5. MQ!Abandon
      BY <1>1, <1>2, <2>4, <2>6, <3>1, <3>3, <3>4 DEF MQ!Abandon, MQ!Without
    <3> QED
      BY <3>5 DEF ImplementsStep, MQ!Next
  <2> QED
    BY <2>5, <2>6
<1>4. CASE share_buff[read_head] = NULL
  <2>1. /\ BUFF_SIZE \in Nat \ {0} /\ Index = 0 .. BUFF_SIZE - 1
        /\ read_head \in Index /\ write_head \in Index
        /\ share_buff \in [Index -> Msg \cup {NULL}]
        /\ read_head' \in Index
    BY <1>1, SuccInIndex, SizeAssumption DEF QInv, IInv, TypeOK, Index
  <2>2. \A j \in Index : share_buff[j] = NULL
    BY <1>4, <2>1 DEF QInv, StaysInOrder, RingInOrder, Between, Occupied
  <2>3. \A j \in Index : share_buff'[j] = NULL
    BY <1>1, <2>1, <2>2
  <2>4. InRing = 0 /\ InRing' = 0
    BY <1>4, <2>1, <2>3 DEF InRing
  <2>5. RingSeq' = RingSeq
    BY <2>4 DEF RingSeq
  <2>6. Waiting' = Waiting
    BY <1>1, <1>2, <2>5 DEF Waiting
  <2>7. Handling' = NULL
    BY <1>1, <1>4 DEF Handling
  <2> QED
    BY <1>1, <1>2, <2>6, <2>7 DEF ImplementsStep
<1> QED
  BY <1>3, <1>4

(* It finishes, or drops what it took before the server quit.              *)
LEMMA FinishSteps ==
  ASSUME QInv, SendCheck \/ Handle
  PROVE  ImplementsStep
<1>1. /\ main' = main /\ mq' = mq /\ hand' = hand /\ UNCHANGED ringvars
      /\ shouldQuit' = shouldQuit
  BY DEF SendCheck, Handle, recvvars
<1>2. RingSeq' = RingSeq /\ InHand' = InHand
  BY <1>1, RingStays DEF InHand
<1>3. Waiting' = Waiting
  BY <1>1, <1>2 DEF Waiting
<1>4. Handling' = Handling \/ (Handling # NULL /\ Handling' = NULL)
  BY DEF SendCheck, Handle, Handling
<1> QED
  BY <1>1, <1>3, <1>4 DEF ImplementsStep, MQ!Next, MQ!Finish

(* main removes the queue only when func_send has left, to quit.           *)
LEMMA JoinSendStep ==
  ASSUME QInv, JoinSend
  PROVE  ImplementsStep
<1>1. /\ main = "joining_send" /\ main' = "exited" /\ send = "exited"
      /\ send' = send /\ message' = message /\ shouldQuit' = shouldQuit
  BY DEF JoinSend, sendvars
<1>2. Waiting' = <<>> /\ Handling' = Handling
  BY <1>1 DEF Waiting, Handling
<1>3. shouldQuit
  BY <1>1 DEF QInv, Leaving
<1>4. MQ!Abandon
  BY <1>1, <1>2, <1>3 DEF MQ!Abandon
<1> QED
  BY <1>4 DEF ImplementsStep, MQ!Next

LEMMA QuietSteps ==
  ASSUME \/ RecvTop \/ Interrupted \/ RecvWait \/ RecvSpurious
         \/ SendTop \/ SendLock \/ SendDoze \/ SendSleep \/ SendSpurious
         \/ JoinReceive \/ BroadcastHasItems \/ UNCHANGED mrvars
  PROVE  ImplementsStep
<1>1. UNCHANGED <<ringvars, hand, mq, message, shouldQuit>>
  BY DEF RecvTop, Interrupted, RecvWait, RecvSpurious, SendTop, SendLock, SendDoze,
         SendSleep, SendSpurious, JoinReceive, BroadcastHasItems, mrvars,
         recvvars, sendvars
<1>2. UNCHANGED send \/ {send, send'} \cap {"taken", "handling"} = {}
  BY DEF RecvTop, Interrupted, RecvWait, RecvSpurious, SendTop, SendLock, SendDoze,
         SendSleep, SendSpurious, JoinReceive, BroadcastHasItems, mrvars,
         recvvars, sendvars, WakeToQuit, WakeSender
<1>3. UNCHANGED main \/ "exited" \notin {main, main'}
  BY DEF RecvTop, Interrupted, RecvWait, RecvSpurious, SendTop, SendLock, SendDoze,
         SendSleep, SendSpurious, JoinReceive, BroadcastHasItems, mrvars,
         recvvars, sendvars
<1> QED
  BY <1>1, <1>2, <1>3, Stutters

LEMMA InitImplements == Init => MQ!Init
<1> SUFFICES ASSUME Init PROVE MQ!Init
  OBVIOUS
<1>1. /\ QInv /\ mq = <<>> /\ hand = NULL /\ main = "joining_receive"
      /\ send = "top" /\ shouldQuit = FALSE
  BY QInvInit DEF Init
<1>2. InRing = 0
  BY SizeAssumption DEF Init, InRing, Index
<1>3. RingSeq = <<>>
  BY <1>1, <1>2, RingGives, EmptySeq DEF QInv, IInv
<1>4. Waiting = <<>>
  BY <1>1, <1>3, ConcatEmptySeq, EmptySeq DEF Waiting, InHand
<1> QED
  BY <1>1, <1>4 DEF MQ!Init, Handling

LEMMA StepImplements == QInv /\ [Next]_mrvars => ImplementsStep
<1> SUFFICES ASSUME QInv, [Next]_mrvars PROVE ImplementsStep
  OBVIOUS
<1>1. \/ (\E m \in Msg : ClientSend(m)) \/ TerminateHandler \/ Timeout
      \/ Receive \/ RecvPut \/ RecvQuit \/ SendTake \/ SendCheck \/ Handle
      \/ JoinSend
      \/ RecvTop \/ Interrupted \/ RecvWait \/ RecvSpurious
      \/ SendTop \/ SendLock \/ SendDoze \/ SendSleep \/ SendSpurious
      \/ JoinReceive \/ BroadcastHasItems \/ UNCHANGED mrvars
  BY DEF Next, RecvStep, SendStep, MainStep
<1> QED
  BY <1>1, ArrivalSteps, ReceiveStep, RecvPutStep, RecvQuitStep, SendTakeStep,
     FinishSteps, JoinSendStep, QuietSteps

(* The ring implements the message queue, whatever its size, the number of *)
(* messages and the interleaving of clients, threads and signals.  Messages*)
(* are handled in the order of sending, each at most once, always; until   *)
(* shouldQuit is set none is dropped but the malformed.  Of what a server  *)
(* that quits drops nothing is said: MQ!Abandon lets it drop any of them.  *)
THEOREM Implementation == Safety => ImplementsMessageQueue
<1>1. QInv /\ [Next]_mrvars => [MQ!Next]_<<Waiting, Handling, shouldQuit>>
  BY StepImplements DEF ImplementsStep
<1> QED
  BY <1>1, QInvInit, QInvNext, InitImplements, PTL
     DEF Safety, ImplementsMessageQueue, MQ!Spec
=============================================================================
