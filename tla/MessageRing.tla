----------------------------- MODULE MessageRing -----------------------------
(***************************************************************************)
(* The threads of server/main.c and what they share: func_receive moves    *)
(* messages from the server's POSIX queue into the ring share_buff,        *)
(* func_send takes them out and handles them, main joins the one and then  *)
(* the other.  shouldQuit is written by the signal handler and by          *)
(* func_receive, outside any mutex.                                        *)
(*                                                                         *)
(* A section under mutex_message is one step where it cannot be told from  *)
(* one.  The test of func_send and its pthread_cond_wait are two: main     *)
(* broadcasts without the mutex and can do so between them.                *)
(***************************************************************************)
EXTENDS Integers, Sequences, FiniteSets

CONSTANTS
  Msg,            \* the messages clients send, each once
  Malformed,      \* those that needy_message_from_string rejects
  Connect,        \* those of type CLIENT_CONNECTION_REQUEST
  BUFF_SIZE,      \* entries of share_buff
  QueueCapacity,  \* attr.mq_maxmsg, which is config.maximumClients
  IdleLimit,      \* the 5 seconds of func_receive
  NULL

ASSUME SizeAssumption ==
  /\ BUFF_SIZE \in Nat \ {0} /\ QueueCapacity \in Nat \ {0}
  /\ IdleLimit \in Nat \ {0}
ASSUME MsgAssumption ==
  /\ IsFiniteSet(Msg) /\ Malformed \subseteq Msg
  /\ Connect \subseteq Msg \ Malformed /\ NULL \notin Msg

VARIABLES
  unsent,        \* messages no client has sent yet
  mq,            \* the server's message queue
  share_buff, read_head, write_head,
  mutex,         \* who holds mutex_message: "none" or "send"
  shouldQuit,
  active_count,  \* connections of mq_manager
  recv,          \* where func_receive is
  hand,          \* the message func_receive has just read
  idle_seconds,
  send,          \* where func_send is
  message,       \* the message func_send has taken
  handled,       \* the messages whose handler has returned
  main           \* where main is

ringvars == <<share_buff, read_head, write_head>>
recvvars == <<recv, hand, idle_seconds>>
sendvars == <<send, message, handled>>
mrvars == <<unsent, mq, ringvars, mutex, shouldQuit, active_count, recvvars,
            sendvars, main>>

Index == 0 .. BUFF_SIZE - 1

(* Mutant: the head does not wrap.                                         *)
Succ_NoWrap(i) == i + 1

Succ(i) == (i + 1) % BUFF_SIZE

RecvPlace == {"top", "receiving", "locking", "asleep", "exited"}
SendPlace == {"top", "locking", "testing", "dozing", "asleep", "taken",
              "handling", "exited", "aborted"}
MainPlace == {"joining_receive", "broadcasting", "joining_send", "exited"}

(* abort() in any thread ends the process.                                 *)
Alive == send # "aborted" /\ main # "exited"

-----------------------------------------------------------------------------
Init ==
  /\ unsent = Msg
  /\ mq = <<>>
  /\ share_buff = [i \in Index |-> NULL]
  /\ read_head = 0
  /\ write_head = 0
  /\ mutex = "none"
  /\ shouldQuit = FALSE
  /\ active_count = 0
  /\ recv = "top"
  /\ hand = NULL
  /\ idle_seconds = 0
  /\ send = "top"
  /\ message = NULL
  /\ handled = {}
  /\ main = "joining_receive"

(* A client's mq_send: it blocks while the queue is full.                  *)
ClientSend(m) ==
  /\ main # "exited"
  /\ m \in unsent
  /\ Len(mq) < QueueCapacity
  /\ mq' = Append(mq, m)
  /\ unsent' = unsent \ {m}
  /\ UNCHANGED <<ringvars, mutex, shouldQuit, active_count, recvvars,
                 sendvars, main>>

(* SIGINT or SIGTERM.                                                      *)
TerminateHandler ==
  /\ Alive
  /\ ~shouldQuit
  /\ shouldQuit' = TRUE
  /\ UNCHANGED <<unsent, mq, ringvars, mutex, active_count, recvvars,
                 sendvars, main>>

-----------------------------------------------------------------------------
(* func_receive.                                                           *)
RecvTop ==
  /\ Alive
  /\ recv = "top"
  /\ recv' = IF shouldQuit THEN "exited" ELSE "receiving"
  /\ UNCHANGED <<unsent, mq, ringvars, mutex, shouldQuit, active_count, hand,
                 idle_seconds, sendvars, main>>

(* mq_timedreceive returns a message; one that does not parse is dropped.  *)
Receive ==
  /\ Alive
  /\ recv = "receiving"
  /\ mq # <<>>
  /\ mq' = Tail(mq)
  /\ idle_seconds' = 0
  /\ IF Head(mq) \in Malformed
     THEN recv' = "top" /\ UNCHANGED hand
     ELSE recv' = "locking" /\ hand' = Head(mq)
  /\ UNCHANGED <<unsent, ringvars, mutex, shouldQuit, active_count, sendvars,
                 main>>

(* It returns ETIMEDOUT after a second without a message.                  *)
Timeout ==
  /\ Alive
  /\ recv = "receiving"
  /\ mq = <<>>
  /\ IF shouldQuit
     THEN recv' = "exited" /\ UNCHANGED <<idle_seconds, shouldQuit>>
     ELSE /\ idle_seconds' = IF active_count = 0 THEN idle_seconds + 1 ELSE 0
          /\ shouldQuit' = (idle_seconds' >= IdleLimit)
          /\ recv' = IF shouldQuit' THEN "exited" ELSE "top"
  /\ UNCHANGED <<unsent, mq, ringvars, mutex, active_count, hand, sendvars,
                 main>>

(* It returns any other error: EINTR when the signal is delivered to this  *)
(* thread, or one of the queue.  The thread leaves, whether or not the     *)
(* server quits.                                                           *)
Interrupted ==
  /\ Alive
  /\ recv = "receiving"
  /\ recv' = "exited"
  /\ UNCHANGED <<unsent, mq, ringvars, mutex, shouldQuit, active_count, hand,
                 idle_seconds, sendvars, main>>

(* Mutant: nobody looks whether the entry is free.                         *)
RingFull_Never == FALSE

RingFull == share_buff[write_head] # NULL

(* pthread_cond_broadcast(&bufferHasItems).  (Mutant: it is forgotten.)    *)
WakeSender_Forgotten == send

WakeSender == IF send = "asleep" THEN "locking" ELSE send

(* The section of func_receive: it waits for room, then leaves its message *)
(* in the ring, or destroys it if the server quits.                        *)
RecvWait ==
  /\ Alive
  /\ recv = "locking"
  /\ mutex = "none"
  /\ RingFull /\ ~shouldQuit
  /\ recv' = "asleep"
  /\ UNCHANGED <<unsent, mq, ringvars, mutex, shouldQuit, active_count, hand,
                 idle_seconds, sendvars, main>>

RecvPut ==
  /\ Alive
  /\ recv = "locking"
  /\ mutex = "none"
  /\ ~RingFull /\ ~shouldQuit
  /\ share_buff' = [share_buff EXCEPT ![write_head] = hand]
  /\ write_head' = Succ(write_head)
  /\ send' = WakeSender
  /\ hand' = NULL
  /\ recv' = "top"
  /\ UNCHANGED <<unsent, mq, read_head, mutex, shouldQuit, active_count,
                 idle_seconds, message, handled, main>>

RecvQuit ==
  /\ Alive
  /\ recv = "locking"
  /\ mutex = "none"
  /\ shouldQuit
  /\ hand' = NULL
  /\ recv' = "exited"
  /\ UNCHANGED <<unsent, mq, ringvars, mutex, shouldQuit, active_count,
                 idle_seconds, sendvars, main>>

RecvSpurious ==
  /\ Alive
  /\ recv = "asleep"
  /\ recv' = "locking"
  /\ UNCHANGED <<unsent, mq, ringvars, mutex, shouldQuit, active_count, hand,
                 idle_seconds, sendvars, main>>

-----------------------------------------------------------------------------
(* func_send.                                                              *)
SendTop ==
  /\ Alive
  /\ send = "top"
  /\ send' = IF shouldQuit THEN "exited" ELSE "locking"
  /\ UNCHANGED <<unsent, mq, ringvars, mutex, shouldQuit, active_count, recvvars,
                 message, handled, main>>

SendLock ==
  /\ Alive
  /\ send = "locking"
  /\ mutex = "none"
  /\ mutex' = "send"
  /\ send' = "testing"
  /\ UNCHANGED <<unsent, mq, ringvars, shouldQuit, active_count, recvvars,
                 message, handled, main>>

(* The condition holds, pthread_cond_wait comes next.                      *)
SendDoze ==
  /\ Alive
  /\ send = "testing"
  /\ share_buff[read_head] = NULL /\ ~shouldQuit
  /\ send' = "dozing"
  /\ UNCHANGED <<unsent, mq, ringvars, mutex, shouldQuit, active_count,
                 recvvars, message, handled, main>>

SendSleep ==
  /\ Alive
  /\ send = "dozing"
  /\ mutex' = "none"
  /\ send' = "asleep"
  /\ UNCHANGED <<unsent, mq, ringvars, shouldQuit, active_count, recvvars,
                 message, handled, main>>

SendSpurious ==
  /\ Alive
  /\ send = "asleep"
  /\ send' = "locking"
  /\ UNCHANGED <<unsent, mq, ringvars, mutex, shouldQuit, active_count,
                 recvvars, message, handled, main>>

(* pthread_cond_broadcast(&bufferCanBeFilled).  (Mutant: it is forgotten.) *)
WakeReceiver_Forgotten == recv

WakeReceiver == IF recv = "asleep" THEN "locking" ELSE recv

(* The entry is taken, empty or not, and read_head moves on.  A message    *)
(* taken when the server quits is destroyed here, and once more after the  *)
(* unlock.                                                                 *)
SendTake ==
  /\ Alive
  /\ send = "testing"
  /\ share_buff[read_head] # NULL \/ shouldQuit
  /\ message' = share_buff[read_head]
  /\ share_buff' = [share_buff EXCEPT ![read_head] = NULL]
  /\ read_head' = Succ(read_head)
  /\ recv' = WakeReceiver
  /\ mutex' = "none"
  /\ send' = IF message' # NULL /\ shouldQuit THEN "aborted" ELSE "taken"
  /\ UNCHANGED <<unsent, mq, write_head, shouldQuit, active_count, hand,
                 idle_seconds, handled, main>>

SendCheck ==
  /\ Alive
  /\ send = "taken"
  /\ IF shouldQuit
     THEN send' = "exited" /\ message' = NULL
     ELSE send' = "handling" /\ UNCHANGED message
  /\ UNCHANGED <<unsent, mq, ringvars, mutex, shouldQuit, active_count,
                 recvvars, handled, main>>

(* The switch over message_type.  Of its effects only that on the          *)
(* connection table reaches func_receive.                                  *)
Handle ==
  /\ Alive
  /\ send = "handling"
  /\ active_count' = IF message \in Connect THEN active_count + 1
                                            ELSE active_count
  /\ handled' = handled \cup {message}
  /\ message' = NULL
  /\ send' = "top"
  /\ UNCHANGED <<unsent, mq, ringvars, mutex, shouldQuit, recvvars, main>>

-----------------------------------------------------------------------------
(* main.                                                                   *)
JoinReceive ==
  /\ Alive
  /\ main = "joining_receive" /\ recv = "exited"
  /\ main' = "broadcasting"
  /\ UNCHANGED <<unsent, mq, ringvars, mutex, shouldQuit, active_count,
                 recvvars, sendvars>>

(* (Mutant: main joins func_send without waking it.)                       *)
WakeToQuit_Forgotten == send

WakeToQuit == WakeSender

BroadcastHasItems ==
  /\ Alive
  /\ main = "broadcasting"
  /\ main' = "joining_send"
  /\ send' = WakeToQuit
  /\ UNCHANGED <<unsent, mq, ringvars, mutex, shouldQuit, active_count,
                 recvvars, message, handled>>

(* main removes the queue, with what clients still sent, and returns.      *)
JoinSend ==
  /\ Alive
  /\ main = "joining_send" /\ send = "exited"
  /\ main' = "exited"
  /\ mq' = <<>>
  /\ UNCHANGED <<unsent, ringvars, mutex, shouldQuit, active_count, recvvars,
                 sendvars>>

RecvStep == RecvTop \/ Receive \/ Timeout \/ Interrupted
            \/ RecvWait \/ RecvPut \/ RecvQuit

SendStep == SendTop \/ SendLock \/ SendDoze \/ SendSleep \/ SendTake
            \/ SendCheck \/ Handle

MainStep == JoinReceive \/ BroadcastHasItems \/ JoinSend

Next ==
  \/ \E m \in Msg : ClientSend(m)
  \/ TerminateHandler
  \/ RecvStep \/ RecvSpurious
  \/ SendStep \/ SendSpurious
  \/ MainStep

Safety == Init /\ [][Next]_mrvars

(* The kernel runs every thread that can run.  func_send may take and      *)
(* release mutex_message for ever (a condition wait may wake spuriously),  *)
(* so func_receive gets strong fairness: who finds a mutex free again and  *)
(* again obtains it.                                                       *)
Fairness == SF_mrvars(RecvStep) /\ WF_mrvars(SendStep) /\ WF_mrvars(MainStep)

Spec == Safety /\ Fairness

-----------------------------------------------------------------------------
(* Every variable stays in its type.                                       *)
TypeOK ==
  /\ unsent \subseteq Msg
  /\ mq \in Seq(Msg)
  /\ share_buff \in [Index -> Msg \cup {NULL}]
  /\ read_head \in Index /\ write_head \in Index
  /\ mutex \in {"none", "send"}
  /\ shouldQuit \in BOOLEAN
  /\ active_count \in Nat
  /\ recv \in RecvPlace /\ send \in SendPlace /\ main \in MainPlace
  /\ hand \in Msg \cup {NULL} /\ message \in Msg \cup {NULL}
  /\ idle_seconds \in 0 .. IdleLimit
  /\ handled \subseteq Msg

(* Until the server quits, a thread asleep has nothing to do: func_receive *)
(* sleeps only on a full ring and func_send only on an empty one, so that  *)
(* no broadcast came before its wait.                                      *)
NoMissedWakeup ==
  ~shouldQuit =>
    /\ recv = "asleep" => \A i \in Index : share_buff[i] # NULL
    /\ send \in {"dozing", "asleep"} => \A i \in Index : share_buff[i] = NULL

(* How many messages are in the ring: they fill the entries from read_head *)
(* up to write_head, around the end of the array.                          *)
InRing ==
  IF share_buff[read_head] = NULL THEN 0
  ELSE IF read_head < write_head THEN write_head - read_head
  ELSE BUFF_SIZE - read_head + write_head

(* The next one to be taken is the first one.                              *)
RingSeq == [k \in 1 .. InRing |-> share_buff[(read_head + k - 1) % BUFF_SIZE]]

InHand == IF hand = NULL THEN <<>> ELSE <<hand>>

(* Messages wait in the ring, in the hand of func_receive and in the queue,*)
(* in that order.                                                          *)
Waiting == IF main = "exited" THEN <<>> ELSE RingSeq \o InHand \o mq

Handling == IF send \in {"taken", "handling"} THEN message ELSE NULL

MQ == INSTANCE MessageQueue WITH
        Idle <- NULL, queue <- Waiting, handling <- Handling,
        quitting <- shouldQuit

(* Whatever the two threads interleave, the ring implements the message    *)
(* queue: until the server is told to quit nothing but what is no message  *)
(* is lost, and also while it ends nothing is duplicated or overtakes.     *)
ImplementsMessageQueue == MQ!Spec

(* What a client has sent is handled, unless it was no message, the server *)
(* quits, or func_receive has left with it still in the queue.             *)
EventuallyHandled ==
  \A m \in Msg \ Malformed :
    m \notin unsent ~> \/ m \in handled \/ shouldQuit
                       \/ recv = "exited" /\ \E i \in DOMAIN mq : mq[i] = m

(* scenario_bootstrap/main.c:220, "Stopping server...": once shouldQuit is *)
(* set the server ends (if a message is taken meanwhile, of the second free*)
(* of it).  Three cases apart: main broadcasts while func_send is between  *)
(* its test and its wait; func_send leaves its loop while func_receive     *)
(* waits for room, which nobody else makes; or func_receive has left on an *)
(* error before, and main has broadcast too early.                         *)
ServerEnds ==
  \/ <>(main = "broadcasting" /\ send = "dozing")
  \/ <>(recv = "asleep" /\ send = "exited")
  \/ <>(recv = "exited" /\ ~shouldQuit)
  \/ shouldQuit ~> ~Alive
=============================================================================
