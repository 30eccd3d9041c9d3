------------------------------ MODULE Sessions ------------------------------
(***************************************************************************)
(* Clients, the queues between them and the server, and what the server    *)
(* knows of its clients: the connection table of server/mq_manager.c.  It  *)
(* is about who waits for what, and about servers that stop and start.     *)
(*                                                                         *)
(* The server's half is coarse: MessageRing implements one queue from      *)
(* which messages are handled in order, ResourceManager gives the answers  *)
(* and FileLock runs a batch, which is joined before the next message.     *)
(* Every client has a pid of its own.                                      *)
(***************************************************************************)
EXTENDS Integers, Sequences, FiniteSets

CONSTANTS
  Client,        \* client processes, by pid
  Size,          \* maximumClients of the configuration
  Capacity,      \* room for messages: the server's queue and its ring
  RingSize,      \* how many of them are in the server's memory
  RW_BUFF_SIZE,
  MaxRequests,   \* bound: the requests of each client
  MaxStarts,     \* bound: how often the server is started
  NULL

ASSUME SizeAssumption == Size \in Nat \ {0}
ASSUME BoundsAssumption ==
  /\ Capacity \in Nat \ {0} /\ RingSize \in Nat /\ RW_BUFF_SIZE \in Nat \ {0}
  /\ MaxRequests \in [Client -> Nat] /\ MaxStarts \in Nat \ {0}
ASSUME NullAssumption == NULL \notin Client

VARIABLES
  server,        \* "up", "crashed" or "ended"
  starts,        \* how often it was started
  own_queue,     \* whether mq_open found no queue of an earlier server
  named,         \* whether there is a queue SERVER_QUEUE_NAME to be opened
  mq,            \* messages for the server, sent and not handled yet
  queues,        \* the connection table
  active_count,
  batch,         \* read_write_buff: file requests that wait for a full batch
  pc,            \* where each client is
  todo,          \* requests it still has to make
  attached,      \* clients with a descriptor of mq
  inbox,         \* /needy_client_mq_<pid>
  overlong       \* history: clients with a question, or an answer to it, that
                 \* mq_send has refused

servervars == <<server, starts, own_queue, named>>
tablevars == <<queues, active_count>>
clientvars == <<pc, todo, attached>>
vars == <<servervars, mq, tablevars, batch, clientvars, inbox, overlong>>

Slot == 0 .. Size - 1

Request == {"CLIENT_CONNECTION_REQUEST", "RESOURCE_REQUEST", "READ_REQUEST",
            "WRITE_REQUEST", "CLIENT_FINALIZE"}

(* The answers: their message type, and whether their code lets the client *)
(* go on.                                                                  *)
Answer == [type : {"SERVER_ACK", "RESOURCE_RESPONSE", "FILE_RESPONSE"},
           ok : BOOLEAN]

Place == {"off", "connecting", "acking", "ready", "awaiting", "reading",
          "ended", "dead"}

NoConnections == [i \in Slot |-> NULL]

Init ==
  /\ server = "up" /\ starts = 1 /\ own_queue = TRUE /\ named = TRUE
  /\ mq = <<>>
  /\ queues = NoConnections /\ active_count = 0
  /\ batch = <<>>
  /\ pc = [c \in Client |-> "off"]
  /\ todo = [c \in Client |-> 0]
  /\ attached = {}
  /\ inbox = [c \in Client |-> <<>>]
  /\ overlong = {}

-----------------------------------------------------------------------------
(* Clients.                                                                *)

Goto(c, place) == pc' = [pc EXCEPT ![c] = place]

(* A process that is gone has no requests to make and no descriptors.      *)
Exit(c, place) ==
  /\ Goto(c, place)
  /\ todo' = [todo EXCEPT ![c] = 0]
  /\ attached' = attached \ {c}

(* mq_send blocks while the queue is full.  A queue that was unlinked has  *)
(* no reader: what is sent to it is lost.                                  *)
Sent(c, type) ==
  /\ IF c \in attached
     THEN Len(mq) < Capacity /\ mq' = Append(mq, [type |-> type, pid |-> c])
     ELSE mq' = mq
  /\ UNCHANGED overlong

(* A message of more than MAX_MSG_SIZE bytes is refused, and send_message  *)
(* returns as if it were sent.                                             *)
Refused(c, type) ==
  /\ overlong' = IF type = "WRITE_REQUEST" THEN overlong ELSE overlong \cup {c}
  /\ mq' = mq

Send(c, type) == Sent(c, type) \/ Refused(c, type)

(* The client makes its own queue and opens the server's, if there is one. *)
Start(c) ==
  /\ pc[c] = "off"
  /\ IF ~named
     THEN Exit(c, "ended")
     ELSE /\ Goto(c, "connecting")
          /\ \E n \in 0 .. MaxRequests[c] : todo' = [todo EXCEPT ![c] = n]
          /\ attached' = attached \cup {c}
  /\ UNCHANGED <<servervars, mq, tablevars, batch, inbox, overlong>>

Connect(c) ==
  /\ pc[c] = "connecting"
  /\ Sent(c, "CLIENT_CONNECTION_REQUEST")
  /\ Goto(c, "acking")
  /\ UNCHANGED <<servervars, tablevars, batch, todo, attached, inbox>>

(* A client takes the next message in its queue for the answer it waits    *)
(* for, of whatever type it is.                                            *)
Received(c) == Head(inbox[c])

Take(c) ==
  /\ inbox[c] # <<>>
  /\ inbox' = [inbox EXCEPT ![c] = Tail(@)]

(* A queue takes no more than MAX_MSG_SIZE bytes, the size of the buffer,  *)
(* and all answers are serialized messages: that mq_receive fails, or that *)
(* what it gives is no message, is not met.                                *)
(*                                                                         *)
(* Only an accepted client goes on.  (Mutant: it does not look at the code *)
(* of the answer.)                                                         *)
GoesOn_Always(ack) == TRUE

GoesOn(ack) == ack.ok

Acked(c) ==
  /\ pc[c] = "acking"
  /\ Take(c)
  /\ IF GoesOn(Received(c))
     THEN Goto(c, "ready") /\ UNCHANGED <<todo, attached>>
     ELSE Exit(c, "ended")
  /\ UNCHANGED <<servervars, mq, tablevars, batch, overlong>>

(* Where a client goes from a request: it waits for the answer to a read,  *)
(* and for none to a write.  (Mutant: it does not wait for a read.)        *)
AfterRequest_NoWait(type) ==
  IF type = "RESOURCE_REQUEST" THEN "awaiting" ELSE "ready"

AfterRequest(type) ==
  CASE type = "RESOURCE_REQUEST" -> "awaiting"
    [] type = "READ_REQUEST" -> "reading"
    [] type = "WRITE_REQUEST" -> "ready"

Ask(c) ==
  /\ pc[c] = "ready"
  /\ todo[c] > 0
  /\ todo' = [todo EXCEPT ![c] = @ - 1]
  /\ \E type \in {"RESOURCE_REQUEST", "READ_REQUEST", "WRITE_REQUEST"} :
       Send(c, type) /\ Goto(c, AfterRequest(type))
  /\ UNCHANGED <<servervars, tablevars, batch, attached, inbox>>

(* An answer that is neither OK nor MAX_RESOURCE_NEED_REGISTERED is the    *)
(* last one the client asks for.                                           *)
Answered(c) ==
  /\ pc[c] \in {"awaiting", "reading"}
  /\ Take(c)
  /\ Goto(c, "ready")
  /\ todo' = [todo EXCEPT ![c] =
                IF pc[c] = "awaiting" /\ ~Received(c).ok THEN 0 ELSE @]
  /\ UNCHANGED <<servervars, mq, tablevars, batch, attached, overlong>>

Finalize(c) ==
  /\ pc[c] = "ready"
  /\ todo[c] = 0
  /\ Sent(c, "CLIENT_FINALIZE")
  /\ Exit(c, "ended")
  /\ UNCHANGED <<servervars, tablevars, batch, inbox>>

(* A client that is killed, exits on a bad request file or is aborted by   *)
(* its second free of a request vector leaves its queue behind.            *)
Die(c) ==
  /\ pc[c] \notin {"off", "ended", "dead"}
  /\ Exit(c, "dead")
  /\ UNCHANGED <<servervars, mq, tablevars, batch, inbox, overlong>>

-----------------------------------------------------------------------------
(* The server.                                                             *)

(* findByPid reads the pid of every entry up to the one it looks for.      *)
(* (Mutant: it does not look at the last one.)                             *)
FindByPid_StopsEarly(c) ==
  IF \E i \in Slot \ {Size - 1} :
       queues[i] = c /\ \A j \in 0 .. i : queues[j] # NULL
  THEN "found"
  ELSE IF \E i \in Slot \ {Size - 1} : queues[i] = NULL THEN "fault" ELSE "none"

FindByPid(c) ==
  IF \E i \in Slot : queues[i] = c /\ \A j \in 0 .. i : queues[j] # NULL
  THEN "found"
  ELSE IF \E i \in Slot : queues[i] = NULL THEN "fault" ELSE "none"

(* to[c] answers to each client c, none of them too long to be sent: one to*)
(* an unknown client is dropped.                                           *)
Deliver(to, answer) ==
  inbox' = [c \in Client |->
              IF FindByPid(c) = "found"
              THEN inbox[c] \o [i \in 1 .. to[c] |-> answer]
              ELSE inbox[c]]

Only(c) == [d \in Client |-> IF d = c THEN 1 ELSE 0]

(* The process is gone, and with it the messages it had in memory; its     *)
(* queue stays.  rest is what it has not taken from the ring.              *)
Fall(rest) ==
  /\ server' = "crashed"
  /\ \E n \in 0 .. RingSize : mq' = SubSeq(rest, n + 1, Len(rest))
  /\ queues' = NoConnections /\ active_count' = 0
  /\ batch' = <<>>
  /\ UNCHANGED <<starts, own_queue, named, clientvars, overlong>>

Handling(type) ==
  /\ server = "up"
  /\ mq # <<>>
  /\ Head(mq).type = type

HasSpace == active_count < Size

(* mq_manager_add takes the first free entry.  (Mutant: any of them.)      *)
IsFree_Any(i) == queues[i] = NULL

IsFree(i) == queues[i] = NULL /\ \A j \in 0 .. i - 1 : queues[j] # NULL

(* client_conn_new may fail and return NULL, which is dereferenced: that is*)
(* one of the reasons for Crash.                                           *)
(*                                                                         *)
(* A client that is refused is told so, too.  (Mutant: it is not.)         *)
AckTo_AcceptedOnly(c) == IF HasSpace THEN {c} ELSE {}

AckTo(c) == {c}

HandleConnect ==
  /\ Handling("CLIENT_CONNECTION_REQUEST")
  /\ LET c == Head(mq).pid IN
       /\ inbox' = [d \in Client |->
                      IF d \in AckTo(c)
                      THEN Append(inbox[d],
                                  [type |-> "SERVER_ACK", ok |-> HasSpace])
                      ELSE inbox[d]]
       /\ IF HasSpace
          THEN /\ \E i \in Slot : IsFree(i) /\ queues' = [queues EXCEPT ![i] = c]
               /\ active_count' = active_count + 1
          ELSE UNCHANGED tablevars
  /\ mq' = Tail(mq)
  /\ UNCHANGED <<servervars, batch, clientvars, overlong>>

(* The answer to a grant has the names of all the files it gives, and their*)
(* number has no bound: it may be refused, and nothing comes instead.      *)
HandleResource ==
  /\ Handling("RESOURCE_REQUEST")
  /\ LET c == Head(mq).pid IN
       IF FindByPid(c) = "fault"
       THEN Fall(Tail(mq)) /\ UNCHANGED inbox
       ELSE /\ \/ /\ \E ok \in BOOLEAN :
                      Deliver(Only(c), [type |-> "RESOURCE_RESPONSE", ok |-> ok])
                 /\ UNCHANGED overlong
               \/ overlong' = overlong \cup {c} /\ UNCHANGED inbox
            /\ mq' = Tail(mq)
            /\ UNCHANGED <<servervars, tablevars, batch, clientvars>>

(* A request with the wrong number of types is refused, freed, and then    *)
(* handled again with what the freed block holds for a pid.  It is that of *)
(* no client, written NULL here: findByPid faults at the first free entry, *)
(* or in a full table finds nothing, and the second answer goes nowhere.   *)
HandleWrongLength ==
  /\ Handling("RESOURCE_REQUEST")
  /\ LET c == Head(mq).pid IN
       /\ FindByPid(c) # "fault"
       /\ Deliver(Only(c), [type |-> "RESOURCE_RESPONSE", ok |-> FALSE])
  /\ IF FindByPid(NULL) = "fault"
     THEN Fall(Tail(mq))
     ELSE /\ mq' = Tail(mq)
          /\ UNCHANGED <<servervars, tablevars, batch, clientvars, overlong>>

(* A full batch is processed at once.  (Mutant: one message later.)        *)
IsFull_Late(b) == Len(b) > RW_BUFF_SIZE

IsFull(b) == Len(b) = RW_BUFF_SIZE

(* How many requests of c among the messages s get an answer: writes get   *)
(* none.  (Mutant: they do.)                                               *)
Reads_All(s, c) == Cardinality({i \in DOMAIN s : s[i].pid = c})

Reads(s, c) ==
  Cardinality({i \in DOMAIN s : s[i].type = "READ_REQUEST" /\ s[i].pid = c})

(* Reads whose answer is not refused are answered.  A batch with a reader  *)
(* that is unknown, or of contents that make no message, brings the server *)
(* down, after any of its other threads.                                   *)
HandleFile ==
  /\ Handling("READ_REQUEST") \/ Handling("WRITE_REQUEST")
  /\ LET full == Append(batch, Head(mq))
         reads == [c \in Client |-> Reads(full, c)]
     IN \/ /\ ~IsFull(full)
           /\ batch' = full
           /\ mq' = Tail(mq)
           /\ UNCHANGED <<servervars, tablevars, clientvars, inbox, overlong>>
        \/ /\ IsFull(full)
           /\ \E sent \in [Client -> 0 .. RW_BUFF_SIZE] :
                /\ \A c \in Client : sent[c] <= reads[c]
                /\ Deliver(sent, [type |-> "FILE_RESPONSE", ok |-> TRUE])
                /\ \/ (\E c \in Client : reads[c] > 0) /\ Fall(Tail(mq))
                   \/ /\ \A c \in Client : reads[c] > 0 => FindByPid(c) # "fault"
                      /\ overlong' =
                           overlong \cup {c \in Client : sent[c] < reads[c]}
                      /\ batch' = <<>>
                      /\ mq' = Tail(mq)
                      /\ UNCHANGED <<servervars, tablevars, clientvars>>

(* The connection stays: nothing removes it.                               *)
HandleFinalize ==
  /\ Handling("CLIENT_FINALIZE")
  /\ mq' = Tail(mq)
  /\ UNCHANGED <<servervars, tablevars, batch, clientvars, inbox, overlong>>

Crash ==
  /\ server = "up"
  /\ Fall(mq)
  /\ UNCHANGED inbox

(* A queue that was unlinked and has no reader any more: clients keep a    *)
(* descriptor of it.                                                       *)
LoseQueue == mq' = <<>> /\ attached' = {}

Quit ==
  /\ server = "up"
  /\ server' = "ended"
  /\ named' = FALSE
  /\ LoseQueue
  /\ queues' = NoConnections /\ active_count' = 0
  /\ batch' = <<>>
  /\ UNCHANGED <<starts, own_queue, pc, todo, inbox, overlong>>

(* mq_open makes a queue if there is none of that name, and keeps what it  *)
(* finds.                                                                  *)
StartServer ==
  /\ server # "up"
  /\ starts < MaxStarts
  /\ own_queue' = ~named
  /\ named' = TRUE
  /\ IF named THEN UNCHANGED <<mq, attached>> ELSE LoseQueue
  /\ server' = "up"
  /\ starts' = starts + 1
  /\ UNCHANGED <<tablevars, batch, pc, todo, inbox, overlong>>

(* A server that cannot open the queue or index its directory removes the  *)
(* queue of that name, whoever made it.  A server that is running goes on, *)
(* with the clients that have opened its queue before.                     *)
FailToStart ==
  /\ starts < MaxStarts
  /\ starts' = starts + 1
  /\ named' = FALSE
  /\ IF server = "up" THEN UNCHANGED <<server, mq, attached>>
                      ELSE server' = "ended" /\ LoseQueue
  /\ UNCHANGED <<own_queue, tablevars, batch, pc, todo, inbox, overlong>>

-----------------------------------------------------------------------------
Handle ==
  HandleConnect \/ HandleResource \/ HandleWrongLength \/ HandleFile
  \/ HandleFinalize

Receives(c) == Acked(c) \/ Answered(c)

ClientStep(c) ==
  Start(c) \/ Connect(c) \/ Receives(c) \/ Ask(c) \/ Finalize(c) \/ Die(c)

Next ==
  \/ \E c \in Client : ClientStep(c)
  \/ Handle \/ Crash \/ Quit \/ StartServer \/ FailToStart

(* The kernel runs the server and the clients that have something to take; *)
(* a handler returns.  Nothing makes a client ask, or a server start.      *)
Fairness == WF_vars(Handle) /\ \A c \in Client : WF_vars(Receives(c))

Spec == Init /\ [][Next]_vars /\ Fairness

-----------------------------------------------------------------------------
Message == [type : Request, pid : Client]

(* Every variable stays in its type.                                       *)
TypeOK ==
  /\ server \in {"up", "crashed", "ended"}
  /\ starts \in 1 .. MaxStarts
  /\ own_queue \in BOOLEAN /\ named \in BOOLEAN
  /\ mq \in Seq(Message) /\ Len(mq) <= Capacity
  /\ queues \in [Slot -> Client \cup {NULL}]
  /\ active_count \in 0 .. Size
  /\ batch \in Seq(Message) /\ Len(batch) < RW_BUFF_SIZE
  /\ pc \in [Client -> Place]
  /\ todo \in [Client -> Nat]
  /\ \A c \in Client : todo[c] <= MaxRequests[c]
  /\ attached \subseteq Client
  /\ inbox \in [Client -> Seq(Answer)]
  /\ overlong \subseteq Client

(* mq_manager_destroy closes the first active_count entries: they are the  *)
(* ones in use, and no client has two of them ("the first, and only,       *)
(* queue", mq_manager.c:34).                                               *)
TableIsDense ==
  /\ \A i \in Slot : queues[i] # NULL <=> i < active_count
  /\ \A i, j \in Slot : queues[i] = queues[j] => i = j \/ queues[i] = NULL

(* Messages of c among s that will be answered.                            *)
Asked(s, c) ==
  Cardinality({i \in DOMAIN s :
    /\ s[i].pid = c
    /\ s[i].type \in {"CLIENT_CONNECTION_REQUEST", "RESOURCE_REQUEST",
                      "READ_REQUEST"}})

UnderWay(c) == Asked(mq, c) + Asked(batch, c) + Len(inbox[c])

(* A client has at most one request or answer under way, and none unless it*)
(* waits for it, whatever servers crash, end and start again: an answer is *)
(* never left over for a later question, and the server, which sends with  *)
(* locks held, never finds the queue of a client full.                     *)
NothingLeftOver ==
  \A c \in Client :
    /\ UnderWay(c) <= 1
    /\ pc[c] \notin {"acking", "awaiting", "reading", "dead"}
         => UnderWay(c) = 0

(* Clients take what comes for the answer they wait for, without a look at *)
(* its type: what comes is that answer.                                    *)
Expected ==
  [acking |-> "SERVER_ACK", awaiting |-> "RESOURCE_RESPONSE",
   reading |-> "FILE_RESPONSE"]

AnswersFit ==
  \A c \in Client :
    pc[c] \in DOMAIN Expected /\ inbox[c] # <<>>
      => Received(c).type = Expected[pc[c]]

(* Of a server that made its queue itself every message for resources or   *)
(* files, in the queue or in the batch, is from a client that findByPid    *)
(* finds: in the lookups for the answers to these messages it meets no free*)
(* entry.  (It is not so in the second lookup of a request with the wrong  *)
(* number of types, which is for a pid that no message has.)               *)
NoStrangers ==
  server = "up" /\ own_queue =>
    /\ \A i \in DOMAIN mq :
         mq[i].type = "CLIENT_CONNECTION_REQUEST" \/ FindByPid(mq[i].pid) = "found"
    /\ \A i \in DOMAIN batch : FindByPid(batch[i].pid) = "found"

(* A client that waits and is in the table of a running server waits for   *)
(* something: its question is in the queue or in the batch, or the answer  *)
(* is in its own queue, unless the question or the answer was refused for  *)
(* its length.                                                             *)
NobodyForgotten ==
  server = "up" =>
    \A c \in Client \ overlong :
      /\ pc[c] \in {"acking", "awaiting", "reading"}
      /\ \E i \in Slot : queues[i] = c
      => UnderWay(c) = 1

Waits(c) ==
  \E i \in DOMAIN mq :
    /\ mq[i].pid = c
    /\ \/ mq[i].type = "CLIENT_CONNECTION_REQUEST"
       \/ mq[i].type = "RESOURCE_REQUEST" /\ FindByPid(c) = "found"

(* A request for a connection, and one for resources by a client the server*)
(* knows, is answered, also with a refusal, unless the server or the client*)
(* goes down or the answer is too long to be sent.                         *)
AnswersCome ==
  \A c \in Client :
    Waits(c) ~> \/ pc[c] \notin {"acking", "awaiting"}
                \/ server # "up"
                \/ c \in overlong
=============================================================================
