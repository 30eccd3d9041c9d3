--------------------------- MODULE SessionsProofs ---------------------------
(***************************************************************************)
(* The sessions of server/main.c, server/mq_manager.c and client/main.c for*)
(* any number of clients, any size of the table, of the queue and of a     *)
(* batch, and any bounds: the types, the connection table, and who waits   *)
(* for what.                                                               *)
(*                                                                         *)
(* The proof counts what is under way for each client.  A step of a client *)
(* adds at most the one question it then waits for; a step of the server   *)
(* takes the message at the head of the queue and adds at most one answer  *)
(* for each question it has taken; a server that falls only takes away.    *)
(***************************************************************************)
EXTENDS Sessions, FiniteSetTheorems, SequenceTheorems, TLAPS

(* A message of c that will be answered, where s has them, and whether c   *)
(* is in the connection table.                                             *)
IsAsked(m, c) ==
  /\ m.pid = c
  /\ m.type \in {"CLIENT_CONNECTION_REQUEST", "RESOURCE_REQUEST", "READ_REQUEST"}

Places(s, c) == {i \in DOMAIN s : IsAsked(s[i], c)}

Connected(table, c) == \E i \in Slot : table[i] = c

(* Where a client is whose question, or whose answer, is under way.        *)
AskedAt(type, place) ==
  \/ place = "dead"
  \/ type = "CLIENT_CONNECTION_REQUEST" /\ place = "acking"
  \/ type = "RESOURCE_REQUEST" /\ place = "awaiting"
  \/ type = "READ_REQUEST" /\ place = "reading"

AnsweredAt(type, place) ==
  \/ place = "dead"
  \/ type = "SERVER_ACK" /\ place = "acking"
  \/ type = "RESOURCE_RESPONSE" /\ place = "awaiting"
  \/ type = "FILE_RESPONSE" /\ place = "reading"

(* What is under way for c: at most one thing, and one that fits the place *)
(* where c is.                                                             *)
Owed(c) ==
  /\ UnderWay(c) <= 1
  /\ pc[c] \notin {"acking", "awaiting", "reading", "dead"} => UnderWay(c) = 0
  /\ \A i \in DOMAIN mq : IsAsked(mq[i], c) => AskedAt(mq[i].type, pc[c])
  /\ \A i \in DOMAIN batch : IsAsked(batch[i], c) => AskedAt(batch[i].type, pc[c])
  /\ \A k \in DOMAIN inbox[c] : AnsweredAt(inbox[c][k].type, pc[c])

(* A batch collects requests for files.                                    *)
OnlyFiles ==
  \A i \in DOMAIN batch : batch[i].type \in {"READ_REQUEST", "WRITE_REQUEST"}

(* A client asks for its connection once.                                  *)
Newcomers ==
  /\ \A c \in Client : pc[c] \in {"off", "connecting"} => ~Connected(queues, c)
  /\ \A i \in DOMAIN mq :
       mq[i].type = "CLIENT_CONNECTION_REQUEST" => ~Connected(queues, mq[i].pid)

(* Whoever can send to a server that made its queue itself, and has been   *)
(* accepted, was accepted by this server.                                  *)
Known ==
  server = "up" /\ own_queue =>
    /\ \A i \in DOMAIN mq :
         mq[i].type # "CLIENT_CONNECTION_REQUEST" => Connected(queues, mq[i].pid)
    /\ \A i \in DOMAIN batch : Connected(queues, batch[i].pid)
    /\ \A c \in attached :
         /\ pc[c] \in {"ready", "awaiting", "reading"} => Connected(queues, c)
         /\ pc[c] = "acking" =>
              \A k \in DOMAIN inbox[c] : inbox[c][k].ok => Connected(queues, c)

(* A server that is down has no batch.                                     *)
Idle == server # "up" => batch = <<>>

(* Where a client is that has been accepted, or still may be.              *)
Present == {"acking", "ready", "awaiting", "reading"}

(* A server that is down knows nobody; whom a server knows, or has a       *)
(* connection request of, has a descriptor of its queue; and whoever waits *)
(* for a server that knows him has something under way.                    *)
Attended ==
  /\ server # "up" => \A c \in Client : ~Connected(queues, c)
  /\ \A c \in Client : Connected(queues, c) /\ pc[c] \in Present => c \in attached
  /\ \A i \in DOMAIN mq :
       mq[i].type = "CLIENT_CONNECTION_REQUEST" /\ pc[mq[i].pid] \in Present
         => mq[i].pid \in attached
  /\ \A c \in Client \ overlong :
       Connected(queues, c) /\ pc[c] \in {"acking", "awaiting", "reading"}
         => UnderWay(c) # 0

(* The inductive invariant.                                                *)
IInv ==
  /\ TypeOK /\ TableIsDense /\ OnlyFiles /\ Newcomers /\ Known /\ Idle
  /\ \A c \in Client : Owed(c)

-----------------------------------------------------------------------------
(* The questions of a client are finitely many.                            *)
LEMMA AskedNat ==
  ASSUME NEW s \in Seq(Message), NEW c
  PROVE  /\ Asked(s, c) = Cardinality(Places(s, c))
         /\ Asked(s, c) \in Nat /\ IsFiniteSet(Places(s, c))
         /\ Asked(s, c) = 0 <=> \A i \in DOMAIN s : ~IsAsked(s[i], c)
<1>1. Asked(s, c) = Cardinality(Places(s, c))
  BY Zenon DEF Asked, Places, IsAsked
<1>2. Len(s) \in Int /\ DOMAIN s = 1 .. Len(s)
  BY LenProperties
<1>3. IsFiniteSet(DOMAIN s)
  BY <1>2, FS_Interval, SMT
<1>4. IsFiniteSet(Places(s, c))
  BY <1>3, FS_Subset DEF Places
<1>5. Cardinality(Places(s, c)) = 0 <=> Places(s, c) = {}
  BY <1>4, FS_EmptySet
<1> QED
  BY <1>1, <1>4, <1>5, FS_CardinalityType DEF Places

(* Messages come from clients.                                             *)
LEMMA PidsAreClients ==
  ASSUME NEW s \in Seq(Message)
  PROVE  \A i \in DOMAIN s : s[i].pid \in Client
<1>1. \A i \in DOMAIN s : s[i] \in Message
  BY ElementOfSeq, LenProperties
<1> QED
  BY <1>1 DEF Message

(* An empty queue has no questions.                                        *)
LEMMA AskedEmpty == \A c : Asked(<<>>, c) = 0
<1> TAKE c
<1>1. <<>> \in Seq(Message) /\ DOMAIN <<>> = {}
  OBVIOUS
<1> QED
  BY <1>1, AskedNat

(* One more message is one more question, or none.                         *)
LEMMA AskedAppend ==
  ASSUME NEW s \in Seq(Message), NEW m \in Message, NEW c
  PROVE  Asked(Append(s, m), c) = Asked(s, c) + IF IsAsked(m, c) THEN 1 ELSE 0
<1> DEFINE t == Append(s, m)
           n == Len(s)
<1>1. /\ t \in Seq(Message) /\ n \in Nat /\ DOMAIN s = 1 .. n
      /\ DOMAIN t = 1 .. n + 1 /\ t[n + 1] = m
      /\ \A i \in 1 .. n : t[i] = s[i]
  BY AppendProperties, LenProperties
<1>2. n + 1 \notin Places(s, c)
  BY <1>1 DEF Places
<1>3. Places(t, c) = IF IsAsked(m, c) THEN Places(s, c) \cup {n + 1} ELSE Places(s, c)
  BY <1>1 DEF Places
<1>4. Cardinality(Places(s, c) \cup {n + 1}) = Cardinality(Places(s, c)) + 1
  BY <1>2, AskedNat, FS_AddElement
<1>5. /\ Asked(t, c) = Cardinality(Places(t, c))
      /\ Asked(s, c) = Cardinality(Places(s, c)) /\ Asked(s, c) \in Nat
  BY <1>1, AskedNat
<1>6. CASE IsAsked(m, c)
  BY <1>3, <1>4, <1>5, <1>6
<1>7. CASE ~IsAsked(m, c)
  BY <1>3, <1>5, <1>7
<1> QED
  BY <1>6, <1>7

(* A suffix has no more of them.                                           *)
LEMMA AskedShift ==
  ASSUME NEW s \in Seq(Message), NEW t \in Seq(Message), NEW c, NEW k \in Nat,
         Len(t) + k <= Len(s),
         \A i \in 1 .. Len(t) : t[i] = s[i + k]
  PROVE  Asked(t, c) <= Asked(s, c)
<1> DEFINE f == [i \in Places(t, c) |-> i + k]
<1>1. /\ DOMAIN s = 1 .. Len(s) /\ DOMAIN t = 1 .. Len(t)
      /\ Len(s) \in Nat /\ Len(t) \in Nat
  BY LenProperties
<1>2. \A i \in Places(t, c) : i \in Nat /\ i + k \in Places(s, c)
  BY <1>1 DEF Places
<1>3. f \in Injection(Places(t, c), Places(s, c))
  BY <1>2 DEF Injection, IsInjective
<1>4. IsFiniteSet(Places(s, c))
  BY AskedNat
<1>5. Cardinality(Places(t, c)) <= Cardinality(Places(s, c))
  BY <1>3, <1>4, FS_Injection
<1> QED
  BY <1>5, AskedNat

(* A message that is taken leaves the other questions.                     *)
LEMMA AskedTail ==
  ASSUME NEW s \in Seq(Message), s # <<>>, NEW c
  PROVE  Asked(s, c) = Asked(Tail(s), c) + IF IsAsked(Head(s), c) THEN 1 ELSE 0
<1> DEFINE t == Tail(s)
           f == [i \in Places(t, c) |-> i + 1]
<1>1. /\ t \in Seq(Message) /\ Len(s) \in Nat /\ Len(t) = Len(s) - 1
      /\ DOMAIN s = 1 .. Len(s) /\ DOMAIN t = 1 .. Len(t)
      /\ \A i \in 1 .. Len(t) : t[i] = s[i + 1]
      /\ Len(s) > 0 /\ Head(s) = s[1]
  BY HeadTailProperties, LenProperties, EmptySeq
<1>2. \A i \in Places(t, c) : i \in Nat /\ i + 1 \in Places(s, c) \ {1}
  BY <1>1 DEF Places
<1>3. \A j \in Places(s, c) \ {1} : j - 1 \in Places(t, c)
  BY <1>1 DEF Places
<1>4. f \in Bijection(Places(t, c), Places(s, c) \ {1})
  <2>1. \A a, b \in Places(t, c) : f[a] = f[b] => a = b
    BY <1>2
  <2>2. \A j \in Places(s, c) \ {1} : j \in Int
    BY <1>1 DEF Places
  <2>3. \A j \in Places(s, c) \ {1} : f[j - 1] = j
    BY <1>3, <2>2
  <2>4. f \in [Places(t, c) -> Places(s, c) \ {1}]
    BY <1>2
  <2> QED
    BY <1>3, <2>1, <2>3, <2>4 DEF Bijection, Injection, Surjection, IsInjective
<1>5. IsFiniteSet(Places(t, c)) /\ IsFiniteSet(Places(s, c))
  BY <1>1, AskedNat
<1>6. Cardinality(Places(s, c) \ {1}) = Cardinality(Places(t, c))
  BY <1>4, <1>5, FS_Bijection DEF ExistsBijection
<1>7. Cardinality(Places(s, c) \ {1}) =
        IF 1 \in Places(s, c) THEN Cardinality(Places(s, c)) - 1
                              ELSE Cardinality(Places(s, c))
  BY <1>5, FS_RemoveElement
<1>8. 1 \in Places(s, c) <=> IsAsked(Head(s), c)
  BY <1>1 DEF Places
<1>9. /\ Asked(t, c) = Cardinality(Places(t, c))
      /\ Asked(s, c) = Cardinality(Places(s, c)) /\ Asked(s, c) \in Nat
  BY <1>1, AskedNat
<1>10. CASE IsAsked(Head(s), c)
  BY <1>6, <1>7, <1>8, <1>9, <1>10
<1>11. CASE ~IsAsked(Head(s), c)
  BY <1>6, <1>7, <1>8, <1>9, <1>11
<1> QED
  BY <1>10, <1>11
-----------------------------------------------------------------------------
(* What the helpers of the actions do.                                     *)
LEMMA TailGives ==
  ASSUME TypeOK, mq # <<>>
  PROVE  /\ Head(mq) \in Message /\ Tail(mq) \in Seq(Message)
         /\ Len(Tail(mq)) <= Capacity
         /\ 1 \in DOMAIN mq /\ Head(mq) = mq[1]
         /\ \A i \in DOMAIN Tail(mq) : \E j \in DOMAIN mq : Tail(mq)[i] = mq[j]
         /\ \A c : Asked(mq, c) =
                     Asked(Tail(mq), c) + IF IsAsked(Head(mq), c) THEN 1 ELSE 0
<1>1. mq \in Seq(Message) /\ Len(mq) <= Capacity /\ Capacity \in Nat
  BY BoundsAssumption DEF TypeOK
<1>2. /\ Head(mq) \in Message /\ Tail(mq) \in Seq(Message)
      /\ Len(Tail(mq)) = Len(mq) - 1 /\ Len(mq) \in Nat /\ Len(mq) > 0
      /\ \A i \in 1 .. Len(Tail(mq)) : Tail(mq)[i] = mq[i + 1]
      /\ DOMAIN mq = 1 .. Len(mq) /\ DOMAIN Tail(mq) = 1 .. Len(Tail(mq))
      /\ Head(mq) = mq[1]
  BY <1>1, HeadTailProperties, LenProperties, EmptySeq
<1>3. \A i \in DOMAIN Tail(mq) : i + 1 \in DOMAIN mq /\ Tail(mq)[i] = mq[i + 1]
  BY <1>2
<1> QED
  BY <1>1, <1>2, <1>3, AskedTail

(* What a server that falls leaves of a sequence was in it before.         *)
LEMMA SuffixGives ==
  ASSUME NEW s \in Seq(Message), NEW t \in Seq(Message), NEW n \in Nat,
         Len(t) = IF n + 1 <= Len(s) THEN Len(s) - n ELSE 0,
         \A i \in 1 .. Len(s) - n : t[i] = s[n + i]
  PROVE  /\ Len(t) <= Len(s)
         /\ \A i \in DOMAIN t : \E j \in DOMAIN s : t[i] = s[j]
         /\ \A c : Asked(t, c) <= Asked(s, c)
<1>1. Len(s) \in Nat /\ DOMAIN s = 1 .. Len(s)
  BY LenProperties
<1>4. DOMAIN t = 1 .. Len(t)
  BY LenProperties
<1>2. Len(t) <= Len(s)
  <2>1. Len(s) \in Nat /\ Len(t) \in Nat /\ Len(t) \in {Len(s) - n, 0}
    BY LenProperties
  <2> QED
    BY <2>1
<1>5. CASE n + 1 <= Len(s)
  <2>1. Len(t) + n <= Len(s) /\ \A i \in 1 .. Len(t) : i + n \in 1 .. Len(s) /\ t[i] = s[i + n]
    BY <1>1, <1>5
  <2>2. \A c : Asked(t, c) <= Asked(s, c)
    BY <2>1, AskedShift
  <2>3. \A i \in DOMAIN t : i + n \in DOMAIN s /\ t[i] = s[i + n]
    BY <1>1, <1>4, <2>1
  <2> QED
    BY <1>2, <2>2, <2>3
<1>6. CASE ~(n + 1 <= Len(s))
  <2>1. t = <<>>
    BY <1>6, EmptySeq
  <2>2. DOMAIN t = {}
    BY <1>4, <1>6
  <2>3. \A c : Asked(t, c) = 0 /\ Asked(s, c) \in Nat
    BY <2>1, AskedEmpty, AskedNat
  <2>4. \A c : Asked(t, c) <= Asked(s, c)
    BY <2>3
  <2>6. \A i \in DOMAIN t : \E j \in DOMAIN s : t[i] = s[j]
    BY <2>2, Zenon
  <2> QED
    BY <1>2, <2>4, <2>6, Zenon
<1> QED
  BY <1>5, <1>6

(* mq_send adds one message, or nothing if it refuses the message or the   *)
(* queue has no reader.                                                    *)
LEMMA SendGives ==
  ASSUME TypeOK, NEW c \in Client, NEW type \in Request, Send(c, type)
  PROVE  /\ mq' \in Seq(Message) /\ Len(mq') <= Capacity
         /\ \A d : Asked(mq, d) \in Nat /\ Asked(mq', d) \in Nat
                  /\ Asked(mq, d) <= Asked(mq', d)
         /\ \A d : Asked(mq', d) <=
              Asked(mq, d) + IF IsAsked([type |-> type, pid |-> c], d) THEN 1 ELSE 0
         /\ \A i \in DOMAIN mq' :
              \/ \E j \in DOMAIN mq : mq'[i] = mq[j]
              \/ mq'[i] = [type |-> type, pid |-> c] /\ c \in attached
         /\ overlong \subseteq overlong' /\ overlong' \subseteq overlong \cup {c}
         /\ c \in attached /\ IsAsked([type |-> type, pid |-> c], c) =>
              c \in overlong' \/ Asked(mq', c) = Asked(mq, c) + 1
<1> DEFINE m == [type |-> type, pid |-> c]
<1>1. mq \in Seq(Message) /\ Len(mq) <= Capacity /\ Capacity \in Nat /\ m \in Message
  BY BoundsAssumption DEF TypeOK, Message
<1>2. \A d : Asked(mq, d) \in Nat
  BY <1>1, AskedNat
<1>5. overlong \subseteq overlong' /\ overlong' \subseteq overlong \cup {c}
  BY DEF Send, Sent, Refused
<1>3. CASE mq' = mq /\ (c \in attached /\ IsAsked(m, c) => c \in overlong')
  <2>1. \A d : Asked(mq', d) \in Nat /\ Asked(mq, d) <= Asked(mq', d)
    BY <1>2, <1>3
  <2>2. \A d : Asked(mq', d) <= Asked(mq, d) + IF IsAsked(m, d) THEN 1 ELSE 0
    BY <1>2, <1>3
  <2> QED
    BY <1>1, <1>2, <1>3, <1>5, <2>1, <2>2
<1>4. CASE c \in attached /\ Len(mq) < Capacity /\ mq' = Append(mq, m)
  <2>2. /\ mq' \in Seq(Message) /\ Len(mq') = Len(mq) + 1 /\ Len(mq) \in Nat
        /\ DOMAIN mq = 1 .. Len(mq) /\ DOMAIN mq' = 1 .. Len(mq) + 1
        /\ \A i \in 1 .. Len(mq) : mq'[i] = mq[i]
        /\ mq'[Len(mq) + 1] = m
    BY <1>1, <1>4, AppendProperties, LenProperties
  <2>3. \A d : Asked(mq', d) = Asked(mq, d) + IF IsAsked(m, d) THEN 1 ELSE 0
    BY <1>1, <1>4, AskedAppend
  <2>4. \A d : /\ Asked(mq', d) <= Asked(mq, d) + IF IsAsked(m, d) THEN 1 ELSE 0
              /\ Asked(mq', d) \in Nat /\ Asked(mq, d) <= Asked(mq', d)
    <3> TAKE d
    <3>1. CASE IsAsked(m, d)
      BY <1>2, <2>3, <3>1
    <3>2. CASE ~IsAsked(m, d)
      BY <1>2, <2>3, <3>2
    <3> QED
      BY <3>1, <3>2
  <2>5. \A i \in DOMAIN mq' : (\E j \in DOMAIN mq : mq'[i] = mq[j]) \/ mq'[i] = m
    BY <2>2
  <2>6. Len(mq') <= Capacity
    BY <1>1, <1>4, <2>2
  <2>7. IsAsked(m, c) => Asked(mq', c) = Asked(mq, c) + 1
    BY <2>3
  <2> QED
    BY <1>2, <1>4, <1>5, <2>2, <2>4, <2>5, <2>6, <2>7, Zenon
<1>6. CASE Sent(c, type)
  BY <1>3, <1>4, <1>6 DEF Sent
<1>7. CASE Refused(c, type)
  BY <1>3, <1>7 DEF Refused, IsAsked
<1> QED
  BY <1>6, <1>7 DEF Send

(* Only clients that findByPid finds get answers.                          *)
LEMMA DeliverGives ==
  ASSUME TypeOK, NEW to \in [Client -> Nat], NEW answer \in Answer,
         Deliver(to, answer)
  PROVE  /\ inbox' \in [Client -> Seq(Answer)]
         /\ \A c \in Client : Len(inbox'[c]) <= Len(inbox[c]) + to[c]
         /\ \A c \in Client :
              FindByPid(c) = "found" => Len(inbox'[c]) = Len(inbox[c]) + to[c]
         /\ \A c \in Client : \A k \in DOMAIN inbox'[c] :
              \/ \E j \in DOMAIN inbox[c] : inbox'[c][k] = inbox[c][j]
              \/ inbox'[c][k] = answer /\ to[c] > 0 /\ FindByPid(c) = "found"
<1> SUFFICES ASSUME NEW c \in Client
             PROVE  /\ inbox'[c] \in Seq(Answer)
                    /\ Len(inbox'[c]) <= Len(inbox[c]) + to[c]
                    /\ FindByPid(c) = "found" => Len(inbox'[c]) = Len(inbox[c]) + to[c]
                    /\ \A k \in DOMAIN inbox'[c] :
                         \/ \E j \in DOMAIN inbox[c] : inbox'[c][k] = inbox[c][j]
                         \/ inbox'[c][k] = answer /\ to[c] > 0 /\ FindByPid(c) = "found"
  BY DEF Deliver
<1> DEFINE new == [i \in 1 .. to[c] |-> answer]
<1>1. inbox[c] \in Seq(Answer) /\ Len(inbox[c]) \in Nat /\ to[c] \in Nat
      /\ DOMAIN inbox[c] = 1 .. Len(inbox[c])
  BY LenProperties DEF TypeOK
<1>2. CASE FindByPid(c) # "found"
  <2>1. inbox'[c] = inbox[c]
    BY <1>2 DEF Deliver
  <2> QED
    BY <1>1, <1>2, <2>1
<1>3. CASE FindByPid(c) = "found"
  <2>1. inbox'[c] = inbox[c] \o new
    BY <1>3 DEF Deliver
  <2>2. new \in [1 .. to[c] -> Answer]
    OBVIOUS
  <2>3. new \in Seq(Answer) /\ DOMAIN new = 1 .. to[c]
    BY <1>1, <2>2, SeqDef
  <2>4. Len(new) = to[c]
    BY <1>1, <2>3, LenProperties
  <2> HIDE DEF new
  <2>5. /\ inbox'[c] \in Seq(Answer) /\ Len(inbox'[c]) = Len(inbox[c]) + to[c]
        /\ \A k \in 1 .. Len(inbox[c]) + to[c] :
             inbox'[c][k] = IF k <= Len(inbox[c]) THEN inbox[c][k]
                                                  ELSE new[k - Len(inbox[c])]
    <3>1. /\ inbox[c] \o new \in Seq(Answer)
          /\ Len(inbox[c] \o new) = Len(inbox[c]) + Len(new)
          /\ \A k \in 1 .. Len(inbox[c]) + Len(new) :
               (inbox[c] \o new)[k] = IF k <= Len(inbox[c]) THEN inbox[c][k]
                                                           ELSE new[k - Len(inbox[c])]
      BY <1>1, <2>3, ConcatProperties, Zenon
    <3> QED
      BY <2>1, <2>4, <3>1, Zenon
  <2>6. DOMAIN inbox'[c] = 1 .. Len(inbox[c]) + to[c]
    BY <2>5, LenProperties
  <2>7. \A i \in 1 .. to[c] : new[i] = answer
    BY DEF new
  <2>8. ASSUME NEW k \in DOMAIN inbox'[c]
        PROVE  \/ \E j \in DOMAIN inbox[c] : inbox'[c][k] = inbox[c][j]
               \/ inbox'[c][k] = answer /\ to[c] > 0
    <3>1. CASE k <= Len(inbox[c])
      BY <1>1, <2>5, <2>6, <3>1
    <3>2. CASE k > Len(inbox[c])
      <4>1. k - Len(inbox[c]) \in 1 .. to[c] /\ to[c] > 0
        BY <1>1, <2>6, <3>2
      <4>2. inbox'[c][k] = new[k - Len(inbox[c])]
        BY <1>1, <2>5, <2>6, <3>2
      <4> QED
        BY <2>7, <4>1, <4>2, Zenon
    <3> QED
      BY <1>1, <2>6, <3>1, <3>2
  <2> QED
    BY <1>1, <1>3, <2>5, <2>8
<1> QED
  BY <1>2, <1>3
-----------------------------------------------------------------------------
(* The types.                                                              *)
LEMMA TypeInit == Init => TypeOK
<1> SUFFICES ASSUME Init PROVE TypeOK
  OBVIOUS
<1>1. mq \in Seq(Message) /\ batch \in Seq(Message) /\ Len(mq) = 0 /\ Len(batch) = 0
  BY DEF Init
<1>2. queues \in [Slot -> Client \cup {NULL}]
  BY DEF Init, NoConnections
<1>3. inbox \in [Client -> Seq(Answer)]
  BY DEF Init
<1>4. pc \in [Client -> Place] /\ todo \in [Client -> Nat]
  BY DEF Init, Place
<1>5. \A c \in Client : todo[c] <= MaxRequests[c]
  BY BoundsAssumption DEF Init
<1> QED
  BY <1>1, <1>2, <1>3, <1>4, <1>5, SizeAssumption, BoundsAssumption
     DEF Init, TypeOK

(* What a step of a client keeps to.                                       *)
LEMMA TypeClient ==
  ASSUME TypeOK, NEW c \in Client, ClientStep(c)
  PROVE  TypeOK'
<1>1. UNCHANGED <<servervars, tablevars, batch>>
  BY DEF ClientStep, Start, Connect, Receives, Acked, Answered, Ask, Finalize, Die
<1>2. mq' \in Seq(Message) /\ Len(mq') <= Capacity
  <2>1. CASE UNCHANGED mq
    BY <2>1 DEF TypeOK
  <2>2. CASE Connect(c)
    BY <2>2, SendGives DEF Connect, Send, Request
  <2>3. CASE Ask(c)
    <3>1. PICK type \in {"RESOURCE_REQUEST", "READ_REQUEST", "WRITE_REQUEST"} :
            Send(c, type)
      BY <2>3 DEF Ask
    <3> QED
      BY <3>1, SendGives DEF Request
  <2>4. CASE Finalize(c)
    BY <2>4, SendGives DEF Finalize, Send, Request
  <2> QED
    BY <2>1, <2>2, <2>3, <2>4
       DEF ClientStep, Start, Receives, Acked, Answered, Die
<1>3. pc' \in [Client -> Place]
  <2>1. \A place \in Place : Goto(c, place) => pc' \in [Client -> Place]
    BY DEF Goto, TypeOK
  <2>2. \E place \in Place : Goto(c, place)
    BY DEF ClientStep, Start, Connect, Receives, Acked, Answered, Ask, Finalize,
           Die, Exit, AfterRequest, Place
  <2> QED
    BY <2>1, <2>2
<1>4. \E n \in 0 .. MaxRequests[c] : todo' = [todo EXCEPT ![c] = n]
  <2>1. todo \in [Client -> Nat] /\ todo[c] <= MaxRequests[c] /\ MaxRequests[c] \in Nat
    BY BoundsAssumption DEF TypeOK
  <2>2. todo = [todo EXCEPT ![c] = todo[c]]
    BY <2>1
  <2>3. CASE Start(c)
    BY <2>1, <2>3 DEF Start, Exit
  <2>4. CASE Connect(c)
    BY <2>1, <2>2, <2>4 DEF Connect
  <2>5. CASE Acked(c)
    BY <2>1, <2>2, <2>5 DEF Acked, Exit
  <2>6. CASE Answered(c)
    <3>1. \/ todo' = [todo EXCEPT ![c] = 0]
          \/ todo' = [todo EXCEPT ![c] = todo[c]]
      BY <2>6, Zenon DEF Answered
    <3> QED
      BY <2>1, <3>1
  <2>7. CASE Ask(c)
    <3>1. todo' = [todo EXCEPT ![c] = todo[c] - 1] /\ todo[c] > 0
      BY <2>7 DEF Ask
    <3>2. todo[c] - 1 \in 0 .. MaxRequests[c]
      BY <2>1, <3>1
    <3> QED
      BY <3>1, <3>2
  <2>8. CASE Finalize(c) \/ Die(c)
    BY <2>1, <2>8 DEF Finalize, Die, Exit
  <2> QED
    BY <2>3, <2>4, <2>5, <2>6, <2>7, <2>8 DEF ClientStep, Receives
<1>5. todo' \in [Client -> Nat] /\ \A d \in Client : todo'[d] <= MaxRequests[d]
  BY <1>4, BoundsAssumption DEF TypeOK
<1>6. attached' \subseteq Client
  BY DEF ClientStep, Start, Connect, Receives, Acked, Answered, Ask, Finalize,
         Die, Exit, TypeOK
<1>7. inbox' \in [Client -> Seq(Answer)]
  <2>1. CASE UNCHANGED inbox
    BY <2>1 DEF TypeOK
  <2>2. CASE Take(c)
    <3>1. inbox[c] \in Seq(Answer) /\ inbox[c] # <<>>
          /\ inbox' = [inbox EXCEPT ![c] = Tail(inbox[c])]
      BY <2>2 DEF Take, TypeOK
    <3>2. Tail(inbox[c]) \in Seq(Answer)
      BY <3>1, HeadTailProperties
    <3> QED
      BY <3>1, <3>2 DEF TypeOK
  <2> QED
    BY <2>1, <2>2
       DEF ClientStep, Start, Connect, Receives, Acked, Answered, Ask, Finalize, Die
<1>8. overlong' \subseteq Client
  <2>1. CASE UNCHANGED overlong
    BY <2>1 DEF TypeOK
  <2>2. CASE \E type \in Request : Send(c, type)
    BY <2>2, SendGives DEF TypeOK
  <2> QED
    BY <2>1, <2>2
       DEF ClientStep, Start, Connect, Receives, Acked, Answered, Ask, Finalize,
           Die, Sent, Request
<1> QED
  BY <1>1, <1>2, <1>3, <1>5, <1>6, <1>7, <1>8 DEF TypeOK, servervars, tablevars

(* What a fall of the server leaves.                                       *)
LEMMA FallGives ==
  ASSUME TypeOK, NEW rest \in Seq(Message), Len(rest) <= Capacity, Fall(rest)
  PROVE  /\ mq' \in Seq(Message) /\ Len(mq') <= Capacity
         /\ \A i \in DOMAIN mq' : \E j \in DOMAIN rest : mq'[i] = rest[j]
         /\ \A c : Asked(mq', c) <= Asked(rest, c)
         /\ server' = "crashed" /\ queues' = NoConnections /\ active_count' = 0
         /\ batch' = <<>>
         /\ UNCHANGED <<starts, own_queue, named, pc, todo, attached, overlong>>
<1>1. PICK n \in 0 .. RingSize : mq' = SubSeq(rest, n + 1, Len(rest))
  BY DEF Fall
<1>2. n \in Nat
  BY BoundsAssumption
<1>3. /\ mq' \in Seq(Message) /\ Len(mq') <= Len(rest)
      /\ \A i \in DOMAIN mq' : \E j \in DOMAIN rest : mq'[i] = rest[j]
      /\ \A c : Asked(mq', c) <= Asked(rest, c)
  <2> DEFINE t == SubSeq(rest, n + 1, Len(rest))
  <2>1. /\ t \in Seq(Message) /\ Len(t) <= Len(rest)
        /\ \A i \in DOMAIN t : \E j \in DOMAIN rest : t[i] = rest[j]
        /\ \A c : Asked(t, c) <= Asked(rest, c)
    <3>1. Len(rest) \in Nat /\ \A i \in n + 1 .. Len(rest) : rest[i] \in Message
      BY <1>2, LenProperties, ElementOfSeq
    <3>2. /\ t \in Seq(Message)
          /\ Len(t) = IF n + 1 <= Len(rest) THEN Len(rest) - (n + 1) + 1 ELSE 0
          /\ \A i \in 1 .. Len(rest) - (n + 1) + 1 : t[i] = rest[n + 1 + i - 1]
      BY <1>2, <3>1, SubSeqProperties
    <3> HIDE DEF t
    <3>3. /\ Len(t) = IF n + 1 <= Len(rest) THEN Len(rest) - n ELSE 0
          /\ \A i \in 1 .. Len(rest) - n : t[i] = rest[n + i]
      BY <1>2, <3>1, <3>2
    <3> QED
      BY <1>2, <3>2, <3>3, SuffixGives
  <2>2. mq' = t
    BY <1>1
  <2> QED
    BY <2>1, <2>2
<1>4. Len(mq') <= Capacity
  BY <1>3, LenProperties, BoundsAssumption
<1> QED
  BY <1>3, <1>4 DEF Fall, clientvars

(* A handler that goes on, and one that brings the server down.            *)
LEMMA TypeOn ==
  ASSUME TypeOK, UNCHANGED <<servervars, clientvars>>,
         mq' \in Seq(Message), Len(mq') <= Capacity,
         queues' \in [Slot -> Client \cup {NULL}], active_count' \in 0 .. Size,
         batch' \in Seq(Message), Len(batch') < RW_BUFF_SIZE,
         inbox' \in [Client -> Seq(Answer)], overlong' \subseteq Client
  PROVE  TypeOK'
BY DEF TypeOK, servervars, clientvars

(* A fall keeps the types.                                                 *)
LEMMA TypeFall ==
  ASSUME TypeOK, NEW rest \in Seq(Message), Len(rest) <= Capacity, Fall(rest),
         inbox' \in [Client -> Seq(Answer)]
  PROVE  TypeOK'
<1>1. queues' \in [Slot -> Client \cup {NULL}]
  BY FallGives DEF NoConnections
<1>2. batch' \in Seq(Message) /\ Len(batch') = 0
  <2>1. <<>> \in Seq(Message) /\ Len(<<>>) = 0
    OBVIOUS
  <2> QED
    BY <2>1, FallGives, Zenon
<1> QED
  BY <1>1, <1>2, FallGives, SizeAssumption, BoundsAssumption DEF TypeOK

(* What a request for a file becomes.                                      *)
Full == Append(batch, Head(mq))
FileAnswer == [type |-> "FILE_RESPONSE", ok |-> TRUE]
ReadsOf == [c \in Client |-> Reads(Full, c)]

LEMMA FileCases ==
  ASSUME HandleFile
  PROVE  /\ mq # <<>> /\ Head(mq).type \in {"READ_REQUEST", "WRITE_REQUEST"}
         /\ server = "up"
         /\ \/ /\ ~IsFull(Full) /\ batch' = Full /\ mq' = Tail(mq)
               /\ UNCHANGED <<servervars, tablevars, clientvars, inbox, overlong>>
            \/ \E sent \in [Client -> 0 .. RW_BUFF_SIZE] :
                 /\ \A c \in Client : sent[c] <= ReadsOf[c]
                 /\ Deliver(sent, FileAnswer)
                 /\ \/ Fall(Tail(mq))
                    \/ /\ batch' = <<>> /\ mq' = Tail(mq)
                       /\ overlong' =
                            overlong \cup {c \in Client : sent[c] < ReadsOf[c]}
                       /\ UNCHANGED <<servervars, tablevars, clientvars>>
BY Zenon DEF HandleFile, Handling, Full, FileAnswer, ReadsOf

(* What is in a batch with its newest request.                             *)
LEMMA FullGives ==
  ASSUME TypeOK, mq # <<>>
  PROVE  /\ Full \in Seq(Message) /\ Len(Full) = Len(batch) + 1 /\ Len(batch) \in Nat
         /\ \A i \in DOMAIN Full :
              (\E j \in DOMAIN batch : Full[i] = batch[j]) \/ Full[i] = Head(mq)
         /\ \A c : Asked(Full, c) =
                     Asked(batch, c) + IF IsAsked(Head(mq), c) THEN 1 ELSE 0
<1>1. batch \in Seq(Message) /\ Head(mq) \in Message
  BY TailGives DEF TypeOK
<1>2. /\ Full \in Seq(Message) /\ Len(Full) = Len(batch) + 1 /\ Len(batch) \in Nat
      /\ DOMAIN batch = 1 .. Len(batch) /\ DOMAIN Full = 1 .. Len(batch) + 1
      /\ \A i \in 1 .. Len(batch) : Full[i] = batch[i]
      /\ Full[Len(batch) + 1] = Head(mq)
  BY <1>1, AppendProperties, LenProperties DEF Full
<1>3. \A i \in DOMAIN Full :
        (\E j \in DOMAIN batch : Full[i] = batch[j]) \/ Full[i] = Head(mq)
  BY <1>2
<1>4. \A c : Asked(Full, c) = Asked(batch, c) + IF IsAsked(Head(mq), c) THEN 1 ELSE 0
  BY <1>1, AskedAppend, Zenon DEF Full
<1> QED
  BY <1>2, <1>3, <1>4, Zenon

(* Only reads get answers, and each of them is one that is asked for.      *)
LEMMA ReadsGives ==
  ASSUME NEW s \in Seq(Message), NEW c
  PROVE  /\ Reads(s, c) \in Nat /\ Reads(s, c) <= Asked(s, c)
         /\ Reads(s, c) > 0 => \E i \in DOMAIN s : IsAsked(s[i], c) /\ s[i].type = "READ_REQUEST"
<1> DEFINE R == {i \in DOMAIN s : s[i].type = "READ_REQUEST" /\ s[i].pid = c}
<1>1. R \subseteq Places(s, c)
  BY DEF Places, IsAsked
<1>2. IsFiniteSet(R) /\ Cardinality(R) <= Cardinality(Places(s, c))
  BY <1>1, AskedNat, FS_Subset
<1>3. Cardinality(R) \in Nat /\ (Cardinality(R) = 0 <=> R = {})
  BY <1>2, FS_CardinalityType, FS_EmptySet
<1>4. Reads(s, c) = Cardinality(R)
  BY DEF Reads
<1>5. Cardinality(R) > 0 => \E i \in R : TRUE
  BY <1>3
<1> QED
  BY <1>2, <1>3, <1>4, <1>5, AskedNat DEF IsAsked

(* The handlers keep the types.                                            *)
LEMMA TypeHandle ==
  ASSUME TypeOK, Handle
  PROVE  TypeOK'
<1>1. mq # <<>> /\ mq \in Seq(Message)
  BY DEF Handle, HandleConnect, HandleResource, HandleWrongLength, HandleFile,
         HandleFinalize, Handling, TypeOK
<1>2. Head(mq) \in Message /\ Head(mq).pid \in Client
  BY <1>1, TailGives DEF Message
<1>3. Tail(mq) \in Seq(Message) /\ Len(Tail(mq)) <= Capacity
  BY <1>1, TailGives
<1>4. CASE HandleConnect
  <2>1. inbox' \in [Client -> Seq(Answer)]
    <3>1. [type |-> "SERVER_ACK", ok |-> HasSpace] \in Answer
      BY DEF Answer, HasSpace
    <3>2. \A d \in Client : inbox'[d] \in Seq(Answer)
      BY <1>4, <3>1 DEF HandleConnect, TypeOK
    <3> QED
      BY <1>4, <3>2 DEF HandleConnect
  <2>2. queues' \in [Slot -> Client \cup {NULL}] /\ active_count' \in 0 .. Size
    <3>1. CASE HasSpace
      <4>1. PICK i \in Slot : queues' = [queues EXCEPT ![i] = Head(mq).pid]
        BY <1>4, <3>1 DEF HandleConnect
      <4>2. active_count' = active_count + 1
        BY <1>4, <3>1 DEF HandleConnect
      <4> QED
        BY <1>2, <3>1, <4>1, <4>2, SizeAssumption DEF HasSpace, TypeOK
    <3>2. CASE ~HasSpace
      BY <1>4, <3>2 DEF HandleConnect, TypeOK, tablevars
    <3> QED
      BY <3>1, <3>2
  <2> QED
    BY <1>3, <1>4, <2>1, <2>2, TypeOn DEF HandleConnect, TypeOK
<1>5. ASSUME NEW c \in Client, NEW ok \in BOOLEAN,
             Deliver(Only(c), [type |-> "RESOURCE_RESPONSE", ok |-> ok])
      PROVE  inbox' \in [Client -> Seq(Answer)]
  <2>1. Only(c) \in [Client -> Nat]
    BY DEF Only
  <2>2. [type |-> "RESOURCE_RESPONSE", ok |-> ok] \in Answer
    BY DEF Answer
  <2> QED
    BY <1>5, <2>1, <2>2, DeliverGives
<1>6. CASE HandleResource
  <2>1. CASE Fall(Tail(mq)) /\ UNCHANGED inbox
    BY <1>3, <2>1, TypeFall DEF TypeOK
  <2>2. CASE /\ \/ /\ \E ok \in BOOLEAN :
                        Deliver(Only(Head(mq).pid), [type |-> "RESOURCE_RESPONSE", ok |-> ok])
                   /\ UNCHANGED overlong
                \/ overlong' = overlong \cup {Head(mq).pid} /\ UNCHANGED inbox
             /\ mq' = Tail(mq)
             /\ UNCHANGED <<servervars, tablevars, batch, clientvars>>
    <3>1. inbox' \in [Client -> Seq(Answer)] /\ overlong' \subseteq Client
      BY <1>2, <1>5, <2>2 DEF TypeOK
    <3> QED
      BY <1>3, <2>2, <3>1, TypeOn DEF TypeOK, tablevars
  <2> QED
    BY <1>6, <2>1, <2>2, Zenon DEF HandleResource
<1>7. CASE HandleWrongLength
  <2>1. inbox' \in [Client -> Seq(Answer)]
    BY <1>2, <1>5, <1>7 DEF HandleWrongLength
  <2>2. CASE Fall(Tail(mq))
    BY <1>3, <2>1, <2>2, TypeFall
  <2>3. CASE mq' = Tail(mq) /\ UNCHANGED <<servervars, tablevars, batch, clientvars, overlong>>
    BY <1>3, <2>1, <2>3, TypeOn DEF TypeOK, tablevars
  <2> QED
    BY <1>7, <2>2, <2>3 DEF HandleWrongLength
<1>8. CASE HandleFile
  <2>1. FileAnswer \in Answer
    BY DEF Answer, FileAnswer
  <2>2. Full \in Seq(Message) /\ Len(Full) = Len(batch) + 1 /\ Len(batch) \in Nat
    BY <1>1, FullGives
  <2>3. CASE /\ ~IsFull(Full) /\ batch' = Full /\ mq' = Tail(mq)
             /\ UNCHANGED <<servervars, tablevars, clientvars, inbox, overlong>>
    <3>1. Len(batch') < RW_BUFF_SIZE
      BY <2>2, <2>3, BoundsAssumption DEF IsFull, TypeOK
    <3> QED
      BY <1>3, <2>2, <2>3, <3>1, TypeOn DEF TypeOK, tablevars
  <2>4. ASSUME NEW sent \in [Client -> 0 .. RW_BUFF_SIZE], Deliver(sent, FileAnswer),
               \/ Fall(Tail(mq))
               \/ /\ batch' = <<>> /\ mq' = Tail(mq)
                  /\ overlong' = overlong \cup {c \in Client : sent[c] < ReadsOf[c]}
                  /\ UNCHANGED <<servervars, tablevars, clientvars>>
        PROVE  TypeOK'
    <3>1. sent \in [Client -> Nat]
      OBVIOUS
    <3>2. inbox' \in [Client -> Seq(Answer)]
      BY <2>1, <2>4, <3>1, DeliverGives
    <3>3. CASE Fall(Tail(mq))
      BY <1>3, <3>2, <3>3, TypeFall
    <3>4. CASE /\ batch' = <<>> /\ mq' = Tail(mq)
               /\ overlong' = overlong \cup {c \in Client : sent[c] < ReadsOf[c]}
               /\ UNCHANGED <<servervars, tablevars, clientvars>>
      <4>1. batch' \in Seq(Message) /\ Len(batch') < RW_BUFF_SIZE
        BY <3>4, BoundsAssumption
      <4>2. overlong' \subseteq Client
        BY <3>4 DEF TypeOK
      <4> QED
        BY <1>3, <3>2, <3>4, <4>1, <4>2, TypeOn DEF TypeOK, tablevars
    <3> QED
      BY <2>4, <3>3, <3>4
  <2> QED
    BY <1>8, <2>3, <2>4, FileCases
<1>9. CASE HandleFinalize
  BY <1>3, <1>9, TypeOn DEF HandleFinalize, TypeOK, tablevars
<1> QED
  BY <1>4, <1>6, <1>7, <1>8, <1>9 DEF Handle

(* Every step keeps the types.                                             *)
LEMMA TypeNext == TypeOK /\ [Next]_vars => TypeOK'
<1> SUFFICES ASSUME TypeOK, [Next]_vars PROVE TypeOK'
  OBVIOUS
<1>1. CASE \E c \in Client : ClientStep(c)
  BY <1>1, TypeClient
<1>2. CASE Handle
  BY <1>2, TypeHandle
<1>3. CASE Crash
  BY <1>3, TypeFall DEF Crash, TypeOK
<1>4. /\ LoseQueue => mq' \in Seq(Message) /\ Len(mq') <= Capacity
                         /\ attached' \subseteq Client
      /\ UNCHANGED <<mq, attached>> => mq' \in Seq(Message) /\ Len(mq') <= Capacity
                                       /\ attached' \subseteq Client
  <2>1. <<>> \in Seq(Message) /\ Len(<<>>) = 0 /\ 0 <= Capacity
    BY BoundsAssumption
  <2> QED
    BY <2>1 DEF LoseQueue, TypeOK
<1>5. CASE Quit
  <2>1. queues' \in [Slot -> Client \cup {NULL}]
    BY <1>5 DEF Quit, NoConnections
  <2>2. batch' \in Seq(Message) /\ Len(batch') < RW_BUFF_SIZE
    <3>1. <<>> \in Seq(Message) /\ Len(<<>>) = 0 /\ 0 < RW_BUFF_SIZE
      BY BoundsAssumption
    <3> QED
      BY <1>5, <3>1, Zenon DEF Quit
  <2>3. mq' \in Seq(Message) /\ Len(mq') <= Capacity /\ attached' \subseteq Client
    BY <1>4, <1>5 DEF Quit
  <2> QED
    <3>1. /\ server' = "ended" /\ named' = FALSE /\ active_count' = 0
          /\ UNCHANGED <<starts, own_queue, pc, todo, inbox, overlong>>
      BY <1>5 DEF Quit
    <3>2. active_count' \in 0 .. Size
      BY <3>1, SizeAssumption
    <3>3. server' \in {"up", "crashed", "ended"} /\ named' \in BOOLEAN
      BY <3>1
    <3> QED
      BY <2>1, <2>2, <2>3, <3>1, <3>2, <3>3 DEF TypeOK
<1>6. CASE StartServer
  <2>1. own_queue' \in BOOLEAN
    BY <1>6, Zenon DEF StartServer
  <2>2. mq' \in Seq(Message) /\ Len(mq') <= Capacity /\ attached' \subseteq Client
    BY <1>4, <1>6, Zenon DEF StartServer
  <2>3. starts' \in 1 .. MaxStarts
    BY <1>6, BoundsAssumption DEF StartServer, TypeOK
  <2> QED
    BY <1>6, <2>1, <2>2, <2>3 DEF StartServer, TypeOK, tablevars
<1>7. CASE FailToStart
  <2>2. mq' \in Seq(Message) /\ Len(mq') <= Capacity /\ attached' \subseteq Client
    BY <1>4, <1>7 DEF FailToStart
  <2>3. starts' \in 1 .. MaxStarts
    BY <1>7, BoundsAssumption DEF FailToStart, TypeOK
  <2>4. server' \in {"up", "crashed", "ended"}
    BY <1>7 DEF FailToStart, TypeOK
  <2> QED
    BY <1>7, <2>2, <2>3, <2>4 DEF FailToStart, TypeOK, tablevars
<1>8. CASE UNCHANGED vars
  BY <1>8 DEF vars, servervars, tablevars, clientvars, TypeOK
<1> QED
  BY <1>1, <1>2, <1>3, <1>5, <1>6, <1>7, <1>8 DEF Next

-----------------------------------------------------------------------------
(* What is under way, and for whom.                                        *)
LEMMA FoundIff ==
  ASSUME TypeOK, TableIsDense, NEW c \in Client
  PROVE  FindByPid(c) = "found" <=> Connected(queues, c)
<1>1. c # NULL /\ \A i \in Slot : i \in Int
  BY NullAssumption, SizeAssumption DEF Slot
<1>2. ASSUME NEW i \in Slot, queues[i] = c
      PROVE  \A j \in 0 .. i : queues[j] # NULL
  <2>1. i < active_count /\ i \in 0 .. Size - 1
    BY <1>1, <1>2 DEF TableIsDense, Slot
  <2>2. \A j \in 0 .. i : j \in Slot /\ j < active_count
    BY <2>1, SizeAssumption DEF Slot, TypeOK
  <2> QED
    BY <2>2 DEF TableIsDense
<1> QED
  BY <1>2 DEF FindByPid, Connected

(* What is under way is counted in naturals, and if it is none there is no *)
(* question and no answer anywhere.                                        *)
LEMMA UnderWayNat ==
  ASSUME NEW m \in Seq(Message), NEW b \in Seq(Message), NEW x \in Seq(Answer), NEW c
  PROVE  /\ Asked(m, c) \in Nat /\ Asked(b, c) \in Nat /\ Len(x) \in Nat
         /\ Asked(m, c) + Asked(b, c) + Len(x) = 0 =>
              /\ \A i \in DOMAIN m : ~IsAsked(m[i], c)
              /\ \A i \in DOMAIN b : ~IsAsked(b[i], c)
              /\ DOMAIN x = {}
<1>1. /\ Asked(m, c) \in Nat /\ Asked(b, c) \in Nat /\ Len(x) \in Nat
      /\ DOMAIN x = 1 .. Len(x)
  BY AskedNat, LenProperties
<1>2. ASSUME Asked(m, c) + Asked(b, c) + Len(x) = 0
      PROVE  /\ \A i \in DOMAIN m : ~IsAsked(m[i], c)
             /\ \A i \in DOMAIN b : ~IsAsked(b[i], c)
             /\ DOMAIN x = {}
  <2>1. Asked(m, c) = 0 /\ Asked(b, c) = 0 /\ Len(x) = 0
    BY <1>1, <1>2
  <2>2. DOMAIN x = {}
    BY <1>1, <2>1
  <2> QED
    BY <2>1, <2>2, AskedNat
<1> QED
  BY <1>1, <1>2

(* Nothing is under way any more.                                          *)
LEMMA OwedNothing ==
  ASSUME TypeOK', NEW c \in Client, UnderWay(c)' = 0
  PROVE  Owed(c)'
<1>1. /\ \A i \in DOMAIN mq' : ~IsAsked(mq'[i], c)
      /\ \A i \in DOMAIN batch' : ~IsAsked(batch'[i], c)
      /\ DOMAIN inbox'[c] = {}
  BY UnderWayNat DEF TypeOK, UnderWay
<1> QED
  BY <1>1 DEF Owed, IsAsked

(* A client that waits, or does not, where it was: no more is under way.   *)
LEMMA OwedKept ==
  ASSUME TypeOK, TypeOK', NEW c \in Client, Owed(c), pc'[c] = pc[c],
         Asked(mq', c) + Asked(batch', c) + Len(inbox'[c])
           <= Asked(mq, c) + Asked(batch, c) + Len(inbox[c]),
         \A i \in DOMAIN mq' : IsAsked(mq'[i], c) => AskedAt(mq'[i].type, pc[c]),
         \A i \in DOMAIN batch' : IsAsked(batch'[i], c) => AskedAt(batch'[i].type, pc[c]),
         \A k \in DOMAIN inbox'[c] : AnsweredAt(inbox'[c][k].type, pc[c])
  PROVE  Owed(c)'
<1>1. /\ Asked(mq', c) \in Nat /\ Asked(batch', c) \in Nat /\ Len(inbox'[c]) \in Nat
      /\ UnderWay(c)' = Asked(mq', c) + Asked(batch', c) + Len(inbox'[c])
  BY UnderWayNat DEF TypeOK, UnderWay
<1>2. /\ Asked(mq, c) \in Nat /\ Asked(batch, c) \in Nat /\ Len(inbox[c]) \in Nat
      /\ UnderWay(c) = Asked(mq, c) + Asked(batch, c) + Len(inbox[c])
  BY UnderWayNat DEF TypeOK, UnderWay
<1>3. UnderWay(c)' <= UnderWay(c) /\ UnderWay(c)' \in Nat /\ UnderWay(c) \in Nat
  BY <1>1, <1>2
<1>4. UnderWay(c)' <= 1
  BY <1>3 DEF Owed
<1>5. pc'[c] \notin {"acking", "awaiting", "reading", "dead"} => UnderWay(c)' = 0
  BY <1>3 DEF Owed
<1> QED
  BY <1>4, <1>5 DEF Owed, IsAsked

(* A client sends the question it then waits for.                          *)
LEMMA OwedAsks ==
  ASSUME TypeOK, TypeOK', NEW c \in Client, UnderWay(c) = 0,
         NEW type \in Request, Send(c, type), UNCHANGED <<batch, inbox>>,
         IsAsked([type |-> type, pid |-> c], c) => AskedAt(type, pc'[c])
  PROVE  Owed(c)'
<1> DEFINE m == [type |-> type, pid |-> c]
<1>1. /\ Asked(mq, c) = 0 /\ Asked(batch, c) = 0 /\ Len(inbox[c]) = 0
      /\ \A i \in DOMAIN mq : ~IsAsked(mq[i], c)
      /\ \A i \in DOMAIN batch : ~IsAsked(batch[i], c)
      /\ DOMAIN inbox[c] = {}
  BY UnderWayNat DEF TypeOK, UnderWay
<1>2. /\ Asked(mq', c) \in Nat
      /\ UnderWay(c)' = Asked(mq', c) + Asked(batch', c) + Len(inbox'[c])
  BY UnderWayNat DEF TypeOK, UnderWay
<1>3. /\ Asked(mq', c) <= Asked(mq, c) + IF IsAsked(m, c) THEN 1 ELSE 0
      /\ \A i \in DOMAIN mq' : (\E j \in DOMAIN mq : mq'[i] = mq[j]) \/ mq'[i] = m
  BY SendGives
<1>4. Asked(batch', c) = 0 /\ Len(inbox'[c]) = 0
  BY <1>1
<1>5. CASE IsAsked(m, c)
  <2>1. UnderWay(c)' <= 1
    BY <1>1, <1>2, <1>3, <1>4, <1>5
  <2>2. AskedAt(type, pc'[c])
    BY <1>5
  <2>3. pc'[c] \in {"acking", "awaiting", "reading", "dead"}
    BY <2>2 DEF AskedAt
  <2>4. \A i \in DOMAIN mq' : IsAsked(mq'[i], c) => AskedAt(mq'[i].type, pc'[c])
    BY <1>1, <1>3, <2>2
  <2> QED
    BY <1>1, <2>1, <2>3, <2>4 DEF Owed
<1>6. CASE ~IsAsked(m, c)
  BY <1>1, <1>2, <1>3, <1>4, <1>6, OwedNothing
<1> QED
  BY <1>5, <1>6

-----------------------------------------------------------------------------
(* A step of a client.                                                     *)
LEMMA ClientGives ==
  ASSUME NEW c \in Client, ClientStep(c), TypeOK
  PROVE  /\ UNCHANGED <<servervars, tablevars, batch>>
         /\ \A d \in Client : d # c => pc'[d] = pc[d] /\ inbox'[d] = inbox[d]
         /\ \/ UNCHANGED <<mq, overlong>>
            \/ \E type \in Request : Send(c, type)
         /\ attached' \subseteq attached \cup {c}
         /\ \A d \in attached : d # c => d \in attached'
<1>1. UNCHANGED <<servervars, tablevars, batch>>
  BY DEF ClientStep, Start, Connect, Receives, Acked, Answered, Ask, Finalize, Die
<1>2. \A d \in Client : d # c => pc'[d] = pc[d]
  BY DEF ClientStep, Start, Connect, Receives, Acked, Answered, Ask, Finalize,
         Die, Exit, Goto, TypeOK
<1>3. \A d \in Client : d # c => inbox'[d] = inbox[d]
  BY DEF ClientStep, Start, Connect, Receives, Acked, Answered, Ask, Finalize,
         Die, Take, TypeOK
<1>4. UNCHANGED <<mq, overlong>> \/ \E type \in Request : Send(c, type)
  BY DEF ClientStep, Start, Connect, Receives, Acked, Answered, Ask, Finalize,
         Die, Send, Request
<1>5. /\ attached' \subseteq attached \cup {c}
      /\ \A d \in attached : d # c => d \in attached'
  BY DEF ClientStep, Start, Connect, Receives, Acked, Answered, Ask, Finalize,
         Die, Exit
<1> QED
  BY <1>1, <1>2, <1>3, <1>4, <1>5

(* A step of c leaves what is owed to another client.                      *)
LEMMA ClientOthers ==
  ASSUME IInv, NEW c \in Client, ClientStep(c), TypeOK', NEW d \in Client, d # c
  PROVE  Owed(d)'
<1>1. TypeOK /\ Owed(d)
  BY DEF IInv
<1>2. batch' = batch /\ pc'[d] = pc[d] /\ inbox'[d] = inbox[d]
  BY <1>1, ClientGives
<1>3. /\ Asked(mq', d) <= Asked(mq, d)
      /\ \A i \in DOMAIN mq' :
           (\E j \in DOMAIN mq : mq'[i] = mq[j]) \/ ~IsAsked(mq'[i], d)
  <2>1. CASE UNCHANGED mq
    BY <1>1, <2>1, AskedNat DEF TypeOK
  <2>2. ASSUME NEW type \in Request, Send(c, type)
        PROVE  <1>3
    <3>1. ~IsAsked([type |-> type, pid |-> c], d)
      BY DEF IsAsked
    <3>2. Asked(mq, d) \in Nat
      BY <1>1, AskedNat DEF TypeOK
    <3>3. /\ Asked(mq', d) <= Asked(mq, d) + 0
          /\ \A i \in DOMAIN mq' :
               (\E j \in DOMAIN mq : mq'[i] = mq[j]) \/ ~IsAsked(mq'[i], d)
      BY <1>1, <2>2, <3>1, SendGives
    <3>4. Asked(mq', d) \in Nat
      BY AskedNat DEF TypeOK
    <3> QED
      BY <3>2, <3>3, <3>4
  <2> QED
    BY <1>1, <2>1, <2>2, ClientGives
<1>4. /\ Asked(mq', d) \in Nat /\ Asked(mq, d) \in Nat /\ Asked(batch, d) \in Nat
      /\ Len(inbox[d]) \in Nat
  BY <1>1, AskedNat, LenProperties DEF TypeOK
<1>5. Asked(mq', d) + Asked(batch', d) + Len(inbox'[d])
        <= Asked(mq, d) + Asked(batch, d) + Len(inbox[d])
  BY <1>2, <1>3, <1>4
<1>6. \A i \in DOMAIN mq' : IsAsked(mq'[i], d) => AskedAt(mq'[i].type, pc[d])
  BY <1>1, <1>3 DEF Owed
<1>7. /\ \A i \in DOMAIN batch' : IsAsked(batch'[i], d) => AskedAt(batch'[i].type, pc[d])
      /\ \A k \in DOMAIN inbox'[d] : AnsweredAt(inbox'[d][k].type, pc[d])
  BY <1>1, <1>2 DEF Owed
<1> QED
  BY <1>1, <1>2, <1>5, <1>6, <1>7, OwedKept

(* A step of c keeps what is owed to c: it asks only when nothing is under *)
(* way.                                                                    *)
LEMMA ClientSelf ==
  ASSUME IInv, NEW c \in Client, ClientStep(c), TypeOK'
  PROVE  Owed(c)'
<1>1. TypeOK /\ Owed(c) /\ pc[c] \in Place /\ pc' \in [Client -> Place]
  BY DEF IInv, TypeOK
<1>2. pc[c] \notin {"acking", "awaiting", "reading", "dead"} => UnderWay(c) = 0
  BY <1>1 DEF Owed
<1>3. CASE Start(c)
  <2>1. UnderWay(c) = 0 /\ UNCHANGED <<mq, batch, inbox>>
    BY <1>2, <1>3 DEF Start
  <2>2. UnderWay(c)' = 0
    BY <2>1 DEF UnderWay
  <2> QED
    BY <2>2, OwedNothing
<1>4. CASE Connect(c)
  <2>1. /\ UnderWay(c) = 0 /\ UNCHANGED <<batch, inbox>>
        /\ Send(c, "CLIENT_CONNECTION_REQUEST") /\ pc'[c] = "acking"
    BY <1>1, <1>2, <1>4 DEF Connect, Send, Goto, TypeOK
  <2> QED
    BY <1>1, <2>1, OwedAsks DEF Request, AskedAt
<1>5. CASE Receives(c)
  <2>1. /\ inbox[c] # <<>> /\ inbox' = [inbox EXCEPT ![c] = Tail(inbox[c])]
        /\ UNCHANGED <<mq, batch>>
    BY <1>5 DEF Receives, Acked, Answered, Take
  <2>2. inbox[c] \in Seq(Answer) /\ mq \in Seq(Message) /\ batch \in Seq(Message)
    BY <1>1 DEF TypeOK
  <2>3. Len(inbox[c]) \in Nat \ {0} /\ Asked(mq, c) \in Nat /\ Asked(batch, c) \in Nat
    BY <2>1, <2>2, EmptySeq, AskedNat
  <2>4. Asked(mq, c) + Asked(batch, c) + Len(inbox[c]) <= 1
    BY <1>1 DEF Owed, UnderWay
  <2>5. Asked(mq, c) = 0 /\ Asked(batch, c) = 0 /\ Len(inbox[c]) = 1
    <3>1. \A x, y \in Nat, z \in Nat \ {0} : x + y + z <= 1 => x = 0 /\ y = 0 /\ z = 1
      OBVIOUS
    <3> QED
      BY <2>3, <2>4, <3>1, Zenon
  <2>6. Len(inbox'[c]) = 0
    <3>1. Len(Tail(inbox[c])) = Len(inbox[c]) - 1
      BY <2>1, <2>2, HeadTailProperties
    <3> QED
      BY <1>1, <2>1, <2>5, <3>1 DEF TypeOK
  <2>7. UnderWay(c)' = 0
    BY <2>1, <2>5, <2>6 DEF UnderWay
  <2> QED
    BY <2>7, OwedNothing
<1>6. CASE Ask(c)
  <2>1. UnderWay(c) = 0 /\ UNCHANGED <<batch, inbox>>
    BY <1>2, <1>6 DEF Ask
  <2>2. PICK type \in {"RESOURCE_REQUEST", "READ_REQUEST", "WRITE_REQUEST"} :
          Send(c, type) /\ Goto(c, AfterRequest(type))
    BY <1>6 DEF Ask
  <2>3. pc'[c] = AfterRequest(type)
    BY <1>1, <2>2 DEF Goto, TypeOK
  <2>4. IsAsked([type |-> type, pid |-> c], c) => AskedAt(type, pc'[c])
    BY <2>3 DEF IsAsked, AskedAt, AfterRequest
  <2> QED
    BY <1>1, <2>1, <2>2, <2>4, OwedAsks DEF Request
<1>7. CASE Finalize(c)
  <2>1. /\ UnderWay(c) = 0 /\ UNCHANGED <<batch, inbox>>
        /\ Send(c, "CLIENT_FINALIZE")
    BY <1>2, <1>7 DEF Finalize, Send
  <2>2. ~IsAsked([type |-> "CLIENT_FINALIZE", pid |-> c], c)
    BY DEF IsAsked
  <2> QED
    BY <1>1, <2>1, <2>2, OwedAsks DEF Request
<1>8. CASE Die(c)
  <2>1. UNCHANGED <<mq, batch, inbox>> /\ pc'[c] = "dead"
    BY <1>1, <1>8 DEF Die, Exit, Goto, TypeOK
  <2>2. UnderWay(c)' = UnderWay(c)
    BY <2>1 DEF UnderWay
  <2> QED
    BY <1>1, <2>1, <2>2 DEF Owed, AskedAt, AnsweredAt
<1> QED
  BY <1>3, <1>4, <1>5, <1>6, <1>7, <1>8 DEF ClientStep

(* Nobody but a client that connects for the first time asks for a         *)
(* connection.                                                             *)
LEMMA ClientNewcomers ==
  ASSUME IInv, NEW c \in Client, ClientStep(c), TypeOK'
  PROVE  Newcomers'
<1>1. TypeOK /\ Newcomers /\ UNCHANGED queues
  BY ClientGives DEF IInv, tablevars
<1>2. \A d : Connected(queues', d) <=> Connected(queues, d)
  BY <1>1 DEF Connected
<1>3. pc'[c] \in {"off", "connecting"} => pc[c] = "off"
  BY <1>1 DEF ClientStep, Start, Connect, Receives, Acked, Answered, Ask, Finalize,
              Die, Exit, Goto, AfterRequest, TypeOK
<1>4. \A d \in Client : pc'[d] \in {"off", "connecting"} => ~Connected(queues, d)
  BY <1>1, <1>3, ClientGives DEF Newcomers
<1>5. ASSUME NEW i \in DOMAIN mq', mq'[i].type = "CLIENT_CONNECTION_REQUEST"
      PROVE  ~Connected(queues, mq'[i].pid)
  <2>1. CASE \E j \in DOMAIN mq : mq'[i] = mq[j]
    BY <1>1, <1>5, <2>1 DEF Newcomers
  <2>2. CASE ~\E j \in DOMAIN mq : mq'[i] = mq[j]
    <3>1. mq' # mq
      BY <2>2
    <3>2. Connect(c)
      <4>1. ASSUME NEW type \in Request, type # "CLIENT_CONNECTION_REQUEST", Send(c, type)
            PROVE  FALSE
        <5>1. mq'[i] = [type |-> type, pid |-> c]
          BY <1>1, <2>2, <4>1, SendGives, Zenon
        <5> QED
          BY <1>5, <4>1, <5>1
      <4> QED
        BY <3>1, <4>1 DEF ClientStep, Start, Receives, Acked, Answered, Ask, Finalize,
                          Die, Send, Request
    <3>3. pc[c] = "connecting" /\ Send(c, "CLIENT_CONNECTION_REQUEST")
      BY <3>2 DEF Connect, Send
    <3>4. mq'[i].pid = c
      <4>1. "CLIENT_CONNECTION_REQUEST" \in Request
        BY DEF Request
      <4>2. mq'[i] = [type |-> "CLIENT_CONNECTION_REQUEST", pid |-> c]
        BY <1>1, <2>2, <3>3, <4>1, SendGives, Zenon
      <4> QED
        BY <4>2
    <3> QED
      BY <1>1, <3>3, <3>4 DEF Newcomers
  <2> QED
    BY <2>1, <2>2
<1> QED
  BY <1>2, <1>4, <1>5 DEF Newcomers

(* A client goes on only with a positive answer of the server, which has   *)
(* put it into the table before.                                           *)
LEMMA ClientKnown ==
  ASSUME IInv, NEW c \in Client, ClientStep(c), TypeOK'
  PROVE  Known'
<1> SUFFICES ASSUME server = "up" /\ own_queue
             PROVE  Known'
  BY ClientGives DEF Known, servervars, IInv
<1>1. TypeOK /\ Known /\ UNCHANGED <<queues, batch>>
  BY ClientGives DEF IInv, tablevars
<1>2. \A d : Connected(queues', d) <=> Connected(queues, d)
  BY <1>1 DEF Connected
<1>3. pc[c] \in {"ready", "awaiting", "reading"} /\ c \in attached => Connected(queues, c)
  BY <1>1 DEF Known
<1>4. ASSUME NEW i \in DOMAIN mq', mq'[i].type # "CLIENT_CONNECTION_REQUEST"
      PROVE  Connected(queues, mq'[i].pid)
  <2>1. CASE \E j \in DOMAIN mq : mq'[i] = mq[j]
    BY <1>1, <1>4, <2>1 DEF Known
  <2>2. CASE ~\E j \in DOMAIN mq : mq'[i] = mq[j]
    <3>1. PICK type \in Request : Send(c, type)
      BY <1>1, <2>2, ClientGives
    <3>2. mq'[i] = [type |-> type, pid |-> c] /\ c \in attached
      BY <1>1, <2>2, <3>1, SendGives
    <3>3. ~Connect(c)
      <4>1. Connect(c) => Send(c, "CLIENT_CONNECTION_REQUEST")
        BY DEF Connect, Send
      <4>2. Send(c, "CLIENT_CONNECTION_REQUEST") =>
              mq'[i] = [type |-> "CLIENT_CONNECTION_REQUEST", pid |-> c]
        BY <1>1, <2>2, SendGives DEF Request
      <4> QED
        BY <1>4, <4>1, <4>2
    <3>4. pc[c] = "ready"
      BY <2>2, <3>3 DEF ClientStep, Start, Receives, Acked, Answered, Ask, Finalize, Die
    <3> QED
      BY <1>3, <3>2, <3>4
  <2> QED
    BY <2>1, <2>2
<1>5. ASSUME c \in attached'
      PROVE  /\ pc'[c] \in {"ready", "awaiting", "reading"} => Connected(queues, c)
             /\ pc'[c] = "acking" => \A k \in DOMAIN inbox'[c] : inbox'[c][k].ok => Connected(queues, c)
  <2>1. pc' \in [Client -> Place] /\ pc \in [Client -> Place]
    BY <1>1 DEF TypeOK
  <2>2. CASE Start(c)
    BY <1>5, <2>1, <2>2 DEF Start, Exit, Goto
  <2>3. CASE Connect(c)
    <3>1. pc'[c] = "acking" /\ inbox' = inbox /\ pc[c] = "connecting"
      BY <2>1, <2>3 DEF Connect, Goto
    <3>2. UnderWay(c) = 0
      BY <3>1 DEF IInv, Owed
    <3>3. DOMAIN inbox[c] = {}
      BY <1>1, <3>2, UnderWayNat DEF TypeOK, UnderWay
    <3> QED
      BY <3>1, <3>3
  <2>4. CASE Acked(c)
    <3>1. /\ pc[c] = "acking" /\ inbox[c] # <<>> /\ inbox[c] \in Seq(Answer)
          /\ IF GoesOn(Received(c))
             THEN pc'[c] = "ready" /\ attached' = attached
             ELSE attached' = attached \ {c}
      BY <1>1, <2>1, <2>4 DEF Acked, Take, Exit, Goto, TypeOK
    <3>2. GoesOn(Received(c)) /\ pc'[c] = "ready" /\ c \in attached
      BY <1>5, <3>1
    <3>3. 1 \in DOMAIN inbox[c] /\ Head(inbox[c]) = inbox[c][1]
      BY <3>1, EmptySeq, LenProperties
    <3>4. Connected(queues, c)
      BY <1>1, <3>1, <3>2, <3>3 DEF Known, GoesOn, Received
    <3> QED
      BY <3>2, <3>4
  <2>5. CASE Answered(c)
    <3>1. pc[c] \in {"awaiting", "reading"} /\ attached' = attached /\ pc'[c] = "ready"
      BY <2>1, <2>5 DEF Answered, Goto
    <3> QED
      BY <1>3, <1>5, <3>1
  <2>6. CASE Ask(c)
    <3>1. /\ pc[c] = "ready" /\ attached' = attached
          /\ pc'[c] \in {"ready", "awaiting", "reading"}
      BY <2>1, <2>6 DEF Ask, Goto, AfterRequest
    <3> QED
      BY <1>3, <1>5, <3>1
  <2>7. CASE Finalize(c) \/ Die(c)
    BY <1>5, <2>7 DEF Finalize, Die, Exit
  <2> QED
    BY <2>2, <2>3, <2>4, <2>5, <2>6, <2>7 DEF ClientStep, Receives
<1>6. \A d \in attached' :
        /\ pc'[d] \in {"ready", "awaiting", "reading"} => Connected(queues, d)
        /\ pc'[d] = "acking" => \A k \in DOMAIN inbox'[d] : inbox'[d][k].ok => Connected(queues, d)
  <2> SUFFICES ASSUME NEW d \in attached', d # c
               PROVE  /\ pc'[d] \in {"ready", "awaiting", "reading"} => Connected(queues, d)
                      /\ pc'[d] = "acking" =>
                           \A k \in DOMAIN inbox'[d] : inbox'[d][k].ok => Connected(queues, d)
    BY <1>5
  <2>1. d \in attached /\ d \in Client /\ pc'[d] = pc[d] /\ inbox'[d] = inbox[d]
    BY <1>1, ClientGives DEF TypeOK
  <2> QED
    BY <1>1, <2>1 DEF Known
<1> QED
  BY <1>1, <1>2, <1>4, <1>6 DEF Known

(* A step of a client keeps the invariant.                                 *)
LEMMA InvClient ==
  ASSUME IInv, NEW c \in Client, ClientStep(c)
  PROVE  IInv'
<1>1. TypeOK'
  BY TypeClient DEF IInv
<1>2. TableIsDense' /\ OnlyFiles' /\ Idle'
  BY ClientGives DEF IInv, TableIsDense, OnlyFiles, Idle, servervars, tablevars
<1>3. Newcomers' /\ Known'
  BY <1>1, ClientNewcomers, ClientKnown
<1>4. \A d \in Client : Owed(d)'
  BY <1>1, ClientOthers, ClientSelf
<1> QED
  BY <1>1, <1>2, <1>3, <1>4 DEF IInv

-----------------------------------------------------------------------------
(* A step of the server.  What it does not take, add or answer stays.      *)
LEMMA ServerOwed ==
  ASSUME TypeOK, TypeOK', NEW c \in Client, Owed(c), pc' = pc,
         Asked(mq', c) + Asked(batch', c) + Len(inbox'[c])
           <= Asked(mq, c) + Asked(batch, c) + Len(inbox[c]),
         \A i \in DOMAIN mq' : \E j \in DOMAIN mq : mq'[i] = mq[j],
         \A i \in DOMAIN batch' :
           \/ \E j \in DOMAIN batch : batch'[i] = batch[j]
           \/ \E j \in DOMAIN mq : batch'[i] = mq[j],
         \A k \in DOMAIN inbox'[c] :
           \/ \E j \in DOMAIN inbox[c] : inbox'[c][k] = inbox[c][j]
           \/ AnsweredAt(inbox'[c][k].type, pc[c])
  PROVE  Owed(c)'
<1>1. \A i \in DOMAIN mq' : IsAsked(mq'[i], c) => AskedAt(mq'[i].type, pc[c])
  BY DEF Owed
<1>2. \A i \in DOMAIN batch' : IsAsked(batch'[i], c) => AskedAt(batch'[i].type, pc[c])
  BY DEF Owed
<1>3. \A k \in DOMAIN inbox'[c] : AnsweredAt(inbox'[c][k].type, pc[c])
  BY DEF Owed
<1> QED
  BY <1>1, <1>2, <1>3, OwedKept

(* The rest of the invariant, if the server goes on with its table.        *)
LEMMA ServerOn ==
  ASSUME IInv, UNCHANGED <<queues, active_count, server, own_queue, pc, attached>>,
         \A i \in DOMAIN mq' : \E j \in DOMAIN mq : mq'[i] = mq[j],
         \A i \in DOMAIN batch' :
           \/ \E j \in DOMAIN batch : batch'[i] = batch[j]
           \/ /\ \E j \in DOMAIN mq : batch'[i] = mq[j]
              /\ batch'[i].type \in {"READ_REQUEST", "WRITE_REQUEST"},
         \A c \in Client : \A k \in DOMAIN inbox'[c] :
           \/ \E j \in DOMAIN inbox[c] : inbox'[c][k] = inbox[c][j]
           \/ Connected(queues, c),
         server = "up"
  PROVE  TableIsDense' /\ OnlyFiles' /\ Newcomers' /\ Known' /\ Idle'
<1>1. \A d : Connected(queues', d) <=> Connected(queues, d)
  BY DEF Connected
<1>2. TableIsDense' /\ Idle'
  BY DEF IInv, TableIsDense, Idle
<1>3. OnlyFiles'
  BY DEF IInv, OnlyFiles
<1>4. Newcomers'
  BY <1>1 DEF IInv, Newcomers
<1>5. Known'
  <2> SUFFICES ASSUME own_queue PROVE Known'
    BY DEF Known
  <2>1. \A i \in DOMAIN mq' :
          mq'[i].type # "CLIENT_CONNECTION_REQUEST" => Connected(queues, mq'[i].pid)
    BY DEF IInv, Known
  <2>2. \A i \in DOMAIN batch' : Connected(queues, batch'[i].pid)
    BY DEF IInv, Known
  <2>3. \A d \in attached :
          /\ pc[d] \in {"ready", "awaiting", "reading"} => Connected(queues, d)
          /\ pc[d] = "acking" => \A k \in DOMAIN inbox'[d] : inbox'[d][k].ok => Connected(queues, d)
    BY DEF IInv, Known, TypeOK
  <2> QED
    BY <1>1, <2>1, <2>2, <2>3 DEF Known
<1> QED
  BY <1>2, <1>3, <1>4, <1>5

(* And if it goes, with its table and the batch.                           *)
LEMMA ServerDown ==
  ASSUME IInv, TypeOK', server' # "up", queues' = NoConnections, active_count' = 0,
         batch' = <<>>, pc' = pc
  PROVE  TableIsDense' /\ OnlyFiles' /\ Newcomers' /\ Known' /\ Idle'
<1>1. \A i \in Slot : queues'[i] = NULL /\ ~(i < 0)
  BY SizeAssumption DEF NoConnections, Slot
<1>2. \A d \in Client : ~Connected(queues', d)
  BY <1>1, NullAssumption DEF Connected
<1>3. TableIsDense' /\ Idle' /\ OnlyFiles' /\ Known'
  BY <1>1 DEF TableIsDense, Idle, OnlyFiles, Known
<1>4. \A i \in DOMAIN mq' : mq'[i].pid \in Client
  BY PidsAreClients DEF TypeOK
<1> QED
  BY <1>2, <1>3, <1>4 DEF Newcomers

-----------------------------------------------------------------------------
(* The handlers.                                                           *)
LEMMA ReadyForHead ==
  ASSUME TypeOK, mq # <<>>
  PROVE  /\ mq \in Seq(Message) /\ batch \in Seq(Message)
         /\ Head(mq).pid \in Client /\ Head(mq).type \in Request
         /\ \E j \in DOMAIN mq : Head(mq) = mq[j]
BY TailGives DEF TypeOK, Message

(* The connection handler: it takes one question and gives one answer, to  *)
(* a client that is not in the table yet.                                  *)
LEMMA InvConnect ==
  ASSUME IInv, HandleConnect, TypeOK'
  PROVE  IInv'
<1> DEFINE c == Head(mq).pid
           ack == [type |-> "SERVER_ACK", ok |-> HasSpace]
<1>1. /\ TypeOK /\ TableIsDense /\ mq # <<>> /\ server = "up"
      /\ Head(mq).type = "CLIENT_CONNECTION_REQUEST"
      /\ mq' = Tail(mq) /\ UNCHANGED <<servervars, batch, pc, todo, attached>>
      /\ inbox' = [d \in Client |-> IF d = c THEN Append(inbox[d], ack) ELSE inbox[d]]
  BY DEF HandleConnect, Handling, AckTo, IInv, clientvars
<1>2. /\ mq \in Seq(Message) /\ c \in Client /\ IsAsked(Head(mq), c)
      /\ 1 \in DOMAIN mq /\ Head(mq) = mq[1] /\ ack \in Answer
  BY <1>1, TailGives, ReadyForHead DEF IsAsked, Answer, HasSpace
<1>3. \A i \in DOMAIN mq' : \E j \in DOMAIN mq : mq'[i] = mq[j]
  BY <1>1, TailGives
<1>4. \A d \in Client : \A k \in DOMAIN inbox'[d] :
        \/ \E j \in DOMAIN inbox[d] : inbox'[d][k] = inbox[d][j]
        \/ d = c /\ inbox'[d][k] = ack
  <2> TAKE d \in Client
  <2>1. CASE d # c
    BY <1>1, <2>1
  <2>2. CASE d = c
    <3>1. inbox'[d] = Append(inbox[d], ack) /\ inbox[d] \in Seq(Answer)
      BY <1>1, <2>2 DEF TypeOK
    <3> HIDE DEF ack
    <3>2. /\ \A k \in 1 .. Len(inbox[d]) : inbox'[d][k] = inbox[d][k]
          /\ inbox'[d][Len(inbox[d]) + 1] = ack
          /\ DOMAIN inbox'[d] = 1 .. Len(inbox[d]) + 1
          /\ DOMAIN inbox[d] = 1 .. Len(inbox[d]) /\ Len(inbox[d]) \in Nat
      BY <1>2, <3>1, AppendProperties, LenProperties
    <3> QED
      BY <2>2, <3>2
  <2> QED
    BY <2>1, <2>2
<1>5. AskedAt("CLIENT_CONNECTION_REQUEST", pc[c]) /\ UnderWay(c) <= 1
  BY <1>1, <1>2 DEF IInv, Owed
<1>6. \A d \in Client : Owed(d)'
  <2> TAKE d \in Client
  <2>1. /\ Asked(mq, d) = Asked(mq', d) + IF IsAsked(Head(mq), d) THEN 1 ELSE 0
        /\ Asked(mq', d) \in Nat /\ Asked(mq, d) \in Nat
    BY <1>1, <1>2, TailGives, AskedNat
  <2>2. Asked(mq', d) + Asked(batch', d) + Len(inbox'[d])
          <= Asked(mq, d) + Asked(batch, d) + Len(inbox[d])
    <3>1. Asked(batch, d) \in Nat /\ batch' = batch /\ inbox[d] \in Seq(Answer)
      BY <1>1, AskedNat DEF TypeOK
    <3>2. CASE d = c
      <4>1. Len(inbox'[d]) = Len(inbox[d]) + 1 /\ Len(inbox[d]) \in Nat
        <5>1. inbox'[d] = Append(inbox[d], ack)
          BY <1>1, <3>2
        <5> HIDE DEF ack
        <5> QED
          BY <1>2, <3>1, <5>1, AppendProperties, LenProperties
      <4>2. Asked(mq, d) = Asked(mq', d) + 1
        BY <1>2, <2>1, <3>2
      <4>3. /\ Asked(batch', d) = Asked(batch, d) /\ Asked(batch, d) \in Nat
            /\ Asked(mq', d) \in Nat
        BY <2>1, <3>1
      <4> QED
        BY <4>1, <4>2, <4>3
    <3>3. CASE d # c
      <4>1. ~IsAsked(Head(mq), d) /\ inbox'[d] = inbox[d]
        BY <1>1, <3>3 DEF IsAsked
      <4>2. Asked(mq, d) = Asked(mq', d)
        BY <2>1, <4>1
      <4>3. /\ Asked(batch', d) = Asked(batch, d) /\ Asked(batch, d) \in Nat
            /\ Asked(mq', d) \in Nat /\ Len(inbox[d]) \in Nat
        BY <2>1, <3>1, LenProperties
      <4> QED
        BY <4>1, <4>2, <4>3
    <3> QED
      BY <3>2, <3>3
  <2>3. \A k \in DOMAIN inbox'[d] :
          \/ \E j \in DOMAIN inbox[d] : inbox'[d][k] = inbox[d][j]
          \/ AnsweredAt(inbox'[d][k].type, pc[d])
    BY <1>4, <1>5 DEF AskedAt, AnsweredAt
  <2>4. Owed(d) /\ pc' = pc
    BY <1>1 DEF IInv
  <2>5. \A i \in DOMAIN batch' : \E j \in DOMAIN batch : batch'[i] = batch[j]
    BY <1>1
  <2> QED
    BY <1>1, <1>3, <2>2, <2>3, <2>4, <2>5, ServerOwed
<1>7. CASE ~HasSpace
  <2>1. UNCHANGED <<queues, active_count, server, own_queue, pc, attached>>
    BY <1>1, <1>7 DEF HandleConnect, servervars, tablevars
  <2>2. ASSUME NEW d \in Client, NEW k \in DOMAIN inbox'[d]
        PROVE  (\E j \in DOMAIN inbox[d] : inbox'[d][k] = inbox[d][j]) \/ ~inbox'[d][k].ok
    BY <1>4, <1>7
  <2>3. \A d : Connected(queues', d) <=> Connected(queues, d)
    BY <2>1 DEF Connected
  <2>4. TableIsDense' /\ Idle' /\ OnlyFiles' /\ Newcomers'
    BY <1>1, <1>3, <2>1, <2>3 DEF IInv, TableIsDense, Idle, OnlyFiles, Newcomers
  <2>5. Known'
    <3> SUFFICES ASSUME own_queue PROVE Known'
      BY <2>1 DEF Known
    <3>1. \A d \in attached : pc[d] = "acking" =>
            \A k \in DOMAIN inbox'[d] : inbox'[d][k].ok => Connected(queues, d)
      BY <1>1, <2>2 DEF IInv, Known, TypeOK
    <3> QED
      BY <1>1, <1>3, <2>1, <2>3, <3>1 DEF IInv, Known
  <2> QED
    BY <1>6, <2>4, <2>5 DEF IInv
<1>8. CASE HasSpace
  <2>1. PICK i \in Slot : IsFree(i) /\ queues' = [queues EXCEPT ![i] = c]
    BY <1>8 DEF HandleConnect
  <2>2. active_count' = active_count + 1 /\ active_count \in Nat /\ active_count < Size
    BY <1>1, <1>8, SizeAssumption DEF HandleConnect, HasSpace, TypeOK
  <2>3. i = active_count
    <3>1. i \in Int /\ active_count \in Slot
      BY <2>2, SizeAssumption DEF Slot
    <3>2. ~(i < active_count)
      BY <1>1, <2>1 DEF TableIsDense, IsFree
    <3>3. ~(active_count < i)
      <4>1. active_count < i => active_count \in 0 .. i - 1
        BY <2>2, <3>1
      <4>2. queues[active_count] = NULL
        BY <1>1, <2>2, <3>1 DEF TableIsDense
      <4> QED
        BY <2>1, <4>1, <4>2 DEF IsFree
    <3> QED
      BY <2>2, <3>1, <3>2, <3>3
  <2>4. queues'[i] = c /\ \A j \in Slot : j # i => queues'[j] = queues[j]
    BY <1>1, <2>1 DEF TypeOK
  <2>5. \A d \in Client : Connected(queues', d) <=> Connected(queues, d) \/ d = c
    <3>1. queues[i] = NULL
      BY <2>1 DEF IsFree
    <3> QED
      BY <2>1, <2>4, <3>1, NullAssumption DEF Connected
  <2>6. TableIsDense'
    <3>1. ~Connected(queues, c)
      BY <1>1, <1>2 DEF IInv, Newcomers
    <3>2. \A j \in Slot : j \in Int
      BY SizeAssumption DEF Slot
    <3>3. \A j \in Slot : queues'[j] # NULL <=> j < active_count'
      BY <1>1, <1>2, <2>2, <2>3, <2>4, <3>2, NullAssumption DEF TableIsDense
    <3>4. \A j, k \in Slot : queues'[j] = queues'[k] => j = k \/ queues'[j] = NULL
      BY <1>1, <2>4, <3>1 DEF TableIsDense, Connected
    <3> QED
      BY <3>3, <3>4 DEF TableIsDense
  <2>7. Newcomers'
    <3>1. \A d \in Client : pc'[d] \in {"off", "connecting"} => ~Connected(queues', d)
      BY <1>1, <1>5, <2>5 DEF IInv, Newcomers, AskedAt
    <3>2. \A j \in DOMAIN mq' : ~IsAsked(mq'[j], c)
      <4>1. Asked(mq, c) = Asked(mq', c) + 1 /\ Asked(mq', c) \in Nat
        BY <1>1, <1>2, TailGives, AskedNat
      <4>2. Asked(mq, c) + Asked(batch, c) + Len(inbox[c]) <= 1
        BY <1>5 DEF UnderWay
      <4>3. Asked(batch, c) \in Nat /\ Len(inbox[c]) \in Nat
        BY <1>1, <1>2, AskedNat, LenProperties DEF TypeOK
      <4>4. Asked(mq', c) = 0
        BY <4>1, <4>2, <4>3
      <4> QED
        BY <4>4, AskedNat DEF TypeOK
    <3>3. ASSUME NEW j \in DOMAIN mq', mq'[j].type = "CLIENT_CONNECTION_REQUEST"
          PROVE  ~Connected(queues', mq'[j].pid)
      <4>1. mq'[j].pid # c
        BY <3>2, <3>3 DEF IsAsked
      <4>2. PICK k \in DOMAIN mq : mq'[j] = mq[k]
        BY <1>3
      <4>3. ~Connected(queues, mq[k].pid)
        BY <3>3, <4>2 DEF IInv, Newcomers
      <4>4. mq[k].pid \in Client
        BY <1>2, PidsAreClients
      <4> QED
        BY <2>5, <4>1, <4>2, <4>3, <4>4
    <3> QED
      BY <3>1, <3>3 DEF Newcomers
  <2>8. Known'
    <3> SUFFICES ASSUME own_queue PROVE Known'
      BY <1>1 DEF Known, servervars
    <3>1. Known /\ server = "up" /\ attached' = attached /\ pc' = pc /\ batch' = batch
      BY <1>1 DEF IInv
    <3>2. \A d \in Client : Connected(queues, d) => Connected(queues', d)
      BY <2>5
    <3>3. \A j \in DOMAIN mq : mq[j].pid \in Client
      BY <1>2, PidsAreClients
    <3>4. \A j \in DOMAIN batch : batch[j].pid \in Client
      BY <1>1, ReadyForHead, PidsAreClients
    <3>5. \A j \in DOMAIN mq' :
            mq'[j].type # "CLIENT_CONNECTION_REQUEST" => Connected(queues', mq'[j].pid)
      BY <1>3, <3>1, <3>2, <3>3 DEF Known
    <3>6. \A j \in DOMAIN batch' : Connected(queues', batch'[j].pid)
      BY <3>1, <3>2, <3>4 DEF Known
    <3>7. ASSUME NEW d \in attached'
          PROVE  /\ pc'[d] \in {"ready", "awaiting", "reading"} => Connected(queues', d)
                 /\ pc'[d] = "acking" =>
                      \A k \in DOMAIN inbox'[d] : inbox'[d][k].ok => Connected(queues', d)
      <4>1. d \in Client /\ d \in attached
        BY <1>1, <3>1 DEF TypeOK
      <4>2. CASE d = c
        BY <2>5, <4>1, <4>2
      <4>3. CASE d # c
        <5>1. inbox'[d] = inbox[d]
          BY <1>1, <4>1, <4>3
        <5> QED
          BY <3>1, <3>2, <4>1, <5>1 DEF Known
      <4> QED
        BY <4>2, <4>3
    <3> QED
      BY <3>5, <3>6, <3>7 DEF Known
  <2> QED
    BY <1>1, <1>6, <2>6, <2>7, <2>8 DEF IInv, Idle, OnlyFiles, servervars
<1> QED
  BY <1>7, <1>8

(* A handler that takes one message and may answer it.                     *)
LEMMA InvTakes ==
  ASSUME IInv, TypeOK', mq # <<>>, server = "up", mq' = Tail(mq),
         UNCHANGED <<servervars, tablevars, batch, clientvars>>,
         \A d \in Client :
           Len(inbox'[d]) <= Len(inbox[d]) + IF IsAsked(Head(mq), d) THEN 1 ELSE 0,
         \A d \in Client : \A k \in DOMAIN inbox'[d] :
           \/ \E j \in DOMAIN inbox[d] : inbox'[d][k] = inbox[d][j]
           \/ AnsweredAt(inbox'[d][k].type, pc[d]) /\ Connected(queues, d)
  PROVE  IInv'
<1>1. TypeOK /\ mq \in Seq(Message)
  BY DEF IInv, TypeOK
<1>2. \A i \in DOMAIN mq' : \E j \in DOMAIN mq : mq'[i] = mq[j]
  BY <1>1, TailGives
<1>3. TableIsDense' /\ OnlyFiles' /\ Newcomers' /\ Known' /\ Idle'
  BY <1>2, ServerOn DEF servervars, tablevars, clientvars
<1>4. ASSUME NEW d \in Client
      PROVE  Owed(d)'
  <2>1. /\ Asked(mq, d) = Asked(mq', d) + IF IsAsked(Head(mq), d) THEN 1 ELSE 0
        /\ Asked(mq', d) \in Nat /\ Asked(batch, d) \in Nat
    BY <1>1, TailGives, AskedNat DEF TypeOK
  <2>2. Len(inbox'[d]) \in Nat /\ Len(inbox[d]) \in Nat
    BY <1>1, LenProperties DEF TypeOK
  <2>3. Asked(batch', d) = Asked(batch, d)
    OBVIOUS
  <2>4. Asked(mq', d) + Asked(batch', d) + Len(inbox'[d])
          <= Asked(mq, d) + Asked(batch, d) + Len(inbox[d])
    <3>1. CASE IsAsked(Head(mq), d)
      <4>1. Asked(mq, d) = Asked(mq', d) + 1 /\ Len(inbox'[d]) <= Len(inbox[d]) + 1
        BY <2>1, <3>1
      <4> QED
        BY <2>1, <2>2, <2>3, <4>1
    <3>2. CASE ~IsAsked(Head(mq), d)
      <4>1. Asked(mq, d) = Asked(mq', d) + 0 /\ Len(inbox'[d]) <= Len(inbox[d]) + 0
        BY <2>1, <3>2
      <4> QED
        BY <2>1, <2>2, <2>3, <4>1
    <3> QED
      BY <3>1, <3>2
  <2>5. Owed(d) /\ pc' = pc /\ batch' = batch
    BY DEF IInv, clientvars
  <2> QED
    BY <1>1, <1>2, <2>4, <2>5, ServerOwed
<1> QED
  BY <1>3, <1>4 DEF IInv

(* A handler that takes one message and answers nothing.                   *)
LEMMA InvTakesSilently ==
  ASSUME IInv, TypeOK', mq # <<>>, server = "up", mq' = Tail(mq),
         UNCHANGED <<servervars, tablevars, batch, clientvars>>, UNCHANGED inbox
  PROVE  IInv'
<1>1. ASSUME NEW d \in Client
      PROVE  Len(inbox'[d]) <= Len(inbox[d]) + IF IsAsked(Head(mq), d) THEN 1 ELSE 0
  <2>1. Len(inbox[d]) \in Nat
    BY LenProperties DEF IInv, TypeOK
  <2>2. Len(inbox[d]) <= Len(inbox[d]) + 0 /\ Len(inbox[d]) <= Len(inbox[d]) + 1
    BY <2>1
  <2> QED
    BY <2>2
<1> QED
  BY <1>1, InvTakes

(* One that brings the server down.                                        *)
LEMMA InvFalls ==
  ASSUME IInv, TypeOK', NEW rest \in Seq(Message), Len(rest) <= Capacity, Fall(rest),
         \A i \in DOMAIN rest : \E j \in DOMAIN mq : rest[i] = mq[j],
         \A d \in Client : Asked(rest, d) + Len(inbox'[d])
                             <= Asked(mq, d) + Asked(batch, d) + Len(inbox[d]),
         \A d \in Client : \A k \in DOMAIN inbox'[d] :
           \/ \E j \in DOMAIN inbox[d] : inbox'[d][k] = inbox[d][j]
           \/ AnsweredAt(inbox'[d][k].type, pc[d])
  PROVE  IInv'
<1>1. /\ TypeOK /\ batch' = <<>> /\ UNCHANGED <<starts, own_queue, named, pc>>
      /\ server' = "crashed" /\ queues' = NoConnections /\ active_count' = 0
      /\ \A i \in DOMAIN mq' : \E j \in DOMAIN rest : mq'[i] = rest[j]
      /\ \A c : Asked(mq', c) <= Asked(rest, c)
  BY FallGives DEF IInv
<1>2. TableIsDense' /\ OnlyFiles' /\ Newcomers' /\ Known' /\ Idle'
  BY <1>1, ServerDown
<1>3. \A i \in DOMAIN mq' : \E j \in DOMAIN mq : mq'[i] = mq[j]
  BY <1>1
<1>4. ASSUME NEW d \in Client
      PROVE  Owed(d)'
  <2>1. /\ Asked(mq', d) \in Nat /\ Asked(rest, d) \in Nat
        /\ Len(inbox'[d]) \in Nat /\ Asked(mq', d) <= Asked(rest, d)
    BY <1>1, AskedNat, LenProperties DEF TypeOK
  <2>2. Asked(mq, d) \in Nat /\ Asked(batch, d) \in Nat /\ Len(inbox[d]) \in Nat
    BY <1>1, AskedNat, LenProperties DEF TypeOK
  <2>3. Asked(batch', d) = 0
    BY <1>1, AskedEmpty
  <2>4. Asked(mq', d) + Asked(batch', d) + Len(inbox'[d])
          <= Asked(mq, d) + Asked(batch, d) + Len(inbox[d])
    BY <2>1, <2>2, <2>3
  <2>5. Owed(d) /\ pc' = pc
    BY <1>1 DEF IInv
  <2>6. DOMAIN batch' = {}
    BY <1>1
  <2> QED
    BY <1>1, <1>3, <2>4, <2>5, <2>6, ServerOwed
<1> QED
  BY <1>2, <1>4 DEF IInv

(* A fall after the message at the head has been taken.                    *)
LEMMA InvTakesAndFalls ==
  ASSUME IInv, TypeOK', mq # <<>>, Fall(Tail(mq)),
         \A d \in Client :
           Len(inbox'[d]) <= Asked(batch, d) + Len(inbox[d])
                             + IF IsAsked(Head(mq), d) THEN 1 ELSE 0,
         \A d \in Client : \A k \in DOMAIN inbox'[d] :
           \/ \E j \in DOMAIN inbox[d] : inbox'[d][k] = inbox[d][j]
           \/ AnsweredAt(inbox'[d][k].type, pc[d])
  PROVE  IInv'
<1>1. /\ TypeOK /\ mq \in Seq(Message) /\ batch \in Seq(Message)
      /\ inbox \in [Client -> Seq(Answer)] /\ inbox' \in [Client -> Seq(Answer)]
  BY DEF IInv, TypeOK
<1>2. /\ Tail(mq) \in Seq(Message) /\ Len(Tail(mq)) <= Capacity
      /\ \A i \in DOMAIN Tail(mq) : \E j \in DOMAIN mq : Tail(mq)[i] = mq[j]
  BY <1>1, TailGives
<1>3. ASSUME NEW d \in Client
      PROVE  Asked(Tail(mq), d) + Len(inbox'[d])
               <= Asked(mq, d) + Asked(batch, d) + Len(inbox[d])
  <2>1. /\ Asked(mq, d) = Asked(Tail(mq), d) + IF IsAsked(Head(mq), d) THEN 1 ELSE 0
        /\ Asked(Tail(mq), d) \in Nat /\ Asked(batch, d) \in Nat
    BY <1>1, <1>2, TailGives, AskedNat
  <2>2. Len(inbox'[d]) \in Nat /\ Len(inbox[d]) \in Nat
    BY <1>1, LenProperties
  <2>3. CASE IsAsked(Head(mq), d)
    <3>1. /\ Asked(mq, d) = Asked(Tail(mq), d) + 1
          /\ Len(inbox'[d]) <= Asked(batch, d) + Len(inbox[d]) + 1
      BY <2>1, <2>3
    <3> QED
      BY <2>1, <2>2, <3>1
  <2>4. CASE ~IsAsked(Head(mq), d)
    <3>1. /\ Asked(mq, d) = Asked(Tail(mq), d) + 0
          /\ Len(inbox'[d]) <= Asked(batch, d) + Len(inbox[d]) + 0
      BY <2>1, <2>4
    <3> QED
      BY <2>1, <2>2, <3>1
  <2> QED
    BY <2>3, <2>4
<1> QED
  BY <1>2, <1>3, InvFalls

(* A request for resources is answered at most once, if findByPid finds    *)
(* the client.                                                             *)
LEMMA ResourceAnswered ==
  ASSUME IInv, Handling("RESOURCE_REQUEST"), NEW ok \in BOOLEAN,
         Deliver(Only(Head(mq).pid), [type |-> "RESOURCE_RESPONSE", ok |-> ok])
  PROVE  /\ \A d \in Client :
              Len(inbox'[d]) <= Len(inbox[d]) + IF IsAsked(Head(mq), d) THEN 1 ELSE 0
         /\ \A d \in Client : \A k \in DOMAIN inbox'[d] :
              \/ \E j \in DOMAIN inbox[d] : inbox'[d][k] = inbox[d][j]
              \/ AnsweredAt(inbox'[d][k].type, pc[d]) /\ Connected(queues, d)
<1> DEFINE c == Head(mq).pid
           answer == [type |-> "RESOURCE_RESPONSE", ok |-> ok]
<1>1. /\ TypeOK /\ TableIsDense /\ mq # <<>> /\ Head(mq).type = "RESOURCE_REQUEST"
  BY DEF IInv, Handling
<1>2. c \in Client /\ \E j \in DOMAIN mq : Head(mq) = mq[j]
  BY <1>1, ReadyForHead
<1>3. Only(c) \in [Client -> Nat] /\ answer \in Answer
  BY DEF Only, Answer
<1>4. /\ \A d \in Client : Len(inbox'[d]) <= Len(inbox[d]) + Only(c)[d]
      /\ \A d \in Client : \A k \in DOMAIN inbox'[d] :
           \/ \E j \in DOMAIN inbox[d] : inbox'[d][k] = inbox[d][j]
           \/ inbox'[d][k] = answer /\ Only(c)[d] > 0 /\ FindByPid(d) = "found"
  BY <1>1, <1>3, DeliverGives
<1>5. \A d \in Client : Only(c)[d] = IF IsAsked(Head(mq), d) THEN 1 ELSE 0
  BY <1>1 DEF Only, IsAsked
<1>6. AnsweredAt("RESOURCE_RESPONSE", pc[c])
  <2>1. AskedAt("RESOURCE_REQUEST", pc[c])
    BY <1>1, <1>2 DEF IInv, Owed, IsAsked
  <2> QED
    BY <2>1 DEF AskedAt, AnsweredAt
<1>7. \A d \in Client : Only(c)[d] > 0 => d = c
  BY DEF Only
<1>8. \A d \in Client : FindByPid(d) = "found" => Connected(queues, d)
  BY <1>1, FoundIff
<1>9. \A d \in Client :
        Len(inbox'[d]) <= Len(inbox[d]) + IF IsAsked(Head(mq), d) THEN 1 ELSE 0
  <2> TAKE d \in Client
  <2>1. CASE IsAsked(Head(mq), d)
    BY <1>4, <1>5, <2>1
  <2>2. CASE ~IsAsked(Head(mq), d)
    BY <1>4, <1>5, <2>2
  <2> QED
    BY <2>1, <2>2
<1>10. \A d \in Client : \A k \in DOMAIN inbox'[d] :
         \/ \E j \in DOMAIN inbox[d] : inbox'[d][k] = inbox[d][j]
         \/ AnsweredAt(inbox'[d][k].type, pc[d]) /\ Connected(queues, d)
  BY <1>4, <1>6, <1>7, <1>8
<1> QED
  BY <1>9, <1>10

(* The handler of requests for resources, the wrong lengths included: of   *)
(* the two answers to a wrong length the second goes to nobody.            *)
LEMMA InvResource ==
  ASSUME IInv, TypeOK', HandleResource \/ HandleWrongLength
  PROVE  IInv'
<1>1. /\ TypeOK /\ mq # <<>> /\ server = "up" /\ Handling("RESOURCE_REQUEST")
  BY DEF HandleResource, HandleWrongLength, Handling, IInv
<1>2. inbox \in [Client -> Seq(Answer)] /\ batch \in Seq(Message)
  BY <1>1 DEF TypeOK
<1>3. CASE /\ \E ok \in BOOLEAN :
                Deliver(Only(Head(mq).pid), [type |-> "RESOURCE_RESPONSE", ok |-> ok])
           /\ mq' = Tail(mq)
           /\ UNCHANGED <<servervars, tablevars, batch, clientvars>>
  BY <1>1, <1>3, ResourceAnswered, InvTakes
<1>8. CASE /\ UNCHANGED inbox /\ mq' = Tail(mq)
           /\ UNCHANGED <<servervars, tablevars, batch, clientvars>>
  BY <1>1, <1>8, InvTakesSilently
<1>4. CASE Fall(Tail(mq)) /\ UNCHANGED inbox
  <2>1. ASSUME NEW d \in Client
        PROVE  Len(inbox'[d]) <= Asked(batch, d) + Len(inbox[d])
                                 + IF IsAsked(Head(mq), d) THEN 1 ELSE 0
    <3>1. Asked(batch, d) \in Nat /\ Len(inbox[d]) \in Nat /\ inbox' = inbox
      BY <1>2, <1>4, AskedNat, LenProperties
    <3> QED
      BY <3>1
  <2> QED
    BY <1>1, <1>4, <2>1, InvTakesAndFalls
<1>5. CASE /\ Deliver(Only(Head(mq).pid), [type |-> "RESOURCE_RESPONSE", ok |-> FALSE])
           /\ Fall(Tail(mq))
  <2>1. /\ \A d \in Client :
             Len(inbox'[d]) <= Len(inbox[d]) + IF IsAsked(Head(mq), d) THEN 1 ELSE 0
        /\ \A d \in Client : \A k \in DOMAIN inbox'[d] :
             \/ \E j \in DOMAIN inbox[d] : inbox'[d][k] = inbox[d][j]
             \/ AnsweredAt(inbox'[d][k].type, pc[d]) /\ Connected(queues, d)
    BY <1>1, <1>5, ResourceAnswered
  <2>2. ASSUME NEW d \in Client
        PROVE  Len(inbox'[d]) <= Asked(batch, d) + Len(inbox[d])
                                 + IF IsAsked(Head(mq), d) THEN 1 ELSE 0
    <3>1. /\ Asked(batch, d) \in Nat /\ Len(inbox[d]) \in Nat /\ Len(inbox'[d]) \in Nat
      BY <1>2, AskedNat, LenProperties DEF TypeOK
    <3>2. CASE IsAsked(Head(mq), d)
      <4>1. Len(inbox'[d]) <= Len(inbox[d]) + 1
        BY <2>1, <3>2
      <4> QED
        BY <3>1, <3>2, <4>1
    <3>3. CASE ~IsAsked(Head(mq), d)
      <4>1. Len(inbox'[d]) <= Len(inbox[d]) + 0
        BY <2>1, <3>3
      <4> QED
        BY <3>1, <3>3, <4>1
    <3> QED
      BY <3>2, <3>3
  <2> QED
    BY <1>1, <1>5, <2>1, <2>2, InvTakesAndFalls
<1>6. CASE HandleResource
  <2>1. \/ Fall(Tail(mq)) /\ UNCHANGED inbox
        \/ /\ \/ \E ok \in BOOLEAN :
                   Deliver(Only(Head(mq).pid), [type |-> "RESOURCE_RESPONSE", ok |-> ok])
              \/ UNCHANGED inbox
           /\ mq' = Tail(mq)
           /\ UNCHANGED <<servervars, tablevars, batch, clientvars>>
    BY <1>6, Zenon DEF HandleResource
  <2> QED
    BY <1>3, <1>4, <1>8, <2>1
<1>7. CASE HandleWrongLength
  <2>1. /\ Deliver(Only(Head(mq).pid), [type |-> "RESOURCE_RESPONSE", ok |-> FALSE])
        /\ \/ Fall(Tail(mq))
           \/ mq' = Tail(mq) /\ UNCHANGED <<servervars, tablevars, batch, clientvars>>
    BY <1>7, Zenon DEF HandleWrongLength
  <2> QED
    BY <1>3, <1>5, <2>1
<1> QED
  BY <1>6, <1>7

(* The answers of a batch go to clients that wait for them.                *)
LEMMA FilesAnswered ==
  ASSUME IInv, mq # <<>>, Head(mq).type \in {"READ_REQUEST", "WRITE_REQUEST"},
         NEW to \in [Client -> Nat], \A d \in Client : to[d] <= ReadsOf[d],
         Deliver(to, FileAnswer), TypeOK'
  PROVE  /\ \A d \in Client :
              Len(inbox'[d]) <= Asked(batch, d) + Len(inbox[d])
                                + IF IsAsked(Head(mq), d) THEN 1 ELSE 0
         /\ \A d \in Client : \A k \in DOMAIN inbox'[d] :
              \/ \E j \in DOMAIN inbox[d] : inbox'[d][k] = inbox[d][j]
              \/ AnsweredAt(inbox'[d][k].type, pc[d]) /\ Connected(queues, d)
<1>1. TypeOK /\ TableIsDense
  BY DEF IInv
<1>2. /\ Full \in Seq(Message) /\ batch \in Seq(Message)
      /\ \A i \in DOMAIN Full :
           (\E j \in DOMAIN batch : Full[i] = batch[j]) \/ Full[i] = Head(mq)
      /\ \A c : Asked(Full, c) =
                  Asked(batch, c) + IF IsAsked(Head(mq), c) THEN 1 ELSE 0
      /\ \E j \in DOMAIN mq : Head(mq) = mq[j]
  BY <1>1, FullGives, ReadyForHead
<1>3. FileAnswer \in Answer
  BY DEF FileAnswer, Answer
<1>4. /\ \A d \in Client : Len(inbox'[d]) <= Len(inbox[d]) + to[d]
      /\ \A d \in Client : \A k \in DOMAIN inbox'[d] :
           \/ \E j \in DOMAIN inbox[d] : inbox'[d][k] = inbox[d][j]
           \/ inbox'[d][k] = FileAnswer /\ to[d] > 0 /\ FindByPid(d) = "found"
  BY <1>1, <1>3, DeliverGives
<1>5. ASSUME NEW d \in Client
      PROVE  /\ to[d] \in Nat /\ ReadsOf[d] \in Nat /\ to[d] <= ReadsOf[d]
             /\ ReadsOf[d] <= Asked(Full, d)
             /\ ReadsOf[d] > 0 =>
                  \E i \in DOMAIN Full : IsAsked(Full[i], d) /\ Full[i].type = "READ_REQUEST"
  BY <1>2, ReadsGives DEF ReadsOf
<1>6. ASSUME NEW d \in Client
      PROVE  Len(inbox'[d]) <= Asked(batch, d) + Len(inbox[d])
                               + IF IsAsked(Head(mq), d) THEN 1 ELSE 0
  <2>1. /\ Asked(batch, d) \in Nat /\ Len(inbox[d]) \in Nat /\ Len(inbox'[d]) \in Nat
        /\ Asked(Full, d) \in Nat
    BY <1>1, <1>2, AskedNat, LenProperties DEF TypeOK
  <2>2. Len(inbox'[d]) <= Len(inbox[d]) + Asked(Full, d)
    <3>1. Len(inbox'[d]) <= Len(inbox[d]) + to[d] /\ to[d] <= Asked(Full, d) /\ to[d] \in Nat
      BY <1>4, <1>5, <2>1
    <3> QED
      BY <2>1, <3>1
  <2>3. CASE IsAsked(Head(mq), d)
    <3>1. Asked(Full, d) = Asked(batch, d) + 1
      BY <1>2, <2>3
    <3> QED
      BY <2>1, <2>2, <2>3, <3>1
  <2>4. CASE ~IsAsked(Head(mq), d)
    <3>1. Asked(Full, d) = Asked(batch, d) + 0
      BY <1>2, <2>4
    <3> QED
      BY <2>1, <2>2, <2>4, <3>1
  <2> QED
    BY <2>3, <2>4
<1>7. ASSUME NEW d \in Client, to[d] > 0
      PROVE  AnsweredAt("FILE_RESPONSE", pc[d])
  <2>1. ReadsOf[d] > 0
    BY <1>5, <1>7
  <2>2. PICK i \in DOMAIN Full : IsAsked(Full[i], d) /\ Full[i].type = "READ_REQUEST"
    BY <1>5, <2>1
  <2>3. AskedAt("READ_REQUEST", pc[d])
    BY <1>2, <2>2 DEF IInv, Owed
  <2> QED
    BY <2>3 DEF AskedAt, AnsweredAt
<1>8. \A d \in Client : FindByPid(d) = "found" => Connected(queues, d)
  BY <1>1, FoundIff
<1>9. FileAnswer.type = "FILE_RESPONSE"
  BY DEF FileAnswer
<1> QED
  BY <1>4, <1>6, <1>7, <1>8, <1>9

(* The handler of requests for files: it keeps the request, answers the    *)
(* whole batch, or falls.                                                  *)
LEMMA InvFile ==
  ASSUME IInv, TypeOK', HandleFile
  PROVE  IInv'
<1>1. /\ mq # <<>> /\ Head(mq).type \in {"READ_REQUEST", "WRITE_REQUEST"} /\ server = "up"
      /\ TypeOK
  BY FileCases DEF IInv
<1>2. /\ mq \in Seq(Message) /\ batch \in Seq(Message)
      /\ \E j \in DOMAIN mq : Head(mq) = mq[j]
      /\ \A i \in DOMAIN Tail(mq) : \E j \in DOMAIN mq : Tail(mq)[i] = mq[j]
  BY <1>1, TailGives, ReadyForHead
<1>3. ASSUME NEW d \in Client
      PROVE  /\ Asked(mq, d) = Asked(Tail(mq), d) + IF IsAsked(Head(mq), d) THEN 1 ELSE 0
             /\ Asked(Tail(mq), d) \in Nat /\ Asked(mq, d) \in Nat /\ Asked(batch, d) \in Nat
  BY <1>1, <1>2, TailGives, AskedNat
<1>4. CASE /\ batch' = Full /\ mq' = Tail(mq)
           /\ UNCHANGED <<servervars, tablevars, clientvars, inbox>>
  <2>1. /\ \A i \in DOMAIN Full :
             (\E j \in DOMAIN batch : Full[i] = batch[j]) \/ Full[i] = Head(mq)
        /\ \A c : Asked(Full, c) =
                    Asked(batch, c) + IF IsAsked(Head(mq), c) THEN 1 ELSE 0
    BY <1>1, FullGives
  <2>2. TableIsDense' /\ OnlyFiles' /\ Newcomers' /\ Known' /\ Idle'
    BY <1>1, <1>2, <1>4, <2>1, ServerOn DEF servervars, tablevars, clientvars
  <2>3. ASSUME NEW d \in Client
        PROVE  Owed(d)'
    <3>1. Asked(mq', d) + Asked(batch', d) + Len(inbox'[d])
            <= Asked(mq, d) + Asked(batch, d) + Len(inbox[d])
      <4>1. Len(inbox[d]) \in Nat /\ inbox'[d] = inbox[d]
        BY <1>1, <1>4, LenProperties DEF TypeOK
      <4>2. CASE IsAsked(Head(mq), d)
        <5>1. Asked(batch', d) = Asked(batch, d) + 1 /\ Asked(mq, d) = Asked(mq', d) + 1
          BY <1>3, <1>4, <2>1, <4>2
        <5>2. Asked(mq', d) \in Nat /\ Asked(batch, d) \in Nat
          BY <1>3, <1>4
        <5> QED
          BY <4>1, <5>1, <5>2
      <4>3. CASE ~IsAsked(Head(mq), d)
        <5>1. Asked(batch', d) = Asked(batch, d) + 0 /\ Asked(mq, d) = Asked(mq', d) + 0
          BY <1>3, <1>4, <2>1, <4>3
        <5>2. Asked(mq', d) \in Nat /\ Asked(batch, d) \in Nat
          BY <1>3, <1>4
        <5> QED
          BY <4>1, <5>1, <5>2
      <4> QED
        BY <4>2, <4>3
    <3>2. Owed(d) /\ pc' = pc /\ inbox' = inbox
      BY <1>4 DEF IInv, clientvars
    <3> QED
      BY <1>1, <1>2, <1>4, <2>1, <3>1, <3>2, ServerOwed
  <2> QED
    BY <2>2, <2>3 DEF IInv
<1>5. ASSUME NEW some \in [Client -> 0 .. RW_BUFF_SIZE], Fall(Tail(mq)),
             \A c \in Client : some[c] <= ReadsOf[c], Deliver(some, FileAnswer)
      PROVE  IInv'
  <2>1. some \in [Client -> Nat]
    OBVIOUS
  <2> QED
    BY <1>1, <1>5, <2>1, FilesAnswered, InvTakesAndFalls
<1>6. ASSUME NEW some \in [Client -> 0 .. RW_BUFF_SIZE],
             \A c \in Client : some[c] <= ReadsOf[c], Deliver(some, FileAnswer),
             batch' = <<>> /\ mq' = Tail(mq),
             UNCHANGED <<servervars, tablevars, clientvars>>
      PROVE  IInv'
  <2>1. some \in [Client -> Nat]
    OBVIOUS
  <2>2. /\ \A d \in Client :
             Len(inbox'[d]) <= Asked(batch, d) + Len(inbox[d])
                               + IF IsAsked(Head(mq), d) THEN 1 ELSE 0
        /\ \A d \in Client : \A k \in DOMAIN inbox'[d] :
             \/ \E j \in DOMAIN inbox[d] : inbox'[d][k] = inbox[d][j]
             \/ AnsweredAt(inbox'[d][k].type, pc[d]) /\ Connected(queues, d)
    BY <1>1, <1>6, <2>1, FilesAnswered
  <2>3. DOMAIN batch' = {}
    BY <1>6
  <2>4. TableIsDense' /\ OnlyFiles' /\ Newcomers' /\ Known' /\ Idle'
    BY <1>1, <1>2, <1>6, <2>2, <2>3, ServerOn DEF servervars, tablevars, clientvars
  <2>5. ASSUME NEW d \in Client
        PROVE  Owed(d)'
    <3>1. Asked(mq', d) + Asked(batch', d) + Len(inbox'[d])
            <= Asked(mq, d) + Asked(batch, d) + Len(inbox[d])
      <4>1. Len(inbox[d]) \in Nat /\ Len(inbox'[d]) \in Nat
        BY <1>1, LenProperties DEF TypeOK
      <4>2. Asked(batch', d) = 0
        BY <1>6, AskedEmpty
      <4>3. CASE IsAsked(Head(mq), d)
        <5>1. Asked(mq, d) = Asked(mq', d) + 1
          BY <1>3, <1>6, <4>3
        <5>2. Len(inbox'[d]) <= Asked(batch, d) + Len(inbox[d]) + 1
          BY <2>2, <4>3
        <5>3. Asked(mq', d) \in Nat /\ Asked(batch, d) \in Nat
          BY <1>3, <1>6
        <5> QED
          BY <4>1, <4>2, <5>1, <5>2, <5>3
      <4>4. CASE ~IsAsked(Head(mq), d)
        <5>1. Asked(mq, d) = Asked(mq', d) + 0
          BY <1>3, <1>6, <4>4
        <5>2. Len(inbox'[d]) <= Asked(batch, d) + Len(inbox[d]) + 0
          BY <2>2, <4>4
        <5>3. Asked(mq', d) \in Nat /\ Asked(batch, d) \in Nat
          BY <1>3, <1>6
        <5> QED
          BY <4>1, <4>2, <5>1, <5>2, <5>3
      <4> QED
        BY <4>3, <4>4
    <3>2. Owed(d) /\ pc' = pc
      BY <1>6 DEF IInv, clientvars
    <3> QED
      BY <1>1, <1>2, <1>6, <2>2, <2>3, <3>1, <3>2, ServerOwed
  <2> QED
    BY <2>4, <2>5 DEF IInv
<1> QED
  BY <1>4, <1>5, <1>6, FileCases

(* Every handler keeps the invariant.                                      *)
LEMMA InvHandle ==
  ASSUME IInv, TypeOK', Handle
  PROVE  IInv'
<1>1. CASE HandleFinalize
  <2>1. /\ mq # <<>> /\ server = "up" /\ mq' = Tail(mq) /\ TypeOK
        /\ UNCHANGED <<servervars, tablevars, batch, clientvars>> /\ inbox' = inbox
    BY <1>1 DEF HandleFinalize, Handling, IInv
  <2> QED
    BY <2>1, InvTakesSilently
<1> QED
  BY <1>1, InvConnect, InvResource, InvFile DEF Handle

(* The server ends, falls or starts.                                       *)
LEMMA InvLoses ==
  ASSUME IInv, TypeOK', pc' = pc, inbox' = inbox, mq' = <<>>, batch' = <<>>, attached' = {},
         \/ server' # "up" /\ queues' = NoConnections /\ active_count' = 0
         \/ UNCHANGED <<queues, active_count>>
  PROVE  IInv'
<1>1. TypeOK /\ <<>> \in Seq(Message) /\ DOMAIN mq' = {} /\ DOMAIN batch' = {}
  BY DEF IInv
<1>2. ASSUME NEW d \in Client
      PROVE  Owed(d)'
  <2>1. /\ Asked(mq, d) \in Nat /\ Asked(batch, d) \in Nat /\ Len(inbox[d]) \in Nat
        /\ Asked(mq', d) = 0 /\ Asked(batch', d) = 0
    BY <1>1, AskedNat, AskedEmpty, LenProperties DEF TypeOK
  <2>2. Asked(mq', d) + Asked(batch', d) + Len(inbox'[d])
          <= Asked(mq, d) + Asked(batch, d) + Len(inbox[d])
    BY <2>1
  <2>3. Owed(d)
    BY DEF IInv
  <2> QED
    BY <1>1, <2>2, <2>3, ServerOwed
<1>3. CASE server' # "up" /\ queues' = NoConnections /\ active_count' = 0
  <2>1. TableIsDense' /\ OnlyFiles' /\ Newcomers' /\ Known' /\ Idle'
    BY <1>3, ServerDown
  <2> QED
    BY <1>2, <2>1 DEF IInv
<1>4. CASE UNCHANGED <<queues, active_count>>
  <2>1. TableIsDense' /\ OnlyFiles' /\ Newcomers' /\ Known' /\ Idle'
    BY <1>1, <1>4
       DEF IInv, TableIsDense, OnlyFiles, Newcomers, Known, Idle, Connected
  <2> QED
    BY <1>2, <2>1 DEF IInv
<1> QED
  BY <1>3, <1>4

(* The queue and the batch stay as they are.                               *)
LEMMA InvKeeps ==
  ASSUME IInv, TypeOK', UNCHANGED <<mq, batch, tablevars, pc, attached, inbox>>,
         \/ server' = server /\ own_queue' = own_queue
         \/ server # "up" /\ ~own_queue'
  PROVE  IInv'
<1>1. TableIsDense' /\ OnlyFiles' /\ Newcomers' /\ Known' /\ Idle'
  BY DEF IInv, TableIsDense, OnlyFiles, Newcomers, Known, Idle, Connected, tablevars
<1>2. \A d \in Client : Owed(d)'
  BY DEF IInv, Owed, UnderWay, IsAsked
<1> QED
  BY <1>1, <1>2 DEF IInv

(* Every step keeps the invariant.                                         *)
LEMMA InvNext == IInv /\ [Next]_vars => IInv'
<1> SUFFICES ASSUME IInv, [Next]_vars PROVE IInv'
  OBVIOUS
<1>1. TypeOK /\ TypeOK'
  BY TypeNext DEF IInv
<1>2. CASE \E c \in Client : ClientStep(c)
  BY <1>2, InvClient
<1>3. CASE Handle
  BY <1>1, <1>3, InvHandle
<1>4. CASE Crash
  <2>1. /\ Fall(mq) /\ inbox' = inbox /\ mq \in Seq(Message) /\ Len(mq) <= Capacity
    BY <1>1, <1>4 DEF Crash, TypeOK
  <2>2. ASSUME NEW d \in Client
        PROVE  Asked(mq, d) + Len(inbox'[d])
                 <= Asked(mq, d) + Asked(batch, d) + Len(inbox[d])
    <3>1. Asked(mq, d) \in Nat /\ Asked(batch, d) \in Nat /\ Len(inbox[d]) \in Nat
      BY <1>1, AskedNat, LenProperties DEF TypeOK
    <3> QED
      BY <2>1, <3>1
  <2> QED
    BY <1>1, <2>1, <2>2, InvFalls
<1>5. CASE Quit
  BY <1>1, <1>5, InvLoses DEF Quit, LoseQueue
<1>6. CASE StartServer
  <2>1. CASE named
    <3>1. /\ UNCHANGED <<mq, batch, tablevars, pc, attached, inbox>>
          /\ server # "up" /\ ~own_queue'
      BY <1>6, <2>1 DEF StartServer
    <3> QED
      BY <1>1, <3>1, InvKeeps
  <2>2. CASE ~named
    <3>1. /\ UNCHANGED <<batch, tablevars, pc, inbox>> /\ mq' = <<>> /\ attached' = {}
          /\ server # "up"
      BY <1>6, <2>2 DEF StartServer, LoseQueue
    <3>2. batch' = <<>>
      BY <3>1 DEF IInv, Idle
    <3> QED
      BY <1>1, <3>1, <3>2, InvLoses DEF tablevars
  <2> QED
    BY <2>1, <2>2
<1>7. CASE FailToStart
  <2>1. CASE server = "up"
    <3>1. UNCHANGED <<mq, batch, tablevars, pc, attached, inbox, server, own_queue>>
      BY <1>7, <2>1 DEF FailToStart
    <3> QED
      BY <1>1, <3>1, InvKeeps
  <2>2. CASE server # "up"
    <3>1. /\ UNCHANGED <<batch, tablevars, pc, inbox>> /\ mq' = <<>> /\ attached' = {}
      BY <1>7, <2>2 DEF FailToStart, LoseQueue
    <3>2. batch' = <<>>
      BY <2>2, <3>1 DEF IInv, Idle
    <3> QED
      BY <1>1, <3>1, <3>2, InvLoses DEF tablevars
  <2> QED
    BY <2>1, <2>2
<1>8. CASE UNCHANGED vars
  BY <1>1, <1>8, InvKeeps DEF vars, servervars, clientvars
<1> QED
  BY <1>2, <1>3, <1>4, <1>5, <1>6, <1>7, <1>8 DEF Next

(* The invariant holds at the start.                                       *)
LEMMA InvInit == Init => IInv
<1> SUFFICES ASSUME Init PROVE IInv
  OBVIOUS
<1>1. TypeOK
  BY TypeInit
<1>2. DOMAIN mq = {} /\ DOMAIN batch = {} /\ attached = {}
  BY DEF Init
<1>3. \A i \in Slot : queues[i] = NULL /\ ~(i < active_count)
  BY SizeAssumption DEF Init, NoConnections, Slot
<1>4. \A d \in Client : ~Connected(queues, d)
  BY <1>3, NullAssumption DEF Connected
<1>5. TableIsDense /\ OnlyFiles /\ Newcomers /\ Known /\ Idle
  BY <1>2, <1>3, <1>4 DEF TableIsDense, OnlyFiles, Newcomers, Known, Idle, Init
<1>6. ASSUME NEW d \in Client
      PROVE  Owed(d)
  <2>1. /\ Asked(mq, d) = 0 /\ Asked(batch, d) = 0 /\ Len(inbox[d]) = 0
        /\ DOMAIN inbox[d] = {}
    BY AskedEmpty DEF Init
  <2>2. UnderWay(d) = 0
    BY <2>1 DEF UnderWay
  <2> QED
    BY <1>2, <2>1, <2>2 DEF Owed
<1> QED
  BY <1>1, <1>5, <1>6 DEF IInv

-----------------------------------------------------------------------------
(* Nobody is forgotten.  What is under way, as a sum of naturals.          *)
LEMMA UnderWayIs ==
  ASSUME TypeOK, NEW d \in Client
  PROVE  /\ Asked(mq, d) \in Nat /\ Asked(batch, d) \in Nat /\ Len(inbox[d]) \in Nat
         /\ UnderWay(d) = Asked(mq, d) + Asked(batch, d) + Len(inbox[d])
         /\ UnderWay(d) \in Nat
BY UnderWayNat DEF TypeOK, UnderWay

(* A step that leaves the server up and the table as it is takes nothing   *)
(* away without an answer.                                                 *)
LEMMA StaysAttended ==
  ASSUME TypeOK, Attended, server = "up", server' = "up", UNCHANGED <<queues, pc, attached>>,
         \A i \in DOMAIN mq' : \E j \in DOMAIN mq : mq'[i] = mq[j],
         overlong \subseteq overlong',
         \A d \in Client \ overlong' :
           Connected(queues, d) => UnderWay(d) \in Nat /\ UnderWay(d)' \in Nat
                                   /\ UnderWay(d) <= UnderWay(d)'
  PROVE  Attended'
<1>1. \A d : Connected(queues', d) <=> Connected(queues, d)
  BY DEF Connected
<1>2. \A c \in Client : Connected(queues, c) /\ pc[c] \in Present => c \in attached
  BY DEF Attended
<1>3. \A i \in DOMAIN mq' :
        mq'[i].type = "CLIENT_CONNECTION_REQUEST" /\ pc[mq'[i].pid] \in Present
          => mq'[i].pid \in attached
  BY DEF Attended
<1>4. ASSUME NEW d \in Client \ overlong', Connected(queues, d),
             pc[d] \in {"acking", "awaiting", "reading"}
      PROVE  UnderWay(d)' # 0
  <2>1. UnderWay(d) # 0
    BY <1>4 DEF Attended
  <2>2. UnderWay(d) \in Nat /\ UnderWay(d)' \in Nat /\ UnderWay(d) <= UnderWay(d)'
    BY <1>4
  <2> QED
    BY <2>1, <2>2
<1> QED
  BY <1>1, <1>2, <1>3, <1>4 DEF Attended

(* Where the server knows nobody.                                          *)
LEMMA AttendedByNobody ==
  ASSUME Attended, UNCHANGED pc,
         \A d \in Client : ~Connected(queues', d),
         \/ attached' = attached /\ \A i \in DOMAIN mq' : \E j \in DOMAIN mq : mq'[i] = mq[j]
         \/ DOMAIN mq' = {}
  PROVE  Attended'
<1>1. \A i \in DOMAIN mq' :
        mq'[i].type = "CLIENT_CONNECTION_REQUEST" /\ pc[mq'[i].pid] \in Present
          => mq'[i].pid \in attached'
  BY DEF Attended
<1> QED
  BY <1>1 DEF Attended

(* A step of a client: it waits only after it has sent something to the    *)
(* server it is attached to.                                               *)
LEMMA AttendedClient ==
  ASSUME IInv, Attended, NEW c \in Client, ClientStep(c), TypeOK'
  PROVE  Attended'
<1>1. /\ TypeOK /\ UNCHANGED <<server, queues, batch>>
      /\ \A d \in Client : d # c => pc'[d] = pc[d] /\ inbox'[d] = inbox[d]
      /\ UNCHANGED <<mq, overlong>> \/ \E type \in Request : Send(c, type)
      /\ \A d \in attached : d # c => d \in attached'
  BY ClientGives DEF IInv, servervars, tablevars
<1>2. \A d : Connected(queues', d) <=> Connected(queues, d)
  BY <1>1 DEF Connected
<1>3. /\ overlong \subseteq overlong'
      /\ \A d : Asked(mq, d) \in Nat /\ Asked(mq', d) \in Nat
               /\ Asked(mq, d) <= Asked(mq', d)
  <2>1. \A d : Asked(mq, d) \in Nat
    BY <1>1, AskedNat DEF TypeOK
  <2>2. CASE UNCHANGED <<mq, overlong>>
    BY <2>1, <2>2
  <2>3. CASE \E type \in Request : Send(c, type)
    BY <1>1, <2>3, SendGives
  <2> QED
    BY <1>1, <2>2, <2>3
<1>4. pc \in [Client -> Place] /\ pc' \in [Client -> Place]
  BY <1>1 DEF TypeOK
<1>5. pc'[c] \in Present /\ Connected(queues, c) =>
        pc[c] \in Present /\ attached' = attached
  <2>1. CASE Start(c)
    <3>1. pc'[c] \in {"ended", "connecting"}
      BY <1>4, <2>1 DEF Start, Exit, Goto
    <3> QED
      BY <3>1 DEF Present
  <2>2. CASE Connect(c)
    <3>1. ~Connected(queues, c)
      BY <2>2 DEF Connect, IInv, Newcomers
    <3> QED
      BY <3>1
  <2>3. CASE Acked(c)
    BY <1>4, <2>3 DEF Acked, Exit, Goto, Present
  <2>4. CASE Answered(c) \/ Ask(c)
    BY <2>4 DEF Answered, Ask, Present
  <2>5. CASE Finalize(c) \/ Die(c)
    <3>1. pc'[c] \in {"ended", "dead"}
      BY <1>4, <2>5 DEF Finalize, Die, Exit, Goto
    <3> QED
      BY <3>1 DEF Present
  <2> QED
    BY <2>1, <2>2, <2>3, <2>4, <2>5 DEF ClientStep, Receives
<1>6. ASSUME NEW d \in Client, Connected(queues, d), pc'[d] \in Present
      PROVE  d \in attached'
  <2>1. CASE d = c
    BY <1>5, <1>6, <2>1 DEF Attended
  <2>2. CASE d # c
    BY <1>1, <1>6, <2>2 DEF Attended
  <2> QED
    BY <2>1, <2>2
<1>7. ASSUME NEW i \in DOMAIN mq', mq'[i].type = "CLIENT_CONNECTION_REQUEST",
             pc'[mq'[i].pid] \in Present
      PROVE  mq'[i].pid \in attached'
  <2>1. mq'[i].pid \in Client
    BY PidsAreClients DEF TypeOK
  <2>2. CASE mq'[i].pid # c
    <3>1. \E j \in DOMAIN mq : mq'[i] = mq[j]
      <4>1. CASE UNCHANGED mq
        BY <4>1
      <4>2. ASSUME NEW type \in Request, Send(c, type)
            PROVE  <3>1
        <5>1. mq'[i] # [type |-> type, pid |-> c]
          BY <2>2
        <5> QED
          BY <1>1, <4>2, <5>1, SendGives
      <4> QED
        BY <1>1, <4>1, <4>2
    <3> QED
      BY <1>1, <1>7, <2>1, <2>2, <3>1 DEF Attended
  <2>3. CASE mq'[i].pid = c
    <3>1. CASE Connect(c)
      <4>1. /\ pc[c] = "connecting" /\ Send(c, "CLIENT_CONNECTION_REQUEST")
            /\ attached' = attached
        BY <3>1 DEF Connect, Send
      <4>2. \A j \in DOMAIN mq : ~IsAsked(mq[j], c)
        <5>1. UnderWay(c) = 0
          BY <4>1 DEF IInv, Owed
        <5> QED
          BY <1>1, <5>1, UnderWayNat DEF TypeOK, UnderWay
      <4>3. IsAsked(mq'[i], c)
        BY <1>7, <2>3 DEF IsAsked
      <4>4. "CLIENT_CONNECTION_REQUEST" \in Request
        BY DEF Request
      <4>5. c \in attached
        BY <1>1, <4>1, <4>2, <4>3, <4>4, SendGives
      <4> QED
        BY <2>3, <4>1, <4>5
    <3>2. CASE ~Connect(c)
      <4>1. \E j \in DOMAIN mq : mq'[i] = mq[j]
        <5>1. CASE UNCHANGED mq
          BY <5>1
        <5>2. ASSUME NEW type \in Request, type # "CLIENT_CONNECTION_REQUEST", Send(c, type)
              PROVE  <4>1
          <6>1. mq'[i] # [type |-> type, pid |-> c]
            BY <1>7, <5>2
          <6> QED
            BY <1>1, <5>2, <6>1, SendGives
        <5> QED
          BY <3>2, <5>1, <5>2
             DEF ClientStep, Start, Receives, Acked, Answered, Ask, Finalize, Die,
                 Send, Request
      <4>2. AskedAt("CLIENT_CONNECTION_REQUEST", pc[c])
        BY <1>7, <2>3, <4>1 DEF IInv, Owed, IsAsked
      <4>3. pc[c] = "acking" \/ pc[c] = "dead"
        BY <4>2 DEF AskedAt
      <4>4. pc[c] = "acking" => c \in attached
        BY <1>7, <2>3, <4>1 DEF Attended, Present
      <4>5. pc[c] = "acking" => attached' = attached
        <5>1. CASE Acked(c)
          <6>1. pc'[c] = "ended" \/ attached' = attached
            BY <1>4, <5>1 DEF Acked, Exit, Goto
          <6> QED
            BY <1>7, <2>3, <6>1 DEF Present
        <5>2. CASE Die(c)
          <6>1. pc'[c] = "dead"
            BY <1>4, <5>2 DEF Die, Exit, Goto
          <6> QED
            BY <1>7, <2>3, <6>1 DEF Present
        <5> QED
          BY <3>2, <5>1, <5>2 DEF ClientStep, Receives, Start, Answered, Ask, Finalize
      <4>6. pc[c] # "dead"
        <5>1. pc[c] = "dead" => pc'[c] = pc[c]
          BY <3>2 DEF ClientStep, Receives, Start, Acked, Answered, Ask, Finalize, Die
        <5> QED
          BY <1>7, <2>3, <5>1 DEF Present
      <4> QED
        BY <2>3, <4>3, <4>4, <4>5, <4>6
    <3> QED
      BY <3>1, <3>2
  <2> QED
    BY <2>2, <2>3
<1>8. ASSUME NEW d \in Client \ overlong', Connected(queues, d),
             pc'[d] \in {"acking", "awaiting", "reading"}
      PROVE  UnderWay(d)' # 0
  <2>1. /\ UnderWay(d) = Asked(mq, d) + Asked(batch, d) + Len(inbox[d])
        /\ UnderWay(d)' = Asked(mq', d) + Asked(batch', d) + Len(inbox'[d])
        /\ Asked(batch', d) = Asked(batch, d)
        /\ Asked(batch, d) \in Nat /\ Len(inbox[d]) \in Nat /\ Len(inbox'[d]) \in Nat
    BY <1>1, AskedNat, LenProperties DEF UnderWay, TypeOK
  <2>2. CASE d # c
    <3>1. UnderWay(d) # 0
      BY <1>1, <1>3, <1>8, <2>2 DEF Attended
    <3>2. inbox'[d] = inbox[d] /\ Asked(mq, d) <= Asked(mq', d)
          /\ Asked(mq, d) \in Nat /\ Asked(mq', d) \in Nat
      BY <1>1, <1>3, <2>2
    <3> QED
      BY <2>1, <3>1, <3>2
  <2>3. CASE d = c
    <3>1. Ask(c)
      <4>1. pc'[c] \in {"acking", "awaiting", "reading"} /\ Connected(queues, c)
        BY <1>8, <2>3
      <4>2. ~Connect(c)
        BY <4>1 DEF Connect, IInv, Newcomers
      <4>3. ~Start(c) /\ ~Acked(c) /\ ~Answered(c) /\ ~Finalize(c) /\ ~Die(c)
        BY <1>4, <4>1 DEF Start, Acked, Answered, Finalize, Die, Exit, Goto
      <4> QED
        BY <4>2, <4>3 DEF ClientStep, Receives
    <3>2. PICK type \in {"RESOURCE_REQUEST", "READ_REQUEST", "WRITE_REQUEST"} :
            Send(c, type) /\ pc'[c] = AfterRequest(type)
      BY <1>4, <3>1 DEF Ask, Goto
    <3>3. type # "WRITE_REQUEST"
      BY <1>8, <2>3, <3>2 DEF AfterRequest
    <3>4. IsAsked([type |-> type, pid |-> c], c) /\ type \in Request
      BY <3>3 DEF IsAsked, Request
    <3>5. c \in attached
      BY <1>8, <2>3, <3>1 DEF Ask, Attended, Present
    <3>6. Asked(mq', c) = Asked(mq, c) + 1
      BY <1>1, <1>8, <2>3, <3>2, <3>4, <3>5, SendGives
    <3>7. Asked(mq, c) \in Nat
      BY <1>3
    <3> QED
      BY <2>1, <2>3, <3>6, <3>7
  <2> QED
    BY <2>2, <2>3
<1> QED
  BY <1>1, <1>2, <1>6, <1>7, <1>8 DEF Attended

(* The connection handler: the new client gets its answer.                 *)
LEMMA AttendedConnect ==
  ASSUME IInv, Attended, HandleConnect, TypeOK'
  PROVE  Attended'
<1> DEFINE c == Head(mq).pid
           ack == [type |-> "SERVER_ACK", ok |-> HasSpace]
<1>1. /\ TypeOK /\ mq # <<>> /\ Head(mq).type = "CLIENT_CONNECTION_REQUEST"
      /\ mq' = Tail(mq)
      /\ UNCHANGED <<server, batch, pc, attached, overlong>> /\ server = "up"
      /\ inbox' = [d \in Client |-> IF d = c THEN Append(inbox[d], ack) ELSE inbox[d]]
  BY DEF HandleConnect, Handling, AckTo, IInv, clientvars, servervars
<1>2. c \in Client /\ \A i \in DOMAIN mq' : \E j \in DOMAIN mq : mq'[i] = mq[j]
  BY <1>1, TailGives, ReadyForHead
<1>3. \A d \in Client : Connected(queues', d) => Connected(queues, d) \/ d = c
  BY <1>1 DEF HandleConnect, tablevars, Connected, TypeOK
<1>4. pc[c] \in Present => c \in attached
  BY <1>1, TailGives DEF Attended
<1>5. \A d \in Client : Connected(queues', d) /\ pc'[d] \in Present => d \in attached'
  BY <1>1, <1>3, <1>4 DEF Attended
<1>6. \A i \in DOMAIN mq' :
        mq'[i].type = "CLIENT_CONNECTION_REQUEST" /\ pc'[mq'[i].pid] \in Present
          => mq'[i].pid \in attached'
  BY <1>1, <1>2 DEF Attended
<1>7. ASSUME NEW d \in Client \ overlong', Connected(queues', d),
             pc'[d] \in {"acking", "awaiting", "reading"}
      PROVE  UnderWay(d)' # 0
  <2>1. /\ Asked(mq', d) \in Nat /\ Asked(batch', d) \in Nat /\ Len(inbox'[d]) \in Nat
        /\ UnderWay(d)' = Asked(mq', d) + Asked(batch', d) + Len(inbox'[d])
    BY UnderWayNat DEF TypeOK, UnderWay
  <2>2. CASE d = c
    <3>1. inbox'[d] = Append(inbox[d], ack) /\ inbox[d] \in Seq(Answer) /\ ack \in Answer
      BY <1>1, <2>2 DEF TypeOK, Answer, HasSpace
    <3> HIDE DEF ack
    <3>2. Len(inbox'[d]) = Len(inbox[d]) + 1 /\ Len(inbox[d]) \in Nat
      BY <3>1, AppendProperties, LenProperties
    <3> QED
      BY <2>1, <3>2
  <2>3. CASE d # c
    <3>1. UnderWay(d) # 0
      BY <1>1, <1>3, <1>7, <2>3 DEF Attended
    <3>2. ~IsAsked(Head(mq), d) /\ inbox'[d] = inbox[d] /\ batch' = batch
      BY <1>1, <2>3 DEF IsAsked
    <3>3. Asked(mq, d) = Asked(mq', d) + 0
      BY <1>1, <3>2, TailGives
    <3>4. UnderWay(d) = Asked(mq, d) + Asked(batch, d) + Len(inbox[d])
      BY DEF UnderWay
    <3> QED
      BY <2>1, <3>1, <3>2, <3>3, <3>4
  <2> QED
    BY <2>2, <2>3
<1> QED
  BY <1>1, <1>5, <1>6, <1>7 DEF Attended

(* A handler that takes the message at the head, and answers it if it is a *)
(* question, or has the answer refused.                                    *)
LEMMA AttendedTakes ==
  ASSUME TypeOK, TypeOK', Attended, server = "up", mq # <<>>, mq' = Tail(mq),
         UNCHANGED <<servervars, tablevars, batch, clientvars>>,
         overlong \subseteq overlong',
         \A d \in Client \ overlong' :
           Connected(queues, d) =>
             Len(inbox'[d]) = Len(inbox[d]) + IF IsAsked(Head(mq), d) THEN 1 ELSE 0
  PROVE  Attended'
<1>1. \A i \in DOMAIN mq' : \E j \in DOMAIN mq : mq'[i] = mq[j]
  BY TailGives
<1>2. ASSUME NEW d \in Client \ overlong', Connected(queues, d)
      PROVE  UnderWay(d) \in Nat /\ UnderWay(d)' \in Nat /\ UnderWay(d) <= UnderWay(d)'
  <2>1. /\ Asked(mq, d) \in Nat /\ Asked(batch, d) \in Nat /\ Len(inbox[d]) \in Nat
        /\ UnderWay(d) = Asked(mq, d) + Asked(batch, d) + Len(inbox[d])
        /\ Asked(mq', d) \in Nat
        /\ UnderWay(d)' = Asked(mq', d) + Asked(batch, d) + Len(inbox'[d])
    BY AskedNat, LenProperties DEF UnderWay, TypeOK
  <2>2. CASE IsAsked(Head(mq), d)
    <3>1. Asked(mq, d) = Asked(mq', d) + 1 /\ Len(inbox'[d]) = Len(inbox[d]) + 1
      BY <1>2, <2>2, TailGives
    <3> QED
      BY <2>1, <3>1
  <2>3. CASE ~IsAsked(Head(mq), d)
    <3>1. Asked(mq, d) = Asked(mq', d) + 0 /\ Len(inbox'[d]) = Len(inbox[d]) + 0
      BY <1>2, <2>3, TailGives
    <3> QED
      BY <2>1, <3>1
  <2> QED
    BY <2>2, <2>3
<1> QED
  BY <1>1, <1>2, StaysAttended DEF servervars, tablevars, clientvars

(* A request for resources of a client in the table is answered.           *)
LEMMA AttendedResource ==
  ASSUME IInv, Attended, HandleResource \/ HandleWrongLength, TypeOK', server' = "up"
  PROVE  Attended'
<1> DEFINE c == Head(mq).pid
<1>1. /\ TypeOK /\ TableIsDense /\ server = "up" /\ mq # <<>>
      /\ Head(mq).type = "RESOURCE_REQUEST"
  BY DEF HandleResource, HandleWrongLength, Handling, IInv
<1>2. ~Fall(Tail(mq))
  BY DEF Fall
<1>3. /\ mq' = Tail(mq)
      /\ UNCHANGED <<servervars, tablevars, batch, clientvars>>
      /\ \/ /\ \E ok \in BOOLEAN :
                 Deliver(Only(c), [type |-> "RESOURCE_RESPONSE", ok |-> ok])
            /\ UNCHANGED overlong
         \/ overlong' = overlong \cup {c} /\ UNCHANGED inbox
  BY <1>2, Zenon DEF HandleResource, HandleWrongLength
<1>4. \A d \in Client :
        IsAsked(Head(mq), d) <=> d = c
  BY <1>1 DEF IsAsked
<1>5. CASE overlong' = overlong \cup {c} /\ UNCHANGED inbox
  <2>1. ASSUME NEW d \in Client \ overlong'
        PROVE  Len(inbox'[d]) = Len(inbox[d]) + IF IsAsked(Head(mq), d) THEN 1 ELSE 0
    <3>1. ~IsAsked(Head(mq), d) /\ Len(inbox[d]) \in Nat /\ inbox' = inbox
      BY <1>1, <1>4, <1>5, <2>1, LenProperties DEF TypeOK
    <3> QED
      BY <3>1
  <2> QED
    BY <1>1, <1>3, <1>5, <2>1, AttendedTakes
<1>6. ASSUME NEW ok \in BOOLEAN, UNCHANGED overlong,
             Deliver(Only(c), [type |-> "RESOURCE_RESPONSE", ok |-> ok])
      PROVE  Attended'
  <2>1. Only(c) \in [Client -> Nat] /\ [type |-> "RESOURCE_RESPONSE", ok |-> ok] \in Answer
    BY DEF Only, Answer
  <2>2. ASSUME NEW d \in Client, Connected(queues, d)
        PROVE  Len(inbox'[d]) = Len(inbox[d]) + IF IsAsked(Head(mq), d) THEN 1 ELSE 0
    <3>1. FindByPid(d) = "found"
      BY <1>1, <2>2, FoundIff
    <3>2. Len(inbox'[d]) = Len(inbox[d]) + Only(c)[d]
      BY <1>1, <1>6, <2>1, <3>1, DeliverGives
    <3>3. Only(c)[d] = IF IsAsked(Head(mq), d) THEN 1 ELSE 0
      BY <1>4 DEF Only
    <3> QED
      BY <3>2, <3>3
  <2> QED
    BY <1>1, <1>3, <1>6, <2>2, AttendedTakes
<1> QED
  BY <1>3, <1>5, <1>6

(* In a sequence of requests for files the questions are the reads.        *)
LEMMA ReadsAreAll ==
  ASSUME NEW s, NEW c, \A i \in DOMAIN s : s[i].type \in {"READ_REQUEST", "WRITE_REQUEST"}
  PROVE  Reads(s, c) = Asked(s, c)
<1>1. {i \in DOMAIN s : s[i].type = "READ_REQUEST" /\ s[i].pid = c} =
        {i \in DOMAIN s :
           /\ s[i].pid = c
           /\ s[i].type \in {"CLIENT_CONNECTION_REQUEST", "RESOURCE_REQUEST",
                              "READ_REQUEST"}}
  OBVIOUS
<1> QED
  BY <1>1, Zenon DEF Reads, Asked

(* So is every read of a batch.                                            *)
LEMMA AttendedFile ==
  ASSUME IInv, Attended, HandleFile, TypeOK', server' = "up"
  PROVE  Attended'
<1>1. /\ TypeOK /\ TableIsDense /\ OnlyFiles /\ server = "up" /\ mq # <<>>
      /\ Head(mq).type \in {"READ_REQUEST", "WRITE_REQUEST"} /\ ~Fall(Tail(mq))
  BY FileCases DEF IInv, Fall
<1>2. /\ \A i \in DOMAIN Tail(mq) : \E j \in DOMAIN mq : Tail(mq)[i] = mq[j]
      /\ \A i \in DOMAIN Full : (\E j \in DOMAIN batch : Full[i] = batch[j]) \/ Full[i] = Head(mq)
      /\ Full \in Seq(Message)
  BY <1>1, TailGives, FullGives
<1>3. ASSUME NEW d \in Client
      PROVE  /\ Asked(mq, d) \in Nat /\ Asked(batch, d) \in Nat /\ Len(inbox[d]) \in Nat
             /\ Asked(Tail(mq), d) \in Nat /\ Asked(Full, d) \in Nat
             /\ UnderWay(d) = Asked(mq, d) + Asked(batch, d) + Len(inbox[d])
             /\ Asked(mq, d) + Asked(batch, d) = Asked(Tail(mq), d) + Asked(Full, d)
             /\ ReadsOf[d] = Asked(Full, d)
  <2>1. /\ Asked(mq, d) \in Nat /\ Asked(batch, d) \in Nat /\ Len(inbox[d]) \in Nat
        /\ UnderWay(d) = Asked(mq, d) + Asked(batch, d) + Len(inbox[d])
    BY <1>1, UnderWayIs
  <2>2. Asked(Tail(mq), d) \in Nat /\ Asked(Full, d) \in Nat
    BY <1>1, <1>2, TailGives, AskedNat
  <2>3. Asked(mq, d) + Asked(batch, d) = Asked(Tail(mq), d) + Asked(Full, d)
    <3>1. CASE IsAsked(Head(mq), d)
      <4>1. Asked(mq, d) = Asked(Tail(mq), d) + 1 /\ Asked(Full, d) = Asked(batch, d) + 1
        BY <1>1, <3>1, TailGives, FullGives
      <4> QED
        BY <2>1, <2>2, <4>1
    <3>2. CASE ~IsAsked(Head(mq), d)
      <4>1. Asked(mq, d) = Asked(Tail(mq), d) + 0 /\ Asked(Full, d) = Asked(batch, d) + 0
        BY <1>1, <3>2, TailGives, FullGives
      <4> QED
        BY <2>1, <2>2, <4>1
    <3> QED
      BY <3>1, <3>2
  <2>4. ReadsOf[d] = Asked(Full, d)
    <3>1. \A i \in DOMAIN Full : Full[i].type \in {"READ_REQUEST", "WRITE_REQUEST"}
      BY <1>1, <1>2 DEF OnlyFiles
    <3>2. ReadsOf[d] = Reads(Full, d)
      BY DEF ReadsOf
    <3> QED
      BY <3>1, <3>2, ReadsAreAll
  <2> QED
    BY <2>1, <2>2, <2>3, <2>4
<1>4. CASE /\ batch' = Full /\ mq' = Tail(mq)
           /\ UNCHANGED <<servervars, tablevars, clientvars, inbox, overlong>>
  <2>1. ASSUME NEW d \in Client
        PROVE  UnderWay(d) \in Nat /\ UnderWay(d)' \in Nat /\ UnderWay(d) <= UnderWay(d)'
    <3>1. UnderWay(d)' = Asked(Tail(mq), d) + Asked(Full, d) + Len(inbox[d])
      BY <1>4 DEF UnderWay
    <3> QED
      BY <1>3, <3>1
  <2> QED
    BY <1>1, <1>2, <1>4, <2>1, StaysAttended DEF servervars, tablevars, clientvars
<1>5. ASSUME NEW sent \in [Client -> 0 .. RW_BUFF_SIZE],
             \A c \in Client : sent[c] <= ReadsOf[c], Deliver(sent, FileAnswer),
             batch' = <<>>, mq' = Tail(mq),
             overlong' = overlong \cup {c \in Client : sent[c] < ReadsOf[c]},
             UNCHANGED <<servervars, tablevars, clientvars>>
      PROVE  Attended'
  <2>1. sent \in [Client -> Nat] /\ FileAnswer \in Answer
    BY DEF FileAnswer, Answer
  <2>2. ASSUME NEW d \in Client \ overlong', Connected(queues, d)
        PROVE  UnderWay(d) \in Nat /\ UnderWay(d)' \in Nat /\ UnderWay(d) <= UnderWay(d)'
    <3>1. FindByPid(d) = "found"
      BY <1>1, <2>2, FoundIff
    <3>2. Len(inbox'[d]) = Len(inbox[d]) + sent[d]
      BY <1>1, <1>5, <2>1, <3>1, DeliverGives
    <3>3. sent[d] = Asked(Full, d)
      <4>1. ~(sent[d] < ReadsOf[d]) /\ sent[d] <= ReadsOf[d] /\ sent[d] \in Nat
        BY <1>5, <2>1, <2>2
      <4>2. ReadsOf[d] = Asked(Full, d) /\ Asked(Full, d) \in Nat
        BY <1>3
      <4> QED
        BY <4>1, <4>2
    <3>4. UnderWay(d)' = Asked(Tail(mq), d) + Asked(batch', d) + Len(inbox'[d])
      BY <1>5 DEF UnderWay
    <3>5. Asked(batch', d) = 0
      BY <1>5, AskedEmpty
    <3> QED
      BY <1>3, <3>2, <3>3, <3>4, <3>5
  <2> QED
    BY <1>1, <1>2, <1>5, <2>2, StaysAttended DEF servervars, tablevars, clientvars
<1> QED
  BY <1>1, <1>4, <1>5, FileCases

(* Every step.                                                             *)
LEMMA AttendedNext == IInv /\ IInv' /\ Attended /\ [Next]_vars => Attended'
<1> SUFFICES ASSUME IInv, IInv', Attended, [Next]_vars PROVE Attended'
  OBVIOUS
<1>1. TypeOK /\ TypeOK' /\ mq \in Seq(Message) /\ Len(mq) <= Capacity
  BY DEF IInv, TypeOK
<1>2. CASE \E c \in Client : ClientStep(c)
  BY <1>1, <1>2, AttendedClient
<1>3. \A d \in Client : ~\E i \in Slot : NoConnections[i] = d
  BY NullAssumption DEF NoConnections
<1>4. ASSUME NEW rest \in Seq(Message), Len(rest) <= Capacity, Fall(rest),
             \A i \in DOMAIN rest : \E j \in DOMAIN mq : rest[i] = mq[j]
      PROVE  Attended'
  <2>1. /\ queues' = NoConnections /\ UNCHANGED <<pc, attached>>
        /\ \A i \in DOMAIN mq' : \E j \in DOMAIN rest : mq'[i] = rest[j]
    BY <1>1, <1>4, FallGives
  <2>2. \A i \in DOMAIN mq' : \E j \in DOMAIN mq : mq'[i] = mq[j]
    BY <1>4, <2>1
  <2>3. \A d \in Client : ~Connected(queues', d)
    BY <1>3, <2>1 DEF Connected
  <2> QED
    BY <2>1, <2>2, <2>3, AttendedByNobody
<1>5. CASE Handle
  <2>1. mq # <<>> /\ server = "up"
    BY <1>5 DEF Handle, HandleConnect, HandleResource, HandleWrongLength, HandleFile,
               HandleFinalize, Handling
  <2>2. CASE Fall(Tail(mq))
    BY <1>1, <1>4, <2>1, <2>2, TailGives
  <2>3. CASE ~Fall(Tail(mq))
    <3>1. CASE HandleConnect
      BY <1>1, <3>1, AttendedConnect
    <3>2. CASE HandleResource \/ HandleWrongLength
      <4>1. server' = "up"
        BY <2>1, <2>3, <3>2 DEF HandleResource, HandleWrongLength, servervars
      <4> QED
        BY <1>1, <3>2, <4>1, AttendedResource
    <3>3. CASE HandleFile
      <4>1. server' = "up"
        BY <2>1, <2>3, <3>3, FileCases DEF servervars
      <4> QED
        BY <1>1, <3>3, <4>1, AttendedFile
    <3>4. CASE HandleFinalize
      <4>1. /\ mq' = Tail(mq) /\ Head(mq).type = "CLIENT_FINALIZE"
            /\ UNCHANGED <<servervars, tablevars, batch, clientvars, inbox, overlong>>
        BY <3>4 DEF HandleFinalize, Handling
      <4>2. ASSUME NEW d \in Client
            PROVE  Len(inbox'[d]) = Len(inbox[d]) + IF IsAsked(Head(mq), d) THEN 1 ELSE 0
        <5>1. ~IsAsked(Head(mq), d) /\ Len(inbox[d]) \in Nat /\ inbox' = inbox
          BY <1>1, <4>1, LenProperties DEF IsAsked, TypeOK
        <5> QED
          BY <5>1
      <4> QED
        BY <1>1, <2>1, <4>1, <4>2, AttendedTakes
    <3> QED
      BY <1>5, <3>1, <3>2, <3>3, <3>4 DEF Handle
  <2> QED
    BY <2>2, <2>3
<1>6. CASE Crash
  BY <1>1, <1>4, <1>6 DEF Crash
<1>7. CASE Quit
  <2>1. queues' = NoConnections /\ UNCHANGED pc /\ DOMAIN mq' = {}
    BY <1>7 DEF Quit, LoseQueue
  <2>2. \A d \in Client : ~Connected(queues', d)
    BY <1>3, <2>1 DEF Connected
  <2> QED
    BY <2>1, <2>2, AttendedByNobody
<1>8. CASE server # "up" /\ (StartServer \/ FailToStart)
  <2>1. /\ UNCHANGED <<queues, pc>>
        /\ UNCHANGED <<mq, attached>> \/ DOMAIN mq' = {}
    BY <1>8 DEF StartServer, FailToStart, LoseQueue, tablevars
  <2>2. \A d \in Client : ~Connected(queues', d)
    BY <1>8, <2>1 DEF Attended, Connected
  <2>3. UNCHANGED mq => \A i \in DOMAIN mq' : \E j \in DOMAIN mq : mq'[i] = mq[j]
    BY Zenon
  <2> QED
    BY <2>1, <2>2, <2>3, AttendedByNobody
<1>9. CASE UNCHANGED <<server, mq, queues, batch, pc, attached, inbox, overlong>>
  BY <1>9 DEF Attended, Connected, UnderWay, Asked
<1>10. CASE server = "up" /\ FailToStart
  BY <1>9, <1>10 DEF FailToStart, tablevars
<1>11. CASE UNCHANGED vars
  BY <1>9, <1>11 DEF vars, servervars, tablevars, clientvars
<1> QED
  BY <1>2, <1>5, <1>6, <1>7, <1>8, <1>10, <1>11 DEF Next, StartServer

-----------------------------------------------------------------------------
(* The inductive invariant holds whatever clients and servers do, die and  *)
(* start again (main.c 390-538, mq_manager.c, client/main.c).              *)
THEOREM Invariance == Spec => []IInv
BY InvInit, InvNext, PTL DEF Spec

(* Every variable stays in its type: the table's size bounds active_count  *)
(* (mq_manager.c 61-75, 101-104), which nothing ever lowers while the      *)
(* server runs, and a batch is never beyond read_write_buff.               *)
THEOREM TypeCorrect == Spec => []TypeOK
<1>1. IInv => TypeOK
  BY DEF IInv
<1> QED
  BY <1>1, Invariance, PTL

(* The first active_count entries of the connection table are the used     *)
(* ones, each with a client of its own, as mq_manager_destroy and          *)
(* findByPid take for granted (mq_manager.c 33-40, 105-117).               *)
THEOREM TableIsDenseHolds == Spec => []TableIsDense
<1>1. IInv => TableIsDense
  BY DEF IInv
<1> QED
  BY <1>1, Invariance, PTL

(* Each client has at most one question or answer under way, and none      *)
(* unless it waits for one (the sends and waits of client/main.c): no      *)
(* answer is left for a later question, and the server never blocks on a   *)
(* client's full queue.                                                    *)
THEOREM NothingLeftOverHolds == Spec => []NothingLeftOver
<1>1. IInv => NothingLeftOver
  BY DEF IInv, Owed, NothingLeftOver
<1> QED
  BY <1>1, Invariance, PTL

(* What a client takes from its queue, without a look at the type          *)
(* (client/main.c), is the answer to what it has asked.                    *)
THEOREM AnswersFitHolds == Spec => []AnswersFit
<1>1. IInv => AnswersFit
  <2> SUFFICES ASSUME IInv, NEW c \in Client, pc[c] \in DOMAIN Expected, inbox[c] # <<>>
               PROVE  Received(c).type = Expected[pc[c]]
    BY DEF AnswersFit
  <2>1. inbox[c] \in Seq(Answer)
    BY DEF IInv, TypeOK
  <2>2. 1 \in DOMAIN inbox[c] /\ Received(c) = inbox[c][1]
    BY <2>1, EmptySeq, LenProperties DEF Received
  <2>3. AnsweredAt(Received(c).type, pc[c])
    BY <2>2 DEF IInv, Owed
  <2>4. pc[c] \in {"acking", "awaiting", "reading"}
    BY DEF Expected
  <2> QED
    BY <2>3, <2>4 DEF AnsweredAt, Expected
<1> QED
  BY <1>1, Invariance, PTL

(* A server that made its queue itself finds, in findByPid (mq_manager.c   *)
(* 33-40), the sender of every message for resources or files that it      *)
(* handles, and reads through no NULL entry for it.  The freed pid that    *)
(* main.c:513 looks up after a request with the wrong number of types is   *)
(* no sender, and not part of it.                                          *)
THEOREM NoStrangersHolds == Spec => []NoStrangers
<1>1. IInv => NoStrangers
  <2> SUFFICES ASSUME IInv, server = "up", own_queue
               PROVE  /\ \A i \in DOMAIN mq :
                           \/ mq[i].type = "CLIENT_CONNECTION_REQUEST"
                           \/ FindByPid(mq[i].pid) = "found"
                      /\ \A i \in DOMAIN batch : FindByPid(batch[i].pid) = "found"
    BY DEF NoStrangers
  <2>1. TypeOK /\ TableIsDense /\ mq \in Seq(Message) /\ batch \in Seq(Message)
    BY DEF IInv, TypeOK
  <2>2. /\ \A i \in DOMAIN mq : mq[i].pid \in Client
        /\ \A i \in DOMAIN batch : batch[i].pid \in Client
    BY <2>1, PidsAreClients
  <2> QED
    BY <2>1, <2>2, FoundIff DEF IInv, Known
<1> QED
  BY <1>1, Invariance, PTL

(* A client that waits and that the running server knows waits for         *)
(* something: the server loses no question it has taken and no answer it   *)
(* has made (main.c 426-515, mq_manager.c 33-40), whatever clients and     *)
(* servers do, but for those that are too long for mq_send                 *)
(* (message_queue.c 28-31).                                                *)
THEOREM NobodyForgottenHolds == Spec => []NobodyForgotten
<1>1. Init => Attended
  <2> SUFFICES ASSUME Init PROVE Attended
    OBVIOUS
  <2>1. server = "up" /\ DOMAIN mq = {} /\ queues = NoConnections
    BY DEF Init
  <2>2. \A d \in Client : ~Connected(queues, d)
    BY <2>1, NullAssumption DEF Connected, NoConnections
  <2> QED
    BY <2>1, <2>2 DEF Attended
<1>2. IInv /\ Attended => NobodyForgotten
  <2> SUFFICES ASSUME IInv, Attended, NEW c \in Client \ overlong,
                      pc[c] \in {"acking", "awaiting", "reading"},
                      \E i \in Slot : queues[i] = c
               PROVE  UnderWay(c) = 1
    BY DEF NobodyForgotten
  <2>1. UnderWay(c) \in Nat /\ UnderWay(c) <= 1
    BY UnderWayIs DEF IInv, Owed
  <2>2. UnderWay(c) # 0
    BY DEF Attended, Connected
  <2> QED
    BY <2>1, <2>2
<1> QED
  BY <1>1, <1>2, Invariance, AttendedNext, PTL DEF Spec
=============================================================================
