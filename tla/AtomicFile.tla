----------------------------- MODULE AtomicFile ------------------------------
(***************************************************************************)
(* What the file requests of server/main.c promise to their clients: each  *)
(* request of a batch is served at one moment, a read sees what the        *)
(* requests served before it left, and no batch starts before the last one *)
(* is served.  An unprotected batch, under RW_SIMULTANEOUS with a writer   *)
(* that truncates the file or writes more than one block, is promised      *)
(* nothing but its end.                                                    *)
(***************************************************************************)
EXTENDS Sequences

CONSTANTS
  Thread,
  Request,   \* [type, mode, content], mode and content only of a write
  InitialFile,
  Told(_),   \* what an answer about a file with these contents carries
  NoReply    \* no answer, as when the contents do not fit in a message

VARIABLES
  atomic,    \* whether the batch is protected
  request,   \* what each thread serves
  todo,      \* the threads that have not served it
  file,
  reply      \* the contents sent to each reader

Init ==
  /\ atomic \in BOOLEAN
  /\ request \in [Thread -> Request]
  /\ todo = {}
  /\ file \in InitialFile
  /\ reply = [t \in Thread |-> NoReply]

(* The next batch starts, or the last one is forgotten.                    *)
NextBatch ==
  /\ todo = {}
  /\ todo' \in {Thread, {}}
  /\ atomic' \in BOOLEAN
  /\ request' \in [Thread -> Request]
  /\ reply' = [t \in Thread |-> NoReply]
  /\ UNCHANGED file

Written(r) == IF r.mode = "w" THEN r.content ELSE file \o r.content

Serve(t) ==
  /\ t \in todo
  /\ todo' = todo \ {t}
  /\ IF request[t].type = "READ_REQUEST"
     THEN /\ reply' = [reply EXCEPT ![t] = Told(file)]
          /\ UNCHANGED file
     ELSE file' = Written(request[t]) /\ UNCHANGED reply
  /\ UNCHANGED <<atomic, request>>

(* The file cannot be opened: a writer says nothing, and a reader answers  *)
(* as if the file were empty.                                              *)
ServeUnopened(t) ==
  /\ t \in todo
  /\ todo' = todo \ {t}
  /\ reply' = IF request[t].type = "READ_REQUEST"
              THEN [reply EXCEPT ![t] = Told(<<>>)] ELSE reply
  /\ UNCHANGED <<atomic, request, file>>

Unprotected ==
  /\ ~atomic
  /\ todo' \subseteq todo
  /\ UNCHANGED <<atomic, request>>

Next ==
  \/ NextBatch \/ Unprotected
  \/ \E t \in Thread : Serve(t) \/ ServeUnopened(t)

Spec == Init /\ [][Next]_<<atomic, request, todo, file, reply>>
=============================================================================
