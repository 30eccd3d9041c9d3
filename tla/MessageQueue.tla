---------------------------- MODULE MessageQueue ----------------------------
(***************************************************************************)
(* What the receiving half of the server promises to the half that handles *)
(* requests: messages are handled one at a time, in the order in which they*)
(* were sent, each once, and none is lost but those that are not messages  *)
(* and those that are left when the server quits.                          *)
(***************************************************************************)
EXTENDS Sequences, Integers

CONSTANTS
  Msg,        \* what clients send
  Malformed,  \* the part of it that is not a message
  Idle        \* nothing is being handled

VARIABLES queue, handling, quitting

Init == queue = <<>> /\ handling = Idle /\ quitting = FALSE

Put(m) ==
  /\ queue' = Append(queue, m)
  /\ UNCHANGED <<handling, quitting>>

Take ==
  /\ queue # <<>>
  /\ handling = Idle
  /\ handling' = Head(queue)
  /\ queue' = Tail(queue)
  /\ UNCHANGED quitting

Finish ==
  /\ handling # Idle
  /\ handling' = Idle
  /\ UNCHANGED <<queue, quitting>>

(* queue without the element at i.                                         *)
Without(i) == SubSeq(queue, 1, i - 1) \o SubSeq(queue, i + 1, Len(queue))

Discard ==
  /\ \E i \in 1 .. Len(queue) :
       queue[i] \in Malformed /\ queue' = Without(i)
  /\ UNCHANGED <<handling, quitting>>

Quit ==
  /\ quitting' = TRUE
  /\ UNCHANGED <<queue, handling>>

(* A server that quits drops whatever it likes.                            *)
Abandon ==
  /\ quitting
  /\ queue' \in {Without(i) : i \in 1 .. Len(queue)} \cup {<<>>}
  /\ handling' \in {handling, Idle}
  /\ UNCHANGED quitting

Next ==
  \/ \E m \in Msg : Put(m)
  \/ Take \/ Finish \/ Discard \/ Quit \/ Abandon

Spec == Init /\ [][Next]_<<queue, handling, quitting>>
=============================================================================
