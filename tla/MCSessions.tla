----------------------------- MODULE MCSessions ------------------------------
(* The instance of Sessions for TLC: a client with two requests, one with  *)
(* one, and one that only connects and finalizes.                          *)
EXTENDS Sessions

CONSTANTS c1, c2, c3

MCMaxRequests == [c \in Client |-> IF c = c1 THEN 2 ELSE IF c = c2 THEN 1 ELSE 0]
==============================================================================
