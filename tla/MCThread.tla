------------------------------ MODULE MCThread ------------------------------
(* Two producers and the owner, which produces too, share one worker; one   *)
(* input of four throws.                                                    *)
EXTENDS Thread

CONSTANTS a, b, o, w

Inputs == [c \in Client |-> IF c = b THEN 2 ELSE 1]
OneFaulty == {<<b, 2>>}
=============================================================================
