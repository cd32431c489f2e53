-------------------------- MODULE MCRabbitRpcServer --------------------------
(* Small instances of RabbitRpcServer: three requests of two sessions.      *)
EXTENDS RabbitRpcServer

CONSTANTS c1, c2, c3, w1, w2, s1, s2

ThreeCalls == {c1, c2, c3}
TwoWorkers == {w1, w2}

\* c1 and c2 belong to one session, c3 to another.
SessionOf == [c \in Calls |-> IF c = c3 THEN s2 ELSE s1]

\* One frame that the vision code cannot process.
AllButTwo == Calls \ {c2}

=============================================================================
