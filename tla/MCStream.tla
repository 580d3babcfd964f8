------------------------------ MODULE MCStream ------------------------------
(***************************************************************************)
(* Streamed tasks.  Engine e1 is connected to another server, which        *)
(* reports it on stream c1 and, when that one breaks, on stream c1b; e2 is *)
(* a local engine.  The handler of c1 may notice that its stream broke     *)
(* after c1b is up.                                                        *)
(***************************************************************************)
EXTENDS InfProcessor

CONSTANTS e1, e2, c1, c1b, c2, t1, tn1, m1

MCConnEngine == [c \in Conns |-> IF c = c2 THEN e2 ELSE e1]
MCConnTenant == [c \in Conns |-> tn1]
MCConnLocal == [c \in Conns |-> c = c2]
MCTaskTenant == [t \in Tasks |-> tn1]
MCTaskModel == [t \in Tasks |-> m1]
MCTaskTarget == [t \in Tasks |-> NoEngine]
MCTaskStream == [t \in Tasks |-> TRUE]
MCTaskForwarded == [t \in Tasks |-> FALSE]

\* Engines report that they are ready and have the model.
MCStatuses == {[ready |-> TRUE, models |-> {m1}]}

=============================================================================
