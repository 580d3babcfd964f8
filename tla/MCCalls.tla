------------------------------ MODULE MCCalls -------------------------------
(***************************************************************************)
(* Two tasks.  In the run of two tenants, t1 is a call of tenant tn1, whose*)
(* engine is e1, and t2 a streamed task of tenant tn2 that another server  *)
(* forwarded to engine e2; the tenant has an engine e3 besides.  In the    *)
(* liveness run both are calls that are not streamed and share an engine.  *)
(***************************************************************************)
EXTENDS InfProcessor

CONSTANTS e1, e2, e3, c1, c2, c3, t1, t2, tn1, tn2, m1

MCConnEngine == [c \in Conns |-> CASE c = c1 -> e1 [] c = c2 -> e2 [] OTHER -> e3]
AllLocal == [c \in Conns |-> TRUE]

TenantOfConn == [c \in Conns |-> IF c = c1 THEN tn1 ELSE tn2]
TenantOfTask == [t \in Tasks |-> IF t = t1 THEN tn1 ELSE tn2]
OneTenantConn == [c \in Conns |-> tn1]
OneTenantTask == [t \in Tasks |-> tn1]

MCTaskModel == [t \in Tasks |-> m1]
T2Forwarded == [t \in Tasks |-> t = t2]
NoneForwarded == [t \in Tasks |-> FALSE]
T2Target == [t \in Tasks |-> IF t = t2 THEN e2 ELSE NoEngine]
NoTarget == [t \in Tasks |-> NoEngine]

\* With the model, without it, and not ready.
MCStatuses ==
  {[ready |-> TRUE, models |-> {m1}], [ready |-> TRUE, models |-> {}],
   [ready |-> FALSE, models |-> {m1}]}
ReadyStatus == {[ready |-> TRUE, models |-> {m1}]}

=============================================================================
