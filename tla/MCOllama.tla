------------------------------- MODULE MCOllama -------------------------------
(***************************************************************************)
(* Two models and three tasks, two of which need the same model.           *)
(***************************************************************************)
EXTENDS OllamaManager

CONSTANTS c1, c2, c3, m1, m2

MCModelOfCall == [c \in PullCalls |-> IF c = c3 THEN m2 ELSE m1]

===============================================================================
