------------------------------- MODULE MCLoRA -------------------------------
(***************************************************************************)
(* One base model with one adapter and two pods.                           *)
(***************************************************************************)
EXTENDS LoRA

MCBaseOf == [a \in Adapters |-> CHOOSE m \in Models : TRUE]
MCOwner == [p \in Pods |-> CHOOSE m \in Models : TRUE]
MCPodSymmetry == Permutations(Pods)

=============================================================================
