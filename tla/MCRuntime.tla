------------------------------ MODULE MCRuntime -----------------------------
(***************************************************************************)
(* One base model without adapters: a call that may leave, the activator   *)
(* and the updater.                                                        *)
(***************************************************************************)
EXTENDS ModelActivator

MCBaseOf == [a \in Adapters |-> CHOOSE m \in Models : TRUE]
MCOwner == [p \in Pods |-> CHOOSE m \in Models : TRUE]

=============================================================================
