------------------------------- MODULE Router -------------------------------
(***************************************************************************)
(* The routing table of one tenant, server/internal/router.                *)
(*                                                                         *)
(* A route map records which engines serve which model (`m') and all the   *)
(* engines that may be used (`engines').  The functions of route_map.go    *)
(* run under the map's mutex and depend on nothing else, so each one is an *)
(* operator on the value of the map.  An R holds a map per tenant; a       *)
(* tenant without a map behaves as one with the empty map does: nothing is *)
(* routed.                                                                 *)
(***************************************************************************)
EXTENDS FiniteSets, Naturals

CONSTANTS Engines,   \* engine IDs
          Models     \* model IDs

RouteMap == [m : [Models -> SUBSET Engines], engines : SUBSET Engines]

\* newRouteMap.
EmptyRouteMap == [m |-> [k \in Models |-> {}], engines |-> {}]

\* A bug: the engine keeps the models it reported before.
AddEngine(rm, e, modelIDs) ==
  [m       |-> [k \in Models |-> IF k \in modelIDs THEN rm.m[k] \cup {e} ELSE rm.m[k]],
   engines |-> rm.engines \cup {e}]

(***************************************************************************)
(* addOrUpdateEngine: the engine is dropped from every model and added     *)
(* back to the models it reports.                                          *)
(***************************************************************************)
AddOrUpdateEngine(rm, e, modelIDs) ==
  [m       |-> [k \in Models |-> IF k \in modelIDs THEN rm.m[k] \cup {e} ELSE rm.m[k] \ {e}],
   engines |-> rm.engines \cup {e}]

\* deleteEngine.
DeleteEngine(rm, e) ==
  [m       |-> [k \in Models |-> rm.m[k] \ {e}],
   engines |-> rm.engines \ {e}]

(***************************************************************************)
(* findLeastLoadedEngine: among the engines that are not ignored, those    *)
(* with the fewest models.  Ties are broken by the order in which Go       *)
(* iterates over a map, so any of them may be returned; the empty set is   *)
(* the error "no engine available".  Every engine of `m' is in `engines'   *)
(* (RouterConsistent in InfProcessor), so the candidates are taken there.  *)
(***************************************************************************)
NumModels(rm, e) == Cardinality({k \in Models : e \in rm.m[k]})

FewestModels(rm, ignores) ==
  LET candidates == rm.engines \ ignores
  IN  {e \in candidates : \A f \in candidates : NumModels(rm, e) <= NumModels(rm, f)}

(***************************************************************************)
(* GetEnginesForModel: the sets of engine IDs the call may return, empty   *)
(* when it returns an error.  The ignored engines count only when no       *)
(* engine has the model.                                                   *)
(***************************************************************************)
GetEnginesForModel(rm, model, ignores, dynamicModelLoading) ==
  IF rm.m[model] # {}
  THEN {rm.m[model]}
  ELSE IF dynamicModelLoading
       THEN {{e} : e \in FewestModels(rm, ignores)}
       ELSE {}

=============================================================================
