---------------------------- MODULE MCDeployment ----------------------------
(* Instances of Deployment for TLC. *)
EXTENDS Deployment

CONSTANTS w1, w2, sync, copy, photos, work, home, inner, laptop

(* Two shares whose roots are nested; two jobs that want one port; one job id
   for two shares. *)
RequestsDef ==
    {[job |-> sync, root |-> home,
      binding |-> [folder |-> photos, peer |-> laptop, port |-> 1]],
     [job |-> copy, root |-> inner,
      binding |-> [folder |-> work, peer |-> laptop, port |-> 1]],
     [job |-> sync, root |-> home,
      binding |-> [folder |-> work, peer |-> laptop, port |-> NoPort]]}
OverlapsDef == {{home, inner}}
===============================================================================
