------------------------- MODULE MCIngressContract -------------------------
(* Instances of IngressContract for TLC. *)
EXTENDS IngressContract

\* The kf overlay is applied before the odh overlay.
BothControllers == <<"kf-notebook-controller", "odh-notebook-controller">>
OneController   == <<"odh-notebook-controller">>
=============================================================================
