---------------------------- MODULE MCServingTLS ----------------------------
(* Instances of ServingTLS for TLC. *)
EXTENDS ServingTLS, TLC

\* cert-manager may be installed on OpenShift, too.
AnyProvider == {{}, {"CertManager"}, {"OpenShift"}, {"OpenShift", "CertManager"}}

NoProvider == {{}}

\* Edits lead to the other profiles.
OneOrNone == {"p1", NoProfile}

\* The operator starts before or after the rest of its installation.
AllOrNone == {{}, {"service", "mwc"}}
=============================================================================
