----------------------------- MODULE MCSessions ----------------------------
(* Small instances of Sessions for TLC. *)
EXTENDS Sessions

(* No group, one that is none of the app's, and both roles at once. *)
MCGroupSets == {{"otro"}, {"agente", "administrador"}}

(* The log in by password, and Cognito beside it. *)
MCProviders == {[provider |-> "mock", cognito |-> TRUE]}
=============================================================================
