------------------------------- MODULE MCAuthz -------------------------------
(* Instances of Authz for TLC.                                             *)
EXTENDS Authz, TLC

CONSTANTS a, r1, alice, bob

(* The root, /a and /a/a.                                                  *)
Branch == {<<>>, <<a>>, <<a, a>>}

(* Alice has a role, bob has none.                                         *)
OneMapper == {(alice :> r1) @@ (bob :> NoRole)}
=============================================================================
