--------------------------- MODULE MCTenantRegistry ---------------------------
(* TenantRegistry on two companies for TLC.                                  *)
EXTENDS TenantRegistry, TLC

CONSTANTS acme, globex, a1, a2, g1

Speaks == (a1 :> acme) @@ (a2 :> acme) @@ (g1 :> globex)
SpeaksAcme == (a1 :> acme) @@ (a2 :> acme)
=============================================================================
