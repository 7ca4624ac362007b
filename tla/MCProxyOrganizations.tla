------------------------ MODULE MCProxyOrganizations ------------------------
(* Small instances of ProxyOrganizations.                                    *)
EXTENDS ProxyOrganizations, TLC

HandlerSymmetry == Permutations(Handlers)
============================================================================
