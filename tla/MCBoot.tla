-------------------------------- MODULE MCBoot --------------------------------
(* Boot for TLC: two keys of two orgs, as an operator ships them on day one. *)
EXTENDS Boot, TLC

CONSTANTS k1, k2, secret, acme, globex

MCBootstrap ==
    <<[id |-> k1, secret |-> secret, orgId |-> acme,   keyType |-> "priv"],
      [id |-> k2, secret |-> secret, orgId |-> globex, keyType |-> "pub"]>>
=============================================================================
