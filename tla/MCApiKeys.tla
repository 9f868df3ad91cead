------------------------------ MODULE MCApiKeys -------------------------------
(* ApiKeys for TLC: two orgs with one seeded key each and an id that a mint  *)
(* may draw, with the secret of the tokens that clients hold or another one. *)
EXTENDS ApiKeys, TLC

CONSTANTS k1, k2, k3, secret, wrong, acme, globex

MCBootstrap ==
    <<[id |-> k1, secret |-> secret, orgId |-> acme,   keyType |-> "priv"],
      [id |-> k2, secret |-> secret, orgId |-> globex, keyType |-> "priv"]>>

MCTokens ==
    [id : Ids, secret : {secret}, keyType : {"priv"}]
      \cup {[id |-> k3, secret |-> secret, keyType |-> "pub"]}

(* No definition singles out a replica or a connection.                      *)
Symmetry == Permutations(Replicas) \cup Permutations(Connections)
=============================================================================
