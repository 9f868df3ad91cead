------------------------------- MODULE ApiKeys --------------------------------
(***************************************************************************)
(* The life of an API key on a backend of several replicas: seeded at boot *)
(* (module Boot) or minted over POST /app/keys, verified by every request, *)
(* revoked over DELETE /app/keys/:id.  The routes are those of server.ts,  *)
(* the table is PgApiKeyStore's.  A handler gives up its turn at every     *)
(* await: each SELECT, INSERT and UPDATE, and argon2 between them.         *)
(*                                                                         *)
(* `connection` holds the request each client connection has in progress.  *)
(***************************************************************************)
EXTENDS Boot

CONSTANTS
    Connections,
    Tokens,         \* raw tokens that clients present
    NoId, Idle

Token == [id : Ids, secret : Secrets, keyType : KeyTypes]

ASSUME TokenAssumption == Tokens \subseteq Token /\ NoId \notin Ids

VARIABLES
    connection,
    (* History. *)
    minter,         \* the key that minted each key, NoId for a seeded one
    revokers        \* the keys whose DELETE of each key was answered 204

requestVars == <<connection, minter, revokers>>
vars        == <<bootVars, requestVars>>

Routes  == {"ingest", "list", "mint", "revoke"}
Request == [pc : {"select", "compare", "work", "update"}, at : Replicas, route : Routes,
            token : Tokens, target : Ids, row : Row \cup {NoKey}, dead : BOOLEAN]

Init ==
    /\ BootInit
    /\ connection = [q \in Connections |-> Idle]
    /\ minter = [id \in Ids |-> NoId]
    /\ revokers = [id \in Ids |-> <<>>]

On(q, pc) == connection[q] # Idle /\ connection[q].pc = pc

Revoked(id) == apiKeys[id] # NoKey /\ apiKeys[id].revoked

-----------------------------------------------------------------------------
(* The gate: /ingest admits a pub key, the others a priv key.               *)

NeededType(route) == IF route = "ingest" THEN "pub" ELSE "priv"

(* A request with a token of the needed type reaches a replica that serves  *)
(* (any other is refused on sight); the gate awaits verify.  `dead` notes   *)
(* whether its key was revoked already.                                     *)
Arrive(q, r, route, t, target) ==
    /\ connection[q] = Idle /\ At(r, "serve")
    /\ t.keyType = NeededType(route)
    /\ route # "revoke" => target = t.id
    /\ connection' = [connection EXCEPT ![q] =
         [pc |-> "select", at |-> r, route |-> route, token |-> t, target |-> target,
          row |-> NoKey, dead |-> Revoked(t.id)]]
    /\ UNCHANGED <<bootVars, minter, revokers>>

Answer(q)     == connection' = [connection EXCEPT ![q] = Idle]
GoOn(q, pc)   == connection' = [connection EXCEPT ![q].pc = pc]

Select_IgnoresMissing(q) ==    \* faulty: goes on without a row
    LET t == connection[q].token
        row == apiKeys[t.id]
    IN  /\ On(q, "select")
        /\ IF row # NoKey /\ (row.revoked \/ row.keyType # t.keyType) THEN Answer(q)
           ELSE connection' = [connection EXCEPT ![q].pc = "compare", ![q].row = row]
        /\ UNCHANGED <<bootVars, minter, revokers>>
Select_IgnoresRevoked(q) ==    \* faulty: does not look at revoked_at
    LET t == connection[q].token
        row == apiKeys[t.id]
    IN  /\ On(q, "select")
        /\ IF row = NoKey \/ row.keyType # t.keyType THEN Answer(q)
           ELSE connection' = [connection EXCEPT ![q].pc = "compare", ![q].row = row]
        /\ UNCHANGED <<bootVars, minter, revokers>>
(* verify: the row of the token's id, 401 if it is missing, revoked or of   *)
(* the other type.                                                          *)
Select(q) ==
    LET t == connection[q].token
        row == apiKeys[t.id]
    IN  /\ On(q, "select")
        /\ IF row = NoKey \/ row.revoked \/ row.keyType # t.keyType THEN Answer(q)
           ELSE connection' = [connection EXCEPT ![q].pc = "compare", ![q].row = row]
        /\ UNCHANGED <<bootVars, minter, revokers>>

(* verify, argon2 done: the row that Select read decides, whatever has      *)
(* happened to it since; 401 if the secret is not the one it holds.         *)
Compare(q) ==
    /\ On(q, "compare")
    /\ IF connection[q].row.secret = connection[q].token.secret THEN GoOn(q, "work")
                                                               ELSE Answer(q)
    /\ UNCHANGED <<bootVars, minter, revokers>>

(* GET /app/keys reads the keys of its org and answers; /ingest goes on to  *)
(* what module Ingest models.                                               *)
Finish(q) ==
    /\ On(q, "work") /\ connection[q].route \in {"list", "ingest"}
    /\ Answer(q)
    /\ UNCHANGED <<bootVars, minter, revokers>>

-----------------------------------------------------------------------------
(* POST /app/keys.                                                          *)

(* The INSERT of mint: random id and secret, the org of the caller's key;   *)
(* 201.  An id that exists makes the statement fail, 500.                   *)
Mint(q, id, secret, keyType) ==
    /\ On(q, "work") /\ connection[q].route = "mint"
    /\ IF apiKeys[id] # NoKey THEN UNCHANGED <<apiKeys, minter>>
       ELSE /\ apiKeys' = [apiKeys EXCEPT ![id] =
                             NewRow(secret, connection[q].row.orgId, keyType)]
            /\ minter' = [minter EXCEPT ![id] = connection[q].token.id]
    /\ Answer(q)
    /\ UNCHANGED <<applied, boot, ran, failures, revokers>>

-----------------------------------------------------------------------------
(* DELETE /app/keys/:id.                                                    *)

CheckOwner_AnyOrg(q) ==    \* faulty: looks the key up in every org
    /\ On(q, "work") /\ connection[q].route = "revoke"
    /\ IF apiKeys[connection[q].target] # NoKey THEN GoOn(q, "update") ELSE Answer(q)
    /\ UNCHANGED <<bootVars, minter, revokers>>
(* list: is the target among the keys of the caller's org?  404 if not.     *)
CheckOwner(q) ==
    LET target == apiKeys[connection[q].target]
    IN  /\ On(q, "work") /\ connection[q].route = "revoke"
        /\ IF target # NoKey /\ target.orgId = connection[q].row.orgId
           THEN GoOn(q, "update") ELSE Answer(q)
        /\ UNCHANGED <<bootVars, minter, revokers>>

Revoke_Always(q) ==    \* faulty: no WHERE revoked_at IS NULL
    LET id == connection[q].target
    IN  /\ On(q, "update")
        /\ apiKeys' = [apiKeys EXCEPT ![id].revoked = TRUE]
        /\ revokers' = [revokers EXCEPT ![id] = Append(@, connection[q].token.id)]
        /\ Answer(q)
        /\ UNCHANGED <<applied, boot, ran, failures, minter>>
(* revoke: UPDATE ... WHERE id = target AND revoked_at IS NULL; 204 if it   *)
(* changed a row, else 404.                                                 *)
Revoke(q) ==
    LET id == connection[q].target
    IN  /\ On(q, "update")
        /\ IF Revoked(id) THEN UNCHANGED <<apiKeys, revokers>>
           ELSE /\ apiKeys' = [apiKeys EXCEPT ![id].revoked = TRUE]
                /\ revokers' = [revokers EXCEPT ![id] = Append(@, connection[q].token.id)]
        /\ Answer(q)
        /\ UNCHANGED <<applied, boot, ran, failures, minter>>

-----------------------------------------------------------------------------
(* A replica boots; when it ends, its requests end unanswered.              *)
Replica(r) ==
    /\ BootStep(r) \/ Fail(r)
    /\ connection' = [q \in Connections |->
           IF connection[q] # Idle /\ connection[q].at = r /\ boot'[r].pc \in Down
           THEN Idle ELSE connection[q]]
    /\ UNCHANGED <<minter, revokers>>

Next ==
    \/ \E r \in Replicas : Replica(r)
    \/ \E q \in Connections :
         \/ \E r \in Replicas, route \in Routes, t \in Tokens, target \in Ids :
              Arrive(q, r, route, t, target)
         \/ Select(q) \/ Compare(q) \/ Finish(q)
         \/ \E id \in Ids, secret \in Secrets, keyType \in KeyTypes :
              Mint(q, id, secret, keyType)
         \/ CheckOwner(q) \/ Revoke(q)

Spec == Init /\ [][Next]_vars

-----------------------------------------------------------------------------
(* Properties.                                                              *)

(* Every variable has its type.                                             *)
TypeOK ==
    /\ BootTypeOK
    /\ connection \in [Connections -> Request \cup {Idle}]
    /\ \A q \in Connections :
         On(q, "compare") \/ On(q, "work") \/ On(q, "update") =>
             /\ connection[q].row # NoKey
             /\ apiKeys[connection[q].token.id] # NoKey
    /\ minter \in [Ids -> Ids \cup {NoId}]
    /\ revokers \in [Ids -> Seq(Ids)]

(* A key that was revoked stays so, with its secret, org and type: neither  *)
(* the seeding of a later boot nor a minted key that happens to draw its id *)
(* brings it back.                                                          *)
RevokedForever ==
    [][\A id \in Ids : apiKeys[id] # NoKey =>
         /\ [apiKeys'[id] EXCEPT !.revoked = apiKeys[id].revoked] = apiKeys[id]
         /\ apiKeys[id].revoked => apiKeys'[id].revoked]_vars

(* Of any number of racing DELETEs of a key one is answered 204, and none   *)
(* is before the key is revoked.                                            *)
RevokedOnce == \A id \in Ids : Len(revokers[id]) = IF Revoked(id) THEN 1 ELSE 0

(* Keys act inside their own org: whoever minted or revoked a key held a    *)
(* key of the same org, through any chain of minted keys.                   *)
OrgConfined ==
    \A id \in Ids :
        /\ minter[id] # NoId => apiKeys[minter[id]].orgId = apiKeys[id].orgId
        /\ \A i \in 1 .. Len(revokers[id]) :
             apiKeys[revokers[id][i]].orgId = apiKeys[id].orgId

(* What the gate lets pass presented the secret of a key of the needed      *)
(* type, and one that was not revoked when the request arrived: revoking    *)
(* may be overtaken only by requests already under way.                     *)
AdmittedByLiveKey ==
    \A q \in Connections : On(q, "work") \/ On(q, "update") =>
        LET t == connection[q].token
        IN  /\ apiKeys[t.id].secret = t.secret
            /\ apiKeys[t.id].keyType = NeededType(connection[q].route)
            /\ ~connection[q].dead
=============================================================================
