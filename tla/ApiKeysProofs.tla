---------------------------- MODULE ApiKeysProofs -----------------------------
(***************************************************************************)
(* Replicas that boot together on one database, and the life of API keys,  *)
(* for any number of replicas, migrations, connections, keys, bootstrap    *)
(* entries and failures.  The first part is about a boot alone (Boot); the *)
(* replicas of ApiKeys boot while keys are minted and revoked, so what     *)
(* holds of a boot alone is proved there again of the whole, from the same *)
(* invariant.                                                              *)
(***************************************************************************)
EXTENDS ApiKeys, SequenceTheorems, TLAPS

(* A place of the boot that exists: a step at a file or entry that does.    *)
Place(pc, n) ==
    /\ pc \in Pcs /\ n \in Nat
    /\ pc = "migrate" => n \in 1 .. Files + 1
    /\ pc = "apply"   => n \in 1 .. Files
    /\ pc = "seed"    => n \in 1 .. Len(Bootstrap) + 1
    /\ pc = "insert"  => n \in 1 .. Len(Bootstrap)

(* What a replica at a place has passed: the files and keys before it are   *)
(* there, whoever put them there.                                           *)
Passed(pc, n) ==
    /\ pc \in {"migrate", "apply"} => 1 .. (n - 1) \subseteq applied
    /\ pc \in {"seed", "insert", "serve"} => 1 .. Files \subseteq applied
    /\ pc \in {"seed", "insert"} => \A i \in 1 .. (n - 1) : apiKeys[Bootstrap[i].id] # NoKey
    /\ pc = "serve" => \A i \in 1 .. Len(Bootstrap) : apiKeys[Bootstrap[i].id] # NoKey

Tables == /\ applied \subseteq 1 .. Files
          /\ apiKeys \in [Ids -> Row \cup {NoKey}]
          /\ ran \in [1 .. Files -> Nat]
          /\ failures \in 0 .. MaxFailures

BootInv ==
    /\ Tables
    /\ MigratedOnceInOrder
    /\ boot \in [Replicas -> [pc : Pcs, at : Nat]]
    /\ \A r \in Replicas : Place(boot[r].pc, boot[r].at) /\ Passed(boot[r].pc, boot[r].at)

(* Tables only grow: no step of a boot removes a migration or a key.        *)
Grows == /\ applied \subseteq applied'
         /\ \A id \in Ids : apiKeys[id] # NoKey => apiKeys'[id] # NoKey

(* The entries of the bootstrap list name ids of the table.                 *)
LEMMA EntryIds ==
    ASSUME NEW i \in 1 .. Len(Bootstrap)
    PROVE  Bootstrap[i] \in Entry /\ Bootstrap[i].id \in Ids
<1>1. Bootstrap[i] \in Entry
    BY BootAssumption
<1> QED
    BY <1>1 DEF Entry

(* A new key is a row, and no row is taken for a missing one.               *)
LEMMA NewRowIsRow ==
    ASSUME NEW e \in Entry
    PROVE  /\ NewRow(e.secret, e.orgId, e.keyType) \in Row
           /\ NewRow(e.secret, e.orgId, e.keyType) # NoKey
<1>1. NewRow(e.secret, e.orgId, e.keyType) \in Row
    BY DEF NewRow, Row, Entry
<1> QED
    BY <1>1, BootAssumption

(* An empty database and replicas that are down.                            *)
LEMMA InitBootInv == BootInit => BootInv
<1> SUFFICES ASSUME BootInit PROVE BootInv
    OBVIOUS
<1>1. Tables /\ MigratedOnceInOrder
    BY BootAssumption DEF BootInit, Tables, MigratedOnceInOrder
<1>2. boot \in [Replicas -> [pc : Pcs, at : Nat]]
    BY DEF BootInit, Pcs, Down
<1>3. ASSUME NEW r \in Replicas
      PROVE  Place(boot[r].pc, boot[r].at) /\ Passed(boot[r].pc, boot[r].at)
    BY DEF BootInit, Place, Passed, Pcs, Down
<1> QED
    BY <1>1, <1>2, <1>3 DEF BootInv

(* What was passed stays passed while the tables grow.                      *)
LEMMA PassedStays ==
    ASSUME Grows, NEW pc, NEW n, Place(pc, n), Passed(pc, n)
    PROVE  Passed(pc, n)'
<1>1. \A i \in 1 .. Len(Bootstrap) :
        apiKeys[Bootstrap[i].id] # NoKey => apiKeys'[Bootstrap[i].id] # NoKey
    BY EntryIds DEF Grows
<1>2. Len(Bootstrap) \in Nat
    BY BootAssumption
<1>3. pc \in {"seed", "insert"} => \A i \in 1 .. (n - 1) : i \in 1 .. Len(Bootstrap)
    BY <1>2 DEF Place
<1> QED
    BY <1>1, <1>3 DEF Passed, Grows

(* A step that moves one replica to a place it has passed, and leaves       *)
(* tables that have grown, keeps the invariant.                             *)
LEMMA OneMoves ==
    ASSUME BootInv, Grows, Tables', MigratedOnceInOrder',
           NEW r \in Replicas, NEW pc, NEW n,
           boot' = [boot EXCEPT ![r] = [pc |-> pc, at |-> n]],
           Place(pc, n), Passed(pc, n)'
    PROVE  BootInv'
<1>1. pc \in Pcs /\ n \in Nat
    BY DEF Place
<1>2. boot' \in [Replicas -> [pc : Pcs, at : Nat]]
    BY <1>1 DEF BootInv
<1>3. ASSUME NEW q \in Replicas
      PROVE  (Place(boot[q].pc, boot[q].at) /\ Passed(boot[q].pc, boot[q].at))'
    <2>1. CASE q = r
        <3>1. boot'[q].pc = pc /\ boot'[q].at = n
            BY <2>1 DEF BootInv
        <3> QED
            BY <3>1 DEF Passed, Place
    <2>2. CASE q # r
        <3>1. boot'[q] = boot[q]
            BY <2>2 DEF BootInv
        <3>2. Place(boot[q].pc, boot[q].at) /\ Passed(boot[q].pc, boot[q].at)
            BY DEF BootInv
        <3>3. \A x, y : Place(x, y) /\ Passed(x, y) => Passed(x, y)'
            BY PassedStays
        <3> QED
            BY <3>1, <3>2, <3>3 DEF Passed, Place
    <2> QED
        BY <2>1, <2>2
<1> QED
    BY <1>2, <1>3 DEF BootInv

(* One replica moves, or rests; the tables only grow.                       *)
LEMMA StepKeepsBootInv == BootInv /\ [BootNext]_bootVars => BootInv'
<1> SUFFICES ASSUME BootInv, [BootNext]_bootVars
             PROVE  BootInv'
    OBVIOUS
<1> USE BootAssumption DEF At
<1>1. CASE UNCHANGED bootVars
    BY <1>1 DEF bootVars, BootInv, Tables, MigratedOnceInOrder, Place, Passed
<1>2. ASSUME NEW r \in Replicas, NEW n, n = boot[r].at, BootStep(r) \/ Fail(r)
      PROVE  BootInv'
    <2>0. n = boot[r].at /\ n \in Nat /\ Place(boot[r].pc, n) /\ Passed(boot[r].pc, n)
        BY <1>2 DEF BootInv
    <2>1. CASE Start(r)
        <3>1. Grows /\ Tables' /\ MigratedOnceInOrder'
            BY <2>1 DEF Start, Grows, Tables, MigratedOnceInOrder, BootInv
        <3>2. boot' = [boot EXCEPT ![r] = [pc |-> "migrate", at |-> 1]]
            BY <2>1 DEF Start, Go
        <3>3. 1 \in 1 .. Files + 1 /\ 1 .. (1 - 1) = {}
            OBVIOUS
        <3>4. Place("migrate", 1) /\ Passed("migrate", 1)'
            BY <3>3 DEF Place, Passed, Pcs, Down
        <3> QED
            BY <3>1, <3>2, <3>4, OneMoves
    <2>2. CASE LookUpFile(r)
        <3>1. Grows /\ Tables' /\ MigratedOnceInOrder'
            BY <2>2 DEF LookUpFile, Grows, Tables, MigratedOnceInOrder, BootInv
        <3>2. CASE n \in applied
            <4>1. boot' = [boot EXCEPT ![r] = [pc |-> "migrate", at |-> n + 1]]
                BY <2>2, <2>0, <3>2 DEF LookUpFile, Go
            <4>2. Place("migrate", n + 1) /\ Passed("migrate", n + 1)'
                BY <2>2, <3>2, <2>0 DEF LookUpFile, Place, Passed, Pcs, Down
            <4> QED
                BY <3>1, <4>1, <4>2, OneMoves
        <3>3. CASE n \notin applied
            <4>1. boot' = [boot EXCEPT ![r] = [pc |-> "apply", at |-> n]]
                BY <2>2, <2>0, <3>3 DEF LookUpFile, Go
            <4>2. Place("apply", n) /\ Passed("apply", n)'
                BY <2>2, <3>3, <2>0 DEF LookUpFile, Place, Passed, Pcs, Down
            <4> QED
                BY <3>1, <4>1, <4>2, OneMoves
        <3> QED
            BY <3>2, <3>3
    <2>3. CASE ApplyFile(r)
        <3>1. n \in 1 .. Files
            BY <2>3, <2>0 DEF ApplyFile, Place
        <3>2. CASE n \in applied
            <4>1. Grows /\ Tables' /\ MigratedOnceInOrder'
                BY <2>3, <2>0, <3>2 DEF ApplyFile, Grows, Tables, MigratedOnceInOrder, BootInv
            <4>2. boot' = [boot EXCEPT ![r] = [pc |-> "migration failed", at |-> 0]]
                BY <2>3, <2>0, <3>2 DEF ApplyFile, Go
            <4>3. Place("migration failed", 0) /\ Passed("migration failed", 0)'
                BY DEF Place, Passed, Pcs, Down
            <4> QED
                BY <4>1, <4>2, <4>3, OneMoves
        <3>3. CASE n \notin applied
            <4>1. /\ applied' = applied \cup {n} /\ ran' = [ran EXCEPT ![n] = @ + 1]
                  /\ boot' = [boot EXCEPT ![r] = [pc |-> "migrate", at |-> n + 1]]
                  /\ UNCHANGED <<apiKeys, failures>>
                BY <2>3, <2>0, <3>3 DEF ApplyFile, Go
            <4>2. Grows /\ Tables'
                BY <3>1, <4>1 DEF Grows, Tables, BootInv
            <4>3. 1 .. (n - 1) \subseteq applied
                BY <2>3, <2>0 DEF ApplyFile, Passed
            <4>4. 1 .. n \subseteq applied'
                BY <2>0, <4>1, <4>3
            <4>5. MigratedOnceInOrder'
                BY <3>1, <3>3, <4>1, <4>4 DEF MigratedOnceInOrder, BootInv, Tables
            <4>6. n + 1 \in 1 .. Files + 1 /\ (n + 1) - 1 = n
                BY <3>1
            <4>7. Place("migrate", n + 1)
                BY <3>1, <4>6 DEF Place, Pcs, Down
            <4>8. Passed("migrate", n + 1)'
                BY <4>4, <4>6 DEF Passed
            <4> QED
                BY <4>1, <4>2, <4>5, <4>7, <4>8, OneMoves
        <3> QED
            BY <3>2, <3>3
    <2>4. CASE Migrated(r)
        <3>1. Grows /\ Tables' /\ MigratedOnceInOrder'
            BY <2>4 DEF Migrated, Grows, Tables, MigratedOnceInOrder, BootInv
        <3>2. boot' = [boot EXCEPT ![r] = [pc |-> "seed", at |-> 1]]
            BY <2>4 DEF Migrated, Go
        <3>3. Place("seed", 1) /\ Passed("seed", 1)'
            BY <2>4, <2>0 DEF Migrated, Place, Passed, Pcs, Down
        <3> QED
            BY <3>1, <3>2, <3>3, OneMoves
    <2>5. CASE LookUpKey(r)
        <3>1. Grows /\ Tables' /\ MigratedOnceInOrder'
            BY <2>5 DEF LookUpKey, Grows, Tables, MigratedOnceInOrder, BootInv
        <3>2. CASE apiKeys[Bootstrap[n].id] # NoKey
            <4>1. boot' = [boot EXCEPT ![r] = [pc |-> "seed", at |-> n + 1]]
                BY <2>5, <2>0, <3>2 DEF LookUpKey, Go
            <4>2. Place("seed", n + 1) /\ Passed("seed", n + 1)'
                BY <2>5, <3>2, <2>0 DEF LookUpKey, Place, Passed, Pcs, Down
            <4> QED
                BY <3>1, <4>1, <4>2, OneMoves
        <3>3. CASE apiKeys[Bootstrap[n].id] = NoKey
            <4>1. boot' = [boot EXCEPT ![r] = [pc |-> "insert", at |-> n]]
                BY <2>5, <2>0, <3>3 DEF LookUpKey, Go
            <4>2. Place("insert", n) /\ Passed("insert", n)'
                BY <2>5, <3>3, <2>0 DEF LookUpKey, Place, Passed, Pcs, Down
            <4> QED
                BY <3>1, <4>1, <4>2, OneMoves
        <3> QED
            BY <3>2, <3>3
    <2>6. CASE InsertKey(r)
        <3>1. n \in 1 .. Len(Bootstrap) /\ Bootstrap[n] \in Entry /\ Bootstrap[n].id \in Ids
            BY <2>6, <2>0, EntryIds DEF InsertKey, Place
        <3>2. MigratedOnceInOrder'
            BY <2>6 DEF InsertKey, MigratedOnceInOrder, BootInv
        <3>3. CASE apiKeys[Bootstrap[n].id] # NoKey
            <4>1. Grows /\ Tables'
                BY <2>6, <2>0, <3>3 DEF InsertKey, Grows, Tables, BootInv
            <4>2. boot' = [boot EXCEPT ![r] = [pc |-> "seed failed", at |-> 0]]
                BY <2>6, <2>0, <3>3 DEF InsertKey, Go
            <4>3. Place("seed failed", 0) /\ Passed("seed failed", 0)'
                BY DEF Place, Passed, Pcs, Down
            <4> QED
                BY <3>2, <4>1, <4>2, <4>3, OneMoves
        <3>4. CASE apiKeys[Bootstrap[n].id] = NoKey
            <4> DEFINE e == Bootstrap[n]
                       row == NewRow(e.secret, e.orgId, e.keyType)
            <4>1. /\ apiKeys' = [apiKeys EXCEPT ![e.id] = row]
                  /\ boot' = [boot EXCEPT ![r] = [pc |-> "seed", at |-> n + 1]]
                  /\ UNCHANGED <<applied, ran, failures>>
                BY <2>6, <2>0, <3>4 DEF InsertKey, Go
            <4>2. row \in Row /\ row # NoKey
                BY <3>1, NewRowIsRow
            <4> HIDE DEF row
            <4>3. Grows /\ Tables' /\ apiKeys'[e.id] # NoKey
                BY <3>1, <4>1, <4>2 DEF Grows, Tables, BootInv
            <4>4. \A i \in 1 .. (n - 1) :
                    apiKeys[Bootstrap[i].id] # NoKey /\ Bootstrap[i].id \in Ids
                <5>1. \A i \in 1 .. (n - 1) : apiKeys[Bootstrap[i].id] # NoKey
                    BY <2>6, <2>0 DEF InsertKey, Passed
                <5>2. \A i \in 1 .. (n - 1) : i \in 1 .. Len(Bootstrap)
                    BY <3>1
                <5> QED
                    BY <5>1, <5>2, EntryIds
            <4>5. \A i \in 1 .. n : apiKeys'[Bootstrap[i].id] # NoKey
                BY <3>1, <4>3, <4>4 DEF Grows
            <4>6. n + 1 \in 1 .. Len(Bootstrap) + 1 /\ (n + 1) - 1 = n
                BY <3>1
            <4>7. Place("seed", n + 1)
                BY <3>1, <4>6 DEF Place, Pcs, Down
            <4>8. 1 .. Files \subseteq applied
                BY <2>6, <2>0 DEF InsertKey, Passed
            <4>9. Passed("seed", n + 1)'
                BY <4>1, <4>5, <4>6, <4>8 DEF Passed
            <4> QED
                BY <3>2, <4>1, <4>3, <4>7, <4>9, OneMoves
        <3> QED
            BY <3>3, <3>4
    <2>7. CASE Serve(r)
        <3>1. Grows /\ Tables' /\ MigratedOnceInOrder'
            BY <2>7 DEF Serve, Grows, Tables, MigratedOnceInOrder, BootInv
        <3>2. boot' = [boot EXCEPT ![r] = [pc |-> "serve", at |-> 0]]
            BY <2>7 DEF Serve, Go
        <3>3. Place("serve", 0) /\ Passed("serve", 0)'
            BY <2>7, <2>0 DEF Serve, Place, Passed, Pcs, Down
        <3> QED
            BY <3>1, <3>2, <3>3, OneMoves
    <2>8. CASE Fail(r)
        <3>1. Grows /\ Tables' /\ MigratedOnceInOrder'
            BY <2>8 DEF Fail, Grows, Tables, MigratedOnceInOrder, BootInv
        <3>2. boot' = [boot EXCEPT ![r] = [pc |-> "off", at |-> 0]]
            BY <2>8 DEF Fail, Go
        <3>3. Place("off", 0) /\ Passed("off", 0)'
            BY <2>8, <2>0 DEF Fail, Place, Passed, Pcs, Down
        <3> QED
            BY <3>1, <3>2, <3>3, OneMoves
    <2> QED
        BY <1>2, <2>1, <2>2, <2>3, <2>4, <2>5, <2>6, <2>7, <2>8 DEF BootStep, Proceed
<1> QED
    BY <1>1, <1>2 DEF BootNext

(* So it holds throughout.                                                  *)
LEMMA BootInvariant == BootSpec => []BootInv
BY InitBootInv, StepKeepsBootInv, PTL DEF BootSpec

(* Types, and a replica at a step is at a file or entry that exists.        *)
THEOREM TypeCorrect == BootSpec => []BootTypeOK
<1>1. BootInv => BootTypeOK
    BY DEF BootInv, Tables, Place, BootTypeOK, At
<1> QED
    BY <1>1, BootInvariant, PTL

(* Each migration takes effect once, is recorded, and comes after those     *)
(* before it, whichever replicas race and wherever they die (migrate.ts).   *)
THEOREM OnceInOrder == BootSpec => []MigratedOnceInOrder
<1>1. BootInv => MigratedOnceInOrder
    BY DEF BootInv
<1> QED
    BY <1>1, BootInvariant, PTL

(* No replica serves before the schema is complete and every bootstrap key  *)
(* is in the table (makeDefaultDeps).                                       *)
THEOREM ReadyWhenServing == BootSpec => []ServingReady
<1>1. BootInv => ServingReady
    BY DEF BootInv, Tables, Passed, ServingReady, At
<1> QED
    BY <1>1, BootInvariant, PTL

-----------------------------------------------------------------------------
(* The life of keys.                                                       *)

(* What a key is, apart from whether it was revoked.                        *)
SameKey(r, s) == r.secret = s.secret /\ r.orgId = s.orgId /\ r.keyType = s.keyType

(* Two keys that a table holds, of one org.                                 *)
Kin(keys, a, b) == keys[a] # NoKey /\ keys[b] # NoKey /\ keys[a].orgId = keys[b].orgId

(* What a request under way knows, and what of it is still so: the row it   *)
(* read stands but for a revocation; it was alive when the request arrived; *)
(* past argon2 the secret is the row's, past list the target is of its org. *)
Sound(c) ==
    c # Idle =>
        /\ c.token.keyType = NeededType(c.route)
        /\ c.dead => Revoked(c.token.id)
        /\ c.pc # "select" =>
             /\ ~c.dead /\ c.row \in Row /\ c.row.keyType = c.token.keyType
             /\ apiKeys[c.token.id] # NoKey /\ SameKey(apiKeys[c.token.id], c.row)
        /\ c.pc \in {"work", "update"} => c.row.secret = c.token.secret
        /\ c.pc = "update" => Kin(apiKeys, c.token.id, c.target)

History ==
    /\ minter \in [Ids -> Ids \cup {NoId}]
    /\ revokers \in [Ids -> Seq(Ids)]
    /\ \A id \in Ids :
         /\ minter[id] # NoId => Kin(apiKeys, minter[id], id)
         /\ \A i \in 1 .. Len(revokers[id]) : Kin(apiKeys, revokers[id][i], id)

KeyInv ==
    /\ BootInv
    /\ connection \in [Connections -> Request \cup {Idle}]
    /\ \A q \in Connections : Sound(connection[q])
    /\ History
    /\ RevokedOnce

(* What a step may do to the table of keys: add one or revoke one.          *)
AddsKey ==
    \E id \in Ids, row \in Row :
        /\ apiKeys[id] = NoKey /\ row.revoked = FALSE
        /\ apiKeys' = [apiKeys EXCEPT ![id] = row]
RevokesKey ==
    \E id \in Ids :
        /\ apiKeys[id] # NoKey /\ ~apiKeys[id].revoked
        /\ apiKeys' = [apiKeys EXCEPT ![id].revoked = TRUE]

(* A row of the table stays, and all of it but the revocation.              *)
RowsKept ==
    \A id \in Ids : apiKeys[id] # NoKey =>
        /\ apiKeys'[id] # NoKey /\ SameKey(apiKeys'[id], apiKeys[id])
        /\ apiKeys[id].revoked => apiKeys'[id].revoked

(* Adding a key and revoking one keep the rows there are.                   *)
LEMMA TableStep ==
    ASSUME Tables, UNCHANGED apiKeys \/ AddsKey \/ RevokesKey
    PROVE  RowsKept /\ apiKeys' \in [Ids -> Row \cup {NoKey}]
<1> USE DEF Tables
<1>1. CASE UNCHANGED apiKeys
    BY <1>1 DEF RowsKept, SameKey
<1>2. CASE AddsKey
    BY <1>2 DEF AddsKey, RowsKept, SameKey
<1>3. CASE RevokesKey
  <2>1. PICK id \in Ids : /\ apiKeys[id] # NoKey
                          /\ apiKeys' = [apiKeys EXCEPT ![id].revoked = TRUE]
      BY <1>3 DEF RevokesKey
  <2>2. apiKeys[id] \in Row
      BY <2>1
  <2> DEFINE row == [apiKeys[id] EXCEPT !.revoked = TRUE]
  <2>3. /\ row \in Row /\ SameKey(row, apiKeys[id]) /\ row.revoked
      BY <2>2 DEF Row, SameKey
  <2>4. row # NoKey
      BY <2>3, BootAssumption
  <2>5. apiKeys' = [apiKeys EXCEPT ![id] = row]
      BY <2>1
  <2> HIDE DEF row
  <2> QED BY <2>3, <2>4, <2>5 DEF RowsKept, SameKey
<1> QED BY <1>1, <1>2, <1>3

(* Keys that are kin stay so.                                               *)
LEMMA KinStays ==
    ASSUME RowsKept, NEW a \in Ids, NEW b \in Ids, Kin(apiKeys, a, b)
    PROVE  Kin(apiKeys', a, b)
  BY DEF RowsKept, Kin, SameKey

(* What a request knows stays true while keys are added and revoked.        *)
LEMMA SoundStays ==
    ASSUME RowsKept, NEW c \in Request \cup {Idle}, Sound(c)
    PROVE  Sound(c)'
<1> SUFFICES ASSUME c # Idle PROVE Sound(c)'
    BY DEF Sound
<1>1. c.token.id \in Ids /\ c.target \in Ids
  <2>1. c.token \in Tokens /\ c.target \in Ids
      BY DEF Request
  <2> QED BY <2>1, TokenAssumption DEF Token
<1> DEFINE k == c.token.id
<1>2. c.dead => Revoked(k)'
    BY <1>1 DEF Sound, RowsKept, Revoked
<1>3. c.pc # "select" => (apiKeys[k] # NoKey /\ SameKey(apiKeys[k], c.row))'
    BY <1>1 DEF Sound, RowsKept, SameKey
<1>4. c.pc = "update" => Kin(apiKeys', k, c.target)
    BY <1>1, KinStays DEF Sound
<1> QED BY <1>2, <1>3, <1>4 DEF Sound

(* The boots under way do not mind the keys that requests add or revoke.    *)
LEMMA BootUndisturbed ==
    ASSUME BootInv, RowsKept, apiKeys' \in [Ids -> Row \cup {NoKey}],
           UNCHANGED <<applied, boot, ran, failures>>
    PROVE  BootInv'
<1>1. Grows
    BY DEF Grows, RowsKept
<1>2. Tables' /\ MigratedOnceInOrder'
    BY DEF Tables, MigratedOnceInOrder, BootInv
<1>3. ASSUME NEW r \in Replicas
      PROVE  (Place(boot[r].pc, boot[r].at) /\ Passed(boot[r].pc, boot[r].at))'
  <2>1. Place(boot[r].pc, boot[r].at) /\ Passed(boot[r].pc, boot[r].at)
      BY DEF BootInv
  <2>2. \A x, y : Place(x, y) /\ Passed(x, y) => Passed(x, y)'
      BY <1>1, PassedStays
  <2>3. boot' = boot
      OBVIOUS
  <2> QED BY <2>1, <2>2, <2>3 DEF Passed, Place
<1>4. (boot \in [Replicas -> [pc : Pcs, at : Nat]])'
    BY DEF BootInv
<1> QED BY <1>2, <1>3, <1>4 DEF BootInv

(* The key histories stay consistent while nobody writes them.              *)
LEMMA HistoryStays ==
    ASSUME History, RevokedOnce, Tables, UNCHANGED apiKeys \/ AddsKey,
           UNCHANGED <<minter, revokers>>
    PROVE  History' /\ RevokedOnce'
<1>1. RowsKept
    BY TableStep
<1>3. ASSUME NEW id \in Ids
      PROVE  /\ minter'[id] # NoId => Kin(apiKeys', minter[id], id)
             /\ \A i \in 1 .. Len(revokers'[id]) : Kin(apiKeys', revokers[id][i], id)
  <2>1. minter[id] # NoId => minter[id] \in Ids /\ Kin(apiKeys, minter[id], id)
      BY DEF History
  <2>2. ASSUME NEW i \in 1 .. Len(revokers[id])
        PROVE  revokers[id][i] \in Ids /\ Kin(apiKeys, revokers[id][i], id)
    <3>1. revokers[id] \in Seq(Ids)
        BY DEF History
    <3> QED BY <3>1 DEF History
  <2>3. \A a, b \in Ids : Kin(apiKeys, a, b) => Kin(apiKeys', a, b)
      BY <1>1, KinStays
  <2> QED BY <2>1, <2>2, <2>3 DEF Kin
<1>4. History'
    BY <1>3 DEF History, Kin
<1>5. \A id \in Ids : Revoked(id)' <=> Revoked(id)
  <2>1. CASE UNCHANGED apiKeys
      BY <2>1 DEF Revoked
  <2>2. CASE AddsKey
      BY <2>2, BootAssumption DEF AddsKey, Revoked, Tables
  <2> QED BY <2>1, <2>2
<1>6. RevokedOnce'
    BY <1>5 DEF RevokedOnce, Revoked
<1> QED BY <1>4, <1>6

-----------------------------------------------------------------------------
(* A step of a boot adds at most a key: seed looks before it inserts, and   *)
(* the primary key refuses what came in between.                            *)
LEMMA BootAddsKeys ==
    ASSUME BootInv, NEW r \in Replicas, BootStep(r) \/ Fail(r)
    PROVE  UNCHANGED apiKeys \/ AddsKey
<1>1. CASE InsertKey(r)
  <2> DEFINE n == boot[r].at
             e == Bootstrap[n]
  <2>1. n \in 1 .. Len(Bootstrap)
      BY <1>1 DEF InsertKey, At, BootInv, Place
  <2>2. e \in Entry /\ e.id \in Ids
      BY <2>1, EntryIds
  <2> HIDE DEF e
  <2>3. /\ NewRow(e.secret, e.orgId, e.keyType) \in Row
        /\ NewRow(e.secret, e.orgId, e.keyType).revoked = FALSE
      BY <2>2, NewRowIsRow DEF NewRow
  <2>4. \/ UNCHANGED apiKeys
        \/ /\ apiKeys[e.id] = NoKey
           /\ apiKeys' = [apiKeys EXCEPT ![e.id] = NewRow(e.secret, e.orgId, e.keyType)]
      BY <1>1 DEF InsertKey, e
  <2> QED BY <2>2, <2>3, <2>4 DEF AddsKey
<1>2. CASE ~InsertKey(r)
    BY <1>2 DEF BootStep, Proceed, Start, LookUpFile, ApplyFile, Migrated, LookUpKey, Serve, Fail
<1> QED BY <1>1, <1>2

(* One connection moves on to a request that is sound, or to none.          *)
LEMMA OneConnectionMoves ==
    ASSUME connection \in [Connections -> Request \cup {Idle}],
           \A q \in Connections : Sound(connection[q]), RowsKept,
           NEW q \in Connections, NEW c \in Request \cup {Idle},
           connection' = [connection EXCEPT ![q] = c], Sound(c)'
    PROVE  /\ connection' \in [Connections -> Request \cup {Idle}]
           /\ \A p \in Connections : Sound(connection[p])'
<1>1. connection' \in [Connections -> Request \cup {Idle}]
    OBVIOUS
<1>2. ASSUME NEW p \in Connections PROVE Sound(connection[p])'
  <2>1. CASE p = q
    <3>1. connection'[p] = c
        BY <2>1
    <3> QED BY <3>1 DEF Sound
  <2>2. CASE p # q
    <3>1. connection'[p] = connection[p]
        BY <2>2
    <3>2. connection[p] \in Request \cup {Idle} /\ Sound(connection[p])
        OBVIOUS
    <3>3. \A x \in Request \cup {Idle} : Sound(x) => Sound(x)'
        BY SoundStays
    <3> QED BY <3>1, <3>2, <3>3 DEF Sound
  <2> QED BY <2>1, <2>2
<1> QED BY <1>1, <1>2

(* A request that ends leaves nothing to know.                              *)
LEMMA IdleIsSound == Sound(Idle) /\ Sound(Idle)'
  BY DEF Sound

(* A step of a request that leaves the keys alone: up to its last await.    *)
LEMMA ReadingStep ==
    ASSUME KeyInv, NEW q \in Connections, NEW c \in Request \cup {Idle},
           connection' = [connection EXCEPT ![q] = c], Sound(c),
           UNCHANGED <<bootVars, minter, revokers>>
    PROVE  KeyInv'
<1>1. UNCHANGED <<applied, apiKeys, boot, ran, failures>>
    BY DEF bootVars
<1>2. Tables
    BY DEF KeyInv, BootInv
<1>3. RowsKept /\ apiKeys' \in [Ids -> Row \cup {NoKey}]
    BY <1>1, <1>2, TableStep
<1>4. BootInv'
    BY <1>1, <1>3, BootUndisturbed DEF KeyInv
<1>5. Sound(c)'
    BY <1>3, SoundStays
<1>6. /\ connection' \in [Connections -> Request \cup {Idle}]
      /\ \A p \in Connections : Sound(connection[p])'
    BY <1>3, <1>5, OneConnectionMoves DEF KeyInv
<1>7. History' /\ RevokedOnce'
    BY <1>1, <1>2, HistoryStays DEF KeyInv
<1> QED BY <1>4, <1>6, <1>7 DEF KeyInv

(* The gate and the reads.                                                  *)
LEMMA GateStep ==
    ASSUME KeyInv, NEW q \in Connections,
           \/ \E r \in Replicas, route \in Routes, t \in Tokens, target \in Ids :
                Arrive(q, r, route, t, target)
           \/ Select(q) \/ Compare(q) \/ Finish(q) \/ CheckOwner(q)
    PROVE  KeyInv'
<1> DEFINE c == connection[q]
<1>t. /\ connection \in [Connections -> Request \cup {Idle}] /\ Sound(c)
      /\ Tables
    BY DEF KeyInv, BootInv
<1>i. Idle \in Request \cup {Idle} /\ Sound(Idle)
    BY IdleIsSound
<1>1. ASSUME NEW r \in Replicas, NEW route \in Routes, NEW t \in Tokens, NEW target \in Ids,
             Arrive(q, r, route, t, target)
      PROVE  KeyInv'
  <2> DEFINE new == [pc |-> "select", at |-> r, route |-> route, token |-> t,
                     target |-> target, row |-> NoKey, dead |-> Revoked(t.id)]
  <2>1. Revoked(t.id) \in BOOLEAN
    <3>1. t.id \in Ids
        BY TokenAssumption DEF Token
    <3>2. CASE apiKeys[t.id] = NoKey
        BY <3>2 DEF Revoked
    <3>3. CASE apiKeys[t.id] # NoKey
      <4>1. apiKeys[t.id] \in Row
          BY <1>t, <3>1, <3>3 DEF Tables
      <4> QED BY <3>3, <4>1 DEF Revoked, Row
    <3> QED BY <3>2, <3>3
  <2>2. new \in Request
      BY <2>1 DEF Request
  <2>3. /\ connection' = [connection EXCEPT ![q] = new]
        /\ UNCHANGED <<bootVars, minter, revokers>>
        /\ t.keyType = NeededType(route)
      BY <1>1 DEF Arrive
  <2>4. Sound(new)
      BY <2>3 DEF Sound
  <2> HIDE DEF new
  <2> QED BY <2>2, <2>3, <2>4, ReadingStep
<1>2. ASSUME NEW pc, On(q, pc)
      PROVE  c \in Request /\ c # Idle /\ c.pc = pc /\ c.token.id \in Ids /\ c.target \in Ids
  <2>1. c \in Request /\ c # Idle /\ c.pc = pc
      BY <1>t, <1>2 DEF On
  <2>2. c.token \in Tokens /\ c.target \in Ids
      BY <2>1 DEF Request
  <2> QED BY <2>1, <2>2, TokenAssumption DEF Token
<1>3. CASE Select(q)
  <2> DEFINE row == apiKeys[c.token.id]
             new == [c EXCEPT !.pc = "compare", !.row = row]
  <2>1. /\ c \in Request /\ c # Idle /\ c.pc = "select" /\ c.token.id \in Ids
        /\ UNCHANGED <<bootVars, minter, revokers>>
      BY <1>2, <1>3 DEF Select
  <2>2. CASE row = NoKey \/ row.revoked \/ row.keyType # c.token.keyType
    <3>1. connection' = [connection EXCEPT ![q] = Idle]
        BY <1>3, <2>2 DEF Select, Answer
    <3> QED BY <1>i, <2>1, <3>1, ReadingStep
  <2>3. CASE ~(row = NoKey \/ row.revoked \/ row.keyType # c.token.keyType)
    <3>1. connection' = [connection EXCEPT ![q] = new]
        BY <1>t, <1>3, <2>3 DEF Select
    <3>2. row \in Row
        BY <1>t, <2>1, <2>3 DEF Tables
    <3> HIDE DEF row
    <3>3. /\ new \in Request /\ new.token = c.token /\ new.route = c.route
          /\ new.dead = c.dead /\ new.row = row /\ new.pc = "compare"
        BY <2>1, <3>2 DEF Request
    <3>4. ~c.dead
        BY <1>t, <2>1, <2>3 DEF Sound, Revoked, row
    <3> HIDE DEF new
    <3>5. Sound(new)
      <4>1. new.token.keyType = NeededType(new.route)
          BY <1>t, <2>1, <3>3 DEF Sound
      <4>2. apiKeys[new.token.id] # NoKey /\ SameKey(apiKeys[new.token.id], new.row)
          BY <2>3, <3>3 DEF SameKey, row
      <4>3. ~new.dead /\ new.row \in Row /\ new.row.keyType = new.token.keyType
          BY <2>3, <3>2, <3>3, <3>4
      <4> QED BY <3>3, <4>1, <4>2, <4>3 DEF Sound
    <3> QED BY <2>1, <3>1, <3>3, <3>5, ReadingStep
  <2> QED BY <2>2, <2>3
<1>4. ASSUME NEW pc \in {"work", "update"}, c \in Request, c # Idle, c.pc # "select",
             c.row.secret = c.token.secret,
             pc = "update" => Kin(apiKeys, c.token.id, c.target),
             GoOn(q, pc), UNCHANGED <<bootVars, minter, revokers>>
      PROVE  KeyInv'
  <2> DEFINE new == [c EXCEPT !.pc = pc]
  <2>1. connection' = [connection EXCEPT ![q] = new]
      BY <1>4, <1>t DEF GoOn
  <2>2. /\ new \in Request /\ new.token = c.token /\ new.route = c.route
        /\ new.dead = c.dead /\ new.row = c.row /\ new.target = c.target /\ new.pc = pc
      BY <1>4 DEF Request
  <2> HIDE DEF new
  <2>3. Sound(new)
      BY <1>t, <1>4, <2>2 DEF Sound
  <2> QED BY <1>4, <2>1, <2>2, <2>3, ReadingStep
<1>5. CASE Compare(q)
  <2>1. c \in Request /\ c # Idle /\ c.pc = "compare"
      BY <1>2, <1>5 DEF Compare
  <2>2. CASE c.row.secret = c.token.secret
    <3>1. GoOn(q, "work") /\ UNCHANGED <<bootVars, minter, revokers>>
        BY <1>5, <2>2 DEF Compare
    <3> QED BY <1>4, <2>1, <2>2, <3>1
  <2>3. CASE c.row.secret # c.token.secret
      BY <1>5, <1>i, <2>3, ReadingStep DEF Compare, Answer
  <2> QED BY <2>2, <2>3
<1>6. CASE Finish(q)
    BY <1>6, <1>i, ReadingStep DEF Finish, Answer
<1>7. CASE CheckOwner(q)
  <2>1. /\ c \in Request /\ c # Idle /\ c.pc = "work"
        /\ UNCHANGED <<bootVars, minter, revokers>>
      BY <1>2, <1>7 DEF CheckOwner
  <2>2. /\ c.row.secret = c.token.secret
        /\ apiKeys[c.token.id] # NoKey /\ SameKey(apiKeys[c.token.id], c.row)
      BY <1>t, <2>1 DEF Sound
  <2>3. CASE apiKeys[c.target] # NoKey /\ apiKeys[c.target].orgId = c.row.orgId
    <3>1. GoOn(q, "update")
        BY <1>7, <2>3 DEF CheckOwner
    <3>2. Kin(apiKeys, c.token.id, c.target)
        BY <2>2, <2>3 DEF Kin, SameKey
    <3> QED BY <1>4, <2>1, <2>2, <3>1, <3>2
  <2>4. CASE ~(apiKeys[c.target] # NoKey /\ apiKeys[c.target].orgId = c.row.orgId)
    <3>1. connection' = [connection EXCEPT ![q] = Idle]
        BY <1>7, <2>4 DEF CheckOwner, Answer
    <3> QED BY <1>i, <2>1, <3>1, ReadingStep
  <2> QED BY <2>3, <2>4
<1> QED BY <1>1, <1>3, <1>5, <1>6, <1>7

(* The INSERT of mint: the new key is kin of the key that asked for it.     *)
LEMMA MintStep ==
    ASSUME KeyInv, NEW q \in Connections, NEW id \in Ids, NEW secret \in Secrets,
           NEW keyType \in KeyTypes, Mint(q, id, secret, keyType)
    PROVE  KeyInv'
<1> DEFINE c   == connection[q]
           k   == c.token.id
           row == NewRow(secret, c.row.orgId, keyType)
<1>t. Tables /\ Idle \in Request \cup {Idle} /\ Sound(Idle) /\ Sound(Idle)'
    BY IdleIsSound DEF KeyInv, BootInv
<1>1. /\ c \in Request /\ c # Idle /\ c.pc = "work" /\ Sound(c)
      /\ connection' = [connection EXCEPT ![q] = Idle]
      /\ UNCHANGED <<applied, boot, ran, failures, revokers>>
    BY DEF Mint, On, Answer, KeyInv
<1>2. k \in Ids
  <2>1. c.token \in Tokens
      BY <1>1 DEF Request
  <2> QED BY <2>1, TokenAssumption DEF Token
<1>3. c.row \in Row /\ apiKeys[k] # NoKey /\ apiKeys[k].orgId = c.row.orgId
    BY <1>1 DEF Sound, SameKey
<1>4. row \in Row /\ row.revoked = FALSE /\ row.orgId = c.row.orgId
    BY <1>3 DEF NewRow, Row
<1>a. CASE apiKeys[id] # NoKey
  <2>1. UNCHANGED <<bootVars, minter, revokers>>
      BY <1>1, <1>a DEF Mint, bootVars
  <2> QED BY <1>t, <1>1, <2>1, ReadingStep
<1>b. CASE apiKeys[id] = NoKey
  <2> HIDE DEF row, c
  <2>1. /\ apiKeys' = [apiKeys EXCEPT ![id] = row]
        /\ minter' = [minter EXCEPT ![id] = k]
      BY <1>b DEF Mint, row, c
  <2>2. AddsKey
      BY <1>4, <1>b, <2>1 DEF AddsKey
  <2>3. RowsKept /\ apiKeys' \in [Ids -> Row \cup {NoKey}]
      BY <1>t, <2>2, TableStep
  <2>4. BootInv'
      BY <1>1, <2>3, BootUndisturbed DEF KeyInv
  <2>5. /\ connection' \in [Connections -> Request \cup {Idle}]
        /\ \A p \in Connections : Sound(connection[p])'
      BY <1>t, <1>1, <2>3, OneConnectionMoves DEF KeyInv
  <2>6. Kin(apiKeys', k, id)
    <3>1. row # NoKey /\ k # id
        BY <1>3, <1>4, <1>b, BootAssumption
    <3>2. apiKeys'[id] = row /\ apiKeys'[k] = apiKeys[k]
        BY <1>t, <1>2, <2>1, <3>1 DEF Tables
    <3> QED BY <1>3, <1>4, <3>1, <3>2 DEF Kin
  <2>7. \A a, b \in Ids : Kin(apiKeys, a, b) => Kin(apiKeys', a, b)
      BY <2>3, KinStays
  <2>8. ASSUME NEW i \in Ids
        PROVE  /\ minter'[i] # NoId => Kin(apiKeys', minter'[i], i)
               /\ \A j \in 1 .. Len(revokers[i]) : Kin(apiKeys', revokers[i][j], i)
    <3>1. \A j \in 1 .. Len(revokers[i]) : Kin(apiKeys', revokers[i][j], i)
      <4>1. revokers[i] \in Seq(Ids) /\ revokers' = revokers
          BY <1>1 DEF KeyInv, History
      <4>2. \A j \in 1 .. Len(revokers[i]) :
              revokers[i][j] \in Ids /\ Kin(apiKeys, revokers[i][j], i)
          BY <4>1 DEF KeyInv, History
      <4> QED BY <2>7, <4>1, <4>2 DEF Kin
    <3>2. CASE i = id
      <4>1. minter'[i] = k
          BY <2>1, <3>2 DEF KeyInv, History
      <4> QED BY <2>6, <3>1, <3>2, <4>1 DEF Kin
    <3>3. CASE i # id
      <4>1. minter'[i] = minter[i]
          BY <2>1, <3>3 DEF KeyInv, History
      <4>2. minter[i] # NoId => minter[i] \in Ids /\ Kin(apiKeys, minter[i], i)
          BY DEF KeyInv, History
      <4> QED BY <2>7, <3>1, <4>1, <4>2 DEF Kin
    <3> QED BY <3>2, <3>3
  <2>9. History'
    <3>1. minter' \in [Ids -> Ids \cup {NoId}] /\ revokers' = revokers
        BY <1>1, <1>2, <2>1 DEF KeyInv, History
    <3> QED BY <2>8, <3>1 DEF KeyInv, History, Kin
  <2>10. RevokedOnce'
    <3>1. \A i \in Ids : Revoked(i)' <=> Revoked(i)
        BY <1>t, <1>4, <1>b, <2>1 DEF Revoked, Tables
    <3> QED BY <1>1, <3>1 DEF KeyInv, RevokedOnce, Revoked
  <2> QED BY <2>4, <2>5, <2>9, <2>10 DEF KeyInv
<1> QED BY <1>a, <1>b

(* The UPDATE of revoke: of racing DELETEs one changes the row, and it came *)
(* from a key of the same org.                                              *)
LEMMA RevokeStep ==
    ASSUME KeyInv, NEW q \in Connections, Revoke(q)
    PROVE  KeyInv'
<1> DEFINE c  == connection[q]
           k  == c.token.id
           id == c.target
<1>t. Tables /\ Idle \in Request \cup {Idle} /\ Sound(Idle) /\ Sound(Idle)'
    BY IdleIsSound DEF KeyInv, BootInv
<1>1. /\ c \in Request /\ c # Idle /\ c.pc = "update" /\ Sound(c)
      /\ connection' = [connection EXCEPT ![q] = Idle]
      /\ UNCHANGED <<applied, boot, ran, failures, minter>>
    BY DEF Revoke, On, Answer, KeyInv
<1>2. k \in Ids /\ id \in Ids
  <2>1. c.token \in Tokens /\ id \in Ids
      BY <1>1 DEF Request
  <2> QED BY <2>1, TokenAssumption DEF Token
<1>3. Kin(apiKeys, k, id)
    BY <1>1 DEF Sound
<1>a. CASE Revoked(id)
  <2>1. UNCHANGED <<bootVars, minter, revokers>>
      BY <1>1, <1>a DEF Revoke, bootVars
  <2> QED BY <1>t, <1>1, <2>1, ReadingStep
<1>b. CASE ~Revoked(id)
  <2> HIDE DEF c, k, id
  <2>1. /\ apiKeys' = [apiKeys EXCEPT ![id].revoked = TRUE]
        /\ revokers' = [revokers EXCEPT ![id] = Append(@, k)]
      BY <1>b DEF Revoke, c, k, id
  <2>2. RevokesKey
      BY <1>2, <1>3, <1>b, <2>1 DEF RevokesKey, Kin, Revoked
  <2>3. RowsKept /\ apiKeys' \in [Ids -> Row \cup {NoKey}]
      BY <1>t, <2>2, TableStep
  <2>4. BootInv'
      BY <1>1, <2>3, BootUndisturbed DEF KeyInv
  <2>5. /\ connection' \in [Connections -> Request \cup {Idle}]
        /\ \A p \in Connections : Sound(connection[p])'
      BY <1>t, <1>1, <2>3, OneConnectionMoves DEF KeyInv
  <2>6. \A a, b \in Ids : Kin(apiKeys, a, b) => Kin(apiKeys', a, b)
      BY <2>3, KinStays
  <2>7. revokers \in [Ids -> Seq(Ids)] /\ minter \in [Ids -> Ids \cup {NoId}]
      BY DEF KeyInv, History
  <2>8. revokers' \in [Ids -> Seq(Ids)]
    <3>1. Append(revokers[id], k) \in Seq(Ids)
        BY <1>2, <2>7, AppendProperties
    <3> QED BY <1>2, <2>1, <2>7, <3>1
  <2>9. ASSUME NEW i \in Ids, NEW j \in 1 .. Len(revokers'[i])
        PROVE  Kin(apiKeys', revokers'[i][j], i)
    <3>1. \A n \in 1 .. Len(revokers[i]) :
            revokers[i][n] \in Ids /\ Kin(apiKeys, revokers[i][n], i)
      <4>1. revokers[i] \in Seq(Ids)
          BY <2>7
      <4> QED BY <4>1 DEF KeyInv, History
    <3>2. CASE i = id
      <4> DEFINE s == revokers[id]
      <4>0. s \in Seq(Ids)
          BY <1>2, <2>7
      <4>1. revokers'[i] = Append(s, k)
          BY <1>2, <2>1, <2>7, <3>2
      <4> HIDE DEF s
      <4>2. /\ Len(s) \in Nat /\ Len(Append(s, k)) = Len(s) + 1
            /\ \A n \in 1 .. Len(s) : Append(s, k)[n] = s[n]
            /\ Append(s, k)[Len(s) + 1] = k
          BY <1>2, <4>0, AppendProperties
      <4>3. j \in 1 .. Len(s) \/ j = Len(s) + 1
          BY <4>1, <4>2
      <4>4. CASE j \in 1 .. Len(s)
        <5>1. revokers'[i][j] = s[j]
            BY <4>1, <4>2, <4>4
        <5>2. s[j] \in Ids /\ Kin(apiKeys, s[j], i)
            BY <3>1, <3>2, <4>4 DEF s
        <5> QED BY <2>6, <5>1, <5>2 DEF Kin
      <4>5. CASE j = Len(s) + 1
        <5>1. revokers'[i][j] = k
            BY <4>1, <4>2, <4>5
        <5> QED BY <1>2, <1>3, <2>6, <3>2, <5>1 DEF Kin
      <4> QED BY <4>3, <4>4, <4>5
    <3>3. CASE i # id
      <4>1. revokers'[i] = revokers[i]
          BY <2>1, <2>7, <3>3
      <4> QED BY <2>6, <3>1, <4>1 DEF Kin
    <3> QED BY <3>2, <3>3
  <2>10. ASSUME NEW i \in Ids, minter[i] # NoId PROVE Kin(apiKeys', minter[i], i)
    <3>1. minter[i] \in Ids /\ Kin(apiKeys, minter[i], i)
        BY <2>7, <2>10 DEF KeyInv, History
    <3> QED BY <1>1, <2>6, <3>1 DEF Kin
  <2>11. History'
      BY <1>1, <2>7, <2>8, <2>9, <2>10 DEF History, Kin
  <2>12. RevokedOnce'
    <3> SUFFICES ASSUME NEW i \in Ids
                 PROVE  Len(revokers'[i]) = IF Revoked(i)' THEN 1 ELSE 0
        BY DEF RevokedOnce
    <3>1. Len(revokers[i]) = IF Revoked(i) THEN 1 ELSE 0
        BY DEF KeyInv, RevokedOnce
    <3>2. CASE i = id
      <4>1. Len(revokers[id]) = 0 /\ revokers[id] \in Seq(Ids)
          BY <1>b, <2>7, <3>1, <3>2
      <4>2. Len(Append(revokers[id], k)) = 1
          BY <1>2, <4>1, AppendProperties
      <4>3. revokers'[i] = Append(revokers[id], k)
          BY <1>2, <2>1, <2>7, <3>2
      <4>4. Revoked(i)'
        <5>1. apiKeys[id] # NoKey /\ apiKeys[id] \in Row
            BY <1>t, <1>2, <1>3 DEF Kin, Tables
        <5>2. apiKeys'[id] # NoKey
            BY <1>2, <2>3, <5>1 DEF RowsKept
        <5>3. apiKeys'[id].revoked = TRUE
            BY <1>t, <1>2, <2>1, <5>1 DEF Tables, Row
        <5> QED BY <3>2, <5>2, <5>3 DEF Revoked
      <4> QED BY <4>2, <4>3, <4>4
    <3>3. CASE i # id
      <4>1. revokers'[i] = revokers[i] /\ apiKeys'[i] = apiKeys[i]
          BY <1>t, <2>1, <2>7, <3>3 DEF Tables
      <4> QED BY <3>1, <4>1 DEF Revoked
    <3> QED BY <3>2, <3>3
  <2> QED BY <2>4, <2>5, <2>11, <2>12 DEF KeyInv
<1> QED BY <1>a, <1>b

(* A replica boots or ends beside the requests.                             *)
LEMMA ReplicaStep ==
    ASSUME KeyInv, NEW r \in Replicas, Replica(r)
    PROVE  KeyInv'
<1>1. BootStep(r) \/ Fail(r)
    BY DEF Replica
<1>2. UNCHANGED apiKeys \/ AddsKey
    BY <1>1, BootAddsKeys DEF KeyInv
<1>3. BootInv'
    BY <1>1, StepKeepsBootInv DEF KeyInv, BootNext
<1>4. Tables
    BY DEF KeyInv, BootInv
<1>5. RowsKept
    BY <1>2, <1>4, TableStep
<1>6. UNCHANGED <<minter, revokers>>
    BY DEF Replica
<1>7. History' /\ RevokedOnce'
    BY <1>2, <1>4, <1>6, HistoryStays DEF KeyInv
<1>8. \A q \in Connections : connection'[q] \in {Idle, connection[q]}
    BY DEF Replica
<1>9. connection' \in [Connections -> Request \cup {Idle}]
    BY <1>8 DEF Replica, KeyInv
<1>10. ASSUME NEW q \in Connections PROVE Sound(connection[q])'
  <2>1. CASE connection'[q] = Idle
      BY <2>1 DEF Sound
  <2>2. CASE connection'[q] = connection[q]
    <3>1. connection[q] \in Request \cup {Idle} /\ Sound(connection[q])
        BY DEF KeyInv
    <3>2. \A x \in Request \cup {Idle} : Sound(x) => Sound(x)'
        BY <1>5, SoundStays
    <3> QED BY <2>2, <3>1, <3>2 DEF Sound
  <2> QED BY <1>8, <2>1, <2>2
<1> QED BY <1>3, <1>7, <1>9, <1>10 DEF KeyInv

(* Every step keeps the invariant.                                          *)
LEMMA KeyStep == KeyInv /\ [Next]_vars => KeyInv'
<1> SUFFICES ASSUME KeyInv, [Next]_vars PROVE KeyInv'
    OBVIOUS
<1>1. CASE UNCHANGED vars
  <2>1. UNCHANGED <<bootVars, minter, revokers>> /\ connection' = connection
      BY <1>1 DEF vars, requestVars
  <2>2. UNCHANGED <<applied, apiKeys, boot, ran, failures>>
      BY <2>1 DEF bootVars
  <2>3. Tables
      BY DEF KeyInv, BootInv
  <2>4. RowsKept /\ apiKeys' \in [Ids -> Row \cup {NoKey}]
      BY <2>2, <2>3, TableStep
  <2>5. BootInv' /\ History' /\ RevokedOnce'
      BY <2>1, <2>2, <2>3, <2>4, BootUndisturbed, HistoryStays DEF KeyInv
  <2>6. ASSUME NEW q \in Connections PROVE Sound(connection[q])'
    <3>1. connection[q] \in Request \cup {Idle} /\ Sound(connection[q])
        BY DEF KeyInv
    <3>2. \A x \in Request \cup {Idle} : Sound(x) => Sound(x)'
        BY <2>4, SoundStays
    <3> QED BY <2>1, <3>1, <3>2 DEF Sound
  <2> QED BY <2>1, <2>5, <2>6 DEF KeyInv
<1>2. CASE Next
    BY <1>2, ReplicaStep, GateStep, MintStep, RevokeStep DEF Next
<1> QED BY <1>1, <1>2

(* The invariant holds in every reachable state.                            *)
LEMMA KeyInvariant == Spec => []KeyInv
<1>1. Init => KeyInv
  <2> SUFFICES ASSUME Init PROVE KeyInv
      OBVIOUS
  <2>1. BootInv
      BY InitBootInv DEF Init
  <2>2. connection \in [Connections -> Request \cup {Idle}]
        /\ \A q \in Connections : Sound(connection[q])
      BY DEF Init, Sound
  <2>3. History
      BY DEF Init, History
  <2>4. RevokedOnce
      BY DEF Init, BootInit, RevokedOnce, Revoked
  <2> QED BY <2>1, <2>2, <2>3, <2>4 DEF KeyInv
<1> QED BY <1>1, KeyStep, PTL DEF Spec

-----------------------------------------------------------------------------
(* Types; and a request past verify has read a row, which is still there.   *)
THEOREM KeysTypeCorrect == Spec => []TypeOK
<1>1. KeyInv => TypeOK
  <2> SUFFICES ASSUME KeyInv PROVE TypeOK
      OBVIOUS
  <2>1. BootTypeOK
      BY DEF KeyInv, BootInv, Tables, Place, BootTypeOK, At
  <2>2. ASSUME NEW q \in Connections, On(q, "compare") \/ On(q, "work") \/ On(q, "update")
        PROVE  connection[q].row # NoKey /\ apiKeys[connection[q].token.id] # NoKey
    <3>1. Sound(connection[q]) /\ connection[q] # Idle /\ connection[q].pc # "select"
        BY <2>2 DEF KeyInv, On
    <3> QED BY <3>1, BootAssumption DEF Sound
  <2> QED BY <2>1, <2>2 DEF KeyInv, History, TypeOK
<1> QED BY <1>1, KeyInvariant, PTL

(* Of any number of racing DELETEs of a key exactly one is answered 204.    *)
THEOREM RevokedByOne == Spec => []RevokedOnce
<1>1. KeyInv => RevokedOnce
    BY DEF KeyInv
<1> QED BY <1>1, KeyInvariant, PTL

(* Whoever minted or revoked a key held a key of the same org, through any  *)
(* chain of minted keys and whatever boots seed meanwhile.                  *)
THEOREM ConfinedToOrg == Spec => []OrgConfined
<1>1. KeyInv => OrgConfined
    BY DEF KeyInv, History, OrgConfined, Kin
<1> QED BY <1>1, KeyInvariant, PTL

(* What the gate lets pass presented the secret of a key of the needed type *)
(* that was not revoked when the request arrived.                           *)
THEOREM GateAdmitsLiveKeys == Spec => []AdmittedByLiveKey
<1>1. KeyInv => AdmittedByLiveKey
  <2> SUFFICES ASSUME KeyInv, NEW q \in Connections, On(q, "work") \/ On(q, "update")
               PROVE  LET t == connection[q].token
                      IN  /\ apiKeys[t.id].secret = t.secret
                          /\ apiKeys[t.id].keyType = NeededType(connection[q].route)
                          /\ ~connection[q].dead
      BY DEF AdmittedByLiveKey
  <2>1. Sound(connection[q]) /\ connection[q] # Idle /\ connection[q].pc \in {"work", "update"}
      BY DEF KeyInv, On
  <2> QED BY <2>1 DEF Sound, SameKey
<1> QED BY <1>1, KeyInvariant, PTL

(* A key that was revoked stays revoked, and no step changes its secret,    *)
(* org or type: neither a later boot's seeding nor a mint that draws its id *)
(* brings it back.                                                          *)
THEOREM RevocationIsFinal == Spec => RevokedForever
<1> DEFINE Kept == \A id \in Ids : apiKeys[id] # NoKey =>
              /\ [apiKeys'[id] EXCEPT !.revoked = apiKeys[id].revoked] = apiKeys[id]
              /\ apiKeys[id].revoked => apiKeys'[id].revoked
<1>1. KeyInv /\ [Next]_vars => [Kept]_vars
  <2> SUFFICES ASSUME KeyInv, Next PROVE Kept
      OBVIOUS
  <2>1. UNCHANGED apiKeys \/ AddsKey \/ RevokesKey
    <3>1. ASSUME NEW r \in Replicas, Replica(r) PROVE UNCHANGED apiKeys \/ AddsKey
        BY <3>1, BootAddsKeys DEF Replica, KeyInv
    <3>2. ASSUME NEW q \in Connections, NEW id \in Ids, NEW secret \in Secrets,
                 NEW keyType \in KeyTypes, Mint(q, id, secret, keyType)
          PROVE  UNCHANGED apiKeys \/ AddsKey
      <4>1. connection[q] # Idle /\ connection[q].pc = "work"
            /\ connection[q] \in Request /\ Sound(connection[q])
          BY <3>2 DEF Mint, On, KeyInv
      <4>2. connection[q].row \in Row
          BY <4>1 DEF Sound
      <4>3. /\ NewRow(secret, connection[q].row.orgId, keyType) \in Row
            /\ NewRow(secret, connection[q].row.orgId, keyType).revoked = FALSE
          BY <4>2 DEF NewRow, Row
      <4> QED BY <3>2, <4>3 DEF Mint, AddsKey
    <3>3. ASSUME NEW q \in Connections, Revoke(q) PROVE UNCHANGED apiKeys \/ RevokesKey
      <4>1. connection[q] # Idle /\ connection[q].pc = "update"
            /\ connection[q] \in Request /\ Sound(connection[q])
          BY <3>3 DEF Revoke, On, KeyInv
      <4>2. connection[q].target \in Ids /\ apiKeys[connection[q].target] # NoKey
          BY <4>1 DEF Sound, Kin, Request
      <4> QED BY <3>3, <4>2 DEF Revoke, RevokesKey, Revoked
    <3>4. ASSUME NEW q \in Connections,
                 \/ \E r \in Replicas, route \in Routes, t \in Tokens, target \in Ids :
                      Arrive(q, r, route, t, target)
                 \/ Select(q) \/ Compare(q) \/ Finish(q) \/ CheckOwner(q)
          PROVE  UNCHANGED apiKeys
        BY <3>4 DEF Arrive, Select, Compare, Finish, CheckOwner, bootVars
    <3> QED BY <3>1, <3>2, <3>3, <3>4 DEF Next
  <2>2. RowsKept /\ apiKeys \in [Ids -> Row \cup {NoKey}]
                 /\ apiKeys' \in [Ids -> Row \cup {NoKey}]
      BY <2>1, TableStep DEF KeyInv, BootInv, Tables
  <2>3. ASSUME NEW id \in Ids, apiKeys[id] # NoKey
        PROVE  /\ [apiKeys'[id] EXCEPT !.revoked = apiKeys[id].revoked] = apiKeys[id]
               /\ apiKeys[id].revoked => apiKeys'[id].revoked
    <3>1. /\ apiKeys[id] \in Row /\ apiKeys'[id] \in Row
          /\ SameKey(apiKeys'[id], apiKeys[id])
          /\ apiKeys[id].revoked => apiKeys'[id].revoked
        BY <2>2, <2>3 DEF RowsKept
    <3> QED BY <3>1 DEF Row, SameKey
  <2> QED BY <2>3
<1> QED BY <1>1, KeyInvariant, PTL DEF Spec, RevokedForever
=============================================================================
