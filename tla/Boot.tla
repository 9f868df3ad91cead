--------------------------------- MODULE Boot ---------------------------------
(***************************************************************************)
(* How a backend replica boots on a shared Postgres (makeDefaultDeps in    *)
(* server.ts): it applies the numbered migrations that _migrations does    *)
(* not list, seeds the keys of BOOTSTRAP_API_KEYS into api_keys, and only  *)
(* then serves.  Every SELECT and every INSERT is an await of its own and  *)
(* no lock spans them, so replicas booting together interleave.  A thrown  *)
(* error ends the process; the platform may start it again, or not.        *)
(*                                                                         *)
(* A secret stands for itself and for its argon2id hash.                   *)
(***************************************************************************)
EXTENDS Integers, Sequences, FiniteSets

CONSTANTS
    Replicas,
    Files,          \* the number of .sql files, applied in lexical order
    Ids,            \* the 10-hex ids inside tokens, api_keys' primary key
    Secrets, Orgs,
    Bootstrap,      \* BOOTSTRAP_API_KEYS: a sequence of entries
    NoKey,          \* no row in api_keys
    MaxFailures     \* bound: crashes and failing statements

KeyTypes == {"pub", "priv"}
Entry    == [id : Ids, secret : Secrets, orgId : Orgs, keyType : KeyTypes]
Row      == [secret : Secrets, orgId : Orgs, keyType : KeyTypes, revoked : BOOLEAN]

ASSUME BootAssumption ==
    Files \in Nat /\ MaxFailures \in Nat /\ Bootstrap \in Seq(Entry) /\ NoKey \notin Row

VARIABLES
    applied,      \* the table _migrations
    apiKeys,      \* the table api_keys
    boot,         \* each replica: [pc, at], at is the file or entry it is at
    ran,          \* history: how often each file's statements were committed
    failures

bootVars == <<applied, apiKeys, boot, ran, failures>>

(* Not running: killed or not started yet, or ended by the error of a step. *)
Down == {"off", "migration failed", "seed failed"}
Pcs  == Down \cup {"migrate", "apply", "seed", "insert", "serve"}

BootInit ==
    /\ applied = {}
    /\ apiKeys = [id \in Ids |-> NoKey]
    /\ boot = [r \in Replicas |-> [pc |-> "off", at |-> 0]]
    /\ ran = [n \in 1 .. Files |-> 0]
    /\ failures = 0

At(r, pc)   == boot[r].pc = pc
Go(r, pc, n) == boot' = [boot EXCEPT ![r] = [pc |-> pc, at |-> n]]

Start(r) ==
    /\ boot[r].pc \in Down
    /\ Go(r, "migrate", 1)
    /\ UNCHANGED <<applied, apiKeys, ran, failures>>

-----------------------------------------------------------------------------
(* runMigrations.                                                           *)

LookUpFile_OnePast(r) ==    \* faulty: one file more than there are
    /\ At(r, "migrate") /\ boot[r].at \in 1 .. Files + 1
    /\ IF boot[r].at \in applied THEN Go(r, "migrate", boot[r].at + 1)
                                 ELSE Go(r, "apply", boot[r].at)
    /\ UNCHANGED <<applied, apiKeys, ran, failures>>
(* Is the next file in _migrations?                                         *)
LookUpFile(r) ==
    /\ At(r, "migrate") /\ boot[r].at \in 1 .. Files
    /\ IF boot[r].at \in applied THEN Go(r, "migrate", boot[r].at + 1)
                                 ELSE Go(r, "apply", boot[r].at)
    /\ UNCHANGED <<applied, apiKeys, ran, failures>>

ApplyFile_NoKey(r) ==    \* faulty: _migrations has no primary key
    LET n == boot[r].at
    IN  /\ At(r, "apply")
        /\ applied' = applied \cup {n}
        /\ ran' = [ran EXCEPT ![n] = @ + 1]
        /\ Go(r, "migrate", n + 1)
        /\ UNCHANGED <<apiKeys, failures>>
(* The transaction: the file's statements and the row of _migrations.  When *)
(* another replica committed the file meanwhile, the primary key of         *)
(* _migrations rolls all of it back and the boot fails.                     *)
ApplyFile(r) ==
    LET n == boot[r].at
    IN  /\ At(r, "apply")
        /\ IF n \in applied
           THEN Go(r, "migration failed", 0) /\ UNCHANGED <<applied, ran>>
           ELSE /\ applied' = applied \cup {n}
                /\ ran' = [ran EXCEPT ![n] = @ + 1]
                /\ Go(r, "migrate", n + 1)
        /\ UNCHANGED <<apiKeys, failures>>

Migrated(r) ==
    /\ At(r, "migrate") /\ boot[r].at = Files + 1
    /\ Go(r, "seed", 1)
    /\ UNCHANGED <<applied, apiKeys, ran, failures>>

-----------------------------------------------------------------------------
(* seed, for each entry.                                                    *)

LookUpKey_Never(r) ==    \* faulty: inserts without looking
    /\ At(r, "seed") /\ boot[r].at \in 1 .. Len(Bootstrap)
    /\ Go(r, "insert", boot[r].at)
    /\ UNCHANGED <<applied, apiKeys, ran, failures>>
(* A row with the id of the entry, whatever its other columns, leaves       *)
(* nothing to do.                                                           *)
LookUpKey(r) ==
    /\ At(r, "seed") /\ boot[r].at \in 1 .. Len(Bootstrap)
    /\ IF apiKeys[Bootstrap[boot[r].at].id] # NoKey
       THEN Go(r, "seed", boot[r].at + 1)
       ELSE Go(r, "insert", boot[r].at)
    /\ UNCHANGED <<applied, apiKeys, ran, failures>>

NewRow(secret, orgId, keyType) ==
    [secret |-> secret, orgId |-> orgId, keyType |-> keyType, revoked |-> FALSE]

InsertKey_Upserts(r) ==    \* faulty: ON CONFLICT DO UPDATE
    LET e == Bootstrap[boot[r].at]
    IN  /\ At(r, "insert")
        /\ apiKeys' = [apiKeys EXCEPT ![e.id] = NewRow(e.secret, e.orgId, e.keyType)]
        /\ Go(r, "seed", boot[r].at + 1)
        /\ UNCHANGED <<applied, ran, failures>>
(* The INSERT, after the secret was hashed and the org row upserted.  It    *)
(* has no ON CONFLICT: a row inserted meanwhile makes it throw.             *)
InsertKey(r) ==
    LET e == Bootstrap[boot[r].at]
    IN  /\ At(r, "insert")
        /\ IF apiKeys[e.id] # NoKey
           THEN Go(r, "seed failed", 0) /\ UNCHANGED apiKeys
           ELSE /\ apiKeys' = [apiKeys EXCEPT ![e.id] = NewRow(e.secret, e.orgId, e.keyType)]
                /\ Go(r, "seed", boot[r].at + 1)
        /\ UNCHANGED <<applied, ran, failures>>

Serve_OneShort(r) ==    \* faulty: the last entry is left out
    /\ At(r, "seed") /\ boot[r].at = Len(Bootstrap)
    /\ Go(r, "serve", 0)
    /\ UNCHANGED <<applied, apiKeys, ran, failures>>
(* Bun.serve.                                                               *)
Serve(r) ==
    /\ At(r, "seed") /\ boot[r].at = Len(Bootstrap) + 1
    /\ Go(r, "serve", 0)
    /\ UNCHANGED <<applied, apiKeys, ran, failures>>

(* The process ends at any point, or a statement of its boot fails, which   *)
(* ends it too.  What was committed stays; an open transaction does not.    *)
Fail(r) ==
    /\ boot[r].pc \notin Down /\ failures < MaxFailures
    /\ failures' = failures + 1
    /\ Go(r, "off", 0)
    /\ UNCHANGED <<applied, apiKeys, ran>>

Proceed(r) ==
    \/ LookUpFile(r) \/ ApplyFile(r) \/ Migrated(r)
    \/ LookUpKey(r) \/ InsertKey(r) \/ Serve(r)

BootStep(r) == Start(r) \/ Proceed(r)

BootNext == \E r \in Replicas : BootStep(r) \/ Fail(r)

BootSpec == BootInit /\ [][BootNext]_bootVars

(* A boot that has begun goes on: the process runs and Postgres answers.    *)
(* Nothing is owed to a replica that is down: machines stop when idle, none *)
(* has to run, and an exit is followed by a start or not (fly.toml).        *)
FairBootSpec == BootSpec /\ \A r \in Replicas : WF_bootVars(Proceed(r))

-----------------------------------------------------------------------------
(* Properties.                                                              *)

(* Every variable has its type, and what is at a step is at a file or entry *)
(* that exists.                                                             *)
BootTypeOK ==
    /\ applied \subseteq 1 .. Files
    /\ apiKeys \in [Ids -> Row \cup {NoKey}]
    /\ boot \in [Replicas -> [pc : Pcs, at : Nat]]
    /\ \A r \in Replicas :
           /\ At(r, "migrate") => boot[r].at \in 1 .. Files + 1
           /\ At(r, "apply")   => boot[r].at \in 1 .. Files
           /\ At(r, "seed")    => boot[r].at \in 1 .. Len(Bootstrap) + 1
           /\ At(r, "insert")  => boot[r].at \in 1 .. Len(Bootstrap)
    /\ ran \in [1 .. Files -> Nat]
    /\ failures \in 0 .. MaxFailures

(* A migration never takes effect twice, never without being recorded, and  *)
(* only after all the files before it, whichever replicas boot together,    *)
(* each looking at one file at a time, and wherever one dies.               *)
MigratedOnceInOrder ==
    \A n \in 1 .. Files :
        /\ ran[n] = IF n \in applied THEN 1 ELSE 0
        /\ n \in applied => 1 .. n \subseteq applied

(* A replica serves only on the complete schema with every bootstrap key    *)
(* in the table: the operator's first request does not find it missing.     *)
ServingReady ==
    \A r \in Replicas : At(r, "serve") =>
        /\ applied = 1 .. Files
        /\ \A i \in 1 .. Len(Bootstrap) : apiKeys[Bootstrap[i].id] # NoKey

(* Replicas that trip over each other while they boot do not keep failing:  *)
(* however often one is started again, it comes to serve for good, unless   *)
(* it is left down; and where no process is killed, one of those that race  *)
(* comes to serve.                                                          *)
RacesEnd ==
    /\ \A r \in Replicas : <>[]At(r, "serve") \/ <>[](boot[r].pc \in Down)
    /\ (\E r \in Replicas : boot[r].pc \notin Down)
         ~> (failures > 0 \/ \E r \in Replicas : At(r, "serve"))
=============================================================================
