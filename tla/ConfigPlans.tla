---------------------------- MODULE ConfigPlans ----------------------------
(***************************************************************************)
(* Plan tokens: a plan is computed from one snapshot of the configuration  *)
(* (or of the administrative settings), signed with a key derived from the *)
(* active master key, shown to the operator, and later executed once,      *)
(* against the state it was computed from.                                 *)
(*                                                                         *)
(* Every action is one critical section of SecretStore.mu around one       *)
(* SQLite transaction, or an offline command holding the installation      *)
(* lock.  Generations appear because a restore brings back an earlier      *)
(* revision counter and empties the table of consumed nonces.              *)
(*                                                                         *)
(* An item is a resource of the configuration or a field of the settings.  *)
(* stamp stands for the pair (id, resourceVersion) of a resource: every    *)
(* write gives a new one (the key and the revision that wrote it), and     *)
(* None is the observed absence.                                           *)
(***************************************************************************)
EXTENDS Naturals, FiniteSets

CONSTANTS
    Resource, Field,   \* items of a configuration, and of the settings
    Definition, Setting,   \* their values
    Secret, Requires,  \* the secrets that a specification refers to
    Nonce,             \* bound: plans that may be issued
    Key,               \* bound: master keys
    Gen, First,        \* bound: generations; the one installed first
    Lifetime, Skew,    \* validity of a token, tolerance for its issue time
    MaxTime,           \* bound: clock readings
    MaxRevision,       \* bound: revisions
    Absent, None

Purpose == {"config", "settings"}
Item    == Resource \cup Field

ASSUME ConfigPlansAssumption ==
    /\ Resource \cap Field = {} /\ First \in Gen /\ Key # {}
    /\ Requires \in [Definition -> SUBSET Secret]
    /\ Setting # {} /\ Absent \notin Definition \cup Setting
    /\ None \notin Gen \cup Key /\ None \notin Key \X Nat
    /\ Lifetime \in Nat /\ Skew \in Nat /\ MaxTime \in Nat /\ MaxRevision \in Nat \ {0}

VARIABLES
    spec, stamp,       \* per generation: the stored items
    revision,          \* per generation: config_revision, admin_settings.resource_version
    secrets,           \* per generation: names of stored secrets
    key,               \* per generation: the active master key, None before it exists
    consumed,          \* per generation: consumed_plan_tokens
    current, previous, \* the active generation; the .previous markers
    backup,            \* an archive, or None
    usedKeys,          \* history: keys that were ever active
    plans,             \* issued tokens by nonce
    now,               \* the wall clock
    unavailable,       \* SecretStore.unavailable
    uses, effects      \* history: executions of each plan, those that changed an item

database == <<spec, stamp, revision, secrets, consumed>>
layout   == <<key, current, previous, backup, usedKeys>>
history  == <<uses, effects>>
vars     == <<database, layout, plans, now, unavailable, history>>

ItemsOf(purpose) == IF purpose = "config" THEN Resource ELSE Field
Values(purpose)  == IF purpose = "config" THEN Definition \cup {Absent} ELSE Setting

\* What a document declares: some items of one purpose and their values.
DocumentsOf(purpose) == UNION {[S -> Values(purpose)] : S \in (SUBSET ItemsOf(purpose)) \ {{}}}

\* The state that a plan is computed from.
Base(purpose) == [i \in ItemsOf(purpose) |-> <<spec[current][i], stamp[current][i]>>]

Init ==
    /\ \E fields \in [Field -> Setting] :
         spec = [g \in Gen |-> [i \in Item |-> IF i \in Field THEN fields[i] ELSE Absent]]
    /\ stamp = [g \in Gen |-> [i \in Item |-> None]]
    /\ revision = [g \in Gen |-> [p \in Purpose |-> 1]]
    /\ secrets = [g \in Gen |-> {}]
    /\ \E k \in Key : key = [g \in Gen |-> IF g = First THEN k ELSE None] /\ usedKeys = {k}
    /\ consumed = [g \in Gen |-> {}]
    /\ current = First
    /\ previous = [g \in Gen |-> None]
    /\ backup = None
    /\ plans = [n \in Nonce |-> None]
    /\ now = 0
    /\ unavailable = FALSE
    /\ uses = [n \in Nonce |-> 0]
    /\ effects = [n \in Nonce |-> 0]

----------------------------------------------------------------------------
(* Documents against the stored items                                      *)

Desired(doc) == [i \in Item |-> IF i \in DOMAIN doc THEN doc[i] ELSE spec[current][i]]

Changes(doc) == {i \in DOMAIN doc : doc[i] # spec[current][i]}

\* Mutant: a plan's proposed secrets are still taken for real ones.
ValidateUnresolved(desired, names) == TRUE

\* The graph is ConfigGraph's; here a resource refers to secrets only.
Validate(desired, names) ==
    \A i \in Resource : desired[i] # Absent => Requires[desired[i]] \subseteq names

\* A configuration's digest covers the declared document, a settings digest the
\* fully resolved one.
Digest(purpose, doc) ==
    IF purpose = "config" THEN doc ELSE [i \in Field |-> Desired(doc)[i]]

Observed(purpose, doc) ==
    IF purpose = "config" THEN [i \in DOMAIN doc |-> stamp[current][i]] ELSE [i \in {} |-> None]

\* What the commit of a document writes.
Stamped(purpose, doc) ==
    [i \in Item |-> IF i \notin Changes(doc) \/ purpose = "settings" THEN stamp[current][i]
                    ELSE IF doc[i] = Absent THEN None ELSE <<key[current], revision[current]["config"] + 1>>]

Write(purpose, doc) ==
    /\ Changes(doc) # {} => revision[current][purpose] < MaxRevision
    /\ spec' = [spec EXCEPT ![current] = Desired(doc)]
    /\ stamp' = [stamp EXCEPT ![current] = Stamped(purpose, doc)]
    /\ revision' = [revision EXCEPT ![current][purpose] =
                      IF Changes(doc) = {} THEN @ ELSE @ + 1]

----------------------------------------------------------------------------
(* Plans                                                                   *)

\* Manager.plan and AdminSettingsService.Plan; only configuration plans may
\* propose secrets that will exist by the time they are applied.
CreatePlanToken(n, purpose, doc, proposed) ==
    /\ ~unavailable /\ plans[n] = None
    /\ purpose = "settings" => proposed = {}
    /\ Validate(Desired(doc), secrets[current] \cup proposed)
    /\ plans' = [plans EXCEPT ![n] =
                   [purpose |-> purpose, key |-> key[current], revision |-> revision[current][purpose],
                    digest |-> Digest(purpose, doc), observed |-> Observed(purpose, doc),
                    issued |-> now, base |-> Base(purpose)]]
    /\ UNCHANGED <<database, layout, now, unavailable, history>>

\* Mutant: the key that signed the token is not looked at.
VerifyAnyKey(t, purpose, doc) ==
    /\ t.purpose = purpose
    /\ t.issued <= now + Skew /\ now < t.issued + Lifetime
    /\ t.digest = Digest(purpose, doc)
    /\ t.revision = revision[current][purpose] /\ t.observed = Observed(purpose, doc)

\* Mutant: the revision is not compared.
VerifyObserved(t, purpose, doc) ==
    /\ t.key = key[current] /\ t.purpose = purpose
    /\ t.issued <= now + Skew /\ now < t.issued + Lifetime
    /\ t.digest = Digest(purpose, doc) /\ t.observed = Observed(purpose, doc)

\* The MAC stands for the key and the purpose.
verifyPlanToken(t, purpose, doc) ==
    /\ t.key = key[current] /\ t.purpose = purpose
    /\ t.issued <= now + Skew /\ now < t.issued + Lifetime
    /\ t.digest = Digest(purpose, doc)
    /\ t.revision = revision[current][purpose] /\ t.observed = Observed(purpose, doc)

Consume(n, doc) ==
    /\ n \notin consumed[current]
    /\ consumed' = [consumed EXCEPT ![current] = @ \cup {n}]

\* The commit took place; it is reported as failed when ~reported.
ExecutePlan(n, purpose, doc, reported) ==
    /\ ~unavailable /\ plans[n] # None
    /\ Validate(Desired(doc), secrets[current])
    /\ verifyPlanToken(plans[n], purpose, doc)
    /\ Consume(n, doc)
    /\ Write(purpose, doc)
    /\ unavailable' = ~reported
    /\ uses' = [uses EXCEPT ![n] = @ + 1]
    /\ effects' = [effects EXCEPT ![n] = IF Changes(doc) = {} THEN @ ELSE @ + 1]
    /\ UNCHANGED <<secrets, layout, plans, now>>

\* The commit of a plan or of a mutation failed and did not take place.
CommitFails ==
    /\ ~unavailable /\ unavailable' = TRUE
    /\ UNCHANGED <<database, layout, plans, now, history>>

----------------------------------------------------------------------------
(* Everything else that changes what a plan was computed from              *)

\* MutateResourceSession: a change of one resource from the console.
MutateResource(i, value, reported) ==
    /\ ~unavailable /\ value # spec[current][i]
    /\ LET doc == [x \in {i} |-> value] IN
       Validate(Desired(doc), secrets[current]) /\ Write("config", doc)
    /\ unavailable' = ~reported
    /\ UNCHANGED <<secrets, consumed, layout, plans, now, history>>

PublishStrategy ==
    /\ ~unavailable /\ revision[current]["config"] < MaxRevision
    /\ revision' = [revision EXCEPT ![current]["config"] = @ + 1]
    /\ UNCHANGED <<spec, stamp, secrets, consumed, layout, plans, now, unavailable, history>>

\* Secrets do not belong to the configuration and do not move its revision.
PutSecret(s) ==
    /\ ~unavailable
    /\ secrets' = [secrets EXCEPT ![current] = @ \cup {s}]
    /\ UNCHANGED <<spec, stamp, revision, consumed, layout, plans, now, unavailable, history>>

DeleteSecret(s) ==
    /\ ~unavailable
    /\ \A i \in Resource : spec[current][i] # Absent => s \notin Requires[spec[current][i]]
    /\ secrets' = [secrets EXCEPT ![current] = @ \ {s}]
    /\ UNCHANGED <<spec, stamp, revision, consumed, layout, plans, now, unavailable, history>>

RotateMasterKey(k) ==
    /\ ~unavailable /\ k \notin usedKeys
    /\ key' = [key EXCEPT ![current] = k] /\ usedKeys' = usedKeys \cup {k}
    /\ UNCHANGED <<database, current, previous, backup, plans, now, unavailable, history>>

\* The process ends, is killed, and opens the installation again.
Reopen ==
    /\ unavailable' = FALSE
    /\ UNCHANGED <<database, layout, plans, now, history>>

\* Time passes, or the wall clock is set.
SetClock(t) ==
    /\ now' = t
    /\ UNCHANGED <<database, layout, plans, unavailable, history>>

CreateBackup ==
    /\ backup' = [spec |-> spec[current], stamp |-> stamp[current],
                  revision |-> revision[current], secrets |-> secrets[current]]
    /\ UNCHANGED <<database, key, current, previous, usedKeys, plans, now, unavailable, history>>

\* The archive in a new generation with a key of its own and no consumed nonce.
RestoreGeneration(g, k) ==
    /\ backup # None /\ key[g] = None /\ k \notin usedKeys
    /\ spec' = [spec EXCEPT ![g] = backup.spec]
    /\ stamp' = [stamp EXCEPT ![g] = backup.stamp]
    /\ revision' = [revision EXCEPT ![g] = backup.revision]
    /\ secrets' = [secrets EXCEPT ![g] = backup.secrets]
    /\ consumed' = [consumed EXCEPT ![g] = {}]
    /\ key' = [key EXCEPT ![g] = k] /\ usedKeys' = usedKeys \cup {k}
    /\ current' = g /\ previous' = [previous EXCEPT ![g] = current]
    /\ unavailable' = FALSE
    /\ UNCHANGED <<backup, plans, now, history>>

\* The predecessor keeps its key; its consumed nonces are deleted.
RollbackGeneration ==
    /\ previous[current] # None
    /\ current' = previous[current]
    /\ consumed' = [consumed EXCEPT ![previous[current]] = {}]
    /\ unavailable' = FALSE
    /\ UNCHANGED <<spec, stamp, revision, secrets, key, previous, backup, usedKeys, plans, now, history>>

Next ==
    \/ \E n \in Nonce, purpose \in Purpose : \E doc \in DocumentsOf(purpose) :
         \/ \E proposed \in SUBSET Secret : CreatePlanToken(n, purpose, doc, proposed)
         \/ \E reported \in BOOLEAN : ExecutePlan(n, purpose, doc, reported)
    \/ \E i \in Resource, v \in Definition \cup {Absent}, reported \in BOOLEAN : MutateResource(i, v, reported)
    \/ CommitFails \/ PublishStrategy \/ Reopen
    \/ \E s \in Secret : PutSecret(s) \/ DeleteSecret(s)
    \/ \E k \in Key : RotateMasterKey(k)
    \/ \E t \in 0..MaxTime : SetClock(t)
    \/ CreateBackup \/ RollbackGeneration
    \/ \E g \in Gen, k \in Key : RestoreGeneration(g, k)

Spec == Init /\ [][Next]_vars

----------------------------------------------------------------------------
(* Properties                                                              *)

\* Stored items, counters and tokens are well formed; only an absent resource
\* has the stamp of an absence.
TypeOK ==
    /\ spec \in [Gen -> [Item -> Definition \cup Setting \cup {Absent}]]
    /\ stamp \in [Gen -> [Item -> (Key \X (1..MaxRevision)) \cup {None}]]
    /\ revision \in [Gen -> [Purpose -> 1..MaxRevision]]
    /\ secrets \in [Gen -> SUBSET Secret]
    /\ key \in [Gen -> Key \cup {None}] /\ usedKeys \subseteq Key
    /\ consumed \in [Gen -> SUBSET Nonce]
    /\ current \in Gen /\ previous \in [Gen -> Gen \cup {None}]
    /\ DOMAIN plans = Nonce /\ now \in 0..MaxTime /\ unavailable \in BOOLEAN
    /\ uses \in [Nonce -> Nat] /\ effects \in [Nonce -> Nat]
    /\ \A g \in Gen : \A i \in Resource : spec[g][i] = Absent <=> stamp[g][i] = None

\* Whatever the console, other plans, restarts, restores and the clock did in
\* between, an executed plan finds every item of its purpose as it was, value,
\* identity and version, when the plan was computed and shown.
PlanAppliesToItsBase ==
    [][\A n \in Nonce : uses'[n] # uses[n] => plans[n].base = Base(plans[n].purpose)]_vars

\* A plan changes the stored state at most once, also when its commit was reported
\* as failed and it is tried again, and after a rollback emptied the nonce table.
EffectsOnce == \A n \in Nonce : effects[n] <= 1

\* Of the plans computed from one revision at most one changes anything: none of
\* two operators who reviewed the same state overwrites the other.
OneOfRivals ==
    \A n, m \in Nonce :
        /\ effects[n] > 0 /\ effects[m] > 0
        /\ plans[n].key = plans[m].key /\ plans[n].purpose = plans[m].purpose
        /\ plans[n].revision = plans[m].revision
        => n = m

\* A credential never refers to a secret that does not exist, although a plan may
\* be computed while its secrets are only proposed and secrets come and go
\* without moving the revision.
SecretsPresent ==
    \A g \in Gen : \A i \in Resource : spec[g][i] # Absent => Requires[spec[g][i]] \subseteq secrets[g]

\* "A token is single-use, including for a no-op."
SingleUse == \A n \in Nonce : uses[n] <= 1
=============================================================================
