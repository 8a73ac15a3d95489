---------------------------- MODULE SecretStore ----------------------------
(***************************************************************************)
(* The encrypted secret store of one installation and its keyring          *)
(* directory: publication of a key file, bootstrap and opening, Put and    *)
(* Delete, RotateMasterKey and CollectUnusedKeys, with process crashes,    *)
(* power loss and I/O errors between any two steps.                        *)
(*                                                                         *)
(* All mutations run under SecretStore.mu and the installation lock admits *)
(* one process, so at most one operation is in progress: pc is where it    *)
(* stands.  A SQLite transaction is one atomic, durable step (WAL with     *)
(* synchronous=FULL); what is not atomic is its order against the keyring  *)
(* directory, and that is what this module is about.                       *)
(*                                                                         *)
(* A master key is an opaque member of Key.  A ciphertext row opens only   *)
(* under the key that sealed it, read from the file its key_version names. *)
(***************************************************************************)
EXTENDS Naturals, FiniteSets

CONSTANTS
    Secret,       \* names of secrets
    Value,        \* plaintexts
    Key,          \* master keys rand.Read may yield, each at most once
    MaxVersion,   \* the largest key version (math.MaxInt64 in the code)
    MaxSecrets,   \* capacity of the secrets table
    MaxFaults,    \* bound: crashes, power losses and I/O errors in a behaviour
    NoKey,        \* a directory name with no file behind it
    Torn,         \* a file whose content never reached the disk
    NoRow,        \* no row for a secret
    Absent, Unsure

ASSUME SecretStoreAssumption ==
    /\ MaxVersion \in Nat \ {0}
    /\ MaxSecrets \in Nat
    /\ MaxFaults \in Nat
    /\ NoKey \notin Key /\ Torn \notin Key /\ NoKey # Torn
    /\ Absent \notin Value /\ Unsure \notin Value /\ Absent # Unsure

Version == 1..MaxVersion

Row == [kv : Version, key : Key, val : Value]

ASSUME RowAssumption == NoRow \notin Row

VARIABLES
    \* The keyring directory.
    files,        \* what a running process sees: version -> key, NoKey or Torn
    disk,         \* the directory entries a power loss would leave
    synced,       \* keys whose file content has been fsynced
    temps,        \* .new-*.tmp files, each holding one key
    used,         \* keys already generated
    \* The committed database.
    active,       \* installation_state.active_key_version, 0 before bootstrap
    check,        \* the key that installation_state.key_check proves
    rows,         \* the secrets table
    \* The SecretStore object in memory.
    memVersion, memKey, unavailable,
    \* The operation in progress under mu.
    pc,           \* where it stands
    next, newKey, \* the version and key it publishes
    tx, pending,  \* its transaction's view of rows, and those not yet re-encrypted
    listed,       \* versions collectKeys has still to look at
    \* History.
    promised,     \* what callers of Put and Delete were last told
    faults        \* faults so far

dirVars   == <<files, disk, synced, temps, used>>
dbVars    == <<active, check, rows>>
memVars   == <<memVersion, memKey, unavailable>>
localVars == <<next, newKey, tx, pending, listed>>
vars == <<dirVars, dbVars, memVars, pc, localVars, promised, faults>>

(***************************************************************************)
(* Down: no process owns the installation.  Idle: one does and mu is free. *)
(* The others name the step an operation takes next.                       *)
(***************************************************************************)
Steps == {"Down", "Idle",
          "Generate", "Write", "Rename", "SyncKey",             \* keyring.create
          "Insert",                                             \* bootstrap
          "ReadBack", "Reencrypt", "Adopt",                     \* RotateMasterKey
          "List", "Collect", "SyncRemoval"}                     \* collectKeys

NoRows == [s \in Secret |-> NoRow]

TypeOK ==
    /\ files \in [Version -> Key \cup {NoKey, Torn}]
    /\ disk \in [Version -> Key \cup {NoKey, Torn}]
    /\ synced \subseteq Key /\ temps \subseteq Key /\ used \subseteq Key
    /\ active \in Version \cup {0} /\ check \in Key \cup {NoKey}
    /\ rows \in [Secret -> Row \cup {NoRow}]
    /\ memVersion \in Version \cup {0} /\ memKey \in Key \cup {NoKey}
    /\ unavailable \in BOOLEAN
    /\ pc \in Steps
    /\ next \in Version \cup {0} /\ newKey \in Key \cup {NoKey}
    /\ tx \in [Secret -> Row \cup {NoRow}] /\ pending \subseteq Secret
    /\ listed \subseteq Version
    /\ promised \in [Secret -> Value \cup {Absent, Unsure}]
    /\ faults \in 0..MaxFaults

(***************************************************************************)
(* A data directory that was never opened.                                 *)
(***************************************************************************)
Init ==
    /\ files = [v \in Version |-> NoKey] /\ disk = files
    /\ synced = {} /\ temps = {} /\ used = {}
    /\ active = 0 /\ check = NoKey /\ rows = NoRows
    /\ memVersion = 0 /\ memKey = NoKey /\ unavailable = TRUE
    /\ pc = "Down"
    /\ next = 0 /\ newKey = NoKey /\ tx = NoRows /\ pending = {} /\ listed = {}
    /\ promised = [s \in Secret |-> Absent]
    /\ faults = 0

Published == {v \in Version : files[v] # NoKey}
Stored    == {s \in Secret : rows[s] # NoRow}

\* n is the largest member of S, and leaves a version above it
Highest(n, S) == n \in S /\ n < MaxVersion /\ \A v \in S : v <= n

Fault == faults < MaxFaults /\ faults' = faults + 1

(***************************************************************************)
(* How an operation leaves mu: its locals die with it.  Return goes back   *)
(* to a store that stays open; Exit ends the process, which is also how    *)
(* OpenInstallation fails.                                                 *)
(***************************************************************************)
DropLocals ==
    next' = 0 /\ newKey' = NoKey /\ tx' = NoRows /\ pending' = {} /\ listed' = {}

Return == pc' = "Idle" /\ DropLocals

Exit ==
    /\ pc' = "Down" /\ DropLocals
    /\ memVersion' = 0 /\ memKey' = NoKey /\ unavailable' = TRUE

\* While bootstrap runs there is no SecretStore object yet.
Bootstrapping == memVersion = 0

Fail == IF Bootstrapping THEN Exit ELSE Return /\ UNCHANGED memVars

----------------------------------------------------------------------------
(* verifyKeyState and verifyAll: what a store checks against its files.    *)

\* keyring.load(v) yields k
Loads(v, k) == v \in Version /\ files[v] = k

\* for a store holding version v with key k in memory
KeyStateVerified(v, k) == v = active /\ k = check /\ Loads(active, check)

RowsVerified == \A s \in Stored : Loads(rows[s].kv, rows[s].key)

----------------------------------------------------------------------------
(* keyring.create(next)                                                    *)

CreateTemporary ==
    /\ pc = "Generate"
    /\ \E k \in Key \ used :
          /\ used' = used \cup {k} /\ temps' = temps \cup {k} /\ newKey' = k
    /\ pc' = "Write"
    /\ UNCHANGED <<files, disk, synced, dbVars, memVars, next, tx, pending, listed,
                   promised, faults>>

\* Mutant: the key file is not fsynced before it is published.
WriteWithoutSync ==
    /\ pc = "Write"
    /\ pc' = "Rename"
    /\ UNCHANGED <<dirVars, dbVars, memVars, localVars, promised, faults>>

WriteAndSync ==
    /\ pc = "Write"
    /\ synced' = synced \cup {newKey}
    /\ pc' = "Rename"
    /\ UNCHANGED <<files, disk, temps, used, dbVars, memVars, localVars, promised, faults>>

RenameNoReplace ==
    /\ pc = "Rename"
    /\ files[next] = NoKey
    /\ files' = [files EXCEPT ![next] = newKey]
    /\ temps' = temps \ {newKey}
    /\ pc' = "SyncKey"
    /\ UNCHANGED <<disk, synced, used, dbVars, memVars, localVars, promised, faults>>

\* Mutant: the directory is not fsynced after the rename.
ContinueWithoutDirectorySync ==
    /\ pc = "SyncKey"
    /\ pc' = IF Bootstrapping THEN "Insert" ELSE "ReadBack"
    /\ UNCHANGED <<dirVars, dbVars, memVars, localVars, promised, faults>>

SyncPublishedKey ==
    /\ pc = "SyncKey"
    /\ disk' = files
    /\ pc' = IF Bootstrapping THEN "Insert" ELSE "ReadBack"
    /\ UNCHANGED <<files, synced, temps, used, dbVars, memVars, localVars, promised, faults>>

\* An error before the rename removes the temporary, as far as that succeeds;
\* a failed directory sync leaves the renamed file where it is.
CreateFails ==
    /\ pc \in {"Generate", "Write", "Rename", "SyncKey"}
    /\ IF pc = "Rename" /\ files[next] # NoKey THEN UNCHANGED faults ELSE Fault
    /\ temps' \in {temps, temps \ {newKey}}
    /\ Fail
    /\ UNCHANGED <<files, disk, synced, used, dbVars, promised>>

----------------------------------------------------------------------------
(* openSecretStore, bootstrapSecretStore and Close                         *)

Open ==
    /\ pc = "Down"
    /\ active # 0 /\ Loads(active, check) /\ RowsVerified
    /\ memVersion' = active /\ memKey' = check /\ unavailable' = FALSE
    /\ pc' = "Idle"
    /\ UNCHANGED <<dirVars, dbVars, localVars, promised, faults>>

\* Mutant: bootstrap ignores keys an earlier attempt left behind.
AlwaysFirstVersion(n) == n = 0

BootstrapVersion(n) == Highest(n, Published \cup {0})

BeginBootstrap ==
    /\ pc = "Down"
    /\ active = 0 /\ Stored = {}
    /\ used # Key                            \* bound
    /\ \E n \in Version \cup {0} : BootstrapVersion(n) /\ next' = n + 1
    /\ pc' = "Generate"
    /\ UNCHANGED <<dirVars, dbVars, memVars, newKey, tx, pending, listed, promised, faults>>

InsertInstallation ==
    /\ pc = "Insert"
    /\ active' = next /\ check' = newKey
    /\ memVersion' = next /\ memKey' = newKey /\ unavailable' = FALSE
    /\ Return
    /\ UNCHANGED <<dirVars, rows, promised, faults>>

\* The statement reports an error whether or not it took effect.
InsertFails ==
    /\ pc = "Insert"
    /\ Fault
    /\ \/ active' = next /\ check' = newKey
       \/ UNCHANGED <<active, check>>
    /\ Exit
    /\ UNCHANGED <<dirVars, rows, promised>>

Close ==
    /\ pc = "Idle"
    /\ Exit
    /\ UNCHANGED <<dirVars, dbVars, promised, faults>>

----------------------------------------------------------------------------
(* Put and Delete.  The expected version, the name's existence and the     *)
(* references from credentials are read in the transaction itself; a       *)
(* refusal changes nothing.  A failed commit, and after a commit a failed  *)
(* redactor registration, make the store unavailable.                      *)

Mutate(s, row, told) ==
    /\ pc = "Idle" /\ ~unavailable
    /\ \/ /\ rows' = [rows EXCEPT ![s] = row]
          /\ promised' = [promised EXCEPT ![s] = told]
          /\ UNCHANGED <<unavailable, faults>>
       \/ /\ Fault
          /\ rows' \in {rows, [rows EXCEPT ![s] = row]}
          /\ promised' = [promised EXCEPT ![s] = Unsure]
          /\ unavailable' = TRUE
    /\ UNCHANGED <<dirVars, active, check, memVersion, memKey, pc, localVars>>

Put(s, v) ==
    /\ rows[s] = NoRow => Cardinality(Stored) < MaxSecrets
    /\ Mutate(s, [kv |-> memVersion, key |-> memKey, val |-> v], v)

Delete(s) ==
    /\ rows[s] # NoRow
    /\ Mutate(s, NoRow, Absent)

----------------------------------------------------------------------------
(* RotateMasterKey                                                         *)

RotateVersion(n) == Highest(n, Published \cup {memVersion})

BeginRotate ==
    /\ pc = "Idle" /\ ~unavailable
    /\ KeyStateVerified(memVersion, memKey) /\ RowsVerified
    /\ used # Key                            \* bound
    /\ \E n \in Version : RotateVersion(n) /\ next' = n + 1
    /\ pc' = "Generate"
    /\ UNCHANGED <<dirVars, dbVars, memVars, newKey, tx, pending, listed, promised, faults>>

\* The verification that opens RotateMasterKey and CollectUnusedKeys fails.
VerificationFails ==
    /\ pc = "Idle" /\ ~unavailable
    /\ IF KeyStateVerified(memVersion, memKey) /\ RowsVerified THEN Fault ELSE UNCHANGED faults
    /\ unavailable' = TRUE
    /\ UNCHANGED <<dirVars, dbVars, memVersion, memKey, pc, localVars, promised>>

ReadBackAndBegin ==
    /\ pc = "ReadBack"
    /\ Loads(next, newKey)
    /\ tx' = rows /\ pending' = Stored
    /\ pc' = "Reencrypt"
    /\ UNCHANGED <<dirVars, dbVars, memVars, next, newKey, listed, promised, faults>>

ReencryptRow(s) ==
    /\ pc = "Reencrypt"
    /\ s \in pending
    /\ Loads(tx[s].kv, tx[s].key)
    /\ tx' = [tx EXCEPT ![s] = [kv |-> next, key |-> newKey, val |-> tx[s].val]]
    /\ pending' = pending \ {s}
    /\ UNCHANGED <<dirVars, dbVars, memVars, pc, next, newKey, listed, promised, faults>>

\* An error before the commit rolls back; a failed rollback disables the store.
RotateFails ==
    /\ pc \in {"ReadBack", "Reencrypt"}
    /\ Fault
    /\ \/ UNCHANGED unavailable
       \/ pc = "Reencrypt" /\ unavailable' = TRUE
    /\ Return
    /\ UNCHANGED <<dirVars, dbVars, memVersion, memKey, promised>>

RotationCommits == rows' = tx /\ active' = next /\ check' = newKey

CommitRotation ==
    /\ pc = "Reencrypt" /\ pending = {}
    /\ active = memVersion
    /\ RotationCommits
    /\ unavailable' = TRUE
    /\ pc' = "Adopt"
    /\ UNCHANGED <<dirVars, memVersion, memKey, localVars, promised, faults>>

\* Mutant: a commit error is taken for a rollback.
CommitErrorIgnored ==
    /\ pc = "Reencrypt" /\ pending = {}
    /\ active = memVersion
    /\ Fault
    /\ RotationCommits \/ UNCHANGED dbVars
    /\ Return
    /\ UNCHANGED <<dirVars, memVars, promised>>

\* Commit reports an error and the outcome is uncertain.
CommitFails ==
    /\ pc = "Reencrypt" /\ pending = {}
    /\ active = memVersion
    /\ Fault
    /\ RotationCommits \/ UNCHANGED dbVars
    /\ unavailable' = TRUE
    /\ Return
    /\ UNCHANGED <<dirVars, memVersion, memKey, promised>>

AdoptNewKey ==
    /\ pc = "Adopt"
    /\ Loads(next, newKey)
    /\ memVersion' = next /\ memKey' = newKey
    /\ KeyStateVerified(next, newKey) /\ RowsVerified
    /\ unavailable' = FALSE
    /\ pc' = "List"
    /\ UNCHANGED <<dirVars, dbVars, localVars, promised, faults>>

\* Loading or verifying after the commit fails: the store stays unavailable,
\* with the old key or the new one in memory.
AdoptFails ==
    /\ pc = "Adopt"
    /\ Fault
    /\ \/ memVersion' = next /\ memKey' = newKey
       \/ UNCHANGED <<memVersion, memKey>>
    /\ Return
    /\ UNCHANGED <<dirVars, dbVars, unavailable, promised>>

----------------------------------------------------------------------------
(* CollectUnusedKeys and the collectKeys that ends RotateMasterKey         *)

BeginCollect ==
    /\ pc = "Idle" /\ ~unavailable
    /\ KeyStateVerified(memVersion, memKey) /\ RowsVerified
    /\ pc' = "List"
    /\ UNCHANGED <<dirVars, dbVars, memVars, localVars, promised, faults>>

\* Mutant: only versions older than the active one are looked at.
ListOlderVersions ==
    /\ pc = "List"
    /\ listed' = {v \in Published : v <= active}
    /\ pc' = "Collect"
    /\ UNCHANGED <<dirVars, dbVars, memVars, next, newKey, tx, pending, promised, faults>>

ListVersions ==
    /\ pc = "List"
    /\ listed' = Published
    /\ pc' = "Collect"
    /\ UNCHANGED <<dirVars, dbVars, memVars, next, newKey, tx, pending, promised, faults>>

Referenced(v) == v = active \/ \E s \in Stored : rows[s].kv = v

KeepReferenced(v) ==
    /\ pc = "Collect" /\ v \in listed
    /\ Referenced(v)
    /\ listed' = listed \ {v}
    /\ UNCHANGED <<dirVars, dbVars, memVars, pc, next, newKey, tx, pending, promised, faults>>

RemoveUnreferenced(v) ==
    /\ pc = "Collect" /\ v \in listed
    /\ ~Referenced(v)
    /\ files' = [files EXCEPT ![v] = NoKey]
    /\ listed' = listed \ {v}
    /\ pc' = "SyncRemoval"
    /\ UNCHANGED <<disk, synced, temps, used, dbVars, memVars, next, newKey, tx, pending,
                   promised, faults>>

SyncRemoval ==
    /\ pc = "SyncRemoval"
    /\ disk' = files
    /\ pc' = "Collect"
    /\ UNCHANGED <<files, synced, temps, used, dbVars, memVars, localVars, promised, faults>>

RemoveTemporary(k) ==
    /\ pc = "Collect" /\ listed = {}
    /\ k \in temps
    /\ temps' = temps \ {k}
    /\ UNCHANGED <<files, disk, synced, used, dbVars, memVars, pc, localVars, promised, faults>>

FinishCollect ==
    /\ pc = "Collect" /\ listed = {} /\ temps = {}
    /\ disk' = files
    /\ Return
    /\ UNCHANGED <<files, synced, temps, used, dbVars, memVars, promised, faults>>

CollectFails ==
    /\ pc \in {"List", "Collect", "SyncRemoval"}
    /\ Fault
    /\ Return
    /\ UNCHANGED <<dirVars, dbVars, memVars, promised>>

----------------------------------------------------------------------------
(* The environment                                                         *)

\* The process is killed.  SQLite discards an open transaction.
Crash ==
    /\ pc # "Down"
    /\ Fault
    /\ Exit
    /\ UNCHANGED <<dirVars, dbVars, promised>>

\* The file system writes a directory entry back on its own.
Writeback(v) ==
    /\ disk[v] # files[v]
    /\ disk' = [disk EXCEPT ![v] = files[v]]
    /\ UNCHANGED <<files, synced, temps, used, dbVars, memVars, pc, localVars, promised, faults>>

\* The machine stops: only durable entries remain, and those whose content was
\* never synced hold nothing usable.  A temporary survives or not.
AfterPowerLoss == [v \in Version |-> IF disk[v] \in Key \ synced THEN Torn ELSE disk[v]]

PowerLoss ==
    /\ Fault
    /\ files' = AfterPowerLoss /\ disk' = AfterPowerLoss
    /\ temps' \in {temps, {}}
    /\ Exit
    /\ UNCHANGED <<synced, used, dbVars, promised>>

----------------------------------------------------------------------------

Create   == CreateTemporary \/ WriteAndSync \/ RenameNoReplace \/ SyncPublishedKey \/ CreateFails
Startup  == Open \/ BeginBootstrap \/ InsertInstallation \/ InsertFails
Rotate   == \/ BeginRotate \/ VerificationFails \/ ReadBackAndBegin \/ RotateFails
            \/ CommitRotation \/ CommitFails \/ AdoptNewKey \/ AdoptFails
            \/ \E s \in Secret : ReencryptRow(s)
CollectUnused ==
            \/ BeginCollect \/ ListVersions \/ SyncRemoval \/ FinishCollect \/ CollectFails
            \/ \E v \in Version : KeepReferenced(v) \/ RemoveUnreferenced(v)
            \/ \E k \in Key : RemoveTemporary(k)
Environment == Crash \/ PowerLoss \/ \E v \in Version : Writeback(v)

Next ==
    \/ Create \/ Startup \/ Close
    \/ \E s \in Secret : Delete(s) \/ \E v \in Value : Put(s, v)
    \/ Rotate \/ CollectUnused
    \/ Environment

Spec == Init /\ [][Next]_vars

(***************************************************************************)
(* A service manager or an operator starts the program again when it is    *)
(* down, and a step of OpenInstallation that can be taken is taken.        *)
(***************************************************************************)
StartupStep == Startup \/ (Bootstrapping /\ Create)

FairSpec == Spec /\ WF_vars(StartupStep)

----------------------------------------------------------------------------
(* Properties                                                              *)

\* A key the next start will read from version v after the machine stops now.
Durable(v, k) == Loads(v, k) /\ disk[v] = k /\ k \in synced

\* Whatever stops the process or the machine, and whenever, the key that the
\* committed installation row names and the key of every committed secret are
\* durably on disk under their version, so the next start opens every secret
\* (rotation.go publishes before it commits and removes after it commits).
CommittedKeysDurable ==
    /\ active # 0 => Durable(active, check)
    /\ \A s \in Stored : Durable(rows[s].kv, rows[s].key)

\* A store that serves requests seals with the key the database says is active:
\* any outcome that could have left memory and database apart (an uncertain
\* commit, a failed verification) has disabled the store.
AvailableStoreAgreesWithDatabase ==
    pc = "Idle" /\ ~unavailable => memVersion = active /\ memKey = check

\* Rotation re-encrypts all rows in the transaction that moves the active
\* version, so committed rows never mix key versions.
RowsUseActiveKey == \A s \in Stored : rows[s].kv = active /\ rows[s].key = check

\* The committed active version only moves up, whatever orphans interrupted
\* rotations left behind: no version number is ever bound to a second key.
ActiveVersionOnlyGrows == [][active' >= active]_active

\* When a collection reports success the directory holds durably the referenced
\* keys and nothing else, temporaries of interrupted publications included.
CollectionIsComplete ==
    [][FinishCollect => /\ \A v \in Version : disk'[v] # NoKey <=> Referenced(v)
                        /\ temps' = {}]_vars

\* What a reader would obtain from the rows if the machine stopped now.
Lost == "lost"
Readable(s) ==
    IF rows[s] = NoRow THEN Absent
    ELSE IF Durable(rows[s].kv, rows[s].key) THEN rows[s].val ELSE Lost

Vault == INSTANCE SecretVault WITH vault <- [s \in Secret |-> Readable(s)]

\* The store implements the vault: acknowledged mutations stay readable, and
\* rotation, collection, restarts and power loss never show.
ImplementsVault == Vault!Spec

\* Orphan keys and temporaries of earlier crashes never wedge the start: once
\* faults stop, a stopped installation becomes a serving one.
StartEventuallyServes == pc = "Down" ~> (pc = "Idle" /\ ~unavailable)
=============================================================================
