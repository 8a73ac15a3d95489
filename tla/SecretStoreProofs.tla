-------------------------- MODULE SecretStoreProofs --------------------------
(***************************************************************************)
(* Proofs about SecretStore, for any sets of secrets, values and keys and  *)
(* any bounds.  The properties are not inductive as they stand: the        *)
(* inductive invariant IInv adds what each step of a publication and of a  *)
(* rotation has established so far.                                        *)
(***************************************************************************)
EXTENDS SecretStore, TLAPS

CreateSteps == {"Generate", "Write", "Rename", "SyncKey"}

\* The committed state: the active key is durable and every row uses it.
CommittedInv ==
    /\ active # 0 => check \in Key /\ Durable(active, check)
    /\ \A s \in Secret : rows[s] # NoRow => rows[s].kv = active /\ rows[s].key = check

\* The object in memory: an available store agrees with the database, and an
\* operation past its opening checks runs on an available store.
MemoryInv ==
    /\ ~unavailable => active # 0 /\ memVersion = active /\ memKey = check
    /\ pc = "Down" => memVersion = 0
    /\ pc \in {"ReadBack", "Reencrypt", "List", "Collect", "SyncRemoval"} => ~unavailable
    /\ pc \in CreateSteps => IF memVersion = 0 THEN active = 0 ELSE ~unavailable
    /\ pc = "Insert" => active = 0
    /\ pc = "Adopt" => active = next /\ check = newKey

\* The publication in progress: its version lies above the committed one, and
\* its key is in turn generated, synced, named and durable.
PublicationInv ==
    /\ pc \in CreateSteps \cup {"Insert", "ReadBack", "Reencrypt"} => next \in Version /\ active < next
    /\ pc \in {"Write", "Rename", "SyncKey", "Insert", "ReadBack", "Reencrypt", "Adopt"} => newKey \in Key
    /\ pc \in {"Rename", "SyncKey"} => newKey \in synced
    /\ pc = "SyncKey" => files[next] = newKey
    /\ pc \in {"Insert", "ReadBack", "Reencrypt", "Adopt"} => next \in Version /\ Durable(next, newKey)

\* The transaction in progress: rows done carry the new key and the old value.
TransactionInv ==
    pc = "Reencrypt" =>
        \A s \in Secret :
            IF rows[s] = NoRow THEN tx[s] = NoRow /\ s \notin pending
            ELSE IF s \in pending THEN tx[s] = rows[s]
            ELSE tx[s] = [kv |-> next, key |-> newKey, val |-> rows[s].val]

\* The collection in progress: a file it no longer lists is the active key's.
CollectionInv ==
    pc \in {"Collect", "SyncRemoval"} =>
        \A v \in Version : files[v] # NoKey => v \in listed \/ v = active

IInv == /\ TypeOK /\ CommittedInv /\ MemoryInv
        /\ PublicationInv /\ TransactionInv /\ CollectionInv

------------------------------------------------------------------------------

USE SecretStoreAssumption, RowAssumption
    DEF dirVars, dbVars, memVars, localVars, NoRows, Version, CreateSteps, Loads, Durable

\* An installation that was never opened has no file and no row, and satisfies
\* the invariant.
LEMMA InitIInv == Init => IInv
  BY DEF Init, IInv, TypeOK, CommittedInv, MemoryInv, PublicationInv, TransactionInv,
         CollectionInv, Steps

\* keyring.create: the version being published is above the committed one, so
\* none of its steps touches the file a committed row depends on.
LEMMA CreateIInv == ASSUME IInv, Create PROVE IInv'
  <1> USE DEF IInv, TypeOK, Steps, CommittedInv, MemoryInv, PublicationInv, TransactionInv,
              CollectionInv
  <1>1. CASE CreateTemporary
    BY <1>1 DEF CreateTemporary
  <1>2. CASE WriteAndSync
    BY <1>2 DEF WriteAndSync
  <1>3. CASE RenameNoReplace
    BY <1>3 DEF RenameNoReplace
  <1>4. CASE SyncPublishedKey
    BY <1>4 DEF SyncPublishedKey, Bootstrapping
  <1>5. CASE CreateFails
    <2>1. faults' \in 0..MaxFaults /\ temps' \subseteq Key
      BY <1>5 DEF CreateFails, Fault
    <2>2. CASE Bootstrapping
      BY <1>5, <2>1, <2>2 DEF CreateFails, Fail, Exit, DropLocals
    <2>3. CASE ~Bootstrapping
      BY <1>5, <2>1, <2>3 DEF CreateFails, Fail, Return, DropLocals
    <2> QED BY <2>2, <2>3
  <1> QED BY <1>1, <1>2, <1>3, <1>4, <1>5 DEF Create

\* Opening, bootstrap and Close.
LEMMA StartupIInv == ASSUME IInv, Startup \/ Close PROVE IInv'
  <1> USE DEF IInv, TypeOK, Steps, MemoryInv, PublicationInv
  <1>1. CASE Open
    <2>1. CommittedInv' /\ MemoryInv'
      BY <1>1 DEF Open, CommittedInv
    <2> QED BY <1>1, <2>1 DEF Open, TransactionInv, CollectionInv
  <1>2. CASE BeginBootstrap
    BY <1>2 DEF BeginBootstrap, BootstrapVersion, Highest, Published, Stored,
                CommittedInv, TransactionInv, CollectionInv
  <1>3. CASE InsertInstallation
    <2>1. CommittedInv'
      \* there are no rows yet: a row's key_version would be active, which is 0
      <3>1. \A s \in Secret : rows[s] = NoRow
        BY <1>3 DEF InsertInstallation, CommittedInv, Row
      <3> QED BY <1>3, <3>1 DEF InsertInstallation, CommittedInv
    <2>2. MemoryInv'
      BY <1>3 DEF InsertInstallation, Return, DropLocals
    <2> QED BY <1>3, <2>1, <2>2 DEF InsertInstallation, Return, DropLocals,
                                    TransactionInv, CollectionInv
  <1>4. CASE InsertFails
    <2>1. \A s \in Secret : rows[s] = NoRow
      BY <1>4 DEF InsertFails, CommittedInv, Row
    <2> QED BY <1>4, <2>1 DEF InsertFails, Fault, Exit, DropLocals, CommittedInv,
                              TransactionInv, CollectionInv
  <1>5. CASE Close
    BY <1>5 DEF Close, Exit, DropLocals, CommittedInv, TransactionInv, CollectionInv
  <1> QED BY <1>1, <1>2, <1>3, <1>4, <1>5 DEF Startup

\* Put and Delete: an available store seals under the durable active key.
LEMMA MutateIInv ==
  ASSUME IInv, NEW s \in Secret, NEW row, NEW told, Mutate(s, row, told),
         told \in Value \cup {Absent},
         row = NoRow \/ (row \in Row /\ row.kv = memVersion /\ row.key = memKey)
  PROVE  IInv'
  <1> USE DEF IInv, TypeOK, Mutate
  <1>1. TypeOK'
    <2>1. rows' \in [Secret -> Row \cup {NoRow}]
      OBVIOUS
    <2>2. promised' \in [Secret -> Value \cup {Absent, Unsure}]
      OBVIOUS
    <2>3. unavailable' \in BOOLEAN
      OBVIOUS
    <2>4. faults' \in 0..MaxFaults
      BY DEF Fault
    <2> QED BY <2>1, <2>2, <2>3, <2>4
  <1>2. CommittedInv'
    BY DEF CommittedInv, MemoryInv
  <1> QED BY <1>1, <1>2 DEF MemoryInv, PublicationInv, TransactionInv, CollectionInv

\* The two operations that change one row, as instances of MutateIInv.
LEMMA PutDeleteIInv ==
  ASSUME IInv, NEW s \in Secret, Delete(s) \/ \E v \in Value : Put(s, v)
  PROVE  IInv'
  <1>1. CASE Delete(s)
    BY <1>1, MutateIInv DEF Delete
  <1>2. ASSUME NEW v \in Value, Put(s, v) PROVE IInv'
    <2>1. memVersion \in Version /\ memKey \in Key
      BY <1>2 DEF Put, Mutate, IInv, TypeOK, MemoryInv, CommittedInv
    <2>2. [kv |-> memVersion, key |-> memKey, val |-> v] \in Row
      BY <2>1 DEF Row
    <2> QED BY <1>2, <2>2, MutateIInv DEF Put
  <1> QED BY <1>1, <1>2

\* RotateMasterKey: at the commit every row of the transaction carries the new
\* key, which is durable by then; the old key is still there if it does not commit.
LEMMA RotateIInv == ASSUME IInv, Rotate PROVE IInv'
  <1> USE DEF IInv, TypeOK, Steps, MemoryInv, PublicationInv
  <1>1. CASE BeginRotate
    BY <1>1 DEF BeginRotate, RotateVersion, Highest, Published, CommittedInv,
                TransactionInv, CollectionInv
  <1>2. CASE VerificationFails
    BY <1>2 DEF VerificationFails, Fault, CommittedInv, TransactionInv, CollectionInv
  <1>3. CASE ReadBackAndBegin
    BY <1>3 DEF ReadBackAndBegin, Stored, CommittedInv, TransactionInv, CollectionInv
  <1>4. ASSUME NEW s \in Secret, ReencryptRow(s) PROVE IInv'
    <2>1. rows[s] # NoRow /\ tx[s] = rows[s] /\ tx[s] \in Row
      BY <1>4 DEF ReencryptRow, TransactionInv
    <2>2. tx' \in [Secret -> Row \cup {NoRow}]
      BY <1>4, <2>1 DEF ReencryptRow, Row
    <2>3. TransactionInv'
      BY <1>4, <2>1 DEF ReencryptRow, TransactionInv
    <2> QED BY <1>4, <2>2, <2>3 DEF ReencryptRow, CommittedInv, CollectionInv
  <1>5. CASE RotateFails
    <2>1. unavailable' \in BOOLEAN
      BY <1>5 DEF RotateFails
    <2> QED BY <1>5, <2>1 DEF RotateFails, Fault, Return, DropLocals, CommittedInv,
                              TransactionInv, CollectionInv
  <1>6. ASSUME pc = "Reencrypt", pending = {}, RotationCommits,
               UNCHANGED <<files, disk, synced>>
        PROVE  CommittedInv' /\ rows' \in [Secret -> Row \cup {NoRow}]
    BY <1>6 DEF RotationCommits, CommittedInv, TransactionInv
  <1>7. CASE CommitRotation
    BY <1>6, <1>7 DEF CommitRotation, RotationCommits, TransactionInv, CollectionInv
  <1>8. CASE CommitFails
    <2>1. CommittedInv' /\ rows' \in [Secret -> Row \cup {NoRow}]
      BY <1>6, <1>8 DEF CommitFails, CommittedInv
    <2>2. active' \in Version \cup {0} /\ check' \in Key \cup {NoKey}
      BY <1>8 DEF CommitFails, RotationCommits
    <2> QED BY <1>8, <2>1, <2>2 DEF CommitFails, Fault, Return, DropLocals,
                                    TransactionInv, CollectionInv
  <1>9. CASE AdoptNewKey
    <2>1. MemoryInv'
      BY <1>9 DEF AdoptNewKey, KeyStateVerified
    <2> QED BY <1>9, <2>1 DEF AdoptNewKey, CommittedInv, TransactionInv, CollectionInv
  <1>10. CASE AdoptFails
    BY <1>10 DEF AdoptFails, Fault, Return, DropLocals, CommittedInv, TransactionInv,
                 CollectionInv
  <1> QED BY <1>1, <1>2, <1>3, <1>4, <1>5, <1>7, <1>8, <1>9, <1>10 DEF Rotate

\* collectKeys removes a version no committed row and no installation row names.
LEMMA CollectIInv == ASSUME IInv, CollectUnused PROVE IInv'
  <1> USE DEF IInv, TypeOK, Steps, CommittedInv, MemoryInv, PublicationInv, TransactionInv,
              CollectionInv
  <1>1. CASE BeginCollect
    BY <1>1 DEF BeginCollect
  <1>2. CASE ListVersions
    BY <1>2 DEF ListVersions, Published
  <1>3. ASSUME NEW v \in Version, KeepReferenced(v) PROVE IInv'
    BY <1>3 DEF KeepReferenced, Referenced, Stored
  <1>4. ASSUME NEW v \in Version, RemoveUnreferenced(v) PROVE IInv'
    BY <1>4 DEF RemoveUnreferenced, Referenced
  <1>5. CASE SyncRemoval
    BY <1>5 DEF SyncRemoval
  <1>6. ASSUME NEW k \in Key, RemoveTemporary(k) PROVE IInv'
    BY <1>6 DEF RemoveTemporary
  <1>7. CASE FinishCollect
    BY <1>7 DEF FinishCollect, Return, DropLocals
  <1>8. CASE CollectFails
    BY <1>8 DEF CollectFails, Fault, Return, DropLocals
  <1> QED BY <1>1, <1>2, <1>3, <1>4, <1>5, <1>6, <1>7, <1>8 DEF CollectUnused

\* A durable entry survives power loss; what is committed is durable.
LEMMA EnvironmentIInv == ASSUME IInv, Environment PROVE IInv'
  <1> USE DEF IInv, TypeOK, Steps, CommittedInv, MemoryInv, PublicationInv, TransactionInv,
              CollectionInv
  <1>1. CASE Crash
    BY <1>1 DEF Crash, Fault, Exit, DropLocals
  <1>2. ASSUME NEW v \in Version, Writeback(v) PROVE IInv'
    BY <1>2 DEF Writeback
  <1>3. CASE PowerLoss
    BY <1>3 DEF PowerLoss, AfterPowerLoss, Fault, Exit, DropLocals
  <1> QED BY <1>1, <1>2, <1>3 DEF Environment

\* A step that changes no variable keeps the invariant.
LEMMA StutterIInv == ASSUME IInv, UNCHANGED vars PROVE IInv'
  BY DEF vars, IInv, TypeOK, CommittedInv, MemoryInv, PublicationInv, TransactionInv,
         CollectionInv

\* IInv is an inductive invariant of the store.
THEOREM Invariance == Spec => []IInv
  <1>1. IInv /\ [Next]_vars => IInv'
    BY CreateIInv, StartupIInv, PutDeleteIInv, RotateIInv, CollectIInv, EnvironmentIInv,
       StutterIInv DEF Next
  <1> QED BY <1>1, InitIInv, PTL DEF Spec

\* Every variable keeps its type: in particular no operation publishes a version
\* past MaxVersion and no row is sealed without a key.
THEOREM TypeCorrectness == Spec => []TypeOK
  BY Invariance, PTL DEF IInv

\* CommittedKeysDurable: at every instant a stop of the process or the machine
\* leaves a keyring that opens every committed secret.
THEOREM KeysDurable == Spec => []CommittedKeysDurable
  <1>1. IInv => CommittedKeysDurable
    BY DEF IInv, TypeOK, CommittedInv, CommittedKeysDurable, Stored, Row
  <1> QED BY <1>1, Invariance, PTL

\* AvailableStoreAgreesWithDatabase: a serving store holds the active key.
THEOREM FailClosed == Spec => []AvailableStoreAgreesWithDatabase
  <1>1. IInv => AvailableStoreAgreesWithDatabase
    BY DEF IInv, MemoryInv, AvailableStoreAgreesWithDatabase
  <1> QED BY <1>1, Invariance, PTL

\* RowsUseActiveKey: committed rows never mix key versions.
THEOREM NoMixedVersions == Spec => []RowsUseActiveKey
  <1>1. IInv => RowsUseActiveKey
    BY DEF IInv, CommittedInv, RowsUseActiveKey, Stored
  <1> QED BY <1>1, Invariance, PTL

\* What a step may do to the installation row: leave it, or move it to the
\* version being published.
LEMMA ActiveMoves ==
  ASSUME Next PROVE \/ active' = active
                    \/ active' = next /\ pc \in {"Insert", "Reencrypt"}
  BY DEF Next, Create, CreateTemporary, WriteAndSync, RenameNoReplace, SyncPublishedKey,
     CreateFails, Startup, Open, BeginBootstrap, InsertInstallation, InsertFails, Close,
     Delete, Put, Mutate, Rotate, BeginRotate, VerificationFails, ReadBackAndBegin,
     ReencryptRow, RotateFails, RotationCommits, CommitRotation, CommitFails, AdoptNewKey,
     AdoptFails, CollectUnused, BeginCollect, ListVersions, KeepReferenced,
     RemoveUnreferenced, SyncRemoval, RemoveTemporary, FinishCollect, CollectFails,
     Environment, Crash, Writeback, PowerLoss

\* ActiveVersionOnlyGrows: a version number is bound to one key for ever.
THEOREM VersionsOnlyGrow == Spec => ActiveVersionOnlyGrows
  <1>1. IInv /\ [Next]_vars => [active' >= active]_active
    BY ActiveMoves DEF IInv, TypeOK, PublicationInv, vars
  <1> QED BY <1>1, Invariance, PTL DEF Spec, ActiveVersionOnlyGrows

\* CollectionIsComplete: a successful collection leaves the active key durably
\* alone in the directory.
THEOREM CollectionCompletes == Spec => CollectionIsComplete
  <1>1. IInv /\ FinishCollect
        => /\ \A v \in Version : disk'[v] # NoKey <=> Referenced(v)
           /\ temps' = {}
    <2> SUFFICES ASSUME IInv, FinishCollect, NEW v \in Version
                 PROVE  files[v] # NoKey <=> Referenced(v)
      BY DEF FinishCollect
    <2>1. Referenced(v) <=> v = active
      BY DEF IInv, CommittedInv, Referenced, Stored
    <2>2. v = active => files[v] # NoKey
      BY DEF IInv, CommittedInv
    <2> QED BY <2>1, <2>2 DEF IInv, CollectionInv, FinishCollect
  <1>2. IInv /\ [Next]_vars
        => [FinishCollect => /\ \A v \in Version : disk'[v] # NoKey <=> Referenced(v)
                             /\ temps' = {}]_vars
    BY <1>1
  <1> QED BY <1>2, Invariance, PTL DEF Spec, CollectionIsComplete

------------------------------------------------------------------------------
(* The store implements SecretVault.                                          *)

\* Under the invariant what can be read back is the committed table.
Contents == [s \in Secret |-> IF rows[s] = NoRow THEN Absent ELSE rows[s].val]
View     == [s \in Secret |-> Readable(s)]

LEMMA ViewIsContents == ASSUME IInv PROVE View = Contents
  <1> SUFFICES ASSUME NEW s \in Secret, rows[s] # NoRow
               PROVE  Durable(rows[s].kv, rows[s].key)
    BY DEF View, Contents, Readable
  <1> QED BY DEF IInv, TypeOK, CommittedInv, Row

\* Every step but an accepted mutation leaves the values of the table alone: a
\* rotation's commit replaces keys and versions only.
LEMMA ContentsKept ==
  ASSUME IInv, Create \/ Startup \/ Close \/ Rotate \/ CollectUnused \/ Environment
  PROVE  Contents' = Contents /\ promised' = promised
  <1>1. CASE Create \/ Startup \/ Close \/ CollectUnused \/ Environment
    BY <1>1 DEF Contents, Create, CreateTemporary, WriteAndSync, RenameNoReplace,
       SyncPublishedKey, CreateFails, Startup, Open, BeginBootstrap, InsertInstallation,
       InsertFails, Close, CollectUnused, BeginCollect, ListVersions, KeepReferenced,
       RemoveUnreferenced, SyncRemoval, RemoveTemporary, FinishCollect, CollectFails,
       Environment, Crash, Writeback, PowerLoss
  <1>2. CASE Rotate
    <2>1. ASSUME pc = "Reencrypt", pending = {}, RotationCommits PROVE Contents' = Contents
      <3> SUFFICES ASSUME NEW s \in Secret
                   PROVE  /\ tx[s] = NoRow <=> rows[s] = NoRow
                          /\ rows[s] # NoRow => tx[s].val = rows[s].val
        BY <2>1 DEF RotationCommits, Contents
      <3> QED BY <2>1 DEF IInv, TypeOK, PublicationInv, TransactionInv, Row
    <2>2. ASSUME UNCHANGED rows PROVE Contents' = Contents
      BY <2>2 DEF Contents
    <2> QED BY <1>2, <2>1, <2>2 DEF Rotate, BeginRotate, VerificationFails,
       ReadBackAndBegin, ReencryptRow, RotateFails, CommitRotation, CommitFails, AdoptNewKey,
       AdoptFails
  <1> QED BY <1>1, <1>2

\* An accepted Put or Delete is one step of the vault.
LEMMA MutationIsVaultStep ==
  ASSUME IInv, IInv', NEW s \in Secret, Delete(s) \/ \E v \in Value : Put(s, v)
  PROVE  Vault!Next
  <1>1. View = Contents /\ View' = Contents'
    BY ViewIsContents, IInv' DEF View, Contents, Readable, IInv, TypeOK, CommittedInv, Row
  <1>2. ASSUME NEW row, NEW told \in Value \cup {Absent}, Mutate(s, row, told),
               IF row = NoRow THEN told = Absent ELSE told = row.val
        PROVE  Vault!Next
    <2>1. ASSUME rows' = [rows EXCEPT ![s] = row]
          PROVE  Contents' = [Contents EXCEPT ![s] = told]
      BY <1>2, <2>1 DEF Contents, IInv, TypeOK
    <2>2. CASE /\ rows' = [rows EXCEPT ![s] = row]
               /\ promised' = [promised EXCEPT ![s] = told]
      <3>1. Vault!Acknowledge(s, told)
        BY <1>1, <2>1, <2>2 DEF Vault!Acknowledge, View
      <3> QED BY <3>1 DEF Vault!Next
    <2>3. CASE /\ rows' \in {rows, [rows EXCEPT ![s] = row]}
               /\ promised' = [promised EXCEPT ![s] = Unsure]
      <3>1. rows' = rows => Contents' = Contents
        BY DEF Contents
      <3>2. Contents' \in {Contents, [Contents EXCEPT ![s] = told]}
        BY <2>1, <2>3, <3>1
      <3>3. Vault!Unsettle(s, told)
        BY <1>1, <2>3, <3>2 DEF Vault!Unsettle, View
      <3> QED BY <3>3 DEF Vault!Next
    <2> QED BY <1>2, <2>2, <2>3 DEF Mutate
  <1>3. CASE Delete(s)
    BY <1>2, <1>3 DEF Delete
  <1>4. ASSUME NEW v \in Value, Put(s, v) PROVE Vault!Next
    <2>1. [kv |-> memVersion, key |-> memKey, val |-> v] # NoRow
      <3>1. memVersion \in Version /\ memKey \in Key
        BY <1>4 DEF Put, Mutate, IInv, TypeOK, MemoryInv, CommittedInv
      <3> QED BY <3>1 DEF Row
    <2> QED BY <1>2, <1>4, <2>1 DEF Put
  <1> QED BY <1>3, <1>4

\* The store implements the vault: only an accepted mutation changes what can be
\* read back, and rotation, collection, restarts and power loss never show.
THEOREM Refinement == Spec => ImplementsVault
  <1>1. Init => Vault!Init
    BY DEF Init, Vault!Init, Readable
  <1>2. IInv /\ IInv' /\ [Next]_vars => [Vault!Next]_Vault!vars
    <2> SUFFICES ASSUME IInv, IInv', [Next]_vars PROVE [Vault!Next]_Vault!vars
      OBVIOUS
    <2>1. View = Contents /\ View' = Contents'
      BY ViewIsContents, IInv' DEF View, Contents, Readable, IInv, TypeOK, CommittedInv, Row
    <2>2. CASE Create \/ Startup \/ Close \/ Rotate \/ CollectUnused \/ Environment
      BY <2>1, <2>2, ContentsKept DEF View, Vault!vars
    <2>3. CASE \E s \in Secret : Delete(s) \/ \E v \in Value : Put(s, v)
      BY <2>3, MutationIsVaultStep
    <2>4. CASE UNCHANGED vars
      BY <2>4 DEF vars, Vault!vars, Readable
    <2> QED BY <2>2, <2>3, <2>4 DEF Next
  <1> QED BY <1>1, <1>2, Invariance, PTL DEF Spec, ImplementsVault, Vault!Spec
=============================================================================
