------------------------------ MODULE Archive ------------------------------
(***************************************************************************)
(* An MCB1 backup file: written, verified and published by backup create,  *)
(* read once by backup verify, and read twice by backup restore, which     *)
(* checks the whole file before it stages anything and stages from a       *)
(* second reading.                                                         *)
(*                                                                         *)
(* Commands over several data directories may name the same destination;   *)
(* each holds the lock of its own directory, so that the data under it     *)
(* stand still, but nothing holds the file: between any two steps of a     *)
(* reader the operator may remove it, put another one in its place, or     *)
(* write into it.  The file system loses what was not synced.              *)
(*                                                                         *)
(* A hash is what it was computed from.  age is external: a reader that    *)
(* has opened a stream gets its plaintext or an error, and the end only if *)
(* the file has it.                                                        *)
(***************************************************************************)
EXTENDS Naturals, Sequences, FiniteSets

CONSTANTS
    Installation,
    Row,         \* secrets, each with its identity and version
    Contents,    \* the sets of rows that installations hold
    Maker,       \* whatever makes archives, installations included
    Foreign,     \* files that the operator has, made by anything
    Damage,      \* those of them that he writes over a file in place
    MaxRuns,     \* bound: executions of backup create
    MaxChanges,  \* bound: files that the operator puts or writes over
    None

entryOrder == <<"manifest", "database", "secrets", "checksums">>

Database == [of : Maker \cup {None}, rows : SUBSET Row, schema : {"known", "newer"}]
Record == [of : Maker, row : Row]

ASSUME ArchiveAssumption ==
    /\ Contents \subseteq SUBSET Row /\ IsFiniteSet(Row) /\ MaxRuns \in Nat /\ MaxChanges \in Nat
    /\ Installation \subseteq Maker /\ Damage \subseteq Foreign
    /\ None \notin Maker \cup Row \cup 0..MaxRuns
    /\ \A f \in Foreign :
         /\ DOMAIN f = {"entries", "manifest", "database", "secrets", "sums", "end", "trailing"}
         /\ f.database \in Database /\ f.secrets \in Seq(Record)
    \* checksums need the passphrase, and who has it writes them over parts of his own
    /\ \A f \in Foreign : f.sums = [database |-> f.database, secrets |-> f.secrets] =>
           \A k \in DOMAIN f.secrets : f.secrets[k].of = f.database.of

Run   == 1..MaxRuns
Inode == 0..MaxRuns    \* 0 is a file that the operator put into place

VARIABLES
    content,     \* the secrets of each installation
    runs, changes,  \* bound: executions of create and changes so far
    create,      \* of each execution: step and installation
    file,        \* what each inode holds
    synced,      \* inodes whose data are on disk
    dest,        \* what the destination names, or None
    durable,     \* what it names after a power loss
    reader,      \* backup verify or restore
    restored,    \* database and re-encrypted secrets of the activated generation
    announced,   \* history: executions that reported success
    touched      \* history: inodes that the operator removed, replaced or wrote into

disk    == <<file, synced, dest, durable>>
history == <<announced, touched>>
vars    == <<content, runs, changes, create, disk, reader, restored, history>>

Empty == [entries |-> <<>>, manifest |-> "valid", database |-> None, secrets |-> <<>>,
          sums |-> None, end |-> FALSE, trailing |-> FALSE]
Resting == [pc |-> "idle", goal |-> None, pass |-> 0, inode |-> None, intact |-> FALSE, stage |-> None]

Init ==
    /\ content \in [Installation -> Contents]
    /\ runs = 0 /\ changes = 0
    /\ create = [n \in Run |-> [pc |-> "new", of |-> None]]
    /\ file = [n \in Inode |-> Empty]
    /\ synced = {}
    /\ dest = None /\ durable = None
    /\ reader = Resting
    /\ restored = None
    /\ announced = {} /\ touched = {}

----------------------------------------------------------------------------
(* What readArchive looks at                                               *)

\* scanSecretRecords: no identifier twice.
Singular(records) == \A i, j \in DOMAIN records : records[i].row = records[j].row => i = j

\* Header and body of the k-th entry.
EntryReadable(f, k) ==
    /\ k <= Len(f.entries) /\ f.entries[k] = entryOrder[k]
    /\ entryOrder[k] = "manifest" => f.manifest # "invalid"
    /\ entryOrder[k] = "secrets" => Singular(f.secrets)

\* After the last entry: no other, no trailing bytes, the authenticated end, the
\* sizes of the manifest and the checksums.
EndReadable(f) ==
    /\ Len(f.entries) = Len(entryOrder)
    /\ f.end /\ ~f.trailing
    /\ f.manifest # "sizes"
    /\ f.sums = [database |-> f.database, secrets |-> f.secrets]

\* Verify of a file that nobody else touches.
Verifies(f) ==
    /\ \A k \in DOMAIN entryOrder : EntryReadable(f, k)
    /\ EndReadable(f) /\ f.database.schema = "known"

----------------------------------------------------------------------------
(* backup create                                                           *)

At(n, pc) == create[n].pc = pc
To(n, pc) == create' = [create EXCEPT ![n].pc = pc]

Orders(S) == {s \in [1..Cardinality(S) -> S] : \A i, j \in DOMAIN s : s[i] = s[j] => i = j}

\* What installation i writes: snapshot and secrets, and the sums of both.
Archived(i, secrets) ==
    LET database == [of |-> i, rows |-> content[i], schema |-> "known"]
    IN  [entries |-> entryOrder, manifest |-> "valid", database |-> database, secrets |-> secrets,
         sums |-> [database |-> database, secrets |-> secrets], end |-> TRUE, trailing |-> FALSE]

\* The destination does not exist; snapshot, secrets measured in one reading and
\* written in another, metadata, the four entries and the authenticated end, under
\* a temporary name that nobody else opens.
Begin(i) ==
    /\ runs < MaxRuns /\ dest = None
    /\ \A n \in Run : create[n].of = i => create[n].pc \in {"done", "failed"}
    /\ runs' = runs + 1
    /\ create' = [create EXCEPT ![runs + 1] = [pc |-> "closed", of |-> i]]
    /\ \E order \in Orders(content[i]) :
         file' = [file EXCEPT ![runs + 1] = Archived(i, [k \in DOMAIN order |-> [of |-> i, row |-> order[k]]])]
    /\ UNCHANGED <<content, changes, synced, dest, durable, reader, restored, history>>

\* Mutant: the temporary file is not synced.
ContinueUnsynced(n) ==
    /\ At(n, "closed") /\ To(n, "synced")
    /\ UNCHANGED <<content, runs, changes, disk, reader, restored, history>>

SyncTemporary(n) ==
    /\ At(n, "closed") /\ To(n, "synced")
    /\ synced' = synced \cup {n}
    /\ UNCHANGED <<content, runs, changes, file, dest, durable, reader, restored, history>>

VerifyTemporary(n) ==
    /\ At(n, "synced") /\ To(n, IF Verifies(file[n]) THEN "verified" ELSE "failed")
    /\ UNCHANGED <<content, runs, changes, disk, reader, restored, history>>

\* renameat2 with RENAME_NOREPLACE
PublishNoReplace(n) ==
    /\ At(n, "verified")
    /\ IF dest = None THEN To(n, "published") /\ dest' = n ELSE To(n, "failed") /\ UNCHANGED dest
    /\ UNCHANGED <<content, runs, changes, file, synced, durable, reader, restored, history>>

\* Mutant: success is reported before the directory is synced.
ReportUnsynced(n) ==
    /\ At(n, "published") /\ To(n, "done")
    /\ announced' = announced \cup {n}
    /\ UNCHANGED <<content, runs, changes, disk, reader, restored, touched>>

\* syncDirectory makes durable whatever the destination names now.
SyncParent(n) ==
    /\ At(n, "published") /\ To(n, "done")
    /\ durable' = dest
    /\ announced' = announced \cup {n}
    /\ UNCHANGED <<content, runs, changes, file, synced, dest, reader, restored, touched>>

\* Any error, or the death of the process: the temporary file goes, or stays under
\* its own name; what was published stays.
CreateFails(n) ==
    /\ create[n].pc \in {"closed", "synced", "verified", "published"}
    /\ To(n, "failed")
    /\ UNCHANGED <<content, runs, changes, disk, reader, restored, history>>

----------------------------------------------------------------------------
(* backup verify and backup restore                                        *)

Rest == reader' = Resting

Read(goal) ==
    /\ reader.pc = "idle"
    /\ reader' = [Resting EXCEPT !.pc = "opening", !.goal = goal, !.pass = 1]
    /\ UNCHANGED <<content, runs, changes, create, disk, restored, history>>

\* The path is opened anew for each pass.
OpenArchive ==
    /\ reader.pc = "opening" /\ dest # None
    /\ reader' = [reader EXCEPT !.pc = "reading", !.inode = dest, !.intact = TRUE]
    /\ UNCHANGED <<content, runs, changes, create, disk, restored, history>>

\* WriteDatabase: a new key, a new identity, and no secret sealed under them yet.
\* RestoreSecret: every record's row must be one of the snapshot's.
Stage(f) == [database |-> f.database, sealed |-> {f.secrets[k] : k \in DOMAIN f.secrets}]

\* The entries, if the bytes still belong to the stream that was opened.
ReadEntries ==
    LET f == file[reader.inode]
    IN  /\ reader.pc = "reading" /\ reader.intact
        /\ \A k \in DOMAIN entryOrder : EntryReadable(f, k)
        /\ reader.pass = 2 => /\ f.database.schema = "known"
                              /\ \A k \in DOMAIN f.secrets : f.secrets[k].row \in f.database.rows
        /\ reader' = [reader EXCEPT !.pc = "ending", !.stage = IF reader.pass = 2 THEN Stage(f) ELSE None]
        /\ UNCHANGED <<content, runs, changes, create, disk, restored, history>>

\* After the last entry; the stage is there already.
Ended == reader.pc = "ending" /\ reader.intact /\ EndReadable(file[reader.inode])

\* verifySQLite, then the second pass if there is one.
FinishVerify ==
    /\ Ended /\ reader.pass = 1 /\ file[reader.inode].database.schema = "known"
    /\ reader' = IF reader.goal = "verify" THEN Resting
                 ELSE [reader EXCEPT !.pc = "opening", !.pass = 2, !.inode = None, !.intact = FALSE]
    /\ UNCHANGED <<content, runs, changes, create, disk, restored, history>>

\* Mutant: the secrets are not counted.
SealPartial ==
    /\ Ended /\ reader.pass = 2
    /\ reader' = [reader EXCEPT !.pc = "sealed"]
    /\ UNCHANGED <<content, runs, changes, create, disk, restored, history>>

Seal ==
    /\ Ended /\ reader.pass = 2
    /\ Cardinality(reader.stage.sealed) = Cardinality(reader.stage.database.rows)
    /\ reader' = [reader EXCEPT !.pc = "sealed"]
    /\ UNCHANGED <<content, runs, changes, create, disk, restored, history>>

Activate ==
    /\ reader.pc = "sealed"
    /\ restored' = reader.stage
    /\ Rest
    /\ UNCHANGED <<content, runs, changes, create, disk, history>>

\* An error at any point, or the death of the process: Abort removes the stage.
ReaderFails ==
    /\ reader.pc # "idle"
    /\ Rest
    /\ UNCHANGED <<content, runs, changes, create, disk, restored, history>>

----------------------------------------------------------------------------
(* The operator and the file system                                        *)

Remove ==
    /\ dest # None
    /\ dest' = None /\ durable' = None
    /\ touched' = touched \cup {dest}
    /\ UNCHANGED <<content, runs, changes, create, file, synced, reader, restored, announced>>

\* Another file under the name.  What a reader has open it goes on reading: inode 0
\* is not taken again while it is open.
Replace(f) ==
    /\ dest # 0 /\ reader.inode # 0
    /\ changes < MaxChanges /\ changes' = changes + 1
    /\ dest' = 0 /\ durable' = 0 /\ synced' = synced \cup {0}
    /\ file' = [file EXCEPT ![0] = f]
    /\ touched' = touched \cup ({dest} \ {None})
    /\ UNCHANGED <<content, runs, create, reader, restored, announced>>

\* Another file's bytes, or a truncation, in the same inode.
Overwrite(f) ==
    /\ dest # None
    /\ changes < MaxChanges /\ changes' = changes + 1
    /\ file' = [file EXCEPT ![dest] = f]
    /\ touched' = touched \cup {dest}
    /\ reader' = [reader EXCEPT !.intact = @ /\ reader.inode # dest]
    /\ UNCHANGED <<content, runs, create, synced, dest, durable, restored, announced>>

\* All processes end, names fall back, unsynced data are cut.
PowerLoss ==
    /\ dest' \in {dest, durable} /\ durable' = dest'
    /\ file' = [n \in Inode |-> IF n \in synced THEN file[n] ELSE [file[n] EXCEPT !.end = FALSE]]
    /\ synced' = 0..runs
    /\ create' = [n \in Run |-> IF n <= runs /\ create[n].pc # "done" THEN [create[n] EXCEPT !.pc = "failed"]
                                ELSE create[n]]
    /\ Rest
    /\ UNCHANGED <<content, runs, changes, restored, history>>

Next ==
    \/ \E i \in Installation : Begin(i)
    \/ \E n \in Run :
         \/ SyncTemporary(n) \/ VerifyTemporary(n)
         \/ PublishNoReplace(n) \/ SyncParent(n) \/ CreateFails(n)
    \/ \E goal \in {"verify", "restore"} : Read(goal)
    \/ OpenArchive \/ ReadEntries \/ FinishVerify \/ Seal \/ Activate \/ ReaderFails
    \/ Remove \/ (\E f \in Foreign : Replace(f)) \/ (\E f \in Damage : Overwrite(f)) \/ PowerLoss

Spec == Init /\ [][Next]_vars

----------------------------------------------------------------------------
(* Properties                                                              *)

\* A complete archive, said of the file and not of its reading: four entries in
\* order, a record for each secret of its database, nothing more.
Whole(f) ==
    /\ f.entries = entryOrder /\ f.manifest = "valid" /\ f.end /\ ~f.trailing
    /\ f.database.schema = "known"
    /\ {f.secrets[i].row : i \in DOMAIN f.secrets} = f.database.rows
    /\ Len(f.secrets) = Cardinality(f.database.rows)
    /\ f.sums = [database |-> f.database, secrets |-> f.secrets]

\* Executions, names and the reader are well formed; only an opened file is read,
\* only a second reading stages anything, and only one that was read to its end is
\* sealed.
TypeOK ==
    /\ content \in [Installation -> Contents] /\ runs \in 0..MaxRuns /\ changes \in 0..MaxChanges
    /\ dest \in Inode \cup {None} /\ durable \in Inode \cup {None} /\ synced \subseteq Inode
    /\ \A n \in Run : /\ create[n].pc \in {"new", "closed", "synced", "verified", "published", "done", "failed"}
                      /\ create[n].pc = "new" <=> n > runs
    /\ reader.pc \in {"idle", "opening", "reading", "ending", "sealed"} /\ reader.intact \in BOOLEAN
    /\ reader.inode # None <=> reader.pc \in {"reading", "ending", "sealed"}
    /\ reader.stage # None => reader.pass = 2 /\ reader.goal = "restore"
    /\ announced \subseteq Run /\ touched \subseteq Inode

\* Whatever fails, and even after a power loss, the destination never names a part
\* of a backup: what create published is whole and holds what the installation held.
PublishedIsWhole ==
    dest \in Run \ touched =>
        Whole(file[dest]) /\ file[dest].database.rows = content[create[dest].of]

\* A backup that was reported as created is there after any power loss, and no other
\* command that had found the destination free has taken its place.
AnnouncedSurvives ==
    \A n \in announced \ touched : dest = n /\ durable = n /\ n \in synced

\* Though the file is read twice and may change between and during the readings, an
\* activated generation has database and secrets of one whole archive, each secret
\* sealed again.
RestoredIsOneBackup ==
    restored # None =>
        /\ {s.row : s \in restored.sealed} = restored.database.rows
        /\ \A s \in restored.sealed : s.of = restored.database.of
=============================================================================
