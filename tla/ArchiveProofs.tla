--------------------------- MODULE ArchiveProofs ---------------------------
(***************************************************************************)
(* Proofs about Archive, for any installations and contents, any number of *)
(* executions and changes, and any files of the operator.                  *)
(*                                                                         *)
(* That a restored generation is one backup rests on a counting argument:  *)
(* the staged secrets lie within the snapshot's rows, no row occurs twice, *)
(* and there are as many as rows, so they are all of them (Complete); and  *)
(* on the checksums, which tie the secrets to the snapshot that was read   *)
(* with them although both were staged before the checksums were.          *)
(***************************************************************************)
EXTENDS Archive, FiniteSetTheorems, TLAPS

\* What any file is: either it holds nothing, or a database and records; checksums
\* that agree with both were written by the maker of both.
FileOK(f) ==
    /\ DOMAIN f = {"entries", "manifest", "database", "secrets", "sums", "end", "trailing"}
    /\ f.secrets \in Seq(Record)
    /\ f.entries # <<>> => f.database \in Database
    /\ f.sums = [database |-> f.database, secrets |-> f.secrets] =>
           \A k \in DOMAIN f.secrets : f.secrets[k].of = f.database.of

Steps == {"new", "closed", "synced", "verified", "published", "done", "failed"}

TypeInv ==
    /\ content \in [Installation -> Contents]
    /\ runs \in 0..MaxRuns /\ changes \in 0..MaxChanges
    /\ create \in [Run -> [pc : Steps, of : Installation \cup {None}]]
    /\ \A n \in Run : create[n].pc = "new" <=> n > runs
    /\ \A n \in Run : create[n].pc # "new" => create[n].of \in Installation
    /\ DOMAIN file = Inode /\ \A n \in Inode : FileOK(file[n])
    /\ synced \subseteq Inode
    /\ dest \in 0..runs \cup {None} /\ durable \in {None, dest}
    /\ announced \subseteq Run /\ touched \subseteq Inode

\* An execution has written a whole archive of what its installation holds.
Written(n) ==
    /\ Whole(file[n])
    /\ file[n].database.rows = content[create[n].of]

\* Of an execution whose file the operator left alone: it is whole while the
\* command goes on and wherever the destination names it, synced before it is named,
\* named from its publication on, and durably once success was announced.
Kept(n) ==
    /\ create[n].pc \in {"closed", "synced", "verified", "published", "done"} \/ dest = n => Written(n)
    /\ create[n].pc \in {"synced", "verified", "published", "done"} \/ dest = n => n \in synced
    /\ create[n].pc = "published" => dest = n
    /\ n \in announced => dest = n /\ durable = n

\* A stage agrees with the file it was read from, as far as reading has checked.
Read1(f) ==
    /\ f.database \in Database
    /\ Singular(f.secrets)
    /\ \A k \in DOMAIN f.secrets : f.secrets[k].row \in f.database.rows

OneBackup(stage) ==
    /\ {s.row : s \in stage.sealed} = stage.database.rows
    /\ \A s \in stage.sealed : s.of = stage.database.of

Reading ==
    /\ DOMAIN reader = {"pc", "goal", "pass", "inode", "intact", "stage"}
    /\ reader.pc \in {"idle", "opening", "reading", "ending", "sealed"}
    /\ reader.intact \in BOOLEAN
    /\ reader.inode \in 0..runs \cup {None}
    /\ reader.inode # None <=> reader.pc \in {"reading", "ending", "sealed"}
    /\ reader.pc # "idle" => reader.goal \in {"verify", "restore"}
    /\ reader.pass = 2 => reader.goal = "restore"
    /\ reader.stage # None => reader.pass = 2
    /\ reader.pc = "ending" /\ reader.pass = 2 /\ reader.intact =>
           reader.stage = Stage(file[reader.inode]) /\ Read1(file[reader.inode])
    /\ reader.pc = "sealed" => OneBackup(reader.stage)

IInv ==
    /\ TypeInv
    /\ \A n \in Run \ touched : Kept(n)
    /\ Reading
    /\ RestoredIsOneBackup

LEMMA ConstantTypes ==
    /\ Contents \subseteq SUBSET Row /\ IsFiniteSet(Row) /\ MaxRuns \in Nat /\ MaxChanges \in Nat
    /\ Installation \subseteq Maker /\ Damage \subseteq Foreign
    /\ None \notin Maker /\ None \notin Row /\ None \notin 0..MaxRuns
    /\ \A f \in Foreign : FileOK(f)
  BY ArchiveAssumption DEF FileOK

----------------------------------------------------------------------------
(* Counting                                                                *)

\* An ordering of a finite set has all of it.
LEMMA OrderIsAll ==
    ASSUME NEW S, IsFiniteSet(S), NEW order \in Orders(S)
    PROVE  /\ Cardinality(S) \in Nat
           /\ order \in [1..Cardinality(S) -> S]
           /\ {order[k] : k \in 1..Cardinality(S)} = S
  <1> DEFINE N == Cardinality(S)
  <1>1. N \in Nat  BY FS_CardinalityType
  <1>2. order \in [1..N -> S]  BY DEF Orders
  <1>3. order \in Injection(1..N, S)  BY <1>2 DEF Orders, Injection, IsInjective
  <1>4. Cardinality(1..N) = N  BY <1>1, FS_Interval
  <1>5. order \in Surjection(1..N, S)  BY <1>3, <1>4, FS_Injection
  <1>6. \A t \in S : \E k \in 1..N : order[k] = t  BY <1>5 DEF Surjection
  <1> QED  BY <1>1, <1>2, <1>6

\* Records that lie within a finite set of rows, none twice, and as many as there
\* are rows, are of all of them.
LEMMA Complete ==
    ASSUME NEW secrets \in Seq(Record), NEW rows, IsFiniteSet(rows), Singular(secrets),
           \A k \in DOMAIN secrets : secrets[k].row \in rows,
           Cardinality({secrets[k] : k \in DOMAIN secrets}) = Cardinality(rows)
    PROVE  {s.row : s \in {secrets[k] : k \in DOMAIN secrets}} = rows
  <1> DEFINE sealed == {secrets[k] : k \in DOMAIN secrets}
             g == [s \in sealed |-> s.row]
  <1>1. g \in [sealed -> rows]  OBVIOUS
  <1>2. \A a, b \in sealed : g[a] = g[b] => a = b  BY DEF Singular
  <1>3. g \in Injection(sealed, rows)  BY <1>1, <1>2 DEF Injection, IsInjective
  <1>4. g \in Surjection(sealed, rows)
    <2> HIDE DEF g
    <2> QED  BY <1>3, FS_Injection
  <1>5. \A t \in rows : \E s \in sealed : g[s] = t
    <2> HIDE DEF g, sealed
    <2> QED  BY <1>4 DEF Surjection
  <1>6. \A t \in rows : \E s \in sealed : s.row = t  BY <1>5
  <1>7. \A s \in sealed : s.row \in rows  OBVIOUS
  <1> QED  BY <1>6, <1>7

\* What backup create writes is a whole archive.
LEMMA ArchivedIsWhole ==
    ASSUME TypeInv, NEW i \in Installation, NEW order \in Orders(content[i])
    PROVE  LET f == Archived(i, [k \in DOMAIN order |-> [of |-> i, row |-> order[k]]]) IN
           FileOK(f) /\ Whole(f) /\ f.database.rows = content[i]
  <1> DEFINE S == content[i]
             N == Cardinality(S)
             secrets == [k \in DOMAIN order |-> [of |-> i, row |-> order[k]]]
             database == [of |-> i, rows |-> S, schema |-> "known"]
             f == Archived(i, secrets)
  <1>1. S \in SUBSET Row  BY ConstantTypes DEF TypeInv
  <1>2. IsFiniteSet(S)  BY <1>1, ConstantTypes, FS_Subset
  <1>3. N \in Nat /\ order \in [1..N -> S] /\ {order[k] : k \in 1..N} = S
    BY <1>2, OrderIsAll
  <1>4. i \in Maker  BY ConstantTypes
  <1>5. /\ secrets \in [1..N -> Record]
        /\ \A k \in 1..N : secrets[k].row = order[k] /\ secrets[k].of = i
    BY <1>1, <1>3, <1>4 DEF Record
  <1>6. database \in Database /\ database.rows = S /\ database.of = i /\ database.schema = "known"
    BY <1>1, <1>4 DEF Database
  <1>7. f = [entries |-> entryOrder, manifest |-> "valid", database |-> database, secrets |-> secrets,
             sums |-> [database |-> database, secrets |-> secrets], end |-> TRUE, trailing |-> FALSE]
    BY DEF Archived
  <1> HIDE DEF secrets, database, f, N
  <1>8. secrets \in Seq(Record) /\ Len(secrets) = N /\ DOMAIN secrets = 1..N
    BY <1>3, <1>5
  <1>9. {secrets[k].row : k \in DOMAIN secrets} = S  BY <1>3, <1>5, <1>8
  <1>10. FileOK(f)  BY <1>5, <1>6, <1>7, <1>8 DEF FileOK
  <1>11. Whole(f)  BY <1>6, <1>7, <1>8, <1>9 DEF Whole, N
  <1> QED  BY <1>6, <1>7, <1>10, <1>11 DEF f, secrets

LEMMA InitInv == Init => IInv
  <1> SUFFICES ASSUME Init  PROVE  IInv  OBVIOUS
  <1>1. FileOK(Empty)  BY DEF Empty, FileOK
  <1>2. TypeInv  BY <1>1, ConstantTypes DEF Init, TypeInv, Steps, Run, Inode
  <1>3. \A n \in Run : Kept(n)  BY ConstantTypes DEF Init, Kept, Run
  <1>4. Reading  BY ConstantTypes DEF Init, Reading, Resting
  <1> QED  BY <1>2, <1>3, <1>4 DEF IInv, Init, RestoredIsOneBackup

----------------------------------------------------------------------------
(* backup create                                                           *)

LEMMA BeginInv ==
    ASSUME IInv, NEW i \in Installation, Begin(i)
    PROVE  IInv'
  <1> DEFINE n == runs + 1
  <1>1. PICK order \in Orders(content[i]) :
          file' = [file EXCEPT ![n] = Archived(i, [k \in DOMAIN order |-> [of |-> i, row |-> order[k]]])]
    BY DEF Begin
  <1> DEFINE f == Archived(i, [k \in DOMAIN order |-> [of |-> i, row |-> order[k]]])
  <1>2. FileOK(f) /\ Whole(f) /\ f.database.rows = content[i]  BY ArchivedIsWhole DEF IInv
  <1> HIDE DEF f
  <1>3. file' = [file EXCEPT ![n] = f]  BY <1>1 DEF f
  <1>4. n \in Run /\ n \in Inode /\ runs' = n /\ 0..runs \subseteq 0..n
    BY ConstantTypes DEF IInv, TypeInv, Begin, Run, Inode
  <1>5. create' = [create EXCEPT ![n] = [pc |-> "closed", of |-> i]]  BY DEF Begin
  <1>6. UNCHANGED <<content, changes, synced, dest, durable, reader, restored, history>>
    BY DEF Begin
  <1>7. TypeInv'
    BY <1>2, <1>3, <1>4, <1>5, <1>6, ConstantTypes DEF IInv, TypeInv, Steps, Run, Inode, history
  <1>8. ASSUME NEW m \in Run \ touched  PROVE  Kept(m)'
    <2>1. CASE m = n
      <3>1. Written(m)'  BY <1>2, <1>3, <1>4, <1>5, <1>6, <2>1 DEF Written, IInv, TypeInv
      <3>2. create'[m].pc = "closed" /\ dest = None  BY <1>4, <1>5, <2>1 DEF IInv, TypeInv, Begin
      <3>3. m \notin announced
        BY <2>1, <1>4, <3>2, <1>8, ConstantTypes DEF IInv, Kept, Inode
      <3>4. dest' # m  BY <1>4, <1>6, <3>2, <2>1, ConstantTypes DEF Inode
      <3> QED  BY <3>1, <3>2, <3>3, <3>4, <1>6 DEF Kept, history
    <2>2. CASE m # n
      <3>1. file'[m] = file[m] /\ create'[m] = create[m]
        BY <1>3, <1>5, <2>2, <1>8 DEF IInv, TypeInv, Run, Inode
      <3> QED  BY <3>1, <1>6, <1>8 DEF IInv, Kept, Written, history
    <2> QED  BY <2>1, <2>2
  <1>9. Reading'
    <2>1. reader.inode # None => file'[reader.inode] = file[reader.inode]
      BY <1>3, <1>4 DEF IInv, TypeInv, Reading, Inode
    <2> QED  BY <2>1, <1>4, <1>6 DEF IInv, Reading
  <1> QED  BY <1>6, <1>7, <1>8, <1>9 DEF IInv, RestoredIsOneBackup, history

\* The other steps of an execution change its step, and what the file system keeps.
LEMMA CreateInv ==
    ASSUME IInv, NEW n \in Run,
           SyncTemporary(n) \/ VerifyTemporary(n) \/ PublishNoReplace(n) \/ SyncParent(n) \/ CreateFails(n)
    PROVE  IInv'
  <1>1. PICK pc \in Steps \ {"new"} : create' = [create EXCEPT ![n].pc = pc]
    BY DEF SyncTemporary, VerifyTemporary, PublishNoReplace, SyncParent, CreateFails, To, Steps
  <1>2. UNCHANGED <<content, runs, changes, file, reader, restored, touched>>
    BY DEF SyncTemporary, VerifyTemporary, PublishNoReplace, SyncParent, CreateFails, disk, history
  <1>3. create[n].pc # "new" /\ create[n].of \in Installation /\ n <= runs
    BY DEF SyncTemporary, VerifyTemporary, PublishNoReplace, SyncParent, CreateFails, At, IInv, TypeInv, Run
  <1>4. /\ DOMAIN create' = Run
        /\ \A m \in Run : create'[m].of = create[m].of /\ create'[m].pc = IF m = n THEN pc ELSE create[m].pc
        /\ create' \in [Run -> [pc : Steps, of : Installation \cup {None}]]
    BY <1>1 DEF IInv, TypeInv
  <1>5. /\ synced \subseteq synced' /\ synced' \subseteq synced \cup {n}
        /\ announced \subseteq announced' /\ announced' \subseteq announced \cup {n}
        /\ dest' = dest \/ (dest = None /\ dest' = n /\ durable = None)
        /\ durable' \in {durable, dest'}
    BY DEF SyncTemporary, VerifyTemporary, PublishNoReplace, SyncParent, CreateFails, disk, history, IInv, TypeInv
  <1>6. TypeInv'
    <2>1. n \in 0..runs /\ n \in Inode  BY <1>3, ConstantTypes DEF Run, Inode, IInv, TypeInv
    <2>2. \A m \in Run : create'[m].pc = "new" <=> m > runs  BY <1>1, <1>3, <1>4 DEF IInv, TypeInv
    <2> QED  BY <1>2, <1>3, <1>4, <1>5, <2>1, <2>2 DEF IInv, TypeInv
  <1>7. ASSUME NEW m \in Run \ touched  PROVE  Kept(m)'
    <2>1. Kept(m) /\ Written(m)' = Written(m)  BY <1>2, <1>4, <1>7 DEF IInv, Written
    <2>2. m # None /\ n # None  BY ConstantTypes DEF Run
    <2>3. CASE m # n
      <3>1. create'[m].pc = create[m].pc  BY <1>4, <2>3
      <3>2. m \in synced' <=> m \in synced  BY <1>5, <2>3
      <3>3. m \in announced' <=> m \in announced  BY <1>5, <2>3
      <3>4. dest' = m <=> dest = m
        BY <1>5, <2>1, <2>2, <2>3
      <3>5. create[m].pc = "published" => dest' = m  BY <2>1, <3>4 DEF Kept
      <3>6. m \in announced => dest' = m /\ durable' = m
        BY <2>1, <3>4, <1>5 DEF Kept
      <3> QED  BY <2>1, <3>1, <3>2, <3>3, <3>4, <3>5, <3>6 DEF Kept
    <2>4. CASE m = n
      <3>1. CASE SyncTemporary(n)
        BY <3>1, <2>1, <2>4, <1>4 DEF SyncTemporary, At, To, Kept, history, IInv, TypeInv
      <3>2. CASE VerifyTemporary(n)
        BY <3>2, <2>1, <2>4, <1>4 DEF VerifyTemporary, At, To, Kept, history, disk, IInv, TypeInv
      <3>3. CASE PublishNoReplace(n)
        BY <3>3, <2>1, <2>2, <2>4, <1>4 DEF PublishNoReplace, At, To, Kept, history, IInv, TypeInv
      <3>4. CASE SyncParent(n)
        BY <3>4, <2>1, <2>4, <1>4 DEF SyncParent, At, To, Kept, IInv, TypeInv
      <3>5. CASE CreateFails(n)
        BY <3>5, <2>1, <2>4, <1>4 DEF CreateFails, At, To, Kept, history, disk, IInv, TypeInv
      <3> QED  BY <3>1, <3>2, <3>3, <3>4, <3>5
    <2> QED  BY <2>3, <2>4
  <1> QED  BY <1>2, <1>6, <1>7 DEF IInv, Reading, RestoredIsOneBackup

----------------------------------------------------------------------------
(* backup verify and backup restore                                        *)

\* A second reading that has reached the authenticated end with every secret has
\* staged one backup.
LEMMA SealedIsOneBackup ==
    ASSUME IInv, Seal
    PROVE  OneBackup(reader.stage)
  <1> DEFINE f == file[reader.inode]
             sealed == {f.secrets[k] : k \in DOMAIN f.secrets}
  <1>1. reader.stage = Stage(f) /\ Read1(f) /\ EndReadable(f)
        /\ Cardinality(reader.stage.sealed) = Cardinality(reader.stage.database.rows)
    BY DEF Seal, Ended, IInv, Reading
  <1>2. reader.inode \in Inode  BY ConstantTypes DEF IInv, TypeInv, Reading, Seal, Ended, Inode
  <1>3. FileOK(f)  BY <1>2 DEF IInv, TypeInv
  <1> HIDE DEF f
  <1>4. reader.stage.database = f.database /\ reader.stage.sealed = sealed  BY <1>1 DEF Stage
  <1>5. f.database.rows \subseteq Row  BY <1>1 DEF Read1, Database
  <1>6. IsFiniteSet(f.database.rows)  BY <1>5, ConstantTypes, FS_Subset
  <1>7. {s.row : s \in sealed} = f.database.rows
    BY <1>1, <1>3, <1>4, <1>6, Complete DEF Read1, FileOK
  <1>8. \A s \in sealed : s.of = f.database.of  BY <1>1, <1>3 DEF EndReadable, FileOK
  <1> HIDE DEF sealed
  <1> QED  BY <1>4, <1>7, <1>8 DEF OneBackup

\* What a reading of all entries has looked at.
LEMMA EntriesRead ==
    ASSUME NEW f, FileOK(f), \A k \in DOMAIN entryOrder : EntryReadable(f, k)
    PROVE  f.database \in Database /\ Singular(f.secrets)
  <1>1. DOMAIN entryOrder = 1..4 /\ entryOrder[3] = "secrets" /\ entryOrder[1] # "secrets"  BY DEF entryOrder
  <1>2. Singular(f.secrets)  BY <1>1 DEF EntryReadable
  <1>3. 1 <= Len(f.entries)  BY <1>1 DEF EntryReadable
  <1>4. Len(<<>>) = 0  OBVIOUS
  <1>5. f.entries # <<>>  BY <1>3, <1>4
  <1> QED  BY <1>2, <1>5 DEF FileOK

LEMMA ReaderInv ==
    ASSUME IInv,
           (\E goal \in {"verify", "restore"} : Read(goal)) \/ OpenArchive \/ ReadEntries \/ FinishVerify
             \/ Seal \/ Activate \/ ReaderFails
    PROVE  IInv'
  <1>1. UNCHANGED <<content, runs, changes, create, file, synced, dest, durable, announced, touched>>
    BY DEF Read, OpenArchive, ReadEntries, FinishVerify, Seal, Activate, ReaderFails, disk, history
  <1>2. TypeInv' /\ \A n \in Run \ touched' : Kept(n)'
    BY <1>1 DEF IInv, TypeInv, Kept, Written
  <1>3. Reading' /\ RestoredIsOneBackup'
    <2>0. dest # None => dest \in 0..runs  BY DEF IInv, TypeInv
    <2>1. ASSUME NEW goal \in {"verify", "restore"}, Read(goal)  PROVE  Reading' /\ RestoredIsOneBackup'
      BY <2>1, <1>1, ConstantTypes DEF Read, Resting, IInv, Reading, RestoredIsOneBackup
    <2>2. CASE OpenArchive
      BY <2>2, <2>0, <1>1 DEF OpenArchive, IInv, Reading, RestoredIsOneBackup
    <2>3. CASE ReadEntries
      <3> DEFINE f == file[reader.inode]
      <3>1. reader.inode \in Inode  BY <2>3, ConstantTypes DEF IInv, TypeInv, Reading, ReadEntries, Inode
      <3>2. FileOK(f)  BY <3>1 DEF IInv, TypeInv
      <3>3. f.database \in Database /\ Singular(f.secrets)  BY <2>3, <3>2, EntriesRead DEF ReadEntries
      <3>4. reader.pass = 2 => Read1(f)  BY <2>3, <3>3 DEF ReadEntries, Read1
      <3>5. reader' = [reader EXCEPT !.pc = "ending", !.stage = IF reader.pass = 2 THEN Stage(f) ELSE None]
            /\ UNCHANGED <<runs, file, restored>> /\ reader.pc = "reading"
        BY <2>3 DEF ReadEntries, disk
      <3> HIDE DEF f
      <3>6. file'[reader'.inode] = f  BY <3>5 DEF f, IInv, Reading
      <3> QED  BY <3>4, <3>5, <3>6 DEF IInv, Reading, RestoredIsOneBackup
    <2>4. CASE FinishVerify
      <3>1. CASE reader.goal = "verify"
        BY <2>4, <3>1, <1>1, ConstantTypes DEF FinishVerify, Resting, IInv, Reading, RestoredIsOneBackup
      <3>2. CASE reader.goal # "verify"
        BY <2>4, <3>2, <1>1, ConstantTypes DEF FinishVerify, Ended, IInv, Reading, RestoredIsOneBackup
      <3> QED  BY <3>1, <3>2
    <2>5. CASE Seal
      <3>1. OneBackup(reader.stage)  BY <2>5, SealedIsOneBackup
      <3>2. reader' = [reader EXCEPT !.pc = "sealed"] /\ UNCHANGED <<runs, restored>>
            /\ reader.pc = "ending"
        BY <2>5 DEF Seal, Ended
      <3> QED  BY <3>1, <3>2 DEF IInv, Reading, RestoredIsOneBackup
    <2>6. CASE Activate
      BY <2>6, <1>1, ConstantTypes DEF Activate, Rest, Resting, IInv, Reading, RestoredIsOneBackup, OneBackup
    <2>7. CASE ReaderFails
      BY <2>7, <1>1, ConstantTypes DEF ReaderFails, Rest, Resting, IInv, Reading, RestoredIsOneBackup
    <2> QED  BY <2>1, <2>2, <2>3, <2>4, <2>5, <2>6, <2>7
  <1> QED  BY <1>1, <1>2, <1>3 DEF IInv

----------------------------------------------------------------------------
(* The operator and the file system                                        *)

\* Files that the operator leaves alone stay as they are.
LEMMA RemoveInv == IInv /\ Remove => IInv'
  <1> SUFFICES ASSUME IInv, Remove  PROVE  IInv'  OBVIOUS
  <1>1. TypeInv'  BY ConstantTypes DEF Remove, IInv, TypeInv, Inode
  <1>2. \A n \in Run \ touched' : Kept(n)'
    BY ConstantTypes DEF Remove, IInv, Kept, Written, Run, TypeInv
  <1> QED  BY <1>1, <1>2 DEF Remove, IInv, Reading, RestoredIsOneBackup

LEMMA ReplaceInv ==
    ASSUME IInv, NEW f \in Foreign, Replace(f)
    PROVE  IInv'
  <1>1. FileOK(f) /\ 0 \in Inode /\ 0 \in 0..runs /\ Run \subseteq Inode \ {0}
    BY ConstantTypes DEF Run, Inode, IInv, TypeInv
  <1>2. file' = [file EXCEPT ![0] = f] /\ dest' = 0 /\ durable' = 0 /\ synced' = synced \cup {0}
        /\ touched' = touched \cup ({dest} \ {None}) /\ changes < MaxChanges /\ changes' = changes + 1
        /\ UNCHANGED <<content, runs, create, reader, restored, announced>>
        /\ dest # 0 /\ reader.inode # 0
    BY DEF Replace
  <1>3. touched' \subseteq Inode
    <2>1. 0..runs \subseteq Inode  BY ConstantTypes DEF Inode, IInv, TypeInv
    <2> QED  BY <1>2, <2>1 DEF IInv, TypeInv
  <1>4. TypeInv'  BY <1>1, <1>2, <1>3, ConstantTypes DEF IInv, TypeInv
  <1>5. ASSUME NEW n \in Run \ touched'  PROVE  Kept(n)'
    <2>1. file'[n] = file[n] /\ n # 0 /\ n # None /\ n \notin touched
      BY <1>1, <1>2, <1>5, ConstantTypes DEF IInv, TypeInv, Run
    <2>2. dest # n  BY <1>2, <1>5, <2>1
    <2>3. Kept(n)  BY <2>1, <1>5 DEF IInv
    <2> QED  BY <1>2, <2>1, <2>2, <2>3 DEF Kept, Written
  <1>6. Reading'
    <2>1. reader.inode # None => file'[reader.inode] = file[reader.inode]
      BY <1>2, ConstantTypes DEF IInv, TypeInv, Reading, Inode
    <2> QED  BY <2>1, <1>2 DEF IInv, Reading
  <1> QED  BY <1>2, <1>4, <1>5, <1>6 DEF IInv, RestoredIsOneBackup

LEMMA OverwriteInv ==
    ASSUME IInv, NEW f \in Damage, Overwrite(f)
    PROVE  IInv'
  <1>1. FileOK(f) /\ dest \in Inode  BY ConstantTypes DEF Overwrite, Inode, IInv, TypeInv
  <1>2. file' = [file EXCEPT ![dest] = f] /\ touched' = touched \cup {dest}
        /\ changes < MaxChanges /\ changes' = changes + 1
        /\ reader' = [reader EXCEPT !.intact = reader.intact /\ reader.inode # dest]
        /\ UNCHANGED <<content, runs, create, synced, dest, durable, restored, announced>>
    BY DEF Overwrite
  <1>4. TypeInv'  BY <1>1, <1>2, ConstantTypes DEF IInv, TypeInv
  <1>5. ASSUME NEW n \in Run \ touched'  PROVE  Kept(n)'
    <2>1. file'[n] = file[n] /\ n \notin touched
      BY <1>1, <1>2, <1>5 DEF IInv, TypeInv, Run, Inode
    <2>2. Kept(n)  BY <2>1, <1>5 DEF IInv
    <2> QED  BY <1>2, <2>1, <2>2 DEF Kept, Written
  <1>6. Reading'
    <2>1. reader'.intact => reader.intact /\ reader.inode # dest
      BY <1>2 DEF IInv, Reading
    <2>2. reader'.intact \in BOOLEAN  BY <1>2 DEF IInv, Reading
    <2>3. reader.inode # dest => file'[reader.inode] = file[reader.inode]
      BY <1>1, <1>2 DEF IInv, TypeInv
    <2>4. /\ DOMAIN reader' = DOMAIN reader /\ reader'.pc = reader.pc /\ reader'.goal = reader.goal
          /\ reader'.pass = reader.pass /\ reader'.inode = reader.inode /\ reader'.stage = reader.stage
      BY <1>2 DEF IInv, Reading
    <2> QED  BY <1>2, <2>1, <2>2, <2>3, <2>4 DEF IInv, Reading
  <1> QED  BY <1>2, <1>4, <1>5, <1>6 DEF IInv, RestoredIsOneBackup

LEMMA PowerLossInv == IInv /\ PowerLoss => IInv'
  <1> SUFFICES ASSUME IInv, PowerLoss  PROVE  IInv'  OBVIOUS
  <1>1. /\ dest' \in {dest, durable} /\ durable' = dest' /\ synced' = 0..runs
        /\ UNCHANGED <<content, runs, changes, restored, announced, touched>> /\ reader' = Resting
    BY DEF PowerLoss, Rest, history
  <1>2. \A n \in Run : create'[n].of = create[n].of
                      /\ create'[n].pc = IF n <= runs /\ create[n].pc # "done" THEN "failed" ELSE create[n].pc
    BY DEF PowerLoss, IInv, TypeInv
  <1>3. create' \in [Run -> [pc : Steps, of : Installation \cup {None}]]
    BY DEF PowerLoss, IInv, TypeInv, Steps
  <1>4. DOMAIN file' = Inode /\ \A n \in Inode : FileOK(file'[n]) /\ (n \in synced => file'[n] = file[n])
    BY DEF PowerLoss, IInv, TypeInv, FileOK
  <1>5. TypeInv'
    <2>1. 0..runs \subseteq Inode  BY ConstantTypes DEF Inode, IInv, TypeInv
    <2>2. \A n \in Run : create'[n].pc = "new" <=> n > runs
      BY <1>2 DEF IInv, TypeInv, Run
    <2> QED  BY <1>1, <1>2, <1>3, <1>4, <2>1, <2>2 DEF IInv, TypeInv
  <1>6. ASSUME NEW n \in Run \ touched'  PROVE  Kept(n)'
    <2>1. Kept(n) /\ n # None  BY <1>1, <1>6, ConstantTypes DEF IInv, Run
    <2>2. create'[n].pc \in {"closed", "synced", "verified", "published", "done"} =>
            create[n].pc = "done" /\ create'[n].pc = "done"
      BY <1>2, <1>6 DEF IInv, TypeInv, Run
    <2>3. dest' = n => dest = n  BY <1>1, <2>1 DEF IInv, TypeInv
    <2>4. n \in synced => Written(n)' = Written(n)
      BY <1>1, <1>2, <1>4, <1>6 DEF Written, Run, Inode
    <2>5. n \in synced /\ n <= runs => n \in synced'  BY <1>1, <1>6 DEF Run, IInv, TypeInv
    <2>6. create[n].pc = "done" \/ dest = n => n <= runs
      BY <1>6, <2>1 DEF IInv, TypeInv, Run
    <2>7. n \in announced => dest' = n /\ durable' = n  BY <1>1, <2>1 DEF Kept
    <2> QED  BY <1>1, <2>1, <2>2, <2>3, <2>4, <2>5, <2>6, <2>7 DEF Kept
  <1>7. Reading'  BY <1>1, ConstantTypes DEF Reading, Resting
  <1> QED  BY <1>1, <1>5, <1>6, <1>7 DEF IInv, RestoredIsOneBackup

LEMMA StepInv == IInv /\ [Next]_vars => IInv'
  <1> SUFFICES ASSUME IInv, [Next]_vars  PROVE  IInv'  OBVIOUS
  <1>1. ASSUME NEW i \in Installation, Begin(i)  PROVE  IInv'  BY <1>1, BeginInv
  <1>2. ASSUME NEW n \in Run,
               SyncTemporary(n) \/ VerifyTemporary(n) \/ PublishNoReplace(n) \/ SyncParent(n) \/ CreateFails(n)
        PROVE  IInv'
    BY <1>2, CreateInv
  <1>3. CASE (\E goal \in {"verify", "restore"} : Read(goal)) \/ OpenArchive \/ ReadEntries \/ FinishVerify
               \/ Seal \/ Activate \/ ReaderFails
    BY <1>3, ReaderInv
  <1>4. CASE Remove  BY <1>4, RemoveInv
  <1>5. ASSUME NEW f \in Foreign, Replace(f)  PROVE  IInv'  BY <1>5, ReplaceInv
  <1>6. ASSUME NEW f \in Damage, Overwrite(f)  PROVE  IInv'  BY <1>6, OverwriteInv
  <1>7. CASE PowerLoss  BY <1>7, PowerLossInv
  <1>8. CASE UNCHANGED vars
    <2>1. UNCHANGED <<content, runs, changes, create, file, synced, dest, durable, reader, restored,
                      announced, touched>>
      BY <1>8 DEF vars, disk, history
    <2> QED  BY <2>1 DEF IInv, TypeInv, Kept, Written, Reading, RestoredIsOneBackup
  <1> QED  BY <1>1, <1>2, <1>3, <1>4, <1>5, <1>6, <1>7, <1>8 DEF Next

----------------------------------------------------------------------------
(* Theorems                                                                *)

\* What files hold, what became of every execution's file and what a reader has
\* staged, through every step of the commands, the operator and a power loss.
THEOREM ArchiveInvariance == Spec => []IInv
  BY InitInv, StepInv, PTL DEF Spec

\* Executions, names and the reader are well formed (a second reading stages, and
\* only one that was read to its end is sealed).
THEOREM ArchiveTypeCorrect == Spec => []TypeOK
  <1>1. IInv => TypeOK
    <2> SUFFICES ASSUME IInv  PROVE  TypeOK  OBVIOUS
    <2>1. 0..runs \subseteq Inode  BY ConstantTypes DEF Inode, IInv, TypeInv
    <2>2. \A n \in Run : create[n].pc \in Steps  BY DEF IInv, TypeInv
    <2> QED  BY <2>1, <2>2 DEF IInv, TypeInv, Reading, TypeOK, Steps
  <1> QED  BY <1>1, ArchiveInvariance, PTL

\* The destination never names a part of a backup: the file was synced before it was
\* renamed (SyncTemporary, PublishNoReplace).
THEOREM PublishedWhole == Spec => []PublishedIsWhole
  <1>1. IInv => PublishedIsWhole  BY DEF IInv, Kept, Written, PublishedIsWhole
  <1> QED  BY <1>1, ArchiveInvariance, PTL

\* Success is announced after the directory was synced, and a name that is taken is
\* not taken again (PublishNoReplace, SyncParent).
THEOREM AnnouncedStays == Spec => []AnnouncedSurvives
  <1>1. IInv => AnnouncedSurvives
    <2>1. TypeInv => announced \subseteq Run  BY DEF TypeInv
    <2> QED  BY <2>1 DEF IInv, Kept, AnnouncedSurvives
  <1> QED  BY <1>1, ArchiveInvariance, PTL

\* Whatever happens to the file between and during the two readings of restore, what
\* it activates is one backup (ReadEntries, Seal).
THEOREM RestoredOne == Spec => []RestoredIsOneBackup
  BY ArchiveInvariance, PTL DEF IInv
=============================================================================
