------------------------- MODULE GenerationsProofs -------------------------
(***************************************************************************)
(* Proofs about Generations, for any sets of generations, secrets, tokens  *)
(* and credentials and any number of crashes, power losses and I/O errors, *)
(* on a file system whose journal makes earlier directory changes durable  *)
(* with any sync (Journaled).                                              *)
(*                                                                         *)
(* The names in play are current, its durable copy, and the recorded       *)
(* predecessors.  Each of them is settled: its directory is there, now and *)
(* after a power loss, and its database is complete.  The generation that  *)
(* a restore builds is none of them until it is linked, so that its        *)
(* removal takes nothing away (Apart); and by then its directory is        *)
(* durable, since the marker's sync came first.                            *)
(***************************************************************************)
EXTENDS Generations, TLAPS

Prepared == {"WriteDatabase", "Secrets", "Marker", "Link"}

Names == dirs \subseteq names /\ dirsDisk \subseteq names

\* A layout that current may select, now or after a power loss.
Settled(l) ==
    /\ l \in Gen => l \in dirs /\ l \in dirsDisk
    /\ IF db[l] = None THEN l = Legacy ELSE db[l].foreign = {}

InPlay ==
    /\ Settled(current) /\ Settled(currentDisk)
    /\ \A g \in Gen : marker[g] # None => Settled(marker[g]) /\ db[marker[g]] # None

\* The generation under construction, with what is known of it at each step.
Apart ==
    /\ pc \in Prepared \cup {"SyncLink"} => building \in dirs
    /\ pc = "WriteDatabase" => archive # None
    /\ pc \in Prepared =>
         /\ building # current /\ building # currentDisk
         /\ \A g \in Gen : marker[g] # building
    /\ pc = "Secrets" => tx # None
    /\ pc \in {"Marker", "Link"} => db[building] # None /\ db[building].foreign = {}
    /\ pc = "Link" => building \in dirsDisk
    /\ pc = "Switch" => current # Legacy /\ marker[current] # None

\* No credential that died opens what may be served next.
Buried ==
    /\ dead \subseteq issued
    /\ pc = "Serving" => currentDisk = current /\ db[current] # None
    /\ \A l \in {current, currentDisk} : db[l] # None => Accepted(db[l]) \cap dead = {}
    /\ pc \in {"Marker", "Link"} => Accepted(db[building]) = {}
    /\ pc = "Switch" => Accepted(db[marker[current]]) = {}

IInv == TypeOK /\ Names /\ InPlay /\ Apart /\ Buried

LEMMA Constants ==
    /\ Legacy \notin Gen /\ None \notin Gen /\ Legacy # None
    /\ Unissued \notin Cred /\ Revoked \notin Cred /\ Unissued # Revoked
    /\ None \notin Database /\ MaxFaults \in Nat
  BY GenerationsAssumption, NoneAssumption

----------------------------------------------------------------------------
(* Databases                                                               *)

LEMMA FreshDatabase ==
    Fresh \in Database /\ Fresh.foreign = {} /\ Accepted(Fresh) = {}
  BY DEF Fresh, Database, Accepted

LEMMA InvalidatedDatabase ==
    ASSUME NEW d \in Database
    PROVE  /\ Invalidated(d) \in Database /\ Invalidated(d).foreign = d.foreign
           /\ Accepted(Invalidated(d)) = {}
  <1> DEFINE e == Invalidated(d)
  <1>1. e.sessions = {} /\ e.tokens = [t \in Token |-> Unissued] /\ e.foreign = d.foreign
    BY DEF Invalidated, Database
  <1>2. e \in Database  BY DEF Invalidated, Database
  <1> HIDE DEF e
  <1>3. Accepted(e) = {}  BY <1>1 DEF Accepted
  <1> QED  BY <1>1, <1>2, <1>3 DEF e

LEMMA SessionsOnly ==
    ASSUME NEW d \in Database, NEW S \in SUBSET Cred
    PROVE  LET e == [d EXCEPT !.sessions = S] IN
           /\ e \in Database /\ e.foreign = d.foreign
           /\ Accepted(e) \subseteq Accepted(d) \cup S
  <1> DEFINE e == [d EXCEPT !.sessions = S]
  <1>1. e \in Database /\ e.foreign = d.foreign /\ e.sessions = S /\ e.tokens = d.tokens  BY DEF Database
  <1> HIDE DEF e
  <1>2. Accepted(e) \subseteq Accepted(d) \cup S  BY <1>1 DEF Accepted
  <1> QED  BY <1>1, <1>2 DEF e

LEMMA TokensOnly ==
    ASSUME NEW d \in Database, NEW t \in Token, NEW c \in Cred \cup {Unissued, Revoked}
    PROVE  LET e == [d EXCEPT !.tokens[t] = c] IN
           /\ e \in Database /\ e.foreign = d.foreign
           /\ Accepted(e) \subseteq Accepted(d) \cup ({c} \ {Unissued, Revoked})
  <1> DEFINE T == [d.tokens EXCEPT ![t] = c]
             e == [d EXCEPT !.tokens = T]
  <1>1. T \in [Token -> Cred \cup {Unissued, Revoked}] /\ \A u \in Token : T[u] \in {d.tokens[u], c}
    BY DEF Database
  <1>2. e = [d EXCEPT !.tokens[t] = c]  OBVIOUS
  <1> HIDE DEF T
  <1>3. e \in Database /\ e.foreign = d.foreign /\ e.sessions = d.sessions /\ e.tokens = T
    BY <1>1 DEF Database
  <1> HIDE DEF e
  <1>4. Accepted(e) \subseteq Accepted(d) \cup ({c} \ {Unissued, Revoked})
    BY <1>1, <1>3 DEF Accepted
  <1>5. e \in Database /\ e.foreign = d.foreign
        /\ Accepted(e) \subseteq Accepted(d) \cup ({c} \ {Unissued, Revoked})
    BY <1>3, <1>4
  <1> QED  BY <1>2, <1>5

LEMMA ForeignOnly ==
    ASSUME NEW d \in Database, NEW S \in SUBSET Secret
    PROVE  [d EXCEPT !.foreign = S] \in Database
  BY DEF Database

LEMMA InitInv == Init => IInv
  <1> SUFFICES ASSUME Init  PROVE  IInv  OBVIOUS
  <1>1. TypeOK  BY Constants, FreshDatabase DEF Init, TypeOK, Layout, Owners
  <1>2. InPlay  BY Constants DEF Init, InPlay, Settled, Layout
  <1> QED  BY <1>1, <1>2, Constants DEF Init, IInv, Names, Apart, Buried, Prepared, Layout

----------------------------------------------------------------------------
(* The server                                                              *)

LEMMA StartServerInv ==
    ASSUME Journaled, IInv, StartServer
    PROVE  IInv'
  <1>1. /\ current \in Layout /\ db \in [Layout -> Database \cup {None}]
        /\ db' = IF db[current] = None THEN [db EXCEPT ![current] = Fresh] ELSE db
        /\ dead' = dead \cup (issued \ Accepted(db'[current]))
        /\ pc' = "Serving" /\ pc = "Free" /\ currentDisk' = current
        /\ UNCHANGED <<dirs, current, marker, archive, building, tx, names, issued, revoked, faults>>
        /\ dirsDisk' = dirs \/ dirsDisk' = dirsDisk
    BY DEF StartServer, SyncRoot, SyncBelow, work, IInv, TypeOK
  <1>2. dirsDisk' = dirs
    BY DEF StartServer, SyncRoot, SyncBelow
  <1>3. /\ db' \in [Layout -> Database \cup {None}]
        /\ db'[current] # None /\ db'[current].foreign = {}
        /\ \A l \in Layout : l # current => db'[l] = db[l]
        /\ db[current] # None => db' = db
    BY <1>1, FreshDatabase, Constants DEF IInv, InPlay, Settled
  <1>4. TypeOK'  BY <1>1, <1>2, <1>3 DEF IInv, TypeOK, Owners
  <1>5. InPlay'
    <2>1. \A l \in Layout : Settled(l) => Settled(l)'
      BY <1>1, <1>2, <1>3, Constants DEF Settled, Layout
    <2>2. \A g \in Gen : marker[g] # None => marker[g] \in Layout  BY DEF IInv, TypeOK
    <2> QED  BY <1>1, <1>3, <2>1, <2>2 DEF IInv, InPlay
  <1>6. Accepted(db'[current]) \cap dead = {}
    BY <1>1, <1>3, FreshDatabase DEF IInv, Buried
  <1>7. Buried'  BY <1>1, <1>3, <1>6 DEF IInv, Buried
  <1> QED  BY <1>1, <1>2, <1>4, <1>5, <1>7 DEF IInv, Names, Apart, Prepared

LEMMA ServeInv ==
    ASSUME IInv, pc = "Serving", NEW d \in Database, d.foreign = db[current].foreign, Serve(d),
           issued \subseteq issued', issued' \subseteq Cred, UNCHANGED revoked,
           Accepted(d) \subseteq Accepted(db[current]) \cup (issued' \ issued)
    PROVE  IInv'
  <1>1. /\ db' = [db EXCEPT ![current] = d]
        /\ dead' = dead \cup (issued \ Accepted(d))
        /\ UNCHANGED <<dirs, dirsDisk, current, currentDisk, marker, archive, pc, building, tx, names, faults>>
    BY DEF Serve, dirVars, work
  <1>2. current \in Layout /\ currentDisk = current /\ db[current] # None  BY DEF IInv, TypeOK, Buried
  <1>3. /\ db' \in [Layout -> Database \cup {None}]
        /\ db'[current] = d /\ d # None
        /\ \A l \in Layout : l # current => db'[l] = db[l]
    BY <1>1, <1>2, Constants DEF IInv, TypeOK
  <1>4. TypeOK'  BY <1>1, <1>3 DEF IInv, TypeOK
  <1>5. InPlay'
    <2>1. \A l \in Layout : Settled(l) => Settled(l)'
      BY <1>1, <1>2, <1>3 DEF Settled
    <2>2. \A g \in Gen : marker[g] # None => marker[g] \in Layout  BY DEF IInv, TypeOK
    <2> QED  BY <1>1, <1>2, <1>3, <2>1, <2>2 DEF IInv, InPlay
  <1>6. Accepted(d) \cap dead' = {}
    BY <1>1, <1>2 DEF IInv, Buried
  <1>7. Buried'
    BY <1>1, <1>2, <1>3, <1>6 DEF IInv, Buried
  <1> QED  BY <1>1, <1>4, <1>5, <1>7 DEF IInv, Names, Apart, Prepared

LEMMA ServerInv ==
    ASSUME Journaled, IInv, Server
    PROVE  IInv'
  <1>0. pc = "Serving" => current \in Layout /\ db[current] \in Database  BY DEF IInv, TypeOK, Buried
  <1>1. CASE StartServer  BY <1>1, StartServerInv
  <1>2. CASE StopServer
    <2>1. pc' = "Free" /\ building' = None /\ tx' = None
          /\ UNCHANGED <<dirs, dirsDisk, current, currentDisk, marker, db, archive, names, issued, dead, revoked, faults>>
      BY <1>2 DEF StopServer, Release, dirVars, history
    <2> QED  BY <2>1 DEF IInv, TypeOK, Owners, Names, InPlay, Settled, Apart, Buried, Prepared
  <1>3. ASSUME NEW c \in Cred, Login(c)  PROVE  IInv'
    <2>1. db[current].sessions \cup {c} \in SUBSET Cred  BY <1>0, <1>3 DEF Login, Database
    <2>2. issued' = issued \cup {c} /\ c \notin issued /\ pc = "Serving" /\ UNCHANGED revoked
          /\ Serve([db[current] EXCEPT !.sessions = db[current].sessions \cup {c}])
      BY <1>3 DEF Login
    <2>3. db[current].sessions \ {Unissued, Revoked} \subseteq Accepted(db[current])  BY DEF Accepted
    <2> DEFINE S == db[current].sessions \cup {c}
               d == [db[current] EXCEPT !.sessions = S]
    <2>4. d \in Database /\ d.foreign = db[current].foreign /\ Accepted(d) \subseteq Accepted(db[current]) \cup S
      BY <1>0, <2>1, <2>2, SessionsOnly
    <2>5. S \subseteq Accepted(db[current]) \cup {c}
      BY <2>1, <2>3, Constants
    <2>6. issued' \subseteq Cred  BY <2>2 DEF IInv, TypeOK
    <2>7. Serve(d)  BY <2>2
    <2> HIDE DEF d, S
    <2>8. Accepted(d) \subseteq Accepted(db[current]) \cup (issued' \ issued)  BY <2>2, <2>4, <2>5
    <2> QED  BY <2>2, <2>4, <2>6, <2>7, <2>8, ServeInv
  <1>4. ASSUME NEW c \in Cred, Logout(c)  PROVE  IInv'
    <2> DEFINE S == db[current].sessions \ {c}
               d == [db[current] EXCEPT !.sessions = S]
    <2>1. S \in SUBSET Cred  BY <1>0, <1>4 DEF Logout, Database
    <2>2. pc = "Serving" /\ UNCHANGED <<issued, revoked>> /\ Serve(d)  BY <1>4 DEF Logout
    <2>3. S \subseteq Accepted(db[current])  BY <2>1, Constants DEF Accepted
    <2>4. d \in Database /\ d.foreign = db[current].foreign /\ Accepted(d) \subseteq Accepted(db[current]) \cup S
      BY <1>0, <2>1, <2>2, SessionsOnly
    <2>5. issued' \subseteq Cred  BY <2>2 DEF IInv, TypeOK
    <2> HIDE DEF d, S
    <2> QED  BY <2>2, <2>3, <2>4, <2>5, ServeInv
  <1>5. ASSUME NEW c \in Cred, NEW t \in Token, IssueOrRotate(t, c)  PROVE  IInv'
    <2> DEFINE d == [db[current] EXCEPT !.tokens[t] = c]
    <2>1. pc = "Serving" /\ issued' = issued \cup {c} /\ c \notin issued /\ UNCHANGED revoked /\ Serve(d)
      BY <1>5 DEF IssueOrRotate
    <2>2. d \in Database /\ d.foreign = db[current].foreign
          /\ Accepted(d) \subseteq Accepted(db[current]) \cup ({c} \ {Unissued, Revoked})
      BY <1>0, <2>1, TokensOnly
    <2>3. issued' \subseteq Cred  BY <2>1 DEF IInv, TypeOK
    <2> HIDE DEF d
    <2>4. Accepted(d) \subseteq Accepted(db[current]) \cup (issued' \ issued)  BY <2>1, <2>2
    <2> QED  BY <2>1, <2>2, <2>3, <2>4, ServeInv
  <1>6. ASSUME NEW t \in Token, Revoke(t)  PROVE  IInv'
    <2> DEFINE d == [db[current] EXCEPT !.tokens[t] = Revoked]
    <2>1. pc = "Serving" /\ UNCHANGED <<issued, revoked>> /\ Serve(d)  BY <1>6 DEF Revoke
    <2>2. d \in Database /\ d.foreign = db[current].foreign
          /\ Accepted(d) \subseteq Accepted(db[current]) \cup ({Revoked} \ {Unissued, Revoked})
      BY <1>0, <2>1, TokensOnly
    <2>3. issued' \subseteq Cred  BY <2>1 DEF IInv, TypeOK
    <2> HIDE DEF d
    <2>4. Accepted(d) \subseteq Accepted(db[current]) \cup (issued' \ issued)  BY <2>2
    <2> QED  BY <2>1, <2>2, <2>3, <2>4, ServeInv
  <1> QED  BY <1>1, <1>2, <1>3, <1>4, <1>5, <1>6 DEF Server

----------------------------------------------------------------------------
(* backup create and backup restore                                        *)

LEMMA CreateBackupInv == IInv /\ CreateBackup => IInv'
  <1> SUFFICES ASSUME IInv, CreateBackup  PROVE  IInv'  OBVIOUS
  <1>1. /\ archive' = db[current] /\ revoked' \subseteq Token /\ pc = "Free"
        /\ UNCHANGED <<dirs, dirsDisk, current, currentDisk, marker, db, pc, building, tx, names, issued, dead, faults>>
    BY DEF CreateBackup, dirVars, work
  <1>2. archive' \in Database \cup {None}  BY <1>1 DEF IInv, TypeOK
  <1> QED  BY <1>1, <1>2 DEF IInv, TypeOK, Names, InPlay, Settled, Apart, Buried, Prepared

LEMMA BeginRestoreInv ==
    ASSUME IInv, NEW g \in Gen, BeginGenerationRestore(g)
    PROVE  IInv'
  <1>1. /\ pc = "Free" /\ archive # None /\ g \notin names
        /\ dirs' = dirs \cup {g} /\ names' = names \cup {g} /\ building' = g /\ pc' = "WriteDatabase"
        /\ UNCHANGED <<dirsDisk, current, currentDisk, marker, db, archive, tx, issued, dead, revoked, faults>>
    BY DEF BeginGenerationRestore, history
  <1>2. \A l \in Layout : Settled(l) => l # g  BY <1>1, Constants DEF IInv, Names, Settled
  <1>3. \A l \in Layout : Settled(l) => Settled(l)'  BY <1>1 DEF Settled
  <1>4. \A h \in Gen : marker[h] # None => marker[h] \in Layout  BY DEF IInv, TypeOK
  <1>5. current \in Layout /\ currentDisk \in Layout  BY DEF IInv, TypeOK
  <1>6. InPlay'  BY <1>1, <1>3, <1>4, <1>5 DEF IInv, InPlay
  <1>7. Apart'  BY <1>1, <1>2, <1>4, <1>5, Constants DEF IInv, InPlay, Apart, Prepared
  <1> QED  BY <1>1, <1>6, <1>7 DEF IInv, TypeOK, Owners, Names, Buried

\* A change of the database under construction disturbs no layout in play.
LEMMA BuildInv ==
    ASSUME IInv, pc \in Prepared, NEW d \in Database, db' = [db EXCEPT ![building] = d],
           UNCHANGED <<dirs, current, currentDisk, marker>>, dirsDisk \subseteq dirsDisk'
    PROVE  /\ building \in Layout /\ db' \in [Layout -> Database \cup {None}] /\ db'[building] = d
           /\ db'[current] = db[current] /\ db'[currentDisk] = db[currentDisk]
           /\ InPlay'
  <1>1. building \in Gen /\ building # current /\ building # currentDisk
        /\ \A g \in Gen : marker[g] # building
    BY Constants DEF IInv, TypeOK, Apart, Prepared
  <1>2. building \in Layout /\ db' \in [Layout -> Database \cup {None}] /\ db'[building] = d
        /\ \A l \in Layout : l # building => db'[l] = db[l]
    BY <1>1 DEF IInv, TypeOK, Layout
  <1>3. \A l \in Layout : l # building /\ Settled(l) => Settled(l)'
    BY <1>2 DEF Settled
  <1>4. \A h \in Gen : marker[h] # None => marker[h] \in Layout  BY DEF IInv, TypeOK
  <1>5. current \in Layout /\ currentDisk \in Layout  BY DEF IInv, TypeOK
  <1> QED  BY <1>1, <1>2, <1>3, <1>4, <1>5 DEF IInv, InPlay

LEMMA WriteDatabaseInv == Journaled /\ IInv /\ WriteDatabase => IInv'
  <1> SUFFICES ASSUME Journaled, IInv, WriteDatabase  PROVE  IInv'  OBVIOUS
  <1> DEFINE d == [archive EXCEPT !.foreign = Secret]
  <1>1. d \in Database  BY ForeignOnly DEF IInv, TypeOK, Apart, WriteDatabase
  <1>2. /\ pc = "WriteDatabase" /\ tx' = d /\ db' = [db EXCEPT ![building] = d] /\ pc' = "Secrets"
        /\ currentDisk' = current /\ dirsDisk' = dirs
        /\ UNCHANGED <<dirs, current, marker, archive, building, names, issued, dead, revoked, faults>>
    BY DEF WriteDatabase, SyncBelow, history
  <1> HIDE DEF d
  <1>3. building \in Gen /\ building # current /\ \A g \in Gen : marker[g] # building
    BY <1>2, Constants DEF IInv, TypeOK, Apart, Prepared
  <1>4. db' \in [Layout -> Database \cup {None}] /\ \A l \in Layout : l # building => db'[l] = db[l]
    BY <1>1, <1>2, <1>3 DEF IInv, TypeOK, Layout
  <1>5. \A l \in Layout : l # building /\ Settled(l) => Settled(l)'
    BY <1>2, <1>4 DEF Settled
  <1>6. \A h \in Gen : marker[h] # None => marker[h] \in Layout  BY DEF IInv, TypeOK
  <1>7. current \in Layout  BY DEF IInv, TypeOK
  <1>8. InPlay'  BY <1>2, <1>3, <1>4, <1>5, <1>6, <1>7 DEF IInv, InPlay
  <1>9. Buried'  BY <1>2, <1>3, <1>4, <1>7 DEF IInv, Buried
  <1>10. Apart'  BY <1>1, <1>2, <1>3, Constants DEF IInv, Apart, Prepared
  <1> QED  BY <1>1, <1>2, <1>4, <1>8, <1>9, <1>10 DEF IInv, TypeOK, Owners, Names

LEMMA SecretInv ==
    ASSUME IInv, NEW s \in Secret, RestoreSecret(s)
    PROVE  IInv'
  <1>1. /\ pc = "Secrets" /\ tx' = [tx EXCEPT !.foreign = tx.foreign \ {s}]
        /\ UNCHANGED <<dirs, dirsDisk, current, currentDisk, marker, db, archive, pc, building, names,
                       issued, dead, revoked, faults>>
    BY DEF RestoreSecret, dirVars, history
  <1>2. tx' \in Database
    <2>1. tx \in Database  BY <1>1 DEF IInv, TypeOK, Apart
    <2>2. tx.foreign \ {s} \in SUBSET Secret  BY <2>1 DEF Database
    <2> QED  BY <1>1, <2>1, <2>2, ForeignOnly
  <1> QED  BY <1>1, <1>2, Constants DEF IInv, TypeOK, Names, InPlay, Settled, Apart, Buried, Prepared

LEMMA SealInv == IInv /\ Seal => IInv'
  <1> SUFFICES ASSUME IInv, Seal  PROVE  IInv'  OBVIOUS
  <1> DEFINE d == Invalidated(tx)
  <1>1. /\ pc = "Secrets" /\ tx.foreign = {} /\ db' = [db EXCEPT ![building] = d] /\ tx' = None /\ pc' = "Marker"
        /\ UNCHANGED <<dirs, dirsDisk, current, currentDisk, marker, archive, building, names,
                       issued, dead, revoked, faults>>
    BY DEF Seal, dirVars, history
  <1>2. tx \in Database  BY <1>1 DEF IInv, TypeOK, Apart
  <1>3. d \in Database /\ d.foreign = {} /\ Accepted(d) = {}  BY <1>1, <1>2, InvalidatedDatabase
  <1> HIDE DEF d
  <1>4. /\ building \in Layout /\ db' \in [Layout -> Database \cup {None}] /\ db'[building] = d
        /\ db'[current] = db[current] /\ db'[currentDisk] = db[currentDisk]
        /\ InPlay'
    BY <1>1, <1>3, BuildInv DEF Prepared
  <1>5. Apart'  BY <1>1, <1>3, <1>4, Constants DEF IInv, Apart, Prepared
  <1>6. Buried'  BY <1>1, <1>3, <1>4 DEF IInv, Buried
  <1> QED  BY <1>1, <1>4, <1>5, <1>6 DEF IInv, TypeOK, Owners, Names

LEMMA MarkerInv == Journaled /\ IInv /\ WritePreviousGeneration => IInv'
  <1> SUFFICES ASSUME Journaled, IInv, WritePreviousGeneration  PROVE  IInv'  OBVIOUS
  <1> DEFINE p == IF current = Legacy /\ db[Legacy] = None THEN None ELSE current
  <1>1. /\ pc = "Marker" /\ marker' = [marker EXCEPT ![building] = p] /\ pc' = "Link"
        /\ currentDisk' = current /\ dirsDisk' = dirs
        /\ UNCHANGED <<dirs, current, db, archive, building, tx, names, issued, dead, revoked, faults>>
    BY DEF WritePreviousGeneration, SyncBelow, work, history
  <1>2. building \in Gen /\ building # current /\ \A g \in Gen : marker[g] # building
    BY <1>1, Constants DEF IInv, TypeOK, Apart, Prepared
  <1>3. current \in Layout /\ Settled(current) /\ (p # None => p = current /\ db[current] # None)
    BY Constants DEF IInv, TypeOK, InPlay, Settled
  <1>4. p \in Layout \cup {None} /\ p # building  BY <1>2, <1>3, Constants
  <1> HIDE DEF p
  <1>5. /\ marker' \in [Gen -> Layout \cup {None}]
        /\ \A g \in Gen : marker'[g] = IF g = building THEN p ELSE marker[g]
    BY <1>1, <1>2, <1>4 DEF IInv, TypeOK
  <1>6. \A l \in Layout : Settled(l) => Settled(l)'  BY <1>1 DEF Settled
  <1>7. \A h \in Gen : marker[h] # None => marker[h] \in Layout  BY DEF IInv, TypeOK
  <1>8. InPlay'  BY <1>1, <1>3, <1>5, <1>6, <1>7 DEF IInv, InPlay
  <1>9. Apart'  BY <1>1, <1>2, <1>4, <1>5 DEF IInv, Apart, Prepared
  <1>10. Buried'  BY <1>1 DEF IInv, Buried
  <1> QED  BY <1>1, <1>5, <1>8, <1>9, <1>10 DEF IInv, TypeOK, Owners, Names

LEMMA LinkInv == IInv /\ LinkGeneration => IInv'
  <1> SUFFICES ASSUME IInv, LinkGeneration  PROVE  IInv'  OBVIOUS
  <1>1. /\ pc = "Link" /\ current' = building /\ pc' = "SyncLink"
        /\ UNCHANGED <<dirs, dirsDisk, currentDisk, marker, db, archive, building, tx, names,
                       issued, dead, revoked, faults>>
    BY DEF LinkGeneration, work, history
  <1>2. building \in Gen /\ Settled(building) /\ Accepted(db[building]) = {}
    BY <1>1, Constants DEF IInv, TypeOK, Apart, Buried, Settled, Prepared
  <1>3. \A l : Settled(l)' = Settled(l)  BY <1>1 DEF Settled
  <1>4. InPlay'  BY <1>1, <1>2, <1>3 DEF IInv, InPlay
  <1>5. Apart'  BY <1>1 DEF IInv, Apart, Prepared
  <1>6. Buried'  BY <1>1, <1>2 DEF IInv, Buried
  <1> QED  BY <1>1, <1>2, <1>4, <1>5, <1>6 DEF IInv, TypeOK, Owners, Names, Layout

\* The lock is released: the layouts in play are what matters from here on.
LEMMA ReleaseInv ==
    ASSUME IInv, pc' = "Free", building' = None, tx' = None, faults' \in 0..MaxFaults,
           UNCHANGED <<marker, db, archive, names, issued, dead, revoked>>,
           dirs' \subseteq names, dirsDisk' \subseteq names,
           current' \in {current, currentDisk}, currentDisk' \in {current, currentDisk},
           \A l \in Gen : Settled(l) /\ (l \in {current, currentDisk} \/ \E g \in Gen : marker[g] = l)
               => l \in dirs' /\ l \in dirsDisk'
    PROVE  IInv'
  <1>1. \A g \in Gen : marker[g] # None => marker[g] \in Layout  BY DEF IInv, TypeOK
  <1>2. current \in Layout /\ currentDisk \in Layout /\ dirs' \subseteq Gen /\ dirsDisk' \subseteq Gen
    BY DEF IInv, TypeOK
  <1>3. \A l \in Layout : Settled(l) /\ (l \in {current, currentDisk} \/ \E g \in Gen : marker[g] = l)
            => Settled(l)'
    BY Constants DEF Settled, Layout
  <1>4. InPlay'  BY <1>1, <1>2, <1>3 DEF IInv, InPlay
  <1>5. TypeOK'  BY <1>2 DEF IInv, TypeOK, Owners
  <1> QED  BY <1>4, <1>5 DEF IInv, Names, Apart, Buried, Prepared

\* A generation that is removed before it was linked is in nobody's way.
LEMMA RestoreFailsInv == IInv /\ RestoreFails => IInv'
  <1> SUFFICES ASSUME IInv, RestoreFails  PROVE  IInv'  OBVIOUS
  <1>1. /\ pc \in Prepared /\ faults < MaxFaults /\ faults' = faults + 1
        /\ dirs' \in {dirs, dirs \ {building}} /\ pc' = "Free" /\ building' = None /\ tx' = None
        /\ UNCHANGED <<dirsDisk, current, currentDisk, marker, db, archive, names, issued, dead, revoked>>
    BY DEF RestoreFails, Fault, Abort, Release, Prepared, history
  <1>2. building # current /\ building # currentDisk /\ \A g \in Gen : marker[g] # building
    BY <1>1 DEF IInv, Apart
  <1>3. faults' \in 0..MaxFaults /\ dirs' \subseteq names /\ dirsDisk' \subseteq names
    BY <1>1, Constants DEF IInv, TypeOK, Names
  <1> QED  BY <1>1, <1>2, <1>3, ReleaseInv DEF Settled

LEMMA EndInv ==
    ASSUME Journaled, IInv, SyncLink \/ SyncLinkFails \/ SyncSwitch \/ RollbackFails \/ Crash \/ PowerLoss
    PROVE  IInv'
  <1>1. /\ pc' = "Free" /\ building' = None /\ tx' = None
        /\ UNCHANGED <<marker, db, archive, names, issued, dead, revoked>>
    BY DEF SyncLink, SyncLinkFails, SyncSwitch, RollbackFails, Crash, PowerLoss, Abort, Release, history
  <1>2. faults' \in 0..MaxFaults
    <2>1. faults' = faults \/ Fault
      BY DEF SyncLink, SyncLinkFails, SyncSwitch, RollbackFails, Crash, PowerLoss
    <2>2. faults \in 0..MaxFaults  BY DEF IInv, TypeOK
    <2> QED  BY <2>1, <2>2, Constants DEF Fault
  <1>3. /\ dirs' \in {dirs, dirsDisk} /\ dirsDisk' \in {dirs, dirsDisk}
        /\ current' \in {current, currentDisk} /\ currentDisk' \in {current, currentDisk}
    BY DEF SyncLink, SyncLinkFails, SyncSwitch, RollbackFails, Crash, PowerLoss, Abort, SyncRoot, dirVars
  <1>4. dirs' \subseteq names /\ dirsDisk' \subseteq names  BY <1>3 DEF IInv, Names
  <1> QED  BY <1>1, <1>2, <1>3, <1>4, ReleaseInv DEF Settled

----------------------------------------------------------------------------
(* backup rollback and the file system                                     *)

LEMMA BeginRollbackInv == IInv /\ BeginRollback => IInv'
  <1> SUFFICES ASSUME IInv, BeginRollback  PROVE  IInv'  OBVIOUS
  <1> DEFINE p == marker[current]
             d == Invalidated(db[p])
  <1>1. /\ pc = "Free" /\ current # Legacy /\ db[p] # None /\ pc' = "Switch"
        /\ db' = [db EXCEPT ![p] = d] /\ p \in dirs \cup {Legacy}
        /\ UNCHANGED <<dirs, dirsDisk, current, currentDisk, marker, archive, building, tx, names,
                       issued, dead, revoked, faults>>
    BY DEF BeginRollback, dirVars, work, history
  <1>2. p \in Layout /\ p # None /\ current \in Gen /\ db[p] \in Database
    BY <1>1, Constants DEF IInv, TypeOK, Layout
  <1>3. d \in Database /\ d.foreign = db[p].foreign /\ Accepted(d) = {}  BY <1>2, InvalidatedDatabase
  <1> HIDE DEF d
  <1>4. /\ db' \in [Layout -> Database \cup {None}] /\ db'[p] = d /\ d # None
        /\ \A l \in Layout : l # p => db'[l] = db[l]
    BY <1>1, <1>2, <1>3, Constants DEF IInv, TypeOK
  <1>5. \A l \in Layout : Settled(l) => Settled(l)'
    BY <1>1, <1>3, <1>4 DEF Settled
  <1>6. \A h \in Gen : marker[h] # None => marker[h] \in Layout  BY DEF IInv, TypeOK
  <1>7. current \in Layout /\ currentDisk \in Layout  BY DEF IInv, TypeOK
  <1>8. InPlay'  BY <1>1, <1>4, <1>5, <1>6, <1>7 DEF IInv, InPlay
  <1>9. Buried'
    <2>1. \A l \in {current, currentDisk} : db'[l] # None => Accepted(db'[l]) \cap dead = {}
      BY <1>3, <1>4, <1>7 DEF IInv, Buried
    <2> QED  BY <2>1, <1>1, <1>3, <1>4 DEF IInv, Buried
  <1>10. Apart'  BY <1>1, <1>2 DEF IInv, Apart, Prepared
  <1> QED  BY <1>1, <1>4, <1>8, <1>9, <1>10 DEF IInv, TypeOK, Owners, Names

LEMMA SwitchInv == IInv /\ SwitchToPredecessor => IInv'
  <1> SUFFICES ASSUME IInv, SwitchToPredecessor  PROVE  IInv'  OBVIOUS
  <1>1. /\ pc = "Switch" /\ current' = marker[current] /\ pc' = "SyncSwitch"
        /\ UNCHANGED <<dirs, dirsDisk, currentDisk, marker, db, archive, building, tx, names,
                       issued, dead, revoked, faults>>
    BY DEF SwitchToPredecessor, work, history
  <1>2. current \in Gen /\ marker[current] # None /\ marker[current] \in Layout
    BY <1>1 DEF IInv, TypeOK, Apart, Layout
  <1>3. \A l : Settled(l)' = Settled(l)  BY <1>1 DEF Settled
  <1>4. InPlay'  BY <1>1, <1>2, <1>3 DEF IInv, InPlay
  <1>5. Buried'  BY <1>1, <1>2 DEF IInv, Buried
  <1> QED  BY <1>1, <1>2, <1>4, <1>5 DEF IInv, TypeOK, Owners, Names, Apart, Prepared

LEMMA WritebackInv ==
    ASSUME IInv, WritebackLink \/ \E g \in Gen : WritebackDirectory(g)
    PROVE  IInv'
  <1>1. /\ currentDisk' \in {current, currentDisk}
        /\ UNCHANGED <<dirs, current, marker, db, archive, pc, building, tx, names, issued, dead, revoked, faults>>
    BY DEF WritebackLink, WritebackDirectory, work, history
  <1>2. /\ dirsDisk' \subseteq dirsDisk \cup dirs
        /\ \A l : l \in dirs /\ l \in dirsDisk => l \in dirsDisk'
    BY DEF WritebackLink, WritebackDirectory
  <1>3. \A l : Settled(l) => Settled(l)'  BY <1>1, <1>2 DEF Settled
  <1>4. InPlay'  BY <1>1, <1>3 DEF IInv, InPlay
  <1>5. Buried'  BY <1>1 DEF IInv, Buried
  <1>6. Apart'  BY <1>1, <1>2 DEF IInv, Apart, Prepared
  <1> QED  BY <1>1, <1>2, <1>4, <1>5, <1>6 DEF IInv, TypeOK, Names

LEMMA StepInv == Journaled /\ IInv /\ [Next]_vars => IInv'
  <1> SUFFICES ASSUME Journaled, IInv, [Next]_vars  PROVE  IInv'  OBVIOUS
  <1>1. CASE Server  BY <1>1, ServerInv
  <1>2. CASE CreateBackup  BY <1>2, CreateBackupInv
  <1>3. CASE Restore
    BY <1>3, BeginRestoreInv, WriteDatabaseInv, SecretInv, SealInv, MarkerInv, LinkInv, RestoreFailsInv, EndInv
    DEF Restore
  <1>4. CASE Rollback
    BY <1>4, BeginRollbackInv, SwitchInv, EndInv DEF Rollback
  <1>5. CASE Environment
    BY <1>5, WritebackInv, EndInv DEF Environment
  <1>6. CASE UNCHANGED vars
    BY <1>6 DEF vars, dirVars, work, history, IInv, TypeOK, Names, InPlay, Settled, Apart, Buried
  <1> QED  BY <1>1, <1>2, <1>3, <1>4, <1>5, <1>6 DEF Next

----------------------------------------------------------------------------
(* Theorems                                                                *)

\* Every layout that a link or a marker names is settled, whatever a restore or a
\* rollback is doing, whatever fails, and wherever the power is lost.
THEOREM GenerationsInvariance ==
    ASSUME Journaled
    PROVE  Spec => []IInv
  <1>1. IInv /\ [Next]_vars => IInv'  BY StepInv
  <1> QED  BY InitInv, <1>1, PTL DEF Spec

\* Types of the directories, links, databases and of the history.
THEOREM GenerationsTypeCorrect ==
    ASSUME Journaled
    PROVE  Spec => []TypeOK
  <1>1. IInv => TypeOK  BY DEF IInv
  <1> QED  BY <1>1, GenerationsInvariance, PTL

\* data/current selects a complete generation now and after a power loss: the marker's
\* sync makes the directory durable before the link is made (WritePreviousGeneration,
\* LinkGeneration).
THEOREM CurrentComplete ==
    ASSUME Journaled
    PROVE  Spec => []CurrentIsComplete
  <1>1. IInv => CurrentIsComplete
    BY Constants DEF IInv, InPlay, Settled, CurrentIsComplete, Complete, SurvivesAsComplete
  <1> QED  BY <1>1, GenerationsInvariance, PTL

\* No cleanup removes the predecessor that a generation records (Abort).
THEOREM PredecessorComplete ==
    ASSUME Journaled
    PROVE  Spec => []PredecessorIsComplete
  <1>1. IInv => PredecessorIsComplete
    BY Constants DEF IInv, TypeOK, Layout, InPlay, Settled, PredecessorIsComplete, Complete
  <1> QED  BY <1>1, GenerationsInvariance, PTL

\* No cookie or bearer that died comes back by a restore or a rollback
\* (invalidateHistoricalCredentials before the switch, Seal before the link).
THEOREM CredentialsStayDead ==
    ASSUME Journaled
    PROVE  Spec => []NoCredentialRevival
  <1>1. IInv => NoCredentialRevival  BY DEF IInv, Buried, NoCredentialRevival
  <1> QED  BY <1>1, GenerationsInvariance, PTL
=============================================================================
