---------------------------- MODULE Generations ----------------------------
(***************************************************************************)
(* The data directory as a set of generations: the flat legacy layout, the *)
(* directories under generations/ that backup restore builds, and the link *)
(* named current that selects one.  Restore, rollback, backup and the      *)
(* server exclude each other by the installation lock, so pc says which of *)
(* them owns the directory and where it stands; crashes, power loss and    *)
(* I/O errors may come between any two steps.                              *)
(*                                                                         *)
(* Of a database the module keeps what restore and rollback rewrite:       *)
(* credentials (administrative sessions, bearers of agent tokens) and      *)
(* which secrets are still sealed under the key of another installation.   *)
(***************************************************************************)
EXTENDS Naturals, FiniteSets

CONSTANTS
    Gen,         \* names of generations; a restore draws an unused one
    Secret,      \* stored secrets
    Token,       \* AgentToken resources
    Cred,        \* cookies and bearers, each generated at most once
    Legacy,      \* the flat layout: no current link
    None,        \* no database, no archive, no rollback marker
    Unissued, Revoked,
    Journaled,   \* TRUE: a sync of any directory makes every earlier directory
                 \* change durable, as a metadata journal does; FALSE: it makes
                 \* durable the entries of that directory only (POSIX)
    MaxFaults    \* bound: crashes, power losses and I/O errors in a behaviour

ASSUME GenerationsAssumption ==
    /\ Journaled \in BOOLEAN
    /\ MaxFaults \in Nat
    /\ Legacy \notin Gen /\ None \notin Gen /\ Legacy # None
    /\ Unissued \notin Cred /\ Revoked \notin Cred /\ Unissued # Revoked

Layout == Gen \cup {Legacy}

\* foreign: secrets whose ciphertext does not open under this installation's key
Database == [sessions : SUBSET Cred,
             tokens   : [Token -> Cred \cup {Unissued, Revoked}],
             foreign  : SUBSET Secret]

ASSUME NoneAssumption == None \notin Database

VARIABLES
    dirs, dirsDisk,         \* entries of generations/: seen now, durable
    current, currentDisk,   \* the layout current selects: seen now, durable
    marker,                 \* .previous of each generation
    db,                     \* database of each layout
    archive,                \* the database inside the last backup, or None
    pc,                     \* the owner of the installation lock and its next step
    building, tx,           \* the generation a restore builds, its open transaction
    names,                  \* names of generations drawn so far
    issued,                 \* history: credentials ever handed out
    dead,                   \* history: credentials a server has refused or revoked
    revoked,                \* history: tokens revoked in a database some archive holds
    faults

dirVars  == <<dirs, dirsDisk, current, currentDisk>>
work     == <<building, tx, names>>
history  == <<issued, dead, revoked>>
vars == <<dirVars, marker, db, archive, pc, work, history, faults>>

Fresh == [sessions |-> {}, tokens |-> [t \in Token |-> Unissued], foreign |-> {}]

Owners == {"Free", "Serving",
           "WriteDatabase", "Secrets", "Marker", "Link", "SyncLink",    \* restore
           "Switch", "SyncSwitch"}                                      \* rollback

TypeOK ==
    /\ dirs \subseteq Gen /\ dirsDisk \subseteq Gen
    /\ current \in Layout /\ currentDisk \in Layout
    /\ marker \in [Gen -> Layout \cup {None}]
    /\ db \in [Layout -> Database \cup {None}]
    /\ archive \in Database \cup {None}
    /\ pc \in Owners
    /\ building \in Gen \cup {None} /\ tx \in Database \cup {None}
    /\ names \subseteq Gen
    /\ issued \subseteq Cred /\ dead \subseteq Cred /\ revoked \subseteq Token
    /\ faults \in 0..MaxFaults

\* A new data directory; an archive of another installation may be at hand.
Init ==
    /\ dirs = {} /\ dirsDisk = {}
    /\ current = Legacy /\ currentDisk = Legacy
    /\ marker = [g \in Gen |-> None]
    /\ db = [l \in Layout |-> None]
    /\ archive \in {None, Fresh}
    /\ pc = "Free" /\ building = None /\ tx = None /\ names = {}
    /\ issued = {} /\ dead = {} /\ revoked = {}
    /\ faults = 0

\* The cookies and bearers a server on database d would authenticate.
Accepted(d) == (d.sessions \cup {d.tokens[t] : t \in Token}) \ {Unissued, Revoked}

Complete(l) ==
    /\ l \in Gen => l \in dirs
    /\ db[l] # None /\ db[l].foreign = {}

\* What Seal and invalidateHistoricalCredentials do to a database.
Invalidated(d) == [d EXCEPT !.sessions = {}, !.tokens = [t \in Token |-> Unissued]]

Fault == faults < MaxFaults /\ faults' = faults + 1

\* A directory sync in root, and one in a directory below generations/.
SyncRoot ==
    /\ currentDisk' = current
    /\ dirsDisk' = IF Journaled THEN dirs ELSE dirsDisk

SyncBelow ==
    /\ currentDisk' = IF Journaled THEN current ELSE currentDisk
    /\ dirsDisk' = IF Journaled THEN dirs ELSE dirsDisk

Release == pc' = "Free" /\ building' = None /\ tx' = None

----------------------------------------------------------------------------
(* OpenInstallation and what a server does with the databases it opened    *)

\* An empty flat layout is bootstrapped; anything else must be complete.
\* Opening the keyring syncs the state directory.
StartServer ==
    /\ pc = "Free"
    /\ \/ current = Legacy /\ db[Legacy] = None
       \/ Complete(current)
    /\ db' = IF db[current] = None THEN [db EXCEPT ![current] = Fresh] ELSE db
    /\ dead' = dead \cup (issued \ Accepted(db'[current]))
    /\ pc' = "Serving"
    /\ IF current = Legacy THEN SyncRoot ELSE SyncBelow
    /\ UNCHANGED <<dirs, current, marker, archive, work, issued, revoked, faults>>

StopServer ==
    /\ pc = "Serving"
    /\ Release
    /\ UNCHANGED <<dirVars, marker, db, archive, names, history, faults>>

Serve(d) ==
    /\ db' = [db EXCEPT ![current] = d]
    /\ dead' = dead \cup (issued \ Accepted(d))
    /\ UNCHANGED <<dirVars, marker, archive, pc, work, faults>>

Login(c) ==
    /\ pc = "Serving"
    /\ c \in Cred \ issued
    /\ Serve([db[current] EXCEPT !.sessions = @ \cup {c}])
    /\ issued' = issued \cup {c} /\ UNCHANGED revoked

\* RevokeSession of the administrative session, or its expiry.
Logout(c) ==
    /\ pc = "Serving"
    /\ c \in db[current].sessions
    /\ Serve([db[current] EXCEPT !.sessions = @ \ {c}])
    /\ UNCHANGED <<issued, revoked>>

\* IssueSession on an unissued token and RotateSession on an active one.
IssueOrRotate(t, c) ==
    /\ pc = "Serving"
    /\ c \in Cred \ issued
    /\ db[current].tokens[t] # Revoked
    /\ Serve([db[current] EXCEPT !.tokens[t] = c])
    /\ issued' = issued \cup {c} /\ UNCHANGED revoked

Revoke(t) ==
    /\ pc = "Serving"
    /\ db[current].tokens[t] # Revoked
    /\ Serve([db[current] EXCEPT !.tokens[t] = Revoked])
    /\ UNCHANGED <<issued, revoked>>

----------------------------------------------------------------------------
(* backup create: the archive holds a snapshot of the active database and  *)
(* the plaintext of every secret.                                          *)

CreateBackup ==
    /\ pc = "Free"
    /\ Complete(current)
    /\ archive' = db[current]
    /\ revoked' = {t \in Token : db[current].tokens[t] = Revoked}
    /\ UNCHANGED <<dirVars, marker, db, pc, work, issued, dead, faults>>

----------------------------------------------------------------------------
(* backup restore                                                          *)

BeginGenerationRestore(g) ==
    /\ pc = "Free" /\ archive # None
    /\ g \in Gen \ names
    /\ dirs' = dirs \cup {g} /\ names' = names \cup {g}
    /\ building' = g
    /\ pc' = "WriteDatabase"
    /\ UNCHANGED <<dirsDisk, current, currentDisk, marker, db, archive, tx, history, faults>>

\* The snapshot is written, synced and opened; the keyring gets a new v1 key.
WriteDatabase ==
    /\ pc = "WriteDatabase"
    /\ tx' = [archive EXCEPT !.foreign = Secret]
    /\ db' = [db EXCEPT ![building] = tx']
    /\ SyncBelow
    /\ pc' = "Secrets"
    /\ UNCHANGED <<dirs, current, marker, archive, building, names, history, faults>>

RestoreSecret(s) ==
    /\ pc = "Secrets" /\ s \in tx.foreign
    /\ tx' = [tx EXCEPT !.foreign = @ \ {s}]
    /\ UNCHANGED <<dirVars, marker, db, archive, pc, building, names, history, faults>>

Seal ==
    /\ pc = "Secrets"
    /\ tx.foreign = {}
    /\ db' = [db EXCEPT ![building] = Invalidated(tx)]
    /\ tx' = None
    /\ pc' = "Marker"
    /\ UNCHANGED <<dirVars, marker, archive, building, names, history, faults>>

\* Mutant: every restore records a predecessor, also one into an empty root.
RecordWithoutDatabase ==
    /\ pc = "Marker"
    /\ marker' = [marker EXCEPT ![building] = current]
    /\ SyncBelow
    /\ pc' = "Link"
    /\ UNCHANGED <<dirs, current, db, archive, work, history, faults>>

\* Activate: the marker is durable before the link changes.  A root with no
\* database has no predecessor to record.
WritePreviousGeneration ==
    /\ pc = "Marker"
    /\ marker' = [marker EXCEPT ![building] =
                    IF current = Legacy /\ db[Legacy] = None THEN None ELSE current]
    /\ SyncBelow
    /\ pc' = "Link"
    /\ UNCHANGED <<dirs, current, db, archive, work, history, faults>>

LinkGeneration ==
    /\ pc = "Link"
    /\ current' = building
    /\ pc' = "SyncLink"
    /\ UNCHANGED <<dirs, dirsDisk, currentDisk, marker, db, archive, work, history, faults>>

SyncLink ==
    /\ pc = "SyncLink"
    /\ SyncRoot
    /\ Release
    /\ UNCHANGED <<dirs, current, marker, db, archive, names, history, faults>>

\* Abort removes the directory, as far as that succeeds, unless it was linked.
Abort(linked) ==
    /\ dirs' \in IF linked THEN {dirs} ELSE {dirs, dirs \ {building}}
    /\ Release
    /\ UNCHANGED <<dirsDisk, current, currentDisk, marker, db, archive, names, history>>

\* Any error, or an archive that ends before its last secret.
RestoreFails ==
    /\ pc \in {"WriteDatabase", "Secrets", "Marker", "Link"}
    /\ Fault
    /\ Abort(FALSE)

\* Mutant: the failed sync is treated as a generation that was never linked.
RemoveLinkedGeneration ==
    /\ pc = "SyncLink"
    /\ Fault
    /\ Abort(FALSE)

\* The link was renamed but the root directory did not sync.
SyncLinkFails ==
    /\ pc = "SyncLink"
    /\ Fault
    /\ Abort(TRUE)

----------------------------------------------------------------------------
(* backup rollback                                                         *)

\* Mutant: the predecessor is selected with the credentials it had.
RollbackKeepsCredentials ==
    /\ pc = "Free"
    /\ current # Legacy /\ current \in dirs
    /\ marker[current] \in dirs \cup {Legacy} /\ db[marker[current]] # None
    /\ pc' = "Switch"
    /\ UNCHANGED <<dirVars, marker, db, archive, work, history, faults>>

\* invalidateHistoricalCredentials on the recorded predecessor.
BeginRollback ==
    /\ pc = "Free"
    /\ current # Legacy /\ current \in dirs
    /\ marker[current] \in dirs \cup {Legacy} /\ db[marker[current]] # None
    /\ db' = [db EXCEPT ![marker[current]] = Invalidated(@)]
    /\ pc' = "Switch"
    /\ UNCHANGED <<dirVars, marker, archive, work, history, faults>>

\* activateGeneration, or deactivateGeneration when the predecessor is legacy.
SwitchToPredecessor ==
    /\ pc = "Switch"
    /\ current' = marker[current]
    /\ pc' = "SyncSwitch"
    /\ UNCHANGED <<dirs, dirsDisk, currentDisk, marker, db, archive, work, history, faults>>

SyncSwitch ==
    /\ pc = "SyncSwitch"
    /\ SyncRoot
    /\ Release
    /\ UNCHANGED <<dirs, current, marker, db, archive, names, history, faults>>

RollbackFails ==
    /\ pc \in {"Switch", "SyncSwitch"}
    /\ Fault
    /\ Release
    /\ UNCHANGED <<dirVars, marker, db, archive, names, history>>

----------------------------------------------------------------------------
(* The environment                                                         *)

Crash ==
    /\ pc # "Free"
    /\ Fault
    /\ Release
    /\ UNCHANGED <<dirVars, marker, db, archive, names, history>>

WritebackLink ==
    /\ currentDisk # current
    /\ currentDisk' = current
    /\ UNCHANGED <<dirs, dirsDisk, current, marker, db, archive, pc, work, history, faults>>

WritebackDirectory(g) ==
    /\ (g \in dirs) # (g \in dirsDisk)
    /\ dirsDisk' = IF g \in dirs THEN dirsDisk \cup {g} ELSE dirsDisk \ {g}
    /\ UNCHANGED <<dirs, current, currentDisk, marker, db, archive, pc, work, history, faults>>

PowerLoss ==
    /\ Fault
    /\ dirs' = dirsDisk /\ current' = currentDisk
    /\ Release
    /\ UNCHANGED <<dirsDisk, currentDisk, marker, db, archive, names, history>>

----------------------------------------------------------------------------

Server == \/ StartServer \/ StopServer
          \/ \E c \in Cred : Login(c) \/ Logout(c) \/ \E t \in Token : IssueOrRotate(t, c)
          \/ \E t \in Token : Revoke(t)
Restore == \/ WriteDatabase \/ Seal \/ WritePreviousGeneration \/ LinkGeneration
           \/ SyncLink \/ RestoreFails \/ SyncLinkFails
           \/ \E g \in Gen : BeginGenerationRestore(g)
           \/ \E s \in Secret : RestoreSecret(s)
Rollback == BeginRollback \/ SwitchToPredecessor \/ SyncSwitch \/ RollbackFails
Environment == Crash \/ PowerLoss \/ WritebackLink \/ \E g \in Gen : WritebackDirectory(g)

Next == Server \/ CreateBackup \/ Restore \/ Rollback \/ Environment

Spec == Init /\ [][Next]_vars

----------------------------------------------------------------------------
(* Properties                                                              *)

\* What a restart after a power loss would find.
SurvivesAsComplete(l) ==
    /\ l \in Gen => l \in dirsDisk
    /\ db[l] # None /\ db[l].foreign = {}

\* "data/current points to a complete generation": at every instant, and after
\* whatever interruption of a restore or a rollback, current selects a layout
\* whose directory exists and whose secrets all open, or the empty flat layout.
CurrentIsComplete ==
    /\ Complete(current) \/ (current = Legacy /\ db[Legacy] = None)
    /\ SurvivesAsComplete(currentDisk) \/ (currentDisk = Legacy /\ db[Legacy] = None)

\* The predecessor a generation records stays usable for as long as the
\* generation may be rolled back: no cleanup of a failed restore removes it.
PredecessorIsComplete ==
    current # Legacy /\ marker[current] # None => Complete(marker[current])

\* A cookie or bearer that a server has refused, or that was revoked or
\* replaced, is never accepted again by any later server on this directory:
\* neither a restored snapshot nor a rollback brings historical credentials
\* back (generation_restore.go:189).
NoCredentialRevival == pc = "Serving" => Accepted(db[current]) \cap dead = {}

\* Revocation is irreversible for the identity: a token that is revoked in the
\* last archived database holds no bearer in a generation that is served later
\* (IssueSession refuses a revoked token; Seal clears the revocation).
RevocationIsIrreversible ==
    pc = "Serving" /\ current # Legacy =>
        \A t \in revoked : db[current].tokens[t] \notin Cred

\* A sealed generation has the agent-token verifiers and revocations of the
\* archive it was restored from (what the backup contract says Seal retains).
RestoreRetainsAgentTokens ==
    pc \in {"Marker", "Link", "SyncLink"} => db[building].tokens = archive.tokens
=============================================================================
