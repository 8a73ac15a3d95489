------------------------------ MODULE Catalog ------------------------------
(***************************************************************************)
(* The catalogue that administrators edit over HTTP: resources of a kind   *)
(* and secrets, read and changed under If-Match, listed page by page, and  *)
(* the bearers of agent tokens.                                            *)
(*                                                                         *)
(* A handler's mutation is one transaction under SecretStore.mu, so it is  *)
(* one step; what is spread over time is the client's side.  A client      *)
(* writes with the version of the copy it read, however old that is, and   *)
(* every answer may be lost, so that a retry is the same request again     *)
(* from the same copy.  Between two steps of one client any other may      *)
(* create, change, delete and create again under the same name.            *)
(*                                                                         *)
(* Kinds do not meet in these operations (their references are             *)
(* ConfigGraph's), so a behaviour follows the names of one kind.  The      *)
(* session that authorizes a request is AdminSession's, plans are          *)
(* ConfigPlans': to the copies they are one more writer.                   *)
(***************************************************************************)
EXTENDS Naturals, Sequences, FiniteSets

CONSTANTS
    Names,        \* the names of each kind
    Caller,       \* administrators' clients, each with a copy of its own
    Content,      \* the contents of each kind
    MaxId,        \* bound: identities ever created
    MaxVersion,   \* bound: changes of one identity
    MaxBearer,    \* bound: bearers ever issued
    Limit,        \* items of a page
    Absent

Kinds == {"Strategy", "AgentToken", "Secret"}
Id   == 1..MaxId

ASSUME CatalogAssumption ==
    /\ DOMAIN Content = Kinds /\ DOMAIN Names = Kinds
    /\ Content["AgentToken"] \subseteq {"enabled", "disabled", "expired"}
    /\ {MaxId, MaxBearer} \subseteq Nat /\ {MaxVersion, Limit} \subseteq Nat \ {0}
    /\ Absent \notin Id
    /\ \A k \in Kinds : Absent \notin Names[k] \cup [id : Id, version : 1..MaxVersion, content : Content[k]]

VARIABLES
    kind,      \* the kind this behaviour is about
    resource,  \* the row of each name: identity, resource_version, content
    used,      \* identities drawn so far; newUUID never repeats one
    copy,      \* the row that each client holds, with its name
    list,      \* a listing in progress
    verifier,  \* agent_tokens.verifier_sha256, as the number of the bearer; 0 is NULL
    revoked,   \* identities with revoked_at
    bearers    \* how many bearers were ever generated

tokens      == <<verifier, revoked, bearers>>
catalogVars == <<kind, resource, used, copy, list, tokens>>

Name   == Names[kind]
Rows   == [id : Id, version : 1..MaxVersion, content : Content[kind]]
Copies == {[name |-> n, row |-> r] : n \in Name, r \in Rows}

Stored == {n \in Name : resource[n] # Absent}
Ids    == {resource[n].id : n \in Stored}

Closed == [open |-> FALSE, after |-> 0, seen |-> <<>>, kept |-> {}]

\* An empty catalogue that nobody has read.
CatalogInit ==
    /\ kind \in Kinds
    /\ resource = [n \in Name |-> Absent]
    /\ used = {}
    /\ copy = [c \in Caller |-> Absent]
    /\ list = Closed
    /\ verifier = [i \in Id |-> 0]
    /\ revoked = {}
    /\ bearers = 0

----------------------------------------------------------------------------
(* What a step does to its client and to a listing in progress             *)

\* The answer carries the row, or is lost.
Answer(c, n, r) == copy' \in {copy, [copy EXCEPT ![c] = [name |-> n, row |-> r]]}

\* History of a listing: the identities that have been there since it began.
Keep == list' = [list EXCEPT !.kept = @ \cap {resource'[n].id : n \in {m \in Name : resource'[m] # Absent}}]

\* Mutant: enabling a token clears revoked_at.
ReviveToken(r) ==
    /\ revoked' = IF kind = "AgentToken" /\ r.content = "disabled" THEN revoked \cup {r.id} ELSE revoked \ {r.id}
    /\ UNCHANGED <<verifier, bearers>>

\* upsertTyped of an AgentToken: disabled revokes for good, and what was revoked
\* is not enabled again.
upsertToken(r) ==
    /\ kind = "AgentToken" => r.content = "disabled" \/ r.id \notin revoked
    /\ revoked' = IF kind = "AgentToken" /\ r.content = "disabled" THEN revoked \cup {r.id} ELSE revoked
    /\ UNCHANGED <<verifier, bearers>>

Store(n, r) ==
    /\ resource' = [resource EXCEPT ![n] = r]
    /\ upsertToken(r)
    /\ Keep

----------------------------------------------------------------------------
(* Reads                                                                   *)

Get(c, n) ==
    /\ resource[n] # Absent
    /\ copy' = [copy EXCEPT ![c] = [name |-> n, row |-> resource[n]]]
    /\ UNCHANGED <<kind, resource, used, list, tokens>>

getResource(c, n) == kind # "Secret" /\ Get(c, n)
getSecret(c, n)   == kind = "Secret" /\ Get(c, n)

\* pageInput without a cursor; the first page follows.
OpenList ==
    /\ ~list.open
    /\ list' = [Closed EXCEPT !.open = TRUE, !.kept = Ids]
    /\ UNCHANGED <<kind, resource, used, copy, tokens>>

\* The ids after the cursor in order, at most Limit + 1 of them.
Fetched(after) ==
    LET rest == {i \in Ids : i > after}
        Nth(k) == CHOOSE i \in rest : Cardinality({j \in rest : j <= i}) = k
        most == Cardinality(rest)
    IN  [k \in 1..(IF most < Limit + 1 THEN most ELSE Limit + 1) |-> Nth(k)]

\* Mutant: the cursor is the row that told there is more.
NextIsSurplus(fetched) == IF Len(fetched) > Limit THEN fetched[Limit + 1] ELSE Absent

\* NextID: the last item handed out, if there is one more.
NextID(fetched) == IF Len(fetched) > Limit THEN fetched[Limit] ELSE Absent

Items(fetched) == SubSeq(fetched, 1, IF Len(fetched) > Limit THEN Limit ELSE Len(fetched))

ListPage ==
    LET fetched == Fetched(list.after)
    IN  /\ list.open
        /\ list' = [list EXCEPT !.seen = @ \o Items(fetched),
                                !.open = NextID(fetched) # Absent,
                                !.after = IF NextID(fetched) = Absent THEN @ ELSE NextID(fetched)]
        /\ UNCHANGED <<kind, resource, used, copy, tokens>>

listResources == kind # "Secret" /\ ListPage
listSecrets   == kind = "Secret" /\ ListPage

----------------------------------------------------------------------------
(* Writes                                                                  *)

\* newUUID: any identity that was never drawn, in no order.
newUUID == Id \ used

Create(c, n, s) ==
    /\ resource[n] = Absent
    /\ \E id \in newUUID :
         LET r == [id |-> id, version |-> 1, content |-> s] IN
         used' = used \cup {id} /\ Store(n, r) /\ Answer(c, n, r)
    /\ UNCHANGED kind

\* The current row against If-Match and, where the body has one, the uid.
Matches(held, r, uid) == r # Absent /\ r.version = held.version /\ (uid => r.id = held.id)

\* Mutant: the version stays, so that the copies before the change still match.
VersionKept(r, s) == [r EXCEPT !.content = s]

\* UPDATE resources SET resource_version=resource_version+1
Changed(r, s) == [id |-> r.id, version |-> r.version + 1, content |-> s]

\* A write from the copy that the client holds.
Conditional(c, uid) == copy[c] # Absent /\ Matches(copy[c].row, resource[copy[c].name], uid)

createResource(c, n, s) == kind # "Secret" /\ Create(c, n, s)

\* An update that changes nothing keeps the version.
updateResource(c, s, uid) ==
    LET n == copy[c].name IN
    /\ kind # "Secret" /\ Conditional(c, uid)
    /\ IF s = resource[n].content
       THEN Answer(c, n, resource[n]) /\ UNCHANGED <<resource, list, tokens>>
       ELSE LET r == Changed(resource[n], s) IN
            resource[n].version < MaxVersion /\ Store(n, r) /\ Answer(c, n, r)
    /\ UNCHANGED <<kind, used>>

deleteResource(c) ==
    /\ kind # "Secret" /\ Conditional(c, FALSE)
    /\ resource' = [resource EXCEPT ![copy[c].name] = Absent]
    /\ Keep
    /\ UNCHANGED <<kind, used, copy, tokens>>

\* The draft that the version names becomes a published version (ConfigGraph).
publishStrategy(c) ==
    /\ kind = "Strategy" /\ Conditional(c, FALSE)
    /\ Answer(c, copy[c].name, resource[copy[c].name])
    /\ UNCHANGED <<kind, resource, used, list, tokens>>

\* Without If-Match a secret is created; with it, replaced: every replacement is a
\* new version.  MaxSecrets, 4096, is far above the bound on names.
putSecret(c, n, s) ==
    /\ kind = "Secret"
    /\ \/ Create(c, n, s)
       \/ /\ Conditional(c, FALSE) /\ copy[c].name = n
          /\ LET r == Changed(resource[n], s) IN
             resource[n].version < MaxVersion /\ Store(n, r) /\ Answer(c, n, r)
          /\ UNCHANGED <<kind, used>>

\* No credential uses it.
deleteSecret(c) ==
    /\ kind = "Secret" /\ Conditional(c, FALSE)
    /\ resource' = [resource EXCEPT ![copy[c].name] = Absent]
    /\ Keep
    /\ UNCHANGED <<kind, used, copy, tokens>>

----------------------------------------------------------------------------
(* Bearers                                                                 *)

\* generateAgentToken: the bearer goes into the answer and nowhere else.
Generate(i) ==
    /\ bearers < MaxBearer
    /\ bearers' = bearers + 1
    /\ verifier' = [verifier EXCEPT ![i] = bearers + 1]
    /\ UNCHANGED <<kind, resource, used, copy, list, revoked>>

\* Neither revoked nor expired.
Lives(n) == kind = "AgentToken" /\ resource[n] # Absent /\ resource[n].id \notin revoked /\ resource[n].content # "expired"

IssueSession(n) == Lives(n) /\ verifier[resource[n].id] = 0 /\ Generate(resource[n].id)

\* Also the way out when the answer with the bearer was lost.
RotateSession(n) == Lives(n) /\ verifier[resource[n].id] # 0 /\ Generate(resource[n].id)

\* Once is as good as twice.
RevokeSession(n) ==
    /\ kind = "AgentToken" /\ resource[n] # Absent
    /\ revoked' = revoked \cup {resource[n].id}
    /\ UNCHANGED <<kind, resource, used, copy, list, verifier, bearers>>

\* authenticateBearer but for the expiry, which an edit may move.
Usable(b) == \E n \in Stored : verifier[resource[n].id] = b /\ resource[n].id \notin revoked

----------------------------------------------------------------------------
Write(c) ==
    \/ \E n \in Name : \E s \in Content[kind] : createResource(c, n, s) \/ putSecret(c, n, s)
    \/ \E s \in Content[kind], uid \in BOOLEAN : updateResource(c, s, uid)
    \/ deleteResource(c) \/ publishStrategy(c) \/ deleteSecret(c)

CatalogNext ==
    \/ \E c \in Caller : Write(c) \/ \E n \in Name : getResource(c, n) \/ getSecret(c, n)
    \/ OpenList \/ listResources \/ listSecrets
    \/ \E n \in Name : IssueSession(n) \/ RotateSession(n) \/ RevokeSession(n)

CatalogSpec == CatalogInit /\ [][CatalogNext]_catalogVars

----------------------------------------------------------------------------
(* Properties                                                              *)

\* Rows and copies are well formed, and no two names share an identity.
CatalogTypeOK ==
    /\ resource \in [Name -> Rows \cup {Absent}] /\ copy \in [Caller -> Copies \cup {Absent}]
    /\ used \subseteq Id /\ Ids \subseteq used
    /\ \A n, m \in Stored : resource[n].id = resource[m].id => n = m
    /\ list.after \in 0..MaxId /\ list.kept \subseteq Ids
    /\ verifier \in [Id -> 0..bearers] /\ revoked \subseteq used

\* However many clients write, retry and lose answers, a write from a copy that
\* names the current row's identity is accepted only if the copy is the row: no
\* change that the client has not seen is overwritten, deleted or published.  With the
\* uid in the body this is so even if the name was deleted and created again
\* meanwhile, and has reached the same version.
NoLostUpdate ==
    \A c \in Caller :
        \/ Conditional(c, FALSE) /\ copy[c].row.id = resource[copy[c].name].id
        \/ Conditional(c, TRUE)
        => copy[c].row = resource[copy[c].name]

\* Though rows come and go between two pages, the row at the cursor included, a
\* listing that has ended holds every row that was there all along, and none twice.
ListingIsComplete ==
    /\ \A i, j \in DOMAIN list.seen : list.seen[i] = list.seen[j] => i = j
    /\ ~list.open /\ list.seen # <<>> => list.kept \subseteq {list.seen[i] : i \in DOMAIN list.seen}

\* A bearer that was replaced, revoked, disabled or deleted is never usable again,
\* whatever is edited, issued or created under its name later.
NoBearerRevival ==
    [][\A b \in 1..bearers : ~Usable(b) => ~Usable(b)']_catalogVars
=============================================================================
