---------------------------- MODULE ConfigGraph ----------------------------
(***************************************************************************)
(* The configuration graph of an installation: the canonical envelopes,    *)
(* their typed projection with its foreign keys, unique keys and triggers, *)
(* the published strategy versions that routes run, and agent tokens.      *)
(*                                                                         *)
(* Every mutation is one SQLite transaction under SecretStore.mu over the  *)
(* single connection, so it is one step.  Inside it ApplyConfigTx mutates  *)
(* resource by resource, and each of those sees the constraints of the     *)
(* intermediate graph: db is therefore one record and a mutation a         *)
(* function from databases to databases, or Rejected.                      *)
(*                                                                         *)
(* A resource is an opaque name of a fixed kind.  A specification is its   *)
(* references in declaration order, one label (modelAlias of a Route,      *)
(* providerModelId of a Model) and enabled.                                *)
(***************************************************************************)
EXTENDS Naturals, Sequences, FiniteSets

CONSTANTS
    Resource,     \* names of resources and secrets
    Kind,         \* the kind of each
    Options,      \* the specifications a document may give each
    Base,         \* resources that exist from the start, with their specification
    Managed,      \* resources that documents name
    MaxDocument,  \* bound: resources in a document
    Absent,       \* no such resource
    Gone,         \* the id of a resource that was deleted
    Rejected      \* a transaction that is rolled back

kindRank == [Provider |-> 1, Egress |-> 2, ProviderAccount |-> 3, ProviderConnection |-> 3,
             Credential |-> 4, Model |-> 4, Destination |-> 5, Strategy |-> 6,
             Route |-> 7, AgentToken |-> 8, Secret |-> 50]

OfKind(k) == {x \in Resource : Kind[x] = k}
Refs(s)   == {s.refs[i] : i \in 1..Len(s.refs)}

\* What each kind refers to; Strategy and AgentToken hold lists of one kind.
RefKinds == [Provider |-> <<>>, Egress |-> <<>>, Secret |-> <<>>,
             ProviderAccount |-> <<"Provider">>, ProviderConnection |-> <<"Provider">>,
             Credential |-> <<"ProviderAccount", "Egress", "Secret">>,
             Model |-> <<"ProviderConnection">>, Destination |-> <<"Model", "Credential">>,
             Route |-> <<"Strategy">>]

ASSUME ConfigGraphAssumption ==
    /\ Kind \in [Resource -> DOMAIN kindRank]
    /\ MaxDocument \in Nat
    /\ Base \subseteq Resource /\ Managed \subseteq Resource \ OfKind("Secret")
    /\ \A x \in Resource : \A s \in Options[x] :
         LET kinds == [i \in 1..Len(s.refs) |-> Kind[s.refs[i]]] IN
         CASE Kind[x] = "Strategy"   -> kinds # <<>> /\ \A i \in DOMAIN kinds : kinds[i] = "Destination"
           [] Kind[x] = "AgentToken" -> kinds # <<>> /\ \A i \in DOMAIN kinds : kinds[i] = "Route"
           [] OTHER                  -> kinds = RefKinds[Kind[x]]
    /\ \A x \in Resource : \A s \in Options[x] : s # Absent /\ s.refs \in Seq(Resource) /\ s.on \in BOOLEAN
    /\ Absent \notin Seq(Resource \cup {Gone}) /\ Gone \notin Resource
    \* What is there from the start ends where routing begins.
    /\ \A x \in Base : Cardinality(Options[x]) = 1 /\ \A s \in Options[x] : Refs(s) \subseteq Base
    /\ \A x \in Base : Kind[x] \notin {"Destination", "Route"}

VARIABLES
    db,       \* the committed database
    latest    \* history: the version of each strategy that was published last

graphVars == <<db, latest>>

Strategy   == OfKind("Strategy")
Route      == OfKind("Route")
AgentToken == OfKind("AgentToken")

Live(d) == {x \in Resource : d.spec[x] # Absent}

\* spec: resources.spec_json; row: the ids a typed row stores, by name while the
\* identity lives; versions: strategy_versions; active: the route's
\* active_strategy_version_id; revoked: agent_tokens.revoked_at is set.
GraphTypeOK ==
    /\ \A x \in Resource :
         /\ db.spec[x] \in Options[x] \cup {Absent}
         /\ db.row[x] \in Seq(Resource \cup {Gone}) \cup {Absent}
    /\ \A s \in Strategy :
         /\ db.versions[s] \in Seq({o.refs : o \in Options[s]})
         /\ \A i, j \in 1..Len(db.versions[s]) :
              db.versions[s][i] = db.versions[s][j] => i = j      \* UNIQUE(strategy_id, checksum)
         /\ latest[s] \in 0..Len(db.versions[s])
    /\ db.active \in [Route -> (Strategy \X Nat) \cup {Absent}]
    /\ db.revoked \in SUBSET AgentToken

\* Kinds with a typed table.
Typed(x) == Kind[x] \notin {"Provider", "Strategy", "Secret"}

\* A configured installation, before the first of the documents we follow.
GraphInit ==
    /\ db = [spec     |-> [x \in Resource |-> IF x \in Base THEN CHOOSE s \in Options[x] : TRUE ELSE Absent],
             row      |-> [x \in Resource |-> IF x \in Base /\ Typed(x)
                                             THEN (CHOOSE s \in Options[x] : TRUE).refs ELSE Absent],
             versions |-> [s \in Strategy |-> <<>>],
             active   |-> [r \in Route |-> Absent],
             revoked  |-> {}]
    /\ latest = [s \in Strategy |-> 0]

----------------------------------------------------------------------------
(* Validation of the effective graph: validate.go, and the SQL triggers    *)
(* that compare providers                                                  *)

\* Mutant: no comparison of providers.
MismatchUnchecked(g, x) == FALSE

\* The model's connection and the credential's account name two providers; where
\* one of them is missing, that resource's own references are refused.
Mismatch(g, x) ==
    LET connection == g[g[x].refs[1]].refs[1]
        account    == g[g[x].refs[2]].refs[1]
    IN  g[connection] # Absent /\ g[account] # Absent /\ g[connection].refs # g[account].refs

validateReferences(g, x) ==
    /\ \A y \in Refs(g[x]) : g[y] # Absent
    /\ Kind[x] = "Destination" => ~Mismatch(g, x)

\* Mutant: resources the document does not declare are not looked at again.
ValidateDeclared(g, declared) ==
    \A x \in declared : g[x] # Absent => validateReferences(g, x)

Validate(g, declared) == \A x \in Resource : g[x] # Absent => validateReferences(g, x)

----------------------------------------------------------------------------
(* Mutations of one resource inside a transaction                          *)

Referrers(d, x) == {y \in Live(d) : d.row[y] # Absent /\ x \in {d.row[y][i] : i \in 1..Len(d.row[y])}}

\* Destinations reached from x through typed rows: what the *_in_use triggers join.
UsedByDestination(d, x) ==
    \E y \in Referrers(d, x) :
        Kind[y] = "Destination" \/ \E z \in Referrers(d, y) : Kind[z] = "Destination"

\* The first reference of these kinds is immutable while a destination uses it.
InUse(d, x, s) ==
    /\ Kind[x] \in {"ProviderAccount", "ProviderConnection", "Credential", "Model"}
    /\ d.row[x] # Absent /\ d.row[x][1] # s.refs[1]
    /\ UsedByDestination(d, x)

\* UNIQUE(model_id, credential_id), UNIQUE(connection_id, provider_model_id) and
\* UNIQUE(model_alias).  A model takes its new label before its new connection.
Duplicates(d, x, s) ==
    \E y \in Live(d) \ {x} :
        /\ Kind[y] = Kind[x]
        /\ CASE Kind[x] = "Destination" -> d.row[y] = s.refs
             [] Kind[x] = "Model" -> d.row[y] \in {s.refs, d.row[x]} /\ d.spec[y].label = s.label
             [] Kind[x] = "Route" -> d.spec[y].label = s.label
             [] OTHER -> FALSE

\* Mutant: the UPDATE that moves the routes has lost its WHERE clause.
PublishToAll(d, s) ==
    LET v == Append(d.versions[s], d.spec[s].refs)
    IN  [d EXCEPT !.versions[s] = v, !.active = [r \in Route |-> IF d.row[r] = Absent THEN Absent ELSE <<s, Len(v)>>]]

\* Reuse the version with this checksum or insert the next one, and move every
\* route of the strategy to it.
publishStrategyTx(d, s) ==
    LET definition == d.spec[s].refs
        known == {i \in 1..Len(d.versions[s]) : d.versions[s][i] = definition}
        v == IF known = {} THEN Append(d.versions[s], definition) ELSE d.versions[s]
        id == IF known = {} THEN Len(v) ELSE CHOOSE i \in known : TRUE
    IN  [d EXCEPT !.versions[s] = v,
                  !.active = [r \in Route |-> IF d.row[r] = <<s>> THEN <<s, id>> ELSE @[r]]]

\* A route takes the highest version of its strategy; a strategy that was never
\* published is published for it.
ActivateRoute(d, r) ==
    LET s == d.spec[r].refs[1]
        p == IF d.versions[s] = <<>> THEN publishStrategyTx(d, s) ELSE d
    IN  [p EXCEPT !.row[r] = <<s>>, !.active[r] = <<s, Len(p.versions[s])>>]

\* Mutant: enabling a token clears revoked_at.
ReviveToken(d, t) ==
    [d EXCEPT !.row[t] = d.spec[t].refs,
              !.revoked = IF d.spec[t].on THEN @ \ {t} ELSE @ \cup {t}]

upsertToken(d, t) ==
    IF d.spec[t].on /\ t \in d.revoked THEN Rejected
    ELSE [d EXCEPT !.row[t] = d.spec[t].refs,
                   !.revoked = IF d.spec[t].on THEN @ ELSE @ \cup {t}]

\* d already holds the new envelope of x.
upsertTyped(d, x, s) ==
    CASE ~Typed(x) -> d
      [] Kind[x] = "Route" -> ActivateRoute(d, x)
      [] Kind[x] = "AgentToken" -> upsertToken(d, x)
      [] OTHER -> [d EXCEPT !.row[x] = s.refs]

Put(d, x, s) ==
    IF \/ ~(Refs(s) \subseteq Live(d))
       \/ InUse(d, x, s) \/ Duplicates(d, x, s)
       \/ Kind[x] = "Destination" /\ Mismatch([d.spec EXCEPT ![x] = s], x)
    THEN Rejected
    ELSE upsertTyped([d EXCEPT !.spec[x] = s], x, s)

\* ON DELETE RESTRICT from every typed row but an agent token's, whose routes
\* are JSON; a strategy takes its versions with it, and they are restricted by
\* the routes that run them.
Delete(d, x) ==
    IF \E y \in Referrers(d, x) : Kind[y] # "AgentToken" THEN Rejected
    ELSE LET Drop(row) == IF row = Absent THEN Absent
                          ELSE [i \in 1..Len(row) |-> IF row[i] = x THEN Gone ELSE row[i]]
         IN [d EXCEPT !.spec[x] = Absent,
                      !.row = [[y \in Resource |-> Drop(@[y])] EXCEPT ![x] = Absent],
                      !.versions = [s \in Strategy |-> IF s = x THEN <<>> ELSE @[s]],
                      !.active = [r \in Route |-> IF r = x THEN Absent ELSE @[r]],
                      !.revoked = @ \ {x}]

----------------------------------------------------------------------------
(* Documents                                                               *)

\* A document is a sequence of changes to distinct resources.
Changes   == UNION {[res : {x}, to : Options[x] \cup {Absent}] : x \in Managed}
Documents == {doc \in UNION {[1..n -> Changes] : n \in 1..MaxDocument} :
                \A i, j \in DOMAIN doc : doc[i].res = doc[j].res => i = j}

Declared(doc) == {doc[i].res : i \in DOMAIN doc}

Effective(d, doc) ==
    [x \in Resource |-> IF x \in Declared(doc)
                        THEN doc[CHOOSE i \in DOMAIN doc : doc[i].res = x].to ELSE d.spec[x]]

mutationRank(c) == IF c.to = Absent THEN 100 - kindRank[Kind[c.res]] ELSE kindRank[Kind[c.res]]

\* The order config_batch.go's comment describes: deletions, then the rest.
documentedRank(c) == IF c.to = Absent THEN 100 - kindRank[Kind[c.res]] ELSE 100 + kindRank[Kind[c.res]]

\* The changes of doc at these positions, in a stable sort by the rank of each.
Sorted(doc, positions, rank) ==
    LET Before(i, j) == rank[i] < rank[j] \/ (rank[i] = rank[j] /\ i <= j)
        Place(j)     == Cardinality({i \in positions : Before(i, j)})
    IN  [n \in 1..Cardinality(positions) |-> doc[CHOOSE j \in positions : Place(j) = n]]

Mutate(d, c) == IF c.to = Absent THEN Delete(d, c.res) ELSE Put(d, c.res, c.to)

ApplyInOrder(d, m) ==
    LET run[i \in 0..Len(m)] ==
          IF i = 0 THEN d
          ELSE IF run[i - 1] = Rejected THEN Rejected ELSE Mutate(run[i - 1], m[i])
    IN  run[Len(m)]

\* Where the changes are that do something: no deletion of something absent, and
\* no noop.  A declared specification equal to the stored one is a noop unless the
\* display name or description differ: edited says for which resources they do.
Prepare(d, doc, edited) ==
    {i \in DOMAIN doc :
        doc[i].to # d.spec[doc[i].res] \/ (doc[i].to # Absent /\ doc[i].res \in edited)}

Unchanged(doc) == {x \in Declared(doc) : db.spec[x] # Absent /\ Effective(db, doc)[x] = db.spec[x]}

ApplyConfigTx(d, doc, positions) ==
    ApplyInOrder(d, Sorted(doc, positions, [i \in positions |-> mutationRank(doc[i])]))

\* History: a publication, or a route that published its strategy's draft.
NoteLatest ==
    latest' = [s \in Strategy |->
                 IF db'.versions[s] = <<>> THEN 0
                 ELSE IF db.versions[s] = <<>> THEN Len(db'.versions[s]) ELSE latest[s]]

\* Manager.Apply under a valid plan; MutateResourceSession for one resource.
ApplyDocument(doc, edited) ==
    /\ Validate(Effective(db, doc), Declared(doc))
    /\ LET m == Prepare(db, doc, edited)
           d == ApplyConfigTx(db, doc, m)
       IN  m # {} /\ d # Rejected /\ db' = d
    /\ NoteLatest

PublishStrategy(s) ==
    /\ db.spec[s] # Absent
    /\ db' = publishStrategyTx(db, s)
    /\ latest' = [latest EXCEPT ![s] =
                    CHOOSE i \in 1..Len(db'.versions[s]) : db'.versions[s][i] = db.spec[s].refs]

\* AgentTokenService.RevokeSession
RevokeToken(t) ==
    /\ db.spec[t] # Absent /\ t \notin db.revoked
    /\ db' = [db EXCEPT !.revoked = @ \cup {t}]
    /\ UNCHANGED latest

PutSecret(x) ==
    /\ x \in OfKind("Secret") /\ db.spec[x] = Absent
    /\ \E s \in Options[x] : db' = [db EXCEPT !.spec[x] = s]
    /\ UNCHANGED latest

\* Refused by the foreign key while a credential names it.
DeleteSecret(x) ==
    /\ x \in OfKind("Secret") /\ db.spec[x] # Absent
    /\ LET d == Delete(db, x) IN d # Rejected /\ db' = d
    /\ UNCHANGED latest

GraphNext ==
    \/ \E doc \in Documents : \E edited \in SUBSET Unchanged(doc) : ApplyDocument(doc, edited)
    \/ \E s \in Strategy : PublishStrategy(s)
    \/ \E t \in AgentToken : RevokeToken(t)
    \/ \E x \in Resource : PutSecret(x) \/ DeleteSecret(x)

GraphSpec == GraphInit /\ [][GraphNext]_graphVars

----------------------------------------------------------------------------
(* Properties                                                              *)

\* The typed rows the router and the bearer check read say what the canonical
\* envelopes say, and no id in them belongs to a resource that was deleted and
\* perhaps created again under its name (allowed_routes_json has no foreign key;
\* validation of the resources a document does not declare is what protects it).
ProjectionAgrees ==
    \A x \in Live(db) : Typed(x) => db.row[x] = db.spec[x].refs

\* A credential is never paired with another provider's endpoint, whatever order
\* accounts, connections, models and destinations were created and edited in.
ProvidersMatch ==
    LET ProviderOf(x) == db.row[db.row[x][1]][1] IN
    \A x \in Live(db) : Kind[x] = "Destination" =>
        ProviderOf(db.row[x][1]) = db.row[db.row[db.row[x][2]][1]][1]

\* The version a route runs exists and is a version of the route's own strategy
\* (Loader.Load joins on both): publishing or deleting one strategy never
\* disturbs the routes of another.
ActiveVersionIsOfStrategy ==
    \A r \in Route \cap Live(db) :
        LET s == db.row[r][1] IN db.active[r] \in {s} \X (1..Len(db.versions[s]))

\* No edit of an AgentToken, alone or inside a document, makes a revoked
\* identity usable again; only another identity of the same name can be.
RevocationSurvivesEdits ==
    [][\A t \in db.revoked : db'.spec[t] # Absent => t \in db'.revoked]_graphVars

Definition(r) == db.versions[db.active[r][1]][db.active[r][2]]

\* Loader.Load would not answer invalid_router_graph for the destination names.
Loads(r) ==
    LET names == Definition(r) IN
    \A i, j \in 1..Len(names) :
        db.spec[names[i]] # Absent /\ (names[i] = names[j] => i = j)

\* "if references exist, it fails or requires removing them first in the same
\* transaction": deleting a destination never breaks a route that is enabled and
\* runs a published version naming it.
PublishedRoutesLoad == \A r \in Route \cap Live(db) : db.spec[r].on => Loads(r)

\* A route that has just been created for a strategy never published "can never
\* be born without a usable version".
RouteIsBornUsable ==
    [][\A r \in Route : db.spec[r] = Absent /\ db'.spec[r] # Absent => Loads(r)']_graphVars

\* "Publishing creates or reuses an immutable version and atomically moves
\* associated routes": every route of a strategy runs the version published last
\* until the next publication.
RoutesRunLastPublication ==
    \A r \in Route \cap Live(db) : db.active[r][2] = latest[db.active[r][1]]

\* "The envelope can therefore never claim enabled while its typed row remains
\* revoked."
EnvelopeAgreesWithRevocation == \A t \in db.revoked : ~db.spec[t].on

\* "Deletions are ordered from dependents to dependencies, followed by creates
\* and updates": a valid document that this order can apply is applied.
DocumentedOrderApplies ==
    \A doc \in Documents :
        Validate(Effective(db, doc), Declared(doc)) =>
            LET m == Prepare(db, doc, {}) IN
            ApplyInOrder(db, Sorted(doc, m, [i \in m |-> documentedRank(doc[i])])) # Rejected
                => ApplyConfigTx(db, doc, m) # Rejected
=============================================================================
