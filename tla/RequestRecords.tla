--------------------------- MODULE RequestRecords ---------------------------
(***************************************************************************)
(* A chat completion request against the database: the bearer check, the   *)
(* alias, the router snapshot, the operational record and the cooldowns    *)
(* that rate-limited attempts leave behind.                                *)
(*                                                                         *)
(* Each of these is a statement or a transaction of its own over the one   *)
(* connection, so any number of other requests and of administrative       *)
(* changes may run between two of them: each is an action.  What the       *)
(* engine does between Begin and CompleteRecord is RouterEngine's; here it *)
(* is any run over a prefix of the snapshot's eligible destinations.       *)
(*                                                                         *)
(* The database stores times as RFC3339Nano text and compares the text.    *)
(* A time is counted in half seconds: an even one is printed without       *)
(* fraction ("...:05Z"), an odd one with (".5Z").                          *)
(***************************************************************************)
EXTENDS Integers, Sequences, FiniteSets

CONSTANTS
    Request,        \* bound: requests
    RouteId, Targets, \* routes, and the destinations of each one's published strategy
    DestinationId,  \* an id is never given again
    Header,         \* Retry-After values that a 429 carries
    Inferred,       \* seconds of a cooldown without a usable header
    Maximum,        \* seconds that a header is bounded to
    MaxTime,        \* bound: clock readings
    StepsBack,      \* whether the wall clock may be set back
    Nil

ASSUME RequestRecordsAssumption ==
    /\ Targets \in [RouteId -> Seq(DestinationId)]
    /\ \A x \in RouteId : \A i, j \in DOMAIN Targets[x] : Targets[x][i] = Targets[x][j] => i = j
    /\ Inferred \in Nat /\ Maximum \in Nat /\ MaxTime \in Nat /\ StepsBack \in BOOLEAN
    /\ Nil \notin RouteId \cup DestinationId \cup Nat
    /\ \A h \in Header : h.kind \in {"seconds", "date", "none"} /\ h.value \in Nat

VARIABLES
    alias,      \* the route that carries the requested alias, or Nil
    route,      \* "on", "off" or "gone"
    dest,       \* "on", "off" or "gone"
    token,      \* "valid", "invalid" (revoked or expired) or "gone"
    allowed,    \* the routes the agent token names
    cooldown,   \* ends_at of each destination's cooldown, or Nil
    row,        \* operational rows: "none", "open", "complete"
    req,        \* the handlers
    now,        \* the wall clock
    limit       \* history: the latest reset recorded for each destination

config      == <<alias, route, dest, token, allowed>>
recordsVars == <<config, cooldown, row, req, now, limit>>

Times == 0..(MaxTime + 2 * (Maximum + Inferred + 1))

Idle == [pc |-> "new", permitted |-> {}, route |-> Nil, started |-> 0, todo |-> {}, done |-> <<>>]

\* A configured installation, no request yet.
RecordsInit ==
    /\ alias \in RouteId
    /\ route = [x \in RouteId |-> "on"]
    /\ dest = [d \in DestinationId |-> "on"]
    /\ token = "valid"
    /\ allowed \in (SUBSET RouteId) \ {{}}
    /\ cooldown = [d \in DestinationId |-> Nil]
    /\ row = [r \in Request |-> "none"]
    /\ req = [r \in Request |-> Idle]
    /\ now = 0
    /\ limit = [d \in DestinationId |-> 0]

----------------------------------------------------------------------------
(* Times                                                                   *)

Second(t) == t \div 2

\* Comparison of the stored texts: within a second 'Z' sorts after '.'.
TextLess(s, t) == Second(s) < Second(t) \/ (Second(s) = Second(t) /\ s % 2 = 1 /\ t % 2 = 0)

Bounded(n) == IF n < 1 THEN 1 ELSE IF n > Maximum THEN Maximum ELSE n

\* Retry-After in seconds, as a date (a whole second) or unusable.
retryReset(h, observed) ==
    CASE h.kind = "seconds" -> observed + 2 * Bounded(h.value)
      [] h.kind = "date" /\ 2 * h.value > observed ->
           IF 2 * h.value > observed + 2 * Maximum THEN observed + 2 * Maximum ELSE 2 * h.value
      [] OTHER -> observed + 2 * Inferred

\* Mutant: the upsert lost its WHERE clause.
LatestObservation(end, reset) == reset

\* The upsert of recordRateLimitTx.
recordRateLimit(end, reset) == IF end = Nil \/ TextLess(end, reset) THEN reset ELSE end

----------------------------------------------------------------------------
(* The handler                                                             *)

Step(r, from, to) == req[r].pc = from /\ req' = [req EXCEPT ![r] = to]
Refused(r) == [req[r] EXCEPT !.pc = "refused"]

\* authenticateBearer
Authenticate(r) ==
    /\ Step(r, "new", IF token = "valid" THEN [req[r] EXCEPT !.pc = "authenticated", !.permitted = allowed]
                      ELSE Refused(r))
    /\ UNCHANGED <<config, cooldown, row, now, limit>>

\* The rest of AuthenticateAlias, another statement.
ResolveAlias(r) ==
    /\ Step(r, "authenticated",
            IF alias \in req[r].permitted THEN [req[r] EXCEPT !.pc = "resolved", !.route = alias]
            ELSE Refused(r))
    /\ UNCHANGED <<config, cooldown, row, now, limit>>

Cooling(d) == cooldown[d] # Nil /\ TextLess(now, cooldown[d])

\* loadDestination over the active version: the positions of the eligible targets.
Snapshot(x) == {i \in DOMAIN Targets[x] : dest[Targets[x][i]] = "on" /\ ~Cooling(Targets[x][i])}

\* Mutant: the route that was authorized is not compared.
Runnable(r) ==
    alias # Nil /\ route[alias] = "on" /\ \A i \in DOMAIN Targets[alias] : dest[Targets[alias][i]] # "gone"

\* Loader.Load succeeds, for the route that was authorized.
Loadable(r) ==
    /\ alias # Nil /\ route[alias] = "on"
    /\ \A i \in DOMAIN Targets[alias] : dest[Targets[alias][i]] # "gone"
    /\ alias = req[r].route

\* The handler goes on with the snapshot, its RouteID included.
Load(r) ==
    /\ Step(r, "resolved",
            IF Loadable(r) THEN [req[r] EXCEPT !.pc = "loaded", !.route = alias, !.todo = Snapshot(alias)]
            ELSE Refused(r))
    /\ UNCHANGED <<config, cooldown, row, now, limit>>

\* The INSERT has foreign keys to the token and the route.
Begin(r) ==
    /\ req[r].pc = "loaded"
    /\ IF token # "gone" /\ route[req[r].route] # "gone"
       THEN /\ Step(r, "loaded", [req[r] EXCEPT !.pc = "running", !.started = now])
            /\ row' = [row EXCEPT ![r] = "open"]
       ELSE Step(r, "loaded", Refused(r)) /\ UNCHANGED row
    /\ UNCHANGED <<config, cooldown, now, limit>>

\* The next of the snapshot's destinations, in the order of the strategy.
First(todo) == CHOOSE i \in todo : \A j \in todo : i <= j

\* The engine tries it; with a reset it was a 429.
Attempt(r, reset) ==
    LET i == First(req[r].todo) IN
    /\ req[r].todo # {}
    /\ Step(r, "running",
            [req[r] EXCEPT !.todo = @ \ {i},
                           !.done = Append(@, [dest |-> Targets[req[r].route][i], reset |-> reset])])
    /\ UNCHANGED <<config, cooldown, row, now, limit>>

\* What recordRateLimitTx is called with.
Resets(r, d) == {req[r].done[i].reset : i \in {j \in DOMAIN req[r].done : req[r].done[j].dest = d}} \ {Nil}

\* Mutant: the attempts before the refused one are committed with their cooldowns.
CompleteInParts(r) ==
    LET gone == {i \in DOMAIN req[r].done : dest[req[r].done[i].dest] = "gone"}
        kept == {d \in DestinationId : dest[d] # "gone" /\ Resets(r, d) # {}}
        Reset(d) == CHOOSE t \in Resets(r, d) : TRUE
    IN  /\ Step(r, "running", [req[r] EXCEPT !.pc = IF gone = {} THEN "ended" ELSE "unrecorded"])
        /\ row' = [row EXCEPT ![r] = IF gone = {} THEN "complete" ELSE @]
        /\ cooldown' = [d \in DestinationId |-> IF d \in kept THEN recordRateLimit(cooldown[d], Reset(d)) ELSE cooldown[d]]
        /\ limit' = [d \in DestinationId |-> IF d \in kept /\ Reset(d) > limit[d] THEN Reset(d) ELSE limit[d]]
        /\ UNCHANGED <<config, now>>

\* The engine has returned: the one transaction of OperationalRecorder.Complete,
\* then the answer.  An attempt's destination must still exist, and the wall clock
\* must not read earlier than at the start.
CompleteRecord(r) ==
    /\ req[r].pc = "running"
    /\ IF /\ \A i \in DOMAIN req[r].done : dest[req[r].done[i].dest] # "gone"
          /\ now >= req[r].started
       THEN /\ Step(r, "running", [req[r] EXCEPT !.pc = "ended"])
            /\ row' = [row EXCEPT ![r] = "complete"]
            /\ cooldown' = [d \in DestinationId |->
                 IF Resets(r, d) = {} THEN cooldown[d]
                 ELSE recordRateLimit(cooldown[d], CHOOSE t \in Resets(r, d) : TRUE)]
            /\ limit' = [d \in DestinationId |->
                 LET t == IF Resets(r, d) = {} THEN 0 ELSE CHOOSE u \in Resets(r, d) : TRUE
                 IN  IF t > limit[d] THEN t ELSE limit[d]]
       ELSE /\ Step(r, "running", [req[r] EXCEPT !.pc = "unrecorded"])
            /\ UNCHANGED <<row, cooldown, limit>>
    /\ UNCHANGED <<config, now>>

\* The two seconds for the completion ran out, or the commit failed: only logged.
CompleteFails(r) ==
    /\ Step(r, "running", [req[r] EXCEPT !.pc = "ended"])
    /\ UNCHANGED <<config, cooldown, row, now, limit>>

InFlight == {r \in Request : req[r].pc \in {"authenticated", "resolved", "loaded", "running"}}

\* The process ends; nobody looks at open rows again.
Crash ==
    /\ InFlight # {}
    /\ req' = [r \in Request |-> IF r \in InFlight THEN [req[r] EXCEPT !.pc = "ended"] ELSE req[r]]
    /\ UNCHANGED <<config, cooldown, row, now, limit>>

----------------------------------------------------------------------------
(* The administrator and the clock                                         *)

\* One document can move the alias from a route to another.
MoveAlias(x) ==
    /\ x # alias /\ (x # Nil => route[x] # "gone")
    /\ alias' = x
    /\ UNCHANGED <<route, dest, token, allowed, cooldown, row, req, now, limit>>

SwitchRoute(x) ==
    /\ route[x] # "gone"
    /\ route' = [route EXCEPT ![x] = IF @ = "on" THEN "off" ELSE "on"]
    /\ UNCHANGED <<alias, dest, token, allowed, cooldown, row, req, now, limit>>

\* A token that names the route has to be changed first.
DeleteRoute(x) ==
    /\ route[x] # "gone" /\ (token = "gone" \/ x \notin allowed)
    /\ route' = [route EXCEPT ![x] = "gone"]
    /\ alias' = IF alias = x THEN Nil ELSE alias
    /\ UNCHANGED <<dest, token, allowed, cooldown, row, req, now, limit>>

SwitchDestination(d) ==
    /\ dest[d] # "gone"
    /\ dest' = [dest EXCEPT ![d] = IF @ = "on" THEN "off" ELSE "on"]
    /\ UNCHANGED <<alias, route, token, allowed, cooldown, row, req, now, limit>>

\* Published versions do not protect a destination; its cooldown stays.
DeleteDestination(d) ==
    /\ dest[d] # "gone"
    /\ dest' = [dest EXCEPT ![d] = "gone"]
    /\ UNCHANGED <<alias, route, token, allowed, cooldown, row, req, now, limit>>

EditToken(s) ==
    /\ token # "gone" /\ s # allowed /\ \A x \in s : route[x] # "gone"
    /\ allowed' = s
    /\ UNCHANGED <<alias, route, dest, token, cooldown, row, req, now, limit>>

\* Revoked or expired; then deleted.
EndToken ==
    /\ token # "gone"
    /\ token' = IF token = "valid" THEN "invalid" ELSE "gone"
    /\ UNCHANGED <<alias, route, dest, allowed, cooldown, row, req, now, limit>>

SetClock(t) ==
    /\ t # now /\ (StepsBack \/ t > now)
    /\ now' = t
    /\ UNCHANGED <<config, cooldown, row, req, limit>>

Administer ==
    \/ \E x \in RouteId \cup {Nil} : MoveAlias(x)
    \/ \E x \in RouteId : SwitchRoute(x) \/ DeleteRoute(x)
    \/ \E d \in DestinationId : SwitchDestination(d) \/ DeleteDestination(d)
    \/ \E s \in (SUBSET RouteId) \ {{}} : EditToken(s)
    \/ EndToken

Handle(r) ==
    \/ Authenticate(r) \/ ResolveAlias(r) \/ Load(r) \/ Begin(r) \/ CompleteRecord(r) \/ CompleteFails(r)
    \/ \E reset \in {Nil} \cup {retryReset(h, now) : h \in Header} : Attempt(r, reset)

RecordsNext ==
    \/ \E r \in Request : Handle(r)
    \/ Crash \/ Administer
    \/ \E t \in 0..MaxTime : SetClock(t)

RecordsSpec == RecordsInit /\ [][RecordsNext]_recordsVars

----------------------------------------------------------------------------
(* Properties                                                              *)

\* Handlers, rows and cooldowns are well formed; a row is open only for a handler
\* that began it.
RecordsTypeOK ==
    /\ alias \in RouteId \cup {Nil} /\ token \in {"valid", "invalid", "gone"}
    /\ route \in [RouteId -> {"on", "off", "gone"}] /\ dest \in [DestinationId -> {"on", "off", "gone"}]
    /\ allowed \in SUBSET RouteId /\ now \in 0..MaxTime
    /\ cooldown \in [DestinationId -> Times \cup {Nil}] /\ limit \in [DestinationId -> Times]
    /\ \A r \in Request :
         /\ req[r].pc \in {"new", "authenticated", "resolved", "loaded", "running", "ended",
                           "unrecorded", "refused"}
         /\ req[r].pc = "running" => row[r] = "open"
         /\ req[r].pc \in {"new", "authenticated", "resolved", "loaded", "refused"} => row[r] = "none"

\* Whoever moves the alias between the bearer check, the lookup of the alias and
\* the snapshot, a request is only ever sent to destinations of a route that its
\* token named when the bearer was checked.
OnlyPermittedDestinations ==
    \A r \in Request : \A i \in DOMAIN req[r].done :
        \E x \in req[r].permitted : \E j \in DOMAIN Targets[x] : Targets[x][j] = req[r].done[i].dest

\* Whatever order concurrent requests complete in, and whatever the clock does, a
\* snapshot taken in an earlier second than the latest recorded reset of a
\* destination leaves that destination out.
CooldownHoldsToTheSecond ==
    \A x \in RouteId : \A i \in Snapshot(x) : Second(now) >= Second(limit[Targets[x][i]])

\* The record of a request and the cooldowns it caused stand or fall together,
\* whether its completion was refused because a destination was deleted or the clock
\* set back, was lost in a crash, or ran out of time: a complete record has its
\* cooldowns, to the order of the stored texts, and no cooldown lacks its record.
CooldownsHaveTheirRecord ==
    /\ \A r \in Request, d \in DestinationId : row[r] = "complete" =>
         \A t \in Resets(r, d) : cooldown[d] # Nil /\ ~TextLess(cooldown[d], t)
    /\ \A d \in DestinationId : cooldown[d] # Nil =>
         \E r \in Request : row[r] = "complete" /\ cooldown[d] \in Resets(r, d)

\* "cooldown; honor valid `Retry-After`": a snapshot taken before a recorded reset
\* leaves that destination out.
RetryAfterIsHonoured ==
    \A x \in RouteId : \A i \in Snapshot(x) : now >= limit[Targets[x][i]]

\* "Persist the Request, Attempts and normalized observations without content": no
\* completion that reaches the database is refused by it.
CompletionIsNotRefused == \A r \in Request : req[r].pc # "unrecorded"
=============================================================================
