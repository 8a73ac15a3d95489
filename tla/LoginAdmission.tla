--------------------------- MODULE LoginAdmission ---------------------------
(***************************************************************************)
(* AdminLoginService.Login up to its answer: the token buckets of the      *)
(* service and of each source address, the delay after a failure, the      *)
(* bounded table of addresses, and the one slot for password derivation.   *)
(*                                                                         *)
(* A handler reads the wall clock, then waits for the mutex: readings may  *)
(* reach the table in another order than they were taken, and between the  *)
(* admission of a handler and the result of its derivation others are      *)
(* admitted and refused.  Each part of Login that runs under the mutex, or *)
(* is one select, is one step.                                             *)
(*                                                                         *)
(* Time is counted in ticks.  A token, a float in the code, is Token equal *)
(* parts, and a bucket gains Rate parts in a tick.                         *)
(***************************************************************************)
EXTENDS Integers, Sequences, FiniteSets

CONSTANTS
    Address, Handler,
    Token,                      \* parts of a token
    GlobalBurst, GlobalRate,    \* tokens; parts per tick
    ClientBurst, ClientRate,
    MaxClients,                 \* entries of the table
    ClientIdle,                 \* ticks until an entry is forgotten
    Second,                     \* ticks of a second
    FailureCap, MaxDelay,       \* 6 failures; 30 seconds
    MaxTime,                    \* bound: clock readings
    MaxAttempts,                \* bound: logins
    None

ASSUME LoginAdmissionAssumption ==
    /\ {Token, GlobalBurst, GlobalRate, ClientBurst, ClientRate, MaxClients,
        ClientIdle, Second, FailureCap, MaxDelay} \subseteq Nat \ {0}
    /\ FailureCap <= 6 /\ MaxTime \in Nat /\ MaxAttempts \in Nat
    /\ ClientBurst <= GlobalBurst /\ 2 * MaxDelay <= ClientIdle
    /\ None \notin Address \cup Handler

VARIABLES
    now,        \* the wall clock
    global,     \* the bucket of the service
    client,     \* the entry of each address, or None
    slot,       \* the handler whose value is in the channel derive, or None
    handler,    \* where each handler is, its address and its last reading
    admitted,   \* history: attempts that allow has let through
    attempts    \* bound: logins begun

vars == <<now, global, client, slot, handler, admitted, attempts>>

Known == {a \in Address : client[a] # None}
Idle  == [pc |-> "idle", from |-> None, at |-> 0]

\* NewAdminLoginService: the global bucket is full.
Init ==
    /\ now = 0
    /\ global = [tokens |-> GlobalBurst * Token, updated |-> 0]
    /\ client = [a \in Address |-> None]
    /\ slot = None
    /\ handler = [h \in Handler |-> Idle]
    /\ admitted = 0
    /\ attempts = 0

----------------------------------------------------------------------------
(* Buckets and delays                                                      *)

Least(x, y) == IF x < y THEN x ELSE y

\* Mutant: the bucket follows a clock that was set back, and is filled twice.
RefillFollowsClock(bucket, rate, burst, t) ==
    [tokens  |-> IF t > bucket.updated
                 THEN Least(burst * Token, bucket.tokens + rate * (t - bucket.updated)) ELSE bucket.tokens,
     updated |-> t]

\* Nothing is gained, and nothing forgotten, by an earlier reading.
refill(bucket, rate, burst, t) ==
    IF t > bucket.updated
    THEN [tokens  |-> Least(burst * Token, bucket.tokens + rate * (t - bucket.updated)),
          updated |-> t]
    ELSE bucket

\* Up to a whole second, and never none.
ceilSecond(ticks) == IF ticks <= 0 THEN Second ELSE ((ticks + Second - 1) \div Second) * Second

\* Mutant: the seconds are rounded down.
TokenRetryFloor(bucket, rate) == (((Token - bucket.tokens) \div rate) \div Second) * Second

\* The time in which the missing part of a token comes, which need not be a
\* number of ticks.
tokenRetry(bucket, rate) == ceilSecond((Token - bucket.tokens + rate - 1) \div rate)

\* time.Second << (failures - 1), at most MaxDelay
Delay(failures) == Least(Second * <<1, 2, 4, 8, 16, 32>>[failures], MaxDelay)

----------------------------------------------------------------------------
(* The table, under its mutex                                              *)

prune(t) ==
    [a \in Address |-> IF client[a] # None /\ t >= client[a].seen + ClientIdle THEN None ELSE client[a]]

Entry(t) == [bucket |-> [tokens |-> ClientBurst * Token, updated |-> t],
             failures |-> 0, blockedUntil |-> -1, seen |-> t]

Refuse(why, retry, g, c) == [ok |-> FALSE, why |-> why, retry |-> retry, global |-> g, client |-> c]

Full(table, a) == table[a] = None /\ Cardinality({x \in Address : table[x] # None}) >= MaxClients

\* What allow answers address a at reading t, and the state it leaves.
allow(a, t) ==
    LET pruned == prune(t)
        entry  == [(IF pruned[a] = None THEN Entry(t) ELSE pruned[a]) EXCEPT !.seen = t]
        g      == refill(global, GlobalRate, GlobalBurst, t)
        b      == refill(entry.bucket, ClientRate, ClientBurst, t)
        With(bucket) == [pruned EXCEPT ![a] = [entry EXCEPT !.bucket = bucket]]
    IN  IF Full(pruned, a)
          THEN Refuse("full", ClientIdle, global, pruned)
        ELSE IF t < entry.blockedUntil
          THEN Refuse("blocked", ceilSecond(entry.blockedUntil - t), global, With(entry.bucket))
        ELSE IF g.tokens < Token THEN Refuse("global", tokenRetry(g, GlobalRate), g, With(b))
        ELSE IF b.tokens < Token THEN Refuse("client", tokenRetry(b, ClientRate), g, With(b))
        ELSE [ok |-> TRUE, why |-> "none", retry |-> 0,
              global |-> [g EXCEPT !.tokens = @ - Token], client |-> With([b EXCEPT !.tokens = @ - Token])]

failed(a, t) ==
    IF client[a] = None THEN client
    ELSE LET n == Least(client[a].failures + 1, FailureCap)
         IN  [client EXCEPT ![a] = [@ EXCEPT !.failures = n, !.blockedUntil = t + Delay(n), !.seen = t]]

\* Success ends the delay and fills no bucket.
succeeded(a, t) ==
    IF client[a] = None THEN client
    ELSE [client EXCEPT ![a] = [@ EXCEPT !.failures = 0, !.blockedUntil = -1, !.seen = t]]

----------------------------------------------------------------------------
(* Login                                                                   *)

Move(h, from, to) == handler[h].pc = from /\ handler' = [handler EXCEPT ![h] = to]
At(h, pc) == [handler[h] EXCEPT !.pc = pc, !.at = now]

\* The request is well formed; its handler reads the clock.
Arrive(h, a) ==
    /\ attempts < MaxAttempts
    /\ Move(h, "idle", [pc |-> "arrived", from |-> a, at |-> now])
    /\ attempts' = attempts + 1
    /\ UNCHANGED <<now, global, client, slot, admitted>>

Admit(h) ==
    LET answer == allow(handler[h].from, handler[h].at)
    IN  /\ Move(h, "arrived", IF answer.ok THEN [handler[h] EXCEPT !.pc = "admitted"] ELSE Idle)
        /\ global' = answer.global
        /\ client' = answer.client
        /\ admitted' = IF answer.ok THEN admitted + 1 ELSE admitted
        /\ UNCHANGED <<now, slot, attempts>>

\* The select: a taken slot is no reason to wait.
TakeSlot(h) ==
    /\ IF slot = None THEN Move(h, "admitted", [handler[h] EXCEPT !.pc = "deriving"]) /\ slot' = h
       ELSE Move(h, "admitted", Idle) /\ UNCHANGED slot
    /\ UNCHANGED <<now, global, client, admitted, attempts>>

\* The request is cancelled before the select.
CancelAdmitted(h) ==
    /\ Move(h, "admitted", Idle)
    /\ UNCHANGED <<now, global, client, slot, admitted, attempts>>

\* The password has been compared, or the version of the administrator has moved
\* before the session was written: the clock is read again.
Derived(h, result) ==
    /\ result \in {"failed", "succeeded"}
    /\ Move(h, "deriving", At(h, result))
    /\ UNCHANGED <<now, global, client, slot, admitted, attempts>>

\* Mutant: the error path leaves the value in the channel.
UnavailableKeepsSlot(h) ==
    /\ Move(h, "deriving", Idle)
    /\ UNCHANGED <<now, global, client, slot, admitted, attempts>>

\* The database, the derivation or the request's context failed.
Unavailable(h) ==
    /\ Move(h, "deriving", Idle)
    /\ slot' = None
    /\ UNCHANGED <<now, global, client, admitted, attempts>>

\* failed or succeeded, then the deferred receive from the channel.
Settle(h) ==
    /\ \/ Move(h, "failed", Idle) /\ client' = failed(handler[h].from, handler[h].at)
       \/ Move(h, "succeeded", Idle) /\ client' = succeeded(handler[h].from, handler[h].at)
    /\ slot' = None
    /\ UNCHANGED <<now, global, admitted, attempts>>

\* The wall clock moves on, or is set back.
SetClock(t) ==
    /\ t # now
    /\ now' = t
    /\ UNCHANGED <<global, client, slot, handler, admitted, attempts>>

Login(h) ==
    \/ Admit(h) \/ TakeSlot(h)
    \/ Derived(h, "failed") \/ Derived(h, "succeeded") \/ Unavailable(h) \/ Settle(h)

Next ==
    \/ \E h \in Handler : Login(h) \/ CancelAdmitted(h) \/ \E a \in Address : Arrive(h, a)
    \/ \E t \in 0..MaxTime : SetClock(t)

Spec == Init /\ [][Next]_vars

----------------------------------------------------------------------------
(* Properties                                                              *)

Bucket(burst) == [tokens : 0..(burst * Token), updated : 0..MaxTime]

\* Buckets and entries are well formed and the table has its bound.
TypeOK ==
    /\ now \in 0..MaxTime /\ global \in Bucket(GlobalBurst)
    /\ \A a \in Known : /\ client[a].bucket \in Bucket(ClientBurst) /\ client[a].seen \in 0..MaxTime
                        /\ client[a].failures \in 0..FailureCap
                        /\ client[a].blockedUntil \in -1..(MaxTime + MaxDelay)
    /\ Cardinality(Known) <= MaxClients
    /\ \A h \in Handler :
         /\ handler[h].pc \in {"idle", "arrived", "admitted", "deriving", "failed", "succeeded"}
         /\ handler[h].pc # "idle" => handler[h].from \in Address
    /\ slot \in Handler \cup {None} /\ admitted \in Nat /\ attempts \in 0..MaxAttempts

\* Whatever the clock does and in whatever order readings reach the global bucket,
\* which every login passes, the service lets through no more than a burst and the rate up to the latest reading
\* it has seen: a clock set back and forth is not paid twice.
TokensConserved ==
    Token * admitted + global.tokens <= Token * GlobalBurst + GlobalRate * global.updated

\* At most one password is derived at a time, and the slot is in nobody's hands when
\* no handler is deriving: an attempt that fails, is cancelled or meets an error on any
\* path out of Login locks nobody out.
OneDerivation ==
    \A h \in Handler : handler[h].pc \in {"deriving", "failed", "succeeded"} <=> slot = h

\* Readings are in step when no stamp lies ahead of the clock.
InStep ==
    /\ global.updated <= now
    /\ \A a \in Known : client[a].bucket.updated <= now /\ client[a].seen <= now

\* allow at reading t, from the state that an answer left.
Again(answer, a, t) ==
    LET entry == answer.client[a]
        g == refill(answer.global, GlobalRate, GlobalBurst, t)
    IN  CASE answer.why = "full"    -> \E x \in Address : answer.client[x] # None /\ t < answer.client[x].seen + ClientIdle
          [] answer.why = "blocked" -> t < entry.blockedUntil
          [] answer.why = "global"  -> g.tokens < Token
          [] OTHER                  -> refill(entry.bucket, ClientRate, ClientBurst, t).tokens < Token

\* Retry-After is enough: when an address that was refused comes back after it, and
\* nobody else came in between, it is not refused again for the same reason.
RetryAfterSuffices ==
    InStep => \A a \in Address : LET answer == allow(a, now) IN
                  ~answer.ok => ~Again(answer, a, now + answer.retry)
=============================================================================
