------------------------ MODULE LoginAdmissionProofs ------------------------
(***************************************************************************)
(* Proofs about LoginAdmission, for any number of handlers and addresses,  *)
(* any rates and bursts, and a clock that is set to anything: the types,   *)
(* the bound of the table, the single slot, the conservation of tokens,    *)
(* and that waiting out an announced Retry-After is enough.                *)
(*                                                                         *)
(* Conservation is inductive as it stands once the types are known, for a  *)
(* bucket's stamp only grows and a refill adds at most the rate times what *)
(* the stamp has grown by (RefillGains).                                   *)
(***************************************************************************)
EXTENDS LoginAdmission, FiniteSetTheorems, TLAPS

EntryType ==
    [bucket : Bucket(ClientBurst), failures : 0..FailureCap,
     blockedUntil : -1..(MaxTime + MaxDelay), seen : 0..MaxTime]

Step == {"idle", "arrived", "admitted", "deriving", "failed", "succeeded"}

\* The types in a form that is inductive: functions with their domains, a finite
\* table, and an address in every handler that runs.
TypeInv ==
    /\ now \in 0..MaxTime
    /\ global \in Bucket(GlobalBurst)
    /\ client \in [Address -> EntryType \cup {None}]
    /\ IsFiniteSet(Known) /\ Cardinality(Known) <= MaxClients
    /\ handler \in [Handler -> [pc : Step, from : Address \cup {None}, at : 0..MaxTime]]
    /\ \A h \in Handler : handler[h].pc # "idle" => handler[h].from \in Address
    /\ slot \in Handler \cup {None}
    /\ admitted \in Nat /\ attempts \in 0..MaxAttempts

IInv == TypeInv /\ OneDerivation /\ TokensConserved

----------------------------------------------------------------------------
(* Arithmetic of buckets and delays                                        *)

LEMMA ConstantTypes ==
    /\ Token \in Nat \ {0} /\ GlobalBurst \in Nat \ {0} /\ GlobalRate \in Nat \ {0}
    /\ ClientBurst \in Nat \ {0} /\ ClientRate \in Nat \ {0} /\ MaxClients \in Nat \ {0}
    /\ ClientIdle \in Nat \ {0} /\ Second \in Nat \ {0} /\ MaxDelay \in Nat \ {0}
    /\ FailureCap \in 1..6 /\ MaxTime \in Nat /\ MaxAttempts \in Nat
    /\ None \notin Address /\ None \notin Handler
  BY LoginAdmissionAssumption

\* The capacity of a bucket and what it gains are numbers.
LEMMA Products ==
    ASSUME NEW x \in Nat, NEW y \in Nat
    PROVE  x * y \in Nat
  BY SMT

LEMMA Sums ==
    ASSUME NEW a \in Nat, NEW b \in Nat, NEW c \in Nat, NEW d \in Nat, NEW e \in Nat,
           b + c = d, a <= e + c
    PROVE  a + b <= e + d
  OBVIOUS

LEMMA RefillType ==
    ASSUME NEW burst \in Nat, NEW rate \in Nat, NEW bucket \in Bucket(burst), NEW t \in 0..MaxTime
    PROVE  refill(bucket, rate, burst, t) \in Bucket(burst)
  <1>1. burst * Token \in Nat  BY ConstantTypes, Products
  <1>2. CASE t > bucket.updated
    <2>1. rate * (t - bucket.updated) \in Nat
      BY <1>2, ConstantTypes, Products DEF Bucket
    <2>2. bucket.tokens + rate * (t - bucket.updated) \in Nat  BY <2>1, <1>1 DEF Bucket
    <2>3. Least(burst * Token, bucket.tokens + rate * (t - bucket.updated)) \in 0..(burst * Token)
      BY <2>2, <1>1 DEF Least
    <2> QED  BY <1>2, <2>3 DEF refill, Bucket
  <1>3. CASE ~(t > bucket.updated)  BY <1>3 DEF refill
  <1> QED  BY <1>2, <1>3

\* A refill adds no more than the rate times what the stamp grows by.
LEMMA RefillGains ==
    ASSUME NEW burst \in Nat, NEW rate \in Nat, NEW bucket \in Bucket(burst), NEW t \in 0..MaxTime
    PROVE  refill(bucket, rate, burst, t).tokens + rate * bucket.updated
             <= bucket.tokens + rate * refill(bucket, rate, burst, t).updated
  <1> DEFINE u == bucket.updated
  <1>0. u \in 0..MaxTime /\ bucket.tokens \in Nat /\ MaxTime \in Nat /\ burst * Token \in Nat
    BY ConstantTypes, Products DEF Bucket
  <1>1. CASE t > u
    <2>1. rate * (t - u) \in Nat /\ rate * u \in Nat /\ rate * t \in Nat
      BY <1>0, <1>1, Products
    <2>2. rate * u + rate * (t - u) = rate * t
      BY <1>0, <1>1, SMT
    <2>3. Least(burst * Token, bucket.tokens + rate * (t - u)) <= bucket.tokens + rate * (t - u)
      BY <1>0, <2>1 DEF Least
    <2>4. refill(bucket, rate, burst, t) =
            [tokens |-> Least(burst * Token, bucket.tokens + rate * (t - u)), updated |-> t]
      BY <1>1 DEF refill
    <2>5. Least(burst * Token, bucket.tokens + rate * (t - u)) \in Nat
      BY <1>0, <2>1 DEF Least
    <2>6. Least(burst * Token, bucket.tokens + rate * (t - u)) + rate * u <= bucket.tokens + rate * t
      BY <1>0, <2>1, <2>2, <2>3, <2>5, Sums
    <2> QED  BY <2>4, <2>6
  <1>2. CASE ~(t > u)
    <2>1. refill(bucket, rate, burst, t) = bucket  BY <1>2 DEF refill
    <2>2. rate * u \in Nat  BY <1>0, Products
    <2> QED  BY <1>0, <2>1, <2>2
  <1> QED  BY <1>1, <1>2

LEMMA DelayType ==
    ASSUME NEW n \in 1..FailureCap
    PROVE  Delay(n) \in 0..MaxDelay
  <1>1. n \in 1..6  BY ConstantTypes
  <1>2. <<1, 2, 4, 8, 16, 32>>[n] \in Nat  BY <1>1
  <1>3. Second * <<1, 2, 4, 8, 16, 32>>[n] \in Nat  BY <1>2, ConstantTypes, Products
  <1> QED  BY <1>3, ConstantTypes DEF Delay, Least

----------------------------------------------------------------------------
(* The table under its mutex                                               *)

Occupied(table) == {x \in Address : table[x] # None}

Bounded(table) ==
    /\ table \in [Address -> EntryType \cup {None}]
    /\ IsFiniteSet(Occupied(table)) /\ Cardinality(Occupied(table)) <= MaxClients

\* Forgetting entries keeps the table bounded.
LEMMA PruneType ==
    ASSUME TypeInv, NEW t \in 0..MaxTime
    PROVE  Bounded(prune(t))
  <1>1. prune(t) \in [Address -> EntryType \cup {None}]  BY DEF prune, TypeInv
  <1>2. Occupied(prune(t)) \subseteq Known  BY DEF Occupied, prune, Known
  <1>3. IsFiniteSet(Known) /\ Cardinality(Known) <= MaxClients  BY DEF TypeInv
  <1>4. IsFiniteSet(Occupied(prune(t))) /\ Cardinality(Occupied(prune(t))) <= Cardinality(Known)
    BY <1>2, <1>3, FS_Subset
  <1>5. Cardinality(Known) \in Nat /\ Cardinality(Occupied(prune(t))) \in Nat
    BY <1>3, <1>4, FS_CardinalityType
  <1> QED  BY <1>1, <1>3, <1>4, <1>5, ConstantTypes DEF Bounded

\* An entry is written where there is one, or where there is room.
LEMMA EntryWritten ==
    ASSUME NEW table, Bounded(table), NEW a \in Address, NEW e \in EntryType, ~Full(table, a)
    PROVE  Bounded([table EXCEPT ![a] = e])
  <1> DEFINE new == [table EXCEPT ![a] = e]
  <1>1. new \in [Address -> EntryType \cup {None}]  BY DEF Bounded
  <1>2. IsFiniteSet(Occupied(table)) /\ Cardinality(Occupied(table)) \in Nat /\ Cardinality(Occupied(table)) <= MaxClients
    BY FS_CardinalityType DEF Bounded
  <1>3. Occupied(new) \subseteq Occupied(table) \cup {a}  BY DEF Occupied, Bounded
  <1>4. IsFiniteSet(Occupied(table) \cup {a}) /\ Cardinality(Occupied(table) \cup {a}) <= MaxClients
    <2>1. CASE table[a] # None
      <3>1. Occupied(table) \cup {a} = Occupied(table)  BY <2>1 DEF Occupied
      <3> QED  BY <3>1, <1>2
    <2>2. CASE table[a] = None
      <3>1. ~(Cardinality(Occupied(table)) >= MaxClients)  BY <2>2 DEF Full, Occupied
      <3>2. a \notin Occupied(table)  BY <2>2 DEF Occupied
      <3>3. /\ IsFiniteSet(Occupied(table) \cup {a})
            /\ Cardinality(Occupied(table) \cup {a}) = Cardinality(Occupied(table)) + 1
        BY <1>2, <3>2, FS_AddElement
      <3> QED  BY <1>2, <3>1, <3>3, ConstantTypes
    <2> QED  BY <2>1, <2>2
  <1>5. /\ IsFiniteSet(Occupied(new)) /\ Cardinality(Occupied(new)) <= Cardinality(Occupied(table) \cup {a})
        /\ Cardinality(Occupied(new)) \in Nat /\ Cardinality(Occupied(table) \cup {a}) \in Nat
    BY <1>3, <1>4, FS_Subset, FS_CardinalityType
  <1>6. Cardinality(Occupied(new)) <= MaxClients  BY <1>4, <1>5, ConstantTypes
  <1> QED  BY <1>1, <1>5, <1>6 DEF Bounded

\* What an answer takes from the bucket of the service.
Cost(answer) == IF answer.ok THEN Token ELSE 0

LEMMA AllowType ==
    ASSUME TypeInv, NEW a \in Address, NEW t \in 0..MaxTime
    PROVE  /\ allow(a, t).ok \in BOOLEAN
           /\ allow(a, t).global \in Bucket(GlobalBurst)
           /\ Bounded(allow(a, t).client)
           /\ allow(a, t).global.tokens + Cost(allow(a, t)) + GlobalRate * global.updated
                <= global.tokens + GlobalRate * allow(a, t).global.updated
  <1> DEFINE pruned == prune(t)
             entry == [(IF pruned[a] = None THEN Entry(t) ELSE pruned[a]) EXCEPT !.seen = t]
             g == refill(global, GlobalRate, GlobalBurst, t)
             b == refill(entry.bucket, ClientRate, ClientBurst, t)
             With(bucket) == [pruned EXCEPT ![a] = [entry EXCEPT !.bucket = bucket]]
  <1>1. Bounded(pruned)  BY PruneType
  <1>2. Entry(t) \in EntryType
    <2>1. ClientBurst * Token \in Nat  BY ConstantTypes, Products
    <2> QED  BY <2>1, ConstantTypes DEF Entry, EntryType, Bucket
  <1>3. entry \in EntryType
    <2>1. (IF pruned[a] = None THEN Entry(t) ELSE pruned[a]) \in EntryType
      BY <1>1, <1>2 DEF Bounded
    <2> QED  BY <2>1 DEF EntryType
  <1>4. global \in Bucket(GlobalBurst) /\ entry.bucket \in Bucket(ClientBurst)
    BY <1>3 DEF TypeInv, EntryType
  <1>5. g \in Bucket(GlobalBurst)  BY <1>4, ConstantTypes, RefillType
  <1>6. b \in Bucket(ClientBurst)  BY <1>4, ConstantTypes, RefillType
  <1>7. g.tokens + GlobalRate * global.updated <= global.tokens + GlobalRate * g.updated
    BY <1>4, ConstantTypes, RefillGains
  <1>8. ASSUME NEW bucket \in Bucket(ClientBurst), ~Full(pruned, a)
        PROVE  Bounded(With(bucket))
    <2>1. [entry EXCEPT !.bucket = bucket] \in EntryType  BY <1>3 DEF EntryType
    <2> HIDE DEF pruned, entry
    <2> QED  BY <1>1, <1>8, <2>1, EntryWritten
  <1>9. /\ global.tokens \in Nat /\ global.updated \in Nat /\ g.tokens \in Nat /\ g.updated \in Nat
        /\ GlobalRate * global.updated \in Nat /\ GlobalRate * g.updated \in Nat
    <2>1. /\ global.tokens \in Nat /\ global.updated \in Nat /\ g.tokens \in Nat /\ g.updated \in Nat
      <3>1. GlobalBurst * Token \in Nat  BY ConstantTypes, Products
      <3> HIDE DEF g
      <3> QED  BY <1>4, <1>5, <3>1, ConstantTypes DEF Bucket
    <2> HIDE DEF g
    <2> QED  BY <2>1, ConstantTypes, Products
  <1>10. CASE Full(pruned, a)
    <2>1. allow(a, t) = Refuse("full", ClientIdle, global, pruned)  BY <1>10 DEF allow
    <2> HIDE DEF pruned
    <2> QED  BY <2>1, <1>1, <1>4, <1>9 DEF Refuse, Cost
  <1>11. CASE ~Full(pruned, a) /\ t < entry.blockedUntil
    <2>1. allow(a, t) = Refuse("blocked", ceilSecond(entry.blockedUntil - t), global, With(entry.bucket))
      BY <1>11 DEF allow
    <2>2. Bounded(With(entry.bucket))  BY <1>4, <1>8, <1>11
    <2> HIDE DEF pruned, entry, With
    <2> QED  BY <2>1, <2>2, <1>4, <1>9 DEF Refuse, Cost
  <1>12. CASE ~Full(pruned, a) /\ ~(t < entry.blockedUntil)
    <2>1. Bounded(With(b))  BY <1>6, <1>8, <1>12
    <2>2. CASE g.tokens < Token
      <3>1. allow(a, t) = Refuse("global", tokenRetry(g, GlobalRate), g, With(b))
        BY <1>12, <2>2 DEF allow
      <3> HIDE DEF g, b, With
      <3> QED  BY <3>1, <2>1, <1>5, <1>7, <1>9 DEF Refuse, Cost
    <2>3. CASE ~(g.tokens < Token) /\ b.tokens < Token
      <3>1. allow(a, t) = Refuse("client", tokenRetry(b, ClientRate), g, With(b))
        BY <1>12, <2>3 DEF allow
      <3> HIDE DEF g, b, With
      <3> QED  BY <3>1, <2>1, <1>5, <1>7, <1>9 DEF Refuse, Cost
    <2>4. CASE ~(g.tokens < Token) /\ ~(b.tokens < Token)
      <3> DEFINE left == [g EXCEPT !.tokens = @ - Token]
                 kept == With([b EXCEPT !.tokens = @ - Token])
      <3>1. allow(a, t) = [ok |-> TRUE, why |-> "none", retry |-> 0, global |-> left, client |-> kept]
        BY <1>12, <2>4 DEF allow
      <3>2. [b EXCEPT !.tokens = @ - Token] \in Bucket(ClientBurst)
        <4>1. ClientBurst * Token \in Nat  BY ConstantTypes, Products
        <4> HIDE DEF b
        <4> QED  BY <1>6, <2>4, <4>1, ConstantTypes DEF Bucket
      <3>3. Bounded(With([b EXCEPT !.tokens = @ - Token]))  BY <1>8, <1>12, <3>2
      <3>4. [g EXCEPT !.tokens = @ - Token] \in Bucket(GlobalBurst)
        <4>1. GlobalBurst * Token \in Nat  BY ConstantTypes, Products
        <4> HIDE DEF g
        <4> QED  BY <1>5, <2>4, <4>1, ConstantTypes DEF Bucket
      <3>5. g.tokens - Token + Token + GlobalRate * global.updated <= global.tokens + GlobalRate * g.updated
        <4> HIDE DEF g
        <4> QED  BY <1>7, <1>9, ConstantTypes
      <3>6. [g EXCEPT !.tokens = @ - Token].tokens = g.tokens - Token /\ [g EXCEPT !.tokens = @ - Token].updated = g.updated
        <4> HIDE DEF g
        <4> QED  BY <1>5 DEF Bucket
      <3>7. /\ allow(a, t).ok = TRUE /\ allow(a, t).global = left /\ allow(a, t).client = kept
        <4> HIDE DEF left, kept
        <4> QED  BY <3>1
      <3>8. Cost(allow(a, t)) = Token  BY <3>7 DEF Cost
      <3>9. left.tokens + Token + GlobalRate * global.updated <= global.tokens + GlobalRate * left.updated
        <4> HIDE DEF g
        <4> QED  BY <3>5, <3>6
      <3> HIDE DEF left, kept
      <3> QED  BY <3>3, <3>4, <3>7, <3>8, <3>9 DEF left, kept
    <2> QED  BY <2>2, <2>3, <2>4
  <1> QED  BY <1>10, <1>11, <1>12

----------------------------------------------------------------------------
(* The inductive invariant                                                 *)

\* A full bucket, an empty table, nobody under way.
LEMMA InitInv == Init => IInv
  <1> SUFFICES ASSUME Init PROVE IInv
    OBVIOUS
  <1>1. GlobalBurst * Token \in Nat /\ Token * GlobalBurst = GlobalBurst * Token
    BY ConstantTypes, Products
  <1>2. global \in Bucket(GlobalBurst)  BY <1>1, ConstantTypes DEF Init, Bucket
  <1>3. Known = {}  BY DEF Init, Known
  <1>4. IsFiniteSet(Known) /\ Cardinality(Known) <= MaxClients
    BY <1>3, FS_EmptySet, ConstantTypes
  <1>5. TypeInv  BY <1>2, <1>4, ConstantTypes DEF Init, TypeInv, Idle, Step
  <1>6. OneDerivation  BY ConstantTypes DEF Init, OneDerivation, Idle
  <1>7. Token * 0 = 0 /\ GlobalRate * 0 = 0  BY ConstantTypes
  <1>8. TokensConserved  BY <1>1, <1>7 DEF Init, TokensConserved
  <1> QED  BY <1>5, <1>6, <1>8 DEF IInv

LEMMA EntryUpdate ==
    ASSUME NEW e \in EntryType, NEW f \in 0..FailureCap, NEW b \in -1..(MaxTime + MaxDelay), NEW t \in 0..MaxTime
    PROVE  [e EXCEPT !.failures = f, !.blockedUntil = b, !.seen = t] \in EntryType
  <1>1. [e EXCEPT !.failures = f] \in EntryType  BY DEF EntryType
  <1>2. [[e EXCEPT !.failures = f] EXCEPT !.blockedUntil = b] \in EntryType
    <2> DEFINE e1 == [e EXCEPT !.failures = f]
    <2> HIDE DEF e1
    <2> QED  BY <1>1 DEF EntryType
  <1>3. [[[e EXCEPT !.failures = f] EXCEPT !.blockedUntil = b] EXCEPT !.seen = t] \in EntryType
    <2> DEFINE e2 == [[e EXCEPT !.failures = f] EXCEPT !.blockedUntil = b]
    <2> HIDE DEF e2
    <2> QED  BY <1>2 DEF EntryType
  <1> QED  BY <1>3, Zenon

\* What a failure or a success leaves in the table.
LEMMA ResultType ==
    ASSUME TypeInv, NEW a \in Address, NEW t \in 0..MaxTime
    PROVE  Bounded(failed(a, t)) /\ Bounded(succeeded(a, t))
  <1>1. Bounded(client)  BY DEF Bounded, TypeInv, Known, Occupied
  <1>2. CASE client[a] = None  BY <1>1, <1>2 DEF failed, succeeded
  <1>3. CASE client[a] # None
    <2>1. client[a] \in EntryType  BY <1>3 DEF TypeInv
    <2>2. ~Full(client, a)  BY <1>3 DEF Full
    <2> DEFINE n == Least(client[a].failures + 1, FailureCap)
    <2>3. n \in 1..FailureCap  BY <2>1, ConstantTypes DEF Least, EntryType
    <2>4. Delay(n) \in 0..MaxDelay  BY <2>3, DelayType
    <2>5. t + Delay(n) \in -1..(MaxTime + MaxDelay)  BY <2>4, ConstantTypes
    <2> HIDE DEF n
    <2>6. /\ n \in 0..FailureCap /\ 0 \in 0..FailureCap /\ -1 \in -1..(MaxTime + MaxDelay)
      BY <2>3, ConstantTypes
    <2> DEFINE e == [client[a] EXCEPT !.failures = n, !.blockedUntil = t + Delay(n), !.seen = t]
               f == [client[a] EXCEPT !.failures = 0, !.blockedUntil = -1, !.seen = t]
    <2>7. e \in EntryType /\ f \in EntryType
      BY <2>1, <2>5, <2>6, EntryUpdate, Zenon
    <2>8. failed(a, t) = [client EXCEPT ![a] = e] /\ succeeded(a, t) = [client EXCEPT ![a] = f]
      BY <1>3 DEF failed, succeeded, n
    <2> HIDE DEF e, f
    <2>9. Bounded([client EXCEPT ![a] = e]) /\ Bounded([client EXCEPT ![a] = f])
      BY <1>1, <2>2, <2>7, EntryWritten
    <2> QED  BY <2>8, <2>9
  <1> QED  BY <1>2, <1>3

\* A handler's move keeps the types of handlers.
HandlerType ==
    /\ handler \in [Handler -> [pc : Step, from : Address \cup {None}, at : 0..MaxTime]]
    /\ \A h \in Handler : handler[h].pc # "idle" => handler[h].from \in Address

LEMMA MoveType ==
    ASSUME HandlerType, NEW h \in Handler, NEW from, NEW to, Move(h, from, to),
           to \in [pc : Step, from : Address \cup {None}, at : 0..MaxTime],
           to.pc # "idle" => to.from \in Address
    PROVE  HandlerType'
  BY DEF HandlerType, Move

\* One conjunct each: the slot is held by the one handler between the select and the
\* deferred receive; a bucket pays for what it lets through.
LEMMA StepInv == IInv /\ [Next]_vars => IInv'
  <1> SUFFICES ASSUME IInv, [Next]_vars PROVE IInv'
    OBVIOUS
  <1> USE DEF IInv
  <1>0. HandlerType /\ Bounded(client) /\ Idle \in [pc : Step, from : Address \cup {None}, at : 0..MaxTime]
    BY ConstantTypes DEF HandlerType, TypeInv, Bounded, Occupied, Known, Idle, Step
  <1>1. ASSUME NEW h \in Handler, NEW a \in Address, Arrive(h, a) PROVE IInv'
    <2>1. HandlerType'  BY <1>0, <1>1, MoveType DEF Arrive, TypeInv, Step
    <2>2. TypeInv'  BY <1>1, <2>1, ConstantTypes DEF Arrive, TypeInv, HandlerType, Known
    <2>3. OneDerivation'  BY <1>1 DEF Arrive, Move, OneDerivation, TypeInv, Step
    <2> QED  BY <1>1, <2>2, <2>3 DEF Arrive, TokensConserved
  <1>2. ASSUME NEW h \in Handler, Admit(h) PROVE IInv'
    <2> DEFINE a == handler[h].from
               t == handler[h].at
               answer == allow(a, t)
    <2>1. a \in Address /\ t \in 0..MaxTime  BY <1>2, <1>0 DEF Admit, Move, HandlerType
    <2>2. /\ answer.ok \in BOOLEAN /\ answer.global \in Bucket(GlobalBurst) /\ Bounded(answer.client)
          /\ answer.global.tokens + Cost(answer) + GlobalRate * global.updated
               <= global.tokens + GlobalRate * answer.global.updated
      BY <2>1, AllowType
    <2>3. /\ global' = answer.global /\ client' = answer.client
          /\ admitted' = IF answer.ok THEN admitted + 1 ELSE admitted
          /\ Move(h, "arrived", IF answer.ok THEN [handler[h] EXCEPT !.pc = "admitted"] ELSE Idle)
          /\ UNCHANGED <<now, slot, attempts>>
      BY <1>2 DEF Admit
    <2> HIDE DEF answer
    <2>4. HandlerType'
      <3>1. handler[h] \in [pc : Step, from : Address \cup {None}, at : 0..MaxTime]  BY <1>0 DEF HandlerType
      <3>2. [handler[h] EXCEPT !.pc = "admitted"] \in [pc : Step, from : Address \cup {None}, at : 0..MaxTime]
        BY <3>1 DEF Step
      <3> QED  BY <1>0, <2>1, <2>3, <3>1, <3>2, MoveType DEF Idle
    <2>5. TypeInv'  BY <2>2, <2>3, <2>4 DEF TypeInv, HandlerType, Bounded, Known, Occupied
    <2>6. OneDerivation'
      BY <1>0, <2>3 DEF Move, OneDerivation, HandlerType, Idle
    <2>7. TokensConserved'
      <3>1. /\ admitted \in Nat /\ admitted' \in Nat /\ Cost(answer) \in Nat
            /\ Token * admitted \in Nat /\ Token * admitted' = Token * admitted + Cost(answer)
        <4>1. admitted \in Nat /\ admitted' \in Nat  BY <2>2, <2>3 DEF TypeInv
        <4>2. Token * admitted \in Nat  BY <4>1, ConstantTypes, Products
        <4>3. Token * (admitted + 1) = Token * admitted + Token  BY <4>1, ConstantTypes
        <4> QED  BY <2>2, <2>3, <4>1, <4>2, <4>3, ConstantTypes DEF Cost
      <3>2. /\ global.tokens \in Nat /\ global'.tokens \in Nat
            /\ GlobalRate * global.updated \in Nat /\ GlobalRate * global'.updated \in Nat
            /\ Token * GlobalBurst \in Nat
        <4>1. /\ global.tokens \in Nat /\ global'.tokens \in Nat /\ global.updated \in Nat /\ global'.updated \in Nat
          <5>1. GlobalBurst * Token \in Nat  BY ConstantTypes, Products
          <5> QED  BY <2>2, <2>3, <5>1, ConstantTypes DEF TypeInv, Bucket
        <4> QED  BY <4>1, ConstantTypes, Products
      <3>3. Token * admitted + global.tokens <= Token * GlobalBurst + GlobalRate * global.updated
        BY DEF TokensConserved
      <3>4. global'.tokens + Cost(answer) + GlobalRate * global.updated <= global.tokens + GlobalRate * global'.updated
        BY <2>2, <2>3
      <3>5. Token * admitted' + global'.tokens <= Token * GlobalBurst + GlobalRate * global'.updated
        BY <3>1, <3>2, <3>3, <3>4
      <3> QED  BY <3>5 DEF TokensConserved
    <2> QED  BY <2>5, <2>6, <2>7
  <1>3. ASSUME NEW h \in Handler, TakeSlot(h) PROVE IInv'
    <2>1. handler[h] \in [pc : Step, from : Address \cup {None}, at : 0..MaxTime] /\ handler[h].from \in Address
      BY <1>0, <1>3 DEF HandlerType, TakeSlot, Move
    <2>2. [handler[h] EXCEPT !.pc = "deriving"] \in [pc : Step, from : Address \cup {None}, at : 0..MaxTime]
      BY <2>1 DEF Step
    <2>3. HandlerType'  BY <1>0, <1>3, <2>1, <2>2, MoveType DEF TakeSlot, Idle
    <2>4. TypeInv'  BY <1>3, <2>3 DEF TakeSlot, TypeInv, HandlerType, Known
    <2>5. OneDerivation'
      BY <1>0, <1>3, ConstantTypes DEF TakeSlot, Move, OneDerivation, HandlerType, Idle, TypeInv
    <2> QED  BY <1>3, <2>4, <2>5 DEF TakeSlot, TokensConserved
  <1>4. ASSUME NEW h \in Handler, CancelAdmitted(h) PROVE IInv'
    <2>1. HandlerType'  BY <1>0, <1>4, MoveType DEF CancelAdmitted, Idle
    <2>2. TypeInv'  BY <1>4, <2>1 DEF CancelAdmitted, TypeInv, HandlerType, Known
    <2>3. OneDerivation'  BY <1>0, <1>4 DEF CancelAdmitted, Move, OneDerivation, HandlerType, Idle
    <2> QED  BY <1>4, <2>2, <2>3 DEF CancelAdmitted, TokensConserved
  <1>5. ASSUME NEW h \in Handler, NEW result, Derived(h, result) PROVE IInv'
    <2>1. handler[h] \in [pc : Step, from : Address \cup {None}, at : 0..MaxTime] /\ handler[h].from \in Address
      BY <1>0, <1>5 DEF HandlerType, Derived, Move
    <2>2. At(h, result) \in [pc : Step, from : Address \cup {None}, at : 0..MaxTime] /\ At(h, result).from \in Address
      BY <1>5, <2>1 DEF At, Derived, Step, TypeInv
    <2>3. HandlerType'  BY <1>0, <1>5, <2>2, MoveType DEF Derived
    <2>4. TypeInv'  BY <1>5, <2>3 DEF Derived, TypeInv, HandlerType, Known
    <2>5. At(h, result).pc = result  BY <2>1 DEF At
    <2>6. OneDerivation'  BY <1>0, <1>5, <2>5 DEF Derived, Move, OneDerivation, HandlerType
    <2> QED  BY <1>5, <2>4, <2>6 DEF Derived, TokensConserved
  <1>6. ASSUME NEW h \in Handler, Unavailable(h) PROVE IInv'
    <2>1. HandlerType'  BY <1>0, <1>6, MoveType DEF Unavailable, Idle
    <2>2. TypeInv'  BY <1>6, <2>1 DEF Unavailable, TypeInv, HandlerType, Known
    <2>3. OneDerivation'
      BY <1>0, <1>6, ConstantTypes DEF Unavailable, Move, OneDerivation, HandlerType, Idle
    <2> QED  BY <1>6, <2>2, <2>3 DEF Unavailable, TokensConserved
  <1>7. ASSUME NEW h \in Handler, Settle(h) PROVE IInv'
    <2>1. handler[h].pc \in {"failed", "succeeded"} /\ \E from : Move(h, from, Idle)  BY <1>7 DEF Settle, Move
    <2>2. HandlerType'  BY <1>0, <2>1, MoveType DEF Idle
    <2>3. handler[h].from \in Address /\ handler[h].at \in 0..MaxTime  BY <1>0, <2>1 DEF HandlerType
    <2>4. Bounded(client')  BY <1>7, <2>3, ResultType DEF Settle
    <2>5. TypeInv'  BY <1>7, <2>2, <2>4 DEF Settle, TypeInv, HandlerType, Bounded, Known, Occupied
    <2>6. OneDerivation'
      BY <1>0, <1>7, <2>1, ConstantTypes DEF Settle, Move, OneDerivation, HandlerType, Idle
    <2> QED  BY <1>7, <2>5, <2>6 DEF Settle, TokensConserved
  <1>8. ASSUME NEW t \in 0..MaxTime, SetClock(t) PROVE IInv'
    <2>1. TypeInv'  BY <1>8 DEF SetClock, TypeInv, Known
    <2> QED  BY <1>8, <2>1 DEF SetClock, OneDerivation, TokensConserved
  <1>9. CASE UNCHANGED vars
    BY <1>9 DEF vars, TypeInv, Known, OneDerivation, TokensConserved
  <1> QED  BY <1>1, <1>2, <1>3, <1>4, <1>5, <1>6, <1>7, <1>8, <1>9 DEF Next, Login

----------------------------------------------------------------------------
(* Retry-After                                                             *)

\* A whole number of units that covers the amount.
LEMMA Covers ==
    ASSUME NEW x \in Nat, NEW unit \in Nat \ {0}
    PROVE  /\ (x + unit - 1) \div unit \in Nat
           /\ unit * ((x + unit - 1) \div unit) >= x
  <1> DEFINE n == x + unit - 1
  <1>1. n \in Nat  OBVIOUS
  <1>2. n = unit * (n \div unit) + (n % unit) /\ n \div unit \in Int /\ n % unit \in 0..(unit - 1)
    BY <1>1, SMT
  <1> HIDE DEF n
  <1>3. n \div unit >= 0  BY <1>1, <1>2, SMT
  <1>4. unit * (n \div unit) \in Nat  BY <1>2, <1>3, Products
  <1>5. unit * (n \div unit) >= n - (unit - 1)  BY <1>1, <1>2, <1>4
  <1> QED  BY <1>2, <1>3, <1>5 DEF n

LEMMA CeilSecondCovers ==
    ASSUME NEW ticks \in Nat
    PROVE  ceilSecond(ticks) \in Nat /\ ceilSecond(ticks) >= ticks
  <1>1. CASE ticks <= 0  BY <1>1, ConstantTypes DEF ceilSecond
  <1>2. CASE ~(ticks <= 0)
    <2> DEFINE n == (ticks + Second - 1) \div Second
    <2>1. n \in Nat /\ Second * n >= ticks  BY Covers, ConstantTypes
    <2>2. ceilSecond(ticks) = n * Second  BY <1>2 DEF ceilSecond
    <2> HIDE DEF n
    <2>3. n * Second = Second * n /\ n * Second \in Nat  BY <2>1, ConstantTypes, Products, SMT
    <2> QED  BY <2>1, <2>2, <2>3
  <1> QED  BY <1>1, <1>2

\* A larger factor gives a larger product.
LEMMA ProductGrows ==
    ASSUME NEW k \in Nat, NEW m \in Nat, NEW n \in Nat, m <= n
    PROVE  k * m <= k * n
  BY SMT

\* A bucket that lacks part of a token has it after tokenRetry.
LEMMA TokenRetrySuffices ==
    ASSUME NEW burst \in Nat \ {0}, NEW rate \in Nat \ {0}, NEW bucket \in Bucket(burst),
           bucket.tokens < Token, NEW t \in Nat, bucket.updated <= t
    PROVE  /\ tokenRetry(bucket, rate) \in Nat
           /\ refill(bucket, rate, burst, t + tokenRetry(bucket, rate)).tokens \in Nat
           /\ refill(bucket, rate, burst, t + tokenRetry(bucket, rate)).tokens >= Token
  <1> DEFINE lacks == Token - bucket.tokens
             ticks == (lacks + rate - 1) \div rate
             retry == tokenRetry(bucket, rate)
             gap   == t + retry - bucket.updated
  <1>1. /\ Token \in Nat /\ bucket.tokens \in Nat /\ bucket.updated \in Nat
        /\ lacks \in Nat /\ lacks > 0
    <2>1. burst * Token \in Nat  BY ConstantTypes, Products
    <2> QED  BY <2>1, ConstantTypes DEF Bucket
  <1>2. ticks \in Nat /\ rate * ticks >= lacks
    <2> HIDE DEF lacks
    <2> QED  BY <1>1, Covers
  <1>3. retry = ceilSecond(ticks)  BY DEF tokenRetry
  <1>4. retry \in Nat /\ retry >= ticks
    <2> HIDE DEF ticks, retry
    <2> QED  BY <1>2, <1>3, CeilSecondCovers
  <1> HIDE DEF ticks, retry
  <1>5. retry > 0
    <2>1. ticks # 0
      <3> SUFFICES ASSUME ticks = 0 PROVE FALSE  OBVIOUS
      <3>1. rate * ticks = 0  BY SMT
      <3> QED  BY <1>1, <1>2, <3>1
    <2> QED  BY <1>2, <1>4, <2>1
  <1>6. gap \in Nat /\ gap >= retry /\ t + retry > bucket.updated  BY <1>1, <1>4, <1>5
  <1>7. rate * gap \in Nat /\ rate * ticks \in Nat /\ rate * gap >= rate * ticks
    <2> HIDE DEF gap
    <2>1. ticks <= gap  BY <1>2, <1>4, <1>6
    <2> QED  BY <1>2, <1>6, <2>1, Products, ProductGrows
  <1>8. bucket.tokens + rate * gap >= Token
    <2> HIDE DEF gap
    <2> QED  BY <1>1, <1>2, <1>7
  <1>9. burst * Token >= Token
    <2>1. Token * 1 <= Token * burst  BY ConstantTypes, ProductGrows
    <2>2. Token * 1 = Token /\ Token * burst = burst * Token  BY ConstantTypes, SMT
    <2> QED  BY <2>1, <2>2
  <1>10. refill(bucket, rate, burst, t + retry).tokens = Least(burst * Token, bucket.tokens + rate * gap)
    <2>1. refill(bucket, rate, burst, t + retry) =
            [tokens |-> Least(burst * Token, bucket.tokens + rate * gap), updated |-> t + retry]
      BY <1>1, <1>4, <1>6 DEF refill
    <2> HIDE DEF gap
    <2> QED  BY <2>1
  <1>11. /\ Least(burst * Token, bucket.tokens + rate * gap) \in Nat
         /\ Least(burst * Token, bucket.tokens + rate * gap) >= Token
    <2> HIDE DEF gap
    <2>1. burst * Token \in Nat  BY ConstantTypes, Products
    <2> QED  BY <1>1, <1>7, <1>8, <1>9, <2>1 DEF Least
  <1> QED  BY <1>4, <1>10, <1>11 DEF retry

\* In step, refill at the present leaves a bucket whose stamp is not ahead of it.
LEMMA RefillInStep ==
    ASSUME NEW bucket, NEW rate, NEW burst, NEW t \in Nat, bucket.updated \in Nat, bucket.updated <= t
    PROVE  refill(bucket, rate, burst, t).updated <= t
  BY DEF refill

\* One step per reason that allow refuses for.
LEMMA RefusalEnds ==
    ASSUME TypeInv, InStep, NEW a \in Address, ~allow(a, now).ok
    PROVE  ~Again(allow(a, now), a, now + allow(a, now).retry)
  <1> DEFINE answer == allow(a, now)
             pruned == prune(now)
             entry  == [(IF pruned[a] = None THEN Entry(now) ELSE pruned[a]) EXCEPT !.seen = now]
             g      == refill(global, GlobalRate, GlobalBurst, now)
             b      == refill(entry.bucket, ClientRate, ClientBurst, now)
             With(bucket) == [pruned EXCEPT ![a] = [entry EXCEPT !.bucket = bucket]]
  <1>0. now \in Nat /\ now \in 0..MaxTime /\ MaxTime \in Nat  BY ConstantTypes DEF TypeInv
  <1>1. pruned \in [Address -> EntryType \cup {None}]  BY DEF prune, TypeInv
  <1>2. \A x \in Address : pruned[x] # None => x \in Known /\ pruned[x] = client[x]
    BY DEF prune, Known
  <1>3. entry \in EntryType /\ entry.bucket.updated <= now
    <2>1. CASE pruned[a] = None
      <3>1. ClientBurst * Token \in Nat  BY ConstantTypes, Products
      <3>2. Entry(now) \in EntryType
        BY <1>0, <3>1, ConstantTypes DEF Entry, EntryType, Bucket
      <3> QED  BY <1>0, <2>1, <3>2 DEF Entry, EntryType
    <2>2. CASE pruned[a] # None
      <3>1. pruned[a] \in EntryType /\ pruned[a] = client[a] /\ a \in Known  BY <1>1, <1>2, <2>2
      <3>2. client[a].bucket.updated <= now  BY <3>1 DEF InStep
      <3> HIDE DEF pruned
      <3> QED  BY <1>0, <2>2, <3>1, <3>2 DEF EntryType
    <2> QED  BY <2>1, <2>2
  <1>4. g \in Bucket(GlobalBurst) /\ g.updated <= now
    <2>1. global \in Bucket(GlobalBurst) /\ global.updated <= now  BY DEF TypeInv, InStep
    <2>2. global.updated \in Nat  BY <2>1, <1>0 DEF Bucket
    <2> QED  BY <1>0, <2>1, <2>2, ConstantTypes, RefillType, RefillInStep
  <1>5. b \in Bucket(ClientBurst) /\ b.updated <= now
    <2> HIDE DEF entry
    <2>1. entry.bucket \in Bucket(ClientBurst)  BY <1>3 DEF EntryType
    <2>2. entry.bucket.updated \in Nat  BY <2>1, <1>0 DEF Bucket
    <2> QED  BY <1>0, <1>3, <2>1, <2>2, ConstantTypes, RefillType, RefillInStep
  <1>6. \A bucket : With(bucket)[a] = [entry EXCEPT !.bucket = bucket]
    <2> HIDE DEF entry, pruned
    <2> QED  BY <1>1
  <1>7. \A bucket : [entry EXCEPT !.bucket = bucket].bucket = bucket
                    /\ [entry EXCEPT !.bucket = bucket].blockedUntil = entry.blockedUntil
    <2> HIDE DEF entry
    <2> QED  BY <1>3 DEF EntryType
  <1>8. CASE Full(pruned, a)
    <2>1. answer = Refuse("full", ClientIdle, global, pruned)  BY <1>8 DEF allow
    <2>2. answer.why = "full" /\ answer.retry = ClientIdle /\ answer.client = pruned
      <3> HIDE DEF answer, pruned
      <3> QED  BY <2>1 DEF Refuse
    <2>3. \A x \in Address : pruned[x] # None => pruned[x].seen \in Nat /\ pruned[x].seen <= now
      <3> SUFFICES ASSUME NEW x \in Address, pruned[x] # None
                   PROVE  pruned[x].seen \in Nat /\ pruned[x].seen <= now
        OBVIOUS
      <3> HIDE DEF pruned
      <3>1. pruned[x] \in EntryType /\ x \in Known /\ pruned[x] = client[x]  BY <1>1, <1>2
      <3>2. client[x].seen <= now  BY <3>1 DEF InStep
      <3> QED  BY <1>0, <3>1, <3>2 DEF EntryType
    <2> HIDE DEF answer, pruned
    <2>4. ~(\E x \in Address : pruned[x] # None /\ now + ClientIdle < pruned[x].seen + ClientIdle)
      BY <1>0, <2>3, ConstantTypes
    <2>5. ~Again(answer, a, now + ClientIdle)  BY <2>2, <2>4 DEF Again
    <2> QED  BY <2>2, <2>5 DEF answer
  <1>9. CASE ~Full(pruned, a) /\ now < entry.blockedUntil
    <2> DEFINE wait == entry.blockedUntil - now
    <2>1. answer = Refuse("blocked", ceilSecond(wait), global, With(entry.bucket))
      BY <1>9 DEF allow
    <2> HIDE DEF answer, entry, pruned
    <2>2. entry.blockedUntil \in Int  BY <1>3, <1>0, ConstantTypes DEF EntryType
    <2>3. wait \in Nat  BY <1>0, <1>9, <2>2
    <2>4. ceilSecond(wait) \in Nat /\ ceilSecond(wait) >= wait
      <3> HIDE DEF wait
      <3> QED  BY <2>3, CeilSecondCovers
    <2>5. answer.why = "blocked" /\ answer.retry = ceilSecond(wait) /\ answer.client[a].blockedUntil = entry.blockedUntil
      <3> HIDE DEF wait
      <3>1. answer.why = "blocked" /\ answer.retry = ceilSecond(wait) /\ answer.client = With(entry.bucket)
        <4> HIDE DEF With
        <4> QED  BY <2>1 DEF Refuse
      <3>2. With(entry.bucket)[a] = [entry EXCEPT !.bucket = entry.bucket]  BY <1>6
      <3>3. [entry EXCEPT !.bucket = entry.bucket].blockedUntil = entry.blockedUntil  BY <1>7
      <3> HIDE DEF With
      <3> QED  BY <3>1, <3>2, <3>3
    <2>6. ~(now + ceilSecond(wait) < entry.blockedUntil)  BY <1>0, <2>2, <2>4
    <2> HIDE DEF wait
    <2>7. ~Again(answer, a, now + ceilSecond(wait))  BY <2>5, <2>6 DEF Again
    <2> QED  BY <2>5, <2>7 DEF answer
  <1>10. CASE ~Full(pruned, a) /\ ~(now < entry.blockedUntil) /\ g.tokens < Token
    <2>1. answer = Refuse("global", tokenRetry(g, GlobalRate), g, With(b))
      BY <1>10 DEF allow
    <2> HIDE DEF answer, entry, pruned, g, b, With
    <2>2. answer.why = "global" /\ answer.retry = tokenRetry(g, GlobalRate) /\ answer.global = g
      BY <2>1 DEF Refuse
    <2>3. /\ tokenRetry(g, GlobalRate) \in Nat
          /\ refill(g, GlobalRate, GlobalBurst, now + tokenRetry(g, GlobalRate)).tokens \in Nat
          /\ refill(g, GlobalRate, GlobalBurst, now + tokenRetry(g, GlobalRate)).tokens >= Token
      BY <1>0, <1>4, <1>10, ConstantTypes, TokenRetrySuffices
    <2>4. ~Again(answer, a, now + tokenRetry(g, GlobalRate))
      BY <2>2, <2>3, ConstantTypes DEF Again
    <2> QED  BY <2>2, <2>4 DEF answer
  <1>11. CASE ~Full(pruned, a) /\ ~(now < entry.blockedUntil) /\ ~(g.tokens < Token) /\ b.tokens < Token
    <2>1. answer = Refuse("client", tokenRetry(b, ClientRate), g, With(b))
      BY <1>11 DEF allow
    <2> HIDE DEF answer, entry, pruned, g, b
    <2>2. answer.why = "client" /\ answer.retry = tokenRetry(b, ClientRate) /\ answer.client[a].bucket = b
      <3>1. answer.why = "client" /\ answer.retry = tokenRetry(b, ClientRate) /\ answer.client = With(b)
        <4> HIDE DEF With
        <4> QED  BY <2>1 DEF Refuse
      <3>2. With(b)[a] = [entry EXCEPT !.bucket = b]  BY <1>6
      <3>3. [entry EXCEPT !.bucket = b].bucket = b  BY <1>7
      <3> HIDE DEF With
      <3> QED  BY <3>1, <3>2, <3>3
    <2>3. /\ tokenRetry(b, ClientRate) \in Nat
          /\ refill(b, ClientRate, ClientBurst, now + tokenRetry(b, ClientRate)).tokens \in Nat
          /\ refill(b, ClientRate, ClientBurst, now + tokenRetry(b, ClientRate)).tokens >= Token
      BY <1>0, <1>5, <1>11, ConstantTypes, TokenRetrySuffices
    <2>4. ~Again(answer, a, now + tokenRetry(b, ClientRate))
      BY <2>2, <2>3, ConstantTypes DEF Again
    <2> QED  BY <2>2, <2>4 DEF answer
  <1>12. CASE ~Full(pruned, a) /\ ~(now < entry.blockedUntil) /\ ~(g.tokens < Token) /\ ~(b.tokens < Token)
    <2>1. answer.ok  BY <1>12 DEF allow
    <2> QED  BY <2>1
  <1> QED  BY <1>8, <1>9, <1>10, <1>11, <1>12

----------------------------------------------------------------------------
(* Theorems                                                                *)

\* Every reachable state has the inductive invariant.
THEOREM LoginInvariance == Spec => []IInv
  BY InitInv, StepInv, PTL DEF Spec

\* The state keeps its type, and the table its bound, for every number of addresses.
THEOREM LoginTypeCorrect == Spec => []TypeOK
  <1>1. IInv => TypeOK
    BY DEF IInv, TypeInv, TypeOK, Known, EntryType, Step
  <1> QED  BY <1>1, LoginInvariance, PTL

\* However the clock is set and in whatever order its readings reach it, what the
\* global bucket lets through (allow) is bounded by its burst and rate.  Nothing is
\* said of the bucket of one source, which starts full again after it was pruned.
THEOREM BucketsConserve == Spec => []TokensConserved
  <1>1. IInv => TokensConserved  BY DEF IInv
  <1> QED  BY <1>1, LoginInvariance, PTL

\* The channel derive has its one value exactly while one handler derives.
THEOREM SingleDerivation == Spec => []OneDerivation
  <1>1. IInv => OneDerivation  BY DEF IInv
  <1> QED  BY <1>1, LoginInvariance, PTL

\* An address that comes back after the Retry-After it was given, with nobody else in
\* between, is not refused again for that reason, for any rate, burst and second.
THEOREM RetryAfterIsEnough == Spec => []RetryAfterSuffices
  <1>1. IInv => RetryAfterSuffices  BY RefusalEnds DEF IInv, RetryAfterSuffices
  <1> QED  BY <1>1, LoginInvariance, PTL
=============================================================================
