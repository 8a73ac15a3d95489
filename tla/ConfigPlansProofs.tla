------------------------- MODULE ConfigPlansProofs -------------------------
(***************************************************************************)
(* Proofs about ConfigPlans, for every set of items, nonces, keys and      *)
(* generations.                                                            *)
(*                                                                         *)
(* The argument: a master key belongs to one generation, and under one key *)
(* the revision of a purpose never falls and moves whenever an item does.  *)
(* So a token that still verifies names the revision it was computed from, *)
(* and with it the items; and once it has changed something, its revision  *)
(* is behind for good, whether or not its nonce is remembered.             *)
(***************************************************************************)
EXTENDS ConfigPlans, TLAPS

BaseOf(g, purpose) == [i \in ItemsOf(purpose) |-> <<spec[g][i], stamp[g][i]>>]

ItemType  == [Item -> Definition \cup Setting \cup {Absent}]
StampType == [Item -> (Key \X (1..MaxRevision)) \cup {None}]

\* Resources hold specifications, and only absent ones have no stamp.
Consistent(s, t) ==
    \A i \in Resource : s[i] \in Definition \cup {Absent} /\ (s[i] = Absent <=> t[i] = None)

ResourcesInv == \A g \in Gen : Consistent(spec[g], stamp[g])

\* An archive is a copy of such a state.
BackupInv ==
    backup # None =>
        /\ backup.spec \in ItemType /\ backup.stamp \in StampType
        /\ backup.revision \in [Purpose -> 1..MaxRevision]
        /\ backup.secrets \in SUBSET Secret
        /\ Consistent(backup.spec, backup.stamp)
        /\ \A i \in Resource : backup.spec[i] # Absent => Requires[backup.spec[i]] \subseteq backup.secrets

\* A key that was ever active belongs to at most one generation.
KeyInv ==
    /\ \A g \in Gen : key[g] # None => key[g] \in usedKeys
    /\ \A g, h \in Gen : key[g] # None /\ key[g] = key[h] => g = h
    /\ key[current] # None
    /\ \A g \in Gen : previous[g] # None => key[previous[g]] # None

\* In the generation whose key signed a token, the token's revision is not ahead,
\* and while it is the current one the items are those of the plan's base.
PlanInv ==
    \A n \in Nonce : plans[n] # None =>
        /\ plans[n].purpose \in Purpose /\ plans[n].revision \in Nat
        /\ plans[n].key \in usedKeys
        /\ \A g \in Gen : key[g] = plans[n].key =>
             /\ plans[n].revision <= revision[g][plans[n].purpose]
             /\ plans[n].revision = revision[g][plans[n].purpose]
                  => plans[n].base = BaseOf(g, plans[n].purpose)

\* A plan that changed something is behind the revision for good.
EffectInv ==
    \A n \in Nonce : effects[n] > 0 =>
        /\ plans[n] # None /\ effects[n] <= 1
        /\ \A g \in Gen : key[g] = plans[n].key => plans[n].revision < revision[g][plans[n].purpose]

IInv == TypeOK /\ ResourcesInv /\ BackupInv /\ KeyInv /\ PlanInv /\ EffectInv /\ OneOfRivals /\ SecretsPresent

----------------------------------------------------------------------------
\* The initial state, one generation without resources and plans, satisfies the
\* inductive invariant.
LEMMA InitIInv == Init => IInv
<1> SUFFICES ASSUME Init PROVE IInv
  OBVIOUS
<1> USE ConfigPlansAssumption
<1>1. PICK fields \in [Field -> Setting] :
        spec = [g \in Gen |-> [i \in Item |-> IF i \in Field THEN fields[i] ELSE Absent]]
  BY DEF Init
<1>2. PICK k \in Key : key = [g \in Gen |-> IF g = First THEN k ELSE None] /\ usedKeys = {k}
  BY DEF Init
<1>3. ResourcesInv
  BY <1>1 DEF Init, ResourcesInv, Consistent, Item
<1>4. TypeOK
  <2>1. spec \in [Gen -> [Item -> Definition \cup Setting \cup {Absent}]]
    BY <1>1 DEF Item
  <2>2. revision \in [Gen -> [Purpose -> 1..MaxRevision]]
    BY DEF Init
  <2>3. stamp \in [Gen -> [Item -> (Key \X (1..MaxRevision)) \cup {None}]]
    BY DEF Init
  <2>4. key \in [Gen -> Key \cup {None}] /\ usedKeys \subseteq Key
    BY <1>2
  <2>5. \A g \in Gen : \A i \in Resource : spec[g][i] = Absent <=> stamp[g][i] = None
    BY <1>3 DEF ResourcesInv, Consistent
  <2>6. /\ secrets \in [Gen -> SUBSET Secret] /\ consumed \in [Gen -> SUBSET Nonce]
        /\ current \in Gen /\ previous \in [Gen -> Gen \cup {None}]
        /\ DOMAIN plans = Nonce /\ now \in 0..MaxTime
        /\ uses \in [Nonce -> Nat] /\ effects \in [Nonce -> Nat]
    BY DEF Init
  <2>7. unavailable \in BOOLEAN
    BY Zenon DEF Init
  <2> QED
    BY <2>1, <2>2, <2>3, <2>4, <2>5, <2>6, <2>7 DEF TypeOK
<1>5. KeyInv
  BY <1>2 DEF Init, KeyInv
<1>6. BackupInv /\ PlanInv /\ EffectInv /\ OneOfRivals
  BY DEF Init, BackupInv, PlanInv, EffectInv, OneOfRivals
<1>7. SecretsPresent
  BY <1>1 DEF SecretsPresent, Item
<1> QED
  BY <1>3, <1>4, <1>5, <1>6, <1>7 DEF IInv
----------------------------------------------------------------------------
\* A document declares items of its purpose and values of their kind.
LEMMA DocumentFacts ==
    ASSUME NEW purpose \in Purpose, NEW doc \in DocumentsOf(purpose)
    PROVE  DOMAIN doc \subseteq ItemsOf(purpose) /\ \A i \in DOMAIN doc : doc[i] \in Values(purpose)
BY DEF DocumentsOf

\* What committing a document does: other generations and the other purpose keep
\* their items, the revision does not fall, and it moves exactly when an item does.
LEMMA WriteFacts ==
    ASSUME TypeOK, ResourcesInv, KeyInv,
           NEW purpose \in Purpose, NEW doc \in DocumentsOf(purpose), Write(purpose, doc)
    PROVE  /\ spec' \in [Gen -> ItemType] /\ stamp' \in [Gen -> StampType]
           /\ revision' \in [Gen -> [Purpose -> 1..MaxRevision]]
           /\ Consistent(spec'[current], stamp'[current])
           /\ \A g \in Gen : g # current =>
                spec'[g] = spec[g] /\ stamp'[g] = stamp[g] /\ revision'[g] = revision[g]
           /\ spec'[current] = Desired(doc)
           /\ \A q \in Purpose :
                /\ revision'[current][q] >= revision[current][q]
                /\ revision'[current][q] = revision[current][q] =>
                     \A i \in ItemsOf(q) : spec'[current][i] = spec[current][i]
                                          /\ stamp'[current][i] = stamp[current][i]
           /\ Changes(doc) # {} => revision'[current][purpose] > revision[current][purpose]
<1> USE ConfigPlansAssumption
<1>1. /\ current \in Gen /\ spec \in [Gen -> ItemType] /\ stamp \in [Gen -> StampType]
      /\ revision \in [Gen -> [Purpose -> 1..MaxRevision]]
      /\ key[current] \in Key
  BY DEF TypeOK, KeyInv, ItemType, StampType
<1>2. DOMAIN doc \subseteq ItemsOf(purpose) /\ \A i \in DOMAIN doc : doc[i] \in Values(purpose)
  BY DocumentFacts
<1>3. Desired(doc) \in ItemType
  BY <1>1, <1>2 DEF Desired, ItemType, ItemsOf, Values, Item, Purpose
<1>4. revision[current]["config"] + 1 \in 1..MaxRevision \/ Changes(doc) = {} \/ purpose = "settings"
  BY <1>1 DEF Write, Purpose
<1>5. Stamped(purpose, doc) \in StampType
  <2> SUFFICES ASSUME NEW i \in Item
               PROVE  (IF i \notin Changes(doc) \/ purpose = "settings" THEN stamp[current][i]
                       ELSE IF doc[i] = Absent THEN None ELSE <<key[current], revision[current]["config"] + 1>>)
                      \in (Key \X (1..MaxRevision)) \cup {None}
    BY DEF Stamped, StampType
  <2>1. stamp[current][i] \in (Key \X (1..MaxRevision)) \cup {None}
    BY <1>1 DEF StampType
  <2> QED
    BY <1>1, <1>4, <2>1
<1>6. /\ spec' = [spec EXCEPT ![current] = Desired(doc)]
      /\ stamp' = [stamp EXCEPT ![current] = Stamped(purpose, doc)]
      /\ revision' = [revision EXCEPT ![current][purpose] = IF Changes(doc) = {} THEN @ ELSE @ + 1]
      /\ Changes(doc) # {} => revision[current][purpose] < MaxRevision
  BY DEF Write
<1>7. /\ spec' \in [Gen -> ItemType] /\ stamp' \in [Gen -> StampType]
      /\ spec'[current] = Desired(doc) /\ stamp'[current] = Stamped(purpose, doc)
      /\ \A g \in Gen : g # current => spec'[g] = spec[g] /\ stamp'[g] = stamp[g] /\ revision'[g] = revision[g]
  BY <1>1, <1>3, <1>5, <1>6
<1>8. /\ revision' \in [Gen -> [Purpose -> 1..MaxRevision]]
      /\ \A q \in Purpose : q # purpose => revision'[current][q] = revision[current][q]
      /\ revision'[current][purpose] = revision[current][purpose]
           + (IF Changes(doc) = {} THEN 0 ELSE 1)
  BY <1>1, <1>6
<1>9. Consistent(Desired(doc), Stamped(purpose, doc))
  <2> SUFFICES ASSUME NEW i \in Resource
               PROVE  /\ Desired(doc)[i] \in Definition \cup {Absent}
                      /\ Desired(doc)[i] = Absent <=> Stamped(purpose, doc)[i] = None
    BY DEF Consistent
  <2>1. i \in Item /\ i \notin Field
    BY DEF Item
  <2>2. spec[current][i] \in Definition \cup {Absent} /\ (spec[current][i] = Absent <=> stamp[current][i] = None)
    BY <1>1 DEF ResourcesInv, Consistent
  <2>3. CASE i \notin Changes(doc)
    BY <2>1, <2>2, <2>3 DEF Desired, Stamped, Changes
  <2>4. CASE i \in Changes(doc)
    <3>1. purpose = "config" /\ i \in DOMAIN doc /\ doc[i] \in Definition \cup {Absent}
      BY <1>2, <2>1, <2>4 DEF Changes, ItemsOf, Values, Purpose
    <3>2. <<key[current], revision[current]["config"] + 1>> # None
      BY <1>1, <1>4, <3>1, <2>4
    <3> QED
      BY <2>1, <2>4, <3>1, <3>2 DEF Desired, Stamped
  <2> QED
    BY <2>3, <2>4
<1>10. ASSUME NEW q \in Purpose, revision'[current][q] = revision[current][q], NEW i \in ItemsOf(q)
       PROVE  spec'[current][i] = spec[current][i] /\ stamp'[current][i] = stamp[current][i]
  <2>1. i \in Item
    BY DEF ItemsOf, Item
  <2>2. i \notin Changes(doc)
    BY <1>1, <1>2, <1>8, <1>10 DEF Changes, ItemsOf, Purpose
  <2> QED
    BY <1>7, <2>1, <2>2 DEF Desired, Stamped, Changes
<1> QED
  BY <1>1, <1>7, <1>8, <1>9, <1>10

----------------------------------------------------------------------------
\* A step that issues no plan, gives fresh keys only, and under an old key lets no
\* revision fall and no item change without it.
Monotone ==
    /\ plans' = plans /\ usedKeys \subseteq usedKeys'
    /\ \A g \in Gen :
         \/ key'[g] \notin usedKeys
         \/ /\ key'[g] = key[g]
            /\ \A q \in Purpose :
                 /\ revision'[g][q] >= revision[g][q]
                 /\ revision'[g][q] = revision[g][q] =>
                      \A i \in ItemsOf(q) : spec'[g][i] = spec[g][i] /\ stamp'[g][i] = stamp[g][i]

\* Such a step leaves every token tied to its base.
LEMMA MonotonePlans ==
    ASSUME TypeOK, TypeOK', PlanInv, Monotone
    PROVE  PlanInv'
<1> SUFFICES ASSUME NEW n \in Nonce, plans[n] # None
             PROVE  /\ plans[n].purpose \in Purpose /\ plans[n].revision \in Nat
                    /\ plans[n].key \in usedKeys'
                    /\ \A g \in Gen : key'[g] = plans[n].key =>
                         /\ plans[n].revision <= revision'[g][plans[n].purpose]
                         /\ plans[n].revision = revision'[g][plans[n].purpose]
                              => plans[n].base = BaseOf(g, plans[n].purpose)'
  BY DEF Monotone, PlanInv
<1> DEFINE q == plans[n].purpose
<1>1. q \in Purpose /\ plans[n].revision \in Nat /\ plans[n].key \in usedKeys
  BY DEF PlanInv
<1>2. ASSUME NEW g \in Gen, key'[g] = plans[n].key
      PROVE  /\ plans[n].revision <= revision'[g][q]
             /\ plans[n].revision = revision'[g][q] => plans[n].base = BaseOf(g, q)'
  <2>1. /\ key'[g] = key[g] /\ revision'[g][q] >= revision[g][q]
        /\ revision'[g][q] = revision[g][q] =>
             \A i \in ItemsOf(q) : spec'[g][i] = spec[g][i] /\ stamp'[g][i] = stamp[g][i]
    BY <1>1, <1>2 DEF Monotone
  <2>2. /\ plans[n].revision <= revision[g][q]
        /\ plans[n].revision = revision[g][q] => plans[n].base = BaseOf(g, q)
    BY <1>2, <2>1 DEF PlanInv
  <2>3. revision[g][q] \in Nat /\ revision'[g][q] \in Nat
    BY <1>1 DEF TypeOK
  <2>4. revision'[g][q] = revision[g][q] => BaseOf(g, q)' = BaseOf(g, q)
    <3>1. q' = q
      BY DEF Monotone
    <3> HIDE DEF q
    <3> QED
      BY <2>1, <3>1 DEF BaseOf
  <2> QED
    BY <1>1, <2>1, <2>2, <2>3, <2>4
<1> QED
  BY <1>1, <1>2 DEF Monotone

\* A plan that took effect stays behind the revision.
LEMMA MonotoneEffects ==
    ASSUME TypeOK, TypeOK', PlanInv, Monotone, NEW n \in Nonce, plans[n] # None,
           \A g \in Gen : key[g] = plans[n].key => plans[n].revision < revision[g][plans[n].purpose]
    PROVE  \A g \in Gen : key'[g] = plans[n].key => plans[n].revision < revision'[g][plans[n].purpose]
<1> SUFFICES ASSUME NEW g \in Gen, key'[g] = plans[n].key
             PROVE  plans[n].revision < revision'[g][plans[n].purpose]
  OBVIOUS
<1> DEFINE q == plans[n].purpose
<1>1. q \in Purpose /\ plans[n].revision \in Nat /\ plans[n].key \in usedKeys
  BY DEF PlanInv
<1>2. key'[g] = key[g] /\ revision'[g][q] >= revision[g][q]
  BY <1>1 DEF Monotone
<1>3. revision[g][q] \in Nat /\ revision'[g][q] \in Nat
  BY <1>1 DEF TypeOK
<1> QED
  BY <1>1, <1>2, <1>3

\* A monotone step that executes no plan keeps the history invariants.
LEMMA MonotoneHistory ==
    ASSUME TypeOK, TypeOK', PlanInv, EffectInv, OneOfRivals, Monotone, effects' = effects
    PROVE  PlanInv' /\ EffectInv' /\ OneOfRivals'
<1>1. EffectInv'
  <2> SUFFICES ASSUME NEW n \in Nonce, effects[n] > 0
               PROVE  /\ plans[n] # None /\ effects[n] <= 1
                      /\ \A g \in Gen : key'[g] = plans[n].key => plans[n].revision < revision'[g][plans[n].purpose]
    BY DEF EffectInv, Monotone
  <2> QED
    BY MonotoneEffects DEF EffectInv
<1>2. OneOfRivals'
  BY DEF OneOfRivals, Monotone
<1> QED
  BY <1>1, <1>2, MonotonePlans

----------------------------------------------------------------------------
\* Issuing a plan ties it to the items it was computed from.
LEMMA CreatePlanTokenIInv ==
    ASSUME IInv, NEW n \in Nonce, NEW purpose \in Purpose, NEW doc \in DocumentsOf(purpose),
           NEW proposed \in SUBSET Secret, CreatePlanToken(n, purpose, doc, proposed)
    PROVE  IInv'
<1> USE DEF IInv
<1>0. UNCHANGED <<database, layout, now, unavailable, history>>
  BY DEF CreatePlanToken
<1>1. TypeOK' /\ ResourcesInv' /\ BackupInv' /\ KeyInv' /\ SecretsPresent'
  <2>1. DOMAIN plans' = Nonce
    BY DEF CreatePlanToken, TypeOK
  <2>2. TypeOK'
    BY <1>0, <2>1 DEF TypeOK, database, layout, history
  <2>3. ResourcesInv' /\ BackupInv' /\ KeyInv' /\ SecretsPresent'
    BY <1>0 DEF ResourcesInv, Consistent, BackupInv, KeyInv, SecretsPresent, database, layout
  <2> QED
    BY <2>2, <2>3
<1>2. /\ plans[n] = None
      /\ plans' = [plans EXCEPT ![n] =
                     [purpose |-> purpose, key |-> key[current], revision |-> revision[current][purpose],
                      digest |-> Digest(purpose, doc), observed |-> Observed(purpose, doc),
                      issued |-> now, base |-> Base(purpose)]]
  BY DEF CreatePlanToken
<1>3. \A m \in Nonce : m # n => plans'[m] = plans[m]
  BY <1>2 DEF TypeOK
<1>4. /\ plans'[n].purpose = purpose /\ plans'[n].key = key[current]
      /\ plans'[n].revision = revision[current][purpose] /\ plans'[n].base = BaseOf(current, purpose)
  BY <1>2 DEF TypeOK, Base, BaseOf
<1>5. PlanInv'
  <2> SUFFICES ASSUME NEW m \in Nonce, plans'[m] # None
               PROVE  /\ plans'[m].purpose \in Purpose /\ plans'[m].revision \in Nat
                      /\ plans'[m].key \in usedKeys
                      /\ \A g \in Gen : key[g] = plans'[m].key =>
                           /\ plans'[m].revision <= revision[g][plans'[m].purpose]
                           /\ plans'[m].revision = revision[g][plans'[m].purpose]
                                => plans'[m].base = BaseOf(g, plans'[m].purpose)
    BY <1>0 DEF PlanInv, BaseOf, database, layout
  <2>1. CASE m = n
    <3>1. key[current] \in usedKeys /\ \A g \in Gen : key[g] = key[current] => g = current
      BY DEF KeyInv, TypeOK
    <3>2. revision[current][purpose] \in Nat
      BY DEF TypeOK
    <3> QED
      BY <1>4, <2>1, <3>1, <3>2
  <2>2. CASE m # n
    BY <1>3, <2>2 DEF PlanInv
  <2> QED
    BY <2>1, <2>2
<1>6. ~(effects[n] > 0)
  BY <1>2 DEF EffectInv
<1>7. EffectInv' /\ OneOfRivals'
  <2>1. effects' = effects /\ key' = key /\ revision' = revision
    BY <1>0 DEF history, layout, database
  <2>2. EffectInv'
    <3> SUFFICES ASSUME NEW m \in Nonce, effects[m] > 0
                 PROVE  /\ plans'[m] # None /\ effects[m] <= 1
                        /\ \A g \in Gen : key[g] = plans'[m].key => plans'[m].revision < revision[g][plans'[m].purpose]
      BY <2>1 DEF EffectInv
    <3> QED
      BY <1>3, <1>6 DEF EffectInv
  <2>3. OneOfRivals'
    BY <1>3, <1>6, <2>1 DEF OneOfRivals
  <2> QED
    BY <2>2, <2>3
<1> QED
  BY <1>1, <1>5, <1>7

\* Executing a plan: its revision is the current one, so no plan of that revision
\* has taken effect yet, and if it changes an item the revision moves past it.
LEMMA ExecutePlanIInv ==
    ASSUME IInv, NEW n \in Nonce, NEW purpose \in Purpose, NEW doc \in DocumentsOf(purpose),
           NEW reported \in BOOLEAN, ExecutePlan(n, purpose, doc, reported)
    PROVE  IInv'
<1> USE DEF IInv
<1>0. /\ Write(purpose, doc) /\ plans[n] # None /\ verifyPlanToken(plans[n], purpose, doc)
      /\ Validate(Desired(doc), secrets[current]) /\ Consume(n, doc)
      /\ unavailable' = ~reported
      /\ uses' = [uses EXCEPT ![n] = @ + 1]
      /\ effects' = [effects EXCEPT ![n] = IF Changes(doc) = {} THEN @ ELSE @ + 1]
      /\ UNCHANGED <<secrets, layout, plans, now>>
  BY DEF ExecutePlan
<1>1. /\ spec' \in [Gen -> ItemType] /\ stamp' \in [Gen -> StampType]
      /\ revision' \in [Gen -> [Purpose -> 1..MaxRevision]]
      /\ Consistent(spec'[current], stamp'[current])
      /\ \A g \in Gen : g # current =>
           spec'[g] = spec[g] /\ stamp'[g] = stamp[g] /\ revision'[g] = revision[g]
      /\ spec'[current] = Desired(doc)
      /\ \A q \in Purpose :
           /\ revision'[current][q] >= revision[current][q]
           /\ revision'[current][q] = revision[current][q] =>
                \A i \in ItemsOf(q) : spec'[current][i] = spec[current][i]
                                     /\ stamp'[current][i] = stamp[current][i]
      /\ Changes(doc) # {} => revision'[current][purpose] > revision[current][purpose]
  BY <1>0, WriteFacts
<1>2. ResourcesInv' /\ SecretsPresent' /\ BackupInv' /\ KeyInv'
  <2>1. ResourcesInv'
    BY <1>1 DEF ResourcesInv, Consistent
  <2>2. SecretsPresent'
    BY <1>0, <1>1 DEF SecretsPresent, Validate, Item
  <2>3. BackupInv' /\ KeyInv'
    BY <1>0 DEF BackupInv, KeyInv, Consistent, layout
  <2> QED
    BY <2>1, <2>2, <2>3
<1>3. TypeOK'
  <2>1. consumed' \in [Gen -> SUBSET Nonce]
    BY <1>0 DEF Consume, TypeOK
  <2>2. uses' \in [Nonce -> Nat] /\ effects' \in [Nonce -> Nat]
    BY <1>0 DEF TypeOK
  <2>3. unavailable' \in BOOLEAN
    BY Zenon, <1>0
  <2>4. \A g \in Gen : \A i \in Resource : spec'[g][i] = Absent <=> stamp'[g][i] = None
    BY <1>2 DEF ResourcesInv, Consistent
  <2>5. /\ secrets' \in [Gen -> SUBSET Secret] /\ key' \in [Gen -> Key \cup {None}] /\ usedKeys' \subseteq Key
        /\ current' \in Gen /\ previous' \in [Gen -> Gen \cup {None}]
        /\ DOMAIN plans' = Nonce /\ now' \in 0..MaxTime
    BY <1>0 DEF TypeOK, layout
  <2> QED
    BY <1>1, <2>1, <2>2, <2>3, <2>4, <2>5 DEF TypeOK, ItemType, StampType
<1>4. Monotone
  <2>1. plans' = plans /\ usedKeys' = usedKeys /\ key' = key /\ current \in Gen
    BY <1>0 DEF layout, TypeOK
  <2>2. \A g \in Gen : \A q \in Purpose : revision[g][q] \in Nat
    BY DEF TypeOK
  <2> SUFFICES ASSUME NEW g \in Gen, NEW q \in Purpose
               PROVE  /\ revision'[g][q] >= revision[g][q]
                      /\ revision'[g][q] = revision[g][q] =>
                           \A i \in ItemsOf(q) : spec'[g][i] = spec[g][i] /\ stamp'[g][i] = stamp[g][i]
    BY <2>1 DEF Monotone
  <2>3. CASE g = current
    BY <1>1, <2>3
  <2>4. CASE g # current
    BY <1>1, <2>2, <2>4
  <2> QED
    BY <2>3, <2>4
<1>5. PlanInv'
  BY <1>3, <1>4, MonotonePlans
<1>6. /\ plans[n].key = key[current] /\ plans[n].purpose = purpose
      /\ plans[n].revision = revision[current][purpose] /\ current \in Gen
      /\ revision[current][purpose] \in Nat /\ revision'[current][purpose] \in Nat
      /\ effects \in [Nonce -> Nat] /\ key' = key /\ plans' = plans
  BY <1>0, <1>1 DEF verifyPlanToken, TypeOK, layout
\* No rival has taken effect, and the plan itself has not.
<1>7. ASSUME NEW m \in Nonce, effects[m] > 0
      PROVE  ~(/\ plans[m].key = plans[n].key /\ plans[m].purpose = plans[n].purpose
               /\ plans[m].revision = plans[n].revision)
  BY <1>6, <1>7 DEF EffectInv
<1>8. /\ effects[n] = 0
      /\ \A m \in Nonce : m # n => effects'[m] = effects[m]
      /\ effects'[n] = IF Changes(doc) = {} THEN 0 ELSE 1
  BY <1>0, <1>6, <1>7
<1>9. EffectInv'
  <2> SUFFICES ASSUME NEW m \in Nonce, effects'[m] > 0
               PROVE  /\ plans[m] # None /\ effects'[m] <= 1
                      /\ \A g \in Gen : key'[g] = plans[m].key => plans[m].revision < revision'[g][plans[m].purpose]
    BY <1>6 DEF EffectInv
  <2>1. CASE m = n
    <3>1. \A g \in Gen : key[g] = key[current] => g = current
      BY <1>6 DEF KeyInv
    <3> QED
      BY <1>0, <1>1, <1>6, <1>8, <2>1, <3>1
  <2>2. CASE m # n
    <3>1. effects[m] > 0 /\ effects'[m] = effects[m]
      BY <1>8, <2>2
    <3> QED
      BY <1>3, <1>4, <3>1, MonotoneEffects DEF EffectInv
  <2> QED
    BY <2>1, <2>2
<1>10. OneOfRivals'
  BY <1>6, <1>7, <1>8 DEF OneOfRivals
<1> QED
  BY <1>2, <1>3, <1>5, <1>9, <1>10

\* A change from the console moves the revision past every plan computed before it.
LEMMA MutateResourceIInv ==
    ASSUME IInv, NEW i \in Resource, NEW value \in Definition \cup {Absent}, NEW reported \in BOOLEAN,
           MutateResource(i, value, reported)
    PROVE  IInv'
<1> USE DEF IInv
<1> DEFINE doc == [x \in {i} |-> value]
<1>0. /\ Write("config", doc) /\ Validate(Desired(doc), secrets[current])
      /\ unavailable' = ~reported
      /\ UNCHANGED <<secrets, consumed, layout, plans, now, history>>
  BY DEF MutateResource
<1>d. doc \in DocumentsOf("config") /\ "config" \in Purpose
  <2>1. {i} \in (SUBSET ItemsOf("config")) \ {{}} /\ value \in Values("config")
    BY DEF ItemsOf, Values
  <2>2. doc \in [{i} -> Values("config")]
    BY <2>1
  <2> QED
    BY <2>1, <2>2 DEF DocumentsOf, Purpose
<1> HIDE DEF doc
<1>1. /\ spec' \in [Gen -> ItemType] /\ stamp' \in [Gen -> StampType]
      /\ revision' \in [Gen -> [Purpose -> 1..MaxRevision]]
      /\ Consistent(spec'[current], stamp'[current])
      /\ \A g \in Gen : g # current =>
           spec'[g] = spec[g] /\ stamp'[g] = stamp[g] /\ revision'[g] = revision[g]
      /\ spec'[current] = Desired(doc)
      /\ \A q \in Purpose :
           /\ revision'[current][q] >= revision[current][q]
           /\ revision'[current][q] = revision[current][q] =>
                \A x \in ItemsOf(q) : spec'[current][x] = spec[current][x]
                                     /\ stamp'[current][x] = stamp[current][x]
  BY <1>0, <1>d, WriteFacts
<1>2. ResourcesInv' /\ SecretsPresent' /\ BackupInv' /\ KeyInv'
  <2>1. ResourcesInv'
    BY <1>1 DEF ResourcesInv, Consistent
  <2>2. SecretsPresent'
    BY <1>0, <1>1 DEF SecretsPresent, Validate
  <2>3. BackupInv' /\ KeyInv'
    BY <1>0 DEF BackupInv, KeyInv, Consistent, layout
  <2> QED
    BY <2>1, <2>2, <2>3
<1>3. TypeOK'
  <2>1. unavailable' \in BOOLEAN
    BY Zenon, <1>0
  <2>2. \A g \in Gen : \A x \in Resource : spec'[g][x] = Absent <=> stamp'[g][x] = None
    BY <1>2 DEF ResourcesInv, Consistent
  <2>3. /\ secrets' \in [Gen -> SUBSET Secret] /\ key' \in [Gen -> Key \cup {None}] /\ usedKeys' \subseteq Key
        /\ current' \in Gen /\ previous' \in [Gen -> Gen \cup {None}]
        /\ consumed' \in [Gen -> SUBSET Nonce]
        /\ DOMAIN plans' = Nonce /\ now' \in 0..MaxTime
        /\ uses' \in [Nonce -> Nat] /\ effects' \in [Nonce -> Nat]
    BY <1>0 DEF TypeOK, layout, history
  <2> QED
    BY <1>1, <2>1, <2>2, <2>3 DEF TypeOK, ItemType, StampType
<1>4. Monotone
  <2>1. plans' = plans /\ usedKeys' = usedKeys /\ key' = key /\ current \in Gen
    BY <1>0 DEF layout, TypeOK
  <2>2. \A g \in Gen : \A q \in Purpose : revision[g][q] \in Nat
    BY DEF TypeOK
  <2> SUFFICES ASSUME NEW g \in Gen, NEW q \in Purpose
               PROVE  /\ revision'[g][q] >= revision[g][q]
                      /\ revision'[g][q] = revision[g][q] =>
                           \A x \in ItemsOf(q) : spec'[g][x] = spec[g][x] /\ stamp'[g][x] = stamp[g][x]
    BY <2>1 DEF Monotone
  <2>3. CASE g = current
    BY <1>1, <2>3
  <2>4. CASE g # current
    BY <1>1, <2>2, <2>4
  <2> QED
    BY <2>3, <2>4
<1>5. effects' = effects
  BY <1>0 DEF history
<1> QED
  BY <1>2, <1>3, <1>4, <1>5, MonotoneHistory

\* The actions that touch no item: publication, secrets, keys, clock, restarts,
\* failed commits, archives.
LEMMA QuietIInv ==
    ASSUME IInv,
           \/ CommitFails \/ PublishStrategy \/ Reopen \/ CreateBackup
           \/ \E s \in Secret : PutSecret(s) \/ DeleteSecret(s)
           \/ \E k \in Key : RotateMasterKey(k)
           \/ \E t \in 0..MaxTime : SetClock(t)
           \/ UNCHANGED vars
    PROVE  IInv'
<1> USE DEF IInv
<1>1. /\ spec' = spec /\ stamp' = stamp /\ consumed' = consumed /\ current' = current
      /\ previous' = previous /\ plans' = plans /\ uses' = uses /\ effects' = effects
  BY DEF CommitFails, PublishStrategy, Reopen, CreateBackup, PutSecret, DeleteSecret, RotateMasterKey,
         SetClock, vars, database, layout, history
<1>2. unavailable' \in BOOLEAN
  BY Zenon DEF CommitFails, PublishStrategy, Reopen, CreateBackup, PutSecret, DeleteSecret, RotateMasterKey,
         SetClock, vars, TypeOK
<1>3. now' \in 0..MaxTime
  BY DEF CommitFails, PublishStrategy, Reopen, CreateBackup, PutSecret, DeleteSecret, RotateMasterKey,
         SetClock, vars, TypeOK
<1>4. /\ secrets' \in [Gen -> SUBSET Secret]
      /\ SecretsPresent'
  <2>1. CASE secrets' = secrets
    BY <1>1, <2>1 DEF TypeOK, SecretsPresent
  <2>2. ASSUME NEW s \in Secret, PutSecret(s)
        PROVE  secrets' \in [Gen -> SUBSET Secret] /\ SecretsPresent'
    BY <1>1, <2>2 DEF PutSecret, TypeOK, SecretsPresent
  <2>3. ASSUME NEW s \in Secret, DeleteSecret(s)
        PROVE  secrets' \in [Gen -> SUBSET Secret] /\ SecretsPresent'
    BY <1>1, <2>3 DEF DeleteSecret, TypeOK, SecretsPresent
  <2> QED
    BY <2>1, <2>2, <2>3 DEF CommitFails, PublishStrategy, Reopen, CreateBackup, RotateMasterKey, SetClock,
         vars, database
<1>5. \/ revision' = revision
      \/ /\ revision[current]["config"] < MaxRevision
         /\ revision' = [revision EXCEPT ![current]["config"] = @ + 1]
  BY DEF CommitFails, PublishStrategy, Reopen, CreateBackup, PutSecret, DeleteSecret, RotateMasterKey,
         SetClock, vars, database
<1>6. /\ revision' \in [Gen -> [Purpose -> 1..MaxRevision]]
      /\ \A g \in Gen : \A q \in Purpose : revision'[g][q] >= revision[g][q]
  <2>1. revision \in [Gen -> [Purpose -> 1..MaxRevision]] /\ current \in Gen /\ MaxRevision \in Nat
    BY ConfigPlansAssumption DEF TypeOK
  <2> QED
    BY <1>5, <2>1
<1>7. \/ key' = key /\ usedKeys' = usedKeys
      \/ \E k \in Key : /\ k \notin usedKeys
                        /\ key' = [key EXCEPT ![current] = k] /\ usedKeys' = usedKeys \cup {k}
  BY DEF CommitFails, PublishStrategy, Reopen, CreateBackup, PutSecret, DeleteSecret, RotateMasterKey,
         SetClock, vars, layout
<1>8. /\ key' \in [Gen -> Key \cup {None}] /\ usedKeys' \subseteq Key /\ usedKeys \subseteq usedKeys'
      /\ \A g \in Gen : key'[g] = key[g] \/ key'[g] \notin usedKeys
      /\ KeyInv'
  <2>1. CASE key' = key /\ usedKeys' = usedKeys
    BY <1>1, <2>1 DEF KeyInv, TypeOK
  <2>2. ASSUME NEW k \in Key, k \notin usedKeys,
               key' = [key EXCEPT ![current] = k], usedKeys' = usedKeys \cup {k}
        PROVE  /\ key' \in [Gen -> Key \cup {None}] /\ usedKeys' \subseteq Key /\ usedKeys \subseteq usedKeys'
               /\ \A g \in Gen : key'[g] = key[g] \/ key'[g] \notin usedKeys
               /\ KeyInv'
    <3>1. /\ current \in Gen /\ key \in [Gen -> Key \cup {None}] /\ usedKeys \subseteq Key
          /\ k # None
      BY ConfigPlansAssumption DEF TypeOK
    <3>2. key'[current] = k /\ \A g \in Gen : g # current => key'[g] = key[g]
      BY <2>2, <3>1
    <3>3. \A g \in Gen : previous'[g] # None => previous'[g] \in Gen
      BY <1>1 DEF TypeOK
    <3>4. KeyInv'
      BY <1>1, <2>2, <3>1, <3>2, <3>3 DEF KeyInv
    <3> QED
      BY <2>2, <3>1, <3>2, <3>4
  <2> QED
    BY <1>7, <2>1, <2>2
<1>10. ResourcesInv'
  BY <1>1 DEF ResourcesInv, Consistent
<1>11. BackupInv'
  <2>1. CASE backup' = backup
    BY <2>1 DEF BackupInv, Consistent
  <2>2. CASE CreateBackup
    <3>1. backup' = [spec |-> spec[current], stamp |-> stamp[current],
                     revision |-> revision[current], secrets |-> secrets[current]]
      BY <2>2 DEF CreateBackup
    <3> QED
      BY <3>1 DEF BackupInv, TypeOK, ResourcesInv, Consistent, SecretsPresent, ItemType, StampType
  <2> QED
    BY <2>1, <2>2 DEF CommitFails, PublishStrategy, Reopen, PutSecret, DeleteSecret, RotateMasterKey,
         SetClock, vars, layout
<1>12. TypeOK'
  BY <1>1, <1>2, <1>3, <1>4, <1>6, <1>8 DEF TypeOK
<1>13. Monotone
  BY <1>1, <1>6, <1>8 DEF Monotone
<1> QED
  BY <1>1, <1>4, <1>8, <1>10, <1>11, <1>12, <1>13, MonotoneHistory

\* A restored generation has a key that signed no plan.
LEMMA RestoreGenerationIInv ==
    ASSUME IInv, NEW g \in Gen, NEW k \in Key, RestoreGeneration(g, k)
    PROVE  IInv'
<1> USE DEF IInv
<1>0. /\ backup # None /\ key[g] = None /\ k \notin usedKeys
      /\ spec' = [spec EXCEPT ![g] = backup.spec]
      /\ stamp' = [stamp EXCEPT ![g] = backup.stamp]
      /\ revision' = [revision EXCEPT ![g] = backup.revision]
      /\ secrets' = [secrets EXCEPT ![g] = backup.secrets]
      /\ consumed' = [consumed EXCEPT ![g] = {}]
      /\ key' = [key EXCEPT ![g] = k] /\ usedKeys' = usedKeys \cup {k}
      /\ current' = g /\ previous' = [previous EXCEPT ![g] = current]
      /\ unavailable' = FALSE
      /\ UNCHANGED <<backup, plans, now, history>>
  BY DEF RestoreGeneration
<1>1. /\ spec \in [Gen -> ItemType] /\ stamp \in [Gen -> StampType]
      /\ revision \in [Gen -> [Purpose -> 1..MaxRevision]] /\ secrets \in [Gen -> SUBSET Secret]
      /\ key \in [Gen -> Key \cup {None}] /\ usedKeys \subseteq Key /\ current \in Gen
      /\ previous \in [Gen -> Gen \cup {None}] /\ consumed \in [Gen -> SUBSET Nonce] /\ k # None
  BY ConfigPlansAssumption DEF TypeOK, ItemType, StampType
<1>2. /\ backup.spec \in ItemType /\ backup.stamp \in StampType
      /\ backup.revision \in [Purpose -> 1..MaxRevision] /\ backup.secrets \in SUBSET Secret
      /\ Consistent(backup.spec, backup.stamp)
      /\ \A i \in Resource : backup.spec[i] # Absent => Requires[backup.spec[i]] \subseteq backup.secrets
  BY <1>0 DEF BackupInv
<1>3. /\ spec'[g] = backup.spec /\ stamp'[g] = backup.stamp /\ secrets'[g] = backup.secrets /\ key'[g] = k
      /\ \A h \in Gen : h # g => /\ spec'[h] = spec[h] /\ stamp'[h] = stamp[h] /\ secrets'[h] = secrets[h]
                                 /\ revision'[h] = revision[h] /\ key'[h] = key[h]
  BY <1>0, <1>1
<1>4. ResourcesInv'
  BY <1>2, <1>3 DEF ResourcesInv, Consistent
<1>5. SecretsPresent'
  BY <1>2, <1>3 DEF SecretsPresent
<1>6. BackupInv'
  BY <1>0 DEF BackupInv, Consistent
<1>7. KeyInv'
  <2>1. g # current /\ key'[current] # None
    BY <1>0, <1>3 DEF KeyInv, TypeOK
  <2>2. \A h \in Gen : previous'[h] # None => previous'[h] \in Gen /\ key'[previous'[h]] # None
    <3> SUFFICES ASSUME NEW h \in Gen, previous'[h] # None
                 PROVE  previous'[h] \in Gen /\ key'[previous'[h]] # None
      OBVIOUS
    <3>1. CASE h = g
      BY <1>0, <1>1, <2>1, <3>1
    <3>2. CASE h # g
      <4>1. previous'[h] = previous[h] /\ previous[h] \in Gen /\ key[previous[h]] # None
        BY <1>0, <1>1, <3>2 DEF KeyInv
      <4> QED
        BY <1>1, <1>3, <4>1
    <3> QED
      BY <3>1, <3>2
  <2>3. \A h \in Gen : key'[h] # None => key'[h] \in usedKeys'
    BY <1>0, <1>3 DEF KeyInv
  <2>4. \A h, x \in Gen : key'[h] # None /\ key'[h] = key'[x] => h = x
    BY <1>0, <1>3 DEF KeyInv
  <2> QED
    BY <1>0, <1>1, <1>3, <2>2, <2>3, <2>4 DEF KeyInv
<1>8. TypeOK'
  <2>1. /\ spec' \in [Gen -> ItemType] /\ stamp' \in [Gen -> StampType]
        /\ revision' \in [Gen -> [Purpose -> 1..MaxRevision]] /\ secrets' \in [Gen -> SUBSET Secret]
        /\ key' \in [Gen -> Key \cup {None}] /\ usedKeys' \subseteq Key /\ current' \in Gen
        /\ previous' \in [Gen -> Gen \cup {None}] /\ consumed' \in [Gen -> SUBSET Nonce]
    BY <1>0, <1>1, <1>2
  <2>2. \A h \in Gen : \A i \in Resource : spec'[h][i] = Absent <=> stamp'[h][i] = None
    BY <1>4 DEF ResourcesInv, Consistent
  <2>3. unavailable' \in BOOLEAN
    BY Zenon, <1>0
  <2>4. /\ DOMAIN plans' = Nonce /\ now' \in 0..MaxTime
        /\ uses' \in [Nonce -> Nat] /\ effects' \in [Nonce -> Nat]
    BY <1>0 DEF TypeOK, history
  <2> QED
    BY <2>1, <2>2, <2>3, <2>4 DEF TypeOK, ItemType, StampType
<1>9. Monotone
  <2>1. \A h \in Gen : \A q \in Purpose : revision[h][q] \in Nat
    BY DEF TypeOK
  <2> QED
    BY <1>0, <1>3, <2>1 DEF Monotone
<1> QED
  BY <1>0, <1>4, <1>5, <1>6, <1>7, <1>8, <1>9, MonotoneHistory DEF history

\* A rollback only moves to the predecessor and empties its nonce table.
LEMMA RollbackGenerationIInv ==
    ASSUME IInv, RollbackGeneration
    PROVE  IInv'
<1> USE DEF IInv
<1>0. /\ previous[current] # None /\ current' = previous[current]
      /\ consumed' = [consumed EXCEPT ![previous[current]] = {}]
      /\ unavailable' = FALSE
      /\ UNCHANGED <<spec, stamp, revision, secrets, key, previous, backup, usedKeys, plans, now, history>>
  BY DEF RollbackGeneration
<1>1. current' \in Gen /\ key[current'] # None
  BY <1>0 DEF TypeOK, KeyInv
<1>2. TypeOK'
  <2>1. consumed' \in [Gen -> SUBSET Nonce]
    BY <1>0 DEF TypeOK
  <2>2. unavailable' \in BOOLEAN
    BY Zenon, <1>0
  <2> QED
    BY <1>0, <1>1, <2>1, <2>2 DEF TypeOK, history
<1>3. ResourcesInv' /\ BackupInv' /\ KeyInv' /\ SecretsPresent'
  BY <1>0, <1>1 DEF ResourcesInv, Consistent, BackupInv, KeyInv, SecretsPresent
<1>4. Monotone
  <2>1. \A h \in Gen : \A q \in Purpose : revision[h][q] \in Nat
    BY DEF TypeOK
  <2> QED
    BY <1>0, <2>1 DEF Monotone
<1> QED
  BY <1>0, <1>2, <1>3, <1>4, MonotoneHistory DEF history

----------------------------------------------------------------------------
\* The invariant is inductive: every action of Next preserves it.
THEOREM PlansInvariance == Spec => []IInv
<1>1. Init => IInv
  BY InitIInv
<1>2. IInv /\ [Next]_vars => IInv'
  <2> SUFFICES ASSUME IInv, [Next]_vars PROVE IInv'
    OBVIOUS
  <2>1. ASSUME NEW n \in Nonce, NEW purpose \in Purpose, NEW doc \in DocumentsOf(purpose),
               \/ \E proposed \in SUBSET Secret : CreatePlanToken(n, purpose, doc, proposed)
               \/ \E reported \in BOOLEAN : ExecutePlan(n, purpose, doc, reported)
        PROVE  IInv'
    BY <2>1, CreatePlanTokenIInv, ExecutePlanIInv
  <2>2. ASSUME NEW i \in Resource, NEW v \in Definition \cup {Absent}, NEW reported \in BOOLEAN,
               MutateResource(i, v, reported)
        PROVE  IInv'
    BY <2>2, MutateResourceIInv
  <2>3. CASE \E g \in Gen, k \in Key : RestoreGeneration(g, k)
    BY <2>3, RestoreGenerationIInv
  <2>4. CASE RollbackGeneration
    BY <2>4, RollbackGenerationIInv
  <2>5. CASE \/ CommitFails \/ PublishStrategy \/ Reopen \/ CreateBackup
             \/ \E s \in Secret : PutSecret(s) \/ DeleteSecret(s)
             \/ \E k \in Key : RotateMasterKey(k)
             \/ \E t \in 0..MaxTime : SetClock(t)
             \/ UNCHANGED vars
    BY <2>5, QuietIInv
  <2> QED
    BY <2>1, <2>2, <2>3, <2>4, <2>5 DEF Next
<1> QED
  BY <1>1, <1>2, PTL DEF Spec

\* Type correctness of the plan and configuration tables.
THEOREM PlansTypeCorrect == Spec => []TypeOK
<1>1. IInv => TypeOK
  BY DEF IInv
<1> QED
  BY <1>1, PlansInvariance, PTL

\* No plan changes the stored state twice, whatever happens to the nonce table.
THEOREM PlansTakeEffectOnce == Spec => []EffectsOnce
<1>1. IInv => EffectsOnce
  BY DEF IInv, EffectInv, EffectsOnce, TypeOK
<1> QED
  BY <1>1, PlansInvariance, PTL

\* Of the plans of one revision at most one takes effect.
THEOREM RivalPlansExclude == Spec => []OneOfRivals
<1>1. IInv => OneOfRivals
  BY DEF IInv
<1> QED
  BY <1>1, PlansInvariance, PTL

\* No stored resource refers to a secret that is missing.
THEOREM SecretsStayPresent == Spec => []SecretsPresent
<1>1. IInv => SecretsPresent
  BY DEF IInv
<1> QED
  BY <1>1, PlansInvariance, PTL

\* An executed plan finds the items it was computed from.
THEOREM PlansApplyToTheirBase == Spec => PlanAppliesToItsBase
<1>1. ASSUME IInv, [Next]_vars
      PROVE  [\A n \in Nonce : uses'[n] # uses[n] => plans[n].base = Base(plans[n].purpose)]_vars
  <2> SUFFICES ASSUME NEW n \in Nonce, uses'[n] # uses[n], Next
               PROVE  plans[n].base = Base(plans[n].purpose)
    BY <1>1 DEF vars, history
  <2>1. PICK m \in Nonce, purpose \in Purpose : \E doc \in DocumentsOf(purpose), reported \in BOOLEAN :
          ExecutePlan(m, purpose, doc, reported)
    BY DEF Next, CreatePlanToken, MutateResource, CommitFails, PublishStrategy, Reopen, PutSecret, DeleteSecret,
           RotateMasterKey, SetClock, CreateBackup, RollbackGeneration, RestoreGeneration, history
  <2>2. /\ uses' = [uses EXCEPT ![m] = @ + 1] /\ plans[m] # None
        /\ plans[m].key = key[current] /\ plans[m].purpose = purpose
        /\ plans[m].revision = revision[current][purpose]
    BY <2>1 DEF ExecutePlan, verifyPlanToken
  <2>3. m = n
    BY <1>1, <2>2 DEF IInv, TypeOK
  <2>4. plans[m].base = BaseOf(current, purpose)
    BY <1>1, <2>2 DEF IInv, PlanInv, TypeOK
  <2> QED
    BY <2>2, <2>3, <2>4 DEF Base, BaseOf
<1> QED
  BY <1>1, PlansInvariance, PTL DEF Spec, PlanAppliesToItsBase
=============================================================================
