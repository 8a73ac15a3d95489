------------------------- MODULE AdminSessionProofs -------------------------
(***************************************************************************)
(* Proofs about AdminSession, for any number of tabs, commands and         *)
(* sessions, any durations and window, and a wall clock that is set to     *)
(* anything between a request's reading of it and its transaction.         *)
(*                                                                         *)
(* OneReloadDisplacesNobody needs two facts that the runs do not state:    *)
(* the previous token of a row is its last one before the current          *)
(* (Consistent), and no client holds a token that its session has not had  *)
(* yet (Held).                                                             *)
(*                                                                         *)
(* The second half is about Catalog, whose proofs share this module, for   *)
(* any names, clients and contents and any number of identities, versions  *)
(* and bearers.  NoLostUpdate is not inductive: it says nothing of a copy  *)
(* that does not match at the moment.  What is inductive relates every     *)
(* copy to the row of its identity, wherever that is now: the same name,   *)
(* no older version, and the same content if the versions agree            *)
(* (CopiesFollow).  Nor is ListingIsComplete, which is about a listing     *)
(* that has ended: what is, is that all it has to show is shown or lies    *)
(* after the cursor (ListInv).                                             *)
(***************************************************************************)
EXTENDS AdminSession, Catalog, FiniteSetTheorems, WellFoundedInduction, TLAPS

\* What a row promises and what it remembers.
Consistent(s) ==
    /\ ~Corrupt(session[s])
    /\ promised[s] <= Expiry(session[s])
    /\ ~session[s].revoked => session[s].auth = auth
    /\ session[s].previous = IF session[s].csrf = 1 THEN None ELSE session[s].csrf - 1

\* A token of a row that is there, no younger than the row's; or the empty one.
Held(token) ==
    \A s \in Session, n \in 1..MaxToken :
        token = <<s, n>> => session[s] # None /\ n <= session[s].csrf

IInv ==
    /\ TypeOK
    /\ \A s \in Session : session[s] # None => Consistent(s)
    /\ Held(file) /\ \A c \in Client : Held(client[c].token)
    /\ \A c \in Client : client[c].pc = "sent" /\ client[c].op # "login" => client[c].session \in Session

LEMMA Constants ==
    /\ Cli \subseteq Client /\ None \notin Session /\ None \notin Nat /\ None \notin Row
    /\ \A s \in Session, n \in 0..MaxToken : None # <<s, n>>
    /\ \A p \in Policy : p.idle \in Nat \ {0} /\ p.absolute \in Nat \ {0}
    /\ Window \in Nat /\ Born \in 0..MaxTime
    /\ MaxTime \in Nat /\ MaxToken \in Nat \ {0} /\ MaxAuth \in Nat \ {0}
  BY AdminSessionAssumption

LEMMA Least ==
    ASSUME NEW a \in Nat, NEW b \in Nat
    PROVE  /\ Min({a, b}) \in Nat /\ Min({a, b}) <= a /\ Min({a, b}) <= b
           /\ Min({a, b}) = a \/ Min({a, b}) = b
  <1>1. \E x \in {a, b} : \A y \in {a, b} : x <= y  OBVIOUS
  <1>2. Min({a, b}) \in {a, b} /\ \A y \in {a, b} : Min({a, b}) <= y  BY <1>1 DEF Min
  <1> QED  BY <1>2

LEMMA Greatest ==
    ASSUME NEW a \in Nat, NEW b \in Nat
    PROVE  /\ Max({a, b}) \in Nat /\ a <= Max({a, b}) /\ b <= Max({a, b})
           /\ Max({a, b}) = a \/ Max({a, b}) = b
  <1>1. \E x \in {a, b} : \A y \in {a, b} : x >= y  OBVIOUS
  <1>2. Max({a, b}) \in {a, b} /\ \A y \in {a, b} : Max({a, b}) >= y  BY <1>1 DEF Max
  <1> QED  BY <1>2

\* Activity and rotations are recorded as no earlier than they were.
LEMMA RecordedTimes ==
    ASSUME NEW row \in Row, NEW t \in Nat
    PROVE  /\ activityAt(row, t) \in Nat /\ row.last <= activityAt(row, t)
           /\ rotationAt(row, t) \in Nat /\ row.rotated <= rotationAt(row, t)
  <1>1. row.last \in Nat /\ row.rotated \in Nat  BY DEF Row
  <1>2. activityAt(row, t) \in Nat /\ row.last <= activityAt(row, t)
    BY <1>1, Greatest DEF activityAt
  <1>3. rotationAt(row, t) \in Nat /\ row.rotated <= rotationAt(row, t)
    BY <1>1, <1>2, Greatest DEF rotationAt
  <1> QED  BY <1>2, <1>3

\* Later activity never brings the expiry forward.
LEMMA LaterActivity ==
    ASSUME NEW row \in Row, NEW new \in Row, new.expires = row.expires, new.idle = row.idle,
           row.last <= new.last
    PROVE  /\ Expiry(row) \in Nat /\ Expiry(row) <= Expiry(new)
           /\ Expiry(new) = Min({new.expires, new.last + new.idle})
  <1> DEFINE a == row.expires
             b == row.last + row.idle
             c == new.last + new.idle
  <1>1. a \in Nat /\ b \in Nat /\ c \in Nat /\ b <= c  BY DEF Row
  <1>2. Expiry(row) = Min({a, b}) /\ Expiry(new) = Min({a, c})  BY DEF Expiry
  <1> HIDE DEF a, b, c
  <1>3. /\ Min({a, b}) \in Nat /\ Min({a, b}) <= a /\ Min({a, b}) <= b
        /\ Min({a, c}) \in Nat /\ (Min({a, c}) = a \/ Min({a, c}) = c)
    BY <1>1, Least
  <1>4. Min({a, b}) <= Min({a, c})  BY <1>1, <1>3
  <1> QED  BY <1>2, <1>3, <1>4 DEF Expiry

LEMMA InitInv == Init => IInv
  <1> SUFFICES ASSUME Init  PROVE  IInv  OBVIOUS
  <1>1. TypeOK  BY Constants DEF Init, TypeOK, Resting, Token
  <1>2. \A s \in Session : session[s] = None  BY DEF Init
  <1>3. Held(None)  BY Constants DEF Held
  <1>4. file = None /\ \A c \in Client : client[c].token = None /\ client[c].pc = "idle"
    BY DEF Init, Resting
  <1> QED  BY <1>1, <1>2, <1>3, <1>4 DEF IInv

----------------------------------------------------------------------------
(* Requests                                                                *)

ClientType ==
    [pc : {"idle", "sent", "failed"}, op : {"login", "read", "mutate", "logout", "me", None},
     goal : {"read", "mutate", None}, verified : 0..MaxAuth, session : Session \cup {None},
     token : Token, at : 0..MaxTime]

\* What clients and files may hold after a step that leaves the rows alone.
Fits(r) ==
    /\ r \in ClientType /\ Held(r.token)
    /\ r.pc = "sent" /\ r.op # "login" => r.session \in Session

\* A step that changes no row.
LEMMA SameRows ==
    ASSUME IInv, UNCHANGED <<session, promised, auth>>,
           now' \in 0..MaxTime, up' \in BOOLEAN, desired' \in Policy, effective' \in Policy,
           jar' \in [{"console", "cli"} -> Session \cup {None}], file' \in Token, Held(file'),
           client' \in [Client -> ClientType], \A c \in Client : Fits(client'[c])
    PROVE  IInv'
  <1>1. TypeOK'  BY DEF IInv, TypeOK, ClientType
  <1>2. \A s \in Session : session'[s] # None => Consistent(s)'
    BY DEF IInv, Consistent, Corrupt, Expiry
  <1>3. Held(file)' /\ \A c \in Client : Held(client[c].token)'  BY DEF Held, Fits
  <1>4. \A c \in Client : client'[c].pc = "sent" /\ client'[c].op # "login" => client'[c].session \in Session
    BY DEF Fits
  <1> QED  BY <1>1, <1>2, <1>3, <1>4 DEF IInv

LEMMA ClientFits ==
    ASSUME IInv, NEW c \in Client
    PROVE  Fits(client[c])
  BY DEF IInv, TypeOK, Fits, ClientType

LEMMA OneClient ==
    ASSUME IInv, NEW c \in Client, NEW r, Fits(r), client' = [client EXCEPT ![c] = r]
    PROVE  client' \in [Client -> ClientType] /\ \A d \in Client : Fits(client'[d])
  <1>1. client \in [Client -> ClientType]  BY DEF IInv, TypeOK, ClientType
  <1>2. r \in ClientType  BY DEF Fits
  <1>3. \A d \in Client : client'[d] = IF d = c THEN r ELSE client[d]  BY <1>1
  <1> QED  BY <1>1, <1>2, <1>3, ClientFits

LEMMA RestingFits ==
    ASSUME NEW pc \in {"idle", "failed"}, NEW token \in Token, Held(token)
    PROVE  Fits(Resting(pc, token))
  BY Constants DEF Fits, ClientType, Resting

LEMMA EmptyTokens ==
    /\ None \in Token /\ Held(None)
    /\ \A s \in Session : <<s, 0>> \in Token /\ Held(<<s, 0>>)
  BY Constants DEF Held, Token

LEMMA SendInv ==
    ASSUME IInv, NEW c \in Client, NEW op \in {"read", "mutate", "logout", "me"}, Send(c, op)
    PROVE  IInv'
  <1> DEFINE token == IF c \in Cli THEN file ELSE IF op = "me" THEN None ELSE client[c].token
             r == [pc |-> "sent", op |-> op, goal |-> None, verified |-> 0, session |-> jar[Kind(c)],
                   token |-> token, at |-> now]
  <1>1. token \in Token /\ Held(token)  BY EmptyTokens DEF IInv, TypeOK
  <1>2. jar[Kind(c)] \in Session  BY DEF Send, IInv, TypeOK, Kind
  <1>3. client' = [client EXCEPT ![c] = r]  BY DEF Send
  <1> HIDE DEF token
  <1>4. r \in ClientType  BY <1>1, <1>2, Constants DEF ClientType, IInv, TypeOK
  <1>5. Fits(r)  BY <1>1, <1>2, <1>4 DEF Fits
  <1> HIDE DEF r
  <1>6. UNCHANGED <<now, up, auth, desired, effective, session, jar, file, promised>>
    BY DEF Send, settings, store
  <1> QED  BY <1>3, <1>5, <1>6, OneClient, SameRows DEF IInv, TypeOK

LEMMA VerifyInv ==
    ASSUME IInv, NEW c \in Client, VerifyPassword(c)
    PROVE  IInv'
  <1> DEFINE q == [pc |-> "sent", op |-> None, goal |-> None, verified |-> 0, session |-> None,
                   token |-> client[c].token, at |-> 0]
             r == [q EXCEPT !.op = "login", !.verified = auth, !.at = now]
  <1>1. client[c].token \in Token /\ Held(client[c].token)  BY DEF IInv, TypeOK
  <1>2. client' = [client EXCEPT ![c] = r]  BY DEF VerifyPassword, Resting
  <1>3. q \in ClientType  BY <1>1, Constants DEF ClientType, IInv, TypeOK
  <1>4. r \in ClientType /\ r.token = client[c].token /\ r.op = "login"
    <2>1. auth \in 0..MaxAuth /\ now \in 0..MaxTime  BY DEF IInv, TypeOK
    <2> HIDE DEF q
    <2>2. r \in ClientType /\ r.token = q.token /\ r.op = "login"
      BY <1>3, <2>1 DEF ClientType
    <2> QED  BY <2>2 DEF q
  <1> HIDE DEF r, q
  <1>5. Fits(r)  BY <1>1, <1>4 DEF Fits
  <1>6. UNCHANGED <<now, up, auth, desired, effective, session, jar, file, promised>>
    BY DEF VerifyPassword, settings, store
  <1> QED  BY <1>2, <1>5, <1>6, OneClient, SameRows DEF IInv, TypeOK

LEMMA ErrorInv ==
    ASSUME IInv, NEW c \in Client, NEW rejected \in BOOLEAN, client[c].pc = "sent", EndWithError(c, rejected)
    PROVE  IInv'
  <1> DEFINE failed == rejected \/ (client[c].op = "me" /\ client[c].goal # None)
             token == IF c \in Cli THEN None
                      ELSE IF client[c].op = "logout" THEN <<client[c].session, 0>> ELSE client[c].token
             pc == IF failed THEN "failed" ELSE "idle"
             goal == IF failed THEN client[c].goal ELSE None
             r == [Resting(pc, token) EXCEPT !.goal = goal]
  <1>1. client[c] \in ClientType /\ Held(client[c].token)
        /\ (client[c].op # "login" => client[c].session \in Session)
    BY ClientFits DEF Fits
  <1>2. token \in Token /\ Held(token)
    BY <1>1, EmptyTokens DEF ClientType
  <1>3. client' = [client EXCEPT ![c] = r]  BY DEF EndWithError
  <1>4. goal \in {"read", "mutate", None} /\ pc \in {"idle", "failed"}  BY <1>1 DEF ClientType
  <1> HIDE DEF token, goal, pc
  <1>5. r = [pc |-> pc, op |-> None, goal |-> goal, verified |-> 0, session |-> None, token |-> token, at |-> 0]
    BY DEF Resting
  <1> HIDE DEF r
  <1>6. r \in ClientType  BY <1>2, <1>4, <1>5, Constants DEF ClientType
  <1>7. Fits(r)  BY <1>2, <1>4, <1>5, <1>6 DEF Fits
  <1>8. UNCHANGED <<now, up, auth, desired, effective, session, jar, file, promised>>
    BY DEF EndWithError, settings, store
  <1> QED  BY <1>3, <1>7, <1>8, OneClient, SameRows DEF IInv, TypeOK

LEMMA RecoverInv ==
    ASSUME IInv, NEW c \in Client, Recover(c)
    PROVE  IInv'
  <1> DEFINE r == [client[c] EXCEPT !.op = "me", !.goal = client[c].op, !.at = now]
  <1>1. client[c] \in ClientType /\ Held(client[c].token) /\ client[c].session \in Session
        /\ client[c].op \in {"read", "mutate"} /\ client[c].pc = "sent"
    BY ClientFits DEF Fits, Recover, Rejected
  <1>2. client' = [client EXCEPT ![c] = r]
    BY DEF Recover, IInv, TypeOK
  <1>3. r \in ClientType /\ r.token = client[c].token /\ r.session = client[c].session
    BY <1>1 DEF ClientType, IInv, TypeOK
  <1> HIDE DEF r
  <1>5. Fits(r)  BY <1>1, <1>3 DEF Fits
  <1>6. UNCHANGED <<now, up, auth, desired, effective, session, jar, file, promised>>
    BY DEF Recover, settings, store
  <1> QED  BY <1>2, <1>5, <1>6, OneClient, SameRows DEF IInv, TypeOK

----------------------------------------------------------------------------
(* Changes of rows                                                         *)

\* A row that changes for the better: tokens that were held still are.
LEMMA RowChange ==
    ASSUME IInv, NEW s \in Session, NEW row \in Row,
           session' = [session EXCEPT ![s] = row],
           session[s] # None => session[s].csrf <= row.csrf,
           UNCHANGED <<now, up, auth, effective>>, desired' \in Policy,
           promised' \in [Session -> Nat], \A u \in Session : u # s => promised'[u] = promised[u],
           Consistent(s)'
    PROVE  /\ session' \in [Session -> Row \cup {None}] /\ session'[s] = row
           /\ \A u \in Session : session'[u] # None => Consistent(u)'
           /\ \A token : Held(token) => Held(token)'
  <1>1. /\ session' \in [Session -> Row \cup {None}]
        /\ \A u \in Session : session'[u] = IF u = s THEN row ELSE session[u]
    BY DEF IInv, TypeOK
  <1>2. \A u \in Session : session'[u] # None => Consistent(u)'
    BY <1>1 DEF IInv, Consistent, Corrupt, Expiry
  <1>3. row # None /\ row.csrf \in Nat  BY Constants DEF Row
  <1>4. ASSUME NEW token, Held(token), NEW u \in Session, NEW n \in 1..MaxToken, token = <<u, n>>
        PROVE  session'[u] # None /\ n <= session'[u].csrf
    <2>1. session[u] # None /\ n <= session[u].csrf  BY <1>4 DEF Held
    <2>2. session[u].csrf \in Nat  BY <2>1 DEF IInv, TypeOK, Row
    <2> QED  BY <1>1, <1>3, <2>1, <2>2
  <1>5. \A token : Held(token) => Held(token)'  BY <1>4 DEF Held
  <1> QED  BY <1>1, <1>2, <1>5

LEMMA RowStep ==
    ASSUME IInv, NEW s \in Session, NEW row \in Row,
           session' = [session EXCEPT ![s] = row],
           session[s] # None => session[s].csrf <= row.csrf,
           UNCHANGED <<now, up, auth, effective>>, desired' \in Policy,
           promised' \in [Session -> Nat], \A u \in Session : u # s => promised'[u] = promised[u],
           Consistent(s)',
           jar' \in [{"console", "cli"} -> Session \cup {None}],
           file' \in Token, Held(file)' \/ file' = None \/ file' = file,
           NEW c \in Client, NEW r \in ClientType, client' = [client EXCEPT ![c] = r],
           Held(r.token)' \/ r.token = None \/ r.token = client[c].token,
           r.pc = "sent" => r.session \in Session
    PROVE  IInv'
  <1>1. /\ session' \in [Session -> Row \cup {None}]
        /\ \A u \in Session : session'[u] # None => Consistent(u)'
        /\ \A token : Held(token) => Held(token)'
    BY RowChange
  <1>2. Held(None) /\ Held(file) /\ Held(client[c].token)  BY EmptyTokens DEF IInv
  <1>3. Held(None)' /\ Held(client[c].token)  BY <1>1, <1>2
  <1>4. Held(file)'  BY <1>1, <1>2, <1>3 DEF Held
  <1>5. client' \in [Client -> ClientType] /\ \A d \in Client : client'[d] = IF d = c THEN r ELSE client[d]
    BY DEF IInv, TypeOK, ClientType
  <1>6. TypeOK'  BY <1>1, <1>5 DEF IInv, TypeOK, ClientType
  <1>7. ASSUME NEW d \in Client  PROVE  Held(client[d].token)'
    <2>1. Held(client[d].token)  BY DEF IInv
    <2> DEFINE old == client[d].token
    <2>2. \A s2 \in Session, n \in 1..MaxToken : old = <<s2, n>> => session'[s2] # None /\ n <= session'[s2].csrf
      BY <2>1, <1>1 DEF Held
    <2>3. CASE d # c  BY <2>2, <2>3, <1>5 DEF Held
    <2>4. CASE d = c /\ r.token = client[c].token  BY <2>2, <2>4, <1>5 DEF Held
    <2>5. CASE d = c /\ r.token = None  BY <1>3, <2>5, <1>5 DEF Held
    <2>6. CASE d = c /\ Held(r.token)'  BY <2>6, <1>5 DEF Held
    <2> QED  BY <2>3, <2>4, <2>5, <2>6
  <1>8. \A d \in Client : client'[d].pc = "sent" /\ client'[d].op # "login" => client'[d].session \in Session
    BY <1>5 DEF IInv
  <1> QED  BY <1>1, <1>4, <1>6, <1>7, <1>8 DEF IInv

\* The client ends its request.
LEMMA FinishType ==
    ASSUME IInv, NEW c \in Client, NEW token \in Token, Finish(c, "idle", token)
    PROVE  \E r \in ClientType : /\ client' = [client EXCEPT ![c] = r]
                                /\ r.token \in {None, token} /\ r.pc = "idle"
  <1> DEFINE k == IF c \in Cli THEN None ELSE token
             r == Resting("idle", k)
  <1>1. client' = [client EXCEPT ![c] = r]  BY DEF Finish
  <1>2. k \in Token /\ k \in {None, token}  BY EmptyTokens
  <1> HIDE DEF k
  <1>3. r \in ClientType /\ r.token = k /\ r.pc = "idle"  BY <1>2, Constants DEF Resting, ClientType
  <1> HIDE DEF r
  <1> QED  BY <1>1, <1>2, <1>3

LEMMA CreateInv ==
    ASSUME IInv, NEW c \in Client, NEW s \in Session, NEW delivered \in BOOLEAN, CreateAdminSession(c, s, delivered)
    PROVE  IInv'
  <1> DEFINE t == client[c].at
             row == [auth |-> auth, csrf |-> 1, previous |-> None, rotated |-> t, created |-> t, last |-> t,
                     expires |-> t + effective.absolute, idle |-> effective.idle, revoked |-> FALSE]
             p == Min({t + effective.absolute, t + effective.idle})
  <1>1. t \in Nat /\ Born <= t /\ auth \in 1..MaxAuth /\ effective.absolute \in Nat \ {0}
        /\ effective.idle \in Nat \ {0} /\ t + effective.absolute \in Nat /\ t + effective.idle \in Nat
    BY Constants DEF IInv, TypeOK, CreateAdminSession
  <1>2. row \in Row  BY <1>1, Constants DEF Row
  <1>3. p \in Nat /\ p = Expiry(row)  BY <1>1, Least DEF Expiry
  <1>4. /\ session' = [session EXCEPT ![s] = row] /\ promised' = [promised EXCEPT ![s] = p]
        /\ session[s] = None /\ UNCHANGED <<now, up, auth, desired, effective>>
    BY DEF CreateAdminSession, settings
  <1>5. ~Corrupt(row) /\ row.csrf = 1 /\ row.previous = None /\ row.auth = auth
    BY <1>1, Constants DEF Corrupt
  <1> HIDE DEF row, p
  <1>6. session'[s] = row /\ promised'[s] = p /\ (\A u \in Session : u # s => promised'[u] = promised[u])
        /\ promised' \in [Session -> Nat]
    BY <1>3, <1>4 DEF IInv, TypeOK
  <1>7. Consistent(s)'
    <2>2. p <= p  BY <1>3
    <2> QED  BY <1>3, <1>4, <1>5, <1>6, <2>2 DEF Consistent, Corrupt, Expiry
  <1>8. <<s, 1>> \in Token /\ Held(<<s, 1>>)'
    BY <1>2, <1>5, <1>6, Constants DEF Token, Held
  <1>9. CASE delivered
    <2>1. Receive(c, s, 1) /\ Finish(c, "idle", <<s, 1>>)  BY <1>9 DEF CreateAdminSession
    <2>2. PICK r \in ClientType : client' = [client EXCEPT ![c] = r] /\ r.token \in {None, <<s, 1>>} /\ r.pc = "idle"
      BY <2>1, <1>8, FinishType
    <2>3. Held(r.token)' \/ r.token = None  BY <2>2, <1>8 DEF Held
    <2>4. jar' \in [{"console", "cli"} -> Session \cup {None}]  BY <2>1 DEF Receive, Kind, IInv, TypeOK
    <2>5. file' \in Token /\ (Held(file)' \/ file' = file)  BY <2>1, <1>8 DEF Receive, Held, IInv, TypeOK
    <2>6. desired' \in Policy  BY <1>4 DEF IInv, TypeOK
    <2> QED  BY <1>2, <1>4, <1>6, <1>7, <2>2, <2>3, <2>4, <2>5, <2>6, RowStep
  <1>10. CASE ~delivered
    <2>1. jar' = jar /\ file' = file /\ Finish(c, "idle", client[c].token)
      BY <1>10 DEF CreateAdminSession, store
    <2>0. client[c].token \in Token  BY DEF IInv, TypeOK
    <2>2. PICK r \in ClientType : client' = [client EXCEPT ![c] = r] /\ r.token \in {None, client[c].token} /\ r.pc = "idle"
      BY <2>0, <2>1, FinishType
    <2>6. desired' \in Policy /\ jar' \in [{"console", "cli"} -> Session \cup {None}] /\ file' \in Token
      BY <1>4, <2>1 DEF IInv, TypeOK
    <2> QED  BY <1>2, <1>4, <1>6, <1>7, <2>1, <2>2, <2>6, RowStep
  <1> QED  BY <1>9, <1>10

\* Any change of a row that keeps its lifetime and moves its activity forward.
LEMMA LiveRow ==
    ASSUME IInv, NEW s \in Session, session[s] # None, NEW row \in Row,
           session' = [session EXCEPT ![s] = row], UNCHANGED auth,
           row.auth = session[s].auth, row.created = session[s].created, row.expires = session[s].expires,
           row.idle = session[s].idle, session[s].last <= row.last, session[s].rotated <= row.rotated,
           row.revoked = session[s].revoked \/ row.revoked,
           row.previous = IF row.csrf = 1 THEN None ELSE row.csrf - 1,
           promised'[s] = promised[s] \/ promised'[s] = Min({row.expires, row.last + row.idle})
    PROVE  Consistent(s)'
  <1>1. session[s] \in Row /\ Consistent(s) /\ session'[s] = row  BY DEF IInv, TypeOK
  <1>2. ~Corrupt(row)  BY <1>1, Constants DEF Consistent, Corrupt, Row
  <1>3. Expiry(session[s]) \in Nat /\ Expiry(session[s]) <= Expiry(row)
        /\ Expiry(row) = Min({row.expires, row.last + row.idle})
    BY <1>1, LaterActivity
  <1>4. promised[s] \in Nat  BY DEF IInv, TypeOK
  <1>5. Expiry(row) \in Nat
    <2>1. row.expires \in Nat /\ row.last + row.idle \in Nat  BY DEF Row
    <2> QED  BY <2>1, <1>3, Least
  <1>6. promised'[s] <= Expiry(row)  BY <1>1, <1>3, <1>4, <1>5 DEF Consistent
  <1> QED  BY <1>1, <1>2, <1>6 DEF Consistent, Corrupt, Expiry

\* An authorized request: its session is a row, and its time is a reading.
LEMMA AuthorizedRow ==
    ASSUME IInv, NEW c \in Client, NEW op \in {"read", "mutate", "logout", "me"}, Authorized(c, op)
    PROVE  /\ client[c].session \in Session /\ session[client[c].session] # None
           /\ session[client[c].session] \in Row /\ Reading(c) \in Nat
           /\ client[c].pc = "sent" /\ client[c] \in ClientType
  <1>1. client[c].session \in Session /\ session[client[c].session] # None
    BY DEF Authorized, readLiveSession, IInv, TypeOK
  <1>2. Reading(c) \in Nat  BY Constants DEF Reading, IInv, TypeOK
  <1>3. client[c] \in ClientType  BY ClientFits DEF Fits
  <1> QED  BY <1>1, <1>2, <1>3 DEF IInv, TypeOK, Authorized

LEMMA UseInv ==
    ASSUME IInv, NEW c \in Client, NEW op \in {"read", "mutate"}, NEW policy \in Policy, UseAdminSession(c, op, policy)
    PROVE  IInv'
  <1>0. PICK s \in Session : s = client[c].session  BY AuthorizedRow DEF UseAdminSession
  <1> DEFINE a == activityAt(session[s], Reading(c))
             row == [session[s] EXCEPT !.last = a]
  <1>1. session[s] # None /\ session[s] \in Row /\ Reading(c) \in Nat
    BY <1>0, AuthorizedRow DEF UseAdminSession
  <1>2. a \in Nat /\ session[s].last <= a  BY <1>1, RecordedTimes
  <1>3. session' = [session EXCEPT ![s] = row]
    BY <1>0, <1>1 DEF UseAdminSession, Touch, IInv, TypeOK
  <1>4. UNCHANGED <<now, up, auth, effective, jar, file, promised>> /\ Finish(c, "idle", client[c].token)
        /\ desired' \in Policy
    BY DEF UseAdminSession, store, IInv, TypeOK
  <1> HIDE DEF a
  <1>5. row \in Row /\ row.auth = session[s].auth /\ row.created = session[s].created
        /\ row.expires = session[s].expires /\ row.idle = session[s].idle /\ row.last = a
        /\ row.rotated = session[s].rotated /\ row.revoked = session[s].revoked
        /\ row.csrf = session[s].csrf /\ row.previous = session[s].previous
    BY <1>1, <1>2 DEF Row
  <1> HIDE DEF row
  <1>6. session[s].rotated <= row.rotated /\ session[s].csrf <= row.csrf  BY <1>1, <1>5 DEF Row
  <1>7. row.previous = IF row.csrf = 1 THEN None ELSE row.csrf - 1  BY <1>1, <1>5 DEF IInv, Consistent
  <1>8. Consistent(s)'  BY <1>1, <1>2, <1>3, <1>4, <1>5, <1>6, <1>7, LiveRow
  <1>9. client[c].token \in Token /\ promised' \in [Session -> Nat]
        /\ jar' \in [{"console", "cli"} -> Session \cup {None}] /\ file' \in Token
    BY <1>4 DEF IInv, TypeOK
  <1>10. PICK r \in ClientType : client' = [client EXCEPT ![c] = r] /\ r.token \in {None, client[c].token} /\ r.pc = "idle"
    BY <1>4, <1>9, FinishType
  <1> QED  BY <1>3, <1>4, <1>5, <1>6, <1>8, <1>9, <1>10, RowStep

LEMMA RotateInv ==
    ASSUME IInv, NEW c \in Client, NEW delivered \in BOOLEAN, RotateAdminSessionCSRF(c, delivered)
    PROVE  IInv'
  <1>0. PICK s \in Session : s = client[c].session  BY AuthorizedRow DEF RotateAdminSessionCSRF
  <1>00. PICK n \in 1..MaxToken : n = session[s].csrf + 1
    <2>1. session[s] \in Row  BY <1>0, AuthorizedRow DEF RotateAdminSessionCSRF
    <2>2. session[s].csrf + 1 <= MaxToken  BY <1>0 DEF RotateAdminSessionCSRF
    <2> QED  BY <2>1, <2>2, Constants DEF Row
  <1> DEFINE t == Reading(c)
             a == activityAt(session[s], t)
             b == rotationAt(session[s], t)
             p == Min({session[s].expires, a + session[s].idle})
             row == [session[s] EXCEPT !.csrf = n, !.previous = session[s].csrf, !.rotated = b, !.last = a]
  <1>1. session[s] # None /\ session[s] \in Row /\ t \in Nat /\ client[c] \in ClientType /\ client[c].pc = "sent"
    BY <1>0, AuthorizedRow DEF RotateAdminSessionCSRF
  <1>2. a \in Nat /\ session[s].last <= a /\ b \in Nat /\ session[s].rotated <= b
    BY <1>1, RecordedTimes
  <1>3. session' = [session EXCEPT ![s] = row] /\ promised' = [promised EXCEPT ![s] = p]
    BY <1>0, <1>00, <1>1 DEF RotateAdminSessionCSRF, IInv, TypeOK
  <1>4. UNCHANGED <<now, up, auth, desired, effective>>  BY DEF RotateAdminSessionCSRF, settings
  <1>5. /\ ~delivered => jar' = jar /\ file' = file /\ Finish(c, "idle", client[c].token)
        /\ delivered => Receive(c, s, n)
        /\ delivered /\ client[c].goal = None => Finish(c, "idle", <<s, n>>)
        /\ delivered /\ client[c].goal # None =>
              client' = [client EXCEPT ![c].op = client[c].goal, ![c].token = <<s, n>>, ![c].at = now]
    BY <1>0, <1>00 DEF RotateAdminSessionCSRF, store
  <1>6. session[s].csrf \in 1..MaxToken /\ n # 1 /\ session[s].csrf = n - 1  BY <1>1, <1>00, Constants DEF Row
  <1> HIDE DEF a, b, t
  <1>7. row \in Row /\ row.auth = session[s].auth /\ row.created = session[s].created
        /\ row.expires = session[s].expires /\ row.idle = session[s].idle /\ row.last = a
        /\ row.rotated = b /\ row.revoked = session[s].revoked
        /\ row.csrf = n /\ row.previous = session[s].csrf
    BY <1>1, <1>2, <1>6 DEF Row
  <1> HIDE DEF row
  <1>8. session[s].csrf <= row.csrf  BY <1>6, <1>7
  <1>9. row.previous = IF row.csrf = 1 THEN None ELSE row.csrf - 1  BY <1>6, <1>7
  <1>10. p \in Nat /\ p = Min({row.expires, row.last + row.idle})
    <2>1. session[s].expires \in Nat /\ a + session[s].idle \in Nat  BY <1>1, <1>2 DEF Row
    <2>2. p \in Nat  BY <2>1, Least
    <2> QED  BY <2>2, <1>7
  <1> HIDE DEF p
  <1>11. promised'[s] = p /\ promised' \in [Session -> Nat] /\ (\A u \in Session : u # s => promised'[u] = promised[u])
    BY <1>3, <1>10 DEF IInv, TypeOK
  <1>12. Consistent(s)'  BY <1>1, <1>2, <1>3, <1>4, <1>7, <1>9, <1>10, <1>11, LiveRow
  <1>13. <<s, n>> \in Token /\ Held(<<s, n>>)'
    <2>1. session'[s] = row /\ row # None  BY <1>3, <1>7, Constants DEF IInv, TypeOK
    <2>2. <<s, n>> \in Token  BY <1>6 DEF Token
    <2>3. \A u \in Session, m \in 1..MaxToken : <<s, n>> = <<u, m>> => session'[u] # None /\ m <= session'[u].csrf
      BY <2>1, <1>6, <1>7
    <2>4. Held(<<s, n>>)'  BY <2>3 DEF Held
    <2> QED  BY <2>2, <2>4
  <1>14. jar' \in [{"console", "cli"} -> Session \cup {None}] /\ file' \in Token /\ (Held(file)' \/ file' = file)
    <2>1. file' = file \/ file' = <<s, n>>  BY <1>5 DEF Receive
    <2>2. file \in Token  BY DEF IInv, TypeOK
    <2>3. jar' \in [{"console", "cli"} -> Session \cup {None}]
      BY <1>5 DEF Receive, Kind, IInv, TypeOK
    <2>4. file' = <<s, n>> => Held(file)'  BY <1>13 DEF Held
    <2> QED  BY <1>13, <2>1, <2>2, <2>3, <2>4
  <1>15. desired' \in Policy /\ client[c].token \in Token  BY <1>4 DEF IInv, TypeOK
  <1>16. PICK r \in ClientType : /\ client' = [client EXCEPT ![c] = r]
                                 /\ r.token \in {None, client[c].token, <<s, n>>}
                                 /\ r.pc = "sent" => r.session \in Session
    <2>1. CASE ~delivered  BY <2>1, <1>5, <1>15, FinishType
    <2>2. CASE delivered /\ client[c].goal = None  BY <2>2, <1>5, <1>13, FinishType
    <2>3. CASE delivered /\ client[c].goal # None
      <3> DEFINE r == [client[c] EXCEPT !.op = client[c].goal, !.token = <<s, n>>, !.at = now]
      <3>1. client' = [client EXCEPT ![c] = r]  BY <2>3, <1>5 DEF IInv, TypeOK
      <3>2. now \in 0..MaxTime /\ client[c].goal \in {"read", "mutate"}
        BY <2>3, <1>1 DEF IInv, TypeOK, ClientType
      <3>3. r \in ClientType /\ r.token = <<s, n>> /\ r.session = client[c].session
        BY <1>1, <1>13, <3>2 DEF ClientType
      <3> HIDE DEF r
      <3> QED  BY <1>0, <3>1, <3>3
    <2> QED  BY <2>1, <2>2, <2>3
  <1>17. Held(r.token)' \/ r.token = None \/ r.token = client[c].token
    BY <1>13, <1>16 DEF Held
  <1> QED  BY <1>3, <1>4, <1>7, <1>8, <1>11, <1>12, <1>14, <1>15, <1>16, <1>17, RowStep

LEMMA RevokeInv ==
    ASSUME IInv, NEW c \in Client, RevokeAdminSession(c)
    PROVE  IInv'
  <1>0. PICK s \in Session : s = client[c].session  BY AuthorizedRow DEF RevokeAdminSession
  <1> DEFINE row == [session[s] EXCEPT !.revoked = TRUE]
  <1>1. session[s] # None /\ session[s] \in Row
    BY <1>0, AuthorizedRow DEF RevokeAdminSession
  <1>3. session' = [session EXCEPT ![s] = row]
    BY <1>0, <1>1 DEF RevokeAdminSession, IInv, TypeOK
  <1>4. UNCHANGED <<now, up, auth, desired, effective, promised>> /\ Finish(c, "idle", None)
        /\ jar' = [jar EXCEPT ![Kind(c)] = None] /\ file' \in {None, file}
    BY DEF RevokeAdminSession, settings
  <1>5. row \in Row /\ row.auth = session[s].auth /\ row.created = session[s].created
        /\ row.expires = session[s].expires /\ row.idle = session[s].idle /\ row.last = session[s].last
        /\ row.rotated = session[s].rotated /\ row.revoked = TRUE
        /\ row.csrf = session[s].csrf /\ row.previous = session[s].previous
    BY <1>1 DEF Row
  <1> HIDE DEF row
  <1>6. session[s].rotated <= row.rotated /\ session[s].csrf <= row.csrf /\ session[s].last <= row.last
    BY <1>1, <1>5 DEF Row
  <1>7. row.previous = IF row.csrf = 1 THEN None ELSE row.csrf - 1  BY <1>1, <1>5 DEF IInv, Consistent
  <1>8. Consistent(s)'  BY <1>1, <1>3, <1>4, <1>5, <1>6, <1>7, LiveRow
  <1>9. /\ promised' \in [Session -> Nat] /\ desired' \in Policy
        /\ jar' \in [{"console", "cli"} -> Session \cup {None}] /\ file' \in Token
    BY <1>4, EmptyTokens DEF IInv, TypeOK, Kind
  <1>10. PICK r \in ClientType : client' = [client EXCEPT ![c] = r] /\ r.token \in {None, None} /\ r.pc = "idle"
    BY <1>4, EmptyTokens, FinishType
  <1> QED  BY <1>3, <1>4, <1>5, <1>6, <1>8, <1>9, <1>10, RowStep

LEMMA HandleInv ==
    ASSUME IInv, NEW c \in Client, Handle(c)
    PROVE  IInv'
  <1>1. ASSUME NEW op \in {"read", "mutate", "logout", "me"}, Send(c, op)  PROVE  IInv'  BY <1>1, SendInv
  <1>2. CASE VerifyPassword(c)  BY <1>2, VerifyInv
  <1>3. CASE Abort(c)  BY <1>3, ErrorInv DEF Abort
  <1>4. ASSUME NEW s \in Session, NEW d \in BOOLEAN, CreateAdminSession(c, s, d)  PROVE  IInv'
    BY <1>4, CreateInv
  <1>5. ASSUME NEW op \in {"read", "mutate"}, NEW p \in Policy, UseAdminSession(c, op, p)  PROVE  IInv'
    BY <1>5, UseInv
  <1>6. ASSUME NEW d \in BOOLEAN, RotateAdminSessionCSRF(c, d)  PROVE  IInv'  BY <1>6, RotateInv
  <1>7. CASE RevokeAdminSession(c)  BY <1>7, RevokeInv
  <1>8. CASE Refuse(c)  BY <1>8, ErrorInv DEF Refuse
  <1>9. CASE Recover(c)  BY <1>9, RecoverInv
  <1>10. CASE Fail(c)  BY <1>10, ErrorInv DEF Fail, Rejected
  <1> QED  BY <1>1, <1>2, <1>3, <1>4, <1>5, <1>6, <1>7, <1>8, <1>9, <1>10 DEF Handle

----------------------------------------------------------------------------
(* The service, the CLI under the lock, and the clock                      *)

LEMMA StopInv == IInv /\ Stop => IInv'
  <1> SUFFICES ASSUME IInv, Stop  PROVE  IInv'  OBVIOUS
  <1>1. UNCHANGED <<now, auth, desired, effective, session, jar, file, promised>> /\ up' = FALSE
    BY DEF Stop, settings, store
  <1>2. client' = [c \in Client |->
          IF client[c].pc = "sent" THEN Resting("idle", IF c \in Cli THEN None ELSE client[c].token) ELSE client[c]]
    BY DEF Stop
  <1>3. ASSUME NEW c \in Client  PROVE  Fits(client'[c])
    <2>1. Fits(client[c]) /\ client[c].token \in Token /\ Held(client[c].token)
      BY ClientFits DEF IInv, TypeOK
    <2> DEFINE k == IF c \in Cli THEN None ELSE client[c].token
    <2>2. k \in Token /\ Held(k)  BY <2>1, EmptyTokens
    <2>3. client'[c] = IF client[c].pc = "sent" THEN Resting("idle", k) ELSE client[c]  BY <1>2
    <2> HIDE DEF k
    <2> QED  BY <2>1, <2>2, <2>3, RestingFits
  <1>4. client' \in [Client -> ClientType]  BY <1>2, <1>3 DEF Fits
  <1> QED  BY <1>1, <1>3, <1>4, SameRows DEF IInv, TypeOK

LEMMA QuietInv ==
    ASSUME IInv, Start \/ (\E p \in Policy : ApplyOffline(p)) \/ (\E t \in 0..MaxTime : SetClock(t))
                   \/ UNCHANGED vars
    PROVE  IInv'
  <1>1. UNCHANGED <<auth, session, jar, file, client, promised>>
        /\ now' \in 0..MaxTime /\ up' \in BOOLEAN /\ desired' \in Policy /\ effective' \in Policy
    BY DEF Start, ApplyOffline, SetClock, vars, settings, store, IInv, TypeOK
  <1>2. client' \in [Client -> ClientType] /\ \A c \in Client : Fits(client'[c])
    BY <1>1, ClientFits DEF IInv, TypeOK, ClientType
  <1> QED  BY <1>1, <1>2, SameRows DEF IInv, TypeOK

\* Nobody is left in under the old password (ResetAdminPassword revokes every row).
LEMMA ResetInv == IInv /\ ResetAdminPassword => IInv'
  <1> SUFFICES ASSUME IInv, ResetAdminPassword  PROVE  IInv'  OBVIOUS
  <1>1. UNCHANGED <<now, up, desired, effective, jar, file, client, promised>>
        /\ auth' = auth + 1 /\ auth < MaxAuth
        /\ session' = [s \in Session |-> IF session[s] = None THEN None ELSE [session[s] EXCEPT !.revoked = TRUE]]
    BY DEF ResetAdminPassword, settings, store
  <1>2. ASSUME NEW s \in Session
        PROVE  /\ session'[s] \in Row \cup {None}
               /\ session'[s] # None <=> session[s] # None
               /\ session[s] # None =>
                    /\ session'[s].revoked /\ session'[s].csrf = session[s].csrf
                    /\ session'[s].previous = session[s].previous /\ session'[s].rotated = session[s].rotated
                    /\ session'[s].created = session[s].created /\ session'[s].last = session[s].last
                    /\ session'[s].expires = session[s].expires /\ session'[s].idle = session[s].idle
    <2>1. CASE session[s] = None  BY <2>1, <1>1
    <2>2. CASE session[s] # None
      <3>1. session[s] \in Row  BY <2>2 DEF IInv, TypeOK
      <3>2. session'[s] = [session[s] EXCEPT !.revoked = TRUE]  BY <1>1, <2>2
      <3>3. session'[s] \in Row  BY <3>1, <3>2 DEF Row
      <3> QED  BY <2>2, <3>1, <3>2, <3>3, Constants DEF Row
    <2> QED  BY <2>1, <2>2
  <1>3. session' \in [Session -> Row \cup {None}]  BY <1>1, <1>2
  <1>4. TypeOK'  BY <1>1, <1>3, Constants DEF IInv, TypeOK
  <1>5. ASSUME NEW s \in Session, session'[s] # None  PROVE  Consistent(s)'
    BY <1>1, <1>2, <1>5 DEF IInv, Consistent, Corrupt, Expiry
  <1>6. Held(file)' /\ \A c \in Client : Held(client[c].token)'
    BY <1>1, <1>2 DEF IInv, Held
  <1> QED  BY <1>1, <1>4, <1>5, <1>6 DEF IInv

LEMMA StepInv == IInv /\ [Next]_vars => IInv'
  BY HandleInv, StopInv, QuietInv, ResetInv DEF Next

----------------------------------------------------------------------------
(* Theorems                                                                *)

\* Rows, and the tokens that cookies, files and tabs hold, through every
\* interleaving of requests with resets, settings and the clock.
THEOREM SessionInvariance == Spec => []IInv
  BY InitInv, StepInv, PTL DEF Spec

\* Types of rows, clients and settings.
THEOREM SessionTypeCorrect == Spec => []TypeOK
  BY SessionInvariance, PTL DEF IInv

\* No row is ever one that readLiveSession reports as corrupt (CreateAdminSession,
\* activityAt, rotationAt).
THEOREM RowsValid == Spec => []RowsStayValid
  <1>1. IInv => RowsStayValid  BY DEF IInv, Consistent, RowsStayValid
  <1> QED  BY <1>1, SessionInvariance, PTL

\* No row expires before the last expiry that an answer announced for it, because
\* recorded activity never moves back and a row keeps the periods it was created with
\* (Expiry).  A later use may prolong it: the announced time is no upper bound.
THEOREM ExpiryHolds == Spec => []AnnouncedExpiryHolds
  <1>1. IInv => AnnouncedExpiryHolds  BY DEF IInv, Consistent, AnnouncedExpiryHolds
  <1> QED  BY <1>1, SessionInvariance, PTL

\* A reset of the password closes every session (ResetAdminPassword).
THEOREM ResetCloses == Spec => []ResetClosesSessions
  <1>1. IInv => ResetClosesSessions  BY DEF IInv, Consistent, ResetClosesSessions
  <1> QED  BY <1>1, SessionInvariance, PTL

\* A reload displaces another client only once the window is over, by the clock that
\* the displaced request has read (validCSRF).
THEOREM ReloadsAreTolerated == Spec => []OneReloadDisplacesNobody
  <1>1. IInv => OneReloadDisplacesNobody
    <2> SUFFICES ASSUME IInv, NEW c \in Client, Displaced(c)
                 PROVE  LET s == client[c].session
                        IN  Reading(c) < session[s].rotated \/ session[s].rotated + Window < Reading(c)
      BY DEF OneReloadDisplacesNobody
    <2> DEFINE s == client[c].session
    <2>1. Rejected(c)  BY DEF Displaced
    <2>2. PICK n \in 1..MaxToken : client[c].token = <<s, n>> /\ session[s].csrf <= n + 1
      BY DEF Displaced
    <2>3. s \in Session  BY <2>1 DEF Rejected, IInv
    <2>4. session[s] # None /\ n <= session[s].csrf  BY <2>2, <2>3 DEF IInv, Held
    <2>5. session[s] \in Row /\ Consistent(s)  BY <2>3, <2>4 DEF IInv, TypeOK
    <2>6. client[c].token[2] = n /\ n # 0  BY <2>2
    <2>7. ~validCSRF(s, client[c].token, Reading(c))
      BY <2>1, <2>6 DEF Rejected, NoToken
    <2>8. n # session[s].csrf  BY <2>2, <2>7 DEF validCSRF
    <2>9. session[s].previous = n /\ session[s].previous # None
      BY <2>2, <2>4, <2>5, <2>8, Constants DEF Consistent, Row
    <2>10. ~(session[s].rotated <= Reading(c) /\ Reading(c) <= session[s].rotated + Window)
      BY <2>2, <2>7, <2>9 DEF validCSRF
    <2>11. Reading(c) \in Nat /\ session[s].rotated \in Nat
      BY <2>5, Constants DEF Reading, Row, IInv, TypeOK
    <2> QED  BY <2>10, <2>11, Constants
  <1> QED  BY <1>1, SessionInvariance, PTL

----------------------------------------------------------------------------
(* The administrative catalogue                                            *)

\* The part of the types that the arguments below need.
CatalogTypeInv ==
    /\ kind \in Kinds
    /\ resource \in [Name -> Rows \cup {Absent}]
    /\ copy \in [Caller -> Copies \cup {Absent}]
    /\ used \subseteq Id /\ revoked \subseteq used
    /\ bearers \in Nat
    /\ verifier \in [Id -> 0..bearers]

\* An identity names one row, and was drawn before.
Identities ==
    /\ \A n \in Name : resource[n] # Absent => resource[n].id \in used
    /\ \A n, m \in Name :
         resource[n] # Absent /\ resource[m] # Absent /\ resource[n].id = resource[m].id => n = m
    /\ \A i \in Id : verifier[i] # 0 => i \in used

\* What a client holds is a row that was there, which may have changed since or be
\* gone, but has not moved to another name.
Follows(c) ==
    /\ c.row.id \in used
    /\ \A n \in Name : resource[n] # Absent /\ resource[n].id = c.row.id =>
           /\ n = c.name
           /\ c.row.version <= resource[n].version
           /\ c.row.version = resource[n].version => c.row = resource[n]

CopiesFollow == \A c \in Caller : copy[c] # Absent => Follows(copy[c])

CatalogInv == CatalogTypeInv /\ Identities /\ CopiesFollow

LEMMA CatalogConstants ==
    /\ MaxId \in Nat /\ MaxVersion \in Nat \ {0} /\ MaxBearer \in Nat /\ Limit \in Nat \ {0}
    /\ Absent \notin Id
    /\ kind \in Kinds => Absent \notin Rows
  BY CatalogAssumption DEF Rows

LEMMA CatalogInitInv ==
    ASSUME CatalogInit
    PROVE  CatalogInv
  <1>1. MaxId \in Nat /\ MaxVersion \in Nat \ {0} /\ Absent \notin Rows
    BY CatalogAssumption DEF CatalogInit, Rows
  <1> QED  BY <1>1 DEF CatalogInit, CatalogInv, CatalogTypeInv, Identities, CopiesFollow, Id

----------------------------------------------------------------------------
(* The ways in which a step changes rows and copies                        *)

\* Tokens: bearers only grow, and only a stored identity gets one.
TokenStep ==
    /\ bearers' \in Nat /\ bearers <= bearers'
    /\ verifier' \in [Id -> 0..bearers']
    /\ revoked \subseteq revoked' /\ revoked' \subseteq used'
    /\ \A i \in Id : verifier'[i] # verifier[i] => i \in used /\ verifier'[i] = bearers + 1

\* A row is written whole: a new identity at version 1, or the next version of the
\* same one, or the row goes.
ResourceStep(n) ==
    /\ \A m \in Name : m # n => resource'[m] = resource[m]
    /\ \/ resource'[n] = Absent /\ used' = used
       \/ resource[n] = Absent /\ resource'[n] \in Rows /\ resource'[n].id \notin used
          /\ used' = used \cup {resource'[n].id}
       \/ resource[n] # Absent /\ resource'[n] \in Rows /\ resource'[n].id = resource[n].id
          /\ resource'[n].version = resource[n].version + 1 /\ used' = used

\* A copy stays, or is of a row as it is now.
CopyStep ==
    /\ copy' \in [Caller -> Copies \cup {Absent}]
    /\ \A c \in Caller :
         \/ copy'[c] = copy[c]
         \/ \E m \in Name : copy'[c] = [name |-> m, row |-> resource'[m]] /\ resource'[m] \in Rows

Shape ==
    /\ kind' = kind
    /\ resource' \in [Name -> Rows \cup {Absent}]
    /\ (resource' = resource /\ used' = used) \/ \E n \in Name : ResourceStep(n)
    /\ CopyStep
    /\ TokenStep

LEMMA NameStays == kind' = kind => Name' = Name /\ Rows' = Rows /\ Copies' = Copies
  BY DEF Name, Rows, Copies

\* Such a step keeps the invariant.
LEMMA ShapeInv ==
    ASSUME CatalogInv, Shape
    PROVE  CatalogInv'
  <1>1. Name' = Name /\ Rows' = Rows /\ Copies' = Copies  BY NameStays DEF Shape
  <1>2. \A n \in Name : resource[n] # Absent => resource[n] \in Rows  BY DEF CatalogInv, CatalogTypeInv
  <1>3. used \subseteq used' /\ used' \subseteq Id
    BY DEF Shape, ResourceStep, CatalogInv, CatalogTypeInv, Rows
  <1>4. CatalogTypeInv'
    BY <1>1, <1>3 DEF CatalogInv, CatalogTypeInv, Shape, CopyStep, TokenStep
  <1>5. \A n \in Name : resource'[n] # Absent =>
            \/ resource[n] # Absent /\ resource'[n].id = resource[n].id
               /\ (resource'[n] = resource[n] \/ resource'[n].version = resource[n].version + 1)
            \/ resource'[n].id \notin used /\ resource'[n].id \in used' /\ resource[n] = Absent
    BY DEF Shape, ResourceStep
  <1>6. \A n, m \in Name : resource'[n] # Absent /\ resource'[n].id \notin used
                           /\ resource'[m] # Absent /\ resource'[m].id \notin used => n = m
    BY <1>5 DEF Shape, ResourceStep, CatalogInv, Identities
  <1>7. Identities'
    <2>1. \A n \in Name : resource'[n] # Absent => resource'[n].id \in used'
      BY <1>3, <1>5 DEF CatalogInv, Identities
    <2>2. ASSUME NEW n \in Name, NEW m \in Name,
                 resource'[n] # Absent, resource'[m] # Absent, resource'[n].id = resource'[m].id
          PROVE  n = m
      BY <2>2, <1>5, <1>6 DEF CatalogInv, Identities
    <2>3. \A i \in Id : verifier'[i] # 0 => i \in used'
      BY <1>3 DEF CatalogInv, Identities, Shape, TokenStep
    <2> QED  BY <1>1, <2>1, <2>2, <2>3 DEF Identities
  <1>8. ASSUME NEW c \in Caller, copy'[c] # Absent
        PROVE  Follows(copy[c])'
    <2>1. CASE copy'[c] = copy[c]
      <3>1. Follows(copy[c]) /\ copy[c] \in Copies
        BY <1>8, <2>1 DEF CatalogInv, CopiesFollow, CatalogTypeInv
      <3>2. copy[c].row.id \in used'  BY <3>1, <1>3 DEF Follows
      <3>3. ASSUME NEW n \in Name, resource'[n] # Absent, resource'[n].id = copy[c].row.id
            PROVE  /\ n = copy[c].name
                   /\ copy[c].row.version <= resource'[n].version
                   /\ copy[c].row.version = resource'[n].version => copy[c].row = resource'[n]
        <4>1. resource[n] # Absent /\ resource'[n].id = resource[n].id
              /\ (resource'[n] = resource[n] \/ resource'[n].version = resource[n].version + 1)
          BY <3>1, <3>3, <1>5 DEF Follows
        <4>2. resource[n].version \in Nat /\ copy[c].row.version \in Nat
          BY <4>1, <1>2, <3>1 DEF Rows, Copies
        <4>3. /\ n = copy[c].name
              /\ copy[c].row.version <= resource[n].version
              /\ copy[c].row.version = resource[n].version => copy[c].row = resource[n]
          BY <4>1, <3>1, <3>3 DEF Follows
        <4>4. CASE resource'[n] = resource[n]  BY <4>3, <4>4
        <4>5. CASE resource'[n].version = resource[n].version + 1  BY <4>2, <4>3, <4>5
        <4> QED  BY <4>1, <4>4, <4>5
      <3> QED  BY <3>2, <3>3, <2>1, <1>1 DEF Follows
    <2>2. CASE copy'[c] # copy[c]
      <3>1. PICK m \in Name : copy'[c] = [name |-> m, row |-> resource'[m]] /\ resource'[m] \in Rows
        BY <2>2 DEF Shape, CopyStep
      <3>2. resource'[m] # Absent  BY <3>1, CatalogConstants DEF CatalogInv, CatalogTypeInv
      <3>3. QED
        <4>1. copy'[c].row = resource'[m] /\ copy'[c].name = m  BY <3>1
        <4>2. resource'[m].id \in used'  BY <3>2, <1>1, <1>7 DEF Identities
        <4>3. \A n \in Name : resource'[n] # Absent /\ resource'[n].id = resource'[m].id => n = m
          BY <3>2, <1>1, <1>7 DEF Identities
        <4>4. resource'[m].version <= resource'[m].version  BY <3>1 DEF Rows
        <4> QED  BY <4>1, <4>2, <4>3, <4>4, <1>1 DEF Follows
    <2> QED  BY <2>1, <2>2
  <1> QED  BY <1>4, <1>7, <1>8 DEF CatalogInv, CopiesFollow

----------------------------------------------------------------------------
(* Each operation has that shape                                           *)

LEMMA StoredRow ==
    ASSUME CatalogTypeInv, NEW n \in Name, resource[n] # Absent
    PROVE  resource[n] \in Rows
  BY DEF CatalogTypeInv

\* upsertToken never gives an identity back its token.
LEMMA UpsertTokens ==
    ASSUME CatalogTypeInv, NEW r \in Rows, upsertToken(r), used \subseteq used', r.id \in used'
    PROVE  TokenStep
  BY DEF upsertToken, TokenStep, CatalogTypeInv, Rows

LEMMA AnswerCopies ==
    ASSUME CatalogTypeInv, NEW c \in Caller, NEW n \in Name, NEW r \in Rows,
           Answer(c, n, r), resource'[n] = r
    PROVE  CopyStep
  <1>1. [name |-> n, row |-> r] \in Copies  BY DEF Copies
  <1> QED  BY <1>1 DEF Answer, CopyStep, CatalogTypeInv

LEMMA SameCopies == CatalogTypeInv /\ copy' = copy => CopyStep
  BY DEF CopyStep, CatalogTypeInv

LEMMA SameTokens == CatalogTypeInv /\ tokens' = tokens /\ used' = used => TokenStep
  BY DEF TokenStep, CatalogTypeInv, tokens

LEMMA CreateShape ==
    ASSUME CatalogInv, NEW c \in Caller, NEW n \in Name, NEW s \in Content[kind], Create(c, n, s)
    PROVE  Shape
  <1>1. PICK id \in newUUID :
            LET r == [id |-> id, version |-> 1, content |-> s] IN
            used' = used \cup {id} /\ Store(n, r) /\ Answer(c, n, r)
    BY DEF Create
  <1> DEFINE r == [id |-> id, version |-> 1, content |-> s]
  <1>2. r \in Rows  BY <1>1, CatalogConstants DEF newUUID, Rows
  <1>3. resource[n] = Absent /\ kind' = kind  BY DEF Create
  <1>4. resource' = [resource EXCEPT ![n] = r]  BY <1>1 DEF Store
  <1>5. resource' \in [Name -> Rows \cup {Absent}]  BY <1>2, <1>4 DEF CatalogInv, CatalogTypeInv
  <1>6. resource'[n] = r /\ \A m \in Name : m # n => resource'[m] = resource[m]
    BY <1>4 DEF CatalogInv, CatalogTypeInv
  <1>7. ResourceStep(n)  BY <1>1, <1>2, <1>3, <1>6 DEF ResourceStep, newUUID
  <1>8. CopyStep  BY <1>1, <1>2, <1>6, AnswerCopies DEF CatalogInv
  <1>9. TokenStep  BY <1>1, <1>2, UpsertTokens DEF CatalogInv, Store
  <1> QED  BY <1>3, <1>5, <1>7, <1>8, <1>9 DEF Shape

LEMMA ChangeShape ==
    ASSUME CatalogInv, NEW c \in Caller, NEW n \in Name, NEW s \in Content[kind], resource[n] # Absent,
           resource[n].version < MaxVersion, Store(n, Changed(resource[n], s)),
           Answer(c, n, Changed(resource[n], s)),
           UNCHANGED <<kind, used>>
    PROVE  Shape
  <1> DEFINE r == Changed(resource[n], s)
  <1>1. resource[n] \in Rows  BY StoredRow DEF CatalogInv
  <1>2. r \in Rows /\ r.id = resource[n].id /\ r.version = resource[n].version + 1
    BY <1>1, CatalogConstants DEF Changed, Rows
  <1>3. resource' = [resource EXCEPT ![n] = r]  BY DEF Store
  <1> HIDE DEF r
  <1>4. resource' \in [Name -> Rows \cup {Absent}]  BY <1>2, <1>3 DEF CatalogInv, CatalogTypeInv
  <1>5. resource'[n] = r /\ \A m \in Name : m # n => resource'[m] = resource[m]
    BY <1>3 DEF CatalogInv, CatalogTypeInv
  <1>6. ResourceStep(n)  BY <1>2, <1>5 DEF ResourceStep
  <1>7. CopyStep  BY <1>2, <1>5, AnswerCopies DEF CatalogInv, r
  <1>8. TokenStep
    <2>1. r.id \in used'  BY <1>2 DEF CatalogInv, Identities
    <2> QED  BY <1>2, <2>1, UpsertTokens DEF CatalogInv, Store, r
  <1> QED  BY <1>4, <1>6, <1>7, <1>8 DEF Shape

LEMMA DeleteShape ==
    ASSUME CatalogInv, NEW n \in Name, resource' = [resource EXCEPT ![n] = Absent],
           UNCHANGED <<kind, used, copy, tokens>>
    PROVE  Shape
  <1>1. resource' \in [Name -> Rows \cup {Absent}]  BY DEF CatalogInv, CatalogTypeInv
  <1>2. ResourceStep(n)  BY DEF ResourceStep, CatalogInv, CatalogTypeInv
  <1> QED  BY <1>1, <1>2, SameCopies, SameTokens DEF Shape, CatalogInv

\* Reads, publications and repeated writes: the row stays, and the answer may carry it.
LEMMA ReadShape ==
    ASSUME CatalogInv, UNCHANGED <<kind, resource, used>>, CopyStep, TokenStep
    PROVE  Shape
  BY DEF Shape, CatalogInv, CatalogTypeInv

LEMMA GenerateTokens ==
    ASSUME CatalogInv, NEW n \in Name, resource[n] # Absent, Generate(resource[n].id)
    PROVE  TokenStep
  <1>1. resource[n].id \in used /\ resource[n].id \in Id
    BY DEF CatalogInv, CatalogTypeInv, Identities
  <1> QED  BY <1>1 DEF Generate, TokenStep, CatalogInv, CatalogTypeInv

\* A copy with which a write matches names a stored row.
LEMMA CopyName ==
    ASSUME CatalogInv, NEW c \in Caller, NEW uid \in BOOLEAN, Conditional(c, uid)
    PROVE  copy[c] \in Copies /\ copy[c].name \in Name /\ resource[copy[c].name] # Absent
  BY DEF CatalogInv, CatalogTypeInv, Conditional, Matches, Copies

LEMMA GetShape ==
    ASSUME CatalogInv, NEW c \in Caller, NEW n \in Name, Get(c, n)
    PROVE  Shape
  <1>1. resource[n] \in Rows /\ resource' = resource  BY StoredRow DEF Get, CatalogInv
  <1>2. [name |-> n, row |-> resource[n]] \in Copies  BY <1>1 DEF Copies
  <1>3. CopyStep  BY <1>1, <1>2 DEF Get, CopyStep, CatalogInv, CatalogTypeInv
  <1> QED  BY <1>3, ReadShape, SameTokens DEF Get, CatalogInv

\* Every write of a client.
LEMMA WriteShape ==
    ASSUME CatalogInv, NEW c \in Caller, Write(c)
    PROVE  Shape
  <1>1. ASSUME NEW n \in Name, NEW s \in Content[kind], createResource(c, n, s)
        PROVE  Shape
    BY <1>1, CreateShape DEF createResource
  <1>2. ASSUME NEW n \in Name, NEW s \in Content[kind], putSecret(c, n, s)
        PROVE  Shape
    <2>1. CASE Create(c, n, s)  BY <2>1, CreateShape
    <2>2. CASE ~Create(c, n, s)
      <3>1. Conditional(c, FALSE) /\ copy[c].name = n  BY <1>2, <2>2 DEF putSecret
      <3>2. resource[n] # Absent  BY <3>1, CopyName
      <3> QED  BY <1>2, <2>2, <3>2, ChangeShape DEF putSecret
    <2> QED  BY <2>1, <2>2
  <1>3. ASSUME NEW s \in Content[kind], NEW uid \in BOOLEAN, updateResource(c, s, uid)
        PROVE  Shape
    <2> DEFINE n == copy[c].name
    <2>1. n \in Name /\ resource[n] # Absent  BY <1>3, CopyName DEF updateResource
    <2>2. resource[n] \in Rows  BY <2>1, StoredRow DEF CatalogInv
    <2>3. CASE s = resource[n].content
      <3>1. Answer(c, n, resource[n]) /\ UNCHANGED <<kind, resource, used, tokens>>
        BY <1>3, <2>3 DEF updateResource
      <3> QED  BY <2>1, <2>2, <3>1, AnswerCopies, SameTokens, ReadShape DEF CatalogInv
    <2>4. CASE s # resource[n].content
      BY <1>3, <2>1, <2>4, ChangeShape DEF updateResource
    <2> QED  BY <2>3, <2>4
  <1>4. CASE deleteResource(c)
    BY <1>4, CopyName, DeleteShape DEF deleteResource
  <1>5. CASE publishStrategy(c)
    <2> DEFINE n == copy[c].name
    <2>1. n \in Name /\ resource[n] \in Rows
      BY <1>5, CopyName, StoredRow DEF publishStrategy, CatalogInv
    <2>2. Answer(c, n, resource[n]) /\ UNCHANGED <<kind, resource, used, tokens>>
      BY <1>5 DEF publishStrategy
    <2> QED  BY <2>1, <2>2, AnswerCopies, SameTokens, ReadShape DEF CatalogInv
  <1>6. CASE deleteSecret(c)
    BY <1>6, CopyName, DeleteShape DEF deleteSecret
  <1> QED  BY <1>1, <1>2, <1>3, <1>4, <1>5, <1>6 DEF Write

LEMMA SessionShape ==
    ASSUME CatalogInv, NEW n \in Name, IssueSession(n) \/ RotateSession(n) \/ RevokeSession(n)
    PROVE  Shape
  <1>1. CASE RevokeSession(n)
    <2>1. resource[n].id \in used  BY <1>1 DEF RevokeSession, CatalogInv, Identities
    <2>2. TokenStep  BY <1>1, <2>1 DEF RevokeSession, TokenStep, CatalogInv, CatalogTypeInv
    <2> QED  BY <1>1, <2>2, ReadShape, SameCopies DEF RevokeSession, CatalogInv
  <1>2. CASE ~RevokeSession(n)
    <2>1. resource[n] # Absent /\ Generate(resource[n].id)
      BY <1>2 DEF IssueSession, RotateSession, Lives
    <2> QED  BY <2>1, GenerateTokens, ReadShape, SameCopies DEF Generate, CatalogInv
  <1> QED  BY <1>1, <1>2

LEMMA NextShape ==
    ASSUME CatalogInv, [CatalogNext]_catalogVars
    PROVE  Shape
  <1>1. ASSUME NEW c \in Caller, Write(c)  PROVE  Shape  BY <1>1, WriteShape
  <1>2. ASSUME NEW c \in Caller, NEW n \in Name, getResource(c, n) \/ getSecret(c, n)
        PROVE  Shape
    BY <1>2, GetShape DEF getResource, getSecret
  <1>3. CASE OpenList \/ listResources \/ listSecrets
    <2>1. UNCHANGED <<kind, resource, used, copy, tokens>>
      BY <1>3 DEF OpenList, listResources, listSecrets, ListPage
    <2> QED  BY <2>1, ReadShape, SameCopies, SameTokens DEF CatalogInv
  <1>4. ASSUME NEW n \in Name, IssueSession(n) \/ RotateSession(n) \/ RevokeSession(n)
        PROVE  Shape
    BY <1>4, SessionShape
  <1>5. CASE UNCHANGED catalogVars
    BY <1>5, ReadShape, SameCopies, SameTokens DEF catalogVars, CatalogInv
  <1> QED  BY <1>1, <1>2, <1>3, <1>4, <1>5 DEF CatalogNext

LEMMA LeastElement ==
    ASSUME NEW S \in SUBSET Nat, S # {}
    PROVE  \E d \in S : \A e \in S : d <= e
  <1>1. IsWellFoundedOn(OpToRel(<, Nat), Nat)  BY NatLessThanWellFounded
  <1>2. PICK d \in S : \A e \in S : ~ (<<e, d>> \in OpToRel(<, Nat))
    BY <1>1, WFMin
  <1>3. \A e \in S : ~ (e < d)  BY <1>2 DEF OpToRel
  <1> QED  BY <1>3


\* How many elements of S are not above i.
Rank(S, i) == Cardinality({j \in S : j <= i})

\* A finite set of numbers: ranks grow with the elements and stay within its size.
LEMMA RankBounds ==
    ASSUME NEW S \in SUBSET Nat, IsFiniteSet(S), NEW i \in S
    PROVE  /\ Rank(S, i) \in 1..Cardinality(S)
           /\ \A j \in S : i < j => Rank(S, i) < Rank(S, j)
  <1> DEFINE Upto(k) == {j \in S : j <= k}
  <1>1. \A k : IsFiniteSet(Upto(k)) /\ Cardinality(Upto(k)) \in Nat /\ Cardinality(Upto(k)) <= Cardinality(S)
    BY FS_Subset, FS_CardinalityType
  <1>2. i \in Upto(i) /\ Cardinality(S) \in Nat  BY FS_CardinalityType
  <1>3. Cardinality(Upto(i)) # 0
    <2> HIDE DEF Upto
    <2> QED  BY <1>1, <1>2, FS_EmptySet
  <1>4. ASSUME NEW j \in S, i < j  PROVE  Cardinality(Upto(i)) < Cardinality(Upto(j))
    <2>0. i \in Nat /\ j \in Nat /\ \A k \in S : k \in Nat  OBVIOUS
    <2>1. Upto(i) \subseteq Upto(j) /\ j \in Upto(j) /\ j \notin Upto(i)
      <3>1. \A k \in S : k <= i => k <= j  BY <2>0, <1>4
      <3>2. j <= j /\ ~ (j <= i)  BY <2>0, <1>4
      <3> QED  BY <3>1, <3>2
    <2> HIDE DEF Upto
    <2>2. Cardinality(Upto(i)) <= Cardinality(Upto(j))
          /\ (Cardinality(Upto(i)) = Cardinality(Upto(j)) => Upto(i) = Upto(j))
      BY <1>1, <2>1, FS_Subset
    <2> QED  BY <1>1, <2>1, <2>2
  <1> HIDE DEF Upto
  <1> QED  BY <1>1, <1>2, <1>3, <1>4 DEF Rank, Upto

\* Every place up to the size of the set is somebody's.
LEMMA RankExists ==
    ASSUME NEW S \in SUBSET Nat, IsFiniteSet(S), NEW k \in 1..Cardinality(S)
    PROVE  \E i \in S : Rank(S, i) = k
  <1> DEFINE Free == {n \in 1..Cardinality(S) : ~ \E i \in S : Rank(S, i) = n}
  <1> SUFFICES Free = {}  OBVIOUS
  <1>1. Cardinality(S) \in Nat  BY FS_CardinalityType
  <1>2. SUFFICES ASSUME Free # {}  PROVE  FALSE  OBVIOUS
  <1>3. Free \in SUBSET Nat  BY <1>1
  <1>4. PICK n \in Free : \A m \in Free : n <= m
    <2> HIDE DEF Free
    <2> QED  BY <1>2, <1>3, LeastElement
  <1>5. n \in 1..Cardinality(S) /\ ~ \E i \in S : Rank(S, i) = n  OBVIOUS
  <1>6. \A m \in 1..Cardinality(S) : m < n => \E i \in S : Rank(S, i) = m
    BY <1>1, <1>4, <1>5
  <1> HIDE DEF Free
  \* The elements above those of the first n - 1 ranks.
  <1> DEFINE Low  == {j \in S : Rank(S, j) < n}
             High == {j \in S : Rank(S, j) >= n}
  <1>7. High # {}
    <2>1. SUFFICES ASSUME High = {}  PROVE  FALSE  OBVIOUS
    <2>2. \A j \in S : Rank(S, j) < n  BY <2>1, <1>1, <1>5, RankBounds
    <2>3. S # {}  BY <1>5, FS_EmptySet
    <2>4. CASE n = 1
      <3>1. PICK j \in S : TRUE  BY <2>3
      <3>2. Rank(S, j) \in 1..Cardinality(S)  BY RankBounds
      <3> QED  BY <3>2, <2>2, <2>4, <1>1
    <2>5. CASE n # 1
      <3>1. n - 1 \in 1..Cardinality(S) /\ n - 1 < n  BY <2>5, <1>1, <1>5
      <3>2. PICK i \in S : Rank(S, i) = n - 1  BY <3>1, <1>6
      <3>3. \A j \in S : j <= i
        BY <2>2, <3>2, RankBounds, <1>5, <1>1
      <3>4. {j \in S : j <= i} = S  BY <3>3
      <3>5. Rank(S, i) = Cardinality(S)  BY <3>4 DEF Rank
      <3> QED  BY <3>2, <3>5, <3>1, <1>1, <1>5
    <2> QED  BY <2>4, <2>5
  <1>8. High \in SUBSET Nat  OBVIOUS
  <1>9. PICK h \in High : \A j \in High : h <= j
    <2> HIDE DEF High
    <2> QED  BY <1>7, <1>8, LeastElement
  <1>10. h \in S /\ Rank(S, h) >= n /\ Rank(S, h) # n  BY <1>5
  <1>11. {j \in S : j <= h} \ {h} = Low
    <2>1. ASSUME NEW j \in S, j < h  PROVE  Rank(S, j) < n  
      <3>1. ~ (h <= j)  BY <2>1, <1>10
      <3>2. j \notin High  BY <3>1, <1>9
      <3>3. Rank(S, j) \in Nat  BY RankBounds, <1>1
      <3> QED  BY <3>2, <3>3, <1>5, <1>1
    <2>2. ASSUME NEW j \in S, Rank(S, j) < n  PROVE  j < h
      <3>1. Rank(S, j) < Rank(S, h)  BY <2>2, <1>10, RankBounds, <1>1, <1>5
      <3>2. j # h  BY <3>1, <1>10, RankBounds, <1>1
      <3>3. ~ (h < j)  BY <3>1, <1>10, RankBounds, <1>1
      <3>4. j \in Nat /\ h \in Nat  BY <2>2, <1>10
      <3> QED  BY <3>2, <3>3, <3>4
    <2>3. h \in Nat /\ h <= h /\ h \notin Low  BY <1>10, <1>5, <1>1, RankBounds
    <2>4. ASSUME NEW j \in S  PROVE  j <= h /\ j # h <=> j < h
      <3>1. j \in Nat  OBVIOUS
      <3> QED  BY <3>1, <2>3
    <2> QED  BY <2>1, <2>2, <2>3, <2>4
  <1>12. Cardinality({j \in S : j <= h}) = Cardinality(Low) + 1
    <2>1. IsFiniteSet({j \in S : j <= h}) /\ h \in {j \in S : j <= h}  BY <1>10, FS_Subset
    <2> HIDE DEF Low
    <2> QED  BY <1>11, <2>1, FS_RemoveElement, FS_CardinalityType, FS_Subset
  <1>13. Cardinality(Low) < n
    <2>1. CASE n = 1
      <3>1. ASSUME NEW j \in S  PROVE  ~ (Rank(S, j) < n)
        <4>1. Rank(S, j) \in 1..Cardinality(S)  BY RankBounds
        <4> QED  BY <4>1, <2>1, <1>1
      <3>2. Low = {}  BY <3>1
      <3> QED  BY <3>2, <2>1, FS_EmptySet
    <2>2. CASE n # 1
      <3>1. n - 1 \in 1..Cardinality(S) /\ n - 1 < n  BY <2>2, <1>1, <1>5
      <3>2. PICK i \in S : Rank(S, i) = n - 1  BY <3>1, <1>6
      <3>3. ASSUME NEW j \in S, Rank(S, j) < n  PROVE  j <= i
        <4>1. Rank(S, j) \in Nat /\ i \in Nat /\ j \in Nat  BY RankBounds, <1>1
        <4>2. ~ (i < j)  BY <4>1, <3>1, <3>2, <3>3, <1>1, <1>5, RankBounds
        <4> QED  BY <4>1, <4>2
      <3>4. IsFiniteSet({j \in S : j <= i})  BY FS_Subset
      <3>5. Cardinality(Low) <= Rank(S, i)
        <4>1. Low \subseteq {j \in S : j <= i}  BY <3>3
        <4> HIDE DEF Low
        <4> QED  BY <4>1, <3>4, FS_Subset DEF Rank
      <3>6. Cardinality(Low) \in Nat
        <4>1. IsFiniteSet(Low)  BY FS_Subset
        <4> HIDE DEF Low
        <4> QED  BY <4>1, FS_CardinalityType
      <3> QED  BY <3>2, <3>5, <3>6, <1>5, <1>1
    <2> QED  BY <2>1, <2>2
  <1>14. Cardinality(Low) \in Nat
    <2>1. IsFiniteSet(Low)  BY FS_Subset
    <2> HIDE DEF Low
    <2> QED  BY <2>1, FS_CardinalityType
  <1> HIDE DEF Low, High
  <1> QED  BY <1>5, <1>1, <1>10, <1>12, <1>13, <1>14 DEF Rank

----------------------------------------------------------------------------
(* A page                                                                  *)

After(after) == {i \in Ids : i > after}

\* The first elements after the cursor, in order and without a gap.
LEMMA FetchedIs ==
    ASSUME CatalogInv, NEW after \in Nat
    PROVE  LET F == Fetched(after) rest == After(after) IN
           /\ F \in Seq(Id) /\ Len(F) \in 0..(Limit + 1)
           /\ \A k \in 1..Len(F) : F[k] \in rest
           /\ \A k, m \in 1..Len(F) : k < m => F[k] < F[m]
           /\ \A i \in rest : \/ \E k \in 1..Len(F) : F[k] = i
                              \/ Len(F) = Limit + 1 /\ \A k \in 1..Len(F) : F[k] < i
  <1> DEFINE rest == After(after)
             most == Cardinality(rest)
             n == IF most < Limit + 1 THEN most ELSE Limit + 1
             Nth(k) == CHOOSE i \in rest : Cardinality({j \in rest : j <= i}) = k
             F == Fetched(after)
  <1>1. rest \in SUBSET Nat /\ rest \subseteq Id
    BY DEF After, Ids, Stored, CatalogInv, CatalogTypeInv, Rows, Id
  <1>2. IsFiniteSet(Id)  BY FS_Interval, CatalogConstants DEF Id
  <1>3. IsFiniteSet(rest) /\ most \in Nat  BY <1>1, <1>2, FS_Subset, FS_CardinalityType
  <1>4. n \in Nat /\ most \in Nat /\ Limit \in Nat /\ n <= most /\ n <= Limit + 1 /\ (n < most => n = Limit + 1)
    BY <1>3, CatalogConstants
  <1>5. F = [k \in 1..n |-> Nth(k)]  BY DEF Fetched, After
  <1> HIDE DEF F, n, most, rest
  <1>6. ASSUME NEW k \in 1..n  PROVE  Nth(k) \in rest /\ Rank(rest, Nth(k)) = k
    <2>1. k \in 1..Cardinality(rest)  BY <1>4 DEF most
    <2>2. PICK i \in rest : Rank(rest, i) = k  BY <1>1, <1>3, <2>1, RankExists
    <2> QED  BY <2>2 DEF Rank
  <1>7. F \in Seq(Id) /\ Len(F) = n /\ \A k \in 1..n : F[k] = Nth(k)
    <2>1. F \in [1..n -> Id]  BY <1>1, <1>5, <1>6
    <2>2. \A k \in 1..n : F[k] = Nth(k)  BY <1>5
    <2> HIDE DEF Nth
    <2>3. n \in Nat  BY <1>4
    <2>4. F \in Seq(Id) /\ Len(F) = n  BY <2>1, <2>3
    <2> QED  BY <2>2, <2>4
  <1> HIDE DEF Nth
  <1>8. \A k \in 1..n : F[k] \in rest /\ Rank(rest, F[k]) = k  BY <1>6, <1>7
  <1>9. ASSUME NEW k \in 1..n, NEW m \in 1..n, k < m  PROVE  F[k] < F[m]
    <2>1. F[k] \in rest /\ F[m] \in rest /\ Rank(rest, F[k]) = k /\ Rank(rest, F[m]) = m  BY <1>8
    <2>2. F[k] \in Nat /\ F[m] \in Nat  BY <1>1, <2>1
    <2>3. k \in Nat /\ m \in Nat  BY <1>4
    <2>4. ~ (F[m] < F[k])
      <3>1. F[m] < F[k] => m < k  BY <1>1, <1>3, <2>1, RankBounds
      <3> QED  BY <3>1, <2>3, <1>9
    <2> QED  BY <2>1, <2>2, <2>3, <2>4, <1>9
  <1>10. ASSUME NEW i \in rest
         PROVE  \/ \E k \in 1..n : F[k] = i
                \/ n = Limit + 1 /\ \A k \in 1..n : F[k] < i
    <2>1. Rank(rest, i) \in 1..most  BY <1>1, <1>3, RankBounds DEF most
    <2>2. CASE Rank(rest, i) <= n
      <3> DEFINE r == Rank(rest, i)
      <3>1. r \in 1..n  BY <2>1, <2>2, <1>3, <1>4
      <3>2. F[r] \in rest /\ Rank(rest, F[r]) = r  BY <3>1, <1>8
      <3> HIDE DEF r
      <3>3. F[r] \in Nat  BY <3>2, <1>1
      <3>4. i \in Nat  BY <1>1
      <3>5. r \in Nat  BY <3>1, <1>4
      <3>6. ~ (F[r] < i) /\ ~ (i < F[r])
        BY <3>2, <3>3, <3>4, <3>5, <1>1, <1>3, RankBounds DEF r
      <3> QED  BY <3>1, <3>3, <3>4, <3>6
    <2>3. CASE ~ (Rank(rest, i) <= n)
      <3>1. n = Limit + 1  BY <2>1, <2>3, <1>3, <1>4
      <3>2. ASSUME NEW k \in 1..n  PROVE  F[k] < i
        <4>1. F[k] \in Nat /\ i \in Nat /\ Rank(rest, F[k]) = k /\ F[k] \in rest  BY <1>1, <1>8
        <4>2. ~ (i < F[k]) /\ F[k] # i
          BY <4>1, <2>1, <2>3, <1>1, <1>3, <1>4, RankBounds
        <4> QED  BY <4>1, <4>2
      <3> QED  BY <3>1, <3>2
    <2> QED  BY <2>2, <2>3
  <1>11. 0 <= n /\ n \in 0..(Limit + 1)  BY <1>4, CatalogConstants
  <1> QED  BY <1>7, <1>8, <1>9, <1>10, <1>11 DEF rest, F

\* What a listing has handed out: in order, up to the cursor while it is open, and
\* everything that has been there since it began unless it lies after the cursor.
ListInv ==
    /\ list = [open |-> list.open, after |-> list.after, seen |-> list.seen, kept |-> list.kept]
    /\ list.open \in BOOLEAN /\ list.after \in 0..MaxId /\ list.seen \in Seq(Id)
    /\ \A k, m \in 1..Len(list.seen) : k < m => list.seen[k] < list.seen[m]
    /\ list.open => \A k \in 1..Len(list.seen) : list.seen[k] <= list.after
    /\ list.kept \subseteq Ids
    /\ \A i \in list.kept : \/ \E k \in 1..Len(list.seen) : list.seen[k] = i
                            \/ list.open /\ i > list.after

\* The beginning of a list.
LEMMA Extended ==
    ASSUME NEW s \in Seq(Id), NEW F \in Seq(Id), NEW m \in 0..Len(F)
    PROVE  LET t == s \o SubSeq(F, 1, m) IN
           /\ t \in Seq(Id) /\ Len(t) = Len(s) + m
           /\ \A k \in 1..Len(s) : t[k] = s[k]
           /\ \A k \in 1..m : t[Len(s) + k] = F[k]
           /\ \A k \in 1..Len(t) : \/ k \in 1..Len(s)
                                   \/ k - Len(s) \in 1..m /\ t[k] = F[k - Len(s)]
  <1> DEFINE u == SubSeq(F, 1, m)
             t == s \o u
  <1>1. u \in Seq(Id) /\ Len(u) = m /\ \A k \in 1..m : u[k] = F[k]  OBVIOUS
  <1> HIDE DEF u
  <1>2. t \in Seq(Id) /\ Len(t) = Len(s) + m  BY <1>1
  <1>3. \A k \in 1..Len(t) : t[k] = IF k <= Len(s) THEN s[k] ELSE u[k - Len(s)]  BY <1>1
  <1>4. Len(s) \in Nat /\ m \in Nat  OBVIOUS
  <1> HIDE DEF t
  <1>5. \A k \in 1..Len(s) : t[k] = s[k]  BY <1>2, <1>3, <1>4
  <1>6. ASSUME NEW k \in 1..m  PROVE  t[Len(s) + k] = F[k]
    <2>1. Len(s) + k \in 1..Len(t) /\ ~ (Len(s) + k <= Len(s)) /\ (Len(s) + k) - Len(s) = k
      BY <1>2, <1>4
    <2> QED  BY <2>1, <1>1, <1>3
  <1>7. ASSUME NEW k \in 1..Len(t), k \notin 1..Len(s)
        PROVE  k - Len(s) \in 1..m /\ t[k] = F[k - Len(s)]
    <2>1. k - Len(s) \in 1..m /\ ~ (k <= Len(s))  BY <1>2, <1>4, <1>7
    <2> QED  BY <2>1, <1>1, <1>3
  <1> QED  BY <1>2, <1>5, <1>6, <1>7 DEF t, u

\* The next page goes on where the cursor is, and the last one leaves nothing after it.
LEMMA ListPageInv ==
    ASSUME CatalogInv, ListInv, ListPage
    PROVE  ListInv'
  <1> DEFINE F == Fetched(list.after)
             s == list.seen
             m == IF Len(F) > Limit THEN Limit ELSE Len(F)
             t == s \o SubSeq(F, 1, m)
  <1>1. list.after \in Nat  BY DEF ListInv
  <1>2. Limit \in Nat \ {0}  BY CatalogConstants
  <1>3. /\ F \in Seq(Id) /\ Len(F) \in 0..(Limit + 1)
        /\ \A k \in 1..Len(F) : F[k] \in After(list.after)
        /\ \A k, n \in 1..Len(F) : k < n => F[k] < F[n]
        /\ \A i \in After(list.after) : \/ \E k \in 1..Len(F) : F[k] = i
                                        \/ Len(F) = Limit + 1 /\ \A k \in 1..Len(F) : F[k] < i
    BY <1>1, FetchedIs
  <1>4. NextID(F) = (IF Len(F) > Limit THEN F[Limit] ELSE Absent) /\ Items(F) = SubSeq(F, 1, m)
    BY DEF NextID, Items
  <1>5. list' = [list EXCEPT !.seen = t, !.open = NextID(F) # Absent,
                             !.after = IF NextID(F) = Absent THEN list.after ELSE NextID(F)]
    BY <1>4 DEF ListPage
  <1>6. list.open /\ UNCHANGED <<kind, resource, used>>  BY DEF ListPage
  <1> HIDE DEF F
  <1>7. m \in 0..Len(F) /\ m <= Limit /\ m \in Nat /\ Len(F) \in Nat  BY <1>2, <1>3
  <1>8. Len(F) > Limit => F[Limit] \in Id /\ Limit \in 1..Len(F)  BY <1>2, <1>3
  <1>9. NextID(F) # Absent <=> Len(F) > Limit  BY <1>4, <1>8, CatalogConstants
  <1>10. list'.open = (Len(F) > Limit) /\ list'.seen = t /\ list'.kept = list.kept
         /\ list'.after = IF Len(F) > Limit THEN F[Limit] ELSE list.after
    <2>1. list'.seen = t /\ list'.kept = list.kept /\ list'.open = (NextID(F) # Absent)
          /\ list'.after = IF NextID(F) = Absent THEN list.after ELSE NextID(F)
      <3> HIDE DEF t
      <3> QED  BY <1>5 DEF ListInv
    <2>2. (NextID(F) # Absent) = (Len(F) > Limit)  BY <1>9
    <2>3. list'.open = (Len(F) > Limit)  BY <2>1, <2>2
    <2>4. list'.after = IF Len(F) > Limit THEN F[Limit] ELSE list.after  BY <2>1, <1>4, <1>9
    <2> HIDE DEF t
    <2> QED  BY <2>1, <2>3, <2>4
  <1>11. list' = [open |-> list'.open, after |-> list'.after, seen |-> list'.seen, kept |-> list'.kept]
    BY <1>5 DEF ListInv
  <1>12. list'.open \in BOOLEAN  BY <1>5 DEF ListInv
  <1>13. s \in Seq(Id) /\ Len(s) \in Nat  BY DEF ListInv
  <1>14. /\ t \in Seq(Id) /\ Len(t) = Len(s) + m
         /\ \A k \in 1..Len(s) : t[k] = s[k]
         /\ \A k \in 1..m : t[Len(s) + k] = F[k]
         /\ \A k \in 1..Len(t) : \/ k \in 1..Len(s)
                                 \/ k - Len(s) \in 1..m /\ t[k] = F[k - Len(s)]
    BY <1>3, <1>7, <1>13, Extended
  <1>15. \A k \in 1..m : k \in 1..Len(F) /\ F[k] \in Id /\ F[k] > list.after
    BY <1>3, <1>7 DEF After
  <1>16. \A k \in 1..Len(s) : s[k] \in Id /\ s[k] <= list.after  BY <1>6, <1>13 DEF ListInv
  <1>17. \A i \in Id : i \in Nat  BY CatalogConstants DEF Id
  <1>18. \A k, n \in 1..Len(s) : k < n => s[k] < s[n]  BY DEF ListInv
  <1> HIDE DEF t, m, s
  <1>19. ASSUME NEW k \in 1..Len(t), NEW n \in 1..Len(t), k < n
         PROVE  t[k] < t[n]
    <2>0. k \in Nat /\ n \in Nat  BY <1>7, <1>13, <1>14
    <2>1. CASE n \in 1..Len(s)
      <3>1. k \in 1..Len(s)  BY <2>0, <2>1, <1>13, <1>19
      <3> QED  BY <2>1, <3>1, <1>14, <1>18, <1>19
    <2>2. CASE n \notin 1..Len(s)
      <3>1. n - Len(s) \in 1..m /\ t[n] = F[n - Len(s)]  BY <2>2, <1>14
      <3>2. CASE k \in 1..Len(s)
        <4>1. t[k] = s[k] /\ s[k] \in Nat /\ s[k] <= list.after  BY <3>2, <1>14, <1>16, <1>17
        <4>2. t[n] \in Nat /\ t[n] > list.after  BY <3>1, <1>15, <1>17
        <4> QED  BY <4>1, <4>2, <1>1
      <3>3. CASE k \notin 1..Len(s)
        <4>1. k - Len(s) \in 1..m /\ t[k] = F[k - Len(s)]  BY <3>3, <1>14
        <4>2. k - Len(s) < n - Len(s)  BY <2>0, <1>13, <1>19
        <4> QED  BY <3>1, <4>1, <4>2, <1>3, <1>15
      <3> QED  BY <3>2, <3>3
    <2> QED  BY <2>1, <2>2
  <1>20. ASSUME Len(F) > Limit
         PROVE  m = Limit /\ \A k \in 1..Len(t) : t[k] <= F[Limit]
    <2>1. m = Limit  BY <1>20 DEF m
    <2>2. F[Limit] \in Nat /\ F[Limit] > list.after  BY <1>20, <1>8, <1>15, <1>17, <2>1, <1>2
    <2>3. ASSUME NEW k \in 1..Len(t)  PROVE  t[k] <= F[Limit]
      <3>1. CASE k \in 1..Len(s)
        <4>1. t[k] = s[k] /\ s[k] \in Nat /\ s[k] <= list.after  BY <3>1, <1>14, <1>16, <1>17
        <4> QED  BY <4>1, <2>2, <1>1
      <3>2. CASE k \notin 1..Len(s)
        <4>1. k - Len(s) \in 1..Limit /\ t[k] = F[k - Len(s)]  BY <3>2, <2>1, <1>14
        <4> DEFINE j == k - Len(s)
        <4>2. j \in 1..Limit /\ t[k] = F[j]  BY <4>1
        <4> HIDE DEF j
        <4>3. j \in 1..Len(F) /\ F[j] \in Nat  BY <4>2, <2>1, <1>15, <1>17
        <4>4. j = Limit \/ j < Limit  BY <4>2, <1>2
        <4>5. j < Limit => F[j] < F[Limit]  BY <4>3, <1>20, <1>8, <1>3
        <4> QED  BY <4>2, <4>3, <4>4, <4>5, <2>2
      <3> QED  BY <3>1, <3>2
    <2> QED  BY <2>1, <2>3
  <1>21. ASSUME NEW i \in list.kept
         PROVE  \/ \E k \in 1..Len(t) : t[k] = i
                \/ Len(F) > Limit /\ i > F[Limit]
    <2>0. i \in Ids /\ i \in Id /\ i \in Nat
      BY <1>17 DEF ListInv, Ids, Stored, CatalogInv, CatalogTypeInv, Rows
    <2>1. CASE \E k \in 1..Len(s) : s[k] = i
      BY <2>1, <1>13, <1>14, <1>7
    <2>2. CASE ~ \E k \in 1..Len(s) : s[k] = i
      <3>1. i \in After(list.after)  BY <2>0, <2>2 DEF ListInv, After, s
      <3>2. CASE \E k \in 1..m : F[k] = i
        <4>1. PICK k \in 1..m : F[k] = i  BY <3>2
        <4>2. Len(s) + k \in 1..Len(t)  BY <1>7, <1>13, <1>14
        <4> QED  BY <4>1, <4>2, <1>14
      <3>3. CASE ~ \E k \in 1..m : F[k] = i
        <4>1. CASE \E k \in 1..Len(F) : F[k] = i
          <5>1. PICK k \in 1..Len(F) : F[k] = i  BY <4>1
          <5>2. k \notin 1..m  BY <3>3, <5>1
          <5>3. Len(F) > Limit /\ m = Limit  BY <5>2, <1>7, <1>2 DEF m
          <5>4. k > Limit /\ Limit \in 1..Len(F)  BY <5>2, <5>3, <1>2, <1>7
          <5>5. Limit < k  BY <5>4, <1>2, <1>7
          <5>6. F[Limit] < F[k]  BY <5>4, <5>5, <1>3
          <5>7. F[Limit] \in Nat  BY <5>3, <1>8, <1>17
          <5> QED  BY <5>1, <5>3, <5>6, <5>7, <2>0
        <4>2. CASE ~ \E k \in 1..Len(F) : F[k] = i
          <5>1. Len(F) = Limit + 1 /\ \A k \in 1..Len(F) : F[k] < i  BY <4>2, <3>1, <1>3
          <5>2. Len(F) > Limit /\ Limit \in 1..Len(F)  BY <5>1, <1>2
          <5>3. F[Limit] \in Nat  BY <5>2, <1>8, <1>17
          <5> QED  BY <5>1, <5>2, <5>3, <2>0
        <4> QED  BY <4>1, <4>2
      <3> QED  BY <3>2, <3>3
    <2> QED  BY <2>1, <2>2
  <1>22. list'.after \in 0..MaxId
    BY <1>8, <1>10, CatalogConstants DEF ListInv, Id
  <1>23. list'.kept \subseteq Ids'
    BY <1>6, <1>10 DEF ListInv, Ids, Stored, Name
  <1>24. list'.open => \A k \in 1..Len(list'.seen) : list'.seen[k] <= list'.after
    BY <1>10, <1>20
  <1>25. ASSUME NEW i \in list'.kept
         PROVE  \/ \E k \in 1..Len(list'.seen) : list'.seen[k] = i
                \/ list'.open /\ i > list'.after
    BY <1>10, <1>21
  <1> QED  BY <1>10, <1>11, <1>12, <1>14, <1>19, <1>22, <1>23, <1>24, <1>25 DEF ListInv

\* Rows that go while a listing is open are no longer asked of it.
LEMMA KeepInv ==
    ASSUME ListInv, Keep, kind' = kind
    PROVE  ListInv'
  <1> DEFINE live == {resource'[n].id : n \in {m \in Name : resource'[m] # Absent}}
  <1>1. list' = [list EXCEPT !.kept = list.kept \cap live]  BY DEF Keep
  <1>2. Ids' = live  BY DEF Ids, Stored, Name
  <1> HIDE DEF live
  <1>3. /\ list' = [open |-> list'.open, after |-> list'.after, seen |-> list'.seen, kept |-> list'.kept]
        /\ list'.open = list.open /\ list'.after = list.after /\ list'.seen = list.seen
        /\ list'.kept = list.kept \cap live
    BY <1>1 DEF ListInv
  <1> QED  BY <1>2, <1>3 DEF ListInv

LEMMA SameListInv ==
    ASSUME ListInv, UNCHANGED <<kind, resource, list>>
    PROVE  ListInv'
  <1>1. Ids' = Ids  BY DEF Ids, Stored, Name
  <1> QED  BY <1>1 DEF ListInv

LEMMA OpenListInv ==
    ASSUME CatalogInv, OpenList
    PROVE  ListInv'
  <1>1. list' = [open |-> TRUE, after |-> 0, seen |-> <<>>, kept |-> Ids] /\ UNCHANGED <<kind, resource>>
    BY DEF OpenList, Closed
  <1>2. Ids' = Ids  BY <1>1 DEF Ids, Stored, Name
  <1>3. \A i \in Ids : i \in Id  BY DEF Ids, Stored, CatalogInv, CatalogTypeInv, Rows
  <1>4. 0 \in 0..MaxId /\ \A i \in Id : i > 0  BY CatalogConstants DEF Id
  <1>5. <<>> \in Seq(Id) /\ Len(<<>>) = 0 /\ 1..0 = {}  OBVIOUS
  <1> QED  BY <1>1, <1>2, <1>3, <1>4, <1>5 DEF ListInv

LEMMA NextList ==
    ASSUME CatalogInv, ListInv, [CatalogNext]_catalogVars
    PROVE  ListInv'
  <1>1. ASSUME NEW c \in Caller, Write(c)  PROVE  ListInv'
    <2>1. (Keep /\ kind' = kind) \/ UNCHANGED <<kind, resource, list>>
      BY <1>1 DEF Write, createResource, putSecret, updateResource, deleteResource,
         publishStrategy, deleteSecret, Create, Store
    <2> QED  BY <2>1, KeepInv, SameListInv
  <1>2. ASSUME NEW c \in Caller, NEW n \in Name, getResource(c, n) \/ getSecret(c, n)
        PROVE  ListInv'
    BY <1>2, SameListInv DEF getResource, getSecret, Get
  <1>3. CASE OpenList  BY <1>3, OpenListInv
  <1>4. CASE listResources \/ listSecrets  BY <1>4, ListPageInv DEF listResources, listSecrets
  <1>5. ASSUME NEW n \in Name, IssueSession(n) \/ RotateSession(n) \/ RevokeSession(n)
        PROVE  ListInv'
    BY <1>5, SameListInv DEF IssueSession, RotateSession, RevokeSession, Generate
  <1>6. CASE UNCHANGED catalogVars  BY <1>6, SameListInv DEF catalogVars
  <1> QED  BY <1>1, <1>2, <1>3, <1>4, <1>5, <1>6 DEF CatalogNext

----------------------------------------------------------------------------
(* Theorems about the catalogue                                            *)

\* Whatever clients write, retry and lose, every copy follows the identity it was
\* read from (Get, Answer), and identities are drawn once (newUUID).
THEOREM CatalogInvariance == CatalogSpec => []CatalogInv
  <1>1. CatalogInv /\ [CatalogNext]_catalogVars => CatalogInv'  BY NextShape, ShapeInv
  <1> QED  BY CatalogInitInv, <1>1, PTL DEF CatalogSpec

\* A write under If-Match that names the identity of the row was made from that very
\* row, and so never overwrites a change its client has not seen (Conditional).
THEOREM WritesAreSeen == CatalogSpec => []NoLostUpdate
  <1>1. CatalogInv => NoLostUpdate
    <2> SUFFICES ASSUME CatalogInv, NEW c \in Caller,
                        \/ Conditional(c, FALSE) /\ copy[c].row.id = resource[copy[c].name].id
                        \/ Conditional(c, TRUE)
                 PROVE  copy[c].row = resource[copy[c].name]
      BY DEF NoLostUpdate
    <2>1. copy[c] # Absent /\ copy[c].name \in Name /\ resource[copy[c].name] # Absent
      BY CopyName DEF Conditional
    <2>2. resource[copy[c].name].id = copy[c].row.id /\ resource[copy[c].name].version = copy[c].row.version
      BY DEF Conditional, Matches
    <2>3. Follows(copy[c])  BY <2>1 DEF CatalogInv, CopiesFollow
    <2> QED  BY <2>1, <2>2, <2>3 DEF Follows
  <1> QED  BY <1>1, CatalogInvariance, PTL

\* A bearer that is not usable is never usable again: a verifier is replaced only by
\* a new bearer's (Generate), a new identity has none, and nothing takes revoked_at
\* back (upsertToken, RevokeSession).
THEOREM BearersStayDead == CatalogSpec => NoBearerRevival
  <1> DEFINE Dead == \A b \in 1..bearers : ~Usable(b) => ~Usable(b)'
  <1>1. CatalogInv /\ [CatalogNext]_catalogVars => [Dead]_catalogVars
    <2> SUFFICES ASSUME CatalogInv, [CatalogNext]_catalogVars, NEW b \in 1..bearers, Usable(b)'
                 PROVE  Usable(b)
      OBVIOUS
    <2>1. Shape  BY NextShape
    <2>2. Name' = Name  BY <2>1, NameStays DEF Shape
    <2>3. PICK n \in Name : /\ resource'[n] # Absent
                               /\ verifier'[resource'[n].id] = b /\ resource'[n].id \notin revoked'
      BY <2>2 DEF Usable, Stored
    <2>4. resource'[n].id \in Id  BY <2>1, <2>3, <2>2, NameStays, ShapeInv, StoredRow
      DEF CatalogInv, CatalogTypeInv, Rows, Shape
    <2>5. verifier[resource'[n].id] = b  BY <2>1, <2>3, <2>4 DEF Shape, TokenStep, CatalogInv, CatalogTypeInv
    <2>6. resource'[n].id \in used  BY <2>4, <2>5 DEF CatalogInv, CatalogTypeInv, Identities
    <2>7. resource[n] # Absent /\ resource[n].id = resource'[n].id  BY <2>1, <2>3, <2>6 DEF Shape, ResourceStep
    <2> QED  BY <2>1, <2>3, <2>5, <2>7 DEF Usable, Stored, Shape, TokenStep
  <1> QED  BY <1>1, CatalogInvariance, PTL DEF CatalogSpec, NoBearerRevival

\* What an open listing has handed out, and what it has still to (OpenList, ListPage).
THEOREM ListingInvariance == CatalogSpec => []ListInv
  <1>1. CatalogInit => ListInv
    <2>1. <<>> \in Seq(Id) /\ Len(<<>>) = 0 /\ 1..0 = {} /\ 0 \in 0..MaxId
      BY CatalogConstants
    <2> QED  BY <2>1 DEF CatalogInit, ListInv, Closed
  <1>2. CatalogInv /\ ListInv /\ [CatalogNext]_catalogVars => ListInv'  BY NextList
  <1> QED  BY <1>1, <1>2, CatalogInvariance, PTL DEF CatalogSpec

\* Though rows come and go between two pages, a listing that has ended holds every
\* row that was there all along, and none twice (Fetched, NextID).
THEOREM ListingsAreComplete == CatalogSpec => []ListingIsComplete
  <1>3. ListInv => ListingIsComplete
    <2> SUFFICES ASSUME ListInv  PROVE  ListingIsComplete  OBVIOUS
    <2>1. DOMAIN list.seen = 1..Len(list.seen) /\ Len(list.seen) \in Nat  BY DEF ListInv
    <2>2. ASSUME NEW i \in DOMAIN list.seen, NEW j \in DOMAIN list.seen, list.seen[i] = list.seen[j]
          PROVE  i = j
      <3>1. list.seen[i] \in Nat /\ i \in Nat /\ j \in Nat  BY <2>1, CatalogConstants DEF ListInv, Id
      <3>2. ~ (i < j) /\ ~ (j < i)  BY <2>1, <2>2, <3>1 DEF ListInv
      <3> QED  BY <3>1, <3>2
    <2> QED  BY <2>1, <2>2 DEF ListInv, ListingIsComplete
  <1> QED  BY <1>3, ListingInvariance, PTL

\* Rows, copies, listings and tokens are well formed, no two names share an identity,
\* and only identities that were drawn are revoked.
THEOREM CatalogTypeCorrect == CatalogSpec => []CatalogTypeOK
  <1>1. CatalogInv /\ ListInv => CatalogTypeOK
    BY DEF CatalogInv, CatalogTypeInv, Identities, ListInv, CatalogTypeOK, Ids, Stored
  <1> QED  BY <1>1, CatalogInvariance, ListingInvariance, PTL
=============================================================================
