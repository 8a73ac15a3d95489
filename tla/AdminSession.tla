---------------------------- MODULE AdminSession ----------------------------
(***************************************************************************)
(* Administrative sessions: rows of admin_sessions with an absolute and an *)
(* idle lifetime and a session-bound CSRF token that /session/me replaces, *)
(* used concurrently by the tabs of a browser, which share a cookie, and   *)
(* by CLI commands, which share a session file.                            *)
(*                                                                         *)
(* A request is sent and executed in two steps: between them it waits for  *)
(* the only SQLite connection.  UseAdminSession, RotateAdminSessionCSRF,   *)
(* RevokeAdminSession and CreateAdminSession take the time that the        *)
(* handler read before that wait; AuthorizeAdminMutationTx reads the clock *)
(* inside the transaction.  The wall clock may step back, and a response   *)
(* may be lost, which stands also for a session file that is not saved.    *)
(*                                                                         *)
(* The n-th CSRF token of session s is <<s, n>>.  A tab that failed to log *)
(* out has <<s, 0>>: it stays in the console with an empty token.          *)
(***************************************************************************)
EXTENDS Integers, FiniteSets, FiniteSetsExt

CONSTANTS
    Client, Cli,   \* tabs and commands; those that are commands
    Session,       \* bound: rows that may be created
    Policy,        \* the session durations that settings may hold: idle, absolute
    Window,        \* previousCSRFWindow
    Born,          \* admin_users.created_at
    StepsBack,     \* the wall clock may be set back
    MaxTime, MaxToken, MaxAuth,   \* bounds: clock readings, CSRF tokens, resets
    None

\* A row of admin_sessions; the n-th token stands for its hash.
Row ==
    [auth : 1..MaxAuth, csrf : 1..MaxToken, previous : (1..MaxToken) \cup {None},
     rotated : Nat, created : Nat, last : Nat, expires : Nat, idle : Nat, revoked : BOOLEAN]

ASSUME AdminSessionAssumption ==
    /\ Cli \subseteq Client /\ None \notin Session \cup Nat \cup Row \cup (Session \X (0..MaxToken))
    /\ Policy \subseteq [idle : Nat \ {0}, absolute : Nat \ {0}]
    /\ \A p \in Policy : p.idle <= p.absolute
    /\ Window \in Nat /\ Born \in 0..MaxTime /\ StepsBack \in BOOLEAN
    /\ MaxTime \in Nat /\ MaxToken \in Nat \ {0} /\ MaxAuth \in Nat \ {0}

VARIABLES
    now,               \* the wall clock
    up,                \* the service runs
    auth,              \* admin_users.auth_version
    desired, effective,  \* stored settings, and those the service started with
    session,           \* rows of admin_sessions
    jar, file,         \* session of the browser's cookie and of the file; token of the file
    client,            \* what each client is doing
    promised           \* history: latest expiry that a response announced

settings == <<desired, effective>>
store    == <<jar, file>>
vars     == <<now, up, auth, settings, session, store, client, promised>>

Kind(c) == IF c \in Cli THEN "cli" ELSE "console"

\* A command ends with its result, a tab keeps its token.
Resting(pc, token) ==
    [pc |-> pc, op |-> None, goal |-> None, verified |-> 0, session |-> None, token |-> token, at |-> 0]

Init ==
    /\ now = Born /\ up = TRUE /\ auth = 1
    /\ \E p \in Policy : desired = p /\ effective = p
    /\ session = [s \in Session |-> None]
    /\ jar = [k \in {"console", "cli"} |-> None] /\ file = None
    /\ client = [c \in Client |-> Resting("idle", None)]
    /\ promised = [s \in Session |-> 0]

-----------------------------------------------------------------------------

\* Mutant: the inactivity period of the current settings.
ExpiryBySettings(row) == Min({row.expires, row.last + effective.idle})

\* Least of absolute expiry and end of the inactivity period.
Expiry(row) == Min({row.expires, row.last + row.idle})

Corrupt(row) ==
    \/ row.created < Born \/ row.last < row.created
    \/ row.expires <= row.created \/ row.rotated < row.created

readLiveSession(s, t) ==
    /\ s # None /\ session[s] # None
    /\ ~session[s].revoked /\ session[s].auth = auth
    /\ ~Corrupt(session[s])
    /\ t < Expiry(session[s])

\* Mutant: validCSRF without the previous token.
CurrentTokenOnly(s, token, t) == token = <<s, session[s].csrf>>

validCSRF(s, token, t) ==
    \/ token = <<s, session[s].csrf>>
    \/ /\ session[s].previous # None /\ token = <<s, session[s].previous>>
       /\ session[s].rotated <= t /\ t <= session[s].rotated + Window

\* lastSeenAt never moves back.
activityAt(row, t) == Max({t, row.last})

\* Mutant: a rotation that is recorded as the clock says.
RotationAsRead(row, t) == t

rotationAt(row, t) == Max({activityAt(row, t), row.rotated})

-----------------------------------------------------------------------------

\* A request leaves a client.  A command reads the session file first; a tab
\* begins with /session/me, and a reload forgets its token.
Send(c, op) ==
    /\ up /\ client[c].pc # "sent" /\ jar[Kind(c)] # None
    /\ c \in Cli \/ op = "me" \/ client[c].token # None
    /\ client' = [client EXCEPT ![c] =
         [pc |-> "sent", op |-> op, goal |-> None, verified |-> 0, session |-> jar[Kind(c)],
          token |-> IF c \in Cli THEN file ELSE IF op = "me" THEN None ELSE client[c].token,
          at |-> now]]
    /\ UNCHANGED <<now, up, auth, settings, session, store, promised>>

\* Login has verified the password and reads the time of the session.
VerifyPassword(c) ==
    /\ up /\ client[c].pc # "sent"
    /\ client' = [client EXCEPT ![c] =
         [Resting("sent", client[c].token) EXCEPT !.op = "login", !.verified = auth, !.at = now]]
    /\ UNCHANGED <<now, up, auth, settings, session, store, promised>>

\* The client's new token, and what a delivered response makes of cookie and file.
Receive(c, s, n) ==
    /\ jar' = [jar EXCEPT ![Kind(c)] = s]
    /\ file' = IF c \in Cli THEN <<s, n>> ELSE file
Finish(c, pc, token) ==
    client' = [client EXCEPT ![c] = Resting(pc, IF c \in Cli THEN None ELSE token)]

CreateAdminSession(c, s, delivered) ==
    /\ client[c].pc = "sent" /\ client[c].op = "login"
    /\ session[s] = None
    /\ client[c].verified = auth /\ client[c].at >= Born
    /\ LET t == client[c].at
       IN  /\ session' = [session EXCEPT ![s] =
                [auth |-> auth, csrf |-> 1, previous |-> None, rotated |-> t, created |-> t, last |-> t,
                 expires |-> t + effective.absolute, idle |-> effective.idle, revoked |-> FALSE]]
           /\ promised' = [promised EXCEPT ![s] = Min({t + effective.absolute, t + effective.idle})]
    /\ IF delivered
         THEN Receive(c, s, 1) /\ Finish(c, "idle", <<s, 1>>)
         ELSE UNCHANGED store /\ Finish(c, "idle", client[c].token)
    /\ UNCHANGED <<now, up, auth, settings>>

-----------------------------------------------------------------------------

\* The time a transaction works with.
Reading(c) == IF client[c].op = "mutate" THEN now ELSE client[c].at

Authorized(c, op) ==
    /\ client[c].pc = "sent" /\ client[c].op = op
    /\ readLiveSession(client[c].session, Reading(c))
    /\ op # "me" => validCSRF(client[c].session, client[c].token, Reading(c))

Touch(s, t) == session' = [session EXCEPT ![s].last = activityAt(session[s], t)]

\* A read or a mutation commits; a mutation may be a settings plan.
UseAdminSession(c, op, policy) ==
    /\ Authorized(c, op)
    /\ Touch(client[c].session, Reading(c))
    /\ desired' = IF op = "mutate" THEN policy ELSE desired
    /\ Finish(c, "idle", client[c].token)
    /\ UNCHANGED <<now, up, auth, effective, store, promised>>

RotateAdminSessionCSRF(c, delivered) ==
    /\ Authorized(c, "me")
    /\ LET s == client[c].session
           t == Reading(c)
           n == session[s].csrf + 1
       IN  /\ n <= MaxToken
           /\ session' = [session EXCEPT ![s] =
                [@ EXCEPT !.csrf = n, !.previous = session[s].csrf,
                          !.rotated = rotationAt(session[s], t), !.last = activityAt(session[s], t)]]
           /\ promised' = [promised EXCEPT ![s] =
                Min({session[s].expires, activityAt(session[s], t) + session[s].idle})]
           /\ IF ~delivered
                THEN UNCHANGED store /\ Finish(c, "idle", client[c].token)
                ELSE /\ Receive(c, s, n)
                     /\ IF client[c].goal = None
                          THEN Finish(c, "idle", <<s, n>>)
                          ELSE client' = [client EXCEPT ![c].op = client[c].goal,
                                                        ![c].token = <<s, n>>, ![c].at = now]
    /\ UNCHANGED <<now, up, auth, settings>>

RevokeAdminSession(c) ==
    /\ Authorized(c, "logout")
    /\ session' = [session EXCEPT ![client[c].session].revoked = TRUE]
    /\ jar' = [jar EXCEPT ![Kind(c)] = None]
    /\ file' = IF c \in Cli THEN None ELSE file
    /\ Finish(c, "idle", None)
    /\ UNCHANGED <<now, up, auth, settings, promised>>

\* A request ends with an error.  A tab that logs out forgets its token even
\* then; a command whose recovery fails reports the rejection (403).
EndWithError(c, rejected) ==
    LET failed == rejected \/ (client[c].op = "me" /\ client[c].goal # None)
        token  == IF c \in Cli THEN None
                  ELSE IF client[c].op = "logout" THEN <<client[c].session, 0>> ELSE client[c].token
    IN  /\ client' = [client EXCEPT ![c] =
             [Resting(IF failed THEN "failed" ELSE "idle", token)
                EXCEPT !.goal = IF failed THEN client[c].goal ELSE None]]
        /\ UNCHANGED <<now, up, auth, settings, session, store, promised>>

\* The X-CSRF-Token header is missing.
NoToken(c) == client[c].op \in {"read", "mutate", "logout"} /\ client[c].token[2] = 0

\* 401: the session is not live.
Refuse(c) ==
    /\ client[c].pc = "sent" /\ client[c].op # "login" /\ ~NoToken(c)
    /\ ~readLiveSession(client[c].session, Reading(c))
    /\ EndWithError(c, FALSE)

\* 503: the database failed, or CreateAdminSession refused; all is rolled back.
Abort(c) ==
    /\ client[c].pc = "sent"
    /\ EndWithError(c, FALSE)

Rejected(c) ==
    /\ client[c].pc = "sent" /\ client[c].op \in {"read", "mutate", "logout"}
    /\ \/ NoToken(c)
       \/ /\ readLiveSession(client[c].session, Reading(c))
          /\ ~validCSRF(client[c].session, client[c].token, Reading(c))

\* authenticatedWithRecovery: a rejected command asks for a new token once.
Recover(c) ==
    /\ Rejected(c) /\ c \in Cli /\ client[c].goal = None /\ client[c].op # "logout"
    /\ client' = [client EXCEPT ![c].op = "me", ![c].goal = client[c].op, ![c].at = now]
    /\ UNCHANGED <<now, up, auth, settings, session, store, promised>>

\* 403: the command, or the action in the tab, gives up.
Fail(c) ==
    /\ Rejected(c)
    /\ c \in Cli => client[c].goal # None \/ client[c].op = "logout"
    /\ EndWithError(c, TRUE)

-----------------------------------------------------------------------------

\* The service stops or crashes: the requests that it has not executed end.
Stop ==
    /\ up /\ up' = FALSE
    /\ client' = [c \in Client |->
         IF client[c].pc = "sent" THEN Resting("idle", IF c \in Cli THEN None ELSE client[c].token) ELSE client[c]]
    /\ UNCHANGED <<now, auth, settings, session, store, promised>>

Start ==
    /\ ~up /\ up' = TRUE
    /\ effective' = desired
    /\ UNCHANGED <<now, auth, desired, session, store, client, promised>>

\* A settings plan applied by the CLI under the installation lock.
ApplyOffline(p) ==
    /\ ~up /\ desired' = p
    /\ UNCHANGED <<now, up, auth, effective, session, store, client, promised>>

\* Mutant: a reset that relies on auth_version alone.
ResetKeepsRows ==
    /\ ~up /\ auth < MaxAuth /\ auth' = auth + 1
    /\ UNCHANGED <<now, up, settings, session, store, client, promised>>

\* MaxAuth stands for the greatest 64-bit integer, where a reset is refused.
ResetAdminPassword ==
    /\ ~up /\ auth < MaxAuth /\ auth' = auth + 1
    /\ session' = [s \in Session |-> IF session[s] = None THEN None ELSE [session[s] EXCEPT !.revoked = TRUE]]
    /\ UNCHANGED <<now, up, settings, store, client, promised>>

SetClock(t) ==
    /\ t # now /\ (StepsBack \/ t > now) /\ now' = t
    /\ UNCHANGED <<up, auth, settings, session, store, client, promised>>

Handle(c) ==
    \/ \E op \in {"read", "mutate", "logout", "me"} : Send(c, op)
    \/ VerifyPassword(c) \/ Abort(c)
    \/ \E s \in Session, d \in BOOLEAN : CreateAdminSession(c, s, d)
    \/ \E op \in {"read", "mutate"}, p \in Policy : UseAdminSession(c, op, p)
    \/ \E d \in BOOLEAN : RotateAdminSessionCSRF(c, d)
    \/ RevokeAdminSession(c) \/ Refuse(c) \/ Recover(c) \/ Fail(c)

Next ==
    \/ \E c \in Client : Handle(c)
    \/ Stop \/ Start \/ ResetAdminPassword
    \/ \E p \in Policy : ApplyOffline(p)
    \/ \E t \in 0..MaxTime : SetClock(t)

Spec == Init /\ [][Next]_vars

-----------------------------------------------------------------------------

Token == (Session \X (0..MaxToken)) \cup {None}

\* Types of rows, of settings and of clients.
TypeOK ==
    /\ now \in 0..MaxTime /\ up \in BOOLEAN /\ auth \in 1..MaxAuth
    /\ desired \in Policy /\ effective \in Policy
    /\ session \in [Session -> Row \cup {None}]
    /\ jar \in [{"console", "cli"} -> Session \cup {None}] /\ file \in Token
    /\ client \in [Client ->
         [pc : {"idle", "sent", "failed"}, op : {"login", "read", "mutate", "logout", "me", None},
          goal : {"read", "mutate", None}, verified : 0..MaxAuth, session : Session \cup {None},
          token : Token, at : 0..MaxTime]]
    /\ promised \in [Session -> Nat]

\* No history of requests and clock steps produces a row that
\* readLiveSession reports as corrupt (admin_session_state_invalid).
RowsStayValid == \A s \in Session : session[s] # None => ~Corrupt(session[s])

\* A session lives at least until the last expiry that a response announced,
\* unless it is logged out or the password is reset: neither a clock that
\* steps back, nor a queued request, nor new settings shorten it.
AnnouncedExpiryHolds == \A s \in Session : session[s] # None => promised[s] <= Expiry(session[s])

\* A reset leaves no session open, whatever its auth_version.
ResetClosesSessions ==
    \A s \in Session : session[s] # None /\ ~session[s].revoked => session[s].auth = auth

\* A request that the server is about to reject although at most one
\* rotation has replaced its token.
Displaced(c) ==
    /\ Rejected(c)
    /\ LET s == client[c].session
       IN  \E n \in 1..MaxToken : client[c].token = <<s, n>> /\ session[s].csrf <= n + 1

\* One reload elsewhere displaces nobody: the handler of such a request read
\* the clock outside the window.
OneReloadDisplacesNobody ==
    \A c \in Client : Displaced(c) =>
      LET s == client[c].session
      IN  Reading(c) < session[s].rotated \/ session[s].rotated + Window < Reading(c)

\* "To avoid breaking another tab during a reload, the previous hash is
\* accepted for at most 60 seconds": with a clock that never steps back, a
\* request that one reload displaces has waited out the window.
ReloadBreaksNoTab ==
    \A c \in Client : Displaced(c) => session[client[c].session].rotated + Window < now

\* "On a CSRF rejection a client fetches /session/me and retries once": no
\* request is given up for its CSRF token without a recovery.
RejectionIsRetried == \A c \in Client : client[c].pc = "failed" => client[c].goal # None

=============================================================================
