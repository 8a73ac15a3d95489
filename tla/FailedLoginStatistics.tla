----------------------- MODULE FailedLoginStatistics -----------------------
(***************************************************************************)
(* Counters of failed logins: login handlers count in memory per minute, a *)
(* ticker and the handlers themselves move batches to SQLite, a batch that *)
(* could not be written is put back, and shutdown flushes what is left.    *)
(* A commit that reports an error may have landed all the same.            *)
(*                                                                         *)
(* Handlers, the ticker goroutine, closeAndFlush and the main goroutine    *)
(* are processes; a step is a critical section, a channel operation or one *)
(* database transaction.  The four reasons are independent counters of one *)
(* map: one stands for all.  Minutes are counted from 1, and 0 is the      *)
(* minute of a service that has counted nothing.                           *)
(***************************************************************************)
EXTENDS Naturals, FiniteSets, Functions

CONSTANTS
    Handler,        \* bound: concurrent login requests
    MaxFailures,    \* bound: failures that are counted
    MaxRepeats,     \* bound: failures in commits that land and report an error
    MaxMinute,      \* bound: clock readings
    Retention       \* minutes that buckets are kept; 0 is unlimited

ASSUME FailedLoginStatisticsAssumption ==
    /\ IsFiniteSet(Handler)
    /\ MaxFailures \in Nat /\ MaxRepeats \in Nat /\ MaxMinute \in Nat \ {0} /\ Retention \in Nat

Minute == 1..MaxMinute

VARIABLES
    now,              \* the wall clock
    minute, counts,   \* the fields of failedLoginStatistics
    closed, stop,     \* closed, and the stop channel
    handler,          \* login handlers: pc, the minute read, the batch to be written
    ticker, closer,   \* run and closeAndFlush: pc and batch
    main,             \* runServe: "serving", "stopping", "exited", "timed out"
    bucket,           \* failed_login_statistics
    recorded,         \* history: failures counted
    repeated,         \* history: failures written by a commit that reported an error
    dropped,          \* history: failures given up: pruned, or without another attempt
    newest, last      \* history: newest and last minute that a failure was counted in

memory == <<minute, counts>>
life   == <<closed, stop, main>>
count  == <<recorded, repeated, newest, last>>
vars   == <<now, memory, life, handler, ticker, closer, bucket, dropped, count>>

None == [minute |-> 0, count |-> 0]

Init ==
    /\ now \in Minute
    /\ minute = 0 /\ counts = 0
    /\ closed = FALSE /\ stop = FALSE /\ main = "serving"
    /\ handler = [h \in Handler |-> [pc |-> "idle", minute |-> 0, batch |-> None]]
    /\ ticker = [pc |-> "waiting", batch |-> None]
    /\ closer = [pc |-> "none", batch |-> None]
    /\ bucket = [m \in 0..MaxMinute |-> 0]
    /\ recorded = 0 /\ repeated = 0 /\ dropped = 0 /\ newest = 0 /\ last = 0

Running == main \in {"serving", "stopping"}

----------------------------------------------------------------------------
(* One transaction of flush, and putting a batch back                      *)

Old(m, at) == Retention > 0 /\ m + Retention <= at

\* Upsert the batch, then prune by age.
Persist(b, at) ==
    LET filled == [bucket EXCEPT ![b.minute] = @ + b.count]
    IN  /\ bucket' = [m \in 0..MaxMinute |-> IF Old(m, at) THEN 0 ELSE filled[m]]
        /\ dropped' = dropped +
             SumFunctionOnSet(filled, {m \in 0..MaxMinute : Old(m, at)})

\* flush ends with the error of tx.Commit, whose outcome is then not known: the
\* batch was written, or it was not.
Uncertain(b, at, landed) ==
    IF landed THEN /\ repeated + b.count <= MaxRepeats
                   /\ repeated' = repeated + b.count
                   /\ Persist(b, at)
    ELSE UNCHANGED <<bucket, dropped, repeated>>

\* Mutant: the failed batch replaces what was counted meanwhile.
RequeueReplaces(b) == counts' = b.count /\ UNCHANGED minute

\* Into the current minute, whatever minute the batch had.
requeue(b) == counts' = counts + b.count /\ UNCHANGED minute

\* Take the current batch and leave an empty map.
Swap == counts' = 0 /\ UNCHANGED minute

----------------------------------------------------------------------------
(* Login handlers: record                                                  *)

Goto(h, pc) == handler' = [handler EXCEPT ![h].pc = pc]

\* The step that follows, the minute that was read, and the batch in hand.
Become(h, pc, m, batch) == handler' = [handler EXCEPT ![h] = [pc |-> pc, minute |-> m, batch |-> batch]]

StartLogin(h) ==
    /\ main = "serving" /\ handler[h].pc = "idle"
    /\ Goto(h, "login")
    /\ UNCHANGED <<now, memory, life, ticker, closer, bucket, dropped, count>>

\* The login succeeded: nothing is counted.
Succeed(h) ==
    /\ Running /\ handler[h].pc = "login"
    /\ Goto(h, "idle")
    /\ UNCHANGED <<now, memory, life, ticker, closer, bucket, dropped, count>>

\* record reads the clock before it takes a lock.
ReadClock(h) ==
    /\ Running /\ handler[h].pc = "login"
    /\ recorded + Cardinality({g \in Handler : handler[g].pc \in {"read", "active"}}) < MaxFailures
    /\ Become(h, "read", now, None)
    /\ UNCHANGED <<now, memory, life, ticker, closer, bucket, dropped, count>>

Counted(m) ==
    /\ recorded' = recorded + 1 /\ last' = m /\ newest' = IF m > newest THEN m ELSE newest
    /\ UNCHANGED repeated

\* Under lifecycleMu: join the handlers that closeAndFlush waits for ...
Enter(h) ==
    /\ Running /\ handler[h].pc = "read" /\ ~closed
    /\ Goto(h, "active")
    /\ UNCHANGED <<now, memory, life, ticker, closer, bucket, dropped, count>>

\* ... or, once it is closed, write the failure alone, in the minute that was read.
Late(h) ==
    /\ Running /\ handler[h].pc = "read" /\ closed
    /\ Become(h, "late", handler[h].minute, [minute |-> handler[h].minute, count |-> 1])
    /\ Counted(handler[h].minute)
    /\ UNCHANGED <<now, memory, life, ticker, closer, bucket, dropped>>

\* Mutant: the minute that was read before the lock.
MinuteAsRead(m) == m

\* Never an earlier one than the minute of the counts.
MinuteOf(m) == IF m < minute THEN minute ELSE m

\* Under mu: count in the current minute; a new minute takes the batch of the old
\* one away.
Count(h) ==
    /\ Running /\ handler[h].pc = "active"
    /\ LET m == MinuteOf(handler[h].minute)
           moves == minute # 0 /\ m > minute
       IN  /\ minute' = m
           /\ counts' = IF moves THEN 1 ELSE counts + 1
           /\ IF moves /\ counts > 0 THEN Become(h, "flushing", m, [minute |-> minute, count |-> counts])
              ELSE Become(h, "leaving", m, None)
           /\ Counted(m)
    /\ UNCHANGED <<now, life, ticker, closer, bucket, dropped>>

Flush(h) ==
    /\ Running /\ handler[h].pc = "flushing"
    /\ Persist(handler[h].batch, handler[h].minute)
    /\ Become(h, "leaving", handler[h].minute, None)
    /\ UNCHANGED <<now, memory, life, ticker, closer, count>>

FlushFails(h, landed) ==
    /\ Running /\ handler[h].pc = "flushing"
    /\ Uncertain(handler[h].batch, handler[h].minute, landed)
    /\ Goto(h, "requeueing")
    /\ UNCHANGED <<now, memory, life, ticker, closer, recorded, newest, last>>

Requeue(h) ==
    /\ Running /\ handler[h].pc = "requeueing"
    /\ requeue(handler[h].batch)
    /\ Become(h, "leaving", handler[h].minute, None)
    /\ UNCHANGED <<now, life, ticker, closer, bucket, dropped, count>>

\* active.Done
Leave(h) ==
    /\ Running /\ handler[h].pc = "leaving"
    /\ Goto(h, "idle")
    /\ UNCHANGED <<now, memory, life, ticker, closer, bucket, dropped, count>>

\* The error of this write is dropped with the failure it counted.
LateFlush(h, written) ==
    /\ Running /\ handler[h].pc = "late"
    /\ IF written THEN Persist(handler[h].batch, handler[h].minute)
       ELSE dropped' = dropped + 1 /\ UNCHANGED bucket
    /\ Become(h, "idle", handler[h].minute, None)
    /\ UNCHANGED <<now, memory, life, ticker, closer, count>>

----------------------------------------------------------------------------
(* run: a flush per tick, and one when stop is closed                      *)

\* flushCurrent takes the counts, after a tick or because stop is closed.
Tick ==
    /\ Running /\ ticker.pc = "waiting"
    /\ ticker' = [pc |-> IF stop THEN "last" ELSE "flushing", batch |-> [minute |-> minute, count |-> counts]]
    /\ Swap
    /\ UNCHANGED <<now, life, handler, closer, bucket, dropped, count>>

\* With nothing counted and no retention it does not open a transaction.
TickFlush ==
    /\ Running /\ ticker.pc \in {"flushing", "last"}
    /\ IF ticker.batch.count = 0 /\ Retention = 0 THEN UNCHANGED <<bucket, dropped>>
       ELSE Persist(ticker.batch, now)
    /\ ticker' = [pc |-> IF ticker.pc = "last" THEN "done" ELSE "waiting", batch |-> None]
    /\ UNCHANGED <<now, memory, life, handler, closer, count>>

\* Mutant: after a failed last flush the goroutine does not return.
TickFailsRetries(landed) ==
    /\ Running /\ ticker.pc \in {"flushing", "last"}
    /\ Uncertain(ticker.batch, now, landed)
    /\ requeue(ticker.batch)
    /\ ticker' = [pc |-> "waiting", batch |-> None]
    /\ UNCHANGED <<now, life, handler, closer, recorded, newest, last>>

TickFails(landed) ==
    /\ Running /\ ticker.pc \in {"flushing", "last"}
    /\ Uncertain(ticker.batch, now, landed)
    /\ requeue(ticker.batch)
    /\ ticker' = [pc |-> IF ticker.pc = "last" THEN "done" ELSE "waiting", batch |-> None]
    /\ UNCHANGED <<now, life, handler, closer, recorded, newest, last>>

----------------------------------------------------------------------------
(* closeAndFlush                                                           *)

SetClosed ==
    /\ Running /\ closer.pc = "started"
    /\ closed' = TRUE
    /\ closer' = [closer EXCEPT !.pc = "waiting"]
    /\ UNCHANGED <<now, memory, stop, main, handler, ticker, bucket, dropped, count>>

Active == {h \in Handler : handler[h].pc \in {"active", "flushing", "requeueing", "leaving"}}

\* active.Wait, then close(stop)
CloseStop ==
    /\ Running /\ closer.pc = "waiting" /\ Active = {}
    /\ stop' = TRUE
    /\ closer' = [closer EXCEPT !.pc = "stopping"]
    /\ UNCHANGED <<now, memory, closed, main, handler, ticker, bucket, dropped, count>>

\* Mutant: no receive from done.
TakeRestAtOnce ==
    /\ Running /\ closer.pc = "stopping"
    /\ closer' = [pc |-> "flushing", batch |-> [minute |-> minute, count |-> counts]]
    /\ Swap
    /\ UNCHANGED <<now, life, handler, ticker, bucket, dropped, count>>

TakeRest ==
    /\ Running /\ closer.pc = "stopping" /\ ticker.pc = "done"
    /\ closer' = [pc |-> "flushing", batch |-> [minute |-> minute, count |-> counts]]
    /\ Swap
    /\ UNCHANGED <<now, life, handler, ticker, bucket, dropped, count>>

\* The last attempt: its error is dropped with the batch.
FinalFlush(written) ==
    /\ Running /\ closer.pc = "flushing"
    /\ IF closer.batch.count = 0 THEN UNCHANGED <<bucket, dropped>>
       ELSE IF written THEN Persist(closer.batch, now)
       ELSE dropped' = dropped + closer.batch.count /\ UNCHANGED bucket
    /\ closer' = [pc |-> "returned", batch |-> None]
    /\ UNCHANGED <<now, memory, life, handler, ticker, count>>

----------------------------------------------------------------------------
(* runServe and the clock                                                  *)

\* http.Server.Shutdown starts the registered function in a goroutine of its own.
Shutdown ==
    /\ main = "serving"
    /\ main' = "stopping"
    /\ closer' = [closer EXCEPT !.pc = "started"]
    /\ UNCHANGED <<now, memory, closed, stop, handler, ticker, bucket, dropped, count>>

Held == counts + closer.batch.count + ticker.batch.count +
        SumFunction([h \in Handler |-> handler[h].batch.count])

\* Shutdown returns when no request is in progress, or at its timeout; the
\* installation is closed and the process ends with whatever it still holds.
Exit ==
    /\ main = "stopping"
    /\ main' = IF \A h \in Handler : handler[h].pc = "idle" THEN "exited" ELSE "timed out"
    /\ UNCHANGED <<now, memory, closed, stop, handler, ticker, closer, bucket, dropped, count>>

SetClock(m) ==
    /\ Running /\ m # now
    /\ now' = m
    /\ UNCHANGED <<memory, life, handler, ticker, closer, bucket, dropped, count>>

Record(h) ==
    \/ ReadClock(h) \/ Enter(h) \/ Late(h) \/ Count(h) \/ Flush(h) \/ Requeue(h) \/ Leave(h)
    \/ \E landed \in BOOLEAN : FlushFails(h, landed)
    \/ \E written \in BOOLEAN : LateFlush(h, written)

Run == Tick \/ TickFlush \/ \E landed \in BOOLEAN : TickFails(landed)

closeAndFlush == SetClosed \/ CloseStop \/ TakeRest \/ \E written \in BOOLEAN : FinalFlush(written)

Next ==
    \/ \E h \in Handler : StartLogin(h) \/ Succeed(h) \/ Record(h)
    \/ Run \/ closeAndFlush \/ Shutdown \/ Exit
    \/ \E m \in Minute : SetClock(m)

Spec == Init /\ [][Next]_vars

\* Goroutines are scheduled, a database transaction ends, the ticker ticks.
Fairness ==
    /\ \A h \in Handler : WF_vars(Record(h) \/ Succeed(h))
    /\ WF_vars(Run) /\ WF_vars(closeAndFlush)

FairSpec == Spec /\ Fairness

----------------------------------------------------------------------------
(* Properties                                                              *)

\* Fields and processes are well formed; whoever has no batch in hand is not
\* writing one.
TypeOK ==
    /\ minute \in 0..MaxMinute /\ repeated \in 0..MaxRepeats
    /\ counts \in 0..(MaxFailures + MaxRepeats) /\ dropped \in 0..(MaxFailures + MaxRepeats)
    /\ bucket \in [0..MaxMinute -> 0..(MaxFailures + MaxRepeats)]
    /\ \A h \in Handler : handler[h].batch # None <=> handler[h].pc \in {"flushing", "requeueing", "late"}
    /\ counts > 0 => minute > 0
    /\ closer.pc = "returned" => ticker.pc = "done" /\ Active = {}

\* Every counted failure is in exactly one place: in memory, in a batch in some
\* goroutine's hands, in a bucket, or given up.  Only a batch whose commit landed
\* and reported an error is counted again, once for each such commit, for it is put
\* back; no interleaving of handlers, ticker, failed writes and shutdown loses a
\* failure or repeats one otherwise (record, flush, requeue, closeAndFlush).
Conserved ==
    recorded + repeated = Held + SumFunction(bucket) + dropped

\* closeAndFlush returns unless the process ends first: it never waits for a
\* handler or a ticker that has stopped moving.
CloseReturns == closer.pc = "started" ~> (closer.pc = "returned" \/ ~Running)

\* When closeAndFlush has returned, whatever failed writes were put back and
\* whichever handler was between its locks, nothing is left in memory or on its way
\* back to it: only logins counted since then still hold their own failure.
NothingLeftBehind ==
    closer.pc = "returned" =>
        /\ counts = 0 /\ ticker.batch.count = 0
        /\ \A h \in Handler : handler[h].batch.count > 0 => handler[h].pc = "late"

\* Though handlers read the clock before they take the lock, and it may be set back,
\* failures are counted in order of their minutes until the service is closed.
OlderOnlyAfterClose == last < newest => closed

\* "backwards clock changes do not create older buckets"
NoOlderBuckets == last = newest

\* "At shutdown flush remaining counts best-effort. A crash can lose the last
\* unflushed minute": a process that served every request and then ended holds
\* no count that it never tried to write.
ShutdownFlushes == main = "exited" => Held = 0
=============================================================================
