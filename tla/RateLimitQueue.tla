---------------------------- MODULE RateLimitQueue -----------------------------
(***************************************************************************)
(* Automatic actions held while a provider is rate-limited:                *)
(* server/provider_rate_limit.go and the rate_limit_queue table.  A        *)
(* connector that meets a hold writes its action to the table and arms the *)
(* one drain timer; the drain, which the timer or the operator's recheck   *)
(* starts, replays what is due and re-arms the timer.  The timer variable  *)
(* and the timers the runtime has are not the same thing: clearing the     *)
(* variable stops no timer, and a timer that has fired stays in it.        *)
(***************************************************************************)
EXTENDS Integers, FiniteSets

CONSTANTS
    Actions,      \* automatic actions, each brought once by a connector
    MaxDrains,    \* bound: drain goroutines at once
    MaxHold,      \* bound: the last time a hold can reach to
    MaxEvents     \* bound: failed replays, reads and acks, restarts, backfills
                  \* that meet a hold, and rows the operator dismisses

ASSUME RateLimitQueueAssumption ==
    /\ MaxDrains \in Nat \ {0}
    /\ MaxHold \in Nat /\ MaxEvents \in Nat

Drains == 1..MaxDrains

\* Bound: the clock runs past every hold, and nothing fails at its end.
MaxTime == MaxHold + 1
Times == 0..MaxTime

VARIABLES
    id, nextId,   \* the rows' ids, 0 before there is one
    status,       \* "none", "pending" or "done"
    runAfter,     \* when a row may be replayed
    cpc, cuntil,  \* where each connector is; the hold it carries
    timer,        \* rateLimitQueueTimer: "nil", "armed" or "fired"
    timerAt,      \* rateLimitQueueAt
    orphans,      \* due times of timers no variable refers to
    unread,       \* history: the last read of the next due row failed
    locked,       \* rateLimitDrainMu
    dpc, batch,   \* where each drain is; what it has listed and not yet handled
    listed,       \* history: when a drain listed them
    now,          \* the clock
    hold,         \* the reset time the provider reports, 0 when none lies ahead
    replayed,     \* history: times each action was replayed
    dismissed,    \* history: the rows the operator dismissed
    faults, backfills

tableVars == <<id, nextId, status, runAfter>>
timerVars == <<timer, timerAt, orphans, unread>>
connectorVars == <<cpc, cuntil>>
drainVars == <<locked, dpc, batch, listed>>
historyVars == <<replayed, dismissed, faults, backfills>>
vars == <<tableVars, timerVars, connectorVars, drainVars, now, hold, historyVars>>

Init ==
    /\ id = [a \in Actions |-> 0] /\ nextId = 1
    /\ status = [a \in Actions |-> "none"]
    /\ runAfter = [a \in Actions |-> 0]
    /\ cpc = [a \in Actions |-> "new"]
    /\ cuntil = [a \in Actions |-> 0]
    /\ timer = "nil" /\ timerAt = 0 /\ orphans = {} /\ unread = FALSE
    /\ locked = FALSE
    /\ dpc = [d \in Drains |-> "idle"]
    /\ batch = [d \in Drains |-> {}]
    /\ listed = [d \in Drains |-> 0]
    /\ now = 0
    /\ hold \in 0..MaxHold
    /\ replayed = [a \in Actions |-> 0]
    /\ dismissed = {}
    /\ faults = 0 /\ backfills = 0

Held == hold > now
Pending == {a \in Actions : status[a] = "pending"}
Event == faults + backfills + Cardinality(dismissed) < MaxEvents
Fault == Event /\ faults' = faults + 1

-----------------------------------------------------------------------------
(* The drain timer.                                                         *)

\* scheduleRateLimitQueueDrain: an earlier time in the variable wins.
Schedule(at) ==
    IF timer # "nil" /\ timerAt < at
    THEN UNCHANGED timerVars
    ELSE timer' = "armed" /\ timerAt' = at /\ unread' = FALSE /\ UNCHANGED orphans

\* NextRateLimitQueueRunAfter: the pending row that is due first.
NextDue(a) == a \in Pending /\ \A b \in Pending : runAfter[a] <= runAfter[b]

\* scheduleNextRateLimitQueueDrain: no row, no timer; and none for a read that fails.
ScheduleNext ==
    \/ /\ Pending = {}
       /\ UNCHANGED <<timerVars, faults>>
    \/ \E a \in Pending : NextDue(a) /\ Schedule(runAfter[a]) /\ UNCHANGED faults
    \/ /\ Pending # {}
       /\ Fault
       /\ unread' = TRUE
       /\ UNCHANGED <<timer, timerAt, orphans>>

\* A drain is a new goroutine: any that does not run yet will do.
Spare(d) == dpc[d] = "idle" /\ \A e \in Drains : e < d => dpc[e] # "idle"

\* Mutant: the guard is not tried.
TryLockAlways(d) ==
    /\ Spare(d)
    /\ locked' = TRUE
    /\ dpc' = [dpc EXCEPT ![d] = "clear"]

\* rateLimitDrainMu.TryLock: whoever meets the lock returns.
TryLock(d) ==
    /\ Spare(d)
    /\ locked' = TRUE
    /\ dpc' = IF locked THEN dpc ELSE [dpc EXCEPT ![d] = "clear"]

\* The drain timer is due, or one that the variable has forgotten.
Fire(d) ==
    /\ \/ /\ timer = "armed" /\ timerAt <= now
          /\ timer' = "fired"
          /\ UNCHANGED orphans
       \/ \E t \in orphans :
            /\ t <= now
            /\ orphans' = orphans \ {t}
            /\ UNCHANGED timer
    /\ TryLock(d)
    /\ UNCHANGED <<tableVars, timerAt, unread, connectorVars, batch, listed, now, hold,
                   historyVars>>

\* recheckProviderLimits: the operator asks for a drain.
Recheck(d) ==
    /\ ~locked
    /\ TryLock(d)
    /\ UNCHANGED <<tableVars, timerVars, connectorVars, batch, listed, now, hold,
                   historyVars>>

-----------------------------------------------------------------------------
(* drainRateLimitQueue.                                                     *)

Goto(d, l) == dpc' = [dpc EXCEPT ![d] = l]
Leave(d) ==
    /\ Goto(d, "idle")
    /\ batch' = [batch EXCEPT ![d] = {}]
    /\ listed' = [listed EXCEPT ![d] = 0]
    /\ locked' = FALSE

\* The variable is cleared; the timer it held, if any, will still fire.
ClearTimer(d) ==
    /\ dpc[d] = "clear"
    /\ orphans' = IF timer = "armed" THEN orphans \cup {timerAt} ELSE orphans
    /\ timer' = "nil" /\ timerAt' = 0 /\ unread' = FALSE
    /\ Goto(d, "hold")
    /\ UNCHANGED <<tableVars, connectorVars, locked, batch, listed, now, hold,
                   historyVars>>

\* Mutant: a drain that meets a hold leaves it to the hold's own timer.
StillHeldUnarmed(d) ==
    /\ dpc[d] = "hold"
    /\ Held
    /\ Leave(d)
    /\ UNCHANGED <<tableVars, timerVars, connectorVars, now, hold, historyVars>>

StillHeld(d) ==
    /\ dpc[d] = "hold"
    /\ Held
    /\ Schedule(hold)
    /\ Leave(d)
    /\ UNCHANGED <<tableVars, connectorVars, now, hold, historyVars>>

\* ListReadyRateLimitQueue: pending and due, ...
ListReady(d) ==
    /\ dpc[d] = "hold"
    /\ ~Held
    /\ batch' = [batch EXCEPT ![d] = {a \in Pending : runAfter[a] <= now}]
    /\ listed' = [listed EXCEPT ![d] = now]
    /\ Goto(d, "item")
    /\ UNCHANGED <<tableVars, timerVars, connectorVars, locked, now, hold, historyVars>>

\* ... and a listing that fails is tried again a unit later.
ListFails(d) ==
    /\ dpc[d] = "hold"
    /\ ~Held /\ now < MaxTime
    /\ Fault
    /\ Schedule(now + 1)
    /\ Leave(d)
    /\ UNCHANGED <<tableVars, connectorVars, now, hold, replayed, dismissed, backfills>>

\* Mutant: ORDER BY run_after.
FirstByTime(d) ==
    CHOOSE a \in batch[d] : \A b \in batch[d] : runAfter[a] <= runAfter[b]

\* ... ORDER BY id: the row the drain's loop has come to.
First(d) == CHOOSE a \in batch[d] : \A b \in batch[d] : id[a] <= id[b]

HandledFirst(d) == batch' = [batch EXCEPT ![d] = @ \ {First(d)}]

\* UPDATE ... SET status = 'pending', whatever the row says by now.
Reschedule(a, at) ==
    /\ status' = [status EXCEPT ![a] = "pending"]
    /\ runAfter' = [runAfter EXCEPT ![a] = at]
    /\ UNCHANGED <<id, nextId>>

\* A hold began while the drain was replaying; the rewrite's error is dropped.
HeldAgain(d) ==
    /\ dpc[d] = "item" /\ batch[d] # {}
    /\ Held
    /\ \/ Reschedule(First(d), hold) /\ UNCHANGED faults
       \/ Fault /\ UNCHANGED tableVars
    /\ Schedule(hold)
    /\ Leave(d)
    /\ UNCHANGED <<connectorVars, now, hold, replayed, dismissed, backfills>>

StartReplay(d) ==
    /\ dpc[d] = "item" /\ batch[d] # {}
    /\ ~Held
    /\ Goto(d, "replay")
    /\ UNCHANGED <<tableVars, timerVars, connectorVars, locked, batch, listed, now,
                   hold, historyVars>>

\* replayRateLimitQueueItem: the connector's Dispatch, or the open.
ReplaySucceeds(d) ==
    /\ dpc[d] = "replay"
    /\ replayed' = [replayed EXCEPT ![First(d)] = @ + 1]
    /\ Goto(d, "ack")
    /\ UNCHANGED <<tableVars, timerVars, connectorVars, locked, batch, listed, now,
                   hold, dismissed, faults, backfills>>

\* A failed replay is retried a unit later (none fails at the clock's bound).
ReplayFails(d) ==
    /\ dpc[d] = "replay"
    /\ now < MaxTime
    /\ Fault
    /\ Reschedule(First(d), now + 1)
    /\ HandledFirst(d)
    /\ Goto(d, "item")
    /\ UNCHANGED <<timerVars, connectorVars, locked, listed, now, hold, replayed,
                   dismissed, backfills>>

\* AckRateLimitQueue; its error is dropped.
Ack(d) ==
    /\ dpc[d] = "ack"
    /\ \/ status' = [status EXCEPT ![First(d)] = "done"] /\ UNCHANGED faults
       \/ Fault /\ UNCHANGED status
    /\ HandledFirst(d)
    /\ Goto(d, "item")
    /\ UNCHANGED <<id, nextId, runAfter, timerVars, connectorVars, locked, listed, now,
                   hold, replayed, dismissed, backfills>>

\* Mutant: a drain ends without arming the timer for what is left.
EndDrainUnarmed(d) ==
    /\ dpc[d] = "item" /\ batch[d] = {}
    /\ Leave(d)
    /\ UNCHANGED <<tableVars, timerVars, connectorVars, now, hold, historyVars>>

EndDrain(d) ==
    /\ dpc[d] = "item" /\ batch[d] = {}
    /\ ScheduleNext
    /\ Leave(d)
    /\ UNCHANGED <<tableVars, connectorVars, now, hold, replayed, dismissed, backfills>>

-----------------------------------------------------------------------------
(* Connectors, the operator, the provider, the process.                     *)

\* HoldSlackEvent, HoldGitHubEvent, enqueueOpenTaskAfter.
Arrive(a) ==
    /\ cpc[a] = "new"
    /\ cpc' = [cpc EXCEPT ![a] = IF Held THEN "held" ELSE "passed"]
    /\ cuntil' = [cuntil EXCEPT ![a] = IF Held THEN hold ELSE 0]
    /\ UNCHANGED <<tableVars, timerVars, drainVars, now, hold, historyVars>>

EnqueueAction(a) ==
    /\ cpc[a] = "held"
    /\ id' = [id EXCEPT ![a] = nextId] /\ nextId' = nextId + 1
    /\ status' = [status EXCEPT ![a] = "pending"]
    /\ runAfter' = [runAfter EXCEPT ![a] = cuntil[a]]
    /\ cpc' = [cpc EXCEPT ![a] = "row"]
    /\ UNCHANGED <<timerVars, cuntil, drainVars, now, hold, historyVars>>

ArmDrain(a) ==
    /\ cpc[a] = "row"
    /\ Schedule(cuntil[a])
    /\ cpc' = [cpc EXCEPT ![a] = "queued"]
    /\ cuntil' = [cuntil EXCEPT ![a] = 0]
    /\ UNCHANGED <<tableVars, drainVars, now, hold, historyVars>>

\* providerBackfillHoldUntil arms the timer and leaves no row.
Backfill ==
    /\ Held
    /\ Event
    /\ backfills' = backfills + 1
    /\ Schedule(hold)
    /\ UNCHANGED <<tableVars, connectorVars, drainVars, now, hold, replayed,
                   dismissed, faults>>

\* DismissRateLimitQueue: only a pending row, and its timer stays.
Dismiss(a) ==
    /\ status[a] = "pending"
    /\ Event
    /\ status' = [status EXCEPT ![a] = "done"]
    /\ dismissed' = dismissed \cup {a}
    /\ UNCHANGED <<id, nextId, runAfter, timerVars, connectorVars, drainVars, now, hold,
                   replayed, faults, backfills>>

\* A provider reports a limit, or another one a later reset.
Limit ==
    /\ hold' \in (IF Held THEN hold ELSE now) + 1 .. MaxHold
    /\ UNCHANGED <<tableVars, timerVars, connectorVars, drainVars, now, historyVars>>

Tick ==
    /\ now < MaxTime
    /\ now' = now + 1
    /\ hold' = IF hold = now' THEN 0 ELSE hold
    /\ UNCHANGED <<tableVars, timerVars, connectorVars, drainVars, historyVars>>

\* The server restarts and arms the timer for what the table holds, if it can read it.
Restart ==
    /\ Fault
    /\ cpc' = [a \in Actions |-> CASE cpc[a] = "held" -> "failed"
                                   [] cpc[a] = "row" -> "queued"
                                   [] OTHER -> cpc[a]]
    /\ dpc' = [d \in Drains |-> "idle"]
    /\ batch' = [d \in Drains |-> {}]
    /\ listed' = [d \in Drains |-> 0]
    /\ locked' = FALSE
    /\ orphans' = {}
    /\ \/ /\ timer' = "nil" /\ timerAt' = 0
          /\ unread' = (Pending # {})
       \/ \E a \in Pending : NextDue(a) /\ timer' = "armed" /\ timerAt' = runAfter[a]
                             /\ unread' = FALSE
    /\ cuntil' = [a \in Actions |-> 0]
    /\ UNCHANGED <<tableVars, now, hold, replayed, dismissed, backfills>>

DrainStep(d) ==
    \/ ClearTimer(d) \/ StillHeld(d) \/ ListReady(d) \/ ListFails(d) \/ HeldAgain(d)
    \/ StartReplay(d) \/ ReplaySucceeds(d) \/ ReplayFails(d) \/ Ack(d) \/ EndDrain(d)

Next ==
    \/ \E d \in Drains : Fire(d) \/ Recheck(d) \/ DrainStep(d)
    \/ \E a \in Actions : Arrive(a) \/ EnqueueAction(a) \/ ArmDrain(a) \/ Dismiss(a)
    \/ Backfill \/ Limit \/ Tick \/ Restart

Spec == Init /\ [][Next]_vars

\* Timers fire, drains and connectors run on, time passes.  Nobody rechecks.
Fairness ==
    /\ WF_vars(\E d \in Drains : Fire(d))
    /\ \A d \in Drains : WF_vars(DrainStep(d))
    /\ \A a \in Actions : WF_vars(EnqueueAction(a) \/ ArmDrain(a))
    /\ WF_vars(Tick)

FairSpec == Spec /\ Fairness

-----------------------------------------------------------------------------
(* Properties.                                                              *)

\* Every variable keeps its type, and every time lies within the bound.
TypeOK ==
    /\ id \in [Actions -> Nat] /\ nextId \in Nat
    /\ status \in [Actions -> {"none", "pending", "done"}]
    /\ runAfter \in [Actions -> Times]
    /\ cpc \in [Actions -> {"new", "held", "row", "queued", "passed", "failed"}]
    /\ cuntil \in [Actions -> Times]
    /\ timer \in {"nil", "armed", "fired"} /\ timerAt \in Times
    /\ orphans \subseteq Times /\ unread \in BOOLEAN
    /\ locked \in BOOLEAN
    /\ dpc \in [Drains -> {"idle", "clear", "hold", "item", "replay", "ack"}]
    /\ batch \in [Drains -> SUBSET Actions]
    /\ listed \in [Drains -> Times]
    /\ now \in Times /\ hold \in Times
    /\ replayed \in [Actions -> Nat]
    /\ dismissed \subseteq Actions
    /\ faults \in Nat /\ backfills \in Nat

\* Two drains never replay the same row: a row is replayed a second time only
\* for a failed ack or a restart (the mutex of drainRateLimitQueue).
ReplayedOncePerFault == \A a \in Actions : replayed[a] <= 1 + faults

\* rate_limit_queue.go:16: "orders replay FIFO by id once run_after is due".
\* A replay starts only when no older row that was due when the drain listed
\* still waits for its first replay.
ReplayFifo ==
    \A d \in Drains : dpc[d] = "replay" =>
        \A a \in Pending :
            id[a] < id[First(d)] /\ replayed[a] = 0 => runAfter[a] > listed[d]

\* A timer that fired while a drain ran found the lock taken and stays in the variable.
TimerStuck == timer = "fired" /\ \A d \in Drains : dpc[d] = "idle"

\* The read at the end of the last drain, or at the boot, failed: nobody has armed the
\* timer, and no drain has begun, since then.
NextUnread == unread /\ timer = "nil" /\ orphans = {} /\ \A d \in Drains : dpc[d] = "idle"

\* A row that waits is never left to nobody (the one timer variable is written by
\* connectors, drains, backfills and the boot): its connector is about to arm the
\* timer, a drain is at work, which arms it for what it leaves, a timer of the runtime
\* is still to fire, or the timer is lost in one of the two ways named above.
RowHasTimer ==
    \A a \in Pending :
        \/ cpc[a] = "row"
        \/ timer = "armed" \/ orphans # {}
        \/ \E d \in Drains : dpc[d] # "idle"
        \/ TimerStuck \/ NextUnread

\* A held action is replayed or dismissed once the holds are over, although nobody
\* rechecks: whatever two drains, new holds, failures, dismissals and restarts do to
\* the one timer variable, a pending row has a timer that will reach it.  The two
\* exceptions are real: a timer that fires while a drain runs finds the lock taken and
\* stays in the variable, and a failed read of the next due row arms nobody.
HeldActionReplayed ==
    \A a \in Actions :
        status[a] = "pending" ~>
            (replayed[a] > 0 \/ a \in dismissed \/ TimerStuck \/ NextUnread)
=============================================================================
