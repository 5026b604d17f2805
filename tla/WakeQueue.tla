------------------------------- MODULE WakeQueue -------------------------------
(***************************************************************************)
(* The wake path of one task: server/wake_queue.go, terminal_wake.go and   *)
(* the pending_wakes table of flowdb.  A caller (a nudge, an inbox event   *)
(* under a rate-limit hold) asks for a prompt to be typed into the task's  *)
(* agent session.  When the session must not be typed into the prompt is   *)
(* buffered in the table, and a flush, triggered by hooks, timers, attach  *)
(* or boot, drains the table in id order under a per-task flush guard.     *)
(*                                                                         *)
(* Each member of Wakes is a prompt and the goroutine that brings it; each *)
(* member of Flushers is a goroutine (or armed time.AfterFunc) that runs   *)
(* flushWakes.  Reads of the database, of the hub and of the guard are     *)
(* separate steps, as they are separate critical sections in the code.     *)
(***************************************************************************)
EXTENDS Integers, FiniteSets

CONSTANTS
    Wakes,        \* prompts, each brought once by its own caller
    HeldWakes,    \* those that arrive while the provider is rate-limited
    Flushers,     \* bound: flush goroutines and timers alive at once
    MaxTime,      \* bound: the clock, in units of a rate-limit hold
    MaxFaults,    \* bound: server crashes and failed reads and writes
    NoWake

ASSUME WakeQueueAssumption ==
    /\ HeldWakes \subseteq Wakes
    /\ NoWake \notin Wakes
    /\ Wakes \cap Flushers = {}
    /\ MaxTime \in Nat
    /\ MaxFaults \in Nat

VARIABLES
    rows,         \* pending_wakes: the prompts that have a row
    rowId,        \* the AUTOINCREMENT id a prompt's row got, 0 before
    notBefore,    \* its not_before
    nextId,       \* the table's next id
    flushing,     \* wakeQueue.flushing[slug]
    fpc,          \* where each flush goroutine is
    fat,          \* when its timer is due, while fpc = "timer"
    fhead,        \* the row it peeked
    now,          \* the clock
    session,      \* "pty": attached in the hub; "tmux": detached; "none"
    booted,       \* the agent reads its input box
    awaiting,     \* AwaitingHumanInput of the recorded runtime state
    draft,        \* the browser draft of the attached session is not empty
    wpc,          \* where each caller is
    flushed,      \* history: times a flush handed each prompt over
    lastId,       \* history: id of the row handed over last
    faults,       \* history: crashes and failed reads and writes so far
    late          \* history: threads whose last gate read is out of date, or failed

tableVars == <<rows, rowId, notBefore, nextId>>
flushVars == <<flushing, fpc, fat, fhead>>
sessionVars == <<session, booted, awaiting, draft>>
historyVars == <<flushed, lastId, faults, late>>
vars == <<tableVars, flushVars, now, sessionVars, wpc, historyVars>>

FlusherPcs == {"off", "wait", "timer", "has", "begin", "draft1", "await1",
               "peek", "await2", "draft2", "route", "paste", "repaste",
               "shared", "ack", "gap", "end"}
CallerPcs == {"new", "draft", "await", "inject", "repaste", "shared", "tmux",
              "push", "sharedpush", "arm", "buffered", "sent", "failed"}

\* Between beginFlush and endFlush.
Owning == {"draft1", "await1", "peek", "await2", "draft2", "route", "paste",
           "repaste", "shared", "ack", "gap", "end"}

\* Holding a row that was peeked and not acked.
Carrying == {"await2", "draft2", "route", "paste", "repaste", "shared", "ack"}

\* Past the last gate read and before the paste.
FlusherPasting == {"route", "paste", "repaste", "shared"}
CallerPasting == {"inject", "repaste", "tmux"}

\* Dead caller states: the caller has returned.
Returned == {"buffered", "sent", "failed"}

Init ==
    /\ rows = {}
    /\ rowId = [w \in Wakes |-> 0]
    /\ notBefore = [w \in Wakes |-> 0]
    /\ nextId = 1
    /\ flushing = FALSE
    /\ fpc = [f \in Flushers |-> "off"]
    /\ fat = [f \in Flushers |-> 0]
    /\ fhead = [f \in Flushers |-> NoWake]
    /\ now = 0
    /\ session \in {"none", "tmux", "pty"}
    /\ booted = (session # "none")
    /\ awaiting = FALSE
    /\ draft = FALSE
    /\ wpc = [w \in Wakes |-> "new"]
    /\ flushed = [w \in Wakes |-> 0]
    /\ lastId = 0
    /\ faults = 0
    /\ late = {}

-----------------------------------------------------------------------------
(* The table and the goroutines that run flushWakes.                        *)

\* A restart, or a read or write of the database that returns an error.
Fault == faults < MaxFaults /\ faults' = faults + 1

\* ORDER BY id ASC LIMIT 1.
Oldest(w) == w \in rows /\ \A v \in rows : rowId[w] <= rowId[v]

\* INSERT INTO pending_wakes.
Insert(w, t) ==
    /\ rows' = rows \cup {w}
    /\ rowId' = [rowId EXCEPT ![w] = nextId]
    /\ notBefore' = [notBefore EXCEPT ![w] = t]
    /\ nextId' = nextId + 1

\* Mutant: the timer is armed one unit late.
SpawnLate(pc, t) ==
    \E f \in Flushers :
        /\ fpc[f] = "off"
        /\ fpc' = [fpc EXCEPT ![f] = pc]
        /\ fat' = [fat EXCEPT ![f] = t + 1]

\* Start an idle flush goroutine at pc; a timer goroutine is due at t.
Spawn(pc, t) ==
    \E f \in Flushers :
        /\ fpc[f] = "off"
        /\ fpc' = [fpc EXCEPT ![f] = pc]
        /\ fat' = [fat EXCEPT ![f] = t]

SpawnFlush(pc, t) == Spawn(pc, t) /\ UNCHANGED <<flushing, fhead>>

\* sess.running() for the hub's session: the PTY path of a paste works.
Running == session = "pty"

\* attach: bridge to the live tmux session, or start a fresh agent.
Attach ==
    /\ ~Running
    /\ session' = "pty"
    /\ booted' = (session = "tmux")
    /\ draft' = FALSE
    /\ UNCHANGED awaiting

\* The end of attach: a waiter that flushes when rows are buffered, or when
\* wakes.has could not tell none.
AttachFlushes ==
    \/ /\ IF rows # {} THEN SpawnFlush("wait", 0) ELSE UNCHANGED flushVars
       /\ UNCHANGED faults
    \/ rows # {} /\ Fault /\ UNCHANGED flushVars

\* What awaitingHumanInput answers thread t.  It fails open: when the recorded
\* state cannot be read, or nobody knows yet whose it is, the answer is no.
AsksAwaiting(t, answer) ==
    \/ answer = awaiting /\ late' = late \ {t} /\ UNCHANGED faults
    \/ awaiting /\ answer = FALSE /\ late' = late \cup {t} /\ Fault

-----------------------------------------------------------------------------
(* Callers.  nudgeSession's routing, wakeTask and wakeSharedTask.           *)

CallerGoes(w, pc) == wpc' = [wpc EXCEPT ![w] = pc]

\* running(slug) chooses between the PTY and the shared path.
Nudge(w) ==
    /\ w \notin HeldWakes
    /\ wpc[w] = "new"
    /\ CallerGoes(w, IF Running THEN "draft" ELSE "shared")
    /\ UNCHANGED <<tableVars, flushVars, now, sessionVars, historyVars>>

\* wakeTask: browserDraftActive.
CheckDraft(w) ==
    /\ wpc[w] = "draft"
    /\ CallerGoes(w, IF Running /\ draft THEN "push" ELSE "await")
    /\ UNCHANGED <<tableVars, flushVars, now, sessionVars, historyVars>>

\* wakeTask and wakeSharedTask: awaitingHumanInput.
CheckAwaiting(w) ==
    /\ \E answer \in BOOLEAN :
          /\ AsksAwaiting(w, answer)
          /\ \/ /\ wpc[w] = "await"
                /\ CallerGoes(w, IF answer THEN "push" ELSE "inject")
             \/ /\ wpc[w] = "shared"
                /\ CallerGoes(w, IF answer THEN "sharedpush" ELSE "tmux")
    /\ UNCHANGED <<tableVars, flushVars, now, sessionVars>>
    /\ UNCHANGED <<flushed, lastId>>

\* The INSERT of wakes.push succeeds.
Push(w) ==
    /\ wpc[w] \in {"push", "sharedpush"}
    /\ Insert(w, 0)
    /\ CallerGoes(w, "buffered")
    /\ UNCHANGED <<flushVars, now, sessionVars, historyVars>>

\* It fails: wakeTask and queueWakeAfterRateLimit report the error,
\* wakeSharedTask returns false and nudgeSession falls through.
PushFails(w) ==
    /\ Fault
    /\ \/ wpc[w] = "new" /\ w \in HeldWakes /\ CallerGoes(w, "failed")
       \/ wpc[w] = "push" /\ CallerGoes(w, "failed")
       \/ wpc[w] = "sharedpush" /\ (CallerGoes(w, "failed") \/ CallerGoes(w, "draft"))
    /\ UNCHANGED <<tableVars, flushVars, now, sessionVars>>
    /\ UNCHANGED <<flushed, lastId, late>>

\* injectSharedWake.  With no tmux session nudgeSession refuses (the task is
\* finished, or runs in a terminal flow does not own) or resumes by wakeTask.
InjectShared(w) ==
    /\ wpc[w] = "tmux"
    /\ IF session # "none"
       THEN CallerGoes(w, "sent")
       ELSE CallerGoes(w, "failed") \/ CallerGoes(w, "draft")
    /\ UNCHANGED <<tableVars, flushVars, now, sessionVars, historyVars>>

\* injectWake: sendInput into a running session.
Inject(w) ==
    /\ wpc[w] \in {"inject", "repaste"}
    /\ Running
    /\ CallerGoes(w, "sent")
    /\ UNCHANGED <<tableVars, flushVars, now, sessionVars, historyVars>>

\* injectWake: sendInput failed, so re-attach and paste again.
InjectReattach(w) ==
    /\ wpc[w] = "inject"
    /\ Attach
    /\ CallerGoes(w, "repaste")
    /\ AttachFlushes
    /\ UNCHANGED <<tableVars, now, flushed, lastId, late>>

\* injectWake: attach or the second sendInput fails.
InjectFails(w) ==
    /\ wpc[w] \in {"inject", "repaste"}
    /\ ~Running
    /\ CallerGoes(w, "failed")
    /\ UNCHANGED <<tableVars, flushVars, now, sessionVars, historyVars>>

\* queueWakeAfterRateLimit: pushAfter, then scheduleWakeFlush.
PushHeld(w) ==
    /\ w \in HeldWakes
    /\ wpc[w] = "new"
    /\ \E t \in (now + 1) .. MaxTime : Insert(w, t)
    /\ CallerGoes(w, "arm")
    /\ UNCHANGED <<flushVars, now, sessionVars, historyVars>>

ArmTimer(w) ==
    /\ wpc[w] = "arm"
    /\ SpawnFlush("timer", notBefore[w])
    /\ CallerGoes(w, "buffered")
    /\ UNCHANGED <<tableVars, now, sessionVars, historyVars>>

Arrive(w) == Nudge(w) \/ PushHeld(w)

Proceed(w) ==
    \/ CheckDraft(w) \/ CheckAwaiting(w) \/ Push(w) \/ PushFails(w)
    \/ InjectShared(w) \/ Inject(w) \/ InjectReattach(w) \/ InjectFails(w)
    \/ ArmTimer(w)

Caller(w) == Arrive(w) \/ Proceed(w)

-----------------------------------------------------------------------------
(* flushWakes.                                                              *)

Goes(f, pc) == fpc' = [fpc EXCEPT ![f] = pc]

Step(f, from, to) ==
    /\ fpc[f] = from
    /\ Goes(f, to)
    /\ UNCHANGED <<flushing, fat, fhead>>

NothingElse == UNCHANGED <<tableVars, now, sessionVars, wpc, historyVars>>

\* waitForSessionReady returns on quiescence, on exit, or at its deadline.
WaitReady(f) == Step(f, "wait", "has") /\ NothingElse

FireTimer(f) ==
    /\ fpc[f] = "timer"
    /\ fat[f] <= now
    /\ Goes(f, "has")
    /\ fat' = [fat EXCEPT ![f] = 0]
    /\ UNCHANGED <<flushing, fhead>>
    /\ NothingElse

Has(f) == Step(f, "has", IF rows = {} THEN "off" ELSE "begin") /\ NothingElse

\* wakes.has and wakes.peek take an error for an empty table.
ReadFails(f) ==
    /\ rows # {}
    /\ Fault
    /\ Step(f, "has", "off") \/ Step(f, "peek", "end")
    /\ UNCHANGED <<tableVars, now, sessionVars, wpc, flushed, lastId, late>>

BeginFlush(f) ==
    /\ fpc[f] = "begin"
    /\ IF flushing
       THEN Goes(f, "off") /\ UNCHANGED flushing
       ELSE Goes(f, "draft1") /\ flushing' = TRUE
    /\ UNCHANGED <<fat, fhead>>
    /\ NothingElse

GateDraft(f) ==
    /\ \/ Step(f, "draft1", IF Running /\ draft THEN "end" ELSE "await1")
       \/ Step(f, "draft2", IF Running /\ draft THEN "end" ELSE "route")
    /\ NothingElse

GateAwaiting(f) ==
    /\ \E answer \in BOOLEAN :
          /\ AsksAwaiting(f, answer)
          /\ \/ Step(f, "await1", IF answer THEN "end" ELSE "peek")
             \/ Step(f, "await2", IF answer THEN "end" ELSE "draft2")
    /\ UNCHANGED <<tableVars, now, sessionVars, wpc>>
    /\ UNCHANGED <<flushed, lastId>>

PeekNone(f) == rows = {} /\ Step(f, "peek", "end") /\ NothingElse

\* pendingWakeReady.
Ready(w) == notBefore[w] <= now

Carry(f, w) ==
    /\ fpc[f] = "peek"
    /\ fhead' = [fhead EXCEPT ![f] = w]
    /\ Goes(f, "await2")
    /\ UNCHANGED <<flushing, fat>>

\* Mutant: a peek that deletes.
PeekDeletes(f) ==
    /\ \E w \in rows :
          Oldest(w) /\ Ready(w) /\ Carry(f, w) /\ rows' = rows \ {w}
    /\ UNCHANGED <<rowId, notBefore, nextId, now, sessionVars, wpc, historyVars>>

PeekReady(f) ==
    /\ \E w \in rows : Oldest(w) /\ Ready(w) /\ Carry(f, w)
    /\ NothingElse

\* The oldest row is held: scheduleWakeFlush at its not_before, and stop.
PeekHeld(f) ==
    /\ fpc[f] = "peek"
    /\ \E w \in rows, g \in Flushers :
          /\ Oldest(w)
          /\ ~Ready(w)
          /\ fpc[g] = "off"
          /\ fpc' = [fpc EXCEPT ![g] = "timer", ![f] = "end"]
          /\ fat' = [fat EXCEPT ![g] = notBefore[w]]
    /\ UNCHANGED <<flushing, fhead>>
    /\ NothingElse

\* injectWakeRouted: running(slug) chooses the path.
Route(f) == Step(f, "route", IF Running THEN "paste" ELSE "shared") /\ NothingElse

HandOver(f) ==
    /\ flushed' = [flushed EXCEPT ![fhead[f]] = @ + 1]
    /\ lastId' = rowId[fhead[f]]
    /\ UNCHANGED <<tableVars, now, sessionVars, wpc, faults, late>>

\* injectWake or injectSharedWake reached a live session.
Deliver(f) ==
    /\ \/ Running /\ (Step(f, "paste", "ack") \/ Step(f, "repaste", "ack"))
       \/ session # "none" /\ Step(f, "shared", "ack")
    /\ HandOver(f)

\* injectWake: the session went away after running(slug); re-attach.  The row
\* this goroutine carries is still there, so attach starts a waiter, unless
\* wakes.has fails.
Reattach(f) ==
    /\ fpc[f] = "paste"
    /\ Attach
    /\ \/ /\ \E g \in Flushers :
                /\ fpc[g] = "off"
                /\ fpc' = [fpc EXCEPT ![g] = "wait", ![f] = "repaste"]
          /\ UNCHANGED faults
       \/ Goes(f, "repaste") /\ Fault
    /\ UNCHANGED <<flushing, fat, fhead>>
    /\ UNCHANGED <<tableVars, now, wpc, flushed, lastId, late>>

\* Mutant: a row no session took is acked all the same.
UndeliveredAcked(f) ==
    /\ \/ ~Running /\ (Step(f, "paste", "end") \/ Step(f, "repaste", "end"))
       \/ session = "none" /\ Step(f, "shared", "end")
    /\ rows' = rows \ {fhead[f]}
    /\ UNCHANGED <<rowId, notBefore, nextId, now, sessionVars, wpc, historyVars>>

\* No live session, or attach fails: the row stays for the next attach.
Undelivered(f) ==
    /\ \/ ~Running /\ (Step(f, "paste", "end") \/ Step(f, "repaste", "end"))
       \/ session = "none" /\ Step(f, "shared", "end")
    /\ NothingElse

Acked(f) ==
    /\ fpc[f] = "ack"
    /\ Goes(f, "gap")
    /\ fhead' = [fhead EXCEPT ![f] = NoWake]
    /\ UNCHANGED <<flushing, fat>>

\* Mutant: the row is never deleted.
AckKeepsRow(f) == Acked(f) /\ NothingElse

\* DELETE FROM pending_wakes WHERE id = ?
Ack(f) ==
    /\ Acked(f)
    /\ rows' = rows \ {fhead[f]}
    /\ UNCHANGED <<rowId, notBefore, nextId, now, sessionVars, wpc, historyVars>>

\* The error of AckPendingWake is dropped.
AckFails(f) ==
    /\ Acked(f)
    /\ Fault
    /\ UNCHANGED <<tableVars, now, sessionVars, wpc, flushed, lastId, late>>

\* time.Sleep(wakeFlushGap).
Gap(f) == Step(f, "gap", "draft1") /\ NothingElse

\* Mutant: no deferred endFlush.
EndFlushKeepsGuard(f) ==
    /\ fpc[f] = "end"
    /\ fhead' = [fhead EXCEPT ![f] = NoWake]
    /\ Goes(f, "off")
    /\ UNCHANGED <<flushing, fat>>
    /\ NothingElse

EndFlush(f) ==
    /\ fpc[f] = "end"
    /\ flushing' = FALSE
    /\ fhead' = [fhead EXCEPT ![f] = NoWake]
    /\ Goes(f, "off")
    /\ UNCHANGED fat
    /\ NothingElse

Flush(f) ==
    \/ WaitReady(f) \/ FireTimer(f) \/ Has(f) \/ ReadFails(f) \/ BeginFlush(f)
    \/ GateDraft(f) \/ GateAwaiting(f)
    \/ PeekNone(f) \/ PeekReady(f) \/ PeekHeld(f) \/ Route(f)
    \/ Deliver(f) \/ Reattach(f) \/ Undelivered(f)
    \/ Ack(f) \/ AckFails(f) \/ Gap(f) \/ EndFlush(f)

-----------------------------------------------------------------------------
(* The agent, the operator, the clock and the server process.               *)

\* A permission or question hook was recorded: gates read before are stale.
AgentAsks ==
    /\ session # "none"
    /\ awaiting' = TRUE
    /\ late' = late \cup {f \in Flushers : fpc[f] \in FlusherPasting \cup {"draft2"}}
                    \cup {w \in Wakes : wpc[w] \in CallerPasting}
    /\ UNCHANGED <<tableVars, flushVars, now, session, booted, draft, wpc>>
    /\ UNCHANGED <<flushed, lastId, faults>>

\* Any other runtime hook: recorded unless its seq is stale, then flushWakes.
AgentMoves ==
    /\ session # "none"
    /\ \E applied \in BOOLEAN : awaiting' = IF applied THEN FALSE ELSE awaiting
    /\ SpawnFlush("has", 0)
    /\ UNCHANGED <<tableVars, now, session, booted, draft, wpc, historyVars>>

OperatorTypes ==
    /\ Running
    /\ ~draft
    /\ draft' = TRUE
    /\ UNCHANGED <<tableVars, flushVars, now, session, booted, awaiting, wpc, historyVars>>

\* Submitting or deleting the draft schedules a flush 250ms later.
OperatorClears ==
    /\ Running
    /\ draft
    /\ draft' = FALSE
    /\ SpawnFlush("timer", now)
    /\ UNCHANGED <<tableVars, now, session, booted, awaiting, wpc, historyVars>>

BrowserAttaches ==
    /\ Attach
    /\ AttachFlushes
    /\ UNCHANGED <<tableVars, now, wpc, flushed, lastId, late>>

AgentBoots ==
    /\ session # "none"
    /\ ~booted
    /\ booted' = TRUE
    /\ UNCHANGED <<tableVars, flushVars, now, session, awaiting, draft, wpc, historyVars>>

\* The bridge dies and the agent stays in tmux, or the agent exits.  The
\* recorded runtime state outlives it.
SessionEnds ==
    /\ \/ session = "pty" /\ session' = "tmux" /\ UNCHANGED booted
       \/ session # "none" /\ session' = "none" /\ booted' = FALSE
    /\ draft' = FALSE
    /\ UNCHANGED <<tableVars, flushVars, now, awaiting, wpc, historyVars>>

Tick ==
    /\ now < MaxTime
    /\ now' = now + 1
    /\ UNCHANGED <<tableVars, flushVars, sessionVars, wpc, historyVars>>

\* `flow ui serve` restarts: goroutines, timers and the guard are lost, tmux
\* and the database are not; resumeBufferedWakes flushes what is buffered, if
\* it can read it.
Restart ==
    /\ Fault
    /\ flushing' = FALSE
    /\ fhead' = [f \in Flushers |-> NoWake]
    /\ fat' = [f \in Flushers |-> 0]
    /\ \E f \in Flushers, found \in BOOLEAN :
          fpc' = [g \in Flushers |->
                    IF g = f /\ found /\ rows # {} THEN "has" ELSE "off"]
    /\ session' = IF session = "none" THEN "none" ELSE "tmux"
    /\ draft' = FALSE
    /\ wpc' = [w \in Wakes |->
                 IF wpc[w] = "arm" THEN "buffered"
                 ELSE IF wpc[w] \in Returned \cup {"new"} THEN wpc[w] ELSE "failed"]
    /\ late' = {}
    /\ UNCHANGED <<tableVars, now, booted, awaiting, flushed, lastId>>

Environment ==
    \/ AgentAsks \/ AgentMoves \/ OperatorTypes \/ OperatorClears
    \/ BrowserAttaches \/ AgentBoots \/ SessionEnds \/ Tick \/ Restart

Next ==
    \/ \E w \in Wakes : Caller(w)
    \/ \E f \in Flushers : Flush(f)
    \/ Environment

Spec == Init /\ [][Next]_vars

\* Goroutines run, timers fire and clocks advance; nothing else is promised.
Fairness ==
    /\ \A w \in Wakes : WF_vars(Proceed(w))
    /\ \A f \in Flushers : WF_vars(Flush(f))
    /\ WF_vars(Tick)

FairSpec == Spec /\ Fairness

-----------------------------------------------------------------------------
(* Properties.                                                              *)

TypeOK ==
    /\ rows \subseteq Wakes
    /\ rowId \in [Wakes -> Nat]
    /\ notBefore \in [Wakes -> 0 .. MaxTime]
    /\ nextId \in Nat \ {0}
    /\ flushing \in BOOLEAN
    /\ fpc \in [Flushers -> FlusherPcs]
    /\ fat \in [Flushers -> 0 .. MaxTime]
    /\ fhead \in [Flushers -> Wakes \cup {NoWake}]
    /\ now \in 0 .. MaxTime
    /\ session \in {"none", "tmux", "pty"}
    /\ booted \in BOOLEAN
    /\ awaiting \in BOOLEAN
    /\ draft \in BOOLEAN
    /\ wpc \in [Wakes -> CallerPcs]
    /\ flushed \in [Wakes -> Nat]
    /\ lastId \in Nat
    /\ faults \in 0 .. MaxFaults
    /\ late \subseteq Flushers \cup Wakes

\* "buffered pastes are delivered serially and never interleave on the PTY"
\* (wake_queue.go): at most one goroutine is between beginFlush and endFlush,
\* and the guard is up exactly while one is.
FlushExclusive ==
    /\ \A f, g \in Flushers : fpc[f] \in Owning /\ fpc[g] \in Owning => f = g
    /\ flushing <=> \E f \in Flushers : fpc[f] \in Owning

\* The row a flush peeked is, until it is acked, still in the table and still
\* the oldest: no insert, redelivery or other flusher gets in front of it, so
\* the id that is acked is the id whose prompt was pasted.
CarriesOldest ==
    \A f \in Flushers : fpc[f] \in Carrying => Oldest(fhead[f])

\* A prompt whose caller was told it is buffered is in the table or has been
\* handed to the agent, through crashes and failed writes (peek is
\* non-destructive, ack follows the paste).
NoAcceptedWakeLost ==
    \A w \in Wakes : wpc[w] \in {"arm", "buffered"} => w \in rows \/ flushed[w] > 0

\* Delivery is at least once, and a prompt is pasted again only as often as a
\* restart or a failed DELETE fell between its paste and its ack.
RedeliveryBounded == \A w \in Wakes : flushed[w] <= 1 + faults

\* A prompt held for a provider reset is not on its way to the agent before
\* its not_before, whatever triggered the flush.
HoldRespected ==
    \A f \in Flushers : fpc[f] \in Carrying => Ready(fhead[f])

\* What the two gate reads buy: a goroutine about to paste into a session that
\* waits for its operator read the gate before the question was asked, or could
\* not read it (awaitingHumanInput fails open).  Both windows are real, see
\* PromptInput.
GateWindow ==
    awaiting =>
        /\ \A f \in Flushers : fpc[f] \in FlusherPasting => f \in late
        /\ \A w \in Wakes : wpc[w] \in CallerPasting => w \in late

\* FIFO by id: a flush never hands over a prompt older than the one before it.
FlushInOrder ==
    [][\A w \in Wakes : flushed'[w] # flushed[w] => rowId[w] >= lastId]_vars

Buffer == INSTANCE FifoBuffer WITH
    Items <- Wakes, pending <- rows, arrival <- rowId,
    handed <- {v \in Wakes : flushed[v] > 0}

\* The table, its flush guard and their callers implement the abstract buffer.
ImplementsBuffer == Buffer!Spec

\* A live session, attached or detached for good, that waits for no operator.
Settled ==
    /\ <>[](session = "pty") \/ <>[](session = "tmux")
    /\ <>[](~awaiting /\ ~draft)

\* When the session settles its buffer drains, as long as hooks keep coming.
RedeliveredOnceFree == Settled => []<>(rows = {})

\* "re-delivered once the session leaves the human-input wait" (wakeTask), for
\* the plainest session there is: one tmux session nobody attaches to.  It does not
\* hold: the gate is read before the push, and the trigger may run in between.
RedeliveredAfterWait ==
    [](session = "tmux") /\ <>[]~awaiting => []<>(rows = {})

\* Fairness under which that holds: the agent keeps reporting hooks.
HookFairSpec == FairSpec /\ SF_vars(AgentMoves)
===============================================================================
