----------------------------- MODULE PausedSession -----------------------------
(***************************************************************************)
(* Pausing one task: server/actions.go, task_monitor.go and the tables     *)
(* paused_sessions and paused_session_queue of flowdb.  A pause stops the  *)
(* session and then writes the paused row.  A nudge or an inbox event that *)
(* finds the row while nothing seems to run queues its prompt; a launch,   *)
(* or anybody who finds the row while the session is live, moves the queue *)
(* to pending_wakes and then deletes the row.  Whether the session is live *)
(* is answered from the hub, from tmux and from a cached ps snapshot.      *)
(*                                                                         *)
(* Every thread runs taskManuallyPausedByID step by step: the snapshot of  *)
(* the UI, the pause itself (to answer its caller), nudges and events.     *)
(***************************************************************************)
EXTENDS Integers, Sequences, FiniteSets

CONSTANTS
    Nudges,       \* prompts brought by nudgeSession, one caller each
    Events,       \* prompts brought by deliverInboxEvents
    MaxPauses,    \* bound: pauses asked for
    MaxFaults     \* bound: failed reads and writes and server restarts

Callers == Nudges \cup Events
Threads == Callers \cup {"ui", "pause", "launch"}

ASSUME PausedSessionAssumption ==
    /\ Nudges \cap Events = {}
    /\ Callers \cap {"ui", "pause", "launch"} = {}
    /\ MaxPauses \in Nat /\ MaxFaults \in Nat

VARIABLES
    pausedRow,    \* paused_sessions has the task's row
    queue,        \* paused_session_queue, by id
    wakes,        \* the rows the move put into pending_wakes, by id
    session,      \* "pty": attached in the hub; "tmux": detached; "none"
    psLive,       \* the cached ps snapshot lists the session
    flush,        \* of pending_wakes: "off", "on", "pasted": its head, not acked yet
    pc,           \* where each thread is; "done": its call ended without queueing
    pauses,       \* pauses asked for so far
    faults,       \* failed reads, writes and restarts so far
    accepted,     \* history: the prompts that were queued, in order
    tries,        \* history: how often the head of wakes has been pasted
    delivered     \* history: the prompts pasted and acked, in order

vars == <<pausedRow, queue, wakes, session, psLive, flush, pc, pauses,
          faults, accepted, tries, delivered>>
dbVars == <<pausedRow, queue, wakes, accepted>>
envVars == <<session, psLive>>
boundVars == <<pauses, faults>>
handVars == <<tries, delivered>>

Init ==
    /\ pausedRow = FALSE
    /\ queue = <<>> /\ wakes = <<>>
    /\ session \in {"none", "tmux", "pty"}
    /\ psLive = (session # "none")
    /\ flush = "off"
    /\ pc = [t \in Threads |-> IF t \in Callers THEN "new" ELSE "idle"]
    /\ pauses = 0 /\ faults = 0
    /\ accepted = <<>> /\ tries = 0 /\ delivered = <<>>

\* A restart, or a read or write of the database that returns an error.
Fault == faults < MaxFaults /\ faults' = faults + 1

Live == session # "none"
Goto(t, l) == pc' = [pc EXCEPT ![t] = l]

-----------------------------------------------------------------------------
(* taskManuallyPausedByID.                                                  *)

\* Mutant: every thread that finds the row queues.
AfterQueues(t, paused) ==
    IF paused THEN "queue" ELSE IF t \notin Callers THEN "idle" ELSE "route"

\* Where a thread goes with the verdict.
After(t, paused) ==
    IF t \notin Callers THEN "idle" ELSE IF paused THEN "queue" ELSE "route"

\* A read that fails counts as no row.
GetPausedSession(t) ==
    /\ pc[t] = "row"
    /\ \/ /\ Goto(t, IF pausedRow THEN "live" ELSE After(t, FALSE))
          /\ UNCHANGED faults
       \/ pausedRow /\ Fault /\ Goto(t, After(t, FALSE))
    /\ UNCHANGED <<dbVars, envVars, flush, pauses, handVars>>

\* Mutant: a live session keeps its row; only launches clear it.
CheckLiveOnly(t) ==
    /\ pc[t] = "live"
    /\ psLive' \in {psLive, Live}
    /\ Goto(t, After(t, ~(Live \/ psLive')))
    /\ UNCHANGED <<dbVars, session, flush, boundVars, handVars>>

\* taskSessionLive: hub and tmux first, then the snapshot, rebuilt or cached.
\* When tmux or ps cannot be asked the session counts as gone.
CheckLive(t) ==
    /\ pc[t] = "live"
    /\ \/ /\ psLive' \in {psLive, Live}
          /\ Goto(t, IF Live \/ psLive' THEN "move" ELSE After(t, TRUE))
          /\ UNCHANGED faults
       \/ /\ session # "pty"
          /\ Fault
          /\ Goto(t, After(t, TRUE))
          /\ UNCHANGED psLive
    /\ UNCHANGED <<dbVars, session, flush, pauses, handVars>>

-----------------------------------------------------------------------------
(* clearTaskPause, in a check and after a launch.                           *)

\* Move in one transaction, then delete the row.  A moved queue is flushed.
Move(t) ==
    /\ pc[t] \in {"move", "lmove"}
    /\ wakes' = wakes \o queue
    /\ queue' = <<>>
    /\ Goto(t, CASE pc[t] = "lmove" /\ queue = <<>> -> "lclear"
                 [] pc[t] = "lmove" /\ queue # <<>> -> "lclearmoved"
                 [] pc[t] = "move" /\ queue = <<>> -> "clear"
                 [] OTHER -> "clearmoved")
    /\ UNCHANGED <<pausedRow, accepted, envVars, flush, boundVars, handVars>>

\* Where a thread goes once clearTaskPause has returned.  A nudge that launched
\* pastes its own prompt (wakeTask after its attach) and is done.
Cleared(t) ==
    IF pc[t] \in {"move", "clear", "clearmoved"} THEN After(t, FALSE)
    ELSE IF t \in Callers THEN "done" ELSE "idle"

\* Another writer got in between: the transaction fails, the row is kept.
MoveFails(t) ==
    /\ pc[t] \in {"move", "lmove"}
    /\ Fault
    /\ Goto(t, Cleared(t))
    /\ UNCHANGED <<dbVars, envVars, flush, pauses, handVars>>

\* An attach flushes when the table already held rows, too.
FlushWanted(t) ==
    \/ pc[t] \in {"clearmoved", "lclearmoved"}
    \/ pc[t] = "lclear" /\ session = "pty" /\ wakes # <<>>

\* flushWakes: nothing to do without a row, and one that meets the guard up leaves
\* the draining to its owner.
StartFlush == flush' = IF flush = "off" /\ wakes # <<>> THEN "on" ELSE flush

\* Mutant: clearing the pause clears its queue as well.
ClearCascades(t) ==
    /\ pc[t] \in {"clear", "clearmoved", "lclear", "lclearmoved"}
    /\ pausedRow' = FALSE
    /\ queue' = <<>>
    /\ IF FlushWanted(t) THEN StartFlush ELSE UNCHANGED flush
    /\ Goto(t, Cleared(t))
    /\ UNCHANGED <<wakes, accepted, envVars, boundVars, handVars>>

\* DELETE FROM paused_sessions; its error is dropped.
Clear(t) ==
    /\ pc[t] \in {"clear", "clearmoved", "lclear", "lclearmoved"}
    /\ \/ pausedRow' = FALSE /\ UNCHANGED faults
       \/ Fault /\ UNCHANGED pausedRow
    /\ IF FlushWanted(t) THEN StartFlush ELSE UNCHANGED flush
    /\ Goto(t, Cleared(t))
    /\ UNCHANGED <<queue, wakes, accepted, envVars, pauses, handVars>>

-----------------------------------------------------------------------------
(* Callers.                                                                 *)

Call(t) ==
    /\ t \in Callers
    /\ pc[t] = "new"
    /\ Goto(t, "row")
    /\ UNCHANGED <<dbVars, envVars, flush, boundVars, handVars>>

\* EnqueuePausedSessionInput, on the verdict of the check.  An event looks at
\* the hub once more and is injected when the session is attached.
Enqueue(t) ==
    /\ pc[t] = "queue"
    /\ t \in Events => session # "pty"
    /\ queue' = Append(queue, t)
    /\ accepted' = Append(accepted, t)
    /\ Goto(t, "queued")
    /\ UNCHANGED <<pausedRow, wakes, envVars, flush, boundVars, handVars>>

\* Its INSERT fails: the caller is told, or the event stays in the inbox.
EnqueueFails(t) ==
    /\ pc[t] = "queue"
    /\ t \in Events => session # "pty"
    /\ Fault
    /\ Goto(t, "done")
    /\ UNCHANGED <<dbVars, envVars, flush, pauses, handVars>>

\* A live session gets the prompt (see WakeQueue).  A nudge starts a dead one,
\* unless the snapshot still lists it: then it is refused.  An event stays in
\* the inbox: the bridge it asks for starts nothing.
Route(t) ==
    \/ /\ pc[t] = "queue" /\ t \in Events /\ session = "pty"
       /\ Goto(t, "done")
       /\ UNCHANGED psLive
    \/ /\ pc[t] = "route"
       /\ IF Live THEN Goto(t, "done") /\ UNCHANGED psLive
          ELSE /\ psLive' \in {psLive, Live}
               /\ Goto(t, IF t \in Nudges /\ ~psLive' THEN "launch" ELSE "done")

CallerRoutes(t) ==
    /\ Route(t)
    /\ UNCHANGED <<dbVars, session, flush, boundVars, handVars>>

-----------------------------------------------------------------------------
(* The pause, the launch, the UI snapshot.                                  *)

Ask(t) ==
    /\ pc[t] = "idle"
    /\ CASE t = "ui" -> Goto(t, "row") /\ UNCHANGED pauses
         [] t = "launch" -> Goto(t, "launch") /\ UNCHANGED pauses
         [] t = "pause" -> /\ pauses < MaxPauses
                           /\ pauses' = pauses + 1
                           /\ Goto(t, "stop")
         [] OTHER -> FALSE
    /\ UNCHANGED <<dbVars, envVars, flush, faults, handVars>>

\* terminals.stop: the hub entry and the tmux session go, or the pause is
\* refused; ps is not re-read.
Stop ==
    /\ pc["pause"] = "stop"
    /\ \/ session' = "none" /\ Goto("pause", "mark") /\ UNCHANGED faults
       \/ Fault /\ Goto("pause", "idle") /\ UNCHANGED session
    /\ UNCHANGED <<dbVars, psLive, flush, pauses, handVars>>

\* markTaskPaused, then agentForTask, whose check decides what is answered.
Mark ==
    /\ pc["pause"] = "mark"
    /\ \/ pausedRow' = TRUE /\ UNCHANGED faults
       \/ Fault /\ UNCHANGED pausedRow
    /\ Goto("pause", "row")
    /\ UNCHANGED <<queue, wakes, accepted, envVars, flush, pauses, handVars>>

\* attach, or a native or background launch; markLaunchResumed follows.
Launch(t) ==
    /\ pc[t] = "launch"
    /\ session' \in IF session = "pty" \/ t \in Callers THEN {"pty"}
                    ELSE {"tmux", "pty"}
    /\ Goto(t, "lmove")
    /\ UNCHANGED <<dbVars, psLive, flush, boundVars, handVars>>

-----------------------------------------------------------------------------
(* The environment.                                                         *)

\* The flusher pastes the oldest row into the live session ...
Paste ==
    /\ flush = "on"
    /\ Live
    /\ wakes # <<>>
    /\ tries' = tries + 1
    /\ flush' = "pasted"
    /\ UNCHANGED <<dbVars, envVars, pc, boundVars, delivered>>

\* ... and then deletes it.
Ack ==
    /\ flush = "pasted"
    /\ delivered' = Append(delivered, Head(wakes))
    /\ wakes' = Tail(wakes)
    /\ tries' = 0
    /\ flush' = "on"
    /\ UNCHANGED <<pausedRow, queue, accepted, envVars, pc, boundVars>>

\* The error of AckPendingWake is dropped: the row is the oldest again.
AckFails ==
    /\ flush = "pasted"
    /\ Fault
    /\ flush' = "on"
    /\ UNCHANGED <<dbVars, envVars, pc, pauses, handVars>>

\* Nothing to hand over, no live session, or a gate of WakeQueue.
FlushEnds ==
    /\ flush = "on"
    /\ flush' = "off"
    /\ UNCHANGED <<dbVars, envVars, pc, boundVars, handVars>>

\* Any hook of the agent starts a flush.
Hook ==
    /\ Live
    /\ StartFlush
    /\ UNCHANGED <<dbVars, envVars, pc, boundVars, handVars>>

PsExpires ==
    /\ psLive' = Live
    /\ UNCHANGED <<dbVars, session, flush, pc, boundVars, handVars>>

SessionEnds ==
    /\ Live
    /\ session' = "none"
    /\ UNCHANGED <<dbVars, psLive, flush, pc, boundVars, handVars>>

\* The server restarts: threads end, tmux sessions survive, boot flushes.
Restart ==
    /\ Fault
    /\ session' = IF Live THEN "tmux" ELSE "none"
    /\ psLive' = Live
    /\ flush' \in {"off", IF wakes = <<>> THEN "off" ELSE "on"}
    /\ pc' = [t \in Threads |->
                IF t \notin Callers THEN "idle"
                ELSE IF pc[t] \in {"new", "queued"} THEN pc[t]
                ELSE "done"]
    /\ UNCHANGED <<dbVars, pauses, handVars>>

Proceed(t) ==
    \/ GetPausedSession(t) \/ CheckLive(t)
    \/ Move(t) \/ MoveFails(t) \/ Clear(t)
    \/ Enqueue(t) \/ EnqueueFails(t) \/ CallerRoutes(t) \/ Launch(t)
    \/ t = "pause" /\ (Stop \/ Mark)

Next ==
    \/ \E t \in Threads : Call(t) \/ Ask(t) \/ Proceed(t)
    \/ Paste \/ Ack \/ AckFails \/ FlushEnds
    \/ Hook \/ PsExpires \/ SessionEnds \/ Restart

Spec == Init /\ [][Next]_vars

\* The UI is polled and its snapshot's check runs on; nobody else is assumed to.
Poll == Ask("ui") \/ Proceed("ui")

FairSpec == Spec /\ WF_vars(Poll)

-----------------------------------------------------------------------------
(* Properties.                                                              *)

CheckPcs == {"row", "live", "move", "clear", "clearmoved"}
LaunchPcs == {"launch", "lmove", "lclear", "lclearmoved"}
CallerPcs == CheckPcs \cup LaunchPcs \cup
             {"new", "queue", "route", "queued", "done"}
ServicePcs == CheckPcs \cup LaunchPcs \cup {"idle", "stop", "mark"}

\* Every variable keeps its type, and the bounds hold.
TypeOK ==
    /\ pausedRow \in BOOLEAN /\ psLive \in BOOLEAN
    /\ flush \in {"off", "on", "pasted"} /\ tries \in Nat
    /\ queue \in Seq(Callers) /\ wakes \in Seq(Callers)
    /\ accepted \in Seq(Callers) /\ delivered \in Seq(Callers)
    /\ session \in {"none", "tmux", "pty"}
    /\ pc \in [Threads -> CallerPcs \cup ServicePcs]
    /\ \A t \in Threads \ Callers : pc[t] \in ServicePcs
    /\ pauses \in 0..MaxPauses /\ faults \in 0..MaxFaults

\* The two tables are one FIFO.  Whatever pauses, launches, polls, failed
\* writes and restarts do to the row and to the move, a prompt that was
\* answered "Queued instruction" (actions.go:416) was pasted and acked, in the
\* order of the answers, or is still in one of the two tables.
PausedFifo == accepted = delivered \o wakes \o queue

\* A caller is answered "Queued instruction" once: its thread is over with it, and
\* no restart brings the call back.
QueuedOnce ==
    \A t \in Callers : (\E k \in DOMAIN accepted : accepted[k] = t) => pc[t] = "queued"

\* A prompt that is pasted has been pasted at least once, and was pasted before
\* only as often as a crash or a failed delete kept it in the table.
TriesPaid ==
    IF flush = "pasted" THEN wakes # <<>> /\ tries \in 1..faults + 1
    ELSE tries <= faults

HeldPrompts == INSTANCE HeldQueue WITH
    Items <- Callers, held <- wakes \o queue, taken <- delivered, mishaps <- faults

\* The row, the two tables and the flush implement the abstract queue: a prompt is
\* accepted once, the move from one table to the other is not seen, nothing is
\* handed over but the oldest, it is done with only after that, and it is handed
\* over again only when a crash or a failed delete came between paste and ack
\* (MovePausedSessionInputsToPendingWakes is one transaction; flushWakes is not).
ImplementsQueue == HeldPrompts!Spec

\* A row left over beside a live session (a pause that lost a race with a
\* launch, a delete that failed, a restart between move and delete) is cleared
\* by the next poll of the UI (taskManuallyPausedByID), or the session ends.
StaleRowClears == [](pausedRow /\ Live => <>(~pausedRow \/ ~Live))
=============================================================================
