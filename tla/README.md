# Verification of flow

`flow` runs coding agents (Claude, Codex) in terminal sessions, one per task, and keeps a server
(`flow ui serve`) that feeds them: Slack and GitHub events, nudges from the browser, messages from
other tasks, scheduled ticks. This directory models in TLA+ how work reaches an agent and how its
results reach a screen: which messages are looked at, what becomes of the cards made of them, whether,
when and in which order a prompt is pasted, and who may stop or start a session meanwhile. The models are
checked with TLC; the safety properties of all of them are proved with TLAPS.

Everything is translated from the Go code. Paths below are relative to `src/internal/`.

## 1. Inventory

What the repository consists of, the state each part keeps, and what makes it hard. `M` marks the
parts modelled, `p` the ones modelled in part.

| | Part | State | Operations | What is hard, and what must hold |
|---|---|---|---|---|
| M | Wake queue (`server/terminal_wake.go`, `server/wake_queue.go`, `flowdb/pending_wakes.go`) | table `pending_wakes`; in-memory guard per task; timers | `wakeTask`, `wakeSharedTask`, `queueWakeAfterRateLimit`, `flushWakes`, `resumeBufferedWakes` | Callers, flushers, hooks and timers interleave between database reads; restarts. FIFO, at least once, one drainer, nothing behind the agent's open question. |
| M | Pause and resume (`server/actions.go`, `server/task_monitor.go`, `flowdb/paused_sessions.go`, `app/do.go`) | `paused_sessions`, `paused_session_queue`; cached `ps` snapshot | `markTaskPaused`, `taskManuallyPausedByID`, `clearTaskPause`, launches | The row and the session are two facts written apart; every read repairs. Queued prompts keep their order and are not lost. |
| M | Rate-limit queue (`server/provider_rate_limit.go`, `flowdb/rate_limit_queue.go`) | table `rate_limit_queue`; one timer variable; a drain mutex | `HoldSlackEvent`, `HoldGitHubEvent`, `enqueueOpenTaskAfter`, `drainRateLimitQueue`, recheck, dismiss | Clearing the timer variable stops no timer. A held action is replayed, once, in order. |
| p | Inbox monitor (`monitor/inbox_monitor.go`, `monitor/inbox.go`, `server/inbox_monitor_manager.go`, `server/inbox_notify.go`, `server/task_monitor.go`, `server/inbox_wake.go`) | `inbox.jsonl`, a cursor file, one goroutine per task | append, seed, `ScanOnce`, deliver, `stop`, `/api/inbox/notify` | Several scanners, one cursor file, no lock. No event is skipped. |
| p | Prompt input (`server/terminal_wake.go`, `server/terminal_session.go`, `server/terminal_bridge.go`, `server/agent_hooks.go`, `flowdb/agent_runtime.go`) | the agent's input box, the browser-draft counter, the runtime row | paste, Enter, second Enter, keystrokes, hooks | Several writers on one PTY; timing. No prompt stranded, no draft submitted, no question answered by a wake. |
| p | Attention cards (`server/attention*.go`, `flowdb/attention*.go`, `steering/surface.go`, `steering/actions.go`, `app/attention.go`) | `attention_feed`, `steering_mutes`, `attention_handoffs` | surface, act, dismiss, merge, re-triage, auto-act, capture, hand off | Lookup-then-write without a transaction; decisions on stale copies; writes by id that ignore the status. One card per thread, an answer stands, a message forwarded once. |
| p | Steering cascade (`steering/cascade.go`, `steering/backfill.go`, `flowdb/steering*.go`) | watermark per channel, verdict cache in memory, durable traces | observe, observe a batch, sweep | Live delivery and sweep meet on one message; the sweep dies half-way. No message unseen, none delivered twice. |
| p | Steerer sessions (`server/steerer_session.go`, `server/steerer_compact.go`) | a chats row, a tmux agent, a bridge, a mutex per slot | deliver, approve, correct, switch provider, sweep, delete, reconcile | Some paths take the mutex, some do not; start and id capture are asynchronous. The row names the agent that runs; working sessions are not put to sleep. |
| M | Owner ticks (`app/owner_tick.go`, `app/owner.go`, `server/owner_scheduler.go`, `flowdb/owners.go`) | `owners.next_wake_at`, `tick_pid`, `tick_started` | tick-due, tick, begin, finish, show, pause, start, next | The guard is read, the tick launched, then recorded; pids are reused. One tick at a time; a due owner is ticked. |
| p | Events and views (`server/events_hub.go`, `server/events.go`, `server/db_watcher.go`, `server/cache.go`, `server/ui/src/lib/events.ts`) | subscribers with bounded channels, a stale-while-revalidate cache | publish, subscribe, rebuild, refetch | Dropped events, closed channels, builds that end late or fail. A stream shows every change. |
| p | Headless runs (`app/auto.go`, `app/do.go`, readers in `app/list.go`, `app/show.go`, `server/terminal_launch.go`) | `tasks.status`, `session_provider`, `session_id`, `auto_run_status`, `auto_run_pid`; detached supervisors | guard, claim, launch, record, roll back, retry at the other provider, finalize, reconcile | Launcher, supervisor and readers share one row and no lock; the record comes after the launch, pids are reused. A row names its live supervisor. |
| p | Playbook scheduler (`server/playbook_scheduler.go`, `app/playbook_schedule.go`, `flowdb/db.go`) | `playbooks.schedule_spec`, `schedule_paused_at`, `next_fire_at` | tick-due, fire, skip, record, hold, set, resume, pause, clear | Two dispatchers, the operator and the runs write one row. Runs do not overlap, a quiet schedule starts none, an armed one goes on firing. |
| | Outbound Slack gate (`server/slack_gate.go`, `flowdb/pending_sends.go`) | `pending_sends` | queue, decide | See section 6. |
| | Terminals (`server/terminal_hub.go`, `terminal_launch.go`, ...) | hub of PTY bridges, tmux sessions | attach, stop, input | What the wake path needs is in the models; the byte stream is I/O. |
| | Slack and GitHub connectors (`monitor/`) | listeners, reconnect backfill | dispatch, append | Their appends are InboxMonitor's, their messages SteeringCascade's. |
| | Task commands, chats, links, database, backup, knowledge jobs, worktrees, terminal drivers, remote access, setup, views, web interface | rows, files | mostly one statement, or I/O | `PROJECT.json` says for each why it is not modelled. |

### How the modelled parts interact

```
 Slack / GitHub --> RateLimitQueue (held while the provider is limited)
       |                  | replay
       |                  v
       |        SteeringCascade (live + sweep) --> SteererSession (the channel's agent)
       |                  | surfaces                     | surfaces
       |                  v                              v
       |             AttentionCard  (operator, auto-act, agents, handoffs)
       v                  | forward
   inbox.jsonl <----------+
       |
       v
  InboxMonitor --> deliverInboxEvents --+--> PausedSession (row, queue)
                                        |          | move to pending_wakes
  browser nudge --> nudgeSession -------+          v
                                        +--> WakeQueue (pending_wakes, flush)
  OwnerTick --> a detached agent                   | paste
  PlaybookSchedule --> AutoRun: a detached run     |
                                                   v
                                             PromptInput (box, Enter) --> agent

  every write --> LiveView: hub, streams, cache, page
```

The parts share the database and the terminal hub, and call each other in goroutines. SQLite makes one
statement or one transaction atomic and nothing more; that is all the models take from it. Each
module stands for one task (one channel, one owner, one thread) and abstracts its neighbours to what can be seen of
them: WakeQueue sees a paste as one step, PromptInput opens it up; PausedSession sees of a flush the paste of the
oldest row and its ack, and none of the gates and timers that WakeQueue shows; InboxMonitor sees a delivery that succeeds or fails;
SteeringCascade sees a delivery to the session and a write to the feed, SteererSession and AttentionCard open them up.

## 2. The modules

| Module | What it is |
|---|---|
| `FifoBuffer` | abstract specification: a buffer that hands its oldest item over at least once before it forgets it |
| `HeldQueue` | abstract specification: a queue that accepts a prompt once, holds it, and forgets it once it has handed it over, the oldest first; it hands the oldest over again only after a mishap |
| `CursorLog` | abstract specification: a durable cursor over a growing log, which is moved past nothing that is due and not settled |
| `WakeQueue`, `MCWakeQueue`, `WakeQueueProofs` | the wake path of one task |
| `PausedSession`, `MCPausedSession` | pause, resume and the paused queue of one task |
| `RateLimitQueue`, `MCRateLimitQueue` | automatic actions held for a provider reset |
| `HeldWorkProofs` | the proofs about both queues: RateLimitQueue's, and through an instance PausedSession's |
| `InboxMonitor`, `MCInboxMonitor` | the inbox file, its cursor and the scanners of one task |
| `PromptInput`, `MCPromptInput`, `PromptInputProofs` | the agent's input box |
| `AttentionCard`, `MCAttentionCard`, `AttentionCardProofs` | the cards of a thread, who writes them and what an action on them does |
| `SteeringCascade`, `MCSteeringCascade`, `SteeringCascadeProofs` | one channel's messages on their way to a verdict, live and by the sweep |
| `OwnerTick`, `MCOwnerTick` | one owner's row and the detached ticks it names |
| `SteererSession`, `MCSteererSession`, `SteererSessionProofs` | the agent session of one channel |
| `LiveView`, `MCLiveView` | from a change to the screens |
| `NoticeProofs` | the proofs about who is told: InboxMonitor's, and through an instance LiveView's |
| `AutoRun` | headless runs of tasks: launchers, supervisors, readers (steps only; it has no specification of its own) |
| `PlaybookSchedule`, `MCPlaybookSchedule` | composes AutoRun with the schedule of one playbook, its two tick-dues, the operator and the clock |
| `ScheduleProofs` | the proofs about both schedules: PlaybookSchedule's, and through an instance OwnerTick's |

All of them follow the same conventions. A goroutine, a timer or a request handler is a member of a
constant set with a program counter (`pc`, `fpc`, `op[a].pc`, ...); each critical section (one SQL
statement, one locked region, one file operation) is one action; what lies between two of them
can be overtaken by anybody. Variables marked *history* record what happened and steer nothing.
Operators commented *mutant* are never part of `Next`: each is a definition with a plausible defect
(a dropped guard, a swapped order, a missing reset) that some property must reject.

Several properties name an exception through a history variable (`overlap`, `raced`, `missed`, `stray`, `lost`, `late`, `odd`, `overruled`) or a
counter (`misread`, `lapses`). These are the windows the code really leaves open, among them the reads and writes whose error the code
drops; each is set by the named step alone, so that the property still
speaks of every state such a step has not touched.

### WakeQueue

State: `rows`, `rowId`, `notBefore`, `nextId` are the table; `flushing` is `wakeQueue.flushing[slug]`;
`session` is `"pty"` (attached in the hub), `"tmux"` (alive, detached) or `"none"`; `booted` says the
agent reads its input; `awaiting` is the recorded runtime state as `AwaitingHumanInput` reads it; `draft`
is the browser draft of the attached session. A caller walks `nudgeSession`'s choice between the PTY and
the shared tmux path, the gates of `wakeTask`/`wakeSharedTask`, and then pastes or pushes. A flusher
walks `flushWakes`: wait for readiness or a timer, `has`, `beginFlush`, draft, await, `peek`, await,
draft, route, paste, `ack`, gap, and around again. A gate that cannot read the runtime state lets the prompt
pass (`awaitingHumanInput` fails open): that read is a fault, and its thread is `late`. `Restart` kills the goroutines, timers and the
guard, keeps tmux and the database, and flushes what is buffered.

`ImplementsBuffer` maps `rows`, `rowId` and the set of prompts a flush handed over onto `FifoBuffer`.

### PausedSession

One set of threads (nudges, inbox events, the UI snapshot, the pause itself, a launch) runs
`taskManuallyPausedByID` statement by statement. Liveness is what `taskSessionLive` answers: hub and tmux
first, then a `ps` snapshot that may be out of date (`psLive`). `Move` is the one transaction from
`paused_session_queue` to `pending_wakes`; `Clear` is the deletion of the row, whose error is dropped.

A flush pastes the head of `wakes` in one step and acks it in another (`flush` is `"off"`, `"on"` or `"pasted"`); a server that dies in between, or an ack
whose error `wakeQueue` drops, leaves the row, and it is pasted again. `tries` counts the pastes of the head.

`ImplementsQueue` maps `wakes \o queue`, the one table before the other, the prompts acked, the pastes of the head and the faults onto `HeldQueue`: the move between the
tables, the row and the launches are stutters of it. `FifoBuffer` does not fit: it accepts nothing twice in two tables and says nothing of what a repeat costs.

### RateLimitQueue

The variable `timer` (`nil`, `armed`, `fired`) with `timerAt`, and `orphans`, the timers the runtime still
has although the variable was cleared: in Go, assigning nil to a `*time.Timer` stops nothing, and a
timer that fired stays in the variable until somebody clears it. `Schedule` is
`scheduleRateLimitQueueDrain`. The drain's loop is followed row by row. Its list of due rows may fail, and is tried again a unit later; the read of the next due row at its end,
or at the boot, may fail too, and then nobody arms the timer (`unread`) until the next event, drain or boot. A replay that fails rewrites its row; that this update may itself fail
(`provider_rate_limit.go:383` drops its error) is left out.

### InboxMonitor

An entry is its position in `inbox.jsonl`; offsets count entries, not bytes. `Runs` are generations of
the monitor goroutine: `Stop` cancels the current one and forgets it, and a new one may start while the
old is in the middle of a scan. `Handlers` are requests of `/api/inbox/notify`, which scan the same file
on the same cursor file. `watched` records the entries that arrived when the cursor was settled, that is
when a cursor file existed and nobody who had seen none was about to write one: before that, the code
means to skip what is already in the file.

The cursor is written through one temporary name that all scanners share: `WriteCursor` makes it empty, `FillCursor` writes to the file that was opened, wherever it
has been renamed to since (`fd`), and `RenameCursor` moves whatever is there over the cursor. Two writers may so leave an empty cursor, which reads as 0, or one that no scan can parse (`Corrupt`), which ends
every later scan. `needed` is `taskNeedsMonitor`: the reconciler starts the monitor of an active task with a Slack or GitHub tag, and of no other; the one that an attach starts for
a task that needs none is left out. `Quiet` is the set of entries that may turn out not to be actionable.

`ImplementsLog` maps the size of the file, the watched actionable entries, the entries handed over at least once and the cursor file (a missing or corrupt one counts as 0) onto `CursorLog`.

### PromptInput

`text`, `pasted`, `fresh` are the box: the operator's characters, the wakes in it, and the pastes
the editor still absorbs, during which an Enter submits nothing. `Press` is the agent's reading of an
Enter: it answers an open prompt, is absorbed, submits the box or does nothing. `key` is a keystroke that
`readLoop` has counted (`noteBrowserInput`) and not written yet. A paste may be swallowed by an open prompt.
`unsent` counts the characters in the box since the operator's last Enter that were typed on the bridge attached now, which is what the code's counter stands for
and what `DraftGate` speaks of: an Enter that a fresh paste absorbs ends the draft for the counter and leaves its characters in the box, and so does the loss of the bridge, with which the counter goes.
A gate whose read of the runtime state fails sees no prompt, and its delivery is `blind`.

Three timing facts of the code are guards here, and nothing else about time is assumed:
the first Enter follows a paste by a poll of the screen that outlasts the two adjacent statements
between a key's count and its write; the second Enter comes 700 ms after the first and by then the editor has
absorbed its own paste; the flusher's gap of 2.5 s outlasts the 1.9 s a submit can take.

### AttentionCard

`feed` holds the rows, `rank` the place of each in the order of `created_at` (an observer's update moves it to the last). Every handler is an actor
whose record `op[a]` is the copy it works on: the card and row an observer has looked up, the cards a dismissal or a merge is to
answer, the look into the inbox a forward has made. A look that cannot read the inbox finds no message there (`misread`). `Coalesced` is the choice of `UpsertFeedItemSurfaced`, `SameOrOlder` its comparison
of stamps; the stamp 0 stands for one that cannot be compared. `maybeAutoAct` is allowed every action:
the learned trust that decides between them is left out, and so are feedback rows, work events, aliases of a thread, the
task a card was matched to, and the dismissal of surfaced drops at boot. Of a forward only the line in `inbox.jsonl` is
modelled (`inbox.md` is its rendering).

### SteeringCascade

`chan` is the channel with replies and four kinds of messages; `cache` is the in-memory verdict cache with its lifetime; `decided` the messages the cascade has done with, `delivered` the deliveries that have a row in
`steering_traces`, which is written after the delivery and whose failure is only logged; `wm` the watermark. A listener may hand a message over or not, twice, or late. The sweep reads a page after the watermark,
filters, passes the batch through the gates, hands the kept ones on one by one and saves the
watermark last. Budgets and the classifier's cooldown appear as a drop that may happen; Stage 0's
rules as the message's kind; a duplicate check that cannot read the rows as one that finds none (`lapses` counts both failures by message); a rate-limit hold as a sweep that has not come yet.

`ImplementsLog` maps the number of messages, the top-level ones the cascade accepts, the decided or excepted ones and the watermark onto the same `CursorLog` as InboxMonitor's: two components, written in two
packages, keep one promise.

### OwnerTick

`pid`, `aged` and `wake` are the row as the guards see it; `proc` is the operating system: what runs under each number, including a
stranger that got the number of a dead tick. A dispatcher loads, guards, launches and records in separate steps; `show` is
`owner show`'s reconciliation, read and write apart. A retired owner is to the ticks what a paused one is. A number is not given to
another tick while a process holds it.

### SteererSession

`chat` is the row, `pane` the agent in tmux, `bridge` the server's attachment, `doc` the age of each conversation's transcript. Turns go through the
slot's mutex; `deleting` and `reconcile` are the two stops that do not. `capturing` is the goroutine that learns the id codex
gives a conversation, at a start and at every resume, for codex takes no id from its caller: until then the row has the one flow has minted (`Stub`, which names no conversation) or the one before.
The capture may expire, and the row's later write goes over one that was quicker. A resume asked for a conversation that does not exist ends at once. The capture is taken to find the file of the agent just launched. A stop that comes in the middle of a launch is taken before or after it; ages do not pass
while a sweep looks; an agent in a turn writes its transcript and reads its box within the TTL. Left out: the registry of floating launches, titles, archiving, the `/compact` wake,
a reopening from the browser, and prompts the gates of WakeQueue hold back.

### LiveView

The state of the world is the number of changes made. A handler's change is published by the handler, and seen by the database watcher too when it is one of the database
(the watcher's connection is not the one of the pool that wrote); another process's change by the watcher alone;
an edited brief by nobody. `pub[p].rest` is the copy of the subscribers a publisher still has to serve, `dead` those of them that have closed their channel since.
A build reads the world when it starts. Events are of two sorts: a `broad` one makes a page ask for the view, one of the cascade's stages, the chats or the knowledge base makes it ask for another view
(`RefetchElse`) and still takes its place in the channel (`aside`); a stream rebuilds at every one (`Asks`). A page has two sockets, which come and go by themselves: that of the events asks nothing
when it opens (`PageSubscribes`), that of the requests asks for everything (`PageAsks`). A page whose socket closes keeps its screen. The watcher's own send on a closed channel ends the server, which is `Restart`.
What a client's loop has received and not yet acted on is counted with its channel;
the database watcher's look and its copy of the subscribers are one step; one handler publishes at a time; the boot's priming of the cache is over when a page asks.

### AutoRun and PlaybookSchedule

`task` holds the rows, `lc[l]` where a launcher is and what it minted and started, `sup` what runs under each process number. A launcher guards, claims
in one transaction, starts the supervisor and records; a failed start rolls back unless the row's session is another's by now. The
supervisor runs the agent, once more at the other provider when the first is out of credit, and finalizes. A reader's look and its mark are two steps. AutoRun gives the steps' effects on the rows;
PlaybookSchedule extends it, says what starts a launcher (`Fire`, or the operator's `Relaunch` with or without `--force` and `--fresh`: `Options`), and adds what a step does to the schedule (`Hold`).
`next` is `next_fire_at` against the clock, `"reset"` being the end of a hold. The history says whose word was last (`order`: fire, quiet, or wait for a provider), which ticks had listed the playbook before it (`early`),
and where the code lets it be overridden (`overruled`, `odd`). Left out: the `brain_runs` journal, explicit providers, captured codex session ids, worktrees, cron expressions,
a stored spec that no longer parses (it is paused), and `flow run playbook`. A statement that moves the schedule on and fails is a tick killed before it. The guard that cannot list the runs takes none to be in flight (`FireBlind`), and what it then launches is `odd`.
The agent's `flow done` and its exit are one step.

## 3. The runs

| Run | Instance | What it shows |
|---|---|---|
| `WakeQueue_safety` | two prompts, one of them held for a reset, two flushers, one tick, one fault | `NoAcceptedWakeLost`, `RedeliveryBounded`, and that the whole implements `FifoBuffer`, its order included |
| `WakeQueue_live` | two held prompts, no faults | the buffer of a settled session drains while hooks keep coming (`RedeliveredOnceFree`) |
| `PausedSession_queue` | a nudge and an event, one pause, one fault (among them an ack that fails) | the two tables implement `HeldQueue` (`ImplementsQueue`, which implies `PausedFifo`); a row beside a live session goes away (`StaleRowClears`) |
| `RateLimitQueue_drain` | two actions, two drains, holds until 2, and a fault, a backfill or a dismissal | `ReplayedOncePerFault`, `ReplayFifo`; no row waits with nobody to come for it (`RowHasTimer`); what is held is replayed or dismissed (`HeldActionReplayed`), unless a timer has fired in vain (`TimerStuck`) or the next due row could not be read (`NextUnread`) |
| `InboxMonitor_scan` | two generations, one handler, two entries, the first of which may be one to ignore, no cursor at first, one stop, one fault | `NothingSkipped`; the whole implements `CursorLog`; while the task needs a monitor and the cursor can be read, every event is handed over (`EventDelivered`) |
| `PromptInput_box` | three wakes, two characters, one prompt, one lost bridge or failed read | `EachWakeSubmitted`, `DraftGate`, `PromptGate` |
| `AttentionCard_feed` | one thread, two actors, one stamp and an unusable one, three operations, one death or failed look | `OneOpenCard`, `ForwardedOnce`, `AnswerStands`, `VerdictFinal` |
| `SteeringCascade_sweep` | a listener and the sweep, two messages, one live delivery, pages of one, one fault (among them a lost trace and a failed lookup) | `WatermarkCovers`, `SentOnce`, `CardOncePerVerdict`; the whole implements `CursorLog` |
| `OwnerTick_due` | the scheduler and another dispatcher, three pids, one command, one fault | `OneTickAtATime`; a due owner is ticked (`DueOwnerTicked`) |
| `SteererSession_slot` | two actors, two turns, three conversations, two commands, two faults | `RowNamesAgent`, `SweepSparesWork` |
| `LiveView_catchup` | a stream, a page, two changes, room for one event | `ChangeNoticed`; a stream's screen never goes back (`StreamsGoOn`); a stream catches up (`StreamCatchesUp`) |
| `PlaybookSchedule_fire` | the ticker and another process, two runs, two supervisors, one command, one fault | `NoOverlap`, `SupervisorShown`, `QuietKept`; an armed schedule goes on firing (`ScheduleFires`) |

The runs check the types too, but for PromptInput, RateLimitQueue, InboxMonitor, SteeringCascade, LiveView and PlaybookSchedule, where `TypeOK` is proved (section 4) and not run.

Every property has a mutant in `PROJECT.json`: a defect in a definition that stands for
code, under which TLC finds the property violated in the same instance.

**Bounds.** Two prompts are the least that have an order, and two flushers the least that can meet at the
guard; a third flusher would be turned away by `beginFlush` like the second. One fault anywhere covers each
crash point and each failed statement once, and the bounds of redelivery are stated relative to the number of
faults, so that one fault is enough to refute them. One time unit is a whole hold; only before and after
matter, and in `RateLimitQueue_drain` a second unit lets a hold begin in the middle of a drain. Two generations of
the monitor are the least that overlap, and one handler is the least that meets
either. In PromptInput three wakes are needed: a caller and the flusher overlap, and the flusher goes on
to the next while the caller's paste is absorbed; and two characters, so that one can be rubbed out and leave an older one. In AttentionCard no write depends on another thread, so one is enough; three
operations are a card, its answer, and a writer in flight beside them. A page of one message and two messages let the sweep pass over one and
resume at the other; with two messages one can be the reply to the other. Three pids let two ticks and a stranger
exist at once, and OwnerTick's theorem is for any number. SteererSession needs a third conversation because a switch and a lost resume each begin one. In
LiveView a database change of a handler is published twice, so that a channel with room for one is full; two changes let one fall into the build for the other.
In PlaybookSchedule two runs and two supervisors are the least that overlap. The one command may be a pause, a resume, a clear, a tick-due of the host's cron or an operator's launch; each window the
code leaves open needs one of them, and the one fault a death, a failed step, a list of runs that cannot be read, a killed tick, a reused number or a reader with an old row.

Symmetry is used in runs without liveness only (`WakeQueue_safety`'s action
properties treat flushers alike, AttentionCard's actors, SteererSession's turns). In `PromptInput` the
antecedents `asks = 0` and `faults = 0` do not empty the properties: the interleavings of deliveries and
of the operator are those of the states with no prompt.

Deadlock checking stays on wherever an environment step (a hook, a poll, a restart, a keystroke) is always possible. It is off in `InboxMonitor_scan`, where the inbox of a task that is over comes to rest, in `OwnerTick_due`, where a paused
owner with no tick and no command left rests, in `SteererSession_slot`, where a silent channel does, and in
`PlaybookSchedule_fire`, where a cleared schedule with no run does.

**Fairness.** Liveness is stated under these assumptions:

* WakeQueue, RateLimitQueue, InboxMonitor: weak fairness of each goroutine's steps (the Go scheduler runs what can run; every loop
  either sleeps for a bounded time or returns), of armed timers, of the clock, and of the reconciler that starts
  the missing monitor of a task that needs one (an active one with a Slack or GitHub tag; a task may stop to be one at any time). `HookFairSpec` adds strong fairness of `AgentMoves`: an agent that works keeps
  posting hooks; without it `RedeliveredOnceFree` fails (section 5). Nobody is assumed to press recheck, to attach, to answer or to end a session.
  A cancelled monitor goroutine is not assumed to notice its cancellation: `select` may take the tick for ever.
* PausedSession: the UI is polled and its check runs on; nobody else is assumed to move.
* OwnerTick: the scheduler's minute comes, a dispatch that has begun goes on, a process gets past its start and leaves if the owner is not active, `owner show` finishes
  its write, the hour passes. A tick may run for ever, unless it holds the last free number: the operating system does not run out of them.
* PlaybookSchedule: the server's ticker comes round every minute and waits for its child, the child gets on, time passes. Cron, the operator's shells, agents,
  supervisors and readers may stop for good, so `ScheduleFires` excuses a schedule that a live process is behind.
* LiveView: the long tick of a stream fires, and its builds end and do not fail for ever (strong fairness of the success).

## 4. The proofs

All theorems hold for every value of the constants that satisfies the module's named assumption (sets that do
not overlap, bounds that are natural numbers).

* `WakeQueueProofs`. Inductive invariant `IInv`: types; the guard is up exactly while one flusher owns it;
  ids grow with `nextId` and differ; only registered prompts are in the table; what is carried is the
  oldest row; a flusher at its ack has pasted; a paste is counted once, or once more per fault. The
  strengthening is needed because neither `NoAcceptedWakeLost` nor `RedeliveryBounded` says anything of the
  moment between paste and ack, and because `CarriesOldest` survives an insert only if ids grow. From it:
  `TypeCorrect`, `FlushMutex` (`FlushExclusive`: one drainer, who owns the guard), `FlushOldest` (`CarriesOldest`), `NoLoss`, `BoundedRedelivery`, `Holds`
  (`HoldRespected`: no prompt is on its way before its `not_before`), `InOrder`, and the
  refinement `RefinesBuffer`. From that refinement, `RepeatsInTurn`: of what is in the table only the oldest row can have been pasted before, so that what is pasted twice is pasted twice in its turn. `Gates` has an invariant of its own (`GateInv`: a thread past its last gate
  read is late, which a failed read makes it too, or nobody waits). `FlushExclusive`, `CarriesOldest`, `HoldRespected`, `FlushInOrder` and `GateWindow` are proved and not run:
  `ImplementsBuffer` sees the same defects in TLC, and PromptInput's `PromptGate` looks into the window itself.
* `HeldWorkProofs`. RateLimitQueue: `TypeCorrect`, `ReplayedOnce` (`ReplayedOncePerFault`) and `ReplayedInOrder` (`ReplayFifo`). Neither property is inductive:
  the rows a drain has listed are a stale copy of the table. `HeldInv` adds that one drain is past the lock (`OneDrain`); that ids grow with the inserts and a drain holds rows only (`IdsGrow`);
  that what was due when a drain listed and is not in its hands comes after all that is (`ListedOlder`, which has to survive a row rescheduled or dismissed under the drain, and one inserted with an old hold); and that what can
  still be replayed was replayed at most once per fault, but for the one row between its replay and its ack (`ReplaysCounted`). That a drain has come to the oldest row rests on a lemma of its own: a function to
  the naturals has a least element (`LeastExists`, from the well-foundedness of `<`).
  `NoRowForgotten` (`RowHasTimer`) is the safety half of `HeldActionReplayed`: `TimerInv` says that the lock has an owner, and that a row in the table has a timer in the variable or out of it, the owner of the lock, or its
  connector about to arm; a drain gives the lock back only after it has armed, or has failed to read what to arm for (`NextUnread`, which lasts until somebody arms or drains), and a timer that fires takes the lock or leaves the variable filled.
  PausedSession (through an instance, its assumption as a hypothesis): `PausedTypeCorrect`, and `QueuedPromptsKept`: `PausedFifo` is inductive given the types; the steps
  that matter are the move (concatenation is associative) and the ack (head and tail).
  `TablesAreOneQueue` (`ImplementsQueue`): a step accepts a prompt, pastes the head of the two tables, takes it, adds a fault, or leaves their concatenation alone (`PausedStepQueue`); that a prompt is accepted once
  needs that whoever has entered the queue is past the call that enters it (`QueuedOnce`). From that refinement, `RepeatsPaidFor`: no prompt is done with twice, and the oldest has been pasted once, and once more at most for each fault.
* `NoticeProofs`. InboxMonitor: `TypeCorrect`, and `NothingIsSkipped`. `NothingSkipped` alone is not inductive: a scanner
  carries an offset that it may write at any later time over a newer one. `ScanInv` says of each scanner what it has
  delivered up to the offset it carries, and that once an entry is watched the cursor stays settled. `InboxIsLog` (`ImplementsLog`): every step appends, hands over entries that are there (`HandedThere`), or moves the cursor (`StepLogs`), and `ScanInv` is what makes the move
  a move of `CursorLog`. 
  `EntryIsAlive` (`OneMonitor`): the manager's entry and the one goroutine that is neither off nor cancelled are the same at all times, a stop, a start and an end by another's hand in between; it is the
  safety half of `EventDelivered`, for a task with a stale entry would never get a monitor again.
  LiveView (through an instance, its assumption as a hypothesis): `ViewTypeCorrect`, and `NoChangeMissed`: `ChangeNoticed` is inductive given the types. The proof goes by client (`Told`): for each
  change it has not seen, an event is in its channel, before the watcher or with a publisher, or the change is in `lost`. A full channel that drops an event keeps the client told if it has an event in
  it that makes the client ask, and puts the change in `lost` if all of them are about other views; a publisher sends to a copy of the subscribers, and whoever leaves or comes after the copy was made has nothing to hear from it, or has it in `lost`.
  `ScreensGoOn` (`StreamsGoOn`, an action property): a stream that builds has read the world after what it shows (`StreamsSound`), so that what the cache is given by slower builds never reaches its screen.
* `PromptInputProofs`. `TypeCorrect` (among the types, that the draft's count is never negative). `GateHolds` (`PromptGate`): a delivery past its gate that answers a prompt is in
  `blind`, the set of deliveries whose gate could not see the prompt. `DraftHolds` (`DraftGate`): `DraftInv` relates the characters in the box since the operator's last Enter (`unsent`) to the server's count, off by the one key on its way, and
  says that a delivery past its look at the draft found none, or the operator typed after it. `WakesSubmitted` (`EachWakeSubmitted`): `BoxInv` says that every paste in the box is covered by a delivery that still owes an Enter, which is
  the flusher's or a direct caller's. The proof of `DraftHolds` is what brought up the absorbed Enter of section 5: with the whole text of the box in the place of `unsent` the invariant is false, and so was the property.
* `AttentionCardProofs`. Five theorems. What an actor holds is a row of the thread as it once was (`Grounded`, with `TypeCorrect`). `OneCard` (`OneOpenCard`): per thread, the writer of the feed is alone under its lock, it
  has read the open card if there is one, and there is one (`One`). `OneCopy` (`ForwardedOnce`): the one who appends for a card is alone, the inbox has not seen its stamp but for the looks that failed (`misread`), and no copy is on its way (`Once`).
  `AnswersStand` (`AnswerStands`) and `VerdictsFinal` (`VerdictFinal`) are action properties: a step that changes an answered card is one of the named exceptions.
* `SteeringCascadeProofs`. `TypeCorrect`, `CoversWatermark` (`WatermarkCovers`), `HandedOnce` (`SentOnce`), `CardOnce` (`CardOncePerVerdict`), `ChannelIsLog` (`ImplementsLog`), which `SweepCovers` carries through the save, and `WatermarkAdvances` (`WatermarkForward`, an action property): a sweep that has read its page heads no further back than the watermark (`Ahead`). Of the watermark: messages are numbered as they are posted, and whatever
  the sweep's next saved watermark will pass is decided, missed by a listener's crash, or still in the batch the sweep has in hand (`SweepCovers`). Of the deliveries: one observer is past the gate for a message, unless two met before either had
  traced it (`overlap`); a delivery is counted against its trace, against the rows of it that were not written or not read (`lapses`), and against crashes. Of the cards: against the verdict in the cache, for as long as it lives.
* `ScheduleProofs`. PlaybookSchedule: `TypeCorrect`, whose `TypeInv` adds to the types that a row names a process exactly when it says running. `QuietIsKept` (`QuietKept`, an action property): `QuietInv` says that
  what the row shows is what the last word said, unless it was overruled (`WordShown`), and that a playbook some tick has listed was armed by that word, listed early, or overruled (`Listed`).
  `NoSecondRun` (`NoOverlap`): that two supervised runs do not meet says nothing of the launcher that is about to start the second, so `RunInv` says that a launcher has a call in progress exactly when
  its tick or its command is in a launch (`CallsPlaced`), that a run nobody has created is nobody's (`Untouched`), that a run has one launcher and while it has it no row that says running (`OneLauncher`),
  that a supervised run is recorded in its row, or about to be under the one process it has (`AllHeld`), and that at most one run is launched or supervised (`OneInWork`), all of them but for the runs
  the property excepts (`odd`). From the same invariant, `RowNamesSupervisor` (`SupervisorShown`). `FireIsSet` (`ArmedHasFire`) is the safety half of `ScheduleFires`: an armed row is never without a time. `NoSecondRun` covers AutoRun as far as PlaybookSchedule is built from it.
  OwnerTick (through an instance): `OwnerTypeCorrect`, and `NoSecondTick` (`OneTickAtATime`). The action property needs four facts of every state: a live tick is in the row,
  in the hand of its dispatcher, or lost (`RowKnowsTick`); what a dispatcher has loaded still knows every tick that was not launched beside it
  (`LoadedRowKnowsTick`); a show gives up only a pid that was dead when it looked (`ShowGivesUpOld`); two dispatchers do not carry one launch (`LaunchedApart`).
* `SteererSessionProofs`. `TypeCorrect`; `RowNamed` (`RowNamesAgent`), whose invariant `NameInv` says what every operation in progress knows of the agent, that a conversation whose id is still being captured is the one in the pane,
  and that beside it nobody starts another and nothing but an id that names nobody is about to be recorded; and `SweepSpares` (`SweepSparesWork`). Three facts carry the last: a turn in the agent's box that nobody has read was delivered
  through the slot, which stamps it (`UnreadStamped`); a delivery in progress holds the mutex and stamps before it lets it go
  (`DeliveryStamped`); an agent in a turn has a young transcript (`BusyWrites`).

Only model-checked: the liveness properties (`RedeliveredOnceFree`, `StaleRowClears`,
`HeldActionReplayed`, `EventDelivered`, `DueOwnerTicked`, `StreamCatchesUp`, `ScheduleFires`; liveness under fairness is outside the prover's
reach). Every safety invariant and action property of a run is a theorem, four of them (`ImplementsQueue`, `ChangeNoticed`, `StreamsGoOn`, `OneTickAtATime`) and the types of their modules through an instance.
`PausedFifo`, `OneMonitor`, `WatermarkForward` and `ArmedHasFire` are proved and not run: TLC finds them true in the instances of section 3, where a run's own properties see the same defects.
`RepeatsInTurn` and `RepeatsPaidFor` carry back to the code what its abstract specification implies; that an entry behind InboxMonitor's cursor was handed over is `NothingSkipped` itself.

## 5. Known divergences

Where the code does not do what a comment of the repository says, or drops an error. What is a step of a modelled part is in its model. Of the first five, all but the third name a formula that TLC refutes when it is added to a configuration.

1. *A wake buffered as the wait ends is left lying.* `server/terminal_wake.go:83` says the prompt "is buffered (persisted) and re-delivered
   once the session leaves the human-input wait". `wakeTask` and `wakeSharedTask` read the gate and push
   afterwards. When the session leaves the wait in between, the flush of that hook finds an empty table, and the
   row waits for a later hook, attach or restart. When that hook was the last of the agent's turn, none may come.
   (`WakeQueue!RedeliveredAfterWait` under `FairSpec`: `Wakes = {w1}`, `HeldWakes = {}`, two flushers, `MaxTime = 0`, `MaxFaults = 0`.)
2. *The drain timer is forgotten.* `flowdb/rate_limit_queue.go:31` and `schema.go:256` say held actions are replayed after
   the reset. A timer that fires while another drain runs loses `TryLock` and leaves itself in the variable;
   every later time is then refused as later than the one in the variable, and the queue sleeps until a restart or a recheck.
   This state is `TimerStuck`, one of the two exceptions of `HeldActionReplayed`.
   (`RateLimitQueue!HeldActionReplayed` without that disjunct: `Actions = {a1}`, `MaxDrains = 2`, `MaxHold = 2`, `MaxEvents = 0`.)
3. *An entry is handed over twice.* `monitor/inbox_monitor.go:50` says "nothing double-advances". The handler of
   `flow tell` and the monitor's tick read the same cursor and hand the same entry over twice. `delivered` is a set for that reason, and `CursorLog` promises that nothing is passed, not that nothing is repeated.
4. *A wake answers a prompt.* `flowdb/agent_runtime.go:124` says "an inbox event never auto-submits an open prompt". The
   gate is read once, before the paste; the Enters come up to 1.9 s later and look at nothing.
   (`PromptInput!NoAutoSubmit`: `Wakes = {w1}`, `MaxRunes = 0`, `MaxAsks = 1`, `MaxFaults = 0`.)
5. *The page misses a change.* `server/cache.go:95` says reads of the cached view lag "without missing real changes", because the stream stores a fresh one. The bundled
   page does not use the stream: it is told of a change by `/ws/events`, asks `/api/ui-data` once, and is answered with the view from before the change;
   the one built behind the answer is announced to nobody. (`LiveView!PageCatchesUp` with fairness of every publication, build and refetch added to `FairSpec`: `Streams = {}`, one page, one change.)

Wake path and prompts:

* `injectWake` re-attaches and pastes without `waitForSessionReady` (`terminal_wake.go:119`), although the attach of `:25` waits
  (variable `booted` of WakeQueue).
* A prompt answered "Queued instruction" (`actions.go:416`) may enter the paused queue after the launch has moved it; it then waits
  for the next pause and launch, or the next check that finds a row. Prompts queued in several pauses keep their order (`paused_sessions.go:98`, part of `ImplementsQueue`).
* `markTaskPaused` is followed by a check that trusts a `ps` snapshot taken before the stop
  (`actions.go:483`, `:490`, `:559`): the pause's own answer can delete the row it has just written.
* The error of `AckPendingWake` is dropped (`wake_queue.go:51`): the row is pasted again after the gap, which `RedeliveryBounded` and, of a paused task's prompts, `ImplementsQueue` count.
* `awaitingHumanInput` answers no when it cannot read the runtime state (`terminal_wake.go:309`): the wake is pasted, and its Enter may answer a prompt that is on the screen. The exception
  of `GateWindow` (`late`) and of `PromptGate` (`blind`).
* `scheduleNextRateLimitQueueDrain` arms nobody when it cannot read the next due row (`provider_rate_limit.go:310`), and the error of a list that fails at a drain's start is retried a unit later. What
  is held then waits for an event, a drain or a boot (`NextUnread`, the other exception of `HeldActionReplayed`).
* Two scanners that write the cursor at once share the temporary file (`inbox.go:324`). What they leave may be empty, and the inbox is delivered again from its start, or a mixture that does not parse, and every
  later scan fails (`inbox.go:301`) until the file is removed: the exception of `EventDelivered`.
* A failing replay sets its row pending although the operator dismissed it meanwhile
  (`provider_rate_limit.go:383`, `flowdb/rate_limit_queue.go:147`).
* A handler that found no cursor sets the cursor to the size of the inbox after its delivery
  (`inbox_notify.go:140`): an entry appended in between is skipped. A line longer than 1 MB is an error of every scan (`inbox_monitor.go:89`).
* The respawn for an event of a dead agent (`task_monitor.go:376`, promised at `:299`) calls an opener that starts nothing (`slack_opener.go`).
* Keys that answer an agent's prompt are counted as draft (`terminal_session.go:351`): a digit leaves a phantom draft
  and wakes wait; an Enter forgets a real one and a wake submits it.
* A bridge lost between paste and Enter (`terminal_wake.go:148`) leaves the paste in the box of an agent that runs on. The count of typed characters goes with the bridge (`terminal_wake.go:394`) while the
  characters stay in the box, and the path for a detached session has no draft gate (`:187`): the next wake submits them.
* An Enter that the terminal takes for part of a fresh paste submits nothing, and still clears the count of typed characters (`terminal_session.go`, "Enter submits"):
  the characters stay in the box and may go with the next wake. `DraftGate` therefore speaks of the characters typed on this bridge since the operator's last Enter (`unsent`).

Cards and cascade:

* `inboxContainsSlackEvent` answers no when it cannot read the inbox (`monitor/inbox.go:228`), and the message is appended again (`misread`). `appendInboxEntry` holds no lock from the look to the append: two forwards of one message that
  both look first both append it (`raced`).
* The duplicate check of a delivery to a session passes when its lookup fails (`steering/cascade.go:533`), and the row it looks for is missing when its insert failed, which is only logged (`:125`): the message is handed over again (`lapses`).
* `maybeAutoAct` does not look at the card's status; re-triage of an acted card inserts a new one; a failed capture makes an answered card new again;
  `retriaging_at` survives the server; a failed `flow tell` deletes a handoff that may have been accepted. Two merges in opposite directions answer both cards, although
  `steering/actions.go:336` speaks of keeping one open.
* `steering/backfill.go:24` says "Idempotent across restarts"; a message whose card was acted on is carded again by the sweep after a restart.
  Replies to a parent older than the watermark are not swept, as the comment there says.

Schedulers and sessions:

* `server/owner_scheduler.go:31` says the dispatchers "never conflict", because each advances `next_wake_at` atomically; the advance comes after the launch. Two dispatchers that load the row before either records launch two
  ticks; `owner show` may wipe the pid of a tick newer than the one it looked at (`app/owner_tick.go:421`). These are the exceptions of `OneTickAtATime`.
* Codex ignores the id flow mints for a start, and gives every resume a new one (`server/terminal_launch.go:298`). The chat's row names nobody, or the conversation before, until the capture has found the new id; one that finds it
  before the row is written (`server/steerer_session.go:834`) is written over, and one that finds none in its time leaves the row as it is. The next resume is then of a conversation that does not exist, or of an older one. (`stray` in `RowNamesAgent`.)
* A start that finds the bridge or the tmux session of the same provider running drops the turn in its prompt and reports it delivered. `chat-delete` after a restart has no bridge to stop: the agent lives on in tmux and the
  reconciler, which looks for bridges, does not see it (`server/steerer_session.go:1195`). The switch of provider and the turns of approved replies do not stamp `lastDeliveryAt`. A failed second
  update leaves the row with the provider of one session and the id of another (`:1040`).
* Two decisions on one pending Slack message both read it as pending, and a server that dies between the post and the mark posts again (`server/slack_gate.go:149`, `:179`).
* `server/playbook_scheduler.go:21` says of the server's and the host's tick-due that "the two never conflict". Nothing is claimed between the overlap guard
  (`app/playbook_schedule.go:115`) and the launcher's record: two of them launch two runs. A tick killed after its two minutes leaves a live run that no row names. The guard takes a list of runs that it cannot read for one without a run in flight (`:142`), and fires beside a live one. (The exceptions of `NoOverlap`, in `odd`.)
* The hold of a run that met both providers' limits sets `schedule_paused_at` to NULL (`flowdb/db.go:1242`) and lifts a pause the operator set while it ran; its comment reads
  "unlike a manual pause, schedule_paused_at stays NULL". A tick that records its fire late clears the hold (`app/playbook_schedule.go:132`). (The exceptions of `QuietKept`, in `overruled`.)
* The launcher of a headless run records `running` after a quick supervisor has written the end (`app/auto.go:224`), and `reconcileAutoRun` with an old row can mark a newer, live run dead. The old supervisor of a forced launch finalizes the newer one's row.
  A launch that fails rolls back a session that another launch has meanwhile resumed.

Events:

* A page asks for its view again when its socket for requests comes back (`rpc.ts:115`), not when the one for events does (`events.ts:64`): what was published while the second was closed and the first was not is shown at the next event. Events of the cascade's stages and
  the chats fill a page's channel (`events_hub.go`) without making it ask for the view (`liveInvalidation.ts:3`), so that one it should act on may find no room. An edit of the knowledge base is announced, and pages do not ask for the view at it.
  (All in `lost`, for pages.)

* `publish` sends on a channel that may be closed (`events_hub.go:135`): `select` takes `done` or the closed channel at random, and the second panics. In a handler's goroutine the panic
  is caught by `net/http` and the remaining subscribers get nothing; in the watcher's it ends the server.
* `db_watcher.go:16` says in-process mutations do not fire the watcher; they do, whenever the pool's writer is not the pinned connection.
* `kb_watcher.go`'s loop evaluates `k.done` when it starts, and `stop` may have set it to nil. A refresh of the diagnostics cache that was overtaken
  still counts as running and delays the next one by the TTL.

## 6. Not modelled

The bytes of the PTY and the rendering of the screen; the wording of prompts; parsing of hooks, Slack and
GitHub payloads; tmux and `ps` themselves (their answers are modelled).
The outbound gate is one read, one post and one unconditional update; what can go wrong is plain in these lines (section 5).
Most of the repository's other lines are command-line front ends, HTTP views, setup wizards, text assembly and a web
interface: they read the database, or write it with one statement, and have no protocol of several steps. The components of section 1 without a mark are listed with
their reasons in `PROJECT.json`. The share of the code the map covers is small for that reason, not because whole protocols were passed over.

## 7. Plan

Every safety property of a run is a theorem. What would be worth adding, in order of weight:

1. Liveness half by half: `RowHasTimer`, `OneMonitor`, `ChangeNoticed` and `ArmedHasFire` are the safety halves of four of the seven liveness properties. `RedeliveredOnceFree` has one too
   (a row in the table of a session that waits for nobody has a flusher, a timer or a hook to come), which needs the window of divergence 1 as a named exception.
2. One system: WakeQueue's `FifoBuffer` and PausedSession's `HeldQueue` meet in `pending_wakes`; a module with both would show that a prompt queued in a pause is delivered at least once and in order through a wake path that may repeat.
3. The outbound gate and the terminal hub, when they get a protocol of their own (section 6).
