----------------------------- MODULE InboxMonitor ------------------------------
(***************************************************************************)
(* How a task's inbox reaches its agent: monitor/inbox_monitor.go,         *)
(* server/inbox_monitor_manager.go, server/inbox_notify.go and the         *)
(* delivery of server/task_monitor.go.  Connectors append to inbox.jsonl;  *)
(* the task's monitor goroutine scans what lies behind a cursor file,      *)
(* hands the actionable entries over and moves the cursor; a handler that  *)
(* `flow tell` wakes scans the same file on the same cursor.  No lock is   *)
(* taken anywhere: a scan is a sequence of file operations, and the cursor *)
(* is written to one temporary name, which whoever is first renames.       *)
(* An entry is its position in the file; offsets count entries.            *)
(***************************************************************************)
EXTENDS Integers, FiniteSets

CONSTANTS
    Runs,         \* monitor goroutines of the manager, one generation each
    Handlers,     \* HTTP handlers of /api/inbox/notify
    StartCursors, \* what the cursor file can hold at first, Absent for none
    Quiet,        \* the entries that may turn out not to be actionable
    MaxEntries,   \* bound: entries of the inbox
    MaxStops,     \* bound: sessions that end and stop the monitor
    MaxFaults     \* bound: failed deliveries, failed writes and restarts

Absent == -1
Corrupt == -2   \* a cursor that does not parse
NoRun == "none"

ASSUME InboxMonitorAssumption ==
    /\ MaxEntries \in Nat /\ MaxStops \in Nat /\ MaxFaults \in Nat
    /\ StartCursors \subseteq {Absent, 0}
    /\ NoRun \notin Runs
    /\ Runs \cap Handlers = {}

Scanners == Runs \cup Handlers
Entries == 1..MaxEntries

VARIABLES
    size,       \* entries in inbox.jsonl
    actionable, \* the ones ClassifyInboxEvent marks so
    cursor,     \* the cursor file, Absent when there is none; an empty one reads as 0
    tmp,        \* the temporary file it is written to
    needed,     \* taskNeedsMonitor: an active task with a Slack or GitHub tag
    current,    \* inboxMonitorManager.cancel[slug]
    cancelled,  \* the runs whose context is cancelled
    pc,         \* where each scanner is
    off,        \* the offset it started from
    seen,       \* the offset it read up to, or the size it saw
    fd,         \* the file that its open temporary file has become
    seeding,    \* the runs that have not begun their first scan
    delivered,  \* history: the entries that were handed over
    watched,    \* history: the entries appended to a settled cursor
    stops, faults

inboxVars == <<size, actionable>>
fileVars == <<inboxVars, cursor, tmp>>
managerVars == <<current, cancelled, needed>>
fdVars == <<fd, seeding>>
scanVars == <<pc, off, seen, fdVars>>
historyVars == <<delivered, watched, stops, faults>>
vars == <<fileVars, managerVars, scanVars, historyVars>>

Init ==
    /\ size = 0 /\ actionable = {}
    /\ cursor \in StartCursors /\ tmp = Absent
    /\ current = NoRun /\ cancelled = {} /\ needed = TRUE
    /\ pc = [s \in Scanners |-> "off"]
    /\ off = [s \in Scanners |-> 0]
    /\ seen = [s \in Scanners |-> 0]
    /\ fd = [s \in Scanners |-> "none"] /\ seeding = {}
    /\ delivered = {}
    /\ watched = {}
    /\ stops = 0 /\ faults = 0

Fault == faults < MaxFaults /\ faults' = faults + 1

Goto(s, label) == pc' = [pc EXCEPT ![s] = label]

\* A scan that is over, or a goroutine that is gone, keeps nothing.
Leave(s, label) ==
    /\ Goto(s, label)
    /\ off' = [off EXCEPT ![s] = 0]
    /\ seen' = [seen EXCEPT ![s] = 0]

\* Mutant: a scan that is over ends the goroutine, which keeps its map entry.
EndScanDies(s) == Leave(s, "off") /\ seeding' = seeding \ {s}

\* A monitor waits for its ticker, or begins its first scan now that it has seeded; a
\* handler answers its request.
EndScan(s) ==
    /\ Leave(s, IF s \in Handlers THEN "off" ELSE IF s \in seeding THEN "cursor" ELSE "sleep")
    /\ seeding' = seeding \ {s}

-----------------------------------------------------------------------------
(* The writers of inbox.jsonl.                                              *)

\* A cursor file exists, and nobody who saw none is about to make one.
Settled ==
    /\ cursor # Absent
    /\ \A s \in Scanners : pc[s] \notin {"latest", "mark", "seedsize"}

\* appendInboxEntry: one row, which is actionable when it is in acts.
AppendRow(acts) ==
    /\ size < MaxEntries
    /\ size' = size + 1
    /\ actionable' = actionable \cup acts
    /\ watched' = IF Settled THEN watched \cup {size + 1} ELSE watched

\* A connector, an owner or the operator.
Connector ==
    /\ \E acts \in {{size + 1}, {size + 1} \ Quiet} : AppendRow(acts)
    /\ UNCHANGED <<cursor, tmp, managerVars, scanVars, delivered, stops, faults>>

\* `flow tell` appends, then posts to the server it may find.
Tell(h) ==
    /\ pc[h] = "off"
    /\ AppendRow({size + 1})
    /\ Goto(h, "check")
    /\ UNCHANGED <<cursor, tmp, managerVars, off, seen, fdVars, delivered, stops, faults>>

-----------------------------------------------------------------------------
(* The manager: one goroutine per task, by its map.                         *)

\* start, by the reconciler: the map entry first, then the seed, in its goroutine.
Start(r) ==
    /\ needed
    /\ current = NoRun
    /\ pc[r] = "off"
    /\ current' = r
    /\ Goto(r, "seed")
    /\ seeding' = seeding \cup {r}
    /\ UNCHANGED <<cancelled, needed, fileVars, off, seen, fd, historyVars>>

\* stop: a session of the task ended, the one of a second browser included; or the
\* reconciler found the task finished or archived, and will not start another.
Stop ==
    /\ current # NoRun
    /\ stops < MaxStops
    /\ cancelled' = cancelled \cup {current}
    /\ current' = NoRun
    /\ needed' \in {needed, FALSE}
    /\ stops' = stops + 1
    /\ UNCHANGED <<fileVars, scanVars, delivered, watched, faults>>

\* Run: the context is looked at after a scan; the goroutine tidies its entry.
Exit(r) ==
    /\ pc[r] = "sleep"
    /\ r \in cancelled
    /\ Leave(r, "off")
    /\ cancelled' = cancelled \ {r}
    /\ current' = IF current = r THEN NoRun ELSE current
    /\ UNCHANGED <<needed, fileVars, fdVars, historyVars>>

\* After a slow scan both channels are ready, and select takes either.
Tick(r) ==
    /\ pc[r] = "sleep"
    /\ Goto(r, "cursor")
    /\ UNCHANGED <<fileVars, managerVars, off, seen, fdVars, historyVars>>

-----------------------------------------------------------------------------
(* SeedInboxMonitorCursorToEnd.                                             *)

SeedCheck(r) ==
    /\ pc[r] = "seed"
    /\ IF cursor = Absent
       THEN Goto(r, "seedsize") /\ UNCHANGED seeding
       ELSE Goto(r, "cursor") /\ seeding' = seeding \ {r}
    /\ UNCHANGED <<fileVars, managerVars, off, seen, fd, historyVars>>

SeedSize(r) ==
    /\ pc[r] = "seedsize"
    /\ seen' = [seen EXCEPT ![r] = size]
    /\ Goto(r, "write")
    /\ UNCHANGED <<fileVars, managerVars, off, fdVars, historyVars>>

-----------------------------------------------------------------------------
(* ScanOnce, of a monitor or of a handler.                                  *)

\* A cursor that does not parse is an error, and the scan is over.
ReadCursor(s) ==
    /\ pc[s] = "cursor"
    /\ IF cursor = Corrupt
       THEN EndScan(s)
       ELSE /\ off' = [off EXCEPT ![s] = IF cursor = Absent THEN 0 ELSE cursor]
            /\ Goto(s, "read")
            /\ UNCHANGED <<seen, seeding>>
    /\ UNCHANGED <<fileVars, managerVars, fd, historyVars>>

\* The entries a scanner has read and will hand over.
Batch(s) == (off[s] + 1)..seen[s] \cap actionable

\* Mutant: the offset counts one entry too many.
ReadInboxPast(s) ==
    /\ pc[s] = "read"
    /\ seen' = [seen EXCEPT ![s] = size + 1]
    /\ Goto(s, IF (off[s] + 1)..size \cap actionable = {} THEN "write" ELSE "deliver")
    /\ UNCHANGED <<off, fileVars, managerVars, fdVars, historyVars>>

\* No file is no error and no write; the scanner reads to the end of it.
ReadInbox(s) ==
    /\ pc[s] = "read"
    /\ IF size = 0
       THEN EndScan(s)
       ELSE /\ seen' = [seen EXCEPT ![s] = size]
            /\ IF (off[s] + 1)..size \cap actionable = {}
               THEN Goto(s, "write") /\ off' = [off EXCEPT ![s] = 0]
               ELSE Goto(s, "deliver") /\ UNCHANGED off
            /\ UNCHANGED seeding
    /\ UNCHANGED <<fileVars, managerVars, fd, historyVars>>

HandOver(batch) == delivered' = delivered \cup batch

\* Mutant: an error of the delivery moves the cursor.
DeliverSwallows(s) ==
    /\ pc[s] = "deliver"
    /\ Goto(s, "write") /\ UNCHANGED <<off, seen>>
    /\ \/ HandOver(Batch(s)) /\ UNCHANGED faults
       \/ Fault /\ UNCHANGED delivered
    /\ UNCHANGED <<fileVars, managerVars, fdVars, watched, stops>>

\* WakeTask, deliverInboxEvents: nil lets the scanner move the cursor (for a
\* task whose agent is dead it is nil as well, and the entry stays in the
\* inbox); a failure or a cancelled context, a client's at any time, is an error.
Deliver(s) ==
    /\ pc[s] = "deliver"
    /\ \/ /\ s \notin cancelled
          /\ HandOver(Batch(s))
          /\ Goto(s, "write") /\ off' = [off EXCEPT ![s] = 0]
          /\ UNCHANGED <<seen, seeding, faults>>
       \/ Fault /\ EndScan(s) /\ UNCHANGED delivered
       \/ /\ s \in cancelled \cup Handlers
          /\ EndScan(s) /\ UNCHANGED <<faults, delivered>>
    /\ UNCHANGED <<fileVars, managerVars, fd, watched, stops>>

-----------------------------------------------------------------------------
(* WriteInboxMonitorCursor, of a scan, a seed or a handler.                 *)

\* os.WriteFile opens the temporary file, and empties it under whoever has it open.
WriteCursor(s) ==
    /\ pc[s] = "write"
    /\ \/ /\ tmp' = 0
          /\ fd' = [fd EXCEPT ![s] = "tmp"]
          /\ Goto(s, "fill")
          /\ UNCHANGED <<off, seen, seeding, faults>>
       \/ Fault /\ EndScan(s) /\ UNCHANGED <<tmp, fd>>
    /\ UNCHANGED <<inboxVars, cursor, managerVars, delivered, watched, stops>>

\* The offset, over what the file holds; of a longer one digits may remain.
Over(old, offset) ==
    IF old > offset \/ old = Corrupt THEN {offset, Corrupt} ELSE {offset}

\* It goes to the file that was opened, wherever a rename has put it by now.
FillCursor(s) ==
    /\ pc[s] = "fill"
    /\ tmp' \in IF fd[s] = "tmp" THEN Over(tmp, seen[s]) ELSE {tmp}
    /\ cursor' \in IF fd[s] = "cursor" THEN Over(cursor, seen[s]) ELSE {cursor}
    /\ fd' = [fd EXCEPT ![s] = "none"]
    /\ Leave(s, "rename")
    /\ UNCHANGED <<inboxVars, managerVars, seeding, historyVars>>

\* The rename takes what the name holds now, with every descriptor of it; without
\* one it is an error, for another writer has renamed it first.
RenameCursor(s) ==
    /\ pc[s] = "rename"
    /\ IF tmp = Absent
       THEN UNCHANGED <<cursor, tmp, fd>>
       ELSE /\ cursor' = tmp /\ tmp' = Absent
            /\ fd' = [x \in Scanners |-> CASE fd[x] = "tmp" -> "cursor"
                                            [] fd[x] = "cursor" -> "gone"
                                            [] OTHER -> fd[x]]
    /\ EndScan(s)
    /\ UNCHANGED <<inboxVars, managerVars, historyVars>>

-----------------------------------------------------------------------------
(* The handler of /api/inbox/notify.                                        *)

\* With a cursor the handler scans, without one it takes the latest entry.
NotifyCheck(h) ==
    /\ pc[h] = "check"
    /\ Goto(h, IF cursor = Absent THEN "latest" ELSE "cursor")
    /\ UNCHANGED <<fileVars, managerVars, off, seen, fdVars, historyVars>>

\* latestActionableInboxEntry, and its delivery.
NotifyLatest(h) ==
    /\ pc[h] = "latest"
    /\ \E e \in actionable :
         /\ \A f \in actionable : f <= e
         /\ \/ HandOver({e}) /\ Goto(h, "mark") /\ UNCHANGED faults
            \/ Fault /\ Goto(h, "off") /\ UNCHANGED delivered
    /\ UNCHANGED <<fileVars, managerVars, off, seen, fdVars, watched, stops>>

\* markInboxMonitorCursorAtEnd: the size it finds, written next.
NotifyMark(h) ==
    /\ pc[h] = "mark"
    /\ seen' = [seen EXCEPT ![h] = size]
    /\ Goto(h, "write")
    /\ UNCHANGED <<fileVars, managerVars, off, fdVars, historyVars>>

-----------------------------------------------------------------------------
(* The rest of the world.                                                   *)

\* The server dies and boots again: the files stay.
Restart ==
    /\ Fault
    /\ current' = NoRun /\ cancelled' = {}
    /\ pc' = [s \in Scanners |-> "off"]
    /\ off' = [s \in Scanners |-> 0]
    /\ seen' = [s \in Scanners |-> 0]
    /\ fd' = [s \in Scanners |-> "none"] /\ seeding' = {}
    /\ UNCHANGED <<needed, fileVars, delivered, watched, stops>>

ScanStep(s) ==
    \/ ReadCursor(s) \/ ReadInbox(s) \/ Deliver(s)
    \/ WriteCursor(s) \/ FillCursor(s) \/ RenameCursor(s)
RunStep(r) == SeedCheck(r) \/ SeedSize(r) \/ ScanStep(r) \/ Tick(r) \/ Exit(r)
HandlerStep(h) == NotifyCheck(h) \/ NotifyLatest(h) \/ NotifyMark(h) \/ ScanStep(h)

Next ==
    \/ Connector
    \/ \E h \in Handlers : Tell(h) \/ HandlerStep(h)
    \/ \E r \in Runs : Start(r) \/ RunStep(r)
    \/ Stop \/ Restart

Spec == Init /\ [][Next]_vars

\* Goroutines run on, a cancelled one perhaps for ever; the reconciler starts the
\* monitor that a task which needs one lacks; no session need ever end.
Fairness ==
    /\ \A r \in Runs : WF_vars(RunStep(r))
    /\ \A h \in Handlers : WF_vars(HandlerStep(h))
    /\ WF_vars(\E r \in Runs : Start(r))

FairSpec == Spec /\ Fairness

-----------------------------------------------------------------------------
(* Properties.                                                              *)

TypeOK ==
    /\ size \in 0..MaxEntries
    /\ actionable \subseteq 1..size
    /\ cursor \in Corrupt..size /\ tmp \in Corrupt..size
    /\ needed \in BOOLEAN
    /\ current \in Runs \cup {NoRun}
    /\ cancelled \subseteq Runs
    /\ pc \in [Scanners -> {"off", "check", "latest", "mark", "seed", "seedsize",
                            "cursor", "read", "deliver", "write", "fill", "rename", "sleep"}]
    /\ fd \in [Scanners -> {"none", "tmp", "cursor", "gone"}]
    /\ seeding \subseteq Runs
    /\ off \in [Scanners -> 0..size]
    /\ seen \in [Scanners -> 0..size]
    /\ delivered \subseteq 1..size
    /\ watched \subseteq 1..size
    /\ stops \in 0..MaxStops
    /\ faults \in 0..MaxFaults

\* Whatever the scanners and the generations do to each other, the cursor
\* never passes an actionable entry, appended to a settled cursor, that was
\* not handed over (inbox_monitor.go: "the cursor stays put, so nothing
\* is skipped").
NothingSkipped ==
    \A e \in watched \cap actionable : e <= cursor => e \in delivered

\* The map and the goroutines agree (inbox_monitor_manager.go): the task's entry
\* belongs to the one goroutine that runs and is not cancelled, so that a task whose
\* goroutine is gone has no entry and start makes a new one.
OneMonitor ==
    /\ \A r \in cancelled : pc[r] # "off"
    /\ \A r \in Runs : r = current <=> pc[r] # "off" /\ r \notin cancelled

Log == INSTANCE CursorLog WITH
    length <- size, due <- watched \cap actionable,
    settled <- delivered,
    cursor <- IF cursor < 0 THEN 0 ELSE cursor

\* The scanners and their one cursor file implement the abstract cursor: they append,
\* hand over and move, one at a time, and an entry that is due stays due.
ImplementsLog == Log!Spec

\* Again and again, all the actionable entries that have arrived to a settled cursor
\* have been handed over, through failures, stops and restarts, although scanners write
\* the cursor over each other: while the task needs a monitor, and unless two writers
\* of the one temporary file have left a cursor that no scan can parse.
EventDelivered ==
    []<>(watched \cap actionable \subseteq delivered \/ ~needed \/ cursor = Corrupt)
=============================================================================
