-------------------------------- MODULE AutoRun --------------------------------
(* Headless runs of tasks (app/auto.go, and app/do.go where it is called with   *)
(* --auto): a launcher claims the task's row, starts a detached supervisor and   *)
(* only then records it as running; the supervisor runs the agent, once more     *)
(* with the other provider when the first is out of credit, and records how it   *)
(* ended.  Whoever reads a row whose supervisor is gone marks it dead.  The       *)
(* processes share nothing but the rows, and no lock.  Steps and their effects on *)
(* the rows only: what starts a launcher, and what else a step does, is said by   *)
(* the module that composes this one (PlaybookSchedule).                          *)
EXTENDS Integers, FiniteSets

CONSTANTS
    MaxRuns,    \* bound: tasks
    MaxSups,    \* bound: supervisors, each with a process number of its own
    MaxFaults,  \* bound: deaths, failed launches and writes, reused numbers, readers
    Launchers   \* processes that run `flow do --auto`

ASSUME AutoRunAssumption ==
    MaxRuns \in Nat \ {0} /\ MaxSups \in Nat \ {0} /\ MaxFaults \in Nat

Runs == 1..MaxRuns
Pids == 1..MaxSups
NoPid == 0

VARIABLES
    task,   \* the rows: status, session_provider, session_id, auto_run_status and _pid
    lc,     \* where each launcher is, on which task; what it minted and started
    sup,    \* the process under each number
    seen,   \* tasks whose supervisor a reader of the row has found gone
    faults

autoVars == <<task, lc, sup, seen, faults>>

NoTask == [status |-> "none", prov |-> "claude", sid |-> "null", auto |-> "null", pid |-> NoPid]
Idle == [pc |-> "idle", run |-> 1, mint |-> "none", pid |-> NoPid]
NoProc == [pc |-> "none", run |-> 1, prov |-> "claude", end |-> "dead"]

AutoInit ==
    /\ task = [r \in Runs |-> NoTask]
    /\ lc = [l \in Launchers |-> Idle]
    /\ sup = [p \in Pids |-> NoProc]
    /\ seen = {}
    /\ faults = 0

Fault == faults < MaxFaults /\ faults' = faults + 1

\* a number may belong to a stranger once its supervisor is gone
Supervising == {p \in Pids : sup[p].pc \notin {"none", "gone", "stranger"}}
processAlive(p) == p \in Pids /\ sup[p].pc \notin {"none", "gone"}

Goto(l, label) == lc' = [lc EXCEPT ![l].pc = label]
Succeeds(l) == lc' = [lc EXCEPT ![l] = [Idle EXCEPT !.pc = "ok"]]
Row(r, row) == task' = [task EXCEPT ![r] = row]

-------------------------------------------------------------------------------
(* cmdDo --auto *)

\* The guard reads the row it loaded: a live supervisor refuses the launch, a dead
\* one is about to be marked so.  --force skips it.
Guard(l, force) ==
    /\ lc[l].pc = "load"
    /\ LET row == task[lc[l].run] IN
       Goto(l, IF force \/ row.auto # "running" THEN "claim"
               ELSE IF processAlive(row.pid) THEN "failed" ELSE "mark")
    /\ UNCHANGED <<task, sup, seen, faults>>

\* reconcileAutoRun: WHERE auto_run_status='running', whichever run that is by now.
MarkDead(r) ==
    IF task[r].auto = "running" THEN Row(r, [task[r] EXCEPT !.auto = "dead", !.pid = NoPid])
    ELSE UNCHANGED task

Mark(l) ==
    /\ lc[l].pc = "mark"
    /\ MarkDead(lc[l].run)
    /\ Goto(l, "claim")
    /\ UNCHANGED <<sup, seen, faults>>

\* The transaction: a done task is refused; a claude session is minted by the
\* launcher, a codex session is unknown until codex has begun.
Refuse(l) ==
    /\ lc[l].pc = "claim"
    /\ task[lc[l].run].status = "done"
    /\ Goto(l, "failed")
    /\ UNCHANGED <<task, sup, seen, faults>>

Claim(l, fresh) ==
    LET r == lc[l].run
        boot == fresh \/ task[r].sid = "null"
        claude == task[r].prov = "claude"
    IN
    /\ lc[l].pc = "claim"
    /\ task[r].status # "done"
    /\ Row(r, [task[r] EXCEPT !.status = "in-progress",
                              !.sid = IF ~boot THEN @ ELSE IF claude THEN l ELSE "null"])
    /\ lc' = [lc EXCEPT ![l].pc = "spawn",
                        ![l].mint = IF ~boot THEN "none" ELSE IF claude THEN l ELSE "codex"]
    /\ UNCHANGED <<sup, seen, faults>>

\* The worktree or the effort cannot be had: nothing is undone.
SetupFails(l) ==
    /\ lc[l].pc = "spawn"
    /\ Fault
    /\ Goto(l, "failed")
    /\ UNCHANGED <<task, sup, seen>>

IsNextPid(p) == sup[p].pc = "none" /\ \A q \in Pids : q < p => sup[q].pc # "none"

Spawn(l, p) ==
    /\ lc[l].pc = "spawn"
    /\ IsNextPid(p)
    /\ sup' = [sup EXCEPT ![p] = [NoProc EXCEPT !.pc = "start", !.run = lc[l].run,
                                                !.prov = task[lc[l].run].prov]]
    /\ lc' = [lc EXCEPT ![l].pc = "record", ![l].mint = "none", ![l].pid = p]
    /\ UNCHANGED <<task, seen, faults>>

SpawnFails(l) ==
    /\ lc[l].pc = "spawn"
    /\ Fault
    /\ Goto(l, IF lc[l].mint = "none" THEN "failed" ELSE "undo")
    /\ UNCHANGED <<task, sup, seen>>

\* rollbackAutoLaunchSession, unless another launch has changed the session since.
Undo(l) ==
    LET row == task[lc[l].run]
        mine == IF lc[l].mint = "codex" THEN row.prov = "codex" /\ row.sid = "null"
                ELSE row.sid = lc[l].mint
    IN
    /\ lc[l].pc = "undo"
    /\ IF mine
       THEN Row(lc[l].run, [row EXCEPT !.status = "backlog", !.sid = "null",
                                       !.auto = "null", !.pid = NoPid])
       ELSE UNCHANGED task
    /\ Goto(l, "failed")
    /\ UNCHANGED <<sup, seen, faults>>

\* recordAutoRunLaunched, however long ago the supervisor ended.  (The pause the
\* launch also clears is a row of PausedSession.)
Record(l) ==
    /\ lc[l].pc = "record"
    /\ Row(lc[l].run, [task[lc[l].run] EXCEPT !.auto = "running", !.pid = lc[l].pid])
    /\ Succeeds(l)
    /\ UNCHANGED <<sup, seen, faults>>

RecordFails(l) ==
    /\ lc[l].pc = "record"
    /\ Fault
    /\ Succeeds(l)
    /\ UNCHANGED <<task, sup, seen>>

LaunchStep(l) ==
    \/ Guard(l, FALSE) \/ Mark(l) \/ Refuse(l) \/ Claim(l, FALSE)
    \/ (\E p \in Pids : Spawn(l, p)) \/ Undo(l) \/ Record(l)

-------------------------------------------------------------------------------
(* cmdAutoExec, the supervisor *)

At(p, label) == sup[p].pc = label
Becomes(p, label) == sup' = [sup EXCEPT ![p].pc = label]
Leaves(p) == sup' = [sup EXCEPT ![p] = [NoProc EXCEPT !.pc = "gone"]]
Ends(p, status) == sup' = [sup EXCEPT ![p].pc = "final", ![p].end = status]

\* Without a session to name, claude is not run.
Start(p) ==
    /\ At(p, "start")
    /\ IF sup[p].prov = "claude" /\ task[sup[p].run].sid = "null"
       THEN Ends(p, "dead") ELSE Becomes(p, "agent")
    /\ UNCHANGED <<task, lc, seen, faults>>

\* "The self-done is the authoritative success signal", unless the agent failed.
\* Bound: the agent exits as soon as it has run `flow done`.
AgentExits(p) ==
    /\ sup[p].pc \in {"agent", "retry"}
    /\ \/ Ends(p, "completed") /\ task' = [task EXCEPT ![sup[p].run].status = "done"]
       \/ Ends(p, "dead") /\ UNCHANGED task
    /\ UNCHANGED <<lc, seen, faults>>

Other(prov) == IF prov = "claude" THEN "codex" ELSE "claude"

\* Mutant: the row is prepared for the retry as for a new run.
SwitchResets(p) ==
    /\ At(p, "agent")
    /\ LET prov == Other(sup[p].prov) IN
       /\ Row(sup[p].run, [task[sup[p].run] EXCEPT
                !.prov = prov, !.sid = IF prov = "claude" THEN "retry" ELSE "null",
                !.auto = "null", !.pid = NoPid])
       /\ sup' = [sup EXCEPT ![p].pc = "retry", ![p].prov = prov]
    /\ UNCHANGED <<lc, seen, faults>>

\* Out of credit: prepareAutoProviderRetry, and the agent once more.
Switch(p) ==
    /\ At(p, "agent")
    /\ LET prov == Other(sup[p].prov) IN
       /\ Row(sup[p].run, [task[sup[p].run] EXCEPT
                !.prov = prov, !.sid = IF prov = "claude" THEN "retry" ELSE "null"])
       /\ sup' = [sup EXCEPT ![p].pc = "retry", ![p].prov = prov]
    /\ UNCHANGED <<lc, seen, faults>>

\* Both providers are out of credit (the schedule is held, see PlaybookSchedule).
LimitedAgain(p) == At(p, "retry") /\ Ends(p, "dead") /\ UNCHANGED <<task, lc, seen, faults>>

\* finalizeAutoRun, whichever run the row shows by now.
Finalize(p) ==
    /\ At(p, "final")
    /\ Row(sup[p].run, [task[sup[p].run] EXCEPT !.auto = sup[p].end, !.pid = NoPid])
    /\ Leaves(p)
    /\ UNCHANGED <<lc, seen, faults>>

Die(p) ==
    /\ p \in Supervising
    /\ Fault
    /\ Leaves(p)
    /\ UNCHANGED <<task, lc, seen>>

\* A stranger takes the number of a supervisor that a row still names, and goes again.
Recycle(p) ==
    /\ At(p, "gone")
    /\ \E r \in Runs : task[r].pid = p
    /\ Fault
    /\ Becomes(p, "stranger")
    /\ UNCHANGED <<task, lc, seen>>

StrangerGone(p) ==
    /\ At(p, "stranger")
    /\ Becomes(p, "gone")
    /\ UNCHANGED <<task, lc, seen, faults>>

Supervise(p) ==
    \/ Start(p) \/ AgentExits(p) \/ Switch(p) \/ Finalize(p)
    \/ Die(p) \/ Recycle(p) \/ StrangerGone(p)

-------------------------------------------------------------------------------
(* `flow list`, `flow show task` and the terminal that is about to be opened *)

\* Mutant: nobody asks whether the process lives.
LookOnly(r) ==
    /\ seen = {}
    /\ task[r].auto = "running"
    /\ Fault
    /\ seen' = seen \cup {r}
    /\ UNCHANGED <<task, lc, sup>>

Look(r) ==
    /\ seen = {}                    \* bound: one reader at a time
    /\ task[r].auto = "running" /\ ~processAlive(task[r].pid)
    /\ Fault
    /\ seen' = seen \cup {r}
    /\ UNCHANGED <<task, lc, sup>>

GiveUp(r) ==
    /\ r \in seen
    /\ seen' = seen \ {r}
    /\ MarkDead(r)
    /\ UNCHANGED <<lc, sup, faults>>

-------------------------------------------------------------------------------
AutoTypeOK ==
    /\ task \in [Runs -> [status : {"none", "backlog", "in-progress", "done"},
                          prov : {"claude", "codex"},
                          sid : {"null", "retry"} \cup Launchers,
                          auto : {"null", "running", "completed", "dead"},
                          pid : Pids \cup {NoPid}]]
    /\ \A r \in Runs : task[r].pid # NoPid <=> task[r].auto = "running"
    /\ lc \in [Launchers ->
                 [pc : {"idle", "load", "mark", "claim", "spawn", "undo", "record", "ok", "failed"},
                  run : Runs, mint : {"none", "codex"} \cup Launchers, pid : Pids \cup {NoPid}]]
    /\ sup \in [Pids ->
                 [pc : {"none", "start", "agent", "retry", "final", "gone", "stranger"},
                  run : Runs, prov : {"claude", "codex"}, end : {"completed", "dead"}]]
    /\ seen \subseteq Runs
    /\ faults \in 0..MaxFaults
===============================================================================
