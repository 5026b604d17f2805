--------------------------- MODULE PlaybookSchedule ----------------------------
(* The scheduled runs of one playbook (app/playbook_schedule.go, flowdb/db.go,   *)
(* server/playbook_scheduler.go) over the headless runs of AutoRun.  The server's *)
(* ticker and a host's cron each run `flow playbook tick-due`: it lists what is    *)
(* due, passes over a playbook with a run in flight, else creates a run's task,    *)
(* launches it and only then moves the schedule on.  The operator's commands and   *)
(* the supervisor of a run that met both providers' limits write the same row.     *)
EXTENDS AutoRun

CONSTANTS
    Ticker,   \* the `flow playbook tick-due` the server starts every minute
    MaxOps    \* bound: the operator's commands, and what other launchers do

ASSUME PlaybookScheduleAssumption ==
    Ticker \in Launchers /\ MaxOps \in Nat

VARIABLES
    spec,        \* schedule_spec is set
    paused,      \* schedule_paused_at is set
    next,        \* next_fire_at: "none", "later", "due", or "reset", the end of a hold
    dp,          \* where each launcher is in its tick-due, or its `flow do --auto`
    ops,         \* what the operator and cron have done so far
    order,       \* history: what was said last: "fire", "quiet" (operator), "wait" (hold)
    early,       \* history: ticks that had listed the playbook before that
    overruled,   \* history: a hold lifted a pause, or a hold was written over
    odd          \* history: runs the overlap guard of another tick could not see

rowVars == <<spec, paused, next>>
orderVars == <<order, early, overruled>>
vars == <<autoVars, rowVars, dp, ops, orderVars, odd>>

Init ==
    /\ AutoInit
    /\ spec = TRUE /\ paused = FALSE /\ next = "later"
    /\ dp = [d \in Launchers |-> "idle"]
    /\ ops = 0
    /\ order = "fire" /\ early = {} /\ overruled = FALSE
    /\ odd = {}

Armed == spec /\ ~paused
Op == ops < MaxOps /\ ops' = ops + 1

-------------------------------------------------------------------------------
(* tick-due *)

\* DuePlaybooks
List(d) ==
    /\ dp[d] = "idle"
    /\ Armed /\ next = "due"
    /\ IF d = Ticker THEN UNCHANGED ops ELSE Op
    /\ dp' = [dp EXCEPT ![d] = "listed"]
    /\ UNCHANGED <<autoVars, rowVars, orderVars, odd>>

\* Mutant: a row that says running is believed.
RunningRow == \E r \in Runs : task[r].auto = "running"

playbookRunInFlight == \E r \in Runs : task[r].auto = "running" /\ processAlive(task[r].pid)

Overlaps(d) ==
    /\ dp[d] = "listed"
    /\ playbookRunInFlight
    /\ dp' = [dp EXCEPT ![d] = "skip"]
    /\ UNCHANGED <<autoVars, rowVars, ops, orderVars, odd>>

IsNextRun(r) == task[r].status = "none" /\ \A q \in Runs : q < r => task[q].status # "none"

\* ticks whose launch the guard of another cannot see yet
Launching == {d \in Launchers : dp[d] = "launch" /\ lc[d].pc \notin {"ok", "failed"}}

\* createPlaybookRun, and the launch begins
Create(d, r) ==
    /\ dp[d] = "listed"
    /\ IsNextRun(r)
    /\ Row(r, [NoTask EXCEPT !.status = "backlog"])
    /\ lc' = [lc EXCEPT ![d] = [Idle EXCEPT !.pc = "load", !.run = r]]
    /\ dp' = [dp EXCEPT ![d] = "launch"]
    /\ UNCHANGED <<sup, seen, rowVars, ops, orderVars>>

Fire(d, r) ==
    /\ ~playbookRunInFlight
    /\ Create(d, r)
    /\ odd' = odd \cup {lc[e].run : e \in Launching} \cup {q \in {r} : Launching # {}}
    /\ UNCHANGED faults

\* a list of the runs that cannot be read counts as one with none in flight
FireBlind(d, r) ==
    /\ playbookRunInFlight
    /\ Fault
    /\ Create(d, r)
    /\ odd' = odd \cup {r}

CreateFails(d) ==
    /\ dp[d] = "listed"
    /\ ~playbookRunInFlight
    /\ Fault
    /\ dp' = [dp EXCEPT ![d] = "skip"]
    /\ UNCHANGED <<task, lc, sup, seen, rowVars, ops, orderVars, odd>>

DispatchEnds(d) ==
    /\ dp' = [dp EXCEPT ![d] = "idle"]
    /\ lc' = [lc EXCEPT ![d] = Idle]
    /\ early' = early \ {d}
    /\ UNCHANGED <<task, sup, seen>>

\* the columns SetPlaybookNextFire and RecordPlaybookFired set, whatever the row says
MovesOn ==
    /\ next' = "later"
    /\ overruled' = (overruled \/ next = "reset")
    /\ UNCHANGED <<spec, paused, order>>

Skip(d) ==
    /\ dp[d] = "skip" \/ (dp[d] = "launch" /\ lc[d].pc = "failed")
    /\ MovesOn
    /\ DispatchEnds(d)
    /\ UNCHANGED <<faults, ops, odd>>

\* Mutant: the fire is recorded with the flag of the row it listed.
RecordFiredArmed(d) ==
    /\ dp[d] = "launch" /\ lc[d].pc = "ok"
    /\ next' = "later" /\ paused' = FALSE
    /\ overruled' = (overruled \/ next = "reset")
    /\ DispatchEnds(d)
    /\ UNCHANGED <<spec, order, faults, ops, odd>>

RecordFired(d) ==
    /\ dp[d] = "launch" /\ lc[d].pc = "ok"
    /\ MovesOn
    /\ DispatchEnds(d)
    /\ UNCHANGED <<faults, ops, odd>>

\* The tick is killed after its two minutes, or with the server.
KillTick(d) ==
    /\ dp[d] # "idle"
    /\ Fault
    /\ DispatchEnds(d)
    /\ odd' = odd \cup {r \in Runs : lc[d].pc = "record" /\ lc[d].run = r}
    /\ UNCHANGED <<rowVars, ops, order, overruled>>

-------------------------------------------------------------------------------
(* The runs *)

Rest == <<rowVars, ops, orderVars>>

Launch(d) == LaunchStep(d) /\ UNCHANGED <<Rest, dp, odd>>

LaunchFault(d) ==
    /\ SetupFails(d) \/ SpawnFails(d) \/ RecordFails(d)
    /\ odd' = odd \cup {r \in Runs : lc[d].pc = "record" /\ lc[d].run = r}
    /\ UNCHANGED <<Rest, dp>>

\* `flow do <run> --auto`, perhaps with --force or --fresh
Relaunch(d, r) ==
    /\ d # Ticker
    /\ dp[d] = "idle"
    /\ task[r].status # "none"
    /\ Op
    /\ dp' = [dp EXCEPT ![d] = "again"]
    /\ lc' = [lc EXCEPT ![d] = [Idle EXCEPT !.pc = "load", !.run = r]]
    /\ odd' = odd \cup {r}
    /\ UNCHANGED <<task, sup, seen, faults, rowVars, orderVars>>

Options(d) ==
    /\ dp[d] = "again"
    /\ Guard(d, TRUE) \/ Claim(d, TRUE)
    /\ UNCHANGED <<Rest, dp, odd>>

RelaunchEnds(d) ==
    /\ dp[d] = "again" /\ lc[d].pc \in {"ok", "failed"}
    /\ DispatchEnds(d)
    /\ UNCHANGED <<faults, rowVars, ops, order, overruled, odd>>

Run(p) == Supervise(p) /\ UNCHANGED <<Rest, dp, odd>>
Reconcile(r) == (Look(r) \/ GiveUp(r)) /\ UNCHANGED <<Rest, dp, odd>>

Ticking == {d \in Launchers : dp[d] \notin {"idle", "again"}}

\* HoldPlaybookSchedule: a schedule that has been cleared is left alone, a pause lifted.
Hold(p) ==
    /\ LimitedAgain(p)
    /\ IF spec
       THEN /\ paused' = FALSE /\ next' = "reset"
            /\ IF order = "quiet"
               THEN overruled' = TRUE /\ UNCHANGED <<order, early>>
               ELSE order' = "wait" /\ early' = Ticking /\ overruled' = FALSE
       ELSE UNCHANGED <<paused, next, orderVars>>
    /\ UNCHANGED <<spec, dp, ops, odd>>

-------------------------------------------------------------------------------
(* The operator and the clock *)

Command(said) ==
    /\ Op
    /\ order' = said /\ overruled' = FALSE
    /\ early' = IF said = "fire" THEN {} ELSE Ticking
    /\ UNCHANGED <<autoVars, dp, odd>>

\* SetPlaybookSchedule also resumes; ResumePlaybookSchedule needs a schedule
Resume == Command("fire") /\ spec' = TRUE /\ paused' = FALSE /\ next' = "later"
Pause == Command("quiet") /\ spec /\ paused' = TRUE /\ next' = "none" /\ UNCHANGED spec
Clear == Command("quiet") /\ spec' = FALSE /\ paused' = FALSE /\ next' = "none"

ComesDue ==
    /\ next = "later"
    /\ next' = "due"
    /\ UNCHANGED <<autoVars, spec, paused, dp, ops, orderVars, odd>>

ResetPasses ==
    /\ next = "reset" \/ order = "wait"
    /\ next' = IF next = "reset" THEN "due" ELSE next
    /\ order' = IF order = "wait" THEN "fire" ELSE order
    /\ overruled' = (overruled /\ order # "wait")
    /\ UNCHANGED <<autoVars, spec, paused, dp, ops, early, odd>>

Dispatch(d) ==
    List(d) \/ Overlaps(d) \/ (\E r \in Runs : Fire(d, r)) \/ Skip(d) \/ RecordFired(d) \/ Launch(d)

Next ==
    \/ \E d \in Launchers :
          \/ Dispatch(d) \/ CreateFails(d) \/ LaunchFault(d) \/ KillTick(d)
          \/ Options(d) \/ RelaunchEnds(d) \/ \E r \in Runs : FireBlind(d, r) \/ Relaunch(d, r)
    \/ \E p \in Pids : Run(p) \/ Hold(p)
    \/ \E r \in Runs : Reconcile(r)
    \/ Resume \/ Pause \/ Clear \/ ComesDue \/ ResetPasses

Spec == Init /\ [][Next]_vars

\* The ticker fires every minute and waits for its child, the child gets on, and
\* time passes.  Cron, the operator's shells, agents and strangers may stop for good.
FairSpec ==
    /\ Spec
    /\ WF_vars(Dispatch(Ticker))
    /\ WF_vars(ComesDue \/ ResetPasses)

-------------------------------------------------------------------------------
TypeOK ==
    /\ AutoTypeOK
    /\ spec \in BOOLEAN /\ paused \in BOOLEAN
    /\ next \in {"none", "later", "due", "reset"}
    /\ dp \in [Launchers -> {"idle", "listed", "skip", "launch", "again"}]
    /\ ops \in 0..MaxOps
    /\ order \in {"fire", "quiet", "wait"}
    /\ early \subseteq Ticking
    /\ overruled \in BOOLEAN
    /\ odd \subseteq Runs

\* "The scheduler skips a fire if a prior run is still in flight" (README): two runs
\* of the playbook are supervised at once, or one of them twice, only when one was
\* created while another tick was launching the other or although the list of runs
\* could not be read, was never recorded because its launcher failed or was killed, or
\* was launched again by the operator.
NoOverlap ==
    \A p, q \in Supervising : p = q \/ sup[p].run \in odd \/ sup[q].run \in odd

\* What the guard, `flow list` and the overlap check go by: the row of a run names the
\* process that supervises it (recordAutoRunLaunched, finalizeAutoRun), or its launcher
\* is about to write it, whatever readers, retries, deaths and strangers make of the
\* number meanwhile, but for the same runs set aside.
SupervisorShown ==
    \A p \in Supervising :
        \/ sup[p].run \in odd
        \/ task[sup[p].run].auto = "running" /\ task[sup[p].run].pid = p
        \/ \E l \in Launchers : lc[l].pc = "record" /\ lc[l].run = sup[p].run /\ lc[l].pid = p

\* A schedule that is armed has a time to fire (DuePlaybooks lists no row without one),
\* although a late record, a hold and the operator write the three columns each for
\* itself and none of them reads the others first.
ArmedHasFire == Armed => next # "none"

\* A schedule the operator has paused or cleared, or that waits for a provider's
\* reset, starts a run only through a tick that had listed it before, or after
\* the wait was written over by a tick's late record or the pause lifted by a
\* run's hold.
QuietKept ==
    [][\A d \in Launchers :
          dp[d] = "listed" /\ dp'[d] = "launch"
          => order = "fire" \/ d \in early \/ overruled]_vars

\* An armed schedule goes on firing: it is not stuck behind the row of a run that
\* crashed, a tick that was killed, a pause that was lifted or a hold that has passed,
\* only behind a process that lives.  (Runs are finite here.)
Busy == \E p \in Pids : processAlive(p)
Fired == \E d \in Launchers : dp[d] = "launch"
Spent == \A r \in Runs : task[r].status # "none"
ScheduleFires == Armed ~> (~Armed \/ Busy \/ Fired \/ Spent)
===============================================================================
