---------------------------- MODULE ScheduleProofs -----------------------------
(***************************************************************************)
(* Proofs about the two schedules: PlaybookSchedule, for any launchers,    *)
(* runs, processes, commands and faults (types, the word of the operator   *)
(* and of a hold, one run at a time), and, through an instance, OwnerTick. *)
(***************************************************************************)
EXTENDS PlaybookSchedule, TLAPS

-----------------------------------------------------------------------------
(* Types.                                                                   *)

\* The rows, what the launchers are doing, and the processes.
Rows == [status : {"none", "backlog", "in-progress", "done"}, prov : {"claude", "codex"},
         sid : {"null", "retry"} \cup Launchers, auto : {"null", "running", "completed", "dead"},
         pid : Pids \cup {NoPid}]
Calls == [pc : {"idle", "load", "mark", "claim", "spawn", "undo", "record", "ok", "failed"},
          run : Runs, mint : {"none", "codex"} \cup Launchers, pid : Pids \cup {NoPid}]
Procs == [pc : {"none", "start", "agent", "retry", "final", "gone", "stranger"},
          run : Runs, prov : {"claude", "codex"}, end : {"completed", "dead"}]

\* A row names a process exactly when it says running.
Whole(row) == row \in Rows /\ (row.pid # NoPid <=> row.auto = "running")

\* A launcher about to record has a process to record.
Called(call) == call \in Calls /\ (call.pc = "record" => call.pid \in Pids)

TaskTyped == task \in [Runs -> Rows] /\ \A r \in Runs : Whole(task[r])
CallTyped == lc \in [Launchers -> Calls] /\ \A l \in Launchers : Called(lc[l])
ProcTyped == sup \in [Pids -> Procs]
AutoInv == TaskTyped /\ CallTyped /\ ProcTyped /\ seen \subseteq Runs /\ faults \in 0..MaxFaults

LEMMA AutoInvTyped == AutoInv => AutoTypeOK
  BY DEF AutoInv, TaskTyped, CallTyped, ProcTyped, Whole, AutoTypeOK, Rows, Calls, Procs

LEMMA NoPidIsNone == NoPid \notin Pids
  BY DEF NoPid, Pids

LEMMA FirstRun == 1 \in Runs
  BY AutoRunAssumption DEF Runs

LEMMA BlankTyped == Whole(NoTask) /\ Called(Idle) /\ NoProc \in Procs
  BY FirstRun DEF Whole, NoTask, Rows, Called, Idle, Calls, NoProc, Procs

LEMMA RowTyped ==
    ASSUME AutoInv, NEW r \in Runs, NEW row, Whole(row), Row(r, row)
    PROVE  TaskTyped'
  BY DEF AutoInv, TaskTyped, Row, Whole

LEMMA CallSet ==
    ASSUME AutoInv, NEW l \in Launchers, NEW call, Called(call), lc' = [lc EXCEPT ![l] = call]
    PROVE  CallTyped'
  BY DEF AutoInv, CallTyped, Called

LEMMA GotoTyped ==
    ASSUME AutoInv, NEW l \in Launchers,
           NEW label \in {"idle", "load", "mark", "claim", "spawn", "undo", "ok", "failed"},
           Goto(l, label)
    PROVE  CallTyped'
  BY DEF AutoInv, CallTyped, Called, Goto, Calls

LEMMA FaultTyped == ASSUME AutoInv, Fault PROVE faults' \in 0..MaxFaults
  BY AutoRunAssumption DEF AutoInv, Fault

LEMMA MarkDeadTyped == ASSUME AutoInv, NEW r \in Runs, MarkDead(r) PROVE TaskTyped'
<1> DEFINE row == [task[r] EXCEPT !.auto = "dead", !.pid = NoPid]
<1>1. task[r] \in Rows
  BY DEF AutoInv, TaskTyped
<1>2. Whole(row)
  BY <1>1 DEF Whole, Rows
<1>3. CASE Row(r, row)
  BY <1>2, <1>3, RowTyped
<1>4. CASE UNCHANGED task
  BY <1>4 DEF AutoInv, TaskTyped, Whole, Rows, Runs, Pids
<1> QED BY <1>3, <1>4 DEF MarkDead

\* The steps of a launcher.
LauncherSteps(l) ==
    \/ LaunchStep(l) \/ Guard(l, TRUE) \/ Claim(l, TRUE)
    \/ SetupFails(l) \/ SpawnFails(l) \/ RecordFails(l)

LEMMA LauncherTyped ==
    ASSUME AutoInv, NEW l \in Launchers, LauncherSteps(l)
    PROVE  AutoInv'
<1>0. lc[l] \in Calls /\ lc[l].run \in Runs /\ task[lc[l].run] \in Rows
  BY DEF AutoInv, CallTyped, TaskTyped, Calls
<1>s. UNCHANGED sup => ProcTyped'
  BY DEF AutoInv, ProcTyped, Procs, Pids, Runs
<1>t. UNCHANGED task => TaskTyped'
  BY DEF AutoInv, TaskTyped, Whole, Rows, Runs, Pids
<1>r. UNCHANGED <<seen>> => seen' \subseteq Runs
  BY DEF AutoInv, Runs
<1>f. UNCHANGED <<faults>> => faults' \in 0..MaxFaults
  BY DEF AutoInv
<1>1. ASSUME NEW force \in BOOLEAN, Guard(l, force) PROVE AutoInv'
  <2>1. PICK label \in {"claim", "failed", "mark"} : Goto(l, label)
    BY <1>1 DEF Guard
  <2>2. UNCHANGED <<task, sup, seen, faults>>
    BY <1>1 DEF Guard
  <2> QED BY <2>1, <2>2, <1>s, <1>t, <1>r, <1>f, GotoTyped DEF AutoInv
<1>2. CASE Mark(l)
  <2>1. MarkDead(lc[l].run) /\ Goto(l, "claim") /\ UNCHANGED <<sup, seen, faults>>
    BY <1>2 DEF Mark
  <2> QED BY <2>1, <1>0, <1>s, <1>r, <1>f, GotoTyped, MarkDeadTyped DEF AutoInv
<1>3. CASE Refuse(l)
  <2>1. Goto(l, "failed") /\ UNCHANGED <<task, sup, seen, faults>>
    BY <1>3 DEF Refuse
  <2> QED BY <2>1, <1>s, <1>t, <1>r, <1>f, GotoTyped DEF AutoInv
<1>4. ASSUME NEW fresh \in BOOLEAN, Claim(l, fresh) PROVE AutoInv'
  <2>1. PICK sid \in {"null", "retry"} \cup Launchers :
            Row(lc[l].run, [task[lc[l].run] EXCEPT !.status = "in-progress", !.sid = sid])
    BY <1>0, <1>4 DEF Claim, Rows
  <2>2. PICK mint \in {"none", "codex"} \cup Launchers :
            lc' = [lc EXCEPT ![l].pc = "spawn", ![l].mint = mint]
    BY <1>4 DEF Claim
  <2>3. UNCHANGED <<sup, seen, faults>>
    BY <1>4 DEF Claim
  <2>4. Whole([task[lc[l].run] EXCEPT !.status = "in-progress", !.sid = sid])
    BY <1>0 DEF AutoInv, TaskTyped, Whole, Rows
  <2>5. CallTyped'
    BY <1>0, <2>2 DEF AutoInv, CallTyped, Called, Calls
  <2> QED BY <1>0, <2>1, <2>3, <2>4, <2>5, <1>s, <1>r, <1>f, RowTyped DEF AutoInv
<1>5. CASE SetupFails(l) \/ SpawnFails(l)
  <2>1. PICK label \in {"failed", "undo"} : Goto(l, label)
    BY <1>5 DEF SetupFails, SpawnFails
  <2>2. Fault /\ UNCHANGED <<task, sup, seen>>
    BY <1>5 DEF SetupFails, SpawnFails
  <2> QED BY <2>1, <2>2, <1>s, <1>t, <1>r, GotoTyped, FaultTyped DEF AutoInv
<1>6. ASSUME NEW p \in Pids, Spawn(l, p) PROVE AutoInv'
  <2>1. CallTyped'
    BY <1>0, <1>6 DEF Spawn, AutoInv, CallTyped, Called, Calls
  <2>2. ProcTyped'
    <3>1. [NoProc EXCEPT !.pc = "start", !.run = lc[l].run,
                         !.prov = task[lc[l].run].prov] \in Procs
      BY <1>0 DEF NoProc, Procs, Rows
    <3> QED BY <1>6, <3>1 DEF Spawn, AutoInv, ProcTyped
  <2>3. UNCHANGED <<task, seen, faults>>
    BY <1>6 DEF Spawn
  <2> QED BY <2>1, <2>2, <2>3, <1>t, <1>r, <1>f DEF AutoInv
<1>7. CASE Undo(l)
  <2> DEFINE row == [task[lc[l].run] EXCEPT !.status = "backlog", !.sid = "null",
                                            !.auto = "null", !.pid = NoPid]
  <2>1. Row(lc[l].run, row) \/ UNCHANGED task
    BY <1>7 DEF Undo
  <2>2. Goto(l, "failed") /\ UNCHANGED <<sup, seen, faults>>
    BY <1>7 DEF Undo
  <2>3. Whole(row)
    BY <1>0 DEF Whole, Rows
  <2> HIDE DEF row
  <2>4. TaskTyped'
    BY <1>0, <2>1, <2>3, <1>t, RowTyped
  <2> QED BY <2>2, <2>4, <1>s, <1>r, <1>f, GotoTyped DEF AutoInv
<1>8. Succeeds(l) => CallTyped'
  <2>1. Called([Idle EXCEPT !.pc = "ok"])
    BY FirstRun DEF Called, Idle, Calls
  <2> QED BY <2>1, CallSet DEF Succeeds
<1>9. CASE Record(l)
  <2> DEFINE row == [task[lc[l].run] EXCEPT !.auto = "running", !.pid = lc[l].pid]
  <2>1. Row(lc[l].run, row) /\ Succeeds(l) /\ lc[l].pc = "record" /\ UNCHANGED <<sup, seen, faults>>
    BY <1>9 DEF Record
  <2>2. lc[l].pid \in Pids
    BY <2>1 DEF AutoInv, CallTyped, Called
  <2>3. Whole(row)
    BY <1>0, <2>2, NoPidIsNone DEF Whole, Rows
  <2> HIDE DEF row
  <2> QED BY <1>0, <1>8, <2>1, <2>3, <1>s, <1>r, <1>f, RowTyped DEF AutoInv
<1>10. CASE RecordFails(l)
  <2>1. Fault /\ Succeeds(l) /\ UNCHANGED <<task, sup, seen>>
    BY <1>10 DEF RecordFails
  <2> QED BY <1>8, <2>1, <1>s, <1>t, <1>r, FaultTyped DEF AutoInv
<1> QED
  BY <1>1, <1>2, <1>3, <1>4, <1>5, <1>6, <1>7, <1>9, <1>10 DEF LauncherSteps, LaunchStep

\* The steps of a process.
LEMMA ProcStepTyped ==
    ASSUME AutoInv, NEW p \in Pids, Supervise(p) \/ LimitedAgain(p)
    PROVE  AutoInv'
<1>0. sup[p] \in Procs /\ sup[p].run \in Runs /\ task[sup[p].run] \in Rows
  BY DEF AutoInv, ProcTyped, TaskTyped, Procs
<1>l. UNCHANGED lc => CallTyped'
  BY DEF AutoInv, CallTyped, Called, Calls, Pids, Runs
<1>t. UNCHANGED task => TaskTyped'
  BY DEF AutoInv, TaskTyped, Whole, Rows, Runs, Pids
<1>r. UNCHANGED seen => seen' \subseteq Runs
  BY DEF AutoInv, Runs
<1>f. UNCHANGED faults => faults' \in 0..MaxFaults
  BY DEF AutoInv
<1>b. ASSUME NEW label \in {"agent", "retry", "final", "gone", "stranger"}, Becomes(p, label)
      PROVE  ProcTyped'
  BY <1>b, <1>0 DEF Becomes, AutoInv, ProcTyped, Procs
<1>e. ASSUME NEW end \in {"completed", "dead"}, Ends(p, end) PROVE ProcTyped'
  BY <1>e, <1>0 DEF Ends, AutoInv, ProcTyped, Procs
<1>g. Leaves(p) => ProcTyped'
  <2>1. [NoProc EXCEPT !.pc = "gone"] \in Procs
    BY BlankTyped DEF Procs
  <2> QED BY <2>1 DEF Leaves, AutoInv, ProcTyped
<1>1. CASE Start(p)
  <2>1. Ends(p, "dead") \/ Becomes(p, "agent")
    BY <1>1 DEF Start
  <2>2. UNCHANGED <<task, lc, seen, faults>>
    BY <1>1 DEF Start
  <2> QED BY <2>1, <2>2, <1>b, <1>e, <1>l, <1>t, <1>r, <1>f DEF AutoInv
<1>2. CASE AgentExits(p)
  <2>1. \E end \in {"completed", "dead"} : Ends(p, end)
    BY <1>2 DEF AgentExits
  <2>2. TaskTyped'
    <3>1. task' = [task EXCEPT ![sup[p].run].status = "done"] \/ UNCHANGED task
      BY <1>2 DEF AgentExits
    <3>2. CASE task' = [task EXCEPT ![sup[p].run].status = "done"]
      BY <1>0, <3>2 DEF AutoInv, TaskTyped, Whole, Rows
    <3> QED BY <3>1, <3>2, <1>t
  <2>3. UNCHANGED <<lc, seen, faults>>
    BY <1>2 DEF AgentExits
  <2> QED BY <2>1, <2>2, <2>3, <1>e, <1>l, <1>r, <1>f DEF AutoInv
<1>3. CASE Switch(p)
  <2>1. Other(sup[p].prov) \in {"claude", "codex"}
    BY DEF Other
  <2>2. PICK sid \in {"retry", "null"} :
            Row(sup[p].run, [task[sup[p].run] EXCEPT !.prov = Other(sup[p].prov), !.sid = sid])
    BY <1>3 DEF Switch
  <2>3. Whole([task[sup[p].run] EXCEPT !.prov = Other(sup[p].prov), !.sid = sid])
    BY <1>0, <2>1 DEF AutoInv, TaskTyped, Whole, Rows
  <2>4. ProcTyped'
    BY <1>0, <1>3, <2>1 DEF Switch, AutoInv, ProcTyped, Procs
  <2>5. UNCHANGED <<lc, seen, faults>>
    BY <1>3 DEF Switch
  <2> QED BY <1>0, <2>2, <2>3, <2>4, <2>5, <1>l, <1>r, <1>f, RowTyped DEF AutoInv
<1>4. CASE LimitedAgain(p)
  <2>1. Ends(p, "dead") /\ UNCHANGED <<task, lc, seen, faults>>
    BY <1>4 DEF LimitedAgain
  <2> QED BY <2>1, <1>e, <1>l, <1>t, <1>r, <1>f DEF AutoInv
<1>5. CASE Finalize(p)
  <2> DEFINE row == [task[sup[p].run] EXCEPT !.auto = sup[p].end, !.pid = NoPid]
  <2>1. Row(sup[p].run, row) /\ Leaves(p) /\ UNCHANGED <<lc, seen, faults>>
    BY <1>5 DEF Finalize
  <2>2. Whole(row)
    BY <1>0 DEF Whole, Rows, Procs
  <2> HIDE DEF row
  <2> QED BY <1>0, <2>1, <2>2, <1>g, <1>l, <1>r, <1>f, RowTyped DEF AutoInv
<1>6. CASE Die(p)
  <2>1. Fault /\ Leaves(p) /\ UNCHANGED <<task, lc, seen>>
    BY <1>6 DEF Die
  <2> QED BY <2>1, <1>g, <1>l, <1>t, <1>r, FaultTyped DEF AutoInv
<1>7. CASE Recycle(p)
  <2>1. Fault /\ Becomes(p, "stranger") /\ UNCHANGED <<task, lc, seen>>
    BY <1>7 DEF Recycle
  <2> QED BY <2>1, <1>b, <1>l, <1>t, <1>r, FaultTyped DEF AutoInv
<1>8. CASE StrangerGone(p)
  <2>1. Becomes(p, "gone") /\ UNCHANGED <<task, lc, seen, faults>>
    BY <1>8 DEF StrangerGone
  <2> QED BY <2>1, <1>b, <1>l, <1>t, <1>r, <1>f DEF AutoInv
<1> QED
  BY <1>1, <1>2, <1>3, <1>4, <1>5, <1>6, <1>7, <1>8 DEF Supervise

LEMMA ReaderTyped ==
    ASSUME AutoInv, NEW r \in Runs, Look(r) \/ GiveUp(r)
    PROVE  AutoInv'
<1>l. UNCHANGED lc => CallTyped'
  BY DEF AutoInv, CallTyped, Called, Calls, Pids, Runs
<1>s. UNCHANGED sup => ProcTyped'
  BY DEF AutoInv, ProcTyped, Procs, Pids, Runs
<1>1. CASE Look(r)
  <2>1. Fault /\ UNCHANGED <<task, lc, sup>> /\ seen' = seen \cup {r}
    BY <1>1 DEF Look
  <2>2. TaskTyped'
    BY <2>1 DEF AutoInv, TaskTyped, Whole, Rows, Runs, Pids
  <2> QED BY <2>1, <2>2, <1>l, <1>s, FaultTyped DEF AutoInv
<1>2. CASE GiveUp(r)
  <2>1. MarkDead(r) /\ UNCHANGED <<lc, sup, faults>> /\ seen' = seen \ {r}
    BY <1>2 DEF GiveUp
  <2> QED BY <2>1, <1>l, <1>s, MarkDeadTyped DEF AutoInv
<1> QED BY <1>1, <1>2

LEMMA AutoSame == ASSUME AutoInv, UNCHANGED autoVars PROVE AutoInv'
  BY DEF AutoInv, autoVars, TaskTyped, CallTyped, ProcTyped, Whole, Called, Rows, Calls, Procs, Runs, Pids

\* A tick begins or ends.
LEMMA TickTyped ==
    ASSUME AutoInv, NEW d \in Launchers, UNCHANGED <<sup, seen>>,
           faults' = faults \/ Fault,
           \/ UNCHANGED task /\ lc' = [lc EXCEPT ![d] = Idle]
           \/ /\ \E r \in Runs : lc' = [lc EXCEPT ![d] = [Idle EXCEPT !.pc = "load", !.run = r]]
              /\ UNCHANGED task \/ \E r \in Runs : Row(r, [NoTask EXCEPT !.status = "backlog"])
    PROVE  AutoInv'
<1>1. ProcTyped' /\ seen' \subseteq Runs /\ faults' \in 0..MaxFaults
  BY FaultTyped DEF AutoInv, ProcTyped, Procs, Pids, Runs
<1>2. TaskTyped'
  <2>1. CASE UNCHANGED task
    BY <2>1 DEF AutoInv, TaskTyped, Whole, Rows, Runs, Pids
  <2>2. Whole([NoTask EXCEPT !.status = "backlog"])
    BY BlankTyped DEF Whole, Rows, NoTask
  <2> QED BY <2>1, <2>2, RowTyped
<1>3. CallTyped'
  <2>1. \A r \in Runs : Called([Idle EXCEPT !.pc = "load", !.run = r])
    BY FirstRun DEF Idle, Called, Calls
  <2> QED BY <2>1, BlankTyped, CallSet
<1> QED BY <1>1, <1>2, <1>3 DEF AutoInv

\* What a tick and the schedule hold.
Places == {"idle", "listed", "skip", "launch", "again"}
SchedInv ==
    /\ spec \in BOOLEAN /\ paused \in BOOLEAN
    /\ next \in {"none", "later", "due", "reset"}
    /\ dp \in [Launchers -> Places]
    /\ ops \in 0..MaxOps
    /\ order \in {"fire", "quiet", "wait"}
    /\ early \subseteq Ticking
    /\ overruled \in BOOLEAN
    /\ odd \subseteq Runs

TypeInv == AutoInv /\ SchedInv

LEMMA TypeInvTyped == TypeInv => TypeOK
  BY AutoInvTyped DEF TypeInv, SchedInv, TypeOK, Places

LEMMA InitTyped == Init => TypeInv
<1> SUFFICES ASSUME Init PROVE TypeInv
  OBVIOUS
<1>1. task = [r \in Runs |-> NoTask] /\ lc = [l \in Launchers |-> Idle] /\ sup = [p \in Pids |-> NoProc]
  BY DEF Init, AutoInit
<1>2. TaskTyped /\ CallTyped /\ ProcTyped
  BY <1>1, BlankTyped DEF TaskTyped, CallTyped, ProcTyped, Whole, Called
<1>3. seen = {} /\ faults \in 0..MaxFaults
  BY AutoRunAssumption DEF Init, AutoInit
<1>4. dp \in [Launchers -> Places] /\ ops \in 0..MaxOps /\ early = {} /\ odd = {}
  BY PlaybookScheduleAssumption DEF Init, Places
<1>5. /\ spec \in BOOLEAN /\ paused \in BOOLEAN /\ overruled \in BOOLEAN
      /\ next = "later" /\ order = "fire"
  BY DEF Init
<1> QED BY <1>2, <1>3, <1>4, <1>5 DEF TypeInv, AutoInv, SchedInv

LEMMA OpTyped == ASSUME SchedInv, Op \/ UNCHANGED ops PROVE ops' \in 0..MaxOps
  BY PlaybookScheduleAssumption DEF SchedInv, Op

\* A launcher goes from one place to another and stays among those that tick if it
\* was one of them.
LEMMA PlaceTyped ==
    ASSUME SchedInv, NEW d \in Launchers, NEW place \in Places, dp' = [dp EXCEPT ![d] = place],
           early' = early, d \in Ticking => place \notin {"idle", "again"}
    PROVE  dp' \in [Launchers -> Places] /\ early' \subseteq Ticking'
<1>1. dp \in [Launchers -> Places] /\ early \subseteq Ticking
  BY DEF SchedInv
<1>2. Ticking \subseteq Ticking'
  BY <1>1 DEF Ticking
<1> QED BY <1>1, <1>2

LEMMA EndsTyped ==
    ASSUME SchedInv, NEW d \in Launchers, DispatchEnds(d)
    PROVE  dp' \in [Launchers -> Places] /\ early' \subseteq Ticking'
<1>1. dp \in [Launchers -> Places] /\ early \subseteq Ticking
  BY DEF SchedInv
<1>2. dp' = [dp EXCEPT ![d] = "idle"] /\ early' = early \ {d}
  BY DEF DispatchEnds
<1>3. Ticking \ {d} \subseteq Ticking'
  BY <1>1, <1>2 DEF Ticking
<1>4. dp' \in [Launchers -> Places]
  BY <1>1, <1>2 DEF Places
<1> QED BY <1>1, <1>2, <1>3, <1>4

LEMMA TickingSame == UNCHANGED dp => Ticking' = Ticking
  BY DEF Ticking

LEMMA DispatchSched ==
    ASSUME TypeInv, NEW d \in Launchers,
           \/ List(d) \/ Overlaps(d) \/ CreateFails(d)
           \/ \E r \in Runs : Fire(d, r) \/ FireBlind(d, r) \/ Relaunch(d, r)
    PROVE  SchedInv'
<1> USE DEF TypeInv
<1>1. UNCHANGED <<spec, paused, next, order, early, overruled>> /\ (Op \/ UNCHANGED ops)
  BY DEF List, Overlaps, Fire, FireBlind, Create, Relaunch, CreateFails, rowVars, orderVars
<1>2. odd' \subseteq Runs
  <2>1. {lc[e].run : e \in Launching} \subseteq Runs
    BY DEF Launching, AutoInv, CallTyped, Calls
  <2>2. ASSUME NEW r \in Runs, Fire(d, r) PROVE odd' \subseteq Runs
    <3>1. odd' = odd \cup {lc[e].run : e \in Launching} \cup {q \in {r} : Launching # {}}
      BY <2>2 DEF Fire
    <3> QED BY <2>1, <3>1 DEF SchedInv
  <2>3. ASSUME NEW r \in Runs, FireBlind(d, r) \/ Relaunch(d, r) PROVE odd' \subseteq Runs
    BY <2>3 DEF FireBlind, Relaunch, SchedInv
  <2>4. List(d) \/ Overlaps(d) \/ CreateFails(d) => odd' = odd
    BY DEF List, Overlaps, CreateFails
  <2> QED BY <2>2, <2>3, <2>4 DEF SchedInv
<1>3. PICK place \in Places :
          /\ dp' = [dp EXCEPT ![d] = place]
          /\ d \in Ticking => place \notin {"idle", "again"}
  <2>1. CASE List(d) BY <2>1 DEF List, Places
  <2>2. CASE Overlaps(d) BY <2>2 DEF Overlaps, Places
  <2>3. ASSUME NEW r \in Runs, Fire(d, r) \/ FireBlind(d, r) \/ Relaunch(d, r)
        PROVE  \E place \in Places :
                  /\ dp' = [dp EXCEPT ![d] = place]
                  /\ d \in Ticking => place \notin {"idle", "again"}
    BY <2>3 DEF Fire, FireBlind, Create, Relaunch, Places, Ticking
  <2>4. CASE CreateFails(d) BY <2>4 DEF CreateFails, Places
  <2> QED BY <2>1, <2>2, <2>3, <2>4
<1>4. dp' \in [Launchers -> Places] /\ early' \subseteq Ticking'
  BY <1>1, <1>3, PlaceTyped
<1> QED BY <1>1, <1>2, <1>4, OpTyped DEF SchedInv

LEMMA EndSched ==
    ASSUME TypeInv, NEW d \in Launchers, Skip(d) \/ RecordFired(d) \/ KillTick(d) \/ RelaunchEnds(d)
    PROVE  SchedInv'
<1>1. DispatchEnds(d)
  BY DEF Skip, RecordFired, KillTick, RelaunchEnds
<1>2. dp' \in [Launchers -> Places] /\ early' \subseteq Ticking'
  BY <1>1, EndsTyped DEF TypeInv
<1>3. spec' \in BOOLEAN /\ paused' \in BOOLEAN /\ next' \in {"none", "later", "due", "reset"}
  BY DEF Skip, RecordFired, KillTick, RelaunchEnds, MovesOn, rowVars, TypeInv, SchedInv
<1>4. order' \in {"fire", "quiet", "wait"} /\ ops' \in 0..MaxOps
  BY DEF Skip, RecordFired, KillTick, RelaunchEnds, MovesOn, TypeInv, SchedInv
<1>5. overruled' \in BOOLEAN
  BY DEF Skip, RecordFired, KillTick, RelaunchEnds, MovesOn, TypeInv, SchedInv
<1>6. odd' \subseteq Runs
  BY DEF Skip, RecordFired, KillTick, RelaunchEnds, TypeInv, SchedInv
<1> QED BY <1>2, <1>3, <1>4, <1>5, <1>6 DEF SchedInv

LEMMA RunSched ==
    ASSUME TypeInv, UNCHANGED <<Rest, dp>>, odd' \subseteq Runs
    PROVE  SchedInv'
  BY TickingSame DEF Rest, rowVars, orderVars, TypeInv, SchedInv

LEMMA CommandSched ==
    ASSUME TypeInv,
           Resume \/ Pause \/ Clear \/ ComesDue \/ ResetPasses \/ \E p \in Pids : Hold(p)
    PROVE  SchedInv'
<1>1. UNCHANGED dp /\ UNCHANGED odd
  BY DEF Resume, Pause, Clear, ComesDue, ResetPasses, Hold, Command
<1>2. ops' \in 0..MaxOps
  BY OpTyped DEF Resume, Pause, Clear, ComesDue, ResetPasses, Hold, Command, TypeInv
<1>3. Ticking' = Ticking
  BY <1>1, TickingSame
<1>4. early' \subseteq Ticking
  BY DEF Resume, Pause, Clear, ComesDue, ResetPasses, Hold, Command, TypeInv, SchedInv, orderVars
<1>5. spec' \in BOOLEAN /\ paused' \in BOOLEAN
  BY DEF Resume, Pause, Clear, ComesDue, ResetPasses, Hold, Command, TypeInv, SchedInv
<1>6. next' \in {"none", "later", "due", "reset"} /\ order' \in {"fire", "quiet", "wait"}
  BY DEF Resume, Pause, Clear, ComesDue, ResetPasses, Hold, Command, TypeInv, SchedInv, orderVars
<1>7. overruled' \in BOOLEAN
  BY DEF Resume, Pause, Clear, ComesDue, ResetPasses, Hold, Command, TypeInv, SchedInv, orderVars
<1> QED BY <1>1, <1>2, <1>3, <1>4, <1>5, <1>6, <1>7 DEF SchedInv, TypeInv

LEMMA StepTyped == TypeInv /\ [Next]_vars => TypeInv'
<1> SUFFICES ASSUME TypeInv, [Next]_vars PROVE TypeInv'
  OBVIOUS
<1>0. AutoInv
  BY DEF TypeInv
<1>1. ASSUME NEW d \in Launchers,
             \/ List(d) \/ Overlaps(d) \/ CreateFails(d)
             \/ \E r \in Runs : Fire(d, r) \/ FireBlind(d, r) \/ Relaunch(d, r)
      PROVE  TypeInv'
  <2>1. AutoInv'
    <3>1. CASE List(d) \/ Overlaps(d)
      BY <1>0, <3>1, AutoSame DEF List, Overlaps
    <3>2. CASE CreateFails(d)
      <4>1. UNCHANGED <<task, lc, sup, seen>> /\ Fault
        BY <3>2 DEF CreateFails
      <4>2. faults' \in 0..MaxFaults
        BY <1>0, <4>1, FaultTyped
      <4> QED
        BY <1>0, <4>1, <4>2 DEF AutoInv, TaskTyped, CallTyped, ProcTyped, Whole, Called, Rows,
                                Calls, Procs, Runs, Pids
    <3>3. ASSUME NEW r \in Runs, Fire(d, r) \/ FireBlind(d, r) \/ Relaunch(d, r) PROVE AutoInv'
      <4>1. /\ lc' = [lc EXCEPT ![d] = [Idle EXCEPT !.pc = "load", !.run = r]]
            /\ UNCHANGED task \/ Row(r, [NoTask EXCEPT !.status = "backlog"])
            /\ UNCHANGED <<sup, seen>> /\ (faults' = faults \/ Fault)
        BY <3>3 DEF Fire, FireBlind, Create, Relaunch
      <4> QED BY <1>0, <4>1, TickTyped
    <3> QED BY <1>1, <3>1, <3>2, <3>3
  <2> QED BY <1>1, <2>1, DispatchSched DEF TypeInv
<1>2. ASSUME NEW d \in Launchers, Skip(d) \/ RecordFired(d) \/ KillTick(d) \/ RelaunchEnds(d)
      PROVE  TypeInv'
  <2>1. /\ UNCHANGED <<task, sup, seen>> /\ lc' = [lc EXCEPT ![d] = Idle]
        /\ faults' = faults \/ Fault
    BY <1>2 DEF Skip, RecordFired, KillTick, RelaunchEnds, DispatchEnds
  <2>2. AutoInv'
    BY <1>0, <2>1, TickTyped
  <2> QED BY <1>2, <2>2, EndSched DEF TypeInv
<1>3. ASSUME NEW d \in Launchers, Launch(d) \/ LaunchFault(d) \/ Options(d) PROVE TypeInv'
  <2>1. LauncherSteps(d) /\ UNCHANGED <<Rest, dp>>
    BY <1>3 DEF Launch, LaunchFault, Options, LauncherSteps
  <2>2. odd' \subseteq Runs
    BY <1>3 DEF Launch, LaunchFault, Options, TypeInv, SchedInv
  <2> QED BY <1>0, <2>1, <2>2, LauncherTyped, RunSched DEF TypeInv
<1>4. ASSUME NEW p \in Pids, Run(p) PROVE TypeInv'
  <2>1. Supervise(p) /\ UNCHANGED <<Rest, dp>> /\ odd' \subseteq Runs
    BY <1>4 DEF Run, TypeInv, SchedInv
  <2> QED BY <1>0, <2>1, ProcStepTyped, RunSched DEF TypeInv
<1>5. ASSUME NEW p \in Pids, Hold(p) PROVE TypeInv'
  <2>1. AutoInv'
    BY <1>0, <1>5, ProcStepTyped DEF Hold
  <2> QED BY <1>5, <2>1, CommandSched DEF TypeInv
<1>6. ASSUME NEW r \in Runs, Reconcile(r) PROVE TypeInv'
  <2>1. (Look(r) \/ GiveUp(r)) /\ UNCHANGED <<Rest, dp>> /\ odd' \subseteq Runs
    BY <1>6 DEF Reconcile, TypeInv, SchedInv
  <2> QED BY <1>0, <2>1, ReaderTyped, RunSched DEF TypeInv
<1>7. CASE Resume \/ Pause \/ Clear \/ ComesDue \/ ResetPasses
  <2>1. UNCHANGED autoVars
    BY <1>7 DEF Resume, Pause, Clear, ComesDue, ResetPasses, Command
  <2> QED BY <1>0, <1>7, <2>1, AutoSame, CommandSched DEF TypeInv
<1>8. CASE UNCHANGED vars
  <2>1. UNCHANGED autoVars /\ UNCHANGED <<Rest, dp>> /\ odd' \subseteq Runs
    BY <1>8 DEF vars, Rest, TypeInv, SchedInv
  <2> QED BY <1>0, <2>1, AutoSame, RunSched DEF TypeInv
<1> QED
  BY <1>1, <1>2, <1>3, <1>4, <1>5, <1>6, <1>7, <1>8 DEF Next, Dispatch

LEMMA AlwaysTyped == Spec => []TypeInv
  BY InitTyped, StepTyped, PTL DEF Spec

\* Every variable keeps its type, for any launchers, runs, processes, commands and
\* faults: a row names a process exactly when it says running, and a tick that had
\* listed the playbook before the last word is still under way.
THEOREM TypeCorrect == Spec => []TypeOK
  BY AlwaysTyped, TypeInvTyped, PTL

-----------------------------------------------------------------------------
(* The schedule's word.                                                     *)

\* A schedule that is paused, cleared or held shows it, until somebody overrules it;
\* a tick that has it listed has listed it before, or listed what was overruled.
WordShown ==
    /\ order = "quiet" /\ ~overruled => ~Armed
    /\ order = "wait" /\ ~overruled => next = "reset"
Listed == \A d \in Launchers : dp[d] = "listed" => order = "fire" \/ d \in early \/ overruled

QuietInv == WordShown /\ Listed

LEMMA QuietStep == TypeInv /\ QuietInv /\ [Next]_vars => QuietInv'
<1> SUFFICES ASSUME TypeInv, QuietInv, [Next]_vars PROVE QuietInv'
  OBVIOUS
<1>0. dp \in [Launchers -> Places]
  BY DEF TypeInv, SchedInv
<1> DEFINE Unworded == UNCHANGED <<rowVars, orderVars>>
\* nothing is said, and nobody lists the playbook
<1>1. ASSUME Unworded, \A d \in Launchers : dp'[d] = "listed" => dp[d] = "listed"
      PROVE  QuietInv'
  BY <1>1 DEF QuietInv, WordShown, Listed, Armed, rowVars, orderVars
<1>2. ASSUME NEW d \in Launchers, List(d) PROVE QuietInv'
  <2>1. Armed /\ next = "due" /\ Unworded /\ dp' = [dp EXCEPT ![d] = "listed"]
    BY <1>2 DEF List
  <2>2. order \in {"fire", "quiet", "wait"}
    BY DEF TypeInv, SchedInv
  <2>3. order = "fire" \/ overruled
    BY <2>1, <2>2 DEF QuietInv, WordShown
  <2> QED BY <1>0, <2>1, <2>3 DEF QuietInv, WordShown, Listed, Armed, rowVars, orderVars
<1>3. ASSUME NEW d \in Launchers,
             \/ Overlaps(d) \/ CreateFails(d)
             \/ \E r \in Runs : Fire(d, r) \/ FireBlind(d, r) \/ Relaunch(d, r)
      PROVE  QuietInv'
  <2>1. Unworded /\ \E place \in {"skip", "launch", "again"} : dp' = [dp EXCEPT ![d] = place]
    BY <1>3 DEF Overlaps, Fire, FireBlind, Create, Relaunch, CreateFails
  <2> QED BY <1>0, <1>1, <2>1
\* a tick ends: what it leaves to others was said before, and it is no longer one of them
<1>4. ASSUME NEW d \in Launchers, Skip(d) \/ RecordFired(d) \/ KillTick(d) \/ RelaunchEnds(d)
      PROVE  QuietInv'
  <2>1. /\ dp' = [dp EXCEPT ![d] = "idle"] /\ early' = early \ {d}
        /\ UNCHANGED <<spec, paused, order>>
    BY <1>4 DEF Skip, RecordFired, KillTick, RelaunchEnds, DispatchEnds, MovesOn, rowVars
  <2>2. MovesOn \/ UNCHANGED <<next, overruled>>
    BY <1>4 DEF Skip, RecordFired, KillTick, RelaunchEnds, rowVars
  <2>3. ~overruled' => ~overruled /\ (next' = next \/ (next' = "later" /\ next # "reset"))
    BY <2>2 DEF MovesOn
  <2>4. WordShown'
    BY <2>1, <2>3 DEF QuietInv, WordShown, Armed
  <2>5. Listed'
    BY <1>0, <2>1, <2>3 DEF QuietInv, Listed
  <2> QED BY <2>4, <2>5 DEF QuietInv
<1>5. ASSUME UNCHANGED <<Rest, dp>> PROVE QuietInv'
  BY <1>1, <1>5 DEF Rest
<1>6. ASSUME NEW p \in Pids, Hold(p) PROVE QuietInv'
  <2>1. UNCHANGED <<dp, spec>>
    BY <1>6 DEF Hold
  <2>2. CASE ~spec
    BY <1>6, <2>1, <2>2 DEF Hold, QuietInv, WordShown, Listed, Armed, orderVars
  <2>3. CASE spec /\ order = "quiet"
    BY <1>6, <2>1, <2>3 DEF Hold, QuietInv, WordShown, Listed, Armed
  <2>4. CASE spec /\ order # "quiet"
    <3>1. order' = "wait" /\ early' = Ticking /\ next' = "reset"
      BY <1>6, <2>4 DEF Hold
    <3>2. Listed'
      BY <1>0, <2>1, <3>1 DEF Listed, Ticking
    <3> QED BY <3>1, <3>2 DEF QuietInv, WordShown
  <2> QED BY <2>2, <2>3, <2>4
<1>7. CASE Resume
  BY <1>7 DEF Resume, Command, QuietInv, WordShown, Listed
<1>8. CASE Pause \/ Clear
  <2>1. order' = "quiet" /\ early' = Ticking /\ (paused' = TRUE \/ spec' = FALSE) /\ UNCHANGED dp
    BY <1>8 DEF Pause, Clear, Command
  <2>2. Listed'
    BY <1>0, <2>1 DEF Listed, Ticking
  <2> QED BY <2>1, <2>2 DEF QuietInv, WordShown, Armed
<1>9. CASE ComesDue
  BY <1>9 DEF ComesDue, QuietInv, WordShown, Listed, Armed, orderVars
<1>10. CASE ResetPasses
  BY <1>10 DEF ResetPasses, QuietInv, WordShown, Listed, Armed
<1>11. ASSUME NEW d \in Launchers, Launch(d) \/ LaunchFault(d) \/ Options(d) PROVE QuietInv'
  BY <1>5, <1>11 DEF Launch, LaunchFault, Options
<1>12. ASSUME NEW p \in Pids, Run(p) PROVE QuietInv'
  BY <1>5, <1>12 DEF Run
<1>13. ASSUME NEW r \in Runs, Reconcile(r) PROVE QuietInv'
  BY <1>5, <1>13 DEF Reconcile
<1>14. CASE UNCHANGED vars
  BY <1>5, <1>14 DEF vars, Rest
<1> QED
  BY <1>2, <1>3, <1>4, <1>6, <1>7, <1>8, <1>9, <1>10, <1>11, <1>12, <1>13, <1>14
     DEF Next, Dispatch

\* A schedule the operator has silenced, or that waits for a reset, starts a run only
\* through a tick that had listed it, or after it was overruled
\* (playbook_schedule.go, db.go): QuietKept.
THEOREM QuietIsKept == Spec => QuietKept
<1>1. Init => QuietInv
  BY DEF Init, QuietInv, WordShown, Listed
<1> DEFINE Fires == \A d \in Launchers :
                       dp[d] = "listed" /\ dp'[d] = "launch" => order = "fire" \/ d \in early \/ overruled
<1>2. TypeInv /\ QuietInv /\ [Next]_vars => QuietInv'
  BY QuietStep
<1>3. QuietInv => Fires
  BY DEF QuietInv, Listed
<1>4. QuietInv => [Fires]_vars
  BY <1>3
<1> QED BY <1>1, <1>2, <1>4, AlwaysTyped, PTL DEF Spec, QuietKept

-----------------------------------------------------------------------------
(* One run at a time.                                                       *)

\* Launchers that are at it, and the ones at a given run.
Busily(l) == lc[l].pc \notin {"idle", "ok", "failed"}
AtRun(r) == {l \in Launchers : Busily(l) /\ lc[l].run = r}

Recorded(p) == task[sup[p].run].auto = "running" /\ task[sup[p].run].pid = p

\* A launcher is in a launch exactly when it has a call in progress; who launches a
\* run again, or finds its row running, is at a run set aside.
CallsPlaced ==
    \A l \in Launchers :
        /\ lc[l].pc # "idle" <=> dp[l] \in {"launch", "again"}
        /\ Busily(l) /\ (dp[l] = "again" \/ lc[l].pc = "mark") => lc[l].run \in odd

\* Nobody has touched a run that is not there.
Untouched ==
    \A r \in Runs : task[r].status = "none" =>
        task[r].auto = "null" /\ r \notin seen /\ AtRun(r) = {} /\ \A p \in Supervising : sup[p].run # r

\* A run has one launcher, and while it has it no row that says running.
OneLauncher ==
    \A r \in Runs \ odd :
        /\ \A l, m \in AtRun(r) : l = m
        /\ AtRun(r) # {} => task[r].auto # "running" /\ r \notin seen

\* A supervised run is recorded, or about to be, under the one process it has.
Held(p) ==
    /\ sup[p].run \notin seen
    /\ AtRun(sup[p].run) # {} \/ Recorded(p)
    /\ \A l \in AtRun(sup[p].run) : lc[l].pc = "record" /\ lc[l].pid = p
AllHeld == \A p \in Supervising : sup[p].run \in odd \/ Held(p)

\* Of the runs that somebody launches or supervises at most one is not set aside.
InWork(r) == AtRun(r) # {} \/ \E p \in Supervising : sup[p].run = r
OneInWork == \A r, s \in Runs : InWork(r) /\ InWork(s) => r = s \/ r \in odd \/ s \in odd

RunInv == CallsPlaced /\ Untouched /\ OneLauncher /\ AllHeld /\ OneInWork

\* A launcher that moves within its run, or ends: it records its process when it has
\* one, or the run is set aside.
LEMMA LauncherMoves ==
    ASSUME TypeInv, TypeInv', RunInv, NEW l \in Launchers,
           UNCHANGED <<sup, seen>>, odd \subseteq odd',
           \A m \in Launchers \ {l} : lc'[m] = lc[m] /\ dp'[m] = dp[m],
           lc'[l].pc # "idle" <=> dp'[l] \in {"launch", "again"},
           Busily(l)' => Busily(l) /\ lc'[l].run = lc[l].run,
           Busily(l)' /\ (dp'[l] = "again" \/ lc'[l].pc = "mark") => lc[l].run \in odd',
           \A r \in Runs :
               \/ task'[r] = task[r]
               \/ Busily(l) /\ r = lc[l].run /\ task'[r].status # "none",
           task'[lc[l].run].auto = "running" => task[lc[l].run].auto = "running" \/ ~Busily(l)',
           lc[l].pc = "record" =>
               \/ lc[l].run \in odd'
               \/ ~Busily(l)' /\ task'[lc[l].run].auto = "running" /\ task'[lc[l].run].pid = lc[l].pid
    PROVE  RunInv'
<1>0. Supervising' = Supervising
  BY DEF Supervising, Pids
<1>1. \A m \in Launchers \ {l} : Busily(m)' <=> Busily(m)
  BY DEF Busily
<1>2. ASSUME NEW r PROVE /\ AtRun(r)' \subseteq AtRun(r)
                         /\ AtRun(r) \ {l} \subseteq AtRun(r)'
  BY <1>1 DEF AtRun
<1>3. CallsPlaced'
  BY <1>1 DEF RunInv, CallsPlaced
<1>4. Untouched'
  <2> SUFFICES ASSUME NEW r \in Runs, task'[r].status = "none"
               PROVE  /\ task'[r].auto = "null" /\ r \notin seen' /\ AtRun(r)' = {}
                      /\ \A p \in Supervising' : sup'[p].run # r
    BY DEF Untouched
  <2>1. task'[r] = task[r]
    OBVIOUS
  <2> QED BY <1>0, <1>2, <2>1 DEF RunInv, Untouched
<1>5. OneLauncher'
  <2> SUFFICES ASSUME NEW r \in Runs, r \notin odd'
               PROVE  /\ \A k, m \in AtRun(r)' : k = m
                      /\ AtRun(r)' # {} => task'[r].auto # "running" /\ r \notin seen'
    BY DEF OneLauncher
  <2>1. /\ \A k, m \in AtRun(r) : k = m
        /\ AtRun(r) # {} => task[r].auto # "running" /\ r \notin seen
    BY DEF RunInv, OneLauncher
  <2>2. ASSUME AtRun(r)' # {} PROVE task'[r].auto # "running"
    <3>1. PICK k \in AtRun(r)' : TRUE
      BY <2>2
    <3>2. k \in AtRun(r) /\ task[r].auto # "running"
      BY <1>2, <2>1, <3>1
    <3>3. CASE r = lc[l].run /\ Busily(l)
      <4>1. k = l
        BY <2>1, <3>2, <3>3 DEF AtRun
      <4>2. Busily(l)'
        BY <3>1, <4>1 DEF AtRun
      <4> QED BY <3>2, <3>3, <4>2
    <3> QED BY <3>2, <3>3
  <2> QED BY <1>2, <2>1, <2>2
<1>6. AllHeld'
  <2> SUFFICES ASSUME NEW p \in Supervising, sup[p].run \notin odd' PROVE Held(p)'
    BY <1>0 DEF AllHeld
  <2> DEFINE r == sup[p].run
  <2>0. Held(p) /\ r \in Runs
    BY DEF RunInv, AllHeld, Supervising, TypeInv, AutoInv, ProcTyped, Procs
  <2>1. CASE l \in AtRun(r)
    <3>1. lc[l].pc = "record" /\ lc[l].pid = p /\ lc[l].run = r
      BY <2>0, <2>1 DEF Held, AtRun
    <3>2. ~Busily(l)' /\ task'[r].auto = "running" /\ task'[r].pid = p
      BY <3>1
    <3>3. AtRun(r) = {l}
      BY <2>1, <2>0 DEF RunInv, OneLauncher
    <3>4. AtRun(r)' = {}
      BY <1>2, <3>2, <3>3 DEF AtRun
    <3> QED BY <2>0, <3>2, <3>4 DEF Held, Recorded
  <2>2. CASE l \notin AtRun(r)
    <3>1. task'[r] = task[r] /\ AtRun(r)' = AtRun(r)
      BY <1>2, <2>0, <2>2 DEF AtRun
    <3>2. \A m \in AtRun(r) : lc'[m] = lc[m]
      BY <2>2 DEF AtRun
    <3> QED BY <2>0, <3>1, <3>2 DEF Held, Recorded
  <2> QED BY <2>1, <2>2
<1>7. OneInWork'
  <2>1. \A r : InWork(r)' => InWork(r)
    BY <1>0, <1>2 DEF InWork
  <2> QED BY <2>1 DEF RunInv, OneInWork
<1> QED BY <1>3, <1>4, <1>5, <1>6, <1>7 DEF RunInv

LEMMA CallFields ==
    ASSUME AutoInv, NEW l \in Launchers
    PROVE  lc[l] \in Calls /\ lc[l].run \in Runs /\ task[lc[l].run] \in Rows
  BY DEF AutoInv, CallTyped, TaskTyped, Calls

\* A launcher goes to another label and leaves the rows alone.
LEMMA LauncherGoes ==
    ASSUME TypeInv, TypeInv', RunInv, NEW l \in Launchers, Busily(l),
           NEW label \in {"mark", "claim", "undo", "failed"},
           Goto(l, label), label = "mark" => lc[l].run \in odd',
           lc[l].pc # "record", UNCHANGED <<task, sup, seen, dp>>, odd \subseteq odd'
    PROVE  RunInv'
<1>1. lc \in [Launchers -> Calls]
  BY DEF TypeInv, AutoInv, CallTyped
<1>2. /\ \A m \in Launchers \ {l} : lc'[m] = lc[m] /\ dp'[m] = dp[m]
      /\ lc'[l].pc = label /\ lc'[l].run = lc[l].run
  BY <1>1 DEF Goto, Calls
<1>3. dp[l] \in {"launch", "again"}
  BY DEF Busily, RunInv, CallsPlaced
<1>4. dp'[l] = "again" => lc[l].run \in odd'
  BY DEF RunInv, CallsPlaced
<1> QED BY <1>2, <1>3, <1>4, LauncherMoves DEF Busily

LEMMA LauncherRuns ==
    ASSUME TypeInv, TypeInv', RunInv, NEW l \in Launchers,
           Launch(l) \/ LaunchFault(l) \/ Options(l), \A p \in Pids : ~Spawn(l, p)
    PROVE  RunInv'
<1>0. lc \in [Launchers -> Calls] /\ task \in [Runs -> Rows] /\ lc[l].run \in Runs
  BY CallFields DEF TypeInv, AutoInv, CallTyped, TaskTyped
<1>a. UNCHANGED dp /\ odd \subseteq odd'
  BY DEF Launch, LaunchFault, Options
<1>b. Busily(l) => dp[l] \in {"launch", "again"} /\ (dp[l] = "again" => lc[l].run \in odd')
  BY <1>a DEF Busily, RunInv, CallsPlaced
<1>1. CASE Guard(l, TRUE) \/ Refuse(l) \/ SetupFails(l) \/ SpawnFails(l)
  <2>1. PICK label \in {"claim", "failed", "undo"} : Goto(l, label)
    BY <1>1 DEF Guard, Refuse, SetupFails, SpawnFails
  <2>2. lc[l].pc \in {"load", "claim", "spawn"} /\ UNCHANGED <<task, sup, seen>>
    BY <1>1 DEF Guard, Refuse, SetupFails, SpawnFails
  <2> QED BY <1>a, <2>1, <2>2, LauncherGoes DEF Busily
<1>2. CASE Guard(l, FALSE)
  <2>1. PICK label \in {"claim", "failed", "mark"} : Goto(l, label)
    BY <1>2 DEF Guard
  <2>2. lc[l].pc = "load" /\ UNCHANGED <<task, sup, seen>>
    BY <1>2 DEF Guard
  <2>3. label = "mark" => task[lc[l].run].auto = "running"
    <3>1. label = lc'[l].pc
      BY <1>0, <2>1 DEF Goto, Calls
    <3> QED BY <1>0, <1>2, <3>1 DEF Guard, Goto, Calls
  <2>4. l \in AtRun(lc[l].run)
    BY <2>2 DEF AtRun, Busily
  <2>5. label = "mark" => lc[l].run \in odd
    BY <1>0, <2>3, <2>4 DEF RunInv, OneLauncher
  <2> QED BY <1>a, <2>1, <2>2, <2>5, LauncherGoes DEF Busily
<1>c. ASSUME NEW row, Row(lc[l].run, row), row.status # "none"
      PROVE  \A r \in Runs : task'[r] = task[r] \/ (r = lc[l].run /\ task'[r].status # "none")
  BY <1>0, <1>c DEF Row
<1>d. Busily(l) => task[lc[l].run].status # "none"
  BY <1>0 DEF RunInv, Untouched, AtRun
<1>3. CASE Mark(l)
  <2>1. /\ lc[l].pc = "mark" /\ MarkDead(lc[l].run) /\ UNCHANGED <<sup, seen>>
        /\ lc' = [lc EXCEPT ![l].pc = "claim"]
    BY <1>3 DEF Mark, Goto
  <2>2. /\ \A m \in Launchers \ {l} : lc'[m] = lc[m]
        /\ lc'[l].pc = "claim" /\ lc'[l].run = lc[l].run
    BY <1>0, <2>1 DEF Calls
  <2>3. Busily(l)
    BY <2>1 DEF Busily
  <2>4. /\ \A r \in Runs : task'[r] = task[r] \/ (r = lc[l].run /\ task'[r].status # "none")
        /\ task'[lc[l].run].auto = "running" => task[lc[l].run].auto = "running"
    <3>1. CASE UNCHANGED task
      BY <3>1
    <3>2. CASE Row(lc[l].run, [task[lc[l].run] EXCEPT !.auto = "dead", !.pid = NoPid])
      <4>1. /\ task'[lc[l].run].auto = "dead" /\ task'[lc[l].run].status = task[lc[l].run].status
            /\ \A r \in Runs \ {lc[l].run} : task'[r] = task[r]
        BY <1>0, <3>2 DEF Row, Rows
      <4> QED BY <1>d, <2>3, <4>1
    <3> QED BY <2>1, <3>1, <3>2 DEF MarkDead
  <2> QED BY <1>a, <1>b, <2>1, <2>2, <2>3, <2>4, LauncherMoves DEF Busily
<1>4. ASSUME NEW fresh \in BOOLEAN, Claim(l, fresh) PROVE RunInv'
  <2>1. lc[l].pc = "claim" /\ UNCHANGED <<sup, seen>>
    BY <1>4 DEF Claim
  <2>2. PICK mint : lc' = [lc EXCEPT ![l].pc = "spawn", ![l].mint = mint]
    BY <1>4 DEF Claim
  <2>3. /\ \A m \in Launchers \ {l} : lc'[m] = lc[m]
        /\ lc'[l].pc = "spawn" /\ lc'[l].run = lc[l].run
    BY <1>0, <2>2 DEF Calls
  <2>4. PICK sid : Row(lc[l].run, [task[lc[l].run] EXCEPT !.status = "in-progress", !.sid = sid])
    BY <1>4 DEF Claim
  <2>5. /\ \A r \in Runs : task'[r] = task[r] \/ (r = lc[l].run /\ task'[r].status # "none")
        /\ task'[lc[l].run].auto = task[lc[l].run].auto
    BY <1>0, <2>4 DEF Row, Rows
  <2>6. Busily(l)
    BY <2>1 DEF Busily
  <2> QED BY <1>a, <1>b, <2>1, <2>3, <2>5, <2>6, LauncherMoves DEF Busily
<1>5. CASE Undo(l)
  <2>1. /\ lc[l].pc = "undo" /\ UNCHANGED <<sup, seen>>
        /\ lc' = [lc EXCEPT ![l].pc = "failed"]
    BY <1>5 DEF Undo, Goto
  <2>2. /\ \A m \in Launchers \ {l} : lc'[m] = lc[m]
        /\ lc'[l].pc = "failed"
    BY <1>0, <2>1 DEF Calls
  <2>3. \/ UNCHANGED task
        \/ Row(lc[l].run, [task[lc[l].run] EXCEPT !.status = "backlog", !.sid = "null",
                                                  !.auto = "null", !.pid = NoPid])
    BY <1>5 DEF Undo
  <2>4. \A r \in Runs : task'[r] = task[r] \/ (r = lc[l].run /\ task'[r].status # "none")
    <3>1. CASE UNCHANGED task
      BY <3>1
    <3> DEFINE row == [task[lc[l].run] EXCEPT !.status = "backlog", !.sid = "null",
                                              !.auto = "null", !.pid = NoPid]
    <3>2. row.status # "none"
      BY <1>0 DEF Rows
    <3> HIDE DEF row
    <3>3. CASE Row(lc[l].run, row)
      BY <3>2, <3>3, <1>c
    <3> QED BY <2>3, <3>1, <3>3 DEF row
  <2>5. Busily(l) /\ ~Busily(l)'
    BY <2>1, <2>2 DEF Busily
  <2> QED BY <1>a, <1>b, <2>1, <2>2, <2>4, <2>5, LauncherMoves
<1>e. ASSUME Succeeds(l)
      PROVE  ~Busily(l)' /\ lc'[l].pc = "ok" /\ \A m \in Launchers \ {l} : lc'[m] = lc[m]
  BY <1>0, <1>e DEF Succeeds, Busily, Idle
<1>6. CASE Record(l)
  <2>1. /\ lc[l].pc = "record" /\ UNCHANGED <<sup, seen>> /\ Succeeds(l)
        /\ Row(lc[l].run, [task[lc[l].run] EXCEPT !.auto = "running", !.pid = lc[l].pid])
    BY <1>6 DEF Record
  <2>2. Busily(l)
    BY <2>1 DEF Busily
  <2>3. /\ \A r \in Runs : task'[r] = task[r] \/ (r = lc[l].run /\ task'[r].status # "none")
        /\ task'[lc[l].run].auto = "running" /\ task'[lc[l].run].pid = lc[l].pid
    BY <1>0, <1>d, <2>1, <2>2 DEF Row, Rows
  <2> QED BY <1>a, <1>b, <1>e, <2>1, <2>2, <2>3, LauncherMoves
<1>7. CASE LaunchFault(l) /\ RecordFails(l)
  <2>1. lc[l].pc = "record" /\ UNCHANGED <<task, sup, seen>> /\ Succeeds(l) /\ lc[l].run \in odd'
    BY <1>0, <1>7 DEF RecordFails, LaunchFault
  <2>2. Busily(l)
    BY <2>1 DEF Busily
  <2> QED BY <1>a, <1>b, <1>e, <2>1, <2>2, LauncherMoves
<1> QED
  BY <1>1, <1>2, <1>3, <1>4, <1>5, <1>6, <1>7 DEF Launch, LaunchStep, LaunchFault, Options

\* A launch that starts its process.
LEMMA SpawnRuns ==
    ASSUME TypeInv, TypeInv', RunInv, NEW l \in Launchers, NEW p \in Pids, Spawn(l, p),
           UNCHANGED <<dp, odd>>
    PROVE  RunInv'
<1>0. lc \in [Launchers -> Calls] /\ lc[l].run \in Runs /\ sup \in [Pids -> Procs]
  BY CallFields DEF TypeInv, AutoInv, CallTyped, ProcTyped
<1>1. /\ lc[l].pc = "spawn" /\ UNCHANGED <<task, seen>> /\ sup[p].pc = "none"
      /\ lc' = [lc EXCEPT ![l].pc = "record", ![l].mint = "none", ![l].pid = p]
  BY DEF Spawn, IsNextPid
<1>2. /\ \A m \in Launchers \ {l} : lc'[m] = lc[m]
      /\ lc'[l].pc = "record" /\ lc'[l].run = lc[l].run /\ lc'[l].pid = p
  BY <1>0, <1>1 DEF Calls
<1>3. /\ sup'[p].pc = "start" /\ sup'[p].run = lc[l].run
      /\ \A q \in Pids \ {p} : sup'[q] = sup[q]
  BY <1>0 DEF Spawn, NoProc
<1>4. Supervising' = Supervising \cup {p} /\ p \notin Supervising
  BY <1>1, <1>3 DEF Supervising, Pids
<1>5. \A r : AtRun(r)' = AtRun(r)
  BY <1>1, <1>2 DEF AtRun, Busily
<1>6. l \in AtRun(lc[l].run)
  BY <1>1 DEF AtRun, Busily
<1>7. CallsPlaced'
  <2> SUFFICES ASSUME NEW m \in Launchers
               PROVE  /\ lc'[m].pc # "idle" <=> dp[m] \in {"launch", "again"}
                      /\ Busily(m)' /\ (dp[m] = "again" \/ lc'[m].pc = "mark") => lc'[m].run \in odd
    BY DEF CallsPlaced
  <2>1. /\ lc[m].pc # "idle" <=> dp[m] \in {"launch", "again"}
        /\ Busily(m) /\ (dp[m] = "again" \/ lc[m].pc = "mark") => lc[m].run \in odd
    BY DEF RunInv, CallsPlaced
  <2>2. CASE m = l
    BY <1>1, <1>2, <2>1, <2>2 DEF Busily
  <2>3. CASE m # l
    BY <1>2, <2>1, <2>3 DEF Busily
  <2> QED BY <2>2, <2>3
<1>8. Untouched'
  <2>1. task[lc[l].run].status # "none"
    BY <1>0, <1>6 DEF RunInv, Untouched
  <2> QED BY <1>1, <1>3, <1>4, <1>5, <2>1 DEF RunInv, Untouched, Supervising
<1>9. OneLauncher'
  BY <1>1, <1>5 DEF RunInv, OneLauncher
<1>10. AllHeld'
  <2> SUFFICES ASSUME NEW q \in Supervising', sup'[q].run \notin odd PROVE Held(q)'
    BY DEF AllHeld
  <2>1. CASE q = p
    <3>1. \A m \in AtRun(lc[l].run) : m = l
      BY <1>0, <1>3, <1>6, <2>1 DEF RunInv, OneLauncher
    <3>2. lc[l].run \notin seen
      BY <1>0, <1>3, <1>6, <2>1 DEF RunInv, OneLauncher
    <3> QED BY <1>1, <1>2, <1>3, <1>5, <1>6, <2>1, <3>1, <3>2 DEF Held
  <2>2. CASE q # p
    <3>1. q \in Supervising /\ sup'[q] = sup[q]
      BY <1>3, <1>4, <2>2 DEF Supervising
    <3>2. Held(q)
      BY <3>1 DEF RunInv, AllHeld
    <3>3. l \notin AtRun(sup[q].run)
      BY <1>1, <3>2 DEF Held
    <3>4. \A m \in AtRun(sup[q].run) : lc'[m] = lc[m]
      BY <1>2, <3>3 DEF AtRun
    <3> QED BY <1>1, <1>5, <3>1, <3>2, <3>4 DEF Held, Recorded
  <2> QED BY <2>1, <2>2
<1>11. OneInWork'
  <2>1. ASSUME NEW r, InWork(r)' PROVE InWork(r)
    <3>1. CASE AtRun(r)' # {}
      BY <1>5, <3>1 DEF InWork
    <3>2. ASSUME NEW q \in Supervising', sup'[q].run = r PROVE InWork(r)
      BY <1>3, <1>4, <1>6, <3>2 DEF InWork, Supervising
    <3> QED BY <2>1, <3>1, <3>2 DEF InWork
  <2> QED BY <2>1 DEF RunInv, OneInWork
<1> QED BY <1>7, <1>8, <1>9, <1>10, <1>11 DEF RunInv

\* A tick that fires, and a launch that begins again.
LEMMA TickRuns ==
    ASSUME TypeInv, TypeInv', RunInv, NEW d \in Launchers, NEW r \in Runs,
           dp[d] \notin {"launch", "again"}, dp'[d] \in {"launch", "again"},
           dp' = [dp EXCEPT ![d] = dp'[d]],
           lc' = [lc EXCEPT ![d] = [Idle EXCEPT !.pc = "load", !.run = r]],
           UNCHANGED <<sup, seen>>, odd \subseteq odd', task'[r].status # "none",
           \A q \in Runs \ {r} : task'[q] = task[q],
           dp'[d] = "again" => r \in odd',
           \/ r \in odd'
           \/ /\ task[r].status = "none" /\ task'[r].auto = "null"
              /\ \A s \in Runs : InWork(s) => s \in odd'
    PROVE  RunInv'
<1>0. lc \in [Launchers -> Calls] /\ dp \in [Launchers -> Places]
  BY DEF TypeInv, AutoInv, CallTyped, SchedInv
<1>1. /\ lc[d].pc = "idle" /\ lc'[d].pc = "load" /\ lc'[d].run = r
      /\ \A m \in Launchers \ {d} : lc'[m] = lc[m] /\ dp'[m] = dp[m]
  BY <1>0 DEF RunInv, CallsPlaced, Idle
<1>2. /\ AtRun(r)' = AtRun(r) \cup {d}
      /\ \A q \in Runs \ {r} : AtRun(q)' = AtRun(q)
      /\ \A q : d \notin AtRun(q)
  BY <1>1 DEF AtRun, Busily
<1>3. Supervising' = Supervising
  BY DEF Supervising, Pids
<1>4. \A p \in Supervising : sup[p].run \in Runs
  BY DEF TypeInv, AutoInv, ProcTyped, Procs, Supervising
<1>5. CallsPlaced'
  BY <1>1 DEF RunInv, CallsPlaced, Busily
<1>6. Untouched'
  BY <1>2, <1>3 DEF RunInv, Untouched
<1>7. OneLauncher'
  <2> SUFFICES ASSUME NEW q \in Runs, q \notin odd'
               PROVE  /\ \A k, m \in AtRun(q)' : k = m
                      /\ AtRun(q)' # {} => task'[q].auto # "running" /\ q \notin seen
    BY DEF OneLauncher
  <2>1. CASE q = r
    <3>1. AtRun(r) = {} /\ r \notin seen
      BY <2>1 DEF RunInv, Untouched
    <3> QED BY <1>2, <2>1, <3>1
  <2>2. CASE q # r
    BY <1>2, <2>2 DEF RunInv, OneLauncher
  <2> QED BY <2>1, <2>2
<1>8. AllHeld'
  <2> SUFFICES ASSUME NEW p \in Supervising, sup[p].run \notin odd' PROVE Held(p)'
    BY <1>3 DEF AllHeld
  <2>1. sup[p].run # r
    BY DEF RunInv, Untouched
  <2>2. Held(p)
    BY DEF RunInv, AllHeld
  <2>3. AtRun(sup[p].run)' = AtRun(sup[p].run) /\ task'[sup[p].run] = task[sup[p].run]
    BY <1>2, <1>4, <2>1
  <2>4. \A m \in AtRun(sup[p].run) : lc'[m] = lc[m]
    BY <1>1, <1>2 DEF AtRun
  <2>5. Recorded(p)' <=> Recorded(p)
    BY <2>3 DEF Recorded
  <2>6. \A m \in AtRun(sup[p].run)' : lc'[m].pc = "record" /\ lc'[m].pid = p
    <3>1. \A m \in AtRun(sup[p].run) : lc[m].pc = "record" /\ lc[m].pid = p
      BY <2>2 DEF Held
    <3>2. \A m \in AtRun(sup[p].run) : lc'[m].pc = "record" /\ lc'[m].pid = p
      BY <2>4, <3>1
    <3> QED BY <2>3, <3>2
  <2> QED BY <2>2, <2>3, <2>5, <2>6 DEF Held
<1>9. OneInWork'
  <2>1. \A q \in Runs \ {r} : InWork(q)' => InWork(q)
    BY <1>2, <1>3 DEF InWork
  <2> QED BY <2>1 DEF RunInv, OneInWork
<1> QED BY <1>5, <1>6, <1>7, <1>8, <1>9 DEF RunInv

\* Steps that change neither the launchers nor who looks at what: the rows say no more
\* often that a run is in progress, and who is supervised was.
LEMMA ProcMoves ==
    ASSUME TypeInv, TypeInv', RunInv, UNCHANGED <<lc, dp, seen, odd>>,
           Supervising' \subseteq Supervising, \A p \in Supervising' : sup'[p].run = sup[p].run,
           \A r \in Runs :
               /\ task'[r].status = "none" => task[r].status = "none" /\ task'[r].auto = task[r].auto
               /\ task'[r].auto = "running" => task[r].auto = "running",
           \A p \in Supervising' : sup[p].run \notin odd /\ Recorded(p) => Recorded(p)'
    PROVE  RunInv'
<1>1. \A r : AtRun(r)' = AtRun(r)
  BY DEF AtRun, Busily
<1>2. CallsPlaced'
  BY DEF RunInv, CallsPlaced, Busily
<1>3. Untouched'
  BY <1>1 DEF RunInv, Untouched
<1>4. OneLauncher'
  BY <1>1 DEF RunInv, OneLauncher
<1>5. AllHeld'
  <2> SUFFICES ASSUME NEW p \in Supervising', sup[p].run \notin odd PROVE Held(p)'
    BY DEF AllHeld
  <2>1. Held(p) /\ sup'[p].run = sup[p].run
    BY DEF RunInv, AllHeld
  <2>2. AtRun(sup[p].run)' = AtRun(sup[p].run)
    BY <1>1, <2>1
  <2>3. AtRun(sup[p].run)' # {} \/ Recorded(p)'
    BY <2>1, <2>2 DEF Held
  <2>4. \A l \in AtRun(sup[p].run)' : lc'[l].pc = "record" /\ lc'[l].pid = p
    BY <2>1, <2>2 DEF Held
  <2> QED BY <2>1, <2>3, <2>4 DEF Held
<1>6. OneInWork'
  <2>1. \A r : InWork(r)' => InWork(r)
    BY <1>1 DEF InWork
  <2> QED BY <2>1 DEF RunInv, OneInWork
<1> QED BY <1>2, <1>3, <1>4, <1>5, <1>6 DEF RunInv

LEMMA ProcRuns ==
    ASSUME TypeInv, TypeInv', RunInv, NEW p \in Pids, Supervise(p) \/ LimitedAgain(p),
           UNCHANGED <<dp, odd>>
    PROVE  RunInv'
<1>0. /\ sup \in [Pids -> Procs] /\ sup[p] \in Procs /\ sup[p].run \in Runs
      /\ task \in [Runs -> Rows] /\ task[sup[p].run] \in Rows
  BY DEF TypeInv, AutoInv, ProcTyped, TaskTyped, Procs
<1> DEFINE r == sup[p].run
<1>1. UNCHANGED <<lc, seen>>
  BY DEF Supervise, LimitedAgain, Start, AgentExits, Switch, Finalize, Die, Recycle, StrangerGone
\* the process goes on, or ends, and is no other's
<1>2. ASSUME NEW pr \in Procs, sup' = [sup EXCEPT ![p] = pr],
             \/ p \in Supervising /\ pr.run = r
             \/ pr.pc \in {"gone", "stranger"}
      PROVE  /\ Supervising' \subseteq Supervising
             /\ \A q \in Supervising' : sup'[q].run = sup[q].run
             /\ pr.pc \in {"gone", "stranger"} => p \notin Supervising'
  <2>1. sup'[p] = pr /\ \A q \in Pids \ {p} : sup'[q] = sup[q]
    BY <1>0, <1>2
  <2>2. \A q \in Pids \ {p} : q \in Supervising' <=> q \in Supervising
    BY <2>1 DEF Supervising, Pids
  <2>3. pr.pc \in {"gone", "stranger"} => p \notin Supervising'
    BY <2>1 DEF Supervising
  <2> QED BY <1>2, <2>1, <2>2, <2>3 DEF Supervising, Pids
<1>b. ASSUME NEW label \in {"agent", "retry", "final", "gone", "stranger"}, Becomes(p, label)
      PROVE  \E pr \in Procs : sup' = [sup EXCEPT ![p] = pr] /\ pr.run = r /\ pr.pc = label
  <2>1. sup' = [sup EXCEPT ![p] = [sup[p] EXCEPT !.pc = label]]
    BY <1>0, <1>b DEF Becomes
  <2>2. [sup[p] EXCEPT !.pc = label] \in Procs /\ [sup[p] EXCEPT !.pc = label].run = r
        /\ [sup[p] EXCEPT !.pc = label].pc = label
    BY <1>0 DEF Procs
  <2> QED BY <2>1, <2>2
<1>e. ASSUME NEW end \in {"completed", "dead"}, Ends(p, end)
      PROVE  \E pr \in Procs : sup' = [sup EXCEPT ![p] = pr] /\ pr.run = r
  <2> DEFINE pr == [sup[p] EXCEPT !.pc = "final", !.end = end]
  <2>1. sup' = [sup EXCEPT ![p] = pr]
    BY <1>0, <1>e DEF Ends
  <2>2. pr \in Procs /\ pr.run = r
    BY <1>0 DEF Procs
  <2> QED BY <2>1, <2>2
<1>g. ASSUME Leaves(p)
      PROVE  \E pr \in Procs : sup' = [sup EXCEPT ![p] = pr] /\ pr.pc = "gone"
  <2>1. [NoProc EXCEPT !.pc = "gone"] \in Procs /\ [NoProc EXCEPT !.pc = "gone"].pc = "gone"
    BY BlankTyped DEF Procs
  <2> QED BY <1>g, <2>1 DEF Leaves
<1>3. CASE Start(p) \/ LimitedAgain(p) \/ Die(p) \/ Recycle(p) \/ StrangerGone(p)
  <2>1. /\ Supervising' \subseteq Supervising
        /\ \A q \in Supervising' : sup'[q].run = sup[q].run
    <3>1. CASE Start(p) \/ LimitedAgain(p)
      <4>1. p \in Supervising
        BY <3>1 DEF Start, LimitedAgain, At, Supervising
      <4>2. Becomes(p, "agent") \/ Ends(p, "dead")
        BY <3>1 DEF Start, LimitedAgain
      <4> QED BY <4>1, <4>2, <1>2, <1>b, <1>e
    <3>2. CASE Die(p) \/ Recycle(p) \/ StrangerGone(p)
      <4>1. Leaves(p) \/ Becomes(p, "stranger") \/ Becomes(p, "gone")
        BY <3>2 DEF Die, Recycle, StrangerGone
      <4> QED BY <4>1, <1>2, <1>b, <1>g
    <3> QED BY <1>3, <3>1, <3>2
  <2>2. UNCHANGED task
    BY <1>3 DEF Start, LimitedAgain, Die, Recycle, StrangerGone
  <2>3. \A q \in Supervising' : Recorded(q) => Recorded(q)'
    BY <2>1, <2>2 DEF Recorded
  <2> QED BY <1>1, <2>1, <2>2, <2>3, ProcMoves
<1>4. CASE AgentExits(p) \/ Switch(p)
  <2>1. p \in Supervising
    BY <1>4 DEF AgentExits, Switch, At, Supervising
  <2>2. /\ Supervising' \subseteq Supervising
        /\ \A q \in Supervising' : sup'[q].run = sup[q].run
    <3>1. CASE AgentExits(p)
      <4>1. \E end \in {"completed", "dead"} : Ends(p, end)
        BY <3>1 DEF AgentExits
      <4> QED BY <2>1, <4>1, <1>2, <1>e
    <3>2. CASE Switch(p)
      <4> DEFINE pr == [sup[p] EXCEPT !.pc = "retry", !.prov = Other(sup[p].prov)]
      <4>1. sup' = [sup EXCEPT ![p] = pr]
        BY <1>0, <3>2 DEF Switch
      <4>2. pr \in Procs /\ pr.run = r
        BY <1>0 DEF Procs, Other
      <4> HIDE DEF pr
      <4> QED BY <2>1, <4>1, <4>2, <1>2
    <3> QED BY <1>4, <3>1, <3>2
  <2>3. \A q \in Runs : /\ task'[q].auto = task[q].auto /\ task'[q].pid = task[q].pid
                        /\ task'[q].status = "none" => task[q].status = "none"
    <3>1. CASE AgentExits(p)
      <4>1. task' = [task EXCEPT ![r].status = "done"] \/ UNCHANGED task
        BY <3>1 DEF AgentExits
      <4> QED BY <1>0, <4>1 DEF Rows
    <3>2. CASE Switch(p)
      <4>1. PICK sid : Row(r, [task[r] EXCEPT !.prov = Other(sup[p].prov), !.sid = sid])
        BY <3>2 DEF Switch
      <4> QED BY <1>0, <4>1 DEF Row, Rows
    <3> QED BY <1>4, <3>1, <3>2
  <2>4. \A q \in Supervising' : Recorded(q) => Recorded(q)'
    BY <1>0, <2>2, <2>3 DEF Recorded, Procs, Supervising
  <2> QED BY <1>1, <2>2, <2>3, <2>4, ProcMoves
<1>5. CASE Finalize(p)
  <2>1. /\ p \in Supervising /\ Leaves(p)
        /\ Row(r, [task[r] EXCEPT !.auto = sup[p].end, !.pid = NoPid])
    BY <1>5 DEF Finalize, At, Supervising
  <2>2. /\ Supervising' \subseteq Supervising \ {p}
        /\ \A q \in Supervising' : sup'[q].run = sup[q].run
    BY <2>1, <1>2, <1>g
  <2>3. /\ task'[r].auto # "running" /\ task'[r].status = task[r].status
        /\ \A q \in Runs \ {r} : task'[q] = task[q]
    BY <1>0, <2>1 DEF Row, Rows, Procs
  <2>4. task[r].status # "none"
    BY <1>0, <2>1 DEF RunInv, Untouched
  <2>5. ASSUME NEW q \in Supervising', sup[q].run \notin odd, Recorded(q) PROVE Recorded(q)'
    <3>1. q \in Supervising /\ q # p /\ sup[q].run \in Runs
      BY <2>2, <1>0 DEF Procs, Supervising
    <3>2. CASE sup[q].run = r
      <4>1. Held(p) /\ Held(q)
        BY <2>1, <2>5, <3>1, <3>2 DEF RunInv, AllHeld
      <4>2. AtRun(r) = {}
        BY <3>1, <3>2, <4>1 DEF Held
      <4> QED BY <2>5, <3>1, <3>2, <4>1, <4>2 DEF Held, Recorded
    <3>3. CASE sup[q].run # r
      BY <2>2, <2>3, <2>5, <3>1, <3>3 DEF Recorded
    <3> QED BY <3>2, <3>3
  <2> QED BY <1>1, <2>2, <2>3, <2>4, <2>5, ProcMoves
<1> QED BY <1>3, <1>4, <1>5 DEF Supervise

\* A reader who has found a supervisor gone, and gives its run up.
LEMMA ReaderRuns ==
    ASSUME TypeInv, TypeInv', RunInv, NEW r \in Runs, Look(r) \/ GiveUp(r), UNCHANGED <<dp, odd>>
    PROVE  RunInv'
<1>0. UNCHANGED <<lc, sup>>
  BY DEF Look, GiveUp
<1>1. /\ \A q : AtRun(q)' = AtRun(q)
      /\ Supervising' = Supervising
  BY <1>0 DEF AtRun, Busily, Supervising, Pids
<1>2. CallsPlaced'
  BY <1>0 DEF RunInv, CallsPlaced, Busily
<1>3. OneInWork'
  BY <1>0, <1>1 DEF RunInv, OneInWork, InWork
<1>4. \A p \in Supervising : sup[p].run \in Runs
  BY DEF TypeInv, AutoInv, ProcTyped, Procs, Supervising
<1>5. CASE Look(r)
  <2>1. /\ task[r].auto = "running" /\ ~processAlive(task[r].pid)
        /\ seen' = seen \cup {r} /\ UNCHANGED task
    BY <1>5 DEF Look
  <2>2. r \notin odd => AtRun(r) = {}
    BY <2>1 DEF RunInv, OneLauncher
  <2>3. ASSUME NEW p \in Supervising, sup[p].run = r, r \notin odd PROVE FALSE
    <3>1. task[r].pid = p
      BY <2>2, <2>3 DEF RunInv, AllHeld, Held, Recorded
    <3> QED BY <2>1, <2>3, <3>1 DEF processAlive, Supervising
  <2>4. Untouched'
    BY <1>0, <1>1, <2>1 DEF RunInv, Untouched
  <2>5. OneLauncher'
    BY <1>1, <2>1, <2>2 DEF RunInv, OneLauncher
  <2>6. AllHeld'
    <3> SUFFICES ASSUME NEW p \in Supervising, sup[p].run \notin odd PROVE Held(p)'
      BY <1>0, <1>1 DEF AllHeld
    <3>1. Held(p) /\ sup[p].run # r
      BY <2>3 DEF RunInv, AllHeld
    <3>2. AtRun(sup[p].run)' = AtRun(sup[p].run)
      BY <1>0, <1>1
    <3> QED BY <1>0, <2>1, <3>1, <3>2 DEF Held, Recorded
  <2> QED BY <1>2, <1>3, <2>4, <2>5, <2>6 DEF RunInv
<1>6. CASE GiveUp(r)
  <2>1. r \in seen /\ seen' \subseteq seen /\ MarkDead(r)
    BY <1>6 DEF GiveUp
  <2>2. /\ \A q \in Runs \ {r} : task'[q] = task[q]
        /\ task'[r].status = task[r].status /\ task'[r].auto # "running"
    <3>1. task \in [Runs -> Rows]
      BY DEF TypeInv, AutoInv, TaskTyped
    <3>2. CASE Row(r, [task[r] EXCEPT !.auto = "dead", !.pid = NoPid])
      BY <3>1, <3>2 DEF Row, Rows
    <3>3. CASE task[r].auto # "running" /\ UNCHANGED task
      BY <3>3
    <3> QED BY <2>1, <3>2, <3>3 DEF MarkDead
  <2>3. Untouched'
    BY <1>0, <1>1, <2>1, <2>2 DEF RunInv, Untouched
  <2>4. OneLauncher'
    BY <1>1, <2>1, <2>2 DEF RunInv, OneLauncher
  <2>5. AllHeld'
    <3> SUFFICES ASSUME NEW p \in Supervising, sup[p].run \notin odd PROVE Held(p)'
      BY <1>0, <1>1 DEF AllHeld
    <3>1. Held(p)
      BY DEF RunInv, AllHeld
    <3>2. sup[p].run # r
      BY <2>1, <3>1 DEF Held
    <3>3. AtRun(sup[p].run)' = AtRun(sup[p].run) /\ task'[sup[p].run] = task[sup[p].run]
      BY <1>0, <1>1, <1>4, <2>2, <3>2
    <3> QED BY <1>0, <2>1, <3>1, <3>3 DEF Held, Recorded
  <2> QED BY <1>2, <1>3, <2>3, <2>4, <2>5 DEF RunInv
<1> QED BY <1>5, <1>6

\* The schedule's own steps leave the runs and their launchers alone.
LEMMA ScheduleRuns ==
    ASSUME RunInv, UNCHANGED <<task, lc, sup, seen, odd>>,
           \A l \in Launchers : dp'[l] = dp[l] \/ {dp[l], dp'[l]} \subseteq {"idle", "listed", "skip"}
    PROVE  RunInv'
<1>1. Supervising' = Supervising /\ \A r : AtRun(r)' = AtRun(r)
  BY DEF Supervising, Pids, AtRun, Busily
<1>2. CallsPlaced'
  BY DEF RunInv, CallsPlaced, Busily
<1>3. Untouched' /\ OneLauncher' /\ OneInWork'
  BY <1>1 DEF RunInv, Untouched, OneLauncher, OneInWork, InWork
<1>4. AllHeld'
  <2> SUFFICES ASSUME NEW p \in Supervising, sup[p].run \notin odd PROVE Held(p)'
    BY <1>1 DEF AllHeld
  <2>1. Held(p)
    BY DEF RunInv, AllHeld
  <2>2. AtRun(sup[p].run)' = AtRun(sup[p].run)
    BY <1>1
  <2> QED BY <2>1, <2>2 DEF Held, Recorded
<1> QED BY <1>2, <1>3, <1>4 DEF RunInv

\* A launcher's end: what it was about to record is set aside.
LEMMA EndRuns ==
    ASSUME TypeInv, TypeInv', RunInv, NEW d \in Launchers,
           Skip(d) \/ RecordFired(d) \/ KillTick(d) \/ RelaunchEnds(d)
    PROVE  RunInv'
<1>0. lc \in [Launchers -> Calls] /\ dp \in [Launchers -> Places] /\ lc[d].run \in Runs
  BY CallFields DEF TypeInv, AutoInv, CallTyped, SchedInv
<1>1. DispatchEnds(d) /\ odd \subseteq odd'
  BY DEF Skip, RecordFired, KillTick, RelaunchEnds
<1>2. /\ UNCHANGED <<task, sup, seen>> /\ lc'[d].pc = "idle" /\ dp'[d] = "idle"
      /\ \A m \in Launchers \ {d} : lc'[m] = lc[m] /\ dp'[m] = dp[m]
  BY <1>0, <1>1 DEF DispatchEnds, Idle
<1>3. lc[d].pc = "record" => lc[d].run \in odd'
  <2>1. CASE KillTick(d)
    BY <1>0, <2>1 DEF KillTick
  <2>2. CASE Skip(d) \/ RecordFired(d) \/ RelaunchEnds(d)
    <3>1. lc[d].pc \in {"ok", "failed"} \/ dp[d] = "skip"
      BY <2>2 DEF Skip, RecordFired, RelaunchEnds
    <3> QED BY <3>1 DEF RunInv, CallsPlaced
  <2> QED BY <2>1, <2>2
<1> QED BY <1>1, <1>2, <1>3, LauncherMoves DEF Busily

\* A tick fires when it sees no run in flight: what it does not see is set aside.
LEMMA FireRuns ==
    ASSUME TypeInv, TypeInv', RunInv, NEW d \in Launchers, NEW r \in Runs, Fire(d, r)
    PROVE  RunInv'
<1>0. task \in [Runs -> Rows] /\ dp \in [Launchers -> Places]
  BY DEF TypeInv, AutoInv, TaskTyped, SchedInv
<1>1. /\ dp[d] = "listed" /\ dp' = [dp EXCEPT ![d] = "launch"] /\ dp'[d] = "launch"
      /\ lc' = [lc EXCEPT ![d] = [Idle EXCEPT !.pc = "load", !.run = r]]
      /\ UNCHANGED <<sup, seen>> /\ task[r].status = "none"
      /\ odd' = odd \cup {lc[e].run : e \in Launching} \cup {q \in {r} : Launching # {}}
  BY <1>0 DEF Fire, Create, IsNextRun
<1>2. /\ task'[r].status = "backlog" /\ task'[r].auto = "null"
      /\ \A q \in Runs \ {r} : task'[q] = task[q]
  BY <1>0 DEF Fire, Create, Row, NoTask
\* a launcher at work is at a run set aside
<1>3. ASSUME NEW l \in Launchers, Busily(l) PROVE lc[l].run \in odd'
  <2>1. dp[l] = "launch" \/ (dp[l] = "again" /\ lc[l].run \in odd)
    BY <1>3 DEF RunInv, CallsPlaced, Busily
  <2>2. dp[l] = "launch" => l \in Launching
    BY <1>3 DEF Launching, Busily
  <2> QED BY <1>1, <2>1, <2>2
<1>4. ASSUME NEW s \in Runs, InWork(s) PROVE s \in odd'
  <2>1. CASE AtRun(s) # {}
    BY <1>3, <2>1 DEF AtRun
  <2>2. ASSUME NEW p \in Supervising, sup[p].run = s, AtRun(s) = {}, s \notin odd PROVE FALSE
    <3>1. task[s].auto = "running" /\ task[s].pid = p
      BY <2>2 DEF RunInv, AllHeld, Held, Recorded
    <3>2. processAlive(p)
      BY <2>2 DEF processAlive, Supervising
    <3>3. playbookRunInFlight
      BY <3>1, <3>2 DEF playbookRunInFlight
    <3> QED BY <3>3 DEF Fire
  <2> QED BY <1>1, <1>4, <2>1, <2>2 DEF InWork
<1> QED BY <1>1, <1>2, <1>4, TickRuns

\* A tick that could not read whether one is in flight: its own run is set aside.
LEMMA BlindRuns ==
    ASSUME TypeInv, TypeInv', RunInv, NEW d \in Launchers, NEW r \in Runs, FireBlind(d, r)
    PROVE  RunInv'
<1>0. task \in [Runs -> Rows] /\ dp \in [Launchers -> Places]
  BY DEF TypeInv, AutoInv, TaskTyped, SchedInv
<1>1. /\ dp[d] = "listed" /\ dp' = [dp EXCEPT ![d] = "launch"] /\ dp'[d] = "launch"
      /\ lc' = [lc EXCEPT ![d] = [Idle EXCEPT !.pc = "load", !.run = r]]
      /\ UNCHANGED <<sup, seen>> /\ task[r].status = "none" /\ odd' = odd \cup {r}
  BY <1>0 DEF FireBlind, Create, IsNextRun
<1>2. /\ task'[r].status = "backlog" /\ task'[r].auto = "null"
      /\ \A q \in Runs \ {r} : task'[q] = task[q]
  BY <1>0 DEF FireBlind, Create, Row, NoTask
<1> QED BY <1>1, <1>2, TickRuns

LEMMA RelaunchRuns ==
    ASSUME TypeInv, TypeInv', RunInv, NEW d \in Launchers, NEW r \in Runs, Relaunch(d, r)
    PROVE  RunInv'
<1>0. dp \in [Launchers -> Places]
  BY DEF TypeInv, SchedInv
<1>1. /\ dp[d] = "idle" /\ dp' = [dp EXCEPT ![d] = "again"] /\ dp'[d] = "again"
      /\ lc' = [lc EXCEPT ![d] = [Idle EXCEPT !.pc = "load", !.run = r]]
      /\ UNCHANGED <<task, sup, seen>> /\ task[r].status # "none" /\ odd' = odd \cup {r}
  BY <1>0 DEF Relaunch
<1> QED BY <1>1, TickRuns

LEMMA InitRuns == Init => RunInv
<1> SUFFICES ASSUME Init PROVE RunInv
  OBVIOUS
<1>1. /\ \A l \in Launchers : lc[l].pc = "idle" /\ dp[l] = "idle"
      /\ \A p \in Pids : sup[p].pc = "none"
      /\ \A r \in Runs : task[r].auto = "null"
      /\ seen = {}
  BY DEF Init, AutoInit, Idle, NoProc, NoTask
<1>2. Supervising = {} /\ \A r : AtRun(r) = {}
  BY <1>1 DEF Supervising, AtRun, Busily
<1>3. CallsPlaced
  BY <1>1 DEF CallsPlaced, Busily
<1>4. Untouched /\ OneLauncher /\ AllHeld /\ OneInWork
  BY <1>1, <1>2 DEF Untouched, OneLauncher, AllHeld, OneInWork, InWork
<1> QED BY <1>3, <1>4 DEF RunInv

LEMMA StepRuns == TypeInv /\ RunInv /\ [Next]_vars => RunInv'
<1> SUFFICES ASSUME TypeInv, RunInv, [Next]_vars PROVE RunInv'
  OBVIOUS
<1>0. TypeInv' /\ dp \in [Launchers -> Places]
  BY StepTyped DEF TypeInv, SchedInv
<1>1. ASSUME NEW d \in Launchers, List(d) \/ Overlaps(d) \/ CreateFails(d) PROVE RunInv'
  <2>1. /\ UNCHANGED <<task, lc, sup, seen, odd>>
        /\ \E place \in {"listed", "skip"} : dp' = [dp EXCEPT ![d] = place]
        /\ dp[d] \in {"idle", "listed"}
    BY <1>1 DEF List, Overlaps, CreateFails, autoVars
  <2>2. \A l \in Launchers :
            dp'[l] = dp[l] \/ {dp[l], dp'[l]} \subseteq {"idle", "listed", "skip"}
    BY <1>0, <2>1
  <2> QED BY <2>1, <2>2, ScheduleRuns
<1>2. ASSUME NEW d \in Launchers, NEW r \in Runs, Fire(d, r) \/ FireBlind(d, r) \/ Relaunch(d, r)
      PROVE  RunInv'
  BY <1>0, <1>2, FireRuns, BlindRuns, RelaunchRuns
<1>3. ASSUME NEW d \in Launchers, Skip(d) \/ RecordFired(d) \/ KillTick(d) \/ RelaunchEnds(d)
      PROVE  RunInv'
  BY <1>0, <1>3, EndRuns
<1>4. ASSUME NEW d \in Launchers, Launch(d) \/ LaunchFault(d) \/ Options(d) PROVE RunInv'
  <2>1. CASE \A p \in Pids : ~Spawn(d, p)
    BY <1>0, <1>4, <2>1, LauncherRuns
  <2>2. ASSUME NEW p \in Pids, Spawn(d, p) PROVE RunInv'
    <3>1. lc[d].pc = "spawn" /\ sup' # sup
      <4>1. sup[p].pc = "none" /\ lc[d].pc = "spawn"
        BY <2>2 DEF Spawn, IsNextPid
      <4>2. sup'[p].pc = "start"
        BY <2>2, <1>0 DEF Spawn, NoProc, TypeInv, AutoInv, ProcTyped
      <4> QED BY <4>1, <4>2
    <3>2. UNCHANGED <<dp, odd>>
      BY <1>4, <3>1 DEF Launch, LaunchFault, Options, SetupFails, SpawnFails, RecordFails, Guard, Claim
    <3> QED BY <1>0, <2>2, <3>2, SpawnRuns
  <2> QED BY <2>1, <2>2
<1>5. ASSUME NEW p \in Pids, Run(p) \/ Hold(p) PROVE RunInv'
  <2>1. (Supervise(p) \/ LimitedAgain(p)) /\ UNCHANGED <<dp, odd>>
    BY <1>5 DEF Run, Hold
  <2> QED BY <1>0, <2>1, ProcRuns
<1>6. ASSUME NEW r \in Runs, Reconcile(r) PROVE RunInv'
  BY <1>0, <1>6, ReaderRuns DEF Reconcile
<1>7. CASE Resume \/ Pause \/ Clear \/ ComesDue \/ ResetPasses \/ UNCHANGED vars
  <2>1. UNCHANGED <<task, lc, sup, seen, odd, dp>>
    BY <1>7 DEF Resume, Pause, Clear, ComesDue, ResetPasses, Command, autoVars, vars
  <2> QED BY <2>1, ScheduleRuns
<1> QED BY <1>1, <1>2, <1>3, <1>4, <1>5, <1>6, <1>7 DEF Next, Dispatch

\* Two runs of the playbook are supervised at once only when one was created while
\* another was being launched or although the runs could not be read, was never recorded, or was launched again by hand
\* (playbook_schedule.go, auto.go): NoOverlap.
THEOREM NoSecondRun == Spec => []NoOverlap
<1>1. TypeInv /\ RunInv => NoOverlap
  <2> SUFFICES ASSUME TypeInv, RunInv, NEW p \in Supervising, NEW q \in Supervising,
                      sup[p].run \notin odd, sup[q].run \notin odd
               PROVE  p = q
    BY DEF NoOverlap
  <2>1. sup[p].run \in Runs /\ sup[q].run \in Runs
    BY DEF TypeInv, AutoInv, ProcTyped, Procs, Supervising
  <2>2. InWork(sup[p].run) /\ InWork(sup[q].run)
    BY DEF InWork
  <2>3. sup[p].run = sup[q].run
    BY <2>1, <2>2 DEF RunInv, OneInWork
  <2>4. Held(p) /\ Held(q)
    BY DEF RunInv, AllHeld
  <2>5. CASE AtRun(sup[p].run) # {}
    BY <2>3, <2>4, <2>5 DEF Held
  <2>6. CASE AtRun(sup[p].run) = {}
    BY <2>3, <2>4, <2>6 DEF Held, Recorded
  <2> QED BY <2>5, <2>6
<1> QED BY <1>1, InitRuns, StepRuns, AlwaysTyped, PTL DEF Spec

\* A row that says running names the process that supervises the run, or its launcher
\* is about to make it so: the supervisor ends after the record, and the readers give
\* up a dead number only (auto.go), but for the runs set aside.
THEOREM RowNamesSupervisor == Spec => []SupervisorShown
<1>1. RunInv => SupervisorShown
  <2> SUFFICES ASSUME RunInv, NEW p \in Supervising, sup[p].run \notin odd, ~Recorded(p)
               PROVE  \E l \in Launchers : /\ lc[l].pc = "record" /\ lc[l].run = sup[p].run
                                           /\ lc[l].pid = p
    BY DEF SupervisorShown, Recorded
  <2>1. Held(p)
    BY DEF RunInv, AllHeld
  <2>2. PICK l \in AtRun(sup[p].run) : TRUE
    BY <2>1 DEF Held
  <2> QED BY <2>1, <2>2 DEF Held, AtRun
<1> QED BY <1>1, InitRuns, StepRuns, AlwaysTyped, PTL DEF Spec

-----------------------------------------------------------------------------
(* The time to fire.                                                        *)

\* A step of a dispatcher leaves the row alone, or moves the schedule on.
LEMMA DispatcherRow ==
    ASSUME NEW d \in Launchers,
           \/ Dispatch(d) \/ CreateFails(d) \/ LaunchFault(d) \/ KillTick(d)
           \/ Options(d) \/ RelaunchEnds(d) \/ \E r \in Runs : FireBlind(d, r) \/ Relaunch(d, r)
    PROVE  UNCHANGED <<spec, paused>> /\ next' \in {next, "later"}
<1> USE DEF rowVars, Rest
<1>1. CASE List(d) \/ Overlaps(d) \/ CreateFails(d) \/ KillTick(d) \/ RelaunchEnds(d)
  BY <1>1 DEF List, Overlaps, CreateFails, KillTick, RelaunchEnds
<1>2. CASE \E r \in Runs : Fire(d, r) \/ FireBlind(d, r) \/ Relaunch(d, r)
  BY <1>2 DEF Fire, FireBlind, Create, Relaunch
<1>3. CASE Skip(d) \/ RecordFired(d)
  BY <1>3 DEF Skip, RecordFired, MovesOn
<1>4. CASE Launch(d) \/ LaunchFault(d) \/ Options(d)
  BY <1>4 DEF Launch, LaunchFault, Options
<1> QED BY <1>1, <1>2, <1>3, <1>4 DEF Dispatch

LEMMA StepArmed == ArmedHasFire /\ [Next]_vars => ArmedHasFire'
<1> SUFFICES ASSUME ArmedHasFire, [Next]_vars PROVE ArmedHasFire'
  OBVIOUS
<1> USE DEF ArmedHasFire, Armed
<1>1. ASSUME NEW d \in Launchers,
             \/ Dispatch(d) \/ CreateFails(d) \/ LaunchFault(d) \/ KillTick(d)
             \/ Options(d) \/ RelaunchEnds(d) \/ \E r \in Runs : FireBlind(d, r) \/ Relaunch(d, r)
      PROVE  ArmedHasFire'
  BY <1>1, DispatcherRow
<1>2. ASSUME NEW p \in Pids, Run(p) PROVE ArmedHasFire'
  BY <1>2 DEF Run, Rest, rowVars
<1>3. ASSUME NEW p \in Pids, Hold(p) PROVE ArmedHasFire'
  BY <1>3 DEF Hold
<1>4. ASSUME NEW r \in Runs, Reconcile(r) PROVE ArmedHasFire'
  BY <1>4 DEF Reconcile, Rest, rowVars
<1>5. CASE Resume \/ Pause \/ Clear
  BY <1>5 DEF Resume, Pause, Clear
<1>6. CASE ComesDue \/ ResetPasses
  BY <1>6 DEF ComesDue, ResetPasses
<1>7. CASE UNCHANGED vars
  BY <1>7 DEF vars, rowVars
<1> QED BY <1>1, <1>2, <1>3, <1>4, <1>5, <1>6, <1>7 DEF Next

\* An armed schedule has a time to fire: the safety half of ScheduleFires, for a row
\* without one is never due (db.go).
THEOREM FireIsSet == Spec => []ArmedHasFire
<1>1. Init => ArmedHasFire
  BY DEF Init, ArmedHasFire
<1> QED BY <1>1, StepArmed, PTL DEF Spec

-----------------------------------------------------------------------------
(* OwnerTick, as O: its constants, its variables, its assumption as a       *)
(* hypothesis.                                                              *)

CONSTANTS Dispatchers, Scheduler, MaxPids

VARIABLES status, wake, pid, aged, proc, op, show, ownerOps, ownerFaults, lost

O == INSTANCE OwnerTick WITH ops <- ownerOps, faults <- ownerFaults

LEMMA OwnerNoPid == O!NoPid \notin O!Pids
BY DEF O!NoPid, O!Pids

LEMMA OwnerInitTyped == ASSUME O!OwnerTickAssumption, O!Init PROVE O!TypeOK
<1>1. op \in [Dispatchers -> O!Ops]
  BY DEF O!Init, O!Idle, O!Ops
<1>2. proc \in [O!Pids -> {"free", "boot", "leave", "run", "other"}]
  BY DEF O!Init
<1>3. ownerOps \in 0..MaxOps /\ ownerFaults \in 0..MaxFaults
  BY DEF O!Init, O!OwnerTickAssumption
<1>4. aged = FALSE /\ show \in O!Pids \cup {O!NoPid} /\ pid \in O!Pids \cup {O!NoPid} /\ lost = {}
  BY DEF O!Init
<1>5. status \in {"active", "paused"} /\ wake \in {"due", "later"}
  BY DEF O!Init
<1> QED BY <1>1, <1>2, <1>3, <1>4, <1>5 DEF O!TypeOK

LEMMA OwnerStepTyped ==
    ASSUME O!OwnerTickAssumption, O!TypeOK, [O!Next]_O!vars
    PROVE  O!TypeOK'
<1> USE OwnerNoPid DEF O!rowVars, O!OwnerTickAssumption
<1> DEFINE DispatchTyped == op \in [Dispatchers -> O!Ops]
<1>0. O!Idle \in O!Ops
  BY DEF O!Idle, O!Ops
<1>1. ASSUME NEW d \in Dispatchers, O!LoadDue(d) \/ O!LoadManual(d) PROVE O!TypeOK'
  <2>1. \A due \in BOOLEAN : O!Loaded(due) \in O!Ops
    BY DEF O!Ops, O!Loaded, O!Launched, O!Live, O!TypeOK
  <2>2. DispatchTyped'
    <3>1. PICK due \in BOOLEAN : op' = [op EXCEPT ![d] = O!Loaded(due)]
      BY <1>1 DEF O!LoadDue, O!LoadManual
    <3>2. op \in [Dispatchers -> O!Ops]
      BY DEF O!TypeOK
    <3> QED BY <3>1, <3>2, <2>1
  <2>3. ownerOps' \in 0..MaxOps
    <3>1. ownerOps' = ownerOps \/ (ownerOps < MaxOps /\ ownerOps' = ownerOps + 1)
      BY <1>1 DEF O!LoadDue, O!LoadManual, O!Command
    <3> QED BY <3>1 DEF O!TypeOK
  <2>4. UNCHANGED <<status, wake, pid, aged, proc, show, ownerFaults, lost>>
    BY <1>1 DEF O!LoadDue, O!LoadManual
  <2> QED BY <2>2, <2>3, <2>4 DEF O!TypeOK
<1>2. ASSUME NEW d \in Dispatchers, O!Skip(d) \/ O!LaunchFails(d) PROVE O!TypeOK'
  <2>1. DispatchTyped' BY <1>2, <1>0 DEF O!Skip, O!LaunchFails, O!TypeOK
  <2>2. ownerFaults' \in 0..MaxFaults BY <1>2 DEF O!Skip, O!LaunchFails, O!Fault, O!TypeOK
  <2> QED BY <1>2, <2>1, <2>2 DEF O!Skip, O!LaunchFails, O!TypeOK
<1>3. ASSUME NEW d \in Dispatchers, NEW p \in O!Pids, O!Launch(d, p) PROVE O!TypeOK'
  <2>1. DispatchTyped'
    <3>1. \A e \in Dispatchers : op[e] \in O!Ops BY DEF O!TypeOK
    <3>2. [O!Idle EXCEPT !.pc = "launched", !.due = op[d].due, !.pid = p] \in O!Ops
      BY <3>1 DEF O!Ops, O!Idle
    <3>3. \A e \in Dispatchers : [op[e] EXCEPT !.beside = @ \cup {p}] \in O!Ops
      BY <3>1 DEF O!Ops
    <3> QED BY <1>3, <3>1, <3>2, <3>3 DEF O!Launch
  <2>2. proc' \in [O!Pids -> {"free", "boot", "leave", "run", "other"}]
    BY <1>3 DEF O!Launch, O!TypeOK
  <2> QED BY <1>3, <2>1, <2>2 DEF O!Launch, O!TypeOK
<1>4. ASSUME NEW d \in Dispatchers, O!Record(d) PROVE O!TypeOK'
  <2>1. DispatchTyped' BY <1>4, <1>0 DEF O!Record, O!TypeOK
  <2>2. pid' \in O!Pids \cup {O!NoPid} /\ aged' = FALSE BY <1>4 DEF O!Record, O!TypeOK, O!Ops
  <2>3. wake' \in {"due", "later"} BY <1>4 DEF O!Record, O!Advanced, O!TypeOK
  <2>4. lost' \subseteq O!Pids BY <1>4 DEF O!Record, O!Live, O!TypeOK
  <2> QED BY <1>4, <2>1, <2>2, <2>3, <2>4 DEF O!Record, O!TypeOK
<1>5. ASSUME NEW d \in Dispatchers, O!RecordFails(d) PROVE O!TypeOK'
  <2>1. DispatchTyped' BY <1>5, <1>0 DEF O!RecordFails, O!TypeOK
  <2>2. ownerFaults' \in 0..MaxFaults BY <1>5 DEF O!RecordFails, O!Fault, O!TypeOK
  <2>3. lost' \subseteq O!Pids BY <1>5 DEF O!RecordFails, O!Live, O!TypeOK
  <2> QED BY <1>5, <2>1, <2>2, <2>3 DEF O!RecordFails, O!TypeOK
<1>6. ASSUME NEW p \in O!Pids, O!Begin(p) \/ O!SelfPace(p) PROVE O!TypeOK'
  BY <1>6 DEF O!Begin, O!SelfPace, O!TypeOK
<1>7. ASSUME NEW p \in O!Pids, O!End(p) \/ O!Die(p) PROVE O!TypeOK'
  <2>1. DispatchTyped'
    <3>1. \A d \in Dispatchers : [op[d] EXCEPT !.beside = @ \ {p}] \in O!Ops
      BY DEF O!TypeOK, O!Ops
    <3> QED BY <1>7, <3>1 DEF O!End, O!Die, O!Gone
  <2>2. proc' \in [O!Pids -> {"free", "boot", "leave", "run", "other"}]
    BY <1>7 DEF O!End, O!Die, O!Gone, O!TypeOK
  <2>3. lost' \subseteq O!Pids BY <1>7 DEF O!End, O!Die, O!Live, O!TypeOK
  <2>4. ownerFaults' \in 0..MaxFaults BY <1>7 DEF O!End, O!Die, O!Fault, O!TypeOK
  <2>5. pid' \in O!Pids \cup {O!NoPid} /\ aged' \in BOOLEAN /\ (aged' => pid' # O!NoPid)
    <3>1. CASE O!End(p) BY <3>1 DEF O!End, O!Cleared
    <3>2. CASE O!Die(p) BY <3>2 DEF O!Die, O!TypeOK
    <3> QED BY <1>7, <3>1, <3>2
  <2> QED BY <1>7, <2>1, <2>2, <2>3, <2>4, <2>5 DEF O!End, O!Die, O!TypeOK
<1>8. ASSUME NEW p \in O!Pids, O!Recycle(p) \/ O!StrangerGone(p) PROVE O!TypeOK'
  BY <1>8 DEF O!Recycle, O!StrangerGone, O!Fault, O!TypeOK
<1>9. CASE O!ShowLoad
  BY <1>9 DEF O!ShowLoad, O!TypeOK
<1>10. CASE O!ShowWrite
  <2>1. pid' = O!NoPid /\ aged' = FALSE /\ show' = O!NoPid BY <1>10 DEF O!ShowWrite, O!Cleared
  <2>2. lost' \subseteq O!Pids BY <1>10 DEF O!ShowWrite, O!Live, O!TypeOK
  <2> QED BY <1>10, <2>1, <2>2 DEF O!ShowWrite, O!TypeOK
<1>11. CASE O!ownerStart \/ O!ownerPause \/ O!ownerNext
  BY <1>11 DEF O!ownerStart, O!ownerPause, O!ownerNext, O!Command, O!TypeOK
<1>12. CASE O!WakePasses \/ O!Age
  <2>1. CASE O!WakePasses BY <2>1 DEF O!WakePasses, O!TypeOK
  <2>2. CASE O!Age
    <3>1. pid # O!NoPid BY <2>2 DEF O!Age, O!processAlive
    <3> QED BY <2>2, <3>1 DEF O!Age, O!TypeOK
  <2> QED BY <1>12, <2>1, <2>2
<1>13. CASE UNCHANGED O!vars
  BY <1>13 DEF O!vars, O!TypeOK
<1> QED
  BY <1>1, <1>2, <1>3, <1>4, <1>5, <1>6, <1>7, <1>8, <1>9, <1>10, <1>11, <1>12, <1>13
     DEF O!Next, O!Dispatch

-----------------------------------------------------------------------------
\* A tick that runs and is not lost is the one the row names, or one whose
\* dispatch has yet to record it.
RowKnowsTick ==
    \A q \in O!Live \ lost :
        q = pid \/ \E e \in Dispatchers : op[e].pc = "launched" /\ op[e].pid = q

\* So does the row a dispatch has loaded, but for the ticks launched beside it.
LoadedRowKnowsTick ==
    \A d \in Dispatchers : op[d].pc = "loaded"
        => \A q \in O!Live \ (lost \cup op[d].beside) : q = op[d].pid

\* What an `owner show` is about to give up is a tick that is gone, or has left
\* the row, or has outlived its hour.
ShowGivesUpOld == (show # O!NoPid /\ show \in O!Live /\ pid = show) => aged

\* A tick whose dispatch has yet to record it has a number of its own.
Fresh(e) == op[e].pid \in O!Pids \ {pid, show}
LaunchedApart ==
    \A e \in Dispatchers : op[e].pc = "launched"
        => /\ Fresh(e)
           /\ \A f \in Dispatchers \ {e} : op[f].pc = "launched" => op[f].pid # op[e].pid

OwnerInv == O!TypeOK /\ RowKnowsTick /\ LoadedRowKnowsTick /\ ShowGivesUpOld /\ LaunchedApart

LEMMA InitOwnerInv == ASSUME O!OwnerTickAssumption, O!Init PROVE OwnerInv
<1>1. O!TypeOK BY OwnerInitTyped
<1>2. O!Live = {} BY DEF O!Init, O!Live
<1>3. \A d \in Dispatchers : op[d].pc = "idle" BY DEF O!Init, O!Idle
<1> QED
  BY <1>1, <1>2, <1>3
     DEF OwnerInv, RowKnowsTick, LoadedRowKnowsTick, ShowGivesUpOld, LaunchedApart

\* A step that changes neither the dispatches nor the ticks that run, nor the
\* row's pid, its age, the lost ticks and what an `owner show` holds.
LEMMA QuietOwnerInv ==
    ASSUME OwnerInv, O!TypeOK', O!Live' = O!Live, UNCHANGED <<op, pid, aged, show, lost>>
    PROVE  OwnerInv'
BY DEF OwnerInv, RowKnowsTick, LoadedRowKnowsTick, ShowGivesUpOld, LaunchedApart, Fresh

\* A dispatch reads the row.
LEMMA LoadOwnerInv ==
    ASSUME OwnerInv, O!TypeOK', NEW d \in Dispatchers, O!LoadDue(d) \/ O!LoadManual(d)
    PROVE  OwnerInv'
<1>1. PICK due \in BOOLEAN : op' = [op EXCEPT ![d] = O!Loaded(due)]
  BY DEF O!LoadDue, O!LoadManual
<1>2. op[d].pc = "idle" /\ UNCHANGED <<pid, aged, proc, show, lost>>
  BY DEF O!LoadDue, O!LoadManual, O!rowVars
<1>3. O!Live' = O!Live BY <1>2 DEF O!Live
<1>4. /\ op'[d].pc = "loaded" /\ op'[d].pid = pid /\ op'[d].beside = O!Launched
      /\ \A e \in Dispatchers \ {d} : op'[e] = op[e]
  BY <1>1 DEF O!Loaded, OwnerInv, O!TypeOK
<1>5. RowKnowsTick'
  BY <1>2, <1>3, <1>4 DEF RowKnowsTick, OwnerInv
<1>6. LoadedRowKnowsTick'
  <2>1. \A q \in O!Live \ (lost \cup O!Launched) : q = pid
    BY DEF OwnerInv, RowKnowsTick, O!Launched
  <2> QED BY <1>2, <1>3, <1>4, <2>1 DEF LoadedRowKnowsTick, OwnerInv
<1>7. ShowGivesUpOld' BY <1>2, <1>3 DEF ShowGivesUpOld, OwnerInv
<1>8. LaunchedApart' BY <1>2, <1>4 DEF LaunchedApart, Fresh, OwnerInv
<1> QED BY <1>5, <1>6, <1>7, <1>8 DEF OwnerInv

\* A dispatch gives up.
LEMMA GiveUpOwnerInv ==
    ASSUME OwnerInv, O!TypeOK', NEW d \in Dispatchers, O!Skip(d) \/ O!LaunchFails(d)
    PROVE  OwnerInv'
<1>1. /\ op[d].pc = "loaded" /\ op' = [op EXCEPT ![d] = O!Idle]
      /\ UNCHANGED <<pid, aged, proc, show, lost>>
  BY DEF O!Skip, O!LaunchFails, O!rowVars
<1>2. O!Live' = O!Live BY <1>1 DEF O!Live
<1>3. op'[d].pc = "idle" /\ \A e \in Dispatchers \ {d} : op'[e] = op[e]
  BY <1>1 DEF O!Idle, OwnerInv, O!TypeOK
<1>4. RowKnowsTick' BY <1>1, <1>2, <1>3 DEF RowKnowsTick, OwnerInv
<1>5. LoadedRowKnowsTick' BY <1>1, <1>2, <1>3 DEF LoadedRowKnowsTick, OwnerInv
<1>6. ShowGivesUpOld' BY <1>1, <1>2 DEF ShowGivesUpOld, OwnerInv
<1>7. LaunchedApart' BY <1>1, <1>3 DEF LaunchedApart, Fresh, OwnerInv
<1> QED BY <1>4, <1>5, <1>6, <1>7 DEF OwnerInv

\* A tick is launched, under a number nobody holds.
LEMMA LaunchOwnerInv ==
    ASSUME OwnerInv, O!TypeOK', NEW d \in Dispatchers, NEW p \in O!Pids, O!Launch(d, p)
    PROVE  OwnerInv'
<1>1. /\ op[d].pc = "loaded"
      /\ proc' = [proc EXCEPT ![p] = "boot"]
      /\ UNCHANGED <<pid, aged, show, lost>>
  BY DEF O!Launch, O!rowVars
<1>2. p \notin {pid, show} /\ \A e \in Dispatchers \ {d} : op[e].pid # p
  BY DEF O!Launch, O!IsNextPid, O!Spare, O!Held
<1>3. O!Live' = O!Live \cup {p} BY <1>1 DEF O!Live, OwnerInv, O!TypeOK
<1>4. op'[d].pc = "launched" /\ op'[d].pid = p
  BY DEF O!Launch, O!Idle
<1>5. \A e \in Dispatchers \ {d} :
        /\ op'[e].pc = op[e].pc /\ op'[e].pid = op[e].pid
        /\ op[e].pc = "loaded" => op'[e].beside = op[e].beside \cup {p}
  <2> SUFFICES ASSUME NEW e \in Dispatchers \ {d}
               PROVE  /\ op'[e].pc = op[e].pc /\ op'[e].pid = op[e].pid
                      /\ op[e].pc = "loaded" => op'[e].beside = op[e].beside \cup {p}
    OBVIOUS
  <2>1. op[e] \in O!Ops BY DEF OwnerInv, O!TypeOK
  <2>2. op'[e] = IF op[e].pc = "loaded" THEN [op[e] EXCEPT !.beside = @ \cup {p}] ELSE op[e]
    BY DEF O!Launch
  <2> QED BY <2>1, <2>2 DEF O!Ops
<1>6. RowKnowsTick' BY <1>1, <1>3, <1>4, <1>5 DEF RowKnowsTick, OwnerInv
<1>7. LoadedRowKnowsTick'
  BY <1>1, <1>3, <1>4, <1>5 DEF LoadedRowKnowsTick, OwnerInv
<1>8. ShowGivesUpOld' BY <1>1, <1>2, <1>3 DEF ShowGivesUpOld, OwnerInv
<1>9. LaunchedApart' BY <1>1, <1>2, <1>4, <1>5 DEF LaunchedApart, Fresh, OwnerInv
<1> QED BY <1>6, <1>7, <1>8, <1>9 DEF OwnerInv

\* A dispatch records its tick, or does not come to it.
LEMMA RecordOwnerInv ==
    ASSUME OwnerInv, O!TypeOK', NEW d \in Dispatchers, O!Record(d) \/ O!RecordFails(d)
    PROVE  OwnerInv'
<1>1. /\ op[d].pc = "launched" /\ op' = [op EXCEPT ![d] = O!Idle]
      /\ UNCHANGED <<proc, show>>
  BY DEF O!Record, O!RecordFails
<1>2. O!Live' = O!Live BY <1>1 DEF O!Live
<1>3. op'[d].pc = "idle" /\ \A e \in Dispatchers \ {d} : op'[e] = op[e]
  BY <1>1 DEF O!Idle, OwnerInv, O!TypeOK
<1>4. Fresh(d) /\ \A e \in Dispatchers \ {d} : op[e].pc = "launched" => op[e].pid # op[d].pid
  BY <1>1 DEF OwnerInv, LaunchedApart
<1>5. lost \subseteq lost' BY DEF O!Record, O!RecordFails
<1>6. pid' = op[d].pid \/ (pid' = pid /\ aged' = aged)
  BY DEF O!Record, O!RecordFails, O!rowVars
<1>7. RowKnowsTick'
  <2> SUFFICES ASSUME NEW q \in O!Live \ lost'
               PROVE  q = pid' \/ \E e \in Dispatchers : op'[e].pc = "launched" /\ op'[e].pid = q
    BY <1>2 DEF RowKnowsTick
  <2>1. q = pid \/ \E e \in Dispatchers : op[e].pc = "launched" /\ op[e].pid = q
    BY <1>5 DEF OwnerInv, RowKnowsTick
  <2>2. CASE O!Record(d)
    <3>1. q # pid BY <2>2 DEF O!Record
    <3> QED BY <2>1, <3>1, <1>3, <2>2 DEF O!Record
  <2>3. CASE O!RecordFails(d)
    <3>1. q # op[d].pid /\ pid' = pid BY <2>3 DEF O!RecordFails, O!rowVars
    <3> QED BY <2>1, <3>1, <1>3
  <2> QED BY <2>2, <2>3
<1>8. LoadedRowKnowsTick' BY <1>2, <1>3, <1>5 DEF LoadedRowKnowsTick, OwnerInv
<1>9. ShowGivesUpOld' BY <1>1, <1>2, <1>4, <1>6 DEF ShowGivesUpOld, Fresh, OwnerInv
<1>10. LaunchedApart' BY <1>1, <1>3, <1>4, <1>6 DEF LaunchedApart, Fresh, OwnerInv
<1> QED BY <1>7, <1>8, <1>9, <1>10 DEF OwnerInv

\* A tick ends, or dies.
LEMMA EndOwnerInv ==
    ASSUME OwnerInv, O!TypeOK', NEW p \in O!Pids, O!End(p) \/ O!Die(p)
    PROVE  OwnerInv'
<1>1. proc' = [proc EXCEPT ![p] = "free"] /\ show' = show
  BY DEF O!End, O!Die, O!Gone
<1>2. O!Live' = O!Live \ {p} BY <1>1 DEF O!Live, OwnerInv, O!TypeOK
<1>3. \A e \in Dispatchers : /\ op'[e].pc = op[e].pc /\ op'[e].pid = op[e].pid
                             /\ op'[e].beside = op[e].beside \ {p}
  <2> SUFFICES ASSUME NEW e \in Dispatchers
               PROVE  /\ op'[e].pc = op[e].pc /\ op'[e].pid = op[e].pid
                      /\ op'[e].beside = op[e].beside \ {p}
    OBVIOUS
  <2>1. op[e] \in O!Ops BY DEF OwnerInv, O!TypeOK
  <2>2. op'[e] = [op[e] EXCEPT !.beside = @ \ {p}] BY DEF O!End, O!Die, O!Gone
  <2> QED BY <2>1, <2>2 DEF O!Ops
<1>4. lost \ {p} \subseteq lost' BY DEF O!End, O!Die
<1>5. (pid' = O!NoPid /\ \A q \in O!Live \ {p} : q = pid => q \in lost')
      \/ (pid' = pid /\ aged' = aged)
  BY DEF O!End, O!Die, O!Cleared, O!rowVars
<1>6. RowKnowsTick' BY <1>2, <1>3, <1>4, <1>5 DEF RowKnowsTick, OwnerInv
<1>7. LoadedRowKnowsTick' BY <1>2, <1>3, <1>4 DEF LoadedRowKnowsTick, OwnerInv
<1>8. ShowGivesUpOld' BY <1>1, <1>2, <1>5 DEF ShowGivesUpOld, OwnerInv
<1>9. LaunchedApart' BY <1>1, <1>3, <1>5, OwnerNoPid DEF LaunchedApart, Fresh, OwnerInv
<1> QED BY <1>6, <1>7, <1>8, <1>9 DEF OwnerInv

\* `owner show` decides, and writes.
LEMMA ShowOwnerInv ==
    ASSUME OwnerInv, O!TypeOK', O!ShowLoad \/ O!ShowWrite
    PROVE  OwnerInv'
<1>1. proc' = proc /\ op' = op BY DEF O!ShowLoad, O!ShowWrite
<1>2. O!Live' = O!Live BY <1>1 DEF O!Live
<1>3. CASE O!ShowLoad
  <2>1. show' = pid /\ UNCHANGED <<pid, aged, lost>> BY <1>3 DEF O!ShowLoad, O!rowVars
  <2>2. pid \in O!Live => aged BY <1>3 DEF O!ShowLoad, O!processAlive, O!Live
  <2> QED
    BY <1>1, <1>2, <2>1, <2>2
       DEF OwnerInv, RowKnowsTick, LoadedRowKnowsTick, ShowGivesUpOld, LaunchedApart, Fresh
<1>4. CASE O!ShowWrite
  <2>1. show # O!NoPid /\ show' = O!NoPid /\ pid' = O!NoPid /\ aged' = FALSE
    BY <1>4 DEF O!ShowWrite, O!Cleared
  <2>2. lost \subseteq lost' BY <1>4 DEF O!ShowWrite
  <2>3. \A q \in O!Live : q = pid => q \in lost'
    BY <1>4, <2>1 DEF O!ShowWrite, OwnerInv, ShowGivesUpOld
  <2>4. RowKnowsTick' BY <1>1, <1>2, <2>1, <2>2, <2>3 DEF RowKnowsTick, OwnerInv
  <2>5. LoadedRowKnowsTick' BY <1>1, <1>2, <2>2 DEF LoadedRowKnowsTick, OwnerInv
  <2>6. ShowGivesUpOld' BY <2>1 DEF ShowGivesUpOld
  <2>7. LaunchedApart' BY <1>1, <2>1, OwnerNoPid DEF LaunchedApart, Fresh, OwnerInv
  <2> QED BY <2>4, <2>5, <2>6, <2>7 DEF OwnerInv
<1> QED BY <1>3, <1>4

LEMMA NextOwnerInv ==
    ASSUME O!OwnerTickAssumption, OwnerInv, [O!Next]_O!vars
    PROVE  OwnerInv'
<1>0. O!TypeOK' BY OwnerStepTyped DEF OwnerInv
<1>1. ASSUME NEW d \in Dispatchers, O!LoadDue(d) \/ O!LoadManual(d) PROVE OwnerInv'
  BY <1>0, <1>1, LoadOwnerInv
<1>2. ASSUME NEW d \in Dispatchers, O!Skip(d) \/ O!LaunchFails(d) PROVE OwnerInv'
  BY <1>0, <1>2, GiveUpOwnerInv
<1>3. ASSUME NEW d \in Dispatchers, NEW p \in O!Pids, O!Launch(d, p) PROVE OwnerInv'
  BY <1>0, <1>3, LaunchOwnerInv
<1>4. ASSUME NEW d \in Dispatchers, O!Record(d) \/ O!RecordFails(d) PROVE OwnerInv'
  BY <1>0, <1>4, RecordOwnerInv
<1>5. ASSUME NEW p \in O!Pids, O!End(p) \/ O!Die(p) PROVE OwnerInv'
  BY <1>0, <1>5, EndOwnerInv
<1>6. CASE O!ShowLoad \/ O!ShowWrite
  BY <1>0, <1>6, ShowOwnerInv
<1>7. ASSUME NEW p \in O!Pids, O!Begin(p) \/ O!Recycle(p) \/ O!StrangerGone(p) PROVE OwnerInv'
  <2>1. O!Live' = O!Live BY <1>7 DEF O!Begin, O!Recycle, O!StrangerGone, O!Live, OwnerInv, O!TypeOK
  <2>2. UNCHANGED <<op, pid, aged, show, lost>>
    BY <1>7 DEF O!Begin, O!Recycle, O!StrangerGone, O!rowVars
  <2> QED BY <1>0, <2>1, <2>2, QuietOwnerInv
<1>8. ASSUME NEW p \in O!Pids, O!SelfPace(p) PROVE OwnerInv'
  <2>1. UNCHANGED <<proc, op, pid, aged, show, lost>> BY <1>8 DEF O!SelfPace
  <2> QED BY <1>0, <2>1, QuietOwnerInv DEF O!Live
<1>9. CASE O!ownerStart \/ O!ownerPause \/ O!ownerNext \/ O!WakePasses \/ UNCHANGED O!vars
  <2>1. UNCHANGED <<proc, op, pid, aged, show, lost>>
    BY <1>9 DEF O!ownerStart, O!ownerPause, O!ownerNext, O!WakePasses, O!vars
  <2> QED BY <1>0, <2>1, QuietOwnerInv DEF O!Live
<1>10. CASE O!Age
  <2>1. UNCHANGED <<proc, op, pid, show, lost>> /\ aged' = TRUE BY <1>10 DEF O!Age
  <2> QED
    BY <1>0, <2>1
       DEF OwnerInv, RowKnowsTick, LoadedRowKnowsTick, ShowGivesUpOld, LaunchedApart, Fresh, O!Live
<1> QED
  BY <1>1, <1>2, <1>3, <1>4, <1>5, <1>6, <1>7, <1>8, <1>9, <1>10 DEF O!Next, O!Dispatch

-----------------------------------------------------------------------------
LEMMA StepLaunchesOne ==
    ASSUME OwnerInv, [O!Next]_O!vars,
           NEW d \in Dispatchers, NEW p \in O!Pids,
           op[d].pc = "loaded", proc[p] = "free", proc'[p] = "boot", op'[d].pid = p
    PROVE  \A q \in O!Live \ (lost \cup op[d].beside) : q = op[d].pid /\ op[d].aged
<1>1. O!Launch(d, p)
  <2>1. PICK e \in Dispatchers, r \in O!Pids : O!Launch(e, r)
    <3>1. ASSUME proc' = proc PROVE FALSE BY <3>1
    <3>2. ASSUME NEW r \in O!Pids,
                 O!Begin(r) \/ O!End(r) \/ O!Die(r) \/ O!Recycle(r) \/ O!StrangerGone(r)
          PROVE  FALSE
      BY <3>2 DEF O!Begin, O!End, O!Die, O!Gone, O!Recycle, O!StrangerGone, OwnerInv, O!TypeOK
    <3>3. ASSUME NEW e \in Dispatchers,
                 O!LoadDue(e) \/ O!LoadManual(e) \/ O!Skip(e) \/ O!LaunchFails(e)
                   \/ O!Record(e) \/ O!RecordFails(e)
          PROVE  FALSE
      BY <3>1, <3>3 DEF O!LoadDue, O!LoadManual, O!Skip, O!LaunchFails, O!Record, O!RecordFails
    <3>4. ASSUME NEW r \in O!Pids, O!SelfPace(r) PROVE FALSE BY <3>1, <3>4 DEF O!SelfPace
    <3>5. ASSUME O!ShowLoad \/ O!ShowWrite \/ O!ownerStart \/ O!ownerPause \/ O!ownerNext
                   \/ O!WakePasses \/ O!Age \/ UNCHANGED O!vars
          PROVE  FALSE
      BY <3>1, <3>5
         DEF O!ShowLoad, O!ShowWrite, O!ownerStart, O!ownerPause, O!ownerNext, O!WakePasses, O!Age, O!vars
    <3> QED BY <3>2, <3>3, <3>4, <3>5 DEF O!Next, O!Dispatch
  <2>2. r = p BY <2>1 DEF O!Launch, OwnerInv, O!TypeOK
  <2>3. e = d
    <3> SUFFICES ASSUME e # d PROVE FALSE
      OBVIOUS
    <3>1. op'[d] = [op[d] EXCEPT !.beside = @ \cup {r}] BY <2>1 DEF O!Launch
    <3>2. op'[d].pid = op[d].pid BY <3>1 DEF OwnerInv, O!TypeOK, O!Ops
    <3>3. op[d].pid # r BY <2>1 DEF O!Launch, O!IsNextPid, O!Spare, O!Held
    <3> QED BY <2>2, <3>2, <3>3
  <2> QED BY <2>1, <2>2, <2>3
<1>2. SUFFICES ASSUME NEW q \in O!Live \ (lost \cup op[d].beside)
               PROVE  q = op[d].pid /\ op[d].aged
  OBVIOUS
<1>3. q = op[d].pid BY <1>1 DEF OwnerInv, LoadedRowKnowsTick, O!Launch
<1>4. O!processAlive(q) BY DEF O!Live, O!processAlive
<1> QED BY <1>1, <1>3, <1>4 DEF O!Launch, O!Guarded, OwnerInv, O!TypeOK, O!Ops

-----------------------------------------------------------------------------
\* Every variable of OwnerTick keeps its type, whatever the dispatchers, process
\* numbers, commands and faults.
THEOREM OwnerTypeCorrect ==
    ASSUME O!OwnerTickAssumption
    PROVE  O!Spec => []O!TypeOK
<1>1. O!Init => O!TypeOK
  BY OwnerInitTyped
<1>2. O!TypeOK /\ [O!Next]_O!vars => O!TypeOK'
  BY OwnerStepTyped
<1> QED BY <1>1, <1>2, PTL DEF O!Spec

\* A tick is launched beside one that still runs only when the row its dispatch
\* has read names that one and it has outlived its hour, or through one of the
\* windows OneTickAtATime names (owner_tick.go:265).
THEOREM NoSecondTick ==
    ASSUME O!OwnerTickAssumption
    PROVE  O!Spec => O!OneTickAtATime
<1>1. O!Init => OwnerInv
  BY InitOwnerInv
<1>2. OwnerInv /\ [O!Next]_O!vars => OwnerInv'
  BY NextOwnerInv
<1>3. OwnerInv /\ [O!Next]_O!vars
      => [\A d \in Dispatchers, p \in O!Pids :
            op[d].pc = "loaded" /\ proc[p] = "free" /\ proc'[p] = "boot" /\ op'[d].pid = p
            => \A q \in O!Live \ (lost \cup op[d].beside) : q = op[d].pid /\ op[d].aged]_O!vars
  BY StepLaunchesOne
<1> QED BY <1>1, <1>2, <1>3, PTL DEF O!Spec, O!OneTickAtATime
===============================================================================
