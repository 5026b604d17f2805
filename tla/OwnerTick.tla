------------------------------- MODULE OwnerTick -------------------------------
(* The ticks of one owner (app/owner_tick.go, app/owner.go).  The server's      *)
(* scheduler and a host's cron each run `flow owner tick-due`, the operator      *)
(* `flow owner tick --auto`: each reads the owner's row, launches a detached     *)
(* child when the row shows no tick that still runs, and only then writes the    *)
(* child's pid into the row.  The child clears it when it is done.  Nothing      *)
(* holds a lock between the read and the write, and every write is              *)
(* unconditional.                                                               *)
EXTENDS Integers, FiniteSets

CONSTANTS
    Dispatchers,  \* processes that dispatch: the scheduler's, cron's, the operator's
    Scheduler,    \* the one the server runs every minute
    MaxPids,      \* bound: process numbers
    MaxOps,       \* bound: commands of the operator, and of cron
    MaxFaults     \* bound: deaths, failed launches and failed writes together

ASSUME OwnerTickAssumption ==
    /\ Scheduler \in Dispatchers
    /\ MaxPids \in Nat \ {0}
    /\ MaxOps \in Nat /\ MaxFaults \in Nat

VARIABLES
    status,      \* owners.status; a retired owner is to the ticks what a paused one is
    wake,        \* next_wake_at: "due" once it has passed, else "later"
    pid,         \* tick_pid
    aged,        \* tick_started is more than ownerTickStaleAfter ago
    proc,        \* what runs under each pid
    op,          \* what each dispatcher is doing
    show,        \* the pid an `owner show` is about to give up, or NoPid
    ops,         \* commands so far
    faults,      \* faults so far
    lost         \* ticks whose pid never reached the row, or left it when they had
                 \* outlived the hour, or by the hand of one who looked at another's

rowVars == <<status, wake, pid, aged>>
vars == <<status, wake, pid, aged, proc, op, show, ops, faults, lost>>

Pids == 1..MaxPids
NoPid == 0

\* a tick reads the row, leaves when the owner is not active, else runs; a
\* number may belong to a stranger once its tick is gone
Live == {p \in Pids : proc[p] \in {"boot", "leave", "run"}}
processAlive(p) == p \in Pids /\ proc[p] # "free"

Idle == [pc |-> "idle", due |-> FALSE, pid |-> NoPid, aged |-> FALSE, beside |-> {}]

-------------------------------------------------------------------------------
Init ==
    /\ status = "active" /\ wake = "due" /\ pid = NoPid /\ aged = FALSE
    /\ proc = [p \in Pids |-> "free"]
    /\ op = [d \in Dispatchers |-> Idle]
    /\ show = NoPid
    /\ ops = 0 /\ faults = 0
    /\ lost = {}

Fault == faults < MaxFaults /\ faults' = faults + 1
Command == ops < MaxOps /\ ops' = ops + 1

-------------------------------------------------------------------------------
(* A dispatch: load the row, guard, launch, record *)

\* ticks launched by others whose dispatch is not over
Launched == {p \in Live : \E e \in Dispatchers : op[e].pc = "launched" /\ op[e].pid = p}
Loaded(due) == [pc |-> "loaded", due |-> due, pid |-> pid, aged |-> aged,
                beside |-> Launched]

LoadDue(d) ==
    /\ op[d].pc = "idle"
    /\ status = "active" /\ wake = "due"
    /\ IF d = Scheduler THEN UNCHANGED ops ELSE Command
    /\ op' = [op EXCEPT ![d] = Loaded(TRUE)]
    /\ UNCHANGED <<rowVars, proc, show, faults, lost>>

LoadManual(d) ==
    /\ d # Scheduler
    /\ op[d].pc = "idle"
    /\ status = "active"
    /\ Command
    /\ op' = [op EXCEPT ![d] = Loaded(FALSE)]
    /\ UNCHANGED <<rowVars, proc, show, faults, lost>>

NeverStale(d) == processAlive(op[d].pid)                 \* mutant: no hour
OnlyStale(d) == processAlive(op[d].pid) /\ op[d].aged    \* mutant: the hour inverted
Guarded(d) == processAlive(op[d].pid) /\ ~op[d].aged

Skip(d) ==
    /\ op[d].pc = "loaded"
    /\ Guarded(d)
    /\ op' = [op EXCEPT ![d] = Idle]
    /\ UNCHANGED <<rowVars, proc, show, ops, faults, lost>>

\* A new tick gets a number that is not in use and that nobody still holds to be
\* an earlier tick's; which one does not matter.
Held(d) == {pid, show} \cup {op[e].pid : e \in Dispatchers \ {d}}
Spare(d) == {p \in Pids \ Held(d) : proc[p] = "free"}
IsNextPid(d, p) == p \in Spare(d) /\ \A q \in Spare(d) : p <= q

Launch(d, p) ==
    /\ op[d].pc = "loaded"
    /\ ~Guarded(d)
    /\ IsNextPid(d, p)
    /\ proc' = [proc EXCEPT ![p] = "boot"]
    /\ op' = [e \in Dispatchers |->
                IF e = d THEN [Idle EXCEPT !.pc = "launched", !.due = op[d].due, !.pid = p]
                ELSE IF op[e].pc = "loaded" THEN [op[e] EXCEPT !.beside = @ \cup {p}]
                ELSE op[e]]
    /\ UNCHANGED <<rowVars, show, ops, faults, lost>>

LaunchFails(d) ==
    /\ op[d].pc = "loaded"
    /\ ~Guarded(d)
    /\ Fault
    /\ op' = [op EXCEPT ![d] = Idle]
    /\ UNCHANGED <<rowVars, proc, show, ops, lost>>

\* recordOwnerTickDispatched, or recordOwnerTickStarted for the operator's
Advanced(d) == IF op[d].due THEN "later" ELSE wake

Record(d) ==
    /\ op[d].pc = "launched"
    /\ pid' = op[d].pid
    /\ wake' = Advanced(d)
    /\ aged' = FALSE
    /\ lost' = lost \cup {p \in Live : p = pid}
    /\ op' = [op EXCEPT ![d] = Idle]
    /\ UNCHANGED <<status, proc, show, ops, faults>>

\* The write fails, or the dispatcher is killed before it; the child runs on.
RecordFails(d) ==
    /\ op[d].pc = "launched"
    /\ Fault
    /\ lost' = lost \cup (Live \cap {op[d].pid})
    /\ op' = [op EXCEPT ![d] = Idle]
    /\ UNCHANGED <<rowVars, proc, show, ops>>

-------------------------------------------------------------------------------
(* The child *)

Begin(p) ==
    /\ proc[p] = "boot"
    /\ proc' = [proc EXCEPT ![p] = IF status = "active" THEN "run" ELSE "leave"]
    /\ UNCHANGED <<rowVars, op, show, ops, faults, lost>>

PidCleared == pid' = NoPid /\ UNCHANGED aged    \* mutant: tick_started stays
Cleared == pid' = NoPid /\ aged' = FALSE

Gone(p) ==
    /\ proc' = [proc EXCEPT ![p] = "free"]
    /\ op' = [d \in Dispatchers |-> [op[d] EXCEPT !.beside = @ \ {p}]]

\* clearOwnerTickBookkeeping, or recordOwnerTick at the end of a run
End(p) ==
    /\ proc[p] \in {"leave", "run"}
    /\ Cleared
    /\ lost' = (lost \cup {q \in Live : q = pid}) \ {p}
    /\ Gone(p)
    /\ UNCHANGED <<status, wake, show, ops, faults>>

\* `owner next`, which the prompt tells a tick to end with
SelfPace(p) ==
    /\ proc[p] = "run"
    /\ wake' = "later"
    /\ UNCHANGED <<status, pid, aged, proc, op, show, ops, faults, lost>>

\* killed, or its last write failed: the pid stays in the row
Die(p) ==
    /\ p \in Live
    /\ Fault
    /\ Gone(p)
    /\ lost' = lost \ {p}
    /\ UNCHANGED <<rowVars, show, ops>>

\* A stranger takes the number the row still holds, and goes again.
Recycle(p) ==
    /\ proc[p] = "free" /\ p = pid
    /\ Fault
    /\ proc' = [proc EXCEPT ![p] = "other"]
    /\ UNCHANGED <<rowVars, op, show, ops, lost>>

StrangerGone(p) ==
    /\ proc[p] = "other"
    /\ proc' = [proc EXCEPT ![p] = "free"]
    /\ UNCHANGED <<rowVars, op, show, ops, faults, lost>>

-------------------------------------------------------------------------------
(* `flow owner show`, which calls reconcileOwnerTick *)

ShowLoad ==
    /\ show = NoPid /\ pid # NoPid
    /\ ~processAlive(pid) \/ aged
    /\ show' = pid
    /\ UNCHANGED <<rowVars, proc, op, ops, faults, lost>>

ShowWrite ==
    /\ show # NoPid
    /\ show' = NoPid
    /\ Cleared
    /\ lost' = lost \cup {p \in Live : p = pid /\ (p # show \/ aged)}
    /\ UNCHANGED <<status, wake, proc, op, ops, faults>>

-------------------------------------------------------------------------------
(* The operator and the clock *)

ownerStart ==
    /\ Command
    /\ status' = "active" /\ wake' = "due"
    /\ UNCHANGED <<pid, aged, proc, op, show, faults, lost>>

\* ownerPause and ownerRetire; either is ended by ownerStart
ownerPause ==
    /\ Command
    /\ status' = "paused"
    /\ UNCHANGED <<wake, pid, aged, proc, op, show, faults, lost>>

ownerNext ==
    /\ Command
    /\ wake' = "later"
    /\ UNCHANGED <<status, pid, aged, proc, op, show, faults, lost>>

WakePasses ==
    /\ wake # "due"
    /\ wake' = "due"
    /\ UNCHANGED <<status, pid, aged, proc, op, show, ops, faults, lost>>

\* An hour goes by since the start the row shows; only a live pid's age is read.
Age ==
    /\ processAlive(pid) /\ ~aged
    /\ aged' = TRUE
    /\ UNCHANGED <<status, wake, pid, proc, op, show, ops, faults, lost>>

-------------------------------------------------------------------------------
Dispatch(d) == LoadDue(d) \/ Skip(d) \/ (\E p \in Pids : Launch(d, p)) \/ Record(d)

Next ==
    \/ \E d \in Dispatchers : Dispatch(d) \/ LoadManual(d) \/ LaunchFails(d) \/ RecordFails(d)
    \/ \E p \in Pids : Begin(p) \/ End(p) \/ SelfPace(p) \/ Die(p) \/ Recycle(p) \/ StrangerGone(p)
    \/ ShowLoad \/ ShowWrite
    \/ ownerStart \/ ownerPause \/ ownerNext \/ WakePasses \/ Age

Spec == Init /\ [][Next]_vars

\* A process that has been started gets on, the scheduler's ticker fires every
\* minute, and an hour passes.  A tick that has begun may run for ever as long as
\* a number is left for the next one; a stranger may stay for ever.
Crowded == \E d \in Dispatchers : Spare(d) = {}

FairSpec ==
    /\ Spec
    /\ WF_vars(Dispatch(Scheduler))
    /\ \A d \in Dispatchers \ {Scheduler} : WF_vars(op[d].pc # "idle" /\ Dispatch(d))
    /\ WF_vars(\E p \in Pids : Begin(p) \/ (End(p) /\ (Crowded \/ proc[p] = "leave")))
    /\ WF_vars(ShowWrite)
    /\ WF_vars(Age)

-------------------------------------------------------------------------------
Ops == [pc : {"idle", "loaded", "launched"}, due : BOOLEAN, pid : Pids \cup {NoPid},
        aged : BOOLEAN, beside : SUBSET Pids]

TypeOK ==
    /\ status \in {"active", "paused"}
    /\ wake \in {"due", "later"}
    /\ pid \in Pids \cup {NoPid}
    /\ aged \in BOOLEAN /\ (aged => pid # NoPid)
    /\ proc \in [Pids -> {"free", "boot", "leave", "run", "other"}]
    /\ op \in [Dispatchers -> Ops]
    /\ show \in Pids \cup {NoPid}
    /\ ops \in 0..MaxOps /\ faults \in 0..MaxFaults
    /\ lost \subseteq Pids

\* A tick is launched beside one that still runs only when that one has outlived
\* its hour, was launched by a dispatch that overlapped this one, never got its pid
\* into the row, or had it wiped by somebody who had looked at another pid (a second
\* tick's end or record, or an `owner show` that had read the row before).
OneTickAtATime ==
    [][\A d \in Dispatchers, p \in Pids :
          op[d].pc = "loaded" /\ proc[p] = "free" /\ proc'[p] = "boot" /\ op'[d].pid = p
          => \A q \in Live \ (lost \cup op[d].beside) : q = op[d].pid /\ op[d].aged]_vars

\* An active owner whose wake has passed is dispatched, whatever pid its row
\* holds: one of a dead tick, of a hung one, or of a stranger's process.
DueOwnerTicked ==
    (status = "active" /\ wake = "due") ~> (status # "active" \/ wake # "due")
===============================================================================
