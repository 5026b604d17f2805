---------------------------- MODULE HeldWorkProofs -----------------------------
(***************************************************************************)
(* Proofs about the two queues that hold work back, for any set of actions *)
(* or callers and any bounds.  RateLimitQueue: an action held for a        *)
(* provider's reset is replayed once per fault, and in its turn.           *)
(* PausedSession: the two tables of a paused task are one FIFO.            *)
(***************************************************************************)
EXTENDS RateLimitQueue, SequenceTheorems, WellFoundedInduction, TLAPS

-----------------------------------------------------------------------------
(* The invariant of RateLimitQueue.                                         *)

\* One drain at a time is past the lock, and only past its listing has it rows in hand.
OneDrain ==
    /\ \A d \in Drains : dpc[d] # "idle" => locked
    /\ \A d, e \in Drains : dpc[d] # "idle" /\ dpc[e] # "idle" => d = e
    /\ \A d \in Drains : batch[d] # {} => dpc[d] \in {"item", "replay", "ack"}
    /\ \A d \in Drains : dpc[d] \in {"replay", "ack"} => batch[d] # {}

\* The rows of the table, their ids in the order of their inserts.
Rows == {a \in Actions : id[a] # 0}

IdsGrow ==
    /\ nextId # 0
    /\ \A a \in Actions : id[a] < nextId
    /\ \A a, b \in Rows : id[a] = id[b] => a = b
    /\ \A a \in Actions : status[a] # "none" => a \in Rows
    /\ \A a \in Actions : cpc[a] \in {"new", "held"} => a \notin Rows
    /\ \A d \in Drains : batch[d] \subseteq Rows

\* What was due when a drain listed, and is not in its hands, comes after what is.
ListedOlder ==
    \A d \in Drains : batch[d] # {} =>
        /\ listed[d] <= now
        /\ \A a \in Pending \ batch[d], b \in batch[d] :
             replayed[a] = 0 /\ runAfter[a] <= listed[d] => id[b] < id[a]

\* Only the row a drain is about to ack has been replayed once more than there
\* were faults; whatever can be replayed again has not.
InAck(a) == \E d \in Drains : dpc[d] = "ack" /\ a = First(d)
Replayable(a) == a \in Pending \/ \E d \in Drains : a \in batch[d]

ReplaysCounted ==
    /\ \A d \in Drains : dpc[d] = "ack" => replayed[First(d)] # 0
    /\ \A a \in Actions \ Rows : replayed[a] = 0
    /\ \A a \in Actions : replayed[a] <= 1 + faults
    /\ \A a \in Actions : Replayable(a) => replayed[a] <= faults \/ InAck(a)

HeldInv == TypeOK /\ OneDrain /\ IdsGrow /\ ListedOlder /\ ReplaysCounted

\* A function to the naturals has a least element on a set that is not empty.
LEMMA LeastExists ==
    ASSUME NEW S, NEW f, \A a \in S : f[a] \in Nat, S # {}
    PROVE  \E a \in S : \A b \in S : f[a] <= f[b]
<1> DEFINE T == {f[a] : a \in S}
<1>1. T \subseteq Nat /\ T # {}
  OBVIOUS
<1>2. PICK n \in T : \A k \in T : ~(<<k, n>> \in OpToRel(<, Nat))
  BY <1>1, NatLessThanWellFounded, WFMin
<1>3. \A k \in T : ~(k < n)
  BY <1>1, <1>2 DEF OpToRel
<1>4. PICK a \in S : n = f[a]
  OBVIOUS
<1>5. \A b \in S : f[a] <= f[b]
  <2> TAKE b \in S
  <2>1. f[b] \in T /\ f[a] \in Nat /\ f[b] \in Nat
    OBVIOUS
  <2> QED BY <1>3, <1>4, <2>1
<1> QED BY <1>5

LEMMA LeastChosen ==
    ASSUME NEW S, NEW f, \A a \in S : f[a] \in Nat, S # {},
           NEW c, c = CHOOSE a \in S : \A b \in S : f[a] <= f[b]
    PROVE  c \in S /\ \A b \in S : f[c] <= f[b]
  BY LeastExists

\* The row a drain has come to is the oldest in its hands, ...
LEMMA FirstLeast ==
    ASSUME TypeOK, NEW d \in Drains, batch[d] # {}
    PROVE  First(d) \in batch[d] /\ \A b \in batch[d] : id[First(d)] <= id[b]
<1>1. \A a \in batch[d] : id[a] \in Nat
  BY DEF TypeOK
<1> QED BY <1>1, LeastChosen DEF First

\* ... and stays the same row while its hands and the ids of what is in them do.
LEMMA FirstSame ==
    ASSUME TypeOK, IdsGrow, TypeOK', NEW d \in Drains, batch[d] # {},
           batch'[d] = batch[d], \A a \in batch[d] : id'[a] = id[a]
    PROVE  First(d)' = First(d)
<1>1. First(d) \in batch[d] /\ \A b \in batch[d] : id[First(d)] <= id[b]
  BY FirstLeast
<1>2. \A a \in batch'[d] : id'[a] \in Nat
  BY DEF TypeOK
<1>3. First(d)' \in batch'[d] /\ \A b \in batch'[d] : id'[First(d)'] <= id'[b]
  BY <1>2, LeastChosen DEF First
<1>4. batch[d] \subseteq Actions /\ batch[d] \subseteq Rows /\ id \in [Actions -> Nat]
  BY DEF IdsGrow, TypeOK
<1>5. id[First(d)'] = id[First(d)]
  BY <1>1, <1>3, <1>4
<1> QED BY <1>1, <1>3, <1>4, <1>5 DEF IdsGrow

-----------------------------------------------------------------------------
(* Types.                                                                   *)

LEMMA HeldInitTyped ==
    ASSUME Init
    PROVE  TypeOK
<1>1. 0 \in Times /\ 0..MaxHold \subseteq Times
  BY RateLimitQueueAssumption DEF Times, MaxTime
<1>2. now \in Times /\ hold \in Times /\ timerAt \in Times
  BY <1>1 DEF Init
<1>3. /\ runAfter \in [Actions -> Times] /\ cuntil \in [Actions -> Times]
      /\ listed \in [Drains -> Times]
  BY <1>1 DEF Init
<1> QED BY <1>2, <1>3 DEF Init, TypeOK

\* Whatever the timer is asked for is a time, or it is left alone.
LEMMA ScheduleTyped ==
    ASSUME TypeOK, NEW at \in Times, Schedule(at)
    PROVE  /\ timer' \in {"nil", "armed", "fired"} /\ timerAt' \in Times
           /\ orphans' \subseteq Times /\ unread' \in BOOLEAN
  BY DEF TypeOK, Schedule, timerVars

LEMMA LeaveTyped ==
    ASSUME TypeOK, NEW d \in Drains, Leave(d)
    PROVE  /\ dpc' \in [Drains -> {"idle", "clear", "hold", "item", "replay", "ack"}]
           /\ batch' \in [Drains -> SUBSET Actions]
           /\ listed' \in [Drains -> Times]
           /\ locked' \in BOOLEAN
<1>1. 0 \in Times
  BY RateLimitQueueAssumption DEF Times, MaxTime
<1> QED BY <1>1 DEF TypeOK, Leave, Goto

LEMMA HeldStepTyped ==
    ASSUME TypeOK, [Next]_vars
    PROVE  TypeOK'
<1> USE DEF TypeOK, tableVars, timerVars, connectorVars, drainVars, historyVars
<1>t. /\ 0 \in Times /\ Times \subseteq Nat
      /\ \A t \in Times : t < MaxTime => t + 1 \in Times
      /\ 0..MaxHold \subseteq Times
  BY RateLimitQueueAssumption DEF Times, MaxTime
<1>1. ASSUME NEW d \in Drains, Fire(d) \/ Recheck(d) PROVE TypeOK'
  <2>1. /\ dpc' \in [Drains -> {"idle", "clear", "hold", "item", "replay", "ack"}]
        /\ locked' = TRUE
    BY <1>1 DEF Fire, Recheck, TryLock
  <2>2. /\ timer' \in {"nil", "armed", "fired"} /\ orphans' \subseteq Times
        /\ timerAt' = timerAt /\ unread' = unread
    BY <1>1 DEF Fire, Recheck
  <2> QED BY <1>1, <2>1, <2>2 DEF Fire, Recheck
<1>2. ASSUME NEW d \in Drains, DrainStep(d) PROVE TypeOK'
  <2>1. CASE ClearTimer(d) BY <2>1, <1>t DEF ClearTimer, Goto
  <2>2. CASE StillHeld(d) BY <2>2, <1>t, ScheduleTyped, LeaveTyped DEF StillHeld
  <2>3. CASE ListReady(d) BY <2>3 DEF ListReady, Goto, Pending
  <2>4. CASE HeldAgain(d)
    <3>1. faults' \in Nat
      BY <2>4 DEF HeldAgain, Fault
    <3>2. status' \in [Actions -> {"none", "pending", "done"}] /\ runAfter' \in [Actions -> Times]
      BY <2>4 DEF HeldAgain, Reschedule
    <3>3. UNCHANGED <<id, nextId>>
      BY <2>4 DEF HeldAgain, Reschedule
    <3> QED BY <2>4, <1>t, <3>1, <3>2, <3>3, ScheduleTyped, LeaveTyped DEF HeldAgain
  <2>5. CASE StartReplay(d) BY <2>5 DEF StartReplay, Goto
  <2>6. CASE ReplaySucceeds(d)
    <3>1. \A a \in Actions : replayed[a] + 1 \in Nat
      OBVIOUS
    <3>2. replayed' \in [Actions -> Nat]
      BY <2>6, <3>1 DEF ReplaySucceeds
    <3> QED BY <2>6, <3>2 DEF ReplaySucceeds, Goto
  <2>7. CASE ReplayFails(d)
    <3>1. now + 1 \in Times /\ faults + 1 \in Nat
      BY <1>t, <2>7 DEF ReplayFails
    <3> QED BY <2>7, <3>1 DEF ReplayFails, Fault, Reschedule, HandledFirst, Goto
  <2>8. CASE Ack(d)
    <3>1. faults' \in Nat /\ status' \in [Actions -> {"none", "pending", "done"}]
      BY <2>8 DEF Ack, Fault
    <3> QED BY <2>8, <3>1 DEF Ack, HandledFirst, Goto
  <2>9. CASE EndDrain(d)
    <3>1. /\ timer' \in {"nil", "armed", "fired"} /\ timerAt' \in Times
          /\ orphans' \subseteq Times /\ unread' \in BOOLEAN
      BY <2>9, ScheduleTyped DEF EndDrain, ScheduleNext, NextDue, Pending
    <3>2. faults' \in Nat
      BY <2>9 DEF EndDrain, ScheduleNext, Fault
    <3> QED BY <2>9, <3>1, <3>2, LeaveTyped DEF EndDrain
  <2>10. CASE ListFails(d)
    <3>1. faults' \in Nat /\ now + 1 \in Times
      BY <2>10, <1>t DEF ListFails, Fault
    <3> QED BY <2>10, <3>1, ScheduleTyped, LeaveTyped DEF ListFails
  <2> QED
    BY <1>2, <2>1, <2>2, <2>3, <2>4, <2>5, <2>6, <2>7, <2>8, <2>9, <2>10 DEF DrainStep
<1>3. ASSUME NEW a \in Actions, Arrive(a) \/ EnqueueAction(a) \/ ArmDrain(a) \/ Dismiss(a)
      PROVE  TypeOK'
  <2>1. CASE Arrive(a)
    <3>1. cuntil' \in [Actions -> Times]
      BY <2>1, <1>t DEF Arrive
    <3> QED BY <2>1, <3>1 DEF Arrive
  <2>2. CASE EnqueueAction(a) BY <2>2 DEF EnqueueAction
  <2>3. CASE ArmDrain(a) BY <2>3, <1>t, ScheduleTyped DEF ArmDrain
  <2>4. CASE Dismiss(a) BY <2>4 DEF Dismiss
  <2> QED BY <1>3, <2>1, <2>2, <2>3, <2>4
<1>4. CASE Backfill BY <1>4, ScheduleTyped DEF Backfill
<1>5. CASE Limit
  <2>1. hold' \in Times
    BY <1>t, <1>5, RateLimitQueueAssumption DEF Limit, Times, MaxTime
  <2> QED BY <1>5, <2>1 DEF Limit
<1>6. CASE Tick
  <2>1. now' \in Times
    BY <1>t, <1>6 DEF Tick
  <2>2. hold' = hold \/ hold' = 0
    BY <1>6 DEF Tick
  <2>3. hold' \in Times
    BY <1>t, <2>2
  <2> QED BY <1>6, <2>1, <2>3 DEF Tick
<1>7. CASE Restart
  <2>1. cpc' \in [Actions -> {"new", "held", "row", "queued", "passed", "failed"}]
    BY <1>7 DEF Restart
  <2>2. timer' \in {"nil", "armed", "fired"} /\ timerAt' \in Times /\ unread' \in BOOLEAN
    BY <1>7, <1>t DEF Restart, NextDue, Pending
  <2>3. /\ listed' \in [Drains -> Times] /\ cuntil' \in [Actions -> Times]
        /\ orphans' \subseteq Times /\ faults' \in Nat
    BY <1>7, <1>t DEF Restart, Fault
  <2>4. /\ dpc' \in [Drains -> {"idle", "clear", "hold", "item", "replay", "ack"}]
        /\ batch' \in [Drains -> SUBSET Actions] /\ locked' \in BOOLEAN
    BY <1>7 DEF Restart
  <2> QED BY <1>7, <2>1, <2>2, <2>3, <2>4 DEF Restart
<1>8. CASE UNCHANGED vars BY <1>8 DEF vars
<1> QED BY <1>1, <1>2, <1>3, <1>4, <1>5, <1>6, <1>7, <1>8 DEF Next

-----------------------------------------------------------------------------
(* One drain at a time, and ids in the order of the inserts.                *)

\* Nobody but its drain moves a drain on, and the lock lets one past.
LEMMA OneDrainStep ==
    ASSUME TypeOK, OneDrain, [Next]_vars
    PROVE  OneDrain'
<1> DEFINE Quiet == UNCHANGED <<locked, dpc, batch>>
<1>t. dpc \in [Drains -> {"idle", "clear", "hold", "item", "replay", "ack"}]
      /\ batch \in [Drains -> SUBSET Actions]
  BY DEF TypeOK
<1>1. ASSUME NEW d \in Drains, Fire(d) \/ Recheck(d) PROVE OneDrain'
  BY <1>1, <1>t DEF Fire, Recheck, TryLock, Spare, OneDrain
<1>2. ASSUME NEW d \in Drains, DrainStep(d) PROVE OneDrain'
  <2>1. /\ dpc[d] # "idle"
        /\ \A e \in Drains : e # d => dpc[e] = "idle" /\ batch[e] = {}
    BY <1>2, <1>t DEF OneDrain, DrainStep, ClearTimer, StillHeld, ListReady, ListFails, HeldAgain,
                      StartReplay, ReplaySucceeds, ReplayFails, Ack, EndDrain
  <2>2. \A e \in Drains : e # d => dpc'[e] = dpc[e] /\ batch'[e] = batch[e]
    BY <1>2, <1>t DEF DrainStep, ClearTimer, StillHeld, ListReady, ListFails, HeldAgain,
                      StartReplay, ReplaySucceeds, ReplayFails, Ack, EndDrain,
                      Goto, Leave, HandledFirst
  <2>3. CASE StillHeld(d) \/ ListFails(d) \/ HeldAgain(d) \/ EndDrain(d)
    <3>1. dpc'[d] = "idle" /\ batch'[d] = {}
      BY <1>t, <2>3 DEF StillHeld, ListFails, HeldAgain, EndDrain, Leave, Goto
    <3> QED BY <2>1, <2>2, <3>1 DEF OneDrain
  <2>4. CASE ~(StillHeld(d) \/ ListFails(d) \/ HeldAgain(d) \/ EndDrain(d))
    <3>1. locked' = locked /\ dpc'[d] # "idle"
      BY <1>2, <1>t, <2>4 DEF DrainStep, ClearTimer, ListReady, StartReplay,
                              ReplaySucceeds, ReplayFails, Ack, Goto
    <3>2. /\ batch'[d] # {} => dpc'[d] \in {"item", "replay", "ack"}
          /\ dpc'[d] \in {"replay", "ack"} => batch'[d] # {}
      BY <1>2, <1>t, <2>4 DEF OneDrain, DrainStep, ClearTimer, ListReady, StartReplay,
                              ReplaySucceeds, ReplayFails, Ack, Goto
    <3> QED BY <2>1, <2>2, <3>1, <3>2 DEF OneDrain
  <2> QED BY <2>3, <2>4
<1>3. ASSUME NEW a \in Actions, Arrive(a) \/ EnqueueAction(a) \/ ArmDrain(a) \/ Dismiss(a)
      PROVE  Quiet
  BY <1>3 DEF Arrive, EnqueueAction, ArmDrain, Dismiss, drainVars
<1>4. ASSUME Backfill \/ Limit \/ Tick \/ UNCHANGED vars PROVE Quiet
  BY <1>4 DEF Backfill, Limit, Tick, vars, drainVars
<1>5. CASE Restart BY <1>5 DEF Restart, OneDrain
<1>6. Quiet => OneDrain'
  BY DEF OneDrain
<1> QED BY <1>1, <1>2, <1>3, <1>4, <1>5, <1>6 DEF Next

\* What a step of a drain does to the rows: their ids stay, and it writes none but
\* the one it has come to.
LEMMA DrainRows ==
    ASSUME TypeOK, OneDrain, IdsGrow, NEW d \in Drains, DrainStep(d)
    PROVE  /\ UNCHANGED <<id, nextId, cpc>> /\ Rows' = Rows
           /\ \A a \in Actions : status'[a] # "none" => status[a] # "none" \/ a \in batch[d]
           /\ \A e \in Drains : batch'[e] \subseteq batch[e] \cup Pending
<1>1. UNCHANGED <<id, nextId, cpc>>
  BY DEF DrainStep, ClearTimer, StillHeld, ListReady, ListFails, HeldAgain, StartReplay,
         ReplaySucceeds, ReplayFails, Ack, EndDrain, Reschedule, tableVars, connectorVars
<1>2. \A a \in Actions : status'[a] # "none" => status[a] # "none" \/ a \in batch[d]
  <2>1. CASE HeldAgain(d) \/ ReplayFails(d) \/ Ack(d)
    <3>1. First(d) \in batch[d]
      BY <2>1, FirstLeast DEF OneDrain, HeldAgain, ReplayFails, Ack
    <3>2. \A a \in Actions : status'[a] = status[a] \/ a = First(d)
      BY <2>1 DEF HeldAgain, ReplayFails, Ack, Reschedule, TypeOK, tableVars
    <3> QED BY <3>1, <3>2
  <2>2. CASE ~(HeldAgain(d) \/ ReplayFails(d) \/ Ack(d))
    <3>1. status' = status
      BY <2>2 DEF DrainStep, ClearTimer, StillHeld, ListReady, ListFails, StartReplay,
                  ReplaySucceeds, EndDrain, tableVars
    <3> QED BY <3>1
  <2> QED BY <2>1, <2>2
<1>3. \A e \in Drains : batch'[e] \subseteq batch[e] \cup Pending
  BY DEF TypeOK, DrainStep, ClearTimer, StillHeld, ListReady, ListFails, HeldAgain, StartReplay,
         ReplaySucceeds, ReplayFails, Ack, EndDrain, Leave, HandledFirst
<1> QED BY <1>1, <1>2, <1>3 DEF Rows

LEMMA IdsGrowStep ==
    ASSUME TypeOK, OneDrain, IdsGrow, [Next]_vars
    PROVE  IdsGrow' /\ Rows \subseteq Rows' /\ \A a \in Rows : id'[a] = id[a]
<1> DEFINE Goal == IdsGrow' /\ Rows \subseteq Rows' /\ \A a \in Rows : id'[a] = id[a]
<1> DEFINE Quiet == UNCHANGED <<id, nextId, status, cpc, batch>>
<1>t. /\ id \in [Actions -> Nat] /\ nextId \in Nat
      /\ status \in [Actions -> {"none", "pending", "done"}]
      /\ cpc \in [Actions -> {"new", "held", "row", "queued", "passed", "failed"}]
  BY DEF TypeOK
<1>1. ASSUME NEW d \in Drains, Fire(d) \/ Recheck(d) PROVE Quiet
  BY <1>1 DEF Fire, Recheck, TryLock, tableVars, connectorVars
<1>2. ASSUME NEW d \in Drains, DrainStep(d) PROVE Goal
  <2>1. /\ UNCHANGED <<id, nextId, cpc>> /\ Rows' = Rows
        /\ \A a \in Actions : status'[a] # "none" => status[a] # "none" \/ a \in batch[d]
        /\ \A e \in Drains : batch'[e] \subseteq batch[e] \cup Pending
    BY <1>2, DrainRows
  <2>2. Pending \subseteq Rows
    BY DEF IdsGrow, Pending
  <2> QED BY <2>1, <2>2 DEF IdsGrow
<1>3. ASSUME NEW a \in Actions, EnqueueAction(a) PROVE Goal
  <2>1. /\ a \notin Rows /\ cpc'[a] = "row" /\ \A b \in Actions : b # a => cpc'[b] = cpc[b]
        /\ id'[a] = nextId /\ nextId' = nextId + 1 /\ nextId # 0
        /\ \A b \in Actions : b # a => id'[b] = id[b] /\ status'[b] = status[b]
        /\ batch' = batch
    BY <1>3, <1>t DEF EnqueueAction, IdsGrow, drainVars
  <2>2. Rows' = Rows \cup {a}
    BY <2>1 DEF Rows
  <2>3. \A b \in Actions : id'[b] < nextId'
    BY <2>1, <1>t DEF IdsGrow
  <2>4. \A b, c \in Rows' : id'[b] = id'[c] => b = c
    BY <2>1, <2>2, <1>t DEF IdsGrow, Rows
  <2>5. nextId' # 0
    BY <2>1, <1>t
  <2> QED BY <2>1, <2>2, <2>3, <2>4, <2>5 DEF IdsGrow, Rows
<1>4. ASSUME NEW a \in Actions, Arrive(a) \/ ArmDrain(a) \/ Dismiss(a) PROVE Goal
  <2>1. /\ UNCHANGED <<id, nextId, batch>>
        /\ \A b \in Actions : cpc'[b] \in {"new", "held"} => cpc[b] \in {"new", "held"}
        /\ \A b \in Actions : status'[b] # "none" => status[b] # "none"
    BY <1>4, <1>t DEF Arrive, ArmDrain, Dismiss, tableVars, connectorVars, drainVars
  <2> QED BY <2>1 DEF IdsGrow, Rows
<1>5. ASSUME Backfill \/ Limit \/ Tick \/ UNCHANGED vars PROVE Quiet
  BY <1>5 DEF Backfill, Limit, Tick, vars, tableVars, connectorVars, drainVars
<1>6. CASE Restart
  <2>1. /\ UNCHANGED <<id, nextId, status>>
        /\ \A b \in Actions : cpc'[b] \in {"new", "held"} => cpc[b] \in {"new", "held"}
        /\ \A d \in Drains : batch'[d] = {}
    BY <1>6, <1>t DEF Restart, tableVars
  <2> QED BY <2>1 DEF IdsGrow, Rows
<1>7. Quiet => Goal
  BY DEF IdsGrow, Rows
<1> QED BY <1>1, <1>2, <1>3, <1>4, <1>5, <1>6, <1>7 DEF Next

-----------------------------------------------------------------------------
(* Replays in order.                                                        *)

\* When a step leaves the drains alone and nobody comes to wait who was not waiting
\* and is not new, what was listed is still the older work.
LEMMA OlderKept ==
    ASSUME TypeOK, IdsGrow, ListedOlder, IdsGrow', UNCHANGED <<batch, listed, replayed>>,
           now' >= now, now' \in Nat, TypeOK',
           \A a \in Rows : id'[a] = id[a],
           \A a \in Pending' : \/ a \in Pending /\ runAfter'[a] = runAfter[a]
                               \/ a \notin Rows /\ \A b \in Rows : id[b] < id'[a]
    PROVE  ListedOlder'
<1> SUFFICES ASSUME NEW d \in Drains, batch[d] # {}
             PROVE  /\ listed[d] <= now'
                    /\ \A a \in Pending' \ batch[d], b \in batch[d] :
                         replayed[a] = 0 /\ runAfter'[a] <= listed[d] => id'[b] < id'[a]
  BY DEF ListedOlder
<1>1. listed[d] \in Nat /\ now \in Nat /\ batch[d] \subseteq Rows
  BY DEF TypeOK, Times, IdsGrow
<1>2. listed[d] <= now'
  BY <1>1 DEF ListedOlder
<1>3. ASSUME NEW a \in Pending' \ batch[d], NEW b \in batch[d],
             replayed[a] = 0, runAfter'[a] <= listed[d]
      PROVE  id'[b] < id'[a]
  <2>1. b \in Rows /\ id'[b] = id[b]
    BY <1>1
  <2>2. CASE a \in Pending /\ runAfter'[a] = runAfter[a]
    <3>1. id[b] < id[a] /\ a \in Rows
      BY <1>3, <2>2 DEF ListedOlder, IdsGrow, Pending
    <3> QED BY <2>1, <3>1
  <2>3. CASE \A c \in Rows : id[c] < id'[a]
    BY <2>1, <2>3
  <2> QED BY <2>2, <2>3
<1> QED BY <1>2, <1>3

\* A drain that has handled the row it had come to still holds the older work.
LEMMA OlderHandled ==
    ASSUME TypeOK, TypeOK', OneDrain, IdsGrow, ListedOlder, NEW d \in Drains, batch[d] # {},
           HandledFirst(d), UNCHANGED <<id, listed, replayed, now>>,
           \A a \in Pending' : (a \in Pending /\ runAfter'[a] = runAfter[a]) \/ a = First(d),
           First(d) \in Pending' /\ replayed[First(d)] = 0 => runAfter'[First(d)] > now
    PROVE  ListedOlder'
<1>1. /\ batch \in [Drains -> SUBSET Actions] /\ now \in Nat /\ listed \in [Drains -> Nat]
      /\ dpc[d] # "idle"
  BY DEF TypeOK, Times, OneDrain
<1>2. /\ batch'[d] = batch[d] \ {First(d)}
      /\ \A e \in Drains : e # d => batch'[e] = {}
  BY <1>1 DEF HandledFirst, OneDrain
<1>3. listed[d] <= now
  BY DEF ListedOlder
<1>4. ASSUME NEW a \in Pending' \ batch'[d], NEW b \in batch'[d],
             replayed[a] = 0, runAfter'[a] <= listed[d]
      PROVE  id[b] < id[a]
  <2>1. runAfter'[a] \in Nat /\ listed[d] \in Nat
    BY <1>1 DEF Pending, TypeOK, Times
  <2>2. a # First(d)
    BY <1>1, <1>3, <1>4, <2>1
  <2>3. a \in Pending /\ runAfter'[a] = runAfter[a] /\ a \notin batch[d] /\ b \in batch[d]
    BY <1>2, <2>2
  <2> QED BY <1>4, <2>3 DEF ListedOlder
<1> QED BY <1>2, <1>3, <1>4 DEF ListedOlder

LEMMA ListedOlderStep ==
    ASSUME TypeOK, TypeOK', OneDrain, OneDrain', IdsGrow, IdsGrow', ListedOlder, ReplaysCounted,
           [Next]_vars
    PROVE  ListedOlder'
<1> DEFINE Quiet == UNCHANGED <<id, status, runAfter, batch, listed, replayed, now>>
<1>t. /\ batch \in [Drains -> SUBSET Actions] /\ now \in Nat /\ listed \in [Drains -> Times]
      /\ status \in [Actions -> {"none", "pending", "done"}]
      /\ runAfter \in [Actions -> Times] /\ Times \subseteq Nat
  BY DEF TypeOK, Times
<1>r. \A a \in Rows : id'[a] = id[a]
  BY IdsGrowStep
<1>s. ASSUME UNCHANGED <<runAfter, batch, listed, replayed>>, now' >= now, Pending' \subseteq Pending
      PROVE  ListedOlder'
  <2>1. UNCHANGED <<batch, listed, replayed>> /\ now' \in Nat
    BY <1>s DEF TypeOK, Times
  <2>2. \A a \in Pending' : a \in Pending /\ runAfter'[a] = runAfter[a]
    BY <1>s
  <2>3. now' >= now
    BY <1>s
  <2> QED BY <1>r, <2>1, <2>2, <2>3, OlderKept
<1>q. ASSUME Quiet PROVE ListedOlder'
  <2>1. Pending' = Pending
    BY <1>q DEF Pending
  <2>2. now' >= now
    BY <1>q, <1>t
  <2> QED BY <1>q, <1>s, <2>1, <2>2
<1>1. ASSUME NEW d \in Drains, Fire(d) \/ Recheck(d) PROVE Quiet
  BY <1>1 DEF Fire, Recheck, tableVars, historyVars
<1>2. ASSUME NEW d \in Drains, DrainStep(d) PROVE ListedOlder'
  <2>1. CASE ClearTimer(d) \/ StartReplay(d)
    <3>1. Quiet
      BY <2>1 DEF ClearTimer, StartReplay, tableVars, historyVars
    <3> QED BY <3>1, <1>q
  <2>2. CASE StillHeld(d) \/ ListFails(d) \/ HeldAgain(d) \/ EndDrain(d)
    <3>1. \A e \in Drains : dpc'[e] = "idle"
      <4>1. dpc[d] # "idle" /\ dpc' = [dpc EXCEPT ![d] = "idle"]
        BY <2>2 DEF StillHeld, ListFails, HeldAgain, EndDrain, Leave, Goto
      <4> QED BY <4>1 DEF OneDrain, TypeOK
    <3> QED BY <3>1 DEF ListedOlder, OneDrain
  <2>3. CASE ListReady(d)
    <3>1. /\ batch'[d] = {a \in Pending : runAfter[a] <= now} /\ listed'[d] = now
          /\ UNCHANGED <<id, status, runAfter, now, replayed>>
      BY <1>t, <2>3 DEF ListReady, tableVars, historyVars
    <3>2. dpc'[d] = "item"
      BY <2>3 DEF ListReady, Goto, TypeOK
    <3>3. \A e \in Drains : e # d => batch'[e] = {}
      BY <3>2 DEF OneDrain
    <3> QED BY <1>t, <3>1, <3>3 DEF ListedOlder, Pending
  <2>4. CASE ReplaySucceeds(d)
    <3>1. /\ UNCHANGED <<id, status, runAfter, batch, listed, now>>
          /\ \A a \in Actions : replayed'[a] = 0 => replayed[a] = 0
      BY <2>4 DEF ReplaySucceeds, tableVars, TypeOK
    <3> QED BY <3>1 DEF ListedOlder, Pending
  <2>5. CASE ReplayFails(d)
    <3>1. /\ HandledFirst(d) /\ UNCHANGED <<id, listed, replayed, now>>
          /\ batch[d] # {}
          /\ status' = [status EXCEPT ![First(d)] = "pending"]
          /\ runAfter' = [runAfter EXCEPT ![First(d)] = now + 1]
      BY <2>5 DEF ReplayFails, Reschedule, OneDrain
    <3>2. First(d) \in Actions
      BY <1>t, <3>1, FirstLeast
    <3>3. runAfter'[First(d)] > now
      BY <1>t, <3>1, <3>2
    <3>4. \A a \in Pending' : (a \in Pending /\ runAfter'[a] = runAfter[a]) \/ a = First(d)
      BY <1>t, <3>1 DEF Pending
    <3> QED BY <3>1, <3>3, <3>4, OlderHandled
  <2>6. CASE Ack(d)
    <3>1. /\ HandledFirst(d) /\ UNCHANGED <<id, runAfter, listed, replayed, now>>
          /\ batch[d] # {} /\ replayed[First(d)] # 0
      BY <2>6 DEF Ack, OneDrain, ReplaysCounted
    <3>2. \A a \in Pending' : a \in Pending
      BY <1>t, <2>6 DEF Ack, Pending
    <3> QED BY <3>1, <3>2, OlderHandled
  <2> QED BY <1>2, <2>1, <2>2, <2>3, <2>4, <2>5, <2>6 DEF DrainStep
<1>3. ASSUME NEW a \in Actions, EnqueueAction(a) PROVE ListedOlder'
  <2>1. /\ UNCHANGED <<batch, listed, replayed, now>> /\ id'[a] = nextId
        /\ \A b \in Pending' : (b \in Pending /\ runAfter'[b] = runAfter[b]) \/ b = a
    BY <1>3, <1>t DEF EnqueueAction, drainVars, historyVars, Pending, TypeOK
  <2>2. a \notin Rows /\ \A b \in Rows : id[b] < id'[a]
    BY <1>3, <2>1 DEF EnqueueAction, IdsGrow, Rows
  <2>3. \A b \in Pending' : \/ b \in Pending /\ runAfter'[b] = runAfter[b]
                            \/ b \notin Rows /\ \A c \in Rows : id[c] < id'[b]
    BY <2>1, <2>2
  <2>4. now' >= now /\ now' \in Nat
    BY <1>t, <2>1
  <2> QED BY <1>r, <2>1, <2>3, <2>4, OlderKept
<1>4. ASSUME NEW a \in Actions, Dismiss(a) PROVE ListedOlder'
  <2>1. /\ UNCHANGED <<runAfter, batch, listed, replayed, now>> /\ Pending' \subseteq Pending
    BY <1>4, <1>t DEF Dismiss, drainVars, Pending
  <2>2. now' >= now
    BY <1>t, <2>1
  <2> QED BY <1>s, <2>1, <2>2
<1>5. ASSUME NEW a \in Actions, Arrive(a) \/ ArmDrain(a) PROVE Quiet
  BY <1>5 DEF Arrive, ArmDrain, tableVars, drainVars, historyVars
<1>6. ASSUME Backfill \/ Limit \/ UNCHANGED vars PROVE Quiet
  BY <1>6 DEF Backfill, Limit, vars, tableVars, drainVars, historyVars
<1>7. CASE Tick
  <2>1. UNCHANGED <<id, status, runAfter, batch, listed, replayed>> /\ now' = now + 1
    BY <1>7 DEF Tick, tableVars, drainVars, historyVars
  <2>2. Pending' = Pending /\ now' >= now
    BY <1>t, <2>1 DEF Pending
  <2> QED BY <1>s, <2>1, <2>2
<1>8. CASE Restart
  <2>1. \A d \in Drains : batch'[d] = {}
    BY <1>8 DEF Restart
  <2> QED BY <2>1 DEF ListedOlder
<1> QED BY <1>q, <1>1, <1>2, <1>3, <1>4, <1>5, <1>6, <1>7, <1>8 DEF Next

-----------------------------------------------------------------------------
(* Replays counted against faults.                                          *)

\* A step that replays nothing, lets no drain into or out of its ack and lets nobody
\* wait who was neither waiting, in a drain's hands, nor new.
LEMMA CountKept ==
    ASSUME TypeOK, TypeOK', OneDrain, IdsGrow, IdsGrow', ReplaysCounted,
           UNCHANGED <<replayed, faults>>, Rows \subseteq Rows', \A a \in Rows : id'[a] = id[a],
           \A d \in Drains : dpc'[d] = "ack" <=> dpc[d] = "ack",
           \A d \in Drains : dpc[d] = "ack" => batch'[d] = batch[d],
           \A a \in Actions : Replayable(a)' => Replayable(a) \/ a \notin Rows
    PROVE  ReplaysCounted'
<1>1. \A d \in Drains : dpc[d] = "ack" => First(d)' = First(d)
  <2> TAKE d \in Drains
  <2> HAVE dpc[d] = "ack"
  <2>1. batch[d] # {} /\ batch'[d] = batch[d]
    BY DEF OneDrain
  <2>2. \A a \in batch[d] : id'[a] = id[a]
    BY DEF IdsGrow
  <2> QED BY <2>1, <2>2, FirstSame
<1>2. \A a \in Actions : InAck(a)' <=> InAck(a)
  BY <1>1 DEF InAck
<1>3. \A a \in Actions \ Rows : replayed[a] <= faults
  BY DEF ReplaysCounted, TypeOK
<1>4. \A a \in Actions : Replayable(a)' => replayed'[a] <= faults' \/ InAck(a)'
  BY <1>2, <1>3 DEF ReplaysCounted
<1>5. \A d \in Drains : dpc'[d] = "ack" => replayed'[First(d)'] # 0
  BY <1>1 DEF ReplaysCounted
<1>6. \A a \in Actions \ Rows' : replayed'[a] = 0
  BY DEF ReplaysCounted
<1>7. \A a \in Actions : replayed'[a] <= 1 + faults'
  BY DEF ReplaysCounted
<1> QED BY <1>4, <1>5, <1>6, <1>7 DEF ReplaysCounted

\* A fault pays for the one replay that was not yet acked.
LEMMA CountPaid ==
    ASSUME TypeOK, ReplaysCounted, UNCHANGED <<replayed>>, faults' = faults + 1,
           Rows' = Rows, \A d \in Drains : dpc'[d] # "ack"
    PROVE  ReplaysCounted'
<1>1. \A a \in Actions : replayed[a] \in Nat /\ replayed[a] <= 1 + faults
  BY DEF TypeOK, ReplaysCounted
<1>2. faults \in Nat
  BY DEF TypeOK
<1>3. \A a \in Actions : replayed'[a] <= faults' /\ replayed'[a] <= 1 + faults'
  BY <1>1, <1>2
<1> QED BY <1>3 DEF ReplaysCounted

LEMMA ReplaysCountedStep ==
    ASSUME TypeOK, TypeOK', OneDrain, OneDrain', IdsGrow, IdsGrow', ReplaysCounted, [Next]_vars
    PROVE  ReplaysCounted'
<1> DEFINE Quiet == UNCHANGED <<status, dpc, batch, replayed, faults>>
<1>t. /\ batch \in [Drains -> SUBSET Actions]
      /\ status \in [Actions -> {"none", "pending", "done"}]
      /\ dpc \in [Drains -> {"idle", "clear", "hold", "item", "replay", "ack"}]
      /\ replayed \in [Actions -> Nat] /\ faults \in Nat
  BY DEF TypeOK
<1>r. Rows \subseteq Rows' /\ \A a \in Rows : id'[a] = id[a]
  BY IdsGrowStep
<1>q. ASSUME Quiet PROVE ReplaysCounted'
  <2>1. \A a \in Actions : Replayable(a)' => Replayable(a)
    BY <1>q DEF Replayable, Pending
  <2> QED BY <1>q, <1>r, <2>1, CountKept
<1>1. ASSUME NEW d \in Drains, Fire(d) \/ Recheck(d) PROVE ReplaysCounted'
  <2>1. /\ UNCHANGED <<status, batch, replayed, faults>>
        /\ \A e \in Drains : dpc'[e] = "ack" <=> dpc[e] = "ack"
    BY <1>1, <1>t DEF Fire, Recheck, TryLock, Spare, tableVars, historyVars
  <2>2. \A a \in Actions : Replayable(a)' => Replayable(a)
    BY <2>1 DEF Replayable, Pending
  <2> QED BY <1>r, <2>1, <2>2, CountKept
<1>2. ASSUME NEW d \in Drains, DrainStep(d) PROVE ReplaysCounted'
  <2>0. Rows' = Rows
    BY <1>2, DrainRows
  <2>1. CASE /\ ClearTimer(d) \/ StillHeld(d) \/ ListReady(d) \/ StartReplay(d) \/ EndDrain(d)
             /\ faults' = faults
    <3>1. /\ UNCHANGED <<status, replayed, faults>>
          /\ dpc[d] # "ack" /\ \E l \in {"hold", "idle", "item", "replay"} : dpc' = [dpc EXCEPT ![d] = l]
          /\ \A e \in Drains : e # d => batch'[e] = batch[e]
          /\ batch'[d] \subseteq batch[d] \cup Pending
      BY <2>1, <1>t DEF ClearTimer, StillHeld, ListReady, StartReplay, EndDrain,
                        Leave, Goto, tableVars, historyVars
    <3>2. \A e \in Drains : dpc'[e] = "ack" <=> dpc[e] = "ack"
      BY <1>t, <3>1
    <3>3. \A a \in Actions : Replayable(a)' => Replayable(a)
      BY <3>1 DEF Replayable, Pending
    <3> QED BY <1>r, <3>1, <3>2, <3>3, CountKept
  <2>2. CASE HeldAgain(d) /\ faults' = faults
    <3>1. /\ UNCHANGED <<replayed, faults>> /\ batch[d] # {} /\ dpc[d] # "ack"
          /\ status' = status \/ status' = [status EXCEPT ![First(d)] = "pending"]
          /\ dpc' = [dpc EXCEPT ![d] = "idle"] /\ batch' = [batch EXCEPT ![d] = {}]
      BY <2>2 DEF HeldAgain, Reschedule, Leave, Goto, tableVars
    <3>2. \A e \in Drains : dpc'[e] = "ack" <=> dpc[e] = "ack"
      BY <1>t, <3>1
    <3>3. First(d) \in batch[d]
      BY <3>1, FirstLeast
    <3>4. \A e \in Drains : batch'[e] \subseteq batch[e]
      BY <1>t, <3>1
    <3>5. Pending' \subseteq Pending \cup batch[d]
      BY <1>t, <3>1, <3>3 DEF Pending
    <3>6. \A a \in Actions : Replayable(a)' => Replayable(a)
      BY <3>4, <3>5 DEF Replayable
    <3>7. \A e \in Drains : dpc[e] = "ack" => batch'[e] = batch[e]
      BY <1>t, <3>1
    <3> QED BY <1>r, <3>1, <3>2, <3>6, <3>7, CountKept
  <2>3. CASE ReplaySucceeds(d)
    <3>1. /\ UNCHANGED <<id, status, batch, faults>>
          /\ dpc[d] = "replay" /\ dpc' = [dpc EXCEPT ![d] = "ack"]
          /\ replayed' = [replayed EXCEPT ![First(d)] = @ + 1]
          /\ batch[d] # {}
      BY <2>3 DEF ReplaySucceeds, Goto, tableVars, OneDrain
    <3>2. First(d) \in batch[d] /\ First(d) \in Actions /\ First(d) \in Rows
      BY <1>t, <3>1, FirstLeast DEF IdsGrow
    <3>3. First(d)' = First(d)
      BY <3>1, FirstSame
    <3>4. \A e \in Drains : dpc[e] # "ack" /\ (dpc'[e] = "ack" <=> e = d)
      BY <1>t, <3>1 DEF OneDrain
    <3>5. \A a \in Actions : ~InAck(a) /\ (InAck(a)' <=> a = First(d))
      BY <3>3, <3>4 DEF InAck
    <3>6. \A a \in Actions : Replayable(a)' <=> Replayable(a)
      BY <3>1 DEF Replayable, Pending
    <3>7. replayed[First(d)] <= faults
      BY <3>2, <3>5 DEF ReplaysCounted, Replayable
    <3>8. /\ \A a \in Actions : a # First(d) => replayed'[a] = replayed[a]
          /\ replayed'[First(d)] = replayed[First(d)] + 1
      BY <1>t, <3>1, <3>2
    <3>9. \A a \in Actions : replayed'[a] <= 1 + faults'
      BY <1>t, <3>1, <3>2, <3>7, <3>8 DEF ReplaysCounted
    <3>10. \A a \in Actions : Replayable(a)' => replayed'[a] <= faults' \/ InAck(a)'
      BY <3>1, <3>5, <3>6, <3>8 DEF ReplaysCounted
    <3>11. \A e \in Drains : dpc'[e] = "ack" => replayed'[First(e)'] # 0
      BY <1>t, <3>2, <3>3, <3>4, <3>8
    <3>12. \A a \in Actions \ Rows' : replayed'[a] = 0
      BY <2>0, <3>2, <3>8 DEF ReplaysCounted
    <3> QED BY <3>9, <3>10, <3>11, <3>12 DEF ReplaysCounted
  <2>4. CASE \/ ReplayFails(d) \/ ListFails(d) \/ (Ack(d) /\ Fault)
             \/ (HeldAgain(d) \/ EndDrain(d)) /\ faults' # faults
    <3>1. /\ UNCHANGED <<replayed>> /\ faults' = faults + 1 /\ dpc[d] # "idle"
          /\ dpc' = [dpc EXCEPT ![d] = "item"] \/ dpc' = [dpc EXCEPT ![d] = "idle"]
      BY <2>4 DEF ReplayFails, ListFails, HeldAgain, EndDrain, ScheduleNext, Ack, Fault,
                  Leave, Goto
    <3>2. \A e \in Drains : dpc'[e] # "ack"
      BY <1>t, <3>1 DEF OneDrain
    <3> QED BY <2>0, <3>1, <3>2, CountPaid
  <2>5. CASE Ack(d) /\ ~Fault
    <3>1. /\ UNCHANGED <<replayed, faults>> /\ status' = [status EXCEPT ![First(d)] = "done"]
          /\ dpc[d] = "ack" /\ dpc' = [dpc EXCEPT ![d] = "item"]
          /\ batch' = [batch EXCEPT ![d] = @ \ {First(d)}]
      BY <2>5 DEF Ack, Goto, HandledFirst
    <3>2. \A e \in Drains : dpc'[e] # "ack" /\ (dpc[e] = "ack" => e = d)
      BY <1>t, <3>1 DEF OneDrain
    <3>3. \A a \in Actions : InAck(a) => a = First(d)
      BY <3>2 DEF InAck
    <3>4. \A e \in Drains : batch'[e] \subseteq batch[e] \ {First(d)}
      BY <1>t, <3>1 DEF OneDrain
    <3>5. Pending' \subseteq Pending \ {First(d)}
      BY <1>t, <3>1 DEF Pending
    <3>6. \A a \in Actions : Replayable(a)' => Replayable(a) /\ a # First(d)
      BY <3>4, <3>5 DEF Replayable
    <3>7. \A a \in Actions : Replayable(a)' => replayed'[a] <= faults'
      BY <3>1, <3>3, <3>6 DEF ReplaysCounted
    <3> QED BY <2>0, <3>1, <3>2, <3>7 DEF ReplaysCounted
  <2>6. ClearTimer(d) \/ StillHeld(d) \/ ListReady(d) \/ StartReplay(d) => faults' = faults
    BY DEF ClearTimer, StillHeld, ListReady, StartReplay, historyVars
  <2> QED BY <1>2, <2>1, <2>2, <2>3, <2>4, <2>5, <2>6 DEF DrainStep
<1>3. ASSUME NEW a \in Actions, EnqueueAction(a) PROVE ReplaysCounted'
  <2>1. /\ UNCHANGED <<dpc, batch, replayed, faults>> /\ a \notin Rows
        /\ Pending' \subseteq Pending \cup {a}
    BY <1>3, <1>t DEF EnqueueAction, drainVars, historyVars, Pending, IdsGrow
  <2>2. \A b \in Actions : Replayable(b)' => Replayable(b) \/ b \notin Rows
    BY <2>1 DEF Replayable
  <2> QED BY <1>r, <2>1, <2>2, CountKept
<1>4. ASSUME NEW a \in Actions, Dismiss(a) PROVE ReplaysCounted'
  <2>1. UNCHANGED <<dpc, batch, replayed, faults>> /\ Pending' \subseteq Pending
    BY <1>4, <1>t DEF Dismiss, drainVars, Pending
  <2>2. \A b \in Actions : Replayable(b)' => Replayable(b)
    BY <2>1 DEF Replayable
  <2> QED BY <1>r, <2>1, <2>2, CountKept
<1>5. ASSUME NEW a \in Actions, Arrive(a) \/ ArmDrain(a) PROVE Quiet
  BY <1>5 DEF Arrive, ArmDrain, tableVars, drainVars, historyVars
<1>6. ASSUME Backfill \/ Limit \/ Tick \/ UNCHANGED vars PROVE Quiet
  BY <1>6 DEF Backfill, Limit, Tick, vars, tableVars, drainVars, historyVars
<1>7. CASE Restart
  <2>1. /\ UNCHANGED <<replayed, id>> /\ faults' = faults + 1
        /\ \A d \in Drains : dpc'[d] # "ack"
    BY <1>7 DEF Restart, Fault, tableVars
  <2>2. Rows' = Rows
    BY <2>1 DEF Rows
  <2> QED BY <2>1, <2>2, CountPaid
<1> QED BY <1>q, <1>1, <1>2, <1>3, <1>4, <1>5, <1>6, <1>7 DEF Next

-----------------------------------------------------------------------------
(* The theorems about RateLimitQueue.                                       *)

LEMMA HeldInit ==
    ASSUME Init
    PROVE  HeldInv
<1>1. TypeOK
  BY HeldInitTyped
<1>2. OneDrain /\ IdsGrow /\ ListedOlder
  BY DEF Init, OneDrain, IdsGrow, Rows, ListedOlder
<1>3. ReplaysCounted
  BY DEF Init, ReplaysCounted, Replayable, Pending, Rows
<1> QED BY <1>1, <1>2, <1>3 DEF HeldInv

LEMMA HeldStep ==
    ASSUME HeldInv, [Next]_vars
    PROVE  HeldInv'
<1>1. TypeOK' /\ OneDrain' /\ IdsGrow'
  BY HeldStepTyped, OneDrainStep, IdsGrowStep DEF HeldInv
<1> QED BY <1>1, ListedOlderStep, ReplaysCountedStep DEF HeldInv

LEMMA HeldAlways == Spec => []HeldInv
<1>1. Init => HeldInv
  BY HeldInit
<1>2. HeldInv /\ [Next]_vars => HeldInv'
  BY HeldStep
<1> QED BY <1>1, <1>2, PTL DEF Spec

\* Every variable of the rate-limit queue keeps its type, whatever the drains,
\* connectors and faults: the times stay within the bound, the one timer is one.
THEOREM TypeCorrect == Spec => []TypeOK
<1>1. HeldInv => TypeOK
  BY DEF HeldInv
<1> QED BY <1>1, HeldAlways, PTL

\* drainRateLimitQueue's TryLock: however many timers and rechecks start drains, an
\* action is replayed a second time only for a failed ack or a restart.
THEOREM ReplayedOnce == Spec => []ReplayedOncePerFault
<1>1. HeldInv => ReplayedOncePerFault
  <2> SUFFICES ASSUME HeldInv, NEW a \in Actions PROVE replayed[a] <= 1 + faults
    BY DEF ReplayedOncePerFault
  <2> QED BY DEF HeldInv, ReplaysCounted
<1> QED BY <1>1, HeldAlways, PTL

\* rate_limit_queue.go:16, replay FIFO by id: no drain starts on a row while an older
\* one that was due when it listed waits for its first replay, whatever is enqueued,
\* rescheduled or dismissed under the drain.
THEOREM ReplayedInOrder == Spec => []ReplayFifo
<1>1. HeldInv => ReplayFifo
  <2> SUFFICES ASSUME HeldInv, NEW d \in Drains, dpc[d] = "replay", NEW a \in Pending,
                      id[a] < id[First(d)], replayed[a] = 0, runAfter[a] <= listed[d]
               PROVE  FALSE
    <3>1. HeldInv => \A d \in Drains, a \in Pending : runAfter[a] \in Int /\ listed[d] \in Int
      BY DEF HeldInv, TypeOK, Pending, Times
    <3> QED BY <3>1 DEF ReplayFifo
  <2>1. batch[d] # {} /\ a \in Actions
    BY DEF HeldInv, OneDrain, Pending
  <2>2. First(d) \in batch[d] /\ \A b \in batch[d] : id[First(d)] <= id[b]
    BY <2>1, FirstLeast DEF HeldInv
  <2>3. id[a] \in Nat /\ id[First(d)] \in Nat
    BY <2>1, <2>2 DEF HeldInv, TypeOK
  <2>4. CASE a \in batch[d]
    BY <2>2, <2>3, <2>4
  <2>5. CASE a \notin batch[d]
    <3>1. id[First(d)] < id[a]
      BY <2>2, <2>5 DEF HeldInv, ListedOlder
    <3> QED BY <2>3, <3>1
  <2> QED BY <2>4, <2>5
<1> QED BY <1>1, HeldAlways, PTL

-----------------------------------------------------------------------------
(* A row that waits has a timer.                                            *)

\* The lock has an owner; a row in the table has a timer, the owner of the lock, or the
\* connector that is about to arm one, unless the read that would have armed it failed.
LockOwned == locked => \E d \in Drains : dpc[d] # "idle"
Reached(a) == cpc[a] = "row" \/ locked \/ timer # "nil" \/ orphans # {} \/ unread
TimerInv == LockOwned /\ \A a \in Pending : Reached(a)

\* Schedule leaves the variable with a timer in it.
LEMMA ScheduleArms == ASSUME NEW at, Schedule(at) PROVE timer' # "nil" /\ orphans' = orphans
  BY DEF Schedule, timerVars

LEMMA LockOwnedStep ==
    ASSUME TypeOK, OneDrain, LockOwned, [Next]_vars
    PROVE  LockOwned'
<1>t. dpc \in [Drains -> {"idle", "clear", "hold", "item", "replay", "ack"}]
  BY DEF TypeOK
<1>1. ASSUME NEW d \in Drains, Fire(d) \/ Recheck(d) PROVE LockOwned'
  BY <1>1, <1>t DEF Fire, Recheck, TryLock, Spare, LockOwned
<1>2. ASSUME NEW d \in Drains, DrainStep(d) PROVE LockOwned'
  <2>1. CASE StillHeld(d) \/ ListFails(d) \/ HeldAgain(d) \/ EndDrain(d)
    BY <2>1 DEF StillHeld, ListFails, HeldAgain, EndDrain, Leave, LockOwned
  <2>2. CASE ~(StillHeld(d) \/ ListFails(d) \/ HeldAgain(d) \/ EndDrain(d))
    BY <1>2, <1>t, <2>2 DEF DrainStep, ClearTimer, ListReady, StartReplay, ReplaySucceeds,
                            ReplayFails, Ack, Goto, LockOwned
  <2> QED BY <2>1, <2>2
<1>3. ASSUME NEW a \in Actions, Arrive(a) \/ EnqueueAction(a) \/ ArmDrain(a) \/ Dismiss(a)
      PROVE  LockOwned'
  BY <1>3 DEF Arrive, EnqueueAction, ArmDrain, Dismiss, drainVars, LockOwned
<1>4. ASSUME Backfill \/ Limit \/ Tick \/ Restart \/ UNCHANGED vars PROVE LockOwned'
  BY <1>4 DEF Backfill, Limit, Tick, Restart, vars, drainVars, LockOwned
<1> QED BY <1>1, <1>2, <1>3, <1>4 DEF Next

\* Fire keeps the variable filled and takes the lock; a drain gives the lock back only
\* after it has armed the timer for what it leaves, or failed to read it.
LEMMA ReachedStep ==
    ASSUME TypeOK, OneDrain, TimerInv, [Next]_vars
    PROVE  \A a \in Pending' : Reached(a)'
<1>1. ASSUME NEW d \in Drains, Fire(d) \/ Recheck(d) PROVE locked'
  BY <1>1 DEF Fire, Recheck, TryLock
<1>2. ASSUME NEW d \in Drains, DrainStep(d) PROVE \A a \in Pending' : Reached(a)'
  <2>1. CASE StillHeld(d) \/ ListFails(d) \/ HeldAgain(d)
    BY <2>1, ScheduleArms DEF StillHeld, ListFails, HeldAgain, Reached
  <2>2. CASE EndDrain(d)
    <3>1. Pending' = Pending
      BY <2>2 DEF EndDrain, tableVars, Pending
    <3>2. Pending # {} => timer' # "nil" \/ unread'
      BY <2>2, ScheduleArms DEF EndDrain, ScheduleNext
    <3> QED BY <3>1, <3>2 DEF Reached
  <2>3. CASE ~(StillHeld(d) \/ ListFails(d) \/ HeldAgain(d) \/ EndDrain(d))
    <3>1. locked
      BY <1>2, <2>3 DEF OneDrain, DrainStep, ClearTimer, ListReady, StartReplay,
                        ReplaySucceeds, ReplayFails, Ack
    <3>2. locked' = locked
      BY <1>2, <2>3 DEF DrainStep, ClearTimer, ListReady, StartReplay, ReplaySucceeds,
                        ReplayFails, Ack
    <3> QED BY <3>1, <3>2 DEF Reached
  <2> QED BY <2>1, <2>2, <2>3
<1>3. ASSUME NEW b \in Actions, EnqueueAction(b) PROVE \A a \in Pending' : Reached(a)'
  <2>1. cpc'[b] = "row" /\ \A a \in Pending' : a # b => a \in Pending /\ cpc'[a] = cpc[a]
    BY <1>3 DEF EnqueueAction, Pending, TypeOK
  <2>2. UNCHANGED <<timer, orphans, unread, locked>>
    BY <1>3 DEF EnqueueAction, timerVars, drainVars
  <2> QED BY <2>1, <2>2 DEF TimerInv, Reached
<1>4. ASSUME NEW b \in Actions, ArmDrain(b) PROVE \A a \in Pending' : Reached(a)'
  BY <1>4, ScheduleArms DEF ArmDrain, Reached
<1>5. ASSUME NEW b \in Actions, Arrive(b) \/ Dismiss(b) PROVE \A a \in Pending' : Reached(a)'
  <2>1. \A a \in Pending' : a \in Pending /\ (cpc[a] = "row" => cpc'[a] = "row")
    BY <1>5 DEF Arrive, Dismiss, Pending, TypeOK, tableVars, connectorVars
  <2>2. UNCHANGED <<timer, orphans, unread, locked>>
    BY <1>5 DEF Arrive, Dismiss, timerVars, drainVars
  <2> QED BY <2>1, <2>2 DEF TimerInv, Reached
<1>6. CASE Backfill
  BY <1>6, ScheduleArms DEF Backfill, Reached
<1>7. CASE Restart
  <2>1. Pending' = Pending
    BY <1>7 DEF Restart, tableVars, Pending
  <2>2. Pending # {} => timer' = "armed" \/ unread'
    BY <1>7 DEF Restart
  <2> QED BY <2>1, <2>2 DEF Reached
<1>8. ASSUME Limit \/ Tick \/ UNCHANGED vars PROVE \A a \in Pending' : Reached(a)'
  BY <1>8 DEF Limit, Tick, vars, tableVars, timerVars, connectorVars, drainVars, Pending,
              TimerInv, Reached
<1> QED
  BY <1>1, <1>2, <1>3, <1>4, <1>5, <1>6, <1>7, <1>8 DEF Next, Reached

\* The safety half of HeldActionReplayed: whatever drains, recheck, backfills, new holds
\* and restarts do to the one timer variable, no row waits with nobody to come for it,
\* but for a timer that fired into the lock and a failed read of the next due row.
THEOREM NoRowForgotten == Spec => []RowHasTimer
<1>1. Init => TimerInv
  BY DEF Init, TimerInv, LockOwned, Pending
<1>2. HeldInv /\ TimerInv /\ [Next]_vars => TimerInv'
  BY LockOwnedStep, ReachedStep DEF HeldInv, TimerInv
<1>3. HeldInv /\ TimerInv => RowHasTimer
  <2>1. HeldInv => timer \in {"nil", "armed", "fired"}
    BY DEF HeldInv, TypeOK
  <2> QED BY <2>1 DEF TimerInv, LockOwned, Reached, RowHasTimer, TimerStuck, NextUnread
<1> QED BY <1>1, <1>2, <1>3, HeldAlways, PTL DEF Spec

-----------------------------------------------------------------------------
(* PausedSession, as P: its constants, its variables, its assumption as a   *)
(* hypothesis.                                                              *)

CONSTANTS Nudges, Events, MaxPauses, MaxFaults

VARIABLES pausedRow, queue, wakes, session, psLive, flush, pc, pauses, pausedFaults,
          accepted, tries, delivered

P == INSTANCE PausedSession WITH faults <- pausedFaults

\* Every variable keeps its type.
LEMMA PausedInitTyped ==
    ASSUME P!PausedSessionAssumption, P!Init
    PROVE  P!TypeOK
<1>1. psLive \in BOOLEAN
  <2>1. psLive = (session # "none") BY DEF P!Init
  <2> QED BY <2>1
<1>2. /\ pc \in [P!Threads -> P!CallerPcs \cup P!ServicePcs]
      /\ \A t \in P!Threads \ P!Callers : pc[t] \in P!ServicePcs
  BY DEF P!Init, P!CallerPcs, P!ServicePcs
<1>3. pausedRow \in BOOLEAN /\ flush \in {"off", "on", "pasted"} /\ tries \in Nat
  BY DEF P!Init
<1>5. /\ session \in {"none", "tmux", "pty"}
      /\ pauses \in 0..MaxPauses /\ pausedFaults \in 0..MaxFaults
  BY DEF P!PausedSessionAssumption, P!Init
<1>4. /\ queue \in Seq(P!Callers) /\ wakes \in Seq(P!Callers)
      /\ accepted \in Seq(P!Callers) /\ delivered \in Seq(P!Callers)
  BY DEF P!Init
<1> QED BY <1>1, <1>2, <1>3, <1>4, <1>5 DEF P!TypeOK

\* A fault is counted once, and within the bound.
LEMMA PausedFaultCounted ==
    ASSUME P!PausedSessionAssumption, P!TypeOK, P!Fault
    PROVE  pausedFaults' \in 0..MaxFaults /\ pausedFaults' = pausedFaults + 1
BY DEF P!PausedSessionAssumption, P!TypeOK, P!Fault

\* Going to a label of one's own kind keeps the program counters typed.
LEMMA GotoTyped ==
    ASSUME P!TypeOK, NEW t \in P!Threads, NEW l, P!Goto(t, l),
           l \in P!ServicePcs \/ (t \in P!Callers /\ l \in P!CallerPcs)
    PROVE  /\ pc' \in [P!Threads -> P!CallerPcs \cup P!ServicePcs]
           /\ \A u \in P!Threads \ P!Callers : pc'[u] \in P!ServicePcs
BY DEF P!TypeOK, P!Goto

\* The verdict of a check sends a thread to a label of its own kind.
LEMMA AfterTyped ==
    ASSUME NEW t \in P!Threads, NEW paused \in BOOLEAN
    PROVE  \/ P!After(t, paused) \in P!ServicePcs
           \/ t \in P!Callers /\ P!After(t, paused) \in P!CallerPcs
BY DEF P!After, P!ServicePcs, P!CallerPcs

\* So does the end of clearTaskPause.
LEMMA ClearedTyped ==
    ASSUME NEW t \in P!Threads
    PROVE  P!Cleared(t) \in P!ServicePcs \/ (t \in P!Callers /\ P!Cleared(t) \in P!CallerPcs)
BY AfterTyped DEF P!Cleared, P!ServicePcs, P!CallerPcs

LEMMA PausedStepTyped ==
    ASSUME P!PausedSessionAssumption, P!TypeOK, P!TriesPaid, [P!Next]_P!vars
    PROVE  P!TypeOK'
<1> DEFINE PcTyped == /\ pc \in [P!Threads -> P!CallerPcs \cup P!ServicePcs]
                      /\ \A t \in P!Threads \ P!Callers : pc[t] \in P!ServicePcs
<1> USE DEF P!PausedSessionAssumption, P!dbVars, P!envVars, P!boundVars, P!handVars
<1>1. ASSUME NEW t \in P!Threads, P!Call(t) PROVE P!TypeOK'
  <2>1. PcTyped' BY <1>1, GotoTyped DEF P!Call, P!CallerPcs, P!CheckPcs
  <2> QED BY <1>1, <2>1 DEF P!Call, P!TypeOK
<1>2. ASSUME NEW t \in P!Threads, P!Ask(t) PROVE P!TypeOK'
  <2>1. PcTyped' BY <1>2, GotoTyped DEF P!Ask, P!ServicePcs, P!CheckPcs, P!LaunchPcs
  <2>2. pauses' \in 0..MaxPauses BY <1>2 DEF P!Ask, P!TypeOK
  <2> QED BY <1>2, <2>1, <2>2 DEF P!Ask, P!TypeOK
<1>3. ASSUME NEW t \in P!Threads, P!GetPausedSession(t) PROVE P!TypeOK'
  <2>1. PcTyped'
    BY <1>3, GotoTyped, AfterTyped DEF P!GetPausedSession, P!ServicePcs, P!CheckPcs
  <2>2. pausedFaults' \in 0..MaxFaults
    BY <1>3, PausedFaultCounted DEF P!GetPausedSession, P!TypeOK
  <2> QED BY <1>3, <2>1, <2>2 DEF P!GetPausedSession, P!TypeOK
<1>4. ASSUME NEW t \in P!Threads, P!CheckLive(t) PROVE P!TypeOK'
  <2>1. PcTyped' BY <1>4, GotoTyped, AfterTyped DEF P!CheckLive, P!ServicePcs, P!CheckPcs
  <2>2. psLive' \in BOOLEAN
    <3>1. P!Live \in BOOLEAN BY DEF P!Live
    <3> QED BY <1>4, <3>1 DEF P!CheckLive, P!TypeOK
  <2>3. pausedFaults' \in 0..MaxFaults
    BY <1>4, PausedFaultCounted DEF P!CheckLive, P!TypeOK
  <2> QED BY <1>4, <2>1, <2>2, <2>3 DEF P!CheckLive, P!TypeOK
<1>5. ASSUME NEW t \in P!Threads, P!Move(t) PROVE P!TypeOK'
  <2>1. PcTyped'
    BY <1>5, GotoTyped DEF P!Move, P!ServicePcs, P!CheckPcs, P!LaunchPcs
  <2>2. wakes' \in Seq(P!Callers) /\ queue' \in Seq(P!Callers)
    BY <1>5, ConcatProperties DEF P!Move, P!TypeOK
  <2> QED BY <1>5, <2>1, <2>2 DEF P!Move, P!TypeOK
<1>6. ASSUME NEW t \in P!Threads, P!MoveFails(t) PROVE P!TypeOK'
  <2>1. PcTyped' BY <1>6, GotoTyped, ClearedTyped DEF P!MoveFails
  <2>2. pausedFaults' \in 0..MaxFaults BY <1>6, PausedFaultCounted DEF P!MoveFails
  <2> QED BY <1>6, <2>1, <2>2 DEF P!MoveFails, P!TypeOK
<1>7. ASSUME NEW t \in P!Threads, P!Clear(t) PROVE P!TypeOK'
  <2>1. PcTyped' BY <1>7, GotoTyped, ClearedTyped DEF P!Clear
  <2>2. pausedFaults' \in 0..MaxFaults BY <1>7, PausedFaultCounted DEF P!Clear, P!TypeOK
  <2>4. pausedRow' \in BOOLEAN
    <3>1. pausedRow' = FALSE \/ pausedRow' = pausedRow BY <1>7 DEF P!Clear
    <3> QED BY <3>1 DEF P!TypeOK
  <2>3. flush' \in {"off", "on", "pasted"}
    BY <1>7 DEF P!Clear, P!StartFlush, P!TypeOK
  <2> QED BY <1>7, <2>1, <2>2, <2>3, <2>4 DEF P!Clear, P!TypeOK
<1>8. ASSUME NEW t \in P!Threads, P!Enqueue(t) PROVE P!TypeOK'
  <2>1. t \in P!Callers
    BY <1>8 DEF P!Enqueue, P!TypeOK, P!ServicePcs, P!CheckPcs, P!LaunchPcs
  <2>2. PcTyped' BY <1>8, <2>1, GotoTyped DEF P!Enqueue, P!CallerPcs
  <2>3. queue' \in Seq(P!Callers) /\ accepted' \in Seq(P!Callers)
    BY <1>8, <2>1, AppendProperties DEF P!Enqueue, P!TypeOK
  <2> QED BY <1>8, <2>2, <2>3 DEF P!Enqueue, P!TypeOK
<1>20. ASSUME NEW t \in P!Threads, P!EnqueueFails(t) PROVE P!TypeOK'
  <2>1. t \in P!Callers
    BY <1>20 DEF P!EnqueueFails, P!TypeOK, P!ServicePcs, P!CheckPcs, P!LaunchPcs
  <2>2. PcTyped' BY <1>20, <2>1, GotoTyped DEF P!EnqueueFails, P!CallerPcs
  <2>3. pausedFaults' \in 0..MaxFaults BY <1>20, PausedFaultCounted DEF P!EnqueueFails
  <2> QED BY <1>20, <2>2, <2>3 DEF P!EnqueueFails, P!TypeOK
<1>9. ASSUME NEW t \in P!Threads, P!CallerRoutes(t) PROVE P!TypeOK'
  <2>1. t \in P!Callers
    BY <1>9 DEF P!CallerRoutes, P!Route, P!TypeOK, P!ServicePcs, P!CheckPcs, P!LaunchPcs
  <2>2. PcTyped'
    BY <1>9, <2>1, GotoTyped DEF P!CallerRoutes, P!Route, P!CallerPcs, P!LaunchPcs
  <2>3. psLive' \in BOOLEAN
    <3>1. P!Live \in BOOLEAN BY DEF P!Live
    <3> QED BY <1>9, <3>1 DEF P!CallerRoutes, P!Route, P!TypeOK
  <2> QED BY <1>9, <2>2, <2>3 DEF P!CallerRoutes, P!TypeOK
<1>10. CASE P!Paste
  <2>1. tries' \in Nat BY <1>10 DEF P!Paste, P!TypeOK
  <2> QED BY <1>10, <2>1 DEF P!Paste, P!TypeOK
<1>11. ASSUME NEW t \in P!Threads, P!Launch(t) PROVE P!TypeOK'
  <2>1. PcTyped' BY <1>11, GotoTyped DEF P!Launch, P!ServicePcs, P!LaunchPcs
  <2>2. session' \in {"none", "tmux", "pty"} BY <1>11 DEF P!Launch
  <2> QED BY <1>11, <2>1, <2>2 DEF P!Launch, P!TypeOK
<1>12. CASE P!Stop
  <2>1. PcTyped' BY <1>12, GotoTyped DEF P!Stop, P!ServicePcs, P!Threads
  <2>2. pausedFaults' \in 0..MaxFaults BY <1>12, PausedFaultCounted DEF P!Stop, P!TypeOK
  <2>3. session' \in {"none", "tmux", "pty"} BY <1>12 DEF P!Stop, P!TypeOK
  <2> QED BY <1>12, <2>1, <2>2, <2>3 DEF P!Stop, P!TypeOK
<1>13. CASE P!Mark
  <2>1. PcTyped' BY <1>13, GotoTyped DEF P!Mark, P!ServicePcs, P!CheckPcs, P!Threads
  <2>2. pausedFaults' \in 0..MaxFaults BY <1>13, PausedFaultCounted DEF P!Mark, P!TypeOK
  <2>3. pausedRow' \in BOOLEAN
    <3>1. pausedRow' = TRUE \/ pausedRow' = pausedRow BY <1>13 DEF P!Mark
    <3> QED BY <3>1 DEF P!TypeOK
  <2> QED BY <1>13, <2>1, <2>2, <2>3 DEF P!Mark, P!TypeOK
<1>14. CASE P!Ack
  <2>1. wakes' \in Seq(P!Callers) /\ delivered' \in Seq(P!Callers)
    <3>1. wakes # <<>>
      BY <1>14 DEF P!Ack, P!TriesPaid
    <3>2. Head(wakes) \in P!Callers /\ Tail(wakes) \in Seq(P!Callers)
      BY <3>1, HeadTailProperties DEF P!TypeOK
    <3>3. delivered' = Append(delivered, Head(wakes)) /\ wakes' = Tail(wakes)
      BY <1>14 DEF P!Ack
    <3> QED BY <3>2, <3>3, AppendProperties DEF P!TypeOK
  <2> QED BY <1>14, <2>1 DEF P!Ack, P!TypeOK
<1>21. CASE P!AckFails \/ P!FlushEnds
  <2>1. pausedFaults' \in 0..MaxFaults
    BY <1>21, PausedFaultCounted DEF P!AckFails, P!FlushEnds, P!TypeOK
  <2> QED BY <1>21, <2>1 DEF P!AckFails, P!FlushEnds, P!TypeOK
<1>15. CASE P!Hook BY <1>15 DEF P!Hook, P!StartFlush, P!TypeOK
<1>16. CASE P!PsExpires
  <2>1. psLive' \in BOOLEAN BY <1>16 DEF P!PsExpires, P!Live
  <2> QED BY <1>16, <2>1 DEF P!PsExpires, P!TypeOK
<1>17. CASE P!SessionEnds BY <1>17 DEF P!SessionEnds, P!TypeOK
<1>18. CASE P!Restart
  <2>1. PcTyped' BY <1>18 DEF P!Restart, P!TypeOK, P!CallerPcs, P!ServicePcs
  <2>2. psLive' \in BOOLEAN BY <1>18 DEF P!Restart, P!Live
  <2>3. flush' \in {"off", "on", "pasted"} BY <1>18 DEF P!Restart
  <2>4. session' \in {"none", "tmux", "pty"} /\ pausedFaults' \in 0..MaxFaults
    BY <1>18, PausedFaultCounted DEF P!Restart, P!TypeOK
  <2> QED BY <1>18, <2>1, <2>2, <2>3, <2>4 DEF P!Restart, P!TypeOK
<1>19. CASE UNCHANGED P!vars BY <1>19 DEF P!vars, P!TypeOK
<1> QED
  BY <1>1, <1>2, <1>3, <1>4, <1>5, <1>6, <1>7, <1>8, <1>9, <1>10, <1>11, <1>12,
     <1>13, <1>14, <1>15, <1>16, <1>17, <1>18, <1>19, <1>20, <1>21
     DEF P!Next, P!Proceed

\* A row is acked only after its paste, and pasted again only after a fault.
LEMMA PausedStepPaid ==
    ASSUME P!PausedSessionAssumption, P!TypeOK, P!TriesPaid, [P!Next]_P!vars
    PROVE  P!TriesPaid'
<1> DEFINE Same == UNCHANGED <<wakes, tries>>
                   /\ (flush' = flush \/ (flush # "pasted" /\ flush' \in {"off", "on"}))
<1>t. /\ pausedFaults \in Nat /\ pausedFaults' \in Nat /\ tries \in Nat
      /\ flush \in {"off", "on", "pasted"}
  BY PausedStepTyped DEF P!TypeOK, P!PausedSessionAssumption
<1> USE DEF P!TriesPaid
<1>s. ASSUME Same, pausedFaults' >= pausedFaults PROVE P!TriesPaid'
  <2>1. CASE flush = "pasted"
    <3>1. flush' = "pasted" /\ wakes' # <<>> /\ tries' = tries /\ tries \in 1..pausedFaults + 1
      BY ONLY <1>s, <2>1, P!TriesPaid DEF P!TriesPaid
    <3>2. \A f, g \in Nat : \A n \in 1..f + 1 : g >= f => n \in 1..g + 1
      OBVIOUS
    <3>3. pausedFaults \in Nat /\ pausedFaults' \in Nat /\ pausedFaults' >= pausedFaults
      BY ONLY <1>s, <1>t
    <3>4. tries' \in 1..pausedFaults' + 1
      BY ONLY <3>1, <3>2, <3>3
    <3> QED BY ONLY <3>1, <3>4 DEF P!TriesPaid
  <2>2. CASE flush # "pasted"
    <3>1. flush' # "pasted" /\ tries' = tries /\ tries <= pausedFaults
      BY ONLY <1>s, <2>2, P!TriesPaid DEF P!TriesPaid
    <3>2. tries' <= pausedFaults'
      BY ONLY <1>s, <1>t, <3>1
    <3> QED BY ONLY <3>1, <3>2 DEF P!TriesPaid
  <2> QED BY ONLY <2>1, <2>2
<1> USE DEF P!dbVars, P!envVars, P!boundVars, P!handVars
<1>1. ASSUME NEW t \in P!Threads, P!Call(t) \/ P!Ask(t) \/ P!Enqueue(t)
      PROVE P!TriesPaid'
  <2>1. Same /\ pausedFaults' = pausedFaults
    BY <1>1 DEF P!Call, P!Ask, P!Enqueue
  <2> QED BY <2>1, <1>s, <1>t
<1>2. ASSUME NEW t \in P!Threads, P!GetPausedSession(t) \/ P!CheckLive(t) PROVE P!TriesPaid'
  <2>1. Same
    BY <1>2 DEF P!GetPausedSession, P!CheckLive
  <2>2. pausedFaults' = pausedFaults \/ P!Fault
    BY <1>2 DEF P!GetPausedSession, P!CheckLive
  <2>3. pausedFaults' >= pausedFaults
    BY ONLY <1>t, <2>2 DEF P!Fault
  <2> QED BY <2>1, <2>3, <1>s
<1>3. ASSUME NEW t \in P!Threads, P!MoveFails(t) \/ P!EnqueueFails(t) PROVE P!TriesPaid'
  <2>1. Same /\ pausedFaults' >= pausedFaults
    BY <1>3, <1>t, PausedFaultCounted DEF P!MoveFails, P!EnqueueFails
  <2> QED BY <2>1, <1>s
<1>4. ASSUME NEW t \in P!Threads, P!Clear(t) PROVE P!TriesPaid'
  <2>1. Same
    BY <1>4, <1>t DEF P!Clear, P!StartFlush
  <2>2. pausedFaults' >= pausedFaults
    BY <1>4, <1>t, PausedFaultCounted DEF P!Clear
  <2> QED BY <2>1, <2>2, <1>s
<1>5. ASSUME NEW t \in P!Threads, P!CallerRoutes(t) \/ P!Launch(t) PROVE P!TriesPaid'
  <2>1. Same /\ pausedFaults' = pausedFaults
    BY <1>5 DEF P!CallerRoutes, P!Launch
  <2> QED BY <2>1, <1>s, <1>t
<1>6. ASSUME NEW t \in P!Threads, P!Move(t) PROVE P!TriesPaid'
  <2>1. /\ UNCHANGED <<tries, flush, pausedFaults>> /\ wakes' = wakes \o queue
        /\ wakes \in Seq(P!Callers) /\ queue \in Seq(P!Callers)
    BY <1>6 DEF P!Move, P!TypeOK
  <2>2. wakes # <<>> => wakes' # <<>>
    BY <2>1, ConcatProperties, EmptySeq, LenProperties
  <2> QED BY <2>1, <2>2, <1>t
<1>7. ASSUME P!Stop \/ P!Mark PROVE P!TriesPaid'
  <2>1. Same /\ pausedFaults' >= pausedFaults
    BY <1>7, <1>t, PausedFaultCounted DEF P!Stop, P!Mark
  <2> QED BY <2>1, <1>s
<1>8. ASSUME P!Hook \/ P!PsExpires \/ P!SessionEnds PROVE P!TriesPaid'
  <2>1. Same /\ pausedFaults' = pausedFaults
    BY <1>8, <1>t DEF P!Hook, P!StartFlush, P!PsExpires, P!SessionEnds
  <2> QED BY <2>1, <1>s, <1>t
<1>9. CASE P!Paste
  BY <1>9, <1>t DEF P!Paste
<1>10. CASE P!Ack
  BY <1>10, <1>t DEF P!Ack
<1>11. CASE P!AckFails \/ P!Restart
  <2>1. /\ UNCHANGED tries /\ pausedFaults' = pausedFaults + 1
        /\ flush' \in {"off", "on"}
    BY <1>11, PausedFaultCounted DEF P!AckFails, P!Restart
  <2> QED BY <2>1, <1>t
<1>12. CASE P!FlushEnds
  BY <1>12, <1>t DEF P!FlushEnds
<1>13. CASE UNCHANGED P!vars
  BY <1>13, <1>t DEF P!vars
<1> QED
  BY <1>1, <1>2, <1>3, <1>4, <1>5, <1>6, <1>7, <1>8, <1>9, <1>10, <1>11, <1>12, <1>13
     DEF P!Next, P!Proceed

-----------------------------------------------------------------------------
(* What the three writers of the tables do to their concatenation.          *)

\* A move shifts the boundary between the tables.
LEMMA MoveConcat ==
    ASSUME NEW S, NEW d \in Seq(S), NEW w \in Seq(S), NEW q \in Seq(S)
    PROVE  d \o (w \o q) \o <<>> = d \o w \o q
<1>1. w \o q \in Seq(S) BY ConcatProperties
<1>2. d \o (w \o q) \in Seq(S) BY <1>1, ConcatProperties
<1>3. d \o (w \o q) = (d \o w) \o q BY ConcatAssociative
<1> QED BY <1>2, <1>3, ConcatEmptySeq

\* A prompt queued goes to the end.
LEMMA EnqueueConcat ==
    ASSUME NEW S, NEW b \in Seq(S), NEW q \in Seq(S), NEW e \in S
    PROVE  b \o Append(q, e) = Append(b \o q, e)
<1>1. b \o q \in Seq(S) /\ <<e>> \in Seq(S) BY ConcatProperties
<1>2. Append(q, e) = q \o <<e>> BY AppendIsConcat
<1>3. Append(b \o q, e) = (b \o q) \o <<e>> BY <1>1, AppendIsConcat
<1>4. b \o (q \o <<e>>) = (b \o q) \o <<e>> BY <1>1, ConcatAssociative
<1> QED BY <1>2, <1>3, <1>4

\* A prompt handed over leaves from the front.
LEMMA FlushConcat ==
    ASSUME NEW S, NEW d \in Seq(S), NEW w \in Seq(S), w # <<>>
    PROVE  Append(d, Head(w)) \o Tail(w) = d \o w
<1>1. Head(w) \in S /\ Tail(w) \in Seq(S) BY HeadTailProperties
<1>2. <<Head(w)>> \in Seq(S) BY <1>1
<1>3. w = <<Head(w)>> \o Tail(w)
  BY <1>1, <1>2, HeadTailProperties, ConcatProperties, SMT
<1>4. Append(d, Head(w)) = d \o <<Head(w)>> BY <1>1, AppendIsConcat
<1>5. (d \o <<Head(w)>>) \o Tail(w) = d \o (<<Head(w)>> \o Tail(w))
  BY <1>1, <1>2, ConcatAssociative
<1> QED BY <1>3, <1>4, <1>5

LEMMA PausedStepFifo ==
    ASSUME P!TypeOK, P!TriesPaid, P!PausedFifo, [P!Next]_P!vars
    PROVE  P!PausedFifo'
<1> USE DEF P!dbVars, P!handVars, P!PausedFifo
<1>t. /\ queue \in Seq(P!Callers) /\ wakes \in Seq(P!Callers)
      /\ delivered \in Seq(P!Callers) /\ delivered \o wakes \in Seq(P!Callers)
  BY ConcatProperties DEF P!TypeOK
<1> DEFINE Quiet == UNCHANGED <<queue, wakes, accepted, delivered>>
<1>1. ASSUME NEW t \in P!Threads, P!Move(t) PROVE P!PausedFifo'
  <2>1. wakes' = wakes \o queue /\ queue' = <<>>
    BY <1>1 DEF P!Move
  <2>2. UNCHANGED <<accepted, delivered>> BY <1>1 DEF P!Move
  <2>3. delivered \o (wakes \o queue) \o <<>> = delivered \o wakes \o queue
    <3>1. ASSUME NEW d \in Seq(P!Callers), NEW w \in Seq(P!Callers), NEW q \in Seq(P!Callers)
          PROVE  d \o (w \o q) \o <<>> = d \o w \o q
      BY ONLY <3>1, MoveConcat
    <3> QED BY <1>t, <3>1
  <2> QED BY <2>1, <2>2, <2>3
<1>2. ASSUME NEW t \in P!Threads, P!Enqueue(t) PROVE P!PausedFifo'
  <2>1. t \in P!Callers
    BY <1>2 DEF P!Enqueue, P!TypeOK, P!ServicePcs, P!CheckPcs, P!LaunchPcs
  <2>2. /\ queue' = Append(queue, t) /\ accepted' = Append(accepted, t)
        /\ UNCHANGED <<wakes, delivered>>
    BY <1>2 DEF P!Enqueue
  <2>3. (delivered \o wakes) \o Append(queue, t)
          = Append((delivered \o wakes) \o queue, t)
    BY <1>t, <2>1, EnqueueConcat
  <2> QED BY <2>2, <2>3
<1>3. CASE P!Ack
  <2>1. /\ delivered' = Append(delivered, Head(wakes)) /\ wakes' = Tail(wakes)
        /\ wakes # <<>> /\ UNCHANGED <<queue, accepted>>
    BY <1>3 DEF P!Ack, P!TriesPaid
  <2>2. Append(delivered, Head(wakes)) \o Tail(wakes) = delivered \o wakes
    BY <1>t, <2>1, FlushConcat
  <2> QED BY <2>1, <2>2
<1>4. ASSUME NEW t \in P!Threads, P!Call(t) \/ P!Ask(t) \/ P!GetPausedSession(t) PROVE Quiet
  BY <1>4 DEF P!Call, P!Ask, P!GetPausedSession
<1>5. ASSUME NEW t \in P!Threads, P!CheckLive(t) \/ P!MoveFails(t) \/ P!Clear(t) PROVE Quiet
  BY <1>5 DEF P!CheckLive, P!MoveFails, P!Clear
<1>6. ASSUME NEW t \in P!Threads, P!CallerRoutes(t) \/ P!EnqueueFails(t) \/ P!Launch(t) PROVE Quiet
  BY <1>6 DEF P!CallerRoutes, P!EnqueueFails, P!Launch
<1>7. ASSUME P!Stop \/ P!Mark PROVE Quiet
  BY <1>7 DEF P!Stop, P!Mark
<1>8. ASSUME P!Hook \/ P!PsExpires \/ P!SessionEnds \/ P!Restart PROVE Quiet
  BY <1>8 DEF P!Hook, P!PsExpires, P!SessionEnds, P!Restart
<1>11. ASSUME P!Paste \/ P!AckFails \/ P!FlushEnds PROVE Quiet
  BY <1>11 DEF P!Paste, P!AckFails, P!FlushEnds
<1>9. ASSUME UNCHANGED P!vars PROVE Quiet
  BY <1>9 DEF P!vars
<1>10. Quiet => P!PausedFifo'
  OBVIOUS
<1> QED
  BY <1>1, <1>2, <1>3, <1>4, <1>5, <1>6, <1>7, <1>8, <1>9, <1>10, <1>11
     DEF P!Next, P!Proceed

-----------------------------------------------------------------------------
LEMMA PausedAlwaysTyped ==
    ASSUME P!PausedSessionAssumption
    PROVE  P!Spec => [](P!TypeOK /\ P!TriesPaid)
<1>1. P!Init => P!TypeOK /\ P!TriesPaid
  <2>1. P!Init => flush = "off" /\ tries = 0 /\ pausedFaults = 0
    BY DEF P!Init
  <2>2. P!Init => P!TriesPaid
    BY ONLY <2>1 DEF P!TriesPaid
  <2> QED BY <2>2, PausedInitTyped
<1>2. P!TypeOK /\ P!TriesPaid /\ [P!Next]_P!vars => P!TypeOK' /\ P!TriesPaid'
  BY PausedStepTyped, PausedStepPaid
<1> QED BY <1>1, <1>2, PTL DEF P!Spec

\* Every variable of PausedSession keeps its type, whatever the callers, pauses and
\* faults.
THEOREM PausedTypeCorrect ==
    ASSUME P!PausedSessionAssumption
    PROVE  P!Spec => []P!TypeOK
  BY PausedAlwaysTyped, PTL

\* A prompt answered "Queued instruction" is in one of the two tables, or was
\* pasted and acked in the order of the answers (actions.go:416, the move of
\* paused_sessions.go): PausedFifo.
THEOREM QueuedPromptsKept ==
    ASSUME P!PausedSessionAssumption
    PROVE  P!Spec => []P!PausedFifo
<1>1. P!Init => P!PausedFifo
  <2> SUFFICES ASSUME P!Init PROVE <<>> = <<>> \o <<>> \o <<>>
    BY DEF P!Init, P!PausedFifo
  <2>1. <<>> \in Seq(P!Callers) OBVIOUS
  <2> QED BY <2>1, ConcatEmptySeq
<1>2. P!TypeOK /\ P!TriesPaid /\ P!PausedFifo /\ [P!Next]_P!vars => P!PausedFifo'
  BY PausedStepFifo
<1> QED BY <1>1, <1>2, PausedAlwaysTyped, PTL DEF P!Spec

-----------------------------------------------------------------------------
(* PausedSession implements HeldQueue.                                      *)

\* A thread that is over with its call stays over with it, and only an enqueue, by a
\* thread that is not, adds to the answers.
LEMMA PausedStepOnce ==
    ASSUME P!TypeOK, P!QueuedOnce, [P!Next]_P!vars
    PROVE  P!QueuedOnce'
<1> DEFINE Kept == /\ UNCHANGED accepted
                   /\ \A u \in P!Callers : pc[u] = "queued" => pc'[u] = "queued"
<1>t. pc \in [P!Threads -> P!CallerPcs \cup P!ServicePcs] /\ P!Callers \subseteq P!Threads
      /\ accepted \in Seq(P!Callers)
  BY DEF P!TypeOK, P!Threads
<1>k. Kept => P!QueuedOnce'
  BY DEF P!QueuedOnce
<1> USE DEF P!dbVars, P!handVars, P!Goto
<1>1. ASSUME NEW t \in P!Threads, P!Enqueue(t) PROVE P!QueuedOnce'
  <2>1. accepted' = Append(accepted, t) /\ pc' = [pc EXCEPT ![t] = "queued"]
    BY <1>1 DEF P!Enqueue
  <2>2. ASSUME NEW u \in P!Callers, NEW k \in DOMAIN accepted', accepted'[k] = u, u # t
        PROVE  pc'[u] = "queued"
    <3>1. k \in DOMAIN accepted /\ accepted[k] = u
      BY <1>t, <2>1, <2>2
    <3> QED BY <1>t, <2>1, <2>2, <3>1 DEF P!QueuedOnce
  <2>3. t \in P!Threads => pc'[t] = "queued"
    BY <1>t, <2>1
  <2> QED BY <1>1, <2>2, <2>3 DEF P!QueuedOnce
<1>2. ASSUME NEW t \in P!Threads, P!Call(t) \/ P!Ask(t) \/ P!GetPausedSession(t) PROVE Kept
  BY <1>2, <1>t DEF P!Call, P!Ask, P!GetPausedSession
<1>3. ASSUME NEW t \in P!Threads, P!CheckLive(t) \/ P!MoveFails(t) \/ P!Clear(t) PROVE Kept
  BY <1>3, <1>t DEF P!CheckLive, P!MoveFails, P!Clear
<1>4. ASSUME NEW t \in P!Threads, P!Move(t) \/ P!EnqueueFails(t) \/ P!Launch(t) PROVE Kept
  BY <1>4, <1>t DEF P!Move, P!EnqueueFails, P!Launch
<1>5. ASSUME NEW t \in P!Threads, P!CallerRoutes(t) PROVE Kept
  <2>1. UNCHANGED accepted /\ P!Route(t)
    BY <1>5 DEF P!CallerRoutes
  <2>2. CASE pc[t] = "queue" \/ ~P!Live
    BY <1>t, <2>1, <2>2 DEF P!Route
  <2>3. CASE P!Live
    BY <1>t, <2>1, <2>3 DEF P!Route
  <2> QED BY <2>2, <2>3
<1>6. ASSUME P!Stop \/ P!Mark PROVE Kept
  BY <1>6, <1>t DEF P!Stop, P!Mark, P!Threads
<1>7. ASSUME P!Hook \/ P!PsExpires \/ P!SessionEnds PROVE Kept
  BY <1>7 DEF P!Hook, P!PsExpires, P!SessionEnds
<1>10. ASSUME P!Paste \/ P!Ack \/ P!AckFails \/ P!FlushEnds PROVE Kept
  BY <1>10 DEF P!Paste, P!Ack, P!AckFails, P!FlushEnds
<1>8. CASE P!Restart
  <2>1. ASSUME NEW u \in P!Callers, pc[u] = "queued" PROVE pc'[u] = "queued"
    BY <1>8, <1>t, <2>1 DEF P!Restart
  <2> QED BY <1>8, <1>k, <2>1 DEF P!Restart
<1>9. ASSUME UNCHANGED P!vars PROVE Kept
  BY <1>9 DEF P!vars
<1> QED
  BY <1>k, <1>1, <1>2, <1>3, <1>4, <1>5, <1>6, <1>7, <1>8, <1>9, <1>10
     DEF P!Next, P!Proceed

\* What the oldest of two tables is, and what is left without it.
LEMMA HeadOfBoth ==
    ASSUME NEW S, NEW w \in Seq(S), NEW q \in Seq(S), w # <<>>
    PROVE  /\ w \o q # <<>>
           /\ Head(w \o q) = Head(w)
           /\ Tail(w \o q) = Tail(w) \o q
<1>1. /\ w \o q \in Seq(S) /\ Len(w) \in Nat \ {0} /\ Tail(w) \in Seq(S)
      /\ Len(w \o q) = Len(w) + Len(q) /\ Len(q) \in Nat
  BY ConcatProperties, HeadTailProperties, LenProperties, EmptySeq
<1>2. w \o q # <<>> /\ Head(w \o q) = Head(w)
  BY <1>1, ConcatProperties
<1>3. Tail(w \o q) \in Seq(S) /\ Tail(w) \o q \in Seq(S)
  BY <1>1, <1>2, ConcatProperties, HeadTailProperties
<1>4. Len(Tail(w \o q)) = Len(Tail(w) \o q)
  BY <1>1, <1>2, ConcatProperties, HeadTailProperties
<1>5. ASSUME NEW k \in 1..Len(Tail(w) \o q)
      PROVE  Tail(w \o q)[k] = (Tail(w) \o q)[k]
  BY <1>1, <1>2, <1>4, <1>5
<1> QED BY <1>2, <1>3, <1>4, <1>5, SeqEqual

\* Every step of PausedSession is a step of the queue or none of its business; one
\* that fails is a mishap of the queue.
LEMMA PausedStepQueue ==
    ASSUME P!PausedSessionAssumption, P!TypeOK, P!TriesPaid, P!QueuedOnce, [P!Next]_P!vars
    PROVE  [P!HeldPrompts!Next]_P!HeldPrompts!vars
<1> DEFINE Goal == [P!HeldPrompts!Next]_P!HeldPrompts!vars
           Quiet == /\ UNCHANGED <<queue, wakes, accepted, tries, delivered>>
                    /\ P!Fault \/ UNCHANGED pausedFaults
<1>t. queue \in Seq(P!Callers) /\ wakes \in Seq(P!Callers) /\ tries \in Nat
      /\ pausedFaults \in Nat
  BY DEF P!TypeOK, P!PausedSessionAssumption
<1>q. ASSUME Quiet PROVE Goal
  <2>1. CASE P!Fault
    <3>1. P!HeldPrompts!Mishap
      BY <1>q, <2>1 DEF P!Fault, P!HeldPrompts!Mishap
    <3> QED BY <3>1 DEF P!HeldPrompts!Next
  <2>2. CASE UNCHANGED pausedFaults
    BY <1>q, <2>2 DEF P!HeldPrompts!vars
  <2> QED BY <1>q, <2>1, <2>2
<1> USE DEF P!dbVars, P!boundVars, P!handVars
<1>1. ASSUME NEW t \in P!Threads, P!Move(t) PROVE Goal
  <2>1. /\ wakes' = wakes \o queue /\ queue' = <<>>
        /\ UNCHANGED <<accepted, tries, delivered, pausedFaults>>
    BY <1>1 DEF P!Move
  <2>2. (wakes \o queue) \o <<>> = wakes \o queue
    BY <1>t, ConcatProperties, ConcatEmptySeq
  <2>3. wakes' \o queue' = wakes \o queue
    BY <2>1, <2>2
  <2> QED BY <2>1, <2>3 DEF P!HeldPrompts!vars
<1>2. ASSUME NEW t \in P!Threads, P!Enqueue(t) PROVE Goal
  <2>1. t \in P!Callers /\ pc[t] = "queue"
    BY <1>2 DEF P!Enqueue, P!TypeOK, P!ServicePcs, P!CheckPcs, P!LaunchPcs
  <2>2. /\ queue' = Append(queue, t) /\ accepted' = Append(accepted, t)
        /\ UNCHANGED <<wakes, tries, delivered, pausedFaults>>
    BY <1>2 DEF P!Enqueue
  <2>3. wakes' \o queue' = Append(wakes \o queue, t)
    BY <1>t, <2>1, <2>2, EnqueueConcat
  <2>4. ~P!HeldPrompts!Accepted(t)
    BY <2>1 DEF P!QueuedOnce, P!HeldPrompts!Accepted
  <2>5. P!HeldPrompts!Put(t)
    BY <2>2, <2>3, <2>4 DEF P!HeldPrompts!Put
  <2> QED BY <2>1, <2>5 DEF P!HeldPrompts!Next
<1>3. CASE P!Paste
  <2>1. wakes # <<>> /\ tries <= pausedFaults /\ tries' = tries + 1
        /\ UNCHANGED <<queue, wakes, accepted, delivered, pausedFaults>>
    BY <1>3 DEF P!Paste, P!TriesPaid
  <2>2. wakes \o queue # <<>>
    BY <1>t, <2>1, HeadOfBoth
  <2>3. P!HeldPrompts!HandOver
    BY <2>1, <2>2 DEF P!HeldPrompts!HandOver
  <2> QED BY <2>3 DEF P!HeldPrompts!Next
<1>11. CASE P!Ack
  <2>1. /\ wakes # <<>> /\ tries > 0 /\ tries' = 0
        /\ delivered' = Append(delivered, Head(wakes)) /\ wakes' = Tail(wakes)
        /\ UNCHANGED <<queue, accepted, pausedFaults>>
    BY <1>11, <1>t DEF P!Ack, P!TriesPaid
  <2>2. /\ wakes \o queue # <<>> /\ Head(wakes \o queue) = Head(wakes)
        /\ Tail(wakes \o queue) = Tail(wakes) \o queue
    BY <1>t, <2>1, HeadOfBoth
  <2>3. P!HeldPrompts!Take
    BY <2>1, <2>2 DEF P!HeldPrompts!Take
  <2> QED BY <2>3 DEF P!HeldPrompts!Next
<1>4. ASSUME NEW t \in P!Threads, P!Call(t) \/ P!Ask(t) \/ P!GetPausedSession(t) PROVE Quiet
  BY <1>4 DEF P!Call, P!Ask, P!GetPausedSession
<1>5. ASSUME NEW t \in P!Threads, P!CheckLive(t) \/ P!MoveFails(t) \/ P!Clear(t) PROVE Quiet
  BY <1>5 DEF P!CheckLive, P!MoveFails, P!Clear
<1>6. ASSUME NEW t \in P!Threads, P!CallerRoutes(t) \/ P!EnqueueFails(t) \/ P!Launch(t)
      PROVE Quiet
  BY <1>6 DEF P!CallerRoutes, P!EnqueueFails, P!Launch
<1>7. ASSUME P!Stop \/ P!Mark PROVE Quiet
  BY <1>7 DEF P!Stop, P!Mark
<1>8. ASSUME P!Hook \/ P!PsExpires \/ P!SessionEnds \/ P!Restart PROVE Quiet
  BY <1>8 DEF P!Hook, P!PsExpires, P!SessionEnds, P!Restart
<1>12. ASSUME P!AckFails \/ P!FlushEnds PROVE Quiet
  BY <1>12 DEF P!AckFails, P!FlushEnds
<1>9. ASSUME UNCHANGED P!vars PROVE Quiet
  BY <1>9 DEF P!vars
<1> QED
  BY <1>q, <1>1, <1>2, <1>3, <1>4, <1>5, <1>6, <1>7, <1>8, <1>9, <1>11, <1>12
     DEF P!Next, P!Proceed

LEMMA AlwaysQueuedOnce ==
    ASSUME P!PausedSessionAssumption
    PROVE  P!Spec => []P!QueuedOnce
<1>1. P!Init => P!QueuedOnce
  BY DEF P!Init, P!QueuedOnce
<1>2. P!TypeOK /\ P!QueuedOnce /\ [P!Next]_P!vars => P!QueuedOnce'
  BY PausedStepOnce
<1> QED BY <1>1, <1>2, PausedAlwaysTyped, PTL DEF P!Spec

\* The paused row, its queue, the table the queue is moved to and the flush of that
\* table implement the abstract queue HeldQueue, whatever pauses, launches, polls,
\* failed writes and restarts do: ImplementsQueue.  (enqueuePausedSessionInput,
\* MovePausedSessionInputsToPendingWakes, flushWakes.)
THEOREM TablesAreOneQueue ==
    ASSUME P!PausedSessionAssumption
    PROVE  P!Spec => P!ImplementsQueue
<1>1. P!Init => P!HeldPrompts!Init
  <2> SUFFICES ASSUME P!Init PROVE <<>> \o <<>> = <<>>
    BY DEF P!Init, P!HeldPrompts!Init
  <2>1. <<>> \in Seq(P!Callers) OBVIOUS
  <2> QED BY <2>1, ConcatEmptySeq
<1>2. P!TypeOK /\ P!TriesPaid /\ P!QueuedOnce /\ [P!Next]_P!vars
      => [P!HeldPrompts!Next]_P!HeldPrompts!vars
  BY PausedStepQueue
<1> QED
  BY <1>1, <1>2, PausedAlwaysTyped, AlwaysQueuedOnce, PTL
     DEF P!Spec, P!ImplementsQueue, P!HeldPrompts!Spec

-----------------------------------------------------------------------------
(* What the abstract queue promises, and so the tables.                     *)

\* What is appended to a sequence without it is in it once, like the rest.
LEMMA AppendOnce ==
    ASSUME NEW S, NEW q \in Seq(S), NEW e \in S,
           \A j, k \in DOMAIN q : q[j] = q[k] => j = k,
           \A k \in DOMAIN q : q[k] # e
    PROVE  \A j, k \in DOMAIN Append(q, e) : Append(q, e)[j] = Append(q, e)[k] => j = k
<1> DEFINE r == Append(q, e)
           n == Len(q) + 1
<1>1. /\ DOMAIN q = 1..Len(q) /\ Len(q) \in Nat
      /\ DOMAIN r = 1..n /\ r[n] = e /\ \A k \in 1..Len(q) : r[k] = q[k]
  BY AppendProperties, LenProperties
<1>2. \A k \in DOMAIN r : k = n \/ k \in DOMAIN q
  BY <1>1
<1> SUFFICES ASSUME NEW j \in DOMAIN r, NEW k \in DOMAIN r, r[j] = r[k] PROVE j = k
  OBVIOUS
<1> HIDE DEF r
<1>3. CASE j \in DOMAIN q /\ k \in DOMAIN q
  BY <1>1, <1>3
<1>4. CASE j = n /\ k \in DOMAIN q
  BY <1>1, <1>4
<1>5. CASE j \in DOMAIN q /\ k = n
  BY <1>1, <1>5
<1> QED BY <1>2, <1>3, <1>4, <1>5

\* What the abstract queue is done with it was given, in order, and once; what it
\* hands over a further time is paid for by a mishap.
LEMMA QueuePromises ==
    P!HeldPrompts!Spec => [](/\ P!HeldPrompts!InOrder /\ P!HeldPrompts!TakenOnce
                             /\ P!HeldPrompts!RepeatsPaid)
<1> DEFINE held == wakes \o queue
           Once == \A j, k \in DOMAIN accepted : accepted[j] = accepted[k] => j = k
           QInv == /\ accepted \in Seq(P!Callers) /\ held \in Seq(P!Callers)
                   /\ delivered \in Seq(P!Callers)
                   /\ tries \in Nat /\ pausedFaults \in Nat /\ P!HeldPrompts!RepeatsPaid
                   /\ P!HeldPrompts!InOrder /\ Once
<1> USE DEF P!HeldPrompts!InOrder, P!HeldPrompts!RepeatsPaid
<1>1. P!HeldPrompts!Init => QInv
  <2> SUFFICES ASSUME P!HeldPrompts!Init PROVE QInv
    OBVIOUS
  <2>1. accepted = <<>> /\ held = <<>> /\ delivered = <<>> /\ tries = 0 /\ pausedFaults = 0
    BY DEF P!HeldPrompts!Init
  <2>2. <<>> \in Seq(P!Callers) /\ <<>> \o <<>> = <<>>
    BY EmptySeq, ConcatEmptySeq
  <2> QED BY <2>1, <2>2
<1>2. QInv /\ [P!HeldPrompts!Next]_P!HeldPrompts!vars => QInv'
  <2> SUFFICES ASSUME QInv, [P!HeldPrompts!Next]_P!HeldPrompts!vars PROVE QInv'
    OBVIOUS
  <2>1. ASSUME NEW i \in P!Callers, P!HeldPrompts!Put(i) PROVE QInv'
    <3>1. /\ accepted' = Append(accepted, i) /\ held' = Append(held, i)
          /\ delivered' = delivered /\ tries' = tries /\ pausedFaults' = pausedFaults
          /\ \A k \in DOMAIN accepted : accepted[k] # i
      BY <2>1 DEF P!HeldPrompts!Put, P!HeldPrompts!Accepted
    <3>2. delivered \o Append(held, i) = Append(delivered \o held, i)
      BY EnqueueConcat
    <3>3. /\ accepted' \in Seq(P!Callers) /\ held' \in Seq(P!Callers)
          /\ delivered' \in Seq(P!Callers)
      BY <3>1, AppendProperties
    <3>4. Once'
      <4>1. accepted \in Seq(P!Callers) /\ accepted' = Append(accepted, i) /\ Once
            /\ \A k \in DOMAIN accepted : accepted[k] # i
        BY <3>1
      <4> QED BY ONLY <4>1, AppendOnce
    <3>5. P!HeldPrompts!InOrder'
      BY <3>1, <3>2
    <3> QED BY <3>1, <3>3, <3>4, <3>5
  <2>2. CASE P!HeldPrompts!Take
    <3>1. /\ held # <<>> /\ held' = Tail(held) /\ accepted' = accepted
          /\ delivered' = Append(delivered, Head(held)) /\ tries' = 0
          /\ pausedFaults' = pausedFaults
      BY <2>2 DEF P!HeldPrompts!Take
    <3>2. Append(delivered, Head(held)) \o Tail(held) = delivered \o held
      BY <3>1, FlushConcat
    <3>3. Head(held) \in P!Callers /\ Tail(held) \in Seq(P!Callers)
      BY <3>1, HeadTailProperties
    <3>4. delivered' \in Seq(P!Callers)
      BY <3>1, <3>3, AppendProperties
    <3>5. P!HeldPrompts!InOrder'
      BY <3>1, <3>2
    <3>6. P!HeldPrompts!RepeatsPaid'
      BY <3>1
    <3> QED BY <3>1, <3>3, <3>4, <3>5, <3>6
  <2>3. CASE P!HeldPrompts!HandOver \/ P!HeldPrompts!Mishap
    <3>1. UNCHANGED <<accepted, held, delivered>>
      BY <2>3 DEF P!HeldPrompts!HandOver, P!HeldPrompts!Mishap
    <3>2. tries' \in Nat /\ pausedFaults' \in Nat /\ P!HeldPrompts!RepeatsPaid'
      BY <2>3 DEF P!HeldPrompts!HandOver, P!HeldPrompts!Mishap
    <3> QED BY <3>1, <3>2
  <2>4. CASE UNCHANGED P!HeldPrompts!vars
    BY <2>4 DEF P!HeldPrompts!vars
  <2> QED BY <2>1, <2>2, <2>3, <2>4 DEF P!HeldPrompts!Next
<1>3. QInv => /\ P!HeldPrompts!InOrder /\ P!HeldPrompts!TakenOnce
              /\ P!HeldPrompts!RepeatsPaid
  <2> SUFFICES ASSUME QInv, NEW j \in DOMAIN delivered, NEW k \in DOMAIN delivered,
                      delivered[j] = delivered[k]
               PROVE  j = k
    BY DEF P!HeldPrompts!TakenOnce
  <2>1. accepted = delivered \o held
    OBVIOUS
  <2>2. \A n \in DOMAIN delivered : n \in DOMAIN accepted /\ accepted[n] = delivered[n]
    BY <2>1, ConcatProperties, LenProperties
  <2> QED BY <2>2
<1> QED BY <1>1, <1>2, <1>3, PTL DEF P!HeldPrompts!Spec

\* A prompt held back by a pause leaves the tables once, and before it does it is
\* pasted at most once more than there were crashes and failed calls: between its
\* paste and its ack (terminal_wake.go:385-388) the row is still the oldest.
THEOREM RepeatsPaidFor ==
    ASSUME P!PausedSessionAssumption
    PROVE  P!Spec => [](P!HeldPrompts!TakenOnce /\ P!HeldPrompts!RepeatsPaid)
  BY TablesAreOneQueue, QueuePromises, PTL DEF P!ImplementsQueue
=============================================================================
