---------------------------- MODULE WakeQueueProofs ----------------------------
(***************************************************************************)
(* Proofs about WakeQueue, for any set of prompts and of flush goroutines, *)
(* any clock bound and any number of faults.                               *)
(***************************************************************************)
EXTENDS WakeQueue, TLAPS

\* A spawned goroutine or timer leaves the flush variables in their types.
LEMMA SpawnTyped ==
    ASSUME TypeOK, NEW pc \in FlusherPcs, NEW t \in 0 .. MaxTime, Spawn(pc, t)
    PROVE  fpc' \in [Flushers -> FlusherPcs] /\ fat' \in [Flushers -> 0 .. MaxTime]
BY DEF TypeOK, Spawn

\* A fault is counted once, and within the bound.
LEMMA FaultCounted ==
    ASSUME TypeOK, Fault PROVE faults' \in 0 .. MaxFaults /\ faults' = faults + 1
BY WakeQueueAssumption DEF TypeOK, Fault

\* attach spawns at most one waiter, and counts a failed read.
LEMMA AttachFlushesTyped ==
    ASSUME TypeOK, AttachFlushes
    PROVE  /\ fpc' \in [Flushers -> FlusherPcs] /\ fat' \in [Flushers -> 0 .. MaxTime]
           /\ flushing' = flushing /\ fhead' = fhead
           /\ faults' \in 0 .. MaxFaults /\ faults' >= faults
<1>1. "wait" \in FlusherPcs /\ 0 \in 0 .. MaxTime
  BY WakeQueueAssumption DEF FlusherPcs
<1>2. faults' \in 0 .. MaxFaults /\ faults' >= faults
  BY FaultCounted DEF AttachFlushes, TypeOK
<1> QED BY <1>1, <1>2, SpawnTyped DEF AttachFlushes, SpawnFlush, flushVars, TypeOK

\* So does a read of the gate.
LEMMA AsksCounted ==
    ASSUME TypeOK, NEW t \in Flushers \cup Wakes, NEW answer, AsksAwaiting(t, answer)
    PROVE  /\ faults' \in 0 .. MaxFaults /\ faults' >= faults
           /\ late' \subseteq Flushers \cup Wakes
BY FaultCounted DEF AsksAwaiting, TypeOK

LEMMA InitTypeOK == Init => TypeOK
<1> SUFFICES ASSUME Init PROVE TypeOK
  OBVIOUS
<1>1. booted \in BOOLEAN
  <2>1. booted = (session # "none") BY DEF Init
  <2> QED BY <2>1
<1>2. fpc \in [Flushers -> FlusherPcs] /\ wpc \in [Wakes -> CallerPcs]
  BY DEF Init, FlusherPcs, CallerPcs
<1>3. /\ rowId \in [Wakes -> Nat]
      /\ notBefore \in [Wakes -> 0 .. MaxTime]
      /\ fat \in [Flushers -> 0 .. MaxTime]
      /\ flushed \in [Wakes -> Nat]
      /\ fhead \in [Flushers -> Wakes \cup {NoWake}]
  BY WakeQueueAssumption DEF Init
<1>4. /\ now \in 0 .. MaxTime
      /\ faults \in 0 .. MaxFaults
      /\ lastId \in Nat
      /\ nextId \in Nat \ {0}
      /\ session \in {"none", "tmux", "pty"}
  BY WakeQueueAssumption DEF Init
<1>5. flushing \in BOOLEAN /\ awaiting \in BOOLEAN /\ draft \in BOOLEAN
  BY DEF Init
<1>6. rows \subseteq Wakes /\ late \subseteq Flushers \cup Wakes
  BY DEF Init
<1> QED BY <1>1, <1>2, <1>3, <1>4, <1>5, <1>6 DEF TypeOK

\* Every step keeps every variable in its type.
LEMMA NextTypeOK == TypeOK /\ CarriesOldest /\ [Next]_vars => TypeOK'
<1> SUFFICES ASSUME TypeOK, CarriesOldest, [Next]_vars PROVE TypeOK'
  OBVIOUS
<1> USE WakeQueueAssumption DEF TypeOK, FlusherPcs, CallerPcs
<1> USE DEF tableVars, flushVars, sessionVars, historyVars
<1>1. ASSUME NEW w \in Wakes, Arrive(w) PROVE TypeOK'
  <2>1. CASE Nudge(w) BY <2>1 DEF Nudge, CallerGoes
  <2>2. CASE PushHeld(w) BY <2>2 DEF PushHeld, CallerGoes, Insert
  <2> QED BY <1>1, <2>1, <2>2 DEF Arrive
<1>2. ASSUME NEW w \in Wakes, Proceed(w) PROVE TypeOK'
  <2>1. CASE CheckDraft(w) BY <2>1 DEF CheckDraft, CallerGoes
  <2>2. CASE CheckAwaiting(w) BY <2>2, AsksCounted DEF CheckAwaiting, CallerGoes
  <2>3. CASE Push(w) BY <2>3 DEF Push, CallerGoes, Insert
  <2>4. CASE PushFails(w) BY <2>4, FaultCounted DEF PushFails, CallerGoes
  <2>5. CASE InjectShared(w) BY <2>5 DEF InjectShared, CallerGoes
  <2>6. CASE Inject(w) BY <2>6 DEF Inject, CallerGoes
  <2>7. CASE InjectReattach(w)
    <3>1. AttachFlushes
      BY <2>7 DEF InjectReattach
    <3> QED BY <2>7, <3>1, AttachFlushesTyped DEF InjectReattach, CallerGoes, Attach
  <2>8. CASE InjectFails(w) BY <2>8 DEF InjectFails, CallerGoes
  <2>9. CASE ArmTimer(w) BY <2>9 DEF ArmTimer, CallerGoes, SpawnFlush, Spawn
  <2> QED BY <1>2, <2>1, <2>2, <2>3, <2>4, <2>5, <2>6, <2>7, <2>8, <2>9 DEF Proceed
<1>3. ASSUME NEW f \in Flushers, Flush(f) PROVE TypeOK'
  <2> USE DEF Step, Goes, NothingElse
  <2>1. CASE WaitReady(f) BY <2>1 DEF WaitReady
  <2>2. CASE FireTimer(f) BY <2>2 DEF FireTimer
  <2>3. CASE Has(f) BY <2>3 DEF Has
  <2>4. CASE BeginFlush(f)
    <3>1. PICK pc \in {"off", "draft1"} : fpc' = [fpc EXCEPT ![f] = pc]
      BY <2>4 DEF BeginFlush
    <3>2. fpc' \in [Flushers -> FlusherPcs]
      BY <3>1
    <3>3. flushing' \in BOOLEAN
      BY <2>4 DEF BeginFlush
    <3> QED BY <2>4, <3>2, <3>3 DEF BeginFlush
  <2>5. CASE GateDraft(f) BY <2>5 DEF GateDraft
  <2>6. CASE GateAwaiting(f) BY <2>6, AsksCounted DEF GateAwaiting
  <2>7. CASE PeekNone(f) \/ ReadFails(f) BY <2>7, FaultCounted DEF PeekNone, ReadFails
  <2>8. CASE PeekReady(f) BY <2>8 DEF PeekReady, Carry
  <2>9. CASE PeekHeld(f) BY <2>9 DEF PeekHeld
  <2>10. CASE Route(f) BY <2>10 DEF Route
  <2>11. CASE Deliver(f)
    <3>1. fpc[f] \in Carrying
      BY <2>11 DEF Deliver, Carrying
    <3>2. fhead[f] \in Wakes
      BY <3>1 DEF CarriesOldest, Oldest
    <3> QED BY <2>11, <3>2 DEF Deliver, HandOver
  <2>12. CASE Reattach(f)
    <3>1. fpc' \in [Flushers -> FlusherPcs] /\ session' \in {"none", "tmux", "pty"}
      BY <2>12 DEF Reattach, Attach, Running
    <3>2. faults' \in 0 .. MaxFaults
      BY <2>12, FaultCounted DEF Reattach
    <3> QED BY <2>12, <3>1, <3>2 DEF Reattach, Attach
  <2>13. CASE Undelivered(f) BY <2>13 DEF Undelivered
  <2>14. CASE Ack(f) BY <2>14 DEF Ack, Acked
  <2>15. CASE AckFails(f) BY <2>15, FaultCounted DEF AckFails, Acked
  <2>16. CASE Gap(f) BY <2>16 DEF Gap
  <2>17. CASE EndFlush(f) BY <2>17 DEF EndFlush
  <2> QED BY <1>3, <2>1, <2>2, <2>3, <2>4, <2>5, <2>6, <2>7, <2>8, <2>9, <2>10,
             <2>11, <2>12, <2>13, <2>14, <2>15, <2>16, <2>17 DEF Flush
<1>4. CASE Environment
  <2>1. CASE AgentAsks BY <2>1 DEF AgentAsks
  <2>2. CASE AgentMoves
    <3>1. fpc' \in [Flushers -> FlusherPcs] /\ fat' \in [Flushers -> 0 .. MaxTime]
      BY <2>2, SpawnTyped DEF AgentMoves, SpawnFlush
    <3>2. awaiting' \in BOOLEAN
      BY <2>2 DEF AgentMoves
    <3> QED BY <2>2, <3>1, <3>2 DEF AgentMoves, SpawnFlush
  <2>3. CASE OperatorTypes BY <2>3 DEF OperatorTypes
  <2>4. CASE OperatorClears
    <3>1. fpc' \in [Flushers -> FlusherPcs] /\ fat' \in [Flushers -> 0 .. MaxTime]
      BY <2>4, SpawnTyped DEF OperatorClears, SpawnFlush
    <3> QED BY <2>4, <3>1 DEF OperatorClears, SpawnFlush
  <2>5. CASE BrowserAttaches
    <3>1. AttachFlushes
      BY <2>5 DEF BrowserAttaches
    <3> QED BY <2>5, <3>1, AttachFlushesTyped DEF BrowserAttaches, Attach
  <2>6. CASE AgentBoots BY <2>6 DEF AgentBoots
  <2>7. CASE SessionEnds BY <2>7 DEF SessionEnds
  <2>8. CASE Tick BY <2>8 DEF Tick
  <2>9. CASE Restart
    <3>1. PICK f \in Flushers, found \in BOOLEAN :
            fpc' = [g \in Flushers |->
                      IF g = f /\ found /\ rows # {} THEN "has" ELSE "off"]
      BY <2>9 DEF Restart
    <3>2. fpc' \in [Flushers -> FlusherPcs]
      BY <3>1
    <3>3. wpc' \in [Wakes -> CallerPcs]
      BY <2>9 DEF Restart, Returned
    <3>4. fat' \in [Flushers -> 0 .. MaxTime]
      BY <2>9 DEF Restart
    <3>5. fhead' \in [Flushers -> Wakes \cup {NoWake}]
      BY <2>9 DEF Restart
    <3>6. faults' \in 0 .. MaxFaults
      BY <2>9, FaultCounted DEF Restart
    <3>7. session' \in {"none", "tmux", "pty"}
      BY <2>9 DEF Restart
    <3>8. flushing' = FALSE /\ draft' = FALSE /\ late' = {}
      BY <2>9 DEF Restart
    <3> QED BY <2>9, <3>2, <3>3, <3>4, <3>5, <3>6, <3>7, <3>8 DEF Restart
  <2> QED BY <1>4, <2>1, <2>2, <2>3, <2>4, <2>5, <2>6, <2>7, <2>8, <2>9 DEF Environment
<1>5. CASE UNCHANGED vars BY <1>5 DEF vars
<1> QED BY <1>1, <1>2, <1>3, <1>4, <1>5 DEF Next, Caller

-----------------------------------------------------------------------------
(* What a step can do to the table, the guard and the counters.  Most steps   *)
(* are Quiet: they leave the table, the carried rows and the history alone    *)
(* and no goroutine enters or leaves the flush.                               *)

Registered == {"arm", "buffered"}

Quiet ==
    /\ UNCHANGED <<rows, rowId, notBefore, nextId, flushing, fhead, flushed, lastId>>
    /\ \A g \in Flushers :
          /\ fpc'[g] \in Owning <=> fpc[g] \in Owning
          /\ fpc'[g] \in Carrying => fpc[g] \in Carrying
          /\ fpc'[g] = "ack" <=> fpc[g] = "ack"
    /\ \A w \in Wakes : wpc'[w] \in Registered <=> wpc[w] \in Registered
    /\ now' >= now
    /\ faults' >= faults

\* A caller's prompt gets its row.
Register(w) ==
    /\ wpc[w] \notin Registered
    /\ \E t \in Nat : Insert(w, t)
    /\ \E pc \in Registered : wpc' = [wpc EXCEPT ![w] = pc]
    /\ UNCHANGED <<flushing, fpc, fhead, now, flushed, lastId, faults>>

LEMMA SpawnQuiet ==
    ASSUME TypeOK, NEW pc \in {"wait", "timer", "has"}, NEW t, Spawn(pc, t)
    PROVE  \A g \in Flushers :
             /\ fpc'[g] \in Owning <=> fpc[g] \in Owning
             /\ fpc'[g] \in Carrying => fpc[g] \in Carrying
             /\ fpc'[g] = "ack" <=> fpc[g] = "ack"
BY DEF TypeOK, Spawn, Owning, Carrying

LEMMA CallerEffect ==
    ASSUME TypeOK, NEW w \in Wakes, Caller(w) PROVE Quiet \/ Register(w)
<1> USE DEF TypeOK, tableVars, flushVars, sessionVars, historyVars, CallerGoes, Registered
<1>1. CASE Nudge(w) BY <1>1 DEF Nudge, Quiet
<1>2. CASE PushHeld(w)
  <2>1. PICK t \in (now + 1) .. MaxTime : Insert(w, t)
    BY <1>2 DEF PushHeld
  <2>2. t \in Nat
    BY <2>1, WakeQueueAssumption
  <2> QED BY <1>2, <2>1, <2>2 DEF PushHeld, Register
<1>3. CASE CheckDraft(w) BY <1>3 DEF CheckDraft, Quiet
<1>4. CASE CheckAwaiting(w) BY <1>4, AsksCounted DEF CheckAwaiting, Quiet
<1>5. CASE Push(w)
  <2>1. Insert(w, 0) BY <1>5 DEF Push
  <2> QED BY <1>5, <2>1 DEF Push, Register
<1>6. CASE PushFails(w) BY <1>6, FaultCounted DEF PushFails, Quiet
<1>7. CASE InjectShared(w) BY <1>7 DEF InjectShared, Quiet
<1>8. CASE Inject(w) BY <1>8 DEF Inject, Quiet
<1>9. CASE InjectReattach(w)
  <2>1. \A g \in Flushers : /\ fpc'[g] \in Owning <=> fpc[g] \in Owning
                            /\ fpc'[g] \in Carrying => fpc[g] \in Carrying
                            /\ fpc'[g] = "ack" <=> fpc[g] = "ack"
    BY <1>9, SpawnQuiet DEF InjectReattach, AttachFlushes, SpawnFlush
  <2>2. AttachFlushes
    BY <1>9 DEF InjectReattach
  <2> QED BY <1>9, <2>1, <2>2, AttachFlushesTyped DEF InjectReattach, Quiet
<1>10. CASE InjectFails(w) BY <1>10 DEF InjectFails, Quiet
<1>11. CASE ArmTimer(w)
  <2>1. \A g \in Flushers : /\ fpc'[g] \in Owning <=> fpc[g] \in Owning
                            /\ fpc'[g] \in Carrying => fpc[g] \in Carrying
                            /\ fpc'[g] = "ack" <=> fpc[g] = "ack"
    BY <1>11, SpawnQuiet DEF ArmTimer, SpawnFlush
  <2> QED BY <1>11, <2>1 DEF ArmTimer, SpawnFlush, Quiet
<1> QED BY <1>1, <1>2, <1>3, <1>4, <1>5, <1>6, <1>7, <1>8, <1>9, <1>10, <1>11
        DEF Caller, Arrive, Proceed

\* The flush steps that matter to the invariants; the others are Quiet.
LEMMA FlushEffect ==
    ASSUME TypeOK, NEW f \in Flushers, Flush(f)
    PROVE  \/ Quiet
           \/ BeginFlush(f) /\ ~flushing
           \/ PeekReady(f) \/ Deliver(f) \/ Ack(f) \/ AckFails(f) \/ EndFlush(f)
<1> USE DEF TypeOK, tableVars, flushVars, sessionVars, historyVars, Registered,
            Step, Goes, NothingElse, Owning, Carrying
<1>1. CASE WaitReady(f) BY <1>1 DEF WaitReady, Quiet
<1>2. CASE FireTimer(f) BY <1>2 DEF FireTimer, Quiet
<1>3. CASE Has(f) BY <1>3 DEF Has, Quiet
<1>4. CASE BeginFlush(f) /\ flushing BY <1>4 DEF BeginFlush, Quiet
<1>5. CASE GateDraft(f) BY <1>5 DEF GateDraft, Quiet
<1>6. CASE GateAwaiting(f) BY <1>6, AsksCounted DEF GateAwaiting, Quiet
<1>7. CASE PeekNone(f) \/ ReadFails(f)
  BY <1>7, FaultCounted DEF PeekNone, ReadFails, Quiet
<1>8. CASE PeekHeld(f) BY <1>8 DEF PeekHeld, Quiet
<1>9. CASE Route(f) BY <1>9 DEF Route, Quiet
<1>10. CASE Reattach(f) BY <1>10, FaultCounted DEF Reattach, Quiet
<1>11. CASE Undelivered(f) BY <1>11 DEF Undelivered, Quiet
<1>12. CASE Gap(f) BY <1>12 DEF Gap, Quiet
<1> QED BY <1>1, <1>2, <1>3, <1>4, <1>5, <1>6, <1>7, <1>8, <1>9, <1>10, <1>11,
           <1>12 DEF Flush

LEMMA EnvironmentEffect ==
    ASSUME TypeOK, Environment PROVE Quiet \/ Restart
<1> USE DEF TypeOK, tableVars, flushVars, sessionVars, historyVars
<1>1. CASE AgentAsks BY <1>1 DEF AgentAsks, Quiet
<1>2. CASE AgentMoves
  <2>1. \A g \in Flushers : /\ fpc'[g] \in Owning <=> fpc[g] \in Owning
                            /\ fpc'[g] \in Carrying => fpc[g] \in Carrying
                            /\ fpc'[g] = "ack" <=> fpc[g] = "ack"
    BY <1>2, SpawnQuiet DEF AgentMoves, SpawnFlush
  <2> QED BY <1>2, <2>1 DEF AgentMoves, SpawnFlush, Quiet
<1>3. CASE OperatorTypes BY <1>3 DEF OperatorTypes, Quiet
<1>4. CASE OperatorClears
  <2>1. \A g \in Flushers : /\ fpc'[g] \in Owning <=> fpc[g] \in Owning
                            /\ fpc'[g] \in Carrying => fpc[g] \in Carrying
                            /\ fpc'[g] = "ack" <=> fpc[g] = "ack"
    BY <1>4, SpawnQuiet DEF OperatorClears, SpawnFlush
  <2> QED BY <1>4, <2>1 DEF OperatorClears, SpawnFlush, Quiet
<1>5. CASE BrowserAttaches
  <2>1. \A g \in Flushers : /\ fpc'[g] \in Owning <=> fpc[g] \in Owning
                            /\ fpc'[g] \in Carrying => fpc[g] \in Carrying
                            /\ fpc'[g] = "ack" <=> fpc[g] = "ack"
    BY <1>5, SpawnQuiet DEF BrowserAttaches, AttachFlushes, SpawnFlush
  <2>2. AttachFlushes
    BY <1>5 DEF BrowserAttaches
  <2> QED BY <1>5, <2>1, <2>2, AttachFlushesTyped DEF BrowserAttaches, Quiet
<1>6. CASE AgentBoots BY <1>6 DEF AgentBoots, Quiet
<1>7. CASE SessionEnds BY <1>7 DEF SessionEnds, Quiet
<1>8. CASE Tick BY <1>8, WakeQueueAssumption DEF Tick, Quiet
<1> QED BY <1>1, <1>2, <1>3, <1>4, <1>5, <1>6, <1>7, <1>8 DEF Environment

\* Every step is one of nine kinds.
LEMMA StepEffect ==
    ASSUME TypeOK, [Next]_vars
    PROVE  \/ Quiet
           \/ \E w \in Wakes : Register(w)
           \/ \E f \in Flushers :
                 \/ BeginFlush(f) /\ ~flushing
                 \/ PeekReady(f) \/ Deliver(f) \/ Ack(f) \/ AckFails(f) \/ EndFlush(f)
           \/ Restart
<1>1. CASE UNCHANGED vars
  BY <1>1 DEF vars, tableVars, flushVars, historyVars, Quiet, TypeOK
<1> QED BY <1>1, CallerEffect, FlushEffect, EnvironmentEffect DEF Next

-----------------------------------------------------------------------------
(* The inductive invariant.                                                   *)

\* Row ids are fresh, distinct and behind every id handed over so far.
TableOrdered ==
    /\ lastId < nextId
    /\ \A w \in rows : rowId[w] < nextId /\ lastId <= rowId[w]
    /\ \A v, w \in rows : rowId[v] = rowId[w] => v = w

\* Only a prompt whose caller has pushed it has a row or was flushed.
OnlyRegistered ==
    \A w \in Wakes : wpc[w] \notin Registered => w \notin rows /\ flushed[w] = 0

\* A goroutine at its ack has pasted the row it carries.
PastedBeforeAck ==
    \A f \in Flushers : fpc[f] = "ack" => flushed[fhead[f]] > 0

\* A row still in the table was pasted at most once more than faults explain,
\* and then its ack is the next thing its flush does.
PasteCounted ==
    \A w \in rows : \/ flushed[w] <= faults
                    \/ \E f \in Flushers : fpc[f] = "ack" /\ fhead[f] = w

IInv ==
    /\ TypeOK
    /\ FlushExclusive
    /\ TableOrdered
    /\ OnlyRegistered
    /\ CarriesOldest
    /\ PastedBeforeAck
    /\ NoAcceptedWakeLost
    /\ RedeliveryBounded
    /\ PasteCounted
    /\ HoldRespected

LEMMA InitIInv == Init => IInv
<1> SUFFICES ASSUME Init PROVE IInv
  OBVIOUS
<1>1. TypeOK BY InitTypeOK
<1>2. \A f \in Flushers : fpc[f] \notin Owning /\ fpc[f] \notin Carrying /\ fpc[f] # "ack"
  BY DEF Init, Owning, Carrying
<1>3. \A w \in Wakes : wpc[w] = "new" /\ flushed[w] = 0
  BY DEF Init
<1>4. FlushExclusive BY <1>2 DEF FlushExclusive, Init
<1>5. CarriesOldest /\ PastedBeforeAck /\ HoldRespected
  BY <1>2 DEF CarriesOldest, PastedBeforeAck, HoldRespected
<1>6. NoAcceptedWakeLost /\ OnlyRegistered
  BY <1>3 DEF NoAcceptedWakeLost, OnlyRegistered, Registered, Init
<1>7. RedeliveryBounded BY <1>3, WakeQueueAssumption DEF RedeliveryBounded, Init
<1>8. TableOrdered /\ PasteCounted BY DEF TableOrdered, PasteCounted, Init
<1> QED BY <1>1, <1>4, <1>5, <1>6, <1>7, <1>8 DEF IInv

\* Restart stops every goroutine.
LEMMA RestartStops ==
    ASSUME TypeOK, Restart
    PROVE  \A g \in Flushers : /\ fpc'[g] \notin Owning
                               /\ fpc'[g] \notin Carrying
                               /\ fpc'[g] # "ack"
BY DEF Restart, TypeOK, Owning, Carrying

LEMMA FlushExclusiveStep ==
    ASSUME TypeOK, FlushExclusive, [Next]_vars PROVE FlushExclusive'
<1> USE DEF TypeOK, FlushExclusive
<1>1. CASE Quiet BY <1>1 DEF Quiet
<1>2. ASSUME NEW w \in Wakes, Register(w) PROVE FlushExclusive'
  BY <1>2 DEF Register
<1>3. ASSUME NEW f \in Flushers, BeginFlush(f), ~flushing PROVE FlushExclusive'
  BY <1>3 DEF BeginFlush, Goes, Owning
<1>4. ASSUME NEW f \in Flushers, PeekReady(f) \/ Deliver(f) \/ Ack(f) \/ AckFails(f)
      PROVE FlushExclusive'
  <2>1. \A g \in Flushers : fpc'[g] \in Owning <=> fpc[g] \in Owning
    BY <1>4 DEF PeekReady, Carry, Deliver, Ack, AckFails, Acked, Step, Goes, Owning
  <2>2. flushing' = flushing
    BY <1>4 DEF PeekReady, Carry, Deliver, Ack, AckFails, Acked, Step
  <2> QED BY <2>1, <2>2
<1>5. ASSUME NEW f \in Flushers, EndFlush(f) PROVE FlushExclusive'
  BY <1>5 DEF EndFlush, Goes, Owning
<1>6. CASE Restart
  BY <1>6, RestartStops DEF Restart
<1> QED BY <1>1, <1>2, <1>3, <1>4, <1>5, <1>6, StepEffect

LEMMA TableOrderedStep ==
    ASSUME TypeOK, TableOrdered, CarriesOldest, OnlyRegistered, [Next]_vars
    PROVE  TableOrdered'
<1> USE DEF TypeOK, TableOrdered
<1>1. CASE Quiet BY <1>1 DEF Quiet
<1>2. ASSUME NEW w \in Wakes, Register(w) PROVE TableOrdered'
  BY <1>2 DEF Register, Insert, OnlyRegistered
<1>3. ASSUME NEW f \in Flushers,
             (BeginFlush(f) /\ ~flushing) \/ PeekReady(f) \/ AckFails(f) \/ EndFlush(f)
      PROVE TableOrdered'
  BY <1>3 DEF BeginFlush, PeekReady, AckFails, EndFlush, NothingElse, tableVars, historyVars
<1>4. ASSUME NEW f \in Flushers, Deliver(f) PROVE TableOrdered'
  <2>1. Oldest(fhead[f])
    BY <1>4 DEF CarriesOldest, Deliver, Step, Carrying
  <2> QED BY <1>4, <2>1 DEF Deliver, HandOver, tableVars, Oldest
<1>5. ASSUME NEW f \in Flushers, Ack(f) PROVE TableOrdered'
  BY <1>5 DEF Ack, historyVars
<1>6. CASE Restart BY <1>6 DEF Restart, tableVars
<1> QED BY <1>1, <1>2, <1>3, <1>4, <1>5, <1>6, StepEffect

LEMMA OnlyRegisteredStep ==
    ASSUME TypeOK, OnlyRegistered, CarriesOldest, [Next]_vars PROVE OnlyRegistered'
<1> USE DEF TypeOK, OnlyRegistered
<1>1. CASE Quiet BY <1>1 DEF Quiet
<1>2. ASSUME NEW w \in Wakes, Register(w) PROVE OnlyRegistered'
  BY <1>2 DEF Register, Insert, Registered
<1>3. ASSUME NEW f \in Flushers,
             (BeginFlush(f) /\ ~flushing) \/ PeekReady(f) \/ AckFails(f) \/ EndFlush(f)
      PROVE OnlyRegistered'
  BY <1>3 DEF BeginFlush, PeekReady, AckFails, EndFlush, NothingElse, tableVars, historyVars
<1>4. ASSUME NEW f \in Flushers, Deliver(f) PROVE OnlyRegistered'
  <2>1. fhead[f] \in rows
    BY <1>4 DEF CarriesOldest, Oldest, Deliver, Step, Carrying
  <2> QED BY <1>4, <2>1 DEF Deliver, HandOver, tableVars
<1>5. ASSUME NEW f \in Flushers, Ack(f) PROVE OnlyRegistered'
  BY <1>5 DEF Ack, historyVars
<1>6. CASE Restart
  <2>1. \A w \in Wakes : wpc[w] \in Registered => wpc'[w] \in Registered
    BY <1>6 DEF Restart, Registered, Returned
  <2> QED BY <1>6, <2>1 DEF Restart, tableVars
<1> QED BY <1>1, <1>2, <1>3, <1>4, <1>5, <1>6, StepEffect

LEMMA CarriesOldestStep ==
    ASSUME TypeOK, FlushExclusive, TableOrdered, OnlyRegistered, CarriesOldest, [Next]_vars
    PROVE  CarriesOldest'
<1> USE DEF TypeOK, CarriesOldest
<1>1. CASE Quiet BY <1>1 DEF Quiet, Oldest
<1>2. ASSUME NEW w \in Wakes, Register(w) PROVE CarriesOldest'
  BY <1>2 DEF Register, Insert, Oldest, OnlyRegistered, TableOrdered
<1>3. ASSUME NEW f \in Flushers, BeginFlush(f) PROVE CarriesOldest'
  BY <1>3 DEF BeginFlush, Goes, NothingElse, tableVars, Carrying, Oldest
<1>4. ASSUME NEW f \in Flushers, PeekReady(f) PROVE CarriesOldest'
  BY <1>4 DEF PeekReady, Carry, Goes, NothingElse, tableVars, Carrying, Oldest
<1>5. ASSUME NEW f \in Flushers, Deliver(f) PROVE CarriesOldest'
  BY <1>5 DEF Deliver, Step, Goes, HandOver, tableVars, Carrying, Oldest
<1>6. ASSUME NEW f \in Flushers, Ack(f) \/ AckFails(f) PROVE CarriesOldest'
  <2>1. \A g \in Flushers : g # f => fpc'[g] \notin Carrying
    <3>1. fpc[f] \in Owning
      BY <1>6 DEF Ack, AckFails, Acked, Owning
    <3>2. \A g \in Flushers : g # f => fpc[g] \notin Owning
      BY <3>1 DEF FlushExclusive
    <3> QED BY <1>6, <3>2 DEF Ack, AckFails, Acked, Goes, Owning, Carrying
  <2>2. fpc'[f] = "gap"
    BY <1>6 DEF Ack, AckFails, Acked, Goes
  <2> QED BY <2>1, <2>2 DEF Carrying
<1>7. ASSUME NEW f \in Flushers, EndFlush(f) PROVE CarriesOldest'
  BY <1>7 DEF EndFlush, Goes, NothingElse, tableVars, Carrying, Oldest
<1>8. CASE Restart BY <1>8, RestartStops
<1> QED BY <1>1, <1>2, <1>3, <1>4, <1>5, <1>6, <1>7, <1>8, StepEffect

LEMMA PastedBeforeAckStep ==
    ASSUME TypeOK, CarriesOldest, PastedBeforeAck, [Next]_vars PROVE PastedBeforeAck'
<1> USE DEF TypeOK, PastedBeforeAck
<1>1. CASE Quiet BY <1>1 DEF Quiet
<1>2. ASSUME NEW w \in Wakes, Register(w) PROVE PastedBeforeAck'
  BY <1>2 DEF Register
<1>3. ASSUME NEW f \in Flushers,
             BeginFlush(f) \/ PeekReady(f) \/ Ack(f) \/ AckFails(f) \/ EndFlush(f)
      PROVE PastedBeforeAck'
  BY <1>3 DEF BeginFlush, PeekReady, Carry, Ack, AckFails, Acked, EndFlush, Goes,
              NothingElse, historyVars
<1>4. ASSUME NEW f \in Flushers, Deliver(f) PROVE PastedBeforeAck'
  <2>1. fhead[f] \in Wakes
    BY <1>4 DEF CarriesOldest, Oldest, Deliver, Step, Carrying
  <2> QED BY <1>4, <2>1 DEF Deliver, Step, Goes, HandOver
<1>5. CASE Restart BY <1>5, RestartStops
<1> QED BY <1>1, <1>2, <1>3, <1>4, <1>5, StepEffect

LEMMA NoAcceptedWakeLostStep ==
    ASSUME TypeOK, CarriesOldest, PastedBeforeAck, NoAcceptedWakeLost, OnlyRegistered,
           [Next]_vars
    PROVE  NoAcceptedWakeLost'
<1> USE DEF TypeOK, NoAcceptedWakeLost
<1>1. CASE Quiet BY <1>1 DEF Quiet, Registered
<1>2. ASSUME NEW w \in Wakes, Register(w) PROVE NoAcceptedWakeLost'
  BY <1>2 DEF Register, Insert, Registered
<1>3. ASSUME NEW f \in Flushers,
             BeginFlush(f) \/ PeekReady(f) \/ AckFails(f) \/ EndFlush(f)
      PROVE NoAcceptedWakeLost'
  BY <1>3 DEF BeginFlush, PeekReady, AckFails, EndFlush, NothingElse, tableVars, historyVars
<1>4. ASSUME NEW f \in Flushers, Deliver(f) PROVE NoAcceptedWakeLost'
  BY <1>4 DEF Deliver, HandOver, tableVars
<1>5. ASSUME NEW f \in Flushers, Ack(f) PROVE NoAcceptedWakeLost'
  BY <1>5 DEF Ack, Acked, PastedBeforeAck, historyVars
<1>6. CASE Restart
  <2>1. \A w \in Wakes : wpc'[w] \in Registered => wpc[w] \in Registered
    BY <1>6 DEF Restart, Registered, Returned
  <2> QED BY <1>6, <2>1 DEF Restart, Registered, tableVars
<1> QED BY <1>1, <1>2, <1>3, <1>4, <1>5, <1>6, StepEffect

LEMMA PasteCountedStep ==
    ASSUME TypeOK, FlushExclusive, CarriesOldest, OnlyRegistered, RedeliveryBounded,
           PasteCounted, [Next]_vars
    PROVE  RedeliveryBounded' /\ PasteCounted'
<1> USE DEF TypeOK, RedeliveryBounded, PasteCounted
<1>1. CASE Quiet
  <2>1. faults \in Nat /\ faults' \in Nat /\ faults' >= faults
    BY <1>1, NextTypeOK, WakeQueueAssumption DEF Quiet
  <2>2. \A w \in Wakes : flushed'[w] = flushed[w] /\ flushed[w] \in Nat
    BY <1>1 DEF Quiet
  <2>3. RedeliveryBounded' BY <2>1, <2>2
  <2>4. PasteCounted' BY <1>1, <2>1, <2>2 DEF Quiet
  <2> QED BY <2>3, <2>4
<1>2. ASSUME NEW w \in Wakes, Register(w) PROVE RedeliveryBounded' /\ PasteCounted'
  BY <1>2, WakeQueueAssumption DEF Register, Insert, OnlyRegistered
<1>3. ASSUME NEW f \in Flushers, BeginFlush(f) \/ PeekReady(f) \/ EndFlush(f)
      PROVE RedeliveryBounded' /\ PasteCounted'
  BY <1>3 DEF BeginFlush, PeekReady, Carry, EndFlush, Goes, NothingElse, tableVars,
              historyVars
<1>4. ASSUME NEW f \in Flushers, Deliver(f) PROVE RedeliveryBounded' /\ PasteCounted'
  <2>1. fhead[f] \in rows /\ fpc[f] \in Owning /\ fpc[f] # "ack" /\ fpc'[f] = "ack"
    BY <1>4 DEF CarriesOldest, Oldest, Deliver, Step, Goes, Carrying, Owning
  <2>2. \A g \in Flushers : fpc[g] # "ack"
    BY <2>1 DEF FlushExclusive, Owning
  <2>3. \A w \in rows : flushed[w] <= faults
    BY <2>2
  <2>4. rows' = rows /\ faults' = faults /\ fhead' = fhead
        /\ flushed' = [flushed EXCEPT ![fhead[f]] = @ + 1]
    BY <1>4 DEF Deliver, HandOver, Step, tableVars
  <2>5. RedeliveryBounded'
    BY <2>1, <2>3, <2>4, WakeQueueAssumption
  <2>6. PasteCounted'
    BY <2>1, <2>3, <2>4, WakeQueueAssumption
  <2> QED BY <2>5, <2>6
<1>5. ASSUME NEW f \in Flushers, Ack(f) PROVE RedeliveryBounded' /\ PasteCounted'
  <2>1. \A g \in Flushers : g # f => fpc[g] # "ack"
    BY <1>5 DEF Ack, Acked, FlushExclusive, Owning
  <2> QED BY <1>5, <2>1 DEF Ack, Acked, historyVars
<1>6. ASSUME NEW f \in Flushers, AckFails(f) PROVE RedeliveryBounded' /\ PasteCounted'
  <2>1. faults' = faults + 1 /\ faults \in Nat
    BY <1>6, FaultCounted, WakeQueueAssumption DEF AckFails
  <2> QED BY <1>6, <2>1 DEF AckFails, tableVars
<1>7. CASE Restart
  <2>1. faults' = faults + 1 /\ faults \in Nat
    BY <1>7, FaultCounted, WakeQueueAssumption DEF Restart
  <2>2. UNCHANGED <<rows, flushed>>
    BY <1>7 DEF Restart, tableVars
  <2> QED BY <2>1, <2>2
<1> QED BY <1>1, <1>2, <1>3, <1>4, <1>5, <1>6, <1>7, StepEffect

LEMMA HoldRespectedStep ==
    ASSUME TypeOK, CarriesOldest, HoldRespected, OnlyRegistered, [Next]_vars
    PROVE  HoldRespected'
<1> USE DEF TypeOK, HoldRespected, Ready
<1>1. CASE Quiet
  <2> SUFFICES ASSUME NEW f \in Flushers, fpc'[f] \in Carrying PROVE Ready(fhead[f])'
    OBVIOUS
  <2>1. fpc[f] \in Carrying
    BY <1>1 DEF Quiet
  <2>2. fhead[f] \in Wakes
    BY <2>1 DEF CarriesOldest, Oldest
  <2>3. now \in Int /\ now' \in Int /\ notBefore[fhead[f]] \in Int
    BY <2>2, WakeQueueAssumption, NextTypeOK
  <2> QED BY <1>1, <2>1, <2>3 DEF Quiet
<1>2. ASSUME NEW w \in Wakes, Register(w) PROVE HoldRespected'
  BY <1>2 DEF Register, Insert, CarriesOldest, Oldest, OnlyRegistered
<1>3. ASSUME NEW f \in Flushers,
             BeginFlush(f) \/ PeekReady(f) \/ Ack(f) \/ AckFails(f) \/ EndFlush(f)
      PROVE HoldRespected'
  BY <1>3 DEF BeginFlush, PeekReady, Carry, Ack, AckFails, Acked, EndFlush, Goes,
              NothingElse, tableVars, Carrying
<1>4. ASSUME NEW f \in Flushers, Deliver(f) PROVE HoldRespected'
  BY <1>4 DEF Deliver, Step, Goes, HandOver, tableVars, Carrying
<1>5. CASE Restart BY <1>5, RestartStops
<1> QED BY <1>1, <1>2, <1>3, <1>4, <1>5, StepEffect

LEMMA NextIInv == IInv /\ [Next]_vars => IInv'
BY NextTypeOK, FlushExclusiveStep, TableOrderedStep, OnlyRegisteredStep,
   CarriesOldestStep, PastedBeforeAckStep, NoAcceptedWakeLostStep, PasteCountedStep,
   HoldRespectedStep DEF IInv

\* The inductive invariant holds in every reachable state.
THEOREM Invariance == Spec => []IInv
<1>1. Init => IInv BY InitIInv
<1>2. IInv /\ [Next]_vars => IInv' BY NextIInv
<1> QED BY <1>1, <1>2, PTL DEF Spec

\* Every variable keeps its type: rows are prompts, ids and counts are naturals.
THEOREM TypeCorrect == Spec => []TypeOK
BY Invariance, PTL DEF IInv

\* At most one goroutine drains the task's table, and the guard is up exactly
\* while one does.
THEOREM FlushMutex == Spec => []FlushExclusive
BY Invariance, PTL DEF IInv

\* A flush acks the row it pasted, and that row is the oldest.
THEOREM FlushOldest == Spec => []CarriesOldest
BY Invariance, PTL DEF IInv

\* A buffered prompt is in the table or has been pasted, whatever crashed.
THEOREM NoLoss == Spec => []NoAcceptedWakeLost
BY Invariance, PTL DEF IInv

\* Pastes of one prompt are bounded by the faults there were.
THEOREM BoundedRedelivery == Spec => []RedeliveryBounded
BY Invariance, PTL DEF IInv

\* No prompt is carried to the agent before its not_before.
THEOREM Holds == Spec => []HoldRespected
BY Invariance, PTL DEF IInv

-----------------------------------------------------------------------------
(* Steps of the abstract buffer.                                              *)

\* One step of the wake path is a step of FifoBuffer or leaves it alone.
LEMMA StepRefines == IInv /\ [Next]_vars => [Buffer!Next]_(Buffer!vars)
<1> SUFFICES ASSUME IInv, [Next]_vars PROVE Buffer!Next \/ UNCHANGED Buffer!vars
  OBVIOUS
<1> USE DEF IInv, TypeOK, Buffer!vars
<1>1. ASSUME Quiet PROVE UNCHANGED Buffer!vars
  BY <1>1 DEF Quiet
<1>2. ASSUME NEW w \in Wakes, Register(w) PROVE Buffer!Accept(w)
  BY <1>2 DEF Register, Insert, OnlyRegistered, TableOrdered, Buffer!Accept
<1>3. ASSUME NEW f \in Flushers,
             (BeginFlush(f) /\ ~flushing) \/ PeekReady(f) \/ AckFails(f) \/ EndFlush(f)
      PROVE UNCHANGED Buffer!vars
  BY <1>3 DEF BeginFlush, PeekReady, AckFails, EndFlush, NothingElse, tableVars, historyVars
<1>4. ASSUME NEW f \in Flushers, Deliver(f) PROVE \E w \in Wakes : Buffer!Hand(w)
  <2>1. Oldest(fhead[f])
    BY <1>4 DEF CarriesOldest, Deliver, Step, Carrying
  <2>2. PICK w \in Wakes : w = fhead[f]
    BY <2>1 DEF Oldest
  <2>3. {v \in Wakes : flushed'[v] > 0} = {v \in Wakes : flushed[v] > 0} \cup {w}
    BY <1>4, <2>1, <2>2 DEF Deliver, HandOver, Oldest
  <2>4. Buffer!Hand(w)
    BY <1>4, <2>1, <2>2, <2>3
       DEF Deliver, HandOver, tableVars, Oldest, Buffer!Hand, Buffer!Oldest
  <2> QED BY <2>4
<1>5. ASSUME NEW f \in Flushers, Ack(f) PROVE \E w \in Wakes : Buffer!Settle(w)
  <2>1. Oldest(fhead[f]) /\ flushed[fhead[f]] > 0
    BY <1>5 DEF CarriesOldest, PastedBeforeAck, Ack, Acked, Carrying
  <2>2. PICK w \in Wakes : w = fhead[f]
    BY <2>1 DEF Oldest
  <2>3. Buffer!Settle(w)
    BY <1>5, <2>1, <2>2 DEF Ack, historyVars, Oldest, Buffer!Settle, Buffer!Oldest
  <2> QED BY <2>3
<1>6. ASSUME Restart PROVE UNCHANGED Buffer!vars
  BY <1>6 DEF Restart, tableVars
<1> HIDE DEF IInv, TypeOK, Buffer!vars
<1>7. TypeOK BY DEF IInv
<1>8. (\E w \in Wakes : Buffer!Accept(w) \/ Buffer!Hand(w) \/ Buffer!Settle(w)) => Buffer!Next
  BY DEF Buffer!Next
<1> QED BY <1>1, <1>2, <1>3, <1>4, <1>5, <1>6, <1>7, <1>8, StepEffect

\* The wake path implements the abstract FIFO, at-least-once buffer.
THEOREM RefinesBuffer == Spec => ImplementsBuffer
<1>1. Init => Buffer!Init
  BY DEF Init, Buffer!Init
<1>2. IInv /\ [Next]_vars => [Buffer!Next]_(Buffer!vars)
  BY StepRefines
<1> QED BY <1>1, <1>2, Invariance, PTL DEF Spec, ImplementsBuffer, Buffer!Spec

\* In the abstract buffer only the oldest item can have been handed over before.
LEMMA BufferPromises == Buffer!Spec => []Buffer!OnlyOldestHanded
<1> DEFINE handed == {v \in Wakes : flushed[v] > 0}
           BInv == /\ rows \subseteq Wakes /\ rowId \in [Wakes -> Nat]
                   /\ Buffer!OnlyOldestHanded
<1> USE DEF Buffer!OnlyOldestHanded, Buffer!Oldest
<1>1. Buffer!Init => BInv
  BY DEF Buffer!Init
<1>2. BInv /\ [Buffer!Next]_(Buffer!vars) => BInv'
  <2> SUFFICES ASSUME BInv, [Buffer!Next]_(Buffer!vars) PROVE BInv'
    OBVIOUS
  <2>1. ASSUME NEW i \in Wakes, Buffer!Accept(i) PROVE BInv'
    <3>1. /\ i \notin rows /\ i \notin handed /\ handed' = handed
          /\ rows' = rows \cup {i} /\ rowId' = [rowId EXCEPT ![i] = rowId'[i]]
          /\ rowId'[i] \in Nat /\ \A j \in rows : rowId[j] < rowId'[i]
      BY <2>1 DEF Buffer!Accept
    <3>2. rowId' \in [Wakes -> Nat] /\ \A j \in rows : rowId'[j] = rowId[j]
      BY <3>1
    <3>3. ASSUME NEW h \in rows' \cap handed', NEW j \in rows'
          PROVE  h \in rows' /\ rowId'[h] <= rowId'[j]
      <4>1. h \in rows \cap handed
        BY <3>1, <3>3
      <4>2. CASE j = i
        BY <3>1, <3>2, <4>1, <4>2
      <4>3. CASE j \in rows
        BY <3>2, <4>1, <4>3
      <4> QED BY <3>1, <4>2, <4>3
    <3> QED BY <3>1, <3>2, <3>3
  <2>2. ASSUME NEW i \in Wakes, Buffer!Hand(i) PROVE BInv'
    BY <2>2 DEF Buffer!Hand
  <2>3. ASSUME NEW i \in Wakes, Buffer!Settle(i) PROVE BInv'
    BY <2>3 DEF Buffer!Settle
  <2>4. CASE UNCHANGED Buffer!vars
    BY <2>4 DEF Buffer!vars
  <2> QED BY <2>1, <2>2, <2>3, <2>4 DEF Buffer!Next
<1>3. BInv => Buffer!OnlyOldestHanded
  OBVIOUS
<1> QED BY <1>1, <1>2, <1>3, PTL DEF Buffer!Spec

\* So it is on the wake path: a prompt that was pasted and is still in the table,
\* because its ack failed or a restart came before it, is the table's oldest, and
\* is pasted again before anything that was buffered after it.
THEOREM RepeatsInTurn == Spec => []Buffer!OnlyOldestHanded
BY RefinesBuffer, BufferPromises DEF ImplementsBuffer

\* A flush hands prompts over in the order of their ids.
THEOREM InOrder == Spec => FlushInOrder
<1>1. IInv /\ [Next]_vars => \/ \A w \in Wakes : flushed'[w] # flushed[w] => rowId[w] >= lastId
                            \/ UNCHANGED vars
  <2> SUFFICES ASSUME IInv, [Next]_vars, NEW w \in Wakes, flushed'[w] # flushed[w]
               PROVE  rowId[w] >= lastId
    OBVIOUS
  <2> USE DEF IInv, TypeOK
  <2>1. ASSUME NEW f \in Flushers, Deliver(f) PROVE rowId[w] >= lastId
    <3>1. Oldest(fhead[f])
      BY <2>1 DEF CarriesOldest, Deliver, Step, Carrying
    <3>2. w = fhead[f]
      BY <2>1, <3>1 DEF Deliver, HandOver, Oldest
    <3> QED BY <3>1, <3>2 DEF TableOrdered, Oldest
  <2>2. ASSUME NEW f \in Flushers,
               BeginFlush(f) \/ PeekReady(f) \/ Ack(f) \/ AckFails(f) \/ EndFlush(f)
        PROVE flushed' = flushed
    BY <2>2 DEF BeginFlush, PeekReady, Ack, AckFails, EndFlush, NothingElse, historyVars
  <2> QED BY <2>1, <2>2, StepEffect DEF Quiet, Register, Restart
<1> QED BY <1>1, Invariance, PTL DEF Spec, FlushInOrder

-----------------------------------------------------------------------------
(* The gates.                                                                 *)

\* GateWindow, with the flush step between its two re-reads included.
GateInv ==
    awaiting =>
        /\ \A f \in Flushers : fpc[f] \in FlusherPasting \cup {"draft2"} => f \in late
        /\ \A w \in Wakes : wpc[w] \in CallerPasting => w \in late

LEMMA SpawnGate ==
    ASSUME TypeOK, NEW pc \in {"wait", "timer", "has"}, NEW t, Spawn(pc, t)
    PROVE  \A g \in Flushers : fpc'[g] = fpc[g] \/ fpc'[g] \in {"wait", "timer", "has"}
BY DEF TypeOK, Spawn

LEMMA GateStep == ASSUME TypeOK, GateInv, Next PROVE GateInv'
<1> USE DEF TypeOK, GateInv, FlusherPasting, CallerPasting
<1> USE DEF tableVars, flushVars, sessionVars, historyVars
<1>1. ASSUME NEW w \in Wakes, Caller(w) PROVE GateInv'
  <2> USE DEF CallerGoes
  <2>1. CASE Nudge(w) BY <2>1 DEF Nudge
  <2>2. CASE PushHeld(w) BY <2>2 DEF PushHeld
  <2>3. CASE CheckDraft(w) BY <2>3 DEF CheckDraft
  <2>4. CASE CheckAwaiting(w)
    <3>1. awaiting => wpc'[w] \in {"push", "sharedpush"} \/ w \in late'
      BY <2>4 DEF CheckAwaiting, AsksAwaiting
    <3>2. UNCHANGED <<fpc, awaiting>> /\ late' \in {late \ {w}, late \cup {w}}
          /\ \A v \in Wakes : v # w => wpc'[v] = wpc[v]
      BY <2>4 DEF CheckAwaiting, AsksAwaiting
    <3> QED BY <3>1, <3>2, WakeQueueAssumption
  <2>5. CASE Push(w) BY <2>5 DEF Push
  <2>6. CASE PushFails(w) BY <2>6 DEF PushFails
  <2>7. CASE InjectShared(w) BY <2>7 DEF InjectShared
  <2>8. CASE Inject(w) BY <2>8 DEF Inject
  <2>9. CASE InjectReattach(w)
    <3>1. \A g \in Flushers : fpc'[g] = fpc[g] \/ fpc'[g] \in {"wait", "timer", "has"}
      BY <2>9, SpawnGate DEF InjectReattach, AttachFlushes, SpawnFlush
    <3> QED BY <2>9, <3>1 DEF InjectReattach, Attach
  <2>10. CASE InjectFails(w) BY <2>10 DEF InjectFails
  <2>11. CASE ArmTimer(w)
    <3>1. \A g \in Flushers : fpc'[g] = fpc[g] \/ fpc'[g] \in {"wait", "timer", "has"}
      BY <2>11, SpawnGate DEF ArmTimer, SpawnFlush
    <3> QED BY <2>11, <3>1 DEF ArmTimer
  <2> QED BY <1>1, <2>1, <2>2, <2>3, <2>4, <2>5, <2>6, <2>7, <2>8, <2>9, <2>10, <2>11
          DEF Caller, Arrive, Proceed
<1>2. ASSUME NEW f \in Flushers, Flush(f) PROVE GateInv'
  <2> USE DEF Step, Goes, NothingElse
  <2>1. CASE WaitReady(f) \/ FireTimer(f) \/ Has(f) BY <2>1 DEF WaitReady, FireTimer, Has
  <2>2. CASE BeginFlush(f) BY <2>2 DEF BeginFlush
  <2>3. CASE GateDraft(f) BY <2>3 DEF GateDraft
  <2>4. CASE GateAwaiting(f)
    <3>1. awaiting => fpc'[f] = "end" \/ f \in late'
      BY <2>4 DEF GateAwaiting, AsksAwaiting
    <3>2. UNCHANGED <<wpc, awaiting>> /\ late' \in {late \ {f}, late \cup {f}}
          /\ \A g \in Flushers : g # f => fpc'[g] = fpc[g]
      BY <2>4 DEF GateAwaiting, AsksAwaiting
    <3> QED BY <3>1, <3>2, WakeQueueAssumption
  <2>5. CASE PeekNone(f) \/ PeekReady(f) \/ ReadFails(f)
    BY <2>5 DEF PeekNone, PeekReady, Carry, ReadFails
  <2>6. CASE PeekHeld(f) BY <2>6 DEF PeekHeld
  <2>7. CASE Route(f) BY <2>7 DEF Route
  <2>8. CASE Deliver(f) BY <2>8 DEF Deliver, HandOver
  <2>9. CASE Reattach(f) BY <2>9 DEF Reattach, Attach
  <2>10. CASE Undelivered(f) BY <2>10 DEF Undelivered
  <2>11. CASE Ack(f) \/ AckFails(f) BY <2>11 DEF Ack, AckFails, Acked
  <2>12. CASE Gap(f) \/ EndFlush(f) BY <2>12 DEF Gap, EndFlush
  <2> QED BY <1>2, <2>1, <2>2, <2>3, <2>4, <2>5, <2>6, <2>7, <2>8, <2>9, <2>10,
             <2>11, <2>12 DEF Flush
<1>3. CASE Environment
  <2>1. CASE AgentAsks BY <2>1 DEF AgentAsks
  <2>2. CASE AgentMoves
    <3>1. \A g \in Flushers : fpc'[g] = fpc[g] \/ fpc'[g] \in {"wait", "timer", "has"}
      BY <2>2, SpawnGate DEF AgentMoves, SpawnFlush
    <3>2. awaiting' => awaiting
      BY <2>2 DEF AgentMoves
    <3>3. UNCHANGED <<wpc, late>>
      BY <2>2 DEF AgentMoves
    <3> QED BY <3>1, <3>2, <3>3
  <2>3. CASE OperatorTypes BY <2>3 DEF OperatorTypes
  <2>4. CASE OperatorClears
    <3>1. \A g \in Flushers : fpc'[g] = fpc[g] \/ fpc'[g] \in {"wait", "timer", "has"}
      BY <2>4, SpawnGate DEF OperatorClears, SpawnFlush
    <3> QED BY <2>4, <3>1 DEF OperatorClears
  <2>5. CASE BrowserAttaches
    <3>1. \A g \in Flushers : fpc'[g] = fpc[g] \/ fpc'[g] \in {"wait", "timer", "has"}
      BY <2>5, SpawnGate DEF BrowserAttaches, AttachFlushes, SpawnFlush
    <3> QED BY <2>5, <3>1 DEF BrowserAttaches, Attach
  <2>6. CASE AgentBoots \/ SessionEnds \/ Tick BY <2>6 DEF AgentBoots, SessionEnds, Tick
  <2>7. CASE Restart
    <3>1. \A g \in Flushers : fpc'[g] \in {"has", "off"}
      BY <2>7 DEF Restart
    <3>2. \A w \in Wakes : wpc'[w] \in Returned \cup {"new"}
      BY <2>7 DEF Restart, Returned
    <3> QED BY <3>1, <3>2 DEF Returned
  <2> QED BY <1>3, <2>1, <2>2, <2>3, <2>4, <2>5, <2>6, <2>7 DEF Environment
<1> QED BY <1>1, <1>2, <1>3 DEF Next

\* A paste into a session that waits for its operator was decided before the
\* session asked, or on a gate that could not be read.
THEOREM Gates == Spec => []GateWindow
<1>1. Init => GateInv
  BY DEF Init, GateInv
<1>2. TypeOK /\ GateInv /\ [Next]_vars => GateInv'
  <2>1. TypeOK /\ GateInv /\ UNCHANGED vars => GateInv'
    BY DEF vars, flushVars, sessionVars, historyVars, GateInv
  <2> QED BY <2>1, GateStep
<1>3. GateInv => GateWindow
  BY DEF GateInv, GateWindow
<1> QED BY <1>1, <1>2, <1>3, TypeCorrect, PTL DEF Spec
===============================================================================
