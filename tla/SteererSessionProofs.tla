------------------------- MODULE SteererSessionProofs -------------------------
(***************************************************************************)
(* Proofs about SteererSession, for any actors, turns and bounds: types,   *)
(* and that the idle sweep spares a session at work.                       *)
(***************************************************************************)
EXTENDS SteererSession, TLAPS

\* A resume has a conversation to resume.
ResumesASession == \A a \in Actors : op[a].pc = "resume" => op[a].row.session # NoSession

TInv == TypeOK /\ ResumesASession

LEMMA Constants ==
    /\ NoSession \in 0..MaxSessions /\ NoSession \notin Sessions
    /\ NoChat \in Chats /\ Idle \in Ops /\ Stub # NoSession
    /\ NoPane \in [id : 0..MaxSessions, provider : Providers, busy : BOOLEAN]
<1>1. NoSession \in 0..MaxSessions /\ NoSession \notin Sessions /\ Stub # NoSession
  BY SteererAssumption DEF NoSession, Sessions, Stub
<1>2. NoChat \in Chats BY <1>1 DEF NoChat, Chats, Providers
<1> QED BY <1>1, <1>2 DEF Idle, Ops, NoPane, Providers

LEMMA InitTInv == Init => TInv
<1> SUFFICES ASSUME Init PROVE TInv
  OBVIOUS
<1>1. RowTyped BY Constants DEF Init, RowTyped
<1>2. PaneTyped BY Constants DEF Init, PaneTyped
<1>3. TurnsTyped BY DEF Init, TurnsTyped, Fates
<1>4. op \in [Actors -> Ops] /\ \A a \in Actors : op[a].pc = "idle"
  BY Constants DEF Init, Idle
<1>5. OpTyped BY <1>4, SteererAssumption DEF Init, OpTyped, HolderPastLock
<1>6. RestTyped
  <2>1. next \in 0..MaxSessions /\ ops \in 0..MaxOps /\ faults \in 0..MaxFaults
    BY SteererAssumption DEF Init
  <2>2. sweep \in 0..MaxSessions /\ capturing \in 0..MaxSessions
    BY Constants DEF Init
  <2>3. stray = {} /\ recent = FALSE /\ reconcile = FALSE /\ deleting = FALSE
    BY DEF Init
  <2> QED BY <2>1, <2>2, <2>3 DEF RestTyped
<1>7. ResumesASession BY <1>4 DEF ResumesASession
<1> QED BY <1>1, <1>2, <1>3, <1>5, <1>6, <1>7 DEF TInv, TypeOK

-----------------------------------------------------------------------------
(* What the operations share *)

\* An actor goes on with an operation, and takes, keeps or leaves the mutex.
LEMMA Goes ==
    ASSUME TInv, NEW a \in Actors, NEW o \in Ops, op' = [op EXCEPT ![a] = o],
           o.pc = "resume" => o.row.session # NoSession,
           \/ o.pc \in {"idle", "asked"} /\ lock = a /\ lock' = NoOne
           \/ o.pc \in {"idle", "asked"} /\ lock # a /\ lock' = lock
           \/ o.pc \notin {"idle", "asked"} /\ lock \in {a, NoOne} /\ lock' = a
    PROVE  OpTyped' /\ ResumesASession'
<1>1. OpTyped /\ ResumesASession BY DEF TInv, TypeOK
<1>2. op' \in [Actors -> Ops] /\ op'[a] = o /\ \A b \in Actors \ {a} : op'[b] = op[b]
  BY <1>1 DEF OpTyped
<1>3. lock' \in Actors \union {NoOne} BY <1>1 DEF OpTyped
<1>4. HolderPastLock' BY <1>1, <1>2, SteererAssumption DEF OpTyped, HolderPastLock
<1> QED BY <1>1, <1>2, <1>3, <1>4 DEF OpTyped, ResumesASession

LEMMA Leaves ==
    ASSUME TInv, NEW a \in Actors, Release(a), op[a].pc \notin {"idle", "asked"}
    PROVE  OpTyped' /\ ResumesASession' /\ recent' = recent
<1>1. lock = a BY DEF TInv, TypeOK, OpTyped, HolderPastLock
<1> QED BY <1>1, Constants, Goes DEF Release, Idle

\* An actor that holds the mutex, or is past asking, goes to the next label.
LEMMA Advances ==
    ASSUME TInv, NEW a \in Actors, NEW pc \in {"resume", "start", "wake", "session"},
           op' = [op EXCEPT ![a].pc = pc],
           pc = "resume" => op[a].row.session # NoSession,
           \/ op[a].pc \notin {"idle", "asked"} /\ lock' = lock
           \/ op[a].pc = "asked" /\ lock = NoOne /\ lock' = a
    PROVE  OpTyped' /\ ResumesASession'
<1>1. op[a] \in Ops BY DEF TInv, TypeOK, OpTyped
<1>2. [op[a] EXCEPT !.pc = pc] \in Ops BY <1>1 DEF Ops
<1>3. op[a].pc \notin {"idle", "asked"} => lock = a
  BY DEF TInv, TypeOK, OpTyped, HolderPastLock
<1>4. op' = [op EXCEPT ![a] = [op[a] EXCEPT !.pc = pc]] OBVIOUS
<1>5. [op[a] EXCEPT !.pc = pc].pc = pc /\ [op[a] EXCEPT !.pc = pc].row = op[a].row
  BY <1>1 DEF Ops
<1> QED BY <1>2, <1>3, <1>4, <1>5, Goes

LEMMA Stays ==
    ASSUME TInv, UNCHANGED <<lock, op>>
    PROVE  OpTyped' /\ ResumesASession'
BY DEF TInv, TypeOK, OpTyped, HolderPastLock, ResumesASession

LEMMA Counted ==
    ASSUME TInv, (Fault \/ Command \/ UNCHANGED counts)
    PROVE  ops' \in 0..MaxOps /\ faults' \in 0..MaxFaults
BY SteererAssumption DEF TInv, TypeOK, RestTyped, Fault, Command, counts

LEMMA Opened ==
    ASSUME TInv, Open
    PROVE  next' \in Sessions /\ next' \in 0..MaxSessions
BY SteererAssumption DEF TInv, TypeOK, RestTyped, Open, Sessions

LEMMA PaneGoes ==
    ASSUME NEW f \in [Turns -> Fates] PROVE WithPane(f) \in [Turns -> Fates]
BY DEF WithPane, Fates

LEMMA TurnGoes ==
    ASSUME NEW f \in [Turns -> Fates], NEW t, NEW v \in Fates
    PROVE  [f EXCEPT ![t] = v] \in [Turns -> Fates]
OBVIOUS

\* stopFloating
LEMMA StopTyped ==
    ASSUME TInv, NEW f \in [Turns -> Fates], Stop(f), doc' = doc
    PROVE  PaneTyped' /\ TurnsTyped' /\ capturing' \in 0..MaxSessions
<1>1. PaneTyped /\ capturing \in 0..MaxSessions BY DEF TInv, TypeOK, RestTyped
<1>2. bridge' = FALSE BY DEF Stop
<1>3. CASE bridge
  <2>1. pane' = NoPane /\ fate' = WithPane(f) /\ capturing' = NoSession BY <1>3 DEF Stop
  <2> QED BY <1>1, <1>2, <2>1, Constants, PaneGoes DEF PaneTyped, TurnsTyped
<1>4. CASE ~bridge
  <2>1. fate' = f /\ UNCHANGED <<pane, capturing>> BY <1>4 DEF Stop
  <2> QED BY <1>1, <1>2, <2>1 DEF PaneTyped, TurnsTyped
<1> QED BY <1>3, <1>4

\* A launch that finds an agent leaves it in its pane.
LEMMA FoundTyped ==
    ASSUME TInv, NEW p, Found(p)
    PROVE  pane.id # NoSession
BY DEF Found, TInv, TypeOK, PaneTyped

\* A launch ends with a bridge to an agent.
LEMMA LaunchTyped ==
    ASSUME TInv, NEW p \in Providers, NEW i, NEW b \in BOOLEAN, Launch(p, i, b),
           Found(p) \/ i \in (0..MaxSessions) \ {NoSession}
    PROVE  /\ pane' \in [id : 0..MaxSessions, provider : Providers, busy : BOOLEAN]
           /\ bridge' = TRUE /\ pane'.id # NoSession
           /\ capturing' \in 0..MaxSessions
<1>1. PaneTyped /\ RestTyped BY DEF TInv, TypeOK
<1>2. pane' \in [id : 0..MaxSessions, provider : Providers, busy : BOOLEAN] /\ pane'.id # NoSession
  <2>1. CASE Found(p)
    <3>1. pane' = pane BY <2>1 DEF Launch
    <3> QED BY <1>1, <2>1, <3>1, FoundTyped DEF PaneTyped
  <2>2. CASE ~Found(p)
    <3>1. pane' = [id |-> i, provider |-> p, busy |-> b] BY <2>2 DEF Launch
    <3> QED BY <2>2, <3>1
  <2> QED BY <2>1, <2>2
<1>3. capturing' \in {capturing, pane'.id, NoSession} BY DEF Launch
<1>4. capturing' \in 0..MaxSessions BY <1>1, <1>2, <1>3, Constants DEF RestTyped
<1> QED BY <1>2, <1>4 DEF Launch

-----------------------------------------------------------------------------
LEMMA DeliverTInv ==
    ASSUME TInv, NEW a \in Actors, NEW t \in Turns,
           DeliverWake(a, t) \/ DeliverResume(a, t) \/ DeliverStart(a, t)
    PROVE  TInv'
<1>2. RowTyped /\ PaneTyped /\ TurnsTyped /\ RestTyped BY DEF TInv, TypeOK
<1>1. PICK pc \in {"wake", "resume", "start"}, row \in Chats :
        Begin(a, pc, t, row) /\ (pc = "resume" => row.session # NoSession)
  <2>1. CASE DeliverWake(a, t) \/ DeliverResume(a, t)
    BY <1>2, <2>1 DEF DeliverWake, DeliverResume, RowTyped
  <2>2. CASE DeliverStart(a, t)
    <3>1. \A p \in Providers : [NoChat EXCEPT !.provider = p] \in Chats
      BY Constants DEF Chats
    <3> QED BY <2>2, <3>1 DEF DeliverStart
  <2> QED BY <2>1, <2>2
<1>3. row \in Chats OBVIOUS
<1>4. [pc |-> pc, turn |-> t, row |-> row, fresh |-> FALSE] \in Ops BY <1>3 DEF Ops
<1>5. OpTyped' /\ ResumesASession' BY <1>1, <1>4, Goes DEF Begin
<1>6. RowTyped' /\ PaneTyped' BY <1>1, <1>2 DEF Begin, RowTyped, PaneTyped, hub
<1>7. TurnsTyped' BY <1>1, <1>2 DEF Begin, TurnsTyped, Fates
<1>8. RestTyped' BY <1>1, <1>2 DEF Begin, RestTyped, stops, counts
<1> QED BY <1>5, <1>6, <1>7, <1>8 DEF TInv, TypeOK

LEMMA DeliverEndsTInv ==
    ASSUME TInv, NEW a \in Actors, NEW t \in Turns,
           LookupFails(a, t) \/ DeliverMuted(a, t) \/ DeliverCold(a, t)
    PROVE  TInv'
<1>1. RowTyped /\ PaneTyped /\ TurnsTyped /\ RestTyped BY DEF TInv, TypeOK
<1>2. /\ UNCHANGED <<chat, pane, bridge, doc, lock, recent, op, sweep, reconcile,
                     deleting, capturing, next, stray>>
      /\ Fault \/ UNCHANGED counts
  BY DEF LookupFails, DeliverMuted, DeliverCold, hub, slot, stops
<1>3. TurnsTyped'
  BY <1>1 DEF LookupFails, DeliverMuted, DeliverCold, TurnsTyped, Fates
<1>4. RowTyped' /\ PaneTyped' BY <1>1, <1>2 DEF RowTyped, PaneTyped
<1>5. RestTyped' BY <1>1, <1>2, Counted DEF RestTyped
<1>6. OpTyped' /\ ResumesASession' BY <1>2, Stays
<1> QED BY <1>3, <1>4, <1>5, <1>6 DEF TInv, TypeOK

LEMMA AskTInv ==
    ASSUME TInv, NEW a \in Actors, NEW t \in Turns,
           \/ postApprovedReplyViaChat(a, t) \/ captureKBViaChat(a, t)
           \/ postCorrectionToChat(a, t)
    PROVE  TInv'
<1>1. PICK fresh \in BOOLEAN : Ask(a, t, fresh)
  BY DEF postApprovedReplyViaChat, captureKBViaChat, postCorrectionToChat
<1>2. RowTyped /\ PaneTyped /\ TurnsTyped /\ RestTyped BY DEF TInv, TypeOK
<1>3. [pc |-> "asked", turn |-> t, row |-> chat, fresh |-> fresh] \in Ops
  BY <1>2 DEF Ops, RowTyped
<1>4. lock # a BY <1>1 DEF Ask, TInv, TypeOK, OpTyped, HolderPastLock
<1>5. OpTyped' /\ ResumesASession' BY <1>1, <1>3, <1>4, Goes DEF Ask, slot
<1>6. RowTyped' /\ PaneTyped' BY <1>1, <1>2 DEF Ask, RowTyped, PaneTyped, hub
<1>7. TurnsTyped' BY <1>1, <1>2 DEF Ask, TurnsTyped, Fates
<1>8. RestTyped' BY <1>1, <1>2 DEF Ask, RestTyped, stops, counts, slot
<1> QED BY <1>5, <1>6, <1>7, <1>8 DEF TInv, TypeOK

LEMMA AskedTInv ==
    ASSUME TInv, NEW a \in Actors,
           AskedWake(a) \/ AskedStart(a) \/ AskedResume(a) \/ AskedCold(a)
    PROVE  TInv'
<1>1. RowTyped /\ PaneTyped /\ TurnsTyped /\ RestTyped BY DEF TInv, TypeOK
<1>2. RowTyped' /\ PaneTyped'
  BY <1>1 DEF AskedWake, AskedStart, AskedResume, AskedCold, AskedLaunch, RowTyped,
              PaneTyped, hub
<1>3. TurnsTyped'
  BY <1>1 DEF AskedWake, AskedStart, AskedResume, AskedCold, AskedLaunch, TurnsTyped, Fates
<1>4. RestTyped'
  BY <1>1 DEF AskedWake, AskedStart, AskedResume, AskedCold, AskedLaunch, RestTyped,
              stops, counts, slot
<1>5. OpTyped' /\ ResumesASession'
  <2>1. CASE AskedWake(a) \/ AskedCold(a)
    <3>1. op' = [op EXCEPT ![a] = Idle] /\ lock' = lock /\ op[a].pc = "asked"
      BY <2>1 DEF AskedWake, AskedCold, slot
    <3>2. lock # a BY <3>1 DEF TInv, TypeOK, OpTyped, HolderPastLock
    <3> QED BY <3>1, <3>2, Constants, Goes DEF Idle
  <2>2. CASE AskedStart(a)
    BY <2>2, Advances DEF AskedStart, AskedLaunch
  <2>3. CASE AskedResume(a)
    BY <2>3, Advances DEF AskedResume, AskedLaunch
  <2> QED BY <2>1, <2>2, <2>3
<1> QED BY <1>2, <1>3, <1>4, <1>5 DEF TInv, TypeOK

LEMMA ReleaseTInv ==
    ASSUME TInv, NEW a \in Actors, Wake(a) \/ WakeFails(a) \/ LaunchFails(a)
    PROVE  TInv'
<1>1. RowTyped /\ PaneTyped /\ TurnsTyped /\ RestTyped BY DEF TInv, TypeOK
<1>2. /\ UNCHANGED <<chat, pane, bridge, doc, sweep, reconcile, deleting, capturing,
                     next, stray>>
      /\ Fault \/ UNCHANGED counts
      /\ Release(a) /\ op[a].pc \notin {"idle", "asked"}
  BY DEF Wake, WakeFails, LaunchFails, hub, stops
<1>3. TurnsTyped' BY <1>1 DEF Wake, WakeFails, LaunchFails, TurnsTyped, Fates
<1>4. RowTyped' /\ PaneTyped' BY <1>1, <1>2 DEF RowTyped, PaneTyped
<1>5. OpTyped' /\ ResumesASession' /\ recent' = recent BY <1>2, Leaves
<1>6. RestTyped' BY <1>1, <1>2, <1>5, Counted DEF RestTyped
<1> QED BY <1>3, <1>4, <1>5, <1>6 DEF TInv, TypeOK

LEMMA ResumeTInv ==
    ASSUME TInv, NEW a \in Actors, resumeSteererChat(a)
    PROVE  TInv'
<1>1. RowTyped /\ PaneTyped /\ TurnsTyped /\ RestTyped BY DEF TInv, TypeOK
<1> DEFINE row == op[a].row
           renamed == row.provider = "codex" /\ ~Found("codex")
           i == IF renamed THEN next' ELSE row.session
<1>2. /\ op[a].pc = "resume"
      /\ op' = [op EXCEPT ![a].pc = "wake"]
      /\ stray' \subseteq stray \union {pane'.id}
      /\ UNCHANGED <<chat, doc, lock, recent, sweep, reconcile, deleting, ops, faults>>
  BY DEF resumeSteererChat, slot, stops, counts
<1>3. row \in Chats /\ row.session # NoSession
  BY <1>2 DEF TInv, TypeOK, OpTyped, Ops, ResumesASession
<1>4. next' \in 0..MaxSessions /\ (renamed => next' \in Sessions)
  <2>1. CASE Open BY <2>1, Opened
  <2>2. CASE ~Open BY <1>1, <2>2 DEF resumeSteererChat, RestTyped
  <2> QED BY <2>1, <2>2
<1>5. Found(row.provider) \/ i \in (0..MaxSessions) \ {NoSession}
  <2>1. CASE renamed BY <1>4, <2>1, Constants
  <2>2. CASE ~renamed /\ ~Found(row.provider)
    <3>1. row.session # Stub BY <2>2 DEF resumeSteererChat
    <3> QED BY <1>3, <2>2, <3>1 DEF Chats
  <2> QED BY <2>1, <2>2
<1>6. /\ pane' \in [id : 0..MaxSessions, provider : Providers, busy : BOOLEAN]
      /\ bridge' = TRUE /\ pane'.id # NoSession /\ capturing' \in 0..MaxSessions
  <2>1. Launch(row.provider, i, FALSE) BY DEF resumeSteererChat
  <2>2. row.provider \in Providers BY <1>3 DEF Chats
  <2> HIDE DEF i
  <2> QED BY <1>5, <2>1, <2>2, LaunchTyped
<1>7. TurnsTyped'
  BY <1>1, PaneGoes DEF resumeSteererChat, TurnsTyped
<1>8. RowTyped' /\ PaneTyped' BY <1>1, <1>2, <1>6 DEF RowTyped, PaneTyped
<1>9. RestTyped' BY <1>1, <1>2, <1>4, <1>6 DEF RestTyped
<1>10. OpTyped' /\ ResumesASession' BY <1>2, Advances
<1> QED BY <1>7, <1>8, <1>9, <1>10 DEF TInv, TypeOK

LEMMA RefusedTInv ==
    ASSUME TInv, NEW a \in Actors, ResumeRefused(a)
    PROVE  TInv'
<1>1. RowTyped /\ PaneTyped /\ TurnsTyped /\ RestTyped BY DEF TInv, TypeOK
<1>2. /\ UNCHANGED <<chat, bridge, doc, sweep, reconcile, deleting, capturing, next, ops, faults, stray>>
      /\ Release(a) /\ op[a].pc \notin {"idle", "asked"}
      /\ pane' = NoPane /\ ~bridge
  BY DEF ResumeRefused, Found, stops, counts
<1>3. TurnsTyped'
  <2>1. WithPane(fate) \in [Turns -> Fates] BY <1>1, PaneGoes DEF TurnsTyped
  <2> QED BY <2>1, TurnGoes DEF ResumeRefused, TurnsTyped, Fates
<1>4. RowTyped' /\ PaneTyped' BY <1>1, <1>2, Constants DEF RowTyped, PaneTyped
<1>5. OpTyped' /\ ResumesASession' /\ recent' = recent BY <1>2, Leaves
<1>6. RestTyped' BY <1>1, <1>2, <1>5 DEF RestTyped
<1> QED BY <1>3, <1>4, <1>5, <1>6 DEF TInv, TypeOK

LEMMA StartTInv ==
    ASSUME TInv, NEW a \in Actors, startNewSteererChat(a)
    PROVE  TInv'
<1>1. RowTyped /\ PaneTyped /\ TurnsTyped /\ RestTyped BY DEF TInv, TypeOK
<1> DEFINE provider == op[a].row.provider
           s == IF provider = "codex" THEN Stub ELSE next'
<1>2. /\ op[a].pc = "start" /\ Open
      /\ op' = [op EXCEPT ![a].pc = "record", ![a].row.session = s]
      /\ stray' \subseteq stray \union {pane.id}
      /\ UNCHANGED <<chat, doc, lock, recent, sweep, reconcile, deleting, ops, faults>>
  BY DEF startNewSteererChat, slot, stops, counts
<1>3. next' \in Sessions /\ next' \in 0..MaxSessions BY <1>2, Opened
<1>4. op[a] \in Ops BY DEF TInv, TypeOK, OpTyped
<1>5. /\ pane' \in [id : 0..MaxSessions, provider : Providers, busy : BOOLEAN]
      /\ bridge' = TRUE /\ pane'.id # NoSession /\ capturing' \in 0..MaxSessions
  <2>1. Launch(provider, next', FALSE) BY DEF startNewSteererChat
  <2>2. provider \in Providers BY <1>4 DEF Ops, Chats
  <2> QED BY <1>3, <2>1, <2>2, LaunchTyped, Constants
<1>6. TurnsTyped'
  <2>1. CASE Found(provider)
    <3>1. fate' = [fate EXCEPT ![op[a].turn] = "lost"] BY <2>1 DEF startNewSteererChat
    <3> QED BY <1>1, <3>1 DEF TurnsTyped, Fates
  <2>2. CASE ~Found(provider)
    <3>1. fate' = [WithPane(fate) EXCEPT ![op[a].turn] = "box"] BY <2>2 DEF startNewSteererChat
    <3> QED BY <1>1, <3>1, PaneGoes DEF TurnsTyped, Fates
  <2> QED BY <2>1, <2>2
<1>9. RowTyped' /\ PaneTyped' BY <1>1, <1>2, <1>5 DEF RowTyped, PaneTyped
<1>7. RestTyped'
  <2>1. stray' \subseteq 0..MaxSessions BY <1>1, <1>2 DEF PaneTyped, RestTyped
  <2> QED BY <1>1, <1>2, <1>3, <1>5, <2>1 DEF RestTyped
<1>8. OpTyped' /\ ResumesASession'
  <2> DEFINE o == [op[a] EXCEPT !.pc = "record", !.row.session = s]
  <2>1. o \in Ops /\ o.pc = "record" BY <1>3, <1>4 DEF Ops, Chats
  <2>2. op' = [op EXCEPT ![a] = o] BY <1>2
  <2>3. lock = a BY <1>2 DEF TInv, TypeOK, OpTyped, HolderPastLock
  <2> QED BY <1>2, <2>1, <2>2, <2>3, Goes
<1> QED BY <1>6, <1>7, <1>8, <1>9 DEF TInv, TypeOK

LEMMA RecordTInv ==
    ASSUME TInv, NEW a \in Actors, UpsertChat(a) \/ RecordFails(a)
    PROVE  TInv'
<1>1. RowTyped /\ PaneTyped /\ TurnsTyped /\ RestTyped BY DEF TInv, TypeOK
<1>2. /\ op[a].pc = "record" /\ Release(a)
      /\ Fault \/ UNCHANGED counts
      /\ UNCHANGED <<doc, sweep, reconcile, deleting, next>> /\ stray' \subseteq stray \union {pane.id}
  BY DEF UpsertChat, RecordFails, hub, stops
<1>3. OpTyped' /\ ResumesASession' /\ recent' = recent BY <1>2, Leaves
<1>4. RowTyped' /\ PaneTyped' /\ TurnsTyped' /\ capturing' \in 0..MaxSessions
  <2>1. CASE UpsertChat(a)
    <3>1. op[a].row \in Chats BY DEF TInv, TypeOK, OpTyped, Ops
    <3>2. chat' \in Chats BY <2>1, <3>1 DEF UpsertChat, Chats
    <3> QED
      BY <1>1, <2>1, <3>2 DEF UpsertChat, RowTyped, PaneTyped, TurnsTyped, RestTyped, hub
  <2>2. CASE RecordFails(a)
    <3>1. [fate EXCEPT ![op[a].turn] = "cold"] \in [Turns -> Fates]
      BY <1>1, TurnGoes DEF TurnsTyped, Fates
    <3> QED BY <1>1, <2>2, <3>1, StopTyped DEF RecordFails, RowTyped
  <2> QED BY <2>1, <2>2
<1>5. RestTyped'
  <2>1. stray' \subseteq 0..MaxSessions BY <1>1, <1>2 DEF PaneTyped, RestTyped
  <2> QED BY <1>1, <1>2, <1>3, <1>4, <2>1, Counted DEF RestTyped
<1> QED BY <1>3, <1>4, <1>5 DEF TInv, TypeOK

LEMMA SwitchStopTInv ==
    ASSUME TInv, NEW a \in Actors, SwitchStop(a)
    PROVE  TInv'
<1>1. RowTyped /\ PaneTyped /\ TurnsTyped /\ RestTyped BY DEF TInv, TypeOK
<1>2. PaneTyped' /\ TurnsTyped' /\ capturing' \in 0..MaxSessions
  BY <1>1, StopTyped DEF SwitchStop, TurnsTyped
<1>3. RowTyped' /\ RestTyped'
  BY <1>1, <1>2, Counted DEF SwitchStop, RowTyped, RestTyped
<1>4. OpTyped' /\ ResumesASession'
  <2> DEFINE row == [chat EXCEPT !.provider = Other(chat.provider)]
             o == [pc |-> "relaunch", turn |-> NoTurn, row |-> row, fresh |-> FALSE]
  <2>1. row \in Chats BY <1>1 DEF RowTyped, Chats, Other, Providers
  <2>2. o \in Ops /\ o.pc = "relaunch" BY <2>1 DEF Ops
  <2>3. op' = [op EXCEPT ![a] = o] /\ lock = NoOne /\ lock' = a
    BY DEF SwitchStop
  <2> QED BY <2>2, <2>3, Goes
<1> QED BY <1>2, <1>3, <1>4 DEF TInv, TypeOK

LEMMA SwitchLaunchTInv ==
    ASSUME TInv, NEW a \in Actors, SwitchLaunch(a)
    PROVE  TInv'
<1>1. RowTyped /\ PaneTyped /\ TurnsTyped /\ RestTyped BY DEF TInv, TypeOK
<1>2. /\ op[a].pc = "relaunch" /\ Open /\ stray' \subseteq stray \union {pane.id}
      /\ UNCHANGED <<chat, lock, recent, sweep, reconcile, deleting, ops, faults>>
  BY DEF SwitchLaunch, slot, stops, counts
<1>3. next' \in Sessions /\ next' \in 0..MaxSessions BY <1>2, Opened
<1>4. op[a] \in Ops BY DEF TInv, TypeOK, OpTyped
<1>5. /\ PaneTyped' /\ TurnsTyped'
      /\ stray' \subseteq 0..MaxSessions /\ capturing' \in 0..MaxSessions
  <2>1. Launch(op[a].row.provider, next', TRUE) BY DEF SwitchLaunch
  <2>2. op[a].row.provider \in Providers BY <1>4 DEF Ops, Chats
  <2>3. /\ pane' \in [id : 0..MaxSessions, provider : Providers, busy : BOOLEAN]
        /\ bridge' = TRUE /\ pane'.id # NoSession /\ capturing' \in 0..MaxSessions
    BY <1>3, <2>1, <2>2, LaunchTyped, Constants
  <2>4. doc' \in [Sessions -> {"none", "fresh", "quiet"}] /\ TurnsTyped'
    <3>1. CASE Found(op[a].row.provider)
      BY <1>1, <3>1 DEF SwitchLaunch, PaneTyped, TurnsTyped
    <3>2. CASE ~Found(op[a].row.provider)
      BY <1>1, <1>3, <3>2, PaneGoes DEF SwitchLaunch, PaneTyped, TurnsTyped
    <3> QED BY <3>1, <3>2
  <2>5. stray' \subseteq 0..MaxSessions BY <1>1, <1>2 DEF PaneTyped, RestTyped
  <2> QED BY <2>3, <2>4, <2>5 DEF PaneTyped
<1>6. RowTyped' /\ RestTyped' BY <1>1, <1>2, <1>3, <1>5 DEF RowTyped, RestTyped
<1>7. OpTyped' /\ ResumesASession'
  <2>1. PICK s \in {NoSession, next'} :
          op' = [op EXCEPT ![a].pc = "provider", ![a].row.session = s]
    BY DEF SwitchLaunch
  <2> DEFINE o == [op[a] EXCEPT !.pc = "provider", !.row.session = s]
  <2>2. o \in Ops /\ o.pc = "provider" BY <1>3, <1>4, Constants DEF Ops, Chats
  <2>3. op' = [op EXCEPT ![a] = o] BY <2>1
  <2>4. lock = a BY <1>2 DEF TInv, TypeOK, OpTyped, HolderPastLock
  <2> QED BY <1>2, <2>2, <2>3, <2>4, Goes
<1> QED BY <1>5, <1>6, <1>7 DEF TInv, TypeOK

LEMMA SwitchRecordTInv ==
    ASSUME TInv, NEW a \in Actors, SetChatProvider(a) \/ SetChatSession(a) \/ SwitchFails(a)
    PROVE  TInv'
<1>1. RowTyped /\ PaneTyped /\ TurnsTyped /\ RestTyped BY DEF TInv, TypeOK
<1>2. op[a] \in Ops BY DEF TInv, TypeOK, OpTyped
<1>3. /\ UNCHANGED <<pane, bridge, doc, fate, sweep, reconcile, deleting, capturing, next>>
      /\ Fault \/ UNCHANGED counts
      /\ stray' \subseteq stray \union {pane.id}
  BY DEF SetChatProvider, SetChatSession, SwitchFails, hub, stops
<1>4. PaneTyped' /\ TurnsTyped' BY <1>1, <1>3 DEF PaneTyped, TurnsTyped
<1>5. RowTyped'
  <2>1. CASE SetChatProvider(a)
    BY <1>1, <1>2, <2>1 DEF SetChatProvider, RowTyped, Chats, Ops
  <2>2. CASE SetChatSession(a)
    BY <1>1, <1>2, <2>2 DEF SetChatSession, RowTyped, Chats, Ops
  <2>3. CASE SwitchFails(a)
    BY <1>1, <2>3 DEF SwitchFails, RowTyped
  <2> QED BY <2>1, <2>2, <2>3
<1>6. OpTyped' /\ ResumesASession' /\ recent' = recent
  <2>1. CASE SetChatProvider(a)
    BY <2>1, Advances DEF SetChatProvider, slot
  <2>2. CASE SetChatSession(a) \/ SwitchFails(a)
    BY <2>2, Leaves DEF SetChatSession, SwitchFails
  <2> QED BY <2>1, <2>2
<1>7. RestTyped'
  <2>1. stray' \subseteq 0..MaxSessions BY <1>1, <1>3 DEF PaneTyped, RestTyped
  <2> QED BY <1>1, <1>3, <1>6, <2>1, Counted DEF RestTyped
<1> QED BY <1>4, <1>5, <1>6, <1>7 DEF TInv, TypeOK

LEMMA SweepTInv ==
    ASSUME TInv, SweepLook \/ Sweep \/ ReconcileLook \/ ReconcileStop \/ DeleteStop
    PROVE  TInv'
<1>1. RowTyped /\ PaneTyped /\ TurnsTyped /\ RestTyped BY DEF TInv, TypeOK
<1>2. /\ UNCHANGED <<chat, doc, lock, recent, op, next, stray>>
      /\ sweep' \in Sessions \union {sweep, NoSession}
      /\ reconcile' \in {reconcile, TRUE, FALSE} /\ deleting' \in {deleting, TRUE}
      /\ Command \/ UNCHANGED counts
  BY DEF SweepLook, Sweep, ReconcileLook, ReconcileStop, DeleteStop, hub, slot
<1>3. OpTyped' /\ ResumesASession' /\ RowTyped'
  BY <1>1, <1>2, Stays DEF RowTyped
<1>4. PaneTyped' /\ TurnsTyped' /\ capturing' \in 0..MaxSessions
  <2>1. CASE Stop(fate)
    BY <1>1, <1>2, <2>1, StopTyped DEF TurnsTyped
  <2>2. CASE UNCHANGED <<pane, bridge, fate, capturing>>
    BY <1>1, <1>2, <2>2 DEF PaneTyped, TurnsTyped, RestTyped
  <2> QED BY <2>1, <2>2 DEF SweepLook, Sweep, ReconcileLook, ReconcileStop, DeleteStop, hub
<1>5. sweep' \in 0..MaxSessions BY <1>1, <1>2, Constants DEF Sessions, RestTyped
<1>6. RestTyped' BY <1>1, <1>2, <1>4, <1>5, Counted DEF RestTyped
<1> QED BY <1>3, <1>4, <1>6 DEF TInv, TypeOK

LEMMA ChatTInv ==
    ASSUME TInv, DeleteChat \/ SetChatMuted \/ captureCodexChatSession \/ CaptureExpires
    PROVE  TInv'
<1>1. RowTyped /\ PaneTyped /\ TurnsTyped /\ RestTyped BY DEF TInv, TypeOK
<1>2. /\ UNCHANGED <<pane, bridge, doc, fate, lock, recent, op, sweep, reconcile, next>>
      /\ deleting' \in {deleting, FALSE} /\ capturing' \in {capturing, NoSession}
      /\ stray' \subseteq stray \union {capturing}
      /\ Command \/ UNCHANGED counts
  BY DEF DeleteChat, SetChatMuted, captureCodexChatSession, CaptureExpires, hub, slot, stops
<1>3. OpTyped' /\ ResumesASession' BY <1>2, Stays
<1>4. PaneTyped' /\ TurnsTyped' BY <1>1, <1>2 DEF PaneTyped, TurnsTyped
<1>5. RowTyped'
  <2>1. CASE DeleteChat BY <2>1, Constants DEF DeleteChat, RowTyped
  <2>2. CASE SetChatMuted BY <1>1, <2>2 DEF SetChatMuted, RowTyped, Chats
  <2>3. CASE captureCodexChatSession
    BY <1>1, <2>3 DEF captureCodexChatSession, RowTyped, RestTyped, Chats
  <2>4. CASE CaptureExpires BY <1>1, <2>4 DEF CaptureExpires, RowTyped
  <2> QED BY <2>1, <2>2, <2>3, <2>4
<1>6. RestTyped' BY <1>1, <1>2, Constants, Counted DEF RestTyped
<1> QED BY <1>3, <1>4, <1>5, <1>6 DEF TInv, TypeOK

LEMMA AgentTInv ==
    ASSUME TInv,
           \/ Read \/ Finish \/ (\E s \in Sessions : TranscriptQuiet(s))
           \/ DeliveryOld \/ Dies
    PROVE  TInv'
<1>1. RowTyped /\ PaneTyped /\ TurnsTyped /\ RestTyped BY DEF TInv, TypeOK
<1>2. /\ UNCHANGED <<chat, lock, op, sweep, reconcile, deleting, next, stray>>
      /\ recent' \in {recent, FALSE} /\ capturing' \in {capturing, NoSession}
      /\ Fault \/ UNCHANGED counts
  BY DEF Read, Finish, TranscriptQuiet, DeliveryOld, Dies, hub, slot, stops
<1>3. OpTyped' /\ ResumesASession' BY <1>2, Stays
<1>4. RowTyped' BY <1>1, <1>2 DEF RowTyped
<1>5. RestTyped' BY <1>1, <1>2, Constants, Counted DEF RestTyped
<1>6. PaneTyped' /\ TurnsTyped'
  <2>1. CASE Read
    <3>1. pane' = [pane EXCEPT !.busy = TRUE] /\ doc' = [doc EXCEPT ![pane.id] = "fresh"]
          /\ bridge' = bridge
      BY <2>1 DEF Read
    <3>2. PaneTyped' BY <1>1, <3>1 DEF PaneTyped
    <3>3. fate' \in [Turns -> Fates] BY <1>1, <2>1 DEF Read, TurnsTyped, Fates
    <3> QED BY <3>2, <3>3 DEF TurnsTyped
  <2>2. CASE Finish BY <1>1, <2>2 DEF Finish, PaneTyped, TurnsTyped
  <2>3. ASSUME NEW s \in Sessions, TranscriptQuiet(s) PROVE PaneTyped' /\ TurnsTyped'
    BY <1>1, <2>3 DEF TranscriptQuiet, PaneTyped, TurnsTyped
  <2>4. CASE DeliveryOld BY <1>1, <2>4 DEF DeliveryOld, PaneTyped, TurnsTyped, hub
  <2>5. CASE Dies
    <3>1. pane' = NoPane /\ bridge' = FALSE /\ doc' = doc /\ fate' = WithPane(fate)
      BY <2>5 DEF Dies
    <3> QED BY <1>1, <3>1, Constants, PaneGoes DEF PaneTyped, TurnsTyped
  <2> QED BY <2>1, <2>2, <2>3, <2>4, <2>5
<1> QED BY <1>3, <1>4, <1>5, <1>6 DEF TInv, TypeOK

LEMMA RestartTInv ==
    ASSUME TInv, Restart
    PROVE  TInv'
<1>1. RowTyped /\ PaneTyped /\ TurnsTyped /\ RestTyped BY DEF TInv, TypeOK
<1>2. RowTyped' /\ PaneTyped' BY <1>1 DEF Restart, RowTyped, PaneTyped
<1>3. TurnsTyped' BY <1>1 DEF Restart, TurnsTyped, Fates
<1>4. op' \in [Actors -> Ops] /\ \A a \in Actors : op'[a].pc = "idle"
  BY Constants DEF Restart, Idle
<1>5. OpTyped' /\ ResumesASession'
  BY <1>4, SteererAssumption DEF Restart, OpTyped, HolderPastLock, ResumesASession
<1>6. RestTyped'
  <2>1. /\ sweep' = NoSession /\ capturing' = NoSession /\ UNCHANGED <<next, stray>>
        /\ recent' = FALSE /\ reconcile' = FALSE /\ deleting' = FALSE /\ Fault
    BY DEF Restart
  <2> QED BY <1>1, <2>1, Constants, Counted DEF RestTyped
<1> QED BY <1>2, <1>3, <1>5, <1>6 DEF TInv, TypeOK

LEMMA NextTInv == TInv /\ [Next]_vars => TInv'
<1> SUFFICES ASSUME TInv, [Next]_vars PROVE TInv'
  OBVIOUS
<1>1. ASSUME NEW a \in Actors, Step(a) PROVE TInv'
  BY <1>1, DeliverTInv, DeliverEndsTInv, AskTInv, AskedTInv, ReleaseTInv, ResumeTInv,
     RefusedTInv, StartTInv, RecordTInv, SwitchStopTInv, SwitchLaunchTInv, SwitchRecordTInv
     DEF Step
<1>2. CASE UNCHANGED vars
  BY <1>2 DEF vars, TInv, TypeOK, ResumesASession, RowTyped, PaneTyped, TurnsTyped, OpTyped,
              HolderPastLock, RestTyped
<1> QED
  BY <1>1, <1>2, SweepTInv, ChatTInv, AgentTInv, RestartTInv DEF Next

-----------------------------------------------------------------------------
(* The stamp of the last delivery covers every turn that is on its way to an    *)
(* agent or unread in its box, and an agent in a turn writes its transcript.    *)

UnreadStamped == \A t \in Turns : fate[t] = "box" => recent
DeliveryStamped ==
    \A a \in Actors : op[a].pc \in {"wake", "resume", "start", "record"} => recent
BusyWrites == pane.busy => pane.id \in Sessions /\ doc[pane.id] = "fresh"

IInv == TInv /\ UnreadStamped /\ DeliveryStamped /\ BusyWrites

LEMMA InitIInv == Init => IInv
<1> SUFFICES ASSUME Init PROVE IInv
  OBVIOUS
<1>1. UnreadStamped BY DEF Init, UnreadStamped
<1>2. DeliveryStamped BY DEF Init, DeliveryStamped, Idle
<1>3. BusyWrites BY DEF Init, BusyWrites, NoPane
<1> QED BY <1>1, <1>2, <1>3, InitTInv DEF IInv

\* Losing a pane puts no turn into a box.
LEMMA PaneBoxes ==
    ASSUME NEW f, NEW t \in Turns, WithPane(f)[t] = "box"
    PROVE  f[t] = "box"
BY DEF WithPane

LEMMA StopBoxes ==
    ASSUME IInv, NEW f \in [Turns -> Fates], Stop(f), doc' = doc
    PROVE  BusyWrites' /\ \A t \in Turns : fate'[t] = "box" => f[t] = "box"
BY PaneBoxes DEF Stop, IInv, BusyWrites, NoPane

\* Actors whose label changes to one that needs no stamp disturb nothing.
LEMMA LeavesStamped ==
    ASSUME IInv, NEW a \in Actors, NEW o, op' = [op EXCEPT ![a] = o], recent' = recent,
           o.pc \notin {"wake", "resume", "start", "record"}
    PROVE  DeliveryStamped'
BY DEF IInv, TInv, TypeOK, OpTyped, DeliveryStamped

LEMMA DeliverIInv ==
    ASSUME IInv, NEW a \in Actors, NEW t \in Turns,
           \/ DeliverWake(a, t) \/ DeliverResume(a, t) \/ DeliverStart(a, t)
           \/ AskedStart(a) \/ AskedResume(a)
    PROVE  UnreadStamped' /\ DeliveryStamped' /\ BusyWrites'
<1>1. recent' = TRUE /\ UNCHANGED <<pane, doc>>
  BY DEF DeliverWake, DeliverResume, DeliverStart, Begin, AskedStart, AskedResume,
         AskedLaunch, hub
<1> QED BY <1>1 DEF IInv, UnreadStamped, DeliveryStamped, BusyWrites

LEMMA AsideIInv ==
    ASSUME IInv, NEW a \in Actors, NEW t \in Turns,
           \/ LookupFails(a, t) \/ DeliverMuted(a, t) \/ DeliverCold(a, t)
           \/ postApprovedReplyViaChat(a, t) \/ captureKBViaChat(a, t)
           \/ postCorrectionToChat(a, t)
    PROVE  UnreadStamped' /\ DeliveryStamped' /\ BusyWrites'
<1>1. /\ UNCHANGED <<pane, doc, recent>>
      /\ \A u \in Turns : fate'[u] = "box" => fate[u] = "box"
  BY DEF LookupFails, DeliverMuted, DeliverCold, postApprovedReplyViaChat,
         captureKBViaChat, postCorrectionToChat, Ask, hub, slot, IInv, TInv, TypeOK,
         TurnsTyped
<1>2. DeliveryStamped'
  <2>1. CASE op' = op BY <1>1, <2>1 DEF IInv, DeliveryStamped
  <2>2. CASE \E f : Ask(a, t, f)
    BY <1>1, <2>2, LeavesStamped DEF Ask
  <2> QED BY <2>1, <2>2 DEF LookupFails, DeliverMuted, DeliverCold,
       postApprovedReplyViaChat, captureKBViaChat, postCorrectionToChat
<1> QED BY <1>1, <1>2 DEF IInv, UnreadStamped, BusyWrites

LEMMA ReleaseIInv ==
    ASSUME IInv, NEW a \in Actors,
           Wake(a) \/ WakeFails(a) \/ LaunchFails(a) \/ AskedWake(a) \/ AskedCold(a)
    PROVE  UnreadStamped' /\ DeliveryStamped' /\ BusyWrites'
<1>1. op' = [op EXCEPT ![a] = Idle] /\ UNCHANGED <<pane, doc, recent>>
  BY DEF Wake, WakeFails, LaunchFails, AskedWake, AskedCold, Release, hub, slot
<1>2. DeliveryStamped' BY <1>1, LeavesStamped DEF Idle
<1>3. UnreadStamped'
  <2>1. CASE Wake(a)
    <3>1. recent BY <2>1 DEF Wake, IInv, DeliveryStamped
    <3> QED BY <1>1, <3>1 DEF UnreadStamped
  <2>2. CASE ~Wake(a)
    <3>1. \A u \in Turns : fate'[u] = "box" => fate[u] = "box"
      BY <2>2 DEF WakeFails, LaunchFails, AskedWake, AskedCold, IInv, TInv, TypeOK, TurnsTyped
    <3> QED BY <1>1, <3>1 DEF IInv, UnreadStamped
  <2> QED BY <2>1, <2>2
<1> QED BY <1>1, <1>2, <1>3 DEF IInv, BusyWrites

LEMMA LaunchIInv ==
    ASSUME IInv, NEW a \in Actors, resumeSteererChat(a) \/ startNewSteererChat(a)
    PROVE  UnreadStamped' /\ DeliveryStamped' /\ BusyWrites'
<1>1. recent' = recent /\ doc' = doc
  BY DEF resumeSteererChat, startNewSteererChat, slot
<1>2. recent
  BY DEF resumeSteererChat, startNewSteererChat, IInv, DeliveryStamped
<1>3. pane' = pane \/ ~pane'.busy
  BY DEF resumeSteererChat, startNewSteererChat, Launch
<1> QED BY <1>1, <1>2, <1>3 DEF IInv, UnreadStamped, DeliveryStamped, BusyWrites

LEMMA RefusedIInv ==
    ASSUME IInv, NEW a \in Actors, ResumeRefused(a)
    PROVE  UnreadStamped' /\ DeliveryStamped' /\ BusyWrites'
<1>1. recent' = recent /\ pane' = NoPane /\ op' = [op EXCEPT ![a] = Idle]
  BY DEF ResumeRefused, Release
<1>2. recent BY DEF ResumeRefused, IInv, DeliveryStamped
<1>3. DeliveryStamped' BY <1>1, LeavesStamped DEF Idle
<1> QED BY <1>1, <1>2, <1>3 DEF UnreadStamped, BusyWrites, NoPane

LEMMA RecordIInv ==
    ASSUME IInv, NEW a \in Actors, UpsertChat(a) \/ RecordFails(a)
    PROVE  UnreadStamped' /\ DeliveryStamped' /\ BusyWrites'
<1>1. recent' = recent /\ doc' = doc /\ op' = [op EXCEPT ![a] = Idle]
  BY DEF UpsertChat, RecordFails, Release, hub
<1>2. recent BY DEF UpsertChat, RecordFails, IInv, DeliveryStamped
<1>3. BusyWrites'
  <2>1. CASE UpsertChat(a) BY <2>1 DEF UpsertChat, hub, IInv, BusyWrites
  <2>2. CASE RecordFails(a)
    <3>1. [fate EXCEPT ![op[a].turn] = "cold"] \in [Turns -> Fates]
      BY TurnGoes DEF IInv, TInv, TypeOK, TurnsTyped, Fates
    <3> QED BY <2>2, <3>1, StopBoxes DEF RecordFails
  <2> QED BY <2>1, <2>2
<1>4. DeliveryStamped' BY <1>1, LeavesStamped DEF Idle
<1> QED BY <1>1, <1>2, <1>3, <1>4 DEF UnreadStamped

LEMMA SwitchIInv ==
    ASSUME IInv, NEW a \in Actors,
           \/ SwitchStop(a) \/ SwitchLaunch(a) \/ SetChatProvider(a)
           \/ SetChatSession(a) \/ SwitchFails(a)
    PROVE  UnreadStamped' /\ DeliveryStamped' /\ BusyWrites'
<1>1. recent' = recent
  BY DEF SwitchStop, SwitchLaunch, SetChatProvider, SetChatSession, SwitchFails, Release, slot
<1>2. op[a] \in Ops BY DEF IInv, TInv, TypeOK, OpTyped
<1>3. DeliveryStamped'
  <2>1. PICK o : /\ op' = [op EXCEPT ![a] = o]
                 /\ o.pc \notin {"wake", "resume", "start", "record"}
    <3>1. CASE SwitchStop(a)
      <4> DEFINE o == [pc |-> "relaunch", turn |-> NoTurn, fresh |-> FALSE,
                       row |-> [chat EXCEPT !.provider = Other(chat.provider)]]
      <4>1. op' = [op EXCEPT ![a] = o] /\ o.pc = "relaunch" BY <3>1 DEF SwitchStop
      <4> QED BY <4>1
    <3>2. CASE SwitchLaunch(a)
      <4>1. PICK s : op' = [op EXCEPT ![a].pc = "provider", ![a].row.session = s]
        BY <3>2 DEF SwitchLaunch
      <4> DEFINE o == [op[a] EXCEPT !.pc = "provider", !.row.session = s]
      <4>2. op' = [op EXCEPT ![a] = o] /\ o.pc = "provider" BY <1>2, <4>1 DEF Ops
      <4> QED BY <4>2
    <3>3. CASE SetChatProvider(a)
      <4> DEFINE o == [op[a] EXCEPT !.pc = "session"]
      <4>1. op' = [op EXCEPT ![a] = o] /\ o.pc = "session"
        BY <1>2, <3>3 DEF SetChatProvider, Ops
      <4> QED BY <4>1
    <3>4. CASE SetChatSession(a) \/ SwitchFails(a)
      <4>1. op' = [op EXCEPT ![a] = Idle] /\ Idle.pc = "idle"
        BY <3>4 DEF SetChatSession, SwitchFails, Release, Idle
      <4> QED BY <4>1
    <3> QED BY <3>1, <3>2, <3>3, <3>4
  <2> QED BY <1>1, <2>1, LeavesStamped
<1>4. UnreadStamped' /\ BusyWrites'
  <2>1. CASE SwitchStop(a)
    <3>1. BusyWrites' /\ \A t \in Turns : fate'[t] = "box" => fate[t] = "box"
      BY <2>1, StopBoxes DEF SwitchStop, IInv, TInv, TypeOK, TurnsTyped
    <3> QED BY <1>1, <3>1 DEF IInv, UnreadStamped
  <2>2. CASE SwitchLaunch(a)
    <3>1. CASE Found(op[a].row.provider)
      <4>1. UNCHANGED <<pane, doc, fate>> BY <2>2, <3>1 DEF SwitchLaunch, Launch
      <4> QED BY <1>1, <4>1 DEF IInv, UnreadStamped, BusyWrites
    <3>2. CASE ~Found(op[a].row.provider)
      <4>1. /\ pane' = [id |-> next', provider |-> op[a].row.provider, busy |-> TRUE]
            /\ doc' = [doc EXCEPT ![next'] = "fresh"]
            /\ fate' = WithPane(fate)
        BY <2>2, <3>2 DEF SwitchLaunch, Launch
      <4>2. next' \in Sessions BY <2>2, Opened DEF SwitchLaunch, IInv
      <4>3. BusyWrites' BY <4>1, <4>2 DEF IInv, TInv, TypeOK, PaneTyped, BusyWrites
      <4> QED BY <1>1, <4>1, <4>3, PaneBoxes DEF IInv, UnreadStamped
    <3> QED BY <3>1, <3>2
  <2>3. CASE SetChatProvider(a) \/ SetChatSession(a) \/ SwitchFails(a)
    <3>1. UNCHANGED <<pane, doc, fate>>
      BY <2>3 DEF SetChatProvider, SetChatSession, SwitchFails, hub
    <3> QED BY <1>1, <3>1 DEF IInv, UnreadStamped, BusyWrites
  <2> QED BY <2>1, <2>2, <2>3
<1> QED BY <1>3, <1>4

LEMMA ServiceIInv ==
    ASSUME IInv,
           \/ SweepLook \/ Sweep \/ ReconcileLook \/ ReconcileStop \/ DeleteStop
           \/ DeleteChat \/ SetChatMuted \/ captureCodexChatSession \/ CaptureExpires
    PROVE  UnreadStamped' /\ DeliveryStamped' /\ BusyWrites'
<1>1. UNCHANGED <<doc, recent, op>>
  BY DEF SweepLook, Sweep, ReconcileLook, ReconcileStop, DeleteStop, DeleteChat,
         SetChatMuted, captureCodexChatSession, CaptureExpires, hub, slot
<1>2. DeliveryStamped' BY <1>1 DEF IInv, DeliveryStamped
<1>3. CASE Stop(fate)
  <2>1. BusyWrites' /\ \A t \in Turns : fate'[t] = "box" => fate[t] = "box"
    BY <1>1, <1>3, StopBoxes DEF IInv, TInv, TypeOK, TurnsTyped
  <2> QED BY <1>1, <1>2, <2>1 DEF IInv, UnreadStamped
<1>4. CASE UNCHANGED <<pane, fate>>
  BY <1>1, <1>2, <1>4 DEF IInv, UnreadStamped, BusyWrites
<1> QED
  BY <1>3, <1>4 DEF SweepLook, Sweep, ReconcileLook, ReconcileStop, DeleteStop, DeleteChat,
                    SetChatMuted, captureCodexChatSession, CaptureExpires, hub

LEMMA AgentIInv ==
    ASSUME IInv,
           \/ Read \/ Finish \/ (\E s \in Sessions : TranscriptQuiet(s))
           \/ DeliveryOld \/ Dies \/ Restart
    PROVE  UnreadStamped' /\ DeliveryStamped' /\ BusyWrites'
<1> USE DEF IInv, UnreadStamped, DeliveryStamped, BusyWrites
<1>1. PaneTyped /\ fate \in [Turns -> Fates] BY DEF TInv, TypeOK, TurnsTyped
<1>2. CASE Read
  <2>1. /\ pane.id # NoSession /\ pane' = [pane EXCEPT !.busy = TRUE]
        /\ doc' = [doc EXCEPT ![pane.id] = "fresh"]
        /\ UNCHANGED <<recent, op>>
    BY <1>2 DEF Read, slot
  <2>2. \A t \in Turns : fate'[t] = "box" => fate[t] = "box" BY <1>1, <1>2 DEF Read
  <2>3. pane.id \in Sessions
    BY <1>1, <2>1, SteererAssumption DEF PaneTyped, Sessions, NoSession
  <2>4. BusyWrites' BY <1>1, <2>1, <2>3 DEF PaneTyped
  <2> QED BY <2>1, <2>2, <2>4
<1>3. CASE Finish
  <2>1. ~pane'.busy /\ UNCHANGED <<doc, fate, recent, op>> BY <1>1, <1>3 DEF Finish, PaneTyped, slot
  <2> QED BY <2>1
<1>4. ASSUME NEW s \in Sessions, TranscriptQuiet(s)
      PROVE  UnreadStamped' /\ DeliveryStamped' /\ BusyWrites'
  <2>1. /\ UNCHANGED <<pane, fate, recent, op>> /\ ~(pane.id = s /\ pane.busy)
        /\ doc' = [doc EXCEPT ![s] = "quiet"]
    BY <1>4 DEF TranscriptQuiet, slot
  <2>2. BusyWrites' BY <1>1, <2>1 DEF PaneTyped
  <2> QED BY <2>1, <2>2
<1>5. CASE DeliveryOld
  <2>1. UNCHANGED <<pane, doc, fate, op>> /\ lock = NoOne BY <1>5 DEF DeliveryOld, hub
  <2>2. \A t \in Turns : fate[t] # "box" BY <1>5 DEF DeliveryOld
  <2>3. \A a \in Actors : op[a].pc \in {"idle", "asked"}
    BY <2>1, SteererAssumption DEF TInv, TypeOK, OpTyped, HolderPastLock
  <2> QED BY <2>1, <2>2, <2>3
<1>6. CASE Dies
  <2>1. /\ pane' = NoPane /\ fate' = WithPane(fate) /\ UNCHANGED <<recent, op>>
    BY <1>6 DEF Dies, slot
  <2> QED BY <2>1, PaneBoxes DEF NoPane
<1>7. CASE Restart
  <2>1. UNCHANGED <<pane, doc>> /\ \A a \in Actors : op'[a].pc = "idle"
    BY <1>7 DEF Restart, Idle
  <2>2. \A t \in Turns : fate'[t] # "box" BY <1>1, <1>7 DEF Restart
  <2> QED BY <2>1, <2>2
<1> QED BY <1>2, <1>3, <1>4, <1>5, <1>6, <1>7

LEMMA NextIInv == IInv /\ [Next]_vars => IInv'
<1> SUFFICES ASSUME IInv, [Next]_vars PROVE IInv'
  OBVIOUS
<1>1. TInv' BY NextTInv DEF IInv
<1>2. ASSUME NEW a \in Actors, Step(a) PROVE UnreadStamped' /\ DeliveryStamped' /\ BusyWrites'
  <2>1. ASSUME NEW t \in Turns,
               \/ DeliverWake(a, t) \/ DeliverResume(a, t) \/ DeliverStart(a, t)
               \/ DeliverMuted(a, t) \/ DeliverCold(a, t) \/ LookupFails(a, t)
               \/ postApprovedReplyViaChat(a, t) \/ captureKBViaChat(a, t)
               \/ postCorrectionToChat(a, t)
        PROVE  UnreadStamped' /\ DeliveryStamped' /\ BusyWrites'
    BY <2>1, DeliverIInv, AsideIInv
  <2>2. CASE AskedStart(a) \/ AskedResume(a)
    <3>1. recent' = TRUE /\ UNCHANGED <<pane, doc>>
      BY <2>2 DEF AskedStart, AskedResume, AskedLaunch, hub
    <3> QED BY <3>1 DEF IInv, UnreadStamped, DeliveryStamped, BusyWrites
  <2> QED
    BY <1>2, <2>1, <2>2, ReleaseIInv, LaunchIInv, RefusedIInv, RecordIInv, SwitchIInv DEF Step
<1>3. ASSUME UNCHANGED vars PROVE UnreadStamped' /\ DeliveryStamped' /\ BusyWrites'
  <2>1. UNCHANGED <<fate, recent, op, pane, doc>> BY <1>3 DEF vars
  <2>2. UnreadStamped' BY <2>1 DEF IInv, UnreadStamped
  <2>3. DeliveryStamped' BY <2>1 DEF IInv, DeliveryStamped
  <2>4. BusyWrites' BY <2>1 DEF IInv, BusyWrites
  <2> QED BY <2>2, <2>3, <2>4
<1>4. ASSUME Next PROVE UnreadStamped' /\ DeliveryStamped' /\ BusyWrites'
  BY <1>2, <1>4, ServiceIInv, AgentIInv DEF Next
<1>5. UnreadStamped' /\ DeliveryStamped' /\ BusyWrites'
  BY <1>3, <1>4
<1> QED BY <1>1, <1>5 DEF IInv

-----------------------------------------------------------------------------
\* A step that ends a session at the end of a sweep is the sweep's own.
LEMMA SweepStep ==
    ASSUME IInv, [Next]_vars,
           sweep # NoSession, sweep' = NoSession, pane.id # NoSession, pane'.id = NoSession
    PROVE  sweep # pane.id \/ (~pane.busy /\ \A t \in Turns : fate[t] # "box")
<1>1. Sweep
  <2>1. ASSUME NEW a \in Actors, Step(a) PROVE sweep' = sweep
    BY <2>1 DEF Step, DeliverWake, DeliverResume, DeliverStart, DeliverMuted, DeliverCold,
                LookupFails, Begin, postApprovedReplyViaChat, captureKBViaChat,
                postCorrectionToChat, Ask, AskedWake, AskedStart, AskedResume, AskedLaunch,
                AskedCold, Wake, WakeFails, Release, resumeSteererChat, ResumeRefused,
                startNewSteererChat, UpsertChat, LaunchFails, RecordFails, SwitchStop, SwitchLaunch,
                SetChatProvider, SetChatSession, SwitchFails, stops
  <2>2. ~SweepLook BY DEF SweepLook
  <2> QED
    BY <2>1, <2>2
       DEF Next, vars, captureCodexChatSession, CaptureExpires, ReconcileLook,
           ReconcileStop, DeleteStop, DeleteChat, SetChatMuted, Read, Finish, TranscriptQuiet, DeliveryOld, Dies,
           Restart, stops
<1>2. Sleeps BY <1>1 DEF Sweep
<1> QED
  BY <1>2 DEF Sleeps, IInv, UnreadStamped, BusyWrites

\* Every variable keeps its type; a bridge leads to an agent, and only the holder of
\* the slot's mutex is past its lock.
THEOREM TypeCorrect == Spec => []TypeOK
<1>1. TInv => TypeOK BY DEF TInv
<1> QED BY <1>1, InitTInv, NextTInv, PTL DEF Spec

\* The idle sweep ends neither a session in a turn nor one whose stamped turn is
\* unread, unless it had chosen another conversation (steerer_session.go:1174).
THEOREM SweepSpares == Spec => SweepSparesWork
<1>1. IInv /\ [Next]_vars
      => [ (sweep # NoSession /\ sweep' = NoSession /\ pane.id # NoSession /\ pane'.id = NoSession)
           => \/ sweep # pane.id
              \/ ~pane.busy /\ \A t \in Turns : fate[t] # "box" ]_vars
  BY SweepStep
<1> QED BY <1>1, InitIInv, NextIInv, PTL DEF Spec, SweepSparesWork

-----------------------------------------------------------------------------
(* The row of the chat names the agent the server reaches, but for the strays.  *)
(* Between the launch of an agent and the update of the row it is the actor at  *)
(* work under the mutex that knows the conversation.                            *)

\* The agent has the id s, or the one a capture is about to write, or is a stray.
Accounted(s) == pane.id \in {s, capturing} \/ pane.id \in stray

\* The capture is about the agent the bridge leads to.
Captured == capturing # NoSession => bridge /\ pane.id = capturing /\ pane.provider = "codex"

NoRow == ~chat.there => chat.session = NoSession

\* Beside a capture that has a row to write to nobody starts a conversation, and only
\* one with an id that names nobody is about to be recorded.
StartsApart ==
    capturing # NoSession /\ chat.there =>
        \A a \in Actors : /\ op[a].pc # "start"
                          /\ op[a].pc = "record" => op[a].row.session = Stub

\* What an actor at work will leave behind.
Knows(a) ==
    /\ op[a].pc # "relaunch"
    /\ op[a].pc = "wake" => (chat.there => Accounted(chat.session))
    /\ op[a].pc = "record" => op[a].row.session = Stub \/ Accounted(op[a].row.session)
    /\ op[a].pc \in {"provider", "session"} =>
         \/ op[a].row.session = NoSession
         \/ capturing = NoSession /\ Accounted(op[a].row.session)

Named ==
    bridge =>
        /\ lock = NoOne /\ chat.there => Accounted(chat.session)
        /\ \A a \in Actors : Knows(a)

NameInv == NoRow /\ Captured /\ StartsApart /\ Named

LEMMA InitNameInv == Init => NameInv
BY DEF Init, NoChat, NameInv, NoRow, Captured, StartsApart, Named

\* Without a bridge there is nothing to name.
LEMMA Unreached ==
    ASSUME NameInv, ~bridge', capturing' \in {capturing, NoSession},
           bridge => capturing' = NoSession, UNCHANGED <<chat.there, chat.session>>
    PROVE  NameInv'
BY DEF NameInv, NoRow, Captured, StartsApart, Named

LEMMA StopNamed ==
    ASSUME NameInv, NEW f, Stop(f), chat' = chat
    PROVE  NameInv'
<1>1. ~bridge' /\ capturing' \in {capturing, NoSession} /\ (bridge => capturing' = NoSession)
  BY DEF Stop
<1> QED BY <1>1, Unreached

\* What the names are about.
named == <<pane.id, pane.provider, bridge, capturing, chat.there, chat.session, stray>>

LEMMA NamedStays ==
    ASSUME NameInv, UNCHANGED named, UNCHANGED <<lock, op>>
    PROVE  NameInv'
BY DEF named, NameInv, NoRow, Captured, StartsApart, Named, Knows, Accounted

\* Whoever holds the mutex is alone past the lock.
LEMMA Alone ==
    ASSUME TInv, NEW a \in Actors, lock \in {a, NoOne}, NEW o, op' = [op EXCEPT ![a] = o]
    PROVE  /\ op'[a] = o
           /\ \A b \in Actors : b # a => op'[b].pc \in {"idle", "asked"}
<1>1. op \in [Actors -> Ops] BY DEF TInv, TypeOK, OpTyped
<1>2. \A b \in Actors : b # a => op[b].pc \in {"idle", "asked"}
  BY SteererAssumption DEF TInv, TypeOK, OpTyped, HolderPastLock
<1> QED BY <1>1, <1>2

\* An actor that is not past its lock has nothing to know.
LEMMA AsideNamed ==
    ASSUME TInv, NameInv, UNCHANGED named, lock' = lock, NEW a \in Actors,
           NEW o, op' = [op EXCEPT ![a] = o], o.pc \in {"idle", "asked"}
    PROVE  NameInv'
<1>1. op \in [Actors -> Ops] BY DEF TInv, TypeOK, OpTyped
<1>2. op'[a].pc \in {"idle", "asked"} /\ \A b \in Actors \ {a} : op'[b] = op[b] BY <1>1
<1>3. Captured' BY DEF named, NameInv, Captured
<1>4. StartsApart' /\ NoRow' BY <1>2 DEF named, NameInv, StartsApart, NoRow
<1>5. Named' BY <1>2 DEF named, NameInv, Named, Knows, Accounted
<1> QED BY <1>3, <1>4, <1>5 DEF NameInv

LEMMA DeliverNamed ==
    ASSUME TInv, NameInv, NEW a \in Actors, NEW t \in Turns,
           DeliverWake(a, t) \/ DeliverResume(a, t) \/ DeliverStart(a, t)
    PROVE  NameInv'
<1>1. PICK pc, row :
        /\ Begin(a, pc, t, row)
        /\ pc = "wake" \/ (pc = "resume" /\ ~bridge) \/ (pc = "start" /\ ~chat.there)
  BY DEF DeliverWake, DeliverResume, DeliverStart
<1>2. UNCHANGED named /\ lock = NoOne /\ lock' = a
  BY <1>1 DEF Begin, named, hub
<1>3. lock' # NoOne BY <1>2, SteererAssumption
<1> DEFINE o == [pc |-> pc, turn |-> t, row |-> row, fresh |-> FALSE]
<1>4. op'[a] = o /\ \A b \in Actors : b # a => op'[b].pc \in {"idle", "asked"}
  BY <1>1, <1>2, Alone DEF Begin
<1>5. op'[a].pc = pc BY <1>4
<1>6. Captured' BY <1>2 DEF named, NameInv, Captured
<1>7. StartsApart' /\ NoRow'
  BY <1>1, <1>2, <1>4, <1>5 DEF named, NameInv, StartsApart, NoRow, Captured
<1>8. Named'
  BY <1>1, <1>2, <1>3, <1>4, <1>5 DEF named, NameInv, Named, Knows, Accounted
<1> QED BY <1>6, <1>7, <1>8 DEF NameInv

LEMMA DeliverEndsNamed ==
    ASSUME TInv, NameInv, NEW a \in Actors, NEW t \in Turns,
           \/ LookupFails(a, t) \/ DeliverMuted(a, t) \/ DeliverCold(a, t)
           \/ postApprovedReplyViaChat(a, t) \/ captureKBViaChat(a, t)
           \/ postCorrectionToChat(a, t)
    PROVE  NameInv'
<1>1. CASE LookupFails(a, t) \/ DeliverMuted(a, t) \/ DeliverCold(a, t)
  <2>1. UNCHANGED named /\ UNCHANGED <<lock, op>>
    BY <1>1 DEF LookupFails, DeliverMuted, DeliverCold, named, hub, slot
  <2> QED BY <2>1, NamedStays
<1>2. ASSUME NEW fresh, Ask(a, t, fresh) PROVE NameInv'
  <2> DEFINE o == [pc |-> "asked", turn |-> t, row |-> chat, fresh |-> fresh]
  <2>1. UNCHANGED named /\ lock' = lock /\ op' = [op EXCEPT ![a] = o] /\ o.pc = "asked"
    BY <1>2 DEF Ask, named, hub, slot
  <2> QED BY <2>1, AsideNamed
<1> QED
  BY <1>1, <1>2 DEF postApprovedReplyViaChat, captureKBViaChat, postCorrectionToChat

LEMMA AskedNamed ==
    ASSUME TInv, NameInv, NEW a \in Actors,
           AskedWake(a) \/ AskedStart(a) \/ AskedResume(a) \/ AskedCold(a)
    PROVE  NameInv'
<1>1. CASE AskedWake(a)
  <2>1. UNCHANGED named /\ lock' = lock /\ op' = [op EXCEPT ![a] = Idle] /\ Idle.pc = "idle"
    BY <1>1 DEF AskedWake, named, hub, slot, Idle
  <2> QED BY <2>1, AsideNamed
<1>2. CASE ~AskedWake(a)
  <2>1. ~bridge /\ UNCHANGED <<bridge, capturing, chat>>
    BY <1>2 DEF AskedStart, AskedResume, AskedCold, AskedLaunch, hub
  <2> QED BY <2>1, Unreached
<1> QED BY <1>1, <1>2

\* The paste is over: the mutex goes, and the row names the agent.
LEMMA ReleaseNamed ==
    ASSUME TInv, NameInv, NEW a \in Actors, Wake(a) \/ WakeFails(a) \/ LaunchFails(a)
    PROVE  NameInv'
<1>1. CASE Wake(a)
  <2>1. UNCHANGED named /\ op' = [op EXCEPT ![a] = Idle] /\ Idle.pc = "idle"
    BY <1>1 DEF Wake, Release, named, hub, Idle
  <2>2. lock = a /\ op[a].pc = "wake"
    BY <1>1 DEF Wake, TInv, TypeOK, OpTyped, HolderPastLock
  <2>3. \A b \in Actors : op'[b].pc \in {"idle", "asked"} BY <2>1, <2>2, Alone
  <2>4. Captured' /\ StartsApart' /\ NoRow'
    BY <2>1, <2>3 DEF named, NameInv, Captured, StartsApart, NoRow
  <2>5. Named' BY <2>1, <2>2, <2>3 DEF named, NameInv, Named, Knows, Accounted
  <2> QED BY <2>4, <2>5 DEF NameInv
<1>2. CASE WakeFails(a) \/ LaunchFails(a)
  <2>1. ~bridge /\ UNCHANGED <<bridge, capturing, chat>> BY <1>2 DEF WakeFails, LaunchFails, hub
  <2> QED BY <2>1, Unreached
<1> QED BY <1>1, <1>2

\* A launch leaves a capture of the agent it leads to, or none.
LEMMA LaunchCaptured ==
    ASSUME TInv, NameInv, NEW provider, NEW id, NEW busy, Launch(provider, id, busy)
    PROVE  Captured'
<1>1. CASE bridge
  <2>1. UNCHANGED <<pane, bridge, capturing>> BY <1>1 DEF Launch, Found
  <2> QED BY <2>1 DEF NameInv, Captured
<1>2. CASE ~bridge
  <2>1. bridge' /\ capturing' = IF provider = "codex" THEN pane'.id ELSE NoSession
    BY <1>2 DEF Launch
  <2>2. pane'.provider = provider
    <3>1. CASE Found(provider) BY <1>2, <3>1 DEF Launch, Found
    <3>2. CASE ~Found(provider)
      <4>1. pane' = [id |-> id, provider |-> provider, busy |-> busy] BY <3>2 DEF Launch
      <4> QED BY <4>1
    <3> QED BY <3>1, <3>2
  <2> QED BY <2>1, <2>2 DEF Captured
<1> QED BY <1>1, <1>2

LEMMA ResumeNamed ==
    ASSUME TInv, NameInv, NEW a \in Actors,
           resumeSteererChat(a) \/ ResumeRefused(a)
    PROVE  NameInv'
<1>1. CASE resumeSteererChat(a)
  <2>1. /\ bridge' = TRUE /\ UNCHANGED <<chat, lock>> /\ lock = a
        /\ pane'.id \in {chat.session, capturing'} \/ pane'.id \in stray'
    BY <1>1 DEF resumeSteererChat, Launch, slot, TInv, TypeOK, OpTyped, HolderPastLock
  <2>2. Captured' BY <1>1, LaunchCaptured DEF resumeSteererChat
  <2> DEFINE o == [op[a] EXCEPT !.pc = "wake"]
  <2>3. op[a] \in Ops BY DEF TInv, TypeOK, OpTyped
  <2>4. op' = [op EXCEPT ![a] = o] /\ o.pc = "wake" BY <1>1, <2>3 DEF resumeSteererChat, Ops
  <2>5. op'[a].pc = "wake" /\ \A b \in Actors : b # a => op'[b].pc \in {"idle", "asked"}
    BY <2>1, <2>4, Alone
  <2>6. StartsApart' /\ NoRow' BY <2>1, <2>5 DEF NameInv, StartsApart, NoRow
  <2>7. Named' BY <2>1, <2>5, SteererAssumption DEF Named, Knows, Accounted
  <2> QED BY <2>2, <2>6, <2>7 DEF NameInv
<1>2. CASE ResumeRefused(a)
  <2>1. ~bridge /\ UNCHANGED <<bridge, capturing, chat>>
    BY <1>2 DEF ResumeRefused, Found
  <2> QED BY <2>1, Unreached
<1> QED BY <1>1, <1>2

LEMMA StartNamed ==
    ASSUME TInv, NameInv, NEW a \in Actors, startNewSteererChat(a)
    PROVE  NameInv'
<1> DEFINE provider == op[a].row.provider
           s == IF provider = "codex" THEN Stub ELSE next'
           o == [op[a] EXCEPT !.pc = "record", !.row.session = s]
<1>1. /\ UNCHANGED <<chat, lock>> /\ lock = a
      /\ op[a].pc = "start" /\ Launch(provider, next', FALSE)
  BY DEF startNewSteererChat, slot, TInv, TypeOK, OpTyped, HolderPastLock
<1>2. op[a] \in Ops BY DEF TInv, TypeOK, OpTyped
<1>3. op' = [op EXCEPT ![a] = o] BY DEF startNewSteererChat
<1>4. o.pc = "record" /\ o.row.session = s BY <1>2 DEF Ops, Chats
<1>5. /\ op'[a].pc = "record" /\ op'[a].row.session = s
      /\ \A b \in Actors : b # a => op'[b].pc \in {"idle", "asked"}
  BY <1>1, <1>3, <1>4, Alone
<1>6. Captured' /\ bridge' = TRUE BY <1>1, LaunchCaptured DEF Launch
<1>7. s = Stub \/ pane'.id \in {s, capturing'} \/ pane'.id \in stray'
  <2>1. CASE Found(provider)
    BY <1>1, <2>1 DEF startNewSteererChat, Launch
  <2>2. CASE ~Found(provider)
    <3>1. pane' = [id |-> next', provider |-> provider, busy |-> FALSE] BY <1>1, <2>2 DEF Launch
    <3> QED BY <3>1
  <2> QED BY <2>1, <2>2
<1>8. capturing' # NoSession /\ chat.there => s = Stub
  <2>1. CASE bridge
    <3>1. capturing' = capturing BY <1>1, <2>1 DEF Launch
    <3> QED BY <1>1, <3>1 DEF NameInv, StartsApart
  <2>2. CASE ~bridge
    BY <1>1, <2>2 DEF Launch
  <2> QED BY <2>1, <2>2
<1>9. StartsApart' /\ NoRow' BY <1>1, <1>5, <1>8 DEF NameInv, StartsApart, NoRow
<1>10. Named' BY <1>1, <1>5, <1>6, <1>7, SteererAssumption DEF Named, Knows, Accounted
<1> QED BY <1>6, <1>9, <1>10 DEF NameInv

LEMMA RecordNamed ==
    ASSUME TInv, NameInv, NEW a \in Actors, UpsertChat(a) \/ RecordFails(a)
    PROVE  NameInv'
<1>1. CASE UpsertChat(a)
  <2>1. /\ UNCHANGED <<pane, bridge, capturing>> /\ lock = a
        /\ op[a].pc = "record" /\ op' = [op EXCEPT ![a] = Idle] /\ Idle.pc = "idle"
        /\ stray \subseteq stray'
        /\ op[a].row.session = Stub => pane.id = capturing \/ pane.id \in stray'
    BY <1>1 DEF UpsertChat, Release, hub, Idle, TInv, TypeOK, OpTyped, HolderPastLock
  <2>2. op[a].row \in Chats BY DEF TInv, TypeOK, OpTyped, Ops
  <2>3. chat'.there /\ chat'.session = op[a].row.session BY <1>1, <2>2 DEF UpsertChat, Chats
  <2>4. \A b \in Actors : op'[b].pc \in {"idle", "asked"} BY <2>1, Alone
  <2>5. Captured' /\ StartsApart' /\ NoRow'
    BY <2>1, <2>3, <2>4 DEF NameInv, Captured, StartsApart, NoRow
  <2>6. Named' BY <2>1, <2>3, <2>4 DEF NameInv, Named, Knows, Accounted
  <2> QED BY <2>5, <2>6 DEF NameInv
<1>2. CASE RecordFails(a)
  BY <1>2, StopNamed DEF RecordFails
<1> QED BY <1>1, <1>2

LEMMA SwitchLaunchNamed ==
    ASSUME TInv, NameInv, NEW a \in Actors, SwitchLaunch(a)
    PROVE  NameInv'
<1> DEFINE target == op[a].row.provider
           s == IF target = "codex" THEN NoSession ELSE next'
           o == [op[a] EXCEPT !.pc = "provider", !.row.session = s]
<1>1. /\ op[a].pc = "relaunch" /\ UNCHANGED <<chat, lock>> /\ lock = a
      /\ Launch(target, next', TRUE)
  BY DEF SwitchLaunch, slot, TInv, TypeOK, OpTyped, HolderPastLock
<1>2. ~bridge BY <1>1 DEF NameInv, Named, Knows
<1>3. op[a] \in Ops BY DEF TInv, TypeOK, OpTyped
<1>4. op' = [op EXCEPT ![a] = o] BY DEF SwitchLaunch
<1>5. o.pc = "provider" /\ o.row.session = s BY <1>3 DEF Ops, Chats
<1>6. /\ op'[a].pc = "provider" /\ op'[a].row.session = s
      /\ \A b \in Actors : b # a => op'[b].pc \in {"idle", "asked"}
  BY <1>1, <1>4, <1>5, Alone
<1>7. Captured' /\ bridge' = TRUE BY <1>1, LaunchCaptured DEF Launch
<1>8. s = NoSession \/ (capturing' = NoSession /\ (pane'.id = s \/ pane'.id \in stray'))
  <2>1. SUFFICES ASSUME target # "codex"
                 PROVE  capturing' = NoSession /\ (pane'.id = s \/ pane'.id \in stray')
    OBVIOUS
  <2>2. capturing' = NoSession BY <1>1, <1>2, <2>1 DEF Launch
  <2>3. CASE Found(target)
    <3>1. pane' = pane /\ pane.id # NoSession BY <1>1, <1>2, <2>3 DEF Launch, Found
    <3> QED BY <2>2, <2>3, <3>1 DEF SwitchLaunch
  <2>4. CASE ~Found(target)
    <3>1. pane' = [id |-> next', provider |-> target, busy |-> TRUE] BY <1>1, <2>4 DEF Launch
    <3> QED BY <2>1, <2>2, <3>1
  <2> QED BY <2>3, <2>4
<1>9. StartsApart' /\ NoRow' BY <1>1, <1>6 DEF NameInv, StartsApart, NoRow
<1>10. Named' BY <1>1, <1>6, <1>7, <1>8, SteererAssumption DEF Named, Knows, Accounted
<1> QED BY <1>7, <1>9, <1>10 DEF NameInv

LEMMA SwitchRecordNamed ==
    ASSUME TInv, NameInv, NEW a \in Actors, SetChatProvider(a) \/ SetChatSession(a) \/ SwitchFails(a)
    PROVE  NameInv'
<1>1. /\ UNCHANGED <<pane, bridge, capturing>> /\ lock = a
      /\ op[a].pc \in {"relaunch", "provider", "session"}
  BY DEF SetChatProvider, SetChatSession, SwitchFails, hub, TInv, TypeOK, OpTyped,
         HolderPastLock
<1>2. op[a] \in Ops /\ chat \in Chats BY DEF TInv, TypeOK, OpTyped, RowTyped
<1>3. Captured' BY <1>1 DEF NameInv, Captured
<1>4. CASE SetChatProvider(a)
  <2> DEFINE o == [op[a] EXCEPT !.pc = "session"]
  <2>1. op' = [op EXCEPT ![a] = o] /\ o.pc = "session" /\ o.row = op[a].row
    BY <1>2, <1>4 DEF SetChatProvider, Ops
  <2>2. /\ op'[a].pc = "session" /\ op'[a].row = op[a].row
        /\ \A b \in Actors : b # a => op'[b].pc \in {"idle", "asked"}
    BY <1>1, <2>1, Alone
  <2>3. lock' = lock /\ stray' = stray /\ op[a].pc = "provider" BY <1>4 DEF SetChatProvider, slot
  <2>4. StartsApart' /\ NoRow'
    BY <1>2, <1>4, <2>2 DEF SetChatProvider, Chats, NameInv, StartsApart, NoRow
  <2>5. Named' BY <1>1, <2>2, <2>3, SteererAssumption DEF NameInv, Named, Knows, Accounted
  <2> QED BY <1>3, <2>4, <2>5 DEF NameInv
<1>5. CASE SetChatSession(a) \/ SwitchFails(a)
  <2>1. op' = [op EXCEPT ![a] = Idle] /\ Idle.pc = "idle"
    BY <1>5 DEF SetChatSession, SwitchFails, Release, Idle
  <2>2. \A b \in Actors : op'[b].pc \in {"idle", "asked"} BY <1>1, <2>1, Alone
  <2>3. StartsApart' /\ NoRow'
    BY <1>2, <1>5, <2>2 DEF SetChatSession, SwitchFails, Chats, NameInv, StartsApart, NoRow
  <2>4. bridge => (chat'.there => pane.id \in {chat'.session, capturing} \/ pane.id \in stray')
    <3>1. CASE SetChatSession(a)
      <4>1. /\ op[a].pc = "session"
            /\ stray \subseteq stray'
            /\ op[a].row.session = NoSession => pane.id = capturing \/ pane.id \in stray'
            /\ chat'.there => chat'.session = op[a].row.session
        BY <1>2, <3>1 DEF SetChatSession, Chats
      <4> QED BY <4>1 DEF NameInv, Named, Knows, Accounted
    <3>2. CASE SwitchFails(a)
      BY <1>1, <3>2 DEF SwitchFails, NameInv, Named, Knows
    <3> QED BY <1>5, <3>1, <3>2
  <2>5. Named' BY <1>1, <2>2, <2>4 DEF Named, Knows, Accounted
  <2> QED BY <1>3, <2>3, <2>5 DEF NameInv
<1> QED BY <1>4, <1>5

\* The capture names the agent it is about; a conversation about to be recorded
\* beside it has an id that names nobody.
LEMMA CaptureNamed ==
    ASSUME TInv, NameInv, captureCodexChatSession
    PROVE  NameInv'
<1>1. /\ capturing # NoSession /\ capturing' = NoSession /\ chat.there
      /\ UNCHANGED <<pane, bridge, lock, op>>
  BY DEF captureCodexChatSession, hub, slot
<1>2. bridge /\ pane.id = capturing BY <1>1 DEF NameInv, Captured
<1>3. chat'.there /\ chat'.session = pane.id
  BY <1>1, <1>2 DEF captureCodexChatSession, TInv, TypeOK, RowTyped, Chats
<1>4. \A a \in Actors : op[a].pc = "record" => op[a].row.session = Stub
  BY <1>1 DEF NameInv, StartsApart
<1>5. Named' BY <1>1, <1>2, <1>3, <1>4 DEF NameInv, Named, Knows, Accounted
<1> QED BY <1>1, <1>3, <1>5 DEF NameInv, NoRow, Captured, StartsApart

\* A capture that is given up makes its agent a stray, if the row has it not.
LEMMA ExpiresNamed ==
    ASSUME TInv, NameInv, CaptureExpires
    PROVE  NameInv'
<1>1. /\ capturing # NoSession /\ capturing' = NoSession
      /\ stray' = stray \union ({capturing} \ {chat.session})
      /\ UNCHANGED <<chat, pane, bridge, lock, op>>
  BY DEF CaptureExpires, hub, slot
<1>2. bridge /\ pane.id = capturing BY <1>1 DEF NameInv, Captured
<1>3. pane.id = chat.session \/ pane.id \in stray' BY <1>1, <1>2
<1>4. \A a \in Actors :
        op[a].pc = "record" => op[a].row.session = Stub \/ pane.id \in stray'
  BY <1>1, <1>2, <1>3 DEF NameInv, StartsApart, NoRow
<1>5. Named' BY <1>1, <1>2, <1>3, <1>4 DEF NameInv, Named, Knows, Accounted
<1> QED BY <1>1, <1>5 DEF NameInv, NoRow, Captured, StartsApart

LEMMA ServiceNamed ==
    ASSUME TInv, NameInv,
           \/ SweepLook \/ Sweep \/ ReconcileLook \/ ReconcileStop \/ DeleteStop
           \/ DeleteChat \/ SetChatMuted
    PROVE  NameInv'
<1>1. CASE Stop(fate) /\ chat' = chat
  BY <1>1, StopNamed
<1>2. CASE SweepLook \/ ReconcileLook \/ SetChatMuted \/ (Sweep /\ ~Sleeps)
  <2>1. UNCHANGED <<pane, bridge, capturing, stray, lock, op>>
    BY <1>2 DEF SweepLook, Sweep, ReconcileLook, SetChatMuted, hub, slot
  <2>2. chat'.there = chat.there /\ chat'.session = chat.session
    BY <1>2 DEF SweepLook, Sweep, ReconcileLook, SetChatMuted, TInv, TypeOK, RowTyped, Chats
  <2> QED BY <2>1, <2>2, NamedStays DEF named
<1>3. CASE DeleteChat
  <2>1. ~chat'.there /\ UNCHANGED <<pane, bridge, capturing, stray, lock, op>>
    BY <1>3 DEF DeleteChat, NoChat, hub, slot
  <2>2. chat'.session = NoSession BY <1>3 DEF DeleteChat, NoChat
  <2> QED BY <2>1, <2>2 DEF NameInv, NoRow, Captured, StartsApart, Named, Knows, Accounted
<1> QED BY <1>1, <1>2, <1>3 DEF Sweep, ReconcileStop, DeleteStop

LEMMA AgentNamed ==
    ASSUME TInv, NameInv,
           \/ Read \/ Finish \/ (\E s \in Sessions : TranscriptQuiet(s))
           \/ DeliveryOld \/ Dies \/ Restart
    PROVE  NameInv'
<1>1. CASE Dies \/ Restart
  <2>1. ~bridge' /\ capturing' = NoSession /\ chat' = chat BY <1>1 DEF Dies, Restart
  <2> QED BY <2>1, Unreached
<1>2. CASE ~(Dies \/ Restart)
  <2>1. UNCHANGED <<chat, bridge, capturing, stray, lock, op>>
    BY <1>2 DEF Read, Finish, TranscriptQuiet, DeliveryOld, hub, slot
  <2>2. pane'.id = pane.id /\ pane'.provider = pane.provider
    BY <1>2 DEF Read, Finish, TranscriptQuiet, DeliveryOld, hub, TInv, TypeOK, PaneTyped
  <2> QED BY <2>1, <2>2, NamedStays DEF named
<1> QED BY <1>1, <1>2

LEMMA NextNameInv == TInv /\ NameInv /\ [Next]_vars => NameInv'
<1> SUFFICES ASSUME TInv, NameInv, [Next]_vars PROVE NameInv'
  OBVIOUS
<1>1. ASSUME NEW a \in Actors, Step(a) PROVE NameInv'
  <2>1. CASE SwitchStop(a) BY <2>1, StopNamed DEF SwitchStop
  <2> QED
    BY <1>1, <2>1, DeliverNamed, DeliverEndsNamed, AskedNamed, ReleaseNamed, ResumeNamed,
       StartNamed, RecordNamed, SwitchLaunchNamed, SwitchRecordNamed DEF Step
<1>2. CASE UNCHANGED vars
  BY <1>2, NamedStays DEF vars, named
<1> QED
  BY <1>1, <1>2, ServiceNamed, CaptureNamed, ExpiresNamed, AgentNamed DEF Next

\* When nobody is at work under the mutex, the row names the session the server
\* reaches, but for the strays of the named steps: for any actors and bounds.
THEOREM RowNamed == Spec => []RowNamesAgent
<1>1. Init => TInv /\ NameInv
  BY InitTInv, InitNameInv
<1>2. TInv /\ NameInv /\ [Next]_vars => (TInv /\ NameInv)'
  BY NextTInv, NextNameInv
<1>3. NameInv => RowNamesAgent
  BY DEF NameInv, Named, Accounted, RowNamesAgent
<1> QED BY <1>1, <1>2, <1>3, PTL DEF Spec
===============================================================================
