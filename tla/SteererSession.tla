----------------------------- MODULE SteererSession -----------------------------
(* The agent session that watches one channel (server/steerer_session.go).  A   *)
(* chats row names the session; the agent runs in a tmux pane and the server    *)
(* reaches it over a bridge.  Messages, the operator's approved replies and     *)
(* corrections, and the switch of provider are serialised by the slot's mutex;  *)
(* the idle sweep takes it to put a quiet session to sleep; chat-delete and the *)
(* reconciler of deleted chats stop the session without it.                     *)
EXTENDS Integers, FiniteSets

CONSTANTS
    Actors,       \* who goes through the slot: the cascade, the operator, a worker
    Turns,        \* what the session is to be told
    MaxSessions,  \* bound: conversations
    MaxOps,       \* bound: switches, deletions and mutes together
    MaxFaults     \* bound: failed calls, deaths and restarts together

NoOne == "nobody"

ASSUME SteererAssumption ==
    /\ NoOne \notin Actors
    /\ MaxSessions \in Nat \ {0}
    /\ MaxOps \in Nat /\ MaxFaults \in Nat

VARIABLES
    chat,       \* the row of chats: is it there, its session, provider, muted_at
    pane,       \* the agent in tmux: its conversation, its provider, is it in a turn
    bridge,     \* the hub's session is running: hub.running(slug)
    doc,        \* each conversation's transcript: none, written within the TTL, quiet
    fate,       \* what became of each turn
    lock,       \* who holds slot.mu, or NoOne
    recent,     \* slot.lastDeliveryAt lies within the TTL
    op,         \* what each actor is doing
    sweep,      \* the conversation whose transcript the sweep found quiet
    reconcile,  \* the reconciler found the session of a deleted chat
    deleting,   \* chat-delete has stopped the session and not yet marked the row
    capturing,  \* the conversation whose id the codex capture is to record
    next,       \* conversations so far
    ops,        \* commands so far
    faults,     \* faults so far
    stray       \* conversations an agent runs that a named step left unnamed by the row

hub == <<pane, bridge, doc>>
slot == <<lock, recent>>
stops == <<sweep, reconcile, deleting>>
counts == <<ops, faults>>
vars == <<chat, pane, bridge, doc, fate, lock, recent, op, sweep, reconcile,
          deleting, capturing, next, ops, faults, stray>>

Sessions == 1..MaxSessions
NoSession == 0
\* the id flow mints for a codex launch, which codex ignores: it names no conversation
Stub == -1
Providers == {"claude", "codex"}
Other(p) == IF p = "claude" THEN "codex" ELSE "claude"

NoChat == [there |-> FALSE, session |-> NoSession, provider |-> "claude", muted |-> FALSE]
NoPane == [id |-> NoSession, provider |-> "claude", busy |-> FALSE]
NoTurn == "no turn"
Idle == [pc |-> "idle", turn |-> NoTurn, row |-> NoChat, fresh |-> FALSE]

-------------------------------------------------------------------------------
Init ==
    /\ chat = NoChat
    /\ pane = NoPane /\ bridge = FALSE
    /\ doc = [s \in Sessions |-> "none"]
    /\ fate = [t \in Turns |-> "new"]
    /\ lock = NoOne /\ recent = FALSE
    /\ op = [a \in Actors |-> Idle]
    /\ sweep = NoSession /\ reconcile = FALSE /\ deleting = FALSE
    /\ capturing = NoSession
    /\ next = 0 /\ ops = 0 /\ faults = 0
    /\ stray = {}

Fault == faults < MaxFaults /\ faults' = faults + 1 /\ UNCHANGED ops
Command == ops < MaxOps /\ ops' = ops + 1 /\ UNCHANGED faults
Open == next < MaxSessions /\ next' = next + 1

\* turns the agent has been handed and has not read go with its pane
Unread(f) == {t \in Turns : f[t] \in {"box", "unstamped"}}
WithPane(f) == [t \in Turns |-> IF t \in Unread(f) THEN "lost" ELSE f[t]]

\* stopFloating: without a bridge the pane is not reached and lives on
Stop(f) ==
    /\ bridge' = FALSE
    /\ IF bridge THEN pane' = NoPane /\ fate' = WithPane(f) /\ capturing' = NoSession
       ELSE fate' = f /\ UNCHANGED <<pane, capturing>>

\* a launch takes what it finds: a running bridge, or a pane of the same provider
Found(provider) == bridge \/ (pane.id # NoSession /\ pane.provider = provider)

\* The server ends up with a bridge to what it found, or to a new agent; a bridge it
\* had to open to a codex agent comes with a capture of the agent's id.
Launch(provider, id, busy) ==
    /\ bridge' = TRUE
    /\ pane' = IF Found(provider) THEN pane ELSE [id |-> id, provider |-> provider, busy |-> busy]
    /\ capturing' = IF bridge THEN capturing ELSE IF provider = "codex" THEN pane'.id ELSE NoSession

-------------------------------------------------------------------------------
(* A message of the channel: DeliverToChannelSession *)

Begin(a, pc, t, row) ==
    /\ lock = NoOne /\ op[a].pc = "idle" /\ fate[t] = "new"
    /\ lock' = a
    /\ op' = [op EXCEPT ![a] = [pc |-> pc, turn |-> t, row |-> row, fresh |-> FALSE]]
    /\ fate' = [fate EXCEPT ![t] = "held"]
    /\ recent' = TRUE
    /\ UNCHANGED <<chat, hub, stops, capturing, next, counts, stray>>

DeliverWake(a, t) == chat.there /\ ~chat.muted /\ bridge /\ Begin(a, "wake", t, chat)

DeliverResume(a, t) ==
    /\ chat.there /\ ~chat.muted /\ ~bridge /\ chat.session # NoSession
    /\ Begin(a, "resume", t, chat)

\* the provider of a new chat is the operator's choice
DeliverStart(a, t) ==
    ~chat.there /\ \E p \in Providers : Begin(a, "start", t, [NoChat EXCEPT !.provider = p])

LookupFails(a, t) ==
    /\ lock = NoOne /\ op[a].pc = "idle" /\ fate[t] = "new"
    /\ Fault
    /\ fate' = [fate EXCEPT ![t] = "cold"]
    /\ UNCHANGED <<chat, hub, slot, op, stops, capturing, next, stray>>

\* a muted chat consumes the message; a row without a session cannot be resumed
DeliverMuted(a, t) ==
    /\ lock = NoOne /\ op[a].pc = "idle" /\ fate[t] = "new"
    /\ chat.there /\ chat.muted
    /\ fate' = [fate EXCEPT ![t] = "muted"]
    /\ UNCHANGED <<chat, hub, slot, op, stops, capturing, next, counts, stray>>

DeliverCold(a, t) ==
    /\ lock = NoOne /\ op[a].pc = "idle" /\ fate[t] = "new"
    /\ chat.there /\ ~chat.muted /\ ~bridge /\ chat.session = NoSession
    /\ fate' = [fate EXCEPT ![t] = "cold"]
    /\ UNCHANGED <<chat, hub, slot, op, stops, capturing, next, counts, stray>>

-------------------------------------------------------------------------------
(* The operator's approved reply, fact or correction: the row is read first and *)
(* the mutex taken after                                                        *)

Ask(a, t, fresh) ==
    /\ op[a].pc = "idle" /\ fate[t] = "new" /\ chat.there
    /\ op' = [op EXCEPT ![a] = [pc |-> "asked", turn |-> t, row |-> chat, fresh |-> fresh]]
    /\ fate' = [fate EXCEPT ![t] = "held"]
    /\ UNCHANGED <<chat, hub, slot, stops, capturing, next, counts, stray>>

postApprovedReplyViaChat(a, t) == Ask(a, t, TRUE)
captureKBViaChat(a, t) == Ask(a, t, FALSE)
postCorrectionToChat(a, t) == ~chat.muted /\ Ask(a, t, FALSE)

\* the paste into a running session does not stamp lastDeliveryAt
AskedWake(a) ==
    /\ op[a].pc = "asked" /\ lock = NoOne /\ bridge
    /\ fate' = [fate EXCEPT ![op[a].turn] = "unstamped"]
    /\ op' = [op EXCEPT ![a] = Idle]
    /\ UNCHANGED <<chat, hub, slot, stops, capturing, next, counts, stray>>

AskedUnlocked(a, pc) ==
    /\ op[a].pc = "asked" /\ lock = NoOne /\ ~bridge
    /\ recent' = TRUE
    /\ op' = [op EXCEPT ![a].pc = pc]
    /\ UNCHANGED <<chat, hub, fate, lock, stops, capturing, next, counts, stray>>

\* only the reply asks whether the session it read is recorded as ended
AskedLaunch(a, pc) ==
    /\ op[a].pc = "asked" /\ lock = NoOne /\ ~bridge
    /\ lock' = a /\ recent' = TRUE
    /\ op' = [op EXCEPT ![a].pc = pc]
    /\ UNCHANGED <<chat, hub, fate, stops, capturing, next, counts, stray>>

AskedStart(a) ==
    /\ op[a].fresh /\ op[a].row.session \in Sessions \ {pane.id}
    /\ AskedLaunch(a, "start")
AskedResume(a) == op[a].row.session # NoSession /\ AskedLaunch(a, "resume")

AskedCold(a) ==
    /\ op[a].pc = "asked" /\ lock = NoOne /\ ~bridge /\ op[a].row.session = NoSession
    /\ fate' = [fate EXCEPT ![op[a].turn] = "cold"]
    /\ op' = [op EXCEPT ![a] = Idle]
    /\ UNCHANGED <<chat, hub, slot, stops, capturing, next, counts, stray>>

-------------------------------------------------------------------------------
(* Under the mutex: paste, resume, start *)

Release(a) == lock' = NoOne /\ op' = [op EXCEPT ![a] = Idle] /\ UNCHANGED recent

Wake(a) ==
    /\ op[a].pc = "wake" /\ bridge
    /\ fate' = [fate EXCEPT ![op[a].turn] = "box"]
    /\ Release(a)
    /\ UNCHANGED <<chat, hub, stops, capturing, next, counts, stray>>

\* the session went while the delivery waited for it to be ready
WakeFails(a) ==
    /\ op[a].pc = "wake" /\ ~bridge
    /\ fate' = [fate EXCEPT ![op[a].turn] = "cold"]
    /\ Release(a)
    /\ UNCHANGED <<chat, hub, stops, capturing, next, counts, stray>>

\* The pane is created, or found.  Codex gives every resume a new id, which the row
\* has once it is captured; a stray is an agent that neither the row nor a capture
\* is about to name.
resumeSteererChat(a) ==
    LET row == op[a].row
        renamed == row.provider = "codex" /\ ~Found("codex")
    IN
    /\ op[a].pc = "resume"
    /\ row.session = Stub => row.provider = "codex" \/ Found(row.provider)
    /\ IF renamed THEN Open ELSE UNCHANGED next
    /\ Launch(row.provider, IF renamed THEN next' ELSE row.session, FALSE)
    /\ fate' = IF Found(row.provider) THEN fate ELSE WithPane(fate)
    /\ stray' = IF pane'.id \in {chat.session, capturing'} THEN stray ELSE stray \union {pane'.id}
    /\ op' = [op EXCEPT ![a].pc = "wake"]
    /\ UNCHANGED <<chat, doc, slot, stops, counts>>

\* an agent asked for a conversation that does not exist is gone before the paste
ResumeRefused(a) ==
    LET row == op[a].row IN
    /\ op[a].pc = "resume"
    /\ row.session = Stub /\ ~Found(row.provider)
    /\ pane' = NoPane
    /\ fate' = [WithPane(fate) EXCEPT ![op[a].turn] = "cold"]
    /\ Release(a)
    /\ UNCHANGED <<chat, bridge, doc, stops, capturing, next, counts, stray>>

\* A new agent reads the turn in its prompt; one that was there never sees it.  The
\* id minted for claude is the conversation's, the one minted for codex nobody's.
startNewSteererChat(a) ==
    LET provider == op[a].row.provider
        t == op[a].turn
    IN
    /\ op[a].pc = "start"
    /\ Open
    /\ Launch(provider, next', FALSE)
    /\ fate' = IF Found(provider) THEN [fate EXCEPT ![t] = "lost"]
               ELSE [WithPane(fate) EXCEPT ![t] = "box"]
    /\ stray' = IF Found(provider) /\ capturing' # pane.id THEN stray \union {pane.id} ELSE stray
    /\ op' = [op EXCEPT ![a].pc = "record",
                        ![a].row.session = IF provider = "codex" THEN Stub ELSE next']
    /\ UNCHANGED <<chat, doc, slot, stops, counts>>

\* for codex the minted id is written over whatever the row has, also when the capture
\* has been quicker
UpsertChat(a) ==
    /\ op[a].pc = "record"
    /\ chat' = [op[a].row EXCEPT !.there = TRUE, !.muted = FALSE]
    /\ stray' = IF op[a].row.session = Stub /\ capturing # pane.id
                THEN stray \union {pane.id} ELSE stray
    /\ Release(a)
    /\ UNCHANGED <<hub, fate, stops, capturing, next, counts>>

\* a running bridge is taken as it is, so only a launch that starts one can fail
LaunchFails(a) ==
    /\ op[a].pc \in {"resume", "start"} /\ ~bridge
    /\ Fault
    /\ fate' = [fate EXCEPT ![op[a].turn] = "cold"]
    /\ Release(a)
    /\ UNCHANGED <<chat, hub, stops, capturing, next, stray>>

\* the row is not written: what was started is stopped, and the turn, which the
\* agent may have read, is handled without the session
RecordFails(a) ==
    /\ op[a].pc = "record"
    /\ Fault
    /\ Stop([fate EXCEPT ![op[a].turn] = "cold"])
    /\ Release(a)
    /\ UNCHANGED <<chat, doc, stops, next, stray>>

-------------------------------------------------------------------------------
(* switchSteererProvider: stop, relaunch, then two updates of the row *)

SwitchStop(a) ==
    /\ op[a].pc = "idle" /\ lock = NoOne /\ chat.there
    /\ Command
    /\ lock' = a
    /\ op' = [op EXCEPT ![a] = [pc |-> "relaunch", turn |-> NoTurn, fresh |-> FALSE,
                                row |-> [chat EXCEPT !.provider = Other(chat.provider)]]]
    /\ Stop(fate)
    /\ UNCHANGED <<chat, doc, recent, sweep, reconcile, deleting, next, stray>>

\* codex gives itself an id, which the capture finds later
SwitchLaunch(a) ==
    LET target == op[a].row.provider IN
    /\ op[a].pc = "relaunch"
    /\ Open
    /\ Launch(target, next', TRUE)
    /\ IF Found(target)
       THEN /\ stray' = IF capturing' = pane.id THEN stray ELSE stray \union {pane.id}
            /\ UNCHANGED <<doc, fate>>
       ELSE /\ doc' = [doc EXCEPT ![next'] = "fresh"]
            /\ fate' = WithPane(fate)
            /\ stray' = stray
    /\ op' = [op EXCEPT ![a].pc = "provider",
                        ![a].row.session = IF target = "codex" THEN NoSession ELSE next']
    /\ UNCHANGED <<chat, slot, stops, counts>>

SetChatProvider(a) ==
    /\ op[a].pc = "provider"
    /\ chat' = IF chat.there THEN [chat EXCEPT !.provider = op[a].row.provider] ELSE chat
    /\ op' = [op EXCEPT ![a].pc = "session"]
    /\ UNCHANGED <<hub, fate, slot, stops, capturing, next, counts, stray>>

SessionForgotten(a) ==
    /\ op[a].pc = "session"
    /\ Release(a)
    /\ UNCHANGED <<chat, hub, fate, stops, capturing, next, counts, stray>>

\* for codex the id is cleared, even when the capture has been quicker
SetChatSession(a) ==
    /\ op[a].pc = "session"
    /\ chat' = IF chat.there THEN [chat EXCEPT !.session = op[a].row.session] ELSE chat
    /\ stray' = IF op[a].row.session = NoSession /\ capturing # pane.id
                THEN stray \union {pane.id} ELSE stray
    /\ Release(a)
    /\ UNCHANGED <<hub, fate, stops, capturing, next, counts>>

SwitchFails(a) ==
    /\ op[a].pc \in {"relaunch", "provider", "session"}
    /\ Fault
    /\ stray' = IF op[a].pc = "relaunch" THEN stray ELSE stray \union {pane.id}
    /\ Release(a)
    /\ UNCHANGED <<chat, hub, fate, stops, capturing, next>>

\* without a row it waits for one
captureCodexChatSession ==
    /\ capturing # NoSession /\ chat.there
    /\ capturing' = NoSession
    /\ chat' = [chat EXCEPT !.session = capturing]
    /\ stray' = stray \ {capturing}
    /\ UNCHANGED <<hub, fate, slot, op, stops, next, counts>>

\* no row, or no file of the conversation, within its two minutes
CaptureExpires ==
    /\ capturing # NoSession
    /\ capturing' = NoSession
    /\ stray' = stray \union ({capturing} \ {chat.session})
    /\ UNCHANGED <<chat, hub, fate, slot, op, stops, next, counts>>

-------------------------------------------------------------------------------
(* The minute's sweep, and the reconciler of deleted chats *)

SweepLook ==
    /\ sweep = NoSession /\ ~reconcile
    /\ chat.there /\ bridge /\ chat.session \in Sessions
    /\ doc[chat.session] = "quiet"
    /\ sweep' = chat.session
    /\ UNCHANGED <<chat, hub, fate, slot, op, reconcile, deleting, capturing, next,
                   counts, stray>>

SleepsOnQuiet == bridge /\ doc[sweep] = "quiet"

\* asked again under the mutex
Sleeps == ~recent /\ bridge /\ doc[sweep] = "quiet"

Sweep ==
    /\ sweep # NoSession /\ lock = NoOne
    /\ IF Sleeps THEN Stop(fate) ELSE UNCHANGED <<pane, bridge, fate, capturing>>
    /\ sweep' = NoSession
    /\ UNCHANGED <<chat, doc, slot, op, reconcile, deleting, next, counts, stray>>

ReconcileLook ==
    /\ ~reconcile /\ sweep = NoSession
    /\ bridge /\ ~chat.there
    /\ reconcile' = TRUE
    /\ UNCHANGED <<chat, hub, fate, slot, op, sweep, deleting, capturing, next, counts,
                   stray>>

ReconcileStop ==
    /\ reconcile
    /\ reconcile' = FALSE
    /\ Stop(fate)
    /\ UNCHANGED <<chat, doc, slot, op, sweep, deleting, next, counts, stray>>

-------------------------------------------------------------------------------
(* The operator's commands on the chat *)

DeleteStop ==
    /\ ~deleting /\ chat.there
    /\ Command
    /\ deleting' = TRUE
    /\ Stop(fate)
    /\ UNCHANGED <<chat, doc, slot, op, sweep, reconcile, next, stray>>

DeleteChat ==
    /\ deleting
    /\ deleting' = FALSE
    /\ chat' = NoChat
    /\ UNCHANGED <<hub, fate, slot, op, sweep, reconcile, capturing, next, counts, stray>>

SetChatMuted ==
    /\ chat.there
    /\ Command
    /\ chat' = [chat EXCEPT !.muted = ~chat.muted]
    /\ UNCHANGED <<hub, fate, slot, op, stops, capturing, next, stray>>

-------------------------------------------------------------------------------
(* The agent, the clock, and what fails *)

Read ==
    /\ pane.id # NoSession
    /\ \E t \in Unread(fate) : fate' = [fate EXCEPT ![t] = "read"]
    /\ pane' = [pane EXCEPT !.busy = TRUE]
    /\ doc' = [doc EXCEPT ![pane.id] = "fresh"]
    /\ UNCHANGED <<chat, bridge, slot, op, stops, capturing, next, counts, stray>>

Finish ==
    /\ pane.busy
    /\ pane' = [pane EXCEPT !.busy = FALSE]
    /\ UNCHANGED <<chat, bridge, doc, fate, slot, op, stops, capturing, next, counts, stray>>

\* an agent in a turn writes its transcript; a sweep judges both ages by the time
\* at which it began
TranscriptQuiet(s) ==
    /\ sweep = NoSession
    /\ doc[s] = "fresh" /\ ~(pane.id = s /\ pane.busy)
    /\ doc' = [doc EXCEPT ![s] = "quiet"]
    /\ UNCHANGED <<chat, pane, bridge, fate, slot, op, stops, capturing, next, counts, stray>>

\* an agent reads what it was handed within the TTL, and a delivery is shorter
DeliveryOld ==
    /\ sweep = NoSession /\ recent /\ lock = NoOne
    /\ \A t \in Turns : fate[t] # "box"
    /\ recent' = FALSE
    /\ UNCHANGED <<chat, hub, fate, lock, op, stops, capturing, next, counts, stray>>

Dies ==
    /\ pane.id # NoSession
    /\ Fault
    /\ pane' = NoPane /\ bridge' = FALSE /\ capturing' = NoSession
    /\ fate' = WithPane(fate)
    /\ UNCHANGED <<chat, doc, slot, op, stops, next, stray>>

\* the agents live on in tmux; what the server was doing is gone, and so is the
\* stamp of the last delivery
Restart ==
    /\ Fault
    /\ bridge' = FALSE
    /\ lock' = NoOne /\ recent' = FALSE
    /\ op' = [a \in Actors |-> Idle]
    /\ sweep' = NoSession /\ reconcile' = FALSE /\ deleting' = FALSE
    /\ capturing' = NoSession
    /\ fate' = [t \in Turns |-> CASE fate[t] = "held" -> "cold"
                                  [] fate[t] = "box" -> "unstamped"
                                  [] OTHER -> fate[t]]
    /\ UNCHANGED <<chat, pane, doc, next, stray>>

-------------------------------------------------------------------------------
Step(a) ==
    \/ \E t \in Turns :
         \/ DeliverWake(a, t) \/ DeliverResume(a, t) \/ DeliverStart(a, t)
         \/ DeliverMuted(a, t) \/ DeliverCold(a, t) \/ LookupFails(a, t)
         \/ postApprovedReplyViaChat(a, t) \/ captureKBViaChat(a, t)
         \/ postCorrectionToChat(a, t)
    \/ AskedWake(a) \/ AskedStart(a) \/ AskedResume(a) \/ AskedCold(a)
    \/ Wake(a) \/ WakeFails(a)
    \/ resumeSteererChat(a) \/ ResumeRefused(a) \/ startNewSteererChat(a) \/ UpsertChat(a)
    \/ LaunchFails(a) \/ RecordFails(a)
    \/ SwitchStop(a) \/ SwitchLaunch(a) \/ SetChatProvider(a) \/ SetChatSession(a)
    \/ SwitchFails(a)

Next ==
    \/ \E a \in Actors : Step(a)
    \/ captureCodexChatSession \/ CaptureExpires
    \/ SweepLook \/ Sweep \/ ReconcileLook \/ ReconcileStop
    \/ DeleteStop \/ DeleteChat \/ SetChatMuted
    \/ Read \/ Finish \/ (\E s \in Sessions : TranscriptQuiet(s)) \/ DeliveryOld
    \/ Dies \/ Restart

Spec == Init /\ [][Next]_vars

-------------------------------------------------------------------------------
Chats == [there : BOOLEAN, session : {Stub} \union 0..MaxSessions, provider : Providers,
          muted : BOOLEAN]
Ops == [pc : {"idle", "asked", "wake", "resume", "start", "record", "relaunch",
              "provider", "session"},
        turn : Turns \union {NoTurn}, row : Chats, fresh : BOOLEAN]
Fates == {"new", "held", "box", "unstamped", "read", "cold", "muted", "lost"}

HolderPastLock == \A a \in Actors : op[a].pc \notin {"idle", "asked"} <=> lock = a

RowTyped == chat \in Chats
PaneTyped ==
    /\ pane \in [id : 0..MaxSessions, provider : Providers, busy : BOOLEAN]
    /\ bridge \in BOOLEAN /\ (bridge => pane.id # NoSession)
    /\ doc \in [Sessions -> {"none", "fresh", "quiet"}]
TurnsTyped == fate \in [Turns -> Fates]
OpTyped == lock \in Actors \union {NoOne} /\ op \in [Actors -> Ops] /\ HolderPastLock
RestTyped ==
    /\ sweep \in 0..MaxSessions /\ capturing \in 0..MaxSessions
    /\ recent \in BOOLEAN /\ reconcile \in BOOLEAN /\ deleting \in BOOLEAN
    /\ stray \subseteq 0..MaxSessions
    /\ next \in 0..MaxSessions /\ ops \in 0..MaxOps /\ faults \in 0..MaxFaults

\* The values the code gives each variable; a bridge leads to an agent, and only
\* the holder of slot.mu is past the lock of its operation.
TypeOK == RowTyped /\ PaneTyped /\ TurnsTyped /\ OpTyped /\ RestTyped

\* The idle sweep never ends a session in a turn, nor one whose delivery stamped
\* lastDeliveryAt and whose turn the agent has not read (steerer_session.go:1174).
\* It may end one that is in another conversation than the transcript it chose, since
\* it was switched or codex has given its resume an id the row does not have yet, one
\* handed a reply or a correction, which stamp nothing, and one whose stamp went with
\* a restart of the server.
SweepSparesWork ==
    [][ (sweep # NoSession /\ sweep' = NoSession /\ pane.id # NoSession /\ pane'.id = NoSession)
        => \/ sweep # pane.id
           \/ ~pane.busy /\ \A t \in Turns : fate[t] # "box" ]_vars

\* When nobody is at work under the mutex, a session the server reaches is the one
\* the chat's row names, so that the sweep, a resume and the transcript shown are
\* about it, or codex gave it an id that the capture is about to write there.  The
\* named exceptions: a launch that found another conversation's agent in the pane, one
\* made from a row read before the lock, a switch that fails between its updates, and
\* a codex session whose capture expired, or was quicker than the update of a start
\* or a switch, which writes over what it found.
RowNamesAgent ==
    (lock = NoOne /\ bridge /\ chat.there /\ pane.id \notin {chat.session, capturing})
    => pane.id \in stray
===============================================================================
