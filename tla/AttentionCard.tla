----------------------------- MODULE AttentionCard -----------------------------
(* The cards of the attention feed (flowdb/attention.go, steering/actions.go,   *)
(* steering/surface.go, server/attention.go, server/attention_autoact.go and    *)
(* app/attention.go).  A card is one row of attention_feed.  Observers of a     *)
(* thread - the cascade, a steerer session calling `flow attention surface`, a  *)
(* re-triage - look the thread's card up and write it in two statements with no *)
(* transaction around them; then the autonomy gate may act on the card.  The    *)
(* operator answers cards from the UI and the command line, an agent sends a    *)
(* reply or captures a fact in the background, and a task's agent accepts or    *)
(* declines a handoff.  None of the writes to a card by its id looks at the     *)
(* card's status.                                                               *)
(*                                                                              *)
(* Every handler runs as an actor whose record holds what it read; one action   *)
(* is the code between two points where another process can get in.             *)
EXTENDS Integers, Sequences, FiniteSets

CONSTANTS
    Threads,      \* thread keys, after SurfaceCard has resolved an alias
    Actors,       \* handlers, goroutines and command-line calls in flight at once
    MaxTS,        \* messages of a thread are stamped 1..MaxTS; 0 is no usable ts
    MaxOps,       \* bound: operations started, each of which adds at most one row
    MaxFaults     \* bound: handlers that die half-way and looks that fail

ASSUME AttentionCardAssumption ==
    /\ Threads # {}
    /\ MaxTS \in Nat /\ MaxOps \in Nat /\ MaxFaults \in Nat

VARIABLES
    feed,        \* the rows, numbered as they are inserted
    rank,        \* the place of a row in the order of created_at, 0 before it is there:
                 \* an update by an observer renews it
    retriaging,  \* ids whose retriaging_at is set
    muted,       \* threads in steering_mutes
    tasks,       \* threads whose task exists: FeedTaskSlug names it after the thread
    inbox,       \* how often a message of a thread was appended to its task's inbox
    handoffs,    \* the rows of attention_handoffs
    op,          \* what each actor is doing and what it has read
    started,     \* operations started so far
    faults,      \* handlers that died and looks that failed so far
    overlap,     \* threads two of whose lookup-to-write windows overlapped, or
                 \* one of whose answered cards a failed capture brought back
    raced,       \* threads two of whose look-then-append windows overlapped
    misread      \* how often a look missed a message for it could not read the inbox

dbVars == <<feed, rank, retriaging, muted, tasks, inbox, handoffs>>
history == <<overlap, raced, misread>>
vars == <<feed, rank, retriaging, muted, tasks, inbox, handoffs, op, started, faults,
          overlap, raced, misread>>

Cards == 1..MaxOps
Stamps == 0..MaxTS
Statuses == {"none", "new", "dismissed", "acted"}
Answered == {"dismissed", "acted"}
Verdicts == {"accepted", "declined"}
Effects == {"none", "make_task", "forward", "capture_kb", "reply", "dismiss"}

NoRow == [thread |-> CHOOSE t \in Threads : TRUE, ts |-> 0, status |-> "none"]
Idle == [pc |-> "idle", kind |-> "none", card |-> 0, thread |-> NoRow.thread,
         ts |-> 0, seen |-> NoRow, also |-> 0, cards |-> {}]

-------------------------------------------------------------------------------
(* Reading the feed *)

InThread(t, status) == {c \in Cards : feed[c].thread = t /\ feed[c].status = status}

\* the row of C written last, 0 when C is empty
Newest(C) == IF C = {} THEN 0 ELSE CHOOSE c \in C : \A d \in C : rank[d] <= rank[c]

\* mutants: coalesces with a dismissed card only; another row keeps the last place too
CoalescedDismissed(t) == Newest(InThread(t, "dismissed"))

\* the row UpsertFeedItemSurfaced coalesces with: the newest open card of the
\* thread, or else the newest dismissed one
Coalesced(t) ==
    IF InThread(t, "new") # {} THEN Newest(InThread(t, "new"))
    ELSE Newest(InThread(t, "dismissed"))

\* LatestFeedItemByThread: the newest card whatever its status
Latest(t) == Newest({c \in Cards : feed[c].thread = t /\ feed[c].status # "none"})

Row(c) == IF c = 0 THEN NoRow ELSE feed[c]

\* a stamp that is missing or not a number is never taken as older
SameOrOlder(incoming, existing) == incoming # 0 /\ existing # 0 /\ incoming <= existing

\* how many rows there are; their ids count them
Filled == Cardinality({c \in Cards : feed[c].status # "none"})

MovedTwice(c) == [rank EXCEPT ![c] = Filled]

Moved(c) ==
    [d \in Cards |-> IF d = c THEN Filled
                     ELSE IF rank[d] > rank[c] THEN rank[d] - 1 ELSE rank[d]]

-------------------------------------------------------------------------------
Init ==
    /\ feed = [c \in Cards |-> NoRow]
    /\ rank = [c \in Cards |-> 0]
    /\ retriaging = {}
    /\ muted = {}
    /\ tasks = {}
    /\ inbox = [t \in Threads |-> [m \in Stamps |-> 0]]
    /\ handoffs = <<>>
    /\ op = [a \in Actors |-> Idle]
    /\ started = 0
    /\ faults = 0
    /\ overlap = {}
    /\ raced = {}
    /\ misread = [t \in Threads |-> 0]

Fault == faults < MaxFaults /\ faults' = faults + 1

Goes(a, r) == op' = [op EXCEPT ![a] = r]

\* A re-triage clears the card's flag whatever came of it; a session's reply may be
\* followed by a forward to the matched task; any other handler returns.
After(o) ==
    IF o.kind \in {"retriage", "correction"} THEN [o EXCEPT !.pc = "clear"]
    ELSE IF o.kind = "session" /\ o.also = 1 THEN [o EXCEPT !.pc = "forward", !.also = 0]
    ELSE Idle
Returns(a) == Goes(a, After(op[a]))

Start(a, r) ==
    /\ op[a].pc = "idle"
    /\ started < MaxOps
    /\ started' = started + 1
    /\ Goes(a, r)

-------------------------------------------------------------------------------
(* Observers: lookup, write, then the autonomy gate *)

Looked(o, c) == [o EXCEPT !.pc = "write", !.card = c, !.seen = Row(c)]
LookedAt(a, t) ==
    IF \E b \in Actors \ {a} : op[b].pc = "write" /\ op[b].thread = t
    THEN overlap \cup {t} ELSE overlap

\* The cascade (Stage 0 has read the mutes) or `flow attention surface` reads the
\* row its item coalesces with.
Observe(a) ==
    \E t \in Threads, m \in Stamps, k \in {"cascade", "session"} :
        /\ k = "cascade" => t \notin muted
        /\ Start(a, Looked([Idle EXCEPT !.kind = k, !.thread = t, !.ts = m], Coalesced(t)))
        /\ overlap' = LookedAt(a, t)
        /\ UNCHANGED <<dbVars, faults, raced, misread>>

\* A context-only event of a session refreshes a card only while the thread's
\* latest card is open; the lookup of the upsert is a second read.
Refresh(a) ==
    \E t \in Threads, m \in Stamps :
        /\ Row(Latest(t)).status = "new"
        /\ Start(a, [Idle EXCEPT !.pc = "lookup", !.kind = "refresh", !.thread = t, !.ts = m])
        /\ UNCHANGED <<dbVars, faults, history>>

\* The operator asks for a fresh verdict, or a correction or a declined handoff
\* does: the flag is set, and triage runs in the background on a copy of the item.
Retriage(a) ==
    \E c \in Cards, k \in {"retriage", "correction"} :
        /\ feed[c].status # "none"
        /\ Start(a, [Idle EXCEPT !.pc = "lookup", !.kind = k, !.thread = feed[c].thread,
                                 !.ts = feed[c].ts, !.also = c])
        /\ retriaging' = retriaging \cup {c}
        /\ UNCHANGED <<feed, rank, muted, tasks, inbox, handoffs, faults, history>>

\* the second lookup of a refresh, or a re-triage whose verdict is to surface
Lookup(a) ==
    /\ op[a].pc = "lookup"
    /\ Goes(a, Looked(op[a], Coalesced(op[a].thread)))
    /\ overlap' = LookedAt(a, op[a].thread)
    /\ UNCHANGED <<dbVars, started, faults, raced, misread>>

\* a re-triage whose verdict is drop, or that failed: the card stays as it is
NoVerdict(a) ==
    /\ op[a].pc = "lookup"
    /\ op[a].kind # "refresh"
    /\ Returns(a)
    /\ UNCHANGED <<dbVars, started, faults, history>>

\* The write half: insert a new card, leave a dismissed one alone when the message
\* is not newer, or overwrite the row that was read, whatever it is by now.
Insert(a) ==
    LET c == Filled + 1
        o == op[a]
    IN  /\ o.pc = "write"
        /\ o.card = 0
        /\ c \in Cards
        /\ feed' = [feed EXCEPT ![c] = [thread |-> o.thread, ts |-> o.ts, status |-> "new"]]
        /\ rank' = [rank EXCEPT ![c] = c]
        /\ Goes(a, [o EXCEPT !.pc = "surfaced", !.card = c])
        /\ UNCHANGED <<retriaging, muted, tasks, inbox, handoffs, started, faults, history>>

KeepNothing(o) == FALSE

KeepDismissed(o) == o.seen.status = "dismissed" /\ SameOrOlder(o.ts, o.seen.ts)

LeaveDismissed(a) ==
    /\ op[a].pc = "write"
    /\ op[a].card # 0
    /\ KeepDismissed(op[a])
    /\ Returns(a)
    /\ UNCHANGED <<dbVars, started, faults, history>>

Overwrite(a) ==
    LET o == op[a]
    IN  /\ o.pc = "write"
        /\ o.card # 0
        /\ ~KeepDismissed(o)
        /\ feed' = [feed EXCEPT ![o.card] = [@ EXCEPT !.ts = o.ts, !.status = "new"]]
        /\ rank' = Moved(o.card)
        /\ retriaging' = retriaging \ {o.card}
        /\ Goes(a, [o EXCEPT !.pc = "surfaced"])
        /\ UNCHANGED <<muted, tasks, inbox, handoffs, started, faults, history>>

\* The cascade takes the item again and acts without looking at its status; a
\* correction never acts on its own, a refresh asks for no action.  A session's
\* card is acted on by the server, if the request reaches it and only if the card
\* is still open when the server reads it.
MayAct(o) ==
    \/ o.kind \in {"cascade", "retriage"}
    \/ o.kind = "session" /\ feed[o.card].status = "new"

AutoAct(a) ==
    \E e \in Effects, both \in 0..1 :
        /\ op[a].pc = "surfaced"
        /\ both = 1 => e = "reply"
        /\ e # "none" => MayAct(op[a])
        /\ e = "reply" => op[a].kind = "session"
        /\ e \in {"capture_kb", "dismiss"} => op[a].kind # "session"
        /\ IF e = "none" THEN Returns(a)
           ELSE Goes(a, [op[a] EXCEPT !.pc = e, !.seen = feed[op[a].card],
                                      !.also = IF both = 1 THEN 1 ELSE @])
        /\ UNCHANGED <<dbVars, started, faults, history>>

\* The flag of the card the re-triage was asked for.
ClearFlag(a) ==
    /\ op[a].pc = "clear"
    /\ retriaging' = retriaging \ {op[a].also}
    /\ Goes(a, Idle)
    /\ UNCHANGED <<feed, rank, muted, tasks, inbox, handoffs, started, faults, history>>

-------------------------------------------------------------------------------
(* Answers: writes by id, none of which looks at the status of the card *)

Set(C, status) == [c \in Cards |-> IF c \in C THEN [feed[c] EXCEPT !.status = status] ELSE feed[c]]

\* The operator takes up a card: make a task, forward it, have a reply sent, or
\* save it to the knowledge base.  A capture resolves the card before its agent runs.
Take(a) ==
    \E c \in Cards, e \in {"make_task", "forward", "reply", "capture_kb"} :
        /\ feed[c].status # "none"
        /\ Start(a, [Idle EXCEPT !.pc = e, !.kind = "operator", !.card = c,
                                 !.thread = feed[c].thread, !.ts = feed[c].ts, !.seen = feed[c]])
        /\ feed' = IF e = "capture_kb" THEN Set({c}, "acted") ELSE feed
        /\ UNCHANGED <<rank, retriaging, muted, tasks, inbox, handoffs, faults, history>>

\* dismiss, `resolve`, a capture handed to the thread's chat, and the `sent` of a
\* chat that posted the reply
Answer(a) ==
    \E c \in Cards, s \in Answered :
        /\ feed[c].status # "none"
        /\ Start(a, Idle)
        /\ feed' = Set({c}, s)
        /\ UNCHANGED <<rank, retriaging, muted, tasks, inbox, handoffs, faults, history>>

\* The operator answered in the thread itself: its open cards stand down.
AnswerInThread(a) ==
    \E t \in Threads :
        /\ InThread(t, "new") # {}
        /\ Start(a, Idle)
        /\ feed' = Set(InThread(t, "new"), "acted")
        /\ UNCHANGED <<rank, retriaging, muted, tasks, inbox, handoffs, faults, history>>

\* A session's verdict is drop: the latest card is read, then the open cards of the
\* thread are resolved.
Drop(a) ==
    \E t \in Threads :
        /\ Row(Latest(t)).status = "new"
        /\ Start(a, [Idle EXCEPT !.pc = "drop", !.kind = "session", !.thread = t])
        /\ UNCHANGED <<dbVars, faults, history>>

ResolveDropped(a) ==
    /\ op[a].pc = "drop"
    /\ feed' = Set(InThread(op[a].thread, "new"), "acted")
    /\ Goes(a, Idle)
    /\ UNCHANGED <<rank, retriaging, muted, tasks, inbox, handoffs, started, faults, history>>

\* Muting a thread records the mute and dismisses the open cards it has listed.
Mute(a) ==
    \E t \in Threads :
        /\ Start(a, [Idle EXCEPT !.pc = "sweep", !.kind = "operator", !.thread = t,
                                 !.cards = InThread(t, "new")])
        /\ muted' = muted \cup {t}
        /\ UNCHANGED <<feed, rank, retriaging, tasks, inbox, handoffs, faults, history>>

Sweep(a) ==
    /\ op[a].pc = "sweep"
    /\ feed' = Set(op[a].cards, "dismissed")
    /\ Goes(a, Idle)
    /\ UNCHANGED <<rank, retriaging, muted, tasks, inbox, handoffs, started, faults, history>>

\* Merging reads both cards, requires both to be open, then resolves the duplicate.
Merge(a) ==
    \E keep, dupe \in Cards :
        /\ keep # dupe
        /\ feed[keep].status = "new" /\ feed[dupe].status = "new"
        /\ Start(a, [Idle EXCEPT !.pc = "merge", !.kind = "operator", !.card = dupe, !.also = keep])
        /\ UNCHANGED <<dbVars, faults, history>>

ResolveMerged(a) ==
    /\ op[a].pc = "merge"
    /\ feed' = Set({op[a].card}, "acted")
    /\ Goes(a, Idle)
    /\ UNCHANGED <<rank, retriaging, muted, tasks, inbox, handoffs, started, faults, history>>

-------------------------------------------------------------------------------
(* Effects, and the write that resolves the card after them *)

\* makeTaskEffect reuses the thread's task or spawns it; tasks.slug is UNIQUE
SpawnTask(a) ==
    /\ op[a].pc = "make_task"
    /\ tasks' = tasks \cup {op[a].thread}
    /\ Goes(a, [op[a] EXCEPT !.pc = "resolve"])
    /\ UNCHANGED <<feed, rank, retriaging, muted, inbox, handoffs, started, faults, history>>

\* mutant: appends without looking
ForwardUnseen(a) ==
    /\ op[a].pc = "forward"
    /\ Goes(a, [op[a] EXCEPT !.pc = "append"])
    /\ UNCHANGED <<dbVars, started, faults, history>>

Present(o) == o.seen.ts # 0 /\ inbox[o.thread][o.seen.ts] > 0

\* forwardEffect: a Slack message already in the task's inbox is not appended again,
\* unless the inbox cannot be read
Forward(a) ==
    /\ op[a].pc = "forward"
    /\ \/ Present(op[a]) /\ Goes(a, [op[a] EXCEPT !.pc = "resolve"]) /\ UNCHANGED <<misread, faults>>
       \/ /\ Goes(a, [op[a] EXCEPT !.pc = "append"])
          /\ IF Present(op[a])
             THEN Fault /\ misread' = [misread EXCEPT ![op[a].thread] = @ + 1]
             ELSE UNCHANGED <<misread, faults>>
    /\ raced' = IF \E b \in Actors \ {a} : op[b].pc = "append" /\ op[b].thread = op[a].thread
                THEN raced \cup {op[a].thread} ELSE raced
    /\ UNCHANGED <<dbVars, started, overlap>>

AppendForward(a) ==
    /\ op[a].pc = "append"
    /\ inbox' = [inbox EXCEPT ![op[a].thread][op[a].seen.ts] = @ + 1]
    /\ Goes(a, [op[a] EXCEPT !.pc = "resolve"])
    /\ UNCHANGED <<feed, rank, retriaging, muted, tasks, handoffs, started, faults, history>>

\* an agent confirms that it posted the reply or captured the fact
AgentDone(a) ==
    /\ op[a].pc \in {"reply", "capture_kb"}
    /\ Goes(a, [op[a] EXCEPT !.pc = "resolve"])
    /\ UNCHANGED <<dbVars, started, faults, history>>

\* The effect failed: the card is left as it is, except that the capture an
\* operator asked for puts its card back as new.
EffectFailed(a) ==
    /\ op[a].pc \in {"make_task", "forward", "append", "reply", "capture_kb"}
    /\ IF op[a].pc = "capture_kb" /\ op[a].kind = "operator"
       THEN /\ feed' = Set({op[a].card}, "new")
            /\ overlap' = overlap \cup {op[a].thread}
       ELSE UNCHANGED <<feed, overlap>>
    /\ Returns(a)
    /\ UNCHANGED <<rank, retriaging, muted, tasks, inbox, handoffs, started, faults, raced, misread>>

\* SetFeedItemActed after the effect, dismissEffect for an FYI card
ResolveCard(a) ==
    /\ op[a].pc \in {"resolve", "dismiss"}
    /\ feed' = Set({op[a].card}, IF op[a].pc = "dismiss" THEN "dismissed" ELSE "acted")
    /\ Returns(a)
    /\ UNCHANGED <<rank, retriaging, muted, tasks, inbox, handoffs, started, faults, history>>

-------------------------------------------------------------------------------
(* Handoffs: the matched task's agent accepts or declines a card *)

HandoffsOf(c) == {i \in 1..Len(handoffs) : handoffs[i].card = c /\ handoffs[i].status # "deleted"}
LatestHandoff(c) ==
    LET H == HandoffsOf(c)
    IN IF H = {} THEN "none" ELSE handoffs[CHOOSE i \in H : \A j \in H : j <= i].status

\* A pending handoff is reused; otherwise a row is created after this read.
RequestHandoff(a) ==
    \E c \in Cards :
        /\ feed[c].status # "none"
        /\ LatestHandoff(c) # "pending"
        /\ Start(a, [Idle EXCEPT !.pc = "ask", !.kind = "handoff", !.card = c])
        /\ UNCHANGED <<dbVars, faults, history>>

CreateHandoff(a) ==
    /\ op[a].pc = "ask"
    /\ handoffs' = Append(handoffs, [card |-> op[a].card, status |-> "pending"])
    /\ Goes(a, [op[a] EXCEPT !.pc = "tell", !.also = Len(handoffs) + 1])
    /\ UNCHANGED <<feed, rank, retriaging, muted, tasks, inbox, started, faults, history>>

SetHandoff(h, s) == handoffs' = [handoffs EXCEPT ![h].status = s]

\* `flow tell` delivers the request, or fails and the row is deleted whatever it says
Tell(a) ==
    /\ op[a].pc = "tell"
    /\ \/ UNCHANGED handoffs
       \/ SetHandoff(op[a].also, "deleted")
    /\ Goes(a, Idle)
    /\ UNCHANGED <<feed, rank, retriaging, muted, tasks, inbox, started, faults, history>>

\* The receiving agent answers: the row is read and must be pending, ...
ReadHandoff(a) ==
    \E h \in 1..Len(handoffs) :
        /\ handoffs[h].status = "pending"
        /\ Start(a, [Idle EXCEPT !.pc = "respond", !.kind = "handoff",
                                 !.card = handoffs[h].card, !.also = h])
        /\ UNCHANGED <<dbVars, faults, history>>

\* ... the update is conditional on that status, ...
AlwaysPending(h) == TRUE

StillPending(h) == handoffs[h].status = "pending"

Respond(a) ==
    \E v \in Verdicts :
        /\ op[a].pc = "respond"
        /\ StillPending(op[a].also)
        /\ SetHandoff(op[a].also, v)
        /\ Goes(a, IF v = "accepted" THEN [op[a] EXCEPT !.pc = "resolve"] ELSE Idle)
        /\ UNCHANGED <<feed, rank, retriaging, muted, tasks, inbox, started, faults, history>>

\* ... and a response that comes too late is refused.
TooLate(a) ==
    /\ op[a].pc = "respond"
    /\ ~StillPending(op[a].also)
    /\ Goes(a, Idle)
    /\ UNCHANGED <<dbVars, started, faults, history>>

\* Listing the feed times out the handoffs that are a day old.
ExpireHandoffs ==
    \E h \in 1..Len(handoffs) :
        /\ handoffs[h].status = "pending"
        /\ SetHandoff(h, "timeout")
        /\ UNCHANGED <<feed, rank, retriaging, muted, tasks, inbox, op, started, faults, history>>

-------------------------------------------------------------------------------
\* A handler dies with its process, or a statement of it fails, between two steps.
Die(a) ==
    /\ op[a].pc # "idle"
    /\ Fault
    /\ Goes(a, Idle)
    /\ UNCHANGED <<dbVars, started, history>>

\* nothing is in flight and the bound on operations is used up
Done ==
    /\ started = MaxOps
    /\ \A a \in Actors : op[a].pc = "idle"
    /\ UNCHANGED vars

Begin(a) ==
    \/ Observe(a) \/ Refresh(a) \/ Retriage(a) \/ Take(a) \/ Answer(a) \/ AnswerInThread(a)
    \/ Drop(a) \/ Mute(a) \/ Merge(a) \/ RequestHandoff(a) \/ ReadHandoff(a)

Step(a) ==
    \/ Lookup(a) \/ NoVerdict(a) \/ Insert(a) \/ LeaveDismissed(a) \/ Overwrite(a)
    \/ AutoAct(a) \/ ClearFlag(a) \/ ResolveDropped(a) \/ Sweep(a) \/ ResolveMerged(a)
    \/ SpawnTask(a) \/ Forward(a) \/ AppendForward(a) \/ AgentDone(a) \/ EffectFailed(a)
    \/ ResolveCard(a) \/ CreateHandoff(a) \/ Tell(a) \/ Respond(a) \/ TooLate(a)

Next == (\E a \in Actors : Begin(a) \/ Step(a) \/ Die(a)) \/ ExpireHandoffs \/ Done

Spec == Init /\ [][Next]_vars

-------------------------------------------------------------------------------
(* Properties *)

Rows == [thread : Threads, ts : Stamps, status : Statuses]

\* Every variable has its type; the rows are numbered as they come, and the order of
\* created_at gives each its own place.
TypeOK ==
    /\ feed \in [Cards -> Rows]
    /\ rank \in [Cards -> 0..MaxOps]
    /\ \A c \in Cards : rank[c] # 0 <=> c <= Filled
    /\ \A c, d \in Cards : rank[c] = rank[d] /\ rank[c] # 0 => c = d
    /\ \A c \in Cards : feed[c].status # "none" <=> c <= Filled
    /\ retriaging \subseteq Cards
    /\ muted \subseteq Threads /\ tasks \subseteq Threads
    /\ inbox \in [Threads -> [Stamps -> Nat]]
    /\ handoffs \in Seq([card : Cards, status : {"pending", "timeout", "deleted"} \cup Verdicts])
    /\ \A a \in Actors : op[a].card \in 0..MaxOps /\ op[a].ts \in Stamps /\ op[a].seen \in Rows
    /\ started \in 0..MaxOps /\ faults \in 0..MaxFaults
    /\ overlap \subseteq Threads /\ raced \subseteq Threads
    /\ misread \in [Threads -> Nat]

\* The feed coalesces a thread into one open card (UpsertFeedItemSurfaced): two are
\* open only after two observers of the thread were both between their lookup and
\* their write, or a failed capture brought back a card an observer had replaced.
OneOpenCard == \A t \in Threads \ overlap : Cardinality(InThread(t, "new")) <= 1

\* However many cards of a thread are forwarded, by the operator, the cascade and a
\* session, a Slack message is in the task's inbox once, and once more for each look
\* that could not read the inbox, unless two forwards were both between the look for
\* it and the append (appendInboxEntry holds no lock).
ForwardedOnce == \A t \in Threads \ raced, m \in Stamps \ {0} : inbox[t][m] <= 1 + misread[t]

\* An answered card opens again in three ways only: a dismissed one for a message
\* whose stamp is newer or unusable, an observer's write that had read the card
\* before the answer, and the failure of a capture the operator had asked for.
Reopens(a, c) ==
    \/ /\ op[a].pc = "write" /\ op[a].card = c
       /\ \/ op[a].seen # feed[c]
          \/ feed[c].status = "dismissed" /\ ~SameOrOlder(op[a].ts, feed[c].ts)
    \/ op[a].pc = "capture_kb" /\ op[a].kind = "operator" /\ op[a].card = c
AnswerStands ==
    [][\A c \in Cards : feed[c].status \in Answered /\ feed'[c].status = "new"
           => \E a \in Actors : Reopens(a, c)]_vars

\* An agent's verdict on a handoff, or its timeout, is never replaced, although the
\* agent, a second agent and the expiry have each read the row as pending: only the
\* asker's failed `flow tell` removes the row.
VerdictFinal ==
    [][\A h \in 1..Len(handoffs) :
           handoffs[h].status # "pending" => handoffs'[h].status \in {handoffs[h].status, "deleted"}]_vars
=============================================================================
