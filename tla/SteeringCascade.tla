---------------------------- MODULE SteeringCascade ----------------------------
(* The steering cascade and its catch-up sweep for one channel                  *)
(* (steering/cascade.go and steering/backfill.go).  A message reaches the       *)
(* cascade live, once, twice or not at all, from a listener, and again from the *)
(* sweep that reads the channel's history after a durable watermark.  What      *)
(* keeps a message from being taken twice is the verdict cache, in memory and   *)
(* with a lifetime, and for messages handed to a steerer session the durable    *)
(* trace of the delivery; both are read long before they are written.           *)
EXTENDS Integers, FiniteSets

CONSTANTS
    Listeners,    \* goroutines that call Observe: the socket, the boot backfill
    Sweeper,      \* the goroutine of SteeringBackfill.Run
    MaxMsgs,      \* bound: messages posted to the channel, stamped 1, 2, ...
    MaxLive,      \* bound: live deliveries
    MaxTime,      \* bound: the clock
    TTL,          \* lifetime of a verdict
    Lookback,     \* how far a first sweep reads back
    Limit,        \* messages in a page of history
    SkipFor,      \* how long an inaccessible channel is skipped
    MaxFaults     \* bound: crashes, failed reads and failed writes together

ASSUME SteeringCascadeAssumption ==
    /\ Sweeper \notin Listeners
    /\ MaxMsgs \in Nat \ {0} /\ MaxLive \in Nat /\ MaxTime \in Nat
    /\ TTL \in Nat \ {0} /\ Lookback \in Nat \ {0} /\ Limit \in Nat \ {0} /\ SkipFor \in Nat
    /\ MaxFaults \in Nat

VARIABLES
    chan,        \* the messages of the channel; kind "none" is not posted yet
    now,         \* the clock
    wm,          \* steering_watermark: the stamp the sweep resumes after, 0 for none
    skipTill,    \* the sweep leaves the channel alone until then
    cache,       \* verdictCache: when a message was marked, -1 for never
    decided,     \* messages the cascade has done with: a row in steering_traces, if it was written
    delivered,   \* those with a row that says delivered to a session
    sessions,    \* 1 when the per-channel session model is on
    op,          \* what each observer is doing
    lives,       \* live deliveries so far
    faults,      \* faults so far
    crashes,     \* restarts of the server among them
    sent,        \* how often a message was handed to the channel's session
    cards,       \* how often a verdict on a message was written to the feed
    overlap,     \* messages two observers had past the gate at once
    missed,      \* messages a sweep passed without reading them
    lapses       \* how often the row of a delivery was lost, or could not be read

dbVars == <<wm, decided, delivered>>
memVars == <<skipTill, cache>>
env == <<chan, now, lives, faults, crashes, sessions>>
history == <<sent, cards, overlap, missed, lapses>>
vars == <<chan, now, wm, skipTill, cache, decided, delivered, sessions, op,
          lives, faults, crashes, sent, cards, overlap, missed, lapses>>

Msgs == 1..MaxMsgs
Observers == Listeners \cup {Sweeper}

\* human passes Stage 0; self is the operator's own; noise is dropped by Stage 0;
\* system (a join, an edit) is filtered out before the cascade sees it
Kinds == {"human", "self", "noise", "system"}
Unposted == [kind |-> "none", parent |-> 0, at |-> 0]
Idle == [pc |-> "idle", todo |-> {}, kept |-> {}, cur |-> 0, upTo |-> 0]

Posted == {m \in Msgs : chan[m].kind # "none"}
TopLevel == {m \in Posted : chan[m].parent = 0}
Accepted == {m \in Posted : chan[m].kind # "system"}
Newest(S) == CHOOSE m \in S : \A n \in S : n <= m

-------------------------------------------------------------------------------
Init ==
    /\ chan = [m \in Msgs |-> Unposted]
    /\ now = 0
    /\ wm = 0
    /\ skipTill = 0
    /\ cache = [m \in Msgs |-> -1]
    /\ decided = {} /\ delivered = {}
    /\ sessions \in 0..1
    /\ op = [a \in Observers |-> Idle]
    /\ lives = 0 /\ faults = 0 /\ crashes = 0
    /\ sent = [m \in Msgs |-> 0] /\ cards = [m \in Msgs |-> 0]
    /\ overlap = {} /\ missed = {}
    /\ lapses = [m \in Msgs |-> 0]

Fault == faults < MaxFaults /\ faults' = faults + 1

Goes(a, r) == op' = [op EXCEPT ![a] = r]

-------------------------------------------------------------------------------
(* The world *)

\* A message is posted, in the channel or in the thread of an earlier message.
Post ==
    \E k \in Kinds, p \in {0} \cup TopLevel :
        LET m == Cardinality(Posted) + 1
        IN  /\ m \in Msgs
            /\ chan' = [chan EXCEPT ![m] = [kind |-> k, parent |-> p, at |-> now]]
            /\ UNCHANGED <<now, lives, faults, crashes, sessions, dbVars, memVars, op, history>>

\* time passes; an entry of the cache that has expired counts as none
Tick ==
    /\ now < MaxTime
    /\ now' = now + 1
    /\ cache' = [m \in Msgs |-> IF now + 1 - cache[m] < TTL THEN cache[m] ELSE -1]
    /\ UNCHANGED <<chan, lives, faults, crashes, sessions, dbVars, skipTill, op, history>>

\* The listener hands a message over, in any order and possibly again.
Live(a) ==
    \E m \in Accepted :
        /\ op[a].pc = "idle"
        /\ lives < MaxLive
        /\ lives' = lives + 1
        /\ Goes(a, [Idle EXCEPT !.pc = "gate", !.todo = {m}])
        /\ UNCHANGED <<chan, now, faults, crashes, sessions, dbVars, memVars, history>>

-------------------------------------------------------------------------------
(* One pass over a batch: Stage 0, the verdict cache, the session; a live      *)
(* message is a batch of one.                                                   *)

\* the batch without m, m having its trace
Without(o, m) == [o EXCEPT !.pc = "gate", !.todo = @ \ {m}, !.cur = 0]
NotTraced(m) == UNCHANGED decided  \* mutant: no trace at some exit
Traced(m) == decided' = decided \cup {m}

\* past the gate and not traced yet
InFlight(o) == o.kept \cup (IF o.cur = 0 THEN {} ELSE {o.cur})
Gated(a, m) ==
    overlap' = IF \E b \in Observers \ {a} : m \in InFlight(op[b]) THEN overlap \cup {m} ELSE overlap

\* a verdict is younger than its lifetime
Seen(m) == cache[m] >= 0

\* dropped by Stage 0 as noise, or as the operator's own with no session to tell,
\* or a duplicate within the lifetime of its verdict
DropAtGate(a) ==
    \E m \in op[a].todo :
        /\ op[a].pc = "gate"
        /\ \/ chan[m].kind = "noise"
           \/ chan[m].kind = "self" /\ sessions = 0
           \/ chan[m].kind = "human" /\ Seen(m)
        /\ Goes(a, Without(op[a], m))
        /\ Traced(m)
        /\ UNCHANGED <<env, wm, delivered, memVars, history>>

\* a survivor: to the session when there is one, else kept for Stage 1
Pass(a) ==
    \E m \in op[a].todo :
        /\ op[a].pc = "gate"
        /\ \/ chan[m].kind = "human" /\ ~Seen(m)
           \/ chan[m].kind = "self" /\ sessions = 1
        /\ Gated(a, m)
        /\ Goes(a, IF sessions = 1 THEN [op[a] EXCEPT !.pc = "dedupe", !.cur = m]
                   ELSE [Without(op[a], m) EXCEPT !.kept = @ \cup {m}])
        /\ UNCHANGED <<env, dbVars, memVars, sent, cards, missed, lapses>>

\* skipDuplicateSessionDelivery: a durable trace says that the session has it
KnownDelivery(m) == m \in delivered
UnknownDelivery(m) == FALSE  \* mutant: asks nobody

SkipDelivered(m) == KnownDelivery(m)

Duplicate(a) ==
    LET m == op[a].cur
    IN  /\ op[a].pc = "dedupe"
        /\ SkipDelivered(m)
        /\ Goes(a, Without(op[a], m))
        /\ Traced(m)
        /\ UNCHANGED <<env, wm, delivered, memVars, history>>

Lapse(m) == Fault /\ lapses' = [lapses EXCEPT ![m] = @ + 1]

\* The sink takes the message, which has no row or whose row could not be read; a
\* survivor's verdict is cached, the operator's own message leaves no mark.
Deliver(a) ==
    LET m == op[a].cur
    IN  /\ op[a].pc = "dedupe"
        /\ \/ ~SkipDelivered(m) /\ UNCHANGED <<faults, lapses>>
           \/ SkipDelivered(m) /\ Lapse(m)
        /\ sent' = [sent EXCEPT ![m] = @ + 1]
        /\ cache' = IF chan[m].kind = "human" THEN [cache EXCEPT ![m] = now] ELSE cache
        /\ Goes(a, [op[a] EXCEPT !.pc = "trace"])
        /\ UNCHANGED <<chan, now, lives, crashes, sessions, dbVars, skipTill, cards, overlap, missed>>

\* the row of the delivery; an insert that fails is logged and nothing else
TraceDelivered(a) ==
    LET m == op[a].cur
    IN  /\ op[a].pc = "trace"
        /\ \/ delivered' = delivered \cup {m} /\ UNCHANGED <<faults, lapses>>
           \/ m \notin delivered /\ Lapse(m) /\ UNCHANGED delivered
        /\ Traced(m)
        /\ Goes(a, Without(op[a], m))
        /\ UNCHANGED <<chan, now, lives, crashes, sessions, wm, memVars, sent, cards, overlap, missed>>

\* the sink failed: a survivor falls back to the stages, the operator's own message
\* is dropped at Stage 0
SinkFails(a) ==
    LET m == op[a].cur
    IN  /\ op[a].pc = "dedupe"
        /\ \/ ~SkipDelivered(m) /\ UNCHANGED faults
           \/ SkipDelivered(m) /\ Fault
        /\ IF chan[m].kind = "human"
           THEN Goes(a, [Without(op[a], m) EXCEPT !.kept = @ \cup {m}]) /\ UNCHANGED decided
           ELSE Goes(a, Without(op[a], m)) /\ Traced(m)
        /\ UNCHANGED <<chan, now, lives, crashes, sessions, wm, delivered, memVars, history>>

-------------------------------------------------------------------------------
(* The stages *)

MarkNothing(S) == UNCHANGED cache  \* mutant: the verdict is not cached
Mark(S) == cache' = [m \in Msgs |-> IF m \in S THEN now ELSE cache[m]]

\* Stage 1 runs once for what the gate kept.  When the classifier is unavailable,
\* its budget is spent or the call fails, all of it is marked and dropped.
Stage1Drops(a) ==
    /\ op[a].pc = "gate" /\ op[a].todo = {} /\ op[a].kept # {}
    /\ Mark(op[a].kept)
    /\ decided' = decided \cup op[a].kept
    /\ Goes(a, [op[a] EXCEPT !.kept = {}])
    /\ UNCHANGED <<env, wm, delivered, skipTill, history>>

Stage1(a) ==
    /\ op[a].pc = "gate" /\ op[a].todo = {} /\ op[a].kept # {}
    /\ Goes(a, [op[a] EXCEPT !.pc = "stage2"])
    /\ UNCHANGED <<env, dbVars, memVars, history>>

Judged(o, m) == [o EXCEPT !.pc = "stage2", !.kept = @ \ {m}, !.cur = 0]

\* Stage 2 or Stage 3 ends in no card: unavailable, over budget, failed or drop
Drop(a) ==
    \E m \in op[a].kept :
        /\ op[a].pc = "stage2"
        /\ Mark({m})
        /\ Traced(m)
        /\ Goes(a, Judged(op[a], m))
        /\ UNCHANGED <<env, wm, delivered, skipTill, history>>

\* the index of tasks could not be built: an error trace and no mark
IndexFails(a) ==
    \E m \in op[a].kept :
        /\ op[a].pc = "stage2"
        /\ Fault
        /\ Traced(m)
        /\ Goes(a, Judged(op[a], m))
        /\ UNCHANGED <<chan, now, lives, crashes, sessions, wm, delivered, memVars, history>>

\* A verdict to surface, of Stage 3 or of Stage 2 when the deep budget is spent or
\* the deep triage fails: it is cached, the card is written, then traced.
Surface(a) ==
    \E m \in op[a].kept :
        /\ op[a].pc = "stage2"
        /\ Mark({m})
        /\ cards' = [cards EXCEPT ![m] = @ + 1]
        /\ Goes(a, [op[a] EXCEPT !.pc = "surfaced", !.cur = m])
        /\ UNCHANGED <<env, dbVars, skipTill, sent, overlap, missed, lapses>>

TraceSurfaced(a) ==
    LET m == op[a].cur
    IN  /\ op[a].pc = "surfaced"
        /\ Traced(m)
        /\ Goes(a, Judged(op[a], m))
        /\ UNCHANGED <<env, wm, delivered, memVars, history>>

\* the batch is done: a listener returns, the sweep goes on to its watermark
Return(a) ==
    /\ op[a].pc \in {"gate", "stage2"}
    /\ op[a].todo = {} /\ op[a].kept = {}
    /\ Goes(a, IF a = Sweeper THEN [Idle EXCEPT !.pc = "save", !.upTo = op[a].upTo] ELSE Idle)
    /\ UNCHANGED <<env, dbVars, memVars, history>>

-------------------------------------------------------------------------------
(* The sweep *)

backfillSkipped == now < skipTill

\* what conversations.history has after the watermark, or in the lookback
After == IF wm > 0 THEN {m \in TopLevel : m > wm}
         ELSE {m \in TopLevel : chan[m].at > now - Lookback}
\* the newest Limit messages of it
Page == {m \in After : Cardinality({n \in After : n > m}) < Limit}

RepliesTo(roots) == {r \in Posted : chan[r].parent \in roots /\ r > wm}

\* The sweep reads the watermark and the page, follows threads with newer replies
\* (reading a thread may fail), and observes what it accepts.
Fetch ==
    \E roots \in SUBSET Page :
        LET upTo == IF Page = {} THEN wm ELSE Newest(Page)
            evs == (Page \cup RepliesTo(roots)) \cap Accepted
        IN  /\ op[Sweeper].pc = "idle"
            /\ ~backfillSkipped
            /\ RepliesTo(roots) # {} \/ roots = Page
            /\ missed' = missed \cup {m \in TopLevel : /\ m > wm /\ m \notin Page
                                                       /\ m <= upTo \/ m \notin After}
            /\ skipTill' = 0
            /\ IF Page = {} THEN UNCHANGED op
               ELSE Goes(Sweeper, [Idle EXCEPT !.pc = "gate", !.todo = evs, !.upTo = upTo])
            /\ UNCHANGED <<env, dbVars, cache, sent, cards, overlap, lapses>>

\* the channel is not accessible, and is left alone for a while
HistoryFails ==
    /\ op[Sweeper].pc = "idle"
    /\ ~backfillSkipped
    /\ now + SkipFor <= MaxTime
    /\ Fault
    /\ skipTill' = now + SkipFor
    /\ UNCHANGED <<chan, now, lives, crashes, sessions, dbVars, cache, op, history>>

\* mutant: forgets that messages have been posted since the page was read
SaveLatest == IF TopLevel = {} THEN wm ELSE Newest(TopLevel)

\* the newest message of the page, accepted or not
SaveTo == op[Sweeper].upTo

\* the watermark moves past the page, whatever became of its messages
Save ==
    /\ op[Sweeper].pc = "save"
    /\ wm' = SaveTo
    /\ Goes(Sweeper, Idle)
    /\ UNCHANGED <<env, decided, delivered, memVars, history>>

SaveFails ==
    /\ op[Sweeper].pc = "save"
    /\ Fault
    /\ Goes(Sweeper, Idle)
    /\ UNCHANGED <<chan, now, lives, crashes, sessions, dbVars, memVars, history>>

-------------------------------------------------------------------------------
\* The server dies and comes up again: the cache and what was in flight are gone.
Crash ==
    /\ Fault
    /\ crashes' = crashes + 1
    /\ op' = [a \in Observers |-> Idle]
    /\ cache' = [m \in Msgs |-> -1]
    /\ skipTill' = 0
    /\ UNCHANGED <<chan, now, lives, sessions, dbVars, history>>

Step(a) ==
    \/ DropAtGate(a) \/ Pass(a) \/ Duplicate(a) \/ Deliver(a)
    \/ TraceDelivered(a) \/ SinkFails(a) \/ Stage1Drops(a) \/ Stage1(a) \/ Drop(a)
    \/ IndexFails(a) \/ Surface(a) \/ TraceSurfaced(a) \/ Return(a)

Next ==
    \/ Post \/ Tick \/ Crash
    \/ \E a \in Listeners : Live(a)
    \/ \E a \in Observers : Step(a)
    \/ Fetch \/ HistoryFails \/ Save \/ SaveFails

Spec == Init /\ [][Next]_vars

-------------------------------------------------------------------------------
(* Properties *)

\* Every variable has its type.
TypeOK ==
    /\ chan \in [Msgs -> [kind : Kinds \cup {"none"}, parent : 0..MaxMsgs, at : 0..MaxTime]]
    /\ now \in 0..MaxTime /\ wm \in 0..MaxMsgs /\ skipTill \in 0..MaxTime
    /\ cache \in [Msgs -> -1..MaxTime]
    /\ decided \subseteq Posted /\ delivered \subseteq decided /\ sessions \in 0..1
    /\ \A a \in Observers :
           /\ op[a].pc \in {"idle", "gate", "dedupe", "trace", "stage2", "surfaced", "save"}
           /\ op[a].todo \subseteq Accepted /\ op[a].kept \subseteq Accepted
           /\ op[a].cur \in 0..MaxMsgs /\ op[a].upTo \in 0..MaxMsgs
    /\ lives \in 0..MaxLive /\ faults \in 0..MaxFaults /\ crashes \in 0..MaxFaults
    /\ sent \in [Msgs -> Nat] /\ cards \in [Msgs -> Nat]
    /\ overlap \subseteq Posted /\ missed \subseteq Posted /\ lapses \in [Msgs -> Nat]

\* The watermark never passes a message of the channel the cascade has not decided
\* (backfillChannel saves it after the replay): not when the replay fails, not when
\* the server dies in the middle of it, not for messages posted meanwhile.  Only a
\* page cut at its limit and a first sweep's lookback leave messages out.
WatermarkCovers ==
    \A m \in TopLevel \cap Accepted : m <= wm => m \in decided \cup missed

\* The watermark never goes back: whatever a sweep read, and however it was
\* interrupted, what it saves is newer than where the sweep before it ended, so no
\* page is read twice because of the watermark (backfillChannel saves the stamp it
\* has seen last, and reads only what is newer than the one it loaded).
WatermarkForward == [][wm <= wm']_vars

Log == INSTANCE CursorLog WITH
    length <- Cardinality(Posted), due <- TopLevel \cap Accepted,
    settled <- decided \cup missed, cursor <- wm

\* The listeners, the sweep and its watermark implement the same abstract cursor: a
\* message of the channel is due, a decision or a named window settles it, and no
\* crash unsettles what the watermark is about to pass.
ImplementsLog == Log!Spec

\* A session is handed a message once, however long ago that was and although the
\* server has been restarted in between (skipDuplicateSessionDelivery asks the row of
\* the delivery, which is written after it), unless two observers had it in hand at
\* once.  Each hand-over more is paid for by a crash, or by a row of this very message
\* that was not written or could not be read, both of which the code logs and passes.
SentOnce == \A m \in Posted \ overlap : sent[m] <= 1 + crashes + lapses[m]

\* A message is written to the feed once in the lifetime of its verdict, unless two
\* observers had it in hand at once; a restart forgets the verdict.
CardOncePerVerdict == \A m \in Posted \ overlap : cards[m] <= 1 + crashes + now \div TTL
================================================================================
