-------------------------------- MODULE LiveView --------------------------------
(* How a change on the server reaches a screen (server/events_hub.go,           *)
(* server/events.go, server/db_watcher.go, server/cache.go).  Whoever changes   *)
(* something publishes an event; the hub puts it into the bounded channel of    *)
(* each subscriber and drops it when there is no room.  A stream (/api/events)  *)
(* rebuilds the view soon after an event, and now and then without one; a page  *)
(* has two sockets: on /ws/events it is told, on /ws/rpc it asks for the view,  *)
(* though not at every kind of event, and is served from a cache that answers   *)
(* with what it has and rebuilds behind the answer.  The state of the world is  *)
(* the number of changes made to it.                                            *)
EXTENDS Integers, FiniteSets

CONSTANTS
    Streams,      \* clients of /api/events
    Pages,        \* browsers: /ws/events, and /api/ui-data over /ws/rpc
    Buf,          \* the room in a subscriber's channel, with what it has handed over
    MaxChanges    \* bound: changes

Clients == Streams \cup Pages
Publishers == {"handler", "watcher"}

ASSUME LiveViewAssumption ==
    /\ Streams \cap Pages = {}
    /\ Buf \in Nat \ {0} /\ MaxChanges \in Nat

VARIABLES
    world,     \* changes made so far
    unseen,    \* the database's data_version is not the one the watcher has seen
    pub,       \* what each publisher is doing
    cl,        \* each client: its goroutine in the server, the events in its channel
               \* at which it asks for the view and those beside them, and what its
               \* screen shows; a stream that comes back is a new one
    snap,      \* the cached view: the state it was built from, or Failed
    build,     \* the build behind an answer: the state it has read, or None
    lost       \* history: changes a client will not be told of, through a window that
               \* ChangeNoticed names

vars == <<world, unseen, pub, cl, snap, build, lost>>
cache == <<snap, build>>

Changes == 1..MaxChanges
None == -1
Failed == -2

Silent == [pc |-> "idle", broad |-> FALSE, rest |-> {}, dead |-> {}]
Away == [pc |-> "off", queue |-> 0, aside |-> 0, built |-> 0, shown |-> 0]

\* a page keeps its screen when its socket closes
Closed(c) == [Away EXCEPT !.shown = IF c \in Pages THEN cl[c].shown ELSE 0]

\* A page does not ask for the view at an event of the cascade's stages, the chats or
\* the knowledge base (liveInvalidation.ts); a stream rebuilds it at every one.
Asks(c, p) == c \in Streams \/ pub[p].broad

\* a publisher is done when nobody is left to send to
Sending(r) == IF r.rest = {} /\ r.dead = {} THEN Silent ELSE r

\* the subscribers in the hub
Open == {c \in Clients : cl[c].pc \in {"loop", "build"}}

\* what a client's screen does not show, nor the view being built for it
Knows(c) == IF cl[c].pc = "build" THEN cl[c].built ELSE cl[c].shown
Behind(c) == Knows(c) + 1 .. world

-------------------------------------------------------------------------------
\* The server comes up and primes the cache; who asks before that waits for it.
Init ==
    /\ world = 0 /\ unseen = FALSE
    /\ pub = [p \in Publishers |-> Silent]
    /\ cl = [c \in Clients |-> Away]
    /\ snap = 0 /\ build = None
    /\ lost = [c \in Clients |-> {}]

Is(c, r) == cl' = [cl EXCEPT ![c] = r]
Untold(c, S) == lost' = [lost EXCEPT ![c] = S]

-------------------------------------------------------------------------------
(* Changes *)

Change == world < MaxChanges /\ world' = world + 1

\* An action of the server: it writes the database, or a setting that is not in
\* it, answers, and publishes.
handleAction ==
    \E db, broad \in BOOLEAN :
        /\ pub["handler"].pc = "idle"
        /\ db \/ broad
        /\ Change
        /\ unseen' = (unseen \/ db)
        /\ pub' = [pub EXCEPT !["handler"].pc = "due", !["handler"].broad = broad]
        /\ UNCHANGED <<cl, cache, lost>>

\* Another process writes the database.
OtherProcess ==
    /\ Change
    /\ unseen' = TRUE
    /\ UNCHANGED <<pub, cl, cache, lost>>

\* A brief is edited on disk, and nobody publishes, or a file of the knowledge base,
\* and no page asks for the view.
FileEdit ==
    /\ Change
    /\ lost' = [c \in Clients |-> IF c \in Open THEN lost[c] \cup {world + 1} ELSE lost[c]]
    /\ UNCHANGED <<unseen, pub, cl, cache>>

-------------------------------------------------------------------------------
(* The hub *)

\* publish takes a copy of the subscribers and lets the hub go
publish(p, broad) ==
    pub' = [pub EXCEPT ![p] = Sending([pub[p] EXCEPT !.pc = "sending", !.broad = broad,
                                                     !.rest = Open])]

\* A stage of the cascade ends, or a file of the knowledge base was edited.
StageEvent ==
    /\ pub["handler"].pc = "idle"
    /\ publish("handler", FALSE)
    /\ UNCHANGED <<world, unseen, cl, cache, lost>>

HandlerPublishes ==
    /\ pub["handler"].pc = "due"
    /\ publish("handler", pub["handler"].broad)
    /\ UNCHANGED <<world, unseen, cl, cache, lost>>

\* dbWatcher: data_version is not what it was
Watch ==
    /\ pub["watcher"].pc = "idle"
    /\ unseen
    /\ unseen' = FALSE
    /\ publish("watcher", TRUE)
    /\ UNCHANGED <<world, cl, cache, lost>>

Room(c) == cl[c].queue + cl[c].aside < Buf

Queued(c, asks) ==
    CASE ~Room(c) -> cl[c]
      [] Room(c) /\ asks -> [cl[c] EXCEPT !.queue = @ + 1]
      [] Room(c) /\ ~asks -> [cl[c] EXCEPT !.aside = @ + 1]

\* Each gets the event if there is room, else it is dropped; beside an event that makes
\* the client ask anyway it is not missed.
Send(p) ==
    \E c \in pub[p].rest :
        /\ pub[p].pc = "sending"
        /\ pub' = [pub EXCEPT ![p] = Sending([pub[p] EXCEPT !.rest = @ \ {c}])]
        /\ Is(c, Queued(c, Asks(c, p)))
        /\ Untold(c, IF Asks(c, p) /\ ~Room(c) /\ cl[c].queue = 0
                     THEN lost[c] \cup Behind(c) ELSE lost[c])
        /\ UNCHANGED <<world, unseen, cache>>

\* a subscriber closed since: of done and the closed channel select takes either ...
SkipClosed ==
    LET h == pub["handler"]
    IN  /\ h.pc = "sending"
        /\ \E c \in h.dead :
               pub' = [pub EXCEPT !["handler"] = Sending([h EXCEPT !.dead = @ \ {c}])]
        /\ UNCHANGED <<world, unseen, cl, cache, lost>>

\* ... and a send on a closed channel panics: a handler's goroutine is rescued by
\* net/http and the others are not told
HandlerPanics ==
    LET h == pub["handler"]
    IN  /\ h.pc = "sending" /\ h.dead # {}
        /\ pub' = [pub EXCEPT !["handler"] = Silent]
        /\ lost' = [c \in Clients |-> IF c \in h.rest /\ Asks(c, "handler")
                                      THEN lost[c] \cup Behind(c) ELSE lost[c]]
        /\ UNCHANGED <<world, unseen, cl, cache>>

\* unsubscribe: who has taken the copy before still has the closed channel, which the
\* watcher skips or ends the server on, and that is a restart
Leave(c) ==
    /\ cl[c].pc = "loop"
    /\ pub' = [p \in Publishers |->
                  IF c \in pub[p].rest
                  THEN Sending([pub[p] EXCEPT !.rest = @ \ {c},
                                              !.dead = IF p = "handler" THEN @ \cup {c} ELSE @])
                  ELSE pub[p]]
    /\ Is(c, Closed(c))
    /\ Untold(c, {})
    /\ UNCHANGED <<world, unseen, cache>>

-------------------------------------------------------------------------------
(* The cache of the view: loadStale, store *)

\* the answer has expired: one goroutine builds behind it, its caller does not wait
Revalidate ==
    /\ build = None
    /\ build' = world

\* /api/ui-data asked for by others than the pages
Poll ==
    /\ Revalidate
    /\ UNCHANGED <<world, unseen, pub, cl, snap, lost>>

\* a build reads the world when it starts and stores when it ends, whatever has been
\* stored in between
BuildStores ==
    /\ build # None
    /\ snap' \in {build, Failed}
    /\ build' = None
    /\ UNCHANGED <<world, unseen, pub, cl, lost>>

-------------------------------------------------------------------------------
(* A stream: handleUIEvents *)

\* the first view is built before the subscription, ...
Connect(c) ==
    /\ cl[c].pc = "off"
    /\ Is(c, [cl[c] EXCEPT !.pc = "first", !.built = world])
    /\ UNCHANGED <<world, unseen, pub, cache, lost>>

\* mutant: the stream shows what the cache holds, and not what it has built
ShowsCached(c) ==
    /\ snap' = cl[c].built
    /\ Is(c, [cl[c] EXCEPT !.pc = "loop", !.built = 0,
                           !.shown = IF snap = Failed THEN cl[c].built ELSE snap])

\* a build ends in a view, which is stored and shown, ...
Shows(c) ==
    /\ snap' = cl[c].built
    /\ Is(c, [cl[c] EXCEPT !.pc = "loop", !.built = 0, !.shown = cl[c].built])

\* ... or in an error, which is stored, and shown beside what the screen had
ShowsError(c) == snap' = Failed /\ Is(c, [cl[c] EXCEPT !.pc = "loop", !.built = 0])

\* ... so that what is published in between does not arrive
Subscribe(c) ==
    /\ cl[c].pc = "first"
    /\ Shows(c) \/ ShowsError(c)
    /\ Untold(c, cl'[c].shown + 1 .. world)
    /\ UNCHANGED <<world, unseen, pub, build>>

\* A build begins, and with it the events are spent that the channel has handed over.
Rebuild(c, n) ==
    /\ Is(c, [cl[c] EXCEPT !.pc = "build", !.queue = @ - n, !.built = world])
    /\ Untold(c, {})
    /\ UNCHANGED <<world, unseen, pub, cache>>

\* the short tick, for the events of a burst; ...
Debounce(c) ==
    /\ cl[c].pc = "loop"
    /\ \E n \in 1..cl[c].queue : Rebuild(c, n)

\* mutant: the long tick too does nothing unless there was an event
EventOnly(c) == cl[c].queue > 0
Always(c) == TRUE

\* ... the long one, for what nobody published
Safety(c) ==
    /\ cl[c].pc = "loop"
    /\ Always(c)
    /\ \E n \in 0..cl[c].queue : Rebuild(c, n)

\* mutant: the events that came during the build are thrown away
SendSnapshotDrains(c) ==
    /\ cl[c].pc = "build"
    /\ snap' = cl[c].built
    /\ Is(c, [cl[c] EXCEPT !.pc = "loop", !.built = 0, !.queue = 0, !.shown = cl[c].built])
    /\ UNCHANGED <<world, unseen, pub, build, lost>>

\* the events that came during the build are still in the channel
SendSnapshot(c) ==
    /\ cl[c].pc = "build"
    /\ Shows(c)
    /\ UNCHANGED <<world, unseen, pub, build, lost>>

\* the event that asked for the view is spent all the same
SendError(c) ==
    /\ cl[c].pc = "build"
    /\ ShowsError(c)
    /\ Untold(c, lost[c] \cup cl[c].shown + 1 .. cl[c].built)
    /\ UNCHANGED <<world, unseen, pub, build>>

-------------------------------------------------------------------------------
(* A page: ui/src/lib/events.ts, rpc.ts and query.ts, over handleEventWebSocket *)

\* its socket for events (re)opens: nothing is asked for then
PageSubscribes(c) ==
    /\ cl[c].pc = "off"
    /\ Is(c, [cl[c] EXCEPT !.pc = "loop"])
    /\ Untold(c, Behind(c))
    /\ UNCHANGED <<world, unseen, pub, cache>>

\* An answer comes from the cache, however old that is.
Answered(c, n) ==
    /\ Is(c, [cl[c] EXCEPT !.queue = @ - n, !.shown = IF snap = Failed THEN @ ELSE snap])
    /\ Revalidate \/ UNCHANGED build
    /\ UNCHANGED <<world, unseen, pub, snap>>

\* the socket for requests (re)opens, and the page asks for everything again
PageAsks(c) ==
    /\ cl[c].pc \in {"off", "loop"}
    /\ Answered(c, 0)
    /\ Untold(c, {v \in cl'[c].shown + 1 .. world : v \in lost[c] \/ v <= cl[c].shown})

\* Half a second after an event the page asks for the view ...
Refetch(c) ==
    /\ cl[c].pc = "loop"
    /\ \E n \in 1..cl[c].queue : Answered(c, n)
    /\ Untold(c, cl'[c].shown + 1 .. world)

\* ... or for another one
RefetchElse(c) ==
    /\ cl[c].pc = "loop"
    /\ \E n \in 1..cl[c].aside : Is(c, [cl[c] EXCEPT !.aside = @ - n])
    /\ UNCHANGED <<world, unseen, pub, cache, lost>>

-------------------------------------------------------------------------------
\* The server is restarted, or the watcher's own send panics: the hub and the cache
\* are gone.
Restart ==
    /\ unseen' = FALSE
    /\ pub' = [p \in Publishers |-> Silent]
    /\ cl' = [c \in Clients |-> Closed(c)]
    /\ snap' = world /\ build' = None
    /\ lost' = [c \in Clients |-> {}]
    /\ UNCHANGED world

Stream(c) == Connect(c) \/ Subscribe(c) \/ Debounce(c) \/ Safety(c)
             \/ SendSnapshot(c) \/ SendError(c)
Page(c) == PageSubscribes(c) \/ PageAsks(c) \/ Refetch(c) \/ RefetchElse(c)

Next ==
    \/ handleAction \/ OtherProcess \/ FileEdit
    \/ Watch \/ StageEvent \/ HandlerPublishes \/ SkipClosed \/ HandlerPanics
    \/ \E p \in Publishers : Send(p)
    \/ Poll \/ BuildStores
    \/ \E c \in Clients : Leave(c)
    \/ \E c \in Streams : Stream(c)
    \/ \E c \in Pages : Page(c)
    \/ Restart

Spec == Init /\ [][Next]_vars

\* The long tick of a stream fires; its builds end, and do not fail for ever.
FairSpec == Spec /\ \A c \in Streams : WF_vars(Safety(c)) /\ SF_vars(SendSnapshot(c))

-------------------------------------------------------------------------------
(* Properties *)

Pubs == [pc : {"idle", "due", "sending"}, broad : BOOLEAN, rest : SUBSET Clients, dead : SUBSET Clients]
Screens == [pc : {"off", "first", "loop", "build"}, queue : 0..Buf, aside : 0..Buf,
            built : 0..MaxChanges, shown : 0..MaxChanges]

\* Every variable has its type; no build has read what has not happened, no channel
\* holds more than its room, and only a subscriber has anything in its channel.
TypeOK ==
    /\ world \in 0..MaxChanges /\ unseen \in BOOLEAN
    /\ pub \in [Publishers -> Pubs]
    /\ \A p \in Publishers : /\ pub[p].rest \subseteq Open
                             /\ pub[p].rest # {} => pub[p].pc = "sending"
    /\ cl \in [Clients -> Screens]
    /\ \A c \in Clients : cl[c].queue + cl[c].aside <= Buf
    /\ \A c \in Clients \ Open : cl[c].queue = 0
    /\ snap \in 0..MaxChanges \cup {Failed}
    /\ build \in 0..world \cup {None}
    /\ lost \in [Clients -> SUBSET Changes]

\* a client has an event in hand at which it asks, or one is on its way to it
Noticed(c) ==
    \/ cl[c].queue > 0
    \/ unseen
    \/ \E p \in Publishers : Asks(c, p) /\ (pub[p].pc = "due" \/ c \in pub[p].rest)

\* No event is lost that anybody needs: a subscribed client that is behind has one in
\* hand or on its way, although the hub drops what finds no room and a burst is
\* answered by one build.  The exceptions: an edit nobody publishes to who shows it, a
\* change between a stream's first view and its subscription, a build that failed, a
\* handler that panicked, and, for a page, the answer of an expired cache, an event
\* that found its channel full of events about other views, and what it missed while
\* its socket for events was closed, which only the other socket makes up for.
ChangeNoticed ==
    \A c \in Open : \A v \in Behind(c) : v \in lost[c] \/ Noticed(c)

\* The screen of a stream that stays never goes back (handleUIEvents builds its own
\* views, one after the other).  A page's does: the cache stores what a build ends with,
\* however long ago it began.
ScreenGoesOn(c) == c \in Open /\ (c \in Open)' => cl'[c].shown >= cl[c].shown
StreamsGoOn == [][\A c \in Streams : ScreenGoesOn(c)]_vars

\* A stream that stays shows every change, published or not, in the end.
StreamCatchesUp == \A c \in Streams : []<>(c \notin Open \/ cl[c].shown = world)

\* Not so (cache.go:96, "without missing real changes"): a page that is told of a
\* change asks once and is answered with the view from before it; the view that is
\* built behind the answer is announced to nobody.
PageCatchesUp == \A c \in Pages : []<>(c \notin Open \/ cl[c].shown = world)
================================================================================
