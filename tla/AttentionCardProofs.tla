-------------------------- MODULE AttentionCardProofs --------------------------
(* Proofs about AttentionCard, for any threads, actors and bounds: types, the   *)
(* one open card of a thread, the one forward of a message, and the answers and *)
(* verdicts that stand.                                                         *)
EXTENDS AttentionCard, FiniteSetTheorems, WellFoundedInduction, TLAPS

-------------------------------------------------------------------------------
(* What every reachable state is like *)

Pcs == {"idle", "lookup", "write", "surfaced", "clear", "drop", "sweep", "merge", "resolve",
        "ask", "tell", "respond"} \cup {"append"} \cup (Effects \ {"none"})
Kinds == {"none", "cascade", "session", "refresh", "retriage", "correction", "operator", "handoff"}
Ops == [pc : Pcs, kind : Kinds, card : 0..MaxOps, thread : Threads, ts : Stamps,
        seen : Rows, also : Nat, cards : SUBSET Cards]
Handoffs == [card : Cards, status : {"pending", "timeout", "deleted"} \cup Verdicts]

\* What an actor holds: cards that are in the feed f, one of its own thread while it
\* observes or captures, and a handoff that is among the first n.
Grounded(r, f, n) ==
    /\ r.card # 0 => f[r.card].status # "none"
    /\ \A c \in r.cards : f[c].status # "none"
    /\ r.pc \in {"surfaced", "ask"} => r.card # 0
    /\ r.pc \in {"tell", "respond"} => r.also \in 1..n
    /\ r.pc \in {"write", "surfaced", "capture_kb"} /\ r.card # 0 => f[r.card].thread = r.thread
    /\ r.pc = "write" /\ r.card # 0 => r.seen.status \in {"new", "dismissed"}

FeedTyped ==
    /\ feed \in [Cards -> Rows]
    /\ rank \in [Cards -> 0..MaxOps]
    /\ \A c \in Cards : rank[c] <= Filled
    /\ \A c \in Cards : rank[c] # 0 <=> c <= Filled
    /\ \A c, d \in Cards : rank[c] = rank[d] /\ rank[c] # 0 => c = d
    /\ \A c \in Cards : feed[c].status # "none" <=> c <= Filled
HandoffsTyped ==
    /\ handoffs \in Seq(Handoffs)
    /\ \A h \in 1..Len(handoffs) : feed[handoffs[h].card].status # "none"
OpsTyped == op \in [Actors -> Ops] /\ \A a \in Actors : Grounded(op[a], feed, Len(handoffs))
RestTyped ==
    /\ retriaging \subseteq Cards /\ muted \subseteq Threads /\ tasks \subseteq Threads
    /\ inbox \in [Threads -> [Stamps -> Nat]]
    /\ started \in 0..MaxOps /\ faults \in 0..MaxFaults
    /\ overlap \subseteq Threads /\ raced \subseteq Threads
    /\ misread \in [Threads -> Nat]

Typed == FeedTyped /\ HandoffsTyped /\ OpsTyped /\ RestTyped

LEMMA Constants ==
    /\ 0 \in Stamps /\ 0 \in 0..MaxOps /\ 0 \notin Cards /\ Cards \subseteq 0..MaxOps
    /\ NoRow \in Rows /\ NoRow.status = "none" /\ NoRow.thread \in Threads
    /\ Idle \in Ops /\ Idle.pc = "idle" /\ Idle.card = 0 /\ Idle.cards = {}
<1>1. 0 \in Stamps /\ 0 \in 0..MaxOps /\ 0 \notin Cards /\ Cards \subseteq 0..MaxOps
  BY AttentionCardAssumption DEF Stamps, Cards
<1>2. (CHOOSE t \in Threads : TRUE) \in Threads BY AttentionCardAssumption
<1>3. NoRow \in Rows /\ NoRow.status = "none" /\ NoRow.thread \in Threads
  BY <1>1, <1>2 DEF NoRow, Rows, Statuses
<1> HIDE DEF NoRow
<1>4. Idle \in Ops BY <1>1, <1>3 DEF Idle, Ops, Pcs, Kinds
<1> QED BY <1>1, <1>3, <1>4 DEF Idle

LEMMA IdleGrounded == \A f, n : Grounded(Idle, f, n)
BY Constants DEF Grounded

LEMMA CardsFinite == IsFiniteSet(Cards) /\ Cardinality(Cards) = MaxOps
BY FS_Interval, AttentionCardAssumption DEF Cards

LEMMA FilledBound == Filled \in 0..MaxOps
<1>1. {c \in Cards : feed[c].status # "none"} \subseteq Cards OBVIOUS
<1> QED BY <1>1, CardsFinite, FS_Subset, FS_CardinalityType, AttentionCardAssumption DEF Filled

\* A set of cards that is not empty has one that was written last.
LEMMA NewestIn ==
    ASSUME rank \in [Cards -> 0..MaxOps], NEW C \in SUBSET Cards, C # {}
    PROVE  Newest(C) \in C
<1> DEFINE Later(x) == {y \in C : rank[y] > rank[x]}
           Ls == {Later(x) : x \in C}
<1>0. \A x \in C : rank[x] \in Int BY AttentionCardAssumption
<1>1. IsWellFoundedOn(StrictSubsetOrdering(Cards), SUBSET Cards)
  BY CardsFinite, FS_StrictSubsetOrderingWellFounded, FS_FiniteSubsetsOfFinite
<1>2. Ls \subseteq SUBSET Cards /\ Ls # {}
  <2>1. \A x \in C : Later(x) \in SUBSET Cards OBVIOUS
  <2> HIDE DEF Later
  <2> QED BY <2>1
<1>3. PICK X \in Ls : \A Y \in Ls : ~ (<<Y, X>> \in StrictSubsetOrdering(Cards))
  <2> HIDE DEF Ls
  <2> QED BY <1>1, <1>2, WFMin
<1>4. PICK x \in C : X = Later(x) OBVIOUS
<1>5. ASSUME NEW y \in C PROVE rank[y] <= rank[x]
  <2> SUFFICES ASSUME rank[y] > rank[x] PROVE FALSE
    BY <1>0
  <2>1. y \in Later(x) /\ y \notin Later(y) BY <1>0
  <2>2. Later(y) \subseteq Later(x) BY <1>0
  <2>3. <<Later(y), Later(x)>> \in StrictSubsetOrdering(Cards)
    BY <2>1, <2>2 DEF StrictSubsetOrdering
  <2> QED BY <1>3, <1>4, <2>3
<1> QED BY <1>5 DEF Newest

\* The row an observer coalesces with is of its thread, and open when one is.
LEMMA CoalescedRow ==
    ASSUME FeedTyped, NEW t \in Threads
    PROVE  /\ Coalesced(t) \in 0..MaxOps
           /\ Row(Coalesced(t)) \in Rows
           /\ Coalesced(t) = 0 => InThread(t, "new") = {}
           /\ Coalesced(t) # 0 => /\ Coalesced(t) \in Cards
                                  /\ feed[Coalesced(t)].thread = t
                                  /\ feed[Coalesced(t)].status \in {"new", "dismissed"}
                                  /\ Row(Coalesced(t)) = feed[Coalesced(t)]
           /\ InThread(t, "new") # {} => Coalesced(t) \in InThread(t, "new")
<1>1. ASSUME NEW s PROVE InThread(t, s) \subseteq Cards BY DEF InThread
<1>2. CASE InThread(t, "new") # {}
  <2>1. Coalesced(t) \in InThread(t, "new")
    BY <1>1, <1>2, NewestIn DEF Coalesced, FeedTyped
  <2> QED BY <2>1, Constants DEF InThread, Row, FeedTyped
<1>3. CASE InThread(t, "new") = {} /\ InThread(t, "dismissed") # {}
  <2>1. Coalesced(t) \in InThread(t, "dismissed")
    BY <1>1, <1>3, NewestIn DEF Coalesced, FeedTyped
  <2> QED BY <1>3, <2>1, Constants DEF InThread, Row, FeedTyped
<1>4. CASE InThread(t, "new") = {} /\ InThread(t, "dismissed") = {}
  <2>1. Coalesced(t) = 0 BY <1>4 DEF Coalesced, Newest
  <2> QED BY <1>4, <2>1, Constants DEF Row
<1> QED BY <1>2, <1>3, <1>4

-------------------------------------------------------------------------------
(* What a step does to the rows *)

Rowed(C) == \A c \in Cards : c \in C => feed[c].status # "none"

\* A row stays, and stays in its thread.
Grows == \A c \in Cards : feed[c].status # "none"
                           => feed'[c].status # "none" /\ feed'[c].thread = feed[c].thread

LEMMA SetRows ==
    ASSUME feed \in [Cards -> Rows], NEW C, NEW s \in Statuses, feed' = Set(C, s)
    PROVE  /\ feed' \in [Cards -> Rows]
           /\ \A c \in Cards : /\ feed'[c].thread = feed[c].thread
                               /\ feed'[c].status = IF c \in C THEN s ELSE feed[c].status
BY DEF Set, Rows

LEMMA FeedSame ==
    ASSUME FeedTyped, UNCHANGED <<feed, rank>>
    PROVE  FeedTyped' /\ Grows
BY DEF FeedTyped, Filled, Grows

LEMMA FeedSet ==
    ASSUME FeedTyped, rank' = rank, NEW C, Rowed(C), NEW s \in Statuses \ {"none"}, feed' = Set(C, s)
    PROVE  FeedTyped' /\ Grows
<1>1. /\ feed' \in [Cards -> Rows]
      /\ \A c \in Cards : /\ feed'[c].thread = feed[c].thread
                          /\ feed'[c].status = IF c \in C THEN s ELSE feed[c].status
  BY SetRows DEF FeedTyped
<1>2. \A c \in Cards : feed'[c].status # "none" <=> feed[c].status # "none"
  BY <1>1 DEF Rowed
<1>3. Filled' = Filled BY <1>2 DEF Filled
<1> QED BY <1>1, <1>2, <1>3 DEF FeedTyped, Grows

\* An insert takes the next number and the last place.
LEMMA FeedInserted ==
    ASSUME FeedTyped, NEW c \in Cards, c = Filled + 1, NEW row \in Rows, row.status # "none",
           feed' = [feed EXCEPT ![c] = row], rank' = [rank EXCEPT ![c] = c]
    PROVE  FeedTyped' /\ Grows /\ feed[c].status = "none"
<1> DEFINE Old == {d \in Cards : feed[d].status # "none"}
<1>0. c \in 0..MaxOps /\ MaxOps \in Nat /\ \A d \in Cards : d \in Nat
  BY AttentionCardAssumption DEF Cards
<1>1. feed[c].status = "none" BY <1>0, FilledBound DEF FeedTyped
<1>2. {d \in Cards : feed'[d].status # "none"} = Old \cup {c} /\ c \notin Old
  BY <1>1 DEF FeedTyped
<1>3. IsFiniteSet(Old) BY CardsFinite, FS_Subset
<1>4. Filled' = Filled + 1 BY <1>2, <1>3, FS_AddElement DEF Filled
<1>5. feed' \in [Cards -> Rows] /\ rank' \in [Cards -> 0..MaxOps] BY <1>0 DEF FeedTyped
<1>6. \A d \in Cards : /\ rank[d] \in Nat /\ rank[d] <= Filled /\ d \in Nat
                       /\ rank'[d] = IF d = c THEN Filled + 1 ELSE rank[d]
                       /\ d # c => feed'[d] = feed[d]
                       /\ (d # c /\ d <= Filled + 1) => d <= Filled
  BY <1>0, FilledBound DEF FeedTyped
<1>7. \A d \in Cards : rank'[d] <= Filled' BY <1>4, <1>6, FilledBound
<1>8. \A d \in Cards : rank'[d] # 0 <=> d <= Filled'
  BY <1>4, <1>6, FilledBound DEF FeedTyped
<1>9. \A d, e \in Cards : rank'[d] = rank'[e] /\ rank'[d] # 0 => d = e
  BY <1>6, FilledBound DEF FeedTyped
<1>10. \A d \in Cards : feed'[d].status # "none" <=> d <= Filled'
  BY <1>4, <1>6, FilledBound DEF FeedTyped
<1> QED BY <1>1, <1>5, <1>6, <1>7, <1>8, <1>9, <1>10 DEF FeedTyped, Grows

\* An overwritten row goes to the last place, and those after it move up by one.
LEMMA FeedRenewed ==
    ASSUME FeedTyped, NEW c \in Cards, feed[c].status # "none", NEW m \in Stamps,
           feed' = [feed EXCEPT ![c] = [@ EXCEPT !.ts = m, !.status = "new"]], rank' = Moved(c)
    PROVE  FeedTyped' /\ Grows
<1>0. MaxOps \in Nat /\ Filled \in Nat /\ Filled <= MaxOps /\ \A d \in Cards : d \in Nat
  BY AttentionCardAssumption, FilledBound DEF Cards
<1>1. /\ feed'[c].thread = feed[c].thread /\ feed'[c].status = "new" /\ feed'[c] \in Rows
      /\ \A d \in Cards : d # c => feed'[d] = feed[d]
  <2> DEFINE row == [feed[c] EXCEPT !.ts = m, !.status = "new"]
  <2>1. feed[c] \in Rows BY DEF FeedTyped
  <2>2. row \in Rows /\ row.thread = feed[c].thread /\ row.status = "new"
    BY <2>1 DEF Rows, Statuses
  <2>3. feed' = [feed EXCEPT ![c] = row] OBVIOUS
  <2> HIDE DEF row
  <2> QED BY <2>2, <2>3 DEF FeedTyped
<1>2. feed' \in [Cards -> Rows] BY <1>1 DEF FeedTyped
<1>3. \A d \in Cards : feed'[d].status # "none" <=> feed[d].status # "none" BY <1>1
<1>4. Filled' = Filled BY <1>3 DEF Filled
<1>5. /\ c <= Filled /\ rank[c] # 0 /\ Filled # 0
      /\ \A d \in Cards : rank[d] \in Nat /\ rank[d] <= Filled
  BY <1>0, Constants DEF FeedTyped
<1>6. \A d \in Cards : rank'[d] = IF d = c THEN Filled
                                  ELSE IF rank[d] > rank[c] THEN rank[d] - 1 ELSE rank[d]
  BY DEF Moved
<1>7. \A d \in Cards : rank'[d] \in Nat /\ rank'[d] <= Filled /\ (rank'[d] # 0 <=> rank[d] # 0)
  BY <1>0, <1>5, <1>6
<1>8. rank' \in [Cards -> 0..MaxOps]
  <2>1. \A d \in Cards : rank'[d] \in 0..MaxOps BY <1>0, <1>7
  <2> QED BY <2>1 DEF Moved
<1>9. ASSUME NEW d \in Cards, NEW e \in Cards, rank'[d] = rank'[e], rank'[d] # 0 PROVE d = e
  <2>0. rank[d] # 0 /\ rank[e] # 0 BY <1>7, <1>9
  <2>1. CASE d = c /\ e # c
    <3>1. rank[e] = rank[c] BY <1>5, <1>6, <1>9, <2>1
    <3> QED BY <1>5, <2>1, <3>1 DEF FeedTyped
  <2>2. CASE d # c /\ e = c
    <3>1. rank[d] = rank[c] BY <1>5, <1>6, <1>9, <2>2
    <3> QED BY <1>5, <2>2, <3>1 DEF FeedTyped
  <2>3. CASE d # c /\ e # c
    <3>1. rank[d] # rank[c] /\ rank[e] # rank[c] BY <1>5, <2>3 DEF FeedTyped
    <3>2. rank[d] = rank[e] BY <1>5, <1>6, <1>9, <2>3, <3>1
    <3> QED BY <2>0, <3>2 DEF FeedTyped
  <2> QED BY <2>1, <2>2, <2>3
<1> QED BY <1>1, <1>2, <1>3, <1>4, <1>7, <1>8, <1>9 DEF FeedTyped, Grows

-------------------------------------------------------------------------------
(* What a step does to the actors *)

LEMMA GroundedStays ==
    ASSUME FeedTyped, Grows, NEW r \in Ops, NEW n \in Nat, NEW k \in Nat, n <= k,
           Grounded(r, feed, n)
    PROVE  Grounded(r, feed', k)
<1>1. r.card # 0 => r.card \in Cards BY Constants, AttentionCardAssumption DEF Ops, Cards
<1>2. r.cards \subseteq Cards BY DEF Ops
<1> QED BY <1>1, <1>2 DEF Grounded, Grows

\* A step of one actor.
LEMMA Goes1 ==
    ASSUME OpsTyped, NEW a \in Actors, NEW r \in Ops, Goes(a, r)
    PROVE  op' \in [Actors -> Ops] /\ op'[a] = r /\ \A b \in Actors : b # a => op'[b] = op[b]
BY DEF OpsTyped, Goes

LEMMA OpsStep ==
    ASSUME FeedTyped, HandoffsTyped, OpsTyped, Grows,
           Len(handoffs') \in Nat, Len(handoffs) <= Len(handoffs'),
           NEW a \in Actors, NEW r \in Ops, Goes(a, r), Grounded(r, feed', Len(handoffs'))
    PROVE  OpsTyped'
<1>1. op' \in [Actors -> Ops] /\ op'[a] = r /\ \A b \in Actors : b # a => op'[b] = op[b]
  BY Goes1
<1>2. Len(handoffs) \in Nat BY DEF HandoffsTyped
<1>3. ASSUME NEW b \in Actors, b # a PROVE Grounded(op'[b], feed', Len(handoffs'))
  <2>1. op'[b] = op[b] /\ op[b] \in Ops /\ Grounded(op[b], feed, Len(handoffs))
    BY <1>1, <1>3 DEF OpsTyped
  <2>2. Grounded(op[b], feed', Len(handoffs')) BY <1>2, <2>1, GroundedStays
  <2> QED BY <2>1, <2>2
<1>4. \A b \in Actors : Grounded(op'[b], feed', Len(handoffs')) BY <1>1, <1>3
<1> QED BY <1>1, <1>4 DEF OpsTyped

LEMMA OpsSame ==
    ASSUME FeedTyped, HandoffsTyped, OpsTyped, Grows, op' = op,
           Len(handoffs') = Len(handoffs)
    PROVE  OpsTyped'
<1>1. Len(handoffs) \in Nat BY DEF HandoffsTyped
<1>2. ASSUME NEW b \in Actors PROVE Grounded(op'[b], feed', Len(handoffs'))
  <2>1. op[b] \in Ops /\ Grounded(op[b], feed, Len(handoffs)) BY DEF OpsTyped
  <2> QED BY <1>1, <2>1, GroundedStays
<1> QED BY <1>2 DEF OpsTyped

LEMMA HandoffsSame ==
    ASSUME HandoffsTyped, Grows, handoffs' = handoffs
    PROVE  HandoffsTyped' /\ Len(handoffs') \in Nat /\ Len(handoffs) <= Len(handoffs')
<1>1. \A h \in 1..Len(handoffs) : handoffs[h] \in Handoffs BY DEF HandoffsTyped
<1> QED BY <1>1 DEF HandoffsTyped, Handoffs, Grows

LEMMA AfterOp ==
    ASSUME NEW o \in Ops, NEW f, NEW n, Grounded(o, f, n)
    PROVE  /\ After(o) \in Ops /\ Grounded(After(o), f, n)
           /\ After(o).pc \notin {"write", "append"}
<1>1. CASE o.kind \in {"retriage", "correction"}
  <2> DEFINE r == [o EXCEPT !.pc = "clear"]
  <2>1. r \in Ops /\ r.pc = "clear" /\ r.card = o.card /\ r.cards = o.cards BY DEF Ops, Pcs
  <2>2. After(o) = r BY <1>1 DEF After
  <2> HIDE DEF r
  <2> QED BY <2>1, <2>2 DEF Grounded
<1>2. CASE o.kind \notin {"retriage", "correction"} /\ o.kind = "session" /\ o.also = 1
  <2> DEFINE r == [o EXCEPT !.pc = "forward", !.also = 0]
  <2>1. r \in Ops /\ r.pc = "forward" /\ r.card = o.card /\ r.cards = o.cards
    BY DEF Ops, Pcs, Effects
  <2>2. After(o) = r BY <1>2 DEF After
  <2> HIDE DEF r
  <2> QED BY <2>1, <2>2 DEF Grounded
<1>3. CASE o.kind \notin {"retriage", "correction"} /\ ~(o.kind = "session" /\ o.also = 1)
  BY <1>3, Constants, IdleGrounded DEF After
<1> QED BY <1>1, <1>2, <1>3

\* A step that puts nothing into the feed, an inbox or a window: it may answer cards.
Answers == \E C : \E s \in Answered : Rowed(C) /\ feed' = Set(C, s)
Plain(a) ==
    /\ \E r \in Ops : /\ Goes(a, r) /\ r.pc \notin {"write", "append"}
                      /\ Grounded(r, feed, Len(handoffs'))
    /\ feed' = feed \/ Answers
    /\ UNCHANGED <<rank, inbox, overlap, raced, misread>>
    /\ handoffs' \in Seq(Handoffs) /\ Len(handoffs) <= Len(handoffs')
    /\ \A h \in 1..Len(handoffs') : feed[handoffs'[h].card].status # "none"
    /\ RestTyped'

LEMMA AnswersBy ==
    ASSUME NEW C, NEW s \in Answered, Rowed(C), feed' = Set(C, s)
    PROVE  Answers
BY DEF Answers

LEMMA PlainTyped ==
    ASSUME Typed, NEW a \in Actors, Plain(a)
    PROVE  Typed' /\ Grows
<1>1. FeedTyped' /\ Grows
  <2>1. CASE feed' = feed BY <2>1, FeedSame DEF Plain, Typed
  <2>2. CASE Answers
    <3>1. PICK C : \E s \in Answered : Rowed(C) /\ feed' = Set(C, s) BY <2>2 DEF Answers
    <3>2. PICK s \in Answered : Rowed(C) /\ feed' = Set(C, s) BY <3>1
    <3> QED BY <3>2, FeedSet DEF Plain, Typed, Answered, Statuses
  <2> QED BY <2>1, <2>2 DEF Plain
<1>2. PICK r \in Ops : Goes(a, r) /\ Grounded(r, feed, Len(handoffs')) BY DEF Plain
<1>3. Len(handoffs') \in Nat BY DEF Plain
<1>4. Grounded(r, feed', Len(handoffs')) BY <1>1, <1>2, <1>3, GroundedStays DEF Typed
<1>5. OpsTyped' BY <1>1, <1>2, <1>3, <1>4, OpsStep DEF Plain, Typed
<1>6. HandoffsTyped'
  <2>0. \A h \in 1..Len(handoffs') : handoffs'[h] \in Handoffs BY DEF Plain
  <2>1. \A h \in 1..Len(handoffs') : handoffs'[h].card \in Cards BY <2>0 DEF Handoffs
  <2> QED BY <1>1, <2>1 DEF Plain, HandoffsTyped, Grows
<1> QED BY <1>1, <1>5, <1>6 DEF Plain, Typed

LEMMA PlainBy ==
    ASSUME Typed, NEW a \in Actors, NEW r \in Ops, Goes(a, r), r.pc \notin {"write", "append"},
           Grounded(r, feed, Len(handoffs)), feed' = feed \/ Answers,
           UNCHANGED <<rank, inbox, overlap, raced, misread, handoffs>>,
           retriaging' \subseteq Cards, muted' \subseteq Threads, tasks' \subseteq Threads,
           started' \in 0..MaxOps, faults' \in 0..MaxFaults
    PROVE  Plain(a)
<1>1. Len(handoffs) \in Nat BY DEF Typed, HandoffsTyped
<1> QED BY <1>1 DEF Plain, Typed, HandoffsTyped, RestTyped

LEMMA Opens ==
    ASSUME Typed, NEW a \in Actors, NEW r, Start(a, r)
    PROVE  Goes(a, r) /\ started' \in 0..MaxOps
BY AttentionCardAssumption DEF Start, Typed, RestTyped

LEMMA BeginPlain ==
    ASSUME Typed, NEW a \in Actors,
           Refresh(a) \/ Retriage(a) \/ Drop(a) \/ Mute(a) \/ Merge(a)
           \/ RequestHandoff(a) \/ ReadHandoff(a)
    PROVE  Plain(a)
<1>0. /\ feed \in [Cards -> Rows] /\ muted \subseteq Threads /\ retriaging \subseteq Cards
      /\ faults \in 0..MaxFaults /\ tasks \subseteq Threads
  BY DEF Typed, FeedTyped, RestTyped
<1>1. CASE Refresh(a)
  <2>1. PICK t \in Threads, m \in Stamps :
          Start(a, [Idle EXCEPT !.pc = "lookup", !.kind = "refresh", !.thread = t, !.ts = m])
    BY <1>1 DEF Refresh
  <2> DEFINE r == [Idle EXCEPT !.pc = "lookup", !.kind = "refresh", !.thread = t, !.ts = m]
  <2>2. r \in Ops /\ r.pc = "lookup" /\ r.card = 0 /\ r.cards = {}
    BY Constants DEF Ops, Pcs, Kinds
  <2>3. Goes(a, r) /\ started' \in 0..MaxOps BY <2>1, Opens
  <2> HIDE DEF r
  <2> QED BY <1>0, <1>1, <2>2, <2>3, PlainBy DEF Refresh, dbVars, history, Grounded
<1>2. CASE Retriage(a)
  <2>1. PICK c \in Cards, k \in {"retriage", "correction"} :
          /\ Start(a, [Idle EXCEPT !.pc = "lookup", !.kind = k, !.thread = feed[c].thread,
                                   !.ts = feed[c].ts, !.also = c])
          /\ retriaging' = retriaging \cup {c}
    BY <1>2 DEF Retriage
  <2> DEFINE r == [Idle EXCEPT !.pc = "lookup", !.kind = k, !.thread = feed[c].thread,
                               !.ts = feed[c].ts, !.also = c]
  <2>2. c \in Nat /\ feed[c].thread \in Threads /\ feed[c].ts \in Stamps
    BY <1>0 DEF Cards, Rows
  <2>3. r \in Ops /\ r.pc = "lookup" /\ r.card = 0 /\ r.cards = {}
    BY <2>2, Constants DEF Ops, Pcs, Kinds
  <2>4. Goes(a, r) /\ started' \in 0..MaxOps BY <2>1, Opens
  <2> HIDE DEF r
  <2> QED BY <1>0, <1>2, <2>1, <2>3, <2>4, PlainBy DEF Retriage, dbVars, history, Grounded
<1>3. CASE Drop(a)
  <2>1. PICK t \in Threads :
          Start(a, [Idle EXCEPT !.pc = "drop", !.kind = "session", !.thread = t])
    BY <1>3 DEF Drop
  <2> DEFINE r == [Idle EXCEPT !.pc = "drop", !.kind = "session", !.thread = t]
  <2>2. r \in Ops /\ r.pc = "drop" /\ r.card = 0 /\ r.cards = {}
    BY Constants DEF Ops, Pcs, Kinds
  <2>3. Goes(a, r) /\ started' \in 0..MaxOps BY <2>1, Opens
  <2> HIDE DEF r
  <2> QED BY <1>0, <1>3, <2>2, <2>3, PlainBy DEF Drop, dbVars, history, Grounded
<1>4. CASE Mute(a)
  <2>1. PICK t \in Threads :
          /\ Start(a, [Idle EXCEPT !.pc = "sweep", !.kind = "operator", !.thread = t,
                                   !.cards = InThread(t, "new")])
          /\ muted' = muted \cup {t}
    BY <1>4 DEF Mute
  <2> DEFINE r == [Idle EXCEPT !.pc = "sweep", !.kind = "operator", !.thread = t,
                               !.cards = InThread(t, "new")]
  <2>2. InThread(t, "new") \in SUBSET Cards /\ \A c \in InThread(t, "new") : feed[c].status # "none"
    BY DEF InThread
  <2>3. r \in Ops /\ r.pc = "sweep" /\ r.card = 0 /\ r.cards = InThread(t, "new")
    BY <2>2, Constants DEF Ops, Pcs, Kinds
  <2>4. Goes(a, r) /\ started' \in 0..MaxOps BY <2>1, Opens
  <2> HIDE DEF r
  <2> QED BY <1>0, <1>4, <2>1, <2>2, <2>3, <2>4, PlainBy DEF Mute, dbVars, history, Grounded
<1>5. CASE Merge(a)
  <2>1. PICK keep \in Cards, dupe \in Cards :
          /\ feed[dupe].status = "new"
          /\ Start(a, [Idle EXCEPT !.pc = "merge", !.kind = "operator", !.card = dupe, !.also = keep])
    BY <1>5 DEF Merge
  <2> DEFINE r == [Idle EXCEPT !.pc = "merge", !.kind = "operator", !.card = dupe, !.also = keep]
  <2>2. keep \in Nat /\ dupe \in 0..MaxOps BY Constants DEF Cards
  <2>3. r \in Ops /\ r.pc = "merge" /\ r.card = dupe /\ r.cards = {}
    BY <2>2, Constants DEF Ops, Pcs, Kinds
  <2>4. Goes(a, r) /\ started' \in 0..MaxOps BY <2>1, Opens
  <2> HIDE DEF r
  <2> QED BY <1>0, <1>5, <2>1, <2>3, <2>4, PlainBy DEF Merge, dbVars, history, Grounded
<1>6. CASE RequestHandoff(a)
  <2>1. PICK c \in Cards :
          /\ feed[c].status # "none"
          /\ Start(a, [Idle EXCEPT !.pc = "ask", !.kind = "handoff", !.card = c])
    BY <1>6 DEF RequestHandoff
  <2> DEFINE r == [Idle EXCEPT !.pc = "ask", !.kind = "handoff", !.card = c]
  <2>2. c \in 0..MaxOps /\ c # 0 BY Constants
  <2>3. r \in Ops /\ r.pc = "ask" /\ r.card = c /\ r.cards = {}
    BY <2>2, Constants DEF Ops, Pcs, Kinds
  <2>4. Goes(a, r) /\ started' \in 0..MaxOps BY <2>1, Opens
  <2> HIDE DEF r
  <2> QED
    BY <1>0, <1>6, <2>1, <2>2, <2>3, <2>4, PlainBy DEF RequestHandoff, dbVars, history, Grounded
<1>7. CASE ReadHandoff(a)
  <2>1. PICK h \in 1..Len(handoffs) :
          Start(a, [Idle EXCEPT !.pc = "respond", !.kind = "handoff", !.card = handoffs[h].card,
                                !.also = h])
    BY <1>7 DEF ReadHandoff
  <2> DEFINE r == [Idle EXCEPT !.pc = "respond", !.kind = "handoff", !.card = handoffs[h].card,
                               !.also = h]
  <2>2. handoffs[h] \in Handoffs /\ feed[handoffs[h].card].status # "none"
    BY DEF Typed, HandoffsTyped
  <2>3. handoffs[h].card \in 0..MaxOps /\ h \in Nat
    <3>1. h \in Nat BY DEF Typed, HandoffsTyped
    <3>2. handoffs[h].card \in Cards BY <2>2 DEF Handoffs
    <3> QED BY <3>1, <3>2, Constants
  <2>4. r \in Ops /\ r.pc = "respond" /\ r.card = handoffs[h].card /\ r.cards = {} /\ r.also = h
    BY <2>3, Constants DEF Ops, Pcs, Kinds
  <2>5. Goes(a, r) /\ started' \in 0..MaxOps BY <2>1, Opens
  <2> HIDE DEF r
  <2> QED
    BY <1>0, <1>7, <2>2, <2>4, <2>5, PlainBy DEF ReadHandoff, dbVars, history, Grounded
<1> QED BY <1>1, <1>2, <1>3, <1>4, <1>5, <1>6, <1>7

\* An actor goes back to idle, or to what comes after.
LEMMA EndsPlain ==
    ASSUME Typed, NEW a \in Actors, Goes(a, Idle) \/ Returns(a), feed' = feed \/ Answers,
           UNCHANGED <<rank, inbox, overlap, raced, misread, handoffs>>,
           retriaging' \subseteq Cards, muted' \subseteq Threads, tasks' \subseteq Threads,
           started' \in 0..MaxOps, faults' \in 0..MaxFaults
    PROVE  Plain(a)
<1>1. op[a] \in Ops /\ Grounded(op[a], feed, Len(handoffs)) BY DEF Typed, OpsTyped
<1>2. CASE Goes(a, Idle) BY <1>2, Constants, IdleGrounded, PlainBy
<1>3. CASE Returns(a)
  <2>1. Goes(a, After(op[a])) BY <1>3 DEF Returns
  <2> QED BY <1>1, <2>1, AfterOp, PlainBy
<1> QED BY <1>2, <1>3

\* An actor goes on with the card it holds.
LEMMA AdvancesPlain ==
    ASSUME Typed, NEW a \in Actors,
           NEW p \in Pcs \ {"write", "append", "surfaced", "ask", "tell", "respond", "capture_kb"},
           Goes(a, [op[a] EXCEPT !.pc = p]), feed' = feed,
           UNCHANGED <<rank, inbox, overlap, raced, misread, handoffs>>,
           retriaging' \subseteq Cards, muted' \subseteq Threads, tasks' \subseteq Threads,
           started' \in 0..MaxOps, faults' \in 0..MaxFaults
    PROVE  Plain(a)
<1> DEFINE r == [op[a] EXCEPT !.pc = p]
<1>1. op[a] \in Ops /\ Grounded(op[a], feed, Len(handoffs)) BY DEF Typed, OpsTyped
<1>2. r \in Ops /\ r.pc = p /\ r.card = op[a].card /\ r.cards = op[a].cards /\ Goes(a, r)
  BY <1>1 DEF Ops
<1> HIDE DEF r
<1>3. Grounded(r, feed, Len(handoffs)) BY <1>1, <1>2 DEF Grounded
<1> QED BY <1>2, <1>3, PlainBy

LEMMA AnswerPlain ==
    ASSUME Typed, NEW a \in Actors,
           Answer(a) \/ AnswerInThread(a) \/ ResolveDropped(a) \/ Sweep(a)
           \/ ResolveMerged(a) \/ ResolveCard(a)
    PROVE  Plain(a)
<1>0. /\ muted \subseteq Threads /\ retriaging \subseteq Cards /\ tasks \subseteq Threads
      /\ started \in 0..MaxOps /\ faults \in 0..MaxFaults
  BY DEF Typed, RestTyped
<1>1. op[a] \in Ops /\ Grounded(op[a], feed, Len(handoffs)) BY DEF Typed, OpsTyped
<1>2. \A t : Rowed(InThread(t, "new")) BY DEF Rowed, InThread
<1>3. Rowed({op[a].card}) /\ Rowed(op[a].cards) BY <1>1, Constants DEF Rowed, Grounded
<1>4. CASE Answer(a)
  <2>1. PICK c \in Cards, s \in Answered :
          feed[c].status # "none" /\ Start(a, Idle) /\ feed' = Set({c}, s)
    BY <1>4 DEF Answer
  <2>2. Answers BY <2>1, AnswersBy DEF Rowed
  <2>3. Goes(a, Idle) /\ started' \in 0..MaxOps BY <2>1, Opens
  <2> QED BY <1>0, <1>4, <2>2, <2>3, EndsPlain DEF Answer, history
<1>5. CASE AnswerInThread(a)
  <2>1. PICK t \in Threads : Start(a, Idle) /\ feed' = Set(InThread(t, "new"), "acted")
    BY <1>5 DEF AnswerInThread
  <2>2. Answers BY <1>2, <2>1, AnswersBy DEF Answered
  <2>3. Goes(a, Idle) /\ started' \in 0..MaxOps BY <2>1, Opens
  <2> QED BY <1>0, <1>5, <2>2, <2>3, EndsPlain DEF AnswerInThread, history
<1>6. CASE ResolveDropped(a)
  <2>1. Answers BY <1>2, <1>6, AnswersBy DEF ResolveDropped, Answered
  <2> QED BY <1>0, <1>6, <2>1, EndsPlain DEF ResolveDropped, history
<1>7. CASE Sweep(a)
  <2>1. Answers BY <1>3, <1>7, AnswersBy DEF Sweep, Answered
  <2> QED BY <1>0, <1>7, <2>1, EndsPlain DEF Sweep, history
<1>8. CASE ResolveMerged(a)
  <2>1. Answers BY <1>3, <1>8, AnswersBy DEF ResolveMerged, Answered
  <2> QED BY <1>0, <1>8, <2>1, EndsPlain DEF ResolveMerged, history
<1>9. CASE ResolveCard(a)
  <2>1. Answers
    <3>1. (IF op[a].pc = "dismiss" THEN "dismissed" ELSE "acted") \in Answered BY DEF Answered
    <3> QED BY <1>3, <1>9, <3>1, AnswersBy DEF ResolveCard
  <2> QED BY <1>0, <1>9, <2>1, EndsPlain DEF ResolveCard, history
<1> QED BY <1>4, <1>5, <1>6, <1>7, <1>8, <1>9

LEMMA EndPlain ==
    ASSUME Typed, NEW a \in Actors,
           NoVerdict(a) \/ LeaveDismissed(a) \/ ClearFlag(a) \/ TooLate(a) \/ Die(a)
    PROVE  Plain(a)
<1>0. /\ muted \subseteq Threads /\ retriaging \subseteq Cards /\ tasks \subseteq Threads
      /\ started \in 0..MaxOps /\ faults \in 0..MaxFaults
  BY DEF Typed, RestTyped
<1>1. CASE NoVerdict(a)
  BY <1>0, <1>1, EndsPlain DEF NoVerdict, dbVars, history
<1>2. CASE LeaveDismissed(a)
  BY <1>0, <1>2, EndsPlain DEF LeaveDismissed, dbVars, history
<1>3. CASE ClearFlag(a)
  BY <1>0, <1>3, EndsPlain DEF ClearFlag, history
<1>4. CASE TooLate(a)
  BY <1>0, <1>4, EndsPlain DEF TooLate, dbVars, history
<1>5. CASE Die(a)
  <2>1. faults' \in 0..MaxFaults BY <1>0, <1>5, AttentionCardAssumption DEF Die, Fault
  <2> QED BY <1>0, <1>5, <2>1, EndsPlain DEF Die, dbVars, history
<1> QED BY <1>1, <1>2, <1>3, <1>4, <1>5

LEMMA EffectPlain ==
    ASSUME Typed, NEW a \in Actors, SpawnTask(a) \/ AgentDone(a)
    PROVE  Plain(a)
<1>0. /\ muted \subseteq Threads /\ retriaging \subseteq Cards /\ tasks \subseteq Threads
      /\ started \in 0..MaxOps /\ faults \in 0..MaxFaults
  BY DEF Typed, RestTyped
<1>1. "resolve" \in Pcs \ {"write", "append", "surfaced", "ask", "tell", "respond", "capture_kb"}
  BY DEF Pcs
<1>2. CASE SpawnTask(a)
  <2>1. op[a].thread \in Threads BY DEF Typed, OpsTyped, Ops
  <2>2. Goes(a, [op[a] EXCEPT !.pc = "resolve"]) /\ tasks' \subseteq Threads
    BY <1>0, <1>2, <2>1 DEF SpawnTask
  <2> QED BY <1>0, <1>1, <1>2, <2>2, AdvancesPlain DEF SpawnTask, history
<1>3. CASE AgentDone(a)
  BY <1>0, <1>1, <1>3, AdvancesPlain DEF AgentDone, dbVars, history
<1> QED BY <1>2, <1>3

LEMMA AutoActPlain ==
    ASSUME Typed, NEW a \in Actors, AutoAct(a)
    PROVE  Plain(a)
<1>0. /\ muted \subseteq Threads /\ retriaging \subseteq Cards /\ tasks \subseteq Threads
      /\ started \in 0..MaxOps /\ faults \in 0..MaxFaults
  BY DEF Typed, RestTyped
<1>1. /\ op[a] \in Ops /\ Grounded(op[a], feed, Len(handoffs)) /\ op[a].pc = "surfaced"
      /\ UNCHANGED <<feed, rank, retriaging, muted, tasks, inbox, handoffs, started, faults,
                     overlap, raced, misread>>
  BY DEF AutoAct, Typed, OpsTyped, dbVars, history
<1>2. CASE Returns(a)
  BY <1>0, <1>1, <1>2, EndsPlain
<1>3. ASSUME NEW e \in Effects \ {"none"}, NEW n \in 0..1,
             Goes(a, [op[a] EXCEPT !.pc = e, !.seen = feed[op[a].card],
                                   !.also = IF n = 1 THEN 1 ELSE @])
      PROVE  Plain(a)
  <2> DEFINE r == [op[a] EXCEPT !.pc = e, !.seen = feed[op[a].card],
                                !.also = IF n = 1 THEN 1 ELSE @]
  <2>1. op[a].card \in Cards
    BY <1>1, AttentionCardAssumption DEF Ops, Cards, Grounded
  <2>2. feed[op[a].card] \in Rows BY <2>1 DEF Typed, FeedTyped
  <2>3. e \in Pcs /\ e \notin {"write", "append", "surfaced", "ask", "tell", "respond"}
    BY DEF Effects, Pcs
  <2>4. /\ r \in Ops /\ r.pc = e /\ r.card = op[a].card /\ r.cards = op[a].cards
        /\ r.thread = op[a].thread
    BY <1>1, <2>2, <2>3 DEF Ops
  <2>5. Goes(a, r) BY <1>3
  <2> HIDE DEF r
  <2>6. Grounded(r, feed, Len(handoffs)) BY <1>1, <2>3, <2>4 DEF Grounded
  <2> QED BY <1>0, <1>1, <2>3, <2>4, <2>5, <2>6, PlainBy
<1> QED BY <1>2, <1>3 DEF AutoAct

LEMMA TakePlain ==
    ASSUME Typed, NEW a \in Actors, Take(a)
    PROVE  Plain(a)
<1>0. /\ feed \in [Cards -> Rows] /\ muted \subseteq Threads /\ retriaging \subseteq Cards
      /\ faults \in 0..MaxFaults /\ tasks \subseteq Threads
  BY DEF Typed, FeedTyped, RestTyped
<1>1. PICK c \in Cards, e \in {"make_task", "forward", "reply", "capture_kb"} :
        /\ feed[c].status # "none"
        /\ Start(a, [Idle EXCEPT !.pc = e, !.kind = "operator", !.card = c,
                                 !.thread = feed[c].thread, !.ts = feed[c].ts, !.seen = feed[c]])
        /\ feed' = IF e = "capture_kb" THEN Set({c}, "acted") ELSE feed
  BY DEF Take
<1> DEFINE r == [Idle EXCEPT !.pc = e, !.kind = "operator", !.card = c,
                             !.thread = feed[c].thread, !.ts = feed[c].ts, !.seen = feed[c]]
<1>2. feed[c] \in Rows /\ feed[c].thread \in Threads /\ feed[c].ts \in Stamps /\ c \in 0..MaxOps
  BY <1>0, Constants DEF Rows
<1>3. /\ r \in Ops /\ r.pc = e /\ r.card = c /\ r.cards = {} /\ r.thread = feed[c].thread
  BY <1>2, Constants DEF Ops, Pcs, Kinds, Effects
<1>4. Goes(a, r) /\ started' \in 0..MaxOps BY <1>1, Opens
<1> HIDE DEF r
<1>5. feed' = feed \/ Answers
  <2>1. Rowed({c}) BY <1>1 DEF Rowed
  <2>2. "acted" \in Answered BY DEF Answered
  <2> QED BY <1>1, <2>1, <2>2, AnswersBy
<1>6. Grounded(r, feed, Len(handoffs)) BY <1>1, <1>3 DEF Grounded
<1> QED BY <1>0, <1>3, <1>4, <1>5, <1>6, PlainBy DEF Take, history

\* The handoffs: a row more, or one row with another status.
LEMMA SetHandoffRows ==
    ASSUME HandoffsTyped, NEW h \in 1..Len(handoffs),
           NEW s \in {"pending", "timeout", "deleted"} \cup Verdicts, SetHandoff(h, s)
    PROVE  /\ handoffs' \in Seq(Handoffs) /\ Len(handoffs') = Len(handoffs)
           /\ \A i \in 1..Len(handoffs') : handoffs'[i].card = handoffs[i].card
           /\ \A i \in 1..Len(handoffs') : i # h => handoffs'[i] = handoffs[i]
           /\ handoffs'[h].status = s
<1> DEFINE row == [handoffs[h] EXCEPT !.status = s]
<1>1. handoffs[h] \in Handoffs BY DEF HandoffsTyped
<1>2. row \in Handoffs /\ row.card = handoffs[h].card /\ row.status = s
  BY <1>1 DEF Handoffs
<1>3. handoffs' = [handoffs EXCEPT ![h] = row] BY DEF SetHandoff
<1> HIDE DEF row
<1> QED BY <1>1, <1>2, <1>3 DEF HandoffsTyped

LEMMA HandoffPlain ==
    ASSUME Typed, NEW a \in Actors, CreateHandoff(a) \/ Tell(a) \/ Respond(a)
    PROVE  Plain(a)
<1>0. RestTyped /\ HandoffsTyped /\ Len(handoffs) \in Nat
  BY DEF Typed, HandoffsTyped
<1>1. op[a] \in Ops /\ Grounded(op[a], feed, Len(handoffs)) BY DEF Typed, OpsTyped
<1>2. /\ Idle.pc \notin {"write", "append"} /\ Idle \in Ops
      /\ \A n : Grounded(Idle, feed, n)
  BY Constants, IdleGrounded
<1>3. \A h \in 1..Len(handoffs) : feed[handoffs[h].card].status # "none"
  BY <1>0 DEF HandoffsTyped
<1>4. CASE CreateHandoff(a)
  <2> DEFINE r == [op[a] EXCEPT !.pc = "tell", !.also = Len(handoffs) + 1]
             row == [card |-> op[a].card, status |-> "pending"]
  <2>1. Goes(a, r) /\ handoffs' = Append(handoffs, row) /\ op[a].pc = "ask"
    BY <1>4 DEF CreateHandoff
  <2>2. /\ r \in Ops /\ r.pc = "tell" /\ r.card = op[a].card /\ r.cards = op[a].cards
        /\ r.also = Len(handoffs) + 1
    <3> DEFINE n == Len(handoffs) + 1
    <3>1. n \in Nat BY <1>0
    <3> HIDE DEF n
    <3>2. [op[a] EXCEPT !.pc = "tell", !.also = n] \in Ops BY <1>1, <3>1 DEF Ops, Pcs
    <3> QED BY <1>1, <3>2 DEF Ops, n
  <2>3. op[a].card \in Cards /\ feed[op[a].card].status # "none"
    BY <1>1, <2>1, AttentionCardAssumption DEF Ops, Cards, Grounded
  <2>4. row \in Handoffs /\ row.card = op[a].card BY <2>3 DEF Handoffs
  <2> HIDE DEF r, row
  <2>5. /\ handoffs' \in Seq(Handoffs) /\ Len(handoffs') = Len(handoffs) + 1
        /\ handoffs'[Len(handoffs) + 1] = row
        /\ \A h \in 1..Len(handoffs) : handoffs'[h] = handoffs[h]
    BY <1>0, <2>1, <2>4 DEF HandoffsTyped
  <2>6. \A h \in 1..Len(handoffs') : feed[handoffs'[h].card].status # "none"
    BY <1>0, <1>3, <2>3, <2>4, <2>5
  <2>7. Grounded(r, feed, Len(handoffs')) BY <1>0, <1>1, <2>2, <2>5 DEF Grounded
  <2>8. Len(handoffs) <= Len(handoffs') BY <1>0, <2>5
  <2>9. \E q \in Ops : /\ Goes(a, q) /\ q.pc \notin {"write", "append"}
                       /\ Grounded(q, feed, Len(handoffs'))
    BY <2>1, <2>2, <2>7
  <2> QED BY <1>0, <1>4, <2>5, <2>6, <2>8, <2>9 DEF CreateHandoff, Plain, RestTyped, history
<1>5. CASE Tell(a)
  <2>1. op[a].also \in 1..Len(handoffs) BY <1>1, <1>5 DEF Tell, Grounded
  <2>2. /\ handoffs' \in Seq(Handoffs) /\ Len(handoffs') = Len(handoffs)
        /\ \A h \in 1..Len(handoffs') : handoffs'[h].card = handoffs[h].card
    BY <1>0, <1>5, <2>1, SetHandoffRows DEF Tell, HandoffsTyped
  <2>3. Goes(a, Idle) /\ Len(handoffs) <= Len(handoffs') BY <1>0, <1>5, <2>2 DEF Tell
  <2> QED BY <1>0, <1>2, <1>3, <1>5, <2>2, <2>3 DEF Tell, Plain, RestTyped, history
<1>6. CASE Respond(a)
  <2>1. PICK v \in Verdicts :
          /\ op[a].pc = "respond" /\ SetHandoff(op[a].also, v)
          /\ Goes(a, IF v = "accepted" THEN [op[a] EXCEPT !.pc = "resolve"] ELSE Idle)
    BY <1>6 DEF Respond
  <2>2. op[a].also \in 1..Len(handoffs) BY <1>1, <2>1 DEF Grounded
  <2>3. /\ handoffs' \in Seq(Handoffs) /\ Len(handoffs') = Len(handoffs)
        /\ \A h \in 1..Len(handoffs') : handoffs'[h].card = handoffs[h].card
    BY <1>0, <2>1, <2>2, SetHandoffRows
  <2> DEFINE r == [op[a] EXCEPT !.pc = "resolve"]
  <2>4. r \in Ops /\ r.pc = "resolve" /\ r.card = op[a].card /\ r.cards = op[a].cards
    BY <1>1 DEF Ops, Pcs
  <2>5. Goes(a, r) \/ Goes(a, Idle) BY <2>1
  <2> HIDE DEF r
  <2>6. Grounded(r, feed, Len(handoffs')) BY <1>1, <2>4 DEF Grounded
  <2>7. \E q \in Ops : /\ Goes(a, q) /\ q.pc \notin {"write", "append"}
                       /\ Grounded(q, feed, Len(handoffs'))
    BY <1>2, <2>4, <2>5, <2>6
  <2>8. Len(handoffs) <= Len(handoffs') BY <1>0, <2>3
  <2> QED BY <1>0, <1>3, <1>6, <2>3, <2>7, <2>8 DEF Respond, Plain, RestTyped, history
<1> QED BY <1>4, <1>5, <1>6

\* An effect that failed: only an operator's capture touches the card.
Restores(a) == EffectFailed(a) /\ op[a].pc = "capture_kb" /\ op[a].kind = "operator"

LEMMA FailurePlain ==
    ASSUME Typed, NEW a \in Actors, EffectFailed(a), ~Restores(a)
    PROVE  Plain(a)
<1>0. /\ muted \subseteq Threads /\ retriaging \subseteq Cards /\ tasks \subseteq Threads
      /\ started \in 0..MaxOps /\ faults \in 0..MaxFaults
  BY DEF Typed, RestTyped
<1> QED BY <1>0, EndsPlain DEF EffectFailed, Restores

-------------------------------------------------------------------------------
(* The steps that open a window, write a card or append to an inbox *)

\* An observer has looked its thread's card up and is about to write.
Looks(a) ==
    /\ \E r \in Ops : /\ Goes(a, r) /\ r.pc = "write" /\ r.card = Coalesced(r.thread)
                      /\ overlap' = LookedAt(a, r.thread)
                      /\ Grounded(r, feed, Len(handoffs))
    /\ UNCHANGED <<feed, rank, inbox, handoffs, raced, misread>>
    /\ RestTyped'

LEMMA LookedOp ==
    ASSUME FeedTyped, NEW o \in Ops, \A c \in o.cards : feed[c].status # "none", NEW n
    PROVE  /\ Looked(o, Coalesced(o.thread)) \in Ops
           /\ Looked(o, Coalesced(o.thread)).pc = "write"
           /\ Looked(o, Coalesced(o.thread)).thread = o.thread
           /\ Looked(o, Coalesced(o.thread)).card = Coalesced(o.thread)
           /\ Grounded(Looked(o, Coalesced(o.thread)), feed, n)
<1> DEFINE t == o.thread
           r == Looked(o, Coalesced(t))
<1>1. t \in Threads BY DEF Ops
<1>2. Coalesced(t) \in 0..MaxOps /\ Row(Coalesced(t)) \in Rows BY <1>1, CoalescedRow
<1>3. /\ r \in Ops /\ r.pc = "write" /\ r.thread = t /\ r.card = Coalesced(t)
      /\ r.seen = Row(Coalesced(t)) /\ r.cards = o.cards
  BY <1>2 DEF Looked, Ops, Pcs
<1> HIDE DEF r
<1>4. Grounded(r, feed, n) BY <1>1, <1>3, CoalescedRow DEF Grounded
<1> QED BY <1>3, <1>4 DEF r

LEMMA LooksBy ==
    ASSUME Typed, NEW a \in Actors, Observe(a) \/ Lookup(a)
    PROVE  Looks(a)
<1>0. FeedTyped /\ RestTyped BY DEF Typed
<1>1. \A t \in Threads : LookedAt(a, t) \subseteq Threads
  BY <1>0 DEF LookedAt, RestTyped
<1>2. CASE Observe(a)
  <2>1. PICK t \in Threads, m \in Stamps, k \in {"cascade", "session"} :
          /\ Start(a, Looked([Idle EXCEPT !.kind = k, !.thread = t, !.ts = m], Coalesced(t)))
          /\ overlap' = LookedAt(a, t)
          /\ UNCHANGED <<dbVars, faults, raced, misread>>
    BY <1>2 DEF Observe
  <2> DEFINE o == [Idle EXCEPT !.kind = k, !.thread = t, !.ts = m]
  <2>2. o \in Ops /\ o.thread = t /\ o.cards = {} BY Constants DEF Ops, Kinds
  <2>3. Start(a, Looked(o, Coalesced(o.thread))) BY <2>1, <2>2
  <2> HIDE DEF o
  <2>4. Goes(a, Looked(o, Coalesced(o.thread))) /\ started' \in 0..MaxOps BY <2>3, Opens
  <2> QED BY <1>0, <1>1, <2>1, <2>2, <2>4, LookedOp DEF Looks, dbVars, RestTyped
<1>3. CASE Lookup(a)
  <2> DEFINE o == op[a]
  <2>1. o \in Ops /\ o.thread \in Threads BY DEF Typed, OpsTyped, Ops
  <2>2. \A c \in o.cards : feed[c].status # "none" BY DEF Typed, OpsTyped, Grounded
  <2> QED BY <1>0, <1>1, <1>3, <2>1, <2>2, LookedOp DEF Looks, Lookup, dbVars, RestTyped
<1> QED BY <1>2, <1>3

\* The types survive a step of one actor once each part of the state is known to.
LEMMA StepTyped ==
    ASSUME Typed, FeedTyped', Grows, UNCHANGED handoffs, RestTyped',
           NEW a \in Actors, NEW r \in Ops, Goes(a, r), Grounded(r, feed', Len(handoffs))
    PROVE  Typed'
<1>1. HandoffsTyped' /\ Len(handoffs') \in Nat /\ Len(handoffs) <= Len(handoffs')
  BY HandoffsSame DEF Typed
<1>2. OpsTyped' BY <1>1, OpsStep DEF Typed
<1> QED BY <1>1, <1>2 DEF Typed

LEMMA LooksTyped == ASSUME Typed, NEW a \in Actors, Looks(a) PROVE Typed'
<1>1. FeedTyped' /\ Grows BY FeedSame DEF Looks, Typed
<1>2. PICK r \in Ops : Goes(a, r) /\ Grounded(r, feed, Len(handoffs)) BY DEF Looks
<1> QED BY <1>1, <1>2, StepTyped DEF Looks

\* What an insert writes, and where.
LEMMA InsertTyped ==
    ASSUME Typed, NEW a \in Actors, Insert(a)
    PROVE  /\ Typed'
           /\ \E c \in Cards, r \in Ops :
                 /\ feed[c].status = "none" /\ Goes(a, r) /\ r.pc = "surfaced"
                 /\ feed'[c].thread = op[a].thread /\ feed'[c].status = "new"
                 /\ \A d \in Cards : d # c => feed'[d] = feed[d]
<1> DEFINE c == Filled + 1
           o == op[a]
           row == [thread |-> o.thread, ts |-> o.ts, status |-> "new"]
           r == [o EXCEPT !.pc = "surfaced", !.card = c]
<1>1. o \in Ops /\ Grounded(o, feed, Len(handoffs)) BY DEF Typed, OpsTyped
<1>2. c \in Cards /\ feed' = [feed EXCEPT ![c] = row] /\ rank' = [rank EXCEPT ![c] = c] /\ Goes(a, r)
  BY DEF Insert
<1>3. row \in Rows /\ row.status = "new" /\ row.thread = o.thread
  BY <1>1 DEF Rows, Ops, Statuses
<1> HIDE DEF c, row
<1>4. c = Filled + 1 BY DEF c
<1>5. FeedTyped' /\ Grows /\ feed[c].status = "none"
  BY <1>2, <1>3, <1>4, FeedInserted DEF Typed
<1>6. r \in Ops /\ r.pc = "surfaced" /\ r.card = c /\ r.cards = o.cards /\ r.thread = o.thread
  BY <1>1, <1>2, Constants DEF Ops, Pcs
<1> HIDE DEF r
<1>7. feed'[c] = row /\ \A d \in Cards : d # c => feed'[d] = feed[d]
  BY <1>2 DEF Typed, FeedTyped
<1>8. \A d \in o.cards : feed'[d].status # "none"
  BY <1>1, <1>3, <1>7 DEF Ops, Grounded
<1>9. Grounded(r, feed', Len(handoffs)) BY <1>2, <1>3, <1>6, <1>7, <1>8, Constants DEF Grounded
<1>10. RestTyped' BY DEF Insert, Typed, RestTyped, history
<1>11. Typed' BY <1>2, <1>5, <1>6, <1>9, <1>10, StepTyped DEF Insert
<1> QED BY <1>2, <1>3, <1>5, <1>6, <1>7, <1>11

LEMMA OverwriteTyped ==
    ASSUME Typed, NEW a \in Actors, Overwrite(a)
    PROVE  /\ Typed'
           /\ op[a].card \in Cards /\ feed'[op[a].card].thread = feed[op[a].card].thread
           /\ feed[op[a].card].thread = op[a].thread
           /\ feed'[op[a].card].status = "new"
           /\ \A d \in Cards : d # op[a].card => feed'[d] = feed[d]
           /\ \E r \in Ops : Goes(a, r) /\ r.pc = "surfaced"
<1> DEFINE o == op[a]
           r == [o EXCEPT !.pc = "surfaced"]
<1>1. o \in Ops /\ Grounded(o, feed, Len(handoffs)) BY DEF Typed, OpsTyped
<1>2. o.pc = "write" /\ o.card \in Cards /\ o.ts \in Stamps
  BY <1>1, AttentionCardAssumption DEF Overwrite, Ops, Cards
<1>3. feed[o.card].status # "none" /\ feed[o.card].thread = o.thread
  BY <1>1, <1>2, Constants DEF Grounded
<1>4. /\ feed' = [feed EXCEPT ![o.card] = [@ EXCEPT !.ts = o.ts, !.status = "new"]]
      /\ rank' = Moved(o.card) /\ Goes(a, r)
  BY DEF Overwrite
<1>5. FeedTyped' /\ Grows BY <1>2, <1>3, <1>4, FeedRenewed DEF Typed
<1>6. feed[o.card] \in Rows BY <1>2 DEF Typed, FeedTyped
<1>7. /\ feed'[o.card].status = "new" /\ \A d \in Cards : d # o.card => feed'[d] = feed[d]
      /\ feed'[o.card].thread = feed[o.card].thread
  BY <1>2, <1>3, <1>4, <1>5, <1>6 DEF Typed, FeedTyped, Rows, Grows
<1>8. r \in Ops /\ r.pc = "surfaced" /\ r.card = o.card /\ r.cards = o.cards /\ r.thread = o.thread
  BY <1>1 DEF Ops, Pcs
<1> HIDE DEF r
<1>9. \A d \in o.cards : feed'[d].status # "none"
  BY <1>1, <1>5 DEF Ops, Grounded, Grows
<1>10. Grounded(r, feed', Len(handoffs)) BY <1>2, <1>3, <1>7, <1>8, <1>9, Constants DEF Grounded
<1>11. RestTyped' BY DEF Overwrite, Typed, RestTyped, history
<1>12. Typed' BY <1>4, <1>5, <1>8, <1>10, <1>11, StepTyped DEF Overwrite
<1> QED BY <1>2, <1>3, <1>4, <1>7, <1>8, <1>12

LEMMA ForwardTyped ==
    ASSUME Typed, NEW a \in Actors, Forward(a) \/ AppendForward(a)
    PROVE  Typed' /\ feed' = feed
<1> DEFINE o == op[a]
<1>1. o \in Ops /\ Grounded(o, feed, Len(handoffs)) /\ o.thread \in Threads /\ o.seen.ts \in Stamps
  BY DEF Typed, OpsTyped, Ops, Rows
<1>2. FeedTyped' /\ Grows BY FeedSame DEF Forward, AppendForward, dbVars, Typed
<1>3. ASSUME NEW p \in {"resolve", "append"} PROVE
        [o EXCEPT !.pc = p] \in Ops /\ Grounded([o EXCEPT !.pc = p], feed, Len(handoffs))
  <2> DEFINE r == [o EXCEPT !.pc = p]
  <2>1. r \in Ops /\ r.pc = p /\ r.card = o.card /\ r.cards = o.cards BY <1>1 DEF Ops, Pcs
  <2> HIDE DEF r
  <2>2. Grounded(r, feed, Len(handoffs)) BY <1>1, <2>1 DEF Grounded
  <2> QED BY <2>1, <2>2 DEF r
<1>4. CASE Forward(a)
  <2>1. PICK p \in {"resolve", "append"} : Goes(a, [o EXCEPT !.pc = p]) BY <1>4 DEF Forward
  <2>2. raced' \subseteq Threads BY <1>1, <1>4 DEF Forward, Typed, RestTyped
  <2>4. misread' \in [Threads -> Nat]
    <3>1. misread \in [Threads -> Nat] BY DEF Typed, RestTyped
    <3>2. misread' = misread \/ misread' = [misread EXCEPT ![o.thread] = @ + 1] BY <1>4 DEF Forward
    <3> QED BY <1>1, <3>1, <3>2
  <2>5. faults' \in 0..MaxFaults
    <3>1. faults \in 0..MaxFaults /\ MaxFaults \in Nat BY AttentionCardAssumption DEF Typed, RestTyped
    <3>2. faults' = faults \/ (faults < MaxFaults /\ faults' = faults + 1) BY <1>4 DEF Forward, Fault
    <3> QED BY <3>1, <3>2
  <2>3. RestTyped' BY <1>4, <2>2, <2>4, <2>5 DEF Forward, dbVars, Typed, RestTyped
  <2> QED BY <1>2, <1>3, <1>4, <2>1, <2>3, StepTyped DEF Forward, dbVars
<1>5. CASE AppendForward(a)
  <2>1. inbox \in [Threads -> [Stamps -> Nat]] BY DEF Typed, RestTyped
  <2>2. inbox' = [inbox EXCEPT ![o.thread][o.seen.ts] = @ + 1] BY <1>5 DEF AppendForward
  <2>3. inbox' \in [Threads -> [Stamps -> Nat]] BY <1>1, <2>1, <2>2
  <2>4. RestTyped' BY <1>5, <2>3 DEF AppendForward, history, Typed, RestTyped
  <2> QED BY <1>2, <1>3, <1>5, <2>4, StepTyped DEF AppendForward
<1> QED BY <1>4, <1>5

LEMMA RestoresTyped ==
    ASSUME Typed, NEW a \in Actors, Restores(a)
    PROVE  Typed' /\ Goes(a, Idle) /\ feed' = Set({op[a].card}, "new")
<1>1. op[a] \in Ops /\ Grounded(op[a], feed, Len(handoffs)) BY DEF Typed, OpsTyped
<1>2. feed' = Set({op[a].card}, "new") /\ overlap' = overlap \cup {op[a].thread}
  BY DEF Restores, EffectFailed
<1>3. Rowed({op[a].card}) BY <1>1, Constants DEF Rowed, Grounded
<1>4. "new" \in Statuses \ {"none"} BY DEF Statuses
<1>5. FeedTyped' /\ Grows BY <1>2, <1>3, <1>4, FeedSet DEF Restores, EffectFailed, Typed
<1>6. Goes(a, Idle) BY DEF Restores, EffectFailed, Returns, After
<1>7. RestTyped' BY <1>1, <1>2 DEF Restores, EffectFailed, Typed, RestTyped, Ops
<1> QED BY <1>2, <1>5, <1>6, <1>7, Constants, IdleGrounded, StepTyped DEF Restores, EffectFailed

LEMMA ExpireTyped ==
    ASSUME Typed, ExpireHandoffs
    PROVE  Typed'
<1>1. PICK h \in 1..Len(handoffs) : SetHandoff(h, "timeout") BY DEF ExpireHandoffs
<1>2. FeedTyped' /\ Grows /\ HandoffsTyped /\ feed' = feed BY FeedSame DEF ExpireHandoffs, Typed
<1>3. /\ handoffs' \in Seq(Handoffs) /\ Len(handoffs') = Len(handoffs)
      /\ \A i \in 1..Len(handoffs') : handoffs'[i].card = handoffs[i].card
  BY <1>1, <1>2, SetHandoffRows
<1>4. HandoffsTyped' BY <1>2, <1>3 DEF HandoffsTyped
<1>5. OpsTyped' BY <1>2, <1>3, OpsSame DEF ExpireHandoffs, Typed
<1>6. RestTyped' BY DEF ExpireHandoffs, Typed, RestTyped, history
<1> QED BY <1>2, <1>4, <1>5, <1>6 DEF Typed

\* The steps, by what they do to the feed, the windows and the inboxes.
LEMMA Steps ==
    ASSUME Typed, Next
    PROVE  \/ \E a \in Actors : \/ Plain(a) \/ Looks(a) \/ Insert(a) \/ Overwrite(a)
                               \/ Forward(a) \/ AppendForward(a) \/ Restores(a)
           \/ ExpireHandoffs
           \/ UNCHANGED vars
<1>1. CASE ExpireHandoffs BY <1>1
<1>2. CASE Done BY <1>2 DEF Done
<1>3. ASSUME NEW a \in Actors, Begin(a) \/ Step(a) \/ Die(a)
      PROVE  \/ Plain(a) \/ Looks(a) \/ Insert(a) \/ Overwrite(a)
             \/ Forward(a) \/ AppendForward(a) \/ Restores(a)
  <2>1. CASE Begin(a)
    BY <2>1, LooksBy, BeginPlain, TakePlain, AnswerPlain DEF Begin
  <2>2. CASE Die(a) BY <2>2, EndPlain
  <2>3. CASE Step(a)
    BY <2>3, LooksBy, EndPlain, AutoActPlain, AnswerPlain, EffectPlain, FailurePlain,
       HandoffPlain DEF Step
  <2> QED BY <1>3, <2>1, <2>2, <2>3
<1> QED BY <1>1, <1>2, <1>3 DEF Next

LEMMA InitTyped == Init => Typed
<1> SUFFICES ASSUME Init PROVE Typed OBVIOUS
<1>1. \A c \in Cards : feed[c] = NoRow /\ rank[c] = 0 BY DEF Init
<1>2. {c \in Cards : feed[c].status # "none"} = {} BY <1>1, Constants
<1>3. Filled = 0 BY <1>2, FS_EmptySet DEF Filled
<1>4. FeedTyped
  <2>1. feed \in [Cards -> Rows] /\ rank \in [Cards -> 0..MaxOps] BY Constants DEF Init
  <2>2. \A c \in Cards : c > 0 BY DEF Cards
  <2>3. \A c \in Cards : rank[c] <= Filled /\ ~(c <= Filled) BY <1>1, <1>3, <2>2 DEF Cards
  <2> QED BY <1>1, <2>1, <2>3, Constants DEF FeedTyped
<1>5. HandoffsTyped BY DEF Init, HandoffsTyped
<1>6. OpsTyped BY Constants, IdleGrounded DEF Init, OpsTyped
<1>7. RestTyped BY AttentionCardAssumption DEF Init, RestTyped
<1> QED BY <1>4, <1>5, <1>6, <1>7 DEF Typed

LEMMA NextTyped == Typed /\ [Next]_vars => Typed'
<1> SUFFICES ASSUME Typed, [Next]_vars PROVE Typed' OBVIOUS
<1>1. CASE UNCHANGED vars
  BY <1>1 DEF vars, Typed, FeedTyped, Filled, HandoffsTyped, OpsTyped, RestTyped
<1>2. CASE Next
  <2>1. CASE ExpireHandoffs BY <2>1, ExpireTyped
  <2>2. ASSUME NEW a \in Actors,
               \/ Plain(a) \/ Looks(a) \/ Insert(a) \/ Overwrite(a)
               \/ Forward(a) \/ AppendForward(a) \/ Restores(a)
        PROVE  Typed'
    BY <2>2, PlainTyped, LooksTyped, InsertTyped, OverwriteTyped, ForwardTyped, RestoresTyped
  <2> QED BY <1>1, <1>2, <2>1, <2>2, Steps
<1> QED BY <1>1, <1>2

LEMMA AlwaysTyped == Spec => []Typed
BY InitTyped, NextTyped, PTL DEF Spec

\* Every variable has its type, the rows are numbered as they come, and each has its
\* own place in the order of created_at.
THEOREM TypeCorrect == Spec => []TypeOK
<1>1. Typed => TypeOK
  BY DEF Typed, FeedTyped, HandoffsTyped, Handoffs, OpsTyped, Ops, RestTyped, TypeOK
<1> QED BY <1>1, AlwaysTyped, PTL

-------------------------------------------------------------------------------
(* One open card of a thread                                                   *)
(* While no two observers' windows on a thread have overlapped: one observer at *)
(* most is between its lookup and its write, it has read the open card if there *)
(* is one, and no second card is open.                                          *)

Writing(a, t) == op[a].pc = "write" /\ op[a].thread = t
OneWriter(t) == \A a, b \in Actors : Writing(a, t) /\ Writing(b, t) => a = b
ReadsOpen(t) == \A a \in Actors : Writing(a, t) => InThread(t, "new") \subseteq {op[a].card}
OneOpen(t) == \A c, d \in InThread(t, "new") : c = d
One(t) == OneWriter(t) /\ ReadsOpen(t) /\ OneOpen(t)
Ones == \A t \in Threads \ overlap : One(t)

\* A step that opens no card and no window keeps it.
LEMMA OneKept ==
    ASSUME NEW t, One(t), InThread(t, "new")' \subseteq InThread(t, "new"),
           \A b \in Actors : Writing(b, t)' => Writing(b, t) /\ op'[b] = op[b]
    PROVE  One(t)'
<1>1. OneWriter(t)' BY DEF One, OneWriter
<1>2. ReadsOpen(t)' BY DEF One, ReadsOpen
<1>3. OneOpen(t)' BY DEF One, OneOpen
<1> QED BY <1>1, <1>2, <1>3 DEF One

\* An actor that goes on without writing leaves the windows of the others.
LEMMA WindowsKept ==
    ASSUME Typed, NEW a \in Actors, NEW r \in Ops, Goes(a, r), r.pc # "write", NEW t
    PROVE  /\ \A b \in Actors : Writing(b, t)' => Writing(b, t) /\ op'[b] = op[b] /\ b # a
BY Goes1 DEF Typed, Writing

LEMMA PlainOpensNone ==
    ASSUME Typed, NEW a \in Actors, Plain(a), NEW t
    PROVE  InThread(t, "new")' \subseteq InThread(t, "new")
<1>1. CASE feed' = feed BY <1>1 DEF InThread
<1>2. CASE Answers
  <2>1. PICK C : \E s \in Answered : feed' = Set(C, s) BY <1>2 DEF Answers
  <2>2. PICK s \in Answered : feed' = Set(C, s) BY <2>1
  <2>3. \A c \in Cards : /\ feed'[c].thread = feed[c].thread
                         /\ feed'[c].status = "new" => feed[c].status = "new"
    BY <2>2, SetRows DEF Typed, FeedTyped, Answered, Statuses
  <2> QED BY <2>3 DEF InThread
<1> QED BY <1>1, <1>2 DEF Plain

LEMMA PlainOnes ==
    ASSUME Typed, Ones, NEW a \in Actors, Plain(a)
    PROVE  Ones'
<1>1. PICK r \in Ops : Goes(a, r) /\ r.pc # "write" BY DEF Plain
<1>2. overlap' = overlap BY DEF Plain
<1>3. ASSUME NEW t \in Threads \ overlap PROVE One(t)'
  <2>1. One(t) BY DEF Ones
  <2> QED BY <1>1, <2>1, OneKept, WindowsKept, PlainOpensNone
<1> QED BY <1>2, <1>3 DEF Ones

\* A lookup is the only window on the thread, unless the windows overlap.
LEMMA LooksOnes ==
    ASSUME Typed, Ones, NEW a \in Actors, Looks(a)
    PROVE  Ones'
<1>1. PICK r \in Ops : /\ Goes(a, r) /\ r.pc = "write" /\ r.card = Coalesced(r.thread)
                       /\ overlap' = LookedAt(a, r.thread)
  BY DEF Looks
<1>2. op'[a] = r /\ \A b \in Actors : b # a => op'[b] = op[b] BY <1>1, Goes1 DEF Typed
<1>3. feed' = feed BY DEF Looks
<1>4. ASSUME NEW t \in Threads \ overlap' PROVE One(t)'
  <2>1. t \notin overlap /\ One(t) BY <1>1, <1>4 DEF LookedAt, Ones
  <2>2. InThread(t, "new")' = InThread(t, "new") BY <1>3 DEF InThread
  <2>3. CASE r.thread # t
    <3>1. \A b \in Actors : Writing(b, t)' => Writing(b, t) /\ op'[b] = op[b]
      BY <1>2, <2>3 DEF Writing
    <3> QED BY <2>1, <2>2, <3>1, OneKept
  <2>4. CASE r.thread = t
    <3>1. \A b \in Actors : b # a => ~ Writing(b, t)
      BY <1>1, <1>4, <2>4 DEF LookedAt, Writing
    <3>2. \A b \in Actors : Writing(b, t)' => b = a BY <1>2, <3>1 DEF Writing
    <3>3. InThread(t, "new") \subseteq {r.card}
      BY <1>1, <2>1, <2>4, CoalescedRow DEF Typed, One, OneOpen
    <3>4. OneWriter(t)' BY <3>2 DEF OneWriter
    <3>5. ReadsOpen(t)' BY <1>2, <2>2, <3>2, <3>3 DEF ReadsOpen
    <3>6. OneOpen(t)' BY <2>1, <2>2 DEF One, OneOpen
    <3> QED BY <3>4, <3>5, <3>6 DEF One
  <2> QED BY <2>3, <2>4
<1> QED BY <1>4 DEF Ones

\* A write opens the card it holds, where no other was open.
LEMMA WriteOne ==
    ASSUME NEW t, One(t), NEW a \in Actors, NEW c, NEW t1, Writing(a, t1),
           t1 = t => InThread(t, "new") \subseteq {c},
           InThread(t, "new")' \subseteq InThread(t, "new") \cup (IF t1 = t THEN {c} ELSE {}),
           \A b \in Actors : Writing(b, t)' => Writing(b, t) /\ op'[b] = op[b] /\ b # a
    PROVE  One(t)'
<1>1. CASE t1 # t BY <1>1, OneKept
<1>2. CASE t1 = t
  <2>1. \A b \in Actors : ~ Writing(b, t)' BY <1>2 DEF One, OneWriter
  <2>2. InThread(t, "new")' \subseteq {c} BY <1>2
  <2>3. OneWriter(t)' /\ ReadsOpen(t)' BY <2>1 DEF OneWriter, ReadsOpen
  <2>4. OneOpen(t)' BY <2>2 DEF OneOpen
  <2> QED BY <2>3, <2>4 DEF One
<1> QED BY <1>1, <1>2

LEMMA WriteOnes ==
    ASSUME Typed, Ones, NEW a \in Actors, Insert(a) \/ Overwrite(a)
    PROVE  Ones'
<1>1. overlap' = overlap /\ Writing(a, op[a].thread)
  BY DEF Insert, Overwrite, history, Writing
<1>2. ASSUME NEW t \in Threads \ overlap PROVE One(t)'
  <2>1. One(t) BY DEF Ones
  <2>2. CASE Insert(a)
    <3>1. PICK c \in Cards, r \in Ops :
            /\ Goes(a, r) /\ r.pc = "surfaced"
            /\ feed'[c].thread = op[a].thread
            /\ \A d \in Cards : d # c => feed'[d] = feed[d]
      BY <2>2, InsertTyped
    <3>2. \A b \in Actors : Writing(b, t)' => Writing(b, t) /\ op'[b] = op[b] /\ b # a
      BY <3>1, WindowsKept
    <3>3. op[a].thread = t => InThread(t, "new") = {}
      <4>1. op[a].card = 0 BY <2>2 DEF Insert
      <4>2. 0 \notin InThread(t, "new") BY Constants DEF InThread
      <4> QED BY <1>1, <2>1, <4>1, <4>2 DEF One, ReadsOpen
    <3>4. InThread(t, "new")' \subseteq InThread(t, "new") \cup (IF op[a].thread = t THEN {c} ELSE {})
      BY <3>1 DEF InThread
    <3> QED BY <1>1, <2>1, <3>2, <3>3, <3>4, WriteOne
  <2>3. CASE Overwrite(a)
    <3> DEFINE c == op[a].card
    <3>1. /\ feed'[c].thread = op[a].thread
          /\ \A d \in Cards : d # c => feed'[d] = feed[d]
          /\ \E r \in Ops : Goes(a, r) /\ r.pc = "surfaced"
      BY <2>3, OverwriteTyped
    <3>2. \A b \in Actors : Writing(b, t)' => Writing(b, t) /\ op'[b] = op[b] /\ b # a
      BY <3>1, WindowsKept
    <3>3. op[a].thread = t => InThread(t, "new") \subseteq {c}
      BY <1>1, <2>1 DEF One, ReadsOpen
    <3>4. InThread(t, "new")' \subseteq InThread(t, "new") \cup (IF op[a].thread = t THEN {c} ELSE {})
      BY <3>1 DEF InThread
    <3> QED BY <1>1, <2>1, <3>2, <3>3, <3>4, WriteOne
  <2> QED BY <2>2, <2>3
<1> QED BY <1>1, <1>2 DEF Ones

\* A forward goes on to the append or past it.
LEMMA ForwardGoes ==
    ASSUME Typed, NEW a \in Actors, Forward(a) \/ AppendForward(a)
    PROVE  \E r \in Ops : /\ Goes(a, r) /\ r.pc \in {"resolve", "append"}
                          /\ r.thread = op[a].thread /\ r.seen = op[a].seen
                          /\ AppendForward(a) => r.pc = "resolve"
                          /\ Forward(a) /\ Present(op[a]) /\ r.pc = "append" =>
                               misread' = [misread EXCEPT ![op[a].thread] = @ + 1]
<1>1. op[a] \in Ops BY DEF Typed, OpsTyped
<1>2. \A p \in {"resolve", "append"} :
        /\ [op[a] EXCEPT !.pc = p] \in Ops /\ [op[a] EXCEPT !.pc = p].pc = p
        /\ [op[a] EXCEPT !.pc = p].thread = op[a].thread
        /\ [op[a] EXCEPT !.pc = p].seen = op[a].seen
  BY <1>1 DEF Ops, Pcs
<1>3. Forward(a) => op[a].pc = "forward" BY DEF Forward
<1>4. AppendForward(a) => op[a].pc = "append" BY DEF AppendForward
<1>5. CASE AppendForward(a)
  <2>1. Goes(a, [op[a] EXCEPT !.pc = "resolve"]) BY <1>5 DEF AppendForward
  <2> QED BY <1>2, <1>3, <1>4, <1>5, <2>1
<1>6. CASE Forward(a)
  <2>1. PICK p \in {"resolve", "append"} :
            /\ Goes(a, [op[a] EXCEPT !.pc = p])
            /\ Present(op[a]) /\ p = "append" =>
                 misread' = [misread EXCEPT ![op[a].thread] = @ + 1]
    BY <1>6 DEF Forward
  <2>2. ~AppendForward(a) BY <1>3, <1>4, <1>6
  <2> QED BY <1>2, <2>1, <2>2
<1> QED BY <1>5, <1>6

LEMMA ForwardOnes ==
    ASSUME Typed, Ones, NEW a \in Actors, Forward(a) \/ AppendForward(a)
    PROVE  Ones'
<1>1. PICK r \in Ops : Goes(a, r) /\ r.pc # "write" BY ForwardGoes
<1>2. overlap' = overlap /\ feed' = feed
  BY DEF Forward, AppendForward, dbVars, history
<1>3. ASSUME NEW t \in Threads \ overlap PROVE One(t)'
  <2>1. One(t) /\ InThread(t, "new")' = InThread(t, "new") BY <1>2 DEF Ones, InThread
  <2> QED BY <1>1, <2>1, OneKept, WindowsKept
<1> QED BY <1>2, <1>3 DEF Ones

\* A capture brings back a card of its own thread only.
LEMMA RestoresOnes ==
    ASSUME Typed, Ones, NEW a \in Actors, Restores(a)
    PROVE  Ones'
<1>1. Goes(a, Idle) /\ feed' = Set({op[a].card}, "new") /\ overlap' = overlap \cup {op[a].thread}
  BY RestoresTyped DEF Restores, EffectFailed
<1>2. ASSUME NEW t \in Threads \ overlap' PROVE One(t)'
  <2>1. t # op[a].thread /\ One(t) BY <1>1, <1>2 DEF Ones
  <2>2. op[a].card \in Cards => feed[op[a].card].thread = op[a].thread
    BY Constants DEF Typed, OpsTyped, Grounded, Restores
  <2>3. "new" \in Statuses BY DEF Statuses
  <2>4. \A c \in Cards : /\ feed'[c].thread = feed[c].thread
                         /\ feed'[c].status = IF c \in {op[a].card} THEN "new" ELSE feed[c].status
    <3> DEFINE C == {op[a].card}
    <3>1. feed \in [Cards -> Rows] /\ feed' = Set(C, "new") BY <1>1 DEF Typed, FeedTyped
    <3> HIDE DEF C
    <3>2. \A c \in Cards : /\ feed'[c].thread = feed[c].thread
                           /\ feed'[c].status = IF c \in C THEN "new" ELSE feed[c].status
      BY <2>3, <3>1, SetRows
    <3> QED BY <3>2 DEF C
  <2>5. InThread(t, "new")' \subseteq InThread(t, "new") BY <2>1, <2>2, <2>4 DEF InThread
  <2> QED BY <1>1, <2>1, <2>5, Constants, OneKept, WindowsKept
<1> QED BY <1>2 DEF Ones

LEMMA InitOnes == Init => Ones
<1> SUFFICES ASSUME Init PROVE Ones OBVIOUS
<1>1. \A t \in Threads, a \in Actors : ~ Writing(a, t) BY Constants DEF Init, Writing
<1>2. \A t \in Threads : InThread(t, "new") = {} BY Constants DEF Init, InThread
<1> QED BY <1>1, <1>2 DEF Ones, One, OneWriter, ReadsOpen, OneOpen

LEMMA NextOnes == Typed /\ Ones /\ [Next]_vars => Ones'
<1> SUFFICES ASSUME Typed, Ones, [Next]_vars PROVE Ones' OBVIOUS
<1>1. ASSUME op' = op, feed' = feed, overlap' = overlap PROVE Ones'
  BY <1>1 DEF Ones, One, OneWriter, ReadsOpen, OneOpen, Writing, InThread
<1>2. CASE UNCHANGED vars BY <1>1, <1>2 DEF vars
<1>3. CASE Next
  <2>1. CASE ExpireHandoffs BY <1>1, <2>1 DEF ExpireHandoffs, history
  <2>2. ASSUME NEW a \in Actors,
               \/ Plain(a) \/ Looks(a) \/ Insert(a) \/ Overwrite(a)
               \/ Forward(a) \/ AppendForward(a) \/ Restores(a)
        PROVE  Ones'
    BY <2>2, PlainOnes, LooksOnes, WriteOnes, ForwardOnes, RestoresOnes
  <2> QED BY <1>2, <1>3, <2>1, <2>2, Steps
<1> QED BY <1>2, <1>3

\* A thread has two open cards only after two observers' lookup-to-write windows on it
\* overlapped, or a failed capture brought back an answered card.
THEOREM OneCard == Spec => []OneOpenCard
<1>1. ASSUME Ones PROVE OneOpenCard
  <2>1. ASSUME NEW t \in Threads \ overlap PROVE Cardinality(InThread(t, "new")) <= 1
    <3>1. \A c, d \in InThread(t, "new") : c = d BY <1>1 DEF Ones, One, OneOpen
    <3>2. CASE InThread(t, "new") = {} BY <3>2, FS_EmptySet
    <3>3. ASSUME NEW c \in InThread(t, "new") PROVE Cardinality(InThread(t, "new")) <= 1
      <4>1. InThread(t, "new") = {c} BY <3>1, <3>3
      <4> QED BY <4>1, FS_Singleton
    <3> QED BY <3>2, <3>3
  <2> QED BY <2>1 DEF OneOpenCard
<1> QED BY <1>1, AlwaysTyped, InitOnes, NextOnes, PTL DEF Spec

-------------------------------------------------------------------------------
(* One copy of a forwarded message                                             *)
(* While no two forwards of a thread were both between the look and the append: *)
(* one at most is, and what is in the inbox, or carried there, more than once   *)
(* is so by a look that failed.                                                 *)

Appending(a, t) == op[a].pc = "append" /\ op[a].thread = t
OneAppender(t) == \A a, b \in Actors : Appending(a, t) /\ Appending(b, t) => a = b
Unseen(t) ==
    \A a \in Actors :
        Appending(a, t) /\ op[a].seen.ts # 0 => inbox[t][op[a].seen.ts] <= misread[t]
NoCopies(t) == \A m \in Stamps \ {0} : inbox[t][m] <= 1 + misread[t]
Once(t) == OneAppender(t) /\ Unseen(t) /\ NoCopies(t)
Onces == \A t \in Threads \ raced : Once(t)

LEMMA OnceKept ==
    ASSUME NEW t, Once(t), inbox'[t] = inbox[t], misread'[t] = misread[t],
           \A b \in Actors : Appending(b, t)' => Appending(b, t) /\ op'[b] = op[b]
    PROVE  Once(t)'
<1>1. OneAppender(t)' BY DEF Once, OneAppender
<1>2. Unseen(t)' BY DEF Once, Unseen
<1>3. NoCopies(t)' BY DEF Once, NoCopies
<1> QED BY <1>1, <1>2, <1>3 DEF Once

LEMMA AppendersKept ==
    ASSUME Typed, NEW a \in Actors, NEW r \in Ops, Goes(a, r), r.pc # "append", NEW t
    PROVE  \A b \in Actors : Appending(b, t)' => Appending(b, t) /\ op'[b] = op[b] /\ b # a
BY Goes1 DEF Typed, Appending

\* A step that leaves the inboxes and appends nothing.
LEMMA OtherOnces ==
    ASSUME Typed, Onces, NEW a \in Actors,
           Plain(a) \/ Looks(a) \/ Insert(a) \/ Overwrite(a) \/ Restores(a)
    PROVE  Onces'
<1>1. \E r \in Ops : Goes(a, r) /\ r.pc # "append"
  BY InsertTyped, OverwriteTyped, RestoresTyped, Constants DEF Plain, Looks
<1>2. PICK r \in Ops : Goes(a, r) /\ r.pc # "append" BY <1>1
<1>3. inbox' = inbox /\ raced' = raced /\ misread' = misread
  BY DEF Plain, Looks, Insert, Overwrite, Restores, EffectFailed, history
<1>4. ASSUME NEW t \in Threads \ raced PROVE Once(t)'
  BY <1>2, <1>3, <1>4, OnceKept, AppendersKept DEF Onces
<1> QED BY <1>3, <1>4 DEF Onces

LEMMA ForwardOnces ==
    ASSUME Typed, Onces, NEW a \in Actors, Forward(a)
    PROVE  Onces'
<1> DEFINE t1 == op[a].thread
<1>1. PICK r \in Ops : /\ Goes(a, r) /\ r.pc \in {"resolve", "append"}
                       /\ r.thread = t1 /\ r.seen = op[a].seen
                       /\ Present(op[a]) /\ r.pc = "append" =>
                            misread' = [misread EXCEPT ![t1] = @ + 1]
  BY ForwardGoes
<1>2. op'[a] = r /\ \A b \in Actors : b # a => op'[b] = op[b] BY <1>1, Goes1 DEF Typed
<1>3. inbox' = inbox /\ raced \subseteq raced' BY DEF Forward, dbVars
<1>0. /\ t1 \in Threads /\ op[a].seen.ts \in Stamps
      /\ inbox \in [Threads -> [Stamps -> Nat]] /\ misread \in [Threads -> Nat]
  BY DEF Typed, OpsTyped, Ops, Rows, RestTyped
<1>m. \A t \in Threads :
        \/ misread'[t] = misread[t]
        \/ t = t1 /\ misread'[t] = misread[t] + 1
  <2>1. misread' = misread \/ misread' = [misread EXCEPT ![t1] = @ + 1] BY DEF Forward
  <2> QED BY <1>0, <2>1
<1>4. ASSUME NEW t \in Threads \ raced' PROVE Once(t)'
  <2>1. Once(t) /\ t \notin raced BY <1>3, <1>4 DEF Onces
  <2>2. CASE t1 # t
    <3>1. \A b \in Actors : Appending(b, t)' => Appending(b, t) /\ op'[b] = op[b]
      BY <1>1, <1>2, <2>2 DEF Appending
    <3> QED BY <1>3, <1>m, <2>1, <2>2, <3>1, OnceKept
  <2>3. CASE t1 = t
    <3>1. \A b \in Actors : b # a => ~ Appending(b, t) BY <1>4, <2>3 DEF Forward, Appending
    <3>2. \A b \in Actors : Appending(b, t)' => b = a BY <1>2, <3>1 DEF Appending
    <3>3. inbox[t][op[a].seen.ts] \in Nat /\ misread[t] \in Nat
      BY <1>0, <2>3
    <3>4. Appending(a, t)' /\ r.seen.ts # 0 => inbox[t][r.seen.ts] <= misread'[t]
      <4>1. CASE ~Present(op[a])
        <5>1. r.seen.ts # 0 => inbox[t][r.seen.ts] = 0 BY <1>1, <2>3, <3>3, <4>1 DEF Present
        <5>2. misread'[t] \in Nat BY <1>m, <3>3
        <5> QED BY <5>1, <5>2
      <4>2. CASE Present(op[a]) /\ r.pc = "append"
        <5>1. misread'[t] = misread[t] + 1 BY <1>0, <1>1, <2>3, <4>2
        <5>2. inbox[t][op[a].seen.ts] <= 1 + misread[t]
          BY <1>0, <2>1, <4>2 DEF Present, Once, NoCopies
        <5> QED BY <1>1, <3>3, <5>1, <5>2
      <4> QED BY <1>2, <4>1, <4>2 DEF Appending
    <3>5. OneAppender(t)' BY <3>2 DEF OneAppender
    <3>6. Unseen(t)' BY <1>2, <1>3, <3>2, <3>4 DEF Unseen
    <3>7. NoCopies(t)'
      <4>1. \A m \in Stamps \ {0} : inbox[t][m] <= 1 + misread[t] /\ inbox[t][m] \in Nat
        BY <1>0, <2>1 DEF Once, NoCopies
      <4>2. misread'[t] = misread[t] \/ misread'[t] = misread[t] + 1 BY <1>m
      <4>3. \A m \in Stamps \ {0} : inbox[t][m] <= 1 + misread'[t] BY <3>3, <4>1, <4>2
      <4> QED BY <1>3, <4>3 DEF NoCopies
    <3> QED BY <3>5, <3>6, <3>7 DEF Once
  <2> QED BY <2>2, <2>3
<1> QED BY <1>4 DEF Onces

LEMMA AppendOnces ==
    ASSUME Typed, Onces, NEW a \in Actors, AppendForward(a)
    PROVE  Onces'
<1> DEFINE t1 == op[a].thread
           m1 == op[a].seen.ts
<1>1. PICK r \in Ops : Goes(a, r) /\ r.pc # "append" BY ForwardGoes
<1>2. /\ raced' = raced /\ misread' = misread /\ t1 \in Threads /\ m1 \in Stamps
      /\ inbox \in [Threads -> [Stamps -> Nat]] /\ Appending(a, t1)
      /\ misread \in [Threads -> Nat]
  BY DEF AppendForward, history, Typed, OpsTyped, Ops, Rows, RestTyped, Appending
<1>3. inbox' = [inbox EXCEPT ![t1][m1] = @ + 1] BY DEF AppendForward
<1>4. /\ \A t \in Threads : t # t1 => inbox'[t] = inbox[t]
      /\ \A m \in Stamps : inbox'[t1][m] = IF m = m1 THEN inbox[t1][m] + 1 ELSE inbox[t1][m]
  BY <1>2, <1>3
<1>5. ASSUME NEW t \in Threads \ raced PROVE Once(t)'
  <2>1. Once(t) BY DEF Onces
  <2>2. \A b \in Actors : Appending(b, t)' => Appending(b, t) /\ op'[b] = op[b] /\ b # a
    BY <1>1, AppendersKept
  <2>3. CASE t # t1 BY <1>2, <1>4, <2>1, <2>2, <2>3, OnceKept
  <2>4. CASE t = t1
    <3>1. \A b \in Actors : ~ Appending(b, t)' BY <1>2, <2>1, <2>2, <2>4 DEF Once, OneAppender
    <3>2. m1 # 0 => inbox[t][m1] <= misread[t] BY <1>2, <2>1, <2>4 DEF Once, Unseen
    <3>3. ASSUME NEW m \in Stamps \ {0} PROVE inbox'[t][m] <= 1 + misread'[t]
      <4>1. inbox[t][m] <= 1 + misread[t] BY <2>1 DEF Once, NoCopies
      <4>2. inbox[t][m] \in Nat /\ misread[t] \in Nat BY <1>2
      <4> QED BY <1>2, <1>4, <2>4, <3>2, <4>1, <4>2
    <3> QED BY <3>1, <3>3 DEF Once, OneAppender, Unseen, NoCopies
  <2> QED BY <2>3, <2>4
<1> QED BY <1>2, <1>5 DEF Onces

LEMMA InitOnces == Init => Onces
<1> SUFFICES ASSUME Init PROVE Onces OBVIOUS
<1>1. \A t \in Threads, a \in Actors : ~ Appending(a, t) BY Constants DEF Init, Appending
<1>2. \A t \in Threads, m \in Stamps : inbox[t][m] <= 1 + misread[t] BY DEF Init
<1> QED BY <1>1, <1>2 DEF Onces, Once, OneAppender, Unseen, NoCopies

LEMMA NextOnces == Typed /\ Onces /\ [Next]_vars => Onces'
<1> SUFFICES ASSUME Typed, Onces, [Next]_vars PROVE Onces' OBVIOUS
<1>1. ASSUME op' = op, inbox' = inbox, raced' = raced, misread' = misread PROVE Onces'
  BY <1>1 DEF Onces, Once, OneAppender, Unseen, NoCopies, Appending
<1>2. CASE UNCHANGED vars BY <1>1, <1>2 DEF vars
<1>3. CASE Next
  <2>1. CASE ExpireHandoffs BY <1>1, <2>1 DEF ExpireHandoffs, history
  <2>2. ASSUME NEW a \in Actors,
               \/ Plain(a) \/ Looks(a) \/ Insert(a) \/ Overwrite(a)
               \/ Forward(a) \/ AppendForward(a) \/ Restores(a)
        PROVE  Onces'
    BY <2>2, OtherOnces, ForwardOnces, AppendOnces
  <2> QED BY <1>2, <1>3, <2>1, <2>2, Steps
<1> QED BY <1>2, <1>3

\* However many cards of a thread are forwarded and by whom, a Slack message is in the
\* task's inbox once, and once more for each look that could not read it, unless two
\* forwards were both between the look and the append.
THEOREM OneCopy == Spec => []ForwardedOnce
<1>1. Onces => ForwardedOnce BY DEF Onces, Once, NoCopies, ForwardedOnce
<1> QED BY <1>1, AlwaysTyped, InitOnces, NextOnces, PTL DEF Spec

-------------------------------------------------------------------------------
(* Answers and verdicts that stand *)

LEMMA StepReopens ==
    ASSUME Typed, Next, NEW c \in Cards, feed[c].status \in Answered, feed'[c].status = "new"
    PROVE  \E a \in Actors : Reopens(a, c)
<1>0. feed' # feed /\ ~ExpireHandoffs /\ ~UNCHANGED vars BY DEF Answered, ExpireHandoffs, vars
<1>1. ASSUME NEW a \in Actors, Plain(a) PROVE FALSE
  <2>1. feed[c].thread = feed'[c].thread
    BY <1>1, PlainTyped DEF Grows, Answered
  <2> QED BY <1>1, <2>1, PlainOpensNone DEF InThread, Answered
<1>2. ASSUME NEW a \in Actors, Looks(a) \/ Forward(a) \/ AppendForward(a) PROVE FALSE
  BY <1>0, <1>2 DEF Looks, Forward, AppendForward, dbVars
<1>3. ASSUME NEW a \in Actors, Insert(a) PROVE FALSE
  BY <1>0, <1>3, InsertTyped DEF Answered
<1>4. ASSUME NEW a \in Actors, Overwrite(a) PROVE Reopens(a, c)
  <2>1. c = op[a].card BY <1>4, OverwriteTyped DEF Answered
  <2>2. op[a].pc = "write" /\ ~ KeepDismissed(op[a]) BY <1>4 DEF Overwrite
  <2>3. op[a].seen.status \in {"new", "dismissed"}
    BY <2>1, <2>2, Constants DEF Typed, OpsTyped, Grounded
  <2>4. CASE op[a].seen # feed[c] BY <2>1, <2>2, <2>4 DEF Reopens
  <2>5. CASE op[a].seen = feed[c]
    <3>1. feed[c].status = "dismissed" BY <2>3, <2>5 DEF Answered
    <3>2. ~ SameOrOlder(op[a].ts, feed[c].ts) BY <2>2, <2>5, <3>1 DEF KeepDismissed
    <3> QED BY <2>1, <2>2, <3>1, <3>2 DEF Reopens
  <2> QED BY <2>4, <2>5
<1>5. ASSUME NEW a \in Actors, Restores(a) PROVE Reopens(a, c)
  <2>1. feed' = Set({op[a].card}, "new") BY <1>5, RestoresTyped
  <2>2. c = op[a].card BY <2>1 DEF Set, Answered
  <2> QED BY <1>5, <2>2 DEF Restores, Reopens
<1> QED BY <1>0, <1>1, <1>2, <1>3, <1>4, <1>5, Steps

\* An answered card opens again only for a newer message or one without a usable stamp,
\* by an observer that had read the card before the answer, or when the capture the
\* operator had asked for fails.
THEOREM AnswersStand == Spec => AnswerStands
<1>1. Typed /\ [Next]_vars =>
        [\A c \in Cards : feed[c].status \in Answered /\ feed'[c].status = "new"
            => \E a \in Actors : Reopens(a, c)]_vars
  BY StepReopens
<1> QED BY <1>1, AlwaysTyped, PTL DEF Spec, AnswerStands

\* Only the asker, the agent that answers and the expiry write handoffs.
LEMMA HandoffsKept ==
    ASSUME NEW a \in Actors, Begin(a) \/ Step(a) \/ Die(a),
           ~CreateHandoff(a), ~Tell(a), ~Respond(a)
    PROVE  handoffs' = handoffs
<1>1. CASE Begin(a)
  BY <1>1 DEF Begin, dbVars, Observe, Refresh, Retriage, Take, Answer, AnswerInThread, Drop, Mute,
              Merge, RequestHandoff, ReadHandoff
<1>2. CASE Step(a)
  BY <1>2 DEF Step, dbVars, Lookup, NoVerdict, Insert, LeaveDismissed, Overwrite, AutoAct,
              ClearFlag, ResolveDropped, Sweep, ResolveMerged, SpawnTask, Forward, AppendForward,
              AgentDone, EffectFailed, ResolveCard, TooLate
<1>3. CASE Die(a) BY <1>3 DEF Die, dbVars
<1> QED BY <1>1, <1>2, <1>3

LEMMA StepVerdict ==
    ASSUME Typed, Next, NEW h \in 1..Len(handoffs), handoffs[h].status # "pending"
    PROVE  handoffs'[h].status \in {handoffs[h].status, "deleted"}
<1>0. HandoffsTyped /\ Len(handoffs) \in Nat BY DEF Typed, HandoffsTyped
<1>1. ASSUME NEW i \in 1..Len(handoffs), NEW s \in {"timeout", "deleted"} \cup Verdicts,
             SetHandoff(i, s), i = h => s = "deleted"
      PROVE  handoffs'[h].status \in {handoffs[h].status, "deleted"}
  BY <1>0, <1>1, SetHandoffRows
<1>2. CASE ExpireHandoffs BY <1>1, <1>2 DEF ExpireHandoffs
<1>3. CASE Done BY <1>3 DEF Done, vars
<1>4. ASSUME NEW a \in Actors, Begin(a) \/ Step(a) \/ Die(a)
      PROVE  handoffs'[h].status \in {handoffs[h].status, "deleted"}
  <2>1. op[a].pc \in {"tell", "respond"} => op[a].also \in 1..Len(handoffs)
    BY DEF Typed, OpsTyped, Grounded
  <2>2. CASE CreateHandoff(a)
    <3>1. handoffs' = Append(handoffs, [card |-> op[a].card, status |-> "pending"])
      BY <2>2 DEF CreateHandoff
    <3>2. handoffs'[h] = handoffs[h] BY <1>0, <3>1 DEF HandoffsTyped
    <3> QED BY <3>2
  <2>3. CASE Tell(a) BY <1>1, <2>1, <2>3 DEF Tell
  <2>4. CASE Respond(a) BY <1>1, <2>1, <2>4 DEF Respond, StillPending
  <2> QED BY <1>4, <2>2, <2>3, <2>4, HandoffsKept
<1> QED BY <1>2, <1>3, <1>4 DEF Next

\* A verdict on a handoff, or its timeout, is never replaced: only the asker's failed
\* `flow tell` removes the row.
THEOREM VerdictsFinal == Spec => VerdictFinal
<1>1. Typed /\ [Next]_vars =>
        [\A h \in 1..Len(handoffs) : handoffs[h].status # "pending"
            => handoffs'[h].status \in {handoffs[h].status, "deleted"}]_vars
  BY StepVerdict
<1> QED BY <1>1, AlwaysTyped, PTL DEF Spec, VerdictFinal
================================================================================
