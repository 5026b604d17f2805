------------------------- MODULE SteeringCascadeProofs -------------------------
(***************************************************************************)
(* Proofs about SteeringCascade, for any listeners, messages, lifetimes    *)
(* and faults: types, that the sweep's watermark passes no message that    *)
(* was not decided, that a session is handed a message once, and that a    *)
(* message reaches the feed once in the lifetime of its verdict.           *)
(***************************************************************************)
EXTENDS SteeringCascade, FiniteSetTheorems, TLAPS

Pcs == {"idle", "gate", "dedupe", "trace", "stage2", "surfaced", "save"}
Ops == [pc : Pcs, todo : SUBSET Msgs, kept : SUBSET Msgs, cur : 0..MaxMsgs, upTo : 0..MaxMsgs]

\* What an observer has in hand: a message it is at work on is one of its batch,
\* not yet past the gate until the session or the feed has it, and nothing is left
\* of the batch once it returns.
AtWork(o) ==
    /\ o.cur # 0 <=> o.pc \in {"dedupe", "trace", "surfaced"}
    /\ o.pc \in {"dedupe", "trace"} => o.cur \in o.todo
    /\ o.pc = "surfaced" => o.cur \in o.kept
    /\ o.pc \in {"idle", "save", "stage2", "surfaced"} => o.todo = {}
    /\ o.pc \in {"idle", "save"} => o.kept = {}
    /\ o.todo \cap o.kept = {}
    /\ o.todo \cup o.kept \subseteq Accepted

\* The messages are stamped in the order they are posted.
Numbered == \E k \in 0..MaxMsgs : Posted = 1..k

\* The inductive form of TypeOK.
Typed ==
    /\ TypeOK
    /\ Numbered
    /\ op \in [Observers -> Ops]
    /\ \A a \in Observers : AtWork(op[a])
    /\ crashes <= faults

-----------------------------------------------------------------------------
(* Helpers of the model *)

\* A set of messages that is not empty has a newest one.
LEMMA NewestIsLast ==
    ASSUME NEW S \in SUBSET Msgs, S # {}
    PROVE  Newest(S) \in S /\ \A n \in S : n <= Newest(S)
<1> DEFINE Later(x) == {y \in S : y > x}
           Ts == {Later(x) : x \in S}
<1>1. IsWellFoundedOn(StrictSubsetOrdering(Msgs), SUBSET Msgs)
  <2>1. IsFiniteSet(Msgs)
    BY FS_Interval, SteeringCascadeAssumption DEF Msgs
  <2> QED BY <2>1, FS_StrictSubsetOrderingWellFounded, FS_FiniteSubsetsOfFinite
<1>2. Ts \subseteq SUBSET Msgs /\ Ts # {}
  OBVIOUS
<1>3. PICK X \in Ts : \A Y \in Ts : ~ (<<Y, X>> \in StrictSubsetOrdering(Msgs))
  <2> HIDE DEF Ts
  <2> QED BY <1>1, <1>2, WFMin
<1>4. PICK x \in S : X = Later(x)
  OBVIOUS
<1>5. \A y \in S : y <= x
  <2> SUFFICES ASSUME NEW y \in S, y > x PROVE FALSE
    BY SteeringCascadeAssumption DEF Msgs
  <2>1. y \in Later(x) /\ y \notin Later(y)
    BY SteeringCascadeAssumption DEF Msgs
  <2>2. Later(y) \subseteq Later(x)
    <3>1. \A z \in S : z \in Int
      BY SteeringCascadeAssumption DEF Msgs
    <3> QED BY <3>1
  <2>3. <<Later(y), Later(x)>> \in StrictSubsetOrdering(Msgs)
    BY <2>1, <2>2 DEF StrictSubsetOrdering
  <2> QED BY <1>3, <1>4, <2>3
<1> QED BY <1>5 DEF Newest

\* A move of one observer changes its own record only.
LEMMA Moves ==
    ASSUME op \in [Observers -> Ops], NEW a \in Observers, NEW r \in Ops, Goes(a, r)
    PROVE  op' \in [Observers -> Ops] /\ op'[a] = r /\ \A b \in Observers \ {a} : op'[b] = op[b]
BY DEF Goes

\* What depends on the channel only.
LEMMA ChannelSame ==
    ASSUME UNCHANGED chan
    PROVE  Posted' = Posted /\ TopLevel' = TopLevel /\ Accepted' = Accepted
BY DEF Posted, TopLevel, Accepted

LEMMA SubsetsOfMsgs == Posted \subseteq Msgs /\ TopLevel \subseteq Posted /\ Accepted \subseteq Posted
BY DEF Posted, TopLevel, Accepted

\* What an observer still has of its batch.
Taken(o) == o.todo \cup o.kept

\* A step of an observer leaves the others alone and keeps its own record
\* consistent; a message leaves the batch only with its trace.
Carries(a) ==
    /\ op' \in [Observers -> Ops]
    /\ \A b \in Observers \ {a} : op'[b] = op[b]
    /\ AtWork(op'[a])
    /\ decided \subseteq decided' /\ decided' \subseteq decided \cup Taken(op[a])
    /\ Taken(op[a]) \subseteq Taken(op'[a]) \cup decided'
    /\ a = Sweeper => op'[a].upTo = op[a].upTo

LEMMA StepCarries ==
    ASSUME Typed, NEW a \in Observers, Step(a)
    PROVE  Carries(a)
<1> DEFINE o == op[a]
<1> USE SubsetsOfMsgs
<1>0. op \in [Observers -> Ops] /\ o \in Ops /\ AtWork(o) /\ Accepted \subseteq Msgs /\ 0 \notin Msgs /\ 0 \in 0..MaxMsgs
  BY SteeringCascadeAssumption DEF Typed, Msgs
<1>1. ASSUME NEW r \in Ops, Goes(a, r), AtWork(r), r.upTo = o.upTo \/ a # Sweeper,
             decided \subseteq decided', decided' \subseteq decided \cup Taken(o),
             Taken(o) \subseteq Taken(r) \cup decided'
      PROVE  Carries(a)
  BY <1>0, <1>1, Moves DEF Carries
<1>2. ASSUME NEW m \in o.todo, o.pc = "gate" \/ o.cur = m PROVE Without(o, m) \in Ops /\ AtWork(Without(o, m))
  BY <1>0, <1>2 DEF Without, Ops, Pcs, AtWork
<1>3. ASSUME NEW m \in o.todo, o.pc \in {"gate", "dedupe", "trace"}, Traced(m), Goes(a, Without(o, m)),
             o.pc = "gate" \/ o.cur = m
      PROVE  Carries(a)
  <2>1. /\ Without(o, m).upTo = o.upTo
        /\ Without(o, m).todo = o.todo \ {m} /\ Without(o, m).kept = o.kept
    BY <1>0 DEF Without, Ops
  <2>2. Without(o, m) \in Ops /\ AtWork(Without(o, m))
    BY <1>2, <1>3
  <2> QED BY <1>1, <1>3, <2>1, <2>2 DEF Taken, Traced
<1>4. CASE DropAtGate(a)
  BY <1>0, <1>3, <1>4 DEF DropAtGate, AtWork
<1>5. CASE Pass(a)
  <2>1. PICK m \in o.todo : Pass(a)!(m)
    BY <1>5 DEF Pass
  <2>2. CASE sessions = 1
    <3> DEFINE r == [o EXCEPT !.pc = "dedupe", !.cur = m]
    <3>0. m \in Msgs /\ m \in 0..MaxMsgs /\ m # 0
      BY <1>0, SteeringCascadeAssumption DEF Ops, Msgs
    <3>1. r \in Ops
      BY <1>0, <3>0 DEF Ops, Pcs
    <3>2. AtWork(r)
      BY <1>0, <2>1, <3>0 DEF Ops, AtWork
    <3> QED BY <1>0, <1>1, <2>1, <2>2, <3>1, <3>2 DEF Taken, Ops, dbVars
  <2>3. CASE sessions # 1
    <3> DEFINE r == [Without(o, m) EXCEPT !.kept = @ \cup {m}]
    <3>1. /\ r.pc = "gate" /\ r.todo = o.todo \ {m} /\ r.kept = o.kept \cup {m} /\ r.cur = 0
          /\ r.upTo = o.upTo /\ r \in Ops
      BY <1>0, <2>1 DEF Ops, Pcs, Without
    <3>2. Goes(a, r) BY <2>1, <2>3
    <3> HIDE DEF r
    <3>3. AtWork(r) BY <1>0, <2>1, <3>1 DEF AtWork
    <3> QED BY <1>0, <1>1, <2>1, <2>3, <3>1, <3>2, <3>3 DEF Taken, dbVars
  <2> QED BY <2>2, <2>3
<1>6. CASE Duplicate(a)
  BY <1>0, <1>3, <1>6 DEF Duplicate, AtWork
<1>7. CASE Deliver(a)
  <2> DEFINE r == [o EXCEPT !.pc = "trace"]
  <2>1. r \in Ops /\ AtWork(r)
    BY <1>0, <1>7 DEF Deliver, Ops, Pcs, AtWork
  <2> QED BY <1>0, <1>1, <1>7, <2>1 DEF Deliver, Taken, Ops, dbVars
<1>8. CASE TraceDelivered(a)
  BY <1>0, <1>3, <1>8 DEF TraceDelivered, AtWork
<1>9. CASE SinkFails(a)
  <2> DEFINE m == o.cur
             r == [Without(o, m) EXCEPT !.kept = @ \cup {m}]
  <2>1. CASE chan[m].kind = "human"
    <3>1. o.pc = "dedupe" /\ m \in o.todo /\ m \in Msgs /\ m # 0
      BY <1>0, <1>9 DEF SinkFails, AtWork, Ops
    <3>2. /\ r.pc = "gate" /\ r.todo = o.todo \ {m} /\ r.kept = o.kept \cup {m} /\ r.cur = 0
          /\ r.upTo = o.upTo /\ r \in Ops
      BY <1>0, <3>1 DEF Ops, Pcs, Without
    <3>3. Goes(a, r) /\ decided' = decided BY <1>9, <2>1 DEF SinkFails
    <3> HIDE DEF r
    <3>4. AtWork(r) BY <1>0, <3>1, <3>2 DEF AtWork
    <3> QED BY <1>0, <1>1, <3>1, <3>2, <3>3, <3>4 DEF Taken
  <2>2. CASE chan[m].kind # "human"
    BY <1>0, <1>3, <1>9, <2>2 DEF SinkFails, AtWork
  <2> QED BY <2>1, <2>2
<1>10. CASE Stage1Drops(a)
  <2> DEFINE r == [o EXCEPT !.kept = {}]
  <2>1. r \in Ops /\ AtWork(r)
    BY <1>0, <1>10 DEF Stage1Drops, Ops, AtWork
  <2> QED BY <1>0, <1>1, <1>10, <2>1 DEF Stage1Drops, Taken, Ops
<1>11. CASE Stage1(a)
  <2> DEFINE r == [o EXCEPT !.pc = "stage2"]
  <2>1. r \in Ops /\ AtWork(r)
    BY <1>0, <1>11 DEF Stage1, Ops, Pcs, AtWork
  <2> QED BY <1>0, <1>1, <1>11, <2>1 DEF Stage1, Taken, Ops, dbVars
<1>12. ASSUME NEW m \in o.kept, o.pc \in {"stage2", "surfaced"}, Traced(m), Goes(a, Judged(o, m)),
              o.pc = "stage2" \/ o.cur = m
       PROVE  Carries(a)
  <2>1. Judged(o, m) \in Ops /\ AtWork(Judged(o, m))
    BY <1>0, <1>12 DEF Judged, Ops, Pcs, AtWork
  <2> QED BY <1>0, <1>1, <1>12, <2>1 DEF Taken, Traced, Judged, Ops
<1>13. CASE Drop(a) \/ IndexFails(a)
  BY <1>0, <1>12, <1>13 DEF Drop, IndexFails
<1>14. CASE Surface(a)
  <2>1. PICK m \in o.kept : Surface(a)!(m)
    BY <1>14 DEF Surface
  <2> DEFINE r == [o EXCEPT !.pc = "surfaced", !.cur = m]
  <2>2. m \in Msgs /\ m \in 0..MaxMsgs /\ m # 0
    BY <1>0, SteeringCascadeAssumption DEF Ops, Msgs
  <2>3. r \in Ops
    BY <1>0, <2>2 DEF Ops, Pcs
  <2>4. AtWork(r)
    BY <1>0, <2>1, <2>2 DEF Ops, AtWork
  <2> QED BY <1>0, <1>1, <2>1, <2>3, <2>4 DEF Taken, Ops, dbVars
<1>15. CASE TraceSurfaced(a)
  BY <1>0, <1>12, <1>15 DEF TraceSurfaced, AtWork
<1>16. CASE Return(a)
  <2> DEFINE r == IF a = Sweeper THEN [Idle EXCEPT !.pc = "save", !.upTo = o.upTo] ELSE Idle
  <2>1. r \in Ops /\ AtWork(r)
    BY <1>0, <1>16 DEF Return, Idle, Ops, Pcs, AtWork
  <2> QED BY <1>0, <1>1, <1>16, <2>1 DEF Return, Taken, Idle, dbVars
<1> QED
  BY <1>4, <1>5, <1>6, <1>7, <1>8, <1>9, <1>10, <1>11, <1>13, <1>14, <1>15, <1>16 DEF Step

-----------------------------------------------------------------------------
(* Types *)

\* What no step of an observer touches.
LEMMA StepFrame ==
    ASSUME NEW a \in Observers, Step(a)
    PROVE  /\ UNCHANGED <<chan, now, lives, crashes, sessions, wm, skipTill, missed>>
           /\ faults' = faults \/ (faults < MaxFaults /\ faults' = faults + 1)
BY DEF Step, DropAtGate, Pass, Duplicate, Deliver, TraceDelivered, SinkFails, Stage1Drops, Stage1,
       Drop, IndexFails, Surface, TraceSurfaced, Return, Lapse, Fault, env, dbVars, memVars, history

\* A message that is posted is the next one, and changes no other.
LEMMA PostAppends ==
    ASSUME Typed, Post
    PROVE  \E k \in 0..MaxMsgs - 1 :
               /\ Posted = 1..k /\ Posted' = 1..(k + 1)
               /\ \A n \in 1..k : chan'[n] = chan[n]
               /\ chan' \in [Msgs -> [kind : Kinds \cup {"none"}, parent : 0..MaxMsgs, at : 0..MaxTime]]
<1>1. PICK k \in 0..MaxMsgs : Posted = 1..k
  BY DEF Typed, Numbered
<1>2. Cardinality(Posted) = k
  BY <1>1, FS_Interval
<1> DEFINE m == k + 1
<1>3. PICK kind \in Kinds, p \in {0} \cup TopLevel :
          /\ m \in Msgs
          /\ chan' = [chan EXCEPT ![m] = [kind |-> kind, parent |-> p, at |-> now]]
  BY <1>2 DEF Post
<1>4. chan \in [Msgs -> [kind : Kinds \cup {"none"}, parent : 0..MaxMsgs, at : 0..MaxTime]] /\ now \in 0..MaxTime
  BY DEF Typed, TypeOK
<1>5. k \in 0..MaxMsgs - 1 /\ 1..k \subseteq Msgs /\ m \notin 1..k /\ 1..(k + 1) = (1..k) \cup {m}
  BY <1>3, SteeringCascadeAssumption DEF Msgs
<1>6. \A n \in 1..k : chan'[n] = chan[n]
  BY <1>3, <1>4, <1>5
<1>7. Posted' = Posted \cup {m}
  <2>1. chan'[m].kind # "none" /\ \A n \in Msgs \ {m} : chan'[n] = chan[n]
    BY <1>3, <1>4 DEF Kinds
  <2> QED BY <2>1, <1>3 DEF Posted
<1>8. p \in 0..MaxMsgs
  BY <1>1, <1>5, SteeringCascadeAssumption DEF TopLevel, Msgs
<1>9. chan' \in [Msgs -> [kind : Kinds \cup {"none"}, parent : 0..MaxMsgs, at : 0..MaxTime]]
  BY <1>3, <1>4, <1>8
<1> QED BY <1>1, <1>5, <1>6, <1>7, <1>9

\* Nothing that was posted is lost or changed by a message that comes after it.
LEMMA PostKeeps ==
    ASSUME Typed, Post
    PROVE  /\ Posted \subseteq Posted' /\ TopLevel \subseteq TopLevel' /\ Accepted \subseteq Accepted'
           /\ \A m \in Posted' \ Posted, n \in Posted : n < m
           /\ \A m \in Posted : chan'[m] = chan[m]
           /\ TopLevel' \cap Posted \subseteq TopLevel /\ Accepted' \cap Posted \subseteq Accepted
<1>1. PICK k \in 0..MaxMsgs - 1 :
          /\ Posted = 1..k /\ Posted' = 1..(k + 1)
          /\ \A n \in 1..k : chan'[n] = chan[n]
  BY PostAppends
<1>2. Posted \subseteq Posted' /\ \A m \in Posted' \ Posted, n \in Posted : n < m
  BY <1>1, SteeringCascadeAssumption
<1> QED BY <1>1, <1>2 DEF TopLevel, Accepted

\* A message counted once more leaves a table of counts.
LEMMA CountedAgain ==
    ASSUME NEW f \in [Msgs -> Nat], NEW m
    PROVE  [f EXCEPT ![m] = @ + 1] \in [Msgs -> Nat]
<1>1. \A n \in Msgs : f[n] \in Nat /\ f[n] + 1 \in Nat
  OBVIOUS
<1> QED BY <1>1

LEMMA StepTyped ==
    ASSUME Typed, NEW a \in Observers, Step(a)
    PROVE  Typed'
<1> DEFINE o == op[a]
<1> USE SubsetsOfMsgs
<1>0. /\ op \in [Observers -> Ops] /\ o \in Ops /\ AtWork(o)
      /\ Taken(o) \subseteq Posted /\ (o.cur = 0 \/ o.cur \in Taken(o))
      /\ cache \in [Msgs -> -1..MaxTime] /\ now \in -1..MaxTime
      /\ sent \in [Msgs -> Nat] /\ cards \in [Msgs -> Nat] /\ lapses \in [Msgs -> Nat]
      /\ decided \subseteq Posted /\ delivered \subseteq decided /\ overlap \subseteq Posted
  BY SteeringCascadeAssumption DEF Typed, TypeOK, AtWork, Taken
<1>1. Carries(a)
  BY StepCarries
<1>2. /\ UNCHANGED <<chan, now, lives, crashes, sessions, wm, skipTill, missed>>
      /\ faults' = faults \/ (faults < MaxFaults /\ faults' = faults + 1)
  BY StepFrame
<1>3. Posted' = Posted /\ TopLevel' = TopLevel /\ Accepted' = Accepted
  BY <1>2, ChannelSame
<1>4. cache' \in [Msgs -> -1..MaxTime]
  <2>1. CASE Deliver(a)
    BY <1>0, <2>1 DEF Deliver, AtWork, Ops
  <2>2. CASE Stage1Drops(a) \/ Drop(a) \/ Surface(a)
    <3>1. \E S \in SUBSET Msgs : Mark(S)
      <4>1. o.kept \subseteq Msgs
        BY <1>0 DEF AtWork
      <4>2. CASE Stage1Drops(a)
        BY <4>1, <4>2 DEF Stage1Drops
      <4>3. CASE Drop(a)
        BY <4>1, <4>3 DEF Drop
      <4>4. CASE Surface(a)
        BY <4>1, <4>4 DEF Surface
      <4> QED BY <2>2, <4>2, <4>3, <4>4
    <3> QED BY <1>0, <3>1 DEF Mark
  <2>3. CASE ~(Deliver(a) \/ Stage1Drops(a) \/ Drop(a) \/ Surface(a))
    <3>1. UNCHANGED cache
      BY <2>3 DEF Step, DropAtGate, Pass, Duplicate, TraceDelivered, SinkFails, Stage1,
                  IndexFails, TraceSurfaced, Return, memVars
    <3> QED BY <1>0, <3>1
  <2> QED BY <2>1, <2>2, <2>3
<1>5. sent' \in [Msgs -> Nat] /\ cards' \in [Msgs -> Nat]
  <2>1. CASE Deliver(a)
    <3>1. UNCHANGED cards /\ sent' = [sent EXCEPT ![o.cur] = @ + 1]
      BY <2>1 DEF Deliver
    <3> QED BY <1>0, <3>1, CountedAgain
  <2>2. CASE Surface(a)
    <3>1. PICK m \in o.kept : UNCHANGED sent /\ cards' = [cards EXCEPT ![m] = @ + 1]
      BY <2>2 DEF Surface
    <3> QED BY <1>0, <3>1, CountedAgain
  <2>3. CASE ~(Deliver(a) \/ Surface(a))
    <3>1. UNCHANGED <<sent, cards>>
      BY <2>3 DEF Step, DropAtGate, Pass, Duplicate, TraceDelivered, SinkFails, Stage1Drops, Stage1,
                  Drop, IndexFails, TraceSurfaced, Return, history
    <3> QED BY <1>0, <3>1
  <2> QED BY <2>1, <2>2, <2>3
<1>15. lapses' \in [Msgs -> Nat]
  <2>1. CASE Deliver(a) \/ TraceDelivered(a)
    <3>1. UNCHANGED lapses \/ lapses' = [lapses EXCEPT ![o.cur] = @ + 1]
      BY <2>1 DEF Deliver, TraceDelivered, Lapse
    <3> QED BY <1>0, <3>1, CountedAgain
  <2>2. CASE ~(Deliver(a) \/ TraceDelivered(a))
    <3>1. UNCHANGED lapses
      BY <2>2 DEF Step, DropAtGate, Pass, Duplicate, SinkFails, Stage1Drops, Stage1,
                  Drop, IndexFails, Surface, TraceSurfaced, Return, history
    <3> QED BY <1>0, <3>1
  <2> QED BY <2>1, <2>2
<1>6. delivered' \subseteq decided'
  <2>1. CASE TraceDelivered(a)
    BY <1>0, <2>1 DEF TraceDelivered, Traced
  <2>2. CASE ~TraceDelivered(a)
    <3>1. UNCHANGED delivered
      BY <2>2 DEF Step, DropAtGate, Pass, Duplicate, Deliver, SinkFails, Stage1Drops, Stage1,
                  Drop, IndexFails, Surface, TraceSurfaced, Return, dbVars
    <3> QED BY <1>0, <1>1, <3>1 DEF Carries
  <2> QED BY <2>1, <2>2
<1>7. overlap' \subseteq Posted
  <2>1. CASE Pass(a)
    BY <1>0, <2>1 DEF Pass, Gated, Taken
  <2>2. CASE ~Pass(a)
    <3>1. UNCHANGED overlap
      BY <2>2 DEF Step, DropAtGate, Duplicate, Deliver, TraceDelivered, SinkFails, Stage1Drops, Stage1,
                  Drop, IndexFails, Surface, TraceSurfaced, Return, history
    <3> QED BY <1>0, <3>1
  <2> QED BY <2>1, <2>2
<1>8. \A b \in Observers : op'[b] \in Ops /\ AtWork(op'[b])
  BY <1>1 DEF Carries, Typed
<1>9. (\A b \in Observers : AtWork(op[b]))'
  BY <1>3, <1>8 DEF AtWork
<1>10. \A b \in Observers :
           /\ op'[b].pc \in Pcs /\ op'[b].todo \subseteq Accepted /\ op'[b].kept \subseteq Accepted
           /\ op'[b].cur \in 0..MaxMsgs /\ op'[b].upTo \in 0..MaxMsgs
  BY <1>8 DEF Ops, AtWork
<1>11. decided' \subseteq Posted
  BY <1>0, <1>1 DEF Carries
<1>12. faults' \in 0..MaxFaults /\ crashes' <= faults' /\ crashes' \in 0..MaxFaults
  BY <1>2, SteeringCascadeAssumption DEF Typed, TypeOK
<1>13. TypeOK'
  BY <1>2, <1>3, <1>4, <1>5, <1>6, <1>7, <1>10, <1>11, <1>12, <1>15 DEF TypeOK, Typed, Pcs
<1>14. Numbered'
  BY <1>3 DEF Typed, Numbered
<1> QED BY <1>1, <1>9, <1>12, <1>13, <1>14 DEF Typed, Carries

LEMMA IdleTyped == Idle \in Ops /\ AtWork(Idle)
BY SteeringCascadeAssumption DEF Idle, Ops, Pcs, AtWork

\* The record an observer starts from, whatever it has read.
LEMMA StartsTyped ==
    ASSUME NEW S \in SUBSET Accepted, NEW u \in 0..MaxMsgs
    PROVE  LET r == [Idle EXCEPT !.pc = "gate", !.todo = S, !.upTo = u]
           IN  r \in Ops /\ AtWork(r)
<1> DEFINE r == [Idle EXCEPT !.pc = "gate", !.todo = S, !.upTo = u]
<1>1. S \in SUBSET Msgs
  BY SubsetsOfMsgs
<1>2. r \in Ops
  BY <1>1, IdleTyped DEF Ops, Pcs
<1>3. AtWork(r)
  BY DEF Idle, AtWork
<1> QED BY <1>2, <1>3

LEMMA InitTyped == Init => Typed
<1> SUFFICES ASSUME Init PROVE Typed
  OBVIOUS
<1> USE SteeringCascadeAssumption
<1>1. Posted = {} /\ 1..0 = {}
  BY DEF Init, Posted, Unposted
<1>2. Numbered
  BY <1>1 DEF Numbered
<1>3. op \in [Observers -> Ops] /\ \A a \in Observers : op[a] = Idle
  BY IdleTyped DEF Init
<1>4. chan \in [Msgs -> [kind : Kinds \cup {"none"}, parent : 0..MaxMsgs, at : 0..MaxTime]]
  BY DEF Init, Unposted
<1>5. TypeOK
  BY <1>1, <1>3, <1>4 DEF TypeOK, Init, Idle
<1> QED BY <1>2, <1>3, <1>5, IdleTyped DEF Typed, Init

\* What the sweep reads.
LEMMA FetchStarts ==
    ASSUME Typed, Fetch
    PROVE  /\ op[Sweeper].pc = "idle"
           /\ UNCHANGED <<chan, now, lives, faults, crashes, sessions, wm, decided, delivered,
                          cache, sent, cards, overlap, lapses>>
           /\ skipTill' = 0 /\ missed \subseteq missed' /\ missed' \subseteq Posted
           /\ \/ UNCHANGED op
              \/ /\ Page # {} /\ Newest(Page) \in Posted
                 /\ \A m \in TopLevel : m > wm /\ m <= Newest(Page) => m \in Page \cup missed'
                 /\ \E evs \in SUBSET Accepted :
                       /\ Page \cap Accepted \subseteq evs
                       /\ Goes(Sweeper, [Idle EXCEPT !.pc = "gate", !.todo = evs, !.upTo = Newest(Page)])
<1>1. Page \subseteq TopLevel
  BY DEF Page, After
<1>2. PICK roots \in SUBSET Page : Fetch!(roots)
  BY DEF Fetch
<1>3. missed' = missed \cup {m \in TopLevel : /\ m > wm /\ m \notin Page
                                              /\ m <= (IF Page = {} THEN wm ELSE Newest(Page)) \/ m \notin After}
  BY <1>2
<1>4. missed \subseteq Posted
  BY DEF Typed, TypeOK
<1>5. CASE Page = {}
  BY <1>2, <1>3, <1>4, <1>5, SubsetsOfMsgs DEF env, dbVars
<1>6. CASE Page # {}
  <2>1. Newest(Page) \in Posted
    BY <1>1, <1>6, NewestIsLast, SubsetsOfMsgs
  <2>2. \A m \in TopLevel : m > wm /\ m <= Newest(Page) => m \in Page \cup missed'
    BY <1>3, <1>6
  <2>3. Goes(Sweeper, [Idle EXCEPT !.pc = "gate", !.todo = (Page \cup RepliesTo(roots)) \cap Accepted,
                                   !.upTo = Newest(Page)])
    BY <1>2, <1>6
  <2> QED BY <1>2, <1>3, <1>4, <1>6, <2>1, <2>2, <2>3, SubsetsOfMsgs DEF env, dbVars
<1> QED BY <1>5, <1>6

LEMMA NextTyped == Typed /\ [Next]_vars => Typed'
<1> SUFFICES ASSUME Typed, [Next]_vars PROVE Typed'
  OBVIOUS
<1> USE SteeringCascadeAssumption
<1>0. /\ op \in [Observers -> Ops] /\ \A a \in Observers : op[a] \in Ops /\ AtWork(op[a])
      /\ Sweeper \in Observers /\ \A a \in Listeners : a \in Observers
  BY DEF Typed, Observers
<1> DEFINE OpOK == /\ op' \in [Observers -> Ops]
                   /\ \A a \in Observers : AtWork(op'[a])
           OpTypes == \A a \in Observers :
                         /\ op'[a].pc \in Pcs /\ op'[a].todo \subseteq Accepted' /\ op'[a].kept \subseteq Accepted'
                         /\ op'[a].cur \in 0..MaxMsgs /\ op'[a].upTo \in 0..MaxMsgs
<1>1. ASSUME Accepted \subseteq Accepted', OpOK PROVE OpTypes /\ (\A a \in Observers : AtWork(op[a]))'
  <2>1. \A a \in Observers : op'[a] \in Ops /\ AtWork(op'[a])
    BY <1>1
  <2> QED BY <1>1, <2>1 DEF AtWork, Ops
<1>2. ASSUME NEW a \in Observers, NEW r \in Ops, AtWork(r), Goes(a, r) PROVE OpOK
  BY <1>0, <1>2, Moves
<1>3. ASSUME UNCHANGED op PROVE OpOK
  BY <1>0, <1>3
<1>4. CASE Post
  <2>1. Posted \subseteq Posted' /\ Accepted \subseteq Accepted'
    BY <1>4, PostKeeps
  <2>2. /\ Numbered'
        /\ chan' \in [Msgs -> [kind : Kinds \cup {"none"}, parent : 0..MaxMsgs, at : 0..MaxTime]]
    BY <1>4, PostAppends DEF Numbered
  <2>3. UNCHANGED <<now, lives, faults, crashes, sessions, dbVars, memVars, op, history>>
    BY <1>4 DEF Post
  <2>4. OpOK /\ OpTypes /\ (\A a \in Observers : AtWork(op[a]))'
    BY <1>1, <1>3, <2>1, <2>3
  <2>5. TypeOK'
    BY <2>1, <2>2, <2>3, <2>4 DEF Typed, TypeOK, Pcs, dbVars, memVars, history
  <2> QED BY <2>2, <2>3, <2>4, <2>5 DEF Typed
<1>5. CASE Tick
  <2>1. UNCHANGED <<chan, lives, faults, crashes, sessions, dbVars, skipTill, op, history>> /\ now' \in 0..MaxTime
    BY <1>5 DEF Tick, Typed, TypeOK
  <2>2. cache' \in [Msgs -> -1..MaxTime]
    BY <1>5 DEF Tick, Typed, TypeOK
  <2>3. Posted' = Posted /\ Accepted' = Accepted
    BY <2>1, ChannelSame
  <2>4. OpOK /\ OpTypes /\ (\A a \in Observers : AtWork(op[a]))'
    BY <1>1, <1>3, <2>1, <2>3
  <2>5. TypeOK' /\ Numbered'
    BY <2>1, <2>2, <2>3, <2>4 DEF Typed, TypeOK, Pcs, Numbered, dbVars, history
  <2> QED BY <2>1, <2>4, <2>5 DEF Typed
<1>6. CASE Crash
  <2>1. UNCHANGED <<chan, now, lives, sessions, dbVars, history>> /\ skipTill' = 0 /\ faults' = faults + 1
        /\ faults < MaxFaults /\ crashes' = crashes + 1 /\ op' = [a \in Observers |-> Idle]
        /\ cache' = [m \in Msgs |-> -1]
    BY <1>6 DEF Crash, Fault
  <2>2. Posted' = Posted /\ Accepted' = Accepted
    BY <2>1, ChannelSame
  <2>3. OpOK
    BY <2>1, IdleTyped
  <2>4. OpTypes /\ (\A a \in Observers : AtWork(op[a]))'
    BY <1>1, <2>2, <2>3
  <2>5. crashes' <= faults' /\ crashes' \in 0..MaxFaults /\ faults' \in 0..MaxFaults
    BY <2>1 DEF Typed, TypeOK
  <2>6. cache' \in [Msgs -> -1..MaxTime] /\ skipTill' \in 0..MaxTime
    BY <2>1
  <2>7. TypeOK'
    BY <2>1, <2>2, <2>4, <2>5, <2>6 DEF Typed, TypeOK, Pcs, dbVars, history
  <2>8. Numbered'
    BY <2>2 DEF Typed, Numbered
  <2> QED BY <2>3, <2>4, <2>5, <2>7, <2>8 DEF Typed
<1>7. ASSUME NEW a \in Listeners, Live(a) PROVE Typed'
  <2>1. PICK m \in Accepted : Live(a)!(m)
    BY <1>7 DEF Live
  <2>2. Posted' = Posted /\ Accepted' = Accepted
    BY <2>1, ChannelSame
  <2>3. [Idle EXCEPT !.pc = "gate", !.todo = {m}] \in Ops /\ AtWork([Idle EXCEPT !.pc = "gate", !.todo = {m}])
    BY <2>1, IdleTyped, SubsetsOfMsgs DEF Ops, Pcs, AtWork, Idle
  <2>4. OpOK /\ OpTypes /\ (\A b \in Observers : AtWork(op[b]))'
    BY <1>0, <1>1, <1>2, <2>1, <2>2, <2>3
  <2>5. lives' \in 0..MaxLive
    BY <2>1 DEF Typed, TypeOK
  <2>6. TypeOK' /\ Numbered'
    BY <2>1, <2>2, <2>4, <2>5 DEF Typed, TypeOK, Pcs, Numbered, dbVars, memVars, history
  <2> QED BY <2>1, <2>4, <2>6 DEF Typed
<1>8. ASSUME NEW a \in Observers, Step(a) PROVE Typed'
  BY <1>8, StepTyped
<1>9. CASE Fetch
  <2>1. /\ UNCHANGED <<chan, now, lives, faults, crashes, sessions, wm, decided, delivered,
                       cache, sent, cards, overlap, lapses>>
        /\ skipTill' = 0 /\ missed' \subseteq Posted
    BY <1>9, FetchStarts
  <2>2. Posted' = Posted /\ Accepted' = Accepted
    BY <2>1, ChannelSame
  <2>3. OpOK
    <3>1. CASE UNCHANGED op
      BY <1>3, <3>1
    <3>2. CASE ~UNCHANGED op
      <4>1. PICK evs \in SUBSET Accepted :
                Goes(Sweeper, [Idle EXCEPT !.pc = "gate", !.todo = evs, !.upTo = Newest(Page)])
        BY <1>9, <3>2, FetchStarts
      <4>2. Newest(Page) \in 0..MaxMsgs
        <5>1. Newest(Page) \in Posted
          BY <1>9, <3>2, FetchStarts
        <5>2. Msgs \subseteq 0..MaxMsgs
          BY DEF Msgs
        <5> QED BY <5>1, <5>2, SubsetsOfMsgs
      <4> QED BY <1>0, <1>2, <4>1, <4>2, StartsTyped
    <3> QED BY <3>1, <3>2
  <2>4. OpTypes /\ (\A a \in Observers : AtWork(op[a]))'
    BY <1>1, <2>2, <2>3
  <2>5. TypeOK'
    <3>1. missed' \subseteq Posted' /\ skipTill' \in 0..MaxTime
      BY <2>1, <2>2
    <3>2. decided' \subseteq Posted' /\ delivered' \subseteq decided' /\ overlap' \subseteq Posted'
      BY <2>1, <2>2 DEF Typed, TypeOK
    <3> QED BY <2>1, <2>4, <3>1, <3>2 DEF Typed, TypeOK, Pcs
  <2>6. Numbered'
    BY <2>2 DEF Typed, Numbered
  <2> QED BY <2>1, <2>6, <2>3, <2>4, <2>5 DEF Typed
<1>10. CASE HistoryFails
  <2>1. Posted' = Posted /\ Accepted' = Accepted
    BY <1>10, ChannelSame DEF HistoryFails
  <2>2. OpOK /\ OpTypes /\ (\A a \in Observers : AtWork(op[a]))'
    BY <1>1, <1>3, <1>10, <2>1 DEF HistoryFails
  <2>3. skipTill' \in 0..MaxTime /\ faults' \in 0..MaxFaults /\ crashes' <= faults'
    BY <1>10 DEF HistoryFails, Fault, Typed, TypeOK
  <2>4. TypeOK' /\ Numbered'
    BY <1>10, <2>1, <2>2, <2>3 DEF HistoryFails, Typed, TypeOK, Pcs, Numbered, dbVars, history
  <2> QED BY <2>2, <2>3, <2>4 DEF Typed
<1>11. CASE Save \/ SaveFails
  <2>1. /\ UNCHANGED <<chan, now, lives, crashes, sessions, decided, delivered, memVars, history>>
        /\ Goes(Sweeper, Idle) /\ wm' \in 0..MaxMsgs
        /\ faults' \in 0..MaxFaults /\ crashes' <= faults'
    BY <1>0, <1>11 DEF Save, SaveFails, SaveTo, Fault, env, dbVars, Ops, Typed, TypeOK
  <2>2. Posted' = Posted /\ Accepted' = Accepted
    BY <2>1, ChannelSame
  <2>3. OpOK /\ OpTypes /\ (\A a \in Observers : AtWork(op[a]))'
    BY <1>0, <1>1, <1>2, <2>1, <2>2, IdleTyped
  <2>4. TypeOK' /\ Numbered'
    BY <2>1, <2>2, <2>3 DEF Typed, TypeOK, Pcs, Numbered, memVars, history
  <2> QED BY <2>1, <2>3, <2>4 DEF Typed
<1>12. CASE UNCHANGED vars
  <2>1. Posted' = Posted /\ Accepted' = Accepted
    BY <1>12, ChannelSame DEF vars
  <2>2. OpOK /\ OpTypes /\ (\A a \in Observers : AtWork(op[a]))'
    BY <1>1, <1>3, <1>12, <2>1 DEF vars
  <2> QED BY <1>12, <2>1, <2>2 DEF vars, Typed, TypeOK, Pcs, Numbered
<1> QED
  BY <1>4, <1>5, <1>6, <1>7, <1>8, <1>9, <1>10, <1>11, <1>12 DEF Next

LEMMA AlwaysTyped == Spec => []Typed
<1> QED BY InitTyped, NextTyped, PTL DEF Spec

\* Every variable has its type: the records of the observers, the cache of
\* verdicts and the watermark stay within what SteeringBackfill.Run and Observe
\* write, and what is in hand was posted and passed the filter.
THEOREM TypeCorrect == Spec => []TypeOK
<1>1. Typed => TypeOK
  BY DEF Typed
<1> QED BY <1>1, AlwaysTyped, PTL

-----------------------------------------------------------------------------
(* The watermark *)

\* The watermark, and where a sweep is heading, are stamps of messages that exist:
\* what is posted later is newer.
Known == wm \in {0} \cup Posted /\ op[Sweeper].upTo \in {0} \cup Posted

\* What the watermark will pass when the sweep saves it is decided, named as
\* missed, or still in the sweep's batch.
SweepCovers ==
    op[Sweeper].pc # "idle" =>
        \A m \in TopLevel \cap Accepted :
            m <= op[Sweeper].upTo => m \in decided \cup missed \cup Taken(op[Sweeper])

Covered == Known /\ SweepCovers /\ WatermarkCovers

LEMMA StepWorks ==
    ASSUME NEW a \in Observers, Step(a)
    PROVE  op[a].pc \in {"gate", "dedupe", "trace", "stage2", "surfaced"}
BY DEF Step, DropAtGate, Pass, Duplicate, Deliver, TraceDelivered, SinkFails, Stage1Drops, Stage1,
       Drop, IndexFails, Surface, TraceSurfaced, Return

LEMMA InitCovered == Init => Covered
<1> SUFFICES ASSUME Init PROVE Covered
  OBVIOUS
<1>1. op[Sweeper] = Idle /\ TopLevel = {}
  BY DEF Init, Observers, TopLevel, Posted, Unposted
<1> QED BY <1>1 DEF Covered, Known, SweepCovers, WatermarkCovers, Init, Idle

LEMMA NextCovered == Typed /\ Covered /\ [Next]_vars => Covered'
<1> SUFFICES ASSUME Typed, Covered, [Next]_vars PROVE Covered'
  OBVIOUS
<1> USE SteeringCascadeAssumption
<1> DEFINE s == op[Sweeper]
<1>0. /\ op \in [Observers -> Ops] /\ s \in Ops /\ AtWork(s)
      /\ Sweeper \in Observers /\ \A a \in Listeners : a \in Observers \ {Sweeper}
      /\ Posted \subseteq Msgs /\ TopLevel \subseteq Posted
      /\ wm \in 0..MaxMsgs /\ s.upTo \in 0..MaxMsgs /\ Msgs \subseteq Nat \ {0}
  <2>1. Sweeper \in Observers /\ \A a \in Listeners : a \in Observers \ {Sweeper}
    BY DEF Observers
  <2>2. Msgs \subseteq Nat \ {0}
    BY DEF Msgs
  <2>3. op \in [Observers -> Ops] /\ AtWork(s) /\ wm \in 0..MaxMsgs /\ s.upTo \in 0..MaxMsgs
    BY <2>1 DEF Typed, TypeOK
  <2> QED BY <2>1, <2>2, <2>3, SubsetsOfMsgs
<1>1. ASSUME UNCHANGED <<chan, wm>>, decided \subseteq decided', missed \subseteq missed' PROVE WatermarkCovers'
  BY <1>1, ChannelSame DEF Covered, WatermarkCovers
<1>2. ASSUME UNCHANGED <<chan, wm>>, decided \subseteq decided', missed \subseteq missed',
             op'[Sweeper] = s \/ op'[Sweeper] = Idle
      PROVE  Covered'
  <2>1. Known' /\ SweepCovers'
    BY <1>2, ChannelSame DEF Covered, Known, SweepCovers, Taken, Idle
  <2> QED BY <1>1, <1>2, <2>1 DEF Covered
<1>3. CASE Post
  <2>1. UNCHANGED <<wm, op, decided, missed>>
    BY <1>3 DEF Post, dbVars, history
  <2>2. /\ Posted \subseteq Posted' /\ \A m \in Posted' \ Posted, n \in Posted : n < m
        /\ TopLevel' \cap Posted \subseteq TopLevel /\ Accepted' \cap Posted \subseteq Accepted
    BY <1>3, PostKeeps
  <2>3. TopLevel' \subseteq Posted' /\ Posted' \subseteq Msgs
    BY DEF TopLevel, Posted
  <2>4. Known'
    BY <2>1, <2>2 DEF Covered, Known
  <2>5. \A m \in TopLevel' \cap Accepted' : m <= wm \/ m <= s.upTo => m \in TopLevel \cap Accepted
    <3> SUFFICES ASSUME NEW m \in TopLevel' \cap Accepted', m <= wm \/ m <= s.upTo PROVE m \in Posted
      BY <2>2
    <3>1. m \in Msgs
      BY <2>3
    <3>2. wm \in {0} \cup Posted /\ s.upTo \in {0} \cup Posted
      BY DEF Covered, Known
    <3> QED BY <1>0, <2>2, <2>3, <3>1, <3>2
  <2> QED BY <2>1, <2>4, <2>5 DEF Covered, SweepCovers, WatermarkCovers, Taken
<1>4. CASE Tick \/ HistoryFails \/ SaveFails \/ UNCHANGED vars
  <2>1. op'[Sweeper] = s \/ op'[Sweeper] = Idle
    BY <1>0, <1>4 DEF Tick, HistoryFails, SaveFails, Goes, vars
  <2>2. UNCHANGED <<chan, wm, decided, missed>>
    BY <1>4 DEF Tick, HistoryFails, SaveFails, vars, dbVars, history
  <2> QED BY <1>2, <2>1, <2>2
<1>5. CASE Crash
  BY <1>0, <1>2, <1>5 DEF Crash, dbVars, history
<1>6. ASSUME NEW a \in Listeners, Live(a) PROVE Covered'
  BY <1>0, <1>2, <1>6 DEF Live, Goes, dbVars, history
<1>7. ASSUME NEW a \in Observers, Step(a) PROVE Covered'
  <2>1. Carries(a) /\ UNCHANGED <<chan, wm, missed>>
    BY <1>7, StepCarries, StepFrame
  <2>2. CASE a # Sweeper
    BY <1>0, <1>2, <2>1, <2>2 DEF Carries
  <2>3. CASE a = Sweeper
    <3>1. op'[Sweeper].upTo = s.upTo /\ Taken(s) \subseteq Taken(op'[Sweeper]) \cup decided'
      BY <2>1, <2>3 DEF Carries
    <3>2. s.pc # "idle"
      BY <1>7, <2>3, StepWorks
    <3>3. WatermarkCovers' /\ decided \subseteq decided'
      BY <1>1, <2>1 DEF Carries
    <3>4. Known'
      BY <2>1, <3>1, ChannelSame DEF Covered, Known
    <3>5. SweepCovers'
      BY <2>1, <3>1, <3>2, <3>3, ChannelSame DEF Covered, SweepCovers, Taken
    <3> QED BY <3>3, <3>4, <3>5 DEF Covered
  <2> QED BY <2>2, <2>3
<1>8. CASE Fetch
  <2>1. UNCHANGED <<chan, wm, decided>> /\ missed \subseteq missed'
    BY <1>8, FetchStarts
  <2>2. CASE UNCHANGED op
    BY <1>2, <2>1, <2>2
  <2>3. CASE ~UNCHANGED op
    <3>1. /\ Newest(Page) \in Posted
          /\ \A m \in TopLevel : m > wm /\ m <= Newest(Page) => m \in Page \cup missed'
      BY <1>8, <2>3, FetchStarts
    <3>2. PICK evs \in SUBSET Accepted :
              /\ Page \cap Accepted \subseteq evs
              /\ Goes(Sweeper, [Idle EXCEPT !.pc = "gate", !.todo = evs, !.upTo = Newest(Page)])
      BY <1>8, <2>3, FetchStarts
    <3>3. op'[Sweeper].upTo = Newest(Page) /\ op'[Sweeper].todo = evs
      BY <1>0, <3>2 DEF Goes, Idle
    <3>4. WatermarkCovers' /\ TopLevel' = TopLevel /\ Accepted' = Accepted /\ Posted' = Posted
      BY <1>1, <2>1, ChannelSame
    <3>5. Known'
      BY <2>1, <3>1, <3>3, <3>4 DEF Covered, Known
    <3>6. SweepCovers'
      <4> SUFFICES ASSUME NEW m \in TopLevel \cap Accepted, m <= Newest(Page)
                   PROVE  m \in decided \cup missed' \cup evs
        BY <2>1, <3>3, <3>4 DEF SweepCovers, Taken
      <4>1. CASE m <= wm
        BY <2>1, <4>1 DEF Covered, WatermarkCovers
      <4>2. CASE ~(m <= wm)
        <5>1. m > wm
          BY <1>0, <4>2
        <5> QED BY <3>1, <3>2, <5>1
      <4> QED BY <4>1, <4>2
    <3> QED BY <3>4, <3>5, <3>6 DEF Covered
  <2> QED BY <2>2, <2>3
<1>9. CASE Save
  <2>1. s.pc = "save" /\ wm' = s.upTo /\ op'[Sweeper] = Idle /\ UNCHANGED <<chan, decided, missed>>
    BY <1>0, <1>9 DEF Save, SaveTo, Goes, env, history
  <2>2. Taken(s) = {}
    BY <1>0, <2>1 DEF AtWork, Taken
  <2>3. WatermarkCovers'
    BY <2>1, <2>2, ChannelSame DEF Covered, SweepCovers, WatermarkCovers
  <2>4. Known' /\ SweepCovers'
    BY <2>1, ChannelSame DEF Covered, Known, SweepCovers, Idle
  <2> QED BY <2>3, <2>4 DEF Covered
<1> QED
  BY <1>3, <1>4, <1>5, <1>6, <1>7, <1>8, <1>9 DEF Next

\* Whatever the sweep reads, decides, fails to decide or loses in a crash, the
\* watermark backfillChannel saves passes no message of the channel that has no
\* trace and is not named as missed: the sweep's batch holds it until it has one.
THEOREM CoversWatermark == Spec => []WatermarkCovers
<1>1. Covered => WatermarkCovers
  BY DEF Covered
<1> QED BY <1>1, InitCovered, NextCovered, AlwaysTyped, PTL DEF Spec

\* A sweep that has read its page is heading no further back than the watermark.
Ahead == op[Sweeper].pc # "idle" => wm <= op[Sweeper].upTo

LEMMA InitAhead == Init => Ahead
BY SteeringCascadeAssumption DEF Init, Ahead, Observers, Idle

LEMMA NextAhead == Typed /\ Ahead /\ [Next]_vars => Ahead' /\ wm <= wm'
<1> SUFFICES ASSUME Typed, Ahead, [Next]_vars PROVE Ahead' /\ wm <= wm'
  OBVIOUS
<1> DEFINE s == op[Sweeper]
<1>0. /\ op \in [Observers -> Ops] /\ Sweeper \in Observers /\ wm \in Nat /\ s.upTo \in Nat
      /\ \A a \in Listeners : a # Sweeper
  BY SteeringCascadeAssumption DEF Typed, TypeOK, Observers
<1>1. ASSUME UNCHANGED wm, op'[Sweeper] = s \/ op'[Sweeper] = Idle PROVE Ahead' /\ wm <= wm'
  BY <1>0, <1>1 DEF Ahead, Idle
<1>2. CASE Post \/ Tick \/ HistoryFails \/ SaveFails \/ Crash \/ UNCHANGED vars
  <2>1. op'[Sweeper] = s \/ op'[Sweeper] = Idle
    BY <1>0, <1>2 DEF Post, Tick, HistoryFails, SaveFails, Crash, Goes, vars
  <2>2. UNCHANGED wm
    BY <1>2 DEF Post, Tick, HistoryFails, SaveFails, Crash, vars, dbVars
  <2> QED BY <1>1, <2>1, <2>2
<1>3. ASSUME NEW a \in Listeners, Live(a) PROVE Ahead' /\ wm <= wm'
  BY <1>0, <1>1, <1>3 DEF Live, Goes, dbVars
<1>4. ASSUME NEW a \in Observers, Step(a) PROVE Ahead' /\ wm <= wm'
  <2>1. Carries(a) /\ UNCHANGED wm
    BY <1>4, StepCarries, StepFrame
  <2>2. CASE a # Sweeper
    BY <1>0, <1>1, <2>1, <2>2 DEF Carries
  <2>3. CASE a = Sweeper
    <3>1. op'[Sweeper].upTo = s.upTo /\ s.pc # "idle"
      BY <1>4, <2>1, <2>3, StepWorks DEF Carries
    <3> QED BY <1>0, <2>1, <3>1 DEF Ahead
  <2> QED BY <2>2, <2>3
<1>5. CASE Fetch
  <2>1. UNCHANGED wm
    BY <1>5, FetchStarts
  <2>2. CASE UNCHANGED op
    BY <1>1, <2>1, <2>2
  <2>3. CASE ~UNCHANGED op
    <3>1. op'[Sweeper].upTo = Newest(Page) /\ Page # {}
      BY <1>0, <1>5, <2>3 DEF Fetch, Goes, Idle
    <3>2. TopLevel \subseteq Msgs /\ Page \subseteq After /\ After \subseteq TopLevel
      BY SubsetsOfMsgs DEF Page, After
    <3>3. Newest(Page) \in After
      BY <3>1, <3>2, NewestIsLast
    <3>4. Newest(Page) \in Nat
      <4>1. Msgs \subseteq Nat
        BY SteeringCascadeAssumption DEF Msgs
      <4> QED BY ONLY <3>2, <3>3, <4>1
    <3>5. wm <= Newest(Page)
      BY <1>0, <3>3, <3>4 DEF After
    <3> QED BY <1>0, <2>1, <3>1, <3>5 DEF Ahead
  <2> QED BY <2>2, <2>3
<1>6. CASE Save
  BY <1>0, <1>6 DEF Save, SaveTo, Goes, Idle, Ahead
<1> QED
  BY <1>2, <1>3, <1>4, <1>5, <1>6 DEF Next

\* The watermark backfillChannel saves is never older than the one it replaces, not
\* when a save failed, not when the server came up again between two sweeps: the
\* sweep is the one that writes it, and it reads only what is newer.
THEOREM WatermarkAdvances == Spec => WatermarkForward
<1>1. Typed /\ Ahead /\ [Next]_vars => [wm <= wm']_vars
  BY NextAhead
<1> QED BY <1>1, InitAhead, NextAhead, AlwaysTyped, PTL DEF Spec, WatermarkForward

-----------------------------------------------------------------------------
(* SteeringCascade implements the abstract cursor of CursorLog. *)

\* A step posts a message, or leaves the channel alone, and then it settles messages or
\* is the sweep's save.
LEMMA StepLogs ==
    ASSUME Typed, [Next]_vars
    PROVE  \/ Post
           \/ UNCHANGED <<chan, wm>> /\ decided \subseteq decided' /\ missed \subseteq missed'
           \/ UNCHANGED <<chan, decided, missed>> /\ wm' = op[Sweeper].upTo /\ Save
<1> DEFINE Settles == UNCHANGED <<chan, wm>> /\ decided \subseteq decided' /\ missed \subseteq missed'
<1>1. ASSUME Tick \/ HistoryFails \/ SaveFails \/ Crash \/ UNCHANGED vars PROVE Settles
  BY <1>1 DEF Tick, HistoryFails, SaveFails, Crash, vars, dbVars, history
<1>2. ASSUME NEW a \in Listeners, Live(a) PROVE Settles
  BY <1>2 DEF Live, dbVars, history
<1>3. ASSUME NEW a \in Observers, Step(a) PROVE Settles
  BY <1>3, StepCarries, StepFrame DEF Carries
<1>4. ASSUME Fetch PROVE Settles
  BY <1>4, FetchStarts
<1>5. ASSUME Save PROVE UNCHANGED <<chan, decided, missed>> /\ wm' = op[Sweeper].upTo
  BY <1>5 DEF Save, SaveTo, env, history
<1> QED BY <1>1, <1>2, <1>3, <1>4, <1>5 DEF Next

\* The messages are 1 to their number.
LEMMA PostedCounted ==
    ASSUME Typed
    PROVE  Cardinality(Posted) \in Nat /\ Posted = 1..Cardinality(Posted)
<1>1. PICK k \in 0..MaxMsgs : Posted = 1..k
  BY DEF Typed, Numbered
<1>2. Cardinality(Posted) = k
  BY <1>1, SteeringCascadeAssumption, FS_Interval
<1> QED BY <1>1, <1>2, SteeringCascadeAssumption

\* The one who posts appends, and what was posted is as due as it was.
LEMMA PostIsAppend ==
    ASSUME Typed, Typed', Post
    PROVE  Log!Append
<1>1. PICK k \in 0..MaxMsgs - 1 : /\ Posted = 1..k /\ Posted' = 1..(k + 1)
                                  /\ \A n \in 1..k : chan'[n] = chan[n]
  BY PostAppends
<1>2. k \in Nat
  BY SteeringCascadeAssumption
<1>3. Cardinality(Posted) = k /\ Cardinality(Posted') = k + 1
  BY <1>1, <1>2, FS_Interval
<1> DEFINE due == TopLevel \cap Accepted
           newDue == TopLevel' \cap Accepted'
<1>4. due = {n \in 1..k : chan[n].parent = 0 /\ chan[n].kind # "system"}
  BY <1>1 DEF TopLevel, Accepted
<1>5. newDue = {n \in 1..(k + 1) : chan'[n].parent = 0 /\ chan'[n].kind # "system"}
  BY <1>1 DEF TopLevel, Accepted
<1>6. newDue \in {due, due \cup {k + 1}}
  <2>1. 1..(k + 1) = (1..k) \cup {k + 1}
    BY <1>2
  <2>2. \A n \in 1..k : n \in newDue <=> n \in due
    BY <1>1, <1>4, <1>5, <2>1
  <2>3. newDue \subseteq (1..k) \cup {k + 1} /\ due \subseteq 1..k
    BY <1>4, <1>5, <2>1
  <2> HIDE DEF due, newDue
  <2> QED BY <2>2, <2>3
<1>7. UNCHANGED <<wm, decided, missed>>
  BY DEF Post, dbVars, history
<1> QED BY <1>3, <1>6, <1>7 DEF Log!Append

LEMMA StepImplements ==
    ASSUME Typed, Typed', Covered, Covered', [Next]_vars
    PROVE  Log!Next \/ UNCHANGED Log!vars
<1> DEFINE n == Cardinality(Posted)
<1>0. n \in Nat /\ Posted = 1..n
  BY PostedCounted
<1>1. CASE Post
  BY <1>1, PostIsAppend DEF Log!Next
<1>2. CASE UNCHANGED <<chan, wm>> /\ decided \subseteq decided' /\ missed \subseteq missed'
  <2>1. Posted' = Posted /\ TopLevel' = TopLevel /\ Accepted' = Accepted
    BY <1>2, ChannelSame
  <2>2. decided' \cup missed' \subseteq Posted'
    BY DEF Typed, TypeOK
  <2>3. decided' \cup missed' \subseteq 1..n
    BY <1>0, <2>1, <2>2
  <2>4. Log!Settle
    BY <1>2, <2>1, <2>3 DEF Log!Settle
  <2> QED BY <2>4 DEF Log!Next
<1>3. CASE UNCHANGED <<chan, decided, missed>> /\ wm' = op[Sweeper].upTo /\ Save
  <2>1. Posted' = Posted /\ TopLevel' = TopLevel /\ Accepted' = Accepted
    BY <1>3, ChannelSame
  <2>2. wm' \in {0} \cup Posted
    BY <2>1 DEF Covered, Known
  <2>3. wm' \in 0..n
    BY <1>0, <2>2
  <2>4. \A e \in TopLevel \cap Accepted : e <= wm' => e \in decided \cup missed
    BY <1>3, <2>1 DEF Covered, WatermarkCovers
  <2>5. Log!Move
    BY <1>3, <2>1, <2>3, <2>4 DEF Log!Move
  <2> QED BY <2>5 DEF Log!Next
<1> QED BY <1>1, <1>2, <1>3, StepLogs

\* The cascade and its sweep implement CursorLog: a message of the channel is due for
\* good, a decision is never taken back, by no crash either, and the watermark of
\* backfillChannel moves past decided and excepted messages only.
THEOREM ChannelIsLog == Spec => ImplementsLog
<1>1. Init => Log!Init
  <2> SUFFICES ASSUME Init PROVE Log!Init
    OBVIOUS
  <2>1. Posted = {} /\ TopLevel = {}
    BY DEF Init, Posted, TopLevel, Unposted
  <2>2. Cardinality(Posted) = 0
    BY <2>1, FS_EmptySet
  <2> QED BY <2>1, <2>2 DEF Init, Log!Init
<1>2. Typed /\ Covered /\ (Typed /\ Covered)' /\ [Next]_vars => [Log!Next]_(Log!vars)
  BY StepImplements
<1> QED BY <1>1, <1>2, InitCovered, NextCovered, AlwaysTyped, PTL DEF Spec, ImplementsLog, Log!Spec

-----------------------------------------------------------------------------
(* One observer at a time *)

\* A message that is not marked as overlapping is past the gate of one observer.
Alone ==
    \A m \in Msgs \ overlap : \A a, b \in Observers :
        m \in InFlight(op[a]) /\ m \in InFlight(op[b]) => a = b

\* A step takes nothing past the gate but the message it passes.
LEMMA StepFlight ==
    ASSUME Typed, NEW a \in Observers, Step(a)
    PROVE  \/ InFlight(op'[a]) \subseteq InFlight(op[a]) /\ UNCHANGED overlap
           \/ \E m \in op[a].todo : InFlight(op'[a]) \subseteq InFlight(op[a]) \cup {m} /\ Gated(a, m)
<1> DEFINE o == op[a]
<1>0. op \in [Observers -> Ops] /\ o \in Ops /\ AtWork(o)
  BY DEF Typed
<1>1. ASSUME NEW r, Goes(a, r) PROVE op'[a] = r
  BY <1>0, <1>1 DEF Goes
<1>2. CASE Pass(a)
  <2>1. PICK m \in o.todo : Pass(a)!(m)
    BY <1>2 DEF Pass
  <2>2. InFlight(op'[a]) \subseteq InFlight(o) \cup {m}
    <3>1. CASE sessions = 1
      BY <1>0, <1>1, <2>1, <3>1 DEF InFlight, Ops
    <3>2. CASE sessions # 1
      <4> DEFINE r == [Without(o, m) EXCEPT !.kept = @ \cup {m}]
      <4>1. r.kept = o.kept \cup {m} /\ r.cur = 0
        BY <1>0 DEF Without, Ops
      <4>2. op'[a] = r
        BY <1>1, <2>1, <3>2
      <4> QED BY <4>1, <4>2 DEF InFlight
    <3> QED BY <3>1, <3>2
  <2> QED BY <2>1, <2>2
<1>3. ASSUME NEW m, Goes(a, Without(o, m)) PROVE InFlight(op'[a]) \subseteq InFlight(o)
  <2>1. Without(o, m).kept = o.kept /\ Without(o, m).cur = 0
    BY <1>0 DEF Without, Ops
  <2> QED BY <1>1, <1>3, <2>1 DEF InFlight
<1>4. ASSUME NEW m, Goes(a, Judged(o, m)) PROVE InFlight(op'[a]) \subseteq InFlight(o)
  <2>1. Judged(o, m).kept = o.kept \ {m} /\ Judged(o, m).cur = 0
    BY <1>0 DEF Judged, Ops
  <2> QED BY <1>1, <1>4, <2>1 DEF InFlight
<1>5. CASE DropAtGate(a) \/ Duplicate(a) \/ TraceDelivered(a)
  BY <1>3, <1>5 DEF DropAtGate, Duplicate, TraceDelivered, history
<1>6. CASE Drop(a) \/ IndexFails(a) \/ TraceSurfaced(a)
  BY <1>4, <1>6 DEF Drop, IndexFails, TraceSurfaced, history
<1>7. CASE SinkFails(a)
  <2> DEFINE m == o.cur
  <2>1. m # 0 /\ UNCHANGED overlap
    BY <1>0, <1>7 DEF SinkFails, AtWork, history
  <2>2. CASE Goes(a, [Without(o, m) EXCEPT !.kept = @ \cup {m}])
    BY <1>0, <1>1, <2>1, <2>2 DEF InFlight, Without, Ops
  <2>3. CASE Goes(a, Without(o, m))
    BY <1>3, <2>1, <2>3
  <2> QED BY <1>7, <2>2, <2>3 DEF SinkFails
<1>8. CASE Deliver(a) \/ Stage1Drops(a) \/ Stage1(a)
  BY <1>0, <1>1, <1>8 DEF Deliver, Stage1Drops, Stage1, InFlight, Ops, history
<1>9. CASE Surface(a)
  <2>1. PICK m \in o.kept : Surface(a)!(m)
    BY <1>9 DEF Surface
  <2>2. op'[a].kept = o.kept /\ op'[a].cur = m
    BY <1>0, <1>1, <2>1 DEF Ops
  <2> QED BY <2>1, <2>2 DEF InFlight
<1>10. CASE Return(a)
  <2>1. InFlight(IF a = Sweeper THEN [Idle EXCEPT !.pc = "save", !.upTo = o.upTo] ELSE Idle) = {}
    BY DEF Idle, InFlight
  <2> QED BY <1>1, <1>10, <2>1 DEF Return, history
<1> QED
  BY <1>2, <1>5, <1>6, <1>7, <1>8, <1>9, <1>10 DEF Step

\* Nothing else puts a message past the gate, hands one over or writes a card.
Elsewhere ==
    /\ UNCHANGED <<sessions, delivered, sent, cards, overlap, crashes, lapses>>
    /\ UNCHANGED <<now, cache>> \/ Tick
    /\ \A m \in Posted : chan'[m] = chan[m]
    /\ \A a \in Observers :
           \/ op'[a] = op[a]
           \/ op[a].pc \in {"idle", "save"} /\ op'[a].pc \in {"idle", "gate"} /\ InFlight(op'[a]) = {}

LEMMA NextCases ==
    ASSUME Typed, [Next]_vars
    PROVE  (\E a \in Observers : Step(a)) \/ Crash \/ Elsewhere
<1>0. /\ op \in [Observers -> Ops] /\ Sweeper \in Observers /\ Listeners \subseteq Observers
  BY DEF Typed, Observers
<1>1. InFlight(Idle) = {} /\ \A S, u : InFlight([Idle EXCEPT !.pc = "gate", !.todo = S, !.upTo = u]) = {}
  BY DEF Idle, InFlight
<1>2. CASE Post \/ Tick \/ HistoryFails \/ UNCHANGED vars
  <2>1. \A m \in Posted : chan'[m] = chan[m]
    BY <1>2, PostKeeps DEF Tick, HistoryFails, vars
  <2>2. UNCHANGED <<now, cache>> \/ Tick
    BY <1>2 DEF Post, HistoryFails, vars, memVars
  <2> QED BY <1>2, <2>1, <2>2 DEF Post, Tick, HistoryFails, vars, dbVars, history, Elsewhere
<1>3. ASSUME NEW a \in Listeners, Live(a) PROVE Elsewhere
  <2>1. PICK m \in Accepted : Live(a)!(m)
    BY <1>3 DEF Live
  <2>2. InFlight([Idle EXCEPT !.pc = "gate", !.todo = {m}]) = {}
    BY DEF Idle, InFlight
  <2>3. op'[a] = [Idle EXCEPT !.pc = "gate", !.todo = {m}] /\ \A b \in Observers \ {a} : op'[b] = op[b]
    BY <1>0, <2>1 DEF Goes
  <2> QED BY <2>1, <2>2, <2>3 DEF Elsewhere, dbVars, memVars, history, Idle
<1>4. CASE Fetch
  <2>1. op[Sweeper].pc = "idle" /\ UNCHANGED <<chan, now, cache, sessions, delivered, sent, cards, overlap, crashes, lapses>>
    BY <1>4, FetchStarts
  <2>2. CASE UNCHANGED op
    BY <2>1, <2>2 DEF Elsewhere
  <2>3. CASE ~UNCHANGED op
    <3>1. PICK evs \in SUBSET Accepted :
              Goes(Sweeper, [Idle EXCEPT !.pc = "gate", !.todo = evs, !.upTo = Newest(Page)])
      BY <1>4, <2>3, FetchStarts
    <3>2. /\ op'[Sweeper] = [Idle EXCEPT !.pc = "gate", !.todo = evs, !.upTo = Newest(Page)]
          /\ \A b \in Observers \ {Sweeper} : op'[b] = op[b]
      BY <1>0, <3>1 DEF Goes
    <3> DEFINE r == [Idle EXCEPT !.pc = "gate", !.todo = evs, !.upTo = Newest(Page)]
    <3>3. r.pc = "gate" /\ r.kept = {} /\ r.cur = 0 BY DEF Idle
    <3>4. op'[Sweeper] = r BY <3>2
    <3> HIDE DEF r
    <3>5. op'[Sweeper].pc = "gate" /\ InFlight(op'[Sweeper]) = {}
      BY <3>3, <3>4 DEF InFlight
    <3> QED BY <2>1, <3>2, <3>5 DEF Elsewhere
  <2> QED BY <2>2, <2>3
<1>5. CASE Save \/ SaveFails
  <2>1. /\ op[Sweeper].pc = "save" /\ Goes(Sweeper, Idle)
        /\ UNCHANGED <<chan, now, cache, sessions, delivered, sent, cards, overlap, crashes, lapses>>
    BY <1>5 DEF Save, SaveFails, env, dbVars, memVars, history
  <2>2. op'[Sweeper] = Idle /\ \A b \in Observers \ {Sweeper} : op'[b] = op[b]
    BY <1>0, <2>1 DEF Goes
  <2>3. Idle.pc = "idle"
    BY DEF Idle
  <2> QED BY <1>1, <2>1, <2>2, <2>3 DEF Elsewhere
<1> QED BY <1>2, <1>3, <1>4, <1>5 DEF Next

LEMMA InitAlone == Init => Alone
BY DEF Init, Alone, Idle, InFlight

LEMMA NextAlone == Typed /\ Alone /\ [Next]_vars => Alone'
<1> SUFFICES ASSUME Typed, Alone, [Next]_vars PROVE Alone'
  OBVIOUS
<1>1. ASSUME NEW a \in Observers, Step(a) PROVE Alone'
  <2>1. \A b \in Observers \ {a} : op'[b] = op[b]
    BY <1>1, StepCarries DEF Carries
  <2>2. CASE InFlight(op'[a]) \subseteq InFlight(op[a]) /\ UNCHANGED overlap
    BY <2>1, <2>2 DEF Alone, InFlight
  <2>3. ASSUME NEW m \in op[a].todo, InFlight(op'[a]) \subseteq InFlight(op[a]) \cup {m}, Gated(a, m)
        PROVE  Alone'
    <3>1. overlap \subseteq overlap' /\ (m \in overlap' \/ \A b \in Observers \ {a} : m \notin InFlight(op[b]))
      BY <2>3 DEF Gated
    <3> SUFFICES ASSUME NEW n \in Msgs \ overlap', NEW b \in Observers, NEW c \in Observers,
                        n \in InFlight(op'[b]), n \in InFlight(op'[c])
                 PROVE  b = c
      BY DEF Alone, InFlight
    <3>2. CASE n = m
      BY <2>1, <3>1, <3>2
    <3>3. CASE n # m
      BY <2>1, <2>3, <3>1, <3>3 DEF Alone
    <3> QED BY <3>2, <3>3
  <2> QED BY <1>1, <2>2, <2>3, StepFlight
<1>2. CASE Crash
  BY <1>2 DEF Crash, Alone, Idle, InFlight
<1>3. CASE Elsewhere
  <2>1. UNCHANGED overlap /\ \A a \in Observers : InFlight(op'[a]) \subseteq InFlight(op[a])
    BY <1>3 DEF Elsewhere
  <2> QED BY <2>1 DEF Alone, InFlight
<1> QED BY <1>1, <1>2, <1>3, NextCases

-----------------------------------------------------------------------------
(* Deliveries to the session *)

\* an observer has handed m over and has not traced it yet
Handed(m) == \E a \in Observers : op[a].pc = "trace" /\ op[a].cur = m

\* The hand-overs a fault has paid for.
Paid(m) == crashes + lapses[m]

\* A message with neither a row of its delivery nor an observer about to write one was
\* handed over before a crash, or before a row that was lost, each time.
SentBefore ==
    \A m \in Msgs \ overlap :
        /\ sent[m] <= 1 + Paid(m)
        /\ m \notin delivered /\ ~Handed(m) => sent[m] <= Paid(m)

\* A lapse about the message an observer has in hand.
Lapsed(m) == lapses' = [lapses EXCEPT ![m] = @ + 1]

LEMMA StepSends ==
    ASSUME Typed, NEW a \in Observers, Step(a)
    PROVE  \/ /\ op[a].pc = "dedupe" /\ op'[a].pc = "trace" /\ op'[a].cur = op[a].cur
              /\ sent' = [sent EXCEPT ![op[a].cur] = @ + 1] /\ UNCHANGED delivered
              /\ \/ op[a].cur \notin delivered /\ UNCHANGED lapses
                 \/ Lapsed(op[a].cur)
           \/ /\ op[a].pc = "trace" /\ op'[a].pc = "gate" /\ UNCHANGED sent
              /\ \/ delivered' = delivered \cup {op[a].cur} /\ UNCHANGED lapses
                 \/ UNCHANGED delivered /\ Lapsed(op[a].cur)
           \/ /\ op[a].pc # "trace" /\ op'[a].pc # "trace" /\ UNCHANGED <<sent, delivered, lapses>>
<1> DEFINE o == op[a]
<1>0. op \in [Observers -> Ops] /\ o \in Ops
  BY DEF Typed
<1>1. ASSUME NEW r, Goes(a, r) PROVE op'[a] = r
  BY <1>0, <1>1 DEF Goes
<1>2. CASE Deliver(a)
  BY <1>0, <1>1, <1>2 DEF Deliver, SkipDelivered, KnownDelivery, Lapse, Lapsed, Ops, dbVars
<1>3. CASE TraceDelivered(a)
  BY <1>0, <1>1, <1>3 DEF TraceDelivered, Lapse, Lapsed, Without, Ops
<1>4. CASE DropAtGate(a) \/ Pass(a) \/ Duplicate(a) \/ SinkFails(a)
  <2>1. o.pc # "trace" /\ UNCHANGED <<sent, delivered, lapses>>
    BY <1>4 DEF DropAtGate, Pass, Duplicate, SinkFails, dbVars, history
  <2>2. op'[a].pc \in {"gate", "dedupe"}
    BY <1>0, <1>1, <1>4 DEF DropAtGate, Pass, Duplicate, SinkFails, Without, Ops
  <2> QED BY <2>1, <2>2
<1>5. CASE Stage1Drops(a) \/ Stage1(a) \/ Drop(a) \/ IndexFails(a) \/ Surface(a) \/ TraceSurfaced(a)
  <2>1. o.pc # "trace" /\ UNCHANGED <<sent, delivered, lapses>>
    BY <1>5 DEF Stage1Drops, Stage1, Drop, IndexFails, Surface, TraceSurfaced, dbVars, history
  <2>2. op'[a].pc \in {"gate", "stage2", "surfaced"}
    BY <1>0, <1>1, <1>5 DEF Stage1Drops, Stage1, Drop, IndexFails, Surface, TraceSurfaced, Judged, Ops
  <2> QED BY <2>1, <2>2
<1>6. CASE Return(a)
  <2>1. o.pc # "trace" /\ UNCHANGED <<sent, delivered, lapses>>
    BY <1>6 DEF Return, dbVars, history
  <2>2. op'[a].pc \in {"save", "idle"}
    <3> DEFINE r == IF a = Sweeper THEN [Idle EXCEPT !.pc = "save", !.upTo = o.upTo] ELSE Idle
    <3>1. r.pc \in {"save", "idle"}
      BY DEF Idle
    <3>2. op'[a] = r
      BY <1>1, <1>6 DEF Return
    <3> QED BY <3>1, <3>2
  <2> QED BY <2>1, <2>2
<1> QED BY <1>2, <1>3, <1>4, <1>5, <1>6 DEF Step

LEMMA InitSentBefore == Init => SentBefore
<1> SUFFICES ASSUME Init, NEW m \in Msgs PROVE sent[m] = 0 /\ crashes + lapses[m] = 0
  BY DEF SentBefore, Paid
<1> QED BY DEF Init

LEMMA NextSentBefore == Typed /\ Alone /\ SentBefore /\ [Next]_vars => SentBefore'
<1> SUFFICES ASSUME Typed, Alone, SentBefore, [Next]_vars PROVE SentBefore'
  OBVIOUS
<1>0. sent \in [Msgs -> Nat] /\ lapses \in [Msgs -> Nat] /\ crashes \in Nat /\ op \in [Observers -> Ops]
  BY SteeringCascadeAssumption DEF Typed, TypeOK
<1>1. ASSUME NEW a \in Observers, Step(a) PROVE SentBefore'
  <2>0. UNCHANGED crashes /\ overlap \subseteq overlap'
    BY <1>1, StepFrame, StepFlight DEF Gated
  <2> SUFFICES ASSUME NEW m \in Msgs \ overlap'
               PROVE  /\ sent'[m] <= 1 + (crashes + lapses'[m])
                      /\ m \notin delivered' /\ ~Handed(m)' => sent'[m] <= crashes + lapses'[m]
    BY <2>0 DEF SentBefore, Paid
  <2>1. m \notin overlap
    BY <2>0
  <2>2. /\ sent[m] <= 1 + (crashes + lapses[m])
        /\ m \notin delivered /\ ~Handed(m) => sent[m] <= crashes + lapses[m]
    BY <2>1 DEF SentBefore, Paid
  <2>3. \A b \in Observers \ {a} : op'[b] = op[b]
    BY <1>1, StepCarries DEF Carries
  <2>7. sent[m] \in Nat /\ lapses[m] \in Nat
    BY <1>0
  <2>4. CASE /\ op[a].pc = "dedupe" /\ op'[a].pc = "trace" /\ op'[a].cur = op[a].cur
             /\ sent' = [sent EXCEPT ![op[a].cur] = @ + 1] /\ UNCHANGED delivered
             /\ \/ op[a].cur \notin delivered /\ UNCHANGED lapses
                \/ Lapsed(op[a].cur)
    <3>1. CASE m = op[a].cur
      <4>1. Handed(m)'
        BY <2>4, <3>1 DEF Handed
      <4>2. ~Handed(m)
        <5>1. m \in InFlight(op[a]) /\ \A b \in Observers : op[b].cur = m => m \in InFlight(op[b])
          BY <3>1, SteeringCascadeAssumption DEF InFlight, Msgs
        <5>2. \A b \in Observers : op[b].cur = m => b = a
          BY <2>1, <5>1 DEF Alone
        <5> QED BY <2>4, <5>2 DEF Handed
      <4>3. sent'[m] = sent[m] + 1
        BY <1>0, <2>4, <3>1
      <4>4. \/ m \notin delivered /\ lapses'[m] = lapses[m]
            \/ lapses'[m] = lapses[m] + 1
        BY <1>0, <2>4, <3>1 DEF Lapsed
      <4>5. sent'[m] <= 1 + (crashes + lapses'[m])
        BY <1>0, <2>2, <2>7, <4>2, <4>3, <4>4
      <4> QED BY <4>1, <4>5
    <3>2. CASE m # op[a].cur
      <4>1. Handed(m)' <=> Handed(m)
        BY <2>3, <2>4, <3>2 DEF Handed
      <4>2. sent'[m] = sent[m] /\ lapses'[m] = lapses[m]
        BY <1>0, <2>4, <3>2 DEF Lapsed
      <4> QED BY <2>2, <2>4, <4>1, <4>2
    <3> QED BY <3>1, <3>2
  <2>5. CASE /\ op[a].pc = "trace" /\ op'[a].pc = "gate" /\ UNCHANGED sent
             /\ \/ delivered' = delivered \cup {op[a].cur} /\ UNCHANGED lapses
                \/ UNCHANGED delivered /\ Lapsed(op[a].cur)
    <3>1. CASE m = op[a].cur
      <4>1. \/ m \in delivered' /\ lapses'[m] = lapses[m]
            \/ lapses'[m] = lapses[m] + 1
        BY <1>0, <2>5, <3>1 DEF Lapsed
      <4> QED BY <1>0, <2>2, <2>5, <2>7, <4>1
    <3>2. CASE m # op[a].cur
      <4>1. Handed(m)' <=> Handed(m)
        BY <2>3, <2>5, <3>2 DEF Handed
      <4>2. lapses'[m] = lapses[m] /\ (m \in delivered' <=> m \in delivered)
        BY <1>0, <2>5, <3>2 DEF Lapsed
      <4> QED BY <2>2, <2>5, <4>1, <4>2
    <3> QED BY <3>1, <3>2
  <2>6. CASE op[a].pc # "trace" /\ op'[a].pc # "trace" /\ UNCHANGED <<sent, delivered, lapses>>
    <3>1. Handed(m)' <=> Handed(m)
      BY <2>3, <2>6 DEF Handed
    <3> QED BY <2>2, <2>6, <3>1
  <2> QED BY <1>1, <2>4, <2>5, <2>6, StepSends
<1>2. CASE Crash
  <2>1. crashes' = crashes + 1 /\ UNCHANGED <<sent, overlap, lapses>>
    BY <1>2 DEF Crash, history
  <2>2. \A m \in Msgs : sent[m] \in Nat /\ lapses[m] \in Nat
    BY <1>0
  <2> QED BY <1>0, <2>1, <2>2 DEF SentBefore, Paid
<1>3. CASE Elsewhere
  <2>1. UNCHANGED <<sent, delivered, overlap, crashes, lapses>>
    BY <1>3 DEF Elsewhere
  <2>2. \A m : Handed(m)' <=> Handed(m)
    BY <1>3 DEF Elsewhere, Handed
  <2> QED BY <2>1, <2>2 DEF SentBefore, Paid
<1> QED BY <1>1, <1>2, <1>3, NextCases

LEMMA AlwaysAlone == Spec => []Alone
<1> QED BY InitAlone, NextAlone, AlwaysTyped, PTL DEF Spec

\* A session is handed a message once (skipDuplicateSessionDelivery asks the traces,
\* which outlive the verdict cache and the server), and once more for each crash
\* that could fall between the delivery and its trace and for each row of the message
\* that was not written or not read, unless two observers had the message past the
\* gate at once.
THEOREM HandedOnce == Spec => []SentOnce
<1>1. Typed /\ SentBefore => SentOnce
  <2> SUFFICES ASSUME Typed, SentBefore, NEW m \in Posted \ overlap PROVE sent[m] <= 1 + crashes + lapses[m]
    BY DEF SentOnce
  <2>1. crashes \in Nat /\ lapses[m] \in Nat /\ sent[m] \in Nat
    BY SubsetsOfMsgs, SteeringCascadeAssumption DEF Typed, TypeOK
  <2> QED BY <2>1, SubsetsOfMsgs DEF SentBefore, Paid
<1> QED BY <1>1, InitSentBefore, NextSentBefore, AlwaysTyped, AlwaysAlone, PTL DEF Spec

-----------------------------------------------------------------------------
(* Cards of the feed *)

LEMMA DivMonotone ==
    ASSUME NEW x \in Nat, NEW y \in Nat, x <= y, NEW d \in Nat \ {0}
    PROVE  x \div d \in Nat /\ y \div d \in Nat /\ x \div d <= y \div d
OBVIOUS

LEMMA DivStep ==
    ASSUME NEW x \in Nat, NEW y \in Nat, NEW d \in Nat \ {0}, x + d <= y
    PROVE  x \div d + 1 <= y \div d
OBVIOUS

\* The most cards a message can have when its verdict of time t is its last.
CardsBy(t) == 1 + crashes + t \div TTL

\* Still to be judged by the stages, or about to be should the sink fail.
Due(o, m) ==
    \/ m \in o.kept /\ ~(o.pc = "surfaced" /\ o.cur = m)
    \/ o.pc = "dedupe" /\ o.cur = m /\ chan[m].kind = "human"

\* A message without a verdict, or past the gate that looks for one, has had every
\* card a whole lifetime ago or before a crash.
CardsBefore ==
    \A m \in Msgs \ overlap :
        /\ cache[m] <= now
        /\ cache[m] = -1 => cards[m] < CardsBy(now)
        /\ cache[m] # -1 => cards[m] <= CardsBy(cache[m])
        /\ \A a \in Observers : Due(op[a], m) => cards[m] < CardsBy(now)

LEMMA InitCardsBefore == Init => CardsBefore
<1> SUFFICES ASSUME Init PROVE CardsBefore
  OBVIOUS
<1>1. 0 \div TTL \in Nat
  BY DivMonotone, SteeringCascadeAssumption
<1>2. \A a \in Observers, m \in Msgs : ~Due(op[a], m)
  BY DEF Init, Idle, Due
<1> QED BY <1>1, <1>2 DEF Init, CardsBefore, CardsBy

\* The main property, from the invariant.
LEMMA CardsBounded ==
    ASSUME Typed, CardsBefore, NEW m \in Msgs \ overlap
    PROVE  cards[m] <= CardsBy(now)
<1>1. /\ now \in Nat /\ crashes \in Nat /\ cards[m] \in Nat
      /\ cache[m] = -1 \/ (cache[m] \in Nat /\ cache[m] <= now)
  BY SteeringCascadeAssumption DEF Typed, TypeOK, CardsBefore
<1>2. CASE cache[m] = -1
  BY <1>1, <1>2, DivMonotone, SteeringCascadeAssumption DEF CardsBefore, CardsBy
<1>3. CASE cache[m] # -1
  <2>1. cache[m] \div TTL \in Nat /\ now \div TTL \in Nat /\ cache[m] \div TTL <= now \div TTL
    BY <1>1, <1>3, DivMonotone, SteeringCascadeAssumption
  <2> QED BY <1>1, <1>3, <2>1 DEF CardsBefore, CardsBy
<1> QED BY <1>2, <1>3

\* What a step does to the verdicts and the cards: a verdict is of now, a message
\* becomes due at the gate, without a verdict, and a card is of a message that was.
LEMMA StepJudges ==
    ASSUME Typed, NEW a \in Observers, Step(a)
    PROVE  /\ \A m \in Msgs : cache'[m] \in {cache[m], now}
           /\ \/ /\ UNCHANGED cards
                 /\ \A m \in Msgs : Due(op'[a], m) => Due(op[a], m) \/ cache[m] = -1
              \/ \E c \in Msgs :
                    /\ Due(op[a], c) /\ ~Due(op'[a], c) /\ cache'[c] = now
                    /\ cards' = [cards EXCEPT ![c] = @ + 1]
                    /\ \A m \in Msgs : Due(op'[a], m) => Due(op[a], m)
<1> DEFINE o == op[a]
<1> USE SteeringCascadeAssumption
<1>0. /\ op \in [Observers -> Ops] /\ o \in Ops /\ AtWork(o) /\ 0 \notin Msgs
      /\ cache \in [Msgs -> -1..MaxTime] /\ o.todo \cup o.kept \subseteq Msgs
  <2>1. op \in [Observers -> Ops] /\ AtWork(o) /\ cache \in [Msgs -> -1..MaxTime]
    BY DEF Typed, TypeOK
  <2>2. o \in Ops /\ o.todo \cup o.kept \subseteq Msgs
    BY <2>1 DEF Ops
  <2> QED BY <2>1, <2>2 DEF Msgs
<1>1. ASSUME NEW r, Goes(a, r) PROVE op'[a] = r
  BY <1>0, <1>1 DEF Goes
<1>2. ASSUME NEW m, Goes(a, Without(o, m)), UNCHANGED cards PROVE \A n \in Msgs : Due(op'[a], n) => Due(o, n) \/ o.pc = "surfaced"
  <2>1. Without(o, m).pc = "gate" /\ Without(o, m).kept = o.kept
    BY <1>0 DEF Without, Ops
  <2> QED BY <1>1, <1>2, <2>1 DEF Due
<1>3. ASSUME NEW m, Goes(a, Judged(o, m)), o.pc = "surfaced" => m = o.cur PROVE \A n \in Msgs : Due(op'[a], n) => Due(o, n)
  <2>1. Judged(o, m).pc = "stage2" /\ Judged(o, m).kept = o.kept \ {m}
    BY <1>0 DEF Judged, Ops
  <2> QED BY <1>1, <1>3, <2>1 DEF Due
<1>4. CASE DropAtGate(a) \/ Duplicate(a) \/ TraceDelivered(a)
  <2>1. UNCHANGED <<cache, cards>> /\ o.pc # "surfaced" /\ \E m \in Msgs \cup {o.cur} : Goes(a, Without(o, m))
    BY <1>0, <1>4 DEF DropAtGate, Duplicate, TraceDelivered, memVars, history
  <2> QED BY <1>2, <2>1
<1>5. CASE Pass(a)
  <2>1. PICK m \in o.todo : Pass(a)!(m)
    BY <1>5 DEF Pass
  <2>2. m \in Msgs /\ UNCHANGED <<cache, cards>> /\ (cache[m] = -1 \/ (chan[m].kind = "self" /\ sessions = 1))
    BY <1>0, <2>1 DEF memVars, Seen
  <2>3. CASE sessions = 1
    <3>1. op'[a].pc = "dedupe" /\ op'[a].cur = m /\ op'[a].kept = o.kept /\ UNCHANGED chan
      BY <1>0, <1>1, <2>1, <2>3 DEF Ops, env
    <3> QED BY <2>1, <2>2, <3>1 DEF Due
  <2>4. CASE sessions # 1
    <3> DEFINE r == [Without(o, m) EXCEPT !.kept = @ \cup {m}]
    <3>1. r.pc = "gate" /\ r.kept = o.kept \cup {m}
      BY <1>0 DEF Without, Ops
    <3>2. op'[a] = r
      BY <1>1, <2>1, <2>4
    <3> QED BY <2>1, <2>2, <2>4, <3>1, <3>2 DEF Due
  <2> QED BY <2>3, <2>4
<1>6. CASE Deliver(a)
  <2>1. op'[a].pc = "trace" /\ op'[a].kept = o.kept /\ o.pc = "dedupe" /\ UNCHANGED cards
    BY <1>0, <1>1, <1>6 DEF Deliver, Ops
  <2>2. \A m \in Msgs : cache'[m] \in {cache[m], now}
    BY <1>0, <1>6 DEF Deliver
  <2> QED BY <2>1, <2>2 DEF Due
<1>7. CASE SinkFails(a)
  <2> DEFINE m == o.cur
             r == [Without(o, m) EXCEPT !.kept = @ \cup {m}]
  <2>1. UNCHANGED <<cache, cards>> /\ o.pc = "dedupe" /\ m \in Msgs
    BY <1>0, <1>7 DEF SinkFails, AtWork, memVars, history
  <2>2. CASE chan[m].kind = "human" /\ Goes(a, r)
    <3>1. r.pc = "gate" /\ r.kept = o.kept \cup {m}
      BY <1>0 DEF Without, Ops
    <3> QED BY <1>1, <2>1, <2>2, <3>1 DEF Due
  <2>3. CASE Goes(a, Without(o, m))
    BY <1>2, <2>1, <2>3
  <2> QED BY <1>7, <2>2, <2>3 DEF SinkFails
<1>8. CASE Stage1Drops(a)
  <2>1. op'[a].kept = {} /\ op'[a].pc = "gate" /\ UNCHANGED cards /\ Mark(o.kept)
    BY <1>0, <1>1, <1>8 DEF Stage1Drops, Ops, history
  <2> QED BY <1>0, <2>1 DEF Mark, Due
<1>9. CASE Stage1(a)
  <2>1. op'[a].kept = o.kept /\ op'[a].pc = "stage2" /\ o.pc = "gate" /\ UNCHANGED <<cache, cards>>
    BY <1>0, <1>1, <1>9 DEF Stage1, Ops, memVars, history
  <2> QED BY <2>1 DEF Due
<1>10. CASE Drop(a) \/ IndexFails(a)
  <2>1. PICK m \in o.kept : o.pc = "stage2" /\ Goes(a, Judged(o, m)) /\ UNCHANGED cards /\ (Mark({m}) \/ UNCHANGED cache)
    BY <1>10 DEF Drop, IndexFails, memVars, history
  <2>2. \A n \in Msgs : cache'[n] \in {cache[n], now}
    BY <1>0, <2>1 DEF Mark
  <2> QED BY <1>3, <2>1, <2>2
<1>11. CASE Surface(a)
  <2>1. PICK c \in o.kept : Surface(a)!(c)
    BY <1>11 DEF Surface
  <2>2. op'[a].pc = "surfaced" /\ op'[a].cur = c /\ op'[a].kept = o.kept
    BY <1>0, <1>1, <2>1 DEF Ops
  <2>3. c \in Msgs /\ cache'[c] = now /\ \A n \in Msgs : cache'[n] \in {cache[n], now}
    BY <1>0, <2>1 DEF Mark
  <2> QED BY <2>1, <2>2, <2>3 DEF Due
<1>12. CASE TraceSurfaced(a)
  BY <1>3, <1>12 DEF TraceSurfaced, memVars, history
<1>13. CASE Return(a)
  <2> DEFINE r == IF a = Sweeper THEN [Idle EXCEPT !.pc = "save", !.upTo = o.upTo] ELSE Idle
  <2>1. r.pc # "dedupe" /\ r.kept = {}
    BY DEF Idle
  <2>2. op'[a] = r /\ UNCHANGED <<cache, cards>>
    BY <1>1, <1>13 DEF Return, memVars, history
  <2> QED BY <2>1, <2>2 DEF Due
<1> QED
  BY <1>4, <1>5, <1>6, <1>7, <1>8, <1>9, <1>10, <1>11, <1>12, <1>13 DEF Step

\* A message that is due is past the observer's gate.
LEMMA DueInFlight ==
    ASSUME Typed, NEW a \in Observers, NEW m \in Msgs, Due(op[a], m)
    PROVE  m \in InFlight(op[a])
BY SteeringCascadeAssumption DEF Due, InFlight, Msgs

LEMMA StepCardsBefore ==
    ASSUME Typed, Alone, CardsBefore, NEW a \in Observers, Step(a)
    PROVE  CardsBefore'
<1>0. /\ UNCHANGED <<chan, now, crashes>> /\ overlap \subseteq overlap'
      /\ now \in Nat /\ crashes \in Nat /\ now \div TTL \in Nat
      /\ cards \in [Msgs -> Nat] /\ cache \in [Msgs -> -1..MaxTime]
  <2>1. UNCHANGED <<chan, now, crashes>> /\ overlap \subseteq overlap'
    BY StepFrame, StepFlight DEF Gated
  <2>2. now \in Nat /\ crashes \in Nat /\ cards \in [Msgs -> Nat] /\ cache \in [Msgs -> -1..MaxTime]
    BY SteeringCascadeAssumption DEF Typed, TypeOK
  <2> QED BY <2>1, <2>2, DivMonotone, SteeringCascadeAssumption
<1>1. CardsBy(now) \in Nat /\ CardsBy(now)' = CardsBy(now)
  BY <1>0 DEF CardsBy
<1>2. \A b \in Observers \ {a} : op'[b] = op[b]
  BY StepCarries DEF Carries
<1> SUFFICES ASSUME NEW m \in Msgs \ overlap'
             PROVE  /\ cache'[m] <= now
                    /\ cache'[m] = -1 => cards'[m] < CardsBy(now)
                    /\ cache'[m] # -1 => cards'[m] <= 1 + crashes + cache'[m] \div TTL
                    /\ \A b \in Observers : Due(op'[b], m) => cards'[m] < CardsBy(now)
  BY <1>0, <1>1 DEF CardsBefore, CardsBy, Due
<1>3. /\ m \in Msgs \ overlap /\ cards[m] \in Nat /\ cards[m] <= CardsBy(now)
      /\ cache[m] <= now /\ cache[m] \in -1..MaxTime
      /\ cache[m] = -1 => cards[m] < CardsBy(now)
      /\ cache[m] # -1 => cards[m] <= 1 + crashes + cache[m] \div TTL
      /\ \A b \in Observers : Due(op[b], m) => cards[m] < CardsBy(now)
  BY <1>0, CardsBounded DEF CardsBefore, CardsBy
<1>4. cache'[m] \in {cache[m], now} /\ now # -1 /\ cache'[m] <= now
  BY <1>0, <1>3, StepJudges
<1>5. CASE cards'[m] = cards[m] /\ (Due(op'[a], m) => Due(op[a], m) \/ cache[m] = -1)
  <2>1. \A b \in Observers : Due(op'[b], m) => cards'[m] < CardsBy(now)
    BY <1>2, <1>3, <1>5
  <2>2. cache'[m] # -1 => cards'[m] <= 1 + crashes + cache'[m] \div TTL
    <3>1. CASE cache'[m] = cache[m]
      BY <1>3, <1>5, <3>1
    <3>2. CASE cache'[m] = now
      BY <1>3, <1>5, <3>2 DEF CardsBy
    <3> QED BY <1>4, <3>1, <3>2
  <2>3. cache'[m] = -1 => cards'[m] < CardsBy(now)
    BY <1>3, <1>4, <1>5
  <2> QED BY <1>4, <2>1, <2>2, <2>3
<1>6. CASE /\ Due(op[a], m) /\ ~Due(op'[a], m) /\ cache'[m] = now /\ cards'[m] = cards[m] + 1
  <2>1. cards'[m] <= CardsBy(now)
    BY <1>1, <1>3, <1>6
  <2>2. \A b \in Observers \ {a} : ~Due(op'[b], m)
    <3>1. \A b \in Observers : Due(op[b], m) => m \in InFlight(op[b])
      BY <1>3, DueInFlight
    <3> QED BY <1>2, <1>3, <1>6, <3>1 DEF Alone
  <2> QED BY <1>4, <1>6, <2>1, <2>2 DEF CardsBy
<1> QED
  <2>1. CASE UNCHANGED cards
    BY <1>3, <1>5, <2>1, StepJudges
  <2>2. CASE ~UNCHANGED cards
    <3>1. PICK c \in Msgs :
              /\ Due(op[a], c) /\ ~Due(op'[a], c) /\ cache'[c] = now
              /\ cards' = [cards EXCEPT ![c] = @ + 1]
              /\ \A n \in Msgs : Due(op'[a], n) => Due(op[a], n)
      BY <2>2, StepJudges
    <3>2. CASE c = m
      BY <1>0, <1>6, <3>1, <3>2
    <3>3. CASE c # m
      BY <1>0, <1>3, <1>5, <3>1, <3>3
    <3> QED BY <3>2, <3>3
  <2> QED BY <2>1, <2>2

LEMMA NextCardsBefore == Typed /\ Alone /\ CardsBefore /\ [Next]_vars => CardsBefore'
<1> SUFFICES ASSUME Typed, Alone, CardsBefore, [Next]_vars PROVE CardsBefore'
  OBVIOUS
<1> USE SteeringCascadeAssumption
<1>0. /\ now \in Nat /\ crashes \in Nat /\ cards \in [Msgs -> Nat] /\ cache \in [Msgs -> -1..MaxTime]
      /\ op \in [Observers -> Ops] /\ \A a \in Observers : AtWork(op[a])
  BY DEF Typed, TypeOK
<1>1. ASSUME NEW a \in Observers, Step(a) PROVE CardsBefore'
  BY <1>1, StepCardsBefore
<1>2. CASE Crash
  <2>1. /\ UNCHANGED <<now, cards, overlap>> /\ crashes' = crashes + 1
        /\ \A m \in Msgs : cache'[m] = -1
        /\ \A a \in Observers : op'[a] = Idle
    BY <1>2 DEF Crash, history
  <2>2. \A a \in Observers, m \in Msgs : ~Due(op[a], m)'
    BY <2>1 DEF Idle, Due
  <2>3. now \div TTL \in Nat
    BY <1>0, DivMonotone
  <2>4. \A m \in Msgs \ overlap : cards[m] < CardsBy(now)'
    BY <1>0, <2>1, <2>3, CardsBounded DEF CardsBy
  <2> QED BY <1>0, <2>1, <2>2, <2>4 DEF CardsBefore
<1>3. CASE Elsewhere
  <2>1. UNCHANGED <<cards, overlap, crashes>>
    BY <1>3 DEF Elsewhere
  <2>2. ASSUME NEW a \in Observers, NEW m \in Msgs, Due(op[a], m)' PROVE Due(op[a], m)
    <3>1. op'[a] = op[a]
      BY <1>3, <2>2 DEF Elsewhere, InFlight, Due
    <3>2. AtWork(op[a]) /\ op[a].cur \in {0, m} => chan'[m] = chan[m] \/ m \notin op[a].todo
      BY <1>3, SubsetsOfMsgs DEF Elsewhere, AtWork
    <3> QED BY <1>0, <2>2, <3>1, <3>2 DEF Due, AtWork
  <2>3. CASE UNCHANGED <<now, cache>>
    BY <2>1, <2>2, <2>3 DEF CardsBefore, CardsBy
  <2>4. CASE Tick
    <3>1. /\ now' = now + 1 /\ now' \in Nat /\ now \div TTL \in Nat
          /\ now' \div TTL \in Nat /\ now \div TTL <= now' \div TTL
          /\ \A m \in Msgs : cache'[m] = IF now + 1 - cache[m] < TTL THEN cache[m] ELSE -1
      <4>1. /\ now' = now + 1 /\ now' \in Nat /\ now <= now'
            /\ \A m \in Msgs : cache'[m] = IF now + 1 - cache[m] < TTL THEN cache[m] ELSE -1
        BY <1>0, <2>4 DEF Tick
      <4> QED BY <1>0, <4>1, DivMonotone
    <3>2. CardsBy(now) \in Nat /\ CardsBy(now)' \in Nat /\ CardsBy(now) <= CardsBy(now)'
      BY <1>0, <2>1, <3>1 DEF CardsBy
    <3> SUFFICES ASSUME NEW m \in Msgs \ overlap
                 PROVE  /\ cache'[m] <= now'
                        /\ cache'[m] = -1 => cards[m] < CardsBy(now)'
                        /\ cache'[m] # -1 => cards[m] <= 1 + crashes + cache'[m] \div TTL
                        /\ \A a \in Observers : Due(op[a], m)' => cards[m] < CardsBy(now)'
      BY <2>1 DEF CardsBefore, CardsBy
    <3>3. /\ cards[m] \in Nat /\ cache[m] \in -1..MaxTime /\ cache[m] <= now
          /\ cache[m] = -1 => cards[m] < CardsBy(now)
          /\ cache[m] # -1 => cards[m] <= 1 + crashes + cache[m] \div TTL
          /\ \A a \in Observers : Due(op[a], m) => cards[m] < CardsBy(now)
      BY <1>0 DEF CardsBefore, CardsBy
    <3>4. \A a \in Observers : Due(op[a], m)' => cards[m] < CardsBy(now)'
      BY <2>2, <3>2, <3>3
    <3>5. CASE cache'[m] = cache[m]
      BY <1>0, <3>1, <3>2, <3>3, <3>4, <3>5
    <3>6. CASE cache[m] # -1 /\ cache'[m] = -1
      <4>1. cache[m] \in Nat /\ cache[m] + TTL <= now'
        BY <1>0, <3>1, <3>3, <3>6
      <4>2. cache[m] \div TTL \in Nat /\ cache[m] \div TTL + 1 <= now' \div TTL
        BY <3>1, <4>1, DivStep, DivMonotone
      <4>3. cards[m] < CardsBy(now)'
        BY <1>0, <2>1, <3>1, <3>3, <3>6, <4>2 DEF CardsBy
      <4> QED BY <1>0, <3>1, <3>4, <3>6, <4>3
    <3> QED BY <3>1, <3>5, <3>6
  <2> QED BY <1>3, <2>3, <2>4 DEF Elsewhere
<1> QED BY <1>1, <1>2, <1>3, NextCases

\* A message is written to the feed once in the lifetime of its verdict, as the
\* verdict is cached before the card is written (finishItem), and once more for
\* each restart that forgets it, unless two observers had the message past the gate
\* at once.
THEOREM CardOnce == Spec => []CardOncePerVerdict
<1>1. Typed /\ CardsBefore => CardOncePerVerdict
  BY CardsBounded, SubsetsOfMsgs DEF CardOncePerVerdict, CardsBy
<1> QED BY <1>1, InitCardsBefore, NextCardsBefore, AlwaysTyped, AlwaysAlone, PTL DEF Spec

=============================================================================
