----------------------------- MODULE NoticeProofs ------------------------------
(***************************************************************************)
(* Proofs about who is told of what happened.  InboxMonitor, for every     *)
(* number of monitor goroutines, handlers, entries, stops and failures;    *)
(* and, through an instance, LiveView, for every number of clients and     *)
(* changes and whatever room their channels have.                          *)
(***************************************************************************)
EXTENDS InboxMonitor, TLAPS

\* The labels of TypeOK.
Labels == {"off", "check", "latest", "mark", "seed", "seedsize",
           "cursor", "read", "deliver", "write", "fill", "rename", "sleep"}

-----------------------------------------------------------------------------
(* Types.                                                                   *)

LEMMA TypeInit == Init => TypeOK
BY InboxMonitorAssumption DEF Init, TypeOK, Scanners, Absent, Corrupt

LEMMA ConnectorType == TypeOK /\ Connector => TypeOK'
<1> SUFFICES ASSUME TypeOK, Connector PROVE TypeOK'
  OBVIOUS
<1> USE InboxMonitorAssumption DEF TypeOK, Corrupt
<1>1. PICK acts \in SUBSET {size + 1} : AppendRow(acts)
  BY DEF Connector
<1>2. actionable' \subseteq 1..size' /\ watched' \subseteq 1..size' /\ size' \in 0..MaxEntries
  BY <1>1 DEF AppendRow
<1>3. /\ cursor' \in Corrupt..size' /\ tmp' \in Corrupt..size' /\ delivered' \subseteq 1..size'
      /\ off' \in [Scanners -> 0..size'] /\ seen' \in [Scanners -> 0..size']
  BY <1>1 DEF Connector, AppendRow, managerVars, scanVars
<1> QED
  BY <1>2, <1>3 DEF Connector, managerVars, scanVars, fdVars

LEMMA TellType == ASSUME NEW h \in Handlers PROVE TypeOK /\ Tell(h) => TypeOK'
<1> SUFFICES ASSUME TypeOK, Tell(h) PROVE TypeOK'
  OBVIOUS
<1> USE InboxMonitorAssumption DEF TypeOK, Corrupt
<1>2. actionable' \subseteq 1..size' /\ watched' \subseteq 1..size' /\ size' \in 0..MaxEntries
  BY DEF Tell, AppendRow
<1>3. /\ cursor' \in Corrupt..size' /\ tmp' \in Corrupt..size' /\ delivered' \subseteq 1..size'
      /\ off' \in [Scanners -> 0..size'] /\ seen' \in [Scanners -> 0..size']
  BY DEF Tell, AppendRow, managerVars
<1>4. pc' \in [Scanners -> Labels]
  BY DEF Tell, Goto, Labels, Scanners
<1> QED
  BY <1>2, <1>3, <1>4 DEF Tell, managerVars, fdVars, Labels

LEMMA ManagerType ==
  ASSUME TypeOK, NEW r \in Runs, Start(r) \/ Exit(r) \/ Tick(r) PROVE TypeOK'
<1> USE InboxMonitorAssumption
     DEF TypeOK, Scanners, inboxVars, fileVars, fdVars, scanVars, managerVars, historyVars, Goto, Leave
<1>1. CASE Start(r)
  BY <1>1 DEF Start
<1>2. CASE Exit(r)
  BY <1>2 DEF Exit
<1>3. CASE Tick(r)
  BY <1>3 DEF Tick
<1> QED
  BY <1>1, <1>2, <1>3

LEMMA WorldType ==
  ASSUME TypeOK, Stop \/ Restart PROVE TypeOK'
<1> USE InboxMonitorAssumption
     DEF TypeOK, Scanners, inboxVars, fileVars, fdVars, scanVars, managerVars, historyVars
<1>1. CASE Stop
  <2>1. needed' \in BOOLEAN
    BY <1>1, Zenon DEF Stop
  <2>2. stops' \in 0..MaxStops
    BY <1>1 DEF Stop
  <2>3. cancelled' \subseteq Runs /\ current' \in Runs \cup {NoRun}
    BY <1>1 DEF Stop
  <2> QED
    BY <1>1, <2>1, <2>2, <2>3 DEF Stop
<1>2. CASE Restart
  BY <1>2 DEF Restart, Fault
<1> QED
  BY <1>1, <1>2

LEMMA SeedType ==
  ASSUME TypeOK, NEW r \in Runs, SeedCheck(r) \/ SeedSize(r) PROVE TypeOK'
<1> USE InboxMonitorAssumption
     DEF TypeOK, Scanners, inboxVars, fileVars, fdVars, managerVars, historyVars, Goto
<1>1. CASE SeedCheck(r)
  BY <1>1 DEF SeedCheck
<1>2. CASE SeedSize(r)
  BY <1>2 DEF SeedSize
<1> QED
  BY <1>1, <1>2

\* What a write over an older text can leave.
LEMMA FillLeaves ==
  ASSUME NEW s, FillCursor(s)
  PROVE  tmp' \in {tmp, seen[s], Corrupt} /\ cursor' \in {cursor, seen[s], Corrupt}
BY DEF FillCursor, Over

LEMMA ScanType == ASSUME TypeOK, NEW s \in Scanners, ScanStep(s) PROVE TypeOK'
<1> USE InboxMonitorAssumption
     DEF TypeOK, Corrupt, inboxVars, fileVars, managerVars, historyVars, fdVars, Goto, Leave, EndScan
<1>1. CASE ReadCursor(s)
  BY <1>1 DEF ReadCursor, Absent
<1>2. CASE ReadInbox(s)
  BY <1>2 DEF ReadInbox
<1>3. CASE Deliver(s)
  <2>1. delivered' \subseteq 1..size /\ faults' \in 0..MaxFaults /\ off' \in [Scanners -> 0..size]
    <3>1. Batch(s) \subseteq 1..size
      BY DEF Batch
    <3>2. delivered' \subseteq 1..size
      BY <1>3, <3>1 DEF Deliver, HandOver
    <3>3. faults' \in 0..MaxFaults
      BY <1>3 DEF Deliver, Fault
    <3>4. off' \in [Scanners -> 0..size]
      BY <1>3 DEF Deliver
    <3> QED
      BY <3>2, <3>3, <3>4
  <2>2. /\ pc' \in [Scanners -> Labels] /\ seen' \in [Scanners -> 0..size]
        /\ seeding' \subseteq Runs
    BY <1>3 DEF Deliver, Labels
  <2> QED
    BY <1>3, <2>1, <2>2 DEF Deliver, Labels
<1>4. CASE WriteCursor(s)
  BY <1>4 DEF WriteCursor, Fault
<1>5. CASE FillCursor(s)
  <2>1. seen[s] \in -2..size /\ -2 \in -2..size
    OBVIOUS
  <2>2. tmp' \in -2..size /\ cursor' \in -2..size
    BY <1>5, <2>1, FillLeaves
  <2> QED
    BY <1>5, <2>2 DEF FillCursor
<1>6. CASE RenameCursor(s)
  <2>1. tmp' \in Corrupt..size /\ cursor' \in Corrupt..size
    BY <1>6 DEF RenameCursor, Absent
  <2>2. fd' \in [Scanners -> {"none", "tmp", "cursor", "gone"}]
    BY <1>6 DEF RenameCursor
  <2>3. /\ pc' \in [Scanners -> Labels] /\ seeding' \subseteq Runs
        /\ seen' \in [Scanners -> 0..size] /\ off' \in [Scanners -> 0..size]
    BY <1>6 DEF RenameCursor, Labels
  <2> QED
    BY <1>6, <2>1, <2>2, <2>3 DEF RenameCursor, Labels
<1> QED
  BY <1>1, <1>2, <1>3, <1>4, <1>5, <1>6 DEF ScanStep

LEMMA NotifyType ==
  ASSUME TypeOK, NEW h \in Handlers, NotifyCheck(h) \/ NotifyLatest(h) \/ NotifyMark(h)
  PROVE TypeOK'
<1> USE InboxMonitorAssumption
     DEF TypeOK, Scanners, inboxVars, fileVars, managerVars, historyVars, fdVars, Goto
<1>1. CASE NotifyCheck(h)
  BY <1>1 DEF NotifyCheck
<1>2. CASE NotifyLatest(h)
  <2>1. delivered' \subseteq 1..size /\ faults' \in 0..MaxFaults
    <3>1. PICK e \in actionable : HandOver({e}) \/ UNCHANGED delivered
      BY <1>2 DEF NotifyLatest
    <3>2. delivered' \subseteq 1..size
      BY <3>1 DEF HandOver
    <3>3. faults' \in 0..MaxFaults
      BY <1>2 DEF NotifyLatest, Fault
    <3> QED
      BY <3>2, <3>3
  <2>2. pc' \in [Scanners -> Labels]
    BY <1>2 DEF NotifyLatest, Labels
  <2> QED
    BY <1>2, <2>1, <2>2 DEF NotifyLatest, Labels
<1>3. CASE NotifyMark(h)
  BY <1>3 DEF NotifyMark
<1> QED
  BY <1>1, <1>2, <1>3

LEMMA TypeStep == TypeOK /\ [Next]_vars => TypeOK'
<1> SUFFICES ASSUME TypeOK, [Next]_vars PROVE TypeOK'
  OBVIOUS
<1>1. CASE UNCHANGED vars
  BY <1>1 DEF TypeOK, vars, inboxVars, fileVars, fdVars, managerVars, scanVars, historyVars
<1>2. CASE Next
  BY <1>2, ConnectorType, TellType, ManagerType, WorldType, SeedType, ScanType, NotifyType
     DEF Next, RunStep, HandlerStep, Scanners
<1> QED
  BY <1>1, <1>2

\* The type invariant, for every value of the constants.
THEOREM TypeCorrect == Spec => []TypeOK
BY TypeInit, TypeStep, PTL DEF Spec

-----------------------------------------------------------------------------
(* Nothing is skipped.                                                      *)

\* Every watched actionable entry up to n was handed over.
Passed(n) == \A e \in watched \cap actionable : e <= n => e \in delivered

\* What makes NothingSkipped inductive: once an entry is watched nobody seeds
\* or marks any more, a scanner starts from an offset that was the cursor, one that
\* writes has handed over all it read, and so had whoever filled the temporary file.
ScanInv ==
    /\ watched # {} => Settled
    /\ Passed(cursor) /\ Passed(tmp)
    /\ \A s \in Scanners :
         /\ Passed(off[s])
         /\ pc[s] \in {"write", "fill"} => Passed(seen[s])

IInv == TypeOK /\ ScanInv

LEMMA ScanInit == Init => ScanInv
BY DEF Init, ScanInv, Passed

\* Nothing is behind the first entry, and nothing behind a cursor that does not parse.
LEMMA PassedZero == TypeOK => Passed(0) /\ Passed(Corrupt)
BY InboxMonitorAssumption DEF Passed, TypeOK, Corrupt

\* A row that is appended is behind every offset there is.
LEMMA AppendScan ==
  ASSUME IInv, NEW acts \in SUBSET {size + 1}, AppendRow(acts),
         UNCHANGED <<cursor, tmp, off, seen, delivered>>,
         \A s \in Scanners : pc'[s] = pc[s] \/ pc'[s] = "check"
  PROVE  ScanInv'
<1>1. ASSUME NEW n \in Corrupt..size, Passed(n)
      PROVE  \A e \in watched' \cap actionable' : e <= n => e \in delivered'
  <2>1. watched' \subseteq watched \cup {size + 1} /\ actionable' \subseteq actionable \cup {size + 1}
    BY DEF AppendRow
  <2>2. size + 1 > n /\ size + 1 \notin watched /\ size + 1 \notin actionable
    BY <1>1, InboxMonitorAssumption DEF IInv, TypeOK, Corrupt
  <2>3. \A e \in watched' \cap actionable' : e <= n => e \in watched \cap actionable
    BY <2>1, <2>2, <1>1, InboxMonitorAssumption DEF IInv, TypeOK, Corrupt
  <2> QED
    BY <1>1, <2>3 DEF Passed
<1>2. watched' # {} => Settled'
  <2>1. ASSUME watched' # {} PROVE Settled
    BY <2>1 DEF AppendRow, IInv, ScanInv
  <2> QED
    BY <2>1 DEF Settled
<1>3. \A e \in watched' \cap actionable' : e <= cursor' => e \in delivered'
  BY <1>1 DEF IInv, TypeOK, ScanInv
<1>4. \A e \in watched' \cap actionable' : e <= tmp' => e \in delivered'
  BY <1>1 DEF IInv, TypeOK, ScanInv
<1>5. ASSUME NEW s \in Scanners
      PROVE  /\ \A e \in watched' \cap actionable' : e <= off'[s] => e \in delivered'
             /\ pc'[s] \in {"write", "fill"} =>
                  \A e \in watched' \cap actionable' : e <= seen'[s] => e \in delivered'
  <2>1. off[s] \in Corrupt..size /\ seen[s] \in Corrupt..size
    BY InboxMonitorAssumption DEF IInv, TypeOK, Corrupt
  <2>2. off'[s] = off[s] /\ seen'[s] = seen[s]
    OBVIOUS
  <2> QED
    BY <1>1, <2>1, <2>2 DEF IInv, ScanInv
<1> QED
  BY <1>2, <1>3, <1>4, <1>5 DEF ScanInv, Passed

\* A step that appends and hands over nothing keeps ScanInv when it starts a scan at
\* the cursor, drops one, or seeds, marks or writes what is passed.
LEMMA KeepsScan ==
  ASSUME IInv, UNCHANGED <<watched, actionable, delivered>>,
         Passed(cursor'), Passed(tmp'), cursor # Absent => cursor' # Absent,
         \A s \in Scanners :
            /\ pc'[s] \in {"latest", "mark", "seedsize"} =>
                 pc[s] \in {"latest", "mark", "seedsize"} \/ cursor = Absent
            /\ Passed(off'[s])
            /\ pc'[s] \in {"write", "fill"} => Passed(seen'[s])
  PROVE  ScanInv'
<1>1. watched' # {} => Settled'
  BY DEF IInv, ScanInv, Settled
<1>2. \A n : Passed(n) => \A e \in watched' \cap actionable' : e <= n => e \in delivered'
  BY DEF Passed
<1> QED
  BY <1>1, <1>2 DEF ScanInv, Passed

\* So for a step that leaves both files alone as well.
LEMMA SameFiles ==
  ASSUME IInv, UNCHANGED <<cursor, tmp, watched, actionable, delivered>>,
         \A s \in Scanners :
            /\ pc'[s] \in {"latest", "mark", "seedsize"} =>
                 pc[s] \in {"latest", "mark", "seedsize"} \/ cursor = Absent
            /\ Passed(off'[s])
            /\ pc'[s] \in {"write", "fill"} => Passed(seen'[s])
  PROVE  ScanInv'
<1>1. Passed(cursor') /\ Passed(tmp')
  BY DEF IInv, ScanInv
<1> QED
  BY <1>1, KeepsScan

LEMMA ManagerScan ==
  ASSUME IInv, NEW r \in Runs, Start(r) \/ Exit(r) \/ Tick(r) PROVE ScanInv'
<1> USE PassedZero, SameFiles
     DEF TypeOK, Scanners, inboxVars, fileVars, fdVars, scanVars, managerVars, historyVars,
         Goto, Leave, IInv, ScanInv
<1>1. CASE Start(r)
  BY <1>1 DEF Start
<1>2. CASE Exit(r)
  BY <1>2 DEF Exit
<1>3. CASE Tick(r)
  BY <1>3 DEF Tick
<1> QED
  BY <1>1, <1>2, <1>3

LEMMA SeedScan ==
  ASSUME IInv, NEW r \in Runs, SeedCheck(r) \/ SeedSize(r) PROVE ScanInv'
<1>0. TypeOK /\ ScanInv /\ r \in Scanners /\ Passed(0)
  BY PassedZero DEF IInv, Scanners
<1> USE <1>0 DEF inboxVars, fileVars, fdVars, managerVars, historyVars, Goto
<1>1. CASE SeedCheck(r)
  BY <1>1, SameFiles DEF SeedCheck, TypeOK, ScanInv
<1>2. CASE SeedSize(r)
  <2>1. watched = {}
    BY <1>2 DEF SeedSize, ScanInv, Settled
  <2>2. Passed(seen'[r])
    BY <2>1 DEF Passed
  <2> QED
    BY <1>2, <2>2, SameFiles DEF SeedSize, TypeOK, ScanInv
<1> QED
  BY <1>1, <1>2

LEMMA WorldScan == ASSUME IInv, Stop \/ Restart PROVE ScanInv'
<1> USE PassedZero, SameFiles
     DEF inboxVars, fileVars, fdVars, scanVars, managerVars, historyVars, IInv, ScanInv
<1>1. CASE Stop
  BY <1>1 DEF Stop
<1>2. CASE Restart
  BY <1>2 DEF Restart
<1> QED
  BY <1>1, <1>2

\* A hand-over passes what was passed, and the batch.
LEMMA HandOverPasses ==
  ASSUME UNCHANGED <<watched, actionable>>, NEW batch, HandOver(batch),
         NEW n, NEW m, Passed(m),
         \A e \in watched \cap actionable : e <= n => e <= m \/ e \in batch
  PROVE  \A e \in watched' \cap actionable' : e <= n => e \in delivered'
BY DEF HandOver, Passed

LEMMA DeliverScan == ASSUME IInv, NEW s \in Scanners, Deliver(s) PROVE ScanInv'
<1>0. TypeOK /\ ScanInv /\ Passed(0)
  BY PassedZero DEF IInv
<1> USE <1>0 DEF inboxVars, fileVars, fdVars, managerVars, historyVars, Goto
<1>1. CASE HandOver(Batch(s)) /\ Goto(s, "write") /\ off' = [off EXCEPT ![s] = 0]
           /\ UNCHANGED seen
  <2>1. /\ UNCHANGED <<cursor, tmp, watched, actionable, seen, size>>
        /\ pc' = [pc EXCEPT ![s] = "write"] /\ off' = [off EXCEPT ![s] = 0]
    BY <1>1 DEF Deliver
  <2>2. ASSUME NEW n, Passed(n) PROVE \A e \in watched' \cap actionable' : e <= n => e \in delivered'
    BY <1>1, <2>1, <2>2, HandOverPasses
  <2>3. \A e \in watched' \cap actionable' : e <= seen[s] => e \in delivered'
    <3>1. \A e \in watched \cap actionable : e <= seen[s] => e <= off[s] \/ e \in Batch(s)
      BY DEF TypeOK, Batch
    <3>2. Passed(off[s])
      BY DEF ScanInv
    <3> QED
      BY <1>1, <2>1, <3>1, <3>2, HandOverPasses
  <2>4. watched' # {} => Settled'
    BY <2>1 DEF ScanInv, Settled, TypeOK
  <2>5. /\ \A e \in watched' \cap actionable' : e <= cursor' => e \in delivered'
        /\ \A e \in watched' \cap actionable' : e <= tmp' => e \in delivered'
    BY <2>1, <2>2 DEF ScanInv
  <2>6. ASSUME NEW t \in Scanners
        PROVE /\ \A e \in watched' \cap actionable' : e <= off'[t] => e \in delivered'
              /\ pc'[t] \in {"write", "fill"} =>
                   \A e \in watched' \cap actionable' : e <= seen'[t] => e \in delivered'
    <3>1. off'[t] = off[t] \/ off'[t] = 0
      BY <2>1 DEF TypeOK
    <3>2. \A e \in watched' \cap actionable' : e <= off'[t] => e \in delivered'
      BY <3>1, <2>2 DEF ScanInv
    <3>3. ASSUME pc'[t] \in {"write", "fill"}
          PROVE  \A e \in watched' \cap actionable' : e <= seen'[t] => e \in delivered'
      <4>1. CASE t = s
        BY <2>1, <2>3, <4>1
      <4>2. CASE t # s
        <5>1. pc[t] \in {"write", "fill"}
          BY <2>1, <3>3, <4>2 DEF TypeOK
        <5> QED
          BY <2>1, <2>2, <5>1 DEF ScanInv
      <4> QED
        BY <4>1, <4>2
    <3> QED
      BY <3>2, <3>3
  <2> QED
    BY <2>4, <2>5, <2>6 DEF ScanInv, Passed
<1>2. CASE EndScan(s) /\ UNCHANGED delivered
  BY <1>2, SameFiles DEF Deliver, EndScan, Leave, TypeOK, ScanInv
<1> QED
  BY <1>1, <1>2 DEF Deliver

LEMMA WriteScan ==
  ASSUME IInv, NEW s \in Scanners, WriteCursor(s) \/ FillCursor(s) \/ RenameCursor(s)
  PROVE  ScanInv'
<1>0. /\ TypeOK /\ ScanInv /\ Passed(0) /\ Passed(Corrupt) /\ Passed(cursor) /\ Passed(tmp)
      /\ \A t \in Scanners : Passed(off[t])
  BY PassedZero DEF IInv, ScanInv
<1> USE <1>0 DEF inboxVars, fileVars, fdVars, managerVars, historyVars, Goto, Leave, EndScan
<1>1. CASE WriteCursor(s)
  <2>1. /\ UNCHANGED <<cursor, watched, actionable, delivered>>
        /\ tmp' = 0 \/ tmp' = tmp
        /\ \A t \in Scanners :
             /\ off'[t] \in {off[t], 0}
             /\ pc'[t] \in {"latest", "mark", "seedsize"} => pc[t] \in {"latest", "mark", "seedsize"}
             /\ pc'[t] \in {"write", "fill"} => pc[t] \in {"write", "fill"} /\ seen'[t] = seen[t]
    BY <1>1 DEF WriteCursor, TypeOK
  <2> QED
    BY <2>1, KeepsScan DEF ScanInv
<1>2. CASE FillCursor(s)
  <2>1. Passed(seen[s]) /\ seen[s] \in 0..size
    BY <1>2 DEF FillCursor, ScanInv, TypeOK
  <2>2. tmp' \in {tmp, seen[s], Corrupt} /\ cursor' \in {cursor, seen[s], Corrupt}
    BY <1>2, FillLeaves
  <2>3. Passed(tmp') /\ Passed(cursor')
    BY <2>1, <2>2
  <2>4. cursor # Absent => cursor' # Absent
    BY <2>1, <2>2 DEF Absent, Corrupt
  <2>5. /\ UNCHANGED <<watched, actionable, delivered>>
        /\ \A t \in Scanners :
             /\ off'[t] \in {off[t], 0}
             /\ pc'[t] \in {"latest", "mark", "seedsize"} => pc[t] \in {"latest", "mark", "seedsize"}
             /\ pc'[t] \in {"write", "fill"} => pc[t] \in {"write", "fill"} /\ seen'[t] = seen[t]
    BY <1>2 DEF FillCursor, TypeOK
  <2> QED
    BY <2>3, <2>4, <2>5, KeepsScan DEF ScanInv
<1>3. CASE RenameCursor(s)
  <2>1. Passed(tmp') /\ Passed(cursor')
    BY <1>3 DEF RenameCursor, Passed, Absent, TypeOK
  <2>2. cursor # Absent => cursor' # Absent
    BY <1>3 DEF RenameCursor
  <2>3. /\ UNCHANGED <<watched, actionable, delivered>>
        /\ \A t \in Scanners :
             /\ off'[t] \in {off[t], 0}
             /\ pc'[t] \in {"latest", "mark", "seedsize"} => pc[t] \in {"latest", "mark", "seedsize"}
             /\ pc'[t] \in {"write", "fill"} => pc[t] \in {"write", "fill"} /\ seen'[t] = seen[t]
    BY <1>3 DEF RenameCursor, TypeOK
  <2> QED
    BY <2>1, <2>2, <2>3, KeepsScan DEF ScanInv
<1> QED
  BY <1>1, <1>2, <1>3

LEMMA ScanScan == ASSUME IInv, NEW s \in Scanners, ScanStep(s) PROVE ScanInv'
<1>0. TypeOK /\ ScanInv /\ Passed(0)
  BY PassedZero DEF IInv
<1> USE <1>0 DEF inboxVars, fileVars, fdVars, managerVars, historyVars, Goto, Leave, EndScan
<1>1. CASE ReadCursor(s)
  BY <1>1, SameFiles DEF ReadCursor, TypeOK, ScanInv
<1>2. CASE ReadInbox(s)
  <2>1. CASE size = 0
    BY <1>2, <2>1, SameFiles DEF ReadInbox, TypeOK, ScanInv
  <2>2. CASE size # 0
    <3>1. /\ seen' = [seen EXCEPT ![s] = size]
          /\ pc' = [pc EXCEPT ![s] = IF (off[s] + 1)..size \cap actionable = {} THEN "write" ELSE "deliver"]
          /\ off' = [off EXCEPT ![s] = 0] \/ off' = off
          /\ UNCHANGED <<cursor, tmp, watched, actionable, delivered>>
      BY <1>2, <2>2 DEF ReadInbox
    <3>2. ASSUME (off[s] + 1)..size \cap actionable = {} PROVE Passed(size)
      <4>1. ASSUME NEW e \in actionable PROVE e <= off[s]
        BY <3>2, <4>1 DEF TypeOK
      <4> QED
        BY <4>1 DEF ScanInv, Passed
    <3>3. ASSUME NEW t \in Scanners
          PROVE /\ pc'[t] \in {"latest", "mark", "seedsize"} => pc[t] \in {"latest", "mark", "seedsize"}
                /\ Passed(off'[t])
                /\ pc'[t] \in {"write", "fill"} => Passed(seen'[t])
      BY <3>1, <3>2 DEF TypeOK, ScanInv
    <3> QED
      BY <3>1, <3>3, SameFiles
  <2> QED
    BY <2>1, <2>2
<1> QED
  BY <1>1, <1>2, DeliverScan, WriteScan DEF ScanStep

LEMMA NotifyScan ==
  ASSUME IInv, NEW h \in Handlers, NotifyCheck(h) \/ NotifyLatest(h) \/ NotifyMark(h)
  PROVE  ScanInv'
<1>0. TypeOK /\ ScanInv /\ h \in Scanners
  BY DEF IInv, Scanners
<1> USE <1>0 DEF inboxVars, fileVars, fdVars, managerVars, historyVars, Goto
<1>1. CASE NotifyCheck(h)
  BY <1>1, SameFiles DEF NotifyCheck, TypeOK, ScanInv
<1>2. ASSUME pc[h] \in {"latest", "mark"} PROVE watched = {}
  BY <1>2 DEF ScanInv, Settled
<1>3. CASE NotifyLatest(h) \/ NotifyMark(h)
  <2>1. watched' = {}
    BY <1>2, <1>3 DEF NotifyLatest, NotifyMark
  <2> QED
    BY <2>1 DEF ScanInv, Passed
<1> QED
  BY <1>1, <1>3

LEMMA ScanInvStep == IInv /\ [Next]_vars => ScanInv'
<1> SUFFICES ASSUME IInv, [Next]_vars PROVE ScanInv'
  OBVIOUS
<1>1. CASE UNCHANGED vars
  BY <1>1 DEF IInv, ScanInv, Passed, Settled, vars, inboxVars, fileVars, managerVars, scanVars, historyVars
<1>2. CASE Connector
  <2>1. PICK acts \in SUBSET {size + 1} : AppendRow(acts)
    BY <1>2 DEF Connector
  <2> QED
    BY <1>2, <2>1, AppendScan DEF Connector, scanVars
<1>3. ASSUME NEW h \in Handlers, Tell(h) PROVE ScanInv'
  <2>1. AppendRow({size + 1}) /\ UNCHANGED <<cursor, tmp, off, seen, delivered>> /\ pc' = [pc EXCEPT ![h] = "check"]
    BY <1>3 DEF Tell, Goto
  <2>2. \A s \in Scanners : pc'[s] = pc[s] \/ pc'[s] = "check"
    BY <2>1 DEF IInv, TypeOK
  <2> QED
    BY <2>1, <2>2, AppendScan
<1>4. ASSUME NEW h \in Handlers, HandlerStep(h) PROVE ScanInv'
  BY <1>4, ScanScan, NotifyScan DEF HandlerStep, Scanners
<1>5. ASSUME NEW r \in Runs, Start(r) \/ RunStep(r) PROVE ScanInv'
  BY <1>5, ManagerScan, SeedScan, ScanScan DEF RunStep, Scanners
<1> QED
  BY <1>1, <1>2, <1>3, <1>4, <1>5, WorldScan DEF Next

\* The cursor never passes an actionable entry, appended to a settled cursor,
\* that was not handed over, whatever goroutines and handlers overlap.
THEOREM NothingIsSkipped == Spec => []NothingSkipped
<1>1. Init => IInv
  BY TypeInit, ScanInit DEF IInv
<1>2. IInv /\ [Next]_vars => IInv'
  BY TypeStep, ScanInvStep DEF IInv
<1>3. IInv => NothingSkipped
  BY DEF IInv, ScanInv, Passed, NothingSkipped
<1> QED
  BY <1>1, <1>2, <1>3, PTL DEF Spec

-----------------------------------------------------------------------------
(* InboxMonitor implements the abstract cursor of CursorLog.                *)

\* What a step may do to the inbox, its cursor and the history: append a row, hand over
\* entries that are there, or write the cursor.
Appends == \E acts \in SUBSET {size + 1} : AppendRow(acts) /\ UNCHANGED <<cursor, delivered>>
HandsOver == \E batch \in SUBSET (1..size) : HandOver(batch) /\ UNCHANGED <<fileVars, watched>>
MovesCursor == UNCHANGED <<size, actionable, delivered, watched>>

LEMMA StepLogs ==
  ASSUME IInv, [Next]_vars PROVE Appends \/ HandsOver \/ MovesCursor
<1> USE DEF inboxVars, fileVars, historyVars
<1>1. ASSUME Connector \/ \E h \in Handlers : Tell(h) PROVE Appends
  <2>1. CASE Connector
    BY <2>1 DEF Connector, Appends
  <2>2. ASSUME NEW h \in Handlers, Tell(h) PROVE Appends
    BY <2>2 DEF Tell, Appends
  <2> QED BY <1>1, <2>1, <2>2
<1>2. ASSUME NEW s \in Scanners, ScanStep(s) PROVE HandsOver \/ MovesCursor
  <2>1. CASE Deliver(s)
    <3>1. Batch(s) \in SUBSET (1..size)
      BY DEF Batch, IInv, TypeOK
    <3> QED BY <2>1, <3>1 DEF Deliver, HandsOver, MovesCursor
  <2>2. CASE ReadCursor(s) \/ ReadInbox(s)
    BY <2>2 DEF ReadCursor, ReadInbox, MovesCursor
  <2>3. CASE WriteCursor(s) \/ FillCursor(s) \/ RenameCursor(s)
    BY <2>3 DEF WriteCursor, FillCursor, RenameCursor, MovesCursor
  <2> QED BY <1>2, <2>1, <2>2, <2>3 DEF ScanStep
<1>3. ASSUME NEW h \in Handlers, HandlerStep(h) PROVE HandsOver \/ MovesCursor
  <2>1. CASE NotifyLatest(h)
    <3>1. PICK e \in actionable : HandOver({e}) \/ UNCHANGED delivered
      BY <2>1 DEF NotifyLatest
    <3>2. {e} \in SUBSET (1..size)
      BY DEF IInv, TypeOK
    <3> QED BY <2>1, <3>1, <3>2 DEF NotifyLatest, HandsOver, MovesCursor
  <2>2. CASE NotifyCheck(h) \/ NotifyMark(h)
    BY <2>2 DEF NotifyCheck, NotifyMark, MovesCursor
  <2> QED BY <1>2, <1>3, <2>1, <2>2 DEF HandlerStep, Scanners
<1>4. ASSUME NEW r \in Runs, Start(r) \/ RunStep(r) PROVE HandsOver \/ MovesCursor
  <2>1. CASE Start(r) \/ SeedCheck(r) \/ SeedSize(r) \/ Tick(r) \/ Exit(r)
    BY <2>1 DEF Start, SeedCheck, SeedSize, Tick, Exit, MovesCursor
  <2> QED BY <1>2, <1>4, <2>1 DEF RunStep, Scanners
<1>5. CASE Stop \/ Restart \/ UNCHANGED vars
  BY <1>5 DEF Stop, Restart, vars, MovesCursor
<1> QED BY <1>1, <1>3, <1>4, <1>5 DEF Next

LEMMA StepImplements ==
  ASSUME IInv, IInv', [Next]_vars
  PROVE  Log!Next \/ UNCHANGED Log!vars
<1>0. /\ size \in Nat /\ watched \subseteq 1..size /\ actionable \subseteq 1..size
      /\ delivered \subseteq 1..size /\ delivered' \subseteq 1..size' /\ cursor' \in Corrupt..size'
  BY InboxMonitorAssumption DEF IInv, TypeOK
<1>1. CASE Appends
  <2>1. size' = size + 1 /\ UNCHANGED <<cursor, delivered>>
    BY <1>1 DEF Appends, AppendRow
  <2>2. watched' \cap actionable' \in {watched \cap actionable, (watched \cap actionable) \cup {size + 1}}
    <3>1. size + 1 \notin watched /\ size + 1 \notin actionable
      BY <1>0
    <3>2. watched' \in {watched, watched \cup {size + 1}} /\ actionable' \in {actionable, actionable \cup {size + 1}}
      BY <1>1 DEF Appends, AppendRow
    <3> QED BY <3>1, <3>2
  <2>3. Log!Append
    BY <2>1, <2>2 DEF Log!Append
  <2> QED BY <2>3 DEF Log!Next
<1>2. CASE HandsOver
  <2>1. UNCHANGED <<size, actionable, cursor, watched>> /\ delivered \subseteq delivered'
    BY <1>2 DEF HandsOver, HandOver, inboxVars, fileVars
  <2>2. Log!Settle
    BY <1>0, <2>1 DEF Log!Settle
  <2> QED BY <2>2 DEF Log!Next
<1>3. CASE MovesCursor
  <2>1. \A e \in watched' \cap actionable' : e <= cursor' => e \in delivered'
    BY DEF IInv, ScanInv, Passed
  <2>2. UNCHANGED <<size, actionable, delivered, watched>>
    BY <1>3 DEF MovesCursor
  <2> DEFINE to == IF cursor' < 0 THEN 0 ELSE cursor'
  <2>3. to \in 0..size
    BY <1>0, <2>2 DEF Corrupt
  <2>4. \A e \in watched \cap actionable : e <= to => e \in delivered
    <3> SUFFICES ASSUME NEW e \in watched \cap actionable, e <= to PROVE e \in delivered
      BY <2>2
    <3>1. e \in Nat \ {0}
      BY <1>0
    <3>2. e <= cursor'
      BY <3>1, <1>0, <2>2 DEF Corrupt
    <3> QED BY <2>1, <2>2, <3>2
  <2>5. Log!Move
    BY <2>2, <2>3, <2>4 DEF Log!Move
  <2> QED BY <2>5 DEF Log!Next
<1> QED BY <1>1, <1>2, <1>3, StepLogs

\* The monitors, the handlers and the cursor file they share implement CursorLog: an
\* entry that is due is due for good, whoever handed an entry over cannot take it back,
\* and the cursor is moved anywhere but past what is due and was not handed over.
THEOREM InboxIsLog == Spec => ImplementsLog
<1>1. Init => IInv /\ Log!Init
  <2>1. Init => IInv
    BY TypeInit, ScanInit DEF IInv
  <2>2. Init => Log!Init
    BY InboxMonitorAssumption DEF Init, Log!Init, Absent
  <2> QED BY <2>1, <2>2
<1>2. IInv /\ [Next]_vars => IInv'
  BY TypeStep, ScanInvStep DEF IInv
<1>3. IInv /\ IInv' /\ [Next]_vars => [Log!Next]_(Log!vars)
  BY StepImplements
<1> QED BY <1>1, <1>2, <1>3, PTL DEF Spec, ImplementsLog, Log!Spec

-----------------------------------------------------------------------------
(* The map entry and the goroutine.                                         *)

\* A step that leaves the manager's map alone and starts and ends no goroutine.
Works ==
    /\ UNCHANGED <<current, cancelled>>
    /\ \A r \in Runs : pc'[r] = "off" <=> pc[r] = "off"

\* A scan, its end included, leaves the goroutine where it can scan again.
LEMMA ScanWorks == ASSUME TypeOK, NEW s \in Scanners, ScanStep(s) PROVE Works
<1>t. pc \in [Scanners -> Labels] /\ Runs \subseteq Scanners
  BY DEF TypeOK, Labels, Scanners
<1>h. \A h \in Handlers : h \notin Runs
  BY InboxMonitorAssumption
<1> USE DEF Goto, Leave, EndScan, managerVars
<1>1. CASE ReadCursor(s) BY <1>1, <1>t, <1>h DEF ReadCursor, Works
<1>2. CASE ReadInbox(s) BY <1>2, <1>t, <1>h DEF ReadInbox, Works
<1>3. CASE Deliver(s) BY <1>3, <1>t, <1>h DEF Deliver, Works
<1>4. CASE WriteCursor(s) BY <1>4, <1>t, <1>h DEF WriteCursor, Works
<1>5. CASE FillCursor(s) BY <1>5, <1>t, <1>h DEF FillCursor, Works
<1>6. CASE RenameCursor(s) BY <1>6, <1>t, <1>h DEF RenameCursor, Works
<1> QED BY <1>1, <1>2, <1>3, <1>4, <1>5, <1>6 DEF ScanStep

\* Nor do the seeding of the cursor, the ticker, the handlers and the writers.
LEMMA SeedWorks ==
    ASSUME TypeOK, NEW r \in Runs, SeedCheck(r) \/ SeedSize(r) \/ Tick(r)
    PROVE  Works
<1>t. pc \in [Scanners -> Labels] /\ Runs \subseteq Scanners
  BY DEF TypeOK, Labels, Scanners
<1> QED BY <1>t DEF SeedCheck, SeedSize, Tick, Goto, managerVars, Works

LEMMA HandlerWorks ==
    ASSUME TypeOK, NEW h \in Handlers,
           Tell(h) \/ NotifyCheck(h) \/ NotifyLatest(h) \/ NotifyMark(h)
    PROVE  Works
<1>t. pc \in [Scanners -> Labels] /\ \A r \in Runs : r \in Scanners /\ r # h
  BY InboxMonitorAssumption DEF TypeOK, Labels, Scanners
<1> QED
  BY <1>t DEF Tell, NotifyCheck, NotifyLatest, NotifyMark, Goto, managerVars, Works

LEMMA OneMonitorStep == TypeOK /\ OneMonitor /\ [Next]_vars => OneMonitor'
<1> SUFFICES ASSUME TypeOK, OneMonitor, [Next]_vars PROVE OneMonitor'
  OBVIOUS
<1>t. /\ pc \in [Scanners -> Labels] /\ Runs \subseteq Scanners
      /\ current \in Runs \cup {NoRun} /\ cancelled \subseteq Runs /\ NoRun \notin Runs
  BY InboxMonitorAssumption DEF TypeOK, Labels, Scanners
<1>w. Works => OneMonitor'
  BY <1>t DEF Works, OneMonitor
<1>1. ASSUME NEW r \in Runs, Start(r) PROVE OneMonitor'
  <2>1. /\ current = NoRun /\ current' = r /\ cancelled' = cancelled
        /\ pc[r] = "off" /\ pc' = [pc EXCEPT ![r] = "seed"]
    BY <1>1 DEF Start, Goto
  <2>2. r \notin cancelled
    BY <2>1 DEF OneMonitor
  <2> QED BY <1>t, <2>1, <2>2 DEF OneMonitor
<1>2. CASE Stop
  BY <1>t, <1>2 DEF Stop, scanVars, OneMonitor
<1>3. ASSUME NEW r \in Runs, Exit(r) PROVE OneMonitor'
  <2>1. /\ r \in cancelled /\ cancelled' = cancelled \ {r}
        /\ pc' = [pc EXCEPT ![r] = "off"]
        /\ current' = IF current = r THEN NoRun ELSE current
    BY <1>3 DEF Exit, Leave, Goto
  <2>2. current # r
    BY <2>1 DEF OneMonitor
  <2> QED BY <1>t, <2>1, <2>2 DEF OneMonitor
<1>4. CASE Restart
  BY <1>t, <1>4 DEF Restart, OneMonitor
<1>5. ASSUME NEW s \in Scanners, ScanStep(s) PROVE OneMonitor'
  BY <1>5, <1>w, ScanWorks
<1>6. ASSUME NEW r \in Runs, SeedCheck(r) \/ SeedSize(r) \/ Tick(r)
      PROVE  OneMonitor'
  BY <1>6, <1>w, SeedWorks
<1>7. ASSUME NEW h \in Handlers, Tell(h) \/ NotifyCheck(h) \/ NotifyLatest(h) \/ NotifyMark(h)
      PROVE  OneMonitor'
  BY <1>7, <1>w, HandlerWorks
<1>8. CASE Connector
  BY <1>8, <1>w DEF Connector, managerVars, scanVars, Works
<1>9. CASE UNCHANGED vars
  BY <1>9, <1>w DEF vars, managerVars, scanVars, Works
<1> QED
  BY <1>1, <1>2, <1>3, <1>4, <1>5, <1>6, <1>7, <1>8, <1>9
     DEF Next, RunStep, HandlerStep, Scanners

\* For any generations, handlers, stops, failures and restarts: the task's entry in
\* the manager's map belongs to the one goroutine that runs and is not cancelled, so
\* that a task without one can be given one (inboxMonitorManager.start and stop):
\* OneMonitor.
THEOREM EntryIsAlive == Spec => []OneMonitor
<1>1. Init => OneMonitor
  BY InboxMonitorAssumption DEF Init, OneMonitor, Scanners
<1> QED BY <1>1, OneMonitorStep, TypeCorrect, PTL DEF Spec

-----------------------------------------------------------------------------
(* LiveView, as V: its constants, its variables, its assumption as a        *)
(* hypothesis.                                                              *)

CONSTANTS Streams, Pages, Buf, MaxChanges

VARIABLES world, unseen, pub, cl, snap, build, lost

V == INSTANCE LiveView

\* A copy of the subscribers stays a copy while it is sent out, and nobody who is
\* still in it is forgotten.
LEMMA SendingTyped ==
    ASSUME NEW r \in V!Pubs
    PROVE  /\ V!Sending(r) \in V!Pubs /\ V!Sending(r).rest = r.rest
           /\ r.rest # {} => V!Sending(r) = r
  BY DEF V!Sending, V!Silent, V!Pubs

\* The server's part of the types and the clients' part.
PubTyped ==
    /\ pub \in [V!Publishers -> V!Pubs]
    /\ \A p \in V!Publishers : /\ pub[p].rest \subseteq V!Open
                               /\ pub[p].rest # {} => pub[p].pc = "sending"
ClTyped ==
    /\ cl \in [V!Clients -> V!Screens]
    /\ \A c \in V!Clients : cl[c].queue + cl[c].aside <= Buf
    /\ \A c \in V!Clients \ V!Open : cl[c].queue = 0

\* What the invariant says of one subscriber.
Told(c) == \A v \in V!Behind(c) : v \in lost[c] \/ V!Noticed(c)

\* A step of one client's that leaves it subscribed if it was keeps the types of the
\* publishers and of the clients.
LEMMA ClientStepTyped ==
    ASSUME V!TypeOK, NEW c \in V!Clients, NEW r \in V!Screens, V!Is(c, r),
           c \in V!Open => r.pc \in {"loop", "build"},
           r.pc \in {"loop", "build"} \/ r.queue = 0,
           r.queue + r.aside <= Buf,
           pub' = pub
    PROVE  PubTyped' /\ ClTyped'
<1>1. cl' = [cl EXCEPT ![c] = r] /\ cl \in [V!Clients -> V!Screens]
  BY DEF V!Is, V!TypeOK
<1>2. /\ cl' \in [V!Clients -> V!Screens] /\ cl'[c] = r
      /\ \A d \in V!Clients \ {c} : cl'[d] = cl[d]
  BY <1>1
<1>3. \A d \in V!Clients \ {c} : d \in V!Open' <=> d \in V!Open
  BY <1>2 DEF V!Open, V!Clients
<1>4. c \in V!Open' <=> r.pc \in {"loop", "build"}
  BY <1>2 DEF V!Open, V!Clients
<1>5. V!Open \subseteq V!Open'
  BY <1>3, <1>4 DEF V!Open
<1>6. ClTyped'
  <2>1. ASSUME NEW d \in V!Clients, d \notin V!Open' PROVE cl'[d].queue = 0
    BY <2>1, <1>2, <1>3, <1>4 DEF V!TypeOK
  <2>2. \A d \in V!Clients : cl'[d].queue + cl'[d].aside <= Buf
    BY <1>2 DEF V!TypeOK
  <2> QED BY <2>1, <2>2, <1>2 DEF ClTyped, V!Clients
<1>7. PubTyped'
  BY <1>5 DEF V!TypeOK, PubTyped, V!Publishers
<1> QED BY <1>6, <1>7

\* What a client is behind is a set of changes.
LEMMA BehindTyped ==
    ASSUME V!LiveViewAssumption, V!TypeOK, NEW c \in V!Clients
    PROVE  /\ V!Behind(c) \subseteq V!Changes
           /\ \A n \in 0..MaxChanges, m \in 0..MaxChanges : n + 1 .. m \subseteq V!Changes
<1>1. V!Knows(c) \in 0..MaxChanges /\ world \in 0..MaxChanges
  BY DEF V!TypeOK, V!Knows, V!Screens
<1> QED
  BY <1>1 DEF V!Behind, V!Changes, V!LiveViewAssumption

LEMMA ViewInitTyped == ASSUME V!LiveViewAssumption, V!Init PROVE V!TypeOK
<1>1. pub \in [V!Publishers -> V!Pubs] /\ \A p \in V!Publishers : pub[p].rest = {}
  BY DEF V!Init, V!Silent, V!Pubs
<1>2. /\ cl \in [V!Clients -> V!Screens]
      /\ \A c \in V!Clients : cl[c].queue = 0 /\ cl[c].queue + cl[c].aside <= Buf
  BY DEF V!Init, V!Away, V!Screens, V!LiveViewAssumption
<1>3. lost \in [V!Clients -> SUBSET V!Changes]
  BY DEF V!Init
<1>4. /\ world \in 0..MaxChanges /\ unseen \in BOOLEAN
      /\ snap \in 0..MaxChanges \cup {V!Failed} /\ build \in 0..world \cup {V!None}
  <2>1. world = 0 /\ snap = 0 /\ unseen = FALSE /\ build = V!None
    BY DEF V!Init
  <2>2. build \in 0..world \cup {V!None}
    BY <2>1
  <2>3. world \in 0..MaxChanges /\ snap \in 0..MaxChanges \cup {V!Failed}
    BY <2>1 DEF V!LiveViewAssumption
  <2> QED BY <2>1, <2>2, <2>3
<1> QED BY <1>1, <1>2, <1>3, <1>4 DEF V!TypeOK

\* The types of what the publishers and the clients do not hold.
RestTyped ==
    /\ world \in 0..MaxChanges /\ unseen \in BOOLEAN
    /\ snap \in 0..MaxChanges \cup {V!Failed}
    /\ build \in 0..world \cup {V!None}
    /\ lost \in [V!Clients -> SUBSET V!Changes]

LEMMA Joined == V!TypeOK <=> PubTyped /\ ClTyped /\ RestTyped
  BY DEF V!TypeOK, PubTyped, ClTyped, RestTyped

LEMMA ChangeTyped ==
    ASSUME V!LiveViewAssumption, V!TypeOK, V!handleAction \/ V!OtherProcess \/ V!FileEdit
    PROVE  V!TypeOK'
<1>0. world' = world + 1 /\ world' \in V!Changes /\ world' \in 0..MaxChanges
  BY DEF V!LiveViewAssumption, V!TypeOK, V!handleAction, V!OtherProcess, V!FileEdit, V!Change, V!Changes
<1>1. cl' = cl /\ snap' = snap /\ build' = build /\ unseen' \in BOOLEAN
  BY DEF V!handleAction, V!OtherProcess, V!FileEdit, V!cache, V!TypeOK
<1>2. build \in 0..world' \cup {V!None}
  BY <1>0 DEF V!TypeOK, V!None
<1>3. V!Open' = V!Open
  BY <1>1 DEF V!Open, V!Clients
<1>4. PubTyped'
  <2>1. CASE V!handleAction
    <3>1. PICK broad \in BOOLEAN :
              pub' = [pub EXCEPT !["handler"].pc = "due", !["handler"].broad = broad]
      BY <2>1 DEF V!handleAction
    <3>2. pub["handler"] \in V!Pubs /\ pub["handler"].rest = {} /\ pub["handler"].pc = "idle"
      BY <2>1 DEF V!handleAction, V!TypeOK, V!Publishers
    <3> DEFINE r == [pub["handler"] EXCEPT !.pc = "due", !.broad = broad]
    <3>3. r \in V!Pubs /\ r.rest = {}
      BY <3>2 DEF V!Pubs
    <3>4. pub' = [pub EXCEPT !["handler"] = r]
      BY <3>1 DEF V!TypeOK, V!Publishers
    <3> HIDE DEF r
    <3> QED BY <1>3, <3>3, <3>4 DEF V!TypeOK, PubTyped, V!Publishers
  <2>2. CASE pub' = pub
    BY <2>2, <1>3 DEF V!TypeOK, PubTyped, V!Publishers
  <2> QED BY <2>1, <2>2 DEF V!OtherProcess, V!FileEdit
<1>5. lost' \in [V!Clients -> SUBSET V!Changes]
  BY <1>0 DEF V!handleAction, V!OtherProcess, V!FileEdit, V!TypeOK
<1>6. ClTyped'
  BY <1>1, <1>3 DEF V!TypeOK, ClTyped, V!Clients
<1> QED BY <1>0, <1>1, <1>2, <1>4, <1>5, <1>6, Joined DEF V!TypeOK, RestTyped, PubTyped, ClTyped

LEMMA PublishTyped ==
    ASSUME V!TypeOK, NEW p \in V!Publishers, NEW broad \in BOOLEAN, V!publish(p, broad), cl' = cl
    PROVE  PubTyped'
<1> DEFINE r == [pub[p] EXCEPT !.pc = "sending", !.broad = broad, !.rest = V!Open]
<1>1. r \in V!Pubs /\ r.rest = V!Open /\ r.pc = "sending"
  <2>1. pub[p] \in V!Pubs
    BY DEF V!TypeOK
  <2>2. V!Open \subseteq V!Clients
    BY DEF V!Open
  <2> QED BY <2>1, <2>2 DEF V!Pubs
<1>2. /\ V!Sending(r) \in V!Pubs /\ V!Sending(r).rest = V!Open
      /\ V!Open # {} => V!Sending(r).pc = "sending"
  BY <1>1, SendingTyped
<1>3. pub' = [pub EXCEPT ![p] = V!Sending(r)]
  BY DEF V!publish
<1>4. V!Open' = V!Open
  BY DEF V!Open, V!Clients
<1> HIDE DEF r
<1> QED BY <1>2, <1>3, <1>4 DEF V!TypeOK, PubTyped, V!Publishers

\* What the hub puts into a channel that has room for it.
LEMMA QueuedTyped ==
    ASSUME V!LiveViewAssumption, V!TypeOK, NEW c \in V!Clients, NEW asks \in BOOLEAN
    PROVE  /\ V!Queued(c, asks) \in V!Screens
           /\ V!Queued(c, asks).queue + V!Queued(c, asks).aside <= Buf
           /\ V!Queued(c, asks).pc = cl[c].pc /\ V!Queued(c, asks).built = cl[c].built
           /\ V!Queued(c, asks).shown = cl[c].shown
           /\ V!Queued(c, asks).queue =
                IF V!Room(c) /\ asks THEN cl[c].queue + 1 ELSE cl[c].queue
<1>1. /\ cl[c] \in V!Screens /\ cl[c].queue + cl[c].aside <= Buf /\ Buf \in Nat
      /\ cl[c].queue \in Nat /\ cl[c].aside \in Nat
  BY DEF V!TypeOK, V!LiveViewAssumption, V!Screens
<1>2. CASE ~V!Room(c)
  BY <1>1, <1>2 DEF V!Queued
<1>3. CASE V!Room(c) /\ asks
  <2>1. V!Queued(c, asks) = [cl[c] EXCEPT !.queue = cl[c].queue + 1] BY <1>3 DEF V!Queued
  <2>2. cl[c].queue + 1 \in 0..Buf /\ cl[c].queue + 1 + cl[c].aside <= Buf
    BY <1>1, <1>3 DEF V!Room
  <2> QED BY <1>1, <1>3, <2>1, <2>2 DEF V!Screens
<1>4. CASE V!Room(c) /\ ~asks
  <2>1. V!Queued(c, asks) = [cl[c] EXCEPT !.aside = cl[c].aside + 1] BY <1>4 DEF V!Queued
  <2>2. cl[c].aside + 1 \in 0..Buf /\ cl[c].queue + (cl[c].aside + 1) <= Buf
    BY <1>1, <1>4 DEF V!Room
  <2> QED BY <1>1, <1>4, <2>1, <2>2 DEF V!Screens
<1> QED BY <1>2, <1>3, <1>4

\* The hub's steps, and a departure: they change the copies and one client's channel.
LEMMA HubTyped ==
    ASSUME V!LiveViewAssumption, V!TypeOK,
           \/ V!Watch \/ V!StageEvent \/ V!HandlerPublishes \/ V!SkipClosed \/ V!HandlerPanics
           \/ \E p \in V!Publishers : V!Send(p)
    PROVE  V!TypeOK'
<1>1. CASE V!Watch \/ V!StageEvent \/ V!HandlerPublishes
  <2>1. PICK p \in V!Publishers, broad \in BOOLEAN : V!publish(p, broad)
    <3>1. pub["handler"].broad \in BOOLEAN
      BY DEF V!TypeOK, V!Publishers, V!Pubs
    <3> QED BY <1>1, <3>1 DEF V!Watch, V!StageEvent, V!HandlerPublishes, V!Publishers
  <2>2. cl' = cl /\ UNCHANGED <<world, snap, build, lost>> /\ unseen' \in BOOLEAN
    BY <1>1 DEF V!Watch, V!StageEvent, V!HandlerPublishes, V!cache, V!TypeOK
  <2>3. V!Open' = V!Open
    BY <2>2 DEF V!Open, V!Clients
  <2>4. PubTyped'
    BY <2>1, <2>2, PublishTyped
  <2>5. ClTyped' /\ RestTyped'
    BY <2>2, <2>3, Joined DEF ClTyped, RestTyped, V!Clients, V!Changes, V!None, V!Failed
  <2> QED BY <2>4, <2>5, Joined DEF V!TypeOK, PubTyped, ClTyped, RestTyped
<1>2. CASE V!HandlerPanics
  <2>1. cl' = cl /\ UNCHANGED <<world, unseen, snap, build>>
    BY <1>2 DEF V!HandlerPanics, V!cache
  <2>2. V!Open' = V!Open
    BY <2>1 DEF V!Open, V!Clients
  <2>3. PubTyped'
    <3>1. V!Silent \in V!Pubs /\ V!Silent.rest = {}
      BY DEF V!Silent, V!Pubs
    <3>2. pub' = [pub EXCEPT !["handler"] = V!Silent]
      BY <1>2 DEF V!HandlerPanics
    <3> QED BY <2>2, <3>1, <3>2 DEF V!TypeOK, PubTyped, V!Publishers
  <2>4. lost' \in [V!Clients -> SUBSET V!Changes]
    <3>1. \A c \in V!Clients : V!Behind(c) \subseteq V!Changes
      BY BehindTyped
    <3> QED BY <1>2, <3>1 DEF V!HandlerPanics, V!TypeOK
  <2>5. ClTyped' /\ RestTyped'
    BY <2>1, <2>2, <2>4, Joined DEF ClTyped, RestTyped, V!Clients, V!Changes, V!None, V!Failed
  <2> QED BY <2>3, <2>5, Joined DEF V!TypeOK, PubTyped, ClTyped, RestTyped
<1>3. CASE V!SkipClosed
  <2> DEFINE p == "handler"
  <2>0. p \in V!Publishers
    BY DEF V!Publishers
  <2>1. PICK c \in pub[p].dead :
            pub' = [pub EXCEPT ![p] = V!Sending([pub[p] EXCEPT !.dead = @ \ {c}])]
    BY <1>3 DEF V!SkipClosed
  <2> HIDE DEF p
  <2>2. cl' = cl /\ UNCHANGED <<world, unseen, snap, build, lost>>
    BY <1>3 DEF V!SkipClosed, V!cache
  <2> DEFINE r == [pub[p] EXCEPT !.dead = @ \ {c}]
  <2>3. r \in V!Pubs /\ r.rest = pub[p].rest /\ r.pc = pub[p].pc
    BY <2>0 DEF V!TypeOK, V!Pubs
  <2>4. /\ V!Sending(r) \in V!Pubs /\ V!Sending(r).rest = pub[p].rest
        /\ pub[p].rest # {} => V!Sending(r).pc = pub[p].pc
    BY <2>3, SendingTyped
  <2>5. pub' = [pub EXCEPT ![p] = V!Sending(r)]
    BY <2>1
  <2>6. V!Open' = V!Open
    BY <2>2 DEF V!Open, V!Clients
  <2> HIDE DEF r
  <2>7. PubTyped'
    BY <2>0, <2>4, <2>5, <2>6 DEF V!TypeOK, PubTyped, V!Publishers
  <2>8. ClTyped' /\ RestTyped'
    BY <2>2, <2>6, Joined DEF ClTyped, RestTyped, V!Clients, V!Changes, V!None, V!Failed
  <2> QED BY <2>7, <2>8, Joined DEF V!TypeOK, PubTyped, ClTyped, RestTyped
<1>4. ASSUME NEW p \in V!Publishers, V!Send(p) PROVE V!TypeOK'
  <2>1. PICK c \in pub[p].rest :
            /\ pub' = [pub EXCEPT ![p] = V!Sending([pub[p] EXCEPT !.rest = @ \ {c}])]
            /\ V!Is(c, V!Queued(c, V!Asks(c, p)))
            /\ V!Untold(c, lost[c] \cup V!Behind(c)) \/ V!Untold(c, lost[c])
    BY <1>4 DEF V!Send
  <2>2. UNCHANGED <<world, unseen, snap, build>>
    BY <1>4 DEF V!Send, V!cache
  <2> DEFINE r == [pub[p] EXCEPT !.rest = @ \ {c}]
  <2>3. r \in V!Pubs /\ r.rest = pub[p].rest \ {c} /\ r.pc = pub[p].pc
    BY DEF V!TypeOK, V!Pubs
  <2>4. /\ V!Sending(r) \in V!Pubs /\ V!Sending(r).rest = pub[p].rest \ {c}
        /\ V!Sending(r).rest # {} => V!Sending(r).pc = pub[p].pc
    BY <2>3, SendingTyped
  <2>5. pub' = [pub EXCEPT ![p] = V!Sending(r)]
    BY <2>1
  <2> HIDE DEF r
  <2>6. c \in V!Clients /\ c \in V!Open
    BY DEF V!TypeOK, V!Open
  <2>7. /\ cl' \in [V!Clients -> V!Screens]
        /\ \A d \in V!Clients : cl'[d].pc = cl[d].pc /\ (d # c => cl'[d] = cl[d])
        /\ \A d \in V!Clients : cl'[d].queue + cl'[d].aside <= Buf
    <3> DEFINE q == V!Queued(c, V!Asks(c, p))
    <3>1. cl[c] \in V!Screens /\ cl[c].queue + cl[c].aside <= Buf
      BY <2>6 DEF V!TypeOK
    <3>2. q \in V!Screens /\ q.pc = cl[c].pc /\ q.queue + q.aside <= Buf
      <4>1. V!Asks(c, p) \in BOOLEAN
        BY DEF V!Asks, V!TypeOK, V!Pubs
      <4> QED BY <2>6, <3>1, <4>1, QueuedTyped
    <3>3. cl' = [cl EXCEPT ![c] = q]
      BY <2>1 DEF V!Is
    <3> HIDE DEF q
    <3> QED BY <2>6, <3>2, <3>3 DEF V!TypeOK
  <2>8. V!Open' = V!Open
    BY <2>7 DEF V!Open, V!Clients
  <2>9. PubTyped'
    BY <2>4, <2>5, <2>8 DEF V!TypeOK, PubTyped, V!Publishers
  <2>10. ClTyped'
    BY <2>6, <2>7, <2>8 DEF V!TypeOK, ClTyped, V!Clients
  <2>11. RestTyped'
    <3>1. lost' \in [V!Clients -> SUBSET V!Changes]
      BY <2>1, <2>6, BehindTyped DEF V!Untold, V!TypeOK
    <3> QED BY <2>2, <3>1, Joined DEF RestTyped, V!Clients, V!Changes, V!None, V!Failed
  <2> QED BY <2>9, <2>10, <2>11, Joined DEF V!TypeOK, PubTyped, ClTyped, RestTyped
<1> QED BY <1>1, <1>2, <1>3, <1>4

LEMMA CacheTyped ==
    ASSUME V!LiveViewAssumption, V!TypeOK, V!Poll \/ V!BuildStores
    PROVE  V!TypeOK'
<1>1. pub' = pub /\ cl' = cl /\ world' = world /\ unseen' = unseen /\ lost' = lost
  BY DEF V!Poll, V!BuildStores
<1>2. snap' \in 0..MaxChanges \cup {V!Failed} /\ build' \in 0..world \cup {V!None}
  <2>1. CASE V!Poll
    <3>1. snap' = snap /\ build' = world /\ world \in 0..MaxChanges
      BY <2>1 DEF V!Poll, V!Revalidate, V!TypeOK
    <3> QED BY <3>1 DEF V!TypeOK
  <2>2. CASE V!BuildStores
    <3>1. snap' \in {build, V!Failed} /\ build' = V!None /\ build # V!None
      BY <2>2 DEF V!BuildStores
    <3>2. build \in 0..world /\ world \in 0..MaxChanges
      BY <3>1 DEF V!TypeOK
    <3>3. build \in 0..MaxChanges
      BY <3>2 DEF V!LiveViewAssumption
    <3> QED BY <3>1, <3>3
  <2> QED BY <2>1, <2>2
<1>3. V!Open' = V!Open
  BY <1>1 DEF V!Open, V!Clients
<1>4. PubTyped' /\ ClTyped'
  BY <1>1, <1>3, Joined DEF PubTyped, ClTyped, V!Publishers, V!Clients
<1>5. RestTyped'
  BY <1>1, <1>2, Joined DEF RestTyped, V!Clients, V!Changes
<1> QED BY <1>4, <1>5, Joined DEF V!TypeOK, PubTyped, ClTyped, RestTyped

\* What is left of a client whose socket closes.
LEMMA ClosedTyped ==
    ASSUME V!LiveViewAssumption, V!TypeOK, NEW c \in V!Clients
    PROVE  /\ V!Closed(c) \in V!Screens /\ V!Closed(c).pc = "off"
           /\ V!Closed(c).queue = 0 /\ V!Closed(c).aside = 0 /\ V!Closed(c).built = 0
           /\ c \notin Pages => V!Closed(c).shown = 0
<1>1. cl[c].shown \in 0..MaxChanges /\ 0 \in 0..MaxChanges /\ 0 \in 0..Buf
  BY DEF V!TypeOK, V!Screens, V!LiveViewAssumption
<1>2. V!Closed(c) = [pc |-> "off", queue |-> 0, aside |-> 0, built |-> 0,
                     shown |-> IF c \in Pages THEN cl[c].shown ELSE 0]
  BY DEF V!Closed, V!Away
<1> QED BY <1>1, <1>2 DEF V!Screens

\* The publishers' copies without the client.
LEMMA LeavePubs ==
    ASSUME V!TypeOK, NEW c \in V!Clients, V!Leave(c)
    PROVE  /\ pub' \in [V!Publishers -> V!Pubs]
           /\ \A p \in V!Publishers :
                 /\ pub'[p].rest = pub[p].rest \ {c}
                 /\ pub[p].rest = {} => pub'[p] = pub[p]
                 /\ pub'[p].rest # {} => pub'[p].pc = pub[p].pc /\ pub'[p].broad = pub[p].broad
<1> DEFINE r(p) == [pub[p] EXCEPT !.rest = @ \ {c},
                                  !.dead = IF p = "handler" THEN @ \cup {c} ELSE @]
<1>1. pub' = [p \in V!Publishers |-> IF c \in pub[p].rest THEN V!Sending(r(p)) ELSE pub[p]]
  BY DEF V!Leave
<1>2. ASSUME NEW p \in V!Publishers
      PROVE  /\ pub'[p] \in V!Pubs /\ pub'[p].rest = pub[p].rest \ {c}
             /\ pub[p].rest = {} => pub'[p] = pub[p]
             /\ pub'[p].rest # {} => pub'[p].pc = pub[p].pc /\ pub'[p].broad = pub[p].broad
  <2>1. pub[p] \in V!Pubs BY DEF V!TypeOK
  <2>2. CASE c \in pub[p].rest
    <3>1. /\ r(p) \in V!Pubs /\ r(p).rest = pub[p].rest \ {c}
          /\ r(p).pc = pub[p].pc /\ r(p).broad = pub[p].broad
      BY <2>1 DEF V!Pubs
    <3>2. pub'[p] = V!Sending(r(p)) BY <1>1, <2>2
    <3> HIDE DEF r
    <3> QED BY <2>2, <3>1, <3>2, SendingTyped
  <2>3. CASE c \notin pub[p].rest
    <3>1. pub'[p] = pub[p] BY <1>1, <2>3
    <3> QED BY <2>1, <2>3, <3>1
  <2> QED BY <2>2, <2>3
<1> QED BY <1>1, <1>2

LEMMA LeaveTyped ==
    ASSUME V!LiveViewAssumption, V!TypeOK, NEW c \in V!Clients, V!Leave(c)
    PROVE  V!TypeOK'
<1>1. /\ pub' \in [V!Publishers -> V!Pubs]
      /\ \A p \in V!Publishers :
            /\ pub'[p].rest = pub[p].rest \ {c}
            /\ pub'[p].rest # {} => pub'[p].pc = pub[p].pc
  BY LeavePubs
<1>2. cl' = [cl EXCEPT ![c] = V!Closed(c)]
  BY DEF V!Leave, V!Is
<1>3. V!Closed(c) \in V!Screens /\ V!Closed(c).queue = 0 /\ V!Closed(c).aside = 0 /\ V!Closed(c).pc = "off"
  BY ClosedTyped
<1>4. cl' \in [V!Clients -> V!Screens] /\ cl'[c] = V!Closed(c) /\ \A d \in V!Clients \ {c} : cl'[d] = cl[d]
  BY <1>2, <1>3 DEF V!TypeOK
<1>5. V!Open' = V!Open \ {c}
  BY <1>3, <1>4 DEF V!Open, V!Clients
<1>6. PubTyped'
  BY <1>1, <1>5 DEF V!TypeOK, PubTyped, V!Publishers
<1>7. ClTyped'
  <2>1. \A d \in V!Clients : cl'[d].queue + cl'[d].aside <= Buf
    BY <1>3, <1>4 DEF V!TypeOK, V!LiveViewAssumption
  <2>2. \A d \in V!Clients \ V!Open' : cl'[d].queue = 0
    BY <1>3, <1>4, <1>5 DEF V!TypeOK
  <2> QED BY <1>4, <2>1, <2>2 DEF ClTyped, V!Clients
<1>8. RestTyped'
  <2>1. UNCHANGED <<world, unseen, snap, build>> /\ lost' = [lost EXCEPT ![c] = {}]
    BY DEF V!Leave, V!cache, V!Untold
  <2> QED BY <2>1, Joined DEF RestTyped, V!Clients, V!Changes
<1> QED BY <1>6, <1>7, <1>8, Joined DEF V!TypeOK, PubTyped, ClTyped, RestTyped

LEMMA RestartTyped == ASSUME V!LiveViewAssumption, V!TypeOK, V!Restart PROVE V!TypeOK'
<1>1. pub' \in [V!Publishers -> V!Pubs] /\ \A p \in V!Publishers : pub'[p].rest = {}
  BY DEF V!Restart, V!Silent, V!Pubs
<1>2. /\ cl' \in [V!Clients -> V!Screens]
      /\ \A c \in V!Clients : cl'[c].queue = 0 /\ cl'[c].queue + cl'[c].aside <= Buf
  <2>1. cl' = [c \in V!Clients |-> V!Closed(c)]
    BY DEF V!Restart
  <2>2. 0 + 0 <= Buf
    BY DEF V!LiveViewAssumption
  <2> QED BY <2>1, <2>2, ClosedTyped
<1>3. lost' \in [V!Clients -> SUBSET V!Changes]
  BY DEF V!Restart
<1>4. /\ world' \in 0..MaxChanges /\ unseen' \in BOOLEAN
      /\ snap' \in 0..MaxChanges \cup {V!Failed} /\ build' \in 0..world' \cup {V!None}
  BY DEF V!Restart, V!TypeOK
<1> QED BY <1>1, <1>2, <1>3, <1>4 DEF V!TypeOK, V!Publishers, V!Clients, V!Pubs, V!Screens, V!Changes

\* What changes when a client's goroutine or its page moves, with the types of what it
\* leaves behind.
LEMMA ClientStep ==
    ASSUME V!LiveViewAssumption, V!TypeOK, NEW c \in V!Clients, NEW r \in V!Screens, V!Is(c, r),
           c \in V!Open => r.pc \in {"loop", "build"},
           r.pc \in {"loop", "build"} \/ r.queue = 0,
           r.queue + r.aside <= Buf,
           UNCHANGED <<world, unseen, pub>>,
           snap' \in 0..MaxChanges \cup {V!Failed},
           build' \in 0..world \cup {V!None},
           NEW S \in SUBSET V!Changes, lost' = lost \/ V!Untold(c, S)
    PROVE  V!TypeOK'
<1>1. PubTyped' /\ ClTyped'
  BY ClientStepTyped
<1>2. lost' \in [V!Clients -> SUBSET V!Changes]
  BY DEF V!Untold, V!TypeOK
<1>3. RestTyped'
  BY <1>2, Joined DEF RestTyped, V!Clients, V!Changes
<1> QED BY <1>1, <1>3, Joined DEF V!TypeOK, PubTyped, ClTyped, RestTyped

\* The end of a build: what is shown and what is stored.
LEMMA ShowsTyped ==
    ASSUME V!LiveViewAssumption, V!TypeOK, NEW c \in V!Clients, V!Shows(c) \/ V!ShowsError(c)
    PROVE  \E r \in V!Screens :
               /\ V!Is(c, r) /\ r.pc = "loop"
               /\ r.queue = cl[c].queue /\ r.queue + r.aside <= Buf
               /\ r.shown \in {cl[c].shown, cl[c].built}
               /\ snap' \in 0..MaxChanges \cup {V!Failed}
               /\ cl'[c] = r
<1> DEFINE shown == [cl[c] EXCEPT !.pc = "loop", !.built = 0, !.shown = cl[c].built]
           error == [cl[c] EXCEPT !.pc = "loop", !.built = 0]
<1>0. cl[c] \in V!Screens /\ 0 \in 0..MaxChanges /\ cl[c].queue + cl[c].aside <= Buf
  BY DEF V!TypeOK, V!LiveViewAssumption
<1>1. shown \in V!Screens /\ error \in V!Screens
  BY <1>0 DEF V!Screens
<1>2. \A r : V!Is(c, r) => cl'[c] = r
  BY DEF V!Is, V!TypeOK
<1>3. CASE V!Shows(c)
  <2>1. V!Is(c, shown) /\ snap' = cl[c].built
    BY <1>3 DEF V!Shows
  <2>2. /\ shown.pc = "loop" /\ shown.shown = cl[c].built
        /\ shown.queue = cl[c].queue /\ shown.aside = cl[c].aside
    BY <1>0 DEF V!Screens
  <2>3. snap' \in 0..MaxChanges
    BY <2>1, <1>0 DEF V!Screens
  <2> HIDE DEF shown
  <2> QED BY <1>0, <1>1, <1>2, <2>1, <2>2, <2>3
<1>4. CASE V!ShowsError(c)
  <2>1. V!Is(c, error) /\ snap' = V!Failed
    BY <1>4 DEF V!ShowsError
  <2>2. /\ error.pc = "loop" /\ error.shown = cl[c].shown
        /\ error.queue = cl[c].queue /\ error.aside = cl[c].aside
    BY <1>0 DEF V!Screens
  <2> HIDE DEF error
  <2> QED BY <1>0, <1>1, <1>2, <2>1, <2>2
<1> QED BY <1>3, <1>4

LEMMA StreamTyped ==
    ASSUME V!LiveViewAssumption, V!TypeOK, NEW c \in Streams, V!Stream(c)
    PROVE  V!TypeOK'
<1>0. /\ c \in V!Clients /\ cl[c] \in V!Screens /\ world \in 0..MaxChanges
      /\ cl[c].queue + cl[c].aside <= Buf
  BY DEF V!Clients, V!TypeOK
<1>1. CASE V!Connect(c)
  <2> DEFINE r == [cl[c] EXCEPT !.pc = "first", !.built = world]
  <2>1. r \in V!Screens /\ r.queue = cl[c].queue /\ r.aside = cl[c].aside
    BY <1>0 DEF V!Screens
  <2>2. c \notin V!Open
    BY <1>1 DEF V!Connect, V!Open
  <2>3. cl[c].queue = 0
    BY <1>0, <2>2 DEF V!TypeOK
  <2>4. V!Is(c, r) /\ UNCHANGED <<world, unseen, pub, snap, build, lost>>
    BY <1>1 DEF V!Connect, V!cache
  <2> HIDE DEF r
  <2> QED BY <1>0, <2>1, <2>2, <2>3, <2>4, ClientStep DEF V!TypeOK
<1>2. CASE V!Subscribe(c)
  <2>1. PICK r \in V!Screens :
               /\ V!Is(c, r) /\ r.pc = "loop" /\ r.queue + r.aside <= Buf
               /\ r.shown \in {cl[c].shown, cl[c].built}
               /\ snap' \in 0..MaxChanges \cup {V!Failed} /\ cl'[c] = r
    BY <1>0, <1>2, ShowsTyped DEF V!Subscribe
  <2>2. UNCHANGED <<world, unseen, pub, build>> /\ V!Untold(c, r.shown + 1 .. world)
    BY <1>2, <2>1 DEF V!Subscribe
  <2>3. r.shown + 1 .. world \subseteq V!Changes
    <3>1. r.shown \in 0..MaxChanges
      BY DEF V!Screens
    <3> QED BY <3>1, <1>0, BehindTyped
  <2> QED BY <1>0, <2>1, <2>2, <2>3, ClientStep DEF V!TypeOK
<1>3. CASE V!Debounce(c) \/ V!Safety(c)
  <2>1. PICK n \in 0..cl[c].queue : V!Rebuild(c, n)
    BY <1>0, <1>3 DEF V!Debounce, V!Safety, V!Screens
  <2> DEFINE r == [cl[c] EXCEPT !.pc = "build", !.queue = @ - n, !.built = world]
  <2>2. r \in V!Screens /\ r.pc = "build" /\ r.queue + r.aside <= Buf
    <3>1. cl[c].queue \in 0..Buf /\ cl[c].aside \in 0..Buf
      BY <1>0 DEF V!Screens
    <3>2. cl[c].queue - n \in 0..Buf /\ cl[c].queue - n + cl[c].aside <= Buf
      BY <1>0, <3>1 DEF V!LiveViewAssumption
    <3> QED BY <1>0, <3>2 DEF V!Screens
  <2>3. V!Is(c, r) /\ UNCHANGED <<world, unseen, pub, snap, build>> /\ V!Untold(c, {})
    BY <2>1 DEF V!Rebuild, V!cache
  <2> HIDE DEF r
  <2> QED BY <1>0, <2>2, <2>3, ClientStep DEF V!TypeOK
<1>4. CASE V!SendSnapshot(c)
  <2>1. PICK r \in V!Screens :
               /\ V!Is(c, r) /\ r.pc = "loop" /\ r.queue + r.aside <= Buf
               /\ snap' \in 0..MaxChanges \cup {V!Failed}
    BY <1>0, <1>4, ShowsTyped DEF V!SendSnapshot
  <2>2. UNCHANGED <<world, unseen, pub, build, lost>>
    BY <1>4 DEF V!SendSnapshot
  <2> QED BY <1>0, <2>1, <2>2, ClientStep DEF V!TypeOK
<1>5. CASE V!SendError(c)
  <2>1. PICK r \in V!Screens :
               /\ V!Is(c, r) /\ r.pc = "loop" /\ r.queue + r.aside <= Buf
               /\ snap' \in 0..MaxChanges \cup {V!Failed}
    BY <1>0, <1>5, ShowsTyped DEF V!SendError
  <2>2. /\ UNCHANGED <<world, unseen, pub, build>>
        /\ V!Untold(c, lost[c] \cup cl[c].shown + 1 .. cl[c].built)
    BY <1>5 DEF V!SendError
  <2>3. lost[c] \cup (cl[c].shown + 1 .. cl[c].built) \subseteq V!Changes
    BY <1>0, BehindTyped DEF V!TypeOK, V!Screens
  <2> QED BY <1>0, <2>1, <2>2, <2>3, ClientStep DEF V!TypeOK
<1> QED BY <1>1, <1>2, <1>3, <1>4, <1>5 DEF V!Stream

\* A page's answer: what it has spent of its events, and the view from the cache.
LEMMA AnsweredTyped ==
    ASSUME V!LiveViewAssumption, V!TypeOK, NEW c \in V!Clients, NEW n \in 0..cl[c].queue,
           V!Answered(c, n)
    PROVE  \E r \in V!Screens :
               /\ V!Is(c, r) /\ cl'[c] = r
               /\ r.pc = cl[c].pc /\ r.queue = cl[c].queue - n /\ r.queue + r.aside <= Buf
               /\ UNCHANGED <<world, unseen, pub, snap>> /\ build' \in {build, world}
<1> DEFINE s == IF snap = V!Failed THEN cl[c].shown ELSE snap
           r == [cl[c] EXCEPT !.queue = @ - n, !.shown = s]
<1>1. /\ cl[c] \in V!Screens /\ cl[c].queue \in 0..Buf /\ cl[c].aside \in 0..Buf
      /\ cl[c].shown \in 0..MaxChanges /\ cl[c].queue + cl[c].aside <= Buf
  BY DEF V!TypeOK, V!Screens
<1>2. s \in 0..MaxChanges
  BY <1>1 DEF V!TypeOK
<1>3. cl[c].queue - n \in 0..Buf /\ cl[c].queue - n + cl[c].aside <= Buf
  BY <1>1 DEF V!LiveViewAssumption
<1>4. V!Is(c, r) /\ UNCHANGED <<world, unseen, pub, snap>> /\ build' \in {build, world}
  BY DEF V!Answered, V!Revalidate
<1> HIDE DEF s
<1>5. /\ r \in V!Screens /\ r.pc = cl[c].pc /\ r.queue = cl[c].queue - n
      /\ r.queue + r.aside <= Buf
  BY <1>1, <1>2, <1>3 DEF V!Screens
<1> HIDE DEF r
<1>6. cl'[c] = r
  BY <1>4 DEF V!Is, V!TypeOK
<1> QED BY <1>4, <1>5, <1>6

LEMMA PageTyped ==
    ASSUME V!LiveViewAssumption, V!TypeOK, NEW c \in Pages, V!Page(c)
    PROVE  V!TypeOK'
<1>0. /\ c \in V!Clients /\ cl[c] \in V!Screens /\ world \in 0..MaxChanges
      /\ cl[c].queue + cl[c].aside <= Buf
  BY DEF V!Clients, V!TypeOK
<1>1. CASE V!PageSubscribes(c)
  <2> DEFINE r == [cl[c] EXCEPT !.pc = "loop"]
  <2>1. r \in V!Screens /\ r.pc = "loop" /\ r.queue + r.aside <= Buf
    BY <1>0 DEF V!Screens
  <2>2. V!Is(c, r) /\ UNCHANGED <<world, unseen, pub, snap, build>> /\ V!Untold(c, V!Behind(c))
    BY <1>1 DEF V!PageSubscribes, V!cache
  <2>3. V!Behind(c) \subseteq V!Changes
    BY <1>0, BehindTyped
  <2> HIDE DEF r
  <2> QED BY <1>0, <2>1, <2>2, <2>3, ClientStep DEF V!TypeOK
<1>2. CASE V!PageAsks(c) \/ V!Refetch(c)
  <2>1. PICK n \in 0..cl[c].queue : V!Answered(c, n) /\ (V!PageAsks(c) => n = 0)
    <3>1. cl[c].queue \in Nat BY <1>0 DEF V!Screens
    <3> QED BY <1>2, <3>1 DEF V!PageAsks, V!Refetch
  <2>2. PICK r \in V!Screens :
               /\ V!Is(c, r) /\ cl'[c] = r
               /\ r.pc = cl[c].pc /\ r.queue = cl[c].queue - n /\ r.queue + r.aside <= Buf
               /\ UNCHANGED <<world, unseen, pub, snap>> /\ build' \in {build, world}
    BY <1>0, <2>1, AnsweredTyped
  <2>3. r.pc \in {"loop", "build"} \/ r.queue = 0
    <3>1. CASE cl[c].pc = "loop" BY <2>2, <3>1
    <3>2. CASE cl[c].pc # "loop"
      <4>1. V!PageAsks(c) /\ c \notin V!Open
        BY <1>2, <3>2 DEF V!Refetch, V!PageAsks, V!Open
      <4>2. cl[c].queue = 0 /\ n = 0 BY <1>0, <2>1, <4>1 DEF V!TypeOK
      <4> QED BY <2>2, <4>2
    <3> QED BY <3>1, <3>2
  <2>4. PICK S \in SUBSET (r.shown + 1 .. world) : V!Untold(c, S)
    BY <1>2, <2>2 DEF V!PageAsks, V!Refetch
  <2>5. r.shown + 1 .. world \subseteq V!Changes
    <3>1. r.shown \in 0..MaxChanges BY DEF V!Screens
    <3> QED BY <1>0, <3>1, BehindTyped
  <2>6. build' \in 0..world \cup {V!None}
    BY <1>0, <2>2 DEF V!TypeOK
  <2>7. c \in V!Open => r.pc \in {"loop", "build"}
    BY <2>2 DEF V!Open
  <2> QED BY <1>0, <2>2, <2>3, <2>4, <2>5, <2>6, <2>7, ClientStep DEF V!TypeOK
<1>3. CASE V!RefetchElse(c)
  <2>1. PICK n \in 1..cl[c].aside : V!Is(c, [cl[c] EXCEPT !.aside = @ - n])
    BY <1>3 DEF V!RefetchElse
  <2> DEFINE r == [cl[c] EXCEPT !.aside = @ - n]
  <2>2. r \in V!Screens /\ r.pc = "loop" /\ r.queue + r.aside <= Buf
    <3>1. cl[c].queue \in 0..Buf /\ cl[c].aside \in 0..Buf
      BY <1>0 DEF V!Screens
    <3>2. cl[c].aside - n \in 0..Buf /\ cl[c].queue + (cl[c].aside - n) <= Buf
      BY <1>0, <3>1 DEF V!LiveViewAssumption
    <3>3. cl[c].pc = "loop" BY <1>3 DEF V!RefetchElse
    <3> QED BY <1>0, <3>2, <3>3 DEF V!Screens
  <2>3. V!Is(c, r) /\ UNCHANGED <<world, unseen, pub, snap, build, lost>>
    BY <1>3, <2>1 DEF V!RefetchElse, V!cache
  <2> HIDE DEF r
  <2> QED BY <1>0, <2>2, <2>3, ClientStep DEF V!TypeOK
<1> QED BY <1>1, <1>2, <1>3 DEF V!Page

LEMMA ViewStepTyped == V!LiveViewAssumption /\ V!TypeOK /\ [V!Next]_V!vars => V!TypeOK'
<1> SUFFICES ASSUME V!LiveViewAssumption, V!TypeOK, [V!Next]_V!vars PROVE V!TypeOK'
  OBVIOUS
<1>1. CASE UNCHANGED V!vars
  BY <1>1 DEF V!vars, V!TypeOK, V!Open, V!Clients, V!Publishers, V!Pubs, V!Screens, V!Changes
<1>2. CASE V!Next
  BY <1>2, ChangeTyped, HubTyped, CacheTyped, LeaveTyped, StreamTyped, PageTyped, RestartTyped
     DEF V!Next
<1> QED BY <1>1, <1>2

-----------------------------------------------------------------------------
\* A client with an event in hand or on its way is told of whatever it is behind.
LEMMA NoticedTold == ASSUME NEW c, V!Noticed(c) PROVE Told(c)
  BY DEF Told

\* A client whom a step leaves alone is told as before, if what was on its way still
\* is, and what was not is in what it has lost.
LEMMA ToldKept ==
    ASSUME NEW c, Told(c), V!Behind(c)' = V!Behind(c), lost[c] \subseteq lost'[c],
           V!Noticed(c) => V!Noticed(c)' \/ V!Behind(c) \subseteq lost'[c]
    PROVE  Told(c)'
  BY DEF Told

LEMMA BehindKept ==
    ASSUME NEW c, cl'[c] = cl[c], world' = world PROVE V!Behind(c)' = V!Behind(c)
  BY DEF V!Behind, V!Knows

\* A publisher holds an event, or is about to, at which the client asks for the view.
Coming(c, p) == V!Asks(c, p) /\ (pub[p].pc = "due" \/ c \in pub[p].rest)

\* What is on its way to a client is in its channel, in the database's version, or in
\* what a publisher holds.
LEMMA NoticedKept ==
    ASSUME NEW c, V!Noticed(c), cl'[c].queue = cl[c].queue \/ cl'[c].queue > 0, unseen => unseen',
           \A p \in V!Publishers :
               Coming(c, p) => unseen' \/ \E q \in V!Publishers : Coming(c, q)'
    PROVE  V!Noticed(c)'
  BY DEF V!Noticed, V!Publishers, Coming, V!Asks

LEMMA SameComing ==
    ASSUME pub' = pub
    PROVE  \A c : \A q \in V!Publishers : Coming(c, q) => Coming(c, q)'
  BY DEF Coming, V!Asks

\* A publisher whose copy, if it is not empty, is what it was but for those to whom the
\* event has been given is still on its way to the others.
LEMMA ComingKept ==
    ASSUME V!TypeOK, NEW c, NEW p \in V!Publishers, Coming(c, p), NEW r, pub[p].pc # "due",
           pub'[p] = V!Sending(r), r.broad = pub[p].broad,
           c \in pub[p].rest => c \in r.rest
    PROVE  Coming(c, p)'
<1>1. c \in r.rest
  BY DEF Coming
<1>2. pub'[p] = r
  BY <1>1 DEF V!Sending
<1> QED BY <1>1, <1>2 DEF Coming, V!Asks

AllTold == \A c \in V!Open : Told(c)

LEMMA AllToldMeans == V!ChangeNoticed <=> AllTold
  BY DEF V!ChangeNoticed, AllTold, Told

LEMMA ChangeTold ==
    ASSUME V!TypeOK, AllTold, V!handleAction \/ V!OtherProcess \/ V!FileEdit
    PROVE  AllTold'
<1>0. cl' = cl /\ V!Open' = V!Open
  BY DEF V!handleAction, V!OtherProcess, V!FileEdit, V!Open, V!Clients
<1> SUFFICES ASSUME NEW c \in V!Open PROVE Told(c)'
  BY <1>0 DEF AllTold
<1>1. CASE V!handleAction
  <2>1. PICK db \in BOOLEAN, broad \in BOOLEAN :
            /\ db \/ broad
            /\ unseen' = (unseen \/ db)
            /\ pub' = [pub EXCEPT !["handler"].pc = "due", !["handler"].broad = broad]
    BY <1>1 DEF V!handleAction
  <2>2. pub'["handler"].pc = "due" /\ pub'["handler"].broad = broad
    BY <2>1 DEF V!TypeOK, V!Publishers, V!Pubs
  <2>3. V!Noticed(c)'
    BY <2>1, <2>2 DEF V!Noticed, V!Publishers, V!Asks
  <2> QED BY <2>3 DEF Told
<1>2. CASE V!OtherProcess
  BY <1>2 DEF Told, V!Noticed, V!OtherProcess
<1>3. CASE V!FileEdit
  <2>1. c \in V!Clients /\ lost'[c] = lost[c] \cup {world + 1} /\ world' = world + 1
    BY <1>3 DEF V!FileEdit, V!Open, V!Change
  <2>2. V!Knows(c)' = V!Knows(c) /\ V!Knows(c) \in Int /\ world \in Int
    BY <1>0, <2>1 DEF V!Knows, V!TypeOK, V!Screens
  <2>3. V!Behind(c)' \subseteq V!Behind(c) \cup {world + 1}
    BY <2>1, <2>2 DEF V!Behind
  <2>4. V!Noticed(c)' <=> V!Noticed(c)
    BY <1>0, <1>3 DEF V!FileEdit, V!Noticed, V!Publishers, V!Asks
  <2> QED BY <2>1, <2>3, <2>4 DEF AllTold, Told
<1> QED BY <1>1, <1>2, <1>3

LEMMA HubTold ==
    ASSUME V!LiveViewAssumption, V!TypeOK, AllTold,
           \/ V!Watch \/ V!StageEvent \/ V!HandlerPublishes \/ V!SkipClosed \/ V!HandlerPanics
           \/ \E p \in V!Publishers : V!Send(p)
    PROVE  AllTold'
<1>o. V!Open \subseteq V!Clients
  BY DEF V!Open
<1>1. CASE V!Watch \/ V!StageEvent \/ V!HandlerPublishes
  <2>1. PICK p \in V!Publishers, broad \in BOOLEAN :
            /\ V!publish(p, broad)
            /\ V!Watch => broad
            /\ ~V!Watch => /\ p = "handler" /\ unseen' = unseen
                           /\ pub[p].pc = "idle" \/ broad = pub[p].broad
    <3>1. pub["handler"].broad \in BOOLEAN
      BY DEF V!TypeOK, V!Publishers, V!Pubs
    <3>2. CASE V!Watch
      BY <3>2 DEF V!Watch, V!Publishers
    <3>3. CASE ~V!Watch
      BY <1>1, <3>1, <3>3 DEF V!StageEvent, V!HandlerPublishes, V!Publishers
    <3> QED BY <3>2, <3>3
  <2>2. cl' = cl /\ world' = world /\ lost' = lost
    BY <1>1 DEF V!Watch, V!StageEvent, V!HandlerPublishes
  <2>3. V!Open' = V!Open
    BY <2>2 DEF V!Open, V!Clients
  <2> DEFINE r == [pub[p] EXCEPT !.pc = "sending", !.broad = broad, !.rest = V!Open]
  <2>4. r.rest = V!Open /\ r.broad = broad
    BY DEF V!TypeOK, V!Pubs
  <2>5. pub'[p] = V!Sending(r) /\ \A q \in V!Publishers \ {p} : pub'[q] = pub[q]
    BY <2>1 DEF V!publish, V!TypeOK
  <2> HIDE DEF r
  <2>6. ASSUME NEW c \in V!Open PROVE Told(c)'
    <3>1. c \in pub'[p].rest /\ pub'[p].broad = broad
      BY <2>4, <2>5, <2>6 DEF V!Sending
    <3>2. CASE V!Watch
      BY <2>1, <3>1, <3>2 DEF Told, V!Noticed, V!Asks
    <3>3. CASE ~V!Watch
      <4>1. ASSUME NEW q \in V!Publishers, Coming(c, q)
            PROVE  \E s \in V!Publishers : Coming(c, s)'
        <5>1. CASE q = p
          <6>1. pub[p].pc # "idle"
            BY <4>1, <5>1 DEF Coming, V!TypeOK
          <6>2. V!Asks(c, p)'
            BY <2>1, <3>1, <3>3, <4>1, <5>1, <6>1 DEF Coming, V!Asks
          <6> QED BY <3>1, <6>2 DEF Coming
        <5>2. CASE q # p
          BY <2>5, <4>1, <5>2 DEF Coming, V!Asks
        <5> QED BY <5>1, <5>2
      <4>2. V!Noticed(c) => V!Noticed(c)'
        <5>1. cl'[c].queue = cl[c].queue /\ unseen' = unseen
          BY <2>1, <2>2, <3>3
        <5> QED BY <4>1, <5>1, NoticedKept
      <4> QED BY <2>2, <2>6, <4>2, BehindKept, ToldKept DEF AllTold
    <3> QED BY <3>2, <3>3
  <2> QED BY <2>3, <2>6 DEF AllTold
<1>2. CASE V!HandlerPanics
  <2>1. cl' = cl /\ world' = world /\ unseen' = unseen
    BY <1>2 DEF V!HandlerPanics
  <2>2. V!Open' = V!Open
    BY <2>1 DEF V!Open, V!Clients
  <2>3. pub["handler"].pc # "due" /\ pub'["watcher"] = pub["watcher"]
    BY <1>2 DEF V!HandlerPanics, V!TypeOK, V!Publishers
  <2>4. ASSUME NEW c \in V!Open PROVE Told(c)'
    <3>1. lost' = [d \in V!Clients |->
                      IF d \in pub["handler"].rest /\ V!Asks(d, "handler")
                      THEN lost[d] \cup V!Behind(d) ELSE lost[d]]
      BY <1>2 DEF V!HandlerPanics
    <3>2. lost'[c] = IF c \in pub["handler"].rest /\ V!Asks(c, "handler")
                     THEN lost[c] \cup V!Behind(c) ELSE lost[c]
      BY <1>o, <2>4, <3>1
    <3>3. CASE c \in pub["handler"].rest /\ V!Asks(c, "handler")
      BY <2>1, <2>4, <3>2, <3>3, BehindKept, ToldKept DEF AllTold
    <3>4. CASE ~(c \in pub["handler"].rest /\ V!Asks(c, "handler"))
      <4>1. \A q \in V!Publishers : Coming(c, q) => Coming(c, q)'
        BY <2>3, <3>4 DEF Coming, V!Publishers, V!Asks
      <4>2. V!Noticed(c) => V!Noticed(c)'
        BY <2>1, <4>1, NoticedKept
      <4> QED BY <2>1, <2>4, <3>2, <3>4, <4>2, BehindKept, ToldKept DEF AllTold
    <3> QED BY <3>3, <3>4
  <2> QED BY <2>2, <2>4 DEF AllTold
<1>3. CASE V!SkipClosed
  <2>1. PICK e \in pub["handler"].dead :
            pub' = [pub EXCEPT !["handler"] = V!Sending([pub["handler"] EXCEPT !.dead = @ \ {e}])]
    BY <1>3 DEF V!SkipClosed
  <2>2. cl' = cl /\ UNCHANGED <<world, unseen, lost>> /\ pub["handler"].pc = "sending"
    BY <1>3 DEF V!SkipClosed
  <2> DEFINE r == [pub["handler"] EXCEPT !.dead = @ \ {e}]
  <2>3. r.rest = pub["handler"].rest /\ r.broad = pub["handler"].broad
    BY DEF V!TypeOK, V!Pubs, V!Publishers
  <2>4. pub'["handler"] = V!Sending(r) /\ pub'["watcher"] = pub["watcher"]
    BY <2>1 DEF V!TypeOK, V!Publishers
  <2> HIDE DEF r
  <2>5. ASSUME NEW c \in V!Open PROVE Told(c)'
    <3>1. ASSUME NEW q \in V!Publishers, Coming(c, q) PROVE Coming(c, q)'
      <4>1. CASE q = "handler"
        BY <2>2, <2>3, <2>4, <3>1, <4>1, ComingKept
      <4>2. CASE q = "watcher"
        BY <2>4, <3>1, <4>2 DEF Coming, V!Asks
      <4> QED BY <4>1, <4>2 DEF V!Publishers
    <3>2. V!Noticed(c) => V!Noticed(c)'
      BY <2>2, <3>1, NoticedKept
    <3> QED BY <2>2, <2>5, <3>2, BehindKept, ToldKept DEF AllTold
  <2>6. V!Open' = V!Open
    BY <2>2 DEF V!Open, V!Clients
  <2> QED BY <2>5, <2>6 DEF AllTold
<1>4. ASSUME NEW p \in V!Publishers, V!Send(p) PROVE AllTold'
  <2>1. PICK e \in pub[p].rest :
            /\ pub' = [pub EXCEPT ![p] = V!Sending([pub[p] EXCEPT !.rest = @ \ {e}])]
            /\ V!Is(e, V!Queued(e, V!Asks(e, p)))
            /\ V!Untold(e, IF V!Asks(e, p) /\ ~V!Room(e) /\ cl[e].queue = 0
                           THEN lost[e] \cup V!Behind(e) ELSE lost[e])
    BY <1>4 DEF V!Send
  <2>2. UNCHANGED <<world, unseen>> /\ pub[p].pc = "sending"
    BY <1>4 DEF V!Send
  <2> DEFINE r == [pub[p] EXCEPT !.rest = @ \ {e}]
  <2>3. r.rest = pub[p].rest \ {e} /\ r.broad = pub[p].broad
    BY DEF V!TypeOK, V!Pubs
  <2>4. pub'[p] = V!Sending(r) /\ \A q \in V!Publishers \ {p} : pub'[q] = pub[q]
    BY <2>1 DEF V!TypeOK
  <2> HIDE DEF r
  <2>5. e \in V!Clients /\ e \in V!Open
    BY DEF V!TypeOK, V!Open
  <2>6. /\ cl'[e] = V!Queued(e, V!Asks(e, p))
        /\ \A d \in V!Clients \ {e} : cl'[d] = cl[d] /\ lost'[d] = lost[d]
        /\ lost'[e] = IF V!Asks(e, p) /\ ~V!Room(e) /\ cl[e].queue = 0
                      THEN lost[e] \cup V!Behind(e) ELSE lost[e]
    BY <2>1, <2>5 DEF V!Is, V!Untold, V!TypeOK
  <2>7. /\ cl'[e].pc = cl[e].pc /\ cl'[e].built = cl[e].built /\ cl'[e].shown = cl[e].shown
        /\ cl'[e].queue = IF V!Room(e) /\ V!Asks(e, p) THEN cl[e].queue + 1 ELSE cl[e].queue
    <3>1. V!Asks(e, p) \in BOOLEAN
      BY DEF V!Asks, V!TypeOK, V!Pubs
    <3> QED BY <2>5, <2>6, <3>1, QueuedTyped
  <2>8. V!Open' = V!Open
    BY <2>6, <2>7 DEF V!Open, V!Clients
  <2>9. ASSUME NEW c \in V!Clients, NEW q \in V!Publishers, Coming(c, q), q # p \/ c # e
        PROVE  Coming(c, q)'
    <3>1. CASE q = p
      BY <2>2, <2>3, <2>4, <2>9, <3>1, ComingKept
    <3>2. CASE q # p
      BY <2>4, <2>9, <3>2 DEF Coming, V!Asks
    <3> QED BY <3>1, <3>2
  <2>10. ASSUME NEW c \in V!Open, c # e PROVE Told(c)'
    <3>1. cl'[c] = cl[c] /\ lost'[c] = lost[c]
      BY <1>o, <2>6, <2>10
    <3>2. V!Noticed(c) => V!Noticed(c)'
      BY <1>o, <2>2, <2>9, <2>10, <3>1, NoticedKept
    <3> QED BY <2>2, <2>10, <3>1, <3>2, BehindKept, ToldKept DEF AllTold
  <2>11. Told(e)'
    <3>1. V!Behind(e)' = V!Behind(e)
      BY <2>2, <2>7 DEF V!Behind, V!Knows
    <3>2. Told(e) /\ cl[e].queue \in Nat
      BY <2>5 DEF AllTold, V!TypeOK, V!Screens
    <3>3. CASE V!Asks(e, p) /\ (V!Room(e) \/ cl[e].queue # 0)
      <4>1. cl'[e].queue > 0
        BY <2>7, <3>2, <3>3
      <4> QED BY <4>1 DEF Told, V!Noticed
    <3>4. CASE V!Asks(e, p) /\ ~V!Room(e) /\ cl[e].queue = 0
      BY <2>6, <3>1, <3>2, <3>4, ToldKept
    <3>5. CASE ~V!Asks(e, p)
      <4>1. ~Coming(e, p)
        BY <3>5 DEF Coming
      <4>2. \A q \in V!Publishers : Coming(e, q) => Coming(e, q)'
        BY <2>5, <2>9, <4>1
      <4>3. cl'[e].queue = cl[e].queue /\ lost'[e] = lost[e]
        BY <2>6, <2>7, <3>5
      <4>4. V!Noticed(e) => V!Noticed(e)'
        BY <2>2, <4>2, <4>3, NoticedKept
      <4> QED BY <3>1, <3>2, <4>3, <4>4, ToldKept
    <3> QED BY <3>3, <3>4, <3>5
  <2> QED BY <2>8, <2>10, <2>11 DEF AllTold
<1> QED BY <1>1, <1>2, <1>3, <1>4

\* A step that changes one client: the others are told as before.
LEMMA OthersTold ==
    ASSUME V!TypeOK, AllTold, NEW c \in V!Clients, NEW r, V!Is(c, r),
           UNCHANGED <<world, unseen, pub>>,
           lost' = lost \/ \E S : V!Untold(c, S),
           r.pc \notin {"loop", "build"} \/ Told(c)'
    PROVE  AllTold'
<1> SUFFICES ASSUME NEW d \in V!Open' PROVE Told(d)'
  BY DEF AllTold
<1>1. d \in V!Clients /\ cl'[d].pc \in {"loop", "build"} /\ cl'[c] = r
  BY DEF V!Open, V!Clients, V!Is, V!TypeOK
<1>2. CASE d = c
  BY <1>1, <1>2
<1>3. CASE d # c
  <2>1. cl'[d] = cl[d] /\ lost'[d] = lost[d]
    BY <1>1, <1>3 DEF V!Is, V!TypeOK, V!Untold
  <2>2. Told(d)
    BY <1>1, <2>1 DEF V!Open, AllTold
  <2>3. V!Noticed(d) => V!Noticed(d)'
    BY <2>1, SameComing, NoticedKept
  <2> QED BY <2>1, <2>2, <2>3, BehindKept, ToldKept
<1> QED BY <1>2, <1>3

LEMMA LeaveTold ==
    ASSUME V!LiveViewAssumption, V!TypeOK, AllTold, NEW c \in V!Clients, V!Leave(c)
    PROVE  AllTold'
<1>1. /\ cl' = [cl EXCEPT ![c] = V!Closed(c)] /\ lost' = [lost EXCEPT ![c] = {}]
      /\ world' = world /\ unseen' = unseen
  BY DEF V!Leave, V!Is, V!Untold
<1> SUFFICES ASSUME NEW d \in V!Open' PROVE Told(d)'
  BY DEF AllTold
<1>4. d \in V!Clients /\ cl'[d].pc \in {"loop", "build"}
  BY DEF V!Open, V!Clients
<1>5. d # c
  <2>1. cl'[c] = V!Closed(c)
    BY <1>1 DEF V!TypeOK
  <2> QED BY <1>4, <2>1, ClosedTyped
<1>6. cl'[d] = cl[d] /\ lost'[d] = lost[d]
  BY <1>1, <1>4, <1>5 DEF V!TypeOK
<1>7. Told(d)
  BY <1>4, <1>6 DEF V!Open, AllTold
<1>8. ASSUME NEW q \in V!Publishers, Coming(d, q) PROVE Coming(d, q)'
  <2>1. /\ pub'[q].rest = pub[q].rest \ {c}
        /\ pub[q].rest = {} => pub'[q] = pub[q]
        /\ pub'[q].rest # {} => pub'[q].pc = pub[q].pc /\ pub'[q].broad = pub[q].broad
    BY LeavePubs
  <2>2. CASE d \in pub[q].rest
    BY <1>5, <1>8, <2>1, <2>2 DEF Coming, V!Asks
  <2>3. CASE d \notin pub[q].rest
    <3>1. pub[q].rest = {}
      BY <1>8, <2>3 DEF Coming, V!TypeOK
    <3> QED BY <1>8, <2>1, <3>1 DEF Coming, V!Asks
  <2> QED BY <2>2, <2>3
<1>9. V!Noticed(d) => V!Noticed(d)'
  BY <1>1, <1>6, <1>8, NoticedKept
<1> QED BY <1>1, <1>6, <1>7, <1>9, BehindKept, ToldKept

LEMMA StreamTold ==
    ASSUME V!LiveViewAssumption, V!TypeOK, AllTold, NEW c \in Streams, V!Stream(c)
    PROVE  AllTold'
<1>0. /\ c \in V!Clients /\ cl[c] \in V!Screens /\ world \in 0..MaxChanges
      /\ lost \in [V!Clients -> SUBSET V!Changes]
  BY DEF V!Clients, V!TypeOK
<1>1. CASE V!Connect(c)
  <2> DEFINE r == [cl[c] EXCEPT !.pc = "first", !.built = world]
  <2>1. V!Is(c, r) /\ UNCHANGED <<world, unseen, pub, lost>>
    BY <1>1 DEF V!Connect
  <2>2. r.pc = "first"
    BY <1>0 DEF V!Screens
  <2> HIDE DEF r
  <2> QED BY <1>0, <2>1, <2>2, OthersTold
<1>2. CASE V!Subscribe(c)
  <2>1. PICK r \in V!Screens : V!Is(c, r) /\ r.pc = "loop" /\ cl'[c] = r
    BY <1>0, <1>2, ShowsTyped DEF V!Subscribe
  <2>2. UNCHANGED <<world, unseen, pub>> /\ V!Untold(c, r.shown + 1 .. world)
    BY <1>2, <2>1 DEF V!Subscribe
  <2>3. lost'[c] = r.shown + 1 .. world /\ V!Behind(c)' = r.shown + 1 .. world
    BY <1>0, <2>1, <2>2 DEF V!Untold, V!Behind, V!Knows
  <2>4. Told(c)'
    BY <2>3 DEF Told
  <2> QED BY <1>0, <2>1, <2>2, <2>4, OthersTold
<1>3. CASE V!Debounce(c) \/ V!Safety(c)
  <2>1. PICK n \in 0..cl[c].queue : V!Rebuild(c, n)
    BY <1>0, <1>3 DEF V!Debounce, V!Safety, V!Screens
  <2> DEFINE r == [cl[c] EXCEPT !.pc = "build", !.queue = @ - n, !.built = world]
  <2>2. r.pc = "build" /\ r.built = world
    BY <1>0 DEF V!Screens
  <2>3. V!Is(c, r) /\ UNCHANGED <<world, unseen, pub>> /\ V!Untold(c, {})
    BY <2>1 DEF V!Rebuild
  <2> HIDE DEF r
  <2>4. cl'[c] = r
    BY <1>0, <2>3 DEF V!Is, V!TypeOK
  <2>5. V!Behind(c)' = {}
    BY <1>0, <2>2, <2>3, <2>4 DEF V!Behind, V!Knows
  <2>6. Told(c)'
    BY <2>5 DEF Told
  <2> QED BY <1>0, <2>3, <2>6, OthersTold
<1>4. CASE V!SendSnapshot(c)
  <2> DEFINE r == [cl[c] EXCEPT !.pc = "loop", !.built = 0, !.shown = cl[c].built]
  <2>1. V!Is(c, r) /\ UNCHANGED <<world, unseen, pub, lost>> /\ cl[c].pc = "build"
    BY <1>4 DEF V!SendSnapshot, V!Shows
  <2>2. r.pc = "loop" /\ r.shown = cl[c].built /\ r.queue = cl[c].queue
    BY <1>0 DEF V!Screens
  <2> HIDE DEF r
  <2>3. cl'[c] = r /\ lost'[c] = lost[c]
    BY <1>0, <2>1 DEF V!Is, V!TypeOK
  <2>4. V!Behind(c)' = V!Behind(c)
    BY <2>1, <2>2, <2>3 DEF V!Behind, V!Knows
  <2>5. V!Noticed(c) => V!Noticed(c)'
    BY <2>1, <2>2, <2>3, SameComing, NoticedKept
  <2>6. Told(c)
    BY <1>0, <2>1 DEF AllTold, V!Open
  <2>8. Told(c)'
    BY <2>3, <2>4, <2>5, <2>6, ToldKept
  <2> QED BY <1>0, <2>1, <2>8, OthersTold
<1>5. CASE V!SendError(c)
  <2> DEFINE r == [cl[c] EXCEPT !.pc = "loop", !.built = 0]
  <2>1. /\ V!Is(c, r) /\ UNCHANGED <<world, unseen, pub>> /\ cl[c].pc = "build"
        /\ V!Untold(c, lost[c] \cup cl[c].shown + 1 .. cl[c].built)
    BY <1>5 DEF V!SendError, V!ShowsError
  <2>2. r.pc = "loop" /\ r.shown = cl[c].shown /\ r.queue = cl[c].queue
    BY <1>0 DEF V!Screens
  <2> HIDE DEF r
  <2>3. cl'[c] = r /\ lost'[c] = lost[c] \cup (cl[c].shown + 1 .. cl[c].built)
    BY <1>0, <2>1 DEF V!Is, V!Untold, V!TypeOK
  <2>4. V!Behind(c)' = cl[c].shown + 1 .. world /\ V!Behind(c) = cl[c].built + 1 .. world
    BY <2>1, <2>2, <2>3 DEF V!Behind, V!Knows
  <2>5. V!Noticed(c) => V!Noticed(c)'
    BY <2>1, <2>2, <2>3, SameComing, NoticedKept
  <2>6. Told(c)
    BY <1>0, <2>1 DEF AllTold, V!Open
  <2>7. V!Behind(c)' \subseteq (cl[c].shown + 1 .. cl[c].built) \cup V!Behind(c)
    BY <1>0, <2>4 DEF V!Screens
  <2>8. Told(c)'
    BY <2>3, <2>5, <2>6, <2>7 DEF Told
  <2> QED BY <1>0, <2>1, <2>8, OthersTold
<1> QED BY <1>1, <1>2, <1>3, <1>4, <1>5 DEF V!Stream

LEMMA PageTold ==
    ASSUME V!LiveViewAssumption, V!TypeOK, AllTold, NEW c \in Pages, V!Page(c)
    PROVE  AllTold'
<1>0. /\ c \in V!Clients /\ cl[c] \in V!Screens /\ lost \in [V!Clients -> SUBSET V!Changes]
      /\ world \in 0..MaxChanges
  BY DEF V!Clients, V!TypeOK
<1>1. CASE V!PageSubscribes(c)
  <2> DEFINE r == [cl[c] EXCEPT !.pc = "loop"]
  <2>1. V!Is(c, r) /\ UNCHANGED <<world, unseen, pub>> /\ V!Untold(c, V!Behind(c))
    BY <1>1 DEF V!PageSubscribes
  <2>2. r.pc = "loop" /\ r.shown = cl[c].shown /\ cl[c].pc = "off"
    BY <1>0, <1>1 DEF V!Screens, V!PageSubscribes
  <2> HIDE DEF r
  <2>3. cl'[c] = r /\ lost'[c] = V!Behind(c)
    BY <1>0, <2>1 DEF V!Is, V!Untold, V!TypeOK
  <2>4. V!Behind(c)' = V!Behind(c)
    BY <2>1, <2>2, <2>3 DEF V!Behind, V!Knows
  <2> QED BY <1>0, <2>1, <2>3, <2>4, OthersTold DEF Told
<1>2. CASE V!PageAsks(c)
  <2>1. PICK r \in V!Screens :
               /\ V!Is(c, r) /\ cl'[c] = r /\ r.pc = cl[c].pc /\ r.queue = cl[c].queue - 0
               /\ UNCHANGED <<world, unseen, pub>>
    <3>1. V!Answered(c, 0) /\ 0 \in 0..cl[c].queue BY <1>0, <1>2 DEF V!PageAsks, V!Screens
    <3> QED BY <1>0, <3>1, AnsweredTyped
  <2> DEFINE S == {v \in r.shown + 1 .. world : v \in lost[c] \/ v <= cl[c].shown}
  <2>2. V!Untold(c, S) BY <1>2, <2>1 DEF V!PageAsks
  <2>3. lost'[c] = S BY <1>0, <2>2 DEF V!Untold
  <2>4. CASE cl[c].pc # "loop"
    <3>1. r.pc = "off" BY <1>2, <2>1, <2>4 DEF V!PageAsks
    <3> QED BY <1>0, <2>1, <2>2, <3>1, OthersTold
  <2>5. CASE cl[c].pc = "loop"
    <3>1. Told(c) BY <1>0, <2>5 DEF AllTold, V!Open
    <3>2. V!Noticed(c) => V!Noticed(c)'
      <4>1. cl'[c].queue = cl[c].queue BY <1>0, <2>1 DEF V!Screens
      <4> QED BY <2>1, <4>1, SameComing, NoticedKept
    <3>3. V!Behind(c) = cl[c].shown + 1 .. world /\ V!Behind(c)' = r.shown + 1 .. world
      BY <2>1, <2>5 DEF V!Behind, V!Knows
    <3>4. ASSUME NEW v \in V!Behind(c)' PROVE v \in lost'[c] \/ V!Noticed(c)'
      <4>1. v \in r.shown + 1 .. world BY <3>3
      <4>2. v \in Int /\ world \in Int /\ r.shown \in Int /\ cl[c].shown \in Int
        BY <1>0, <4>1 DEF V!Screens
      <4>3. CASE v <= cl[c].shown BY <2>3, <4>1, <4>3
      <4>4. CASE ~(v <= cl[c].shown)
        <5>1. v \in V!Behind(c) BY <3>3, <4>1, <4>2, <4>4
        <5> QED BY <2>3, <3>1, <3>2, <4>1, <5>1 DEF Told
      <4> QED BY <4>3, <4>4
    <3>5. Told(c)' BY <3>4 DEF Told
    <3> QED BY <1>0, <2>1, <2>2, <3>5, OthersTold
  <2> QED BY <2>4, <2>5
<1>3. CASE V!Refetch(c)
  <2>1. PICK n \in 1..cl[c].queue : V!Answered(c, n)
    BY <1>3 DEF V!Refetch
  <2>2. PICK r \in V!Screens :
               V!Is(c, r) /\ cl'[c] = r /\ r.pc = cl[c].pc /\ UNCHANGED <<world, unseen, pub>>
    <3>1. n \in 0..cl[c].queue BY <1>0, <2>1 DEF V!Screens
    <3> QED BY <1>0, <2>1, <3>1, AnsweredTyped
  <2>3. cl[c].pc = "loop" /\ V!Untold(c, r.shown + 1 .. world)
    BY <1>3, <2>2 DEF V!Refetch
  <2>4. lost'[c] = r.shown + 1 .. world /\ V!Behind(c)' = r.shown + 1 .. world
    BY <1>0, <2>2, <2>3 DEF V!Untold, V!Behind, V!Knows
  <2> QED BY <1>0, <2>2, <2>3, <2>4, OthersTold DEF Told
<1>4. CASE V!RefetchElse(c)
  <2>1. PICK n : V!Is(c, [cl[c] EXCEPT !.aside = @ - n])
    BY <1>4 DEF V!RefetchElse
  <2> DEFINE r == [cl[c] EXCEPT !.aside = @ - n]
  <2>2. V!Is(c, r) /\ UNCHANGED <<world, unseen, pub, lost>> /\ cl[c].pc = "loop"
    BY <1>4, <2>1 DEF V!RefetchElse
  <2>3. r.pc = cl[c].pc /\ r.shown = cl[c].shown /\ r.built = cl[c].built /\ r.queue = cl[c].queue
    BY <1>0 DEF V!Screens
  <2> HIDE DEF r
  <2>4. cl'[c] = r BY <1>0, <2>2 DEF V!Is, V!TypeOK
  <2>5. Told(c) BY <1>0, <2>2 DEF AllTold, V!Open
  <2>6. V!Behind(c)' = V!Behind(c) BY <2>2, <2>3, <2>4 DEF V!Behind, V!Knows
  <2>7. V!Noticed(c) => V!Noticed(c)' BY <2>2, <2>3, <2>4, SameComing, NoticedKept
  <2>8. Told(c)' BY <2>2, <2>5, <2>6, <2>7, ToldKept
  <2> QED BY <1>0, <2>2, <2>8, OthersTold
<1> QED BY <1>1, <1>2, <1>3, <1>4 DEF V!Page

LEMMA ViewStepTold ==
    ASSUME V!LiveViewAssumption, V!TypeOK, AllTold, [V!Next]_V!vars
    PROVE  AllTold'
<1>1. CASE UNCHANGED <<world, unseen, pub, cl, lost>>
  <2>1. V!Open' = V!Open /\ \A c : Told(c)' <=> Told(c)
    BY <1>1 DEF V!Open, V!Clients, Told, V!Behind, V!Knows, V!Noticed, V!Publishers, V!Asks
  <2> QED BY <2>1 DEF AllTold
<1>2. CASE V!Restart
  <2>1. \A c \in V!Clients : cl'[c].pc = "off"
    BY <1>2, ClosedTyped DEF V!Restart
  <2>2. V!Open' = {}
    BY <2>1 DEF V!Open, V!Clients
  <2> QED BY <2>2 DEF AllTold
<1>3. V!Poll \/ V!BuildStores => UNCHANGED <<world, unseen, pub, cl, lost>>
  BY DEF V!Poll, V!BuildStores
<1>4. UNCHANGED V!vars => UNCHANGED <<world, unseen, pub, cl, lost>>
  BY DEF V!vars
<1> QED
  BY <1>1, <1>2, <1>3, <1>4, ChangeTold, HubTold, LeaveTold, StreamTold, PageTold DEF V!Next

-----------------------------------------------------------------------------
LEMMA ViewAlwaysTyped ==
    ASSUME V!LiveViewAssumption
    PROVE  V!Spec => []V!TypeOK
<1>1. V!Init => V!TypeOK
  BY ViewInitTyped
<1>2. V!TypeOK /\ [V!Next]_V!vars => V!TypeOK'
  BY ViewStepTyped
<1> QED BY <1>1, <1>2, PTL DEF V!Spec

\* Every variable of LiveView keeps its type, whatever the clients, the room in their
\* channels and the changes: no build has read what has not happened, and no channel
\* holds more than its room.
THEOREM ViewTypeCorrect ==
    ASSUME V!LiveViewAssumption
    PROVE  V!Spec => []V!TypeOK
  BY ViewAlwaysTyped

\* A subscribed client that is behind has an event in hand or on its way, or what it
\* has not seen fell into a named window (events_hub.go, events.go): ChangeNoticed.
THEOREM NoChangeMissed ==
    ASSUME V!LiveViewAssumption
    PROVE  V!Spec => []V!ChangeNoticed
<1>1. V!Init => AllTold
  BY DEF V!Init, AllTold, V!Open, V!Away
<1>2. V!TypeOK /\ AllTold /\ [V!Next]_V!vars => AllTold'
  BY ViewStepTold
<1>3. AllTold => V!ChangeNoticed
  BY AllToldMeans
<1> QED BY <1>1, <1>2, <1>3, ViewAlwaysTyped, PTL DEF V!Spec

-----------------------------------------------------------------------------
(* A stream's screen goes on.                                               *)

\* No stream shows or builds what has not happened, and the view being built for it
\* is not older than the one it shows.
Sound(r) == /\ r.shown <= world /\ r.built <= world
            /\ r.pc = "build" => r.shown <= r.built
StreamsSound == \A c \in Streams : Sound(cl[c])

\* A step that does nothing to a stream but to queue an event for it, or that closes it.
LEMMA StreamKept ==
    ASSUME V!TypeOK, StreamsSound, NEW c \in Streams, world \in Nat, world' \in Nat,
           world' >= world,
           \/ cl'[c].pc = "off" /\ cl'[c].shown = 0 /\ cl'[c].built = 0
           \/ /\ cl'[c].pc = cl[c].pc /\ cl'[c].shown = cl[c].shown
              /\ cl'[c].built = cl[c].built
    PROVE  Sound(cl[c])' /\ V!ScreenGoesOn(c)
<1>1. cl[c].shown \in Nat /\ cl[c].built \in Nat
  BY DEF V!TypeOK, V!Screens, V!Clients
<1>2. CASE cl'[c].pc = "off" /\ cl'[c].shown = 0 /\ cl'[c].built = 0
  <2>1. c \notin V!Open'
    BY <1>2 DEF V!Open
  <2> QED BY <1>2, <2>1 DEF Sound, V!ScreenGoesOn
<1>3. CASE /\ cl'[c].pc = cl[c].pc /\ cl'[c].shown = cl[c].shown
           /\ cl'[c].built = cl[c].built
  BY <1>1, <1>3 DEF StreamsSound, Sound, V!ScreenGoesOn
<1> QED BY <1>2, <1>3

\* A step of the stream itself.
LEMMA StreamMoves ==
    ASSUME V!LiveViewAssumption, V!TypeOK, StreamsSound, NEW c \in Streams, V!Stream(c)
    PROVE  /\ Sound(cl[c])' /\ V!ScreenGoesOn(c)
           /\ world' = world /\ \A d \in Streams \ {c} : cl'[d] = cl[d]
<1>t. /\ c \in V!Clients /\ cl[c] \in V!Screens /\ world \in Nat
      /\ cl[c].shown \in Nat /\ cl[c].built \in Nat
  BY DEF V!Clients, V!TypeOK, V!Screens
<1>i. \A r : V!Is(c, r) => cl'[c] = r /\ \A d \in Streams \ {c} : cl'[d] = cl[d]
  BY <1>t DEF V!Is, V!TypeOK, V!Clients
<1>s. Sound(cl[c])
  BY DEF StreamsSound
<1>w. world' = world
  BY DEF V!Stream, V!Connect, V!Subscribe, V!Debounce, V!Safety, V!Rebuild, V!SendSnapshot,
         V!SendError
<1>1. ASSUME V!Connect(c) PROVE Sound(cl[c])' /\ V!ScreenGoesOn(c)
  <2>1. V!Is(c, [cl[c] EXCEPT !.pc = "first", !.built = world]) /\ c \notin V!Open
    BY <1>1 DEF V!Connect, V!Open
  <2>2. cl'[c].pc = "first" /\ cl'[c].built = world /\ cl'[c].shown = cl[c].shown
    <3>1. cl'[c] = [cl[c] EXCEPT !.pc = "first", !.built = world]
      BY ONLY <1>i, <2>1
    <3> QED BY ONLY <1>t, <3>1 DEF V!Screens
  <2> QED BY <1>t, <1>s, <1>w, <2>1, <2>2 DEF Sound, V!ScreenGoesOn
<1>2. ASSUME V!Subscribe(c) \/ V!SendSnapshot(c) \/ V!SendError(c) PROVE Sound(cl[c])' /\ V!ScreenGoesOn(c)
  <2>1. V!Shows(c) \/ V!ShowsError(c)
    BY <1>2 DEF V!Subscribe, V!SendSnapshot, V!SendError
  <2>2. c \in V!Open => cl[c].pc = "build"
    BY <1>2 DEF V!Subscribe, V!SendSnapshot, V!SendError, V!Open
  <2>3. CASE V!Shows(c)
    <3>1. V!Is(c, [cl[c] EXCEPT !.pc = "loop", !.built = 0, !.shown = cl[c].built])
      BY <2>3 DEF V!Shows
    <3>2. cl'[c].pc = "loop" /\ cl'[c].built = 0 /\ cl'[c].shown = cl[c].built
      <4>1. cl'[c] = [cl[c] EXCEPT !.pc = "loop", !.built = 0, !.shown = cl[c].built]
        BY ONLY <1>i, <3>1
      <4> QED BY ONLY <1>t, <4>1 DEF V!Screens
    <3> QED BY <1>t, <1>s, <1>w, <2>2, <3>2 DEF Sound, V!ScreenGoesOn
  <2>4. CASE V!ShowsError(c)
    <3>1. V!Is(c, [cl[c] EXCEPT !.pc = "loop", !.built = 0])
      BY <2>4 DEF V!ShowsError
    <3>2. cl'[c].pc = "loop" /\ cl'[c].built = 0 /\ cl'[c].shown = cl[c].shown
      <4>1. cl'[c] = [cl[c] EXCEPT !.pc = "loop", !.built = 0]
        BY ONLY <1>i, <3>1
      <4> QED BY ONLY <1>t, <4>1 DEF V!Screens
    <3> QED BY <1>t, <1>s, <1>w, <3>2 DEF Sound, V!ScreenGoesOn
  <2> QED BY <2>1, <2>3, <2>4
<1>3. ASSUME V!Debounce(c) \/ V!Safety(c) PROVE Sound(cl[c])' /\ V!ScreenGoesOn(c)
  <2>1. PICK n : V!Rebuild(c, n)
    BY <1>3 DEF V!Debounce, V!Safety
  <2>2. V!Is(c, [cl[c] EXCEPT !.pc = "build", !.queue = @ - n, !.built = world])
    BY <2>1 DEF V!Rebuild
  <2>3. cl'[c].pc = "build" /\ cl'[c].built = world /\ cl'[c].shown = cl[c].shown
    <3>1. cl'[c] = [cl[c] EXCEPT !.pc = "build", !.queue = @ - n, !.built = world]
      BY ONLY <1>i, <2>2
    <3> QED BY ONLY <1>t, <3>1 DEF V!Screens
  <2> QED BY <1>t, <1>s, <1>w, <2>3 DEF Sound, V!ScreenGoesOn
<1>4. Sound(cl[c])' /\ V!ScreenGoesOn(c)
  BY <1>1, <1>2, <1>3 DEF V!Stream
<1>5. \A d \in Streams \ {c} : cl'[d] = cl[d]
  BY <1>i DEF V!Stream, V!Connect, V!Subscribe, V!Shows, V!ShowsError, V!Debounce, V!Safety, V!Rebuild,
         V!SendSnapshot, V!SendError
<1> QED BY <1>4, <1>5, <1>w

\* Whatever else happens leaves a stream's screen and its build alone, or closes it.
LEMMA OthersKeepStreams ==
    ASSUME V!LiveViewAssumption, V!TypeOK, [V!Next]_V!vars,
           ~\E c \in Streams : V!Stream(c), NEW c \in Streams
    PROVE  /\ world' \in Nat /\ world' >= world
           /\ \/ cl'[c].pc = "off" /\ cl'[c].shown = 0 /\ cl'[c].built = 0
              \/ /\ cl'[c].pc = cl[c].pc /\ cl'[c].shown = cl[c].shown
                 /\ cl'[c].built = cl[c].built
<1>t. /\ world \in Nat /\ c \in V!Clients /\ c \notin Pages
      /\ \A d \in V!Clients : cl[d] \in V!Screens
  BY DEF V!TypeOK, V!Clients, V!LiveViewAssumption
<1>c. V!Closed(c).pc = "off" /\ V!Closed(c).shown = 0 /\ V!Closed(c).built = 0
  BY <1>t, ClosedTyped
<1>1. CASE V!handleAction \/ V!OtherProcess \/ V!FileEdit
  BY <1>1, <1>t DEF V!handleAction, V!OtherProcess, V!FileEdit, V!Change
<1>2. CASE \/ V!Watch \/ V!StageEvent \/ V!HandlerPublishes \/ V!SkipClosed \/ V!HandlerPanics
           \/ V!Poll \/ V!BuildStores
  <2>1. world' = world /\ cl' = cl
    BY <1>2 DEF V!Watch, V!StageEvent, V!HandlerPublishes, V!SkipClosed, V!HandlerPanics,
                V!Poll, V!BuildStores
  <2> QED BY <1>t, <2>1
<1>3. ASSUME NEW p \in V!Publishers, V!Send(p)
      PROVE  /\ world' = world
             /\ cl'[c].pc = cl[c].pc /\ cl'[c].shown = cl[c].shown /\ cl'[c].built = cl[c].built
  <2>1. PICK d \in pub[p].rest : V!Is(d, V!Queued(d, V!Asks(d, p))) /\ world' = world
    BY <1>3 DEF V!Send
  <2>2. d \in V!Clients /\ V!Asks(d, p) \in BOOLEAN
    BY DEF V!TypeOK, V!Open, V!Asks, V!Pubs
  <2>3. CASE d = c
    <3>1. cl'[c] = V!Queued(c, V!Asks(c, p))
      BY <1>t, <2>1, <2>3 DEF V!Is, V!TypeOK
    <3> QED BY <1>t, <2>1, <2>2, <2>3, <3>1, QueuedTyped
  <2>4. CASE d # c
    BY <1>t, <2>1, <2>4 DEF V!Is, V!TypeOK
  <2> QED BY <2>3, <2>4
<1>4. ASSUME NEW d \in V!Clients, V!Leave(d)
      PROVE  world' = world /\ (cl'[c] = V!Closed(c) \/ cl'[c] = cl[c])
  BY <1>4, <1>t DEF V!Leave, V!Is, V!TypeOK
<1>5. ASSUME NEW d \in Pages, V!Page(d) PROVE world' = world /\ cl'[c] = cl[c]
  <2>1. d # c
    BY <1>t
  <2>2. world' = world /\ \E r : V!Is(d, r)
    BY <1>5 DEF V!Page, V!PageSubscribes, V!PageAsks, V!Refetch, V!RefetchElse, V!Answered
  <2> QED BY <1>t, <2>1, <2>2 DEF V!Is, V!TypeOK
<1>6. CASE V!Restart
  <2>1. world' = world /\ cl'[c] = V!Closed(c)
    BY <1>6, <1>t DEF V!Restart
  <2> QED BY <1>t, <1>c, <2>1
<1>7. CASE UNCHANGED V!vars
  BY <1>7, <1>t DEF V!vars
<1> QED BY <1>t, <1>c, <1>1, <1>2, <1>3, <1>4, <1>5, <1>6, <1>7 DEF V!Next

LEMMA StreamsStep ==
    ASSUME V!LiveViewAssumption, V!TypeOK, StreamsSound, [V!Next]_V!vars
    PROVE  StreamsSound' /\ \A c \in Streams : V!ScreenGoesOn(c)
<1>t. world \in Nat
  BY DEF V!TypeOK
<1>1. ASSUME NEW d \in Streams, V!Stream(d), NEW c \in Streams
      PROVE  Sound(cl[c])' /\ V!ScreenGoesOn(c)
  <2>1. CASE c = d
    BY <1>1, <2>1, StreamMoves
  <2>2. CASE c # d
    <3>1. world' = world /\ cl'[c] = cl[c]
      BY <1>1, <2>2, StreamMoves
    <3> QED BY <1>t, <3>1, StreamKept
  <2> QED BY <2>1, <2>2
<1>2. ASSUME ~\E d \in Streams : V!Stream(d), NEW c \in Streams
      PROVE  Sound(cl[c])' /\ V!ScreenGoesOn(c)
  BY <1>2, <1>t, OthersKeepStreams, StreamKept
<1> QED BY <1>1, <1>2 DEF StreamsSound

\* While a stream stays, what its screen shows is never older than what it showed
\* before, whatever other streams, pages and the cache do with their own builds
\* (handleUIEvents): StreamsGoOn.
THEOREM ScreensGoOn ==
    ASSUME V!LiveViewAssumption
    PROVE  V!Spec => V!StreamsGoOn
<1>1. V!Init => StreamsSound
  BY DEF V!Init, V!Away, V!Clients, StreamsSound, Sound
<1>2. V!TypeOK /\ StreamsSound /\ [V!Next]_V!vars => StreamsSound'
  BY StreamsStep
<1>3. V!TypeOK /\ StreamsSound /\ [V!Next]_V!vars
        => [\A c \in Streams : V!ScreenGoesOn(c)]_V!vars
  BY StreamsStep
<1> QED BY <1>1, <1>2, <1>3, ViewAlwaysTyped, PTL DEF V!Spec, V!StreamsGoOn
===============================================================================
