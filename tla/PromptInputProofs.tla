--------------------------- MODULE PromptInputProofs ---------------------------
(***************************************************************************)
(* Theorems about PromptInput, for every number of wakes, characters,      *)
(* prompts and lost bridges.                                               *)
(***************************************************************************)
EXTENDS PromptInput, FiniteSetTheorems, TLAPS

\* The labels of TypeOK.
Labels == {"draft", "await", "buffered", "paste", "echo", "second", "done"}

-----------------------------------------------------------------------------
(* Types.                                                                   *)

LEMMA TypeInit == Init => TypeOK
BY PromptInputAssumption DEF Init, TypeOK, Keys

\* An Enter keeps the types of all it touches.
LEMMA PressType ==
  ASSUME TypeOK, NEW who \in SUBSET Wakes, Press(who)
  PROVE  /\ text' \in 0..text /\ unsent' \in 0..text'
         /\ pasted' \subseteq Wakes /\ fresh' \subseteq pasted'
         /\ prompt' \in {"none", "announced", "open"}
         /\ direct' \subseteq pasted' /\ merged' \subseteq Wakes /\ blind' \subseteq Wakes
         /\ hits' \subseteq {"seen", "unseen"}
         /\ mixed' \subseteq Wakes
<1> USE PromptInputAssumption DEF TypeOK, boxVars
<1>1. CASE prompt = "open" /\ prompt' = "none"
  <2>1. {IF w \in blind THEN "unseen" ELSE "seen" : w \in who} \subseteq {"seen", "unseen"}
    OBVIOUS
  <2>2. /\ hits' = hits \cup {IF w \in blind THEN "unseen" ELSE "seen" : w \in who}
        /\ blind' = {} /\ UNCHANGED <<boxVars, direct, merged, mixed, unsent>>
    BY <1>1 DEF Press
  <2>3. hits' \subseteq {"seen", "unseen"}
    BY <2>1, <2>2
  <2> QED
    BY <1>1, <2>2, <2>3
<1>2. CASE prompt # "open" /\ unsent' \in {0, unsent} /\ UNCHANGED <<boxVars, prompt, blind, hits, direct, merged, mixed>>
  BY <1>2
<1>3. CASE prompt # "open" /\ fresh = {} /\ text' = 0 /\ pasted' = {} /\ direct' = {} /\ unsent' = 0
           /\ UNCHANGED fresh
           /\ merged' \in {merged, merged \cup pasted} /\ mixed' \in {mixed, mixed \cup (who \ typedOver)}
           /\ UNCHANGED <<prompt, blind, hits>>
  BY <1>3
<1> QED
  BY <1>1, <1>2, <1>3 DEF Press

LEMMA GateType ==
  ASSUME TypeOK, NEW w \in Wakes, CheckDraft(w) \/ CheckAwaiting(w) \/ Flush(w) \/ EndGap(w)
  PROVE  TypeOK'
<1> USE PromptInputAssumption DEF TypeOK, boxVars, agentVars, operatorVars, historyVars, Goto, Withhold
<1>1. CASE CheckDraft(w)
  BY <1>1 DEF CheckDraft
<1>2. CASE CheckAwaiting(w)
  <2>1. blind' \subseteq Wakes
    BY <1>2 DEF CheckAwaiting
  <2>2. faults' \in 0..MaxFaults
    BY <1>2 DEF CheckAwaiting, Fault
  <2>3. pc' \in [Wakes -> Labels] /\ flushing' \in Wakes \cup {NoWake}
    BY <1>2 DEF CheckAwaiting, Labels
  <2> QED
    BY <1>2, <2>1, <2>2, <2>3 DEF CheckAwaiting, Labels
<1>3. CASE Flush(w)
  BY <1>3 DEF Flush
<1>4. CASE EndGap(w)
  BY <1>4 DEF EndGap
<1> QED
  BY <1>1, <1>2, <1>3, <1>4

LEMMA SubmitType ==
  ASSUME TypeOK, NEW w \in Wakes, Paste(w) \/ Enter(w) \/ EnterAgain(w)
  PROVE  TypeOK'
<1>0. {w} \in SUBSET Wakes
  OBVIOUS
<1> USE PromptInputAssumption DEF TypeOK, boxVars, agentVars, operatorVars, historyVars, Goto
<1>1. CASE Paste(w)
  BY <1>1 DEF Paste
<1>2. CASE Enter(w)
  <2>1. Press({w})
    BY <1>2 DEF Enter
  <2> QED
    BY <1>0, <1>2, <2>1, PressType DEF Enter
<1>3. CASE EnterAgain(w)
  <2>1. Press({w})
    BY <1>3 DEF EnterAgain
  <2> QED
    BY <1>0, <1>3, <2>1, PressType DEF EnterAgain
<1> QED
  BY <1>1, <1>2, <1>3

LEMMA LossType == ASSUME TypeOK, BridgeLost PROVE TypeOK'
<1> USE PromptInputAssumption DEF TypeOK, boxVars, agentVars
<1>1. /\ pc' \in [Wakes -> Labels] /\ typedOver' \subseteq Wakes
  BY DEF BridgeLost, Labels
<1>2. faults' \in 0..MaxFaults
  BY DEF BridgeLost, Fault
<1> QED
  BY <1>1, <1>2 DEF BridgeLost, Labels

LEMMA OperatorType ==
  ASSUME TypeOK, (\E k \in Keys : Note(k)) \/ Write PROVE TypeOK'
<1> USE PromptInputAssumption DEF TypeOK, boxVars, agentVars, operatorVars, deliveryVars, Keys
<1>1. ASSUME NEW k \in Keys, Note(k) PROVE TypeOK'
  <2>1. runes' \in 0..MaxRunes
    BY <1>1 DEF Note, RunesAfter
  <2>2. typedOver' \subseteq Wakes
    BY <1>1 DEF Note
  <2> QED
    BY <1>1, <2>1, <2>2 DEF Note
<1>2. CASE Write
  <2>0. /\ key' = "none"
        /\ UNCHANGED <<row, asks, runes, deliveryVars, typedOver, faults>>
    BY <1>2 DEF Write
  <2>1. CASE key = "enter" /\ Press({})
    BY <2>0, <2>1, PressType
  <2>2. CASE key # "enter" /\ prompt = "open"
    BY <1>2, <2>0, <2>2 DEF Write
  <2>3. CASE key \in {"rune", "rubout"} /\ prompt # "open"
    <3>1. UNCHANGED <<pasted, fresh, prompt, blind, hits, direct, merged, mixed>>
      BY <1>2, <2>3 DEF Write
    <3>2. text' \in 0..MaxRunes /\ unsent' \in 0..text'
      BY <1>2, <2>3 DEF Write
    <3> QED
      BY <2>0, <3>1, <3>2
  <2>4. CASE key = "clear" /\ prompt # "open"
    <3>1. /\ text' = 0 /\ unsent' = 0 /\ pasted' = {} /\ fresh' = {} /\ direct' = {}
          /\ UNCHANGED <<prompt, blind, hits, merged, mixed>>
      BY <1>2, <2>4 DEF Write
    <3> QED
      BY <2>0, <3>1
  <2> QED
    BY <1>2, <2>1, <2>2, <2>3, <2>4 DEF Write
<1> QED
  BY <1>1, <1>2

LEMMA AgentType ==
  ASSUME TypeOK, (\E w \in Wakes : Settle(w)) \/ Announce \/ Show \/ HookMoves PROVE TypeOK'
<1> USE PromptInputAssumption DEF TypeOK, boxVars, agentVars, operatorVars, deliveryVars, historyVars
<1>1. ASSUME NEW w \in Wakes, Settle(w) PROVE TypeOK'
  BY <1>1 DEF Settle
<1>2. CASE Announce
  BY <1>2 DEF Announce
<1>3. CASE Show
  BY <1>3 DEF Show
<1>4. CASE HookMoves
  BY <1>4 DEF HookMoves
<1> QED
  BY <1>1, <1>2, <1>3, <1>4

LEMMA TypeStep == TypeOK /\ [Next]_vars => TypeOK'
<1> SUFFICES ASSUME TypeOK, [Next]_vars PROVE TypeOK'
  OBVIOUS
<1>1. CASE UNCHANGED vars
  BY <1>1 DEF TypeOK, vars, boxVars, agentVars, operatorVars, deliveryVars, historyVars
<1>2. CASE Next
  BY <1>2, GateType, SubmitType, LossType, OperatorType, AgentType DEF Next, Delivery
<1> QED
  BY <1>1, <1>2

\* The type invariant, for every value of the constants.
THEOREM TypeCorrect == Spec => []TypeOK
BY TypeInit, TypeStep, PTL DEF Spec

-----------------------------------------------------------------------------
(* The gate for prompts.                                                    *)

\* What makes PromptGate inductive: as long as the agent is at a prompt, a wake
\* past its gate is one the gate could not stop, and a state that does not say
\* so stops none.
GateInv ==
    /\ "seen" \notin hits
    /\ prompt # "none" =>
         /\ \A w \in Wakes : PastAwaiting(w) => w \in blind
         /\ row = "running" => blind = Wakes

IInv == TypeOK /\ GateInv

LEMMA GateInit == Init => GateInv
BY DEF Init, GateInv

\* The Enter of a wake that is past its gate closes a prompt it could not see.
LEMMA PressGate ==
  ASSUME IInv, NEW who \in SUBSET Wakes, Press(who), \A w \in who : PastAwaiting(w)
  PROVE  /\ "seen" \notin hits'
         /\ prompt' = "none" \/ (prompt' = prompt /\ blind' = blind)
<1>1. CASE prompt = "open" /\ prompt' = "none"
  <2>1. \A w \in who : w \in blind
    BY <1>1 DEF IInv, GateInv
  <2>2. hits' \subseteq hits \cup {"unseen"}
    BY <1>1, <2>1 DEF Press
  <2> QED
    BY <1>1, <2>2 DEF IInv, GateInv
<1>2. CASE prompt # "open"
  BY <1>2 DEF Press, IInv, GateInv
<1> QED
  BY <1>1, <1>2 DEF Press

LEMMA GatesGate ==
  ASSUME IInv, NEW w \in Wakes, CheckDraft(w) \/ CheckAwaiting(w) \/ Flush(w) \/ EndGap(w)
  PROVE  GateInv'
<1>0. UNCHANGED <<hits, prompt, row>>
  BY DEF CheckDraft, CheckAwaiting, Flush, EndGap, agentVars, historyVars
<1> USE DEF IInv, TypeOK, GateInv, PastAwaiting, Goto, Withhold
<1>1. CASE CheckDraft(w)
  BY <1>0, <1>1, PromptInputAssumption DEF CheckDraft, agentVars
<1>2. CASE CheckAwaiting(w)
  <2>1. CASE row = "waiting" /\ Withhold(w) /\ UNCHANGED blind
    BY <1>0, <2>1, PromptInputAssumption
  <2>2. CASE row = "running" /\ UNCHANGED <<blind, flushing>>
    BY <1>0, <2>2
  <2>3. CASE blind' = blind \cup {w} /\ UNCHANGED flushing /\ row = "waiting"
             /\ Goto(w, IF w = flushing THEN "draft" ELSE "paste")
    <3>1. \A v \in Wakes : v # w => (PastAwaiting(v)' <=> PastAwaiting(v))
      BY <2>3
    <3> QED
      BY <1>0, <2>3, <3>1
  <2> QED
    BY <1>2, <2>1, <2>2, <2>3 DEF CheckAwaiting
<1>3. CASE Flush(w)
  BY <1>0, <1>3, PromptInputAssumption DEF Flush, agentVars
<1>4. CASE EndGap(w)
  BY <1>0, <1>4, PromptInputAssumption DEF EndGap, agentVars
<1> QED
  BY <1>1, <1>2, <1>3, <1>4

LEMMA SubmitGate ==
  ASSUME IInv, NEW w \in Wakes, Paste(w) \/ Enter(w) \/ EnterAgain(w)
  PROVE  GateInv'
<1>0. /\ UNCHANGED <<row, flushing>>
      /\ \A v \in Wakes : PastAwaiting(v)' => PastAwaiting(v)
  BY DEF Paste, Enter, EnterAgain, agentVars, PastAwaiting, Goto, IInv, TypeOK
<1>1. CASE Paste(w)
  BY <1>0, <1>1 DEF Paste, agentVars, IInv, GateInv
<1>2. CASE Enter(w) \/ EnterAgain(w)
  <2>1. Press({w}) /\ PastAwaiting(w)
    BY <1>2 DEF Enter, EnterAgain, PastAwaiting
  <2>2. "seen" \notin hits' /\ (prompt' = "none" \/ (prompt' = prompt /\ blind' = blind))
    BY <2>1, PressGate
  <2> QED
    BY <1>0, <2>2 DEF IInv, GateInv
<1> QED
  BY <1>1, <1>2

LEMMA LossGate == ASSUME IInv, BridgeLost PROVE GateInv'
<1>1. UNCHANGED <<hits, prompt, row, blind, flushing>>
  BY DEF BridgeLost, agentVars
<1>2. \A v \in Wakes : PastAwaiting(v)' => PastAwaiting(v)
  BY DEF BridgeLost, PastAwaiting
<1> QED
  BY <1>1, <1>2 DEF IInv, GateInv

LEMMA OperatorGate ==
  ASSUME IInv, (\E k \in Keys : Note(k)) \/ Write PROVE GateInv'
<1>0. UNCHANGED <<row, pc, flushing>>
  BY DEF Note, Write, agentVars, deliveryVars
<1>1. "seen" \notin hits' /\ (prompt' = "none" \/ (prompt' = prompt /\ blind' = blind))
  <2>1. CASE \E k \in Keys : Note(k)
    BY <2>1 DEF Note, agentVars, IInv, GateInv
  <2>2. CASE Write /\ key = "enter" /\ Press({})
    BY <2>2, PressGate
  <2>3. CASE Write /\ key # "enter"
    BY <2>3 DEF Write, IInv, GateInv
  <2> QED
    BY <2>1, <2>2, <2>3 DEF Write
<1> QED
  BY <1>0, <1>1 DEF IInv, GateInv, PastAwaiting

LEMMA AgentGate ==
  ASSUME IInv, (\E w \in Wakes : Settle(w)) \/ Announce \/ Show \/ HookMoves PROVE GateInv'
<1>0. UNCHANGED <<pc, flushing, hits>>
  BY DEF Settle, Announce, Show, HookMoves, deliveryVars, historyVars
<1> USE DEF IInv, GateInv, PastAwaiting
<1>1. CASE \E w \in Wakes : Settle(w)
  BY <1>0, <1>1 DEF Settle, agentVars
<1>2. CASE Announce
  BY <1>0, <1>2 DEF Announce
<1>3. CASE Show
  BY <1>0, <1>3 DEF Show
<1>4. CASE HookMoves
  BY <1>0, <1>4 DEF HookMoves
<1> QED
  BY <1>1, <1>2, <1>3, <1>4

LEMMA GateStep == IInv /\ [Next]_vars => GateInv'
<1> SUFFICES ASSUME IInv, [Next]_vars PROVE GateInv'
  OBVIOUS
<1>1. CASE UNCHANGED vars
  BY <1>1 DEF IInv, GateInv, PastAwaiting, vars, agentVars, deliveryVars, historyVars
<1>2. CASE Next
  BY <1>2, GatesGate, SubmitGate, LossGate, OperatorGate, AgentGate DEF Next, Delivery
<1> QED
  BY <1>1, <1>2

\* An Enter of a wake answers a prompt only when the prompt was recorded after
\* the wake's gate was read, or is hidden by another hook, or the read failed.
THEOREM GateHolds == Spec => []PromptGate
<1>1. Init => IInv
  BY TypeInit, GateInit DEF IInv
<1>2. IInv /\ [Next]_vars => IInv'
  BY TypeStep, GateStep DEF IInv
<1>3. IInv => PromptGate
  BY DEF IInv, GateInv, PromptGate
<1> QED
  BY <1>1, <1>2, <1>3, PTL DEF Spec

-----------------------------------------------------------------------------
(* The gate for drafts.                                                     *)

\* How the counter relates to the box: it counts a key before the key is written.
Counted ==
    /\ key = "none" => unsent <= runes
    /\ key = "rune" => unsent < runes
    /\ key = "rubout" => unsent <= runes + 1

\* As long as the agent asks nothing, a wake that is past its look at the draft
\* saw none, and the operator has typed nothing since unless it is typed over.
DraftInv ==
    asks = 0 =>
        /\ prompt = "none"
        /\ Counted
        /\ \A w \in Wakes : PastDraft(w) /\ w \notin typedOver => runes = 0
        /\ mixed = {}

LEMMA DraftInit == Init => DraftInv
BY DEF Init, DraftInv, Counted, PastDraft

LEMMA GatesDraft ==
  ASSUME TypeOK, DraftInv, NEW w \in Wakes, CheckDraft(w) \/ CheckAwaiting(w) \/ Flush(w) \/ EndGap(w)
  PROVE  DraftInv'
<1>0. /\ UNCHANGED <<asks, prompt, key, runes, unsent, mixed>>
      /\ Counted' = Counted
  BY DEF CheckDraft, CheckAwaiting, Flush, EndGap, agentVars, operatorVars, historyVars, Counted
<1> SUFFICES ASSUME asks = 0, NEW v \in Wakes, PastDraft(v)', v \notin typedOver'
             PROVE  runes = 0
  BY <1>0 DEF DraftInv
<1> USE DEF DraftInv, TypeOK, PastDraft, Goto, Withhold, historyVars
<1>1. CASE CheckDraft(w)
  BY <1>1, PromptInputAssumption DEF CheckDraft
<1>2. CASE CheckAwaiting(w)
  BY <1>2, PromptInputAssumption DEF CheckAwaiting
<1>3. CASE Flush(w)
  BY <1>3, PromptInputAssumption DEF Flush
<1>4. CASE EndGap(w)
  BY <1>4, PromptInputAssumption DEF EndGap
<1> QED
  BY <1>1, <1>2, <1>3, <1>4

LEMMA SubmitDraft ==
  ASSUME TypeOK, DraftInv, NEW w \in Wakes, Paste(w) \/ Enter(w) \/ EnterAgain(w)
  PROVE  DraftInv'
<1>0. /\ UNCHANGED <<asks, key, runes, flushing>>
      /\ \A v \in Wakes : PastDraft(v)' /\ v \notin typedOver' => PastDraft(v) /\ v \notin typedOver
  BY DEF Paste, Enter, EnterAgain, agentVars, operatorVars, PastDraft, Goto, TypeOK
<1> SUFFICES ASSUME asks = 0
             PROVE  prompt' = "none" /\ Counted' /\ mixed' = {}
  BY <1>0 DEF DraftInv
<1>1. CASE Paste(w)
  BY <1>0, <1>1 DEF Paste, agentVars, DraftInv, Counted
<1>2. CASE Enter(w) \/ EnterAgain(w)
  <2>1. Press({w}) /\ PastDraft(w) /\ key = "none"
    BY <1>2 DEF Enter, EnterAgain, PastDraft
  <2>2. unsent <= runes /\ (w \notin typedOver => runes = 0)
    BY <2>1 DEF DraftInv, Counted
  <2>3. prompt' = "none" /\ unsent' \in {0, unsent}
    BY <2>1 DEF Press, DraftInv
  <2>4. mixed' = {}
    BY <2>1, <2>2 DEF Press, DraftInv, TypeOK
  <2> QED
    BY <1>0, <2>1, <2>2, <2>3, <2>4 DEF Counted, TypeOK
<1> QED
  BY <1>1, <1>2

\* A lost bridge forgets the count, and the characters it counted.
LEMMA LossDraft == ASSUME TypeOK, DraftInv, BridgeLost PROVE DraftInv'
<1>1. UNCHANGED <<asks, prompt, mixed>> /\ runes' = 0 /\ unsent' = 0 /\ key' = "none"
  BY DEF BridgeLost, agentVars
<1> QED
  BY <1>1 DEF DraftInv, Counted

LEMMA OperatorDraft ==
  ASSUME TypeOK, DraftInv, (\E k \in Keys : Note(k)) \/ Write PROVE DraftInv'
<1> USE DEF TypeOK
<1>1. ASSUME NEW k \in Keys, Note(k) PROVE DraftInv'
  <2>1. /\ UNCHANGED <<asks, prompt, mixed, unsent, pc, flushing>>
        /\ key = "none" /\ key' = k /\ runes' = RunesAfter(k)
    BY <1>1 DEF Note, agentVars, deliveryVars
  <2>2. Counted => Counted'
    BY <2>1 DEF Counted, RunesAfter, Keys
  <2>3. ASSUME NEW w \in Wakes, PastDraft(w)', w \notin typedOver', asks = 0
        PROVE  runes' = 0
    <3>1. PastDraft(w) /\ w \notin typedOver /\ k # "rune"
      BY <1>1, <2>1, <2>3 DEF Note, PastDraft
    <3>2. runes = 0
      BY <2>1, <2>3, <3>1 DEF DraftInv
    <3> QED
      BY <2>1, <3>1, <3>2 DEF RunesAfter, Keys
  <2> QED
    BY <2>1, <2>2, <2>3 DEF DraftInv
<1>2. CASE Write
  <2>0. UNCHANGED <<asks, runes, pc, flushing, typedOver>> /\ key' = "none"
    BY <1>2 DEF Write, deliveryVars
  <2> SUFFICES ASSUME asks = 0
               PROVE  prompt' = "none" /\ unsent' <= runes /\ mixed' = {}
    BY <2>0 DEF DraftInv, Counted, PastDraft
  <2>1. CASE key = "enter" /\ Press({})
    BY <2>1 DEF Press, DraftInv
  <2>2. CASE key \in {"rune", "rubout", "clear"}
    BY <1>2, <2>2 DEF Write, DraftInv, Counted
  <2> QED
    BY <1>2, <2>1, <2>2 DEF Write, Keys
<1> QED
  BY <1>1, <1>2

LEMMA AgentDraft ==
  ASSUME TypeOK, DraftInv, (\E w \in Wakes : Settle(w)) \/ Announce \/ Show \/ HookMoves
  PROVE  DraftInv'
<1>0. UNCHANGED <<runes, key, pc, flushing, typedOver, mixed, unsent>>
  BY DEF Settle, Announce, Show, HookMoves, operatorVars, deliveryVars, historyVars
<1>1. asks' = 0 => asks = 0 /\ (prompt = "none" => prompt' = "none")
  BY DEF Settle, Announce, Show, HookMoves, agentVars, TypeOK
<1> QED
  BY <1>0, <1>1 DEF DraftInv, Counted, PastDraft

LEMMA DraftStep == TypeOK /\ DraftInv /\ [Next]_vars => DraftInv'
<1> SUFFICES ASSUME TypeOK, DraftInv, [Next]_vars PROVE DraftInv'
  OBVIOUS
<1>1. CASE UNCHANGED vars
  BY <1>1 DEF DraftInv, Counted, PastDraft, vars, agentVars, operatorVars, deliveryVars, historyVars
<1>2. CASE Next
  BY <1>2, GatesDraft, SubmitDraft, LossDraft, OperatorDraft, AgentDraft DEF Next, Delivery
<1> QED
  BY <1>1, <1>2

\* The Enter of a wake submits unsent characters only when they were typed after
\* the wake's last look at the draft, or were left there by an Enter or by a bridge
\* that took the count with it: a counter that runs ahead of the box by the key in
\* flight is enough for the others.
THEOREM DraftHolds == Spec => []DraftGate
<1>1. Init => TypeOK /\ DraftInv
  BY TypeInit, DraftInit
<1>2. TypeOK /\ DraftInv /\ [Next]_vars => (TypeOK /\ DraftInv)'
  BY TypeStep, DraftStep
<1>3. DraftInv => DraftGate
  BY DEF DraftInv, DraftGate
<1> QED
  BY <1>1, <1>2, <1>3, PTL DEF Spec

-----------------------------------------------------------------------------
(* Every wake leaves the box.                                               *)

InFlight(w) == pc[w] \in {"echo", "second"}

\* As long as no prompt and no lost bridge takes an Enter away: what the editor
\* absorbs belongs to a delivery that still has an Enter to press, a wake in the
\* box waits for some Enter, and a box without a caller's wake holds nothing but
\* the wake the flusher is submitting.
BoxInv ==
    asks = 0 /\ faults = 0 =>
        /\ prompt = "none" /\ merged = {}
        /\ \A w \in fresh : InFlight(w)
        /\ pasted = {} \/ \E w \in Wakes : InFlight(w)
        /\ \A w \in pasted : InFlight(w) => w = flushing \/ w \in direct
        /\ direct = {} => \A w \in pasted : w = flushing /\ InFlight(w)

LEMMA BoxInit == Init => BoxInv
BY DEF Init, BoxInv, InFlight

LEMMA GatesBox ==
  ASSUME TypeOK, BoxInv, NEW w \in Wakes, CheckDraft(w) \/ CheckAwaiting(w) \/ Flush(w) \/ EndGap(w)
  PROVE  BoxInv'
<1> SUFFICES ASSUME faults' = 0 PROVE BoxInv'
  BY DEF BoxInv
<1>0. UNCHANGED <<asks, faults, prompt, merged, fresh, pasted, direct>>
  BY DEF CheckDraft, CheckAwaiting, Flush, EndGap, Fault, boxVars, agentVars, historyVars, TypeOK
<1>1. \A v \in Wakes : InFlight(v)' <=> InFlight(v)
  BY DEF CheckDraft, CheckAwaiting, Flush, EndGap, Goto, Withhold, InFlight, TypeOK
<1>2. \A v \in Wakes : InFlight(v) /\ v = flushing => v = flushing'
  BY PromptInputAssumption DEF CheckDraft, CheckAwaiting, Flush, EndGap, Goto, Withhold, InFlight, TypeOK
<1> QED
  BY <1>0, <1>1, <1>2 DEF BoxInv, TypeOK

\* A message holds one wake of the flusher at most when no caller's is in it.
LEMMA NoMerge ==
  ASSUME TypeOK, BoxInv, asks = 0, faults = 0, NEW who, Press(who)
  PROVE  merged' = {}
<1>1. direct = {} => ~ Cardinality(pasted) > 1
  <2>1. Cardinality({}) = 0 /\ Cardinality({flushing}) = 1
    BY FS_EmptySet, FS_Singleton
  <2>2. direct = {} => pasted = {} \/ pasted = {flushing}
    BY DEF BoxInv
  <2> QED
    BY <2>1, <2>2
<1> QED
  BY <1>1 DEF Press, BoxInv

LEMMA SubmitBox ==
  ASSUME TypeOK, BoxInv, NEW w \in Wakes, Paste(w) \/ Enter(w) \/ EnterAgain(w)
  PROVE  BoxInv'
<1> SUFFICES ASSUME asks' = 0, faults' = 0 PROVE BoxInv'
  BY DEF BoxInv
<1>0. /\ asks = 0 /\ faults = 0 /\ UNCHANGED flushing
      /\ \A v \in Wakes : v # w => pc'[v] = pc[v]
  BY DEF Paste, Enter, EnterAgain, agentVars, Goto, TypeOK
<1>1. CASE Paste(w)
  <2>1. /\ pasted' = pasted \cup {w} /\ fresh' = fresh \cup {w}
        /\ direct' = IF w = flushing THEN direct ELSE direct \cup {w}
        /\ prompt' = "none" /\ merged' = {}
    BY <1>0, <1>1 DEF Paste, agentVars, BoxInv
  <2>2. ~ InFlight(w) /\ InFlight(w)'
    BY <1>1 DEF Paste, Goto, InFlight, TypeOK
  <2>3. direct' = {} => pasted' = {w} /\ w = flushing
    BY <1>0, <2>1, <2>2 DEF BoxInv
  <2>4. \A v \in Wakes : v # w => (InFlight(v)' <=> InFlight(v))
    BY <1>0 DEF InFlight
  <2> QED
    BY <1>0, <2>1, <2>2, <2>3, <2>4 DEF BoxInv, TypeOK
<1>2. CASE Enter(w) \/ EnterAgain(w)
  <2>1. Press({w}) /\ InFlight(w) /\ (InFlight(w)' \/ w \notin fresh)
    BY <1>2 DEF Enter, EnterAgain, InFlight, Goto, TypeOK
  <2>2. merged' = {}
    BY <1>0, <2>1, NoMerge
  <2>3. \A v \in Wakes : v # w => (InFlight(v)' <=> InFlight(v))
    BY <1>0 DEF InFlight
  <2>4. CASE fresh = {} /\ fresh' = {} /\ pasted' = {} /\ direct' = {} /\ prompt' = "none"
    BY <2>2, <2>4 DEF BoxInv
  <2>5. CASE fresh = {} /\ pasted = {} /\ UNCHANGED <<boxVars, prompt, direct>>
    BY <1>0, <2>2, <2>5 DEF BoxInv, TypeOK, boxVars
  <2>6. CASE fresh # {} /\ UNCHANGED <<boxVars, prompt, direct>>
    <3>1. PICK v \in fresh : InFlight(v)' /\ v \in Wakes
      BY <1>0, <2>1, <2>3, <2>6 DEF BoxInv, TypeOK
    <3>2. \A u \in fresh : InFlight(u)'
      BY <1>0, <2>1, <2>3 DEF BoxInv, TypeOK
    <3>3. direct = {} => \A u \in pasted : u = v
      BY <1>0, <3>1 DEF BoxInv, TypeOK
    <3>4. \A u \in pasted : InFlight(u)' => InFlight(u)
      BY <2>1, <2>3 DEF TypeOK
    <3> QED
      BY <1>0, <2>2, <2>6, <3>1, <3>2, <3>3, <3>4 DEF BoxInv, TypeOK, boxVars
  <2> QED
    BY <1>0, <2>1, <2>4, <2>5, <2>6 DEF Press, BoxInv
<1> QED
  BY <1>0, <1>1, <1>2

\* BoxInv says nothing of a box that has lost a bridge.
LEMMA LossBox == ASSUME TypeOK, BridgeLost PROVE BoxInv'
<1>1. faults' # 0
  BY DEF BridgeLost, Fault, TypeOK
<1> QED
  BY <1>1 DEF BoxInv

LEMMA OperatorBox ==
  ASSUME TypeOK, BoxInv, (\E k \in Keys : Note(k)) \/ Write PROVE BoxInv'
<1>0. UNCHANGED <<asks, faults, pc, flushing>>
  BY DEF Note, Write, agentVars, deliveryVars
<1> SUFFICES ASSUME asks = 0, faults = 0
             PROVE  /\ prompt' = "none" /\ merged' = {}
                    /\ \/ UNCHANGED <<pasted, fresh, direct>>
                       \/ pasted' = {} /\ fresh' = {} /\ direct' = {}
  BY <1>0 DEF BoxInv, InFlight
<1>1. CASE \E k \in Keys : Note(k)
  BY <1>1 DEF Note, boxVars, agentVars, BoxInv
<1>2. CASE Write
  <2>1. CASE key = "enter" /\ Press({})
    BY <2>1, NoMerge DEF Press, BoxInv, boxVars
  <2>2. CASE key \in {"rune", "rubout"}
    BY <1>2, <2>2 DEF Write, BoxInv
  <2>3. CASE key = "clear"
    BY <1>2, <2>3 DEF Write, BoxInv
  <2> QED
    BY <1>2, <2>1, <2>2, <2>3 DEF Write, TypeOK, Keys
<1> QED
  BY <1>1, <1>2

LEMMA AgentBox ==
  ASSUME TypeOK, BoxInv, (\E w \in Wakes : Settle(w)) \/ Announce \/ Show \/ HookMoves
  PROVE  BoxInv'
<1>0. /\ UNCHANGED <<faults, pc, flushing, merged, pasted, direct>>
      /\ fresh' \subseteq fresh
  BY DEF Settle, Announce, Show, HookMoves, boxVars, deliveryVars, historyVars
<1>1. asks' = 0 => asks = 0 /\ (prompt = "none" => prompt' = "none")
  BY DEF Settle, Announce, Show, HookMoves, agentVars, TypeOK
<1> QED
  BY <1>0, <1>1 DEF BoxInv, InFlight

LEMMA BoxStep == TypeOK /\ BoxInv /\ [Next]_vars => BoxInv'
<1> SUFFICES ASSUME TypeOK, BoxInv, [Next]_vars PROVE BoxInv'
  OBVIOUS
<1>1. CASE UNCHANGED vars
  BY <1>1 DEF BoxInv, InFlight, vars, boxVars, agentVars, deliveryVars, historyVars
<1>2. CASE Next
  BY <1>2, GatesBox, SubmitBox, LossBox, OperatorBox, AgentBox DEF Next, Delivery
<1> QED
  BY <1>1, <1>2

\* No wake is left unsent in the box when the last delivery is over, although the
\* pastes absorb each other's Enters, and two wakes of the flusher share no message
\* unless a caller's paste came in between.
THEOREM WakesSubmitted == Spec => []EachWakeSubmitted
<1>1. Init => TypeOK /\ BoxInv
  BY TypeInit, BoxInit
<1>2. TypeOK /\ BoxInv /\ [Next]_vars => (TypeOK /\ BoxInv)'
  BY TypeStep, BoxStep
<1>3. BoxInv => EachWakeSubmitted
  BY DEF BoxInv, InFlight, EachWakeSubmitted
<1> QED
  BY <1>1, <1>2, <1>3, PTL DEF Spec
=============================================================================
