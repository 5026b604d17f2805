------------------------------ MODULE PromptInput ------------------------------
(***************************************************************************)
(* The input box of one agent: server/terminal_wake.go's paste and submit, *)
(* the keystrokes of server/terminal_session.go and the recorded runtime   *)
(* state of server/agent_hooks.go.  Wakes, the flusher and the operator    *)
(* write to one PTY with no lock; what an Enter does depends on what the   *)
(* agent shows by then.  Buffer, holds and routing are WakeQueue's.        *)
(***************************************************************************)
EXTENDS Integers, FiniteSets

CONSTANTS
    Wakes,     \* prompts on their way to the agent
    NoWake,
    MaxRunes,  \* bound: characters the operator has typed
    MaxAsks,   \* bound: questions and permissions the agent asks for
    MaxFaults  \* bound: bridges lost and reads that fail

ASSUME PromptInputAssumption ==
    /\ NoWake \notin Wakes
    /\ MaxRunes \in Nat /\ MaxAsks \in Nat /\ MaxFaults \in Nat

Keys == {"rune", "rubout", "enter", "clear"}

VARIABLES
    text,     \* the operator's characters in the box
    pasted,   \* the wakes in the box
    fresh,    \* the ones the editor still absorbs: it takes no Enter
    prompt,   \* what the agent shows instead of the box
    row,      \* agent_runtime_states, as AwaitingHumanInput reads it
    runes,    \* terminalSession.browserDraftRunes
    key,      \* the keystroke that is counted and not yet written
    pc,       \* where the delivery of each wake is
    flushing, \* the wake the one flusher carries
    direct,   \* history: wakes in the box that a caller pasted
    merged,   \* history: wakes of the flusher submitted in one message
    blind,    \* history: wakes whose gate did not see this prompt
    hits,     \* history: how wakes answered prompts, seen or unseen
    typedOver, \* history: wakes the operator typed over after their check
    mixed,    \* history: wakes that submitted unsent characters all the same
    unsent,   \* history: characters in the box since the operator's last Enter, of
              \* those typed on the bridge that is attached now
    asks, faults

boxVars == <<text, pasted, fresh>>
agentVars == <<prompt, row, asks, blind>>
operatorVars == <<runes, key>>
deliveryVars == <<pc, flushing>>
historyVars == <<direct, merged, hits, typedOver, mixed, unsent>>
vars == <<boxVars, agentVars, operatorVars, deliveryVars, historyVars, faults>>

Init ==
    /\ text = 0 /\ pasted = {} /\ fresh = {}
    /\ prompt = "none" /\ row = "running"
    /\ runes = 0 /\ key = "none"
    /\ pc = [w \in Wakes |-> "draft"] /\ flushing = NoWake
    /\ direct = {} /\ merged = {} /\ blind = {} /\ hits = {}
    /\ typedOver = {} /\ mixed = {} /\ unsent = 0
    /\ asks = 0 /\ faults = 0

Fault == faults < MaxFaults /\ faults' = faults + 1

Goto(w, label) == pc' = [pc EXCEPT ![w] = label]

\* Past the last gate it read, a delivery does not look back.
PastDraft(w) == pc[w] \in {"paste", "echo", "second"} \/ (pc[w] = "await" /\ w # flushing)
PastAwaiting(w) == pc[w] \in {"paste", "echo", "second"} \/ (pc[w] = "draft" /\ w = flushing)

-----------------------------------------------------------------------------
(* The gates.  A caller asks for a draft first, the flusher last.           *)

\* Back to the table; the flusher gives up its guard.
Withhold(w) ==
    /\ Goto(w, "buffered")
    /\ flushing' = IF flushing = w THEN NoWake ELSE flushing

\* Mutant: the flusher does not look again before it pastes.
CheckDraftCaller(w) ==
    /\ pc[w] = "draft"
    /\ IF runes > 0 /\ w # flushing
       THEN Withhold(w) /\ UNCHANGED typedOver
       ELSE /\ Goto(w, IF w = flushing THEN "paste" ELSE "await")
            /\ typedOver' = typedOver \ {w}
            /\ UNCHANGED flushing
    /\ UNCHANGED <<boxVars, agentVars, operatorVars, direct, merged, hits, mixed, unsent, faults>>

\* browserDraftActive.
CheckDraft(w) ==
    /\ pc[w] = "draft"
    /\ IF runes > 0
       THEN Withhold(w) /\ UNCHANGED typedOver
       ELSE /\ Goto(w, IF w = flushing THEN "paste" ELSE "await")
            /\ typedOver' = typedOver \ {w}
            /\ UNCHANGED flushing
    /\ UNCHANGED <<boxVars, agentVars, operatorVars, direct, merged, hits, mixed, unsent, faults>>

\* Mutant: the gate is not asked.
CheckAwaitingNever(w) ==
    /\ pc[w] = "await"
    /\ Goto(w, IF w = flushing THEN "draft" ELSE "paste")
    /\ UNCHANGED flushing
    /\ UNCHANGED <<boxVars, agentVars, operatorVars, historyVars, faults>>

\* awaitingHumanInput, which answers no when it cannot read the state.
CheckAwaiting(w) ==
    /\ pc[w] = "await"
    /\ \/ row = "waiting" /\ Withhold(w) /\ UNCHANGED <<blind, faults>>
       \/ /\ \/ row = "running" /\ UNCHANGED <<blind, faults>>
             \/ row = "waiting" /\ Fault /\ blind' = blind \cup {w}
          /\ Goto(w, IF w = flushing THEN "draft" ELSE "paste") /\ UNCHANGED flushing
    /\ UNCHANGED <<boxVars, prompt, row, asks, operatorVars, historyVars>>

\* flushWakes, on whatever trigger: one wake at a time, its last two checks.
Flush(w) ==
    /\ flushing = NoWake
    /\ pc[w] = "buffered"
    /\ flushing' = w
    /\ Goto(w, "await")
    /\ UNCHANGED <<boxVars, agentVars, operatorVars, historyVars, faults>>

-----------------------------------------------------------------------------
(* Paste, Enter and Enter again.                                            *)

\* injectWake, injectSharedWake.  An open prompt may swallow the paste.
Paste(w) ==
    /\ pc[w] = "paste"
    /\ \/ pasted' = pasted \cup {w} /\ fresh' = fresh \cup {w}
       \/ prompt = "open" /\ UNCHANGED <<pasted, fresh>>
    /\ direct' = IF w = flushing THEN direct ELSE direct \cup (pasted' \cap {w})
    /\ Goto(w, "echo")
    /\ UNCHANGED <<text, agentVars, operatorVars, flushing, merged, hits, typedOver, mixed, unsent, faults>>

\* What the agent does with an Enter of some wake, or of the operator: answer the
\* prompt it shows, absorb it, submit the box, or nothing.
Press(who) ==
    \/ /\ prompt = "open"
       /\ prompt' = "none" /\ blind' = {}
       /\ hits' = hits \cup {IF w \in blind THEN "unseen" ELSE "seen" : w \in who}
       /\ UNCHANGED <<boxVars, direct, merged, mixed, unsent>>
    \/ /\ prompt # "open"
       /\ fresh # {} \/ (text = 0 /\ pasted = {})
       /\ unsent' = IF who = {} THEN 0 ELSE unsent
       /\ UNCHANGED <<boxVars, prompt, blind, hits, direct, merged, mixed>>
    \/ /\ prompt # "open"
       /\ fresh = {} /\ (text > 0 \/ pasted # {})
       /\ text' = 0 /\ pasted' = {} /\ direct' = {} /\ unsent' = 0 /\ UNCHANGED fresh
       /\ merged' = IF direct = {} /\ Cardinality(pasted) > 1 THEN merged \cup pasted ELSE merged
       /\ mixed' = IF unsent > 0 THEN mixed \cup (who \ typedOver) ELSE mixed
       /\ UNCHANGED <<prompt, blind, hits>>

\* Mutant: one Enter is enough.
EnterOnce(w) ==
    /\ pc[w] = "echo"
    /\ key = "none"
    /\ Press({w})
    /\ Goto(w, "done")
    /\ typedOver' = typedOver \ {w}
    /\ UNCHANGED <<row, asks, operatorVars, flushing, faults>>

\* The paste was echoed or the grace is over: the editor may still absorb.  The
\* poll outlasts the two statements between a key's count and its write.
Enter(w) ==
    /\ pc[w] = "echo"
    /\ key = "none"
    /\ Press({w})
    /\ Goto(w, "second")
    /\ UNCHANGED typedOver
    /\ UNCHANGED <<row, asks, operatorVars, flushing, faults>>

\* 700 ms later the editor has left paste mode, for this paste.
EnterAgain(w) ==
    /\ pc[w] = "second"
    /\ w \notin fresh
    /\ key = "none"
    /\ Press({w})
    /\ Goto(w, "done")
    /\ typedOver' = typedOver \ {w}
    /\ UNCHANGED <<row, asks, operatorVars, flushing, faults>>

\* The hub loses the session, which takes the draft counter and a key in flight with
\* it: deliveries through it press no Enter, although the agent and its box may live on
\* in tmux, where the deliveries that wrote there press theirs.
BridgeLost ==
    /\ Fault
    /\ runes' = 0 /\ key' = "none" /\ unsent' = 0
    /\ \E through \in SUBSET {w \in Wakes : pc[w] \in {"echo", "second"}} :
         /\ pc' = [w \in Wakes |-> IF w \in through THEN "done" ELSE pc[w]]
         /\ typedOver' = typedOver \ through
    /\ UNCHANGED <<boxVars, agentVars, flushing, direct, merged, hits, mixed>>

\* wakeFlushGap, 2.5 s: it outlasts the 1.9 s of a submit.
EndGap(w) ==
    /\ flushing = w
    /\ pc[w] = "done"
    /\ flushing' = NoWake
    /\ UNCHANGED <<boxVars, agentVars, operatorVars, pc, historyVars, faults>>

-----------------------------------------------------------------------------
(* The operator, through readLoop.                                          *)

\* terminalDraftRunesAfter, of one key.
RunesAfter(k) ==
    CASE k = "rune" -> runes + 1
      [] k = "rubout" /\ runes > 0 -> runes - 1
      [] OTHER -> 0

\* noteBrowserInput: the count comes first.
Note(k) ==
    /\ key = "none"
    /\ k = "rune" => runes < MaxRunes /\ text < MaxRunes
    /\ key' = k
    /\ runes' = RunesAfter(k)
    /\ typedOver' = IF k = "rune" THEN typedOver \cup {w \in Wakes : PastDraft(w)} ELSE typedOver
    /\ UNCHANGED <<boxVars, agentVars, deliveryVars, direct, merged, hits, mixed, unsent, faults>>

\* The write: a prompt takes the key, or the box does.
Write ==
    /\ key # "none"
    /\ key' = "none"
    /\ \/ /\ key = "enter"
          /\ Press({})
       \/ /\ key # "enter" /\ prompt = "open"
          /\ \/ UNCHANGED <<prompt, blind>>
             \/ prompt' = "none" /\ blind' = {}
          /\ UNCHANGED <<boxVars, hits, direct, merged, mixed, unsent>>
       \/ /\ key = "rune" /\ prompt # "open"
          /\ text' = text + 1 /\ unsent' = unsent + 1
          /\ UNCHANGED <<pasted, fresh, prompt, blind, hits, direct, merged, mixed>>
       \/ /\ key = "rubout" /\ prompt # "open"
          /\ text' = IF text > 0 THEN text - 1 ELSE 0
          /\ unsent' = IF unsent > 0 THEN unsent - 1 ELSE 0
          /\ UNCHANGED <<pasted, fresh, prompt, blind, hits, direct, merged, mixed>>
       \/ /\ key = "clear" /\ prompt # "open"
          /\ text' = 0 /\ pasted' = {} /\ fresh' = {} /\ direct' = {} /\ unsent' = 0
          /\ UNCHANGED <<prompt, blind, hits, merged, mixed>>
    /\ UNCHANGED <<row, asks, runes, deliveryVars, typedOver, faults>>

-----------------------------------------------------------------------------
(* The agent.                                                               *)

Settle(w) ==
    /\ w \in fresh
    /\ fresh' = fresh \ {w}
    /\ UNCHANGED <<text, pasted, agentVars, operatorVars, deliveryVars, historyVars, faults>>

\* The hook of a question or a permission is recorded before it is shown.
Announce ==
    /\ prompt = "none"
    /\ asks < MaxAsks /\ asks' = asks + 1
    /\ prompt' = "announced"
    /\ row' = "waiting"
    /\ blind' = {w \in Wakes : PastAwaiting(w)}
    /\ UNCHANGED <<boxVars, operatorVars, deliveryVars, historyVars, faults>>

Show ==
    /\ prompt = "announced"
    /\ prompt' = "open"
    /\ UNCHANGED <<boxVars, row, asks, blind, operatorVars, deliveryVars, historyVars, faults>>

\* Any other hook says the session runs: the one after an answer, or one of a
\* parallel tool while the prompt is still there, which hides it from every gate.
HookMoves ==
    /\ row = "waiting"
    /\ row' = "running"
    /\ blind' = IF prompt = "none" THEN blind ELSE Wakes
    /\ UNCHANGED <<boxVars, prompt, asks, operatorVars, deliveryVars, historyVars, faults>>

Delivery(w) ==
    \/ CheckDraft(w) \/ CheckAwaiting(w) \/ Flush(w) \/ Paste(w)
    \/ Enter(w) \/ EnterAgain(w) \/ EndGap(w)

Next ==
    \/ \E w \in Wakes : Delivery(w) \/ Settle(w)
    \/ \E k \in Keys : Note(k)
    \/ BridgeLost \/ Write \/ Announce \/ Show \/ HookMoves

Spec == Init /\ [][Next]_vars

-----------------------------------------------------------------------------
(* Properties.                                                              *)

TypeOK ==
    /\ text \in 0..MaxRunes /\ runes \in 0..MaxRunes
    /\ pasted \subseteq Wakes /\ fresh \subseteq pasted
    /\ prompt \in {"none", "announced", "open"}
    /\ row \in {"waiting", "running"}
    /\ key \in Keys \cup {"none"} /\ (key = "rune" => text < MaxRunes)
    /\ pc \in [Wakes -> {"draft", "await", "buffered", "paste", "echo", "second", "done"}]
    /\ flushing \in Wakes \cup {NoWake}
    /\ direct \subseteq pasted /\ merged \subseteq Wakes /\ blind \subseteq Wakes
    /\ hits \subseteq {"seen", "unseen"}
    /\ typedOver \subseteq Wakes /\ mixed \subseteq Wakes
    /\ unsent \in 0..text
    /\ asks \in 0..MaxAsks /\ faults \in 0..MaxFaults

\* As long as no prompt and no lost bridge takes an Enter away, no wake is left
\* unsent in the box when the last delivery is over, although pastes absorb each
\* other's Enters (terminal_wake.go: "the prompt ends up sitting unsent in the
\* box"), and two wakes of the flusher share no message unless a caller's paste
\* came in between ("settles before the next").
EachWakeSubmitted ==
    asks = 0 /\ faults = 0 =>
        /\ merged = {}
        /\ (\A w \in Wakes : pc[w] \notin {"echo", "second"}) => pasted = {}

\* As long as no prompt takes the operator's keys, the Enter of a wake submits
\* characters typed since the operator's last Enter only when the operator typed
\* after the wake's last look at the draft.  An Enter the editor absorbed ends the
\* draft for the counter (terminal_session.go: "Enter submits"), and so does a lost
\* bridge, whose agent lives on in tmux: the characters left in the box may go with a
\* wake (`unsent` counts the others).
DraftGate == asks = 0 => mixed = {}

\* The Enter of a wake answers a prompt only when the prompt was recorded after
\* the wake's last look at the runtime state, hidden since, or the look failed.
PromptGate == "seen" \notin hits

\* "an inbox event never auto-submits an open prompt" (agent_runtime.go).  It does
\* not hold: the agent may ask between the look and the Enter.
NoAutoSubmit == hits = {}
=============================================================================
