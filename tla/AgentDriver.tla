---------------------------- MODULE AgentDriver ----------------------------
(***************************************************************************)
(* The turn driver of one live agent: ReactLoopAgent (agent.ts) with its   *)
(* durable inbox (inbox.ts).  JavaScript runs one thing at a time, so the  *)
(* interleavings are of two kinds:                                         *)
(*   - at an await: stack = <<>> and drv.pc names the await the driver is  *)
(*     suspended on; any plugin may call into the agent there;             *)
(*   - inside a synchronous notification: a listener of agent/status,      *)
(*     agent/inbox/*, agent/error or session/event calls back into the     *)
(*     agent before the notifying method has finished.  "stack" holds the  *)
(*     methods that still have code to run after their notification,       *)
(*     innermost first; only its head can continue.                        *)
(***************************************************************************)
EXTENDS Naturals, Sequences, FiniteSets

CONSTANTS
  Message,    \* identities of the user messages that are ever submitted
  MaxSteps,   \* a step past this one asks for no more tool calls (bound)
  MaxDepth    \* how deep listeners call back into the agent (bound)

ASSUME MaxStepsAssumption == MaxSteps \in Nat \ {0}
ASSUME MaxDepthAssumption == MaxDepth \in Nat \ {0}

VARIABLES
  phase,     \* agent.ts Phase: kind, abort (signal state), wake, turn, step
  drv,       \* the driver's own position: await point, turnEnds, batch
  stack,     \* methods suspended in a synchronous notification
  box,       \* the two pending lists
  fate,      \* where each message is
  log,       \* the turn/step boundaries and user messages of the session log
  owner,     \* history: the turn that took m from the next-turn list, or 0
  owed,      \* history: pending waking messages the agent has to start on
  gap,       \* history: those of them sent after the driver's last look
  condemned  \* history: the current activity got a "disposed" cancel

phaseVars == <<phase, stack>>
boxVars == <<box, fate, owner>>
ghostVars == <<owed, gap, condemned>>
vars == <<phase, drv, stack, box, fate, log, owner, owed, gap, condemned>>

Lane == {"next-turn", "next-step"}
Cause == {"user", "disposed"}
Signal == Cause \cup {"live"}
Fate == Lane \cup {"unsent", "claimed", "entered", "canceled"}
(* The awaits inside a turn: on hooks, assembly, request, tools; and the two
   microtasks between the last look at the signal in preStep or prepareRequest
   and the caller that goes on with their result. *)
HookAwait == {"assemble", "prepare", "work", "stopping"}
TurnAwait == HookAwait \cup {"decided", "prepared"}
Frame == [op : {"send", "clear", "abort", "start", "opened", "admitting",
                "failing", "closing", "settle"},
          latch : BOOLEAN, cause : Signal]

Items(s) == {s[i] : i \in DOMAIN s}
Distinct(s) == \A i, j \in DOMAIN s : s[i] = s[j] => i = j
HasPending == \E l \in Lane : box[l] # <<>>
CanCall == Len(stack) < MaxDepth
Top(op) == stack # <<>> /\ stack[1].op = op
(* session.append refuses a nested append while it publishes one. *)
InAppend == Top("opened") \/ Top("admitting") \/ Top("closing")

Plain(op) == [op |-> op, latch |-> FALSE, cause |-> "live"]
Latched(op, b) == [op |-> op, latch |-> b, cause |-> "live"]
Caused(op, c) == [op |-> op, latch |-> FALSE, cause |-> c]
Push(f, rest) == <<f>> \o rest

-----------------------------------------------------------------------------
(* Waking *)

(* A waking call that finds an aborted activity cannot join it. *)
WakesAfterAbort(wakeup) ==
  wakeup /\ phase.kind # "idle" /\ phase.abort # "live"

(* Mutant: wakes are only kept behind maintenance. *)
LatchesOnlyMaintenance(afterAbort) == phase.kind = "maintenance"

(* Which wakes of a busy agent are kept for its convergence. *)
Latches(afterAbort) ==
  /\ phase.abort # "disposed"
  /\ phase.kind = "maintenance" \/ afterAbort

StartDriver(rest) ==
  /\ phase' = [phase EXCEPT !.kind = "running", !.abort = "live",
                            !.wake = FALSE, !.step = 0]
  /\ stack' = Push(Plain("start"), rest)

(* Mutant: an aborted driver is not waited for. *)
WakeAnyhow(afterAbort, rest) ==
  \/ /\ phase.kind = "idle" \/ afterAbort
     /\ StartDriver(rest)
  \/ /\ phase.kind # "idle" /\ ~afterAbort
     /\ phase' = [phase EXCEPT !.wake = @ \/ Latches(afterAbort)]
     /\ stack' = rest

WakeDriver(afterAbort, rest) ==
  \/ /\ phase.kind = "idle"
     /\ StartDriver(rest)
  \/ /\ phase.kind # "idle"
     /\ phase' = [phase EXCEPT !.wake = @ \/ Latches(afterAbort)]
     /\ stack' = rest

-----------------------------------------------------------------------------
(* The agent handle: calls any plugin may make *)

(* send, and its presets followup, steer and inject.  The tool contexts the
   loop splices into next-step are Send(m, "next-step", FALSE). *)
Send(m, l, wakeup) ==
  LET afterAbort == WakesAfterAbort(wakeup)
      dest == IF afterAbort THEN "next-turn" ELSE l
  IN  /\ CanCall /\ ~InAppend
      /\ fate[m] = "unsent"
      /\ box' = [box EXCEPT ![dest] = Append(@, m)]
      /\ fate' = [fate EXCEPT ![m] = dest]
      /\ stack' = IF wakeup THEN Push(Latched("send", afterAbort), stack)
                            ELSE stack
      /\ owed' = IF wakeup /\ phase.abort # "disposed" THEN owed \cup {m}
                                                       ELSE owed
      /\ gap' = IF wakeup /\ drv.pc = "retired" /\ phase.abort = "live"
                THEN gap \cup {m} ELSE gap
      /\ UNCHANGED <<phase, drv, log, owner, condemned>>

ReturnSend ==
  /\ Top("send")
  /\ WakeDriver(stack[1].latch, Tail(stack))
  /\ UNCHANGED <<drv, boxVars, log, ghostVars>>

(* inbox.splice as append, prepend, replace and remove use it: at position i
   of one list drop at most one message and insert at most one. *)
Splice(l, i, removed, inserted) ==
  LET list == box[l]
      dropped == SubSeq(list, i, i + removed - 1)
  IN  /\ CanCall /\ ~InAppend
      /\ i + removed <= Len(list) + 1
      /\ removed # 0 \/ inserted # <<>>
      /\ \A m \in Items(inserted) : fate[m] = "unsent"
      /\ box' = [box EXCEPT ![l] = SubSeq(list, 1, i - 1) \o inserted
                                   \o SubSeq(list, i + removed, Len(list))]
      /\ fate' = [m \in Message |-> CASE m \in Items(dropped) -> "canceled"
                                      [] m \in Items(inserted) -> l
                                      [] OTHER -> fate[m]]
      /\ owed' = owed \ Items(dropped)
      /\ gap' = gap \ Items(dropped)
      /\ UNCHANGED <<phase, drv, stack, log, owner, condemned>>

(* AbortController.abort: the first cause stays. *)
FirstCause(c) == IF phase.abort = "live" THEN c ELSE phase.abort

(* The end of cancel.  It also decides what the agent still owes: kept input
   of a cancelled turn stays parked until the next wake, input latched behind
   an earlier abort or behind maintenance is still to be run. *)
Abort(c, keepInbox, rest) ==
  /\ phase' = IF phase.kind = "idle" THEN phase
              ELSE [phase EXCEPT !.wake = @ /\ keepInbox,
                                 !.abort = FirstCause(c)]
  /\ owed' = IF /\ keepInbox
                /\ \/ phase.kind = "idle"
                   \/ phase.abort # "live"
                   \/ phase.kind = "maintenance" /\ c = "user"
             THEN owed ELSE {}
  /\ condemned' = (condemned \/ (phase.kind # "idle" /\ c = "disposed"))
  /\ stack' = rest
  /\ gap' = gap \cap owed'

Discard(l) ==
  /\ box' = [box EXCEPT ![l] = <<>>]
  /\ fate' = [m \in Message |-> IF m \in Items(box[l]) THEN "canceled"
                                                       ELSE fate[m]]
  /\ UNCHANGED <<phase, owner, ghostVars>>

(* inbox.clear empties next-step first, each list with its notifications. *)
ClearNextTurn(c, rest) ==
  \/ /\ box["next-turn"] # <<>>
     /\ Discard("next-turn")
     /\ stack' = Push(Caused("abort", c), rest)
  \/ /\ box["next-turn"] = <<>>
     /\ Abort(c, FALSE, rest)
     /\ UNCHANGED boxVars

Cancel(c, keepInbox) ==
  /\ CanCall
  /\ InAppend => keepInbox \/ ~HasPending
  /\ \/ /\ keepInbox
        /\ Abort(c, keepInbox, stack)
        /\ UNCHANGED boxVars
     \/ /\ ~keepInbox
        /\ box["next-step"] # <<>>
        /\ Discard("next-step")
        /\ stack' = Push(Caused("clear", c), stack)
     \/ /\ ~keepInbox
        /\ box["next-step"] = <<>>
        /\ ClearNextTurn(c, stack)
  /\ UNCHANGED <<drv, log>>

ReturnClear ==
  /\ Top("clear")
  /\ ClearNextTurn(stack[1].cause, Tail(stack))
  /\ UNCHANGED <<drv, log>>

ReturnAbort ==
  /\ Top("abort")
  /\ Abort(stack[1].cause, FALSE, Tail(stack))
  /\ UNCHANGED <<drv, log, boxVars>>

(* Mutant: a task that rejects on its signal skips the finally block. *)
FinishUnlessAborted ==
  /\ stack = <<>>
  /\ phase.kind = "maintenance" /\ phase.abort = "live"
  /\ IF phase.wake /\ HasPending
     THEN StartDriver(<<>>)
     ELSE phase' = [phase EXCEPT !.kind = "idle"] /\ UNCHANGED stack
  /\ UNCHANGED <<drv, boxVars, log, ghostVars>>

(* Neither edge of maintenance changes the public status: no notification. *)
StartMaintenance ==
  /\ CanCall
  /\ phase.kind = "idle"
  /\ phase' = [phase EXCEPT !.kind = "maintenance", !.abort = "live",
                            !.wake = FALSE]
  /\ UNCHANGED <<drv, stack, boxVars, log, ghostVars>>

FinishMaintenance ==
  /\ stack = <<>>
  /\ phase.kind = "maintenance"
  /\ IF phase.abort # "disposed" /\ phase.wake /\ HasPending
     THEN StartDriver(<<>>)
     ELSE /\ phase' = [phase EXCEPT !.kind = "idle", !.abort = "live",
                                    !.wake = FALSE]
          /\ UNCHANGED stack
  /\ condemned' = FALSE
  /\ UNCHANGED <<drv, boxVars, log, owed, gap>>

-----------------------------------------------------------------------------
(* The driver: kick and turn *)

(* Waiting at an await, nothing else on the JavaScript stack. *)
Resumes(pc) == stack = <<>> /\ drv.pc = pc
Live == phase.abort = "live"

(* Mutant: phase.turn is not advanced with the record. *)
OpenTurnStale(rest) ==
  /\ log' = [log EXCEPT !.openTurn = phase.turn + 1,
                        !.lastTurn = phase.turn + 1]
  /\ drv' = [drv EXCEPT !.pc = "off"]
  /\ stack' = Push(Plain("opened"), rest)
  /\ UNCHANGED phase

(* turn up to the publication of turn/start. *)
OpenTurn(rest) ==
  /\ phase' = [phase EXCEPT !.turn = @ + 1]
  /\ log' = [log EXCEPT !.openTurn = phase.turn + 1,
                        !.lastTurn = phase.turn + 1]
  /\ drv' = [drv EXCEPT !.pc = "off"]
  /\ stack' = Push(Plain("opened"), rest)

(* turn when its signal is already aborted: no boundary, kick swallows it. *)
SkipTurn(rest) ==
  /\ drv' = [drv EXCEPT !.pc = "retired"]
  /\ stack' = rest
  /\ UNCHANGED <<phase, log>>

BeginTurn(rest) ==
  \/ Live /\ OpenTurn(rest)
  \/ ~Live /\ SkipTurn(rest)

(* The status listeners have returned, kick enters its first turn. *)
ReturnStart ==
  /\ Top("start")
  /\ BeginTurn(Tail(stack))
  /\ UNCHANGED <<boxVars, ghostVars>>

(* kick's while loop takes another turn. *)
NextTurn ==
  /\ Resumes("again")
  /\ BeginTurn(<<>>)
  /\ UNCHANGED <<boxVars, ghostVars>>

(* Mutant: an interrupted step is not ended before its turn. *)
CloseTurnOnly(next, rest) ==
  /\ log' = [log EXCEPT !.openTurn = 0]
  /\ drv' = [pc |-> "off", ends |-> "none", hand |-> <<>>, owes |-> FALSE]
  /\ stack' = Push(Latched("closing", next), rest)
  /\ UNCHANGED <<phase, boxVars, ghostVars>>

(* The turn/end record.  "next" tells the exits that go on to look for more
   queued work from those that leave turn by return or throw; after a failure,
   a rejection or an empty batch, queued input stays parked. *)
CloseTurn(next, rest) ==
  /\ log' = [log EXCEPT !.openTurn = 0, !.openStep = 0]
  /\ drv' = [pc |-> "off", ends |-> "none", hand |-> <<>>, owes |-> FALSE]
  /\ stack' = Push(Latched("closing", next), rest)
  /\ owed' = IF next \/ ~Live THEN owed ELSE {}
  /\ gap' = gap \cap owed'
  /\ UNCHANGED <<phase, boxVars, condemned>>

(* Mutant: the claim takes every queued turn. *)
WholeQueue(s) == s

(* inbox.claim: all of next-step, then one queued turn if l asks for it. *)
FirstOf(s) == IF s = <<>> THEN <<>> ELSE <<Head(s)>>
Batch(l) == box["next-step"] \o
            (IF l = "next-turn" THEN FirstOf(box["next-turn"]) ELSE <<>>)

Claim(l) ==
  LET taken == Batch(l)
      queued == IF l = "next-turn" THEN Items(FirstOf(box["next-turn"]))
                                   ELSE {}
  IN  /\ box' = [box EXCEPT !["next-step"] = <<>>,
                            !["next-turn"] = IF queued = {} THEN @ ELSE Tail(@)]
      /\ fate' = [m \in Message |-> IF m \in Items(taken) THEN "claimed"
                                                          ELSE fate[m]]
      /\ owner' = [m \in Message |-> IF m \in queued THEN phase.turn
                                                     ELSE owner[m]]
      /\ owed' = owed \ Items(taken)
      /\ gap' = gap \ Items(taken)
      /\ UNCHANGED condemned

(* turn/start is published: claim the first batch and await its assembly. *)
ReturnOpened ==
  /\ Top("opened")
  /\ \/ /\ ~Live
        /\ CloseTurn(FALSE, Tail(stack))
     \/ /\ Live
        /\ Claim("next-turn")
        /\ drv' = [drv EXCEPT !.pc = "assemble", !.hand = Batch("next-turn")]
        /\ stack' = Tail(stack)
        /\ UNCHANGED <<phase, log>>

(* The next throwIfAborted after an await inside a turn: an open step is ended,
   then the turn, whatever the awaited call returned.  A prepared request has
   passed its last one. *)
Interrupted ==
  /\ stack = <<>> /\ drv.pc \in TurnAwait \ {"prepared"}
  /\ ~Live
  /\ CloseTurn(FALSE, <<>>)

(* An awaited hook, assembly, request or tool scheduler throws: the step is
   ended and agent/error is published before the turn is closed. *)
Fails ==
  /\ stack = <<>> /\ drv.pc \in HookAwait
  /\ Live
  /\ drv' = [drv EXCEPT !.pc = "off", !.hand = <<>>]
  /\ log' = [log EXCEPT !.openStep = 0]
  /\ stack' = Push(Plain("failing"), stack)
  /\ UNCHANGED <<phase, boxVars, ghostVars>>

ReturnFailing ==
  /\ Top("failing")
  /\ CloseTurn(FALSE, Tail(stack))

(* agent/pre-step has answered and preStep looks at the signal once more; its
   caller goes on a microtask later. *)
Decided ==
  /\ Resumes("assemble") /\ Live
  /\ drv' = [drv EXCEPT !.pc = "decided"]
  /\ UNCHANGED <<phase, stack, boxVars, log, ghostVars>>

(* agent/pre-step rejected the proposed step: the turn ends blocked, also when
   a cancel came in since. *)
Reject ==
  /\ Resumes("decided")
  /\ CloseTurn(FALSE, <<>>)

(* agent/pre-step enters the step with the messages its listeners kept of the
   batch; "extra" tells whether the runtime context or a listener adds one of
   its own to them. *)
Kept == {batch \in UNION {[1..n -> Items(drv.hand)] : n \in 0..Len(drv.hand)} :
           Distinct(batch)}
Nothing(batch, extra) == batch = <<>> /\ ~extra

(* Mutant: turn does not look at the signal again before step/start. *)
EnterUnchecked(batch, extra) ==
  /\ Resumes("decided")
  /\ ~(Nothing(batch, extra) /\ (drv.ends # "none" \/ phase.step = 0))
  /\ phase' = [phase EXCEPT !.step = @ + 1]
  /\ log' = [log EXCEPT !.openStep = phase.step + 1]
  /\ drv' = [drv EXCEPT !.pc = "prepare", !.hand = batch]
  /\ UNCHANGED <<stack, boxVars, ghostVars>>

EnterStep(batch, extra) ==
  /\ Resumes("decided") /\ Live
  /\ ~(Nothing(batch, extra) /\ (drv.ends # "none" \/ phase.step = 0))
  /\ phase' = [phase EXCEPT !.step = @ + 1]
  /\ log' = [log EXCEPT !.openStep = phase.step + 1]
  /\ drv' = [drv EXCEPT !.pc = "prepare", !.hand = batch]
  /\ UNCHANGED <<stack, boxVars, ghostVars>>

(* Nothing entered: a continued turn breaks off to look for queued work, a
   first step that is empty ends the turn and the driver.  Neither exit looks
   at the signal. *)
EndEmpty(batch, extra) ==
  /\ Resumes("decided")
  /\ Nothing(batch, extra)
  /\ drv.ends # "none" \/ phase.step = 0
  /\ CloseTurn(drv.ends # "none", <<>>)

(* The request and its adapter are bound, and prepareRequest looks at the
   signal for the last time; step goes on a microtask later. *)
Prepared ==
  /\ Resumes("prepare") /\ Live
  /\ drv' = [drv EXCEPT !.pc = "prepared"]
  /\ UNCHANGED <<phase, stack, boxVars, log, ghostVars>>

(* step appends the batch message by message, each append published to the
   session's listeners before the next, and looks at the signal again only
   after the last.  (The system messages before them carry none of the
   inbox: a cancel while one is published is one just before Admit.) *)
AppendNext(rest) ==
  /\ \/ /\ drv.hand # <<>>
        /\ log' = [log EXCEPT !.surface = Append(@, Head(drv.hand))]
        /\ fate' = [fate EXCEPT ![Head(drv.hand)] = "entered"]
        /\ drv' = [drv EXCEPT !.pc = "off", !.hand = Tail(@)]
        /\ stack' = Push(Plain("admitting"), rest)
     \/ /\ drv.hand = <<>>
        /\ drv' = [drv EXCEPT !.pc = "work"]
        /\ stack' = rest
        /\ UNCHANGED <<fate, log>>
  /\ UNCHANGED <<phase, box, owner, ghostVars>>

(* Mutant: the batch is appended on every attempt. *)
AdmitEveryAttempt ==
  /\ Resumes("prepared")
  /\ log' = [log EXCEPT !.surface = @ \o drv.hand]
  /\ fate' = [m \in Message |-> IF m \in Items(drv.hand) THEN "entered"
                                                         ELSE fate[m]]
  /\ drv' = [drv EXCEPT !.pc = "work"]
  /\ UNCHANGED <<phase, stack, box, owner, ghostVars>>

(* The batch becomes user/message events, on the first attempt only: a retry
   finds it empty. *)
Admit ==
  /\ Resumes("prepared")
  /\ AppendNext(<<>>)

(* The listeners of one user/message have returned. *)
ReturnAdmitting ==
  /\ Top("admitting")
  /\ AppendNext(Tail(stack))

(* agent/request-error answers retry: the same step prepares again. *)
Retry ==
  /\ Resumes("work") /\ Live
  /\ drv' = [drv EXCEPT !.pc = "prepare"]
  /\ UNCHANGED <<phase, stack, boxVars, log, ghostVars>>

(* Mutant: a step that ran tools does not map to null. *)
EndsAsReturned(outcome) ==
  IF drv.ends = "max-tokens" THEN "max-tokens" ELSE outcome

(* turnEnds after a step.  A step that ran tools, none of which concluded the
   turn, returns null; a concluding tool result counts as completed. *)
EndsAfter(outcome) ==
  CASE drv.ends = "max-tokens" -> "max-tokens"
    [] outcome = "tools" -> "none"
    [] OTHER -> outcome

(* A step returns: the turn stops here unless tools or steering continue it. *)
EndStep(outcome) ==
  /\ Resumes("work") /\ Live
  /\ outcome = "tools" => phase.step < MaxSteps
  /\ log' = [log EXCEPT !.openStep = 0]
  /\ IF EndsAfter(outcome) # "none" /\ box["next-step"] = <<>>
     THEN /\ drv' = [drv EXCEPT !.pc = "stopping",
                                !.ends = EndsAfter(outcome),
                                !.owes = (outcome = "tools")]
          /\ UNCHANGED <<boxVars, ghostVars>>
     ELSE /\ Claim("next-step")
          /\ drv' = [pc |-> "assemble", ends |-> EndsAfter(outcome),
                     hand |-> Batch("next-step"), owes |-> (outcome = "tools")]
  /\ UNCHANGED <<phase, stack>>

(* The agent/turn-stopping listeners have settled; the inbox is read again. *)
Stop ==
  /\ Resumes("stopping") /\ Live
  /\ \/ /\ box["next-step"] = <<>>
        /\ CloseTurn(TRUE, <<>>)
     \/ /\ box["next-step"] # <<>>
        /\ Claim("next-step")
        /\ drv' = [drv EXCEPT !.pc = "assemble", !.hand = Batch("next-step")]
        /\ UNCHANGED <<phase, stack, log>>

(* turn/end is published: with queued work left the driver renews its signal
   and goes on, otherwise it resolves to kick. *)
ReturnClosing ==
  /\ Top("closing")
  /\ IF stack[1].latch /\ HasPending
     THEN /\ phase' = [phase EXCEPT !.abort = "live", !.wake = FALSE,
                                    !.step = 0]
          /\ drv' = [drv EXCEPT !.pc = "again"]
          /\ condemned' = FALSE
     ELSE /\ drv' = [drv EXCEPT !.pc = "retired"]
          /\ UNCHANGED <<phase, condemned>>
  /\ stack' = Tail(stack)
  /\ UNCHANGED <<boxVars, log, owed, gap>>

(* kick resumes a microtask after its last turn settled. *)
Settle ==
  /\ Resumes("retired")
  /\ phase' = [phase EXCEPT !.kind = "idle", !.abort = "live",
                            !.wake = FALSE, !.step = 0]
  /\ drv' = [drv EXCEPT !.pc = "off"]
  /\ stack' = Push([op |-> "settle", latch |-> phase.wake,
                    cause |-> IF condemned THEN "disposed" ELSE "live"], stack)
  /\ condemned' = FALSE
  /\ UNCHANGED <<boxVars, log, owed, gap>>

(* Mutant: the latched wake is not replayed. *)
SettleWithoutReplay ==
  /\ Top("settle")
  /\ stack' = Tail(stack)
  /\ UNCHANGED <<phase, drv, boxVars, log, ghostVars>>

(* The idle listeners have returned: replay a latched wake. *)
ReturnSettle ==
  /\ Top("settle")
  /\ IF stack[1].latch /\ HasPending
     THEN WakeDriver(FALSE, Tail(stack))
     ELSE stack' = Tail(stack) /\ UNCHANGED phase
  /\ UNCHANGED <<drv, boxVars, log, ghostVars>>

-----------------------------------------------------------------------------
Init ==
  /\ phase = [kind |-> "idle", abort |-> "live", wake |-> FALSE,
              turn |-> 0, step |-> 0]
  /\ drv = [pc |-> "off", ends |-> "none", hand |-> <<>>, owes |-> FALSE]
  /\ stack = <<>>
  /\ box = [l \in Lane |-> <<>>]
  /\ fate = [m \in Message |-> "unsent"]
  /\ log = [openTurn |-> 0, lastTurn |-> 0, openStep |-> 0, surface |-> <<>>]
  /\ owner = [m \in Message |-> 0]
  /\ owed = {} /\ gap = {} /\ condemned = FALSE

(* Calls: made when and if a plugin or a user wants to. *)
Call ==
  \/ \E m \in Message, l \in Lane, w \in BOOLEAN : Send(m, l, w)
  \/ \E l \in Lane, i \in 1..(Cardinality(Message) + 1), r \in {0, 1},
        ins \in {<<>>} \cup {<<m>> : m \in Message} : Splice(l, i, r, ins)
  \/ \E c \in Cause, k \in BOOLEAN : Cancel(c, k)
  \/ StartMaintenance

(* Synchronous code that runs on once its listeners have returned. *)
Return ==
  \/ ReturnSend \/ ReturnClear \/ ReturnAbort \/ ReturnStart \/ ReturnOpened
  \/ ReturnAdmitting \/ ReturnFailing \/ ReturnClosing \/ ReturnSettle

Finish == \E o \in {"completed", "max-tokens", "tools"} : EndStep(o)

(* The driver goes on after an await. *)
Resume ==
  \/ Interrupted \/ Fails \/ Decided \/ Reject
  \/ \E batch \in Kept, extra \in BOOLEAN :
        EnterStep(batch, extra) \/ EndEmpty(batch, extra)
  \/ Prepared \/ Admit \/ Retry \/ Finish \/ Stop \/ NextTurn \/ Settle

Next == Call \/ Return \/ Resume \/ FinishMaintenance

Spec == Init /\ [][Next]_vars

(* The event loop runs queued microtasks and synchronous code to its end; every
   awaited hook, assembly, request, tool and maintenance task settles; and a
   provider does not answer every attempt with a retryable failure. *)
Fairness ==
  /\ WF_vars(Return) /\ WF_vars(Resume) /\ WF_vars(FinishMaintenance)
  /\ SF_vars(Finish)

FairSpec == Spec /\ Fairness

-----------------------------------------------------------------------------
(* Properties *)

PhaseType == [kind : {"idle", "maintenance", "running"}, abort : Signal,
              wake : BOOLEAN, turn : Nat, step : Nat]
DriverType == [pc : TurnAwait \cup {"off", "again", "retired"},
               ends : {"none", "completed", "max-tokens"},
               hand : Seq(Message), owes : BOOLEAN]
LogType == [openTurn : Nat, lastTurn : Nat, openStep : Nat,
            surface : Seq(Message)]

(* The values the variables range over. *)
TypeOK ==
  /\ phase \in PhaseType /\ drv \in DriverType /\ log \in LogType
  /\ stack \in Seq(Frame)
  /\ box \in [Lane -> Seq(Message)]
  /\ fate \in [Message -> Fate] /\ owner \in [Message -> Nat]
  /\ owed \in SUBSET Message /\ gap \in SUBSET owed
  /\ condemned \in BOOLEAN

ListsExact ==
  \A l \in Lane : /\ Distinct(box[l])
                  /\ Items(box[l]) = {m \in Message : fate[m] = l}
HistoryExact ==
  /\ Distinct(log.surface)
  /\ Items(log.surface) = {m \in Message : fate[m] = "entered"}
HandExact ==
  /\ Distinct(drv.hand)
  /\ \A m \in Items(drv.hand) : fate[m] = "claimed"

(* Every message is in one place: pending once in the list it was routed to,
   or taken by one batch, or cancelled, or in the history once.  Whatever mix
   of sends, splices, claims and cancels from listeners, none is lost from a
   list or delivered twice (inbox.ts mutate; agent.ts firstAttempt). *)
MailboxExact == ListsExact /\ HistoryExact /\ HandExact

DriverOps == {"start", "opened", "admitting", "failing", "closing"}
Suspended(s, ops) == \E i \in DOMAIN s : s[i].op \in ops
AtMostOne(s, ops) ==
  \A i, j \in DOMAIN s : s[i].op \in ops /\ s[j].op \in ops => i = j

(* One driver: a running agent has exactly one driver, suspended at an await
   or in one notification, and an agent that is not running has none, although
   listeners may wake it again from inside its own status change. *)
SingleDriver ==
  /\ phase.kind = "running" <=> (drv.pc # "off" \/ Suspended(stack, DriverOps))
  /\ drv.pc # "off" => ~Suspended(stack, DriverOps)
  /\ AtMostOne(stack, DriverOps)

(* The durable boundaries and the driver agree: a turn is open exactly while
   the driver is inside it and carries the number of the phase, a step is open
   exactly while its request is prepared, its batch admitted or it is at work.  So an agent that is idle
   never leaves an open turn behind in the log. *)
LogAgrees ==
  /\ log.lastTurn = phase.turn
  /\ log.openTurn # 0 => log.openTurn = phase.turn
  /\ log.openTurn # 0 <=> \/ drv.pc \in TurnAwait
                          \/ Suspended(stack, {"opened", "admitting", "failing"})
  /\ log.openStep # 0 => log.openStep = phase.step
  /\ log.openStep # 0 <=> \/ drv.pc \in {"prepare", "prepared", "work"}
                          \/ Suspended(stack, {"admitting"})

(* A follow-up is the sole ordinary message of its own turn: no turn takes two
   messages from the next-turn list. *)
SoleFollowup ==
  \A m, n \in Message : owner[m] = owner[n] /\ owner[m] # 0 => m = n

(* A wake is not lost: once the agent has come to rest, no waking message that
   it still had to start on is left in its inbox.  "owed" leaves out what a
   cancel, a rejection, an empty batch or a failure parks; the messages of
   "gap" are the subject of NoWakeLostAtAll. *)
AtRest == stack = <<>> /\ phase.kind = "idle"
NoWakeLost == AtRest => owed \subseteq gap

(* The same without the exception: "Live drivers claim queued work
   themselves". *)
NoWakeLostAtAll == AtRest => owed = {}

(* The turn-stopping notification promises that the model owes no response:
   the step before it left no tool results to be answered. *)
StoppingOwesNothing == drv.pc = "stopping" => ~drv.owes

(* After a cancel reached an open turn, that turn opens no further step, takes
   nothing more from the inbox, prepares no request, and adds to the history
   only the batch of a request whose preparation had passed its last look at
   the signal.  (The cancel may fall between that look, agent.ts:549, and the
   appends of 371-378, or come from a listener of one of them; it is seen
   after the batch.) *)
Admitting == drv.pc = "prepared" \/ Suspended(stack, {"admitting"})
CancelHolds ==
  [][ phase.kind = "running" /\ ~Live /\ log.openTurn # 0
      => /\ log'.openStep \in {0, log.openStep}
         /\ \A m \in Message : fate[m] \in Lane => fate'[m] # "claimed"
         /\ Admitting' \/ log'.surface # log.surface => Admitting ]_vars

(* Turn numbers are dense: a new turn/start is the last one's successor, and
   it is only written when no turn is open. *)
TurnsDense ==
  [][ log'.openTurn # log.openTurn /\ log'.openTurn # 0
      => log.openTurn = 0 /\ log'.openTurn = log.lastTurn + 1 ]_vars

(* "disposal never latches": an activity that got a "disposed" cancel is not
   followed by a driver started for a latched wake. *)
DisposalStartsNoTurn ==
  [][ /\ Top("settle") /\ stack[1].cause = "disposed" /\ ReturnSettle
        => phase' = phase
      /\ condemned /\ FinishMaintenance => phase'.kind = "idle" ]_vars

(* The mailbox promise: with the session log's open turn and history, every
   step of the driver and of its callers is one of TurnMailbox or changes
   nothing of it. *)
Mailbox == INSTANCE TurnMailbox WITH openTurn <- log.openTurn,
                                     lastTurn <- log.lastTurn,
                                     surface <- log.surface
MailboxPromise == Mailbox!Spec

(* A cancelled activity converges: it ends, or the driver has moved on to a
   turn with a fresh signal. *)
CancelConverges == (phase.kind # "idle" /\ ~Live) ~> Live

(* A waking message the agent has to start on is eventually taken by a turn,
   or withdrawn, or parked by a cancel or by the end of a failed turn. *)
WakesServed == \A m \in Message : (m \in owed \ gap) ~> (m \notin owed)
=============================================================================
