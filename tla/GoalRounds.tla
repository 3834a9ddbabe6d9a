----------------------------- MODULE GoalRounds -----------------------------
(***************************************************************************)
(* Automatic goal rounds: the goal service, the strict fold that replays   *)
(* its log, the goal-round driver and the agent whose turns the rounds     *)
(* are.                                                                    *)
(*                                                                         *)
(* While the agent is idle the driver reserves the next round of an armed  *)
(* goal and queues it as a message; the message is fenced before and after *)
(* the other pre-step listeners and consumes a round when it is logged.    *)
(* Events are delivered synchronously, so that one call (a goal change, a  *)
(* turn that ends) runs through several handlers and may start the driver, *)
(* which may wake the agent: these are operators on the record of all      *)
(* state, and a step applies one of them.                                  *)
(***************************************************************************)
EXTENDS Naturals, Sequences

CONSTANTS
  MaxRounds,    \* the largest maxGoalRounds (bound)
  MaxChanges,   \* how often users and the model change the goal (bound)
  MaxHumans,    \* how many prompts a user sends (bound)
  MaxCancels,   \* how often a user cancels (bound)
  MaxRuns,      \* how many runs of the driver's loop overlap (bound)
  LateChanges   \* whether hosts change the goal between fence and log

ASSUME BoundsAssumption ==
  /\ {MaxRounds, MaxRuns} \subseteq Nat \ {0}
  /\ {MaxChanges, MaxHumans, MaxCancels} \subseteq Nat
ASSUME LateChangesAssumption == LateChanges \in BOOLEAN

VARIABLES
  goal,     \* the folded goal and its activation
  agent,    \* the stage of the agent's turn and its next-turn inbox
  driver,   \* DriverState of the goal-round driver
  durable,  \* the goal revision that a completed flush covers
  failed,   \* the fold has rejected an event: the goal is lost
  asked,    \* the last revision of the goal that somebody asked for
  halted,   \* the revision on which the last cancelled turn worked
  budget    \* what remains of the bounds

vars == <<goal, agent, driver, durable, failed, asked, halted, budget>>

(* `ref` counts every change: it stands for the pair of id and revision, which
   code only compares. *)
NoGoal == [ref |-> 0, phase |-> "none", rounds |-> 0, max |-> 1, armed |-> FALSE]

(* A message is a user's prompt or the prompt of a round. *)
Human == [ref |-> 0, round |-> 0]

NoAttempt == [ref |-> 0, round |-> 0, phase |-> "none", cancelled |-> FALSE,
              stale |-> FALSE]

(* The runs of requestDrive's loop.  There may be several: `busy` is that
   state.run is set, which is not the same. *)
Run == 1..MaxRuns
NoRun == [st |-> "none", from |-> 0]

Init ==
  /\ goal = NoGoal
  /\ agent = [stage |-> "idle", cur |-> Human, queue |-> <<>>,
              aborted |-> FALSE, latched |-> FALSE]
  /\ driver = [attempt |-> NoAttempt, competing |-> FALSE, needs |-> FALSE,
               requested |-> FALSE, busy |-> FALSE, stopping |-> FALSE,
               runs |-> [r \in Run |-> NoRun]]
  /\ durable = 0
  /\ failed = FALSE
  /\ asked = 0
  /\ halted = 0
  /\ budget = [changes |-> MaxChanges, humans |-> MaxHumans, cancels |-> MaxCancels]

World == [goal |-> goal, agent |-> agent, driver |-> driver]

Becomes(w) == /\ goal' = w.goal
              /\ agent' = w.agent
              /\ driver' = w.driver

-----------------------------------------------------------------------------
(* The goal service *)

Operation == {"create", "edit", "pause", "resume", "complete", "block", "clear"}

(* The transitions the service and the fold allow. *)
Allowed(g, op) ==
  CASE op = "create" -> g.phase \in {"none", "complete"}
    [] op \in {"edit", "clear"} -> g.phase # "none"
    [] op \in {"pause", "block"} -> g.phase = "active"
    [] op = "resume" -> /\ g.phase \in {"active", "paused", "blocked"}
                        /\ ~(g.phase = "active" /\ g.armed)
                        /\ g.rounds < g.max
    [] op = "complete" -> g.phase \in {"active", "paused", "blocked"}

PhaseAfter(g, op) ==
  CASE op = "edit" -> g.phase
    [] op \in {"create", "resume"} -> "active"
    [] op = "pause" -> "paused"
    [] op = "block" -> "blocked"
    [] op = "complete" -> "complete"
    [] op = "clear" -> "none"

(* commit: the new revision and its activation. *)
After(g, op, cap) ==
  [ref |-> g.ref + 1,
   phase |-> PhaseAfter(g, op),
   rounds |-> IF op \in {"create", "clear"} THEN 0 ELSE g.rounds,
   max |-> IF op \in {"create", "edit"} THEN cap ELSE g.max,
   armed |-> op \in {"create", "resume"} \/ (op = "edit" /\ g.armed)]

Pursued(g) == g.phase = "active" /\ g.armed

Disarm(w) == [w EXCEPT !.goal.armed = FALSE]

-----------------------------------------------------------------------------
(* The agent: waking, claiming *)

IsRound(m) == m.round > 0

Same(m, a) == a.phase # "none" /\ m.ref = a.ref /\ m.round = a.round

(* A turn starts: it claims the head of the queue under a fresh signal, and
   the driver marks its own message as claimed. *)
Claim(w) ==
  LET m == Head(w.agent.queue)
  IN  [w EXCEPT !.agent.stage = "assembling", !.agent.cur = m,
                !.agent.queue = Tail(@), !.agent.aborted = FALSE,
                !.agent.latched = FALSE,
                !.driver.attempt = IF Same(m, @) THEN [@ EXCEPT !.phase = "claimed"]
                                   ELSE @]

-----------------------------------------------------------------------------
(* The driver's loop *)

Ready(w) == /\ ~w.driver.stopping
            /\ w.agent.stage = "idle"
            /\ ~w.driver.competing

(* Mutant: what changed during the checkpoint is not looked at again. *)
ReadyAsBefore(w) == Ready(w)
ReadyAfterCheckpoint(w) == Ready(w) /\ ~w.driver.needs

FreeRun(w) == CHOOSE r \in Run : w.driver.runs[r].st = "none"

InLoop(w, r) == [w EXCEPT !.driver.runs[r] = [st |-> "loop", from |-> 0]]

(* A flush begins: it covers the revisions logged so far. *)
Checkpoint(w, r) ==
  [w EXCEPT !.driver.needs = FALSE,
            !.driver.runs[r] = [st |-> "flushing", from |-> w.goal.ref]]

(* The round limit blocks the goal, which requests the driver from within the
   driver: a run that is not yet, or no longer, in state.run gets a second
   one beside it, which is at once at its checkpoint. *)
LimitReached(w) ==
  LET b == [w EXCEPT !.goal = After(@, "block", 1)]
  IN  IF b.driver.busy
      THEN [b EXCEPT !.driver.needs = TRUE, !.driver.requested = TRUE]
      ELSE [Checkpoint(b, FreeRun(b)) EXCEPT !.driver.busy = TRUE,
                                             !.driver.requested = FALSE]

(* The next round is reserved and its message sent, which wakes the idle
   agent. *)
Reserve(w) ==
  LET m == [ref |-> w.goal.ref, round |-> w.goal.rounds + 1]
  IN  Claim([w EXCEPT !.agent.queue = Append(@, m),
                      !.driver.attempt = [ref |-> m.ref, round |-> m.round,
                                          phase |-> "queued", cancelled |-> FALSE,
                                          stale |-> FALSE]])

(* drive() past its checkpoint, in the run r that is in its loop. *)
Proceed(w) ==
  CASE w.driver.attempt # NoAttempt ->
         [w EXCEPT !.driver.attempt = NoAttempt, !.driver.needs = TRUE,
                   !.driver.requested = TRUE]
    [] w.driver.attempt = NoAttempt /\ ~Pursued(w.goal) -> w
    [] w.driver.attempt = NoAttempt /\ Pursued(w.goal) ->
         IF w.goal.rounds >= w.goal.max THEN LimitReached(w) ELSE Reserve(w)

Drive(w, r) ==
  LET l == InLoop(w, r)
  IN  CASE ~Ready(l) -> l
        [] Ready(l) /\ l.driver.needs -> Checkpoint(l, r)
        [] Ready(l) /\ ~l.driver.needs -> Proceed(l)

(* requestDrive: without a run it starts one, which drives up to its first
   await before state.run is set. *)
RequestDrive(w) ==
  CASE w.driver.stopping -> w
    [] ~w.driver.stopping /\ w.driver.busy -> [w EXCEPT !.driver.requested = TRUE]
    [] ~w.driver.stopping /\ ~w.driver.busy ->
         [Drive([w EXCEPT !.driver.requested = FALSE], FreeRun(w))
            EXCEPT !.driver.busy = TRUE]

(* Every goal change is a durability obligation; a pause from outside the
   agent stops its turn. *)
Changed(w, op, cap, outside) ==
  RequestDrive([w EXCEPT !.goal = After(@, op, cap),
                         !.driver.needs = TRUE,
                         !.agent.aborted = @ \/ /\ op = "pause"
                                                /\ w.agent.stage # "idle"
                                                /\ outside])

-----------------------------------------------------------------------------
(* The end of a turn *)

CutOff(a) == a.phase \in {"claimed", "admitted"}

(* turn/end, and agent/error before it. *)
TurnEnded(w, reason) ==
  CASE reason \in {"max-tokens", "error"} -> Disarm(w)
    [] reason = "aborted" -> IF CutOff(w.driver.attempt)
                             THEN [w EXCEPT !.driver.attempt.cancelled = TRUE]
                             ELSE Disarm(w)
    [] reason \in {"completed", "blocked"} -> w

(* Mutant: an admitted round that was cancelled counts as done. *)
DroppedUnlogged(w) ==
  /\ w.driver.attempt.phase \in {"queued", "claimed"}
  /\ Pursued(w.goal)
  /\ w.driver.attempt.ref = w.goal.ref

(* The attempt that did not run its course, if the goal is still its own. *)
Dropped(w) ==
  LET a == w.driver.attempt
  IN  /\ a.phase \in {"queued", "claimed"} \/ a.cancelled
      /\ Pursued(w.goal)
      /\ a.ref = w.goal.ref

(* The agent is idle: a dropped attempt pauses its goal, the driver is asked
   to drive, and a wake latched during the abort is replayed. *)
Settle(w) ==
  LET i == [w EXCEPT !.agent.stage = "idle", !.agent.cur = Human,
                     !.agent.aborted = FALSE, !.agent.latched = FALSE,
                     !.driver.competing = FALSE]
      p == IF Dropped(i)
           THEN Changed([i EXCEPT !.driver.attempt = NoAttempt], "pause", 1, FALSE)
           ELSE i
      d == RequestDrive(p)
  IN  IF w.agent.latched /\ d.agent.stage = "idle" /\ d.agent.queue # <<>>
      THEN Claim(d) ELSE d

EndTurn(w, reason) ==
  LET e == TurnEnded(w, reason)
  IN  IF reason \in {"completed", "max-tokens"} /\ e.agent.queue # <<>>
      THEN Claim(e) ELSE Settle(e)

-----------------------------------------------------------------------------
(* The steps of the agent *)

(* Mutant: the reservation is believed without comparing revisions. *)
ReservationStands(w) ==
  /\ w.driver.attempt.phase = "claimed"
  /\ ~w.driver.attempt.stale
  /\ Same(w.agent.cur, w.driver.attempt)
  /\ w.agent.cur.round = w.goal.rounds + 1

ValidReservation(w) ==
  /\ ~w.driver.stopping
  /\ w.driver.attempt.phase = "claimed"
  /\ ~w.driver.attempt.stale
  /\ Same(w.agent.cur, w.driver.attempt)
  /\ Pursued(w.goal)
  /\ w.agent.cur.ref = w.goal.ref
  /\ w.agent.cur.round = w.goal.rounds + 1

ClearAttempt(w) == [w EXCEPT !.driver.attempt = NoAttempt]

AtStage(stage) == agent.stage = stage

Unbudgeted == UNCHANGED <<durable, failed, asked, halted, budget>>

(* The turn ends after what the handler did.  A turn that ends as cancelled cut
   off the round of its attempt, or else worked for the goal as it was. *)
Ends(w, reason) ==
  /\ Becomes(EndTurn(w, reason))
  /\ halted' = CASE reason # "aborted" -> halted
                [] reason = "aborted" /\ CutOff(w.driver.attempt) -> w.driver.attempt.ref
                [] reason = "aborted" /\ ~CutOff(w.driver.attempt) -> w.goal.ref
  /\ UNCHANGED <<durable, failed, asked, budget>>

(* The turn goes on at a stage. *)
Reaches(w, stage) == Becomes([w EXCEPT !.agent.stage = stage]) /\ Unbudgeted

RunAt(r, st) == driver.runs[r].st = st

(* No run has a continuation due: those are microtasks, which go before any
   answer of the model or the store and before any call from outside. *)
Quiet == \A r \in Run : RunAt(r, "none") \/ RunAt(r, "flushing")

(* Assembling the prompt was interrupted, or failed. *)
AssemblyFails ==
  /\ AtStage("assembling")
  /\ Ends(World, IF agent.aborted THEN "aborted" ELSE "error")

(* A turn of the user's enters its step, or is rejected by a listener. *)
PreStepHuman ==
  /\ AtStage("assembling")
  /\ ~agent.aborted
  /\ ~IsRound(agent.cur)
  /\ \/ Reaches(World, "working")
     \/ Reaches(World, "rejected")

(* The first fence, which outer listeners may reach after an abort. *)
PreStepRound ==
  /\ AtStage("assembling")
  /\ IsRound(agent.cur)
  /\ IF ValidReservation(World)
     THEN Reaches(World, "downstream")
     ELSE Reaches(RequestDrive(IF Same(agent.cur, driver.attempt)
                               THEN ClearAttempt(World) ELSE World),
                  "rejected")

(* The inner listeners throw. *)
DownstreamThrows ==
  /\ AtStage("downstream")
  /\ IF agent.aborted
     THEN Ends(World, "aborted")
     ELSE Reaches(RequestDrive(ClearAttempt(World)), "failing")

(* An inner listener rejects the round: the goal is blocked if it is still the
   round's. *)
DownstreamRejects ==
  LET c == ClearAttempt(World)
  IN  /\ AtStage("downstream")
      /\ ~agent.aborted
      /\ Reaches(IF Pursued(goal) /\ goal.ref = agent.cur.ref
                 THEN Changed(c, "block", 1, FALSE) ELSE c,
                 "rejected")

(* The second fence.  An abort passes through it and is met right after. *)
DownstreamEnters ==
  /\ AtStage("downstream")
  /\ CASE agent.aborted -> Ends(World, "aborted")
       [] ~agent.aborted /\ ValidReservation(World) -> Reaches(World, "entering")
       [] ~agent.aborted /\ ~ValidReservation(World) ->
            Reaches(RequestDrive(ClearAttempt(World)), "rejected")

(* A rejection or an error passes the outer listeners, which may throw
   themselves; an abort is met unless it comes after the last look at the
   signal. *)
RejectionEnds ==
  /\ AtStage("rejected") \/ AtStage("failing")
  /\ \/ AtStage("rejected") /\ Ends(World, "blocked")
     \/ Ends(World, IF agent.aborted THEN "aborted" ELSE "error")

(* The outer listeners and the preparation of the request fail. *)
EntryFails ==
  /\ AtStage("entering")
  /\ Ends(World, IF agent.aborted THEN "aborted" ELSE "error")

(* The request is prepared: the last look at the signal before the log, which
   comes a microtask later. *)
Prepared ==
  /\ AtStage("entering")
  /\ ~agent.aborted
  /\ Reaches(World, "prepared")

(* The round's message is logged and folded. *)
NextRound(g, m) == /\ g.phase = "active"
                   /\ m.ref = g.ref
                   /\ m.round = g.rounds + 1
                   /\ m.round <= g.max

Admit ==
  /\ AtStage("prepared")
  /\ agent' = [agent EXCEPT !.stage = "working"]
  /\ driver' = [driver EXCEPT !.attempt = IF Same(agent.cur, @)
                                          THEN [@ EXCEPT !.phase = "admitted"] ELSE @]
  /\ IF NextRound(goal, agent.cur)
     THEN goal' = [goal EXCEPT !.rounds = agent.cur.round] /\ UNCHANGED failed
     ELSE failed' = TRUE /\ UNCHANGED goal
  /\ UNCHANGED <<durable, asked, halted, budget>>

(* The model's goal tools: in a user's turn everything but clearing a goal or
   resuming a paused one, in the turn of a round the outcome of its goal. *)
ModelChanges(op, cap) ==
  /\ AtStage("working")
  /\ Quiet
  /\ IF IsRound(agent.cur)
     THEN op \in {"complete", "block"} /\ agent.cur.ref = goal.ref
     ELSE op # "clear" /\ ~(op = "resume" /\ goal.phase = "paused")
  /\ Allowed(goal, op)
  /\ budget.changes > 0
  /\ Becomes(Changed(World, op, cap, FALSE))
  /\ budget' = [budget EXCEPT !.changes = @ - 1]
  /\ asked' = goal.ref + 1
  /\ UNCHANGED <<durable, failed, halted>>

WorkEnds(reason) ==
  /\ AtStage("working")
  /\ Quiet
  /\ agent.aborted = (reason = "aborted")
  /\ Ends(World, reason)

-----------------------------------------------------------------------------
(* The steps of the driver's runs *)

FlushDone(r) ==
  /\ RunAt(r, "flushing")
  /\ Quiet
  /\ durable' = IF driver.runs[r].from > durable THEN driver.runs[r].from ELSE durable
  /\ LET l == InLoop(World, r)
     IN  Becomes(IF ReadyAfterCheckpoint(l) THEN Proceed(l) ELSE l)
  /\ UNCHANGED <<failed, asked, halted, budget>>

FlushFails(r) ==
  /\ RunAt(r, "flushing")
  /\ Quiet
  /\ Becomes(Disarm(InLoop(World, r)))
  /\ Unbudgeted

LoopContinues(r) ==
  /\ RunAt(r, "loop")
  /\ driver.requested
  /\ ~driver.stopping
  /\ Becomes(Drive([World EXCEPT !.driver.requested = FALSE], r))
  /\ Unbudgeted

LoopEnds(r) ==
  /\ RunAt(r, "loop")
  /\ ~driver.requested \/ driver.stopping
  /\ Becomes([World EXCEPT !.driver.runs[r].st = "retiring"])
  /\ Unbudgeted

(* Mutant: what was requested since the loop ended is forgotten. *)
Forgets(w) == w
Resumes(w) == IF w.driver.requested THEN RequestDrive(w) ELSE w

Retire(r) ==
  /\ RunAt(r, "retiring")
  /\ Becomes(Resumes([World EXCEPT !.driver.busy = FALSE, !.driver.runs[r] = NoRun]))
  /\ Unbudgeted

-----------------------------------------------------------------------------
(* Users and the host *)

(* A prompt: it marks a queued round stale, and wakes the agent or, sent after
   an abort, is latched. *)
HumanSends ==
  LET sent == [World EXCEPT
                 !.agent.queue = Append(@, Human),
                 !.agent.latched = @ \/ agent.aborted,
                 !.driver.competing = TRUE,
                 !.driver.attempt.stale = @ \/ driver.attempt.phase = "queued"]
  IN  /\ Quiet
      /\ budget.humans > 0
      /\ Becomes(IF AtStage("idle") THEN Claim(sent) ELSE sent)
      /\ budget' = [budget EXCEPT !.humans = @ - 1]
      /\ UNCHANGED <<durable, failed, asked, halted>>

(* cancel: the inbox is cleared, which discards a queued round. *)
Cancelled(w) ==
  [w EXCEPT !.driver.attempt.cancelled =
                @ \/ \E i \in DOMAIN w.agent.queue : Same(w.agent.queue[i], w.driver.attempt),
            !.agent.queue = <<>>,
            !.agent.latched = FALSE,
            !.agent.aborted = w.agent.stage # "idle"]

UserCancels ==
  /\ Quiet
  /\ budget.cancels > 0
  /\ Becomes(Cancelled(World))
  /\ budget' = [budget EXCEPT !.cancels = @ - 1]
  /\ UNCHANGED <<durable, failed, asked, halted>>

(* The goal commands and remote calls.  Without late changes a host only pauses
   between the fence and the log, which stops the round as long as its request
   is not prepared. *)
HostChanges(op, cap) ==
  /\ Quiet
  /\ AtStage("entering") => LateChanges \/ op = "pause"
  /\ AtStage("prepared") => LateChanges
  /\ op # "block"
  /\ Allowed(goal, op)
  /\ budget.changes > 0
  /\ Becomes(Changed(World, op, cap, TRUE))
  /\ budget' = [budget EXCEPT !.changes = @ - 1]
  /\ asked' = goal.ref + 1
  /\ UNCHANGED <<durable, failed, halted>>

(* Mutant: teardown leaves the agent alone. *)
LeftAlone(w) == w
StopRound(w) == IF w.driver.attempt # NoAttempt /\ w.agent.stage # "idle"
                THEN Cancelled(w) ELSE w

(* The plugin unloads. *)
Unload ==
  /\ Quiet
  /\ ~driver.stopping
  /\ Becomes(StopRound(Disarm([World EXCEPT !.driver.stopping = TRUE,
                                            !.driver.attempt.stale = @ \/ driver.attempt # NoAttempt])))
  /\ Unbudgeted

(* The driver is gone, or the goal is lost: nothing more of interest.  Or a
   call that starts two runs would exceed the bound on runs. *)
Over == \/ failed
        \/ \A r, s \in Run : RunAt(r, "none") /\ RunAt(s, "none") => r = s
        \/ /\ driver.stopping
           /\ \A r \in Run : RunAt(r, "none")
           /\ agent.stage = "idle" \/ driver.attempt = NoAttempt

-----------------------------------------------------------------------------
TurnSteps ==
  \/ AssemblyFails \/ PreStepHuman \/ PreStepRound
  \/ DownstreamThrows \/ DownstreamRejects \/ DownstreamEnters
  \/ RejectionEnds \/ EntryFails \/ Prepared \/ Admit
  \/ \E reason \in {"completed", "max-tokens", "error", "aborted"} : WorkEnds(reason)

RunSteps(r) ==
  FlushDone(r) \/ FlushFails(r) \/ LoopContinues(r) \/ LoopEnds(r) \/ Retire(r)

Next ==
  /\ ~Over
  /\ \/ TurnSteps
     \/ \E r \in Run : RunSteps(r)
     \/ \E op \in Operation, cap \in 1..MaxRounds :
          ModelChanges(op, cap) \/ HostChanges(op, cap)
     \/ HumanSends
     \/ UserCancels
     \/ Unload

Spec == Init /\ [][Next]_vars

(* Turns end, flushes settle and continuations run; nobody owes a prompt, a
   cancellation, a change or an unload. *)
Fairness == /\ WF_vars(~Over /\ TurnSteps)
            /\ \A r \in Run : WF_vars(~Over /\ RunSteps(r))

FairSpec == Spec /\ Fairness

-----------------------------------------------------------------------------
(* Every round that is logged is the next round of the active goal's current
   revision: the fold never fails (goal fold.ts applyGoalEvent), after which
   no goal of the session could be read or changed any more.  So it is without
   late changes. *)
GoalReplays == ~failed

Reserves == driver.attempt = NoAttempt /\ driver'.attempt # NoAttempt

(* A round is queued only when every goal change is durable (drive's
   checkpoint and the recheck after it), or at least on its way there by the
   checkpoint of a run beside this one. *)
ReservedDurable ==
  [][Reserves => \/ durable' = goal.ref
                 \/ \E r \in Run : driver'.runs[r] = [st |-> "flushing", from |-> goal.ref]]_vars

(* A turn that ends as cancelled stops the work on its revision: a round is
   reserved again only for a goal that somebody has changed since, or had
   changed while that round was under way.  Neither the idle handler, a run in
   flight nor a late prompt restarts it. *)
CancelStops == [][Reserves => asked' > halted']_vars

(* The teardown of the composite effect: once the plugin unloads, a round is
   logged only if its request was already prepared, in a turn that is aborted
   by then; and no further request is prepared. *)
UnloadStops ==
  [][driver.stopping =>
       /\ goal'.rounds <= goal.rounds \/ (AtStage("prepared") /\ agent.aborted)
       /\ AtStage("prepared")' => AtStage("prepared")]_vars

(* As long as the driver is loaded an armed goal is worked on until it is no
   longer pursued: no interleaving of prompts, rejected rounds, flushes and
   retiring runs leaves it armed and forgotten. *)
RoundsContinue == Pursued(goal) ~> (~Pursued(goal) \/ driver.stopping)
=============================================================================
