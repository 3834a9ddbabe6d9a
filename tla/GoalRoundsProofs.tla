-------------------------- MODULE GoalRoundsProofs --------------------------
(***************************************************************************)
(* Theorems about GoalRounds for any number of rounds, changes, prompts,   *)
(* cancellations and overlapping runs of the driver's loop.                *)
(*                                                                         *)
(* A step applies operators to the record of all state; so the invariant   *)
(* is stated of such records ("worlds"), the intermediate ones of a step   *)
(* included, and every operator has a lemma that says what it keeps.       *)
(***************************************************************************)
EXTENDS GoalRounds, SequenceTheorems, TLAPS

Phases == {"none", "active", "paused", "blocked", "complete"}

GoalType == [ref : Nat, phase : Phases, rounds : Nat, max : Nat, armed : BOOLEAN]

Message == [ref : Nat, round : Nat]

Stages == {"idle", "assembling", "downstream", "entering", "prepared", "working",
           "rejected", "failing"}

AgentType == [stage : Stages, cur : Message, queue : Seq(Message),
              aborted : BOOLEAN, latched : BOOLEAN]

AttemptType == [ref : Nat, round : Nat,
                phase : {"none", "queued", "claimed", "admitted"},
                cancelled : BOOLEAN, stale : BOOLEAN]

RunType == [st : {"none", "loop", "flushing", "retiring"}, from : Nat]

DriverType == [attempt : AttemptType, competing : BOOLEAN, needs : BOOLEAN,
               requested : BOOLEAN, busy : BOOLEAN, stopping : BOOLEAN,
               runs : [Run -> RunType]]

WorldType == [goal : GoalType, agent : AgentType, driver : DriverType]

(* A message is of a revision that there was; if it is of the present one, its
   round is within the limit, which only a new revision changes. *)
MessageOK(g, m) ==
  /\ m.ref <= g.ref
  /\ IsRound(m) /\ m.ref = g.ref => m.round <= g.max

MessagesOK(w) ==
  /\ MessageOK(w.goal, w.agent.cur)
  /\ \A i \in DOMAIN w.agent.queue : MessageOK(w.goal, w.agent.queue[i])

AttemptOK(w) ==
  /\ w.driver.attempt.ref <= w.goal.ref
  /\ w.driver.attempt.phase = "none" => w.driver.attempt = NoAttempt

(* Between the second fence and the log the round is the driver's attempt.
   Unless it is aborted the driver is loaded; unless it is aborted before its
   request is prepared, the round is the goal's next. *)
Entering(w) == w.agent.stage \in {"entering", "prepared"}

EnteringOK(w) ==
  Entering(w) =>
    /\ IsRound(w.agent.cur)
    /\ w.driver.attempt.phase = "claimed" /\ Same(w.agent.cur, w.driver.attempt)
    /\ ~w.agent.aborted => ~w.driver.stopping
    /\ ~w.agent.aborted \/ w.agent.stage = "prepared" =>
         (~LateChanges => NextRound(w.goal, w.agent.cur))

Flushing(w, ref) == \E r \in Run : w.driver.runs[r] = [st |-> "flushing", from |-> ref]

(* Without an obligation the revision of an armed goal is durable, or being
   flushed; a flush covers revisions that there are. *)
FlushesOK(w, d) ==
  /\ d <= w.goal.ref
  /\ \A r \in Run : w.driver.runs[r].from <= w.goal.ref
  /\ w.driver.needs \/ ~w.goal.armed \/ d = w.goal.ref \/ Flushing(w, w.goal.ref)

WorldOK(w, d) ==
  /\ w \in WorldType
  /\ MessagesOK(w) /\ AttemptOK(w) /\ EnteringOK(w) /\ FlushesOK(w, d)

(* A goal that is pursued is as somebody asked for, and later than the revision
   that a cancelled turn worked on. *)
AskedOK(w, a, h) ==
  /\ h <= w.goal.ref
  /\ Pursued(w.goal) => a = w.goal.ref /\ h < w.goal.ref

IInv == /\ WorldOK(World, durable)
        /\ durable \in Nat /\ failed \in BOOLEAN
        /\ asked \in Nat /\ halted \in Nat
        /\ AskedOK(World, asked, halted)
        /\ ~LateChanges => ~failed

(* A run is there for requestDrive if it needs one. *)
HasRun(w) == \/ w.driver.stopping
             \/ w.driver.busy
             \/ \E r \in Run : w.driver.runs[r].st = "none"

Sound(w, d) == WorldOK(w, d) /\ HasRun(w)

(* What no step does, the goal changes apart: arm the goal or add to its rounds,
   reserve a round for a goal that is not pursued or has an obligation, or
   prepare a request. *)
Moves(w, v) ==
  /\ v.goal.rounds <= w.goal.rounds /\ w.goal.ref <= v.goal.ref
  /\ Pursued(v.goal) => v.goal = w.goal
  /\ w.driver.attempt = NoAttempt /\ v.driver.attempt # NoAttempt =>
       Pursued(v.goal) /\ ~v.driver.needs
  /\ v.agent.stage = "prepared" => w.agent.stage = "prepared"

(* What the driver leaves alone unless it is ready to drive. *)
SameTurn(w, v) == /\ v.goal = w.goal
                  /\ v.agent = w.agent
                  /\ v.driver.attempt = w.driver.attempt

-----------------------------------------------------------------------------
(* Changes of one part of a world. *)

(* The types of a world's parts. *)
LEMMA Parts ==
  ASSUME NEW w \in WorldType
  PROVE  w.goal \in GoalType /\ w.agent \in AgentType /\ w.driver \in DriverType
BY DEF WorldType

LEMMA ConstantTypes ==
  /\ NoAttempt \in AttemptType /\ Human \in Message /\ NoRun \in RunType
  /\ NoAttempt.phase = "none" /\ Human.round = 0 /\ Human.ref = 0
  /\ ~IsRound(Human)
BY DEF NoAttempt, AttemptType, Human, Message, NoRun, RunType, IsRound

(* Disarming. *)
LEMMA DisarmOK ==
  ASSUME NEW d \in Nat, NEW w, WorldOK(w, d)
  PROVE  /\ WorldOK(Disarm(w), d) /\ Moves(w, Disarm(w)) /\ ~Pursued(Disarm(w).goal)
         /\ Disarm(w).agent = w.agent /\ Disarm(w).driver = w.driver
         /\ HasRun(w) => HasRun(Disarm(w))
<1> DEFINE v == Disarm(w)
<1>0. w \in WorldType /\ w.goal \in GoalType
  BY Parts DEF WorldOK
<1>1. /\ v \in WorldType /\ v.agent = w.agent /\ v.driver = w.driver
      /\ v.goal = [w.goal EXCEPT !.armed = FALSE]
  BY <1>0 DEF Disarm, WorldType, GoalType
<1>2. /\ v.goal.ref = w.goal.ref /\ v.goal.phase = w.goal.phase
      /\ v.goal.rounds = w.goal.rounds /\ v.goal.max = w.goal.max /\ ~v.goal.armed
      /\ w.goal.rounds \in Nat /\ w.goal.ref \in Nat
  BY <1>0, <1>1 DEF GoalType
<1> HIDE DEF v
<1>3. MessagesOK(v) /\ AttemptOK(v) /\ EnteringOK(v) /\ FlushesOK(v, d)
  BY <1>1, <1>2 DEF WorldOK, MessagesOK, MessageOK, AttemptOK, EnteringOK, Entering, FlushesOK,
                    NextRound
<1>4. ~Pursued(v.goal)
  BY <1>2 DEF Pursued
<1>5. Moves(w, v)
  BY <1>1, <1>2, <1>4 DEF Moves
<1> QED BY <1>1, <1>3, <1>4, <1>5 DEF v, WorldOK, HasRun

(* A world whose driver alone has changed, and not its attempt. *)
LEMMA DriverOK ==
  ASSUME NEW d \in Nat, NEW w, WorldOK(w, d), NEW v \in WorldType,
         SameTurn(w, v), v.driver.stopping = w.driver.stopping, FlushesOK(v, d)
  PROVE  WorldOK(v, d) /\ Moves(w, v)
<1>1. MessagesOK(v) /\ AttemptOK(v) /\ EnteringOK(v)
  BY DEF WorldOK, MessagesOK, AttemptOK, EnteringOK, Entering, SameTurn
<1>2. w.goal.rounds \in Nat /\ w.goal.ref \in Nat
  BY Parts DEF WorldOK, GoalType
<1>3. Moves(w, v)
  BY <1>2 DEF Moves, SameTurn
<1> QED BY <1>1, <1>3 DEF WorldOK

(* A run that is not at its checkpoint changes state, or nothing needs it. *)
LEMMA RunOK ==
  ASSUME NEW d \in Nat, NEW w, WorldOK(w, d), NEW r \in Run,
         w.driver.runs[r].st # "flushing" \/ ~w.goal.armed,
         NEW n \in RunType, n.from <= w.goal.ref,
         NEW v \in WorldType, SameTurn(w, v),
         v.driver.stopping = w.driver.stopping, v.driver.needs = w.driver.needs,
         v.driver.runs = [w.driver.runs EXCEPT ![r] = n]
  PROVE  WorldOK(v, d) /\ Moves(w, v)
<1>0. w \in WorldType /\ w.driver \in DriverType
  BY Parts DEF WorldOK
<1>1. \A q \in Run : v.driver.runs[q] = IF q = r THEN n ELSE w.driver.runs[q]
  BY <1>0 DEF DriverType
<1>2. w.goal.armed /\ Flushing(w, w.goal.ref) => Flushing(v, w.goal.ref)
  BY <1>1 DEF Flushing
<1>3. FlushesOK(v, d)
  BY <1>1, <1>2 DEF WorldOK, FlushesOK, SameTurn
<1> QED BY <1>3, DriverOK

(* A run is in its loop. *)
LEMMA InLoopType ==
  ASSUME NEW w \in WorldType, NEW r \in Run
  PROVE  /\ InLoop(w, r) \in WorldType /\ SameTurn(w, InLoop(w, r))
         /\ InLoop(w, r).driver.needs = w.driver.needs
         /\ InLoop(w, r).driver.busy = w.driver.busy
         /\ InLoop(w, r).driver.stopping = w.driver.stopping
         /\ InLoop(w, r).driver.runs =
              [w.driver.runs EXCEPT ![r] = [st |-> "loop", from |-> 0]]
<1> DEFINE v == InLoop(w, r)
           n == [st |-> "loop", from |-> 0]
<1>0. w.driver \in DriverType
  BY Parts
<1>1. /\ v \in WorldType /\ v.agent = w.agent /\ v.goal = w.goal
      /\ v.driver = [w.driver EXCEPT !.runs = [w.driver.runs EXCEPT ![r] = n]]
  BY <1>0 DEF InLoop, WorldType, DriverType, RunType
<1> HIDE DEF v
<1> QED BY <1>0, <1>1 DEF v, DriverType, SameTurn

LEMMA InLoopOK ==
  ASSUME NEW d \in Nat, NEW w, WorldOK(w, d), NEW r \in Run,
         w.driver.runs[r].st # "flushing" \/ ~w.goal.armed
  PROVE  WorldOK(InLoop(w, r), d) /\ Moves(w, InLoop(w, r))
<1> DEFINE n == [st |-> "loop", from |-> 0]
<1>0. w \in WorldType /\ w.goal.ref \in Nat /\ n \in RunType /\ n.from = 0
  BY Parts DEF WorldOK, GoalType, RunType
<1> DEFINE v == InLoop(w, r)
<1>1. /\ v \in WorldType /\ SameTurn(w, v)
      /\ v.driver.stopping = w.driver.stopping /\ v.driver.needs = w.driver.needs
      /\ v.driver.runs = [w.driver.runs EXCEPT ![r] = n]
  BY <1>0, InLoopType
<1>2. n.from <= w.goal.ref
  BY <1>0
<1> HIDE DEF n, v
<1>3. WorldOK(v, d) /\ Moves(w, v)
  BY <1>0, <1>1, <1>2, RunOK
<1> QED BY <1>3 DEF v

(* A flush begins, or nothing needs it. *)
LEMMA CheckpointOK ==
  ASSUME NEW d \in Nat, NEW w, WorldOK(w, d), NEW r, r \in Run \/ ~w.goal.armed
  PROVE  /\ WorldOK(Checkpoint(w, r), d) /\ Moves(w, Checkpoint(w, r))
         /\ SameTurn(w, Checkpoint(w, r))
         /\ Checkpoint(w, r).driver.busy = w.driver.busy
         /\ Checkpoint(w, r).driver.stopping = w.driver.stopping
<1> DEFINE v == Checkpoint(w, r)
           n == [st |-> "flushing", from |-> w.goal.ref]
<1>0. /\ w \in WorldType /\ w.driver \in DriverType /\ w.goal.ref \in Nat
      /\ n \in RunType
  BY Parts DEF WorldOK, GoalType, RunType
<1>1. /\ v.agent = w.agent /\ v.goal = w.goal
      /\ v.driver = [w.driver EXCEPT !.needs = FALSE,
                                     !.runs = [w.driver.runs EXCEPT ![r] = n]]
      /\ v = [w EXCEPT !.driver = [w.driver EXCEPT !.needs = FALSE,
                                     !.runs = [w.driver.runs EXCEPT ![r] = n]]]
  BY <1>0 DEF Checkpoint, WorldType, DriverType
<1>2. [w.driver.runs EXCEPT ![r] = n] \in [Run -> RunType]
  BY <1>0 DEF DriverType
<1>3. /\ v.driver.attempt = w.driver.attempt /\ v.driver.stopping = w.driver.stopping
      /\ ~v.driver.needs /\ v.driver.busy = w.driver.busy
      /\ v.driver.runs = [w.driver.runs EXCEPT ![r] = n]
  BY <1>0, <1>1 DEF DriverType
<1>4. v.driver \in DriverType
  BY <1>0, <1>1, <1>2 DEF DriverType
<1>5. v \in WorldType
  BY <1>0, <1>1, <1>4 DEF WorldType
<1> HIDE DEF v
<1>6. \A q \in Run : v.driver.runs[q] = IF q = r THEN n ELSE w.driver.runs[q]
  BY <1>0, <1>3 DEF DriverType
<1>7. r \in Run => Flushing(v, w.goal.ref)
  BY <1>6 DEF Flushing
<1>8. FlushesOK(v, d)
  BY <1>0, <1>1, <1>3, <1>6, <1>7 DEF WorldOK, FlushesOK
<1>9. SameTurn(w, v)
  BY <1>1, <1>3 DEF SameTurn
<1> QED BY <1>3, <1>5, <1>8, <1>9, DriverOK DEF v

(* Flags of the driver. *)
LEMMA FlagsOK ==
  ASSUME NEW d \in Nat, NEW w, WorldOK(w, d), NEW v \in WorldType, SameTurn(w, v),
         v.driver.stopping = w.driver.stopping, v.driver.runs = w.driver.runs,
         v.driver.needs \/ ~w.driver.needs
  PROVE  WorldOK(v, d) /\ Moves(w, v)
<1>1. FlushesOK(v, d)
  BY DEF WorldOK, FlushesOK, Flushing, SameTurn
<1> QED BY <1>1, DriverOK

(* The attempt is dropped, before the round is entered. *)
LEMMA ClearAttemptOK ==
  ASSUME NEW d \in Nat, NEW w, WorldOK(w, d), ~Entering(w)
  PROVE  LET v == ClearAttempt(w)
         IN  /\ WorldOK(v, d) /\ v.goal = w.goal /\ v.agent = w.agent
             /\ v.driver.attempt = NoAttempt
             /\ v.driver.stopping = w.driver.stopping
             /\ v.driver.needs = w.driver.needs
             /\ HasRun(w) => HasRun(v)
<1> DEFINE v == ClearAttempt(w)
<1>0. w \in WorldType /\ w.driver \in DriverType
  BY Parts DEF WorldOK
<1>1. /\ v \in WorldType /\ v.goal = w.goal /\ v.agent = w.agent
      /\ v.driver = [w.driver EXCEPT !.attempt = NoAttempt]
  BY <1>0, ConstantTypes DEF ClearAttempt, WorldType, DriverType
<1>2. /\ v.driver.attempt = NoAttempt /\ v.driver.stopping = w.driver.stopping
      /\ v.driver.needs = w.driver.needs /\ v.driver.busy = w.driver.busy
      /\ v.driver.runs = w.driver.runs
  BY <1>0, <1>1 DEF DriverType
<1> HIDE DEF v
<1>3. MessagesOK(v) /\ AttemptOK(v) /\ EnteringOK(v) /\ FlushesOK(v, d)
  <2>1. NoAttempt.ref = 0 /\ w.goal.ref \in Nat
    BY <1>0, Parts DEF NoAttempt, GoalType
  <2> QED BY <1>1, <1>2, <2>1
          DEF WorldOK, MessagesOK, AttemptOK, EnteringOK, Entering, FlushesOK, Flushing
<1>4. HasRun(w) => HasRun(v)
  BY <1>2 DEF HasRun
<1> QED BY <1>1, <1>2, <1>3, <1>4 DEF v, WorldOK

(* A turn starts with the head of the queue. *)
LEMMA ClaimOK ==
  ASSUME NEW d \in Nat, NEW w, WorldOK(w, d), w.agent.queue # <<>>
  PROVE  LET v == Claim(w)
         IN  /\ WorldOK(v, d) /\ v.goal = w.goal
             /\ v.agent.stage = "assembling" /\ ~v.agent.aborted
             /\ v.driver.needs = w.driver.needs
             /\ w.driver.attempt = NoAttempt => v.driver.attempt = NoAttempt
             /\ HasRun(w) => HasRun(v)
<1> DEFINE v == Claim(w)
           m == Head(w.agent.queue)
           a == IF Same(m, w.driver.attempt)
                THEN [w.driver.attempt EXCEPT !.phase = "claimed"] ELSE w.driver.attempt
<1>0. /\ w \in WorldType /\ w.driver \in DriverType /\ w.agent \in AgentType
      /\ w.agent.queue \in Seq(Message) /\ w.driver.attempt \in AttemptType
  BY Parts DEF WorldOK, AgentType, DriverType
<1>1. m \in Message /\ Tail(w.agent.queue) \in Seq(Message) /\ a \in AttemptType
  BY <1>0 DEF AttemptType
<1>2. /\ v.goal = w.goal
      /\ v.agent = [w.agent EXCEPT !.stage = "assembling", !.cur = m,
                                   !.queue = Tail(w.agent.queue),
                                   !.aborted = FALSE, !.latched = FALSE]
      /\ v.driver = [w.driver EXCEPT !.attempt = a]
      /\ v = [w EXCEPT !.agent = v.agent, !.driver = v.driver]
  BY <1>0 DEF Claim, WorldType, AgentType, DriverType
<1> HIDE DEF v
<1>3. v.agent \in AgentType /\ v.driver \in DriverType
  <2> HIDE DEF m, a
  <2>1. v.agent \in AgentType
    BY <1>0, <1>1, <1>2 DEF AgentType, Stages
  <2>2. v.driver \in DriverType
    BY <1>0, <1>1, <1>2 DEF DriverType
  <2> QED BY <2>1, <2>2
<1>4. v \in WorldType
  BY <1>0, <1>2, <1>3 DEF WorldType
<1>5. /\ v.agent.stage = "assembling" /\ ~v.agent.aborted /\ v.agent.cur = m
      /\ v.agent.queue = Tail(w.agent.queue)
      /\ v.driver.attempt = a /\ v.driver.needs = w.driver.needs
      /\ v.driver.stopping = w.driver.stopping /\ v.driver.busy = w.driver.busy
      /\ v.driver.runs = w.driver.runs
  BY <1>0, <1>2 DEF AgentType, DriverType
<1>6. a.ref = w.driver.attempt.ref /\ (a.phase = "none" => a = w.driver.attempt)
  BY <1>0 DEF AttemptType
<1>7. w.driver.attempt = NoAttempt => a = NoAttempt
  BY ConstantTypes DEF Same
<1>8. MessagesOK(v)
  <2>1. \A i \in DOMAIN w.agent.queue : MessageOK(w.goal, w.agent.queue[i])
    BY DEF WorldOK, MessagesOK
  <2>2. /\ m = w.agent.queue[1] /\ 1 \in DOMAIN w.agent.queue
        /\ \A i \in DOMAIN Tail(w.agent.queue) :
             /\ i + 1 \in DOMAIN w.agent.queue
             /\ Tail(w.agent.queue)[i] = w.agent.queue[i + 1]
    BY <1>0
  <2> HIDE DEF m
  <2> QED BY <1>2, <1>5, <2>1, <2>2 DEF MessagesOK
<1> HIDE DEF a, m
<1>9. AttemptOK(v) /\ EnteringOK(v) /\ FlushesOK(v, d) /\ (HasRun(w) => HasRun(v))
  BY <1>2, <1>5, <1>6 DEF WorldOK, AttemptOK, EnteringOK, Entering, FlushesOK, Flushing, HasRun
<1> QED BY <1>2, <1>4, <1>5, <1>7, <1>8, <1>9 DEF v, WorldOK

(* The next revision. *)
LEMMA AfterType ==
  ASSUME NEW g \in GoalType, NEW op \in Operation, NEW cap \in Nat
  PROVE  /\ After(g, op, cap) \in GoalType
         /\ After(g, op, cap).ref = g.ref + 1 /\ g.ref <= After(g, op, cap).ref
         /\ After(g, op, cap).rounds <= g.rounds
         /\ op \in {"pause", "block", "complete", "clear"} => ~After(g, op, cap).armed
<1>1. PhaseAfter(g, op) \in Phases
  BY DEF PhaseAfter, Operation, Phases, GoalType
<1>2. /\ g.rounds \in Nat /\ g.ref \in Nat /\ g.max \in Nat /\ g.armed \in BOOLEAN
  BY DEF GoalType
<1>3. After(g, op, cap) \in GoalType
  BY <1>1, <1>2 DEF After, GoalType
<1>4. /\ After(g, op, cap).ref = g.ref + 1
      /\ After(g, op, cap).rounds \in {0, g.rounds}
      /\ After(g, op, cap).armed = (op \in {"create", "resume"} \/ (op = "edit" /\ g.armed))
  BY DEF After
<1>5. After(g, op, cap).rounds <= g.rounds
  BY <1>2, <1>4
<1>6. g.ref <= After(g, op, cap).ref
  BY <1>2, <1>4
<1> QED BY <1>3, <1>4, <1>5, <1>6

(* A change of the goal: what is under way is of an older revision. *)
LEMMA RevisionOK ==
  ASSUME NEW d \in Nat, NEW w, WorldOK(w, d), NEW v \in WorldType,
         NEW op \in Operation, NEW cap \in Nat, v.goal = After(w.goal, op, cap),
         NEW b \in BOOLEAN, v.agent = [w.agent EXCEPT !.aborted = b],
         w.agent.aborted => b, w.agent.stage = "entering" => LateChanges \/ b,
         w.agent.stage = "prepared" => LateChanges,
         v.driver.attempt = w.driver.attempt, v.driver.runs = w.driver.runs,
         v.driver.stopping = w.driver.stopping,
         v.driver.needs \/ op \in {"pause", "block", "complete", "clear"}
  PROVE  WorldOK(v, d)
<1>0. w.goal \in GoalType /\ w.agent \in AgentType /\ w.driver \in DriverType
  BY Parts DEF WorldOK
<1>1. /\ v.goal \in GoalType /\ v.goal.ref = w.goal.ref + 1 /\ w.goal.ref \in Nat
      /\ op \in {"pause", "block", "complete", "clear"} => ~v.goal.armed
  BY <1>0, AfterType DEF GoalType
<1>2. /\ v.agent.stage = w.agent.stage /\ v.agent.cur = w.agent.cur
      /\ v.agent.queue = w.agent.queue /\ (w.agent.aborted => v.agent.aborted)
      /\ v.agent.aborted = b
  BY <1>0 DEF AgentType
<1>3. MessagesOK(v)
  <2>1. ASSUME NEW m \in Message, MessageOK(w.goal, m) PROVE MessageOK(v.goal, m)
    BY <1>1, <2>1 DEF MessageOK, Message
  <2>2. w.agent.cur \in Message /\ w.agent.queue \in Seq(Message)
    BY <1>0 DEF AgentType
  <2>3. \A i \in DOMAIN w.agent.queue : w.agent.queue[i] \in Message
    BY <2>2
  <2> QED BY <1>2, <2>1, <2>2, <2>3 DEF WorldOK, MessagesOK
<1>4. AttemptOK(v) /\ EnteringOK(v)
  <2>1. w.driver.attempt.ref \in Nat
    BY <1>0 DEF DriverType, AttemptType
  <2> QED BY <1>1, <1>2, <2>1 DEF WorldOK, AttemptOK, EnteringOK, Entering
<1>5. FlushesOK(v, d)
  <2>1. \A r \in Run : w.driver.runs[r].from \in Nat
    BY <1>0 DEF DriverType, RunType
  <2> QED BY <1>1, <2>1 DEF WorldOK, FlushesOK
<1> QED BY <1>3, <1>4, <1>5 DEF WorldOK

-----------------------------------------------------------------------------
(* The driver's loop. *)

(* What is under way between two calls: no round has been reserved. *)
Leaves(w, u) ==
  /\ u.goal.rounds <= w.goal.rounds /\ w.goal.ref <= u.goal.ref
  /\ u.agent.stage = "prepared" => w.agent.stage = "prepared"
  /\ Pursued(u.goal) => u.goal = w.goal
  /\ w.driver.attempt = NoAttempt => u.driver.attempt = NoAttempt

LEMMA LeavesMoves ==
  ASSUME NEW w \in WorldType, NEW u \in WorldType, NEW v \in WorldType,
         Leaves(w, u), Moves(u, v)
  PROVE  Moves(w, v)
<1>1. /\ w.goal.rounds \in Nat /\ u.goal.rounds \in Nat /\ v.goal.rounds \in Nat
      /\ w.goal.ref \in Nat /\ u.goal.ref \in Nat /\ v.goal.ref \in Nat
  BY Parts DEF GoalType
<1> QED BY <1>1 DEF Leaves, Moves

LEMMA SameLeaves ==
  ASSUME NEW w \in WorldType, NEW u, SameTurn(w, u)
  PROVE  Leaves(w, u)
<1>1. w.goal.rounds \in Nat /\ w.goal.ref \in Nat
  BY Parts DEF GoalType
<1> QED BY <1>1 DEF Leaves, SameTurn

(* The limit blocks the goal. *)
LEMMA LimitReachedOK ==
  ASSUME NEW d \in Nat, NEW w, WorldOK(w, d), w.agent.stage = "idle"
  PROVE  WorldOK(LimitReached(w), d) /\ Moves(w, LimitReached(w))
<1> DEFINE b == [w EXCEPT !.goal = After(w.goal, "block", 1)]
           v == LimitReached(w)
<1>0. /\ w \in WorldType /\ w.goal \in GoalType /\ w.agent \in AgentType
      /\ w.driver \in DriverType /\ w.goal.rounds \in Nat /\ w.goal.ref \in Nat
  BY Parts DEF WorldOK, GoalType
<1>1. /\ After(w.goal, "block", 1) \in GoalType
      /\ w.goal.ref <= After(w.goal, "block", 1).ref
      /\ After(w.goal, "block", 1).rounds <= w.goal.rounds
      /\ ~After(w.goal, "block", 1).armed
  BY <1>0, AfterType DEF Operation
<1>2. /\ b \in WorldType /\ b.goal = After(w.goal, "block", 1)
      /\ b.agent = w.agent /\ b.driver = w.driver
  BY <1>0, <1>1 DEF WorldType
<1>3. b.agent = [w.agent EXCEPT !.aborted = w.agent.aborted] /\ w.agent.aborted \in BOOLEAN
  BY <1>0, <1>2 DEF AgentType
<1>4. v = IF b.driver.busy
          THEN [b EXCEPT !.driver.needs = TRUE, !.driver.requested = TRUE]
          ELSE [Checkpoint(b, FreeRun(b)) EXCEPT !.driver.busy = TRUE,
                                                 !.driver.requested = FALSE]
  BY DEF LimitReached
<1> HIDE DEF v, b
<1>5. WorldOK(b, d)
  BY <1>0, <1>2, <1>3, RevisionOK DEF Operation
<1>6. WorldOK(v, d) /\ SameTurn(b, v)
  <2>1. CASE b.driver.busy
    <3>1. v = [b EXCEPT !.driver = [b.driver EXCEPT !.needs = TRUE, !.requested = TRUE]]
      BY <1>4, <2>1, <1>2 DEF WorldType, DriverType
    <3>2. /\ v \in WorldType /\ SameTurn(b, v) /\ v.driver.stopping = b.driver.stopping
          /\ v.driver.runs = b.driver.runs /\ v.driver.needs
      BY <1>2, <3>1 DEF WorldType, DriverType, SameTurn
    <3> QED BY <1>5, <3>2, FlagsOK
  <2>2. CASE ~b.driver.busy
    <3> DEFINE c == Checkpoint(b, FreeRun(b))
    <3>1. WorldOK(c, d) /\ SameTurn(b, c)
      BY <1>1, <1>2, <1>5, CheckpointOK
    <3>2. v = [c EXCEPT !.driver.busy = TRUE, !.driver.requested = FALSE]
      BY <1>4, <2>2
    <3> HIDE DEF c
    <3>3. c \in WorldType /\ c.driver \in DriverType
      BY <3>1, Parts DEF WorldOK
    <3>4. v = [c EXCEPT !.driver = [c.driver EXCEPT !.busy = TRUE, !.requested = FALSE]]
      BY <3>2, <3>3 DEF WorldType, DriverType
    <3>5. /\ v \in WorldType /\ SameTurn(c, v) /\ v.driver.stopping = c.driver.stopping
          /\ v.driver.runs = c.driver.runs /\ v.driver.needs = c.driver.needs
      BY <3>3, <3>4 DEF WorldType, DriverType, SameTurn
    <3>6. WorldOK(v, d)
      BY <3>1, <3>5, FlagsOK
    <3> QED BY <3>1, <3>5, <3>6 DEF SameTurn
  <2> QED BY <2>1, <2>2
<1>7. Moves(w, v)
  BY <1>1, <1>2, <1>6 DEF Moves, SameTurn, Pursued
<1> QED BY <1>6, <1>7 DEF v

(* A round is reserved. *)
LEMMA ReserveOK ==
  ASSUME NEW d \in Nat, NEW w, WorldOK(w, d), w.agent.stage = "idle",
         ~w.driver.needs, Pursued(w.goal), ~(w.goal.rounds >= w.goal.max)
  PROVE  WorldOK(Reserve(w), d) /\ Moves(w, Reserve(w))
<1> DEFINE m == [ref |-> w.goal.ref, round |-> w.goal.rounds + 1]
           a == [ref |-> m.ref, round |-> m.round, phase |-> "queued",
                 cancelled |-> FALSE, stale |-> FALSE]
           q == [w EXCEPT !.agent.queue = Append(@, m), !.driver.attempt = a]
<1>0. /\ w \in WorldType /\ w.goal \in GoalType /\ w.agent \in AgentType
      /\ w.driver \in DriverType /\ w.goal.rounds \in Nat /\ w.goal.ref \in Nat
      /\ w.goal.max \in Nat /\ w.agent.queue \in Seq(Message)
  BY Parts DEF WorldOK, GoalType, AgentType
<1>1. m \in Message /\ a \in AttemptType /\ m.ref = w.goal.ref /\ m.round = w.goal.rounds + 1
      /\ a.phase = "queued" /\ a.ref = w.goal.ref
  BY <1>0 DEF Message, AttemptType
<1>2. Reserve(w) = Claim(q)
  BY DEF Reserve
<1>3. q = [w EXCEPT !.agent = [w.agent EXCEPT !.queue = Append(w.agent.queue, m)],
                    !.driver = [w.driver EXCEPT !.attempt = a]]
  BY <1>0 DEF WorldType, AgentType, DriverType
<1>4. /\ q.goal = w.goal
      /\ q.agent = [w.agent EXCEPT !.queue = Append(w.agent.queue, m)]
      /\ q.driver = [w.driver EXCEPT !.attempt = a]
  BY <1>0, <1>3 DEF WorldType
<1> HIDE DEF q, m, a
<1>5. Append(w.agent.queue, m) \in Seq(Message) /\ Append(w.agent.queue, m) # <<>>
  BY <1>0, <1>1, AppendProperties
<1>6. q.agent \in AgentType /\ q.driver \in DriverType
  <2>1. q.agent \in AgentType
    BY <1>0, <1>4, <1>5 DEF AgentType
  <2>2. q.driver \in DriverType
    BY <1>0, <1>1, <1>4 DEF DriverType
  <2> QED BY <2>1, <2>2
<1>7. q \in WorldType
  BY <1>0, <1>3, <1>4, <1>6 DEF WorldType
<1>8. /\ q.agent.stage = w.agent.stage /\ q.agent.cur = w.agent.cur
      /\ q.agent.queue = Append(w.agent.queue, m)
      /\ q.driver.attempt = a /\ q.driver.needs = w.driver.needs
      /\ q.driver.runs = w.driver.runs
  BY <1>0, <1>4 DEF AgentType, DriverType
<1>9. MessagesOK(q)
  <2>1. MessageOK(w.goal, m)
    BY <1>0, <1>1 DEF MessageOK
  <2>2. \A i \in DOMAIN q.agent.queue :
           \/ q.agent.queue[i] = m
           \/ i \in DOMAIN w.agent.queue /\ q.agent.queue[i] = w.agent.queue[i]
    <3>1. /\ Len(q.agent.queue) = Len(w.agent.queue) + 1
          /\ q.agent.queue[Len(w.agent.queue) + 1] = m
          /\ \A i \in 1..Len(w.agent.queue) : q.agent.queue[i] = w.agent.queue[i]
          /\ q.agent.queue \in Seq(Message) /\ Len(w.agent.queue) \in Nat
      BY <1>0, <1>1, <1>8, AppendProperties
    <3>2. DOMAIN q.agent.queue = 1..Len(q.agent.queue) /\ DOMAIN w.agent.queue = 1..Len(w.agent.queue)
      BY <1>0, <3>1
    <3>3. \A i \in DOMAIN q.agent.queue :
             i \in 1..Len(w.agent.queue) \/ i = Len(w.agent.queue) + 1
      BY <3>1, <3>2
    <3>4. ASSUME NEW i \in DOMAIN q.agent.queue
          PROVE  \/ q.agent.queue[i] = m
                 \/ i \in DOMAIN w.agent.queue /\ q.agent.queue[i] = w.agent.queue[i]
      <4>1. CASE i \in 1..Len(w.agent.queue)
        BY <3>1, <3>2, <4>1
      <4>2. CASE i = Len(w.agent.queue) + 1
        BY <3>1, <4>2
      <4> QED BY <3>3, <4>1, <4>2
    <3> QED BY <3>4
  <2> QED BY <1>4, <1>8, <2>1, <2>2 DEF WorldOK, MessagesOK
<1>10. AttemptOK(q) /\ EnteringOK(q) /\ FlushesOK(q, d)
  BY <1>0, <1>1, <1>4, <1>8 DEF WorldOK, AttemptOK, EnteringOK, Entering, FlushesOK, Flushing
<1>11. WorldOK(q, d)
  BY <1>7, <1>9, <1>10 DEF WorldOK
<1>12. /\ WorldOK(Claim(q), d) /\ Claim(q).goal = q.goal
       /\ Claim(q).agent.stage = "assembling" /\ Claim(q).driver.needs = q.driver.needs
  BY <1>5, <1>8, <1>11, ClaimOK
<1>13. Moves(w, Claim(q))
  BY <1>0, <1>4, <1>8, <1>12 DEF Moves
<1> QED BY <1>2, <1>12, <1>13

(* The attempt of the round before is dropped, and the driver drives again. *)
LEMMA ReleaseOK ==
  ASSUME NEW d \in Nat, NEW w, WorldOK(w, d), w.agent.stage = "idle",
         NEW u, u = [w EXCEPT !.driver.attempt = NoAttempt, !.driver.needs = TRUE,
                              !.driver.requested = TRUE]
  PROVE  WorldOK(u, d) /\ Moves(w, u)
<1> DEFINE c == ClearAttempt(w)
           v == [c EXCEPT !.driver = [c.driver EXCEPT !.needs = TRUE, !.requested = TRUE]]
<1>1. /\ WorldOK(c, d) /\ c.goal = w.goal /\ c.agent = w.agent
      /\ c.driver.attempt = NoAttempt
  BY ClearAttemptOK DEF Entering
<1>2. c \in WorldType /\ c.driver \in DriverType /\ w \in WorldType /\ w.driver \in DriverType
  BY <1>1, Parts DEF WorldOK
<1>3. u = v
  BY <1>2 DEF ClearAttempt, WorldType, DriverType
<1> HIDE DEF c
<1>4. /\ v \in WorldType /\ SameTurn(c, v) /\ v.driver.stopping = c.driver.stopping
      /\ v.driver.runs = c.driver.runs /\ v.driver.needs
  <2>1. v.driver = [c.driver EXCEPT !.needs = TRUE, !.requested = TRUE]
    BY <1>2 DEF WorldType
  <2>2. v \in WorldType /\ v.goal = c.goal /\ v.agent = c.agent
    BY <1>2 DEF WorldType, DriverType
  <2> HIDE DEF v
  <2> QED BY <1>2, <2>1, <2>2 DEF DriverType, SameTurn
<1> HIDE DEF v
<1>5. WorldOK(v, d)
  BY <1>1, <1>4, FlagsOK
<1>6. w.goal.rounds \in Nat /\ w.goal.ref \in Nat
  BY <1>2, Parts DEF GoalType
<1>7. Moves(w, v)
  BY <1>1, <1>4, <1>6 DEF Moves, SameTurn
<1> QED BY <1>3, <1>5, <1>7

(* Past the checkpoint. *)
LEMMA ProceedOK ==
  ASSUME NEW d \in Nat, NEW w, WorldOK(w, d), Ready(w), ~w.driver.needs
  PROVE  WorldOK(Proceed(w), d) /\ Moves(w, Proceed(w))
<1>0. w.agent.stage = "idle" /\ w.goal.rounds \in Nat /\ w.goal.ref \in Nat
  BY Parts DEF Ready, WorldOK, GoalType
<1>1. CASE w.driver.attempt # NoAttempt
  BY <1>0, <1>1, ReleaseOK DEF Proceed
<1>2. CASE w.driver.attempt = NoAttempt /\ ~Pursued(w.goal)
  <2>1. Proceed(w) = w
    BY <1>2 DEF Proceed
  <2> QED BY <1>0, <1>2, <2>1 DEF Moves
<1>3. CASE w.driver.attempt = NoAttempt /\ Pursued(w.goal)
  <2>1. Proceed(w) = IF w.goal.rounds >= w.goal.max THEN LimitReached(w) ELSE Reserve(w)
    BY <1>3 DEF Proceed
  <2> QED BY <1>0, <1>3, <2>1, LimitReachedOK, ReserveOK
<1> QED BY <1>1, <1>2, <1>3

(* One pass of the loop. *)
LEMMA DriveOK ==
  ASSUME NEW d \in Nat, NEW w, WorldOK(w, d), NEW r \in Run,
         w.driver.runs[r].st # "flushing"
  PROVE  /\ WorldOK(Drive(w, r), d) /\ Moves(w, Drive(w, r))
         /\ w.agent.stage # "idle" \/ w.driver.needs => SameTurn(w, Drive(w, r))
<1> DEFINE l == InLoop(w, r)
           v == Drive(w, r)
<1>1. /\ WorldOK(l, d) /\ Moves(w, l) /\ SameTurn(w, l)
      /\ l.driver.needs = w.driver.needs
  BY InLoopOK, InLoopType DEF WorldOK
<1>2. v = CASE ~Ready(l) -> l
            [] Ready(l) /\ l.driver.needs -> Checkpoint(l, r)
            [] Ready(l) /\ ~l.driver.needs -> Proceed(l)
  BY DEF Drive
<1> HIDE DEF l, v
<1>3. w \in WorldType /\ l \in WorldType /\ Leaves(w, l)
  BY <1>1, SameLeaves DEF WorldOK
<1>4. CASE ~Ready(l)
  BY <1>1, <1>2, <1>4 DEF v
<1>5. CASE Ready(l) /\ l.driver.needs
  <2>1. WorldOK(v, d) /\ SameTurn(l, v) /\ Moves(l, v)
    BY <1>1, <1>2, <1>5, CheckpointOK
  <2>2. Moves(w, v)
    BY <1>3, <2>1, LeavesMoves DEF WorldOK
  <2> QED BY <1>1, <2>1, <2>2 DEF SameTurn, v
<1>6. CASE Ready(l) /\ ~l.driver.needs
  <2>1. WorldOK(v, d) /\ Moves(l, v)
    BY <1>1, <1>2, <1>6, ProceedOK
  <2>2. Moves(w, v)
    BY <1>3, <2>1, LeavesMoves DEF WorldOK
  <2>3. w.agent.stage = "idle" /\ ~w.driver.needs
    BY <1>1, <1>6 DEF Ready, SameTurn
  <2> QED BY <2>1, <2>2, <2>3 DEF v
<1> QED BY <1>4, <1>5, <1>6

(* The driver is asked to drive: it changes the turn only if it is ready. *)
LEMMA RequestDriveOK ==
  ASSUME NEW d \in Nat, NEW w, Sound(w, d)
  PROVE  /\ Sound(RequestDrive(w), d) /\ Moves(w, RequestDrive(w))
         /\ w.agent.stage # "idle" \/ w.driver.needs => SameTurn(w, RequestDrive(w))
<1>0. /\ w \in WorldType /\ w.driver \in DriverType /\ WorldOK(w, d)
      /\ w.goal.rounds \in Nat /\ w.goal.ref \in Nat
  BY Parts DEF Sound, WorldOK, GoalType
<1>1. CASE w.driver.stopping
  <2>1. RequestDrive(w) = w
    BY <1>1 DEF RequestDrive
  <2> QED BY <1>0, <2>1 DEF Moves, SameTurn
<1>2. CASE ~w.driver.stopping /\ w.driver.busy
  <2> DEFINE v == [w EXCEPT !.driver.requested = TRUE]
  <2>1. RequestDrive(w) = v
    BY <1>2 DEF RequestDrive
  <2>2. /\ v \in WorldType /\ SameTurn(w, v)
        /\ v.driver = [w.driver EXCEPT !.requested = TRUE]
    BY <1>0 DEF WorldType, DriverType, SameTurn
  <2> HIDE DEF v
  <2>3. /\ v.driver.stopping = w.driver.stopping /\ v.driver.runs = w.driver.runs
        /\ v.driver.needs = w.driver.needs /\ v.driver.busy = w.driver.busy
    BY <1>0, <2>2 DEF DriverType
  <2>4. WorldOK(v, d) /\ Moves(w, v)
    BY <1>0, <2>2, <2>3, FlagsOK
  <2> QED BY <1>2, <2>1, <2>2, <2>3, <2>4 DEF Sound, HasRun
<1>3. CASE ~w.driver.stopping /\ ~w.driver.busy
  <2> DEFINE x == [w EXCEPT !.driver.requested = FALSE]
             r == FreeRun(w)
             y == Drive(x, r)
             v == [y EXCEPT !.driver.busy = TRUE]
  <2>1. RequestDrive(w) = v
    BY <1>3 DEF RequestDrive
  <2>2. /\ x \in WorldType /\ SameTurn(w, x)
        /\ x.driver = [w.driver EXCEPT !.requested = FALSE]
    BY <1>0 DEF WorldType, DriverType, SameTurn
  <2>3. r \in Run /\ w.driver.runs[r].st = "none"
    BY <1>3 DEF Sound, HasRun, FreeRun
  <2> HIDE DEF x, r
  <2>4. /\ x.driver.stopping = w.driver.stopping /\ x.driver.runs = w.driver.runs
        /\ x.driver.needs = w.driver.needs
    BY <1>0, <2>2 DEF DriverType
  <2>5. WorldOK(x, d) /\ Leaves(w, x)
    BY <1>0, <2>2, <2>4, FlagsOK, SameLeaves
  <2>6. /\ WorldOK(y, d) /\ Moves(x, y)
        /\ x.agent.stage # "idle" \/ x.driver.needs => SameTurn(x, y)
    BY <2>3, <2>4, <2>5, DriveOK
  <2> HIDE DEF y
  <2>7. y \in WorldType /\ y.driver \in DriverType
    BY <2>6, Parts DEF WorldOK
  <2>8. /\ v \in WorldType /\ SameTurn(y, v)
        /\ v.driver = [y.driver EXCEPT !.busy = TRUE]
    BY <2>7 DEF WorldType, DriverType, SameTurn
  <2> HIDE DEF v
  <2>9. /\ v.driver.stopping = y.driver.stopping /\ v.driver.runs = y.driver.runs
        /\ v.driver.needs = y.driver.needs /\ v.driver.busy
    BY <2>7, <2>8 DEF DriverType
  <2>10. WorldOK(v, d)
    BY <2>6, <2>8, <2>9, FlagsOK
  <2>11. Moves(x, v)
    BY <2>6, <2>8, <2>9 DEF Moves, SameTurn
  <2>12. Moves(w, v)
    BY <1>0, <2>2, <2>5, <2>8, <2>11, LeavesMoves
  <2> QED BY <2>1, <2>2, <2>4, <2>6, <2>8, <2>9, <2>10, <2>12 DEF Sound, HasRun, SameTurn
<1> QED BY <1>0, <1>1, <1>2, <1>3 DEF DriverType

(* The goal changes.  Nothing is reserved in the same call: the change is an
   obligation first. *)
LEMMA ChangedOK ==
  ASSUME NEW d \in Nat, NEW w, Sound(w, d), NEW op \in Operation, NEW cap \in Nat,
         NEW outside \in BOOLEAN,
         w.agent.stage = "entering" => LateChanges \/ w.agent.aborted
                                       \/ (op = "pause" /\ outside),
         w.agent.stage = "prepared" => LateChanges
  PROVE  LET v == Changed(w, op, cap, outside)
         IN  /\ Sound(v, d) /\ v.goal = After(w.goal, op, cap)
             /\ v.driver.attempt = w.driver.attempt
             /\ v.agent.stage = w.agent.stage
<1> DEFINE b == w.agent.aborted \/ (op = "pause" /\ w.agent.stage # "idle" /\ outside)
           x == [w EXCEPT !.goal = After(w.goal, op, cap), !.driver.needs = TRUE,
                          !.agent.aborted = b]
           v == RequestDrive(x)
<1>0. /\ w \in WorldType /\ w.goal \in GoalType /\ w.agent \in AgentType
      /\ w.driver \in DriverType /\ WorldOK(w, d)
  BY Parts DEF Sound, WorldOK
<1>1. After(w.goal, op, cap) \in GoalType
  BY <1>0, AfterType
<1>2. w.agent.aborted \in BOOLEAN /\ b \in BOOLEAN
  BY <1>0 DEF AgentType
<1>3. Changed(w, op, cap, outside) = v
  BY <1>0, <1>2 DEF Changed
<1>4. w.agent.aborted => b
  OBVIOUS
<1>5. w.agent.stage = "entering" => LateChanges \/ b
  OBVIOUS
<1> HIDE DEF b
<1>6. /\ x.goal = After(w.goal, op, cap)
      /\ x.agent = [w.agent EXCEPT !.aborted = b]
      /\ x.driver = [w.driver EXCEPT !.needs = TRUE]
      /\ x = [w EXCEPT !.goal = x.goal, !.agent = x.agent, !.driver = x.driver]
  BY <1>0 DEF WorldType, AgentType, DriverType
<1> HIDE DEF x
<1>7. x.agent \in AgentType /\ x.driver \in DriverType
  <2>1. x.agent \in AgentType
    BY <1>0, <1>2, <1>6 DEF AgentType
  <2>2. x.driver \in DriverType
    BY <1>0, <1>6 DEF DriverType
  <2> QED BY <2>1, <2>2
<1>8. x \in WorldType
  BY <1>0, <1>1, <1>6, <1>7 DEF WorldType
<1>9. /\ x.driver.attempt = w.driver.attempt /\ x.driver.runs = w.driver.runs
      /\ x.driver.stopping = w.driver.stopping /\ x.driver.needs
      /\ x.driver.busy = w.driver.busy /\ x.agent.stage = w.agent.stage
  BY <1>0, <1>6 DEF AgentType, DriverType
<1>10. WorldOK(x, d)
  <2>1. x.driver.needs \/ op \in {"pause", "block", "complete", "clear"}
    BY <1>9
  <2>2. WorldOK(w, d) /\ x.goal = After(w.goal, op, cap)
    BY <1>0, <1>6
  <2>3. b \in BOOLEAN /\ x.agent = [w.agent EXCEPT !.aborted = b]
    BY <1>2, <1>6
  <2>4. /\ x.driver.attempt = w.driver.attempt /\ x.driver.runs = w.driver.runs
        /\ x.driver.stopping = w.driver.stopping
    BY <1>9
  <2> QED BY <1>4, <1>5, <1>8, <2>1, <2>2, <2>3, <2>4, RevisionOK, ZenonT(40)
<1>11. Sound(x, d)
  BY <1>9, <1>10 DEF Sound, HasRun
<1>12. Sound(v, d) /\ SameTurn(x, v)
  BY <1>9, <1>11, RequestDriveOK
<1> QED BY <1>3, <1>6, <1>9, <1>12 DEF SameTurn

-----------------------------------------------------------------------------
(* The end of a turn. *)

Reasons == {"completed", "max-tokens", "error", "aborted", "blocked"}

(* The end of a turn disarms the goal or marks its attempt as cancelled: one of
   them if the turn was aborted. *)
LEMMA TurnEndedOK ==
  ASSUME NEW d \in Nat, NEW w, Sound(w, d), NEW reason \in Reasons
  PROVE  LET e == TurnEnded(w, reason)
         IN  /\ Sound(e, d) /\ Leaves(w, e) /\ e.agent = w.agent
             /\ (e.driver.attempt = NoAttempt) = (w.driver.attempt = NoAttempt)
             /\ e.driver.attempt.ref = w.driver.attempt.ref
             /\ reason = "aborted" =>
                  \/ ~Pursued(e.goal)
                  \/ CutOff(w.driver.attempt) /\ e.driver.attempt.cancelled
<1> DEFINE e == TurnEnded(w, reason)
           c == [w EXCEPT !.driver.attempt.cancelled = TRUE]
<1>0. /\ w \in WorldType /\ w.driver \in DriverType /\ w.driver.attempt \in AttemptType
      /\ WorldOK(w, d) /\ w.goal.rounds \in Nat /\ w.goal.ref \in Nat
  BY Parts DEF Sound, WorldOK, DriverType, GoalType
<1>1. CASE e = w /\ reason # "aborted"
  BY <1>0, <1>1 DEF Leaves
<1>2. CASE e = Disarm(w)
  <2>1. /\ WorldOK(e, d) /\ Moves(w, e) /\ ~Pursued(e.goal) /\ e.agent = w.agent
        /\ e.driver = w.driver /\ HasRun(e)
    BY <1>0, <1>2, DisarmOK DEF Sound
  <2> QED BY <2>1 DEF Sound, Moves, Leaves
<1>3. CASE e = c /\ CutOff(w.driver.attempt)
  <2> DEFINE a == [w.driver.attempt EXCEPT !.cancelled = TRUE]
  <2>1. a \in AttemptType /\ a.phase = w.driver.attempt.phase /\ a.ref = w.driver.attempt.ref
        /\ a.round = w.driver.attempt.round /\ a.cancelled
    BY <1>0 DEF AttemptType
  <2>2. /\ c.goal = w.goal /\ c.agent = w.agent /\ c.driver = [w.driver EXCEPT !.attempt = a]
        /\ c = [w EXCEPT !.driver = c.driver]
    BY <1>0 DEF WorldType, DriverType
  <2> HIDE DEF c, a
  <2>3. c.driver \in DriverType
    BY <1>0, <2>1, <2>2 DEF DriverType
  <2>4. c \in WorldType
    BY <1>0, <2>2, <2>3 DEF WorldType
  <2>5. /\ c.driver.attempt = a /\ c.driver.runs = w.driver.runs
        /\ c.driver.needs = w.driver.needs /\ c.driver.busy = w.driver.busy
        /\ c.driver.stopping = w.driver.stopping
    BY <1>0, <2>2 DEF DriverType
  <2>6. a.phase # "none" /\ a # NoAttempt /\ w.driver.attempt # NoAttempt
    BY <1>3, <2>1, ConstantTypes DEF CutOff
  <2>7. WorldOK(c, d)
    BY <1>0, <2>1, <2>2, <2>4, <2>5, <2>6
       DEF WorldOK, MessagesOK, AttemptOK, EnteringOK, Entering, FlushesOK, Flushing, Same
  <2> QED BY <1>0, <1>3, <2>1, <2>2, <2>5, <2>6, <2>7 DEF Sound, HasRun, Leaves
<1>4. \/ e = w /\ reason # "aborted"
      \/ e = Disarm(w)
      \/ e = c /\ CutOff(w.driver.attempt)
  BY DEF TurnEnded, Reasons
<1> QED BY <1>1, <1>2, <1>3, <1>4

(* The agent comes to rest. *)
Rested(w) == [w EXCEPT !.agent.stage = "idle", !.agent.cur = Human,
                       !.agent.aborted = FALSE, !.agent.latched = FALSE,
                       !.driver.competing = FALSE]

LEMMA RestedOK ==
  ASSUME NEW d \in Nat, NEW w, Sound(w, d)
  PROVE  LET i == Rested(w)
         IN  /\ Sound(i, d) /\ i.goal = w.goal /\ i.agent.stage = "idle"
             /\ i.driver.attempt = w.driver.attempt
<1> DEFINE i == Rested(w)
<1>0. /\ w \in WorldType /\ w.agent \in AgentType /\ w.driver \in DriverType
      /\ WorldOK(w, d)
  BY Parts DEF Sound, WorldOK
<1>1. /\ i.goal = w.goal
      /\ i.agent = [w.agent EXCEPT !.stage = "idle", !.cur = Human, !.aborted = FALSE,
                                   !.latched = FALSE]
      /\ i.driver = [w.driver EXCEPT !.competing = FALSE]
      /\ i = [w EXCEPT !.agent = i.agent, !.driver = i.driver]
  BY <1>0 DEF Rested, WorldType, AgentType, DriverType
<1> HIDE DEF i
<1>2. i.agent \in AgentType
  BY <1>0, <1>1, ConstantTypes DEF AgentType, Stages
<1>3. i.driver \in DriverType
  BY <1>0, <1>1 DEF DriverType
<1>4. i \in WorldType
  BY <1>0, <1>1, <1>2, <1>3 DEF WorldType
<1>5. /\ i.agent.stage = "idle" /\ i.agent.cur = Human /\ i.agent.queue = w.agent.queue
      /\ i.driver.attempt = w.driver.attempt /\ i.driver.needs = w.driver.needs
      /\ i.driver.stopping = w.driver.stopping /\ i.driver.busy = w.driver.busy
      /\ i.driver.runs = w.driver.runs
  BY <1>0, <1>1 DEF AgentType, DriverType
<1>6. MessageOK(i.goal, Human)
  <2>1. i.goal.ref \in Nat
    BY <1>4, Parts DEF GoalType
  <2> QED BY <2>1, ConstantTypes DEF MessageOK
<1>7. MessagesOK(i) /\ AttemptOK(i) /\ EnteringOK(i) /\ FlushesOK(i, d) /\ HasRun(i)
  BY <1>0, <1>1, <1>5, <1>6
     DEF Sound, WorldOK, MessagesOK, AttemptOK, EnteringOK, Entering, FlushesOK, Flushing, HasRun
<1> QED BY <1>1, <1>4, <1>5, <1>7 DEF Sound, WorldOK, i

(* Idle: an attempt that was cancelled takes its goal with it. *)
LEMMA SettleOK ==
  ASSUME NEW d \in Nat, NEW w, Sound(w, d)
  PROVE  LET v == Settle(w)
         IN  /\ Sound(v, d) /\ Moves(w, v)
             /\ w.driver.attempt.cancelled /\ w.driver.attempt.ref = w.goal.ref =>
                  ~Pursued(v.goal)
<1> DEFINE i == Rested(w)
           c == [i EXCEPT !.driver.attempt = NoAttempt]
           p == IF Dropped(i) THEN Changed(c, "pause", 1, FALSE) ELSE i
           e == RequestDrive(p)
           v == IF w.agent.latched /\ e.agent.stage = "idle" /\ e.agent.queue # <<>>
                THEN Claim(e) ELSE e
<1>0. w \in WorldType /\ w.goal.rounds \in Nat /\ w.goal.ref \in Nat
  BY Parts DEF Sound, WorldOK, GoalType
<1>1. Settle(w) = v
  BY DEF Settle, Rested
<1>2. /\ Sound(i, d) /\ i.goal = w.goal /\ i.agent.stage = "idle"
      /\ i.driver.attempt = w.driver.attempt
  BY RestedOK
<1> HIDE DEF i
<1>3. /\ Sound(p, d) /\ Leaves(w, p)
      /\ w.driver.attempt.cancelled /\ w.driver.attempt.ref = w.goal.ref =>
           ~Pursued(p.goal)
  <2>1. CASE Dropped(i)
    <3>1. /\ Sound(c, d) /\ c.goal = i.goal /\ c.agent = i.agent
          /\ c.driver.attempt = NoAttempt
      BY <1>2, ClearAttemptOK DEF ClearAttempt, Sound, Entering
    <3> HIDE DEF c
    <3>2. p = Changed(c, "pause", 1, FALSE)
      BY <2>1
    <3> HIDE DEF p
    <3>3. "pause" \in Operation /\ 1 \in Nat /\ FALSE \in BOOLEAN
      BY DEF Operation
    <3>4. c.agent.stage # "entering" /\ c.agent.stage # "prepared"
      BY <1>2, <3>1
    <3>5. /\ Sound(p, d) /\ p.goal = After(c.goal, "pause", 1)
          /\ p.driver.attempt = NoAttempt /\ p.agent.stage = c.agent.stage
      BY <3>1, <3>2, <3>3, <3>4, ChangedOK
    <3>6. c.goal = w.goal /\ c.goal \in GoalType
      BY <1>2, <3>1, Parts DEF Sound, WorldOK
    <3>7. /\ ~After(c.goal, "pause", 1).armed /\ After(c.goal, "pause", 1).rounds <= c.goal.rounds
          /\ c.goal.ref <= After(c.goal, "pause", 1).ref
      BY <3>3, <3>6, AfterType
    <3> QED BY <3>4, <3>5, <3>6, <3>7 DEF Leaves, Pursued
  <2>2. CASE ~Dropped(i)
    <3>1. p = i
      BY <2>2
    <3> HIDE DEF p
    <3>2. Leaves(w, p)
      BY <1>0, <1>2, <3>1 DEF Leaves
    <3> QED BY <1>2, <2>2, <3>1, <3>2 DEF Dropped
  <2> QED BY <2>1, <2>2
<1> HIDE DEF p
<1>4. Sound(e, d) /\ Moves(p, e)
  BY <1>3, RequestDriveOK
<1>5. Moves(w, e)
  BY <1>0, <1>3, <1>4, LeavesMoves DEF Sound, WorldOK
<1>6. e.goal.rounds \in Nat /\ e.goal.ref \in Nat
  BY <1>4, Parts DEF Sound, WorldOK, GoalType
<1> HIDE DEF e
<1>7. Sound(v, d) /\ Moves(w, v) /\ v.goal = e.goal
  <2>1. CASE v = e
    BY <1>4, <1>5, <2>1
  <2>2. CASE v = Claim(e) /\ e.agent.queue # <<>>
    BY <1>4, <1>5, <2>2, ClaimOK DEF Moves, Sound
  <2> QED BY <2>1, <2>2
<1> HIDE DEF v
<1>8. Pursued(v.goal) => Pursued(p.goal)
  BY <1>4, <1>7 DEF Moves
<1> QED BY <1>1, <1>3, <1>7, <1>8

(* The revision on which a turn worked that ends as cancelled. *)
Worked(w) == IF CutOff(w.driver.attempt) THEN w.driver.attempt.ref ELSE w.goal.ref

(* A turn that ends as aborted leaves no goal pursued but one that is later than
   the revision it worked on. *)
LEMMA EndTurnOK ==
  ASSUME NEW d \in Nat, NEW w, Sound(w, d), NEW reason \in Reasons
  PROVE  LET v == EndTurn(w, reason)
         IN  /\ Sound(v, d) /\ Moves(w, v)
             /\ Worked(w) \in Nat /\ Worked(w) <= w.goal.ref
             /\ reason = "aborted" /\ Pursued(v.goal) => Worked(w) < w.goal.ref
<1> DEFINE e == TurnEnded(w, reason)
           v == EndTurn(w, reason)
<1>0. /\ w \in WorldType /\ w.goal.ref \in Nat /\ w.driver.attempt.ref \in Nat
      /\ w.driver.attempt.ref <= w.goal.ref
  BY Parts DEF Sound, WorldOK, AttemptOK, GoalType, DriverType, AttemptType
<1>1. /\ Sound(e, d) /\ Leaves(w, e) /\ e.agent = w.agent
      /\ (e.driver.attempt = NoAttempt) = (w.driver.attempt = NoAttempt)
      /\ e.driver.attempt.ref = w.driver.attempt.ref
      /\ reason = "aborted" =>
           \/ ~Pursued(e.goal)
           \/ CutOff(w.driver.attempt) /\ e.driver.attempt.cancelled
  BY TurnEndedOK
<1>2. e \in WorldType /\ e.goal.rounds \in Nat /\ e.goal.ref \in Nat
  BY <1>1, Parts DEF Sound, WorldOK, GoalType
<1>w. Worked(w) \in Nat /\ Worked(w) <= w.goal.ref
  BY <1>0 DEF Worked
<1>3. v = IF reason \in {"completed", "max-tokens"} /\ e.agent.queue # <<>>
          THEN Claim(e) ELSE Settle(e)
  BY DEF EndTurn
<1> HIDE DEF e, v
<1>4. CASE reason \in {"completed", "max-tokens"} /\ e.agent.queue # <<>>
  <2>1. v = Claim(e)
    BY <1>3, <1>4
  <2>2. /\ Sound(v, d) /\ v.goal = e.goal /\ v.agent.stage = "assembling"
        /\ e.driver.attempt = NoAttempt => v.driver.attempt = NoAttempt
    BY <1>1, <1>4, <2>1, ClaimOK DEF Sound
  <2>3. Moves(w, v)
    BY <1>1, <2>2 DEF Leaves, Moves
  <2> QED BY <1>4, <1>w, <2>2, <2>3 DEF v
<1>5. CASE ~(reason \in {"completed", "max-tokens"} /\ e.agent.queue # <<>>)
  <2>1. v = Settle(e)
    BY <1>3, <1>5
  <2>2. /\ Sound(v, d) /\ Moves(e, v)
        /\ e.driver.attempt.cancelled /\ e.driver.attempt.ref = e.goal.ref =>
             ~Pursued(v.goal)
    BY <1>1, <2>1, SettleOK
  <2>3. Moves(w, v)
    BY <1>0, <1>1, <1>2, <2>2, LeavesMoves DEF Sound, WorldOK
  <2>4. ASSUME reason = "aborted", Pursued(v.goal)
        PROVE  Worked(w) < w.goal.ref
    <3>1. v.goal = e.goal /\ v.goal = w.goal /\ Pursued(e.goal)
      BY <2>2, <2>3, <2>4 DEF Moves
    <3>2. CutOff(w.driver.attempt) /\ e.driver.attempt.cancelled
      BY <1>1, <2>4, <3>1
    <3>3. w.driver.attempt.ref # w.goal.ref
      BY <1>1, <2>2, <2>4, <3>1, <3>2
    <3> QED BY <1>0, <3>2, <3>3 DEF Worked
  <2> QED BY <1>w, <2>2, <2>3, <2>4 DEF v
<1> QED BY <1>4, <1>5

-----------------------------------------------------------------------------
(* The worlds between which a step leads. *)

(* Flags of the turn and of the attempt change, the queue, or the driver stops. *)
LEMMA TouchedOK ==
  ASSUME NEW d \in Nat, NEW w, WorldOK(w, d), NEW v \in WorldType,
         v.goal = w.goal \/ v.goal = [w.goal EXCEPT !.armed = FALSE],
         v.agent.stage = w.agent.stage, v.agent.cur = w.agent.cur,
         \A i \in DOMAIN v.agent.queue : MessageOK(w.goal, v.agent.queue[i]),
         v.driver.runs = w.driver.runs, v.driver.needs = w.driver.needs,
         v.driver.attempt.phase = w.driver.attempt.phase,
         v.driver.attempt.ref = w.driver.attempt.ref,
         v.driver.attempt.round = w.driver.attempt.round,
         w.driver.attempt = NoAttempt => v.driver.attempt = NoAttempt,
         Entering(w) =>
           \/ v.agent.aborted
           \/ ~w.agent.aborted /\ v.driver.stopping = w.driver.stopping
  PROVE  WorldOK(v, d) /\ Leaves(w, v)
<1>0. w \in WorldType /\ w.goal \in GoalType
  BY Parts DEF WorldOK
<1>1. /\ v.goal.ref = w.goal.ref /\ v.goal.phase = w.goal.phase
      /\ v.goal.rounds = w.goal.rounds /\ v.goal.max = w.goal.max
      /\ v.goal.armed => v.goal = w.goal
      /\ w.goal.rounds \in Nat /\ w.goal.ref \in Nat
  BY <1>0 DEF GoalType
<1>2. MessagesOK(v)
  BY <1>1 DEF WorldOK, MessagesOK, MessageOK
<1>3. AttemptOK(v)
  BY <1>1 DEF WorldOK, AttemptOK
<1>4. EnteringOK(v)
  BY <1>1 DEF WorldOK, EnteringOK, Entering, Same, NextRound
<1>5. FlushesOK(v, d)
  BY <1>1 DEF WorldOK, FlushesOK, Flushing
<1>6. Leaves(w, v)
  BY <1>1 DEF Leaves, Pursued
<1> QED BY <1>2, <1>3, <1>4, <1>5, <1>6 DEF WorldOK

(* The turn reaches its next stage: past the second fence the round is the
   goal's next. *)
LEMMA StageOK ==
  ASSUME NEW d \in Nat, NEW w, WorldOK(w, d), NEW st \in Stages,
         st = "entering" => ValidReservation(w) /\ ~w.agent.aborted,
         st = "prepared" => w.agent.stage = "entering" /\ ~w.agent.aborted
  PROVE  LET v == [w EXCEPT !.agent.stage = st]
         IN  /\ WorldOK(v, d) /\ v.goal = w.goal /\ v.driver = w.driver
             /\ v.agent.stage = st /\ v.agent.aborted = w.agent.aborted
             /\ st # "prepared" => Leaves(w, v)
<1> DEFINE v == [w EXCEPT !.agent.stage = st]
<1>0. /\ w \in WorldType /\ w.agent \in AgentType /\ w.goal.rounds \in Nat
      /\ w.agent.cur \in Message /\ w.goal.ref \in Nat
  BY Parts DEF WorldOK, AgentType, GoalType
<1>1. /\ v.goal = w.goal /\ v.driver = w.driver
      /\ v.agent = [w.agent EXCEPT !.stage = st]
      /\ v = [w EXCEPT !.agent = v.agent]
  BY <1>0 DEF WorldType, AgentType
<1> HIDE DEF v
<1>2. v.agent \in AgentType
  BY <1>0, <1>1 DEF AgentType
<1>3. v \in WorldType
  BY <1>0, <1>1, <1>2 DEF WorldType
<1>4. /\ v.agent.stage = st /\ v.agent.aborted = w.agent.aborted
      /\ v.agent.cur = w.agent.cur /\ v.agent.queue = w.agent.queue
  BY <1>0, <1>1 DEF AgentType
<1>5. EnteringOK(v)
  <2>1. CASE st = "entering"
    <3>2. ValidReservation(w) /\ ~w.agent.aborted
      BY <2>1
    <3>3. IsRound(w.agent.cur)
      BY <1>0, <3>2 DEF ValidReservation, IsRound, Message
    <3>4. w.agent.cur.round <= w.goal.max
      BY <3>2, <3>3 DEF ValidReservation, WorldOK, MessagesOK, MessageOK
    <3> QED BY <1>1, <1>4, <3>2, <3>3, <3>4
            DEF EnteringOK, ValidReservation, NextRound, Pursued
  <2>2. CASE st = "prepared"
    BY <1>1, <1>4, <2>2 DEF WorldOK, EnteringOK, Entering
  <2>3. CASE st # "entering" /\ st # "prepared"
    BY <1>4, <2>3 DEF EnteringOK, Entering
  <2> QED BY <2>1, <2>2, <2>3
<1>6. MessagesOK(v) /\ AttemptOK(v) /\ FlushesOK(v, d)
  BY <1>1, <1>4 DEF WorldOK, MessagesOK, AttemptOK, FlushesOK, Flushing
<1>7. st # "prepared" => Leaves(w, v)
  BY <1>0, <1>1, <1>4 DEF Leaves
<1> QED BY <1>1, <1>3, <1>4, <1>5, <1>6, <1>7 DEF v, WorldOK

(* A flush that is done. *)
LEMMA FlushedOK ==
  ASSUME NEW d \in Nat, NEW w, WorldOK(w, d), NEW r \in Run,
         w.driver.runs[r].st = "flushing"
  PROVE  LET from == w.driver.runs[r].from
             e == IF from > d THEN from ELSE d
         IN  e \in Nat /\ WorldOK(InLoop(w, r), e)
<1> DEFINE from == w.driver.runs[r].from
           e == IF from > d THEN from ELSE d
           v == InLoop(w, r)
<1>0. /\ w \in WorldType /\ w.driver \in DriverType /\ w.goal.ref \in Nat
      /\ from \in Nat /\ \A q \in Run : w.driver.runs[q] \in RunType
  BY Parts DEF WorldOK, GoalType, DriverType, RunType
<1>1. /\ v \in WorldType /\ SameTurn(w, v) /\ v.driver.needs = w.driver.needs
      /\ v.driver.stopping = w.driver.stopping
      /\ v.driver.runs = [w.driver.runs EXCEPT ![r] = [st |-> "loop", from |-> 0]]
  BY <1>0, InLoopType
<1> HIDE DEF v
<1>2. \A q \in Run : v.driver.runs[q] = IF q = r THEN [st |-> "loop", from |-> 0]
                                        ELSE w.driver.runs[q]
  BY <1>0, <1>1 DEF DriverType
<1>3. e \in Nat /\ e <= w.goal.ref /\ d <= e /\ from <= e
  BY <1>0 DEF WorldOK, FlushesOK
<1>4. Flushing(w, w.goal.ref) => e = w.goal.ref \/ Flushing(v, w.goal.ref)
  <2>1. SUFFICES ASSUME NEW q \in Run,
                        w.driver.runs[q] = [st |-> "flushing", from |-> w.goal.ref]
                 PROVE  e = w.goal.ref \/ Flushing(v, w.goal.ref)
    BY DEF Flushing
  <2> HIDE DEF e
  <2>2. CASE q = r
    BY <1>0, <1>3, <2>1, <2>2
  <2>3. CASE q # r
    BY <1>2, <2>1, <2>3 DEF Flushing
  <2> QED BY <2>2, <2>3
<1>5. d = w.goal.ref => e = w.goal.ref
  BY <1>0, <1>3
<1> HIDE DEF e
<1>6. FlushesOK(v, e)
  <2>1. \A q \in Run : v.driver.runs[q].from <= v.goal.ref
    BY <1>0, <1>1, <1>2 DEF WorldOK, FlushesOK, SameTurn
  <2> QED BY <1>1, <1>3, <1>4, <1>5, <2>1 DEF WorldOK, FlushesOK, SameTurn
<1>7. MessagesOK(v) /\ AttemptOK(v) /\ EnteringOK(v)
  BY <1>1 DEF WorldOK, MessagesOK, AttemptOK, EnteringOK, Entering, SameTurn
<1> QED BY <1>1, <1>3, <1>6, <1>7 DEF WorldOK, e, v

(* The inbox is cleared and the turn aborted. *)
LEMMA CancelledType ==
  ASSUME NEW w \in WorldType
  PROVE  LET v == Cancelled(w)
         IN  /\ v \in WorldType /\ v.goal = w.goal
             /\ v.agent.stage = w.agent.stage /\ v.agent.cur = w.agent.cur
             /\ v.agent.queue = <<>> /\ v.agent.aborted = (w.agent.stage # "idle")
             /\ v.driver.attempt.phase = w.driver.attempt.phase
             /\ v.driver.attempt.ref = w.driver.attempt.ref
             /\ v.driver.attempt.round = w.driver.attempt.round
             /\ w.driver.attempt = NoAttempt => v.driver.attempt = NoAttempt
             /\ v.driver.runs = w.driver.runs /\ v.driver.needs = w.driver.needs
             /\ v.driver.stopping = w.driver.stopping
<1> DEFINE b == \/ w.driver.attempt.cancelled
                \/ \E i \in DOMAIN w.agent.queue : Same(w.agent.queue[i], w.driver.attempt)
           a == [w.driver.attempt EXCEPT !.cancelled = b]
           v == Cancelled(w)
<1>0. /\ w \in WorldType /\ w.agent \in AgentType /\ w.driver \in DriverType
      /\ w.driver.attempt \in AttemptType
  BY Parts DEF DriverType
<1>1. b \in BOOLEAN /\ (w.driver.attempt = NoAttempt => b = FALSE)
  BY <1>0, ConstantTypes DEF AttemptType, Same, NoAttempt
<1>2. /\ v.goal = w.goal
      /\ v.agent = [w.agent EXCEPT !.queue = <<>>, !.latched = FALSE,
                                   !.aborted = (w.agent.stage # "idle")]
      /\ v.driver = [w.driver EXCEPT !.attempt = a]
      /\ v = [w EXCEPT !.agent = v.agent, !.driver = v.driver]
  BY <1>0, ZenonT(30) DEF Cancelled, WorldType, AgentType, DriverType
<1> HIDE DEF v, b
<1>3. /\ a \in AttemptType /\ a.phase = w.driver.attempt.phase
      /\ a.ref = w.driver.attempt.ref /\ a.round = w.driver.attempt.round
      /\ w.driver.attempt = NoAttempt => a = NoAttempt
  BY <1>0, <1>1 DEF AttemptType, NoAttempt
<1> HIDE DEF a
<1>4. v.agent \in AgentType
  <2>1. <<>> \in Seq(Message) /\ (w.agent.stage # "idle") \in BOOLEAN
    OBVIOUS
  <2> QED BY <1>0, <1>2, <2>1 DEF AgentType
<1>5. v.driver \in DriverType
  BY <1>0, <1>2, <1>3 DEF DriverType
<1>6. v \in WorldType
  BY <1>0, <1>2, <1>4, <1>5 DEF WorldType
<1>7. /\ v.agent.stage = w.agent.stage /\ v.agent.cur = w.agent.cur
      /\ v.agent.queue = <<>> /\ v.agent.aborted = (w.agent.stage # "idle")
      /\ v.driver.attempt = a /\ v.driver.runs = w.driver.runs
      /\ v.driver.needs = w.driver.needs /\ v.driver.stopping = w.driver.stopping
  BY <1>0, <1>2 DEF AgentType, DriverType
<1> QED BY <1>2, <1>3, <1>6, <1>7 DEF v

LEMMA CancelledOK ==
  ASSUME NEW d \in Nat, NEW w, WorldOK(w, d)
  PROVE  WorldOK(Cancelled(w), d) /\ Leaves(w, Cancelled(w))
<1> DEFINE v == Cancelled(w)
<1>1. w \in WorldType
  BY DEF WorldOK
<1>2. /\ v \in WorldType /\ v.goal = w.goal
      /\ v.agent.stage = w.agent.stage /\ v.agent.cur = w.agent.cur
      /\ v.agent.queue = <<>> /\ v.agent.aborted = (w.agent.stage # "idle")
      /\ v.driver.attempt.phase = w.driver.attempt.phase
      /\ v.driver.attempt.ref = w.driver.attempt.ref
      /\ v.driver.attempt.round = w.driver.attempt.round
      /\ w.driver.attempt = NoAttempt => v.driver.attempt = NoAttempt
      /\ v.driver.runs = w.driver.runs /\ v.driver.needs = w.driver.needs
      /\ v.driver.stopping = w.driver.stopping
  BY <1>1, CancelledType
<1> HIDE DEF v
<1>3. \A i \in DOMAIN v.agent.queue : MessageOK(w.goal, v.agent.queue[i])
  BY <1>2
<1>4. Entering(w) => v.agent.aborted
  BY <1>2 DEF Entering
<1>5. WorldOK(v, d) /\ Leaves(w, v)
  BY <1>2, <1>3, <1>4, TouchedOK
<1> QED BY <1>5 DEF v

(* A user's prompt joins the queue. *)
Sent(w) ==
  [w EXCEPT !.agent.queue = Append(@, Human),
            !.agent.latched = @ \/ w.agent.aborted,
            !.driver.competing = TRUE,
            !.driver.attempt.stale = @ \/ w.driver.attempt.phase = "queued"]

LEMMA SentOK ==
  ASSUME NEW d \in Nat, NEW w, WorldOK(w, d)
  PROVE  LET v == Sent(w)
         IN  /\ WorldOK(v, d) /\ Leaves(w, v) /\ v.goal = w.goal
             /\ v.agent.stage = w.agent.stage /\ v.agent.aborted = w.agent.aborted
             /\ v.driver.attempt.ref = w.driver.attempt.ref
             /\ v.agent.queue # <<>>
<1> DEFINE b == w.driver.attempt.stale \/ w.driver.attempt.phase = "queued"
           a == [w.driver.attempt EXCEPT !.stale = b]
           q == Append(w.agent.queue, Human)
           v == Sent(w)
<1>0. /\ w \in WorldType /\ w.agent \in AgentType /\ w.driver \in DriverType
      /\ w.driver.attempt \in AttemptType /\ w.agent.queue \in Seq(Message)
      /\ w.goal.ref \in Nat
  BY Parts DEF WorldOK, DriverType, AgentType, GoalType
<1>1. b \in BOOLEAN /\ (w.driver.attempt = NoAttempt => b = FALSE)
  BY <1>0, ConstantTypes DEF AttemptType, NoAttempt
<1>2. /\ v.goal = w.goal
      /\ v.agent = [w.agent EXCEPT !.queue = q,
                                   !.latched = w.agent.latched \/ w.agent.aborted]
      /\ v.driver = [w.driver EXCEPT !.competing = TRUE, !.attempt = a]
      /\ v = [w EXCEPT !.agent = v.agent, !.driver = v.driver]
  BY <1>0, ZenonT(30) DEF Sent, WorldType, AgentType, DriverType
<1> HIDE DEF v, b
<1>3. /\ a \in AttemptType /\ a.phase = w.driver.attempt.phase
      /\ a.ref = w.driver.attempt.ref /\ a.round = w.driver.attempt.round
      /\ w.driver.attempt = NoAttempt => a = NoAttempt
  BY <1>0, <1>1 DEF AttemptType, NoAttempt
<1>4. /\ q \in Seq(Message) /\ q # <<>>
      /\ \A i \in DOMAIN q : q[i] = Human \/ (i \in DOMAIN w.agent.queue /\ q[i] = w.agent.queue[i])
  <2>1. /\ q \in Seq(Message) /\ Len(q) = Len(w.agent.queue) + 1
        /\ Len(w.agent.queue) \in Nat /\ q[Len(w.agent.queue) + 1] = Human
        /\ \A i \in 1..Len(w.agent.queue) : q[i] = w.agent.queue[i]
    BY <1>0, ConstantTypes, AppendProperties
  <2>2. DOMAIN q = 1..Len(q) /\ DOMAIN w.agent.queue = 1..Len(w.agent.queue)
    BY <1>0, <2>1
  <2> HIDE DEF q
  <2>3. ASSUME NEW i \in DOMAIN q
        PROVE  q[i] = Human \/ (i \in DOMAIN w.agent.queue /\ q[i] = w.agent.queue[i])
    <3>1. i \in 1..Len(w.agent.queue) \/ i = Len(w.agent.queue) + 1
      BY <2>1, <2>2
    <3>2. CASE i \in 1..Len(w.agent.queue)
      BY <2>1, <2>2, <3>2
    <3>3. CASE i = Len(w.agent.queue) + 1
      BY <2>1, <3>3
    <3> QED BY <3>1, <3>2, <3>3
  <2>4. q # <<>>
    BY <2>1
  <2> QED BY <2>1, <2>3, <2>4
<1> HIDE DEF a, q
<1>5. v.agent \in AgentType
  BY <1>0, <1>2, <1>4 DEF AgentType
<1>6. v.driver \in DriverType
  BY <1>0, <1>2, <1>3 DEF DriverType
<1>7. v \in WorldType
  BY <1>0, <1>2, <1>5, <1>6 DEF WorldType
<1>8. /\ v.agent.stage = w.agent.stage /\ v.agent.cur = w.agent.cur
      /\ v.agent.queue = q /\ v.agent.aborted = w.agent.aborted
      /\ v.driver.attempt = a /\ v.driver.runs = w.driver.runs
      /\ v.driver.needs = w.driver.needs /\ v.driver.stopping = w.driver.stopping
  BY <1>0, <1>2 DEF AgentType, DriverType
<1>9. \A i \in DOMAIN v.agent.queue : MessageOK(w.goal, v.agent.queue[i])
  <2>1. MessageOK(w.goal, Human)
    BY <1>0, ConstantTypes DEF MessageOK
  <2> QED BY <1>4, <1>8, <2>1 DEF WorldOK, MessagesOK
<1>10. WorldOK(v, d) /\ Leaves(w, v)
  BY <1>2, <1>3, <1>7, <1>8, <1>9, <1>0, TouchedOK DEF AgentType
<1> QED BY <1>2, <1>3, <1>4, <1>8, <1>10 DEF v

(* The plugin unloads: the turn of an attempt is aborted. *)
Unloaded(w) ==
  StopRound(Disarm([w EXCEPT !.driver.stopping = TRUE,
                             !.driver.attempt.stale = @ \/ w.driver.attempt # NoAttempt]))

LEMMA UnloadedOK ==
  ASSUME NEW d \in Nat, NEW w, WorldOK(w, d)
  PROVE  WorldOK(Unloaded(w), d) /\ Leaves(w, Unloaded(w)) /\ ~Pursued(Unloaded(w).goal)
<1> DEFINE b == w.driver.attempt.stale \/ w.driver.attempt # NoAttempt
           a == [w.driver.attempt EXCEPT !.stale = b]
           x == Disarm([w EXCEPT !.driver.stopping = TRUE, !.driver.attempt.stale = b])
           v == StopRound(x)
<1>0. /\ w \in WorldType /\ w.goal \in GoalType /\ w.agent \in AgentType
      /\ w.driver \in DriverType /\ w.driver.attempt \in AttemptType
  BY Parts DEF WorldOK, DriverType
<1>1. b \in BOOLEAN /\ (w.driver.attempt = NoAttempt => b = FALSE)
  BY <1>0 DEF AttemptType, NoAttempt
<1>2. /\ x.goal = [w.goal EXCEPT !.armed = FALSE] /\ x.agent = w.agent
      /\ x.driver = [w.driver EXCEPT !.stopping = TRUE, !.attempt = a]
      /\ x = [w EXCEPT !.goal = x.goal, !.driver = x.driver]
  BY <1>0 DEF Disarm, WorldType, DriverType
<1>3. Unloaded(w) = v
  BY <1>0 DEF Unloaded, WorldType, DriverType
<1> HIDE DEF x, b
<1>4. /\ a \in AttemptType /\ a.phase = w.driver.attempt.phase
      /\ a.ref = w.driver.attempt.ref /\ a.round = w.driver.attempt.round
      /\ w.driver.attempt = NoAttempt => a = NoAttempt
  BY <1>0, <1>1 DEF AttemptType, NoAttempt
<1> HIDE DEF a
<1>5. x.driver \in DriverType
  BY <1>0, <1>2, <1>4 DEF DriverType
<1>6. x \in WorldType
  BY <1>0, <1>2, <1>5 DEF WorldType, GoalType
<1>7. /\ x.driver.attempt = a /\ x.driver.runs = w.driver.runs
      /\ x.driver.needs = w.driver.needs /\ x.driver.stopping
      /\ ~Pursued(x.goal)
  BY <1>0, <1>2 DEF DriverType, GoalType, Pursued
<1>8. \A i \in DOMAIN x.agent.queue : MessageOK(w.goal, x.agent.queue[i])
  BY <1>2 DEF WorldOK, MessagesOK
<1>9. Entering(w) => a # NoAttempt /\ w.agent.stage # "idle"
  BY <1>4, ConstantTypes DEF WorldOK, EnteringOK, Entering
<1>10. /\ v \in WorldType /\ v.goal = x.goal
       /\ v.agent.stage = w.agent.stage /\ v.agent.cur = w.agent.cur
       /\ v.agent.queue = <<>> \/ v.agent.queue = w.agent.queue
       /\ Entering(w) => v.agent.aborted
       /\ v.driver.attempt.phase = a.phase /\ v.driver.attempt.ref = a.ref
       /\ v.driver.attempt.round = a.round
       /\ a = NoAttempt => v.driver.attempt = NoAttempt
       /\ v.driver.runs = x.driver.runs /\ v.driver.needs = x.driver.needs
  <2>1. CASE x.driver.attempt # NoAttempt /\ x.agent.stage # "idle"
    <3>1. v = Cancelled(x)
      BY <2>1 DEF StopRound
    <3> HIDE DEF v
    <3> QED BY <1>2, <1>6, <1>7, <3>1, CancelledType, <2>1, ZenonT(30)
  <2>2. CASE ~(x.driver.attempt # NoAttempt /\ x.agent.stage # "idle")
    <3>1. v = x
      BY <2>2 DEF StopRound
    <3> HIDE DEF v
    <3> QED BY <1>2, <1>6, <1>7, <1>9, <3>1, <2>2
  <2> QED BY <2>1, <2>2
<1> HIDE DEF v
<1>11. \A i \in DOMAIN v.agent.queue : MessageOK(w.goal, v.agent.queue[i])
  BY <1>2, <1>8, <1>10
<1>12. WorldOK(v, d) /\ Leaves(w, v)
  <2>1. /\ v.goal = w.goal \/ v.goal = [w.goal EXCEPT !.armed = FALSE]
        /\ v.driver.runs = w.driver.runs /\ v.driver.needs = w.driver.needs
        /\ v.driver.attempt.phase = w.driver.attempt.phase
        /\ v.driver.attempt.ref = w.driver.attempt.ref
        /\ v.driver.attempt.round = w.driver.attempt.round
        /\ w.driver.attempt = NoAttempt => v.driver.attempt = NoAttempt
    BY <1>2, <1>4, <1>7, <1>10
  <2>2. Entering(w) => \/ v.agent.aborted
                       \/ ~w.agent.aborted /\ v.driver.stopping = w.driver.stopping
    BY <1>10
  <2> QED BY <1>10, <1>11, <2>1, <2>2, TouchedOK
<1> QED BY <1>3, <1>7, <1>10, <1>12

(* A run retires: a call for the driver that came meanwhile starts another. *)
Retired(w, r) == [w EXCEPT !.driver.busy = FALSE, !.driver.runs[r] = NoRun]

LEMMA RetiredOK ==
  ASSUME NEW d \in Nat, NEW w, WorldOK(w, d), NEW r \in Run,
         w.driver.runs[r].st = "retiring"
  PROVE  LET v == Resumes(Retired(w, r))
         IN  /\ WorldOK(v, d) /\ Moves(w, v)
             /\ w.agent.stage # "idle" => SameTurn(w, v)
<1> DEFINE x == Retired(w, r)
           v == Resumes(x)
<1>0. w \in WorldType /\ w.driver \in DriverType /\ w.goal.ref \in Nat /\ NoRun \in RunType
  BY Parts, ConstantTypes DEF WorldOK, GoalType
<1>1. /\ x \in WorldType /\ SameTurn(w, x)
      /\ x.driver = [w.driver EXCEPT !.busy = FALSE,
                                     !.runs = [w.driver.runs EXCEPT ![r] = NoRun]]
  BY <1>0 DEF Retired, WorldType, DriverType, SameTurn
<1> HIDE DEF x
<1>2. /\ x.driver.stopping = w.driver.stopping /\ x.driver.needs = w.driver.needs
      /\ x.driver.runs = [w.driver.runs EXCEPT ![r] = NoRun]
  BY <1>0, <1>1 DEF DriverType
<1>3. WorldOK(x, d) /\ Moves(w, x)
  <2>1. NoRun.from <= w.goal.ref
    BY <1>0 DEF NoRun
  <2> QED BY <1>0, <1>1, <1>2, <2>1, RunOK
<1>4. x.driver.runs[r] = NoRun
  BY <1>0, <1>2 DEF DriverType
<1>5. Sound(x, d)
  BY <1>3, <1>4 DEF Sound, HasRun, NoRun
<1>6. Leaves(w, x)
  BY <1>0, <1>1, SameLeaves
<1>7. CASE x.driver.requested
  <2>1. v = RequestDrive(x)
    BY <1>7 DEF Resumes
  <2>2. Sound(v, d) /\ Moves(x, v) /\ (x.agent.stage # "idle" => SameTurn(x, v))
    BY <1>5, <2>1, RequestDriveOK
  <2>3. Moves(w, v)
    BY <1>0, <1>1, <1>6, <2>2, LeavesMoves DEF Sound, WorldOK
  <2> HIDE DEF v
  <2> QED BY <1>1, <2>2, <2>3 DEF Sound, SameTurn, v, x
<1>8. CASE ~x.driver.requested
  <2>1. v = x
    BY <1>8 DEF Resumes
  <2> HIDE DEF v
  <2> QED BY <1>1, <1>3, <2>1 DEF v, x
<1> QED BY <1>7, <1>8

-----------------------------------------------------------------------------
(* The steps. *)

StepOK ==
  /\ IInv'
  /\ Reserves => Pursued(goal') /\ goal' = goal /\ ~driver'.needs
  /\ driver.stopping =>
       /\ goal'.rounds <= goal.rounds \/ (AtStage("prepared") /\ agent.aborted)
       /\ agent'.stage = "prepared" => agent.stage = "prepared"

LEMMA BecomesWorld ==
  ASSUME NEW v \in WorldType, Becomes(v)
  PROVE  World' = v
BY DEF Becomes, World, WorldType

LEMMA Facts ==
  ASSUME IInv
  PROVE  /\ durable \in Nat /\ WorldOK(World, durable) /\ World \in WorldType
         /\ World.goal = goal /\ World.agent = agent /\ World.driver = driver
         /\ goal \in GoalType /\ agent \in AgentType /\ driver \in DriverType
         /\ goal.rounds \in Nat /\ goal.ref \in Nat
         /\ asked \in Nat /\ halted \in Nat /\ AskedOK(World, asked, halted)
         /\ Leaves(World, World)
<1>1. /\ durable \in Nat /\ WorldOK(World, durable) /\ World \in WorldType
      /\ World.goal = goal /\ World.agent = agent /\ World.driver = driver
      /\ asked \in Nat /\ halted \in Nat /\ AskedOK(World, asked, halted)
  BY DEF IInv, WorldOK, World
<1>2. goal \in GoalType /\ agent \in AgentType /\ driver \in DriverType
  BY <1>1, Parts
<1>3. goal.rounds \in Nat /\ goal.ref \in Nat
  BY <1>2 DEF GoalType
<1> QED BY <1>1, <1>2, <1>3 DEF Leaves

(* What a step did that is one of the driver's moves. *)
LEMMA MovesStep ==
  ASSUME IInv, NEW d \in Nat, NEW v, WorldOK(v, d), Becomes(v), durable' = d,
         Moves(World, v), UNCHANGED <<failed, asked>>,
         halted' \in Nat, AskedOK(v, asked, halted')
  PROVE  StepOK
<1>1. World' = v
  BY BecomesWorld DEF WorldOK
<1>2. v.goal = goal' /\ v.agent = agent' /\ v.driver = driver'
  BY DEF Becomes
<1>3. World.goal = goal /\ World.agent = agent /\ World.driver = driver
  BY DEF World
<1>4. IInv'
  BY <1>1 DEF IInv
<1> QED BY <1>2, <1>3, <1>4 DEF StepOK, Moves, Reserves

(* A goal that is pursued stays as it was asked for, whatever the driver does. *)
LEMMA AskedMoves ==
  ASSUME IInv, NEW v, v \in WorldType, Moves(World, v)
  PROVE  AskedOK(v, asked, halted)
<1>1. v.goal.ref \in Nat
  BY Parts DEF GoalType
<1> QED BY <1>1, Facts DEF AskedOK, Moves

(* A step that reserves nothing. *)
LEMMA LeavesStep ==
  ASSUME IInv, NEW v, WorldOK(v, durable), Becomes(v), Leaves(World, v),
         UNCHANGED <<durable, failed, asked, halted>>
  PROVE  StepOK
<1>1. Moves(World, v) /\ v \in WorldType
  BY DEF Leaves, Moves, WorldOK
<1>2. AskedOK(v, asked, halted)
  BY <1>1, AskedMoves
<1> QED BY <1>1, <1>2, Facts, MovesStep

LEMMA WorldSound ==
  ASSUME IInv, ~Over
  PROVE  Sound(World, durable)
<1>1. \E r \in Run : driver.runs[r].st = "none"
  BY DEF Over, RunAt
<1> QED BY <1>1, Facts DEF Sound, HasRun

(* The turn ends. *)
LEMMA EndsStep ==
  ASSUME IInv, ~Over, NEW reason \in Reasons, Ends(World, reason)
  PROVE  StepOK
<1> DEFINE v == EndTurn(World, reason)
<1>0. Sound(World, durable)
  BY WorldSound
<1>1. /\ Sound(v, durable) /\ Moves(World, v)
      /\ Worked(World) \in Nat /\ Worked(World) <= World.goal.ref
      /\ reason = "aborted" /\ Pursued(v.goal) => Worked(World) < World.goal.ref
  BY <1>0, Facts, EndTurnOK
<1>2. /\ Becomes(v) /\ UNCHANGED <<durable, failed, asked>>
      /\ halted' = IF reason = "aborted" THEN Worked(World) ELSE halted
  BY Facts DEF Ends, Worked
<1> HIDE DEF v
<1>3. v \in WorldType /\ v.goal.ref \in Nat /\ AskedOK(v, asked, halted)
  BY <1>1, AskedMoves, Parts DEF Sound, WorldOK, GoalType
<1>4. halted' \in Nat /\ AskedOK(v, asked, halted')
  <2>1. CASE reason = "aborted"
    <3>1. World.goal.ref <= v.goal.ref /\ (Pursued(v.goal) => v.goal = World.goal)
      BY <1>1 DEF Moves
    <3>2. halted' = Worked(World)
      BY <1>2, <2>1
    <3> QED BY <1>1, <1>3, <2>1, <3>1, <3>2, Facts DEF AskedOK
  <2>2. CASE reason # "aborted"
    BY <1>2, <1>3, <2>2, Facts
  <2> QED BY <2>1, <2>2
<1> QED BY <1>1, <1>2, <1>4, Facts, MovesStep DEF Sound

LEMMA AssemblyFailsStep ==
  ASSUME IInv, ~Over, AssemblyFails
  PROVE  StepOK
BY EndsStep DEF AssemblyFails, Reasons

LEMMA EntryFailsStep ==
  ASSUME IInv, ~Over, EntryFails
  PROVE  StepOK
BY EndsStep DEF EntryFails, Reasons

LEMMA RejectionEndsStep ==
  ASSUME IInv, ~Over, RejectionEnds
  PROVE  StepOK
BY EndsStep DEF RejectionEnds, Reasons

LEMMA WorkEndsStep ==
  ASSUME IInv, ~Over, NEW reason \in {"completed", "max-tokens", "error", "aborted"},
         WorkEnds(reason)
  PROVE  StepOK
BY EndsStep DEF WorkEnds, Reasons

(* The turn reaches a stage before the second fence, or passes it. *)
LEMMA ReachesStep ==
  ASSUME IInv, NEW u, WorldOK(u, durable), Leaves(World, u),
         NEW st \in Stages \ {"prepared"},
         st = "entering" => ValidReservation(u) /\ ~u.agent.aborted,
         Reaches(u, st)
  PROVE  StepOK
<1> DEFINE v == [u EXCEPT !.agent.stage = st]
<1>0. st \in Stages /\ st # "prepared"
  OBVIOUS
<1>1. WorldOK(v, durable) /\ Leaves(u, v)
  BY <1>0, Facts, StageOK
<1>2. Becomes(v) /\ UNCHANGED <<durable, failed, asked, halted>>
  BY DEF Reaches, Unbudgeted
<1> HIDE DEF v
<1>3. Leaves(World, v)
  <2>1. /\ World.goal.rounds \in Nat /\ u.goal.rounds \in Nat /\ v.goal.rounds \in Nat
        /\ World.goal.ref \in Nat /\ u.goal.ref \in Nat /\ v.goal.ref \in Nat
    BY <1>1, Facts, Parts DEF WorldOK, GoalType
  <2> QED BY <1>1, <2>1 DEF Leaves
<1> QED BY <1>1, <1>2, <1>3, LeavesStep

LEMMA PreStepHumanStep ==
  ASSUME IInv, ~Over, PreStepHuman
  PROVE  StepOK
BY Facts, ReachesStep DEF PreStepHuman, Stages

(* A fence that rejects the round asks the driver to drive, which it does not
   before the turn has ended. *)
LEMMA RejectedOK ==
  ASSUME IInv, ~Over, agent.stage \in {"assembling", "downstream", "working"},
         NEW c, c = World \/ c = ClearAttempt(World)
  PROVE  /\ Sound(c, durable) /\ Leaves(World, c)
         /\ Sound(RequestDrive(c), durable) /\ Leaves(World, RequestDrive(c))
<1> DEFINE u == RequestDrive(c)
<1>1. Sound(World, durable) /\ ~Entering(World) /\ agent.stage # "idle"
  BY WorldSound, Facts DEF Entering
<1>2. Sound(c, durable) /\ Leaves(World, c) /\ c.agent = agent
  <2>1. CASE c = World
    BY <1>1, <2>1, Facts
  <2>2. CASE c = ClearAttempt(World)
    <3>1. /\ WorldOK(c, durable) /\ c.goal = goal /\ c.agent = agent
          /\ c.driver.attempt = NoAttempt /\ HasRun(c)
      BY <1>1, <2>2, Facts, ClearAttemptOK DEF Sound
    <3> QED BY <3>1, Facts DEF Sound, Leaves
  <2> QED BY <2>1, <2>2
<1>3. Sound(u, durable) /\ SameTurn(c, u)
  BY <1>1, <1>2, Facts, RequestDriveOK
<1> HIDE DEF u
<1>4. Leaves(World, u)
  BY <1>2, <1>3 DEF Leaves, SameTurn
<1> QED BY <1>2, <1>3, <1>4 DEF u

(* The attempt may go, and the turn reaches its rejection. *)
LEMMA RejectsStep ==
  ASSUME IInv, ~Over, agent.stage \in {"assembling", "downstream", "working"},
         NEW c, c = World \/ c = ClearAttempt(World),
         NEW st \in {"rejected", "failing"}, Reaches(RequestDrive(c), st)
  PROVE  StepOK
<1> DEFINE u == RequestDrive(c)
<1>1. WorldOK(u, durable) /\ Leaves(World, u)
  BY RejectedOK DEF Sound
<1>2. Reaches(u, st) /\ st \in Stages \ {"prepared"} /\ st # "entering"
  BY DEF Stages
<1> HIDE DEF u
<1> QED BY <1>1, <1>2, ReachesStep

LEMMA PreStepRoundStep ==
  ASSUME IInv, ~Over, PreStepRound
  PROVE  StepOK
<1>1. CASE ValidReservation(World)
  BY <1>1, Facts, ReachesStep DEF PreStepRound, Stages
<1>2. CASE ~ValidReservation(World)
  <2>1. PICK c : /\ c = World \/ c = ClearAttempt(World)
                 /\ Reaches(RequestDrive(c), "rejected")
    BY <1>2 DEF PreStepRound
  <2> QED BY <2>1, RejectsStep DEF PreStepRound, AtStage
<1> QED BY <1>1, <1>2

LEMMA DownstreamThrowsStep ==
  ASSUME IInv, ~Over, DownstreamThrows
  PROVE  StepOK
<1>1. CASE agent.aborted
  BY <1>1, EndsStep DEF DownstreamThrows, Reasons
<1>2. CASE ~agent.aborted
  BY <1>2, RejectsStep DEF DownstreamThrows, AtStage
<1> QED BY <1>1, <1>2

LEMMA DownstreamRejectsStep ==
  ASSUME IInv, ~Over, DownstreamRejects
  PROVE  StepOK
<1> DEFINE c == ClearAttempt(World)
           u == IF Pursued(goal) /\ goal.ref = agent.cur.ref
                THEN Changed(c, "block", 1, FALSE) ELSE c
<1>1. Sound(c, durable) /\ Leaves(World, c)
  BY RejectedOK DEF DownstreamRejects, AtStage
<1>2. c.goal = goal /\ c.agent = agent /\ c.driver.attempt = NoAttempt
  BY Facts, ClearAttemptOK DEF DownstreamRejects, AtStage, Entering
<1>3. Reaches(u, "rejected")
  BY DEF DownstreamRejects
<1> HIDE DEF c
<1>4. WorldOK(u, durable) /\ Leaves(World, u)
  <2>1. CASE Pursued(goal) /\ goal.ref = agent.cur.ref
    <3>1. u = Changed(c, "block", 1, FALSE)
      BY <2>1
    <3> HIDE DEF u
    <3>2. "block" \in Operation /\ 1 \in Nat /\ FALSE \in BOOLEAN
      BY DEF Operation
    <3>3. c.agent.stage # "entering" /\ c.agent.stage # "prepared"
      BY <1>2 DEF DownstreamRejects, AtStage
    <3>4. /\ Sound(u, durable) /\ u.goal = After(c.goal, "block", 1)
          /\ u.driver.attempt = c.driver.attempt /\ u.agent.stage = c.agent.stage
      <4>1. durable \in Nat
        BY Facts
      <4> QED BY <1>1, <3>1, <3>2, <3>3, <4>1, ChangedOK, ZenonT(30)
    <3>5. ~u.goal.armed /\ u.goal.rounds <= goal.rounds /\ goal.ref <= u.goal.ref
      BY <1>2, <3>2, <3>4, Facts, AfterType
    <3> QED BY <1>2, <3>3, <3>4, <3>5, Facts DEF Leaves, Pursued, Sound
  <2>2. CASE ~(Pursued(goal) /\ goal.ref = agent.cur.ref)
    BY <1>1, <2>2 DEF Sound
  <2> QED BY <2>1, <2>2
<1> HIDE DEF u
<1> QED BY <1>3, <1>4, ReachesStep DEF Stages

LEMMA DownstreamEntersStep ==
  ASSUME IInv, ~Over, DownstreamEnters
  PROVE  StepOK
<1>1. CASE agent.aborted
  BY <1>1, EndsStep DEF DownstreamEnters, Reasons
<1>2. CASE ~agent.aborted /\ ValidReservation(World)
  BY <1>2, Facts, ReachesStep DEF DownstreamEnters, Stages
<1>3. CASE ~agent.aborted /\ ~ValidReservation(World)
  BY <1>3, RejectsStep DEF DownstreamEnters, AtStage
<1> QED BY <1>1, <1>2, <1>3 DEF DownstreamEnters

LEMMA PreparedStep ==
  ASSUME IInv, ~Over, Prepared
  PROVE  StepOK
<1>p. PICK st \in Stages : st = "prepared"
  BY DEF Stages
<1> DEFINE v == [World EXCEPT !.agent.stage = st]
<1>0. agent.stage = "entering" /\ ~agent.aborted
  BY DEF Prepared, AtStage
<1>1. WorldOK(v, durable) /\ v.goal = goal /\ v.driver = driver
  <2>1. /\ st = "entering" => ValidReservation(World) /\ ~World.agent.aborted
        /\ st = "prepared" => World.agent.stage = "entering" /\ ~World.agent.aborted
    BY <1>p, <1>0, Facts
  <2>2. durable \in Nat /\ WorldOK(World, durable)
    BY Facts
  <2>3. WorldOK(v, durable) /\ v.goal = World.goal /\ v.driver = World.driver
    BY <2>1, <2>2, StageOK, ZenonT(30)
  <2> QED BY <2>3, Facts
<1>2. Becomes(v) /\ UNCHANGED <<durable, failed, asked, halted>>
  BY <1>p DEF Prepared, Reaches, Unbudgeted
<1> HIDE DEF v
<1>3. ~driver.stopping
  BY <1>0, Facts DEF WorldOK, EnteringOK, Entering
<1>4. World' = v /\ goal' = goal /\ driver' = driver
  BY <1>1, <1>2, BecomesWorld DEF WorldOK, Becomes
<1>5. AskedOK(v, asked, halted)
  BY <1>1, Facts DEF AskedOK
<1>6. IInv'
  BY <1>1, <1>2, <1>4, <1>5 DEF IInv
<1> QED BY <1>3, <1>4, <1>6 DEF StepOK, Reserves

LEMMA AdmitStep ==
  ASSUME IInv, ~Over, Admit
  PROVE  StepOK
<1> DEFINE a == IF Same(agent.cur, driver.attempt)
                THEN [driver.attempt EXCEPT !.phase = "admitted"] ELSE driver.attempt
<1>0. /\ agent.stage = "prepared" /\ (driver.stopping => agent.aborted)
      /\ driver.attempt.phase # "none" /\ driver.attempt # NoAttempt
      /\ ~LateChanges => NextRound(goal, agent.cur)
  BY Facts, ConstantTypes DEF Admit, AtStage, WorldOK, EnteringOK, Entering
<1>1. /\ agent' = [agent EXCEPT !.stage = "working"]
      /\ driver' = [driver EXCEPT !.attempt = a]
      /\ durable' = durable /\ asked' = asked /\ halted' = halted
  BY DEF Admit
<1>2. /\ \/ goal' = [goal EXCEPT !.rounds = agent.cur.round] /\ failed' = failed
         \/ goal' = goal /\ failed' = TRUE /\ ~NextRound(goal, agent.cur)
  BY DEF Admit
<1>3. /\ driver.attempt \in AttemptType /\ agent.cur \in Message
      /\ agent.queue \in Seq(Message)
  BY Facts DEF DriverType, AgentType
<1>4. a \in AttemptType /\ a.phase # "none" /\ a.ref = driver.attempt.ref
  BY <1>0, <1>3 DEF AttemptType
<1> HIDE DEF a
<1>5. /\ agent' \in AgentType /\ agent'.stage = "working" /\ agent'.cur = agent.cur
      /\ agent'.queue = agent.queue /\ agent'.aborted = agent.aborted
  <2>1. agent' \in AgentType
    BY <1>1, Facts DEF AgentType, Stages
  <2> QED BY <1>1, <2>1, Facts DEF AgentType
<1>6. /\ driver' \in DriverType /\ driver'.attempt = a /\ driver'.runs = driver.runs
      /\ driver'.needs = driver.needs
  <2>1. driver' \in DriverType
    BY <1>1, <1>4, Facts DEF DriverType
  <2> QED BY <1>1, <2>1, Facts DEF DriverType
<1>7. /\ goal' \in GoalType /\ goal'.ref = goal.ref /\ goal'.max = goal.max
      /\ goal'.armed = goal.armed /\ goal'.phase = goal.phase
  BY <1>2, <1>3, Facts DEF GoalType, Message
<1>8. World'.goal = goal' /\ World'.agent = agent' /\ World'.driver = driver'
  BY DEF World
<1>9. World' \in WorldType
  BY <1>5, <1>6, <1>7 DEF World, WorldType
<1>10. MessagesOK(World')
  BY <1>5, <1>7, <1>8, Facts DEF WorldOK, MessagesOK, MessageOK
<1>11. AttemptOK(World') /\ EnteringOK(World')
  BY <1>4, <1>5, <1>6, <1>7, <1>8, Facts DEF WorldOK, AttemptOK, EnteringOK, Entering
<1>12. FlushesOK(World', durable')
  BY <1>1, <1>6, <1>7, <1>8, Facts DEF WorldOK, FlushesOK, Flushing
<1>13. AskedOK(World', asked', halted')
  BY <1>1, <1>7, <1>8, Facts DEF AskedOK, Pursued
<1>14. (~LateChanges => ~failed') /\ failed' \in BOOLEAN
  <2>1. (~LateChanges => ~failed) /\ failed \in BOOLEAN
    BY DEF IInv
  <2>2. CASE failed' = failed
    BY <2>1, <2>2
  <2>3. CASE failed' = TRUE /\ LateChanges
    BY <2>3
  <2> QED BY <1>0, <1>2, <2>2, <2>3, LateChangesAssumption
<1>15. IInv'
  BY <1>1, <1>9, <1>10, <1>11, <1>12, <1>13, <1>14, Facts DEF IInv, WorldOK
<1> QED BY <1>0, <1>5, <1>15 DEF StepOK, Reserves, AtStage

(* Somebody changes the goal. *)
LEMMA ChangeStep ==
  ASSUME IInv, ~Over, NEW op \in Operation, NEW cap \in Nat, NEW outside \in BOOLEAN,
         agent.stage = "entering" => LateChanges \/ (op = "pause" /\ outside),
         agent.stage = "prepared" => LateChanges,
         Becomes(Changed(World, op, cap, outside)), asked' = goal.ref + 1,
         UNCHANGED <<durable, failed, halted>>
  PROVE  StepOK
<1> DEFINE v == Changed(World, op, cap, outside)
<1>1. /\ World.agent.stage = "entering" => LateChanges \/ World.agent.aborted
                                           \/ (op = "pause" /\ outside)
      /\ World.agent.stage = "prepared" => LateChanges
  BY Facts
<1>2. /\ Sound(v, durable) /\ v.goal = After(World.goal, op, cap)
      /\ v.driver.attempt = World.driver.attempt
      /\ v.agent.stage = World.agent.stage
  BY <1>1, Facts, WorldSound, ChangedOK
<1> HIDE DEF v
<1>3. v.goal.rounds <= goal.rounds /\ v.goal.ref = goal.ref + 1
  <2>1. v.goal = After(goal, op, cap) /\ goal \in GoalType
    BY <1>2, Facts
  <2> QED BY <2>1, AfterType
<1>4. World' = v /\ goal' = v.goal /\ agent' = v.agent /\ driver' = v.driver
  BY <1>2, BecomesWorld DEF Sound, WorldOK, Becomes, v
<1>5. asked' \in Nat /\ halted' \in Nat /\ AskedOK(v, asked', halted')
  BY <1>3, Facts DEF AskedOK
<1>6. IInv'
  BY <1>2, <1>4, <1>5 DEF IInv, Sound
<1> QED BY <1>2, <1>3, <1>4, <1>6, Facts DEF StepOK, Reserves

LEMMA ModelChangesStep ==
  ASSUME IInv, ~Over, NEW op \in Operation, NEW cap \in 1..MaxRounds,
         ModelChanges(op, cap)
  PROVE  StepOK
<1>1. /\ agent.stage # "entering" /\ agent.stage # "prepared"
      /\ cap \in Nat /\ FALSE \in BOOLEAN
  BY DEF ModelChanges, AtStage
<1> QED BY <1>1, ChangeStep DEF ModelChanges

LEMMA HostChangesStep ==
  ASSUME IInv, ~Over, NEW op \in Operation, NEW cap \in 1..MaxRounds,
         HostChanges(op, cap)
  PROVE  StepOK
<1>1. /\ agent.stage = "entering" => LateChanges \/ (op = "pause" /\ TRUE)
      /\ agent.stage = "prepared" => LateChanges
  BY DEF HostChanges, AtStage
<1>2. cap \in Nat /\ TRUE \in BOOLEAN
  OBVIOUS
<1> QED BY <1>1, <1>2, ChangeStep DEF HostChanges

LEMMA FlushDoneStep ==
  ASSUME IInv, ~Over, NEW r \in Run, FlushDone(r)
  PROVE  StepOK
<1> DEFINE from == driver.runs[r].from
           e == IF from > durable THEN from ELSE durable
           l == InLoop(World, r)
           v == IF ReadyAfterCheckpoint(l) THEN Proceed(l) ELSE l
<1>1. /\ durable' = e /\ Becomes(v) /\ failed' = failed
      /\ asked' = asked /\ halted' = halted
  BY DEF FlushDone
<1>2. e \in Nat /\ WorldOK(l, e)
  <2>1. World.driver.runs[r].st = "flushing" /\ World.driver.runs[r].from = from
    BY Facts DEF FlushDone, RunAt
  <2> QED BY <2>1, Facts, FlushedOK
<1>3. l \in WorldType /\ SameTurn(World, l) /\ Leaves(World, l)
  BY Facts, InLoopType, SameLeaves
<1>4. Moves(World, l)
  BY <1>3, Facts DEF Moves, SameTurn
<1> HIDE DEF e, l
<1>5. WorldOK(v, e) /\ Moves(World, v)
  <2>1. CASE ReadyAfterCheckpoint(l)
    <3>1. v = Proceed(l) /\ Ready(l) /\ ~l.driver.needs
      BY <2>1 DEF ReadyAfterCheckpoint
    <3> HIDE DEF v
    <3>2. WorldOK(v, e) /\ Moves(l, v)
      BY <1>2, <3>1, ProceedOK
    <3>3. Moves(World, v)
      BY <1>3, <3>2, Facts, LeavesMoves DEF WorldOK
    <3> QED BY <3>2, <3>3
  <2>2. CASE ~ReadyAfterCheckpoint(l)
    BY <1>2, <1>4, <2>2
  <2> QED BY <2>1, <2>2
<1> HIDE DEF v
<1>6. AskedOK(v, asked, halted)
  BY <1>5, AskedMoves DEF WorldOK
<1> QED BY <1>1, <1>2, <1>5, <1>6, Facts, MovesStep

LEMMA FlushFailsStep ==
  ASSUME IInv, ~Over, NEW r \in Run, FlushFails(r)
  PROVE  StepOK
<1> DEFINE c == Disarm(World)
           v == Disarm(InLoop(World, r))
<1>1. v = InLoop(c, r)
  BY Facts DEF Disarm, InLoop, WorldType, GoalType, DriverType
<1>2. WorldOK(c, durable) /\ Moves(World, c) /\ ~Pursued(c.goal) /\ ~c.goal.armed
  <2>1. ~c.goal.armed
    BY Facts DEF Disarm, WorldType, GoalType
  <2> QED BY <2>1, Facts, DisarmOK
<1>3. Becomes(v) /\ durable \in Nat
  BY Facts DEF FlushFails
<1> HIDE DEF c, v
<1>4. WorldOK(v, durable) /\ SameTurn(c, v)
  BY <1>1, <1>2, <1>3, InLoopOK, InLoopType DEF WorldOK
<1>5. Moves(World, v)
  BY <1>2, <1>4 DEF Moves, SameTurn
<1>6. AskedOK(v, asked, halted)
  BY <1>4, <1>5, AskedMoves DEF WorldOK
<1> QED BY <1>3, <1>4, <1>5, <1>6, Facts, MovesStep DEF FlushFails, Unbudgeted

LEMMA LoopContinuesStep ==
  ASSUME IInv, ~Over, NEW r \in Run, LoopContinues(r)
  PROVE  StepOK
<1> DEFINE x == [World EXCEPT !.driver.requested = FALSE]
           v == Drive(x, r)
<1>1. /\ x \in WorldType /\ SameTurn(World, x)
      /\ x.driver = [driver EXCEPT !.requested = FALSE]
  BY Facts DEF WorldType, DriverType, SameTurn
<1>2. Becomes(v)
  BY DEF LoopContinues
<1> HIDE DEF x
<1>3. /\ x.driver.stopping = driver.stopping /\ x.driver.runs = driver.runs
      /\ x.driver.needs = driver.needs
  BY <1>1, Facts DEF DriverType
<1>4. WorldOK(x, durable) /\ Leaves(World, x)
  BY <1>1, <1>3, Facts, FlagsOK, SameLeaves
<1>5. x.driver.runs[r].st # "flushing"
  BY <1>3 DEF LoopContinues, RunAt
<1>6. /\ WorldOK(v, durable) /\ Moves(x, v)
      /\ x.agent.stage # "idle" => SameTurn(x, v)
  BY <1>4, <1>5, Facts, DriveOK
<1> HIDE DEF v
<1>7. Moves(World, v)
  BY <1>4, <1>6, Facts, LeavesMoves DEF WorldOK
<1>8. AskedOK(v, asked, halted)
  BY <1>6, <1>7, AskedMoves DEF WorldOK
<1> QED BY <1>2, <1>6, <1>7, <1>8, Facts, MovesStep DEF LoopContinues, Unbudgeted

LEMMA LoopEndsStep ==
  ASSUME IInv, ~Over, NEW r \in Run, LoopEnds(r)
  PROVE  StepOK
<1> DEFINE n == [st |-> "retiring", from |-> driver.runs[r].from]
           v == [World EXCEPT !.driver.runs[r].st = "retiring"]
<1>1. /\ n \in RunType /\ n.from = driver.runs[r].from
      /\ [driver.runs[r] EXCEPT !.st = "retiring"] = n
  BY Facts DEF DriverType, RunType
<1>2. /\ v.goal = goal /\ v.agent = agent
      /\ v.driver = [driver EXCEPT !.runs = [driver.runs EXCEPT ![r] = n]]
      /\ v = [World EXCEPT !.driver = v.driver]
  BY <1>1, Facts DEF WorldType, DriverType
<1>3. Becomes(v)
  BY DEF LoopEnds
<1> HIDE DEF n, v
<1>4. v.driver \in DriverType
  BY <1>1, <1>2, Facts DEF DriverType
<1>5. /\ v \in WorldType /\ SameTurn(World, v)
      /\ v.driver.stopping = World.driver.stopping /\ v.driver.needs = World.driver.needs
      /\ v.driver.runs = [World.driver.runs EXCEPT ![r] = n]
  BY <1>2, <1>4, Facts DEF WorldType, DriverType, SameTurn
<1>6. n.from <= World.goal.ref /\ World.driver.runs[r].st # "flushing"
  BY <1>1, Facts DEF WorldOK, FlushesOK, LoopEnds, RunAt
<1>7. WorldOK(v, durable) /\ Moves(World, v)
  BY <1>1, <1>5, <1>6, Facts, RunOK
<1>8. AskedOK(v, asked, halted)
  BY <1>7, AskedMoves DEF WorldOK
<1> QED BY <1>3, <1>7, <1>8, Facts, MovesStep DEF LoopEnds, Unbudgeted

LEMMA RetireStep ==
  ASSUME IInv, ~Over, NEW r \in Run, Retire(r)
  PROVE  StepOK
<1> DEFINE v == Resumes(Retired(World, r))
<1>1. Becomes(v)
  BY DEF Retire, Retired
<1>2. World.driver.runs[r].st = "retiring"
  BY Facts DEF Retire, RunAt
<1>3. WorldOK(v, durable) /\ Moves(World, v)
  BY <1>2, Facts, RetiredOK
<1> HIDE DEF v
<1>4. AskedOK(v, asked, halted)
  BY <1>3, AskedMoves DEF WorldOK
<1> QED BY <1>1, <1>3, <1>4, Facts, MovesStep DEF Retire, Unbudgeted

LEMMA HumanSendsStep ==
  ASSUME IInv, ~Over, HumanSends
  PROVE  StepOK
<1> DEFINE x == Sent(World)
           v == IF AtStage("idle") THEN Claim(x) ELSE x
<1>1. Becomes(v)
  BY Facts DEF HumanSends, Sent
<1>2. WorldOK(x, durable) /\ Leaves(World, x) /\ x.goal = goal /\ x.agent.queue # <<>>
  BY Facts, SentOK
<1> HIDE DEF x
<1>3. WorldOK(v, durable) /\ Leaves(World, v)
  <2>1. CASE AtStage("idle")
    <3>1. v = Claim(x)
      BY <2>1
    <3> HIDE DEF v
    <3>2. /\ WorldOK(v, durable) /\ v.goal = goal /\ v.agent.stage = "assembling"
          /\ x.driver.attempt = NoAttempt => v.driver.attempt = NoAttempt
      BY <1>2, <3>1, Facts, ClaimOK
    <3> QED BY <1>2, <3>2, Facts DEF Leaves
  <2>2. CASE ~AtStage("idle")
    BY <1>2, <2>2
  <2> QED BY <2>1, <2>2
<1> HIDE DEF v
<1> QED BY <1>1, <1>3, LeavesStep DEF HumanSends

LEMMA UserCancelsStep ==
  ASSUME IInv, ~Over, UserCancels
  PROVE  StepOK
BY Facts, CancelledOK, LeavesStep DEF UserCancels

LEMMA UnloadStep ==
  ASSUME IInv, ~Over, Unload
  PROVE  StepOK
<1> DEFINE v == Unloaded(World)
<1>1. Becomes(v)
  BY Facts DEF Unload, Unloaded
<1>2. WorldOK(v, durable) /\ Leaves(World, v)
  BY Facts, UnloadedOK
<1> HIDE DEF v
<1> QED BY <1>1, <1>2, LeavesStep DEF Unload, Unbudgeted

-----------------------------------------------------------------------------
(* The specification. *)

LEMMA InitOK == Init => IInv
<1> SUFFICES ASSUME Init PROVE IInv
  OBVIOUS
<1>1. goal \in GoalType /\ goal.ref = 0 /\ ~goal.armed
  BY DEF Init, NoGoal, GoalType, Phases
<1>2. /\ agent \in AgentType /\ agent.stage = "idle" /\ agent.cur = Human
      /\ agent.queue = <<>>
  <2>1. <<>> \in Seq(Message)
    OBVIOUS
  <2> QED BY <2>1, ConstantTypes DEF Init, AgentType, Stages
<1>3. /\ driver \in DriverType /\ driver.attempt = NoAttempt
      /\ \A r \in Run : driver.runs[r].from = 0
  <2>1. [r \in Run |-> NoRun] \in [Run -> RunType]
    BY ConstantTypes
  <2> DEFINE runs == [r \in Run |-> NoRun]
  <2>2. driver.runs = runs /\ driver.attempt = NoAttempt
    BY DEF Init
  <2>3. \A r \in Run : runs[r].from = 0
    BY DEF NoRun
  <2> HIDE DEF runs
  <2>4. driver \in DriverType
    BY <2>1, ConstantTypes DEF Init, DriverType, runs
  <2> QED BY <2>2, <2>3, <2>4
<1>4. World.goal = goal /\ World.agent = agent /\ World.driver = driver /\ World \in WorldType
  BY <1>1, <1>2, <1>3 DEF World, WorldType
<1>5. MessagesOK(World) /\ AttemptOK(World) /\ EnteringOK(World)
  BY <1>1, <1>2, <1>3, <1>4, ConstantTypes
     DEF MessagesOK, MessageOK, AttemptOK, NoAttempt, EnteringOK, Entering
<1>6. durable = 0 /\ FlushesOK(World, durable)
  BY <1>1, <1>3, <1>4 DEF Init, FlushesOK
<1>7. failed = FALSE /\ asked = 0 /\ halted = 0
  BY DEF Init
<1>8. AskedOK(World, asked, halted)
  BY <1>1, <1>4, <1>7 DEF AskedOK, Pursued
<1> QED BY <1>4, <1>5, <1>6, <1>7, <1>8 DEF IInv, WorldOK

LEMMA NextOK == IInv /\ Next => StepOK
<1> SUFFICES ASSUME IInv, Next PROVE StepOK
  OBVIOUS
<1>0. ~Over
  BY DEF Next
<1>1. CASE TurnSteps
  BY <1>0, <1>1, AssemblyFailsStep, PreStepHumanStep, PreStepRoundStep,
     DownstreamThrowsStep, DownstreamRejectsStep, DownstreamEntersStep, RejectionEndsStep,
     EntryFailsStep, PreparedStep, AdmitStep, WorkEndsStep DEF TurnSteps
<1>2. CASE \E r \in Run : RunSteps(r)
  BY <1>0, <1>2, FlushDoneStep, FlushFailsStep, LoopContinuesStep, LoopEndsStep,
     RetireStep DEF RunSteps
<1>3. CASE \E op \in Operation, cap \in 1..MaxRounds :
             ModelChanges(op, cap) \/ HostChanges(op, cap)
  BY <1>0, <1>3, ModelChangesStep, HostChangesStep
<1>4. CASE HumanSends
  BY <1>0, <1>4, HumanSendsStep
<1>5. CASE UserCancels
  BY <1>0, <1>5, UserCancelsStep
<1>6. CASE Unload
  BY <1>0, <1>6, UnloadStep
<1> QED BY <1>1, <1>2, <1>3, <1>4, <1>5, <1>6 DEF Next

LEMMA StutterOK == IInv /\ UNCHANGED vars => StepOK
<1> SUFFICES ASSUME IInv, UNCHANGED vars PROVE StepOK
  OBVIOUS
<1>1. /\ goal' = goal /\ agent' = agent /\ driver' = driver /\ durable' = durable
      /\ failed' = failed /\ asked' = asked /\ halted' = halted
  BY DEF vars
<1>2. World' = World
  BY <1>1 DEF World
<1>3. IInv'
  BY <1>1, <1>2 DEF IInv
<1> QED BY <1>1, <1>3, Facts DEF StepOK, Reserves

LEMMA Inductive == Spec => []IInv
<1>1. IInv /\ [Next]_vars => IInv'
  BY NextOK, StutterOK DEF StepOK
<1> QED BY <1>1, InitOK, PTL DEF Spec

(* Every round that is logged is the next round of the active goal's current
   revision, so that the log replays, if hosts do nothing but pause between the
   second fence and the log, and not even that in the microtask after the
   request is prepared: an earlier pause aborts the turn in time.  The violation
   run shows what a later change does. *)
THEOREM LogReplays ==
  ASSUME ~LateChanges
  PROVE  Spec => []GoalReplays
<1>1. IInv => GoalReplays
  BY DEF IInv, GoalReplays
<1> QED BY <1>1, Inductive, PTL

(* A round is reserved only for a goal whose last change is durable, or covered
   by a flush that has begun. *)
THEOREM RoundsAreDurable == Spec => ReservedDurable
<1>1. IInv /\ [Next]_vars =>
        [Reserves => \/ durable' = goal.ref
                     \/ \E r \in Run :
                          driver'.runs[r] = [st |-> "flushing", from |-> goal.ref]]_vars
  <2>1. SUFFICES ASSUME IInv, Next, Reserves
                 PROVE  \/ durable' = goal.ref
                        \/ \E r \in Run :
                             driver'.runs[r] = [st |-> "flushing", from |-> goal.ref]
    OBVIOUS
  <2>2. IInv' /\ Pursued(goal') /\ goal' = goal /\ ~driver'.needs
    BY <2>1, NextOK DEF StepOK
  <2>3. World'.goal = goal' /\ World'.driver = driver'
    BY DEF World
  <2>4. FlushesOK(World', durable')
    BY <2>2 DEF IInv, WorldOK
  <2> QED BY <2>2, <2>3, <2>4 DEF FlushesOK, Flushing, Pursued
<1> QED BY <1>1, Inductive, PTL DEF Spec, ReservedDurable

(* A round is reserved only for a revision that somebody asked for after the one
   on which the last cancelled turn worked. *)
THEOREM CancellationStops == Spec => CancelStops
<1>1. IInv /\ [Next]_vars => [Reserves => asked' > halted']_vars
  <2>1. SUFFICES ASSUME IInv, Next, Reserves PROVE asked' > halted'
    OBVIOUS
  <2>2. IInv' /\ Pursued(goal')
    BY <2>1, NextOK DEF StepOK
  <2>3. World'.goal = goal'
    BY DEF World
  <2>4. AskedOK(World', asked', halted') /\ asked' \in Nat /\ halted' \in Nat
    BY <2>2 DEF IInv
  <2> QED BY <2>2, <2>3, <2>4 DEF AskedOK
<1> QED BY <1>1, Inductive, PTL DEF Spec, CancelStops

(* Once the plugin unloads no further request of a round is prepared, and a round
   is logged only in a turn that is already aborted, whose request was. *)
THEOREM UnloadingStops == Spec => UnloadStops
<1>1. IInv /\ [Next]_vars =>
        [driver.stopping =>
           /\ goal'.rounds <= goal.rounds \/ (AtStage("prepared") /\ agent.aborted)
           /\ AtStage("prepared")' => AtStage("prepared")]_vars
  BY NextOK DEF StepOK, AtStage
<1> QED BY <1>1, Inductive, PTL DEF Spec, UnloadStops
=============================================================================
