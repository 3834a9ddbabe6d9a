---------------------------- MODULE StepRecovery ----------------------------
(***************************************************************************)
(* Steps with tool calls, crashes of the process, and the repair of the    *)
(* log they leave: ToolScheduler between the boundaries that agent.ts      *)
(* writes, the durable prefix that survives a crash, interruptedTurnClosers*)
(* (repair.ts) and the resume that appends them (agent-loop index.ts).     *)
(* Call ids repeat from step to step: they are unique in a message only.   *)
(***************************************************************************)
EXTENDS ToolScheduler

CONSTANTS
  MaxRounds,  \* how many assistant messages with tool calls (bound)
  MaxCrashes  \* how often the process dies (bound)

ASSUME MaxRoundsAssumption == MaxRounds \in Nat \ {0}
ASSUME MaxCrashesAssumption == MaxCrashes \in Nat

VARIABLES
  life,     \* "step": at work on a step's calls; "request": the next request
            \* is being sent; "idle", "down" after a crash, "resumed"
  crashes,  \* how often the process died
  threw     \* history: where steps ended whose scheduler threw

processVars == <<life, crashes, threw>>
allVars == <<vars, processVars>>

-----------------------------------------------------------------------------
(* interruptedTurnClosers.  Its scan keeps which boundaries are open and which
   calls are pending; each is said here by the last events that decide it. *)

Rounds(events) == {p \in DOMAIN events : events[p].type = "assistant/message"}

(* No event after p is of one of the types. *)
NoneAfter(events, p, types) ==
  \A q \in DOMAIN events : q > p => events[q].type \notin types

TurnBounds == {"turn/start", "turn/end"}
Clearing == TurnBounds \cup {"step/end"}

TurnOpen(events) ==
  \E p \in DOMAIN events : /\ events[p].type = "turn/start"
                           /\ NoneAfter(events, p, {"turn/end"})

StepOpen(events) ==
  \E p \in DOMAIN events : /\ events[p].type = "step/start"
                           /\ NoneAfter(events, p, Clearing)

(* The event is a result of the call; mutant: a result does not settle it. *)
NeverSettles(e, i) == FALSE
Settles(e, i) == e.type = "tool/result" /\ e.call = i

(* pendingCalls: a message made the call pending; neither a boundary has cleared
   it since, nor a result. *)
Pending(events) ==
  {i \in Call : \E p \in Rounds(events) :
     /\ NoneAfter(events, p, Clearing)
     /\ \A q \in DOMAIN events : q > p => ~Settles(events[q], i)}

(* The starts of the call since the last message, and the last of them. *)
Starts(events, i) ==
  {q \in DOMAIN events : /\ events[q].type = "tool/call" /\ events[q].call = i
                         /\ \A p \in Rounds(events) : p < q}

Latest(positions) ==
  IF positions = {} THEN 0
  ELSE CHOOSE q \in positions : \A r \in positions : r <= q

StartOf(events, i) == Latest(Starts(events, i))

(* The synthetic result of an unmatched call. *)
Closing(i, seq) ==
  ResultEvent(i, seq, IF seq # 0 THEN "unknown" ELSE "not-started")

(* A set of calls in the order of their message. *)
InOrder(calls) ==
  [k \in 1..Cardinality(calls) |->
     CHOOSE i \in calls : Cardinality({j \in calls : j <= i}) = k]

ClosingResults(events) ==
  LET calls == InOrder(Pending(events))
  IN  [k \in DOMAIN calls |-> Closing(calls[k], StartOf(events, calls[k]))]

ClosingStep(events) == IF StepOpen(events) THEN <<Mark("step/end")>> ELSE <<>>

(* Mutant: the boundaries are closed before the calls. *)
ClosersBoundaryFirst(events) ==
  IF ~TurnOpen(events) THEN <<>>
  ELSE ClosingStep(events) \o ClosingResults(events) \o <<Mark("turn/end")>>

Closers(events) ==
  IF ~TurnOpen(events) THEN <<>>
  ELSE ClosingResults(events) \o ClosingStep(events) \o <<Mark("turn/end")>>

-----------------------------------------------------------------------------
(* The turn around the step, and the process around the turn *)

Round == Cardinality(Rounds(log))

Forget ==
  /\ stage' = [i \in Call |-> "planned"]
  /\ inFlight' = {}
  /\ callSeq' = [i \in Call |-> 0] /\ barrier' = [i \in Call |-> 0]
  /\ class' = [i \in Call |-> "exclusive"]
  /\ signal' = FALSE

(* The step is ended, and the turn with it when the scheduler threw or the
   signal has fired; a turn goes on, or another is begun, with a request. *)
EndStep ==
  /\ life = "step" /\ sched.pc \in Exits
  /\ \E more \in BOOLEAN :
       LET ends == sched.pc = "failed" \/ signal \/ ~more
       IN  /\ more => Round < MaxRounds
           /\ log' = log \o <<Mark("step/end")>>
                         \o (IF ends THEN <<Mark("turn/end")>> ELSE <<>>)
                         \o (IF ends /\ more THEN <<Mark("turn/start")>> ELSE <<>>)
                         \o (IF more THEN <<Mark("step/start")>> ELSE <<>>)
           /\ life' = IF more THEN "request" ELSE "idle"
  /\ threw' = IF sched.pc = "failed" THEN threw \cup {Len(log) + 1} ELSE threw
  /\ UNCHANGED <<registry, signal, sched, toolVars, callSeq, durable, class,
                 crashes>>

(* The checkpoint in front of the request has resolved; the model answers with
   a message that carries tool calls. *)
Answer ==
  /\ life = "request" /\ durable = Len(log)
  /\ life' = "step"
  /\ log' = Append(log, Mark("assistant/message"))
  /\ sched' = Fresh /\ ran' = {}
  /\ Forget
  /\ UNCHANGED <<registry, durable, crashes, threw>>

(* The process dies: what is not durable is gone, and so is every local. *)
Crash ==
  /\ life # "down" /\ crashes < MaxCrashes
  /\ life' = "down" /\ crashes' = crashes + 1
  /\ log' = SubSeq(log, 1, durable)
  /\ sched' = [Fresh EXCEPT !.pc = "done"]
  /\ threw' = threw \cap 1..durable
  /\ Forget
  /\ UNCHANGED <<registry, durable, ran>>

(* resumeWith appends the closers of the durable log as an ordinary batch. *)
Resume ==
  /\ life = "down"
  /\ life' = "resumed"
  /\ log' = log \o Closers(log)
  /\ UNCHANGED <<registry, signal, sched, toolVars, callSeq, durable, class,
                 crashes, threw>>

(* The resumed agent begins a turn. *)
BeginTurn ==
  /\ life = "resumed" /\ Round < MaxRounds
  /\ life' = "request"
  /\ log' = log \o <<Mark("turn/start"), Mark("step/start")>>
  /\ UNCHANGED <<registry, signal, sched, toolVars, callSeq, durable, class,
                 crashes, threw>>

AtWork == life = "step" /\ Next /\ UNCHANGED processVars
Write == life \in {"request", "idle", "resumed"} /\ Persist /\ UNCHANGED processVars

RecoveryInit == Init /\ life = "step" /\ crashes = 0 /\ threw = {}

RecoveryNext ==
  AtWork \/ Write \/ EndStep \/ Answer \/ Crash \/ Resume \/ BeginTurn

RecoverySpec == RecoveryInit /\ [][RecoveryNext]_allVars

-----------------------------------------------------------------------------
(* Properties *)

(* Position q belongs to the round of the message at position p. *)
InRound(events, q, p) == p < q /\ \A r \in Rounds(events) : r > p => q < r
Results(p, i) ==
  {q \in At("tool/result") : log[q].call = i /\ InRound(log, q, p)}

(* Whenever the process died, and however often, also during a repair, the
   resumed log answers each call of each message exactly once, in the step of
   that message, and leaves no boundary open.  A step that the scheduler's
   failure ended answers its calls at most once. *)
RepairedLogBalanced ==
  life = "resumed" =>
    /\ log[Len(log)].type = "turn/end"
    /\ \A p \in Rounds(log), i \in Call :
         LET answers == Results(p, i)
         IN  /\ Cardinality(answers) <= 1
             /\ (\A q \in threw : ~InRound(log, q, p)) => Cardinality(answers) = 1
             /\ \A q \in answers : \A r \in p..q : log[r].type # "step/end"

(* A call is only reported as never started if its body never ran, so a retry
   that the result recommends repeats no side effect. *)
NotStartedIsTrue ==
  life = "resumed" =>
    \A p \in At("tool/result") :
      log[p].code = "not-started" /\ (\A r \in Rounds(log) : r < p)
        => log[p].call \notin ran

(* The repair is deterministic: a crash while the closers are being written,
   wherever it cuts them, is repaired to the same log. *)
RepairStable ==
  life = "resumed" =>
    \A k \in durable..Len(log) :
      LET prefix == SubSeq(log, 1, k) IN prefix \o Closers(prefix) = log
=============================================================================
