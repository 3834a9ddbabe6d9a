---------------------------- MODULE ToolScheduler ----------------------------
(***************************************************************************)
(* One step's tool calls: executeToolCalls and runGroup (tool-calls.ts)    *)
(* over the tool runtime's staged pipeline (core/tools) and the checkpoint *)
(* policy that makes a recorded call durable before its body may run.      *)
(*                                                                         *)
(* The scheduler is one coroutine; sched.pc names the await it is at:      *)
(*   group     executeToolCalls is about to classify and enter a group     *)
(*   prepare   pre-execute of the call started last                        *)
(*   commit    commitReady looks at the next result in model order         *)
(*   finalize  post-execute of that result                                 *)
(*   fill      commitReady has returned, the pool is refilled              *)
(*   race      Promise.race over the calls in flight                       *)
(*   drain     after a scheduler failure, waiting for what is in flight    *)
(*   done, failed   executeToolCalls returned, or threw                    *)
(* Dispatched calls, the registry, the session's writer and whoever owns   *)
(* the abort signal run between those awaits.                              *)
(***************************************************************************)
EXTENDS Naturals, Sequences, FiniteSets

CONSTANTS
  Calls,       \* how many tool calls the assistant message carries
  MaxParallel  \* maxParallelToolCalls of the loop's configuration

ASSUME CallsAssumption == Calls \in Nat \ {0}
ASSUME MaxParallelAssumption == MaxParallel \in Nat \ {0}

VARIABLES
  registry,  \* how the tool registry classifies each call at the moment
  signal,    \* whether the turn's abort signal has fired
  sched,     \* the locals of executeToolCalls and runGroup
  stage,     \* where each call is
  inFlight,  \* the Map of dispatch promises that have not been raced yet
  callSeq,   \* the log position of a started call's tool/call, or 0
  log,       \* the session log, from this turn's start
  durable,   \* how much of the log is durable
  barrier,   \* how much had to be durable for a call's checkpoint
  class,     \* history: the class a call was started under
  ran        \* history: the calls whose body was invoked

toolVars == <<stage, inFlight, barrier, ran>>
vars == <<registry, signal, sched, stage, inFlight, callSeq, log, durable,
          barrier, class, ran>>

Call == 1..Calls
Mode == {"parallel", "exclusive"}
Exits == {"done", "failed"}
Slots == {"post", "final"}
Running == {"flushing", "body"}

Event(type, call, cites, code) ==
  [type |-> type, call |-> call, cites |-> cites, code |-> code]
Mark(type) == Event(type, 0, 0, "none")
CallEvent(i) == Event("tool/call", i, 0, "none")
ResultEvent(i, cites, code) == Event("tool/result", i, cites, code)

(* The step up to the assistant message that carries the calls.  The request
   was durable before it was sent; the answer was appended just now. *)
Opening == <<Mark("turn/start"), Mark("step/start"), Mark("assistant/message")>>

Fresh == [pc |-> "group", kind |-> "parallel", last |-> 0, started |-> 0,
          committed |-> 0, aborted |-> FALSE, failed |-> FALSE]

-----------------------------------------------------------------------------
(* The scheduler *)

(* startCall up to its await: the call is recorded before anything runs. *)
StartCall(i, locals) ==
  /\ sched' = [locals EXCEPT !.pc = "prepare", !.started = i]
  /\ stage' = [stage EXCEPT ![i] = "preparing"]
  /\ log' = Append(log, CallEvent(i))
  /\ callSeq' = [callSeq EXCEPT ![i] = Len(log) + 1]
  /\ class' = [class EXCEPT ![i] = registry[i]]
  /\ UNCHANGED <<inFlight, barrier, ran>>

(* Call/result pairs for the calls after the last started one, in order. *)
SkippedPairs(from) ==
  [k \in 1..(2 * (Calls - from)) |->
     LET i == from + (k + 1) \div 2
     IN  IF k % 2 = 1 THEN CallEvent(i)
                      ELSE ResultEvent(i, Len(log) + k - 1, "skipped")]

SkipRest(locals) ==
  /\ sched' = [locals EXCEPT !.pc = "done", !.aborted = TRUE]
  /\ stage' = [i \in Call |-> IF i > sched.started THEN "skipped" ELSE stage[i]]
  /\ log' = log \o SkippedPairs(sched.started)
  /\ UNCHANGED <<inFlight, callSeq, barrier, class, ran>>

(* executeToolCalls classifies the next call and runGroup starts it, unless
   the signal has fired. *)
EnterGroup ==
  LET i == sched.started + 1
      group == [sched EXCEPT
                  !.kind = registry[i],
                  !.last = IF registry[i] = "parallel" THEN Calls ELSE i]
  IN  /\ sched.pc = "group"
      /\ \/ signal /\ SkipRest(group)
         \/ ~signal /\ StartCall(i, group)
      /\ UNCHANGED <<registry, signal, durable>>

(* throwSchedulerFailure; mutant: nobody looks before the end. *)
IgnoresFailure == FALSE
SchedulerFailure == sched.failed

Goto(pc) == sched' = [sched EXCEPT !.pc = pc]
Throw == sched' = [sched EXCEPT !.pc = "drain", !.failed = TRUE]

(* Pre-execute has settled.  A failure meanwhile drops what it decided; a call
   that is to be dispatched starts its checkpoint at once. *)
Prepared ==
  LET i == sched.started
  IN  /\ sched.pc = "prepare"
      /\ \/ /\ SchedulerFailure
            /\ Throw
            /\ UNCHANGED toolVars
         \/ /\ ~SchedulerFailure /\ ~signal
            /\ stage' = [stage EXCEPT ![i] = "flushing"]
            /\ barrier' = [barrier EXCEPT ![i] = Len(log)]
            /\ inFlight' = inFlight \cup {i}
            /\ Goto("commit")
            /\ UNCHANGED ran
         \/ /\ ~SchedulerFailure
            /\ \E slot \in Slots : stage' = [stage EXCEPT ![i] = slot]
            /\ Goto("commit")
            /\ UNCHANGED <<inFlight, barrier, ran>>
      /\ UNCHANGED <<registry, signal, callSeq, log, durable, class>>

(* Mutants: the commit cursor is advanced twice; results are committed as they
   settle. *)
CommitTwice(c) ==
  /\ log' = Append(log, ResultEvent(c, callSeq[c], "outcome"))
  /\ stage' = [stage EXCEPT ![c] = "committed"]
  /\ sched' = [sched EXCEPT !.pc = "commit", !.committed = c + 1]
  /\ UNCHANGED <<inFlight, barrier, ran>>

CommitAnyReady(c) ==
  \E i \in 1..sched.started :
    /\ stage[i] \in Slots
    /\ log' = Append(log, ResultEvent(i, callSeq[i], "outcome"))
    /\ stage' = [stage EXCEPT ![i] = "committed"]
    /\ sched' = [sched EXCEPT !.pc = "commit", !.committed = @ + 1]
    /\ UNCHANGED <<inFlight, barrier, ran>>

(* The tool/result of the next call in model order. *)
CommitResult(c) ==
  /\ log' = Append(log, ResultEvent(c, callSeq[c], "outcome"))
  /\ stage' = [stage EXCEPT ![c] = "committed"]
  /\ sched' = [sched EXCEPT !.pc = "commit", !.committed = c]
  /\ UNCHANGED <<inFlight, barrier, ran>>

(* commitReady: a final result is appended at once, one that needs
   post-execute is awaited, otherwise there is nothing to commit. *)
Commit ==
  LET c == sched.committed + 1
      has(slot) == c <= sched.last /\ stage[c] = slot
  IN  /\ sched.pc = "commit"
      /\ \/ has("final") /\ CommitResult(c)
         \/ has("post") /\ Goto("finalize") /\ UNCHANGED <<toolVars, log>>
         \/ /\ ~has("final") /\ ~has("post")
            /\ Goto("fill") /\ UNCHANGED <<toolVars, log>>
      /\ UNCHANGED <<registry, signal, callSeq, durable, class>>

Finalized ==
  /\ sched.pc = "finalize"
  /\ CommitResult(sched.committed + 1)
  /\ UNCHANGED <<registry, signal, callSeq, durable, class>>

(* prepare or finalize throws, which the runtime contains as results unless
   one of its own invariants is broken. *)
RuntimeThrows ==
  /\ sched.pc \in {"prepare", "finalize"}
  /\ Throw
  /\ UNCHANGED <<registry, signal, toolVars, callSeq, log, durable, class>>

(* Mutants of the refill condition: no reclassification; the pool is filled
   over its bound; the signal is only looked at when a group is entered. *)
MayStartUnclassified(aborted) ==
  /\ ~aborted /\ sched.started < sched.last
  /\ Cardinality(inFlight) < MaxParallel

MayStartOneMore(aborted) ==
  /\ ~aborted /\ sched.started < sched.last
  /\ Cardinality(inFlight) <= MaxParallel
  /\ registry[sched.started + 1] = "parallel"

MayStartAborted(aborted) ==
  /\ ~sched.aborted /\ sched.started < sched.last
  /\ Cardinality(inFlight) < MaxParallel
  /\ registry[sched.started + 1] = "parallel"

(* fillPool's loop condition and the reclassification of the next call. *)
MayStart(aborted) ==
  /\ ~aborted /\ sched.started < sched.last
  /\ Cardinality(inFlight) < MaxParallel
  /\ registry[sched.started + 1] = "parallel"

(* Mutant: an aborted group returns without answering the rest. *)
EndGroupSilently(aborted, locals) ==
  /\ sched' = [locals EXCEPT
                 !.pc = IF aborted \/ sched.started = Calls THEN "done"
                                                            ELSE "group"]
  /\ UNCHANGED <<toolVars, callSeq, log, class>>

(* Nothing is in flight any more and nothing may start: the group is over. *)
EndGroup(aborted, locals) ==
  \/ aborted /\ SkipRest(locals)
  \/ /\ ~aborted
     /\ sched' = [locals EXCEPT
                    !.pc = IF sched.started = Calls THEN "done" ELSE "group"]
     /\ UNCHANGED <<toolVars, callSeq, log, class>>

(* commitReady has returned: fail, start the next call of the pool, wait for
   one in flight, or end the group. *)
Fill ==
  LET aborted == sched.aborted \/ signal
      locals == [sched EXCEPT !.aborted = aborted]
  IN  /\ sched.pc = "fill"
      /\ \/ SchedulerFailure /\ Throw /\ UNCHANGED <<toolVars, callSeq, log, class>>
         \/ /\ ~SchedulerFailure /\ MayStart(aborted)
            /\ StartCall(sched.started + 1, locals)
         \/ /\ ~SchedulerFailure /\ ~MayStart(aborted) /\ inFlight # {}
            /\ sched' = [locals EXCEPT !.pc = "race"]
            /\ UNCHANGED <<toolVars, callSeq, log, class>>
         \/ /\ ~SchedulerFailure /\ ~MayStart(aborted) /\ inFlight = {}
            /\ EndGroup(aborted, locals)
      /\ UNCHANGED <<registry, signal, durable>>

(* Mutant: a call leaves the pool when its result is committed after it. *)
RaceUncommitted ==
  /\ sched.pc = "race"
  /\ \E i \in inFlight :
       /\ stage[i] \notin Running \cup {"committed"}
       /\ inFlight' = inFlight \ {i}
  /\ IF SchedulerFailure THEN Throw ELSE Goto("commit")
  /\ UNCHANGED <<registry, signal, stage, barrier, ran, callSeq, log, durable,
                 class>>

(* Promise.race answers with a settled call.  Its result may have been
   committed already, by a commitReady that ran for an earlier one. *)
Race ==
  /\ sched.pc = "race"
  /\ \E i \in inFlight :
       /\ stage[i] \notin Running
       /\ inFlight' = inFlight \ {i}
  /\ IF SchedulerFailure THEN Throw ELSE Goto("commit")
  /\ UNCHANGED <<registry, signal, stage, barrier, ran, callSeq, log, durable,
                 class>>

(* Mutant: the failure is thrown without waiting. *)
DrainNothing == sched.pc = "drain"

(* Promise.allSettled over the calls in flight. *)
Drained == sched.pc = "drain" /\ \A i \in inFlight : stage[i] \notin Running

Drain ==
  /\ Drained
  /\ Goto("failed")
  /\ UNCHANGED <<registry, signal, toolVars, callSeq, log, durable, class>>

-----------------------------------------------------------------------------
(* Dispatched calls *)

(* Mutant: the body does not wait for its checkpoint. *)
FlushedAtOnce(i) == stage[i] = "flushing"

(* sessions.flush covers what was appended when it was called. *)
Flushed(i) == stage[i] = "flushing" /\ durable >= barrier[i]

(* The checkpoint resolves: the body is invoked, unless the signal has fired
   meanwhile. *)
InvokeBody(i) ==
  /\ Flushed(i)
  /\ IF signal THEN stage' = [stage EXCEPT ![i] = "post"] /\ UNCHANGED ran
     ELSE stage' = [stage EXCEPT ![i] = "body"] /\ ran' = ran \cup {i}
  /\ UNCHANGED <<registry, signal, sched, inFlight, barrier, callSeq, log,
                 durable, class>>

(* The body settles, with a result for post-execute or one that is final
   because a wrapper failed; a checkpoint that rejects is the latter. *)
Settle(i, slot) ==
  /\ \/ stage[i] = "body"
     \/ stage[i] = "flushing" /\ slot = "final"
  /\ stage' = [stage EXCEPT ![i] = slot]
  /\ UNCHANGED <<registry, signal, sched, inFlight, barrier, callSeq, log,
                 durable, class, ran>>

(* The dispatch itself rejects: schedulerFailure, kept if it is the first. *)
Reject(i) ==
  /\ stage[i] \in Running
  /\ stage' = [stage EXCEPT ![i] = "rejected"]
  /\ sched' = [sched EXCEPT !.failed = TRUE]
  /\ UNCHANGED <<registry, signal, inFlight, barrier, callSeq, log, durable,
                 class, ran>>

-----------------------------------------------------------------------------
(* Their surroundings *)

(* agent.cancel aborts the turn's signal. *)
Abort ==
  /\ ~signal /\ sched.pc \notin Exits
  /\ signal' = TRUE
  /\ UNCHANGED <<registry, sched, toolVars, callSeq, log, durable, class>>

(* A plugin replaces a tool, or its concurrency predicate changes its mind. *)
Reclassify(i) ==
  /\ stage[i] = "planned" /\ sched.pc \notin Exits
  /\ registry' = [registry EXCEPT
                    ![i] = IF @ = "parallel" THEN "exclusive" ELSE "parallel"]
  /\ UNCHANGED <<signal, sched, toolVars, callSeq, log, durable, class>>

(* The session's writer: a batch of any length becomes durable. *)
Persist ==
  /\ durable' \in (durable + 1)..Len(log)
  /\ UNCHANGED <<registry, signal, sched, toolVars, callSeq, log, class>>

Init ==
  /\ registry \in [Call -> Mode]
  /\ signal = FALSE
  /\ sched = Fresh
  /\ stage = [i \in Call |-> "planned"]
  /\ inFlight = {}
  /\ callSeq = [i \in Call |-> 0]
  /\ log = Opening /\ durable = 2
  /\ barrier = [i \in Call |-> 0]
  /\ class = [i \in Call |-> "exclusive"]
  /\ ran = {}

Scheduler ==
  \/ EnterGroup \/ Prepared \/ Commit \/ Finalized \/ RuntimeThrows \/ Fill
  \/ Race \/ Drain

Tool(i) ==
  \/ InvokeBody(i) \/ Reject(i)
  \/ \E slot \in Slots : Settle(i, slot)

Environment == Abort \/ Persist \/ \E i \in Call : Reclassify(i)

Next == Scheduler \/ (\E i \in Call : Tool(i)) \/ Environment

Spec == Init /\ [][Next]_vars

(* Hooks, bodies and the session's writer settle; the scheduler is a coroutine
   that the event loop resumes. *)
FairSpec ==
  /\ Spec
  /\ WF_vars(Scheduler) /\ WF_vars(Persist)
  /\ \A i \in Call : WF_vars(Tool(i))

-----------------------------------------------------------------------------
(* Properties *)

Stage == {"planned", "preparing", "flushing", "body", "post", "final",
          "rejected", "committed", "skipped"}
Pc == {"group", "prepare", "commit", "finalize", "fill", "race", "drain"}
      \cup Exits
Locals == [pc : Pc, kind : Mode, last : Nat, started : Nat, committed : Nat,
           aborted : BOOLEAN, failed : BOOLEAN]
EventType == [type : {"turn/start", "turn/end", "step/start", "step/end",
                      "assistant/message", "tool/call", "tool/result"},
              call : Nat, cites : Nat,
              code : {"none", "outcome", "skipped", "unknown", "not-started"}]

(* The values the variables range over. *)
TypeOK ==
  /\ registry \in [Call -> Mode] /\ class \in [Call -> Mode]
  /\ signal \in BOOLEAN
  /\ sched \in Locals
  /\ sched.started \in 0..Calls /\ sched.committed \in 0..sched.started
  /\ stage \in [Call -> Stage]
  /\ inFlight \in SUBSET Call /\ ran \in SUBSET Call
  /\ callSeq \in [Call -> Nat] /\ barrier \in [Call -> Nat]
  /\ log \in Seq(EventType) /\ durable \in 0..Len(log)

At(type) == {p \in DOMAIN log : log[p].type = type}

(* Results are recorded in model order although calls overlap and settle in
   any order, and every one cites the record of its own call, whether the call
   ran, was denied or was skipped. *)
ResultsOrdered ==
  /\ \A p, q \in At("tool/result") : p < q => log[p].call < log[q].call
  /\ \A p \in At("tool/result") :
       /\ log[p].cites \in At("tool/call") /\ log[p].cites < p
       /\ log[log[p].cites].call = log[p].call

(* executeToolCalls returns, cancelled or not, with one recorded call and one
   result for each call of the assistant message: the transcript is valid. *)
AllAnswered ==
  sched.pc = "done" =>
    \A i \in Call, type \in {"tool/call", "tool/result"} :
      Cardinality({p \in At(type) : log[p].call = i}) = 1

(* No more calls are dispatched at a time than the configuration allows. *)
PoolBound == Cardinality({i \in Call : stage[i] \in Running}) <= MaxParallel

(* An exclusive call is a barrier: it starts when every earlier result is
   recorded, and nothing after it starts before its own is, although the
   registry may change its mind between a call's start and the next one's. *)
Barriers ==
  \A i \in Call :
    class[i] = "exclusive" /\ stage[i] \notin {"planned", "skipped"} =>
      /\ \A j \in 1..(i - 1) : stage[j] = "committed"
      /\ stage[i] # "committed" => \A j \in (i + 1)..Calls : stage[j] = "planned"

(* Neither cancellation nor a failure abandons a body: when the scheduler has
   returned or thrown, nothing it dispatched is still running. *)
Quiescent == sched.pc \in Exits => \A i \in Call : stage[i] \notin Running

(* Once the signal has fired no further call is started, only answered. *)
NoStartAfterAbort ==
  [][signal => \A i \in Call : stage[i] = "planned"
                                => stage'[i] \in {"planned", "skipped"}]_vars

(* A scheduler failure stops new dispatches, also of the call whose pre-execute
   is under way, and fabricates no result for a call that never settled. *)
FailureStops ==
  [][sched.failed => /\ inFlight' \subseteq inFlight
                     /\ callSeq' = callSeq
                     /\ \A i \in Call : stage'[i] # "skipped"]_vars

(* Every assistant step's tool calls come to an end. *)
SchedulerReturns == <>(sched.pc \in Exits)
=============================================================================
