------------------------ MODULE ToolSchedulerProofs ------------------------
(***************************************************************************)
(* The tool-call scheduler keeps its type, its barriers and its pool bound,*)
(* abandons no body, and starts nothing after an abort or a failure: for   *)
(* any number of calls and any pool.  The inductive invariant, Structure,  *)
(* says how the cursors of the scheduler, the stages of the calls and the  *)
(* pool fit together at every await.                                       *)
(*                                                                         *)
(* The second half is about the session log it leaves behind: results in   *)
(* model order, each citing the record of its own call, and, when it       *)
(* returns, one record and one result for every call of the message.       *)
(***************************************************************************)
EXTENDS ToolScheduler, FiniteSetTheorems, TLAPS

(* The awaits inside runGroup, before a failure. *)
Inner == {"prepare", "commit", "finalize", "fill", "race"}

(* Where the cursors may be at each await. *)
Cursors ==
  /\ sched.last <= Calls
  /\ sched.pc \in {"group", "done"} =>
       sched.committed = sched.started /\ inFlight = {} /\ ~sched.failed
  /\ sched.pc = "group" => sched.started < Calls
  /\ sched.pc \in Inner => 1 <= sched.started /\ sched.started <= sched.last
  /\ sched.pc \in Inner /\ sched.kind = "exclusive" => sched.last = sched.started
  /\ sched.pc = "prepare" => stage[sched.started] = "preparing"
  /\ sched.pc = "finalize" => /\ sched.committed < sched.started
                              /\ stage[sched.committed + 1] = "post"
  /\ sched.pc \in {"drain", "failed"} => sched.failed

(* The stage of a call against the cursors: committed calls are a prefix,
   started calls are a prefix, only dispatched calls run. *)
Stages ==
  \A i \in Call :
    /\ i <= sched.committed <=> stage[i] = "committed"
    /\ i > sched.started <=> stage[i] \in {"planned", "skipped"}
    /\ stage[i] = "preparing" => /\ i = sched.started
                                 /\ sched.pc = "prepare" \/ sched.failed
    /\ stage[i] \in Running => i \in inFlight /\ sched.pc # "failed"
    /\ stage[i] = "rejected" => sched.failed
    /\ stage[i] = "skipped" => sched.pc = "done"
    /\ i \in inFlight => i <= sched.started

(* Nothing waits to be committed once commitReady has returned, except calls
   that settled since and are still to be raced. *)
Raced ==
  sched.pc \in {"fill", "race"} =>
    \A i \in Call : i = sched.committed + 1 /\ stage[i] \in Slots => i \in inFlight

(* Open calls are of their group's class, and an exclusive call is started
   last and behind a committed prefix. *)
Classes ==
  /\ sched.pc \in Inner =>
       \A i \in Call : sched.committed < i /\ i <= sched.started
                         => class[i] = sched.kind
  /\ \A i \in Call : class[i] = "exclusive" /\ i <= sched.started =>
       /\ i <= sched.committed + 1
       /\ i = sched.started \/ i <= sched.committed

(* The pool: one more call fits while one is being prepared. *)
Pool ==
  /\ IsFiniteSet(inFlight)
  /\ Cardinality(inFlight) <= MaxParallel
  /\ sched.pc = "prepare" => Cardinality(inFlight) < MaxParallel

Structure == TypeOK /\ Cursors /\ Stages /\ Raced /\ Classes /\ Pool

-----------------------------------------------------------------------------
(* Types of what the actions build *)

LEMMA OpeningType == Opening \in Seq(EventType) /\ Len(Opening) = 3
  BY DEF Opening, Mark, Event, EventType

(* Only existing calls are recorded, with a position of the log. *)
LEMMA EventsTyped ==
  ASSUME NEW i \in Nat, NEW n \in Nat, NEW code \in {"outcome", "skipped"}
  PROVE  CallEvent(i) \in EventType /\ ResultEvent(i, n, code) \in EventType
  BY DEF CallEvent, ResultEvent, Event, EventType

LEMMA SkippedTyped ==
  ASSUME log \in Seq(EventType), NEW from \in 0..Calls
  PROVE  /\ SkippedPairs(from) \in Seq(EventType)
         /\ Len(SkippedPairs(from)) = 2 * (Calls - from)
<1>1. Calls \in Nat /\ 2 * (Calls - from) \in Nat
  BY CallsAssumption, SMT
<1>2. ASSUME NEW k \in 1..(2 * (Calls - from))
      PROVE  (LET i == from + (k + 1) \div 2
              IN  IF k % 2 = 1 THEN CallEvent(i)
                  ELSE ResultEvent(i, Len(log) + k - 1, "skipped")) \in EventType
  <2>1. from + (k + 1) \div 2 \in Nat /\ Len(log) + k - 1 \in Nat
    BY <1>1, SMT
  <2> QED BY <2>1, EventsTyped
<1> QED BY <1>1, <1>2 DEF SkippedPairs

LEMMA InitStructure == Init => Structure
<1> SUFFICES ASSUME Init PROVE Structure OBVIOUS
<1> USE CallsAssumption, MaxParallelAssumption
<1>1. TypeOK
  <2>1. sched \in Locals
    BY DEF Init, Fresh, Locals, Pc, Exits, Mode
  <2>2. log \in Seq(EventType) /\ durable \in 0..Len(log)
    BY OpeningType DEF Init
  <2>3. sched.started \in 0..Calls /\ sched.committed \in 0..sched.started
    BY DEF Init, Fresh
  <2>4. /\ registry \in [Call -> Mode] /\ class \in [Call -> Mode]
        /\ signal \in BOOLEAN /\ stage \in [Call -> Stage]
        /\ inFlight \in SUBSET Call /\ ran \in SUBSET Call
        /\ callSeq \in [Call -> Nat] /\ barrier \in [Call -> Nat]
    BY DEF Init, Mode, Stage
  <2> QED BY <2>1, <2>2, <2>3, <2>4 DEF TypeOK
<1>2. Cursors /\ Raced /\ Classes
  BY DEF Init, Cursors, Raced, Classes, Inner, Fresh, Call
<1>3. Stages
  BY DEF Init, Stages, Fresh, Call, Running
<1>4. Pool
  BY FS_EmptySet DEF Init, Pool, Fresh
<1> QED BY <1>1, <1>2, <1>3, <1>4 DEF Structure
-----------------------------------------------------------------------------
(* Dispatched calls and the surroundings: the cursors do not move *)

LEMMA InvokeBodyStep ==
  ASSUME NEW i \in Call, Structure, InvokeBody(i)
  PROVE  Structure'
<1> USE CallsAssumption, MaxParallelAssumption DEF Structure, Call
<1>a. PICK after \in {"post", "body"} : stage' = [stage EXCEPT ![i] = after]
  BY DEF InvokeBody
<1>b. ran' \in SUBSET (1..Calls)
  BY DEF InvokeBody, TypeOK
<1>1. TypeOK'
  BY <1>a, <1>b DEF TypeOK, Locals, Pc, Exits, Mode, Stage, InvokeBody,
       Flushed, Running, Slots
<1>2. Cursors'
  BY <1>a, SMTT(20) DEF TypeOK, Cursors, Stages, Locals, Exits, Inner, InvokeBody,
       Flushed, Running, Slots
<1>3. Stages'
  BY <1>a DEF TypeOK, Cursors, Stages, Locals, Running, Slots, Exits, Inner,
       InvokeBody, Flushed
<1>4. Raced'
  BY <1>a DEF TypeOK, Cursors, Stages, Raced, Locals, Running, Slots,
       InvokeBody, Flushed
<1>5. Classes'
  BY <1>a DEF TypeOK, Cursors, Stages, Classes, Locals, Inner, InvokeBody,
       Flushed, Running, Slots
<1>6. Pool'
  BY DEF TypeOK, Pool, Locals, InvokeBody, Flushed, Running, Slots
<1> QED BY <1>1, <1>2, <1>3, <1>4, <1>5, <1>6

LEMMA SettleStep ==
  ASSUME NEW i \in Call, NEW slot \in Slots, Structure, Settle(i, slot)
  PROVE  Structure'
<1> USE CallsAssumption, MaxParallelAssumption DEF Structure, Call
<1>1. TypeOK'
  BY DEF TypeOK, Locals, Pc, Exits, Mode, Stage, Settle, Running, Slots
<1>2. Cursors'
  BY SMTT(30) DEF TypeOK, Cursors, Stages, Locals, Exits, Inner, Settle, Running, Slots
<1>3. Stages'
  BY DEF TypeOK, Cursors, Stages, Locals, Running, Slots, Exits, Inner, Settle
<1>4. Raced'
  BY DEF TypeOK, Cursors, Stages, Raced, Locals, Running, Slots, Settle
<1>5. Classes'
  BY DEF TypeOK, Cursors, Stages, Classes, Locals, Inner, Settle, Running,
       Slots
<1>6. Pool'
  BY DEF TypeOK, Pool, Locals, Settle, Running, Slots
<1> QED BY <1>1, <1>2, <1>3, <1>4, <1>5, <1>6

LEMMA RejectStep ==
  ASSUME NEW i \in Call, Structure, Reject(i)
  PROVE  Structure'
<1> USE CallsAssumption, MaxParallelAssumption DEF Structure, Call
<1>1. TypeOK'
  BY DEF TypeOK, Locals, Pc, Exits, Mode, Stage, Reject, Running
<1>2. Cursors'
  BY DEF TypeOK, Cursors, Stages, Locals, Exits, Inner, Reject, Running
<1>3. Stages'
  BY DEF TypeOK, Cursors, Stages, Locals, Running, Slots, Exits, Inner, Reject
<1>4. Raced'
  BY DEF TypeOK, Cursors, Stages, Raced, Locals, Running, Slots, Reject
<1>5. Classes'
  BY DEF TypeOK, Cursors, Stages, Classes, Locals, Inner, Reject, Running
<1>6. Pool'
  BY DEF TypeOK, Pool, Locals, Reject, Running
<1> QED BY <1>1, <1>2, <1>3, <1>4, <1>5, <1>6

LEMMA AbortStep ==
  ASSUME Structure, Abort
  PROVE  Structure'
<1> USE CallsAssumption, MaxParallelAssumption DEF Structure, Call
<1>1. TypeOK'
  BY DEF TypeOK, Locals, Pc, Exits, Mode, Stage, Abort, toolVars
<1>2. Cursors'
  BY DEF TypeOK, Cursors, Stages, Locals, Exits, Inner, Abort, toolVars
<1>3. Stages'
  BY DEF TypeOK, Cursors, Stages, Locals, Running, Slots, Exits, Inner, Abort,
       toolVars
<1>4. Raced'
  BY DEF TypeOK, Cursors, Stages, Raced, Locals, Running, Slots, Abort,
       toolVars
<1>5. Classes'
  BY DEF TypeOK, Cursors, Stages, Classes, Locals, Inner, Abort, toolVars
<1>6. Pool'
  BY DEF TypeOK, Pool, Locals, Abort, toolVars
<1> QED BY <1>1, <1>2, <1>3, <1>4, <1>5, <1>6

LEMMA ReclassifyStep ==
  ASSUME NEW i \in Call, Structure, Reclassify(i)
  PROVE  Structure'
<1> USE CallsAssumption, MaxParallelAssumption DEF Structure, Call
<1>1. TypeOK'
  BY DEF TypeOK, Locals, Pc, Exits, Mode, Stage, Reclassify, toolVars
<1>2. Cursors'
  BY DEF TypeOK, Cursors, Stages, Locals, Exits, Inner, Reclassify, toolVars
<1>3. Stages'
  BY DEF TypeOK, Cursors, Stages, Locals, Running, Slots, Exits, Inner,
       Reclassify, toolVars
<1>4. Raced'
  BY DEF TypeOK, Cursors, Stages, Raced, Locals, Running, Slots, Reclassify,
       toolVars
<1>5. Classes'
  BY DEF TypeOK, Cursors, Stages, Classes, Locals, Inner, Reclassify, toolVars
<1>6. Pool'
  BY DEF TypeOK, Pool, Locals, Reclassify, toolVars
<1> QED BY <1>1, <1>2, <1>3, <1>4, <1>5, <1>6

LEMMA PersistStep ==
  ASSUME Structure, Persist
  PROVE  Structure'
<1> USE CallsAssumption, MaxParallelAssumption DEF Structure, Call
<1>a. durable' \in 0..Len(log)
  <2>1. Len(log) \in Nat /\ durable \in Nat /\ durable' \in (durable + 1)..Len(log)
    BY DEF TypeOK, Persist
  <2> QED BY <2>1, SMT
<1>1. TypeOK'
  BY <1>a DEF TypeOK, Locals, Pc, Exits, Mode, Stage, Persist, toolVars
<1>2. Cursors'
  BY DEF TypeOK, Cursors, Stages, Locals, Exits, Inner, Persist, toolVars
<1>3. Stages'
  BY DEF TypeOK, Cursors, Stages, Locals, Running, Slots, Exits, Inner,
       Persist, toolVars
<1>4. Raced'
  BY DEF TypeOK, Cursors, Stages, Raced, Locals, Running, Slots, Persist,
       toolVars
<1>5. Classes'
  BY DEF TypeOK, Cursors, Stages, Classes, Locals, Inner, Persist, toolVars
<1>6. Pool'
  BY DEF TypeOK, Pool, Locals, Persist, toolVars
<1> QED BY <1>1, <1>2, <1>3, <1>4, <1>5, <1>6
-----------------------------------------------------------------------------
(* Starting a call and answering the rest, wherever the scheduler does it *)

LEMMA StartCallStep ==
  ASSUME Structure, NEW locals \in Locals, NEW i \in Call,
         StartCall(i, locals), UNCHANGED <<registry, signal, durable>>,
         i = sched.started + 1, sched.pc \in {"group", "fill"},
         locals.committed = sched.committed, locals.kind = registry[i],
         locals.failed = sched.failed, ~sched.failed,
         i <= locals.last, locals.last <= Calls,
         locals.kind = "exclusive" =>
           locals.last = i /\ sched.committed = sched.started,
         \A j \in Call : sched.committed < j /\ j <= sched.started
                           => class[j] = locals.kind,
         Cardinality(inFlight) < MaxParallel
  PROVE  Structure'
<1> USE CallsAssumption, MaxParallelAssumption DEF Structure, Call
<1>a. sched' = [locals EXCEPT !.pc = "prepare", !.started = i]
  BY DEF StartCall
<1>0. i \in 1..Calls /\ i \in Nat /\ sched.started \in Nat
  BY DEF TypeOK, Locals
<1>b. sched' \in Locals /\ sched'.pc = "prepare" /\ sched'.started = i
      /\ sched'.committed = sched.committed /\ sched'.last = locals.last
      /\ sched'.kind = locals.kind /\ sched'.failed = sched.failed
  <2>1. sched'.pc = "prepare" /\ sched'.started = i
    BY <1>a DEF Locals
  <2>2. /\ sched'.committed = locals.committed /\ sched'.last = locals.last
        /\ sched'.kind = locals.kind /\ sched'.failed = locals.failed
    BY <1>a DEF Locals
  <2>3. sched' \in Locals
    BY <1>a, <1>0 DEF Locals, Pc
  <2> QED BY <2>1, <2>2, <2>3
<1>c. stage' = [stage EXCEPT ![i] = "preparing"] /\ class' = [class EXCEPT ![i] = registry[i]]
      /\ inFlight' = inFlight
  BY DEF StartCall
<1>1. TypeOK'
  <2>0. CallEvent(i) \in EventType
    BY <1>0, EventsTyped
  <2>1. log' \in Seq(EventType) /\ Len(log') = Len(log) + 1
    BY <2>0 DEF TypeOK, StartCall
  <2>2. durable' \in 0..Len(log') /\ Len(log) + 1 \in Nat
    BY <2>1 DEF TypeOK
  <2>3. sched'.started \in 0..Calls /\ sched'.committed \in 0..sched'.started
    BY <1>0, <1>b DEF TypeOK
  <2>4. /\ registry' \in [1..Calls -> Mode] /\ class' \in [1..Calls -> Mode]
        /\ stage' \in [1..Calls -> Stage]
    BY <1>0, <1>c DEF TypeOK, Stage
  <2>5. callSeq' \in [1..Calls -> Nat]
    BY <1>0, <2>2 DEF TypeOK, StartCall
  <2> QED BY <1>b, <1>c, <2>1, <2>2, <2>3, <2>4, <2>5 DEF TypeOK, StartCall
<1>2. Cursors'
  BY <1>b, <1>c DEF TypeOK, Cursors, Inner
<1>3. Stages'
  <2>1. ASSUME NEW j \in 1..Calls, j # i PROVE stage'[j] = stage[j]
    BY <1>c, <2>1 DEF TypeOK
  <2>2. stage'[i] = "preparing"
    BY <1>0, <1>c DEF TypeOK
  <2>3. /\ sched'.committed = sched.committed /\ sched'.started = sched.started + 1
        /\ sched'.pc = "prepare" /\ sched'.failed = sched.failed
        /\ sched.committed \in Nat /\ sched.committed <= sched.started
    BY <1>b DEF TypeOK
  <2>4. sched.pc # "prepare" /\ sched.pc # "done"
    OBVIOUS
  <2>5. stage[i] \in {"planned", "skipped"} /\ i \notin inFlight
    BY <1>0 DEF Stages
  <2>6. i \in Nat /\ sched.started \in Nat /\ i = sched.started + 1
    BY <1>0
  <2>7. ASSUME NEW j \in 1..Calls, j # i
        PROVE  /\ j <= sched'.committed <=> stage'[j] = "committed"
               /\ j > sched'.started <=> stage'[j] \in {"planned", "skipped"}
               /\ stage'[j] # "preparing"
               /\ stage'[j] \in Running => j \in inFlight'
               /\ stage'[j] = "rejected" => sched'.failed
               /\ stage'[j] # "skipped"
               /\ j \in inFlight' => j <= sched'.started
    <3>1. j > sched'.started <=> j > sched.started
      BY <2>3, <2>6, <2>7
    <3>2. inFlight' = inFlight /\ stage'[j] = stage[j]
      BY <1>c, <2>1, <2>7
    <3>3. ASSUME stage[j] = "preparing" PROVE FALSE
      <4>1. j = sched.started /\ sched.failed /\ ~(j <= sched.committed)
        BY <2>4, <3>3 DEF Stages
      <4>2. sched.committed = sched.started
        BY <4>1 DEF Cursors
      <4> QED BY <2>6, <4>1, <4>2
    <3> QED BY <2>3, <2>4, <2>6, <3>1, <3>2, <3>3 DEF Stages
  <2>8. ~(i <= sched'.committed) /\ ~(i > sched'.started) /\ i = sched'.started
    BY <2>3, <2>6
  <2>9. i \notin inFlight' /\ sched'.pc = "prepare"
    BY <1>c, <2>3, <2>5
  <2>10. \A j \in 1..Calls :
           /\ j <= sched'.committed <=> stage'[j] = "committed"
           /\ j > sched'.started <=> stage'[j] \in {"planned", "skipped"}
           /\ stage'[j] = "preparing" => j = sched'.started
           /\ stage'[j] \in {"flushing", "body"} => j \in inFlight'
           /\ stage'[j] = "rejected" => sched'.failed
           /\ stage'[j] # "skipped"
           /\ j \in inFlight' => j <= sched'.started
    <3> TAKE j \in 1..Calls
    <3>1. CASE j = i
      BY <2>2, <2>8, <2>9, <3>1
    <3>2. CASE j # i
      BY <2>7, <3>2 DEF Running
    <3> QED BY <3>1, <3>2
  <2> QED BY <2>7, <2>9, <2>10 DEF Stages, Running
<1>4. Raced'
  BY <1>b DEF Raced
<1>5. Classes'
  <2>1. ASSUME NEW j \in 1..Calls, j # i PROVE class'[j] = class[j]
    BY <1>c, <2>1 DEF TypeOK
  <2>2. class'[i] = locals.kind
    BY <1>0, <1>c DEF TypeOK
  <2>3. /\ sched.committed \in Nat /\ sched.committed <= sched.started
        /\ sched'.committed = sched.committed /\ sched'.started = sched.started + 1
        /\ sched'.kind = locals.kind
    BY <1>b DEF TypeOK
  <2>4. ASSUME NEW j \in 1..Calls, sched.committed < j, j <= sched'.started
        PROVE  class'[j] = sched'.kind
    BY <1>0, <2>1, <2>2, <2>3, <2>4
  <2>5. ASSUME NEW j \in 1..Calls, class'[j] = "exclusive", j <= sched'.started
        PROVE  /\ j <= sched'.committed + 1
               /\ j = sched'.started \/ j <= sched'.committed
    <3>1. CASE sched.committed < j
      BY <1>0, <2>3, <2>4, <2>5, <3>1
    <3> QED BY <1>0, <2>3, <3>1
  <2> QED BY <2>3, <2>4, <2>5 DEF Classes
<1>6. Pool'
  BY <1>b, <1>c DEF Pool
<1> QED BY <1>1, <1>2, <1>3, <1>4, <1>5, <1>6

LEMMA SkipRestStep ==
  ASSUME Structure, NEW locals \in Locals,
         SkipRest(locals), UNCHANGED <<registry, signal, durable>>,
         sched.pc \in {"group", "fill"}, inFlight = {},
         sched.committed = sched.started, locals.last <= Calls,
         locals.started = sched.started, locals.committed = sched.committed,
         locals.failed = sched.failed, ~sched.failed
  PROVE  Structure'
<1> USE CallsAssumption, MaxParallelAssumption DEF Structure, Call
<1>b. sched' \in Locals /\ sched'.pc = "done" /\ sched'.started = sched.started
      /\ sched'.committed = sched.committed /\ sched'.last = locals.last
      /\ ~sched'.failed
  BY DEF Locals, Pc, Exits, TypeOK, SkipRest
<1>c. stage' = [i \in 1..Calls |-> IF i > sched.started THEN "skipped" ELSE stage[i]]
      /\ class' = class /\ inFlight' = inFlight
  BY DEF SkipRest
<1>1. TypeOK'
  <2>1. SkippedPairs(sched.started) \in Seq(EventType)
    BY SkippedTyped DEF TypeOK
  <2>2. log' \in Seq(EventType) /\ Len(log') = Len(log) + Len(SkippedPairs(sched.started))
    BY <2>1 DEF TypeOK, SkipRest
  <2>3. durable' \in 0..Len(log')
    BY <2>1, <2>2 DEF TypeOK
  <2>4. stage' \in [1..Calls -> Stage]
    BY <1>c DEF TypeOK, Stage
  <2> QED BY <1>b, <1>c, <2>2, <2>3, <2>4 DEF TypeOK, SkipRest
<1>2. Cursors'
  BY <1>b, <1>c DEF TypeOK, Cursors, Inner
<1>3. Stages'
  BY <1>b, <1>c DEF TypeOK, Stages, Running, Cursors
<1>4. Raced'
  BY <1>b DEF Raced
<1>5. Classes'
  BY <1>b, <1>c DEF TypeOK, Classes, Inner, Mode
<1>6. Pool'
  BY <1>b, <1>c DEF Pool
<1> QED BY <1>1, <1>2, <1>3, <1>4, <1>5, <1>6

-----------------------------------------------------------------------------
(* The scheduler *)

(* Neither a jump nor a throw moves a cursor. *)
LEMMA GotoKeeps ==
  ASSUME sched \in Locals, NEW pc \in Pc, Goto(pc)
  PROVE  /\ sched' \in Locals /\ sched'.pc = pc /\ sched'.failed = sched.failed
         /\ sched'.started = sched.started /\ sched'.committed = sched.committed
         /\ sched'.last = sched.last /\ sched'.kind = sched.kind
BY DEF Goto, Locals

LEMMA ThrowKeeps ==
  ASSUME sched \in Locals, Throw
  PROVE  /\ sched' \in Locals /\ sched'.pc = "drain" /\ sched'.failed
         /\ sched'.started = sched.started /\ sched'.committed = sched.committed
         /\ sched'.last = sched.last /\ sched'.kind = sched.kind
BY DEF Throw, Locals, Pc

LEMMA EnterGroupStep ==
  ASSUME Structure, EnterGroup
  PROVE  Structure'
<1> USE CallsAssumption, MaxParallelAssumption DEF Structure, Call
<1>1. PICK i \in Call : i = sched.started + 1
  BY DEF TypeOK, Cursors, EnterGroup
<1>2. PICK group : group = [sched EXCEPT
                              !.kind = registry[i],
                              !.last = IF registry[i] = "parallel" THEN Calls ELSE i]
  OBVIOUS
<1>3. /\ group \in Locals /\ group.kind = registry[i]
      /\ group.started = sched.started /\ group.committed = sched.committed
      /\ group.failed = sched.failed
      /\ group.last = IF registry[i] = "parallel" THEN Calls ELSE i
  <2>1. registry[i] \in Mode /\ Calls \in Nat /\ i \in Nat /\ sched \in Locals
    BY DEF TypeOK
  <2>2. group.kind = registry[i] /\ group.last = IF registry[i] = "parallel" THEN Calls ELSE i
    BY <1>2, <2>1 DEF Locals
  <2>3. group.started = sched.started /\ group.committed = sched.committed
        /\ group.failed = sched.failed
    BY <1>2, <2>1 DEF Locals
  <2>4. group \in Locals
    BY <1>2, <2>1 DEF Locals
  <2> QED BY <2>2, <2>3, <2>4
<1>4. /\ sched.pc = "group" /\ inFlight = {} /\ UNCHANGED <<registry, signal, durable>>
      /\ sched.committed = sched.started /\ sched.started \in Nat /\ ~sched.failed
  BY DEF EnterGroup, Cursors, TypeOK
<1>5. group.last <= Calls /\ i <= group.last
  BY <1>3 DEF Mode
<1>6. CASE signal
  <2>1. SkipRest(group)
    BY <1>1, <1>2, <1>6 DEF EnterGroup
  <2> QED BY <1>3, <1>4, <1>5, <2>1, SkipRestStep
<1>7. CASE ~signal
  <2>1. StartCall(i, group)
    BY <1>1, <1>2, <1>7 DEF EnterGroup
  <2>2. Cardinality(inFlight) < MaxParallel
    BY <1>4, FS_EmptySet
  <2>3. group.kind = "exclusive" => group.last = i /\ sched.committed = sched.started
    BY <1>3, <1>4
  <2>4. \A j \in Call : sched.committed < j /\ j <= sched.started => class[j] = group.kind
    BY <1>4
  <2> QED BY <1>1, <1>3, <1>4, <1>5, <2>1, <2>2, <2>3, <2>4, StartCallStep
<1> QED BY <1>6, <1>7

LEMMA PreparedStep ==
  ASSUME Structure, Prepared
  PROVE  Structure'
<1> USE CallsAssumption, MaxParallelAssumption DEF Structure, Call
<1>1. PICK i \in 1..Calls : i = sched.started /\ stage[i] = "preparing"
  BY DEF Prepared, Cursors, Inner, TypeOK
<1>2. sched.pc = "prepare" /\ UNCHANGED <<registry, signal, callSeq, log, durable, class>>
  BY DEF Prepared
<1>3. CASE Throw /\ UNCHANGED toolVars
  <2>1. /\ sched' \in Locals /\ sched'.pc = "drain" /\ sched'.failed
        /\ sched'.started = sched.started /\ sched'.committed = sched.committed
        /\ sched'.last = sched.last /\ sched'.kind = sched.kind
    BY <1>3, ThrowKeeps DEF TypeOK
  <2> QED BY <1>2, <1>3, <2>1
          DEF TypeOK, Cursors, Stages, Raced, Classes, Pool, Inner, toolVars
<1>4. ASSUME Goto("commit"), ~sched.failed,
             NEW after \in {"flushing"} \cup Slots,
             stage' = [stage EXCEPT ![i] = after],
             inFlight' = IF after = "flushing" THEN inFlight \cup {i} ELSE inFlight,
             barrier' \in [Call -> Nat], ran' = ran
      PROVE  Structure'
  <2>1. /\ sched' \in Locals /\ sched'.pc = "commit" /\ sched'.failed = sched.failed
        /\ sched'.started = sched.started /\ sched'.committed = sched.committed
        /\ sched'.last = sched.last /\ sched'.kind = sched.kind
    BY <1>4, GotoKeeps DEF TypeOK, Pc
  <2>2. TypeOK'
    BY <1>2, <1>4, <2>1 DEF TypeOK, Stage, Slots
  <2>3. Cursors'
    BY <1>2, <2>1 DEF Cursors, Inner
  <2>4. Stages'
    <3>1. stage'[i] = after /\ after \in {"flushing", "post", "final"}
      BY <1>4 DEF TypeOK, Slots
    <3>2. ASSUME NEW j \in 1..Calls, j # i PROVE stage'[j] = stage[j]
      BY <1>4, <3>2 DEF TypeOK
    <3>3. i \in inFlight' <=> (after = "flushing" \/ i \in inFlight)
      BY <1>4
    <3>4. ASSUME NEW j \in 1..Calls, j # i PROVE j \in inFlight' <=> j \in inFlight
      BY <1>4, <3>4
    <3>5. sched.started \in Nat /\ sched.committed \in Nat
      BY DEF TypeOK, Locals
    <3> QED BY <1>1, <1>2, <1>4, <2>1, <3>1, <3>2, <3>3, <3>4, <3>5 DEF Stages,
         Running
  <2>5. Raced' /\ Classes'
    BY <1>2, <2>1 DEF Raced, Classes, Inner
  <2>6. Pool'
    <3>1. /\ IsFiniteSet(inFlight \cup {i})
          /\ Cardinality(inFlight) \in Nat
          /\ Cardinality(inFlight \cup {i}) <= Cardinality(inFlight) + 1
      <4>1. IsFiniteSet(inFlight)
        BY DEF Pool
      <4>2. Cardinality(inFlight) \in Nat
        BY <4>1, FS_CardinalityType
      <4>3. /\ IsFiniteSet(inFlight \cup {i})
            /\ Cardinality(inFlight \cup {i}) =
                 IF i \in inFlight THEN Cardinality(inFlight)
                                   ELSE Cardinality(inFlight) + 1
        BY <4>1, FS_AddElement, Zenon
      <4> QED BY <4>2, <4>3
    <3>2. CASE after = "flushing"
      <4>1. inFlight' = inFlight \cup {i}
        BY <1>4, <3>2
      <4>2. IsFiniteSet(inFlight') /\ Cardinality(inFlight') <= Cardinality(inFlight) + 1
        BY <3>1, <4>1, Zenon
      <4>3. Cardinality(inFlight) < MaxParallel /\ Cardinality(inFlight) \in Nat
        BY <1>2, <3>1 DEF Pool
      <4>4. Cardinality(inFlight') \in Nat
        BY <4>2, FS_CardinalityType
      <4> QED BY <2>1, <4>2, <4>3, <4>4 DEF Pool
    <3>3. CASE after # "flushing"
      BY <1>2, <1>4, <2>1, <3>1, <3>3 DEF Pool
    <3> QED BY <3>2, <3>3
  <2> QED BY <2>2, <2>3, <2>4, <2>5, <2>6
<1>5. CASE /\ ~SchedulerFailure /\ ~signal
           /\ stage' = [stage EXCEPT ![i] = "flushing"]
           /\ barrier' = [barrier EXCEPT ![i] = Len(log)]
           /\ inFlight' = inFlight \cup {i}
           /\ Goto("commit")
           /\ UNCHANGED ran
  <2>1. barrier' \in [Call -> Nat]
    BY <1>5 DEF TypeOK
  <2> QED BY <1>4, <1>5, <2>1 DEF SchedulerFailure
<1>6. CASE /\ ~SchedulerFailure
           /\ \E slot \in Slots : stage' = [stage EXCEPT ![i] = slot]
           /\ Goto("commit")
           /\ UNCHANGED <<inFlight, barrier, ran>>
  <2>1. PICK slot \in Slots : stage' = [stage EXCEPT ![i] = slot]
    BY <1>6
  <2> QED BY <1>4, <1>6, <2>1 DEF SchedulerFailure, Slots, TypeOK
<1> QED BY <1>1, <1>3, <1>5, <1>6 DEF Prepared

LEMMA RuntimeThrowsStep ==
  ASSUME Structure, RuntimeThrows
  PROVE  Structure'
<1> USE CallsAssumption, MaxParallelAssumption DEF Structure, Call
<1>1. TypeOK'
  BY DEF TypeOK, Locals, Pc, Exits, Mode, Stage, RuntimeThrows, Throw, toolVars
<1>2. Cursors'
  BY DEF TypeOK, Cursors, Stages, Locals, Exits, Inner, RuntimeThrows, Throw,
       toolVars
<1>3. Stages'
  BY DEF TypeOK, Cursors, Stages, Locals, Running, Slots, Exits, Inner,
       RuntimeThrows, Throw, toolVars
<1>4. Raced'
  BY DEF TypeOK, Cursors, Stages, Raced, Locals, Running, Slots, RuntimeThrows,
       Throw, toolVars
<1>5. Classes'
  BY DEF TypeOK, Cursors, Stages, Classes, Locals, Inner, RuntimeThrows, Throw,
       toolVars
<1>6. Pool'
  BY FS_RemoveElement, FS_AddElement DEF TypeOK, Pool, Locals, RuntimeThrows,
       Throw, toolVars
<1> QED BY <1>1, <1>2, <1>3, <1>4, <1>5, <1>6

LEMMA RaceStep ==
  ASSUME Structure, Race
  PROVE  Structure'
<1> USE CallsAssumption, MaxParallelAssumption DEF Structure, Call
<1>1. PICK i \in inFlight : stage[i] \notin Running /\ inFlight' = inFlight \ {i}
  BY DEF Race
<1>2. /\ UNCHANGED <<registry, signal, stage, barrier, ran, callSeq, log, durable, class>>
      /\ sched.pc = "race"
  BY DEF Race
<1>3. /\ sched' \in Locals /\ sched'.pc \in {"commit", "drain"}
      /\ sched'.failed = sched.failed /\ (sched'.pc = "drain" => sched.failed)
      /\ sched'.started = sched.started /\ sched'.committed = sched.committed
      /\ sched'.last = sched.last /\ sched'.kind = sched.kind
  <2>1. CASE sched.failed
    BY <2>1, ThrowKeeps DEF Race, SchedulerFailure, TypeOK, Locals
  <2>2. CASE ~sched.failed
    BY <2>2, GotoKeeps DEF Race, SchedulerFailure, TypeOK, Pc
  <2> QED BY <2>1, <2>2
<1>4. TypeOK'
  BY <1>1, <1>2, <1>3 DEF TypeOK
<1>5. Cursors'
  BY <1>2, <1>3 DEF Cursors, Inner
<1>6. Stages'
  BY <1>1, <1>2, <1>3 DEF Stages
<1>7. Raced' /\ Classes'
  BY <1>2, <1>3 DEF Raced, Classes, Inner
<1>8. Pool'
  <2>1. /\ IsFiniteSet(inFlight \ {i}) /\ Cardinality(inFlight) \in Nat
        /\ Cardinality(inFlight \ {i}) <= Cardinality(inFlight)
    <3>1. IsFiniteSet(inFlight)
      BY DEF Pool
    <3>2. Cardinality(inFlight) \in Nat
      BY <3>1, FS_CardinalityType
    <3>3. /\ IsFiniteSet(inFlight \ {i})
          /\ Cardinality(inFlight \ {i}) =
               IF i \in inFlight THEN Cardinality(inFlight) - 1
                                 ELSE Cardinality(inFlight)
      BY <3>1, FS_RemoveElement, Zenon
    <3> QED BY <3>2, <3>3
  <2>2. IsFiniteSet(inFlight') /\ Cardinality(inFlight') <= Cardinality(inFlight)
    BY <1>1, <2>1, Zenon
  <2>3. Cardinality(inFlight') \in Nat
    BY <2>2, FS_CardinalityType
  <2> QED BY <1>3, <2>1, <2>2, <2>3 DEF Pool
<1> QED BY <1>4, <1>5, <1>6, <1>7, <1>8

LEMMA DrainStep ==
  ASSUME Structure, Drain
  PROVE  Structure'
<1> USE CallsAssumption, MaxParallelAssumption DEF Structure, Call
<1>1. TypeOK'
  BY DEF TypeOK, Locals, Pc, Exits, Mode, Stage, Drain, Drained, Goto, toolVars
<1>2. Cursors'
  BY DEF TypeOK, Cursors, Stages, Locals, Exits, Inner, Drain, Drained, Goto,
       toolVars
<1>3. Stages'
  BY DEF TypeOK, Cursors, Stages, Locals, Running, Slots, Exits, Inner, Drain,
       Drained, Goto, toolVars
<1>4. Raced'
  BY DEF TypeOK, Cursors, Stages, Raced, Locals, Running, Slots, Drain,
       Drained, Goto, toolVars
<1>5. Classes'
  BY DEF TypeOK, Cursors, Stages, Classes, Locals, Inner, Drain, Drained, Goto,
       toolVars
<1>6. Pool'
  BY FS_RemoveElement, FS_AddElement DEF TypeOK, Pool, Locals, Drain, Drained,
       Goto, toolVars
<1> QED BY <1>1, <1>2, <1>3, <1>4, <1>5, <1>6

(* A result is recorded for the next call, which has settled. *)
LEMMA CommitResultStep ==
  ASSUME Structure, NEW c \in Call, c = sched.committed + 1,
         stage[c] \in Slots, sched.pc \in {"commit", "finalize"},
         CommitResult(c), UNCHANGED <<registry, signal, callSeq, durable, class>>
  PROVE  Structure'
<1> USE CallsAssumption, MaxParallelAssumption DEF Structure, Call
<1>1. /\ sched.started \in Nat /\ sched.committed \in Nat /\ c \in Nat
      /\ c <= sched.started
  <2>1. sched.started \in Nat /\ sched.committed \in Nat /\ c \in Nat
    BY DEF TypeOK, Locals
  <2>2. stage[c] \notin {"planned", "skipped"}
    BY DEF Slots
  <2> QED BY <2>1, <2>2 DEF Stages
<1>2. /\ sched' \in Locals /\ sched'.pc = "commit" /\ sched'.failed = sched.failed
      /\ sched'.started = sched.started /\ sched'.committed = c
      /\ sched'.last = sched.last /\ sched'.kind = sched.kind
  <2>1. sched' = [sched EXCEPT !.pc = "commit", !.committed = c] /\ sched \in Locals
    BY DEF CommitResult, TypeOK
  <2>2. sched'.pc = "commit" /\ sched'.failed = sched.failed
    BY <2>1 DEF Locals
  <2>3. sched'.started = sched.started /\ sched'.committed = c
    BY <2>1 DEF Locals
  <2>4. sched'.last = sched.last /\ sched'.kind = sched.kind
    BY <2>1 DEF Locals
  <2>5. sched' \in Locals
    BY <1>1, <2>1 DEF Locals, Pc
  <2> QED BY <2>2, <2>3, <2>4, <2>5
<1>3. stage'[c] = "committed" /\ \A j \in 1..Calls : j # c => stage'[j] = stage[j]
  BY DEF CommitResult, TypeOK
<1>4. inFlight' = inFlight /\ class' = class
  BY DEF CommitResult
<1>5. TypeOK'
  <2>1. ResultEvent(c, callSeq[c], "outcome") \in EventType
    BY EventsTyped DEF TypeOK
  <2>2. log' \in Seq(EventType) /\ Len(log') = Len(log) + 1
    BY <2>1 DEF CommitResult, TypeOK
  <2>3. durable' \in 0..Len(log')
    BY <2>2 DEF TypeOK
  <2>4. stage' \in [1..Calls -> Stage]
    BY DEF CommitResult, TypeOK, Stage
  <2> QED BY <1>1, <1>2, <2>2, <2>3, <2>4, SMTT(30) DEF TypeOK, CommitResult
<1>6. Cursors'
  BY <1>2, <1>4 DEF Cursors, Inner
<1>7. Stages'
  <2>1. c <= sched'.committed /\ ~(c > sched'.started)
    BY <1>1, <1>2
  <2>2. \A j \in 1..Calls : j # c => (j <= sched'.committed <=> j <= sched.committed)
    BY <1>1, <1>2
  <2> QED BY <1>1, <1>2, <1>3, <1>4, <2>1, <2>2 DEF Stages, Running
<1>8. Raced'
  BY <1>2 DEF Raced
<1>9. Classes'
  BY <1>1, <1>2, <1>4 DEF Classes, Inner
<1>10. Pool'
  BY <1>2, <1>4 DEF Pool
<1> QED BY <1>5, <1>6, <1>7, <1>8, <1>9, <1>10

LEMMA CommitStep ==
  ASSUME Structure, Commit
  PROVE  Structure'
<1> USE CallsAssumption, MaxParallelAssumption DEF Structure, Call
<1> DEFINE c == sched.committed + 1
<1>1. /\ sched.pc = "commit" /\ UNCHANGED <<registry, signal, callSeq, durable, class>>
      /\ sched \in Locals
  BY DEF Commit, TypeOK
<1>2. sched.started \in Nat /\ sched.committed \in Nat /\ sched.last <= Calls
      /\ sched.last \in Nat /\ sched.started <= sched.last
  BY <1>1 DEF TypeOK, Locals, Cursors, Inner
<1>3. CASE c <= sched.last /\ stage[c] = "final" /\ CommitResult(c)
  <2>1. c \in Call
    BY <1>2, <1>3
  <2> QED BY <1>1, <1>3, <2>1, CommitResultStep DEF Slots
<1>4. CASE /\ c <= sched.last /\ stage[c] = "post"
           /\ Goto("finalize") /\ UNCHANGED <<toolVars, log>>
  <2>1. /\ sched' \in Locals /\ sched'.pc = "finalize" /\ sched'.failed = sched.failed
        /\ sched'.started = sched.started /\ sched'.committed = sched.committed
        /\ sched'.last = sched.last /\ sched'.kind = sched.kind
    BY <1>1, <1>4, GotoKeeps DEF Pc
  <2>2. c \in 1..Calls /\ sched.committed < sched.started
    BY <1>2, <1>4 DEF Stages
  <2>3. Cursors'
    BY <1>1, <1>4, <2>1, <2>2 DEF Cursors, Inner, toolVars
  <2> QED BY <1>1, <1>4, <2>1, <2>3 DEF TypeOK, Stages, Raced, Classes, Pool,
       Inner, toolVars
<1>5. CASE /\ ~(c <= sched.last /\ stage[c] = "final")
           /\ ~(c <= sched.last /\ stage[c] = "post")
           /\ Goto("fill") /\ UNCHANGED <<toolVars, log>>
  <2>1. /\ sched' \in Locals /\ sched'.pc = "fill" /\ sched'.failed = sched.failed
        /\ sched'.started = sched.started /\ sched'.committed = sched.committed
        /\ sched'.last = sched.last /\ sched'.kind = sched.kind
    BY <1>1, <1>5, GotoKeeps DEF Pc
  <2>2. Cursors'
    BY <1>1, <1>5, <2>1 DEF Cursors, Inner, toolVars
  <2>3. Raced'
    <3>1. \A j \in 1..Calls : j = c /\ stage[j] \in Slots => FALSE
      BY <1>2, <1>5 DEF Stages, Slots
    <3> QED BY <1>1, <1>5, <2>1, <3>1 DEF Raced, toolVars
  <2> QED BY <1>1, <1>5, <2>1, <2>2, <2>3 DEF TypeOK, Stages, Classes, Pool,
       Inner, toolVars
<1> QED BY <1>3, <1>4, <1>5 DEF Commit

LEMMA FinalizedStep ==
  ASSUME Structure, Finalized
  PROVE  Structure'
<1> USE CallsAssumption DEF Structure, Call
<1>1. sched.pc = "finalize" /\ UNCHANGED <<registry, signal, callSeq, durable, class>>
  BY DEF Finalized
<1>2. PICK c \in Call : c = sched.committed + 1
  BY <1>1 DEF TypeOK, Locals, Cursors
<1> QED BY <1>1, <1>2, CommitResultStep DEF Finalized, Cursors, Slots

(* Nothing in flight when commitReady has returned: everything is recorded. *)
LEMMA GroupOver ==
  ASSUME Structure, sched.pc = "fill", ~sched.failed, inFlight = {}
  PROVE  sched.committed = sched.started
<1> USE CallsAssumption DEF Structure, Call
<1>1. sched.started \in 0..Calls /\ sched.committed \in 0..sched.started /\ Calls \in Nat
  BY DEF TypeOK
<1>2. ASSUME sched.committed < sched.started PROVE FALSE
  <2>1. PICK c \in 1..Calls : c = sched.committed + 1
    BY <1>1, <1>2
  <2>2. stage[c] \in Stage /\ ~(c <= sched.committed) /\ ~(c > sched.started)
    BY <1>1, <1>2, <2>1, SMTT(30) DEF TypeOK
  <2>3. stage[c] \notin Slots
    BY <2>1 DEF Raced
  <2>4. stage[c] \notin {"committed", "planned", "skipped", "preparing", "rejected"}
        /\ stage[c] \notin Running
    BY <2>2 DEF Stages
  <2> QED BY <2>2, <2>3, <2>4 DEF Stage, Slots, Running
<1> QED BY <1>1, <1>2

LEMMA FillStep ==
  ASSUME Structure, Fill
  PROVE  Structure'
<1> USE CallsAssumption, MaxParallelAssumption DEF Structure, Call
<1>1. sched.pc = "fill" /\ UNCHANGED <<registry, signal, durable>>
  BY DEF Fill
<1>2. PICK aborted \in BOOLEAN : aborted = (sched.aborted \/ signal)
  OBVIOUS
<1>3. PICK locals : locals = [sched EXCEPT !.aborted = aborted]
  OBVIOUS
<1>4. /\ locals \in Locals /\ locals.pc = sched.pc /\ locals.failed = sched.failed
      /\ locals.started = sched.started /\ locals.committed = sched.committed
      /\ locals.last = sched.last /\ locals.kind = sched.kind
  BY <1>2, <1>3 DEF TypeOK, Locals
<1>5. /\ sched.last <= Calls /\ sched.last \in Nat /\ sched.started \in Nat
      /\ 1 <= sched.started /\ sched.started <= sched.last
      /\ sched.committed \in Nat /\ sched.committed <= sched.started
      /\ sched.kind = "exclusive" => sched.last = sched.started
  BY <1>1 DEF TypeOK, Locals, Cursors, Inner
<1>6. CASE SchedulerFailure /\ Throw /\ UNCHANGED <<toolVars, callSeq, log, class>>
  <2>1. /\ sched' \in Locals /\ sched'.pc = "drain" /\ sched'.failed
        /\ sched'.started = sched.started /\ sched'.committed = sched.committed
        /\ sched'.last = sched.last /\ sched'.kind = sched.kind
    BY <1>6, ThrowKeeps DEF TypeOK
  <2> QED BY <1>1, <1>6, <2>1
          DEF TypeOK, Cursors, Stages, Raced, Classes, Pool, Inner, toolVars
<1>7. CASE ~SchedulerFailure /\ MayStart(aborted) /\ StartCall(sched.started + 1, locals)
  <2>1. /\ sched.started < sched.last /\ Cardinality(inFlight) < MaxParallel
        /\ registry[sched.started + 1] = "parallel"
    BY <1>7 DEF MayStart
  <2>2. sched.kind = "parallel"
    BY <1>4, <1>5, <2>1 DEF Locals, Mode
  <2>3. \A j \in Call : sched.committed < j /\ j <= sched.started => class[j] = locals.kind
    BY <1>1, <1>4 DEF Classes, Inner
  <2>4. PICK i \in Nat : i = sched.started + 1 /\ i <= sched.last
    BY <1>5, <2>1
  <2> QED BY <1>1, <1>4, <1>5, <1>7, <2>1, <2>2, <2>3, <2>4, StartCallStep
         DEF SchedulerFailure
<1>8. CASE /\ sched' = [locals EXCEPT !.pc = "race"]
           /\ UNCHANGED <<toolVars, callSeq, log, class>>
  <2>1. /\ sched' \in Locals /\ sched'.pc = "race" /\ sched'.failed = sched.failed
        /\ sched'.started = sched.started /\ sched'.committed = sched.committed
        /\ sched'.last = sched.last /\ sched'.kind = sched.kind
    BY <1>4, <1>8 DEF Locals, Pc
  <2> QED BY <1>1, <1>8, <2>1
          DEF TypeOK, Cursors, Stages, Raced, Classes, Pool, Inner, toolVars
<1>9. CASE ~SchedulerFailure /\ inFlight = {} /\ EndGroup(aborted, locals)
  <2>1. sched.committed = sched.started
    BY <1>1, <1>9, GroupOver DEF SchedulerFailure
  <2>2. CASE SkipRest(locals)
    BY <1>1, <1>4, <1>5, <1>9, <2>1, <2>2, SkipRestStep DEF SchedulerFailure
  <2>3. CASE /\ sched' = [locals EXCEPT
                            !.pc = IF sched.started = Calls THEN "done" ELSE "group"]
             /\ UNCHANGED <<toolVars, callSeq, log, class>>
    <3>1. /\ sched' \in Locals /\ sched'.failed = sched.failed
          /\ sched'.pc = IF sched.started = Calls THEN "done" ELSE "group"
          /\ sched'.started = sched.started /\ sched'.committed = sched.committed
          /\ sched'.last = sched.last /\ sched'.kind = sched.kind
      BY <1>4, <2>3 DEF Locals, Pc, Exits
    <3>2. inFlight' = {} /\ inFlight' = inFlight /\ stage' = stage /\ class' = class
      BY <1>9, <2>3 DEF toolVars
    <3>3. TypeOK'
      BY <1>1, <1>9, <2>3, <3>1 DEF TypeOK, toolVars
    <3>4. Cursors'
      BY <1>5, <1>9, <2>1, <3>1, <3>2 DEF SchedulerFailure, Cursors, Inner,
           TypeOK
    <3>5. Stages'
      BY <1>1, <3>1, <3>2 DEF Stages
    <3>6. Raced' /\ Classes' /\ Pool'
      BY <3>1, <3>2 DEF Raced, Classes, Pool, Inner
    <3> QED BY <3>3, <3>4, <3>5, <3>6
  <2> QED BY <1>9, <2>2, <2>3 DEF EndGroup
<1> QED BY <1>2, <1>3, <1>6, <1>7, <1>8, <1>9 DEF Fill

-----------------------------------------------------------------------------
(* The invariant *)

LEMMA NextStructure ==
  ASSUME Structure, [Next]_vars
  PROVE  Structure'
<1>1. CASE Scheduler
  BY <1>1, EnterGroupStep, PreparedStep, CommitStep, FinalizedStep,
     RuntimeThrowsStep, FillStep, RaceStep, DrainStep DEF Scheduler
<1>2. CASE \E i \in Call : Tool(i)
  BY <1>2, InvokeBodyStep, SettleStep, RejectStep DEF Tool
<1>3. CASE Environment
  BY <1>3, AbortStep, PersistStep, ReclassifyStep DEF Environment
<1>4. CASE UNCHANGED vars
  BY <1>4 DEF vars, Structure, TypeOK, Cursors, Stages, Raced, Classes, Pool,
       Inner
<1> QED BY <1>1, <1>2, <1>3, <1>4 DEF Next

(* How cursors, stages, classes and pool fit together at every await of
   executeToolCalls and runGroup, for any number of calls and any pool. *)
THEOREM StructureInvariant == Spec => []Structure
BY InitStructure, NextStructure, PTL DEF Spec

(* Every variable of the scheduler keeps its type. *)
THEOREM SchedulerTypes == Spec => []TypeOK
<1>1. Structure => TypeOK
  BY DEF Structure
<1> QED BY <1>1, StructureInvariant, PTL

(* An exclusive call runs alone, whatever the registry does to its class
   while the calls before it are pending. *)
THEOREM BarriersHold == Spec => []Barriers
<1>1. Structure => Barriers
  <2> SUFFICES ASSUME Structure, NEW i \in Call,
                      class[i] = "exclusive", stage[i] \notin {"planned", "skipped"}
               PROVE  /\ \A j \in 1..(i - 1) : stage[j] = "committed"
                      /\ stage[i] # "committed"
                           => \A j \in (i + 1)..Calls : stage[j] = "planned"
    BY DEF Barriers
  <2> USE CallsAssumption DEF Structure, Call
  <2>1. /\ sched.started \in 0..Calls /\ sched.committed \in 0..sched.started
        /\ i \in 1..Calls /\ Calls \in Nat
    BY DEF TypeOK
  <2>2. i <= sched.started
    BY <2>1 DEF Stages
  <2>3. i <= sched.committed + 1 /\ (i = sched.started \/ i <= sched.committed)
    BY <2>1, <2>2 DEF Classes
  <2>4. ASSUME NEW j \in 1..(i - 1) PROVE stage[j] = "committed"
    <3>1. j \in 1..Calls /\ j <= sched.committed
      BY <2>1, <2>3
    <3> QED BY <3>1 DEF Stages
  <2>5. ASSUME stage[i] # "committed", NEW j \in (i + 1)..Calls
        PROVE  stage[j] = "planned"
    <3>1. ~(i <= sched.committed)
      BY <2>1, <2>5 DEF Stages
    <3>2. j \in 1..Calls /\ j > sched.started
      BY <2>1, <2>3, <3>1
    <3>3. sched.pc # "done"
      BY <2>1, <2>3, <3>1 DEF Cursors
    <3> QED BY <3>2, <3>3 DEF Stages
  <2> QED BY <2>4, <2>5
<1> QED BY <1>1, StructureInvariant, PTL

(* The bodies and checkpoints under way never exceed maxParallelToolCalls. *)
THEOREM PoolBounded == Spec => []PoolBound
<1>1. Structure => PoolBound
  <2> SUFFICES ASSUME Structure PROVE PoolBound OBVIOUS
  <2> DEFINE running == {i \in Call : stage[i] \in Running}
  <2>1. running \in SUBSET inFlight
    BY DEF Structure, Stages
  <2>2. IsFiniteSet(inFlight)
    BY DEF Structure, Pool
  <2>3. Cardinality(running) <= Cardinality(inFlight) /\ IsFiniteSet(running)
    BY <2>1, <2>2, FS_Subset
  <2>4. Cardinality(running) \in Nat /\ Cardinality(inFlight) \in Nat
    BY <2>2, <2>3, FS_CardinalityType
  <2>5. Cardinality(inFlight) <= MaxParallel
    BY DEF Structure, Pool
  <2>6. Cardinality(running) <= MaxParallel
    BY <2>3, <2>4, <2>5, MaxParallelAssumption
  <2> QED BY <2>6 DEF PoolBound
<1> QED BY <1>1, StructureInvariant, PTL

(* executeToolCalls neither returns nor throws while a body it dispatched is
   still running. *)
THEOREM NothingAbandoned == Spec => []Quiescent
<1>1. Structure => Quiescent
  BY DEF Structure, Cursors, Stages, Quiescent, Exits
<1> QED BY <1>1, StructureInvariant, PTL

-----------------------------------------------------------------------------
(* What a step may not do *)

LEMMA AbortedStartsNothing ==
  ASSUME Structure, [Next]_vars, signal, NEW i \in Call, stage[i] = "planned"
  PROVE  stage'[i] \in {"planned", "skipped"}
<1> USE CallsAssumption DEF Structure, Call
<1>1. stage \in [1..Calls -> Stage] /\ sched \in Locals
  BY DEF TypeOK
<1>2. CASE EnterGroup
  BY <1>1, <1>2 DEF EnterGroup, SkipRest
<1>3. CASE Prepared
  <2>1. stage[sched.started] = "preparing"
    BY <1>3 DEF Prepared, Cursors
  <2> QED BY <1>1, <1>3, <2>1 DEF Prepared, toolVars
<1>4. ASSUME NEW c, CommitResult(c), stage[c] # "planned"
      PROVE  stage'[i] = stage[i]
  BY <1>1, <1>4 DEF CommitResult
<1>5. CASE Commit
  <2>1. CASE stage[sched.committed + 1] = "final" /\ CommitResult(sched.committed + 1)
    BY <1>4, <2>1
  <2>2. CASE UNCHANGED toolVars
    BY <2>2 DEF toolVars
  <2> QED BY <1>5, <2>1, <2>2 DEF Commit
<1>6. CASE Finalized
  <2>1. stage[sched.committed + 1] = "post"
    BY <1>6 DEF Finalized, Cursors
  <2> QED BY <1>4, <1>6, <2>1 DEF Finalized
<1>7. CASE Fill
  <2>1. ~MayStart(sched.aborted \/ signal)
    BY DEF MayStart
  <2>2. stage' = stage \/ \E locals : SkipRest(locals)
    BY <1>7, <2>1 DEF Fill, EndGroup, toolVars
  <2> QED BY <1>1, <2>2 DEF SkipRest
<1>8. CASE RuntimeThrows \/ Race \/ Drain
  BY <1>8 DEF RuntimeThrows, Race, Drain, toolVars
<1>9. CASE \E j \in Call : Tool(j)
  BY <1>1, <1>9 DEF Tool, InvokeBody, Flushed, Reject, Settle, Running
<1>10. CASE Environment \/ UNCHANGED vars
  BY <1>10 DEF Environment, Abort, Persist, Reclassify, toolVars, vars
<1> QED BY <1>2, <1>3, <1>5, <1>6, <1>7, <1>8, <1>9, <1>10 DEF Next, Scheduler

(* agent.cancel stops the dispatch loop: a call that had not started when the
   signal fired is answered as skipped and never started. *)
THEOREM AbortStopsDispatch == Spec => NoStartAfterAbort
<1>1. Structure /\ [Next]_vars =>
        [signal => \A i \in Call : stage[i] = "planned"
                                    => stage'[i] \in {"planned", "skipped"}]_vars
  BY AbortedStartsNothing
<1> QED BY <1>1, StructureInvariant, PTL DEF Spec, NoStartAfterAbort

LEMMA FailedDispatchesNothing ==
  ASSUME Structure, [Next]_vars, sched.failed
  PROVE  /\ inFlight' \subseteq inFlight
         /\ callSeq' = callSeq
         /\ \A i \in Call : stage'[i] # "skipped"
<1> USE CallsAssumption DEF Structure, Call
<1>1. /\ stage \in [1..Calls -> Stage] /\ sched \in Locals
      /\ sched.pc \notin {"group", "done"}
      /\ \A i \in 1..Calls : stage[i] # "skipped"
  BY DEF TypeOK, Cursors, Stages
<1>2. ~EnterGroup
  BY <1>1 DEF EnterGroup
<1>3. CASE Prepared
  BY <1>1, <1>3 DEF Prepared, SchedulerFailure, toolVars
<1>4. ASSUME NEW c, CommitResult(c)
      PROVE  /\ inFlight' = inFlight
             /\ \A i \in 1..Calls : stage'[i] # "skipped"
  BY <1>1, <1>4 DEF CommitResult
<1>5. CASE Commit
  <2>1. callSeq' = callSeq
    BY <1>5 DEF Commit
  <2>2. CASE CommitResult(sched.committed + 1)
    BY <1>4, <2>1, <2>2
  <2>3. CASE UNCHANGED toolVars
    BY <1>1, <2>1, <2>3 DEF toolVars
  <2> QED BY <1>5, <2>2, <2>3 DEF Commit
<1>6. CASE Finalized
  BY <1>4, <1>6 DEF Finalized
<1>7. CASE Fill
  BY <1>1, <1>7 DEF Fill, SchedulerFailure, toolVars
<1>8. CASE RuntimeThrows \/ Drain
  BY <1>1, <1>8 DEF RuntimeThrows, Drain, toolVars
<1>9. CASE Race
  BY <1>1, <1>9 DEF Race
<1>10. CASE \E j \in Call : Tool(j)
  BY <1>1, <1>10 DEF Tool, InvokeBody, Reject, Settle, Slots
<1>11. CASE Environment \/ UNCHANGED vars
  BY <1>1, <1>11 DEF Environment, Abort, Persist, Reclassify, toolVars, vars
<1> QED BY <1>2, <1>3, <1>5, <1>6, <1>7, <1>8, <1>9, <1>10, <1>11 DEF Next,
     Scheduler

(* After a scheduler failure nothing is dispatched any more, and no result is
   made up for a call that never settled. *)
THEOREM FailureStopsDispatch == Spec => FailureStops
<1>1. Structure /\ [Next]_vars =>
        [sched.failed => /\ inFlight' \subseteq inFlight
                         /\ callSeq' = callSeq
                         /\ \A i \in Call : stage'[i] # "skipped"]_vars
  BY FailedDispatchesNothing
<1> QED BY <1>1, StructureInvariant, PTL DEF Spec, FailureStops

-----------------------------------------------------------------------------
(* What executeToolCalls leaves in the session log.  A step leaves it alone,
   starts a call, commits the next result, or answers the calls that were
   never started; LogShape is carried through the four kinds of steps one
   lemma each. *)

(* The position a started call remembers is that of its record. *)
Recorded ==
  \A i \in Call : i <= sched.started =>
    callSeq[i] \in DOMAIN log /\ log[callSeq[i]] = CallEvent(i)

(* Until the end the log holds records of started calls and results of
   committed ones. *)
Bounded ==
  sched.pc # "done" =>
    \A p \in DOMAIN log :
      /\ log[p].type = "tool/call" => log[p].call \in 1..sched.started
      /\ log[p].type = "tool/result" => log[p].call \in 1..sched.committed

CallsUnique ==
  \A p, q \in At("tool/call") : log[p].call = log[q].call => p = q

(* Started calls are recorded and committed ones answered; at the end all. *)
Complete ==
  \A i \in Call :
    /\ i <= sched.started \/ sched.pc = "done"
         => \E p \in At("tool/call") : log[p].call = i
    /\ i <= sched.committed \/ sched.pc = "done"
         => \E p \in At("tool/result") : log[p].call = i

LogShape == Recorded /\ Bounded /\ CallsUnique /\ Complete /\ ResultsOrdered

-----------------------------------------------------------------------------
(* The four kinds of steps *)

Quiet ==
  /\ log' = log /\ callSeq' = callSeq
  /\ sched'.started = sched.started /\ sched'.committed = sched.committed
  /\ sched.pc = "done" => sched'.pc = "done"
  /\ sched'.pc = "done" => \/ sched.pc = "done"
                           \/ sched.started = Calls /\ sched.committed = Calls

Starting ==
  LET i == sched.started + 1
  IN  /\ i \in Call /\ sched.pc # "done" /\ sched'.pc # "done"
      /\ log' = Append(log, CallEvent(i))
      /\ callSeq' = [callSeq EXCEPT ![i] = Len(log) + 1]
      /\ sched'.started = i /\ sched'.committed = sched.committed

Committing ==
  LET c == sched.committed + 1
  IN  /\ c \in Call /\ c <= sched.started
      /\ sched.pc # "done" /\ sched'.pc # "done"
      /\ log' = Append(log, ResultEvent(c, callSeq[c], "outcome"))
      /\ callSeq' = callSeq
      /\ sched'.started = sched.started /\ sched'.committed = c

Skipping ==
  /\ sched.pc # "done" /\ sched.committed = sched.started
  /\ sched'.pc = "done"
  /\ log' = log \o SkippedPairs(sched.started)
  /\ callSeq' = callSeq
  /\ sched'.started = sched.started /\ sched'.committed = sched.committed

LEMMA CommitCommits ==
  ASSUME Structure, NEW c \in Call, c = sched.committed + 1,
         sched.pc \in {"commit", "finalize"}, stage[c] \in Slots,
         CommitResult(c), callSeq' = callSeq
  PROVE  Committing
<1> USE CallsAssumption DEF Structure, Call
<1>1. sched.started \in Nat /\ sched.committed \in Nat /\ sched \in Locals
  BY DEF TypeOK, Locals
<1>2. c <= sched.started
  <2>1. stage[c] \notin {"planned", "skipped"}
    BY DEF Slots
  <2> QED BY <1>1, <2>1 DEF Stages
<1>3. sched'.pc = "commit" /\ sched'.started = sched.started /\ sched'.committed = c
  <2>1. sched' = [sched EXCEPT !.pc = "commit", !.committed = c]
    BY DEF CommitResult
  <2> QED BY <1>1, <2>1 DEF Locals
<1> QED BY <1>1, <1>2, <1>3 DEF Committing, CommitResult

LEMMA StartStarts ==
  ASSUME Structure, NEW locals \in Locals, StartCall(sched.started + 1, locals),
         sched.pc # "done", sched.started + 1 \in Call,
         locals.committed = sched.committed
  PROVE  Starting
<1>1. sched' = [locals EXCEPT !.pc = "prepare", !.started = sched.started + 1]
  BY DEF StartCall
<1>2. /\ sched'.pc = "prepare" /\ sched'.started = sched.started + 1
      /\ sched'.committed = sched.committed
  BY <1>1 DEF Locals
<1> QED BY <1>2 DEF Starting, StartCall

LEMMA SkipSkips ==
  ASSUME NEW locals \in Locals, SkipRest(locals), sched.pc # "done",
         sched.committed = sched.started,
         locals.started = sched.started, locals.committed = sched.committed
  PROVE  Skipping
<1>1. /\ sched'.pc = "done" /\ sched'.started = sched.started
      /\ sched'.committed = sched.committed
  BY DEF SkipRest, Locals
<1> QED BY <1>1 DEF Skipping, SkipRest

LEMMA StepKinds ==
  ASSUME Structure, [Next]_vars
  PROVE  Quiet \/ Starting \/ Committing \/ Skipping
<1> USE CallsAssumption DEF Structure, Call
<1>1. /\ sched \in Locals /\ Calls \in Nat
      /\ sched.started \in 0..Calls /\ sched.committed \in 0..sched.started
  BY DEF TypeOK
<1>2. ASSUME NEW pc \in Pc \ {"done"}, Goto(pc), sched.pc # "done",
             log' = log, callSeq' = callSeq
      PROVE  Quiet
  BY <1>1, <1>2, GotoKeeps DEF Quiet
<1>3. ASSUME Throw, sched.pc # "done", log' = log, callSeq' = callSeq
      PROVE  Quiet
  BY <1>1, <1>3, ThrowKeeps DEF Quiet
<1>4. CASE EnterGroup
  <2>1. PICK group \in Locals :
          /\ group.started = sched.started /\ group.committed = sched.committed
          /\ SkipRest(group) \/ StartCall(sched.started + 1, group)
    <3>1. registry[sched.started + 1] \in Mode /\ sched.started + 1 \in Nat
      BY <1>1, <1>4 DEF EnterGroup, Cursors, TypeOK
    <3> DEFINE group == [sched EXCEPT
                  !.kind = registry[sched.started + 1],
                  !.last = IF registry[sched.started + 1] = "parallel"
                             THEN Calls ELSE sched.started + 1]
    <3>2. group \in Locals
      BY <1>1, <3>1 DEF Locals
    <3>3. group.started = sched.started /\ group.committed = sched.committed
      BY <1>1 DEF Locals
    <3>4. SkipRest(group) \/ StartCall(sched.started + 1, group)
      BY <1>4 DEF EnterGroup
    <3> HIDE DEF group
    <3> QED BY <3>2, <3>3, <3>4
  <2>2. /\ sched.pc = "group" /\ sched.committed = sched.started
        /\ sched.started + 1 \in Call
    BY <1>1, <1>4 DEF EnterGroup, Cursors
  <2> QED BY <2>1, <2>2, StartStarts, SkipSkips
<1>5. CASE Prepared
  BY <1>2, <1>3, <1>5 DEF Prepared, Pc, Exits
<1>6. CASE Commit
  <2>1. CASE /\ sched.committed + 1 <= sched.last
             /\ stage[sched.committed + 1] = "final"
             /\ CommitResult(sched.committed + 1)
    <3>1. sched.committed + 1 \in Call /\ sched.pc = "commit" /\ callSeq' = callSeq
      BY <1>1, <1>6, <2>1 DEF Commit, Cursors, Locals
    <3> QED BY <2>1, <3>1, CommitCommits DEF Slots
  <2>2. CASE (Goto("finalize") \/ Goto("fill")) /\ UNCHANGED <<toolVars, log>>
    BY <1>2, <1>6, <2>2 DEF Commit, Pc
  <2> QED BY <1>6, <2>1, <2>2 DEF Commit
<1>7. CASE Finalized
  <2>1. /\ sched.committed + 1 \in Call /\ sched.pc = "finalize"
        /\ callSeq' = callSeq /\ stage[sched.committed + 1] \in Slots
    BY <1>1, <1>7 DEF Finalized, Cursors, Slots
  <2> QED BY <1>7, <2>1, CommitCommits DEF Finalized
<1>8. CASE Fill
  <2>1. PICK aborted \in BOOLEAN, locals \in Locals :
          /\ aborted = (sched.aborted \/ signal)
          /\ locals = [sched EXCEPT !.aborted = aborted]
          /\ locals.started = sched.started /\ locals.committed = sched.committed
    <3> DEFINE aborted == sched.aborted \/ signal
               locals == [sched EXCEPT !.aborted = aborted]
    <3>1. aborted \in BOOLEAN /\ locals \in Locals
      BY <1>1 DEF Locals, TypeOK
    <3>2. locals.started = sched.started /\ locals.committed = sched.committed
      BY <1>1 DEF Locals
    <3>3. aborted = (sched.aborted \/ signal) /\ locals = [sched EXCEPT !.aborted = aborted]
      OBVIOUS
    <3> HIDE DEF locals
    <3> QED BY <3>1, <3>2, <3>3
  <2>2. sched.pc = "fill"
    BY <1>8 DEF Fill
  <2>3. CASE Throw /\ UNCHANGED <<toolVars, callSeq, log, class>>
    BY <1>3, <2>2, <2>3
  <2>4. CASE MayStart(aborted) /\ StartCall(sched.started + 1, locals)
    <3>1. sched.started + 1 \in Call
      BY <1>1, <2>4 DEF MayStart, Cursors, Locals
    <3> QED BY <2>1, <2>2, <2>4, <3>1, StartStarts
  <2>5. CASE /\ sched' = [locals EXCEPT !.pc = "race"]
             /\ UNCHANGED <<toolVars, callSeq, log, class>>
    BY <2>1, <2>2, <2>5 DEF Quiet, Locals
  <2>6. CASE ~sched.failed /\ inFlight = {} /\ EndGroup(aborted, locals)
    <3>1. sched.committed = sched.started
      BY <2>2, <2>6, GroupOver
    <3>2. CASE SkipRest(locals)
      BY <2>1, <2>2, <3>1, <3>2, SkipSkips
    <3>3. CASE /\ sched' = [locals EXCEPT
                              !.pc = IF sched.started = Calls THEN "done" ELSE "group"]
               /\ UNCHANGED <<toolVars, callSeq, log, class>>
      <4>1. /\ sched'.pc = IF sched.started = Calls THEN "done" ELSE "group"
            /\ sched'.started = sched.started /\ sched'.committed = sched.committed
        BY <2>1, <3>3 DEF Locals
      <4> QED BY <2>2, <3>1, <3>3, <4>1 DEF Quiet
    <3> QED BY <2>6, <3>2, <3>3 DEF EndGroup
  <2> QED BY <1>8, <2>1, <2>3, <2>4, <2>5, <2>6 DEF Fill, SchedulerFailure
<1>9. CASE RuntimeThrows \/ Drain \/ Race
  BY <1>2, <1>3, <1>9 DEF RuntimeThrows, Drain, Drained, Race, Pc, Exits
<1>10. CASE \E j \in Call : Tool(j)
  <2>1. PICK j \in Call : Tool(j)
    BY <1>10
  <2>2. CASE Reject(j)
    <3>1. sched' = [sched EXCEPT !.failed = TRUE] /\ log' = log /\ callSeq' = callSeq
      BY <2>2 DEF Reject
    <3>2. /\ sched'.pc = sched.pc /\ sched'.started = sched.started
          /\ sched'.committed = sched.committed
      BY <1>1, <3>1 DEF Locals
    <3> QED BY <3>1, <3>2 DEF Quiet
  <2>3. CASE UNCHANGED <<sched, log, callSeq>>
    BY <2>3 DEF Quiet
  <2> QED BY <2>1, <2>2, <2>3 DEF Tool, InvokeBody, Settle
<1>11. CASE Environment \/ UNCHANGED vars
  BY <1>11 DEF Environment, Abort, Persist, Reclassify, vars, Quiet
<1> QED BY <1>4, <1>5, <1>6, <1>7, <1>8, <1>9, <1>10, <1>11 DEF Next, Scheduler

-----------------------------------------------------------------------------
(* Each kind of step keeps the shape of the log *)

LEMMA AppendAt ==
  ASSUME log \in Seq(EventType), NEW e \in EventType, log' = Append(log, e)
  PROVE  /\ Len(log) \in Nat /\ DOMAIN log = 1..Len(log)
         /\ DOMAIN log' = 1..(Len(log) + 1)
         /\ \A p \in 1..Len(log) : log'[p] = log[p]
         /\ log'[Len(log) + 1] = e
OBVIOUS

(* Positions of one type before and after an append. *)
LEMMA AtAppended ==
  ASSUME log \in Seq(EventType), NEW e \in EventType, log' = Append(log, e),
         NEW type
  PROVE  \A p : p \in At(type)' <=>
           p \in At(type) \/ (p = Len(log) + 1 /\ e.type = type)
BY AppendAt DEF At

LEMMA InitShape == Init => LogShape
<1> SUFFICES ASSUME Init PROVE LogShape OBVIOUS
<1> USE CallsAssumption DEF Call
<1>1. log = Opening /\ DOMAIN Opening = 1..3
  BY OpeningType DEF Init
<1>2. \A p \in 1..3 : log[p].type \notin {"tool/call", "tool/result"}
  BY <1>1 DEF Opening, Mark, Event
<1>3. /\ sched.started = 0 /\ sched.committed = 0 /\ sched.pc = "group"
  BY DEF Init, Fresh
<1>4. At("tool/call") = {} /\ At("tool/result") = {}
  BY <1>1, <1>2 DEF At
<1> QED BY <1>1, <1>2, <1>3, <1>4
        DEF LogShape, Recorded, Bounded, CallsUnique, Complete, ResultsOrdered

LEMMA QuietShape ==
  ASSUME Structure, LogShape, Quiet
  PROVE  LogShape'
<1> USE CallsAssumption DEF Call
<1>1. At("tool/call")' = At("tool/call") /\ At("tool/result")' = At("tool/result")
  BY DEF At, Quiet
<1>2. Recorded' /\ Bounded' /\ CallsUnique' /\ ResultsOrdered'
  BY <1>1 DEF LogShape, Recorded, Bounded, CallsUnique, ResultsOrdered, Quiet
<1>3. Complete'
  BY <1>1 DEF LogShape, Complete, Quiet
<1> QED BY <1>2, <1>3 DEF LogShape

LEMMA StartingShape ==
  ASSUME Structure, LogShape, Starting
  PROVE  LogShape'
<1> USE CallsAssumption DEF Call
<1>1. PICK i \in 1..Calls : i = sched.started + 1
  BY DEF Starting
<1>2. /\ log \in Seq(EventType) /\ callSeq \in [1..Calls -> Nat]
      /\ sched.started \in Nat /\ sched.committed \in Nat
      /\ sched.committed <= sched.started
  BY DEF Structure, TypeOK
<1>3. /\ log' = Append(log, CallEvent(i)) /\ callSeq' = [callSeq EXCEPT ![i] = Len(log) + 1]
      /\ sched'.started = i /\ sched'.committed = sched.committed
      /\ sched.pc # "done" /\ sched'.pc # "done"
  BY <1>1 DEF Starting
<1>4. /\ CallEvent(i) \in EventType /\ CallEvent(i).type = "tool/call"
      /\ CallEvent(i).call = i
  BY EventsTyped DEF CallEvent, Event
<1>5. /\ Len(log) \in Nat /\ DOMAIN log = 1..Len(log)
      /\ DOMAIN log' = 1..(Len(log) + 1)
      /\ \A p \in 1..Len(log) : log'[p] = log[p]
      /\ log'[Len(log) + 1] = CallEvent(i)
  BY <1>2, <1>3, <1>4, AppendAt
<1>6. /\ \A p : p \in At("tool/call")' <=> p \in At("tool/call") \/ p = Len(log) + 1
      /\ \A p : p \in At("tool/result")' <=> p \in At("tool/result")
  BY <1>2, <1>3, <1>4, AtAppended
<1>7. /\ \A p \in At("tool/call") : p \in 1..Len(log) /\ log[p].call \in 1..sched.started
      /\ \A p \in At("tool/result") : p \in 1..Len(log)
  BY <1>3, <1>5 DEF At, LogShape, Bounded
<1>8. Recorded'
  <2> SUFFICES ASSUME NEW j \in 1..Calls, j <= i
               PROVE  callSeq'[j] \in DOMAIN log' /\ log'[callSeq'[j]] = CallEvent(j)
    BY <1>3 DEF Recorded
  <2>1. CASE j = i
    BY <1>2, <1>3, <1>5, <2>1
  <2>2. CASE j # i
    BY <1>1, <1>2, <1>3, <1>5, <2>2 DEF LogShape, Recorded
  <2> QED BY <2>1, <2>2
<1>9. Bounded'
  BY <1>1, <1>2, <1>3, <1>4, <1>5 DEF LogShape, Bounded
<1>10. CallsUnique'
  BY <1>1, <1>2, <1>4, <1>5, <1>6, <1>7, SMTT(30) DEF LogShape, CallsUnique
<1>11. Complete'
  <2> SUFFICES ASSUME NEW j \in 1..Calls
               PROVE  /\ j <= i => \E p \in At("tool/call")' : log'[p].call = j
                      /\ j <= sched.committed =>
                           \E p \in At("tool/result")' : log'[p].call = j
    BY <1>3 DEF Complete
  <2>1. CASE j = i
    <3>1. Len(log) + 1 \in At("tool/call")' /\ log'[Len(log) + 1].call = i
      BY <1>4, <1>5, <1>6
    <3> QED BY <1>1, <1>2, <2>1, <3>1
  <2>2. CASE j # i
    <3>1. j <= i => \E p \in At("tool/call") : log[p].call = j
      BY <1>1, <1>2, <2>2, SMTT(30) DEF LogShape, Complete
    <3>2. j <= sched.committed => \E p \in At("tool/result") : log[p].call = j
      BY DEF LogShape, Complete
    <3> QED BY <1>5, <1>6, <1>7, <3>1, <3>2
  <2> QED BY <2>1, <2>2
<1>12. ResultsOrdered'
  <2>1. ASSUME NEW p \in At("tool/result")
        PROVE  /\ log'[p] = log[p] /\ log[p].cites \in At("tool/call")
               /\ log[p].cites < p /\ log'[log[p].cites] = log[log[p].cites]
               /\ log[log[p].cites].call = log[p].call
    BY <1>5, <1>7 DEF LogShape, ResultsOrdered
  <2> QED BY <1>6, <2>1 DEF LogShape, ResultsOrdered
<1> QED BY <1>8, <1>9, <1>10, <1>11, <1>12 DEF LogShape

LEMMA CommittingShape ==
  ASSUME Structure, LogShape, Committing
  PROVE  LogShape'
<1> USE CallsAssumption DEF Call
<1>1. PICK c \in 1..Calls : c = sched.committed + 1 /\ c <= sched.started
  BY DEF Committing
<1>2. /\ log \in Seq(EventType) /\ callSeq \in [1..Calls -> Nat]
      /\ sched.started \in Nat /\ sched.committed \in Nat
  BY DEF Structure, TypeOK
<1> DEFINE e == ResultEvent(c, callSeq[c], "outcome")
<1>3. /\ log' = Append(log, e) /\ callSeq' = callSeq
      /\ sched'.started = sched.started /\ sched'.committed = c
      /\ sched.pc # "done" /\ sched'.pc # "done"
  BY <1>1 DEF Committing
<1>4. /\ e \in EventType /\ e.type = "tool/result" /\ e.call = c /\ e.cites = callSeq[c]
  <2>1. c \in Nat /\ callSeq[c] \in Nat
    BY <1>2
  <2>2. e \in EventType
    BY <2>1, EventsTyped
  <2> QED BY <2>2 DEF ResultEvent, Event
<1> HIDE DEF e
<1>5. /\ Len(log) \in Nat /\ DOMAIN log = 1..Len(log)
      /\ DOMAIN log' = 1..(Len(log) + 1)
      /\ \A p \in 1..Len(log) : log'[p] = log[p]
      /\ log'[Len(log) + 1] = e
  BY <1>2, <1>3, <1>4, AppendAt
<1>6. /\ \A p : p \in At("tool/call")' <=> p \in At("tool/call")
      /\ \A p : p \in At("tool/result")' <=> p \in At("tool/result") \/ p = Len(log) + 1
  BY <1>2, <1>3, <1>4, AtAppended
<1>7. /\ \A p \in At("tool/call") : p \in 1..Len(log)
      /\ \A p \in At("tool/result") : p \in 1..Len(log) /\ log[p].call \in 1..sched.committed
  BY <1>3, <1>5 DEF At, LogShape, Bounded
<1>8. /\ callSeq[c] \in At("tool/call") /\ callSeq[c] \in 1..Len(log)
      /\ log[callSeq[c]].call = c
  <2>1. callSeq[c] \in DOMAIN log /\ log[callSeq[c]] = CallEvent(c)
    BY <1>1 DEF LogShape, Recorded
  <2>2. CallEvent(c).type = "tool/call" /\ CallEvent(c).call = c
    BY DEF CallEvent, Event
  <2> QED BY <1>5, <2>1, <2>2 DEF At
<1>9. Recorded'
  BY <1>3, <1>5 DEF LogShape, Recorded
<1>10. Bounded'
  BY <1>1, <1>2, <1>3, <1>4, <1>5 DEF LogShape, Bounded
<1>11. CallsUnique'
  BY <1>5, <1>6, <1>7 DEF LogShape, CallsUnique
<1>12. Complete'
  <2> SUFFICES ASSUME NEW j \in 1..Calls
               PROVE  /\ j <= sched.started =>
                           \E p \in At("tool/call")' : log'[p].call = j
                      /\ j <= c => \E p \in At("tool/result")' : log'[p].call = j
    BY <1>3 DEF Complete
  <2>1. j <= sched.started => \E p \in At("tool/call")' : log'[p].call = j
    BY <1>5, <1>6, <1>7 DEF LogShape, Complete
  <2>2. CASE j = c
    <3>1. Len(log) + 1 \in At("tool/result")' /\ log'[Len(log) + 1].call = c
      BY <1>4, <1>5, <1>6
    <3> QED BY <2>1, <2>2, <3>1
  <2>3. CASE j # c
    <3>1. j <= c => \E p \in At("tool/result") : log[p].call = j
      BY <1>1, <1>2, <2>3, SMTT(30) DEF LogShape, Complete
    <3> QED BY <1>5, <1>6, <1>7, <2>1, <3>1
  <2> QED BY <2>2, <2>3
<1>13. ResultsOrdered'
  <2>1. ASSUME NEW p \in At("tool/result")
        PROVE  /\ log'[p] = log[p] /\ log[p].cites \in At("tool/call")
               /\ log[p].cites < p /\ log'[log[p].cites] = log[log[p].cites]
               /\ log[log[p].cites].call = log[p].call
               /\ p < Len(log) + 1 /\ log[p].call < c
    BY <1>1, <1>2, <1>5, <1>7, SMTT(30) DEF LogShape, ResultsOrdered
  <2>2. /\ log'[Len(log) + 1].call = c /\ log'[Len(log) + 1].cites = callSeq[c]
        /\ log'[callSeq[c]].call = c /\ callSeq[c] < Len(log) + 1
    BY <1>4, <1>5, <1>8
  <2>3. ASSUME NEW p \in At("tool/result")', NEW q \in At("tool/result")', p < q
        PROVE  log'[p].call < log'[q].call
    BY <1>5, <1>6, <1>7, <2>1, <2>2, <2>3 DEF LogShape, ResultsOrdered
  <2>4. ASSUME NEW p \in At("tool/result")'
        PROVE  /\ log'[p].cites \in At("tool/call")' /\ log'[p].cites < p
               /\ log'[log'[p].cites].call = log'[p].call
    BY <1>6, <1>8, <2>1, <2>2
  <2> QED BY <2>3, <2>4 DEF ResultsOrdered
<1> QED BY <1>9, <1>10, <1>11, <1>12, <1>13 DEF LogShape

(* Positions come in pairs. *)
LEMMA Halves ==
  ASSUME NEW m \in Nat
  PROVE  /\ \A h \in 1..m : /\ 2 * h - 1 \in 1..(2 * m) /\ 2 * h \in 1..(2 * m)
                            /\ (2 * h - 1) % 2 = 1 /\ (2 * h - 1 + 1) \div 2 = h
                            /\ (2 * h) % 2 # 1 /\ (2 * h + 1) \div 2 = h
         /\ \A k \in 1..(2 * m) : \E h \in 1..m : k = 2 * h - 1 \/ k = 2 * h
<1>1. ASSUME NEW h \in 1..m
      PROVE  /\ 2 * h - 1 \in 1..(2 * m) /\ 2 * h \in 1..(2 * m)
             /\ (2 * h - 1) % 2 = 1 /\ (2 * h - 1 + 1) \div 2 = h
             /\ (2 * h) % 2 # 1 /\ (2 * h + 1) \div 2 = h
  BY SMT
<1>2. ASSUME NEW k \in 1..(2 * m)
      PROVE  \E h \in 1..m : k = 2 * h - 1 \/ k = 2 * h
  <2>1. (k + 1) \div 2 \in 1..m
    BY SMT
  <2>2. k = 2 * ((k + 1) \div 2) - 1 \/ k = 2 * ((k + 1) \div 2)
    BY SMT
  <2> QED BY <2>1, <2>2
<1> QED BY <1>1, <1>2

(* What skipRest appends: the record of a call, then its result. *)
LEMMA SkippedAt ==
  ASSUME log \in Seq(EventType), NEW from \in 0..Calls,
         log' = log \o SkippedPairs(from)
  PROVE  /\ Len(log) \in Nat /\ DOMAIN log = 1..Len(log)
         /\ DOMAIN log' = 1..(Len(log) + 2 * (Calls - from))
         /\ \A p \in 1..Len(log) : log'[p] = log[p]
         /\ \A h \in 1..(Calls - from) :
              /\ log'[Len(log) + 2 * h - 1] = CallEvent(from + h)
              /\ log'[Len(log) + 2 * h] =
                   ResultEvent(from + h, Len(log) + 2 * h - 1, "skipped")
<1> DEFINE n == Len(log)
           m == Calls - from
           s == SkippedPairs(from)
<1>1. n \in Nat /\ m \in Nat /\ from \in Nat
  BY CallsAssumption
<1>2. s \in Seq(EventType) /\ Len(s) = 2 * m
  BY SkippedTyped
<1>3. ASSUME NEW h \in 1..m
      PROVE  /\ s[2 * h - 1] = CallEvent(from + h)
             /\ s[2 * h] = ResultEvent(from + h, n + 2 * h - 1, "skipped")
  <2>1. /\ 2 * h - 1 \in 1..(2 * m) /\ 2 * h \in 1..(2 * m)
        /\ (2 * h - 1) % 2 = 1 /\ (2 * h - 1 + 1) \div 2 = h
        /\ (2 * h) % 2 # 1 /\ (2 * h + 1) \div 2 = h
    BY <1>1, Halves
  <2> QED BY <2>1 DEF SkippedPairs
<1> HIDE DEF s
<1>4. DOMAIN log = 1..n /\ DOMAIN log' = 1..(n + 2 * m)
      /\ \A p \in 1..n : log'[p] = log[p]
  BY <1>1, <1>2 DEF s
<1>5. ASSUME NEW k \in 1..(2 * m) PROVE log'[n + k] = s[k]
  BY <1>1, <1>2, <1>5 DEF s
<1>6. ASSUME NEW h \in 1..m
      PROVE  /\ log'[n + 2 * h - 1] = s[2 * h - 1]
             /\ log'[n + 2 * h] = s[2 * h]
  <2>1. 2 * h - 1 \in 1..(2 * m) /\ 2 * h \in 1..(2 * m)
    BY <1>1, Halves
  <2>2. n + (2 * h - 1) = n + 2 * h - 1
    BY <1>1
  <2> QED BY <1>5, <2>1, <2>2
<1> QED BY <1>1, <1>3, <1>4, <1>6

LEMMA SkippingShape ==
  ASSUME Structure, LogShape, Skipping
  PROVE  LogShape'
<1> USE CallsAssumption DEF Call
<1> DEFINE n == Len(log)
           from == sched.started
           m == Calls - from
<1>1. /\ log \in Seq(EventType) /\ from \in 0..Calls /\ from \in Nat /\ m \in Nat
      /\ Calls = from + m /\ callSeq \in [1..Calls -> Nat]
  BY DEF Structure, TypeOK
<1>2. /\ log' = log \o SkippedPairs(from) /\ callSeq' = callSeq
      /\ sched.pc # "done" /\ sched.committed = from
      /\ sched'.pc = "done" /\ sched'.started = from /\ sched'.committed = from
  BY DEF Skipping
<1>3. /\ n \in Nat /\ DOMAIN log = 1..n /\ DOMAIN log' = 1..(n + 2 * m)
      /\ \A p \in 1..n : log'[p] = log[p]
      /\ \A h \in 1..m :
           /\ log'[n + 2 * h - 1] = CallEvent(from + h)
           /\ log'[n + 2 * h] = ResultEvent(from + h, n + 2 * h - 1, "skipped")
  BY <1>1, <1>2, SkippedAt
<1> HIDE DEF n, from, m
<1>4. ASSUME NEW h \in 1..m
      PROVE  /\ log'[n + 2 * h - 1].type = "tool/call"
             /\ log'[n + 2 * h - 1].call = from + h
             /\ log'[n + 2 * h].type = "tool/result"
             /\ log'[n + 2 * h].call = from + h
             /\ log'[n + 2 * h].cites = n + 2 * h - 1
             /\ n + 2 * h - 1 \in DOMAIN log' /\ n + 2 * h \in DOMAIN log'
  <2>1. n + 2 * h - 1 \in DOMAIN log' /\ n + 2 * h \in DOMAIN log'
    BY <1>1, <1>3
  <2>2. /\ CallEvent(from + h).type = "tool/call" /\ CallEvent(from + h).call = from + h
    BY DEF CallEvent, Event
  <2>3. \A cites : LET r == ResultEvent(from + h, cites, "skipped")
                  IN  r.type = "tool/result" /\ r.call = from + h /\ r.cites = cites
    BY DEF ResultEvent, Event
  <2> QED BY <1>3, <2>1, <2>2, <2>3
<1>5. ASSUME NEW p \in DOMAIN log', p \notin 1..n
      PROVE  \E h \in 1..m : p = n + 2 * h - 1 \/ p = n + 2 * h
  <2>1. p - n \in 1..(2 * m)
    BY <1>1, <1>3, <1>5
  <2>2. PICK h \in 1..m : p - n = 2 * h - 1 \/ p - n = 2 * h
    BY <1>1, <2>1, Halves
  <2>3. p \in Nat /\ n \in Nat /\ h \in Nat
    BY <1>3
  <2>4. p = n + 2 * h - 1 \/ p = n + 2 * h
    BY <2>2, <2>3
  <2> QED BY <2>4
<1>6. /\ \A p \in At("tool/call")' :
            \/ p \in At("tool/call") /\ p \in 1..n /\ log'[p] = log[p]
            \/ \E h \in 1..m : p = n + 2 * h - 1 /\ log'[p].call = from + h
      /\ \A p \in At("tool/result")' :
            \/ p \in At("tool/result") /\ p \in 1..n /\ log'[p] = log[p]
            \/ \E h \in 1..m : /\ p = n + 2 * h /\ log'[p].call = from + h
                              /\ log'[p].cites = n + 2 * h - 1
  BY <1>3, <1>4, <1>5 DEF At
<1>7. /\ \A p \in At("tool/call") :
            p \in 1..n /\ p \in At("tool/call")' /\ log[p].call \in 1..from
      /\ \A p \in At("tool/result") :
            p \in 1..n /\ p \in At("tool/result")' /\ log[p].call \in 1..from
  BY <1>1, <1>2, <1>3 DEF At, LogShape, Bounded, from
<1>8. Recorded'
  BY <1>1, <1>2, <1>3 DEF LogShape, Recorded, from
<1>9. Bounded'
  BY <1>2 DEF Bounded
<1>10. CallsUnique'
  <2> SUFFICES ASSUME NEW p \in At("tool/call")', NEW q \in At("tool/call")',
                      log'[p].call = log'[q].call
               PROVE  p = q
    BY DEF CallsUnique
  <2>1. CASE p \in At("tool/call") /\ q \in At("tool/call")
    BY <1>3, <1>7, <2>1 DEF LogShape, CallsUnique
  <2>2. ASSUME NEW r \in At("tool/call")', r \notin At("tool/call")
        PROVE  \E h \in 1..m : r = n + 2 * h - 1 /\ log'[r].call = from + h
    BY <1>6, <2>2
  <2>3. ASSUME NEW r \in At("tool/call") PROVE log'[r].call \in 1..from
    BY <1>3, <1>7
  <2>4. CASE p \notin At("tool/call") /\ q \notin At("tool/call")
    BY <1>1, <1>3, <2>2, <2>4
  <2>5. CASE ~(p \in At("tool/call") <=> q \in At("tool/call"))
    BY <1>1, <2>2, <2>3, <2>5
  <2> QED BY <2>1, <2>4, <2>5
<1>11. Complete'
  <2> SUFFICES ASSUME NEW j \in 1..Calls
               PROVE  /\ \E p \in At("tool/call")' : log'[p].call = j
                      /\ \E p \in At("tool/result")' : log'[p].call = j
    BY <1>2 DEF Complete
  <2>1. CASE j <= from
    <3>1. /\ \E p \in At("tool/call") : log[p].call = j
          /\ \E p \in At("tool/result") : log[p].call = j
      BY <1>2, <2>1 DEF LogShape, Complete, from
    <3> QED BY <1>3, <1>7, <3>1
  <2>2. CASE j > from
    <3>1. PICK h \in 1..m : j = from + h
      BY <1>1, <2>2
    <3>2. n + 2 * h - 1 \in At("tool/call")' /\ n + 2 * h \in At("tool/result")'
      BY <1>4 DEF At
    <3> QED BY <1>4, <3>1, <3>2
  <2> QED BY <1>1, <2>1, <2>2
<1>12. ResultsOrdered'
  <2>1. ASSUME NEW p \in At("tool/result")', NEW q \in At("tool/result")', p < q
        PROVE  log'[p].call < log'[q].call
    <3>1. CASE p \in At("tool/result") /\ q \in At("tool/result")
      BY <1>3, <1>7, <2>1, <3>1 DEF LogShape, ResultsOrdered
    <3>2. CASE ~(p \in At("tool/result") /\ q \in At("tool/result"))
      BY <1>1, <1>3, <1>6, <1>7, <2>1, <3>2
    <3> QED BY <3>1, <3>2
  <2>2. ASSUME NEW p \in At("tool/result")'
        PROVE  /\ log'[p].cites \in At("tool/call")' /\ log'[p].cites < p
               /\ log'[log'[p].cites].call = log'[p].call
    <3>1. CASE p \in At("tool/result") /\ log'[p] = log[p]
      <4>1. /\ log[p].cites \in At("tool/call") /\ log[p].cites < p
            /\ log[log[p].cites].call = log[p].call
        BY <3>1 DEF LogShape, ResultsOrdered
      <4> QED BY <1>3, <1>7, <3>1, <4>1
    <3>2. ASSUME NEW h \in 1..m, p = n + 2 * h,
                 log'[p].call = from + h, log'[p].cites = n + 2 * h - 1
          PROVE  /\ log'[p].cites \in At("tool/call")' /\ log'[p].cites < p
                 /\ log'[log'[p].cites].call = log'[p].call
      <4>1. n + 2 * h - 1 \in At("tool/call")'
        BY <1>4 DEF At
      <4> QED BY <1>1, <1>3, <1>4, <3>2, <4>1
    <3> QED BY <1>6, <3>1, <3>2
  <2> QED BY <2>1, <2>2 DEF ResultsOrdered
<1> QED BY <1>8, <1>9, <1>10, <1>11, <1>12 DEF LogShape

-----------------------------------------------------------------------------
(* Started calls are recorded, committed ones answered, in model order. *)
THEOREM LogInvariant == Spec => [](Structure /\ LogShape)
<1>1. Init => Structure /\ LogShape
  BY InitStructure, InitShape
<1>2. Structure /\ LogShape /\ [Next]_vars => (Structure /\ LogShape)'
  BY NextStructure, StepKinds, QuietShape, StartingShape, CommittingShape,
     SkippingShape
<1> QED BY <1>1, <1>2, PTL DEF Spec

(* Calls overlap and settle in any order, are denied or are skipped; their
   results are recorded in the model's order, each citing its own call. *)
THEOREM ResultsInModelOrder == Spec => []ResultsOrdered
<1>1. LogShape => ResultsOrdered
  BY DEF LogShape
<1> QED BY <1>1, LogInvariant, PTL

(* When executeToolCalls returns, cancelled or not, every call of the message
   has exactly one record and exactly one result. *)
THEOREM EveryCallAnswered == Spec => []AllAnswered
<1>1. Structure /\ LogShape => AllAnswered
  <2> SUFFICES ASSUME Structure, LogShape, sched.pc = "done", NEW i \in Call,
                      NEW type \in {"tool/call", "tool/result"}
               PROVE  Cardinality({p \in At(type) : log[p].call = i}) = 1
    BY DEF AllAnswered
  <2>1. PICK x \in At(type) : log[x].call = i
    BY DEF LogShape, Complete
  <2>2. ASSUME NEW p \in At(type), log[p].call = i PROVE p = x
    <3>1. CASE type = "tool/call"
      BY <2>1, <2>2, <3>1 DEF LogShape, CallsUnique
    <3>2. CASE type = "tool/result"
      <4>1. p \in Nat /\ x \in Nat /\ i \in Nat
        BY <2>1 DEF At, Structure, TypeOK, Call
      <4>2. ~(p < x) /\ ~(x < p)
        BY <2>1, <2>2, <3>2, <4>1 DEF LogShape, ResultsOrdered
      <4> QED BY <4>1, <4>2
    <3> QED BY <3>1, <3>2
  <2>3. {p \in At(type) : log[p].call = i} = {x}
    BY <2>1, <2>2
  <2> QED BY <2>3, FS_Singleton
<1> QED BY <1>1, LogInvariant, PTL
=============================================================================
