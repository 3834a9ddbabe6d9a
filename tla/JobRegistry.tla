---------------------------- MODULE JobRegistry ----------------------------
(***************************************************************************)
(* Background jobs: the in-memory registry (jobs-local), its users in      *)
(* tool-jobs, which announces completions and offers job_output and        *)
(* job_kill, the producers behind the jobs and the agents that own them.   *)
(*                                                                         *)
(* A job ends when its producer's promise settles, or when cancelling it   *)
(* during a teardown throws.  Its owner hears of the end in one of four    *)
(* ways: a caller waits for it, a caller asked for it by killing the job,  *)
(* the owner is going away and needs no word, or a notice is delivered.    *)
(* The registry is synchronous between its awaits, so a step is one call   *)
(* or one continuation.                                                    *)
(***************************************************************************)
EXTENDS Integers, FiniteSets

CONSTANTS
  Owner,    \* agents that own jobs
  Waiter,   \* callers of wait(), one wait each
  None,     \* the owner of an unowned job, the job of an idle waiter
  MaxJobs,  \* how many jobs there will be (bound)
  Limit     \* maxConcurrentJobsPerOwner

ASSUME WaiterAssumption == IsFiniteSet(Waiter)
ASSUME MaxJobsAssumption == MaxJobs \in Nat
ASSUME LimitAssumption == Limit \in Nat \ {0}

Job == 1..MaxJobs

ASSUME NoneAssumption == None \notin Owner \cup Job

VARIABLES
  job,      \* the record of each job
  waiter,   \* the state of each wait()
  owner,    \* the scope of each owner and what its cleanup waits for
  cleanup,  \* the owners with an attached cleanup (ownerCleanups)
  service   \* the registry itself and what disposeAll waits for

vars == <<job, waiter, owner, cleanup, service>>

(* "settled": the producer's own outcome; "forced": failed by a teardown. *)
Terminal == {"settled", "forced"}
Active == {"running", "stopping"}

(* `stored` is membership of the registry's map, `working` is the producer's;
   `cancelled` remembers that cancel() was requested before the end and
   `announced` counts the notices. *)
Unused == [status |-> "unused", owner |-> None, reported |-> FALSE,
           waiters |-> 0, stored |-> FALSE, working |-> FALSE,
           cancelled |-> FALSE, announced |-> 0]

Idle == [st |-> "idle", job |-> None, joined |-> FALSE, got |-> "nothing"]

Init ==
  /\ job = [j \in Job |-> Unused]
  /\ waiter = [w \in Waiter |-> Idle]
  /\ owner = [o \in Owner |-> [st |-> "live", owned |-> {}]]
  /\ cleanup = {}
  /\ service = [st |-> "up", all |-> {}]

-----------------------------------------------------------------------------
(* Starting a job *)

Live == {o \in Owner : owner[o].st = "live"}

(* Mutants: only running jobs count against the limit; an owner being torn
   down is still admitted. *)
ActiveRunning(o) == {j \in Job : job[j].owner = o /\ job[j].status = "running"}
AdmitsRegistered(o) == o \in {None} \cup {p \in Owner : owner[p].st # "gone"}

(* activeJobCount *)
ActiveJobs(o) == {j \in Job : job[j].owner = o /\ job[j].status \in Active}

(* ensureOwnerCleanup: the owner is registered until its scope is disposed,
   and a scope under disposal takes no new effect. *)
Admits(o) == o \in {None} \cup cleanup \cup Live

Start(j, o) ==
  /\ service.st = "up"
  /\ job[j].status = "unused"
  /\ \A i \in 1..(j - 1) : job[i].status # "unused"
  /\ Admits(o)
  /\ Cardinality(ActiveJobs(o)) < Limit
  /\ job' = [job EXCEPT ![j] = [Unused EXCEPT !.status = "running", !.owner = o,
                                              !.stored = TRUE, !.working = TRUE]]
  /\ cleanup' = IF o = None THEN cleanup ELSE cleanup \cup {o}
  /\ UNCHANGED <<waiter, owner, service>>

-----------------------------------------------------------------------------
(* Settlement *)

Over(r) == r.status \in Terminal

(* settle: the first outcome is recorded; waits that are counted claim the
   report; tool-jobs hears of the end last and delivers a notice unless the
   end is already reported or nobody owns the job. *)
Settled(r, status, listening) ==
  IF Over(r) THEN r
  ELSE LET reported == r.reported \/ r.waiters > 0
       IN  [r EXCEPT !.status = status,
                     !.reported = reported,
                     !.announced = IF listening /\ ~reported /\ r.owner # None
                                   THEN @ + 1 ELSE @]

(* ... and it resolves every wait that still has its resolver registered. *)
Released(jobs) ==
  [w \in Waiter |-> IF waiter[w].st = "waiting" /\ waiter[w].job \in jobs
                    THEN [waiter[w] EXCEPT !.st = "resolved"]
                    ELSE waiter[w]]

ProducerSettles(j) ==
  /\ job[j].working
  /\ job' = [job EXCEPT ![j] = [Settled(job[j], "settled", service.st = "up")
                                  EXCEPT !.working = FALSE]]
  /\ waiter' = Released({j})
  /\ UNCHANGED <<owner, cleanup, service>>

(* The owner's tools reach a job as long as its scope lives. *)
CanCall(j) ==
  /\ job[j].stored
  /\ service.st = "up"
  /\ job[j].owner \in Live \cup {None}

(* kill of a job that is not over.  A cancel that throws changes nothing. *)
Kill(j) ==
  /\ CanCall(j)
  /\ job[j].status \in Active
  /\ job' = [job EXCEPT ![j].status = "stopping", ![j].reported = TRUE,
                        ![j].cancelled = TRUE]
  /\ UNCHANGED <<waiter, owner, cleanup, service>>

(* read, or kill, of a job that is over. *)
Collect(j) ==
  /\ CanCall(j)
  /\ Over(job[j])
  /\ job' = [job EXCEPT ![j].reported = TRUE]
  /\ UNCHANGED <<waiter, owner, cleanup, service>>

-----------------------------------------------------------------------------
(* wait() *)

WaitCall(w, j) ==
  /\ CanCall(j)
  /\ waiter[w].st = "idle"
  /\ IF Over(job[j])
     THEN /\ job' = [job EXCEPT ![j].reported = TRUE]
          /\ waiter' = [waiter EXCEPT ![w] = [st |-> "returned", job |-> j,
                                              joined |-> FALSE, got |-> "end"]]
     ELSE /\ job' = [job EXCEPT ![j].waiters = @ + 1]
          /\ waiter' = [waiter EXCEPT ![w] = [st |-> "waiting", job |-> j,
                                              joined |-> TRUE, got |-> "nothing"]]
  /\ UNCHANGED <<owner, cleanup, service>>

(* The deadline resolves the wait and leaves it counted until it resumes. *)
WaitTimeout(w) ==
  /\ waiter[w].st = "waiting"
  /\ waiter' = [waiter EXCEPT ![w].st = "resolved"]
  /\ UNCHANGED <<job, owner, cleanup, service>>

(* Mutants: an aborted wait stays counted, or is uncounted again by finally. *)
StillCounted(n) == n
UncountedTwice(n) == n - 2
Uncount(n) == n - 1

(* The caller's abort rejects the wait and uncounts it in the same breath. *)
WaitAbort(w) ==
  /\ waiter[w].st = "waiting"
  /\ waiter' = [waiter EXCEPT ![w].st = "rejected"]
  /\ job' = [job EXCEPT ![waiter[w].job].waiters = Uncount(@)]
  /\ UNCHANGED <<owner, cleanup, service>>

WaitReturns(w) ==
  LET j == waiter[w].job
  IN  /\ waiter[w].st = "resolved"
      /\ waiter' = [waiter EXCEPT ![w].st = "returned",
                                  ![w].got = IF Over(job[j]) THEN "end" ELSE "live"]
      /\ job' = [job EXCEPT ![j].waiters = @ - 1, ![j].reported = @ \/ Over(job[j])]
      /\ UNCHANGED <<owner, cleanup, service>>

-----------------------------------------------------------------------------
(* Teardown *)

(* Mutant: a cancel that throws leaves the record as it was. *)
LeftRunning(r) == [r EXCEPT !.reported = TRUE, !.cancelled = TRUE]

(* Listeners stay silent about a forced end: it is reported beforehand. *)
ForceFailed(r) ==
  Settled([r EXCEPT !.reported = TRUE, !.cancelled = TRUE], "forced", TRUE)

(* cancelForTeardown: `throwing` are the jobs whose cancel throws. *)
CancelForTeardown(jobs, throwing) ==
  [j \in Job |->
     CASE j \notin jobs \/ Over(job[j]) -> job[j]
       [] j \in jobs \ throwing /\ ~Over(job[j]) ->
            [job[j] EXCEPT !.status = "stopping", !.reported = TRUE,
                           !.cancelled = TRUE]
       [] j \in jobs \cap throwing /\ ~Over(job[j]) -> ForceFailed(job[j])]

Drop(jobs) ==
  [j \in Job |-> IF j \in jobs THEN [job[j] EXCEPT !.stored = FALSE] ELSE job[j]]

Stored(o) == {j \in Job : job[j].stored /\ job[j].owner = o}

(* The agent has cancelled its turn and waited for it: none of its tool calls
   is left in wait().  Its scope begins to unload. *)
OwnerCloses(o) ==
  /\ owner[o].st = "live"
  /\ \A w \in Waiter :
       waiter[w].st \in {"waiting", "resolved"} => job[waiter[w].job].owner # o
  /\ owner' = [owner EXCEPT ![o].st = "closing"]
  /\ UNCHANGED <<job, waiter, cleanup, service>>

(* The attached cleanup runs, disposeOwned up to its await; without one there
   is nothing to clean. *)
OwnerCleanup(o) ==
  /\ owner[o].st = "closing"
  /\ IF o \in cleanup
     THEN \E throwing \in SUBSET Stored(o) :
            /\ job' = CancelForTeardown(Stored(o), throwing)
            /\ waiter' = Released({j \in throwing : ~Over(job[j])})
            /\ owner' = [owner EXCEPT ![o] = [st |-> "draining", owned |-> Stored(o)]]
            /\ cleanup' = cleanup \ {o}
     ELSE /\ owner' = [owner EXCEPT ![o].st = "gone"]
          /\ UNCHANGED <<job, waiter, cleanup>>
  /\ UNCHANGED service

(* All its jobs have settled: their records go. *)
OwnerDrained(o) ==
  /\ owner[o].st = "draining"
  /\ \A j \in owner[o].owned : Over(job[j])
  /\ job' = Drop(owner[o].owned)
  /\ owner' = [owner EXCEPT ![o] = [st |-> "gone", owned |-> {}]]
  /\ UNCHANGED <<waiter, cleanup, service>>

(* disposeAll up to its await.  The controllers that admit new work depend on
   the service and are unloaded with it. *)
ServiceCloses ==
  LET all == {j \in Job : job[j].stored}
  IN  /\ service.st = "up"
      /\ \E throwing \in SUBSET all :
           /\ job' = CancelForTeardown(all, throwing)
           /\ waiter' = Released({j \in throwing : ~Over(job[j])})
      /\ service' = [st |-> "closing", all |-> all]
      /\ UNCHANGED <<owner, cleanup>>

(* ... and from there: the map is emptied, and the owners' effects are
   detached; their disposeOwned finds nothing. *)
ServiceDrained ==
  /\ service.st = "closing"
  /\ \A j \in service.all : Over(job[j])
  /\ job' = Drop(Job)
  /\ cleanup' = {}
  /\ service' = [st |-> "closed", all |-> {}]
  /\ UNCHANGED <<waiter, owner>>

-----------------------------------------------------------------------------
Next ==
  \/ \E j \in Job, o \in Owner \cup {None} : Start(j, o)
  \/ \E j \in Job : ProducerSettles(j) \/ Kill(j) \/ Collect(j)
  \/ \E w \in Waiter, j \in Job : WaitCall(w, j)
  \/ \E w \in Waiter : WaitTimeout(w) \/ WaitAbort(w) \/ WaitReturns(w)
  \/ \E o \in Owner : OwnerCloses(o) \/ OwnerCleanup(o) \/ OwnerDrained(o)
  \/ ServiceCloses
  \/ ServiceDrained

Spec == Init /\ [][Next]_vars

(* A producer whose cancel() returned settles in the end: its contract.  What
   the registry queued on a promise runs. *)
CancelledSettles(j) == job[j].status = "stopping" /\ ProducerSettles(j)

Fairness ==
  /\ \A j \in Job : WF_vars(CancelledSettles(j))
  /\ \A o \in Owner : WF_vars(OwnerCleanup(o)) /\ WF_vars(OwnerDrained(o))
  /\ WF_vars(ServiceDrained)

FairSpec == Spec /\ Fairness

-----------------------------------------------------------------------------
(* The variables have their types, and the waiter count of a job is the number
   of waits that joined it while it lived and have not resumed or aborted. *)
TypeOK ==
  /\ job \in [Job -> [status : {"unused"} \cup Active \cup Terminal,
                      owner : Owner \cup {None}, reported : BOOLEAN,
                      waiters : Nat, stored : BOOLEAN, working : BOOLEAN,
                      cancelled : BOOLEAN, announced : Nat]]
  /\ waiter \in [Waiter -> [st : {"idle", "waiting", "resolved", "rejected", "returned"},
                            job : Job \cup {None}, joined : BOOLEAN,
                            got : {"nothing", "live", "end"}]]
  /\ owner \in [Owner -> [st : {"live", "closing", "draining", "gone"},
                          owned : SUBSET Job]]
  /\ cleanup \subseteq Owner
  /\ service \in [st : {"up", "closing", "closed"}, all : SUBSET Job]
  /\ \A j \in Job :
       job[j].waiters = Cardinality({w \in Waiter : waiter[w].job = j /\
                                       waiter[w].st \in {"waiting", "resolved"}})

(* A wait that joined the live job and that returned, or is due to return, its
   end. *)
Served(j) ==
  \E w \in Waiter : /\ waiter[w].job = j
                    /\ waiter[w].joined
                    /\ waiter[w].st = "resolved" \/ waiter[w].got = "end"

(* The end of an owned job is told exactly once by the registry: by one notice
   (jobs-local settle, tool-jobs onJobDone) unless cancelling it was asked for
   or a wait returns it.  A wait that timed out or was aborted in the same tick
   neither swallows the notice nor doubles it; a late outcome adds none. *)
NoticesExact ==
  \A j \in Job : Over(job[j]) /\ job[j].owner # None =>
    job[j].announced = IF job[j].cancelled \/ Served(j) THEN 0 ELSE 1

(* No owner, and not the bucket of unowned jobs, ever has more unfinished work
   than the limit, stopping work included. *)
ActiveBound ==
  \A o \in Owner \cup {None} :
    Cardinality({j \in Job : job[j].owner = o /\ job[j].working
                             /\ job[j].status # "forced"}) <= Limit

(* Once an owner is gone, or the service closed, its jobs are over and have
   left the registry: no start slips in while a teardown waits. *)
NothingLeftBehind ==
  \A j \in Job :
    /\ job[j].status # "unused"
    /\ service.st = "closed" \/ (job[j].owner # None /\ owner[job[j].owner].st = "gone")
    => Over(job[j]) /\ ~job[j].stored

(* Teardowns end although a cancel may throw and its producer never settle:
   the owner's scope, which an agent's disposal awaits, and the service. *)
TeardownEnds ==
  /\ \A o \in Owner : (owner[o].st = "closing") ~> (owner[o].st = "gone")
  /\ (service.st = "closing") ~> (service.st = "closed")
=============================================================================
