------------------------- MODULE JobRegistryProofs -------------------------
(***************************************************************************)
(* Theorems about JobRegistry for every set of owners and of waits, every  *)
(* number of jobs and every limit.                                         *)
(***************************************************************************)
EXTENDS JobRegistry, FiniteSetTheorems, TLAPS

JobRecord == [status : {"unused"} \cup Active \cup Terminal,
              owner : Owner \cup {None}, reported : BOOLEAN,
              waiters : Nat, stored : BOOLEAN, working : BOOLEAN,
              cancelled : BOOLEAN, announced : Nat]

WaitRecord == [st : {"idle", "waiting", "resolved", "rejected", "returned"},
               job : Job \cup {None}, joined : BOOLEAN,
               got : {"nothing", "live", "end"}]

Types ==
  /\ job \in [Job -> JobRecord]
  /\ waiter \in [Waiter -> WaitRecord]
  /\ owner \in [Owner -> [st : {"live", "closing", "draining", "gone"},
                          owned : SUBSET Job]]
  /\ cleanup \subseteq Owner
  /\ service \in [st : {"up", "closing", "closed"}, all : SUBSET Job]

(* The waits that joined job j and have neither resumed nor aborted. *)
Pending(j) == {w \in Waiter : waiter[w].job = j /\
                              waiter[w].st \in {"waiting", "resolved"}}

Counted == \A j \in Job : job[j].waiters = Cardinality(Pending(j))

(* A wait still to be resolved joined a job that is not over; one that
   returned the end of the job it joined, a job that is. *)
WaitsOK ==
  \A w \in Waiter :
    /\ waiter[w].st \in {"waiting", "resolved"}
         => waiter[w].joined /\ waiter[w].job \in Job
    /\ waiter[w].st # "returned" => waiter[w].got = "nothing"
    /\ waiter[w].st = "waiting" => ~Over(job[waiter[w].job])
    /\ waiter[w].got = "end" => waiter[w].job \in Job /\ Over(job[waiter[w].job])

(* A job that is not over is unannounced, and reported only if its cancel was
   requested; only a job that is over may have left the registry. *)
RecordOK(r) ==
  /\ r.status = "unused" => /\ ~r.stored /\ ~r.working /\ r.waiters = 0
                            /\ ~r.reported /\ ~r.cancelled
  /\ ~Over(r) => r.announced = 0 /\ r.reported = r.cancelled
  /\ r.working /\ r.status # "forced" => r.status \in Active
  /\ r.status # "unused" /\ ~r.stored => Over(r)

RecordsOK == \A j \in Job : RecordOK(job[j])

(* A stored job has an owner whose cleanup is attached or under way, and a
   teardown that waits waits for every stored job that is its own. *)
TeardownsOK ==
  /\ \A o \in cleanup : owner[o].st \in {"live", "closing"}
  /\ \A j \in Job : job[j].stored =>
       /\ job[j].owner # None =>
            job[j].owner \in cleanup \/ owner[job[j].owner].st = "draining"
       /\ job[j].owner # None /\ owner[job[j].owner].st = "draining"
            => j \in owner[job[j].owner].owned
       /\ service.st = "closing" => j \in service.all
       /\ service.st # "closed"
  /\ \A j \in Job : service.st # "up" /\ job[j].status \in Active => job[j].cancelled

(* TypeOK is the types and the count of pending waits. *)
LEMMA TypeOKParts == TypeOK <=> Types /\ Counted
BY DEF TypeOK, Types, Counted, Pending, JobRecord, WaitRecord

USE DEF Active, Terminal, Over

-----------------------------------------------------------------------------
(* What a step does to the records *)

(* A settlement ends a job that is not over yet and touches nothing else
   than its status, its report and its notices. *)
LEMMA SettledEffect ==
  ASSUME NEW r \in JobRecord, NEW status \in Terminal, NEW listening \in BOOLEAN
  PROVE  LET s == Settled(r, status, listening)
         IN  /\ s \in JobRecord
             /\ s.owner = r.owner /\ s.waiters = r.waiters /\ s.stored = r.stored
             /\ s.working = r.working /\ s.cancelled = r.cancelled
             /\ Over(r) => s = r
             /\ ~Over(r) =>
                  /\ s.status = status
                  /\ s.reported = (r.reported \/ r.waiters > 0)
                  /\ s.announced = IF listening /\ ~s.reported /\ r.owner # None
                                   THEN r.announced + 1 ELSE r.announced
<1> DEFINE reported == r.reported \/ r.waiters > 0
           announced == IF listening /\ ~reported /\ r.owner # None
                        THEN r.announced + 1 ELSE r.announced
<1>1. CASE Over(r)
  BY <1>1 DEF Settled
<1>2. CASE ~Over(r)
  <2>1. reported \in BOOLEAN /\ announced \in Nat
    BY DEF JobRecord
  <2>2. Settled(r, status, listening) =
          [r EXCEPT !.status = status, !.reported = reported, !.announced = announced]
    BY <1>2 DEF Settled
  <2> HIDE DEF reported, announced
  <2>3. \A s : s = [r EXCEPT !.status = status, !.reported = reported,
                             !.announced = announced]
           => /\ s \in JobRecord
              /\ s.owner = r.owner /\ s.waiters = r.waiters /\ s.stored = r.stored
              /\ s.working = r.working /\ s.cancelled = r.cancelled
              /\ s.status = status /\ s.reported = reported /\ s.announced = announced
    BY <2>1 DEF JobRecord
  <2> QED BY <1>2, <2>2, <2>3 DEF reported, announced
<1> QED BY <1>1, <1>2

Stopped(r) == [r EXCEPT !.status = "stopping", !.reported = TRUE,
                        !.cancelled = TRUE]

(* A cancel that returns, by a caller or by a teardown. *)
LEMMA StoppedEffect ==
  ASSUME NEW r \in JobRecord
  PROVE  LET s == Stopped(r)
         IN  /\ s \in JobRecord
             /\ s.owner = r.owner /\ s.waiters = r.waiters /\ s.stored = r.stored
             /\ s.working = r.working /\ s.announced = r.announced
             /\ s.status = "stopping" /\ s.reported /\ s.cancelled
BY DEF Stopped, JobRecord

(* A teardown's cancel that throws. *)
LEMMA ForceFailedEffect ==
  ASSUME NEW r \in JobRecord, ~Over(r)
  PROVE  LET s == ForceFailed(r)
         IN  /\ s \in JobRecord
             /\ s.owner = r.owner /\ s.waiters = r.waiters /\ s.stored = r.stored
             /\ s.working = r.working /\ s.announced = r.announced
             /\ s.status = "forced" /\ s.reported /\ s.cancelled
<1> DEFINE q == [r EXCEPT !.reported = TRUE, !.cancelled = TRUE]
<1>1. /\ q \in JobRecord /\ q.status = r.status
      /\ q.owner = r.owner /\ q.waiters = r.waiters /\ q.stored = r.stored
      /\ q.working = r.working /\ q.announced = r.announced
      /\ q.reported /\ q.cancelled
  BY DEF JobRecord
<1>2. ForceFailed(r) = Settled(q, "forced", TRUE)
  BY DEF ForceFailed
<1> HIDE DEF q
<1>3. ~Over(q)
  BY <1>1
<1> DEFINE s == Settled(q, "forced", TRUE)
<1>4. /\ s \in JobRecord
      /\ s.owner = q.owner /\ s.waiters = q.waiters /\ s.stored = q.stored
      /\ s.working = q.working /\ s.cancelled = q.cancelled /\ s.status = "forced"
      /\ s.reported = (q.reported \/ q.waiters > 0)
      /\ s.announced = IF ~s.reported /\ q.owner # None
                       THEN q.announced + 1 ELSE q.announced
  BY <1>1, <1>3, SettledEffect
<1> HIDE DEF s
<1>5. s.reported /\ s.announced = q.announced
  BY <1>1, <1>4
<1> QED BY <1>1, <1>2, <1>4, <1>5 DEF s

(* How a teardown leaves a record: s is the new one, r the old one. *)
CancelledAs(s, r, included, throws) ==
  /\ s.owner = r.owner /\ s.waiters = r.waiters /\ s.stored = r.stored
  /\ s.working = r.working /\ s.announced = r.announced
  /\ ~included \/ Over(r) => s = r
  /\ included /\ ~Over(r) =>
       /\ s.reported /\ s.cancelled
       /\ s.status = IF throws THEN "forced" ELSE "stopping"

(* A teardown's cancel ends the jobs whose cancel throws, and asks the others
   that are not over to stop. *)
LEMMA CancelEffect ==
  ASSUME Types, NEW jobs \in SUBSET Job, NEW throwing \in SUBSET jobs
  PROVE  LET new == CancelForTeardown(jobs, throwing)
         IN  /\ new \in [Job -> JobRecord]
             /\ \A j \in Job :
                  CancelledAs(new[j], job[j], j \in jobs, j \in throwing)
<1> DEFINE new == CancelForTeardown(jobs, throwing)
<1>1. ASSUME NEW j \in Job
      PROVE  new[j] = IF j \notin jobs \/ Over(job[j]) THEN job[j]
                      ELSE IF j \in throwing THEN ForceFailed(job[j])
                      ELSE Stopped(job[j])
  BY DEF CancelForTeardown, Stopped
<1>2. new = [j \in Job |-> new[j]]
  BY DEF CancelForTeardown
<1> HIDE DEF new
<1> SUFFICES ASSUME NEW j \in Job
             PROVE  /\ new[j] \in JobRecord
                    /\ CancelledAs(new[j], job[j], j \in jobs, j \in throwing)
  <2>1. (\A j \in Job : new[j] \in JobRecord) => new \in [Job -> JobRecord]
    BY <1>2
  <2> QED BY <2>1 DEF new
<1>3. job[j] \in JobRecord
  BY DEF Types
<1>4. CASE j \notin jobs \/ Over(job[j])
  BY <1>1, <1>3, <1>4 DEF CancelledAs
<1>5. CASE j \in jobs \ throwing /\ ~Over(job[j])
  <2>1. new[j] = Stopped(job[j])
    BY <1>1, <1>5
  <2> QED BY <1>3, <1>5, <2>1, StoppedEffect DEF CancelledAs
<1>6. CASE j \in throwing /\ ~Over(job[j])
  <2>1. new[j] = ForceFailed(job[j])
    BY <1>1, <1>6
  <2> QED BY <1>3, <1>6, <2>1, ForceFailedEffect DEF CancelledAs
<1> QED BY <1>4, <1>5, <1>6

(* Releasing resolves the waits for some jobs and nothing else. *)
LEMMA ReleasedEffect ==
  ASSUME Types, NEW jobs \in SUBSET Job
  PROVE  LET new == Released(jobs)
         IN  /\ new \in [Waiter -> WaitRecord]
             /\ \A w \in Waiter :
                  /\ new[w].job = waiter[w].job /\ new[w].joined = waiter[w].joined
                  /\ new[w].got = waiter[w].got
                  /\ new[w].st = IF waiter[w].st = "waiting" /\ waiter[w].job \in jobs
                                 THEN "resolved" ELSE waiter[w].st
BY DEF Released, Types, WaitRecord

(* Dropping takes records out of the registry's map and nothing else. *)
LEMMA DropEffect ==
  ASSUME Types, NEW jobs
  PROVE  LET new == Drop(jobs)
         IN  /\ new \in [Job -> JobRecord]
             /\ \A j \in Job :
                  /\ j \notin jobs => new[j] = job[j]
                  /\ ~new[j].stored \/ new[j].stored = job[j].stored
                  /\ j \in jobs => ~new[j].stored
                  /\ new[j].status = job[j].status /\ new[j].owner = job[j].owner
                  /\ new[j].reported = job[j].reported
                  /\ new[j].waiters = job[j].waiters /\ new[j].working = job[j].working
                  /\ new[j].cancelled = job[j].cancelled
                  /\ new[j].announced = job[j].announced
<1> DEFINE new == Drop(jobs)
           dropped(r) == [r EXCEPT !.stored = FALSE]
<1>1. \A j \in Job : new[j] = IF j \in jobs THEN dropped(job[j]) ELSE job[j]
  BY DEF Drop
<1>2. new = [j \in Job |-> new[j]]
  BY DEF Drop
<1> HIDE DEF new
<1>3. \A r \in JobRecord :
        /\ dropped(r) \in JobRecord
        /\ dropped(r).status = r.status /\ dropped(r).owner = r.owner
        /\ dropped(r).reported = r.reported /\ dropped(r).waiters = r.waiters
        /\ dropped(r).working = r.working /\ dropped(r).cancelled = r.cancelled
        /\ dropped(r).announced = r.announced /\ dropped(r).stored = FALSE
  BY DEF JobRecord
<1> HIDE DEF dropped
<1>4. \A j \in Job : job[j] \in JobRecord
  BY DEF Types
<1>5. \A j \in Job : job[j].stored \in BOOLEAN
  BY <1>4 DEF JobRecord
<1>6. \A j \in Job : new[j] \in JobRecord
  BY <1>1, <1>3, <1>4
<1>7. new \in [Job -> JobRecord]
  BY <1>2, <1>6
<1>8. ASSUME NEW j \in Job, j \in jobs
      PROVE  new[j] = dropped(job[j])
  BY <1>1, <1>8
<1>9. ASSUME NEW j \in Job, j \notin jobs
      PROVE  new[j] = job[j]
  BY <1>1, <1>9
<1>10. ASSUME NEW j \in Job
       PROVE  /\ new[j].status = job[j].status /\ new[j].owner = job[j].owner
              /\ new[j].reported = job[j].reported
              /\ new[j].waiters = job[j].waiters /\ new[j].working = job[j].working
              /\ new[j].cancelled = job[j].cancelled
              /\ new[j].announced = job[j].announced
              /\ ~new[j].stored \/ new[j].stored = job[j].stored
              /\ j \in jobs => ~new[j].stored
  <2>1. CASE j \in jobs
    BY <1>3, <1>4, <1>5, <1>8, <2>1
  <2>2. CASE j \notin jobs
    BY <1>5, <1>9, <2>2
  <2> QED BY <2>1, <2>2
<1> QED BY <1>7, <1>9, <1>10 DEF new

-----------------------------------------------------------------------------
(* What each step does to the records and the waits *)

(* The job of a pending wait is counted. *)
LEMMA PendingCounted ==
  ASSUME Types, Counted, NEW j \in Job
  PROVE  /\ IsFiniteSet(Pending(j))
         /\ job[j].waiters \in Nat
         /\ job[j].waiters > 0 <=> Pending(j) # {}
<1>1. Pending(j) \in SUBSET Waiter
  BY DEF Pending
<1>2. IsFiniteSet(Pending(j))
  BY <1>1, WaiterAssumption, FS_Subset
<1>3. job[j].waiters = Cardinality(Pending(j)) /\ job[j].waiters \in Nat
  BY DEF Counted, Types, JobRecord
<1> QED BY <1>2, <1>3, FS_EmptySet

(* A start makes a fresh running record. *)
LEMMA StartEffect ==
  ASSUME Types, NEW j \in Job, NEW o \in Owner \cup {None}, Start(j, o)
  PROVE  /\ job' \in [Job -> JobRecord]
         /\ \A i \in Job : i # j => job'[i] = job[i]
         /\ job'[j].status = "running" /\ job'[j].owner = o
         /\ ~job'[j].reported /\ ~job'[j].cancelled
         /\ job'[j].waiters = 0 /\ job'[j].announced = 0
         /\ job'[j].stored /\ job'[j].working
<1> DEFINE t == [Unused EXCEPT !.status = "running", !.owner = o,
                              !.stored = TRUE, !.working = TRUE]
<1>1. /\ t \in JobRecord /\ t.status = "running" /\ t.owner = o
      /\ ~t.reported /\ ~t.cancelled /\ t.waiters = 0 /\ t.announced = 0
      /\ t.stored /\ t.working
  BY DEF Unused, JobRecord
<1>2. job' = [job EXCEPT ![j] = t]
  BY DEF Start
<1> HIDE DEF t
<1>3. /\ job' \in [Job -> JobRecord] /\ job'[j] = t
      /\ \A i \in Job : i # j => job'[i] = job[i]
  BY <1>1, <1>2 DEF Types
<1> QED BY <1>1, <1>3

(* A producer's promise settles: the first outcome is recorded. *)
LEMMA SettleEffect ==
  ASSUME Types, NEW j \in Job, ProducerSettles(j)
  PROVE  LET r == job[j]
             s == job'[j]
         IN  /\ job' \in [Job -> JobRecord]
             /\ \A i \in Job : i # j => job'[i] = job[i]
             /\ s.owner = r.owner /\ s.waiters = r.waiters /\ s.stored = r.stored
             /\ ~s.working /\ s.cancelled = r.cancelled
             /\ Over(r) => /\ s.status = r.status /\ s.reported = r.reported
                           /\ s.announced = r.announced
             /\ ~Over(r) =>
                  /\ s.status = "settled"
                  /\ s.reported = (r.reported \/ r.waiters > 0)
                  /\ s.announced = IF service.st = "up" /\ ~s.reported /\ r.owner # None
                                   THEN r.announced + 1 ELSE r.announced
<1> DEFINE s == Settled(job[j], "settled", service.st = "up")
<1>1. job[j] \in JobRecord
  BY DEF Types
<1>2. (service.st = "up") \in BOOLEAN
  OBVIOUS
<1>3. /\ s \in JobRecord
      /\ s.owner = job[j].owner /\ s.waiters = job[j].waiters
      /\ s.stored = job[j].stored /\ s.cancelled = job[j].cancelled
      /\ Over(job[j]) => s = job[j]
      /\ ~Over(job[j]) =>
           /\ s.status = "settled"
           /\ s.reported = (job[j].reported \/ job[j].waiters > 0)
           /\ s.announced = IF service.st = "up" /\ ~s.reported /\ job[j].owner # None
                            THEN job[j].announced + 1 ELSE job[j].announced
  BY <1>1, <1>2, SettledEffect
<1>4. job' = [job EXCEPT ![j] = [s EXCEPT !.working = FALSE]]
  BY DEF ProducerSettles
<1> HIDE DEF s
<1> DEFINE t == [s EXCEPT !.working = FALSE]
<1>5. /\ t \in JobRecord /\ t.owner = s.owner /\ t.waiters = s.waiters
      /\ t.stored = s.stored /\ t.cancelled = s.cancelled /\ t.working = FALSE
      /\ t.status = s.status /\ t.reported = s.reported /\ t.announced = s.announced
  BY <1>3 DEF JobRecord
<1>6. job' = [job EXCEPT ![j] = t]
  BY <1>4
<1> HIDE DEF t
<1>7. /\ job' \in [Job -> JobRecord] /\ job'[j] = t
      /\ \A i \in Job : i # j => job'[i] = job[i]
  BY <1>5, <1>6 DEF Types
<1> QED BY <1>3, <1>5, <1>7

(* A caller's cancel claims the report of the end. *)
LEMMA KillEffect ==
  ASSUME Types, NEW j \in Job, Kill(j)
  PROVE  /\ job' \in [Job -> JobRecord]
         /\ \A i \in Job : i # j => job'[i] = job[i]
         /\ job'[j].owner = job[j].owner /\ job'[j].waiters = job[j].waiters
         /\ job'[j].stored = job[j].stored /\ job'[j].working = job[j].working
         /\ job'[j].announced = job[j].announced
         /\ job'[j].status = "stopping" /\ job'[j].reported /\ job'[j].cancelled
<1>1. job' = [job EXCEPT ![j] = Stopped(job[j])]
  BY DEF Kill, Stopped
<1>2. job[j] \in JobRecord
  BY DEF Types
<1>3. job'[j] = Stopped(job[j]) /\ \A i \in Job : i # j => job'[i] = job[i]
  BY <1>1 DEF Types
<1>4. Stopped(job[j]) \in JobRecord
  BY <1>2, StoppedEffect
<1>5. job' \in [Job -> JobRecord]
  BY <1>1, <1>4 DEF Types
<1> QED BY <1>2, <1>3, <1>5, StoppedEffect

(* A record that is reported and otherwise left alone. *)
ReportedAs(s, r) ==
  /\ s.status = r.status /\ s.owner = r.owner /\ s.waiters = r.waiters
  /\ s.stored = r.stored /\ s.working = r.working
  /\ s.cancelled = r.cancelled /\ s.announced = r.announced
  /\ s.reported

Reported(r) == [r EXCEPT !.reported = TRUE]

(* A read of a job that is over reports it. *)
LEMMA CollectEffect ==
  ASSUME Types, NEW j \in Job, job' = [job EXCEPT ![j] = Reported(job[j])]
  PROVE  /\ job' \in [Job -> JobRecord]
         /\ \A i \in Job : i # j => job'[i] = job[i]
         /\ ReportedAs(job'[j], job[j])
<1>1. \A r \in JobRecord : Reported(r) \in JobRecord /\ ReportedAs(Reported(r), r)
  BY DEF JobRecord, Reported, ReportedAs
<1>2. /\ job' \in [Job -> JobRecord] /\ job'[j] = Reported(job[j])
      /\ \A i \in Job : i # j => job'[i] = job[i]
  BY <1>1 DEF Types
<1>3. job[j] \in JobRecord
  BY DEF Types
<1> QED BY <1>1, <1>2, <1>3

(* A record whose waiter count changes, and perhaps its report. *)
CountedAs(s, r, n) ==
  /\ s.status = r.status /\ s.owner = r.owner /\ s.waiters = n
  /\ s.stored = r.stored /\ s.working = r.working
  /\ s.cancelled = r.cancelled /\ s.announced = r.announced

Recount(r, n, b) == [r EXCEPT !.waiters = n, !.reported = b]

(* Replacing a waiter count and a report touches nothing else. *)
LEMMA RecountEffect ==
  ASSUME NEW r \in JobRecord, NEW n \in Nat, NEW b \in BOOLEAN
  PROVE  /\ Recount(r, n, b) \in JobRecord
         /\ CountedAs(Recount(r, n, b), r, n) /\ Recount(r, n, b).reported = b
BY DEF JobRecord, CountedAs, Recount

(* A wait that joins a live job. *)
LEMMA JoinEffect ==
  ASSUME Types, NEW w \in Waiter, NEW j \in Job, WaitCall(w, j), ~Over(job[j])
  PROVE  /\ job' \in [Job -> JobRecord]
         /\ \A i \in Job : i # j => job'[i] = job[i]
         /\ CountedAs(job'[j], job[j], job[j].waiters + 1)
         /\ job'[j].reported = job[j].reported
         /\ waiter' \in [Waiter -> WaitRecord]
         /\ \A v \in Waiter : v # w => waiter'[v] = waiter[v]
         /\ waiter'[w].st = "waiting" /\ waiter'[w].job = j
         /\ waiter'[w].joined /\ waiter'[w].got = "nothing"
<1> DEFINE t == [job[j] EXCEPT !.waiters = @ + 1]
<1>1. job[j] \in JobRecord
  BY DEF Types
<1>2. /\ t \in JobRecord /\ CountedAs(t, job[j], job[j].waiters + 1)
      /\ t.reported = job[j].reported
  BY <1>1 DEF JobRecord, CountedAs
<1>3. job' = [job EXCEPT ![j] = t]
  BY DEF WaitCall
<1> HIDE DEF t
<1>4. /\ job' \in [Job -> JobRecord] /\ job'[j] = t
      /\ \A i \in Job : i # j => job'[i] = job[i]
  BY <1>2, <1>3 DEF Types
<1>5. waiter' = [waiter EXCEPT ![w] = [st |-> "waiting", job |-> j,
                                       joined |-> TRUE, got |-> "nothing"]]
  BY DEF WaitCall
<1>6. /\ waiter' \in [Waiter -> WaitRecord]
      /\ \A v \in Waiter : v # w => waiter'[v] = waiter[v]
      /\ waiter'[w].st = "waiting" /\ waiter'[w].job = j
      /\ waiter'[w].joined /\ waiter'[w].got = "nothing"
  BY <1>5 DEF Types, WaitRecord
<1> QED BY <1>2, <1>4, <1>6

(* A wait for a job that is over. *)
LEMMA LateCallEffect ==
  ASSUME Types, NEW w \in Waiter, NEW j \in Job, WaitCall(w, j), Over(job[j])
  PROVE  /\ job' \in [Job -> JobRecord]
         /\ \A i \in Job : i # j => job'[i] = job[i]
         /\ ReportedAs(job'[j], job[j])
         /\ waiter' \in [Waiter -> WaitRecord]
         /\ \A v \in Waiter : v # w => waiter'[v] = waiter[v]
         /\ waiter'[w].st = "returned" /\ waiter'[w].job = j
         /\ ~waiter'[w].joined /\ waiter'[w].got = "end"
<1>1. /\ job' = [job EXCEPT ![j] = Reported(job[j])]
      /\ waiter' = [waiter EXCEPT ![w] = [st |-> "returned", job |-> j,
                                         joined |-> FALSE, got |-> "end"]]
  BY DEF WaitCall, Reported
<1>2. /\ waiter' \in [Waiter -> WaitRecord]
      /\ \A v \in Waiter : v # w => waiter'[v] = waiter[v]
      /\ waiter'[w].st = "returned" /\ waiter'[w].job = j
      /\ ~waiter'[w].joined /\ waiter'[w].got = "end"
  BY <1>1 DEF Types, WaitRecord
<1> QED BY <1>1, <1>2, CollectEffect

(* A wait whose deadline passes, or that is aborted: only its state changes. *)
LEMMA WaitStateEffect ==
  ASSUME Types, NEW w \in Waiter, NEW st \in {"resolved", "rejected"},
         waiter' = [waiter EXCEPT ![w].st = st]
  PROVE  /\ waiter' \in [Waiter -> WaitRecord]
         /\ \A v \in Waiter :
              /\ waiter'[v].job = waiter[v].job /\ waiter'[v].got = waiter[v].got
              /\ waiter'[v].joined = waiter[v].joined
              /\ v # w => waiter'[v].st = waiter[v].st
         /\ waiter'[w].st = st
BY DEF Types, WaitRecord

(* An aborted wait is uncounted from the job it joined. *)
LEMMA AbortEffect ==
  ASSUME Types, Counted, WaitsOK, NEW w \in Waiter, WaitAbort(w)
  PROVE  LET j == waiter[w].job
         IN  /\ j \in Job /\ j = waiter[w].job
             /\ job' \in [Job -> JobRecord]
             /\ \A i \in Job : i # j => job'[i] = job[i]
             /\ CountedAs(job'[j], job[j], job[j].waiters - 1)
             /\ job'[j].reported = job[j].reported
<1> DEFINE j == waiter[w].job
           t == [job[j] EXCEPT !.waiters = @ - 1]
<1>1. j \in Job /\ w \in Pending(j)
  BY DEF WaitAbort, WaitsOK, Pending
<1>2. job[j] \in JobRecord /\ job[j].waiters \in Nat \ {0}
  BY <1>1, PendingCounted DEF Types
<1>3. /\ t \in JobRecord /\ CountedAs(t, job[j], job[j].waiters - 1)
      /\ t.reported = job[j].reported
  BY <1>2 DEF JobRecord, CountedAs
<1>4. job' = [job EXCEPT ![j] = t]
  BY DEF WaitAbort, Uncount
<1> HIDE DEF t
<1>5. /\ job' \in [Job -> JobRecord] /\ job'[j] = t
      /\ \A i \in Job : i # j => job'[i] = job[i]
  BY <1>1, <1>3, <1>4 DEF Types
<1> QED BY <1>1, <1>3, <1>5

(* A wait that resumes is uncounted and reports a job that is over. *)
LEMMA ReturnEffect ==
  ASSUME Types, Counted, WaitsOK, NEW w \in Waiter, WaitReturns(w)
  PROVE  LET j == waiter[w].job
         IN  /\ j \in Job
             /\ job' \in [Job -> JobRecord]
             /\ \A i \in Job : i # j => job'[i] = job[i]
             /\ CountedAs(job'[j], job[j], job[j].waiters - 1)
             /\ ~Over(job[j]) => job'[j].reported = job[j].reported
             /\ waiter' \in [Waiter -> WaitRecord]
             /\ \A v \in Waiter : v # w => waiter'[v] = waiter[v]
             /\ waiter'[w].st = "returned" /\ waiter'[w].job = j
             /\ waiter'[w].joined = waiter[w].joined
             /\ waiter'[w].got = IF Over(job[j]) THEN "end" ELSE "live"
<1> DEFINE j == waiter[w].job
           b == job[j].reported \/ Over(job[j])
           t == Recount(job[j], job[j].waiters - 1, b)
<1>1. j \in Job /\ w \in Pending(j)
  BY DEF WaitReturns, WaitsOK, Pending
<1>2. job[j] \in JobRecord /\ job[j].waiters \in Nat \ {0}
  BY <1>1, PendingCounted DEF Types
<1>3. b \in BOOLEAN /\ (~Over(job[j]) => b = job[j].reported)
  BY <1>2 DEF JobRecord
<1>4. job' = [job EXCEPT ![j] = t]
  BY DEF WaitReturns, Recount
<1> HIDE DEF b
<1>5. t \in JobRecord /\ CountedAs(t, job[j], job[j].waiters - 1) /\ t.reported = b
  <2>1. job[j].waiters - 1 \in Nat
    BY <1>2
  <2> QED BY <1>2, <1>3, <2>1, RecountEffect
<1> HIDE DEF t
<1>6. /\ job' \in [Job -> JobRecord] /\ job'[j] = t
      /\ \A i \in Job : i # j => job'[i] = job[i]
  BY <1>1, <1>4, <1>5 DEF Types
<1>7. /\ waiter' \in [Waiter -> WaitRecord]
      /\ \A v \in Waiter : v # w => waiter'[v] = waiter[v]
      /\ waiter'[w].st = "returned" /\ waiter'[w].job = j
      /\ waiter'[w].joined = waiter[w].joined
      /\ waiter'[w].got = IF Over(job[j]) THEN "end" ELSE "live"
  BY DEF WaitReturns, Types, WaitRecord
<1> QED BY <1>1, <1>3, <1>5, <1>6, <1>7

(* A teardown: the cancels, and the waits they resolve. *)
Tears(jobs, throwing) ==
  /\ job' = CancelForTeardown(jobs, throwing)
  /\ waiter' = Released({j \in throwing : ~Over(job[j])})

(* The two steps that tear jobs down. *)
LEMMA CleanupTears ==
  ASSUME NEW o \in Owner, OwnerCleanup(o), o \in cleanup
  PROVE  /\ Stored(o) \in SUBSET Job
         /\ \E throwing \in SUBSET Stored(o) : Tears(Stored(o), throwing)
         /\ owner' = [owner EXCEPT ![o] = [st |-> "draining", owned |-> Stored(o)]]
         /\ cleanup' = cleanup \ {o} /\ service' = service
BY DEF OwnerCleanup, Stored, Tears

AllStored == {j \in Job : job[j].stored}

(* disposeAll tears down everything stored. *)
LEMMA ServiceTears ==
  ASSUME ServiceCloses
  PROVE  /\ AllStored \in SUBSET Job
         /\ \E throwing \in SUBSET AllStored : Tears(AllStored, throwing)
         /\ service' = [st |-> "closing", all |-> AllStored]
         /\ owner' = owner /\ cleanup' = cleanup
BY DEF ServiceCloses, AllStored, Tears

(* A teardown's effect on every record and every wait. *)
LEMMA TearsEffect ==
  ASSUME Types, NEW jobs \in SUBSET Job, NEW throwing \in SUBSET jobs,
         Tears(jobs, throwing)
  PROVE  /\ job' \in [Job -> JobRecord] /\ waiter' \in [Waiter -> WaitRecord]
         /\ \A j \in Job :
              CancelledAs(job'[j], job[j], j \in jobs, j \in throwing)
         /\ \A w \in Waiter :
              /\ waiter'[w].job = waiter[w].job
              /\ waiter'[w].joined = waiter[w].joined
              /\ waiter'[w].got = waiter[w].got
              /\ waiter'[w].st =
                   IF waiter[w].st = "waiting" /\ waiter[w].job \in throwing
                      /\ ~Over(job[waiter[w].job])
                   THEN "resolved" ELSE waiter[w].st
<1> DEFINE ended == {j \in throwing : ~Over(job[j])}
<1>1. job' = CancelForTeardown(jobs, throwing) /\ waiter' = Released(ended)
  BY DEF Tears
<1>2. ended \in SUBSET Job
  OBVIOUS
<1>3. \A j : j \in ended <=> j \in throwing /\ ~Over(job[j])
  OBVIOUS
<1> HIDE DEF ended
<1>4. /\ waiter' \in [Waiter -> WaitRecord]
      /\ \A w \in Waiter :
           /\ waiter'[w].job = waiter[w].job
           /\ waiter'[w].joined = waiter[w].joined
           /\ waiter'[w].got = waiter[w].got
           /\ waiter'[w].st = IF waiter[w].st = "waiting" /\ waiter[w].job \in ended
                              THEN "resolved" ELSE waiter[w].st
  BY <1>1, <1>2, ReleasedEffect
<1>5. /\ job' \in [Job -> JobRecord]
      /\ \A j \in Job :
              CancelledAs(job'[j], job[j], j \in jobs, j \in throwing)
  BY <1>1, CancelEffect
<1> QED BY <1>3, <1>4, <1>5

-----------------------------------------------------------------------------
(* Types *)

(* Every step keeps the types: no count falls below zero. *)
LEMMA TypesStep ==
  ASSUME Types, Counted, WaitsOK, Next
  PROVE  Types'
<1> USE DEF Types
<1>1. ASSUME NEW j \in Job, NEW o \in Owner \cup {None}, Start(j, o) PROVE Types'
  <2>1. job' \in [Job -> JobRecord]
    BY <1>1, StartEffect
  <2>2. cleanup' \subseteq Owner
    BY <1>1 DEF Start
  <2> QED BY <1>1, <2>1, <2>2 DEF Start
<1>2. ASSUME NEW j \in Job, ProducerSettles(j) PROVE Types'
  <2>1. job' \in [Job -> JobRecord]
    BY <1>2, SettleEffect
  <2>2. waiter' \in [Waiter -> WaitRecord]
    BY <1>2, ReleasedEffect DEF ProducerSettles
  <2> QED BY <1>2, <2>1, <2>2 DEF ProducerSettles
<1>3. ASSUME NEW j \in Job, Kill(j) PROVE Types'
  BY <1>3, KillEffect DEF Kill
<1>4. ASSUME NEW j \in Job, Collect(j) PROVE Types'
  <2>1. job' = [job EXCEPT ![j] = Reported(job[j])]
    BY <1>4 DEF Collect, Reported
  <2>2. job' \in [Job -> JobRecord]
    BY <2>1, CollectEffect
  <2> QED BY <1>4, <2>2 DEF Collect
<1>5. ASSUME NEW w \in Waiter, NEW j \in Job, WaitCall(w, j) PROVE Types'
  <2>1. job' \in [Job -> JobRecord] /\ waiter' \in [Waiter -> WaitRecord]
    BY <1>5, JoinEffect, LateCallEffect
  <2> QED BY <1>5, <2>1 DEF WaitCall
<1>6. ASSUME NEW w \in Waiter, WaitTimeout(w) PROVE Types'
  <2>1. waiter' \in [Waiter -> WaitRecord]
    BY <1>6, WaitStateEffect DEF WaitTimeout
  <2> QED BY <1>6, <2>1 DEF WaitTimeout
<1>7. ASSUME NEW w \in Waiter, WaitAbort(w) PROVE Types'
  <2>1. waiter' \in [Waiter -> WaitRecord]
    BY <1>7, WaitStateEffect DEF WaitAbort
  <2>2. job' \in [Job -> JobRecord]
    BY <1>7, AbortEffect
  <2> QED BY <1>7, <2>1, <2>2 DEF WaitAbort
<1>8. ASSUME NEW w \in Waiter, WaitReturns(w) PROVE Types'
  BY <1>8, ReturnEffect DEF WaitReturns
<1>9. ASSUME NEW o \in Owner, OwnerCloses(o) PROVE Types'
  BY <1>9 DEF OwnerCloses
<1>10. ASSUME NEW o \in Owner, OwnerCleanup(o), o \in cleanup PROVE Types'
  <2>1. job' \in [Job -> JobRecord] /\ waiter' \in [Waiter -> WaitRecord]
    BY <1>10, CleanupTears, TearsEffect
  <2> QED BY <1>10, <2>1, CleanupTears
<1>11. ASSUME NEW o \in Owner, OwnerCleanup(o), o \notin cleanup PROVE Types'
  BY <1>11 DEF OwnerCleanup
<1>12. ASSUME NEW o \in Owner, OwnerDrained(o) PROVE Types'
  <2>1. job' \in [Job -> JobRecord]
    BY <1>12, DropEffect DEF OwnerDrained
  <2> QED BY <1>12, <2>1 DEF OwnerDrained
<1>13. ASSUME ServiceCloses PROVE Types'
  <2>1. job' \in [Job -> JobRecord] /\ waiter' \in [Waiter -> WaitRecord]
    BY <1>13, ServiceTears, TearsEffect
  <2> QED BY <1>13, <2>1, ServiceTears
<1>14. ASSUME ServiceDrained PROVE Types'
  <2>1. job' \in [Job -> JobRecord]
    BY <1>14, DropEffect DEF ServiceDrained
  <2> QED BY <1>14, <2>1 DEF ServiceDrained
<1> QED BY <1>1, <1>2, <1>3, <1>4, <1>5, <1>6, <1>7, <1>8, <1>9, <1>10, <1>11,
           <1>12, <1>13, <1>14 DEF Next

-----------------------------------------------------------------------------
(* Waiter counts *)

(* A step that changes no count and ends or begins no wait. *)
LEMMA KeepCounts ==
  ASSUME Counted, \A j \in Job : job'[j].waiters = job[j].waiters,
         \A w \in Waiter :
           /\ waiter'[w].job = waiter[w].job
           /\ waiter'[w].st \in {"waiting", "resolved"}
                <=> waiter[w].st \in {"waiting", "resolved"}
  PROVE  Counted'
<1>1. \A j \in Job : Pending(j)' = Pending(j)
  BY DEF Pending
<1> QED BY <1>1 DEF Counted

(* A wait w that stops being pending for job j. *)
LEMMA OneLess ==
  ASSUME Types, Counted, NEW w \in Waiter, NEW j \in Job, w \in Pending(j),
         \A i \in Job : i # j => job'[i] = job[i],
         job'[j].waiters = job[j].waiters - 1,
         waiter'[w].st \notin {"waiting", "resolved"},
         \A v \in Waiter : v # w => waiter'[v].job = waiter[v].job
                                   /\ waiter'[v].st = waiter[v].st
  PROVE  Counted'
<1>1. Pending(j)' = Pending(j) \ {w}
  BY DEF Pending
<1>2. \A i \in Job : i # j => Pending(i)' = Pending(i)
  BY DEF Pending
<1>3. IsFiniteSet(Pending(j))
  BY PendingCounted
<1>4. Cardinality(Pending(j) \ {w}) = Cardinality(Pending(j)) - 1
  BY <1>3, FS_RemoveElement
<1> QED BY <1>1, <1>2, <1>4 DEF Counted

(* A wait w that becomes pending for job j. *)
LEMMA OneMore ==
  ASSUME Types, Counted, NEW w \in Waiter, NEW j \in Job,
         waiter[w].st \notin {"waiting", "resolved"},
         \A i \in Job : i # j => job'[i] = job[i],
         job'[j].waiters = job[j].waiters + 1,
         waiter'[w].st \in {"waiting", "resolved"}, waiter'[w].job = j,
         \A v \in Waiter : v # w => waiter'[v] = waiter[v]
  PROVE  Counted'
<1>1. Pending(j)' = Pending(j) \cup {w} /\ w \notin Pending(j)
  BY DEF Pending
<1>2. \A i \in Job : i # j => Pending(i)' = Pending(i)
  BY DEF Pending
<1>3. IsFiniteSet(Pending(j))
  BY PendingCounted
<1>4. Cardinality(Pending(j) \cup {w}) = Cardinality(Pending(j)) + 1
  BY <1>1, <1>3, FS_AddElement
<1> QED BY <1>1, <1>2, <1>4 DEF Counted

(* A wait that a teardown resolves is counted until it resumes. *)
LEMMA TearsCounted ==
  ASSUME Types, Counted, NEW jobs \in SUBSET Job, NEW throwing \in SUBSET jobs,
         Tears(jobs, throwing)
  PROVE  Counted'
<1>1. \A j \in Job : job'[j].waiters = job[j].waiters
  BY TearsEffect DEF CancelledAs
<1>2. \A w \in Waiter : /\ waiter'[w].job = waiter[w].job
                        /\ waiter'[w].st \in {"waiting", "resolved"}
                             <=> waiter[w].st \in {"waiting", "resolved"}
  BY TearsEffect
<1> QED BY <1>1, <1>2, KeepCounts

(* Every step keeps the counts. *)
LEMMA CountedStep ==
  ASSUME Types, Counted, WaitsOK, RecordsOK, Next
  PROVE  Counted'
<1>1. ASSUME NEW j \in Job, NEW o \in Owner \cup {None}, Start(j, o) PROVE Counted'
  <2>1. job[j].waiters = 0
    BY <1>1 DEF Start, RecordsOK, RecordOK
  <2>2. waiter' = waiter
    BY <1>1 DEF Start
  <2> QED BY <1>1, <2>1, <2>2, StartEffect, KeepCounts
<1>2. ASSUME NEW j \in Job, ProducerSettles(j) PROVE Counted'
  <2>1. \A i \in Job : job'[i].waiters = job[i].waiters
    BY <1>2, SettleEffect
  <2>2. \A w \in Waiter : /\ waiter'[w].job = waiter[w].job
                          /\ waiter'[w].st \in {"waiting", "resolved"}
                               <=> waiter[w].st \in {"waiting", "resolved"}
    BY <1>2, ReleasedEffect DEF ProducerSettles
  <2> QED BY <2>1, <2>2, KeepCounts
<1>3. ASSUME NEW j \in Job, Kill(j) PROVE Counted'
  <2>1. \A i \in Job : job'[i].waiters = job[i].waiters
    BY <1>3, KillEffect
  <2> QED BY <1>3, <2>1, KeepCounts DEF Kill
<1>4. ASSUME NEW j \in Job, Collect(j) PROVE Counted'
  <2>1. job' = [job EXCEPT ![j] = Reported(job[j])]
    BY <1>4 DEF Collect, Reported
  <2>2. \A i \in Job : job'[i].waiters = job[i].waiters
    BY <2>1, CollectEffect DEF ReportedAs
  <2> QED BY <1>4, <2>2, KeepCounts DEF Collect
<1>5. ASSUME NEW w \in Waiter, NEW j \in Job, WaitCall(w, j) PROVE Counted'
  <2>1. waiter[w].st = "idle"
    BY <1>5 DEF WaitCall
  <2>2. CASE Over(job[j])
    <3>1. \A i \in Job : job'[i].waiters = job[i].waiters
      BY <1>5, <2>2, LateCallEffect DEF ReportedAs
    <3>2. \A i \in Job : Pending(i)' = Pending(i)
      BY <1>5, <2>1, <2>2, LateCallEffect DEF Pending
    <3> QED BY <3>1, <3>2 DEF Counted
  <2>3. CASE ~Over(job[j])
    BY <1>5, <2>1, <2>3, JoinEffect, OneMore DEF CountedAs
  <2> QED BY <2>2, <2>3
<1>6. ASSUME NEW w \in Waiter, WaitTimeout(w) PROVE Counted'
  <2>1. \A v \in Waiter : /\ waiter'[v].job = waiter[v].job
                          /\ waiter'[v].st \in {"waiting", "resolved"}
                               <=> waiter[v].st \in {"waiting", "resolved"}
    BY <1>6, WaitStateEffect DEF WaitTimeout
  <2> QED BY <1>6, <2>1, KeepCounts DEF WaitTimeout
<1>7. ASSUME NEW w \in Waiter, WaitAbort(w) PROVE Counted'
  <2>1. waiter[w].job \in Job /\ w \in Pending(waiter[w].job)
    BY <1>7 DEF WaitAbort, WaitsOK, Pending
  <2>2. /\ waiter'[w].st = "rejected"
        /\ \A v \in Waiter : v # w => waiter'[v].job = waiter[v].job
                                     /\ waiter'[v].st = waiter[v].st
    BY <1>7, WaitStateEffect DEF WaitAbort
  <2> QED BY <1>7, <2>1, <2>2, AbortEffect, OneLess DEF CountedAs
<1>8. ASSUME NEW w \in Waiter, WaitReturns(w) PROVE Counted'
  <2>1. waiter[w].job \in Job /\ w \in Pending(waiter[w].job)
    BY <1>8 DEF WaitReturns, WaitsOK, Pending
  <2> QED BY <1>8, <2>1, ReturnEffect, OneLess DEF CountedAs
<1>9. ASSUME NEW o \in Owner, OwnerCloses(o) PROVE Counted'
  BY <1>9, KeepCounts DEF OwnerCloses
<1>10. ASSUME NEW o \in Owner, OwnerCleanup(o), o \in cleanup PROVE Counted'
  BY <1>10, CleanupTears, TearsCounted
<1>11. ASSUME NEW o \in Owner, OwnerCleanup(o), o \notin cleanup PROVE Counted'
  BY <1>11, KeepCounts DEF OwnerCleanup
<1>12. ASSUME NEW o \in Owner, OwnerDrained(o) PROVE Counted'
  <2>1. \A i \in Job : job'[i].waiters = job[i].waiters
    BY <1>12, DropEffect DEF OwnerDrained
  <2> QED BY <1>12, <2>1, KeepCounts DEF OwnerDrained
<1>13. ASSUME ServiceCloses PROVE Counted'
  BY <1>13, ServiceTears, TearsCounted
<1>14. ASSUME ServiceDrained PROVE Counted'
  <2>1. \A i \in Job : job'[i].waiters = job[i].waiters
    BY <1>14, DropEffect DEF ServiceDrained
  <2> QED BY <1>14, <2>1, KeepCounts DEF ServiceDrained
<1> QED BY <1>1, <1>2, <1>3, <1>4, <1>5, <1>6, <1>7, <1>8, <1>9, <1>10, <1>11,
           <1>12, <1>13, <1>14 DEF Next

-----------------------------------------------------------------------------
(* Waits *)

(* Jobs that are over stay over, and nobody is left waiting for one. *)
LEMMA KeepWaits ==
  ASSUME WaitsOK,
         \A w \in Waiter :
           /\ waiter'[w].job = waiter[w].job /\ waiter'[w].joined = waiter[w].joined
           /\ waiter'[w].got = waiter[w].got
           /\ \/ waiter'[w].st = waiter[w].st
              \/ waiter[w].st = "waiting" /\ waiter'[w].st = "resolved",
         \A j \in Job : Over(job[j]) => Over(job'[j]),
         \A w \in Waiter : waiter'[w].st = "waiting" /\ waiter[w].job \in Job
                            /\ ~Over(job[waiter[w].job])
                          => ~Over(job'[waiter[w].job])
  PROVE  WaitsOK'
BY DEF WaitsOK

(* A teardown resolves the waits for the jobs it ends. *)
LEMMA TearsWaits ==
  ASSUME Types, WaitsOK, NEW jobs \in SUBSET Job, NEW throwing \in SUBSET jobs,
         Tears(jobs, throwing)
  PROVE  WaitsOK'
<1>1. \A j \in Job : /\ Over(job[j]) => Over(job'[j])
                     /\ ~Over(job[j]) /\ j \notin throwing => ~Over(job'[j])
  <2> SUFFICES ASSUME NEW j \in Job
               PROVE  /\ Over(job[j]) => Over(job'[j])
                      /\ ~Over(job[j]) /\ j \notin throwing => ~Over(job'[j])
    OBVIOUS
  <2>1. CancelledAs(job'[j], job[j], j \in jobs, j \in throwing)
    BY TearsEffect
  <2>2. CASE Over(job[j])
    BY <2>1, <2>2 DEF CancelledAs
  <2>3. CASE ~Over(job[j]) /\ j \notin jobs
    BY <2>1, <2>3 DEF CancelledAs
  <2>4. CASE ~Over(job[j]) /\ j \in jobs
    BY <2>1, <2>4 DEF CancelledAs
  <2> QED BY <2>2, <2>3, <2>4
<1>2. \A w \in Waiter :
        /\ waiter'[w].job = waiter[w].job /\ waiter'[w].joined = waiter[w].joined
        /\ waiter'[w].got = waiter[w].got
        /\ \/ waiter'[w].st = waiter[w].st
           \/ waiter[w].st = "waiting" /\ waiter'[w].st = "resolved"
        /\ waiter'[w].st = "waiting" /\ ~Over(job[waiter[w].job])
             => waiter[w].job \notin throwing
  BY TearsEffect
<1> QED BY <1>1, <1>2, KeepWaits

(* Every step keeps WaitsOK. *)
LEMMA WaitsStep ==
  ASSUME Types, Counted, WaitsOK, RecordsOK, Next
  PROVE  WaitsOK'
<1>1. ASSUME NEW j \in Job, NEW o \in Owner \cup {None}, Start(j, o) PROVE WaitsOK'
  <2>1. \A i \in Job : Over(job[i]) <=> Over(job'[i])
    BY <1>1, StartEffect DEF Start
  <2> QED BY <1>1, <2>1, KeepWaits DEF Start
<1>2. ASSUME NEW j \in Job, ProducerSettles(j) PROVE WaitsOK'
  <2>1. \A i \in Job : /\ Over(job[i]) => Over(job'[i])
                       /\ i # j /\ ~Over(job[i]) => ~Over(job'[i])
    BY <1>2, SettleEffect
  <2>2. waiter' = Released({j})
    BY <1>2 DEF ProducerSettles
  <2>3. \A w \in Waiter :
          /\ waiter'[w].job = waiter[w].job /\ waiter'[w].joined = waiter[w].joined
          /\ waiter'[w].got = waiter[w].got
          /\ waiter'[w].st = IF waiter[w].st = "waiting" /\ waiter[w].job \in {j}
                             THEN "resolved" ELSE waiter[w].st
    BY <2>2, ReleasedEffect
  <2> QED BY <2>1, <2>3, KeepWaits
<1>3. ASSUME NEW j \in Job, Kill(j) PROVE WaitsOK'
  <2>1. \A i \in Job : Over(job[i]) <=> Over(job'[i])
    BY <1>3, KillEffect DEF Kill
  <2> QED BY <1>3, <2>1, KeepWaits DEF Kill
<1>4. ASSUME NEW j \in Job, Collect(j) PROVE WaitsOK'
  <2>1. job' = [job EXCEPT ![j] = Reported(job[j])]
    BY <1>4 DEF Collect, Reported
  <2>2. \A i \in Job : Over(job[i]) <=> Over(job'[i])
    BY <2>1, CollectEffect DEF ReportedAs
  <2> QED BY <1>4, <2>2, KeepWaits DEF Collect
<1>5. ASSUME NEW w \in Waiter, NEW j \in Job, WaitCall(w, j) PROVE WaitsOK'
  <2>1. CASE Over(job[j])
    <3>1. \A i \in Job : Over(job[i]) <=> Over(job'[i])
      BY <1>5, <2>1, LateCallEffect DEF ReportedAs
    <3> QED BY <1>5, <2>1, <3>1, LateCallEffect DEF WaitsOK
  <2>2. CASE ~Over(job[j])
    <3>1. \A i \in Job : Over(job[i]) <=> Over(job'[i])
      BY <1>5, <2>2, JoinEffect DEF CountedAs
    <3> QED BY <1>5, <2>2, <3>1, JoinEffect DEF WaitsOK
  <2> QED BY <2>1, <2>2
<1>6. ASSUME NEW w \in Waiter, WaitTimeout(w) PROVE WaitsOK'
  <2>1. waiter[w].st = "waiting" /\ job' = job
        /\ waiter' = [waiter EXCEPT ![w].st = "resolved"]
    BY <1>6 DEF WaitTimeout
  <2> QED BY <2>1, WaitStateEffect, KeepWaits
<1>7. ASSUME NEW w \in Waiter, WaitAbort(w) PROVE WaitsOK'
  <2>1. waiter[w].st = "waiting" /\ waiter' = [waiter EXCEPT ![w].st = "rejected"]
    BY <1>7 DEF WaitAbort
  <2>2. \A i \in Job : Over(job[i]) <=> Over(job'[i])
    BY <1>7, AbortEffect DEF CountedAs
  <2> QED BY <2>1, <2>2, WaitStateEffect DEF WaitsOK
<1>8. ASSUME NEW w \in Waiter, WaitReturns(w) PROVE WaitsOK'
  <2>1. \A i \in Job : Over(job[i]) <=> Over(job'[i])
    BY <1>8, ReturnEffect DEF CountedAs
  <2> QED BY <1>8, <2>1, ReturnEffect DEF WaitsOK
<1>9. ASSUME NEW o \in Owner, OwnerCloses(o) PROVE WaitsOK'
  BY <1>9 DEF OwnerCloses, WaitsOK
<1>10. ASSUME NEW o \in Owner, OwnerCleanup(o), o \in cleanup PROVE WaitsOK'
  BY <1>10, CleanupTears, TearsWaits
<1>11. ASSUME NEW o \in Owner, OwnerCleanup(o), o \notin cleanup PROVE WaitsOK'
  BY <1>11 DEF OwnerCleanup, WaitsOK
<1>12. ASSUME NEW o \in Owner, OwnerDrained(o) PROVE WaitsOK'
  <2>1. \A i \in Job : Over(job[i]) <=> Over(job'[i])
    BY <1>12, DropEffect DEF OwnerDrained
  <2> QED BY <1>12, <2>1, KeepWaits DEF OwnerDrained
<1>13. ASSUME ServiceCloses PROVE WaitsOK'
  BY <1>13, ServiceTears, TearsWaits
<1>14. ASSUME ServiceDrained PROVE WaitsOK'
  <2>1. \A i \in Job : Over(job[i]) <=> Over(job'[i])
    BY <1>14, DropEffect DEF ServiceDrained
  <2> QED BY <1>14, <2>1, KeepWaits DEF ServiceDrained
<1> QED BY <1>1, <1>2, <1>3, <1>4, <1>5, <1>6, <1>7, <1>8, <1>9, <1>10, <1>11,
           <1>12, <1>13, <1>14 DEF Next

-----------------------------------------------------------------------------
(* Records *)

(* A teardown of stored jobs leaves their records in order. *)
LEMMA TearsRecords ==
  ASSUME Types, RecordsOK, NEW jobs \in SUBSET Job, NEW throwing \in SUBSET jobs,
         \A j \in jobs : job[j].stored, Tears(jobs, throwing)
  PROVE  RecordsOK'
<1> SUFFICES ASSUME NEW j \in Job PROVE RecordOK(job'[j])
  BY DEF RecordsOK
<1>1. RecordOK(job[j])
  BY DEF RecordsOK
<1>2. /\ CancelledAs(job'[j], job[j], j \in jobs, j \in throwing)
      /\ job[j] \in JobRecord /\ job'[j] \in JobRecord
  BY TearsEffect DEF Types
<1>3. CASE Over(job[j]) \/ j \notin jobs
  BY <1>1, <1>2, <1>3 DEF CancelledAs
<1>4. CASE ~Over(job[j]) /\ j \in jobs
  <2>1. job[j].stored
    BY <1>4
  <2> QED BY <1>1, <1>2, <1>4, <2>1 DEF CancelledAs, RecordOK, JobRecord
<1> QED BY <1>3, <1>4

(* Every step keeps RecordsOK. *)
LEMMA RecordsStep ==
  ASSUME Types, Counted, WaitsOK, RecordsOK, TeardownsOK, Next
  PROVE  RecordsOK'
<1>0. \A j \in Job : job[j] \in JobRecord /\ RecordOK(job[j])
  BY DEF Types, RecordsOK
<1> USE DEF RecordOK
<1>1. ASSUME NEW j \in Job, NEW o \in Owner \cup {None}, Start(j, o) PROVE RecordsOK'
  BY <1>0, <1>1, StartEffect DEF RecordsOK, JobRecord
<1>2. ASSUME NEW j \in Job, ProducerSettles(j) PROVE RecordsOK'
  <2>1. RecordOK(job'[j])
    BY <1>0, <1>2, SettleEffect DEF ProducerSettles, JobRecord
  <2> QED BY <1>0, <1>2, <2>1, SettleEffect DEF RecordsOK
<1>3. ASSUME NEW j \in Job, Kill(j) PROVE RecordsOK'
  <2>1. RecordOK(job'[j])
    BY <1>0, <1>3, KillEffect DEF Kill, CanCall, JobRecord
  <2> QED BY <1>0, <1>3, <2>1, KillEffect DEF RecordsOK
<1>4. ASSUME NEW j \in Job, Collect(j) PROVE RecordsOK'
  <2>1. job' = [job EXCEPT ![j] = Reported(job[j])] /\ Over(job[j])
    BY <1>4 DEF Collect, Reported
  <2>2. RecordOK(job'[j])
    BY <1>0, <2>1, CollectEffect DEF ReportedAs, JobRecord
  <2> QED BY <1>0, <2>1, <2>2, CollectEffect DEF RecordsOK
<1>5. ASSUME NEW w \in Waiter, NEW j \in Job, WaitCall(w, j) PROVE RecordsOK'
  <2>1. CASE Over(job[j])
    <3>1. RecordOK(job'[j])
      BY <1>0, <1>5, <2>1, LateCallEffect DEF ReportedAs, JobRecord
    <3> QED BY <1>0, <1>5, <2>1, <3>1, LateCallEffect DEF RecordsOK
  <2>2. CASE ~Over(job[j])
    <3>1. job[j].stored
      BY <1>5 DEF WaitCall, CanCall
    <3>2. RecordOK(job'[j])
      BY <1>0, <1>5, <2>2, <3>1, JoinEffect DEF CountedAs, JobRecord
    <3> QED BY <1>0, <1>5, <2>2, <3>2, JoinEffect DEF RecordsOK
  <2> QED BY <2>1, <2>2
<1>6. ASSUME NEW w \in Waiter, WaitTimeout(w) PROVE RecordsOK'
  BY <1>6 DEF WaitTimeout, RecordsOK
<1>7. ASSUME NEW w \in Waiter, WaitAbort(w) PROVE RecordsOK'
  <2> DEFINE j == waiter[w].job
  <2>1. j \in Job /\ job[j].waiters > 0
    <3>1. j \in Job /\ w \in Pending(j)
      BY <1>7 DEF WaitAbort, WaitsOK, Pending
    <3> QED BY <3>1, PendingCounted
  <2>2. /\ CountedAs(job'[j], job[j], job[j].waiters - 1)
        /\ job'[j].reported = job[j].reported
        /\ \A i \in Job : i # j => job'[i] = job[i]
    BY <1>7, AbortEffect
  <2> HIDE DEF j
  <2>3. RecordOK(job'[j])
    BY <1>0, <2>1, <2>2 DEF CountedAs, JobRecord
  <2> QED BY <1>0, <2>2, <2>3 DEF RecordsOK
<1>8. ASSUME NEW w \in Waiter, WaitReturns(w) PROVE RecordsOK'
  <2> DEFINE j == waiter[w].job
  <2>1. j \in Job /\ job[j].waiters > 0
    <3>1. j \in Job /\ w \in Pending(j)
      BY <1>8 DEF WaitReturns, WaitsOK, Pending
    <3> QED BY <3>1, PendingCounted
  <2>2. /\ CountedAs(job'[j], job[j], job[j].waiters - 1)
        /\ ~Over(job[j]) => job'[j].reported = job[j].reported
        /\ \A i \in Job : i # j => job'[i] = job[i]
    BY <1>8, ReturnEffect
  <2> HIDE DEF j
  <2>3. RecordOK(job'[j])
    BY <1>0, <2>1, <2>2 DEF CountedAs, JobRecord
  <2> QED BY <1>0, <2>2, <2>3 DEF RecordsOK
<1>9. ASSUME NEW o \in Owner, OwnerCloses(o) PROVE RecordsOK'
  BY <1>9 DEF OwnerCloses, RecordsOK
<1>10. ASSUME NEW o \in Owner, OwnerCleanup(o), o \in cleanup PROVE RecordsOK'
  BY <1>10, CleanupTears, TearsRecords DEF Stored
<1>11. ASSUME NEW o \in Owner, OwnerCleanup(o), o \notin cleanup PROVE RecordsOK'
  BY <1>11 DEF OwnerCleanup, RecordsOK
<1>12. ASSUME NEW o \in Owner, OwnerDrained(o) PROVE RecordsOK'
  <2> DEFINE jobs == owner[o].owned
  <2>1. (\A j \in jobs : Over(job[j])) /\ job' = Drop(jobs)
    BY <1>12 DEF OwnerDrained
  <2> HIDE DEF jobs
  <2> SUFFICES ASSUME NEW j \in Job PROVE RecordOK(job'[j])
    BY DEF RecordsOK
  <2>2. CASE j \in jobs
    BY <1>0, <2>1, <2>2, DropEffect DEF JobRecord
  <2>3. CASE j \notin jobs
    BY <1>0, <2>1, <2>3, DropEffect
  <2> QED BY <2>2, <2>3
<1>13. ASSUME ServiceCloses PROVE RecordsOK'
  BY <1>13, ServiceTears, TearsRecords DEF AllStored
<1>14. ASSUME ServiceDrained PROVE RecordsOK'
  <2> SUFFICES ASSUME NEW j \in Job PROVE RecordOK(job'[j])
    BY DEF RecordsOK
  <2>1. job[j].stored => Over(job[j])
    BY <1>14 DEF ServiceDrained, TeardownsOK
  <2>2. job' = Drop(Job)
    BY <1>14 DEF ServiceDrained
  <2> QED BY <1>0, <2>1, <2>2, DropEffect DEF JobRecord
<1> QED BY <1>1, <1>2, <1>3, <1>4, <1>5, <1>6, <1>7, <1>8, <1>9, <1>10, <1>11,
           <1>12, <1>13, <1>14 DEF Next

-----------------------------------------------------------------------------
(* Teardowns *)

(* A step that stores no job and revives none disturbs no teardown. *)
LEMMA KeepTeardowns ==
  ASSUME TeardownsOK, UNCHANGED <<owner, cleanup, service>>,
         \A j \in Job : /\ job'[j].owner = job[j].owner
                        /\ job'[j].stored => job[j].stored
                        /\ job'[j].status \in Active =>
                             \/ job'[j].cancelled
                             \/ job[j].status \in Active /\ ~job[j].cancelled
  PROVE  TeardownsOK'
<1> SUFFICES /\ \A o \in cleanup : owner[o].st \in {"live", "closing"}
             /\ \A j \in Job : job'[j].stored =>
                  /\ job[j].owner # None =>
                       job[j].owner \in cleanup \/ owner[job[j].owner].st = "draining"
                  /\ job[j].owner # None /\ owner[job[j].owner].st = "draining"
                       => j \in owner[job[j].owner].owned
                  /\ service.st = "closing" => j \in service.all
                  /\ service.st # "closed"
             /\ \A j \in Job : service.st # "up" /\ job'[j].status \in Active
                              => job'[j].cancelled
  BY DEF TeardownsOK
<1>1. \A o \in cleanup : owner[o].st \in {"live", "closing"}
  BY DEF TeardownsOK
<1>2. ASSUME NEW j \in Job, job'[j].stored
      PROVE  /\ job[j].owner # None =>
                  job[j].owner \in cleanup \/ owner[job[j].owner].st = "draining"
             /\ job[j].owner # None /\ owner[job[j].owner].st = "draining"
                  => j \in owner[job[j].owner].owned
             /\ service.st = "closing" => j \in service.all
             /\ service.st # "closed"
  <2>1. job[j].stored
    BY <1>2
  <2> QED BY <2>1 DEF TeardownsOK
<1>3. ASSUME NEW j \in Job, service.st # "up", job'[j].status \in Active
      PROVE  job'[j].cancelled
  <2>1. CASE job[j].status \in Active
    <3>1. job[j].cancelled
      BY <1>3, <2>1 DEF TeardownsOK
    <3> QED BY <1>3, <2>1, <3>1
  <2>2. CASE job[j].status \notin Active
    BY <1>3, <2>2
  <2> QED BY <2>1, <2>2
<1> QED BY <1>1, <1>2, <1>3

(* A teardown's effect on what TeardownsOK relates. *)
LEMMA TearsFields ==
  ASSUME Types, NEW jobs \in SUBSET Job, NEW throwing \in SUBSET jobs,
         Tears(jobs, throwing), NEW j \in Job
  PROVE  /\ job'[j].owner = job[j].owner /\ job'[j].stored = job[j].stored
         /\ job'[j].status \in Active => job[j].status \in Active \/ job'[j].cancelled
         /\ job[j].cancelled /\ job'[j].status \in Active => job'[j].cancelled
         /\ j \in jobs /\ job'[j].status \in Active => job'[j].cancelled
         /\ j \notin jobs => job'[j] = job[j]
<1>1. CancelledAs(job'[j], job[j], j \in jobs, j \in throwing)
  BY TearsEffect
<1>2. CASE Over(job[j]) \/ j \notin jobs
  BY <1>1, <1>2 DEF CancelledAs
<1>3. CASE ~Over(job[j]) /\ j \in jobs
  BY <1>1, <1>3 DEF CancelledAs
<1> QED BY <1>2, <1>3

(* Every step keeps TeardownsOK: no start escapes a teardown that waits. *)
LEMMA TeardownsStep ==
  ASSUME Types, Counted, WaitsOK, RecordsOK, TeardownsOK, Next
  PROVE  TeardownsOK'
<1>0. \A j \in Job : job[j] \in JobRecord /\ RecordOK(job[j])
  BY DEF Types, RecordsOK
<1>1. ASSUME NEW j \in Job, NEW o \in Owner \cup {None}, Start(j, o) PROVE TeardownsOK'
  <2>1. /\ service.st = "up" /\ service' = service /\ owner' = owner
        /\ cleanup' = IF o = None THEN cleanup ELSE cleanup \cup {o}
        /\ o = None \/ o \in cleanup \/ owner[o].st = "live"
    BY <1>1 DEF Start, Admits, Live
  <2>2. \A p \in cleanup' : owner[p].st \in {"live", "closing"}
    BY <2>1 DEF TeardownsOK
  <2>3. ASSUME NEW i \in Job, job'[i].stored, job'[i].owner # None
        PROVE  /\ job'[i].owner \in cleanup' \/ owner'[job'[i].owner].st = "draining"
               /\ owner'[job'[i].owner].st = "draining"
                    => i \in owner'[job'[i].owner].owned
    <3>1. CASE i = j
      BY <1>1, <2>1, <2>2, <2>3, <3>1, StartEffect
    <3>2. CASE i # j
      BY <1>1, <2>1, <2>3, <3>2, StartEffect DEF TeardownsOK
    <3> QED BY <3>1, <3>2
  <2> QED BY <2>1, <2>2, <2>3 DEF TeardownsOK
<1>2. ASSUME NEW j \in Job, ProducerSettles(j) PROVE TeardownsOK'
  BY <1>2, SettleEffect, KeepTeardowns DEF ProducerSettles
<1>3. ASSUME NEW j \in Job, Kill(j) PROVE TeardownsOK'
  BY <1>3, KillEffect, KeepTeardowns DEF Kill
<1>4. ASSUME NEW j \in Job, Collect(j) PROVE TeardownsOK'
  <2>1. job' = [job EXCEPT ![j] = Reported(job[j])]
    BY <1>4 DEF Collect, Reported
  <2> QED BY <1>4, <2>1, CollectEffect, KeepTeardowns DEF ReportedAs, Collect
<1>5. ASSUME NEW w \in Waiter, NEW j \in Job, WaitCall(w, j) PROVE TeardownsOK'
  <2>1. CASE Over(job[j])
    BY <1>5, <2>1, LateCallEffect, KeepTeardowns DEF ReportedAs, WaitCall
  <2>2. CASE ~Over(job[j])
    BY <1>5, <2>2, JoinEffect, KeepTeardowns DEF CountedAs, WaitCall
  <2> QED BY <2>1, <2>2
<1>6. ASSUME NEW w \in Waiter, WaitTimeout(w) PROVE TeardownsOK'
  BY <1>6, KeepTeardowns DEF WaitTimeout
<1>7. ASSUME NEW w \in Waiter, WaitAbort(w) PROVE TeardownsOK'
  <2>1. \A i \in Job : /\ job'[i].owner = job[i].owner
                       /\ job'[i].stored = job[i].stored
                       /\ job'[i].status = job[i].status
                       /\ job'[i].cancelled = job[i].cancelled
    BY <1>7, AbortEffect DEF CountedAs
  <2>2. UNCHANGED <<owner, cleanup, service>>
    BY <1>7 DEF WaitAbort
  <2> QED BY <2>1, <2>2, KeepTeardowns
<1>8. ASSUME NEW w \in Waiter, WaitReturns(w) PROVE TeardownsOK'
  <2>1. \A i \in Job : /\ job'[i].owner = job[i].owner
                       /\ job'[i].stored = job[i].stored
                       /\ job'[i].status = job[i].status
                       /\ job'[i].cancelled = job[i].cancelled
    BY <1>8, ReturnEffect DEF CountedAs
  <2>2. UNCHANGED <<owner, cleanup, service>>
    BY <1>8 DEF WaitReturns
  <2> QED BY <2>1, <2>2, KeepTeardowns
<1>9. ASSUME NEW o \in Owner, OwnerCloses(o) PROVE TeardownsOK'
  <2>1. /\ owner[o].st = "live" /\ UNCHANGED <<job, cleanup, service>>
        /\ owner'[o].st = "closing"
        /\ \A p \in Owner : p # o => owner'[p] = owner[p]
    BY <1>9 DEF OwnerCloses, Types
  <2>2. \A j \in Job : job[j].owner \in Owner \cup {None}
    BY <1>0 DEF JobRecord
  <2>3. cleanup \subseteq Owner
    BY DEF Types
  <2> QED BY <2>1, <2>2, <2>3 DEF TeardownsOK
<1>10. ASSUME NEW o \in Owner, OwnerCleanup(o), o \in cleanup PROVE TeardownsOK'
  <2>1. PICK throwing \in SUBSET Stored(o) : Tears(Stored(o), throwing)
    BY <1>10, CleanupTears
  <2>2. /\ service' = service /\ cleanup' = cleanup \ {o}
        /\ owner'[o].st = "draining" /\ owner'[o].owned = Stored(o)
        /\ \A p \in Owner : p # o => owner'[p] = owner[p]
        /\ Stored(o) \in SUBSET Job /\ cleanup \subseteq Owner
    BY <1>10, CleanupTears DEF Types
  <2>3. \A j \in Job :
          /\ job'[j].owner = job[j].owner /\ job'[j].stored = job[j].stored
          /\ job'[j].status \in Active => job[j].status \in Active \/ job'[j].cancelled
          /\ job[j].cancelled /\ job'[j].status \in Active => job'[j].cancelled
          /\ job[j].owner \in Owner \cup {None}
    BY <1>0, <2>1, <2>2, TearsFields DEF JobRecord
  <2>4. \A p \in cleanup' : owner'[p].st \in {"live", "closing"}
    BY <2>2 DEF TeardownsOK
  <2>5. ASSUME NEW j \in Job, job'[j].stored, job'[j].owner # None
        PROVE  /\ job'[j].owner \in cleanup' \/ owner'[job'[j].owner].st = "draining"
               /\ owner'[job'[j].owner].st = "draining"
                    => j \in owner'[job'[j].owner].owned
    <3>1. CASE job[j].owner = o
      BY <2>2, <2>3, <2>5, <3>1 DEF Stored
    <3>2. CASE job[j].owner # o
      BY <2>2, <2>3, <2>5, <3>2 DEF TeardownsOK
    <3> QED BY <3>1, <3>2
  <2> QED BY <2>2, <2>3, <2>4, <2>5 DEF TeardownsOK
<1>11. ASSUME NEW o \in Owner, OwnerCleanup(o), o \notin cleanup PROVE TeardownsOK'
  <2>1. /\ owner[o].st = "closing" /\ UNCHANGED <<job, cleanup, service>>
        /\ owner'[o].st = "gone" /\ cleanup \subseteq Owner
        /\ \A p \in Owner : p # o => owner'[p] = owner[p]
    BY <1>11 DEF OwnerCleanup, Types
  <2>2. \A j \in Job : job[j].owner \in Owner \cup {None}
    BY <1>0 DEF JobRecord
  <2> QED BY <1>11, <2>1, <2>2 DEF TeardownsOK
<1>12. ASSUME NEW o \in Owner, OwnerDrained(o) PROVE TeardownsOK'
  <2>1. /\ owner[o].st = "draining" /\ UNCHANGED <<cleanup, service>>
        /\ job' = Drop(owner[o].owned) /\ owner'[o].st = "gone"
        /\ cleanup \subseteq Owner
        /\ \A p \in Owner : p # o => owner'[p] = owner[p]
    BY <1>12 DEF OwnerDrained, Types
  <2>2. \A j \in Job :
          /\ job'[j].owner = job[j].owner /\ job'[j].status = job[j].status
          /\ job'[j].cancelled = job[j].cancelled
          /\ job'[j].stored => job[j].stored /\ j \notin owner[o].owned
          /\ job[j].owner \in Owner \cup {None}
    BY <1>0, <2>1, DropEffect DEF JobRecord
  <2>3. \A j \in Job : job'[j].stored => job[j].owner # o \/ o = None
    BY <2>1, <2>2 DEF TeardownsOK
  <2>4. o # None
    BY NoneAssumption
  <2> QED BY <2>1, <2>2, <2>3, <2>4 DEF TeardownsOK
<1>13. ASSUME ServiceCloses PROVE TeardownsOK'
  <2>1. PICK throwing \in SUBSET AllStored : Tears(AllStored, throwing)
    BY <1>13, ServiceTears
  <2>2. /\ owner' = owner /\ cleanup' = cleanup
        /\ service'.st = "closing" /\ service'.all = AllStored
        /\ AllStored \in SUBSET Job
    BY <1>13, ServiceTears
  <2>3. \A j \in Job :
          /\ job'[j].owner = job[j].owner /\ job'[j].stored = job[j].stored
          /\ j \in AllStored /\ job'[j].status \in Active => job'[j].cancelled
          /\ j \notin AllStored => job'[j] = job[j]
    BY <2>1, <2>2, TearsFields
  <2>4. \A j \in Job : job[j].status \in Active => j \in AllStored
    BY <1>0 DEF RecordOK, AllStored
  <2>5. \A j \in Job : job[j].stored => j \in AllStored
    BY DEF AllStored
  <2> QED BY <2>2, <2>3, <2>4, <2>5 DEF TeardownsOK
<1>14. ASSUME ServiceDrained PROVE TeardownsOK'
  <2>1. /\ owner' = owner /\ cleanup' = {} /\ job' = Drop(Job)
        /\ service.st = "closing"
    BY <1>14 DEF ServiceDrained
  <2>2. \A j \in Job : /\ ~job'[j].stored /\ job'[j].status = job[j].status
                       /\ job'[j].cancelled = job[j].cancelled
    BY <2>1, DropEffect
  <2> QED BY <2>1, <2>2 DEF TeardownsOK
<1> QED BY <1>1, <1>2, <1>3, <1>4, <1>5, <1>6, <1>7, <1>8, <1>9, <1>10, <1>11,
           <1>12, <1>13, <1>14 DEF Next

-----------------------------------------------------------------------------
(* The inductive invariant *)

IInv == Types /\ Counted /\ WaitsOK /\ RecordsOK /\ TeardownsOK

(* The invariant holds initially, ... *)
LEMMA InitIInv ==
  ASSUME Init
  PROVE  IInv
<1>1. Types
  BY DEF Init, Types, JobRecord, WaitRecord, Unused, Idle
<1>2. Counted
  <2>1. \A j \in Job : Pending(j) = {}
    BY DEF Init, Idle, Pending
  <2>2. \A j \in Job : job[j].waiters = 0
    BY DEF Init, Unused
  <2> QED BY <2>1, <2>2, FS_EmptySet DEF Counted
<1>3. WaitsOK
  BY DEF Init, Idle, WaitsOK
<1>4. RecordsOK
  BY DEF Init, Unused, RecordsOK, RecordOK
<1>5. TeardownsOK
  BY DEF Init, Unused, TeardownsOK
<1> QED BY <1>1, <1>2, <1>3, <1>4, <1>5 DEF IInv

(* ... outlasts a stutter, ... *)
LEMMA StutterIInv ==
  ASSUME IInv, UNCHANGED vars
  PROVE  IInv'
<1> USE DEF vars
<1>1. Types'
  BY DEF IInv, Types
<1>2. Counted'
  BY KeepCounts DEF IInv
<1>3. WaitsOK'
  BY DEF IInv, WaitsOK
<1>4. RecordsOK'
  BY DEF IInv, RecordsOK
<1>5. TeardownsOK'
  BY DEF IInv, TeardownsOK
<1> QED BY <1>1, <1>2, <1>3, <1>4, <1>5 DEF IInv

(* ... and every step. *)
LEMMA NextIInv ==
  ASSUME IInv, [Next]_vars
  PROVE  IInv'
<1>1. CASE Next
  BY <1>1, TypesStep, CountedStep, WaitsStep, RecordsStep, TeardownsStep DEF IInv
<1>2. CASE UNCHANGED vars
  BY <1>2, StutterIInv
<1> QED BY <1>1, <1>2

(* The strengthening that the properties below follow from: what waits, records
   and teardowns of the registry owe each other. *)
THEOREM Invariance == Spec => []IInv
BY InitIInv, NextIInv, PTL DEF Spec

(* The types, and the count of the waits a job has. *)
THEOREM TypeCorrect == Spec => []TypeOK
<1>1. IInv => TypeOK
  BY TypeOKParts DEF IInv
<1> QED BY <1>1, Invariance, PTL

(* A teardown that has ended leaves no job of its owner, or of anyone, running
   or stored. *)
THEOREM NothingIsLeftBehind == Spec => []NothingLeftBehind
<1>1. ASSUME IInv PROVE NothingLeftBehind
  <2> SUFFICES ASSUME NEW j \in Job, job[j].status # "unused",
                      \/ service.st = "closed"
                      \/ job[j].owner # None /\ owner[job[j].owner].st = "gone"
               PROVE  Over(job[j]) /\ ~job[j].stored
    BY DEF NothingLeftBehind
  <2>1. ~job[j].stored
    <3>1. CASE service.st = "closed"
      BY <1>1, <3>1 DEF IInv, TeardownsOK
    <3>2. CASE job[j].owner # None /\ owner[job[j].owner].st = "gone"
      BY <1>1, <3>2 DEF IInv, TeardownsOK
    <3> QED BY <3>1, <3>2
  <2> QED BY <1>1, <2>1 DEF IInv, RecordsOK, RecordOK
<1> QED BY <1>1, Invariance, PTL

-----------------------------------------------------------------------------
(* What outlasts a step: a record keeps its owner, takes up no work, and once
   it is over its story is told. *)

Kept(s, r) ==
  /\ s.owner = r.owner
  /\ s.working /\ s.status # "forced" => r.working /\ r.status # "forced"
  /\ Over(r) => /\ Over(s) /\ s.cancelled = r.cancelled
                /\ s.announced = r.announced

(* A teardown keeps every record in this sense, ... *)
LEMMA TearsKept ==
  ASSUME Types, NEW jobs \in SUBSET Job, NEW throwing \in SUBSET jobs,
         Tears(jobs, throwing), NEW j \in Job
  PROVE  Kept(job'[j], job[j])
<1>1. CancelledAs(job'[j], job[j], j \in jobs, j \in throwing)
  BY TearsEffect
<1>2. CASE Over(job[j]) \/ j \notin jobs
  BY <1>1, <1>2 DEF CancelledAs, Kept
<1>3. CASE ~Over(job[j]) /\ j \in jobs
  BY <1>1, <1>3 DEF CancelledAs, Kept
<1> QED BY <1>2, <1>3

(* ... and so does every step but the start of the job. *)
LEMMA RecordsKept ==
  ASSUME IInv, Next, NEW j \in Job, ~\E o \in Owner \cup {None} : Start(j, o)
  PROVE  Kept(job'[j], job[j])
<1>0. Types /\ Counted /\ WaitsOK /\ RecordsOK /\ TeardownsOK
  BY DEF IInv
<1> USE <1>0
<1>1. ASSUME NEW i \in Job, NEW o \in Owner \cup {None}, Start(i, o)
      PROVE  Kept(job'[j], job[j])
  <2>1. i # j
    BY <1>1
  <2> QED BY <1>1, <2>1, StartEffect DEF Kept
<1>2. ASSUME NEW i \in Job, ProducerSettles(i) PROVE Kept(job'[j], job[j])
  BY <1>2, SettleEffect DEF Kept
<1>3. ASSUME NEW i \in Job, Kill(i) PROVE Kept(job'[j], job[j])
  BY <1>3, KillEffect DEF Kept, Kill
<1>4. ASSUME NEW i \in Job, Collect(i) PROVE Kept(job'[j], job[j])
  <2>1. job' = [job EXCEPT ![i] = Reported(job[i])]
    BY <1>4 DEF Collect, Reported
  <2> QED BY <2>1, CollectEffect DEF Kept, ReportedAs
<1>5. ASSUME NEW w \in Waiter, NEW i \in Job, WaitCall(w, i)
      PROVE  Kept(job'[j], job[j])
  BY <1>5, LateCallEffect, JoinEffect DEF Kept, ReportedAs, CountedAs
<1>6. ASSUME NEW w \in Waiter, WaitTimeout(w) PROVE Kept(job'[j], job[j])
  BY <1>6 DEF Kept, WaitTimeout
<1>7. ASSUME NEW w \in Waiter, WaitAbort(w) PROVE Kept(job'[j], job[j])
  BY <1>7, AbortEffect DEF Kept, CountedAs
<1>8. ASSUME NEW w \in Waiter, WaitReturns(w) PROVE Kept(job'[j], job[j])
  BY <1>8, ReturnEffect DEF Kept, CountedAs
<1>9. ASSUME NEW o \in Owner, OwnerCloses(o) PROVE Kept(job'[j], job[j])
  BY <1>9 DEF Kept, OwnerCloses
<1>10. ASSUME NEW o \in Owner, OwnerCleanup(o) PROVE Kept(job'[j], job[j])
  <2>1. CASE o \in cleanup
    BY <1>10, <2>1, CleanupTears, TearsKept
  <2>2. CASE o \notin cleanup
    BY <1>10, <2>2 DEF Kept, OwnerCleanup
  <2> QED BY <2>1, <2>2
<1>11. ASSUME NEW o \in Owner, OwnerDrained(o) PROVE Kept(job'[j], job[j])
  BY <1>11, DropEffect DEF Kept, OwnerDrained
<1>12. ASSUME ServiceCloses PROVE Kept(job'[j], job[j])
  BY <1>12, ServiceTears, TearsKept
<1>13. ASSUME ServiceDrained PROVE Kept(job'[j], job[j])
  BY <1>13, DropEffect DEF Kept, ServiceDrained
<1> QED BY <1>1, <1>2, <1>3, <1>4, <1>5, <1>6, <1>7, <1>8, <1>9, <1>10, <1>11,
           <1>12, <1>13 DEF Next

-----------------------------------------------------------------------------
(* The limit *)

Work(o) == {j \in Job : job[j].owner = o /\ job[j].working
                         /\ job[j].status # "forced"}

(* Sets of jobs can be counted. *)
LEMMA JobsAreFinite ==
  ASSUME NEW S \in SUBSET Job
  PROVE  IsFiniteSet(S) /\ Cardinality(S) \in Nat
<1>1. IsFiniteSet(Job)
  BY MaxJobsAssumption, FS_Interval DEF Job
<1>2. IsFiniteSet(S)
  BY <1>1, FS_Subset
<1> QED BY <1>2, FS_CardinalityType

(* No step takes the work of an owner past the limit. *)
LEMMA WorkStep ==
  ASSUME IInv, Next, NEW o \in Owner \cup {None}, Cardinality(Work(o)) <= Limit
  PROVE  Cardinality(Work(o)') <= Limit
<1>1. Work(o) \in SUBSET Job /\ Work(o)' \in SUBSET Job
  BY DEF Work
<1>2. CASE \E j \in Job : Start(j, o)
  <2>1. PICK j \in Job : Start(j, o)
    BY <1>2
  <2>2. Work(o)' \subseteq ActiveJobs(o) \cup {j}
    <3>1. \A i \in Job : job[i].working /\ job[i].status # "forced"
                         => job[i].status \in Active
      BY DEF IInv, RecordsOK, RecordOK
    <3>2. \A i \in Job : i # j => job'[i] = job[i]
      BY <2>1, StartEffect DEF IInv
    <3> QED BY <3>1, <3>2 DEF Work, ActiveJobs
  <2>3. /\ ActiveJobs(o) \in SUBSET Job /\ ActiveJobs(o) \cup {j} \in SUBSET Job
        /\ Cardinality(ActiveJobs(o)) < Limit
    BY <2>1 DEF ActiveJobs, Start
  <2>4. Cardinality(ActiveJobs(o) \cup {j}) <= Cardinality(ActiveJobs(o)) + 1
    BY <2>3, JobsAreFinite, FS_AddElement
  <2>5. Cardinality(Work(o)') <= Cardinality(ActiveJobs(o) \cup {j})
    BY <2>2, <2>3, JobsAreFinite, FS_Subset
  <2> QED BY <1>1, <2>3, <2>4, <2>5, JobsAreFinite, LimitAssumption
<1>3. CASE ~\E j \in Job : Start(j, o)
  <2>1. Work(o)' \subseteq Work(o)
    <3> SUFFICES ASSUME NEW j \in Job, job'[j].owner = o, job'[j].working,
                        job'[j].status # "forced"
                 PROVE  j \in Work(o)
      BY DEF Work
    <3>1. CASE \E p \in Owner \cup {None} : Start(j, p)
      <4>1. PICK p \in Owner \cup {None} : Start(j, p)
        BY <3>1
      <4>2. p = o
        BY <4>1, StartEffect DEF IInv
      <4> QED BY <1>3, <4>1, <4>2
    <3>2. CASE ~\E p \in Owner \cup {None} : Start(j, p)
      <4>1. Kept(job'[j], job[j])
        BY <3>2, RecordsKept
      <4> QED BY <4>1 DEF Kept, Work
    <3> QED BY <3>1, <3>2
  <2>2. Cardinality(Work(o)') <= Cardinality(Work(o))
    BY <1>1, <2>1, JobsAreFinite, FS_Subset
  <2> QED BY <1>1, <2>2, JobsAreFinite, LimitAssumption
<1> QED BY <1>2, <1>3

(* No bucket ever holds more unfinished work than the limit. *)
THEOREM LimitHolds == Spec => []ActiveBound
<1>1. ActiveBound <=> \A o \in Owner \cup {None} : Cardinality(Work(o)) <= Limit
  BY DEF ActiveBound, Work
<1>2. Init => ActiveBound
  <2> SUFFICES ASSUME Init PROVE ActiveBound
    OBVIOUS
  <2>1. \A o \in Owner \cup {None} : Work(o) = {}
    BY DEF Init, Unused, Work
  <2> QED BY <1>1, <2>1, FS_EmptySet, LimitAssumption
<1>3. ASSUME ActiveBound, IInv, [Next]_vars PROVE ActiveBound'
  <2>1. CASE Next
    <3>1. \A o \in Owner \cup {None} : Cardinality(Work(o)') <= Limit
      BY <1>1, <1>3, <2>1, WorkStep
    <3> QED BY <3>1 DEF ActiveBound, Work
  <2>2. CASE UNCHANGED vars
    BY <1>3, <2>2 DEF ActiveBound, vars
  <2> QED BY <1>3, <2>1, <2>2
<1> QED BY <1>2, <1>3, Invariance, PTL DEF Spec

-----------------------------------------------------------------------------
(* Notices *)

Serves(r, j) == r.job = j /\ r.joined /\ (r.st = "resolved" \/ r.got = "end")

(* Who hears the end of a job that is over from a wait is settled: waits only
   move on from being due to having returned. *)
LEMMA ServedKept ==
  ASSUME IInv, Next, NEW j \in Job, Over(job[j])
  PROVE  Served(j)' <=> Served(j)
<1>0. Types /\ Counted /\ WaitsOK
  BY DEF IInv
<1> SUFFICES ASSUME NEW w \in Waiter
             PROVE  Serves(waiter'[w], j) <=> Serves(waiter[w], j)
  BY DEF Serves, Served
<1>1. ASSUME UNCHANGED waiter PROVE Serves(waiter'[w], j) <=> Serves(waiter[w], j)
  BY <1>1
<1>2. ASSUME NEW i \in Job, ProducerSettles(i)
      PROVE  Serves(waiter'[w], j) <=> Serves(waiter[w], j)
  <2>1. waiter' = Released({i})
    BY <1>2 DEF ProducerSettles
  <2> QED BY <1>0, <2>1, ReleasedEffect DEF Serves, WaitsOK
<1>3. ASSUME NEW v \in Waiter, NEW i \in Job, WaitCall(v, i)
      PROVE  Serves(waiter'[w], j) <=> Serves(waiter[w], j)
  <2>1. waiter[v].st = "idle" /\ waiter[v].got = "nothing"
    BY <1>0, <1>3 DEF WaitCall, WaitsOK
  <2>2. CASE Over(job[i])
    BY <1>0, <1>3, <2>1, <2>2, LateCallEffect DEF Serves
  <2>3. CASE ~Over(job[i])
    BY <1>0, <1>3, <2>1, <2>3, JoinEffect DEF Serves
  <2> QED BY <2>2, <2>3
<1>4. ASSUME NEW v \in Waiter, WaitTimeout(v)
      PROVE  Serves(waiter'[w], j) <=> Serves(waiter[w], j)
  <2>1. waiter[v].job # j
    BY <1>0, <1>4 DEF WaitTimeout, WaitsOK
  <2> QED BY <1>0, <1>4, <2>1, WaitStateEffect DEF WaitTimeout, Serves
<1>5. ASSUME NEW v \in Waiter, WaitAbort(v)
      PROVE  Serves(waiter'[w], j) <=> Serves(waiter[w], j)
  <2>1. waiter[v].job # j
    BY <1>0, <1>5 DEF WaitAbort, WaitsOK
  <2> QED BY <1>0, <1>5, <2>1, WaitStateEffect DEF WaitAbort, Serves
<1>6. ASSUME NEW v \in Waiter, WaitReturns(v)
      PROVE  Serves(waiter'[w], j) <=> Serves(waiter[w], j)
  <2>1. waiter[v].st = "resolved"
    BY <1>6 DEF WaitReturns
  <2>2. CASE w = v /\ waiter[v].job = j
    BY <1>0, <1>6, <2>1, <2>2, ReturnEffect DEF Serves
  <2>3. CASE w = v /\ waiter[v].job # j
    BY <1>0, <1>6, <2>3, ReturnEffect DEF Serves
  <2>4. CASE w # v
    BY <1>0, <1>6, <2>4, ReturnEffect DEF Serves
  <2> QED BY <2>2, <2>3, <2>4
<1>7. ASSUME NEW jobs \in SUBSET Job, NEW throwing \in SUBSET jobs,
             Tears(jobs, throwing)
      PROVE  Serves(waiter'[w], j) <=> Serves(waiter[w], j)
  <2>1. /\ waiter'[w].job = waiter[w].job /\ waiter'[w].joined = waiter[w].joined
        /\ waiter'[w].got = waiter[w].got
        /\ waiter'[w].st = IF waiter[w].st = "waiting" /\ waiter[w].job \in throwing
                              /\ ~Over(job[waiter[w].job])
                           THEN "resolved" ELSE waiter[w].st
    BY <1>0, <1>7, TearsEffect
  <2>2. waiter[w].job = j => waiter'[w].st = waiter[w].st
    BY <2>1
  <2> QED BY <2>1, <2>2 DEF Serves
<1>8. ASSUME NEW o \in Owner, OwnerCleanup(o)
      PROVE  Serves(waiter'[w], j) <=> Serves(waiter[w], j)
  <2>1. CASE o \in cleanup
    BY <1>7, <1>8, <2>1, CleanupTears
  <2>2. CASE o \notin cleanup
    BY <1>1, <1>8, <2>2 DEF OwnerCleanup
  <2> QED BY <2>1, <2>2
<1>9. ASSUME ServiceCloses PROVE Serves(waiter'[w], j) <=> Serves(waiter[w], j)
  BY <1>7, <1>9, ServiceTears
<1> QED BY <1>1, <1>2, <1>3, <1>4, <1>5, <1>6, <1>8, <1>9
        DEF Next, Start, Kill, Collect, OwnerCloses, OwnerDrained, ServiceDrained

Noticed(j) ==
  Over(job[j]) /\ job[j].owner # None =>
    job[j].announced = IF job[j].cancelled \/ Served(j) THEN 0 ELSE 1

(* The outcome of a job: the waits that are counted are exactly those that it
   resolves or that were due already. *)
LEMMA SettleNotices ==
  ASSUME IInv, NEW j \in Job, ~Over(job[j]), ProducerSettles(j)
  PROVE  Noticed(j)'
<1>0. /\ Types /\ Counted /\ WaitsOK /\ RecordOK(job[j]) /\ TeardownsOK
      /\ job[j] \in JobRecord
  BY DEF IInv, RecordsOK, Types
<1>1. Served(j)' <=> Pending(j) # {}
  <2>1. \A w \in Waiter :
          /\ waiter'[w].job = waiter[w].job /\ waiter'[w].joined = waiter[w].joined
          /\ waiter'[w].got = waiter[w].got
          /\ waiter'[w].st = IF waiter[w].st = "waiting" /\ waiter[w].job \in {j}
                             THEN "resolved" ELSE waiter[w].st
    BY <1>0, ReleasedEffect DEF ProducerSettles
  <2>2. \A w \in Waiter : waiter[w].job = j => waiter[w].got # "end"
    BY <1>0 DEF WaitsOK
  <2>3. \A w \in Waiter : w \in Pending(j) => waiter[w].joined
    BY <1>0 DEF WaitsOK, Pending
  <2>4. \A w \in Waiter : Serves(waiter'[w], j) <=> w \in Pending(j)
    BY <2>1, <2>2, <2>3 DEF Serves, Pending
  <2>5. Pending(j) \subseteq Waiter
    BY DEF Pending
  <2> QED BY <2>4, <2>5 DEF Served, Serves
<1>2. job[j].waiters > 0 <=> Pending(j) # {}
  BY <1>0, PendingCounted
<1>3. /\ job[j].announced = 0 /\ job[j].reported = job[j].cancelled
      /\ job[j].status \in Active
  BY <1>0 DEF ProducerSettles, RecordOK
<1>4. service.st # "up" => job[j].cancelled
  BY <1>0, <1>3 DEF TeardownsOK
<1>5. /\ job'[j].owner = job[j].owner /\ job'[j].cancelled = job[j].cancelled
      /\ job'[j].reported = (job[j].cancelled \/ job[j].waiters > 0)
      /\ job'[j].announced = IF service.st = "up" /\ ~job'[j].reported /\ job[j].owner # None
                             THEN 1 ELSE 0
  BY <1>0, <1>3, SettleEffect
<1>6. job'[j].reported <=> job'[j].cancelled \/ Served(j)'
  BY <1>1, <1>2, <1>5
<1> QED BY <1>4, <1>5, <1>6 DEF Noticed

(* A job that a teardown ends was cancelled, and nobody is told. *)
LEMMA TearsNotices ==
  ASSUME IInv, NEW jobs \in SUBSET Job, NEW throwing \in SUBSET jobs,
         Tears(jobs, throwing), NEW j \in Job, ~Over(job[j]), Over(job'[j])
  PROVE  Noticed(j)'
<1>1. CancelledAs(job'[j], job[j], j \in jobs, j \in throwing)
  BY TearsEffect DEF IInv
<1>2. j \in jobs
  BY <1>1 DEF CancelledAs
<1>3. job'[j].cancelled /\ job'[j].announced = job[j].announced
  BY <1>1, <1>2 DEF CancelledAs
<1>4. job[j].announced = 0
  BY DEF IInv, RecordsOK, RecordOK
<1> QED BY <1>3, <1>4 DEF Noticed

(* Every step keeps what is told of every job exact. *)
LEMMA NoticesStep ==
  ASSUME IInv, Next, NEW j \in Job, Noticed(j)
  PROVE  Noticed(j)'
<1>0. Types /\ Counted /\ WaitsOK
  BY DEF IInv
<1>1. CASE Over(job[j])
  <2>1. ~\E o \in Owner \cup {None} : Start(j, o)
    BY <1>1 DEF Start
  <2>2. Kept(job'[j], job[j])
    BY <2>1, RecordsKept
  <2>3. Served(j)' <=> Served(j)
    BY <1>1, ServedKept
  <2> QED BY <1>1, <2>2, <2>3 DEF Noticed, Kept
<1>2. CASE ~Over(job[j])
  <2> SUFFICES ASSUME Over(job'[j]) PROVE Noticed(j)'
    BY DEF Noticed
  <2>1. ASSUME NEW i \in Job, NEW o \in Owner \cup {None}, Start(i, o) PROVE FALSE
    BY <1>0, <1>2, <2>1, StartEffect
  <2>2. ASSUME NEW i \in Job, ProducerSettles(i) PROVE Noticed(j)'
    <3>1. CASE i = j
      BY <1>2, <2>2, <3>1, SettleNotices
    <3>2. CASE i # j
      BY <1>0, <1>2, <2>2, <3>2, SettleEffect
    <3> QED BY <3>1, <3>2
  <2>3. ASSUME NEW i \in Job, Kill(i) PROVE FALSE
    BY <1>0, <1>2, <2>3, KillEffect
  <2>4. ASSUME NEW i \in Job, Collect(i) PROVE FALSE
    <3>1. job' = [job EXCEPT ![i] = Reported(job[i])]
      BY <2>4 DEF Collect, Reported
    <3> QED BY <1>0, <1>2, <3>1, CollectEffect DEF ReportedAs
  <2>5. ASSUME NEW w \in Waiter, NEW i \in Job, WaitCall(w, i) PROVE FALSE
    BY <1>0, <1>2, <2>5, LateCallEffect, JoinEffect DEF ReportedAs, CountedAs
  <2>6. ASSUME NEW w \in Waiter, WaitAbort(w) PROVE FALSE
    BY <1>0, <1>2, <2>6, AbortEffect DEF CountedAs
  <2>7. ASSUME NEW w \in Waiter, WaitReturns(w) PROVE FALSE
    BY <1>0, <1>2, <2>7, ReturnEffect DEF CountedAs
  <2>8. ASSUME NEW o \in Owner, OwnerCleanup(o) PROVE Noticed(j)'
    <3>1. CASE o \in cleanup
      BY <1>2, <2>8, <3>1, CleanupTears, TearsNotices
    <3>2. CASE o \notin cleanup
      BY <1>2, <2>8, <3>2 DEF OwnerCleanup
    <3> QED BY <3>1, <3>2
  <2>9. ASSUME NEW o \in Owner, OwnerDrained(o) PROVE FALSE
    BY <1>0, <1>2, <2>9, DropEffect DEF OwnerDrained
  <2>10. ASSUME ServiceCloses PROVE Noticed(j)'
    BY <1>2, <2>10, ServiceTears, TearsNotices
  <2>11. ASSUME ServiceDrained PROVE FALSE
    BY <1>0, <1>2, <2>11, DropEffect DEF ServiceDrained
  <2> QED BY <1>2, <2>1, <2>2, <2>3, <2>4, <2>5, <2>6, <2>7, <2>8, <2>9, <2>10, <2>11
          DEF Next, WaitTimeout, OwnerCloses
<1> QED BY <1>1, <1>2

(* The end of an owned job is told exactly once. *)
THEOREM NoticesAreExact == Spec => []NoticesExact
<1>1. NoticesExact <=> \A j \in Job : Noticed(j)
  BY DEF NoticesExact, Noticed
<1>2. Init => NoticesExact
  BY DEF Init, Unused, NoticesExact
<1>3. ASSUME NoticesExact, IInv, [Next]_vars PROVE NoticesExact'
  <2>1. CASE Next
    <3>1. \A j \in Job : Noticed(j)'
      BY <1>1, <1>3, <2>1, NoticesStep
    <3> QED BY <3>1 DEF NoticesExact, Noticed
  <2>2. CASE UNCHANGED vars
    BY <1>3, <2>2 DEF NoticesExact, Served, vars
  <2> QED BY <1>3, <2>1, <2>2
<1> QED BY <1>2, <1>3, Invariance, PTL DEF Spec
=============================================================================
