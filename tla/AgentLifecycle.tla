--------------------------- MODULE AgentLifecycle ---------------------------
(***************************************************************************)
(* Creation, resume, publication and disposal of agents by the AgentLoop   *)
(* factory, for one session identity: two mounts of the plugin that may    *)
(* overlap (a reload), each with a configured start of that identity, and  *)
(* clients that create or resume it through whichever mount is loaded.     *)
(*                                                                         *)
(* An attempt takes the write handle, prepares an agent, sets it up,       *)
(* stores its seed, enters the registries and announces it.  Its caller,   *)
(* its owner, the factory and its own failure may each end it at any       *)
(* await; they share one disposal, which waits for what is in flight.      *)
(***************************************************************************)
EXTENDS Naturals

CONSTANTS Clients   \* calls of agents.create or agents.resume

(* The mounts of the plugin, and with them their configured starts. *)
Loop == {"first", "second"}
Attempt == Loop \cup Clients
None == "none"

ASSUME ClientsAssumption == Clients \cap (Loop \cup {None}) = {}

VARIABLES
  loop,        \* of each mount: "unmounted", "active", "disposing", then "gone",
               \* or "rejected" when its disposal has failed
  snapshot,    \* the agents a disposing mount waits for
  pc,          \* where each attempt is
  at,          \* the mount an attempt belongs to
  cancelled,   \* the attempts whose caller has aborted
  orphaned,    \* the attempts whose owner has unloaded
  handle,      \* the write handle of each attempt
  disposal,    \* how far each agent's one disposal is
  failures,    \* the agents whose disposal rejects, while a mount may wait for it
  registered,  \* who occupies the identity in the registries
  stored       \* the session is materialized

vars == <<loop, snapshot, pc, at, cancelled, orphaned, handle, disposal,
          failures, registered, stored>>

Init ==
  /\ loop = [l \in Loop |-> IF l = "first" THEN "active" ELSE "unmounted"]
  /\ snapshot = [l \in Loop |-> {}]
  /\ pc = [a \in Attempt |-> IF a = "first" THEN "opening" ELSE "none"]
  /\ at = [a \in Attempt |-> IF a \in Loop THEN a ELSE "first"]
  /\ cancelled = {}
  /\ orphaned = {}
  /\ handle = [a \in Attempt |-> IF a = "first" THEN "pending" ELSE "none"]
  /\ disposal = [a \in Attempt |-> "none"]
  /\ failures = {}
  /\ registered = None
  /\ stored \in BOOLEAN

Active(l) == loop[l] = "active"

(* The reasons an attempt stops for before it has an agent. *)
Unwanted(a) == ~Active(at[a]) \/ a \in cancelled \cup orphaned

(* The signal of a prepared agent. *)
Aborted(a) == disposal[a] # "none" \/ a \in cancelled

Prepared(a) == pc[a] \in {"setup", "appending", "announcing", "rollback", "live"}

StageIs(a, stage) == pc[a] = stage

Goes(a, stage) == pc' = [pc EXCEPT ![a] = stage]

(* What most steps of an attempt leave alone. *)
Others == <<loop, snapshot, at, cancelled, orphaned, failures>>

-----------------------------------------------------------------------------
(* Taking the write handle *)

Claimed == \E a \in Attempt : handle[a] \in {"held", "closing"}

(* A configured start finds the identity free, or waits for whoever holds it. *)
StartConfigured(a) ==
  /\ pc' = [pc EXCEPT ![a] = IF registered = None THEN "opening" ELSE "waiting"]
  /\ handle' = [handle EXCEPT ![a] = IF registered = None THEN "pending" ELSE "none"]

(* The wait ends with the occupant's disposal or with the mount's own. *)
WaitEnds(a) ==
  /\ pc[a] \in {"waiting", "released"}
  /\ pc[a] = "released" \/ ~Active(a)
  /\ IF Active(a)
     THEN Goes(a, "opening") /\ handle' = [handle EXCEPT ![a] = "pending"]
     ELSE Goes(a, "failed") /\ UNCHANGED handle
  /\ UNCHANGED <<Others, disposal, registered, stored>>

OpenGranted(a) ==
  /\ StageIs(a, "opening")
  /\ stored
  /\ ~Claimed
  /\ Goes(a, "reading")
  /\ handle' = [handle EXCEPT ![a] = "held"]
  /\ UNCHANGED <<Others, disposal, registered, stored>>

(* The session is absent: a configured start creates it. *)
OpenNotFound(a) ==
  /\ StageIs(a, "opening")
  /\ ~stored
  /\ ~Claimed
  /\ IF a \in Loop /\ Active(a)
     THEN Goes(a, "creating") /\ UNCHANGED handle
     ELSE Goes(a, "failed") /\ handle' = [handle EXCEPT ![a] = "none"]
  /\ UNCHANGED <<Others, disposal, registered, stored>>

(* Another handle holds the session, or the backend fails. *)
AcquisitionRefused(a) ==
  /\ pc[a] \in {"opening", "creating"}
  /\ Goes(a, "failed")
  /\ handle' = [handle EXCEPT ![a] = "none"]
  /\ UNCHANGED <<Others, disposal, registered, stored>>

(* prepare's guards, synchronous with what it registers.  Mutant: the factory
   is believed to be active still. *)
PrepareUnguarded(a) == a \notin cancelled \cup orphaned
MayPrepare(a) == ~Unwanted(a)

(* The handle is held: the agent is prepared, or the handle given back. *)
Prepare(a, stage) == Goes(a, IF MayPrepare(a) THEN stage ELSE "releasing")

CreateGranted(a) ==
  /\ StageIs(a, "creating")
  /\ ~stored
  /\ ~Claimed
  /\ handle' = [handle EXCEPT ![a] = "held"]
  /\ Prepare(a, IF a \in Loop THEN "appending" ELSE "setup")
  /\ UNCHANGED <<Others, disposal, registered, stored>>

(* The log is read, its interrupted turn closed and appended. *)
ReadDone(a) ==
  /\ StageIs(a, "reading")
  /\ \/ Prepare(a, "setup")
     \/ Goes(a, "releasing")
  /\ UNCHANGED <<Others, handle, disposal, registered, stored>>

Released(a) ==
  /\ StageIs(a, "releasing")
  /\ handle' = [handle EXCEPT ![a] = "closed"]
  /\ Goes(a, "failed")
  /\ UNCHANGED <<Others, disposal, registered, stored>>

(* raceAbortCall: the attempt ends at once, what it asked for is released when
   it arrives.  A create is raced with its caller only, a configured one with
   nobody. *)
Abandons(a) ==
  /\ \/ StageIs(a, "opening") /\ Unwanted(a)
     \/ StageIs(a, "creating") /\ a \in cancelled
  /\ Goes(a, "failed")
  /\ handle' = [handle EXCEPT ![a] = "abandoned"]
  /\ UNCHANGED <<Others, disposal, registered, stored>>

AbandonedArrives(a) ==
  /\ handle[a] = "abandoned"
  /\ \/ ~Claimed /\ handle' = [handle EXCEPT ![a] = "closing"]
     \/ handle' = [handle EXCEPT ![a] = "none"]
  /\ UNCHANGED <<Others, pc, disposal, registered, stored>>

AbandonedCloses(a) ==
  /\ handle[a] = "closing"
  /\ handle' = [handle EXCEPT ![a] = "closed"]
  /\ UNCHANGED <<Others, pc, disposal, registered, stored>>

-----------------------------------------------------------------------------
(* Setting up and publishing *)

(* dispose, memoized. *)
Disposing(d, agents) ==
  [a \in Attempt |-> IF a \in agents /\ d[a] = "none" THEN "draining" ELSE d[a]]

(* initializeAgent's catch: the maintenance ends and the agent is rolled back. *)
Rollback(a) == /\ Goes(a, "rollback")
               /\ disposal' = Disposing(disposal, {a})

SetupDone(a) ==
  /\ StageIs(a, "setup")
  /\ ~Aborted(a)
  /\ Goes(a, "appending")
  /\ UNCHANGED <<Others, handle, disposal, registered, stored>>

SetupFails(a) ==
  /\ StageIs(a, "setup")
  /\ Rollback(a)
  /\ UNCHANGED <<Others, handle, registered, stored>>

(* Mutant: setup is awaited without the signal. *)
NeverInterrupted(a) == FALSE
Interrupted(a) == StageIs(a, "setup") /\ Aborted(a)

SetupAborted(a) ==
  /\ Interrupted(a)
  /\ Rollback(a)
  /\ UNCHANGED <<Others, handle, registered, stored>>

(* The seed is stored and publish enters both registries. *)
Publish(a) ==
  /\ StageIs(a, "appending")
  /\ ~Aborted(a)
  /\ registered = None
  /\ registered' = a
  /\ stored' \in {stored, TRUE}
  /\ \/ Goes(a, "announcing") /\ UNCHANGED disposal
     \/ Rollback(a)
  /\ UNCHANGED <<Others, handle>>

(* The append fails, the agent was aborted meanwhile, or the identity is
   taken. *)
PublishFails(a) ==
  /\ StageIs(a, "appending")
  /\ Rollback(a)
  /\ stored' \in {stored, TRUE}
  /\ UNCHANGED <<Others, handle, registered>>

Announced(a) ==
  /\ StageIs(a, "announcing")
  /\ ~Aborted(a)
  /\ Goes(a, "live")
  /\ UNCHANGED <<Others, handle, disposal, registered, stored>>

(* A creation listener rejects, or the agent was aborted meanwhile. *)
AnnounceFails(a) ==
  /\ StageIs(a, "announcing")
  /\ Rollback(a)
  /\ UNCHANGED <<Others, handle, registered, stored>>

-----------------------------------------------------------------------------
(* The one disposal *)

(* publication and whenIdle: a maintenance or a turn in flight ends first. *)
Quiesces(a) ==
  /\ disposal[a] = "draining"
  /\ pc[a] \in {"rollback", "live"}
  /\ disposal' = [disposal EXCEPT ![a] = "closing"]
  /\ UNCHANGED <<Others, pc, handle, registered, stored>>

(* The scope is unwound and the handle closed.  Either may fail: the session is
   given up all the same, and the disposal rejects once it is through. *)
HandleCloses(a) ==
  /\ disposal[a] = "closing"
  /\ handle' = [handle EXCEPT ![a] = "closed"]
  /\ disposal' = [disposal EXCEPT ![a] = "leaving"]
  /\ failures' \in {failures, failures \cup {a}}
  /\ UNCHANGED <<loop, snapshot, pc, at, cancelled, orphaned, registered, stored>>

(* The registries are left, which releases a waiting start; the rollback that
   awaited the disposal ends, whatever became of it. *)
Leaves(a) ==
  /\ disposal[a] = "leaving"
  /\ disposal' = [disposal EXCEPT ![a] = "done"]
  /\ failures' = failures \ (IF a \in snapshot[at[a]] THEN {} ELSE {a})
  /\ registered' = IF registered = a THEN None ELSE registered
  /\ pc' = [b \in Attempt |->
              IF b = a /\ pc[a] = "rollback" THEN "failed"
              ELSE IF pc[b] = "waiting" /\ registered' = None THEN "released"
              ELSE pc[b]]
  /\ UNCHANGED <<loop, snapshot, at, cancelled, orphaned, handle, stored>>

-----------------------------------------------------------------------------
(* Callers, owners and mounts *)

ClientCalls(a, l, stage) ==
  /\ StageIs(a, "none")
  /\ Active(l)
  /\ at' = [at EXCEPT ![a] = l]
  /\ Goes(a, stage)
  /\ handle' = [handle EXCEPT ![a] = "pending"]
  /\ UNCHANGED <<loop, snapshot, cancelled, orphaned, disposal, failures,
                 registered, stored>>

CallerAborts(a) ==
  /\ a \in Clients \ cancelled
  /\ pc[a] # "none"
  /\ cancelled' = cancelled \cup {a}
  /\ UNCHANGED <<loop, snapshot, pc, at, orphaned, handle, disposal, failures,
                 registered, stored>>

(* The owner's effect disposes the agent that it has. *)
OwnerUnloads(a) ==
  /\ a \in Clients \ orphaned
  /\ pc[a] # "none"
  /\ orphaned' = orphaned \cup {a}
  /\ disposal' = IF Prepared(a) THEN Disposing(disposal, {a}) ELSE disposal
  /\ UNCHANGED <<loop, snapshot, pc, at, cancelled, handle, failures, registered,
                 stored>>

(* The holder of the agent's handle disposes it. *)
HolderDisposes(a) ==
  /\ StageIs(a, "live")
  /\ a \in Clients
  /\ disposal[a] = "none"
  /\ disposal' = Disposing(disposal, {a})
  /\ UNCHANGED <<Others, pc, handle, registered, stored>>

Mount ==
  /\ loop["second"] = "unmounted"
  /\ ~Active("first")
  /\ loop' = [loop EXCEPT !["second"] = "active"]
  /\ StartConfigured("second")
  /\ UNCHANGED <<snapshot, at, cancelled, orphaned, disposal, failures, registered,
                 stored>>

(* FactoryOwnership.dispose: it disposes and awaits the agents it has now. *)
Unmount(l) ==
  LET agents == {a \in Attempt : at[a] = l /\ Prepared(a) /\ disposal[a] # "done"}
  IN  /\ Active(l)
      /\ loop' = [loop EXCEPT ![l] = "disposing"]
      /\ snapshot' = [snapshot EXCEPT ![l] = agents]
      /\ disposal' = Disposing(disposal, agents)
      /\ UNCHANGED <<pc, at, cancelled, orphaned, handle, failures, registered, stored>>

(* Promise.all: the disposals and the starts and calls under way have all
   settled, or one of the disposals has rejected. *)
Unmounted(l) ==
  LET rejects == \E a \in snapshot[l] \cap failures : disposal[a] = "done"
  IN  /\ loop[l] = "disposing"
      /\ \/ rejects
         \/ /\ \A a \in snapshot[l] : disposal[a] = "done"
            /\ \A a \in Attempt : at[a] = l => pc[a] \in {"none", "failed", "live"}
      /\ loop' = [loop EXCEPT ![l] = IF rejects THEN "rejected" ELSE "gone"]
      /\ snapshot' = [snapshot EXCEPT ![l] = {}]
      /\ failures' = failures \ snapshot[l]
      /\ UNCHANGED <<pc, at, cancelled, orphaned, handle, disposal, registered, stored>>

-----------------------------------------------------------------------------
(* What settles by itself.  A backend may leave an open unanswered and a setup
   may never return: those two are raced with the abort. *)
Settles(a) ==
  \/ WaitEnds(a) \/ CreateGranted(a) \/ Abandons(a)
  \/ StageIs(a, "creating") /\ AcquisitionRefused(a)
  \/ ReadDone(a) \/ Released(a) \/ SetupAborted(a)
  \/ Publish(a) \/ PublishFails(a) \/ Announced(a) \/ AnnounceFails(a)
  \/ Quiesces(a) \/ HandleCloses(a) \/ Leaves(a)

MaySettle(a) ==
  \/ OpenGranted(a) \/ OpenNotFound(a)
  \/ StageIs(a, "opening") /\ AcquisitionRefused(a)
  \/ AbandonedArrives(a) \/ AbandonedCloses(a)
  \/ SetupDone(a) \/ SetupFails(a)

Next ==
  \/ \E a \in Attempt : Settles(a) \/ MaySettle(a)
  \/ \E a \in Clients, l \in Loop, stage \in {"opening", "creating"} :
       ClientCalls(a, l, stage)
  \/ \E a \in Clients : CallerAborts(a) \/ OwnerUnloads(a) \/ HolderDisposes(a)
  \/ Mount
  \/ \E l \in Loop : Unmount(l) \/ Unmounted(l)

Spec == Init /\ [][Next]_vars

(* Nobody owes a call, an abort, an unload or a mount. *)
Fairness == /\ \A a \in Attempt : WF_vars(Settles(a))
            /\ \A l \in Loop : WF_vars(Unmounted(l))

FairSpec == Spec /\ Fairness

-----------------------------------------------------------------------------
(* Holds no more than the answer to an abandoned acquisition, released when it
   comes. *)
LeftNothing(a) ==
  /\ registered # a
  /\ handle[a] \in {"none", "closed", "abandoned", "closing"}

(* Whatever ends an attempt, and at whichever of its awaits, nothing is left
   behind: a failed or disposed agent is in no registry and holds no write
   handle.  Neither is anything of a mount that has gone; and where a disposal
   that failed has cut the mount's wait short, every agent it had is at least
   being disposed, and it gets no more.  A published agent that nobody disposes
   has both, and gives up its handle before its place in the registries
   (prepare's reverse teardown), so that a start that waited for the place finds
   the session open to it. *)
NothingLeft ==
  /\ \A a \in Attempt : pc[a] = "failed" \/ disposal[a] = "done" => LeftNothing(a)
  /\ \A a \in Attempt :
       /\ loop[at[a]] = "gone" => LeftNothing(a)
       /\ loop[at[a]] = "rejected" /\ Prepared(a) => disposal[a] # "none"
  /\ \A a \in Attempt : pc[a] = "live" =>
       \/ registered = a /\ (disposal[a] = "none" => handle[a] = "held")
       \/ handle[a] = "closed"

(* Every wait ends: a configured start does not wait for ever for the identity
   that a draining agent still holds; the disposal of a mount, whatever it
   interrupts, comes to its end; and what is still under way then, because a
   disposal that failed ended it early, comes to its end as well. *)
WaitsEnd ==
  /\ \A l \in Loop : (pc[l] = "waiting") ~> (pc[l] # "waiting")
  /\ \A l \in Loop : (loop[l] = "disposing") ~> (loop[l] # "disposing")
  /\ (\E l \in Loop : loop[l] = "rejected") ~>
       (\A a \in Attempt : loop[at[a]] = "rejected" => LeftNothing(a))
=============================================================================
