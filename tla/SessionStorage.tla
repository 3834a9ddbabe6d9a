--------------------------- MODULE SessionStorage ---------------------------
(***************************************************************************)
(* One stored session under the JSONL backend: its write handles           *)
(* (storage.ts), the claim and the routing of each process that runs the   *)
(* backend, the kernel lock that separates processes (lease.ts) and the    *)
(* log file (index.ts).  A handle serves one lifecycle of an agent: it is  *)
(* created or opened, set up, receives the events its session publishes,   *)
(* and is closed while the session is still live (agent-loop index.ts).    *)
(*                                                                         *)
(* Every await of a handle's mutation chain is a stage: between two stages *)
(* the session publishes, timers fire, callers flush or close, and other   *)
(* processes run or die.  An event is its sequence number, counted from 1  *)
(* here, and the handle whose session emitted it.                          *)
(***************************************************************************)
EXTENDS Naturals, Sequences, FiniteSets, SequencesExt

CONSTANTS
  Process,     \* processes that run the backend over the same directory
  None,        \* no handle, no process
  MaxHandles,  \* how many write handles there will be (bound)
  MaxEvents,   \* length of the longest session (bound)
  MaxCrashes,  \* how often a process dies (bound)
  LateCalls    \* whether events, flushes and timers still reach a handle
               \* whose close() has looked at its buffer for the last time

ASSUME MaxHandlesAssumption == MaxHandles \in Nat \ {0}
ASSUME MaxEventsAssumption == MaxEvents \in Nat
ASSUME MaxCrashesAssumption == MaxCrashes \in Nat
ASSUME LateCallsAssumption == LateCalls \in BOOLEAN

Handle == 1..MaxHandles

ASSUME NoneAssumption == None \notin Process \cup Handle

VARIABLES
  disk,     \* the log file: whether it is published, its complete records,
            \* whether torn bytes follow them, and the records inside those
  lock,     \* the handle whose descriptor holds the lock, or None
  writer,   \* per process: the handle in the tracker's writers map, or None
  handle,   \* the state of each handle, its owner's and its close()
  flusher,  \* a caller of session/flush
  acked,    \* history: the events some caller was told are durable
  crashes   \* how often a process died

vars == <<disk, lock, writer, handle, flusher, acked, crashes>>

Seqs == 1..MaxEvents
Event == [seq : Seqs, by : Handle]
Stamp(h, batch) == [i \in DOMAIN batch |-> [seq |-> batch[i], by |-> h]]

(* The log a reader decodes: a torn final frame yields its complete records. *)
Readable == disk.log \o disk.tail

Fresh ==
  [phase |-> "unused", proc |-> None, seed |-> 0, n |-> 0,
   cursor |-> 0, materialized |-> FALSE, torn |-> FALSE, recovered |-> <<>>,
   lease |-> "none", chain |-> <<>>, stage |-> "idle", batch |-> <<>>,
   buffered |-> <<>>, timer |-> FALSE, paused |-> FALSE, drain |-> "none",
   close |-> "no", wait |-> 0, failure |-> FALSE]

(* A handle that never opened, died, or closed with nothing left to run. *)
Gone == [Fresh EXCEPT !.phase = "gone"]

NoFlush == [st |-> "idle", h |-> None, cover |-> 0, stale |-> FALSE]

Init ==
  /\ disk = [exists |-> FALSE, log |-> <<>>, torn |-> FALSE, tail |-> <<>>]
  /\ lock = None
  /\ writer = [p \in Process |-> None]
  /\ handle = [h \in Handle |-> Fresh]
  /\ flusher = NoFlush
  /\ acked = {}
  /\ crashes = 0

(* Records written behind torn bytes are found by no reader. *)
Appended(d, records) == IF d.torn THEN d ELSE [d EXCEPT !.log = @ \o records]

(* What the session behind a handle emitted after its seed. *)
OwnEvents(h, upTo) ==
  {[seq |-> i, by |-> h] : i \in (handle[h].seed + 1)..upTo}

Alive(h) == handle[h].phase \in {"setup", "appending", "aborted", "live"}

(* close() has left its drain loop, or is about to. *)
Late(r) == r.close \in {"failed", "final", "release", "forget", "closed"}
Reachable(r) == LateCalls \/ ~Late(r)

(* close() waits for the same promise as the next job and was first. *)
CloserIsFirst(r) == r.close \in {"chain", "final"} /\ r.wait = 0

(* The drain is over, its finally() has not run yet. *)
Settled(r) == r.drain \in {"drained", "failed"}

-----------------------------------------------------------------------------
(* Creating and opening a handle.  Handles are numbered in this order. *)

NextHandle(h) ==
  /\ handle[h].phase = "unused"
  /\ \A g \in 1..(h - 1) : handle[g].phase # "unused"

(* The tracker's pending entry: created here and not materialized yet. *)
Pending(p) ==
  /\ writer[p] # None
  /\ Alive(writer[p])
  /\ ~handle[writer[p]].materialized

(* create: no log of this id yet, and none pending in this process... *)
CreateCheck(p, h) ==
  /\ NextHandle(h)
  /\ ~disk.exists
  /\ ~Pending(p)
  /\ handle' = [handle EXCEPT ![h].phase = "creating", ![h].proc = p]
  /\ UNCHANGED <<disk, lock, writer, flusher, acked, crashes>>

(* ... then registerCreated, which finds out whether another call was first. *)
CreateRegister(h) ==
  LET p == handle[h].proc
  IN  /\ handle[h].phase = "creating"
      /\ IF writer[p] = None
         THEN /\ writer' = [writer EXCEPT ![p] = h]
              /\ handle' = [handle EXCEPT ![h].phase = "setup"]
         ELSE /\ handle' = [handle EXCEPT ![h] = Gone]
              /\ UNCHANGED writer
      /\ UNCHANGED <<disk, lock, flusher, acked, crashes>>

(* open for writing: the claim comes first. *)
OpenClaim(p, h) ==
  /\ NextHandle(h)
  /\ writer[p] = None
  /\ writer' = [writer EXCEPT ![p] = h]
  /\ handle' = [handle EXCEPT ![h].phase = "opening", ![h].proc = p]
  /\ UNCHANGED <<disk, lock, flusher, acked, crashes>>

OpenLock(h) ==
  /\ handle[h].phase = "opening"
  /\ disk.exists
  /\ lock = None
  /\ lock' = h
  /\ handle' = [handle EXCEPT ![h].phase = "locked", ![h].lease = "held"]
  /\ UNCHANGED <<disk, writer, flusher, acked, crashes>>

(* The stored log is read under the lock, torn bytes are noted for repair. *)
OpenRead(h) ==
  /\ handle[h].phase = "locked"
  /\ handle' = [handle EXCEPT ![h].phase = "setup",
                              ![h].seed = Len(Readable),
                              ![h].n = Len(Readable),
                              ![h].cursor = Len(Readable),
                              ![h].materialized = TRUE,
                              ![h].torn = disk.torn,
                              ![h].recovered = disk.tail]
  /\ UNCHANGED <<disk, lock, writer, flusher, acked, crashes>>

(* No log, the lock taken, an unreadable log, a cancelled call: the claim and
   the lock are given back. *)
OpenFails(h) ==
  /\ handle[h].phase \in {"opening", "locked"}
  /\ lock' = IF lock = h THEN None ELSE lock
  /\ writer' = [writer EXCEPT ![handle[h].proc] = None]
  /\ handle' = [handle EXCEPT ![h] = Gone]
  /\ UNCHANGED <<disk, flusher, acked, crashes>>

-----------------------------------------------------------------------------
(* What the methods do to a handle's state before they first wait. *)

(* drainLive joins the drain in flight, or starts one: drainBuffered stops
   the timer, resumes the automatic path and queues its first batch. *)
DrainLive(r) ==
  LET s == [r EXCEPT !.timer = FALSE, !.paused = FALSE]
  IN  CASE r.drain # "none" -> r
        [] r.drain = "none" /\ r.buffered = <<>> -> [s EXCEPT !.drain = "drained"]
        [] r.drain = "none" /\ r.buffered # <<>> ->
             [s EXCEPT !.drain = "running", !.chain = Append(@, "drain")]

(* Mutant: no timer is armed while a drain is known. *)
EnqueueUnarmed(r, seq) ==
  [r EXCEPT !.buffered = Append(@, seq),
            !.timer = @ \/ (~r.paused /\ r.drain = "none")]

(* enqueueLive *)
EnqueueLive(r, seq) ==
  [r EXCEPT !.buffered = Append(@, seq), !.timer = @ \/ ~r.paused]

(* Mutant: a failed batch goes behind what was published meanwhile. *)
Behind(batch, buffered) == buffered \o batch

(* The drain's loop looks at the buffer again... *)
MoreToDrain(r) == r.buffered # <<>>
(* ... and a failed batch goes back in front of it. *)
PutBack(batch, buffered) == batch \o buffered
(* One job less before the promise that close() awaits. *)
CountDown(n) == IF n = 0 THEN 0 ELSE n - 1

(* The job at the head of the chain has settled.  A drain that succeeded
   looks at the buffer again, one that failed puts its batch back. *)
JobDone(r, ok) ==
  LET s == [r EXCEPT !.chain = Tail(@), !.stage = "idle", !.batch = <<>>,
                     !.wait = CountDown(@)]
  IN  CASE Head(r.chain) = "flush" -> s
        [] Head(r.chain) = "append" ->
             [s EXCEPT !.phase = IF ok THEN "live" ELSE "aborted"]
        [] Head(r.chain) = "drain" /\ ok ->
             IF MoreToDrain(s) THEN [s EXCEPT !.chain = Append(@, "drain")]
                               ELSE [s EXCEPT !.drain = "drained"]
        [] Head(r.chain) = "drain" /\ ~ok ->
             [s EXCEPT !.buffered = PutBack(r.batch, @), !.paused = TRUE,
                       !.drain = "failed"]

(* The job's caller hears of it: what was promised is kept. *)
JobEnd(h, r, ok) ==
  LET job == Head(r.chain)
  IN  /\ handle' = [handle EXCEPT ![h] = JobDone(r, ok)]
      /\ flusher' = IF job = "flush" THEN NoFlush ELSE flusher
      /\ acked' = acked \cup
           CASE job = "append" /\ ok -> OwnEvents(h, r.n)
             [] job = "flush" /\ ok /\ ~flusher.stale ->
                  OwnEvents(h, flusher.cover)
             [] OTHER -> {}

-----------------------------------------------------------------------------
(* The owner: setup, the live session, close. *)

(* What setup appended to the unpublished session, or the closers of an
   interrupted turn, goes to the log first. *)
AppendSuffix(h) ==
  /\ handle[h].phase = "setup"
  /\ handle[h].close = "no"
  /\ handle[h].n < MaxEvents
  /\ handle' = [handle EXCEPT ![h].phase = "appending", ![h].n = @ + 1,
                              ![h].chain = Append(@, "append")]
  /\ UNCHANGED <<disk, lock, writer, flusher, acked, crashes>>

GoLive(h) ==
  /\ handle[h].phase = "setup"
  /\ handle[h].close = "no"
  /\ handle' = [handle EXCEPT ![h].phase = "live"]
  /\ UNCHANGED <<disk, lock, writer, flusher, acked, crashes>>

(* Published while writers routes the session's events to this handle. *)
Publish(h) ==
  LET r == handle[h]
  IN  /\ r.phase = "live"
      /\ writer[r.proc] = h
      /\ Reachable(r)
      /\ r.n < MaxEvents
      /\ handle' = [handle EXCEPT ![h] =
                      EnqueueLive([r EXCEPT !.n = @ + 1], r.n + 1)]
      /\ UNCHANGED <<disk, lock, writer, flusher, acked, crashes>>

(* A timer fires when no continuation is due: microtasks come first. *)
TimerFires(h) ==
  LET r == handle[h]
  IN  /\ r.timer
      /\ ~Settled(r) /\ ~CloserIsFirst(r) /\ r.close \notin {"ok", "failed"}
      /\ Reachable(r)
      /\ handle' = [handle EXCEPT ![h] = DrainLive([r EXCEPT !.timer = FALSE])]
      /\ UNCHANGED <<disk, lock, writer, flusher, acked, crashes>>

(* session/flush: drainLive, then flush.  A caller may join a drain that has
   found its buffer empty and whose finally() has not run yet. *)
FlushCall(h) ==
  LET r == handle[h]
  IN  /\ r.phase = "live"
      /\ writer[r.proc] = h
      /\ Reachable(r)
      /\ flusher = NoFlush
      /\ flusher' = [st |-> "drain", h |-> h, cover |-> r.n,
                     stale |-> Settled(r)]
      /\ handle' = [handle EXCEPT ![h] = DrainLive(r)]
      /\ UNCHANGED <<disk, lock, writer, acked, crashes>>

(* close(): a cancelled or failed setup, disposal, the backend's teardown. *)
Close(h) ==
  LET r == handle[h]
  IN  /\ r.phase \in {"setup", "aborted", "live"}
      /\ r.close = "no"
      /\ handle' = [handle EXCEPT ![h] = [DrainLive(r) EXCEPT !.close = "drain"]]
      /\ UNCHANGED <<disk, lock, writer, flusher, acked, crashes>>

-----------------------------------------------------------------------------
(* The mutation chain.  Each stage may also fail, see JobFails. *)

(* drain: the batch is what is buffered now.  append and flush refuse a
   closing handle; flush has nothing to do on a materialized one. *)
StartJob(h) ==
  LET r == handle[h]
  IN  /\ r.stage = "idle"
      /\ r.chain # <<>>
      /\ ~CloserIsFirst(r)
      /\ CASE Head(r.chain) = "drain" ->
                /\ handle' = [handle EXCEPT ![h].stage = "lease",
                                            ![h].batch = r.buffered,
                                            ![h].buffered = <<>>]
                /\ UNCHANGED <<flusher, acked>>
           [] Head(r.chain) = "append" /\ r.close = "no" ->
                /\ handle' = [handle EXCEPT ![h].stage = "lease",
                                            ![h].batch = <<r.n>>]
                /\ UNCHANGED <<flusher, acked>>
           [] Head(r.chain) = "flush" /\ r.close = "no" /\ ~r.materialized ->
                /\ handle' = [handle EXCEPT ![h].stage = "lease"]
                /\ UNCHANGED <<flusher, acked>>
           [] Head(r.chain) = "flush" /\ r.close = "no" /\ r.materialized ->
                JobEnd(h, r, TRUE)
           [] OTHER -> JobEnd(h, r, FALSE)
      /\ UNCHANGED <<disk, lock, writer, crashes>>

Contiguous(batch, cursor) ==
  \A i \in DOMAIN batch : batch[i] = cursor + i

(* ensureLease, then assertContiguous. *)
TakeLease(h) ==
  LET r == handle[h]
  IN  /\ r.stage = "lease"
      /\ Contiguous(r.batch, r.cursor)
      /\ \/ r.lease # "none" /\ UNCHANGED lock
         \/ r.lease = "none" /\ lock = None /\ lock' = h
      /\ handle' = [handle EXCEPT
           ![h].lease = IF @ = "none" THEN "held" ELSE @,
           ![h].stage = CASE r.torn -> "truncate"
                          [] ~r.torn /\ r.recovered # <<>> -> "rewrite"
                          [] OTHER -> "write"]
      /\ UNCHANGED <<disk, writer, flusher, acked, crashes>>

(* Mutant: one complete record too many is cut off. *)
TruncateTooMuch(d) ==
  [d EXCEPT !.torn = FALSE, !.tail = <<>>, !.log = IF @ = <<>> THEN @ ELSE Front(@)]

Truncated(d) == [d EXCEPT !.torn = FALSE, !.tail = <<>>]

TruncateTail(h) ==
  LET r == handle[h]
  IN  /\ r.stage = "truncate"
      /\ disk' = Truncated(disk)
      /\ handle' = [handle EXCEPT
           ![h].torn = FALSE,
           ![h].stage = IF r.recovered = <<>> THEN "write" ELSE "rewrite"]
      /\ UNCHANGED <<lock, writer, flusher, acked, crashes>>

(* Mutant: the recovered records are forgotten before they are written. *)
RewriteForgotten(h) ==
  LET r == handle[h]
  IN  /\ r.stage = "rewrite"
      /\ handle' = [handle EXCEPT ![h].recovered = <<>>, ![h].stage = "write"]
      /\ UNCHANGED <<disk, lock, writer, flusher, acked, crashes>>

RewriteTail(h) ==
  LET r == handle[h]
  IN  /\ r.stage = "rewrite"
      /\ disk' = Appended(disk, r.recovered)
      /\ handle' = [handle EXCEPT ![h].recovered = <<>>, ![h].stage = "write"]
      /\ UNCHANGED <<lock, writer, flusher, acked, crashes>>

(* Append and fsync, or publish the header and the first batch; a log that is
   already there is never published over. *)
Write(h) ==
  LET r == handle[h]
  IN  /\ r.stage = "write"
      /\ r.materialized \/ ~disk.exists
      /\ disk' = [Appended(disk, Stamp(h, r.batch)) EXCEPT !.exists = TRUE]
      /\ JobEnd(h, [r EXCEPT !.materialized = TRUE,
                             !.cursor = @ + Len(r.batch)], TRUE)
      /\ UNCHANGED <<lock, writer, crashes>>

(* The lock is taken, or the disk refuses.  A failed append is rolled back. *)
JobFails(h) ==
  /\ handle[h].stage # "idle"
  /\ JobEnd(h, handle[h], FALSE)
  /\ UNCHANGED <<disk, lock, writer, crashes>>

(* The log was linked in place, syncing its directory failed. *)
PublishedUnsynced(h) ==
  LET r == handle[h]
  IN  /\ r.stage = "write"
      /\ ~r.materialized
      /\ ~disk.exists
      /\ disk' = [disk EXCEPT !.exists = TRUE, !.log = Stamp(h, r.batch)]
      /\ JobEnd(h, r, FALSE)
      /\ UNCHANGED <<lock, writer, crashes>>

(* The finally() of drainLive; those who joined the drain go on. *)
DrainCleared(h) ==
  LET r == handle[h]
      ok == r.drain = "drained"
      joined == flusher.h = h /\ flusher.st = "drain"
      queued == joined /\ ok /\ r.close = "no"
  IN  /\ Settled(r)
      /\ handle' = [handle EXCEPT
           ![h].drain = "none",
           ![h].chain = IF queued THEN Append(@, "flush") ELSE @,
           ![h].close = CASE @ = "drain" /\ ok -> "ok"
                          [] @ = "drain" /\ ~ok -> "failed"
                          [] OTHER -> @]
      /\ flusher' = CASE queued -> [flusher EXCEPT !.st = "job"]
                      [] joined /\ ~queued -> NoFlush
                      [] OTHER -> flusher
      /\ UNCHANGED <<disk, lock, writer, acked, crashes>>

-----------------------------------------------------------------------------
(* close(), from its first drain on. *)

(* Mutant: close() does not wait for the chain. *)
NoJobs(r) == 0

(* The jobs before the promise that is this.chain now. *)
QueuedJobs(r) == Len(r.chain)

(* Each await of this.chain waits for the jobs that are queued at that time;
   a pass that leaves the buffer empty ends the loop, a failed drain too. *)
CloseResumes(h) ==
  LET r == handle[h]
  IN  /\ \/ r.close \in {"ok", "failed"}
         \/ r.close \in {"chain", "final"} /\ r.wait = 0
      /\ handle' = [handle EXCEPT ![h] =
           CASE r.close = "ok" -> [r EXCEPT !.close = "chain", !.wait = QueuedJobs(r)]
             [] r.close = "failed" -> [r EXCEPT !.close = "final",
                                                !.failure = TRUE,
                                                !.wait = QueuedJobs(r)]
             [] r.close = "chain" /\ r.buffered # <<>> ->
                  [DrainLive(r) EXCEPT !.close = "drain"]
             [] r.close = "chain" /\ r.buffered = <<>> ->
                  [r EXCEPT !.close = "final", !.wait = QueuedJobs(r)]
             [] r.close = "final" -> [r EXCEPT !.close = "release"]]
      /\ UNCHANGED <<disk, lock, writer, flusher, acked, crashes>>

(* The descriptor is closed.  When that fails the kernel may have dropped the
   lock or not. *)
ReleaseLease(h) ==
  LET r == handle[h]
      mine == lock = h
  IN  /\ r.close = "release"
      /\ \E ok \in (IF r.lease = "held" THEN BOOLEAN ELSE {TRUE}) :
           /\ handle' = [handle EXCEPT
                ![h].close = "forget",
                ![h].failure = @ \/ ~ok,
                ![h].lease = IF @ = "held" THEN "released" ELSE @]
           /\ lock' \in IF mine THEN IF ok THEN {None} ELSE {None, h} ELSE {lock}
      /\ UNCHANGED <<disk, writer, flusher, acked, crashes>>

(* releaseHandle, and close() settles. *)
ForgetHandle(h) ==
  LET r == handle[h]
  IN  /\ r.close = "forget"
      /\ writer' = [writer EXCEPT ![r.proc] = None]
      /\ handle' = [handle EXCEPT ![h] =
           IF r.timer \/ r.chain # <<>> \/ Settled(r)
           THEN [r EXCEPT !.close = "closed"]
           ELSE [Gone EXCEPT !.proc = IF lock = h THEN r.proc ELSE None]]
      /\ acked' = IF r.failure \/ r.phase # "live" THEN acked
                  ELSE acked \cup OwnEvents(h, r.n)
      /\ UNCHANGED <<disk, lock, flusher, crashes>>

-----------------------------------------------------------------------------
(* A process dies and starts again: the kernel frees its locks.  An append it
   was at is on disk whole, torn with some records complete, or not at all. *)

Interrupted(h) ==
  LET r == handle[h]
      records == CASE r.stage = "rewrite" -> r.recovered
                   [] r.stage = "write" -> Stamp(h, r.batch)
                   [] OTHER -> <<>>
      whole == [Appended(disk, records) EXCEPT !.exists = TRUE]
      partly == {[disk EXCEPT !.torn = TRUE, !.tail = SubSeq(records, 1, k)] :
                   k \in 0..Len(records)}
  IN  CASE r.stage = "rewrite" \/ (r.stage = "write" /\ r.materialized) ->
             {disk, whole} \cup partly
        [] r.stage = "write" /\ ~r.materialized /\ ~disk.exists -> {disk, whole}
        [] OTHER -> {disk}

Crash(p) ==
  LET dying == {h \in Handle : handle[h].proc = p}
  IN  /\ crashes < MaxCrashes
      /\ dying # {}
      /\ disk' \in {disk} \cup UNION {Interrupted(h) : h \in dying}
      /\ handle' = [h \in Handle |->
           IF h \in dying THEN Gone ELSE handle[h]]
      /\ lock' = IF lock \in dying THEN None ELSE lock
      /\ writer' = [writer EXCEPT ![p] = None]
      /\ flusher' = IF flusher.h \in dying THEN NoFlush ELSE flusher
      /\ crashes' = crashes + 1
      /\ UNCHANGED acked

Next ==
  \/ \E p \in Process, h \in Handle : CreateCheck(p, h) \/ OpenClaim(p, h)
  \/ \E h \in Handle :
       \/ CreateRegister(h) \/ OpenLock(h) \/ OpenRead(h) \/ OpenFails(h)
       \/ AppendSuffix(h) \/ GoLive(h) \/ Publish(h) \/ TimerFires(h)
       \/ FlushCall(h) \/ Close(h)
       \/ StartJob(h) \/ TakeLease(h) \/ TruncateTail(h) \/ RewriteTail(h)
       \/ Write(h) \/ JobFails(h) \/ PublishedUnsynced(h) \/ DrainCleared(h)
       \/ CloseResumes(h) \/ ReleaseLease(h) \/ ForgetHandle(h)
  \/ \E p \in Process : Crash(p)

Spec == Init /\ [][Next]_vars

-----------------------------------------------------------------------------
(* Properties *)

(* Events are contiguous from the first one on (session-persistence
   index.ts:118): whatever crashes, failed writes and successive owners did,
   the records a reader decodes are numbered 1, 2, 3... *)
LogContiguous ==
  \A i \in DOMAIN Readable : Readable[i].seq = i

(* A handle changes the file only while its own descriptor holds the kernel
   lock (lease.ts:2): successive owners never write at the same time. *)
WriterHoldsLock ==
  \A h \in Handle :
    handle[h].stage \in {"truncate", "rewrite", "write"} => lock = h

(* What a resolved append, flush or close promised is in the log for good:
   no crash, repair or later owner loses it, and a flush that resolves covers
   every event published before it was called.  The one flush left out joined
   a drain that had already found the buffer empty. *)
AckedDurable ==
  acked \subseteq ToSet(disk.log)

(* Between the cursor and the session's end, the batch being written and the
   buffer hold every event once and in order, also after a failed batch went
   back in front of what was published meanwhile (storage.ts:309). *)
BufferExact ==
  \A h \in Handle :
    LET r == handle[h]
    IN  r.phase = "live" =>
          r.batch \o r.buffered = [i \in 1..(r.n - r.cursor) |-> r.cursor + i]

(* A buffered event that is not being drained is waited for by the timer,
   unless a failed drain paused it: no event sits in the buffer of an open
   handle with nobody due to write it. *)
SomeoneWillDrain ==
  \A h \in Handle :
    LET r == handle[h]
    IN  r.buffered # <<>> /\ r.close = "no" =>
          r.timer \/ r.paused \/ r.drain = "running"
=============================================================================
