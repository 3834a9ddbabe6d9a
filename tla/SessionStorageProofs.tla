------------------------ MODULE SessionStorageProofs ------------------------
(***************************************************************************)
(* Theorems about SessionStorage for every set of processes, every number  *)
(* of handles, events and crashes, when nothing reaches a handle whose     *)
(* close() has looked at its buffer for the last time.                     *)
(***************************************************************************)
EXTENDS SessionStorage, TLAPS

Record == [seq : Nat, by : Handle]

Dormant == {"unused", "creating", "opening", "locked", "gone"}

Job == {"append", "drain", "flush"}

HandleRecord ==
  [phase : Dormant \cup {"setup", "appending", "aborted", "live"},
   proc : Process \cup {None}, seed : Nat, n : Nat, cursor : Nat,
   materialized : BOOLEAN, torn : BOOLEAN, recovered : Seq(Record),
   lease : {"none", "held", "released"}, chain : Seq(Job),
   stage : {"idle", "lease", "truncate", "rewrite", "write"}, batch : Seq(Nat),
   buffered : Seq(Nat), timer : BOOLEAN, paused : BOOLEAN,
   drain : {"none", "running", "drained", "failed"},
   close : {"no", "drain", "ok", "failed", "chain", "final", "release", "forget",
            "closed"},
   wait : Nat, failure : BOOLEAN]

File == [exists : BOOLEAN, log : Seq(Record), torn : BOOLEAN, tail : Seq(Record)]
Caller == [st : {"idle", "drain", "job"}, h : Handle \cup {None}, cover : Nat, stale : BOOLEAN]

Types ==
  /\ handle \in [Handle -> HandleRecord]
  /\ disk \in File
  /\ lock \in Handle \cup {None}
  /\ flusher \in Caller

Has(chain, job) == \E i \in DOMAIN chain : chain[i] = job
Distinct(chain) == \A i, j \in DOMAIN chain : chain[i] = chain[j] => i = j
Queued(r, job) == Has(r.chain, job)

(* The records of a log that begins behind the first `base` ones. *)
Numbered(log, base) == \A i \in DOMAIN log : log[i].seq = base + i

(* The mutation chain: every job is queued once, a queued drain is known as
   running, and only a job that writes events has a batch. *)
ChainOK(r) ==
  /\ Distinct(r.chain)
  /\ Queued(r, "drain") => r.drain = "running"
  /\ r.stage # "idle" => r.chain # <<>>
  /\ r.stage = "idle" \/ Head(r.chain) = "flush" => r.batch = <<>>

(* Between the cursor and the session's end: the batch, then the buffer. *)
Window(r) ==
  /\ r.cursor + Len(r.batch) + Len(r.buffered) = r.n
  /\ Contiguous(r.batch, r.cursor)
  /\ Contiguous(r.buffered, r.cursor + Len(r.batch))

Untouched(r) == r.drain = "none" /\ ~r.timer

PhaseOK(r) ==
  /\ r.phase \in Dormant =>
       /\ r.n = 0 /\ r.cursor = 0 /\ r.seed = 0 /\ r.chain = <<>> /\ r.buffered = <<>>
       /\ r.close = "no" /\ ~r.materialized /\ Untouched(r)
       /\ r.lease = IF r.phase = "locked" THEN "held" ELSE "none"
  /\ r.phase = "setup" =>
       /\ r.n = r.cursor /\ r.seed = r.cursor /\ r.chain = <<>> /\ r.buffered = <<>>
       /\ r.close = "no" => Untouched(r)
  /\ r.phase = "appending" =>
       /\ r.n = r.cursor + 1 /\ r.seed = r.cursor /\ r.chain = <<"append">>
       /\ r.buffered = <<>> /\ r.close = "no" /\ Untouched(r)
       /\ r.stage # "idle" => r.batch = <<r.n>>
  /\ r.phase = "aborted" =>
       /\ r.chain = <<>> /\ r.buffered = <<>>
       /\ r.close = "no" => Untouched(r)
  /\ r.phase = "live" => ~Queued(r, "append") /\ Window(r)

(* close() outlives every job, and when it settles without a failure nothing
   is left to be written. *)
CloseOK(r) ==
  /\ CloserIsFirst(r) => r.stage = "idle"
  /\ r.close = "failed" => ~Queued(r, "drain")
  /\ r.close = "final" => /\ r.wait = Len(r.chain)
                          /\ r.buffered = <<>> \/ ~Queued(r, "drain")
  /\ r.close \in {"release", "forget", "closed"} => r.chain = <<>>
  /\ r.close \in {"final", "release", "forget"} /\ r.phase = "live" /\ ~r.failure
       => r.n = r.cursor /\ r.batch = <<>> /\ r.buffered = <<>>

DrainDue(r) ==
  r.buffered # <<>> /\ r.close = "no" => r.timer \/ r.paused \/ r.drain = "running"

(* A job that changes the file has the lease, checked its batch against the
   cursor, and has repaired the tail first. *)
LeaseOK(r) ==
  /\ r.lease = "released" => r.close \in {"forget", "closed"}
  /\ r.stage \in {"truncate", "rewrite", "write"} =>
       r.lease = "held" /\ Contiguous(r.batch, r.cursor)
  /\ r.materialized => r.lease # "none"
  /\ ~r.materialized => r.cursor = 0 /\ ~r.torn /\ r.recovered = <<>>
  /\ r.stage \in {"rewrite", "write"} => ~r.torn
  /\ r.stage = "rewrite" => r.recovered # <<>>
  /\ r.stage = "write" => r.recovered = <<>>

RecordOK(r) == ChainOK(r) /\ PhaseOK(r) /\ CloseOK(r) /\ DrainDue(r) /\ LeaseOK(r)

RecordsOK == \A h \in Handle : RecordOK(handle[h])

LockOK == \A h \in Handle : handle[h].lease = "held" => lock = h

(* The file, and what the one handle that may change it believes of it. *)
FileOK(d) ==
  /\ ~d.exists => d.log = <<>> /\ ~d.torn
  /\ ~d.torn => d.tail = <<>>
  /\ Numbered(d.log, 0)
  /\ Numbered(d.tail, Len(d.log))

DiskOK == FileOK(disk)

View(r, d) ==
  /\ r.phase = "locked" => d.exists
  /\ r.materialized /\ r.lease = "held" =>
       /\ d.exists
       /\ r.torn = d.torn
       /\ r.torn => r.recovered = d.tail
       /\ r.cursor = Len(d.log) + Len(r.recovered)
       /\ Numbered(r.recovered, Len(d.log))

ViewOK == \A h \in Handle : View(handle[h], disk)

InLog(log, e) == \E i \in DOMAIN log : log[i] = e

(* What a handle's cursor has passed since its seed is in the log. *)
Own(h, r, log) ==
  \A i \in (r.seed + 1)..r.cursor : InLog(log, [seq |-> i, by |-> h])

OwnOK == \A h \in Handle : Own(h, handle[h], disk.log)

AckedOK == \A e \in acked : InLog(disk.log, e)

(* The caller of session/flush: its flush is queued once, behind a drain that
   has moved the cursor past what it covers. *)
Flush(h, r, f) ==
  /\ Queued(r, "flush") =>
       /\ f.st = "job" /\ f.h = h
       /\ ~f.stale => f.cover <= r.cursor
  /\ f.h = h => r.phase \in {"live", "gone"}
  /\ f.h = h /\ r.phase = "live" => f.cover <= r.n
  /\ f.h = h /\ f.st = "drain" /\ ~f.stale /\ r.drain = "drained"
       => f.cover <= r.cursor

FlushOK == \A h \in Handle : Flush(h, handle[h], flusher)

IInv == /\ Types /\ RecordsOK /\ LockOK /\ DiskOK /\ ViewOK /\ OwnOK /\ AckedOK
        /\ FlushOK

-----------------------------------------------------------------------------
(* Chains of jobs, and numbered sequences. *)

(* The head of a chain, and what is queued when it is gone. *)
LEMMA ChainTail ==
  ASSUME NEW c \in Seq(Job), c # <<>>, Distinct(c)
  PROVE  /\ Head(c) \in Job /\ Has(c, Head(c))
         /\ Tail(c) \in Seq(Job) /\ Distinct(Tail(c)) /\ Len(c) = Len(Tail(c)) + 1
         /\ \A job \in Job : Has(Tail(c), job) <=> Has(c, job) /\ job # Head(c)
<1>1. /\ Len(c) \in Nat \ {0} /\ DOMAIN c = 1..Len(c)
      /\ Tail(c) \in Seq(Job) /\ Len(Tail(c)) = Len(c) - 1
      /\ DOMAIN Tail(c) = 1..(Len(c) - 1)
      /\ \A i \in 1..(Len(c) - 1) : Tail(c)[i] = c[i + 1]
      /\ Head(c) = c[1] /\ c[1] \in Job
  OBVIOUS
<1>2. Distinct(Tail(c))
  BY <1>1 DEF Distinct
<1>3. ASSUME NEW job \in Job, Has(Tail(c), job) PROVE Has(c, job) /\ job # Head(c)
  BY <1>1, <1>3 DEF Has, Distinct
<1>4. ASSUME NEW job \in Job, Has(c, job), job # Head(c) PROVE Has(Tail(c), job)
  <2>1. PICK i \in 1..Len(c) : c[i] = job
    BY <1>1, <1>4 DEF Has
  <2>2. i - 1 \in 1..(Len(c) - 1) /\ c[(i - 1) + 1] = job
    BY <2>1, <1>1, <1>4
  <2> QED BY <2>2, <1>1 DEF Has
<1> QED BY <1>1, <1>2, <1>3, <1>4 DEF Has

(* A job that is queued behind the others. *)
LEMMA ChainAppend ==
  ASSUME NEW c \in Seq(Job), Distinct(c), NEW job \in Job, ~Has(c, job)
  PROVE  /\ Append(c, job) \in Seq(Job) /\ Distinct(Append(c, job))
         /\ Append(c, job) # <<>> /\ Len(Append(c, job)) = Len(c) + 1
         /\ c # <<>> => Head(Append(c, job)) = Head(c)
         /\ c = <<>> => Head(Append(c, job)) = job
         /\ \A other \in Job : Has(Append(c, job), other) <=> Has(c, other) \/ other = job
<1> DEFINE d == Append(c, job)
<1>1. /\ d \in Seq(Job) /\ Len(d) = Len(c) + 1 /\ Len(c) \in Nat
      /\ DOMAIN c = 1..Len(c) /\ DOMAIN d = 1..(Len(c) + 1)
      /\ d[Len(c) + 1] = job /\ \A i \in 1..Len(c) : d[i] = c[i]
  OBVIOUS
<1>2. /\ d # <<>> /\ Head(d) = d[1]
      /\ c # <<>> => Head(c) = c[1] /\ Len(c) > 0
      /\ c = <<>> => Len(c) = 0
  OBVIOUS
<1> HIDE DEF d
<1>4. Distinct(d)
  BY <1>1 DEF Distinct, Has
<1>5. \A other \in Job : Has(d, other) <=> Has(c, other) \/ other = job
  BY <1>1 DEF Has
<1>6. (c # <<>> => Head(d) = Head(c)) /\ (c = <<>> => Head(d) = job)
  BY <1>1, <1>2
<1> QED BY <1>1, <1>2, <1>4, <1>5, <1>6 DEF d

(* An empty chain. *)
LEMMA ChainEmpty ==
  /\ <<>> \in Seq(Job) /\ Distinct(<<>>) /\ Len(<<>>) = 0
  /\ \A job \in Job : ~Has(<<>>, job)
  /\ \A c \in Seq(Job) : Len(c) \in Nat /\ (Len(c) = 0 <=> c = <<>>)
BY DEF Distinct, Has

(* Numbers in a row: one more, and two rows behind each other. *)
LEMMA Rows ==
  ASSUME NEW base \in Nat, NEW s \in Seq(Nat), NEW t \in Seq(Nat)
  PROVE  /\ Contiguous(<<>>, base)
         /\ Contiguous(s, base) =>
              Contiguous(Append(s, base + Len(s) + 1), base)
         /\ Contiguous(s, base) /\ Contiguous(t, base + Len(s)) =>
              Contiguous(s \o t, base)
<1>1. Contiguous(<<>>, base)
  BY DEF Contiguous
<1>2. ASSUME Contiguous(s, base) PROVE Contiguous(Append(s, base + Len(s) + 1), base)
  <2>1. \A i \in 1..Len(s) : s[i] = base + i
    BY <1>2 DEF Contiguous
  <2> DEFINE t1 == Append(s, base + Len(s) + 1)
  <2>2. /\ \A i \in 1..Len(s) : t1[i] = s[i]
        /\ t1[Len(s) + 1] = base + (Len(s) + 1)
        /\ DOMAIN t1 = 1..(Len(s) + 1) /\ Len(s) \in Nat
    OBVIOUS
  <2> HIDE DEF t1
  <2>3. ASSUME NEW i \in 1..(Len(s) + 1) PROVE t1[i] = base + i
    <3>1. CASE i = Len(s) + 1
      BY <3>1, <2>2
    <3>2. CASE i # Len(s) + 1
      <4>1. i \in 1..Len(s)
        BY <3>2, <2>2
      <4> QED BY <4>1, <2>1, <2>2
    <3> QED BY <3>1, <3>2
  <2> QED BY <2>2, <2>3 DEF Contiguous, t1
<1>3. ASSUME Contiguous(s, base), Contiguous(t, base + Len(s))
      PROVE  Contiguous(s \o t, base)
  <2>1. /\ \A i \in 1..Len(s) : s[i] = base + i
        /\ \A i \in 1..Len(t) : t[i] = base + Len(s) + i
    BY <1>3 DEF Contiguous
  <2>2. ASSUME NEW i \in 1..(Len(s) + Len(t)) PROVE (s \o t)[i] = base + i
    BY <2>1
  <2>3. s \o t \in Seq(Nat) /\ Len(s \o t) = Len(s) + Len(t)
    OBVIOUS
  <2> QED BY <2>2, <2>3 DEF Contiguous
<1> QED BY <1>1, <1>2, <1>3

-----------------------------------------------------------------------------
(* What a step may not change of a handle unless it changes the file. *)
SameView(r, s) ==
  /\ s.lease = r.lease /\ s.materialized = r.materialized /\ s.torn = r.torn
  /\ s.recovered = r.recovered /\ s.cursor = r.cursor /\ s.seed = r.seed

(* drainLive, for a handle whose close() is not past its buffer. *)
LEMMA DrainLiveOK ==
  ASSUME NEW r \in HandleRecord, ChainOK(r), PhaseOK(r), CloseOK(r), LeaseOK(r),
         NEW c \in {r.close, "drain"}, ~Late(r),
         r.phase \in {"setup", "aborted", "live"},
         r.phase # "live" => c # "no",
         c = "no" /\ Settled(r) => DrainDue(r)
  PROVE  LET s == [DrainLive(r) EXCEPT !.close = c]
         IN  /\ s \in HandleRecord /\ RecordOK(s) /\ SameView(r, s)
             /\ s.phase = r.phase /\ s.n = r.n
             /\ Queued(s, "flush") => Queued(r, "flush")
             /\ s.drain = "drained" => r.drain = "drained" \/ r.phase # "live" \/ r.n = r.cursor
<1> DEFINE s == [DrainLive(r) EXCEPT !.close = c]
<1>1. c \in {"no", "drain", "ok", "chain"}
  BY DEF Late, HandleRecord
<1>2. CASE r.drain # "none"
  <2>1. s = [r EXCEPT !.close = c]
    BY <1>2 DEF DrainLive
  <2> HIDE DEF s
  <2>2. s \in HandleRecord /\ SameView(r, s)
    BY ZenonT(40), <2>1, <1>1 DEF HandleRecord, SameView
  <2>3. ChainOK(s)
    BY <2>1 DEF HandleRecord, ChainOK, Queued
  <2>4. PhaseOK(s)
    BY <2>1, <1>1, <1>2 DEF HandleRecord, PhaseOK, Untouched, Queued, Window, Dormant
  <2>5. CloseOK(s)
    BY <2>1, <1>1 DEF HandleRecord, CloseOK, CloserIsFirst, Queued
  <2>6. DrainDue(s)
    BY <2>1, <1>2 DEF HandleRecord, DrainDue, Settled
  <2>7. LeaseOK(s)
    BY <2>1, <1>1 DEF HandleRecord, LeaseOK, Late
  <2> QED BY <2>1, <2>2, <2>3, <2>4, <2>5, <2>6, <2>7 DEF HandleRecord, RecordOK, Queued, s
<1>3. CASE r.drain = "none" /\ r.buffered = <<>>
  <2>1. s = [r EXCEPT !.timer = FALSE, !.paused = FALSE, !.drain = "drained", !.close = c]
    BY <1>3 DEF DrainLive
  <2> HIDE DEF s
  <2>2. s \in HandleRecord /\ SameView(r, s)
    BY ZenonT(40), <2>1, <1>1 DEF HandleRecord, SameView
  <2>3. ChainOK(s)
    BY <2>1, <1>3 DEF HandleRecord, ChainOK, Queued
  <2>4. PhaseOK(s)
    BY <2>1, <1>1, <1>3 DEF HandleRecord, PhaseOK, Untouched, Queued, Window, Dormant
  <2>5. CloseOK(s)
    BY <2>1, <1>1 DEF HandleRecord, CloseOK, CloserIsFirst, Queued
  <2>6. DrainDue(s)
    BY <2>1, <1>3 DEF HandleRecord, DrainDue, Settled
  <2>7. LeaseOK(s)
    BY <2>1, <1>1 DEF HandleRecord, LeaseOK, Late
  <2>8. r.phase = "live" => r.n = r.cursor
    <3>1. r.phase = "live" => r.batch = <<>>
      <4>1. r.chain \in Seq(Job) /\ r.batch \in Seq(Nat)
        BY DEF HandleRecord
      <4>2. r.chain # <<>> => Head(r.chain) \in Job /\ Has(r.chain, Head(r.chain))
        BY <4>1, ChainTail DEF ChainOK
      <4> QED BY <4>2, <1>3 DEF ChainOK, PhaseOK, Queued, Job
    <3> QED BY <3>1, <1>3 DEF PhaseOK, Window, HandleRecord
  <2> QED BY ZenonT(40), <2>1, <2>2, <2>3, <2>4, <2>5, <2>6, <2>7, <2>8
         DEF HandleRecord, RecordOK, Queued, s
<1>4. CASE r.drain = "none" /\ r.buffered # <<>>
  <2> DEFINE d == Append(r.chain, "drain")
  <2>1. s = [r EXCEPT !.timer = FALSE, !.paused = FALSE, !.drain = "running", !.chain = d, !.close = c]
    BY <1>4 DEF DrainLive
  <2>a. /\ d \in Seq(Job) /\ Distinct(d) /\ d # <<>>
        /\ r.chain # <<>> => Head(d) = Head(r.chain)
        /\ r.chain = <<>> => Head(d) = "drain"
        /\ \A other \in Job : Has(d, other) <=> Has(r.chain, other) \/ other = "drain"
    <3>1. ~Has(r.chain, "drain") /\ Distinct(r.chain)
      BY <1>4 DEF ChainOK, Queued
    <3>2. r.chain \in Seq(Job) /\ "drain" \in Job
      BY DEF HandleRecord, Job
    <3> QED BY <3>1, <3>2, ChainAppend
  <2> HIDE DEF s, d
  <2>b. r.phase = "live"
    BY <1>4 DEF PhaseOK
  <2>2. s \in HandleRecord /\ SameView(r, s)
    BY ZenonT(40), <2>1, <1>1, <2>a DEF HandleRecord, SameView
  <2>3. ChainOK(s)
    BY <2>1, <1>4, <2>a DEF HandleRecord, ChainOK, Queued, Job
  <2>4. PhaseOK(s)
    BY <2>1, <2>b, <2>a DEF HandleRecord, PhaseOK, Queued, Window, Dormant, Job
  <2>5. CloseOK(s)
    BY <2>1, <1>1 DEF HandleRecord, CloseOK, CloserIsFirst, Queued
  <2>6. DrainDue(s)
    BY <2>1, <1>3 DEF HandleRecord, DrainDue, Settled
  <2>7. LeaseOK(s)
    BY <2>1, <1>1 DEF HandleRecord, LeaseOK, Late
  <2>8. /\ s.phase = r.phase /\ s.n = r.n /\ s.drain # "drained"
        /\ Queued(s, "flush") => Queued(r, "flush")
    BY <2>1, <2>a DEF HandleRecord, Queued, Job
  <2> QED BY <2>2, <2>3, <2>4, <2>5, <2>6, <2>7, <2>8 DEF RecordOK, s
<1> QED BY <1>2, <1>3, <1>4 DEF HandleRecord

-----------------------------------------------------------------------------
(* What the end of a job does to its handle, by the job. *)
Ends(r, ok, s) ==
  LET job == Head(r.chain)
  IN  /\ s \in HandleRecord /\ SameView(r, s)
      /\ s.n = r.n /\ s.close = r.close /\ s.timer = r.timer
      /\ s.failure = r.failure /\ s.stage = "idle" /\ s.batch = <<>>
      /\ s.wait = CountDown(r.wait)
      /\ job # "append" => s.phase = r.phase
      /\ job # "drain" => /\ s.chain = Tail(r.chain) /\ s.buffered = r.buffered
                          /\ s.paused = r.paused /\ s.drain = r.drain
      /\ job = "append" => s.phase = IF ok THEN "live" ELSE "aborted"
      /\ job = "drain" /\ ok =>
           /\ s.buffered = r.buffered /\ s.paused = r.paused
           /\ r.buffered = <<>> => s.drain = "drained" /\ s.chain = Tail(r.chain)
           /\ r.buffered # <<>> => /\ s.drain = r.drain
                                   /\ s.chain = Append(Tail(r.chain), "drain")
      /\ job = "drain" /\ ~ok =>
           /\ s.buffered = r.batch \o r.buffered /\ s.paused = TRUE
           /\ s.drain = "failed" /\ s.chain = Tail(r.chain)

(* JobDone is that end. *)
LEMMA JobEffect ==
  ASSUME NEW r \in HandleRecord, r.chain # <<>>, NEW ok \in BOOLEAN
  PROVE  Ends(r, ok, JobDone(r, ok))
<1> DEFINE s == JobDone(r, ok)
           t == [r EXCEPT !.chain = Tail(@), !.stage = "idle", !.batch = <<>>,
                          !.wait = CountDown(@)]
<1>1. /\ Head(r.chain) \in Job /\ Tail(r.chain) \in Seq(Job)
      /\ Append(Tail(r.chain), "drain") \in Seq(Job)
      /\ r.batch \o r.buffered \in Seq(Nat) /\ CountDown(r.wait) \in Nat
      /\ <<>> \in Seq(Nat)
  BY DEF HandleRecord, Job, CountDown
<1>a. t \in HandleRecord
  BY <1>1 DEF HandleRecord
<1>2. /\ t.chain = Tail(r.chain) /\ t.buffered = r.buffered
      /\ SameView(r, t) /\ t.n = r.n /\ t.close = r.close /\ t.timer = r.timer
      /\ t.failure = r.failure /\ t.stage = "idle" /\ t.batch = <<>>
      /\ t.wait = CountDown(r.wait) /\ t.phase = r.phase /\ t.paused = r.paused
      /\ t.drain = r.drain
  BY DEF HandleRecord, SameView
<1>3. CASE Head(r.chain) = "flush"
  <2>1. s = t
    BY <1>3 DEF JobDone
  <2> QED BY <2>1, <1>a, <1>2, <1>3 DEF Ends
<1>4. CASE Head(r.chain) = "append"
  <2>1. s = [t EXCEPT !.phase = IF ok THEN "live" ELSE "aborted"]
    BY <1>4 DEF JobDone
  <2> HIDE DEF s, t
  <2>2. Ends(r, ok, s)
    BY ZenonT(40), <2>1, <1>a, <1>2, <1>4 DEF HandleRecord, SameView, Ends
  <2> QED BY <2>2 DEF s
<1>5. CASE Head(r.chain) = "drain" /\ ok /\ r.buffered # <<>>
  <2>1. s = [t EXCEPT !.chain = Append(Tail(r.chain), "drain")]
    BY <1>5, <1>2 DEF JobDone, MoreToDrain
  <2> HIDE DEF s, t
  <2>2. Ends(r, ok, s)
    BY <2>1, <1>1, <1>a, <1>2, <1>5 DEF HandleRecord, SameView, Ends
  <2> QED BY <2>2 DEF s
<1>6. CASE Head(r.chain) = "drain" /\ ok /\ r.buffered = <<>>
  <2>1. s = [t EXCEPT !.drain = "drained"]
    BY <1>6, <1>2 DEF JobDone, MoreToDrain
  <2> HIDE DEF s, t
  <2>2. Ends(r, ok, s)
    BY ZenonT(40), <2>1, <1>a, <1>2, <1>6 DEF HandleRecord, SameView, Ends
  <2> QED BY <2>2 DEF s
<1>7. CASE Head(r.chain) = "drain" /\ ~ok
  <2>1. s = [t EXCEPT !.buffered = r.batch \o r.buffered, !.paused = TRUE,
                      !.drain = "failed"]
    BY <1>7, <1>2 DEF JobDone, PutBack
  <2> HIDE DEF s, t
  <2>2. Ends(r, ok, s)
    BY ZenonT(40), <2>1, <1>1, <1>a, <1>2, <1>7 DEF HandleRecord, SameView, Ends
  <2> QED BY <2>2 DEF s
<1> QED BY <1>1, <1>3, <1>4, <1>5, <1>6, <1>7 DEF Job

(* What is queued after a job has ended. *)
LEMMA EndsChain ==
  ASSUME NEW r \in HandleRecord, ChainOK(r), r.chain # <<>>, NEW ok \in BOOLEAN,
         NEW s, Ends(r, ok, s)
  PROVE  /\ ChainOK(s)
         /\ Head(r.chain) \in Job /\ Queued(r, Head(r.chain))
         /\ \A job \in Job : Queued(s, job) =>
              /\ Queued(r, job)
              /\ job = Head(r.chain) => job = "drain" /\ ok /\ r.buffered # <<>>
         /\ \A job \in Job : Queued(r, job) /\ job # Head(r.chain) => Queued(s, job)
         /\ Len(r.chain) \in Nat /\ Len(r.chain) > 0
         /\ ~(Head(r.chain) = "drain" /\ ok /\ r.buffered # <<>>) =>
              Len(s.chain) = Len(r.chain) - 1
<1> DEFINE c == r.chain
           again == Head(c) = "drain" /\ ok /\ r.buffered # <<>>
<1>1. /\ c \in Seq(Job) /\ Distinct(c) /\ Head(c) \in Job /\ Has(c, Head(c))
      /\ Tail(c) \in Seq(Job) /\ Distinct(Tail(c)) /\ Len(c) = Len(Tail(c)) + 1
      /\ Len(Tail(c)) \in Nat
      /\ \A job \in Job : Has(Tail(c), job) <=> Has(c, job) /\ job # Head(c)
  <2>1. c \in Seq(Job) /\ Distinct(c)
    BY DEF HandleRecord, ChainOK
  <2> QED BY <2>1, ChainTail, ChainEmpty
<1> HIDE DEF c
<1>2. CASE ~again
  <2>1. s.chain = Tail(c) /\ (s.drain = r.drain \/ Head(c) = "drain") /\ s.stage = "idle" /\ s.batch = <<>>
    BY <1>1, <1>2 DEF Ends, c, Job
  <2>2. Queued(s, "drain") => s.drain = "running"
    BY <2>1, <1>1 DEF Queued, ChainOK, Job, c
  <2> QED BY <1>1, <1>2, <2>1, <2>2 DEF ChainOK, Queued, c
<1>3. CASE again
  <2>1. s.chain = Append(Tail(c), "drain") /\ s.drain = r.drain /\ s.stage = "idle" /\ s.batch = <<>>
    BY <1>1, <1>3 DEF Ends, c, Job
  <2>2. ~Has(Tail(c), "drain") /\ "drain" \in Job
    BY <1>1, <1>3 DEF Job
  <2> DEFINE d == Append(Tail(c), "drain")
  <2>a. /\ Distinct(d) /\ d # <<>>
        /\ \A other \in Job : Has(d, other) <=> Has(Tail(c), other) \/ other = "drain"
    BY <2>2, <1>1, ChainAppend
  <2> HIDE DEF d
  <2>3. /\ Distinct(s.chain) /\ s.chain # <<>>
        /\ \A other \in Job : Has(s.chain, other) <=> Has(Tail(c), other) \/ other = "drain"
    BY <2>a, <2>1 DEF d
  <2>4. ChainOK(s)
    BY <2>1, <2>3, <1>1, <1>3 DEF ChainOK, Queued, c
  <2> QED BY <1>1, <1>3, <2>3, <2>4 DEF Queued, c
<1> QED BY <1>2, <1>3

(* A job that wrote nothing: it was refused, it failed, or had nothing to do. *)
LEMMA JobOverOK ==
  ASSUME NEW r \in HandleRecord, RecordOK(r), r.chain # <<>>, NEW ok \in BOOLEAN,
         ok => Head(r.chain) = "flush", NEW s, Ends(r, ok, s)
  PROVE  RecordOK(s)
<1> USE DEF RecordOK
<1>1. /\ ChainOK(s)
      /\ Head(r.chain) \in Job /\ Queued(r, Head(r.chain))
      /\ \A job \in Job : Queued(s, job) =>
           /\ Queued(r, job) /\ job # Head(r.chain)
      /\ Len(r.chain) \in Nat /\ Len(r.chain) > 0
      /\ Len(s.chain) = Len(r.chain) - 1
  BY EndsChain
<1>2. PhaseOK(s)
  <2>1. CASE Head(r.chain) = "append"
    <3>1. r.phase = "appending"
      BY <2>1, <1>1, ChainEmpty DEF PhaseOK, HandleRecord, Queued
    <3>2. s.phase = "aborted" /\ s.buffered = <<>> /\ s.close = "no" /\ Untouched(s)
      BY <3>1, <2>1 DEF Ends, PhaseOK, Untouched
    <3>3. s.chain = <<>>
      <4>1. Tail(<<"append">>) = <<>>
        OBVIOUS
      <4>2. r.chain = <<"append">> /\ s.chain = Tail(r.chain)
        BY <3>1, <2>1 DEF PhaseOK, Ends
      <4> QED BY <4>1, <4>2
    <3> QED BY <3>2, <3>3 DEF PhaseOK, Dormant
  <2>2. CASE Head(r.chain) # "append"
    <3>1. r.phase = "live" /\ s.phase = "live" /\ ~Queued(s, "append")
      BY SMTT(30), <2>2, <1>1, ChainEmpty DEF PhaseOK, HandleRecord, Ends, Job
    <3>2. CASE Head(r.chain) = "flush"
      <4>1. r.batch = <<>>
        BY <3>2 DEF ChainOK
      <4> QED BY <4>1, <3>1, <3>2 DEF PhaseOK, Window, Ends, SameView, Dormant
    <3>3. CASE Head(r.chain) = "drain"
      <4>1. /\ s.buffered = r.batch \o r.buffered /\ s.batch = <<>>
            /\ s.cursor = r.cursor /\ s.n = r.n
        BY <3>3 DEF Ends, SameView
      <4>2. /\ r.batch \in Seq(Nat) /\ r.buffered \in Seq(Nat) /\ r.cursor \in Nat
            /\ Window(r) /\ r.n \in Nat
        BY <3>1 DEF HandleRecord, PhaseOK
      <4>3. Contiguous(s.buffered, s.cursor) /\ Contiguous(<<>>, s.cursor)
        BY <4>1, <4>2, Rows DEF Window
      <4>4. Len(s.buffered) = Len(r.batch) + Len(r.buffered) /\ Len(s.batch) = 0
        BY <4>1, <4>2
      <4>5. s.cursor + 0 = s.cursor /\ s.cursor + Len(s.buffered) = s.n
        <5>1. Len(r.batch) \in Nat /\ Len(r.buffered) \in Nat
          BY <4>2
        <5>2. r.cursor + Len(r.batch) + Len(r.buffered) = r.n
          BY <4>2 DEF Window
        <5>3. /\ s.cursor = r.cursor /\ s.n = r.n
              /\ r.cursor \in Nat /\ s.cursor \in Nat /\ r.n \in Nat
          BY <4>1, <4>2
        <5>a. \A a, b, c \in Nat : a + b + c = a + (b + c)
          OBVIOUS
        <5>b. r.cursor + Len(r.batch) + Len(r.buffered) = r.cursor + (Len(r.batch) + Len(r.buffered))
          BY ZenonT(40), <5>a, <5>1, <5>3
        <5>4. s.cursor + (Len(r.batch) + Len(r.buffered)) = s.n
          BY <5>b, <5>2, <5>3
        <5>5. s.cursor + 0 = s.cursor
          BY <5>3
        <5> QED BY <5>4, <5>5, <4>4
      <4>6. Window(s)
        BY <4>1, <4>3, <4>4, <4>5 DEF Window
      <4> QED BY <4>6, <3>1 DEF PhaseOK, Dormant
    <3> QED BY <3>2, <3>3, <2>2, <1>1 DEF Job
  <2> QED BY <2>1, <2>2
<1>3. CloseOK(s)
  <2>1. CloserIsFirst(s) => s.stage = "idle"
    BY DEF Ends
  <2>2. s.close = "failed" => ~Queued(s, "drain")
    BY <1>1 DEF Ends, CloseOK, Job
  <2>3. s.close = "final" => s.wait = Len(s.chain)
    BY <1>1 DEF Ends, CloseOK, CountDown
  <2>4. s.close = "final" => s.buffered = <<>> \/ ~Queued(s, "drain")
    BY <1>1 DEF Ends, CloseOK, Job
  <2>5. s.close \notin {"release", "forget", "closed"}
    BY DEF Ends, CloseOK
  <2>6. s.close = "final" /\ s.phase = "live" /\ ~s.failure =>
          s.n = s.cursor /\ s.batch = <<>> /\ s.buffered = <<>>
    <3>1. ASSUME s.close = "final", s.phase = "live", ~s.failure
          PROVE  s.n = s.cursor /\ s.buffered = <<>>
      <4>1. r.close = "final" /\ ~r.failure /\ Head(r.chain) # "append" /\ r.phase = "live"
        <5>1. r.phase = "appending" => r.close = "no"
          BY DEF PhaseOK
        <5> QED BY <3>1, <5>1, <1>1, ChainEmpty DEF Ends, PhaseOK, HandleRecord, Queued
      <4>2. r.n = r.cursor /\ r.batch = <<>> /\ r.buffered = <<>>
        BY <4>1 DEF CloseOK
      <4>3. <<>> \o <<>> = <<>>
        OBVIOUS
      <4> QED BY <4>1, <4>2, <4>3, <1>1 DEF Ends, SameView, Job
    <3> QED BY <3>1 DEF Ends
  <2> QED BY <2>1, <2>2, <2>3, <2>4, <2>5, <2>6 DEF CloseOK
<1>4. DrainDue(s)
  <2>1. CASE Head(r.chain) = "append"
    BY <2>1, <1>1, ChainEmpty DEF Ends, PhaseOK, Queued, HandleRecord, DrainDue
  <2>2. CASE Head(r.chain) # "append"
    BY <2>2, <1>1 DEF Ends, DrainDue, Job
  <2> QED BY <2>1, <2>2
<1>5. LeaseOK(s)
  BY DEF Ends, LeaseOK, SameView
<1> QED BY <1>1, <1>2, <1>3, <1>4, <1>5

(* The record a write leaves to the end of its job. *)
Written(r) == [r EXCEPT !.materialized = TRUE, !.cursor = @ + Len(r.batch)]

(* A job that wrote its batch, or the header alone. *)
LEMMA JobWrittenOK ==
  ASSUME NEW r \in HandleRecord, RecordOK(r), r.stage = "write",
         NEW s, Ends(Written(r), TRUE, s)
  PROVE  /\ s \in HandleRecord /\ RecordOK(s)
         /\ s.n = r.n /\ s.seed = r.seed /\ s.cursor = r.cursor + Len(r.batch)
         /\ s.lease = "held" /\ s.recovered = <<>> /\ ~s.torn
         /\ Head(r.chain) = "append" => s.cursor = s.n
<1> DEFINE q == Written(r)
<1>1. /\ q \in HandleRecord /\ q.materialized = TRUE /\ q.cursor = r.cursor + Len(r.batch)
      /\ q.chain = r.chain /\ q.stage = r.stage /\ q.batch = r.batch /\ q.drain = r.drain
      /\ q.n = r.n /\ q.seed = r.seed /\ q.phase = r.phase /\ q.close = r.close
      /\ q.buffered = r.buffered /\ q.timer = r.timer /\ q.paused = r.paused
      /\ q.lease = r.lease /\ q.torn = r.torn /\ q.recovered = r.recovered
      /\ q.failure = r.failure /\ q.wait = r.wait
  <2>1. r.cursor + Len(r.batch) \in Nat
    BY DEF HandleRecord
  <2> QED BY <2>1 DEF HandleRecord, Written
<1> HIDE DEF q
<1>2. Ends(q, TRUE, s)
  BY DEF q
<1>3. s \in HandleRecord /\ SameView(q, s) /\ s.n = q.n /\ s.stage = "idle" /\ s.batch = <<>>
  BY <1>2 DEF Ends
<1>4. /\ ChainOK(r) /\ PhaseOK(r) /\ CloseOK(r) /\ DrainDue(r) /\ LeaseOK(r)
      /\ r.lease = "held" /\ Contiguous(r.batch, r.cursor) /\ ~r.torn /\ r.recovered = <<>>
      /\ r.chain # <<>>
  BY DEF RecordOK, LeaseOK, ChainOK
<1>5. ChainOK(q) /\ q.chain # <<>>
  BY <1>1, <1>4 DEF ChainOK, Queued
<1>6. /\ ChainOK(s)
      /\ Head(r.chain) \in Job /\ Queued(r, Head(r.chain))
      /\ \A job \in Job : Queued(s, job) =>
           /\ Queued(r, job)
           /\ job = Head(r.chain) => job = "drain" /\ r.buffered # <<>>
      /\ Len(r.chain) \in Nat /\ Len(r.chain) > 0
      /\ ~(Head(r.chain) = "drain" /\ r.buffered # <<>>) => Len(s.chain) = Len(r.chain) - 1
  <2>1. /\ ChainOK(s)
        /\ Head(q.chain) \in Job /\ Queued(q, Head(q.chain))
        /\ \A job \in Job : Queued(s, job) =>
             /\ Queued(q, job)
             /\ job = Head(q.chain) => job = "drain" /\ q.buffered # <<>>
        /\ Len(q.chain) \in Nat /\ Len(q.chain) > 0
        /\ ~(Head(q.chain) = "drain" /\ q.buffered # <<>>) => Len(s.chain) = Len(q.chain) - 1
    BY ZenonT(40), <1>1, <1>2, <1>5, EndsChain
  <2> QED BY <2>1, <1>1 DEF Queued
<1>7. /\ r.cursor \in Nat /\ r.n \in Nat /\ r.batch \in Seq(Nat) /\ r.buffered \in Seq(Nat)
      /\ Len(r.batch) \in Nat /\ Len(r.buffered) \in Nat
      /\ s.cursor = r.cursor + Len(r.batch) /\ s.cursor \in Nat
  BY <1>1, <1>3 DEF HandleRecord, SameView
<1>8. ASSUME Head(r.chain) = "append"
      PROVE  /\ r.phase = "appending" /\ s.phase = "live" /\ s.cursor = s.n
             /\ s.buffered = <<>> /\ s.close = "no" /\ s.chain = <<>>
  <2>1. r.phase = "appending"
    BY <1>4, <1>6, <1>8, ChainEmpty DEF PhaseOK, HandleRecord, Queued
  <2>2. r.n = r.cursor + 1 /\ r.batch = <<r.n>> /\ r.chain = <<"append">> /\ r.buffered = <<>>
        /\ r.close = "no"
    BY <2>1, <1>4 DEF PhaseOK
  <2>3. Len(r.batch) = 1 /\ Tail(<<"append">>) = <<>>
    BY <2>2
  <2> QED BY <2>1, <2>2, <2>3, <1>1, <1>2, <1>3, <1>7, <1>8 DEF Ends
<1>9. ASSUME Head(r.chain) # "append"
      PROVE  r.phase = "live" /\ s.phase = "live" /\ s.buffered = r.buffered
  <2>1. r.phase # "appending"
    <3>1. Head(<<"append">>) = "append"
      OBVIOUS
    <3> QED BY <3>1, <1>4, <1>9 DEF PhaseOK
  <2>2. r.phase = "live"
    BY <2>1, <1>4 DEF PhaseOK, HandleRecord
  <2> QED BY <2>2, <1>1, <1>2, <1>6, <1>9 DEF Ends, Job
<1>10. PhaseOK(s)
  <2>1. CASE Head(r.chain) = "append"
    <3>1. ~Queued(s, "append") /\ Contiguous(<<>>, s.cursor) /\ Len(<<>>) = 0
      BY <1>8, <2>1, <1>7, ChainEmpty, Rows DEF Queued, Job
    <3>2. Window(s)
      <4>1. s.cursor + 0 + 0 = s.cursor /\ s.cursor + 0 = s.cursor
        BY <1>7
      <4> QED BY <4>1, <3>1, <1>3, <1>8, <2>1 DEF Window
    <3> QED BY <3>1, <3>2, <1>8, <2>1 DEF PhaseOK, Dormant
  <2>2. CASE Head(r.chain) # "append"
    <3>1. Window(r) /\ ~Queued(s, "append")
      BY <2>2, <1>4, <1>6, <1>9 DEF PhaseOK, Job
    <3>2. Contiguous(<<>>, s.cursor) /\ Len(<<>>) = 0 /\ s.cursor + 0 = s.cursor
      BY <1>7, Rows
    <3>3. Window(s)
      BY <3>1, <3>2, <1>1, <1>3, <1>7, <1>9, <2>2 DEF Window
    <3> QED BY <3>1, <3>3, <1>9, <2>2 DEF PhaseOK, Dormant
  <2> QED BY <2>1, <2>2
<1>11. CloseOK(s)
  <2>0. s.close = r.close /\ s.wait = CountDown(r.wait) /\ s.failure = r.failure
    BY <1>1, <1>2 DEF Ends
  <2>1. CloserIsFirst(s) => s.stage = "idle"
    BY <1>3
  <2>2. s.close = "failed" => ~Queued(s, "drain")
    BY <2>0, <1>4, <1>6 DEF CloseOK, Job
  <2>a. s.close = "final" => ~(Head(r.chain) = "drain" /\ r.buffered # <<>>)
    BY <2>0, <1>4, <1>6 DEF CloseOK
  <2>3. s.close = "final" => s.wait = Len(s.chain)
    BY <2>0, <2>a, <1>4, <1>6 DEF CloseOK, CountDown
  <2>4. s.close = "final" => s.buffered = <<>> \/ ~Queued(s, "drain")
    BY <2>0, <2>a, <1>4, <1>6, <1>8, <1>9 DEF CloseOK, Job
  <2>5. s.close \notin {"release", "forget", "closed"}
    BY <2>0, <1>4 DEF CloseOK
  <2>6. s.close = "final" /\ s.phase = "live" /\ ~s.failure =>
          s.n = s.cursor /\ s.batch = <<>> /\ s.buffered = <<>>
    <3>1. Len(<<>>) = 0
      OBVIOUS
    <3> QED BY <3>1, <2>0, <1>1, <1>3, <1>4, <1>7, <1>8, <1>9 DEF CloseOK
  <2> QED BY <2>1, <2>2, <2>3, <2>4, <2>5, <2>6 DEF CloseOK
<1>12. DrainDue(s)
  <2>1. CASE Head(r.chain) = "append"
    BY <2>1, <1>8 DEF DrainDue
  <2>2. CASE Head(r.chain) # "append"
    BY <2>2, <1>1, <1>2, <1>4, <1>6, <1>9 DEF Ends, DrainDue, Job, ChainOK
  <2> QED BY <2>1, <2>2
<1>13. LeaseOK(s)
  BY <1>1, <1>2, <1>4 DEF Ends, LeaseOK, SameView
<1> QED BY <1>1, <1>3, <1>4, <1>6, <1>7, <1>8, <1>10, <1>11, <1>12, <1>13 DEF RecordOK, SameView

-----------------------------------------------------------------------------
(* A step of one handle: what remains to be shown of it. *)
LEMMA OneHandle ==
  ASSUME IInv, NEW h \in Handle, NEW s \in HandleRecord, RecordOK(s),
         handle' = [handle EXCEPT ![h] = s],
         disk' \in File,
         DiskOK', lock' \in Handle \cup {None},
         s.lease = "held" => lock' = h,
         \A g \in Handle \ {h} : handle[g].lease = "held" => lock' = g /\ disk' = disk,
         View(s, disk'), Own(h, s, disk'.log),
         \A e \in Record : InLog(disk.log, e) => InLog(disk'.log, e),
         flusher' \in Caller,
         Flush(h, s, flusher'),
         \A g \in Handle \ {h} : Flush(g, handle[g], flusher'),
         AckedOK'
  PROVE  IInv'
<1>1. /\ handle \in [Handle -> HandleRecord]
      /\ handle' \in [Handle -> HandleRecord]
      /\ handle'[h] = s /\ \A g \in Handle \ {h} : handle'[g] = handle[g]
  BY DEF IInv, Types
<1>2. Types'
  BY <1>1 DEF Types
<1>3. RecordsOK'
  BY <1>1 DEF IInv, RecordsOK
<1>4. LockOK'
  BY <1>1 DEF LockOK
<1>5. ASSUME NEW g \in Handle \ {h} PROVE View(handle[g], disk')
  <2>1. handle[g].phase = "locked" => handle[g].lease = "held"
    BY DEF IInv, RecordsOK, RecordOK, PhaseOK, Dormant
  <2> QED BY <2>1 DEF View, IInv, ViewOK
<1>6. ViewOK'
  BY <1>1, <1>5 DEF ViewOK
<1>7. ASSUME NEW g \in Handle \ {h} PROVE Own(g, handle[g], disk'.log)
  <2>1. Own(g, handle[g], disk.log)
    BY DEF IInv, OwnOK
  <2>2. handle[g].seed \in Nat /\ handle[g].cursor \in Nat
    BY <1>1 DEF HandleRecord
  <2>3. ASSUME NEW i \in (handle[g].seed + 1)..handle[g].cursor
        PROVE  InLog(disk'.log, [seq |-> i, by |-> g])
    <3>1. [seq |-> i, by |-> g] \in Record
      BY <2>2 DEF Record
    <3> QED BY <2>1, <3>1 DEF Own
  <2> QED BY <2>3 DEF Own
<1>8. OwnOK'
  BY <1>1, <1>7 DEF OwnOK
<1>9. FlushOK'
  BY <1>1 DEF FlushOK
<1> QED BY <1>2, <1>3, <1>4, <1>6, <1>8, <1>9 DEF IInv

(* A step of one handle that leaves the file and the lock alone. *)
LEMMA QuietStep ==
  ASSUME IInv, NEW h \in Handle, NEW s \in HandleRecord, RecordOK(s),
         handle' = [handle EXCEPT ![h] = s], UNCHANGED <<disk, lock>>,
         SameView(handle[h], s), s.phase = "locked" => handle[h].phase = "locked",
         flusher' \in Caller,
         Flush(h, s, flusher'),
         \A g \in Handle \ {h} : Flush(g, handle[g], flusher'),
         AckedOK'
  PROVE  IInv'
<1>1. DiskOK' /\ disk' \in File
      /\ lock' \in Handle \cup {None}
  BY DEF IInv, Types, DiskOK, FileOK
<1>2. s.lease = "held" => lock' = h
  BY DEF IInv, LockOK, SameView
<1>3. \A g \in Handle \ {h} : handle[g].lease = "held" => lock' = g /\ disk' = disk
  BY DEF IInv, LockOK
<1>4. View(s, disk')
  BY DEF IInv, ViewOK, View, SameView
<1>5. Own(h, s, disk'.log)
  BY DEF IInv, OwnOK, Own, SameView
<1>6. \A e \in Record : InLog(disk.log, e) => InLog(disk'.log, e)
  OBVIOUS
<1> QED BY <1>1, <1>2, <1>3, <1>4, <1>5, <1>6, OneHandle

(* ... and hears nothing of a flush either. *)
LEMMA AloneStep ==
  ASSUME IInv, NEW h \in Handle, NEW s \in HandleRecord, RecordOK(s),
         handle' = [handle EXCEPT ![h] = s], UNCHANGED <<disk, lock, flusher, acked>>,
         SameView(handle[h], s), s.phase = "locked" => handle[h].phase = "locked",
         Flush(h, s, flusher)
  PROVE  IInv'
<1>1. AckedOK' /\ flusher' \in Caller
  BY DEF IInv, Types, AckedOK
<1>2. Flush(h, s, flusher') /\ \A g \in Handle \ {h} : Flush(g, handle[g], flusher')
  BY DEF IInv, FlushOK
<1> QED BY <1>1, <1>2, QuietStep

-----------------------------------------------------------------------------
(* The steps of one handle on its own record. *)

Creating(r, p) == [r EXCEPT !.phase = "creating", !.proc = p]

(* create has found no log of this id. *)
LEMMA CreatingOK ==
  ASSUME NEW r \in HandleRecord, RecordOK(r), NEW p \in Process,
         r.phase = "unused"
  PROVE  LET s == Creating(r, p)
         IN  s \in HandleRecord /\ RecordOK(s) /\ SameView(r, s)
<1> DEFINE s == Creating(r, p)
<1> USE DEF Creating
<1>1. s \in HandleRecord
  BY DEF HandleRecord, Dormant
<1>2. SameView(r, s)
  BY DEF HandleRecord, SameView
<1>3. ChainOK(s)
  BY DEF RecordOK, HandleRecord, ChainOK, Queued
<1>4. PhaseOK(s)
  BY DEF RecordOK, HandleRecord, PhaseOK, Untouched, Dormant, Queued, Window
<1>5. CloseOK(s)
  BY DEF RecordOK, HandleRecord, CloseOK, CloserIsFirst, Queued
<1>6. DrainDue(s)
  BY DEF RecordOK, HandleRecord, DrainDue
<1>7. LeaseOK(s)
  BY DEF RecordOK, HandleRecord, LeaseOK
<1> QED BY <1>1, <1>2, <1>3, <1>4, <1>5, <1>6, <1>7 DEF RecordOK

Registered(r) == [r EXCEPT !.phase = "setup"]

(* registerCreated was first. *)
LEMMA RegisteredOK ==
  ASSUME NEW r \in HandleRecord, RecordOK(r),
         r.phase = "creating"
  PROVE  LET s == Registered(r)
         IN  s \in HandleRecord /\ RecordOK(s) /\ SameView(r, s)
<1> DEFINE s == Registered(r)
<1> USE DEF Registered
<1>1. s \in HandleRecord
  BY DEF HandleRecord, Dormant
<1>2. SameView(r, s)
  BY DEF HandleRecord, SameView
<1>3. ChainOK(s)
  BY DEF RecordOK, HandleRecord, ChainOK, Queued
<1>4. PhaseOK(s)
  BY DEF RecordOK, HandleRecord, PhaseOK, Untouched, Dormant, Queued, Window
<1>5. CloseOK(s)
  BY DEF RecordOK, HandleRecord, CloseOK, CloserIsFirst, Queued
<1>6. DrainDue(s)
  BY DEF RecordOK, HandleRecord, DrainDue
<1>7. LeaseOK(s)
  BY DEF RecordOK, HandleRecord, LeaseOK
<1> QED BY <1>1, <1>2, <1>3, <1>4, <1>5, <1>6, <1>7 DEF RecordOK

Opening(r, p) == [r EXCEPT !.phase = "opening", !.proc = p]

(* open has claimed the session. *)
LEMMA OpeningOK ==
  ASSUME NEW r \in HandleRecord, RecordOK(r), NEW p \in Process,
         r.phase = "unused"
  PROVE  LET s == Opening(r, p)
         IN  s \in HandleRecord /\ RecordOK(s) /\ SameView(r, s)
<1> DEFINE s == Opening(r, p)
<1> USE DEF Opening
<1>1. s \in HandleRecord
  BY DEF HandleRecord, Dormant
<1>2. SameView(r, s)
  BY DEF HandleRecord, SameView
<1>3. ChainOK(s)
  BY DEF RecordOK, HandleRecord, ChainOK, Queued
<1>4. PhaseOK(s)
  BY DEF RecordOK, HandleRecord, PhaseOK, Untouched, Dormant, Queued, Window
<1>5. CloseOK(s)
  BY DEF RecordOK, HandleRecord, CloseOK, CloserIsFirst, Queued
<1>6. DrainDue(s)
  BY DEF RecordOK, HandleRecord, DrainDue
<1>7. LeaseOK(s)
  BY DEF RecordOK, HandleRecord, LeaseOK
<1> QED BY <1>1, <1>2, <1>3, <1>4, <1>5, <1>6, <1>7 DEF RecordOK

Locked(r) == [r EXCEPT !.phase = "locked", !.lease = "held"]

(* open has locked the log. *)
LEMMA LockedOK ==
  ASSUME NEW r \in HandleRecord, RecordOK(r),
         r.phase = "opening"
  PROVE  LET s == Locked(r)
         IN  s \in HandleRecord /\ RecordOK(s)
<1> DEFINE s == Locked(r)
<1> USE DEF Locked
<1>1. s \in HandleRecord
  BY DEF HandleRecord, Dormant
<1>2. ChainOK(s)
  BY DEF RecordOK, HandleRecord, ChainOK, Queued
<1>3. PhaseOK(s)
  BY DEF RecordOK, HandleRecord, PhaseOK, Untouched, Dormant, Queued, Window
<1>4. CloseOK(s)
  BY DEF RecordOK, HandleRecord, CloseOK, CloserIsFirst, Queued
<1>5. DrainDue(s)
  BY DEF RecordOK, HandleRecord, DrainDue
<1>6. LeaseOK(s)
  BY DEF RecordOK, HandleRecord, LeaseOK
<1> QED BY <1>1, <1>2, <1>3, <1>4, <1>5, <1>6 DEF RecordOK

Read(r, log, torn, tail) == [r EXCEPT !.phase = "setup", !.seed = Len(log \o tail),
                            !.n = Len(log \o tail), !.cursor = Len(log \o tail),
                            !.materialized = TRUE, !.torn = torn,
                            !.recovered = tail]

(* open has decoded the log, and noted torn bytes for repair. *)
LEMMA ReadOK ==
  ASSUME NEW r \in HandleRecord, RecordOK(r), NEW log \in Seq(Record),
         NEW torn \in BOOLEAN, NEW tail \in Seq(Record),
         r.phase = "locked"
  PROVE  LET s == Read(r, log, torn, tail)
         IN  s \in HandleRecord /\ RecordOK(s)
<1> DEFINE s == Read(r, log, torn, tail)
<1> USE DEF Read
<1>0. Len(log \o tail) \in Nat
  OBVIOUS
<1>1. s \in HandleRecord
  BY <1>0 DEF HandleRecord
<1>2. ChainOK(s)
  BY DEF RecordOK, HandleRecord, ChainOK, Queued
<1>3. PhaseOK(s)
  BY DEF RecordOK, HandleRecord, PhaseOK, Untouched, Dormant, Queued, Window
<1>4. CloseOK(s)
  BY DEF RecordOK, HandleRecord, CloseOK, CloserIsFirst, Queued
<1>5. DrainDue(s)
  BY DEF RecordOK, HandleRecord, DrainDue
<1>6. LeaseOK(s)
  <2>1. r.stage = "idle" /\ r.close = "no"
    BY DEF RecordOK, ChainOK, PhaseOK, HandleRecord, Dormant
  <2> QED BY <2>1 DEF RecordOK, HandleRecord, LeaseOK, PhaseOK, Dormant
<1> QED BY <1>1, <1>2, <1>3, <1>4, <1>5, <1>6 DEF RecordOK

Suffix(r) == [r EXCEPT !.phase = "appending", !.n = @ + 1,
                       !.chain = Append(@, "append")]

(* append has queued what setup added. *)
LEMMA SuffixOK ==
  ASSUME NEW r \in HandleRecord, RecordOK(r),
         r.phase = "setup",
         r.close = "no"
  PROVE  LET s == Suffix(r)
         IN  s \in HandleRecord /\ RecordOK(s) /\ SameView(r, s)
<1> DEFINE s == Suffix(r)
<1> USE DEF Suffix
<1>0. /\ r.chain = <<>> /\ r.stage = "idle" /\ r.n = r.cursor /\ r.seed = r.cursor
      /\ r.buffered = <<>> /\ Untouched(r) /\ r.batch = <<>>
  BY DEF RecordOK, ChainOK, PhaseOK
<1>a. Append(r.chain, "append") = <<"append">> /\ Append(r.chain, "append") \in Seq(Job)
  BY <1>0 DEF Job
<1>1. s \in HandleRecord
  <2>1. r.n + 1 \in Nat
    BY DEF HandleRecord
  <2> QED BY <2>1, <1>a DEF HandleRecord
<1>2. SameView(r, s)
  BY DEF HandleRecord, SameView
<1>3. ChainOK(s)
  BY ChainAppend, ChainEmpty DEF RecordOK, HandleRecord, ChainOK, PhaseOK, Queued, Job
<1>4. PhaseOK(s)
  BY <1>0, <1>a DEF HandleRecord, PhaseOK, Untouched, Dormant
<1>5. CloseOK(s)
  BY DEF RecordOK, HandleRecord, CloseOK, CloserIsFirst, Queued
<1>6. DrainDue(s)
  BY DEF RecordOK, HandleRecord, DrainDue
<1>7. LeaseOK(s)
  BY DEF RecordOK, HandleRecord, LeaseOK
<1> QED BY <1>1, <1>2, <1>3, <1>4, <1>5, <1>6, <1>7 DEF RecordOK

Live(r) == [r EXCEPT !.phase = "live"]

(* Setup is over, the session is published. *)
LEMMA LiveOK ==
  ASSUME NEW r \in HandleRecord, RecordOK(r),
         r.phase = "setup",
         r.close = "no"
  PROVE  LET s == Live(r)
         IN  s \in HandleRecord /\ RecordOK(s) /\ SameView(r, s)
<1> DEFINE s == Live(r)
<1> USE DEF Live
<1>1. s \in HandleRecord
  BY DEF HandleRecord, Dormant
<1>2. SameView(r, s)
  BY DEF HandleRecord, SameView
<1>3. ChainOK(s)
  BY DEF RecordOK, HandleRecord, ChainOK, Queued
<1>4. PhaseOK(s)
  BY Rows, ChainEmpty DEF RecordOK, HandleRecord, ChainOK, PhaseOK, Queued, Window, Dormant, Job
<1>5. CloseOK(s)
  BY DEF RecordOK, HandleRecord, CloseOK, CloserIsFirst, Queued
<1>6. DrainDue(s)
  BY DEF RecordOK, HandleRecord, DrainDue
<1>7. LeaseOK(s)
  BY DEF RecordOK, HandleRecord, LeaseOK
<1> QED BY <1>1, <1>2, <1>3, <1>4, <1>5, <1>6, <1>7 DEF RecordOK

Started(r) == [r EXCEPT !.stage = "lease", !.batch = r.buffered, !.buffered = <<>>]

(* A drain takes what is buffered. *)
LEMMA StartedOK ==
  ASSUME NEW r \in HandleRecord, RecordOK(r),
         r.stage = "idle",
         r.chain # <<>>,
         ~CloserIsFirst(r),
         Head(r.chain) = "drain"
  PROVE  LET s == Started(r)
         IN  s \in HandleRecord /\ RecordOK(s) /\ SameView(r, s)
<1> DEFINE s == Started(r)
<1> USE DEF Started
<1>0. r.phase = "live" /\ r.batch = <<>> /\ Window(r) /\ ~Queued(r, "append") /\ r.chain \in Seq(Job) /\ <<>> \in Seq(Nat)
  <2>1. Head(<<"append">>) = "append"
    OBVIOUS
  <2> QED BY <2>1 DEF RecordOK, ChainOK, PhaseOK, HandleRecord
<1>1. s \in HandleRecord
  BY <1>0 DEF HandleRecord
<1>2. SameView(r, s)
  BY DEF HandleRecord, SameView
<1>3. ChainOK(s)
  BY DEF RecordOK, HandleRecord, ChainOK, Queued
<1>4. PhaseOK(s)
  <2>1. /\ r.cursor \in Nat /\ r.n \in Nat /\ r.buffered \in Seq(Nat) /\ Len(r.buffered) \in Nat
        /\ Len(<<>>) = 0 /\ s.batch = r.buffered /\ s.buffered = <<>> /\ s.n = r.n
        /\ s.cursor = r.cursor /\ s.phase = "live" /\ s.chain = r.chain
    BY <1>0 DEF HandleRecord
  <2> HIDE DEF s, Started
  <2>2. /\ r.cursor + 0 + Len(r.buffered) = r.cursor + Len(r.buffered) + 0
        /\ r.cursor + 0 = r.cursor /\ r.cursor + Len(r.buffered) \in Nat
    BY <2>1
  <2>3. Contiguous(<<>>, r.cursor + Len(r.buffered))
    BY <2>1, <2>2, Rows
  <2>4. Window(s)
    BY <2>1, <2>2, <2>3, <1>0 DEF Window
  <2> QED BY <2>1, <2>4, <1>0 DEF PhaseOK, Dormant, Queued
<1>5. CloseOK(s)
  BY DEF RecordOK, HandleRecord, CloseOK, CloserIsFirst, Queued
<1>6. DrainDue(s)
  BY DEF RecordOK, HandleRecord, DrainDue
<1>7. LeaseOK(s)
  BY DEF RecordOK, HandleRecord, LeaseOK
<1> QED BY <1>1, <1>2, <1>3, <1>4, <1>5, <1>6, <1>7 DEF RecordOK

Starting(r) == [r EXCEPT !.stage = "lease", !.batch = <<r.n>>]

(* An append takes its event. *)
LEMMA StartingOK ==
  ASSUME NEW r \in HandleRecord, RecordOK(r),
         r.stage = "idle",
         Head(r.chain) = "append",
         r.chain # <<>>,
         ~CloserIsFirst(r)
  PROVE  LET s == Starting(r)
         IN  s \in HandleRecord /\ RecordOK(s) /\ SameView(r, s)
<1> DEFINE s == Starting(r)
<1> USE DEF Starting
<1>0. r.phase = "appending" /\ r.chain = <<"append">> /\ r.close = "no"
  <2>1. Queued(r, "append")
    BY ChainTail DEF RecordOK, ChainOK, HandleRecord, Queued
  <2> QED BY <2>1 DEF RecordOK, PhaseOK, HandleRecord
<1>a. r.n \in Nat /\ <<r.n>> \in Seq(Nat)
  BY DEF HandleRecord
<1>1. s \in HandleRecord
  BY <1>a DEF HandleRecord
<1>2. SameView(r, s)
  BY DEF HandleRecord, SameView
<1>3. ChainOK(s)
  BY DEF RecordOK, HandleRecord, ChainOK, Queued
<1>4. PhaseOK(s)
  BY <1>0, <1>a DEF RecordOK, HandleRecord, PhaseOK, Untouched, Dormant
<1>5. CloseOK(s)
  BY <1>0 DEF HandleRecord, CloseOK, CloserIsFirst
<1>6. DrainDue(s)
  BY DEF RecordOK, HandleRecord, DrainDue
<1>7. LeaseOK(s)
  BY DEF RecordOK, HandleRecord, LeaseOK
<1> QED BY <1>1, <1>2, <1>3, <1>4, <1>5, <1>6, <1>7 DEF RecordOK

Headed(r) == [r EXCEPT !.stage = "lease"]

(* A flush is about to write the header alone. *)
LEMMA HeadedOK ==
  ASSUME NEW r \in HandleRecord, RecordOK(r),
         r.stage = "idle",
         Head(r.chain) = "flush",
         r.chain # <<>>,
         ~CloserIsFirst(r)
  PROVE  LET s == Headed(r)
         IN  s \in HandleRecord /\ RecordOK(s) /\ SameView(r, s)
<1> DEFINE s == Headed(r)
<1> USE DEF Headed
<1>0. r.phase # "appending"
  <2>1. Head(<<"append">>) = "append"
    OBVIOUS
  <2> QED BY <2>1 DEF RecordOK, PhaseOK
<1>1. s \in HandleRecord
  BY DEF HandleRecord, Dormant
<1>2. SameView(r, s)
  BY DEF HandleRecord, SameView
<1>3. ChainOK(s)
  BY DEF RecordOK, HandleRecord, ChainOK, Queued
<1>4. PhaseOK(s)
  BY <1>0 DEF RecordOK, HandleRecord, PhaseOK, Untouched, Dormant, Queued, Window
<1>5. CloseOK(s)
  BY DEF RecordOK, HandleRecord, CloseOK, CloserIsFirst, Queued
<1>6. DrainDue(s)
  BY DEF RecordOK, HandleRecord, DrainDue
<1>7. LeaseOK(s)
  BY DEF RecordOK, HandleRecord, LeaseOK
<1> QED BY <1>1, <1>2, <1>3, <1>4, <1>5, <1>6, <1>7 DEF RecordOK

(* The record of a handle that is over, in process p. *)
GoneAt(p) == [Gone EXCEPT !.proc = p]

(* Such a record satisfies the invariant of records, and holds nothing. *)
LEMMA GoneOK ==
  ASSUME NEW p \in Process \cup {None}
  PROVE  /\ GoneAt(p) \in HandleRecord /\ RecordOK(GoneAt(p))
         /\ GoneAt(p).phase = "gone" /\ GoneAt(p).lease = "none" /\ GoneAt(p).cursor = 0
         /\ GoneAt(p).seed = 0 /\ GoneAt(p).chain = <<>> /\ ~GoneAt(p).materialized
         /\ GoneAt(p).drain = "none" /\ GoneAt(None) = Gone
<1>1. /\ GoneAt(p).phase = "gone" /\ GoneAt(p).proc = p /\ GoneAt(p).seed = 0
      /\ GoneAt(p).n = 0 /\ GoneAt(p).cursor = 0 /\ GoneAt(p).materialized = FALSE
      /\ GoneAt(p).torn = FALSE /\ GoneAt(p).recovered = <<>> /\ GoneAt(p).lease = "none"
      /\ GoneAt(p).chain = <<>> /\ GoneAt(p).stage = "idle" /\ GoneAt(p).batch = <<>>
      /\ GoneAt(p).buffered = <<>> /\ GoneAt(p).timer = FALSE /\ GoneAt(p).paused = FALSE
      /\ GoneAt(p).drain = "none" /\ GoneAt(p).close = "no" /\ GoneAt(p).wait = 0
      /\ GoneAt(p).failure = FALSE
  BY DEF GoneAt, Gone, Fresh
<1>a. <<>> \in Seq(Record) /\ <<>> \in Seq(Nat) /\ <<>> \in Seq(Job)
  OBVIOUS
<1>b. GoneAt(p) \in HandleRecord
  BY <1>a DEF GoneAt, Gone, Fresh, HandleRecord, Dormant
<1>2. GoneAt(p) \in HandleRecord /\ GoneAt(None) = Gone
  <2>1. /\ Gone.proc = None /\ Gone \in [DOMAIN Gone -> {Gone[f] : f \in DOMAIN Gone}]
    BY DEF Gone, Fresh
  <2>2. GoneAt(None) = Gone
    BY <2>1 DEF GoneAt
  <2> QED BY <1>b, <2>2
<1>3. ~Queued(GoneAt(p), "drain") /\ Distinct(GoneAt(p).chain)
  BY <1>1, ChainEmpty DEF Queued, Job
<1>4. RecordOK(GoneAt(p))
  BY <1>1, <1>3 DEF RecordOK, ChainOK, PhaseOK, CloseOK, DrainDue, LeaseOK, Dormant,
     Untouched, CloserIsFirst
<1> QED BY <1>1, <1>2, <1>4

Published(r) == [r EXCEPT !.n = @ + 1, !.buffered = Append(@, r.n + 1),
                          !.timer = @ \/ ~r.paused]

(* An event joins the buffer, and the timer is armed unless a failed drain paused it. *)
LEMMA PublishedOK ==
  ASSUME NEW r \in HandleRecord, RecordOK(r),
         r.phase = "live",
         ~Late(r)
  PROVE  LET s == Published(r)
         IN  s \in HandleRecord /\ RecordOK(s) /\ SameView(r, s)
<1> DEFINE s == Published(r)
<1> USE DEF Published
<1>0. /\ r.n \in Nat /\ r.cursor \in Nat /\ r.batch \in Seq(Nat) /\ r.buffered \in Seq(Nat)
      /\ Len(r.batch) \in Nat /\ Len(r.buffered) \in Nat /\ r.n + 1 \in Nat
      /\ Append(r.buffered, r.n + 1) \in Seq(Nat) /\ (r.timer \/ ~r.paused) \in BOOLEAN
      /\ Len(Append(r.buffered, r.n + 1)) = Len(r.buffered) + 1
  BY DEF HandleRecord
<1>a. Window(r) /\ ~Queued(r, "append")
  BY DEF RecordOK, PhaseOK
<1>1. s \in HandleRecord
  BY <1>0 DEF HandleRecord
<1>2. SameView(r, s)
  BY DEF HandleRecord, SameView
<1>3. ChainOK(s)
  BY DEF RecordOK, HandleRecord, ChainOK, Queued
<1>4. PhaseOK(s)
  <2>1. /\ s.phase = "live" /\ s.chain = r.chain /\ s.batch = r.batch /\ s.n = r.n + 1
        /\ s.buffered = Append(r.buffered, r.n + 1) /\ s.cursor = r.cursor
    BY <1>0 DEF HandleRecord
  <2> DEFINE base == r.cursor + Len(r.batch)
             more == Append(r.buffered, r.n + 1)
  <2>2. base \in Nat /\ base + Len(r.buffered) = r.n /\ Contiguous(r.buffered, base)
        /\ Contiguous(r.batch, r.cursor)
    BY <1>0, <1>a DEF Window
  <2> HIDE DEF base
  <2>3. Contiguous(Append(r.buffered, base + Len(r.buffered) + 1), base)
    BY <2>2, <1>0, Rows
  <2>4. base + Len(more) = r.n + 1
    BY <2>2, <1>0
  <2>5. Contiguous(more, base)
    BY <2>2, <2>3
  <2> HIDE DEF s, more, Published
  <2>6. Window(s)
    BY <2>1, <2>2, <2>4, <2>5 DEF Window, base, more
  <2> QED BY <2>1, <2>6, <1>a DEF PhaseOK, Dormant, Queued
<1>5. CloseOK(s)
  BY DEF RecordOK, HandleRecord, CloseOK, CloserIsFirst, Queued, Late
<1>6. DrainDue(s)
  BY DEF RecordOK, HandleRecord, DrainDue
<1>7. LeaseOK(s)
  BY DEF RecordOK, HandleRecord, LeaseOK
<1> QED BY <1>1, <1>2, <1>3, <1>4, <1>5, <1>6, <1>7 DEF RecordOK

Leased(r) == [r EXCEPT !.lease = IF @ = "none" THEN "held" ELSE @,
                       !.stage = CASE r.torn -> "truncate"
                                   [] ~r.torn /\ r.recovered # <<>> -> "rewrite"
                                   [] OTHER -> "write"]

(* A job has the lease and a batch that continues the log. *)
LEMMA LeasedOK ==
  ASSUME NEW r \in HandleRecord, RecordOK(r),
         r.stage = "lease",
         Contiguous(r.batch, r.cursor)
  PROVE  LET s == Leased(r)
         IN  s \in HandleRecord /\ RecordOK(s)
<1> DEFINE s == Leased(r)
<1> USE DEF Leased
<1>0. r.lease # "released"
  BY DEF RecordOK, LeaseOK, CloseOK, ChainOK
<1>a. ~CloserIsFirst(r)
  BY DEF RecordOK, CloseOK
<1>1. s \in HandleRecord
  BY ZenonT(40) DEF HandleRecord, Dormant
<1>2. ChainOK(s)
  BY DEF RecordOK, HandleRecord, ChainOK, Queued
<1>3. PhaseOK(s)
  <2>1. r.phase \notin Dormant
    BY DEF RecordOK, ChainOK, PhaseOK
  <2> QED BY <2>1 DEF RecordOK, HandleRecord, PhaseOK, Untouched, Dormant, Queued, Window
<1>4. CloseOK(s)
  BY <1>a DEF RecordOK, HandleRecord, CloseOK, CloserIsFirst, Queued
<1>5. DrainDue(s)
  BY DEF RecordOK, HandleRecord, DrainDue
<1>6. LeaseOK(s)
  BY <1>0 DEF RecordOK, HandleRecord, LeaseOK
<1> QED BY <1>1, <1>2, <1>3, <1>4, <1>5, <1>6 DEF RecordOK

Mended(r) == [r EXCEPT !.torn = FALSE,
                       !.stage = IF r.recovered = <<>> THEN "write" ELSE "rewrite"]

(* The torn bytes are cut off. *)
LEMMA MendedOK ==
  ASSUME NEW r \in HandleRecord, RecordOK(r),
         r.stage = "truncate"
  PROVE  LET s == Mended(r)
         IN  s \in HandleRecord /\ RecordOK(s)
<1> DEFINE s == Mended(r)
<1> USE DEF Mended
<1>a. ~CloserIsFirst(r)
  BY DEF RecordOK, CloseOK
<1>1. s \in HandleRecord
  BY ZenonT(40) DEF HandleRecord, Dormant
<1>2. ChainOK(s)
  BY DEF RecordOK, HandleRecord, ChainOK, Queued
<1>3. PhaseOK(s)
  BY DEF RecordOK, HandleRecord, PhaseOK, Untouched, Dormant, Queued, Window
<1>4. CloseOK(s)
  BY <1>a DEF RecordOK, HandleRecord, CloseOK, CloserIsFirst, Queued
<1>5. DrainDue(s)
  BY DEF RecordOK, HandleRecord, DrainDue
<1>6. LeaseOK(s)
  BY DEF RecordOK, HandleRecord, LeaseOK
<1> QED BY <1>1, <1>2, <1>3, <1>4, <1>5, <1>6 DEF RecordOK

Restored(r) == [r EXCEPT !.recovered = <<>>, !.stage = "write"]

(* The recovered records are written. *)
LEMMA RestoredOK ==
  ASSUME NEW r \in HandleRecord, RecordOK(r),
         r.stage = "rewrite"
  PROVE  LET s == Restored(r)
         IN  s \in HandleRecord /\ RecordOK(s)
<1> DEFINE s == Restored(r)
<1> USE DEF Restored
<1>b. <<>> \in Seq(Record)
  OBVIOUS
<1>a. ~CloserIsFirst(r)
  BY DEF RecordOK, CloseOK
<1>1. s \in HandleRecord
  BY <1>b DEF HandleRecord
<1>2. ChainOK(s)
  BY DEF RecordOK, HandleRecord, ChainOK, Queued
<1>3. PhaseOK(s)
  BY DEF RecordOK, HandleRecord, PhaseOK, Untouched, Dormant, Queued, Window
<1>4. CloseOK(s)
  BY <1>a DEF RecordOK, HandleRecord, CloseOK, CloserIsFirst, Queued
<1>5. DrainDue(s)
  BY DEF RecordOK, HandleRecord, DrainDue
<1>6. LeaseOK(s)
  BY DEF RecordOK, HandleRecord, LeaseOK
<1> QED BY <1>1, <1>2, <1>3, <1>4, <1>5, <1>6 DEF RecordOK

Cleared(r, queued) == [r EXCEPT !.drain = "none",
                !.chain = IF queued THEN Append(@, "flush") ELSE @,
                !.close = CASE @ = "drain" /\ r.drain = "drained" -> "ok"
                            [] @ = "drain" /\ r.drain # "drained" -> "failed"
                            [] OTHER -> @]

(* The finally() of a drain; a flush that joined it may be queued. *)
LEMMA ClearedOK ==
  ASSUME NEW r \in HandleRecord, RecordOK(r), NEW queued \in BOOLEAN,
         Settled(r),
         queued => r.phase = "live" /\ r.close = "no" /\ ~Queued(r, "flush")
  PROVE  LET s == Cleared(r, queued)
         IN  s \in HandleRecord /\ RecordOK(s) /\ SameView(r, s)
<1> DEFINE s == Cleared(r, queued)
<1> USE DEF Cleared
<1> DEFINE d == IF queued THEN Append(r.chain, "flush") ELSE r.chain
           k == CASE r.close = "drain" /\ r.drain = "drained" -> "ok"
                  [] r.close = "drain" /\ r.drain # "drained" -> "failed"
                  [] OTHER -> r.close
<1>0. ~Queued(r, "drain") /\ r.chain \in Seq(Job) /\ Distinct(r.chain) /\ "flush" \in Job
  BY DEF RecordOK, ChainOK, Settled, HandleRecord, Job
<1>a. /\ d \in Seq(Job) /\ Distinct(d) /\ (r.chain # <<>> => d # <<>> /\ Head(d) = Head(r.chain))
      /\ d # <<>> /\ r.chain = <<>> => Head(d) = "flush"
      /\ ~Has(d, "drain") /\ (Has(d, "append") => Has(r.chain, "append"))
      /\ ~queued => d = r.chain
  BY <1>0, ChainAppend DEF Queued, Job
<1>b. /\ s.chain = d /\ s.drain = "none"
      /\ r.close = "drain" => s.close \in {"ok", "failed"}
      /\ r.close # "drain" => s.close = r.close
      /\ s.phase = r.phase /\ s.stage = r.stage /\ s.batch = r.batch /\ s.n = r.n
      /\ s.cursor = r.cursor /\ s.buffered = r.buffered /\ s.timer = r.timer
      /\ s.paused = r.paused /\ s.wait = r.wait /\ s.failure = r.failure
      /\ s.lease = r.lease /\ s.torn = r.torn /\ s.seed = r.seed
      /\ s.recovered = r.recovered /\ s.materialized = r.materialized
  BY DEF HandleRecord
<1>c. k \in {"no", "drain", "ok", "failed", "chain", "final", "release", "forget",
              "closed"}
  BY DEF HandleRecord
<1>d. s = [r EXCEPT !.drain = "none", !.chain = d, !.close = k]
  BY DEF HandleRecord
<1> HIDE DEF s, d, k, Cleared
<1>1. s \in HandleRecord
  BY ZenonT(40), <1>a, <1>c, <1>d DEF HandleRecord
<1>2. SameView(r, s)
  BY <1>b DEF SameView
<1>3. ChainOK(s)
  <2>1. r.stage = "idle" \/ Head(d) = "flush" => r.batch = <<>>
    BY <1>a DEF RecordOK, ChainOK
  <2> QED BY <2>1, <1>a, <1>b DEF RecordOK, ChainOK, Queued
<1>4. PhaseOK(s)
  <2>1. r.phase \notin Dormant
    BY DEF RecordOK, PhaseOK, Settled, Untouched
  <2>2. r.phase # "appending"
    BY DEF RecordOK, PhaseOK, Settled, Untouched
  <2>3. CASE r.phase \in {"setup", "aborted"}
    BY <2>3, <1>a, <1>b DEF RecordOK, PhaseOK, Dormant, Untouched, Settled
  <2>4. CASE r.phase = "live"
    BY <2>4, <1>a, <1>b DEF RecordOK, PhaseOK, Dormant, Window, Queued
  <2> QED BY <2>1, <2>2, <2>3, <2>4 DEF HandleRecord
<1>5. CloseOK(s)
  BY <1>a, <1>b DEF RecordOK, CloseOK, CloserIsFirst, Queued
<1>6. DrainDue(s)
  BY <1>b DEF RecordOK, DrainDue, Settled
<1>7. LeaseOK(s)
  BY <1>b DEF RecordOK, LeaseOK
<1> QED BY <1>1, <1>2, <1>3, <1>4, <1>5, <1>6, <1>7 DEF RecordOK, s

Waiting(r) == [r EXCEPT !.close = "chain", !.wait = QueuedJobs(r)]

(* close() waits for the jobs that are queued now. *)
LEMMA WaitingOK ==
  ASSUME NEW r \in HandleRecord, RecordOK(r),
         r.close = "ok"
  PROVE  LET s == Waiting(r)
         IN  s \in HandleRecord /\ RecordOK(s) /\ SameView(r, s)
<1> DEFINE s == Waiting(r)
<1> USE DEF Waiting
<1>0. Len(r.chain) \in Nat /\ QueuedJobs(r) = Len(r.chain) /\ (Len(r.chain) = 0 => r.stage = "idle")
  BY ChainEmpty DEF HandleRecord, QueuedJobs, RecordOK, ChainOK
<1>1. s \in HandleRecord
  BY <1>0 DEF HandleRecord
<1>2. SameView(r, s)
  BY DEF HandleRecord, SameView
<1>3. ChainOK(s)
  BY DEF RecordOK, HandleRecord, ChainOK, Queued
<1>4. PhaseOK(s)
  BY DEF RecordOK, HandleRecord, PhaseOK, Untouched, Dormant, Queued, Window
<1>5. CloseOK(s)
  BY <1>0 DEF RecordOK, HandleRecord, CloseOK, CloserIsFirst, Queued
<1>6. DrainDue(s)
  BY DEF RecordOK, HandleRecord, DrainDue
<1>7. LeaseOK(s)
  BY DEF RecordOK, HandleRecord, LeaseOK
<1> QED BY <1>1, <1>2, <1>3, <1>4, <1>5, <1>6, <1>7 DEF RecordOK

GivingUp(r) == [r EXCEPT !.close = "final", !.failure = TRUE, !.wait = QueuedJobs(r)]

(* The drain failed: close() waits for the chain once more. *)
LEMMA GivingUpOK ==
  ASSUME NEW r \in HandleRecord, RecordOK(r),
         r.close = "failed"
  PROVE  LET s == GivingUp(r)
         IN  s \in HandleRecord /\ RecordOK(s) /\ SameView(r, s)
<1> DEFINE s == GivingUp(r)
<1> USE DEF GivingUp
<1>0. Len(r.chain) \in Nat /\ QueuedJobs(r) = Len(r.chain) /\ (Len(r.chain) = 0 => r.stage = "idle")
  BY ChainEmpty DEF HandleRecord, QueuedJobs, RecordOK, ChainOK
<1>1. s \in HandleRecord
  BY <1>0 DEF HandleRecord
<1>2. SameView(r, s)
  BY DEF HandleRecord, SameView
<1>3. ChainOK(s)
  BY DEF RecordOK, HandleRecord, ChainOK, Queued
<1>4. PhaseOK(s)
  BY DEF RecordOK, HandleRecord, PhaseOK, Untouched, Dormant, Queued, Window
<1>5. CloseOK(s)
  BY <1>0 DEF RecordOK, HandleRecord, CloseOK, CloserIsFirst, Queued
<1>6. DrainDue(s)
  BY DEF RecordOK, HandleRecord, DrainDue
<1>7. LeaseOK(s)
  BY DEF RecordOK, HandleRecord, LeaseOK
<1> QED BY <1>1, <1>2, <1>3, <1>4, <1>5, <1>6, <1>7 DEF RecordOK

Finishing(r) == [r EXCEPT !.close = "final", !.wait = QueuedJobs(r)]

(* A pass left the buffer empty: close() waits for the chain once more. *)
LEMMA FinishingOK ==
  ASSUME NEW r \in HandleRecord, RecordOK(r),
         r.close = "chain",
         r.wait = 0,
         r.buffered = <<>>
  PROVE  LET s == Finishing(r)
         IN  s \in HandleRecord /\ RecordOK(s) /\ SameView(r, s)
<1> DEFINE s == Finishing(r)
<1> USE DEF Finishing
<1>0. Len(r.chain) \in Nat /\ QueuedJobs(r) = Len(r.chain) /\ (Len(r.chain) = 0 => r.stage = "idle")
  BY ChainEmpty DEF HandleRecord, QueuedJobs, RecordOK, ChainOK
<1>a. r.batch = <<>> /\ r.stage = "idle"
  BY DEF RecordOK, CloseOK, CloserIsFirst, ChainOK
<1>b. r.phase = "live" => r.n = r.cursor
  <2>1. Len(<<>>) = 0 /\ r.cursor \in Nat /\ r.n \in Nat
    BY DEF HandleRecord
  <2> QED BY <2>1, <1>a DEF RecordOK, PhaseOK, Window
<1>1. s \in HandleRecord
  BY <1>0 DEF HandleRecord
<1>2. SameView(r, s)
  BY DEF HandleRecord, SameView
<1>3. ChainOK(s)
  BY DEF RecordOK, HandleRecord, ChainOK, Queued
<1>4. PhaseOK(s)
  BY DEF RecordOK, HandleRecord, PhaseOK, Untouched, Dormant, Queued, Window
<1>5. CloseOK(s)
  BY <1>0, <1>a, <1>b DEF RecordOK, HandleRecord, CloseOK, CloserIsFirst, Queued
<1>6. DrainDue(s)
  BY DEF RecordOK, HandleRecord, DrainDue
<1>7. LeaseOK(s)
  BY DEF RecordOK, HandleRecord, LeaseOK
<1> QED BY <1>1, <1>2, <1>3, <1>4, <1>5, <1>6, <1>7 DEF RecordOK

Releasing(r) == [r EXCEPT !.close = "release"]

(* The chain is over: the lease goes next. *)
LEMMA ReleasingOK ==
  ASSUME NEW r \in HandleRecord, RecordOK(r),
         r.close = "final",
         r.wait = 0
  PROVE  LET s == Releasing(r)
         IN  s \in HandleRecord /\ RecordOK(s) /\ SameView(r, s)
<1> DEFINE s == Releasing(r)
<1> USE DEF Releasing
<1>0. r.chain = <<>> /\ r.stage = "idle"
  BY ChainEmpty DEF HandleRecord, RecordOK, CloseOK, ChainOK, CloserIsFirst
<1>1. s \in HandleRecord
  BY DEF HandleRecord, Dormant
<1>2. SameView(r, s)
  BY DEF HandleRecord, SameView
<1>3. ChainOK(s)
  BY DEF RecordOK, HandleRecord, ChainOK, Queued
<1>4. PhaseOK(s)
  BY DEF RecordOK, HandleRecord, PhaseOK, Untouched, Dormant, Queued, Window
<1>5. CloseOK(s)
  BY <1>0, ChainEmpty DEF RecordOK, HandleRecord, CloseOK, CloserIsFirst, Queued, Job
<1>6. DrainDue(s)
  BY DEF RecordOK, HandleRecord, DrainDue
<1>7. LeaseOK(s)
  BY DEF RecordOK, HandleRecord, LeaseOK
<1> QED BY <1>1, <1>2, <1>3, <1>4, <1>5, <1>6, <1>7 DEF RecordOK

Released(r, ok) == [r EXCEPT !.close = "forget", !.failure = @ \/ ~ok,
                             !.lease = IF @ = "held" THEN "released" ELSE @]

(* The lease is released, or that failed. *)
LEMMA ReleasedOK ==
  ASSUME NEW r \in HandleRecord, RecordOK(r), NEW ok \in BOOLEAN,
         r.close = "release"
  PROVE  LET s == Released(r, ok)
         IN  s \in HandleRecord /\ RecordOK(s)
<1> DEFINE s == Released(r, ok)
<1> USE DEF Released
<1>0. r.chain = <<>> /\ r.stage = "idle" /\ r.phase \notin Dormant
  BY DEF RecordOK, CloseOK, ChainOK, PhaseOK
<1> DEFINE b == r.failure \/ ~ok
           l == IF r.lease = "held" THEN "released" ELSE r.lease
<1>a. b \in BOOLEAN /\ l \in {"none", "held", "released"}
  BY DEF HandleRecord
<1>b. s = [r EXCEPT !.close = "forget", !.failure = b, !.lease = l]
  OBVIOUS
<1>1. s \in HandleRecord
  <2> HIDE DEF b, l, s, Released
  <2> QED BY ZenonT(40), <1>a, <1>b DEF HandleRecord
<1>2. ChainOK(s)
  BY DEF RecordOK, HandleRecord, ChainOK, Queued
<1>3. PhaseOK(s)
  BY <1>0 DEF RecordOK, HandleRecord, PhaseOK, Untouched, Dormant, Queued, Window
<1>4. CloseOK(s)
  <2>1. s.failure = FALSE => r.failure = FALSE
    BY DEF HandleRecord
  <2>2. r.failure \in BOOLEAN /\ s.failure \in BOOLEAN
    BY <1>a DEF HandleRecord
  <2> QED BY <1>0, <2>1, <2>2 DEF RecordOK, HandleRecord, CloseOK, CloserIsFirst, Queued
<1>5. DrainDue(s)
  BY DEF RecordOK, HandleRecord, DrainDue
<1>6. LeaseOK(s)
  BY <1>0 DEF RecordOK, HandleRecord, LeaseOK
<1> QED BY <1>1, <1>2, <1>3, <1>4, <1>5, <1>6 DEF RecordOK

Closed(r) == [r EXCEPT !.close = "closed"]

(* close() has settled, a callback is still due. *)
LEMMA ClosedOK ==
  ASSUME NEW r \in HandleRecord, RecordOK(r),
         r.close = "forget"
  PROVE  LET s == Closed(r)
         IN  s \in HandleRecord /\ RecordOK(s) /\ SameView(r, s)
<1> DEFINE s == Closed(r)
<1> USE DEF Closed
<1>0. r.chain = <<>> /\ r.stage = "idle" /\ r.phase \notin Dormant
  BY DEF RecordOK, CloseOK, ChainOK, PhaseOK
<1>1. s \in HandleRecord
  BY DEF HandleRecord, Dormant
<1>2. SameView(r, s)
  BY DEF HandleRecord, SameView
<1>3. ChainOK(s)
  BY DEF RecordOK, HandleRecord, ChainOK, Queued
<1>4. PhaseOK(s)
  BY <1>0 DEF RecordOK, HandleRecord, PhaseOK, Untouched, Dormant, Queued, Window
<1>5. CloseOK(s)
  BY <1>0 DEF RecordOK, HandleRecord, CloseOK, CloserIsFirst, Queued
<1>6. DrainDue(s)
  BY DEF RecordOK, HandleRecord, DrainDue
<1>7. LeaseOK(s)
  BY DEF RecordOK, HandleRecord, LeaseOK
<1> QED BY <1>1, <1>2, <1>3, <1>4, <1>5, <1>6, <1>7 DEF RecordOK

-----------------------------------------------------------------------------
(* Nobody flushes. *)
LEMMA NoFlushTyped == NoFlush \in Caller
BY DEF NoFlush, Caller

(* What the invariant says of one handle. *)
LEMMA Now ==
  ASSUME IInv, NEW h \in Handle
  PROVE  /\ handle \in [Handle -> HandleRecord]
         /\ handle[h] \in HandleRecord /\ RecordOK(handle[h])
         /\ Flush(h, handle[h], flusher) /\ View(handle[h], disk)
         /\ Own(h, handle[h], disk.log)
         /\ handle[h].lease = "held" => lock = h
BY DEF IInv, Types, RecordsOK, FlushOK, ViewOK, OwnOK, LockOK

(* Creating and opening a handle: the record changes, the rest stays. *)
LEMMA CreateCheckStep ==
  ASSUME IInv, NEW p \in Process, NEW h \in Handle, CreateCheck(p, h)
  PROVE  IInv'
<1> DEFINE r == handle[h]
           s == Creating(r, p)
<1>1. r.phase = "unused" /\ UNCHANGED <<disk, lock, flusher, acked>>
  BY DEF CreateCheck, NextHandle
<1>2. handle' = [handle EXCEPT ![h] = s]
  BY Now DEF CreateCheck, Creating
<1>3. s \in HandleRecord /\ RecordOK(s) /\ SameView(r, s)
  BY <1>1, Now, CreatingOK
<1>4. s.phase = "creating" /\ s.chain = r.chain /\ s.drain = r.drain
  BY <1>1, Now DEF Creating, HandleRecord
<1>5. Flush(h, r, flusher)
  BY Now
<1> HIDE DEF s, r
<1>6. Flush(h, s, flusher)
  BY <1>1, <1>3, <1>4, <1>5 DEF Flush, Queued, SameView
<1> QED BY <1>1, <1>2, <1>3, <1>4, <1>6, AloneStep DEF r

(* A process claims a stored session and starts opening it. *)
LEMMA OpenClaimStep ==
  ASSUME IInv, NEW p \in Process, NEW h \in Handle, OpenClaim(p, h)
  PROVE  IInv'
<1> DEFINE r == handle[h]
           s == Opening(r, p)
<1>1. r.phase = "unused" /\ UNCHANGED <<disk, lock, flusher, acked>>
  BY DEF OpenClaim, NextHandle
<1>2. handle' = [handle EXCEPT ![h] = s]
  BY Now DEF OpenClaim, Opening
<1>3. s \in HandleRecord /\ RecordOK(s) /\ SameView(r, s)
  BY <1>1, Now, OpeningOK
<1>4. s.phase = "opening" /\ s.chain = r.chain /\ s.drain = r.drain
  BY <1>1, Now DEF Opening, HandleRecord
<1>5. Flush(h, r, flusher)
  BY Now
<1> HIDE DEF s, r
<1>6. Flush(h, s, flusher)
  BY <1>1, <1>3, <1>4, <1>5 DEF Flush, Queued, SameView
<1> QED BY <1>1, <1>2, <1>3, <1>4, <1>6, AloneStep DEF r

(* The owner: setup goes on, or is over. *)
LEMMA AppendSuffixStep ==
  ASSUME IInv, NEW h \in Handle, AppendSuffix(h)
  PROVE  IInv'
<1> DEFINE r == handle[h]
           s == Suffix(r)
<1>1. /\ r.phase = "setup" /\ r.close = "no"
      /\ UNCHANGED <<disk, lock, flusher, acked>>
  BY Now DEF AppendSuffix
<1>2. handle' = [handle EXCEPT ![h] = s]
  BY Now DEF AppendSuffix, Suffix
<1>3. s \in HandleRecord /\ RecordOK(s) /\ SameView(r, s)
  BY <1>1, Now, SuffixOK
<1>4. s.phase = "appending" /\ s.chain = Append(r.chain, "append") /\ s.drain = r.drain
  BY <1>1, Now DEF Suffix, HandleRecord
<1>5. Flush(h, r, flusher) /\ r \in HandleRecord /\ RecordOK(r)
  BY Now
<1> HIDE DEF s, r
<1>6. Flush(h, s, flusher)
  <2>1. r.chain = <<>> /\ "flush" \in Job /\ "append" \in Job
    BY <1>1, <1>5 DEF RecordOK, PhaseOK, Job
  <2>2. ~Has(s.chain, "flush")
    <3>1. /\ <<>> \in Seq(Job) /\ Distinct(<<>>) /\ ~Has(<<>>, "append")
          /\ ~Has(<<>>, "flush") /\ "flush" # "append"
      BY <2>1, ChainEmpty
    <3>2. ~Has(Append(<<>>, "append"), "flush")
      BY <2>1, <3>1, ChainAppend
    <3> QED BY <2>1, <3>2, <1>4
  <2> QED BY <2>2, <1>1, <1>4, <1>5 DEF Flush, Queued
<1> QED BY <1>1, <1>2, <1>3, <1>4, <1>6, AloneStep DEF r

(* Setup is over. *)
LEMMA GoLiveStep ==
  ASSUME IInv, NEW h \in Handle, GoLive(h)
  PROVE  IInv'
<1> DEFINE r == handle[h]
           s == Live(r)
<1>1. /\ r.phase = "setup" /\ r.close = "no"
      /\ UNCHANGED <<disk, lock, flusher, acked>>
  BY Now DEF GoLive
<1>2. handle' = [handle EXCEPT ![h] = s]
  BY Now DEF GoLive, Live
<1>3. s \in HandleRecord /\ RecordOK(s) /\ SameView(r, s)
  BY <1>1, Now, LiveOK
<1>4. s.phase = "live" /\ s.chain = r.chain /\ s.drain = r.drain
  BY <1>1, Now DEF Live, HandleRecord
<1>5. Flush(h, r, flusher) /\ r \in HandleRecord /\ RecordOK(r)
  BY Now
<1> HIDE DEF s, r
<1>6. Flush(h, s, flusher)
  BY <1>1, <1>3, <1>4, <1>5 DEF Flush, Queued, SameView
<1> QED BY <1>1, <1>2, <1>3, <1>4, <1>6, AloneStep DEF r

(* An event is published. *)
LEMMA PublishStep ==
  ASSUME IInv, ~LateCalls, NEW h \in Handle, Publish(h)
  PROVE  IInv'
<1> DEFINE r == handle[h]
           s == Published(r)
<1>1. /\ r.phase = "live" /\ ~Late(r)
      /\ UNCHANGED <<disk, lock, flusher, acked>>
  BY Now DEF Publish, Reachable
<1>2. handle' = [handle EXCEPT ![h] = s]
  BY Now DEF Publish, Published, EnqueueLive
<1>3. s \in HandleRecord /\ RecordOK(s) /\ SameView(r, s)
  BY <1>1, Now, PublishedOK
<1>4. s.phase = "live" /\ s.chain = r.chain /\ s.drain = r.drain /\ s.n = r.n + 1
  BY <1>1, Now DEF Published, HandleRecord
<1>5. Flush(h, r, flusher) /\ r \in HandleRecord /\ RecordOK(r)
  BY Now
<1> HIDE DEF s, r
<1>6. Flush(h, s, flusher)
  <2>1. r.n \in Nat /\ (flusher.h = h => flusher.cover \in Nat)
    BY <1>5 DEF HandleRecord, IInv, Types, Caller
  <2> QED BY <2>1, <1>1, <1>3, <1>4, <1>5 DEF Flush, Queued, SameView
<1> QED BY <1>1, <1>2, <1>3, <1>4, <1>6, AloneStep DEF r

(* A handle whose drain begins: the caller of session/flush stays covered. *)
LEMMA DrainFlush ==
  ASSUME NEW h, NEW r, NEW s, NEW f, Flush(h, r, f), s.phase = r.phase, s.n = r.n,
         s.cursor = r.cursor, r.phase \in {"setup", "aborted", "live"},
         Queued(s, "flush") => Queued(r, "flush"),
         s.drain = "drained" => r.drain = "drained" \/ r.phase # "live" \/ r.n = r.cursor
  PROVE  Flush(h, s, f)
BY DEF Flush

(* The timer fires. *)
LEMMA TimerFiresStep ==
  ASSUME IInv, ~LateCalls, NEW h \in Handle, TimerFires(h)
  PROVE  IInv'
<1> DEFINE r == handle[h]
           q == [r EXCEPT !.timer = FALSE]
           s == DrainLive(q)
<1>1. /\ r.timer /\ ~Settled(r) /\ ~Late(r) /\ UNCHANGED <<disk, lock, flusher, acked>>
      /\ handle' = [handle EXCEPT ![h] = s]
  BY DEF TimerFires, Reachable
<1>2. r \in HandleRecord /\ RecordOK(r) /\ Flush(h, r, flusher)
  BY Now
<1> HIDE DEF r
<1>3. /\ q \in HandleRecord /\ q.timer = FALSE
      /\ q.phase = r.phase /\ q.n = r.n /\ q.chain = r.chain /\ q.close = r.close
      /\ q.stage = r.stage /\ q.batch = r.batch /\ q.buffered = r.buffered
      /\ q.drain = r.drain /\ q.wait = r.wait /\ q.failure = r.failure
      /\ q.paused = r.paused /\ SameView(r, q)
  BY <1>2 DEF HandleRecord, SameView
<1>4. r.phase \in {"setup", "aborted", "live"} /\ (r.phase # "live" => r.close # "no")
  BY <1>1, <1>2 DEF RecordOK, PhaseOK, Untouched, HandleRecord
<1> HIDE DEF q
<1>5. ChainOK(q) /\ PhaseOK(q) /\ CloseOK(q) /\ LeaseOK(q)
  <2>1. ChainOK(q)
    BY <1>2, <1>3 DEF RecordOK, ChainOK, Queued
  <2>2. PhaseOK(q)
    BY <1>2, <1>3, <1>4 DEF RecordOK, PhaseOK, Dormant, Queued, Window, SameView
  <2>3. CloseOK(q)
    BY <1>2, <1>3 DEF RecordOK, CloseOK, CloserIsFirst, Queued, SameView
  <2>4. LeaseOK(q)
    BY <1>2, <1>3 DEF RecordOK, LeaseOK, SameView
  <2> QED BY <2>1, <2>2, <2>3, <2>4
<1>6. /\ ~Late(q) /\ q.phase \in {"setup", "aborted", "live"} /\ ~Settled(q)
      /\ q.phase # "live" => q.close # "no"
  BY <1>1, <1>3, <1>4 DEF Late, Settled
<1> DEFINE u == [s EXCEPT !.close = q.close]
<1>7. /\ u \in HandleRecord /\ RecordOK(u) /\ SameView(q, u)
      /\ u.phase = q.phase /\ u.n = q.n /\ (Queued(u, "flush") => Queued(q, "flush"))
      /\ u.drain = "drained" => q.drain = "drained" \/ q.phase # "live" \/ q.n = q.cursor
  BY <1>3, <1>5, <1>6, DrainLiveOK
<1>8. u = s
  BY <1>3 DEF DrainLive, HandleRecord
<1> HIDE DEF s, u
<1>9. Flush(h, s, flusher)
  <2>1. Flush(h, q, flusher)
    BY <1>2, <1>3 DEF Flush, Queued, SameView
  <2> QED BY <2>1, <1>6, <1>7, <1>8, DrainFlush DEF SameView
<1>10. SameView(r, s) /\ s.phase # "locked"
  BY <1>3, <1>6, <1>7, <1>8 DEF SameView
<1> QED BY <1>1, <1>7, <1>8, <1>9, <1>10, AloneStep DEF r

(* close() begins. *)
LEMMA CloseStep ==
  ASSUME IInv, NEW h \in Handle, Close(h)
  PROVE  IInv'
<1> DEFINE r == handle[h]
           s == [DrainLive(r) EXCEPT !.close = "drain"]
<1>1. /\ r.phase \in {"setup", "aborted", "live"} /\ r.close = "no"
      /\ UNCHANGED <<disk, lock, flusher, acked>>
      /\ handle' = [handle EXCEPT ![h] = s]
  BY DEF Close
<1>2. r \in HandleRecord /\ RecordOK(r) /\ Flush(h, r, flusher)
  BY Now
<1> HIDE DEF r
<1>3. ~Late(r) /\ DrainDue(r) /\ ChainOK(r) /\ PhaseOK(r) /\ CloseOK(r) /\ LeaseOK(r)
  BY <1>1, <1>2 DEF Late, RecordOK
<1>4. /\ s \in HandleRecord /\ RecordOK(s) /\ SameView(r, s)
      /\ s.phase = r.phase /\ s.n = r.n /\ (Queued(s, "flush") => Queued(r, "flush"))
      /\ s.drain = "drained" => r.drain = "drained" \/ r.phase # "live" \/ r.n = r.cursor
  BY <1>1, <1>2, <1>3, DrainLiveOK
<1> HIDE DEF s
<1>5. Flush(h, s, flusher)
  BY <1>1, <1>2, <1>4, DrainFlush DEF SameView
<1> QED BY <1>1, <1>4, <1>5, AloneStep DEF r

(* close() goes on. *)
LEMMA CloseResumesStep ==
  ASSUME IInv, NEW h \in Handle, CloseResumes(h)
  PROVE  IInv'
<1> DEFINE r == handle[h]
<1>1. /\ r.close \in {"ok", "failed"} \/ (r.close \in {"chain", "final"} /\ r.wait = 0)
      /\ UNCHANGED <<disk, lock, flusher, acked>>
  BY DEF CloseResumes
<1>2. r \in HandleRecord /\ RecordOK(r) /\ Flush(h, r, flusher)
  BY Now
<1>3. CASE r.close = "ok"
  <2> DEFINE s == Waiting(r)
  <2>1. handle' = [handle EXCEPT ![h] = s]
    BY <1>3, <1>1 DEF CloseResumes, Waiting
  <2>2. s \in HandleRecord /\ RecordOK(s) /\ SameView(r, s)
    BY <1>3, <1>1, <1>2, WaitingOK
  <2>3. s.phase = r.phase /\ s.chain = r.chain /\ s.drain = r.drain /\ s.n = r.n
    BY <1>2 DEF Waiting, HandleRecord
  <2> HIDE DEF s, r
  <2>4. Flush(h, s, flusher)
    BY <1>2, <2>2, <2>3 DEF Flush, Queued, SameView
  <2> QED BY <1>1, <2>1, <2>2, <2>3, <2>4, AloneStep DEF r
<1>4. CASE r.close = "failed"
  <2> DEFINE s == GivingUp(r)
  <2>1. handle' = [handle EXCEPT ![h] = s]
    BY <1>4, <1>1 DEF CloseResumes, GivingUp
  <2>2. s \in HandleRecord /\ RecordOK(s) /\ SameView(r, s)
    BY <1>4, <1>1, <1>2, GivingUpOK
  <2>3. s.phase = r.phase /\ s.chain = r.chain /\ s.drain = r.drain /\ s.n = r.n
    BY <1>2 DEF GivingUp, HandleRecord
  <2> HIDE DEF s, r
  <2>4. Flush(h, s, flusher)
    BY <1>2, <2>2, <2>3 DEF Flush, Queued, SameView
  <2> QED BY <1>1, <2>1, <2>2, <2>3, <2>4, AloneStep DEF r
<1>5. CASE r.close = "chain" /\ r.buffered = <<>>
  <2> DEFINE s == Finishing(r)
  <2>1. handle' = [handle EXCEPT ![h] = s]
    BY <1>5, <1>1 DEF CloseResumes, Finishing
  <2>2. s \in HandleRecord /\ RecordOK(s) /\ SameView(r, s)
    BY <1>5, <1>1, <1>2, FinishingOK
  <2>3. s.phase = r.phase /\ s.chain = r.chain /\ s.drain = r.drain /\ s.n = r.n
    BY <1>2 DEF Finishing, HandleRecord
  <2> HIDE DEF s, r
  <2>4. Flush(h, s, flusher)
    BY <1>2, <2>2, <2>3 DEF Flush, Queued, SameView
  <2> QED BY <1>1, <2>1, <2>2, <2>3, <2>4, AloneStep DEF r
<1>6. CASE r.close = "final"
  <2> DEFINE s == Releasing(r)
  <2>1. handle' = [handle EXCEPT ![h] = s]
    BY <1>6, <1>1 DEF CloseResumes, Releasing
  <2>2. s \in HandleRecord /\ RecordOK(s) /\ SameView(r, s)
    BY <1>6, <1>1, <1>2, ReleasingOK
  <2>3. s.phase = r.phase /\ s.chain = r.chain /\ s.drain = r.drain /\ s.n = r.n
    BY <1>2 DEF Releasing, HandleRecord
  <2> HIDE DEF s, r
  <2>4. Flush(h, s, flusher)
    BY <1>2, <2>2, <2>3 DEF Flush, Queued, SameView
  <2> QED BY <1>1, <2>1, <2>2, <2>3, <2>4, AloneStep DEF r
<1>7. CASE r.close = "chain" /\ r.buffered # <<>>
  <2> DEFINE s == [DrainLive(r) EXCEPT !.close = "drain"]
  <2>1. handle' = [handle EXCEPT ![h] = s]
    BY <1>7, <1>1 DEF CloseResumes
  <2> HIDE DEF r
  <2>2. /\ ~Late(r) /\ DrainDue(r) /\ ChainOK(r) /\ PhaseOK(r) /\ CloseOK(r) /\ LeaseOK(r)
        /\ r.phase = "live"
    BY <1>2, <1>7 DEF Late, RecordOK, PhaseOK, HandleRecord
  <2>3. /\ s \in HandleRecord /\ RecordOK(s) /\ SameView(r, s)
        /\ s.phase = r.phase /\ s.n = r.n /\ (Queued(s, "flush") => Queued(r, "flush"))
        /\ s.drain = "drained" => r.drain = "drained" \/ r.phase # "live" \/ r.n = r.cursor
    BY <1>7, <1>2, <2>2, DrainLiveOK
  <2> HIDE DEF s
  <2>4. Flush(h, s, flusher)
    BY <1>2, <2>2, <2>3, DrainFlush DEF SameView
  <2> QED BY <1>1, <2>1, <2>2, <2>3, <2>4, AloneStep DEF r
<1> QED BY <1>1, <1>3, <1>4, <1>5, <1>6, <1>7

(* session/flush: covers what is published now. *)
LEMMA FlushCallStep ==
  ASSUME IInv, ~LateCalls, NEW h \in Handle, FlushCall(h)
  PROVE  IInv'
<1> DEFINE r == handle[h]
           s == DrainLive(r)
           u == [s EXCEPT !.close = r.close]
<1>1. /\ r.phase = "live" /\ ~Late(r) /\ flusher = NoFlush
      /\ flusher' = [st |-> "drain", h |-> h, cover |-> r.n, stale |-> Settled(r)]
      /\ UNCHANGED <<disk, lock, acked>>
      /\ handle' = [handle EXCEPT ![h] = s]
  BY DEF FlushCall, Reachable
<1>2. r \in HandleRecord /\ RecordOK(r) /\ Flush(h, r, flusher)
  BY Now
<1> HIDE DEF r
<1>3. DrainDue(r) /\ ChainOK(r) /\ PhaseOK(r) /\ CloseOK(r) /\ LeaseOK(r)
  BY <1>2 DEF RecordOK
<1>4. /\ u \in HandleRecord /\ RecordOK(u) /\ SameView(r, u)
      /\ u.phase = r.phase /\ u.n = r.n /\ (Queued(u, "flush") => Queued(r, "flush"))
      /\ u.drain = "drained" => r.drain = "drained" \/ r.phase # "live" \/ r.n = r.cursor
  BY <1>1, <1>2, <1>3, DrainLiveOK
<1>5. u = s
  BY <1>2 DEF DrainLive, HandleRecord
<1>6. r.n \in Nat /\ r.cursor \in Nat /\ Settled(r) \in BOOLEAN
  BY <1>2 DEF HandleRecord, Settled
<1> HIDE DEF s, u
<1>7. flusher.st = "idle" /\ \A g \in Handle : ~Queued(handle[g], "flush")
  <2>1. flusher.st = "idle"
    BY <1>1 DEF NoFlush
  <2> QED BY <2>1 DEF IInv, FlushOK, Flush
<1>8. flusher' \in Caller
  BY <1>1, <1>6 DEF Caller
<1>9. /\ flusher'.st = "drain" /\ flusher'.h = h /\ flusher'.cover = r.n
      /\ flusher'.stale = Settled(r)
  BY <1>1
<1>10. Flush(h, s, flusher')
  <2>1. ~Queued(s, "flush")
    BY <1>4, <1>5, <1>7 DEF r
  <2>2. r.drain = "drained" => flusher'.stale
    BY <1>9 DEF Settled
  <2> QED BY <2>1, <2>2, <1>1, <1>4, <1>5, <1>6, <1>9 DEF Flush, SameView
<1>11. \A g \in Handle \ {h} : Flush(g, handle[g], flusher')
  BY <1>7, <1>9 DEF Flush
<1>12. AckedOK'
  BY <1>1 DEF IInv, AckedOK
<1> QED BY <1>1, <1>4, <1>5, <1>8, <1>10, <1>11, <1>12, QuietStep DEF r

(* The finally() of a drain. *)
LEMMA DrainClearedStep ==
  ASSUME IInv, NEW h \in Handle, DrainCleared(h)
  PROVE  IInv'
<1> DEFINE r == handle[h]
           joined == flusher.h = h /\ flusher.st = "drain"
           queued == joined /\ r.drain = "drained" /\ r.close = "no"
           s == Cleared(r, queued)
<1>1. /\ Settled(r) /\ UNCHANGED <<disk, lock, acked>>
      /\ queued => flusher' = [flusher EXCEPT !.st = "job"]
      /\ joined /\ ~queued => flusher' = NoFlush
      /\ ~joined => flusher' = flusher
  BY DEF DrainCleared
<1>2. r \in HandleRecord /\ RecordOK(r) /\ Flush(h, r, flusher)
  BY Now
<1>3. handle' = [handle EXCEPT ![h] = s]
  BY Now DEF DrainCleared, Cleared
<1>a. queued \in BOOLEAN
  OBVIOUS
<1>4. queued => r.phase = "live" /\ r.close = "no" /\ ~Queued(r, "flush")
  BY <1>1, <1>2 DEF Flush, RecordOK, PhaseOK, Dormant, Settled, Untouched
<1>5. s \in HandleRecord /\ RecordOK(s) /\ SameView(r, s)
  BY <1>1, <1>2, <1>4, <1>a, ClearedOK
<1>6. /\ s.phase = r.phase /\ s.n = r.n /\ s.drain = "none"
      /\ ~queued => s.chain = r.chain
  BY <1>2 DEF Cleared, HandleRecord
<1>7. flusher \in Caller
  BY DEF IInv, Types
<1>b. /\ flusher.st = "drain" => \A g \in Handle : ~Queued(handle[g], "flush")
      /\ \A g \in Handle : Flush(g, handle[g], flusher)
      /\ None \notin Handle
  BY NoneAssumption DEF IInv, FlushOK, Flush
<1> HIDE DEF s
<1>8. CASE queued
  <2>1. /\ flusher' = [flusher EXCEPT !.st = "job"]
        /\ flusher'.st = "job" /\ flusher'.h = h /\ flusher'.cover = flusher.cover
        /\ flusher'.stale = flusher.stale
        /\ flusher' \in Caller
    BY <1>1, <1>7, <1>8 DEF Caller
  <2>2. Flush(h, s, flusher')
    BY <2>1, <1>2, <1>4, <1>5, <1>6, <1>8 DEF Flush, SameView
  <2>3. \A g \in Handle \ {h} : Flush(g, handle[g], flusher')
    BY <2>1, <1>b, <1>8 DEF Flush
  <2>4. AckedOK' /\ s.phase # "locked"
    BY <1>1, <1>4, <1>6, <1>8 DEF IInv, AckedOK
  <2> HIDE DEF r
  <2> QED BY <1>1, <1>3, <1>5, <2>1, <2>2, <2>3, <2>4, QuietStep DEF r
<1>9. CASE ~queued
  <2>1. flusher' = flusher \/ (flusher' = NoFlush /\ flusher.st = "drain")
    BY <1>1, <1>9
  <2>2. flusher' \in Caller
    BY <2>1, <1>7, NoFlushTyped
  <2>3. Flush(h, s, flusher')
    BY <2>1, <1>2, <1>5, <1>6, <1>9, <1>b DEF Flush, SameView, Queued, NoFlush
  <2>4. \A g \in Handle \ {h} : Flush(g, handle[g], flusher')
    BY <2>1, <1>b DEF Flush, NoFlush
  <2>5. AckedOK' /\ s.phase = r.phase
    BY <1>1, <1>6 DEF IInv, AckedOK
  <2> HIDE DEF r
  <2> QED BY <1>1, <1>3, <1>5, <2>2, <2>3, <2>4, <2>5, QuietStep DEF r
<1> QED BY <1>8, <1>9

(* A handle is over: it holds nothing that another handle could want. *)
LEMMA GoneStep ==
  ASSUME IInv, NEW h \in Handle, NEW p \in Process \cup {None},
         handle' = [handle EXCEPT ![h] = GoneAt(p)], UNCHANGED <<disk, flusher>>,
         ~Queued(handle[h], "flush") \/ flusher.st = "job",
         lock' \in Handle \cup {None},
         \A g \in Handle \ {h} : handle[g].lease = "held" => lock' = g,
         AckedOK'
  PROVE  IInv'
<1> DEFINE s == GoneAt(p)
<1>1. /\ s \in HandleRecord /\ RecordOK(s) /\ s.phase = "gone" /\ s.lease = "none"
      /\ s.cursor = 0 /\ s.seed = 0 /\ s.chain = <<>> /\ s.materialized = FALSE
      /\ s.drain = "none"
  BY GoneOK
<1> HIDE DEF s
<1>2. DiskOK' /\ disk' \in File
  BY DEF IInv, Types, DiskOK, FileOK
<1>3. View(s, disk') /\ s.lease # "held"
  BY <1>1 DEF View
<1>4. Own(h, s, disk'.log)
  BY <1>1 DEF Own
<1>5. ~Queued(s, "flush")
  BY <1>1, ChainEmpty DEF Queued, Job
<1>6. flusher' \in Caller /\ Flush(h, s, flusher')
  BY <1>1, <1>5 DEF IInv, Types, Flush
<1>7. \A g \in Handle \ {h} : Flush(g, handle[g], flusher')
  BY DEF IInv, FlushOK
<1>8. \A g \in Handle \ {h} : handle[g].lease = "held" => lock' = g /\ disk' = disk
  OBVIOUS
<1>9. \A e \in Record : InLog(disk.log, e) => InLog(disk'.log, e)
  OBVIOUS
<1> QED BY <1>1, <1>2, <1>3, <1>4, <1>6, <1>7, <1>8, <1>9, OneHandle DEF s

(* registerCreated: first, or too late. *)
LEMMA CreateRegisterStep ==
  ASSUME IInv, NEW h \in Handle, CreateRegister(h)
  PROVE  IInv'
<1> DEFINE r == handle[h]
<1>1. /\ r.phase = "creating" /\ UNCHANGED <<disk, lock, flusher, acked>>
      /\ r \in HandleRecord /\ RecordOK(r) /\ Flush(h, r, flusher)
  BY Now DEF CreateRegister
<1>2. CASE writer[r.proc] = None
  <2> DEFINE s == Registered(r)
  <2>1. handle' = [handle EXCEPT ![h] = s]
    BY Now, <1>2 DEF CreateRegister, Registered
  <2>2. s \in HandleRecord /\ RecordOK(s) /\ SameView(r, s)
    BY <1>1, RegisteredOK
  <2>3. s.phase = "setup" /\ s.chain = r.chain /\ s.drain = r.drain
    BY <1>1 DEF Registered, HandleRecord
  <2> HIDE DEF s, r
  <2>4. Flush(h, s, flusher)
    BY <1>1, <2>2, <2>3 DEF Flush, Queued, SameView
  <2> QED BY <1>1, <2>1, <2>2, <2>3, <2>4, AloneStep DEF r
<1>3. CASE writer[r.proc] # None
  <2>1. handle' = [handle EXCEPT ![h] = GoneAt(None)]
    BY <1>3, GoneOK DEF CreateRegister
  <2>2. ~Queued(r, "flush")
    BY <1>1, ChainEmpty DEF RecordOK, PhaseOK, Dormant, Queued, Job
  <2>3. AckedOK' /\ lock' \in Handle \cup {None}
    BY <1>1 DEF IInv, AckedOK, Types
  <2>4. \A g \in Handle \ {h} : handle[g].lease = "held" => lock' = g
    BY <1>1 DEF IInv, LockOK
  <2> HIDE DEF r
  <2> QED BY <1>1, <2>1, <2>2, <2>3, <2>4, GoneStep DEF r
<1> QED BY <1>2, <1>3

(* open gives the claim and the lock back. *)
LEMMA OpenFailsStep ==
  ASSUME IInv, NEW h \in Handle, OpenFails(h)
  PROVE  IInv'
<1>1. /\ handle[h].phase \in {"opening", "locked"} /\ UNCHANGED <<disk, flusher, acked>>
      /\ lock' = IF lock = h THEN None ELSE lock
      /\ handle' = [handle EXCEPT ![h] = GoneAt(None)]
  BY GoneOK DEF OpenFails
<1>2. ~Queued(handle[h], "flush")
  BY <1>1, Now, ChainEmpty DEF RecordOK, PhaseOK, Dormant, Queued, Job
<1>3. AckedOK' /\ lock' \in Handle \cup {None}
  BY <1>1 DEF IInv, AckedOK, Types
<1>4. \A g \in Handle \ {h} : handle[g].lease = "held" => lock' = g
  BY <1>1 DEF IInv, LockOK
<1> QED BY <1>1, <1>2, <1>3, <1>4, GoneStep

(* close() settles: the lock may still be held in the kernel, the handle is
   done with it.  Without a failure every event of the session is in the log. *)
LEMMA ForgetHandleStep ==
  ASSUME IInv, NEW h \in Handle, ForgetHandle(h)
  PROVE  IInv'
<1> DEFINE r == handle[h]
<1>1. /\ r.close = "forget" /\ UNCHANGED <<disk, lock, flusher>>
      /\ r \in HandleRecord /\ RecordOK(r) /\ Flush(h, r, flusher)
      /\ Own(h, r, disk.log)
  BY Now DEF ForgetHandle
<1>2. r.chain = <<>> /\ ~Queued(r, "flush")
  BY <1>1, ChainEmpty DEF RecordOK, CloseOK, Queued, Job
<1>3. AckedOK'
  <2>1. CASE r.failure \/ r.phase # "live"
    BY <1>1, <2>1 DEF ForgetHandle, IInv, AckedOK
  <2>2. CASE ~r.failure /\ r.phase = "live"
    <3>1. r.n = r.cursor
      BY <1>1, <2>2 DEF RecordOK, CloseOK
    <3>2. acked' = acked \cup OwnEvents(h, r.n)
      BY <2>2 DEF ForgetHandle
    <3>3. \A e \in OwnEvents(h, r.n) : InLog(disk.log, e)
      BY <1>1, <3>1 DEF Own, OwnEvents
    <3> QED BY <1>1, <3>2, <3>3 DEF IInv, AckedOK
  <2> QED BY <2>1, <2>2
<1>4. CASE r.timer \/ r.chain # <<>> \/ Settled(r)
  <2> DEFINE s == Closed(r)
  <2>1. handle' = [handle EXCEPT ![h] = s]
    BY <1>4 DEF ForgetHandle, Closed
  <2>2. s \in HandleRecord /\ RecordOK(s) /\ SameView(r, s)
    BY <1>1, ClosedOK
  <2>3. s.phase = r.phase /\ s.chain = r.chain /\ s.drain = r.drain /\ s.n = r.n
    BY <1>1 DEF Closed, HandleRecord
  <2> HIDE DEF s, r
  <2>4. Flush(h, s, flusher')
    BY <1>1, <2>2, <2>3 DEF Flush, Queued, SameView
  <2>5. flusher' \in Caller /\ \A g \in Handle \ {h} : Flush(g, handle[g], flusher')
    BY <1>1 DEF IInv, Types, FlushOK
  <2> QED BY <1>1, <1>3, <2>1, <2>2, <2>3, <2>4, <2>5, QuietStep DEF r
<1>5. CASE ~(r.timer \/ r.chain # <<>> \/ Settled(r))
  <2> DEFINE p == IF lock = h THEN r.proc ELSE None
  <2>1. handle' = [handle EXCEPT ![h] = GoneAt(p)]
    BY <1>5 DEF ForgetHandle, GoneAt
  <2>2. p \in Process \cup {None} /\ lock' \in Handle \cup {None}
    BY <1>1 DEF HandleRecord, IInv, Types
  <2>3. \A g \in Handle \ {h} : handle[g].lease = "held" => lock' = g
    BY <1>1 DEF IInv, LockOK
  <2> HIDE DEF r, p
  <2> QED BY <1>1, <1>2, <1>3, <2>1, <2>2, <2>3, GoneStep DEF r
<1> QED BY <1>4, <1>5

-----------------------------------------------------------------------------
(* A step of one handle that changes the lock and not the file. *)
LEMMA LockStep ==
  ASSUME IInv, NEW h \in Handle, NEW s \in HandleRecord, RecordOK(s),
         handle' = [handle EXCEPT ![h] = s], UNCHANGED <<disk, flusher, acked>>,
         s.lease = "held" => lock' = h, lock' \in Handle \cup {None},
         \A g \in Handle \ {h} : handle[g].lease = "held" => lock' = g,
         View(s, disk), Own(h, s, disk.log), Flush(h, s, flusher)
  PROVE  IInv'
<1>1. DiskOK' /\ disk' \in File /\ AckedOK' /\ flusher' \in Caller
  BY DEF IInv, Types, DiskOK, FileOK, AckedOK
<1>2. View(s, disk') /\ Own(h, s, disk'.log) /\ Flush(h, s, flusher')
  OBVIOUS
<1>3. \A g \in Handle \ {h} : Flush(g, handle[g], flusher')
  BY DEF IInv, FlushOK
<1>4. \A g \in Handle \ {h} : handle[g].lease = "held" => lock' = g /\ disk' = disk
  OBVIOUS
<1>5. \A e \in Record : InLog(disk.log, e) => InLog(disk'.log, e)
  OBVIOUS
<1> QED BY <1>1, <1>2, <1>3, <1>4, <1>5, OneHandle

(* open takes the lock of a log that is there. *)
LEMMA OpenLockStep ==
  ASSUME IInv, NEW h \in Handle, OpenLock(h)
  PROVE  IInv'
<1> DEFINE r == handle[h]
           s == Locked(r)
<1>1. /\ r.phase = "opening" /\ disk.exists /\ lock = None /\ lock' = h
      /\ UNCHANGED <<disk, flusher, acked>>
      /\ r \in HandleRecord /\ RecordOK(r) /\ Flush(h, r, flusher)
  BY Now DEF OpenLock
<1>2. handle' = [handle EXCEPT ![h] = s]
  BY Now DEF OpenLock, Locked
<1>3. s \in HandleRecord /\ RecordOK(s)
  BY <1>1, LockedOK
<1>4. /\ s.phase = "locked" /\ s.chain = r.chain /\ s.drain = r.drain /\ s.cursor = r.cursor
      /\ s.seed = r.seed /\ s.materialized = r.materialized
  BY <1>1 DEF Locked, HandleRecord
<1>5. r.cursor = 0 /\ r.seed = 0 /\ ~r.materialized
  BY <1>1 DEF RecordOK, PhaseOK, Dormant
<1> HIDE DEF s, r
<1>6. Flush(h, s, flusher) /\ View(s, disk)
  BY <1>1, <1>4, <1>5 DEF Flush, Queued, View
<1>7. Own(h, s, disk.log)
  BY <1>4, <1>5 DEF Own
<1>8. \A g \in Handle \ {h} : handle[g].lease = "held" => lock' = g
  BY <1>1, NoneAssumption DEF IInv, LockOK
<1>9. lock' \in Handle \cup {None}
  BY <1>1
<1> QED BY <1>1, <1>2, <1>3, <1>6, <1>7, <1>8, <1>9, LockStep

(* open reads under the lock. *)
LEMMA OpenReadStep ==
  ASSUME IInv, NEW h \in Handle, OpenRead(h)
  PROVE  IInv'
<1> DEFINE r == handle[h]
           s == Read(r, disk.log, disk.torn, disk.tail)
<1>1. /\ r.phase = "locked" /\ UNCHANGED <<disk, lock, flusher, acked>>
      /\ r \in HandleRecord /\ RecordOK(r) /\ Flush(h, r, flusher) /\ View(r, disk)
      /\ r.lease = "held" => lock = h
  BY Now DEF OpenRead
<1>2. handle' = [handle EXCEPT ![h] = s]
  BY Now DEF OpenRead, Read, Readable
<1>a. disk.log \in Seq(Record) /\ disk.torn \in BOOLEAN /\ disk.tail \in Seq(Record)
  BY DEF IInv, Types, File
<1>3. s \in HandleRecord /\ RecordOK(s)
  BY <1>1, <1>a, ReadOK
<1>4. /\ s.phase = "setup" /\ s.chain = r.chain /\ s.drain = r.drain /\ s.lease = r.lease
      /\ s.seed = Len(disk.log \o disk.tail) /\ s.cursor = Len(disk.log \o disk.tail)
      /\ s.materialized = TRUE /\ s.torn = disk.torn /\ s.recovered = disk.tail
  BY <1>1 DEF Read, HandleRecord
<1>5. Len(disk.log \o disk.tail) = Len(disk.log) + Len(disk.tail)
  BY <1>a
<1>b. Len(disk.log \o disk.tail) \in Nat
  <2>1. disk.log \o disk.tail \in Seq(Record)
    BY <1>a
  <2>2. \A log \in Seq(Record) : Len(log) \in Nat
    OBVIOUS
  <2> QED BY <2>1, <2>2
<1>6. lock = h
  BY <1>1 DEF RecordOK, PhaseOK, Dormant
<1> HIDE DEF s, r
<1>7. Flush(h, s, flusher)
  BY <1>1, <1>4 DEF Flush, Queued
<1>8. View(s, disk)
  BY <1>1, <1>4, <1>5 DEF View, IInv, DiskOK, FileOK
<1>9. Own(h, s, disk.log)
  <2>1. ASSUME NEW k \in Nat PROVE (k + 1)..k = {}
    OBVIOUS
  <2>2. (s.seed + 1)..s.cursor = {}
    BY <2>1, <1>4, <1>b
  <2> QED BY <2>2 DEF Own
<1>10. \A g \in Handle \ {h} : handle[g].lease = "held" => lock' = g
  BY <1>1 DEF IInv, LockOK
<1>11. lock' \in Handle \cup {None} /\ lock' = h
  BY <1>1, <1>6
<1> QED BY <1>1, <1>2, <1>3, <1>7, <1>8, <1>9, <1>10, <1>11, LockStep

(* ensureLease: one is held already, or the lock is free. *)
LEMMA TakeLeaseStep ==
  ASSUME IInv, NEW h \in Handle, TakeLease(h)
  PROVE  IInv'
<1> DEFINE r == handle[h]
           s == Leased(r)
<1>1. /\ r.stage = "lease" /\ Contiguous(r.batch, r.cursor)
      /\ \/ r.lease # "none" /\ lock' = lock
         \/ r.lease = "none" /\ lock = None /\ lock' = h
      /\ UNCHANGED <<disk, flusher, acked>>
      /\ r \in HandleRecord /\ RecordOK(r) /\ Flush(h, r, flusher) /\ View(r, disk)
      /\ Own(h, r, disk.log) /\ (r.lease = "held" => lock = h)
  BY Now DEF TakeLease
<1>2. handle' = [handle EXCEPT ![h] = s]
  BY Now DEF TakeLease, Leased
<1>3. s \in HandleRecord /\ RecordOK(s)
  BY <1>1, LeasedOK
<1>4. /\ s.phase = r.phase /\ s.chain = r.chain /\ s.drain = r.drain /\ s.cursor = r.cursor
      /\ s.seed = r.seed /\ s.materialized = r.materialized /\ s.n = r.n
      /\ s.torn = r.torn /\ s.recovered = r.recovered
  BY <1>1 DEF Leased, HandleRecord
<1>5. r.lease \in {"none", "held"} /\ (r.materialized => r.lease = "held")
  BY <1>1 DEF RecordOK, LeaseOK, CloseOK, ChainOK, HandleRecord
<1> HIDE DEF s, r
<1>6. lock' = h
  BY <1>1, <1>5
<1>7. \A g \in Handle \ {h} : handle[g].lease = "held" => lock' = g
  BY <1>1, <1>5, <1>6, NoneAssumption DEF IInv, LockOK
<1>8. Flush(h, s, flusher)
  BY <1>1, <1>4 DEF Flush, Queued
<1>9. View(s, disk) /\ Own(h, s, disk.log)
  BY <1>1, <1>4, <1>5 DEF View, Own
<1> QED BY <1>1, <1>2, <1>3, <1>6, <1>7, <1>8, <1>9, LockStep

(* The lease is given back, or its descriptor fails to close. *)
LEMMA ReleaseLeaseStep ==
  ASSUME IInv, NEW h \in Handle, ReleaseLease(h)
  PROVE  IInv'
<1> DEFINE r == handle[h]
<1>1. /\ r.close = "release" /\ UNCHANGED <<disk, flusher, acked>>
      /\ r \in HandleRecord /\ RecordOK(r) /\ Flush(h, r, flusher) /\ View(r, disk)
      /\ Own(h, r, disk.log) /\ (r.lease = "held" => lock = h)
  BY Now DEF ReleaseLease
<1>2. PICK ok \in BOOLEAN :
        /\ handle' = [handle EXCEPT ![h].close = "forget", ![h].failure = @ \/ ~ok,
                                    ![h].lease = IF @ = "held" THEN "released" ELSE @]
        /\ lock' \in IF lock = h THEN IF ok THEN {None} ELSE {None, h} ELSE {lock}
  BY DEF ReleaseLease
<1> DEFINE s == Released(r, ok)
<1>3. handle' = [handle EXCEPT ![h] = s]
  BY Now, <1>2 DEF Released
<1>4. s \in HandleRecord /\ RecordOK(s)
  BY <1>1, ReleasedOK
<1>5. /\ s.phase = r.phase /\ s.chain = r.chain /\ s.drain = r.drain /\ s.cursor = r.cursor
      /\ s.seed = r.seed /\ s.n = r.n /\ s.lease # "held"
  BY <1>1 DEF Released, HandleRecord
<1>6. lock' \in Handle \cup {None} /\ (lock # h => lock' = lock)
  BY <1>2 DEF IInv, Types
<1> HIDE DEF s, r
<1>7. \A g \in Handle \ {h} : handle[g].lease = "held" => lock' = g
  BY <1>6 DEF IInv, LockOK
<1>8. Flush(h, s, flusher)
  BY <1>1, <1>5 DEF Flush, Queued
<1>9. View(s, disk) /\ Own(h, s, disk.log)
  <2>1. r.phase # "locked"
    BY <1>1 DEF RecordOK, PhaseOK, Dormant
  <2> QED BY <2>1, <1>1, <1>5 DEF View, Own
<1> QED BY <1>1, <1>3, <1>4, <1>5, <1>6, <1>7, <1>8, <1>9, LockStep

-----------------------------------------------------------------------------
(* The end of a job: its caller hears of it, and what that promises is kept. *)
LEMMA JobEndStep ==
  ASSUME IInv, NEW h \in Handle, NEW q \in HandleRecord, NEW ok \in BOOLEAN,
         JobEnd(h, q, ok), ChainOK(q), q.chain # <<>>,
         q.chain = handle[h].chain, q.n = handle[h].n, q.phase = handle[h].phase,
         q.drain = handle[h].drain, q.seed = handle[h].seed,
         q.buffered = handle[h].buffered, handle[h].cursor <= q.cursor,
         ok /\ Head(q.chain) = "append" => q.n = q.cursor,
         JobDone(q, ok) \in HandleRecord, RecordOK(JobDone(q, ok)),
         disk' \in File, DiskOK', lock' = lock,
         q.lease = "held" => lock = h, disk' = disk \/ lock = h,
         View(JobDone(q, ok), disk'), Own(h, JobDone(q, ok), disk'.log),
         \A e \in Record : InLog(disk.log, e) => InLog(disk'.log, e)
  PROVE  IInv'
<1> DEFINE r == handle[h]
           job == Head(q.chain)
           s == JobDone(q, ok)
<1>1. r \in HandleRecord /\ RecordOK(r) /\ Flush(h, r, flusher)
  BY Now
<1>2. handle' = [handle EXCEPT ![h] = s]
  BY DEF JobEnd
<1>3. flusher' = IF job = "flush" THEN NoFlush ELSE flusher
  BY DEF JobEnd
<1>4. Ends(q, ok, s)
  BY JobEffect
<1>5. /\ job \in Job /\ Queued(q, job)
      /\ \A other \in Job : Queued(s, other) =>
           Queued(q, other) /\ (other = job => other = "drain")
      /\ \A other \in Job : Queued(q, other) <=> Queued(r, other)
  BY <1>4, EndsChain DEF Queued
<1> HIDE DEF s, r, job
<1>6. /\ s.cursor = q.cursor /\ s.seed = q.seed /\ s.n = q.n /\ s.lease = q.lease
      /\ s.batch = <<>> /\ r.cursor <= s.cursor /\ r.cursor \in Nat /\ s.cursor \in Nat
      /\ r.n \in Nat /\ s.n = r.n
  BY <1>1, <1>4 DEF Ends, SameView, r, s, HandleRecord
<1>7. r.phase \in {"live", "gone"} => job # "append" /\ s.phase = "live" /\ r.phase = "live"
  BY <1>1, <1>4, <1>5 DEF RecordOK, PhaseOK, Dormant, Ends, job, r
<1>8. flusher \in Caller /\ (flusher.cover \in Nat)
  BY DEF IInv, Types, Caller
<1>9. flusher' \in Caller
  BY <1>3, <1>8, NoFlushTyped
<1>10. Flush(h, s, flusher')
  <2>1. CASE job = "flush"
    <3>1. ~Queued(s, "flush") /\ flusher' = NoFlush
      BY <2>1, <1>3, <1>5 DEF Job
    <3> QED BY <3>1, NoneAssumption DEF Flush, NoFlush
  <2>2. CASE job # "flush"
    <3>1. flusher' = flusher /\ (Queued(s, "flush") => Queued(r, "flush"))
      BY <2>2, <1>3, <1>5 DEF Job
    <3>2. Queued(s, "flush") =>
            /\ flusher.st = "job" /\ flusher.h = h
            /\ ~flusher.stale => flusher.cover <= s.cursor
      BY <3>1, <1>1, <1>6, <1>8 DEF Flush
    <3>3. flusher.h = h => s.phase = "live" /\ flusher.cover <= s.n
      BY <1>1, <1>6, <1>7 DEF Flush
    <3>4. ASSUME flusher.h = h, flusher.st = "drain", ~flusher.stale, s.drain = "drained"
          PROVE  flusher.cover <= s.cursor
      <4>1. CASE r.drain = "drained"
        BY <4>1, <3>4, <1>1, <1>6, <1>8 DEF Flush
      <4>2. CASE r.drain # "drained"
        <5>1. s.buffered = <<>>
          BY <4>2, <3>4, <1>4, <1>5 DEF Ends, job, Job, r
        <5>2. s.phase = "live" /\ Window(s)
          BY <3>3, <3>4 DEF RecordOK, PhaseOK, s
        <5>3. s.cursor + 0 + 0 = s.n /\ Len(<<>>) = 0
          BY <5>1, <5>2, <1>6 DEF Window
        <5> QED BY <5>3, <3>3, <3>4, <1>6
      <4> QED BY <4>1, <4>2
    <3> QED BY <3>1, <3>2, <3>3, <3>4 DEF Flush
  <2> QED BY <2>1, <2>2
<1>11. ASSUME NEW g \in Handle \ {h} PROVE Flush(g, handle[g], flusher')
  <2>1. Flush(g, handle[g], flusher)
    BY DEF IInv, FlushOK
  <2>2. CASE job = "flush"
    <3>1. Queued(r, "flush") /\ flusher' = NoFlush
      BY <2>2, <1>3, <1>5 DEF Job
    <3>2. flusher.h = h
      BY <3>1, <1>1 DEF Flush
    <3>3. ~Queued(handle[g], "flush")
      BY <2>1, <3>2 DEF Flush
    <3> QED BY <3>1, <3>3, NoneAssumption DEF Flush, NoFlush
  <2>3. CASE job # "flush"
    BY <2>1, <2>3, <1>3
  <2> QED BY <2>2, <2>3
<1>12. ASSUME NEW k \in Nat, k <= s.cursor, NEW e \in OwnEvents(h, k)
       PROVE  InLog(disk'.log, e)
  <2>1. PICK i \in (r.seed + 1)..k : e = [seq |-> i, by |-> h]
    BY <1>12 DEF OwnEvents, r
  <2>2. r.seed \in Nat /\ s.seed = r.seed
    BY <1>1, <1>6 DEF HandleRecord, r
  <2>3. i \in (s.seed + 1)..s.cursor
    BY <2>1, <2>2, <1>12, <1>6
  <2> QED BY <2>1, <2>3 DEF Own, s
<1>13. ASSUME NEW e \in acked' PROVE InLog(disk'.log, e)
  <2>1. CASE e \in acked
    <3>1. InLog(disk.log, e)
      BY <2>1 DEF IInv, AckedOK
    <3>2. e \in Record
      BY <3>1 DEF InLog, IInv, Types, File
    <3> QED BY <3>1, <3>2
  <2>2. CASE e \notin acked
    <3>1. \/ job = "append" /\ ok /\ e \in OwnEvents(h, q.n)
          \/ job = "flush" /\ ok /\ ~flusher.stale /\ e \in OwnEvents(h, flusher.cover)
      BY <2>2, <1>13 DEF JobEnd, job
    <3>2. CASE job = "append" /\ ok /\ e \in OwnEvents(h, q.n)
      BY <3>2, <1>6, <1>12 DEF job
    <3>3. CASE job = "flush" /\ ok /\ ~flusher.stale /\ e \in OwnEvents(h, flusher.cover)
      <4>1. Queued(r, "flush")
        BY <3>3, <1>5 DEF Job
      <4>2. flusher.cover <= s.cursor
        BY <4>1, <3>3, <1>1, <1>6, <1>8 DEF Flush
      <4> QED BY <4>2, <3>3, <1>8, <1>12
    <3> QED BY <3>1, <3>2, <3>3
  <2> QED BY <2>1, <2>2
<1>14. AckedOK'
  BY <1>13 DEF AckedOK
<1>15. \A g \in Handle \ {h} : handle[g].lease = "held" => lock' = g /\ disk' = disk
  BY DEF IInv, LockOK
<1>16. (s.lease = "held" => lock' = h) /\ lock' \in Handle \cup {None}
  BY <1>6 DEF IInv, Types
<1> QED BY <1>2, <1>9, <1>10, <1>11, <1>14, <1>15, <1>16, OneHandle DEF s

(* A job that ends without touching the file. *)
LEMMA JobOverStep ==
  ASSUME IInv, NEW h \in Handle, NEW ok \in BOOLEAN, JobEnd(h, handle[h], ok),
         handle[h].chain # <<>>, ok => Head(handle[h].chain) = "flush",
         UNCHANGED <<disk, lock>>
  PROVE  IInv'
<1> DEFINE q == handle[h]
           s == JobDone(q, ok)
<1>1. /\ q \in HandleRecord /\ RecordOK(q) /\ View(q, disk) /\ Own(h, q, disk.log)
      /\ q.lease = "held" => lock = h
  BY Now
<1>2. Ends(q, ok, s)
  BY <1>1, JobEffect
<1>3. s \in HandleRecord /\ RecordOK(s) /\ SameView(q, s)
  BY <1>1, <1>2, JobOverOK DEF Ends
<1>4. ChainOK(q) /\ q.cursor <= q.cursor /\ q.phase # "locked"
  BY <1>1 DEF RecordOK, HandleRecord, PhaseOK, Dormant
<1> HIDE DEF q, s
<1>5. s.phase # "locked"
  <2>1. Head(q.chain) = "append" => s.phase \in {"live", "aborted"}
    BY <1>2 DEF Ends
  <2> QED BY <2>1, <1>2, <1>4 DEF Ends
<1>6. View(s, disk') /\ Own(h, s, disk'.log)
  BY <1>1, <1>3, <1>5 DEF View, Own, SameView
<1>7. disk' \in File /\ DiskOK' /\ \A e \in Record : InLog(disk.log, e) => InLog(disk'.log, e)
  BY DEF IInv, Types, DiskOK, FileOK
<1>8. ok => Head(q.chain) # "append"
  BY DEF q
<1> QED BY <1>1, <1>3, <1>4, <1>6, <1>7, <1>8, JobEndStep DEF q, s

(* The lock is taken, the disk refuses, the append is rolled back. *)
LEMMA JobFailsStep ==
  ASSUME IInv, NEW h \in Handle, JobFails(h)
  PROVE  IInv'
<1>1. handle[h].chain # <<>>
  BY Now DEF JobFails, RecordOK, ChainOK
<1> QED BY <1>1, JobOverStep DEF JobFails

(* A job starts, or has nothing to do, or is refused. *)
LEMMA StartJobStep ==
  ASSUME IInv, NEW h \in Handle, StartJob(h)
  PROVE  IInv'
<1> DEFINE r == handle[h]
<1>1. /\ r.stage = "idle" /\ r.chain # <<>> /\ ~CloserIsFirst(r)
      /\ UNCHANGED <<disk, lock>>
      /\ r \in HandleRecord /\ RecordOK(r) /\ Flush(h, r, flusher)
  BY Now DEF StartJob
<1>2. Head(r.chain) \in Job
  BY <1>1, ChainTail DEF RecordOK, ChainOK, HandleRecord
<1>3. CASE Head(r.chain) = "drain"
  <2> DEFINE s == Started(r)
  <2>1. handle' = [handle EXCEPT ![h] = s] /\ UNCHANGED <<flusher, acked>>
    BY Now, <1>3 DEF StartJob, Started
  <2>2. s \in HandleRecord /\ RecordOK(s) /\ SameView(r, s)
    BY <1>1, <1>3, StartedOK
  <2>3. s.phase = r.phase /\ s.chain = r.chain /\ s.drain = r.drain /\ s.n = r.n
    BY <1>1 DEF Started, HandleRecord
  <2> HIDE DEF s, r
  <2>4. Flush(h, s, flusher)
    BY <1>1, <2>2, <2>3 DEF Flush, Queued, SameView
  <2> QED BY <1>1, <2>1, <2>2, <2>3, <2>4, AloneStep DEF r
<1>4. CASE Head(r.chain) = "append" /\ r.close = "no"
  <2> DEFINE s == Starting(r)
  <2>1. handle' = [handle EXCEPT ![h] = s] /\ UNCHANGED <<flusher, acked>>
    BY Now, <1>4 DEF StartJob, Starting
  <2>2. s \in HandleRecord /\ RecordOK(s) /\ SameView(r, s)
    BY <1>1, <1>4, StartingOK
  <2>3. s.phase = r.phase /\ s.chain = r.chain /\ s.drain = r.drain /\ s.n = r.n
    BY <1>1 DEF Starting, HandleRecord
  <2> HIDE DEF s, r
  <2>4. Flush(h, s, flusher)
    BY <1>1, <2>2, <2>3 DEF Flush, Queued, SameView
  <2> QED BY <1>1, <2>1, <2>2, <2>3, <2>4, AloneStep DEF r
<1>5. CASE Head(r.chain) = "flush" /\ r.close = "no" /\ ~r.materialized
  <2> DEFINE s == Headed(r)
  <2>1. handle' = [handle EXCEPT ![h] = s] /\ UNCHANGED <<flusher, acked>>
    BY Now, <1>5 DEF StartJob, Headed
  <2>2. s \in HandleRecord /\ RecordOK(s) /\ SameView(r, s)
    BY <1>1, <1>5, HeadedOK
  <2>3. s.phase = r.phase /\ s.chain = r.chain /\ s.drain = r.drain /\ s.n = r.n
    BY <1>1 DEF Headed, HandleRecord
  <2> HIDE DEF s, r
  <2>4. Flush(h, s, flusher)
    BY <1>1, <2>2, <2>3 DEF Flush, Queued, SameView
  <2> QED BY <1>1, <2>1, <2>2, <2>3, <2>4, AloneStep DEF r
<1>6. CASE Head(r.chain) = "flush" /\ r.close = "no" /\ r.materialized
  <2>1. JobEnd(h, handle[h], TRUE)
    BY <1>6 DEF StartJob
  <2> QED BY <2>1, <1>1, <1>6, JobOverStep
<1>7. CASE Head(r.chain) \in {"append", "flush"} /\ r.close # "no"
  <2>1. JobEnd(h, handle[h], FALSE)
    BY <1>7 DEF StartJob
  <2> QED BY <2>1, <1>1, JobOverStep
<1> QED BY <1>2, <1>3, <1>4, <1>5, <1>6, <1>7 DEF Job

-----------------------------------------------------------------------------
(* What is in a log stays in it when records are written behind, and the
   numbers go on. *)
LEMMA LogGrows ==
  ASSUME NEW log \in Seq(Record), NEW more \in Seq(Record)
  PROVE  /\ log \o more \in Seq(Record) /\ Len(log \o more) = Len(log) + Len(more)
         /\ \A e : InLog(log, e) \/ InLog(more, e) => InLog(log \o more, e)
         /\ \A base \in Nat : Numbered(log, base) /\ Numbered(more, base + Len(log)) =>
              Numbered(log \o more, base)
<1>1. /\ log \o more \in Seq(Record) /\ Len(log \o more) = Len(log) + Len(more)
      /\ Len(log) \in Nat /\ Len(more) \in Nat
      /\ DOMAIN log = 1..Len(log) /\ DOMAIN more = 1..Len(more)
      /\ DOMAIN (log \o more) = 1..(Len(log) + Len(more))
      /\ \A i \in 1..Len(log) : (log \o more)[i] = log[i]
      /\ \A i \in 1..Len(more) : (log \o more)[Len(log) + i] = more[i]
  OBVIOUS
<1>2. ASSUME NEW e, InLog(log, e) PROVE InLog(log \o more, e)
  <2>1. PICK i \in 1..Len(log) : log[i] = e
    BY <1>1, <1>2 DEF InLog
  <2>2. i \in 1..(Len(log) + Len(more)) /\ (log \o more)[i] = e
    BY <1>1, <2>1
  <2> QED BY <1>1, <2>2 DEF InLog
<1>3. ASSUME NEW e, InLog(more, e) PROVE InLog(log \o more, e)
  <2>1. PICK i \in 1..Len(more) : more[i] = e
    BY <1>1, <1>3 DEF InLog
  <2>2. Len(log) + i \in 1..(Len(log) + Len(more)) /\ (log \o more)[Len(log) + i] = e
    BY <1>1, <2>1
  <2> QED BY <1>1, <2>2 DEF InLog
<1>4. ASSUME NEW base \in Nat, Numbered(log, base), Numbered(more, base + Len(log)),
             NEW i \in 1..(Len(log) + Len(more))
      PROVE  (log \o more)[i].seq = base + i
  <2>1. CASE i <= Len(log)
    <3>1. i \in 1..Len(log)
      BY <2>1, <1>1
    <3>2. log[i].seq = base + i
      BY <3>1, <1>1, <1>4 DEF Numbered
    <3> QED BY <3>1, <3>2, <1>1
  <2>2. CASE i > Len(log)
    <3> DEFINE j == i - Len(log)
    <3>1. j \in 1..Len(more) /\ i = Len(log) + j
      BY <2>2, <1>1
    <3> HIDE DEF j
    <3>2. more[j].seq = base + Len(log) + j
      BY <3>1, <1>1, <1>4 DEF Numbered
    <3>3. (log \o more)[i] = more[j]
      BY <3>1, <1>1
    <3>4. base + Len(log) + j = base + i
      BY <3>1, <1>1
    <3> QED BY <3>2, <3>3, <3>4
  <2> QED BY <2>1, <2>2, <1>1
<1>5. \A base \in Nat : Numbered(log, base) /\ Numbered(more, base + Len(log)) =>
        Numbered(log \o more, base)
  BY <1>1, <1>4 DEF Numbered
<1> QED BY <1>1, <1>2, <1>3, <1>5

(* The records of a batch that continues the log. *)
LEMMA StampIs ==
  ASSUME NEW h \in Handle, NEW batch \in Seq(Nat), NEW cursor \in Nat,
         Contiguous(batch, cursor)
  PROVE  /\ Stamp(h, batch) \in Seq(Record) /\ Len(Stamp(h, batch)) = Len(batch)
         /\ Numbered(Stamp(h, batch), cursor)
         /\ \A i \in (cursor + 1)..(cursor + Len(batch)) :
              InLog(Stamp(h, batch), [seq |-> i, by |-> h])
<1> DEFINE st == Stamp(h, batch)
<1>1. /\ DOMAIN batch = 1..Len(batch) /\ Len(batch) \in Nat
      /\ \A i \in 1..Len(batch) : batch[i] = cursor + i
  BY DEF Contiguous
<1>2. DOMAIN st = 1..Len(batch) /\ \A i \in 1..Len(batch) : st[i] = [seq |-> cursor + i, by |-> h]
  BY <1>1 DEF Stamp
<1>3. st = [i \in 1..Len(batch) |-> [seq |-> batch[i], by |-> h]]
  BY <1>1 DEF Stamp
<1>4. st \in Seq(Record) /\ Len(st) = Len(batch)
  <2>1. \A i \in 1..Len(batch) : [seq |-> batch[i], by |-> h] \in Record
    BY <1>1 DEF Record
  <2> HIDE DEF st
  <2> QED BY <1>1, <1>3, <2>1
<1> HIDE DEF st
<1>5. Numbered(st, cursor)
  BY <1>2 DEF Numbered
<1>6. ASSUME NEW i \in (cursor + 1)..(cursor + Len(batch))
      PROVE  InLog(st, [seq |-> i, by |-> h])
  <2>1. i - cursor \in 1..Len(batch) /\ cursor + (i - cursor) = i
    BY <1>1, <1>6
  <2> QED BY <2>1, <1>2 DEF InLog
<1> QED BY <1>4, <1>5, <1>6 DEF st

(* A step of the handle that has the lock, on the file. *)
LEMMA FileStep ==
  ASSUME IInv, NEW h \in Handle, NEW s \in HandleRecord, RecordOK(s),
         handle' = [handle EXCEPT ![h] = s], UNCHANGED <<lock, flusher, acked>>,
         lock = h, disk' \in File, DiskOK', View(s, disk'), Flush(h, s, flusher),
         s.seed = handle[h].seed, s.cursor = handle[h].cursor,
         \A e \in Record : InLog(disk.log, e) => InLog(disk'.log, e)
  PROVE  IInv'
<1>1. Flush(h, s, flusher') /\ flusher' \in Caller /\ lock' \in Handle \cup {None}
  BY DEF IInv, Types
<1>2. \A g \in Handle \ {h} : Flush(g, handle[g], flusher')
  BY DEF IInv, FlushOK
<1>3. \A g \in Handle \ {h} : handle[g].lease = "held" => lock' = g /\ disk' = disk
  BY DEF IInv, LockOK
<1>4. Own(h, s, disk'.log)
  <2>1. Own(h, handle[h], disk.log) /\ s.seed \in Nat /\ s.cursor \in Nat
    BY Now DEF HandleRecord
  <2>2. ASSUME NEW i \in (s.seed + 1)..s.cursor PROVE InLog(disk'.log, [seq |-> i, by |-> h])
    <3>1. [seq |-> i, by |-> h] \in Record
      BY <2>1 DEF Record
    <3> QED BY <2>1, <3>1 DEF Own
  <2> QED BY <2>2 DEF Own
<1>5. AckedOK'
  <2>1. ASSUME NEW e \in acked PROVE InLog(disk'.log, e)
    <3>1. InLog(disk.log, e)
      BY DEF IInv, AckedOK
    <3>2. e \in Record
      BY <3>1 DEF InLog, IInv, Types, File
    <3> QED BY <3>1, <3>2
  <2> QED BY <2>1 DEF AckedOK
<1>6. s.lease = "held" => lock' = h
  OBVIOUS
<1> QED BY <1>1, <1>2, <1>3, <1>4, <1>5, <1>6, OneHandle

(* The torn bytes are cut off. *)
LEMMA TruncateTailStep ==
  ASSUME IInv, NEW h \in Handle, TruncateTail(h)
  PROVE  IInv'
<1> DEFINE r == handle[h]
           s == Mended(r)
<1>1. /\ r.stage = "truncate" /\ UNCHANGED <<lock, flusher, acked>>
      /\ disk' = [disk EXCEPT !.torn = FALSE, !.tail = <<>>]
      /\ r \in HandleRecord /\ RecordOK(r) /\ Flush(h, r, flusher) /\ View(r, disk)
      /\ r.lease = "held" => lock = h
  BY Now DEF TruncateTail, Truncated
<1>2. handle' = [handle EXCEPT ![h] = s]
  BY Now DEF TruncateTail, Mended
<1>3. s \in HandleRecord /\ RecordOK(s)
  BY <1>1, MendedOK
<1>4. /\ s.phase = r.phase /\ s.chain = r.chain /\ s.drain = r.drain /\ s.cursor = r.cursor
      /\ s.seed = r.seed /\ s.n = r.n /\ s.materialized = r.materialized /\ s.torn = FALSE
      /\ s.recovered = r.recovered /\ s.lease = r.lease
  BY <1>1 DEF Mended, HandleRecord
<1>5. r.lease = "held" /\ lock = h
  BY <1>1 DEF RecordOK, LeaseOK
<1> HIDE DEF s, r
<1>6. /\ disk' \in File /\ disk'.log = disk.log /\ disk'.exists = disk.exists
      /\ disk'.torn = FALSE /\ disk'.tail = <<>>
  <2>1. disk \in File /\ <<>> \in Seq(Record)
    BY DEF IInv, Types
  <2> QED BY <1>1, <2>1 DEF File
<1>7. DiskOK'
  BY <1>6 DEF IInv, DiskOK, FileOK, Numbered
<1>8. View(s, disk')
  BY <1>1, <1>4, <1>6 DEF View
<1>9. Flush(h, s, flusher)
  BY <1>1, <1>4 DEF Flush, Queued
<1>10. \A e \in Record : InLog(disk.log, e) => InLog(disk'.log, e)
  BY <1>6
<1> QED BY <1>1, <1>2, <1>3, <1>4, <1>5, <1>6, <1>7, <1>8, <1>9, <1>10, FileStep DEF r

(* The recovered records are written behind the complete ones. *)
LEMMA RewriteTailStep ==
  ASSUME IInv, NEW h \in Handle, RewriteTail(h)
  PROVE  IInv'
<1> DEFINE r == handle[h]
           s == Restored(r)
<1>1. /\ r.stage = "rewrite" /\ UNCHANGED <<lock, flusher, acked>>
      /\ disk' = Appended(disk, r.recovered)
      /\ r \in HandleRecord /\ RecordOK(r) /\ Flush(h, r, flusher) /\ View(r, disk)
      /\ r.lease = "held" => lock = h
  BY Now DEF RewriteTail
<1>2. handle' = [handle EXCEPT ![h] = s]
  BY Now DEF RewriteTail, Restored
<1>3. s \in HandleRecord /\ RecordOK(s)
  BY <1>1, RestoredOK
<1>4. /\ s.phase = r.phase /\ s.chain = r.chain /\ s.drain = r.drain /\ s.cursor = r.cursor
      /\ s.seed = r.seed /\ s.n = r.n /\ s.materialized = r.materialized /\ s.torn = r.torn
      /\ s.recovered = <<>> /\ s.lease = r.lease
  BY <1>1 DEF Restored, HandleRecord
<1>5. /\ r.lease = "held" /\ lock = h /\ r.materialized /\ ~r.torn /\ ~disk.torn
      /\ r.torn = disk.torn
  BY <1>1 DEF RecordOK, LeaseOK, View
<1>a. r.recovered \in Seq(Record) /\ disk \in File /\ r.cursor \in Nat
  BY <1>1 DEF HandleRecord, IInv, Types
<1> HIDE DEF s, r
<1> DEFINE log == disk.log \o r.recovered
<1>b. /\ disk.log \in Seq(Record) /\ disk.exists /\ disk.tail = <<>>
      /\ Numbered(disk.log, 0) /\ Numbered(r.recovered, Len(disk.log))
      /\ r.cursor = Len(disk.log) + Len(r.recovered) /\ Len(disk.log) \in Nat
      /\ 0 + Len(disk.log) = Len(disk.log)
  <2>1. disk.log \in Seq(Record)
    BY <1>a DEF File
  <2>2. /\ disk.exists /\ disk.tail = <<>> /\ Numbered(disk.log, 0)
        /\ Numbered(r.recovered, Len(disk.log))
        /\ r.cursor = Len(disk.log) + Len(r.recovered)
    BY <1>1, <1>5 DEF View, IInv, DiskOK, FileOK
  <2>3. \A l \in Seq(Record) : Len(l) \in Nat /\ 0 + Len(l) = Len(l)
    OBVIOUS
  <2> QED BY <2>1, <2>2, <2>3
<1>c. /\ log \in Seq(Record) /\ Len(log) = r.cursor /\ Numbered(log, 0)
      /\ \A e : InLog(disk.log, e) => InLog(log, e)
  BY <1>a, <1>b, LogGrows
<1>6. /\ disk' \in File /\ disk'.log = log /\ disk'.exists = disk.exists
      /\ disk'.torn = disk.torn /\ disk'.tail = disk.tail
  BY <1>1, <1>5, <1>a, <1>c DEF File, Appended
<1> HIDE DEF log
<1>d. \A k \in Nat : k + Len(<<>>) = k /\ Numbered(<<>>, k)
  BY DEF Numbered
<1>7. DiskOK'
  <2>1. Numbered(disk'.log, 0) /\ Numbered(disk'.tail, Len(disk'.log))
    BY <1>6, <1>a, <1>b, <1>c, <1>d
  <2> QED BY <2>1, <1>5, <1>6, <1>b DEF DiskOK, FileOK
<1>8. View(s, disk')
  <2>1. s.cursor = Len(disk'.log) + Len(s.recovered) /\ Numbered(s.recovered, Len(disk'.log))
    BY <1>4, <1>6, <1>a, <1>c, <1>d
  <2>2. s.phase # "locked"
    BY <1>1, <1>4 DEF RecordOK, PhaseOK, Dormant, ChainOK
  <2> QED BY <2>1, <2>2, <1>4, <1>5, <1>6, <1>b DEF View
<1>9. Flush(h, s, flusher)
  BY <1>1, <1>4 DEF Flush, Queued
<1>10. \A e \in Record : InLog(disk.log, e) => InLog(disk'.log, e)
  BY <1>6, <1>c
<1> QED BY <1>1, <1>2, <1>3, <1>4, <1>5, <1>6, <1>7, <1>8, <1>9, <1>10, FileStep DEF r

(* Records that continue the log, written whole, or torn in the middle. *)
LEMMA Continued ==
  ASSUME NEW d \in File, FileOK(d), ~d.torn, NEW records \in Seq(Record),
         Numbered(records, Len(d.log))
  PROVE  LET whole == [Appended(d, records) EXCEPT !.exists = TRUE]
         IN  /\ whole \in File /\ FileOK(whole) /\ whole.log = d.log \o records
             /\ whole.exists = TRUE /\ whole.torn = d.torn
             /\ \A k \in 0..Len(records) : d.exists =>
                  LET partly == [d EXCEPT !.torn = TRUE, !.tail = SubSeq(records, 1, k)]
                  IN  partly \in File /\ FileOK(partly) /\ partly.log = d.log
<1> DEFINE whole == [Appended(d, records) EXCEPT !.exists = TRUE]
           log == d.log \o records
<1>1. d.log \in Seq(Record) /\ Numbered(d.log, 0) /\ d.tail = <<>>
  BY DEF File, FileOK
<1>2. \A l \in Seq(Record) : Len(l) \in Nat /\ 0 + Len(l) = Len(l)
  OBVIOUS
<1>3. log \in Seq(Record) /\ Numbered(log, 0)
  BY <1>1, <1>2, LogGrows
<1>4. /\ whole \in File /\ whole.log = log /\ whole.exists = TRUE /\ whole.torn = d.torn
      /\ whole.tail = d.tail
  <2> HIDE DEF log
  <2>1. Appended(d, records) = [d EXCEPT !.log = log]
    BY DEF Appended, log
  <2>2. whole = [d EXCEPT !.log = log, !.exists = TRUE]
    BY <2>1
  <2> HIDE DEF whole
  <2> QED BY <2>2, <1>3 DEF File
<1>5. Numbered(<<>>, Len(log))
  BY DEF Numbered
<1> HIDE DEF whole
<1>6. FileOK(whole)
  BY <1>1, <1>3, <1>4, <1>5 DEF FileOK
<1>7. ASSUME NEW k \in 0..Len(records), d.exists
      PROVE  LET partly == [d EXCEPT !.torn = TRUE, !.tail = SubSeq(records, 1, k)]
             IN  partly \in File /\ FileOK(partly) /\ partly.log = d.log
  <2> DEFINE tail == SubSeq(records, 1, k)
             partly == [d EXCEPT !.torn = TRUE, !.tail = tail]
  <2>1. /\ tail \in Seq(Record) /\ Len(tail) = k /\ k <= Len(records)
        /\ \A i \in 1..k : tail[i] = records[i]
    OBVIOUS
  <2>2. Numbered(tail, Len(d.log))
    <3>1. DOMAIN tail = 1..k
      BY <2>1
    <3>2. \A i \in 1..k : i \in DOMAIN records
      BY <2>1
    <3> HIDE DEF tail
    <3> QED BY <2>1, <3>1, <3>2 DEF Numbered
  <2> HIDE DEF tail
  <2>3. /\ partly \in File /\ partly.log = d.log /\ partly.torn = TRUE /\ partly.tail = tail
        /\ partly.exists = d.exists
    BY <2>1 DEF File
  <2> HIDE DEF partly
  <2>4. FileOK(partly)
    BY <2>2, <2>3, <1>1, <1>7 DEF FileOK
  <2> QED BY <2>3, <2>4 DEF partly, tail
<1> QED BY <1>4, <1>6, <1>7 DEF whole

(* A write begins at the end of the log, and brings the cursor's events to it. *)
LEMMA BeforeWrite ==
  ASSUME IInv, NEW h \in Handle, handle[h].stage = "write",
         handle[h].materialized \/ ~disk.exists
  PROVE  LET r == handle[h]
             records == Stamp(h, r.batch)
             log == disk.log \o records
         IN  /\ lock = h /\ r.lease = "held" /\ ~disk.torn /\ disk \in File /\ FileOK(disk)
             /\ records \in Seq(Record) /\ Numbered(records, Len(disk.log))
             /\ log \in Seq(Record) /\ Len(log) = r.cursor + Len(r.batch)
             /\ \A e : InLog(disk.log, e) => InLog(log, e)
             /\ \A i \in (r.seed + 1)..(r.cursor + Len(r.batch)) :
                  InLog(log, [seq |-> i, by |-> h])
<1> DEFINE r == handle[h]
           records == Stamp(h, r.batch)
           log == disk.log \o records
<1>1. /\ r \in HandleRecord /\ RecordOK(r) /\ View(r, disk) /\ Own(h, r, disk.log)
      /\ r.lease = "held" => lock = h
  BY Now
<1>2. /\ r.lease = "held" /\ lock = h /\ Contiguous(r.batch, r.cursor) /\ r.recovered = <<>>
      /\ ~r.torn /\ (~r.materialized => r.cursor = 0)
  BY <1>1 DEF RecordOK, LeaseOK
<1>3. disk \in File /\ FileOK(disk) /\ disk.log \in Seq(Record)
  BY DEF IInv, Types, DiskOK, File
<1>4. r.batch \in Seq(Nat) /\ r.cursor \in Nat /\ r.seed \in Nat /\ Len(r.batch) \in Nat
  BY <1>1 DEF HandleRecord
<1>5. ~disk.torn /\ r.cursor = Len(disk.log)
  <2>1. Len(<<>>) = 0 /\ Len(disk.log) \in Nat /\ Len(disk.log) + 0 = Len(disk.log)
    BY <1>3
  <2>2. CASE r.materialized
    BY <2>1, <2>2, <1>1, <1>2 DEF View
  <2>3. CASE ~r.materialized
    BY <2>1, <2>3, <1>2, <1>3 DEF FileOK
  <2> QED BY <2>2, <2>3
<1> HIDE DEF r, records
<1>6. /\ records \in Seq(Record) /\ Len(records) = Len(r.batch)
      /\ Numbered(records, r.cursor)
      /\ \A i \in (r.cursor + 1)..(r.cursor + Len(r.batch)) :
           InLog(records, [seq |-> i, by |-> h])
  BY <1>2, <1>4, StampIs DEF records
<1>7. /\ log \in Seq(Record) /\ Len(log) = Len(disk.log) + Len(records)
      /\ \A e : InLog(disk.log, e) \/ InLog(records, e) => InLog(log, e)
  BY <1>3, <1>6, LogGrows
<1> HIDE DEF log
<1>8. ASSUME NEW i \in (r.seed + 1)..(r.cursor + Len(r.batch))
      PROVE  InLog(log, [seq |-> i, by |-> h])
  <2>1. CASE i <= r.cursor
    <3>1. i \in (r.seed + 1)..r.cursor
      BY <2>1, <1>4
    <3>2. InLog(disk.log, [seq |-> i, by |-> h])
      BY <3>1, <1>1 DEF Own
    <3> QED BY <3>2, <1>7
  <2>2. CASE i > r.cursor
    <3>1. i \in (r.cursor + 1)..(r.cursor + Len(r.batch))
      BY <2>2, <1>4
    <3>2. InLog(records, [seq |-> i, by |-> h])
      BY <3>1, <1>6
    <3> QED BY <3>2, <1>7
  <2> QED BY <2>1, <2>2, <1>4
<1>9. Len(log) = r.cursor + Len(r.batch)
  BY <1>5, <1>6, <1>7
<1> QED BY <1>2, <1>3, <1>5, <1>6, <1>7, <1>8, <1>9 DEF r, records, log

(* The write succeeds. *)
LEMMA WriteStep ==
  ASSUME IInv, NEW h \in Handle, Write(h)
  PROVE  IInv'
<1> DEFINE r == handle[h]
           q == Written(r)
           s == JobDone(q, TRUE)
           records == Stamp(h, r.batch)
           log == disk.log \o records
<1>1. /\ r.stage = "write" /\ (r.materialized \/ ~disk.exists)
      /\ disk' = [Appended(disk, records) EXCEPT !.exists = TRUE]
      /\ JobEnd(h, q, TRUE) /\ lock' = lock
  BY DEF Write, Written
<1>2. r \in HandleRecord /\ RecordOK(r)
  BY Now
<1>3. /\ lock = h /\ r.lease = "held" /\ ~disk.torn /\ disk \in File /\ FileOK(disk)
      /\ records \in Seq(Record) /\ Numbered(records, Len(disk.log))
      /\ Len(log) = r.cursor + Len(r.batch)
      /\ \A e : InLog(disk.log, e) => InLog(log, e)
      /\ \A i \in (r.seed + 1)..(r.cursor + Len(r.batch)) : InLog(log, [seq |-> i, by |-> h])
  BY <1>1, BeforeWrite
<1>4. /\ disk' \in File /\ FileOK(disk') /\ disk'.log = log /\ disk'.exists = TRUE
      /\ disk'.torn = disk.torn
  BY <1>1, <1>3, Continued
<1>5. /\ q \in HandleRecord /\ q.materialized = TRUE /\ q.cursor = r.cursor + Len(r.batch)
      /\ q.chain = r.chain /\ q.stage = r.stage /\ q.batch = r.batch /\ q.drain = r.drain
      /\ q.n = r.n /\ q.seed = r.seed /\ q.phase = r.phase /\ q.buffered = r.buffered
      /\ q.lease = r.lease
  <2>1. r.cursor + Len(r.batch) \in Nat
    BY <1>2 DEF HandleRecord
  <2> QED BY <2>1, <1>2 DEF HandleRecord, Written
<1> HIDE DEF r, q, s, records, log
<1>6. r.chain # <<>> /\ ChainOK(r)
  BY <1>1, <1>2 DEF RecordOK, ChainOK
<1>7. q.chain # <<>> /\ ChainOK(q)
  BY <1>5, <1>6 DEF ChainOK, Queued
<1>8. Ends(q, TRUE, s)
  BY <1>5, <1>7, JobEffect DEF s
<1>9. /\ s \in HandleRecord /\ RecordOK(s)
      /\ s.n = r.n /\ s.seed = r.seed /\ s.cursor = r.cursor + Len(r.batch)
      /\ s.lease = "held" /\ s.recovered = <<>> /\ ~s.torn
      /\ Head(r.chain) = "append" => s.cursor = s.n
  BY <1>1, <1>2, <1>8, JobWrittenOK DEF q
<1>10. r.cursor <= q.cursor /\ (Head(q.chain) = "append" => q.n = q.cursor)
  <2>1. r.cursor \in Nat /\ Len(r.batch) \in Nat
    BY <1>2 DEF HandleRecord
  <2> QED BY <2>1, <1>5, <1>9
<1>11. View(s, disk')
  <2>1. s.torn = disk'.torn
    BY <1>3, <1>4, <1>9 DEF HandleRecord, File
  <2>2. /\ s.cursor = Len(disk'.log) + Len(s.recovered)
        /\ Numbered(s.recovered, Len(disk'.log))
    <3>1. Len(<<>>) = 0 /\ Numbered(<<>>, Len(disk'.log)) /\ \A k \in Nat : k + 0 = k
      BY DEF Numbered
    <3>2. s.cursor \in Nat
      BY <1>9 DEF HandleRecord
    <3> QED BY <3>1, <3>2, <1>3, <1>4, <1>9
  <2> QED BY <2>1, <2>2, <1>4, <1>9 DEF View
<1>12. Own(h, s, disk'.log)
  BY <1>3, <1>4, <1>9 DEF Own
<1>13. DiskOK' /\ \A e \in Record : InLog(disk.log, e) => InLog(disk'.log, e)
  BY <1>3, <1>4 DEF DiskOK
<1> QED BY <1>1, <1>3, <1>4, <1>5, <1>7, <1>9, <1>10, <1>11, <1>12, <1>13, JobEndStep DEF r, s

(* The log is linked in place, and the caller hears of a failure. *)
LEMMA PublishedUnsyncedStep ==
  ASSUME IInv, NEW h \in Handle, PublishedUnsynced(h)
  PROVE  IInv'
<1> DEFINE q == handle[h]
           s == JobDone(q, FALSE)
           records == Stamp(h, q.batch)
<1>1. /\ q.stage = "write" /\ ~q.materialized /\ ~disk.exists
      /\ disk' = [disk EXCEPT !.exists = TRUE, !.log = records]
      /\ JobEnd(h, q, FALSE) /\ lock' = lock
  BY DEF PublishedUnsynced
<1>2. q \in HandleRecord /\ RecordOK(q)
  BY Now
<1>3. /\ lock = h /\ ~disk.torn /\ disk \in File /\ FileOK(disk)
      /\ records \in Seq(Record) /\ Numbered(records, Len(disk.log))
  BY <1>1, BeforeWrite
<1>4. q.chain # <<>> /\ ChainOK(q) /\ q.cursor = 0 /\ q.cursor <= q.cursor
  BY <1>1, <1>2 DEF RecordOK, ChainOK, LeaseOK
<1>5. Ends(q, FALSE, s)
  BY <1>2, <1>4, JobEffect
<1> HIDE DEF q, s, records
<1>6. s \in HandleRecord /\ RecordOK(s) /\ SameView(q, s)
  BY <1>2, <1>4, <1>5, JobOverOK DEF Ends
<1>7. /\ disk' \in File /\ disk'.log = records /\ disk'.exists = TRUE /\ disk'.torn = disk.torn
      /\ disk'.tail = disk.tail
  BY <1>1, <1>3 DEF File
<1>8. disk.log = <<>> /\ Len(disk.log) = 0 /\ disk.tail = <<>> /\ Numbered(<<>>, Len(records))
  BY <1>1, <1>3 DEF FileOK, Numbered
<1>9. DiskOK'
  BY <1>3, <1>7, <1>8 DEF DiskOK, FileOK
<1>10. View(s, disk')
  BY <1>1, <1>6, <1>7 DEF View, SameView
<1>11. Own(h, s, disk'.log)
  <2>1. s.cursor = 0 /\ s.seed \in Nat
    BY <1>4, <1>6 DEF SameView, HandleRecord
  <2>2. (s.seed + 1)..s.cursor = {}
    BY <2>1
  <2> QED BY <2>2 DEF Own
<1>12. \A e \in Record : InLog(disk.log, e) => InLog(disk'.log, e)
  BY <1>8 DEF InLog
<1> QED BY <1>1, <1>2, <1>3, <1>4, <1>6, <1>7, <1>9, <1>10, <1>11, <1>12, JobEndStep DEF q, s

(* What a crash leaves of the file: only the handle that has the lock was at
   it, and what was in the log stays in it. *)
LEMMA InterruptedOK ==
  ASSUME IInv, NEW h \in Handle, NEW d \in Interrupted(h)
  PROVE  /\ d \in File /\ FileOK(d) /\ (d = disk \/ lock = h) /\ (disk.exists => d.exists)
         /\ \A e : InLog(disk.log, e) => InLog(d.log, e)
<1> DEFINE r == handle[h]
           records == CASE r.stage = "rewrite" -> r.recovered
                        [] r.stage = "write" -> Stamp(h, r.batch)
                        [] OTHER -> <<>>
           whole == [Appended(disk, records) EXCEPT !.exists = TRUE]
           partly == {[disk EXCEPT !.torn = TRUE, !.tail = SubSeq(records, 1, k)] :
                        k \in 0..Len(records)}
<1>1. /\ r \in HandleRecord /\ RecordOK(r) /\ View(r, disk)
      /\ r.lease = "held" => lock = h
  BY Now
<1>2. disk \in File /\ FileOK(disk)
  BY DEF IInv, Types, DiskOK
<1>3. CASE d = disk
  BY <1>2, <1>3
<1>4. CASE d # disk
  <2>1. /\ r.stage = "rewrite" \/ (r.stage = "write" /\ (r.materialized \/ ~disk.exists))
        /\ d = whole \/ (r.materialized /\ d \in partly) \/ (r.stage = "rewrite" /\ d \in partly)
    BY <1>4 DEF Interrupted
  <2>2. /\ lock = h /\ ~disk.torn /\ records \in Seq(Record)
        /\ Numbered(records, Len(disk.log))
        /\ r.materialized => disk.exists
        /\ r.stage = "rewrite" => r.materialized
    <3>1. CASE r.stage = "rewrite"
      <4>1. records = r.recovered
        BY <3>1
      <4>2. /\ lock = h /\ ~disk.torn /\ Numbered(r.recovered, Len(disk.log))
            /\ r.materialized /\ disk.exists /\ r.recovered \in Seq(Record)
        BY <3>1, <1>1 DEF RecordOK, LeaseOK, View, HandleRecord
      <4> QED BY <4>1, <4>2
    <3>2. CASE r.stage = "write"
      <4>1. records = Stamp(h, r.batch)
        BY <3>2
      <4>2. /\ lock = h /\ ~disk.torn /\ Stamp(h, r.batch) \in Seq(Record) /\ r.lease = "held"
            /\ Numbered(Stamp(h, r.batch), Len(disk.log))
        BY <2>1, <3>2, BeforeWrite
      <4>3. r.materialized => disk.exists
        BY <4>2, <1>1 DEF View
      <4> QED BY <3>2, <4>1, <4>2, <4>3
    <3> QED BY <2>1, <3>1, <3>2
  <2> HIDE DEF r, records
  <2>3. /\ whole \in File /\ FileOK(whole) /\ whole.log = disk.log \o records
        /\ whole.exists = TRUE
        /\ \A k \in 0..Len(records) : disk.exists =>
             LET part == [disk EXCEPT !.torn = TRUE, !.tail = SubSeq(records, 1, k)]
             IN  part \in File /\ FileOK(part) /\ part.log = disk.log
    BY <1>2, <2>2, Continued
  <2>4. \A e : InLog(disk.log, e) => InLog(disk.log \o records, e)
    BY <1>2, <2>2, LogGrows DEF File
  <2>5. CASE d = whole
    BY <2>2, <2>3, <2>4, <2>5
  <2>6. CASE d # whole
    <3>1. disk.exists /\ d \in partly
      BY <2>1, <2>2, <2>6
    <3>2. PICK k \in 0..Len(records) :
            d = [disk EXCEPT !.torn = TRUE, !.tail = SubSeq(records, 1, k)]
      BY <3>1
    <3>3. d \in File /\ FileOK(d) /\ d.log = disk.log
      BY <2>3, <3>1, <3>2
    <3>4. d.exists = disk.exists
      BY <3>2, <1>2 DEF File
    <3> QED BY <2>2, <3>1, <3>3, <3>4
  <2> QED BY <2>5, <2>6
<1> QED BY <1>3, <1>4

(* A process dies: its handles are over, and the others never had the lock of
   one of them. *)
LEMMA CrashStep ==
  ASSUME IInv, NEW p \in Process, Crash(p)
  PROVE  IInv'
<1> DEFINE dying == {h \in Handle : handle[h].proc = p}
<1>1. /\ disk' \in {disk} \cup UNION {Interrupted(h) : h \in dying}
      /\ handle' = [h \in Handle |-> IF h \in dying THEN Gone ELSE handle[h]]
      /\ lock' = IF lock \in dying THEN None ELSE lock
      /\ flusher' = IF flusher.h \in dying THEN NoFlush ELSE flusher
      /\ acked' = acked
  BY DEF Crash
<1>2. /\ disk' \in File /\ FileOK(disk') /\ (disk.exists => disk'.exists)
      /\ disk' = disk \/ lock \in dying
      /\ \A e : InLog(disk.log, e) => InLog(disk'.log, e)
  <2>1. CASE disk' = disk
    BY <2>1 DEF IInv, Types, DiskOK
  <2>2. CASE disk' # disk
    <3>1. PICK h \in dying : disk' \in Interrupted(h)
      BY <1>1, <2>2
    <3> QED BY <3>1, InterruptedOK
  <2> QED BY <2>1, <2>2
<1>3. /\ Gone \in HandleRecord /\ RecordOK(Gone) /\ Gone.phase = "gone" /\ Gone.lease = "none"
      /\ Gone.cursor = 0 /\ Gone.seed = 0 /\ Gone.chain = <<>> /\ ~Gone.materialized
      /\ Gone.drain = "none"
  BY GoneOK
<1>4. \A g \in Handle : handle'[g] = IF g \in dying THEN Gone ELSE handle[g]
  BY <1>1
<1> HIDE DEF dying
<1>5. Types'
  <2>1. handle' \in [Handle -> HandleRecord]
    BY <1>1, <1>3, Now DEF IInv, Types
  <2>2. lock' \in Handle \cup {None} /\ flusher' \in Caller
    BY <1>1, NoFlushTyped DEF IInv, Types
  <2> QED BY <2>1, <2>2, <1>2 DEF Types
<1>6. RecordsOK'
  BY <1>3, <1>4 DEF IInv, RecordsOK
<1>7. LockOK'
  <2>1. ASSUME NEW g \in Handle, handle'[g].lease = "held" PROVE lock' = g
    <3>1. g \notin dying /\ handle'[g] = handle[g]
      BY <2>1, <1>3, <1>4
    <3>2. lock = g
      BY <2>1, <3>1, Now
    <3> QED BY <3>1, <3>2, <1>1
  <2> QED BY <2>1 DEF LockOK
<1>8. DiskOK'
  BY <1>2 DEF DiskOK
<1>9. ViewOK'
  <2>1. ASSUME NEW g \in Handle PROVE View(handle'[g], disk')
    <3>1. CASE g \in dying
      BY <3>1, <1>3, <1>4 DEF View
    <3>2. CASE g \notin dying
      <4>1. handle'[g] = handle[g] /\ View(handle[g], disk)
        BY <3>2, <1>4, Now
      <4>2. handle[g].lease = "held" => disk' = disk
        BY <3>2, <1>2, Now
      <4> QED BY <4>1, <4>2, <1>2 DEF View
    <3> QED BY <3>1, <3>2
  <2> QED BY <2>1 DEF ViewOK
<1>10. OwnOK'
  <2>1. ASSUME NEW g \in Handle PROVE Own(g, handle'[g], disk'.log)
    <3>1. CASE g \in dying
      BY <3>1, <1>3, <1>4 DEF Own
    <3>2. CASE g \notin dying
      <4>1. handle'[g] = handle[g] /\ Own(g, handle[g], disk.log)
        BY <3>2, <1>4, Now
      <4> QED BY <4>1, <1>2 DEF Own
    <3> QED BY <3>1, <3>2
  <2> QED BY <2>1 DEF OwnOK
<1>11. AckedOK'
  BY <1>1, <1>2 DEF IInv, AckedOK
<1>12. FlushOK'
  <2>1. ASSUME NEW g \in Handle PROVE Flush(g, handle'[g], flusher')
    <3>1. CASE g \in dying
      <4>1. ~Queued(Gone, "flush") /\ handle'[g] = Gone
        BY <3>1, <1>3, <1>4, ChainEmpty DEF Queued, Job
      <4> QED BY <4>1, <1>3 DEF Flush
    <3>2. CASE g \notin dying
      <4>1. handle'[g] = handle[g] /\ Flush(g, handle[g], flusher)
        BY <3>2, <1>4, Now
      <4>2. CASE flusher.h \in dying
        <5>1. flusher.h # g /\ flusher' = NoFlush
          BY <3>2, <4>2, <1>1
        <5>2. ~Queued(handle[g], "flush")
          BY <4>1, <5>1 DEF Flush
        <5> QED BY <4>1, <5>1, <5>2, NoneAssumption DEF Flush, NoFlush
      <4>3. CASE flusher.h \notin dying
        BY <4>1, <4>3, <1>1
      <4> QED BY <4>2, <4>3
    <3> QED BY <3>1, <3>2
  <2> QED BY <2>1 DEF FlushOK
<1> QED BY <1>5, <1>6, <1>7, <1>8, <1>9, <1>10, <1>11, <1>12 DEF IInv

-----------------------------------------------------------------------------
(* The initial states. *)
LEMMA InitIInv ==
  ASSUME Init
  PROVE  IInv
<1>1. /\ Fresh.phase = "unused" /\ Fresh.proc = None /\ Fresh.seed = 0
      /\ Fresh.n = 0 /\ Fresh.cursor = 0 /\ Fresh.materialized = FALSE
      /\ Fresh.torn = FALSE /\ Fresh.recovered = <<>> /\ Fresh.lease = "none"
      /\ Fresh.chain = <<>> /\ Fresh.stage = "idle" /\ Fresh.batch = <<>>
      /\ Fresh.buffered = <<>> /\ Fresh.timer = FALSE /\ Fresh.paused = FALSE
      /\ Fresh.drain = "none" /\ Fresh.close = "no" /\ Fresh.wait = 0
      /\ Fresh.failure = FALSE
  BY DEF Fresh
<1>2. <<>> \in Seq(Record) /\ <<>> \in Seq(Nat) /\ <<>> \in Seq(Job) /\ Len(<<>>) = 0
  OBVIOUS
<1>3. Fresh \in HandleRecord
  BY <1>2 DEF Fresh, HandleRecord, Dormant
<1>4. (\A job \in Job : ~Queued(Fresh, job)) /\ Distinct(Fresh.chain)
  BY <1>1, ChainEmpty DEF Queued
<1>5. RecordOK(Fresh)
  BY <1>1, <1>4 DEF RecordOK, ChainOK, PhaseOK, CloseOK, DrainDue, LeaseOK, Dormant,
     Untouched, CloserIsFirst, Job
<1>6. disk \in File /\ FileOK(disk) /\ disk.log = <<>>
  <2>1. /\ disk.exists = FALSE /\ disk.log = <<>> /\ disk.torn = FALSE /\ disk.tail = <<>>
        /\ disk \in File
    BY <1>2 DEF Init, File
  <2> QED BY <2>1, <1>2 DEF FileOK, Numbered
<1>7. /\ \A h \in Handle : handle[h] = Fresh
      /\ handle \in [Handle -> HandleRecord] /\ lock = None /\ flusher = NoFlush /\ acked = {}
  BY <1>3 DEF Init
<1>8. Types /\ RecordsOK
  BY <1>5, <1>6, <1>7, NoFlushTyped DEF Types, RecordsOK
<1>9. LockOK /\ ViewOK
  BY <1>1, <1>7 DEF LockOK, ViewOK, View
<1>10. OwnOK
  BY <1>1, <1>7 DEF OwnOK, Own
<1>11. FlushOK
  <2>1. \A h \in Handle : ~Queued(handle[h], "flush") /\ h # None
    BY <1>4, <1>7, NoneAssumption DEF Job
  <2> QED BY <2>1, <1>7 DEF FlushOK, Flush, NoFlush
<1> QED BY <1>6, <1>7, <1>8, <1>9, <1>10, <1>11 DEF IInv, DiskOK, AckedOK

(* Every step preserves the invariant when nothing reaches a handle late. *)
LEMMA NextIInv ==
  ASSUME ~LateCalls, IInv, [Next]_vars
  PROVE  IInv'
<1>1. CASE UNCHANGED vars
  BY <1>1 DEF vars, IInv, Types, RecordsOK, LockOK, DiskOK, ViewOK, OwnOK, AckedOK, FlushOK
<1>2. ASSUME NEW p \in Process, NEW h \in Handle, CreateCheck(p, h) \/ OpenClaim(p, h)
      PROVE  IInv'
  BY <1>2, CreateCheckStep, OpenClaimStep
<1>3. ASSUME NEW h \in Handle,
             \/ CreateRegister(h) \/ OpenLock(h) \/ OpenRead(h) \/ OpenFails(h)
             \/ AppendSuffix(h) \/ GoLive(h)
      PROVE  IInv'
  BY <1>3, CreateRegisterStep, OpenLockStep, OpenReadStep, OpenFailsStep, AppendSuffixStep,
     GoLiveStep
<1>4. ASSUME NEW h \in Handle,
             Publish(h) \/ TimerFires(h) \/ FlushCall(h) \/ Close(h) \/ CloseResumes(h)
      PROVE  IInv'
  BY <1>4, PublishStep, TimerFiresStep, FlushCallStep, CloseStep, CloseResumesStep
<1>5. ASSUME NEW h \in Handle,
             \/ StartJob(h) \/ TakeLease(h) \/ TruncateTail(h) \/ RewriteTail(h)
             \/ Write(h) \/ JobFails(h) \/ PublishedUnsynced(h)
      PROVE  IInv'
  BY <1>5, StartJobStep, TakeLeaseStep, TruncateTailStep, RewriteTailStep, WriteStep,
     JobFailsStep, PublishedUnsyncedStep
<1>6. ASSUME NEW h \in Handle, DrainCleared(h) \/ ReleaseLease(h) \/ ForgetHandle(h)
      PROVE  IInv'
  BY <1>6, DrainClearedStep, ReleaseLeaseStep, ForgetHandleStep
<1>7. ASSUME NEW p \in Process, Crash(p) PROVE IInv'
  BY <1>7, CrashStep
<1> QED BY <1>1, <1>2, <1>3, <1>4, <1>5, <1>6, <1>7 DEF Next

(* The strengthening: each handle's record is coherent, its view of the file
   is right while it has the lock, and what its cursor passed is in the log. *)
THEOREM Invariance == ASSUME ~LateCalls PROVE Spec => []IInv
<1>1. Init => IInv
  BY InitIInv
<1>2. IInv /\ [Next]_vars => IInv'
  BY NextIInv
<1> QED BY <1>1, <1>2, PTL DEF Spec

(* A handle changes the file only while its own descriptor holds the kernel
   lock (lease.ts): successive owners never write at the same time. *)
THEOREM WritersHoldTheLock == ASSUME ~LateCalls PROVE Spec => []WriterHoldsLock
<1>1. ASSUME IInv PROVE WriterHoldsLock
  BY <1>1, Now DEF WriterHoldsLock, RecordOK, LeaseOK
<1> QED BY <1>1, Invariance, PTL

(* Whatever crashes, failed writes and successive owners did, the records a
   reader decodes are numbered 1, 2, 3... (session-persistence index.ts). *)
THEOREM LogIsContiguous == ASSUME ~LateCalls PROVE Spec => []LogContiguous
<1>1. ASSUME IInv PROVE LogContiguous
  <2>1. /\ disk.log \in Seq(Record) /\ disk.tail \in Seq(Record)
        /\ Numbered(disk.log, 0) /\ Numbered(disk.tail, Len(disk.log))
    BY <1>1 DEF IInv, Types, File, DiskOK, FileOK
  <2>2. 0 + Len(disk.log) = Len(disk.log)
    BY <2>1
  <2>3. Numbered(disk.log \o disk.tail, 0)
    BY <2>1, <2>2, LogGrows
  <2>4. \A i \in DOMAIN (disk.log \o disk.tail) : 0 + i = i
    BY <2>1
  <2> QED BY <2>3, <2>4 DEF LogContiguous, Readable, Numbered
<1> QED BY <1>1, Invariance, PTL

(* What a resolved append, flush or close promised is in the log for good. *)
THEOREM AckedIsDurable == ASSUME ~LateCalls PROVE Spec => []AckedDurable
<1>1. ASSUME IInv PROVE AckedDurable
  BY <1>1 DEF IInv, AckedOK, AckedDurable, InLog, ToSet
<1> QED BY <1>1, Invariance, PTL

(* Between the cursor and the session's end, the batch being written and the
   buffer hold every event once and in order (storage.ts). *)
THEOREM BufferIsExact == ASSUME ~LateCalls PROVE Spec => []BufferExact
<1>1. ASSUME IInv, NEW h \in Handle, handle[h].phase = "live"
      PROVE  handle[h].batch \o handle[h].buffered =
               [i \in 1..(handle[h].n - handle[h].cursor) |-> handle[h].cursor + i]
  <2> DEFINE r == handle[h]
             row == r.batch \o r.buffered
  <2>1. r \in HandleRecord /\ Window(r)
    BY <1>1, Now DEF RecordOK, PhaseOK
  <2>2. /\ r.batch \in Seq(Nat) /\ r.buffered \in Seq(Nat) /\ r.cursor \in Nat /\ r.n \in Nat
        /\ Len(r.batch) \in Nat /\ Len(r.buffered) \in Nat
    BY SMTT(30), <2>1 DEF HandleRecord
  <2> HIDE DEF r
  <2>3. Contiguous(row, r.cursor) /\ r.cursor + Len(r.batch) + Len(r.buffered) = r.n
    BY <2>1, <2>2, Rows DEF Window
  <2>4. row \in Seq(Nat) /\ Len(row) = Len(r.batch) + Len(r.buffered)
    BY <2>2
  <2>a. \A a, b, c \in Nat : b + c = (a + b + c) - a
    OBVIOUS
  <2> HIDE DEF row
  <2>c. Len(r.batch) + Len(r.buffered) = r.n - r.cursor
    <3>1. Len(r.batch) + Len(r.buffered) = (r.cursor + Len(r.batch) + Len(r.buffered)) - r.cursor
      BY <2>2, <2>a
    <3> QED BY <3>1, <2>3
  <2>5. Len(row) = r.n - r.cursor
    BY <2>4, <2>c
  <2>b. \A s \in Seq(Nat) : DOMAIN s = 1..Len(s) /\ s = [i \in DOMAIN s |-> s[i]]
    OBVIOUS
  <2>6. DOMAIN row = 1..(r.n - r.cursor) /\ row = [i \in DOMAIN row |-> row[i]]
    BY <2>4, <2>5, <2>b
  <2>7. \A i \in DOMAIN row : row[i] = r.cursor + i
    BY <2>3 DEF Contiguous
  <2> QED BY <2>6, <2>7 DEF row, r
<1>2. ASSUME IInv PROVE BufferExact
  BY <1>1, <1>2 DEF BufferExact
<1> QED BY <1>2, Invariance, PTL

(* A buffered event that is not being drained is waited for by the timer,
   unless a failed drain paused it. *)
THEOREM BufferIsDrained == ASSUME ~LateCalls PROVE Spec => []SomeoneWillDrain
<1>1. ASSUME IInv PROVE SomeoneWillDrain
  BY <1>1, Now DEF SomeoneWillDrain, RecordOK, DrainDue
<1> QED BY <1>1, Invariance, PTL
=============================================================================
