------------------------ MODULE StepRecoveryProofs ------------------------
(***************************************************************************)
(* The repair of a crashed session's log, for any number of calls, rounds  *)
(* and crashes: what it reports as never started never ran, a crash in the *)
(* middle of the repair changes nothing, and the repaired log answers each *)
(* call once.  The crash may keep any prefix of the log, so the invariant  *)
(* about the log, Shaped, is one that every prefix of a log inherits.      *)
(***************************************************************************)
EXTENDS StepRecovery, ToolSchedulerProofs, SequenceTheorems

-----------------------------------------------------------------------------
(* The shape of a log, and of each of its prefixes *)

ToolTypes == {"tool/call", "tool/result"}

(* A step's end belongs to the round of the message at p. *)
Ended(es, p) ==
  \E e \in DOMAIN es : es[e].type = "step/end" /\ InRound(es, e, p)

(* A result of the call between two positions. *)
ResultIn(es, i, a, b) == \E q \in DOMAIN es : a < q /\ q < b /\ Settles(es[q], i)

(* After the first event a turn is open, or was ended just now. *)
Covered(es) ==
  \A k \in DOMAIN es :
    \/ es[k].type = "turn/end"
    \/ \E p \in 1..k : /\ es[p].type = "turn/start"
                       /\ \A q \in p..k : es[q].type # "turn/end"

(* Two results of one call have a message between them. *)
Once(es) ==
  \A q1, q2 \in DOMAIN es :
    /\ q1 < q2 /\ es[q1].call = es[q2].call
    /\ es[q1].type = "tool/result" /\ es[q2].type = "tool/result"
    => \E r \in Rounds(es) : q1 < r /\ r < q2

(* No result follows a step's end but in a later round. *)
Inside(es) ==
  \A e, q \in DOMAIN es :
    e < q /\ es[e].type = "step/end" /\ es[q].type = "tool/result"
    => \E r \in Rounds(es) : e < r /\ r < q

(* When a step has ended its calls are answered, or its scheduler threw. *)
Answered(es, thrown) ==
  \A p \in Rounds(es), e \in DOMAIN es :
    es[e].type = "step/end" /\ InRound(es, e, p) =>
      \/ \E x \in thrown : p < x /\ x <= e
      \/ \A i \in Call : ResultIn(es, i, p, e)

(* A round ends before the next one, and before any other boundary. *)
Separated(es) == \A p, r \in Rounds(es) : p < r => Ended(es, p)
Fenced(es) ==
  \A p \in Rounds(es), t \in DOMAIN es :
    p < t /\ es[t].type \notin ToolTypes =>
      \E e \in DOMAIN es : p < e /\ e <= t /\ es[e].type = "step/end"

(* A message comes right after the start of its step. *)
Opened(es) ==
  \A p \in Rounds(es) : p - 1 \in DOMAIN es /\ es[p - 1].type = "step/start"

Shaped(es, thrown) ==
  /\ es \in Seq(EventType) /\ thrown \subseteq Nat
  /\ Covered(es) /\ Once(es) /\ Inside(es) /\ Answered(es, thrown)
  /\ Separated(es) /\ Fenced(es) /\ Opened(es)

(* Every round has ended; the last one, at p, is open. *)
Closed(es) == \A p \in Rounds(es) : Ended(es, p)
OpenAt(es, p) ==
  /\ p \in Rounds(es)
  /\ \A q \in DOMAIN es : q > p => es[q].type \in ToolTypes

-----------------------------------------------------------------------------
(* Prefixes, tool events and boundaries keep the shape *)

LEMMA Domains ==
  ASSUME NEW es \in Seq(EventType)
  PROVE  Len(es) \in Nat /\ DOMAIN es = 1..Len(es)
         /\ \A p \in DOMAIN es : es[p] \in EventType
OBVIOUS

LEMMA PrefixFacts ==
  ASSUME NEW es \in Seq(EventType), NEW k \in 0..Len(es)
  PROVE  /\ SubSeq(es, 1, k) \in Seq(EventType)
         /\ Len(SubSeq(es, 1, k)) = k /\ DOMAIN SubSeq(es, 1, k) = 1..k
         /\ \A p \in 1..k : SubSeq(es, 1, k)[p] = es[p]
OBVIOUS

LEMMA PrefixShaped ==
  ASSUME NEW es, NEW thrown, Shaped(es, thrown), NEW k \in 0..Len(es)
  PROVE  Shaped(SubSeq(es, 1, k), thrown \cap 1..k)
<1> DEFINE t == SubSeq(es, 1, k)
           n == Len(es)
<1>0. /\ es \in Seq(EventType) /\ n \in Nat /\ DOMAIN es = 1..n
      /\ k \in Nat /\ k <= n
  BY Domains DEF Shaped
<1>1. /\ t \in Seq(EventType) /\ DOMAIN t = 1..k
      /\ \A p \in 1..k : t[p] = es[p]
  BY <1>0, PrefixFacts
<1> HIDE DEF t, n
<1>2. \A p : p \in Rounds(t) <=> p \in Rounds(es) /\ p <= k
  BY <1>0, <1>1 DEF Rounds
<1>3. \A p \in Rounds(es) : p \in 1..n
  BY <1>0 DEF Rounds
<1>4. \A e \in 1..k, p \in 1..k : InRound(t, e, p) <=> InRound(es, e, p)
  BY <1>0, <1>2, <1>3 DEF InRound
<1>5. Covered(t)
  BY <1>0, <1>1 DEF Covered, Shaped
<1>6. Once(t) /\ Inside(t)
  <2>1. ASSUME NEW a \in 1..k, NEW q \in 1..k, NEW r \in Rounds(es), r < q
        PROVE  r \in Rounds(t)
    BY <1>0, <1>2, <1>3, <2>1
  <2>2. Once(t)
    BY <1>0, <1>1, <2>1 DEF Once, Shaped
  <2>3. Inside(t)
    BY <1>0, <1>1, <2>1 DEF Inside, Shaped
  <2> QED BY <2>2, <2>3
<1>7. Answered(t, thrown \cap 1..k)
  <2> SUFFICES ASSUME NEW p \in Rounds(t), NEW e \in DOMAIN t,
                      t[e].type = "step/end", InRound(t, e, p)
               PROVE  \/ \E x \in thrown \cap 1..k : p < x /\ x <= e
                      \/ \A i \in Call : ResultIn(t, i, p, e)
    BY DEF Answered
  <2>1. /\ p \in Rounds(es) /\ p \in 1..k /\ e \in 1..k /\ e \in DOMAIN es
        /\ es[e].type = "step/end" /\ InRound(es, e, p)
    BY <1>0, <1>1, <1>2, <1>3, <1>4
  <2>2. CASE \E x \in thrown : p < x /\ x <= e
    <3>1. PICK x \in thrown : p < x /\ x <= e
      BY <2>2
    <3>2. x \in Nat
      BY DEF Shaped
    <3>3. x \in 1..k
      BY <1>0, <2>1, <3>1, <3>2
    <3> QED BY <3>1, <3>3
  <2>3. CASE \A i \in Call : ResultIn(es, i, p, e)
    <3>1. ASSUME NEW i \in Call PROVE ResultIn(t, i, p, e)
      <4>1. PICK q \in DOMAIN es : p < q /\ q < e /\ Settles(es[q], i)
        BY <2>3 DEF ResultIn
      <4>2. q \in 1..k
        BY <1>0, <2>1, <4>1
      <4> QED BY <1>1, <4>1, <4>2 DEF ResultIn
    <3> QED BY <3>1
  <2> QED BY <2>1, <2>2, <2>3 DEF Answered, Shaped
<1>8. Separated(t)
  <2> SUFFICES ASSUME NEW p \in Rounds(t), NEW r \in Rounds(t), p < r
               PROVE  Ended(t, p)
    BY DEF Separated
  <2>1. p \in Rounds(es) /\ r \in Rounds(es) /\ p \in 1..k /\ r \in 1..k
    BY <1>0, <1>2, <1>3
  <2>2. PICK e \in DOMAIN es : es[e].type = "step/end" /\ InRound(es, e, p)
    BY <2>1 DEF Separated, Shaped, Ended
  <2>3. e \in 1..k
    BY <1>0, <2>1, <2>2 DEF InRound
  <2> QED BY <1>1, <1>4, <2>1, <2>2, <2>3 DEF Ended
<1>9. Fenced(t)
  <2> SUFFICES ASSUME NEW p \in Rounds(t), NEW b \in DOMAIN t,
                      p < b, t[b].type \notin ToolTypes
               PROVE  \E e \in DOMAIN t : p < e /\ e <= b /\ t[e].type = "step/end"
    BY DEF Fenced
  <2>1. p \in Rounds(es) /\ b \in DOMAIN es /\ b \in 1..k /\ es[b].type \notin ToolTypes
    BY <1>0, <1>1, <1>2
  <2>2. PICK e \in DOMAIN es : p < e /\ e <= b /\ es[e].type = "step/end"
    BY <2>1 DEF Fenced, Shaped
  <2>3. e \in 1..k
    BY <1>0, <2>1, <2>2
  <2> QED BY <1>1, <2>2, <2>3
<1>10. Opened(t)
  <2> SUFFICES ASSUME NEW p \in Rounds(t)
               PROVE  p - 1 \in DOMAIN t /\ t[p - 1].type = "step/start"
    BY DEF Opened
  <2>1. p \in Rounds(es) /\ p \in 1..k
    BY <1>0, <1>2, <1>3
  <2>2. p - 1 \in 1..n /\ es[p - 1].type = "step/start"
    BY <1>0, <2>1 DEF Opened, Shaped
  <2>3. p - 1 \in 1..k
    BY <1>0, <2>1, <2>2
  <2> QED BY <1>1, <2>2, <2>3
<1> QED BY <1>1, <1>5, <1>6, <1>7, <1>8, <1>9, <1>10 DEF Shaped, t

(* The log grows by records and results of the open round. *)
LEMMA ToolsShaped ==
  ASSUME NEW es, NEW thrown, Shaped(es, thrown), NEW p0, OpenAt(es, p0),
         NEW t \in Seq(EventType), Len(es) <= Len(t),
         \A p \in 1..Len(es) : t[p] = es[p],
         \A p \in DOMAIN t : p > Len(es) => t[p].type \in ToolTypes,
         \A q1, q2 \in DOMAIN t :
           /\ q2 > Len(es) /\ q1 < q2 /\ t[q1].call = t[q2].call
           /\ t[q1].type = "tool/result" /\ t[q2].type = "tool/result"
           => q1 < p0
  PROVE  Shaped(t, thrown) /\ OpenAt(t, p0) /\ Rounds(t) = Rounds(es)
<1> DEFINE n == Len(es)
           m == Len(t)
<1>0. /\ n \in Nat /\ DOMAIN es = 1..n /\ m \in Nat /\ DOMAIN t = 1..m /\ n <= m
  BY Domains DEF Shaped
<1>1. \A p \in 1..n : t[p] = es[p]
  OBVIOUS
<1>2. \A p \in 1..m : p > n => t[p].type \in ToolTypes
  BY <1>0
<1> HIDE DEF n, m
<1>3. Rounds(t) = Rounds(es)
  BY <1>0, <1>1, <1>2 DEF Rounds, ToolTypes
<1>4. /\ p0 \in 1..n /\ es[p0].type = "assistant/message" /\ p0 \in Rounds(es)
      /\ \A q \in 1..m : q > p0 => t[q].type \in ToolTypes
  BY <1>0, <1>1, <1>2 DEF OpenAt, Rounds
<1>5. OpenAt(t, p0)
  BY <1>0, <1>3, <1>4 DEF OpenAt
<1>6. \A e, p : InRound(t, e, p) <=> InRound(es, e, p)
  BY <1>3 DEF InRound
<1>7. Covered(t)
  <2> SUFFICES ASSUME NEW k \in 1..m
               PROVE  \/ t[k].type = "turn/end"
                      \/ \E p \in 1..k : /\ t[p].type = "turn/start"
                                         /\ \A q \in p..k : t[q].type # "turn/end"
    BY <1>0 DEF Covered
  <2>1. CASE k <= n
    <3>1. k \in DOMAIN es /\ k \in 1..n
      BY <1>0, <2>1
    <3>2. t[k] = es[k] /\ \A q \in 1..k : t[q] = es[q]
      BY <1>0, <1>1, <3>1
    <3>3. \/ es[k].type = "turn/end"
          \/ \E p \in 1..k : /\ es[p].type = "turn/start"
                             /\ \A q \in p..k : es[q].type # "turn/end"
      BY <3>1 DEF Shaped, Covered
    <3> QED BY <3>1, <3>2, <3>3
  <2>2. CASE k > n
    <3>1. n \in DOMAIN es /\ es[n].type # "turn/end"
      BY <1>0, <1>1, <1>4 DEF ToolTypes
    <3>2. PICK p \in 1..n : /\ es[p].type = "turn/start"
                            /\ \A q \in p..n : es[q].type # "turn/end"
      BY <3>1 DEF Shaped, Covered
    <3>3. \A q \in p..k : t[q].type # "turn/end"
      BY <1>0, <1>1, <1>2, <3>2 DEF ToolTypes
    <3>4. p \in 1..k /\ t[p].type = "turn/start"
      BY <1>0, <1>1, <2>2, <3>2
    <3> QED BY <3>3, <3>4
  <2> QED BY <1>0, <2>1, <2>2
<1>8. Once(t)
  <2> SUFFICES ASSUME NEW q1 \in 1..m, NEW q2 \in 1..m,
                      q1 < q2, t[q1].call = t[q2].call,
                      t[q1].type = "tool/result", t[q2].type = "tool/result"
               PROVE  \E r \in Rounds(es) : q1 < r /\ r < q2
    BY <1>0, <1>3 DEF Once
  <2>1. CASE q2 <= n
    <3>1. q1 \in 1..n /\ q2 \in 1..n
      BY <1>0, <2>1
    <3> QED BY <1>0, <1>1, <3>1 DEF Shaped, Once
  <2>2. CASE q2 > n
    <3>1. q1 < p0
      BY <1>0, <2>2 DEF n
    <3>2. p0 < q2
      BY <1>0, <1>4, <2>2
    <3> QED BY <1>4, <3>1, <3>2
  <2> QED BY <1>0, <2>1, <2>2
<1>9. Inside(t)
  <2> SUFFICES ASSUME NEW e \in 1..m, NEW q \in 1..m, e < q,
                      t[e].type = "step/end", t[q].type = "tool/result"
               PROVE  \E r \in Rounds(es) : e < r /\ r < q
    BY <1>0, <1>3 DEF Inside
  <2>1. e < p0 \/ p0 < e
    BY <1>0, <1>1, <1>4
  <2>2. e < p0
    BY <1>4, <2>1 DEF ToolTypes
  <2>3. CASE q <= n
    <3>1. e \in 1..n /\ q \in 1..n
      BY <1>0, <2>3
    <3> QED BY <1>0, <1>1, <3>1 DEF Shaped, Inside
  <2>4. CASE q > n
    BY <1>0, <1>4, <2>2, <2>4
  <2> QED BY <1>0, <2>3, <2>4
<1>10. \A e \in 1..m : t[e].type \notin ToolTypes => e \in 1..n /\ es[e] = t[e]
  BY <1>0, <1>1, <1>2
<1>11. Answered(t, thrown)
  <2> SUFFICES ASSUME NEW p \in Rounds(es), NEW e \in 1..m,
                      t[e].type = "step/end", InRound(es, e, p)
               PROVE  \/ \E x \in thrown : p < x /\ x <= e
                      \/ \A i \in Call : ResultIn(t, i, p, e)
    BY <1>0, <1>3, <1>6 DEF Answered
  <2>1. e \in 1..n /\ es[e].type = "step/end"
    BY <1>10 DEF ToolTypes
  <2>2. ASSUME NEW i \in Call, ResultIn(es, i, p, e)
        PROVE  ResultIn(t, i, p, e)
    BY <1>0, <1>1, <2>2 DEF ResultIn
  <2> QED BY <1>0, <2>1, <2>2 DEF Shaped, Answered
<1>12. Separated(t)
  <2>1. ASSUME NEW p, Ended(es, p) PROVE Ended(t, p)
    BY <1>0, <1>1, <1>6, <2>1 DEF Ended
  <2> QED BY <1>3, <2>1 DEF Separated, Shaped
<1>13. Fenced(t)
  <2> SUFFICES ASSUME NEW p \in Rounds(es), NEW b \in 1..m, p < b,
                      t[b].type \notin ToolTypes
               PROVE  \E e \in 1..m : p < e /\ e <= b /\ t[e].type = "step/end"
    BY <1>0, <1>3 DEF Fenced
  <2>1. b \in 1..n /\ es[b] = t[b]
    BY <1>10
  <2>2. PICK e \in 1..n : p < e /\ e <= b /\ es[e].type = "step/end"
    BY <1>0, <2>1 DEF Fenced, Shaped
  <2> QED BY <1>0, <1>1, <2>2
<1>14. Opened(t)
  BY <1>0, <1>1, <1>3 DEF Opened, Shaped
<1> QED BY <1>3, <1>5, <1>7, <1>8, <1>9, <1>11, <1>12, <1>13, <1>14 DEF Shaped

(* The log grows by a boundary or a message. *)
LEMMA MarkShaped ==
  ASSUME NEW es, NEW thrown, Shaped(es, thrown), Len(es) >= 1,
         NEW type \in {"turn/start", "turn/end", "step/start", "step/end",
                       "assistant/message"},
         type \notin {"turn/start", "turn/end"} => es[Len(es)].type # "turn/end",
         type # "step/end" => Closed(es),
         type = "assistant/message" =>
           es[Len(es)].type = "step/start",
         type = "step/end" =>
           \A p \in Rounds(es) :
             (\A r \in Rounds(es) : r <= p) =>
               \/ \E x \in thrown : p < x /\ x <= Len(es) + 1
               \/ \A i \in Call : ResultIn(es, i, p, Len(es) + 1)
  PROVE  LET t == Append(es, Mark(type))
         IN  /\ Shaped(t, thrown)
             /\ Len(t) = Len(es) + 1 /\ t[Len(t)].type = type
             /\ \A p \in 1..Len(es) : t[p] = es[p]
             /\ \A p : Ended(es, p) => Ended(t, p)
             /\ type # "assistant/message" => Rounds(t) = Rounds(es)
             /\ type = "step/end" => Closed(t)
             /\ type = "assistant/message" => OpenAt(t, Len(t))
<1> DEFINE n == Len(es)
           t == Append(es, Mark(type))
<1>0. n \in Nat /\ DOMAIN es = 1..n /\ es \in Seq(EventType) /\ n >= 1
  BY Domains DEF Shaped
<1>1. Mark(type) \in EventType /\ Mark(type).type = type
  BY DEF Mark, Event, EventType
<1>2. /\ t \in Seq(EventType) /\ Len(t) = n + 1 /\ DOMAIN t = 1..(n + 1)
      /\ \A p \in 1..n : t[p] = es[p]
      /\ t[n + 1].type = type
  BY <1>0, <1>1
<1> HIDE DEF n, t
<1>3. \A p : p \in Rounds(t) <=>
        p \in Rounds(es) \/ (p = n + 1 /\ type = "assistant/message")
  BY <1>0, <1>2 DEF Rounds
<1>4. \A p \in Rounds(es) : p \in 1..n
  BY <1>0 DEF Rounds
<1>5. \A e \in 1..n, p \in 1..n : InRound(t, e, p) <=> InRound(es, e, p)
  BY <1>0, <1>3, <1>4 DEF InRound
<1>6. \A p : Ended(es, p) => Ended(t, p)
  <2> SUFFICES ASSUME NEW p, NEW e \in DOMAIN es, es[e].type = "step/end",
                      InRound(es, e, p)
               PROVE  Ended(t, p)
    BY DEF Ended
  <2>1. e \in 1..n /\ e \in DOMAIN t /\ t[e].type = "step/end"
    BY <1>0, <1>2
  <2>2. InRound(t, e, p)
    BY <1>0, <1>3, <1>4, <2>1 DEF InRound
  <2> QED BY <2>1, <2>2 DEF Ended
<1>7. Covered(t)
  <2> SUFFICES ASSUME NEW k \in 1..(n + 1)
               PROVE  \/ t[k].type = "turn/end"
                      \/ \E p \in 1..k : /\ t[p].type = "turn/start"
                                         /\ \A q \in p..k : t[q].type # "turn/end"
    BY <1>2 DEF Covered
  <2>1. CASE k <= n
    <3>1. k \in 1..n /\ \A q \in 1..k : t[q] = es[q]
      BY <1>0, <1>2, <2>1
    <3>2. \/ es[k].type = "turn/end"
          \/ \E p \in 1..k : /\ es[p].type = "turn/start"
                             /\ \A q \in p..k : es[q].type # "turn/end"
      BY <1>0, <3>1 DEF Shaped, Covered
    <3> QED BY <3>1, <3>2
  <2>2. CASE k = n + 1 /\ type = "turn/start"
    <3>1. k \in 1..k /\ \A q \in k..k : t[q].type # "turn/end"
      BY <1>0, <1>2, <2>2
    <3> QED BY <1>2, <2>2, <3>1
  <2>3. CASE k = n + 1 /\ type # "turn/start" /\ type # "turn/end"
    <3>1. n \in DOMAIN es /\ es[n].type # "turn/end"
      BY <1>0, <2>3 DEF n
    <3>2. PICK p \in 1..n : /\ es[p].type = "turn/start"
                            /\ \A q \in p..n : es[q].type # "turn/end"
      BY <3>1 DEF Shaped, Covered
    <3>3. \A q \in p..k : t[q].type # "turn/end"
      BY <1>0, <1>2, <2>3, <3>2
    <3>4. p \in 1..k /\ t[p].type = "turn/start"
      BY <1>0, <1>2, <2>3, <3>2
    <3> QED BY <3>3, <3>4
  <2> QED BY <1>0, <1>2, <2>1, <2>2, <2>3
<1>8. Once(t) /\ Inside(t)
  <2>1. \A q \in 1..(n + 1) : t[q].type = "tool/result" => q \in 1..n
    BY <1>0, <1>2
  <2>2. \A r \in Rounds(es) : r \in Rounds(t)
    BY <1>3
  <2>3. Once(t)
    BY <1>0, <1>2, <2>1, <2>2 DEF Shaped, Once
  <2>4. Inside(t)
    <3> SUFFICES ASSUME NEW e \in 1..(n + 1), NEW q \in 1..(n + 1), e < q,
                        t[e].type = "step/end", t[q].type = "tool/result"
                 PROVE  \E r \in Rounds(t) : e < r /\ r < q
      BY <1>2 DEF Inside
    <3>1. q \in 1..n /\ e \in 1..n
      BY <1>0, <2>1
    <3> QED BY <1>0, <1>2, <2>2, <3>1 DEF Shaped, Inside
  <2> QED BY <2>3, <2>4
<1>9. Answered(t, thrown)
  <2> SUFFICES ASSUME NEW p \in Rounds(t), NEW e \in 1..(n + 1),
                      t[e].type = "step/end", InRound(t, e, p)
               PROVE  \/ \E x \in thrown : p < x /\ x <= e
                      \/ \A i \in Call : ResultIn(t, i, p, e)
    BY <1>2 DEF Answered
  <2>1. p \in Rounds(es) /\ p \in 1..n
    BY <1>0, <1>3, <1>4 DEF InRound
  <2>2. ASSUME NEW i \in Call, ResultIn(es, i, p, e) PROVE ResultIn(t, i, p, e)
    BY <1>0, <1>2, <2>2 DEF ResultIn
  <2>3. CASE e \in 1..n
    <3>1. es[e].type = "step/end" /\ InRound(es, e, p) /\ e \in DOMAIN es
      BY <1>0, <1>2, <1>5, <2>1, <2>3
    <3>2. \/ \E x \in thrown : p < x /\ x <= e
          \/ \A i \in Call : ResultIn(es, i, p, e)
      BY <2>1, <3>1 DEF Shaped, Answered
    <3> QED BY <2>2, <3>2
  <2>4. CASE e = n + 1
    <3>1. type = "step/end" /\ \A r \in Rounds(es) : r <= p
      BY <1>0, <1>2, <1>3, <1>4, <2>1, <2>4 DEF InRound
    <3>2. \/ \E x \in thrown : p < x /\ x <= n + 1
          \/ \A i \in Call : ResultIn(es, i, p, n + 1)
      BY <2>1, <3>1 DEF n
    <3> QED BY <2>2, <2>4, <3>2
  <2> QED BY <1>0, <2>3, <2>4
<1>10. Separated(t)
  <2> SUFFICES ASSUME NEW p \in Rounds(t), NEW r \in Rounds(t), p < r
               PROVE  Ended(t, p)
    BY DEF Separated
  <2>1. p \in Rounds(es)
    BY <1>0, <1>3, <1>4
  <2>2. CASE r \in Rounds(es)
    BY <1>6, <2>1, <2>2 DEF Shaped, Separated
  <2>3. CASE type = "assistant/message"
    BY <1>6, <2>1, <2>3 DEF Closed
  <2> QED BY <1>3, <2>2, <2>3
<1>11. Fenced(t)
  <2> SUFFICES ASSUME NEW p \in Rounds(t), NEW b \in 1..(n + 1), p < b,
                      t[b].type \notin ToolTypes
               PROVE  \E e \in DOMAIN t : p < e /\ e <= b /\ t[e].type = "step/end"
    BY <1>2 DEF Fenced
  <2>1. p \in Rounds(es) /\ p \in 1..n
    BY <1>0, <1>3, <1>4
  <2>2. CASE b \in 1..n
    <3>1. PICK e \in 1..n : p < e /\ e <= b /\ es[e].type = "step/end"
      BY <1>0, <1>2, <2>1, <2>2 DEF Fenced, Shaped
    <3> QED BY <1>0, <1>2, <3>1
  <2>3. CASE b = n + 1 /\ type = "step/end"
    BY <1>0, <1>2, <2>3
  <2>4. CASE b = n + 1 /\ type # "step/end"
    <3>1. Ended(es, p)
      BY <1>2, <2>1, <2>4 DEF Closed
    <3>2. PICK e \in 1..n : es[e].type = "step/end" /\ InRound(es, e, p)
      BY <1>0, <3>1 DEF Ended
    <3>3. p < e /\ e <= b /\ e \in DOMAIN t /\ t[e].type = "step/end"
      BY <1>0, <1>2, <2>4, <3>2 DEF InRound
    <3> QED BY <3>3
  <2> QED BY <1>0, <2>2, <2>3, <2>4
<1>12. Opened(t)
  <2> SUFFICES ASSUME NEW p \in Rounds(t)
               PROVE  p - 1 \in DOMAIN t /\ t[p - 1].type = "step/start"
    BY DEF Opened
  <2>1. CASE p \in Rounds(es)
    <3>1. p - 1 \in 1..n /\ es[p - 1].type = "step/start"
      BY <1>0, <2>1 DEF Opened, Shaped
    <3> QED BY <1>0, <1>2, <3>1
  <2>2. CASE p = n + 1 /\ type = "assistant/message"
    BY <1>0, <1>2, <2>2 DEF n
  <2> QED BY <1>3, <2>1, <2>2
<1>13. ASSUME type = "step/end" PROVE Closed(t)
  <2> SUFFICES ASSUME NEW p \in Rounds(t) PROVE Ended(t, p)
    BY DEF Closed
  <2>1. p \in Rounds(es) /\ p \in 1..n
    BY <1>3, <1>4, <1>13
  <2>2. CASE \E r \in Rounds(es) : p < r
    BY <1>6, <2>1, <2>2 DEF Shaped, Separated
  <2>3. CASE \A r \in Rounds(es) : ~(p < r)
    <3>1. InRound(t, n + 1, p) /\ n + 1 \in DOMAIN t
      BY <1>0, <1>2, <1>3, <1>4, <1>13, <2>1, <2>3 DEF InRound
    <3> QED BY <1>2, <1>13, <3>1 DEF Ended
  <2> QED BY <2>2, <2>3
<1>14. type = "assistant/message" => OpenAt(t, n + 1)
  BY <1>0, <1>2, <1>3 DEF OpenAt
<1>15. type # "assistant/message" => Rounds(t) = Rounds(es)
  BY <1>3
<1>16. Shaped(t, thrown)
  BY <1>2, <1>7, <1>8, <1>9, <1>10, <1>11, <1>12 DEF Shaped
<1> QED BY <1>2, <1>6, <1>13, <1>14, <1>15, <1>16 DEF n, t

-----------------------------------------------------------------------------
(* Finite sets of naturals in their order *)

Rank(S, i) == Cardinality({j \in S : j <= i})

LEMMA Ranks ==
  ASSUME NEW S \in SUBSET Nat, IsFiniteSet(S)
  PROVE  /\ Cardinality(S) \in Nat
         /\ \A i \in S : Rank(S, i) \in 1..Cardinality(S)
         /\ \A i, j \in S : i < j => Rank(S, i) < Rank(S, j)
         /\ \A k \in 1..Cardinality(S) : \E i \in S : Rank(S, i) = k
<1> DEFINE c == Cardinality(S)
           Below(i) == {j \in S : j <= i}
<1>1. c \in Nat
  BY FS_CardinalityType
<1>2. ASSUME NEW i \in S
      PROVE  /\ IsFiniteSet(Below(i)) /\ Cardinality(Below(i)) \in Nat
             /\ Cardinality(Below(i)) \in 1..c
  <2>1. IsFiniteSet(Below(i)) /\ Cardinality(Below(i)) <= c
    BY FS_Subset
  <2>2. Cardinality(Below(i)) \in Nat
    BY <2>1, FS_CardinalityType
  <2>3. i \in Below(i)
    OBVIOUS
  <2>4. Cardinality(Below(i)) # 0
    BY <2>1, <2>3, FS_EmptySet
  <2> QED BY <1>1, <2>1, <2>2, <2>4
<1>3. ASSUME NEW i \in S, NEW j \in S, i < j
      PROVE  Cardinality(Below(i)) < Cardinality(Below(j))
  <2>0. i \in Nat /\ j \in Nat /\ \A x \in S : x \in Nat
    OBVIOUS
  <2>1. Below(i) \in SUBSET Below(j) /\ j \in Below(j) /\ j \notin Below(i)
    <3>1. \A x \in S : x <= i => x <= j
      BY <1>3, <2>0
    <3>2. j <= j /\ ~(j <= i)
      BY <1>3, <2>0
    <3> QED BY <3>1, <3>2, Zenon
  <2>2. Cardinality(Below(i)) <= Cardinality(Below(j))
        /\ Cardinality(Below(i)) # Cardinality(Below(j))
    BY <1>2, <2>1, FS_Subset
  <2> QED BY <1>2, <2>2
<1>4. ASSUME NEW k \in 1..c PROVE \E i \in S : Cardinality(Below(i)) = k
  <2> DEFINE f == [i \in S |-> Cardinality(Below(i))]
  <2>1. f \in [S -> 1..c]
    BY <1>2
  <2>2. \A i, j \in S : f[i] = f[j] => i = j
    <3> SUFFICES ASSUME NEW i \in S, NEW j \in S, f[i] = f[j] PROVE i = j
      OBVIOUS
    <3>1. ~(i < j) /\ ~(j < i)
      BY <1>2, <1>3
    <3> QED BY <3>1
  <2>3. f \in Injection(S, 1..c)
    BY <2>1, <2>2 DEF Injection, IsInjective
  <2>4. IsFiniteSet(1..c) /\ Cardinality(1..c) = c
    BY <1>1, FS_Interval
  <2>5. f \in Surjection(S, 1..c)
    BY <2>3, <2>4, FS_Injection
  <2> QED BY <2>5 DEF Surjection
<1> QED BY <1>1, <1>2, <1>3, <1>4 DEF Rank

LEMMA Maximum ==
  ASSUME NEW S \in SUBSET Nat, IsFiniteSet(S), S # {}
  PROVE  \E i \in S : \A j \in S : j <= i
<1>1. Cardinality(S) \in 1..Cardinality(S)
  BY Ranks, FS_EmptySet
<1>2. PICK i \in S : Rank(S, i) = Cardinality(S)
  BY <1>1, Ranks
<1>3. {j \in S : j <= i} = S
  BY <1>2, FS_Subset DEF Rank
<1> QED BY <1>3

LEMMA Ordered ==
  ASSUME NEW S \in SUBSET Nat, IsFiniteSet(S)
  PROVE  /\ DOMAIN InOrder(S) = 1..Cardinality(S)
         /\ InOrder(S) \in [1..Cardinality(S) -> S]
         /\ \A k \in 1..Cardinality(S) : Rank(S, InOrder(S)[k]) = k
         /\ \A i \in S : InOrder(S)[Rank(S, i)] = i
<1>1. ASSUME NEW k \in 1..Cardinality(S)
      PROVE  InOrder(S)[k] \in S /\ Rank(S, InOrder(S)[k]) = k
  <2>1. \E i \in S : Cardinality({j \in S : j <= i}) = k
    BY Ranks DEF Rank
  <2> QED BY <2>1 DEF InOrder, Rank
<1>2. ASSUME NEW i \in S PROVE InOrder(S)[Rank(S, i)] = i
  <2>1. Rank(S, i) \in 1..Cardinality(S)
    BY Ranks
  <2>2. PICK j \in S : j = InOrder(S)[Rank(S, i)] /\ Rank(S, j) = Rank(S, i)
    BY <1>1, <2>1
  <2>3. ~(i < j) /\ ~(j < i)
    BY <2>1, <2>2, Ranks
  <2> QED BY <2>2, <2>3
<1>3. InOrder(S) \in [1..Cardinality(S) -> S]
  <2> DEFINE at(k) == CHOOSE i \in S : Cardinality({j \in S : j <= i}) = k
  <2>1. InOrder(S) = [k \in 1..Cardinality(S) |-> at(k)]
    BY DEF InOrder
  <2> HIDE DEF at
  <2>2. \A k \in 1..Cardinality(S) : at(k) \in S
    BY <1>1, <2>1
  <2> QED BY <2>1, <2>2
<1> QED BY <1>1, <1>2, <1>3

(* Without its first m elements the order is the rest of the order. *)
LEMMA OrderedRest ==
  ASSUME NEW S \in SUBSET Nat, IsFiniteSet(S), NEW m \in 0..Cardinality(S)
  PROVE  LET T == {i \in S : Rank(S, i) > m}
         IN  /\ IsFiniteSet(T) /\ Cardinality(T) = Cardinality(S) - m
             /\ \A k \in 1..(Cardinality(S) - m) : InOrder(T)[k] = InOrder(S)[m + k]
<1> DEFINE T == {i \in S : Rank(S, i) > m}
           L == {i \in S : Rank(S, i) <= m}
           c == Cardinality(S)
<1>0. c \in Nat /\ m \in Nat /\ m <= c
  BY Ranks
<1>1. /\ \A i \in S : Rank(S, i) \in Nat
      /\ \A i, j \in S : i < j => Rank(S, i) < Rank(S, j)
  BY Ranks
<1>2. IsFiniteSet(T) /\ IsFiniteSet(L) /\ T \in SUBSET Nat
  BY FS_Subset
<1>3. Cardinality(L) = m
  <2> DEFINE f == [k \in 1..m |-> InOrder(S)[k]]
  <2>1. f \in [1..m -> L]
    BY <1>0, Ordered
  <2>2. \A a, b \in 1..m : f[a] = f[b] => a = b
    BY <1>0, Ordered
  <2>3. ASSUME NEW i \in L PROVE \E a \in 1..m : f[a] = i
    <3>1. Rank(S, i) \in 1..m
      BY <1>0, Ranks
    <3> QED BY <3>1, Ordered
  <2>4. f \in Bijection(1..m, L)
    BY <2>1, <2>2, <2>3 DEF Bijection, Injection, IsInjective, Surjection
  <2>5. IsFiniteSet(1..m) /\ Cardinality(1..m) = m
    BY <1>0, FS_Interval
  <2>6. ExistsBijection(1..m, L)
    BY <2>4 DEF ExistsBijection
  <2> QED BY <2>5, <2>6, FS_Bijection
<1>4. Cardinality(T) = c - m
  <2>0. \A i \in S : Rank(S, i) > m <=> ~(Rank(S, i) <= m)
    BY <1>0, <1>1
  <2>1. T = S \ L /\ S \cap L = L
    BY <2>0, Zenon
  <2> QED BY <1>3, <2>1, FS_Difference
<1>5. ASSUME NEW i \in T PROVE Rank(S, i) = m + Rank(T, i)
  <2> DEFINE A == {j \in T : j <= i}
  <2>1. {j \in S : j <= i} = L \cup A /\ L \cap A = {}
    <3>1. ASSUME NEW j \in L PROVE j <= i
      <4>1. Rank(S, j) <= m /\ Rank(S, i) > m /\ i \in S /\ j \in S
        OBVIOUS
      <4>2. ~(i < j)
        BY <1>0, <1>1, <4>1
      <4> QED BY <4>1, <4>2
    <3>2. \A j \in S : j \in L \/ j \in T
      BY <1>0, <1>1
    <3>3. \A j \in L : j \notin T
      BY <1>0, <1>1
    <3> QED BY <3>1, <3>2, <3>3
  <2>2. IsFiniteSet(A) /\ Cardinality(A) \in Nat
    BY <1>2, FS_Subset, FS_CardinalityType
  <2>3. Cardinality(L \cup A) = Cardinality(L) + Cardinality(A) - Cardinality(L \cap A)
    BY <1>2, <2>2, FS_Union
  <2>4. Cardinality({}) = 0
    BY FS_EmptySet
  <2> HIDE DEF A, L
  <2>5. Cardinality({j \in S : j <= i}) = m + Cardinality(A)
    <3>1. Cardinality(L \cap A) = 0
      BY <2>1, <2>4
    <3>2. Cardinality({j \in S : j <= i}) = Cardinality(L \cup A)
      BY <2>1
    <3> QED BY <1>0, <1>3, <2>2, <2>3, <3>1, <3>2
  <2> QED BY <2>5 DEF Rank, A
<1>6. ASSUME NEW k \in 1..(c - m) PROVE InOrder(T)[k] = InOrder(S)[m + k]
  <2>1. m + k \in 1..c
    BY <1>0
  <2>2. PICK i \in S : i = InOrder(S)[m + k] /\ Rank(S, i) = m + k
    BY <2>1, Ordered
  <2>3. i \in T
    BY <1>0, <2>2
  <2>4. Rank(T, i) \in Nat
    BY <1>2, <2>3, Ranks
  <2>5. Rank(T, i) = k
    BY <1>0, <1>5, <2>2, <2>3, <2>4
  <2>6. InOrder(T)[Rank(T, i)] = i
    BY <1>2, <2>3, Ordered
  <2> QED BY <2>2, <2>5, <2>6
<1> QED BY <1>2, <1>4, <1>6

-----------------------------------------------------------------------------
(* What the closers are *)

LEMMA PendingFacts ==
  ASSUME NEW es \in Seq(EventType)
  PROVE  /\ Pending(es) \in SUBSET Call /\ Pending(es) \in SUBSET Nat
         /\ IsFiniteSet(Pending(es)) /\ Cardinality(Pending(es)) \in Nat
<1>1. Pending(es) \in SUBSET Call
  BY DEF Pending
<1>2. IsFiniteSet(1..Calls)
  BY CallsAssumption, FS_Interval
<1> QED BY <1>1, <1>2, CallsAssumption, FS_Subset, FS_CardinalityType DEF Call

LEMMA StartFacts ==
  ASSUME NEW es \in Seq(EventType), NEW i
  PROVE  /\ StartOf(es, i) \in Nat
         /\ StartOf(es, i) = 0 => Starts(es, i) = {}
<1>1. /\ Starts(es, i) \in SUBSET (1..Len(es)) /\ Len(es) \in Nat
  BY Domains DEF Starts
<1>2. IsFiniteSet(Starts(es, i)) /\ Starts(es, i) \in SUBSET Nat
  <2>1. IsFiniteSet(1..Len(es))
    BY <1>1, FS_Interval
  <2>2. \A q \in 1..Len(es) : q \in Nat
    BY <1>1
  <2> QED BY <1>1, <2>1, <2>2, FS_Subset
<1>3. CASE Starts(es, i) # {}
  <2>1. \E q \in Starts(es, i) : \A r \in Starts(es, i) : r <= q
    BY <1>2, <1>3, Maximum
  <2>2. StartOf(es, i) \in Starts(es, i)
    BY <1>3, <2>1 DEF StartOf, Latest
  <2> QED BY <1>1, <1>3, <2>2
<1>4. CASE Starts(es, i) = {}
  BY <1>4 DEF StartOf, Latest
<1> QED BY <1>3, <1>4

LEMMA ClosingFacts ==
  ASSUME NEW i, NEW seq
  PROVE  /\ Closing(i, seq).type = "tool/result" /\ Closing(i, seq).call = i
         /\ Closing(i, seq).code = IF seq # 0 THEN "unknown" ELSE "not-started"
BY DEF Closing, ResultEvent, Event

LEMMA ClosingResultsFacts ==
  ASSUME NEW es \in Seq(EventType)
  PROVE  LET U == Pending(es)
             rs == ClosingResults(es)
         IN  /\ rs \in Seq(EventType) /\ Len(rs) = Cardinality(U)
             /\ \A k \in 1..Cardinality(U) :
                  /\ InOrder(U)[k] \in U
                  /\ rs[k] = Closing(InOrder(U)[k], StartOf(es, InOrder(U)[k]))
<1> DEFINE U == Pending(es)
           c == Cardinality(U)
           o == InOrder(U)
<1>1. c \in Nat /\ DOMAIN o = 1..c /\ \A k \in 1..c : o[k] \in U /\ o[k] \in Nat
  BY PendingFacts, Ordered
<1>2. ASSUME NEW k \in 1..c PROVE Closing(o[k], StartOf(es, o[k])) \in EventType
  <2>1. StartOf(es, o[k]) \in Nat /\ o[k] \in Nat
    BY <1>1, StartFacts
  <2> HIDE DEF o
  <2> QED BY <2>1 DEF Closing, ResultEvent, Event, EventType
<1>3. ClosingResults(es) = [k \in 1..c |-> Closing(o[k], StartOf(es, o[k]))]
  BY <1>1 DEF ClosingResults
<1> HIDE DEF o, c
<1>4. ClosingResults(es) \in [1..c -> EventType]
  BY <1>2, <1>3
<1>5. ClosingResults(es) \in Seq(EventType) /\ Len(ClosingResults(es)) = c
  BY <1>1, <1>4
<1>6. \A k \in 1..c : ClosingResults(es)[k] = Closing(o[k], StartOf(es, o[k]))
  BY <1>3
<1> QED BY <1>1, <1>5, <1>6 DEF o, c

LEMMA MarkTyped ==
  ASSUME NEW type \in {"turn/start", "turn/end", "step/start", "step/end",
                       "assistant/message"}
  PROVE  Mark(type) \in EventType /\ Mark(type).type = type
BY DEF Mark, Event, EventType

(* How many they are, and which; Tail is what comes after the results. *)
Tail1(es) == IF StepOpen(es) THEN 2 ELSE 1

LEMMA ClosersFacts ==
  ASSUME NEW es \in Seq(EventType), TurnOpen(es)
  PROVE  LET c == Cardinality(Pending(es))
             cl == Closers(es)
         IN  /\ cl \in Seq(EventType) /\ Len(cl) = c + Tail1(es)
             /\ \A k \in 1..c : cl[k] = ClosingResults(es)[k]
             /\ StepOpen(es) => cl[c + 1] = Mark("step/end")
             /\ cl[c + Tail1(es)] = Mark("turn/end")
<1> DEFINE c == Cardinality(Pending(es))
           rs == ClosingResults(es)
<1>1. c \in Nat /\ rs \in Seq(EventType) /\ Len(rs) = c
  BY PendingFacts, ClosingResultsFacts
<1>2. Mark("step/end") \in EventType /\ Mark("turn/end") \in EventType
  BY MarkTyped
<1>3. Closers(es) = rs \o ClosingStep(es) \o <<Mark("turn/end")>>
  BY DEF Closers
<1> HIDE DEF c, rs
<1>4. CASE StepOpen(es)
  <2>1. Closers(es) = (rs \o <<Mark("step/end")>>) \o <<Mark("turn/end")>>
    BY <1>3, <1>4 DEF ClosingStep
  <2>2. Tail1(es) = 2
    BY <1>4 DEF Tail1
  <2> DEFINE a == rs \o <<Mark("step/end")>>
  <2>3. /\ a \in Seq(EventType) /\ Len(a) = c + 1
        /\ \A k \in 1..c : a[k] = rs[k]
        /\ a[c + 1] = Mark("step/end")
    BY <1>1, <1>2
  <2> HIDE DEF a
  <2>4. /\ a \o <<Mark("turn/end")>> \in Seq(EventType)
        /\ Len(a \o <<Mark("turn/end")>>) = c + 2
        /\ \A k \in 1..(c + 1) : (a \o <<Mark("turn/end")>>)[k] = a[k]
        /\ (a \o <<Mark("turn/end")>>)[c + 2] = Mark("turn/end")
    BY <1>1, <1>2, <2>3
  <2>5. Closers(es) = a \o <<Mark("turn/end")>>
    BY <2>1 DEF a
  <2>6. \A k \in 1..c : k \in 1..(c + 1)
    BY <1>1
  <2>7. c + 1 \in 1..(c + 1)
    BY <1>1
  <2> QED BY <2>2, <2>3, <2>4, <2>5, <2>6, <2>7 DEF c, rs
<1>5. CASE ~StepOpen(es)
  <2>1. Closers(es) = (rs \o <<>>) \o <<Mark("turn/end")>>
    BY <1>3, <1>5 DEF ClosingStep
  <2>2. Tail1(es) = 1 /\ rs \o <<>> = rs
    BY <1>1, <1>5 DEF Tail1
  <2>3. /\ rs \o <<Mark("turn/end")>> \in Seq(EventType)
        /\ Len(rs \o <<Mark("turn/end")>>) = c + 1
        /\ \A k \in 1..c : (rs \o <<Mark("turn/end")>>)[k] = rs[k]
        /\ (rs \o <<Mark("turn/end")>>)[c + 1] = Mark("turn/end")
    BY <1>1, <1>2
  <2> QED BY <1>5, <2>1, <2>2, <2>3 DEF c, rs
<1> QED BY <1>4, <1>5

LEMMA ConcatFacts ==
  ASSUME NEW a \in Seq(EventType), NEW b \in Seq(EventType)
  PROVE  /\ a \o b \in Seq(EventType) /\ Len(a \o b) = Len(a) + Len(b)
         /\ \A p \in 1..Len(a) : (a \o b)[p] = a[p]
         /\ \A k \in 1..Len(b) : (a \o b)[Len(a) + k] = b[k]
OBVIOUS

-----------------------------------------------------------------------------
(* The repair is stable: the closers of a log that holds the first of its
   closers are the rest of them. *)

LEMMA Stable ==
  ASSUME NEW es \in Seq(EventType), NEW k \in Len(es)..Len(es \o Closers(es))
  PROVE  LET t == SubSeq(es \o Closers(es), 1, k)
         IN  t \o Closers(t) = es \o Closers(es)
<1> DEFINE n == Len(es)
           cl == Closers(es)
           f == es \o cl
           t == SubSeq(f, 1, k)
           U == Pending(es)
           c == Cardinality(U)
<1>0. n \in Nat /\ DOMAIN es = 1..n
  BY Domains
<1>1. CASE ~TurnOpen(es)
  <2>1. cl = <<>>
    BY <1>1 DEF Closers
  <2>2. f = es /\ k = n
    BY <1>0, <2>1
  <2>3. t = es
    BY <1>0, <2>2
  <2> QED BY <2>1, <2>2, <2>3
<1>2. CASE TurnOpen(es)
  <2>1. /\ cl \in Seq(EventType) /\ Len(cl) = c + Tail1(es) /\ c \in Nat
        /\ \A h \in 1..c : cl[h] = ClosingResults(es)[h]
        /\ StepOpen(es) => cl[c + 1] = Mark("step/end")
        /\ cl[c + Tail1(es)] = Mark("turn/end")
    BY <1>2, ClosersFacts, PendingFacts
  <2>2. Tail1(es) \in {1, 2} /\ (Tail1(es) = 2 <=> StepOpen(es))
    BY DEF Tail1
  <2> DEFINE m == n + c + Tail1(es)
  <2>3. /\ f \in Seq(EventType) /\ Len(f) = m /\ m \in Nat
        /\ \A p \in 1..n : f[p] = es[p]
        /\ \A h \in 1..(c + Tail1(es)) : f[n + h] = cl[h]
    <3> HIDE DEF cl
    <3>1. /\ es \o cl \in Seq(EventType) /\ Len(es \o cl) = n + Len(cl)
          /\ \A p \in 1..n : (es \o cl)[p] = es[p]
          /\ \A h \in 1..Len(cl) : (es \o cl)[n + h] = cl[h]
      BY <2>1, ConcatFacts
    <3> HIDE DEF c, n
    <3>2. m \in Nat /\ n + (c + Tail1(es)) = m
      BY <1>0, <2>1, <2>2
    <3> QED BY <2>1, <3>1, <3>2
  <2> HIDE DEF f, cl
  <2>4. k \in n..m /\ k \in Nat /\ n <= k /\ k <= m
    BY <1>0, <2>3 DEF f, cl
  <2>5. /\ t \in Seq(EventType) /\ Len(t) = k /\ DOMAIN t = 1..k
        /\ \A p \in 1..k : t[p] = f[p]
    BY <2>3, <2>4, PrefixFacts
  <2> HIDE DEF n, t, m
  <2>6. ASSUME TurnOpen(t), Cardinality(Pending(t)) + Tail1(t) = m - k,
               \A h \in 1..(m - k) : Closers(t)[h] = f[k + h]
        PROVE  t \o Closers(t) = f
    <3>1. Closers(t) \in Seq(EventType) /\ Len(Closers(t)) = m - k
      BY <2>5, <2>6, ClosersFacts
    <3>2. /\ t \o Closers(t) \in Seq(EventType) /\ Len(t \o Closers(t)) = m
          /\ \A p \in 1..k : (t \o Closers(t))[p] = t[p]
          /\ \A h \in 1..(m - k) : (t \o Closers(t))[k + h] = Closers(t)[h]
      <4> DEFINE ct == Closers(t)
      <4>1. ct \in Seq(EventType) /\ Len(ct) = m - k
        BY <3>1
      <4> HIDE DEF ct
      <4>2. /\ t \o ct \in Seq(EventType) /\ Len(t \o ct) = k + Len(ct)
            /\ \A p \in 1..k : (t \o ct)[p] = t[p]
            /\ \A h \in 1..Len(ct) : (t \o ct)[k + h] = ct[h]
        BY <2>5, <4>1, ConcatFacts
      <4>3. k + (m - k) = m
        BY <2>3, <2>4
      <4> QED BY <4>1, <4>2, <4>3 DEF ct
    <3>3. ASSUME NEW p \in 1..m PROVE (t \o Closers(t))[p] = f[p]
      <4>1. CASE p \in 1..k
        BY <2>5, <3>2, <4>1
      <4>2. CASE p \notin 1..k
        <5>1. p - k \in 1..(m - k) /\ k + (p - k) = p
          BY <2>3, <2>4, <4>2
        <5> QED BY <2>6, <3>2, <5>1
      <4> QED BY <4>1, <4>2
    <3> QED BY <2>3, <3>2, <3>3, SeqEqual
  <2>7. CASE k <= n + c
    <3> DEFINE j == k - n
               o == InOrder(U)
    <3>1. j \in 0..c /\ j \in Nat /\ k = n + j
      BY <1>0, <2>1, <2>4, <2>7
    <3> HIDE DEF j
    <3>2. /\ \A p \in 1..n : t[p] = es[p]
          /\ \A h \in 1..j : t[n + h] = ClosingResults(es)[h]
      <4>1. \A h \in 1..j : h \in 1..c /\ n + h \in 1..k /\ h \in 1..(c + Tail1(es))
        BY <1>0, <2>1, <2>2, <3>1
      <4>2. \A p \in 1..n : p \in 1..k
        BY <1>0, <3>1
      <4> QED BY <2>1, <2>3, <2>5, <4>1, <4>2
    <3>3. \A h \in 1..j : /\ t[n + h].type = "tool/result"
                          /\ t[n + h].call = o[h] /\ o[h] \in U
      <4>1. \A h \in 1..j : h \in 1..c
        BY <2>1, <3>1
      <4>2. ASSUME NEW h \in 1..j
            PROVE  t[n + h] = Closing(o[h], StartOf(es, o[h])) /\ o[h] \in U
        BY <3>2, <4>1, ClosingResultsFacts
      <4> QED BY <4>2, ClosingFacts
    <3>4. ASSUME NEW q \in 1..k, q > n PROVE q - n \in 1..j /\ n + (q - n) = q
      BY <1>0, <3>1, <3>4
    <3>5. \A q \in 1..k : q > n => t[q].type = "tool/result" /\ t[q].call = o[q - n]
      BY <3>3, <3>4
    <3>6. \A q \in 1..k : q \in 1..n \/ q > n
      BY <1>0, <3>1
    <3>7. \A p \in 1..n : p \in 1..k
      BY <1>0, <3>1
    <3>8. Rounds(t) = Rounds(es)
      BY <1>0, <2>5, <3>2, <3>5, <3>6, <3>7 DEF Rounds
    <3>9. ASSUME NEW p \in 1..n, NEW types, "tool/result" \notin types
          PROVE  NoneAfter(t, p, types) <=> NoneAfter(es, p, types)
      BY <1>0, <2>5, <3>2, <3>5, <3>6, <3>7, <3>9 DEF NoneAfter
    <3>10. TurnOpen(t) /\ (StepOpen(t) <=> StepOpen(es))
      <4>1. "tool/result" \notin {"turn/end"} /\ "tool/result" \notin Clearing
        BY DEF Clearing, TurnBounds
      <4>2. \A p \in DOMAIN t : t[p].type # "tool/result" => p \in 1..n /\ es[p] = t[p]
        BY <2>5, <3>2, <3>5, <3>6
      <4>3. \A p \in DOMAIN es : p \in 1..n /\ p \in DOMAIN t /\ t[p] = es[p]
        BY <1>0, <2>5, <3>2, <3>7
      <4>4. TurnOpen(t)
        <5>1. PICK p \in DOMAIN es : /\ es[p].type = "turn/start"
                                     /\ NoneAfter(es, p, {"turn/end"})
          BY <1>2 DEF TurnOpen
        <5> QED BY <3>9, <4>1, <4>3, <5>1 DEF TurnOpen
      <4>5. StepOpen(t) <=> StepOpen(es)
        <5>1. ASSUME NEW p \in DOMAIN t, t[p].type = "step/start",
                     NoneAfter(t, p, Clearing)
              PROVE  StepOpen(es)
          <6>1. p \in 1..n /\ es[p] = t[p]
            BY <4>2, <5>1
          <6> QED BY <1>0, <3>9, <4>1, <5>1, <6>1 DEF StepOpen
        <5>2. ASSUME NEW p \in DOMAIN es, es[p].type = "step/start",
                     NoneAfter(es, p, Clearing)
              PROVE  StepOpen(t)
          <6>1. p \in 1..n /\ p \in DOMAIN t /\ t[p] = es[p]
            BY <4>3
          <6> QED BY <3>9, <4>1, <5>2, <6>1 DEF StepOpen
        <5> QED BY <5>1, <5>2 DEF StepOpen
      <4> QED BY <4>4, <4>5
    <3>11. Pending(t) = {i \in U : Rank(U, i) > j}
      <4>1. ASSUME NEW i \in Call, NEW p \in Rounds(es)
            PROVE  (\A q \in DOMAIN t : q > p => ~Settles(t[q], i))
                   <=> /\ \A q \in DOMAIN es : q > p => ~Settles(es[q], i)
                       /\ \A h \in 1..j : o[h] # i
        <5>1. p \in 1..n
          BY <1>0 DEF Rounds
        <5>2. \A h \in 1..j : n + h \in 1..k /\ n + h > p /\ n + h > n
          BY <1>0, <3>1, <5>1
        <5>3. \A q \in 1..n : Settles(t[q], i) <=> Settles(es[q], i)
          BY <3>2
        <5>4. \A h \in 1..j : Settles(t[n + h], i) <=> o[h] = i
          BY <3>3 DEF Settles
        <5> QED BY <1>0, <2>5, <3>4, <3>6, <3>7, <5>2, <5>3, <5>4
      <4>2. \A i \in Call : i \in Pending(t) <=> i \in U /\ \A h \in 1..j : o[h] # i
        <5>1. "tool/result" \notin Clearing
          BY DEF Clearing, TurnBounds
        <5>2. \A p \in Rounds(es) : p \in 1..n
          BY <1>0 DEF Rounds
        <5> QED BY <3>8, <3>9, <4>1, <5>1, <5>2 DEF Pending
      <4>3. ASSUME NEW i \in U PROVE (\A h \in 1..j : o[h] # i) <=> Rank(U, i) > j
        <5>1. U \in SUBSET Nat /\ IsFiniteSet(U)
          BY PendingFacts
        <5>2. Rank(U, i) \in 1..c /\ o[Rank(U, i)] = i
          BY <5>1, Ranks, Ordered
        <5>3. \A h \in 1..c : Rank(U, o[h]) = h
          BY <5>1, Ordered
        <5>4. \A h \in 1..j : h \in 1..c /\ h <= j
          BY <2>1, <3>1
        <5>5. ~(Rank(U, i) > j) => Rank(U, i) \in 1..j
          BY <2>1, <3>1, <5>2
        <5>6. \A h \in 1..j : ~(h > j)
          BY <3>1
        <5> QED BY <5>2, <5>3, <5>4, <5>5, <5>6
      <4>4. U \in SUBSET Call /\ Pending(t) \in SUBSET Call
        BY <2>5, PendingFacts
      <4> QED BY <4>2, <4>3, <4>4
    <3>12. \A i : StartOf(t, i) = StartOf(es, i)
      <4> SUFFICES ASSUME NEW i PROVE StartOf(t, i) = StartOf(es, i)
        OBVIOUS
      <4>1. Starts(t, i) = Starts(es, i)
        <5>1. \A q : q \in DOMAIN t /\ t[q].type = "tool/call" <=>
                     q \in DOMAIN es /\ es[q].type = "tool/call"
          BY <1>0, <2>5, <3>2, <3>5, <3>6, <3>7
        <5>2. \A q \in DOMAIN es : t[q] = es[q]
          BY <1>0, <3>2
        <5>3. \A q : q \in Starts(t, i) <=> q \in Starts(es, i)
          BY <3>8, <5>1, <5>2 DEF Starts
        <5>4. /\ Starts(t, i) \subseteq Starts(es, i)
              /\ Starts(es, i) \subseteq Starts(t, i)
          BY <5>3
        <5> QED BY <5>4
      <4> QED BY <4>1 DEF StartOf
    <3>13. /\ Cardinality(Pending(t)) = c - j
           /\ \A h \in 1..(c - j) : InOrder(Pending(t))[h] = o[j + h]
      BY <3>1, <3>11, OrderedRest, PendingFacts
    <3>14. Tail1(t) = Tail1(es)
      BY <3>10 DEF Tail1
    <3>15. m - k = c - j + Tail1(es) /\ c - j \in Nat
      BY <1>0, <2>1, <2>2, <3>1 DEF m
    <3>16. ASSUME NEW h \in 1..(m - k) PROVE Closers(t)[h] = f[k + h]
      <4>1. /\ \A g \in 1..(c - j) : Closers(t)[g] = ClosingResults(t)[g]
            /\ StepOpen(es) => Closers(t)[c - j + 1] = Mark("step/end")
            /\ Closers(t)[c - j + Tail1(es)] = Mark("turn/end")
        BY <2>5, <3>10, <3>13, <3>14, ClosersFacts
      <4>2. f[k + h] = cl[j + h]
        <5>1. j + h \in 1..(c + Tail1(es)) /\ n + (j + h) = k + h
          BY <1>0, <2>1, <2>2, <3>1, <3>15
        <5> QED BY <2>3, <5>1
      <4>3. CASE h \in 1..(c - j)
        <5>1. j + h \in 1..c
          BY <2>1, <3>1, <4>3
        <5>2. /\ ClosingResults(t)[h] = Closing(o[j + h], StartOf(es, o[j + h]))
              /\ ClosingResults(es)[j + h] = Closing(o[j + h], StartOf(es, o[j + h]))
          BY <2>5, <3>12, <3>13, <4>3, <5>1, ClosingResultsFacts
        <5> QED BY <2>1, <4>1, <4>2, <4>3, <5>1, <5>2
      <4>4. CASE h = c - j + Tail1(es)
        <5>1. j + h = c + Tail1(es)
          BY <2>1, <2>2, <3>1, <4>4
        <5> QED BY <2>1, <4>1, <4>2, <4>4, <5>1
      <4>5. CASE StepOpen(es) /\ h = c - j + 1
        <5>1. j + h = c + 1
          BY <2>1, <3>1, <4>5
        <5> QED BY <2>1, <4>1, <4>2, <4>5, <5>1
      <4>6. h \in 1..(c - j) \/ h = c - j + Tail1(es) \/ (StepOpen(es) /\ h = c - j + 1)
        BY <2>2, <3>15
      <4> QED BY <4>3, <4>4, <4>5, <4>6
    <3> QED BY <2>6, <3>10, <3>13, <3>14, <3>15, <3>16 DEF t, f, cl
  <2>8. CASE k = n + c + 1 /\ StepOpen(es)
    <3>1. m = k + 1 /\ k \in 1..k /\ n < k
      BY <1>0, <2>1, <2>2, <2>8 DEF m
    <3>2. t[k] = Mark("step/end") /\ t[k].type = "step/end"
      <4>1. c + 1 \in 1..(c + Tail1(es)) /\ n + (c + 1) = k
        BY <1>0, <2>1, <2>2, <2>8
      <4> QED BY <2>1, <2>3, <2>5, <2>8, <3>1, <4>1, MarkTyped
    <3>3. f[k + 1] = Mark("turn/end")
      <4>1. c + 2 \in 1..(c + Tail1(es)) /\ n + (c + 2) = k + 1 /\ c + 2 = c + Tail1(es)
        BY <1>0, <2>1, <2>2, <2>8
      <4> QED BY <2>1, <2>3, <4>1
    <3>4. \A p \in 1..k : p # k => ~NoneAfter(t, p, Clearing)
      <4>1. \A p \in 1..k : p # k => k > p
        BY <2>4
      <4> QED BY <2>5, <3>1, <3>2, <4>1 DEF NoneAfter, Clearing
    <3>5. Pending(t) = {} /\ ~StepOpen(t)
      BY <2>5, <3>2, <3>4 DEF Pending, StepOpen, Rounds
    <3>6. TurnOpen(t)
      <4>1. PICK p \in 1..n : /\ es[p].type = "turn/start"
                              /\ NoneAfter(es, p, {"turn/end"})
        BY <1>0, <1>2 DEF TurnOpen
      <4>2. \A q \in 1..n : t[q] = es[q] /\ q \in 1..k
        BY <1>0, <2>3, <2>5, <3>1
      <4>3. ASSUME NEW q \in 1..k, q > n PROVE t[q].type # "turn/end"
        <5>1. q = k \/ q - n \in 1..c
          BY <1>0, <2>1, <2>8, <4>3
        <5>2. CASE q - n \in 1..c
          <6>1. q - n \in 1..(c + Tail1(es)) /\ n + (q - n) = q
            BY <1>0, <2>1, <2>2, <5>2
          <6>2. t[q] = ClosingResults(es)[q - n]
            BY <2>1, <2>3, <2>5, <5>2, <6>1
          <6>3. t[q].type = "tool/result"
            BY <5>2, <6>2, ClosingResultsFacts, ClosingFacts
          <6> QED BY <6>3
        <5> QED BY <3>2, <5>1, <5>2
      <4>4. \A q \in 1..k : q \in 1..n \/ q > n
        BY <1>0, <2>4
      <4>5. NoneAfter(t, p, {"turn/end"})
        BY <1>0, <2>5, <4>1, <4>2, <4>3, <4>4 DEF NoneAfter
      <4> QED BY <2>5, <4>1, <4>2, <4>5 DEF TurnOpen
    <3>7. Cardinality(Pending(t)) = 0 /\ Tail1(t) = 1
      BY <3>5, FS_EmptySet DEF Tail1
    <3>8. Closers(t)[1] = Mark("turn/end")
      <4>1. Closers(t)[0 + 1] = Mark("turn/end")
        BY <2>5, <3>6, <3>7, ClosersFacts
      <4> QED BY <4>1
    <3>9. m - k = 1
      BY <2>4, <3>1
    <3>10. \A h \in 1..(m - k) : Closers(t)[h] = f[k + h]
      <4>1. \A h \in 1..(m - k) : h = 1
        BY <3>9
      <4> QED BY <3>3, <3>8, <4>1
    <3>11. Cardinality(Pending(t)) + Tail1(t) = m - k
      BY <3>7, <3>9
    <3>12. t \o Closers(t) = f
      BY <2>6, <3>6, <3>10, <3>11
    <3> QED BY <3>12 DEF t, f, cl
  <2>9. CASE k = m
    <3>1. t = f
      BY <2>3, <2>5, <2>9, SeqEqual
    <3>2. t[k].type = "turn/end" /\ k \in 1..k
      <4>1. c + Tail1(es) \in 1..(c + Tail1(es)) /\ n + (c + Tail1(es)) = k /\ k \in 1..k
        BY <1>0, <2>1, <2>2, <2>9 DEF m
      <4> QED BY <2>1, <2>3, <2>5, <4>1, MarkTyped
    <3>3. \A p \in 1..k : p # k => k > p
      BY <2>4
    <3>4. ~TurnOpen(t)
      BY <2>5, <3>2, <3>3 DEF TurnOpen, NoneAfter
    <3>5. Closers(t) = <<>>
      BY <3>4 DEF Closers
    <3> QED BY <2>3, <3>1, <3>5 DEF t, f, cl
  <2>10. k <= n + c \/ (k = n + c + 1 /\ StepOpen(es)) \/ k = m
    BY <1>0, <2>1, <2>2, <2>4 DEF m
  <2> QED BY <2>7, <2>8, <2>9, <2>10
<1> QED BY <1>1, <1>2

-----------------------------------------------------------------------------
(* The repair completes the shape of the log *)

LEMMA OpenTurn ==
  ASSUME NEW es, NEW thrown, Shaped(es, thrown), Len(es) >= 1
  PROVE  TurnOpen(es) <=> es[Len(es)].type # "turn/end"
<1> DEFINE n == Len(es)
<1>0. n \in Nat /\ DOMAIN es = 1..n /\ n \in DOMAIN es
  BY Domains DEF Shaped
<1> HIDE DEF n
<1>1. ASSUME es[n].type # "turn/end" PROVE TurnOpen(es)
  <2>1. PICK p \in 1..n : /\ es[p].type = "turn/start"
                          /\ \A q \in p..n : es[q].type # "turn/end"
    BY <1>0, <1>1 DEF Shaped, Covered
  <2>2. NoneAfter(es, p, {"turn/end"})
    BY <1>0, <2>1 DEF NoneAfter
  <2> QED BY <1>0, <2>1, <2>2 DEF TurnOpen
<1>2. ASSUME TurnOpen(es), es[n].type = "turn/end" PROVE FALSE
  <2>1. PICK p \in 1..n : /\ es[p].type = "turn/start"
                          /\ NoneAfter(es, p, {"turn/end"})
    BY <1>0, <1>2 DEF TurnOpen
  <2>2. p # n
    BY <1>2, <2>1
  <2>3. n > p
    BY <1>0, <2>1, <2>2
  <2> QED BY <1>0, <1>2, <2>1, <2>3 DEF NoneAfter
<1> QED BY <1>1, <1>2 DEF n

(* A round is open, or it has ended. *)
LEMMA OpenOrEnded ==
  ASSUME NEW es, NEW thrown, Shaped(es, thrown), NEW p \in Rounds(es)
  PROVE  IF NoneAfter(es, p, Clearing) THEN OpenAt(es, p) ELSE Ended(es, p)
<1>0. Len(es) \in Nat /\ DOMAIN es = 1..Len(es) /\ p \in 1..Len(es)
      /\ \A r \in Rounds(es) : r \in 1..Len(es)
  BY Domains DEF Shaped, Rounds
<1>1. ASSUME NoneAfter(es, p, Clearing) PROVE OpenAt(es, p)
  <2>1. ASSUME NEW q \in DOMAIN es, q > p, es[q].type \notin ToolTypes PROVE FALSE
    <3>1. p < q
      BY <1>0, <2>1
    <3>2. PICK e \in DOMAIN es : p < e /\ e <= q /\ es[e].type = "step/end"
      BY <2>1, <3>1 DEF Shaped, Fenced
    <3>3. e > p
      BY <1>0, <3>2
    <3> QED BY <1>1, <3>2, <3>3 DEF NoneAfter, Clearing
  <2> QED BY <2>1 DEF OpenAt
<1>2. ASSUME ~NoneAfter(es, p, Clearing) PROVE Ended(es, p)
  <2>1. CASE \E r \in Rounds(es) : p < r
    BY <2>1 DEF Shaped, Separated
  <2>2. CASE \A r \in Rounds(es) : ~(p < r)
    <3>1. PICK q \in DOMAIN es : q > p /\ es[q].type \in Clearing
      BY <1>2 DEF NoneAfter
    <3>2. es[q].type \notin ToolTypes /\ p < q
      BY <1>0, <3>1 DEF Clearing, TurnBounds, ToolTypes
    <3>3. PICK e \in DOMAIN es : p < e /\ e <= q /\ es[e].type = "step/end"
      BY <3>2 DEF Shaped, Fenced
    <3>4. InRound(es, e, p)
      BY <1>0, <2>2, <3>3 DEF InRound
    <3> QED BY <3>3, <3>4 DEF Ended
  <2> QED BY <2>1, <2>2
<1> QED BY <1>1, <1>2

(* The open round, if there is one, is the last. *)
LEMMA OpenIsLast ==
  ASSUME NEW es \in Seq(EventType), NEW p, OpenAt(es, p)
  PROVE  p \in 1..Len(es) /\ \A r \in Rounds(es) : r \in 1..Len(es) /\ r <= p
<1>1. Len(es) \in Nat /\ DOMAIN es = 1..Len(es) /\ p \in 1..Len(es)
  BY Domains DEF OpenAt, Rounds
<1>2. ASSUME NEW r \in Rounds(es) PROVE r \in 1..Len(es) /\ r <= p
  <2>1. r \in 1..Len(es) /\ es[r].type \notin ToolTypes
    BY <1>1 DEF Rounds, ToolTypes
  <2>2. ~(r > p)
    BY <1>1, <2>1 DEF OpenAt
  <2> QED BY <1>1, <2>1, <2>2
<1> QED BY <1>1, <1>2

(* With the closing results an open round is answered. *)
LEMMA ResultsShaped ==
  ASSUME NEW es, NEW thrown, Shaped(es, thrown), NEW p, OpenAt(es, p)
  PROVE  LET t == es \o ClosingResults(es)
         IN  /\ Shaped(t, thrown) /\ OpenAt(t, p) /\ Rounds(t) = Rounds(es)
             /\ \A i \in Call : ResultIn(t, i, p, Len(t) + 1)
<1> DEFINE n == Len(es)
           rs == ClosingResults(es)
           t == es \o rs
           U == Pending(es)
           c == Cardinality(U)
           o == InOrder(U)
<1>0. /\ es \in Seq(EventType) /\ n \in Nat /\ DOMAIN es = 1..n
      /\ c \in Nat /\ U \in SUBSET Nat /\ IsFiniteSet(U)
  BY Domains, PendingFacts DEF Shaped
<1>1. /\ rs \in Seq(EventType) /\ Len(rs) = c
      /\ \A k \in 1..c : rs[k].type = "tool/result" /\ rs[k].call = o[k] /\ o[k] \in U
  <2>1. \A k \in 1..c : o[k] \in U /\ rs[k] = Closing(o[k], StartOf(es, o[k]))
    BY <1>0, ClosingResultsFacts
  <2> QED BY <1>0, <2>1, ClosingResultsFacts, ClosingFacts
<1> HIDE DEF rs
<1>2. /\ t \in Seq(EventType) /\ Len(t) = n + c
      /\ \A q \in 1..n : t[q] = es[q]
      /\ \A k \in 1..c : t[n + k] = rs[k]
  <2>1. /\ es \o rs \in Seq(EventType) /\ Len(es \o rs) = n + Len(rs)
        /\ \A q \in 1..n : (es \o rs)[q] = es[q]
        /\ \A k \in 1..Len(rs) : (es \o rs)[n + k] = rs[k]
    BY <1>0, <1>1, ConcatFacts
  <2> QED BY <1>1, <2>1
<1>3. DOMAIN t = 1..(n + c)
  BY <1>2
<1> HIDE DEF t, n
<1>4. ASSUME NEW q \in 1..(n + c), q > n PROVE q - n \in 1..c /\ n + (q - n) = q
  BY <1>0, <1>4
<1>5. \A q \in 1..(n + c) : q > n =>
        t[q].type = "tool/result" /\ t[q].call = o[q - n] /\ o[q - n] \in U
  BY <1>1, <1>2, <1>4
<1>6. \A k \in 1..c : Rank(U, o[k]) = k
  BY <1>0, Ordered
<1>7. p \in 1..n /\ es[p].type = "assistant/message"
  BY <1>0 DEF OpenAt, Rounds
(* A pending call has no result after the message. *)
<1>8. ASSUME NEW i \in U, NEW q \in 1..n, Settles(es[q], i) PROVE q < p
  <2>1. PICK r \in Rounds(es) : /\ NoneAfter(es, r, Clearing)
                                /\ \A x \in DOMAIN es : x > r => ~Settles(es[x], i)
    BY DEF Pending
  <2>2. OpenAt(es, r)
    BY <2>1, OpenOrEnded
  <2>3. p <= r
    BY <1>0, <2>2, OpenIsLast DEF OpenAt
  <2>4. r <= p /\ r \in 1..n
    BY <1>0, OpenIsLast DEF n
  <2>5. ~(q > r)
    BY <1>0, <1>8, <2>1
  <2>6. q # p
    BY <1>7, <1>8 DEF Settles
  <2> QED BY <1>7, <2>3, <2>4, <2>5, <2>6
<1>9. ASSUME NEW q1 \in DOMAIN t, NEW q2 \in DOMAIN t, q2 > n, q1 < q2,
             t[q1].call = t[q2].call,
             t[q1].type = "tool/result", t[q2].type = "tool/result"
      PROVE  q1 < p
  <2>1. q2 \in 1..(n + c) /\ t[q2].call = o[q2 - n] /\ o[q2 - n] \in U /\ q2 - n \in 1..c
    BY <1>3, <1>4, <1>5, <1>9
  <2>2. CASE q1 > n
    <3>1. q1 - n \in 1..c /\ o[q1 - n] = o[q2 - n]
      BY <1>3, <1>4, <1>5, <1>9, <2>1, <2>2
    <3>2. q1 - n = q2 - n
      BY <1>6, <2>1, <3>1
    <3>3. q1 \in Nat /\ q2 \in Nat
      BY <1>0, <1>3
    <3> QED BY <1>0, <1>9, <3>2, <3>3
  <2>3. CASE ~(q1 > n)
    <3>1. q1 \in 1..n
      BY <1>0, <1>3, <2>3
    <3>2. Settles(es[q1], o[q2 - n])
      BY <1>2, <1>9, <2>1, <3>1 DEF Settles
    <3> QED BY <1>8, <2>1, <3>1, <3>2
  <2> QED BY <2>2, <2>3
<1>10. Shaped(t, thrown) /\ OpenAt(t, p) /\ Rounds(t) = Rounds(es)
  <2>1. n <= Len(t)
    BY <1>0, <1>2
  <2>2. \A q \in DOMAIN t : q > n => t[q].type \in ToolTypes
    BY <1>3, <1>5 DEF ToolTypes
  <2> QED BY <1>2, <1>9, <2>1, <2>2, ToolsShaped DEF n
<1>11. ASSUME NEW i \in Call PROVE ResultIn(t, i, p, n + c + 1)
  <2>1. CASE i \in U
    <3>1. Rank(U, i) \in 1..c /\ o[Rank(U, i)] = i
      BY <1>0, <2>1, Ranks, Ordered
    <3>2. Settles(t[n + Rank(U, i)], i)
      BY <1>1, <1>2, <3>1 DEF Settles
    <3>3. /\ n + Rank(U, i) \in 1..(n + c) /\ p < n + Rank(U, i)
          /\ n + Rank(U, i) < n + c + 1
      BY <1>0, <1>7, <3>1
    <3> QED BY <1>3, <3>2, <3>3 DEF ResultIn
  <2>2. CASE i \notin U
    <3>1. NoneAfter(es, p, Clearing) /\ p \in Rounds(es)
      BY DEF OpenAt, NoneAfter, ToolTypes, Clearing, TurnBounds
    <3>2. PICK q \in DOMAIN es : q > p /\ Settles(es[q], i)
      BY <2>2, <3>1 DEF Pending
    <3>3. q \in 1..n /\ q \in 1..(n + c) /\ p < q /\ q < n + c + 1
      BY <1>0, <1>7, <3>2
    <3> QED BY <1>2, <1>3, <3>2, <3>3 DEF ResultIn
  <2> QED BY <2>1, <2>2
<1> QED BY <1>2, <1>10, <1>11 DEF t, rs

(* What resumeWith appends: the log is balanced again. *)
LEMMA RepairedShape ==
  ASSUME NEW es, NEW thrown, Shaped(es, thrown), Len(es) >= 1
  PROVE  LET f == es \o Closers(es)
         IN  /\ Shaped(f, thrown) /\ Closed(f) /\ Rounds(f) = Rounds(es)
             /\ Len(f) \in Nat /\ Len(es) <= Len(f)
             /\ f[Len(f)].type = "turn/end"
<1> DEFINE n == Len(es)
           f == es \o Closers(es)
<1>0. /\ es \in Seq(EventType) /\ n \in Nat /\ n >= 1 /\ DOMAIN es = 1..n
  BY Domains DEF Shaped
<1>1. CASE ~TurnOpen(es)
  <2>1. f = es
    BY <1>0, <1>1 DEF Closers
  <2>2. es[n].type = "turn/end" /\ n \in DOMAIN es
    BY <1>0, <1>1, OpenTurn
  <2>3. ASSUME NEW p \in Rounds(es) PROVE Ended(es, p)
    <3>1. p \in 1..n /\ p # n
      BY <1>0, <2>2 DEF Rounds
    <3>2. n > p
      <4> HIDE DEF n
      <4> QED BY <1>0, <3>1
    <3>3. ~NoneAfter(es, p, Clearing)
      BY <2>2, <3>2 DEF NoneAfter, Clearing, TurnBounds
    <3> QED BY <3>3, OpenOrEnded
  <2> HIDE DEF f
  <2> QED BY <1>0, <2>1, <2>2, <2>3 DEF Closed, f
<1>2. CASE TurnOpen(es)
  <2> DEFINE rs == ClosingResults(es)
             f1 == es \o rs
             f2 == f1 \o ClosingStep(es)
             f3 == Append(f2, Mark("turn/end"))
  <2>1. rs \in Seq(EventType) /\ f1 \in Seq(EventType)
    BY <1>0, ClosingResultsFacts, ConcatFacts
  <2>2. es[n].type # "turn/end"
    BY <1>0, <1>2, OpenTurn
  <2>3. ClosingStep(es) \in Seq(EventType) /\ <<Mark("turn/end")>> \in Seq(EventType)
        /\ Mark("turn/end") \in EventType /\ Mark("step/end") \in EventType
    BY MarkTyped DEF ClosingStep
  (* The log with the results: the last step is open and answered, or every
     step has ended. *)
  <2>4. /\ Shaped(f1, thrown) /\ Rounds(f1) = Rounds(es)
        /\ Len(f1) \in Nat /\ Len(f1) >= n /\ f1[Len(f1)].type # "turn/end"
        /\ \/ Closed(f1)
           \/ /\ StepOpen(es)
              /\ \A p \in Rounds(f1) : (\A r \in Rounds(f1) : r <= p) =>
                   \A i \in Call : ResultIn(f1, i, p, Len(f1) + 1)
    <3>1. CASE \E p \in Rounds(es) : NoneAfter(es, p, Clearing)
      <4>1. PICK p \in Rounds(es) : NoneAfter(es, p, Clearing) /\ OpenAt(es, p)
        BY <3>1, OpenOrEnded
      <4>2. /\ Shaped(f1, thrown) /\ OpenAt(f1, p) /\ Rounds(f1) = Rounds(es)
            /\ \A i \in Call : ResultIn(f1, i, p, Len(f1) + 1)
        BY <4>1, ResultsShaped
      <4>3. Len(f1) \in Nat /\ DOMAIN f1 = 1..Len(f1) /\ Len(f1) >= n
        BY <1>0, <2>1, Domains, ConcatFacts
      <4>4. p \in 1..n /\ p \in DOMAIN f1 /\ f1[p].type = "assistant/message"
        BY <1>0, <4>1, <4>2 DEF Rounds
      <4> HIDE DEF f1
      <4>5. f1[Len(f1)].type # "turn/end"
        <5>1. CASE Len(f1) = p
          BY <4>4, <5>1
        <5>2. CASE Len(f1) # p
          <6>1. Len(f1) \in DOMAIN f1 /\ Len(f1) > p
            BY <1>0, <4>3, <4>4, <5>2
          <6> QED BY <4>2, <6>1 DEF OpenAt, ToolTypes
        <5> QED BY <5>1, <5>2
      <4>6. StepOpen(es)
        <5>1. p - 1 \in 1..n /\ es[p - 1].type = "step/start"
          BY <1>0, <4>1 DEF Shaped, Opened
        <5>2. \A q \in 1..n : q > p - 1 => q = p \/ q > p
          BY <1>0, <4>4
        <5>3. es[p].type \notin Clearing
          BY <4>1 DEF Rounds, Clearing, TurnBounds
        <5>4. NoneAfter(es, p - 1, Clearing)
          BY <1>0, <4>1, <5>2, <5>3 DEF NoneAfter
        <5> QED BY <1>0, <5>1, <5>4 DEF StepOpen
      <4>7. ASSUME NEW x \in Rounds(f1), \A r \in Rounds(f1) : r <= x
            PROVE  x = p
        <5>1. p <= x /\ x \in 1..n
          BY <1>0, <4>1, <4>2, <4>7 DEF Rounds
        <5>2. x <= p
          BY <1>0, <4>1, <4>2, OpenIsLast
        <5> QED BY <4>4, <5>1, <5>2
      <4> QED BY <4>2, <4>3, <4>5, <4>6, <4>7
    <3>2. CASE \A p \in Rounds(es) : ~NoneAfter(es, p, Clearing)
      <4>1. Closed(es)
        BY <3>2, OpenOrEnded DEF Closed
      <4>2. Pending(es) = {}
        BY <3>2 DEF Pending
      <4>3. Len(rs) = 0
        BY <1>0, <4>2, ClosingResultsFacts, FS_EmptySet
      <4>4. f1 = es
        <5> HIDE DEF rs
        <5>1. rs = <<>>
          BY <2>1, <4>3, EmptySeq
        <5> QED BY <1>0, <5>1, ConcatEmptySeq
      <4> HIDE DEF f1
      <4> QED BY <1>0, <2>2, <4>1, <4>4
    <3> QED BY <3>1, <3>2
  <2> HIDE DEF f1
  (* With the step's end every step has ended. *)
  <2>5. /\ Shaped(f2, thrown) /\ Rounds(f2) = Rounds(es) /\ Closed(f2)
        /\ f2 \in Seq(EventType) /\ Len(f2) \in Nat /\ Len(f2) >= n
    <3>1. CASE ~StepOpen(es)
      <4>1. f2 = f1
        BY <2>1, <3>1, ConcatEmptySeq DEF ClosingStep
      <4> HIDE DEF f2
      <4> QED BY <2>1, <2>4, <3>1, <4>1
    <3>2. CASE StepOpen(es)
      <4>1. f2 = Append(f1, Mark("step/end"))
        BY <2>1, <2>3, <3>2, AppendIsConcat DEF ClosingStep
      <4>2. \A p \in Rounds(f1) : (\A r \in Rounds(f1) : r <= p) =>
              \/ \E x \in thrown : p < x /\ x <= Len(f1) + 1
              \/ \A i \in Call : ResultIn(f1, i, p, Len(f1) + 1)
        <5> SUFFICES ASSUME NEW p \in Rounds(f1), \A r \in Rounds(f1) : r <= p, Closed(f1)
                     PROVE  \/ \E x \in thrown : p < x /\ x <= Len(f1) + 1
                            \/ \A i \in Call : ResultIn(f1, i, p, Len(f1) + 1)
          BY <2>4
        <5>1. PICK e \in DOMAIN f1 : f1[e].type = "step/end" /\ InRound(f1, e, p)
          BY DEF Closed, Ended
        <5>2. \/ \E x \in thrown : p < x /\ x <= e
              \/ \A i \in Call : ResultIn(f1, i, p, e)
          BY <2>4, <5>1 DEF Shaped, Answered
        <5>3. e \in 1..Len(f1) /\ DOMAIN f1 = 1..Len(f1) /\ thrown \subseteq Nat
          BY <2>1, <2>4, <5>1, Domains DEF Shaped
        <5>4. \A x \in Nat : x <= e => x <= Len(f1) + 1
          BY <2>4, <5>3
        <5>5. \A q \in DOMAIN f1 : q < e => q < Len(f1) + 1
          BY <2>4, <5>3
        <5> QED BY <5>2, <5>3, <5>4, <5>5 DEF ResultIn
      <4>3. Len(f1) >= 1
        BY <1>0, <2>4
      <4> DEFINE g == Append(f1, Mark("step/end"))
      <4>4. /\ Shaped(g, thrown) /\ Rounds(g) = Rounds(f1) /\ Closed(g)
            /\ Len(g) = Len(f1) + 1
        BY <2>4, <4>2, <4>3, MarkShaped
      <4>5. g \in Seq(EventType)
        BY <4>4 DEF Shaped
      <4> HIDE DEF g, f2
      <4>6. f2 = g
        BY <4>1 DEF g
      <4> QED BY <1>0, <2>4, <4>4, <4>5, <4>6
    <3> QED BY <3>1, <3>2
  <2>6. f = f3
    <3> HIDE DEF rs
    <3>1. f = es \o ((rs \o ClosingStep(es)) \o <<Mark("turn/end")>>)
      BY <1>2 DEF Closers, rs
    <3>2. rs \o ClosingStep(es) \in Seq(EventType)
      BY <2>1, <2>3, ConcatFacts
    <3>3. f = (es \o (rs \o ClosingStep(es))) \o <<Mark("turn/end")>>
      BY <1>0, <2>3, <3>1, <3>2, ConcatAssociative
    <3>4. es \o (rs \o ClosingStep(es)) = f2
      BY <1>0, <2>1, <2>3, ConcatAssociative DEF f1
    <3> QED BY <2>3, <2>5, <3>3, <3>4, AppendIsConcat
  <2> HIDE DEF f2, f
  <2>7. /\ Shaped(f3, thrown) /\ Rounds(f3) = Rounds(f2)
        /\ Len(f3) = Len(f2) + 1 /\ f3[Len(f3)].type = "turn/end"
        /\ \A p : Ended(f2, p) => Ended(f3, p)
    <3>1. Len(f2) >= 1
      BY <1>0, <2>5
    <3> QED BY <2>5, <3>1, MarkShaped
  <2>8. Closed(f3)
    BY <2>5, <2>7 DEF Closed
  <2> HIDE DEF f3
  <2>9. Len(f3) \in Nat /\ n <= Len(f3)
    BY <1>0, <2>5, <2>7
  <2> QED BY <2>5, <2>6, <2>7, <2>8, <2>9 DEF f
<1> QED BY <1>1, <1>2

(* A call reported as never started has no start in its round. *)
LEMMA NotStarted ==
  ASSUME NEW es \in Seq(EventType), NEW q \in DOMAIN (es \o Closers(es)),
         q > Len(es), (es \o Closers(es))[q].code = "not-started"
  PROVE  Starts(es, (es \o Closers(es))[q].call) = {}
<1> DEFINE n == Len(es)
           cl == Closers(es)
           c == Cardinality(Pending(es))
           f == es \o cl
<1>0. n \in Nat /\ c \in Nat
  BY PendingFacts
<1>1. CASE ~TurnOpen(es)
  <2>1. f = es
    BY <1>1 DEF Closers
  <2>2. q \in 1..n
    BY <2>1
  <2> QED BY <1>0, <2>2
<1>2. CASE TurnOpen(es)
  <2>1. /\ cl \in Seq(EventType) /\ Len(cl) = c + Tail1(es)
        /\ \A h \in 1..c : cl[h] = ClosingResults(es)[h]
        /\ StepOpen(es) => cl[c + 1] = Mark("step/end")
        /\ cl[c + Tail1(es)] = Mark("turn/end")
    BY <1>2, ClosersFacts
  <2>2. Tail1(es) \in {1, 2} /\ (Tail1(es) = 2 => StepOpen(es))
    BY DEF Tail1
  <2> HIDE DEF cl
  <2>3. f \in Seq(EventType) /\ Len(f) = n + Len(cl)
        /\ \A h \in 1..Len(cl) : f[n + h] = cl[h]
    BY <2>1, ConcatFacts
  <2> HIDE DEF f, c
  <2>4. q \in 1..(n + (c + Tail1(es)))
    BY <1>0, <2>1, <2>2, <2>3 DEF f, cl
  <2>5. q - n \in 1..(c + Tail1(es)) /\ n + (q - n) = q
    BY <1>0, <2>2, <2>4
  <2>6. f[q] = cl[q - n] /\ f[q].code = "not-started"
    BY <2>1, <2>3, <2>5 DEF f, cl
  <2>7. q - n \in 1..c
    <3>1. Mark("turn/end").code = "none" /\ Mark("step/end").code = "none"
      BY DEF Mark, Event
    <3>2. q - n # c + Tail1(es)
      BY <2>1, <2>6, <3>1
    <3>3. ~(StepOpen(es) /\ q - n = c + 1)
      BY <2>1, <2>6, <3>1
    <3> QED BY <1>0, <2>2, <2>5, <3>2, <3>3
  <2>8. PICK i : cl[q - n] = Closing(i, StartOf(es, i))
    BY <2>1, <2>7, ClosingResultsFacts DEF c
  <2>9. StartOf(es, i) = 0 /\ f[q].call = i
    BY <2>6, <2>8, ClosingFacts
  <2> QED BY <2>9, StartFacts DEF f, cl
<1> QED BY <1>1, <1>2

-----------------------------------------------------------------------------
(* The inductive invariant *)

Lives == {"step", "request", "idle", "down", "resumed"}

(* Between two steps every round has ended; after a crash the whole log is
   durable; a resumed log is a durable prefix with its closers. *)
Phases ==
  /\ life \in Lives /\ durable >= 1
  /\ life \in {"request", "idle", "resumed"} => Closed(log)
  /\ life = "request" => log[Len(log)].type = "step/start"
  /\ life \in {"idle", "resumed"} => log[Len(log)].type = "turn/end"
  /\ life = "down" => durable = Len(log)
  /\ life = "resumed" =>
       \E d \in 0..durable :
         log = SubSeq(log, 1, d) \o Closers(SubSeq(log, 1, d))

(* The round that the scheduler works on: started calls are recorded in it,
   committed ones have their result, and at the end all have. *)
WorksAt(p) ==
  /\ OpenAt(log, p)
  /\ \A i \in Call : i <= sched.started =>
       /\ callSeq[i] \in DOMAIN log /\ callSeq[i] > p
       /\ log[callSeq[i]].type = "tool/call" /\ log[callSeq[i]].call = i
  /\ \A i \in Call : i <= sched.committed \/ sched.pc = "done" =>
       ResultIn(log, i, p, Len(log) + 1)
  /\ \A q \in DOMAIN log : q > p /\ log[q].type = "tool/result" =>
       /\ log[q].code # "not-started"
       /\ sched.pc # "done" => log[q].call \in 1..sched.committed

OpenRound == life = "step" => \E p \in Rounds(log) : WorksAt(p)

(* A checkpoint covers the record of its call. *)
Covers == \A i \in Call : stage[i] = "flushing" => callSeq[i] <= barrier[i]

(* A body that ran has a durable record in the last round. *)
RanDurable == \A i \in ran : \E q \in Starts(log, i) : q <= durable

Truthful ==
  \A q \in At("tool/result") :
    log[q].code = "not-started" /\ (\A r \in Rounds(log) : r < q)
      => log[q].call \notin ran

RecoveryInv ==
  /\ Structure /\ Shaped(log, threw)
  /\ Phases /\ OpenRound /\ Covers /\ RanDurable /\ Truthful

LEMMA InitRecovery == RecoveryInit => RecoveryInv
<1> SUFFICES ASSUME RecoveryInit PROVE RecoveryInv OBVIOUS
<1>0. Structure /\ life = "step" /\ threw = {} /\ durable = 2 /\ log = Opening
  BY InitStructure DEF RecoveryInit, Init
<1>1. /\ Opening \in Seq(EventType) /\ DOMAIN Opening = 1..3 /\ Len(Opening) = 3
      /\ Opening[1].type = "turn/start" /\ Opening[2].type = "step/start"
      /\ Opening[3].type = "assistant/message"
  BY OpeningType DEF Opening, Mark, Event
<1> HIDE DEF Opening
<1>2. Rounds(log) = {3}
  BY <1>0, <1>1 DEF Rounds
<1>3. Shaped(log, threw)
  <2>1. Covered(log) /\ Once(log) /\ Inside(log)
    BY <1>0, <1>1 DEF Covered, Once, Inside
  <2>2. Answered(log, threw)
    BY <1>0, <1>1 DEF Answered
  <2>3. Separated(log) /\ Fenced(log) /\ Opened(log)
    BY <1>0, <1>1, <1>2 DEF Separated, Fenced, Opened
  <2> QED BY <1>0, <1>1, <2>1, <2>2, <2>3 DEF Shaped
<1>4. Phases
  BY <1>0 DEF Phases, Lives
<1>5. WorksAt(3)
  <2>1. OpenAt(log, 3)
    BY <1>0, <1>1, <1>2 DEF OpenAt
  <2>2. sched.started = 0 /\ sched.committed = 0 /\ sched.pc = "group"
    BY DEF RecoveryInit, Init, Fresh
  <2>3. \A i \in Call : ~(i <= 0)
    BY CallsAssumption DEF Call
  <2> QED BY <1>0, <1>1, <2>1, <2>2, <2>3 DEF WorksAt
<1>6. Covers /\ RanDurable /\ Truthful
  BY <1>0, <1>1 DEF RecoveryInit, Init, Covers, RanDurable, Truthful, At
<1> QED BY <1>0, <1>2, <1>3, <1>4, <1>5, <1>6 DEF RecoveryInv, OpenRound

-----------------------------------------------------------------------------
(* The scheduler at work *)

LEMMA ResultGrows ==
  ASSUME NEW es \in Seq(EventType), NEW t \in Seq(EventType), Len(es) <= Len(t),
         \A p \in 1..Len(es) : t[p] = es[p], NEW i, NEW p,
         ResultIn(es, i, p, Len(es) + 1)
  PROVE  ResultIn(t, i, p, Len(t) + 1)
<1>1. /\ Len(es) \in Nat /\ DOMAIN es = 1..Len(es)
      /\ Len(t) \in Nat /\ DOMAIN t = 1..Len(t)
  BY Domains
<1>2. PICK q \in 1..Len(es) : p < q /\ Settles(es[q], i)
  BY <1>1 DEF ResultIn
<1>3. q \in DOMAIN t /\ q < Len(t) + 1 /\ Settles(t[q], i)
  BY <1>1, <1>2
<1> QED BY <1>2, <1>3 DEF ResultIn

LEMMA QuietWork ==
  ASSUME Structure, Shaped(log, threw), NEW p, WorksAt(p), Quiet
  PROVE  Shaped(log', threw) /\ WorksAt(p)' /\ Rounds(log') = Rounds(log)
<1>1. log' = log /\ callSeq' = callSeq
  BY DEF Quiet
<1>2. OpenAt(log, p)'
  BY <1>1 DEF WorksAt, OpenAt, Rounds
<1>3. \A i : ResultIn(log, i, p, Len(log) + 1)' <=> ResultIn(log, i, p, Len(log) + 1)
  BY <1>1 DEF ResultIn, Settles
<1>4. \A i \in Call : i <= sched'.committed \/ sched'.pc = "done" =>
        i <= sched.committed \/ sched.pc = "done"
  BY CallsAssumption DEF Quiet, Call
<1> QED BY <1>1, <1>2, <1>3, <1>4 DEF WorksAt, Quiet, Rounds

LEMMA StartingWork ==
  ASSUME Structure, Shaped(log, threw), NEW p, WorksAt(p), Starting
  PROVE  Shaped(log', threw) /\ WorksAt(p)' /\ Rounds(log') = Rounds(log)
<1> DEFINE c == sched.started + 1
           n == Len(log)
<1>0. /\ log \in Seq(EventType) /\ callSeq \in [Call -> Nat] /\ c \in Nat /\ c \in Call
      /\ sched.started \in Nat
  BY DEF Structure, TypeOK, Starting
<1>1. CallEvent(c) \in EventType /\ CallEvent(c).type = "tool/call" /\ CallEvent(c).call = c
  BY <1>0 DEF CallEvent, Event, EventType
<1>2. /\ log' = Append(log, CallEvent(c)) /\ callSeq' = [callSeq EXCEPT ![c] = n + 1]
      /\ sched'.started = c /\ sched'.committed = sched.committed
      /\ sched.pc # "done" /\ sched'.pc # "done"
  BY DEF Starting
<1>3. /\ n \in Nat /\ DOMAIN log = 1..n /\ DOMAIN log' = 1..(n + 1)
      /\ \A q \in 1..n : log'[q] = log[q]
      /\ log'[n + 1] = CallEvent(c) /\ log' \in Seq(EventType) /\ Len(log') = n + 1
  BY <1>0, <1>1, <1>2
<1> HIDE DEF n, c
<1>4. \A q \in DOMAIN log' : q > n => q = n + 1
  BY <1>3
<1>5. /\ Shaped(log', threw) /\ OpenAt(log', p) /\ Rounds(log') = Rounds(log)
  <2>1. OpenAt(log, p) /\ n <= Len(log')
    BY <1>3 DEF WorksAt
  <2>2. \A q \in DOMAIN log' : q > n => log'[q].type \in ToolTypes
    BY <1>1, <1>3, <1>4 DEF ToolTypes
  <2>3. \A q \in DOMAIN log' : q > n => log'[q].type # "tool/result"
    BY <1>1, <1>3, <1>4
  <2> QED BY <1>3, <2>1, <2>2, <2>3, ToolsShaped DEF n
<1>6. p \in 1..n
  BY <1>3 DEF WorksAt, OpenAt, Rounds
<1>7. ASSUME NEW i \in Call, i <= sched'.started
      PROVE  /\ callSeq'[i] \in DOMAIN log' /\ callSeq'[i] > p
             /\ log'[callSeq'[i]].type = "tool/call" /\ log'[callSeq'[i]].call = i
  <2>1. CASE i = c
    BY <1>0, <1>1, <1>2, <1>3, <1>6, <2>1
  <2>2. CASE i # c
    <3>1. i <= sched.started /\ callSeq'[i] = callSeq[i]
      BY <1>0, <1>2, <1>7, <2>2, CallsAssumption DEF c, Call
    <3>2. callSeq[i] \in 1..n /\ callSeq[i] \in 1..(n + 1)
      BY <1>3, <3>1 DEF WorksAt
    <3> QED BY <1>3, <3>1, <3>2 DEF WorksAt
  <2> QED BY <2>1, <2>2
<1>8. ASSUME NEW i \in Call, i <= sched'.committed \/ sched'.pc = "done"
      PROVE  ResultIn(log', i, p, Len(log') + 1)
  <2>1. ResultIn(log, i, p, Len(log) + 1) /\ Len(log) <= Len(log')
    BY <1>2, <1>3, <1>8 DEF WorksAt, n
  <2> QED BY <1>0, <1>3, <2>1, ResultGrows DEF n
<1>9. ASSUME NEW q \in DOMAIN log', q > p, log'[q].type = "tool/result"
      PROVE  log'[q].code # "not-started" /\ log'[q].call \in 1..sched'.committed
  <2>1. q \in 1..n
    BY <1>1, <1>3, <1>9
  <2> QED BY <1>2, <1>3, <1>9, <2>1 DEF WorksAt
<1> QED BY <1>5, <1>7, <1>8, <1>9 DEF WorksAt

LEMMA CommittingWork ==
  ASSUME Structure, Shaped(log, threw), NEW p, WorksAt(p), Committing
  PROVE  Shaped(log', threw) /\ WorksAt(p)' /\ Rounds(log') = Rounds(log)
<1> DEFINE c == sched.committed + 1
           n == Len(log)
           e == ResultEvent(c, callSeq[c], "outcome")
<1>0. /\ log \in Seq(EventType) /\ callSeq \in [Call -> Nat] /\ c \in Nat /\ c \in Call
      /\ sched.committed \in Nat
  BY DEF Structure, TypeOK, Committing
<1>1. /\ e \in EventType /\ e.type = "tool/result" /\ e.call = c /\ e.code = "outcome"
  <2>1. callSeq[c] \in Nat
    BY <1>0
  <2> HIDE DEF c
  <2> QED BY <1>0, <2>1 DEF ResultEvent, Event, EventType
<1>2. /\ log' = Append(log, e) /\ callSeq' = callSeq
      /\ sched'.started = sched.started /\ sched'.committed = c
      /\ sched.pc # "done" /\ sched'.pc # "done"
  BY DEF Committing
<1> HIDE DEF e
<1>3. /\ n \in Nat /\ DOMAIN log = 1..n /\ DOMAIN log' = 1..(n + 1)
      /\ \A q \in 1..n : log'[q] = log[q]
      /\ log'[n + 1] = e /\ log' \in Seq(EventType) /\ Len(log') = n + 1
  BY <1>0, <1>1, <1>2
<1> HIDE DEF n
<1>4. \A q \in DOMAIN log' : q > n => q = n + 1
  BY <1>3
<1>6. p \in 1..n /\ log[p].type = "assistant/message"
  BY <1>3 DEF WorksAt, OpenAt, Rounds
<1>5. /\ Shaped(log', threw) /\ OpenAt(log', p) /\ Rounds(log') = Rounds(log)
  <2>1. OpenAt(log, p) /\ n <= Len(log')
    BY <1>3 DEF WorksAt
  <2>2. \A q \in DOMAIN log' : q > n => log'[q].type \in ToolTypes
    BY <1>1, <1>3, <1>4 DEF ToolTypes
  <2>3. ASSUME NEW q1 \in DOMAIN log', NEW q2 \in DOMAIN log', q2 > n, q1 < q2,
               log'[q1].call = log'[q2].call, log'[q1].type = "tool/result"
        PROVE  q1 < p
    <3>1. q1 \in 1..n /\ log[q1].call = c /\ log[q1].type = "tool/result"
      BY <1>1, <1>3, <1>4, <2>3
    <3>2. ~(q1 > p)
      <4>1. c \notin 1..sched.committed
        BY <1>0
      <4> QED BY <1>2, <1>3, <3>1, <4>1 DEF WorksAt
    <3>3. q1 # p
      BY <1>6, <3>1
    <3> QED BY <1>3, <1>6, <3>1, <3>2, <3>3
  <2> QED BY <1>3, <2>1, <2>2, <2>3, ToolsShaped DEF n
<1>7. ASSUME NEW i \in Call, i <= sched'.started
      PROVE  /\ callSeq'[i] \in DOMAIN log' /\ callSeq'[i] > p
             /\ log'[callSeq'[i]].type = "tool/call" /\ log'[callSeq'[i]].call = i
  <2>1. callSeq[i] \in 1..n /\ callSeq[i] \in 1..(n + 1)
    BY <1>2, <1>3, <1>7 DEF WorksAt
  <2> QED BY <1>2, <1>3, <1>7, <2>1 DEF WorksAt
<1>8. ASSUME NEW i \in Call, i <= sched'.committed \/ sched'.pc = "done"
      PROVE  ResultIn(log', i, p, Len(log') + 1)
  <2>1. CASE i = c
    <3>1. n + 1 \in DOMAIN log' /\ p < n + 1 /\ n + 1 < Len(log') + 1
      BY <1>3, <1>6
    <3> QED BY <1>1, <1>3, <2>1, <3>1 DEF ResultIn, Settles
  <2>2. CASE i # c
    <3>1. i <= sched.committed
      BY <1>0, <1>2, <1>8, <2>2, CallsAssumption DEF Call
    <3>2. ResultIn(log, i, p, Len(log) + 1) /\ Len(log) <= Len(log')
      BY <1>3, <3>1 DEF WorksAt, n
    <3> QED BY <1>0, <1>3, <3>2, ResultGrows DEF n
  <2> QED BY <2>1, <2>2
<1>9. ASSUME NEW q \in DOMAIN log', q > p, log'[q].type = "tool/result"
      PROVE  log'[q].code # "not-started" /\ log'[q].call \in 1..sched'.committed
  <2>1. CASE q = n + 1
    BY <1>0, <1>1, <1>2, <1>3, <2>1
  <2>2. CASE q # n + 1
    <3>1. q \in 1..n
      BY <1>3, <2>2
    <3>2. log[q].code # "not-started" /\ log[q].call \in 1..sched.committed
      BY <1>2, <1>3, <1>9, <3>1 DEF WorksAt
    <3> QED BY <1>0, <1>2, <1>3, <3>1, <3>2
  <2> QED BY <2>1, <2>2
<1> QED BY <1>5, <1>7, <1>8, <1>9 DEF WorksAt

LEMMA EventFields ==
  ASSUME NEW i, NEW x, NEW code
  PROVE  /\ CallEvent(i).type = "tool/call"
         /\ ResultEvent(i, x, code).type = "tool/result"
         /\ ResultEvent(i, x, code).call = i
         /\ ResultEvent(i, x, code).code = code
BY DEF CallEvent, ResultEvent, Event

LEMMA SkippingWork ==
  ASSUME Structure, Shaped(log, threw), NEW p, WorksAt(p), Skipping
  PROVE  Shaped(log', threw) /\ WorksAt(p)' /\ Rounds(log') = Rounds(log)
<1> DEFINE n == Len(log)
           from == sched.started
           m == Calls - from
<1>0. /\ log \in Seq(EventType) /\ from \in 0..Calls /\ from \in Nat /\ m \in Nat
      /\ Calls \in Nat /\ Calls = from + m
  BY CallsAssumption DEF Structure, TypeOK
<1>1. /\ log' = log \o SkippedPairs(from) /\ callSeq' = callSeq
      /\ sched.pc # "done" /\ sched.committed = from
      /\ sched'.pc = "done" /\ sched'.started = from /\ sched'.committed = from
  BY DEF Skipping
<1>2. /\ n \in Nat /\ DOMAIN log = 1..n /\ DOMAIN log' = 1..(n + 2 * m)
      /\ \A q \in 1..n : log'[q] = log[q]
      /\ \A h \in 1..m :
           /\ log'[n + 2 * h - 1] = CallEvent(from + h)
           /\ log'[n + 2 * h] = ResultEvent(from + h, n + 2 * h - 1, "skipped")
  BY <1>0, <1>1, SkippedAt
<1>3. log' \in Seq(EventType) /\ Len(log') = n + 2 * m
  <2>1. SkippedPairs(from) \in Seq(EventType) /\ Len(SkippedPairs(from)) = 2 * m
    BY <1>0, SkippedTyped
  <2> HIDE DEF m
  <2> QED BY <1>0, <1>1, <2>1, ConcatFacts
<1> HIDE DEF n, from, m
<1>4. ASSUME NEW h \in 1..m
      PROVE  /\ log'[n + 2 * h - 1].type = "tool/call"
             /\ log'[n + 2 * h].type = "tool/result"
             /\ log'[n + 2 * h].call = from + h
             /\ log'[n + 2 * h].code = "skipped"
  <2>1. /\ log'[n + 2 * h - 1] = CallEvent(from + h)
        /\ log'[n + 2 * h] = ResultEvent(from + h, n + 2 * h - 1, "skipped")
    BY <1>2
  <2> QED BY <2>1, EventFields
<1>5. ASSUME NEW q \in DOMAIN log', q > n
      PROVE  \E h \in 1..m : q = n + 2 * h - 1 \/ q = n + 2 * h
  <2> DEFINE k == q - n
  <2>1. k \in 1..(2 * m) /\ q = n + k /\ k \in Nat
    <3>1. q \in 1..(n + 2 * m)
      BY <1>2
    <3>2. n \in Nat /\ m \in Nat /\ 2 * m \in Nat
      BY <1>0, <1>2
    <3> QED BY <1>5, <3>1, <3>2
  <2> HIDE DEF k
  <2>2. PICK h \in 1..m : k = 2 * h - 1 \/ k = 2 * h
    BY <1>0, <2>1, Halves
  <2>3. q = n + 2 * h - 1 \/ q = n + 2 * h
    BY <1>2, <2>1, <2>2
  <2> QED BY <2>3
<1>6. \A q \in DOMAIN log' : q > n /\ log'[q].type = "tool/result" =>
        \E h \in 1..m : q = n + 2 * h
  BY <1>4, <1>5
<1>7. p \in 1..n /\ log[p].type = "assistant/message"
  BY <1>2 DEF WorksAt, OpenAt, Rounds
<1>8. /\ Shaped(log', threw) /\ OpenAt(log', p) /\ Rounds(log') = Rounds(log)
  <2>1. OpenAt(log, p) /\ n <= Len(log')
    BY <1>0, <1>2, <1>3 DEF WorksAt
  <2>2. \A q \in DOMAIN log' : q > n => log'[q].type \in ToolTypes
    BY <1>4, <1>5 DEF ToolTypes
  <2>3. ASSUME NEW q1 \in DOMAIN log', NEW q2 \in DOMAIN log', q2 > n, q1 < q2,
               log'[q1].call = log'[q2].call,
               log'[q1].type = "tool/result", log'[q2].type = "tool/result"
        PROVE  q1 < p
    <3>1. PICK h \in 1..m : q2 = n + 2 * h
      BY <1>6, <2>3
    <3>2. CASE q1 > n
      <4>1. PICK g \in 1..m : q1 = n + 2 * g
        BY <1>6, <2>3, <3>2
      <4>2. from + g = from + h
        BY <1>4, <2>3, <3>1, <4>1
      <4>3. g = h
        BY <1>0, <4>2
      <4>4. n + 2 * h \in Nat
        BY <1>2
      <4> QED BY <2>3, <3>1, <4>1, <4>3, <4>4
    <3>3. CASE ~(q1 > n)
      <4>1. q1 \in 1..n /\ log[q1].type = "tool/result" /\ log[q1].call = from + h
        BY <1>2, <1>4, <2>3, <3>1, <3>3
      <4>2. from + h \notin 1..from
        BY <1>0
      <4>3. ~(q1 > p)
        BY <1>1, <1>2, <4>1, <4>2 DEF WorksAt
      <4>4. q1 # p
        BY <1>7, <4>1
      <4> QED BY <1>2, <1>7, <4>1, <4>3, <4>4
    <3> QED BY <3>2, <3>3
  <2> QED BY <1>2, <1>3, <2>1, <2>2, <2>3, ToolsShaped DEF n
<1>9. ASSUME NEW i \in Call, i <= sched'.started
      PROVE  /\ callSeq'[i] \in DOMAIN log' /\ callSeq'[i] > p
             /\ log'[callSeq'[i]].type = "tool/call" /\ log'[callSeq'[i]].call = i
  <2>1. /\ callSeq[i] \in DOMAIN log /\ callSeq[i] > p
        /\ log[callSeq[i]].type = "tool/call" /\ log[callSeq[i]].call = i
    BY <1>1, <1>9 DEF WorksAt, from
  <2>2. callSeq[i] \in 1..n /\ callSeq[i] \in 1..(n + 2 * m)
    BY <1>0, <1>2, <2>1
  <2> QED BY <1>1, <1>2, <2>1, <2>2
<1>10. ASSUME NEW i \in Call PROVE ResultIn(log', i, p, Len(log') + 1)
  <2>1. CASE i <= from
    <3>1. ResultIn(log, i, p, Len(log) + 1) /\ Len(log) <= Len(log')
      BY <1>0, <1>1, <1>2, <1>3, <2>1 DEF WorksAt, n
    <3> QED BY <1>0, <1>2, <1>3, <3>1, ResultGrows DEF n
  <2>2. CASE ~(i <= from)
    <3>1. PICK h \in 1..m : i = from + h
      <4>1. i - from \in 1..m /\ i = from + (i - from)
        BY <1>0, <2>2 DEF Call
      <4> QED BY <4>1
    <3>2. n + 2 * h \in DOMAIN log' /\ p < n + 2 * h /\ n + 2 * h < Len(log') + 1
      BY <1>0, <1>2, <1>3, <1>7
    <3>3. Settles(log'[n + 2 * h], i)
      BY <1>4, <3>1 DEF Settles
    <3> QED BY <3>2, <3>3 DEF ResultIn
  <2> QED BY <2>1, <2>2
<1>11. ASSUME NEW q \in DOMAIN log', q > p, log'[q].type = "tool/result"
       PROVE  log'[q].code # "not-started"
  <2>1. CASE q > n
    BY <1>4, <1>6, <1>11, <2>1
  <2>2. CASE ~(q > n)
    <3>1. q \in 1..n
      BY <1>2, <2>2
    <3> QED BY <1>2, <1>11, <3>1 DEF WorksAt
  <2> QED BY <2>1, <2>2
<1> QED BY <1>1, <1>8, <1>9, <1>10, <1>11 DEF WorksAt

(* The log only grows, and what is durable stays. *)
LEMMA LogGrows ==
  ASSUME Structure, [Next]_vars
  PROVE  /\ Len(log) \in Nat /\ Len(log) <= Len(log')
         /\ \A q \in 1..Len(log) : log'[q] = log[q]
<1>0. log \in Seq(EventType) /\ Len(log) \in Nat /\ callSeq \in [Call -> Nat]
  BY DEF Structure, TypeOK
<1>1. CASE Quiet
  BY <1>0, <1>1 DEF Quiet
<1>2. CASE Starting \/ Committing
  <2>1. PICK e : log' = Append(log, e)
    BY <1>2 DEF Starting, Committing
  <2> QED BY <1>0, <2>1
<1>3. CASE Skipping
  <2> DEFINE s == SkippedPairs(sched.started)
  <2>1. s \in Seq(EventType)
    BY <1>0, SkippedTyped DEF Structure, TypeOK
  <2> HIDE DEF s
  <2>2. log' = log \o s
    BY <1>3 DEF Skipping, s
  <2> QED BY <1>0, <2>1, <2>2, ConcatFacts, Domains
<1> QED BY <1>1, <1>2, <1>3, StepKinds

LEMMA DurableGrows ==
  ASSUME Structure, [Next]_vars
  PROVE  durable' \in Nat /\ durable' >= durable
<1>1. durable \in Nat /\ Len(log) \in Nat
  BY DEF Structure, TypeOK
<1>2. CASE Persist
  BY <1>1, <1>2 DEF Persist
<1>3. CASE durable' = durable
  BY <1>1, <1>3
<1>4. Persist \/ durable' = durable
  BY DEF Next, vars, Scheduler, EnterGroup, Prepared, Commit, Finalized,
     RuntimeThrows, Fill, Race, Drain, Tool, InvokeBody, Reject, Settle,
     Environment, Abort, Reclassify
<1> QED BY <1>2, <1>3, <1>4

(* A body runs when what its checkpoint covers is durable. *)
LEMMA RunsFlushed ==
  ASSUME Structure, [Next]_vars
  PROVE  \/ ran' = ran
         \/ \E i \in Call : Flushed(i) /\ ran' = ran \cup {i} /\ log' = log
<1>1. CASE Scheduler
  <2>1. ran' = ran
    BY <1>1 DEF Scheduler, EnterGroup, Prepared, Commit, Finalized, RuntimeThrows,
       Fill, Race, Drain, StartCall, SkipRest, CommitResult, EndGroup, toolVars
  <2> QED BY <2>1
<1>2. CASE \E i \in Call : Tool(i)
  BY <1>2 DEF Tool, InvokeBody, Reject, Settle
<1>3. CASE Environment
  BY <1>3 DEF Environment, Abort, Persist, Reclassify, toolVars
<1>4. CASE UNCHANGED vars
  BY <1>4 DEF vars
<1> QED BY <1>1, <1>2, <1>3, <1>4 DEF Next

(* A checkpoint begins when the call has been recorded. *)
LEMMA KeepsCovered ==
  ASSUME Structure, NEW p, WorksAt(p), Covers, [Next]_vars
  PROVE  Covers'
<1>0. /\ log \in Seq(EventType) /\ Len(log) \in Nat /\ DOMAIN log = 1..Len(log)
      /\ stage \in [Call -> Stage] /\ barrier \in [Call -> Nat]
      /\ callSeq \in [Call -> Nat] /\ sched \in Locals
  BY DEF Structure, TypeOK
<1> SUFFICES ASSUME NEW i \in Call, stage'[i] = "flushing"
             PROVE  callSeq'[i] <= barrier'[i]
  BY DEF Covers
<1>1. CASE stage[i] = "flushing" /\ callSeq'[i] = callSeq[i] /\ barrier'[i] = barrier[i]
  BY <1>1 DEF Covers
<1>2. CASE UNCHANGED <<stage, callSeq, barrier>>
  BY <1>2 DEF Covers
<1>3. ASSUME NEW locals, StartCall(sched.started + 1, locals)
      PROVE  stage[i] = "flushing" /\ callSeq'[i] = callSeq[i] /\ barrier'[i] = barrier[i]
  BY <1>0, <1>3 DEF StartCall
<1>4. ASSUME NEW locals, SkipRest(locals)
      PROVE  stage[i] = "flushing" /\ callSeq'[i] = callSeq[i] /\ barrier'[i] = barrier[i]
  BY <1>0, <1>4 DEF SkipRest
<1>5. ASSUME NEW c, CommitResult(c)
      PROVE  stage[i] = "flushing" /\ barrier'[i] = barrier[i]
  BY <1>0, <1>5 DEF CommitResult
<1>6. CASE EnterGroup
  BY <1>1, <1>3, <1>4, <1>6 DEF EnterGroup
<1>7. CASE Prepared
  <2>1. CASE stage' = [stage EXCEPT ![sched.started] = "flushing"]
             /\ barrier' = [barrier EXCEPT ![sched.started] = Len(log)]
             /\ callSeq' = callSeq
    <3>1. CASE i = sched.started
      <4>1. sched.started <= sched.started
        BY <1>0 DEF Locals
      <4>2. callSeq[i] \in 1..Len(log)
        BY <1>0, <3>1, <4>1 DEF WorksAt
      <4> QED BY <1>0, <2>1, <3>1, <4>2
    <3>2. CASE i # sched.started
      BY <1>0, <1>1, <2>1, <3>2
    <3> QED BY <3>1, <3>2
  <2>2. CASE \E slot \in Slots : /\ stage' = [stage EXCEPT ![sched.started] = slot]
                                 /\ barrier' = barrier /\ callSeq' = callSeq
    BY <1>0, <1>1, <2>2 DEF Slots
  <2>3. CASE UNCHANGED <<stage, callSeq, barrier>>
    BY <1>2, <2>3
  <2> QED BY <1>7, <2>1, <2>2, <2>3 DEF Prepared, toolVars
<1>8. CASE Commit \/ Finalized
  BY <1>1, <1>2, <1>5, <1>8 DEF Commit, Finalized, toolVars
<1>9. CASE RuntimeThrows \/ Race \/ Drain
  BY <1>2, <1>9 DEF RuntimeThrows, Race, Drain, toolVars
<1>10. CASE Fill
  BY <1>1, <1>2, <1>3, <1>4, <1>10 DEF Fill, EndGroup, toolVars
<1>11. CASE \E j \in Call : Tool(j)
  <2>1. PICK j \in Call, after \in Stage \ {"flushing"} :
          stage' = [stage EXCEPT ![j] = after] /\ UNCHANGED <<callSeq, barrier>>
    BY <1>11 DEF Tool, InvokeBody, Reject, Settle, Stage, Slots
  <2> QED BY <1>0, <1>1, <2>1
<1>12. CASE Environment \/ UNCHANGED vars
  BY <1>2, <1>12 DEF Environment, Abort, Persist, Reclassify, toolVars, vars
<1> QED BY <1>6, <1>7, <1>8, <1>9, <1>10, <1>11, <1>12 DEF Next, Scheduler

LEMMA WorkStep ==
  ASSUME RecoveryInv, life = "step", [Next]_vars, UNCHANGED processVars
  PROVE  RecoveryInv'
<1>0. /\ life' = "step" /\ threw' = threw /\ Structure'
      /\ log \in Seq(EventType) /\ Len(log) \in Nat /\ DOMAIN log = 1..Len(log)
  BY NextStructure DEF processVars, RecoveryInv, Structure, TypeOK
<1>1. PICK p \in Rounds(log) : WorksAt(p)
  BY DEF RecoveryInv, OpenRound
<1>2. Shaped(log', threw) /\ WorksAt(p)' /\ Rounds(log') = Rounds(log)
  BY <1>1, StepKinds, QuietWork, StartingWork, CommittingWork, SkippingWork
  DEF RecoveryInv
<1>3. /\ durable' \in Nat /\ durable' >= durable /\ durable \in Nat
      /\ Len(log) <= Len(log') /\ \A q \in 1..Len(log) : log'[q] = log[q]
  BY LogGrows, DurableGrows DEF RecoveryInv, Structure, TypeOK
<1>4. log' \in Seq(EventType) /\ Len(log') \in Nat /\ DOMAIN log' = 1..Len(log')
  BY <1>2, Domains DEF Shaped
<1>5. Phases'
  BY <1>0, <1>3 DEF RecoveryInv, Phases, Lives
<1>6. OpenRound'
  BY <1>1, <1>2 DEF OpenRound
<1>7. Covers'
  BY <1>1, KeepsCovered DEF RecoveryInv
<1>8. \A r \in Rounds(log) : r \in 1..Len(log) /\ r <= p
  BY <1>0, <1>1, OpenIsLast DEF WorksAt
<1>9. RanDurable'
  <2>1. ASSUME NEW i, NEW q \in Starts(log, i), q <= durable
        PROVE  q \in Starts(log', i) /\ q <= durable'
    <3>1. q \in 1..Len(log) /\ q \in 1..Len(log')
      BY <1>0, <1>3, <1>4 DEF Starts
    <3>2. q <= durable'
      BY <1>3, <2>1, <3>1
    <3> QED BY <1>2, <1>3, <1>4, <3>1, <3>2 DEF Starts
  <2>2. CASE ran' = ran
    <3> SUFFICES ASSUME NEW i \in ran PROVE \E q \in Starts(log', i) : q <= durable'
      BY <2>2 DEF RanDurable
    <3>1. PICK q \in Starts(log, i) : q <= durable
      BY DEF RecoveryInv, RanDurable
    <3> QED BY <2>1, <3>1
  <2>3. CASE \E i \in Call : Flushed(i) /\ ran' = ran \cup {i} /\ log' = log
    <3>1. PICK i \in Call : Flushed(i) /\ ran' = ran \cup {i} /\ log' = log
      BY <2>3
    <3>2. stage[i] = "flushing" /\ durable >= barrier[i]
      BY <3>1 DEF Flushed
    <3>3. i <= sched.started
      <4>1. sched.started \in Nat /\ i \in Nat
        BY CallsAssumption DEF RecoveryInv, Structure, TypeOK, Call
      <4>2. ~(i > sched.started)
        BY <3>2 DEF RecoveryInv, Structure, Stages
      <4> QED BY <4>1, <4>2
    <3>4. /\ callSeq[i] \in 1..Len(log) /\ callSeq[i] > p
          /\ log[callSeq[i]].type = "tool/call" /\ log[callSeq[i]].call = i
      BY <1>0, <1>1, <3>3 DEF WorksAt
    <3>5. \A r \in Rounds(log) : r < callSeq[i]
      BY <1>0, <1>1, <1>8, <3>4
    <3>6. callSeq[i] \in Starts(log, i)
      BY <1>0, <3>4, <3>5 DEF Starts
    <3>7. callSeq[i] <= durable
      <4>1. callSeq[i] <= barrier[i] /\ barrier[i] \in Nat
        BY <3>2 DEF RecoveryInv, Covers, Structure, TypeOK
      <4> QED BY <1>3, <3>2, <3>4, <4>1
    <3>8. ASSUME NEW j \in ran' PROVE \E q \in Starts(log', j) : q <= durable'
      <4>1. CASE j = i
        BY <2>1, <3>6, <3>7, <4>1
      <4>2. CASE j \in ran
        <5>1. PICK q \in Starts(log, j) : q <= durable
          BY <4>2 DEF RecoveryInv, RanDurable
        <5> QED BY <2>1, <5>1
      <4> QED BY <3>1, <4>1, <4>2
    <3> QED BY <3>8 DEF RanDurable
  <2> QED BY <2>2, <2>3, RunsFlushed DEF RecoveryInv
<1>10. Truthful'
  <2> SUFFICES ASSUME NEW q \in DOMAIN log', log'[q].type = "tool/result",
                      log'[q].code = "not-started", \A r \in Rounds(log') : r < q
               PROVE  FALSE
    BY DEF Truthful, At
  <2>1. p < q /\ q > p
    BY <1>1, <1>2, <1>4, <1>8
  <2> QED BY <1>2, <2>1 DEF WorksAt
<1> QED BY <1>0, <1>2, <1>5, <1>6, <1>7, <1>9, <1>10 DEF RecoveryInv

-----------------------------------------------------------------------------
(* Between the steps *)

LEMMA StructureKept ==
  ASSUME Structure, UNCHANGED <<registry, signal, sched, toolVars, callSeq, class>>,
         log' \in Seq(EventType), durable' \in 0..Len(log')
  PROVE  Structure'
<1> USE DEF toolVars
<1>1. TypeOK'
  BY DEF Structure, TypeOK
<1>2. Cursors' /\ Stages' /\ Raced' /\ Classes' /\ Pool'
  BY DEF Structure, Cursors, Stages, Raced, Classes, Pool, Inner
<1> QED BY <1>1, <1>2 DEF Structure

LEMMA StructureForgotten ==
  ASSUME Structure, Forget, registry' = registry, ran' \in SUBSET Call,
         sched' = Fresh \/ sched' = [Fresh EXCEPT !.pc = "done"],
         log' \in Seq(EventType), durable' \in 0..Len(log')
  PROVE  Structure'
<1> USE CallsAssumption, MaxParallelAssumption DEF Call
<1>1. /\ sched'.pc \in {"group", "done"} /\ sched'.last = 0 /\ sched'.started = 0
      /\ sched'.committed = 0 /\ ~sched'.failed /\ sched' \in Locals
  <2>1. CASE sched' = Fresh
    BY <2>1 DEF Fresh, Locals, Pc, Exits, Mode
  <2>2. CASE sched' = [Fresh EXCEPT !.pc = "done"]
    <3>1. sched' = [pc |-> "done", kind |-> "parallel", last |-> 0, started |-> 0,
                    committed |-> 0, aborted |-> FALSE, failed |-> FALSE]
      BY <2>2 DEF Fresh
    <3> QED BY <3>1 DEF Locals, Pc, Exits, Mode
  <2> QED BY <2>1, <2>2
<1>2. /\ stage' \in [Call -> Stage] /\ callSeq' \in [Call -> Nat]
      /\ barrier' \in [Call -> Nat] /\ class' \in [Call -> Mode]
      /\ inFlight' = {} /\ signal' = FALSE
      /\ \A i \in Call : stage'[i] = "planned"
  BY DEF Forget, Stage, Mode
<1>3. TypeOK'
  <2>1. sched'.started \in 0..Calls /\ sched'.committed \in 0..sched'.started
    BY <1>1
  <2>2. registry' \in [Call -> Mode]
    BY DEF Structure, TypeOK
  <2> QED BY <1>1, <1>2, <2>1, <2>2 DEF TypeOK
<1>4. Cursors' /\ Raced' /\ Classes'
  BY <1>1, <1>2 DEF Cursors, Raced, Classes, Inner
<1>5. Stages'
  BY <1>1, <1>2 DEF Stages, Running
<1>6. Pool'
  BY <1>1, <1>2, FS_EmptySet DEF Pool
<1> QED BY <1>3, <1>4, <1>5, <1>6 DEF Structure

(* What the histories say about the last round stays true when the log grows
   in that round. *)
LEMMA HistoriesKept ==
  ASSUME log \in Seq(EventType), log' \in Seq(EventType), Len(log) <= Len(log'),
         \A q \in 1..Len(log) : log'[q] = log[q],
         Rounds(log') = Rounds(log), ran' = ran, durable' = durable,
         \A q \in DOMAIN log' :
           q > Len(log) /\ log'[q].type = "tool/result" /\ log'[q].code = "not-started"
             => log'[q].call \notin ran,
         RanDurable, Truthful
  PROVE  RanDurable' /\ Truthful'
<1>0. /\ Len(log) \in Nat /\ DOMAIN log = 1..Len(log)
      /\ Len(log') \in Nat /\ DOMAIN log' = 1..Len(log')
  BY Domains
<1>1. RanDurable'
  <2> SUFFICES ASSUME NEW i \in ran PROVE \E q \in Starts(log', i) : q <= durable
    BY DEF RanDurable
  <2>1. PICK q \in Starts(log, i) : q <= durable
    BY DEF RanDurable
  <2>2. q \in 1..Len(log) /\ q \in 1..Len(log')
    BY <1>0 DEF Starts
  <2>3. q \in Starts(log', i)
    BY <1>0, <2>2 DEF Starts
  <2> QED BY <2>1, <2>3
<1>2. Truthful'
  <2> SUFFICES ASSUME NEW q \in DOMAIN log', log'[q].type = "tool/result",
                      log'[q].code = "not-started", \A r \in Rounds(log) : r < q
               PROVE  log'[q].call \notin ran
    BY DEF Truthful, At
  <2>1. CASE q > Len(log)
    BY <2>1
  <2>2. CASE ~(q > Len(log))
    <3>1. q \in 1..Len(log)
      BY <1>0, <2>2
    <3>2. q \in At("tool/result") /\ log[q].code = "not-started"
      BY <1>0, <3>1 DEF At
    <3> QED BY <3>1, <3>2 DEF Truthful
  <2> QED BY <2>1, <2>2
<1> QED BY <1>1, <1>2

LEMMA WriteStep ==
  ASSUME RecoveryInv, life \in {"request", "idle", "resumed"}, Persist,
         UNCHANGED processVars
  PROVE  RecoveryInv'
<1>0. /\ log' = log /\ life' = life /\ threw' = threw /\ ran' = ran
      /\ stage' = stage /\ barrier' = barrier /\ callSeq' = callSeq
  BY DEF Persist, toolVars, processVars
<1>1. Structure'
  BY PersistStep DEF RecoveryInv
<1>2. durable \in Nat /\ durable' \in Nat /\ durable' > durable
  BY DEF RecoveryInv, Structure, TypeOK, Persist
<1>3. Phases'
  <2>1. \A d : d \in 0..durable => d \in 0..durable'
    BY <1>2
  <2>2. durable' >= 1 /\ life # "down"
    BY <1>2 DEF RecoveryInv, Phases
  <2> QED BY <1>0, <2>1, <2>2 DEF RecoveryInv, Phases
<1>4. OpenRound' /\ Covers'
  BY <1>0 DEF RecoveryInv, OpenRound, Covers
<1>5. RanDurable'
  <2> SUFFICES ASSUME NEW i \in ran PROVE \E q \in Starts(log, i) : q <= durable'
    BY <1>0 DEF RanDurable
  <2>1. PICK q \in Starts(log, i) : q <= durable
    BY DEF RecoveryInv, RanDurable
  <2>2. q \in Nat
    BY Domains DEF Starts, RecoveryInv, Shaped
  <2> QED BY <1>2, <2>1, <2>2
<1>6. Truthful'
  BY <1>0 DEF RecoveryInv, Truthful, At
<1> QED BY <1>0, <1>1, <1>3, <1>4, <1>5, <1>6 DEF RecoveryInv

LEMMA AnswerStep ==
  ASSUME RecoveryInv, Answer
  PROVE  RecoveryInv'
<1>a. PICK n \in Nat : n = Len(log)
  BY DEF RecoveryInv, Structure, TypeOK
<1>0. /\ log \in Seq(EventType) /\ durable \in 0..n /\ durable >= 1
      /\ Shaped(log, threw) /\ Closed(log) /\ log[n].type = "step/start"
  BY <1>a DEF RecoveryInv, Structure, TypeOK, Answer, Phases
<1>1. /\ log' = Append(log, Mark("assistant/message")) /\ life' = "step"
      /\ threw' = threw /\ durable' = durable /\ ran' = {} /\ sched' = Fresh
      /\ Forget /\ registry' = registry
  BY DEF Answer
<1>2. /\ Shaped(log', threw) /\ Len(log') = n + 1 /\ OpenAt(log', n + 1)
  <2>1. Len(log) >= 1 /\ log[Len(log)].type = "step/start"
    BY <1>a, <1>0
  <2> DEFINE type == "assistant/message"
  <2>2. /\ type \in {"turn/start", "turn/end", "step/start", "step/end",
                     "assistant/message"}
        /\ type # "step/end"
    OBVIOUS
  <2>3. log' = Append(log, Mark(type))
    BY <1>1
  <2> QED BY <1>a, <1>0, <2>1, <2>2, <2>3, MarkShaped
<1>3. log' \in Seq(EventType) /\ DOMAIN log' = 1..(n + 1)
  BY <1>2, Domains DEF Shaped
<1>4. Structure'
  <2>1. durable' \in 0..Len(log') /\ ran' \in SUBSET Call
    BY <1>0, <1>1, <1>2
  <2> QED BY <1>1, <1>3, <2>1, StructureForgotten DEF RecoveryInv
<1>5. WorksAt(n + 1)' /\ n + 1 \in Rounds(log')
  <2>1. sched'.started = 0 /\ sched'.committed = 0 /\ sched'.pc = "group"
    BY <1>1 DEF Fresh
  <2>2. \A i \in Call : ~(i <= 0)
    BY CallsAssumption DEF Call
  <2>3. \A q \in DOMAIN log' : ~(q > n + 1)
    BY <1>a, <1>3
  <2>4. n + 1 \in Rounds(log')
    BY <1>2 DEF OpenAt
  <2> QED BY <1>2, <2>1, <2>2, <2>3, <2>4 DEF WorksAt
<1>6. Phases'
  BY <1>0, <1>1 DEF Phases, Lives
<1>7. OpenRound' /\ RanDurable' /\ Truthful'
  BY <1>1, <1>5 DEF OpenRound, RanDurable, Truthful
<1>8. Covers'
  BY <1>1 DEF Covers, Forget
<1> QED BY <1>1, <1>2, <1>4, <1>6, <1>7, <1>8 DEF RecoveryInv

LEMMA CrashStep ==
  ASSUME RecoveryInv, Crash
  PROVE  RecoveryInv'
<1>0. /\ log \in Seq(EventType) /\ Len(log) \in Nat /\ DOMAIN log = 1..Len(log)
      /\ durable \in 0..Len(log) /\ durable >= 1 /\ durable \in Nat
      /\ Shaped(log, threw)
  BY DEF RecoveryInv, Structure, TypeOK, Phases
<1>1. /\ log' = SubSeq(log, 1, durable) /\ life' = "down" /\ durable' = durable
      /\ threw' = threw \cap 1..durable /\ ran' = ran /\ registry' = registry
      /\ sched' = [Fresh EXCEPT !.pc = "done"] /\ Forget
  BY DEF Crash
<1>2. Shaped(log', threw')
  BY <1>0, <1>1, PrefixShaped
<1>3. /\ log' \in Seq(EventType) /\ Len(log') = durable /\ DOMAIN log' = 1..durable
      /\ \A q \in 1..durable : log'[q] = log[q]
  BY <1>0, <1>1, PrefixFacts
<1>4. Structure'
  <2>1. durable' \in 0..Len(log') /\ ran' \in SUBSET Call
    BY <1>0, <1>1, <1>3 DEF RecoveryInv, Structure, TypeOK
  <2> QED BY <1>1, <1>3, <2>1, StructureForgotten DEF RecoveryInv
<1>5. Phases' /\ OpenRound' /\ Covers'
  BY <1>0, <1>1, <1>3 DEF Phases, Lives, OpenRound, Covers, Forget
<1>6. \A r : r \in Rounds(log') <=> r \in Rounds(log) /\ r <= durable
  BY <1>0, <1>3 DEF Rounds
<1>7. RanDurable'
  <2> SUFFICES ASSUME NEW i \in ran PROVE \E q \in Starts(log', i) : q <= durable
    BY <1>1 DEF RanDurable
  <2>1. PICK q \in Starts(log, i) : q <= durable
    BY DEF RecoveryInv, RanDurable
  <2>2. q \in 1..durable
    BY <1>0, <2>1 DEF Starts
  <2>3. q \in Starts(log', i)
    BY <1>3, <1>6, <2>2 DEF Starts
  <2> QED BY <2>1, <2>3
(* If the last round is lost nothing of it ran. *)
<1>8. Truthful'
  <2> SUFFICES ASSUME NEW q \in 1..durable, log[q].type = "tool/result",
                      log[q].code = "not-started", \A r \in Rounds(log') : r < q,
                      log[q].call \in ran
               PROVE  FALSE
    BY <1>1, <1>3 DEF Truthful, At
  <2>1. PICK x \in Starts(log, log[q].call) : x <= durable
    BY DEF RecoveryInv, RanDurable
  <2>2. ASSUME NEW r \in Rounds(log) PROVE r < q
    <3>1. r \in Nat /\ x \in Nat /\ r < x
      BY <1>0 DEF Starts, Rounds
    <3>2. r <= durable
      BY <1>0, <2>1, <3>1
    <3> QED BY <1>6, <3>2
  <2>3. q \in At("tool/result")
    BY <1>0 DEF At
  <2> QED BY <2>2, <2>3 DEF RecoveryInv, Truthful
<1> QED BY <1>2, <1>4, <1>5, <1>7, <1>8 DEF RecoveryInv

LEMMA ResumeStep ==
  ASSUME RecoveryInv, Resume
  PROVE  RecoveryInv'
<1>0. /\ log \in Seq(EventType) /\ Len(log) \in Nat /\ DOMAIN log = 1..Len(log)
      /\ durable = Len(log) /\ Len(log) >= 1 /\ Shaped(log, threw)
  BY DEF RecoveryInv, Structure, TypeOK, Phases, Resume
<1>1. /\ log' = log \o Closers(log) /\ life' = "resumed" /\ durable' = durable
      /\ threw' = threw /\ ran' = ran
      /\ UNCHANGED <<registry, signal, sched, toolVars, callSeq, class>>
  BY DEF Resume, toolVars
<1>2. /\ Shaped(log', threw) /\ Closed(log') /\ Rounds(log') = Rounds(log)
      /\ Len(log') \in Nat /\ Len(log) <= Len(log')
      /\ log'[Len(log')].type = "turn/end"
  BY <1>0, <1>1, RepairedShape
<1>3. log' \in Seq(EventType)
  BY <1>2 DEF Shaped
<1>4. Closers(log) \in Seq(EventType)
  <2>1. CASE TurnOpen(log)
    BY <1>0, <2>1, ClosersFacts
  <2>2. CASE ~TurnOpen(log)
    BY <2>2 DEF Closers
  <2> QED BY <2>1, <2>2
<1>5. SubSeq(log', 1, durable) = log /\ \A q \in 1..Len(log) : log'[q] = log[q]
  <2>1. \A q \in 1..Len(log) : log'[q] = log[q]
    BY <1>0, <1>1, <1>4, ConcatFacts
  <2>2. /\ SubSeq(log', 1, durable) \in Seq(EventType)
        /\ Len(SubSeq(log', 1, durable)) = durable
        /\ \A q \in 1..durable : SubSeq(log', 1, durable)[q] = log'[q]
    <3>1. durable \in 0..Len(log')
      BY <1>0, <1>2
    <3> QED BY <1>3, <3>1, PrefixFacts
  <2> QED BY <1>0, <2>1, <2>2, SeqEqual
<1>6. Structure'
  <2>1. durable' \in 0..Len(log')
    BY <1>0, <1>1, <1>2
  <2> QED BY <1>1, <1>3, <2>1, StructureKept DEF RecoveryInv
<1>7. Phases'
  <2>1. durable \in 0..durable /\ durable >= 1
    BY <1>0
  <2>2. log' = SubSeq(log', 1, durable) \o Closers(SubSeq(log', 1, durable))
    BY <1>1, <1>5
  <2> QED BY <1>1, <1>2, <2>1, <2>2 DEF Phases, Lives
<1>8. OpenRound' /\ Covers'
  BY <1>1 DEF RecoveryInv, OpenRound, Covers, toolVars
<1>9. RanDurable' /\ Truthful'
  <2>1. ASSUME NEW q \in DOMAIN log', q > Len(log),
               log'[q].code = "not-started", log'[q].call \in ran
        PROVE  FALSE
    <3>1. Starts(log, log'[q].call) = {}
      BY <1>0, <1>1, <2>1, NotStarted
    <3> QED BY <2>1, <3>1 DEF RecoveryInv, RanDurable
  <2> QED BY <1>0, <1>1, <1>2, <1>3, <1>5, <2>1, HistoriesKept DEF RecoveryInv
<1> QED BY <1>1, <1>2, <1>6, <1>7, <1>8, <1>9 DEF RecoveryInv

(* A log that grows by boundaries after its last round has ended. *)
Follows(es, thrown, t) ==
  /\ Shaped(t, thrown) /\ Closed(t) /\ Rounds(t) = Rounds(es)
  /\ Len(es) <= Len(t) /\ Len(t) >= 1
  /\ \A q \in 1..Len(es) : t[q] = es[q]
  /\ \A q \in DOMAIN t : q > Len(es) => t[q].type # "tool/result"

LEMMA MarkFollows ==
  ASSUME NEW es \in Seq(EventType), NEW thrown, NEW t, Follows(es, thrown, t),
         NEW type \in {"turn/start", "turn/end", "step/start"},
         type = "step/start" => t[Len(t)].type # "turn/end"
  PROVE  LET u == Append(t, Mark(type))
         IN  Follows(es, thrown, u) /\ u[Len(u)].type = type
<1> DEFINE u == Append(t, Mark(type))
<1>0. /\ Len(es) \in Nat /\ Len(t) \in Nat /\ DOMAIN t = 1..Len(t)
      /\ Len(es) <= Len(t)
  BY Domains DEF Follows, Shaped
<1>1. /\ Shaped(u, thrown) /\ Len(u) = Len(t) + 1 /\ u[Len(u)].type = type
      /\ \A q \in 1..Len(t) : u[q] = t[q]
      /\ \A q : Ended(t, q) => Ended(u, q)
      /\ Rounds(u) = Rounds(t)
  <2>1. /\ type \in {"turn/start", "turn/end", "step/start", "step/end",
                      "assistant/message"}
        /\ type # "step/end" /\ type # "assistant/message"
        /\ Shaped(t, thrown) /\ Len(t) >= 1 /\ Closed(t)
        /\ type \notin {"turn/start", "turn/end"} => t[Len(t)].type # "turn/end"
    BY DEF Follows
  <2> QED BY <2>1, MarkShaped
<1>2. DOMAIN u = 1..(Len(t) + 1)
  BY <1>1, Domains DEF Shaped
<1> HIDE DEF u
<1>3. \A q \in DOMAIN u : q > Len(es) => u[q].type # "tool/result"
  <2> SUFFICES ASSUME NEW q \in 1..(Len(t) + 1), q > Len(es)
               PROVE  u[q].type # "tool/result"
    BY <1>2
  <2>1. CASE q = Len(t) + 1
    BY <1>1, <2>1
  <2>2. CASE q \in 1..Len(t)
    BY <1>0, <1>1, <2>2 DEF Follows
  <2> QED BY <1>0, <2>1, <2>2
<1>4. Closed(u) /\ Rounds(u) = Rounds(es)
  BY <1>1 DEF Closed, Follows
<1>5. \A q \in 1..Len(es) : u[q] = es[q]
  BY <1>0, <1>1 DEF Follows
<1> QED BY <1>0, <1>1, <1>3, <1>4, <1>5 DEF Follows, u

(* The end of a step whose calls are answered, or whose scheduler threw. *)
LEMMA StepEnds ==
  ASSUME NEW es, NEW thrown, Shaped(es, thrown), NEW p, OpenAt(es, p),
         NEW also, also \subseteq Nat, thrown \subseteq also,
         Len(es) + 1 \in also \/ \A i \in Call : ResultIn(es, i, p, Len(es) + 1)
  PROVE  LET t == Append(es, Mark("step/end"))
         IN  Follows(es, also, t) /\ t[Len(t)].type = "step/end"
<1> DEFINE t == Append(es, Mark("step/end"))
<1>0. /\ es \in Seq(EventType) /\ Len(es) \in Nat /\ DOMAIN es = 1..Len(es)
      /\ p \in 1..Len(es) /\ \A r \in Rounds(es) : r \in 1..Len(es) /\ r <= p
  BY Domains, OpenIsLast DEF Shaped
<1>2. Shaped(es, also)
  BY DEF Shaped, Answered
<1>3. es[Len(es)].type # "turn/end" /\ Len(es) >= 1
  <2>0. ASSUME NEW n \in Nat, p \in 1..n
        PROVE  n >= 1 /\ n \in 1..n /\ (n = p \/ n > p)
    BY <2>0
  <2>1. Len(es) >= 1 /\ Len(es) \in 1..Len(es) /\ (Len(es) = p \/ Len(es) > p)
    BY <1>0, <2>0
  <2>2. es[Len(es)].type \in ToolTypes \cup {"assistant/message"}
    BY <1>0, <2>1 DEF OpenAt, Rounds
  <2> QED BY <2>1, <2>2 DEF ToolTypes
<1>4. ASSUME NEW r \in Rounds(es), \A s \in Rounds(es) : s <= r
      PROVE  \/ \E x \in also : r < x /\ x <= Len(es) + 1
             \/ \A i \in Call : ResultIn(es, i, r, Len(es) + 1)
  <2>1. r = p
    BY <1>0, <1>4 DEF OpenAt
  <2>2. CASE Len(es) + 1 \in also
    <3>1. r < Len(es) + 1 /\ Len(es) + 1 <= Len(es) + 1
      BY <1>0, <2>1
    <3> QED BY <2>2, <3>1
  <2> QED BY <2>1, <2>2
<1>5. /\ Shaped(t, also) /\ Len(t) = Len(es) + 1 /\ t[Len(t)].type = "step/end"
      /\ \A q \in 1..Len(es) : t[q] = es[q]
      /\ Rounds(t) = Rounds(es) /\ Closed(t)
  <2> DEFINE type == "step/end"
  <2>1. /\ type \in {"turn/start", "turn/end", "step/start", "step/end",
                      "assistant/message"}
        /\ type = "step/end" /\ type # "assistant/message"
    OBVIOUS
  <2>2. t = Append(es, Mark(type))
    OBVIOUS
  <2>3. type = "step/end" =>
          \A r \in Rounds(es) : (\A s \in Rounds(es) : s <= r) =>
            \/ \E x \in also : r < x /\ x <= Len(es) + 1
            \/ \A i \in Call : ResultIn(es, i, r, Len(es) + 1)
    BY <1>4
  <2> HIDE DEF t, type
  <2> QED BY <1>2, <1>3, <2>1, <2>2, <2>3, MarkShaped
<1>6. DOMAIN t = 1..(Len(es) + 1)
  BY <1>5, Domains DEF Shaped
<1> HIDE DEF t
<1>7. \A q \in DOMAIN t : q > Len(es) => t[q].type # "tool/result"
  <2> SUFFICES ASSUME NEW q \in 1..(Len(es) + 1), q > Len(es)
               PROVE  t[q].type # "tool/result"
    BY <1>6
  <2>1. q = Len(t)
    BY <1>0, <1>5
  <2> QED BY <1>5, <2>1
<1> QED BY <1>0, <1>5, <1>7 DEF Follows, t

(* Between two steps the invariant follows from the log, with its last event. *)
LEMMA BetweenSteps ==
  ASSUME RecoveryInv, Follows(log, threw', log'), life' \in {"request", "idle"},
         log'[Len(log')].type = IF life' = "request" THEN "step/start" ELSE "turn/end",
         UNCHANGED <<registry, signal, sched, toolVars, callSeq, durable, class>>
  PROVE  RecoveryInv'
<1>0. /\ log \in Seq(EventType) /\ durable \in 0..Len(log) /\ Len(log) \in Nat
      /\ log' \in Seq(EventType) /\ Len(log') \in Nat /\ Len(log) <= Len(log')
      /\ DOMAIN log' = 1..Len(log')
  BY Domains DEF RecoveryInv, Structure, TypeOK, Follows, Shaped
<1>1. Structure'
  <2>1. durable' \in 0..Len(log')
    BY <1>0
  <2> QED BY <1>0, <2>1, StructureKept DEF RecoveryInv
<1>2. Shaped(log', threw') /\ Closed(log')
  BY DEF Follows
<1>3. Phases'
  BY <1>2 DEF RecoveryInv, Phases, Lives
<1>4. OpenRound' /\ Covers'
  BY DEF RecoveryInv, OpenRound, Covers, toolVars
<1>5. RanDurable' /\ Truthful'
  BY <1>0, HistoriesKept DEF RecoveryInv, Follows, toolVars
<1> QED BY <1>1, <1>2, <1>3, <1>4, <1>5 DEF RecoveryInv

LEMMA EndStepStep ==
  ASSUME RecoveryInv, EndStep
  PROVE  RecoveryInv'
<1>1. PICK more \in BOOLEAN :
        LET ends == sched.pc = "failed" \/ signal \/ ~more
        IN  /\ log' = log \o <<Mark("step/end")>>
                          \o (IF ends THEN <<Mark("turn/end")>> ELSE <<>>)
                          \o (IF ends /\ more THEN <<Mark("turn/start")>> ELSE <<>>)
                          \o (IF more THEN <<Mark("step/start")>> ELSE <<>>)
            /\ life' = IF more THEN "request" ELSE "idle"
  BY DEF EndStep
<1>2. PICK ends \in BOOLEAN : ends = (sched.pc = "failed" \/ signal \/ ~more)
  OBVIOUS
<1>3. more \/ ends
  BY <1>2
<1>4. PICK p \in Rounds(log) : WorksAt(p)
  BY DEF RecoveryInv, OpenRound, EndStep
<1>5. /\ log \in Seq(EventType) /\ Shaped(log, threw) /\ OpenAt(log, p)
      /\ UNCHANGED <<registry, signal, sched, toolVars, callSeq, durable, class>>
  BY <1>4 DEF RecoveryInv, Shaped, WorksAt, EndStep
<1> DEFINE t0 == Append(log, Mark("step/end"))
           t1 == IF ends THEN Append(t0, Mark("turn/end")) ELSE t0
           t2 == IF ends /\ more THEN Append(t1, Mark("turn/start")) ELSE t1
           t3 == IF more THEN Append(t2, Mark("step/start")) ELSE t2
<1>6. Follows(log, threw', t0) /\ t0[Len(t0)].type = "step/end"
  <2>1. PICK n \in Nat : n = Len(log)
    BY <1>5
  <2>2. /\ threw' \in SUBSET Nat /\ threw \subseteq threw'
        /\ n + 1 \in threw' \/ \A i \in Call : ResultIn(log, i, p, n + 1)
    <3>1. threw \in SUBSET Nat
      BY <1>5 DEF Shaped
    <3>2. CASE sched.pc = "failed"
      <4>1. threw' = threw \cup {n + 1} /\ n + 1 \in Nat
        BY <2>1, <3>2 DEF EndStep
      <4> QED BY <3>1, <4>1
    <3>3. CASE sched.pc = "done"
      <4>1. threw' = threw
        BY <3>3 DEF EndStep
      <4>2. \A i \in Call : ResultIn(log, i, p, n + 1)
        BY <1>4, <2>1, <3>3 DEF WorksAt
      <4> QED BY <3>1, <4>1, <4>2
    <3> QED BY <3>2, <3>3 DEF EndStep, Exits
  <2>3. PICK also : also = threw'
    OBVIOUS
  <2>4. /\ also \subseteq Nat /\ threw \subseteq also
        /\ Len(log) + 1 \in also \/ \A i \in Call : ResultIn(log, i, p, Len(log) + 1)
    BY <2>1, <2>2, <2>3
  <2>5. t0 = Append(log, Mark("step/end"))
    OBVIOUS
  <2> HIDE DEF t0, t1, t2, t3
  <2>6. Shaped(log, threw) /\ OpenAt(log, p)
    BY <1>5
  <2>7. Follows(log, also, t0) /\ t0[Len(t0)].type = "step/end"
    BY <2>4, <2>5, <2>6, StepEnds
  <2> QED BY <2>3, <2>7
<1>7. t0 \in Seq(EventType)
  BY <1>6 DEF Follows, Shaped
<1> HIDE DEF t0
<1>8. Follows(log, threw', t1) /\ t1[Len(t1)].type = IF ends THEN "turn/end" ELSE "step/end"
  <2>1. CASE ends
    <3> DEFINE type == "turn/end"
    <3>1. /\ type \in {"turn/start", "turn/end", "step/start"}
          /\ type # "step/start" /\ t1 = Append(t0, Mark(type))
      BY <2>1
    <3> HIDE DEF t1, type
    <3>2. Follows(log, threw', t1) /\ t1[Len(t1)].type = type
      BY <1>5, <1>6, <3>1, MarkFollows
    <3> QED BY <2>1, <3>2 DEF type
  <2>2. CASE ~ends
    BY <1>6, <2>2
  <2> QED BY <2>1, <2>2
<1>9. t1 \in Seq(EventType)
  BY <1>8 DEF Follows, Shaped
<1> HIDE DEF t1
<1>10. /\ Follows(log, threw', t2)
       /\ t2[Len(t2)].type = IF ends THEN IF more THEN "turn/start" ELSE "turn/end"
                             ELSE "step/end"
  <2>1. CASE ends /\ more
    <3> DEFINE type == "turn/start"
    <3>1. /\ type \in {"turn/start", "turn/end", "step/start"}
          /\ type # "step/start" /\ t2 = Append(t1, Mark(type))
      BY <2>1
    <3> HIDE DEF t2, type
    <3>2. Follows(log, threw', t2) /\ t2[Len(t2)].type = type
      BY <1>5, <1>8, <3>1, MarkFollows
    <3> QED BY <2>1, <3>2 DEF type
  <2>2. CASE ~(ends /\ more)
    BY <1>8, <2>2
  <2> QED BY <2>1, <2>2
<1>11. t2 \in Seq(EventType)
  BY <1>10 DEF Follows, Shaped
<1> HIDE DEF t2
<1>12. /\ Follows(log, threw', t3)
       /\ t3[Len(t3)].type = IF more THEN "step/start" ELSE "turn/end"
  <2>1. CASE more
    <3> DEFINE type == "step/start"
    <3>1. /\ type \in {"turn/start", "turn/end", "step/start"}
          /\ t2[Len(t2)].type # "turn/end" /\ t3 = Append(t2, Mark(type))
      BY <1>10, <2>1
    <3> HIDE DEF t3, type
    <3>2. Follows(log, threw', t3) /\ t3[Len(t3)].type = type
      BY <1>5, <1>10, <3>1, MarkFollows
    <3> QED BY <2>1, <3>2 DEF type
  <2>2. CASE ~more
    BY <1>3, <1>10, <2>2
  <2> QED BY <2>1, <2>2
<1> HIDE DEF t3
<1>13. log' = t3
  <2>1. \A s \in Seq(EventType), type \in {"turn/start", "turn/end", "step/start",
                                           "step/end", "assistant/message"} :
          s \o <<Mark(type)>> = Append(s, Mark(type)) /\ s \o <<>> = s
    BY MarkTyped, AppendIsConcat, ConcatEmptySeq
  <2>2. log \o <<Mark("step/end")>> = t0
    BY <1>5, <2>1 DEF t0
  <2>3. t0 \o (IF ends THEN <<Mark("turn/end")>> ELSE <<>>) = t1
    BY <1>7, <2>1 DEF t1
  <2>4. t1 \o (IF ends /\ more THEN <<Mark("turn/start")>> ELSE <<>>) = t2
    BY <1>9, <2>1 DEF t2
  <2>5. t2 \o (IF more THEN <<Mark("step/start")>> ELSE <<>>) = t3
    BY <1>11, <2>1 DEF t3
  <2> QED BY <1>1, <1>2, <2>2, <2>3, <2>4, <2>5
<1>14. /\ life' \in {"request", "idle"}
       /\ log'[Len(log')].type =
            IF life' = "request" THEN "step/start" ELSE "turn/end"
  BY <1>1, <1>12, <1>13
<1> QED BY <1>5, <1>12, <1>13, <1>14, BetweenSteps

LEMMA BeginTurnStep ==
  ASSUME RecoveryInv, BeginTurn
  PROVE  RecoveryInv'
<1>1. /\ log \in Seq(EventType) /\ Len(log) \in Nat /\ Len(log) >= 1
      /\ Shaped(log, threw) /\ Closed(log) /\ DOMAIN log = 1..Len(log)
      /\ threw' = threw /\ life' = "request"
      /\ UNCHANGED <<registry, signal, sched, toolVars, callSeq, durable, class>>
  BY Domains DEF RecoveryInv, Shaped, Structure, TypeOK, Phases, BeginTurn
<1>2. Follows(log, threw, log)
  BY <1>1 DEF Follows
<1> DEFINE t1 == Append(log, Mark("turn/start"))
           t2 == Append(t1, Mark("step/start"))
<1>3. Follows(log, threw, t1) /\ t1[Len(t1)].type = "turn/start"
  <2> DEFINE type == "turn/start"
  <2>1. /\ type \in {"turn/start", "turn/end", "step/start"}
        /\ type # "step/start" /\ t1 = Append(log, Mark(type))
    OBVIOUS
  <2> HIDE DEF t1, type
  <2>2. Follows(log, threw, t1) /\ t1[Len(t1)].type = type
    BY <1>1, <1>2, <2>1, MarkFollows
  <2> QED BY <2>2 DEF type
<1> HIDE DEF t1
<1>4. Follows(log, threw, t2) /\ t2[Len(t2)].type = "step/start"
  <2> DEFINE type == "step/start"
  <2>1. /\ type \in {"turn/start", "turn/end", "step/start"}
        /\ t1[Len(t1)].type # "turn/end" /\ t2 = Append(t1, Mark(type))
    BY <1>3
  <2> HIDE DEF t2, type
  <2>2. Follows(log, threw, t2) /\ t2[Len(t2)].type = type
    BY <1>1, <1>3, <2>1, MarkFollows
  <2> QED BY <2>2 DEF type
<1> HIDE DEF t2
<1>5. log' = t2
  <2>1. Mark("turn/start") \in EventType /\ Mark("step/start") \in EventType
    BY MarkTyped
  <2>2. log' = log \o <<Mark("turn/start"), Mark("step/start")>>
    BY DEF BeginTurn
  <2> QED BY <1>1, <2>1, <2>2 DEF t1, t2
<1> QED BY <1>1, <1>4, <1>5, BetweenSteps

LEMMA NextRecovery == RecoveryInv /\ [RecoveryNext]_allVars => RecoveryInv'
<1> SUFFICES ASSUME RecoveryInv, [RecoveryNext]_allVars PROVE RecoveryInv'
  OBVIOUS
<1>1. CASE AtWork
  BY <1>1, WorkStep DEF AtWork
<1>2. CASE Write
  BY <1>2, WriteStep DEF Write
<1>3. CASE EndStep
  BY <1>3, EndStepStep
<1>4. CASE Answer
  BY <1>4, AnswerStep
<1>5. CASE Crash
  BY <1>5, CrashStep
<1>6. CASE Resume
  BY <1>6, ResumeStep
<1>7. CASE BeginTurn
  BY <1>7, BeginTurnStep
<1>8. CASE UNCHANGED allVars
  <2>1. UNCHANGED vars /\ life' = life /\ threw' = threw
    BY <1>8 DEF allVars, processVars
  <2>2. Structure'
    BY <2>1, NextStructure DEF RecoveryInv
  <2>3. Shaped(log', threw') /\ Phases'
    BY <2>1 DEF RecoveryInv, Phases, vars
  <2>4. OpenRound' /\ Covers'
    BY <2>1 DEF RecoveryInv, OpenRound, WorksAt, Covers, vars, toolVars
  <2>5. RanDurable' /\ Truthful'
    BY <2>1 DEF RecoveryInv, RanDurable, Truthful, At, vars, toolVars
  <2> QED BY <2>2, <2>3, <2>4, <2>5 DEF RecoveryInv
<1> QED BY <1>1, <1>2, <1>3, <1>4, <1>5, <1>6, <1>7, <1>8 DEF RecoveryNext

(* The invariant of the runs with crashes: the shape of the log, where in it
   the step at work is, and what is durable of the calls whose bodies ran. *)
THEOREM RecoveryInvariant == RecoverySpec => []RecoveryInv
BY InitRecovery, NextRecovery, PTL DEF RecoverySpec

-----------------------------------------------------------------------------
(* The properties of the repair *)

(* A result that reports its call as never started tells the truth: its body
   did not run, whatever of the log a crash has taken, so a retry repeats no
   side effect. *)
THEOREM NeverStartedNeverRan == RecoverySpec => []NotStartedIsTrue
<1>1. RecoveryInv => NotStartedIsTrue
  BY DEF RecoveryInv, Truthful, NotStartedIsTrue
<1> QED BY <1>1, RecoveryInvariant, PTL

(* A crash while the closers are being written, wherever it cuts them, is
   repaired to the same log. *)
THEOREM RepairIsStable == RecoverySpec => []RepairStable
<1>1. ASSUME RecoveryInv PROVE RepairStable
  <2> SUFFICES ASSUME life = "resumed", NEW k \in durable..Len(log)
               PROVE  SubSeq(log, 1, k) \o Closers(SubSeq(log, 1, k)) = log
    BY DEF RepairStable
  <2>1. /\ log \in Seq(EventType) /\ Len(log) \in Nat /\ durable \in 0..Len(log)
    BY <1>1, Domains DEF RecoveryInv, Structure, TypeOK
  <2>2. PICK d \in 0..durable :
          log = SubSeq(log, 1, d) \o Closers(SubSeq(log, 1, d))
    BY <1>1 DEF RecoveryInv, Phases
  <2>3. PICK es : es = SubSeq(log, 1, d)
    OBVIOUS
  <2>4. d \in 0..Len(log)
    BY <2>1
  <2>5. es \in Seq(EventType) /\ Len(es) = d
    BY <2>1, <2>3, <2>4, PrefixFacts
  <2>6. es \o Closers(es) = log
    BY <2>2, <2>3
  <2>7. k \in Len(es)..Len(es \o Closers(es))
    BY <2>1, <2>4, <2>5, <2>6
  <2>8. SubSeq(es \o Closers(es), 1, k) \o Closers(SubSeq(es \o Closers(es), 1, k))
          = es \o Closers(es)
    BY <2>5, <2>7, Stable
  <2> QED BY <2>6, <2>8
<1> QED BY <1>1, RecoveryInvariant, PTL

(* A set whose members are all equal has at most one. *)
LEMMA AtMostOne ==
  ASSUME NEW S, \A a, b \in S : a = b
  PROVE  /\ Cardinality(S) <= 1
         /\ S # {} => Cardinality(S) = 1
<1>1. CASE S = {}
  <2>1. Cardinality(S) = 0
    BY <1>1, FS_EmptySet
  <2> QED BY <1>1, <2>1
<1>2. CASE S # {}
  <2>1. PICK x : x \in S
    BY <1>2
  <2>2. S = {x}
    BY <1>2, <2>1
  <2>3. Cardinality(S) = 1
    BY <2>2, FS_Singleton
  <2> QED BY <2>3
<1> QED BY <1>1, <1>2

(* The resumed log is balanced, whenever the process died and however often:
   each call of each message is answered exactly once, in its own step, and no
   boundary stays open. *)
THEOREM RepairedLogIsBalanced == RecoverySpec => []RepairedLogBalanced
<1>1. ASSUME RecoveryInv, life = "resumed", NEW p \in Rounds(log), NEW i \in Call
      PROVE  /\ Cardinality(Results(p, i)) <= 1
             /\ (\A x \in threw : ~InRound(log, x, p))
                  => Cardinality(Results(p, i)) = 1
             /\ \A q \in Results(p, i) : \A r \in p..q : log[r].type # "step/end"
  <2>0. /\ DOMAIN log = 1..Len(log) /\ Len(log) \in Nat /\ p \in 1..Len(log)
        /\ \A r \in Rounds(log) : r \in 1..Len(log)
        /\ log[p].type = "assistant/message" /\ threw \subseteq Nat
    BY <1>1, Domains DEF RecoveryInv, Shaped, Rounds
  <2>1. \A q : q \in Results(p, i) <=>
          /\ q \in 1..Len(log) /\ log[q].type = "tool/result" /\ log[q].call = i
          /\ InRound(log, q, p)
    BY <2>0 DEF Results, At
  <2>2. ASSUME NEW a \in Results(p, i), NEW b \in Results(p, i), a < b PROVE FALSE
    <3>1. PICK r \in Rounds(log) : a < r /\ r < b
      BY <1>1, <2>0, <2>1, <2>2 DEF RecoveryInv, Shaped, Once
    <3>2. a \in 1..Len(log) /\ b \in 1..Len(log) /\ p < a
          /\ \A s \in Rounds(log) : s > p => b < s
      BY <2>1 DEF InRound
    <3>3. r > p
      BY <2>0, <3>1, <3>2
    <3> QED BY <2>0, <3>1, <3>2, <3>3
  <2>3. \A a, b \in Results(p, i) : a = b
    <3>1. \A a, b \in Results(p, i) : a \in Nat /\ b \in Nat
      BY <2>0, <2>1
    <3> QED BY <2>2, <3>1
  <2>4. ASSUME \A x \in threw : ~InRound(log, x, p) PROVE Results(p, i) # {}
    <3>1. PICK e \in DOMAIN log : log[e].type = "step/end" /\ InRound(log, e, p)
      BY <1>1 DEF RecoveryInv, Phases, Closed, Ended
    <3>a. \A r \in Rounds(log) : r > p => e < r
      BY <3>1 DEF InRound
    <3>2. ASSUME NEW x \in threw, p < x, x <= e PROVE FALSE
      <4>1. InRound(log, x, p)
        <5>1. x \in Nat /\ e \in Nat
          BY <2>0
        <5>2. \A r \in Rounds(log) : r > p => x < r
          BY <2>0, <3>a, <3>2, <5>1
        <5> QED BY <3>2, <5>2 DEF InRound
      <4> QED BY <2>4, <4>1
    <3>3. ResultIn(log, i, p, e)
      BY <1>1, <3>1, <3>2 DEF RecoveryInv, Shaped, Answered
    <3>4. PICK q \in DOMAIN log : p < q /\ q < e /\ Settles(log[q], i)
      BY <3>3 DEF ResultIn
    <3>5. \A r \in Rounds(log) : r > p => q < r
      BY <2>0, <3>a, <3>4
    <3>6. q \in Results(p, i)
      BY <2>0, <2>1, <3>4, <3>5 DEF InRound, Settles
    <3> QED BY <3>6
  <2>5. ASSUME NEW q \in Results(p, i), NEW r \in p..q, log[r].type = "step/end"
        PROVE  FALSE
    <3>1. /\ q \in 1..Len(log) /\ log[q].type = "tool/result"
          /\ \A s \in Rounds(log) : s > p => q < s
      BY <2>1 DEF InRound
    <3>2. r \in 1..Len(log) /\ r # q /\ r # p /\ p < r /\ r < q
      <4>1. r # q /\ r # p
        BY <2>0, <2>5, <3>1
      <4> QED BY <2>0, <3>1, <4>1
    <3>3. PICK s \in Rounds(log) : r < s /\ s < q
      BY <1>1, <2>0, <2>5, <3>1, <3>2 DEF RecoveryInv, Shaped, Inside
    <3>4. s > p
      BY <2>0, <3>2, <3>3
    <3> QED BY <2>0, <3>1, <3>3, <3>4
  <2> QED BY <2>3, <2>4, <2>5, AtMostOne
<1>2. RecoveryInv => RepairedLogBalanced
  <2> SUFFICES ASSUME RecoveryInv, life = "resumed" PROVE RepairedLogBalanced
    BY DEF RepairedLogBalanced
  <2>1. log[Len(log)].type = "turn/end"
    BY DEF RecoveryInv, Phases
  <2> QED BY <1>1, <2>1 DEF RepairedLogBalanced
<1> QED BY <1>2, RecoveryInvariant, PTL
=============================================================================
