------------------------- MODULE AgentDriverProofs -------------------------
(***************************************************************************)
(* Theorems about AgentDriver for every set of messages and every bound:   *)
(* its types and its mailbox, then its turns (one driver, boundaries that  *)
(* agree with it, successive turn numbers, one follow-up per turn).        *)
(***************************************************************************)
EXTENDS AgentDriver, SequenceTheorems, TLAPS

-----------------------------------------------------------------------------
(* Sequences of distinct items *)

(* Appending an item that is not there. *)
LEMMA AppendItems ==
  ASSUME NEW S, NEW s \in Seq(S), NEW m \in S
  PROVE  /\ Append(s, m) \in Seq(S)
         /\ Items(Append(s, m)) = Items(s) \cup {m}
         /\ Distinct(s) /\ m \notin Items(s) => Distinct(Append(s, m))
<1> DEFINE t == Append(s, m)
<1>1. /\ t \in Seq(S) /\ DOMAIN t = 1..(Len(s) + 1) /\ DOMAIN s = 1..Len(s)
      /\ Len(s) \in Nat /\ t[Len(s) + 1] = m
      /\ \A i \in 1..Len(s) : t[i] = s[i]
  OBVIOUS
<1>2. Items(t) = Items(s) \cup {m}
  BY <1>1 DEF Items
<1>3. Distinct(s) /\ m \notin Items(s) => Distinct(t)
  BY <1>1 DEF Items, Distinct
<1> QED BY <1>1, <1>2, <1>3

(* Concatenation. *)
LEMMA ConcatItems ==
  ASSUME NEW S, NEW s \in Seq(S), NEW t \in Seq(S)
  PROVE  /\ s \o t \in Seq(S)
         /\ Items(s \o t) = Items(s) \cup Items(t)
         /\ Distinct(s) /\ Distinct(t) /\ Items(s) \cap Items(t) = {}
              => Distinct(s \o t)
<1> DEFINE u == s \o t
<1>1. /\ u \in Seq(S) /\ DOMAIN u = 1..(Len(s) + Len(t))
      /\ DOMAIN s = 1..Len(s) /\ DOMAIN t = 1..Len(t)
      /\ Len(s) \in Nat /\ Len(t) \in Nat
      /\ \A i \in 1..Len(s) : u[i] = s[i]
      /\ \A i \in DOMAIN u : i > Len(s) => u[i] = t[i - Len(s)]
  OBVIOUS
<1>2. \A j \in 1..Len(t) : j + Len(s) \in DOMAIN u /\ u[j + Len(s)] = t[j]
  BY <1>1
<1>3. Items(u) = Items(s) \cup Items(t)
  <2>1. Items(u) \subseteq Items(s) \cup Items(t)
    BY <1>1 DEF Items
  <2>2. Items(s) \subseteq Items(u)
    BY <1>1 DEF Items
  <2>3. Items(t) \subseteq Items(u)
    <3> SUFFICES ASSUME NEW x \in Items(t) PROVE x \in Items(u)
      OBVIOUS
    <3>1. PICK j \in 1..Len(t) : x = t[j]
      BY <1>1 DEF Items
    <3>2. u[j + Len(s)] = x /\ j + Len(s) \in DOMAIN u
      BY <1>2, <3>1
    <3> QED BY <3>2 DEF Items
  <2> QED BY <2>1, <2>2, <2>3
<1>4. ASSUME Distinct(s), Distinct(t), Items(s) \cap Items(t) = {}
      PROVE  Distinct(u)
  <2> SUFFICES ASSUME NEW i \in DOMAIN u, NEW j \in DOMAIN u, u[i] = u[j]
               PROVE  i = j
    BY DEF Distinct
  <2>1. CASE i <= Len(s) /\ j <= Len(s)
    BY <1>1, <1>4, <2>1 DEF Distinct
  <2>2. CASE i > Len(s) /\ j > Len(s)
    <3>1. i - Len(s) \in DOMAIN t /\ j - Len(s) \in DOMAIN t
      BY <1>1, <2>2
    <3> QED BY <1>1, <1>4, <2>2, <3>1 DEF Distinct
  <2>3. CASE i <= Len(s) /\ j > Len(s)
    <3>1. u[i] \in Items(s)
      BY <1>1, <2>3 DEF Items
    <3>2. u[j] \in Items(t)
      BY <1>1, <2>3 DEF Items
    <3> QED BY <1>4, <3>1, <3>2
  <2>4. CASE i > Len(s) /\ j <= Len(s)
    <3>1. u[j] \in Items(s)
      BY <1>1, <2>4 DEF Items
    <3>2. u[i] \in Items(t)
      BY <1>1, <2>4 DEF Items
    <3> QED BY <1>4, <3>1, <3>2
  <2> QED BY <1>1, <2>1, <2>2, <2>3, <2>4
<1> QED BY <1>1, <1>3, <1>4

(* The three parts a splice cuts a list into. *)
LEMMA CutItems ==
  ASSUME NEW S, NEW s \in Seq(S), Distinct(s),
         NEW i \in Nat, NEW j \in Nat, 1 <= i, i <= j + 1, j <= Len(s)
  PROVE  LET before == SubSeq(s, 1, i - 1)
             cut == SubSeq(s, i, j)
             after == SubSeq(s, j + 1, Len(s))
         IN  /\ before \in Seq(S) /\ cut \in Seq(S) /\ after \in Seq(S)
             /\ Distinct(before) /\ Distinct(after)
             /\ Items(before) \cap Items(after) = {}
             /\ Items(cut) \subseteq Items(s)
             /\ Items(before) \cup Items(after) = Items(s) \ Items(cut)
<1> DEFINE before == SubSeq(s, 1, i - 1)
           cut == SubSeq(s, i, j)
           after == SubSeq(s, j + 1, Len(s))
<1>1. Len(s) \in Nat /\ DOMAIN s = 1..Len(s)
  OBVIOUS
<1>2. /\ before \in Seq(S) /\ DOMAIN before = 1..(i - 1)
      /\ \A k \in 1..(i - 1) : before[k] = s[k]
  BY <1>1
<1>3. /\ cut \in Seq(S) /\ DOMAIN cut = 1..(j - i + 1)
      /\ \A k \in 1..(j - i + 1) : cut[k] = s[k + i - 1]
  BY <1>1
<1>4. /\ after \in Seq(S) /\ DOMAIN after = 1..(Len(s) - j)
      /\ \A k \in 1..(Len(s) - j) : after[k] = s[k + j]
  BY <1>1
<1>5. Items(before) = {s[k] : k \in 1..(i - 1)}
  BY <1>2 DEF Items
<1>6. Items(cut) = {s[k] : k \in i..j}
  <2>1. ASSUME NEW k \in i..j PROVE s[k] \in Items(cut)
    <3>1. k - i + 1 \in DOMAIN cut /\ cut[k - i + 1] = s[k]
      BY <1>1, <1>3
    <3> QED BY <3>1 DEF Items
  <2>2. ASSUME NEW x \in Items(cut) PROVE x \in {s[k] : k \in i..j}
    <3>1. PICK k \in DOMAIN cut : x = cut[k]
      BY DEF Items
    <3>2. k + i - 1 \in i..j /\ x = s[k + i - 1]
      BY <1>1, <1>3, <3>1
    <3> QED BY <3>2
  <2> QED BY <2>1, <2>2
<1>7. Items(after) = {s[k] : k \in (j + 1)..Len(s)}
  <2>1. ASSUME NEW k \in (j + 1)..Len(s) PROVE s[k] \in Items(after)
    <3>1. k - j \in DOMAIN after /\ after[k - j] = s[k]
      BY <1>1, <1>4
    <3> QED BY <3>1 DEF Items
  <2>2. ASSUME NEW x \in Items(after) PROVE x \in {s[k] : k \in (j + 1)..Len(s)}
    <3>1. PICK k \in DOMAIN after : x = after[k]
      BY DEF Items
    <3>2. k + j \in (j + 1)..Len(s) /\ x = s[k + j]
      BY <1>1, <1>4, <3>1
    <3> QED BY <3>2
  <2> QED BY <2>1, <2>2
<1>8. Distinct(before)
  BY <1>1, <1>2 DEF Distinct
<1>9. Distinct(after)
  BY <1>1, <1>4 DEF Distinct
<1>10. Items(before) \cap Items(after) = {}
  BY <1>1, <1>5, <1>7 DEF Distinct
<1>11. Items(cut) \subseteq Items(s)
  BY <1>1, <1>6 DEF Items
<1>12. Items(before) \cup Items(after) = Items(s) \ Items(cut)
  <2>1. ASSUME NEW x \in Items(s) \ Items(cut)
        PROVE  x \in Items(before) \cup Items(after)
    <3>1. PICK k \in 1..Len(s) : x = s[k]
      BY <1>1 DEF Items
    <3>2. k \notin i..j
      BY <1>6, <3>1
    <3>3. k \in 1..(i - 1) \/ k \in (j + 1)..Len(s)
      BY <1>1, <3>1, <3>2
    <3> QED BY <1>5, <1>7, <3>1, <3>3
  <2>2. ASSUME NEW x \in Items(before) \cup Items(after)
        PROVE  x \in Items(s) \ Items(cut)
    <3>1. PICK k \in 1..Len(s) : x = s[k] /\ k \notin i..j
      BY <1>1, <1>5, <1>7
    <3>2. \A l \in i..j : s[l] # s[k]
      BY <1>1, <3>1 DEF Distinct
    <3> QED BY <1>1, <1>6, <3>1, <3>2 DEF Items
  <2> QED BY <2>1, <2>2
<1> QED BY <1>2, <1>3, <1>4, <1>8, <1>9, <1>10, <1>11, <1>12
-----------------------------------------------------------------------------
(* Type correctness *)

(* The stack of suspended methods stays a sequence of frames. *)
LEMMA StackType ==
  ASSUME TypeOK
  PROVE  /\ \A rest \in Seq(Frame), f \in Frame : Push(f, rest) \in Seq(Frame)
         /\ <<>> \in Seq(Frame)
         /\ \A op \in {"start", "opened", "admitting", "failing", "closing"} :
              Plain(op) \in Frame
         /\ \A op \in {"send", "closing"}, b \in BOOLEAN : Latched(op, b) \in Frame
         /\ \A op \in {"clear", "abort"}, c \in Signal : Caused(op, c) \in Frame
         /\ stack # <<>> => /\ Tail(stack) \in Seq(Frame)
                            /\ stack[1] \in Frame
<1>1. \A rest \in Seq(Frame), f \in Frame : Push(f, rest) \in Seq(Frame)
  BY DEF Push
<1>2. /\ \A op \in {"start", "opened", "admitting", "failing", "closing"} :
           Plain(op) \in Frame
      /\ \A op \in {"send", "closing"}, b \in BOOLEAN : Latched(op, b) \in Frame
      /\ \A op \in {"clear", "abort"}, c \in Signal : Caused(op, c) \in Frame
  BY DEF Plain, Latched, Caused, Frame, Signal
<1>3. stack # <<>> => Tail(stack) \in Seq(Frame) /\ stack[1] \in Frame
  BY DEF TypeOK
<1> QED BY <1>1, <1>2, <1>3

LEMMA StartDriverType ==
  ASSUME TypeOK, NEW rest \in Seq(Frame), StartDriver(rest)
  PROVE  phase' \in PhaseType /\ stack' \in Seq(Frame)
<1>1. phase' \in PhaseType
  BY DEF TypeOK, StartDriver, PhaseType, Signal
<1>2. stack' \in Seq(Frame)
  BY StackType DEF StartDriver
<1> QED BY <1>1, <1>2

LEMMA WakeDriverType ==
  ASSUME TypeOK, NEW b \in BOOLEAN, NEW rest \in Seq(Frame), WakeDriver(b, rest)
  PROVE  phase' \in PhaseType /\ stack' \in Seq(Frame)
<1>1. CASE phase.kind = "idle" /\ StartDriver(rest)
  BY <1>1, StartDriverType
<1>2. CASE phase' = [phase EXCEPT !.wake = @ \/ Latches(b)] /\ stack' = rest
  BY <1>2 DEF TypeOK, PhaseType, Latches
<1> QED BY <1>1, <1>2 DEF WakeDriver

LEMMA AbortType ==
  ASSUME TypeOK, NEW c \in Signal, NEW k \in BOOLEAN, NEW rest \in Seq(Frame),
         Abort(c, k, rest)
  PROVE  /\ phase' \in PhaseType /\ stack' \in Seq(Frame)
         /\ owed' \in SUBSET Message /\ gap' \in SUBSET owed'
         /\ condemned' \in BOOLEAN
<1>1. FirstCause(c) \in Signal
  BY DEF TypeOK, PhaseType, FirstCause, Signal
<1>2. phase' \in PhaseType
  BY <1>1 DEF TypeOK, PhaseType, Abort
<1>3. owed' \in SUBSET Message /\ gap' \in SUBSET owed'
  BY DEF TypeOK, Abort
<1>4. condemned' \in BOOLEAN /\ stack' \in Seq(Frame)
  BY DEF TypeOK, Abort
<1> QED BY <1>2, <1>3, <1>4

LEMMA DiscardType ==
  ASSUME TypeOK, NEW l \in Lane, Discard(l)
  PROVE  /\ phase' \in PhaseType /\ box' \in [Lane -> Seq(Message)]
         /\ fate' \in [Message -> Fate] /\ owner' \in [Message -> Nat]
         /\ owed' \in SUBSET Message /\ gap' \in SUBSET owed'
         /\ condemned' \in BOOLEAN
BY DEF TypeOK, Discard, Fate, Lane, ghostVars

LEMMA ClearNextTurnType ==
  ASSUME TypeOK, NEW c \in Signal, NEW rest \in Seq(Frame),
         ClearNextTurn(c, rest), UNCHANGED <<drv, log>>
  PROVE  TypeOK'
<1>1. CASE Discard("next-turn") /\ stack' = Push(Caused("abort", c), rest)
  <2>1. stack' \in Seq(Frame)
    BY <1>1, StackType
  <2> QED BY <1>1, <2>1, DiscardType DEF TypeOK, Lane
<1>2. CASE Abort(c, FALSE, rest) /\ UNCHANGED boxVars
  BY <1>2, AbortType DEF TypeOK, boxVars
<1> QED BY <1>1, <1>2 DEF ClearNextTurn

LEMMA CloseTurnType ==
  ASSUME TypeOK, NEW next \in BOOLEAN, NEW rest \in Seq(Frame),
         CloseTurn(next, rest)
  PROVE  TypeOK'
<1>1. stack' \in Seq(Frame)
  BY StackType DEF CloseTurn
<1>2. drv' \in DriverType /\ log' \in LogType
  <2>1. drv' \in DriverType
    BY DEF CloseTurn, DriverType
  <2>2. log' \in LogType
    BY DEF TypeOK, CloseTurn, LogType
  <2> QED BY <2>1, <2>2
<1>3. owed' \in SUBSET Message /\ gap' \in SUBSET owed'
  BY DEF TypeOK, CloseTurn
<1> QED BY <1>1, <1>2, <1>3 DEF TypeOK, CloseTurn, boxVars

(* What a claim takes is a sequence of messages. *)
LEMMA BatchType ==
  ASSUME TypeOK, NEW l \in Lane
  PROVE  /\ FirstOf(box["next-turn"]) \in Seq(Message)
         /\ Batch(l) \in Seq(Message)
<1>1. \A k \in Lane : box[k] \in Seq(Message)
  BY DEF TypeOK
<1>2. box["next-turn"] \in Seq(Message) /\ box["next-step"] \in Seq(Message)
  BY <1>1 DEF Lane
<1>3. FirstOf(box["next-turn"]) \in Seq(Message)
  BY <1>2 DEF FirstOf
<1>4. Batch(l) \in Seq(Message)
  BY <1>2, <1>3, ConcatItems DEF Batch
<1> QED BY <1>3, <1>4

LEMMA ClaimType ==
  ASSUME TypeOK, NEW l \in Lane, Claim(l)
  PROVE  /\ box' \in [Lane -> Seq(Message)]
         /\ fate' \in [Message -> Fate] /\ owner' \in [Message -> Nat]
         /\ owed' \in SUBSET Message /\ gap' \in SUBSET owed'
         /\ condemned' \in BOOLEAN
<1>1. Items(FirstOf(box["next-turn"])) # {} => box["next-turn"] # <<>>
  BY DEF FirstOf, Items
<1>2. box' \in [Lane -> Seq(Message)]
  <2>1. \A k \in Lane : box[k] \in Seq(Message)
    BY DEF TypeOK
  <2>2. box["next-turn"] # <<>> => Tail(box["next-turn"]) \in Seq(Message)
    BY <2>1 DEF Lane
  <2> DEFINE queued == IF l = "next-turn" THEN Items(FirstOf(box["next-turn"]))
                                          ELSE {}
             turns == IF queued = {} THEN box["next-turn"] ELSE Tail(box["next-turn"])
  <2>3. turns \in Seq(Message)
    BY <1>1, <2>1, <2>2 DEF Lane
  <2>4. box' = [box EXCEPT !["next-step"] = <<>>, !["next-turn"] = turns]
    BY DEF Claim
  <2>5. <<>> \in Seq(Message)
    OBVIOUS
  <2> HIDE DEF turns
  <2> QED BY <2>3, <2>4, <2>5 DEF TypeOK
<1>3. fate' \in [Message -> Fate] /\ owner' \in [Message -> Nat]
  BY DEF Claim, TypeOK, Fate, PhaseType
<1>4. /\ owed' \in SUBSET Message /\ gap' \in SUBSET owed'
      /\ condemned' \in BOOLEAN
  BY DEF Claim, TypeOK
<1> QED BY <1>2, <1>3, <1>4

LEMMA BeginTurnType ==
  ASSUME TypeOK, NEW rest \in Seq(Frame), BeginTurn(rest),
         UNCHANGED <<boxVars, ghostVars>>
  PROVE  TypeOK'
<1>1. CASE OpenTurn(rest)
  <2>1. phase.turn + 1 \in Nat
    BY DEF TypeOK, PhaseType
  <2>2. stack' \in Seq(Frame)
    BY <1>1, StackType DEF OpenTurn
  <2>3. phase' \in PhaseType
    BY <1>1, <2>1 DEF TypeOK, OpenTurn, PhaseType
  <2>4. log' \in LogType
    BY <1>1, <2>1 DEF TypeOK, OpenTurn, LogType
  <2>5. drv' \in DriverType
    BY <1>1 DEF TypeOK, OpenTurn, DriverType
  <2> QED BY <2>2, <2>3, <2>4, <2>5 DEF TypeOK, boxVars, ghostVars
<1>2. CASE SkipTurn(rest)
  <2>1. drv' \in DriverType
    BY <1>2 DEF TypeOK, SkipTurn, DriverType
  <2> QED BY <1>2, <2>1 DEF TypeOK, SkipTurn, boxVars, ghostVars
<1> QED BY <1>1, <1>2 DEF BeginTurn

(* The calls. *)
LEMMA SendType ==
  ASSUME TypeOK, NEW m \in Message, NEW l \in Lane, NEW w \in BOOLEAN,
         Send(m, l, w)
  PROVE  TypeOK'
<1> DEFINE dest == IF WakesAfterAbort(w) THEN "next-turn" ELSE l
<1>1. dest \in Lane /\ WakesAfterAbort(w) \in BOOLEAN
  BY DEF Lane, WakesAfterAbort, TypeOK, PhaseType
<1>2. box' \in [Lane -> Seq(Message)] /\ fate' \in [Message -> Fate]
  BY <1>1 DEF Send, TypeOK, Fate
<1>3. stack' \in Seq(Frame)
  BY <1>1, StackType DEF Send, TypeOK
<1>4. owed' \in SUBSET Message /\ gap' \in SUBSET owed'
  BY DEF Send, TypeOK
<1> QED BY <1>2, <1>3, <1>4 DEF Send, TypeOK

LEMMA SpliceType ==
  ASSUME TypeOK, NEW l \in Lane, NEW i \in Nat \ {0}, NEW r \in {0, 1},
         NEW ins \in Seq(Message), Splice(l, i, r, ins)
  PROVE  TypeOK'
<1> DEFINE before == SubSeq(box[l], 1, i - 1)
           after == SubSeq(box[l], i + r, Len(box[l]))
<1>1. box[l] \in Seq(Message) /\ Len(box[l]) \in Nat /\ i + r <= Len(box[l]) + 1
  BY DEF Splice, TypeOK
<1>2. before \in Seq(Message)
  BY <1>1
<1>3. after \in Seq(Message)
  BY <1>1
<1>4. before \o ins \o after \in Seq(Message)
  BY <1>2, <1>3, ConcatItems
<1>5. box' \in [Lane -> Seq(Message)]
  BY <1>4 DEF Splice, TypeOK
<1>6. fate' \in [Message -> Fate]
  BY DEF Splice, TypeOK, Fate
<1>7. owed' \in SUBSET Message /\ gap' \in SUBSET owed'
  BY DEF Splice, TypeOK
<1> QED BY <1>5, <1>6, <1>7 DEF Splice, TypeOK

LEMMA CancelType ==
  ASSUME TypeOK, NEW c \in Cause, NEW k \in BOOLEAN, Cancel(c, k)
  PROVE  TypeOK'
<1>0. stack \in Seq(Frame) /\ "next-step" \in Lane /\ c \in Signal
  BY DEF TypeOK, Lane, Signal
<1>1. CASE Abort(c, k, stack) /\ UNCHANGED boxVars
  BY <1>0, <1>1, AbortType DEF TypeOK, boxVars, Cancel
<1>2. CASE Discard("next-step") /\ stack' = Push(Caused("clear", c), stack)
  <2>1. stack' \in Seq(Frame)
    BY <1>0, <1>2, StackType
  <2> QED BY <1>0, <1>2, <2>1, DiscardType DEF TypeOK, Cancel
<1>3. CASE ClearNextTurn(c, stack)
  BY <1>0, <1>3, ClearNextTurnType DEF Cancel
<1> QED BY <1>1, <1>2, <1>3 DEF Cancel

LEMMA CallType ==
  ASSUME TypeOK, Call
  PROVE  TypeOK'
<1>1. CASE \E m \in Message, l \in Lane, w \in BOOLEAN : Send(m, l, w)
  BY <1>1, SendType
<1>2. CASE \E l \in Lane, i \in 1..(Cardinality(Message) + 1), r \in {0, 1},
              ins \in {<<>>} \cup {<<m>> : m \in Message} : Splice(l, i, r, ins)
  <2>1. PICK l \in Lane, i \in 1..(Cardinality(Message) + 1), r \in {0, 1},
             ins \in {<<>>} \cup {<<m>> : m \in Message} : Splice(l, i, r, ins)
    BY <1>2
  <2>2. i \in Nat \ {0}
    OBVIOUS
  <2>3. ins \in Seq(Message)
    <3>1. CASE ins = <<>>
      BY <3>1
    <3>2. CASE \E m \in Message : ins = <<m>>
      BY <3>2
    <3> QED BY <3>1, <3>2
  <2> QED BY <2>1, <2>2, <2>3, SpliceType
<1>3. CASE \E c \in Cause, k \in BOOLEAN : Cancel(c, k)
  BY <1>3, CancelType
<1>4. CASE StartMaintenance
  BY <1>4 DEF StartMaintenance, TypeOK, PhaseType, Signal, boxVars, ghostVars
<1> QED BY <1>1, <1>2, <1>3, <1>4 DEF Call

(* The next message of the batch, or the end of it. *)
LEMMA AppendNextType ==
  ASSUME TypeOK, NEW rest \in Seq(Frame), AppendNext(rest)
  PROVE  TypeOK'
<1>0. drv.hand \in Seq(Message) /\ log.surface \in Seq(Message)
  BY DEF TypeOK, DriverType, LogType
<1>1. CASE /\ drv.hand # <<>>
           /\ log' = [log EXCEPT !.surface = Append(@, Head(drv.hand))]
           /\ fate' = [fate EXCEPT ![Head(drv.hand)] = "entered"]
           /\ drv' = [drv EXCEPT !.pc = "off", !.hand = Tail(@)]
           /\ stack' = Push(Plain("admitting"), rest)
  <2>1. /\ Head(drv.hand) \in Message /\ Tail(drv.hand) \in Seq(Message)
        /\ Append(log.surface, Head(drv.hand)) \in Seq(Message)
    BY <1>0, <1>1
  <2>2. log' \in LogType
    BY <1>1, <2>1 DEF TypeOK, LogType
  <2>3. drv' \in DriverType
    BY <1>1, <2>1 DEF TypeOK, DriverType
  <2>4. fate' \in [Message -> Fate]
    BY <1>1 DEF TypeOK, Fate
  <2>5. stack' \in Seq(Frame)
    BY <1>1, StackType
  <2> QED BY <2>2, <2>3, <2>4, <2>5 DEF AppendNext, TypeOK, ghostVars
<1>2. CASE /\ drv' = [drv EXCEPT !.pc = "work"]
           /\ stack' = rest
           /\ UNCHANGED <<fate, log>>
  <2>1. drv' \in DriverType
    BY <1>2 DEF TypeOK, DriverType, TurnAwait, HookAwait
  <2> QED BY <1>2, <2>1 DEF AppendNext, TypeOK, ghostVars
<1> QED BY <1>1, <1>2 DEF AppendNext

(* Code that runs on when its listeners have returned. *)
LEMMA ReturnType ==
  ASSUME TypeOK, Return
  PROVE  TypeOK'
<1>0. stack # <<>> /\ Tail(stack) \in Seq(Frame) /\ stack[1] \in Frame
  BY StackType DEF Return, ReturnSend, ReturnClear, ReturnAbort, ReturnStart,
     ReturnOpened, ReturnAdmitting, ReturnFailing, ReturnClosing,
     ReturnSettle, Top
<1>1. /\ stack[1].latch \in BOOLEAN
      /\ stack[1].cause \in Signal
  BY <1>0 DEF Frame
<1>2. CASE ReturnSend
  <2>1. phase' \in PhaseType /\ stack' \in Seq(Frame)
    BY <1>0, <1>1, <1>2, WakeDriverType DEF ReturnSend
  <2> QED BY <1>2, <2>1 DEF ReturnSend, TypeOK, boxVars, ghostVars
<1>3. CASE ReturnClear
  BY <1>0, <1>1, <1>3, ClearNextTurnType DEF ReturnClear
<1>4. CASE ReturnAbort
  BY <1>0, <1>1, <1>4, AbortType DEF ReturnAbort, TypeOK, boxVars
<1>5. CASE ReturnStart
  BY <1>0, <1>5, BeginTurnType DEF ReturnStart
<1>6. CASE ReturnOpened
  <2>1. CASE CloseTurn(FALSE, Tail(stack))
    BY <1>0, <2>1, CloseTurnType
  <2>2. CASE /\ Claim("next-turn")
             /\ drv' = [drv EXCEPT !.pc = "assemble", !.hand = Batch("next-turn")]
             /\ stack' = Tail(stack)
             /\ UNCHANGED <<phase, log>>
    <3>1. "next-turn" \in Lane
      BY DEF Lane
    <3>2. drv' \in DriverType
      BY <2>2, <3>1, BatchType DEF TypeOK, DriverType, TurnAwait, HookAwait
    <3> QED BY <1>0, <2>2, <3>1, <3>2, ClaimType DEF TypeOK
  <2> QED BY <1>6, <2>1, <2>2 DEF ReturnOpened
<1>7. CASE ReturnFailing
  BY <1>0, <1>7, CloseTurnType DEF ReturnFailing
<1>8. CASE ReturnClosing
  <2>1. phase' \in PhaseType
    <3>1. CASE phase' = [phase EXCEPT !.abort = "live", !.wake = FALSE, !.step = 0]
      BY <3>1 DEF TypeOK, PhaseType, Signal
    <3>2. CASE phase' = phase
      BY <3>2 DEF TypeOK
    <3> QED BY <1>8, <3>1, <3>2 DEF ReturnClosing
  <2>2. drv' \in DriverType
    <3>1. CASE drv' = [drv EXCEPT !.pc = "again"]
      BY <3>1 DEF TypeOK, DriverType
    <3>2. CASE drv' = [drv EXCEPT !.pc = "retired"]
      BY <3>2 DEF TypeOK, DriverType
    <3> QED BY <1>8, <3>1, <3>2 DEF ReturnClosing
  <2> QED BY <1>0, <1>8, <2>1, <2>2 DEF ReturnClosing, TypeOK, boxVars
<1>9. CASE ReturnSettle
  <2>1. phase' \in PhaseType /\ stack' \in Seq(Frame)
    BY <1>0, <1>9, WakeDriverType DEF ReturnSettle, TypeOK
  <2> QED BY <1>9, <2>1 DEF ReturnSettle, TypeOK, boxVars, ghostVars
<1>10. CASE ReturnAdmitting
  BY <1>0, <1>10, AppendNextType DEF ReturnAdmitting
<1> QED BY <1>2, <1>3, <1>4, <1>5, <1>6, <1>7, <1>8, <1>9, <1>10 DEF Return

(* The driver going on after an await. *)
LEMMA ResumeType ==
  ASSUME TypeOK, Resume
  PROVE  TypeOK'
<1>0. <<>> \in Seq(Frame) /\ "next-step" \in Lane /\ "next-turn" \in Lane
  BY StackType DEF Lane
<1>1. CASE Interrupted \/ Reject
  BY <1>0, <1>1, CloseTurnType DEF Interrupted, Reject
<1>2. CASE Fails
  <2>1. stack' \in Seq(Frame)
    BY <1>2, StackType DEF Fails, TypeOK
  <2>2. drv' \in DriverType
    <3>1. <<>> \in Seq(Message)
      OBVIOUS
    <3> QED BY <1>2, <3>1 DEF Fails, TypeOK, DriverType
  <2>3. log' \in LogType
    BY <1>2 DEF Fails, TypeOK, LogType
  <2> QED BY <1>2, <2>1, <2>2, <2>3 DEF Fails, TypeOK, boxVars, ghostVars
<1>3. ASSUME NEW batch \in Kept, NEW extra \in BOOLEAN, EnterStep(batch, extra)
      PROVE  TypeOK'
  <2>1. batch \in Seq(Message)
    <3>1. PICK n \in 0..Len(drv.hand) : batch \in [1..n -> Items(drv.hand)]
      BY DEF Kept
    <3>2. drv.hand \in Seq(Message) /\ Len(drv.hand) \in Nat
      BY DEF TypeOK, DriverType
    <3>3. Items(drv.hand) \subseteq Message
      BY <3>2 DEF Items
    <3> QED BY <3>1, <3>2, <3>3
  <2>2. phase.step + 1 \in Nat
    BY DEF TypeOK, PhaseType
  <2>3. phase' \in PhaseType
    BY <1>3, <2>2 DEF EnterStep, TypeOK, PhaseType
  <2>4. log' \in LogType
    BY <1>3, <2>2 DEF EnterStep, TypeOK, LogType
  <2>5. drv' \in DriverType
    BY <1>3, <2>1 DEF EnterStep, TypeOK, DriverType, TurnAwait, HookAwait
  <2> QED BY <1>3, <2>3, <2>4, <2>5 DEF EnterStep, TypeOK, boxVars, ghostVars
<1>4. ASSUME NEW batch \in Kept, NEW extra \in BOOLEAN, EndEmpty(batch, extra)
      PROVE  TypeOK'
  BY <1>0, <1>4, CloseTurnType DEF EndEmpty
<1>5. CASE Admit
  BY <1>0, <1>5, AppendNextType DEF Admit
<1>11. CASE Decided \/ Prepared
  BY <1>11 DEF Decided, Prepared, TypeOK, DriverType, TurnAwait, HookAwait,
               boxVars, ghostVars
<1>6. CASE Retry
  BY <1>6 DEF Retry, TypeOK, DriverType, TurnAwait, HookAwait, boxVars, ghostVars
<1>7. CASE Finish
  <2>1. PICK o \in {"completed", "max-tokens", "tools"} : EndStep(o)
    BY <1>7 DEF Finish
  <2>2. EndsAfter(o) \in {"none", "completed", "max-tokens"}
    BY DEF EndsAfter
  <2>3. log' \in LogType
    BY <2>1 DEF EndStep, TypeOK, LogType
  <2>4. CASE EndsAfter(o) # "none" /\ box["next-step"] = <<>>
    <3>1. drv' \in DriverType
      BY <2>1, <2>2, <2>4 DEF EndStep, TypeOK, DriverType, TurnAwait, HookAwait
    <3> QED BY <2>1, <2>3, <2>4, <3>1 DEF EndStep, TypeOK, boxVars, ghostVars
  <2>5. CASE ~(EndsAfter(o) # "none" /\ box["next-step"] = <<>>)
    <3>1. Claim("next-step")
      BY <2>1, <2>5 DEF EndStep
    <3>2. drv' \in DriverType
      <4>1. drv' = [pc |-> "assemble", ends |-> EndsAfter(o),
                    hand |-> Batch("next-step"), owes |-> (o = "tools")]
        BY <2>1, <2>5 DEF EndStep
      <4>2. Batch("next-step") \in Seq(Message) /\ (o = "tools") \in BOOLEAN
        BY <1>0, BatchType
      <4> QED BY <2>2, <4>1, <4>2 DEF DriverType, TurnAwait, HookAwait
    <3> QED BY <1>0, <2>1, <2>3, <3>1, <3>2, ClaimType DEF EndStep, TypeOK
  <2> QED BY <2>4, <2>5
<1>8. CASE Stop
  <2>1. CASE CloseTurn(TRUE, <<>>)
    BY <1>0, <2>1, CloseTurnType
  <2>2. CASE /\ Claim("next-step")
             /\ drv' = [drv EXCEPT !.pc = "assemble", !.hand = Batch("next-step")]
             /\ UNCHANGED <<phase, stack, log>>
    <3>1. drv' \in DriverType
      BY <1>0, <2>2, BatchType DEF TypeOK, DriverType, TurnAwait, HookAwait
    <3> QED BY <1>0, <2>2, <3>1, ClaimType DEF TypeOK
  <2> QED BY <1>8, <2>1, <2>2 DEF Stop
<1>9. CASE NextTurn
  BY <1>0, <1>9, BeginTurnType DEF NextTurn
<1>10. CASE Settle
  <2>1. phase' \in PhaseType /\ drv' \in DriverType
    BY <1>10 DEF Settle, TypeOK, PhaseType, DriverType, Signal
  <2>2. [op |-> "settle", latch |-> phase.wake,
         cause |-> IF condemned THEN "disposed" ELSE "live"] \in Frame
    BY DEF TypeOK, PhaseType, Frame, Signal, Cause
  <2>3. stack' \in Seq(Frame)
    BY <1>10, <2>2, StackType DEF Settle, TypeOK
  <2> QED BY <1>10, <2>1, <2>3 DEF Settle, TypeOK, boxVars
<1> QED BY <1>1, <1>2, <1>3, <1>4, <1>5, <1>6, <1>7, <1>8, <1>9, <1>10, <1>11
        DEF Resume

(* The variables keep their types, whatever listeners do. *)
THEOREM TypeCorrect == Spec => []TypeOK
<1>1. Init => TypeOK
  <2> SUFFICES ASSUME Init PROVE TypeOK
    OBVIOUS
  <2>1. <<>> \in Seq(Message) /\ <<>> \in Seq(Frame)
    OBVIOUS
  <2>2. phase \in PhaseType
    BY DEF Init, PhaseType, Signal
  <2>3. drv \in DriverType
    BY <2>1 DEF Init, DriverType
  <2>4. log \in LogType
    BY <2>1 DEF Init, LogType
  <2>5. /\ box \in [Lane -> Seq(Message)]
        /\ fate \in [Message -> Fate] /\ owner \in [Message -> Nat]
    BY <2>1 DEF Init, Fate
  <2>6. owed \in SUBSET Message /\ gap \in SUBSET owed /\ condemned \in BOOLEAN
    BY DEF Init
  <2> QED BY <2>1, <2>2, <2>3, <2>4, <2>5, <2>6 DEF Init, TypeOK
<1>2. TypeOK /\ [Next]_vars => TypeOK'
  <2> SUFFICES ASSUME TypeOK, [Next]_vars PROVE TypeOK'
    OBVIOUS
  <2>1. CASE Call
    BY <2>1, CallType
  <2>2. CASE Return
    BY <2>2, ReturnType
  <2>3. CASE Resume
    BY <2>3, ResumeType
  <2>4. CASE FinishMaintenance
    <3>1. phase' \in PhaseType /\ stack' \in Seq(Frame)
      <4>1. CASE StartDriver(<<>>)
        BY <4>1, StartDriverType, StackType
      <4>2. CASE /\ phase' = [phase EXCEPT !.kind = "idle", !.abort = "live",
                                           !.wake = FALSE]
                 /\ UNCHANGED stack
        BY <4>2 DEF TypeOK, PhaseType, Signal
      <4> QED BY <2>4, <4>1, <4>2 DEF FinishMaintenance
    <3> QED BY <2>4, <3>1 DEF FinishMaintenance, TypeOK, boxVars
  <2>5. CASE UNCHANGED vars
    BY <2>5 DEF vars, TypeOK
  <2> QED BY <2>1, <2>2, <2>3, <2>4, <2>5 DEF Next
<1> QED BY <1>1, <1>2, PTL DEF Spec

-----------------------------------------------------------------------------
(* Every message is in one place *)

(* The head and the tail of a list without repetitions. *)
LEMMA TailItems ==
  ASSUME NEW S, NEW s \in Seq(S), Distinct(s), s # <<>>
  PROVE  /\ Distinct(Tail(s))
         /\ Items(Tail(s)) = Items(s) \ {Head(s)}
         /\ Head(s) \in Items(s)
<1> DEFINE t == Tail(s)
<1>1. /\ Len(s) \in Nat /\ Len(s) > 0 /\ DOMAIN s = 1..Len(s)
      /\ DOMAIN t = 1..(Len(s) - 1) /\ Head(s) = s[1]
      /\ \A i \in 1..(Len(s) - 1) : t[i] = s[i + 1]
  OBVIOUS
<1>2. Distinct(t)
  BY <1>1 DEF Distinct
<1>3. Items(t) \subseteq Items(s) \ {Head(s)}
  BY <1>1 DEF Items, Distinct
<1>4. ASSUME NEW x \in Items(s) \ {Head(s)} PROVE x \in Items(t)
  <2>1. PICK i \in 1..Len(s) : x = s[i] /\ i # 1
    BY <1>1 DEF Items
  <2>2. i - 1 \in DOMAIN t /\ t[i - 1] = x
    BY <1>1, <2>1
  <2> QED BY <2>2 DEF Items
<1>5. Head(s) \in Items(s)
  BY <1>1 DEF Items
<1> QED BY <1>2, <1>3, <1>4, <1>5

LEMMA EmptyItems == Items(<<>>) = {} /\ Distinct(<<>>)
BY DEF Items, Distinct

LEMMA SingleItem ==
  ASSUME NEW m
  PROVE  Items(<<m>>) = {m} /\ Distinct(<<m>>)
BY DEF Items, Distinct

(* Steps that touch neither a list nor the history nor the fate of a message,
   and hand on at most the messages the driver already holds. *)
LEMMA MailboxFrame ==
  ASSUME MailboxExact, UNCHANGED <<box, fate>>, log'.surface = log.surface,
         Distinct(drv'.hand), Items(drv'.hand) \subseteq Items(drv.hand)
  PROVE  MailboxExact'
BY DEF MailboxExact, ListsExact, HistoryExact, HandExact

LEMMA MailboxUntouched ==
  ASSUME MailboxExact, UNCHANGED <<drv, box, fate, log>>
  PROVE  MailboxExact'
BY DEF MailboxExact, ListsExact, HistoryExact, HandExact

(* The next-step list and at most one queued turn share no message. *)
LEMMA BatchExact ==
  ASSUME TypeOK, MailboxExact, NEW l \in Lane
  PROVE  /\ Distinct(Batch(l))
         /\ Items(Batch(l)) = Items(box["next-step"]) \cup
              (IF l = "next-turn" THEN Items(FirstOf(box["next-turn"])) ELSE {})
         /\ Items(FirstOf(box["next-turn"])) =
              IF box["next-turn"] = <<>> THEN {} ELSE {Head(box["next-turn"])}
         /\ Items(FirstOf(box["next-turn"])) \subseteq Items(box["next-turn"])
         /\ Items(box["next-step"]) \cap Items(box["next-turn"]) = {}
<1> DEFINE steps == box["next-step"]
           turns == box["next-turn"]
           first == FirstOf(turns)
<1>1. steps \in Seq(Message) /\ turns \in Seq(Message) /\ <<>> \in Seq(Message)
  BY DEF TypeOK, Lane
<1>2. Distinct(steps) /\ Distinct(turns) /\ Items(steps) \cap Items(turns) = {}
  BY DEF MailboxExact, ListsExact, Lane
<1>3. /\ first \in Seq(Message) /\ Distinct(first)
      /\ Items(first) = IF turns = <<>> THEN {} ELSE {Head(turns)}
      /\ Items(first) \subseteq Items(turns)
  <2>1. CASE turns = <<>>
    BY <1>1, <2>1, EmptyItems DEF FirstOf
  <2>2. CASE turns # <<>>
    <3>1. Head(turns) \in Items(turns)
      BY <1>1, <1>2, <2>2, TailItems
    <3>2. first = <<Head(turns)>>
      BY <2>2 DEF FirstOf
    <3> QED BY <1>1, <2>2, <3>1, <3>2, SingleItem, BatchType
  <2> QED BY <2>1, <2>2
<1>4. CASE l = "next-turn"
  <2>1. Batch(l) = steps \o first
    BY <1>4 DEF Batch
  <2>2. Items(steps) \cap Items(first) = {}
    BY <1>2, <1>3
  <2>3. Distinct(steps \o first) /\ Items(steps \o first) = Items(steps) \cup Items(first)
    <3> HIDE DEF steps, first
    <3> QED BY <1>1, <1>2, <1>3, <2>2, ConcatItems
  <2> QED BY <1>2, <1>3, <1>4, <2>1, <2>3
<1>5. CASE l # "next-turn"
  <2>1. Batch(l) = steps \o <<>>
    BY <1>5 DEF Batch
  <2> QED BY <1>1, <1>2, <1>3, <1>5, <2>1, ConcatItems, EmptyItems
<1> QED BY <1>4, <1>5

(* A claim moves whole batches from the lists into the driver's hand. *)
LEMMA ClaimExact ==
  ASSUME TypeOK, MailboxExact, NEW l \in Lane, Claim(l),
         drv'.hand = Batch(l), log'.surface = log.surface
  PROVE  MailboxExact'
<1> DEFINE steps == box["next-step"]
           turns == box["next-turn"]
           queued == IF l = "next-turn" THEN Items(FirstOf(turns)) ELSE {}
<1>1. turns \in Seq(Message) /\ steps \in Seq(Message)
  BY DEF TypeOK, Lane
<1>2. /\ Distinct(turns)
      /\ Items(turns) = {m \in Message : fate[m] = "next-turn"}
      /\ Items(steps) = {m \in Message : fate[m] = "next-step"}
  BY DEF MailboxExact, ListsExact, Lane
<1>3. /\ Distinct(Batch(l)) /\ Items(Batch(l)) = Items(steps) \cup queued
      /\ queued \subseteq Items(turns)
      /\ queued # {} => turns # <<>> /\ queued = {Head(turns)}
  BY BatchExact
<1>4. \A m \in Message : fate'[m] = IF m \in Items(steps) \cup queued
                                    THEN "claimed" ELSE fate[m]
  BY <1>3 DEF Claim
<1> "next-step" \in Lane /\ "next-turn" \in Lane
  BY DEF Lane
<1>5. /\ box'["next-step"] = <<>>
      /\ box'["next-turn"] = IF queued = {} THEN turns ELSE Tail(turns)
  <2>1. box' = [box EXCEPT !["next-step"] = <<>>,
                           !["next-turn"] = IF queued = {} THEN @ ELSE Tail(@)]
    BY DEF Claim
  <2> HIDE DEF queued
  <2> QED BY <2>1 DEF TypeOK
<1>7. /\ Distinct(box'["next-turn"])
      /\ Items(box'["next-turn"]) = Items(turns) \ queued
  <2>1. CASE queued = {}
    BY <1>2, <1>5, <2>1
  <2>2. CASE queued # {}
    <3>1. /\ Distinct(Tail(turns))
          /\ Items(Tail(turns)) = Items(turns) \ {Head(turns)}
      BY <1>1, <1>2, <1>3, <2>2, TailItems
    <3> QED BY <1>3, <1>5, <2>2, <3>1
  <2> QED BY <2>1, <2>2
<1>8. ListsExact'
  <2>1. Items(box'["next-step"]) = {m \in Message : fate'[m] = "next-step"}
    BY <1>2, <1>4, <1>5, EmptyItems
  <2>2. Items(box'["next-turn"]) = {m \in Message : fate'[m] = "next-turn"}
    BY <1>2, <1>3, <1>4, <1>7
  <2> QED BY <1>5, <1>7, <2>1, <2>2, EmptyItems DEF ListsExact, Lane
<1>9. HistoryExact'
  <2>1. \A m \in Message : fate'[m] = "entered" <=> fate[m] = "entered"
    BY <1>2, <1>3, <1>4
  <2> QED BY <2>1 DEF MailboxExact, HistoryExact
<1>10. HandExact'
  <2>1. Items(Batch(l)) \subseteq Message
    BY <1>2, <1>3
  <2> QED BY <1>3, <1>4, <2>1 DEF HandExact
<1> QED BY <1>8, <1>9, <1>10 DEF MailboxExact

LEMMA SendExact ==
  ASSUME TypeOK, MailboxExact, NEW m \in Message, NEW l \in Lane,
         NEW w \in BOOLEAN, Send(m, l, w)
  PROVE  MailboxExact'
<1> DEFINE dest == IF WakesAfterAbort(w) THEN "next-turn" ELSE l
<1>1. dest \in Lane /\ box \in [Lane -> Seq(Message)] /\ fate \in [Message -> Fate]
  BY DEF Lane, TypeOK
<1>2. fate[m] = "unsent" /\ "unsent" \notin Lane
  BY DEF Send, Lane
<1>3. box' = [box EXCEPT ![dest] = Append(@, m)] /\ fate' = [fate EXCEPT ![m] = dest]
  BY DEF Send
<1>4. ASSUME NEW k \in Lane
      PROVE  /\ Distinct(box'[k])
             /\ Items(box'[k]) = {n \in Message : fate'[n] = k}
  <2>1. /\ box[k] \in Seq(Message) /\ Distinct(box[k])
        /\ Items(box[k]) = {n \in Message : fate[n] = k}
    BY <1>1 DEF MailboxExact, ListsExact
  <2>2. CASE k = dest
    <3>1. box'[k] = Append(box[k], m)
      BY <1>1, <1>3, <2>2
    <3>2. /\ Items(box'[k]) = Items(box[k]) \cup {m}
          /\ Distinct(box'[k])
      <4>1. m \notin Items(box[k])
        BY <1>2, <2>1
      <4> QED BY <2>1, <3>1, <4>1, AppendItems
    <3> QED BY <1>1, <1>3, <2>1, <2>2, <3>2
  <2>3. CASE k # dest
    BY <1>1, <1>2, <1>3, <2>1, <2>3
  <2> QED BY <2>2, <2>3
<1>5. HistoryExact'
  <2>1. \A n \in Message : fate'[n] = "entered" <=> fate[n] = "entered"
    BY <1>1, <1>2, <1>3 DEF Lane
  <2> QED BY <2>1 DEF MailboxExact, HistoryExact, Send
<1>6. HandExact'
  BY <1>1, <1>2, <1>3 DEF MailboxExact, HandExact, Send, Lane
<1> QED BY <1>4, <1>5, <1>6 DEF MailboxExact, ListsExact

LEMMA SpliceExact ==
  ASSUME TypeOK, MailboxExact, NEW l \in Lane, NEW i \in Nat \ {0},
         NEW r \in {0, 1}, NEW ins \in Seq(Message), Distinct(ins),
         Splice(l, i, r, ins)
  PROVE  MailboxExact'
<1> DEFINE list == box[l]
           before == SubSeq(list, 1, i - 1)
           cut == SubSeq(list, i, i + r - 1)
           after == SubSeq(list, i + r, Len(list))
<1>1. /\ list \in Seq(Message) /\ Len(list) \in Nat /\ i + r <= Len(list) + 1
      /\ Distinct(list) /\ Items(list) = {m \in Message : fate[m] = l}
  <2>1. list \in Seq(Message) /\ Len(list) \in Nat
    BY DEF TypeOK
  <2>2. i + r <= Len(list) + 1
    BY DEF Splice
  <2>3. Distinct(list) /\ Items(list) = {m \in Message : fate[m] = l}
    BY DEF MailboxExact, ListsExact
  <2> QED BY <2>1, <2>2, <2>3
<1>2. /\ before \in Seq(Message) /\ cut \in Seq(Message) /\ after \in Seq(Message)
      /\ Distinct(before) /\ Distinct(after)
      /\ Items(before) \cap Items(after) = {}
      /\ Items(cut) \subseteq Items(list)
      /\ Items(before) \cup Items(after) = Items(list) \ Items(cut)
  <2> DEFINE j == i + r - 1
  <2>1. j \in Nat /\ 1 <= i /\ i <= j + 1 /\ j <= Len(list) /\ j + 1 = i + r
    BY <1>1
  <2> HIDE DEF j
  <2>2. LET a == SubSeq(list, 1, i - 1)
            c == SubSeq(list, i, j)
            b == SubSeq(list, j + 1, Len(list))
        IN  /\ a \in Seq(Message) /\ c \in Seq(Message) /\ b \in Seq(Message)
            /\ Distinct(a) /\ Distinct(b)
            /\ Items(a) \cap Items(b) = {}
            /\ Items(c) \subseteq Items(list)
            /\ Items(a) \cup Items(b) = Items(list) \ Items(c)
    BY <1>1, <2>1, CutItems, SMTT(30)
  <2> QED BY <2>1, <2>2 DEF j
<1>3. \A m \in Items(ins) : m \in Message /\ fate[m] = "unsent"
  BY DEF Splice, Items
<1>4. \A m \in Message : fate'[m] = CASE m \in Items(cut) -> "canceled"
                                      [] m \in Items(ins) -> l
                                      [] OTHER -> fate[m]
  BY DEF Splice
<1>5. /\ Items(ins) \cap Items(list) = {}
      /\ Items(ins) \cap Items(cut) = {}
  BY <1>1, <1>2, <1>3 DEF Lane
<1>6. /\ box'[l] = before \o ins \o after
      /\ \A k \in Lane : k # l => box'[k] = box[k]
  BY DEF Splice, TypeOK
<1>7. /\ Distinct(box'[l])
      /\ Items(box'[l]) = (Items(list) \ Items(cut)) \cup Items(ins)
  <2> DEFINE head == before \o ins
  <2>1. Items(before) \subseteq Items(list) /\ Items(after) \subseteq Items(list)
    BY <1>2
  <2>2. /\ head \in Seq(Message) /\ Distinct(head)
        /\ Items(head) = Items(before) \cup Items(ins)
    <3>1. Items(before) \cap Items(ins) = {}
      BY <1>5, <2>1
    <3> HIDE DEF before
    <3> QED BY <1>2, <3>1, ConcatItems
  <2>3. Items(head) \cap Items(after) = {}
    BY <1>2, <1>5, <2>1, <2>2
  <2> HIDE DEF head
  <2>4. /\ Distinct(head \o after)
        /\ Items(head \o after) = Items(head) \cup Items(after)
    <3> HIDE DEF after
    <3> QED BY <1>2, <2>2, <2>3, ConcatItems
  <2> QED BY <1>2, <1>6, <2>2, <2>4 DEF head
<1> HIDE DEF before, cut, after
<1>8. ASSUME NEW k \in Lane
      PROVE  /\ Distinct(box'[k])
             /\ Items(box'[k]) = {m \in Message : fate'[m] = k}
  <2>1. CASE k = l
    <3>1. Items(box'[l]) = {m \in Message : fate'[m] = l}
      BY <1>1, <1>3, <1>4, <1>5, <1>7 DEF Lane
    <3> QED BY <1>7, <2>1, <3>1
  <2>2. CASE k # l
    <3>1. Distinct(box[k]) /\ Items(box[k]) = {m \in Message : fate[m] = k}
      BY DEF MailboxExact, ListsExact
    <3>2. \A m \in Message : fate'[m] = k <=> fate[m] = k
      BY <1>1, <1>2, <1>3, <1>4, <2>2 DEF Lane
    <3> QED BY <1>6, <2>2, <3>1, <3>2
  <2> QED BY <2>1, <2>2
<1>9. \A m \in Message, f \in {"entered", "claimed"} : fate'[m] = f <=> fate[m] = f
  BY <1>1, <1>2, <1>3, <1>4 DEF Lane
<1>10. HistoryExact'
  BY <1>9 DEF MailboxExact, HistoryExact, Splice
<1>11. HandExact'
  <2>1. Items(drv.hand) \subseteq Message
    BY DEF TypeOK, DriverType, Items
  <2> QED BY <1>9, <2>1 DEF MailboxExact, HandExact, Splice
<1> QED BY <1>8, <1>10, <1>11 DEF MailboxExact, ListsExact

LEMMA DiscardExact ==
  ASSUME TypeOK, MailboxExact, NEW l \in Lane, Discard(l), UNCHANGED <<drv, log>>
  PROVE  MailboxExact'
<1>1. \A k \in Lane : /\ Distinct(box[k])
                      /\ Items(box[k]) = {m \in Message : fate[m] = k}
  BY DEF MailboxExact, ListsExact
<1>2. box'[l] = <<>> /\ \A k \in Lane : k # l => box'[k] = box[k]
  BY DEF Discard, TypeOK
<1>3. \A m \in Message : fate'[m] = IF fate[m] = l THEN "canceled" ELSE fate[m]
  BY <1>1 DEF Discard
<1>4. ASSUME NEW k \in Lane
      PROVE  /\ Distinct(box'[k])
             /\ Items(box'[k]) = {m \in Message : fate'[m] = k}
  <2>1. CASE k = l
    BY <1>2, <1>3, <2>1, EmptyItems DEF Lane
  <2>2. CASE k # l
    BY <1>1, <1>2, <1>3, <2>2 DEF Lane
  <2> QED BY <2>1, <2>2
<1>5. \A m \in Message, f \in {"entered", "claimed"} : fate'[m] = f <=> fate[m] = f
  BY <1>3 DEF Lane
<1>6. HistoryExact'
  BY <1>5 DEF MailboxExact, HistoryExact
<1>7. HandExact'
  <2>1. Items(drv.hand) \subseteq Message
    BY DEF TypeOK, DriverType, Items
  <2> QED BY <1>5, <2>1 DEF MailboxExact, HandExact
<1> QED BY <1>4, <1>6, <1>7 DEF MailboxExact, ListsExact

LEMMA ClearNextTurnExact ==
  ASSUME TypeOK, MailboxExact, NEW c \in Signal, NEW rest,
         ClearNextTurn(c, rest), UNCHANGED <<drv, log>>
  PROVE  MailboxExact'
<1>1. CASE Discard("next-turn")
  BY <1>1, DiscardExact DEF Lane
<1>2. CASE UNCHANGED boxVars
  BY <1>2, MailboxUntouched DEF boxVars
<1> QED BY <1>1, <1>2 DEF ClearNextTurn

LEMMA CloseTurnExact ==
  ASSUME MailboxExact, NEW next, NEW rest, CloseTurn(next, rest)
  PROVE  MailboxExact'
<1>1. drv'.hand = <<>> /\ log'.surface = log.surface
  BY DEF CloseTurn, MailboxExact
<1> QED BY <1>1, EmptyItems, MailboxFrame DEF CloseTurn, boxVars

LEMMA CallExact ==
  ASSUME TypeOK, MailboxExact, Call
  PROVE  MailboxExact'
<1>1. CASE \E m \in Message, l \in Lane, w \in BOOLEAN : Send(m, l, w)
  BY <1>1, SendExact
<1>2. CASE \E l \in Lane, i \in 1..(Cardinality(Message) + 1), r \in {0, 1},
              ins \in {<<>>} \cup {<<m>> : m \in Message} : Splice(l, i, r, ins)
  <2>1. PICK l \in Lane, i \in 1..(Cardinality(Message) + 1), r \in {0, 1},
             ins \in {<<>>} \cup {<<m>> : m \in Message} : Splice(l, i, r, ins)
    BY <1>2
  <2>2. i \in Nat \ {0}
    OBVIOUS
  <2>3. ins \in Seq(Message) /\ Distinct(ins)
    <3>1. CASE ins = <<>>
      BY <3>1, EmptyItems
    <3>2. CASE \E m \in Message : ins = <<m>>
      BY <3>2, SingleItem
    <3> QED BY <3>1, <3>2
  <2> QED BY <2>1, <2>2, <2>3, SpliceExact
<1>3. CASE \E c \in Cause, k \in BOOLEAN : Cancel(c, k)
  <2>1. PICK c \in Cause, k \in BOOLEAN : Cancel(c, k)
    BY <1>3
  <2>2. UNCHANGED <<drv, log>> /\ c \in Signal /\ "next-step" \in Lane
    BY <2>1 DEF Cancel, Signal, Lane
  <2>3. CASE UNCHANGED boxVars
    BY <2>2, <2>3, MailboxUntouched DEF boxVars
  <2>4. CASE Discard("next-step")
    BY <2>2, <2>4, DiscardExact
  <2>5. CASE ClearNextTurn(c, stack)
    BY <2>2, <2>5, ClearNextTurnExact
  <2> QED BY <2>1, <2>3, <2>4, <2>5 DEF Cancel
<1>4. CASE StartMaintenance
  BY <1>4, MailboxUntouched DEF StartMaintenance, boxVars
<1> QED BY <1>1, <1>2, <1>3, <1>4 DEF Call

LEMMA BeginTurnExact ==
  ASSUME TypeOK, MailboxExact, NEW rest, BeginTurn(rest), UNCHANGED boxVars
  PROVE  MailboxExact'
<1>1. drv'.hand = drv.hand /\ log'.surface = log.surface
  BY DEF BeginTurn, OpenTurn, SkipTurn, TypeOK, DriverType, LogType
<1> QED BY <1>1, MailboxFrame DEF boxVars, MailboxExact, HandExact

(* A message enters the history when it is claimed and not there. *)
LEMMA AppendNextExact ==
  ASSUME TypeOK, MailboxExact, NEW rest, AppendNext(rest)
  PROVE  MailboxExact'
<1> DEFINE hand == drv.hand
           surface == log.surface
           next == Head(hand)
<1>0. CASE /\ drv' = [drv EXCEPT !.pc = "work"]
           /\ UNCHANGED <<fate, log>>
  <2>1. drv'.hand = drv.hand
    BY <1>0 DEF TypeOK, DriverType
  <2> QED BY <1>0, <2>1, MailboxFrame DEF AppendNext, MailboxExact, HandExact
<1>1. CASE /\ hand # <<>>
           /\ log' = [log EXCEPT !.surface = Append(@, Head(drv.hand))]
           /\ fate' = [fate EXCEPT ![Head(drv.hand)] = "entered"]
           /\ drv' = [drv EXCEPT !.pc = "off", !.hand = Tail(@)]
  <2>1. /\ hand \in Seq(Message) /\ Distinct(hand)
        /\ \A m \in Items(hand) : fate[m] = "claimed"
        /\ surface \in Seq(Message) /\ Distinct(surface)
        /\ Items(surface) = {m \in Message : fate[m] = "entered"}
    BY DEF TypeOK, DriverType, LogType, MailboxExact, HandExact, HistoryExact
  <2>2. /\ log'.surface = Append(surface, next)
        /\ drv'.hand = Tail(hand)
        /\ box' = box
    BY <1>1 DEF AppendNext, TypeOK, LogType, DriverType
  <2>3. \A m \in Message : fate'[m] = IF m = next THEN "entered" ELSE fate[m]
    BY <1>1 DEF TypeOK
  <2>4. /\ Distinct(Tail(hand)) /\ Items(Tail(hand)) = Items(hand) \ {next}
        /\ next \in Items(hand) /\ next \in Message
    <3> HIDE DEF hand
    <3>1. next \in Message
      BY <1>1, <2>1
    <3> QED BY <1>1, <2>1, <3>1, TailItems
  <2>5. /\ Distinct(Append(surface, next))
        /\ Items(Append(surface, next)) = Items(surface) \cup {next}
    <3>1. next \notin Items(surface)
      BY <2>1, <2>4
    <3> HIDE DEF surface, next
    <3> QED BY <2>1, <2>4, <3>1, AppendItems
  <2> HIDE DEF surface, next, hand
  <2>6. HistoryExact'
    <3>1. Items(surface) \cup {next} = {m \in Message : fate'[m] = "entered"}
      BY <2>1, <2>3, <2>4
    <3> QED BY <2>2, <2>5, <3>1 DEF HistoryExact
  <2>7. ListsExact'
    <3>1. \A m \in Message, l \in Lane : fate'[m] = l <=> fate[m] = l
      BY <2>1, <2>3, <2>4 DEF Lane
    <3> QED BY <2>2, <3>1 DEF MailboxExact, ListsExact
  <2>8. HandExact'
    <3>1. \A m \in Items(Tail(hand)) : m \in Message
      BY <2>1, <2>4 DEF Items
    <3> QED BY <2>1, <2>2, <2>3, <2>4, <3>1 DEF HandExact
  <2> QED BY <2>6, <2>7, <2>8 DEF MailboxExact
<1> QED BY <1>0, <1>1 DEF AppendNext

LEMMA ReturnExact ==
  ASSUME TypeOK, MailboxExact, Return
  PROVE  MailboxExact'
<1>1. CASE ReturnSend \/ ReturnAbort \/ ReturnSettle
  BY <1>1, MailboxUntouched DEF ReturnSend, ReturnAbort, ReturnSettle, boxVars
<1>2. CASE ReturnClear
  <2>1. stack[1].cause \in Signal
    BY <1>2, StackType DEF ReturnClear, Top, Frame
  <2> QED BY <1>2, <2>1, ClearNextTurnExact DEF ReturnClear
<1>3. CASE ReturnStart
  BY <1>3, BeginTurnExact DEF ReturnStart
<1>4. CASE ReturnOpened
  <2>1. CASE CloseTurn(FALSE, Tail(stack))
    BY <2>1, CloseTurnExact
  <2>2. CASE /\ Claim("next-turn")
             /\ drv' = [drv EXCEPT !.pc = "assemble", !.hand = Batch("next-turn")]
             /\ UNCHANGED <<phase, log>>
    <3>1. drv'.hand = Batch("next-turn") /\ log'.surface = log.surface
      BY <2>2 DEF TypeOK, DriverType
    <3> QED BY <2>2, <3>1, ClaimExact DEF Lane
  <2> QED BY <1>4, <2>1, <2>2 DEF ReturnOpened
<1>5. CASE ReturnFailing
  BY <1>5, CloseTurnExact DEF ReturnFailing
<1>6. CASE ReturnClosing
  <2>1. drv'.hand = drv.hand
    BY <1>6 DEF ReturnClosing, TypeOK, DriverType
  <2> QED BY <1>6, <2>1, MailboxFrame DEF ReturnClosing, boxVars, MailboxExact, HandExact
<1>7. CASE ReturnAdmitting
  BY <1>7, AppendNextExact DEF ReturnAdmitting
<1> QED BY <1>1, <1>2, <1>3, <1>4, <1>5, <1>6, <1>7 DEF Return

(* A batch the pre-step listeners kept holds only messages of the claimed one. *)
LEMMA KeptExact ==
  ASSUME TypeOK, NEW batch \in Kept
  PROVE  /\ batch \in Seq(Message) /\ Distinct(batch)
         /\ Items(batch) \subseteq Items(drv.hand)
<1>1. PICK n \in 0..Len(drv.hand) :
        batch \in [1..n -> Items(drv.hand)] /\ Distinct(batch)
  BY DEF Kept
<1>2. drv.hand \in Seq(Message) /\ Len(drv.hand) \in Nat
  BY DEF TypeOK, DriverType
<1>3. Items(drv.hand) \subseteq Message
  BY <1>2 DEF Items
<1>4. Items(batch) \subseteq Items(drv.hand)
  BY <1>1 DEF Items
<1> QED BY <1>1, <1>2, <1>3, <1>4

LEMMA ResumeExact ==
  ASSUME TypeOK, MailboxExact, Resume
  PROVE  MailboxExact'
<1>1. CASE Interrupted \/ Reject
  BY <1>1, CloseTurnExact DEF Interrupted, Reject
<1>2. CASE Fails
  <2>1. drv'.hand = <<>> /\ log'.surface = log.surface
    BY <1>2 DEF Fails, TypeOK, DriverType, LogType
  <2> QED BY <1>2, <2>1, EmptyItems, MailboxFrame DEF Fails, boxVars
<1>3. ASSUME NEW batch \in Kept, NEW extra \in BOOLEAN, EnterStep(batch, extra)
      PROVE  MailboxExact'
  <2>1. drv'.hand = batch /\ log'.surface = log.surface
    BY <1>3 DEF EnterStep, TypeOK, DriverType, LogType
  <2> QED BY <1>3, <2>1, KeptExact, MailboxFrame DEF EnterStep, boxVars
<1>4. ASSUME NEW batch \in Kept, NEW extra \in BOOLEAN, EndEmpty(batch, extra)
      PROVE  MailboxExact'
  BY <1>4, CloseTurnExact DEF EndEmpty
<1>5. CASE Admit
  BY <1>5, AppendNextExact DEF Admit
<1>11. CASE Decided \/ Prepared
  <2>1. drv'.hand = drv.hand
    BY <1>11 DEF Decided, Prepared, TypeOK, DriverType
  <2> QED BY <1>11, <2>1, MailboxFrame
          DEF Decided, Prepared, boxVars, MailboxExact, HandExact
<1>6. CASE Retry
  <2>1. drv'.hand = drv.hand
    BY <1>6 DEF Retry, TypeOK, DriverType
  <2> QED BY <1>6, <2>1, MailboxFrame DEF Retry, boxVars, MailboxExact, HandExact
<1>7. CASE Finish
  <2>1. PICK o \in {"completed", "max-tokens", "tools"} : EndStep(o)
    BY <1>7 DEF Finish
  <2>2. log'.surface = log.surface
    BY <2>1 DEF EndStep, TypeOK, LogType
  <2>3. CASE EndsAfter(o) # "none" /\ box["next-step"] = <<>>
    <3>1. drv'.hand = drv.hand /\ UNCHANGED boxVars
      BY <2>1, <2>3 DEF EndStep, TypeOK, DriverType
    <3> QED BY <2>2, <3>1, MailboxFrame DEF boxVars, MailboxExact, HandExact
  <2>4. CASE ~(EndsAfter(o) # "none" /\ box["next-step"] = <<>>)
    <3>1. Claim("next-step") /\ drv'.hand = Batch("next-step")
      BY <2>1, <2>4 DEF EndStep
    <3> QED BY <2>2, <3>1, ClaimExact DEF Lane
  <2> QED BY <2>3, <2>4
<1>8. CASE Stop
  <2>1. CASE CloseTurn(TRUE, <<>>)
    BY <2>1, CloseTurnExact
  <2>2. CASE /\ Claim("next-step")
             /\ drv' = [drv EXCEPT !.pc = "assemble", !.hand = Batch("next-step")]
             /\ UNCHANGED <<phase, stack, log>>
    <3>1. drv'.hand = Batch("next-step") /\ log'.surface = log.surface
      BY <2>2 DEF TypeOK, DriverType
    <3> QED BY <2>2, <3>1, ClaimExact DEF Lane
  <2> QED BY <1>8, <2>1, <2>2 DEF Stop
<1>9. CASE NextTurn
  BY <1>9, BeginTurnExact DEF NextTurn
<1>10. CASE Settle
  <2>1. drv'.hand = drv.hand
    BY <1>10 DEF Settle, TypeOK, DriverType
  <2> QED BY <1>10, <2>1, MailboxFrame DEF Settle, boxVars, MailboxExact, HandExact
<1> QED BY <1>1, <1>2, <1>3, <1>4, <1>5, <1>6, <1>7, <1>8, <1>9, <1>10, <1>11
        DEF Resume

(* No message is lost from a list, held twice or delivered twice, for any
   number of messages and any nesting of listeners (inbox.ts mutate and claim,
   agent.ts step).  With TypeOK the property is inductive as it stands. *)
THEOREM MailboxCorrect == Spec => []MailboxExact
<1>1. Init => MailboxExact
  BY EmptyItems DEF Init, MailboxExact, ListsExact, HistoryExact, HandExact, Lane
<1>2. TypeOK /\ MailboxExact /\ [Next]_vars => MailboxExact'
  <2> SUFFICES ASSUME TypeOK, MailboxExact, [Next]_vars PROVE MailboxExact'
    OBVIOUS
  <2>1. CASE Call
    BY <2>1, CallExact
  <2>2. CASE Return
    BY <2>2, ReturnExact
  <2>3. CASE Resume
    BY <2>3, ResumeExact
  <2>4. CASE FinishMaintenance
    BY <2>4, MailboxUntouched DEF FinishMaintenance, boxVars
  <2>5. CASE UNCHANGED vars
    BY <2>5, MailboxUntouched DEF vars
  <2> QED BY <2>1, <2>2, <2>3, <2>4, <2>5 DEF Next
<1> QED BY <1>1, <1>2, TypeCorrect, PTL DEF Spec

-----------------------------------------------------------------------------
(* Which methods are suspended on the stack *)

InTurnOps == {"opened", "admitting", "failing"}
AdmitOps == {"admitting"}

LEMMA PushSuspended ==
  ASSUME NEW rest \in Seq(Frame), NEW f \in Frame, NEW ops
  PROVE  /\ Suspended(Push(f, rest), ops) <=> f.op \in ops \/ Suspended(rest, ops)
         /\ AtMostOne(Push(f, rest), ops) <=>
              AtMostOne(rest, ops) /\ (f.op \in ops => ~Suspended(rest, ops))
<1> DEFINE s == Push(f, rest)
<1>1. /\ Len(rest) \in Nat /\ DOMAIN rest = 1..Len(rest)
      /\ DOMAIN s = 1..(Len(rest) + 1) /\ s[1] = f
      /\ \A i \in 1..Len(rest) : s[i + 1] = rest[i]
  BY DEF Push
<1> HIDE DEF s
<1>2. \A i \in DOMAIN s : i = 1 \/ (i - 1 \in DOMAIN rest /\ s[i] = rest[i - 1])
  BY <1>1
<1>3. \A i \in DOMAIN rest : i + 1 \in DOMAIN s /\ i + 1 # 1 /\ s[i + 1] = rest[i]
  BY <1>1
<1>4. 1 \in DOMAIN s
  BY <1>1
<1>5. Suspended(s, ops) <=> f.op \in ops \/ Suspended(rest, ops)
  BY <1>1, <1>2, <1>3, <1>4 DEF Suspended
<1>6. ASSUME AtMostOne(s, ops)
      PROVE  AtMostOne(rest, ops) /\ (f.op \in ops => ~Suspended(rest, ops))
  <2>1. AtMostOne(rest, ops)
    BY <1>1, <1>3, <1>6 DEF AtMostOne
  <2>2. f.op \in ops => ~Suspended(rest, ops)
    BY <1>1, <1>3, <1>4, <1>6 DEF AtMostOne, Suspended
  <2> QED BY <2>1, <2>2
<1>7. ASSUME AtMostOne(rest, ops), f.op \in ops => ~Suspended(rest, ops)
      PROVE  AtMostOne(s, ops)
  <2> SUFFICES ASSUME NEW i \in DOMAIN s, NEW j \in DOMAIN s,
                      s[i].op \in ops, s[j].op \in ops
               PROVE  i = j
    BY DEF AtMostOne
  <2>1. CASE i # 1 /\ j # 1
    BY <1>1, <1>2, <1>7, <2>1 DEF AtMostOne
  <2>2. CASE i = 1 \/ j = 1
    BY <1>1, <1>2, <1>7, <2>2 DEF Suspended
  <2> QED BY <2>1, <2>2
<1> QED BY <1>5, <1>6, <1>7 DEF s

LEMMA TopSuspended ==
  ASSUME NEW s \in Seq(Frame), s # <<>>, NEW ops
  PROVE  /\ Tail(s) \in Seq(Frame) /\ s[1] \in Frame
         /\ Suspended(s, ops) <=> s[1].op \in ops \/ Suspended(Tail(s), ops)
         /\ AtMostOne(s, ops) <=>
              AtMostOne(Tail(s), ops) /\ (s[1].op \in ops => ~Suspended(Tail(s), ops))
<1>1. Tail(s) \in Seq(Frame) /\ s[1] \in Frame
  OBVIOUS
<1>2. s = Push(s[1], Tail(s))
  <2> DEFINE t == Push(s[1], Tail(s))
  <2>1. /\ t \in Seq(Frame) /\ Len(t) = Len(s)
        /\ \A i \in 1..Len(s) : t[i] = s[i]
    BY <1>1 DEF Push
  <2> HIDE DEF t
  <2>2. s = t
    BY <2>1, SeqEqual
  <2> QED BY <2>2 DEF t
<1>3. ASSUME NEW t, t = s, t = Push(s[1], Tail(s))
      PROVE  /\ Suspended(t, ops) <=> s[1].op \in ops \/ Suspended(Tail(s), ops)
             /\ AtMostOne(t, ops) <=>
                  /\ AtMostOne(Tail(s), ops)
                  /\ s[1].op \in ops => ~Suspended(Tail(s), ops)
  <2> DEFINE f == s[1]
             rest == Tail(s)
  <2> HIDE DEF f, rest
  <2>1. /\ Suspended(Push(f, rest), ops) <=> f.op \in ops \/ Suspended(rest, ops)
        /\ AtMostOne(Push(f, rest), ops) <=>
             AtMostOne(rest, ops) /\ (f.op \in ops => ~Suspended(rest, ops))
    BY <1>1, PushSuspended DEF f, rest
  <2> QED BY <1>3, <2>1 DEF f, rest
<1> QED BY <1>1, <1>2, <1>3

LEMMA EmptySuspended ==
  ASSUME NEW ops
  PROVE  ~Suspended(<<>>, ops) /\ AtMostOne(<<>>, ops)
BY DEF Suspended, AtMostOne

(* A stack with the same driver frame, if any, as the present one. *)
SameDriver(s) ==
  /\ s \in Seq(Frame)
  /\ Suspended(s, DriverOps) <=> Suspended(stack, DriverOps)
  /\ Suspended(s, InTurnOps) <=> Suspended(stack, InTurnOps)
  /\ Suspended(s, AdmitOps) <=> Suspended(stack, AdmitOps)
  /\ AtMostOne(s, DriverOps)

LEMMA OpsFacts ==
  /\ AdmitOps \subseteq InTurnOps /\ InTurnOps \subseteq DriverOps
  /\ \A op \in {"send", "clear", "abort", "settle"} : op \notin DriverOps
  /\ "start" \in DriverOps \ InTurnOps /\ "closing" \in DriverOps \ InTurnOps
  /\ "opened" \in InTurnOps \ AdmitOps /\ "failing" \in InTurnOps \ AdmitOps
  /\ "admitting" \in AdmitOps
BY DEF AdmitOps, InTurnOps, DriverOps

(* Notifications of the handle's own methods come and go above the driver. *)
LEMMA StackKeepsDriver ==
  ASSUME TypeOK, SingleDriver
  PROVE  /\ SameDriver(stack)
         /\ \A f \in Frame : f.op \notin DriverOps => SameDriver(Push(f, stack))
         /\ stack # <<>> /\ stack[1].op \notin DriverOps =>
              /\ SameDriver(Tail(stack))
              /\ \A f \in Frame : f.op \notin DriverOps
                                    => SameDriver(Push(f, Tail(stack)))
<1>1. stack \in Seq(Frame) /\ AtMostOne(stack, DriverOps)
  BY DEF TypeOK, SingleDriver
<1>2. SameDriver(stack)
  BY <1>1 DEF SameDriver
<1>3. ASSUME NEW s, SameDriver(s), NEW f \in Frame, f.op \notin DriverOps
      PROVE  SameDriver(Push(f, s))
  <2>1. Push(f, s) \in Seq(Frame)
    BY <1>3, StackType DEF SameDriver
  <2>2. f.op \notin InTurnOps /\ f.op \notin AdmitOps
    BY <1>3, OpsFacts
  <2> QED BY <1>3, <2>1, <2>2, PushSuspended DEF SameDriver
<1>4. ASSUME stack # <<>>, stack[1].op \notin DriverOps
      PROVE  SameDriver(Tail(stack))
  <2>1. stack[1].op \notin InTurnOps /\ stack[1].op \notin AdmitOps
    BY <1>4, OpsFacts
  <2> QED BY <1>1, <1>4, <2>1, TopSuspended DEF SameDriver
<1> QED BY <1>2, <1>3, <1>4

(* When the top of the stack is the driver's, nothing else of it is there. *)
LEMMA DriverOnTop ==
  ASSUME TypeOK, SingleDriver, stack # <<>>, stack[1].op \in DriverOps
  PROVE  /\ Tail(stack) \in Seq(Frame) /\ stack[1] \in Frame
         /\ ~Suspended(Tail(stack), DriverOps) /\ AtMostOne(Tail(stack), DriverOps)
         /\ ~Suspended(Tail(stack), InTurnOps)
         /\ ~Suspended(Tail(stack), AdmitOps)
         /\ Suspended(stack, InTurnOps) <=> stack[1].op \in InTurnOps
         /\ Suspended(stack, AdmitOps) <=> stack[1].op \in AdmitOps
         /\ drv.pc = "off" /\ phase.kind = "running"
<1>1. stack \in Seq(Frame)
  BY DEF TypeOK
<1>2. /\ Tail(stack) \in Seq(Frame) /\ stack[1] \in Frame
      /\ Suspended(stack, DriverOps)
      /\ ~Suspended(Tail(stack), DriverOps) /\ AtMostOne(Tail(stack), DriverOps)
  BY <1>1, TopSuspended DEF SingleDriver
<1>3. ~Suspended(Tail(stack), InTurnOps) /\ ~Suspended(Tail(stack), AdmitOps)
  BY <1>2, OpsFacts DEF Suspended
<1>4. /\ Suspended(stack, InTurnOps) <=> stack[1].op \in InTurnOps
      /\ Suspended(stack, AdmitOps) <=> stack[1].op \in AdmitOps
  BY <1>1, <1>3, TopSuspended
<1> QED BY <1>2, <1>3, <1>4 DEF SingleDriver

(* The driver alone on the stack of listeners. *)
LEMMA PushDriver ==
  ASSUME TypeOK, NEW rest \in Seq(Frame), NEW f \in Frame, f.op \in DriverOps,
         ~Suspended(rest, DriverOps), AtMostOne(rest, DriverOps)
  PROVE  /\ Suspended(Push(f, rest), DriverOps)
         /\ AtMostOne(Push(f, rest), DriverOps)
         /\ Suspended(Push(f, rest), InTurnOps) <=> f.op \in InTurnOps
         /\ Suspended(Push(f, rest), AdmitOps) <=> f.op \in AdmitOps
<1>1. ~Suspended(rest, InTurnOps) /\ ~Suspended(rest, AdmitOps)
  BY OpsFacts DEF Suspended
<1> QED BY <1>1, PushSuspended

-----------------------------------------------------------------------------
(* One driver, and boundaries that agree with it *)

TurnInv == SingleDriver /\ LogAgrees

(* A stack without the driver. *)
Alone(s) ==
  /\ s \in Seq(Frame)
  /\ ~Suspended(s, DriverOps) /\ AtMostOne(s, DriverOps)

LEMMA EmptyAlone == Alone(<<>>)
BY EmptySuspended DEF Alone

(* What does not concern the driver keeps the agreement. *)
LEMMA HandleTurns ==
  ASSUME TurnInv, SameDriver(stack'), UNCHANGED <<drv, log>>,
         phase'.kind = phase.kind, phase'.turn = phase.turn,
         phase'.step = phase.step
  PROVE  TurnInv'
BY DEF TurnInv, SingleDriver, LogAgrees, SameDriver, InTurnOps, AdmitOps

LEMMA StartDriverTurns ==
  ASSUME TypeOK, TurnInv, NEW rest, SameDriver(rest), phase.kind # "running",
         StartDriver(rest), UNCHANGED <<drv, log>>
  PROVE  TurnInv'
<1>1. drv.pc = "off" /\ ~Suspended(rest, DriverOps) /\ AtMostOne(rest, DriverOps)
  BY DEF TurnInv, SingleDriver, SameDriver
<1>2. log.openTurn = 0 /\ log.openStep = 0
  <2>1. ~Suspended(stack, InTurnOps) /\ ~Suspended(stack, AdmitOps)
    BY OpsFacts DEF TurnInv, SingleDriver, Suspended
  <2> QED BY <1>1, <2>1 DEF TurnInv, LogAgrees, TurnAwait, HookAwait, InTurnOps, AdmitOps
<1>3. /\ Plain("start") \in Frame /\ Plain("start").op = "start"
      /\ stack' = Push(Plain("start"), rest) /\ rest \in Seq(Frame)
  BY StackType DEF StartDriver, SameDriver, Plain
<1>4. /\ Suspended(stack', DriverOps) /\ AtMostOne(stack', DriverOps)
      /\ ~Suspended(stack', InTurnOps) /\ ~Suspended(stack', AdmitOps)
  BY <1>1, <1>3, PushDriver, OpsFacts
<1>5. phase'.kind = "running" /\ phase'.turn = phase.turn
  BY DEF StartDriver, TypeOK, PhaseType
<1> QED BY <1>1, <1>2, <1>4, <1>5
        DEF TurnInv, SingleDriver, LogAgrees, TurnAwait, HookAwait, InTurnOps, AdmitOps

LEMMA WakeTurns ==
  ASSUME TypeOK, TurnInv, NEW b \in BOOLEAN, NEW rest, SameDriver(rest),
         WakeDriver(b, rest), UNCHANGED <<drv, log>>
  PROVE  TurnInv'
<1>1. CASE phase.kind = "idle" /\ StartDriver(rest)
  BY <1>1, StartDriverTurns
<1>2. CASE phase' = [phase EXCEPT !.wake = @ \/ Latches(b)] /\ stack' = rest
  <2>1. /\ phase'.kind = phase.kind /\ phase'.turn = phase.turn
        /\ phase'.step = phase.step
    BY <1>2 DEF TypeOK, PhaseType
  <2>2. SameDriver(stack')
    BY <1>2
  <2> QED BY <2>1, <2>2, HandleTurns
<1> QED BY <1>1, <1>2 DEF WakeDriver

LEMMA AbortTurns ==
  ASSUME TypeOK, TurnInv, NEW c \in Signal, NEW k \in BOOLEAN, NEW rest,
         SameDriver(rest), Abort(c, k, rest), UNCHANGED <<drv, log>>
  PROVE  TurnInv'
<1>1. /\ phase'.kind = phase.kind /\ phase'.turn = phase.turn
      /\ phase'.step = phase.step
  BY DEF Abort, TypeOK, PhaseType
<1>2. SameDriver(stack')
  BY DEF Abort
<1> QED BY <1>1, <1>2, HandleTurns

LEMMA ClearNextTurnTurns ==
  ASSUME TypeOK, TurnInv, NEW c \in Signal, NEW rest, SameDriver(rest),
         SameDriver(Push(Caused("abort", c), rest)),
         ClearNextTurn(c, rest), UNCHANGED <<drv, log>>
  PROVE  TurnInv'
<1>1. CASE Discard("next-turn") /\ stack' = Push(Caused("abort", c), rest)
  <2>1. SameDriver(stack') /\ UNCHANGED phase
    BY <1>1 DEF Discard
  <2> QED BY <2>1, HandleTurns
<1>2. CASE Abort(c, FALSE, rest)
  BY <1>2, AbortTurns
<1> QED BY <1>1, <1>2 DEF ClearNextTurn

LEMMA CallTurns ==
  ASSUME TypeOK, TurnInv, Call
  PROVE  TurnInv'
<1>0. /\ SameDriver(stack)
      /\ \A f \in Frame : f.op \notin DriverOps => SameDriver(Push(f, stack))
  BY StackKeepsDriver DEF TurnInv
<1>1. ASSUME NEW m \in Message, NEW l \in Lane, NEW w \in BOOLEAN, Send(m, l, w)
      PROVE  TurnInv'
  <2>1. WakesAfterAbort(w) \in BOOLEAN
    BY DEF WakesAfterAbort
  <2>2. SameDriver(Push(Latched("send", WakesAfterAbort(w)), stack))
    BY <1>0, <2>1, StackType, OpsFacts DEF Latched
  <2>3. SameDriver(stack')
    BY <1>0, <1>1, <2>2 DEF Send
  <2> QED BY <1>1, <2>3, HandleTurns DEF Send
<1>2. ASSUME NEW l, NEW i, NEW r, NEW ins, Splice(l, i, r, ins)
      PROVE  TurnInv'
  <2>1. SameDriver(stack')
    BY <1>0, <1>2 DEF Splice
  <2> QED BY <1>2, <2>1, HandleTurns DEF Splice
<1>3. ASSUME NEW c \in Cause, NEW k \in BOOLEAN, Cancel(c, k)
      PROVE  TurnInv'
  <2>1. UNCHANGED <<drv, log>> /\ c \in Signal
    BY <1>3 DEF Cancel, Signal
  <2>2. /\ SameDriver(Push(Caused("abort", c), stack))
        /\ SameDriver(Push(Caused("clear", c), stack))
    BY <1>0, <2>1, StackType, OpsFacts DEF Caused
  <2>3. CASE Abort(c, k, stack)
    BY <1>0, <2>1, <2>3, AbortTurns
  <2>4. CASE Discard("next-step") /\ stack' = Push(Caused("clear", c), stack)
    <3>1. SameDriver(stack') /\ UNCHANGED phase
      BY <2>2, <2>4 DEF Discard
    <3> QED BY <2>1, <3>1, HandleTurns
  <2>5. CASE ClearNextTurn(c, stack)
    BY <1>0, <2>1, <2>2, <2>5, ClearNextTurnTurns
  <2> QED BY <1>3, <2>3, <2>4, <2>5 DEF Cancel
<1>4. CASE StartMaintenance
  <2>1. SameDriver(stack') /\ UNCHANGED <<drv, stack, log>>
    BY <1>0, <1>4 DEF StartMaintenance
  <2>2. /\ phase.kind = "idle" /\ phase'.kind = "maintenance"
        /\ phase'.turn = phase.turn /\ phase'.step = phase.step
    BY <1>4 DEF StartMaintenance, TypeOK, PhaseType
  <2> QED BY <2>1, <2>2 DEF TurnInv, SingleDriver, LogAgrees
<1> QED BY <1>1, <1>2, <1>3, <1>4 DEF Call

(* turn begins: no turn is open, and the driver's frame goes on an otherwise
   driverless stack. *)
LEMMA BeginTurnTurns ==
  ASSUME TypeOK, TurnInv, NEW rest, Alone(rest), phase.kind = "running",
         log.openTurn = 0, log.openStep = 0, BeginTurn(rest)
  PROVE  TurnInv'
<1>1. CASE OpenTurn(rest)
  <2>1. /\ Plain("opened") \in Frame /\ Plain("opened").op = "opened"
        /\ rest \in Seq(Frame) /\ stack' = Push(Plain("opened"), rest)
    BY <1>1, StackType DEF OpenTurn, Plain, Alone
  <2>2. /\ Suspended(stack', DriverOps) /\ AtMostOne(stack', DriverOps)
        /\ Suspended(stack', InTurnOps) /\ ~Suspended(stack', AdmitOps)
    BY <2>1, PushDriver, OpsFacts DEF Alone
  <2>3. /\ phase'.kind = "running" /\ phase'.turn = phase.turn + 1
        /\ phase.turn \in Nat
    BY <1>1 DEF OpenTurn, TypeOK, PhaseType
  <2>4. /\ log'.openTurn = phase.turn + 1 /\ log'.lastTurn = phase.turn + 1
        /\ log'.openStep = 0 /\ drv'.pc = "off"
    BY <1>1 DEF OpenTurn, TypeOK, LogType, DriverType
  <2> QED BY <2>2, <2>3, <2>4 DEF TurnInv, SingleDriver, LogAgrees, InTurnOps, AdmitOps
<1>2. CASE SkipTurn(rest)
  <2>1. drv'.pc = "retired" /\ stack' = rest /\ UNCHANGED <<phase, log>>
    BY <1>2 DEF SkipTurn, TypeOK, DriverType
  <2>2. ~Suspended(rest, InTurnOps) /\ ~Suspended(rest, AdmitOps)
    BY OpsFacts DEF Alone, Suspended
  <2> QED BY <2>1, <2>2
          DEF TurnInv, SingleDriver, LogAgrees, InTurnOps, TurnAwait, HookAwait, AdmitOps, Alone
<1> QED BY <1>1, <1>2 DEF BeginTurn

LEMMA CloseTurnTurns ==
  ASSUME TypeOK, TurnInv, NEW next \in BOOLEAN, NEW rest, Alone(rest),
         phase.kind = "running", CloseTurn(next, rest)
  PROVE  TurnInv'
<1>1. /\ Latched("closing", next) \in Frame
      /\ Latched("closing", next).op = "closing"
      /\ rest \in Seq(Frame) /\ stack' = Push(Latched("closing", next), rest)
  BY StackType DEF CloseTurn, Latched, Alone
<1>2. /\ Suspended(stack', DriverOps) /\ AtMostOne(stack', DriverOps)
      /\ ~Suspended(stack', InTurnOps) /\ ~Suspended(stack', AdmitOps)
  BY <1>1, PushDriver, OpsFacts DEF Alone
<1>3. /\ log'.openTurn = 0 /\ log'.openStep = 0 /\ log'.lastTurn = log.lastTurn
      /\ drv'.pc = "off" /\ UNCHANGED phase
  BY DEF CloseTurn, TypeOK, LogType
<1> QED BY <1>2, <1>3 DEF TurnInv, SingleDriver, LogAgrees, InTurnOps, TurnAwait, HookAwait, AdmitOps

(* The batch is appended in an open turn and step. *)
LEMMA AppendNextTurns ==
  ASSUME TypeOK, TurnInv, NEW rest, Alone(rest), phase.kind = "running",
         log.openTurn # 0, log.openStep # 0, AppendNext(rest)
  PROVE  TurnInv'
<1>1. /\ UNCHANGED phase /\ log'.openTurn = log.openTurn
      /\ log'.lastTurn = log.lastTurn /\ log'.openStep = log.openStep
  BY DEF AppendNext, TypeOK, LogType
<1>2. CASE /\ drv' = [drv EXCEPT !.pc = "off", !.hand = Tail(@)]
           /\ stack' = Push(Plain("admitting"), rest)
  <2>1. /\ Plain("admitting") \in Frame /\ Plain("admitting").op = "admitting"
        /\ rest \in Seq(Frame)
    BY StackType DEF Plain, Alone
  <2>2. /\ Suspended(stack', DriverOps) /\ AtMostOne(stack', DriverOps)
        /\ Suspended(stack', InTurnOps) /\ Suspended(stack', AdmitOps)
    BY <1>2, <2>1, PushDriver, OpsFacts DEF Alone
  <2>3. drv'.pc = "off"
    BY <1>2 DEF TypeOK, DriverType
  <2> QED BY <1>1, <2>2, <2>3
          DEF TurnInv, SingleDriver, LogAgrees, InTurnOps, AdmitOps
<1>3. CASE drv' = [drv EXCEPT !.pc = "work"] /\ stack' = rest
  <2>1. drv'.pc = "work"
    BY <1>3 DEF TypeOK, DriverType
  <2>2. ~Suspended(rest, InTurnOps) /\ ~Suspended(rest, AdmitOps)
    BY OpsFacts DEF Alone, Suspended
  <2> QED BY <1>1, <1>3, <2>1, <2>2
          DEF TurnInv, SingleDriver, LogAgrees, InTurnOps, AdmitOps, TurnAwait,
              HookAwait, Alone
<1> QED BY <1>2, <1>3 DEF AppendNext

LEMMA ReturnTurns ==
  ASSUME TypeOK, TurnInv, Return
  PROVE  TurnInv'
<1>0. stack # <<>> /\ Tail(stack) \in Seq(Frame) /\ stack[1] \in Frame
  BY StackType DEF Return, ReturnSend, ReturnClear, ReturnAbort, ReturnStart,
     ReturnOpened, ReturnAdmitting, ReturnFailing, ReturnClosing,
     ReturnSettle, Top
<1>1. stack[1].latch \in BOOLEAN /\ stack[1].cause \in Signal
  BY <1>0 DEF Frame
<1>2. ASSUME stack[1].op \notin DriverOps
      PROVE  /\ SameDriver(Tail(stack))
             /\ \A f \in Frame : f.op \notin DriverOps
                                   => SameDriver(Push(f, Tail(stack)))
  BY <1>0, <1>2, StackKeepsDriver DEF TurnInv
<1>3. ASSUME stack[1].op \in DriverOps
      PROVE  /\ Alone(Tail(stack)) /\ drv.pc = "off" /\ phase.kind = "running"
             /\ ~Suspended(Tail(stack), InTurnOps)
             /\ ~Suspended(Tail(stack), AdmitOps)
             /\ log.openTurn # 0 <=> stack[1].op \in InTurnOps
             /\ log.openStep # 0 <=> stack[1].op \in AdmitOps
  BY <1>0, <1>3, DriverOnTop
     DEF TurnInv, LogAgrees, Alone, InTurnOps, AdmitOps, TurnAwait, HookAwait
<1>4. CASE ReturnSend
  <2>1. stack[1].op \notin DriverOps
    BY <1>4, OpsFacts DEF ReturnSend, Top
  <2> QED BY <1>1, <1>2, <1>4, <2>1, WakeTurns DEF ReturnSend
<1>5. CASE ReturnClear
  <2>1. stack[1].op \notin DriverOps
    BY <1>5, OpsFacts DEF ReturnClear, Top
  <2>2. SameDriver(Push(Caused("abort", stack[1].cause), Tail(stack)))
    BY <1>1, <1>2, <2>1, StackType, OpsFacts DEF Caused
  <2> QED BY <1>1, <1>2, <1>5, <2>1, <2>2, ClearNextTurnTurns DEF ReturnClear
<1>6. CASE ReturnAbort
  <2>1. stack[1].op \notin DriverOps
    BY <1>6, OpsFacts DEF ReturnAbort, Top
  <2> QED BY <1>1, <1>2, <1>6, <2>1, AbortTurns DEF ReturnAbort
<1>7. CASE ReturnStart
  <2>1. stack[1].op \in DriverOps \ InTurnOps /\ stack[1].op \notin AdmitOps
    BY <1>7, OpsFacts DEF ReturnStart, Top
  <2> QED BY <1>3, <1>7, <2>1, BeginTurnTurns DEF ReturnStart
<1>8. CASE ReturnOpened
  <2>1. stack[1].op \in DriverOps /\ stack[1].op \in InTurnOps \ AdmitOps
    BY <1>8, OpsFacts DEF ReturnOpened, Top
  <2>2. CASE CloseTurn(FALSE, Tail(stack))
    BY <1>3, <2>1, <2>2, CloseTurnTurns
  <2>3. CASE /\ drv' = [drv EXCEPT !.pc = "assemble", !.hand = Batch("next-turn")]
             /\ stack' = Tail(stack)
             /\ UNCHANGED <<phase, log>>
    <3>1. drv'.pc = "assemble"
      BY <2>3 DEF TypeOK, DriverType
    <3> QED BY <1>3, <2>1, <2>3, <3>1
            DEF TurnInv, SingleDriver, LogAgrees, InTurnOps, TurnAwait, HookAwait, AdmitOps, Alone
  <2> QED BY <1>8, <2>2, <2>3 DEF ReturnOpened
<1>9. CASE ReturnFailing
  <2>1. stack[1].op \in DriverOps
    BY <1>9, OpsFacts DEF ReturnFailing, Top
  <2> QED BY <1>3, <1>9, <2>1, CloseTurnTurns DEF ReturnFailing
<1>10. CASE ReturnClosing
  <2>1. stack[1].op \in DriverOps \ InTurnOps /\ stack[1].op \notin AdmitOps
    BY <1>10, OpsFacts DEF ReturnClosing, Top
  <2>2. phase'.kind = phase.kind /\ phase'.turn = phase.turn
    <3>1. CASE phase' = [phase EXCEPT !.abort = "live", !.wake = FALSE, !.step = 0]
      BY <3>1 DEF TypeOK, PhaseType
    <3> QED BY <1>10, <3>1 DEF ReturnClosing
  <2>3. drv'.pc \in {"again", "retired"}
    <3>1. CASE drv' = [drv EXCEPT !.pc = "again"]
      BY <3>1 DEF TypeOK, DriverType
    <3>2. CASE drv' = [drv EXCEPT !.pc = "retired"]
      BY <3>2 DEF TypeOK, DriverType
    <3> QED BY <1>10, <3>1, <3>2 DEF ReturnClosing
  <2>4. stack' = Tail(stack) /\ UNCHANGED log
    BY <1>10 DEF ReturnClosing
  <2> QED BY <1>3, <2>1, <2>2, <2>3, <2>4
          DEF TurnInv, SingleDriver, LogAgrees, InTurnOps, TurnAwait, HookAwait, AdmitOps, Alone
<1>11. CASE ReturnSettle
  <2>1. stack[1].op \notin DriverOps
    BY <1>11, OpsFacts DEF ReturnSettle, Top
  <2>2. CASE WakeDriver(FALSE, Tail(stack))
    BY <1>2, <1>11, <2>1, <2>2, WakeTurns DEF ReturnSettle
  <2>3. CASE stack' = Tail(stack) /\ UNCHANGED phase
    BY <1>2, <1>11, <2>1, <2>3, HandleTurns DEF ReturnSettle
  <2> QED BY <1>11, <2>2, <2>3 DEF ReturnSettle
<1>12. CASE ReturnAdmitting
  <2>1. stack[1].op \in DriverOps /\ stack[1].op \in InTurnOps
        /\ stack[1].op \in AdmitOps
    BY <1>12, OpsFacts DEF ReturnAdmitting, Top
  <2> QED BY <1>3, <1>12, <2>1, AppendNextTurns DEF ReturnAdmitting
<1> QED BY <1>4, <1>5, <1>6, <1>7, <1>8, <1>9, <1>10, <1>11, <1>12 DEF Return

(* The driver goes on from an await to another one, with the stack empty. *)
LEMMA ResumeTurns ==
  ASSUME TypeOK, TurnInv, Resume
  PROVE  TurnInv'
<1>0. stack = <<>> /\ drv.pc # "off" /\ phase.kind = "running"
  <2>1. stack = <<>> /\ drv.pc # "off"
    BY DEF Resume, Interrupted, Fails, Reject, EnterStep, EndEmpty, Admit, Retry,
           Decided, Prepared, Finish, EndStep, Stop, NextTurn, Settle, Resumes, TurnAwait, HookAwait
  <2> QED BY <2>1 DEF TurnInv, SingleDriver
<1>1. /\ Alone(stack) /\ Alone(<<>>)
      /\ ~Suspended(stack, InTurnOps) /\ ~Suspended(stack, AdmitOps)
      /\ log.openTurn # 0 <=> drv.pc \in TurnAwait
      /\ log.openStep # 0 <=> drv.pc \in {"prepare", "prepared", "work"}
  BY <1>0, EmptyAlone, EmptySuspended DEF TurnInv, LogAgrees, InTurnOps, AdmitOps
<1>2. ASSUME drv'.pc \in TurnAwait, drv.pc \in TurnAwait, UNCHANGED stack,
             phase'.kind = phase.kind, phase'.turn = phase.turn,
             log'.openTurn = log.openTurn, log'.lastTurn = log.lastTurn,
             log'.openStep # 0 => log'.openStep = phase'.step,
             log'.openStep # 0 <=> drv'.pc \in {"prepare", "prepared", "work"}
      PROVE  TurnInv'
  BY <1>0, <1>1, <1>2
     DEF TurnInv, SingleDriver, LogAgrees, InTurnOps, TurnAwait, HookAwait, AdmitOps, Alone
<1>3. CASE Interrupted \/ Reject
  BY <1>0, <1>1, <1>3, CloseTurnTurns DEF Interrupted, Reject
<1>4. CASE Fails
  <2>1. /\ Plain("failing") \in Frame /\ Plain("failing").op = "failing"
        /\ stack' = Push(Plain("failing"), stack)
    BY <1>4, StackType DEF Fails, Plain
  <2>2. /\ Suspended(stack', DriverOps) /\ AtMostOne(stack', DriverOps)
        /\ Suspended(stack', InTurnOps) /\ ~Suspended(stack', AdmitOps)
    BY <1>1, <2>1, PushDriver, OpsFacts DEF Alone
  <2>3. /\ drv.pc \in TurnAwait /\ UNCHANGED phase /\ drv'.pc = "off"
        /\ log'.openTurn = log.openTurn /\ log'.lastTurn = log.lastTurn
        /\ log'.openStep = 0
    BY <1>4 DEF Fails, TypeOK, DriverType, LogType, TurnAwait
  <2> QED BY <1>0, <1>1, <2>2, <2>3
          DEF TurnInv, SingleDriver, LogAgrees, InTurnOps, TurnAwait, HookAwait, AdmitOps
<1>5. ASSUME NEW batch \in Kept, NEW extra \in BOOLEAN, EnterStep(batch, extra)
      PROVE  TurnInv'
  <2>1. /\ drv.pc = "decided" /\ drv'.pc = "prepare" /\ UNCHANGED stack
        /\ phase.step \in Nat /\ phase'.step = phase.step + 1
        /\ phase'.kind = phase.kind /\ phase'.turn = phase.turn
        /\ log'.openTurn = log.openTurn /\ log'.lastTurn = log.lastTurn
        /\ log'.openStep = phase.step + 1
    BY <1>5 DEF EnterStep, Resumes, TypeOK, PhaseType, DriverType, LogType
  <2> QED BY <1>2, <2>1 DEF TurnAwait, HookAwait
<1>6. ASSUME NEW batch \in Kept, NEW extra \in BOOLEAN, EndEmpty(batch, extra)
      PROVE  TurnInv'
  BY <1>0, <1>1, <1>6, CloseTurnTurns DEF EndEmpty
<1>7. CASE Admit
  <2>1. drv.pc = "prepared" /\ AppendNext(<<>>)
    BY <1>7 DEF Admit, Resumes
  <2>2. log.openTurn # 0 /\ log.openStep # 0
    BY <1>1, <2>1 DEF TurnAwait, HookAwait
  <2> QED BY <1>0, <1>1, <2>1, <2>2, AppendNextTurns
<1>13. CASE Decided \/ Prepared
  <2>1. /\ UNCHANGED <<phase, stack, log>>
        /\ \/ drv.pc = "assemble" /\ drv'.pc = "decided"
           \/ drv.pc = "prepare" /\ drv'.pc = "prepared"
    BY <1>13 DEF Decided, Prepared, Resumes, TypeOK, DriverType
  <2> QED BY <1>1, <1>2, <2>1 DEF TurnAwait, HookAwait, TurnInv, LogAgrees
<1>8. CASE Retry
  <2>1. /\ drv.pc = "work" /\ drv'.pc = "prepare" /\ UNCHANGED <<phase, stack, log>>
    BY <1>8 DEF Retry, Resumes, TypeOK, DriverType
  <2> QED BY <1>1, <1>2, <2>1 DEF TurnAwait, HookAwait, TurnInv, LogAgrees
<1>9. CASE Finish
  <2>1. PICK o \in {"completed", "max-tokens", "tools"} : EndStep(o)
    BY <1>9 DEF Finish
  <2>2. drv.pc = "work" /\ UNCHANGED <<phase, stack>>
    BY <2>1 DEF EndStep, Resumes
  <2>3. /\ log'.openTurn = log.openTurn /\ log'.lastTurn = log.lastTurn
        /\ log'.openStep = 0
    BY <2>1 DEF EndStep, TypeOK, LogType
  <2>4. drv'.pc \in {"stopping", "assemble"}
    <3>1. CASE EndsAfter(o) # "none" /\ box["next-step"] = <<>>
      BY <2>1, <3>1 DEF EndStep, TypeOK, DriverType
    <3>2. CASE ~(EndsAfter(o) # "none" /\ box["next-step"] = <<>>)
      BY <2>1, <3>2 DEF EndStep
    <3> QED BY <3>1, <3>2
  <2> QED BY <1>2, <2>2, <2>3, <2>4 DEF TurnAwait, HookAwait
<1>10. CASE Stop
  <2>1. CASE CloseTurn(TRUE, <<>>)
    BY <1>0, <1>1, <2>1, CloseTurnTurns
  <2>2. CASE /\ drv' = [drv EXCEPT !.pc = "assemble", !.hand = Batch("next-step")]
             /\ UNCHANGED <<phase, stack, log>>
    <3>1. drv.pc = "stopping" /\ drv'.pc = "assemble"
      BY <1>10, <2>2 DEF Stop, Resumes, TypeOK, DriverType
    <3> QED BY <1>1, <1>2, <2>2, <3>1 DEF TurnAwait, HookAwait
  <2> QED BY <1>10, <2>1, <2>2 DEF Stop
<1>11. CASE NextTurn
  <2>1. drv.pc = "again" /\ BeginTurn(<<>>)
    BY <1>11 DEF NextTurn, Resumes
  <2>2. log.openTurn = 0 /\ log.openStep = 0
    BY <1>1, <2>1 DEF TurnAwait, HookAwait
  <2> QED BY <1>0, <1>1, <2>1, <2>2, BeginTurnTurns
<1>12. CASE Settle
  <2> DEFINE f == [op |-> "settle", latch |-> phase.wake,
                   cause |-> IF condemned THEN "disposed" ELSE "live"]
  <2>1. f \in Frame /\ f.op = "settle" /\ stack' = Push(f, stack)
    BY <1>12 DEF Settle, TypeOK, PhaseType, Frame, Signal, Cause
  <2>2. /\ Alone(stack') /\ ~Suspended(stack', InTurnOps)
        /\ ~Suspended(stack', AdmitOps)
    <3> HIDE DEF f
    <3>1. f.op \notin DriverOps /\ f.op \notin InTurnOps /\ f.op \notin AdmitOps
      BY <2>1, OpsFacts
    <3>2. stack' \in Seq(Frame)
      BY <1>1, <2>1, StackType DEF Alone
    <3> QED BY <1>1, <2>1, <3>1, <3>2, PushSuspended DEF Alone
  <2>3. /\ drv.pc = "retired" /\ drv'.pc = "off" /\ UNCHANGED log
        /\ phase'.kind = "idle" /\ phase'.turn = phase.turn
    BY <1>12 DEF Settle, Resumes, TypeOK, PhaseType, DriverType
  <2> QED BY <1>1, <2>2, <2>3
          DEF TurnInv, SingleDriver, LogAgrees, InTurnOps, TurnAwait, HookAwait, AdmitOps, Alone
<1> QED BY <1>3, <1>4, <1>5, <1>6, <1>7, <1>8, <1>9, <1>10, <1>11, <1>12, <1>13
        DEF Resume

LEMMA FinishMaintenanceTurns ==
  ASSUME TypeOK, TurnInv, FinishMaintenance
  PROVE  TurnInv'
<1>1. phase.kind = "maintenance" /\ stack = <<>> /\ UNCHANGED <<drv, log>>
  BY DEF FinishMaintenance
<1>2. SameDriver(stack)
  BY StackKeepsDriver DEF TurnInv
<1>3. CASE StartDriver(<<>>)
  BY <1>1, <1>2, <1>3, StartDriverTurns
<1>4. CASE /\ phase' = [phase EXCEPT !.kind = "idle", !.abort = "live", !.wake = FALSE]
           /\ UNCHANGED stack
  <2>1. /\ phase'.kind = "idle" /\ phase'.turn = phase.turn
        /\ phase'.step = phase.step
    BY <1>4 DEF TypeOK, PhaseType
  <2> QED BY <1>1, <1>4, <2>1 DEF TurnInv, SingleDriver, LogAgrees
<1> QED BY <1>3, <1>4 DEF FinishMaintenance

LEMMA TurnsInductive == Spec => [](TypeOK /\ TurnInv)
<1>1. Init => TurnInv
  BY EmptySuspended DEF Init, TurnInv, SingleDriver, LogAgrees, TurnAwait, HookAwait
<1>2. TypeOK /\ TurnInv /\ [Next]_vars => TurnInv'
  <2> SUFFICES ASSUME TypeOK, TurnInv, [Next]_vars PROVE TurnInv'
    OBVIOUS
  <2>1. CASE UNCHANGED vars
    BY <2>1 DEF vars, TurnInv, SingleDriver, LogAgrees
  <2> QED BY <2>1, CallTurns, ReturnTurns, ResumeTurns, FinishMaintenanceTurns DEF Next
<1> QED BY <1>1, <1>2, TypeCorrect, PTL DEF Spec

(* No two drivers ever run: however listeners wake, cancel and wake again from
   inside the agent's own notifications, a running agent has one driver and
   any other has none (agent.ts wakeDriver and kick). *)
THEOREM OneDriver == Spec => []SingleDriver
<1>1. TurnInv => SingleDriver
  BY DEF TurnInv
<1> QED BY <1>1, TurnsInductive, PTL

(* The boundaries in the session log are those of the driver (agent.ts turn
   and its finally block). *)
THEOREM BoundariesAgree == Spec => []LogAgrees
<1>1. TurnInv => LogAgrees
  BY DEF TurnInv
<1> QED BY <1>1, TurnsInductive, PTL

-----------------------------------------------------------------------------
(* What a step may do to the log *)

(* Opening a turn is the only way to a new open turn, entering a step with a
   live signal the only one to a new step, and the appends of a batch the only
   ones to a longer history. *)
LEMMA LogSteps ==
  ASSUME TypeOK, TurnInv, [Next]_vars
  PROVE  /\ log'.openTurn \notin {0, log.openTurn} =>
              /\ log.openTurn = 0 /\ log'.openTurn = phase.turn + 1
              /\ Live /\ \E rest : OpenTurn(rest)
         /\ log'.openStep \notin {0, log.openStep} => Live
         /\ log'.surface # log.surface => Admit \/ ReturnAdmitting
<1>1. CASE Call \/ ReturnSend \/ ReturnClear \/ ReturnAbort \/ ReturnClosing
           \/ ReturnSettle \/ Decided \/ Prepared \/ Retry \/ Settle
           \/ FinishMaintenance \/ UNCHANGED vars
  <2>1. UNCHANGED log
    BY <1>1, ZenonT(40) DEF Call, Send, Splice, Cancel, StartMaintenance, ReturnSend,
       ReturnClear, ReturnAbort, ReturnClosing, ReturnSettle, Decided, Prepared,
       Retry, Settle, FinishMaintenance, vars
  <2> QED BY <2>1
<1>2. ASSUME NEW next, NEW rest, CloseTurn(next, rest)
      PROVE  /\ log'.openTurn = 0 /\ log'.openStep = 0
             /\ log'.surface = log.surface
  BY <1>2 DEF CloseTurn, TypeOK, LogType
<1>3. ASSUME NEW rest, log.openTurn = 0, BeginTurn(rest)
      PROVE  /\ log'.openTurn \notin {0, log.openTurn} =>
                  /\ log.openTurn = 0 /\ log'.openTurn = phase.turn + 1
                  /\ Live /\ \E r : OpenTurn(r)
             /\ log'.openStep = log.openStep
             /\ log'.surface = log.surface
  <2>1. CASE Live /\ OpenTurn(rest)
    <3>1. /\ log'.openTurn = phase.turn + 1
          /\ log'.openStep = log.openStep /\ log'.surface = log.surface
      BY <2>1 DEF OpenTurn, TypeOK, LogType
    <3> QED BY <1>3, <2>1, <3>1
  <2>2. CASE SkipTurn(rest)
    BY <2>2 DEF SkipTurn
  <2> QED BY <1>3, <2>1, <2>2 DEF BeginTurn
<1>4. CASE ReturnStart
  <2>1. stack # <<>> /\ stack[1].op \in DriverOps \ InTurnOps
    BY <1>4, OpsFacts DEF ReturnStart, Top
  <2>2. log.openTurn = 0
    BY <2>1, DriverOnTop DEF TurnInv, LogAgrees, InTurnOps, TurnAwait, HookAwait
  <2> QED BY <1>3, <1>4, <2>2 DEF ReturnStart
<1>5. CASE NextTurn
  <2>1. log.openTurn = 0
    BY <1>5, EmptySuspended DEF NextTurn, Resumes, TurnInv, LogAgrees, TurnAwait, HookAwait
  <2> QED BY <1>3, <1>5, <2>1 DEF NextTurn
<1>6. CASE ReturnOpened \/ ReturnFailing \/ Interrupted \/ Reject \/ Stop
  <2>1. CASE UNCHANGED log
    BY <2>1
  <2>2. CASE \E next, rest : CloseTurn(next, rest)
    BY <1>2, <2>2
  <2> QED BY <1>6, <2>1, <2>2
          DEF ReturnOpened, ReturnFailing, Interrupted, Reject, Stop
<1>7. CASE Fails \/ Finish
  <2>1. /\ log'.openTurn = log.openTurn /\ log'.openStep = 0
        /\ log'.surface = log.surface
    BY <1>7 DEF Fails, Finish, EndStep, TypeOK, LogType
  <2> QED BY <2>1
<1>8. ASSUME NEW batch \in Kept, NEW extra \in BOOLEAN,
             EnterStep(batch, extra) \/ EndEmpty(batch, extra)
      PROVE  /\ log'.openTurn \in {0, log.openTurn}
             /\ log'.openStep # 0 => Live
             /\ log'.surface = log.surface
  <2>1. CASE EnterStep(batch, extra)
    BY <2>1 DEF EnterStep, TypeOK, LogType
  <2>2. CASE EndEmpty(batch, extra)
    BY <1>2, <2>2 DEF EndEmpty
  <2> QED BY <1>8, <2>1, <2>2
<1>9. CASE Admit \/ ReturnAdmitting
  <2>1. log'.openTurn = log.openTurn /\ log'.openStep = log.openStep
    BY <1>9 DEF Admit, ReturnAdmitting, AppendNext, TypeOK, LogType
  <2> QED BY <1>9, <2>1
<1> QED BY <1>1, <1>4, <1>5, <1>6, <1>7, <1>8, <1>9 DEF Next, Return, Resume

(* Turn numbers have no gap and no repetition (agent.ts turn, OpenTurn). *)
THEOREM TurnsSuccessive == Spec => TurnsDense
<1>1. ASSUME TypeOK, TurnInv, [Next]_vars
      PROVE  log'.openTurn # log.openTurn /\ log'.openTurn # 0
               => log.openTurn = 0 /\ log'.openTurn = log.lastTurn + 1
  <2>1. log.lastTurn = phase.turn
    BY <1>1 DEF TurnInv, LogAgrees
  <2> QED BY <1>1, <2>1, LogSteps
<1>2. TypeOK /\ TurnInv /\ [Next]_vars =>
        [ log'.openTurn # log.openTurn /\ log'.openTurn # 0
            => log.openTurn = 0 /\ log'.openTurn = log.lastTurn + 1 ]_vars
  BY <1>1
<1> QED BY <1>2, TurnsInductive, PTL DEF Spec, TurnsDense

(* Only the opening of a turn puts an "opened" frame on the stack, only the
   appends of a batch an "admitting" one. *)
LEMMA TurnFrames ==
  ASSUME TypeOK, [Next]_vars, NEW kind \in {"opened", "admitting"},
         Suspended(stack', {kind}),
         kind = "opened" => \A rest : ~OpenTurn(rest),
         kind = "admitting" => ~Admit /\ ~ReturnAdmitting
  PROVE  Suspended(stack, {kind})
<1> DEFINE op == {kind}
<1>1. stack \in Seq(Frame)
  BY DEF TypeOK
<1>2. stack # <<>> => /\ Tail(stack) \in Seq(Frame) /\ stack[1] \in Frame
                      /\ Suspended(Tail(stack), op) => Suspended(stack, op)
  BY <1>1, TopSuspended
<1>3. ASSUME NEW rest \in Seq(Frame), Suspended(rest, op) => Suspended(stack, op),
             NEW f \in Frame, f.op # kind, stack' = Push(f, rest)
      PROVE  Suspended(stack, op)
  BY <1>3, PushSuspended
<1>4. ASSUME NEW rest \in Seq(Frame), Suspended(rest, op) => Suspended(stack, op),
             stack' = rest \/ StartDriver(rest) \/ BeginTurn(rest)
             \/ (\E next \in BOOLEAN : CloseTurn(next, rest))
      PROVE  Suspended(stack, op)
  <2>1. CASE stack' = rest
    BY <1>4, <2>1
  <2>2. CASE StartDriver(rest)
    BY <1>3, <1>4, <2>2, StackType DEF StartDriver, Plain
  <2>3. CASE BeginTurn(rest)
    <3>1. CASE OpenTurn(rest)
      BY <1>3, <1>4, <3>1, StackType DEF OpenTurn, Plain
    <3>2. CASE SkipTurn(rest)
      BY <1>4, <3>2 DEF SkipTurn
    <3> QED BY <2>3, <3>1, <3>2 DEF BeginTurn
  <2>4. ASSUME NEW next \in BOOLEAN, CloseTurn(next, rest) PROVE Suspended(stack, op)
    BY <1>3, <1>4, <2>4, StackType DEF CloseTurn, Latched
  <2> QED BY <1>4, <2>1, <2>2, <2>3, <2>4
<1>5. ASSUME NEW c \in Signal, NEW rest \in Seq(Frame),
             Suspended(rest, op) => Suspended(stack, op),
             ClearNextTurn(c, rest)
      PROVE  Suspended(stack, op)
  <2>1. CASE stack' = Push(Caused("abort", c), rest)
    BY <1>3, <1>5, <2>1, StackType DEF Caused
  <2>2. CASE Abort(c, FALSE, rest)
    BY <1>4, <1>5, <2>2 DEF Abort
  <2> QED BY <1>5, <2>1, <2>2 DEF ClearNextTurn
<1>10. ASSUME NEW rest \in Seq(Frame), Suspended(rest, op) => Suspended(stack, op),
              kind # "admitting", AppendNext(rest)
       PROVE  Suspended(stack, op)
  <2>1. CASE stack' = rest
    BY <1>10, <2>1
  <2>2. CASE stack' = Push(Plain("admitting"), rest)
    BY <1>3, <1>10, <2>2, StackType DEF Plain
  <2> QED BY <1>10, <2>1, <2>2 DEF AppendNext
<1>6. CASE Call
  <2>1. ASSUME NEW m \in Message, NEW l \in Lane, NEW w \in BOOLEAN, Send(m, l, w)
        PROVE  Suspended(stack, op)
    <3>1. CASE stack' = stack
      BY <3>1
    <3>2. CASE stack' = Push(Latched("send", WakesAfterAbort(w)), stack)
      <4>1. WakesAfterAbort(w) \in BOOLEAN
        BY DEF WakesAfterAbort
      <4> QED BY <1>1, <1>3, <3>2, <4>1, StackType DEF Latched
    <3> QED BY <2>1, <3>1, <3>2 DEF Send
  <2>2. ASSUME NEW l, NEW i, NEW r, NEW ins, Splice(l, i, r, ins)
        PROVE  Suspended(stack, op)
    BY <2>2 DEF Splice
  <2>3. ASSUME NEW c \in Cause, NEW k \in BOOLEAN, Cancel(c, k)
        PROVE  Suspended(stack, op)
    <3>1. c \in Signal
      BY DEF Signal
    <3>2. CASE Abort(c, k, stack)
      BY <3>2 DEF Abort
    <3>3. CASE stack' = Push(Caused("clear", c), stack)
      BY <1>1, <1>3, <3>1, <3>3, StackType DEF Caused
    <3>4. CASE ClearNextTurn(c, stack)
      BY <1>1, <1>5, <3>1, <3>4
    <3> QED BY <2>3, <3>2, <3>3, <3>4 DEF Cancel
  <2>4. CASE StartMaintenance
    BY <2>4 DEF StartMaintenance
  <2> QED BY <1>6, <2>1, <2>2, <2>3, <2>4 DEF Call
<1>7. CASE Return
  <2>1. stack # <<>>
    BY <1>7 DEF Return, ReturnSend, ReturnClear, ReturnAbort, ReturnStart,
       ReturnOpened, ReturnAdmitting, ReturnFailing, ReturnClosing,
     ReturnSettle, Top
  <2>2. stack[1].cause \in Signal
    BY <1>2, <2>1 DEF Frame
  <2>3. CASE ReturnClear
    BY <1>2, <1>5, <2>1, <2>2, <2>3 DEF ReturnClear
  <2>4. CASE ReturnSend \/ ReturnSettle
    <3>1. stack' = Tail(stack) \/ StartDriver(Tail(stack))
      BY <2>4 DEF ReturnSend, ReturnSettle, WakeDriver
    <3> QED BY <1>2, <1>4, <2>1, <3>1
  <2>5. CASE ReturnAbort \/ ReturnStart \/ ReturnOpened \/ ReturnFailing
             \/ ReturnClosing
    <3>1. \/ stack' = Tail(stack) \/ BeginTurn(Tail(stack))
          \/ CloseTurn(FALSE, Tail(stack))
      BY <2>5 DEF ReturnAbort, Abort, ReturnStart, ReturnOpened, ReturnFailing,
                  ReturnClosing
    <3> QED BY <1>2, <1>4, <2>1, <3>1
  <2>6. CASE ReturnAdmitting
    BY <1>2, <1>10, <2>1, <2>6 DEF ReturnAdmitting
  <2> QED BY <1>7, <2>3, <2>4, <2>5, <2>6 DEF Return
<1>8. CASE Resume \/ FinishMaintenance
  <2>1. stack = <<>>
    BY <1>8 DEF Resume, Interrupted, Fails, Reject, EnterStep, EndEmpty, Admit,
       Decided, Prepared, Retry, Finish, EndStep, Stop, NextTurn, Settle, Resumes, FinishMaintenance
  <2>2. CASE stack' = stack \/ StartDriver(<<>>) \/ BeginTurn(<<>>)
             \/ \E next \in BOOLEAN : CloseTurn(next, <<>>)
    BY <1>1, <1>4, <2>1, <2>2
  <2>3. CASE Fails
    BY <1>1, <1>3, <2>3, StackType DEF Fails, Plain
  <2>4. CASE Settle
    <3> DEFINE f == [op |-> "settle", latch |-> phase.wake,
                     cause |-> IF condemned THEN "disposed" ELSE "live"]
    <3>1. f \in Frame /\ f.op # kind /\ stack' = Push(f, stack)
      BY <2>4 DEF Settle, TypeOK, PhaseType, Frame, Signal, Cause
    <3> HIDE DEF f
    <3> QED BY <1>1, <1>3, <3>1
  <2>5. CASE Interrupted \/ Reject \/ Stop \/ NextTurn \/ FinishMaintenance
             \/ Decided \/ Prepared \/ Retry \/ Finish
    BY <2>2, <2>5 DEF Interrupted, Reject, Stop, NextTurn, FinishMaintenance,
                      Decided, Prepared, Retry, Finish, EndStep
  <2>6. ASSUME NEW batch \in Kept, NEW extra \in BOOLEAN,
               EnterStep(batch, extra) \/ EndEmpty(batch, extra)
        PROVE  Suspended(stack, op)
    BY <2>2, <2>6 DEF EnterStep, EndEmpty
  <2>7. CASE Admit
    BY <1>1, <1>10, <2>1, <2>7 DEF Admit
  <2> QED BY <1>8, <2>3, <2>4, <2>5, <2>6, <2>7 DEF Resume
<1>9. CASE UNCHANGED vars
  BY <1>9 DEF vars
<1> QED BY <1>6, <1>7, <1>8, <1>9 DEF Next

(* With an aborted signal nothing is taken from the inbox. *)
LEMMA NoClaim ==
  ASSUME TypeOK, [Next]_vars, ~Live, NEW m \in Message, fate[m] \in Lane
  PROVE  fate'[m] # "claimed"
<1>0. fate[m] # "claimed" /\ fate \in [Message -> Fate]
  BY DEF Lane, TypeOK
<1>1. ASSUME UNCHANGED fate PROVE fate'[m] # "claimed"
  BY <1>0, <1>1
<1>2. ASSUME NEW l \in Lane, Discard(l) PROVE fate'[m] # "claimed"
  BY <1>0, <1>2 DEF Discard
<1>3. ASSUME NEW c, NEW rest, ClearNextTurn(c, rest) PROVE fate'[m] # "claimed"
  BY <1>1, <1>2, <1>3 DEF ClearNextTurn, boxVars, Lane
<1>4. CASE Call
  <2>1. ASSUME NEW n \in Message, NEW l \in Lane, NEW w \in BOOLEAN, Send(n, l, w)
        PROVE  fate'[m] # "claimed"
    BY <1>0, <2>1 DEF Send, Lane
  <2>2. ASSUME NEW l \in Lane, NEW i, NEW r, NEW ins, Splice(l, i, r, ins)
        PROVE  fate'[m] # "claimed"
    BY <1>0, <2>2 DEF Splice, Lane
  <2>3. ASSUME NEW c, NEW k, Cancel(c, k) PROVE fate'[m] # "claimed"
    BY <1>1, <1>2, <1>3, <2>3 DEF Cancel, boxVars, Lane
  <2>4. CASE StartMaintenance
    BY <1>1, <2>4 DEF StartMaintenance, boxVars
  <2> QED BY <1>4, <2>1, <2>2, <2>3, <2>4 DEF Call
<1>5. ASSUME NEW rest, AppendNext(rest) PROVE fate'[m] # "claimed"
  BY <1>0, <1>5 DEF AppendNext
<1>6. ASSUME NEW next, NEW rest, CloseTurn(next, rest) PROVE fate'[m] # "claimed"
  BY <1>1, <1>6 DEF CloseTurn, boxVars
<1>7. CASE Return
  <2>1. CASE ReturnClear
    BY <1>3, <2>1 DEF ReturnClear
  <2>2. CASE ReturnOpened \/ ReturnFailing
    BY <1>6, <2>2 DEF ReturnOpened, ReturnFailing
  <2>3. CASE ReturnAdmitting
    BY <1>5, <2>3 DEF ReturnAdmitting
  <2>4. CASE ReturnSend \/ ReturnAbort \/ ReturnStart \/ ReturnClosing \/ ReturnSettle
    BY <1>1, <2>4 DEF ReturnSend, ReturnAbort, ReturnStart, ReturnClosing,
                      ReturnSettle, boxVars
  <2> QED BY <1>7, <2>1, <2>2, <2>3, <2>4 DEF Return
<1>8. CASE Resume
  <2>1. CASE Interrupted \/ Reject
    BY <1>6, <2>1 DEF Interrupted, Reject
  <2>2. ASSUME NEW batch \in Kept, NEW extra \in BOOLEAN,
               EnterStep(batch, extra) \/ EndEmpty(batch, extra)
        PROVE  fate'[m] # "claimed"
    BY <1>6, <2>2 DEF EnterStep, EndEmpty
  <2>3. CASE Admit
    BY <1>5, <2>3 DEF Admit
  <2>4. CASE NextTurn \/ Settle
    BY <1>1, <2>4 DEF NextTurn, Settle, boxVars
  <2> QED BY <1>8, <2>1, <2>2, <2>3, <2>4
          DEF Resume, Fails, Decided, Prepared, Retry, Finish, EndStep, Stop
<1> QED BY <1>1, <1>4, <1>7, <1>8 DEF Next, FinishMaintenance, boxVars, vars

(* With an aborted signal no request becomes prepared. *)
LEMMA NoAdmission ==
  ASSUME TypeOK, [Next]_vars, ~Live, Admitting'
  PROVE  Admitting
<1>1. CASE Suspended(stack', {"admitting"})
  <2>1. CASE Admit \/ ReturnAdmitting
    <3>1. CASE Admit
      BY <3>1 DEF Admit, Resumes, Admitting
    <3>2. CASE ReturnAdmitting
      <4>1. stack \in Seq(Frame) /\ stack # <<>> /\ stack[1].op \in {"admitting"}
        BY <3>2 DEF ReturnAdmitting, Top, TypeOK
      <4> QED BY <4>1, TopSuspended DEF Admitting
    <3> QED BY <2>1, <3>1, <3>2
  <2> QED BY <1>1, <2>1, TurnFrames DEF Admitting
<1>2. CASE drv'.pc = "prepared"
  <2>1. ASSUME NEW next, NEW rest, CloseTurn(next, rest) PROVE FALSE
    BY <1>2, <2>1 DEF CloseTurn
  <2>2. ASSUME NEW rest, BeginTurn(rest) PROVE drv.pc = "prepared"
    BY <1>2, <2>2 DEF BeginTurn, OpenTurn, SkipTurn, TypeOK, DriverType
  <2>3. ASSUME NEW rest, AppendNext(rest) PROVE FALSE
    BY <1>2, <2>3 DEF AppendNext, TypeOK, DriverType
  <2>4. CASE Call
    BY <1>2, <2>4 DEF Call, Send, Splice, Cancel, StartMaintenance, Admitting
  <2>5. CASE Return
    BY <1>2, <2>1, <2>2, <2>3, <2>5
       DEF Return, ReturnSend, ReturnClear, ReturnAbort, ReturnStart, ReturnOpened,
           ReturnAdmitting, ReturnFailing, ReturnClosing, ReturnSettle, Admitting,
           TypeOK, DriverType
  <2>6. CASE Resume
    <3>1. CASE Interrupted \/ Reject \/ Admit \/ NextTurn
      BY <2>1, <2>2, <2>3, <3>1 DEF Interrupted, Reject, Admit, NextTurn, Admitting
    <3>2. ASSUME NEW batch \in Kept, NEW extra \in BOOLEAN,
                 EnterStep(batch, extra) \/ EndEmpty(batch, extra)
          PROVE  FALSE
      BY <2>1, <3>2 DEF EnterStep, EndEmpty
    <3>3. CASE Settle
      BY <1>2, <3>3 DEF Settle, TypeOK, DriverType
    <3> QED BY <2>6, <3>1, <3>2, <3>3
            DEF Resume, Fails, Decided, Prepared, Retry, Finish, EndStep, Stop
  <2> QED BY <1>2, <2>4, <2>5, <2>6 DEF Next, FinishMaintenance, vars, Admitting
<1> QED BY <1>1, <1>2 DEF Admitting

(* A cancelled turn enters no further step, claims nothing, prepares no request
   and admits at most the batch whose request was already prepared (agent.ts
   throwIfAborted, 257, 302 and 549; inbox.ts claim). *)
THEOREM CancelStops == Spec => CancelHolds
<1>1. ASSUME TypeOK, TurnInv, [Next]_vars, ~Live
      PROVE  /\ log'.openStep \in {0, log.openStep}
             /\ \A m \in Message : fate[m] \in Lane => fate'[m] # "claimed"
             /\ Admitting' \/ log'.surface # log.surface => Admitting
  <2>1. log'.openStep \in {0, log.openStep}
    BY <1>1, LogSteps
  <2>2. \A m \in Message : fate[m] \in Lane => fate'[m] # "claimed"
    BY <1>1, NoClaim
  <2>3. log'.surface # log.surface => Admitting
    <3>1. CASE Admit
      BY <3>1 DEF Admit, Resumes, Admitting
    <3>2. CASE ReturnAdmitting
      <4>1. stack \in Seq(Frame) /\ stack # <<>> /\ stack[1].op \in {"admitting"}
        BY <1>1, <3>2 DEF ReturnAdmitting, Top, TypeOK
      <4> QED BY <4>1, TopSuspended DEF Admitting
    <3> QED BY <1>1, <3>1, <3>2, LogSteps
  <2> QED BY <1>1, <2>1, <2>2, <2>3, NoAdmission
<1>2. TypeOK /\ TurnInv /\ [Next]_vars =>
        [ phase.kind = "running" /\ ~Live /\ log.openTurn # 0
            => /\ log'.openStep \in {0, log.openStep}
               /\ \A m \in Message : fate[m] \in Lane => fate'[m] # "claimed"
               /\ Admitting' \/ log'.surface # log.surface => Admitting ]_vars
  BY <1>1
<1> QED BY <1>2, TurnsInductive, PTL DEF Spec, CancelHolds

-----------------------------------------------------------------------------
(* A follow-up has its turn to itself *)

(* The turns of the claimed follow-ups are past ones, and while a turn/start
   is being published its turn has none yet. *)
OwnersPast ==
  /\ \A m \in Message : owner[m] <= phase.turn
  /\ Suspended(stack, {"opened"}) => \A m \in Message : owner[m] # phase.turn

(* A turn takes a follow-up only as it is opened. *)
LEMMA OwnerSteps ==
  ASSUME TypeOK, [Next]_vars
  PROVE  \/ UNCHANGED owner /\ phase'.turn = phase.turn
         \/ UNCHANGED owner /\ \E rest : OpenTurn(rest)
         \/ /\ ReturnOpened /\ Claim("next-turn")
            /\ stack' = Tail(stack) /\ UNCHANGED phase
<1>0. owner = [m \in Message |-> owner[m]]
  BY DEF TypeOK
<1>1. ASSUME NEW rest, StartDriver(rest)
      PROVE  phase'.turn = phase.turn
  BY <1>1 DEF StartDriver, TypeOK, PhaseType
<1>2. ASSUME NEW b, NEW rest, WakeDriver(b, rest)
      PROVE  phase'.turn = phase.turn
  <2>1. CASE phase' = [phase EXCEPT !.wake = @ \/ Latches(b)]
    BY <2>1 DEF TypeOK, PhaseType
  <2> QED BY <1>1, <1>2, <2>1 DEF WakeDriver
<1>3. ASSUME NEW c, NEW k, NEW rest, Abort(c, k, rest)
      PROVE  phase'.turn = phase.turn
  BY <1>3 DEF Abort, TypeOK, PhaseType
<1>4. ASSUME NEW c, NEW rest, ClearNextTurn(c, rest)
      PROVE  UNCHANGED owner /\ phase'.turn = phase.turn
  BY <1>3, <1>4 DEF ClearNextTurn, Discard, boxVars
<1>5. CASE Call
  <2>1. ASSUME NEW c, NEW k, Cancel(c, k)
        PROVE  UNCHANGED owner /\ phase'.turn = phase.turn
    BY <1>3, <1>4, <2>1 DEF Cancel, Discard, boxVars
  <2>2. CASE StartMaintenance
    BY <2>2 DEF StartMaintenance, TypeOK, PhaseType, boxVars
  <2> QED BY <1>5, <2>1, <2>2 DEF Call, Send, Splice
<1>6. CASE ReturnSend \/ ReturnSettle
  <2>1. CASE \E b : WakeDriver(b, Tail(stack))
    BY <1>2, <1>6, <2>1 DEF ReturnSend, ReturnSettle, boxVars
  <2> QED BY <1>6, <2>1 DEF ReturnSend, ReturnSettle, boxVars
<1>7. CASE ReturnClear \/ ReturnAbort
  BY <1>3, <1>4, <1>7 DEF ReturnClear, ReturnAbort, boxVars
<1>8. CASE ReturnStart \/ NextTurn
  <2>1. UNCHANGED owner /\ \E rest : BeginTurn(rest)
    BY <1>8 DEF ReturnStart, NextTurn, boxVars
  <2> QED BY <2>1 DEF BeginTurn, SkipTurn
<1>9. ASSUME NEW next, NEW rest, CloseTurn(next, rest)
      PROVE  UNCHANGED owner /\ phase'.turn = phase.turn
  BY <1>9 DEF CloseTurn, boxVars
<1>10. ASSUME Claim("next-step") PROVE UNCHANGED owner
  BY <1>0, <1>10 DEF Claim
<1>11. CASE ReturnOpened
  BY <1>9, <1>11 DEF ReturnOpened
<1>12. CASE ReturnFailing \/ Interrupted \/ Reject \/ Stop
  BY <1>9, <1>10, <1>12 DEF ReturnFailing, Interrupted, Reject, Stop
<1>13. CASE ReturnClosing
  <2>1. CASE phase' = [phase EXCEPT !.abort = "live", !.wake = FALSE, !.step = 0]
    BY <1>13, <2>1 DEF ReturnClosing, TypeOK, PhaseType, boxVars
  <2> QED BY <1>13, <2>1 DEF ReturnClosing, boxVars
<1>14. ASSUME NEW batch \in Kept, NEW extra \in BOOLEAN,
              EnterStep(batch, extra) \/ EndEmpty(batch, extra)
       PROVE  UNCHANGED owner /\ phase'.turn = phase.turn
  <2>1. CASE EnterStep(batch, extra)
    BY <2>1 DEF EnterStep, TypeOK, PhaseType, boxVars
  <2>2. CASE EndEmpty(batch, extra)
    BY <1>9, <2>2 DEF EndEmpty
  <2> QED BY <1>14, <2>1, <2>2
<1>15. CASE Finish
  BY <1>10, <1>15 DEF Finish, EndStep, boxVars
<1>16. CASE Fails \/ Decided \/ Prepared \/ Admit \/ ReturnAdmitting \/ Retry
  BY <1>16 DEF Fails, Decided, Prepared, Admit, ReturnAdmitting, AppendNext, Retry,
               boxVars
<1>17. CASE Settle
  BY <1>17 DEF Settle, TypeOK, PhaseType, boxVars
<1>18. CASE FinishMaintenance
  <2>1. UNCHANGED owner
    BY <1>18 DEF FinishMaintenance, boxVars
  <2>2. CASE phase' = [phase EXCEPT !.kind = "idle", !.abort = "live", !.wake = FALSE]
    BY <2>1, <2>2 DEF TypeOK, PhaseType
  <2> QED BY <1>1, <1>18, <2>1, <2>2 DEF FinishMaintenance
<1>19. CASE UNCHANGED vars
  BY <1>19 DEF vars
<1> QED BY <1>5, <1>6, <1>7, <1>8, <1>11, <1>12, <1>13, <1>14, <1>15, <1>16,
           <1>17, <1>18, <1>19 DEF Next, Return, Resume

FollowupInv == OwnersPast /\ SoleFollowup

LEMMA FollowupStep ==
  ASSUME TypeOK, TurnInv, FollowupInv, [Next]_vars
  PROVE  FollowupInv'
<1>0. /\ owner \in [Message -> Nat] /\ phase.turn \in Nat
      /\ stack \in Seq(Frame)
  BY DEF TypeOK, PhaseType
<1>1. CASE UNCHANGED owner /\ \E rest : OpenTurn(rest)
  <2>1. phase'.turn = phase.turn + 1
    BY <1>1 DEF OpenTurn, TypeOK, PhaseType
  <2> QED BY <1>0, <1>1, <2>1 DEF FollowupInv, OwnersPast, SoleFollowup
<1>2. CASE UNCHANGED owner /\ phase'.turn = phase.turn /\ \A rest : ~OpenTurn(rest)
  <2>1. Suspended(stack', {"opened"}) => Suspended(stack, {"opened"})
    BY <1>2, TurnFrames
  <2> QED BY <1>2, <2>1 DEF FollowupInv, OwnersPast, SoleFollowup
<1>3. CASE /\ ReturnOpened /\ Claim("next-turn")
           /\ stack' = Tail(stack) /\ UNCHANGED phase
  <2> DEFINE queued == Items(FirstOf(box["next-turn"]))
  <2>1. stack # <<>> /\ stack[1].op = "opened"
    BY <1>3 DEF ReturnOpened, Top
  <2>2. \A m \in Message : owner[m] # phase.turn
    <3>1. Suspended(stack, {"opened"})
      BY <1>0, <2>1, TopSuspended
    <3> QED BY <3>1 DEF FollowupInv, OwnersPast
  <2>3. ~Suspended(stack', {"opened"})
    <3>1. ~Suspended(Tail(stack), InTurnOps)
      BY <2>1, OpsFacts, DriverOnTop DEF TurnInv
    <3> QED BY <1>3, <3>1 DEF Suspended, InTurnOps
  <2>4. \A m \in Message : owner'[m] = IF m \in queued THEN phase.turn ELSE owner[m]
    BY <1>3 DEF Claim
  <2>5. \A m, n \in queued : m = n
    BY EmptyItems, SingleItem DEF FirstOf
  <2>6. \A m \in Message : owner'[m] <= phase.turn
    BY <1>0, <2>4 DEF FollowupInv, OwnersPast
  <2>7. SoleFollowup'
    <3> SUFFICES ASSUME NEW m \in Message, NEW n \in Message,
                        owner'[m] = owner'[n], owner'[m] # 0
                 PROVE  m = n
      BY DEF SoleFollowup
    <3> HIDE DEF queued
    <3>1. CASE m \in queued /\ n \in queued
      BY <2>5, <3>1
    <3>2. CASE m \notin queued /\ n \notin queued
      BY <2>4, <3>2 DEF FollowupInv, SoleFollowup
    <3>3. CASE m \in queued <=> n \notin queued
      BY <2>2, <2>4, <3>3
    <3> QED BY <3>1, <3>2, <3>3
  <2> QED BY <1>3, <2>3, <2>6, <2>7 DEF FollowupInv, OwnersPast
<1> QED BY <1>1, <1>2, <1>3, OwnerSteps

LEMMA FollowupsInductive == Spec => [](TypeOK /\ TurnInv /\ FollowupInv)
<1>1. Init => FollowupInv
  BY EmptySuspended DEF Init, FollowupInv, OwnersPast, SoleFollowup
<1>2. TypeOK /\ TurnInv /\ FollowupInv /\ [Next]_vars => FollowupInv'
  BY FollowupStep
<1> QED BY <1>1, <1>2, TurnsInductive, PTL DEF Spec

(* No turn ever claims two queued messages (inbox.ts claim). *)
THEOREM FollowupAlone == Spec => []SoleFollowup
<1>1. FollowupInv => SoleFollowup
  BY DEF FollowupInv
<1> QED BY <1>1, FollowupsInductive, PTL
=============================================================================
