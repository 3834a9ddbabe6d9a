------------------------- MODULE AgentDriverMailbox -------------------------
(***************************************************************************)
(* What AgentDriver promises about the messages it is given.  It           *)
(* implements TurnMailbox: every step of the driver, of the agent's        *)
(* callers and of their listeners is a step of the mailbox or leaves it    *)
(* alone.  And it loses no wake.                                           *)
(***************************************************************************)
EXTENDS AgentDriverProofs

(* The facts about AgentDriver's states that the mapping of steps needs. *)
MapInv == TypeOK /\ TurnInv /\ MailboxExact /\ FollowupInv

mailboxVars == <<fate, owner, log.openTurn, log.lastTurn, log.surface>>

LEMMA MapInductive == Spec => []MapInv
<1>1. TypeOK /\ TurnInv /\ FollowupInv /\ MailboxExact => MapInv
  BY DEF MapInv
<1> QED BY <1>1, FollowupsInductive, MailboxCorrect, PTL

-----------------------------------------------------------------------------
(* The kinds of step *)

LEMMA MapRevise ==
  ASSUME MapInv, NEW posted \in SUBSET Message, NEW l \in Lane,
         NEW gone \in SUBSET Message,
         \A m \in posted : fate[m] = "unsent",
         \A m \in gone : fate[m] \in Lane,
         \A m \in Message : fate'[m] = IF m \in gone THEN "canceled"
                                       ELSE IF m \in posted THEN l ELSE fate[m],
         fate' \in [Message -> Fate], UNCHANGED <<owner, log>>
  PROVE  Mailbox!Next
<1>1. Lane = Mailbox!Waiting
  BY DEF Lane, Mailbox!Waiting
<1>2. UNCHANGED <<log.openTurn, log.lastTurn, log.surface>>
  OBVIOUS
<1>3. fate' = [m \in Message |-> IF m \in gone THEN "canceled"
                                 ELSE IF m \in posted THEN l ELSE fate[m]]
  OBVIOUS
<1>4. Mailbox!Revise(posted, l, gone)
  BY <1>1, <1>2, <1>3 DEF Mailbox!Revise
<1> QED BY <1>1, <1>4 DEF Mailbox!Next

LEMMA MapSend ==
  ASSUME MapInv, NEW m \in Message, NEW l \in Lane, NEW w \in BOOLEAN, Send(m, l, w)
  PROVE  Mailbox!Next
<1> DEFINE dest == IF WakesAfterAbort(w) THEN "next-turn" ELSE l
<1>1. /\ dest \in Lane /\ fate[m] = "unsent" /\ fate' = [fate EXCEPT ![m] = dest]
      /\ UNCHANGED <<owner, log>> /\ fate \in [Message -> Fate]
  BY DEF Send, Lane, MapInv, TypeOK
<1> HIDE DEF dest
<1>2. /\ fate' \in [Message -> Fate]
      /\ \A n \in Message : fate'[n] = IF n \in {} THEN "canceled"
                                        ELSE IF n \in {m} THEN dest ELSE fate[n]
  BY <1>1 DEF Fate
<1> DEFINE posted == {m}
           gone == {}
<1>3. /\ posted \in SUBSET Message /\ gone \in SUBSET Message
      /\ \A n \in posted : fate[n] = "unsent"
      /\ \A n \in gone : fate[n] \in Lane
      /\ \A n \in Message : fate'[n] = IF n \in gone THEN "canceled"
                                        ELSE IF n \in posted THEN dest ELSE fate[n]
  BY <1>1, <1>2
<1> HIDE DEF posted, gone
<1> QED BY <1>1, <1>2, <1>3, MapRevise

LEMMA MapSplice ==
  ASSUME MapInv, NEW l \in Lane, NEW i \in Nat \ {0}, NEW r \in {0, 1},
         NEW ins \in Seq(Message), Splice(l, i, r, ins), TypeOK'
  PROVE  Mailbox!Next
<1> DEFINE cut == SubSeq(box[l], i, i + r - 1)
<1>1. /\ box[l] \in Seq(Message) /\ Len(box[l]) \in Nat
      /\ DOMAIN box[l] = 1..Len(box[l])
      /\ i + r <= Len(box[l]) + 1
      /\ Items(box[l]) = {m \in Message : fate[m] = l}
  <2>1. box[l] \in Seq(Message)
    BY DEF MapInv, TypeOK
  <2>2. i + r <= Len(box[l]) + 1
    BY DEF Splice
  <2>3. Items(box[l]) = {m \in Message : fate[m] = l}
    BY DEF MapInv, MailboxExact, ListsExact
  <2> QED BY <2>1, <2>2, <2>3
<1>2. Items(cut) \subseteq Items(box[l])
  <2>1. \A k \in DOMAIN cut : /\ k + i - 1 \in DOMAIN box[l]
                              /\ cut[k] = box[l][k + i - 1]
    BY <1>1
  <2> QED BY <2>1 DEF Items
<1>3. /\ Items(ins) \in SUBSET Message /\ Items(cut) \in SUBSET Message
      /\ \A m \in Items(cut) : fate[m] \in Lane
  <2>1. Items(ins) \in SUBSET Message
    BY DEF Items
  <2> HIDE DEF cut
  <2> QED BY <1>1, <1>2, <2>1
<1>4. /\ \A m \in Items(ins) : fate[m] = "unsent"
      /\ UNCHANGED <<owner, log>>
      /\ fate' = [m \in Message |-> CASE m \in Items(cut) -> "canceled"
                                      [] m \in Items(ins) -> l
                                      [] OTHER -> fate[m]]
      /\ fate' \in [Message -> Fate]
  BY DEF Splice, TypeOK
<1> HIDE DEF cut
<1>5. \A m \in Message : fate'[m] = IF m \in Items(cut) THEN "canceled"
                                    ELSE IF m \in Items(ins) THEN l ELSE fate[m]
  <2>1. \A m \in Items(ins) : m \notin Items(cut)
    BY <1>3, <1>4 DEF Lane
  <2> QED BY <1>4, <2>1
<1> QED BY <1>3, <1>4, <1>5, MapRevise

LEMMA MapDiscard ==
  ASSUME MapInv, NEW l \in Lane, Discard(l), UNCHANGED <<drv, log>>
  PROVE  Mailbox!Next
<1>1. Items(box[l]) = {m \in Message : fate[m] = l}
  BY DEF MapInv, MailboxExact, ListsExact
<1>2. /\ UNCHANGED owner /\ fate' \in [Message -> Fate]
      /\ \A m \in Message : fate'[m] = IF m \in Items(box[l]) THEN "canceled"
                                        ELSE IF m \in {} THEN l ELSE fate[m]
  <2>1. MapInv => TypeOK
    BY DEF MapInv
  <2> QED BY <2>1, DiscardType DEF Discard
<1> DEFINE posted == {}
           gone == Items(box[l])
<1>3. /\ posted \in SUBSET Message /\ gone \in SUBSET Message
      /\ \A n \in posted : fate[n] = "unsent"
      /\ \A n \in gone : fate[n] \in Lane
      /\ \A n \in Message : fate'[n] = IF n \in gone THEN "canceled"
                                        ELSE IF n \in posted THEN l ELSE fate[n]
  BY <1>1, <1>2
<1> HIDE DEF posted, gone
<1> QED BY <1>2, <1>3, MapRevise

LEMMA MapOpen ==
  ASSUME MapInv, NEW rest, OpenTurn(rest), log.openTurn = 0, UNCHANGED boxVars
  PROVE  Mailbox!Next
<1>1. /\ log'.openTurn = phase.turn + 1 /\ log'.lastTurn = phase.turn + 1
      /\ log'.surface = log.surface /\ log.lastTurn = phase.turn
  BY DEF OpenTurn, MapInv, TypeOK, LogType, TurnInv, LogAgrees
<1> QED BY <1>1 DEF Mailbox!Next, Mailbox!Open, boxVars

LEMMA MapClose ==
  ASSUME MapInv, NEW next, NEW rest, CloseTurn(next, rest), log.openTurn # 0
  PROVE  Mailbox!Next
<1>1. /\ log'.openTurn = 0 /\ log'.lastTurn = log.lastTurn
      /\ log'.surface = log.surface
  BY DEF CloseTurn, MapInv, TypeOK, LogType
<1> QED BY <1>1 DEF Mailbox!Next, Mailbox!Close, CloseTurn, boxVars

LEMMA MapClaim ==
  ASSUME MapInv, NEW l \in Lane, Claim(l), log.openTurn # 0,
         l = "next-turn" => \A m \in Message : owner[m] # phase.turn,
         log'.openTurn = log.openTurn, log'.lastTurn = log.lastTurn,
         log'.surface = log.surface
  PROVE  Mailbox!Next
<1> DEFINE queued == IF l = "next-turn" THEN Items(FirstOf(box["next-turn"]))
                                        ELSE {}
<1>1. /\ Items(Batch(l)) = Items(box["next-step"]) \cup queued
      /\ queued \subseteq Items(box["next-turn"])
  BY BatchExact DEF MapInv
<1>2. /\ Items(box["next-step"]) = {m \in Message : fate[m] = "next-step"}
      /\ Items(box["next-turn"]) = {m \in Message : fate[m] = "next-turn"}
  BY DEF MapInv, MailboxExact, ListsExact, Lane
<1>3. \A m, n \in queued : m = n
  BY EmptyItems, SingleItem DEF FirstOf
<1>4. log.openTurn = phase.turn
  BY DEF MapInv, TurnInv, LogAgrees
<1>5. /\ fate' = [m \in Message |-> IF m \in Items(Batch(l)) THEN "claimed"
                                                             ELSE fate[m]]
      /\ owner' = [m \in Message |-> IF m \in queued THEN phase.turn
                                                     ELSE owner[m]]
  BY DEF Claim
<1>6. queued # {} => l = "next-turn"
  OBVIOUS
<1> HIDE DEF queued
<1>7. fate' = [m \in Message |->
                 IF fate[m] = "next-step" \/ m \in queued THEN "claimed"
                                                          ELSE fate[m]]
  BY <1>1, <1>2, <1>5
<1>8. Mailbox!Take(queued)
  BY <1>1, <1>2, <1>3, <1>4, <1>5, <1>6, <1>7 DEF Mailbox!Take
<1>9. queued \in SUBSET Message
  BY <1>1, <1>2
<1> QED BY <1>8, <1>9 DEF Mailbox!Next

LEMMA MapAppend ==
  ASSUME MapInv, NEW rest, AppendNext(rest), drv.hand # <<>>, log.openTurn # 0
  PROVE  Mailbox!Next
<1> DEFINE hand == drv.hand
           surface == log.surface
           next == Head(hand)
           longer == Append(surface, next)
<1>1. /\ hand \in Seq(Message) /\ surface \in Seq(Message) /\ hand # <<>>
      /\ \A m \in Items(hand) : fate[m] = "claimed"
  BY DEF MapInv, TypeOK, DriverType, LogType, MailboxExact, HandExact
<1>2. /\ log'.surface = longer /\ log'.openTurn = log.openTurn
      /\ log'.lastTurn = log.lastTurn /\ UNCHANGED owner
      /\ fate' = [fate EXCEPT ![next] = "entered"]
  BY DEF AppendNext, MapInv, TypeOK, LogType
<1> HIDE DEF hand, surface
<1>3. next \in Message /\ next \in Items(hand)
  BY <1>1 DEF Items
<1> HIDE DEF next
<1>4. /\ longer \in Seq(Message) /\ Len(longer) = Len(surface) + 1
      /\ Len(surface) \in Nat /\ longer[Len(surface) + 1] = next
      /\ \A i \in 1..Len(surface) : longer[i] = surface[i]
  BY <1>1, <1>3
<1> HIDE DEF longer
<1>5. Mailbox!Added = {Len(surface) + 1}
  BY <1>2, <1>4 DEF Mailbox!Added, surface
<1>6. fate' = [m \in Message |->
                 IF \E i \in Mailbox!Added : m = log'.surface[i] THEN "entered"
                                                                 ELSE fate[m]]
  <2>1. \A m \in Message : (\E i \in Mailbox!Added : m = log'.surface[i]) <=> m = next
    BY <1>2, <1>4, <1>5
  <2>2. fate \in [Message -> Fate]
    BY DEF MapInv, TypeOK
  <2> QED BY <1>2, <2>1, <2>2
<1>7. /\ \A i, j \in Mailbox!Added : log'.surface[i] = log'.surface[j] => i = j
      /\ \A i \in Mailbox!Added : fate[log'.surface[i]] = "claimed"
  BY <1>1, <1>2, <1>3, <1>4, <1>5
<1>8. /\ log'.surface \in Seq(Message) /\ Len(log.surface) <= Len(log'.surface)
      /\ \A i \in 1..Len(log.surface) : log'.surface[i] = log.surface[i]
  BY <1>2, <1>4 DEF surface
<1>9. UNCHANGED <<owner, log.openTurn, log.lastTurn>>
  BY <1>2
<1>10. Mailbox!Enter
  BY <1>6, <1>7, <1>8, <1>9 DEF Mailbox!Enter
<1> QED BY <1>10 DEF Mailbox!Next

-----------------------------------------------------------------------------
(* Every step *)

MapStep == Mailbox!Next \/ UNCHANGED mailboxVars

LEMMA MapUntouched ==
  ASSUME UNCHANGED <<fate, owner>>, UNCHANGED <<log.openTurn, log.lastTurn>>,
         log'.surface = log.surface
  PROVE  MapStep
BY DEF MapStep, mailboxVars

LEMMA MapClearNextTurn ==
  ASSUME MapInv, NEW c, NEW rest, ClearNextTurn(c, rest), UNCHANGED <<drv, log>>
  PROVE  MapStep
<1>1. CASE Discard("next-turn")
  BY <1>1, MapDiscard DEF MapStep, Lane
<1>2. CASE UNCHANGED boxVars
  BY <1>2, MapUntouched DEF boxVars
<1> QED BY <1>1, <1>2 DEF ClearNextTurn

LEMMA MapBeginTurn ==
  ASSUME MapInv, NEW rest, log.openTurn = 0, BeginTurn(rest), UNCHANGED boxVars
  PROVE  MapStep
<1>1. CASE OpenTurn(rest)
  BY <1>1, MapOpen DEF MapStep
<1>2. CASE SkipTurn(rest)
  BY <1>2, MapUntouched DEF SkipTurn, boxVars
<1> QED BY <1>1, <1>2 DEF BeginTurn

LEMMA MapAppendNext ==
  ASSUME MapInv, NEW rest, AppendNext(rest), log.openTurn # 0
  PROVE  MapStep
<1>1. CASE drv.hand # <<>>
  BY <1>1, MapAppend DEF MapStep
<1>2. CASE drv.hand = <<>>
  BY <1>2, MapUntouched DEF AppendNext
<1> QED BY <1>1, <1>2

LEMMA MapCall ==
  ASSUME MapInv, Call, TypeOK'
  PROVE  MapStep
<1>1. CASE \E m \in Message, l \in Lane, w \in BOOLEAN : Send(m, l, w)
  BY <1>1, MapSend DEF MapStep
<1>2. CASE \E l \in Lane, i \in 1..(Cardinality(Message) + 1), r \in {0, 1},
              ins \in {<<>>} \cup {<<m>> : m \in Message} : Splice(l, i, r, ins)
  <2>1. PICK l \in Lane, i \in 1..(Cardinality(Message) + 1), r \in {0, 1},
             ins \in {<<>>} \cup {<<m>> : m \in Message} : Splice(l, i, r, ins)
    BY <1>2
  <2>2. i \in Nat \ {0}
    OBVIOUS
  <2>3. ins \in Seq(Message)
    <3>1. CASE ins = <<>>
      BY <3>1
    <3>2. CASE \E m \in Message : ins = <<m>>
      BY <3>2
    <3> QED BY <3>1, <3>2
  <2> QED BY <2>1, <2>2, <2>3, MapSplice DEF MapStep
<1>3. CASE \E c \in Cause, k \in BOOLEAN : Cancel(c, k)
  <2>1. PICK c \in Cause, k \in BOOLEAN : Cancel(c, k)
    BY <1>3
  <2>2. UNCHANGED <<drv, log>> /\ "next-step" \in Lane
    BY <2>1 DEF Cancel, Lane
  <2>3. CASE UNCHANGED boxVars
    BY <2>2, <2>3, MapUntouched DEF boxVars
  <2>4. CASE Discard("next-step")
    BY <2>2, <2>4, MapDiscard DEF MapStep
  <2>5. CASE ClearNextTurn(c, stack)
    BY <2>2, <2>5, MapClearNextTurn
  <2> QED BY <2>1, <2>3, <2>4, <2>5 DEF Cancel
<1>4. CASE StartMaintenance
  BY <1>4, MapUntouched DEF StartMaintenance, boxVars
<1> QED BY <1>1, <1>2, <1>3, <1>4 DEF Call

LEMMA MapReturn ==
  ASSUME MapInv, Return
  PROVE  MapStep
<1>0. TypeOK /\ SingleDriver /\ stack \in Seq(Frame)
  BY DEF MapInv, TurnInv, TypeOK
<1>1. CASE ReturnSend \/ ReturnAbort \/ ReturnClosing \/ ReturnSettle
  BY <1>1, MapUntouched
     DEF ReturnSend, ReturnAbort, ReturnClosing, ReturnSettle, boxVars
<1>2. CASE ReturnClear
  BY <1>2, MapClearNextTurn DEF ReturnClear
<1>3. CASE ReturnStart
  <2>1. stack # <<>> /\ stack[1].op \in DriverOps \ InTurnOps
    BY <1>3, OpsFacts DEF ReturnStart, Top
  <2>2. log.openTurn = 0
    BY <1>0, <2>1, DriverOnTop DEF MapInv, TurnInv, LogAgrees, InTurnOps, TurnAwait, HookAwait
  <2> QED BY <1>3, <2>2, MapBeginTurn DEF ReturnStart
<1>4. ASSUME Top("opened") \/ Top("admitting") \/ Top("failing")
      PROVE  log.openTurn # 0
  <2>1. stack # <<>> /\ stack[1].op \in InTurnOps
    BY <1>4, OpsFacts DEF Top
  <2>2. Suspended(stack, InTurnOps)
    BY <1>0, <2>1, TopSuspended
  <2> QED BY <2>2 DEF MapInv, TurnInv, LogAgrees, InTurnOps
<1>5. CASE ReturnOpened
  <2>1. log.openTurn # 0
    BY <1>4, <1>5 DEF ReturnOpened
  <2>2. CASE CloseTurn(FALSE, Tail(stack))
    BY <2>1, <2>2, MapClose DEF MapStep
  <2>3. CASE Claim("next-turn") /\ UNCHANGED log
    <3>1. Suspended(stack, {"opened"})
      BY <1>0, <1>5, TopSuspended DEF ReturnOpened, Top
    <3>2. \A m \in Message : owner[m] # phase.turn
      BY <3>1 DEF MapInv, FollowupInv, OwnersPast
    <3> QED BY <2>1, <2>3, <3>2, MapClaim DEF MapStep, Lane
  <2> QED BY <1>5, <2>2, <2>3 DEF ReturnOpened
<1>6. CASE ReturnFailing
  BY <1>4, <1>6, MapClose DEF ReturnFailing, MapStep
<1>7. CASE ReturnAdmitting
  BY <1>4, <1>7, MapAppendNext DEF ReturnAdmitting
<1> QED BY <1>1, <1>2, <1>3, <1>5, <1>6, <1>7 DEF Return

LEMMA MapResume ==
  ASSUME MapInv, Resume
  PROVE  MapStep
<1>0. TypeOK
  BY DEF MapInv
<1>1. ASSUME drv.pc \in TurnAwait PROVE log.openTurn # 0
  BY <1>1 DEF MapInv, TurnInv, LogAgrees
<1>2. CASE Interrupted \/ Reject
  BY <1>1, <1>2, MapClose DEF Interrupted, Reject, Resumes, TurnAwait, HookAwait, MapStep
<1>3. CASE Fails \/ Decided \/ Prepared \/ Retry \/ Settle
  <2>1. /\ log'.openTurn = log.openTurn /\ log'.lastTurn = log.lastTurn
        /\ log'.surface = log.surface
    BY <1>0, <1>3 DEF Fails, Decided, Prepared, Retry, Settle, TypeOK, LogType
  <2> QED BY <1>3, <2>1, MapUntouched
          DEF Fails, Decided, Prepared, Retry, Settle, boxVars
<1>4. ASSUME NEW batch \in Kept, NEW extra \in BOOLEAN, EnterStep(batch, extra)
      PROVE  MapStep
  <2>1. /\ log'.openTurn = log.openTurn /\ log'.lastTurn = log.lastTurn
        /\ log'.surface = log.surface
    BY <1>0, <1>4 DEF EnterStep, TypeOK, LogType
  <2> QED BY <1>4, <2>1, MapUntouched DEF EnterStep, boxVars
<1>5. ASSUME NEW batch \in Kept, NEW extra \in BOOLEAN, EndEmpty(batch, extra)
      PROVE  MapStep
  BY <1>1, <1>5, MapClose DEF EndEmpty, Resumes, TurnAwait, HookAwait, MapStep
<1>6. CASE Admit
  <2>1. log.openTurn # 0
    BY <1>1, <1>6 DEF Admit, Resumes, TurnAwait, HookAwait
  <2> QED BY <1>6, <2>1, MapAppendNext DEF Admit
<1>7. CASE Finish
  <2>1. PICK o \in {"completed", "max-tokens", "tools"} : EndStep(o)
    BY <1>7 DEF Finish
  <2>2. /\ log'.openTurn = log.openTurn /\ log'.lastTurn = log.lastTurn
        /\ log'.surface = log.surface
    BY <1>0, <2>1 DEF EndStep, TypeOK, LogType
  <2>3. CASE UNCHANGED boxVars
    BY <2>2, <2>3, MapUntouched DEF boxVars
  <2>4. CASE Claim("next-step")
    <3>1. log.openTurn # 0
      BY <1>1, <2>1 DEF EndStep, Resumes, TurnAwait, HookAwait
    <3> QED BY <2>2, <2>4, <3>1, MapClaim DEF MapStep, Lane
  <2> QED BY <2>1, <2>3, <2>4 DEF EndStep
<1>8. CASE Stop
  <2>1. log.openTurn # 0
    BY <1>1, <1>8 DEF Stop, Resumes, TurnAwait, HookAwait
  <2>2. CASE CloseTurn(TRUE, <<>>)
    BY <2>1, <2>2, MapClose DEF MapStep
  <2>3. CASE Claim("next-step") /\ UNCHANGED log
    BY <2>1, <2>3, MapClaim DEF MapStep, Lane
  <2> QED BY <1>8, <2>2, <2>3 DEF Stop
<1>9. CASE NextTurn
  <2>1. log.openTurn = 0
    BY <1>9, EmptySuspended
       DEF NextTurn, Resumes, MapInv, TurnInv, LogAgrees, TurnAwait, HookAwait
  <2> QED BY <1>9, <2>1, MapBeginTurn DEF NextTurn
<1> QED BY <1>2, <1>3, <1>4, <1>5, <1>6, <1>7, <1>8, <1>9 DEF Resume

(* The driver keeps the mailbox promise, whatever its callers and listeners do:
   messages are withdrawn only while they wait, turns open one at a time, an
   open turn takes all steering and at most one follow-up, and only messages a
   turn holds enter the history, once. *)
THEOREM ImplementsMailbox == Spec => MailboxPromise
<1>1. Init => Mailbox!Init
  BY DEF Init, Mailbox!Init
<1>2. MapInv /\ MapInv' /\ [Next]_vars => [Mailbox!Next]_(Mailbox!vars)
  <2> SUFFICES ASSUME MapInv, MapInv', [Next]_vars
               PROVE  MapStep
    BY DEF MapStep, mailboxVars, Mailbox!vars
  <2>1. TypeOK'
    BY DEF MapInv
  <2>2. CASE FinishMaintenance
    BY <2>2, MapUntouched DEF FinishMaintenance, boxVars
  <2>3. CASE UNCHANGED vars
    BY <2>3, MapUntouched DEF vars
  <2> QED BY <2>1, <2>2, <2>3, MapCall, MapReturn, MapResume DEF Next
<1> QED BY <1>1, <1>2, MapInductive, PTL DEF Spec, MailboxPromise, Mailbox!Spec

-----------------------------------------------------------------------------
(* No wake is lost *)

(* A suspended method that still has a latched wake to act on. *)
Held(s, op) == \E i \in DOMAIN s : s[i].op = op /\ s[i].latch

(* A cancel is between emptying the lists and giving up what they held. *)
Clearing(s) == Suspended(s, {"clear", "abort"})

(* Nobody calls from inside the publication of turn/end. *)
ClosingOnTop(s) == \A i \in DOMAIN s : s[i].op = "closing" => i = 1

(* The driver has ended a turn after which it does not look at the lists. *)
Parks(s) == s # <<>> /\ s[1].op = "closing" /\ ~s[1].latch

(* Somebody is still due to look at the lists: a send or the end of an activity
   that will wake the idle agent, a latched wake, or the driver itself unless
   it is on its way out. *)
Covered ==
  \/ /\ phase.kind = "idle"
     /\ Suspended(stack, {"send"}) \/ Held(stack, "settle")
  \/ /\ phase.kind = "maintenance"
     /\ phase.wake \/ Suspended(stack, {"send"}) \/ Held(stack, "settle")
  \/ /\ phase.kind = "running" /\ Live
     /\ drv.pc # "retired" /\ ~Parks(stack)
  \/ /\ phase.kind = "running" /\ phase.abort = "user"
     /\ phase.wake \/ Held(stack, "send")

(* What is owed is waiting in a list, and unless it was sent in the gap somebody
   will look; except while a cancel is about to give it up. *)
Watched == /\ \A m \in owed : fate[m] \in Lane
           /\ owed \subseteq gap \/ Covered

WakeInv ==
  /\ phase.abort = "disposed" => owed = {}
  /\ ClosingOnTop(stack)
  /\ Clearing(stack) \/ Watched

DriverInv == TypeOK /\ TurnInv /\ MailboxExact

(* A frame is pushed. *)
LEMMA PushHeld ==
  ASSUME NEW rest \in Seq(Frame), NEW f \in Frame
  PROVE  /\ \A op : Held(Push(f, rest), op) <=> (f.op = op /\ f.latch) \/ Held(rest, op)
         /\ ClosingOnTop(Push(f, rest)) <=> ~Suspended(rest, {"closing"})
         /\ Parks(Push(f, rest)) <=> f.op = "closing" /\ ~f.latch
         /\ \A op : Suspended(Push(f, rest), {op}) <=> f.op = op \/ Suspended(rest, {op})
         /\ Clearing(Push(f, rest)) <=> f.op \in {"clear", "abort"} \/ Clearing(rest)
<1> DEFINE s == Push(f, rest)
<1>1. /\ Len(rest) \in Nat /\ DOMAIN rest = 1..Len(rest)
      /\ DOMAIN s = 1..(Len(rest) + 1) /\ s[1] = f /\ s # <<>>
      /\ \A i \in 1..Len(rest) : s[i + 1] = rest[i]
  BY DEF Push
<1> HIDE DEF s
<1>2. \A i \in DOMAIN s : i = 1 \/ (i - 1 \in DOMAIN rest /\ s[i] = rest[i - 1])
  BY <1>1
<1>3. \A i \in DOMAIN rest : i + 1 \in DOMAIN s /\ i + 1 # 1 /\ s[i + 1] = rest[i]
  BY <1>1
<1>4. 1 \in DOMAIN s
  BY <1>1
<1>5. ASSUME NEW op
      PROVE  Held(s, op) <=> (f.op = op /\ f.latch) \/ Held(rest, op)
  BY <1>1, <1>2, <1>3, <1>4 DEF Held
<1>6. ClosingOnTop(s) <=> ~Suspended(rest, {"closing"})
  BY <1>1, <1>2, <1>3, <1>4 DEF ClosingOnTop, Suspended
<1>7. Parks(s) <=> f.op = "closing" /\ ~f.latch
  BY <1>1 DEF Parks
<1> HIDE DEF Held, ClosingOnTop, Parks
<1> QED BY <1>5, <1>6, <1>7, PushSuspended DEF s, Clearing

(* A frame is popped. *)
LEMMA PopHeld ==
  ASSUME NEW s \in Seq(Frame), s # <<>>
  PROVE  /\ Tail(s) \in Seq(Frame) /\ s[1] \in Frame
         /\ \A op : Held(s, op) <=> (s[1].op = op /\ s[1].latch) \/ Held(Tail(s), op)
         /\ ClosingOnTop(s) <=> ~Suspended(Tail(s), {"closing"})
         /\ \A op : Suspended(s, {op}) <=> s[1].op = op \/ Suspended(Tail(s), {op})
         /\ Clearing(s) <=> s[1].op \in {"clear", "abort"} \/ Clearing(Tail(s))
<1>1. Tail(s) \in Seq(Frame) /\ s[1] \in Frame
  OBVIOUS
<1>2. ASSUME NEW op
      PROVE  Suspended(s, {op}) <=> s[1].op = op \/ Suspended(Tail(s), {op})
  BY TopSuspended
<1>3. Clearing(s) <=> s[1].op \in {"clear", "abort"} \/ Clearing(Tail(s))
  BY TopSuspended DEF Clearing
<1>4. /\ Len(s) \in Nat /\ DOMAIN s = 1..Len(s) /\ 1 \in DOMAIN s
      /\ DOMAIN Tail(s) = 1..(Len(s) - 1)
      /\ \A i \in 1..(Len(s) - 1) : Tail(s)[i] = s[i + 1]
  OBVIOUS
<1> DEFINE t == Tail(s)
<1>5. /\ \A i \in DOMAIN s : i = 1 \/ (i - 1 \in DOMAIN t /\ s[i] = t[i - 1])
      /\ \A i \in DOMAIN t : i + 1 \in DOMAIN s /\ i + 1 # 1 /\ s[i + 1] = t[i]
  BY <1>4
<1> HIDE DEF t
<1>6. ASSUME NEW op
      PROVE  Held(s, op) <=> (s[1].op = op /\ s[1].latch) \/ Held(t, op)
  BY <1>4, <1>5 DEF Held
<1>7. ClosingOnTop(s) <=> ~Suspended(t, {"closing"})
  BY <1>4, <1>5 DEF ClosingOnTop, Suspended
<1> HIDE DEF Held, ClosingOnTop
<1> QED BY <1>1, <1>2, <1>3, <1>6, <1>7 DEF t

(* An empty stack. *)
LEMMA EmptyHeld ==
  /\ \A op : ~Held(<<>>, op) /\ ~Suspended(<<>>, {op})
  /\ ClosingOnTop(<<>>) /\ ~Clearing(<<>>) /\ ~Parks(<<>>)
BY DEF Held, Suspended, ClosingOnTop, Clearing, Parks

(* A stack without a turn/end being published. *)
Open(s) == s \in Seq(Frame) /\ ~Suspended(s, {"closing"})

(* What is on the stack above and below the publication of turn/end: nothing,
   and nothing else of its kind. *)
LEMMA OpenStacks ==
  ASSUME TypeOK, WakeInv
  PROVE  /\ stack \in Seq(Frame)
         /\ ~Top("closing") => Open(stack)
         /\ stack # <<>> => Open(Tail(stack))
         /\ Open(<<>>)
         /\ \A rest : Open(rest) =>
              /\ ClosingOnTop(rest) /\ ~Parks(rest)
              /\ \A f \in Frame : ClosingOnTop(Push(f, rest))
<1>1. stack \in Seq(Frame)
  BY DEF TypeOK
<1>2. stack # <<>> => Open(Tail(stack))
  BY <1>1, PopHeld DEF WakeInv, Open
<1>3. ~Top("closing") => Open(stack)
  BY <1>1, <1>2, PopHeld, EmptyHeld DEF Open, Top
<1>4. Open(<<>>)
  BY EmptyHeld, StackType DEF Open
<1>5. ASSUME NEW rest, Open(rest)
      PROVE  ClosingOnTop(rest) /\ ~Parks(rest)
  <2>1. CASE rest = <<>>
    BY <2>1, EmptyHeld
  <2>2. CASE rest # <<>>
    <3>1. \A i \in DOMAIN rest : rest[i].op # "closing"
      BY <1>5 DEF Open, Suspended
    <3>2. rest[1].op # "closing"
      BY <1>5, <2>2, PopHeld DEF Open
    <3> QED BY <3>1, <3>2 DEF ClosingOnTop, Parks
  <2> QED BY <2>1, <2>2
<1>6. ASSUME NEW rest, Open(rest), NEW f \in Frame
      PROVE  ClosingOnTop(Push(f, rest))
  BY <1>6, PushHeld DEF Open
<1> QED BY <1>1, <1>2, <1>3, <1>4, <1>5, <1>6

(* Nothing is owed any more. *)
LEMMA NothingOwed ==
  ASSUME owed' = {}, ClosingOnTop(stack')
  PROVE  WakeInv'
BY DEF WakeInv, Watched

(* What is owed is in a list, so the lists are not empty. *)
LEMMA OwedPending ==
  ASSUME DriverInv, Watched, owed # {}
  PROVE  HasPending
<1>1. PICK m \in owed : fate[m] \in Lane
  BY DEF Watched
<1>2. m \in Message
  BY <1>1 DEF DriverInv, TypeOK
<1>3. m \in Items(box[fate[m]])
  BY <1>1, <1>2 DEF DriverInv, MailboxExact, ListsExact
<1>4. box[fate[m]] # <<>>
  BY <1>3, EmptyItems
<1> QED BY <1>1, <1>4 DEF HasPending

-----------------------------------------------------------------------------
(* What the pieces of a step do to the watch over the owed *)

(* The idle agent's driver starts. *)
LEMMA StartDriverWake ==
  ASSUME DriverInv, WakeInv, phase.kind # "running", NEW rest, Open(rest),
         Clearing(rest) <=> Clearing(stack), StartDriver(rest),
         UNCHANGED <<drv, fate, owed, gap>>
  PROVE  WakeInv'
<1>1. drv.pc = "off"
  BY DEF DriverInv, TurnInv, SingleDriver
<1>2. /\ Plain("start") \in Frame /\ Plain("start").op = "start" /\ rest \in Seq(Frame)
      /\ stack' = Push(Plain("start"), rest)
  BY StackType DEF DriverInv, StartDriver, Plain, Open
<1>3. phase'.kind = "running" /\ phase'.abort = "live"
  BY DEF StartDriver, DriverInv, TypeOK, PhaseType
<1>4. /\ ClosingOnTop(stack') /\ ~Parks(stack') /\ Clearing(stack') = Clearing(stack)
  BY <1>2, PushHeld DEF Open, Clearing, Suspended
<1>5. Covered'
  BY <1>1, <1>3, <1>4 DEF Covered, Live
<1> QED BY <1>3, <1>4, <1>5 DEF WakeInv, Watched

(* A waking method returns: what it was to wake is awake, or latched. *)
LEMMA WakeDriverWake ==
  ASSUME DriverInv, WakeInv, stack # <<>>, stack[1].op \in {"send", "settle"},
         stack[1].op = "settle" => stack[1].latch,
         NEW b \in BOOLEAN, stack[1].op = "send" => b = stack[1].latch,
         WakeDriver(b, Tail(stack)), UNCHANGED <<drv, fate, owed, gap>>
  PROVE  WakeInv'
<1>1. stack \in Seq(Frame) /\ Open(Tail(stack))
  BY OpenStacks DEF DriverInv
<1>2. Clearing(Tail(stack)) <=> Clearing(stack)
  BY <1>1, PopHeld
<1>3. CASE phase.kind = "idle" /\ StartDriver(Tail(stack))
  BY <1>1, <1>2, <1>3, StartDriverWake
<1>4. CASE /\ phase.kind # "idle"
           /\ phase' = [phase EXCEPT !.wake = @ \/ Latches(b)]
           /\ stack' = Tail(stack)
  <2>1. /\ phase'.kind = phase.kind /\ phase'.abort = phase.abort
        /\ phase'.wake <=> phase.wake \/ Latches(b)
    BY <1>4 DEF DriverInv, TypeOK, PhaseType, Latches
  <2>2. ClosingOnTop(stack') /\ ~Parks(stack')
    BY <1>1, <1>4, OpenStacks DEF DriverInv
  <2>3. /\ Held(stack, "send") => (stack[1].op = "send" /\ b) \/ Held(stack', "send")
        /\ phase.kind = "running" => ~(stack[1].op = "send" /\ b) \/ Latches(b) \/ phase.abort # "user"
    BY <1>1, <1>4, PopHeld DEF Latches
  <2>4. phase.kind = "maintenance" => Latches(b) \/ phase.abort = "disposed"
    BY DEF Latches
  <2>5. CASE phase.abort = "disposed"
    BY <2>2, <2>5, NothingOwed DEF WakeInv
  <2>6. CASE phase.abort # "disposed" /\ ~Clearing(stack)
    <3>1. Covered => Covered'
      <4> SUFFICES ASSUME Covered PROVE Covered'
        OBVIOUS
      <4>1. CASE phase.kind = "maintenance"
        <5>1. phase'.kind = "maintenance" /\ phase'.wake
          BY <2>1, <2>4, <2>6, <4>1
        <5> QED BY <5>1 DEF Covered
      <4>2. CASE phase.kind = "running" /\ Live
        <5>1. /\ phase'.kind = "running" /\ phase'.abort = "live"
              /\ drv'.pc = drv.pc /\ drv.pc # "retired"
          BY <2>1, <4>2 DEF Covered, Live
        <5> QED BY <2>2, <5>1 DEF Covered, Live
      <4>3. CASE phase.kind = "running" /\ phase.abort = "user"
        <5>1. phase.wake \/ Held(stack, "send")
          BY <4>3 DEF Covered, Live
        <5>2. phase'.wake \/ Held(stack', "send")
          BY <2>1, <2>3, <4>3, <5>1
        <5> QED BY <2>1, <4>3, <5>2 DEF Covered
      <4> QED BY <1>4, <4>1, <4>2, <4>3 DEF Covered
    <3> QED BY <2>1, <2>2, <2>6, <3>1 DEF WakeInv, Watched
  <2>7. CASE Clearing(stack)
    BY <1>2, <1>4, <2>1, <2>2, <2>7 DEF WakeInv
  <2> QED BY <2>5, <2>6, <2>7
<1> QED BY <1>3, <1>4 DEF WakeDriver

(* A cancel gives up what the lists held, or keeps it with whatever watched it. *)
LEMMA AbortWake ==
  ASSUME DriverInv, WakeInv, NEW c \in Signal, NEW k \in BOOLEAN, NEW rest,
         ClosingOnTop(rest), k => rest = stack,
         c # "live", Abort(c, k, rest), UNCHANGED <<drv, fate>>
  PROVE  WakeInv'
<1>1. stack' = rest
  BY DEF Abort
<1>2. CASE owed' = {}
  BY <1>1, <1>2, NothingOwed
<1>3. CASE owed' # {}
  <2>1. /\ k /\ owed' = owed /\ stack' = stack
        /\ \/ phase.kind = "idle"
           \/ phase.abort # "live"
           \/ phase.kind = "maintenance" /\ c = "user"
    BY <1>1, <1>3 DEF Abort
  <2>2. gap' = gap
    BY <2>1 DEF Abort, DriverInv, TypeOK
  <2>3. /\ phase'.kind = phase.kind /\ phase'.wake = phase.wake
        /\ phase'.abort = phase.abort
             \/ (phase.kind = "maintenance" /\ phase'.abort # "disposed")
    <3>1. CASE phase.kind = "idle"
      BY <3>1 DEF Abort
    <3>2. CASE phase.kind # "idle"
      <4>1. /\ phase'.kind = phase.kind /\ phase'.wake = phase.wake
            /\ phase'.abort = FirstCause(c)
        BY <2>1, <3>2 DEF Abort, DriverInv, TypeOK, PhaseType
      <4> QED BY <2>1, <3>2, <4>1 DEF FirstCause
    <3> QED BY <3>1, <3>2
  <2>4. Covered => Covered'
    BY <2>1, <2>3 DEF Covered, Live
  <2> QED BY <2>1, <2>2, <2>3, <2>4 DEF WakeInv, Watched
<1> QED BY <1>2, <1>3

(* A cancel that empties the second list, or finds it empty. *)
LEMMA ClearNextTurnWake ==
  ASSUME DriverInv, WakeInv, NEW c \in Signal, c # "live", NEW rest, Open(rest),
         ClearNextTurn(c, rest), UNCHANGED drv
  PROVE  WakeInv'
<1>1. CASE Discard("next-turn") /\ stack' = Push(Caused("abort", c), rest)
  <2>1. Caused("abort", c) \in Frame /\ Caused("abort", c).op = "abort"
    BY StackType DEF DriverInv, Caused
  <2>2. Clearing(stack') /\ ClosingOnTop(stack')
    BY <1>1, <2>1, OpenStacks, PushHeld DEF DriverInv, Open
  <2>3. UNCHANGED <<phase, owed>>
    BY <1>1 DEF Discard, ghostVars
  <2> QED BY <2>2, <2>3 DEF WakeInv
<1>2. CASE Abort(c, FALSE, rest) /\ UNCHANGED boxVars
  <2>1. ClosingOnTop(rest) /\ UNCHANGED fate
    BY <1>2, OpenStacks DEF DriverInv, boxVars
  <2> QED BY <1>2, <2>1, AbortWake
<1> QED BY <1>1, <1>2 DEF ClearNextTurn

(* turn begins, or is skipped because of its signal. *)
LEMMA BeginTurnWake ==
  ASSUME DriverInv, WakeInv, phase.kind = "running", NEW rest, Open(rest),
         Clearing(rest) <=> Clearing(stack), Held(rest, "send") <=> Held(stack, "send"),
         BeginTurn(rest), UNCHANGED <<fate, owed, gap>>
  PROVE  WakeInv'
<1>1. CASE Live /\ OpenTurn(rest)
  <2>1. /\ Plain("opened") \in Frame /\ Plain("opened").op = "opened"
        /\ rest \in Seq(Frame) /\ stack' = Push(Plain("opened"), rest)
    BY <1>1, StackType DEF DriverInv, OpenTurn, Plain, Open
  <2>2. ClosingOnTop(stack') /\ ~Parks(stack') /\ (Clearing(stack') <=> Clearing(stack))
    BY <2>1, PushHeld DEF Open
  <2>3. phase'.kind = "running" /\ phase'.abort = "live" /\ drv'.pc = "off"
    BY <1>1 DEF OpenTurn, Live, DriverInv, TypeOK, PhaseType, DriverType
  <2>4. Covered'
    BY <2>2, <2>3 DEF Covered, Live
  <2> QED BY <2>2, <2>3, <2>4 DEF WakeInv, Watched
<1>2. CASE ~Live /\ SkipTurn(rest)
  <2>1. stack' = rest /\ UNCHANGED phase /\ ClosingOnTop(rest)
    BY <1>2, OpenStacks DEF SkipTurn, DriverInv
  <2>2. Covered => Covered'
    BY <1>2, <2>1 DEF Covered, Live
  <2> QED BY <2>1, <2>2 DEF WakeInv, Watched
<1> QED BY <1>1, <1>2 DEF BeginTurn

(* turn/end: a driver that goes on keeps the watch; one that does not has
   nothing to watch, or was cancelled and leaves it to the latched wake. *)
LEMMA CloseTurnWake ==
  ASSUME DriverInv, WakeInv, phase.kind = "running", NEW next \in BOOLEAN, NEW rest,
         Open(rest), Clearing(rest) <=> Clearing(stack),
         Held(rest, "send") <=> Held(stack, "send"), CloseTurn(next, rest)
  PROVE  WakeInv'
<1>1. /\ Latched("closing", next) \in Frame /\ Latched("closing", next).op = "closing"
      /\ Latched("closing", next).latch = next
      /\ rest \in Seq(Frame) /\ stack' = Push(Latched("closing", next), rest)
  BY StackType DEF DriverInv, CloseTurn, Latched, Open
<1>2. /\ ClosingOnTop(stack') /\ (Clearing(stack') <=> Clearing(stack))
      /\ Parks(stack') <=> ~next
      /\ Held(stack', "send") <=> Held(stack, "send")
  BY <1>1, PushHeld DEF Open
<1>3. UNCHANGED <<phase, fate>> /\ drv'.pc = "off"
  BY DEF CloseTurn, boxVars
<1>4. CASE owed' = {}
  BY <1>2, <1>4, NothingOwed
<1>5. CASE owed' # {}
  <2>1. owed' = owed /\ gap' = gap /\ (next \/ ~Live)
    BY <1>5 DEF CloseTurn, DriverInv, TypeOK
  <2>2. Covered => Covered'
    BY <1>2, <1>3, <2>1 DEF Covered, Live
  <2> QED BY <1>2, <1>3, <2>1, <2>2 DEF WakeInv, Watched
<1> QED BY <1>4, <1>5

(* A message of the batch is none of the owed: the watch goes on over the
   publication of it, and at the end of the batch. *)
LEMMA AppendNextWake ==
  ASSUME DriverInv, WakeInv, phase.kind = "running", NEW rest, Open(rest),
         Clearing(rest) <=> Clearing(stack), Held(rest, "send") <=> Held(stack, "send"),
         drv.pc # "retired", AppendNext(rest)
  PROVE  WakeInv'
<1>1. UNCHANGED <<phase, owed, gap>>
  BY DEF AppendNext, ghostVars
<1>2. /\ drv'.pc # "retired" /\ ClosingOnTop(stack') /\ ~Parks(stack')
      /\ (Clearing(stack') <=> Clearing(stack))
      /\ Held(stack', "send") <=> Held(stack, "send")
  <2>1. CASE /\ drv' = [drv EXCEPT !.pc = "off", !.hand = Tail(@)]
             /\ stack' = Push(Plain("admitting"), rest)
    <3>1. /\ Plain("admitting") \in Frame /\ Plain("admitting").op = "admitting"
          /\ rest \in Seq(Frame)
      BY StackType DEF DriverInv, Plain, Open
    <3>2. drv'.pc = "off"
      BY <2>1 DEF DriverInv, TypeOK, DriverType
    <3> QED BY <2>1, <3>1, <3>2, PushHeld DEF Open
  <2>2. CASE drv' = [drv EXCEPT !.pc = "work"] /\ stack' = rest
    <3>1. drv'.pc = "work"
      BY <2>2 DEF DriverInv, TypeOK, DriverType
    <3>2. ClosingOnTop(rest) /\ ~Parks(rest)
      BY OpenStacks DEF DriverInv
    <3> QED BY <2>2, <3>1, <3>2
  <2> QED BY <2>1, <2>2 DEF AppendNext
<1>3. ASSUME \A m \in owed : fate[m] \in Lane
      PROVE  \A m \in owed' : fate'[m] \in Lane
  <2>1. CASE UNCHANGED fate
    BY <1>1, <1>3, <2>1
  <2>2. CASE drv.hand # <<>> /\ fate' = [fate EXCEPT ![Head(drv.hand)] = "entered"]
    <3>1. drv.hand \in Seq(Message) /\ Head(drv.hand) \in Items(drv.hand)
      BY <2>2 DEF DriverInv, TypeOK, DriverType, Items
    <3>2. fate[Head(drv.hand)] = "claimed"
      BY <3>1 DEF DriverInv, MailboxExact, HandExact
    <3> SUFFICES ASSUME NEW m \in owed PROVE fate'[m] \in Lane
      BY <1>1
    <3>3. m \in Message /\ fate[m] \in Lane /\ m # Head(drv.hand)
      BY <1>3, <3>2 DEF DriverInv, TypeOK, Lane
    <3> QED BY <2>2, <3>3 DEF DriverInv, TypeOK
  <2> QED BY <2>1, <2>2 DEF AppendNext
<1>4. Covered => Covered'
  BY <1>1, <1>2 DEF Covered, Live
<1> QED BY <1>1, <1>2, <1>3, <1>4 DEF WakeInv, Watched

(* A claim takes what it takes out of the owed, too. *)
LEMMA ClaimWake ==
  ASSUME DriverInv, NEW l \in Lane, Claim(l)
  PROVE  /\ owed' \subseteq owed
         /\ owed \subseteq gap => owed' \subseteq gap'
         /\ (\A m \in owed : fate[m] \in Lane) => \A m \in owed' : fate'[m] \in Lane
BY DEF Claim, DriverInv, TypeOK

(* A step of a live driver that is not on its way out afterwards. *)
LEMMA LiveStep ==
  ASSUME DriverInv, WakeInv, phase'.kind = "running", phase'.abort = "live",
         drv'.pc # "retired", Open(stack') \/ (ClosingOnTop(stack') /\ ~Parks(stack')),
         Clearing(stack) => Clearing(stack'),
         (\A m \in owed : fate[m] \in Lane) => \A m \in owed' : fate'[m] \in Lane
  PROVE  WakeInv'
<1>1. ClosingOnTop(stack') /\ ~Parks(stack')
  BY OpenStacks DEF DriverInv
<1>2. Covered'
  BY <1>1 DEF Covered, Live
<1> QED BY <1>1, <1>2 DEF WakeInv, Watched

-----------------------------------------------------------------------------
(* The steps *)

(* A waking message that is owed comes with the frame that will wake the agent,
   with a live driver, or in the gap. *)
LEMMA SendWake ==
  ASSUME DriverInv, WakeInv, NEW m \in Message, NEW l \in Lane, NEW w \in BOOLEAN,
         Send(m, l, w)
  PROVE  WakeInv'
<1> DEFINE b == WakesAfterAbort(w)
           dest == IF b THEN "next-turn" ELSE l
<1>0. /\ b \in BOOLEAN /\ dest \in Lane /\ UNCHANGED <<phase, drv>>
      /\ w => (b <=> phase.kind # "idle" /\ phase.abort # "live")
  BY DEF Send, Lane, WakesAfterAbort
<1>1. /\ fate[m] = "unsent" /\ fate' = [fate EXCEPT ![m] = dest]
      /\ stack' = IF w THEN Push(Latched("send", b), stack) ELSE stack
      /\ owed' = IF w /\ phase.abort # "disposed" THEN owed \cup {m} ELSE owed
      /\ gap' = IF w /\ drv.pc = "retired" /\ phase.abort = "live"
                THEN gap \cup {m} ELSE gap
  BY DEF Send
<1> HIDE DEF b, dest
<1>2. Open(stack)
  BY OpenStacks DEF DriverInv, Send, InAppend
<1>3. ASSUME \A n \in owed : fate[n] \in Lane
      PROVE  \A n \in owed' : fate'[n] \in Lane
  BY <1>0, <1>1, <1>3 DEF DriverInv, TypeOK
<1>4. CASE ~w
  <2>1. UNCHANGED <<stack, owed, gap>>
    BY <1>1, <1>4
  <2>2. Covered <=> Covered'
    BY <1>0, <2>1 DEF Covered, Live
  <2> QED BY <1>0, <1>3, <2>1, <2>2 DEF WakeInv, Watched
<1>5. CASE w
  <2> DEFINE f == Latched("send", b)
  <2>1. /\ f \in Frame /\ f.op = "send" /\ f.latch = b /\ stack' = Push(f, stack)
    BY <1>0, <1>1, <1>5, StackType DEF DriverInv, Latched
  <2> HIDE DEF f
  <2>2. /\ ClosingOnTop(stack') /\ ~Parks(stack') /\ (Clearing(stack') <=> Clearing(stack))
        /\ Suspended(stack', {"send"}) /\ (b => Held(stack', "send"))
    BY <1>2, <2>1, PushHeld DEF Open
  <2>3. CASE phase.abort = "disposed"
    <3>1. owed' = {}
      BY <1>1, <2>3 DEF WakeInv
    <3> QED BY <2>2, <3>1, NothingOwed
  <2>4. CASE phase.abort # "disposed"
    <3>1. phase.kind \in {"idle", "maintenance", "running"} /\ phase.abort \in {"live", "user"}
      BY <2>4 DEF DriverInv, TypeOK, PhaseType, Signal, Cause
    <3>2. CASE phase.kind = "running" /\ phase.abort = "live" /\ drv.pc = "retired"
      <4>1. ~Covered
        BY <3>2 DEF Covered, Live
      <4>2. owed' = owed \cup {m} /\ gap' = gap \cup {m}
        BY <1>1, <1>5, <3>2
      <4> QED BY <1>0, <1>3, <2>2, <2>4, <4>1, <4>2 DEF WakeInv, Watched
    <3>3. CASE ~(phase.kind = "running" /\ phase.abort = "live" /\ drv.pc = "retired")
      <4>1. phase.kind = "running" /\ phase.abort = "user" => Held(stack', "send")
        BY <1>0, <1>5, <2>2
      <4>2. Covered'
        BY <1>0, <2>2, <3>1, <3>3, <4>1 DEF Covered, Live
      <4> QED BY <1>0, <1>3, <2>2, <2>4, <4>2 DEF WakeInv, Watched
    <3> QED BY <3>2, <3>3
  <2> QED BY <2>3, <2>4
<1> QED BY <1>4, <1>5

(* What a splice drops is owed no more. *)
LEMMA SpliceWake ==
  ASSUME DriverInv, WakeInv, NEW l \in Lane, NEW i, NEW r, NEW ins, Splice(l, i, r, ins)
  PROVE  WakeInv'
<1> DEFINE dropped == Items(SubSeq(box[l], i, i + r - 1))
<1>1. /\ owed' = owed \ dropped /\ gap' = gap \ dropped
      /\ fate' = [m \in Message |-> CASE m \in dropped -> "canceled"
                                      [] m \in Items(ins) -> l
                                      [] OTHER -> fate[m]]
      /\ UNCHANGED <<phase, drv, stack>>
  BY DEF Splice
<1> HIDE DEF dropped
<1>2. ASSUME \A m \in owed : fate[m] \in Lane
      PROVE  \A m \in owed' : fate'[m] \in Lane
  <2> SUFFICES ASSUME NEW m \in owed' PROVE fate'[m] \in Lane
    OBVIOUS
  <2>1. m \in Message /\ m \in owed /\ m \notin dropped
    BY <1>1 DEF DriverInv, TypeOK
  <2>2. fate'[m] = IF m \in Items(ins) THEN l ELSE fate[m]
    BY <1>1, <2>1
  <2> QED BY <1>2, <2>1, <2>2
<1>3. Covered <=> Covered'
  BY <1>1 DEF Covered, Live
<1> QED BY <1>1, <1>2, <1>3 DEF WakeInv, Watched

(* cancel, from wherever it is called. *)
LEMMA CancelWake ==
  ASSUME DriverInv, WakeInv, NEW c \in Cause, NEW k \in BOOLEAN, Cancel(c, k)
  PROVE  WakeInv'
<1>0. c \in Signal /\ c # "live" /\ UNCHANGED drv
  BY DEF Signal, Cause, Cancel
<1>1. CASE k /\ Abort(c, k, stack) /\ UNCHANGED boxVars
  <2>1. ClosingOnTop(stack) /\ UNCHANGED fate
    BY <1>1 DEF WakeInv, boxVars
  <2> QED BY <1>0, <1>1, <2>1, AbortWake
<1>2. CASE ~k /\ HasPending
  <2>1. Open(stack)
    BY <1>2, OpenStacks DEF DriverInv, Cancel, InAppend
  <2>2. CASE Discard("next-step") /\ stack' = Push(Caused("clear", c), stack)
    <3>1. Caused("clear", c) \in Frame /\ Caused("clear", c).op = "clear"
      BY <1>0, StackType DEF DriverInv, Caused
    <3>2. Clearing(stack') /\ ClosingOnTop(stack')
      BY <2>1, <2>2, <3>1, OpenStacks, PushHeld DEF DriverInv, Open
    <3>3. UNCHANGED <<phase, owed>>
      BY <2>2 DEF Discard, ghostVars
    <3> QED BY <3>2, <3>3 DEF WakeInv
  <2>3. CASE ClearNextTurn(c, stack)
    BY <1>0, <2>1, <2>3, ClearNextTurnWake
  <2> QED BY <1>2, <2>2, <2>3 DEF Cancel
<1>3. CASE ~k /\ ~HasPending
  <2>1. box["next-step"] = <<>> /\ box["next-turn"] = <<>>
    BY <1>3 DEF HasPending, Lane
  <2>2. Abort(c, FALSE, stack) /\ UNCHANGED boxVars
    BY <1>3, <2>1 DEF Cancel, ClearNextTurn
  <2>3. ClosingOnTop(stack) /\ UNCHANGED fate
    BY <2>2 DEF WakeInv, boxVars
  <2> QED BY <1>0, <2>2, <2>3, AbortWake
<1> QED BY <1>1, <1>2, <1>3 DEF Cancel

(* Maintenance takes over what the idle agent was about to be woken for. *)
LEMMA StartMaintenanceWake ==
  ASSUME DriverInv, WakeInv, StartMaintenance
  PROVE  WakeInv'
<1>1. /\ phase.kind = "idle" /\ phase'.kind = "maintenance" /\ phase'.abort = "live"
      /\ UNCHANGED <<stack, fate, owed, gap>>
  BY DEF StartMaintenance, boxVars, ghostVars, DriverInv, TypeOK, PhaseType
<1>2. Covered => Covered'
  BY <1>1 DEF Covered
<1> QED BY <1>1, <1>2 DEF WakeInv, Watched

(* The calls of plugins and listeners. *)
LEMMA CallWake ==
  ASSUME DriverInv, WakeInv, Call
  PROVE  WakeInv'
BY SendWake, SpliceWake, CancelWake, StartMaintenanceWake DEF Call

(* Methods that go on after their notification. *)
LEMMA ReturnWake ==
  ASSUME DriverInv, WakeInv, Return
  PROVE  WakeInv'
<1>0. stack # <<>> /\ stack \in Seq(Frame) /\ stack[1] \in Frame /\ Open(Tail(stack))
  <2>1. stack # <<>>
    BY DEF Return, ReturnSend, ReturnClear, ReturnAbort, ReturnStart,
       ReturnOpened, ReturnAdmitting, ReturnFailing, ReturnClosing, ReturnSettle,
       Top
  <2> QED BY <2>1, OpenStacks, PopHeld DEF DriverInv
<1> DEFINE rest == Tail(stack)
<1>1. /\ stack[1].op \notin {"clear", "abort"} => (Clearing(rest) <=> Clearing(stack))
      /\ stack[1].op # "send" => (Held(rest, "send") <=> Held(stack, "send"))
      /\ stack[1].op # "settle" => (Held(rest, "settle") <=> Held(stack, "settle"))
      /\ stack[1].op # "send" => (Suspended(rest, {"send"}) <=> Suspended(stack, {"send"}))
      /\ ClosingOnTop(rest) /\ ~Parks(rest)
  BY <1>0, PopHeld, OpenStacks DEF DriverInv
<1>2. ASSUME stack[1].op \in {"start", "opened", "admitting", "failing", "closing"}
      PROVE  phase.kind = "running" /\ drv.pc = "off"
  BY <1>0, <1>2, DriverOnTop DEF DriverInv, TurnInv, DriverOps
<1>3. CASE ReturnSend
  <2>1. /\ stack[1].op = "send" /\ stack[1].latch \in BOOLEAN
        /\ WakeDriver(stack[1].latch, Tail(stack)) /\ UNCHANGED <<drv, fate, owed, gap>>
    BY <1>0, <1>3 DEF ReturnSend, Top, Frame, boxVars, ghostVars
  <2> QED BY <1>0, <2>1, WakeDriverWake
<1>4. CASE ReturnClear
  <2>1. /\ stack[1].op = "clear" /\ stack[1].cause \in Signal
        /\ ClearNextTurn(stack[1].cause, rest) /\ UNCHANGED drv
    BY <1>0, <1>4 DEF ReturnClear, Top, Frame
  <2>2. CASE stack[1].cause # "live"
    BY <1>0, <2>1, <2>2, ClearNextTurnWake
  <2>3. CASE stack[1].cause = "live"
    <3>1. CASE Discard("next-turn") /\ stack' = Push(Caused("abort", stack[1].cause), rest)
      <4>1. Caused("abort", stack[1].cause) \in Frame
             /\ Caused("abort", stack[1].cause).op = "abort"
        BY <2>1, StackType DEF DriverInv, Caused
      <4>2. Clearing(stack') /\ ClosingOnTop(stack')
        BY <1>0, <3>1, <4>1, OpenStacks, PushHeld DEF DriverInv, Open
      <4>3. UNCHANGED <<phase, owed>>
        BY <3>1 DEF Discard, ghostVars
      <4> QED BY <4>2, <4>3 DEF WakeInv
    <3>2. CASE Abort(stack[1].cause, FALSE, rest)
      BY <1>1, <3>2, NothingOwed DEF Abort
    <3> QED BY <2>1, <3>1, <3>2 DEF ClearNextTurn
  <2> QED BY <2>2, <2>3
<1>5. CASE ReturnAbort
  BY <1>1, <1>5, NothingOwed DEF ReturnAbort, Abort
<1>6. CASE ReturnStart
  <2>1. /\ stack[1].op = "start" /\ BeginTurn(rest) /\ UNCHANGED <<fate, owed, gap>>
    BY <1>6 DEF ReturnStart, Top, boxVars, ghostVars
  <2> QED BY <1>0, <1>1, <1>2, <2>1, BeginTurnWake
<1>7. CASE ReturnOpened
  <2>1. stack[1].op = "opened"
    BY <1>7 DEF ReturnOpened, Top
  <2>2. CASE CloseTurn(FALSE, rest)
    BY <1>0, <1>1, <1>2, <2>1, <2>2, CloseTurnWake
  <2>3. CASE /\ Live /\ Claim("next-turn")
             /\ drv' = [drv EXCEPT !.pc = "assemble", !.hand = Batch("next-turn")]
             /\ stack' = rest /\ UNCHANGED phase
    <3>1. drv'.pc = "assemble"
      BY <2>3 DEF DriverInv, TypeOK, DriverType
    <3>2. (\A m \in owed : fate[m] \in Lane) => \A m \in owed' : fate'[m] \in Lane
      BY <2>3, ClaimWake DEF Lane
    <3> QED BY <1>1, <1>2, <2>1, <2>3, <3>1, <3>2, LiveStep DEF Live
  <2> QED BY <1>7, <2>2, <2>3 DEF ReturnOpened
<1>8. CASE ReturnFailing
  <2>1. stack[1].op = "failing" /\ CloseTurn(FALSE, rest)
    BY <1>8 DEF ReturnFailing, Top
  <2> QED BY <1>0, <1>1, <1>2, <2>1, CloseTurnWake
<1>9. CASE ReturnClosing
  <2>1. /\ stack[1].op = "closing" /\ stack' = rest /\ UNCHANGED <<fate, owed, gap>>
    BY <1>9 DEF ReturnClosing, Top, boxVars
  <2>2. CASE stack[1].latch /\ HasPending
    <3>1. /\ phase'.kind = phase.kind /\ phase'.abort = "live" /\ drv'.pc = "again"
      BY <1>9, <2>2 DEF ReturnClosing, DriverInv, TypeOK, PhaseType, DriverType
    <3> QED BY <1>1, <1>2, <2>1, <3>1, LiveStep
  <2>3. CASE ~(stack[1].latch /\ HasPending)
    <3>1. UNCHANGED phase
      BY <1>9, <2>3 DEF ReturnClosing
    <3>2. CASE ~Live
      <4>1. Covered => Covered'
        BY <1>1, <1>2, <2>1, <3>1, <3>2 DEF Covered, Live
      <4> QED BY <1>1, <2>1, <3>1, <4>1 DEF WakeInv, Watched
    <3>3. CASE Live
      <4>1. Watched => owed = {} \/ owed \subseteq gap
        <5>1. CASE ~HasPending
          BY <5>1, OwedPending
        <5>2. CASE ~stack[1].latch
          <6>1. Parks(stack)
            BY <1>0, <2>1, <5>2 DEF Parks
          <6> QED BY <1>2, <2>1, <3>3, <6>1 DEF Covered, Live, Watched
        <5> QED BY <2>3, <5>1, <5>2
      <4> QED BY <1>1, <2>1, <3>1, <4>1 DEF WakeInv, Watched
    <3> QED BY <3>2, <3>3
  <2> QED BY <2>2, <2>3
<1>10. CASE ReturnSettle
  <2>1. stack[1].op = "settle" /\ UNCHANGED <<drv, fate, owed, gap>>
    BY <1>10 DEF ReturnSettle, Top, boxVars, ghostVars
  <2>2. CASE stack[1].latch /\ HasPending
    BY <1>0, <1>10, <2>1, <2>2, WakeDriverWake DEF ReturnSettle
  <2>3. CASE ~(stack[1].latch /\ HasPending)
    <3>1. stack' = rest /\ UNCHANGED phase
      BY <1>10, <2>3 DEF ReturnSettle
    <3>2. CASE HasPending \/ owed # {}
      <4>1. Watched => ~stack[1].latch
        BY <2>3, <3>2, OwedPending
      <4>2. ~stack[1].latch => (Held(rest, "settle") <=> Held(stack, "settle"))
        BY <1>0, PopHeld
      <4>3. Watched /\ Covered => Covered'
        BY <1>1, <2>1, <3>1, <4>1, <4>2 DEF Covered, Live
      <4> QED BY <1>1, <2>1, <3>1, <4>3 DEF WakeInv, Watched
    <3>3. CASE owed = {}
      BY <1>1, <2>1, <3>1, <3>3, NothingOwed
    <3> QED BY <3>2, <3>3
  <2> QED BY <2>2, <2>3
<1>11. CASE ReturnAdmitting
  <2>1. stack[1].op = "admitting" /\ AppendNext(rest)
    BY <1>11 DEF ReturnAdmitting, Top
  <2> QED BY <1>0, <1>1, <1>2, <2>1, AppendNextWake
<1> QED BY <1>3, <1>4, <1>5, <1>6, <1>7, <1>8, <1>9, <1>10, <1>11 DEF Return

(* The driver goes on after an await. *)
LEMMA ResumeWake ==
  ASSUME DriverInv, WakeInv, Resume
  PROVE  WakeInv'
<1>0. stack = <<>> /\ drv.pc # "off" /\ phase.kind = "running"
  <2>1. stack = <<>> /\ drv.pc # "off"
    BY DEF Resume, Interrupted, Fails, Reject, EnterStep, EndEmpty, Admit, Retry,
           Decided, Prepared, Finish, EndStep, Stop, NextTurn, Settle, Resumes, TurnAwait, HookAwait
  <2> QED BY <2>1 DEF DriverInv, TurnInv, SingleDriver
<1>1. Open(<<>>) /\ Open(stack) /\ ~Clearing(stack) /\ ClosingOnTop(<<>>) /\ ~Parks(<<>>)
  BY <1>0, OpenStacks, EmptyHeld DEF DriverInv
<1>2. ASSUME NEW next \in BOOLEAN, CloseTurn(next, <<>>)
      PROVE  WakeInv'
  BY <1>0, <1>1, <1>2, CloseTurnWake
<1>3. ASSUME UNCHANGED stack, phase'.kind = phase.kind, phase'.abort = "live",
             drv'.pc # "retired",
             (\A m \in owed : fate[m] \in Lane) => \A m \in owed' : fate'[m] \in Lane
      PROVE  WakeInv'
  BY <1>0, <1>1, <1>3, LiveStep
<1>4. CASE Interrupted \/ Reject
  BY <1>0, <1>2, <1>4 DEF Interrupted, Reject
<1>5. CASE Fails
  <2>1. /\ Plain("failing") \in Frame /\ Plain("failing").op = "failing"
        /\ stack' = Push(Plain("failing"), stack)
    BY <1>5, StackType DEF DriverInv, Fails, Plain
  <2>2. ClosingOnTop(stack') /\ ~Parks(stack')
    BY <1>1, <2>1, PushHeld DEF Open
  <2>3. /\ phase' = phase /\ phase.abort = "live" /\ drv'.pc = "off"
        /\ UNCHANGED <<fate, owed, gap>>
    BY <1>5 DEF Fails, Live, boxVars, ghostVars, DriverInv, TypeOK, DriverType
  <2> QED BY <1>0, <1>1, <2>2, <2>3, LiveStep
<1>6. ASSUME NEW batch \in Kept, NEW extra \in BOOLEAN, EnterStep(batch, extra)
      PROVE  WakeInv'
  <2>1. /\ phase'.kind = phase.kind /\ phase'.abort = "live" /\ drv'.pc = "prepare"
        /\ UNCHANGED <<stack, fate, owed, gap>>
    BY <1>6 DEF EnterStep, Live, boxVars, ghostVars, DriverInv, TypeOK, PhaseType, DriverType
  <2> QED BY <1>3, <2>1
<1>7. ASSUME NEW batch \in Kept, NEW extra \in BOOLEAN, EndEmpty(batch, extra)
      PROVE  WakeInv'
  <2>1. (drv.ends # "none") \in BOOLEAN
    OBVIOUS
  <2> QED BY <1>2, <1>7, <2>1 DEF EndEmpty
<1>8. CASE Admit
  <2>1. AppendNext(<<>>) /\ drv.pc = "prepared"
    BY <1>8 DEF Admit, Resumes
  <2> QED BY <1>0, <1>1, <2>1, AppendNextWake
<1>14. CASE Decided \/ Prepared
  <2>1. /\ phase' = phase /\ phase.abort = "live" /\ drv'.pc # "retired"
        /\ UNCHANGED <<stack, fate, owed, gap>>
    BY <1>14 DEF Decided, Prepared, Live, boxVars, ghostVars, DriverInv, TypeOK, DriverType
  <2> QED BY <1>3, <2>1
<1>9. CASE Retry
  <2>1. /\ phase' = phase /\ phase.abort = "live" /\ drv'.pc = "prepare"
        /\ UNCHANGED <<stack, fate, owed, gap>>
    BY <1>9 DEF Retry, Live, boxVars, ghostVars, DriverInv, TypeOK, DriverType
  <2> QED BY <1>3, <2>1
<1>10. CASE Finish
  <2>1. PICK o \in {"completed", "max-tokens", "tools"} : EndStep(o)
    BY <1>10 DEF Finish
  <2>2. UNCHANGED <<phase, stack>> /\ phase.abort = "live"
    BY <2>1 DEF EndStep, Live
  <2>3. CASE EndsAfter(o) # "none" /\ box["next-step"] = <<>>
    <3>1. drv'.pc = "stopping" /\ UNCHANGED <<fate, owed>>
      BY <2>1, <2>3 DEF EndStep, boxVars, ghostVars, DriverInv, TypeOK, DriverType
    <3> QED BY <1>3, <2>2, <3>1
  <2>4. CASE ~(EndsAfter(o) # "none" /\ box["next-step"] = <<>>)
    <3>1. drv'.pc = "assemble" /\ Claim("next-step")
      BY <2>1, <2>4 DEF EndStep
    <3>2. (\A m \in owed : fate[m] \in Lane) => \A m \in owed' : fate'[m] \in Lane
      BY <3>1, ClaimWake DEF Lane
    <3> QED BY <1>3, <2>2, <3>1, <3>2
  <2> QED BY <2>3, <2>4
<1>11. CASE Stop
  <2>1. CASE CloseTurn(TRUE, <<>>)
    BY <1>2, <2>1
  <2>2. CASE /\ Claim("next-step")
             /\ drv' = [drv EXCEPT !.pc = "assemble", !.hand = Batch("next-step")]
             /\ UNCHANGED <<phase, stack>>
    <3>1. drv'.pc = "assemble" /\ phase.abort = "live"
      BY <1>11, <2>2 DEF Stop, Live, DriverInv, TypeOK, DriverType
    <3>2. (\A m \in owed : fate[m] \in Lane) => \A m \in owed' : fate'[m] \in Lane
      BY <2>2, ClaimWake DEF Lane
    <3> QED BY <1>3, <2>2, <3>1, <3>2
  <2> QED BY <1>11, <2>1, <2>2 DEF Stop
<1>12. CASE NextTurn
  <2>1. BeginTurn(<<>>) /\ UNCHANGED <<fate, owed, gap>>
    BY <1>12 DEF NextTurn, boxVars, ghostVars
  <2> QED BY <1>0, <1>1, <2>1, BeginTurnWake
<1>13. CASE Settle
  <2> DEFINE f == [op |-> "settle", latch |-> phase.wake,
                   cause |-> IF condemned THEN "disposed" ELSE "live"]
  <2>1. /\ f \in Frame /\ f.op = "settle" /\ f.latch = phase.wake
        /\ stack' = Push(f, stack)
    BY <1>13 DEF Settle, DriverInv, TypeOK, PhaseType, Frame, Signal, Cause
  <2> HIDE DEF f
  <2>2. ClosingOnTop(stack') /\ (phase.wake => Held(stack', "settle"))
    BY <1>1, <2>1, PushHeld DEF Open
  <2>3. /\ drv.pc = "retired" /\ phase'.kind = "idle" /\ phase'.abort = "live"
        /\ UNCHANGED <<fate, owed, gap>>
    BY <1>13 DEF Settle, Resumes, boxVars, DriverInv, TypeOK, PhaseType
  <2>4. ~Held(stack, "send")
    BY <1>0, EmptyHeld
  <2>5. Covered => Covered'
    BY <1>0, <2>2, <2>3, <2>4 DEF Covered, Live
  <2> QED BY <1>1, <2>2, <2>3, <2>5 DEF WakeInv, Watched
<1> QED BY <1>4, <1>5, <1>6, <1>7, <1>8, <1>9, <1>10, <1>11, <1>12, <1>13,
           <1>14 DEF Resume

(* Maintenance ends: with a latched wake the driver starts. *)
LEMMA FinishMaintenanceWake ==
  ASSUME DriverInv, WakeInv, FinishMaintenance
  PROVE  WakeInv'
<1>1. /\ stack = <<>> /\ phase.kind = "maintenance" /\ Open(<<>>) /\ ~Clearing(stack)
      /\ UNCHANGED <<drv, fate, owed, gap>>
  BY OpenStacks, EmptyHeld DEF FinishMaintenance, DriverInv, boxVars
<1>2. CASE phase.abort # "disposed" /\ phase.wake /\ HasPending
  BY <1>1, <1>2, StartDriverWake DEF FinishMaintenance
<1>3. CASE ~(phase.abort # "disposed" /\ phase.wake /\ HasPending)
  <2>1. /\ phase' = [phase EXCEPT !.kind = "idle", !.abort = "live", !.wake = FALSE]
        /\ UNCHANGED stack
    BY <1>3 DEF FinishMaintenance
  <2>2. phase'.abort = "live" /\ ClosingOnTop(stack')
    BY <1>1, <2>1, EmptyHeld DEF DriverInv, TypeOK, PhaseType
  <2>3. CASE owed = {}
    BY <1>1, <2>2, <2>3, NothingOwed
  <2>4. CASE owed # {}
    <3>1. HasPending /\ phase.abort # "disposed" /\ Watched
      BY <1>1, <2>4, OwedPending DEF WakeInv
    <3>2. ~Covered
      BY <1>1, <1>3, <3>1, EmptyHeld DEF Covered
    <3> QED BY <1>1, <2>2, <3>1, <3>2 DEF WakeInv, Watched
  <2> QED BY <2>3, <2>4
<1> QED BY <1>2, <1>3

(* The watch is kept in every reachable state. *)
LEMMA WakesInductive == Spec => [](DriverInv /\ WakeInv)
<1>1. Init => WakeInv
  BY EmptyHeld DEF Init, WakeInv, Watched
<1>2. DriverInv /\ WakeInv /\ [Next]_vars => WakeInv'
  <2> SUFFICES ASSUME DriverInv, WakeInv, [Next]_vars PROVE WakeInv'
    OBVIOUS
  <2>1. CASE UNCHANGED vars
    <3>1. Covered <=> Covered'
      BY <2>1 DEF vars, Covered, Live
    <3> QED BY <2>1, <3>1 DEF vars, WakeInv, Watched
  <2> QED BY <2>1, CallWake, ReturnWake, ResumeWake, FinishMaintenanceWake DEF Next
<1>3. TypeOK /\ TurnInv /\ MailboxExact => DriverInv
  BY DEF DriverInv
<1> QED BY <1>1, <1>2, <1>3, TurnsInductive, MailboxCorrect, PTL DEF Spec

(* No wake is lost but in the gap of finding 1: once the agent has come to
   rest, nothing is left that it still had to start on, whichever listener
   sends, cancels, wakes or starts maintenance from inside whichever
   notification (agent.ts send, wakeDriver, kick, runMaintenance). *)
THEOREM WakesAreKept == Spec => []NoWakeLost
<1>1. DriverInv /\ WakeInv => NoWakeLost
  <2> SUFFICES ASSUME DriverInv, WakeInv, AtRest PROVE owed \subseteq gap
    BY DEF NoWakeLost
  <2>1. Watched /\ ~Covered
    BY EmptyHeld DEF AtRest, WakeInv, Covered
  <2> QED BY <2>1 DEF Watched
<1> QED BY <1>1, WakesInductive, PTL
=============================================================================
