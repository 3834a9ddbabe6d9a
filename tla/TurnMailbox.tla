---------------------------- MODULE TurnMailbox ----------------------------
(***************************************************************************)
(* What an agent promises about the messages it is given, without drivers, *)
(* signals or listeners: a message waits in one of two lists; turns are    *)
(* opened one at a time under successive numbers; an open turn takes       *)
(* everything from the next-step list and at most once one follow-up from  *)
(* the next-turn list; what a turn took it may enter into the history      *)
(* while it is open, each message once; and what waits may be withdrawn.   *)
(* AgentDriver implements it (MailboxPromise there).                       *)
(***************************************************************************)
EXTENDS Naturals, Sequences

CONSTANT Message

VARIABLES
  fate,      \* where each message is
  owner,     \* the turn that took m as its follow-up, or 0
  openTurn,  \* number of the open turn, or 0
  lastTurn,  \* number of the latest turn
  surface    \* the messages entered into the history, in order

vars == <<fate, owner, openTurn, lastTurn, surface>>

Waiting == {"next-turn", "next-step"}

(* Submit "posted" to list l and withdraw "gone" from whatever list. *)
Revise(posted, l, gone) ==
  /\ \A m \in posted : fate[m] = "unsent"
  /\ \A m \in gone : fate[m] \in Waiting
  /\ fate' = [m \in Message |-> IF m \in gone THEN "canceled"
                               ELSE IF m \in posted THEN l ELSE fate[m]]
  /\ UNCHANGED <<owner, openTurn, lastTurn, surface>>

Open ==
  /\ openTurn = 0
  /\ openTurn' = lastTurn + 1
  /\ lastTurn' = lastTurn + 1
  /\ UNCHANGED <<fate, owner, surface>>

(* The open turn takes all steering, and "followup" if it has none yet. *)
Take(followup) ==
  /\ openTurn # 0
  /\ \A m \in followup : fate[m] = "next-turn"
  /\ \A m, n \in followup : m = n
  /\ followup # {} => \A m \in Message : owner[m] # openTurn
  /\ fate' = [m \in Message |->
                IF fate[m] = "next-step" \/ m \in followup THEN "claimed"
                                                           ELSE fate[m]]
  /\ owner' = [m \in Message |-> IF m \in followup THEN openTurn
                                                   ELSE owner[m]]
  /\ UNCHANGED <<openTurn, lastTurn, surface>>

(* The history grows by messages the turn holds, none of them twice. *)
Added == (Len(surface) + 1)..Len(surface')

Enter ==
  /\ openTurn # 0
  /\ surface' \in Seq(Message)
  /\ Len(surface) <= Len(surface')
  /\ \A i \in 1..Len(surface) : surface'[i] = surface[i]
  /\ \A i, j \in Added : surface'[i] = surface'[j] => i = j
  /\ \A i \in Added : fate[surface'[i]] = "claimed"
  /\ fate' = [m \in Message |->
                IF \E i \in Added : m = surface'[i] THEN "entered" ELSE fate[m]]
  /\ UNCHANGED <<owner, openTurn, lastTurn>>

Close ==
  /\ openTurn # 0
  /\ openTurn' = 0
  /\ UNCHANGED <<fate, owner, lastTurn, surface>>

Init ==
  /\ fate = [m \in Message |-> "unsent"]
  /\ owner = [m \in Message |-> 0]
  /\ openTurn = 0 /\ lastTurn = 0
  /\ surface = <<>>

Next ==
  \/ \E posted, gone \in SUBSET Message, l \in Waiting : Revise(posted, l, gone)
  \/ \E followup \in SUBSET Message : Take(followup)
  \/ Open \/ Enter \/ Close

Spec == Init /\ [][Next]_vars
=============================================================================
