--------------------------- MODULE MCStepRecovery ---------------------------
(***************************************************************************)
(* StepRecovery for TLC, with the scan of interruptedTurnClosers as the    *)
(* code has it: StepRecovery says by the last events that decide it what   *)
(* the scan computes event by event, and TLC compares the two.             *)
(***************************************************************************)
EXTENDS StepRecovery, SequencesExt

CONSTANT ScanLength  \* the longest log that is compared (bound)

ASSUME ScanLengthAssumption == ScanLength \in Nat

(* What the loop keeps: the open boundaries, and the pending calls with the
   start that it has seen of each. *)
Nothing == [turn |-> FALSE, step |-> FALSE, pending |-> {}, start |-> [i \in Call |-> 0]]

Scan(s, e, seq) ==
  CASE e.type = "turn/start" -> [Nothing EXCEPT !.turn = TRUE]
    [] e.type = "turn/end" -> Nothing
    [] e.type = "step/start" -> [s EXCEPT !.step = TRUE]
    [] e.type = "step/end" -> [Nothing EXCEPT !.turn = s.turn]
    [] e.type = "assistant/message" ->
         [s EXCEPT !.pending = Call, !.start = Nothing.start]
    [] e.type = "tool/call" /\ e.call \in s.pending -> [s EXCEPT !.start[e.call] = seq]
    [] e.type = "tool/result" -> [s EXCEPT !.pending = {i \in @ : ~Settles(e, i)}]
    [] OTHER -> s

Scanned(events) ==
  FoldLeftDomain(LAMBDA s, k : Scan(s, events[k], k), Nothing, events)

(* What StepRecovery says about the same log. *)
Decided(events) ==
  [turn |-> TurnOpen(events), step |-> StepOpen(events), pending |-> Pending(events)]

Samples ==
  {Mark(t) : t \in {"turn/start", "turn/end", "step/start", "step/end",
                    "assistant/message"}}
    \cup {CallEvent(i) : i \in Call} \cup {ResultEvent(i, 0, "outcome") : i \in Call}

(* The scan agrees with its declarative form on every log, legal or not, up to
   that length; a start is told of pending calls only. *)
ASSUME ScanAgrees ==
  \A n \in 0..ScanLength : \A events \in [1..n -> Samples] :
    LET s == Scanned(events)
    IN  /\ Decided(events) = [turn |-> s.turn, step |-> s.step, pending |-> s.pending]
        /\ \A i \in s.pending : StartOf(events, i) = s.start[i]
=============================================================================
