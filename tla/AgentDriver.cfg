CONSTANTS
  Message = {m1, m2}
  MaxSteps = 3
  MaxDepth = 2
SPECIFICATION FairSpec
INVARIANTS TypeOK MailboxExact SingleDriver LogAgrees SoleFollowup NoWakeLost
PROPERTIES CancelHolds TurnsDense MailboxPromise CancelConverges WakesServed
