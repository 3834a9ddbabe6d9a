------------------------ MODULE AgentLifecycleProofs ------------------------
(***************************************************************************)
(* Theorems about AgentLifecycle for every set of clients.                 *)
(***************************************************************************)
EXTENDS AgentLifecycle, TLAPS

Stages == {"none", "waiting", "released", "opening", "creating", "reading",
           "releasing", "setup", "appending", "announcing", "rollback", "live",
           "failed"}

Types ==
  /\ loop \in [Loop -> {"unmounted", "active", "disposing", "gone", "rejected"}]
  /\ snapshot \in [Loop -> SUBSET Attempt]
  /\ pc \in [Attempt -> Stages]
  /\ at \in [Attempt -> Loop]
  /\ handle \in [Attempt -> {"none", "pending", "held", "abandoned", "closing",
                             "closed"}]
  /\ disposal \in [Attempt -> {"none", "draining", "closing", "leaving", "done"}]
  /\ failures \subseteq Attempt
  /\ registered \in Attempt \cup {None}

(* The write handle and the disposal of an attempt, stage by stage: a stage
   past the acquisition holds the handle until the one disposal has closed it. *)
HandleOK ==
  \A a \in Attempt :
    /\ pc[a] \in {"none", "waiting", "released"} =>
         handle[a] = "none" /\ disposal[a] = "none"
    /\ pc[a] \in {"opening", "creating"} =>
         handle[a] = "pending" /\ disposal[a] = "none"
    /\ pc[a] \in {"reading", "releasing"} =>
         handle[a] = "held" /\ disposal[a] = "none"
    /\ pc[a] \in {"setup", "appending", "announcing"} =>
         handle[a] = "held" /\ disposal[a] \in {"none", "draining"}
    /\ pc[a] = "rollback" => disposal[a] \in {"draining", "closing", "leaving"}
    /\ pc[a] \in {"rollback", "live"} =>
         handle[a] = IF disposal[a] \in {"leaving", "done"} THEN "closed" ELSE "held"
    /\ pc[a] = "failed" =>
         /\ handle[a] \in {"none", "closed", "abandoned", "closing"}
         /\ disposal[a] \in {"none", "done"}

(* The occupant of the registries is published and not gone, and a published
   agent occupies them until its disposal is done. *)
RegistryOK ==
  \A a \in Attempt :
    /\ registered = a => /\ pc[a] \in {"announcing", "rollback", "live"}
                         /\ disposal[a] # "done"
    /\ pc[a] = "announcing" \/ (pc[a] = "live" /\ disposal[a] # "done")
         => registered = a

(* A mount that is disposed knows every prepared agent of its own and has had it
   disposed, because it prepares no new one.  A mount that is gone has none
   left. *)
MountsOK ==
  /\ \A l \in Loop : at[l] = l
  /\ \A a \in Attempt :
       /\ loop[at[a]] = "unmounted" => pc[a] = "none"
       /\ loop[at[a]] = "disposing" /\ Prepared(a) =>
            a \in snapshot[at[a]] \/ disposal[a] = "done"
       /\ loop[at[a]] \in {"disposing", "rejected"} /\ Prepared(a) =>
            disposal[a] # "none"
       /\ loop[at[a]] = "gone" =>
            \/ pc[a] \in {"none", "failed"}
            \/ pc[a] = "live" /\ disposal[a] = "done"

IInv == Types /\ HandleOK /\ RegistryOK /\ MountsOK

(* None is no attempt. *)
LEMMA NoneIsNobody == None \notin Attempt
BY ClientsAssumption DEF Attempt, Loop, None

-----------------------------------------------------------------------------
LEMMA InitIInv ==
  ASSUME Init
  PROVE  IInv
<1> USE DEF Init, Attempt, Loop
<1>1. Types
  BY DEF Types, Stages
<1>2. HandleOK
  BY DEF HandleOK
<1>3. RegistryOK
  BY NoneIsNobody DEF RegistryOK
<1>4. MountsOK
  BY ClientsAssumption DEF MountsOK, Prepared
<1> QED BY <1>1, <1>2, <1>3, <1>4 DEF IInv

(* Every step keeps the types. *)
LEMMA TypesStep ==
  ASSUME IInv, Next
  PROVE  Types'
<1> USE DEF IInv, Types, Stages, Goes, Others, Disposing, Rollback
<1>1. ASSUME NEW a \in Attempt, WaitEnds(a) PROVE Types'
  BY <1>1 DEF WaitEnds
<1>2. ASSUME NEW a \in Attempt, CreateGranted(a) PROVE Types'
  BY <1>2 DEF CreateGranted, Prepare, MayPrepare, Unwanted
<1>3. ASSUME NEW a \in Attempt, Abandons(a) PROVE Types'
  BY <1>3 DEF Abandons
<1>4. ASSUME NEW a \in Attempt, AcquisitionRefused(a) PROVE Types'
  BY <1>4 DEF AcquisitionRefused
<1>5. ASSUME NEW a \in Attempt, ReadDone(a) PROVE Types'
  BY <1>5 DEF ReadDone, Prepare, MayPrepare, Unwanted
<1>6. ASSUME NEW a \in Attempt, Released(a) PROVE Types'
  BY <1>6 DEF Released
<1>7. ASSUME NEW a \in Attempt, SetupAborted(a) PROVE Types'
  BY <1>7 DEF SetupAborted, Interrupted
<1>8. ASSUME NEW a \in Attempt, Publish(a) PROVE Types'
  BY <1>8 DEF Publish
<1>9. ASSUME NEW a \in Attempt, PublishFails(a) PROVE Types'
  BY <1>9 DEF PublishFails
<1>10. ASSUME NEW a \in Attempt, Announced(a) PROVE Types'
  BY <1>10 DEF Announced
<1>11. ASSUME NEW a \in Attempt, AnnounceFails(a) PROVE Types'
  BY <1>11 DEF AnnounceFails
<1>12. ASSUME NEW a \in Attempt, Quiesces(a) PROVE Types'
  BY <1>12 DEF Quiesces
<1>13. ASSUME NEW a \in Attempt, HandleCloses(a) PROVE Types'
  BY <1>13 DEF HandleCloses
<1>14. ASSUME NEW a \in Attempt, Leaves(a) PROVE Types'
  BY <1>14 DEF Leaves
<1>15. ASSUME NEW a \in Attempt, OpenGranted(a) PROVE Types'
  BY <1>15 DEF OpenGranted
<1>16. ASSUME NEW a \in Attempt, OpenNotFound(a) PROVE Types'
  BY <1>16 DEF OpenNotFound
<1>17. ASSUME NEW a \in Attempt, AbandonedArrives(a) PROVE Types'
  BY <1>17 DEF AbandonedArrives
<1>18. ASSUME NEW a \in Attempt, AbandonedCloses(a) PROVE Types'
  BY <1>18 DEF AbandonedCloses
<1>19. ASSUME NEW a \in Attempt, SetupDone(a) PROVE Types'
  BY <1>19 DEF SetupDone
<1>20. ASSUME NEW a \in Attempt, SetupFails(a) PROVE Types'
  BY <1>20 DEF SetupFails
<1>21. ASSUME NEW a \in Clients, NEW l \in Loop,
             NEW stage \in {"opening", "creating"}, ClientCalls(a, l, stage)
      PROVE  Types'
  BY <1>21 DEF ClientCalls, Attempt
<1>22. ASSUME NEW a \in Clients, CallerAborts(a) PROVE Types'
  BY <1>22 DEF CallerAborts, Attempt
<1>23. ASSUME NEW a \in Clients, OwnerUnloads(a) PROVE Types'
  BY <1>23 DEF OwnerUnloads, Attempt
<1>24. ASSUME NEW a \in Clients, HolderDisposes(a) PROVE Types'
  BY <1>24 DEF HolderDisposes, Attempt
<1>25. ASSUME Mount PROVE Types'
  BY <1>25 DEF Mount, StartConfigured, Loop, Attempt
<1>26. ASSUME NEW l \in Loop, Unmount(l) PROVE Types'
  BY <1>26 DEF Unmount
<1>27. ASSUME NEW l \in Loop, Unmounted(l) PROVE Types'
  BY <1>27 DEF Unmounted
<1> QED BY <1>1, <1>2, <1>3, <1>4, <1>5, <1>6, <1>7, <1>8, <1>9, <1>10, <1>11, <1>12, <1>13, <1>14,
           <1>15, <1>16, <1>17, <1>18, <1>19, <1>20, <1>21, <1>22, <1>23, <1>24, <1>25, <1>26, <1>27
        DEF Next, Settles, MaySettle

(* Every step keeps handles and disposals in line with the stages. *)
LEMMA HandleStep ==
  ASSUME IInv, Next
  PROVE  HandleOK'
<1> USE DEF IInv, Types, HandleOK, Goes, Others, Disposing, Rollback, StageIs, Prepared
<1>1. ASSUME NEW a \in Attempt, WaitEnds(a) PROVE HandleOK'
  BY <1>1 DEF WaitEnds
<1>2. ASSUME NEW a \in Attempt, CreateGranted(a) PROVE HandleOK'
  BY <1>2 DEF CreateGranted, Prepare, MayPrepare, Unwanted
<1>3. ASSUME NEW a \in Attempt, Abandons(a) PROVE HandleOK'
  BY <1>3 DEF Abandons
<1>4. ASSUME NEW a \in Attempt, AcquisitionRefused(a) PROVE HandleOK'
  BY <1>4 DEF AcquisitionRefused
<1>5. ASSUME NEW a \in Attempt, ReadDone(a) PROVE HandleOK'
  BY <1>5 DEF ReadDone, Prepare, MayPrepare, Unwanted
<1>6. ASSUME NEW a \in Attempt, Released(a) PROVE HandleOK'
  BY <1>6 DEF Released
<1>7. ASSUME NEW a \in Attempt, SetupAborted(a) PROVE HandleOK'
  BY <1>7 DEF SetupAborted, Interrupted
<1>8. ASSUME NEW a \in Attempt, Publish(a) PROVE HandleOK'
  BY <1>8 DEF Publish
<1>9. ASSUME NEW a \in Attempt, PublishFails(a) PROVE HandleOK'
  BY <1>9 DEF PublishFails
<1>10. ASSUME NEW a \in Attempt, Announced(a) PROVE HandleOK'
  BY <1>10 DEF Announced
<1>11. ASSUME NEW a \in Attempt, AnnounceFails(a) PROVE HandleOK'
  BY <1>11 DEF AnnounceFails
<1>12. ASSUME NEW a \in Attempt, Quiesces(a) PROVE HandleOK'
  BY <1>12 DEF Quiesces
<1>13. ASSUME NEW a \in Attempt, HandleCloses(a) PROVE HandleOK'
  BY <1>13 DEF HandleCloses
<1>14. ASSUME NEW a \in Attempt, Leaves(a) PROVE HandleOK'
  BY <1>14 DEF Leaves
<1>15. ASSUME NEW a \in Attempt, OpenGranted(a) PROVE HandleOK'
  BY <1>15 DEF OpenGranted
<1>16. ASSUME NEW a \in Attempt, OpenNotFound(a) PROVE HandleOK'
  BY <1>16 DEF OpenNotFound
<1>17. ASSUME NEW a \in Attempt, AbandonedArrives(a) PROVE HandleOK'
  BY <1>17 DEF AbandonedArrives
<1>18. ASSUME NEW a \in Attempt, AbandonedCloses(a) PROVE HandleOK'
  BY <1>18 DEF AbandonedCloses
<1>19. ASSUME NEW a \in Attempt, SetupDone(a) PROVE HandleOK'
  BY <1>19 DEF SetupDone
<1>20. ASSUME NEW a \in Attempt, SetupFails(a) PROVE HandleOK'
  BY <1>20 DEF SetupFails
<1>21. ASSUME NEW a \in Clients, NEW l \in Loop,
             NEW stage \in {"opening", "creating"}, ClientCalls(a, l, stage)
      PROVE  HandleOK'
  BY <1>21 DEF ClientCalls, Attempt
<1>22. ASSUME NEW a \in Clients, CallerAborts(a) PROVE HandleOK'
  BY <1>22 DEF CallerAborts, Attempt
<1>23. ASSUME NEW a \in Clients, OwnerUnloads(a) PROVE HandleOK'
  BY <1>23 DEF OwnerUnloads, Attempt
<1>24. ASSUME NEW a \in Clients, HolderDisposes(a) PROVE HandleOK'
  BY <1>24 DEF HolderDisposes, Attempt
<1>25. ASSUME Mount PROVE HandleOK'
  <2>1. pc["second"] = "none" /\ "second" \in Attempt
    BY <1>25 DEF Mount, MountsOK, Attempt, Loop
  <2> QED BY <1>25, <2>1 DEF Mount, StartConfigured
<1>26. ASSUME NEW l \in Loop, Unmount(l) PROVE HandleOK'
  BY <1>26 DEF Unmount
<1>27. ASSUME NEW l \in Loop, Unmounted(l) PROVE HandleOK'
  BY <1>27 DEF Unmounted
<1> QED BY <1>1, <1>2, <1>3, <1>4, <1>5, <1>6, <1>7, <1>8, <1>9, <1>10, <1>11, <1>12, <1>13, <1>14,
           <1>15, <1>16, <1>17, <1>18, <1>19, <1>20, <1>21, <1>22, <1>23, <1>24, <1>25, <1>26, <1>27
        DEF Next, Settles, MaySettle

(* Every step keeps the registries true to the stages. *)
LEMMA RegistryStep ==
  ASSUME IInv, Next
  PROVE  RegistryOK'
<1> USE DEF IInv, Types, HandleOK, RegistryOK, Goes, Others, Disposing, Rollback, StageIs, Prepared
<1>1. ASSUME NEW a \in Attempt, WaitEnds(a) PROVE RegistryOK'
  BY <1>1 DEF WaitEnds
<1>2. ASSUME NEW a \in Attempt, CreateGranted(a) PROVE RegistryOK'
  BY <1>2 DEF CreateGranted, Prepare, MayPrepare, Unwanted
<1>3. ASSUME NEW a \in Attempt, Abandons(a) PROVE RegistryOK'
  BY <1>3 DEF Abandons
<1>4. ASSUME NEW a \in Attempt, AcquisitionRefused(a) PROVE RegistryOK'
  BY <1>4 DEF AcquisitionRefused
<1>5. ASSUME NEW a \in Attempt, ReadDone(a) PROVE RegistryOK'
  BY <1>5 DEF ReadDone, Prepare, MayPrepare, Unwanted
<1>6. ASSUME NEW a \in Attempt, Released(a) PROVE RegistryOK'
  BY <1>6 DEF Released
<1>7. ASSUME NEW a \in Attempt, SetupAborted(a) PROVE RegistryOK'
  BY <1>7 DEF SetupAborted, Interrupted
<1>8. ASSUME NEW a \in Attempt, Publish(a) PROVE RegistryOK'
  BY <1>8, NoneIsNobody DEF Publish
<1>9. ASSUME NEW a \in Attempt, PublishFails(a) PROVE RegistryOK'
  BY <1>9 DEF PublishFails
<1>10. ASSUME NEW a \in Attempt, Announced(a) PROVE RegistryOK'
  BY <1>10 DEF Announced
<1>11. ASSUME NEW a \in Attempt, AnnounceFails(a) PROVE RegistryOK'
  BY <1>11 DEF AnnounceFails
<1>12. ASSUME NEW a \in Attempt, Quiesces(a) PROVE RegistryOK'
  BY <1>12 DEF Quiesces
<1>13. ASSUME NEW a \in Attempt, HandleCloses(a) PROVE RegistryOK'
  BY <1>13 DEF HandleCloses
<1>14. ASSUME NEW a \in Attempt, Leaves(a) PROVE RegistryOK'
  <2>1. registered' = IF registered = a THEN None ELSE registered
    BY <1>14 DEF Leaves
  <2>2. \A b \in Attempt : /\ registered' = b => registered = b /\ b # a
                           /\ registered = b /\ b # a => registered' = b
    BY <2>1, NoneIsNobody
  <2>3. \A b \in Attempt :
          /\ pc[b] \in {"announcing", "rollback", "live"} /\ b # a => pc'[b] = pc[b]
          /\ pc'[b] \in {"announcing", "live"} => pc'[b] = pc[b]
          /\ b # a => disposal'[b] = disposal[b]
    BY <1>14 DEF Leaves
  <2>4. disposal'[a] = "done" /\ pc[a] # "announcing"
    BY <1>14 DEF Leaves
  <2> QED BY <2>2, <2>3, <2>4
<1>15. ASSUME NEW a \in Attempt, OpenGranted(a) PROVE RegistryOK'
  BY <1>15 DEF OpenGranted
<1>16. ASSUME NEW a \in Attempt, OpenNotFound(a) PROVE RegistryOK'
  BY <1>16 DEF OpenNotFound
<1>17. ASSUME NEW a \in Attempt, AbandonedArrives(a) PROVE RegistryOK'
  BY <1>17 DEF AbandonedArrives
<1>18. ASSUME NEW a \in Attempt, AbandonedCloses(a) PROVE RegistryOK'
  BY <1>18 DEF AbandonedCloses
<1>19. ASSUME NEW a \in Attempt, SetupDone(a) PROVE RegistryOK'
  BY <1>19 DEF SetupDone
<1>20. ASSUME NEW a \in Attempt, SetupFails(a) PROVE RegistryOK'
  BY <1>20 DEF SetupFails
<1>21. ASSUME NEW a \in Clients, NEW l \in Loop,
             NEW stage \in {"opening", "creating"}, ClientCalls(a, l, stage)
      PROVE  RegistryOK'
  BY <1>21 DEF ClientCalls, Attempt
<1>22. ASSUME NEW a \in Clients, CallerAborts(a) PROVE RegistryOK'
  BY <1>22 DEF CallerAborts, Attempt
<1>23. ASSUME NEW a \in Clients, OwnerUnloads(a) PROVE RegistryOK'
  BY <1>23 DEF OwnerUnloads, Attempt
<1>24. ASSUME NEW a \in Clients, HolderDisposes(a) PROVE RegistryOK'
  BY <1>24 DEF HolderDisposes, Attempt
<1>25. ASSUME Mount PROVE RegistryOK'
  <2>1. pc["second"] = "none" /\ "second" \in Attempt
    BY <1>25 DEF Mount, MountsOK, Attempt, Loop
  <2> QED BY <1>25, <2>1 DEF Mount, StartConfigured
<1>26. ASSUME NEW l \in Loop, Unmount(l) PROVE RegistryOK'
  BY <1>26 DEF Unmount
<1>27. ASSUME NEW l \in Loop, Unmounted(l) PROVE RegistryOK'
  BY <1>27 DEF Unmounted
<1> QED BY <1>1, <1>2, <1>3, <1>4, <1>5, <1>6, <1>7, <1>8, <1>9, <1>10, <1>11, <1>12, <1>13, <1>14,
           <1>15, <1>16, <1>17, <1>18, <1>19, <1>20, <1>21, <1>22, <1>23, <1>24, <1>25, <1>26, <1>27
        DEF Next, Settles, MaySettle

(* No attempt slips past the mount that is disposed. *)
LEMMA MountsStep ==
  ASSUME IInv, Next
  PROVE  MountsOK'
<1> USE DEF IInv, Types, HandleOK, MountsOK, Goes, Others, Disposing, Rollback, StageIs, Prepared, Active
<1>1. ASSUME NEW a \in Attempt, WaitEnds(a) PROVE MountsOK'
  BY <1>1 DEF WaitEnds
<1>2. ASSUME NEW a \in Attempt, CreateGranted(a) PROVE MountsOK'
  BY <1>2 DEF CreateGranted, Prepare, MayPrepare, Unwanted
<1>3. ASSUME NEW a \in Attempt, Abandons(a) PROVE MountsOK'
  BY <1>3 DEF Abandons
<1>4. ASSUME NEW a \in Attempt, AcquisitionRefused(a) PROVE MountsOK'
  BY <1>4 DEF AcquisitionRefused
<1>5. ASSUME NEW a \in Attempt, ReadDone(a) PROVE MountsOK'
  BY <1>5 DEF ReadDone, Prepare, MayPrepare, Unwanted
<1>6. ASSUME NEW a \in Attempt, Released(a) PROVE MountsOK'
  BY <1>6 DEF Released
<1>7. ASSUME NEW a \in Attempt, SetupAborted(a) PROVE MountsOK'
  BY <1>7 DEF SetupAborted, Interrupted
<1>8. ASSUME NEW a \in Attempt, Publish(a) PROVE MountsOK'
  BY <1>8 DEF Publish
<1>9. ASSUME NEW a \in Attempt, PublishFails(a) PROVE MountsOK'
  BY <1>9 DEF PublishFails
<1>10. ASSUME NEW a \in Attempt, Announced(a) PROVE MountsOK'
  BY <1>10 DEF Announced
<1>11. ASSUME NEW a \in Attempt, AnnounceFails(a) PROVE MountsOK'
  BY <1>11 DEF AnnounceFails
<1>12. ASSUME NEW a \in Attempt, Quiesces(a) PROVE MountsOK'
  BY <1>12 DEF Quiesces
<1>13. ASSUME NEW a \in Attempt, HandleCloses(a) PROVE MountsOK'
  BY <1>13 DEF HandleCloses
<1>14. ASSUME NEW a \in Attempt, Leaves(a) PROVE MountsOK'
  BY <1>14 DEF Leaves
<1>15. ASSUME NEW a \in Attempt, OpenGranted(a) PROVE MountsOK'
  BY <1>15 DEF OpenGranted
<1>16. ASSUME NEW a \in Attempt, OpenNotFound(a) PROVE MountsOK'
  BY <1>16 DEF OpenNotFound
<1>17. ASSUME NEW a \in Attempt, AbandonedArrives(a) PROVE MountsOK'
  BY <1>17 DEF AbandonedArrives
<1>18. ASSUME NEW a \in Attempt, AbandonedCloses(a) PROVE MountsOK'
  BY <1>18 DEF AbandonedCloses
<1>19. ASSUME NEW a \in Attempt, SetupDone(a) PROVE MountsOK'
  BY <1>19 DEF SetupDone
<1>20. ASSUME NEW a \in Attempt, SetupFails(a) PROVE MountsOK'
  BY <1>20 DEF SetupFails
<1>21. ASSUME NEW a \in Clients, NEW l \in Loop,
             NEW stage \in {"opening", "creating"}, ClientCalls(a, l, stage)
      PROVE  MountsOK'
  BY <1>21, ClientsAssumption DEF ClientCalls, Attempt
<1>22. ASSUME NEW a \in Clients, CallerAborts(a) PROVE MountsOK'
  BY <1>22 DEF CallerAborts, Attempt
<1>23. ASSUME NEW a \in Clients, OwnerUnloads(a) PROVE MountsOK'
  BY <1>23 DEF OwnerUnloads, Attempt
<1>24. ASSUME NEW a \in Clients, HolderDisposes(a) PROVE MountsOK'
  BY <1>24 DEF HolderDisposes, Attempt
<1>25. ASSUME Mount PROVE MountsOK'
  BY <1>25 DEF Mount, StartConfigured, Loop, Attempt
<1>26. ASSUME NEW l \in Loop, Unmount(l) PROVE MountsOK'
  BY <1>26 DEF Unmount
<1>27. ASSUME NEW l \in Loop, Unmounted(l) PROVE MountsOK'
  BY <1>27 DEF Unmounted
<1> QED BY <1>1, <1>2, <1>3, <1>4, <1>5, <1>6, <1>7, <1>8, <1>9, <1>10, <1>11, <1>12, <1>13, <1>14,
           <1>15, <1>16, <1>17, <1>18, <1>19, <1>20, <1>21, <1>22, <1>23, <1>24, <1>25, <1>26, <1>27
        DEF Next, Settles, MaySettle

-----------------------------------------------------------------------------
(* The strengthening: handles, registries and mounts follow the stages. *)
THEOREM Invariance == Spec => []IInv
<1>1. IInv /\ [Next]_vars => IInv'
  <2> SUFFICES ASSUME IInv, [Next]_vars PROVE IInv'
    OBVIOUS
  <2>1. CASE Next
    BY <2>1, TypesStep, HandleStep, RegistryStep, MountsStep DEF IInv
  <2>2. CASE UNCHANGED vars
    BY <2>2 DEF IInv, Types, HandleOK, RegistryOK, MountsOK, Prepared, vars
  <2> QED BY <2>1, <2>2
<1> QED BY <1>1, InitIInv, PTL DEF Spec

(* Whatever ends an attempt, nothing of it is left (prepare's reverse teardown,
   initializeAgent's rollback, FactoryOwnership.dispose). *)
THEOREM NothingIsLeft == Spec => []NothingLeft
<1>1. ASSUME IInv PROVE NothingLeft
  <2> USE <1>1 DEF IInv, HandleOK, RegistryOK, MountsOK
  <2>1. ASSUME NEW a \in Attempt, pc[a] = "failed" \/ disposal[a] = "done"
        PROVE  LeftNothing(a)
    BY <2>1 DEF LeftNothing, Types, Stages
  <2>2. ASSUME NEW a \in Attempt
        PROVE  /\ loop[at[a]] = "gone" => LeftNothing(a)
               /\ loop[at[a]] = "rejected" /\ Prepared(a) => disposal[a] # "none"
    BY <2>2 DEF LeftNothing, Prepared
  <2>3. ASSUME NEW a \in Attempt, pc[a] = "live"
        PROVE  \/ registered = a /\ (disposal[a] = "none" => handle[a] = "held")
               \/ handle[a] = "closed"
    BY <2>3
  <2> QED BY <2>1, <2>2, <2>3 DEF NothingLeft
<1> QED BY <1>1, Invariance, PTL
=============================================================================
