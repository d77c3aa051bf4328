------------------------- MODULE StackSwitchProofs -------------------------
(***************************************************************************)
(* The stack switch, proved for every set of addresses and every number of *)
(* switches, faults and crashes: one DHCP server at a time, the setting    *)
(* names the stack that serves, a committed switch lost no lease, and a    *)
(* rollback reported as done serves.                                       *)
(***************************************************************************)
EXTENDS StackSwitch, TLAPS

\* Kea: what its file says, whether it listens, a SIGHUP on its way.
Keas == [file : BOOLEAN, listens : BOOLEAN, hup : BOOLEAN]

\* A step that may fail keeps the count of faults in its bound.
LEMMA FaultType ==
    ASSUME TypeOK, Fault \/ NoFault
    PROVE  faults' \in 0..MaxFaults
BY SwitchBounds DEF TypeOK, Fault, NoFault

\* stopAll leaves daemons only.
LEMMA StopAllType ==
    ASSUME TypeOK, NEW D, D \subseteq Daemons, NEW S, stopAll(D, S)
    PROVE  /\ up' \subseteq Daemons
           /\ unstopped' \subseteq Daemons
           /\ faults' \in 0..MaxFaults
<1>1. faults' \in 0..MaxFaults
  BY FaultType DEF stopAll
<1>2. QED
  BY <1>1 DEF TypeOK, stopAll

\* The render of Kea's file, and the reload that may fail.
LEMMA ApplyScopesType ==
    ASSUME TypeOK, NEW s, NEW q, NEW U, applyScopes(s, q, U)
    PROVE  kea' \in Keas /\ faults' \in 0..MaxFaults
<1>0. Fault \/ NoFault
  BY DEF applyScopes
<1>1. faults' \in 0..MaxFaults
  BY <1>0, FaultType
<1>2. servesDhcp(s, q) \in BOOLEAN
  BY DEF servesDhcp
<1>3. \A b \in BOOLEAN :
        /\ [kea EXCEPT !.file = b, !.hup = TRUE] \in Keas
        /\ [kea EXCEPT !.file = b] \in Keas
  BY DEF TypeOK, Keas
<1>4. QED
  BY <1>1, <1>2, <1>3 DEF applyScopes

\* The start of PowerDNS.
LEMMA StartDaemonsType ==
    ASSUME TypeOK, NEW which, which \subseteq Daemons, NEW U, U \subseteq Daemons,
           startDaemons(which, U)
    PROVE  up' \subseteq Daemons /\ starting' \in BOOLEAN
<1>1. starting' \in BOOLEAN
  BY DEF startDaemons
<1>2. QED
  BY <1>1 DEF startDaemons, Daemons

\* A Kea that has stopped listens nowhere.
LEMMA StopKeaType ==
    ASSUME TypeOK,
           kea' = IF "kea" \in up' THEN kea
                  ELSE [kea EXCEPT !.listens = FALSE, !.hup = FALSE]
    PROVE  kea' \in Keas
BY DEF TypeOK, Keas

\* The two ends of a rollback.
LEMMA OutcomeType ==
    ASSUME TypeOK, RollbackDone \/ RollbackFailed
    PROVE  /\ st' \in States
           /\ told' \in BOOLEAN
           /\ marker' \in Stacks \union {"none"}
           /\ pc' \in Steps
<1>1. st' \in States
  BY DEF TypeOK, RollbackDone, RollbackFailed, States, Outcomes
<1>2. told' \in BOOLEAN
  BY DEF TypeOK, RollbackDone, RollbackFailed
<1>3. QED
  BY <1>1, <1>2 DEF TypeOK, RollbackDone, RollbackFailed, Steps

\* A wipe that threw partway.
LEMMA PartlyWipedType ==
    ASSUME TypeOK, PartlyWiped
    PROVE  store' \in [Servers -> SUBSET Addrs]
BY DEF TypeOK, PartlyWiped, Servers

\* The units that are told to stop are daemons.
LEMMA SubsetsOfDaemons ==
    /\ \A s : Service(s) \subseteq Daemons
    /\ {"kea", "dnsmasq"} \subseteq Daemons
BY DEF Service, Daemons

\* Every step keeps the type invariant.
LEMMA TypeNext == TypeOK /\ [Next]_vars => TypeOK'
<1> SUFFICES ASSUME TypeOK, [Next]_vars PROVE TypeOK'
  OBVIOUS
<1> USE DEF durable, daemons, memory, history, counts, Keas
<1>0. up \in SUBSET Daemons /\ kea \in Keas /\ SubsetsOfDaemons!1 /\ SubsetsOfDaemons!2
  BY SubsetsOfDaemons DEF TypeOK
<1>1. CASE UNCHANGED vars
  BY <1>1 DEF vars, TypeOK
<1>2. ASSUME NEW d \in Servers, NEW a \in Addrs, Grant(d, a) PROVE TypeOK'
  BY <1>2 DEF Grant, TypeOK
<1>3. ASSUME NEW target \in Stacks, switchStack(target) PROVE TypeOK'
  <2>1. st' \in States
    BY <1>3 DEF switchStack, Fresh, States, Outcomes
  <2>2. switches' \in 0..MaxSwitches
    BY <1>3, SwitchBounds DEF switchStack, TypeOK
  <2>3. owed' \subseteq Addrs
    BY <1>3 DEF switchStack, TypeOK, Dhcp, Servers
  <2>4. QED
    BY <1>3, <2>1, <2>2, <2>3 DEF switchStack, TypeOK, Steps, Forward
<1>4. CASE Reload
  BY <1>4 DEF Reload, TypeOK
<1>5. CASE restartAll
  <2>1. up' \subseteq Daemons /\ starting' \in BOOLEAN
    BY <1>5, <1>0, StartDaemonsType DEF restartAll, Daemons
  <2>2. QED
    BY <1>5, <2>1 DEF restartAll, TypeOK
<1>6. CASE StartRecursor
  BY <1>6 DEF StartRecursor, TypeOK, Daemons
<1>7. CASE Held
  <2>1. marker' \in Stacks
    BY <1>7 DEF Held, TypeOK, States
  <2>2. QED
    BY <1>7, <2>1 DEF Held, TypeOK, Steps, Forward
<1>8. CASE Stage
  BY <1>8 DEF Stage, TypeOK, Steps, Forward, Daemons
<1>9. CASE StageKea
  <2>1. kea' \in Keas
    BY <1>9 DEF StageKea, servesDhcp
  <2>2. QED
    BY <1>9, <2>1 DEF StageKea, TypeOK, Steps, Forward, Daemons
<1>10. CASE Quiesce
  <2>1. kea' \in Keas /\ faults' \in 0..MaxFaults
    BY <1>10, ApplyScopesType DEF Quiesce
  <2>2. QED
    BY <1>10, <2>1 DEF Quiesce, TypeOK, Steps, Forward
<1>11. CASE AwaitQuiet
  BY <1>11 DEF AwaitQuiet, TypeOK, Steps, Forward, Rollback
<1>12. CASE Read
  <2>1. st' \in States
    BY <1>12 DEF Read, TypeOK, States, Dhcp, Servers
  <2>2. QED
    BY <1>12, <2>1 DEF Read, TypeOK, Steps, Forward
<1>13. CASE Import
  <2>1. store' \in [Servers -> SUBSET Addrs]
    BY <1>13 DEF Import, TypeOK, States, Servers
  <2>2. QED
    BY <1>13, <2>1 DEF Import, TypeOK, Steps, Forward
<1>14. CASE Add
  <2>1. PICK refused \in SUBSET UNION st.leases :
           /\ store' = [store EXCEPT !["kea"] = @ \union ((UNION st.leases) \ refused)]
           /\ st' = [st EXCEPT !.refused = refused]
    BY <1>14 DEF Add
  <2>2. UNION st.leases \subseteq Addrs
    BY DEF TypeOK, States
  <2>3. store' \in [Servers -> SUBSET Addrs]
    BY <2>1, <2>2 DEF TypeOK, Servers
  <2>4. st' \in States
    BY <2>1, <2>2 DEF TypeOK, States
  <2>5. QED
    BY <1>14, <2>3, <2>4 DEF Add, TypeOK, Steps, Forward
<1>15. CASE StopSource
  <2>1. PICK S : stopAll(Service(Other(st.to)), S)
    BY <1>15 DEF StopSource
  <2>2. up' \subseteq Daemons /\ unstopped' \subseteq Daemons /\ faults' \in 0..MaxFaults
    BY <1>0, <2>1, StopAllType
  <2>3. kea' \in Keas
    BY <1>15, StopKeaType DEF StopSource
  <2>4. st' \in States
    BY <1>15 DEF StopSource, TypeOK, States
  <2>5. pc' \in Steps
    BY <1>15 DEF StopSource, Steps, Forward, Rollback
  <2>6. QED
    BY <1>15, <2>2, <2>3, <2>4, <2>5 DEF StopSource, TypeOK
<1>16. CASE Start
  <2>1. kea' \in Keas /\ faults' \in 0..MaxFaults
    BY <1>16, ApplyScopesType, FaultType DEF Start, TypeOK
  <2>2. up' \subseteq Daemons /\ starting' \in BOOLEAN
    <3>1. CASE st.to = "pdns-kea"
      BY <1>0, <1>16, <3>1, StartDaemonsType DEF Start, Daemons
    <3>2. CASE st.to # "pdns-kea"
      BY <1>16, <3>2 DEF Start, TypeOK, Daemons
    <3>3. QED
      BY <3>1, <3>2
  <2>3. st' \in States /\ stack' \in Stacks
    BY <1>16 DEF Start, TypeOK, States
  <2>4. quiesced' \in BOOLEAN
    BY <1>16 DEF Start, TypeOK
  <2>5. QED
    BY <1>16, <2>1, <2>2, <2>3, <2>4 DEF Start, TypeOK, Steps, Forward
<1>17. CASE StartFails
  <2>1. st' \in States /\ stack' \in Stacks
    BY <1>17 DEF StartFails, TypeOK, States
  <2>2. quiesced' \in BOOLEAN
    BY <1>17 DEF StartFails
  <2>3. faults' \in 0..MaxFaults
    BY <1>17, FaultType DEF StartFails
  <2>4. QED
    BY <1>17, <2>1, <2>2, <2>3 DEF StartFails, TypeOK, Steps, Rollback
<1>18. CASE AwaitRunning
  BY <1>18 DEF AwaitRunning, TypeOK, Steps, Forward, Rollback
<1>19. CASE Verify
  BY <1>19 DEF Verify, TypeOK, Steps, Forward
<1>20. CASE StepFails
  <2>1. faults' \in 0..MaxFaults
    BY <1>20, FaultType DEF StepFails
  <2>2. store' \in [Servers -> SUBSET Addrs]
    BY <1>20, PartlyWipedType DEF StepFails, TypeOK
  <2>3. QED
    BY <1>20, <2>1, <2>2 DEF StepFails, TypeOK, Steps, Rollback
<1>21. CASE CommitSetting
  <2>1. setting' \in Stacks
    BY <1>21 DEF CommitSetting, TypeOK, States
  <2>2. QED
    BY <1>21, <2>1 DEF CommitSetting, TypeOK, Steps
<1>22. CASE CommitFiles
  <2>1. st' \in States
    BY <1>22 DEF CommitFiles, TypeOK, States, Outcomes
  <2>2. QED
    BY <1>22, <2>1 DEF CommitFiles, TypeOK, Steps
<1>23. CASE CommitFails
  <2>1. st' \in States
    BY <1>23 DEF CommitFails, TypeOK, States, Outcomes
  <2>2. faults' \in 0..MaxFaults
    BY <1>23, FaultType DEF CommitFails
  <2>3. QED
    BY <1>23, <2>1, <2>2 DEF CommitFails, TypeOK, Steps
<1>24. CASE Finally
  BY <1>24 DEF Finally, TypeOK, Steps
<1>25. CASE TargetLeases
  <2>1. st' \in States
    BY <1>25 DEF TargetLeases, TypeOK, States, Dhcp, Servers
  <2>2. faults' \in 0..MaxFaults
    BY <1>25, FaultType DEF TargetLeases
  <2>3. QED
    BY <1>25, <2>1, <2>2 DEF TargetLeases, TypeOK, Steps, Rollback
<1>26. CASE StopTarget
  <2>1. PICK S : stopAll(Service(st.to), S)
    BY <1>26 DEF StopTarget
  <2>2. up' \subseteq Daemons /\ unstopped' \subseteq Daemons /\ faults' \in 0..MaxFaults
    BY <1>0, <2>1, StopAllType
  <2>3. kea' \in Keas
    BY <1>26, StopKeaType DEF StopTarget
  <2>4. /\ st' \in States /\ told' \in BOOLEAN
        /\ marker' \in Stacks \union {"none"} /\ pc' \in Steps
    <3>1. CASE RollbackDone \/ RollbackFailed
      BY <3>1, OutcomeType
    <3>2. CASE ~(RollbackDone \/ RollbackFailed)
      <4>1. /\ \/ st' = st
               \/ \E S1 \in SUBSET up : st' = [st EXCEPT !.problems = (S1 # {})]
            /\ pc' = "rbStart"
            /\ UNCHANGED <<marker, told>>
        BY <1>26, <3>2 DEF StopTarget
      <4>2. \A b \in BOOLEAN : [st EXCEPT !.problems = b] \in States
        BY DEF TypeOK, States
      <4>3. st' \in States
        BY <4>1, <4>2 DEF TypeOK
      <4>4. QED
        BY <4>1, <4>3 DEF TypeOK, Steps, Rollback
    <3>3. QED
      BY <3>1, <3>2
  <2>5. stack' \in Stacks
    BY <1>26 DEF StopTarget, TypeOK, Stacks
  <2>6. quiesced' \in BOOLEAN
    BY <1>26 DEF StopTarget, TypeOK
  <2>7. QED
    BY <1>26, <2>2, <2>3, <2>4, <2>5, <2>6 DEF StopTarget, TypeOK
<1>27. CASE RestartSource
  <2>1. CASE st.to = "pdns-kea"
    <3>1. store' \in [Servers -> SUBSET Addrs]
      BY <1>27, <2>1 DEF RestartSource, TypeOK, States, Servers
    <3>2. up' \subseteq Daemons
      BY <1>27, <2>1 DEF RestartSource, TypeOK, Daemons
    <3>3. QED
      BY <1>27, <2>1, <3>1, <3>2 DEF RestartSource, TypeOK, Steps, Rollback, NoFault
  <2>2. CASE st.to # "pdns-kea"
    <3>1. up' \subseteq Daemons /\ starting' \in BOOLEAN
      BY <1>0, <1>27, <2>2, StartDaemonsType DEF RestartSource, Daemons
    <3>2. kea' \in Keas /\ faults' \in 0..MaxFaults
      <4>1. CASE "kea" \in up
        BY <1>27, <2>2, <4>1, ApplyScopesType DEF RestartSource
      <4>2. CASE "kea" \notin up
        <5>1. /\ Fault \/ NoFault
              /\ \/ kea' = [file |-> TRUE, listens |-> kea.file, hup |-> ~kea.file]
                 \/ kea' = [file |-> TRUE, listens |-> kea.file, hup |-> FALSE]
          BY <1>27, <2>2, <4>2 DEF RestartSource
        <5>2. kea.file \in BOOLEAN /\ (~kea.file) \in BOOLEAN
          BY <1>0
        <5>3. \A a, b \in BOOLEAN : [file |-> TRUE, listens |-> a, hup |-> b] \in Keas
          OBVIOUS
        <5>4. kea' \in Keas
          <6> HIDE DEF Keas
          <6> QED
            BY <5>1, <5>2, <5>3
        <5>5. QED
          BY <5>1, <5>4, FaultType
      <4>3. QED
        BY <4>1, <4>2
    <3>3. stack' \in Stacks /\ quiesced' \in BOOLEAN
      BY <1>27, <2>2 DEF RestartSource, Stacks
    <3>4. QED
      BY <1>27, <2>2, <3>1, <3>2, <3>3 DEF RestartSource, TypeOK, Steps, Rollback
  <2>3. QED
    BY <2>1, <2>2
<1>28. CASE RestartSourceFails
  <2>1. /\ st' \in States /\ told' \in BOOLEAN
        /\ marker' \in Stacks \union {"none"} /\ pc' \in Steps
    BY <1>28, OutcomeType DEF RestartSourceFails
  <2>2. faults' \in 0..MaxFaults
    BY <1>28, FaultType DEF RestartSourceFails
  <2>3. CASE st.to = "pdns-kea"
    <3>1. \/ store' = store
          \/ store' = [store EXCEPT !["dnsmasq"] = UNION st.back]
      BY <1>28, <2>3 DEF RestartSourceFails
    <3>2. store' \in [Servers -> SUBSET Addrs]
      BY <3>1 DEF TypeOK, States, Servers
    <3>3. QED
      BY <1>28, <2>1, <2>2, <2>3, <3>2 DEF RestartSourceFails, TypeOK
  <2>4. CASE st.to # "pdns-kea"
    <3>1. up' \subseteq Daemons /\ starting' \in BOOLEAN
      BY <1>0, <1>28, <2>4, StartDaemonsType DEF RestartSourceFails, Daemons
    <3>2. kea' \in Keas
      BY <1>0, <1>28, <2>4 DEF RestartSourceFails
    <3>3. stack' \in Stacks /\ quiesced' \in BOOLEAN
      BY <1>28, <2>4 DEF RestartSourceFails, Stacks
    <3>4. /\ setting' = setting /\ store' = store /\ unstopped' = unstopped /\ owed' = owed
          /\ UNCHANGED counts
      BY <1>28, <2>4 DEF RestartSourceFails
    <3>5. QED
      BY <2>1, <2>2, <3>1, <3>2, <3>3, <3>4 DEF TypeOK
  <2>5. QED
    BY <2>3, <2>4
<1>29. CASE AwaitSource
  <2>1. /\ st' \in States /\ told' \in BOOLEAN
        /\ marker' \in Stacks \union {"none"} /\ pc' \in Steps
    <3>1. CASE RollbackDone \/ RollbackFailed
      BY <3>1, OutcomeType
    <3>2. CASE ~(RollbackDone \/ RollbackFailed)
      BY <1>29, <3>2 DEF AwaitSource, TypeOK, Steps, Rollback
    <3>3. QED
      BY <3>1, <3>2
  <2>2. QED
    BY <1>29, <2>1 DEF AwaitSource, TypeOK
<1>30. CASE WipeSource
  BY <1>30 DEF WipeSource, TypeOK, Steps, Rollback, Servers
<1>31. CASE RefillSource
  <2>1. store' \in [Servers -> SUBSET Addrs]
    BY <1>31 DEF RefillSource, TypeOK, States, Servers
  <2>2. /\ st' \in States /\ told' \in BOOLEAN
        /\ marker' \in Stacks \union {"none"} /\ pc' \in Steps
    BY <1>31, OutcomeType DEF RefillSource
  <2>3. QED
    BY <1>31, <2>1, <2>2 DEF RefillSource, TypeOK
<1>32. CASE RollbackStepFails
  <2>1. store' \in [Servers -> SUBSET Addrs]
    BY <1>32, PartlyWipedType DEF RollbackStepFails, TypeOK
  <2>2. /\ st' \in States /\ told' \in BOOLEAN
        /\ marker' \in Stacks \union {"none"} /\ pc' \in Steps
    BY <1>32, OutcomeType DEF RollbackStepFails
  <2>3. faults' \in 0..MaxFaults
    BY <1>32, FaultType DEF RollbackStepFails
  <2>4. QED
    BY <1>32, <2>1, <2>2, <2>3 DEF RollbackStepFails, TypeOK
<1>33. CASE Crash
  <2>1. crashes' \in 0..MaxCrashes
    BY <1>33, SwitchBounds DEF Crash, TypeOK
  <2>2. QED
    BY <1>33, <2>1 DEF Crash, TypeOK, Steps
<1>34. CASE SelectStackAtBoot
  <2>1. st' \in States
    BY <1>34 DEF SelectStackAtBoot, TypeOK, Fresh, States, Outcomes
  <2>2. faults' \in 0..MaxFaults
    BY <1>34, FaultType DEF SelectStackAtBoot
  <2>3. QED
    BY <1>34, <2>1, <2>2 DEF SelectStackAtBoot, TypeOK, Steps, Booting
<1>35. CASE ReadKeaAtBoot
  <2>1. st' \in States
    BY <1>35 DEF ReadKeaAtBoot, TypeOK, States, Servers
  <2>2. QED
    BY <1>35, <2>1 DEF ReadKeaAtBoot, TypeOK, Steps, Booting
<1>36. CASE CarryKeaLeases
  <2>1. PICK S : stopAll({"kea", "dnsmasq"}, S)
    BY <1>36 DEF CarryKeaLeases
  <2>2. up' \subseteq Daemons /\ unstopped' \subseteq Daemons /\ faults' \in 0..MaxFaults
    BY <1>0, <2>1, StopAllType
  <2>3. kea' \in Keas
    BY <1>36, StopKeaType DEF CarryKeaLeases
  <2>4. store' \in [Servers -> SUBSET Addrs]
    BY <1>36 DEF CarryKeaLeases, TypeOK, States, Servers
  <2>5. QED
    BY <1>36, <2>2, <2>3, <2>4 DEF CarryKeaLeases, TypeOK, Steps, Booting, Stacks
<1>37. CASE stopOutside
  <2>1. PICK S : stopAll(Service(Other(stack)), S)
    BY <1>37 DEF stopOutside
  <2>2. up' \subseteq Daemons /\ unstopped' \subseteq Daemons /\ faults' \in 0..MaxFaults
    BY <1>0, <2>1, StopAllType
  <2>3. kea' \in Keas
    BY <1>37, StopKeaType DEF stopOutside
  <2>4. QED
    BY <1>37, <2>2, <2>3 DEF stopOutside, TypeOK, Steps, Booting
<1>38. CASE applyAtBoot
  <2>1. kea' \in Keas
    <3>1. [file |-> TRUE, listens |-> TRUE, hup |-> FALSE] \in Keas
      OBVIOUS
    <3> HIDE DEF Keas
    <3>2. QED
      BY <1>0, <1>38, <3>1 DEF applyAtBoot
  <2>2. up' \subseteq Daemons /\ starting' \in BOOLEAN
    <3>1. CASE stack = "pdns-kea"
      <4>1. PICK which \in {{"auth", "recursor"}, {"auth", "recursor"} \ up} :
               startDaemons(which,
                   up \union {"kea"} \union (IF wantsRa THEN {"radvd"} ELSE {}))
        BY <1>38, <3>1 DEF applyAtBoot
      <4>2. QED
        BY <1>0, <4>1, StartDaemonsType DEF Daemons
    <3>2. CASE stack # "pdns-kea"
      BY <1>38, <3>2 DEF applyAtBoot, TypeOK, Daemons
    <3>3. QED
      BY <3>1, <3>2
  <2>3. QED
    BY <1>38, <2>1, <2>2 DEF applyAtBoot, TypeOK, Steps
<1>39. CASE applyAtBootFails
  <2>1. faults' \in 0..MaxFaults
    BY <1>39, FaultType DEF applyAtBootFails
  <2>2. QED
    BY <1>39, <2>1 DEF applyAtBootFails, TypeOK, Steps
<1>40. QED
  BY <1>1, <1>2, <1>3, <1>4, <1>5, <1>6, <1>7, <1>8, <1>9, <1>10, <1>11, <1>12, <1>13,
     <1>14, <1>15, <1>16, <1>17, <1>18, <1>19, <1>20, <1>21, <1>22, <1>23, <1>24, <1>25,
     <1>26, <1>27, <1>28, <1>29, <1>30, <1>31, <1>32, <1>33, <1>34, <1>35, <1>36, <1>37,
     <1>38, <1>39 DEF Next
-----------------------------------------------------------------------------
(* The inductive invariant *)

\* The steps of a switch before the target is selected, and those after.
Before == Forward \ {"await", "verify"}
After  == {"await", "verify", "commit", "record"}

\* What IdleMeansSettled asks of idle.
Settled == stack = setting /\ marker = "none" /\ ~quiesced

\* Which stack is in memory, which is in the setting and whether Kea is held
\* quiet, at each step.  Idle is settled because the setting still names the
\* source until the commit and memory goes back to it in a rollback; a switch
\* that began when the operator had been told is exempt to its end.
ConfigInv ==
    /\ quiesced => stack = "pdns-kea"
    /\ pc \in {"down"} \union Booting => ~quiesced
    /\ pc \in Booting => marker = "none"
    /\ pc \in {"boot", "bootApply"} => stack = setting
    /\ pc \in {"stageKea", "add"} => st.to = "pdns-kea"
    /\ pc \in {"quiesce", "quiet", "rbImport", "rbAdd"} => st.to = "dnsmasq"
    /\ pc \in Before => stack = Other(st.to) /\ ~st.selected
    /\ pc \in After => stack = st.to /\ ~quiesced /\ st.selected
    /\ pc \in {"rbRead", "rbStop"} =>
         stack = IF st.selected THEN st.to ELSE Other(st.to)
    /\ pc \in {"rbStart", "rbAwait"} /\ st.to = "pdns-kea" =>
         stack = "dnsmasq" /\ ~quiesced
    /\ pc \in {"rbAwait", "rbImport", "rbAdd"} /\ st.to = "dnsmasq" =>
         stack = "pdns-kea" /\ ~quiesced
    /\ pc \in Forward \union Rollback \union {"commit"} /\ ~told =>
         setting = Other(st.to)
    /\ pc = "record" => setting = st.to
    /\ pc \in {"done", "idle"} /\ ~told => Settled

\* The DHCP server of the stack not selected runs only if it would not stop.
Alone == Dhcp(Other(stack)) \in up => Dhcp(Other(stack)) \in unstopped

\* Kea serves, or will when it handles its SIGHUP.
KeaLive == "kea" \in up /\ (kea.listens \/ (kea.hup /\ kea.file))

\* Which DHCP servers run, at each step, and what Kea's file says.  The first
\* conjunct is OneDhcpServer with the SIGHUP on its way taken into account; the
\* others say that the server that ran has stopped, or is counted as unstopped,
\* before the other is started or told to listen.
DaemonInv ==
    /\ unstopped = {} /\ "dnsmasq" \in up => ~KeaLive
    /\ pc \in {"idle", "done", "hold", "stage", "stageKea", "bootApply"} => Alone
    /\ pc \in {"stop", "read", "import", "add", "start"} /\ st.to = "pdns-kea" =>
         "kea" \in up /\ ~kea.file /\ ~kea.listens /\ ~kea.hup
    /\ pc \in {"read", "import", "add", "start"} \union After /\ st.to = "pdns-kea" =>
         "dnsmasq" \notin up /\ "kea" \in up /\ st.stopped
    /\ pc \in After /\ st.to = "pdns-kea" => kea.file
    /\ pc \in {"start"} \union After /\ st.to = "dnsmasq" => "kea" \notin up
    /\ pc \in After /\ st.to = "dnsmasq" => "dnsmasq" \in up
    /\ pc \in {"rbRead", "rbStop"} /\ st.to = "dnsmasq" /\ st.selected => "kea" \notin up
    /\ pc \in {"rbStart", "rbAwait"} /\ st.to = "pdns-kea" =>
         /\ "kea" \in up => "kea" \in unstopped
         /\ st.problems => unstopped # {}
         /\ ~st.problems => "kea" \notin up
    /\ pc = "rbAwait" /\ st.to = "pdns-kea" => "dnsmasq" \in up
    /\ pc \in {"rbStart", "rbAwait", "rbImport", "rbAdd"} /\ st.to = "dnsmasq" =>
         "dnsmasq" \notin up
    /\ pc \in {"rbAwait", "rbImport", "rbAdd"} /\ st.to = "dnsmasq" =>
         "kea" \in up /\ kea.file
    /\ RolledBackServes

\* The DHCP server of the setting's stack runs, and is to serve.
Serves ==
    /\ Dhcp(setting) \in up
    /\ setting = "pdns-kea" => kea.file

\* What holds as long as nothing has failed.  A rollback can happen even then
\* (a daemon that stage left down is awaited in vain), but not before the source
\* was stopped, and a Kea whose file says so listens or has its SIGHUP.
FaultlessInv ==
    faults = 0 =>
      /\ unstopped = {} /\ ~told
      /\ "kea" \in up /\ kea.file => kea.listens \/ kea.hup
      /\ pc \in {"rbRead", "rbStop"} /\ st.to = "pdns-kea" => st.stopped
      /\ pc \in {"idle", "done"} => Serves

\* Kea is not one of those that would not stop: it hands out nothing before
\* the switch makes it serve.
Kept == "kea" \notin unstopped

\* Where the leases owed are in a switch to PowerDNS and Kea: with dnsmasq until
\* they are read, then in the snapshot, then in Kea or refused.
LeaseInv ==
    Kept /\ st.to = "pdns-kea" =>
      /\ pc \in {"hold", "stage", "stageKea", "stop", "read"} =>
           owed \subseteq store["dnsmasq"]
      /\ pc \in {"import", "add"} => owed \subseteq UNION st.leases
      /\ pc \in {"start"} \union After \/ (pc = "done" /\ st.outcome = "committed") =>
           owed \subseteq store["kea"] \union st.refused
      /\ pc = "done" /\ st.outcome = "committed" => "dnsmasq" \notin up

\* The invariant, in the order in which its parts rest on each other.
SwitchInv == TypeOK /\ ConfigInv /\ DaemonInv /\ FaultlessInv /\ LeaseInv

-----------------------------------------------------------------------------
(* Which stack *)

\* Every step keeps ConfigInv.
LEMMA ConfigNext == TypeOK /\ ConfigInv /\ [Next]_vars => ConfigInv'
<1> SUFFICES ASSUME TypeOK, ConfigInv, [Next]_vars
             PROVE  ConfigInv'
  OBVIOUS
<1> USE DEF durable, daemons, memory, history, counts, TypeOK, States, ConfigInv,
     Settled, Before, After, Forward, Rollback, Booting, Other, Stacks
<1>1. CASE UNCHANGED vars
  BY <1>1 DEF vars
<1>2. ASSUME NEW d \in Servers, NEW a \in Addrs, Grant(d, a)
      PROVE  ConfigInv'
  BY <1>2 DEF Grant
<1>3. ASSUME NEW target \in Stacks, switchStack(target)
      PROVE  ConfigInv'
  BY <1>3 DEF switchStack, Fresh
<1>4. CASE Reload
  BY <1>4 DEF Reload
<1>5. CASE restartAll
  BY <1>5 DEF restartAll
<1>6. CASE StartRecursor
  BY <1>6 DEF StartRecursor
<1>7. CASE Held
  BY <1>7 DEF Held
<1>8. CASE Stage
  BY <1>8 DEF Stage
<1>9. CASE StageKea
  BY <1>9 DEF StageKea
<1>10. CASE Quiesce
  BY <1>10 DEF Quiesce
<1>11. CASE AwaitQuiet
  BY <1>11 DEF AwaitQuiet
<1>12. CASE Read
  BY <1>12 DEF Read
<1>13. CASE Import
  BY <1>13 DEF Import
<1>14. CASE Add
  BY <1>14 DEF Add
<1>15. CASE StopSource
  BY <1>15 DEF StopSource
<1>16. CASE Start
  BY <1>16 DEF Start
<1>17. CASE StartFails
  BY <1>17 DEF StartFails
<1>18. CASE AwaitRunning
  BY <1>18 DEF AwaitRunning
<1>19. CASE Verify
  BY <1>19 DEF Verify
<1>20. CASE StepFails
  BY <1>20 DEF StepFails
<1>21. CASE CommitSetting
  BY <1>21 DEF CommitSetting
<1>22. CASE CommitFiles
  BY <1>22 DEF CommitFiles
<1>23. CASE CommitFails
  BY <1>23 DEF CommitFails
<1>24. CASE Finally
  BY <1>24 DEF Finally
<1>25. CASE TargetLeases
  BY <1>25 DEF TargetLeases
<1>26. CASE StopTarget
  BY <1>26 DEF StopTarget, RollbackDone, RollbackFailed
<1>27. CASE RestartSource
  BY <1>27 DEF RestartSource
<1>28. CASE RestartSourceFails
  BY <1>28 DEF RestartSourceFails, RollbackFailed
<1>29. CASE AwaitSource
  BY <1>29 DEF AwaitSource, RollbackDone, RollbackFailed
<1>30. CASE WipeSource
  BY <1>30 DEF WipeSource
<1>31. CASE RefillSource
  BY <1>31 DEF RefillSource, RollbackDone
<1>32. CASE RollbackStepFails
  BY <1>32 DEF RollbackStepFails, RollbackFailed
<1>33. CASE Crash
  BY <1>33 DEF Crash
<1>34. CASE SelectStackAtBoot
  BY <1>34 DEF SelectStackAtBoot, Fresh
<1>35. CASE ReadKeaAtBoot
  BY <1>35 DEF ReadKeaAtBoot
<1>36. CASE CarryKeaLeases
  BY <1>36 DEF CarryKeaLeases
<1>37. CASE stopOutside
  BY <1>37 DEF stopOutside
<1>38. CASE applyAtBoot
  BY <1>38 DEF applyAtBoot
<1>39. CASE applyAtBootFails
  BY <1>39 DEF applyAtBootFails
<1>40. QED
  BY <1>1, <1>2, <1>3, <1>4, <1>5, <1>6, <1>7, <1>8, <1>9, <1>10, <1>11, <1>12,
     <1>13, <1>14, <1>15, <1>16, <1>17, <1>18, <1>19, <1>20, <1>21, <1>22, <1>23,
     <1>24, <1>25, <1>26, <1>27, <1>28, <1>29, <1>30, <1>31, <1>32, <1>33, <1>34,
     <1>35, <1>36, <1>37, <1>38, <1>39 DEF Next

-----------------------------------------------------------------------------
(* Which daemons *)

\* What a render does to Kea: the file says whether it serves, and a running Kea
\* whose file changed has a SIGHUP on its way unless the reload failed.
LEMMA ApplyScopesKea ==
    ASSUME TypeOK, NEW s, NEW q \in BOOLEAN, NEW U, applyScopes(s, q, U)
    PROVE  /\ kea'.file <=> s = "pdns-kea" /\ ~q
           /\ kea'.listens <=> kea.listens
           /\ kea.hup => kea'.hup
           /\ faults' = 0 /\ "kea" \in U /\ (kea'.file <=> ~kea.file) => kea'.hup
<1> DEFINE b == s = "pdns-kea" /\ ~q
<1>1. b \in BOOLEAN /\ servesDhcp(s, q) = b
  BY DEF servesDhcp
<1>2. /\ \/ kea' = [kea EXCEPT !.file = b, !.hup = TRUE]
         \/ kea' = [kea EXCEPT !.file = b]
      /\ faults' = 0 /\ "kea" \in U /\ b # kea.file =>
           kea' = [kea EXCEPT !.file = b, !.hup = TRUE]
  BY <1>1 DEF applyScopes, Fault, TypeOK
<1> HIDE DEF b
<1>3. /\ kea'.file = b
      /\ kea'.listens = kea.listens
      /\ kea'.hup = kea.hup \/ kea'.hup = TRUE
      /\ faults' = 0 /\ "kea" \in U /\ b # kea.file => kea'.hup = TRUE
  BY <1>1, <1>2 DEF TypeOK
<1>4. kea.file \in BOOLEAN /\ kea.hup \in BOOLEAN /\ kea.listens \in BOOLEAN
  BY DEF TypeOK
<1>5. QED
  BY <1>1, <1>3, <1>4 DEF b

\* Start: the source has stopped before the target serves.
LEMMA StartDaemonInv ==
    ASSUME TypeOK, ConfigInv, DaemonInv, Start
    PROVE  DaemonInv'
<1> USE DEF durable, daemons, memory, history, counts
<1>1. pc = "start" /\ pc' = "await" /\ UNCHANGED unstopped /\ st'.to = st.to /\ st'.selected /\ (st'.stopped <=> st.stopped)
  BY DEF Start, TypeOK, States
<1>2. CASE st.to = "pdns-kea"
  <2>0. quiesced \in BOOLEAN /\ ~quiesced
    BY <1>1, <1>2 DEF ConfigInv, Before, Forward, TypeOK, Other
  <2>1. kea'.file
    BY <1>2, <2>0, ApplyScopesKea DEF Start
  <2>2. up \subseteq up' /\ "dnsmasq" \notin up'
    BY <1>1, <1>2 DEF Start, startDaemons, DaemonInv
  <2>3. QED
    BY <1>1, <1>2, <2>1, <2>2 DEF DaemonInv, After, RolledBackServes
<1>3. CASE st.to = "dnsmasq"
  <2>1. up' = up \union {"dnsmasq"}
    BY <1>3 DEF Start
  <2>2. QED
    BY <1>1, <1>3, <2>1 DEF DaemonInv, After, RolledBackServes, KeaLive
<1>4. QED
  BY <1>2, <1>3 DEF TypeOK, States, Stacks

\* StopTarget: what the rollback knows of a target that would not stop.
LEMMA StopTargetDaemonInv ==
    ASSUME TypeOK, ConfigInv, DaemonInv, StopTarget
    PROVE  DaemonInv'
<1>1. PICK S \in SUBSET up :
         /\ stopAll(Service(st.to), S)
         /\ IF st.to = "pdns-kea"
            THEN /\ stack' = "dnsmasq"
                 /\ quiesced' = FALSE
                 /\ \/ /\ st.stopped
                       /\ pc' = "rbStart"
                       /\ st' = [st EXCEPT !.problems = (S # {})]
                       /\ UNCHANGED <<marker, told>>
                    \/ ~st.stopped /\ S = {} /\ RollbackDone
                    \/ ~st.stopped /\ S # {} /\ RollbackFailed
            ELSE /\ UNCHANGED memory
                 /\ \/ S = {} /\ pc' = "rbStart" /\ UNCHANGED <<st, marker, told>>
                    \/ S # {} /\ RollbackFailed
    BY DEF StopTarget
<1>2. /\ pc = "rbStop"
      /\ S \subseteq Service(st.to)
      /\ up' = up \ (Service(st.to) \ S)
      /\ S \subseteq unstopped'
  BY <1>1 DEF StopTarget, stopAll
<1>3. CASE st.to = "pdns-kea"
  <2>1. Dhcp(Other(stack')) = "kea" /\ Service(st.to) = Daemons \ {"dnsmasq"}
    BY <1>1, <1>3 DEF Dhcp, Other, Service
  <2>2. "kea" \in up' => "kea" \in S
    BY <1>2, <1>3, <2>1 DEF Daemons
  <2>3. CASE pc' = "rbStart"
    <3>1. st'.to = st.to /\ st'.problems = (S # {})
      BY <1>1, <1>3, <2>3 DEF RollbackDone, RollbackFailed, TypeOK, States
    <3>2. QED
      BY <1>2, <1>3, <2>2, <2>3, <3>1 DEF DaemonInv, After, RolledBackServes, KeaLive
  <2>4. CASE pc' = "done"
    <3>1. st'.to = st.to /\ st'.stopped = st.stopped /\ ~st.stopped
      BY <1>1, <1>3, <2>4 DEF RollbackDone, RollbackFailed, TypeOK, States
    <3>2. st'.outcome = "rolledBack" => S = {}
      BY <1>1, <1>3, <2>4 DEF RollbackDone, RollbackFailed, TypeOK, States
    <3>3. QED
      BY <1>1, <1>2, <1>3, <2>1, <2>2, <2>4, <3>1, <3>2 DEF DaemonInv, After, RolledBackServes, KeaLive, Alone, Dhcp, Other
  <2>5. QED
    BY <1>1, <1>3, <2>3, <2>4 DEF RollbackDone, RollbackFailed
<1>4. CASE st.to = "dnsmasq"
  <2>1. Service(st.to) = {"dnsmasq"} /\ UNCHANGED stack
    BY <1>1, <1>4 DEF Service, memory
  <2>2. CASE S = {} /\ pc' = "rbStart" /\ UNCHANGED st
    BY <1>2, <1>4, <2>1, <2>2 DEF DaemonInv, After, RolledBackServes, KeaLive
  <2>3. CASE S # {} /\ RollbackFailed
    <3>1. pc' = "done" /\ st'.to = st.to /\ st'.outcome = "rollbackFailed" /\ S = {"dnsmasq"}
      BY <1>2, <1>4, <2>1, <2>3 DEF RollbackFailed, TypeOK, States
    <3>2. Alone'
      BY <1>2, <1>4, <2>1, <3>1 DEF Alone, ConfigInv, DaemonInv, Dhcp, Other, TypeOK, Stacks
    <3>3. QED
      BY <1>2, <2>1, <3>1, <3>2 DEF DaemonInv, After, RolledBackServes, KeaLive
  <2>4. QED
    BY <1>1, <1>4, <2>2, <2>3
<1>5. QED
  BY <1>3, <1>4 DEF TypeOK, States, Stacks

\* RestartSource: the target has stopped before the source serves again.
LEMMA RestartSourceDaemonInv ==
    ASSUME TypeOK, ConfigInv, DaemonInv, RestartSource
    PROVE  DaemonInv'
<1>1. pc = "rbStart" /\ pc' = "rbAwait" /\ UNCHANGED <<st, unstopped>>
  BY DEF RestartSource
<1>2. CASE st.to = "pdns-kea"
  <2>1. up' = up \union {"dnsmasq"}
    BY <1>2 DEF RestartSource
  <2>2. QED
    BY <1>1, <1>2, <2>1 DEF DaemonInv, After, RolledBackServes, KeaLive
<1>3. CASE st.to = "dnsmasq"
  <2>1. up \union {"kea"} \subseteq up' /\ "dnsmasq" \notin up'
    BY <1>1, <1>3 DEF RestartSource, startDaemons, DaemonInv
  <2>2. kea'.file
    <3>1. CASE "kea" \in up
      BY <1>3, <3>1, ApplyScopesKea DEF RestartSource
    <3>2. CASE "kea" \notin up
      BY <1>3, <3>2 DEF RestartSource
    <3>3. QED
      BY <3>1, <3>2
  <2>3. QED
    BY <1>1, <1>3, <2>1, <2>2 DEF DaemonInv, After, RolledBackServes, KeaLive
<1>4. QED
  BY <1>2, <1>3 DEF TypeOK, States, Stacks
\* Every step keeps DaemonInv.
LEMMA DaemonNext == TypeOK /\ ConfigInv /\ DaemonInv /\ [Next]_vars => DaemonInv'
<1> SUFFICES ASSUME TypeOK, ConfigInv, DaemonInv, [Next]_vars
             PROVE  DaemonInv'
  OBVIOUS
<1> USE DEF durable, daemons, memory, history, counts, TypeOK, States, ConfigInv,
     DaemonInv, KeaLive, Alone, RolledBackServes, Dhcp, Before, After, Forward,
     Rollback, Booting, Other, Stacks
<1>1. CASE UNCHANGED vars
  BY <1>1 DEF vars
<1>2. ASSUME NEW d \in Servers, NEW a \in Addrs, Grant(d, a)
      PROVE  DaemonInv'
  BY <1>2 DEF Grant
<1>3. ASSUME NEW target \in Stacks, switchStack(target)
      PROVE  DaemonInv'
  BY <1>3 DEF switchStack, Fresh
<1>4. CASE Reload
  BY <1>4 DEF Reload
<1>5. CASE restartAll
  BY <1>5 DEF restartAll, startDaemons
<1>6. CASE StartRecursor
  BY <1>6 DEF StartRecursor
<1>7. CASE Held
  BY <1>7 DEF Held
<1>8. CASE Stage
  BY <1>8 DEF Stage
<1>9. CASE StageKea
  BY <1>9 DEF StageKea, servesDhcp
<1>10. CASE Quiesce
  BY <1>10 DEF Quiesce, applyScopes, servesDhcp, Fault, NoFault
<1>11. CASE AwaitQuiet
  BY <1>11 DEF AwaitQuiet
<1>12. CASE Read
  BY <1>12 DEF Read
<1>13. CASE Import
  BY <1>13 DEF Import
<1>14. CASE Add
  BY <1>14 DEF Add
<1>15. CASE StopSource
  BY <1>15 DEF StopSource, stopAll, Fault, NoFault, Service, Daemons
<1>16. CASE Start
  BY <1>16, StartDaemonInv
<1>17. CASE StartFails
  BY <1>17 DEF StartFails, Fault
<1>18. CASE AwaitRunning
  BY <1>18 DEF AwaitRunning
<1>19. CASE Verify
  BY <1>19 DEF Verify
<1>20. CASE StepFails
  BY <1>20 DEF StepFails, Fault
<1>21. CASE CommitSetting
  BY <1>21 DEF CommitSetting
<1>22. CASE CommitFiles
  BY <1>22 DEF CommitFiles
<1>23. CASE CommitFails
  BY <1>23 DEF CommitFails, Fault
<1>24. CASE Finally
  BY <1>24 DEF Finally
<1>25. CASE TargetLeases
  BY <1>25 DEF TargetLeases, Fault, NoFault
<1>26. CASE StopTarget
  BY <1>26, StopTargetDaemonInv
<1>27. CASE RestartSource
  BY <1>27, RestartSourceDaemonInv
<1>28. CASE RestartSourceFails
  BY <1>28 DEF RestartSourceFails, startDaemons, Fault, RollbackFailed
<1>29. CASE AwaitSource
  BY <1>29 DEF AwaitSource, RollbackDone, RollbackFailed
<1>30. CASE WipeSource
  BY <1>30 DEF WipeSource
<1>31. CASE RefillSource
  BY <1>31 DEF RefillSource, RollbackDone
<1>32. CASE RollbackStepFails
  BY <1>32 DEF RollbackStepFails, Fault, RollbackFailed
<1>33. CASE Crash
  BY <1>33 DEF Crash
<1>34. CASE SelectStackAtBoot
  BY <1>34 DEF SelectStackAtBoot, Fault, NoFault, Fresh
<1>35. CASE ReadKeaAtBoot
  BY <1>35 DEF ReadKeaAtBoot
<1>36. CASE CarryKeaLeases
  BY <1>36 DEF CarryKeaLeases, stopAll, Fault, NoFault
<1>37. CASE stopOutside
  BY <1>37 DEF stopOutside, stopAll, Fault, NoFault, Service, Daemons
<1>38. CASE applyAtBoot
  BY <1>38 DEF applyAtBoot, startDaemons
<1>39. CASE applyAtBootFails
  BY <1>39 DEF applyAtBootFails, Fault
<1>40. QED
  BY <1>1, <1>2, <1>3, <1>4, <1>5, <1>6, <1>7, <1>8, <1>9, <1>10, <1>11, <1>12,
     <1>13, <1>14, <1>15, <1>16, <1>17, <1>18, <1>19, <1>20, <1>21, <1>22, <1>23,
     <1>24, <1>25, <1>26, <1>27, <1>28, <1>29, <1>30, <1>31, <1>32, <1>33, <1>34,
     <1>35, <1>36, <1>37, <1>38, <1>39 DEF Next

-----------------------------------------------------------------------------
(* No fault *)

\* No fault after a step means none before it.
LEMMA FaultsOnlyGrow ==
    ASSUME TypeOK, Fault \/ NoFault, faults' = 0
    PROVE  faults = 0
BY DEF TypeOK, Fault, NoFault

\* With no fault a running Kea told to serve listens, or will.
LEMMA ApplyScopesLive ==
    ASSUME TypeOK, FaultlessInv, NEW s, NEW q \in BOOLEAN, applyScopes(s, q, up),
           faults' = 0, "kea" \in up, kea'.file
    PROVE  kea'.listens \/ kea'.hup
<1>1. faults = 0
  BY FaultsOnlyGrow DEF applyScopes
<1>2. kea.file => kea.listens \/ kea.hup
  BY <1>1 DEF FaultlessInv
<1>3. kea.file \in BOOLEAN
  BY DEF TypeOK
<1>4. QED
  BY <1>2, <1>3, ApplyScopesKea

\* Quiesce keeps the faultless invariant.
LEMMA QuiesceFaultlessInv ==
    ASSUME TypeOK, DaemonInv, FaultlessInv, Quiesce
    PROVE  FaultlessInv'
<1> SUFFICES ASSUME faults' = 0 PROVE FaultlessInv'
  BY DEF FaultlessInv
<1>1. faults = 0
  BY FaultsOnlyGrow DEF Quiesce, applyScopes
<1>2. "kea" \in up' /\ kea'.file => kea'.listens \/ kea'.hup
  BY ApplyScopesLive DEF Quiesce
<1>3. QED
  BY <1>1, <1>2 DEF FaultlessInv, Quiesce, history

\* Start keeps the faultless invariant.
LEMMA StartFaultlessInv ==
    ASSUME TypeOK, DaemonInv, FaultlessInv, Start
    PROVE  FaultlessInv'
<1> SUFFICES ASSUME faults' = 0 PROVE FaultlessInv'
  BY DEF FaultlessInv
<1>1. faults = 0
  BY FaultsOnlyGrow DEF Start, applyScopes
<1>2. "kea" \in up' /\ kea'.file => kea'.listens \/ kea'.hup
  <2>1. CASE st.to = "pdns-kea"
    <3>1. "kea" \in up /\ quiesced \in BOOLEAN
      BY <2>1 DEF Start, DaemonInv, TypeOK
    <3>2. QED
      BY <2>1, <3>1, ApplyScopesLive DEF Start
  <2>2. CASE st.to # "pdns-kea"
    BY <1>1, <2>2 DEF Start, FaultlessInv
  <2>3. QED
    BY <2>1, <2>2
<1>3. QED
  BY <1>1, <1>2 DEF FaultlessInv, Start, history

\* RestartSource keeps the faultless invariant.
LEMMA RestartSourceFaultlessInv ==
    ASSUME TypeOK, DaemonInv, FaultlessInv, RestartSource
    PROVE  FaultlessInv'
<1> SUFFICES ASSUME faults' = 0 PROVE FaultlessInv'
  BY DEF FaultlessInv
<1>1. faults = 0
  BY FaultsOnlyGrow DEF RestartSource, applyScopes
<1>2. "kea" \in up' /\ kea'.file => kea'.listens \/ kea'.hup
  <2>1. CASE st.to = "pdns-kea"
    BY <1>1, <2>1 DEF RestartSource, FaultlessInv
  <2>2. CASE st.to # "pdns-kea" /\ "kea" \in up
    BY <2>2, ApplyScopesLive DEF RestartSource
  <2>3. CASE st.to # "pdns-kea" /\ "kea" \notin up
    <3>1. kea' = [file |-> TRUE, listens |-> kea.file, hup |-> ~kea.file]
      BY <1>1, <2>3 DEF RestartSource, Fault
    <3>2. kea'.listens = kea.file /\ kea'.hup = ~kea.file
      BY <3>1
    <3>3. QED
      BY <3>2
  <2>4. QED
    BY <2>1, <2>2, <2>3
<1>3. QED
  BY <1>1, <1>2 DEF FaultlessInv, RestartSource, history

\* Every step keeps FaultlessInv.
LEMMA FaultlessNext == TypeOK /\ ConfigInv /\ DaemonInv /\ FaultlessInv /\ [Next]_vars => FaultlessInv'
<1> SUFFICES ASSUME TypeOK, ConfigInv, DaemonInv, FaultlessInv, [Next]_vars
             PROVE  FaultlessInv'
  OBVIOUS
<1> USE DEF durable, daemons, memory, history, counts, TypeOK, States, ConfigInv,
     DaemonInv, FaultlessInv, Serves, KeaLive, Alone, Dhcp, Before, After, Forward,
     Rollback, Booting, Other, Stacks
<1>1. CASE UNCHANGED vars
  BY <1>1 DEF vars
<1>2. ASSUME NEW d \in Servers, NEW a \in Addrs, Grant(d, a)
      PROVE  FaultlessInv'
  BY <1>2 DEF Grant
<1>3. ASSUME NEW target \in Stacks, switchStack(target)
      PROVE  FaultlessInv'
  BY <1>3 DEF switchStack, Fresh
<1>4. CASE Reload
  BY <1>4 DEF Reload
<1>5. CASE restartAll
  BY <1>5 DEF restartAll, startDaemons
<1>6. CASE StartRecursor
  BY <1>6 DEF StartRecursor
<1>7. CASE Held
  BY <1>7 DEF Held
<1>8. CASE Stage
  BY <1>8 DEF Stage
<1>9. CASE StageKea
  BY <1>9 DEF StageKea, servesDhcp
<1>10. CASE Quiesce
  BY <1>10, QuiesceFaultlessInv
<1>11. CASE AwaitQuiet
  BY <1>11 DEF AwaitQuiet
<1>12. CASE Read
  BY <1>12 DEF Read
<1>13. CASE Import
  BY <1>13 DEF Import
<1>14. CASE Add
  BY <1>14 DEF Add
<1>15. CASE StopSource
  BY <1>15 DEF StopSource, stopAll, Fault, NoFault, Service, Daemons
<1>16. CASE Start
  BY <1>16, StartFaultlessInv
<1>17. CASE StartFails
  BY <1>17 DEF StartFails, Fault
<1>18. CASE AwaitRunning
  BY <1>18 DEF AwaitRunning
<1>19. CASE Verify
  BY <1>19 DEF Verify
<1>20. CASE StepFails
  BY <1>20 DEF StepFails, Fault
<1>21. CASE CommitSetting
  BY <1>21 DEF CommitSetting
<1>22. CASE CommitFiles
  BY <1>22 DEF CommitFiles
<1>23. CASE CommitFails
  BY <1>23 DEF CommitFails, Fault
<1>24. CASE Finally
  BY <1>24 DEF Finally
<1>25. CASE TargetLeases
  BY <1>25 DEF TargetLeases, Fault, NoFault
<1>26. CASE StopTarget
  BY <1>26 DEF StopTarget, stopAll, Fault, NoFault, RollbackDone, RollbackFailed,
     Service, Daemons
<1>27. CASE RestartSource
  BY <1>27, RestartSourceFaultlessInv
<1>28. CASE RestartSourceFails
  BY <1>28 DEF RestartSourceFails, startDaemons, Fault, RollbackFailed
<1>29. CASE AwaitSource
  BY <1>29 DEF AwaitSource, RollbackDone, RollbackFailed
<1>30. CASE WipeSource
  BY <1>30 DEF WipeSource
<1>31. CASE RefillSource
  BY <1>31 DEF RefillSource, RollbackDone
<1>32. CASE RollbackStepFails
  BY <1>32 DEF RollbackStepFails, Fault, RollbackFailed
<1>33. CASE Crash
  BY <1>33 DEF Crash
<1>34. CASE SelectStackAtBoot
  BY <1>34 DEF SelectStackAtBoot, Fault, NoFault, Fresh
<1>35. CASE ReadKeaAtBoot
  BY <1>35 DEF ReadKeaAtBoot
<1>36. CASE CarryKeaLeases
  BY <1>36 DEF CarryKeaLeases, stopAll, Fault, NoFault
<1>37. CASE stopOutside
  BY <1>37 DEF stopOutside, stopAll, Fault, NoFault, Service, Daemons
<1>38. CASE applyAtBoot
  BY <1>38 DEF applyAtBoot, startDaemons
<1>39. CASE applyAtBootFails
  BY <1>39 DEF applyAtBootFails, Fault
<1>40. QED
  BY <1>1, <1>2, <1>3, <1>4, <1>5, <1>6, <1>7, <1>8, <1>9, <1>10, <1>11, <1>12,
     <1>13, <1>14, <1>15, <1>16, <1>17, <1>18, <1>19, <1>20, <1>21, <1>22, <1>23,
     <1>24, <1>25, <1>26, <1>27, <1>28, <1>29, <1>30, <1>31, <1>32, <1>33, <1>34,
     <1>35, <1>36, <1>37, <1>38, <1>39 DEF Next

-----------------------------------------------------------------------------
(* The leases *)

\* A lease handed out is in the store that is, or is to be, carried over.
LEMMA GrantLeaseInv ==
    ASSUME TypeOK, ConfigInv, DaemonInv, LeaseInv,
           NEW d \in Servers, NEW a \in Addrs, Grant(d, a)
    PROVE  LeaseInv'
<1> SUFFICES ASSUME Kept, st.to = "pdns-kea" PROVE LeaseInv'
  BY DEF LeaseInv, Grant, daemons, Kept
<1>1. /\ d \in up /\ (d = "kea" => kea.listens)
      /\ owed' = owed \union {a} /\ a \in store'[d]
      /\ \A e \in Servers : store[e] \subseteq store'[e]
      /\ UNCHANGED <<pc, st, up, unstopped>>
  BY DEF Grant, Serving, daemons, TypeOK
<1>2. CASE d = "kea"
  <2>1. pc \notin {"hold", "stage", "stageKea", "stop", "read", "import", "add"}
    BY <1>1, <1>2 DEF ConfigInv, DaemonInv, Alone, Kept, Before, Forward, Other, Dhcp
  <2>2. QED
    BY <1>1, <1>2, <2>1 DEF LeaseInv, Servers, Kept
<1>3. CASE d = "dnsmasq"
  <2>1. pc \in {"hold", "stage", "stageKea", "stop", "read"} \/
      ~(pc \in {"import", "add", "start"} \union After \/ (pc = "done" /\ st.outcome = "committed"))
    BY <1>1, <1>3 DEF DaemonInv, LeaseInv
  <2>2. QED
    BY <1>1, <1>3, <2>1 DEF LeaseInv, Servers, Kept, After
<1>4. QED
  BY <1>2, <1>3 DEF Servers

\* A lease is added to Kea or reported as refused.
LEMMA AddLeaseInv ==
    ASSUME TypeOK, ConfigInv, DaemonInv, LeaseInv, Add
    PROVE  LeaseInv'
<1> SUFFICES ASSUME Kept, st.to = "pdns-kea" PROVE LeaseInv'
  BY DEF LeaseInv, Add, daemons, Kept, ConfigInv
<1>1. PICK refused \in SUBSET UNION st.leases :
         /\ store' = [store EXCEPT !["kea"] = @ \union ((UNION st.leases) \ refused)]
         /\ st' = [st EXCEPT !.refused = refused]
  BY DEF Add
<1>2. pc = "add" /\ pc' = "start" /\ owed' = owed
  BY DEF Add, history
<1>3. st'.refused = refused
  BY <1>1 DEF TypeOK, States
<1>4. UNION st.leases \subseteq store'["kea"] \union refused
  <2>1. store'["kea"] = store["kea"] \union ((UNION st.leases) \ refused)
    BY <1>1 DEF TypeOK, Servers
  <2>2. QED
    BY <2>1
<1>5. QED
  BY <1>2, <1>3, <1>4 DEF LeaseInv, After
\* Every step keeps LeaseInv.
LEMMA LeaseNext == TypeOK /\ ConfigInv /\ DaemonInv /\ LeaseInv /\ [Next]_vars => LeaseInv'
<1> SUFFICES ASSUME TypeOK, ConfigInv, DaemonInv, LeaseInv, [Next]_vars
             PROVE  LeaseInv'
  OBVIOUS
<1> USE DEF durable, daemons, memory, history, counts, TypeOK, States, ConfigInv,
     DaemonInv, LeaseInv, Kept, Alone, Dhcp, Servers, Before, After, Forward,
     Rollback, Booting, Other, Stacks
<1>1. CASE UNCHANGED vars
  BY <1>1 DEF vars
<1>2. ASSUME NEW d \in Servers, NEW a \in Addrs, Grant(d, a)
      PROVE  LeaseInv'
  BY <1>2, GrantLeaseInv
<1>3. ASSUME NEW target \in Stacks, switchStack(target)
      PROVE  LeaseInv'
  BY <1>3 DEF switchStack, Fresh
<1>4. CASE Reload
  BY <1>4 DEF Reload
<1>5. CASE restartAll
  BY <1>5 DEF restartAll, startDaemons
<1>6. CASE StartRecursor
  BY <1>6 DEF StartRecursor
<1>7. CASE Held
  BY <1>7 DEF Held
<1>8. CASE Stage
  BY <1>8 DEF Stage
<1>9. CASE StageKea
  BY <1>9 DEF StageKea, servesDhcp
<1>10. CASE Quiesce
  BY <1>10 DEF Quiesce, applyScopes, servesDhcp, Fault, NoFault
<1>11. CASE AwaitQuiet
  BY <1>11 DEF AwaitQuiet
<1>12. CASE Read
  BY <1>12 DEF Read
<1>13. CASE Import
  BY <1>13 DEF Import
<1>14. CASE Add
  BY <1>14, AddLeaseInv
<1>15. CASE StopSource
  BY <1>15 DEF StopSource, stopAll, Fault, NoFault, Service, Daemons
<1>16. CASE Start
  BY <1>16 DEF Start, startDaemons, applyScopes, servesDhcp, Fault, NoFault
<1>17. CASE StartFails
  BY <1>17 DEF StartFails, Fault
<1>18. CASE AwaitRunning
  BY <1>18 DEF AwaitRunning
<1>19. CASE Verify
  BY <1>19 DEF Verify
<1>20. CASE StepFails
  BY <1>20 DEF StepFails, Fault
<1>21. CASE CommitSetting
  BY <1>21 DEF CommitSetting
<1>22. CASE CommitFiles
  BY <1>22 DEF CommitFiles
<1>23. CASE CommitFails
  BY <1>23 DEF CommitFails, Fault
<1>24. CASE Finally
  BY <1>24 DEF Finally
<1>25. CASE TargetLeases
  BY <1>25 DEF TargetLeases, Fault, NoFault
<1>26. CASE StopTarget
  BY <1>26 DEF StopTarget, stopAll, Fault, NoFault, RollbackDone, RollbackFailed,
     Service, Daemons
<1>27. CASE RestartSource
  BY <1>27 DEF RestartSource, startDaemons, applyScopes, servesDhcp, Fault, NoFault
<1>28. CASE RestartSourceFails
  BY <1>28 DEF RestartSourceFails, startDaemons, Fault, RollbackFailed
<1>29. CASE AwaitSource
  BY <1>29 DEF AwaitSource, RollbackDone, RollbackFailed
<1>30. CASE WipeSource
  BY <1>30 DEF WipeSource
<1>31. CASE RefillSource
  BY <1>31 DEF RefillSource, RollbackDone
<1>32. CASE RollbackStepFails
  BY <1>32 DEF RollbackStepFails, Fault, RollbackFailed
<1>33. CASE Crash
  BY <1>33 DEF Crash
<1>34. CASE SelectStackAtBoot
  BY <1>34 DEF SelectStackAtBoot, Fault, NoFault, Fresh
<1>35. CASE ReadKeaAtBoot
  BY <1>35 DEF ReadKeaAtBoot
<1>36. CASE CarryKeaLeases
  BY <1>36 DEF CarryKeaLeases, stopAll, Fault, NoFault
<1>37. CASE stopOutside
  BY <1>37 DEF stopOutside, stopAll, Fault, NoFault, Service, Daemons
<1>38. CASE applyAtBoot
  BY <1>38 DEF applyAtBoot, startDaemons
<1>39. CASE applyAtBootFails
  BY <1>39 DEF applyAtBootFails, Fault
<1>40. QED
  BY <1>1, <1>2, <1>3, <1>4, <1>5, <1>6, <1>7, <1>8, <1>9, <1>10, <1>11, <1>12,
     <1>13, <1>14, <1>15, <1>16, <1>17, <1>18, <1>19, <1>20, <1>21, <1>22, <1>23,
     <1>24, <1>25, <1>26, <1>27, <1>28, <1>29, <1>30, <1>31, <1>32, <1>33, <1>34,
     <1>35, <1>36, <1>37, <1>38, <1>39 DEF Next

-----------------------------------------------------------------------------
(* The theorems *)

\* The initial states satisfy the invariant.
LEMMA SwitchInit == Init => SwitchInv
<1> SUFFICES ASSUME Init PROVE SwitchInv
  OBVIOUS
<1> USE DEF Init, Fresh, Stacks, Service, Daemons
<1>1. TypeOK
  <2>1. st \in States
    BY DEF States, Outcomes
  <2>2. kea \in Keas
    BY DEF Keas
  <2>3. faults \in 0..MaxFaults /\ crashes \in 0..MaxCrashes /\ switches \in 0..MaxSwitches
    BY SwitchBounds
  <2>4. QED
    BY <2>1, <2>2, <2>3 DEF TypeOK, Keas, Steps
<1>2. ConfigInv
  BY DEF ConfigInv, Booting, Before, After, Forward, Rollback, Settled
<1>3. DaemonInv
  BY DEF DaemonInv, Alone, KeaLive, After, RolledBackServes, Dhcp, Other
<1>4. FaultlessInv
  BY DEF FaultlessInv, Serves, Dhcp
<1>5. LeaseInv
  BY DEF LeaseInv, After
<1>6. QED
  BY <1>1, <1>2, <1>3, <1>4, <1>5 DEF SwitchInv

\* Every step keeps the invariant.
LEMMA SwitchNext == SwitchInv /\ [Next]_vars => SwitchInv'
BY TypeNext, ConfigNext, DaemonNext, FaultlessNext, LeaseNext DEF SwitchInv

\* What the model says of each step of a switch, a rollback and a boot holds of
\* every one of them: where the stack, the daemons, Kea's file and the leases are.
THEOREM SwitchInvariant == Spec => []SwitchInv
BY SwitchInit, SwitchNext, PTL DEF Spec

\* Every variable has its type.
THEOREM SwitchTypeCorrect == Spec => []TypeOK
<1>1. SwitchInv => TypeOK
  BY DEF SwitchInv
<1>2. QED
  BY <1>1, SwitchInvariant, PTL

\* dnsmasq and Kea never serve DHCP together, whatever fails and wherever the
\* process crashes, unless a daemon was told to stop and did not.
THEOREM OneServerAtATime == Spec => []OneDhcpServer
<1>1. SwitchInv => OneDhcpServer
  BY DEF SwitchInv, DaemonInv, KeaLive, OneDhcpServer, Serving
<1>2. QED
  BY <1>1, SwitchInvariant, PTL

\* Between switches the stack in memory is the setting's, no marker is left and
\* Kea is not held quiet, unless the operator was told otherwise.
THEOREM IdleIsSettled == Spec => []IdleMeansSettled
<1>1. SwitchInv => IdleMeansSettled
  BY DEF SwitchInv, ConfigInv, Settled, IdleMeansSettled
<1>2. QED
  BY <1>1, SwitchInvariant, PTL

\* A rollback reported as done left the target's DHCP server stopped and the
\* source's running if the switch had stopped it.
THEOREM RollbackServes == Spec => []RolledBackServes
<1>1. SwitchInv => RolledBackServes
  BY DEF SwitchInv, DaemonInv
<1>2. QED
  BY <1>1, SwitchInvariant, PTL

\* A switch to PowerDNS and Kea that commits has every lease dnsmasq had, and
\* every one handed out during the switch, in Kea or reported as refused.
THEOREM CommitLosesNoLease == Spec => []CommitKeepsLeases
<1>1. SwitchInv => CommitKeepsLeases
  BY DEF SwitchInv, LeaseInv, Kept, CommitKeepsLeases
<1>2. QED
  BY <1>1, SwitchInvariant, PTL

\* As long as nothing has failed, idle means that the DHCP server of the
\* setting's stack runs and serves, or will, and the other does not run.
THEOREM FaultlessIdleServes == Spec => []SettledServes
<1>1. SwitchInv => SettledServes
  <2> SUFFICES ASSUME SwitchInv, pc = "idle", faults = 0
               PROVE  /\ Dhcp(setting) \in up
                      /\ Dhcp(Other(setting)) \notin up
                      /\ setting = "pdns-kea" => kea.listens \/ kea.hup
    BY DEF SettledServes
  <2>1. unstopped = {} /\ ~told /\ Serves
    BY DEF SwitchInv, FaultlessInv
  <2>2. stack = setting
    BY <2>1 DEF SwitchInv, ConfigInv, Settled
  <2>3. Dhcp(Other(setting)) \notin up
    BY <2>1, <2>2 DEF SwitchInv, DaemonInv, Alone
  <2>4. setting = "pdns-kea" => kea.listens \/ kea.hup
    BY <2>1 DEF SwitchInv, FaultlessInv, Serves, Dhcp
  <2>5. QED
    BY <2>1, <2>3, <2>4 DEF Serves
<1>2. QED
  BY <1>1, SwitchInvariant, PTL

\* The setting moves to the stack whose DHCP server already runs alone, or, at
\* a boot where PowerDNS and Kea cannot run, to dnsmasq.
SettingFollowsServer ==
    [][setting' # setting =>
         \/ /\ pc = "commit"
            /\ stack = setting'
            /\ Dhcp(setting') \in up
            /\ Dhcp(Other(setting')) \notin up
         \/ pc = "bootStop" /\ setting' = "dnsmasq"]_vars

\* commit writes the setting only after the target serves and the source has
\* stopped: a crash right after it boots into a stack that can serve.
THEOREM SettingMovesLast == Spec => SettingFollowsServer
<1> DEFINE Moves == setting' # setting =>
         \/ /\ pc = "commit"
            /\ stack = setting'
            /\ Dhcp(setting') \in up
            /\ Dhcp(Other(setting')) \notin up
         \/ pc = "bootStop" /\ setting' = "dnsmasq"
<1>1. SwitchInv /\ [Next]_vars => Moves
  <2> SUFFICES ASSUME SwitchInv, [Next]_vars, setting' # setting
               PROVE  Moves
    OBVIOUS
  <2>1. CommitSetting \/ CarryKeaLeases
    BY DEF Next, vars, durable, Grant, Reload, restartAll, StartRecursor, switchStack, Held,
       Stage, StageKea, Quiesce, AwaitQuiet, Read, Import, Add, StopSource, Start,
       StartFails, AwaitRunning, Verify, StepFails, CommitFiles, CommitFails, Finally,
       TargetLeases, StopTarget, RestartSource, RestartSourceFails, AwaitSource,
       WipeSource, RefillSource, RollbackStepFails, Crash, SelectStackAtBoot,
       ReadKeaAtBoot, stopOutside, applyAtBoot, applyAtBootFails
  <2>2. CASE CommitSetting
    BY <2>2 DEF CommitSetting, SwitchInv, TypeOK, States, Stacks, ConfigInv, DaemonInv,
       After, Dhcp, Other
  <2>3. CASE CarryKeaLeases
    BY <2>3 DEF CarryKeaLeases
  <2>4. QED
    BY <2>1, <2>2, <2>3
<1>2. QED
  BY <1>1, SwitchInvariant, PTL DEF Spec, SettingFollowsServer

=============================================================================
