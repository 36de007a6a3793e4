--------------------------- MODULE NodeDaemonProofs ---------------------------
(***************************************************************************)
(* The safety properties of NodeDaemon, for every set of cards, every set  *)
(* of configurations and specs and every number of faults.                 *)
(***************************************************************************)
EXTENDS NodeDaemon, TLAPS

USE DEF passVars, leaseVars

-----------------------------------------------------------------------------
(* Types *)

LEMMA EmptySpecType == EmptySpec \in NodeSpec /\ NoPFs \in [Card -> Config \cup {NoConfig}]
BY DEF EmptySpec, NoPFs, NodeSpec

LEMMA NoNodeConfigType ==
  /\ NoNodeConfig \in NodeConfig
  /\ NoNodeConfig.observed <= NoNodeConfig.generation
BY EmptySpecType DEF NoNodeConfig, NodeConfig, Reason

LEMMA BlankType == Blank \in Hardware
BY DEF Blank, Hardware

LEMMA NoWorkerType == NoWorker \in Worker
BY EmptySpecType DEF NoWorker, Worker

LEMMA TypeInit == Init => TypeOK
<1> SUFFICES ASSUME Init PROVE TypeOK
  OBVIOUS
<1>1. hw \in [Installed -> Hardware]
  BY BlankType DEF Init
<1>2. inv \in [Installed -> Nat] /\ spent \in [Fault -> Nat]
  BY DEF Init
<1>3. cr \in NodeConfig /\ cr.observed <= cr.generation
  BY NoNodeConfigType DEF Init
<1>4. spec \in NodeSpec /\ prev \in [Card -> Config \cup {NoConfig}]
  BY EmptySpecType DEF Init
<1>5. strays \in [Stray -> Worker]
  BY NoWorkerType DEF Init
<1> QED
  BY <1>1, <1>2, <1>3, <1>4, <1>5 DEF Init, TypeOK

(* The locals at the end of a pass. *)
LEMMA EndPassType ==
  EndPass => /\ fresh' \in BOOLEAN
             /\ spec' \in NodeSpec
             /\ inv' \in [Installed -> Nat]
             /\ todo' \subseteq Installed
             /\ err' \in BOOLEAN
<1> SUFFICES ASSUME EndPass
             PROVE  /\ fresh' = FALSE /\ todo' = {} /\ err' = FALSE
                    /\ spec' \in NodeSpec
                    /\ inv' \in [Installed -> Nat]
  OBVIOUS
<1>1. inv' = [c \in Installed |-> 0] /\ spec' = EmptySpec
  BY DEF EndPass
<1>2. [c \in Installed |-> 0] \in [Installed -> Nat]
  OBVIOUS
<1> QED
  BY <1>1, <1>2, EmptySpecType DEF EndPass

(* What the calls make of a card is a state of a card. *)
LEMMA CardType ==
  ASSUME TypeOK, NEW c \in Installed, NEW s \in NodeSpec
  PROVE  /\ hw[c] \in Hardware
         /\ Stopped(c) \in Hardware
         /\ WithoutVFs(c) \in Hardware
         /\ [hw[c] EXCEPT !.bound = FALSE] \in Hardware
         /\ AfterFLR(c) \in Hardware
         /\ Initialized(s, c) \in Hardware
         /\ Bound(c) \in Hardware
         /\ WithVFs(s, c) \in Hardware
<1>1. hw[c] \in Hardware /\ s.pfs[c] \in Config \cup {NoConfig}
  BY CardAssumption DEF TypeOK, NodeSpec
<1>2. RequestedVFs(s, c) \in Nat
  BY <1>1, ConfigAssumption DEF RequestedVFs, Requested
<1>3. Stopped(c) \in Hardware /\ Bound(c) \in Hardware /\ AfterFLR(c) \in Hardware
  BY <1>1 DEF Hardware, Stopped, Bound, AfterFLR
<1>4. WithoutVFs(c) \in Hardware /\ [hw[c] EXCEPT !.bound = FALSE] \in Hardware
  BY <1>1 DEF Hardware, WithoutVFs
<1>5. Initialized(s, c) \in Hardware
  <2>1. ASSUME NEW f \in Config \cup {NoConfig}, NEW b \in BOOLEAN
        PROVE  [hw[c] EXCEPT !.cfg = f, !.alive = b] \in Hardware
    BY <1>1 DEF Hardware
  <2>2. (s.pfs[c] \in VfioPci) \in BOOLEAN
    OBVIOUS
  <2> QED
    BY <1>1, <2>1, <2>2, Zenon DEF Initialized
<1>6. WithVFs(s, c) \in Hardware
  BY <1>1, <1>2 DEF Hardware, WithVFs
<1> QED
  BY <1>1, <1>3, <1>4, <1>5, <1>6

LEMMA CardTypes ==
  ASSUME TypeOK, NEW c \in Installed
  PROVE  /\ hw[c] \in Hardware /\ Stopped(c) \in Hardware /\ WithoutVFs(c) \in Hardware
         /\ AfterFLR(c) \in Hardware /\ Initialized(spec, c) \in Hardware
         /\ WithVFs(spec, c) \in Hardware /\ Bound(c) \in Hardware
<1>1. spec \in NodeSpec
  BY DEF TypeOK
<1> QED
  BY <1>1, CardType

LEMMA HappensType == ASSUME TypeOK, NEW f \in Fault, Happens(f) PROVE spent' \in [Fault -> Nat]
BY DEF TypeOK, Happens

LEMMA WorkType ==
  ASSUME TypeOK, NEW c \in Installed, NEW card \in Hardware, Work(c, card)
  PROVE  hw' \in [Installed -> Hardware] /\ pluginStale' \in BOOLEAN
BY DEF TypeOK, Work

LEMMA LeftoverType ==
  ASSUME TypeOK, NEW c \in Installed, NEW s \in NodeSpec, NEW stage \in Stages
  PROVE  Leftover(stage, s, c) \subseteq Hardware
BY CardType DEF Leftover, Stages

LEMMA EffectType ==
  ASSUME TypeOK, NEW c \in Installed, NEW s \in NodeSpec, NEW stage \in Stages
  PROVE  Effect(stage, s, c) \in Hardware
BY CardType DEF Effect, Stages

(* The part of the type invariant that concerns the object. *)
ObjectType == cr \in NodeConfig /\ cr.observed <= cr.generation

LEMMA UpdateStatusType ==
  ASSUME TypeOK, NEW reason \in Reason, UpdateStatus(reason)
  PROVE  /\ ObjectType'
         /\ cr'.exists = cr.exists /\ cr'.spec = cr.spec
         /\ cr'.generation = cr.generation /\ cr'.reason = reason
         /\ reason = "Succeeded" => cr'.observed = cr.generation
         /\ reason # "Succeeded" => cr'.observed = cr.observed
<1>1. /\ cr' = [cr EXCEPT !.reason = reason, !.observed = ObservedGeneration(reason)]
      /\ cr \in NodeConfig
      /\ cr.observed <= cr.generation
  BY DEF UpdateStatus, TypeOK
<1>2. ObservedGeneration(reason) \in Nat /\ ObservedGeneration(reason) <= cr.generation
  BY <1>1 DEF ObservedGeneration, NodeConfig
<1> QED
  BY <1>1, <1>2 DEF ObjectType, NodeConfig, ObservedGeneration

LEMMA FaultNames == {"step", "crash", "reboot", "numvfs", "pfbb", "delete", "lease"} = Fault
BY DEF Fault

(* A card the spec does not ask for is done after the reset. *)
StagesOfRequested ==
  pc \in {"init", "vfs", "bind"} => \A c \in todo : Current(c) => Requested(spec, c)

LEMMA GoesOnType ==
  ASSUME TypeOK, NEW w \in Stray, NEW cards \in SUBSET Installed, GoesOn(w, cards)
  PROVE  strays' \in [Stray -> Worker]
<1>1. PICK left \in SUBSET Installed :
        strays' = [strays EXCEPT ![w].left = left,
                                 ![w].at = IF left = {} THEN "restart" ELSE "stop"]
  BY DEF GoesOn
<1>2. strays \in [Stray -> Worker] /\ strays[w] \in Worker
  BY DEF TypeOK
<1>3. ASSUME NEW at \in {"restart", "stop"}
      PROVE  [strays[w] EXCEPT !.left = left, !.at = at] \in Worker
  BY <1>2 DEF Worker, Stages
<1>4. strays' = [strays EXCEPT ![w] =
                   [strays[w] EXCEPT !.left = left,
                                     !.at = IF left = {} THEN "restart" ELSE "stop"]]
  BY <1>1, <1>2
<1> QED
  BY <1>2, <1>3, <1>4

LEMMA EndedType == ASSUME TypeOK, NEW w \in Stray, Ended(w) PROVE strays' \in [Stray -> Worker]
BY NoWorkerType DEF TypeOK, Ended

LEMMA MovesOnType ==
  ASSUME TypeOK, NEW w \in Stray, NEW at \in {"apply"} \cup Stages,
         strays' = [strays EXCEPT ![w].at = at]
  PROVE  strays' \in [Stray -> Worker]
<1>1. strays \in [Stray -> Worker] /\ strays[w] \in Worker
  BY DEF TypeOK
<1>2. [strays[w] EXCEPT !.at = at] \in Worker
  BY <1>1 DEF Worker
<1>3. strays' = [strays EXCEPT ![w] = [strays[w] EXCEPT !.at = at]]
  BY <1>1
<1> QED
  BY <1>1, <1>2, <1>3

(* What the steps of a worker left behind may change has its type. *)
LEMMA LeftBehindType ==
  ASSUME TypeOK, NEW w \in Stray, LeftBehind(w)
  PROVE  /\ Aside /\ undone' = undone
         /\ cordoned' \in BOOLEAN /\ pluginStale' \in BOOLEAN
         /\ hw' \in [Installed -> Hardware]
         /\ spent' \in [Fault -> Nat]
         /\ strays' \in [Stray -> Worker]
         /\ adrift' \subseteq Installed
<1>0. strays[w] \in Worker /\ strays[w].spec \in NodeSpec /\ strays[w].left \subseteq Installed
  BY DEF TypeOK, Worker
<1>1. CASE StrayDrain(w)
  <2>1. strays' \in [Stray -> Worker]
    BY <1>1, MovesOnType DEF StrayDrain
  <2>2. cordoned' \in BOOLEAN
    BY <1>0, <1>1 DEF StrayDrain, TypeOK, NodeSpec
  <2> QED
    BY <1>1, <2>1, <2>2 DEF StrayDrain, TypeOK
<1>2. CASE StrayApplySpec(w)
  <2>1. strays' \in [Stray -> Worker]
    BY <1>2, GoesOnType DEF StrayApplySpec
  <2> QED
    BY <1>2, <2>1 DEF StrayApplySpec, OnTheNode, TypeOK
<1>3. ASSUME NEW c \in Installed, StrayStage(w, c)
      PROVE  /\ Aside /\ UNCHANGED <<cordoned, spent, undone>>
             /\ strays' \in [Stray -> Worker]
             /\ hw' \in [Installed -> Hardware] /\ pluginStale' \in BOOLEAN
             /\ adrift' \subseteq Installed
  <2>1. strays[w].at \in Stages
    BY <1>3 DEF StrayStage
  <2>2. hw' \in [Installed -> Hardware] /\ pluginStale' \in BOOLEAN
    BY <1>0, <1>3, <2>1, EffectType, WorkType DEF StrayStage
  <2>3. StageAfter(strays[w].at) \in Stages
    BY DEF StageAfter, Stages
  <2>4. strays' \in [Stray -> Worker]
    <3>1. CASE GoesOn(w, strays[w].left \ {c})
      BY <1>0, <3>1, GoesOnType
    <3>2. CASE strays' = [strays EXCEPT ![w].at = StageAfter(strays[w].at)]
      BY <2>3, <3>2, MovesOnType
    <3> QED
      BY <1>3, <3>1, <3>2 DEF StrayStage
  <2> QED
    BY <1>3, <2>2, <2>4 DEF StrayStage, TypeOK
<1>4. ASSUME NEW c \in Installed, StrayCardFails(w, c)
      PROVE  /\ Aside /\ UNCHANGED <<cordoned, undone>>
             /\ spent' \in [Fault -> Nat]
             /\ strays' \in [Stray -> Worker]
             /\ hw' \in [Installed -> Hardware] /\ pluginStale' \in BOOLEAN
             /\ adrift' \subseteq Installed
  <2>1. strays' \in [Stray -> Worker]
    BY <1>4, EndedType DEF StrayCardFails
  <2>2. CASE UNCHANGED <<hw, pluginStale, spent>>
    BY <1>4, <2>1, <2>2 DEF StrayCardFails, TypeOK
  <2>3. CASE Happens("step") /\ \E card \in Leftover(strays[w].at, strays[w].spec, c) :
                                   Work(c, card)
    <3>1. spent' \in [Fault -> Nat]
      BY <2>3, HappensType, FaultNames
    <3>2. PICK card \in Leftover(strays[w].at, strays[w].spec, c) : Work(c, card)
      BY <2>3
    <3>3. card \in Hardware
      BY <1>0, <1>4, <3>2, LeftoverType DEF StrayCardFails
    <3>4. hw' \in [Installed -> Hardware] /\ pluginStale' \in BOOLEAN
      BY <3>2, <3>3, WorkType
    <3> QED
      BY <1>4, <2>1, <3>1, <3>4 DEF StrayCardFails, TypeOK
  <2> QED
    BY <1>4, <2>2, <2>3 DEF StrayCardFails
<1>5. CASE StrayRestart(w) \/ StrayUncordon(w) \/ StrayCancelled(w)
  <2>1. strays' \in [Stray -> Worker]
    BY <1>5, EndedType DEF StrayRestart, StrayUncordon, StrayCancelled
  <2> QED
    BY <1>5, <2>1 DEF StrayRestart, StrayUncordon, StrayCancelled, OnTheNode, TypeOK
<1>6. CASE StrayCallFails(w)
  <2>1. strays' \in [Stray -> Worker] /\ spent' \in [Fault -> Nat]
    BY <1>6, EndedType, HappensType, FaultNames DEF StrayCallFails
  <2> QED
    BY <1>6, <2>1 DEF StrayCallFails, TypeOK
<1> QED
  BY <1>1, <1>2, <1>3, <1>4, <1>5, <1>6 DEF LeftBehind, TypeOK

(* One step per action of the daemon, of its failures and of the environment. *)
LEMMA TypeStep == TypeOK /\ StagesOfRequested /\ [Next]_vars => TypeOK'
<1> SUFFICES ASSUME TypeOK, StagesOfRequested, [Next]_vars PROVE TypeOK'
  OBVIOUS
<1>1. CASE UNCHANGED vars \/ NothingToDo
  BY <1>1 DEF TypeOK, vars, NothingToDo
<1>2. CASE Boot
  BY <1>2 DEF TypeOK, Boot
<1>3. CASE Recreate
  BY <1>3 DEF TypeOK, Recreate
<1>4. CASE Refuse
  BY <1>4 DEF TypeOK, Refuse
<1>5. CASE Drain
  BY <1>5 DEF TypeOK, Drain
<1>6. CASE RestartDevicePlugin
  BY <1>6 DEF TypeOK, RestartDevicePlugin
<1>7. CASE Uncordon
  BY <1>7 DEF TypeOK, Uncordon
<1>8. CASE CreateNodeConfig
  <2>1. ObjectType'
    <3>1. cr' = [exists |-> TRUE, generation |-> 1, spec |-> EmptySpec, reason |-> "None",
                observed |-> 0]
      BY <1>8 DEF CreateNodeConfig, NoNodeConfig
    <3>2. "None" \in Reason
      BY DEF Reason
    <3> QED
      BY <3>1, <3>2, EmptySpecType DEF ObjectType, NodeConfig
  <2> QED
    BY <1>8, <2>1 DEF TypeOK, ObjectType, CreateNodeConfig
<1>9. CASE DescribeNodeConfig
  <2>1. ObjectType'
    <3>1. cr \in NodeConfig
      BY DEF TypeOK
    <3> QED
      <4>1. "NotRequested" \in Reason
        BY DEF Reason
      <4>2. cr' = [cr EXCEPT !.reason = "NotRequested", !.observed = cr.generation]
        BY <1>9 DEF DescribeNodeConfig
      <4>3. cr' \in NodeConfig
        BY <3>1, <4>1, <4>2 DEF NodeConfig
      <4>4. cr'.observed = cr'.generation /\ cr'.generation \in Nat
        BY <3>1, <4>2 DEF NodeConfig
      <4> QED
        BY <4>3, <4>4 DEF ObjectType
  <2> QED
    BY <1>9, <2>1, EndPassType DEF TypeOK, ObjectType, DescribeNodeConfig
<1>10. CASE BeginPass
  <2>1. spec' \in NodeSpec /\ inv' \in [Installed -> Nat]
    BY <1>10 DEF BeginPass, LiveVFs, TypeOK, NodeConfig, Hardware
  <2> QED
    BY <1>10, <2>1 DEF TypeOK, BeginPass
<1>11. CASE RefuseSpec
  <2>1. ObjectType'
    BY <1>11, UpdateStatusType DEF RefuseSpec, Reason
  <2> QED
    BY <1>11, <2>1, EndPassType DEF TypeOK, ObjectType, RefuseSpec
<1>12. CASE MarkInProgress
  <2>1. ObjectType'
    BY <1>12, UpdateStatusType DEF MarkInProgress, Reason
  <2> QED
    BY <1>12, <2>1 DEF TypeOK, ObjectType, MarkInProgress, Changed, UpdateRequired
<1>13. CASE Report
  <2>1. ObjectType'
    BY <1>13, UpdateStatusType DEF Report, Reason
  <2>2. prev' \in [Card -> Config \cup {NoConfig}]
    BY <1>13 DEF Report, Remembered, TypeOK, NodeSpec
  <2> QED
    BY <1>13, <2>1, <2>2, EndPassType DEF TypeOK, ObjectType, Report
<1>14. CASE StatusUpdateFails
  <2>1. spent' \in [Fault -> Nat]
    BY <1>14, HappensType, FaultNames DEF StatusUpdateFails, TypeOK
  <2>2. prev' \in [Card -> Config \cup {NoConfig}]
    BY <1>14 DEF StatusUpdateFails, Remembered, TypeOK, NodeSpec
  <2>3. touched' \subseteq Installed
    BY <1>14 DEF StatusUpdateFails, TypeOK
  <2> QED
    BY <1>14, <2>1, <2>2, <2>3, EndPassType DEF TypeOK, Changed, StatusUpdateFails
<1>15. CASE ApplySpec
  <2>1. inv' \in [Installed -> Nat] /\ todo' \subseteq Installed
    BY <1>15 DEF ApplySpec, LiveVFs, TypeOK, Hardware
  <2> QED
    BY <1>15, <2>1 DEF TypeOK, Stages, ApplySpec
<1>16. CASE \E c \in Installed : CardStep(c)
  <2> SUFFICES ASSUME NEW c \in Installed, CardStep(c) PROVE TypeOK'
    BY <1>16
  <2> USE DEF Stages
  <2>1. CASE StopPfBBConfig(c)
    <3>1. hw' \in [Installed -> Hardware] /\ pluginStale' \in BOOLEAN
      BY <2>1, CardTypes, WorkType DEF StopPfBBConfig
    <3> QED
      BY <2>1, <3>1 DEF TypeOK, StopPfBBConfig
  <2>2. CASE RemoveVFs(c)
    <3>1. hw' \in [Installed -> Hardware] /\ pluginStale' \in BOOLEAN
      BY <2>2, CardTypes, WorkType DEF RemoveVFs
    <3> QED
      BY <2>2, <3>1 DEF TypeOK, RemoveVFs, NextStage
  <2>3. CASE FlrReset(c)
    <3>1. hw' \in [Installed -> Hardware] /\ pluginStale' \in BOOLEAN
      BY <2>3, CardTypes, WorkType DEF FlrReset
    <3> QED
      BY <2>3, <3>1 DEF TypeOK, FlrReset, NextStage, CardDone
  <2>4. CASE InitializePfBBConfig(c)
    <3>1. hw' \in [Installed -> Hardware] /\ pluginStale' \in BOOLEAN
      BY <2>4, CardTypes, WorkType DEF InitializePfBBConfig
    <3> QED
      BY <2>4, <3>1 DEF TypeOK, InitializePfBBConfig, NextStage
  <2>5. CASE ChangeAmountOfVFs(c)
    <3>1. hw' \in [Installed -> Hardware] /\ pluginStale' \in BOOLEAN
      BY <2>5, CardTypes, WorkType DEF ChangeAmountOfVFs
    <3> QED
      BY <2>5, <3>1 DEF TypeOK, ChangeAmountOfVFs, NextStage
  <2>6. CASE BindVFs(c)
    <3>1. hw' \in [Installed -> Hardware] /\ pluginStale' \in BOOLEAN
      BY <2>6, CardTypes, WorkType DEF BindVFs
    <3> QED
      BY <2>6, <3>1 DEF TypeOK, BindVFs, CardDone
  <2>7. CASE DriverRejected(c)
    BY <2>7 DEF TypeOK, DriverRejected, Abort
  <2> QED
    BY <2>1, <2>2, <2>3, <2>4, <2>5, <2>6, <2>7 DEF CardStep
<1>17. CASE CreateFails
  <2>1. spent' \in [Fault -> Nat]
    BY <1>17, HappensType, FaultNames DEF CreateFails
  <2> QED
    BY <1>17, <2>1 DEF TypeOK, Stages, CreateFails
<1>18. CASE DrainFails
  <2>1. spent' \in [Fault -> Nat]
    BY <1>18, HappensType, FaultNames DEF DrainFails
  <2> QED
    BY <1>18, <2>1 DEF TypeOK, Stages, DrainFails
<1>19. CASE InventoryFails
  <2>1. spent' \in [Fault -> Nat]
    BY <1>19, HappensType, FaultNames DEF InventoryFails
  <2> QED
    BY <1>19, <2>1 DEF TypeOK, Stages, InventoryFails
<1>20. CASE RestartFails
  <2>1. spent' \in [Fault -> Nat]
    BY <1>20, HappensType, FaultNames DEF RestartFails
  <2> QED
    BY <1>20, <2>1 DEF TypeOK, Stages, RestartFails
<1>21. CASE UncordonFails
  <2>1. spent' \in [Fault -> Nat]
    BY <1>21, HappensType, FaultNames DEF UncordonFails
  <2> QED
    BY <1>21, <2>1 DEF TypeOK, Stages, UncordonFails
<1>22. CASE \E c \in Installed : CardFails(c)
  <2> SUFFICES ASSUME NEW c \in Installed, CardFails(c) PROVE TypeOK'
    BY <1>22
  <2>1. spent' \in [Fault -> Nat]
    BY HappensType, FaultNames DEF CardFails
  <2>2. PICK card \in Leftover(pc, spec, c) : Work(c, card)
    BY DEF CardFails
  <2>3. card \in Hardware
    BY <2>2, LeftoverType DEF CardFails, TypeOK
  <2>4. hw' \in [Installed -> Hardware] /\ pluginStale' \in BOOLEAN
    BY <2>2, <2>3, WorkType
  <2> QED
    BY <2>1, <2>4 DEF TypeOK, CardFails, Abort
<1>23. CASE \E s \in Propagated : SetSpec(s)
  <2> SUFFICES ASSUME NEW s \in Propagated, SetSpec(s) PROVE TypeOK'
    BY <1>23
  <2>1. ObjectType'
    <3>1. cr \in NodeConfig /\ cr.observed <= cr.generation /\ s \in NodeSpec
      BY PropagatedAssumption DEF TypeOK
    <3> QED
      <4>1. cr' = [cr EXCEPT !.spec = s, !.generation = cr.generation + 1]
        BY DEF SetSpec
      <4>2. cr' \in NodeConfig
        <5>1. ASSUME NEW g \in Nat PROVE [cr EXCEPT !.spec = s, !.generation = g] \in NodeConfig
          BY <3>1 DEF NodeConfig
        <5>2. cr.generation + 1 \in Nat
          BY <3>1 DEF NodeConfig
        <5> QED
          BY <4>1, <5>1, <5>2
      <4>3. /\ cr'.observed = cr.observed /\ cr.observed \in Nat
            /\ cr'.generation = cr.generation + 1 /\ cr.generation \in Nat
        BY <3>1, <4>1 DEF NodeConfig
      <4> QED
        BY <3>1, <4>2, <4>3 DEF ObjectType
  <2> QED
    BY <2>1 DEF TypeOK, ObjectType, SetSpec
<1>24. CASE DeleteNodeConfig
  <2>1. spent' \in [Fault -> Nat]
    BY <1>24, HappensType, FaultNames DEF DeleteNodeConfig
  <2> QED
    BY <1>24, <2>1, NoNodeConfigType DEF TypeOK, Stages, DeleteNodeConfig
<1>25. CASE \E c \in Installed : ResetVFs(c) \/ PfBbConfigDies(c)
  <2> SUFFICES ASSUME NEW c \in Installed, ResetVFs(c) \/ PfBbConfigDies(c) PROVE TypeOK'
    BY <1>25
  <2>1. spent' \in [Fault -> Nat]
    BY HappensType, FaultNames DEF ResetVFs, PfBbConfigDies
  <2>2. hw' \in [Installed -> Hardware]
    <3>1. hw \in [Installed -> Hardware] /\ hw[c] \in Hardware
      BY DEF TypeOK
    <3>2. /\ [hw[c] EXCEPT !.vfs = 0, !.bound = FALSE] \in Hardware
          /\ [hw[c] EXCEPT !.alive = FALSE] \in Hardware
      BY <3>1 DEF Hardware
    <3> QED
      BY <3>1, <3>2 DEF ResetVFs, PfBbConfigDies
  <2> QED
    BY <2>1, <2>2 DEF TypeOK, ResetVFs, PfBbConfigDies
<1>26. CASE Crash
  <2>1. spent' \in [Fault -> Nat]
    BY <1>26, HappensType, FaultNames DEF Crash
  <2>2. hw' \in [Installed -> Hardware]
    BY <1>26 DEF Crash, TypeOK, Hardware
  <2>3. disturbed' \subseteq Installed
    BY <1>26 DEF Crash, TypeOK
  <2>4. strays' \in [Stray -> Worker]
    BY <1>26, NoWorkerType DEF Crash
  <2> QED
    BY <1>26, <2>1, <2>2, <2>3, <2>4, EmptySpecType, EndPassType DEF TypeOK, Crash
<1>27. CASE Reboot
  <2>1. spent' \in [Fault -> Nat]
    BY <1>27, HappensType, FaultNames DEF Reboot
  <2>2. hw' \in [Installed -> Hardware]
    BY <1>27, BlankType DEF Reboot
  <2>3. strays' \in [Stray -> Worker]
    BY <1>27, NoWorkerType DEF Reboot
  <2> QED
    BY <1>27, <2>1, <2>2, <2>3, EmptySpecType, EndPassType DEF TypeOK, Reboot
<1>28. CASE \E w \in Stray : LoseLease(w)
  <2> SUFFICES ASSUME NEW w \in Stray, LoseLease(w) PROVE TypeOK'
    BY <1>28
  <2>1. spent' \in [Fault -> Nat]
    BY HappensType, FaultNames DEF LoseLease
  <2>2. strays' \in [Stray -> Worker]
    <3>1. ASSUME NEW left \in SUBSET Installed
          PROVE  [at |-> pc, spec |-> spec, left |-> left] \in Worker
      BY DEF LoseLease, Worker, TypeOK, Stages
    <3> QED
      BY <3>1 DEF LoseLease, TypeOK
  <2>3. adrift' \subseteq Installed /\ undone' \subseteq {"plugin", "node"}
    BY DEF LoseLease, TypeOK
  <2> QED
    BY <2>1, <2>2, <2>3 DEF TypeOK, Stages, LoseLease
<1>29. CASE \E w \in Stray : LeftBehind(w)
  BY <1>29, LeftBehindType DEF TypeOK, Aside
<1> QED
  BY <1>1, <1>2, <1>3, <1>4, <1>5, <1>6, <1>7, <1>8, <1>9, <1>10, <1>11, <1>12, <1>13, <1>14,
     <1>15, <1>16, <1>17, <1>18, <1>19, <1>20, <1>21, <1>22, <1>23, <1>24, <1>25, <1>26, <1>27,
     <1>28, <1>29
     DEF Next, Progress, Failure, Environment

LEMMA StagesOfRequestedStep == TypeOK /\ StagesOfRequested /\ [Next]_vars => StagesOfRequested'
<1> SUFFICES ASSUME TypeOK, StagesOfRequested, [Next]_vars PROVE StagesOfRequested'
  OBVIOUS
<1>1. CASE UNCHANGED <<pc, todo, spec>>
  BY <1>1 DEF StagesOfRequested, Current, Requested
<1>2. CASE pc' \notin {"init", "vfs", "bind"}
  BY <1>2 DEF StagesOfRequested
<1>3. ASSUME NEW c \in Installed, UNCHANGED <<todo, spec>>, Current(c), Requested(spec, c)
      PROVE  StagesOfRequested'
  <2>1. todo \subseteq Nat
    BY CardAssumption DEF TypeOK
  <2>2. \A d \in todo : Current(d) => d = c
    BY <1>3, <2>1 DEF Current
  <2> QED
    BY <1>3, <2>2 DEF StagesOfRequested, Current, Requested
<1>4. ASSUME NEW c \in Installed, CardStep(c) PROVE StagesOfRequested'
  <2>1. CASE FlrReset(c)
    BY <1>2, <1>3, <2>1 DEF FlrReset, NextStage, CardDone, passVars
  <2>2. CASE InitializePfBBConfig(c)
    BY <1>3, <2>2 DEF InitializePfBBConfig, NextStage, passVars, StagesOfRequested, Current
  <2>3. CASE ChangeAmountOfVFs(c)
    BY <1>3, <2>3 DEF ChangeAmountOfVFs, NextStage, passVars, StagesOfRequested, Current
  <2>4. CASE StopPfBBConfig(c) \/ RemoveVFs(c) \/ BindVFs(c) \/ DriverRejected(c)
    BY <1>2, <2>4
       DEF StopPfBBConfig, RemoveVFs, BindVFs, DriverRejected, NextStage, CardDone, Abort
  <2> QED
    BY <1>4, <2>1, <2>2, <2>3, <2>4 DEF CardStep
<1>5. CASE NothingToDo \/ Boot \/ Recreate \/ CreateNodeConfig \/ DescribeNodeConfig \/ Refuse \/ BeginPass
            \/ RefuseSpec \/ MarkInProgress \/ Drain \/ ApplySpec
            \/ RestartDevicePlugin \/ Uncordon \/ Report
  BY <1>2, <1>5
     DEF NothingToDo, Boot, Recreate, CreateNodeConfig, DescribeNodeConfig, Refuse, BeginPass, RefuseSpec,
         MarkInProgress, Drain, ApplySpec, RestartDevicePlugin, Uncordon, Report
<1>6. CASE CreateFails \/ StatusUpdateFails \/ DrainFails \/ InventoryFails \/ RestartFails
            \/ UncordonFails \/ \E c \in Installed : CardFails(c)
  BY <1>2, <1>6
     DEF CreateFails, StatusUpdateFails, DrainFails, InventoryFails, RestartFails,
         UncordonFails, CardFails, Abort
<1>7. CASE Environment
  BY <1>1, <1>2, <1>7
     DEF Environment, SetSpec, DeleteNodeConfig, ResetVFs, PfBbConfigDies, Crash, Reboot, passVars
<1>8. CASE \E w \in Stray : LoseLease(w)
  BY <1>2, <1>8 DEF LoseLease
<1>9. CASE \E w \in Stray : LeftBehind(w)
  BY <1>1, <1>9, LeftBehindType DEF Aside
<1> QED
  BY <1>1, <1>4, <1>5, <1>6, <1>7, <1>8, <1>9 DEF Next, Progress, Failure, vars, passVars

(* Every variable keeps its type, and the status never claims a generation   *)
(* the object did not have.                                                   *)
THEOREM TypeCorrect == Spec => []TypeOK
<1>1. Init => TypeOK /\ StagesOfRequested
  BY TypeInit DEF Init, StagesOfRequested
<1>2. TypeOK /\ StagesOfRequested /\ [Next]_vars => TypeOK' /\ StagesOfRequested'
  BY TypeStep, StagesOfRequestedStep
<1> QED
  BY <1>1, <1>2, PTL DEF Spec
-----------------------------------------------------------------------------
(* The inductive invariant.  The status says nothing about a pass under way, *)
(* so each property is carried from the end of one pass to the end of the    *)
(* next by what holds in between.                                            *)

Working == {"drain", "apply", "restart", "uncordon", "report"} \cup Stages

(* An object in hand that the server still has is the one the pass works for. *)
FreshObject == fresh => cr.exists /\ (pc \in {"begin"} \cup Working => spec = cr.spec)

(* No pass works on the node under an old Succeeded. *)
Announced == pc \in Working => cr.reason \in {"InProgress", "None"}

PluginFresh ==
  /\ PluginFreshWhenSucceeded
  /\ pc \in {"uncordon", "report"} /\ ~err /\ "plugin" \notin undone => ~pluginStale

Uncordoned ==
  /\ UncordonedWhenApplied
  /\ pc = "report" /\ ~err /\ ~spec.drainSkip /\ "node" \notin undone => ~cordoned

(* What a worker left behind may yet change is down as undone. *)
Owed ==
  \A w \in Stray : strays[w].at # "none" =>
    /\ strays[w].at # "uncordon" => "plugin" \in undone
    /\ ~strays[w].spec.drainSkip => "node" \in undone

(* A card the pass leaves alone was configured as the spec asks. *)
Skipped ==
  pc \in Working => \A c \in Installed \ required : prev[c] = spec.pfs[c] /\ prev[c] # NoConfig

(* How far the current card is. *)
Partial ==
  pc \in Stages =>
    \A c \in todo : Current(c) =>
      /\ pc # "stop" => c \in touched
      /\ pc \in {"reset", "init"} /\ c \notin adrift => hw[c].vfs = 0
      /\ pc \in {"vfs", "bind"} /\ c \notin disturbed \cup adrift =>
           hw[c].cfg = spec.pfs[c] /\ (hw[c].alive <=> spec.pfs[c] \in VfioPci)
      /\ pc = "bind" /\ c \notin disturbed \cup adrift => hw[c].vfs = VFAmount[spec.pfs[c]]

AsSpecified(c) ==
  IF Requested(spec, c)
  THEN c \notin disturbed \cup adrift => InForce(c, spec.pfs[c])
  ELSE c \notin adrift => hw[c].vfs = 0

(* The cards behind the current one are as the spec asks. *)
Done ==
  pc \in {"restart", "uncordon", "report"} \cup Stages /\ ~err =>
    /\ pc \notin Stages => todo = {}
    /\ \A c \in required \ todo : AsSpecified(c)

(* A card to be reconfigured although its configuration is the one applied    *)
(* last has lost its VFs, and gets them back only in the stage that binds them. *)
LostVFs(c) ==
  prev[c] = spec.pfs[c] /\ prev[c] # NoConfig /\ c \notin adrift =>
    hw[c].vfs # VFAmount[prev[c]] \/ ~hw[c].bound

Waiting ==
  /\ pc = "begin" => \A c \in Installed \ adrift : hw[c].vfs = inv[c] \/ ~hw[c].bound
  /\ pc \in {"drain", "apply"} => \A c \in required : LostVFs(c)
  /\ pc \in Stages => \A c \in todo : LostVFs(c)

StatusInv == TypeOK /\ StagesOfRequested /\ FreshObject /\ Announced

Inv ==
  /\ StatusInv
  /\ PluginFresh
  /\ Uncordoned
  /\ Owed
  /\ Skipped
  /\ Partial
  /\ Done
  /\ Waiting
  /\ PrevInForce
  /\ AppliedMatchesHardware

-----------------------------------------------------------------------------
(* What a step does to the object, and what a card's steps leave alone *)

LEMMA NoObject ==
  /\ NoNodeConfig.exists = FALSE /\ NoNodeConfig.reason = "None"
  /\ NoNodeConfig.generation = 0 /\ NoNodeConfig.observed = 0
BY DEF NoNodeConfig

LEMMA CreateFields ==
  CreateNodeConfig => cr'.exists /\ cr'.reason = "None" /\ fresh' /\ pc' = "describe"
BY DEF CreateNodeConfig, NoNodeConfig

LEMMA DescribeFields ==
  TypeOK /\ DescribeNodeConfig => cr'.reason = "NotRequested" /\ fresh' = FALSE /\ pc' = "idle"
BY DEF DescribeNodeConfig, EndPass, TypeOK, NodeConfig

LEMMA SetSpecFields ==
  ASSUME TypeOK, NEW s \in Propagated, SetSpec(s)
  PROVE  /\ cr'.exists = cr.exists /\ cr'.reason = cr.reason /\ cr'.spec = s
         /\ cr'.generation = cr.generation + 1 /\ cr'.observed = cr.observed
         /\ cr'.generation # cr'.observed
<1>1. cr \in NodeConfig /\ cr.observed <= cr.generation
  BY DEF TypeOK
<1>2. cr' = [cr EXCEPT !.spec = s, !.generation = cr.generation + 1]
  BY DEF SetSpec
<1>3. cr.observed \in Nat /\ cr.generation \in Nat
  BY <1>1 DEF NodeConfig
<1>4. /\ cr'.exists = cr.exists /\ cr'.reason = cr.reason /\ cr'.spec = s
      /\ cr'.generation = cr.generation + 1 /\ cr'.observed = cr.observed
  BY <1>1, <1>2 DEF NodeConfig
<1> QED
  BY <1>1, <1>3, <1>4

LEMMA CardFrame ==
  ASSUME NEW c \in Installed, CardStep(c) \/ CardFails(c)
  PROVE  /\ pc \in Stages
         /\ Current(c)
         /\ UNCHANGED <<cr, cordoned, prev, fresh, spec, inv, required, strays, undone>>
         /\ \/ pc' \in Stages \cup {"restart"} /\ err' = err
            \/ pc' = "uncordon" /\ err' = TRUE
<1> USE DEF Stages
<1>1. CASE StopPfBBConfig(c)
  BY <1>1 DEF StopPfBBConfig
<1>2. CASE RemoveVFs(c) \/ FlrReset(c)
  BY <1>2 DEF RemoveVFs, FlrReset, NextStage, CardDone
<1>3. CASE InitializePfBBConfig(c) \/ ChangeAmountOfVFs(c)
  BY <1>3 DEF InitializePfBBConfig, ChangeAmountOfVFs, NextStage
<1>4. CASE BindVFs(c)
  BY <1>4 DEF BindVFs, CardDone
<1>5. CASE DriverRejected(c) \/ CardFails(c)
  BY <1>5 DEF DriverRejected, CardFails, Abort
<1> QED
  BY <1>1, <1>2, <1>3, <1>4, <1>5 DEF CardStep

LEMMA WorkerFields ==
  ASSUME TypeOK, NEW w \in Stray
  PROVE  /\ strays \in [Stray -> Worker] /\ strays[w] \in Worker
         /\ NoWorker.at = "none"
BY DEF TypeOK, NoWorker

(* A worker left behind changes nothing but the node, and marks each card it   *)
(* works on; it ends, or has the same spec before it and what was owed already. *)
LEMMA LeftBehindFrame ==
  ASSUME TypeOK, Owed, NEW w \in Stray, LeftBehind(w)
  PROVE  /\ Aside /\ undone' = undone
         /\ \A d \in Installed : d \in adrift => d \in adrift'
         /\ \A d \in Installed : d \notin adrift' => hw'[d] = hw[d]
         /\ pluginStale' => pluginStale \/ "plugin" \in undone
         /\ cordoned' => cordoned \/ "node" \in undone
         /\ Owed'
<1>0. /\ strays \in [Stray -> Worker] /\ strays[w] \in Worker /\ NoWorker.at = "none"
      /\ hw \in [Installed -> Hardware]
  BY WorkerFields DEF TypeOK
<1>1. ASSUME Ended(w), undone' = undone PROVE Owed'
  BY <1>0, <1>1 DEF Owed, Ended
<1>2. ASSUME NEW at, undone' = undone,
             strays[w].at \notin {"none", "uncordon"},
             strays' = [strays EXCEPT ![w].at = at]
      PROVE  Owed'
  BY <1>0, <1>2 DEF Owed, Worker
<1>3. ASSUME NEW cards, undone' = undone, GoesOn(w, cards),
             strays[w].at \notin {"none", "uncordon"}
      PROVE  Owed'
  <2>1. PICK left, at : strays' = [strays EXCEPT ![w].left = left, ![w].at = at]
    BY <1>3 DEF GoesOn
  <2>2. strays'[w].spec = strays[w].spec /\ \A v \in Stray \ {w} : strays'[v] = strays[v]
    BY <1>0, <2>1 DEF Worker
  <2> QED
    BY <1>3, <2>2 DEF Owed
<1>4. CASE StrayDrain(w)
  BY <1>2, <1>4 DEF StrayDrain, Owed
<1>5. CASE StrayApplySpec(w)
  BY <1>3, <1>5 DEF StrayApplySpec, OnTheNode
<1>6. ASSUME NEW c \in Installed, StrayStage(w, c) \/ StrayCardFails(w, c)
      PROVE  /\ Aside /\ undone' = undone /\ cordoned' = cordoned
             /\ adrift' = adrift \cup {c}
             /\ \A d \in Installed \ {c} : hw'[d] = hw[d]
             /\ "plugin" \in undone
             /\ Owed'
  <2>1. strays[w].at \in Stages /\ strays[w].at \notin {"none", "uncordon"}
    BY <1>6 DEF StrayStage, StrayCardFails, Stages
  <2>2. "plugin" \in undone
    BY <2>1 DEF Owed
  <2>3. \A d \in Installed \ {c} : hw'[d] = hw[d]
    BY <1>0, <1>6 DEF StrayStage, StrayCardFails, Work
  <2>4. CASE StrayStage(w, c)
    <3>1. Owed'
      BY <1>2, <1>3, <2>1, <2>4 DEF StrayStage
    <3> QED
      BY <2>2, <2>3, <2>4, <3>1 DEF StrayStage
  <2>5. CASE StrayCardFails(w, c)
    BY <1>1, <2>2, <2>3, <2>5 DEF StrayCardFails
  <2> QED
    BY <1>6, <2>4, <2>5
<1>7. CASE StrayRestart(w) \/ StrayUncordon(w) \/ StrayCancelled(w)
  BY <1>1, <1>7 DEF StrayRestart, StrayUncordon, StrayCancelled, OnTheNode
<1>8. CASE StrayCallFails(w)
  <2>1. Owed' /\ UNCHANGED <<hw, adrift, undone>> /\ Aside
    BY <1>1, <1>8 DEF StrayCallFails
  <2>2. CASE strays[w].at = "apply" /\ UNCHANGED <<cordoned, pluginStale>>
    BY <2>1, <2>2
  <2>3. CASE strays[w].at = "drain" /\ ~strays[w].spec.drainSkip /\ UNCHANGED pluginStale
    <3>1. "node" \in undone
      BY <2>3 DEF Owed
    <3> QED
      BY <2>1, <2>3, <3>1
  <2>4. CASE strays[w].at = "restart" /\ UNCHANGED cordoned
    <3>1. "plugin" \in undone
      BY <2>4 DEF Owed
    <3> QED
      BY <2>1, <2>4, <3>1
  <2> QED
    BY <1>8, <2>2, <2>3, <2>4 DEF StrayCallFails
<1> QED
  BY <1>4, <1>5, <1>6, <1>7, <1>8 DEF LeftBehind

(* A lost lease ends the pass but for its report. *)
LEMMA LoseLeaseFrame ==
  ASSUME NEW w \in Stray, LoseLease(w)
  PROVE  /\ pc \in Working /\ pc' = "report" /\ todo' = {}
         /\ UNCHANGED <<cr, cordoned, pluginStale, hw, prev, fresh, spec, inv, required, err,
                        touched, disturbed>>
         /\ adrift \subseteq adrift'
         /\ pc # "uncordon" => "plugin" \in undone'
         /\ ~spec.drainSkip => "node" \in undone'
         /\ undone \subseteq undone'
         /\ pc \in {"drain", "apply"} => required \subseteq adrift'
         /\ pc \in Stages => todo \subseteq adrift'
         /\ pc \in {"drain", "apply", "restart", "uncordon"} \cup Stages
BY DEF LoseLease, Working, Stages

-----------------------------------------------------------------------------
(* The object, the device plugin and the cordon *)

LEMMA FreshObjectStep == TypeOK /\ FreshObject /\ [Next]_vars => FreshObject'
<1> SUFFICES ASSUME TypeOK, FreshObject, [Next]_vars PROVE FreshObject'
  OBVIOUS
<1>1. CASE UNCHANGED vars
  BY <1>1
     DEF vars, FreshObject, Working, Stages
<1>2. CASE NothingToDo \/ Boot \/ Recreate \/ CreateFails \/ Refuse \/ BeginPass
  BY <1>2
     DEF NothingToDo, Boot, Recreate, CreateFails, Refuse, BeginPass, FreshObject, Working, Stages
<1>3. CASE CreateNodeConfig
  BY <1>3, CreateFields
     DEF CreateNodeConfig, FreshObject, Working, Stages
<1>4. CASE DescribeNodeConfig
  BY <1>4, DescribeFields
     DEF DescribeNodeConfig, FreshObject, Working, Stages
<1>5. CASE RefuseSpec
  BY <1>5, UpdateStatusType
     DEF RefuseSpec, EndPass, Reason, FreshObject, Working, Stages
<1>6. CASE MarkInProgress
  BY <1>6, UpdateStatusType
     DEF MarkInProgress, Reason, FreshObject, Working, Stages
<1>7. CASE Report
  BY <1>7, UpdateStatusType
     DEF Report, EndPass, Reason, FreshObject, Working, Stages
<1>8. CASE StatusUpdateFails
  BY <1>8
     DEF StatusUpdateFails, EndPass, FreshObject, Working, Stages
<1>9. CASE Drain \/ DrainFails \/ Uncordon \/ UncordonFails
  BY <1>9
     DEF Drain, DrainFails, Uncordon, UncordonFails, FreshObject, Working, Stages
<1>10. CASE ApplySpec \/ InventoryFails
  BY <1>10
     DEF ApplySpec, InventoryFails, Stages, FreshObject, Working
<1>11. CASE \E c \in Installed : CardStep(c) \/ CardFails(c)
  BY <1>11, CardFrame
     DEF FreshObject, Working, Stages
<1>12. CASE RestartDevicePlugin \/ RestartFails
  BY <1>12
     DEF RestartDevicePlugin, RestartFails, FreshObject, Working, Stages
<1>13. CASE \E s \in Propagated : SetSpec(s)
  BY <1>13, SetSpecFields
     DEF SetSpec, FreshObject, Working, Stages
<1>14. CASE DeleteNodeConfig
  BY <1>14, NoObject
     DEF DeleteNodeConfig, FreshObject, Working, Stages
<1>15. CASE \E c \in Installed : ResetVFs(c) \/ PfBbConfigDies(c)
  BY <1>15
     DEF ResetVFs, PfBbConfigDies, FreshObject, Working, Stages
<1>16. CASE Crash \/ Reboot
  BY <1>16
     DEF Crash, Reboot, EndPass, FreshObject, Working, Stages
<1>17. CASE \E w \in Stray : LoseLease(w)
  BY <1>17, LoseLeaseFrame DEF FreshObject, Working, Stages
<1>18. CASE \E w \in Stray : LeftBehind(w)
  BY <1>18, LeftBehindType DEF Aside, FreshObject, Working, Stages
<1> QED
  BY <1>1, <1>2, <1>3, <1>4, <1>5, <1>6, <1>7, <1>8, <1>9, <1>10, <1>11, <1>12, <1>13, <1>14,
     <1>15, <1>16, <1>17, <1>18
     DEF Next, Progress, Failure, Environment

LEMMA AnnouncedStep == TypeOK /\ Announced /\ [Next]_vars => Announced'
<1> SUFFICES ASSUME TypeOK, Announced, [Next]_vars PROVE Announced'
  OBVIOUS
<1>1. CASE UNCHANGED vars
  BY <1>1
     DEF vars, Announced, Working, Stages
<1>2. CASE NothingToDo \/ Boot \/ Recreate \/ CreateFails \/ Refuse \/ BeginPass
  BY <1>2
     DEF NothingToDo, Boot, Recreate, CreateFails, Refuse, BeginPass, Announced, Working, Stages
<1>3. CASE CreateNodeConfig
  BY <1>3, CreateFields
     DEF CreateNodeConfig, Announced, Working, Stages
<1>4. CASE DescribeNodeConfig
  BY <1>4, DescribeFields
     DEF DescribeNodeConfig, Announced, Working, Stages
<1>5. CASE RefuseSpec
  BY <1>5, UpdateStatusType
     DEF RefuseSpec, EndPass, Reason, Announced, Working, Stages
<1>6. CASE MarkInProgress
  BY <1>6, UpdateStatusType
     DEF MarkInProgress, Reason, Announced, Working, Stages
<1>7. CASE Report
  BY <1>7, UpdateStatusType
     DEF Report, EndPass, Reason, Announced, Working, Stages
<1>8. CASE StatusUpdateFails
  BY <1>8
     DEF StatusUpdateFails, EndPass, Announced, Working, Stages
<1>9. CASE Drain \/ DrainFails \/ Uncordon \/ UncordonFails
  BY <1>9
     DEF Drain, DrainFails, Uncordon, UncordonFails, Announced, Working, Stages
<1>10. CASE ApplySpec \/ InventoryFails
  BY <1>10
     DEF ApplySpec, InventoryFails, Stages, Announced, Working
<1>11. CASE \E c \in Installed : CardStep(c) \/ CardFails(c)
  BY <1>11, CardFrame
     DEF Announced, Working, Stages
<1>12. CASE RestartDevicePlugin \/ RestartFails
  BY <1>12
     DEF RestartDevicePlugin, RestartFails, Announced, Working, Stages
<1>13. CASE \E s \in Propagated : SetSpec(s)
  BY <1>13, SetSpecFields
     DEF SetSpec, Announced, Working, Stages
<1>14. CASE DeleteNodeConfig
  BY <1>14, NoObject
     DEF DeleteNodeConfig, Announced, Working, Stages
<1>15. CASE \E c \in Installed : ResetVFs(c) \/ PfBbConfigDies(c)
  BY <1>15
     DEF ResetVFs, PfBbConfigDies, Announced, Working, Stages
<1>16. CASE Crash \/ Reboot
  BY <1>16
     DEF Crash, Reboot, EndPass, Announced, Working, Stages
<1>17. CASE \E w \in Stray : LoseLease(w)
  BY <1>17, LoseLeaseFrame DEF Announced, Working, Stages
<1>18. CASE \E w \in Stray : LeftBehind(w)
  BY <1>18, LeftBehindType DEF Aside, Announced, Working, Stages
<1> QED
  BY <1>1, <1>2, <1>3, <1>4, <1>5, <1>6, <1>7, <1>8, <1>9, <1>10, <1>11, <1>12, <1>13, <1>14,
     <1>15, <1>16, <1>17, <1>18
     DEF Next, Progress, Failure, Environment

LEMMA PluginFreshStep == StatusInv /\ Owed /\ PluginFresh /\ [Next]_vars => PluginFresh'
<1> SUFFICES ASSUME StatusInv, Owed, PluginFresh, [Next]_vars PROVE PluginFresh'
  OBVIOUS
<1>1. CASE UNCHANGED vars
  BY <1>1
     DEF vars, StatusInv, Announced, PluginFresh, PluginFreshWhenSucceeded,
        Working, Stages
<1>2. CASE NothingToDo \/ Boot \/ Recreate \/ CreateFails \/ Refuse \/ BeginPass
  BY <1>2
     DEF NothingToDo, Boot, Recreate, CreateFails, Refuse, BeginPass, StatusInv, Announced,
        PluginFresh, PluginFreshWhenSucceeded, Working, Stages
<1>3. CASE CreateNodeConfig
  BY <1>3, CreateFields
     DEF CreateNodeConfig, StatusInv, Announced, PluginFresh, PluginFreshWhenSucceeded,
        Working, Stages
<1>4. CASE DescribeNodeConfig
  BY <1>4, DescribeFields
     DEF DescribeNodeConfig, StatusInv, Announced, PluginFresh, PluginFreshWhenSucceeded,
        Working, Stages
<1>5. CASE RefuseSpec
  BY <1>5, UpdateStatusType
     DEF RefuseSpec, EndPass, Reason, StatusInv, Announced, PluginFresh,
        PluginFreshWhenSucceeded, Working, Stages
<1>6. CASE MarkInProgress
  BY <1>6, UpdateStatusType
     DEF MarkInProgress, Reason, StatusInv, Announced, PluginFresh, PluginFreshWhenSucceeded,
        Working, Stages
<1>7. CASE Report
  BY <1>7, UpdateStatusType
     DEF Report, EndPass, Reason, StatusInv, Announced, PluginFresh,
        PluginFreshWhenSucceeded, Working, Stages
<1>8. CASE StatusUpdateFails
  BY <1>8
     DEF StatusUpdateFails, EndPass, StatusInv, Announced, PluginFresh,
        PluginFreshWhenSucceeded, Working, Stages
<1>9. CASE Drain \/ DrainFails \/ Uncordon \/ UncordonFails
  <2>1. UNCHANGED <<cr, pluginStale>> /\ (err' = err \/ err' = TRUE)
    BY <1>9 DEF Drain, DrainFails, Uncordon, UncordonFails
  <2>0. "plugin" \notin undone' => "plugin" \notin undone
    BY <1>9 DEF Drain, DrainFails, Uncordon, UncordonFails
  <2>2. pc' \in {"uncordon", "report"} => pc = "uncordon" \/ err' = TRUE
    BY <1>9 DEF Drain, DrainFails, Uncordon, UncordonFails
  <2> QED
    BY <2>0, <2>1, <2>2 DEF PluginFresh, PluginFreshWhenSucceeded, StatusInv, TypeOK
<1>10. CASE ApplySpec \/ InventoryFails
  BY <1>10
     DEF ApplySpec, InventoryFails, Stages, StatusInv, Announced, PluginFresh,
        PluginFreshWhenSucceeded, Working
<1>11. CASE \E c \in Installed : CardStep(c) \/ CardFails(c)
  BY <1>11, CardFrame
     DEF StatusInv, Announced, PluginFresh, PluginFreshWhenSucceeded, Working, Stages
<1>12. CASE RestartDevicePlugin \/ RestartFails
  BY <1>12
     DEF RestartDevicePlugin, RestartFails, StatusInv, Announced, PluginFresh,
        PluginFreshWhenSucceeded, Working, Stages
<1>13. CASE \E s \in Propagated : SetSpec(s)
  <2> SUFFICES ASSUME NEW s \in Propagated, SetSpec(s) PROVE PluginFresh'
    BY <1>13
  <2>1. /\ cr'.reason = cr.reason /\ cr'.generation # cr'.observed
        /\ UNCHANGED <<pluginStale, cordoned, pc, err, spec, undone>>
    BY SetSpecFields DEF SetSpec, StatusInv
  <2> QED
    BY <2>1 DEF PluginFresh, PluginFreshWhenSucceeded
<1>14. CASE DeleteNodeConfig
  BY <1>14, NoObject
     DEF DeleteNodeConfig, StatusInv, Announced, PluginFresh, PluginFreshWhenSucceeded,
        Working, Stages
<1>15. CASE \E c \in Installed : ResetVFs(c) \/ PfBbConfigDies(c)
  BY <1>15
     DEF ResetVFs, PfBbConfigDies, StatusInv, Announced, PluginFresh,
        PluginFreshWhenSucceeded, Working, Stages
<1>16. CASE Crash \/ Reboot
  BY <1>16
     DEF Crash, Reboot, EndPass, StatusInv, Announced, PluginFresh, PluginFreshWhenSucceeded,
        Working, Stages
<1>17. CASE \E w \in Stray : LoseLease(w)
  BY <1>17, LoseLeaseFrame DEF StatusInv, Announced, PluginFresh, PluginFreshWhenSucceeded, Working, Stages
<1>18. CASE \E w \in Stray : LeftBehind(w)
  BY <1>18, LeftBehindFrame DEF Aside, StatusInv, Announced, PluginFresh, PluginFreshWhenSucceeded, Working, Stages
<1> QED
  BY <1>1, <1>2, <1>3, <1>4, <1>5, <1>6, <1>7, <1>8, <1>9, <1>10, <1>11, <1>12, <1>13, <1>14,
     <1>15, <1>16, <1>17, <1>18
     DEF Next, Progress, Failure, Environment

LEMMA UncordonedStep == StatusInv /\ Owed /\ Uncordoned /\ [Next]_vars => Uncordoned'
<1> SUFFICES ASSUME StatusInv, Owed, Uncordoned, [Next]_vars PROVE Uncordoned'
  OBVIOUS
<1>1. CASE UNCHANGED vars
  BY <1>1
     DEF vars, StatusInv, FreshObject, Announced, Uncordoned,
        UncordonedWhenApplied, Applied, Working, Stages
<1>2. CASE NothingToDo \/ Boot \/ Recreate \/ CreateFails \/ Refuse \/ BeginPass
  BY <1>2
     DEF NothingToDo, Boot, Recreate, CreateFails, Refuse, BeginPass, StatusInv, FreshObject,
        Announced, Uncordoned, UncordonedWhenApplied, Applied, Working, Stages
<1>3. CASE CreateNodeConfig
  BY <1>3, CreateFields
     DEF CreateNodeConfig, StatusInv, FreshObject, Announced, Uncordoned,
        UncordonedWhenApplied, Applied, Working, Stages
<1>4. CASE DescribeNodeConfig
  BY <1>4, DescribeFields
     DEF DescribeNodeConfig, StatusInv, FreshObject, Announced, Uncordoned,
        UncordonedWhenApplied, Applied, Working, Stages
<1>5. CASE RefuseSpec
  BY <1>5, UpdateStatusType
     DEF RefuseSpec, EndPass, Reason, StatusInv, FreshObject, Announced, Uncordoned,
        UncordonedWhenApplied, Applied, Working, Stages
<1>6. CASE MarkInProgress
  BY <1>6, UpdateStatusType
     DEF MarkInProgress, Reason, StatusInv, FreshObject, Announced, Uncordoned,
        UncordonedWhenApplied, Applied, Working, Stages
<1>7. CASE Report
  BY <1>7, UpdateStatusType
     DEF Report, EndPass, Reason, StatusInv, FreshObject, Announced, Uncordoned,
        UncordonedWhenApplied, Applied, Working, Stages
<1>8. CASE StatusUpdateFails
  BY <1>8
     DEF StatusUpdateFails, EndPass, StatusInv, FreshObject, Announced, Uncordoned,
        UncordonedWhenApplied, Applied, Working, Stages
<1>9. CASE Drain \/ DrainFails \/ Uncordon \/ UncordonFails
  BY <1>9
     DEF Drain, DrainFails, Uncordon, UncordonFails, StatusInv, FreshObject,
        Announced, Uncordoned, UncordonedWhenApplied, Applied, Working, Stages
<1>10. CASE ApplySpec \/ InventoryFails
  BY <1>10
     DEF ApplySpec, InventoryFails, Stages, StatusInv, FreshObject, Announced, Uncordoned,
        UncordonedWhenApplied, Applied, Working
<1>11. CASE \E c \in Installed : CardStep(c) \/ CardFails(c)
  BY <1>11, CardFrame
     DEF StatusInv, FreshObject, Announced, Uncordoned, UncordonedWhenApplied, Applied,
        Working, Stages
<1>12. CASE RestartDevicePlugin \/ RestartFails
  BY <1>12
     DEF RestartDevicePlugin, RestartFails, StatusInv, FreshObject, Announced,
        Uncordoned, UncordonedWhenApplied, Applied, Working, Stages
<1>13. CASE \E s \in Propagated : SetSpec(s)
  <2> SUFFICES ASSUME NEW s \in Propagated, SetSpec(s) PROVE Uncordoned'
    BY <1>13
  <2>1. /\ cr'.reason = cr.reason /\ cr'.generation # cr'.observed
        /\ UNCHANGED <<pluginStale, cordoned, pc, err, spec, undone>>
    BY SetSpecFields DEF SetSpec, StatusInv
  <2> QED
    BY <2>1 DEF Uncordoned, UncordonedWhenApplied, Applied
<1>14. CASE DeleteNodeConfig
  BY <1>14, NoObject
     DEF DeleteNodeConfig, StatusInv, FreshObject, Announced, Uncordoned,
        UncordonedWhenApplied, Applied, Working, Stages
<1>15. CASE \E c \in Installed : ResetVFs(c) \/ PfBbConfigDies(c)
  BY <1>15
     DEF ResetVFs, PfBbConfigDies, StatusInv, FreshObject, Announced, Uncordoned,
        UncordonedWhenApplied, Applied, Working, Stages
<1>16. CASE Crash \/ Reboot
  BY <1>16
     DEF Crash, Reboot, EndPass, StatusInv, FreshObject, Announced, Uncordoned,
        UncordonedWhenApplied, Applied, Working, Stages
<1>17. CASE \E w \in Stray : LoseLease(w)
  BY <1>17, LoseLeaseFrame DEF StatusInv, FreshObject, Announced, Uncordoned, UncordonedWhenApplied, Applied,
         Working, Stages
<1>18. CASE \E w \in Stray : LeftBehind(w)
  BY <1>18, LeftBehindFrame DEF Aside, StatusInv, FreshObject, Announced, Uncordoned, UncordonedWhenApplied, Applied,
         Working, Stages
<1> QED
  BY <1>1, <1>2, <1>3, <1>4, <1>5, <1>6, <1>7, <1>8, <1>9, <1>10, <1>11, <1>12, <1>13, <1>14,
     <1>15, <1>16, <1>17, <1>18
     DEF Next, Progress, Failure, Environment

(* What is owed is cleared only when no worker is left. *)
LEMMA OwedStep == TypeOK /\ Owed /\ [Next]_vars => Owed'
<1> SUFFICES ASSUME TypeOK, Owed, [Next]_vars PROVE Owed'
  OBVIOUS
<1>0. NoWorker.at = "none"
  BY DEF NoWorker
<1>1. CASE UNCHANGED <<strays, undone>>
  BY <1>1 DEF Owed
<1>2. CASE UNCHANGED strays /\ Alone
  BY <1>0, <1>2 DEF Owed, Alone
<1>3. CASE strays' = [w \in Stray |-> NoWorker]
  BY <1>0, <1>3 DEF Owed
<1>4. CASE Crash \/ Reboot
  BY <1>3, <1>4 DEF Crash, Reboot
<1>5. ASSUME NEW w \in Stray, LoseLease(w) PROVE Owed'
  <2>1. PICK left : strays' = [strays EXCEPT ![w] = [at |-> pc, spec |-> spec, left |-> left]]
    BY <1>5 DEF LoseLease
  <2>2. /\ strays'[w].at = pc /\ strays'[w].spec = spec
        /\ \A v \in Stray \ {w} : strays'[v] = strays[v]
    BY <2>1 DEF TypeOK
  <2> QED
    BY <1>5, <2>2, LoseLeaseFrame DEF Owed
<1>6. CASE \E w \in Stray : LeftBehind(w)
  BY <1>6, LeftBehindFrame
<1>7. CASE RestartDevicePlugin \/ Uncordon
  BY <1>1, <1>2, <1>7 DEF RestartDevicePlugin, Uncordon
<1>8. CASE NothingToDo \/ Boot \/ Recreate \/ CreateNodeConfig \/ DescribeNodeConfig \/ Refuse
           \/ BeginPass \/ RefuseSpec \/ MarkInProgress \/ Drain \/ ApplySpec \/ Report
  BY <1>1, <1>8 DEF NothingToDo, Boot, Recreate, CreateNodeConfig, DescribeNodeConfig,
                    Refuse, BeginPass, RefuseSpec, MarkInProgress, Drain, ApplySpec, Report
<1>9. CASE \E c \in Installed : CardStep(c) \/ CardFails(c)
  BY <1>1, <1>9, CardFrame
<1>10. CASE CreateFails \/ StatusUpdateFails \/ DrainFails \/ InventoryFails \/ RestartFails
            \/ UncordonFails
  BY <1>1, <1>10 DEF CreateFails, StatusUpdateFails, DrainFails, InventoryFails, RestartFails,
                     UncordonFails
<1>11. CASE DeleteNodeConfig \/ (\E s \in Propagated : SetSpec(s))
            \/ (\E c \in Installed : ResetVFs(c) \/ PfBbConfigDies(c))
  BY <1>1, <1>11 DEF SetSpec, DeleteNodeConfig, ResetVFs, PfBbConfigDies
<1> QED
  BY <1>1, <1>4, <1>5, <1>6, <1>7, <1>8, <1>9, <1>10, <1>11
     DEF Next, Progress, Failure, Environment, vars

-----------------------------------------------------------------------------
(* The cards *)

LEMMA CurrentUnique ==
  ASSUME TypeOK, NEW c \in todo, NEW d \in todo, Current(c), Current(d)
  PROVE  c = d
<1>1. c \in Nat /\ d \in Nat
  BY CardAssumption DEF TypeOK
<1> QED
  BY <1>1 DEF Current

(* The fields that the calls leave on a card. *)
LEMMA CardFields ==
  ASSUME TypeOK, NEW c \in Installed
  PROVE  /\ Stopped(c).vfs = hw[c].vfs /\ Stopped(c).bound = hw[c].bound
         /\ WithoutVFs(c).vfs = 0 /\ WithoutVFs(c).bound = FALSE
         /\ AfterFLR(c).vfs = hw[c].vfs /\ AfterFLR(c).bound = hw[c].bound
         /\ Initialized(spec, c).vfs = hw[c].vfs /\ Initialized(spec, c).bound = hw[c].bound
         /\ Initialized(spec, c).cfg = spec.pfs[c]
         /\ Initialized(spec, c).alive <=> spec.pfs[c] \in VfioPci
         /\ WithVFs(spec, c).vfs = RequestedVFs(spec, c) /\ WithVFs(spec, c).bound = FALSE
         /\ WithVFs(spec, c).cfg = hw[c].cfg /\ WithVFs(spec, c).alive = hw[c].alive
         /\ Bound(c).vfs = hw[c].vfs /\ Bound(c).bound = TRUE
         /\ Bound(c).cfg = hw[c].cfg /\ Bound(c).alive = hw[c].alive
<1>1. hw[c] \in Hardware
  BY CardTypes
<1>2. /\ Stopped(c).vfs = hw[c].vfs /\ Stopped(c).bound = hw[c].bound
      /\ WithoutVFs(c).vfs = 0 /\ WithoutVFs(c).bound = FALSE
      /\ AfterFLR(c).vfs = hw[c].vfs /\ AfterFLR(c).bound = hw[c].bound
  BY <1>1 DEF Hardware, Stopped, WithoutVFs, AfterFLR
<1>3. /\ Initialized(spec, c).vfs = hw[c].vfs /\ Initialized(spec, c).bound = hw[c].bound
      /\ Initialized(spec, c).cfg = spec.pfs[c]
      /\ Initialized(spec, c).alive <=> spec.pfs[c] \in VfioPci
  BY <1>1 DEF Hardware, Initialized
<1>4. /\ WithVFs(spec, c).vfs = RequestedVFs(spec, c) /\ WithVFs(spec, c).bound = FALSE
      /\ WithVFs(spec, c).cfg = hw[c].cfg /\ WithVFs(spec, c).alive = hw[c].alive
  BY <1>1 DEF Hardware, WithVFs
<1>5. /\ Bound(c).vfs = hw[c].vfs /\ Bound(c).bound = TRUE
      /\ Bound(c).cfg = hw[c].cfg /\ Bound(c).alive = hw[c].alive
  BY <1>1 DEF Hardware, Bound
<1> QED
  BY <1>2, <1>3, <1>4, <1>5

LEMMA WorkedCard ==
  ASSUME TypeOK, NEW c \in Installed, NEW card, Work(c, card)
  PROVE  hw'[c] = card /\ \A d \in Installed \ {c} : hw'[d] = hw[d]
BY DEF Work, TypeOK

(* Each stage works on one card. *)
LEMMA OtherCards ==
  ASSUME TypeOK, NEW c \in Installed, CardStep(c) \/ CardFails(c),
         NEW d \in Installed, d # c
  PROVE  /\ hw'[d] = hw[d]
         /\ d \in touched' <=> d \in touched
         /\ d \in disturbed' <=> d \in disturbed
         /\ d \in adrift' <=> d \in adrift
<1>1. CASE StopPfBBConfig(c)
  BY <1>1, WorkedCard DEF StopPfBBConfig
<1>2. CASE RemoveVFs(c) \/ FlrReset(c)
  BY <1>2, WorkedCard DEF RemoveVFs, FlrReset, NextStage, CardDone
<1>3. CASE InitializePfBBConfig(c) \/ ChangeAmountOfVFs(c)
  BY <1>3, WorkedCard DEF InitializePfBBConfig, ChangeAmountOfVFs, NextStage
<1>4. CASE BindVFs(c)
  BY <1>4, WorkedCard DEF BindVFs, CardDone
<1>5. CASE DriverRejected(c)
  BY <1>5 DEF DriverRejected, Abort
<1>6. CASE CardFails(c)
  BY <1>6, WorkedCard DEF CardFails, Abort
<1> QED
  BY <1>1, <1>2, <1>3, <1>4, <1>5, <1>6 DEF CardStep

HardwareFault ==
  \/ \E c \in Installed : ResetVFs(c) \/ PfBbConfigDies(c)
  \/ Crash
  \/ Reboot

(* The environment takes VFs and processes away and marks the card. *)
LEMMA FaultFrame ==
  ASSUME TypeOK, HardwareFault, NEW d \in Installed
  PROVE  /\ touched' = touched /\ UNCHANGED <<cr, adrift>>
         /\ d \in disturbed => d \in disturbed'
         /\ d \notin disturbed' => hw'[d] = hw[d]
         /\ hw'[d].vfs = hw[d].vfs \/ hw'[d].vfs = 0
         /\ (hw'[d].vfs = hw[d].vfs /\ hw'[d].bound = hw[d].bound) \/ hw'[d].bound = FALSE
<1>1. hw[d] \in Hardware /\ hw \in [Installed -> Hardware]
  BY DEF TypeOK
<1>2. ASSUME NEW c \in Installed, ResetVFs(c)
      PROVE  /\ touched' = touched /\ UNCHANGED <<cr, adrift>> /\ disturbed' = disturbed \cup {c}
             /\ d # c => hw'[d] = hw[d]
             /\ d = c => hw'[d].vfs = 0 /\ hw'[d].bound = FALSE
  BY <1>1, <1>2 DEF ResetVFs, Hardware
<1>3. ASSUME NEW c \in Installed, PfBbConfigDies(c)
      PROVE  /\ touched' = touched /\ UNCHANGED <<cr, adrift>> /\ disturbed' = disturbed \cup {c}
             /\ d # c => hw'[d] = hw[d]
             /\ hw'[d].vfs = hw[d].vfs /\ hw'[d].bound = hw[d].bound
  BY <1>1, <1>3 DEF PfBbConfigDies, Hardware
<1>4. ASSUME Crash
      PROVE  /\ touched' = touched /\ UNCHANGED <<cr, adrift>>
             /\ d \in disturbed' <=> d \in disturbed \/ hw[d].alive
             /\ ~hw[d].alive => hw'[d] = hw[d]
             /\ hw'[d].vfs = hw[d].vfs /\ hw'[d].bound = hw[d].bound
  <2>1. hw'[d] = [hw[d] EXCEPT !.alive = FALSE]
    BY <1>4 DEF Crash
  <2>2. ~hw[d].alive => hw'[d] = hw[d]
    BY <1>1, <2>1 DEF Hardware
  <2>3. hw'[d].vfs = hw[d].vfs /\ hw'[d].bound = hw[d].bound
    BY <1>1, <2>1 DEF Hardware
  <2> QED
    BY <1>4, <2>2, <2>3 DEF Crash
<1>5. ASSUME Reboot
      PROVE  touched' = touched /\ UNCHANGED <<cr, adrift>> /\ disturbed' = Installed
             /\ hw'[d].vfs = 0 /\ hw'[d].bound = FALSE
  BY <1>5 DEF Reboot, Blank
<1> QED
  BY <1>2, <1>3, <1>4, <1>5 DEF HardwareFault

-----------------------------------------------------------------------------
(* The kinds of steps, for the invariants about the cards *)

Marks == <<touched, disturbed, adrift>>

USE DEF Marks

ObjectOnly == UNCHANGED <<hw, prev, Marks, pc, spec, inv, required, todo, err>>

OutsidePass ==
  UNCHANGED <<hw, prev, Marks>> /\ pc' \in {"idle", "create", "describe", "refuse"}

NextCall ==
  /\ UNCHANGED <<hw, prev, Marks, spec, required, todo, err>>
  /\ \/ pc = "drain" /\ pc' = "apply"
     \/ pc = "restart" /\ pc' = "uncordon"
     \/ pc = "uncordon" /\ pc' = "report"

CallFails ==
  /\ UNCHANGED <<hw, prev, Marks, spec, required>>
  /\ pc \in Working
  /\ pc' \in {"uncordon", "report"}
  /\ err' = TRUE

PassEnds ==
  /\ UNCHANGED <<hw, disturbed, adrift>>
  /\ pc = "report"
  /\ pc' = "idle"
  /\ prev' = Remembered
  /\ touched' = IF err THEN touched ELSE touched \ required

LEMMA StepKinds ==
  [Next]_vars => \/ ObjectOnly
                 \/ OutsidePass
                 \/ BeginPass
                 \/ MarkInProgress
                 \/ NextCall
                 \/ CallFails
                 \/ ApplySpec
                 \/ \E c \in Installed : CardStep(c) \/ CardFails(c)
                 \/ PassEnds
                 \/ HardwareFault
                 \/ \E w \in Stray : LoseLease(w)
                 \/ \E w \in Stray : LeftBehind(w)
<1> SUFFICES ASSUME [Next]_vars
             PROVE  \/ ObjectOnly
                    \/ OutsidePass
                    \/ BeginPass
                    \/ MarkInProgress
                    \/ NextCall
                    \/ CallFails
                    \/ ApplySpec
                    \/ \E c \in Installed : CardStep(c) \/ CardFails(c)
                    \/ PassEnds
                    \/ HardwareFault
                    \/ \E w \in Stray : LoseLease(w)
                    \/ \E w \in Stray : LeftBehind(w)
  OBVIOUS
<1>1. CASE UNCHANGED vars \/ DeleteNodeConfig \/ \E s \in Propagated : SetSpec(s)
  BY <1>1 DEF ObjectOnly, vars, DeleteNodeConfig, SetSpec
<1>2. CASE NothingToDo \/ Boot \/ Recreate \/ CreateNodeConfig \/ CreateFails \/ DescribeNodeConfig
  BY <1>2 DEF OutsidePass, NothingToDo, Boot, Recreate, CreateNodeConfig, CreateFails, DescribeNodeConfig
<1>3. CASE Refuse \/ RefuseSpec
  BY <1>3 DEF OutsidePass, Refuse, RefuseSpec
<1>4. CASE Drain \/ RestartDevicePlugin \/ Uncordon
  BY <1>4 DEF NextCall, Drain, RestartDevicePlugin, Uncordon
<1>5. CASE DrainFails \/ InventoryFails \/ RestartFails \/ UncordonFails
  BY <1>5 DEF CallFails, Working, DrainFails, InventoryFails, RestartFails, UncordonFails
<1>6. CASE Report
  BY <1>6 DEF PassEnds, Report
<1>7. CASE StatusUpdateFails
  BY <1>7 DEF PassEnds, OutsidePass, StatusUpdateFails
<1> QED
  BY <1>1, <1>2, <1>3, <1>4, <1>5, <1>6, <1>7
     DEF Next, Progress, Failure, Environment, HardwareFault

-----------------------------------------------------------------------------
(* The invariants about the cards, one lemma each *)

LEMMA FaultKeepsPass ==
  HardwareFault => \/ UNCHANGED <<pc, spec, inv, required, todo, err, prev>>
                   \/ pc' = "down" /\ prev' = NoPFs
BY DEF HardwareFault, ResetVFs, PfBbConfigDies, Crash, Reboot

LEMMA SkippedStep == StatusInv /\ Skipped /\ [Next]_vars => Skipped'
<1> SUFFICES ASSUME StatusInv, Skipped, [Next]_vars PROVE Skipped'
  OBVIOUS
<1> USE DEF Skipped, Working, Stages
<1>1. CASE ObjectOnly \/ OutsidePass
  BY <1>1 DEF ObjectOnly, OutsidePass
<1>2. CASE BeginPass \/ PassEnds
  BY <1>2 DEF BeginPass, PassEnds
<1>3. CASE MarkInProgress
  BY <1>3 DEF MarkInProgress, Changed, UpdateRequired
<1>4. CASE NextCall \/ CallFails
  BY <1>4 DEF NextCall, CallFails
<1>5. CASE ApplySpec
  BY <1>5 DEF ApplySpec
<1>6. CASE \E c \in Installed : CardStep(c) \/ CardFails(c)
  BY <1>6, CardFrame
<1>7. CASE HardwareFault
  BY <1>7, FaultKeepsPass
<1>8. CASE \E w \in Stray : LoseLease(w)
  BY <1>8, LoseLeaseFrame
<1>9. CASE \E w \in Stray : LeftBehind(w)
  BY <1>9, LeftBehindType DEF Aside, StatusInv
<1> QED
  BY <1>1, <1>2, <1>3, <1>4, <1>5, <1>6, <1>7, <1>8, <1>9, StepKinds

LEMMA PartialStep == StatusInv /\ Owed /\ Partial /\ [Next]_vars => Partial'
<1> SUFFICES ASSUME StatusInv, Owed, Partial, [Next]_vars PROVE Partial'
  OBVIOUS
<1>1. CASE pc' \notin Stages \ {"stop"}
  BY <1>1 DEF Partial, Stages
<1>2. CASE ObjectOnly
  BY <1>2 DEF Partial, ObjectOnly, Current, Stages
<1>3. CASE HardwareFault
  <2>1. CASE UNCHANGED <<pc, spec, inv, required, todo, err, prev>>
    <3> SUFFICES ASSUME NEW c \in todo, pc \in Stages, Current(c)
                 PROVE  /\ pc # "stop" => c \in touched'
                        /\ adrift' = adrift
                        /\ pc \in {"reset", "init"} /\ c \notin adrift => hw'[c].vfs = 0
                        /\ c \notin disturbed' => c \notin disturbed /\ hw'[c] = hw[c]
      BY <2>1 DEF Partial, Current, Stages
    <3> QED
      BY <1>3, FaultFrame DEF Partial, StatusInv, TypeOK
  <2> QED
    BY <1>1, <1>3, <2>1, FaultKeepsPass DEF Stages
<1>4. ASSUME NEW c \in Installed, CardStep(c) PROVE Partial'
  <2>1. CASE pc' \in {"stop", "restart", "uncordon"}
    BY <1>1, <2>1 DEF Stages
  <2>2. ASSUME todo' = todo, c \in todo, Current(c), spec' = spec, pc' # "stop",
               /\ c \in touched'
               /\ pc' \in {"reset", "init"} /\ c \notin adrift' => hw'[c].vfs = 0
               /\ pc' \in {"vfs", "bind"} /\ c \notin (disturbed \cup adrift)' =>
                    hw'[c].cfg = spec.pfs[c] /\ (hw'[c].alive <=> spec.pfs[c] \in VfioPci)
               /\ pc' = "bind" /\ c \notin (disturbed \cup adrift)' => hw'[c].vfs = VFAmount[spec.pfs[c]]
        PROVE  Partial'
    <3>1. \A d \in todo : Current(d) => d = c
      BY <2>2, CurrentUnique DEF StatusInv
    <3> QED
      BY <2>2, <3>1 DEF Partial, Current
  <2>3. CardStep(c) => c \in todo /\ Current(c)
    BY DEF CardStep, StopPfBBConfig, RemoveVFs, FlrReset, InitializePfBBConfig,
           ChangeAmountOfVFs, BindVFs, DriverRejected, Current
  <2>4. /\ pc \in Stages
        /\ pc # "stop" => c \in touched
        /\ pc \in {"reset", "init"} /\ c \notin adrift => hw[c].vfs = 0
        /\ pc \in {"vfs", "bind"} /\ c \notin disturbed \cup adrift =>
             hw[c].cfg = spec.pfs[c] /\ (hw[c].alive <=> spec.pfs[c] \in VfioPci)
    BY <1>4, <2>3, CardFrame DEF Partial
  <2>5. CASE StopPfBBConfig(c)
    BY <1>4, <2>2, <2>3, <2>5 DEF StopPfBBConfig
  <2>6. CASE RemoveVFs(c)
    <3>1. hw'[c].vfs = 0
      <4>1. hw'[c] = WithoutVFs(c)
        BY <2>6, WorkedCard DEF RemoveVFs, StatusInv
      <4>2. TypeOK
        BY DEF StatusInv
      <4> QED
        BY <2>6, <4>1, <4>2, CardFields DEF RemoveVFs
    <3>2. /\ UNCHANGED <<todo, spec, touched, disturbed>>
          /\ pc = "remove" /\ pc' = "reset"
      BY <2>6 DEF RemoveVFs
    <3> QED
      BY <1>4, <2>2, <2>3, <2>4, <3>1, <3>2
  <2>7. CASE FlrReset(c)
    <3>1. c \notin adrift => hw'[c].vfs = 0
      <4>1. hw'[c] = AfterFLR(c)
        BY <2>7, WorkedCard DEF FlrReset, StatusInv
      <4>2. TypeOK
        BY DEF StatusInv
      <4> QED
        BY <2>4, <2>7, <4>1, <4>2, CardFields DEF FlrReset
    <3>2. CASE Requested(spec, c)
      <4>1. UNCHANGED <<todo, spec, Marks>> /\ pc = "reset" /\ pc' = "init"
        BY <2>7, <3>2 DEF FlrReset, NextStage
      <4> QED
        BY <1>4, <2>2, <2>3, <2>4, <3>1, <4>1
    <3> QED
      BY <2>1, <2>7, <3>2 DEF FlrReset, CardDone
  <2>8. CASE InitializePfBBConfig(c)
    <3>1. hw'[c].cfg = spec.pfs[c] /\ (hw'[c].alive <=> spec.pfs[c] \in VfioPci)
      <4>1. hw'[c] = Initialized(spec, c)
        BY <2>8, WorkedCard DEF InitializePfBBConfig, StatusInv
      <4>2. TypeOK
        BY DEF StatusInv
      <4> QED
        BY <2>8, <4>1, <4>2, CardFields DEF InitializePfBBConfig
    <3>2. /\ UNCHANGED <<todo, spec, Marks>>
          /\ pc = "init" /\ pc' = "vfs"
      BY <2>8 DEF InitializePfBBConfig, NextStage
    <3> QED
      BY <1>4, <2>2, <2>3, <2>4, <3>1, <3>2
  <2>9. CASE ChangeAmountOfVFs(c)
    <3>1. /\ hw'[c].cfg = hw[c].cfg /\ hw'[c].alive = hw[c].alive
          /\ hw'[c].vfs = VFAmount[spec.pfs[c]]
      <4>1. hw'[c] = WithVFs(spec, c)
        BY <2>9, WorkedCard DEF ChangeAmountOfVFs, StatusInv
      <4>2. TypeOK
        BY DEF StatusInv
      <4>3. RequestedVFs(spec, c) = VFAmount[spec.pfs[c]]
        BY <1>4, <2>3, <2>9 DEF ChangeAmountOfVFs, StatusInv, StagesOfRequested, RequestedVFs
      <4> QED
        BY <2>9, <4>1, <4>2, <4>3, CardFields DEF ChangeAmountOfVFs
    <3>2. /\ UNCHANGED <<todo, spec, Marks>>
          /\ pc = "vfs" /\ pc' = "bind"
      BY <2>9 DEF ChangeAmountOfVFs, NextStage
    <3> QED
      BY <1>4, <2>2, <2>3, <2>4, <3>1, <3>2
  <2>10. CASE BindVFs(c) \/ DriverRejected(c)
    BY <2>1, <2>10 DEF BindVFs, DriverRejected, CardDone, Abort
  <2> QED
    BY <1>4, <2>5, <2>6, <2>7, <2>8, <2>9, <2>10 DEF CardStep
<1>5. CASE \E c \in Installed : CardFails(c)
  BY <1>1, <1>5 DEF CardFails, Abort, Stages
<1>6. CASE OutsidePass \/ BeginPass \/ MarkInProgress \/ NextCall
  BY <1>1, <1>6 DEF OutsidePass, BeginPass, MarkInProgress, NextCall, Stages
<1>7. CASE CallFails \/ ApplySpec \/ PassEnds
  BY <1>1, <1>7 DEF CallFails, ApplySpec, PassEnds, Stages
<1>8. CASE \E w \in Stray : LoseLease(w)
  BY <1>1, <1>8, LoseLeaseFrame DEF Stages
<1>9. ASSUME NEW w \in Stray, LeftBehind(w) PROVE Partial'
  <2>1. /\ UNCHANGED <<pc, spec, todo, touched, disturbed>>
        /\ \A d \in Installed : d \notin adrift' => d \notin adrift /\ hw'[d] = hw[d]
    BY <1>9, LeftBehindFrame DEF Aside, StatusInv
  <2>2. todo \subseteq Installed
    BY DEF StatusInv, TypeOK
  <2> QED
    BY <2>1, <2>2 DEF Partial, Current
<1> QED
  BY <1>2, <1>3, <1>4, <1>5, <1>6, <1>7, <1>8, <1>9, StepKinds

(* What a finished card must be stays so while nobody works on it. *)
LEMMA AsSpecifiedKept ==
  ASSUME NEW d \in Installed, spec' = spec, AsSpecified(d),
         d \in disturbed \cup adrift => d \in (disturbed \cup adrift)',
         d \in adrift => d \in adrift',
         d \notin (disturbed \cup adrift)' => hw'[d] = hw[d],
         d \notin adrift' => hw'[d].vfs = hw[d].vfs \/ hw'[d].vfs = 0
  PROVE  AsSpecified(d)'
BY DEF AsSpecified, InForce, Requested

(* The card that leaves todo is as specified. *)
LEMMA CardDoneAsSpecified ==
  ASSUME StatusInv, Partial, NEW c \in Installed, Current(c),
         \/ FlrReset(c) /\ ~Requested(spec, c)
         \/ BindVFs(c)
  PROVE  AsSpecified(c)'
<1>0. TypeOK /\ c \in todo
  BY DEF StatusInv, Current
<1>1. CASE FlrReset(c) /\ ~Requested(spec, c)
  <2>1. hw'[c] = AfterFLR(c) /\ spec' = spec
    BY <1>0, <1>1, WorkedCard DEF FlrReset, CardDone
  <2>2. c \notin adrift => hw[c].vfs = 0
    BY <1>0, <1>1 DEF FlrReset, Partial, Stages
  <2>3. c \notin adrift' => hw'[c].vfs = 0
    BY <1>0, <1>1, <2>1, <2>2, CardFields DEF FlrReset, CardDone
  <2> QED
    BY <1>1, <2>1, <2>3 DEF AsSpecified, Requested
<1>2. CASE BindVFs(c)
  <2>1. hw'[c] = Bound(c) /\ spec' = spec /\ UNCHANGED <<disturbed, adrift>>
    BY <1>0, <1>2, WorkedCard DEF BindVFs, CardDone
  <2>2. Requested(spec, c)
    BY <1>0, <1>2 DEF BindVFs, StatusInv, StagesOfRequested
  <2>3. /\ hw'[c].cfg = hw[c].cfg
        /\ hw'[c].vfs = hw[c].vfs
        /\ hw'[c].bound = TRUE
        /\ hw'[c].alive = hw[c].alive
    <3>1. /\ Bound(c).cfg = hw[c].cfg
          /\ Bound(c).vfs = hw[c].vfs
          /\ Bound(c).bound = TRUE
          /\ Bound(c).alive = hw[c].alive
      BY <1>0, CardFields
    <3> QED
      BY <2>1, <3>1
  <2>4. ASSUME c \notin disturbed \cup adrift
        PROVE  InForce(c, spec.pfs[c])'
    <3>1. pc = "bind" /\ pc \in Stages
      BY <1>2 DEF BindVFs, Stages
    <3>2. /\ hw[c].cfg = spec.pfs[c]
          /\ hw[c].vfs = VFAmount[spec.pfs[c]]
          /\ hw[c].alive <=> spec.pfs[c] \in VfioPci
      BY <1>0, <2>4, <3>1 DEF Partial
    <3>3. /\ hw'[c].cfg = spec'.pfs[c]
          /\ hw'[c].vfs = VFAmount[spec'.pfs[c]]
          /\ hw'[c].alive <=> spec'.pfs[c] \in VfioPci
      BY <2>1, <2>3, <3>2
    <3> QED
      BY <2>3, <3>3 DEF InForce
  <2>5. c \notin (disturbed \cup adrift)' => InForce(c, spec.pfs[c])'
    BY <2>1, <2>4
  <2> QED
    BY <2>1, <2>2, <2>5 DEF AsSpecified, Requested
<1> QED
  BY <1>1, <1>2

LEMMA DoneStep == StatusInv /\ Owed /\ Partial /\ Done /\ [Next]_vars => Done'
<1> SUFFICES ASSUME StatusInv, Owed, Partial, Done, [Next]_vars PROVE Done'
  OBVIOUS
<1>0. TypeOK /\ required \subseteq Installed
  BY DEF StatusInv, TypeOK
<1>1. CASE err' \/ pc' \notin {"restart", "uncordon", "report"} \cup Stages
  BY <1>1 DEF Done
<1>2. CASE ObjectOnly
  BY <1>2 DEF ObjectOnly, Done, AsSpecified, InForce, Requested, Stages
<1>3. CASE NextCall
  <2>1. CASE pc' = "apply"
    BY <1>1, <2>1 DEF Stages
  <2>2. CASE pc' # "apply"
    BY <1>3, <2>2 DEF NextCall, Done, AsSpecified, InForce, Requested, Stages
  <2> QED
    BY <2>1, <2>2
<1>4. CASE ApplySpec
  <2>1. ASSUME NEW c \in required, c \notin todo' PROVE AsSpecified(c)'
    <3>1. ~Requested(spec, c) /\ ~(hw[c].vfs > 0)
      BY <1>4, <2>1 DEF ApplySpec
    <3>2. hw[c].vfs \in Nat
      BY <1>0, <2>1, CardTypes DEF Hardware
    <3> QED
      BY <1>4, <3>1, <3>2 DEF ApplySpec, AsSpecified, Requested
  <2> QED
    BY <1>4, <2>1 DEF ApplySpec, Done, Stages
<1>5. ASSUME NEW c \in Installed, CardStep(c), ~err' PROVE Done'
  <2>1. /\ pc \in Stages /\ Current(c) /\ c \in todo
        /\ UNCHANGED <<required, spec, err>> /\ pc' \in Stages \cup {"restart"}
    BY <1>5, CardFrame DEF Current
  <2>2. ASSUME NEW d \in required \ todo PROVE AsSpecified(d)'
    <3>1. AsSpecified(d) /\ d # c /\ d \in Installed
      BY <1>0, <1>5, <2>1, <2>2 DEF Done
    <3>2. /\ hw'[d] = hw[d]
          /\ d \in disturbed' <=> d \in disturbed
          /\ d \in adrift' <=> d \in adrift
      BY <1>0, <1>5, <3>1, OtherCards
    <3> QED
      BY <2>1, <3>1, <3>2, AsSpecifiedKept
  <2>3. CASE todo' = todo /\ pc' \in Stages
    BY <2>1, <2>2, <2>3 DEF Done, Stages
  <2>4. ASSUME AsSpecified(c)', CardDone(c) PROVE Done'
    <3>1. required' \ todo' \subseteq (required \ todo) \cup {c}
      BY <2>1, <2>4 DEF CardDone
    <3>2. pc' \notin Stages => todo' = {}
      BY <2>4 DEF CardDone, Stages
    <3> QED
      BY <2>2, <2>4, <3>1, <3>2 DEF Done
  <2>5. CASE StopPfBBConfig(c) \/ RemoveVFs(c) \/ InitializePfBBConfig(c) \/ ChangeAmountOfVFs(c)
    <3>1. todo' = todo /\ pc' \in Stages
      BY <2>5 DEF StopPfBBConfig, RemoveVFs, InitializePfBBConfig, ChangeAmountOfVFs, NextStage,
                  passVars, Stages
    <3> QED
      BY <2>3, <3>1
  <2>6. CASE FlrReset(c) /\ Requested(spec, c)
    BY <2>3, <2>6 DEF FlrReset, NextStage, Stages
  <2>7. CASE FlrReset(c) /\ ~Requested(spec, c)
    BY <2>1, <2>4, <2>7, CardDoneAsSpecified DEF FlrReset
  <2>8. CASE BindVFs(c)
    BY <2>1, <2>4, <2>8, CardDoneAsSpecified DEF BindVFs
  <2>9. CASE DriverRejected(c)
    BY <1>5, <2>9 DEF DriverRejected, Abort
  <2> QED
    BY <1>5, <2>5, <2>6, <2>7, <2>8, <2>9 DEF CardStep
<1>6. CASE \E c \in Installed : CardFails(c)
  BY <1>1, <1>6 DEF CardFails, Abort
<1>7. CASE HardwareFault
  <2>1. CASE UNCHANGED <<pc, spec, inv, required, todo, err, prev>>
    <3>1. ASSUME NEW d \in required, AsSpecified(d) PROVE AsSpecified(d)'
      BY <1>0, <1>7, <2>1, <3>1, FaultFrame, AsSpecifiedKept
    <3> QED
      BY <2>1, <3>1 DEF Done
  <2> QED
    BY <1>1, <1>7, <2>1, FaultKeepsPass DEF Stages
<1>8. CASE OutsidePass \/ BeginPass \/ MarkInProgress \/ CallFails \/ PassEnds
  BY <1>1, <1>8 DEF OutsidePass, BeginPass, MarkInProgress, CallFails, PassEnds, Stages
<1>9. ASSUME NEW w \in Stray, LoseLease(w) PROVE Done'
  <2>1. /\ UNCHANGED <<hw, spec, required, err, disturbed>>
        /\ adrift \subseteq adrift' /\ pc' = "report" /\ todo' = {}
    BY <1>9, LoseLeaseFrame
  <2>2. ASSUME ~err, NEW d \in required, d \notin adrift' PROVE AsSpecified(d)
    <3>1. pc \in {"restart", "uncordon"} \cup Stages
      BY <1>9, <2>2, LoseLeaseFrame
    <3>2. d \notin todo
      BY <1>9, <2>2, <3>1, LoseLeaseFrame DEF Done, Stages
    <3> QED
      BY <2>2, <3>1, <3>2 DEF Done
  <2> QED
    BY <2>1, <2>2 DEF Done, AsSpecified, InForce, Requested, Stages
<1>10. ASSUME NEW w \in Stray, LeftBehind(w) PROVE Done'
  <2>1. /\ UNCHANGED <<pc, spec, todo, required, err, disturbed>>
        /\ \A d \in Installed : d \notin adrift' => d \notin adrift /\ hw'[d] = hw[d]
    BY <1>0, <1>10, LeftBehindFrame DEF Aside
  <2>2. ASSUME NEW d \in required, AsSpecified(d) PROVE AsSpecified(d)'
    BY <1>0, <2>1, <2>2, AsSpecifiedKept
  <2> QED
    BY <2>1, <2>2 DEF Done
<1> QED
  BY <1>1, <1>2, <1>3, <1>4, <1>5, <1>6, <1>7, <1>8, <1>9, <1>10, StepKinds

LEMMA WaitingStep == StatusInv /\ Owed /\ Waiting /\ [Next]_vars => Waiting'
<1> SUFFICES ASSUME StatusInv, Owed, Waiting, [Next]_vars PROVE Waiting'
  OBVIOUS
<1>0. TypeOK /\ required \subseteq Installed /\ todo \subseteq Installed
  BY DEF StatusInv, TypeOK
<1>1. CASE pc' \notin {"begin", "drain", "apply"} \cup Stages
  BY <1>1 DEF Waiting
<1>2. CASE ObjectOnly
  BY <1>2 DEF ObjectOnly, Waiting, LostVFs
<1>3. CASE BeginPass
  BY <1>3 DEF BeginPass, Waiting, LiveVFs, Stages
<1>4. CASE MarkInProgress
  <2>1. ASSUME NEW c \in required', prev[c] = spec.pfs[c], prev[c] # NoConfig, c \notin adrift
        PROVE  hw[c].vfs # VFAmount[prev[c]] \/ ~hw[c].bound
    <3>1. c \in Installed /\ inv[c] # VFAmount[prev[c]]
      BY <1>4, <2>1 DEF MarkInProgress, Changed, UpdateRequired, RequestedVFs, Requested
    <3> QED
      BY <1>4, <2>1, <3>1 DEF MarkInProgress, Waiting
  <2> QED
    BY <1>4, <2>1 DEF MarkInProgress, Waiting, LostVFs, Stages
<1>5. CASE NextCall \/ ApplySpec
  BY <1>5 DEF NextCall, ApplySpec, Waiting, LostVFs, Stages
<1>6. ASSUME NEW c \in Installed, CardStep(c) PROVE Waiting'
  <2>1. pc \in Stages /\ UNCHANGED <<prev, spec>> /\ Current(c) /\ c \in todo
    BY <1>6, CardFrame DEF Current
  <2>2. \A d \in todo : LostVFs(d)
    BY <2>1 DEF Waiting
  <2>3. \A d \in todo \ {c} : LostVFs(d)'
    BY <1>0, <1>6, <2>1, <2>2, OtherCards DEF LostVFs
  <2>4. ASSUME todo' = todo \ {c} \/ todo' = {} PROVE Waiting'
    BY <1>6, <2>1, <2>3, <2>4, CardFrame DEF Waiting, Stages
  <2>5. ASSUME todo' = todo,
               \/ /\ hw'[c].vfs = hw[c].vfs /\ hw'[c].bound = hw[c].bound
                  /\ adrift' = adrift
               \/ hw'[c].bound = FALSE
        PROVE  Waiting'
    <3>1. LostVFs(c)'
      BY <2>1, <2>2, <2>5 DEF LostVFs
    <3> QED
      BY <1>6, <2>1, <2>3, <2>5, <3>1, CardFrame DEF Waiting, Stages
  <2>6. CASE StopPfBBConfig(c)
    <3>1. hw'[c] = Stopped(c) /\ todo' = todo /\ adrift' = adrift
      BY <1>0, <2>6, WorkedCard DEF StopPfBBConfig
    <3> QED
      BY <1>0, <2>5, <3>1, CardFields
  <2>7. CASE RemoveVFs(c)
    <3>1. hw'[c] = WithoutVFs(c) /\ todo' = todo
      BY <1>0, <2>7, WorkedCard DEF RemoveVFs
    <3> QED
      BY <1>0, <2>5, <3>1, CardFields
  <2>8. CASE FlrReset(c)
    <3>1. hw'[c] = AfterFLR(c) /\ todo' \in {todo, todo \ {c}} /\ adrift' = adrift
      BY <1>0, <2>8, WorkedCard DEF FlrReset, NextStage, CardDone
    <3> QED
      BY <1>0, <2>4, <2>5, <3>1, CardFields
  <2>9. CASE InitializePfBBConfig(c)
    <3>1. hw'[c] = Initialized(spec, c) /\ todo' = todo /\ adrift' = adrift
      BY <1>0, <2>9, WorkedCard DEF InitializePfBBConfig, NextStage
    <3> QED
      BY <1>0, <2>5, <3>1, CardFields
  <2>10. CASE ChangeAmountOfVFs(c)
    <3>1. hw'[c] = WithVFs(spec, c) /\ todo' = todo
      BY <1>0, <2>10, WorkedCard DEF ChangeAmountOfVFs, NextStage
    <3> QED
      BY <1>0, <2>5, <3>1, CardFields
  <2>11. CASE BindVFs(c) \/ DriverRejected(c)
    BY <2>4, <2>11 DEF BindVFs, DriverRejected, CardDone, Abort
  <2> QED
    BY <1>6, <2>6, <2>7, <2>8, <2>9, <2>10, <2>11 DEF CardStep
<1>7. CASE HardwareFault
  <2>1. CASE UNCHANGED <<pc, spec, inv, required, todo, err, prev>>
    <3>1. ASSUME NEW d \in Installed
          PROVE  /\ adrift' = adrift
                 /\ \/ hw'[d].vfs = hw[d].vfs /\ hw'[d].bound = hw[d].bound
                    \/ hw'[d].bound = FALSE
      BY <1>0, <1>7, FaultFrame
    <3> QED
      BY <1>0, <2>1, <3>1 DEF Waiting, LostVFs
  <2> QED
    BY <1>1, <1>7, <2>1, FaultKeepsPass DEF Stages
<1>8. CASE OutsidePass \/ CallFails \/ PassEnds \/ \E c \in Installed : CardFails(c)
  BY <1>1, <1>8 DEF OutsidePass, CallFails, PassEnds, CardFails, Abort, Stages
<1>9. CASE \E w \in Stray : LoseLease(w)
  BY <1>1, <1>9, LoseLeaseFrame DEF Stages
<1>10. ASSUME NEW w \in Stray, LeftBehind(w) PROVE Waiting'
  <2>1. /\ UNCHANGED <<pc, spec, inv, todo, required, prev>>
        /\ \A d \in Installed : d \notin adrift' => d \notin adrift /\ hw'[d] = hw[d]
    BY <1>0, <1>10, LeftBehindFrame DEF Aside
  <2> QED
    BY <1>0, <2>1 DEF Waiting, LostVFs
<1> QED
  BY <1>2, <1>3, <1>4, <1>5, <1>6, <1>7, <1>8, <1>9, <1>10, StepKinds

(* A pass without an error leaves every card as its spec asks. *)
LEMMA PassSucceeded ==
  ASSUME Inv, pc = "report", ~err, NEW d \in Installed
  PROVE  /\ Requested(spec, d) /\ d \notin (touched \ required) \cup disturbed \cup adrift
            => InForce(d, spec.pfs[d])
         /\ ~Requested(spec, d) /\ d \notin adrift => hw[d].vfs = 0
<1>1. CASE d \in required
  <2>1. AsSpecified(d)
    BY <1>1 DEF Inv, Done, Stages
  <2> QED
    BY <1>1, <2>1 DEF AsSpecified
<1>2. CASE d \notin required
  <2>1. prev[d] = spec.pfs[d] /\ prev[d] # NoConfig
    BY <1>2 DEF Inv, Skipped, Working
  <2> QED
    BY <1>2, <2>1 DEF Inv, PrevInForce, Requested
<1> QED
  BY <1>1, <1>2

LEMMA PrevInForceStep == Inv /\ [Next]_vars => PrevInForce'
<1> SUFFICES ASSUME Inv, [Next]_vars PROVE PrevInForce'
  OBVIOUS
<1>0. TypeOK /\ StatusInv
  BY DEF Inv, StatusInv
<1>1. CASE UNCHANGED <<hw, prev, Marks>>
  BY <1>1 DEF Inv, PrevInForce, InForce
<1>2. CASE ObjectOnly \/ OutsidePass \/ BeginPass \/ MarkInProgress
  BY <1>1, <1>2 DEF ObjectOnly, OutsidePass, BeginPass, MarkInProgress
<1>3. CASE NextCall \/ CallFails \/ ApplySpec
  BY <1>1, <1>3 DEF NextCall, CallFails, ApplySpec
<1>4. ASSUME NEW c \in Installed, CardStep(c) \/ CardFails(c) PROVE PrevInForce'
  <2>1. prev' = prev /\ pc \in Stages /\ Current(c) /\ c \in todo
    BY <1>4, CardFrame DEF Current
  <2>2. c \in touched'
    <3>1. pc # "stop" => c \in touched
      BY <2>1 DEF Inv, Partial
    <3>2. CASE StopPfBBConfig(c) \/ CardFails(c) \/ DriverRejected(c)
      BY <3>2 DEF StopPfBBConfig, CardFails, DriverRejected, Abort
    <3>3. CASE \/ RemoveVFs(c) \/ FlrReset(c) \/ InitializePfBBConfig(c)
               \/ ChangeAmountOfVFs(c) \/ BindVFs(c)
      BY <3>1, <3>3 DEF RemoveVFs, FlrReset, InitializePfBBConfig, ChangeAmountOfVFs, BindVFs,
                        NextStage, CardDone
    <3> QED
      BY <1>4, <3>2, <3>3 DEF CardStep
  <2>3. \A d \in Installed \ {c} :
          /\ hw'[d] = hw[d]
          /\ d \in touched' <=> d \in touched
          /\ d \in disturbed' <=> d \in disturbed
          /\ d \in adrift' <=> d \in adrift
    BY <1>0, <1>4, OtherCards
  <2> QED
    BY <2>1, <2>2, <2>3 DEF Inv, PrevInForce, InForce
<1>5. CASE PassEnds
  <2>1. CASE err
    BY <1>1, <1>5, <2>1 DEF PassEnds, Remembered
  <2>2. CASE ~err
    <3> SUFFICES ASSUME NEW d \in Installed, d \notin (touched \ required) \cup disturbed \cup adrift,
                        spec.pfs[d] # NoConfig
                 PROVE  InForce(d, spec.pfs[d])
      BY <1>5, <2>2 DEF PassEnds, Remembered, PrevInForce, InForce
    <3> QED
      BY <1>5, <2>2, PassSucceeded DEF PassEnds, Requested
  <2> QED
    BY <2>1, <2>2
<1>6. CASE HardwareFault
  <2>1. CASE prev' = prev
    <3>1. \A d \in Installed : /\ UNCHANGED <<touched, adrift>>
                               /\ d \in disturbed => d \in disturbed'
                               /\ d \notin disturbed' => hw'[d] = hw[d]
      BY <1>0, <1>6, FaultFrame
    <3> QED
      BY <2>1, <3>1 DEF Inv, PrevInForce, InForce
  <2>2. CASE prev' = NoPFs
    BY <2>2, CardAssumption DEF PrevInForce, NoPFs
  <2> QED
    BY <1>6, <2>1, <2>2, FaultKeepsPass
<1>7. CASE \E w \in Stray : LoseLease(w)
  BY <1>7, LoseLeaseFrame DEF Inv, PrevInForce, InForce
<1>8. ASSUME NEW w \in Stray, LeftBehind(w) PROVE PrevInForce'
  <2>1. /\ UNCHANGED <<prev, touched, disturbed>>
        /\ \A d \in Installed : d \notin adrift' => d \notin adrift /\ hw'[d] = hw[d]
    BY <1>0, <1>8, LeftBehindFrame DEF Aside, Inv
  <2> QED
    BY <2>1 DEF Inv, PrevInForce, InForce
<1> QED
  BY <1>2, <1>3, <1>4, <1>5, <1>6, <1>7, <1>8, StepKinds

LEMMA AppliedMatchesHardwareStep == Inv /\ [Next]_vars => AppliedMatchesHardware'
<1> SUFFICES ASSUME Inv, [Next]_vars PROVE AppliedMatchesHardware'
  OBVIOUS
<1>0. TypeOK /\ StatusInv
  BY DEF Inv, StatusInv
<1>1. CASE UNCHANGED <<cr, hw, Marks>>
  BY <1>1 DEF Inv, AppliedMatchesHardware, Applied, InForce, Requested
<1>2. CASE cr'.reason # "Succeeded"
  BY <1>2 DEF AppliedMatchesHardware, Applied
<1>3. CASE pc \in Working /\ UNCHANGED cr
  BY <1>0, <1>2, <1>3 DEF StatusInv, Announced
<1>4. CASE UNCHANGED vars \/ NothingToDo \/ Boot \/ Recreate \/ CreateFails \/ Refuse \/ BeginPass
  BY <1>1, <1>4 DEF vars, NothingToDo, Boot, Recreate, CreateFails, Refuse, BeginPass
<1>5. CASE CreateNodeConfig \/ DescribeNodeConfig
  BY <1>0, <1>2, <1>5, CreateFields, DescribeFields
<1>6. CASE RefuseSpec \/ MarkInProgress
  BY <1>0, <1>2, <1>6, UpdateStatusType DEF RefuseSpec, MarkInProgress, Reason
<1>7. CASE Report
  <2>1. CASE err
    BY <1>0, <1>2, <1>7, <2>1, UpdateStatusType DEF Report, Reason
  <2>2. CASE ~err
    <3>1. cr'.spec = cr.spec /\ spec = cr.spec
      BY <1>0, <1>7, <2>2, UpdateStatusType DEF Report, Reason, StatusInv, FreshObject, Working
    <3>2. UNCHANGED <<hw, disturbed, adrift>> /\ touched' = touched \ required
      BY <1>7, <2>2 DEF Report
    <3>3. \A d \in Installed :
            /\ Requested(spec, d) /\ d \notin (touched \ required) \cup disturbed \cup adrift
               => InForce(d, spec.pfs[d])
            /\ ~Requested(spec, d) /\ d \notin adrift => hw[d].vfs = 0
      BY <1>7, <2>2, PassSucceeded DEF Report
    <3> QED
      BY <3>1, <3>2, <3>3 DEF AppliedMatchesHardware, InForce, Requested
  <2> QED
    BY <2>1, <2>2
<1>8. CASE StatusUpdateFails
  <2>1. UNCHANGED <<cr, hw, disturbed, adrift>>
    BY <1>8 DEF StatusUpdateFails
  <2>2. CASE pc = "report"
    BY <1>3, <2>1, <2>2 DEF Working
  <2>3. CASE pc # "report"
    BY <1>1, <1>8, <2>1, <2>3 DEF StatusUpdateFails
  <2> QED
    BY <2>2, <2>3
<1>9. CASE Drain \/ DrainFails \/ Uncordon \/ UncordonFails \/ ApplySpec \/ InventoryFails
           \/ RestartDevicePlugin \/ RestartFails
  BY <1>3, <1>9 DEF Drain, DrainFails, Uncordon, UncordonFails, ApplySpec, InventoryFails,
                    RestartDevicePlugin, RestartFails, Working
<1>10. CASE \E c \in Installed : CardStep(c) \/ CardFails(c)
  BY <1>3, <1>10, CardFrame DEF Working
<1>11. CASE \E s \in Propagated : SetSpec(s)
  <2>1. cr'.generation # cr'.observed
    BY <1>0, <1>11, SetSpecFields
  <2> QED
    BY <2>1 DEF AppliedMatchesHardware, Applied
<1>12. CASE DeleteNodeConfig
  BY <1>2, <1>12, NoObject DEF DeleteNodeConfig
<1>13. CASE HardwareFault
  <2>1. \A d \in Installed : /\ UNCHANGED <<touched, adrift>>
                             /\ d \in disturbed => d \in disturbed'
                             /\ d \notin disturbed' => hw'[d] = hw[d]
                             /\ hw'[d].vfs = hw[d].vfs \/ hw'[d].vfs = 0
    BY <1>0, <1>13, FaultFrame
  <2>2. UNCHANGED cr
    BY <1>13 DEF HardwareFault, ResetVFs, PfBbConfigDies, Crash, Reboot
  <2> QED
    BY <2>1, <2>2 DEF Inv, AppliedMatchesHardware, Applied, InForce, Requested
<1>14. CASE \E w \in Stray : LoseLease(w)
  BY <1>3, <1>14, LoseLeaseFrame
<1>15. ASSUME NEW w \in Stray, LeftBehind(w) PROVE AppliedMatchesHardware'
  <2>1. /\ UNCHANGED <<cr, touched, disturbed>>
        /\ \A d \in Installed : d \notin adrift' => d \notin adrift /\ hw'[d] = hw[d]
    BY <1>0, <1>15, LeftBehindFrame DEF Aside, Inv
  <2> QED
    BY <2>1 DEF Inv, AppliedMatchesHardware, Applied, InForce, Requested
<1> QED
  BY <1>4, <1>5, <1>6, <1>7, <1>8, <1>9, <1>10, <1>11, <1>12, <1>13, <1>14, <1>15
     DEF Next, Progress, Failure, Environment, HardwareFault

-----------------------------------------------------------------------------
(* The theorems *)

LEMMA InvInit == Init => Inv
<1> SUFFICES ASSUME Init PROVE Inv
  OBVIOUS
<1>1. TypeOK
  BY TypeInit
<1>2. StagesOfRequested /\ FreshObject /\ Announced /\ Skipped /\ Partial /\ Done /\ Waiting
  BY DEF Init, StagesOfRequested, FreshObject, Announced, Skipped, Partial, Done, Waiting,
         Working, Stages
<1>3. PluginFresh /\ Uncordoned /\ Owed
  BY DEF Init, PluginFresh, PluginFreshWhenSucceeded, Uncordoned, UncordonedWhenApplied,
         Owed, NoWorker
<1>4. PrevInForce /\ AppliedMatchesHardware
  BY NoObject, CardAssumption
     DEF Init, PrevInForce, AppliedMatchesHardware, Applied, NoPFs
<1> QED
  BY <1>1, <1>2, <1>3, <1>4 DEF Inv, StatusInv

LEMMA InvStep == Inv /\ [Next]_vars => Inv'
<1> SUFFICES ASSUME Inv, [Next]_vars PROVE Inv'
  OBVIOUS
<1>1. StatusInv /\ TypeOK /\ StagesOfRequested /\ FreshObject /\ Announced
  BY DEF Inv, StatusInv
<1>2. TypeOK' /\ StagesOfRequested' /\ FreshObject' /\ Announced'
  BY <1>1, TypeStep, StagesOfRequestedStep, FreshObjectStep, AnnouncedStep
<1>3. PluginFresh' /\ Uncordoned' /\ Owed'
  BY <1>1, PluginFreshStep, UncordonedStep, OwedStep DEF Inv
<1>4. Skipped' /\ Partial' /\ Done' /\ Waiting'
  BY <1>1, SkippedStep, PartialStep, DoneStep, WaitingStep DEF Inv
<1>5. PrevInForce' /\ AppliedMatchesHardware'
  BY PrevInForceStep, AppliedMatchesHardwareStep
<1> QED
  BY <1>2, <1>3, <1>4, <1>5 DEF Inv, StatusInv

(* The inductive invariant holds in every reachable state: what a pass under  *)
(* way has done so far, step by step, for the properties below to rest on.     *)
THEOREM Invariance == Spec => []Inv
<1> QED
  BY InvInit, InvStep, PTL DEF Spec

(* What fecPreviousConfig says of a card is true of the card, so that         *)
(* checkIfDeviceUpdateNeeded may skip it: the reconciler's memory is replaced *)
(* only by passes that succeeded, and those leave nothing half done.          *)
THEOREM MemoryIsInForce == Spec => []PrevInForce
<1>1. Inv => PrevInForce
  BY DEF Inv
<1> QED
  BY <1>1, Invariance, PTL

(* A status Succeeded for the current generation is true of the hardware.     *)
THEOREM SuccessIsInForce == Spec => []AppliedMatchesHardware
<1>1. Inv => AppliedMatchesHardware
  BY DEF Inv
<1> QED
  BY <1>1, Invariance, PTL

(* Succeeded is reported only after the device plugin has restarted.          *)
THEOREM PluginRestartedFirst == Spec => []PluginFreshWhenSucceeded
<1>1. Inv => PluginFreshWhenSucceeded
  BY DEF Inv, PluginFresh
<1> QED
  BY <1>1, Invariance, PTL

(* Succeeded is reported only after the node is schedulable again.            *)
THEOREM UncordonedFirst == Spec => []UncordonedWhenApplied
<1>1. Inv => UncordonedWhenApplied
  BY DEF Inv, Uncordoned
<1> QED
  BY <1>1, Invariance, PTL

LEMMA WorkSparesRunningCards ==
  ASSUME Inv, [Next]_vars, NEW c \in Installed,
         pc \in Stages, pc' \notin {pc, "down"},
         prev[c] = spec.pfs[c], prev[c] # NoConfig, InForce(c, prev[c]), c \notin adrift
  PROVE  hw'[c] = hw[c]
<1>0. TypeOK
  BY DEF Inv, StatusInv
<1>1. CASE \E d \in Installed : CardStep(d) \/ CardFails(d)
  <2> PICK d \in Installed : CardStep(d) \/ CardFails(d)
    BY <1>1
  <2>1. d \in todo
    BY CardFrame DEF Current
  <2>2. c # d
    BY <2>1 DEF Inv, Waiting, LostVFs, InForce
  <2> QED
    BY <1>0, <2>2, OtherCards
<1>2. CASE HardwareFault
  BY <1>2, FaultKeepsPass DEF HardwareFault, Crash, Reboot, ResetVFs, PfBbConfigDies
<1>3. CASE ObjectOnly \/ OutsidePass \/ BeginPass \/ MarkInProgress \/ NextCall
           \/ CallFails \/ ApplySpec \/ PassEnds
  BY <1>3 DEF ObjectOnly, OutsidePass, BeginPass, MarkInProgress, NextCall, CallFails, ApplySpec,
              PassEnds
<1>4. CASE \E w \in Stray : LoseLease(w)
  BY <1>4, LoseLeaseFrame
<1>5. CASE \E w \in Stray : LeftBehind(w)
  BY <1>0, <1>5, LeftBehindType DEF Aside
<1> QED
  BY <1>1, <1>2, <1>3, <1>4, <1>5, StepKinds

(* Configuring other cards never takes down one that runs what is asked.      *)
THEOREM RunningCardsAreSpared == Spec => RunningCardLeftAlone
<1>1. Inv /\ [Next]_vars =>
        [\A c \in Installed :
           /\ pc \in Stages /\ pc' \notin {pc, "down"}
           /\ prev[c] = spec.pfs[c] /\ prev[c] # NoConfig /\ InForce(c, prev[c])
           /\ c \notin adrift
           => hw'[c] = hw[c]]_vars
  BY WorkSparesRunningCards
<1> QED
  BY <1>1, Invariance, PTL DEF Spec, RunningCardLeftAlone

=============================================================================
