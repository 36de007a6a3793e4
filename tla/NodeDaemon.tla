------------------------------ MODULE NodeDaemon ------------------------------
(***************************************************************************)
(* The FEC node daemon of one node (pkg/daemon/daemon_fec.go): the         *)
(* reconciler that brings the accelerators of its node to the state its    *)
(* SriovFecNodeConfig asks for, and the NodeConfigurator that does it card *)
(* by card (pkg/daemon/node_management.go).                                *)
(*                                                                         *)
(* A pass of Reconcile is a sequence of calls: two status updates on the   *)
(* API server, a drain of the node, the configuration of each card, the    *)
(* restart of the device plugin and the uncordon.  Each is a step of its   *)
(* own here, and between two of them the spec may change, the object may   *)
(* be deleted, somebody may write sriov_numvfs, pf_bb_config may die and   *)
(* the daemon or the node may restart.                                     *)
(*                                                                         *)
(* Everything from the drain to the uncordon runs in a goroutine of        *)
(* DrainHelper.Run (DrainLease), which returns without an error when the   *)
(* lease is lost: the pass then reports a success and the next one begins  *)
(* while the worker it left behind goes on, on a cancelled context.        *)
(*                                                                         *)
(* What the reconciler remembers from one pass to the next lives in memory *)
(* (fecPreviousConfig); what it publishes lives in the object's status.    *)
(* The properties at the end relate the two to the hardware.               *)
(***************************************************************************)
EXTENDS Integers, FiniteSets

CONSTANTS
  Card,           \* PCI addresses, as numbers in address order
  Installed,      \* the accelerators getSriovInventory lists on this node
  Config,         \* physical function configurations (pfDriver, vfAmount, queues)
  NoConfig,       \* a card that has none
  VFAmount,       \* the vfAmount of a configuration
  VfioPci,        \* the configurations with pfDriver vfio-pci
  Rejected,       \* the configurations whose driver cannot be used on this node
  Propagated,     \* the specs the cluster controller may write
  Stray,          \* bound on the workers left behind: the places they may take
  MaxGeneration,  \* bound on the spec changes
  FaultPlans      \* bounds on the faults of one behaviour, by kind

(***************************************************************************)
(* "step"    a call of a pass fails (API write, drain, sysfs, restart ...) *)
(* "crash"   the daemon's pod restarts, and with it every pf_bb_config     *)
(* "reboot"  the node restarts                                             *)
(* "numvfs"  somebody writes 0 to a card's sriov_numvfs                    *)
(* "pfbb"    a pf_bb_config process dies                                   *)
(* "delete"  the SriovFecNodeConfig is deleted                             *)
(* "lease"   the lease is lost while the worker runs                       *)
(***************************************************************************)
Fault == {"step", "crash", "reboot", "numvfs", "pfbb", "delete", "lease"}

NodeSpec == [pfs : [Card -> Config \cup {NoConfig}], drainSkip : BOOLEAN]

ASSUME CardAssumption == Card \subseteq Nat /\ Installed \subseteq Card

ASSUME ConfigAssumption ==
  /\ NoConfig \notin Config
  /\ VFAmount \in [Config -> Nat]
  /\ VfioPci \subseteq Config
  /\ Rejected \subseteq Config

ASSUME PropagatedAssumption == Propagated \subseteq NodeSpec

ASSUME BoundAssumption == MaxGeneration \in Nat /\ FaultPlans \subseteq [Fault -> Nat]

VARIABLES
  \* On the API server
  cr,           \* the SriovFecNodeConfig of this node
  cordoned,     \* the node is unschedulable because of the daemon
  pluginStale,  \* the device plugin has not restarted since VFs were re-created
  \* On the node
  hw,           \* the state of each accelerator
  \* In the daemon, across passes
  prev,         \* fecPreviousConfig
  required,     \* the cards with fecDeviceUpdateRequired, one map for all passes
  strays,       \* the workers that passes left behind, each with its next call
  \* In the daemon, within a pass
  pc,           \* the next call of the pass
  fresh,        \* the object in hand still has the server's resourceVersion
  spec,         \* the spec of the object in hand
  inv,          \* the number of VFs per card, as last read
  todo,         \* the cards ApplySpec has still to configure, the current one first
  err,          \* innerErr or configurationError
  \* Bookkeeping of the model
  spent,        \* faults so far
  touched,      \* cards the configurator has worked on since prev last described them
  disturbed,    \* cards the environment has changed since they were last configured
  adrift,       \* cards a lost lease left undone, or a worker left behind has worked on
  undone        \* what else a lost lease left undone: "plugin" restarted, "node" uncordoned

passVars == <<fresh, spec, inv, required, todo, err>>
leaseVars == <<strays, adrift, undone>>
vars == <<cr, cordoned, pluginStale, hw, prev, pc, passVars, spent, touched, disturbed, leaseVars>>

-----------------------------------------------------------------------------
(* Specs, hardware and the object *)

NoPFs == [c \in Card |-> NoConfig]

EmptySpec == [pfs |-> NoPFs, drainSkip |-> FALSE]

Requested(s, c) == s.pfs[c] # NoConfig

RequestedVFs(s, c) == IF Requested(s, c) THEN VFAmount[s.pfs[c]] ELSE 0

(* What a card is made of: the configuration pf_bb_config gave it, its VFs, *)
(* whether these are bound to their driver, whether pf_bb_config is alive.  *)
Hardware ==
  [cfg : Config \cup {NoConfig}, vfs : Nat, bound : BOOLEAN, alive : BOOLEAN]

Blank == [cfg |-> NoConfig, vfs |-> 0, bound |-> FALSE, alive |-> FALSE]

Reason == {"None", "NotRequested", "InProgress", "Failed", "Succeeded"}

NodeConfig ==
  [exists : BOOLEAN, generation : Nat, spec : NodeSpec, reason : Reason, observed : Nat]

NoNodeConfig ==
  [exists |-> FALSE, generation |-> 0, spec |-> EmptySpec, reason |-> "None", observed |-> 0]

LiveVFs == [c \in Installed |-> hw[c].vfs]

Happens(f) ==
  /\ spent' = [spent EXCEPT ![f] = @ + 1]
  /\ \E plan \in FaultPlans : \A k \in Fault : spent'[k] <= plan[k]

(* A worker that a pass left behind when the lease was lost: its next call,  *)
(* the spec it applies and the cards of its inventory it may still work on.  *)
Stages == {"stop", "remove", "reset", "init", "vfs", "bind"}

Worker ==
  [at : {"none", "drain", "apply", "restart", "uncordon"} \cup Stages,
   spec : NodeSpec,
   left : SUBSET Installed]

NoWorker == [at |-> "none", spec |-> EmptySpec, left |-> {}]

Alone == \A w \in Stray : strays[w] = NoWorker

(* The locals of Reconcile go when it returns. *)
EndPass ==
  /\ fresh' = FALSE
  /\ spec' = EmptySpec
  /\ inv' = [c \in Installed |-> 0]
  /\ todo' = {}
  /\ err' = FALSE

Init ==
  /\ cr = NoNodeConfig
  /\ cordoned = FALSE
  /\ pluginStale = FALSE
  /\ hw = [c \in Installed |-> Blank]
  /\ prev = NoPFs
  /\ pc = "down"
  /\ fresh = FALSE
  /\ spec = EmptySpec
  /\ inv = [c \in Installed |-> 0]
  /\ required = {}
  /\ todo = {}
  /\ err = FALSE
  /\ spent = [f \in Fault |-> 0]
  /\ touched = {}
  /\ disturbed = {}
  /\ strays = [w \in Stray |-> NoWorker]
  /\ adrift = {}
  /\ undone = {}

-----------------------------------------------------------------------------
(* Bringing up the object *)

(* Before the manager starts, the daemon creates its object if there is none. *)
Boot ==
  /\ pc = "down"
  /\ pc' = IF cr.exists THEN "idle" ELSE "create"
  /\ UNCHANGED <<cr, cordoned, pluginStale, hw, prev, passVars, spent, touched, disturbed, leaseVars>>

(* Reconcile creates it too, when it finds none. *)
Recreate ==
  /\ pc = "idle"
  /\ ~cr.exists
  /\ pc' = "create"
  /\ UNCHANGED <<cr, cordoned, pluginStale, hw, prev, passVars, spent, touched, disturbed, leaseVars>>

CreateNodeConfig ==
  /\ pc = "create"
  /\ cr' = [NoNodeConfig EXCEPT !.exists = TRUE, !.generation = 1]
  /\ fresh' = TRUE
  /\ pc' = "describe"
  /\ UNCHANGED <<cordoned, pluginStale, hw, prev, spec, inv, required, todo, err,
                 spent, touched, disturbed, leaseVars>>

DescribeNodeConfig ==
  /\ pc = "describe"
  /\ fresh
  /\ cr' = [cr EXCEPT !.reason = "NotRequested", !.observed = cr.generation]
  /\ pc' = "idle"
  /\ EndPass
  /\ UNCHANGED <<cordoned, pluginStale, hw, prev, required, spent, touched, disturbed, leaseVars>>

CreateFails ==
  /\ pc = "create"
  /\ Happens("step")
  /\ pc' = "idle"
  /\ UNCHANGED <<cr, cordoned, pluginStale, hw, prev, passVars, touched, disturbed, leaseVars>>

-----------------------------------------------------------------------------
(* The head of Reconcile: what to do with the object *)

(* validateNodeConfig returns out of its loop from the first physical       *)
(* function, whichever its driver; the controller sorts them by PCI address.*)
FirstIsRejected(s) ==
  \E c \in Card :
    /\ s.pfs[c] \in Rejected
    /\ \A d \in Card : d < c => ~Requested(s, d)

NonExistingInventoryRequested(s) == \E c \in Card \ Installed : Requested(s, c)

Refused(s) == FirstIsRejected(s) \/ NonExistingInventoryRequested(s)

ExposedInventoryOutdated == \E c \in Installed : hw[c].vfs # RequestedVFs(cr.spec, c)

BBDevConfigDaemonIsDead ==
  \E c \in Installed : cr.spec.pfs[c] \in VfioPci /\ ~hw[c].alive

(* A variant with a mistake: a new generation alone starts no pass. *)
IsCardUpdateRequiredByCount ==
  cr.spec.pfs # NoPFs /\ (ExposedInventoryOutdated \/ BBDevConfigDaemonIsDead)

IsCardUpdateRequired ==
  \/ cr.generation # cr.observed
  \/ cr.spec.pfs # NoPFs /\ (ExposedInventoryOutdated \/ BBDevConfigDaemonIsDead)

Refuse ==
  /\ pc = "idle"
  /\ cr.exists
  /\ Refused(cr.spec)
  /\ pc' = "refuse"
  /\ fresh' = TRUE
  /\ UNCHANGED <<cr, cordoned, pluginStale, hw, prev, spec, inv, required, todo, err,
                 spent, touched, disturbed, leaseVars>>

(* Reconcile marks every card of the inventory before it knows whether there *)
(* is anything to do.                                                         *)
NothingToDo ==
  /\ pc = "idle"
  /\ cr.exists
  /\ ~Refused(cr.spec)
  /\ ~IsCardUpdateRequired
  /\ required' = Installed
  /\ UNCHANGED <<cr, cordoned, pluginStale, hw, prev, pc, fresh, spec, inv, todo, err,
                 spent, touched, disturbed, leaseVars>>

BeginPass ==
  /\ pc = "idle"
  /\ cr.exists
  /\ ~Refused(cr.spec)
  /\ IsCardUpdateRequired
  /\ pc' = "begin"
  /\ fresh' = TRUE
  /\ spec' = cr.spec
  /\ inv' = LiveVFs
  /\ required' = Installed
  /\ UNCHANGED <<cr, cordoned, pluginStale, hw, prev, todo, err, spent, touched, disturbed,
                 leaseVars>>

-----------------------------------------------------------------------------
(* Status updates *)

(* A variant with a mistake: successes are counted. *)
ObservedGenerationCounted(reason) ==
  IF reason = "Succeeded" THEN cr.observed + 1 ELSE cr.observed

(* determineGeneration: only a success moves the observed generation. *)
ObservedGeneration(reason) ==
  IF reason = "Succeeded" THEN cr.generation ELSE cr.observed

UpdateStatus(reason) ==
  cr' = [cr EXCEPT !.reason = reason, !.observed = ObservedGeneration(reason)]

(* Variants with a mistake: every card is torn down; configurations are       *)
(* compared by their number of VFs; the inventory is not looked at.           *)
UpdateRequiredAlways == Installed

UpdateRequiredByCount ==
  {c \in Installed : prev[c] = NoConfig \/ RequestedVFs(spec, c) # VFAmount[prev[c]]
                       \/ (Requested(spec, c) /\ inv[c] # RequestedVFs(spec, c))}

UpdateRequiredBySpec == {c \in Installed : prev[c] = NoConfig \/ prev[c] # spec.pfs[c]}

(* checkIfDeviceUpdateNeeded: every card, but those whose configuration is the *)
(* one applied last.                                                           *)
Changed == {c \in Installed : prev[c] = NoConfig \/ prev[c] # spec.pfs[c]}

(* Reconcile adds the cards whose VFs were not all there when it read the *)
(* inventory.                                                             *)
UpdateRequired ==
  Changed \cup {c \in Installed : Requested(spec, c) /\ inv[c] # RequestedVFs(spec, c)}

RefuseSpec ==
  /\ pc = "refuse"
  /\ fresh
  /\ UpdateStatus("Failed")
  /\ pc' = "idle"
  /\ EndPass
  /\ UNCHANGED <<cordoned, pluginStale, hw, prev, required, spent, touched, disturbed, leaseVars>>

MarkInProgress ==
  /\ pc = "begin"
  /\ fresh
  /\ UpdateStatus("InProgress")
  /\ required' = UpdateRequired
  /\ pc' = "drain"
  /\ UNCHANGED <<cordoned, pluginStale, hw, prev, fresh, spec, inv, todo, err,
                 spent, touched, disturbed, leaseVars>>

(* A variant with a mistake: a failed pass is remembered, too. *)
RememberedAlways == spec.pfs

(* fecPreviousConfig is replaced by a success only, before the write. *)
Remembered == IF err THEN prev ELSE spec.pfs

Report ==
  /\ pc = "report"
  /\ fresh
  /\ UpdateStatus(IF err THEN "Failed" ELSE "Succeeded")
  /\ prev' = Remembered
  /\ touched' = IF err THEN touched ELSE touched \ required
  /\ pc' = "idle"
  /\ EndPass
  /\ UNCHANGED <<cordoned, pluginStale, hw, required, spent, disturbed, leaseVars>>

(* A status update fails for good when the object in hand is out of date,  *)
(* and may fail otherwise; Reconcile returns and starts over.  The first one *)
(* has compared the configurations, the last one has replaced                *)
(* fecPreviousConfig by then.                                                *)
StatusUpdateFails ==
  /\ pc \in {"describe", "refuse", "begin", "report"}
  /\ IF fresh THEN Happens("step") ELSE UNCHANGED spent
  /\ IF pc = "report"
     THEN /\ prev' = Remembered
          /\ touched' = IF err THEN touched ELSE touched \ required
     ELSE UNCHANGED <<prev, touched>>
  /\ required' = IF pc = "begin" THEN Changed ELSE required
  /\ pc' = "idle"
  /\ EndPass
  /\ UNCHANGED <<cr, cordoned, pluginStale, hw, disturbed, leaseVars>>

-----------------------------------------------------------------------------
(* DrainHelper.Run around the worker *)

Drain ==
  /\ pc = "drain"
  /\ cordoned' = (cordoned \/ ~spec.drainSkip)
  /\ pc' = "apply"
  /\ UNCHANGED <<cr, pluginStale, hw, prev, passVars, spent, touched, disturbed, leaseVars>>

(* Five attempts failed; the node may be cordoned by then. *)
DrainFails ==
  /\ pc = "drain"
  /\ ~spec.drainSkip
  /\ Happens("step")
  /\ cordoned' \in {cordoned, TRUE}
  /\ err' = TRUE
  /\ pc' = "uncordon"
  /\ UNCHANGED <<cr, pluginStale, hw, prev, fresh, spec, inv, required, todo, touched, disturbed, leaseVars>>

Uncordon ==
  /\ pc = "uncordon"
  /\ cordoned' = (cordoned /\ spec.drainSkip)
  /\ undone' = IF Alone /\ ~spec.drainSkip THEN undone \ {"node"} ELSE undone
  /\ pc' = "report"
  /\ UNCHANGED <<cr, pluginStale, hw, prev, passVars, spent, touched, disturbed, strays, adrift>>

(* A variant with a mistake: the error is logged and dropped. *)
UncordonFailsUnnoticed ==
  /\ pc = "uncordon"
  /\ ~spec.drainSkip
  /\ Happens("step")
  /\ pc' = "report"
  /\ UNCHANGED <<cr, cordoned, pluginStale, hw, prev, passVars, touched, disturbed, leaseVars>>

UncordonFails ==
  /\ pc = "uncordon"
  /\ ~spec.drainSkip
  /\ Happens("step")
  /\ err' = TRUE
  /\ pc' = "report"
  /\ UNCHANGED <<cr, cordoned, pluginStale, hw, prev, fresh, spec, inv, required, todo,
                 touched, disturbed, leaseVars>>

-----------------------------------------------------------------------------
(* ApplySpec: the cards one by one, in the order of the inventory *)

(* A card to work on is configured if it is requested, cleaned if it is not *)
(* but has VFs.                                                             *)
ApplySpec ==
  /\ pc = "apply"
  /\ inv' = LiveVFs
  /\ todo' = {c \in required : Requested(spec, c) \/ hw[c].vfs > 0}
  /\ pc' = IF todo' = {} THEN "restart" ELSE "stop"
  /\ UNCHANGED <<cr, cordoned, pluginStale, hw, prev, fresh, spec, required, err,
                 spent, touched, disturbed, leaseVars>>

InventoryFails ==
  /\ pc = "apply"
  /\ Happens("step")
  /\ err' = TRUE
  /\ pc' = "uncordon"
  /\ UNCHANGED <<cr, cordoned, pluginStale, hw, prev, fresh, spec, inv, required, todo,
                 touched, disturbed, leaseVars>>

Current(c) == c \in todo /\ \A d \in todo : c <= d

(* What each call does to a card, for a spec s. *)
Stopped(c) == [hw[c] EXCEPT !.alive = FALSE]

WithoutVFs(c) == [hw[c] EXCEPT !.vfs = 0, !.bound = FALSE]

AfterFLR(c) == [hw[c] EXCEPT !.cfg = NoConfig]

Initialized(s, c) ==
  [hw[c] EXCEPT !.cfg = s.pfs[c], !.alive = (s.pfs[c] \in VfioPci)]

WithVFs(s, c) == [hw[c] EXCEPT !.vfs = RequestedVFs(s, c), !.bound = FALSE]

Bound(c) == [hw[c] EXCEPT !.bound = TRUE]

(* The device plugin knows the VFs it found when it started. *)
Work(c, card) ==
  /\ hw' = [hw EXCEPT ![c] = card]
  /\ pluginStale' = (pluginStale \/ card.vfs # hw[c].vfs)

NextStage(stage) ==
  /\ pc' = stage
  /\ UNCHANGED <<cr, cordoned, prev, passVars, spent, touched, disturbed, leaseVars>>

CardDone(c) ==
  /\ todo' = todo \ {c}
  /\ pc' = IF todo' = {} THEN "restart" ELSE "stop"
  /\ UNCHANGED <<cr, cordoned, prev, fresh, spec, inv, required, err, spent, touched, disturbed, leaseVars>>

StopPfBBConfig(c) ==
  /\ pc = "stop"
  /\ Current(c)
  /\ Work(c, Stopped(c))
  /\ pc' = "remove"
  /\ touched' = touched \cup {c}
  /\ disturbed' = disturbed \ {c}
  /\ UNCHANGED <<cr, cordoned, prev, passVars, spent, leaseVars>>

RemoveVFs(c) ==
  /\ pc = "remove"
  /\ Current(c)
  /\ Work(c, WithoutVFs(c))
  /\ adrift' = IF Alone THEN adrift \ {c} ELSE adrift
  /\ pc' = "reset"
  /\ UNCHANGED <<cr, cordoned, prev, passVars, spent, touched, disturbed, strays, undone>>

FlrReset(c) ==
  /\ pc = "reset"
  /\ Current(c)
  /\ Work(c, AfterFLR(c))
  /\ IF Requested(spec, c) THEN NextStage("init") ELSE CardDone(c)

InitializePfBBConfig(c) ==
  /\ pc = "init"
  /\ Current(c)
  /\ spec.pfs[c] \notin Rejected
  /\ Work(c, Initialized(spec, c))
  /\ NextStage("vfs")

ChangeAmountOfVFs(c) ==
  /\ pc = "vfs"
  /\ Current(c)
  /\ Work(c, WithVFs(spec, c))
  /\ NextStage("bind")

BindVFs(c) ==
  /\ pc = "bind"
  /\ Current(c)
  /\ Work(c, Bound(c))
  /\ CardDone(c)

(* The first error ends ApplySpec: the cards after c keep waiting. *)
Abort(c) ==
  /\ err' = TRUE
  /\ todo' = {}
  /\ pc' = "uncordon"
  /\ touched' = touched \cup {c}
  /\ UNCHANGED <<cr, cordoned, prev, fresh, spec, inv, required, disturbed, leaseVars>>

(* A driver that cannot be loaded or bound fails the card before pf_bb_config. *)
DriverRejected(c) ==
  /\ pc = "init"
  /\ Current(c)
  /\ spec.pfs[c] \in Rejected
  /\ Abort(c)
  /\ UNCHANGED <<hw, pluginStale, spent>>

(* A call that fails may have had none, all or, unbinding VFs, some of its effect. *)
Leftover(stage, s, c) ==
  CASE stage = "stop"   -> {hw[c], Stopped(c)}
    [] stage = "remove" -> {hw[c], [hw[c] EXCEPT !.bound = FALSE], WithoutVFs(c)}
    [] stage = "reset"  -> {hw[c], AfterFLR(c)}
    [] stage = "init"   -> {hw[c], Initialized(s, c)}
    [] stage = "vfs"    -> {hw[c], WithVFs(s, c)}
    [] OTHER            -> {hw[c]}

CardFails(c) ==
  /\ pc \in Stages
  /\ Current(c)
  /\ Happens("step")
  /\ \E card \in Leftover(pc, spec, c) : Work(c, card)
  /\ Abort(c)

-----------------------------------------------------------------------------
(* RestartDevicePlugin: delete its pod on this node, wait for the next one *)

RestartDevicePlugin ==
  /\ pc = "restart"
  /\ pluginStale' = FALSE
  /\ undone' = IF Alone THEN undone \ {"plugin"} ELSE undone
  /\ pc' = "uncordon"
  /\ UNCHANGED <<cr, cordoned, hw, prev, passVars, spent, touched, disturbed, strays, adrift>>

(* A variant with a mistake: the error is logged and dropped. *)
RestartFailsUnnoticed ==
  /\ pc = "restart"
  /\ Happens("step")
  /\ pluginStale' \in {pluginStale, FALSE}
  /\ pc' = "uncordon"
  /\ UNCHANGED <<cr, cordoned, hw, prev, passVars, touched, disturbed, leaseVars>>

RestartFails ==
  /\ pc = "restart"
  /\ Happens("step")
  /\ pluginStale' \in {pluginStale, FALSE}
  /\ err' = TRUE
  /\ pc' = "uncordon"
  /\ UNCHANGED <<cr, cordoned, hw, prev, fresh, spec, inv, required, todo, touched, disturbed, leaseVars>>

-----------------------------------------------------------------------------
(* A lost lease, and the worker left behind *)

(* The elector returns when it cannot renew the lease, Run has no error to    *)
(* give but those noted so far, and Reconcile goes on to its report.          *)
LoseLease(w) ==
  /\ strays[w] = NoWorker
  /\ \/ pc \in {"drain", "apply", "restart"} \cup Stages
     \/ pc = "uncordon" /\ ~spec.drainSkip
  /\ Happens("lease")
  /\ strays' = [strays EXCEPT ![w] =
       [at |-> pc,
        spec |-> spec,
        left |-> {d \in Installed :
                    /\ Requested(spec, d) \/ inv[d] > 0
                    /\ \E c \in todo : c <= d}]]
  /\ adrift' = adrift \cup (IF pc \in {"drain", "apply"} THEN required ELSE todo)
  /\ undone' = undone \cup (IF pc = "uncordon" THEN {} ELSE {"plugin"})
                     \cup (IF spec.drainSkip THEN {} ELSE {"node"})
  /\ todo' = {}
  /\ pc' = "report"
  /\ UNCHANGED <<cr, cordoned, pluginStale, hw, prev, fresh, spec, inv, required, err,
                 touched, disturbed>>

OnTheNode == <<cordoned, pluginStale, hw>>

(* Its steps change nothing of the pass under way, if there is one. *)
Aside == UNCHANGED <<cr, prev, pc, passVars, touched, disturbed>>

Ended(w) == strays' = [strays EXCEPT ![w] = NoWorker]

(* The worker looks cards up in fecDeviceUpdateRequired one by one, and a      *)
(* later pass may have rewritten it, or be about to: it goes on with the first *)
(* card it finds there.                                                        *)
LookedUp == {required} \cup (IF pc = "begin" THEN {Changed} ELSE {})

GoesOn(w, cards) ==
  \E map \in LookedUp :
    LET left == {c \in cards : \E d \in cards \cap map : d <= c}
    IN  strays' = [strays EXCEPT ![w].left = left,
                                 ![w].at = IF left = {} THEN "restart" ELSE "stop"]

StrayDrain(w) ==
  /\ strays[w].at = "drain"
  /\ cordoned' = (cordoned \/ ~strays[w].spec.drainSkip)
  /\ strays' = [strays EXCEPT ![w].at = "apply"]
  /\ Aside
  /\ UNCHANGED <<pluginStale, hw, spent, adrift, undone>>

StrayApplySpec(w) ==
  /\ strays[w].at = "apply"
  /\ GoesOn(w, {c \in Installed : Requested(strays[w].spec, c) \/ hw[c].vfs > 0})
  /\ Aside
  /\ UNCHANGED <<OnTheNode, spent, adrift, undone>>

StrayCard(w, c) == c \in strays[w].left /\ \A d \in strays[w].left : c <= d

Effect(stage, s, c) ==
  CASE stage = "stop"   -> Stopped(c)
    [] stage = "remove" -> WithoutVFs(c)
    [] stage = "reset"  -> AfterFLR(c)
    [] stage = "init"   -> Initialized(s, c)
    [] stage = "vfs"    -> WithVFs(s, c)
    [] OTHER            -> Bound(c)

StageAfter(stage) ==
  CASE stage = "stop"   -> "remove"
    [] stage = "remove" -> "reset"
    [] stage = "reset"  -> "init"
    [] stage = "init"   -> "vfs"
    [] OTHER            -> "bind"

StrayStage(w, c) ==
  LET stage == strays[w].at
      s == strays[w].spec
  IN  /\ stage \in Stages
      /\ StrayCard(w, c)
      /\ stage = "init" => s.pfs[c] \notin Rejected
      /\ Work(c, Effect(stage, s, c))
      /\ IF stage = "bind" \/ (stage = "reset" /\ ~Requested(s, c))
         THEN GoesOn(w, strays[w].left \ {c})
         ELSE strays' = [strays EXCEPT ![w].at = StageAfter(stage)]
      /\ adrift' = adrift \cup {c}
      /\ Aside
      /\ UNCHANGED <<cordoned, spent, undone>>

(* After an error and after the restart comes the uncordon, whose Get fails on *)
(* the cancelled context: the worker is over.                                  *)
StrayCardFails(w, c) ==
  LET stage == strays[w].at
      s == strays[w].spec
  IN  /\ stage \in Stages
      /\ StrayCard(w, c)
      /\ IF stage = "init" /\ s.pfs[c] \in Rejected
         THEN UNCHANGED <<hw, pluginStale, spent>>
         ELSE Happens("step") /\ \E card \in Leftover(stage, s, c) : Work(c, card)
      /\ Ended(w)
      /\ adrift' = adrift \cup {c}
      /\ Aside
      /\ UNCHANGED <<cordoned, undone>>

StrayRestart(w) ==
  /\ strays[w].at = "restart"
  /\ pluginStale' = FALSE
  /\ Ended(w)
  /\ Aside
  /\ UNCHANGED <<cordoned, hw, spent, adrift, undone>>

StrayCallFails(w) ==
  /\ \/ strays[w].at = "apply" /\ UNCHANGED <<cordoned, pluginStale>>
     \/ strays[w].at = "drain" /\ ~strays[w].spec.drainSkip
        /\ cordoned' = TRUE /\ UNCHANGED pluginStale
     \/ strays[w].at = "restart" /\ pluginStale' \in {pluginStale, FALSE} /\ UNCHANGED cordoned
  /\ Happens("step")
  /\ Ended(w)
  /\ Aside
  /\ UNCHANGED <<hw, adrift, undone>>

(* Lost in the uncordon itself, it may have the node already. *)
StrayUncordon(w) ==
  /\ strays[w].at = "uncordon"
  /\ cordoned' = FALSE
  /\ Ended(w)
  /\ Aside
  /\ UNCHANGED <<pluginStale, hw, spent, adrift, undone>>

(* The node is read with the worker's context before it is cordoned or uncordoned. *)
StrayCancelled(w) ==
  /\ strays[w].at \in {"drain", "uncordon"}
  /\ ~strays[w].spec.drainSkip
  /\ Ended(w)
  /\ Aside
  /\ UNCHANGED <<OnTheNode, spent, adrift, undone>>

LeftBehind(w) ==
  \/ StrayDrain(w)
  \/ StrayApplySpec(w)
  \/ \E c \in Installed : StrayStage(w, c) \/ StrayCardFails(w, c)
  \/ StrayRestart(w)
  \/ StrayCallFails(w)
  \/ StrayUncordon(w)
  \/ StrayCancelled(w)

-----------------------------------------------------------------------------
(* The environment *)

(* The cluster controller propagates another configuration. *)
SetSpec(s) ==
  /\ cr.exists
  /\ cr.generation < MaxGeneration
  /\ s # cr.spec
  /\ cr' = [cr EXCEPT !.spec = s, !.generation = @ + 1]
  /\ fresh' = FALSE
  /\ UNCHANGED <<cordoned, pluginStale, hw, prev, pc, spec, inv, required, todo, err,
                 spent, touched, disturbed, leaseVars>>

DeleteNodeConfig ==
  /\ cr.exists
  /\ Happens("delete")
  /\ cr' = NoNodeConfig
  /\ fresh' = FALSE
  /\ UNCHANGED <<cordoned, pluginStale, hw, prev, pc, spec, inv, required, todo, err,
                 touched, disturbed, leaseVars>>

ResetVFs(c) ==
  /\ hw[c].vfs > 0
  /\ Happens("numvfs")
  /\ hw' = [hw EXCEPT ![c].vfs = 0, ![c].bound = FALSE]
  /\ disturbed' = disturbed \cup {c}
  /\ UNCHANGED <<cr, cordoned, pluginStale, prev, pc, passVars, touched, leaseVars>>

PfBbConfigDies(c) ==
  /\ hw[c].alive
  /\ Happens("pfbb")
  /\ hw' = [hw EXCEPT ![c].alive = FALSE]
  /\ disturbed' = disturbed \cup {c}
  /\ UNCHANGED <<cr, cordoned, pluginStale, prev, pc, passVars, touched, leaseVars>>

(* The daemon's pod goes, its memory and the pf_bb_config it started with it. *)
Crash ==
  /\ pc # "down"
  /\ Happens("crash")
  /\ hw' = [c \in Installed |-> [hw[c] EXCEPT !.alive = FALSE]]
  /\ disturbed' = disturbed \cup {c \in Installed : hw[c].alive}
  /\ prev' = NoPFs
  /\ pc' = "down"
  /\ EndPass
  /\ required' = {}
  /\ strays' = [w \in Stray |-> NoWorker]
  /\ UNCHANGED <<cr, cordoned, pluginStale, touched, adrift, undone>>

Reboot ==
  /\ Happens("reboot")
  /\ hw' = [c \in Installed |-> Blank]
  /\ disturbed' = Installed
  /\ pluginStale' = FALSE
  /\ prev' = NoPFs
  /\ pc' = "down"
  /\ EndPass
  /\ required' = {}
  /\ strays' = [w \in Stray |-> NoWorker]
  /\ undone' = undone \ {"plugin"}
  /\ UNCHANGED <<cr, cordoned, touched, adrift>>

-----------------------------------------------------------------------------

CardStep(c) ==
  \/ StopPfBBConfig(c)
  \/ RemoveVFs(c)
  \/ FlrReset(c)
  \/ InitializePfBBConfig(c)
  \/ ChangeAmountOfVFs(c)
  \/ BindVFs(c)
  \/ DriverRejected(c)

(* The steps of the daemon that do what they should. *)
Progress ==
  \/ Boot
  \/ Recreate
  \/ CreateNodeConfig
  \/ DescribeNodeConfig
  \/ Refuse
  \/ BeginPass
  \/ RefuseSpec
  \/ MarkInProgress
  \/ Drain
  \/ ApplySpec
  \/ \E c \in Installed : CardStep(c)
  \/ RestartDevicePlugin
  \/ Uncordon
  \/ Report

Failure ==
  \/ CreateFails
  \/ StatusUpdateFails
  \/ DrainFails
  \/ InventoryFails
  \/ \E c \in Installed : CardFails(c)
  \/ RestartFails
  \/ UncordonFails

Environment ==
  \/ \E s \in Propagated : SetSpec(s)
  \/ DeleteNodeConfig
  \/ \E c \in Installed : ResetVFs(c) \/ PfBbConfigDies(c)
  \/ Crash
  \/ Reboot

Next ==
  \/ NothingToDo
  \/ Progress
  \/ Failure
  \/ \E w \in Stray : LoseLease(w) \/ LeftBehind(w)
  \/ Environment

Spec == Init /\ [][Next]_vars

(* The manager restarts the daemon, and the workqueue calls Reconcile again: *)
(* now after an error, every resyncPeriod otherwise.  A pass runs to its end: *)
(* every wait in it is bounded, and so does a worker left behind, well or not. *)
(* No fault is ever bound to happen; a conflict is an outcome of the call and  *)
(* not a fault.                                                                *)
Conflict == StatusUpdateFails /\ ~fresh

FairSpec ==
  /\ Spec
  /\ WF_vars(Progress \/ Conflict)
  /\ WF_vars(\E w \in Stray : LeftBehind(w))

-----------------------------------------------------------------------------
(* Properties *)

(* The type of each variable; the observed generation is one the object had. *)
TypeOK ==
  /\ cr \in NodeConfig
  /\ cr.observed <= cr.generation
  /\ cordoned \in BOOLEAN
  /\ pluginStale \in BOOLEAN
  /\ hw \in [Installed -> Hardware]
  /\ prev \in [Card -> Config \cup {NoConfig}]
  /\ pc \in {"down", "idle", "create", "describe", "refuse", "begin", "drain", "apply",
             "restart", "uncordon", "report"} \cup Stages
  /\ fresh \in BOOLEAN
  /\ spec \in NodeSpec
  /\ inv \in [Installed -> Nat]
  /\ required \subseteq Installed
  /\ todo \subseteq Installed
  /\ err \in BOOLEAN
  /\ spent \in [Fault -> Nat]
  /\ touched \subseteq Installed
  /\ disturbed \subseteq Installed
  /\ strays \in [Stray -> Worker]
  /\ adrift \subseteq Installed
  /\ undone \subseteq {"plugin", "node"}

(* A card runs configuration f: pf_bb_config applied it, the VFs are there,  *)
(* bound to their driver, and the process that serves a vfio-pci card lives. *)
InForce(c, f) ==
  /\ hw[c].cfg = f
  /\ hw[c].vfs = VFAmount[f]
  /\ hw[c].bound
  /\ hw[c].alive <=> f \in VfioPci

Applied == cr.exists /\ cr.reason = "Succeeded" /\ cr.observed = cr.generation

(* What fecPreviousConfig holds for a card is what the card runs, unless the *)
(* configurator worked on it since (a pass that failed), somebody else       *)
(* changed it, or a lost lease left it undone or to a worker left behind:    *)
(* checkIfDeviceUpdateNeeded skips cards on the strength of it.  No other    *)
(* card is affected by a lost lease, and a card is in order again once a     *)
(* pass without such company has configured it.                              *)
PrevInForce ==
  \A c \in Installed \ (touched \cup disturbed \cup adrift) :
    prev[c] # NoConfig => InForce(c, prev[c])

(* Succeeded for the current generation means that every card runs the       *)
(* configuration the spec asks for, whatever failed, crashed or conflicted    *)
(* on the way, and that the cards it does not name have no VFs; but for the    *)
(* cards that a lost lease left adrift.                                        *)
AppliedMatchesHardware ==
  Applied =>
    \A c \in Installed :
      IF Requested(cr.spec, c)
      THEN c \notin touched \cup disturbed \cup adrift => InForce(c, cr.spec.pfs[c])
      ELSE c \notin adrift => hw[c].vfs = 0

(* The status says Succeeded only if the device plugin has restarted since    *)
(* the VFs last changed, or a worker whose lease was lost has not been made   *)
(* good for by a later pass.                                                  *)
PluginFreshWhenSucceeded == cr.reason = "Succeeded" /\ "plugin" \notin undone => ~pluginStale

(* A spec applied with a drain has left the node schedulable, with the same   *)
(* exception.                                                                 *)
UncordonedWhenApplied == Applied /\ ~cr.spec.drainSkip /\ "node" \notin undone => ~cordoned

(* The configurator never takes down a card that runs the configuration asked *)
(* for, when it is also the one applied last: configuring the second card     *)
(* must not disturb the workloads of the first.  (A worker left behind may    *)
(* bring a card to that state while the next pass waits to configure it.)     *)
RunningCardLeftAlone ==
  [][\A c \in Installed :
       /\ pc \in Stages /\ pc' \notin {pc, "down"}
       /\ prev[c] = spec.pfs[c] /\ prev[c] # NoConfig /\ InForce(c, prev[c])
       /\ c \notin adrift
       => hw'[c] = hw[c]]_vars

(* No driver of the spec is rejected and no card of it is missing. *)
Appliable(s) == \A c \in Card : Requested(s, c) => c \in Installed /\ s.pfs[c] \notin Rejected

(* Once faults and spec changes cease, the generation the object is left with *)
(* is observed, unless its spec cannot be applied.                            *)
GenerationObserved ==
  []<>(cr.exists /\ (Appliable(cr.spec) => cr.observed = cr.generation))

(* The number of VFs comes back to what an appliable spec asks for, also when *)
(* somebody resets sriov_numvfs behind the daemon's back.                      *)
VFsRestored ==
  []<>(\/ ~Appliable(cr.spec)
       \/ cr.spec.pfs = NoPFs
       \/ \A c \in Installed : hw[c].vfs = RequestedVFs(cr.spec, c))

-----------------------------------------------------------------------------
(* What the code's comments and documents promise, and the code does not do *)

(* "If the hardware state does not match the requested state, always force a *)
(* hardware reconfiguration": a success means that what the spec asks for is  *)
(* in force, but for what the environment has changed since.                  *)
AppliedMeansInForce ==
  Applied =>
    \A c \in Installed \ disturbed :
      Requested(cr.spec, c) => InForce(c, cr.spec.pfs[c])

(* The daemon does not give up: an appliable spec that stays ends in Succeeded *)
(* with the node schedulable again.                                            *)
RepairCompletes ==
  []<>(cr.exists /\ (Appliable(cr.spec) /\ cr.spec.pfs # NoPFs =>
                       cr.reason = "Succeeded" /\ (cordoned => cr.spec.drainSkip)))

=============================================================================
