------------------------------ MODULE VrbDaemon ------------------------------
(***************************************************************************)
(* The VRB node daemon of one node (pkg/daemon/daemon_vrb.go).  Its pass   *)
(* is the one of NodeDaemon, with one more thing to keep in step: after    *)
(* the cards are configured it names their VFs in the device plugin's      *)
(* ConfigMap, sriovdp-config, a map that the daemons of all nodes and the  *)
(* operator write.  A card is configured in one step here; NodeDaemon and  *)
(* Configurator look inside.                                               *)
(*                                                                         *)
(* The ConfigMap holds one list per node (config_<node>.json) and a shared *)
(* one (config.json), of which a node's list starts as a copy.  Each PF    *)
(* with a vrbResourceName gets an entry.  The daemon reads the map, edits  *)
(* its list, reads the map again and writes it; on the way it updates the  *)
(* status, with Succeeded or Failed, in the middle of the pass.            *)
(*                                                                         *)
(* All this runs in the goroutine of DrainHelper.Run (DrainLease).  When   *)
(* the lease is lost, Run returns without an error and the pass reports a  *)
(* success; the worker it leaves behind goes on beside the next pass, with *)
(* the object it was given, on a cancelled context that only the calls on  *)
(* the node object see.                                                    *)
(***************************************************************************)
EXTENDS Integers, FiniteSets

CONSTANTS
  Card,           \* PCI addresses, as positive numbers in address order
  Installed,      \* the accelerators VrbGetSriovInventory lists on this node
  Config,         \* physical function configurations
  NoConfig,       \* a card that has none
  VFAmount,       \* the vfAmount of a configuration
  ResourceName,   \* its vrbResourceName
  NoName,         \* none given
  VfioPci,        \* the configurations with pfDriver vfio-pci
  Rejected,       \* the configurations whose driver cannot be used on this node
  Propagated,     \* the specs the cluster controller may write
  Absent,         \* a key that is not in the ConfigMap
  Stray,          \* bound on the workers left behind: the places they may take
  FaultPlans      \* bounds on the faults and spec changes of one behaviour, by kind

(***************************************************************************)
(* "step"    a call of a pass fails (API write, drain, sysfs, restart ...) *)
(* "crash"   the daemon's pod restarts, and with it every pf_bb_config     *)
(* "numvfs"  somebody writes 0 to a card's sriov_numvfs                    *)
(* "delete"  the SriovVrbNodeConfig is deleted                             *)
(* "deploy"  the operator writes sriovdp-config anew                       *)
(* "other"   the daemon of another node writes its list                    *)
(* "lease"   the lease is lost while the worker runs                       *)
(* "spec"    no fault: the cluster controller writes another spec          *)
(***************************************************************************)
Fault == {"step", "crash", "numvfs", "delete", "deploy", "other", "lease", "spec"}

AnyCard == 0

NodeSpec == [pfs : [Card -> Config \cup {NoConfig}], drainSkip : BOOLEAN]

ASSUME CardAssumption == Card \subseteq Nat \ {AnyCard} /\ Installed \subseteq Card

ASSUME ConfigAssumption ==
  /\ NoConfig \notin Config
  /\ VFAmount \in [Config -> Nat]
  /\ DOMAIN ResourceName = Config
  /\ VfioPci \cup Rejected \subseteq Config

(* An entry of a list gives VFs of a card, or of any, a name. *)
Entry == [pf : Card \cup {AnyCard}, name : {ResourceName[f] : f \in Config} \cup {NoName}, vfs : Nat]

Lists == SUBSET Entry

ConfigMap == [shared : Lists, own : Lists \cup {Absent}, other : Lists \cup {Absent}]

ASSUME AbsentAssumption == Absent \notin Lists

ASSUME PropagatedAssumption == Propagated \subseteq NodeSpec

ASSUME BoundAssumption == FaultPlans \subseteq [Fault -> Nat]

VARIABLES
  cr,           \* the SriovVrbNodeConfig of this node
  cm,           \* sriovdp-config: the shared list, this node's, another node's
  cordoned,     \* the node is unschedulable because of the daemon
  pluginStale,  \* VFs or lists have changed since the device plugin restarted
  hw,           \* the state of each accelerator
  prev,         \* vrbPreviousConfig
  required,     \* the cards with vrbDeviceUpdateRequired, one map for all passes
  strays,       \* the workers that passes left behind, each with its next call
  pc,           \* the next call of the pass
  pass,         \* the locals of Reconcile
  spent,        \* faults and spec changes so far
  touched,      \* cards worked on since prev last described them
  disturbed,    \* cards the environment has changed since they were configured
  adrift,       \* cards a lost lease left undone, or a worker left behind has changed
  undone        \* what else a lost lease left undone: "plugin" restarted, "node" uncordoned

leaseVars == <<required, strays, adrift, undone>>
vars == <<cr, cm, cordoned, pluginStale, hw, prev, pc, pass, spent, touched, disturbed, leaseVars>>

-----------------------------------------------------------------------------
(* The object, the cards and the lists *)

NoPFs == [c \in Card |-> NoConfig]

Requested(s, c) == s.pfs[c] # NoConfig

RequestedVFs(s, c) == IF Requested(s, c) THEN VFAmount[s.pfs[c]] ELSE 0

NameOf(s, c) == IF Requested(s, c) THEN ResourceName[s.pfs[c]] ELSE NoName

Named(s) == {c \in Card : NameOf(s, c) # NoName}

NoNodeConfig ==
  [exists |-> FALSE, generation |-> 0, spec |-> [pfs |-> NoPFs, drainSkip |-> FALSE],
   reason |-> "None", observed |-> 0]

Blank == [cfg |-> NoConfig, vfs |-> 0, alive |-> FALSE]

Running(f) == [cfg |-> f, vfs |-> VFAmount[f], alive |-> f \in VfioPci]

(* The entry of the card's device in config.json: no address, no PF_PCI_ADDR. *)
SharedEntry == [pf |-> AnyCard, name |-> NoName, vfs |-> 0]

Deployed == [shared |-> {SharedEntry}, own |-> Absent, other |-> Absent]

(* The list that the device plugin of this node is given. *)
PluginList == IF cm.own = Absent THEN cm.shared ELSE cm.own

Happens(f) ==
  /\ spent' = [spent EXCEPT ![f] = @ + 1]
  /\ \E plan \in FaultPlans : \A k \in Fault : spent'[k] <= plan[k]

(***************************************************************************)
(* fresh     the object in hand has the server's resourceVersion           *)
(* spec      its spec                                                      *)
(* observed  the observed generation of the condition in hand              *)
(* outdated  the cards whose VFs were not all there in its inventory       *)
(* todo      the cards VrbApplySpec has still to configure                 *)
(* names     the cards whose names have still to be listed                 *)
(* copy      sriovdp-config as last read                                   *)
(* list      this node's list as edited                                    *)
(* found     the list had an entry for the card                            *)
(* missed    cards whose entry could not be made, without an error, or that *)
(*           a lost lease left unlisted, or that others may have written   *)
(* err       innerErr or configurationError                                *)
(***************************************************************************)
NoPass ==
  [fresh |-> FALSE, spec |-> NoNodeConfig.spec, observed |-> 0, outdated |-> {},
   todo |-> {}, names |-> {}, copy |-> Deployed, list |-> {}, found |-> FALSE,
   missed |-> {}, err |-> FALSE]

Goto(step, locals) == pc' = step /\ pass' = locals

(* A worker left behind: its next call, whether Reconcile still has the same  *)
(* object in hand, and the locals that are the worker's.                      *)
NoWorker == [at |-> "none", with |-> FALSE, hand |-> NoPass]

Alone == \A w \in Stray : strays[w] = NoWorker

(* A write of the object leaves what the workers left behind hold out of date. *)
Outdated == strays' = [w \in Stray |-> [strays[w] EXCEPT !.hand.fresh = FALSE]]

Init ==
  /\ cr = NoNodeConfig
  /\ cm = Deployed
  /\ cordoned = FALSE
  /\ pluginStale = FALSE
  /\ hw = [c \in Installed |-> Blank]
  /\ prev = NoPFs
  /\ pc = "down"
  /\ pass = NoPass
  /\ spent = [f \in Fault |-> 0]
  /\ touched = {}
  /\ disturbed = {}
  /\ required = {}
  /\ strays = [w \in Stray |-> NoWorker]
  /\ adrift = {}
  /\ undone = {}

-----------------------------------------------------------------------------
(* Bringing up the object: before the manager starts, or when it is missing *)

Boot ==
  /\ pc = "down"
  /\ pc' = IF cr.exists THEN "idle" ELSE "create"
  /\ UNCHANGED <<cr, cm, cordoned, pluginStale, hw, prev, pass, spent, touched, disturbed,
                 leaseVars>>

Recreate ==
  /\ pc = "idle"
  /\ ~cr.exists
  /\ pc' = "create"
  /\ UNCHANGED <<cr, cm, cordoned, pluginStale, hw, prev, pass, spent, touched, disturbed,
                 leaseVars>>

CreateNodeConfig ==
  /\ pc = "create"
  /\ cr' = [NoNodeConfig EXCEPT !.exists = TRUE, !.generation = 1]
  /\ Goto("describe", [NoPass EXCEPT !.fresh = TRUE])
  /\ Outdated
  /\ UNCHANGED <<cm, cordoned, pluginStale, hw, prev, spent, touched, disturbed, required,
                 adrift, undone>>

DescribeNodeConfig ==
  /\ pc = "describe"
  /\ pass.fresh
  /\ cr' = [cr EXCEPT !.reason = "NotRequested", !.observed = cr.generation]
  /\ Goto("idle", NoPass)
  /\ Outdated
  /\ UNCHANGED <<cm, cordoned, pluginStale, hw, prev, spent, touched, disturbed, required,
                 adrift, undone>>

-----------------------------------------------------------------------------
(* The head of Reconcile *)

(* validateVrbNodeConfig looks at the driver of every physical function. *)
Refused(s) ==
  \/ \E c \in Card : s.pfs[c] \in Rejected
  \/ \E c \in Card \ Installed : Requested(s, c)

ExposedInventoryOutdated == \E c \in Installed : hw[c].vfs # RequestedVFs(cr.spec, c)

BBDevConfigDaemonIsDead ==
  \E c \in Installed : cr.spec.pfs[c] \in VfioPci /\ ~hw[c].alive

(* A variant with a mistake: a new generation alone starts no pass. *)
IsCardUpdateRequiredByState ==
  cr.spec.pfs # NoPFs /\ (ExposedInventoryOutdated \/ BBDevConfigDaemonIsDead)

IsCardUpdateRequired ==
  \/ cr.generation # cr.observed
  \/ cr.spec.pfs # NoPFs /\ (ExposedInventoryOutdated \/ BBDevConfigDaemonIsDead)

InHand == [NoPass EXCEPT !.fresh = TRUE, !.spec = cr.spec, !.observed = cr.observed]

Refuse ==
  /\ pc = "idle"
  /\ cr.exists
  /\ Refused(cr.spec)
  /\ Goto("refuse", InHand)
  /\ UNCHANGED <<cr, cm, cordoned, pluginStale, hw, prev, spent, touched, disturbed, leaseVars>>

(* Reconcile marks every card of the inventory before it knows whether there *)
(* is anything to do.                                                         *)
NothingToDo ==
  /\ pc = "idle"
  /\ cr.exists
  /\ ~Refused(cr.spec)
  /\ ~IsCardUpdateRequired
  /\ required' = Installed
  /\ UNCHANGED <<cr, cm, cordoned, pluginStale, hw, prev, pc, pass, spent, touched, disturbed,
                 strays, adrift, undone>>

(* The cards whose VFs are not all there when the inventory is read are *)
(* configured whatever the spec was before.                             *)
BeginPass ==
  /\ pc = "idle"
  /\ cr.exists
  /\ ~Refused(cr.spec)
  /\ IsCardUpdateRequired
  /\ required' = Installed
  /\ Goto("begin", [InHand EXCEPT !.outdated =
       {c \in Installed : Requested(cr.spec, c) /\ hw[c].vfs # RequestedVFs(cr.spec, c)}])
  /\ UNCHANGED <<cr, cm, cordoned, pluginStale, hw, prev, spent, touched, disturbed, strays,
                 adrift, undone>>

-----------------------------------------------------------------------------
(* Status updates *)

(* A variant with a mistake: successes are counted. *)
ObservedGenerationCounted(reason) ==
  IF reason = "Succeeded" THEN pass.observed + 1 ELSE pass.observed

(* The condition in hand gets it whether or not the write that follows works. *)
ObservedGeneration(reason) ==
  IF reason = "Succeeded" THEN cr.generation ELSE pass.observed

UpdateStatus(reason) ==
  cr' = [cr EXCEPT !.reason = reason, !.observed = ObservedGeneration(reason)]

(* A success, written or not, replaces vrbPreviousConfig. *)
Remember ==
  /\ prev' = pass.spec.pfs
  /\ touched' = touched \ required

(* A variant with a mistake: configurations are compared by their VFs. *)
UpdateRequiredByCount ==
  pass.outdated \cup
    {c \in Installed : prev[c] = NoConfig \/ RequestedVFs(pass.spec, c) # VFAmount[prev[c]]}

(* checkIfDeviceUpdateNeeded: every card, but those whose configuration is the *)
(* one applied last.                                                           *)
Changed == {c \in Installed : prev[c] = NoConfig \/ prev[c] # pass.spec.pfs[c]}

UpdateRequired == pass.outdated \cup Changed

RefuseSpec ==
  /\ pc = "refuse"
  /\ pass.fresh
  /\ UpdateStatus("Failed")
  /\ Goto("idle", NoPass)
  /\ Outdated
  /\ UNCHANGED <<cm, cordoned, pluginStale, hw, prev, spent, touched, disturbed, required,
                 adrift, undone>>

MarkInProgress ==
  /\ pc = "begin"
  /\ pass.fresh
  /\ UpdateStatus("InProgress")
  /\ required' = UpdateRequired
  /\ Goto("drain", pass)
  /\ Outdated
  /\ UNCHANGED <<cm, cordoned, pluginStale, hw, prev, spent, touched, disturbed, adrift, undone>>

Verdict == IF pass.err THEN "Failed" ELSE "Succeeded"

(* A worker just left behind has the object that Reconcile reports on, and *)
(* keeps it as that leaves it.                                             *)
Parted(written) ==
  strays' = [w \in Stray |->
    IF strays[w].with
    THEN [strays[w] EXCEPT !.with = FALSE, !.hand.observed = ObservedGeneration(Verdict)]
    ELSE [strays[w] EXCEPT !.hand.fresh = @ /\ ~written]]

Report ==
  /\ pc = "report"
  /\ pass.fresh
  /\ UpdateStatus(Verdict)
  /\ IF pass.err THEN UNCHANGED <<prev, touched>> ELSE Remember
  /\ Parted(TRUE)
  /\ Goto("idle", NoPass)
  /\ UNCHANGED <<cm, cordoned, pluginStale, hw, spent, disturbed, required, adrift, undone>>

(* Reconcile returns the error of its own writes of the object.  The first one *)
(* of a pass has compared the configurations by then.                          *)
StatusUpdateFails ==
  /\ pc \in {"create", "describe", "refuse", "begin", "report"}
  /\ IF pass.fresh \/ pc = "create" THEN Happens("step") ELSE UNCHANGED spent
  /\ IF pc = "report" /\ ~pass.err THEN Remember ELSE UNCHANGED <<prev, touched>>
  /\ IF pc = "report" THEN Parted(FALSE) ELSE UNCHANGED strays
  /\ required' = IF pc = "begin" THEN Changed ELSE required
  /\ Goto("idle", NoPass)
  /\ UNCHANGED <<cr, cm, cordoned, pluginStale, hw, disturbed, adrift, undone>>

-----------------------------------------------------------------------------
(* configureNode: drain, cards, names, restart, uncordon *)

Drain ==
  /\ pc = "drain"
  /\ cordoned' = (cordoned \/ ~pass.spec.drainSkip)
  /\ Goto("inventory", pass)
  /\ UNCHANGED <<cr, cm, pluginStale, hw, prev, spent, touched, disturbed, leaseVars>>

VrbApplySpec ==
  /\ pc = "inventory"
  /\ LET todo == {c \in required : Requested(pass.spec, c) \/ hw[c].vfs > 0}
     IN  Goto("apply", [pass EXCEPT !.todo = todo])
  /\ UNCHANGED <<cr, cm, cordoned, pluginStale, hw, prev, spent, touched, disturbed, leaseVars>>

First(S, c) == c \in S /\ \A d \in S : c <= d

(* VrbconfigureAccelerator, or VrbcleanAcceleratorConfig for a card that is *)
(* not requested any more.                                                  *)
ConfigureCard(c) ==
  /\ pc = "apply"
  /\ First(pass.todo, c)
  /\ hw' = [hw EXCEPT ![c] = IF Requested(pass.spec, c) THEN Running(pass.spec.pfs[c]) ELSE Blank]
  /\ pluginStale' = (pluginStale \/ hw[c].vfs + hw'[c].vfs > 0)
  /\ Goto("apply", [pass EXCEPT !.todo = @ \ {c}])
  /\ touched' = touched \cup {c}
  /\ disturbed' = disturbed \ {c}
  /\ adrift' = IF Alone THEN adrift \ {c} ELSE adrift
  /\ UNCHANGED <<cr, cm, cordoned, prev, spent, required, strays, undone>>

(* What a failure leaves: the VFs as they were, none, or the new ones unbound. *)
Unfinished(c) ==
  {[cfg |-> NoConfig, vfs |-> n, alive |-> FALSE] :
     n \in {hw[c].vfs, 0, RequestedVFs(pass.spec, c)}}

CardFails(c) ==
  /\ pc = "apply"
  /\ First(pass.todo, c)
  /\ Happens("step")
  /\ \E card \in Unfinished(c) : hw' = [hw EXCEPT ![c] = card]
  /\ pluginStale' = (pluginStale \/ hw'[c].vfs # hw[c].vfs)
  /\ touched' = touched \cup {c}
  /\ Goto("uncordon", [pass EXCEPT !.todo = {}, !.err = TRUE])
  /\ UNCHANGED <<cr, cm, cordoned, prev, disturbed, leaseVars>>

(* A variant with a mistake: the plugin restarts after the first name. *)
NextNameNone(locals) ==
  Goto(IF locals.names = {} \/ pc = "listed" THEN "restart" ELSE "load", locals)

NextName(locals) == Goto(IF locals.names = {} THEN "restart" ELSE "load", locals)

AllConfigured ==
  /\ pc = "apply"
  /\ pass.todo = {}
  /\ NextName([pass EXCEPT !.names = Named(pass.spec)])
  /\ UNCHANGED <<cr, cm, cordoned, pluginStale, hw, prev, spent, touched, disturbed, leaseVars>>

RestartDevicePlugin ==
  /\ pc = "restart"
  /\ pluginStale' = FALSE
  /\ undone' = IF Alone THEN undone \ {"plugin"} ELSE undone
  /\ Goto("uncordon", pass)
  /\ UNCHANGED <<cr, cm, cordoned, hw, prev, spent, touched, disturbed, required, strays, adrift>>

Uncordon ==
  /\ pc = "uncordon"
  /\ cordoned' = (cordoned /\ pass.spec.drainSkip)
  /\ undone' = IF Alone /\ ~pass.spec.drainSkip THEN undone \ {"node"} ELSE undone
  /\ Goto("report", pass)
  /\ UNCHANGED <<cr, cm, pluginStale, hw, prev, spent, touched, disturbed, required, strays,
                 adrift>>

(* Draining, reading the inventory, restarting the plugin or uncordoning fails. *)
CallFails ==
  /\ \/ pc \in {"drain", "uncordon"} /\ ~pass.spec.drainSkip
     \/ pc \in {"inventory", "restart"}
  /\ Happens("step")
  /\ cordoned' \in (IF pc = "drain" THEN {cordoned, TRUE} ELSE {cordoned})
  /\ Goto(IF pc = "uncordon" THEN "report" ELSE "uncordon", [pass EXCEPT !.err = TRUE])
  /\ UNCHANGED <<cr, cm, pluginStale, hw, prev, touched, disturbed, leaseVars>>

-----------------------------------------------------------------------------
(* handleSriovDevicePluginConfigMap: one named card after the other *)

Naming == {"load", "addkey", "match", "reread", "write", "listed", "unlisted"}

(* What this pass has listed, somebody else may have written over. *)
ListsOverwritten ==
  pass' = IF pc \in Naming \cup {"restart", "uncordon", "report"}
          THEN [pass EXCEPT !.missed = Card]
          ELSE pass

NameDone(c) == NextName([pass EXCEPT !.names = @ \ {c}, !.list = {}, !.found = FALSE])

(* loadCurrentDevicePluginConfig reads the map; without this node's key it *)
(* adds a copy of the shared list.                                         *)
LoadList ==
  /\ pc = "load"
  /\ IF cm.own = Absent
     THEN Goto("addkey", [pass EXCEPT !.copy = cm, !.list = cm.shared])
     ELSE Goto("match", [pass EXCEPT !.copy = cm, !.list = cm.own])
  /\ UNCHANGED <<cr, cm, cordoned, pluginStale, hw, prev, spent, touched, disturbed, leaseVars>>

(* The API server takes an update only of the version it was made from. *)
AddKey ==
  /\ pc = "addkey"
  /\ cm = pass.copy
  /\ cm' = [cm EXCEPT !.own = pass.list]
  /\ Goto("match", pass)
  /\ UNCHANGED <<cr, cordoned, pluginStale, hw, prev, spent, touched, disturbed, leaseVars>>

(* A variant with a mistake: an entry that has a PF_PCI_ADDR is never taken. *)
MatchesUnclaimed(e, c) == e.pf = AnyCard

(* matchPFPCIAddress: an entry without PF_PCI_ADDR is anybody's. *)
Matches(e, c) == e.pf \in {AnyCard, c}

EntryOf(s, c, vfs) == [pf |-> c, name |-> NameOf(s, c), vfs |-> vfs]

(* resourceFoundAndUpdated and handleResourceNotFound up to the write: an     *)
(* entry that has the name and the number of VFs is left, one that has not is *)
(* replaced, a missing one is added.                                          *)
EditList(c, vfs, missed) ==
  LET mine == {e \in pass.list : Matches(e, c)}
      new  == EntryOf(pass.spec, c, vfs)
  IN  IF new \in mine
      THEN Goto("listed", [pass EXCEPT !.missed = missed])
      ELSE Goto("reread", [pass EXCEPT !.list = (@ \ mine) \cup {new}, !.found = (mine # {}),
                                       !.missed = missed])

MatchResource(c) ==
  /\ pc = "match"
  /\ First(pass.names, c)
  /\ EditList(c, hw[c].vfs, pass.missed)
  /\ UNCHANGED <<cr, cm, cordoned, pluginStale, hw, prev, spent, touched, disturbed, leaseVars>>

(* FindVFs fails: the list gets an entry without addresses. *)
VFsUnread(c) ==
  /\ pc = "match"
  /\ First(pass.names, c)
  /\ Happens("step")
  /\ EditList(c, 0, pass.missed \cup {c})
  /\ UNCHANGED <<cr, cm, cordoned, pluginStale, hw, prev, touched, disturbed, leaseVars>>

(* GetVFDeviceID fails: no entry is found and none is added. *)
DeviceIDUnread(c) ==
  /\ pc = "match"
  /\ First(pass.names, c)
  /\ Happens("step")
  /\ NextName([pass EXCEPT !.names = @ \ {c}, !.list = {}, !.missed = @ \cup {c}])
  /\ UNCHANGED <<cr, cm, cordoned, pluginStale, hw, prev, touched, disturbed, leaseVars>>

RereadMap ==
  /\ pc = "reread"
  /\ Goto("write", [pass EXCEPT !.copy = cm])
  /\ UNCHANGED <<cr, cm, cordoned, pluginStale, hw, prev, spent, touched, disturbed, leaseVars>>

Edited(map) ==
  IF map.own # Absent THEN [map EXCEPT !.own = pass.list] ELSE [map EXCEPT !.shared = pass.list]

(* A variant with a mistake: the update is forced over whatever is there. *)
ForcedUpdate(c) ==
  /\ pc = "write"
  /\ First(pass.names, c)
  /\ cm' = Edited(pass.copy)
  /\ pluginStale' = TRUE
  /\ IF pass.found THEN Goto("listed", pass) ELSE NameDone(c)
  /\ UNCHANGED <<cr, cordoned, hw, prev, spent, touched, disturbed, leaseVars>>

(* updateConfigMap.  An entry that was found is reported as a success at once, *)
(* one that was added is not.                                                  *)
UpdateConfigMap(c) ==
  /\ pc = "write"
  /\ First(pass.names, c)
  /\ cm = pass.copy
  /\ cm' = Edited(pass.copy)
  /\ pluginStale' = TRUE
  /\ IF pass.found THEN Goto("listed", pass) ELSE NameDone(c)
  /\ UNCHANGED <<cr, cordoned, hw, prev, spent, touched, disturbed, leaseVars>>

(* loadAndModifyDevicePluginConfig answers every error with a status update, *)
(* but an added entry that cannot be written ends the pass.                  *)
ConfigMapFails ==
  /\ pc \in {"load", "addkey", "reread", "write"}
  /\ IF pc \in {"addkey", "write"} /\ cm # pass.copy THEN UNCHANGED spent ELSE Happens("step")
  /\ IF pc \in {"load", "addkey"} \/ pass.found
     THEN Goto("unlisted", pass)
     ELSE Goto("uncordon", [pass EXCEPT !.names = {}, !.err = TRUE])
  /\ UNCHANGED <<cr, cm, cordoned, pluginStale, hw, prev, touched, disturbed, leaseVars>>

(* The status says Succeeded here, in the middle of the pass. *)
ReportListed(c) ==
  /\ pc = "listed"
  /\ First(pass.names, c)
  /\ pass.fresh
  /\ UpdateStatus("Succeeded")
  /\ Remember
  /\ NextName([pass EXCEPT !.names = @ \ {c}, !.list = {}, !.found = FALSE,
                           !.observed = ObservedGeneration("Succeeded")])
  /\ Outdated
  /\ UNCHANGED <<cm, cordoned, pluginStale, hw, spent, disturbed, required, adrift, undone>>

(* It says Failed here, and the pass goes on as if nothing were wrong. *)
ReportUnlisted(c) ==
  /\ pc = "unlisted"
  /\ First(pass.names, c)
  /\ pass.fresh
  /\ UpdateStatus("Failed")
  /\ NextName([pass EXCEPT !.names = @ \ {c}, !.list = {}, !.found = FALSE,
                           !.missed = @ \cup {c}])
  /\ Outdated
  /\ UNCHANGED <<cm, cordoned, pluginStale, hw, prev, spent, touched, disturbed, required,
                 adrift, undone>>

(* A status update in the middle of the pass that fails ends the worker; the *)
(* condition in hand keeps what it would have said.                          *)
ReportNameFails ==
  /\ pc \in {"listed", "unlisted"}
  /\ IF pass.fresh THEN Happens("step") ELSE UNCHANGED spent
  /\ LET reason == IF pc = "listed" THEN "Succeeded" ELSE "Failed"
     IN  Goto("uncordon", [pass EXCEPT !.observed = ObservedGeneration(reason), !.err = TRUE,
                                       !.names = {}])
  /\ IF pc = "listed" THEN Remember ELSE UNCHANGED <<prev, touched>>
  /\ UNCHANGED <<cr, cm, cordoned, pluginStale, hw, disturbed, leaseVars>>

-----------------------------------------------------------------------------
(* A lost lease, and the worker left behind *)

(* What a lost lease leaves undone of the pass that lost it. *)
Unlisted ==
  CASE pc \in Naming                          -> pass.names
    [] pc \in {"drain", "inventory", "apply"} -> Named(pass.spec)
    [] OTHER                                  -> {}

(* The elector returns when it cannot renew the lease, Run has no error to     *)
(* give but those noted so far, and Reconcile goes on to its report.  The      *)
(* worker may come to every card of its inventory that is not behind it.       *)
LoseLease(w) ==
  /\ strays[w] = NoWorker
  /\ \/ pc \in {"drain", "inventory", "apply", "restart"} \cup Naming
     \/ pc = "uncordon" /\ ~pass.spec.drainSkip
  /\ Happens("lease")
  /\ LET left == {d \in Installed : /\ Requested(pass.spec, d) \/ d \in pass.todo
                                    /\ \E c \in pass.todo : c <= d}
         hand == [pass EXCEPT !.todo = left, !.outdated = {}, !.missed = {}, !.err = FALSE]
     IN  strays' = [strays EXCEPT ![w] = [at |-> pc, with |-> TRUE, hand |-> hand]]
  /\ adrift' = adrift \cup (IF pc \in {"drain", "inventory"} THEN required ELSE pass.todo)
  /\ undone' = undone \cup (IF pc = "uncordon" THEN {} ELSE {"plugin"})
                      \cup (IF pass.spec.drainSkip THEN {} ELSE {"node"})
  /\ Goto("report", [pass EXCEPT !.todo = {}, !.names = {}, !.missed = @ \cup Unlisted])
  /\ UNCHANGED <<cr, cm, cordoned, pluginStale, hw, prev, touched, disturbed, required>>

Ended(w) == strays' = [strays EXCEPT ![w] = NoWorker]

StrayGoto(w, step, locals) == strays' = [strays EXCEPT ![w].at = step, ![w].hand = locals]

StrayNextName(w, locals) == StrayGoto(w, IF locals.names = {} THEN "restart" ELSE "load", locals)

(* What a step of such a worker changes of the pass under way, if any, is said *)
(* where it does.                                                              *)
Aside == UNCHANGED <<pc, touched, disturbed, required>>

Elsewhere == Aside /\ UNCHANGED <<cr, prev, pass>>

StrayDrain(w) ==
  /\ strays[w].at = "drain"
  /\ cordoned' = (cordoned \/ ~strays[w].hand.spec.drainSkip)
  /\ StrayGoto(w, "inventory", strays[w].hand)
  /\ Elsewhere
  /\ UNCHANGED <<cm, pluginStale, hw, spent, adrift, undone>>

(* The worker looks cards up in vrbDeviceUpdateRequired one by one, and a later *)
(* pass may have rewritten it, or be about to: it goes on with the first card   *)
(* it finds there.                                                              *)
StrayGoesOn(w, cards) ==
  \E map \in {required} \cup (IF pc = "begin" THEN {Changed} ELSE {}) :
    StrayGoto(w, "apply",
      [strays[w].hand EXCEPT !.todo = {c \in cards : \E d \in cards \cap map : d <= c}])

StrayApplySpec(w) ==
  /\ strays[w].at = "inventory"
  /\ StrayGoesOn(w, {c \in Installed : Requested(strays[w].hand.spec, c) \/ hw[c].vfs > 0})
  /\ Elsewhere
  /\ UNCHANGED <<cm, cordoned, pluginStale, hw, spent, adrift, undone>>

StrayCard(w, c) ==
  LET s == strays[w].hand.spec
  IN  /\ strays[w].at = "apply"
      /\ First(strays[w].hand.todo, c)
      /\ \/ /\ hw' = [hw EXCEPT ![c] = IF Requested(s, c) THEN Running(s.pfs[c]) ELSE Blank]
            /\ pluginStale' = (pluginStale \/ hw[c].vfs + hw'[c].vfs > 0)
            /\ StrayGoesOn(w, strays[w].hand.todo \ {c})
            /\ UNCHANGED spent
         \/ /\ \E n \in {hw[c].vfs, 0, RequestedVFs(s, c)} :
                 hw' = [hw EXCEPT ![c] = [Blank EXCEPT !.vfs = n]]
            /\ pluginStale' = (pluginStale \/ hw'[c].vfs # hw[c].vfs)
            /\ Happens("step")
            /\ Ended(w)
      /\ adrift' = adrift \cup {c}
      /\ Elsewhere
      /\ UNCHANGED <<cm, cordoned, undone>>

StrayAllConfigured(w) ==
  /\ strays[w].at = "apply"
  /\ strays[w].hand.todo = {}
  /\ StrayNextName(w, [strays[w].hand EXCEPT !.names = Named(strays[w].hand.spec)])
  /\ Elsewhere
  /\ UNCHANGED <<cm, cordoned, pluginStale, hw, spent, adrift, undone>>

StrayLoad(w) ==
  /\ strays[w].at = "load"
  /\ StrayGoto(w, IF cm.own = Absent THEN "addkey" ELSE "match",
               [strays[w].hand EXCEPT !.copy = cm, !.list = PluginList])
  /\ Elsewhere
  /\ UNCHANGED <<cm, cordoned, pluginStale, hw, spent, adrift, undone>>

StrayAddKey(w) ==
  /\ strays[w].at = "addkey"
  /\ cm = strays[w].hand.copy
  /\ cm' = [cm EXCEPT !.own = strays[w].hand.list]
  /\ StrayGoto(w, "match", strays[w].hand)
  /\ ListsOverwritten
  /\ Aside
  /\ UNCHANGED <<cr, prev, cordoned, pluginStale, hw, spent, adrift, undone>>

WithoutName(locals, c) == [locals EXCEPT !.names = @ \ {c}, !.list = {}, !.found = FALSE]

(* Without the VFs' addresses the entry is made all the same, without the *)
(* device ID of a VF it is not.                                           *)
StrayMatch(w, c) ==
  LET l == strays[w].hand
      mine == {e \in l.list : Matches(e, c)}
  IN  /\ strays[w].at = "match"
      /\ First(l.names, c)
      /\ \/ \E n \in {hw[c].vfs, 0} :
              /\ IF n = hw[c].vfs THEN UNCHANGED spent ELSE Happens("step")
              /\ LET new == EntryOf(l.spec, c, n)
                 IN  IF new \in mine
                     THEN StrayGoto(w, "listed", l)
                     ELSE StrayGoto(w, "reread", [l EXCEPT !.list = (@ \ mine) \cup {new},
                                                           !.found = (mine # {})])
         \/ /\ Happens("step")
            /\ StrayNextName(w, WithoutName(l, c))
      /\ Elsewhere
      /\ UNCHANGED <<cm, cordoned, pluginStale, hw, adrift, undone>>

StrayReread(w) ==
  /\ strays[w].at = "reread"
  /\ StrayGoto(w, "write", [strays[w].hand EXCEPT !.copy = cm])
  /\ Elsewhere
  /\ UNCHANGED <<cm, cordoned, pluginStale, hw, spent, adrift, undone>>

StrayWrite(w, c) ==
  LET l == strays[w].hand
  IN  /\ strays[w].at = "write"
      /\ First(l.names, c)
      /\ cm = l.copy
      /\ cm' = IF cm.own # Absent THEN [cm EXCEPT !.own = l.list] ELSE [cm EXCEPT !.shared = l.list]
      /\ pluginStale' = TRUE
      /\ IF l.found THEN StrayGoto(w, "listed", l) ELSE StrayNextName(w, WithoutName(l, c))
      /\ ListsOverwritten
      /\ Aside
      /\ UNCHANGED <<cr, prev, cordoned, hw, spent, adrift, undone>>

(* After an error and after the restart comes the uncordon, whose Get fails on *)
(* the cancelled context: the worker is over.                                  *)
StrayMapFails(w) ==
  LET l == strays[w].hand
  IN  /\ strays[w].at \in {"load", "addkey", "reread", "write"}
      /\ IF strays[w].at \in {"addkey", "write"} /\ cm # l.copy
         THEN UNCHANGED spent
         ELSE Happens("step")
      /\ IF strays[w].at \in {"load", "addkey"} \/ l.found
         THEN StrayGoto(w, "unlisted", l)
         ELSE Ended(w)
      /\ Elsewhere
      /\ UNCHANGED <<cm, cordoned, pluginStale, hw, adrift, undone>>

(* Its successes replace vrbPreviousConfig, too. *)
StrayRemembers(w) ==
  IF strays[w].at = "listed"
  THEN /\ prev' = strays[w].hand.spec.pfs
       /\ adrift' = adrift \cup {c \in Installed : prev'[c] # prev[c]}
  ELSE UNCHANGED <<prev, adrift>>

(* The observed generation in the hands of a Reconcile that is to report a *)
(* success does not matter.                                                *)
StrayReport(w, c) ==
  LET l == strays[w].hand
      reason == IF strays[w].at = "listed" THEN "Succeeded" ELSE "Failed"
      seen == IF strays[w].at = "listed" THEN cr.generation ELSE l.observed
  IN  /\ strays[w].at \in {"listed", "unlisted"}
      /\ First(l.names, c)
      /\ l.fresh
      /\ cr' = [cr EXCEPT !.reason = reason, !.observed = seen]
      /\ StrayRemembers(w)
      /\ LET named == [WithoutName(l, c) EXCEPT !.observed = seen]
         IN  strays' = [v \in Stray |->
               IF v = w
               THEN [strays[w] EXCEPT !.at = IF named.names = {} THEN "restart" ELSE "load",
                                      !.hand = named]
               ELSE [strays[v] EXCEPT !.hand.fresh = FALSE]]
      /\ pass' = [pass EXCEPT !.fresh = @ /\ strays[w].with]
      /\ Aside
      /\ UNCHANGED <<cm, cordoned, pluginStale, hw, spent, undone>>

StrayReportFails(w) ==
  /\ strays[w].at \in {"listed", "unlisted"}
  /\ IF strays[w].hand.fresh THEN Happens("step") ELSE UNCHANGED spent
  /\ StrayRemembers(w)
  /\ Ended(w)
  /\ Aside
  /\ UNCHANGED <<cr, pass, cm, cordoned, pluginStale, hw, undone>>

StrayRestart(w) ==
  /\ strays[w].at = "restart"
  /\ pluginStale' = FALSE
  /\ Ended(w)
  /\ Elsewhere
  /\ UNCHANGED <<cm, cordoned, hw, spent, adrift, undone>>

StrayCallFails(w) ==
  /\ \/ strays[w].at = "drain" /\ ~strays[w].hand.spec.drainSkip /\ cordoned' = TRUE
     \/ strays[w].at \in {"inventory", "restart"} /\ UNCHANGED cordoned
  /\ Happens("step")
  /\ Ended(w)
  /\ Elsewhere
  /\ UNCHANGED <<cm, pluginStale, hw, adrift, undone>>

(* Lost in the uncordon itself, it may have the node already. *)
StrayUncordon(w) ==
  /\ strays[w].at = "uncordon"
  /\ cordoned' = FALSE
  /\ Ended(w)
  /\ Elsewhere
  /\ UNCHANGED <<cm, pluginStale, hw, spent, adrift, undone>>

(* The node is read with the worker's context before it is cordoned or uncordoned. *)
StrayCancelled(w) ==
  /\ strays[w].at \in {"drain", "uncordon"}
  /\ ~strays[w].hand.spec.drainSkip
  /\ Ended(w)
  /\ Elsewhere
  /\ UNCHANGED <<cm, cordoned, pluginStale, hw, spent, adrift, undone>>

LeftBehind(w) ==
  \/ StrayDrain(w)
  \/ StrayApplySpec(w)
  \/ \E c \in Installed :
       StrayCard(w, c) \/ StrayMatch(w, c) \/ StrayWrite(w, c) \/ StrayReport(w, c)
  \/ StrayAllConfigured(w)
  \/ StrayLoad(w)
  \/ StrayAddKey(w)
  \/ StrayReread(w)
  \/ StrayMapFails(w)
  \/ StrayReportFails(w)
  \/ StrayRestart(w)
  \/ StrayCallFails(w)
  \/ StrayUncordon(w)
  \/ StrayCancelled(w)

-----------------------------------------------------------------------------
(* The environment *)

SetSpec(s) ==
  /\ cr.exists
  /\ s # cr.spec
  /\ Happens("spec")
  /\ cr' = [cr EXCEPT !.spec = s, !.generation = @ + 1]
  /\ pass' = [pass EXCEPT !.fresh = FALSE]
  /\ Outdated
  /\ UNCHANGED <<cm, cordoned, pluginStale, hw, prev, pc, touched, disturbed, required,
                 adrift, undone>>

DeleteNodeConfig ==
  /\ cr.exists
  /\ Happens("delete")
  /\ cr' = NoNodeConfig
  /\ pass' = [pass EXCEPT !.fresh = FALSE]
  /\ Outdated
  /\ UNCHANGED <<cm, cordoned, pluginStale, hw, prev, pc, touched, disturbed, required, adrift,
                 undone>>

ResetVFs(c) ==
  /\ hw[c].vfs > 0
  /\ Happens("numvfs")
  /\ hw' = [hw EXCEPT ![c].vfs = 0]
  /\ disturbed' = disturbed \cup {c}
  /\ UNCHANGED <<cr, cm, cordoned, pluginStale, prev, pc, pass, touched, leaseVars>>

(* createOrUpdateObject writes sriovdp-config as the assets have it. *)
DeployConfigMap ==
  /\ Happens("deploy")
  /\ cm' = Deployed
  /\ ListsOverwritten
  /\ UNCHANGED <<cr, cordoned, pluginStale, hw, prev, pc, touched, disturbed, leaseVars>>

OtherNodeLists ==
  /\ Happens("other")
  /\ cm' = [cm EXCEPT !.other = {SharedEntry}]
  /\ UNCHANGED <<cr, cordoned, pluginStale, hw, prev, pc, pass, touched, disturbed, leaseVars>>

Crash ==
  /\ pc # "down"
  /\ Happens("crash")
  /\ hw' = [c \in Installed |-> [hw[c] EXCEPT !.alive = FALSE]]
  /\ disturbed' = disturbed \cup {c \in Installed : hw[c].alive}
  /\ prev' = NoPFs
  /\ required' = {}
  /\ strays' = [w \in Stray |-> NoWorker]
  /\ Goto("down", NoPass)
  /\ UNCHANGED <<cr, cm, cordoned, pluginStale, touched, adrift, undone>>

-----------------------------------------------------------------------------

CardStep(c) ==
  \/ ConfigureCard(c)
  \/ MatchResource(c)
  \/ UpdateConfigMap(c)
  \/ ReportListed(c)
  \/ ReportUnlisted(c)

Progress ==
  \/ Boot
  \/ Recreate
  \/ CreateNodeConfig
  \/ DescribeNodeConfig
  \/ Refuse
  \/ BeginPass
  \/ RefuseSpec
  \/ MarkInProgress
  \/ Drain
  \/ VrbApplySpec
  \/ AllConfigured
  \/ LoadList
  \/ AddKey
  \/ RereadMap
  \/ \E c \in Installed : CardStep(c)
  \/ RestartDevicePlugin
  \/ Uncordon
  \/ Report

Failure ==
  \/ StatusUpdateFails
  \/ \E c \in Installed : CardFails(c) \/ VFsUnread(c) \/ DeviceIDUnread(c)
  \/ CallFails
  \/ ConfigMapFails
  \/ ReportNameFails

Environment ==
  \/ \E s \in Propagated : SetSpec(s)
  \/ DeleteNodeConfig
  \/ \E c \in Installed : ResetVFs(c)
  \/ DeployConfigMap
  \/ OtherNodeLists
  \/ Crash

Next ==
  \/ NothingToDo
  \/ Progress
  \/ Failure
  \/ \E w \in Stray : LoseLease(w) \/ LeftBehind(w)
  \/ Environment

Spec == Init /\ [][Next]_vars

(* As in NodeDaemon: a pass runs to its end and Reconcile is called again, and *)
(* a worker left behind runs to its end; a conflict is an outcome of a call     *)
(* and not a fault.                                                             *)
Conflict ==
  \/ ((StatusUpdateFails /\ pc # "create") \/ ReportNameFails) /\ ~pass.fresh
  \/ ConfigMapFails /\ pc \in {"addkey", "write"} /\ cm # pass.copy

FairSpec ==
  /\ Spec
  /\ WF_vars(Progress \/ Conflict)
  /\ WF_vars(\E w \in Stray : LeftBehind(w))

-----------------------------------------------------------------------------
(* Properties *)

(* The type of each variable; the observed generation is one the object had. *)
TypeOK ==
  /\ cr.spec \in NodeSpec
  /\ cr.observed <= cr.generation
  /\ cm \in ConfigMap
  /\ cordoned \in BOOLEAN /\ pluginStale \in BOOLEAN
  /\ hw \in [Installed -> [cfg : Config \cup {NoConfig}, vfs : Nat, alive : BOOLEAN]]
  /\ prev \in [Card -> Config \cup {NoConfig}]
  /\ pass.todo \cup pass.outdated \cup required \cup adrift \subseteq Installed
  /\ undone \subseteq {"plugin", "node"}
  /\ pass.names \cup pass.missed \subseteq Card
  /\ touched \cup disturbed \subseteq Installed

Applied == cr.exists /\ cr.reason = "Succeeded" /\ cr.observed = cr.generation

(* Succeeded for the current generation, written in the middle of a pass or at *)
(* its end, or by a worker left behind, means that every card runs what the    *)
(* spec asks for, unless a pass for another spec was left half way, the         *)
(* environment changed the card, or a lost lease left it undone or to a worker  *)
(* left behind; until a pass without such company has configured it.            *)
AppliedMatchesHardware ==
  Applied =>
    \A c \in Installed :
      IF Requested(cr.spec, c)
      THEN c \notin touched \cup disturbed \cup adrift => hw[c] = Running(cr.spec.pfs[c])
      ELSE c \notin adrift => hw[c].vfs = 0

(* The device plugin is never told twice of a card: with an entry per name   *)
(* one VF would be handed out as two resources.  Renames, crashes between the *)
(* two writes and copies of a shared list that another pass wrote into all    *)
(* keep it so, and so do two workers on one list.                             *)
OneEntryPerCard ==
  \A list \in {cm.shared, PluginList} :
    \A d, e \in list : d.pf = e.pf => d = e

(* The success that ends a pass is a complete one: the plugin has restarted    *)
(* after the last change of VFs and names, the node is schedulable again, and   *)
(* every named card is in the plugin's list with its name and its VFs, but for *)
(* those whose listing failed without ending the pass, and those a pass for     *)
(* another spec left half way or the environment changed.  A lost lease leaves  *)
(* the restart and the uncordon undone until a later pass without a worker      *)
(* beside it has done them, and its cards and names.                            *)
PassEndsComplete ==
  [][Report /\ cr'.reason = "Succeeded" =>
       /\ "plugin" \notin undone => ~pluginStale
       /\ "node" \notin undone /\ cordoned => pass.spec.drainSkip
       /\ \A c \in Named(pass.spec) \ (pass.missed \cup touched' \cup disturbed \cup adrift) :
            EntryOf(pass.spec, c, RequestedVFs(pass.spec, c)) \in PluginList]_vars

(* Two daemons write one map: a write of this one, or of a worker it left      *)
(* behind, never undoes what another wrote between its read and its write.     *)
OtherNodesKept ==
  [][(\/ pc \in {"addkey", "write"} /\ pc' # pc
      \/ \E w \in Stray : strays[w].at \in {"addkey", "write"} /\ strays'[w] # strays[w])
     => cm'.other = cm.other]_vars

Appliable(s) == \A c \in Card : Requested(s, c) => c \in Installed /\ s.pfs[c] \notin Rejected

(* Once faults and spec changes cease, the generation the object is left with *)
(* is observed, unless its spec cannot be applied.                            *)
GenerationObserved ==
  []<>(cr.exists /\ (Appliable(cr.spec) => cr.observed = cr.generation))

=============================================================================
