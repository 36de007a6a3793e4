------------------------------ MODULE Operator ------------------------------
(***************************************************************************)
(* The operator's pods, the objects they deploy, the webhook they serve,   *)
(* and the labelers that run once deployed (main.go, pkg/common/assets,    *)
(* cmd/labeler).                                                           *)
(*                                                                         *)
(* A pod that starts writes one ConfigMap per asset from its files (the    *)
(* outer ConfigMaps), reads them back, and creates or updates the objects  *)
(* they hold; the daemon's DaemonSet it waits for.  Any error ends the     *)
(* process, and the container starts again.  Then it asks for two          *)
(* replicas, and serves the controllers and webhooks.                      *)
(*                                                                         *)
(* An administrator edits or pins (immutable: true) ConfigMaps, VRB        *)
(* daemons add their lists to the device plugin's ConfigMap, an upgrade    *)
(* replaces the pods.  Objects that are neither ConfigMaps, Secrets nor    *)
(* DaemonSets are left out: nothing but their creation matters.            *)
(***************************************************************************)
EXTENDS Admission

CONSTANTS
  Pod,          \* places for a pod
  Release,      \* what the Deployment may say: an image and its environment
  Asset,        \* the assets, 1 to their number
  Object,       \* the objects in them
  AssetOf,      \* the asset of an object
  ConfigMap,    \* the objects that are ConfigMaps; PluginMap is one of them
  PluginMap,    \* the ConfigMap of the device plugin
  Secret,       \* the Secrets: immutable in the template
  DaemonSet,    \* the DaemonSets
  Awaited,      \* the DaemonSets a pod waits for
  Labeler,      \* the DaemonSet of the labelers
  Shipped,      \* what the files of a release hold: by asset, by object
  Edits,        \* what an administrator may write instead: [asset, data]
  SingleNode,   \* the cluster has one node
  Node,         \* the nodes
  HasCard,      \* those with an accelerator of either list
  Present,      \* the label for them
  OtherLabel,   \* a label of somebody else
  Submissions,  \* cluster configurations users submit, within the CRD's schema
  NotThere,     \* no object, or nothing
  FaultPlans    \* bounds on the events of one behaviour, by kind

(***************************************************************************)
(* "call"     a call of the API server fails, or a wait times out          *)
(* "crash"    a container is killed                                        *)
(* "admin"    an edit, a pin, a deletion                                   *)
(* "upgrade"  the Deployment changes                                       *)
(* "list"     a daemon writes its list into the device plugin's ConfigMap  *)
(* "look"     a labeler runs                                               *)
(* "label"    somebody changes a label of a node                           *)
(* "submit"   a user submits a cluster configuration                       *)
(***************************************************************************)
Fault == {"call", "crash", "admin", "upgrade", "list", "look", "label", "submit"}

Held(a) == {o \in Object : AssetOf[o] = a}

(* What is stored of an asset, or of an object: its data, from the files of a    *)
(* release or from an administrator, the immutable flag, and the lists of nodes. *)
Content(a) == {Shipped[r][a] : r \in Release} \cup {e.data : e \in {x \in Edits : x.asset = a}}

OuterMap == [data : UNION {Content(a) : a \in Asset}, pinned : BOOLEAN, lists : SUBSET Node]

InnerObject ==
  [data : UNION {{d[o] : d \in Content(AssetOf[o])} : o \in Object}, pinned : BOOLEAN, lists : SUBSET Node]

ASSUME AssetAssumption ==
  /\ IsFiniteSet(Asset) /\ Asset # {} /\ Asset = 1..Cardinality(Asset)
  /\ AssetOf \in [Object -> Asset]
  /\ \A a \in Asset : Held(a) # {}
  /\ PluginMap \in ConfigMap
  /\ Awaited \subseteq DaemonSet /\ Labeler \in DaemonSet
  /\ ConfigMap \cup Secret \cup DaemonSet \subseteq Object
  /\ HasCard \subseteq Node

ASSUME ReleaseAssumption ==
  /\ \E r \in Release : \A s \in Release : r <= s
  /\ \A r \in Release, a \in Asset : DOMAIN Shipped[r][a] = Held(a)
  /\ \A e \in Edits : e.asset \in Asset /\ DOMAIN e.data = Held(e.asset)

(* The schemas of the custom resources know the sections of their kind. *)
ASSUME SubmissionAssumption ==
  \A cfg \in Submissions :
    /\ cfg.kind \in {"fec", "vrb"}
    /\ \A m \in DOMAIN cfg.sections :
         \E i \in DOMAIN Sections(cfg.kind) : Sections(cfg.kind)[i] = m

(* Names are told apart, and NotThere from what is there. *)
ASSUME NameAssumption ==
  /\ Asset \cap Object = {}
  /\ NotThere \notin Pod \cup Asset \cup Object
  /\ NotThere \notin OuterMap
  /\ NotThere \notin InnerObject

VARIABLES
  release,  \* what the Deployment says, and how often it was changed
  pod,      \* the pods
  outer,    \* the outer ConfigMaps
  inner,    \* the objects
  rollout,  \* what the status of an awaited DaemonSet says
  label,    \* the labels of the nodes
  labeler,  \* the labels a labeler has read and not written yet
  stored,   \* the cluster configuration that was admitted last
  spent     \* events so far

vars == <<release, pod, outer, inner, rollout, label, labeler, stored, spent>>

operatorVars == <<release, pod, outer, inner, rollout>>

nodeVars == <<label, labeler, stored>>

-----------------------------------------------------------------------------
(***************************************************************************)
(* step    files, load, objects, wait, replicas, serving                   *)
(* asset   the asset in work        left    its objects still to deploy    *)
(* loaded  what was read from the outer ConfigMaps                         *)
(* item    the object in work       seen    what Get answered              *)
(* fresh   nobody has written it since                                     *)
(* alone   nobody else has changed outer or inner objects since it started *)
(***************************************************************************)
Off ==
  [release |-> NotThere, step |-> "off", asset |-> 1, left |-> {}, loaded |-> <<>>,
   item |-> NotThere, seen |-> NotThere, fresh |-> TRUE, alone |-> TRUE]

Started(r) == [Off EXCEPT !.release = r, !.step = "files"]

Happens(f) ==
  /\ spent' = [spent EXCEPT ![f] = @ + 1]
  /\ \E plan \in FaultPlans : \A k \in Fault : spent'[k] <= plan[k]

Init ==
  /\ release = [now |-> CHOOSE r \in Release : \A s \in Release : r <= s, replicas |-> 1]
  /\ pod = [p \in Pod |-> Off]
  /\ outer = [a \in Asset |-> NotThere]
  /\ inner = [o \in Object |-> NotThere]
  /\ rollout = [o \in Awaited |-> "ready"]
  /\ label = [n \in Node |-> {OtherLabel}]
  /\ labeler = [n \in Node |-> NotThere]
  /\ stored = NotThere
  /\ spent = [f \in Fault |-> 0]

Goto(p, rec) == pod' = [pod EXCEPT ![p] = rec]

(* A variant with a mistake: the object stays in hand. *)
IdleKept(rec) == [rec EXCEPT !.fresh = TRUE]

Idle(rec) == [rec EXCEPT !.item = NotThere, !.seen = NotThere, !.fresh = TRUE]

(* os.Exit(1): the container starts again, with what its pod was made with. *)
Exit(p) ==
  /\ Goto(p, Started(pod[p].release))
  /\ UNCHANGED <<release, outer, inner, rollout>>

(* Object i is written by w, a pod or nobody: what others hold of it is old. *)
Touched(w, i, pods) ==
  [p \in Pod |->
     [pods[p] EXCEPT !.fresh = @ /\ (p = w \/ pods[p].item # i),
                     !.alone = @ /\ (p = w \/ pods[p].step = "off")]]

-----------------------------------------------------------------------------
(* createOrUpdateObject, for an outer ConfigMap or an object *)

IsOuter(i) == i \in Asset

Current(i) == IF IsOuter(i) THEN outer[i] ELSE inner[i]

Wanted(p, i) ==
  IF IsOuter(i) THEN Shipped[pod[p].release][i] ELSE pod[p].loaded[AssetOf[i]][i]

IsConfigMap(i) == IsOuter(i) \/ i \in ConfigMap

(* Get, and for a DaemonSet the tolerations of the operator's Deployment. *)
Get(p, i) == Goto(p, [pod[p] EXCEPT !.item = i, !.seen = Current(i), !.fresh = TRUE])

(* A variant with a mistake: the immutable flag is not looked at. *)
SkippedNever(p) == FALSE

Skipped(p) == IsConfigMap(pod[p].item) /\ pod[p].seen.pinned

(* A variant with a mistake: equal, with what others have added. *)
UnchangedExactly(p) ==
  /\ IsConfigMap(pod[p].item)
  /\ pod[p].seen.data = Wanted(p, pod[p].item)
  /\ pod[p].seen.lists = {}

(* DeepDerivative ignores what the template does not mention.  A DaemonSet is *)
(* compared with an object of another type, a Secret by its stringData, which *)
(* the API server never returns: both are always updated.                     *)
Unchanged(p) ==
  /\ IsConfigMap(pod[p].item)
  /\ pod[p].seen.data = Wanted(p, pod[p].item)

Fresh(p, i, data) ==
  [data |-> data, pinned |-> i \in Secret, lists |-> {}]

(* The object is stored; a DaemonSet that changed has pods to replace. *)
Store(p, i, new) ==
  LET changes == Current(i) # new
  IN /\ IF IsOuter(i)
        THEN outer' = [outer EXCEPT ![i] = new] /\ UNCHANGED inner
        ELSE inner' = [inner EXCEPT ![i] = new] /\ UNCHANGED outer
     /\ rollout' = IF changes /\ i \in Awaited
                   THEN [rollout EXCEPT ![i] = IF @ = "unready" THEN @ ELSE "unseen"]
                   ELSE rollout
     /\ UNCHANGED release

(* What the API server refuses: a creation of what is there, an update of what *)
(* has changed since it was read, a change of an immutable object.             *)
Refused(p) ==
  LET i == pod[p].item
  IN IF pod[p].seen = NotThere
     THEN Current(i) # NotThere
     ELSE \/ ~pod[p].fresh
          \/ pod[p].seen.pinned /\ pod[p].seen.data # Wanted(p, i)

Write(p, after) ==
  LET i == pod[p].item
      new == Fresh(p, i, Wanted(p, i))
  IN CASE pod[p].seen # NotThere /\ (Skipped(p) \/ Unchanged(p)) ->
            Goto(p, after) /\ UNCHANGED <<release, outer, inner, rollout>>
       [] ~(pod[p].seen # NotThere /\ (Skipped(p) \/ Unchanged(p))) /\ Refused(p) -> Exit(p)
       [] OTHER ->
            /\ Store(p, i, new)
            /\ pod' = LET pods == [pod EXCEPT ![p] = after]
                      IN IF Current(i) = new THEN pods ELSE Touched(p, i, pods)

-----------------------------------------------------------------------------
(* A pod *)

Last(a) == a = Cardinality(Asset)

(* DeployConfigMaps: the outer ConfigMaps, from the files. *)
GetOuter(p) ==
  /\ pod[p].step = "files" /\ pod[p].item = NotThere
  /\ Get(p, pod[p].asset)
  /\ UNCHANGED <<release, outer, inner, rollout>>

DeployConfigMap(p) ==
  LET a == pod[p].asset
  IN /\ pod[p].step = "files" /\ pod[p].item # NotThere
     /\ Write(p, IF Last(a) THEN [Idle(pod[p]) EXCEPT !.step = "load", !.asset = 1]
                 ELSE [Idle(pod[p]) EXCEPT !.asset = a + 1])

(* A variant with a mistake: what the files say is deployed. *)
LoadedFromFile(p) == Shipped[pod[p].release][pod[p].asset]

Loaded(p) == outer[pod[p].asset].data

(* LoadFromConfigMap: all of them, before anything is deployed. *)
LoadFromConfigMap(p) ==
  LET a == pod[p].asset
  IN /\ pod[p].step = "load"
     /\ IF outer[a] = NotThere
        THEN Exit(p)
        ELSE /\ Goto(p, [pod[p] EXCEPT !.loaded = Append(@, Loaded(p)),
                                       !.asset = IF Last(a) THEN 1 ELSE a + 1,
                                       !.step = IF Last(a) THEN "objects" ELSE @,
                                       !.left = IF Last(a) THEN Held(1) ELSE {}])
             /\ UNCHANGED <<release, outer, inner, rollout>>

(* Deploy: the objects of an asset in any order, then the next asset. *)
GetObject(p) ==
  /\ pod[p].step = "objects" /\ pod[p].item = NotThere
  /\ \E o \in pod[p].left : Get(p, o)
  /\ UNCHANGED <<release, outer, inner, rollout>>

DeployObject(p) ==
  LET rest == pod[p].left \ {pod[p].item}
  IN /\ pod[p].step = "objects" /\ pod[p].item # NotThere
     /\ Write(p, [Idle(pod[p]) EXCEPT !.left = rest, !.step = IF rest = {} THEN "wait" ELSE @])

(* waitUntilReady looks at NumberUnavailable, which a DaemonSet nobody has *)
(* looked at yet reports as 0.                                             *)
WaitUntilReady(p) ==
  LET a == pod[p].asset
      awaited == Held(a) \cap Awaited
  IN /\ pod[p].step = "wait"
     /\ IF \E o \in awaited : inner[o] = NotThere
        THEN Exit(p)
        ELSE /\ \A o \in awaited : rollout[o] # "unready"
             /\ Goto(p, IF Last(a) THEN [pod[p] EXCEPT !.step = "replicas", !.asset = 1, !.loaded = <<>>]
                        ELSE [pod[p] EXCEPT !.asset = a + 1, !.left = Held(a + 1), !.step = "objects"])
             /\ UNCHANGED <<release, outer, inner, rollout>>

(* Two replicas, unless the cluster has one node; a refusal is ignored: the *)
(* Deployment was read when the pod started, and may have changed.          *)
AskForReplicas(p) ==
  /\ pod[p].step = "replicas"
  /\ Goto(p, [pod[p] EXCEPT !.step = "serving"])
  /\ \/ /\ ~SingleNode /\ pod[p].release = release.now
        /\ release' = [release EXCEPT !.replicas = 2]
     \/ UNCHANGED release
  /\ UNCHANGED <<outer, inner, rollout>>

(* Any call fails, or thirty waits of twenty seconds do. *)
CallFails(p) ==
  /\ pod[p].step \notin {"off", "serving"}
  /\ Happens("call")
  /\ Exit(p)

-----------------------------------------------------------------------------
(* The Deployment and DaemonSet controllers, administrators, daemons *)

Running == {p \in Pod : pod[p].step # "off"}

Outdated == {p \in Running : pod[p].release # release.now}

(* A rolling update starts a pod of the new release before it stops one. *)
StartPod(p) ==
  /\ pod[p].step = "off"
  /\ Cardinality(Running) < release.replicas + (IF Outdated = {} THEN 0 ELSE 1)
  /\ Goto(p, Started(release.now))
  /\ UNCHANGED <<release, outer, inner, rollout>>

StopPod(p) ==
  /\ p \in Outdated
  /\ \/ Cardinality(Running) > release.replicas + 1
     \/ \E q \in Running \ Outdated : pod[q].step = "serving"
     \/ release.replicas = 1 /\ Cardinality(Outdated) = 2
  /\ Goto(p, Off)
  /\ UNCHANGED <<release, outer, inner, rollout>>

Crash(p) ==
  /\ p \in Running
  /\ Happens("crash")
  /\ Exit(p)

Upgrade ==
  /\ Happens("upgrade")
  /\ \E r \in Release \ {release.now} : release' = [now |-> r, replicas |-> 1]
  /\ UNCHANGED <<pod, outer, inner, rollout>>

(* The status of a DaemonSet that is waited for; the status of the others is   *)
(* read by nobody.                                                            *)
RollOut(o) ==
  /\ inner[o] # NotThere
  /\ rollout[o] \in {"unseen", "unready"}
  /\ rollout' = [rollout EXCEPT ![o] = IF @ = "unseen" THEN "unready" ELSE "ready"]
  /\ pod' = [p \in Pod |-> [pod[p] EXCEPT !.fresh = @ /\ pod[p].item # o]]
  /\ UNCHANGED <<release, outer, inner>>

EditOuter ==
  /\ Happens("admin")
  /\ \E e \in Edits, pin \in BOOLEAN :
       /\ outer[e.asset] # NotThere /\ ~outer[e.asset].pinned
       /\ outer' = [outer EXCEPT ![e.asset] = [@ EXCEPT !.data = e.data, !.pinned = pin]]
       /\ pod' = Touched(NotThere, e.asset, pod)
  /\ UNCHANGED <<release, inner, rollout>>

Pin(o) ==
  /\ Happens("admin")
  /\ inner[o] # NotThere /\ ~inner[o].pinned
  /\ inner' = [inner EXCEPT ![o].pinned = TRUE]
  /\ pod' = Touched(NotThere, o, pod)
  /\ UNCHANGED <<release, outer, rollout>>

Delete(o) ==
  /\ Happens("admin")
  /\ inner[o] # NotThere
  /\ inner' = [inner EXCEPT ![o] = NotThere]
  /\ rollout' = [d \in Awaited |-> IF d = o THEN "ready" ELSE rollout[d]]
  /\ pod' = Touched(NotThere, o, pod)
  /\ UNCHANGED <<release, outer>>

(* A VRB daemon's updateConfigMap. *)
AddList(n) ==
  /\ Happens("list")
  /\ inner[PluginMap] # NotThere /\ ~inner[PluginMap].pinned
  /\ inner' = [inner EXCEPT ![PluginMap].lists = @ \cup {n}]
  /\ pod' = [p \in Pod |-> [pod[p] EXCEPT !.fresh = @ /\ pod[p].item # PluginMap]]
  /\ UNCHANGED <<release, outer, rollout>>

-----------------------------------------------------------------------------
(* The labelers, users, the webhook *)

(* setNodeLabel: Get of the node. *)
ReadNode(n) ==
  /\ inner[Labeler] # NotThere
  /\ labeler[n] = NotThere
  /\ Happens("look")
  /\ labeler' = [labeler EXCEPT ![n] = [labels |-> label[n], fresh |-> TRUE]]
  /\ UNCHANGED <<label, stored>>

(* A variant with a mistake: written whatever has changed. *)
LabeledAnyway(n) ==
  label' = [label EXCEPT ![n] = labeler[n].labels \cup (IF n \in HasCard THEN {Present} ELSE {})]

(* acceleratorDiscovery: with no accelerator, the label to remove has no name. *)
Labeled(n) ==
  IF labeler[n].fresh
  THEN label' = [label EXCEPT ![n] = labeler[n].labels
                                       \cup (IF n \in HasCard THEN {Present} ELSE {})]
  ELSE UNCHANGED label

(* Update of the node; the container ends, and starts again. *)
SetNodeLabel(n) ==
  /\ labeler[n] # NotThere
  /\ Labeled(n)
  /\ labeler' = [labeler EXCEPT ![n] = NotThere]
  /\ UNCHANGED stored

Relabel(n) ==
  /\ Happens("label")
  /\ \E l \in {Present, OtherLabel} :
       label' = [label EXCEPT ![n] = IF l \in @ THEN @ \ {l} ELSE @ \cup {l}]
  /\ labeler' = [labeler EXCEPT ![n] = IF @ = NotThere THEN @ ELSE [@ EXCEPT !.fresh = FALSE]]
  /\ UNCHANGED stored

(* Without a pod that serves, the API server refuses. *)
Submit ==
  /\ Happens("submit")
  /\ \E p \in Pod : pod[p].step = "serving"
  /\ \E cfg \in Submissions : Validate(cfg) /\ stored' = cfg
  /\ UNCHANGED <<label, labeler>>

-----------------------------------------------------------------------------
Deploys(p) ==
  \/ GetOuter(p) \/ DeployConfigMap(p) \/ LoadFromConfigMap(p)
  \/ GetObject(p) \/ DeployObject(p) \/ WaitUntilReady(p) \/ AskForReplicas(p)

Cluster(p) == (StartPod(p) \/ StopPod(p)) /\ UNCHANGED <<nodeVars, spent>>

Next ==
  \/ \E p \in Pod :
       \/ Deploys(p) /\ UNCHANGED <<nodeVars, spent>>
       \/ Cluster(p)
       \/ (CallFails(p) \/ Crash(p)) /\ UNCHANGED nodeVars
  \/ \E o \in Awaited : RollOut(o) /\ UNCHANGED <<nodeVars, spent>>
  \/ (Upgrade \/ EditOuter) /\ UNCHANGED nodeVars
  \/ \E o \in Object : Delete(o) /\ UNCHANGED nodeVars
  \/ \E o \in ConfigMap : Pin(o) /\ UNCHANGED nodeVars
  \/ \E n \in Node :
       \/ ReadNode(n) /\ UNCHANGED operatorVars
       \/ SetNodeLabel(n) /\ UNCHANGED <<operatorVars, spent>>
       \/ AddList(n) /\ UNCHANGED nodeVars
       \/ Relabel(n) /\ UNCHANGED operatorVars
  \/ Submit /\ UNCHANGED operatorVars

Spec == Init /\ [][Next]_vars

(* The containers run, and so do the controllers of Kubernetes. *)
FairSpec ==
  /\ Spec
  /\ \A p \in Pod :
       /\ WF_vars(Deploys(p) /\ UNCHANGED <<nodeVars, spent>>)
       /\ WF_vars(Cluster(p))
  /\ \A o \in Awaited : WF_vars(RollOut(o) /\ UNCHANGED <<nodeVars, spent>>)

-----------------------------------------------------------------------------
(* Properties *)

(* Every variable has its type, and a pod holds an object only while it deploys. *)
TypeOK ==
  /\ release.now \in Release /\ release.replicas \in 1..2
  /\ \A p \in Pod :
       /\ pod[p].step \in {"off", "files", "load", "objects", "wait", "replicas", "serving"}
       /\ pod[p].step \in {"load", "wait", "replicas", "serving", "off"} => pod[p].item = NotThere
       /\ pod[p].step = "objects" => pod[p].left # {} /\ Len(pod[p].loaded) = Cardinality(Asset)
  /\ \A a \in Asset : outer[a] # NotThere => DOMAIN outer[a].data = Held(a)
  /\ \A o \in Object : inner[o] # NotThere => inner[o].lists \subseteq Node
  /\ \A n \in Node : label[n] \subseteq {Present, OtherLabel}
  /\ spent \in [Fault -> Nat]

(* What a pod that serves has deployed: unless somebody else changed objects   *)
(* meanwhile, the outer ConfigMaps hold its files or are pinned, and every     *)
(* object is as its outer ConfigMap says or is a pinned ConfigMap.             *)
ServesWhatItDeployed ==
  \A p \in Pod : (pod[p].step = "serving" /\ pod[p].alone) =>
    /\ \A a \in Asset :
         outer[a] # NotThere /\ (outer[a].pinned \/ outer[a].data = Shipped[pod[p].release][a])
    /\ \A o \in Object :
         /\ inner[o] # NotThere
         /\ \/ o \in ConfigMap /\ inner[o].pinned
            \/ inner[o].data = outer[AssetOf[o]].data[o]

(* An admitted configuration is one the daemon takes: it finds one section,    *)
(* with the bundles that make the VFs asked for, and within the limits of its  *)
(* model, but for the queues of downlink5G on VRB2, which no validator checks. *)
AdmittedFits ==
  stored # NotThere =>
    LET m == GenerateBBDevConfigFile(stored)
    IN /\ m # "error"
       /\ LET section == stored.sections[m]
          IN IF m = "n3000"
             THEN section.up <= 32 /\ section.down <= 32
             ELSE /\ section.bundles = stored.vfAmount
                  /\ QueueGroups(m, section) <= MaxQueueGroups(m)
                  /\ m = "vrb2" => \A op \in Operations(m) \ {"downlink5G"} : Queues(section, op) <= 256

(* A start of the operator does not cost the daemons their lists: as long as   *)
(* the template of the device plugin's ConfigMap is what is deployed, what     *)
(* daemons have added to the ConfigMap stays in it.                            *)
ListsKept ==
  [][(/\ inner[PluginMap] # NotThere /\ inner'[PluginMap] # NotThere
      /\ inner'[PluginMap].data = inner[PluginMap].data) =>
        inner[PluginMap].lists \subseteq inner'[PluginMap].lists]_vars

(* A labeler changes no label but its own: what somebody else changes between  *)
(* its reading and its writing of the node is not undone.                      *)
OthersLabelsKept ==
  [][\A n \in Node : SetNodeLabel(n) => label'[n] \ {Present} = label[n] \ {Present}]_vars

(* The operator comes up in the end, whatever failed, crashed, was upgraded or *)
(* pinned: from some time on a pod of the current release serves.              *)
ServesInTheEnd ==
  <>[](\E p \in Pod : pod[p].step = "serving" /\ pod[p].release = release.now)

(* The VFIO token can be changed: when the ConfigMap with the Secret's template *)
(* holds the token of a release for good, so does the Secret in the end.        *)
TokenChanges ==
  \A r \in Release, s \in Secret :
    LET a == AssetOf[s]
        token == Shipped[r][a][s]
    IN <>[](release.now = r /\ outer[a] # NotThere /\ outer[a].data[s] = token) =>
         <>[](inner[s] # NotThere /\ inner[s].data = token)
=============================================================================
