---------------------------- MODULE ClusterConfig ----------------------------
(***************************************************************************)
(* The cluster controller (controllers/sriovfec and, line by line the same *)
(* but for the resource name, controllers/sriovvrb): from the cluster      *)
(* configurations it derives the spec of every node's node configuration.  *)
(*                                                                         *)
(* A pass is made for the name of one cluster configuration and handles    *)
(* all nodes, one after the other.  It works on the list it read first and *)
(* on each node's object as it read it; the daemon of the node reports its *)
(* inventory into that object meanwhile.  A node that fails is passed over *)
(* until the next pass, and there is one a minute later, if the cluster    *)
(* configuration the pass was made for is still there.                     *)
(***************************************************************************)
EXTENDS Integers, Sequences, FiniteSets, SequencesExt

CONSTANTS
  Node,            \* the nodes labelled as having an accelerator
  Card,            \* PCI addresses
  CardsOf,         \* the cards a node has
  BoundAt,         \* the driver its cards are bound to in the beginning
  Config,          \* the cluster configurations there may be
  NoConfig,        \* a card that has none
  Driver,          \* drivers a physical function may be bound to
  NoDriver,        \* of a card that is not listed in the inventory
  SelectsNode,     \* nodeSelector: the nodes with its labels
  SelectsCard,     \* acceleratorSelector, but for the driver: PCI address, ids, VFs
  SelectsDriver,   \* acceleratorSelector: the drivers it accepts
  PFDriver,        \* the driver the configuration binds the card to
  Priority,
  SkipsDrain,      \* the configurations whose drainSkip is true, or not set
  SameSecond,      \* may two configurations have one creation timestamp?
  MaxChanges,      \* bound on the creations and deletions
  MaxFaults        \* bound on the faults

ASSUME ConfigAssumption ==
  /\ Node # {} /\ Config # {}
  /\ NoConfig \notin Config
  /\ NoDriver \notin Driver
  /\ CardsOf \in [Node -> (SUBSET Card) \ {{}}]
  /\ BoundAt \in [Node -> Driver]
  /\ SelectsNode \in [Config -> SUBSET Node]
  /\ SelectsCard \in [Config -> SUBSET Card]
  /\ SelectsDriver \in [Config -> SUBSET Driver]
  /\ PFDriver \in [Config -> Driver]
  /\ Priority \in [Config -> Int]
  /\ SkipsDrain \subseteq Config

ASSUME BoundAssumption == SameSecond \in BOOLEAN /\ {MaxChanges, MaxFaults} \subseteq Nat

VARIABLES
  \* On the API server
  existing,   \* the cluster configurations there are
  created,    \* their CreationTimestamps, in seconds since the first; 0 if never created
  spec,       \* the spec of each node's object
  inventory,  \* status.inventory: the cards with the driver each is bound to
  blamed,     \* objects with a ConfigurationPropagationCondition
  \* The workqueue
  queue,      \* names to make a pass for
  timer,      \* names that are put into the queue within a minute
  \* Within a pass
  pc,         \* what Reconcile does next
  key,        \* the name the pass is for
  list,       \* the cluster configurations listed
  todo,       \* nodes to come
  node,       \* the node in hand
  new,        \* the spec to be written into its object
  fresh,      \* its object has not been written since
  \* The rest
  pending,    \* nodes whose daemon has a new spec to apply
  changes,    \* creations and deletions so far
  faults      \* faults so far

clusterVars == <<existing, created, changes>>
objectVars == <<spec, inventory, blamed, pending>>
passVars == <<pc, key, list, todo, node, new, fresh>>
vars == <<clusterVars, objectVars, queue, timer, passVars, faults>>

(* A call of the API server fails, or the operator restarts. *)
Fault == faults < MaxFaults /\ faults' = faults + 1

NodeSpec == [pfs : [Card -> Config \cup {NoConfig}], drainSkip : BOOLEAN]

NoPFs == [c \in Card |-> NoConfig]

EmptySpec == [pfs |-> NoPFs, drainSkip |-> FALSE]

NoInventory == [c \in Card |-> NoDriver]

(* The object is there and the daemon has reported into it. *)
Exposed(n) == inventory[n] # NoInventory

(* What concerns one node, and the locals of Reconcile, go when they are done with. *)
AnyNode == CHOOSE n \in Node : TRUE
AnyConfig == CHOOSE c \in Config : TRUE

Forget ==
  /\ node' = AnyNode
  /\ new' = EmptySpec
  /\ fresh' = FALSE

Idle ==
  /\ pc' = "idle"
  /\ list' = {}
  /\ todo' = {}
  /\ key' = AnyConfig
  /\ Forget

Init ==
  /\ existing = {}
  /\ created = [c \in Config |-> 0]
  /\ spec = [n \in Node |-> EmptySpec]
  /\ inventory = [n \in Node |-> NoInventory]
  /\ blamed = {}
  /\ queue = {}
  /\ timer = {}
  /\ pc = "idle"
  /\ key = AnyConfig
  /\ list = {}
  /\ todo = {}
  /\ node = AnyNode
  /\ new = EmptySpec
  /\ fresh = FALSE
  /\ pending = {}
  /\ changes = 0
  /\ faults = 0

-----------------------------------------------------------------------------
(* clusterConfigMatcher: the configuration of each card of the node in hand *)

(* A variant with a mistake: the nodeSelector is not looked at. *)
MatchingAnyNode(n) == SetToSeqs(list)

(* A list comes in any order, and the sort that follows leaves it in any: it *)
(* compares elements of another list.                                        *)
MatchConfigsForNode(n) == SetToSeqs({c \in list : n \in SelectsNode[c]})

Matches(c, n, card) ==
  card \in SelectsCard[c] /\ inventory[n][card] \in SelectsDriver[c]

(* A variant with a mistake: the age is forgotten, the last one wins. *)
LastOf(previous, current) ==
  IF previous = NoConfig \/ Priority[current] >= Priority[previous] THEN current ELSE previous

(* The higher priority, and among equals the one created later. *)
Preferred(previous, current) ==
  IF \/ previous = NoConfig
     \/ Priority[current] > Priority[previous]
     \/ Priority[current] = Priority[previous] /\ created[current] > created[previous]
  THEN current ELSE previous

Chosen(configs, n, card) ==
  FoldLeft(LAMBDA previous, current :
             IF Matches(current, n, card) THEN Preferred(previous, current) ELSE previous,
           NoConfig, configs)

(* A variant with a mistake: a configuration that drains outvotes the others. *)
DrainSkipOfAll(chosen, known) == chosen # {} /\ chosen \subseteq SkipsDrain

(* One configuration that skips is enough; without any, what it was. *)
DrainSkip(chosen, known) == IF chosen = {} THEN known ELSE chosen \cap SkipsDrain # {}

NewSpec(configs, n) ==
  LET pfs == [c \in Card |-> Chosen(configs, n, c)] IN
    [pfs |-> pfs,
     drainSkip |-> DrainSkip({pfs[c] : c \in Card} \ {NoConfig}, spec[n].drainSkip)]

-----------------------------------------------------------------------------
(* Reconcile *)

Begin(k) ==
  /\ pc = "idle"
  /\ k \in queue
  /\ queue' = queue \ {k}
  /\ key' = k
  /\ list' = existing
  /\ todo' = Node
  /\ pc' = "match"
  /\ UNCHANGED <<clusterVars, objectVars, timer, node, new, fresh, faults>>

(* The configurations or the nodes cannot be listed: the name stays queued. *)
ListFails ==
  /\ pc = "idle"
  /\ queue # {}
  /\ Fault
  /\ UNCHANGED <<clusterVars, objectVars, queue, timer, passVars>>

(* The object of n is read, and differs from what it should be or does not. *)
Match(n) ==
  /\ pc = "match"
  /\ n \in todo
  /\ todo' = todo \ {n}
  /\ \E configs \in MatchConfigsForNode(n) :
       IF NewSpec(configs, n) = spec[n]
       THEN UNCHANGED <<pc, node, new, fresh>>
       ELSE /\ pc' = "synchronize"
            /\ node' = n
            /\ new' = NewSpec(configs, n)
            /\ fresh' = TRUE
  /\ UNCHANGED <<clusterVars, objectVars, queue, timer, key, list, faults>>

(* The object cannot be read: the node is passed over. *)
MatchFails(n) ==
  /\ pc = "match"
  /\ n \in todo
  /\ Fault
  /\ todo' = todo \ {n}
  /\ UNCHANGED <<clusterVars, objectVars, queue, timer, pc, key, list, node, new, fresh>>

NextNode ==
  /\ pc' = "match"
  /\ Forget
  /\ UNCHANGED <<clusterVars, queue, timer, key, list, todo>>

(* A variant with a mistake: the object is written whatever its version. *)
WriteAnyway == pc = "synchronize"

(* The API server takes the update of an object that is up to date. *)
WriteAllowed == pc = "synchronize" /\ fresh

UpdateNodeConfig ==
  /\ WriteAllowed
  /\ spec' = [spec EXCEPT ![node] = new]
  /\ pending' = pending \cup {node}
  /\ NextNode
  /\ UNCHANGED <<inventory, blamed, faults>>

UpdateFails ==
  /\ pc = "synchronize"
  /\ IF fresh THEN Fault ELSE UNCHANGED faults
  /\ pc' = "blame"
  /\ fresh' = FALSE
  /\ UNCHANGED <<clusterVars, objectVars, queue, timer, key, list, todo, node, new>>

SetPropagationFailed ==
  /\ pc = "blame"
  /\ Exposed(node)
  /\ blamed' = blamed \cup {node}
  /\ NextNode
  /\ UNCHANGED <<spec, inventory, pending, faults>>

SetPropagationFails ==
  /\ pc = "blame"
  /\ IF Exposed(node) THEN Fault ELSE UNCHANGED faults
  /\ NextNode
  /\ UNCHANGED objectVars

(* A variant with a mistake: a pass is made for events only. *)
NoRequeue == UNCHANGED <<queue, timer>>

(* The name comes back in a minute, while its configuration exists. *)
Requeue ==
  /\ timer' = IF key \in existing THEN timer \cup {key} ELSE timer
  /\ UNCHANGED queue

EndPass ==
  /\ pc = "match"
  /\ todo = {}
  /\ Requeue
  /\ Idle
  /\ UNCHANGED <<clusterVars, objectVars, faults>>

(* Whether it exists cannot be read: Reconcile returns the error. *)
EndPassFails ==
  /\ pc = "match"
  /\ todo = {}
  /\ Fault
  /\ queue' = queue \cup {key}
  /\ Idle
  /\ UNCHANGED <<clusterVars, objectVars, timer>>

Timer(k) ==
  /\ k \in timer
  /\ timer' = timer \ {k}
  /\ queue' = queue \cup {k}
  /\ UNCHANGED <<clusterVars, objectVars, passVars, faults>>

(* The operator restarts: it hears of the configurations that are there. *)
Restart ==
  /\ Fault
  /\ queue' = existing
  /\ timer' = {}
  /\ Idle
  /\ UNCHANGED <<clusterVars, objectVars>>

-----------------------------------------------------------------------------
(* Users, and the daemons of the nodes *)

Change == changes < MaxChanges /\ changes' = changes + 1

Now == CHOOSE t \in {created[c] : c \in Config} : \A c \in Config : created[c] <= t

CreateConfig(c) ==
  /\ created[c] = 0
  /\ Change
  /\ existing' = existing \cup {c}
  /\ \E t \in {Now, Now + 1} :
       /\ t = Now => SameSecond /\ existing # {}
       /\ created' = [created EXCEPT ![c] = t]
  /\ queue' = queue \cup {c}
  /\ UNCHANGED <<objectVars, timer, passVars, faults>>

DeleteConfig(c) ==
  /\ c \in existing
  /\ Change
  /\ existing' = existing \ {c}
  /\ queue' = queue \cup {c}
  /\ UNCHANGED <<created, objectVars, timer, passVars, faults>>

(* A variant with a mistake: the daemon's writes leave the version alone. *)
OutdatesNothing(n) == UNCHANGED fresh

(* Whoever writes the object of n outdates the one in hand. *)
Outdates(n) == fresh' = (fresh /\ n # node)

(* The daemon creates its object and reports the inventory it finds. *)
ExposeInventory(n) ==
  /\ ~Exposed(n)
  /\ inventory' = [inventory EXCEPT ![n] =
                     [c \in Card |-> IF c \in CardsOf[n] THEN BoundAt[n] ELSE NoDriver]]
  /\ Outdates(n)
  /\ UNCHANGED <<clusterVars, spec, blamed, pending, queue, timer, pc, key, list, todo, node,
                 new, faults>>

(* It applies the spec, which binds the cards to other drivers, and reports. *)
ApplyAndReport(n) ==
  /\ Exposed(n)
  /\ n \in pending
  /\ pending' = pending \ {n}
  /\ inventory' =
       [inventory EXCEPT ![n] =
         [c \in Card |-> IF spec[n].pfs[c] = NoConfig THEN @[c] ELSE PFDriver[spec[n].pfs[c]]]]
  /\ Outdates(n)
  /\ UNCHANGED <<clusterVars, spec, blamed, queue, timer, pc, key, list, todo, node, new, faults>>

(* Somebody deletes the object. *)
DeleteNodeConfig(n) ==
  /\ Exposed(n)
  /\ Fault
  /\ spec' = [spec EXCEPT ![n] = EmptySpec]
  /\ inventory' = [inventory EXCEPT ![n] = NoInventory]
  /\ blamed' = blamed \ {n}
  /\ pending' = pending \ {n}
  /\ Outdates(n)
  /\ UNCHANGED <<clusterVars, queue, timer, pc, key, list, todo, node, new>>

-----------------------------------------------------------------------------

Pass ==
  \/ \E k \in Config : Begin(k)
  \/ \E n \in Node : Match(n)
  \/ UpdateNodeConfig
  \/ UpdateFails /\ UNCHANGED faults
  \/ SetPropagationFailed
  \/ SetPropagationFails /\ UNCHANGED faults
  \/ EndPass

Daemon(n) == ExposeInventory(n) \/ ApplyAndReport(n)

Next ==
  \/ Pass
  \/ ListFails
  \/ \E n \in Node : MatchFails(n) \/ DeleteNodeConfig(n) \/ Daemon(n)
  \/ UpdateFails
  \/ SetPropagationFails
  \/ EndPassFails
  \/ Restart
  \/ \E k \in Config : Timer(k) \/ CreateConfig(k) \/ DeleteConfig(k)

Spec == Init /\ [][Next]_vars

(* The workqueue hands out its names, a pass runs to its end, a minute passes, *)
(* and a daemon applies a spec it has been given.  Users owe nothing, and no   *)
(* fault has to happen.                                                        *)
FairSpec ==
  /\ Spec
  /\ WF_vars(Pass)
  /\ \A k \in Config : WF_vars(Timer(k))
  /\ \A n \in Node : WF_vars(Daemon(n))

-----------------------------------------------------------------------------
(* Properties *)

(* The type of each variable; an update in hand would change its object. *)
TypeOK ==
  /\ existing \subseteq Config
  /\ created \in [Config -> Nat]
  /\ spec \in [Node -> NodeSpec]
  /\ inventory \in [Node -> [Card -> Driver \cup {NoDriver}]]
  /\ blamed \subseteq Node
  /\ queue \subseteq Config
  /\ timer \subseteq Config
  /\ pc \in {"idle", "match", "synchronize", "blame"}
  /\ key \in Config
  /\ list \subseteq Config
  /\ todo \subseteq Node
  /\ node \in Node
  /\ new \in NodeSpec
  /\ fresh \in BOOLEAN
  /\ fresh => new # spec[node]
  /\ pending \subseteq Node
  /\ changes \in 0..MaxChanges
  /\ faults \in 0..MaxFaults

(* c may be given to a card of n with this inventory. *)
Eligible(c, n, drivers, card) ==
  n \in SelectsNode[c] /\ card \in SelectsCard[c] /\ drivers[card] \in SelectsDriver[c]

Better(c, d) ==
  \/ Priority[c] > Priority[d]
  \/ Priority[c] = Priority[d] /\ created[c] > created[d]

Best(among, n, drivers, card) ==
  LET eligible == {c \in among : Eligible(c, n, drivers, card)} IN
    IF eligible = {} THEN {NoConfig}
    ELSE {c \in eligible : \A d \in eligible : ~Better(d, c)}

(* No node gets a configuration for other nodes or other cards, over passes   *)
(* that overlap with changes, deletions and restarts.                         *)
SelectedOnly ==
  \A n \in Node, card \in Card :
    LET c == spec[n].pfs[card] IN
      c # NoConfig => n \in SelectsNode[c] /\ card \in SelectsCard[c]

(* What is written is the best of the listed configurations for every card,   *)
(* in whatever order they come, by the inventory the object has now: a stale  *)
(* reading never makes it into the spec.                                      *)
BestIsWritten ==
  [][\A n \in Node :
       spec'[n] # spec[n] /\ inventory'[n] = inventory[n] =>
         \A card \in Card :
           spec'[n].pfs[card] \in Best(list, n, inventory[n], card)]_vars

(* A node is drained only if every configuration given to its cards says so. *)
NobodyAskedToSkip ==
  \A n \in Node :
    spec[n].pfs # NoPFs /\ ~spec[n].drainSkip =>
      {spec[n].pfs[c] : c \in Card} \cap SkipsDrain = {}

Settled(n) ==
  Exposed(n) /\ \A card \in Card : spec[n].pfs[card] \in Best(existing, n, inventory[n], card)

(* Once users and faults are at rest, and while some configuration exists,     *)
(* every node ends with the best ones: conflicts with its daemon, failed calls *)
(* and operator restarts are got over.                                         *)
Propagated == <>[](existing # {} => \A n \in Node : Settled(n))

(* No order is left between two configurations: neither priority nor age. *)
Tied ==
  \E c, d \in existing : c # d /\ Priority[c] = Priority[d] /\ created[c] = created[d]

(* Specs come to rest, unless two configurations are tied: a pass a minute does *)
(* not change them for ever, for each change may drain the node and reconfigure *)
(* its cards.  Tied ones may take turns, as the list happens to be ordered.     *)
SpecsComeToRest == <>[][Tied \/ UNCHANGED spec]_vars

-----------------------------------------------------------------------------
(* What a document promises, and the code does not do *)

(* "Added resources cleanup on SriovFecClusterConfig deletion": with the last  *)
(* configuration gone every card is given back.                                *)
WithdrawnInTheEnd ==
  <>[](existing = {} => \A n \in Node : spec[n].pfs = NoPFs)

===============================================================================
