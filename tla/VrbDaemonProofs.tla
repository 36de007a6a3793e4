-------------------------- MODULE VrbDaemonProofs --------------------------
(***************************************************************************)
(* Proofs about VrbDaemon: what a success says of the cards and of the     *)
(* device plugin's lists, for any cards, configurations and faults.        *)
(*                                                                         *)
(* The inductive invariant says what the object in hand still is (Held),   *)
(* what vrbPreviousConfig describes (PrevDescribes), how far a pass has    *)
(* come with the cards (WorkKnown), with the lists (Listing) and with the  *)
(* rest (RestKnown), and that no list names a card twice (Single).  Of the *)
(* workers left behind it says which of them can still write the object    *)
(* (Beside), that what such a one would report is there (Fits), and what a *)
(* lost lease owes the node as long as they live (Owed).                   *)
(***************************************************************************)
EXTENDS VrbDaemon, TLAPS

USE DEF leaseVars

-----------------------------------------------------------------------------
(* Types *)

Reasons == {"None", "NotRequested", "InProgress", "Succeeded", "Failed"}

NodeConfigs ==
  [exists : BOOLEAN, generation : Nat, spec : NodeSpec, reason : Reasons, observed : Nat]

Hardware == [cfg : Config \cup {NoConfig}, vfs : Nat, alive : BOOLEAN]

Passes ==
  [fresh : BOOLEAN, spec : NodeSpec, observed : Nat, outdated : SUBSET Installed,
   todo : SUBSET Installed, names : SUBSET Card, copy : ConfigMap, list : Lists,
   found : BOOLEAN, missed : SUBSET Card, err : BOOLEAN]

(* Where a worker left behind may be. *)
Steps ==
  {"none", "drain", "inventory", "apply", "restart", "uncordon"} \cup Naming

Worker == [at : Steps, with : BOOLEAN, hand : Passes]

Types ==
  /\ cr \in NodeConfigs
  /\ cm \in ConfigMap
  /\ cordoned \in BOOLEAN
  /\ pluginStale \in BOOLEAN
  /\ hw \in [Installed -> Hardware]
  /\ prev \in [Card -> Config \cup {NoConfig}]
  /\ pass \in Passes
  /\ spent \in [Fault -> Nat]
  /\ touched \subseteq Installed
  /\ disturbed \subseteq Installed
  /\ required \subseteq Installed
  /\ strays \in [Stray -> Worker]
  /\ adrift \subseteq Installed
  /\ undone \subseteq {"plugin", "node"}

-----------------------------------------------------------------------------
(* The inductive invariant *)

(* What is fresh is as it was read, or written, in the pass and in the hands of *)
(* the workers left behind.                                                     *)
Held ==
  /\ cr.observed <= cr.generation
  /\ pass.fresh => /\ cr.exists /\ pass.spec = cr.spec
                   /\ pass.observed <= cr.generation
  /\ \A w \in Stray :
       strays[w].hand.fresh => /\ cr.exists /\ strays[w].hand.spec = cr.spec
                               /\ strays[w].hand.observed <= cr.generation

(* vrbPreviousConfig describes the cards that nobody has worked on since. *)
PrevDescribes ==
  \A c \in Installed :
    prev[c] # NoConfig /\ c \notin touched \cup disturbed \cup adrift => hw[c] = Running(prev[c])

InPass == {"drain", "inventory", "apply", "restart", "uncordon", "report"} \cup Naming

Ending == pc = "restart" \/ (pc \in {"uncordon", "report"} /\ ~pass.err)

Configured == pc \in Naming \/ Ending

CardDone(c) ==
  IF Requested(pass.spec, c)
  THEN c \notin disturbed => hw[c] = Running(pass.spec.pfs[c])
  ELSE hw[c].vfs = 0

(* A card that is not configured in a pass was asked the same before; the others *)
(* are done when all have been configured: all but those adrift.  Only the pass   *)
(* itself, or the worker that it has just lost, makes its spec one that is        *)
(* applied, and not before then.                                                 *)
WorkKnown ==
  /\ pass.err => pc \in {"uncordon", "report"}
  /\ pc \in InPass /\ Applied => pass.fresh /\ pc \notin {"drain", "inventory", "apply"}
  /\ pc \in InPass =>
       \A c \in Installed \ (required \cup adrift) :
         Requested(pass.spec, c) /\ prev[c] = pass.spec.pfs[c]
  /\ pc = "apply" => pass.todo \subseteq required
  /\ pc = "apply" \/ Configured => \A c \in required \ pass.todo : CardDone(c) \/ c \in adrift
  /\ Configured => pass.todo = {}
  /\ Ending => pass.names = {}

(* A worker left behind has the object of the pass that lost it until that has  *)
(* reported; the writes of the next pass leave it with an old one.               *)
Beside ==
  \A w \in Stray :
    /\ strays[w].with => /\ pc = "report"
                         /\ strays[w].hand.spec = pass.spec
                         /\ strays[w].hand.fresh = pass.fresh
                         /\ pass.err => strays[w].at = "uncordon"
                         /\ \A v \in Stray : strays[v].with => v = w
    /\ strays[w].hand.fresh /\ ~strays[w].with => pc \notin InPass

(* The cards that a pass in the report of a lost lease is about to forget. *)
Forgotten(w) == IF strays[w].with THEN required ELSE {}

(* So what such a worker reports a success of is there, but for what is adrift, *)
(* touched or disturbed.                                                        *)
Fits ==
  \A w \in Stray :
    strays[w].hand.fresh /\ strays[w].at \notin {"none", "uncordon"} =>
      \A c \in Installed :
        IF Requested(strays[w].hand.spec, c)
        THEN c \notin (touched \ Forgotten(w)) \cup disturbed \cup adrift =>
               hw[c] = Running(strays[w].hand.spec.pfs[c])
        ELSE c \notin adrift => hw[c].vfs = 0

(* A worker left behind owes the node what it has not done. *)
Owed ==
  \A w \in Stray : strays[w].at # "none" =>
    /\ strays[w].at # "uncordon" => "plugin" \in undone
    /\ ~strays[w].hand.spec.drainSkip => "node" \in undone

One(list) == \A d, e \in list : d.pf = e.pf => d = e

(* No list names a card twice, those in hand no more than those in the map. *)
Single ==
  /\ One(cm.shared)
  /\ cm.own # Absent => One(cm.own)
  /\ One(pass.list)
  /\ \A w \in Stray : One(strays[w].hand.list)

(* Whom the list need not name as the spec asks. *)
Excused == pass.missed \cup (touched \ required) \cup disturbed \cup adrift

(* The list has the entry that a spec asks for, or need not have it. *)
Told(s, c, list, excused) == EntryOf(s, c, RequestedVFs(s, c)) \in list \/ c \in excused

(* Who has been named stays so in the map, and in the list that is edited. *)
Listing ==
  /\ Configured =>
       \A c \in Named(pass.spec) \ pass.names : Told(pass.spec, c, PluginList, Excused)
  /\ pc \in {"addkey", "match", "reread", "write"} =>
       \A c \in Named(pass.spec) \ pass.names : Told(pass.spec, c, pass.list, Excused)
  /\ pc = "match" => pass.list = PluginList \/ Card \subseteq pass.missed
  /\ pc \in {"reread", "write"} =>
       \A c \in pass.names : First(pass.names, c) => Told(pass.spec, c, pass.list, Excused)
  /\ pc = "listed" =>
       \A c \in pass.names : First(pass.names, c) => Told(pass.spec, c, PluginList, Excused)

(* The end of a pass without an error. *)
RestKnown ==
  /\ pc \in {"uncordon", "report"} /\ ~pass.err => (pluginStale => "plugin" \in undone)
  /\ pc = "report" /\ ~pass.err => (cordoned => pass.spec.drainSkip \/ "node" \in undone)

IInv ==
  /\ Types
  /\ Held
  /\ PrevDescribes
  /\ WorkKnown
  /\ AppliedMatchesHardware
  /\ Beside
  /\ Fits
  /\ Owed
  /\ Single
  /\ Listing
  /\ RestKnown

-----------------------------------------------------------------------------
(* Types, step by step *)

(* The constants that the variables are made of. *)
LEMMA ConstantTypes ==
  /\ NoPFs \in [Card -> Config \cup {NoConfig}]
  /\ NoNodeConfig \in NodeConfigs
  /\ Blank \in Hardware
  /\ Deployed \in ConfigMap
  /\ NoPass \in Passes
  /\ NoWorker \in Worker
<1>1. NoPFs \in [Card -> Config \cup {NoConfig}]
  BY DEF NoPFs
<1>2. NoNodeConfig \in NodeConfigs
  BY <1>1 DEF NoNodeConfig, NodeConfigs, NodeSpec, Reasons
<1>3. Blank \in Hardware
  BY DEF Blank, Hardware
<1>4. SharedEntry \in Entry
  BY DEF SharedEntry, Entry
<1>5. {SharedEntry} \in Lists
  BY <1>4 DEF Lists
<1>6. Deployed \in ConfigMap
  BY <1>5 DEF Deployed, ConfigMap
<1>7. {} \in Lists
  BY DEF Lists
<1>8. NoNodeConfig.spec \in NodeSpec
  BY <1>2 DEF NodeConfigs
<1>9. NoPass \in Passes
  BY <1>6, <1>7, <1>8 DEF NoPass, Passes
<1>10. NoWorker \in Worker
  BY <1>9 DEF NoWorker, Worker, Steps
<1>. QED BY <1>1, <1>2, <1>3, <1>6, <1>9, <1>10

(* What the spec in hand asks of a card. *)
LEMMA AskedTypes ==
  ASSUME NEW s \in NodeSpec, NEW c \in Card
  PROVE  /\ s.pfs[c] \in Config \cup {NoConfig}
         /\ Requested(s, c) => s.pfs[c] \in Config /\ Running(s.pfs[c]) \in Hardware
         /\ RequestedVFs(s, c) \in Nat
         /\ \A n \in Nat : EntryOf(s, c, n) \in Entry /\ EntryOf(s, c, n).pf = c
<1>1. s.pfs[c] \in Config \cup {NoConfig}
  BY DEF NodeSpec
<1>2. \A f \in Config : VFAmount[f] \in Nat
  BY ConfigAssumption
<1>3. Requested(s, c) => s.pfs[c] \in Config
  BY <1>1 DEF Requested
<1>4. RequestedVFs(s, c) \in Nat
  BY <1>2, <1>3 DEF RequestedVFs
<1>5. ASSUME NEW f \in Config PROVE Running(f) \in Hardware
  <2>. DEFINE b == f \in VfioPci
  <2>1. b \in BOOLEAN
    OBVIOUS
  <2>. HIDE DEF b
  <2>2. [cfg |-> f, vfs |-> VFAmount[f], alive |-> b] \in Hardware
    BY <1>2, <2>1 DEF Hardware
  <2>. QED BY <2>2 DEF Running, b
<1>6. NameOf(s, c) \in {ResourceName[f] : f \in Config} \cup {NoName}
  BY <1>3 DEF NameOf
<1>7. \A n \in Nat : EntryOf(s, c, n) \in Entry /\ EntryOf(s, c, n).pf = c
  BY <1>6 DEF EntryOf, Entry
<1>. QED BY <1>1, <1>3, <1>4, <1>5, <1>7

(* A fault is counted. *)
LEMMA HappensCounts ==
  ASSUME Types, NEW f \in Fault, Happens(f)
  PROVE  spent' \in [Fault -> Nat]
BY DEF Happens, Types

(* A status update leaves an object with its spec and its generation. *)
LEMMA StatusType ==
  ASSUME Types, Held, NEW reason \in Reasons, pass.fresh, UpdateStatus(reason)
  PROVE  /\ cr' \in NodeConfigs /\ cr'.exists = cr.exists /\ cr'.spec = cr.spec
         /\ cr'.generation = cr.generation /\ cr'.reason = reason
         /\ cr'.observed = ObservedGeneration(reason)
         /\ cr'.observed \in Nat /\ cr'.observed <= cr.generation
<1>1. ObservedGeneration(reason) \in Nat /\ ObservedGeneration(reason) <= cr.generation
  BY DEF Types, Held, NodeConfigs, Passes, ObservedGeneration
<1>. DEFINE o == ObservedGeneration(reason)
<1>2. cr' = [cr EXCEPT !.reason = reason, !.observed = o]
  BY DEF UpdateStatus
<1>. HIDE DEF o
<1>3. o \in Nat
  BY <1>1 DEF o
<1>4. /\ cr' \in NodeConfigs /\ cr'.exists = cr.exists /\ cr'.spec = cr.spec
      /\ cr'.generation = cr.generation /\ cr'.reason = reason /\ cr'.observed = o
  BY <1>2, <1>3 DEF Types, NodeConfigs
<1>. QED BY <1>1, <1>4 DEF o

(* The object, and what of the object in hand is known. *)
ObjectOK == cr \in NodeConfigs /\ Held

(* Everything but the object. *)
RestOK ==
  /\ cm \in ConfigMap
  /\ cordoned \in BOOLEAN
  /\ pluginStale \in BOOLEAN
  /\ hw \in [Installed -> Hardware]
  /\ prev \in [Card -> Config \cup {NoConfig}]
  /\ pass \in Passes
  /\ spent \in [Fault -> Nat]
  /\ touched \subseteq Installed
  /\ disturbed \subseteq Installed
  /\ required \subseteq Installed
  /\ strays \in [Stray -> Worker]
  /\ adrift \subseteq Installed
  /\ undone \subseteq {"plugin", "node"}

(* What a write of the object leaves in the hands of the workers left behind. *)
LEMMA OutdatedShape ==
  ASSUME Types, Outdated
  PROVE  /\ strays' \in [Stray -> Worker]
         /\ \A w \in Stray :
              /\ strays'[w].at = strays[w].at /\ strays'[w].with = strays[w].with
              /\ strays'[w].hand.fresh = FALSE
              /\ strays'[w].hand.spec = strays[w].hand.spec
              /\ strays'[w].hand.list = strays[w].hand.list
<1>1. ASSUME NEW w \in Stray
      PROVE  LET v == [strays[w] EXCEPT !.hand.fresh = FALSE]
             IN  /\ v \in Worker /\ v.at = strays[w].at /\ v.with = strays[w].with
                 /\ v.hand.fresh = FALSE /\ v.hand.spec = strays[w].hand.spec
                 /\ v.hand.list = strays[w].hand.list
  <2>1. strays[w] \in Worker /\ strays[w].hand \in Passes
    BY DEF Types, Worker
  <2>2. [strays[w].hand EXCEPT !.fresh = FALSE] \in Passes
    BY <2>1 DEF Passes
  <2>. QED BY <2>1, <2>2 DEF Worker, Passes
<1>2. \A w \in Stray : strays'[w] = [strays[w] EXCEPT !.hand.fresh = FALSE]
  BY DEF Outdated
<1>3. strays' \in [Stray -> Worker]
  BY <1>1 DEF Outdated
<1>. QED BY <1>1, <1>2, <1>3

(* What the spec in hand was read from. *)
LEMMA InHandType ==
  ASSUME Types
  PROVE  /\ InHand \in Passes /\ InHand.fresh /\ InHand.spec = cr.spec /\ InHand.observed = cr.observed
         /\ InHand.outdated = {} /\ ~InHand.err
BY ConstantTypes DEF Types, InHand, Passes, NodeConfigs, NoPass

(* Starting, describing and looking at the object. *)
LEMMA HeadTypes ==
  ASSUME Types, Held,
         Boot \/ Recreate \/ CreateNodeConfig \/ DescribeNodeConfig \/ Refuse \/ BeginPass \/ NothingToDo
  PROVE  RestOK' /\ ObjectOK'
<1>. USE DEF Types, RestOK, ObjectOK
<1>1. CASE Boot \/ Recreate \/ NothingToDo
  BY <1>1 DEF Boot, Recreate, NothingToDo, Held
<1>2. CASE CreateNodeConfig
  <2>1. pass' = [NoPass EXCEPT !.fresh = TRUE] /\ cr' = [NoNodeConfig EXCEPT !.exists = TRUE, !.generation = 1]
    BY <1>2 DEF CreateNodeConfig, Goto
  <2>2. /\ pass' \in Passes /\ pass'.spec = NoNodeConfig.spec /\ pass'.observed = 0
    BY <2>1, ConstantTypes DEF Passes, NoPass
  <2>3. /\ cr' \in NodeConfigs /\ cr'.exists /\ cr'.spec = NoNodeConfig.spec
        /\ cr'.generation = 1 /\ cr'.observed = 0
    BY <2>1, ConstantTypes DEF NodeConfigs, NoNodeConfig
  <2>4. strays' \in [Stray -> Worker] /\ \A w \in Stray : strays'[w].hand.fresh = FALSE
    BY <1>2, OutdatedShape DEF CreateNodeConfig
  <2>5. RestOK'
    BY <1>2, <2>2, <2>4 DEF CreateNodeConfig
  <2>. QED BY <2>2, <2>3, <2>4, <2>5 DEF Held
<1>3. CASE DescribeNodeConfig
  <2>1. cr' \in NodeConfigs /\ cr'.observed = cr'.generation
    BY <1>3 DEF DescribeNodeConfig, NodeConfigs, Reasons
  <2>2. pass' = NoPass /\ ~NoPass.fresh
    BY <1>3 DEF DescribeNodeConfig, Goto, NoPass
  <2>3. cr'.observed <= cr'.generation
    BY <2>1 DEF NodeConfigs
  <2>. QED BY <1>3, <2>1, <2>2, <2>3, ConstantTypes, OutdatedShape DEF DescribeNodeConfig, Held
<1>4. CASE Refuse \/ BeginPass
  <2>1. PICK R \in SUBSET Installed : pass' = InHand \/ pass' = [InHand EXCEPT !.outdated = R]
    BY <1>4 DEF Refuse, BeginPass, Goto
  <2>2. pass' \in Passes /\ pass'.spec = cr.spec /\ pass'.observed = cr.observed
    BY <2>1, InHandType DEF Passes
  <2>. QED BY <1>4, <2>2 DEF Refuse, BeginPass, Held
<1>. QED BY <1>1, <1>2, <1>3, <1>4

(* Remembering what was applied. *)
LEMMA RememberType ==
  ASSUME Types, Remember
  PROVE  prev' \in [Card -> Config \cup {NoConfig}] /\ touched' \subseteq Installed
BY DEF Types, Remember, Passes, NodeSpec

(* What the report of a pass leaves in the hands of the worker it lost. *)
LEMMA PartedShape ==
  ASSUME Types, NEW written \in BOOLEAN, Parted(written)
  PROVE  /\ strays' \in [Stray -> Worker]
         /\ \A w \in Stray :
              /\ strays'[w].at = strays[w].at /\ strays'[w].with = FALSE
              /\ strays'[w].hand.spec = strays[w].hand.spec
              /\ strays'[w].hand.list = strays[w].hand.list
              /\ strays[w].with => /\ strays'[w].hand.fresh = strays[w].hand.fresh
                                   /\ strays'[w].hand.observed = ObservedGeneration(Verdict)
              /\ ~strays[w].with => /\ strays'[w].hand.fresh = (strays[w].hand.fresh /\ ~written)
                                    /\ strays'[w].hand.observed = strays[w].hand.observed
<1>. DEFINE o == ObservedGeneration(Verdict)
<1>0. o \in Nat
  BY DEF ObservedGeneration, Types, NodeConfigs, Passes
<1>. HIDE DEF o
<1>1. ASSUME NEW w \in Stray PROVE strays[w] \in Worker /\ strays[w].hand \in Passes
  BY DEF Types, Worker
<1>5. ASSUME NEW w \in Stray
      PROVE  /\ strays'[w] \in Worker
             /\ strays'[w].at = strays[w].at /\ strays'[w].with = FALSE
             /\ strays'[w].hand.spec = strays[w].hand.spec
             /\ strays'[w].hand.list = strays[w].hand.list
             /\ strays[w].with => /\ strays'[w].hand.fresh = strays[w].hand.fresh
                                  /\ strays'[w].hand.observed = o
             /\ ~strays[w].with => /\ strays'[w].hand.fresh = (strays[w].hand.fresh /\ ~written)
                                   /\ strays'[w].hand.observed = strays[w].hand.observed
  <2>1. CASE strays[w].with
    <3>. DEFINE v == [strays[w] EXCEPT !.with = FALSE, !.hand.observed = o]
    <3>1. strays'[w] = v
      BY <2>1, Zenon DEF Parted, o
    <3>2. [strays[w].hand EXCEPT !.observed = o] \in Passes
      BY <1>0, <1>1 DEF Passes
    <3>3. /\ v \in Worker /\ v.at = strays[w].at /\ v.with = FALSE
          /\ v.hand.fresh = strays[w].hand.fresh /\ v.hand.spec = strays[w].hand.spec
          /\ v.hand.list = strays[w].hand.list /\ v.hand.observed = o
      BY <1>1, <3>2 DEF Worker, Passes
    <3>. HIDE DEF v
    <3>. QED BY <2>1, <3>1, <3>3
  <2>2. CASE ~strays[w].with
    <3>. DEFINE b == strays[w].hand.fresh /\ ~written
                v == [strays[w] EXCEPT !.hand.fresh = b]
    <3>1. strays'[w] = v
      BY <2>2, Zenon DEF Parted
    <3>2. b \in BOOLEAN
      OBVIOUS
    <3>. HIDE DEF b
    <3>3. [strays[w].hand EXCEPT !.fresh = b] \in Passes
      BY <1>1, <3>2 DEF Passes
    <3>4. /\ v \in Worker /\ v.at = strays[w].at /\ v.with = strays[w].with
          /\ v.hand.fresh = b /\ v.hand.spec = strays[w].hand.spec
          /\ v.hand.list = strays[w].hand.list /\ v.hand.observed = strays[w].hand.observed
      BY <1>1, <3>3 DEF Worker, Passes
    <3>5. strays[w].with = FALSE
      BY <1>1, <2>2 DEF Worker
    <3>. HIDE DEF v
    <3>. QED BY <2>2, <3>1, <3>4, <3>5 DEF b
  <2>. QED BY <2>1, <2>2
<1>6. strays' = [w \in Stray |-> strays'[w]]
  BY Zenon DEF Parted
<1>7. strays' \in [Stray -> Worker]
  BY <1>5, <1>6
<1>. QED BY <1>5, <1>7 DEF o

(* The object after a status update, if nothing else of it changes in hand. *)
LEMMA StatusHeld ==
  ASSUME Types, Held, Beside, NEW reason \in Reasons, pass.fresh, UpdateStatus(reason),
         Outdated \/ (Parted(TRUE) /\ reason = Verdict),
         \/ pass'.fresh = FALSE
         \/ pass'.spec = pass.spec /\ pass'.observed \in {pass.observed, ObservedGeneration(reason)}
  PROVE  ObjectOK'
<1>1. /\ cr' \in NodeConfigs /\ cr'.exists = cr.exists /\ cr'.spec = cr.spec
      /\ cr'.generation = cr.generation /\ cr'.observed = ObservedGeneration(reason)
      /\ cr'.observed <= cr.generation
  BY StatusType
<1>2. ASSUME NEW w \in Stray, strays'[w].hand.fresh
      PROVE  cr'.exists /\ strays'[w].hand.spec = cr'.spec /\ strays'[w].hand.observed <= cr'.generation
  <2>1. Parted(TRUE) /\ reason = Verdict
    BY <1>2, OutdatedShape
  <2>2. strays[w].with /\ strays[w].hand.fresh
    BY <1>2, <2>1, PartedShape
  <2>3. /\ strays'[w].hand.spec = strays[w].hand.spec
        /\ strays'[w].hand.observed = ObservedGeneration(reason)
    BY <2>1, <2>2, PartedShape
  <2>. QED BY <1>1, <2>2, <2>3 DEF Held
<1>. QED BY <1>1, <1>2 DEF ObjectOK, Held

(* Status updates at the ends of a pass, and those that fail. *)
LEMMA StatusTypes ==
  ASSUME Types, Held, Beside, RefuseSpec \/ MarkInProgress \/ Report \/ StatusUpdateFails
  PROVE  RestOK' /\ ObjectOK'
<1>0. NoPass \in Passes /\ NoPass.fresh = FALSE /\ {"Failed", "InProgress", "Succeeded"} \subseteq Reasons
      /\ Verdict \in Reasons
  BY ConstantTypes DEF NoPass, Reasons, Verdict
<1>1. CASE RefuseSpec
  <2>1. pass' = NoPass /\ pass.fresh /\ UpdateStatus("Failed") /\ Outdated
    BY <1>1 DEF RefuseSpec, Goto
  <2>2. ObjectOK'
    BY <1>0, <2>1, StatusHeld
  <2>. QED BY <1>0, <1>1, <2>1, <2>2, OutdatedShape DEF RefuseSpec, Types, RestOK
<1>2. CASE MarkInProgress
  <2>1. pass' = pass /\ pass.fresh /\ UpdateStatus("InProgress") /\ Outdated
    BY <1>2 DEF MarkInProgress, Goto
  <2>2. required' \subseteq Installed
    BY <1>2 DEF MarkInProgress, UpdateRequired, Changed, Types, Passes
  <2>3. ObjectOK'
    BY <1>0, <2>1, StatusHeld
  <2>. QED BY <1>2, <2>1, <2>2, <2>3, OutdatedShape DEF MarkInProgress, Types, RestOK
<1>3. CASE Report
  <2>1. pass' = NoPass /\ pass.fresh /\ UpdateStatus(Verdict) /\ Parted(TRUE)
    BY <1>3 DEF Report, Goto
  <2>2. ObjectOK'
    BY <1>0, <2>1, StatusHeld
  <2>3. prev' \in [Card -> Config \cup {NoConfig}] /\ touched' \subseteq Installed
    BY <1>3, RememberType DEF Report, Types
  <2>. QED BY <1>0, <1>3, <2>1, <2>2, <2>3, PartedShape DEF Report, Types, RestOK
<1>4. CASE StatusUpdateFails
  <2>1. pass' = NoPass /\ cr' = cr
    BY <1>4 DEF StatusUpdateFails, Goto
  <2>2. prev' \in [Card -> Config \cup {NoConfig}] /\ touched' \subseteq Installed
    BY <1>4, RememberType DEF StatusUpdateFails, Types
  <2>3. spent' \in [Fault -> Nat]
    BY <1>4, HappensCounts DEF StatusUpdateFails, Types, Fault
  <2>4. required' \subseteq Installed
    BY <1>4 DEF StatusUpdateFails, Changed, Types
  <2>5. strays' \in [Stray -> Worker]
    BY <1>4, PartedShape DEF StatusUpdateFails, Types
  <2>6. ASSUME NEW w \in Stray, strays'[w].hand.fresh
        PROVE  cr.exists /\ strays'[w].hand.spec = cr.spec /\ strays'[w].hand.observed <= cr.generation
    <3>1. CASE strays' = strays
      BY <2>6, <3>1 DEF Held
    <3>2. CASE Parted(FALSE)
      <4>1. strays[w].hand.fresh /\ strays'[w].hand.spec = strays[w].hand.spec
        BY <2>6, <3>2, PartedShape
      <4>2. CASE strays[w].with
        <5>1. pass.fresh /\ strays'[w].hand.observed = ObservedGeneration(Verdict)
          BY <3>2, <4>1, <4>2, PartedShape DEF Beside
        <5>2. ObservedGeneration(Verdict) <= cr.generation
          BY <5>1 DEF ObservedGeneration, Held, Types, NodeConfigs
        <5>. QED BY <4>1, <5>1, <5>2 DEF Held
      <4>3. CASE ~strays[w].with
        BY <3>2, <4>1, <4>3, PartedShape DEF Held
      <4>. QED BY <4>2, <4>3
    <3>. QED BY <1>4, <3>1, <3>2 DEF StatusUpdateFails
  <2>7. ObjectOK'
    BY <1>0, <2>1, <2>6 DEF ObjectOK, Held, Types
  <2>. QED BY <1>0, <1>4, <2>1, <2>2, <2>3, <2>4, <2>5, <2>7 DEF StatusUpdateFails, Types, RestOK
<1>. QED BY <1>1, <1>2, <1>3, <1>4

(* A pass that goes on with the object it has in hand. *)
GoesOn == pass'.fresh = pass.fresh /\ pass'.spec = pass.spec /\ pass'.observed = pass.observed

(* What is in hand stays what it was. *)
LEMMA GoesOnHeld ==
  ASSUME Types, Held, cr' = cr, strays' = strays, GoesOn
  PROVE  ObjectOK'
BY DEF Types, Held, ObjectOK, GoesOn

(* Draining, configuring the cards, restarting the plugin and uncordoning. *)
LEMMA WorkTypes ==
  ASSUME Types, Held,
         \/ Drain \/ VrbApplySpec \/ AllConfigured \/ RestartDevicePlugin \/ Uncordon \/ CallFails
         \/ \E c \in Installed : ConfigureCard(c) \/ CardFails(c)
  PROVE  RestOK' /\ ObjectOK'
<1>0. pass \in Passes /\ pass.spec \in NodeSpec /\ pass.spec.drainSkip \in BOOLEAN
  BY DEF Types, Passes, NodeSpec
<1>1. ASSUME cr' = cr, strays' = strays, pass' \in Passes, GoesOn PROVE ObjectOK' /\ pass' \in Passes
  BY <1>1, GoesOnHeld
<1>2. CASE Drain \/ RestartDevicePlugin \/ Uncordon
  <2>1. pass' = pass /\ cr' = cr /\ strays' = strays
    BY <1>2 DEF Drain, RestartDevicePlugin, Uncordon, Goto
  <2>2. undone' \subseteq {"plugin", "node"}
    BY <1>2 DEF Drain, RestartDevicePlugin, Uncordon, Types
  <2>. QED BY <1>0, <1>1, <1>2, <2>1, <2>2 DEF Drain, RestartDevicePlugin, Uncordon, Types, RestOK, GoesOn
<1>3. CASE VrbApplySpec
  <2>. DEFINE todo == {c \in required : Requested(pass.spec, c) \/ hw[c].vfs > 0}
  <2>1. pass' = [pass EXCEPT !.todo = todo]
    BY <1>3 DEF VrbApplySpec, Goto
  <2>2. todo \in SUBSET Installed
    BY DEF Types
  <2>3. pass' \in Passes /\ GoesOn
    BY <1>0, <2>1, <2>2 DEF Passes, GoesOn
  <2>. QED BY <1>1, <1>3, <2>3 DEF VrbApplySpec, Types, RestOK
<1>4. CASE AllConfigured
  <2>1. pass' = [pass EXCEPT !.names = Named(pass.spec)]
    BY <1>4 DEF AllConfigured, NextName, Goto
  <2>2. Named(pass.spec) \in SUBSET Card
    BY DEF Named
  <2>3. pass' \in Passes /\ GoesOn
    BY <1>0, <2>1, <2>2 DEF Passes, GoesOn
  <2>. QED BY <1>1, <1>4, <2>3 DEF AllConfigured, Types, RestOK
<1>5. CASE CallFails
  <2>1. pass' = [pass EXCEPT !.err = TRUE]
    BY <1>5 DEF CallFails, Goto
  <2>2. pass' \in Passes /\ GoesOn
    BY <1>0, <2>1 DEF Passes, GoesOn
  <2>3. spent' \in [Fault -> Nat]
    BY <1>5, HappensCounts DEF CallFails, Fault
  <2>. QED BY <1>1, <1>5, <2>2, <2>3 DEF CallFails, Types, RestOK
<1>6. ASSUME NEW c \in Installed, NEW card \in Hardware, hw' = [hw EXCEPT ![c] = card]
      PROVE  hw' \in [Installed -> Hardware]
  BY <1>6 DEF Types
<1>7. ASSUME NEW c \in Installed, ConfigureCard(c) PROVE RestOK' /\ ObjectOK'
  <2>1. pass' = [pass EXCEPT !.todo = @ \ {c}]
    BY <1>7 DEF ConfigureCard, Goto
  <2>2. pass' \in Passes /\ GoesOn
    BY <1>0, <2>1 DEF Passes, GoesOn
  <2>3. (IF Requested(pass.spec, c) THEN Running(pass.spec.pfs[c]) ELSE Blank) \in Hardware
    BY <1>0, AskedTypes, ConstantTypes, CardAssumption
  <2>4. hw' \in [Installed -> Hardware]
    BY <1>6, <1>7, <2>3 DEF ConfigureCard
  <2>5. pluginStale' \in BOOLEAN
    BY <1>7 DEF ConfigureCard, Types
  <2>. QED BY <1>1, <1>7, <2>2, <2>4, <2>5 DEF ConfigureCard, Types, RestOK
<1>8. ASSUME NEW c \in Installed, CardFails(c) PROVE RestOK' /\ ObjectOK'
  <2>1. pass' = [pass EXCEPT !.todo = {}, !.err = TRUE]
    BY <1>8 DEF CardFails, Goto
  <2>2. pass' \in Passes /\ GoesOn
    BY <1>0, <2>1 DEF Passes, GoesOn
  <2>3. hw[c].vfs \in Nat /\ RequestedVFs(pass.spec, c) \in Nat
    BY <1>0, AskedTypes, CardAssumption DEF Types, Hardware
  <2>4. Unfinished(c) \subseteq Hardware
    <3>1. \A n \in Nat : [cfg |-> NoConfig, vfs |-> n, alive |-> FALSE] \in Hardware
      BY DEF Hardware
    <3>. QED BY <2>3, <3>1 DEF Unfinished
  <2>5. hw' \in [Installed -> Hardware]
    BY <1>6, <1>8, <2>4 DEF CardFails
  <2>6. pluginStale' \in BOOLEAN
    BY <1>8 DEF CardFails, Types
  <2>7. spent' \in [Fault -> Nat]
    BY <1>8, HappensCounts DEF CardFails, Fault
  <2>. QED BY <1>1, <1>8, <2>2, <2>5, <2>6, <2>7 DEF CardFails, Types, RestOK
<1>. QED BY <1>2, <1>3, <1>4, <1>5, <1>7, <1>8

(* What a pass does not change while it names the cards. *)
Same ==
  /\ pass'.spec = pass.spec /\ pass'.todo = pass.todo /\ pass'.err = pass.err

(* Somebody else writes this node's list, or the shared one. *)
LEMMA OverwrittenShape ==
  ASSUME Types, ListsOverwritten
  PROVE  /\ pass' \in Passes /\ GoesOn /\ Same
         /\ pass'.names = pass.names /\ pass'.list = pass.list
         /\ pass.missed \subseteq pass'.missed
         /\ pc \in Naming \cup {"restart", "uncordon", "report"} => pass'.missed = Card
<1>1. pass \in Passes /\ pass.missed \subseteq Card
  BY DEF Types, Passes
<1>2. CASE pc \in Naming \cup {"restart", "uncordon", "report"}
  <2>1. pass' = [pass EXCEPT !.missed = Card]
    BY <1>2 DEF ListsOverwritten
  <2>. QED BY <1>1, <2>1 DEF Passes, GoesOn, Same
<1>3. CASE pc \notin Naming \cup {"restart", "uncordon", "report"}
  <2>1. pass' = pass
    BY <1>3 DEF ListsOverwritten
  <2>. QED BY <1>1, <1>3, <2>1 DEF GoesOn, Same
<1>. QED BY <1>2, <1>3

(* What the environment does. *)
LEMMA EnvironmentTypes ==
  ASSUME Types, Held, Environment
  PROVE  RestOK' /\ ObjectOK'
<1>0. pass \in Passes /\ cr \in NodeConfigs /\ NoPass \in Passes /\ NoNodeConfig \in NodeConfigs
      /\ cm \in ConfigMap /\ Deployed \in ConfigMap /\ {SharedEntry} \in Lists
  BY ConstantTypes DEF Types, Deployed, ConfigMap
<1>1. ASSUME pass' = [pass EXCEPT !.fresh = FALSE]
      PROVE  pass' \in Passes /\ pass'.fresh = FALSE
  BY <1>0, <1>1 DEF Passes
<1>2. ASSUME NEW s \in Propagated, SetSpec(s) PROVE RestOK' /\ ObjectOK'
  <2>1. s \in NodeSpec
    BY PropagatedAssumption
  <2>2. cr' \in NodeConfigs /\ cr'.observed <= cr'.generation
    <3>. DEFINE g == cr.generation + 1
    <3>1. cr' = [cr EXCEPT !.spec = s, !.generation = g]
      BY <1>2 DEF SetSpec
    <3>2. cr.observed \in Nat /\ g \in Nat /\ cr.observed <= g
      BY <1>0 DEF NodeConfigs, Held
    <3>. HIDE DEF g
    <3>3. cr' \in NodeConfigs /\ cr'.observed = cr.observed /\ cr'.generation = g
      BY <1>0, <2>1, <3>1, <3>2 DEF NodeConfigs
    <3>. QED BY <3>2, <3>3
  <2>3. spent' \in [Fault -> Nat]
    BY <1>2, HappensCounts DEF SetSpec, Fault
  <2>. QED BY <1>1, <1>2, <2>2, <2>3, OutdatedShape DEF SetSpec, Types, RestOK, ObjectOK, Held
<1>3. CASE DeleteNodeConfig
  <2>1. spent' \in [Fault -> Nat]
    BY <1>3, HappensCounts DEF DeleteNodeConfig, Fault
  <2>2. NoNodeConfig.observed <= NoNodeConfig.generation
    BY DEF NoNodeConfig
  <2>. QED BY <1>0, <1>1, <1>3, <2>1, <2>2, OutdatedShape
       DEF DeleteNodeConfig, Types, RestOK, ObjectOK, Held
<1>4. ASSUME NEW c \in Installed, ResetVFs(c) PROVE RestOK' /\ ObjectOK'
  <2>1. spent' \in [Fault -> Nat]
    BY <1>4, HappensCounts DEF ResetVFs, Fault
  <2>2. hw' \in [Installed -> Hardware]
    BY <1>4 DEF ResetVFs, Types, Hardware
  <2>. QED BY <1>4, <2>1, <2>2 DEF ResetVFs, Types, RestOK, ObjectOK, Held
<1>5. CASE DeployConfigMap
  <2>2. pass' \in Passes /\ GoesOn
    BY <1>5, OverwrittenShape DEF DeployConfigMap
  <2>3. spent' \in [Fault -> Nat]
    BY <1>5, HappensCounts DEF DeployConfigMap, Fault
  <2>4. ObjectOK'
    BY <1>5, <2>2, GoesOnHeld DEF DeployConfigMap
  <2>. QED BY <1>0, <1>5, <2>2, <2>3, <2>4 DEF DeployConfigMap, Types, RestOK
<1>6. CASE OtherNodeLists
  <2>1. spent' \in [Fault -> Nat]
    BY <1>6, HappensCounts DEF OtherNodeLists, Fault
  <2>2. cm' \in ConfigMap
    BY <1>0, <1>6 DEF OtherNodeLists, ConfigMap
  <2>. QED BY <1>6, <2>1, <2>2 DEF OtherNodeLists, Types, RestOK, ObjectOK, Held
<1>7. CASE Crash
  <2>1. spent' \in [Fault -> Nat]
    BY <1>7, HappensCounts DEF Crash, Fault
  <2>2. \A c \in Installed : [hw[c] EXCEPT !.alive = FALSE] \in Hardware
    BY DEF Types, Hardware
  <2>3. hw' \in [Installed -> Hardware]
    BY <1>7, <2>2 DEF Crash
  <2>4. pass' = NoPass /\ NoPass.fresh = FALSE
    BY <1>7 DEF Crash, Goto, NoPass
  <2>5. strays' \in [Stray -> Worker] /\ \A w \in Stray : strays'[w].hand.fresh = FALSE
    BY <1>7, ConstantTypes DEF Crash, NoWorker, NoPass
  <2>6. RestOK'
    BY <1>0, <1>7, <2>1, <2>3, <2>4, <2>5, ConstantTypes DEF Crash, Types, RestOK
  <2>. QED BY <1>0, <1>7, <2>4, <2>5, <2>6 DEF Crash, Types, ObjectOK, Held
<1>. QED BY <1>2, <1>3, <1>4, <1>5, <1>6, <1>7 DEF Environment

(* An entry is added to the list, if it is not there, in place of those it matches. *)
LEMMA EditedType ==
  ASSUME Types, NEW c \in Card, NEW n \in Nat, NEW m \in SUBSET Card, EditList(c, n, m)
  PROVE  LET mine == {e \in pass.list : Matches(e, c)}
             new == EntryOf(pass.spec, c, n)
         IN /\ pass' \in Passes /\ GoesOn
            /\ pass'.todo = pass.todo /\ pass'.names = pass.names
            /\ pass'.err = pass.err /\ pass'.missed = m
            /\ \/ new \in mine /\ pc' = "listed" /\ pass'.list = pass.list
               \/ new \notin mine /\ pc' = "reread" /\ pass'.list = (pass.list \ mine) \cup {new}
<1>. DEFINE mine == {e \in pass.list : Matches(e, c)}
            new == EntryOf(pass.spec, c, n)
            list == (pass.list \ mine) \cup {new}
            found == mine # {}
<1>1. pass \in Passes /\ pass.list \in Lists /\ new \in Entry
  BY AskedTypes DEF Types, Passes
<1>2. list \in Lists /\ found \in BOOLEAN
  BY <1>1 DEF Lists
<1>3. CASE new \in mine
  <2>1. pass' = [pass EXCEPT !.missed = m] /\ pc' = "listed"
    BY <1>3 DEF EditList, Goto
  <2>. QED BY <1>1, <1>3, <2>1 DEF Passes, GoesOn
<1>4. CASE new \notin mine
  <2>1. pass' = [pass EXCEPT !.list = list, !.found = found, !.missed = m] /\ pc' = "reread"
    BY <1>4 DEF EditList, Goto
  <2>. HIDE DEF list, found
  <2>2. /\ pass' \in Passes /\ GoesOn /\ pass'.list = list
        /\ pass'.todo = pass.todo /\ pass'.names = pass.names
        /\ pass'.err = pass.err /\ pass'.missed = m
    BY <1>1, <1>2, <2>1 DEF Passes, GoesOn
  <2>. QED BY <1>4, <2>1, <2>2 DEF list
<1>. QED BY <1>3, <1>4

(* One card after the other is named. *)
LEMMA NextType ==
  ASSUME Types, NEW locals \in Passes, NextName(locals)
  PROVE  /\ pass' = locals /\ pass' \in Passes
         /\ pc' = IF locals.names = {} THEN "restart" ELSE "load"
BY DEF NextName, Goto

(* A list may have no entry. *)
LEMMA EmptyList == {} \in Lists
BY DEF Lists

(* The pass has named a card, or given it up. *)
NamedOne(c, missed) ==
  /\ pass' \in Passes /\ Same
  /\ pass'.names = pass.names \ {c} /\ pass'.list = {} /\ pass'.missed = missed
  /\ pc' = IF pass'.names = {} THEN "restart" ELSE "load"

(* The list is read, or made of the shared one. *)
LEMMA LoadShape ==
  ASSUME Types, LoadList
  PROVE  /\ pass' \in Passes /\ GoesOn /\ Same /\ pass'.names = pass.names /\ pass'.missed = pass.missed
         /\ pass'.list = PluginList /\ pc' \in {"addkey", "match"}
<1>1. pass \in Passes /\ cm \in ConfigMap
  BY DEF Types
<1>2. PluginList \in Lists
  BY <1>1 DEF PluginList, ConfigMap
<1>3. pass' = [pass EXCEPT !.copy = cm, !.list = PluginList] /\ pc' \in {"addkey", "match"}
  BY DEF LoadList, Goto, PluginList
<1>4. PICK list \in Lists : list = PluginList
  BY <1>2
<1>. QED BY <1>1, <1>3, <1>4 DEF Passes, GoesOn, Same

(* The map is read again. *)
LEMMA RereadShape ==
  ASSUME Types, RereadMap
  PROVE  /\ pass' \in Passes /\ GoesOn /\ Same /\ pass'.names = pass.names /\ pass'.missed = pass.missed
         /\ pass'.list = pass.list /\ pc' = "write"
<1>1. pass \in Passes /\ cm \in ConfigMap
  BY DEF Types
<1>2. pass' = [pass EXCEPT !.copy = cm] /\ pc' = "write"
  BY DEF RereadMap, Goto
<1>. QED BY <1>1, <1>2 DEF Passes, GoesOn, Same

(* This node's key is added: the plugin's list is what is in hand. *)
LEMMA AddShape ==
  ASSUME Types, AddKey
  PROVE  /\ pass' = pass /\ pc' = "match" /\ cm' \in ConfigMap /\ PluginList' = pass.list
         /\ cm'.shared = cm.shared /\ cm'.own = pass.list /\ cm'.other = cm.other
<1>1. pass \in Passes /\ cm \in ConfigMap /\ pass.list \in Lists /\ pass.list # Absent
  BY AbsentAssumption DEF Types, Passes
<1>2. cm' = [cm EXCEPT !.own = pass.list] /\ pass' = pass /\ pc' = "match"
  BY DEF AddKey, Goto
<1>3. /\ cm' \in ConfigMap /\ cm'.shared = cm.shared /\ cm'.own = pass.list /\ cm'.other = cm.other
  BY <1>1, <1>2 DEF ConfigMap
<1>. QED BY <1>1, <1>2, <1>3 DEF PluginList

(* The map is written: the plugin's list is what is in hand. *)
LEMMA WriteShape ==
  ASSUME Types, NEW c \in Installed, UpdateConfigMap(c)
  PROVE  /\ cm' \in ConfigMap /\ PluginList' = pass.list /\ cm'.other = cm.other
         /\ cm'.shared \in {cm.shared, pass.list} /\ cm'.own \in {cm.own, pass.list}
         /\ cm'.own # Absent \/ cm.own = Absent
         /\ \/ pass' = pass /\ pc' = "listed"
            \/ NamedOne(c, pass.missed) /\ GoesOn
<1>1. /\ pass \in Passes /\ cm \in ConfigMap /\ pass.list \in Lists /\ pass.list # Absent
      /\ pass.found \in BOOLEAN /\ pass.observed \in Nat /\ pass.missed \in SUBSET Card
  BY AbsentAssumption DEF Types, Passes
<1>2. cm' = IF cm.own # Absent THEN [cm EXCEPT !.own = pass.list] ELSE [cm EXCEPT !.shared = pass.list]
  BY DEF UpdateConfigMap, Edited
<1>3. /\ cm' \in ConfigMap /\ PluginList' = pass.list /\ cm'.other = cm.other
      /\ cm'.shared \in {cm.shared, pass.list} /\ cm'.own \in {cm.own, pass.list}
      /\ cm'.own # Absent \/ cm.own = Absent
  <2>1. CASE cm.own # Absent
    <3>1. cm' \in ConfigMap /\ cm'.shared = cm.shared /\ cm'.own = pass.list /\ cm'.other = cm.other
      BY <1>1, <1>2, <2>1 DEF ConfigMap
    <3>. QED BY <1>1, <3>1 DEF PluginList
  <2>2. CASE cm.own = Absent
    <3>1. cm' \in ConfigMap /\ cm'.shared = pass.list /\ cm'.own = Absent /\ cm'.other = cm.other
      BY <1>1, <1>2, <2>2 DEF ConfigMap
    <3>. QED BY <2>2, <3>1 DEF PluginList
  <2>. QED BY <2>1, <2>2
<1>4. CASE pass.found
  <2>1. pass' = pass /\ pc' = "listed"
    BY <1>4 DEF UpdateConfigMap, Goto
  <2>. QED BY <1>3, <2>1
<1>5. CASE ~pass.found
  <2>. DEFINE l == [pass EXCEPT !.names = @ \ {c}, !.list = {}, !.found = FALSE]
  <2>1. NextName(l)
    BY <1>5 DEF UpdateConfigMap, NameDone
  <2>2. /\ l \in Passes /\ l.fresh = pass.fresh /\ l.spec = pass.spec /\ l.observed = pass.observed
        /\ l.todo = pass.todo /\ l.names = pass.names \ {c}
        /\ l.list = {} /\ l.missed = pass.missed /\ l.err = pass.err
    BY <1>1, EmptyList DEF Passes
  <2>. HIDE DEF l
  <2>. QED BY <1>3, <2>1, <2>2, NextType DEF NamedOne, Same, GoesOn
<1>. QED BY <1>1, <1>4, <1>5

(* What stays when a card is given up or reported. *)
LEMMA UnreadFrame ==
  ASSUME NEW c \in Installed, DeviceIDUnread(c)
  PROVE  /\ pc = "match" /\ Happens("step")
         /\ UNCHANGED <<cr, cm, cordoned, pluginStale, hw, prev, touched, disturbed, leaseVars>>
BY Zenon DEF DeviceIDUnread

LEMMA ReportFrame ==
  ASSUME NEW c \in Installed, ReportListed(c) \/ ReportUnlisted(c)
  PROVE  /\ Outdated /\ pass.fresh
         /\ UNCHANGED <<cm, cordoned, pluginStale, hw, spent, disturbed, required, adrift, undone>>
         /\ \/ pc = "listed" /\ UpdateStatus("Succeeded") /\ Remember
            \/ pc = "unlisted" /\ UpdateStatus("Failed") /\ UNCHANGED <<prev, touched>>
BY Zenon DEF ReportListed, ReportUnlisted

(* A card whose device cannot be read is given up. *)
LEMMA UnreadShape ==
  ASSUME Types, NEW c \in Installed, DeviceIDUnread(c)
  PROVE  NamedOne(c, pass.missed \cup {c}) /\ GoesOn
<1>. DEFINE m == pass.missed \cup {c}
            l == [pass EXCEPT !.names = @ \ {c}, !.list = {}, !.missed = m]
<1>1. /\ pass \in Passes /\ pass.found \in BOOLEAN /\ pass.observed \in Nat /\ m \in SUBSET Card
  BY CardAssumption DEF Types, Passes
<1>2. NextName(l)
  BY DEF DeviceIDUnread
<1>3. /\ l \in Passes /\ l.fresh = pass.fresh /\ l.spec = pass.spec /\ l.observed = pass.observed
      /\ l.todo = pass.todo /\ l.names = pass.names \ {c}
      /\ l.list = {} /\ l.missed = m /\ l.err = pass.err
  BY <1>1, EmptyList DEF Passes
<1>. HIDE DEF l
<1>. QED BY <1>2, <1>3, NextType DEF NamedOne, Same, GoesOn

(* A card is reported, one way or the other. *)
LEMMA ReportShape ==
  ASSUME Types, Held, Beside, NEW c \in Installed, ReportListed(c) \/ ReportUnlisted(c)
  PROVE  /\ ObjectOK' /\ cr'.spec = pass.spec /\ cr'.exists
         /\ ReportListed(c) => NamedOne(c, pass.missed)
         /\ ReportUnlisted(c) => NamedOne(c, pass.missed \cup {c}) /\ cr'.reason = "Failed"
<1>1. /\ pass \in Passes /\ pass.found \in BOOLEAN /\ pass.observed \in Nat
      /\ pass.missed \in SUBSET Card /\ pass.missed \cup {c} \in SUBSET Card
      /\ {"Failed", "Succeeded"} \subseteq Reasons
  BY CardAssumption DEF Types, Passes, Reasons
<1>2. pass.fresh /\ cr.exists /\ pass.spec = cr.spec /\ Outdated
  BY DEF ReportListed, ReportUnlisted, Held
<1>3. CASE ReportListed(c)
  <2>. DEFINE o == ObservedGeneration("Succeeded")
              l == [pass EXCEPT !.names = @ \ {c}, !.list = {}, !.found = FALSE, !.observed = o]
  <2>1. NextName(l) /\ UpdateStatus("Succeeded")
    BY <1>3 DEF ReportListed
  <2>2. o \in Nat
    BY <1>1, <1>2, <2>1, StatusType
  <2>3. /\ l \in Passes /\ l.fresh = pass.fresh /\ l.spec = pass.spec /\ l.observed = o
        /\ l.todo = pass.todo /\ l.names = pass.names \ {c}
        /\ l.list = {} /\ l.missed = pass.missed /\ l.err = pass.err
    BY <1>1, <2>2, EmptyList DEF Passes
  <2>. HIDE DEF l
  <2>4. NamedOne(c, pass.missed) /\ pass'.spec = pass.spec /\ pass'.observed = o
    BY <2>1, <2>3, NextType DEF NamedOne, Same
  <2>5. ObjectOK'
    BY <1>1, <1>2, <2>1, <2>4, StatusHeld
  <2>6. cr'.spec = cr.spec /\ cr'.exists = cr.exists /\ cr'.reason = "Succeeded"
    BY <1>1, <1>2, <2>1, StatusType
  <2>7. ~ReportUnlisted(c)
    BY <1>3 DEF ReportListed, ReportUnlisted
  <2>. QED BY <1>2, <2>4, <2>5, <2>6, <2>7
<1>4. CASE ReportUnlisted(c)
  <2>. DEFINE m == pass.missed \cup {c}
              l == [pass EXCEPT !.names = @ \ {c}, !.list = {}, !.found = FALSE, !.missed = m]
  <2>1. NextName(l) /\ UpdateStatus("Failed")
    BY <1>4 DEF ReportUnlisted
  <2>3. /\ l \in Passes /\ l.fresh = pass.fresh /\ l.spec = pass.spec /\ l.observed = pass.observed
        /\ l.todo = pass.todo /\ l.names = pass.names \ {c}
        /\ l.list = {} /\ l.missed = m /\ l.err = pass.err
    BY <1>1, EmptyList DEF Passes
  <2>. HIDE DEF l
  <2>4. NamedOne(c, m) /\ pass'.spec = pass.spec /\ pass'.observed = pass.observed
    BY <2>1, <2>3, NextType DEF NamedOne, Same
  <2>5. ObjectOK'
    BY <1>1, <1>2, <2>1, <2>4, StatusHeld
  <2>6. cr'.spec = cr.spec /\ cr'.exists = cr.exists /\ cr'.reason = "Failed"
    BY <1>1, <1>2, <2>1, StatusType
  <2>7. ~ReportListed(c)
    BY <1>4 DEF ReportListed, ReportUnlisted
  <2>. QED BY <1>2, <2>4, <2>5, <2>6, <2>7
<1>. QED BY <1>3, <1>4

(* A report that cannot be written ends the naming. *)
LEMMA NoReportShape ==
  ASSUME Types, Held, ReportNameFails
  PROVE  /\ pass' \in Passes /\ ObjectOK'
         /\ pass'.spec = pass.spec /\ pass'.todo = pass.todo
         /\ pass'.names = {} /\ pass'.err = TRUE /\ pass'.list = pass.list /\ pc' = "uncordon"
<1>. DEFINE o == ObservedGeneration(IF pc = "listed" THEN "Succeeded" ELSE "Failed")
<1>1. pass \in Passes /\ cr \in NodeConfigs
  BY DEF Types
<1>2. o \in Nat /\ (pass.fresh => o <= cr.generation)
  BY <1>1 DEF ObservedGeneration, Held, Passes, NodeConfigs
<1>3. pass' = [pass EXCEPT !.observed = o, !.err = TRUE, !.names = {}] /\ pc' = "uncordon" /\ cr' = cr /\ strays' = strays
  BY DEF ReportNameFails, Goto
<1>. HIDE DEF o
<1>4. /\ pass' \in Passes /\ pass'.fresh = pass.fresh /\ pass'.observed = o
      /\ pass'.spec = pass.spec /\ pass'.todo = pass.todo
      /\ pass'.names = {} /\ pass'.err = TRUE /\ pass'.list = pass.list
  BY <1>1, <1>2, <1>3 DEF Passes
<1>5. ObjectOK'
  BY <1>1, <1>2, <1>3, <1>4 DEF ObjectOK, Held
<1>. QED BY <1>3, <1>4, <1>5

(* A map that cannot be read or written ends it, or is reported. *)
LEMMA MapFailsShape ==
  ASSUME Types, ConfigMapFails
  PROVE  \/ pass' = pass /\ pc' = "unlisted"
         \/ /\ pass' \in Passes /\ GoesOn
            /\ pass'.todo = pass.todo
            /\ pass'.names = {} /\ pass'.err = TRUE /\ pass'.list = pass.list /\ pc' = "uncordon"
<1>1. pass \in Passes
  BY DEF Types
<1>2. \/ pass' = pass /\ pc' = "unlisted"
      \/ pass' = [pass EXCEPT !.names = {}, !.err = TRUE] /\ pc' = "uncordon"
  BY DEF ConfigMapFails, Goto
<1>. QED BY <1>1, <1>2 DEF Passes, GoesOn

(* Naming the cards, whatever happens to the map and to the reports. *)
LEMMA ListTypes ==
  ASSUME Types, Held, Beside,
         \/ LoadList \/ AddKey \/ RereadMap \/ ConfigMapFails \/ ReportNameFails
         \/ \E c \in Installed :
              \/ MatchResource(c) \/ VFsUnread(c) \/ DeviceIDUnread(c)
              \/ UpdateConfigMap(c) \/ ReportListed(c) \/ ReportUnlisted(c)
  PROVE  RestOK' /\ ObjectOK'
<1>0. pass \in Passes /\ \A c \in Installed : c \in Card /\ hw[c].vfs \in Nat
  BY CardAssumption DEF Types, Hardware
<1>00. ASSUME Happens("step") PROVE spent' \in [Fault -> Nat]
  BY <1>00, HappensCounts DEF Fault
<1>1. ASSUME cr' = cr, strays' = strays, pass' \in Passes, GoesOn PROVE ObjectOK' /\ pass' \in Passes
  BY <1>1, GoesOnHeld
<1>2. CASE LoadList
  BY <1>1, <1>2, LoadShape DEF LoadList, Types, RestOK
<1>3. CASE AddKey
  BY <1>0, <1>1, <1>3, AddShape DEF AddKey, Types, RestOK, GoesOn
<1>4. CASE RereadMap
  BY <1>1, <1>4, RereadShape DEF RereadMap, Types, RestOK
<1>5. CASE ConfigMapFails
  <2>1. spent' \in [Fault -> Nat]
    BY <1>5, HappensCounts DEF ConfigMapFails, Types, Fault
  <2>2. pass' \in Passes /\ GoesOn
    BY <1>0, <1>5, MapFailsShape DEF GoesOn
  <2>. QED BY <1>1, <1>5, <2>1, <2>2 DEF ConfigMapFails, Types, RestOK
<1>6. CASE ReportNameFails
  <2>1. spent' \in [Fault -> Nat]
    BY <1>6, HappensCounts DEF ReportNameFails, Types, Fault
  <2>2. prev' \in [Card -> Config \cup {NoConfig}] /\ touched' \subseteq Installed
    BY <1>6, RememberType DEF ReportNameFails, Types
  <2>. QED BY <1>6, <2>1, <2>2, NoReportShape DEF ReportNameFails, Types, RestOK
<1>7. ASSUME NEW c \in Installed, MatchResource(c) PROVE RestOK' /\ ObjectOK'
  <2>1. EditList(c, hw[c].vfs, pass.missed) /\ pass.missed \in SUBSET Card
    BY <1>0, <1>7 DEF MatchResource, Passes
  <2>2. pass' \in Passes /\ GoesOn
    BY <1>0, <2>1, EditedType
  <2>. QED BY <1>1, <1>7, <2>2 DEF MatchResource, Types, RestOK
<1>8. ASSUME NEW c \in Installed, VFsUnread(c) PROVE RestOK' /\ ObjectOK'
  <2>1. EditList(c, 0, pass.missed \cup {c}) /\ pass.missed \cup {c} \in SUBSET Card /\ 0 \in Nat
    BY <1>0, <1>8 DEF VFsUnread, Passes
  <2>2. pass' \in Passes /\ GoesOn
    BY <1>0, <2>1, EditedType
  <2>3. spent' \in [Fault -> Nat]
    BY <1>00, <1>8 DEF VFsUnread
  <2>. QED BY <1>1, <1>8, <2>2, <2>3 DEF VFsUnread, Types, RestOK
<1>9. ASSUME NEW c \in Installed, DeviceIDUnread(c) PROVE RestOK' /\ ObjectOK'
  <2>1. pass' \in Passes /\ GoesOn
    BY <1>9, UnreadShape DEF NamedOne
  <2>2. spent' \in [Fault -> Nat]
    BY <1>00, <1>9, UnreadFrame
  <2>. QED BY <1>1, <1>9, <2>1, <2>2, UnreadFrame DEF Types, RestOK
<1>10. ASSUME NEW c \in Installed, UpdateConfigMap(c) PROVE RestOK' /\ ObjectOK'
  <2>1. pass' \in Passes /\ GoesOn /\ cm' \in ConfigMap
    BY <1>0, <1>10, WriteShape DEF NamedOne, GoesOn
  <2>. QED BY <1>1, <1>10, <2>1 DEF UpdateConfigMap, Types, RestOK
<1>11. ASSUME NEW c \in Installed, ReportListed(c) \/ ReportUnlisted(c) PROVE RestOK' /\ ObjectOK'
  <2>1. prev' \in [Card -> Config \cup {NoConfig}] /\ touched' \subseteq Installed
    BY <1>11, RememberType, ReportFrame DEF Types
  <2>2. pass' \in Passes /\ ObjectOK'
    BY <1>11, ReportShape DEF NamedOne
  <2>3. strays' \in [Stray -> Worker]
    BY <1>11, OutdatedShape, ReportFrame
  <2>. QED BY <1>11, <2>1, <2>2, <2>3, ReportFrame DEF Types, RestOK
<1>. QED BY <1>2, <1>3, <1>4, <1>5, <1>6, <1>7, <1>8, <1>9, <1>10, <1>11

(* A worker left behind goes on, or has ended. *)
Moves(w) ==
  /\ strays' \in [Stray -> Worker]
  /\ \A v \in Stray \ {w} : strays'[v] = strays[v]
  /\ \/ strays'[w] = NoWorker
     \/ /\ {strays[w].at, strays'[w].at} \cap {"none", "uncordon"} = {}
        /\ strays'[w].with = strays[w].with
        /\ strays'[w].hand.fresh = strays[w].hand.fresh
        /\ strays'[w].hand.spec = strays[w].hand.spec
        /\ strays'[w].hand.observed = strays[w].hand.observed

LEMMA StrayGotoShape ==
  ASSUME Types, NEW w \in Stray, NEW step \in Steps \ {"none", "uncordon"}, NEW locals \in Passes,
         locals.fresh = strays[w].hand.fresh, locals.spec = strays[w].hand.spec,
         locals.observed = strays[w].hand.observed,
         strays[w].at \notin {"none", "uncordon"},
         StrayGoto(w, step, locals)
  PROVE  Moves(w) /\ strays'[w].at = step /\ strays'[w].hand = locals
<1>1. strays \in [Stray -> Worker] /\ strays[w] \in Worker
  BY DEF Types
<1>. DEFINE v == [strays[w] EXCEPT !.at = step, !.hand = locals]
<1>2. strays' = [strays EXCEPT ![w] = v]
  BY <1>1 DEF StrayGoto
<1>3. v \in Worker /\ v.at = step /\ v.hand = locals /\ v.with = strays[w].with
  BY <1>1 DEF Worker
<1>. HIDE DEF v
<1>4. strays' \in [Stray -> Worker] /\ strays'[w] = v /\ \A x \in Stray \ {w} : strays'[x] = strays[x]
  BY <1>1, <1>2, <1>3
<1>. QED BY <1>3, <1>4 DEF Moves

LEMMA EndedShape ==
  ASSUME Types, NEW w \in Stray, Ended(w)
  PROVE  Moves(w) /\ strays'[w] = NoWorker
BY ConstantTypes DEF Types, Ended, Moves

(* The locals of such a worker. *)
LEMMA StrayLocals ==
  ASSUME Types, NEW w \in Stray
  PROVE  LET l == strays[w].hand
         IN  /\ strays[w] \in Worker /\ l \in Passes /\ l.spec \in NodeSpec /\ l.list \in Lists
             /\ l.spec.drainSkip \in BOOLEAN /\ l.todo \subseteq Installed /\ l.names \subseteq Card
             /\ \A c \in Card : /\ WithoutName(l, c) \in Passes
                                /\ WithoutName(l, c).fresh = l.fresh
                                /\ WithoutName(l, c).spec = l.spec
                                /\ WithoutName(l, c).observed = l.observed
                                /\ WithoutName(l, c).list = {}
<1>1. strays[w] \in Worker /\ strays[w].hand \in Passes
  BY DEF Types, Worker
<1>2. ASSUME NEW c \in Card
      PROVE  LET l == strays[w].hand
             IN  /\ WithoutName(l, c) \in Passes
                 /\ WithoutName(l, c).fresh = l.fresh
                 /\ WithoutName(l, c).spec = l.spec
                 /\ WithoutName(l, c).observed = l.observed
                 /\ WithoutName(l, c).list = {}
  <2>. DEFINE n == strays[w].hand.names \ {c}
  <2>1. n \in SUBSET Card
    BY <1>1 DEF Passes
  <2>2. WithoutName(strays[w].hand, c) =
          [strays[w].hand EXCEPT !.names = n, !.list = {}, !.found = FALSE]
    BY DEF WithoutName
  <2>. HIDE DEF n
  <2>. QED BY <1>1, <2>1, <2>2, EmptyList DEF Passes
<1>. QED BY <1>1, <1>2 DEF Passes, NodeSpec

LEMMA StrayGoesOnShape ==
  ASSUME Types, NEW w \in Stray, NEW cards \in SUBSET Installed, StrayGoesOn(w, cards),
         strays[w].at \notin {"none", "uncordon"}
  PROVE  Moves(w) /\ strays'[w].hand.list = strays[w].hand.list
<1>1. PICK todo \in SUBSET Installed :
        StrayGoto(w, "apply", [strays[w].hand EXCEPT !.todo = todo])
  BY DEF StrayGoesOn
<1>. DEFINE l == [strays[w].hand EXCEPT !.todo = todo]
<1>2. /\ l \in Passes /\ l.fresh = strays[w].hand.fresh /\ l.spec = strays[w].hand.spec
      /\ l.observed = strays[w].hand.observed /\ l.list = strays[w].hand.list
  BY StrayLocals DEF Passes
<1>3. StrayGoto(w, "apply", l) /\ "apply" \in Steps \ {"none", "uncordon"}
  BY <1>1 DEF Steps
<1>. HIDE DEF l
<1>. QED BY <1>2, <1>3, StrayGotoShape

LEMMA StrayNextNameShape ==
  ASSUME Types, NEW w \in Stray, NEW c \in Card, StrayNextName(w, WithoutName(strays[w].hand, c)),
         strays[w].at \notin {"none", "uncordon"}
  PROVE  Moves(w) /\ strays'[w].hand.list = {}
<1>. DEFINE l == WithoutName(strays[w].hand, c)
<1>1. StrayGoto(w, "restart", l) \/ StrayGoto(w, "load", l)
  BY DEF StrayNextName
<1>2. {"restart", "load"} \subseteq Steps \ {"none", "uncordon"}
  BY DEF Steps, Naming
<1>3. /\ l \in Passes /\ l.fresh = strays[w].hand.fresh /\ l.spec = strays[w].hand.spec
      /\ l.observed = strays[w].hand.observed /\ l.list = {}
  BY StrayLocals
<1>. HIDE DEF l
<1>. QED BY <1>1, <1>2, <1>3, StrayGotoShape

(* The calls of such a worker that change no card, no list and no object. *)
StrayCalls(w) ==
  \/ StrayDrain(w) \/ StrayApplySpec(w) \/ StrayAllConfigured(w) \/ StrayLoad(w)
  \/ \E c \in Installed : StrayMatch(w, c)
  \/ StrayReread(w) \/ StrayMapFails(w) \/ StrayRestart(w) \/ StrayCallFails(w)
  \/ StrayUncordon(w) \/ StrayCancelled(w)

(* What such a worker may make of the list it has in hand. *)
NextList(w) ==
  \/ strays'[w].hand.list \in {strays[w].hand.list, {}, PluginList}
  \/ \E c \in Card, n \in Nat :
       strays'[w].hand.list =
         (strays[w].hand.list \ {e \in strays[w].hand.list : Matches(e, c)})
           \cup {EntryOf(strays[w].hand.spec, c, n)}

LEMMA EndedList == ASSUME NEW w \in Stray, strays'[w] = NoWorker PROVE NextList(w)
BY DEF NextList, NoWorker, NoPass

LEMMA StrayCallsShape ==
  ASSUME Types, NEW w \in Stray, StrayCalls(w)
  PROVE  /\ UNCHANGED <<cr, pass, cm, hw, prev, adrift, undone, pc, touched, disturbed, required>>
         /\ Moves(w) /\ NextList(w)
         /\ spent' \in [Fault -> Nat] /\ cordoned' \in BOOLEAN /\ pluginStale' \in BOOLEAN
         /\ cordoned' => cordoned \/ (strays[w].at # "none" /\ ~strays[w].hand.spec.drainSkip)
         /\ pluginStale' => pluginStale
<1>. DEFINE l == strays[w].hand
<1>0. /\ strays[w] \in Worker /\ l \in Passes /\ l.spec \in NodeSpec /\ l.list \in Lists
      /\ l.spec.drainSkip \in BOOLEAN /\ l.todo \subseteq Installed /\ l.names \subseteq Card
      /\ cm \in ConfigMap /\ PluginList \in Lists /\ cordoned \in BOOLEAN /\ pluginStale \in BOOLEAN
      /\ \A c \in Installed : c \in Card /\ hw[c].vfs \in Nat
      /\ Steps \ {"none", "uncordon"} = {"drain", "inventory", "apply", "restart"} \cup Naming
  BY StrayLocals, CardAssumption DEF Types, ConfigMap, PluginList, Hardware, Steps, Naming
<1>1. ASSUME Happens("step") \/ UNCHANGED spent PROVE spent' \in [Fault -> Nat]
  BY <1>1, HappensCounts DEF Fault, Types
<1>2. ASSUME Elsewhere, UNCHANGED <<cm, hw, adrift, undone>>, Moves(w), NextList(w),
             Happens("step") \/ UNCHANGED spent,
             cordoned' \in BOOLEAN, pluginStale' \in BOOLEAN,
             cordoned' => cordoned \/ (strays[w].at # "none" /\ ~l.spec.drainSkip),
             pluginStale' => pluginStale
      PROVE  /\ UNCHANGED <<cr, pass, cm, hw, prev, adrift, undone, pc, touched, disturbed, required>>
             /\ Moves(w) /\ NextList(w)
             /\ spent' \in [Fault -> Nat] /\ cordoned' \in BOOLEAN /\ pluginStale' \in BOOLEAN
             /\ cordoned' => cordoned \/ (strays[w].at # "none" /\ ~l.spec.drainSkip)
             /\ pluginStale' => pluginStale
  BY <1>1, <1>2 DEF Elsewhere, Aside
<1>3. CASE StrayDrain(w)
  <2>1. Moves(w) /\ strays'[w].hand = l
    BY <1>0, <1>3, StrayGotoShape DEF StrayDrain
  <2>2. cordoned' = (cordoned \/ ~l.spec.drainSkip) /\ strays[w].at = "drain"
    BY <1>3 DEF StrayDrain
  <2>. QED BY <1>0, <1>2, <1>3, <2>1, <2>2 DEF StrayDrain, NextList
<1>4. CASE StrayApplySpec(w)
  <2>1. Moves(w) /\ strays'[w].hand.list = l.list
    BY <1>4, StrayGoesOnShape DEF StrayApplySpec
  <2>. QED BY <1>0, <1>2, <1>4, <2>1 DEF StrayApplySpec, NextList
<1>5. CASE StrayAllConfigured(w)
  <2>. DEFINE m == [l EXCEPT !.names = Named(l.spec)]
  <2>1. strays[w].at = "apply" /\ StrayNextName(w, m)
    BY <1>5 DEF StrayAllConfigured
  <2>2. Named(l.spec) \in SUBSET Card
    BY DEF Named
  <2>3. m \in Passes /\ m.fresh = l.fresh /\ m.spec = l.spec /\ m.observed = l.observed /\ m.list = l.list
    BY <1>0, <2>2 DEF Passes
  <2>. HIDE DEF m
  <2>4. Moves(w) /\ strays'[w].hand.list = l.list
    BY <1>0, <2>1, <2>3, StrayGotoShape DEF StrayNextName, Naming
  <2>. QED BY <1>0, <1>2, <1>5, <2>4 DEF StrayAllConfigured, NextList
<1>6. CASE StrayLoad(w)
  <2>. DEFINE m == [l EXCEPT !.copy = cm, !.list = PluginList]
  <2>1. strays[w].at = "load" /\ (StrayGoto(w, "addkey", m) \/ StrayGoto(w, "match", m))
    BY <1>6 DEF StrayLoad
  <2>2. /\ m \in Passes /\ m.fresh = l.fresh /\ m.spec = l.spec /\ m.observed = l.observed
        /\ m.list = PluginList
    <3>1. PICK list \in Lists : list = PluginList
      BY <1>0
    <3>. QED BY <1>0, <3>1 DEF Passes
  <2>. HIDE DEF m
  <2>3. Moves(w) /\ strays'[w].hand.list = PluginList
    BY <1>0, <2>1, <2>2, StrayGotoShape DEF Naming
  <2>. QED BY <1>0, <1>2, <1>6, <2>3 DEF StrayLoad, NextList
<1>7. ASSUME NEW c \in Installed, StrayMatch(w, c)
      PROVE  Moves(w) /\ NextList(w) /\ (Happens("step") \/ UNCHANGED spent)
             /\ Elsewhere /\ UNCHANGED <<cm, cordoned, pluginStale, hw, adrift, undone>>
  <2>0. c \in Card /\ strays[w].at = "match" /\ hw[c].vfs \in Nat
    BY <1>0, <1>7 DEF StrayMatch
  <2>1. /\ Elsewhere /\ UNCHANGED <<cm, cordoned, pluginStale, hw, adrift, undone>>
        /\ Happens("step") \/ UNCHANGED spent
    BY <1>7 DEF StrayMatch
  <2>2. CASE StrayNextName(w, WithoutName(l, c))
    BY <2>0, <2>1, <2>2, StrayNextNameShape DEF NextList
  <2>3. CASE ~StrayNextName(w, WithoutName(l, c))
    <3>. DEFINE mine == {e \in l.list : Matches(e, c)}
                list(n) == (l.list \ mine) \cup {EntryOf(l.spec, c, n)}
    <3>1. PICK n \in {hw[c].vfs, 0} :
            IF EntryOf(l.spec, c, n) \in mine
            THEN StrayGoto(w, "listed", l)
            ELSE StrayGoto(w, "reread", [l EXCEPT !.list = list(n), !.found = (mine # {})])
      BY <1>7, <2>3, Zenon DEF StrayMatch
    <3>2. n \in Nat /\ EntryOf(l.spec, c, n) \in Entry
      BY <1>0, <2>0, AskedTypes
    <3>3. CASE StrayGoto(w, "listed", l)
      <4>1. Moves(w) /\ strays'[w].hand = l
        BY <1>0, <2>0, <3>3, StrayGotoShape DEF Naming
      <4>. QED BY <2>1, <4>1 DEF NextList
    <3>4. CASE StrayGoto(w, "reread", [l EXCEPT !.list = list(n), !.found = (mine # {})])
      <4>. DEFINE new == list(n)
                  found == mine # {}
                  m == [l EXCEPT !.list = new, !.found = found]
      <4>1. new \in Lists /\ found \in BOOLEAN
        BY <1>0, <3>2 DEF Lists
      <4>2. StrayGoto(w, "reread", m)
        BY <3>4
      <4>. HIDE DEF new, found
      <4>3. m \in Passes /\ m.fresh = l.fresh /\ m.spec = l.spec /\ m.observed = l.observed /\ m.list = new
        BY <1>0, <4>1 DEF Passes
      <4>. HIDE DEF m
      <4>4. Moves(w) /\ strays'[w].hand.list = new
        BY <1>0, <2>0, <4>2, <4>3, StrayGotoShape DEF Naming
      <4>. QED BY <2>0, <2>1, <3>2, <4>4 DEF NextList, new
    <3>. QED BY <3>1, <3>3, <3>4
  <2>. QED BY <2>2, <2>3
<1>8. CASE StrayReread(w)
  <2>. DEFINE m == [l EXCEPT !.copy = cm]
  <2>1. strays[w].at = "reread" /\ StrayGoto(w, "write", m)
    BY <1>8 DEF StrayReread
  <2>2. m \in Passes /\ m.fresh = l.fresh /\ m.spec = l.spec /\ m.observed = l.observed /\ m.list = l.list
    BY <1>0 DEF Passes
  <2>. HIDE DEF m
  <2>3. Moves(w) /\ strays'[w].hand.list = l.list
    BY <1>0, <2>1, <2>2, StrayGotoShape DEF Naming
  <2>. QED BY <1>0, <1>2, <1>8, <2>3 DEF StrayReread, NextList
<1>9. CASE StrayMapFails(w)
  <2>1. /\ strays[w].at \in {"load", "addkey", "reread", "write"}
        /\ StrayGoto(w, "unlisted", l) \/ Ended(w)
        /\ Happens("step") \/ UNCHANGED spent
    BY <1>9 DEF StrayMapFails
  <2>2. Moves(w) /\ NextList(w)
    <3>1. CASE StrayGoto(w, "unlisted", l)
      <4>1. Moves(w) /\ strays'[w].hand = l
        BY <1>0, <2>1, <3>1, StrayGotoShape DEF Naming
      <4>. QED BY <4>1 DEF NextList
    <3>. QED BY <2>1, <3>1, EndedShape, EndedList
  <2>. QED BY <1>0, <1>2, <1>9, <2>1, <2>2 DEF StrayMapFails
<1>10. CASE StrayRestart(w) \/ StrayCallFails(w) \/ StrayUncordon(w) \/ StrayCancelled(w)
  <2>1. Moves(w) /\ NextList(w)
    BY <1>10, EndedShape, EndedList DEF StrayRestart, StrayCallFails, StrayUncordon, StrayCancelled
  <2>. QED BY <1>0, <1>2, <1>10, <2>1 DEF StrayRestart, StrayCallFails, StrayUncordon, StrayCancelled
<1>. QED BY <1>0, <1>2, <1>3, <1>4, <1>5, <1>6, <1>7, <1>8, <1>9, <1>10 DEF StrayCalls

(* It configures a card, or fails at it. *)
LEMMA StrayCardShape ==
  ASSUME Types, NEW w \in Stray, NEW c \in Installed, StrayCard(w, c)
  PROVE  /\ UNCHANGED <<cr, pass, cm, prev, cordoned, undone, pc, touched, disturbed, required>>
         /\ Moves(w) /\ NextList(w) /\ strays[w].at = "apply"
         /\ spent' \in [Fault -> Nat] /\ pluginStale' \in BOOLEAN
         /\ hw' \in [Installed -> Hardware] /\ adrift' = adrift \cup {c}
         /\ \A d \in Installed \ {c} : hw'[d] = hw[d]
<1>. DEFINE l == strays[w].hand
            s == l.spec
<1>0. /\ s \in NodeSpec /\ l.todo \subseteq Installed /\ c \in Card /\ strays[w].at = "apply"
      /\ hw \in [Installed -> Hardware] /\ hw[c].vfs \in Nat
  BY StrayLocals, CardAssumption DEF Types, Hardware, StrayCard
<1>1. UNCHANGED <<cr, pass, cm, prev, cordoned, undone, pc, touched, disturbed, required>>
      /\ adrift' = adrift \cup {c}
  BY Zenon DEF StrayCard, Elsewhere, Aside
<1>2. CASE /\ hw' = [hw EXCEPT ![c] = IF Requested(s, c) THEN Running(s.pfs[c]) ELSE Blank]
           /\ pluginStale' = (pluginStale \/ hw[c].vfs + hw'[c].vfs > 0)
           /\ StrayGoesOn(w, l.todo \ {c})
           /\ UNCHANGED spent
  <2>1. (IF Requested(s, c) THEN Running(s.pfs[c]) ELSE Blank) \in Hardware
    BY <1>0, AskedTypes, ConstantTypes
  <2>2. hw' \in [Installed -> Hardware] /\ \A d \in Installed \ {c} : hw'[d] = hw[d]
    BY <1>0, <1>2, <2>1
  <2>3. Moves(w) /\ strays'[w].hand.list = l.list
    BY <1>0, <1>2, StrayGoesOnShape
  <2>4. pluginStale' \in BOOLEAN
    BY <1>2 DEF Types
  <2>. QED BY <1>0, <1>1, <1>2, <2>2, <2>3, <2>4 DEF Types, NextList
<1>3. CASE /\ \E n \in {hw[c].vfs, 0, RequestedVFs(s, c)} :
                hw' = [hw EXCEPT ![c] = [Blank EXCEPT !.vfs = n]]
           /\ pluginStale' = (pluginStale \/ hw'[c].vfs # hw[c].vfs)
           /\ Happens("step")
           /\ Ended(w)
  <2>1. PICK n \in {hw[c].vfs, 0, RequestedVFs(s, c)} : hw' = [hw EXCEPT ![c] = [Blank EXCEPT !.vfs = n]]
    BY <1>3
  <2>2. n \in Nat /\ Blank \in Hardware
    BY <1>0, AskedTypes, ConstantTypes
  <2>3. [Blank EXCEPT !.vfs = n] \in Hardware
    BY <2>2 DEF Hardware
  <2>4. hw' \in [Installed -> Hardware] /\ \A d \in Installed \ {c} : hw'[d] = hw[d]
    BY <1>0, <2>1, <2>3
  <2>5. spent' \in [Fault -> Nat] /\ pluginStale' \in BOOLEAN
    BY <1>3, HappensCounts DEF Fault, Types
  <2>. QED BY <1>0, <1>1, <1>3, <2>4, <2>5, EndedShape, EndedList
<1>4. \/ /\ hw' = [hw EXCEPT ![c] = IF Requested(s, c) THEN Running(s.pfs[c]) ELSE Blank]
         /\ pluginStale' = (pluginStale \/ hw[c].vfs + hw'[c].vfs > 0)
         /\ StrayGoesOn(w, l.todo \ {c})
         /\ UNCHANGED spent
      \/ /\ \E n \in {hw[c].vfs, 0, RequestedVFs(s, c)} :
              hw' = [hw EXCEPT ![c] = [Blank EXCEPT !.vfs = n]]
         /\ pluginStale' = (pluginStale \/ hw'[c].vfs # hw[c].vfs)
         /\ Happens("step")
         /\ Ended(w)
  BY Zenon DEF StrayCard
<1>. QED BY <1>2, <1>3, <1>4

(* It writes the ConfigMap. *)
LEMMA StrayMapShape ==
  ASSUME Types, NEW w \in Stray, StrayAddKey(w) \/ \E c \in Installed : StrayWrite(w, c)
  PROVE  /\ UNCHANGED <<cr, hw, prev, cordoned, spent, adrift, undone, pc, touched, disturbed, required>>
         /\ Moves(w) /\ NextList(w) /\ strays[w].at \in Naming /\ ListsOverwritten
         /\ pluginStale' \in BOOLEAN
         /\ cm' \in ConfigMap /\ cm'.other = cm.other
         /\ cm'.shared \in {cm.shared, strays[w].hand.list}
         /\ cm'.own \in {cm.own, strays[w].hand.list}
<1>. DEFINE l == strays[w].hand
<1>0. /\ l \in Passes /\ l.list \in Lists /\ cm \in ConfigMap /\ l.names \subseteq Card
      /\ pluginStale \in BOOLEAN /\ \A c \in Installed : c \in Card
  BY StrayLocals, CardAssumption DEF Types
<1>1. CASE StrayAddKey(w)
  <2>1. /\ cm' = [cm EXCEPT !.own = l.list] /\ strays[w].at = "addkey" /\ StrayGoto(w, "match", l)
    BY <1>1 DEF StrayAddKey
  <2>2. cm' \in ConfigMap /\ cm'.other = cm.other /\ cm'.shared = cm.shared /\ cm'.own = l.list
    BY <1>0, <2>1 DEF ConfigMap
  <2>3. Moves(w) /\ strays'[w].hand = l
    BY <1>0, <2>1, StrayGotoShape DEF Steps, Naming
  <2>. QED BY <1>0, <1>1, <2>1, <2>2, <2>3 DEF StrayAddKey, Aside, NextList, Naming
<1>2. ASSUME NEW c \in Installed, StrayWrite(w, c)
      PROVE  /\ UNCHANGED <<cr, hw, prev, cordoned, spent, adrift, undone, pc, touched, disturbed, required>>
             /\ Moves(w) /\ NextList(w) /\ strays[w].at \in Naming /\ ListsOverwritten
             /\ pluginStale' \in BOOLEAN
             /\ cm' \in ConfigMap /\ cm'.other = cm.other
             /\ cm'.shared \in {cm.shared, l.list} /\ cm'.own \in {cm.own, l.list}
  <2>1. /\ cm' = IF cm.own # Absent THEN [cm EXCEPT !.own = l.list] ELSE [cm EXCEPT !.shared = l.list]
        /\ strays[w].at = "write" /\ pluginStale' = TRUE /\ ListsOverwritten /\ Aside
        /\ UNCHANGED <<cr, prev, cordoned, hw, spent, adrift, undone>>
        /\ StrayGoto(w, "listed", l) \/ StrayNextName(w, WithoutName(l, c))
    BY <1>2, Zenon DEF StrayWrite
  <2>2. /\ cm' \in ConfigMap /\ cm'.other = cm.other
        /\ cm'.shared \in {cm.shared, l.list} /\ cm'.own \in {cm.own, l.list}
    BY <1>0, <2>1 DEF ConfigMap
  <2>3. Moves(w) /\ NextList(w)
    <3>1. CASE StrayGoto(w, "listed", l)
      <4>1. Moves(w) /\ strays'[w].hand = l
        BY <1>0, <2>1, <3>1, StrayGotoShape DEF Steps, Naming
      <4>. QED BY <4>1 DEF NextList
    <3>2. CASE StrayNextName(w, WithoutName(l, c))
      BY <1>0, <2>1, <3>2, StrayNextNameShape DEF NextList
    <3>. QED BY <2>1, <3>1, <3>2
  <2>. QED BY <2>1, <2>2, <2>3 DEF Aside, Naming
<1>. QED BY <1>1, <1>2

(* It remembers what it has reported, whether or not the report was written. *)
LEMMA StrayRemembersShape ==
  ASSUME Types, NEW w \in Stray, StrayRemembers(w)
  PROVE  /\ prev' \in [Card -> Config \cup {NoConfig}]
         /\ adrift' \subseteq Installed /\ adrift \subseteq adrift'
         /\ \A c \in Installed : c \in adrift' \/ prev'[c] = prev[c]
<1>1. strays[w].hand.spec.pfs \in [Card -> Config \cup {NoConfig}]
  BY StrayLocals DEF NodeSpec
<1>. QED BY <1>1 DEF StrayRemembers, Types

LEMMA StrayReportFailsShape ==
  ASSUME Types, NEW w \in Stray, StrayReportFails(w)
  PROVE  /\ UNCHANGED <<cr, pass, cm, hw, cordoned, pluginStale, undone, pc, touched, disturbed, required>>
         /\ Moves(w) /\ NextList(w) /\ StrayRemembers(w)
         /\ spent' \in [Fault -> Nat]
<1>1. Happens("step") \/ UNCHANGED spent
  BY DEF StrayReportFails
<1>2. spent' \in [Fault -> Nat]
  BY <1>1, HappensCounts DEF Fault, Types
<1>. QED BY <1>2, EndedShape, EndedList DEF StrayReportFails, Aside

(* It writes the object, and nobody else has it as it is but Reconcile, if that *)
(* has lost the worker and not reported yet.                                    *)
LEMMA StrayReportShape ==
  ASSUME Types, Held, NEW w \in Stray, NEW c \in Installed, StrayReport(w, c)
  PROVE  /\ UNCHANGED <<cm, hw, cordoned, pluginStale, spent, undone, pc, touched, disturbed, required>>
         /\ StrayRemembers(w) /\ strays[w].hand.fresh
         /\ cr' \in NodeConfigs /\ cr'.exists = cr.exists /\ cr'.spec = cr.spec
         /\ cr'.generation = cr.generation /\ cr'.observed <= cr.generation
         /\ \/ strays[w].at = "listed"
            \/ strays[w].at = "unlisted" /\ cr'.reason = "Failed"
         /\ strays' \in [Stray -> Worker]
         /\ strays'[w].at \in {"restart", "load"} /\ strays'[w].with = strays[w].with
         /\ strays'[w].hand.fresh /\ strays'[w].hand.spec = strays[w].hand.spec
         /\ strays'[w].hand.observed = cr'.observed /\ strays'[w].hand.list = {}
         /\ \A v \in Stray \ {w} :
              /\ strays'[v].at = strays[v].at /\ strays'[v].with = strays[v].with
              /\ strays'[v].hand.fresh = FALSE /\ strays'[v].hand.spec = strays[v].hand.spec
              /\ strays'[v].hand.list = strays[v].hand.list
         /\ pass' \in Passes /\ Same /\ pass'.names = pass.names /\ pass'.list = pass.list
         /\ pass'.missed = pass.missed /\ pass'.observed = pass.observed
         /\ pass'.fresh = (pass.fresh /\ strays[w].with)
<1>. DEFINE l == strays[w].hand
            seen == IF strays[w].at = "listed" THEN cr.generation ELSE l.observed
            named == [WithoutName(l, c) EXCEPT !.observed = seen]
            reason == IF strays[w].at = "listed" THEN "Succeeded" ELSE "Failed"
            at == IF named.names = {} THEN "restart" ELSE "load"
<1>0. /\ l \in Passes /\ c \in Card /\ cr \in NodeConfigs /\ pass \in Passes
      /\ strays \in [Stray -> Worker] /\ WithoutName(l, c) \in Passes
      /\ WithoutName(l, c).fresh = l.fresh /\ WithoutName(l, c).spec = l.spec
      /\ WithoutName(l, c).list = {}
  BY StrayLocals, CardAssumption DEF Types
<1>1. /\ UNCHANGED <<cm, hw, cordoned, pluginStale, spent, undone, pc, touched, disturbed, required>>
      /\ StrayRemembers(w) /\ l.fresh /\ strays[w].at \in {"listed", "unlisted"}
      /\ cr' = [cr EXCEPT !.reason = reason, !.observed = seen]
      /\ pass' = [pass EXCEPT !.fresh = @ /\ strays[w].with]
  BY Zenon DEF StrayReport, Aside
<1>2. strays' = [v \in Stray |-> IF v = w
                                 THEN [strays[w] EXCEPT !.at = at, !.hand = named]
                                 ELSE [strays[v] EXCEPT !.hand.fresh = FALSE]]
  BY Zenon DEF StrayReport
<1>3. seen \in Nat /\ seen <= cr.generation /\ reason \in Reasons
  BY <1>0, <1>1 DEF Held, Passes, NodeConfigs, Reasons
<1>4. at \in {"restart", "load"}
  OBVIOUS
<1>5. \/ strays[w].at = "listed"
      \/ strays[w].at = "unlisted" /\ reason = "Failed"
  BY <1>1
<1>. HIDE DEF seen, reason, at
<1>6. named \in Passes /\ named.fresh = l.fresh /\ named.spec = l.spec /\ named.observed = seen /\ named.list = {}
  BY <1>0, <1>3 DEF Passes
<1>. HIDE DEF named
<1>7. /\ cr' \in NodeConfigs /\ cr'.exists = cr.exists /\ cr'.spec = cr.spec
      /\ cr'.generation = cr.generation /\ cr'.observed = seen /\ cr'.reason = reason
  BY <1>0, <1>1, <1>3 DEF NodeConfigs
<1>8. LET new == [strays[w] EXCEPT !.at = at, !.hand = named]
      IN  new \in Worker /\ new.at = at /\ new.hand = named /\ new.with = strays[w].with
  BY <1>0, <1>4, <1>6 DEF Worker, Steps, Naming
<1>9. ASSUME NEW v \in Stray
      PROVE  LET new == [strays[v] EXCEPT !.hand.fresh = FALSE]
             IN  /\ new \in Worker /\ new.at = strays[v].at /\ new.with = strays[v].with
                 /\ new.hand.fresh = FALSE /\ new.hand.spec = strays[v].hand.spec
                 /\ new.hand.list = strays[v].hand.list
  <2>1. strays[v] \in Worker /\ strays[v].hand \in Passes
    BY StrayLocals
  <2>2. [strays[v].hand EXCEPT !.fresh = FALSE] \in Passes
    BY <2>1 DEF Passes
  <2>. QED BY <2>1, <2>2 DEF Worker, Passes
<1>10. strays' \in [Stray -> Worker]
  BY <1>2, <1>8, <1>9
<1>11. strays'[w] = [strays[w] EXCEPT !.at = at, !.hand = named]
       /\ \A v \in Stray \ {w} : strays'[v] = [strays[v] EXCEPT !.hand.fresh = FALSE]
  BY <1>2
<1>12. /\ strays'[w].at \in {"restart", "load"} /\ strays'[w].with = strays[w].with
       /\ strays'[w].hand.fresh = l.fresh /\ strays'[w].hand.spec = l.spec
       /\ strays'[w].hand.observed = seen /\ strays'[w].hand.list = {}
  BY <1>4, <1>6, <1>8, <1>11
<1>13. \A v \in Stray \ {w} :
         /\ strays'[v].at = strays[v].at /\ strays'[v].with = strays[v].with
         /\ strays'[v].hand.fresh = FALSE /\ strays'[v].hand.spec = strays[v].hand.spec
         /\ strays'[v].hand.list = strays[v].hand.list
  BY <1>9, <1>11
<1>14. /\ pass' \in Passes /\ Same /\ pass'.names = pass.names /\ pass'.list = pass.list
       /\ pass'.missed = pass.missed /\ pass'.observed = pass.observed
       /\ pass'.fresh = (pass.fresh /\ strays[w].with)
  <2>. DEFINE b == pass.fresh /\ strays[w].with
  <2>1. pass' = [pass EXCEPT !.fresh = b]
    BY <1>1
  <2>2. b \in BOOLEAN
    OBVIOUS
  <2>. HIDE DEF b
  <2>3. /\ pass' \in Passes /\ Same /\ pass'.names = pass.names /\ pass'.list = pass.list
        /\ pass'.missed = pass.missed /\ pass'.observed = pass.observed /\ pass'.fresh = b
    BY <1>0, <2>1, <2>2 DEF Passes, Same
  <2>. QED BY <2>3 DEF b
<1>. QED BY <1>1, <1>3, <1>5, <1>7, <1>10, <1>12, <1>13, <1>14

(* The step of such a worker is one of these. *)
LEMMA LeftBehindKinds ==
  ASSUME NEW w \in Stray, LeftBehind(w)
  PROVE  \/ StrayCalls(w)
         \/ \E c \in Installed : StrayCard(w, c)
         \/ StrayAddKey(w) \/ \E c \in Installed : StrayWrite(w, c)
         \/ StrayReportFails(w)
         \/ \E c \in Installed : StrayReport(w, c)
BY DEF LeftBehind, StrayCalls

(* A pass loses its worker: it goes on to its report, and the worker where it is. *)
LEMMA LoseLeaseShape ==
  ASSUME Types, WorkKnown, NEW w \in Stray, LoseLease(w)
  PROVE  /\ UNCHANGED <<cr, cm, cordoned, pluginStale, hw, prev, touched, disturbed, required>>
         /\ spent' \in [Fault -> Nat]
         /\ strays[w] = NoWorker
         /\ pc \in {"drain", "inventory", "apply", "restart", "uncordon"} \cup Naming
         /\ pc = "uncordon" => ~pass.spec.drainSkip
         /\ pc' = "report" /\ pass' \in Passes /\ GoesOn
         /\ pass'.todo = {} /\ pass'.names = {} /\ pass'.err = pass.err /\ pass'.list = pass.list
         /\ pass'.missed = pass.missed \cup Unlisted
         /\ strays' \in [Stray -> Worker]
         /\ \A v \in Stray \ {w} : strays'[v] = strays[v]
         /\ strays'[w].at = pc /\ strays'[w].with = TRUE
         /\ strays'[w].hand.fresh = pass.fresh /\ strays'[w].hand.spec = pass.spec
         /\ strays'[w].hand.observed = pass.observed /\ strays'[w].hand.list = pass.list
         /\ adrift' = adrift \cup (IF pc \in {"drain", "inventory"} THEN required ELSE pass.todo)
         /\ undone' = undone \cup (IF pc = "uncordon" THEN {} ELSE {"plugin"})
                             \cup (IF pass.spec.drainSkip THEN {} ELSE {"node"})
<1>. DEFINE left == {d \in Installed : /\ Requested(pass.spec, d) \/ d \in pass.todo
                                       /\ \E c \in pass.todo : c <= d}
            hand == [pass EXCEPT !.todo = left, !.outdated = {}, !.missed = {}, !.err = FALSE]
            new == [at |-> pc, with |-> TRUE, hand |-> hand]
            m == pass.missed \cup Unlisted
            told == [pass EXCEPT !.todo = {}, !.names = {}, !.missed = m]
<1>1. /\ UNCHANGED <<cr, cm, cordoned, pluginStale, hw, prev, touched, disturbed, required>>
      /\ strays[w] = NoWorker /\ Happens("lease")
      /\ \/ pc \in {"drain", "inventory", "apply", "restart"} \cup Naming
         \/ pc = "uncordon" /\ ~pass.spec.drainSkip
      /\ strays' = [strays EXCEPT ![w] = new]
      /\ adrift' = adrift \cup (IF pc \in {"drain", "inventory"} THEN required ELSE pass.todo)
      /\ undone' = undone \cup (IF pc = "uncordon" THEN {} ELSE {"plugin"})
                          \cup (IF pass.spec.drainSkip THEN {} ELSE {"node"})
      /\ pc' = "report" /\ pass' = told
  BY Zenon DEF LoseLease, Goto
<1>2. pass \in Passes /\ strays \in [Stray -> Worker]
  BY DEF Types
<1>3. left \in SUBSET Installed
  OBVIOUS
<1>4. m \in SUBSET Card
  BY <1>2 DEF Unlisted, Named, Passes
<1>. HIDE DEF left, m
<1>5. /\ hand \in Passes /\ hand.fresh = pass.fresh /\ hand.spec = pass.spec
      /\ hand.observed = pass.observed /\ hand.list = pass.list
  BY <1>2, <1>3 DEF Passes
<1>6. /\ told \in Passes /\ told.fresh = pass.fresh /\ told.spec = pass.spec
      /\ told.observed = pass.observed /\ told.list = pass.list /\ told.todo = {}
      /\ told.names = {} /\ told.err = pass.err /\ told.missed = m
  BY <1>2, <1>4 DEF Passes
<1>. HIDE DEF hand, told
<1>7. new \in Worker /\ new.at = pc /\ new.with = TRUE /\ new.hand = hand
  BY <1>1, <1>5 DEF Worker, Steps
<1>. HIDE DEF new
<1>8. strays' \in [Stray -> Worker] /\ strays'[w] = new /\ \A v \in Stray \ {w} : strays'[v] = strays[v]
  BY <1>1, <1>2, <1>7
<1>9. spent' \in [Fault -> Nat]
  BY <1>1, HappensCounts DEF Fault
<1>10. pc \in {"drain", "inventory", "apply", "restart", "uncordon"} \cup Naming
       /\ (pc = "uncordon" => ~pass.spec.drainSkip)
  BY <1>1 DEF Naming
<1>11. /\ pass' \in Passes /\ GoesOn
       /\ pass'.todo = {} /\ pass'.names = {} /\ pass'.err = pass.err /\ pass'.list = pass.list
       /\ pass'.missed = m
  BY <1>1, <1>6 DEF GoesOn
<1>12. /\ strays'[w].at = pc /\ strays'[w].with = TRUE
       /\ strays'[w].hand.fresh = pass.fresh /\ strays'[w].hand.spec = pass.spec
       /\ strays'[w].hand.observed = pass.observed /\ strays'[w].hand.list = pass.list
  BY <1>5, <1>7, <1>8
<1>. QED BY <1>1, <1>8, <1>9, <1>10, <1>11, <1>12 DEF m

(* Losing the lease, and the steps of a worker left behind. *)
LEMMA LeaseTypes ==
  ASSUME Types, Held, WorkKnown, NEW w \in Stray, LoseLease(w) \/ LeftBehind(w)
  PROVE  RestOK' /\ ObjectOK'
<1>1. CASE LoseLease(w)
  <2>1. adrift' \subseteq Installed /\ undone' \subseteq {"plugin", "node"}
    BY <1>1, LoseLeaseShape DEF Types, Passes
  <2>2. ASSUME NEW v \in Stray, strays'[v].hand.fresh
        PROVE  cr.exists /\ strays'[v].hand.spec = cr.spec /\ strays'[v].hand.observed <= cr.generation
    <3>1. CASE v = w
      <4>1. pass.fresh /\ strays'[v].hand.spec = pass.spec /\ strays'[v].hand.observed = pass.observed
        BY <1>1, <2>2, <3>1, LoseLeaseShape
      <4>. QED BY <4>1 DEF Held
    <3>2. CASE v # w
      <4>1. strays'[v] = strays[v]
        BY <1>1, <3>2, LoseLeaseShape
      <4>. QED BY <2>2, <4>1 DEF Held
    <3>. QED BY <3>1, <3>2
  <2>3. RestOK'
    BY <1>1, <2>1, LoseLeaseShape DEF RestOK, Types
  <2>4. cr' = cr /\ GoesOn
    BY <1>1, LoseLeaseShape
  <2>5. ObjectOK'
    BY <2>2, <2>4 DEF ObjectOK, Held, GoesOn, Types
  <2>. QED BY <2>3, <2>5
<1>2. ASSUME Moves(w), cr' = cr, pass' = pass \/ GoesOn PROVE ObjectOK' /\ strays' \in [Stray -> Worker]
  <2>1. ASSUME NEW v \in Stray, strays'[v].hand.fresh
        PROVE  cr.exists /\ strays'[v].hand.spec = cr.spec /\ strays'[v].hand.observed <= cr.generation
    BY <1>2, <2>1 DEF Moves, Held, NoWorker, NoPass
  <2>. QED BY <1>2, <2>1 DEF ObjectOK, Held, GoesOn, Types, Moves
<1>3. CASE StrayCalls(w)
  BY <1>2, <1>3, StrayCallsShape DEF RestOK, Types
<1>4. CASE \E c \in Installed : StrayCard(w, c)
  <2>1. PICK c \in Installed : StrayCard(w, c)
    BY <1>4
  <2>2. adrift' \subseteq Installed
    BY <2>1, StrayCardShape DEF Types
  <2>3. ObjectOK' /\ strays' \in [Stray -> Worker]
    BY <1>2, <2>1, StrayCardShape
  <2>. QED BY <2>1, <2>2, <2>3, StrayCardShape DEF RestOK, Types
<1>5. CASE StrayAddKey(w) \/ \E c \in Installed : StrayWrite(w, c)
  <2>1. ListsOverwritten /\ Moves(w)
    BY <1>5, StrayMapShape
  <2>2. pass' \in Passes /\ GoesOn
    BY <2>1, OverwrittenShape
  <2>3. ObjectOK' /\ strays' \in [Stray -> Worker]
    BY <1>2, <1>5, <2>1, <2>2, StrayMapShape
  <2>. QED BY <1>5, <2>2, <2>3, StrayMapShape DEF RestOK, Types
<1>6. CASE StrayReportFails(w)
  <2>1. StrayRemembers(w)
    BY <1>6, StrayReportFailsShape
  <2>2. ObjectOK' /\ strays' \in [Stray -> Worker]
    BY <1>2, <1>6, StrayReportFailsShape
  <2>. QED BY <1>6, <2>1, <2>2, StrayReportFailsShape, StrayRemembersShape DEF RestOK, Types
<1>7. CASE \E c \in Installed : StrayReport(w, c)
  <2>1. PICK c \in Installed : StrayReport(w, c)
    BY <1>7
  <2>2. StrayRemembers(w)
    BY <2>1, StrayReportShape
  <2>3. ASSUME NEW v \in Stray, strays'[v].hand.fresh
        PROVE  cr'.exists /\ strays'[v].hand.spec = cr'.spec /\ strays'[v].hand.observed <= cr'.generation
    <3>1. v = w
      BY <2>1, <2>3, StrayReportShape
    <3>. QED BY <2>1, <3>1, StrayReportShape DEF Held
  <2>4. pass'.fresh => cr'.exists /\ pass'.spec = cr'.spec /\ pass'.observed <= cr'.generation
    BY <2>1, StrayReportShape DEF Held, Same
  <2>5. ObjectOK'
    BY <2>1, <2>3, <2>4, StrayReportShape DEF ObjectOK, Held
  <2>. QED BY <2>1, <2>2, <2>5, StrayReportShape, StrayRemembersShape DEF RestOK, Types
<1>. QED BY <1>1, <1>3, <1>4, <1>5, <1>6, <1>7, LeftBehindKinds

(* The types, whatever happens. *)
LEMMA TypesStep ==
  ASSUME Types, Held, WorkKnown, Beside, [Next]_vars
  PROVE  Types' /\ Held'
<1>1. ASSUME RestOK', ObjectOK' PROVE Types' /\ Held'
  BY <1>1 DEF RestOK, ObjectOK, Types
<1>2. CASE NothingToDo \/ Progress
  BY <1>1, <1>2, HeadTypes, StatusTypes, WorkTypes, ListTypes DEF Progress, CardStep
<1>3. CASE Failure
  BY <1>1, <1>3, StatusTypes, WorkTypes, ListTypes DEF Failure
<1>4. CASE \E w \in Stray : LoseLease(w) \/ LeftBehind(w)
  BY <1>1, <1>4, LeaseTypes
<1>5. CASE Environment
  BY <1>1, <1>5, EnvironmentTypes
<1>6. CASE UNCHANGED vars
  BY <1>6 DEF vars, Types, Held
<1>. QED BY <1>2, <1>3, <1>4, <1>5, <1>6 DEF Next

-----------------------------------------------------------------------------
(* The workers left behind *)

(* A write of the object that nobody here makes. *)
LEMMA NewObjectFrame ==
  ASSUME DeleteNodeConfig \/ \E s \in Propagated : SetSpec(s)
  PROVE  /\ pass' = [pass EXCEPT !.fresh = FALSE] /\ Outdated
         /\ UNCHANGED <<cm, cordoned, pluginStale, hw, prev, pc, touched, disturbed, required, adrift, undone>>
<1>1. CASE DeleteNodeConfig
  BY <1>1, Zenon DEF DeleteNodeConfig
<1>2. ASSUME NEW s \in Propagated, SetSpec(s)
      PROVE  /\ pass' = [pass EXCEPT !.fresh = FALSE] /\ Outdated
             /\ UNCHANGED <<cm, cordoned, pluginStale, hw, prev, pc, touched, disturbed, required, adrift, undone>>
  BY <1>2, Zenon DEF SetSpec
<1>. QED BY <1>1, <1>2

(* A step that leaves them alone, or with an object that is out of date. *)
LEMMA BesideQuiet ==
  ASSUME Types, Beside, pc # "report", strays' = strays \/ Outdated,
         pc' \in InPass => pc \in InPass \/ Outdated
  PROVE  Beside'
<1>1. ASSUME NEW w \in Stray PROVE ~strays[w].with /\ strays'[w].with = strays[w].with
  BY OutdatedShape DEF Beside
<1>2. ASSUME NEW w \in Stray, strays'[w].hand.fresh PROVE pc' \notin InPass
  BY <1>1, <1>2, OutdatedShape DEF Beside
<1>. QED BY <1>1, <1>2 DEF Beside

(* The pass has reported: nobody has the object of a pass any more. *)
LEMMA BesideReported ==
  ASSUME Types, NEW written \in BOOLEAN, Parted(written), pc' = "idle"
  PROVE  Beside'
<1>1. \A w \in Stray : strays'[w].with = FALSE
  BY PartedShape
<1>. QED BY <1>1 DEF Beside, InPass, Naming

(* A step beside the pass. *)
LEMMA BesideStands ==
  ASSUME Beside, pc' = pc, pass'.spec = pass.spec, pass'.err = pass.err,
         \A w \in Stray :
           \/ strays'[w] = NoWorker
           \/ /\ strays'[w].with = strays[w].with /\ strays'[w].hand.spec = strays[w].hand.spec
              /\ strays[w].at = "uncordon" => strays'[w].at = "uncordon"
              /\ strays'[w].hand.fresh => strays[w].hand.fresh
              /\ strays[w].with => \/ strays'[w].hand.fresh = strays[w].hand.fresh /\ pass'.fresh = pass.fresh
                                   \/ strays'[w].hand.fresh = FALSE /\ pass'.fresh = FALSE
  PROVE  Beside'
<1>1. ~NoWorker.with /\ ~NoWorker.hand.fresh
  BY DEF NoWorker, NoPass
<1>2. ASSUME NEW w \in Stray, strays'[w].with
      PROVE  /\ pc' = "report" /\ strays'[w].hand.spec = pass'.spec
             /\ strays'[w].hand.fresh = pass'.fresh
             /\ pass'.err => strays'[w].at = "uncordon"
             /\ \A v \in Stray : strays'[v].with => v = w
  <2>1. strays[w].with
    BY <1>1, <1>2
  <2>2. \A v \in Stray : strays'[v].with => strays[v].with
    BY <1>1
  <2>3. \A v \in Stray : strays'[v].with => v = w
    BY <2>1, <2>2 DEF Beside
  <2>4. strays'[w].hand.fresh = pass'.fresh
    <3>1. /\ strays[w].hand.fresh = pass.fresh
          /\ \/ strays'[w].hand.fresh = strays[w].hand.fresh /\ pass'.fresh = pass.fresh
             \/ strays'[w].hand.fresh = FALSE /\ pass'.fresh = FALSE
      BY <1>1, <1>2, <2>1 DEF Beside
    <3>. QED BY <3>1, Zenon
  <2>. QED BY <1>1, <1>2, <2>1, <2>3, <2>4 DEF Beside
<1>3. ASSUME NEW w \in Stray, strays'[w].hand.fresh, ~strays'[w].with PROVE pc' \notin InPass
  BY <1>1, <1>3 DEF Beside
<1>. QED BY <1>2, <1>3 DEF Beside

(* The step of one of them, but for its writes of the object. *)
LEMMA BesideMoves ==
  ASSUME Beside, NEW w \in Stray, Moves(w), pc' = pc, pass' = pass \/ (GoesOn /\ Same)
  PROVE  Beside'
<1>1. pass'.spec = pass.spec /\ pass'.err = pass.err /\ pass'.fresh = pass.fresh
  BY DEF GoesOn, Same
<1>2. \A v \in Stray :
        \/ strays'[v] = NoWorker
        \/ /\ strays'[v].with = strays[v].with /\ strays'[v].hand.spec = strays[v].hand.spec
           /\ strays[v].at = "uncordon" => strays'[v].at = "uncordon"
           /\ strays'[v].hand.fresh = strays[v].hand.fresh
  BY DEF Moves
<1>. QED BY <1>1, <1>2, BesideStands

(* What they have in hand, whatever happens. *)
LEMMA BesideStep ==
  ASSUME Types, Held, WorkKnown, Beside, [Next]_vars
  PROVE  Beside'
<1>1. CASE Boot \/ Recreate \/ CreateNodeConfig \/ DescribeNodeConfig \/ Refuse \/ BeginPass
           \/ NothingToDo \/ RefuseSpec \/ MarkInProgress
  <2>1. /\ pc # "report" /\ (strays' = strays \/ Outdated)
        /\ pc' \notin InPass \/ Outdated
    BY <1>1 DEF Boot, Recreate, CreateNodeConfig, DescribeNodeConfig, Refuse, BeginPass, NothingToDo,
                RefuseSpec, MarkInProgress, Goto, InPass, Naming
  <2>. QED BY <2>1, BesideQuiet
<1>2. CASE Drain \/ VrbApplySpec \/ AllConfigured \/ RestartDevicePlugin \/ Uncordon
           \/ CallFails \/ LoadList \/ AddKey \/ RereadMap \/ ConfigMapFails \/ ReportNameFails
  <2>1. pc # "report" /\ strays' = strays /\ pc \in InPass
    BY <1>2 DEF Drain, VrbApplySpec, AllConfigured, RestartDevicePlugin, Uncordon, CallFails, LoadList,
                AddKey, RereadMap, ConfigMapFails, ReportNameFails, InPass, Naming
  <2>. QED BY <2>1, BesideQuiet
<1>3. ASSUME NEW c \in Installed,
             \/ ConfigureCard(c) \/ CardFails(c) \/ MatchResource(c) \/ VFsUnread(c)
             \/ DeviceIDUnread(c) \/ UpdateConfigMap(c)
      PROVE  Beside'
  <2>1. pc # "report" /\ strays' = strays /\ pc \in InPass
    BY <1>3, UnreadFrame
       DEF ConfigureCard, CardFails, MatchResource, VFsUnread, UpdateConfigMap, InPass, Naming
  <2>. QED BY <2>1, BesideQuiet
<1>4. ASSUME NEW c \in Installed, ReportListed(c) \/ ReportUnlisted(c) PROVE Beside'
  <2>1. pc # "report" /\ Outdated /\ pc \in InPass
    BY <1>4, ReportFrame DEF InPass, Naming
  <2>. QED BY <2>1, BesideQuiet
<1>5. CASE Report
  BY <1>5, BesideReported DEF Report, Goto
<1>6. CASE StatusUpdateFails
  <2>1. CASE pc = "report"
    BY <1>6, <2>1, BesideReported DEF StatusUpdateFails, Goto
  <2>2. CASE pc # "report"
    <3>1. strays' = strays /\ pc' = "idle"
      BY <1>6, <2>2 DEF StatusUpdateFails, Goto
    <3>. QED BY <2>2, <3>1, BesideQuiet DEF InPass, Naming
  <2>. QED BY <2>1, <2>2
<1>7. ASSUME NEW w \in Stray, LoseLease(w) PROVE Beside'
  <2>1. pc # "report" /\ (pass.err => pc = "uncordon") /\ pc \in InPass
    BY <1>7, LoseLeaseShape DEF WorkKnown, Naming, InPass
  <2>2. \A v \in Stray \ {w} : strays'[v] = strays[v] /\ ~strays[v].with /\ ~strays[v].hand.fresh
    BY <1>7, <2>1, LoseLeaseShape DEF Beside
  <2>3. /\ pc' = "report" /\ strays'[w].hand.spec = pass'.spec /\ strays'[w].hand.fresh = pass'.fresh
        /\ strays'[w].at = pc /\ strays'[w].with = TRUE /\ pass'.err = pass.err
    BY <1>7, LoseLeaseShape DEF GoesOn
  <2>. QED BY <2>1, <2>2, <2>3 DEF Beside
<1>8. ASSUME NEW w \in Stray, LeftBehind(w) PROVE Beside'
  <2>1. CASE StrayCalls(w) \/ StrayReportFails(w)
    <3>1. Moves(w) /\ pc' = pc /\ pass' = pass
      BY <2>1, StrayCallsShape, StrayReportFailsShape
    <3>. QED BY <3>1, BesideMoves
  <2>2. CASE \E c \in Installed : StrayCard(w, c)
    <3>1. PICK c \in Installed : StrayCard(w, c)
      BY <2>2
    <3>2. Moves(w) /\ pc' = pc /\ pass' = pass
      BY <3>1, StrayCardShape
    <3>. QED BY <3>2, BesideMoves
  <2>3. CASE StrayAddKey(w) \/ \E c \in Installed : StrayWrite(w, c)
    BY <2>3, StrayMapShape, OverwrittenShape, BesideMoves
  <2>4. CASE \E c \in Installed : StrayReport(w, c)
    <3>1. PICK c \in Installed : StrayReport(w, c)
      BY <2>4
    <3>2. strays[w].at # "uncordon" /\ pass'.fresh = (pass.fresh /\ strays[w].with)
      BY <3>1, StrayReportShape
    <3>3. ASSUME NEW v \in Stray
          PROVE  /\ strays'[v].with = strays[v].with /\ strays'[v].hand.spec = strays[v].hand.spec
                 /\ strays[v].at = "uncordon" => strays'[v].at = "uncordon"
                 /\ strays'[v].hand.fresh => strays[v].hand.fresh
      BY <3>1, StrayReportShape
    <3>4. ASSUME NEW v \in Stray, strays[v].with
          PROVE  \/ strays'[v].hand.fresh = strays[v].hand.fresh /\ pass'.fresh = pass.fresh
                 \/ strays'[v].hand.fresh = FALSE /\ pass'.fresh = FALSE
      <4>0. pass.fresh \in BOOLEAN /\ strays[v].hand.fresh \in BOOLEAN /\ strays[w].with \in BOOLEAN
        BY StrayLocals DEF Types, Passes, Worker
      <4>1. CASE v = w
        BY <3>1, <3>2, <3>4, <4>0, <4>1, StrayReportShape
      <4>2. CASE v # w
        BY <3>1, <3>2, <3>4, <4>0, <4>2, StrayReportShape DEF Beside
      <4>. QED BY <4>1, <4>2
    <3>5. pc' = pc /\ pass'.spec = pass.spec /\ pass'.err = pass.err
      BY <3>1, StrayReportShape DEF Same
    <3>. QED BY <3>3, <3>4, <3>5, BesideStands
  <2>. QED BY <1>8, <2>1, <2>2, <2>3, <2>4, LeftBehindKinds
<1>9. CASE DeleteNodeConfig \/ \E s \in Propagated : SetSpec(s)
  <2>1. pc' = pc /\ pass' = [pass EXCEPT !.fresh = FALSE] /\ Outdated
    BY <1>9, NewObjectFrame
  <2>2. pass'.spec = pass.spec /\ pass'.err = pass.err /\ pass'.fresh = FALSE
    BY <2>1 DEF Types, Passes
  <2>. QED BY <2>1, <2>2, OutdatedShape, BesideStands
<1>10. CASE DeployConfigMap \/ OtherNodeLists \/ \E c \in Installed : ResetVFs(c)
  <2>1. pc' = pc /\ strays' = strays /\ (pass' = pass \/ ListsOverwritten)
    BY <1>10 DEF DeployConfigMap, OtherNodeLists, ResetVFs
  <2>2. pass'.spec = pass.spec /\ pass'.err = pass.err /\ pass'.fresh = pass.fresh
    BY <2>1, OverwrittenShape DEF GoesOn, Same
  <2>. QED BY <2>1, <2>2, BesideStands
<1>11. CASE Crash
  <2>1. \A w \in Stray : strays'[w].with = FALSE /\ strays'[w].hand.fresh = FALSE
    BY <1>11 DEF Crash, NoWorker, NoPass
  <2>. QED BY <2>1 DEF Beside
<1>12. CASE UNCHANGED vars
  BY <1>12 DEF vars, Beside
<1>. QED BY <1>1, <1>2, <1>3, <1>4, <1>5, <1>6, <1>7, <1>8, <1>9, <1>10, <1>11, <1>12
     DEF Next, Progress, CardStep, Failure, Environment

(* What they owe the node, whatever happens. *)
LEMMA OwedStep ==
  ASSUME Types, Held, WorkKnown, Beside, Owed, [Next]_vars
  PROVE  Owed'
<1>1. ASSUME undone \subseteq undone' \/ Alone,
             \A w \in Stray : \/ strays'[w].at = "none"
                              \/ /\ strays'[w].at = strays[w].at \/ strays[w].at \notin {"none", "uncordon"}
                                 /\ strays'[w].hand.spec = strays[w].hand.spec
      PROVE  Owed'
  <2>1. ASSUME NEW w \in Stray, strays'[w].at # "none"
        PROVE  /\ strays'[w].at # "uncordon" => "plugin" \in undone'
               /\ ~strays'[w].hand.spec.drainSkip => "node" \in undone'
    <3>1. strays[w].at # "none" /\ strays'[w].hand.spec = strays[w].hand.spec
          /\ (strays'[w].at = strays[w].at \/ strays[w].at \notin {"none", "uncordon"})
      BY <1>1, <2>1
    <3>2. ~Alone
      BY <3>1 DEF Alone, NoWorker
    <3>. QED BY <1>1, <3>1, <3>2 DEF Owed
  <2>. QED BY <2>1 DEF Owed
<1>2. ASSUME undone \subseteq undone', Outdated \/ Parted(TRUE) \/ Parted(FALSE) \/ strays' = strays PROVE Owed'
  BY <1>1, <1>2, OutdatedShape, PartedShape
<1>3. CASE NothingToDo \/ Boot \/ Recreate \/ CreateNodeConfig \/ DescribeNodeConfig \/ Refuse \/ BeginPass
           \/ RefuseSpec \/ MarkInProgress \/ Report \/ StatusUpdateFails
  BY <1>2, <1>3 DEF NothingToDo, Boot, Recreate, CreateNodeConfig, DescribeNodeConfig, Refuse, BeginPass,
                    RefuseSpec, MarkInProgress, Report, StatusUpdateFails
<1>4. CASE Drain \/ VrbApplySpec \/ AllConfigured \/ CallFails \/ LoadList \/ AddKey \/ RereadMap
           \/ ConfigMapFails \/ ReportNameFails
  BY <1>2, <1>4 DEF Drain, VrbApplySpec, AllConfigured, CallFails, LoadList, AddKey, RereadMap,
                    ConfigMapFails, ReportNameFails
<1>5. CASE RestartDevicePlugin \/ Uncordon
  <2>1. strays' = strays /\ (undone' = undone \/ Alone)
    BY <1>5 DEF RestartDevicePlugin, Uncordon
  <2>. QED BY <1>1, <2>1
<1>6. ASSUME NEW c \in Installed,
             \/ ConfigureCard(c) \/ CardFails(c) \/ MatchResource(c) \/ VFsUnread(c)
             \/ DeviceIDUnread(c) \/ UpdateConfigMap(c) \/ ReportListed(c) \/ ReportUnlisted(c)
      PROVE  Owed'
  BY <1>2, <1>6, UnreadFrame, ReportFrame
     DEF ConfigureCard, CardFails, MatchResource, VFsUnread, UpdateConfigMap
<1>7. ASSUME NEW w \in Stray, LoseLease(w) PROVE Owed'
  <2>1. undone \subseteq undone'
    BY <1>7, LoseLeaseShape
  <2>2. ASSUME NEW v \in Stray, strays'[v].at # "none"
        PROVE  /\ strays'[v].at # "uncordon" => "plugin" \in undone'
               /\ ~strays'[v].hand.spec.drainSkip => "node" \in undone'
    <3>1. CASE v = w
      <4>1. strays'[w].at = pc /\ strays'[w].hand.spec = pass.spec
        BY <1>7, LoseLeaseShape
      <4>2. pc # "uncordon" => "plugin" \in undone'
        BY <1>7, LoseLeaseShape
      <4>3. ~pass.spec.drainSkip => "node" \in undone'
        BY <1>7, LoseLeaseShape
      <4>. QED BY <3>1, <4>1, <4>2, <4>3
    <3>2. CASE v # w
      <4>1. strays'[v] = strays[v]
        BY <1>7, <3>2, LoseLeaseShape
      <4>. QED BY <2>1, <2>2, <4>1 DEF Owed
    <3>. QED BY <3>1, <3>2
  <2>. QED BY <2>2 DEF Owed
<1>8. ASSUME NEW w \in Stray, LeftBehind(w) PROVE Owed'
  <2>1. ASSUME Moves(w), undone' = undone PROVE Owed'
    <3>0. NoWorker.at = "none"
      BY DEF NoWorker
    <3>1. ASSUME NEW v \in Stray
          PROVE  \/ strays'[v].at = "none"
                 \/ /\ strays'[v].at = strays[v].at \/ strays[v].at \notin {"none", "uncordon"}
                    /\ strays'[v].hand.spec = strays[v].hand.spec
      BY <2>1, <3>0 DEF Moves
    <3>. QED BY <1>1, <2>1, <3>1
  <2>2. CASE StrayCalls(w) \/ StrayReportFails(w) \/ StrayAddKey(w) \/ \E c \in Installed : StrayWrite(w, c)
    BY <2>1, <2>2, StrayCallsShape, StrayReportFailsShape, StrayMapShape
  <2>3. CASE \E c \in Installed : StrayCard(w, c)
    <3>1. PICK c \in Installed : StrayCard(w, c)
      BY <2>3
    <3>. QED BY <2>1, <3>1, StrayCardShape
  <2>4. CASE \E c \in Installed : StrayReport(w, c)
    <3>1. PICK c \in Installed : StrayReport(w, c)
      BY <2>4
    <3>2. undone' = undone /\ strays[w].at \notin {"none", "uncordon"}
      BY <3>1, StrayReportShape
    <3>3. \A v \in Stray : /\ strays'[v].at = strays[v].at \/ v = w
                           /\ strays'[v].hand.spec = strays[v].hand.spec
      BY <3>1, StrayReportShape
    <3>. QED BY <1>1, <3>2, <3>3
  <2>. QED BY <1>8, <2>2, <2>3, <2>4, LeftBehindKinds
<1>9. CASE DeleteNodeConfig \/ \E s \in Propagated : SetSpec(s)
  BY <1>2, <1>9, NewObjectFrame
<1>10. CASE DeployConfigMap \/ OtherNodeLists \/ (\E c \in Installed : ResetVFs(c)) \/ UNCHANGED vars
  BY <1>2, <1>10 DEF DeployConfigMap, OtherNodeLists, ResetVFs, vars
<1>11. CASE Crash
  <2>1. \A w \in Stray : strays'[w].at = "none"
    BY <1>11 DEF Crash, NoWorker
  <2>. QED BY <2>1 DEF Owed
<1>. QED BY <1>3, <1>4, <1>5, <1>6, <1>7, <1>8, <1>9, <1>10, <1>11
     DEF Next, Progress, CardStep, Failure, Environment

-----------------------------------------------------------------------------
(* The cards *)

(* A card runs what the spec in hand asks for, unless it is excused or adrift. *)
Served(c, excused) ==
  IF Requested(pass.spec, c)
  THEN c \notin excused \cup adrift => hw[c] = Running(pass.spec.pfs[c])
  ELSE c \notin adrift => hw[c].vfs = 0

(* When all cards have been configured, vrbPreviousConfig may become the spec.  *)
LEMMA RememberServed ==
  ASSUME Types, PrevDescribes, WorkKnown, Configured,
         Remember, hw' = hw, disturbed' = disturbed, adrift' = adrift
  PROVE  /\ \A c \in Installed : Served(c, touched' \cup disturbed)
         /\ PrevDescribes'
         /\ \A c \in Installed \ (required \cup adrift) :
              Requested(pass.spec, c) /\ prev'[c] = pass.spec.pfs[c]
<1>0. /\ pc \in InPass /\ pass.todo = {} /\ \A c \in Installed : c \in Card
      /\ prev' = pass.spec.pfs /\ touched' = touched \ required
  BY CardAssumption DEF Configured, Ending, InPass, WorkKnown, Remember
<1>1. ASSUME NEW c \in Installed PROVE Served(c, touched' \cup disturbed)
  <2>1. CASE c \in required
    BY <1>0, <2>1 DEF WorkKnown, CardDone, Served
  <2>2. CASE c \notin required \cup adrift
    <3>1. Requested(pass.spec, c) /\ prev[c] = pass.spec.pfs[c]
      BY <1>0, <2>2 DEF WorkKnown
    <3>. QED BY <1>0, <2>2, <3>1 DEF Served, PrevDescribes, Requested
  <2>3. CASE c \in adrift
    BY <2>3 DEF Served
  <2>. QED BY <2>1, <2>2, <2>3
<1>2. PrevDescribes'
  BY <1>0, <1>1 DEF PrevDescribes, Served, Requested
<1>. QED BY <1>0, <1>1, <1>2 DEF WorkKnown

(* So a success, written or not, is one. *)
LEMMA RememberApplied ==
  ASSUME Types, Held, PrevDescribes, WorkKnown, Configured,
         Remember, hw' = hw, disturbed' = disturbed, adrift' = adrift,
         cr'.spec = cr.spec, Applied' => pass.fresh
  PROVE  AppliedMatchesHardware'
<1>1. \A c \in Installed : Served(c, touched' \cup disturbed)
  BY RememberServed
<1>2. Applied' => cr'.spec = pass.spec
  BY DEF Held
<1>. QED BY <1>1, <1>2 DEF AppliedMatchesHardware, Served

(* Nothing is applied that was not, and no card is worked on, but those adrift. *)
LEMMA QuietCards ==
  ASSUME PrevDescribes, AppliedMatchesHardware,
         \A c \in Installed : c \in adrift' \/ (hw'[c] = hw[c] /\ prev'[c] = prev[c]),
         touched' = touched, disturbed' = disturbed, adrift \subseteq adrift',
         Applied' => Applied, cr'.spec = cr.spec \/ ~Applied'
  PROVE  PrevDescribes' /\ AppliedMatchesHardware'
<1>1. PrevDescribes'
  BY DEF PrevDescribes
<1>2. AppliedMatchesHardware'
  BY DEF AppliedMatchesHardware
<1>. QED BY <1>1, <1>2

(* Outside a pass there is nothing to know. *)
LEMMA NoWork ==
  ASSUME ~pass'.err, pc' \in {"down", "idle", "create", "describe", "refuse", "begin"}
  PROVE  WorkKnown'
BY DEF WorkKnown, InPass, Naming, Configured, Ending

(* A pass with an error does nothing more about its cards. *)
LEMMA ErrorWork ==
  ASSUME WorkKnown, pc \in InPass, pass'.err, pc' \in {"uncordon", "report"}, Applied' => Applied,
         pass'.spec = pass.spec, required' = required, adrift' = adrift, pass'.fresh = pass.fresh,
         \/ prev' = prev
         \/ \A c \in Installed \ (required \cup adrift) :
              Requested(pass.spec, c) /\ prev'[c] = pass.spec.pfs[c]
  PROVE  WorkKnown'
BY DEF WorkKnown, InPass, Naming, Configured, Ending

(* A pass goes on with the cards as they are. *)
LEMMA NextWork ==
  ASSUME WorkKnown, Configured, Configured', Same, pass'.fresh = pass.fresh,
         required' = required, adrift' = adrift,
         Applied' => Applied \/ pass.fresh, hw' = hw, disturbed' = disturbed, Ending' => pass'.names = {},
         \/ prev' = prev
         \/ \A c \in Installed \ (required \cup adrift) :
              Requested(pass.spec, c) /\ prev'[c] = pass.spec.pfs[c]
  PROVE  WorkKnown'
<1>1. pc \in InPass /\ pc' \in InPass /\ pc' \notin {"drain", "inventory", "apply"} /\ pass.todo = {}
  BY DEF Configured, Ending, InPass, Naming, WorkKnown
<1>2. \A c \in required : CardDone(c) \/ c \in adrift
  BY <1>1 DEF WorkKnown
<1>3. ~pass.err
  BY DEF Configured, Ending, Naming, WorkKnown
<1>4. \A c \in required' \ pass'.todo : CardDone(c)' \/ c \in adrift'
  BY <1>2 DEF Same, CardDone
<1>5. /\ pass'.err => pc' \in {"uncordon", "report"}
      /\ pc' \in InPass /\ Applied' => pass'.fresh /\ pc' \notin {"drain", "inventory", "apply"}
      /\ Configured' => pass'.todo = {}
      /\ Ending' => pass'.names = {}
  BY <1>1, <1>3 DEF WorkKnown, Same
<1>6. \A c \in Installed \ (required' \cup adrift') :
        Requested(pass'.spec, c) /\ prev'[c] = pass'.spec.pfs[c]
  BY <1>1 DEF WorkKnown, Same
<1>. QED BY <1>1, <1>4, <1>5, <1>6 DEF WorkKnown

(* What becomes of the cards when the object is looked at. *)
LEMMA HeadWork ==
  ASSUME Types, Held, PrevDescribes, WorkKnown, AppliedMatchesHardware,
         Boot \/ Recreate \/ CreateNodeConfig \/ DescribeNodeConfig \/ Refuse \/ BeginPass \/ NothingToDo
  PROVE  PrevDescribes' /\ WorkKnown' /\ AppliedMatchesHardware'
<1>1. /\ hw' = hw /\ prev' = prev /\ touched' = touched /\ disturbed' = disturbed
      /\ adrift' = adrift
  BY DEF Boot, Recreate, CreateNodeConfig, DescribeNodeConfig, Refuse, BeginPass, NothingToDo
<1>2. cr' = cr \/ ~Applied'
  <2>1. CASE CreateNodeConfig
    <3>1. cr'.reason = "None"
      BY <2>1 DEF CreateNodeConfig, NoNodeConfig
    <3>. QED BY <3>1 DEF Applied
  <2>2. CASE DescribeNodeConfig
    <3>1. cr'.reason = "NotRequested"
      BY <2>2 DEF DescribeNodeConfig, Types, NodeConfigs
    <3>. QED BY <3>1 DEF Applied
  <2>3. CASE Boot \/ Recreate \/ Refuse \/ BeginPass \/ NothingToDo
    BY <2>3 DEF Boot, Recreate, Refuse, BeginPass, NothingToDo
  <2>. QED BY <2>1, <2>2, <2>3
<1>3. Applied' => Applied /\ cr'.spec = cr.spec
  BY <1>2 DEF Applied
<1>4. ~pass'.err /\ pc' \in {"down", "idle", "create", "describe", "refuse", "begin"}
  <2>1. CASE Boot \/ Recreate \/ NothingToDo
    BY <2>1 DEF Boot, Recreate, NothingToDo, WorkKnown
  <2>2. CASE CreateNodeConfig \/ DescribeNodeConfig
    BY <2>2 DEF CreateNodeConfig, DescribeNodeConfig, Goto, NoPass
  <2>3. CASE Refuse \/ BeginPass
    <3>1. PICK R \in SUBSET Installed : pass' = InHand \/ pass' = [InHand EXCEPT !.outdated = R]
      BY <2>3 DEF Refuse, BeginPass, Goto
    <3>2. ~pass'.err
      BY <3>1, InHandType DEF Passes
    <3>. QED BY <2>3, <3>2 DEF Refuse, BeginPass, Goto
  <2>. QED BY <2>1, <2>2, <2>3
<1>. QED BY <1>1, <1>3, <1>4, QuietCards, NoWork

(* And when its status is written. *)
LEMMA StatusWork ==
  ASSUME Types, Held, PrevDescribes, WorkKnown, AppliedMatchesHardware,
         RefuseSpec \/ MarkInProgress \/ Report \/ StatusUpdateFails
  PROVE  PrevDescribes' /\ WorkKnown' /\ AppliedMatchesHardware'
<1>0. ~NoPass.err /\ {"Failed", "InProgress", "Succeeded"} \subseteq Reasons
  BY DEF NoPass, Reasons
<1>1. ASSUME NEW reason \in {"Failed", "InProgress"}, pass.fresh, UpdateStatus(reason) PROVE ~Applied'
  BY <1>0, <1>1, StatusType DEF Applied
<1>2. CASE RefuseSpec
  <2>1. ~Applied'
    BY <1>1, <1>2 DEF RefuseSpec
  <2>2. ~pass'.err /\ pc' = "idle"
    BY <1>0, <1>2 DEF RefuseSpec, Goto
  <2>. QED BY <1>2, <2>1, <2>2, QuietCards, NoWork DEF RefuseSpec
<1>3. CASE MarkInProgress
  <2>1. /\ ~Applied' /\ hw' = hw /\ prev' = prev /\ touched' = touched /\ disturbed' = disturbed
        /\ adrift' = adrift
    BY <1>1, <1>3 DEF MarkInProgress
  <2>2. pass' = pass /\ pc' = "drain" /\ pc = "begin" /\ required' = UpdateRequired
    BY <1>3 DEF MarkInProgress, Goto
  <2>3. pass'.spec = pass.spec /\ pass'.err = pass.err
    BY <2>2
  <2>4. ~pass.err
    BY <2>2 DEF WorkKnown
  <2>5. \A c \in Installed \ required' : prev[c] # NoConfig /\ prev[c] = pass.spec.pfs[c]
    BY <2>2 DEF UpdateRequired, Changed
  <2>6. WorkKnown'
    BY <2>1, <2>2, <2>3, <2>4, <2>5 DEF WorkKnown, InPass, Naming, Configured, Ending, Requested
  <2>. QED BY <2>1, <2>6, QuietCards
<1>4. CASE Report
  <2>1. ~pass'.err /\ pc' = "idle" /\ pc = "report" /\ pass.fresh
    BY <1>0, <1>4 DEF Report, Goto
  <2>2. CASE pass.err
    <3>1. ~Applied'
      BY <1>1, <1>4, <2>2 DEF Report, Verdict
    <3>. QED BY <1>4, <2>1, <2>2, <3>1, QuietCards, NoWork DEF Report
  <2>3. CASE ~pass.err
    <3>1. /\ Remember /\ hw' = hw /\ disturbed' = disturbed /\ adrift' = adrift
          /\ UpdateStatus("Succeeded") /\ Configured
      BY <1>4, <2>3 DEF Report, Configured, Ending, Verdict
    <3>2. cr'.spec = cr.spec
      BY <1>0, <2>1, <3>1, StatusType
    <3>. QED BY <2>1, <3>1, <3>2, RememberApplied, RememberServed, NoWork
  <2>. QED BY <2>2, <2>3
<1>5. CASE StatusUpdateFails
  <2>1. ~pass'.err /\ pc' = "idle" /\ cr' = cr
    BY <1>0, <1>5 DEF StatusUpdateFails, Goto
  <2>2. CASE pc = "report" /\ ~pass.err
    <3>1. /\ Remember /\ hw' = hw /\ disturbed' = disturbed /\ adrift' = adrift
          /\ Configured /\ pc \in InPass
      BY <1>5, <2>2 DEF StatusUpdateFails, Configured, Ending, InPass
    <3>2. Applied' => pass.fresh
      BY <2>1, <3>1 DEF WorkKnown, Applied
    <3>. QED BY <2>1, <3>1, <3>2, RememberApplied, RememberServed, NoWork
  <2>3. CASE ~(pc = "report" /\ ~pass.err)
    <3>1. /\ hw' = hw /\ prev' = prev /\ touched' = touched /\ disturbed' = disturbed
          /\ adrift' = adrift
      BY <1>5, <2>3 DEF StatusUpdateFails
    <3>. QED BY <2>1, <3>1, QuietCards, NoWork DEF Applied
  <2>. QED BY <2>2, <2>3
<1>. QED BY <1>2, <1>3, <1>4, <1>5

(* Draining and configuring. *)
LEMMA ConfigureWork ==
  ASSUME Types, Held, PrevDescribes, WorkKnown, AppliedMatchesHardware,
         \/ Drain \/ VrbApplySpec
         \/ \E c \in Installed : ConfigureCard(c) \/ CardFails(c)
  PROVE  PrevDescribes' /\ WorkKnown' /\ AppliedMatchesHardware'
<1>0. /\ pass \in Passes /\ hw \in [Installed -> Hardware] /\ \A c \in Installed : hw[c].vfs \in Nat
      /\ cr' = cr
      /\ pc \in {"drain", "inventory", "apply"}
  BY DEF Types, Drain, VrbApplySpec, ConfigureCard, CardFails, Hardware
<1>1. ~Applied /\ ~Applied' /\ ~pass.err /\ pc \in InPass
  BY <1>0 DEF WorkKnown, InPass, Applied
<1>2. \A c \in Installed \ (required \cup adrift) : Requested(pass.spec, c) /\ prev[c] = pass.spec.pfs[c]
  BY <1>1 DEF WorkKnown
<1>3. CASE Drain
  <2>1. /\ pass' = pass /\ pc' = "inventory"
        /\ UNCHANGED <<hw, prev, touched, disturbed, required, adrift>>
    BY <1>3 DEF Drain, Goto
  <2>. QED BY <1>0, <1>1, <1>2, <2>1, QuietCards DEF WorkKnown, Configured, Ending, Naming
<1>4. CASE VrbApplySpec
  <2>. DEFINE todo == {c \in required : Requested(pass.spec, c) \/ hw[c].vfs > 0}
  <2>1. /\ pass' = [pass EXCEPT !.todo = todo] /\ pc' = "apply"
        /\ UNCHANGED <<hw, prev, touched, disturbed, required, adrift>>
    BY <1>4 DEF VrbApplySpec, Goto
  <2>2. pass'.spec = pass.spec /\ pass'.err = pass.err /\ pass'.todo = todo /\ todo \subseteq required
    BY <1>0, <2>1 DEF Passes
  <2>3. \A c \in required \ todo : ~Requested(pass.spec, c) /\ hw[c].vfs = 0
    BY <1>0 DEF Types
  <2>4. \A c \in required' \ pass'.todo : CardDone(c)'
    BY <2>1, <2>2, <2>3 DEF CardDone
  <2>5. WorkKnown'
    BY <1>1, <1>2, <2>1, <2>2, <2>4 DEF WorkKnown, Configured, Ending, Naming
  <2>. QED BY <1>0, <1>1, <2>1, <2>5, QuietCards
<1>5. ASSUME NEW c \in Installed, ConfigureCard(c)
      PROVE  PrevDescribes' /\ WorkKnown' /\ AppliedMatchesHardware'
  <2>. DEFINE card == IF Requested(pass.spec, c) THEN Running(pass.spec.pfs[c]) ELSE Blank
  <2>1. /\ pass' = [pass EXCEPT !.todo = @ \ {c}] /\ pc = "apply" /\ pc' = "apply"
        /\ hw' = [hw EXCEPT ![c] = card] /\ prev' = prev
        /\ touched' = touched \cup {c} /\ disturbed' = disturbed \ {c}
        /\ required' = required /\ adrift' \subseteq adrift /\ adrift \subseteq adrift' \cup {c}
        /\ c \in pass.todo
    BY <1>5 DEF ConfigureCard, Goto, First
  <2>2. pass'.spec = pass.spec /\ pass'.err = pass.err /\ pass'.todo = pass.todo \ {c}
    BY <1>0, <2>1 DEF Passes
  <2>9. c \in required /\ pass.todo \subseteq required
    BY <2>1 DEF WorkKnown
  <2>3. hw'[c] = card /\ \A d \in Installed \ {c} : hw'[d] = hw[d]
    BY <1>0, <2>1
  <2>4. PrevDescribes'
    BY <2>1, <2>3 DEF PrevDescribes
  <2>5. ASSUME NEW d \in required \ (pass.todo \ {c}) PROVE CardDone(d)' \/ d \in adrift'
    <3>1. CASE d = c
      BY <2>2, <2>3, <3>1 DEF CardDone, Blank
    <3>2. CASE d # c
      <4>1. (CardDone(d) \/ d \in adrift) /\ d \in Installed
        BY <1>0, <2>1, <2>5, <3>2 DEF WorkKnown, Types
      <4>. QED BY <2>1, <2>2, <2>3, <3>2, <4>1 DEF CardDone
    <3>. QED BY <3>1, <3>2
  <2>6. WorkKnown'
    BY <1>1, <1>2, <2>1, <2>2, <2>5, <2>9 DEF WorkKnown, Configured, Ending, Naming
  <2>. QED BY <1>1, <2>4, <2>6 DEF AppliedMatchesHardware
<1>6. ASSUME NEW c \in Installed, CardFails(c)
      PROVE  PrevDescribes' /\ WorkKnown' /\ AppliedMatchesHardware'
  <2>1. PICK card \in Unfinished(c) :
          /\ pass' = [pass EXCEPT !.todo = {}, !.err = TRUE] /\ pc' = "uncordon"
          /\ hw' = [hw EXCEPT ![c] = card] /\ prev' = prev
          /\ touched' = touched \cup {c} /\ disturbed' = disturbed
          /\ required' = required /\ adrift' = adrift
    BY <1>6 DEF CardFails, Goto
  <2>2. /\ pass'.spec = pass.spec /\ pass'.err
        /\ pass'.fresh = pass.fresh
    BY <1>0, <2>1 DEF Passes
  <2>3. \A d \in Installed \ {c} : hw'[d] = hw[d]
    BY <1>0, <2>1
  <2>4. PrevDescribes'
    BY <2>1, <2>3 DEF PrevDescribes
  <2>. QED BY <1>1, <2>1, <2>2, <2>4, ErrorWork DEF AppliedMatchesHardware
<1>. QED BY <1>3, <1>4, <1>5, <1>6

(* A pass that goes on, with the cards and the object as they are. *)
LEMMA CardsLeft ==
  ASSUME PrevDescribes, WorkKnown, AppliedMatchesHardware,
         hw' = hw, prev' = prev, touched' = touched, disturbed' = disturbed, cr' = cr,
         GoesOn, required' = required, adrift' = adrift,
         \/ Configured /\ Configured' /\ Same /\ (Ending' => pass'.names = {})
         \/ pc \in InPass /\ pass'.err /\ pc' \in {"uncordon", "report"}
  PROVE  PrevDescribes' /\ WorkKnown' /\ AppliedMatchesHardware'
<1>1. Applied' <=> Applied
  BY DEF Applied
<1>2. WorkKnown'
  BY <1>1, NextWork, ErrorWork DEF GoesOn
<1>. QED BY <1>1, <1>2, QuietCards

(* A card has been named, or given up. *)
LEMMA NamedLeft ==
  ASSUME NEW c, NEW m, NamedOne(c, m), pc \in Naming
  PROVE  Configured /\ Configured' /\ Same /\ (Ending' => pass'.names = {})
BY DEF NamedOne, Configured, Ending, Naming

(* From the last card to the end of the pass, all the cards are left. *)
LEMMA RestWork ==
  ASSUME Types, Held, PrevDescribes, WorkKnown, AppliedMatchesHardware,
         \/ AllConfigured \/ RestartDevicePlugin \/ Uncordon \/ CallFails
         \/ LoadList \/ AddKey \/ RereadMap \/ ConfigMapFails
         \/ \E c \in Installed :
              MatchResource(c) \/ VFsUnread(c) \/ DeviceIDUnread(c) \/ UpdateConfigMap(c)
  PROVE  PrevDescribes' /\ WorkKnown' /\ AppliedMatchesHardware'
<1>0. /\ pass \in Passes /\ hw' = hw /\ prev' = prev /\ touched' = touched /\ disturbed' = disturbed
      /\ required' = required /\ adrift' = adrift
      /\ cr' = cr /\ \A c \in Installed : c \in Card /\ hw[c].vfs \in Nat
  <2>1. CASE \E c \in Installed :
               MatchResource(c) \/ VFsUnread(c) \/ DeviceIDUnread(c) \/ UpdateConfigMap(c)
    BY <2>1, CardAssumption, UnreadFrame DEF Types, MatchResource, VFsUnread, UpdateConfigMap, Hardware
  <2>2. CASE ~\E c \in Installed :
               MatchResource(c) \/ VFsUnread(c) \/ DeviceIDUnread(c) \/ UpdateConfigMap(c)
    BY <2>2, CardAssumption
       DEF Types, AllConfigured, RestartDevicePlugin, Uncordon, CallFails, LoadList, AddKey, RereadMap,
           ConfigMapFails, Hardware
  <2>. QED BY <2>1, <2>2
<1>1. ASSUME GoesOn,
             \/ Configured /\ Configured' /\ Same /\ (Ending' => pass'.names = {})
             \/ pc \in InPass /\ pass'.err /\ pc' \in {"uncordon", "report"}
      PROVE  PrevDescribes' /\ WorkKnown' /\ AppliedMatchesHardware'
  BY <1>0, <1>1, CardsLeft
<1>2. CASE AllConfigured
  <2>1. /\ pc = "apply" /\ pass.todo = {} /\ pass' = [pass EXCEPT !.names = Named(pass.spec)]
        /\ pc' = IF pass'.names = {} THEN "restart" ELSE "load"
    BY <1>2 DEF AllConfigured, NextName, Goto
  <2>2. GoesOn /\ Same
    BY <1>0, <2>1 DEF Passes, GoesOn, Same
  <2>3. /\ ~pass.err /\ ~Applied /\ pc \in InPass
        /\ \A c \in required : CardDone(c) \/ c \in adrift
    BY <2>1 DEF WorkKnown, InPass
  <2>4. \A c \in required : CardDone(c)' \/ c \in adrift
    BY <1>0, <2>2, <2>3 DEF CardDone, GoesOn
  <2>5. ~Applied'
    BY <1>0, <2>3 DEF Applied
  <2>6. Ending' => pass'.names = {}
    BY <2>1 DEF Ending
  <2>7. \A c \in Installed \ (required \cup adrift) : Requested(pass.spec, c) /\ prev[c] = pass.spec.pfs[c]
    BY <2>3 DEF WorkKnown
  <2>8. WorkKnown'
    BY <1>0, <2>1, <2>2, <2>3, <2>4, <2>5, <2>6, <2>7 DEF WorkKnown, Same
  <2>. QED BY <1>0, <2>5, <2>8, QuietCards
<1>3. CASE RestartDevicePlugin \/ Uncordon
  <2>1. /\ pass' = pass /\ pc \in {"restart", "uncordon"} /\ pc' \in {"uncordon", "report"}
    BY <1>3 DEF RestartDevicePlugin, Uncordon, Goto
  <2>2. CASE pass.err
    BY <1>1, <2>1, <2>2 DEF InPass, GoesOn
  <2>3. CASE ~pass.err
    BY <1>1, <2>1, <2>3 DEF Configured, Ending, WorkKnown, Same, GoesOn
  <2>. QED BY <2>2, <2>3
<1>4. CASE CallFails
  <2>1. pass' = [pass EXCEPT !.err = TRUE] /\ pc' \in {"uncordon", "report"} /\ pc \in InPass
    BY <1>4 DEF CallFails, Goto, InPass
  <2>2. pass'.err /\ GoesOn
    BY <1>0, <2>1 DEF Passes, GoesOn
  <2>. QED BY <1>1, <2>1, <2>2
<1>5. CASE LoadList \/ RereadMap \/ AddKey
  <2>1. pc \in Naming /\ pc' \in Naming /\ ~(pc' = "restart") /\ GoesOn /\ Same
    BY <1>0, <1>5, LoadShape, RereadShape, AddShape DEF LoadList, RereadMap, AddKey, Naming, Same, GoesOn
  <2>. QED BY <1>1, <2>1 DEF Configured, Ending, Naming
<1>6. CASE ConfigMapFails
  <2>1. pc \in Naming /\ pc \in InPass
    BY <1>6 DEF ConfigMapFails, Naming, InPass
  <2>2. CASE pass' = pass /\ pc' = "unlisted"
    BY <1>1, <2>1, <2>2 DEF Configured, Ending, Naming, Same, GoesOn
  <2>3. CASE ~(pass' = pass /\ pc' = "unlisted")
    BY <1>1, <1>6, <2>1, <2>3, MapFailsShape
  <2>. QED BY <2>2, <2>3
<1>7. ASSUME NEW c \in Installed, MatchResource(c) \/ VFsUnread(c)
      PROVE  PrevDescribes' /\ WorkKnown' /\ AppliedMatchesHardware'
  <2>1. PICK n \in Nat, m \in SUBSET Card : EditList(c, n, m)
    <3>1. pass.missed \in SUBSET Card /\ pass.missed \cup {c} \in SUBSET Card /\ 0 \in Nat
      BY <1>0 DEF Passes
    <3>. QED BY <1>0, <1>7, <3>1 DEF MatchResource, VFsUnread
  <2>2. GoesOn /\ Same /\ pc' \in {"listed", "reread"}
    BY <1>0, <2>1, EditedType DEF GoesOn, Same
  <2>3. pc \in Naming
    BY <1>7 DEF MatchResource, VFsUnread, Naming
  <2>. QED BY <1>1, <2>2, <2>3 DEF Configured, Ending, Naming
<1>8. ASSUME NEW c \in Installed, DeviceIDUnread(c)
      PROVE  PrevDescribes' /\ WorkKnown' /\ AppliedMatchesHardware'
  <2>1. pc \in Naming
    BY <1>8, UnreadFrame DEF Naming
  <2>. QED BY <1>1, <1>8, <2>1, UnreadShape, NamedLeft DEF Same
<1>9. ASSUME NEW c \in Installed, UpdateConfigMap(c)
      PROVE  PrevDescribes' /\ WorkKnown' /\ AppliedMatchesHardware'
  <2>1. pc \in Naming
    BY <1>9 DEF UpdateConfigMap, Naming
  <2>2. CASE pass' = pass /\ pc' = "listed"
    BY <1>1, <2>1, <2>2 DEF Configured, Ending, Naming, Same, GoesOn
  <2>3. CASE ~(pass' = pass /\ pc' = "listed")
    BY <1>1, <1>9, <2>1, <2>3, WriteShape, NamedLeft DEF Same
  <2>. QED BY <2>2, <2>3
<1>. QED BY <1>2, <1>3, <1>4, <1>5, <1>6, <1>7, <1>8, <1>9

(* Reports in the middle of a pass: a success is one. *)
LEMMA ReportWork ==
  ASSUME Types, Held, Beside, PrevDescribes, WorkKnown, AppliedMatchesHardware,
         ReportNameFails \/ \E c \in Installed : ReportListed(c) \/ ReportUnlisted(c)
  PROVE  PrevDescribes' /\ WorkKnown' /\ AppliedMatchesHardware'
<1>0. /\ hw' = hw /\ disturbed' = disturbed /\ pc \in {"listed", "unlisted"}
      /\ required' = required /\ adrift' = adrift
      /\ pc \in Naming /\ Configured /\ pc \in InPass
  BY ReportFrame DEF ReportNameFails, Naming, Configured, InPass
<1>1. ASSUME NEW c \in Installed, ReportListed(c)
      PROVE  PrevDescribes' /\ WorkKnown' /\ AppliedMatchesHardware'
  <2>1. Remember /\ pass.fresh
    <3>1. pc = "listed"
      BY <1>1, Zenon DEF ReportListed
    <3>. QED BY <1>1, <3>1, ReportFrame
  <2>2. cr'.spec = cr.spec /\ NamedOne(c, pass.missed)
    BY <1>1, <2>1, ReportShape DEF Held
  <2>3. Configured' /\ Same /\ (Ending' => pass'.names = {})
    BY <1>0, <2>2, NamedLeft
  <2>4. pass'.fresh = pass.fresh
    <3>. DEFINE o == ObservedGeneration("Succeeded")
    <3>1. pass' = [pass EXCEPT !.names = @ \ {c}, !.list = {}, !.found = FALSE, !.observed = o]
      BY <1>1, Zenon DEF ReportListed, NextName, Goto
    <3>. HIDE DEF o
    <3>. QED BY <3>1 DEF Types, Passes
  <2>5. PrevDescribes' /\ AppliedMatchesHardware'
    BY <1>0, <2>1, <2>2, RememberServed, RememberApplied
  <2>6. WorkKnown'
    BY <1>0, <2>1, <2>3, <2>4, RememberServed, NextWork
  <2>. QED BY <2>5, <2>6
<1>2. ASSUME NEW c \in Installed, ReportUnlisted(c)
      PROVE  PrevDescribes' /\ WorkKnown' /\ AppliedMatchesHardware'
  <2>1. prev' = prev /\ touched' = touched /\ pass.fresh
    <3>1. pc = "unlisted"
      BY <1>2, Zenon DEF ReportUnlisted
    <3>. QED BY <1>2, <3>1, ReportFrame
  <2>2. ~Applied' /\ NamedOne(c, pass.missed \cup {c})
    BY <1>2, ReportShape DEF Applied
  <2>3. Configured' /\ Same /\ (Ending' => pass'.names = {})
    BY <1>0, <2>2, NamedLeft
  <2>4. pass'.fresh = pass.fresh
    <3>1. pass' = [pass EXCEPT !.names = @ \ {c}, !.list = {}, !.found = FALSE, !.missed = @ \cup {c}]
      BY <1>2, Zenon DEF ReportUnlisted, NextName, Goto
    <3>. QED BY <3>1 DEF Types, Passes
  <2>5. WorkKnown'
    BY <1>0, <2>1, <2>2, <2>3, <2>4, NextWork
  <2>. QED BY <1>0, <2>1, <2>2, <2>5, QuietCards
<1>3. CASE ReportNameFails
  <2>1. pass'.err /\ pc' = "uncordon" /\ pass'.spec = pass.spec /\ cr' = cr
    BY <1>3, NoReportShape DEF ReportNameFails
  <2>2. pass'.fresh = pass.fresh
    <3>. DEFINE o == ObservedGeneration(IF pc = "listed" THEN "Succeeded" ELSE "Failed")
    <3>1. pass' = [pass EXCEPT !.observed = o, !.err = TRUE, !.names = {}]
      BY <1>3 DEF ReportNameFails, Goto
    <3>. HIDE DEF o
    <3>. QED BY <3>1 DEF Types, Passes
  <2>3. Applied' <=> Applied
    BY <2>1 DEF Applied
  <2>4. CASE pc = "listed"
    <3>1. Remember
      BY <1>3, <2>4 DEF ReportNameFails
    <3>2. Applied' => pass.fresh
      BY <1>0, <2>3 DEF WorkKnown
    <3>3. PrevDescribes' /\ AppliedMatchesHardware'
      BY <1>0, <2>1, <3>1, <3>2, RememberServed, RememberApplied
    <3>4. \A c \in Installed \ (required \cup adrift) :
            Requested(pass.spec, c) /\ prev'[c] = pass.spec.pfs[c]
      BY <1>0, <3>1, RememberServed
    <3>5. WorkKnown'
      BY <1>0, <2>1, <2>2, <2>3, <3>4, ErrorWork
    <3>. QED BY <3>3, <3>5
  <2>5. CASE pc # "listed"
    <3>1. prev' = prev /\ touched' = touched
      BY <1>3, <2>5 DEF ReportNameFails
    <3>2. WorkKnown'
      BY <1>0, <2>1, <2>2, <2>3, <3>1, ErrorWork
    <3>. QED BY <1>0, <2>1, <2>3, <3>1, <3>2, QuietCards
  <2>. QED BY <2>4, <2>5
<1>. QED BY <1>1, <1>2, <1>3

(* What a step beside the pass leaves of it. *)
LEMMA WorkStands ==
  ASSUME Types, WorkKnown, pc' = pc, Same, pass'.names = pass.names, required' = required,
         adrift \subseteq adrift',
         \A c \in Installed : c \in adrift' \/ prev'[c] = prev[c],
         pc \in InPass /\ Applied' =>
           (Applied /\ pass'.fresh = pass.fresh) \/ (pass'.fresh /\ pc = "report"),
         \A c \in Installed : CardDone(c) => CardDone(c)' \/ c \in adrift'
  PROVE  WorkKnown'
<1>1. /\ Configured' <=> Configured
      /\ Ending' <=> Ending
  BY DEF Configured, Ending, Same
<1>2. required \subseteq Installed
  BY DEF Types
<1>3. pc' = "apply" \/ Configured' => \A c \in required' \ pass'.todo : CardDone(c)' \/ c \in adrift'
  BY <1>1, <1>2 DEF WorkKnown, Same
<1>4. pc' \in InPass /\ Applied' => pass'.fresh /\ pc' \notin {"drain", "inventory", "apply"}
  <2>1. CASE Applied /\ pass'.fresh = pass.fresh
    BY <2>1 DEF WorkKnown
  <2>. QED BY <2>1
<1>5. pc' \in InPass =>
        \A c \in Installed \ (required' \cup adrift') :
          Requested(pass'.spec, c) /\ prev'[c] = pass'.spec.pfs[c]
  BY DEF WorkKnown, Same
<1>. QED BY <1>1, <1>3, <1>4, <1>5 DEF WorkKnown, Same

(* A step that changes no card, but those it sets adrift, and no object. *)
LEMMA CardsAside ==
  ASSUME Types, PrevDescribes, WorkKnown, AppliedMatchesHardware,
         pc' = pc, Same, pass'.names = pass.names, required' = required,
         touched' = touched, disturbed' = disturbed, adrift \subseteq adrift',
         \A c \in Installed : c \in adrift' \/ (hw'[c] = hw[c] /\ prev'[c] = prev[c]),
         ~Applied' \/ (cr' = cr /\ pass'.fresh = pass.fresh)
  PROVE  PrevDescribes' /\ WorkKnown' /\ AppliedMatchesHardware'
<1>1. Applied' => Applied /\ pass'.fresh = pass.fresh
  BY DEF Applied
<1>2. \A c \in Installed : CardDone(c) => CardDone(c)' \/ c \in adrift'
  BY DEF CardDone, Same
<1>3. cr'.spec = cr.spec \/ ~Applied'
  OBVIOUS
<1>4. WorkKnown'
  BY <1>1, <1>2, WorkStands
<1>. QED BY <1>1, <1>3, <1>4, QuietCards

(* The environment changes the spec, the cards and the map beside a pass. *)
LEMMA EnvironmentWork ==
  ASSUME Types, Held, PrevDescribes, WorkKnown, AppliedMatchesHardware, Environment
  PROVE  PrevDescribes' /\ WorkKnown' /\ AppliedMatchesHardware'
<1>0. pass \in Passes /\ cr \in NodeConfigs /\ hw \in [Installed -> Hardware]
      /\ cr.generation \in Nat /\ cr.observed \in Nat
  BY DEF Types, NodeConfigs
<1>2. ASSUME pass' = [pass EXCEPT !.fresh = FALSE]
      PROVE  Same /\ pass'.names = pass.names
  BY <1>0, <1>2 DEF Passes, Same
<1>3. ASSUME NEW s \in Propagated, SetSpec(s)
      PROVE  PrevDescribes' /\ WorkKnown' /\ AppliedMatchesHardware'
  <2>. DEFINE g == cr.generation + 1
  <2>1. cr' = [cr EXCEPT !.spec = s, !.generation = g] /\ g # cr.observed
    BY <1>0, <1>3 DEF SetSpec, Held
  <2>. HIDE DEF g
  <2>2. cr'.generation = g /\ cr'.observed = cr.observed
    BY <1>0, <2>1 DEF NodeConfigs
  <2>3. ~Applied'
    BY <2>1, <2>2 DEF Applied
  <2>. QED BY <1>2, <1>3, <2>3, NewObjectFrame, CardsAside
<1>4. CASE DeleteNodeConfig
  <2>1. ~Applied'
    BY <1>4 DEF DeleteNodeConfig, Applied, NoNodeConfig
  <2>. QED BY <1>2, <1>4, <2>1, NewObjectFrame, CardsAside
<1>5. CASE DeployConfigMap \/ OtherNodeLists
  <2>1. Same /\ pass'.names = pass.names /\ pass'.fresh = pass.fresh
    <3>1. pass' = pass \/ ListsOverwritten
      BY <1>5 DEF DeployConfigMap, OtherNodeLists
    <3>. QED BY <3>1, OverwrittenShape DEF GoesOn, Same
  <2>. QED BY <1>5, <2>1, CardsAside DEF DeployConfigMap, OtherNodeLists
<1>6. ASSUME NEW c \in Installed, ResetVFs(c)
      PROVE  PrevDescribes' /\ WorkKnown' /\ AppliedMatchesHardware'
  <2>1. /\ cr' = cr /\ prev' = prev /\ pc' = pc /\ pass' = pass /\ touched' = touched
        /\ required' = required /\ adrift' = adrift
        /\ disturbed' = disturbed \cup {c} /\ hw' = [hw EXCEPT ![c].vfs = 0]
    BY <1>6 DEF ResetVFs
  <2>2. hw'[c].vfs = 0 /\ \A d \in Installed \ {c} : hw'[d] = hw[d]
    BY <1>0, <2>1 DEF Hardware
  <2>3. PrevDescribes'
    BY <2>1, <2>2 DEF PrevDescribes
  <2>4. \A d \in Installed : CardDone(d) => CardDone(d)'
    BY <2>1, <2>2 DEF CardDone
  <2>5. Applied' <=> Applied
    BY <2>1 DEF Applied
  <2>6. AppliedMatchesHardware'
    BY <2>1, <2>2, <2>5 DEF AppliedMatchesHardware
  <2>7. WorkKnown'
    BY <2>1, <2>4, <2>5, WorkStands DEF Same
  <2>. QED BY <2>3, <2>6, <2>7
<1>7. CASE Crash
  <2>1. /\ cr' = cr /\ prev' = NoPFs /\ pc' = "down" /\ pass' = NoPass /\ touched' = touched
        /\ disturbed' = disturbed \cup {c \in Installed : hw[c].alive} /\ adrift' = adrift
        /\ hw' = [c \in Installed |-> [hw[c] EXCEPT !.alive = FALSE]]
    BY <1>7 DEF Crash, Goto
  <2>2. ASSUME NEW c \in Installed
        PROVE  hw'[c].vfs = hw[c].vfs /\ (c \notin disturbed' => hw'[c] = hw[c])
    BY <1>0, <2>1 DEF Hardware
  <2>3. PrevDescribes'
    BY <2>1, CardAssumption DEF PrevDescribes, NoPFs
  <2>4. Applied' <=> Applied
    BY <2>1 DEF Applied
  <2>5. AppliedMatchesHardware'
    BY <2>1, <2>2, <2>4 DEF AppliedMatchesHardware
  <2>6. WorkKnown'
    BY <2>1, NoWork DEF NoPass
  <2>. QED BY <2>3, <2>5, <2>6
<1>. QED BY <1>3, <1>4, <1>5, <1>6, <1>7 DEF Environment

(* What the spec of a pass asks for is there on the cards that a lost lease does *)
(* not set adrift.                                                               *)
LEMMA LeftAsAsked ==
  ASSUME Types, PrevDescribes, WorkKnown, NEW w \in Stray, LoseLease(w), pc # "uncordon",
         NEW c \in Installed
  PROVE  IF Requested(pass.spec, c)
         THEN c \notin (touched \ required) \cup disturbed \cup adrift' =>
                hw[c] = Running(pass.spec.pfs[c])
         ELSE c \notin adrift' => hw[c].vfs = 0
<1>1. /\ pc \in InPass
      /\ adrift' = adrift \cup (IF pc \in {"drain", "inventory"} THEN required ELSE pass.todo)
      /\ pc \in {"drain", "inventory"} \/ pc = "apply" \/ Configured
  BY LoseLeaseShape DEF InPass, Naming, Configured, Ending
<1>2. CASE c \notin required \cup adrift
  <2>1. Requested(pass.spec, c) /\ prev[c] = pass.spec.pfs[c]
    BY <1>1, <1>2 DEF WorkKnown
  <2>. QED BY <1>1, <1>2, <2>1 DEF PrevDescribes, Requested
<1>3. CASE c \in required /\ c \notin adrift'
  <2>1. pc = "apply" \/ Configured
    BY <1>1, <1>3
  <2>2. c \notin pass.todo /\ c \notin adrift
    BY <1>1, <1>3 DEF WorkKnown
  <2>3. CardDone(c)
    BY <1>3, <2>1, <2>2 DEF WorkKnown
  <2>. QED BY <1>1, <1>3, <2>3 DEF CardDone
<1>4. CASE c \in adrift'
  BY <1>4
<1>. QED BY <1>1, <1>2, <1>3, <1>4

(* Losing the lease, and the worker left behind. *)
LEMMA LeaseWork ==
  ASSUME Types, Held, Beside, Fits, PrevDescribes, WorkKnown, AppliedMatchesHardware,
         NEW w \in Stray, LoseLease(w) \/ LeftBehind(w)
  PROVE  PrevDescribes' /\ WorkKnown' /\ AppliedMatchesHardware'
<1>1. CASE LoseLease(w)
  <2>1. /\ UNCHANGED <<cr, hw, prev, touched, disturbed, required>>
        /\ pc \in InPass /\ pc' = "report" /\ GoesOn /\ pass'.names = {} /\ pass'.todo = {}
        /\ pass'.err = pass.err
        /\ adrift \subseteq adrift'
        /\ pc \in {"drain", "inventory"} => required \subseteq adrift'
        /\ pc \notin {"drain", "inventory"} => pass.todo \subseteq adrift'
        /\ pc \in {"drain", "inventory", "apply", "uncordon"} \/ Configured
    BY <1>1, LoseLeaseShape DEF InPass, Naming, Configured, Ending
  <2>2. Applied' <=> Applied
    BY <2>1 DEF Applied
  <2>3. PrevDescribes' /\ AppliedMatchesHardware'
    BY <2>1, <2>2, QuietCards
  <2>4. Configured' => \A c \in required' \ pass'.todo : CardDone(c)' \/ c \in adrift'
    <3>1. ASSUME ~pass.err, NEW c \in required PROVE CardDone(c)' \/ c \in adrift'
      <4>1. CASE pc \in {"drain", "inventory"} \/ c \in pass.todo
        BY <2>1, <3>1, <4>1
      <4>2. CASE pc \notin {"drain", "inventory"} /\ c \notin pass.todo
        <5>1. pc = "apply" \/ Configured
          BY <2>1, <3>1, <4>2 DEF Configured, Ending
        <5>2. CardDone(c) \/ c \in adrift
          BY <3>1, <4>2, <5>1 DEF WorkKnown
        <5>. QED BY <2>1, <5>2 DEF CardDone, GoesOn
      <4>. QED BY <4>1, <4>2
    <3>. QED BY <2>1, <3>1 DEF Configured, Ending, Naming
  <2>5. \A c \in Installed \ (required' \cup adrift') :
          Requested(pass'.spec, c) /\ prev'[c] = pass'.spec.pfs[c]
    BY <2>1 DEF WorkKnown, GoesOn
  <2>6. Applied' => pass'.fresh
    BY <2>1, <2>2 DEF WorkKnown, GoesOn
  <2>7. WorkKnown'
    BY <2>1, <2>4, <2>5, <2>6 DEF WorkKnown
  <2>. QED BY <2>3, <2>7
<1>2. CASE StrayCalls(w)
  <2>1. UNCHANGED <<cr, pass, hw, prev, adrift, pc, touched, disturbed, required>>
    BY <1>2, StrayCallsShape
  <2>. QED BY <2>1, CardsAside DEF Same
<1>3. CASE \E c \in Installed : StrayCard(w, c)
  <2>1. PICK c \in Installed : StrayCard(w, c)
    BY <1>3
  <2>2. /\ UNCHANGED <<cr, pass, prev, pc, touched, disturbed, required>>
        /\ adrift' = adrift \cup {c} /\ \A d \in Installed \ {c} : hw'[d] = hw[d]
    BY <2>1, StrayCardShape
  <2>. QED BY <2>2, CardsAside DEF Same
<1>4. CASE StrayAddKey(w) \/ \E c \in Installed : StrayWrite(w, c)
  <2>1. UNCHANGED <<cr, hw, prev, adrift, pc, touched, disturbed, required>> /\ ListsOverwritten
    BY <1>4, StrayMapShape
  <2>2. Same /\ pass'.names = pass.names /\ pass'.fresh = pass.fresh
    BY <2>1, OverwrittenShape DEF GoesOn
  <2>. QED BY <2>1, <2>2, CardsAside
<1>5. CASE StrayReportFails(w)
  <2>1. UNCHANGED <<cr, pass, hw, pc, touched, disturbed, required>> /\ StrayRemembers(w)
    BY <1>5, StrayReportFailsShape
  <2>2. adrift \subseteq adrift' /\ \A c \in Installed : c \in adrift' \/ prev'[c] = prev[c]
    BY <2>1, StrayRemembersShape
  <2>. QED BY <2>1, <2>2, CardsAside DEF Same
<1>6. CASE \E c \in Installed : StrayReport(w, c)
  <2>1. PICK c \in Installed : StrayReport(w, c)
    BY <1>6
  <2>2. /\ UNCHANGED <<hw, pc, touched, disturbed, required>> /\ StrayRemembers(w)
        /\ strays[w].hand.fresh /\ cr'.spec = cr.spec /\ Same /\ pass'.names = pass.names
        /\ strays[w].at = "listed" \/ (strays[w].at = "unlisted" /\ cr'.reason = "Failed")
        /\ pass'.fresh = (pass.fresh /\ strays[w].with)
    BY <2>1, StrayReportShape
  <2>3. adrift \subseteq adrift' /\ \A d \in Installed : d \in adrift' \/ prev'[d] = prev[d]
    BY <2>2, StrayRemembersShape
  <2>4. CASE strays[w].at = "unlisted"
    <3>1. ~Applied'
      BY <2>2, <2>4 DEF Applied
    <3>. QED BY <2>2, <2>3, <3>1, CardsAside
  <2>5. CASE strays[w].at = "listed"
    <3>1. \A d \in Installed :
            IF Requested(cr.spec, d)
            THEN d \notin touched \cup disturbed \cup adrift => hw[d] = Running(cr.spec.pfs[d])
            ELSE d \notin adrift => hw[d].vfs = 0
      BY <2>2, <2>5 DEF Fits, Held
    <3>2. AppliedMatchesHardware'
      BY <2>2, <2>3, <3>1 DEF AppliedMatchesHardware
    <3>3. PrevDescribes'
      BY <2>2, <2>3 DEF PrevDescribes
    <3>4. pc \in InPass => pass'.fresh /\ pc = "report"
      <4>1. pc \in InPass => strays[w].with
        BY <2>2 DEF Beside
      <4>2. strays[w].with => pc = "report" /\ strays[w].hand.fresh = pass.fresh
        BY DEF Beside
      <4>. QED BY <2>2, <4>1, <4>2
    <3>5. \A d \in Installed : CardDone(d) => CardDone(d)'
      BY <2>2 DEF CardDone, Same
    <3>6. WorkKnown'
      BY <2>2, <2>3, <3>4, <3>5, WorkStands
    <3>. QED BY <3>2, <3>3, <3>6
  <2>. QED BY <2>2, <2>4, <2>5
<1>. QED BY <1>1, <1>2, <1>3, <1>4, <1>5, <1>6, LeftBehindKinds

(* The cards, whatever happens. *)
LEMMA CardsStep ==
  ASSUME Types, Held, Beside, Fits, PrevDescribes, WorkKnown, AppliedMatchesHardware, [Next]_vars
  PROVE  PrevDescribes' /\ WorkKnown' /\ AppliedMatchesHardware'
<1>1. CASE NothingToDo \/ Progress
  BY <1>1, HeadWork, StatusWork, ConfigureWork, RestWork, ReportWork DEF Progress, CardStep
<1>2. CASE Failure
  BY <1>2, StatusWork, ConfigureWork, RestWork, ReportWork DEF Failure
<1>3. CASE \E w \in Stray : LoseLease(w) \/ LeftBehind(w)
  BY <1>3, LeaseWork
<1>4. CASE Environment
  BY <1>4, EnvironmentWork
<1>5. CASE UNCHANGED vars
  BY <1>5 DEF vars, PrevDescribes, WorkKnown, AppliedMatchesHardware, Applied, Configured, Ending, CardDone
<1>. QED BY <1>1, <1>2, <1>3, <1>4, <1>5 DEF Next

(* A step beside the pass leaves what a worker left behind has in hand as true. *)
LEMMA FitsStands ==
  ASSUME Fits, touched' = touched, required' = required, disturbed \subseteq disturbed',
         adrift \subseteq adrift',
         \A c \in Installed :
           \/ c \in adrift'
           \/ hw'[c] = hw[c]
           \/ c \in disturbed' /\ (hw[c].vfs = 0 => hw'[c].vfs = 0),
         \A w \in Stray : strays'[w].hand.fresh /\ strays'[w].at \notin {"none", "uncordon"} =>
           /\ strays[w].hand.fresh /\ strays[w].at \notin {"none", "uncordon"}
           /\ strays'[w].hand.spec = strays[w].hand.spec /\ strays'[w].with = strays[w].with
  PROVE  Fits'
<1>1. ASSUME NEW w \in Stray, strays'[w].hand.fresh, strays'[w].at \notin {"none", "uncordon"},
             NEW c \in Installed
      PROVE  IF Requested(strays'[w].hand.spec, c)
             THEN c \notin (touched' \ Forgotten(w)') \cup disturbed' \cup adrift' =>
                    hw'[c] = Running(strays'[w].hand.spec.pfs[c])
             ELSE c \notin adrift' => hw'[c].vfs = 0
  <2>1. IF Requested(strays[w].hand.spec, c)
        THEN c \notin (touched \ Forgotten(w)) \cup disturbed \cup adrift =>
               hw[c] = Running(strays[w].hand.spec.pfs[c])
        ELSE c \notin adrift => hw[c].vfs = 0
    BY <1>1 DEF Fits
  <2>2. Forgotten(w)' = Forgotten(w) /\ strays'[w].hand.spec = strays[w].hand.spec
    BY <1>1 DEF Forgotten
  <2>. QED BY <2>1, <2>2
<1>. QED BY <1>1 DEF Fits

(* A pass at work, or a step that writes the object, leaves nobody else with it. *)
LEMMA FitsNobody ==
  ASSUME \A w \in Stray : ~strays'[w].hand.fresh
  PROVE  Fits'
BY DEF Fits

(* The pass reports, and the worker it has lost keeps what it had. *)
LEMMA FitsReported ==
  ASSUME Types, Beside, Fits, NEW written \in BOOLEAN, Parted(written), pc = "report",
         IF pass.err THEN UNCHANGED <<prev, touched>> ELSE Remember,
         UNCHANGED <<hw, disturbed, adrift>>
  PROVE  Fits'
<1>1. ASSUME NEW w \in Stray, strays'[w].hand.fresh, strays'[w].at \notin {"none", "uncordon"},
             NEW c \in Installed
      PROVE  IF Requested(strays'[w].hand.spec, c)
             THEN c \notin (touched' \ Forgotten(w)') \cup disturbed' \cup adrift' =>
                    hw'[c] = Running(strays'[w].hand.spec.pfs[c])
             ELSE c \notin adrift' => hw'[c].vfs = 0
  <2>1. /\ strays'[w].at = strays[w].at /\ strays'[w].with = FALSE
        /\ strays'[w].hand.spec = strays[w].hand.spec /\ strays[w].hand.fresh
    BY <1>1, PartedShape
  <2>2. strays[w].with
    BY <2>1 DEF Beside, InPass
  <2>3. ~pass.err
    BY <1>1, <2>1, <2>2 DEF Beside
  <2>4. touched' = touched \ required /\ Forgotten(w) = required /\ Forgotten(w)' = {}
    BY <2>1, <2>2, <2>3 DEF Remember, Forgotten
  <2>. QED BY <1>1, <2>1, <2>4 DEF Fits
<1>. QED BY <1>1 DEF Fits

(* What the workers left behind would report, whatever happens. *)
LEMMA FitsStep ==
  ASSUME Types, Held, Beside, Fits, PrevDescribes, WorkKnown, [Next]_vars
  PROVE  Fits'
<1>0. ASSUME strays' = strays, pc \in InPass, pc # "report" PROVE Fits'
  <2>1. \A w \in Stray : ~strays[w].hand.fresh
    BY <1>0 DEF Beside
  <2>. QED BY <1>0, <2>1, FitsNobody
<1>00. ASSUME Outdated PROVE Fits'
  BY <1>00, OutdatedShape, FitsNobody
<1>000. ASSUME strays' = strays, pc # "report",
               UNCHANGED <<hw, touched, disturbed, adrift>>
        PROVE  Fits'
  <2>1. \A w \in Stray : ~strays[w].with
    BY <1>000 DEF Beside
  <2>2. \A w \in Stray : Forgotten(w)' = {} /\ Forgotten(w) = {}
    BY <1>000, <2>1 DEF Forgotten
  <2>. QED BY <1>000, <2>2 DEF Fits
<1>1. CASE Boot \/ Recreate \/ Refuse \/ BeginPass \/ NothingToDo
  BY <1>1, <1>000 DEF Boot, Recreate, Refuse, BeginPass, NothingToDo
<1>2. CASE CreateNodeConfig \/ DescribeNodeConfig \/ RefuseSpec \/ MarkInProgress
  BY <1>2, <1>00 DEF CreateNodeConfig, DescribeNodeConfig, RefuseSpec, MarkInProgress
<1>3. CASE Drain \/ VrbApplySpec \/ AllConfigured \/ RestartDevicePlugin \/ Uncordon
           \/ CallFails \/ LoadList \/ AddKey \/ RereadMap \/ ConfigMapFails \/ ReportNameFails
  BY <1>3, <1>0 DEF Drain, VrbApplySpec, AllConfigured, RestartDevicePlugin, Uncordon, CallFails, LoadList,
                    AddKey, RereadMap, ConfigMapFails, ReportNameFails, InPass, Naming
<1>4. ASSUME NEW c \in Installed,
             \/ ConfigureCard(c) \/ CardFails(c) \/ MatchResource(c) \/ VFsUnread(c)
             \/ DeviceIDUnread(c) \/ UpdateConfigMap(c)
      PROVE  Fits'
  BY <1>0, <1>4, UnreadFrame
     DEF ConfigureCard, CardFails, MatchResource, VFsUnread, UpdateConfigMap, InPass, Naming
<1>5. ASSUME NEW c \in Installed, ReportListed(c) \/ ReportUnlisted(c) PROVE Fits'
  BY <1>00, <1>5, ReportFrame
<1>6. CASE Report
  BY <1>6, FitsReported DEF Report
<1>7. CASE StatusUpdateFails
  <2>1. CASE pc = "report"
    BY <1>7, <2>1, FitsReported DEF StatusUpdateFails
  <2>2. CASE pc # "report"
    BY <1>000, <1>7, <2>2 DEF StatusUpdateFails
  <2>. QED BY <2>1, <2>2
<1>8. ASSUME NEW w \in Stray, LoseLease(w) PROVE Fits'
  <2>1. ASSUME NEW v \in Stray, strays'[v].hand.fresh, strays'[v].at \notin {"none", "uncordon"},
               NEW c \in Installed
        PROVE  IF Requested(strays'[v].hand.spec, c)
               THEN c \notin (touched' \ Forgotten(v)') \cup disturbed' \cup adrift' =>
                      hw'[c] = Running(strays'[v].hand.spec.pfs[c])
               ELSE c \notin adrift' => hw'[c].vfs = 0
    <3>1. v = w
      <4>1. pc \in InPass /\ pc # "report"
        BY <1>8, LoseLeaseShape DEF InPass, Naming
      <4>2. \A x \in Stray : ~strays[x].hand.fresh
        BY <4>1 DEF Beside
      <4>3. v # w => strays'[v] = strays[v]
        BY <1>8, LoseLeaseShape
      <4>. QED BY <2>1, <4>2, <4>3
    <3>2. /\ strays'[w].at = pc /\ strays'[w].with = TRUE /\ strays'[w].hand.spec = pass.spec
          /\ UNCHANGED <<hw, touched, disturbed, required>>
      BY <1>8, LoseLeaseShape
    <3>3. Forgotten(w)' = required
      BY <3>2 DEF Forgotten
    <3>. QED BY <1>8, <2>1, <3>1, <3>2, <3>3, LeftAsAsked
  <2>. QED BY <2>1 DEF Fits
<1>9. ASSUME NEW w \in Stray, Moves(w), UNCHANGED <<touched, disturbed, required>>,
             adrift \subseteq adrift', \A c \in Installed : c \in adrift' \/ hw'[c] = hw[c]
      PROVE  Fits'
  <2>1. ASSUME NEW v \in Stray, strays'[v].hand.fresh, strays'[v].at \notin {"none", "uncordon"}
        PROVE  /\ strays[v].hand.fresh /\ strays[v].at \notin {"none", "uncordon"}
               /\ strays'[v].hand.spec = strays[v].hand.spec /\ strays'[v].with = strays[v].with
    <3>1. NoWorker.at = "none"
      BY DEF NoWorker
    <3>. QED BY <1>9, <2>1, <3>1 DEF Moves
  <2>2. disturbed \subseteq disturbed' /\ touched' = touched /\ required' = required
    BY <1>9
  <2>. QED BY <1>9, <2>1, <2>2, FitsStands
<1>10. ASSUME NEW w \in Stray, LeftBehind(w) PROVE Fits'
  <2>1. CASE StrayCalls(w)
    BY <1>9, <2>1, StrayCallsShape
  <2>2. CASE \E c \in Installed : StrayCard(w, c)
    <3>1. PICK c \in Installed : StrayCard(w, c)
      BY <2>2
    <3>2. /\ Moves(w) /\ UNCHANGED <<touched, disturbed, required>>
          /\ adrift' = adrift \cup {c} /\ \A d \in Installed \ {c} : hw'[d] = hw[d]
      BY <3>1, StrayCardShape
    <3>. QED BY <1>9, <3>2
  <2>3. CASE StrayAddKey(w) \/ \E c \in Installed : StrayWrite(w, c)
    BY <1>9, <2>3, StrayMapShape
  <2>4. CASE StrayReportFails(w)
    <3>1. UNCHANGED <<hw, touched, disturbed, required>> /\ StrayRemembers(w) /\ Moves(w)
      BY <2>4, StrayReportFailsShape
    <3>. QED BY <1>9, <3>1, StrayRemembersShape
  <2>5. CASE \E c \in Installed : StrayReport(w, c)
    <3>1. PICK c \in Installed : StrayReport(w, c)
      BY <2>5
    <3>2. UNCHANGED <<hw, touched, disturbed, required>> /\ StrayRemembers(w)
      BY <3>1, StrayReportShape
    <3>3. \A v \in Stray : strays'[v].hand.fresh /\ strays'[v].at \notin {"none", "uncordon"} =>
           /\ strays[v].hand.fresh /\ strays[v].at \notin {"none", "uncordon"}
           /\ strays'[v].hand.spec = strays[v].hand.spec /\ strays'[v].with = strays[v].with
      BY <3>1, StrayReportShape
    <3>. QED BY <3>2, <3>3, StrayRemembersShape, FitsStands
  <2>. QED BY <1>10, <2>1, <2>2, <2>3, <2>4, <2>5, LeftBehindKinds
<1>11. CASE DeleteNodeConfig \/ \E s \in Propagated : SetSpec(s)
  BY <1>00, <1>11, NewObjectFrame
<1>12. CASE DeployConfigMap \/ OtherNodeLists \/ UNCHANGED vars
  <2>1. strays' = strays /\ UNCHANGED <<hw, touched, disturbed, required, adrift>>
    BY <1>12 DEF DeployConfigMap, OtherNodeLists, vars
  <2>. QED BY <2>1, FitsStands
<1>13. ASSUME NEW c \in Installed, ResetVFs(c) PROVE Fits'
  <2>1. /\ strays' = strays /\ UNCHANGED <<touched, required, adrift>>
        /\ disturbed' = disturbed \cup {c} /\ hw' = [hw EXCEPT ![c].vfs = 0]
    BY <1>13 DEF ResetVFs
  <2>2. hw'[c].vfs = 0 /\ \A d \in Installed \ {c} : hw'[d] = hw[d]
    BY <2>1 DEF Types, Hardware
  <2>. QED BY <2>1, <2>2, FitsStands
<1>14. CASE Crash
  <2>1. \A w \in Stray : ~strays'[w].hand.fresh
    BY <1>14 DEF Crash, NoWorker, NoPass
  <2>. QED BY <2>1, FitsNobody
<1>. QED BY <1>1, <1>2, <1>3, <1>4, <1>5, <1>6, <1>7, <1>8, <1>10, <1>11, <1>12, <1>13, <1>14
     DEF Next, Progress, CardStep, Failure, Environment

-----------------------------------------------------------------------------
(* The lists *)

(* An entry takes the place of those that are the card's or anybody's. *)
LEMMA EditKeepsOne ==
  ASSUME NEW list, NEW c \in Card, NEW new, new.pf = c, One(list)
  PROVE  One((list \ {e \in list : Matches(e, c)}) \cup {new})
BY DEF One, Matches

(* Lists that are copied or emptied. *)
LEMMA CopiesKeepOne ==
  ASSUME Single, cm'.shared \in {cm.shared, pass.list}, cm'.own \in {cm.own, pass.list},
         cm'.own # Absent => cm.own # Absent \/ cm'.own = pass.list,
         pass'.list \in {pass.list, {}, PluginList},
         \A w \in Stray : strays'[w].hand.list \in {strays[w].hand.list, {}}
  PROVE  Single'
<1>1. One({}) /\ One(PluginList)
  BY DEF One, Single, PluginList
<1>2. One(cm'.shared) /\ (cm'.own # Absent => One(cm'.own)) /\ One(pass'.list)
  BY <1>1 DEF Single
<1>3. \A w \in Stray : One(strays'[w].hand.list)
  BY <1>1 DEF Single
<1>. QED BY <1>2, <1>3 DEF Single

(* A worker left behind copies, empties or edits the list it has in hand. *)
LEMMA NextListOne ==
  ASSUME Types, Single, NEW w \in Stray, Moves(w), NextList(w)
  PROVE  \A v \in Stray : One(strays'[v].hand.list)
<1>1. One({}) /\ One(PluginList) /\ One(strays[w].hand.list)
  BY DEF One, Single, PluginList
<1>2. One(strays'[w].hand.list)
  <2>1. CASE strays'[w].hand.list \in {strays[w].hand.list, {}, PluginList}
    BY <1>1, <2>1
  <2>2. ASSUME NEW c \in Card, NEW n \in Nat,
               strays'[w].hand.list =
                 (strays[w].hand.list \ {e \in strays[w].hand.list : Matches(e, c)})
                   \cup {EntryOf(strays[w].hand.spec, c, n)}
        PROVE  One(strays'[w].hand.list)
    <3>1. EntryOf(strays[w].hand.spec, c, n).pf = c
      BY DEF EntryOf
    <3>. QED BY <1>1, <2>2, <3>1, EditKeepsOne
  <2>. QED BY <2>1, <2>2 DEF NextList
<1>3. ASSUME NEW v \in Stray \ {w} PROVE One(strays'[v].hand.list)
  BY DEF Moves, Single
<1>. QED BY <1>2, <1>3

(* Before the cards have been configured, and after the pass, nothing is listed. *)
LEMMA BeforeLists ==
  ASSUME Types, Held, WorkKnown,
         \/ Boot \/ Recreate \/ CreateNodeConfig \/ DescribeNodeConfig \/ Refuse \/ BeginPass
         \/ RefuseSpec \/ MarkInProgress \/ Report \/ StatusUpdateFails
         \/ Drain \/ VrbApplySpec \/ CallFails \/ Crash
         \/ \E c \in Installed : ConfigureCard(c) \/ CardFails(c)
  PROVE  /\ cm' = cm /\ pass'.list \in {pass.list, {}} /\ ~Configured'
         /\ \A w \in Stray : strays'[w].hand.list \in {strays[w].hand.list, {}}
<1>0. pass \in Passes /\ NoPass.list = {} /\ InHand.list = {}
  BY DEF Types, NoPass, InHand
<1>1. ASSUME pc' \in {"down", "idle", "create", "describe", "refuse", "begin", "drain", "inventory", "apply"}
      PROVE  ~Configured'
  BY <1>1 DEF Configured, Ending, Naming
<1>9. ASSUME strays' = strays \/ Outdated \/ Parted(TRUE) \/ Parted(FALSE)
      PROVE  \A w \in Stray : strays'[w].hand.list \in {strays[w].hand.list, {}}
  BY <1>9, OutdatedShape, PartedShape
<1>2. CASE Boot \/ Recreate \/ Drain
  BY <1>1, <1>2 DEF Boot, Recreate, Drain, Goto
<1>3. CASE CreateNodeConfig \/ DescribeNodeConfig \/ RefuseSpec \/ Report \/ StatusUpdateFails \/ Crash
  <2>1. pass' = NoPass \/ pass' = [NoPass EXCEPT !.fresh = TRUE]
    BY <1>3 DEF CreateNodeConfig, DescribeNodeConfig, RefuseSpec, Report, StatusUpdateFails, Crash, Goto
  <2>2. pass'.list = {}
    BY <2>1 DEF NoPass
  <2>3. \A w \in Stray : strays'[w].hand.list \in {strays[w].hand.list, {}}
    <3>1. CASE Crash
      BY <3>1 DEF Crash, NoWorker, NoPass
    <3>2. CASE ~Crash
      BY <1>3, <1>9, <3>2 DEF CreateNodeConfig, DescribeNodeConfig, RefuseSpec, Report, StatusUpdateFails
    <3>. QED BY <3>1, <3>2
  <2>. QED BY <1>1, <1>3, <2>2, <2>3
       DEF CreateNodeConfig, DescribeNodeConfig, RefuseSpec, Report, StatusUpdateFails, Crash, Goto
<1>4. CASE Refuse \/ BeginPass
  <2>1. PICK R \in SUBSET Installed : pass' = InHand \/ pass' = [InHand EXCEPT !.outdated = R]
    BY <1>4 DEF Refuse, BeginPass, Goto
  <2>2. pass'.list = {}
    BY <1>0, <2>1, InHandType DEF Passes
  <2>. QED BY <1>1, <1>4, <2>2 DEF Refuse, BeginPass, Goto
<1>5. CASE MarkInProgress \/ VrbApplySpec \/ \E c \in Installed : ConfigureCard(c)
  <2>1. PICK S : pass' = pass \/ pass' = [pass EXCEPT !.todo = S]
    BY <1>5 DEF MarkInProgress, VrbApplySpec, ConfigureCard, Goto
  <2>2. pass'.list = pass.list
    BY <1>0, <2>1 DEF Passes
  <2>3. strays' = strays \/ Outdated
    BY <1>5 DEF MarkInProgress, VrbApplySpec, ConfigureCard
  <2>. QED BY <1>1, <1>5, <1>9, <2>2, <2>3 DEF MarkInProgress, VrbApplySpec, ConfigureCard, Goto
<1>6. CASE CallFails \/ \E c \in Installed : CardFails(c)
  <2>1. /\ pass' = [pass EXCEPT !.todo = {}, !.err = TRUE] \/ pass' = [pass EXCEPT !.err = TRUE]
        /\ pc' \in {"uncordon", "report"}
    BY <1>6 DEF CallFails, CardFails, Goto
  <2>2. pass'.list = pass.list /\ pass'.err
    BY <1>0, <2>1 DEF Passes
  <2>. QED BY <1>6, <2>1, <2>2 DEF Configured, Ending, Naming, CallFails, CardFails
<1>. QED BY <1>2, <1>3, <1>4, <1>5, <1>6

(* No card is named twice, whatever happens. *)
LEMMA SingleStep ==
  ASSUME Types, Held, WorkKnown, Beside, Single, [Next]_vars
  PROVE  Single'
<1>0. pass \in Passes /\ \A c \in Installed : c \in Card /\ hw[c].vfs \in Nat
  BY CardAssumption DEF Types, Hardware
<1>1. ASSUME cm' = cm, pass'.list \in {pass.list, {}, PluginList}, strays' = strays \/ Outdated
      PROVE  Single'
  BY <1>1, CopiesKeepOne, OutdatedShape
<1>2. ASSUME pass' = [pass EXCEPT !.fresh = FALSE] PROVE pass'.list = pass.list
  BY <1>0, <1>2 DEF Passes
<1>3. CASE UNCHANGED vars \/ NothingToDo \/ RestartDevicePlugin \/ Uncordon
  BY <1>1, <1>3 DEF vars, NothingToDo, RestartDevicePlugin, Uncordon, Goto
<1>30. CASE \/ Boot \/ Recreate \/ CreateNodeConfig \/ DescribeNodeConfig \/ Refuse \/ BeginPass
            \/ RefuseSpec \/ MarkInProgress \/ Report \/ StatusUpdateFails
            \/ Drain \/ VrbApplySpec \/ CallFails \/ Crash
            \/ \E c \in Installed : ConfigureCard(c) \/ CardFails(c)
  <2>1. /\ cm' = cm /\ pass'.list \in {pass.list, {}}
        /\ \A w \in Stray : strays'[w].hand.list \in {strays[w].hand.list, {}}
    BY <1>30, BeforeLists
  <2>. QED BY <2>1, CopiesKeepOne
<1>4. CASE AllConfigured
  <2>1. pass' = [pass EXCEPT !.names = Named(pass.spec)] /\ cm' = cm /\ strays' = strays
    BY <1>4 DEF AllConfigured, NextName, Goto
  <2>2. pass'.list = pass.list
    BY <1>0, <2>1 DEF Passes
  <2>. QED BY <1>1, <2>1, <2>2
<1>5. CASE LoadList \/ RereadMap \/ ConfigMapFails \/ ReportNameFails
  BY <1>1, <1>5, LoadShape, RereadShape, MapFailsShape, NoReportShape
     DEF LoadList, RereadMap, ConfigMapFails, ReportNameFails
<1>6. CASE AddKey
  BY <1>6, AddShape, CopiesKeepOne DEF AddKey
<1>7. ASSUME NEW c \in Installed, DeviceIDUnread(c) \/ ReportListed(c) \/ ReportUnlisted(c) PROVE Single'
  <2>1. pass'.list = {}
    BY <1>7, UnreadShape, ReportShape DEF NamedOne
  <2>. QED BY <1>1, <1>7, <2>1, UnreadFrame, ReportFrame
<1>8. ASSUME NEW c \in Installed, UpdateConfigMap(c) PROVE Single'
  <2>1. pass'.list \in {pass.list, {}}
    BY <1>8, WriteShape DEF NamedOne
  <2>2. strays' = strays
    BY <1>8 DEF UpdateConfigMap
  <2>. QED BY <1>8, <2>1, <2>2, WriteShape, CopiesKeepOne
<1>9. ASSUME NEW c \in Installed, MatchResource(c) \/ VFsUnread(c) PROVE Single'
  <2>1. PICK n \in Nat, m \in SUBSET Card : EditList(c, n, m)
    <3>1. pass.missed \in SUBSET Card /\ pass.missed \cup {c} \in SUBSET Card /\ 0 \in Nat
      BY <1>0 DEF Passes
    <3>. QED BY <1>0, <1>9, <3>1 DEF MatchResource, VFsUnread
  <2>. DEFINE new == EntryOf(pass.spec, c, n)
              list == (pass.list \ {e \in pass.list : Matches(e, c)}) \cup {new}
  <2>2. new.pf = c
    BY DEF EntryOf
  <2>3. One(list)
    BY <1>0, <2>2, EditKeepsOne DEF Single
  <2>4. pass'.list \in {pass.list, list} /\ cm' = cm /\ strays' = strays
    BY <1>0, <1>9, <2>1, EditedType DEF MatchResource, VFsUnread
  <2>. HIDE DEF list
  <2>. QED BY <2>3, <2>4 DEF Single
<1>10. CASE DeployConfigMap
  <2>1. pass'.list = pass.list /\ cm' = Deployed /\ strays' = strays
    BY <1>10, OverwrittenShape DEF DeployConfigMap
  <2>2. One(Deployed.shared) /\ Deployed.own = Absent
    BY DEF One, Deployed
  <2>. QED BY <2>1, <2>2 DEF Single
<1>11. CASE OtherNodeLists
  <2>1. cm'.shared = cm.shared /\ cm'.own = cm.own /\ pass' = pass /\ strays' = strays
    BY <1>11 DEF OtherNodeLists, Types, ConfigMap
  <2>. QED BY <2>1, CopiesKeepOne
<1>12. CASE DeleteNodeConfig \/ \E s \in Propagated : SetSpec(s)
  BY <1>1, <1>2, <1>12, NewObjectFrame
<1>13. CASE \E c \in Installed : ResetVFs(c)
  BY <1>1, <1>13 DEF ResetVFs
<1>14. ASSUME NEW w \in Stray, LoseLease(w) PROVE Single'
  <2>1. /\ cm' = cm /\ pass'.list = pass.list /\ strays'[w].hand.list = pass.list
        /\ \A v \in Stray \ {w} : strays'[v] = strays[v]
    BY <1>14, LoseLeaseShape
  <2>. QED BY <2>1 DEF Single
<1>15. ASSUME NEW w \in Stray, LeftBehind(w) PROVE Single'
  <2>1. ASSUME Moves(w), NextList(w), cm' = cm, pass' = pass PROVE Single'
    BY <2>1, NextListOne DEF Single
  <2>2. CASE StrayCalls(w) \/ StrayReportFails(w)
    BY <2>1, <2>2, StrayCallsShape, StrayReportFailsShape
  <2>3. CASE \E c \in Installed : StrayCard(w, c)
    <3>1. PICK c \in Installed : StrayCard(w, c)
      BY <2>3
    <3>. QED BY <2>1, <3>1, StrayCardShape
  <2>4. CASE StrayAddKey(w) \/ \E c \in Installed : StrayWrite(w, c)
    <3>1. /\ Moves(w) /\ NextList(w) /\ ListsOverwritten
          /\ cm'.shared \in {cm.shared, strays[w].hand.list}
          /\ cm'.own \in {cm.own, strays[w].hand.list}
      BY <2>4, StrayMapShape
    <3>2. pass'.list = pass.list
      BY <3>1, OverwrittenShape
    <3>. QED BY <3>1, <3>2, NextListOne DEF Single
  <2>5. CASE \E c \in Installed : StrayReport(w, c)
    <3>1. PICK c \in Installed : StrayReport(w, c)
      BY <2>5
    <3>2. /\ cm' = cm /\ pass'.list = pass.list /\ strays'[w].hand.list = {}
          /\ \A v \in Stray \ {w} : strays'[v].hand.list = strays[v].hand.list
      BY <3>1, StrayReportShape
    <3>3. \A v \in Stray : strays'[v].hand.list \in {strays[v].hand.list, {}}
      BY <3>2
    <3>. QED BY <3>2, <3>3, CopiesKeepOne
  <2>. QED BY <1>15, <2>2, <2>3, <2>4, <2>5, LeftBehindKinds
<1>. QED BY <1>3, <1>30, <1>4, <1>5, <1>6, <1>7, <1>8, <1>9, <1>10, <1>11, <1>12, <1>13, <1>14, <1>15
     DEF Next, Progress, CardStep, Failure, Environment

(* Who is excused stays so. *)
LEMMA ExcusedStay ==
  ASSUME pass.missed \subseteq pass'.missed, disturbed \subseteq disturbed',
         adrift \subseteq adrift', required' = required,
         touched' = touched \/ touched' = touched \ required
  PROVE  Excused \subseteq Excused'
BY DEF Excused

(* Outside the naming and the end of a pass nothing is known of the lists. *)
LEMMA NotListing ==
  ASSUME ~Configured'
  PROVE  Listing' /\ RestKnown'
BY DEF Configured, Ending, Naming, Listing, RestKnown

(* A step beside the pass, or from one part of its end to the next. *)
LEMMA ListingStands ==
  ASSUME Listing, Same, pass'.names = pass.names, pass'.list = pass.list, PluginList' = PluginList,
         Excused \subseteq Excused', pass.missed \subseteq pass'.missed,
         pc' = pc \/ (Configured /\ pc' \in {"uncordon", "report", "unlisted"})
  PROVE  Listing'
<1>1. Configured' => Configured
  BY DEF Configured, Ending, Same
<1>2. pc' \in {"addkey", "match", "reread", "write", "listed"} => pc' = pc
  OBVIOUS
<1>. QED BY <1>1, <1>2 DEF Listing, Told, Same

(* A card whose VFs are not the requested ones is excused. *)
LEMMA VFsAsRequested ==
  ASSUME Types, PrevDescribes, WorkKnown, Configured, NEW c \in Installed, c \notin Excused
  PROVE  hw[c].vfs = RequestedVFs(pass.spec, c)
<1>1. pass.todo = {} /\ pc \in InPass
  BY DEF Configured, Ending, InPass, WorkKnown
<1>2. c \notin disturbed \cup adrift /\ (c \in required \/ c \notin touched)
  BY DEF Excused
<1>3. CASE c \in required
  <2>1. CardDone(c)
    BY <1>1, <1>2, <1>3 DEF WorkKnown
  <2>. QED BY <1>2, <2>1 DEF CardDone, RequestedVFs, Running
<1>4. CASE c \notin required
  <2>1. Requested(pass.spec, c) /\ prev[c] = pass.spec.pfs[c]
    BY <1>1, <1>2, <1>4 DEF WorkKnown
  <2>2. hw[c] = Running(prev[c])
    BY <1>2, <1>4, <2>1 DEF PrevDescribes, Requested
  <2>. QED BY <2>1, <2>2 DEF RequestedVFs, Running
<1>. QED BY <1>3, <1>4

(* When a card has been named, or given up, the list of the others stays. *)
LEMMA NamedListing ==
  ASSUME Types, Listing, NEW c \in Installed, NEW m, NamedOne(c, m), pc \in Naming,
         Excused \subseteq Excused',
         \A d \in Named(pass.spec) \ pass.names : Told(pass.spec, d, PluginList', Excused'),
         Told(pass.spec, c, PluginList', Excused')
  PROVE  Listing' /\ RestKnown'
<1>1. pc' \in {"restart", "load"} /\ pass'.names = pass.names \ {c} /\ pass'.spec = pass.spec
  BY DEF NamedOne, Same
<1>2. \A d \in Named(pass'.spec) \ pass'.names : Told(pass'.spec, d, PluginList', Excused')
  BY <1>1
<1>. QED BY <1>1, <1>2 DEF Listing, RestKnown

(* The list as it is edited. *)
LEMMA EditListing ==
  ASSUME Types, PrevDescribes, WorkKnown, Listing,
         NEW c \in Installed, MatchResource(c) \/ VFsUnread(c)
  PROVE  Listing' /\ RestKnown'
<1>0. /\ pass \in Passes /\ c \in Card /\ hw[c].vfs \in Nat
      /\ pc = "match" /\ Configured /\ First(pass.names, c) /\ c \in pass.names
      /\ cm' = cm /\ touched' = touched /\ disturbed' = disturbed
      /\ required' = required /\ adrift' = adrift
  BY CardAssumption DEF Types, Hardware, MatchResource, VFsUnread, Configured, Naming, First
<1>1. PICK n \in Nat, m \in SUBSET Card :
        /\ EditList(c, n, m) /\ pass.missed \subseteq m
        /\ n = hw[c].vfs \/ c \in m
  <2>1. pass.missed \in SUBSET Card /\ pass.missed \cup {c} \in SUBSET Card /\ 0 \in Nat
    BY <1>0 DEF Passes
  <2>. QED BY <1>0, <2>1 DEF MatchResource, VFsUnread
<1>. DEFINE mine == {e \in pass.list : Matches(e, c)}
            new  == EntryOf(pass.spec, c, n)
<1>2. /\ GoesOn /\ pass'.todo = pass.todo /\ pass'.names = pass.names
      /\ pass'.err = pass.err /\ pass'.missed = m
      /\ \/ new \in mine /\ pc' = "listed" /\ pass'.list = pass.list
         \/ new \notin mine /\ pc' = "reread" /\ pass'.list = (pass.list \ mine) \cup {new}
  BY <1>0, <1>1, EditedType
<1>3. Same /\ Excused \subseteq Excused' /\ m \subseteq Excused' /\ PluginList' = PluginList
  BY <1>0, <1>1, <1>2, ExcusedStay DEF GoesOn, Same, Excused, PluginList
<1>4. c \in Excused' \/ new = EntryOf(pass.spec, c, RequestedVFs(pass.spec, c))
  BY <1>0, <1>1, <1>3, VFsAsRequested
<1>5. \A d \in Named(pass.spec) \ pass.names :
        /\ Told(pass.spec, d, PluginList, Excused)
        /\ Told(pass.spec, d, pass.list, Excused)
        /\ d \in Card /\ d # c /\ d # AnyCard
  BY <1>0, CardAssumption DEF Listing, Named
<1>6. \A d \in pass.names : First(pass.names, d) => d = c
  <2>1. pass.names \subseteq Nat
    BY <1>0, CardAssumption DEF Passes
  <2>. QED BY <1>0, <2>1 DEF First
<1>7. CASE new \in mine
  <2>1. Told(pass.spec, c, PluginList, Excused')
    BY <1>0, <1>1, <1>3, <1>4, <1>7 DEF Listing, Told
  <2>2. pc' = "listed"
    BY <1>2, <1>7
  <2>3. \A d \in Named(pass.spec) \ pass.names : Told(pass.spec, d, PluginList, Excused')
    BY <1>3, <1>5 DEF Told
  <2>. QED BY <1>2, <1>3, <1>6, <2>1, <2>2, <2>3 DEF Listing, RestKnown, Same
<1>8. CASE new \notin mine
  <2>. DEFINE list == (pass.list \ mine) \cup {new}
  <2>1. pc' = "reread" /\ pass'.list = list
    BY <1>2, <1>8
  <2>2. Told(pass.spec, c, list, Excused')
    BY <1>4 DEF Told
  <2>3. ASSUME NEW d \in Named(pass.spec) \ pass.names PROVE Told(pass.spec, d, list, Excused')
    <3>. DEFINE e == EntryOf(pass.spec, d, RequestedVFs(pass.spec, d))
    <3>1. e.pf = d
      BY DEF EntryOf
    <3>2. e \in pass.list => e \in list
      BY <1>5, <3>1 DEF Matches
    <3>. QED BY <1>3, <1>5, <3>2 DEF Told
  <2>4. \A d \in Named(pass.spec) \ pass.names : Told(pass.spec, d, PluginList, Excused')
    BY <1>3, <1>5 DEF Told
  <2>. HIDE DEF list
  <2>. QED BY <1>2, <1>3, <1>6, <2>1, <2>2, <2>3, <2>4 DEF Listing, RestKnown, Same
<1>. QED BY <1>7, <1>8

(* Reading, copying and writing the map. *)
LEMMA MapListing ==
  ASSUME Types, PrevDescribes, WorkKnown, Listing,
         \/ LoadList \/ AddKey \/ RereadMap \/ ConfigMapFails
         \/ \E c \in Installed : UpdateConfigMap(c) \/ DeviceIDUnread(c)
  PROVE  Listing' /\ RestKnown'
<1>0. /\ pass \in Passes /\ hw' = hw /\ touched' = touched /\ disturbed' = disturbed
      /\ required' = required /\ adrift' = adrift
      /\ pc \in Naming /\ Configured
  <2>1. CASE LoadList \/ AddKey \/ RereadMap \/ ConfigMapFails \/ \E c \in Installed : UpdateConfigMap(c)
    BY <2>1 DEF Types, LoadList, AddKey, RereadMap, ConfigMapFails, UpdateConfigMap, Naming, Configured
  <2>2. CASE \E c \in Installed : DeviceIDUnread(c)
    BY <2>2, UnreadFrame DEF Types, Naming, Configured
  <2>. QED BY <2>1, <2>2
<1>1. \A c \in Named(pass.spec) \ pass.names : Told(pass.spec, c, PluginList, Excused)
  BY <1>0 DEF Listing
<1>2. CASE LoadList
  <2>1. /\ pc' \in {"addkey", "match"} /\ Same /\ pass'.names = pass.names /\ pass'.missed = pass.missed
        /\ pass'.list = PluginList
    BY <1>2, LoadShape
  <2>2. PluginList' = PluginList
    BY <1>2 DEF LoadList, PluginList
  <2>3. Excused' = Excused
    BY <1>0, <2>1 DEF Excused, Same
  <2>. QED BY <1>1, <2>1, <2>2, <2>3 DEF Listing, RestKnown, Same
<1>3. CASE AddKey
  <2>1. pc' = "match" /\ pc = "addkey" /\ pass' = pass /\ PluginList' = pass.list
    BY <1>3, AddShape DEF AddKey
  <2>2. Excused' = Excused
    BY <1>0, <2>1 DEF Excused
  <2>. QED BY <2>1, <2>2 DEF Listing, RestKnown
<1>4. CASE RereadMap
  <2>1. /\ pc' = "write" /\ pc = "reread" /\ Same /\ pass'.names = pass.names
        /\ pass'.missed = pass.missed /\ pass'.list = pass.list
    BY <1>4, RereadShape DEF RereadMap
  <2>2. PluginList' = PluginList
    BY <1>4 DEF RereadMap, PluginList
  <2>3. Excused' = Excused
    BY <1>0, <2>1 DEF Excused, Same
  <2>. QED BY <1>1, <2>1, <2>2, <2>3 DEF Listing, RestKnown, Same
<1>5. CASE ConfigMapFails
  <2>1. PluginList' = PluginList
    BY <1>5 DEF ConfigMapFails, PluginList
  <2>2. CASE pass' = pass /\ pc' = "unlisted"
    BY <1>0, <2>1, <2>2, ListingStands DEF Same, Excused, RestKnown
  <2>3. CASE ~(pass' = pass /\ pc' = "unlisted")
    <3>1. pc' = "uncordon" /\ pass'.err
      BY <1>5, <2>3, MapFailsShape
    <3>. QED BY <3>1, NotListing DEF Configured, Ending, Naming
  <2>. QED BY <2>2, <2>3
<1>6. ASSUME NEW c \in Installed, UpdateConfigMap(c)
      PROVE  Listing' /\ RestKnown'
  <2>1. PluginList' = pass.list /\ pc = "write" /\ First(pass.names, c)
    BY <1>6, WriteShape DEF UpdateConfigMap
  <2>2. \A d \in Named(pass.spec) \ pass.names : Told(pass.spec, d, PluginList', Excused)
    BY <2>1 DEF Listing
  <2>3. \A d \in pass.names : First(pass.names, d) => Told(pass.spec, d, PluginList', Excused)
    BY <2>1 DEF Listing
  <2>4. CASE pass' = pass /\ pc' = "listed"
    <3>1. Excused' = Excused
      BY <1>0, <2>4 DEF Excused
    <3>. QED BY <2>2, <2>3, <2>4, <3>1 DEF Listing, RestKnown
  <2>5. CASE NamedOne(c, pass.missed)
    <3>1. Excused' = Excused
      BY <1>0, <2>5 DEF Excused, NamedOne, Same
    <3>2. c \in pass.names
      BY <2>1 DEF First
    <3>. QED BY <1>0, <2>1, <2>2, <2>3, <2>5, <3>1, <3>2, NamedListing
  <2>. QED BY <1>6, <2>4, <2>5, WriteShape
<1>7. ASSUME NEW c \in Installed, DeviceIDUnread(c)
      PROVE  Listing' /\ RestKnown'
  <2>1. NamedOne(c, pass.missed \cup {c})
    BY <1>7, UnreadShape
  <2>2. Excused \subseteq Excused' /\ c \in Excused'
    BY <1>0, <2>1, ExcusedStay DEF NamedOne, Excused
  <2>3. PluginList' = PluginList
    BY <1>7, UnreadFrame DEF PluginList
  <2>. QED BY <1>0, <1>1, <2>1, <2>2, <2>3, NamedListing DEF Told
<1>. QED BY <1>2, <1>3, <1>4, <1>5, <1>6, <1>7

(* Reporting what has been listed. *)
LEMMA ReportListing ==
  ASSUME Types, Held, Beside, Listing,
         ReportNameFails \/ \E c \in Installed : ReportListed(c) \/ ReportUnlisted(c)
  PROVE  Listing' /\ RestKnown'
<1>0. /\ pass \in Passes /\ cm' = cm /\ disturbed' = disturbed /\ pc \in Naming /\ Configured
      /\ touched' = touched \/ touched' = touched \ required
      /\ required' = required /\ adrift' = adrift
  <2>1. CASE ReportNameFails
    BY <2>1 DEF Types, ReportNameFails, Naming, Configured, Remember
  <2>2. CASE \E c \in Installed : ReportListed(c) \/ ReportUnlisted(c)
    BY <2>2, ReportFrame DEF Types, Naming, Configured, Remember
  <2>. QED BY <2>1, <2>2
<1>1. \A c \in Named(pass.spec) \ pass.names : Told(pass.spec, c, PluginList, Excused)
  BY <1>0 DEF Listing
<1>2. PluginList' = PluginList
  BY <1>0 DEF PluginList
<1>3. CASE ReportNameFails
  <2>1. pc' = "uncordon" /\ pass'.err
    BY <1>3, NoReportShape
  <2>. QED BY <2>1, NotListing DEF Configured, Ending, Naming
<1>4. ASSUME NEW c \in Installed, ReportListed(c)
      PROVE  Listing' /\ RestKnown'
  <2>1. NamedOne(c, pass.missed) /\ pc = "listed" /\ First(pass.names, c) /\ c \in pass.names
    <3>1. NamedOne(c, pass.missed)
      BY <1>4, ReportShape
    <3>2. pc = "listed" /\ First(pass.names, c)
      BY <1>4, Zenon DEF ReportListed
    <3>. QED BY <3>1, <3>2 DEF First
  <2>2. Excused \subseteq Excused'
    BY <1>0, <2>1, ExcusedStay DEF NamedOne
  <2>3. Told(pass.spec, c, PluginList, Excused)
    BY <2>1 DEF Listing
  <2>. QED BY <1>0, <1>1, <1>2, <2>1, <2>2, <2>3, NamedListing DEF Told
<1>5. ASSUME NEW c \in Installed, ReportUnlisted(c)
      PROVE  Listing' /\ RestKnown'
  <2>1. NamedOne(c, pass.missed \cup {c})
    BY <1>5, ReportShape
  <2>2. Excused \subseteq Excused' /\ c \in Excused'
    BY <1>0, <2>1, ExcusedStay DEF NamedOne, Excused
  <2>. QED BY <1>0, <1>1, <1>2, <2>1, <2>2, NamedListing DEF Told
<1>. QED BY <1>3, <1>4, <1>5

(* A step beside the pass that leaves the lists of this node alone. *)
LEMMA ListingBeside ==
  ASSUME Listing, RestKnown, Same, pc' = pc, pass'.names = pass.names, pass'.list = pass.list,
         pass'.missed = pass.missed, PluginList' = PluginList,
         touched' = touched, required' = required,
         disturbed \subseteq disturbed', adrift \subseteq adrift', undone \subseteq undone',
         pluginStale' => pluginStale \/ "plugin" \in undone',
         cordoned' => cordoned \/ "node" \in undone'
  PROVE  Listing' /\ RestKnown'
<1>1. Excused \subseteq Excused'
  BY ExcusedStay
<1>2. Listing'
  BY <1>1, ListingStands
<1>3. RestKnown'
  BY DEF RestKnown, Same
<1>. QED BY <1>2, <1>3

(* A step that writes them. *)
LEMMA ListingOverwritten ==
  ASSUME Types, RestKnown, ListsOverwritten, pc' = pc, undone' = undone, cordoned' = cordoned,
         pluginStale' => pluginStale \/ "plugin" \in undone'
  PROVE  Listing' /\ RestKnown'
<1>1. Same /\ pass'.names = pass.names
  BY OverwrittenShape
<1>2. RestKnown'
  BY <1>1 DEF RestKnown, Same
<1>3. CASE pc \in Naming \cup {"restart", "uncordon", "report"}
  <2>1. Card \subseteq pass'.missed /\ Card \subseteq Excused' /\ pass'.names \subseteq Card
    BY <1>1, <1>3, OverwrittenShape DEF Excused, Types, Passes
  <2>2. Listing'
    BY <2>1 DEF Listing, Told, Named
  <2>. QED BY <1>2, <2>2
<1>4. CASE pc \notin Naming \cup {"restart", "uncordon", "report"}
  BY <1>4, NotListing DEF Configured, Ending
<1>. QED BY <1>3, <1>4

(* What the environment does to the lists. *)
LEMMA EnvironmentListing ==
  ASSUME Types, Held, WorkKnown, Listing, RestKnown, Environment
  PROVE  Listing' /\ RestKnown'
<1>0. pass \in Passes
  BY DEF Types
<1>2. CASE DeleteNodeConfig \/ \E s \in Propagated : SetSpec(s)
  <2>1. /\ pass' = [pass EXCEPT !.fresh = FALSE]
        /\ UNCHANGED <<cm, cordoned, pluginStale, pc, touched, disturbed, required, adrift, undone>>
    BY <1>2, NewObjectFrame
  <2>2. Same /\ pass'.names = pass.names /\ pass'.list = pass.list /\ pass'.missed = pass.missed
    BY <1>0, <2>1 DEF Passes, Same
  <2>3. PluginList' = PluginList
    BY <2>1 DEF PluginList
  <2>. QED BY <2>1, <2>2, <2>3, ListingBeside
<1>3. CASE OtherNodeLists \/ \E c \in Installed : ResetVFs(c)
  <2>1. PluginList' = PluginList
    BY <1>3 DEF OtherNodeLists, ResetVFs, PluginList, Types, ConfigMap
  <2>2. /\ UNCHANGED <<cordoned, pluginStale, pc, pass, touched, required, adrift, undone>>
        /\ disturbed \subseteq disturbed'
    BY <1>3 DEF OtherNodeLists, ResetVFs
  <2>. QED BY <2>1, <2>2, ListingBeside DEF Same
<1>4. CASE Crash
  BY <1>4, BeforeLists, NotListing
<1>5. CASE DeployConfigMap
  BY <1>5, ListingOverwritten DEF DeployConfigMap
<1>. QED BY <1>2, <1>3, <1>4, <1>5 DEF Environment

(* A lost lease, and what the worker left behind does to the lists. *)
LEMMA LeaseListing ==
  ASSUME Types, Held, WorkKnown, Owed, Listing, RestKnown,
         NEW w \in Stray, LoseLease(w) \/ LeftBehind(w)
  PROVE  Listing' /\ RestKnown'
<1>1. CASE LoseLease(w)
  <2>1. /\ pc \in {"drain", "inventory", "apply", "restart", "uncordon"} \cup Naming
        /\ pc' = "report" /\ GoesOn /\ cm' = cm
        /\ pass'.names = {} /\ pass'.err = pass.err
        /\ pass'.missed = pass.missed \cup Unlisted
        /\ UNCHANGED <<cordoned, pluginStale, touched, disturbed, required>>
        /\ adrift \subseteq adrift'
        /\ undone' = undone \cup (IF pc = "uncordon" THEN {} ELSE {"plugin"})
                            \cup (IF pass.spec.drainSkip THEN {} ELSE {"node"})
    BY <1>1, LoseLeaseShape
  <2>2. RestKnown'
    BY <2>1 DEF RestKnown, GoesOn
  <2>3. CASE pass.err
    BY <2>1, <2>3, NotListing DEF Configured, Ending, Naming
  <2>4. CASE ~pass.err
    <3>1. Excused \subseteq Excused' /\ Unlisted \subseteq Excused' /\ PluginList' = PluginList
      BY <2>1, ExcusedStay DEF Excused, PluginList
    <3>2. ASSUME NEW c \in Named(pass.spec) PROVE Told(pass.spec, c, PluginList, Excused')
      <4>1. CASE c \in Unlisted
        BY <3>1, <4>1 DEF Told
      <4>2. CASE c \notin Unlisted
        <5>1. Configured /\ c \notin pass.names
          BY <2>1, <2>4, <4>2 DEF Unlisted, Configured, Ending, WorkKnown, Naming
        <5>. QED BY <3>1, <5>1 DEF Listing, Told
      <4>. QED BY <4>1, <4>2
    <3>3. Listing'
      BY <2>1, <3>1, <3>2 DEF Listing, GoesOn, Naming
    <3>. QED BY <2>2, <3>3
  <2>. QED BY <2>3, <2>4
<1>2. CASE LeftBehind(w)
  <2>1. CASE StrayCalls(w)
    <3>1. /\ UNCHANGED <<pass, cm, adrift, undone, pc, touched, disturbed, required>>
          /\ cordoned' => cordoned \/ (strays[w].at # "none" /\ ~strays[w].hand.spec.drainSkip)
          /\ pluginStale' => pluginStale
      BY <2>1, StrayCallsShape
    <3>2. PluginList' = PluginList /\ (cordoned' => cordoned \/ "node" \in undone')
      BY <3>1 DEF PluginList, Owed
    <3>. QED BY <3>1, <3>2, ListingBeside DEF Same
  <2>2. CASE \E c \in Installed : StrayCard(w, c)
    <3>1. /\ UNCHANGED <<pass, cm, cordoned, undone, pc, touched, disturbed, required>>
          /\ adrift \subseteq adrift' /\ strays[w].at = "apply"
      BY <2>2, StrayCardShape
    <3>2. PluginList' = PluginList /\ "plugin" \in undone'
      BY <3>1 DEF PluginList, Owed
    <3>. QED BY <3>1, <3>2, ListingBeside DEF Same
  <2>3. CASE StrayAddKey(w) \/ \E c \in Installed : StrayWrite(w, c)
    <3>1. /\ UNCHANGED <<cordoned, undone, pc>>
          /\ strays[w].at \in Naming /\ ListsOverwritten
      BY <2>3, StrayMapShape
    <3>2. "plugin" \in undone'
      BY <3>1 DEF Owed, Naming
    <3>. QED BY <3>1, <3>2, ListingOverwritten
  <2>4. CASE StrayReportFails(w)
    <3>1. /\ UNCHANGED <<pass, cm, cordoned, pluginStale, undone, pc, touched, disturbed, required>>
          /\ StrayRemembers(w)
      BY <2>4, StrayReportFailsShape
    <3>2. PluginList' = PluginList /\ adrift \subseteq adrift'
      BY <3>1, StrayRemembersShape DEF PluginList
    <3>. QED BY <3>1, <3>2, ListingBeside DEF Same
  <2>5. CASE \E c \in Installed : StrayReport(w, c)
    <3>1. /\ UNCHANGED <<cm, cordoned, pluginStale, undone, pc, touched, disturbed, required>>
          /\ StrayRemembers(w) /\ Same /\ pass'.names = pass.names /\ pass'.list = pass.list
          /\ pass'.missed = pass.missed
      BY <2>5, StrayReportShape
    <3>2. PluginList' = PluginList /\ adrift \subseteq adrift'
      BY <3>1, StrayRemembersShape DEF PluginList
    <3>. QED BY <3>1, <3>2, ListingBeside
  <2>. QED BY <1>2, <2>1, <2>2, <2>3, <2>4, <2>5, LeftBehindKinds
<1>. QED BY <1>1, <1>2

(* The restart and the uncordon of a pass. *)
LEMMA RestListing ==
  ASSUME Types, WorkKnown, Listing, RestKnown, RestartDevicePlugin \/ Uncordon
  PROVE  Listing' /\ RestKnown'
<1>0. pass \in Passes /\ pass.spec.drainSkip \in BOOLEAN
  BY DEF Types, Passes, NodeSpec
<1>1. /\ pass' = pass /\ PluginList' = PluginList
      /\ \/ pc = "restart" /\ pc' = "uncordon"
         \/ pc = "uncordon" /\ pc' = "report"
      /\ UNCHANGED <<cm, touched, disturbed, required>> /\ adrift' = adrift
  BY DEF RestartDevicePlugin, Uncordon, Goto, PluginList
<1>2. CASE pass.err
  BY <1>1, <1>2, NotListing DEF Configured, Ending, Naming
<1>3. CASE ~pass.err
  <2>1. Configured /\ pc' \in {"uncordon", "report"} /\ Excused' = Excused
    BY <1>1, <1>3 DEF Configured, Ending, Excused
  <2>2. Listing'
    BY <1>1, <2>1, ListingStands DEF Same
  <2>3. CASE RestartDevicePlugin
    <3>1. pluginStale' = FALSE /\ pc' = "uncordon"
      BY <2>3 DEF RestartDevicePlugin, Goto
    <3>. QED BY <2>2, <3>1 DEF RestKnown
  <2>4. CASE Uncordon
    <3>1. /\ pluginStale' = pluginStale /\ pc = "uncordon"
          /\ cordoned' = (cordoned /\ pass.spec.drainSkip)
          /\ undone' = undone \/ undone' = undone \ {"node"}
      BY <2>4 DEF Uncordon
    <3>2. cordoned' => pass'.spec.drainSkip
      BY <1>0, <1>1, <3>1
    <3>3. pluginStale' => "plugin" \in undone'
      BY <1>3, <3>1 DEF RestKnown
    <3>. QED BY <2>2, <3>2, <3>3 DEF RestKnown
  <2>. QED BY <2>3, <2>4
<1>. QED BY <1>2, <1>3

(* The lists and the end of the pass, whatever happens. *)
LEMMA ListingStep ==
  ASSUME Types, Held, PrevDescribes, WorkKnown, Beside, Owed, Listing, RestKnown, [Next]_vars
  PROVE  Listing' /\ RestKnown'
<1>0. pass \in Passes
  BY DEF Types
<1>1. CASE UNCHANGED vars
  BY <1>1 DEF vars, Listing, RestKnown, Configured, Ending, Excused, PluginList
<1>2. CASE NothingToDo
  BY <1>2, NotListing DEF NothingToDo, Configured, Ending, Naming
<1>3. CASE AllConfigured
  <2>1. /\ pass' = [pass EXCEPT !.names = Named(pass.spec)]
        /\ pc' \in {"restart", "load"}
    BY <1>3 DEF AllConfigured, NextName, Goto
  <2>2. pass'.names = Named(pass'.spec)
    BY <1>0, <2>1 DEF Passes
  <2>. QED BY <2>1, <2>2 DEF Listing, RestKnown
<1>4. CASE Progress
  BY <1>3, <1>4, RestListing, BeforeLists, NotListing, EditListing, MapListing, ReportListing
     DEF Progress, CardStep
<1>5. CASE Failure
  BY <1>5, BeforeLists, NotListing, EditListing, MapListing, ReportListing DEF Failure
<1>6. CASE Environment
  BY <1>6, EnvironmentListing
<1>7. CASE \E w \in Stray : LoseLease(w) \/ LeftBehind(w)
  BY <1>7, LeaseListing
<1>. QED BY <1>1, <1>2, <1>4, <1>5, <1>6, <1>7 DEF Next

-----------------------------------------------------------------------------
(* Theorems *)

LEMMA InitInv ==
  ASSUME Init
  PROVE  IInv
<1>0. /\ cr = NoNodeConfig /\ cm = Deployed /\ pc = "down" /\ pass = NoPass /\ prev = NoPFs
      /\ touched = {} /\ disturbed = {} /\ hw = [c \in Installed |-> Blank]
      /\ \A w \in Stray : strays[w] = NoWorker
  BY DEF Init
<1>1. Types
  BY ConstantTypes DEF Init, Types
<1>2. Held /\ Beside /\ Fits /\ Owed
  BY <1>0 DEF Held, Beside, Fits, Owed, NoNodeConfig, NoPass, NoWorker
<1>3. PrevDescribes
  BY <1>0, CardAssumption DEF PrevDescribes, NoPFs
<1>4. WorkKnown
  BY <1>0 DEF WorkKnown, InPass, Naming, Configured, Ending, NoPass
<1>5. AppliedMatchesHardware
  BY <1>0 DEF AppliedMatchesHardware, Applied, NoNodeConfig
<1>6. Single
  BY <1>0 DEF Single, One, Deployed, NoPass, NoWorker
<1>7. Listing /\ RestKnown
  BY <1>0 DEF Listing, RestKnown, Configured, Ending, Naming
<1>. QED BY <1>1, <1>2, <1>3, <1>4, <1>5, <1>6, <1>7 DEF IInv

LEMMA NextInv ==
  ASSUME IInv, [Next]_vars
  PROVE  IInv'
BY TypesStep, CardsStep, BesideStep, FitsStep, OwedStep, SingleStep, ListingStep DEF IInv

(* What all of the properties below rest on. *)
THEOREM Invariant == Spec => []IInv
BY InitInv, NextInv, PTL DEF Spec

(* Every variable keeps its type, and the observed generation is one that the *)
(* SriovVrbNodeConfig had.                                                    *)
THEOREM TypeCorrect == Spec => []TypeOK
<1>1. ASSUME IInv PROVE TypeOK
  BY <1>1 DEF IInv, Types, Held, NodeConfigs, Passes, Hardware, TypeOK
<1>. QED BY <1>1, Invariant, PTL

(* Succeeded for the current generation, whether updateStatus wrote it at the   *)
(* end of Reconcile, after one of the names, or for a worker that a lost lease  *)
(* left behind, means that every card runs what the spec asks for, but for      *)
(* those that a pass for another spec left half way, those the environment      *)
(* changed, and those that the lost lease left undone or to that worker.        *)
THEOREM SuccessIsTrue == Spec => []AppliedMatchesHardware
<1>1. ASSUME IInv PROVE AppliedMatchesHardware
  BY <1>1 DEF IInv
<1>. QED BY <1>1, Invariant, PTL

(* handleSriovDevicePluginConfigMap never leaves a list with two entries of one *)
(* card, whatever is renamed, lost or copied in between, and however many       *)
(* workers left behind do the same.                                             *)
THEOREM OneNameEach == Spec => []OneEntryPerCard
<1>1. ASSUME IInv PROVE OneEntryPerCard
  BY <1>1 DEF IInv, Single, One, OneEntryPerCard, PluginList
<1>. QED BY <1>1, Invariant, PTL

(* When Reconcile ends with a success, every named card that is not excused is  *)
(* in the plugin's list with its name and its VFs, the plugin has restarted     *)
(* after the last change and the node is schedulable; the last two unless a     *)
(* lost lease has left them undone.                                             *)
THEOREM SuccessIsComplete == Spec => PassEndsComplete
<1>1. ASSUME IInv, Report, cr'.reason = "Succeeded"
      PROVE  /\ "plugin" \notin undone => ~pluginStale
             /\ "node" \notin undone /\ cordoned => pass.spec.drainSkip
             /\ \A c \in Named(pass.spec) \ (pass.missed \cup touched' \cup disturbed \cup adrift) :
                  EntryOf(pass.spec, c, RequestedVFs(pass.spec, c)) \in PluginList
  <2>0. pass.fresh /\ pc = "report" /\ UpdateStatus(Verdict) /\ Verdict \in Reasons
    BY <1>1 DEF Report, Reasons, Verdict
  <2>1. ~pass.err
    <3>1. Verdict = "Succeeded"
      BY <1>1, <2>0, StatusType DEF IInv
    <3>. QED BY <3>1 DEF Verdict
  <2>2. /\ "plugin" \notin undone => ~pluginStale
        /\ "node" \notin undone /\ cordoned => pass.spec.drainSkip
    BY <1>1, <2>0, <2>1 DEF IInv, RestKnown
  <2>3. Ending /\ Configured /\ pass.names = {} /\ touched' = touched \ required
    BY <1>1, <2>0, <2>1 DEF Ending, Configured, IInv, WorkKnown, Report, Remember
  <2>4. \A c \in Named(pass.spec) : Told(pass.spec, c, PluginList, Excused)
    BY <1>1, <2>3 DEF IInv, Listing
  <2>. QED BY <2>2, <2>3, <2>4 DEF Told, Excused
<1>2. ASSUME IInv
      PROVE  [Report /\ cr'.reason = "Succeeded" =>
                /\ "plugin" \notin undone => ~pluginStale
                /\ "node" \notin undone /\ cordoned => pass.spec.drainSkip
                /\ \A c \in Named(pass.spec) \ (pass.missed \cup touched' \cup disturbed \cup adrift) :
                     EntryOf(pass.spec, c, RequestedVFs(pass.spec, c)) \in PluginList]_vars
  BY <1>1, <1>2
<1>. QED BY <1>2, Invariant, PTL DEF PassEndsComplete

(* Only the operator and the daemon of that node write the list of another. *)
LEMMA OthersAlone ==
  ASSUME IInv, [Next]_vars
  PROVE  cm'.other = cm.other \/ (pc' = pc /\ strays' = strays)
<1>0. Types /\ WorkKnown
  BY DEF IInv
<1>1. CASE UNCHANGED vars \/ NothingToDo
  BY <1>1 DEF vars, NothingToDo
<1>2. CASE Progress
  <2>1. CASE \/ Boot \/ Recreate \/ CreateNodeConfig \/ DescribeNodeConfig \/ Refuse \/ BeginPass
             \/ RefuseSpec \/ MarkInProgress \/ Drain \/ VrbApplySpec \/ AllConfigured
             \/ LoadList \/ RereadMap \/ RestartDevicePlugin \/ Uncordon \/ Report
    BY <2>1 DEF Boot, Recreate, CreateNodeConfig, DescribeNodeConfig, Refuse, BeginPass, RefuseSpec,
                MarkInProgress, Drain, VrbApplySpec, AllConfigured, LoadList, RereadMap,
                RestartDevicePlugin, Uncordon, Report
  <2>2. CASE AddKey
    BY <1>0, <2>2, AddShape
  <2>3. CASE \E c \in Installed : UpdateConfigMap(c)
    BY <1>0, <2>3, WriteShape
  <2>4. CASE \E c \in Installed : ReportListed(c) \/ ReportUnlisted(c)
    BY <2>4, ReportFrame
  <2>5. CASE \E c \in Installed : ConfigureCard(c) \/ MatchResource(c)
    BY <2>5 DEF ConfigureCard, MatchResource
  <2>. QED BY <1>2, <2>1, <2>2, <2>3, <2>4, <2>5 DEF Progress, CardStep
<1>3. CASE Failure
  <2>1. CASE \E c \in Installed : DeviceIDUnread(c)
    BY <2>1, UnreadFrame
  <2>2. CASE ~\E c \in Installed : DeviceIDUnread(c)
    BY <1>3, <2>2
       DEF Failure, StatusUpdateFails, CardFails, VFsUnread, CallFails, ConfigMapFails, ReportNameFails
  <2>. QED BY <2>1, <2>2
<1>4. ASSUME NEW w \in Stray, LoseLease(w) \/ LeftBehind(w) PROVE cm'.other = cm.other
  BY <1>0, <1>4, LoseLeaseShape, LeftBehindKinds, StrayCallsShape, StrayCardShape, StrayMapShape,
     StrayReportFailsShape, StrayReportShape DEF IInv
<1>5. CASE Environment
  <2>1. CASE DeleteNodeConfig \/ \E s \in Propagated : SetSpec(s)
    BY <2>1, NewObjectFrame
  <2>2. CASE Crash \/ DeployConfigMap \/ OtherNodeLists \/ \E c \in Installed : ResetVFs(c)
    BY <2>2 DEF Crash, DeployConfigMap, OtherNodeLists, ResetVFs
  <2>. QED BY <1>5, <2>1, <2>2 DEF Environment
<1>. QED BY <1>1, <1>2, <1>3, <1>4, <1>5 DEF Next

(* updateConfigMap and the writing of this node's key, by a pass or by a worker *)
(* left behind, never undo what the daemon of another node wrote after the map  *)
(* was read.                                                                    *)
THEOREM OthersKept == Spec => OtherNodesKept
<1>1. ASSUME IInv, [Next]_vars
      PROVE  [(\/ pc \in {"addkey", "write"} /\ pc' # pc
               \/ \E w \in Stray : strays[w].at \in {"addkey", "write"} /\ strays'[w] # strays[w])
              => cm'.other = cm.other]_vars
  BY <1>1, OthersAlone
<1>. QED BY <1>1, Invariant, PTL DEF Spec, OtherNodesKept
=============================================================================
