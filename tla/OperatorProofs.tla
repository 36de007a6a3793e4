--------------------------- MODULE OperatorProofs ---------------------------
(***************************************************************************)
(* Proofs about Operator: what a pod that serves has deployed, what its    *)
(* webhook admits, and what it and the labelers leave alone, for any       *)
(* releases, assets, objects and nodes.                                    *)
(*                                                                         *)
(* The operator's pods with their objects and the nodes with their labels  *)
(* share no variable, so there are two inductive invariants.  The one of   *)
(* the pods says of each how far it has come (Fine), as long as nobody     *)
(* else has changed an object, and what it has in hand (Fresh).            *)
(***************************************************************************)
EXTENDS Operator, FiniteSetTheorems, TLAPS

-----------------------------------------------------------------------------
(* Types *)

Steps == {"off", "files", "load", "objects", "wait", "replicas", "serving"}

PodStates ==
  [release : Release \cup {NotThere}, step : Steps, asset : Asset, left : SUBSET Object,
   loaded : Seq(UNION {Content(a) : a \in Asset}), item : Asset \cup Object \cup {NotThere},
   seen : OuterMap \cup InnerObject \cup {NotThere}, fresh : BOOLEAN, alone : BOOLEAN]

(* What a pod holds, step by step. *)
PodOK(s) ==
  /\ s.step # "off" => s.release \in Release
  /\ s.step \notin {"files", "objects"} => s.item = NotThere
  /\ s.step = "files" => s.item \in {s.asset, NotThere}
  /\ s.step = "objects" =>
       s.left # {} /\ s.left \subseteq Held(s.asset) /\ s.item \in s.left \cup {NotThere}
  /\ s.step = "load" => Len(s.loaded) = s.asset - 1
  /\ s.step = "wait" => s.left = {}
  /\ s.step = "files" => s.loaded = <<>>
  /\ s.step \in {"objects", "wait"} => Len(s.loaded) = Cardinality(Asset)
  /\ \A k \in 1..Len(s.loaded) : s.loaded[k] \in Content(k)

PodTypes ==
  /\ release \in [now : Release, replicas : 1..2]
  /\ pod \in [Pod -> PodStates]
  /\ \A p \in Pod : PodOK(pod[p])
  /\ outer \in [Asset -> OuterMap \cup {NotThere}]
  /\ \A a \in Asset : outer[a] # NotThere => outer[a].data \in Content(a)
  /\ inner \in [Object -> InnerObject \cup {NotThere}]
  /\ rollout \in [Awaited -> {"ready", "unseen", "unready"}]

-----------------------------------------------------------------------------
(* The inductive invariant of the pods *)

(* What is stored under a name, if o and i are what is stored. *)
At(x, o, i) == IF IsOuter(x) THEN o[x] ELSE i[x]

(* The same but for the lists of the nodes. *)
Alike(x, y) ==
  /\ x = NotThere <=> y = NotThere
  /\ x # NotThere => x.data = y.data /\ x.pinned = y.pinned

OuterDone(r, a, o) == o[a] # NotThere /\ (o[a].pinned \/ o[a].data = Shipped[r][a])

InnerDone(x, o, i) ==
  /\ i[x] # NotThere
  /\ \/ x \in ConfigMap /\ i[x].pinned
     \/ i[x].data = o[AssetOf[x]].data[x]

(* How far a pod that is alone has come. *)
Fine(s, o, i) ==
  s.alone =>
    /\ s.step = "files" => \A a \in Asset : a < s.asset => OuterDone(s.release, a, o)
    /\ s.step \in {"load", "objects", "wait", "replicas", "serving"} =>
         \A a \in Asset : OuterDone(s.release, a, o)
    /\ s.step \in {"load", "objects", "wait"} =>
         \A k \in 1..Len(s.loaded) : s.loaded[k] = o[k].data
    /\ s.step \in {"objects", "wait"} =>
         \A x \in Object :
           AssetOf[x] < s.asset \/ (AssetOf[x] = s.asset /\ x \notin s.left) => InnerDone(x, o, i)
    /\ s.step \in {"replicas", "serving"} => \A x \in Object : InnerDone(x, o, i)
    /\ s.item # NotThere => Alike(s.seen, At(s.item, o, i))

(* What is fresh is as it was read. *)
InHand(s, o, i) == s.item # NotThere /\ s.fresh => s.seen = At(s.item, o, i)

PodInv ==
  /\ PodTypes
  /\ \A p \in Pod : Fine(pod[p], outer, inner)
  /\ \A p \in Pod : InHand(pod[p], outer, inner)

-----------------------------------------------------------------------------
(* The inductive invariant of the nodes *)

Looks == [labels : SUBSET {Present, OtherLabel}, fresh : BOOLEAN]

(* A labeler's labels are the node's until somebody changes those; a stored *)
(* configuration has been validated.                                        *)
NodeInv ==
  /\ label \in [Node -> SUBSET {Present, OtherLabel}]
  /\ labeler \in [Node -> Looks \cup {NotThere}]
  /\ spent \in [Fault -> Nat]
  /\ \A n \in Node : labeler[n] # NotThere /\ labeler[n].fresh => labeler[n].labels = label[n]
  /\ stored # NotThere => stored \in Submissions /\ Validate(stored)

-----------------------------------------------------------------------------
(* Assets, records *)

(* The assets are numbered, and their numbers are no objects. *)
LEMMA AssetNumbers ==
  /\ Cardinality(Asset) \in Nat /\ Cardinality(Asset) >= 1
  /\ Asset = 1..Cardinality(Asset) /\ 1 \in Asset
  /\ \A a \in Asset : ~Last(a) => a + 1 \in Asset
  /\ \A a \in Asset : IsOuter(a) /\ a \notin Secret
  /\ \A o \in Object : ~IsOuter(o) /\ AssetOf[o] \in Asset /\ o \in Held(AssetOf[o])
  /\ \A a \in Asset : Held(a) \subseteq Object /\ Held(a) # {}
<1>1. Cardinality(Asset) \in Nat
  BY AssetAssumption, FS_CardinalityType
<1>2. Asset = 1..Cardinality(Asset) /\ Asset # {}
  BY AssetAssumption
<1>3. Cardinality(Asset) >= 1 /\ 1 \in Asset
  BY <1>1, <1>2
<1>4. \A a \in Asset : ~Last(a) => a + 1 \in Asset
  BY <1>1, <1>2 DEF Last
<1>. QED BY <1>1, <1>2, <1>3, <1>4, AssetAssumption, NameAssumption DEF IsOuter, Held

(* Everything a pod keeps. *)
PodGood(s, o, i) == s \in PodStates /\ PodOK(s) /\ Fine(s, o, i) /\ InHand(s, o, i)

(* A container that starts has nothing, and has done nothing. *)
LEMMA StartGood ==
  ASSUME NEW o, NEW i
  PROVE  /\ PodGood(Off, o, i)
         /\ \A r \in Release : PodGood(Started(r), o, i)
<1>1. 1 \in Asset /\ \A a \in Asset : a \in Nat /\ ~(a < 1)
  BY AssetNumbers
<1>2. Off \in PodStates
  BY <1>1 DEF Off, PodStates, Steps
<1>3. PodGood(Off, o, i)
  <2>1. Off.step = "off" /\ Off.item = NotThere /\ Len(Off.loaded) = 0
    BY DEF Off
  <2>. QED BY <1>2, <2>1 DEF PodGood, PodOK, Fine, InHand
<1>4. ASSUME NEW r \in Release PROVE PodGood(Started(r), o, i)
  <2>1. /\ Started(r) \in PodStates /\ Started(r).step = "files" /\ Started(r).item = NotThere
        /\ Started(r).asset = 1 /\ Started(r).loaded = <<>> /\ Started(r).release = r
    BY <1>2 DEF Started, Off, PodStates, Steps
  <2>2. Len(<<>>) = 0
    OBVIOUS
  <2>. HIDE DEF Started
  <2>. QED BY <1>1, <2>1, <2>2 DEF PodGood, PodOK, Fine, InHand
<1>. QED BY <1>3, <1>4

(* A pod moves on, and writes nothing. *)
LEMMA OwnStep ==
  ASSUME PodInv, NEW p \in Pod, NEW s, PodGood(s, outer, inner),
         pod' = [pod EXCEPT ![p] = s], UNCHANGED <<outer, inner, rollout>>,
         release' \in [now : Release, replicas : 1..2]
  PROVE  PodInv'
<1>1. pod' \in [Pod -> PodStates] /\ \A q \in Pod : pod'[q] = s \/ pod'[q] = pod[q]
  BY DEF PodInv, PodTypes, PodGood
<1>2. \A q \in Pod : PodOK(pod'[q]) /\ Fine(pod'[q], outer, inner) /\ InHand(pod'[q], outer, inner)
  BY <1>1 DEF PodInv, PodTypes, PodGood
<1>. QED BY <1>1, <1>2 DEF PodInv, PodTypes

(* What is known of a pod. *)
LEMMA PodIs ==
  ASSUME PodInv, NEW p \in Pod
  PROVE  PodGood(pod[p], outer, inner)
BY DEF PodInv, PodTypes, PodGood

(* The container starts again. *)
LEMMA ExitStep ==
  ASSUME PodInv, NEW p \in Pod, pod[p].step # "off", Exit(p)
  PROVE  PodInv'
<1>1. pod[p].release \in Release /\ release \in [now : Release, replicas : 1..2]
  BY DEF PodInv, PodTypes, PodOK
<1>2. PodGood(Started(pod[p].release), outer, inner)
  BY <1>1, StartGood
<1>3. pod' = [pod EXCEPT ![p] = Started(pod[p].release)] /\ UNCHANGED <<release, outer, inner, rollout>>
  BY DEF Exit, Goto
<1>. HIDE DEF Started
<1>. QED BY <1>1, <1>2, <1>3, OwnStep

(* What Get answers is what is stored. *)
LEMMA GetGood ==
  ASSUME PodInv, NEW p \in Pod, NEW x \in Asset \cup Object,
         \/ pod[p].step = "files" /\ x = pod[p].asset
         \/ pod[p].step = "objects" /\ x \in pod[p].left
  PROVE  PodGood([pod[p] EXCEPT !.item = x, !.seen = Current(x), !.fresh = TRUE], outer, inner)
<1>. DEFINE s == pod[p]
            y == Current(x)
            t == [s EXCEPT !.item = x, !.seen = y, !.fresh = TRUE]
<1>1. s \in PodStates /\ PodOK(s) /\ Fine(s, outer, inner)
  BY PodIs DEF PodGood
<1>2. y \in OuterMap \cup InnerObject \cup {NotThere} /\ y = At(x, outer, inner)
  BY AssetNumbers DEF PodInv, PodTypes, Current, At
<1>3. s.step \in {"files", "objects"}
  OBVIOUS
<1>. HIDE DEF y, s
<1>4. /\ t \in PodStates /\ t.release = s.release /\ t.step = s.step /\ t.asset = s.asset /\ t.left = s.left
      /\ t.loaded = s.loaded /\ t.item = x /\ t.seen = y /\ t.fresh = TRUE /\ t.alone = s.alone
  BY <1>1, <1>2 DEF PodStates
<1>. HIDE DEF t
<1>5. PodOK(t)
  BY <1>1, <1>3, <1>4 DEF PodOK, s
<1>6. Fine(t, outer, inner)
  BY <1>1, <1>2, <1>4 DEF Fine, Alike
<1>7. InHand(t, outer, inner)
  BY <1>2, <1>4 DEF InHand
<1>. QED BY <1>4, <1>5, <1>6, <1>7 DEF PodGood, t, s, y

(* Reading a file, an object. *)
LEMMA GetStep ==
  ASSUME PodInv, NEW p \in Pod, GetOuter(p) \/ GetObject(p)
  PROVE  PodInv'
<1>1. PICK x \in Asset \cup Object :
        /\ \/ pod[p].step = "files" /\ x = pod[p].asset
           \/ pod[p].step = "objects" /\ x \in pod[p].left
        /\ Get(p, x)
  <2>1. pod[p] \in PodStates
    BY PodIs DEF PodGood
  <2>. QED BY <2>1 DEF GetOuter, GetObject, PodStates
<1>. DEFINE t == [pod[p] EXCEPT !.item = x, !.seen = Current(x), !.fresh = TRUE]
<1>2. PodGood(t, outer, inner)
  BY <1>1, GetGood
<1>3. pod' = [pod EXCEPT ![p] = t] /\ UNCHANGED <<release, outer, inner, rollout>>
  BY <1>1 DEF Get, Goto, GetOuter, GetObject
<1>4. release \in [now : Release, replicas : 1..2]
  BY DEF PodInv, PodTypes
<1>. HIDE DEF t
<1>. QED BY <1>2, <1>3, <1>4, OwnStep

(* An asset is read back from its ConfigMap. *)
LEMMA LoadStep ==
  ASSUME PodInv, NEW p \in Pod, LoadFromConfigMap(p)
  PROVE  PodInv'
<1>. DEFINE s == pod[p]
            a == s.asset
            d == outer[a].data
            t == [s EXCEPT !.loaded = Append(@, d), !.asset = IF Last(a) THEN 1 ELSE a + 1,
                           !.step = IF Last(a) THEN "objects" ELSE @,
                           !.left = IF Last(a) THEN Held(1) ELSE {}]
<1>0. s \in PodStates /\ PodOK(s) /\ Fine(s, outer, inner) /\ s.step = "load" /\ a \in Asset
  BY PodIs DEF PodGood, PodStates, LoadFromConfigMap
<1>1. CASE outer[a] = NotThere
  BY <1>0, <1>1, ExitStep DEF LoadFromConfigMap
<1>2. CASE outer[a] # NotThere
  <2>1. d \in Content(a)
    BY <1>0, <1>2 DEF PodInv, PodTypes
  <2>2. pod' = [pod EXCEPT ![p] = t] /\ UNCHANGED <<release, outer, inner, rollout>>
    BY <1>2 DEF LoadFromConfigMap, Goto, Loaded
  <2>. DEFINE C == UNION {Content(b) : b \in Asset}
              l == Append(s.loaded, d)
              b == IF Last(a) THEN 1 ELSE a + 1
              step == IF Last(a) THEN "objects" ELSE s.step
              left == IF Last(a) THEN Held(1) ELSE {}
  <2>3. s.loaded \in Seq(C) /\ d \in C /\ Len(s.loaded) = a - 1 /\ a \in Nat
    BY <1>0, <2>1, AssetNumbers DEF PodStates, PodOK
  <2>. HIDE DEF C, d
  <2>4. /\ l \in Seq(C) /\ Len(l) = a /\ l[a] = d
        /\ \A k \in 1..(a - 1) : l[k] = s.loaded[k]
    BY <2>3
  <2>5. b \in Asset /\ step \in Steps /\ left \in SUBSET Object
    BY <1>0, AssetNumbers DEF Steps
  <2>6. t = [s EXCEPT !.loaded = l, !.asset = b, !.step = step, !.left = left]
    OBVIOUS
  <2>. HIDE DEF l, b, step, left, t, s
  <2>7. /\ t \in PodStates /\ t.release = s.release /\ t.step = step /\ t.asset = b /\ t.left = left
        /\ t.loaded = l /\ t.item = s.item /\ t.seen = s.seen /\ t.fresh = s.fresh /\ t.alone = s.alone
    BY <1>0, <2>4, <2>5, <2>6 DEF PodStates, C
  <2>8. s.item = NotThere /\ s.release \in Release /\ \A k \in 1..(a - 1) : l[k] \in Content(k)
    BY <1>0, <2>3, <2>4 DEF PodOK
  <2>9. \A k \in 1..a : l[k] \in Content(k)
    <3>1. \A k \in 1..a : k \in 1..(a - 1) \/ k = a
      BY <2>3
    <3>. QED BY <2>1, <2>4, <2>8, <3>1
  <2>10. PodOK(t)
    <3>1. CASE Last(a)
      <4>1. step = "objects" /\ left = Held(1) /\ b = 1 /\ a = Cardinality(Asset)
        BY <3>1 DEF step, left, b, Last
      <4>. QED BY <2>4, <2>7, <2>8, <2>9, <4>1, AssetNumbers DEF PodOK
    <3>2. CASE ~Last(a)
      <4>1. step = "load" /\ b = a + 1
        BY <1>0, <3>2 DEF step, b
      <4>. QED BY <2>3, <2>4, <2>7, <2>8, <2>9, <4>1 DEF PodOK
    <3>. QED BY <3>1, <3>2
  <2>11. ASSUME s.alone
         PROVE  /\ \A x \in Asset : OuterDone(s.release, x, outer)
                /\ \A k \in 1..a : l[k] = outer[k].data
    <3>1. \A k \in 1..(a - 1) : s.loaded[k] = outer[k].data
      BY <1>0, <2>3, <2>11 DEF Fine
    <3>2. \A k \in 1..a : k \in 1..(a - 1) \/ k = a
      BY <2>3
    <3>. QED BY <1>0, <2>4, <2>11, <3>1, <3>2 DEF Fine, d
  <2>12. step \in {"load", "objects"} /\ (step = "objects" => left = Held(1) /\ b = 1)
    BY <1>0 DEF step, left, b
  <2>13. \A x \in Object : ~(AssetOf[x] < 1) /\ (AssetOf[x] = 1 => x \in Held(1))
    BY AssetNumbers
  <2>14. Fine(t, outer, inner)
    BY <2>4, <2>7, <2>8, <2>11, <2>12, <2>13 DEF Fine
  <2>15. InHand(t, outer, inner)
    BY <2>7, <2>8 DEF InHand
  <2>16. PodGood(t, outer, inner) /\ release \in [now : Release, replicas : 1..2]
    BY <2>7, <2>10, <2>14, <2>15 DEF PodGood, PodInv, PodTypes
  <2>. QED BY <2>2, <2>16, OwnStep
<1>. QED BY <1>1, <1>2

(* An asset is awaited, and the next one begun, if there is one. *)
LEMMA WaitStep ==
  ASSUME PodInv, NEW p \in Pod, WaitUntilReady(p)
  PROVE  PodInv'
<1>. DEFINE s == pod[p]
            a == s.asset
<1>0. s \in PodStates /\ PodOK(s) /\ Fine(s, outer, inner) /\ InHand(s, outer, inner)
      /\ s.step = "wait" /\ a \in Asset /\ a \in Nat /\ s.item = NotThere /\ s.left = {}
      /\ s.release \in Release /\ release \in [now : Release, replicas : 1..2]
  <2>1. s \in PodStates /\ PodOK(s) /\ Fine(s, outer, inner) /\ InHand(s, outer, inner)
    BY PodIs DEF PodGood
  <2>2. s.step = "wait" /\ release \in [now : Release, replicas : 1..2]
    BY DEF WaitUntilReady, PodInv, PodTypes
  <2>3. a \in Asset
    BY <2>1 DEF PodStates
  <2>4. a \in Nat
    BY <2>3, AssetNumbers
  <2>. HIDE DEF s
  <2>. QED BY <2>1, <2>2, <2>3, <2>4 DEF PodOK
<1>1. CASE \E o \in Held(a) \cap Awaited : inner[o] = NotThere
  BY <1>0, <1>1, ExitStep DEF WaitUntilReady
<1>2. CASE ~\E o \in Held(a) \cap Awaited : inner[o] = NotThere
  <2>. DEFINE none == <<>>
              last == [s EXCEPT !.step = "replicas", !.asset = 1, !.loaded = none]
              next == [s EXCEPT !.asset = a + 1, !.left = Held(a + 1), !.step = "objects"]
  <2>1. /\ pod' = [pod EXCEPT ![p] = IF Last(a) THEN last ELSE next]
        /\ UNCHANGED <<release, outer, inner, rollout>>
    BY <1>2 DEF WaitUntilReady, Goto
  <2>2. s.alone =>
          /\ \A x \in Asset : OuterDone(s.release, x, outer)
          /\ \A x \in Object : AssetOf[x] <= a => InnerDone(x, outer, inner)
    <3>1. \A x \in Object : AssetOf[x] \in Nat
      BY AssetNumbers
    <3>. QED BY <1>0, <3>1 DEF Fine
  <2>. HIDE DEF s, last, next
  <2>3. CASE Last(a)
    <3>1. /\ last \in PodStates /\ last.release = s.release /\ last.step = "replicas"
          /\ last.item = s.item /\ last.alone = s.alone /\ last.loaded = <<>>
      <4>1. none \in Seq(UNION {Content(b) : b \in Asset})
        OBVIOUS
      <4>. HIDE DEF none
      <4>2. /\ last \in PodStates /\ last.release = s.release /\ last.step = "replicas"
            /\ last.item = s.item /\ last.alone = s.alone /\ last.loaded = none
        BY <1>0, <4>1, AssetNumbers DEF last, PodStates, Steps
      <4>. QED BY <4>2 DEF none
    <3>2. \A x \in Object : AssetOf[x] <= a
      BY <2>3, AssetNumbers DEF Last
    <3>3. PodOK(last)
      BY <1>0, <3>1 DEF PodOK
    <3>4. Fine(last, outer, inner)
      BY <1>0, <2>2, <3>1, <3>2 DEF Fine
    <3>5. PodGood(last, outer, inner)
      BY <1>0, <3>1, <3>3, <3>4 DEF PodGood, InHand
    <3>. QED BY <1>0, <2>1, <2>3, <3>5, OwnStep
  <2>4. CASE ~Last(a)
    <3>0. a + 1 \in Asset /\ Held(a + 1) \in SUBSET Object /\ Held(a + 1) # {}
      BY <1>0, <2>4, AssetNumbers
    <3>1. /\ next \in PodStates /\ next.release = s.release /\ next.step = "objects" /\ next.asset = a + 1
          /\ next.left = Held(a + 1) /\ next.item = s.item /\ next.alone = s.alone
          /\ next.loaded = s.loaded
      BY <1>0, <3>0 DEF next, PodStates, Steps
    <3>2. \A x \in Object : AssetOf[x] < a + 1 \/ (AssetOf[x] = a + 1 /\ x \notin Held(a + 1)) => AssetOf[x] <= a
      BY <1>0, AssetNumbers
    <3>3. PodOK(next)
      BY <1>0, <3>0, <3>1 DEF PodOK
    <3>4. s.alone => \A k \in 1..Len(s.loaded) : s.loaded[k] = outer[k].data
      BY <1>0 DEF Fine
    <3>5. Fine(next, outer, inner)
      BY <1>0, <2>2, <3>1, <3>2, <3>4 DEF Fine
    <3>6. PodGood(next, outer, inner)
      BY <1>0, <3>1, <3>3, <3>5 DEF PodGood, InHand
    <3>. QED BY <1>0, <2>1, <2>4, <3>6, OwnStep
  <2>. QED BY <2>3, <2>4
<1>. QED BY <1>1, <1>2

(* Two replicas are asked for, or not. *)
LEMMA ReplicasStep ==
  ASSUME PodInv, NEW p \in Pod, AskForReplicas(p)
  PROVE  PodInv'
<1>. DEFINE s == pod[p]
            t == [s EXCEPT !.step = "serving"]
<1>0. s \in PodStates /\ PodOK(s) /\ Fine(s, outer, inner) /\ s.step = "replicas"
  BY PodIs DEF PodGood, AskForReplicas
<1>1. pod' = [pod EXCEPT ![p] = t] /\ UNCHANGED <<outer, inner, rollout>>
  BY DEF AskForReplicas, Goto
<1>2. release' \in [now : Release, replicas : 1..2]
  BY DEF AskForReplicas, PodInv, PodTypes
<1>. HIDE DEF s, t
<1>3. /\ t \in PodStates /\ t.release = s.release /\ t.step = "serving" /\ t.item = s.item
      /\ t.alone = s.alone /\ t.loaded = s.loaded
  BY <1>0 DEF t, PodStates, Steps
<1>4. PodOK(t)
  BY <1>0, <1>3 DEF PodOK
<1>5. Fine(t, outer, inner)
  BY <1>0, <1>3 DEF Fine, PodOK
<1>6. PodGood(t, outer, inner)
  BY <1>0, <1>3, <1>4, <1>5 DEF PodGood, InHand, PodOK
<1>. QED BY <1>1, <1>2, <1>6, OwnStep

(* Pods start, stop, and start again. *)
LEMMA ReplicaStep ==
  ASSUME PodInv, NEW p \in Pod, StartPod(p) \/ StopPod(p) \/ CallFails(p) \/ Crash(p)
  PROVE  PodInv'
<1>0. release \in [now : Release, replicas : 1..2] /\ release.now \in Release
  BY DEF PodInv, PodTypes
<1>1. CASE StartPod(p)
  <2>1. PodGood(Started(release.now), outer, inner)
    BY <1>0, StartGood
  <2>2. pod' = [pod EXCEPT ![p] = Started(release.now)] /\ UNCHANGED <<release, outer, inner, rollout>>
    BY <1>1 DEF StartPod, Goto
  <2>. HIDE DEF Started
  <2>. QED BY <1>0, <2>1, <2>2, OwnStep
<1>2. CASE StopPod(p)
  <2>1. PodGood(Off, outer, inner)
    BY StartGood
  <2>2. pod' = [pod EXCEPT ![p] = Off] /\ UNCHANGED <<release, outer, inner, rollout>>
    BY <1>2 DEF StopPod, Goto
  <2>. HIDE DEF Off
  <2>. QED BY <1>0, <2>1, <2>2, OwnStep
<1>3. CASE CallFails(p) \/ Crash(p)
  BY <1>3, ExitStep DEF CallFails, Crash, Running
<1>. QED BY <1>1, <1>2, <1>3

-----------------------------------------------------------------------------
(* Writing an object *)

(* Only what is stored under one name changes. *)
OnlyAt(x, o, i, o2, i2) == \A y \in (Asset \cup Object) \ {x} : At(y, o2, i2) = At(y, o, i)

(* A pod whose object may be old, and that is alone no more. *)
Disturbed(s, x) == [s EXCEPT !.fresh = @ /\ s.item # x, !.alone = @ /\ s.step = "off"]

LEMMA DisturbedGood ==
  ASSUME NEW s, NEW o, NEW i, PodGood(s, o, i), NEW x, NEW o2, NEW i2, OnlyAt(x, o, i, o2, i2)
  PROVE  PodGood(Disturbed(s, x), o2, i2)
<1>. DEFINE f == s.fresh /\ s.item # x
            b == s.alone /\ s.step = "off"
            t == Disturbed(s, x)
<1>0. s \in PodStates /\ PodOK(s) /\ InHand(s, o, i) /\ s.item \in Asset \cup Object \cup {NotThere}
  BY DEF PodGood, PodStates
<1>1. f \in BOOLEAN /\ b \in BOOLEAN /\ t = [s EXCEPT !.fresh = f, !.alone = b]
  BY DEF Disturbed
<1>2. (f => s.fresh /\ s.item # x) /\ (b => s.step = "off")
  OBVIOUS
<1>. HIDE DEF f, b, t
<1>3. /\ t \in PodStates /\ t.release = s.release /\ t.step = s.step /\ t.asset = s.asset /\ t.left = s.left
      /\ t.loaded = s.loaded /\ t.item = s.item /\ t.seen = s.seen /\ t.fresh = f /\ t.alone = b
  BY <1>0, <1>1 DEF PodStates
<1>4. PodOK(t)
  BY <1>0, <1>3 DEF PodOK
<1>5. Fine(t, o2, i2)
  BY <1>0, <1>2, <1>3 DEF Fine, PodOK
<1>6. InHand(t, o2, i2)
  BY <1>0, <1>2, <1>3 DEF InHand, OnlyAt
<1>. QED BY <1>3, <1>4, <1>5, <1>6 DEF PodGood, t

(* What holds of all pods, and of what is stored, holds of the system. *)
LEMMA Together ==
  ASSUME PodInv, \A q \in Pod : PodGood(pod'[q], outer', inner'),
         pod' \in [Pod -> PodStates], release' \in [now : Release, replicas : 1..2],
         outer' \in [Asset -> OuterMap \cup {NotThere}],
         \A a \in Asset : outer'[a] # NotThere => outer'[a].data \in Content(a),
         inner' \in [Object -> InnerObject \cup {NotThere}],
         rollout' \in [Awaited -> {"ready", "unseen", "unready"}]
  PROVE  PodInv'
BY DEF PodInv, PodTypes, PodGood

(* Who writes keeps what it has; the others are disturbed. *)
LEMMA TouchedShape ==
  ASSUME NEW w, NEW x, NEW pods \in [Pod -> PodStates]
  PROVE  /\ Touched(w, x, pods) \in [Pod -> PodStates]
         /\ \A q \in Pod : Touched(w, x, pods)[q] = IF q = w THEN pods[q] ELSE Disturbed(pods[q], x)
<1>1. ASSUME NEW q \in Pod
      PROVE  /\ Touched(w, x, pods)[q] \in PodStates
             /\ Touched(w, x, pods)[q] = IF q = w THEN pods[q] ELSE Disturbed(pods[q], x)
  <2>. DEFINE t == pods[q]
              f == t.fresh /\ (q = w \/ t.item # x)
              b == t.alone /\ (q = w \/ t.step = "off")
  <2>1. Touched(w, x, pods)[q] = [t EXCEPT !.fresh = f, !.alone = b]
    BY DEF Touched
  <2>2. t \in PodStates /\ t.fresh \in BOOLEAN /\ t.alone \in BOOLEAN
    BY DEF PodStates
  <2>3. f \in BOOLEAN /\ b \in BOOLEAN
    OBVIOUS
  <2>4. CASE q = w
    <3>1. f = t.fresh /\ b = t.alone
      BY <2>2, <2>4
    <3>. HIDE DEF f, b, t
    <3>2. [t EXCEPT !.fresh = f, !.alone = b] = t
      BY <2>2, <3>1 DEF PodStates
    <3>. QED BY <2>1, <2>2, <2>4, <3>2 DEF t
  <2>5. CASE q # w
    <3>1. Disturbed(t, x) = [t EXCEPT !.fresh = t.fresh /\ t.item # x, !.alone = t.alone /\ t.step = "off"]
      BY DEF Disturbed
    <3>2. f = (t.fresh /\ t.item # x) /\ b = (t.alone /\ t.step = "off")
      BY <2>5
    <3>3. [t EXCEPT !.fresh = f, !.alone = b] = Disturbed(t, x)
      BY <3>1, <3>2
    <3>. HIDE DEF f, b
    <3>4. [t EXCEPT !.fresh = f, !.alone = b] \in PodStates
      BY <2>2, <2>3 DEF PodStates
    <3>. QED BY <2>1, <2>5, <3>3, <3>4
  <2>. QED BY <2>4, <2>5
<1>2. Touched(w, x, pods) = [q \in Pod |-> Touched(w, x, pods)[q]]
  BY DEF Touched
<1>. QED BY <1>1, <1>2

(* One object is written, by a pod that then has none in hand. *)
LEMMA StoreStep ==
  ASSUME PodInv, NEW p \in Pod, NEW s, PodGood(s, outer', inner'), s.item = NotThere,
         NEW x \in Asset \cup Object, OnlyAt(x, outer, inner, outer', inner'),
         pod' = Touched(p, x, [pod EXCEPT ![p] = s]),
         release' \in [now : Release, replicas : 1..2],
         outer' \in [Asset -> OuterMap \cup {NotThere}],
         \A a \in Asset : outer'[a] # NotThere => outer'[a].data \in Content(a),
         inner' \in [Object -> InnerObject \cup {NotThere}],
         rollout' \in [Awaited -> {"ready", "unseen", "unready"}]
  PROVE  PodInv'
<1>1. pod \in [Pod -> PodStates] /\ s \in PodStates
  BY DEF PodInv, PodTypes, PodGood
<1>2. [pod EXCEPT ![p] = s] \in [Pod -> PodStates]
  BY <1>1
<1>3. pod'[p] = s /\ \A q \in Pod \ {p} : pod'[q] = Disturbed(pod[q], x)
  <2>. DEFINE pods == [pod EXCEPT ![p] = s]
  <2>1. pods \in [Pod -> PodStates] /\ pods[p] = s /\ \A q \in Pod \ {p} : pods[q] = pod[q]
    BY <1>1
  <2>2. pod' = Touched(p, x, pods)
    OBVIOUS
  <2>. HIDE DEF pods
  <2>3. \A q \in Pod : pod'[q] = IF q = p THEN pods[q] ELSE Disturbed(pods[q], x)
    BY <2>1, <2>2, TouchedShape
  <2>. QED BY <2>1, <2>3
<1>4. ASSUME NEW q \in Pod PROVE PodGood(pod'[q], outer', inner')
  <2>1. CASE q = p
    BY <1>3, <2>1
  <2>2. CASE q # p
    <3>1. PodGood(Disturbed(pod[q], x), outer', inner')
      BY PodIs, DisturbedGood
    <3>. QED BY <1>3, <2>2, <3>1
  <2>. QED BY <2>1, <2>2
<1>5. pod' \in [Pod -> PodStates]
  BY <1>2, TouchedShape
<1>. QED BY <1>4, <1>5, Together

(* The same, by somebody who is no pod. *)
LEMMA OthersStep ==
  ASSUME PodInv, NEW x \in Asset \cup Object, OnlyAt(x, outer, inner, outer', inner'),
         pod' = Touched(NotThere, x, pod),
         release' \in [now : Release, replicas : 1..2],
         outer' \in [Asset -> OuterMap \cup {NotThere}],
         \A a \in Asset : outer'[a] # NotThere => outer'[a].data \in Content(a),
         inner' \in [Object -> InnerObject \cup {NotThere}],
         rollout' \in [Awaited -> {"ready", "unseen", "unready"}]
  PROVE  PodInv'
<1>1. pod \in [Pod -> PodStates] /\ \A q \in Pod : q # NotThere
  BY NameAssumption DEF PodInv, PodTypes
<1>2. \A q \in Pod : pod'[q] = Disturbed(pod[q], x)
  BY <1>1, TouchedShape
<1>3. ASSUME NEW q \in Pod PROVE PodGood(pod'[q], outer', inner')
  <2>1. PodGood(Disturbed(pod[q], x), outer', inner')
    BY PodIs, DisturbedGood
  <2>. QED BY <1>2, <2>1
<1>4. pod' \in [Pod -> PodStates]
  BY <1>1, TouchedShape
<1>. QED BY <1>3, <1>4, Together

(* createOrUpdateObject leaves the object, ends the process, or writes it. *)
LEMMA WriteShape ==
  ASSUME NEW p \in Pod, NEW after, Write(p, after)
  PROVE  LET s == pod[p]
             x == s.item
             new == Fresh(p, x, Wanted(p, x))
         IN \/ /\ pod' = [pod EXCEPT ![p] = after] /\ UNCHANGED <<release, outer, inner, rollout>>
               /\ s.seen # NotThere /\ IsConfigMap(x)
               /\ s.seen.pinned \/ s.seen.data = Wanted(p, x)
            \/ Exit(p)
            \/ /\ Store(p, x, new)
               /\ \/ Current(x) = new /\ pod' = [pod EXCEPT ![p] = after]
                  \/ Current(x) # new /\ pod' = Touched(p, x, [pod EXCEPT ![p] = after])
               /\ IF s.seen = NotThere
                  THEN Current(x) = NotThere
                  ELSE /\ s.fresh
                       /\ IsConfigMap(x) => s.seen.data # Wanted(p, x)
<1>. DEFINE x == pod[p].item
            new == Fresh(p, x, Wanted(p, x))
            left == pod[p].seen # NotThere /\ (Skipped(p) \/ Unchanged(p))
<1>1. CASE left
  <2>1. pod' = [pod EXCEPT ![p] = after] /\ UNCHANGED <<release, outer, inner, rollout>>
    BY <1>1 DEF Write, Goto
  <2>. QED BY <1>1, <2>1 DEF Skipped, Unchanged
<1>2. CASE ~left /\ Refused(p)
  BY <1>2 DEF Write
<1>3. CASE ~left /\ ~Refused(p)
  <2>1. /\ Store(p, x, new)
        /\ pod' = IF Current(x) = new THEN [pod EXCEPT ![p] = after]
                  ELSE Touched(p, x, [pod EXCEPT ![p] = after])
    BY <1>3 DEF Write
  <2>2. IF pod[p].seen = NotThere
        THEN Current(x) = NotThere
        ELSE /\ pod[p].fresh
             /\ IsConfigMap(x) => pod[p].seen.data # Wanted(p, x)
    BY <1>3 DEF Refused, Unchanged
  <2>. QED BY <2>1, <2>2
<1>. QED BY <1>1, <1>2, <1>3

(* A pod with nothing in hand any more. *)
LEMMA IdleShape ==
  ASSUME NEW s \in PodStates
  PROVE  LET t == Idle(s)
         IN /\ t \in PodStates /\ t.release = s.release /\ t.step = s.step /\ t.asset = s.asset
            /\ t.left = s.left /\ t.loaded = s.loaded /\ t.item = NotThere /\ t.alone = s.alone
BY DEF Idle, PodStates

(* With an outer ConfigMap as it should be, the next one is looked at, or all are read. *)
LEMMA AfterOuter ==
  ASSUME NEW s, NEW o, NEW i, PodGood(s, o, i), s.step = "files", NEW o2, NEW i2,
         \A a \in Asset : a # s.asset => o2[a] = o[a],
         s.alone => OuterDone(s.release, s.asset, o2)
  PROVE  PodGood(IF Last(s.asset) THEN [Idle(s) EXCEPT !.step = "load", !.asset = 1]
                 ELSE [Idle(s) EXCEPT !.asset = s.asset + 1], o2, i2)
<1>. DEFINE a == s.asset
            u == Idle(s)
            load == [u EXCEPT !.step = "load", !.asset = 1]
            b == a + 1
            next == [u EXCEPT !.asset = b]
<1>0. /\ s \in PodStates /\ a \in Asset /\ a \in Nat /\ s.release \in Release /\ s.loaded = <<>>
      /\ s.alone => \A x \in Asset : x < a => OuterDone(s.release, x, o)
  BY AssetNumbers DEF PodGood, PodStates, PodOK, Fine
<1>1. /\ u \in PodStates /\ u.release = s.release /\ u.step = "files" /\ u.asset = a
      /\ u.left = s.left /\ u.loaded = s.loaded /\ u.item = NotThere /\ u.alone = s.alone
  BY <1>0, IdleShape
<1>2. s.alone => \A x \in Asset : x <= a => OuterDone(s.release, x, o2)
  <2>1. \A x \in Asset : x <= a => x < a \/ x = a
    BY <1>0, AssetNumbers
  <2>2. \A x \in Asset : x < a => x # a
    BY <1>0, AssetNumbers
  <2>. QED BY <1>0, <2>1, <2>2 DEF OuterDone
<1>3. Len(<<>>) = 0
  OBVIOUS
<1>. HIDE DEF u, load, next, a, b
<1>4. CASE Last(a)
  <2>1. /\ load \in PodStates /\ load.release = s.release /\ load.step = "load" /\ load.asset = 1
        /\ load.loaded = s.loaded /\ load.item = NotThere /\ load.alone = s.alone
    BY <1>1, AssetNumbers DEF load, PodStates, Steps
  <2>2. \A x \in Asset : x <= a
    BY <1>4, AssetNumbers DEF Last
  <2>3. PodOK(load)
    BY <1>0, <1>3, <2>1 DEF PodOK
  <2>4. Fine(load, o2, i2)
    BY <1>0, <1>2, <1>3, <2>1, <2>2 DEF Fine
  <2>5. PodGood(load, o2, i2)
    BY <2>1, <2>3, <2>4 DEF PodGood, InHand
  <2>. QED BY <1>4, <2>5 DEF load, u, a
<1>5. CASE ~Last(a)
  <2>1. b \in Asset
    BY <1>0, <1>5, AssetNumbers DEF b
  <2>2. /\ next \in PodStates /\ next.release = s.release /\ next.step = "files" /\ next.asset = b
        /\ next.loaded = s.loaded /\ next.item = NotThere /\ next.alone = s.alone
    BY <1>1, <2>1 DEF next, PodStates, Steps
  <2>3. \A x \in Asset : x < b => x <= a
    BY <1>0, AssetNumbers DEF b
  <2>4. PodOK(next)
    BY <1>0, <1>3, <2>2 DEF PodOK
  <2>5. Fine(next, o2, i2)
    BY <1>2, <2>2, <2>3 DEF Fine
  <2>6. PodGood(next, o2, i2)
    BY <2>2, <2>4, <2>5 DEF PodGood, InHand
  <2>. QED BY <1>5, <2>6 DEF next, u, a, b
<1>. QED BY <1>4, <1>5 DEF a

(* With an object as it should be, another of its asset is deployed, or the asset awaited. *)
LEMMA AfterObject ==
  ASSUME NEW s, NEW o, NEW i, PodGood(s, o, i), s.step = "objects", s.item # NotThere, NEW i2,
         \A x \in Object : x # s.item => i2[x] = i[x],
         s.alone => InnerDone(s.item, o, i2)
  PROVE  LET rest == s.left \ {s.item}
         IN PodGood([Idle(s) EXCEPT !.left = rest, !.step = IF rest = {} THEN "wait" ELSE @], o, i2)
<1>. DEFINE u == Idle(s)
            rest == s.left \ {s.item}
            step == IF rest = {} THEN "wait" ELSE u.step
            t == [u EXCEPT !.left = rest, !.step = step]
<1>0. /\ s \in PodStates /\ s.release \in Release /\ s.item \in s.left /\ s.left \subseteq Held(s.asset)
      /\ Len(s.loaded) = Cardinality(Asset) /\ \A k \in 1..Len(s.loaded) : s.loaded[k] \in Content(k)
      /\ s.asset \in Asset /\ s.left \subseteq Object
  BY DEF PodGood, PodOK, PodStates
<1>1. /\ u \in PodStates /\ u.release = s.release /\ u.step = "objects" /\ u.asset = s.asset
      /\ u.left = s.left /\ u.loaded = s.loaded /\ u.item = NotThere /\ u.alone = s.alone
  BY <1>0, IdleShape
<1>2. step \in {"objects", "wait"} /\ (step = "objects" => rest # {}) /\ (step = "wait" => rest = {})
      /\ rest \in SUBSET Object /\ rest \subseteq Held(s.asset)
  BY <1>0, <1>1
<1>3. s.alone =>
        /\ \A a \in Asset : OuterDone(s.release, a, o)
        /\ \A k \in 1..Len(s.loaded) : s.loaded[k] = o[k].data
        /\ \A x \in Object :
             AssetOf[x] < s.asset \/ (AssetOf[x] = s.asset /\ x \notin s.left) => InnerDone(x, o, i)
  BY DEF PodGood, Fine
<1>4. s.alone =>
        \A x \in Object :
          AssetOf[x] < s.asset \/ (AssetOf[x] = s.asset /\ x \notin rest) => InnerDone(x, o, i2)
  BY <1>3 DEF InnerDone
<1>. HIDE DEF u, rest, step, t
<1>5. /\ t \in PodStates /\ t.release = s.release /\ t.step = step /\ t.asset = s.asset
      /\ t.left = rest /\ t.loaded = s.loaded /\ t.item = NotThere /\ t.alone = s.alone
  BY <1>1, <1>2 DEF t, PodStates, Steps
<1>6. PodOK(t)
  BY <1>0, <1>2, <1>5 DEF PodOK
<1>7. Fine(t, o, i2)
  BY <1>2, <1>3, <1>4, <1>5 DEF Fine
<1>8. PodGood(t, o, i2)
  BY <1>5, <1>6, <1>7 DEF PodGood, InHand
<1>. QED BY <1>8 DEF t, step, rest, u

(* What is stored has the type of what is stored there. *)
LEMMA StoreTypes ==
  ASSUME PodInv, NEW p, NEW x \in Asset \cup Object, NEW new, Store(p, x, new),
         x \in Asset => new \in OuterMap /\ new.data \in Content(x),
         x \in Object => new \in InnerObject
  PROVE  /\ OnlyAt(x, outer, inner, outer', inner')
         /\ release' \in [now : Release, replicas : 1..2]
         /\ outer' \in [Asset -> OuterMap \cup {NotThere}]
         /\ \A a \in Asset : outer'[a] # NotThere => outer'[a].data \in Content(a)
         /\ inner' \in [Object -> InnerObject \cup {NotThere}]
         /\ rollout' \in [Awaited -> {"ready", "unseen", "unready"}]
         /\ x \in Asset => outer'[x] = new /\ inner' = inner /\ \A a \in Asset : a # x => outer'[a] = outer[a]
         /\ x \in Object => inner'[x] = new /\ outer' = outer /\ \A y \in Object : y # x => inner'[y] = inner[y]
<1>0. /\ outer \in [Asset -> OuterMap \cup {NotThere}] /\ inner \in [Object -> InnerObject \cup {NotThere}]
      /\ rollout \in [Awaited -> {"ready", "unseen", "unready"}]
      /\ release' \in [now : Release, replicas : 1..2]
      /\ \A a \in Asset : outer[a] # NotThere => outer[a].data \in Content(a)
  BY DEF PodInv, PodTypes, Store
<1>1. rollout' \in [Awaited -> {"ready", "unseen", "unready"}]
  BY <1>0 DEF Store
<1>2. CASE x \in Asset
  <2>1. outer' = [outer EXCEPT ![x] = new] /\ inner' = inner /\ x \notin Object
    BY <1>2, AssetNumbers DEF Store
  <2>2. outer'[x] = new /\ \A a \in Asset : a # x => outer'[a] = outer[a]
    BY <1>0, <1>2, <2>1
  <2>3. outer' \in [Asset -> OuterMap \cup {NotThere}]
    BY <1>0, <1>2, <2>1
  <2>4. \A a \in Asset : outer'[a] # NotThere => outer'[a].data \in Content(a)
    BY <1>0, <1>2, <2>2
  <2>5. OnlyAt(x, outer, inner, outer', inner')
    BY <2>1, <2>2, AssetNumbers DEF OnlyAt, At
  <2>. QED BY <1>0, <1>1, <2>1, <2>2, <2>3, <2>4, <2>5
<1>3. CASE x \in Object
  <2>1. inner' = [inner EXCEPT ![x] = new] /\ outer' = outer /\ x \notin Asset
    BY <1>3, AssetNumbers DEF Store
  <2>2. inner'[x] = new /\ \A y \in Object : y # x => inner'[y] = inner[y]
    BY <1>0, <1>3, <2>1
  <2>3. inner' \in [Object -> InnerObject \cup {NotThere}]
    BY <1>0, <1>3, <2>1
  <2>5. OnlyAt(x, outer, inner, outer', inner')
    BY <2>1, <2>2, AssetNumbers DEF OnlyAt, At
  <2>. QED BY <1>0, <1>1, <2>1, <2>2, <2>3, <2>5
<1>. QED BY <1>2, <1>3

(* A write that goes through, of an object as wanted. *)
LEMMA StoredStep ==
  ASSUME PodInv, NEW p \in Pod, NEW x \in Asset \cup Object, NEW new, Store(p, x, new), NEW after,
         x \in Asset => new \in OuterMap /\ new.data \in Content(x),
         x \in Object => new \in InnerObject,
         PodGood(after, outer', inner'), after.item = NotThere,
         \/ Current(x) = new /\ pod' = [pod EXCEPT ![p] = after]
         \/ Current(x) # new /\ pod' = Touched(p, x, [pod EXCEPT ![p] = after])
  PROVE  PodInv'
<1>1. CASE Current(x) = new
  <2>1. outer \in [Asset -> OuterMap \cup {NotThere}] /\ inner \in [Object -> InnerObject \cup {NotThere}]
    BY DEF PodInv, PodTypes
  <2>2. outer' = outer /\ inner' = inner
    BY <1>1, <2>1, AssetNumbers DEF Store, Current
  <2>3. UNCHANGED <<outer, inner, rollout>>
    BY <1>1, <2>2 DEF Store
  <2>4. PodGood(after, outer, inner)
    BY <2>2
  <2>5. release' \in [now : Release, replicas : 1..2]
    BY StoreTypes
  <2>6. pod' = [pod EXCEPT ![p] = after]
    BY <1>1
  <2>. QED BY <2>3, <2>4, <2>5, <2>6, OwnStep
<1>2. CASE Current(x) # new
  <2>1. pod' = Touched(p, x, [pod EXCEPT ![p] = after])
    BY <1>2
  <2>. QED BY <2>1, StoreTypes, StoreStep
<1>. QED BY <1>1, <1>2

(* An outer ConfigMap is left, or written. *)
LEMMA DeployMapStep ==
  ASSUME PodInv, NEW p \in Pod, DeployConfigMap(p)
  PROVE  PodInv'
<1>. DEFINE s == pod[p]
            a == s.asset
            want == Shipped[s.release][a]
            new == Fresh(p, a, want)
            after == IF Last(a) THEN [Idle(s) EXCEPT !.step = "load", !.asset = 1]
                     ELSE [Idle(s) EXCEPT !.asset = a + 1]
<1>0. /\ PodGood(s, outer, inner) /\ s.step = "files" /\ s.item = a /\ a \in Asset
      /\ s.release \in Release /\ s.item # NotThere /\ Write(p, after)
  BY PodIs DEF PodGood, PodOK, PodStates, DeployConfigMap
<1>1. Wanted(p, a) = want /\ IsConfigMap(a) /\ IsOuter(a) /\ a \notin Secret
  BY <1>0, AssetNumbers DEF Wanted, IsConfigMap
<1>2. want \in Content(a)
  BY <1>0 DEF Content
<1>3. new \in OuterMap /\ new.data = want /\ new # NotThere
  <2>. DEFINE b == a \in Secret
  <2>1. new = [data |-> want, pinned |-> b, lists |-> {}] /\ b \in BOOLEAN
    BY DEF Fresh
  <2>. HIDE DEF want, b
  <2>2. new \in OuterMap
    BY <1>0, <1>2, <2>1 DEF OuterMap
  <2>. QED BY <2>1, <2>2, NameAssumption
<1>4. \/ /\ pod' = [pod EXCEPT ![p] = after] /\ UNCHANGED <<release, outer, inner, rollout>>
         /\ s.seen # NotThere /\ (s.seen.pinned \/ s.seen.data = want)
      \/ Exit(p)
      \/ /\ Store(p, a, new)
         /\ \/ Current(a) = new /\ pod' = [pod EXCEPT ![p] = after]
            \/ Current(a) # new /\ pod' = Touched(p, a, [pod EXCEPT ![p] = after])
  BY <1>0, <1>1, WriteShape
<1>. HIDE DEF new, want
<1>5. CASE Exit(p)
  BY <1>0, <1>5, ExitStep
<1>6. CASE /\ pod' = [pod EXCEPT ![p] = after] /\ UNCHANGED <<release, outer, inner, rollout>>
           /\ s.seen # NotThere /\ (s.seen.pinned \/ s.seen.data = want)
  <2>1. s.alone => OuterDone(s.release, a, outer)
    <3>1. s.alone => Alike(s.seen, outer[a])
      BY <1>0, <1>1 DEF PodGood, Fine, At
    <3>. QED BY <1>6, <3>1 DEF Alike, OuterDone, want
  <2>2. PodGood(after, outer, inner)
    BY <1>0, <2>1, AfterOuter
  <2>3. release' \in [now : Release, replicas : 1..2]
    BY <1>6 DEF PodInv, PodTypes
  <2>. HIDE DEF after, s
  <2>. QED BY <1>6, <2>2, <2>3, OwnStep
<1>7. CASE /\ Store(p, a, new)
           /\ \/ Current(a) = new /\ pod' = [pod EXCEPT ![p] = after]
              \/ Current(a) # new /\ pod' = Touched(p, a, [pod EXCEPT ![p] = after])
  <2>1. a \notin Object
    BY <1>0, AssetNumbers
  <2>2. outer'[a] = new /\ \A x \in Asset : x # a => outer'[x] = outer[x]
    BY <1>0, <1>2, <1>3, <1>7, <2>1, StoreTypes
  <2>3. OuterDone(s.release, a, outer')
    BY <1>3, <2>2 DEF OuterDone, want
  <2>4. PodGood(after, outer', inner')
    BY <1>0, <2>2, <2>3, AfterOuter
  <2>5. after.item = NotThere
    <3>1. Idle(s) \in PodStates /\ Idle(s).item = NotThere
      BY <1>0, IdleShape DEF PodGood
    <3>. HIDE DEF s
    <3>. QED BY <3>1 DEF PodStates
  <2>. HIDE DEF after, s
  <2>. QED BY <1>0, <1>2, <1>3, <1>7, <2>1, <2>4, <2>5, StoredStep
<1>. QED BY <1>4, <1>5, <1>6, <1>7

(* An object is left, or written. *)
LEMMA DeployObjectStep ==
  ASSUME PodInv, NEW p \in Pod, DeployObject(p)
  PROVE  PodInv'
<1>. DEFINE s == pod[p]
            x == s.item
            a == AssetOf[x]
            want == s.loaded[a][x]
            new == Fresh(p, x, want)
            rest == s.left \ {x}
            after == [Idle(s) EXCEPT !.left = rest, !.step = IF rest = {} THEN "wait" ELSE @]
<1>0. /\ PodGood(s, outer, inner) /\ s.step = "objects" /\ x # NotThere /\ x \in Object
      /\ s.loaded[a] \in Content(a) /\ a \in 1..Len(s.loaded) /\ Write(p, after)
  <2>1. s \in PodStates /\ PodOK(s) /\ PodGood(s, outer, inner)
    BY PodIs DEF PodGood
  <2>2. s.step = "objects" /\ x # NotThere /\ Write(p, after)
    BY DEF DeployObject
  <2>. HIDE DEF s, after
  <2>3. x \in s.left /\ s.left \subseteq Object /\ Len(s.loaded) = Cardinality(Asset)
        /\ \A k \in 1..Len(s.loaded) : s.loaded[k] \in Content(k)
    BY <2>1, <2>2 DEF PodOK, PodStates
  <2>4. a \in 1..Len(s.loaded)
    BY <2>3, AssetNumbers
  <2>. QED BY <2>1, <2>2, <2>3, <2>4
<1>1. Wanted(p, x) = want /\ (IsConfigMap(x) <=> x \in ConfigMap) /\ ~IsOuter(x) /\ x \notin Asset
  BY <1>0, AssetNumbers, NameAssumption DEF Wanted, IsConfigMap
<1>2. new \in InnerObject /\ new.data = want /\ new # NotThere
  <2>. DEFINE b == x \in Secret
  <2>1. new = [data |-> want, pinned |-> b, lists |-> {}] /\ b \in BOOLEAN
    BY DEF Fresh
  <2>2. want \in UNION {{d[o] : d \in Content(AssetOf[o])} : o \in Object}
    BY <1>0
  <2>. HIDE DEF want, b
  <2>3. new \in InnerObject
    BY <2>1, <2>2 DEF InnerObject
  <2>. QED BY <2>1, <2>3, NameAssumption
<1>3. \/ /\ pod' = [pod EXCEPT ![p] = after] /\ UNCHANGED <<release, outer, inner, rollout>>
         /\ s.seen # NotThere /\ x \in ConfigMap /\ (s.seen.pinned \/ s.seen.data = want)
      \/ Exit(p)
      \/ /\ Store(p, x, new)
         /\ \/ Current(x) = new /\ pod' = [pod EXCEPT ![p] = after]
            \/ Current(x) # new /\ pod' = Touched(p, x, [pod EXCEPT ![p] = after])
  BY <1>0, <1>1, WriteShape
<1>4. s.alone => s.loaded[a] = outer[a].data /\ Alike(s.seen, inner[x])
  BY <1>0, <1>1 DEF PodGood, Fine, At
<1>. HIDE DEF new, want
<1>5. CASE Exit(p)
  BY <1>0, <1>5, ExitStep
<1>6. CASE /\ pod' = [pod EXCEPT ![p] = after] /\ UNCHANGED <<release, outer, inner, rollout>>
           /\ s.seen # NotThere /\ x \in ConfigMap /\ (s.seen.pinned \/ s.seen.data = want)
  <2>1. s.alone => InnerDone(x, outer, inner)
    BY <1>4, <1>6 DEF Alike, InnerDone, want
  <2>2. PodGood(after, outer, inner)
    BY <1>0, <2>1, AfterObject
  <2>3. release' \in [now : Release, replicas : 1..2]
    BY <1>6 DEF PodInv, PodTypes
  <2>. HIDE DEF after, s
  <2>. QED BY <1>6, <2>2, <2>3, OwnStep
<1>7. CASE /\ Store(p, x, new)
           /\ \/ Current(x) = new /\ pod' = [pod EXCEPT ![p] = after]
              \/ Current(x) # new /\ pod' = Touched(p, x, [pod EXCEPT ![p] = after])
  <2>1. inner'[x] = new /\ outer' = outer /\ \A y \in Object : y # x => inner'[y] = inner[y]
    BY <1>0, <1>1, <1>2, <1>7, StoreTypes
  <2>2. s.alone => InnerDone(x, outer, inner')
    BY <1>2, <1>4, <2>1 DEF InnerDone, want
  <2>3. PodGood(after, outer, inner')
    BY <1>0, <2>1, <2>2, AfterObject
  <2>4. after.item = NotThere
    <3>1. Idle(s) \in PodStates /\ Idle(s).item = NotThere
      BY <1>0, IdleShape DEF PodGood
    <3>. HIDE DEF s
    <3>. QED BY <3>1 DEF PodStates
  <2>5. PodGood(after, outer', inner')
    BY <2>1, <2>3
  <2>. HIDE DEF after, s
  <2>. QED BY <1>0, <1>1, <1>2, <1>7, <2>4, <2>5, StoredStep
<1>. QED BY <1>3, <1>5, <1>6, <1>7

(* The status of an awaited DaemonSet moves on, or a list is added: others hold an old object. *)
LEMMA StaleStep ==
  ASSUME PodInv, NEW x \in Object,
         pod' = [p \in Pod |-> [pod[p] EXCEPT !.fresh = @ /\ pod[p].item # x]],
         UNCHANGED <<release, outer>>,
         inner' \in [Object -> InnerObject \cup {NotThere}],
         rollout' \in [Awaited -> {"ready", "unseen", "unready"}],
         \A y \in Object : Alike(inner[y], inner'[y]),
         \A y \in Object \ {x} : inner'[y] = inner[y]
  PROVE  PodInv'
<1>1. ASSUME NEW q \in Pod
      PROVE  pod'[q] \in PodStates /\ PodGood(pod'[q], outer, inner')
  <2>. DEFINE s == pod[q]
              f == s.fresh /\ s.item # x
              t == [s EXCEPT !.fresh = f]
  <2>1. pod'[q] = t
    OBVIOUS
  <2>2. PodGood(s, outer, inner) /\ f \in BOOLEAN /\ (f => s.fresh /\ s.item # x)
    BY PodIs
  <2>. HIDE DEF s, f, t
  <2>3. s \in PodStates /\ PodOK(s) /\ Fine(s, outer, inner) /\ InHand(s, outer, inner)
        /\ s.item \in Asset \cup Object \cup {NotThere}
    BY <2>2 DEF PodGood, PodStates
  <2>4. /\ t \in PodStates /\ t.release = s.release /\ t.step = s.step /\ t.asset = s.asset /\ t.left = s.left
        /\ t.loaded = s.loaded /\ t.item = s.item /\ t.seen = s.seen /\ t.fresh = f /\ t.alone = s.alone
    BY <2>2, <2>3 DEF PodStates, t
  <2>5. PodOK(t)
    BY <2>3, <2>4 DEF PodOK
  <2>6. \A y \in Object : InnerDone(y, outer, inner) => InnerDone(y, outer, inner')
    BY DEF InnerDone, Alike
  <2>7. ASSUME s.alone, s.item # NotThere PROVE Alike(s.seen, At(s.item, outer, inner'))
    <3>1. Alike(s.seen, At(s.item, outer, inner))
      BY <2>3, <2>7 DEF Fine
    <3>2. Alike(At(s.item, outer, inner), At(s.item, outer, inner'))
      BY <2>3, <2>7, AssetNumbers DEF At, Alike
    <3>. QED BY <3>1, <3>2 DEF Alike
  <2>8. Fine(t, outer, inner')
    BY <2>3, <2>4, <2>6, <2>7 DEF Fine
  <2>9. InHand(t, outer, inner')
    BY <2>2, <2>3, <2>4, AssetNumbers DEF InHand, At
  <2>. QED BY <2>1, <2>4, <2>5, <2>8, <2>9 DEF PodGood
<1>2. pod' \in [Pod -> PodStates]
  BY <1>1
<1>3. /\ release' \in [now : Release, replicas : 1..2] /\ outer' \in [Asset -> OuterMap \cup {NotThere}]
      /\ \A a \in Asset : outer'[a] # NotThere => outer'[a].data \in Content(a)
  BY DEF PodInv, PodTypes
<1>4. \A q \in Pod : PodGood(pod'[q], outer', inner')
  BY <1>1
<1>. QED BY <1>2, <1>3, <1>4, Together

LEMMA RollOutStep ==
  ASSUME PodInv, NEW x \in Awaited, RollOut(x)
  PROVE  PodInv'
<1>1. x \in Object
  BY AssetAssumption
<1>2. /\ pod' = [p \in Pod |-> [pod[p] EXCEPT !.fresh = @ /\ pod[p].item # x]]
      /\ UNCHANGED <<release, outer, inner>>
  BY DEF RollOut
<1>3. inner' \in [Object -> InnerObject \cup {NotThere}] /\ rollout' \in [Awaited -> {"ready", "unseen", "unready"}]
  BY DEF RollOut, PodInv, PodTypes
<1>4. \A y \in Object : Alike(inner[y], inner'[y]) /\ inner'[y] = inner[y]
  BY <1>2 DEF Alike
<1>. QED BY <1>1, <1>2, <1>3, <1>4, StaleStep

(* A list is added to the device plugin's ConfigMap, and nothing else changes. *)
LEMMA AddListShape ==
  ASSUME PodInv, NEW n \in Node, AddList(n)
  PROVE  /\ PluginMap \in Object /\ inner[PluginMap] # NotThere
         /\ inner' \in [Object -> InnerObject \cup {NotThere}]
         /\ \A y \in Object \ {PluginMap} : inner'[y] = inner[y]
         /\ inner'[PluginMap] # NotThere
         /\ inner'[PluginMap].data = inner[PluginMap].data
         /\ inner'[PluginMap].pinned = inner[PluginMap].pinned
         /\ inner'[PluginMap].lists = inner[PluginMap].lists \cup {n}
<1>. DEFINE m == inner[PluginMap]
            l == m.lists \cup {n}
            m2 == [m EXCEPT !.lists = l]
<1>1. PluginMap \in Object /\ m # NotThere /\ inner \in [Object -> InnerObject \cup {NotThere}]
  BY AssetAssumption DEF AddList, PodInv, PodTypes
<1>2. inner' = [inner EXCEPT ![PluginMap] = m2]
  BY DEF AddList
<1>3. m \in InnerObject /\ l \in SUBSET Node
  BY <1>1 DEF InnerObject
<1>. HIDE DEF m, l
<1>4. m2 \in InnerObject /\ m2.data = m.data /\ m2.pinned = m.pinned /\ m2.lists = l
  BY <1>3 DEF InnerObject
<1>. HIDE DEF m2
<1>5. m2 # NotThere
  BY <1>4, NameAssumption
<1>. QED BY <1>1, <1>2, <1>4, <1>5 DEF m, l

LEMMA AddListStep ==
  ASSUME PodInv, NEW n \in Node, AddList(n)
  PROVE  PodInv'
<1>1. /\ pod' = [p \in Pod |-> [pod[p] EXCEPT !.fresh = @ /\ pod[p].item # PluginMap]]
      /\ UNCHANGED <<release, outer, rollout>>
  BY DEF AddList
<1>2. rollout' \in [Awaited -> {"ready", "unseen", "unready"}]
  BY <1>1 DEF PodInv, PodTypes
<1>3. \A y \in Object : Alike(inner[y], inner'[y])
  BY AddListShape DEF Alike
<1>. QED BY <1>1, <1>2, <1>3, AddListShape, StaleStep

(* An administrator edits a ConfigMap, pins one, deletes an object. *)
LEMMA EditStep ==
  ASSUME PodInv, EditOuter
  PROVE  PodInv'
<1>1. PICK e \in Edits, pin \in BOOLEAN :
        /\ outer[e.asset] # NotThere
        /\ outer' = [outer EXCEPT ![e.asset] = [@ EXCEPT !.data = e.data, !.pinned = pin]]
        /\ pod' = Touched(NotThere, e.asset, pod)
        /\ UNCHANGED <<release, inner, rollout>>
  BY DEF EditOuter
<1>. DEFINE a == e.asset
            d == e.data
            m == outer[a]
            m2 == [m EXCEPT !.data = d, !.pinned = pin]
<1>2. a \in Asset /\ d \in Content(a)
  BY ReleaseAssumption DEF Content
<1>3. /\ outer \in [Asset -> OuterMap \cup {NotThere}] /\ m \in OuterMap
      /\ release' \in [now : Release, replicas : 1..2]
      /\ \A x \in Asset : outer[x] # NotThere => outer[x].data \in Content(x)
      /\ inner' \in [Object -> InnerObject \cup {NotThere}]
      /\ rollout' \in [Awaited -> {"ready", "unseen", "unready"}]
  BY <1>1, <1>2 DEF PodInv, PodTypes
<1>4. outer' = [outer EXCEPT ![a] = m2] /\ UNCHANGED inner /\ pod' = Touched(NotThere, a, pod)
  BY <1>1
<1>. HIDE DEF a, d, m
<1>5. m2 \in OuterMap /\ m2.data = d
  BY <1>2, <1>3 DEF OuterMap
<1>. HIDE DEF m2
<1>6. outer' \in [Asset -> OuterMap \cup {NotThere}]
      /\ outer'[a] = m2 /\ \A x \in Asset : x # a => outer'[x] = outer[x]
  BY <1>2, <1>3, <1>4, <1>5
<1>7. \A x \in Asset : outer'[x] # NotThere => outer'[x].data \in Content(x)
  BY <1>2, <1>3, <1>5, <1>6
<1>8. OnlyAt(a, outer, inner, outer', inner')
  BY <1>4, <1>6, AssetNumbers DEF OnlyAt, At
<1>. QED BY <1>2, <1>3, <1>4, <1>6, <1>7, <1>8, OthersStep

LEMMA PinShape ==
  ASSUME PodInv, NEW x \in ConfigMap, Pin(x)
  PROVE  /\ x \in Object /\ inner[x] # NotThere
         /\ inner' \in [Object -> InnerObject \cup {NotThere}]
         /\ \A y \in Object \ {x} : inner'[y] = inner[y]
         /\ inner'[x].lists = inner[x].lists
<1>. DEFINE m == inner[x]
            m2 == [m EXCEPT !.pinned = TRUE]
<1>1. x \in Object /\ m # NotThere /\ inner \in [Object -> InnerObject \cup {NotThere}]
  BY AssetAssumption DEF Pin, PodInv, PodTypes
<1>2. inner' = [inner EXCEPT ![x] = m2]
  BY DEF Pin
<1>3. m \in InnerObject
  BY <1>1
<1>. HIDE DEF m
<1>4. m2 \in InnerObject /\ m2.lists = m.lists
  BY <1>3 DEF InnerObject
<1>. HIDE DEF m2
<1>. QED BY <1>1, <1>2, <1>4 DEF m

LEMMA PinStep ==
  ASSUME PodInv, NEW x \in ConfigMap, Pin(x)
  PROVE  PodInv'
<1>1. pod' = Touched(NotThere, x, pod) /\ UNCHANGED <<release, outer, rollout>>
  BY DEF Pin
<1>2. /\ release' \in [now : Release, replicas : 1..2]
      /\ outer' \in [Asset -> OuterMap \cup {NotThere}]
      /\ \A a \in Asset : outer'[a] # NotThere => outer'[a].data \in Content(a)
      /\ rollout' \in [Awaited -> {"ready", "unseen", "unready"}]
  BY <1>1 DEF PodInv, PodTypes
<1>3. OnlyAt(x, outer, inner, outer', inner')
  BY <1>1, PinShape DEF OnlyAt, At, IsOuter
<1>. QED BY <1>1, <1>2, <1>3, PinShape, OthersStep

LEMMA DeleteShape ==
  ASSUME PodInv, NEW x \in Object, Delete(x)
  PROVE  /\ inner' \in [Object -> InnerObject \cup {NotThere}]
         /\ \A y \in Object \ {x} : inner'[y] = inner[y]
         /\ inner'[x] = NotThere
         /\ rollout' \in [Awaited -> {"ready", "unseen", "unready"}]
BY DEF Delete, PodInv, PodTypes

LEMMA DeleteStep ==
  ASSUME PodInv, NEW x \in Object, Delete(x)
  PROVE  PodInv'
<1>1. pod' = Touched(NotThere, x, pod) /\ UNCHANGED <<release, outer>>
  BY DEF Delete
<1>2. /\ release' \in [now : Release, replicas : 1..2]
      /\ outer' \in [Asset -> OuterMap \cup {NotThere}]
      /\ \A a \in Asset : outer'[a] # NotThere => outer'[a].data \in Content(a)
  BY <1>1 DEF PodInv, PodTypes
<1>3. OnlyAt(x, outer, inner, outer', inner')
  BY <1>1, DeleteShape DEF OnlyAt, At, IsOuter
<1>. QED BY <1>1, <1>2, <1>3, DeleteShape, OthersStep

(* Only the Deployment changes, or nothing. *)
LEMMA StandsStep ==
  ASSUME PodInv, UNCHANGED <<pod, outer, inner, rollout>>, release' \in [now : Release, replicas : 1..2]
  PROVE  PodInv'
BY DEF PodInv, PodTypes

-----------------------------------------------------------------------------
(* The invariant of the pods *)

LEMMA PodInit == Init => PodInv
<1>. SUFFICES ASSUME Init PROVE PodInv
  OBVIOUS
<1>1. release \in [now : Release, replicas : 1..2]
  BY ReleaseAssumption DEF Init
<1>2. outer \in [Asset -> OuterMap \cup {NotThere}] /\ \A a \in Asset : outer[a] = NotThere
  BY DEF Init
<1>3. inner \in [Object -> InnerObject \cup {NotThere}] /\ rollout \in [Awaited -> {"ready", "unseen", "unready"}]
  BY DEF Init
<1>4. PodGood(Off, outer, inner)
  BY StartGood
<1>5. pod = [p \in Pod |-> Off]
  BY DEF Init
<1>. HIDE DEF Off
<1>. QED BY <1>1, <1>2, <1>3, <1>4, <1>5 DEF PodInv, PodTypes, PodGood

LEMMA PodNext == PodInv /\ [Next]_vars => PodInv'
<1>. SUFFICES ASSUME PodInv, [Next]_vars PROVE PodInv'
  OBVIOUS
<1>1. ASSUME NEW p \in Pod, Deploys(p) PROVE PodInv'
  BY <1>1, GetStep, LoadStep, WaitStep, ReplicasStep, DeployMapStep, DeployObjectStep DEF Deploys
<1>2. ASSUME NEW p \in Pod, Cluster(p) \/ CallFails(p) \/ Crash(p) PROVE PodInv'
  BY <1>2, ReplicaStep DEF Cluster
<1>3. ASSUME NEW x \in Awaited, RollOut(x) PROVE PodInv'
  BY <1>3, RollOutStep
<1>4. ASSUME EditOuter PROVE PodInv'
  BY <1>4, EditStep
<1>5. ASSUME NEW x \in Object, Delete(x) PROVE PodInv'
  BY <1>5, DeleteStep
<1>6. ASSUME NEW x \in ConfigMap, Pin(x) PROVE PodInv'
  BY <1>6, PinStep
<1>7. ASSUME NEW n \in Node, AddList(n) PROVE PodInv'
  BY <1>7, AddListStep
<1>8. ASSUME Upgrade PROVE PodInv'
  <2>1. release' \in [now : Release, replicas : 1..2] /\ UNCHANGED <<pod, outer, inner, rollout>>
    BY <1>8 DEF Upgrade
  <2>. QED BY <2>1, StandsStep
<1>9. ASSUME UNCHANGED operatorVars PROVE PodInv'
  BY <1>9, StandsStep DEF operatorVars, PodInv, PodTypes
<1>10. CASE UNCHANGED vars
  BY <1>9, <1>10 DEF vars, operatorVars
<1>11. CASE Next
  BY <1>1, <1>2, <1>3, <1>4, <1>5, <1>6, <1>7, <1>8, <1>9, <1>11 DEF Next
<1>. QED BY <1>10, <1>11

(* As long as a pod is alone, it has done what its step says. *)
THEOREM PodInvariant == Spec => []PodInv
BY PodInit, PodNext, PTL DEF Spec

-----------------------------------------------------------------------------
(* The webhook *)

(* What AdmittedFits says of a configuration. *)
Fits(cfg) ==
  LET m == GenerateBBDevConfigFile(cfg)
  IN /\ m # "error"
     /\ LET section == cfg.sections[m]
        IN IF m = "n3000"
           THEN section.up <= 32 /\ section.down <= 32
           ELSE /\ section.bundles = cfg.vfAmount
                /\ QueueGroups(m, section) <= MaxQueueGroups(m)
                /\ m = "vrb2" => \A op \in Operations(m) \ {"downlink5G"} : Queues(section, op) <= 256

(* The least of some of three numbers is one of them. *)
LEMMA LeastOfThree ==
  ASSUME NEW S, S \subseteq 1..3, S # {}
  PROVE  Min(S) \in S
<1>1. \E x \in S : \A y \in S : x <= y
  <2>1. \A y \in S : y = 1 \/ y = 2 \/ y = 3
    OBVIOUS
  <2>2. CASE 1 \in S
    BY <2>1, <2>2
  <2>3. CASE 1 \notin S /\ 2 \in S
    BY <2>1, <2>3
  <2>4. CASE 1 \notin S /\ 2 \notin S
    <3>1. 3 \in S /\ \A y \in S : y = 3
      BY <2>1, <2>4
    <3>. QED BY <3>1
  <2>. QED BY <2>2, <2>3, <2>4
<1>. QED BY <1>1 DEF Min

(* The first of the sections there are, in an order, is there. *)
LEMMA FirstSection ==
  ASSUME NEW cfg, NEW order, DOMAIN order \subseteq 1..3,
         \E i \in DOMAIN order : HasSection(cfg, order[i])
  PROVE  LET there == {i \in DOMAIN order : HasSection(cfg, order[i])}
         IN there # {} /\ Min(there) \in DOMAIN order /\ HasSection(cfg, order[Min(there)])
<1>. DEFINE there == {i \in DOMAIN order : HasSection(cfg, order[i])}
<1>1. there \subseteq 1..3 /\ there # {}
  OBVIOUS
<1>2. Min(there) \in there
  <2>. HIDE DEF there
  <2>. QED BY <1>1, LeastOfThree
<1>. QED BY <1>1, <1>2

(* A section that is looked for is one that is allowed. *)
LEMMA SectionsAreKnown ==
  ASSUME NEW cfg \in Submissions, Validate(cfg)
  PROVE  /\ \E i \in DOMAIN Preferred(cfg.kind) : HasSection(cfg, Preferred(cfg.kind)[i])
         /\ DOMAIN Preferred(cfg.kind) \subseteq 1..3
<1>1. cfg.kind \in {"fec", "vrb"} /\ DOMAIN cfg.sections # {}
  BY SubmissionAssumption DEF Validate, FecValidate, VrbValidate, AmbiguousBBDevConfigValidator
<1>2. PICK m \in DOMAIN cfg.sections, i \in DOMAIN Sections(cfg.kind) : Sections(cfg.kind)[i] = m
  BY <1>1, SubmissionAssumption
<1>3. CASE cfg.kind = "fec"
  <2>1. /\ Sections(cfg.kind) = <<"n3000", "acc100", "acc200">>
        /\ Preferred(cfg.kind) = <<"acc100", "acc200", "n3000">>
    BY <1>3 DEF Sections, Preferred
  <2>2. DOMAIN Sections(cfg.kind) = 1..3 /\ DOMAIN Preferred(cfg.kind) = 1..3
    BY <2>1
  <2>3. m = "n3000" \/ m = "acc100" \/ m = "acc200"
    BY <1>2, <2>1, <2>2
  <2>4. \E j \in 1..3 : Preferred(cfg.kind)[j] = m
    BY <2>1, <2>3
  <2>. QED BY <1>2, <2>2, <2>4 DEF HasSection
<1>4. CASE cfg.kind = "vrb"
  <2>1. Sections(cfg.kind) = <<"vrb1", "vrb2">> /\ Preferred(cfg.kind) = <<"vrb1", "vrb2">>
    BY <1>4 DEF Sections, Preferred
  <2>2. DOMAIN Sections(cfg.kind) = 1..2 /\ DOMAIN Preferred(cfg.kind) = 1..2
    BY <2>1
  <2>. QED BY <1>2, <2>1, <2>2 DEF HasSection
<1>. QED BY <1>1, <1>3, <1>4

(* What was validated by the webhook is validated by the daemon. *)
LEMMA ValidatedAgain ==
  ASSUME NEW cfg \in Submissions, Validate(cfg)
  PROVE  BBDevConfigValid(cfg)
<1>. DEFINE order == IF cfg.kind = "fec" THEN <<"acc200", "acc100">> ELSE Sections("vrb")
            there == {i \in DOMAIN order : HasSection(cfg, order[i])}
            m == order[Min(there)]
<1>1. cfg.kind \in {"fec", "vrb"} /\ ~HasAmbiguousBBDevConfigs(cfg)
  BY SubmissionAssumption DEF Validate, FecValidate, VrbValidate, AmbiguousBBDevConfigValidator
<1>2. ASSUME there # {} PROVE QueueGroups(m, cfg.sections[m]) <= MaxQueueGroups(m)
  <2>1. DOMAIN order = 1..2
    BY DEF Sections
  <2>2. HasSection(cfg, m) /\ Min(there) \in 1..2
    <3>1. DOMAIN order \subseteq 1..3 /\ \E i \in DOMAIN order : HasSection(cfg, order[i])
      BY <1>2, <2>1
    <3>. HIDE DEF order
    <3>2. there # {} /\ Min(there) \in DOMAIN order /\ HasSection(cfg, order[Min(there)])
      BY <3>1, FirstSection
    <3>. QED BY <2>1, <3>2
  <2>3. CASE cfg.kind = "fec"
    <3>1. order = <<"acc200", "acc100">>
      BY <2>3
    <3>2. NumQueueGroupsFit(cfg, "acc200") /\ NumQueueGroupsFit(cfg, "acc100")
      BY <2>3 DEF Validate, FecValidate, Acc100NumQueueGroupsValidator, Acc200NumQueueGroupsValidator
    <3>. HIDE DEF there, order
    <3>3. m = "acc200" \/ m = "acc100"
      BY <2>2, <3>1
    <3>. QED BY <2>2, <3>2, <3>3 DEF NumQueueGroupsFit
  <2>4. CASE cfg.kind = "vrb"
    <3>1. order = <<"vrb1", "vrb2">>
      BY <2>4 DEF Sections
    <3>2. NumQueueGroupsFit(cfg, "vrb1") /\ NumQueueGroupsFit(cfg, "vrb2")
      BY <2>4 DEF Validate, VrbValidate, Vrb1NumQueueGroupsValidator, Vrb2NumQueueGroupsValidator
    <3>. HIDE DEF there, order
    <3>3. m = "vrb1" \/ m = "vrb2"
      BY <2>2, <3>1
    <3>. QED BY <2>2, <3>2, <3>3 DEF NumQueueGroupsFit
  <2>. QED BY <1>1, <2>3, <2>4
<1>. QED BY <1>1, <1>2 DEF BBDevConfigValid

(* An admitted configuration is one the daemon takes, and fits. *)
LEMMA ValidatedFits ==
  ASSUME NEW cfg \in Submissions, Validate(cfg)
  PROVE  Fits(cfg)
<1>. DEFINE order == Preferred(cfg.kind)
            there == {i \in DOMAIN order : HasSection(cfg, order[i])}
            m == order[Min(there)]
            section == cfg.sections[m]
<1>1. cfg.kind \in {"fec", "vrb"}
  BY SubmissionAssumption
<1>2. there # {} /\ Min(there) \in DOMAIN order /\ HasSection(cfg, m)
  <2>1. DOMAIN order \subseteq 1..3 /\ \E i \in DOMAIN order : HasSection(cfg, order[i])
    BY SectionsAreKnown
  <2>. HIDE DEF order
  <2>. QED BY <2>1, FirstSection
<1>3. GenerateBBDevConfigFile(cfg) = m
  BY <1>2, ValidatedAgain DEF GenerateBBDevConfigFile
<1>4. /\ m # "error"
      /\ IF m = "n3000"
         THEN section.up <= 32 /\ section.down <= 32
         ELSE /\ section.bundles = cfg.vfAmount
              /\ QueueGroups(m, section) <= MaxQueueGroups(m)
              /\ m = "vrb2" => \A op \in Operations(m) \ {"downlink5G"} : Queues(section, op) <= 256
  <2>. DEFINE k == Min(there)
  <2>1. CASE cfg.kind = "fec"
    <3>1. order = <<"acc100", "acc200", "n3000">> /\ DOMAIN order = 1..3
      BY <2>1 DEF Preferred
    <3>2. /\ NumQueueGroupsFit(cfg, "acc200") /\ NumQueueGroupsFit(cfg, "acc100")
          /\ VfAmountFits(cfg, "acc200") /\ VfAmountFits(cfg, "acc100")
          /\ N3000LinkQueuesValidator(cfg)
      BY <2>1 DEF Validate, FecValidate, Acc100NumQueueGroupsValidator, Acc200NumQueueGroupsValidator,
                  Acc100VfAmountValidator, Acc200VfAmountValidator
    <3>. HIDE DEF order, there
    <3>3. m = "acc100" \/ m = "acc200" \/ m = "n3000"
      BY <1>2, <3>1
    <3>. HIDE DEF m
    <3>. QED BY <1>2, <3>2, <3>3 DEF NumQueueGroupsFit, VfAmountFits, N3000LinkQueuesValidator
  <2>2. CASE cfg.kind = "vrb"
    <3>1. order = <<"vrb1", "vrb2">> /\ DOMAIN order = 1..2
      BY <2>2 DEF Preferred
    <3>2. /\ NumQueueGroupsFit(cfg, "vrb1") /\ NumQueueGroupsFit(cfg, "vrb2")
          /\ VfAmountFits(cfg, "vrb1") /\ VfAmountFits(cfg, "vrb2")
          /\ Vrb2NumQueuesPerOperationValidator(cfg)
      BY <2>2 DEF Validate, VrbValidate, Vrb1NumQueueGroupsValidator, Vrb2NumQueueGroupsValidator,
                  Vrb1VfAmountValidator, Vrb2VfAmountValidator
    <3>. HIDE DEF order, there
    <3>3. m = "vrb1" \/ m = "vrb2"
      BY <1>2, <3>1
    <3>. HIDE DEF m
    <3>. QED BY <1>2, <3>2, <3>3
         DEF NumQueueGroupsFit, VfAmountFits, Vrb2NumQueuesPerOperationValidator, Vrb2MaxQueuesPerOperation
  <2>. QED BY <1>1, <2>1, <2>2
<1>. QED BY <1>3, <1>4 DEF Fits

-----------------------------------------------------------------------------
(* The invariant of the nodes *)

LEMMA NodeInit == Init => NodeInv
<1>. SUFFICES ASSUME Init PROVE NodeInv
  OBVIOUS
<1>1. label \in [Node -> SUBSET {Present, OtherLabel}] /\ spent \in [Fault -> Nat] /\ stored = NotThere
  BY DEF Init
<1>2. labeler \in [Node -> Looks \cup {NotThere}] /\ \A n \in Node : labeler[n] = NotThere
  BY DEF Init
<1>. QED BY <1>1, <1>2 DEF NodeInv

(* Events are counted. *)
LEMMA SpentStep ==
  ASSUME spent \in [Fault -> Nat], [Next]_vars
  PROVE  spent' \in [Fault -> Nat]
<1>1. ASSUME NEW f \in Fault, Happens(f) PROVE spent' \in [Fault -> Nat]
  BY <1>1 DEF Happens
<1>2. \A f \in {"call", "crash", "admin", "upgrade", "list", "look", "label", "submit"} : f \in Fault
  BY DEF Fault
<1>3. Next => UNCHANGED spent \/ \E f \in Fault : Happens(f)
  BY <1>2 DEF Next, Cluster, CallFails, Crash, Upgrade, EditOuter, Delete, Pin, ReadNode, AddList, Relabel,
              Submit
<1>. QED BY <1>1, <1>3 DEF vars

LEMMA NodeNext == NodeInv /\ [Next]_vars => NodeInv'
<1>. SUFFICES ASSUME NodeInv, [Next]_vars PROVE NodeInv'
  OBVIOUS
<1>0. spent' \in [Fault -> Nat] /\ labeler \in [Node -> Looks \cup {NotThere}]
      /\ label \in [Node -> SUBSET {Present, OtherLabel}]
  BY SpentStep DEF NodeInv
<1>1. ASSUME UNCHANGED nodeVars PROVE NodeInv'
  BY <1>0, <1>1 DEF NodeInv, nodeVars
<1>2. ASSUME NEW n \in Node, ReadNode(n) PROVE NodeInv'
  <2>. DEFINE look == [labels |-> label[n], fresh |-> TRUE]
  <2>1. look \in Looks /\ look.labels = label[n]
    BY <1>0 DEF Looks
  <2>2. labeler' = [labeler EXCEPT ![n] = look] /\ UNCHANGED <<label, stored>>
    BY <1>2 DEF ReadNode
  <2>. HIDE DEF look
  <2>. QED BY <1>0, <2>1, <2>2 DEF NodeInv
<1>3. ASSUME NEW n \in Node, SetNodeLabel(n) PROVE NodeInv'
  <2>1. labeler' = [labeler EXCEPT ![n] = NotThere] /\ UNCHANGED stored /\ labeler[n] \in Looks
    BY <1>0, <1>3 DEF SetNodeLabel
  <2>2. /\ label' \in [Node -> SUBSET {Present, OtherLabel}]
        /\ \A k \in Node \ {n} : label'[k] = label[k]
    BY <1>0, <1>3, <2>1 DEF SetNodeLabel, Labeled, Looks
  <2>. QED BY <1>0, <2>1, <2>2 DEF NodeInv
<1>4. ASSUME NEW n \in Node, Relabel(n) PROVE NodeInv'
  <2>. DEFINE old == labeler[n]
              stale == [old EXCEPT !.fresh = FALSE]
  <2>1. label' \in [Node -> SUBSET {Present, OtherLabel}]
        /\ \A k \in Node \ {n} : label'[k] = label[k]
    BY <1>0, <1>4 DEF Relabel
  <2>2. labeler' = [labeler EXCEPT ![n] = IF old = NotThere THEN old ELSE stale] /\ UNCHANGED stored
    BY <1>4 DEF Relabel
  <2>3. old # NotThere => stale \in Looks /\ ~stale.fresh
    <3>1. old # NotThere => old \in Looks
      BY <1>0
    <3>. HIDE DEF old
    <3>. QED BY <3>1 DEF Looks
  <2>. HIDE DEF old, stale
  <2>4. labeler' \in [Node -> Looks \cup {NotThere}]
    BY <1>0, <2>2, <2>3
  <2>5. /\ labeler'[n] # NotThere => ~labeler'[n].fresh
        /\ \A k \in Node \ {n} : labeler'[k] = labeler[k]
    BY <1>0, <2>2, <2>3
  <2>. QED BY <1>0, <2>1, <2>2, <2>4, <2>5 DEF NodeInv
<1>5. ASSUME Submit PROVE NodeInv'
  <2>1. UNCHANGED <<label, labeler>> /\ stored' \in Submissions /\ Validate(stored')
    BY <1>5 DEF Submit
  <2>. QED BY <1>0, <2>1 DEF NodeInv
<1>6. CASE UNCHANGED vars
  BY <1>1, <1>6 DEF vars, nodeVars
<1>7. CASE Next
  BY <1>1, <1>2, <1>3, <1>4, <1>5, <1>7 DEF Next, Cluster
<1>. QED BY <1>6, <1>7

(* A labeler that has not been overtaken has the labels of its node, and what *)
(* is stored has been validated.                                             *)
THEOREM NodeInvariant == Spec => []NodeInv
BY NodeInit, NodeNext, PTL DEF Spec

-----------------------------------------------------------------------------
(* The properties *)

(* Every variable keeps its type, and a pod holds an object only while it    *)
(* deploys: no step of the start (main.go, assets.Manager), and no edit, pin *)
(* or upgrade meanwhile, leaves a pod between two of its steps.              *)
THEOREM TypeCorrect == Spec => []TypeOK
<1>1. PodInv /\ NodeInv => TypeOK
  <2>. SUFFICES ASSUME PodInv, NodeInv PROVE TypeOK
    OBVIOUS
  <2>1. release.now \in Release /\ release.replicas \in 1..2
    BY DEF PodInv, PodTypes
  <2>2. ASSUME NEW p \in Pod
        PROVE  /\ pod[p].step \in {"off", "files", "load", "objects", "wait", "replicas", "serving"}
               /\ pod[p].step \in {"load", "wait", "replicas", "serving", "off"} => pod[p].item = NotThere
               /\ pod[p].step = "objects" => pod[p].left # {} /\ Len(pod[p].loaded) = Cardinality(Asset)
    <3>1. pod[p] \in PodStates /\ PodOK(pod[p])
      BY PodIs DEF PodGood
    <3>. QED BY <3>1 DEF PodStates, PodOK, Steps
  <2>3. ASSUME NEW a \in Asset, outer[a] # NotThere PROVE DOMAIN outer[a].data = Held(a)
    <3>1. outer[a].data \in Content(a)
      BY <2>3 DEF PodInv, PodTypes
    <3>. QED BY <3>1, ReleaseAssumption DEF Content
  <2>4. ASSUME NEW o \in Object, inner[o] # NotThere PROVE inner[o].lists \subseteq Node
    BY <2>4 DEF PodInv, PodTypes, InnerObject
  <2>5. (\A n \in Node : label[n] \subseteq {Present, OtherLabel}) /\ spent \in [Fault -> Nat]
    BY DEF NodeInv
  <2>. QED BY <2>1, <2>2, <2>3, <2>4, <2>5 DEF TypeOK
<1>. QED BY <1>1, PodInvariant, NodeInvariant, PTL

(* A pod that serves its controllers and webhooks has deployed what its files *)
(* say: unless somebody else changed objects meanwhile, its ConfigMaps hold   *)
(* the files of its release or are pinned, and every object is there, as its  *)
(* ConfigMap says or pinned (DeployConfigMaps, LoadFromConfigMap, Deploy).    *)
THEOREM ServesWhatIsDeployed == Spec => []ServesWhatItDeployed
<1>1. PodInv => ServesWhatItDeployed
  <2>. SUFFICES ASSUME PodInv, NEW p \in Pod, pod[p].step = "serving", pod[p].alone
                PROVE  /\ \A a \in Asset : OuterDone(pod[p].release, a, outer)
                       /\ \A o \in Object : InnerDone(o, outer, inner)
    BY DEF ServesWhatItDeployed, OuterDone, InnerDone
  <2>. QED BY PodIs DEF PodGood, Fine
<1>. QED BY <1>1, PodInvariant, PTL

(* What the webhook admits the daemon takes: of every configuration within   *)
(* the schemas of the custom resources, not only of those of the runs, the   *)
(* section that is written is one that was looked at, and fits its model.    *)
THEOREM AdmittedIsTaken == Spec => []AdmittedFits
<1>1. NodeInv => AdmittedFits
  <2>. SUFFICES ASSUME NodeInv, stored # NotThere PROVE Fits(stored)
    BY DEF AdmittedFits, Fits
  <2>. QED BY ValidatedFits DEF NodeInv
<1>. QED BY <1>1, NodeInvariant, PTL

(* A write of the device plugin's ConfigMap, by a pod, changes its template. *)
LEMMA WriteKeepsLists ==
  ASSUME PodInv, NEW p \in Pod, NEW after, Write(p, after),
         pod[p].item \in Asset \cup Object,
         inner[PluginMap] # NotThere, inner'[PluginMap].data = inner[PluginMap].data
  PROVE  inner'[PluginMap] = inner[PluginMap]
<1>. DEFINE s == pod[p]
            x == s.item
            new == Fresh(p, x, Wanted(p, x))
<1>1. PluginMap \in Object /\ PluginMap \in ConfigMap /\ PluginMap \notin Asset
      /\ inner \in [Object -> InnerObject \cup {NotThere}]
  BY AssetAssumption, NameAssumption DEF PodInv, PodTypes
<1>2. CASE inner' = inner
  BY <1>2
<1>3. CASE /\ Store(p, x, new)
           /\ IF s.seen = NotThere
              THEN Current(x) = NotThere
              ELSE s.fresh /\ (IsConfigMap(x) => s.seen.data # Wanted(p, x))
  <2>1. CASE x # PluginMap
    BY <1>1, <1>3, <2>1 DEF Store
  <2>2. CASE x = PluginMap
    <3>1. Current(x) = inner[PluginMap] /\ At(x, outer, inner) = inner[PluginMap] /\ IsConfigMap(x)
      BY <1>1, <2>2 DEF Current, At, IsOuter, IsConfigMap
    <3>2. s.seen # NotThere /\ s.fresh /\ s.seen.data # Wanted(p, x)
      BY <1>3, <3>1
    <3>3. InHand(s, outer, inner) /\ x # NotThere
      BY PodIs, NameAssumption DEF PodGood
    <3>4. s.seen = inner[PluginMap]
      BY <3>1, <3>2, <3>3 DEF InHand
    <3>5. inner'[PluginMap] = new
      BY <1>1, <1>3, <2>2 DEF Store, IsOuter
    <3>6. new.data = Wanted(p, x)
      BY DEF Fresh
    <3>. HIDE DEF new
    <3>. QED BY <3>2, <3>4, <3>5, <3>6
  <2>. QED BY <2>1, <2>2
<1>4. inner' = inner \/ Exit(p) \/
      ( /\ Store(p, x, new)
        /\ IF s.seen = NotThere
           THEN Current(x) = NotThere
           ELSE s.fresh /\ (IsConfigMap(x) => s.seen.data # Wanted(p, x)) )
  BY WriteShape
<1>. QED BY <1>2, <1>3, <1>4 DEF Exit

(* A start of the operator does not cost the daemons their lists: as long as *)
(* the template of the device plugin's ConfigMap is what is deployed, what   *)
(* updateConfigMap of a daemon has added stays in it, whoever writes it      *)
(* (DeepDerivative in createOrUpdateObject).                                 *)
THEOREM ListsAreKept == Spec => ListsKept
<1>. DEFINE Keeps == (/\ inner[PluginMap] # NotThere /\ inner'[PluginMap] # NotThere
                      /\ inner'[PluginMap].data = inner[PluginMap].data) =>
                       inner[PluginMap].lists \subseteq inner'[PluginMap].lists
<1>1. PodInv /\ [Next]_vars => [Keeps]_vars
  <2>. SUFFICES ASSUME PodInv, [Next]_vars,
                       inner[PluginMap] # NotThere, inner'[PluginMap] # NotThere,
                       inner'[PluginMap].data = inner[PluginMap].data
                PROVE  inner[PluginMap].lists \subseteq inner'[PluginMap].lists
    OBVIOUS
  <2>0. PluginMap \in Object /\ inner \in [Object -> InnerObject \cup {NotThere}]
    BY AssetAssumption DEF PodInv, PodTypes
  <2>1. ASSUME inner'[PluginMap] = inner[PluginMap]
        PROVE  inner[PluginMap].lists \subseteq inner'[PluginMap].lists
    BY <2>1
  <2>2. ASSUME NEW p \in Pod, DeployConfigMap(p) \/ DeployObject(p)
        PROVE  inner'[PluginMap] = inner[PluginMap]
    <3>1. pod[p] \in PodStates /\ pod[p].item # NotThere
      BY <2>2, PodIs DEF PodGood, DeployConfigMap, DeployObject
    <3>2. pod[p].item \in Asset \cup Object
      BY <3>1 DEF PodStates
    <3>3. PICK after : Write(p, after)
      BY <2>2 DEF DeployConfigMap, DeployObject
    <3>. QED BY <3>2, <3>3, WriteKeepsLists
  <2>3. ASSUME NEW p \in Pod,
               \/ GetOuter(p) \/ LoadFromConfigMap(p) \/ GetObject(p) \/ WaitUntilReady(p)
               \/ AskForReplicas(p) \/ Cluster(p) \/ CallFails(p) \/ Crash(p)
        PROVE  inner' = inner
    BY <2>3 DEF GetOuter, LoadFromConfigMap, GetObject, WaitUntilReady, AskForReplicas, Cluster, StartPod,
                StopPod, CallFails, Crash, Exit
  <2>4. ASSUME \/ \E x \in Awaited : RollOut(x)
               \/ Upgrade \/ EditOuter
               \/ UNCHANGED operatorVars
        PROVE  inner' = inner
    BY <2>4 DEF RollOut, Upgrade, EditOuter, operatorVars
  <2>5. ASSUME NEW n \in Node, AddList(n)
        PROVE  inner[PluginMap].lists \subseteq inner'[PluginMap].lists
    BY <2>5, AddListShape
  <2>6. ASSUME NEW x \in Object, Delete(x)
        PROVE  inner'[PluginMap] = inner[PluginMap]
    BY <2>0, <2>6, DeleteShape
  <2>7. ASSUME NEW x \in ConfigMap, Pin(x)
        PROVE  inner[PluginMap].lists \subseteq inner'[PluginMap].lists
    <3>1. CASE x = PluginMap
      BY <2>7, <3>1, PinShape
    <3>2. CASE x # PluginMap
      BY <2>0, <2>7, <3>2, PinShape
    <3>. QED BY <3>1, <3>2
  <2>8. CASE UNCHANGED vars
    BY <2>8 DEF vars
  <2>9. CASE Next
    BY <2>1, <2>2, <2>3, <2>4, <2>5, <2>6, <2>7, <2>9 DEF Next, Deploys
  <2>. QED BY <2>8, <2>9
<1>. QED BY <1>1, PodInvariant, PTL DEF Spec, ListsKept

(* A labeler writes no label but its own: whatever is done to the node       *)
(* between its reading and its writing, the API server refuses a write of    *)
(* labels that are old (setNodeLabel).                                       *)
THEOREM OtherLabelsAreKept == Spec => OthersLabelsKept
<1>. DEFINE Keeps == \A n \in Node : SetNodeLabel(n) => label'[n] \ {Present} = label[n] \ {Present}
<1>1. NodeInv => Keeps
  <2>. SUFFICES ASSUME NodeInv, NEW n \in Node, SetNodeLabel(n)
                PROVE  label'[n] \ {Present} = label[n] \ {Present}
    OBVIOUS
  <2>1. labeler[n] # NotThere /\ (labeler[n].fresh => labeler[n].labels = label[n])
        /\ label \in [Node -> SUBSET {Present, OtherLabel}]
    BY DEF NodeInv, SetNodeLabel
  <2>2. CASE labeler[n].fresh
    <3>1. label' = [label EXCEPT ![n] = label[n] \cup (IF n \in HasCard THEN {Present} ELSE {})]
      BY <2>1, <2>2 DEF SetNodeLabel, Labeled
    <3>. QED BY <2>1, <3>1
  <2>3. CASE ~labeler[n].fresh
    BY <2>3 DEF SetNodeLabel, Labeled
  <2>. QED BY <2>2, <2>3
<1>2. NodeInv /\ [Next]_vars => [Keeps]_vars
  BY <1>1
<1>. QED BY <1>2, NodeInvariant, PTL DEF Spec, OthersLabelsKept
=============================================================================
