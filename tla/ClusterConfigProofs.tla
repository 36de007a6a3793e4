------------------------ MODULE ClusterConfigProofs ------------------------
(***************************************************************************)
(* Proofs about ClusterConfig: what the cluster controller writes into the *)
(* nodes' specs, for any nodes, cards and cluster configurations.          *)
(*                                                                         *)
(* The first half is about the operators: whatever order a list comes in,  *)
(* the fold over it leaves a configuration that no other eligible one is   *)
(* better than (FoldChoosesBest, NewSpecIsBest).  The second half carries  *)
(* this from the pass that reads an object to the step that writes it      *)
(* (UpdateInHand): meanwhile users create and delete configurations, and   *)
(* the daemon of the node writes its object too.                           *)
(***************************************************************************)
EXTENDS ClusterConfig, FiniteSetTheorems, SetInduction

-----------------------------------------------------------------------------
(* The inductive invariant *)

(* There are finitely many configurations, so a list of them has an end. *)
ListsAreFinite == IsFiniteSet(existing) /\ IsFiniteSet(list)

(* A configuration that exists or is listed has got its timestamp: the time of *)
(* creation that decides among equals does not change under the pass.          *)
Dated ==
  /\ \A c \in existing \cup list : created[c] > 0
  /\ \A c \in Config : created[c] <= changes

(* Every card gets the best of the configurations in the list. *)
BestInHand ==
  \A card \in Card : new.pfs[card] \in Best(list, node, inventory[node], card)

(* A spec with a configuration that skips the drain skips it. *)
KnowsToSkip(s) ==
  s.pfs # NoPFs /\ ~s.drainSkip => {s.pfs[c] : c \in Card} \cap SkipsDrain = {}

(* As long as the object in hand has not been written by anybody else, what is *)
(* to be written into it is right.                                             *)
UpdateInHand == fresh => pc = "synchronize" /\ BestInHand /\ KnowsToSkip(new)

IInv ==
  /\ TypeOK
  /\ ListsAreFinite
  /\ Dated
  /\ UpdateInHand
  /\ SelectedOnly
  /\ NobodyAskedToSkip

-----------------------------------------------------------------------------
(* The fold over the list *)

(* One round of the loop in clusterConfigMatcher. *)
Round(previous, current, n, card) ==
  IF Matches(current, n, card) THEN Preferred(previous, current) ELSE previous

(* The function the fold stands for, on the sets of the first k positions. *)
IsFold(f, configs, k, n, card) ==
  f = [s \in SUBSET (1..k) |->
         IF s = {} THEN NoConfig ELSE Round(f[s \ {Max(s)}], configs[Max(s)], n, card)]

LEMMA ChosenIsFold ==
  ASSUME NEW k \in Nat, NEW configs \in [1..k -> Config], NEW n, NEW card
  PROVE  Chosen(configs, n, card) = (CHOOSE f : IsFold(f, configs, k, n, card))[1..k]
<1>1. DOMAIN configs = 1..k
  OBVIOUS
<1>. QED BY <1>1 DEF Chosen, FoldLeft, MapThenFoldSet, IsFold, Round

(* The greatest position of a set that has the last one. *)
LEMMA LastPosition ==
  ASSUME NEW j \in Nat, NEW s \in SUBSET (1..j), j \in s
  PROVE  Max(s) = j
<1>1. j \in s /\ \A y \in s : j >= y
  OBVIOUS
<1>2. Max(s) \in s /\ \A y \in s : Max(s) >= y
  BY <1>1 DEF Max
<1>3. \A m \in s : (\A y \in s : m >= y) => m = j
  BY <1>1
<1>. QED BY <1>2, <1>3

(* There is such a function for a list of any length. *)
LEMMA FoldExists ==
  ASSUME NEW k \in Nat, NEW configs \in [1..k -> Config], NEW n, NEW card
  PROVE  \E f : IsFold(f, configs, k, n, card)
<1>. DEFINE G == {j \in Nat : j <= k => \E f : IsFold(f, configs, j, n, card)}
<1>1. 0 \in G
  <2>1. IsFold([s \in SUBSET (1..0) |-> NoConfig], configs, 0, n, card)
    BY DEF IsFold
  <2>. QED BY <2>1
<1>2. ASSUME NEW j \in Nat, j \in G PROVE j + 1 \in G
  <2>. SUFFICES ASSUME j + 1 <= k PROVE \E g : IsFold(g, configs, j + 1, n, card)
    OBVIOUS
  <2>1. PICK f : IsFold(f, configs, j, n, card)
    BY <1>2
  <2>. DEFINE g == [s \in SUBSET (1..(j + 1)) |->
                      IF j + 1 \in s THEN Round(f[s \ {j + 1}], configs[j + 1], n, card) ELSE f[s]]
  <2>2. ASSUME NEW s \in SUBSET (1..(j + 1))
        PROVE  g[s] = IF s = {} THEN NoConfig
                      ELSE Round(g[s \ {Max(s)}], configs[Max(s)], n, card)
    <3>1. CASE j + 1 \in s
      <4>1. Max(s) = j + 1
        BY <3>1, LastPosition
      <4>2. s \ {j + 1} \in SUBSET (1..(j + 1)) /\ j + 1 \notin s \ {j + 1}
        OBVIOUS
      <4>3. g[s \ {j + 1}] = f[s \ {j + 1}]
        BY <4>2
      <4>. QED BY <3>1, <4>1, <4>3
    <3>2. CASE j + 1 \notin s
      <4>1. s \in SUBSET (1..j) /\ g[s] = f[s]
        BY <3>2
      <4>2. s \ {Max(s)} \in SUBSET (1..(j + 1)) /\ j + 1 \notin s \ {Max(s)}
        BY <3>2
      <4>3. g[s \ {Max(s)}] = f[s \ {Max(s)}]
        BY <4>2
      <4>. QED BY <2>1, <4>1, <4>3 DEF IsFold
    <3>. QED BY <3>1, <3>2
  <2>3. IsFold(g, configs, j + 1, n, card)
    <3>. HIDE DEF g
    <3>1. g = [s \in SUBSET (1..(j + 1)) |-> g[s]]
      BY DEF g
    <3>. QED BY <2>2, <3>1 DEF IsFold
  <2>. QED BY <2>3
<1>3. k \in G
  BY <1>1, <1>2, InductionOnSets
<1>. QED BY <1>3

(* w is what the first j configurations of the list leave. *)
Winner(w, configs, j, n, card) ==
  LET matching == {i \in 1..j : Matches(configs[i], n, card)} IN
    IF matching = {} THEN w = NoConfig
    ELSE \E i \in matching : w = configs[i] /\ \A h \in matching : ~Better(configs[h], w)

(* Better is a strict order: nothing is better than itself, and what is better *)
(* than w has nothing above it that is not above w.                            *)
LEMMA BetterIsStrict ==
  ASSUME TypeOK, NEW c \in Config, NEW w \in Config, NEW d \in Config
  PROVE  ~Better(c, c) /\ (Better(c, w) /\ Better(d, c) => Better(d, w))
<1>1. /\ Priority[c] \in Int /\ Priority[w] \in Int /\ Priority[d] \in Int
      /\ created[c] \in Nat /\ created[w] \in Nat /\ created[d] \in Nat
  BY ConfigAssumption DEF TypeOK
<1>. QED BY <1>1 DEF Better

(* One round turns the best of j configurations into the best of j + 1. *)
LEMMA RoundKeepsWinner ==
  ASSUME TypeOK, NEW k \in Nat, NEW configs \in [1..k -> Config], NEW n \in Node, NEW card \in Card,
         NEW j \in Nat, j + 1 <= k, NEW w, Winner(w, configs, j, n, card)
  PROVE  Winner(Round(w, configs[j + 1], n, card), configs, j + 1, n, card)
<1>. DEFINE M(i) == {h \in 1..i : Matches(configs[h], n, card)}
            c == configs[j + 1]
            v == Round(w, c, n, card)
<1>1. c \in Config /\ j + 1 \in 1..(j + 1)
  OBVIOUS
<1>2. CASE ~Matches(c, n, card)
  <2>1. v = w
    BY <1>2 DEF Round
  <2>2. M(j + 1) = M(j)
    BY <1>2
  <2>. QED BY <2>1, <2>2 DEF Winner
<1>3. CASE Matches(c, n, card)
  <2>1. v = Preferred(w, c)
    BY <1>3 DEF Round
  <2>2. j + 1 \in M(j + 1) /\ M(j + 1) = M(j) \cup {j + 1}
    BY <1>3
  <2>3. CASE M(j) = {}
    <3>1. w = NoConfig /\ v = c
      BY <2>1, <2>3 DEF Winner, Preferred
    <3>2. ~Better(c, c)
      BY <1>1, BetterIsStrict
    <3>. QED BY <2>2, <2>3, <3>1, <3>2 DEF Winner
  <2>4. CASE M(j) # {}
    <3>1. PICK i \in M(j) : w = configs[i] /\ \A h \in M(j) : ~Better(configs[h], w)
      BY <2>4 DEF Winner
    <3>2. w \in Config /\ w # NoConfig /\ \A h \in M(j) : configs[h] \in Config
      BY <3>1, ConfigAssumption
    <3>3. CASE Better(c, w)
      <4>1. v = c
        BY <2>1, <3>3 DEF Preferred, Better
      <4>2. \A h \in M(j) : ~Better(configs[h], c)
        BY <1>1, <3>1, <3>2, <3>3, BetterIsStrict
      <4>3. ~Better(c, c)
        BY <1>1, BetterIsStrict
      <4>. QED BY <2>2, <4>1, <4>2, <4>3 DEF Winner
    <3>4. CASE ~Better(c, w)
      <4>1. v = w
        BY <2>1, <3>2, <3>4 DEF Preferred, Better
      <4>. QED BY <2>2, <3>1, <3>4, <4>1 DEF Winner
    <3>. QED BY <3>3, <3>4
  <2>. QED BY <2>3, <2>4
<1>. QED BY <1>2, <1>3

(* The fold leaves a matching configuration that no other one is better than. *)
LEMMA FoldChoosesBest ==
  ASSUME TypeOK, NEW k \in Nat, NEW configs \in [1..k -> Config], NEW n \in Node, NEW card \in Card
  PROVE  Winner(Chosen(configs, n, card), configs, k, n, card)
<1>1. PICK f : IsFold(f, configs, k, n, card) /\ Chosen(configs, n, card) = f[1..k]
  BY FoldExists, ChosenIsFold
<1>. DEFINE G == {j \in Nat : j <= k => Winner(f[1..j], configs, j, n, card)}
<1>2. 0 \in G
  <2>1. f[1..0] = NoConfig
    BY <1>1 DEF IsFold
  <2>. QED BY <2>1 DEF Winner
<1>3. ASSUME NEW j \in Nat, j \in G PROVE j + 1 \in G
  <2>. SUFFICES ASSUME j + 1 <= k PROVE Winner(f[1..(j + 1)], configs, j + 1, n, card)
    OBVIOUS
  <2>1. 1..(j + 1) \in SUBSET (1..k) /\ j + 1 \in 1..(j + 1)
    <3>1. \A i \in 1..(j + 1) : i \in 1..k
      OBVIOUS
    <3>. QED BY <3>1
  <2>2. Max(1..(j + 1)) = j + 1
    BY <2>1, LastPosition
  <2>3. (1..(j + 1)) \ {j + 1} = 1..j
    OBVIOUS
  <2>4. f[1..(j + 1)] = Round(f[1..j], configs[j + 1], n, card)
    BY <1>1, <2>1, <2>2, <2>3 DEF IsFold
  <2>. QED BY <1>3, <2>4, RoundKeepsWinner
<1>4. k \in G
  BY <1>2, <1>3, InductionOnSets
<1>. QED BY <1>1, <1>4

(* A list in any order has every configuration of the set, at some position. *)
LEMMA ListHasAll ==
  ASSUME NEW S, IsFiniteSet(S), NEW configs \in SetToSeqs(S)
  PROVE  /\ Cardinality(S) \in Nat
         /\ configs \in [1..Cardinality(S) -> S]
         /\ \A c \in S : \E i \in 1..Cardinality(S) : configs[i] = c
<1>. DEFINE k == Cardinality(S)
<1>1. k \in Nat
  BY FS_CardinalityType
<1>2. IsFiniteSet(1..k) /\ Cardinality(1..k) = k
  BY <1>1, FS_Interval
<1>3. configs \in Injection(1..k, S)
  BY DEF SetToSeqs, Injection, IsInjective
<1>4. configs \in Surjection(1..k, S)
  BY <1>2, <1>3, FS_Injection
<1>. QED BY <1>1, <1>4 DEF Surjection

(* What Match finds out for a card: the best of the listed configurations, in *)
(* whatever order the list comes.                                             *)
LEMMA ChosenIsBest ==
  ASSUME TypeOK, ListsAreFinite, NEW n \in Node, NEW configs \in MatchConfigsForNode(n), NEW card \in Card
  PROVE  Chosen(configs, n, card) \in Best(list, n, inventory[n], card)
<1>. DEFINE S == {c \in list : n \in SelectsNode[c]}
            k == Cardinality(S)
            w == Chosen(configs, n, card)
            matching == {i \in 1..k : Matches(configs[i], n, card)}
            eligible == {c \in list : Eligible(c, n, inventory[n], card)}
<1>1. IsFiniteSet(S)
  BY FS_Subset DEF ListsAreFinite
<1>2. /\ k \in Nat
      /\ configs \in [1..k -> S]
      /\ \A c \in S : \E i \in 1..k : configs[i] = c
  BY <1>1, ListHasAll DEF MatchConfigsForNode
<1>3. configs \in [1..k -> Config] /\ S \subseteq Config
  BY <1>2 DEF TypeOK
<1>4. Winner(w, configs, k, n, card)
  BY <1>2, <1>3, FoldChoosesBest
<1>5. \A c \in S : c \in eligible <=> Matches(c, n, card)
  BY DEF Matches, Eligible
<1>6. \A c \in eligible : \E i \in matching : configs[i] = c
  BY <1>2, <1>5 DEF Eligible
<1>7. \A i \in matching : configs[i] \in eligible
  BY <1>2, <1>5
<1>8. CASE eligible = {}
  BY <1>4, <1>7, <1>8 DEF Winner, Best
<1>9. CASE eligible # {}
  <2>1. PICK i \in matching : w = configs[i] /\ \A h \in matching : ~Better(configs[h], w)
    BY <1>4, <1>6, <1>9 DEF Winner
  <2>2. w \in eligible /\ \A d \in eligible : ~Better(d, w)
    BY <1>6, <1>7, <2>1
  <2>. QED BY <1>9, <2>2 DEF Best
<1>. QED BY <1>8, <1>9

(* The spec to be written has a type, is the best for every card of the node,  *)
(* and does not drain where somebody asked to skip it.                         *)
LEMMA NewSpecIsRight ==
  ASSUME TypeOK, ListsAreFinite, NEW n \in Node, NEW configs \in MatchConfigsForNode(n)
  PROVE  /\ NewSpec(configs, n) \in NodeSpec
         /\ \A card \in Card :
              NewSpec(configs, n).pfs[card] \in Best(list, n, inventory[n], card)
         /\ KnowsToSkip(NewSpec(configs, n))
<1>. DEFINE pfs == [c \in Card |-> Chosen(configs, n, c)]
            chosen == {pfs[c] : c \in Card} \ {NoConfig}
            skip == DrainSkip(chosen, spec[n].drainSkip)
<1>1. NewSpec(configs, n) = [pfs |-> pfs, drainSkip |-> skip]
  BY DEF NewSpec
<1>2. \A card \in Card : pfs[card] \in Best(list, n, inventory[n], card)
  BY ChosenIsBest
<1>3. \A card \in Card : Best(list, n, inventory[n], card) \subseteq Config \cup {NoConfig}
  BY DEF TypeOK, Best
<1>4. pfs \in [Card -> Config \cup {NoConfig}]
  BY <1>2, <1>3
<1>5. skip \in BOOLEAN
  BY DEF DrainSkip, TypeOK, NodeSpec
<1>6. ASSUME pfs # NoPFs, ~skip PROVE {pfs[c] : c \in Card} \cap SkipsDrain = {}
  <2>1. PICK c \in Card : pfs[c] # NoConfig
    BY <1>6 DEF NoPFs
  <2>2. chosen \cap SkipsDrain = {}
    BY <1>6, <2>1 DEF DrainSkip
  <2>. QED BY <2>2, ConfigAssumption
<1>. HIDE DEF pfs, skip
<1>7. NewSpec(configs, n).pfs = pfs /\ NewSpec(configs, n).drainSkip = skip
  BY <1>1
<1>8. NewSpec(configs, n) \in NodeSpec
  BY <1>1, <1>4, <1>5 DEF NodeSpec
<1>9. KnowsToSkip(NewSpec(configs, n))
  BY <1>6, <1>7 DEF KnowsToSkip
<1>. QED BY <1>2, <1>7, <1>8, <1>9

(* The clock does not stand behind any timestamp, and has not run ahead. *)
LEMMA NowIsLast ==
  ASSUME TypeOK, Dated
  PROVE  /\ Now \in 0..changes
         /\ \A c \in Config : created[c] <= Now
<1>. DEFINE T == {created[c] : c \in Config}
<1>1. T \in SUBSET Nat /\ T # {} /\ \A t \in T : t <= changes
  BY ConfigAssumption DEF TypeOK, Dated
<1>2. changes \in Nat
  BY BoundAssumption DEF TypeOK
<1>3. \E t \in T : \A u \in T : u <= t
  BY <1>1, <1>2, GreatestElement
<1>4. \E t \in T : \A c \in Config : created[c] <= t
  BY <1>3
<1>5. Now \in T /\ \A c \in Config : created[c] <= Now
  BY <1>4 DEF Now
<1>. QED BY <1>1, <1>2, <1>5

-----------------------------------------------------------------------------
(* The steps *)

(* Initially nothing exists and nothing is in hand. *)
LEMMA InitIInv == Init => IInv
<1>. SUFFICES ASSUME Init PROVE IInv
  OBVIOUS
<1>1. AnyNode \in Node /\ AnyConfig \in Config
  BY ConfigAssumption DEF AnyNode, AnyConfig
<1>2. EmptySpec \in NodeSpec
  BY DEF EmptySpec, NodeSpec, NoPFs
<1>3. 0 \in 0..MaxChanges /\ 0 \in 0..MaxFaults
  BY BoundAssumption
<1>8. TypeOK
  BY <1>1, <1>2, <1>3 DEF Init, TypeOK, NoInventory
<1>4. ListsAreFinite
  BY FS_EmptySet DEF Init, ListsAreFinite
<1>5. Dated
  BY DEF Init, Dated
<1>6. UpdateInHand
  BY DEF Init, UpdateInHand
<1>7. SelectedOnly /\ NobodyAskedToSkip
  BY DEF Init, SelectedOnly, NobodyAskedToSkip, EmptySpec, NoPFs
<1>. QED BY <1>4, <1>5, <1>6, <1>7, <1>8 DEF IInv

(* Every step keeps the types; a spec that is written is a spec. *)
LEMMA TypeStep == IInv /\ [Next]_vars => TypeOK'
<1>. SUFFICES ASSUME IInv, [Next]_vars PROVE TypeOK'
  OBVIOUS
<1>. USE DEF IInv, TypeOK, vars, clusterVars, objectVars, passVars
<1>0. /\ AnyNode \in Node /\ AnyConfig \in Config
      /\ EmptySpec \in NodeSpec
      /\ Fault => faults' \in 0..MaxFaults
      /\ Change => changes' \in 0..MaxChanges
  <2>1. MaxFaults \in Nat /\ MaxChanges \in Nat
    BY BoundAssumption
  <2>2. Fault => faults' \in 0..MaxFaults
    BY <2>1 DEF Fault
  <2>3. Change => changes' \in 0..MaxChanges
    BY <2>1 DEF Change
  <2>. QED
    BY <2>2, <2>3, ConfigAssumption DEF AnyNode, AnyConfig, EmptySpec, NodeSpec, NoPFs
<1>1. ASSUME NEW k \in Config, Begin(k) PROVE TypeOK'
  BY <1>1, <1>0 DEF Begin
<1>2. ASSUME ListFails PROVE TypeOK'
  BY <1>2, <1>0 DEF ListFails
<1>3. ASSUME NEW n \in Node, Match(n) PROVE TypeOK'
  <2>1. PICK configs \in MatchConfigsForNode(n) :
          IF NewSpec(configs, n) = spec[n]
          THEN UNCHANGED <<pc, node, new, fresh>>
          ELSE /\ pc' = "synchronize" /\ node' = n /\ new' = NewSpec(configs, n) /\ fresh' = TRUE
    BY <1>3 DEF Match
  <2>2. NewSpec(configs, n) \in NodeSpec
    BY NewSpecIsRight
  <2>. QED BY <1>3, <2>1, <2>2 DEF Match
<1>4. ASSUME NEW n \in Node, MatchFails(n) PROVE TypeOK'
  BY <1>4, <1>0 DEF MatchFails
<1>5. ASSUME UpdateNodeConfig PROVE TypeOK'
  BY <1>5, <1>0 DEF UpdateNodeConfig, WriteAllowed, NextNode, Forget
<1>6. ASSUME UpdateFails PROVE TypeOK'
  BY <1>6, <1>0 DEF UpdateFails
<1>7. ASSUME SetPropagationFailed PROVE TypeOK'
  BY <1>7, <1>0 DEF SetPropagationFailed, NextNode, Forget
<1>8. ASSUME SetPropagationFails PROVE TypeOK'
  BY <1>8, <1>0 DEF SetPropagationFails, NextNode, Forget
<1>9. ASSUME EndPass PROVE TypeOK'
  BY <1>9, <1>0 DEF EndPass, Requeue, Idle, Forget
<1>10. ASSUME EndPassFails PROVE TypeOK'
  BY <1>10, <1>0 DEF EndPassFails, Idle, Forget
<1>11. ASSUME NEW k \in Config, Timer(k) PROVE TypeOK'
  BY <1>11, <1>0 DEF Timer
<1>12. ASSUME Restart PROVE TypeOK'
  BY <1>12, <1>0 DEF Restart, Idle, Forget
<1>13. ASSUME NEW k \in Config, CreateConfig(k) PROVE TypeOK'
  <2>1. Now \in Nat /\ Now + 1 \in Nat
    BY NowIsLast
  <2>. QED BY <1>13, <1>0, <2>1 DEF CreateConfig
<1>14. ASSUME NEW k \in Config, DeleteConfig(k) PROVE TypeOK'
  BY <1>14, <1>0 DEF DeleteConfig
<1>15. ASSUME NEW n \in Node, ExposeInventory(n) PROVE TypeOK'
  BY <1>15, <1>0, ConfigAssumption DEF ExposeInventory, Outdates
<1>16. ASSUME NEW n \in Node, ApplyAndReport(n) PROVE TypeOK'
  <2>1. \A c \in Card : spec[n].pfs[c] \in Config \cup {NoConfig}
    BY DEF NodeSpec
  <2>. QED BY <1>16, <1>0, <2>1, ConfigAssumption DEF ApplyAndReport, Outdates
<1>17. ASSUME NEW n \in Node, DeleteNodeConfig(n) PROVE TypeOK'
  BY <1>17, <1>0 DEF DeleteNodeConfig, Outdates, NoInventory
<1>18. CASE UNCHANGED vars
  BY <1>18
<1>. QED
  BY <1>1, <1>2, <1>3, <1>4, <1>5, <1>6, <1>7, <1>8, <1>9,
     <1>10, <1>11, <1>12, <1>13, <1>14, <1>15, <1>16, <1>17, <1>18
     DEF Next, Pass, Daemon

(* Configurations come and go one by one, and each gets its timestamp when it   *)
(* comes.                                                                     *)
LEMMA ClusterStep == IInv /\ [Next]_vars => ListsAreFinite' /\ Dated'
<1>. SUFFICES ASSUME IInv, [Next]_vars PROVE ListsAreFinite' /\ Dated'
  OBVIOUS
<1>. USE DEF IInv, ListsAreFinite, Dated, clusterVars
<1>1. CASE UNCHANGED <<clusterVars, list>>
  BY <1>1
<1>2. CASE UNCHANGED clusterVars /\ list' = existing
  BY <1>2
<1>3. CASE UNCHANGED clusterVars /\ list' = {}
  BY <1>3, FS_EmptySet
<1>4. ASSUME NEW k \in Config, CreateConfig(k) PROVE ListsAreFinite' /\ Dated'
  <2>1. IsFiniteSet(existing \cup {k})
    BY FS_AddElement
  <2>2. PICK t \in {Now, Now + 1} : /\ t = Now => existing # {}
                                    /\ created' = [created EXCEPT ![k] = t]
    BY <1>4 DEF CreateConfig
  <2>3. changes \in Nat /\ changes' = changes + 1
    BY <1>4, BoundAssumption DEF CreateConfig, Change, TypeOK
  <2>4. Now \in Nat /\ Now <= changes /\ \A c \in Config : created[c] <= Now
    BY <2>3, NowIsLast
  <2>5. t \in Nat /\ t > 0 /\ t <= changes'
    <3>1. CASE t = Now
      <4>1. PICK c \in existing : created[c] > 0
        BY <2>2, <3>1
      <4>2. c \in Config /\ created[c] \in Nat /\ created[c] <= Now
        BY <2>4 DEF TypeOK
      <4>. QED BY <2>3, <2>4, <3>1, <4>1, <4>2
    <3>2. CASE t = Now + 1
      BY <2>3, <2>4, <3>2
    <3>. QED BY <2>2, <3>1, <3>2
  <2>6. \A c \in Config : created'[c] = IF c = k THEN t ELSE created[c]
    BY <2>2 DEF TypeOK
  <2>7. existing' = existing \cup {k} /\ list' = list
    BY <1>4 DEF CreateConfig, passVars
  <2>8. \A c \in existing' \cup list' : created'[c] > 0
    BY <2>5, <2>6, <2>7 DEF TypeOK
  <2>9. \A c \in Config : created'[c] <= changes'
    BY <2>3, <2>5, <2>6 DEF TypeOK
  <2>. QED BY <2>1, <2>7, <2>8, <2>9
<1>5. ASSUME NEW k \in Config, DeleteConfig(k) PROVE ListsAreFinite' /\ Dated'
  <2>1. IsFiniteSet(existing \ {k})
    BY FS_RemoveElement
  <2>2. changes \in Nat /\ changes' = changes + 1
    BY <1>5, BoundAssumption DEF DeleteConfig, Change, TypeOK
  <2>3. \A c \in Config : created[c] <= changes'
    BY <2>2 DEF TypeOK
  <2>. QED BY <1>5, <2>1, <2>3 DEF DeleteConfig, passVars
<1>. QED
  BY <1>1, <1>2, <1>3, <1>4, <1>5
  DEF Next, Pass, Daemon, Begin, ListFails, Match, MatchFails, UpdateNodeConfig, UpdateFails,
      SetPropagationFailed, SetPropagationFails, EndPass, EndPassFails, Timer, Restart,
      ExposeInventory, ApplyAndReport, DeleteNodeConfig, NextNode, Idle, vars, passVars

(* An object in hand whose inventory, list and timestamps are the same stays     *)
(* right.                                                                      *)
LEMMA HandIsStable ==
  ASSUME IInv, fresh => fresh' \in BOOLEAN, fresh' => fresh, UNCHANGED <<pc, node, new, list>>,
         fresh' => inventory'[node] = inventory[node],
         \A c \in list : created'[c] = created[c]
  PROVE  UpdateInHand'
<1>. SUFFICES ASSUME fresh' PROVE pc' = "synchronize" /\ BestInHand' /\ KnowsToSkip(new)'
  BY DEF UpdateInHand
<1>1. pc = "synchronize" /\ BestInHand /\ KnowsToSkip(new)
  BY DEF IInv, UpdateInHand
<1>2. KnowsToSkip(new)'
  BY <1>1 DEF KnowsToSkip
<1>3. ASSUME NEW card \in Card
      PROVE  new'.pfs[card] \in Best(list, node, inventory[node], card)'
  <2>1. new.pfs[card] \in Best(list, node, inventory[node], card)
    BY <1>1 DEF BestInHand
  <2>2. \A c, d \in list : Better(d, c)' <=> Better(d, c)
    BY DEF Better
  <2>. QED BY <2>1, <2>2 DEF Best, Eligible
<1>4. BestInHand'
  BY <1>3 DEF BestInHand
<1>. QED BY <1>1, <1>2, <1>4

(* Whatever happens between reading an object and writing it, the object in     *)
(* hand is right or somebody has written it: then the update will be refused.    *)
LEMMA HandStep == IInv /\ [Next]_vars => UpdateInHand'
<1>. SUFFICES ASSUME IInv, [Next]_vars PROVE UpdateInHand'
  OBVIOUS
<1>0. fresh => pc = "synchronize"
  BY DEF IInv, UpdateInHand
<1>1. CASE fresh' = FALSE
  BY <1>1 DEF UpdateInHand
<1>2. CASE pc # "synchronize" /\ UNCHANGED fresh
  BY <1>0, <1>2 DEF UpdateInHand, IInv, TypeOK
<1>3. ASSUME NEW n \in Node, Match(n) PROVE UpdateInHand'
  <2>1. PICK configs \in MatchConfigsForNode(n) :
          IF NewSpec(configs, n) = spec[n]
          THEN UNCHANGED <<pc, node, new, fresh>>
          ELSE /\ pc' = "synchronize" /\ node' = n /\ new' = NewSpec(configs, n) /\ fresh' = TRUE
    BY <1>3 DEF Match
  <2>2. CASE NewSpec(configs, n) = spec[n]
    BY <1>2, <1>3, <2>1, <2>2 DEF Match
  <2>3. CASE NewSpec(configs, n) # spec[n]
    <3>1. /\ UNCHANGED <<list, inventory, created>>
          /\ pc' = "synchronize" /\ node' = n /\ new' = NewSpec(configs, n)
      BY <1>3, <2>1, <2>3 DEF Match, clusterVars, objectVars
    <3>2. /\ \A card \in Card :
               NewSpec(configs, n).pfs[card] \in Best(list, n, inventory[n], card)
          /\ KnowsToSkip(NewSpec(configs, n))
      BY NewSpecIsRight DEF IInv
    <3>3. ASSUME NEW card \in Card
          PROVE  new'.pfs[card] \in Best(list, node, inventory[node], card)'
      BY <3>1, <3>2 DEF Best, Better, Eligible
    <3>4. BestInHand'
      BY <3>3 DEF BestInHand
    <3>5. KnowsToSkip(new)'
      BY <3>1, <3>2 DEF KnowsToSkip
    <3>. QED BY <3>1, <3>4, <3>5 DEF UpdateInHand
  <2>. QED BY <2>2, <2>3
<1>4. CASE UNCHANGED <<pc, node, new, fresh, list, inventory, created>>
  BY <1>4, HandIsStable DEF IInv, TypeOK
<1>5. ASSUME NEW k \in Config, CreateConfig(k) PROVE UpdateInHand'
  <2>1. created[k] = 0 /\ \A c \in list : created[c] > 0
    BY <1>5 DEF CreateConfig, IInv, Dated
  <2>2. \A c \in list : created'[c] = created[c]
    BY <1>5, <2>1 DEF CreateConfig, IInv, TypeOK
  <2>. QED BY <1>5, <2>2, HandIsStable DEF CreateConfig, objectVars, passVars, IInv, TypeOK
<1>6. ASSUME NEW n \in Node, ExposeInventory(n) \/ ApplyAndReport(n) \/ DeleteNodeConfig(n)
      PROVE  UpdateInHand'
  <2>1. /\ UNCHANGED <<pc, node, new, list, created>>
        /\ fresh' = (fresh /\ n # node)
        /\ \A m \in Node \ {n} : inventory'[m] = inventory[m]
    BY <1>6 DEF ExposeInventory, ApplyAndReport, DeleteNodeConfig, Outdates, clusterVars, IInv, TypeOK
  <2>. QED BY <2>1, HandIsStable DEF IInv, TypeOK
<1>. QED
  BY <1>1, <1>2, <1>3, <1>4, <1>5, <1>6
  DEF Next, Pass, Daemon, Begin, ListFails, MatchFails, UpdateNodeConfig, UpdateFails,
      SetPropagationFailed, SetPropagationFails, EndPass, EndPassFails, Timer, Restart,
      DeleteConfig, NextNode, Idle, Forget, clusterVars, objectVars, vars, passVars

(* What the update writes is right. *)
LEMMA UpdateWrites ==
  ASSUME IInv, UpdateNodeConfig
  PROVE  /\ spec' = [spec EXCEPT ![node] = new]
         /\ BestInHand /\ KnowsToSkip(new)
         /\ new # spec[node]
BY DEF IInv, UpdateNodeConfig, WriteAllowed, UpdateInHand, TypeOK

(* The spec of a node changes by the update of its object, or goes with it. *)
LEMMA SpecChanges ==
  ASSUME IInv, [Next]_vars
  PROVE  \/ UNCHANGED spec
         \/ UpdateNodeConfig
         \/ \E n \in Node : DeleteNodeConfig(n)
BY DEF Next, Pass, Daemon, Begin, ListFails, Match, MatchFails, UpdateFails, SetPropagationFailed,
       SetPropagationFails, EndPass, EndPassFails, Timer, Restart, CreateConfig, DeleteConfig,
       ExposeInventory, ApplyAndReport, NextNode, Idle, clusterVars, objectVars, vars

(* Every step keeps what holds of the specs. *)
LEMMA SpecStep == IInv /\ [Next]_vars => SelectedOnly' /\ NobodyAskedToSkip'
<1>. SUFFICES ASSUME IInv, [Next]_vars PROVE SelectedOnly' /\ NobodyAskedToSkip'
  OBVIOUS
<1>. USE DEF IInv
<1>1. CASE UNCHANGED spec
  BY <1>1 DEF SelectedOnly, NobodyAskedToSkip
<1>2. CASE UpdateNodeConfig
  <2>1. \A n \in Node : spec'[n] = IF n = node THEN new ELSE spec[n]
    BY <1>2, UpdateWrites DEF TypeOK
  <2>2. ASSUME NEW card \in Card, new.pfs[card] # NoConfig
        PROVE  node \in SelectsNode[new.pfs[card]] /\ card \in SelectsCard[new.pfs[card]]
    <3>1. new.pfs[card] \in Best(list, node, inventory[node], card)
      BY <1>2, UpdateWrites DEF BestInHand
    <3>. QED BY <2>2, <3>1 DEF Best, Eligible
  <2>3. SelectedOnly'
    BY <2>1, <2>2 DEF SelectedOnly
  <2>4. KnowsToSkip(new)
    BY <1>2, UpdateWrites
  <2>5. NobodyAskedToSkip'
    BY <2>1, <2>4 DEF NobodyAskedToSkip, KnowsToSkip
  <2>. QED BY <2>3, <2>5
<1>3. ASSUME NEW n \in Node, DeleteNodeConfig(n) PROVE SelectedOnly' /\ NobodyAskedToSkip'
  <2>1. \A m \in Node : spec'[m] = IF m = n THEN EmptySpec ELSE spec[m]
    BY <1>3 DEF DeleteNodeConfig, TypeOK
  <2>2. EmptySpec.pfs = NoPFs /\ \A card \in Card : NoPFs[card] = NoConfig
    BY DEF EmptySpec, NoPFs
  <2>. QED BY <2>1, <2>2 DEF SelectedOnly, NobodyAskedToSkip
<1>. QED BY <1>1, <1>2, <1>3, SpecChanges

(* The invariant is inductive. *)
LEMMA NextIInv == IInv /\ [Next]_vars => IInv'
BY TypeStep, ClusterStep, HandStep, SpecStep DEF IInv

-----------------------------------------------------------------------------
(* Theorems *)

(* The invariant holds in every reachable state. *)
LEMMA Invariance == Spec => []IInv
BY InitIInv, NextIInv, PTL DEF Spec

(* Every variable keeps its type, and an update in hand that is up to date would *)
(* change the object: the controller never writes an object for nothing.        *)
THEOREM TypeCorrect == Spec => []TypeOK
<1>1. IInv => TypeOK
  BY DEF IInv
<1>. QED BY <1>1, Invariance, PTL

(* No card is given a configuration that does not select its node and the card,  *)
(* over passes that overlap with changes, deletions and restarts.               *)
THEOREM OnlySelectedCards == Spec => []SelectedOnly
<1>1. IInv => SelectedOnly
  BY DEF IInv
<1>. QED BY <1>1, Invariance, PTL

(* A node whose spec says that it is to be drained has no card with a            *)
(* configuration that asks to skip the drain.                                  *)
THEOREM DrainOnlyUnopposed == Spec => []NobodyAskedToSkip
<1>1. IInv => NobodyAskedToSkip
  BY DEF IInv
<1>. QED BY <1>1, Invariance, PTL

(* What the controller writes for a card is a best one of the configurations it  *)
(* listed, by the inventory the object has when it is written.                 *)
THEOREM WritesTheBest == Spec => BestIsWritten
<1>1. ASSUME IInv, [Next]_vars, NEW n \in Node, spec'[n] # spec[n], inventory'[n] = inventory[n],
             NEW card \in Card
      PROVE  spec'[n].pfs[card] \in Best(list, n, inventory[n], card)
  <2>1. CASE UpdateNodeConfig
    <3>a. spec \in [Node -> NodeSpec] /\ spec' = [spec EXCEPT ![node] = new]
      BY <1>1, <2>1, UpdateWrites DEF IInv, TypeOK
    <3>1. n = node /\ spec'[n] = new
      BY <1>1, <3>a
    <3>2. BestInHand
      BY <1>1, <2>1, UpdateWrites
    <3>. QED BY <3>1, <3>2 DEF BestInHand
  <2>2. ASSUME NEW m \in Node, DeleteNodeConfig(m) PROVE FALSE
    <3>a. spec \in [Node -> NodeSpec] /\ spec' = [spec EXCEPT ![m] = EmptySpec]
      BY <1>1, <2>2 DEF DeleteNodeConfig, IInv, TypeOK
    <3>1. m = n
      BY <1>1, <3>a
    <3>2. inventory'[n] = NoInventory /\ inventory[n] # NoInventory
      BY <1>1, <2>2, <3>1 DEF DeleteNodeConfig, Exposed, IInv, TypeOK
    <3>. QED BY <1>1, <3>2
  <2>. QED BY <1>1, <2>1, <2>2, SpecChanges
<1>2. IInv /\ [Next]_vars =>
        [\A n \in Node :
           spec'[n] # spec[n] /\ inventory'[n] = inventory[n] =>
             \A card \in Card :
               spec'[n].pfs[card] \in Best(list, n, inventory[n], card)]_vars
  BY <1>1
<1>. QED BY <1>2, Invariance, PTL DEF Spec, BestIsWritten
=============================================================================
