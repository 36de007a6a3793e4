------------------------- MODULE ConfiguratorProofs -------------------------
(***************************************************************************)
(* Proofs about Configurator: what ApplySpec does to the cards of a node,  *)
(* for any cards, configurations and requests, and with any faults.        *)
(*                                                                         *)
(* A worker's state is its job and the card it has in work.  The inductive *)
(* invariant says what that card is at each step of the job (Prepared), as *)
(* long as neither the node nor another worker has changed one of the      *)
(* job's cards, and what the cards before and after it are (Progress).     *)
(* Every step of a worker is one of a few shapes: it goes on with its card *)
(* (Advances), returns, goes to the next card, begins or restarts; each    *)
(* shape is a step of CardContract.                                        *)
(***************************************************************************)
EXTENDS Configurator, SetInduction

-----------------------------------------------------------------------------
(* Types *)

Steps ==
  {"idle", "stop", "unbind VFs", "remove VFs", "unbind", "reset", "bind", "windows", "run",
   "VFs", "more VFs", "bind VFs", "done"}

(* The steps of a card that is configured and not only cleaned. *)
ConfigSteps == {"bind", "windows", "run", "VFs", "more VFs", "bind VFs"}

Files ==
  {NoFile} \cup {FFTLut[f] : f \in Config} \cup {DefaultWindows[c] : c \in Card}

Hardware ==
  [driver : Driver, vfs : Nat, bound : SUBSET Nat, regs : Config \cup {NoConfig},
   alive : BOOLEAN, sock : BOOLEAN, windows : Files]

(* A card: its bound VFs exist, and no process holds a PF without a driver. *)
CardOK(h) ==
  /\ h \in Hardware
  /\ h.bound \subseteq 1..h.vfs
  /\ h.alive => h.driver # NoDriver

Asks == {NoAsk} \cup UNION {Requests[w] : w \in Worker}

Inventories ==
  {NoAsk} \cup UNION {[S -> [vfs : Nat, driver : Driver]] : S \in SUBSET Card}

Jobs == [asked : Asks, inv : Inventories, card : Nat, step : Steps, left : SUBSET Nat]

(* A write that the code makes: its argument is what the file takes. *)
Fits(e) ==
  /\ e.card \in Card
  /\ e.op \in {"unbind VF", "bind VF", "set VFs", "unbind PF", "bind PF", "reset"}
  /\ e.op = "set VFs" => e.arg \in Nat
  /\ e.op = "bind PF" => e.arg \in Driver

Types ==
  /\ hw \in [Card -> Hardware]
  /\ \A c \in Card : CardOK(hw[c])
  /\ job \in [Worker -> Jobs]
  /\ path \in Files
  /\ mixed \subseteq Worker
  /\ \A e \in late : Fits(e)
  /\ result \in [Worker -> {"none", "ok", "error"}]
  /\ hit \in [Worker -> BOOLEAN]
  /\ crossed \subseteq Worker
  /\ spent \in [Fault -> Nat]

-----------------------------------------------------------------------------
(* The inductive invariant *)

(* A job is one the worker may be asked for, on one of its cards that is due. *)
Shape(w, j) ==
  /\ j.asked \in Requests[w]
  /\ j.inv \in [DOMAIN j.asked -> [vfs : Nat, driver : Driver]]
  /\ j.card \in DOMAIN j.asked
  /\ j.step # "done" => j.card \in Due(j.asked, j.inv)
  /\ j.step \in ConfigSteps => j.asked[j.card] \in Config
  /\ j.left # {} <=> j.step \in {"unbind VFs", "bind VFs"}

JobsFit ==
  \A w \in Worker :
    IF job[w].step = "idle"
    THEN job[w] = NoJob /\ ~hit[w] /\ w \notin crossed
    ELSE Shape(w, job[w])

(* What card h is at the step of job j that has it in work. *)
Prepared(j, h) ==
  LET f == j.asked[j.card]
  IN /\ j.step \in {"stop", "unbind VFs", "remove VFs"} => h.vfs = j.inv[j.card].vfs
     /\ j.step \in {"unbind", "reset", "bind", "windows", "run"} => h.vfs = 0
     /\ j.step \in {"VFs", "more VFs", "bind VFs"} =>
          h.driver = PFDriver[f] /\ h.regs = f /\ h.alive = (PFDriver[f] = VfioPci)
     /\ j.step = "bind VFs" => h.vfs = VFAmount[f] /\ h.bound \cup j.left = 1..h.vfs
     /\ j.step = "done" /\ j.card \in Due(j.asked, j.inv) => StateOf(h) = f

(* The cards of job j: those to come, and those that are never due, have the VFs *)
(* they had, those done with are as requested.                                 *)
Progress(j, cards) ==
  /\ \A c \in DOMAIN j.asked :
       c \notin Due(j.asked, j.inv) \/ c > j.card => cards[c].vfs = j.inv[c].vfs
  /\ \A c \in Due(j.asked, j.inv) : c < j.card => StateOf(cards[c]) = j.asked[c]
  /\ Prepared(j, cards[j.card])

WorkInHand ==
  \A w \in Worker :
    job[w].step # "idle" /\ ~hit[w] /\ w \notin crossed => Progress(job[w], hw)

(* The windows file of configuration f on card c. *)
Own(c, f) == IF FFTLut[f] = NoFile THEN DefaultWindows[c] ELSE FFTLut[f]

(* The path is that of the worker who is about to run pf_bb_config, unless it is *)
(* mixed up, and so is what pf_bb_config was given, as long as nobody else has  *)
(* run it again.                                                               *)
PathKnown(w) ==
  LET c == job[w].card
      f == Asked(w)
      known == w \notin mixed /\ DefaultWindows[c] # NoFile
  IN /\ job[w].step = "run" /\ known => path = Own(c, f)
     /\ job[w].step = "VFs" /\ known /\ w \notin crossed /\ hw[c].regs = f =>
          hw[c].windows = Own(c, f)

PathInHand == \A w \in Worker : PathKnown(w)

IInv ==
  /\ Types
  /\ JobsFit
  /\ WorkInHand
  /\ ResetsQuietCards
  /\ PathInHand

-----------------------------------------------------------------------------
(* The operators *)

(* The first of some cards, or of some VFs, is one of them, and before the others. *)
LEMMA FirstIsLeast ==
  ASSUME NEW S \in SUBSET Nat, S # {}
  PROVE  First(S) \in S /\ \A d \in S : First(S) <= d
<1>1. \E c \in S : \A d \in S : c <= d
  BY LeastElement
<1>. QED BY <1>1 DEF First

(* A state of a card stands for one state of the contract. *)
LEMMA StateOfType ==
  ASSUME NEW h
  PROVE  StateOf(h) \in Config \cup {NoConfig, Broken}
BY DEF StateOf

(* A card with VFs that serves f stands for f, one without stands for none. *)
LEMMA StateOfServing ==
  ASSUME NEW h, NEW f \in Config, Serves(h, f)
  PROVE  StateOf(h) = f
<1>1. h.vfs # 0 /\ h.regs = f
  BY ConfigAssumption DEF Serves
<1>. QED BY <1>1 DEF StateOf

(* A card without VFs stands for no configuration. *)
LEMMA StateOfNothing ==
  ASSUME NEW h, h.vfs = 0
  PROVE  StateOf(h) = NoConfig
BY DEF StateOf

(* The socket file makes no difference to what a card stands for. *)
LEMMA StateOfSock ==
  ASSUME NEW h \in Hardware, NEW b \in BOOLEAN
  PROVE  StateOf([h EXCEPT !.sock = b]) = StateOf(h)
<1>. DEFINE g == [h EXCEPT !.sock = b]
<1>1. /\ g.driver = h.driver /\ g.vfs = h.vfs /\ g.bound = h.bound
      /\ g.regs = h.regs /\ g.alive = h.alive
  BY DEF Hardware
<1>. HIDE DEF g
<1>2. Serves(g, g.regs) <=> Serves(h, h.regs)
  BY <1>1 DEF Serves
<1>3. StateOf(g) = StateOf(h)
  BY <1>1, <1>2 DEF StateOf
<1>. QED BY <1>3 DEF g

(* The kernel's answer to a write that it takes leaves a card that may be. *)
LEMMA EffectKeeps ==
  ASSUME NEW h, CardOK(h), NEW e, Fits(e), Accepted(h, e), ~Blocked(h, e)
  PROVE  CardOK(Effect(h, e))
<1>. USE DEF CardOK, Hardware
<1>1. CASE e.op = "unbind VF"
  BY <1>1 DEF Effect
<1>2. CASE e.op = "bind VF"
  <2>1. e.arg \in 1..h.vfs /\ h.bound \cup {e.arg} \subseteq 1..h.vfs
    BY <1>2 DEF Accepted
  <2>2. Effect(h, e) = [h EXCEPT !.bound = @ \cup {e.arg}]
    BY <1>2 DEF Effect
  <2>3. e.arg \in Nat
    BY <2>1
  <2>. QED BY <2>1, <2>2, <2>3
<1>3. CASE e.op = "set VFs"
  BY <1>3 DEF Effect, SetVFs, Fits
<1>4. CASE e.op = "unbind PF"
  BY <1>4 DEF Effect, Blocked, Driver
<1>5. CASE e.op = "bind PF"
  BY <1>5 DEF Effect, Accepted, Fits
<1>6. CASE e.op = "reset"
  BY <1>6 DEF Effect, Files
<1>. QED BY <1>1, <1>2, <1>3, <1>4, <1>5, <1>6 DEF Fits

(* A write never starts a process. *)
LEMMA EffectStartsNothing ==
  ASSUME NEW h \in Hardware, NEW e, Fits(e)
  PROVE  Effect(h, e).alive = h.alive /\ Effect(h, e).sock = h.sock
BY DEF Effect, SetVFs, Fits, Hardware

-----------------------------------------------------------------------------
(* The shapes of a worker's steps *)

SameTask(j, i) == j.asked = i.asked /\ j.inv = i.inv /\ j.card = i.card

(* The job is now j, and the card in work is now h. *)
Goes(w, j, h) ==
  /\ job' = [job EXCEPT ![w] = j]
  /\ hw' = [hw EXCEPT ![job[w].card] = h]

(* The worker goes on with its card, and leaves it as the next step needs it; it *)
(* resets no card that a process serves, if it has the card to itself.         *)
Advances(w) ==
  /\ job[w].step \notin {"idle", "done"}
  /\ \E j \in Jobs, h \in Hardware :
       /\ Goes(w, j, h)
       /\ SameTask(j, job[w]) /\ j.step # "idle" /\ Shape(w, j)
       /\ CardOK(h)
       /\ w \notin crossed /\ j.step \in {"reset", "bind"} => ~h.alive
       /\ ~hit[w] /\ Prepared(job[w], hw[job[w].card]) => Prepared(j, h)
  /\ UNCHANGED <<result, hit>>

(* ApplySpec returns an error; the card stays what it is. *)
GivesUp(w) ==
  /\ job[w].step # "idle"
  /\ \E h \in Hardware :
       /\ Goes(w, NoJob, h)
       /\ CardOK(h)
       /\ StateOf(h) = StateOf(hw[job[w].card])
  /\ result' = [result EXCEPT ![w] = "error"]
  /\ hit' = [hit EXCEPT ![w] = FALSE]

(* What is known of a worker that has a job. *)
LEMMA JobFacts ==
  ASSUME IInv, NEW w \in Worker, job[w].step # "idle"
  PROVE  /\ job[w] \in Jobs /\ Shape(w, job[w])
         /\ job[w].card \in Card /\ job[w].card \in Nat
         /\ hw[job[w].card] \in Hardware /\ CardOK(hw[job[w].card])
         /\ Asked(w) \in Config \cup {NoConfig}
         /\ hw = [hw EXCEPT ![job[w].card] = hw[job[w].card]]
         /\ job = [job EXCEPT ![w] = job[w]]
<1>1. job[w] \in Jobs /\ Shape(w, job[w])
  BY DEF IInv, Types, JobsFit
<1>2. job[w].card \in Card /\ Asked(w) \in Config \cup {NoConfig}
  BY <1>1, RequestAssumption DEF Shape, Asked
<1>. QED BY <1>1, <1>2, CardAssumption DEF IInv, Types

(* A job with another step and other VFs to go through. *)
LEMMA JobWith ==
  ASSUME NEW i \in Jobs, NEW y \in Steps, NEW x \in SUBSET Nat
  PROVE  /\ [i EXCEPT !.step = y] \in Jobs
         /\ SameTask([i EXCEPT !.step = y], i)
         /\ [i EXCEPT !.step = y].step = y /\ [i EXCEPT !.step = y].left = i.left
         /\ [i EXCEPT !.step = y, !.left = x] \in Jobs
         /\ SameTask([i EXCEPT !.step = y, !.left = x], i)
         /\ [i EXCEPT !.step = y, !.left = x].step = y
         /\ [i EXCEPT !.step = y, !.left = x].left = x
         /\ [i EXCEPT !.left = x, !.step = y] = [i EXCEPT !.step = y, !.left = x]
BY DEF Jobs, SameTask

(* A job on the same card is fit when its step is. *)
LEMMA ShapeWith ==
  ASSUME NEW w \in Worker, NEW i, Shape(w, i), NEW j, SameTask(j, i),
         j.step # "done" => i.step # "done",
         j.step \in ConfigSteps => i.asked[i.card] \in Config,
         j.left # {} <=> j.step \in {"unbind VFs", "bind VFs"}
  PROVE  Shape(w, j)
BY DEF Shape, SameTask

(* Going on without touching the card. *)
LEMMA GoesOn ==
  ASSUME IInv, NEW w \in Worker, job[w].step \notin {"idle", "done"},
         NEW j \in Jobs, SameTask(j, job[w]), j.step # "idle", Shape(w, j),
         w \notin crossed /\ j.step \in {"reset", "bind"} => ~hw[job[w].card].alive,
         ~hit[w] /\ Prepared(job[w], hw[job[w].card]) => Prepared(j, hw[job[w].card]),
         Goto(w, j), UNCHANGED <<hw, result, hit>>
  PROVE  Advances(w)
BY JobFacts DEF Advances, Goes, Goto

(* Returning without touching the card. *)
LEMMA ReturnGivesUp ==
  ASSUME IInv, NEW w \in Worker, job[w].step # "idle", Return(w, "error"), UNCHANGED hw
  PROVE  GivesUp(w)
BY JobFacts DEF GivesUp, Goes, Goto, Return

(* A write to sysfs is done and the job goes on, or it is refused or given up and *)
(* ApplySpec returns.                                                           *)
LEMMA SysfsStep ==
  ASSUME IInv, NEW w \in Worker, job[w].step \notin {"idle", "done"},
         NEW e, Fits(e), e.card = job[w].card,
         NEW j \in Jobs, SameTask(j, job[w]), j.step # "idle", Shape(w, j),
         ~Blocked(hw[e.card], e) /\ w \notin crossed /\ j.step \in {"reset", "bind"} =>
           ~hw[e.card].alive,
         Accepted(hw[e.card], e) /\ ~hit[w] /\ Prepared(job[w], hw[e.card]) =>
           Prepared(j, Effect(hw[e.card], e)),
         Sysfs(w, e, j)
  PROVE  Advances(w) \/ GivesUp(w)
<1>. DEFINE h == hw[e.card]
<1>1. CASE /\ Accepted(h, e) /\ ~Blocked(h, e)
           /\ hw' = [hw EXCEPT ![e.card] = Effect(h, e)]
           /\ Goto(w, j)
           /\ UNCHANGED <<late, result, hit, spent>>
  <2>1. CardOK(h) /\ h \in Hardware
    BY JobFacts
  <2>2. CardOK(Effect(h, e)) /\ Effect(h, e) \in Hardware /\ Effect(h, e).alive = h.alive
    BY <1>1, <2>1, EffectKeeps, EffectStartsNothing DEF CardOK
  <2>. QED BY <1>1, <2>2 DEF Advances, Goes, Goto
<1>2. CASE Return(w, "error") /\ UNCHANGED hw
  BY <1>2, ReturnGivesUp
<1>. QED BY <1>1, <1>2 DEF Sysfs

-----------------------------------------------------------------------------
(* cleanAcceleratorConfig, step by step *)

(* With pf_bb_config gone, or taken for gone, its VFs are listed. *)
LEMMA UnbindingFits ==
  ASSUME IInv, NEW w \in Worker, job[w].step = "stop", NEW h \in Hardware, CardOK(h),
         h.vfs = hw[job[w].card].vfs,
         Goes(w, Unbinding(w), h), UNCHANGED <<result, hit>>
  PROVE  Advances(w)
<1>. DEFINE j == Unbinding(w)
            vfs == 1..hw[job[w].card].vfs
<1>1. job[w] \in Jobs /\ Shape(w, job[w]) /\ hw[job[w].card] \in Hardware
  BY JobFacts
<1>2. vfs \in SUBSET Nat
  BY <1>1 DEF Hardware
<1>3. /\ j \in Jobs /\ SameTask(j, job[w])
      /\ j.step = IF vfs = {} THEN "remove VFs" ELSE "unbind VFs"
      /\ j.left = vfs
  BY <1>1, <1>2 DEF Unbinding, Jobs, Steps, SameTask
<1>4. Shape(w, j)
  BY <1>1, <1>3, ShapeWith DEF ConfigSteps
<1>5. j.step \in {"unbind VFs", "remove VFs"}
  BY <1>3
<1>. HIDE DEF j
<1>6. Prepared(job[w], hw[job[w].card]) => Prepared(j, h)
  BY <1>3, <1>5 DEF Prepared, SameTask
<1>. QED BY <1>3, <1>4, <1>5, <1>6 DEF Advances, j

(* pkill and the removal of the socket file leave the VFs. *)
LEMMA StopStep ==
  ASSUME IInv, NEW w \in Worker, StopPfBBConfig(w)
  PROVE  Advances(w)
<1>. DEFINE h == [hw[job[w].card] EXCEPT !.alive = FALSE, !.sock = FALSE]
<1>1. job[w].step = "stop" /\ UNCHANGED <<result, hit>>
  BY DEF StopPfBBConfig
<1>2. hw[job[w].card] \in Hardware /\ CardOK(hw[job[w].card])
  BY <1>1, JobFacts
<1>3. h \in Hardware /\ CardOK(h) /\ h.vfs = hw[job[w].card].vfs /\ h.alive = FALSE
  BY <1>2 DEF Hardware, CardOK
<1>4. Goes(w, Unbinding(w), h)
  BY DEF StopPfBBConfig, Goes, Goto
<1>. QED BY <1>1, <1>3, <1>4, UnbindingFits

(* A pkill that fails is an error only where there is a socket file. *)
LEMMA StopFailsStep ==
  ASSUME IInv, NEW w \in Worker, StopFails(w)
  PROVE  Advances(w) \/ GivesUp(w)
<1>. DEFINE h == [hw[job[w].card] EXCEPT !.sock = FALSE]
<1>1. job[w].step = "stop" /\ hw' = [hw EXCEPT ![job[w].card] = h]
  BY DEF StopFails
<1>2. hw[job[w].card] \in Hardware /\ CardOK(hw[job[w].card])
  BY <1>1, JobFacts
<1>3. /\ h \in Hardware /\ CardOK(h) /\ h.vfs = hw[job[w].card].vfs
      /\ h.alive = hw[job[w].card].alive
  BY <1>2 DEF Hardware, CardOK
<1>4. StateOf(h) = StateOf(hw[job[w].card])
  BY <1>2, StateOfSock
<1>5. CASE Return(w, "error")
  BY <1>1, <1>3, <1>4, <1>5 DEF GivesUp, Goes, Return, Goto
<1>6. CASE Goto(w, Unbinding(w)) /\ UNCHANGED <<result, hit>>
  BY <1>1, <1>3, <1>6, UnbindingFits DEF Goes, Goto
<1>. QED BY <1>5, <1>6 DEF StopFails

(* One VF after the other is unbound; the last one ends the step. *)
LEMMA UnbindVFsStep ==
  ASSUME IInv, NEW w \in Worker, UnbindVFs(w)
  PROVE  Advances(w) \/ GivesUp(w)
<1>. DEFINE i == job[w]
            c == i.card
            v == First(i.left)
            y == IF i.left = {v} THEN "remove VFs" ELSE i.step
            j == [i EXCEPT !.left = @ \ {v}, !.step = IF i.left = {v} THEN "remove VFs" ELSE @]
            e == Write("unbind VF", c, v)
<1>1. i.step = "unbind VFs" /\ i \in Jobs /\ Shape(w, i) /\ c \in Card /\ i.left \in SUBSET Nat
  BY JobFacts DEF UnbindVFs, Jobs
<1>2. v \in i.left
  BY <1>1, FirstIsLeast DEF Shape
<1>3. j \in Jobs /\ SameTask(j, i) /\ j.step = y /\ j.left = i.left \ {v}
  BY <1>1 DEF Jobs, Steps, SameTask
<1>. HIDE DEF j, v
<1>4. j.step \in {"unbind VFs", "remove VFs"} /\ (j.left # {} <=> j.step = "unbind VFs")
  <2>1. CASE i.left = {v}
    BY <1>1, <1>3, <2>1
  <2>2. CASE i.left # {v}
    BY <1>1, <1>2, <1>3, <2>2
  <2>. QED BY <2>1, <2>2
<1>5. Shape(w, j)
  BY <1>1, <1>3, <1>4, ShapeWith DEF ConfigSteps
<1>6. \A h : h.vfs = hw[c].vfs /\ Prepared(i, hw[c]) => Prepared(j, h)
  BY <1>1, <1>3, <1>4 DEF Prepared, SameTask
<1>7. CASE Goto(w, j) /\ UNCHANGED <<hw, result, hit>>
  BY <1>1, <1>3, <1>4, <1>5, <1>6, <1>7, GoesOn
<1>8. CASE Sysfs(w, e, j)
  <2>1. e.card = c /\ e.op = "unbind VF" /\ Fits(e)
    BY <1>1 DEF Write, Fits
  <2>2. Effect(hw[c], e).vfs = hw[c].vfs
    BY <1>1, <2>1, JobFacts DEF Effect, Hardware
  <2>. QED BY <1>1, <1>3, <1>4, <1>5, <1>6, <1>8, <2>1, <2>2, SysfsStep
<1>. QED BY <1>7, <1>8 DEF UnbindVFs, j, v

(* Another step for the same card, where no VFs are gone through. *)
LEMMA StepTo ==
  ASSUME IInv, NEW w \in Worker, NEW name \in Steps \ {"idle", "unbind VFs", "bind VFs"},
         job[w].step \notin {"idle", "done", "unbind VFs", "bind VFs"},
         name \in ConfigSteps => Asked(w) \in Config
  PROVE  /\ Step(w, name) \in Jobs /\ SameTask(Step(w, name), job[w])
         /\ Step(w, name).step = name
         /\ Shape(w, Step(w, name))
<1>1. job[w] \in Jobs /\ Shape(w, job[w])
  BY JobFacts
<1>2. /\ Step(w, name) \in Jobs /\ SameTask(Step(w, name), job[w])
      /\ Step(w, name).step = name /\ Step(w, name).left = job[w].left
  BY <1>1, JobWith DEF Step, Jobs
<1>3. job[w].left = {}
  BY <1>1 DEF Shape
<1>. QED BY <1>1, <1>2, <1>3, ShapeWith DEF Asked

(* The VFs are removed, by a driver that the inventory saw. *)
LEMMA RemoveVFsStep ==
  ASSUME IInv, NEW w \in Worker, RemoveVFs(w)
  PROVE  Advances(w) \/ GivesUp(w)
<1>. DEFINE i == job[w]
            c == i.card
            j == Step(w, "unbind")
            e == Write("set VFs", c, 0)
<1>1. i.step = "remove VFs" /\ c \in Card /\ hw[c] \in Hardware
  BY JobFacts DEF RemoveVFs
<1>2. j \in Jobs /\ SameTask(j, i) /\ j.step = "unbind" /\ Shape(w, j)
  BY <1>1, StepTo DEF Steps, ConfigSteps
<1>. HIDE DEF j
<1>3. \A h : h.vfs = 0 => Prepared(j, h)
  BY <1>2 DEF Prepared
<1>4. CASE (Inventoried(w).vfs = 0 \/ hw[c].vfs = 0) /\ Goto(w, j) /\ UNCHANGED <<hw, result, hit>>
  <2>1. Prepared(i, hw[c]) => hw[c].vfs = 0
    BY <1>1, <1>4 DEF Prepared, Inventoried
  <2>. QED BY <1>1, <1>2, <1>3, <1>4, <2>1, GoesOn
<1>5. CASE Return(w, "error") /\ UNCHANGED hw
  BY <1>1, <1>5, ReturnGivesUp
<1>6. CASE Sysfs(w, e, j)
  <2>1. e.card = c /\ e.op = "set VFs" /\ e.arg = 0 /\ Fits(e)
    BY <1>1 DEF Write, Fits
  <2>2. Effect(hw[c], e).vfs = 0
    BY <1>1, <2>1 DEF Effect, SetVFs, Hardware
  <2>. QED BY <1>1, <1>2, <1>3, <1>6, <2>1, <2>2, SysfsStep
<1>. QED BY <1>4, <1>5, <1>6 DEF RemoveVFs, j

(* The PF is unbound, if it is not by now. *)
LEMMA UnbindPFStep ==
  ASSUME IInv, NEW w \in Worker, UnbindPF(w)
  PROVE  Advances(w) \/ GivesUp(w)
<1>. DEFINE i == job[w]
            c == i.card
            j == Step(w, "reset")
            e == Write("unbind PF", c, NoDriver)
<1>1. i.step = "unbind" /\ c \in Card /\ hw[c] \in Hardware
  BY JobFacts DEF UnbindPF
<1>2. j \in Jobs /\ SameTask(j, i) /\ j.step = "reset" /\ Shape(w, j)
  BY <1>1, StepTo DEF Steps, ConfigSteps
<1>. HIDE DEF j
<1>3. \A h : h.vfs = hw[c].vfs /\ Prepared(i, hw[c]) => Prepared(j, h)
  BY <1>1, <1>2 DEF Prepared
<1>4. CASE hw[c].driver = NoDriver /\ Goto(w, j) /\ UNCHANGED <<hw, result, hit>>
  <2>1. ~hw[c].alive
    BY <1>1, <1>4, JobFacts DEF CardOK
  <2>. QED BY <1>1, <1>2, <1>3, <1>4, <2>1, GoesOn
<1>5. CASE Sysfs(w, e, j)
  <2>1. e.card = c /\ e.op = "unbind PF" /\ Fits(e)
    BY <1>1 DEF Write, Fits
  <2>2. Effect(hw[c], e).vfs = hw[c].vfs
    BY <1>1, <2>1 DEF Effect, Hardware
  <2>3. ~Blocked(hw[c], e) => ~hw[c].alive
    BY <2>1 DEF Blocked
  <2>. QED BY <1>1, <1>2, <1>3, <1>5, <2>1, <2>2, <2>3, SysfsStep
<1>. QED BY <1>4, <1>5 DEF UnbindPF, j

(* The card of a withdrawn configuration is done with its reset. *)
LEMMA FlrResetStep ==
  ASSUME IInv, NEW w \in Worker, FlrReset(w)
  PROVE  Advances(w) \/ GivesUp(w)
<1>. DEFINE i == job[w]
            c == i.card
            j == Step(w, IF Asked(w) = NoConfig THEN "done" ELSE "bind")
            e == Write("reset", c, NoDriver)
<1>1. /\ i.step = "reset" /\ c \in Card /\ hw[c] \in Hardware
      /\ Asked(w) \in Config \cup {NoConfig}
  BY JobFacts DEF FlrReset
<1>2. /\ j \in Jobs /\ SameTask(j, i) /\ Shape(w, j)
      /\ j.step = IF Asked(w) = NoConfig THEN "done" ELSE "bind"
  BY <1>1, StepTo DEF Steps, ConfigSteps
<1>. HIDE DEF j
<1>3. ASSUME NEW h, h.vfs = 0 PROVE Prepared(j, h)
  <2>1. CASE Asked(w) = NoConfig
    BY <1>2, <1>3, <2>1, StateOfNothing DEF Prepared, SameTask, Asked
  <2>2. CASE Asked(w) # NoConfig
    BY <1>2, <1>3, <2>2 DEF Prepared
  <2>. QED BY <2>1, <2>2
<1>4. Prepared(i, hw[c]) => hw[c].vfs = 0
  BY <1>1 DEF Prepared
<1>5. e.card = c /\ e.op = "reset" /\ Fits(e)
  BY <1>1 DEF Write, Fits
<1>6. Effect(hw[c], e).vfs = hw[c].vfs
  BY <1>1, <1>5 DEF Effect, Hardware
<1>7. Sysfs(w, e, j)
  BY DEF FlrReset, j
<1>8. j.step # "idle" /\ (w \notin crossed => ~hw[c].alive)
  BY <1>1, <1>2 DEF IInv, ResetsQuietCards
<1>. QED BY <1>1, <1>2, <1>3, <1>4, <1>5, <1>6, <1>7, <1>8, SysfsStep

-----------------------------------------------------------------------------
(* configureAccelerator, step by step *)

(* The PF is bound, after it is unbound if it must be. *)
LEMMA BindPFStep ==
  ASSUME IInv, NEW w \in Worker, BindPF(w)
  PROVE  Advances(w) \/ GivesUp(w)
<1>. DEFINE i == job[w]
            c == i.card
            j == Step(w, "windows")
            u == Write("unbind PF", c, NoDriver)
            b == Write("bind PF", c, PFDriver[Asked(w)])
<1>1. i.step = "bind" /\ i \in Jobs /\ Shape(w, i) /\ c \in Card /\ hw[c] \in Hardware
  BY JobFacts DEF BindPF
<1>2. Asked(w) \in Config
  BY <1>1 DEF Shape, ConfigSteps, Asked
<1>3. j \in Jobs /\ SameTask(j, i) /\ j.step = "windows" /\ Shape(w, j)
  BY <1>1, <1>2, StepTo DEF Steps, ConfigSteps
<1>. HIDE DEF j
<1>4. \A h : h.vfs = hw[c].vfs /\ Prepared(i, hw[c]) => Prepared(i, h) /\ Prepared(j, h)
  BY <1>1, <1>3 DEF Prepared
<1>5. CASE Sysfs(w, u, i)
  <2>1. u.card = c /\ u.op = "unbind PF" /\ Fits(u)
    BY <1>1 DEF Write, Fits
  <2>2. Effect(hw[c], u).vfs = hw[c].vfs
    BY <1>1, <2>1 DEF Effect, Hardware
  <2>3. SameTask(i, i) /\ i.step # "idle" /\ (w \notin crossed => ~hw[c].alive)
    BY <1>1 DEF SameTask, IInv, ResetsQuietCards
  <2>. QED BY <1>1, <1>4, <1>5, <2>1, <2>2, <2>3, SysfsStep
<1>6. CASE Sysfs(w, b, j)
  <2>1. b.card = c /\ b.op = "bind PF" /\ Fits(b)
    BY <1>1, <1>2 DEF Write, Fits, Driver
  <2>2. Effect(hw[c], b).vfs = hw[c].vfs
    BY <1>1, <2>1 DEF Effect, Hardware
  <2>. QED BY <1>1, <1>3, <1>4, <1>6, <2>1, <2>2, SysfsStep
<1>. QED BY <1>5, <1>6 DEF BindPF, j

(* The card is not touched while its windows file is chosen. *)
LEMMA ChooseWindowsStep ==
  ASSUME IInv, NEW w \in Worker, ChooseWindows(w)
  PROVE  Advances(w) \/ GivesUp(w)
<1>. DEFINE i == job[w]
            c == i.card
            j == Step(w, "run")
<1>1. i.step = "windows" /\ i \in Jobs /\ Shape(w, i) /\ UNCHANGED hw
  BY JobFacts DEF ChooseWindows
<1>2. Asked(w) \in Config
  BY <1>1 DEF Shape, ConfigSteps, Asked
<1>3. j \in Jobs /\ SameTask(j, i) /\ j.step = "run" /\ Shape(w, j)
  BY <1>1, <1>2, StepTo DEF Steps, ConfigSteps
<1>. HIDE DEF j
<1>4. Prepared(i, hw[c]) => Prepared(j, hw[c])
  BY <1>1, <1>3 DEF Prepared
<1>5. CASE Goto(w, j) /\ UNCHANGED <<result, hit>>
  BY <1>1, <1>3, <1>4, <1>5, GoesOn
<1>6. CASE Return(w, "error")
  BY <1>1, <1>6, ReturnGivesUp
<1>. QED BY <1>5, <1>6 DEF ChooseWindows, j

(* A bad download ends ApplySpec. *)
LEMMA DownloadFailsStep ==
  ASSUME IInv, NEW w \in Worker, DownloadFails(w)
  PROVE  GivesUp(w)
BY ReturnGivesUp DEF DownloadFails

(* pf_bb_config sets the queues, and stays under vfio-pci. *)
LEMMA RunPFConfigStep ==
  ASSUME IInv, NEW w \in Worker, RunPFConfig(w)
  PROVE  Advances(w) \/ GivesUp(w)
<1>. DEFINE i == job[w]
            c == i.card
            f == Asked(w)
            j == Step(w, "VFs")
            h == [hw[c] EXCEPT !.regs = f, !.alive = PFDriver[f] = VfioPci,
                               !.sock = PFDriver[f] = VfioPci,
                               !.windows = IF DefaultWindows[c] = NoFile THEN NoFile ELSE path]
<1>1. i.step = "run" /\ i \in Jobs /\ Shape(w, i) /\ c \in Card /\ hw[c] \in Hardware /\ CardOK(hw[c])
  BY JobFacts DEF RunPFConfig
<1>2. f \in Config /\ f = i.asked[i.card]
  BY <1>1 DEF Shape, ConfigSteps, Asked
<1>3. j \in Jobs /\ SameTask(j, i) /\ j.step = "VFs" /\ Shape(w, j)
  BY <1>1, <1>2, StepTo DEF Steps, ConfigSteps
<1>4. CASE Return(w, "error") /\ UNCHANGED hw
  BY <1>1, <1>4, ReturnGivesUp
<1>5. CASE /\ hw[c].driver = PFDriver[f]
           /\ hw' = [hw EXCEPT ![c] = h]
           /\ Goto(w, j)
           /\ UNCHANGED <<result, hit>>
  <2>1. path \in Files /\ NoFile \in Files
    BY DEF IInv, Types, Files
  <2>2. /\ h \in Hardware /\ h.driver = PFDriver[f] /\ h.regs = f
        /\ h.alive = (PFDriver[f] = VfioPci) /\ h.vfs = hw[c].vfs /\ h.bound = hw[c].bound
    BY <1>1, <1>2, <1>5, <2>1 DEF Hardware
  <2>. HIDE DEF h, j
  <2>3. CardOK(h)
    BY <1>1, <1>2, <2>2, ConfigAssumption DEF CardOK
  <2>4. Prepared(i, hw[c]) => Prepared(j, h)
    BY <1>1, <1>2, <1>3, <2>2 DEF Prepared, SameTask
  <2>5. Goes(w, j, h)
    BY <1>5 DEF Goes, Goto
  <2>. QED BY <1>1, <1>3, <1>5, <2>2, <2>3, <2>4, <2>5 DEF Advances
<1>. QED BY <1>4, <1>5 DEF RunPFConfig

(* A number of VFs that is not zero. *)
LEMMA VFsCount ==
  ASSUME NEW n \in Nat \ {0}
  PROVE  1..n \in SUBSET Nat /\ 1 \in 1..n
OBVIOUS

(* With the VFs made, each of them has to be bound. *)
LEMMA BindingFits ==
  ASSUME IInv, NEW w \in Worker, job[w].step \in {"VFs", "more VFs"}
  PROVE  LET n == VFAmount[Asked(w)]
             j == Binding(w, n)
         IN /\ Asked(w) \in Config /\ n \in Nat \ {0}
            /\ j \in Jobs /\ SameTask(j, job[w]) /\ j.step = "bind VFs" /\ Shape(w, j)
            /\ \A h \in Hardware :
                 /\ Prepared(job[w], hw[job[w].card])
                 /\ h.driver = hw[job[w].card].driver /\ h.regs = hw[job[w].card].regs
                 /\ h.alive = hw[job[w].card].alive /\ h.vfs = n /\ h.bound \subseteq 1..n
                 => Prepared(j, h)
<1>. DEFINE n == VFAmount[Asked(w)]
            j == Binding(w, n)
<1>1. job[w] \in Jobs /\ Shape(w, job[w])
  BY JobFacts
<1>2. Asked(w) \in Config /\ Asked(w) = job[w].asked[job[w].card] /\ n \in Nat \ {0}
  BY <1>1, ConfigAssumption DEF Shape, ConfigSteps, Asked
<1>3. 1..n \in SUBSET Nat /\ 1 \in 1..n
  BY <1>2, VFsCount
<1>4. j \in Jobs /\ SameTask(j, job[w]) /\ j.step = "bind VFs" /\ j.left = 1..n
  BY <1>1, <1>3 DEF Binding, Jobs, Steps, SameTask
<1>. HIDE DEF j
<1>5. j.left # {}
  BY <1>3, <1>4
<1>6. Shape(w, j)
  BY <1>1, <1>2, <1>4, <1>5, ShapeWith DEF Asked
<1>7. ASSUME NEW h \in Hardware, Prepared(job[w], hw[job[w].card]),
             h.driver = hw[job[w].card].driver, h.regs = hw[job[w].card].regs,
             h.alive = hw[job[w].card].alive, h.vfs = n, h.bound \subseteq 1..n
      PROVE  Prepared(j, h)
  <2>1. /\ h.driver = PFDriver[Asked(w)] /\ h.regs = Asked(w)
        /\ h.alive = (PFDriver[Asked(w)] = VfioPci)
    BY <1>2, <1>7 DEF Prepared
  <2>2. h.bound \cup j.left = 1..h.vfs
    BY <1>4, <1>7
  <2>. QED BY <1>2, <1>4, <1>7, <2>1, <2>2 DEF Prepared, SameTask
<1>. QED BY <1>2, <1>4, <1>6, <1>7 DEF j

(* What a number of VFs leaves of a card. *)
LEMMA SetVFsEffect ==
  ASSUME NEW h \in Hardware, NEW e, e.op = "set VFs", e.arg \in Nat
  PROVE  /\ Effect(h, e).vfs = e.arg /\ Effect(h, e).bound = {}
         /\ Effect(h, e).driver = h.driver /\ Effect(h, e).regs = h.regs
         /\ Effect(h, e).alive = h.alive
<1>1. Effect(h, e) = [h EXCEPT !.vfs = e.arg, !.bound = {}]
  BY DEF Effect, SetVFs
<1>. QED BY <1>1 DEF Hardware

(* Writing the number of VFs that was asked for. *)
LEMMA VFsMade ==
  ASSUME IInv, NEW w \in Worker, job[w].step \in {"VFs", "more VFs"},
         Sysfs(w, Write("set VFs", job[w].card, VFAmount[Asked(w)]), Binding(w, VFAmount[Asked(w)]))
  PROVE  Advances(w) \/ GivesUp(w)
<1>. DEFINE c == job[w].card
            n == VFAmount[Asked(w)]
            j == Binding(w, n)
            e == Write("set VFs", c, n)
<1>1. c \in Card /\ hw[c] \in Hardware /\ CardOK(hw[c])
  BY JobFacts
<1>2. /\ n \in Nat /\ j \in Jobs /\ SameTask(j, job[w]) /\ j.step = "bind VFs" /\ Shape(w, j)
  BY BindingFits
<1>3. e.card = c /\ e.op = "set VFs" /\ e.arg = n
  BY DEF Write
<1>. HIDE DEF e, n
<1>4. Fits(e) /\ ~Blocked(hw[c], e)
  BY <1>1, <1>2, <1>3 DEF Fits, Blocked
<1>5. ASSUME Accepted(hw[c], e), Prepared(job[w], hw[c]) PROVE Prepared(j, Effect(hw[c], e))
  <2>1. Effect(hw[c], e) \in Hardware
    BY <1>1, <1>3, <1>4, <1>5, EffectKeeps DEF CardOK
  <2>2. /\ Effect(hw[c], e).vfs = n /\ Effect(hw[c], e).bound = {}
        /\ Effect(hw[c], e).driver = hw[c].driver /\ Effect(hw[c], e).regs = hw[c].regs
        /\ Effect(hw[c], e).alive = hw[c].alive
    BY <1>1, <1>2, <1>3, SetVFsEffect
  <2>3. Effect(hw[c], e).bound \subseteq 1..n
    BY <2>2
  <2>. QED BY <1>5, <2>1, <2>2, <2>3, BindingFits DEF n
<1>6. job[w].step # "idle" /\ j.step # "idle"
  BY <1>2
<1>7. Sysfs(w, e, j)
  BY DEF e, n
<1>. QED BY <1>2, <1>3, <1>4, <1>5, <1>6, <1>7, SysfsStep

(* The number of VFs is right, or is set, or is set to zero first. *)
LEMMA ChangeAmountOfVFsStep ==
  ASSUME IInv, NEW w \in Worker, ChangeAmountOfVFs(w)
  PROVE  Advances(w) \/ GivesUp(w)
<1>. DEFINE c == job[w].card
            n == VFAmount[Asked(w)]
            j == Binding(w, n)
            m == Step(w, "more VFs")
            e == Write("set VFs", c, 0)
<1>1. job[w].step = "VFs" /\ c \in Card /\ hw[c] \in Hardware /\ CardOK(hw[c])
  BY JobFacts DEF ChangeAmountOfVFs
<1>2. /\ Asked(w) \in Config /\ j \in Jobs /\ SameTask(j, job[w]) /\ j.step = "bind VFs" /\ Shape(w, j)
  BY <1>1, BindingFits
<1>3. m \in Jobs /\ SameTask(m, job[w]) /\ m.step = "more VFs" /\ Shape(w, m)
  BY <1>1, <1>2, StepTo DEF Steps, ConfigSteps
<1>. HIDE DEF j, m
<1>4. CASE hw[c].vfs = n /\ Goto(w, j) /\ UNCHANGED <<hw, result, hit>>
  <2>1. hw[c].bound \subseteq 1..n
    BY <1>1, <1>4 DEF CardOK
  <2>2. Prepared(job[w], hw[c]) => Prepared(j, hw[c])
    BY <1>1, <1>4, <2>1, BindingFits DEF j
  <2>. QED BY <1>1, <1>2, <1>4, <2>2, GoesOn
<1>5. CASE Sysfs(w, e, m)
  <2>0. e.card = c /\ e.op = "set VFs" /\ e.arg \in Nat /\ Fits(e)
    BY <1>1 DEF Write, Fits
  <2>. HIDE DEF e
  <2>1. /\ Effect(hw[c], e).driver = hw[c].driver /\ Effect(hw[c], e).regs = hw[c].regs
        /\ Effect(hw[c], e).alive = hw[c].alive
    BY <1>1, <2>0, SetVFsEffect
  <2>2. Prepared(job[w], hw[c]) => Prepared(m, Effect(hw[c], e))
    BY <1>1, <1>3, <2>1 DEF Prepared, SameTask
  <2>. QED BY <1>1, <1>3, <1>5, <2>0, <2>2, SysfsStep
<1>6. CASE Sysfs(w, Write("set VFs", c, n), j)
  BY <1>1, <1>6, VFsMade DEF j
<1>. QED BY <1>4, <1>5, <1>6 DEF ChangeAmountOfVFs, j, m

(* The number of VFs is set once there are none. *)
LEMMA CreateVFsStep ==
  ASSUME IInv, NEW w \in Worker, CreateVFs(w)
  PROVE  Advances(w) \/ GivesUp(w)
BY VFsMade DEF CreateVFs

(* The last VF that is bound makes the card serve its configuration. *)
LEMMA BindVFsStep ==
  ASSUME IInv, NEW w \in Worker, BindVFs(w)
  PROVE  Advances(w) \/ GivesUp(w)
<1>. DEFINE i == job[w]
            c == i.card
            v == First(i.left)
            y == IF i.left = {v} THEN "done" ELSE i.step
            j == [i EXCEPT !.left = @ \ {v}, !.step = IF i.left = {v} THEN "done" ELSE @]
            u == Write("unbind VF", c, v)
            b == Write("bind VF", c, v)
<1>1. /\ i.step = "bind VFs" /\ i \in Jobs /\ Shape(w, i) /\ c \in Card /\ i.left \in SUBSET Nat
      /\ hw[c] \in Hardware /\ CardOK(hw[c])
  BY JobFacts DEF BindVFs, Jobs
<1>2. v \in i.left
  BY <1>1, FirstIsLeast DEF Shape
<1>3. Asked(w) \in Config /\ Asked(w) = i.asked[c]
  BY <1>1 DEF Shape, ConfigSteps, Asked
<1>4. j \in Jobs /\ SameTask(j, i) /\ j.step = y /\ j.left = i.left \ {v}
  BY <1>1 DEF Jobs, Steps, SameTask
<1>. HIDE DEF j, v
<1>5. j.step \in {"bind VFs", "done"} /\ (j.left # {} <=> j.step = "bind VFs")
  <2>1. CASE i.left = {v}
    BY <1>1, <1>4, <2>1
  <2>2. CASE i.left # {v}
    BY <1>1, <1>2, <1>4, <2>2
  <2>. QED BY <2>1, <2>2
<1>6. Shape(w, j)
  BY <1>1, <1>3, <1>4, <1>5, ShapeWith
<1>7. CASE Sysfs(w, u, i) /\ v \in hw[c].bound
  <2>1. u.card = c /\ u.op = "unbind VF" /\ u.arg = v /\ Fits(u)
    BY <1>1 DEF Write, Fits
  <2>. HIDE DEF u
  <2>2. Effect(hw[c], u) = [hw[c] EXCEPT !.bound = @ \ {v}]
    BY <2>1 DEF Effect
  <2>3. SameTask(i, i) /\ i.step # "idle"
    BY <1>1 DEF SameTask
  <2>4. Prepared(i, hw[c]) => Prepared(i, Effect(hw[c], u))
    <3>. DEFINE g == Effect(hw[c], u)
    <3>1. /\ g.vfs = hw[c].vfs /\ g.driver = hw[c].driver /\ g.regs = hw[c].regs
          /\ g.alive = hw[c].alive /\ g.bound = hw[c].bound \ {v}
      BY <1>1, <2>2 DEF Hardware
    <3>. HIDE DEF g
    <3>2. g.bound \cup i.left = hw[c].bound \cup i.left
      BY <1>2, <3>1
    <3>. QED BY <1>1, <3>1, <3>2 DEF Prepared, g
  <2>. QED BY <1>1, <1>7, <2>1, <2>3, <2>4, SysfsStep
<1>8. CASE Sysfs(w, b, j)
  <2>1. b.card = c /\ b.op = "bind VF" /\ b.arg = v /\ Fits(b)
    BY <1>1 DEF Write, Fits
  <2>. HIDE DEF b
  <2>2. Effect(hw[c], b) = [hw[c] EXCEPT !.bound = @ \cup {v}]
    BY <2>1 DEF Effect
  <2>3. ASSUME Prepared(i, hw[c]) PROVE Prepared(j, Effect(hw[c], b))
    <3>. DEFINE g == Effect(hw[c], b)
    <3>1. /\ g.vfs = hw[c].vfs /\ g.driver = hw[c].driver /\ g.regs = hw[c].regs
          /\ g.alive = hw[c].alive /\ g.bound = hw[c].bound \cup {v}
      BY <1>1, <2>2 DEF Hardware
    <3>. HIDE DEF g
    <3>2. /\ hw[c].driver = PFDriver[Asked(w)] /\ hw[c].regs = Asked(w)
          /\ hw[c].alive = (PFDriver[Asked(w)] = VfioPci)
          /\ hw[c].vfs = VFAmount[Asked(w)] /\ hw[c].bound \cup i.left = 1..hw[c].vfs
      BY <1>1, <1>3, <2>3 DEF Prepared
    <3>3. g.bound \cup j.left = 1..g.vfs
      BY <1>2, <1>4, <3>1, <3>2
    <3>4. CASE j.step = "done"
      <4>1. j.left = {}
        BY <1>5, <3>4
      <4>2. Serves(g, Asked(w))
        BY <3>1, <3>2, <3>3, <4>1 DEF Serves
      <4>3. StateOf(g) = Asked(w)
        BY <1>3, <4>2, StateOfServing
      <4>. QED BY <1>3, <1>4, <3>4, <4>3 DEF Prepared, SameTask, g
    <3>5. CASE j.step = "bind VFs"
      BY <1>3, <1>4, <3>1, <3>2, <3>3, <3>5 DEF Prepared, SameTask, g
    <3>. QED BY <1>5, <3>4, <3>5
  <2>. QED BY <1>1, <1>4, <1>5, <1>6, <1>8, <2>1, <2>3, SysfsStep
<1>. QED BY <1>7, <1>8 DEF BindVFs, j, v

(* Every step of a card's work goes on with it or ends ApplySpec with an error. *)
LEMMA WorkStep ==
  ASSUME IInv, NEW w \in Worker, Clean(w) \/ Configure(w) \/ CommandFails(w)
  PROVE  Advances(w) \/ GivesUp(w)
<1>1. CASE CommandFails(w)
  BY <1>1, ReturnGivesUp DEF CommandFails, CallFails
<1>2. CASE Clean(w)
  BY <1>2, StopStep, StopFailsStep, UnbindVFsStep, RemoveVFsStep, UnbindPFStep, FlrResetStep
     DEF Clean
<1>3. CASE Configure(w)
  BY <1>3, BindPFStep, ChooseWindowsStep, DownloadFailsStep, RunPFConfigStep,
     ChangeAmountOfVFsStep, CreateVFsStep, BindVFsStep DEF Configure
<1>. QED BY <1>1, <1>2, <1>3

-----------------------------------------------------------------------------
(* The other shapes *)

(* The loop goes on with the next card. *)
NextCard(w) ==
  LET rest == {c \in Due(job[w].asked, job[w].inv) : c > job[w].card}
  IN /\ job[w].step = "done" /\ rest # {}
     /\ job' = [job EXCEPT ![w] = [job[w] EXCEPT !.step = "stop", !.card = First(rest)]]
     /\ UNCHANGED <<hw, result, hit>>

(* ApplySpec returns nil after its last card. *)
Succeeds(w) ==
  /\ job[w].step = "done"
  /\ {c \in Due(job[w].asked, job[w].inv) : c > job[w].card} = {}
  /\ job' = [job EXCEPT ![w] = NoJob]
  /\ result' = [result EXCEPT ![w] = "ok"]
  /\ hit' = [hit EXCEPT ![w] = FALSE]
  /\ UNCHANGED hw

(* The node changes card c. *)
Touches(c) ==
  /\ \E h \in Hardware :
       /\ hw' = [hw EXCEPT ![c] = h]
       /\ CardOK(h)
       /\ h.alive => hw[c].alive
       /\ \/ h.regs = hw[c].regs /\ h.windows = hw[c].windows
          \/ h.regs = NoConfig
  /\ Hits(c)
  /\ UNCHANGED <<job, result, path, mixed, crossed>>

(* The node changes one card at a time. *)
LEMMA TouchesShapes ==
  ASSUME IInv,
         (\E e \in late : Land(e)) \/ \E c \in Card : PfBBConfigDies(c) \/ ResetVFs(c)
  PROVE  \E c \in Card : Touches(c)
<1>1. ASSUME NEW e \in late, Land(e) PROVE e.card \in Card /\ Touches(e.card)
  <2>. DEFINE c == e.card
              h == IF Accepted(hw[c], e) THEN Effect(hw[c], e) ELSE hw[c]
  <2>1. Fits(e) /\ c \in Card /\ hw[c] \in Hardware /\ CardOK(hw[c])
    BY DEF IInv, Types, Fits
  <2>2. h \in Hardware /\ CardOK(h) /\ h.alive = hw[c].alive
    BY <1>1, <2>1, EffectKeeps, EffectStartsNothing DEF Land, CardOK
  <2>3. \/ h.regs = hw[c].regs /\ h.windows = hw[c].windows
        \/ h.regs = NoConfig
    BY <2>1 DEF Effect, SetVFs, Fits, Hardware
  <2>4. hw' = [hw EXCEPT ![c] = h]
    BY <1>1 DEF Land
  <2>. QED BY <1>1, <2>1, <2>2, <2>3, <2>4 DEF Touches, Land
<1>2. ASSUME NEW c \in Card, PfBBConfigDies(c) PROVE Touches(c)
  <2>. DEFINE h == [hw[c] EXCEPT !.alive = FALSE]
  <2>1. hw[c] \in Hardware /\ CardOK(hw[c])
    BY DEF IInv, Types
  <2>2. /\ h \in Hardware /\ CardOK(h) /\ h.alive = FALSE
        /\ h.regs = hw[c].regs /\ h.windows = hw[c].windows
    BY <2>1 DEF Hardware, CardOK
  <2>3. hw' = [hw EXCEPT ![c] = h]
    BY <1>2 DEF PfBBConfigDies
  <2>. QED BY <1>2, <2>2, <2>3 DEF Touches, PfBBConfigDies
<1>3. ASSUME NEW c \in Card, ResetVFs(c) PROVE Touches(c)
  <2>. DEFINE h == [hw[c] EXCEPT !.vfs = 0, !.bound = {}]
  <2>1. hw[c] \in Hardware /\ CardOK(hw[c])
    BY DEF IInv, Types
  <2>2. /\ h \in Hardware /\ CardOK(h) /\ h.alive = hw[c].alive
        /\ h.regs = hw[c].regs /\ h.windows = hw[c].windows
    BY <2>1 DEF Hardware, CardOK
  <2>3. hw' = [hw EXCEPT ![c] = h]
    BY <1>3 DEF ResetVFs
  <2>. QED BY <1>3, <2>2, <2>3 DEF Touches, ResetVFs
<1>. QED BY <1>1, <1>2, <1>3

(* What the next state of a daemon can come from. *)
LEMMA Shapes ==
  ASSUME IInv, Next
  PROVE  \/ \E w \in Worker :
              /\ Advances(w) \/ GivesUp(w) \/ NextCard(w) \/ Succeeds(w) \/ ApplySpec(w)
              /\ Crosses(w)
         \/ \E c \in Card : Touches(c)
         \/ Restart
<1>1. ASSUME NEW w \in Worker, CardDone(w) PROVE NextCard(w) \/ Succeeds(w)
  BY <1>1 DEF CardDone, NextCard, Succeeds, Return, Goto
<1>. QED BY <1>1, TouchesShapes, WorkStep DEF Next, Crash, Panic

-----------------------------------------------------------------------------
(* The cards and the jobs: what every shape keeps *)

(* IInv without the path, the writes under way and the faults. *)
Core ==
  /\ hw \in [Card -> Hardware] /\ \A c \in Card : CardOK(hw[c])
  /\ job \in [Worker -> Jobs]
  /\ result \in [Worker -> {"none", "ok", "error"}]
  /\ hit \in [Worker -> BOOLEAN]
  /\ crossed \subseteq Worker
  /\ JobsFit /\ WorkInHand /\ ResetsQuietCards

(* What the last three say of one worker. *)
InStep(v) ==
  /\ IF job[v].step = "idle"
     THEN job[v] = NoJob /\ ~hit[v] /\ v \notin crossed
     ELSE Shape(v, job[v])
  /\ job[v].step # "idle" /\ ~hit[v] /\ v \notin crossed => Progress(job[v], hw)
  /\ v \notin crossed /\ job[v].step \in {"reset", "bind"} => ~hw[job[v].card].alive

LEMMA AllInStep ==
  ASSUME \A v \in Worker : InStep(v)'
  PROVE  JobsFit' /\ WorkInHand' /\ ResetsQuietCards'
BY DEF InStep, JobsFit, WorkInHand, ResetsQuietCards

(* Who works, and is not crossed after a step of w, was not before, and the step *)
(* of another worker has left its cards.                                       *)
LEMMA CrossesFacts ==
  ASSUME IInv, NEW w \in Worker, Crosses(w)
  PROVE  /\ crossed' \subseteq Worker
         /\ \A v \in Worker :
              /\ job'[v].step = "idle" => v \notin crossed'
              /\ job'[v].step # "idle" /\ v \notin crossed' =>
                   /\ v \notin crossed
                   /\ v # w => \A c \in DOMAIN job[v].asked : hw'[c] = hw[c]
BY DEF Crosses

(* No work is a job too. *)
LEMMA NoJobIsJob == NoJob \in Jobs /\ NoJob.step = "idle"
BY DEF NoJob, Jobs, Steps, Asks, Inventories

(* Progress depends on the cards of the job only. *)
LEMMA ProgressOfOwnCards ==
  ASSUME NEW j, NEW before, NEW after, j.card \in DOMAIN j.asked,
         \A d \in DOMAIN j.asked : after[d] = before[d], Progress(j, before)
  PROVE  Progress(j, after)
<1>1. Due(j.asked, j.inv) \subseteq DOMAIN j.asked
  BY DEF Due
<1>. QED BY <1>1 DEF Progress

(* What is known of a worker whose job stays what it is, and who has its cards to *)
(* itself if it is not crossed.                                                 *)
LEMMA OthersKept ==
  ASSUME IInv, NEW v \in Worker, job'[v] = job[v], hit[v] => hit'[v],
         job[v].step = "idle" => hit'[v] = hit[v] /\ v \notin crossed',
         job[v].step # "idle" /\ v \notin crossed' =>
           v \notin crossed /\ \A d \in DOMAIN job[v].asked : hw'[d] = hw[d]
  PROVE  InStep(v)'
<1>1. CASE job[v].step = "idle"
  BY <1>1 DEF IInv, JobsFit, InStep
<1>2. CASE job[v].step # "idle"
  <2>1. Shape(v, job[v])
    BY <1>2 DEF IInv, JobsFit
  <2>2. job[v].card \in DOMAIN job[v].asked
    BY <2>1 DEF Shape
  <2>3. ~hit'[v] /\ v \notin crossed' => Progress(job[v], hw)
    BY <1>2 DEF IInv, WorkInHand
  <2>4. ~hit'[v] /\ v \notin crossed' => Progress(job[v], hw')
    BY <1>2, <2>2, <2>3, ProgressOfOwnCards
  <2>5. v \notin crossed' /\ job[v].step \in {"reset", "bind"} => ~hw'[job[v].card].alive
    BY <1>2, <2>2 DEF IInv, ResetsQuietCards
  <2>. QED BY <1>2, <2>1, <2>4, <2>5 DEF InStep
<1>. QED BY <1>1, <1>2

(* A step of one worker leaves every other in step, or crosses it. *)
LEMMA OthersUndisturbed ==
  ASSUME IInv, NEW w \in Worker, Crosses(w),
         NEW v \in Worker, v # w, job'[v] = job[v], hit'[v] = hit[v]
  PROVE  InStep(v)'
BY CrossesFacts, OthersKept

(* Going on keeps the invariant. *)
LEMMA AdvancesKeeps ==
  ASSUME IInv, NEW w \in Worker, Advances(w), Crosses(w)
  PROVE  Core'
<1>. DEFINE i == job[w]
            c == i.card
<1>1. PICK j \in Jobs, h \in Hardware :
        /\ Goes(w, j, h)
        /\ SameTask(j, i) /\ j.step # "idle" /\ Shape(w, j)
        /\ CardOK(h)
        /\ w \notin crossed /\ j.step \in {"reset", "bind"} => ~h.alive
        /\ ~hit[w] /\ Prepared(i, hw[c]) => Prepared(j, h)
  BY DEF Advances
<1>2. i.step \notin {"idle", "done"} /\ UNCHANGED <<result, hit>>
  BY DEF Advances
<1>3. c \in Card /\ c \in Nat /\ Shape(w, i)
  BY <1>2, JobFacts
<1>4. hw' = [hw EXCEPT ![c] = h] /\ job' = [job EXCEPT ![w] = j]
  BY <1>1 DEF Goes
<1>5. hw' \in [Card -> Hardware] /\ \A d \in Card : CardOK(hw'[d])
  BY <1>1, <1>3, <1>4 DEF IInv, Types
<1>6. /\ job' \in [Worker -> Jobs] /\ job'[w] = j /\ hw'[c] = h
      /\ \A v \in Worker \ {w} : job'[v] = job[v]
  BY <1>1, <1>3, <1>4 DEF IInv, Types
<1>7. \A v \in Worker \ {w} : InStep(v)'
  BY <1>2, <1>6, OthersUndisturbed
<1>8. ASSUME ~hit[w], w \notin crossed PROVE Progress(j, hw')
  <2>1. Progress(i, hw)
    BY <1>2, <1>8 DEF IInv, WorkInHand
  <2>2. Prepared(j, hw'[j.card])
    BY <1>1, <1>6, <1>8, <2>1 DEF Progress, SameTask
  <2>3. c \in Due(i.asked, i.inv) /\ ~(c > c) /\ ~(c < c)
    <3>1. c \in Due(i.asked, i.inv)
      BY <1>2, <1>3 DEF Shape
    <3>2. \A n \in Nat : ~(n > n) /\ ~(n < n)
      OBVIOUS
    <3>. QED BY <1>3, <3>1, <3>2
  <2>4. \A d \in DOMAIN i.asked : d # c => hw'[d] = hw[d]
    BY <1>4 DEF IInv, Types
  <2>5. Due(i.asked, i.inv) \subseteq DOMAIN i.asked
    BY DEF Due
  <2>6. \A d \in DOMAIN i.asked :
          d \notin Due(i.asked, i.inv) \/ d > c => hw'[d].vfs = i.inv[d].vfs
    BY <2>1, <2>3, <2>4 DEF Progress
  <2>7. \A d \in Due(i.asked, i.inv) : d < c => StateOf(hw'[d]) = i.asked[d]
    BY <2>1, <2>3, <2>4, <2>5 DEF Progress
  <2>. QED BY <1>1, <2>2, <2>6, <2>7 DEF Progress, SameTask
<1>9. w \notin crossed /\ j.step \in {"reset", "bind"} => ~hw'[j.card].alive
  BY <1>1, <1>6 DEF SameTask
<1>10. crossed' \subseteq Worker /\ (w \notin crossed' => w \notin crossed)
  BY <1>1, <1>6, CrossesFacts
<1>11. InStep(w)'
  BY <1>1, <1>2, <1>6, <1>8, <1>9, <1>10 DEF InStep
<1>12. JobsFit' /\ WorkInHand' /\ ResetsQuietCards'
  <2>1. \A v \in Worker : InStep(v)'
    BY <1>7, <1>11
  <2>. QED BY <2>1, AllInStep
<1>. QED BY <1>2, <1>5, <1>6, <1>10, <1>12 DEF Core, IInv, Types

(* A worker that returns has no job, and disturbs no other. *)
LEMMA ReturnKeeps ==
  ASSUME IInv, NEW w \in Worker, job[w].step # "idle",
         NEW h \in Hardware, CardOK(h), Goes(w, NoJob, h),
         NEW answer \in {"ok", "error"}, result' = [result EXCEPT ![w] = answer],
         hit' = [hit EXCEPT ![w] = FALSE], Crosses(w)
  PROVE  Core'
<1>. DEFINE c == job[w].card
<1>1. c \in Card
  BY JobFacts
<1>2. hw' \in [Card -> Hardware] /\ \A d \in Card : CardOK(hw'[d])
  BY <1>1 DEF Goes, IInv, Types
<1>3. /\ job' \in [Worker -> Jobs] /\ job'[w] = NoJob
      /\ \A v \in Worker \ {w} : job'[v] = job[v]
  BY NoJobIsJob DEF Goes, IInv, Types
<1>4. /\ hit' \in [Worker -> BOOLEAN] /\ ~hit'[w] /\ \A v \in Worker \ {w} : hit'[v] = hit[v]
      /\ result' \in [Worker -> {"none", "ok", "error"}]
  BY DEF IInv, Types
<1>5. \A v \in Worker \ {w} : InStep(v)'
  BY <1>3, <1>4, OthersUndisturbed
<1>6. crossed' \subseteq Worker /\ w \notin crossed'
  BY <1>3, NoJobIsJob, CrossesFacts
<1>7. InStep(w)'
  BY <1>3, <1>4, <1>6, NoJobIsJob DEF InStep
<1>8. JobsFit' /\ WorkInHand' /\ ResetsQuietCards'
  <2>1. \A v \in Worker : InStep(v)'
    BY <1>5, <1>7
  <2>. QED BY <2>1, AllInStep
<1>. QED BY <1>2, <1>3, <1>4, <1>6, <1>8 DEF Core

(* The next card has the VFs it had, and all before it are as requested. *)
LEMMA NextCardKeeps ==
  ASSUME IInv, NEW w \in Worker, NextCard(w), Crosses(w)
  PROVE  Core'
<1>. DEFINE i == job[w]
            rest == {c \in Due(i.asked, i.inv) : c > i.card}
            j == [i EXCEPT !.step = "stop", !.card = First(rest)]
<1>1. /\ i.step = "done" /\ rest # {} /\ job' = [job EXCEPT ![w] = j]
      /\ UNCHANGED <<hw, result, hit>>
  BY DEF NextCard
<1>2. i \in Jobs /\ Shape(w, i) /\ i.card \in Card /\ i.card \in Nat
  BY <1>1, JobFacts
<1>3. Due(i.asked, i.inv) \subseteq DOMAIN i.asked /\ DOMAIN i.asked \subseteq Nat
  BY <1>2, RequestAssumption, CardAssumption DEF Due, Shape
<1>4. rest \in SUBSET Nat
  BY <1>3
<1>5. First(rest) \in rest /\ \A d \in rest : First(rest) <= d
  BY <1>1, <1>4, FirstIsLeast
<1>6. /\ j \in Jobs /\ j.asked = i.asked /\ j.inv = i.inv /\ j.step = "stop"
      /\ j.card = First(rest) /\ j.left = i.left
  BY <1>2, <1>4, <1>5 DEF Jobs, Steps
<1>. HIDE DEF j
<1>7. Shape(w, j)
  BY <1>1, <1>2, <1>3, <1>5, <1>6 DEF Shape, ConfigSteps
<1>8. ASSUME ~hit[w], w \notin crossed PROVE Progress(j, hw)
  <2>1. Progress(i, hw)
    BY <1>1, <1>8 DEF IInv, WorkInHand
  <2>2. j.card \in Due(i.asked, i.inv) /\ j.card > i.card /\ j.card \in Nat
    BY <1>3, <1>5, <1>6
  <2>3. hw[j.card].vfs = j.inv[j.card].vfs
    BY <1>3, <1>6, <2>1, <2>2 DEF Progress
  <2>4. Prepared(j, hw[j.card])
    BY <1>6, <2>3 DEF Prepared
  <2>5. ASSUME NEW d \in DOMAIN i.asked, d \notin Due(i.asked, i.inv) \/ d > j.card
        PROVE  hw[d].vfs = i.inv[d].vfs
    <3>1. d \in Nat
      BY <1>3
    <3>2. d \notin Due(i.asked, i.inv) \/ d > i.card
      BY <1>2, <2>2, <2>5, <3>1
    <3>. QED BY <2>1, <3>2 DEF Progress
  <2>6. ASSUME NEW d \in Due(i.asked, i.inv), d < j.card PROVE StateOf(hw[d]) = i.asked[d]
    <3>1. d \in Nat
      BY <1>3
    <3>2. ~(d > i.card)
      BY <1>5, <1>6, <2>2, <2>6, <3>1
    <3>3. CASE d < i.card
      BY <2>1, <3>3 DEF Progress
    <3>4. CASE d = i.card
      BY <1>1, <2>1, <3>4 DEF Progress, Prepared
    <3>. QED BY <1>2, <3>1, <3>2, <3>3, <3>4
  <2>. QED BY <1>6, <2>4, <2>5, <2>6 DEF Progress
<1>9. job' \in [Worker -> Jobs] /\ job'[w] = j /\ \A v \in Worker \ {w} : job'[v] = job[v]
  BY <1>1, <1>6 DEF IInv, Types, j
<1>10. \A v \in Worker \ {w} : InStep(v)'
  BY <1>1, <1>9, OthersUndisturbed
<1>11. crossed' \subseteq Worker /\ (w \notin crossed' => w \notin crossed)
  BY <1>6, <1>9, CrossesFacts
<1>12. InStep(w)'
  BY <1>1, <1>6, <1>7, <1>8, <1>9, <1>11 DEF InStep
<1>13. JobsFit' /\ WorkInHand' /\ ResetsQuietCards'
  <2>1. \A v \in Worker : InStep(v)'
    BY <1>10, <1>12
  <2>. QED BY <2>1, AllInStep
<1>. QED BY <1>1, <1>9, <1>11, <1>13 DEF Core, IInv, Types

(* A job as it begins. *)
LEMMA JobBegun ==
  ASSUME NEW a \in Asks, NEW i \in Inventories, NEW y \in Steps, NEW c \in Nat
  PROVE  [NoJob EXCEPT !.asked = a, !.inv = i, !.step = y, !.card = c] \in Jobs
BY NoJobIsJob DEF Jobs

(* The inventory says what the cards are when the work begins. *)
LEMMA ApplySpecKeeps ==
  ASSUME IInv, NEW w \in Worker, ApplySpec(w), Crosses(w)
  PROVE  Core'
<1>1. PICK asked \in Requests[w] :
        LET inv == [c \in DOMAIN asked |-> [vfs |-> hw[c].vfs, driver |-> hw[c].driver]]
            due == Due(asked, inv)
        IN Goto(w, [NoJob EXCEPT !.asked = asked, !.inv = inv,
                                 !.step = IF due = {} THEN "done" ELSE "stop",
                                 !.card = IF due = {} THEN First(DOMAIN asked) ELSE First(due)])
  BY DEF ApplySpec
<1>. DEFINE inv == [c \in DOMAIN asked |-> [vfs |-> hw[c].vfs, driver |-> hw[c].driver]]
            due == Due(asked, inv)
            first == IF due = {} THEN First(DOMAIN asked) ELSE First(due)
            j == [NoJob EXCEPT !.asked = asked, !.inv = inv,
                               !.step = IF due = {} THEN "done" ELSE "stop",
                               !.card = IF due = {} THEN First(DOMAIN asked) ELSE First(due)]
<1>2. job[w].step = "idle" /\ result' = [result EXCEPT ![w] = "none"] /\ UNCHANGED <<hw, hit>>
  BY DEF ApplySpec
<1>3. job' = [job EXCEPT ![w] = j]
  BY <1>1 DEF Goto
<1>4. DOMAIN asked \subseteq Card /\ DOMAIN asked # {} /\ DOMAIN asked \in SUBSET Nat
  BY RequestAssumption, CardAssumption
<1>5. due \subseteq DOMAIN asked /\ due \in SUBSET Nat
  BY <1>4 DEF Due
<1>6. inv \in [DOMAIN asked -> [vfs : Nat, driver : Driver]]
  BY <1>4 DEF IInv, Types, Hardware
<1>7. \A c \in DOMAIN asked : inv[c].vfs = hw[c].vfs
  OBVIOUS
<1>. HIDE DEF inv
<1>8. first \in DOMAIN asked /\ first \in Nat
  BY <1>4, <1>5, FirstIsLeast
<1>9. due # {} => first \in due /\ \A d \in due : first <= d
  BY <1>5, FirstIsLeast
<1>. HIDE DEF due, first
<1>10. /\ j.asked = asked /\ j.inv = inv /\ j.card = first /\ j.left = {}
       /\ j.step = IF due = {} THEN "done" ELSE "stop"
  BY DEF NoJob, due, first
<1>11. j \in Jobs
  <2>1. asked \in Asks
    BY DEF Asks
  <2>2. inv \in Inventories
    BY <1>4, <1>6 DEF Inventories
  <2>3. (IF due = {} THEN "done" ELSE "stop") \in Steps
    BY DEF Steps
  <2>. QED BY <1>8, <2>1, <2>2, <2>3, JobBegun DEF due, first
<1>. HIDE DEF j
<1>12. j.step \in {"stop", "done"}
  BY <1>10
<1>13. Shape(w, j)
  BY <1>6, <1>8, <1>9, <1>10, <1>12 DEF Shape, ConfigSteps, due
<1>14. Progress(j, hw)
  <2>1. \A d \in due : ~(d < first)
    BY <1>5, <1>8, <1>9
  <2>2. Prepared(j, hw[first])
    <3>1. CASE due = {}
      BY <1>10, <3>1 DEF Prepared, due
    <3>2. CASE due # {}
      BY <1>7, <1>8, <1>10, <3>2 DEF Prepared
    <3>. QED BY <3>1, <3>2
  <2>. QED BY <1>7, <1>10, <2>1, <2>2 DEF Progress, due
<1>15. job' \in [Worker -> Jobs] /\ job'[w] = j /\ \A v \in Worker \ {w} : job'[v] = job[v]
  BY <1>3, <1>11 DEF IInv, Types
<1>16. \A v \in Worker \ {w} : InStep(v)'
  BY <1>2, <1>15, OthersUndisturbed
<1>17. InStep(w)'
  BY <1>2, <1>12, <1>13, <1>14, <1>15 DEF InStep
<1>18. JobsFit' /\ WorkInHand' /\ ResetsQuietCards'
  <2>1. \A v \in Worker : InStep(v)'
    BY <1>16, <1>17
  <2>. QED BY <2>1, AllInStep
<1>19. crossed' \subseteq Worker
  BY CrossesFacts
<1>20. result' \in [Worker -> {"none", "ok", "error"}]
  BY <1>2 DEF IInv, Types
<1>. QED BY <1>2, <1>15, <1>18, <1>19, <1>20 DEF Core, IInv, Types

(* A card that the node changes is marked with its worker. *)
LEMMA TouchesKeeps ==
  ASSUME IInv, NEW c \in Card, Touches(c)
  PROVE  Core'
<1>1. PICK h \in Hardware :
        /\ hw' = [hw EXCEPT ![c] = h]
        /\ CardOK(h)
        /\ h.alive => hw[c].alive
  BY DEF Touches
<1>2. /\ hit' = [w \in Worker |-> hit[w] \/ c \in DOMAIN job[w].asked]
      /\ UNCHANGED <<job, result, crossed>>
  BY DEF Touches, Hits
<1>3. hw' \in [Card -> Hardware] /\ \A d \in Card : CardOK(hw'[d])
  BY <1>1 DEF IInv, Types
<1>4. hit' \in [Worker -> BOOLEAN]
  BY <1>2 DEF IInv, Types
<1>5. ASSUME NEW v \in Worker, c \notin DOMAIN job[v].asked
      PROVE  InStep(v)'
  <2>1. \A d \in DOMAIN job[v].asked : hw'[d] = hw[d]
    BY <1>1, <1>5 DEF IInv, Types
  <2>2. hit'[v] = hit[v] /\ job'[v] = job[v] /\ crossed' = crossed
    BY <1>2, <1>5 DEF IInv, Types
  <2>3. job[v].step = "idle" => v \notin crossed
    BY DEF IInv, JobsFit
  <2>. QED BY <2>1, <2>2, <2>3, OthersKept
<1>6. ASSUME NEW v \in Worker, c \in DOMAIN job[v].asked
      PROVE  InStep(v)'
  <2>1. job[v].step # "idle"
    BY <1>6 DEF IInv, JobsFit, NoJob, NoAsk
  <2>2. Shape(v, job[v]) /\ job[v].card \in Card
    BY <2>1, JobFacts
  <2>3. \A d \in Card : hw'[d].alive => hw[d].alive
    BY <1>1 DEF IInv, Types
  <2>4. v \notin crossed /\ job[v].step \in {"reset", "bind"} => ~hw'[job[v].card].alive
    BY <2>2, <2>3 DEF IInv, ResetsQuietCards
  <2>5. hit'[v] /\ job'[v] = job[v] /\ crossed' = crossed
    BY <1>2, <1>6
  <2>. QED BY <2>1, <2>2, <2>4, <2>5 DEF InStep
<1>7. JobsFit' /\ WorkInHand' /\ ResetsQuietCards'
  <2>1. \A v \in Worker : InStep(v)'
    BY <1>5, <1>6
  <2>. QED BY <2>1, AllInStep
<1>. QED BY <1>2, <1>3, <1>4, <1>7 DEF Core, IInv, Types

(* After a restart nobody works. *)
LEMMA RestartKeeps ==
  ASSUME IInv, Restart
  PROVE  Core'
<1>1. \A c \in Card : hw'[c] \in Hardware /\ CardOK(hw'[c])
  <2>. SUFFICES ASSUME NEW c \in Card PROVE hw'[c] \in Hardware /\ CardOK(hw'[c])
    OBVIOUS
  <2>1. hw[c] \in Hardware /\ CardOK(hw[c]) /\ hw'[c] = [hw[c] EXCEPT !.alive = FALSE, !.sock = FALSE]
    BY DEF IInv, Types, Restart
  <2>. QED BY <2>1 DEF Hardware, CardOK
<1>2. hw' \in [Card -> Hardware]
  <2>1. hw' = [c \in Card |-> [hw[c] EXCEPT !.alive = FALSE, !.sock = FALSE]]
    BY DEF Restart
  <2>. QED BY <1>1, <2>1
<1>3. /\ job' \in [Worker -> Jobs] /\ crossed' = {}
      /\ \A w \in Worker : job'[w] = NoJob /\ job'[w].step = "idle" /\ ~hit'[w]
  BY NoJobIsJob DEF Restart
<1>4. JobsFit' /\ WorkInHand' /\ ResetsQuietCards'
  BY <1>3 DEF JobsFit, WorkInHand, ResetsQuietCards
<1>. QED BY <1>1, <1>2, <1>3, <1>4 DEF Core, Restart

(* Whatever happens, the cards and the jobs stay in step. *)
LEMMA CoreStep ==
  ASSUME IInv, Next
  PROVE  Core'
<1>1. ASSUME NEW w \in Worker, GivesUp(w), Crosses(w) PROVE Core'
  BY <1>1, ReturnKeeps DEF GivesUp
<1>2. ASSUME NEW w \in Worker, Succeeds(w), Crosses(w) PROVE Core'
  <2>1. job[w].step # "idle"
    BY <1>2 DEF Succeeds
  <2>2. Goes(w, NoJob, hw[job[w].card]) /\ hw[job[w].card] \in Hardware /\ CardOK(hw[job[w].card])
    BY <1>2, <2>1, JobFacts DEF Succeeds, Goes
  <2>. QED BY <1>2, <2>1, <2>2, ReturnKeeps DEF Succeeds
<1>. QED
  BY <1>1, <1>2, Shapes, AdvancesKeeps, NextCardKeeps, ApplySpecKeeps, TouchesKeeps, RestartKeeps

-----------------------------------------------------------------------------
(* The path of the windows file, the writes under way and the faults *)

Sides ==
  /\ path \in Files
  /\ mixed \subseteq Worker
  /\ \A e \in late : Fits(e)
  /\ spent \in [Fault -> Nat]

(* A fault is counted. *)
LEMMA HappensCounts ==
  ASSUME IInv, NEW f \in Fault, Happens(f)
  PROVE  spent' \in [Fault -> Nat]
BY DEF Happens, IInv, Types

(* What a write to sysfs, or its failure, does besides its effect. *)
LEMMA SysfsSides ==
  ASSUME IInv, NEW w \in Worker, NEW e, Fits(e), NEW next, Sysfs(w, e, next)
  PROVE  /\ \A d \in late' : Fits(d)
         /\ spent' \in [Fault -> Nat]
         /\ job'[w] \in {next, NoJob}
<1>1. \A d \in late' : Fits(d)
  BY DEF Sysfs, IInv, Types
<1>2. spent' \in [Fault -> Nat]
  <2>1. CASE UNCHANGED spent
    BY <2>1 DEF IInv, Types
  <2>2. CASE Happens("call")
    BY <2>2, HappensCounts DEF Fault
  <2>. QED BY <2>1, <2>2 DEF Sysfs
<1>3. job'[w] \in {next, NoJob}
  BY DEF Sysfs, Goto, Return, IInv, Types
<1>. QED BY <1>1, <1>2, <1>3

(* What a write takes. *)
LEMMA WriteFits ==
  ASSUME NEW c \in Card, NEW arg,
         NEW op \in {"unbind VF", "bind VF", "set VFs", "unbind PF", "bind PF", "reset"},
         op = "set VFs" => arg \in Nat, op = "bind PF" => arg \in Driver
  PROVE  Fits(Write(op, c, arg))
BY DEF Write, Fits

(* The steps other than those at the path: they leave it, and lead neither to the *)
(* run of pf_bb_config nor from it.                                             *)
LEMMA AwayFromPath ==
  ASSUME IInv, NEW w \in Worker,
         \/ Clean(w) \/ BindPF(w) \/ ChangeAmountOfVFs(w) \/ CreateVFs(w) \/ BindVFs(w)
         \/ CommandFails(w) \/ ApplySpec(w) \/ CardDone(w)
  PROVE  /\ UNCHANGED <<path, mixed>>
         /\ \A e \in late' : Fits(e)
         /\ spent' \in [Fault -> Nat]
         /\ job'[w].step \notin {"run", "VFs"}
<1>. DEFINE Away == /\ UNCHANGED <<path, mixed>>
                    /\ \A e \in late' : Fits(e)
                    /\ spent' \in [Fault -> Nat]
                    /\ job'[w].step \notin {"run", "VFs"}
            c == job[w].card
<1>1. /\ \A e \in late : Fits(e)
      /\ spent \in [Fault -> Nat] /\ job \in [Worker -> Jobs] /\ job[w] \in Jobs
      /\ NoJob.step = "idle"
  BY NoJobIsJob DEF IInv, Types
<1>2. ASSUME Return(w, "error") \/ Return(w, "ok") PROVE job'[w].step = "idle"
  BY <1>1, <1>2 DEF Return, Goto
<1>3. ASSUME NEW y \in Steps \ {"run", "VFs"}, NEW x \in SUBSET Nat
      PROVE  /\ [job[w] EXCEPT !.step = y].step \notin {"run", "VFs"}
             /\ [job[w] EXCEPT !.left = x, !.step = y].step \notin {"run", "VFs"}
             /\ [job[w] EXCEPT !.step = y, !.left = x].step \notin {"run", "VFs"}
  BY <1>1 DEF Jobs
<1>4. ASSUME NEW next, Goto(w, next), next.step \notin {"run", "VFs"}
      PROVE  job'[w].step \notin {"run", "VFs"}
  BY <1>1, <1>4 DEF Goto
<1>5. ASSUME NEW e, Fits(e), NEW next, Sysfs(w, e, next), next.step \notin {"run", "VFs"}
      PROVE  /\ \A d \in late' : Fits(d)
             /\ spent' \in [Fault -> Nat]
             /\ job'[w].step \notin {"run", "VFs"}
  BY <1>1, <1>5, SysfsSides
<1>6. Unbinding(w).step \notin {"run", "VFs"}
  BY <1>1 DEF Unbinding, Jobs
<1>7. \A name \in Steps \ {"run", "VFs"} : Step(w, name).step \notin {"run", "VFs"}
  BY <1>1 DEF Step, Jobs
<1>8. \A n : Binding(w, n).step \notin {"run", "VFs"}
  BY <1>1 DEF Binding, Jobs
<1>9. job[w].step # "idle" => c \in Card
  BY JobFacts
<1>10. CASE StopPfBBConfig(w)
  BY <1>1, <1>4, <1>6, <1>10 DEF StopPfBBConfig
<1>11. CASE StopFails(w)
  <2>1. spent' \in [Fault -> Nat]
    BY <1>11, HappensCounts DEF StopFails, Fault
  <2>2. job'[w].step \notin {"run", "VFs"}
    BY <1>2, <1>4, <1>6, <1>11 DEF StopFails
  <2>. QED BY <1>1, <1>11, <2>1, <2>2 DEF StopFails
<1>12. CASE UnbindVFs(w)
  <2>. DEFINE v == First(job[w].left)
              y == IF job[w].left = {v} THEN "remove VFs" ELSE job[w].step
              next == [job[w] EXCEPT !.left = @ \ {v},
                                     !.step = IF job[w].left = {v} THEN "remove VFs" ELSE @]
              e == Write("unbind VF", c, v)
  <2>1. job[w].step = "unbind VFs"
    BY <1>12 DEF UnbindVFs
  <2>2. next.step = y
    BY <1>1 DEF Jobs
  <2>3. Fits(e)
    BY <1>9, <2>1, WriteFits
  <2>. HIDE DEF next, e
  <2>4. next.step \notin {"run", "VFs"}
    BY <2>1, <2>2
  <2>5. UNCHANGED <<path, mixed>>
    BY <1>12 DEF UnbindVFs
  <2>6. CASE Sysfs(w, e, next)
    BY <1>5, <2>3, <2>4, <2>5, <2>6
  <2>7. CASE Goto(w, next) /\ UNCHANGED <<late, spent>>
    BY <1>1, <1>4, <2>4, <2>5, <2>7
  <2>. QED BY <1>12, <2>6, <2>7 DEF UnbindVFs, next, e
<1>13. CASE RemoveVFs(w)
  <2>. DEFINE e == Write("set VFs", c, 0)
  <2>1. Fits(e) /\ Step(w, "unbind").step \notin {"run", "VFs"}
    BY <1>7, <1>9, <1>13, WriteFits DEF RemoveVFs, Steps
  <2>. HIDE DEF e
  <2>2. /\ UNCHANGED <<path, mixed>>
        /\ \/ Sysfs(w, e, Step(w, "unbind"))
           \/ (Goto(w, Step(w, "unbind")) \/ Return(w, "error")) /\ UNCHANGED <<late, spent>>
    BY <1>13 DEF RemoveVFs, e
  <2>. QED BY <1>1, <1>2, <1>4, <1>5, <2>1, <2>2
<1>14. CASE UnbindPF(w)
  <2>. DEFINE e == Write("unbind PF", c, NoDriver)
  <2>1. Fits(e) /\ Step(w, "reset").step \notin {"run", "VFs"}
    BY <1>7, <1>9, <1>14, WriteFits DEF UnbindPF, Steps
  <2>. HIDE DEF e
  <2>2. /\ UNCHANGED <<path, mixed>>
        /\ \/ Sysfs(w, e, Step(w, "reset"))
           \/ Goto(w, Step(w, "reset")) /\ UNCHANGED <<late, spent>>
    BY <1>14 DEF UnbindPF, e
  <2>. QED BY <1>1, <1>4, <1>5, <2>1, <2>2
<1>15. CASE FlrReset(w)
  <2>. DEFINE e == Write("reset", c, NoDriver)
              y == IF Asked(w) = NoConfig THEN "done" ELSE "bind"
  <2>1. y \in Steps \ {"run", "VFs"}
    BY DEF Steps
  <2>2. Fits(e) /\ Step(w, y).step \notin {"run", "VFs"}
    BY <1>7, <1>9, <1>15, <2>1, WriteFits DEF FlrReset
  <2>3. UNCHANGED <<path, mixed>> /\ Sysfs(w, e, Step(w, y))
    BY <1>15 DEF FlrReset
  <2>. QED BY <1>5, <2>2, <2>3
<1>16. CASE BindPF(w)
  <2>. DEFINE u == Write("unbind PF", c, NoDriver)
              b == Write("bind PF", c, PFDriver[Asked(w)])
  <2>1. job[w].step = "bind" /\ Shape(w, job[w]) /\ c \in Card
    BY <1>16, JobFacts DEF BindPF
  <2>2. PFDriver[Asked(w)] \in Driver
    BY <2>1 DEF Shape, ConfigSteps, Asked, Driver
  <2>3. Fits(u) /\ Fits(b) /\ Step(w, "windows").step \notin {"run", "VFs"}
    BY <1>7, <2>1, <2>2, WriteFits DEF Steps
  <2>. HIDE DEF u, b
  <2>4. UNCHANGED <<path, mixed>> /\ (Sysfs(w, u, job[w]) \/ Sysfs(w, b, Step(w, "windows")))
    BY <1>16 DEF BindPF, u, b
  <2>. QED BY <1>5, <2>1, <2>3, <2>4
<1>17. CASE ChangeAmountOfVFs(w)
  <2>. DEFINE n == VFAmount[Asked(w)]
              e == Write("set VFs", c, 0)
              u == Write("set VFs", c, n)
  <2>1. job[w].step = "VFs" /\ c \in Card /\ n \in Nat
    BY <1>17, JobFacts, BindingFits DEF ChangeAmountOfVFs
  <2>2. Fits(e) /\ Fits(u) /\ Step(w, "more VFs").step \notin {"run", "VFs"}
    BY <1>7, <2>1, WriteFits DEF Steps
  <2>. HIDE DEF e, u
  <2>3. /\ UNCHANGED <<path, mixed>>
        /\ \/ Goto(w, Binding(w, n)) /\ UNCHANGED <<late, spent>>
           \/ Sysfs(w, e, Step(w, "more VFs"))
           \/ Sysfs(w, u, Binding(w, n))
    BY <1>17 DEF ChangeAmountOfVFs, e, u
  <2>. QED BY <1>1, <1>4, <1>5, <1>8, <2>2, <2>3
<1>18. CASE CreateVFs(w)
  <2>. DEFINE n == VFAmount[Asked(w)]
              u == Write("set VFs", c, n)
  <2>1. job[w].step = "more VFs" /\ c \in Card /\ n \in Nat
    BY <1>18, JobFacts, BindingFits DEF CreateVFs
  <2>2. Fits(u)
    BY <2>1, WriteFits
  <2>3. UNCHANGED <<path, mixed>> /\ Sysfs(w, u, Binding(w, n))
    BY <1>18 DEF CreateVFs
  <2>. QED BY <1>5, <1>8, <2>2, <2>3
<1>19. CASE BindVFs(w)
  <2>. DEFINE v == First(job[w].left)
              y == IF job[w].left = {v} THEN "done" ELSE job[w].step
              next == [job[w] EXCEPT !.left = @ \ {v},
                                     !.step = IF job[w].left = {v} THEN "done" ELSE @]
              u == Write("unbind VF", c, v)
              b == Write("bind VF", c, v)
  <2>1. job[w].step = "bind VFs"
    BY <1>19 DEF BindVFs
  <2>2. next.step = y
    BY <1>1 DEF Jobs
  <2>3. Fits(u) /\ Fits(b)
    BY <1>9, <2>1, WriteFits
  <2>. HIDE DEF next, u, b
  <2>4. next.step \notin {"run", "VFs"}
    BY <2>1, <2>2
  <2>5. UNCHANGED <<path, mixed>> /\ (Sysfs(w, u, job[w]) \/ Sysfs(w, b, next))
    BY <1>19 DEF BindVFs, next, u, b
  <2>. QED BY <1>5, <2>1, <2>3, <2>4, <2>5
<1>20. CASE CommandFails(w)
  BY <1>1, <1>2, <1>20, HappensCounts DEF CommandFails, CallFails, Fault
<1>21. CASE ApplySpec(w)
  <2>1. UNCHANGED <<path, mixed, late, spent>>
    BY <1>21 DEF ApplySpec
  <2>2. PICK asked \in Requests[w] :
          LET inv == [d \in DOMAIN asked |-> [vfs |-> hw[d].vfs, driver |-> hw[d].driver]]
              due == Due(asked, inv)
          IN Goto(w, [NoJob EXCEPT !.asked = asked, !.inv = inv,
                                   !.step = IF due = {} THEN "done" ELSE "stop",
                                   !.card = IF due = {} THEN First(DOMAIN asked) ELSE First(due)])
    BY <1>21 DEF ApplySpec
  <2>. DEFINE inv == [d \in DOMAIN asked |-> [vfs |-> hw[d].vfs, driver |-> hw[d].driver]]
              due == Due(asked, inv)
              next == [NoJob EXCEPT !.asked = asked, !.inv = inv,
                                    !.step = IF due = {} THEN "done" ELSE "stop",
                                    !.card = IF due = {} THEN First(DOMAIN asked) ELSE First(due)]
  <2>3. next.step = IF due = {} THEN "done" ELSE "stop"
    BY DEF NoJob
  <2>4. Goto(w, next)
    BY <2>2
  <2>. HIDE DEF next, due, inv
  <2>5. next.step \notin {"run", "VFs"}
    BY <2>3
  <2>. QED BY <1>1, <1>4, <2>1, <2>4, <2>5
<1>22. CASE CardDone(w)
  <2>1. UNCHANGED <<path, mixed, late, spent>>
    BY <1>22 DEF CardDone
  <2>2. CASE Return(w, "ok")
    BY <1>1, <1>2, <2>1, <2>2
  <2>3. CASE \E n : Goto(w, [job[w] EXCEPT !.step = "stop", !.card = n])
    <3>1. \A n : [job[w] EXCEPT !.step = "stop", !.card = n].step = "stop"
      BY <1>1 DEF Jobs
    <3>. QED BY <1>1, <1>4, <2>1, <2>3, <3>1
  <2>. QED BY <1>22, <2>2, <2>3 DEF CardDone
<1>. QED
  BY <1>10, <1>11, <1>12, <1>13, <1>14, <1>15, <1>16, <1>17, <1>18, <1>19, <1>20, <1>21, <1>22
     DEF Clean

(* The path that a configuration leads to. *)
LEMMA WindowsFileIsOwn ==
  ASSUME NEW c \in Card, NEW f \in Config
  PROVE  /\ WindowsFile(c, f) \in Files
         /\ WindowsFile(c, f) # NoFile => WindowsFile(c, f) = Own(c, f)
BY DEF WindowsFile, Files, Own

(* What choosing the windows file, or its download, does to the path. *)
LEMMA ChoiceSides ==
  ASSUME IInv, NEW w \in Worker, ChooseWindows(w) \/ DownloadFails(w)
  PROVE  Sides' /\ (UNCHANGED <<path, mixed>> \/ \E file : SetPath(w, file))
<1>1. job[w].step = "windows" /\ UNCHANGED late /\ (UNCHANGED spent \/ Happens("call"))
  BY DEF ChooseWindows, DownloadFails
<1>2. job[w].card \in Card /\ Shape(w, job[w])
  BY <1>1, JobFacts
<1>3. Asked(w) \in Config
  BY <1>1, <1>2 DEF Shape, ConfigSteps, Asked
<1>4. path \in Files /\ mixed \subseteq Worker /\ (\A e \in late : Fits(e)) /\ spent \in [Fault -> Nat]
  BY DEF IInv, Types
<1>5. spent' \in [Fault -> Nat] /\ \A e \in late' : Fits(e)
  BY <1>1, <1>4, HappensCounts DEF Fault
<1>6. \/ UNCHANGED <<path, mixed>>
      \/ \E file \in {NoFile, WindowsFile(job[w].card, Asked(w))} : SetPath(w, file)
  BY DEF ChooseWindows, DownloadFails
<1>7. WindowsFile(job[w].card, Asked(w)) \in Files /\ NoFile \in Files
  BY <1>2, <1>3, WindowsFileIsOwn DEF Files
<1>8. path' \in Files /\ mixed' \subseteq Worker
  BY <1>4, <1>6, <1>7 DEF SetPath
<1>. QED BY <1>5, <1>6, <1>8 DEF Sides

(* The path, the writes under way and the faults keep their types. *)
LEMMA SidesStep ==
  ASSUME IInv, Next
  PROVE  Sides'
<1>1. path \in Files /\ mixed \subseteq Worker /\ (\A e \in late : Fits(e)) /\ spent \in [Fault -> Nat]
  BY DEF IInv, Types
<1>2. ASSUME NEW w \in Worker, Clean(w) \/ Configure(w) \/ CommandFails(w) \/ ApplySpec(w) \/ CardDone(w)
      PROVE  Sides'
  <2>1. CASE ChooseWindows(w) \/ DownloadFails(w)
    BY <2>1, ChoiceSides
  <2>2. CASE RunPFConfig(w)
    BY <1>1, <2>2 DEF RunPFConfig, Sides
  <2>3. CASE \/ Clean(w) \/ BindPF(w) \/ ChangeAmountOfVFs(w) \/ CreateVFs(w) \/ BindVFs(w)
             \/ CommandFails(w) \/ ApplySpec(w) \/ CardDone(w)
    BY <1>1, <2>3, AwayFromPath DEF Sides
  <2>. QED BY <1>2, <2>1, <2>2, <2>3 DEF Configure
<1>3. ASSUME NEW e \in late, Land(e) PROVE Sides'
  BY <1>1, <1>3 DEF Land, Sides
<1>4. ASSUME NEW c \in Card, PfBBConfigDies(c) \/ ResetVFs(c) PROVE Sides'
  BY <1>1, <1>4, HappensCounts DEF PfBBConfigDies, ResetVFs, Sides, Fault
<1>5. ASSUME Restart, UNCHANGED spent \/ Happens("node") PROVE Sides'
  <2>1. NoFile \in Files
    BY DEF Files
  <2>2. spent' \in [Fault -> Nat]
    BY <1>1, <1>5, HappensCounts DEF Fault
  <2>. QED BY <1>1, <1>5, <2>1, <2>2 DEF Restart, Sides
<1>. QED BY <1>2, <1>3, <1>4, <1>5 DEF Next, Crash, Panic

(* A worker leaves the jobs of the others. *)
LEMMA WorkerLeavesOthers ==
  ASSUME IInv, NEW w \in Worker, NEW v \in Worker, v # w,
         Clean(v) \/ Configure(v) \/ CommandFails(v) \/ ApplySpec(v) \/ CardDone(v)
  PROVE  job'[w] = job[w]
<1>1. CASE Clean(v) \/ Configure(v) \/ CommandFails(v)
  BY <1>1, WorkStep DEF Advances, GivesUp, Goes, IInv, Types
<1>2. CASE ApplySpec(v)
  BY <1>2 DEF ApplySpec, Goto, IInv, Types
<1>3. CASE CardDone(v)
  BY <1>3 DEF CardDone, Return, Goto, IInv, Types
<1>. QED BY <1>1, <1>2, <1>3

(* What keeps a worker's path known. *)
LEMMA PathKept ==
  ASSUME IInv, NEW w \in Worker, job'[w] = job[w],
         job[w].step = "run" => w \in mixed' \/ (path' = path /\ w \notin mixed),
         job[w].step = "VFs" =>
           /\ w \notin mixed' => w \notin mixed
           /\ w \notin crossed' => w \notin crossed
           /\ \/ w \in crossed'
              \/ hw'[job[w].card] = hw[job[w].card]
              \/ /\ hw'[job[w].card].regs = hw[job[w].card].regs
                 /\ hw'[job[w].card].windows = hw[job[w].card].windows
              \/ hw'[job[w].card].regs = NoConfig
  PROVE  PathKnown(w)'
<1>1. PathKnown(w)
  BY DEF IInv, PathInHand
<1>2. job[w].step = "VFs" => Asked(w) # NoConfig
  BY JobFacts, ConfigAssumption DEF Shape, ConfigSteps, Asked
<1>. QED BY <1>1, <1>2 DEF PathKnown, Asked

(* The path is known, step by step. *)
LEMMA PathStep ==
  ASSUME IInv, Next
  PROVE  PathInHand'
<1>. SUFFICES ASSUME NEW w \in Worker PROVE PathKnown(w)'
  BY DEF PathInHand
<1>1. ASSUME job'[w].step \notin {"run", "VFs"} PROVE PathKnown(w)'
  BY <1>1 DEF PathKnown
<1>2. job[w] \in Jobs /\ job \in [Worker -> Jobs] /\ mixed \subseteq Worker
  BY DEF IInv, Types
<1>3. ASSUME NEW v \in Worker, v # w, Crosses(v),
             Clean(v) \/ Configure(v) \/ CommandFails(v) \/ ApplySpec(v) \/ CardDone(v)
      PROVE  PathKnown(w)'
  <2>1. UNCHANGED <<path, mixed>> \/ \E file : SetPath(v, file)
    <3>1. CASE ChooseWindows(v) \/ DownloadFails(v)
      BY <3>1, ChoiceSides
    <3>2. CASE RunPFConfig(v)
      BY <3>2 DEF RunPFConfig
    <3>3. CASE \/ Clean(v) \/ BindPF(v) \/ ChangeAmountOfVFs(v) \/ CreateVFs(v) \/ BindVFs(v)
               \/ CommandFails(v) \/ ApplySpec(v) \/ CardDone(v)
      BY <3>3, AwayFromPath
    <3>. QED BY <1>3, <3>1, <3>2, <3>3 DEF Configure
  <2>2. /\ job[w].step = "run" => w \in mixed' \/ (path' = path /\ w \notin mixed)
        /\ w \notin mixed' => w \notin mixed
    BY <1>3, <2>1 DEF SetPath
  <2>3. job'[w] = job[w]
    BY <1>3, WorkerLeavesOthers
  <2>4. CASE job[w].step \in {"run", "VFs"}
    <3>1. job[w].card \in DOMAIN job[w].asked
      BY <2>4, JobFacts DEF Shape
    <3>2. w \notin crossed' => w \notin crossed /\ hw'[job[w].card] = hw[job[w].card]
      BY <1>3, <2>3, <2>4, <3>1, CrossesFacts
    <3>. QED BY <2>2, <2>3, <2>4, <3>2, PathKept
  <2>. QED BY <1>1, <2>3, <2>4
<1>4. ASSUME ChooseWindows(w) PROVE PathKnown(w)'
  <2>. DEFINE c == job[w].card
              j == Step(w, "run")
  <2>1. job[w].step = "windows" /\ c \in Card /\ Shape(w, job[w])
    BY <1>4, JobFacts DEF ChooseWindows
  <2>2. Asked(w) \in Config /\ Asked(w) = job[w].asked[c]
    BY <2>1 DEF Shape, ConfigSteps, Asked
  <2>3. j.step = "run" /\ j.card = c /\ j.asked = job[w].asked
    BY <1>2 DEF Step, Jobs
  <2>. HIDE DEF j
  <2>4. CASE job' = [job EXCEPT ![w] = NoJob]
    BY <1>1, <1>2, <2>4, NoJobIsJob
  <2>5. CASE job' = [job EXCEPT ![w] = j] /\ DefaultWindows[c] = NoFile
    <3>1. job'[w] = j
      BY <1>2, <2>5
    <3>. QED BY <2>3, <2>5, <3>1 DEF PathKnown
  <2>6. CASE job' = [job EXCEPT ![w] = j] /\ path' = Own(c, Asked(w))
    <3>1. job'[w] = j
      BY <1>2, <2>6
    <3>2. job'[w].card = c /\ Asked(w)' = Asked(w) /\ job'[w].step = "run"
      BY <2>2, <2>3, <3>1 DEF Asked
    <3>. QED BY <2>6, <3>2 DEF PathKnown
  <2>7. WindowsFile(c, Asked(w)) # NoFile => WindowsFile(c, Asked(w)) = Own(c, Asked(w))
    BY <2>1, <2>2, WindowsFileIsOwn
  <2>. QED BY <1>4, <2>4, <2>5, <2>6, <2>7 DEF ChooseWindows, SetPath, Goto, Return, j
<1>5. ASSUME RunPFConfig(w) PROVE PathKnown(w)'
  <2>. DEFINE c == job[w].card
              f == Asked(w)
              j == Step(w, "VFs")
              h == [hw[c] EXCEPT !.regs = f, !.alive = PFDriver[f] = VfioPci,
                                 !.sock = PFDriver[f] = VfioPci,
                                 !.windows = IF DefaultWindows[c] = NoFile THEN NoFile ELSE path]
  <2>1. job[w].step = "run" /\ c \in Card /\ hw[c] \in Hardware /\ UNCHANGED <<path, mixed>>
    BY <1>5, JobFacts DEF RunPFConfig
  <2>2. j.step = "VFs" /\ j.card = c /\ j.asked = job[w].asked
    BY <1>2 DEF Step, Jobs
  <2>3. h.windows = IF DefaultWindows[c] = NoFile THEN NoFile ELSE path
    BY <2>1 DEF Hardware
  <2>. HIDE DEF j, h
  <2>4. PathKnown(w)
    BY DEF IInv, PathInHand
  <2>5. CASE job' = [job EXCEPT ![w] = NoJob]
    BY <1>1, <1>2, <2>5, NoJobIsJob
  <2>6. CASE job' = [job EXCEPT ![w] = j] /\ hw' = [hw EXCEPT ![c] = h]
    <3>1. job'[w] = j /\ hw'[c] = h
      BY <1>2, <2>1, <2>6 DEF IInv, Types
    <3>2. job'[w].card = c /\ Asked(w)' = Asked(w) /\ job'[w].step = "VFs"
      BY <2>2, <3>1 DEF Asked
    <3>. QED BY <2>1, <2>3, <2>4, <3>1, <3>2 DEF PathKnown
  <2>. QED BY <1>5, <2>5, <2>6 DEF RunPFConfig, Goto, Return, j, h
<1>6. ASSUME DownloadFails(w) PROVE PathKnown(w)'
  BY <1>1, <1>2, <1>6, NoJobIsJob DEF DownloadFails, Return, Goto
<1>7. ASSUME Clean(w) \/ Configure(w) \/ CommandFails(w) \/ ApplySpec(w) \/ CardDone(w)
      PROVE  PathKnown(w)'
  BY <1>1, <1>4, <1>5, <1>6, <1>7, AwayFromPath DEF Configure
<1>8. ASSUME NEW c \in Card, Touches(c) PROVE PathKnown(w)'
  <2>1. /\ job' = job /\ path' = path /\ mixed' = mixed /\ crossed' = crossed
        /\ \A d \in Card :
             \/ hw'[d] = hw[d]
             \/ hw'[d].regs = hw[d].regs /\ hw'[d].windows = hw[d].windows
             \/ hw'[d].regs = NoConfig
    BY <1>8 DEF Touches, IInv, Types
  <2>2. job[w].step # "idle" => job[w].card \in Card
    BY JobFacts
  <2>3. PathKnown(w)
    BY DEF IInv, PathInHand
  <2>4. job[w].step = "run" /\ w \notin mixed => PathKnown(w)'
    BY <2>1, <2>3 DEF PathKnown, Asked
  <2>5. job[w].step = "run" /\ w \in mixed => PathKnown(w)'
    BY <2>1 DEF PathKnown
  <2>6. job[w].step # "run" => PathKnown(w)'
    BY <2>1, <2>2, PathKept
  <2>. QED BY <2>4, <2>5, <2>6
<1>9. ASSUME Restart PROVE PathKnown(w)'
  BY <1>1, <1>9, NoJobIsJob DEF Restart
<1>10. \/ \E v \in Worker :
            /\ Clean(v) \/ Configure(v) \/ CommandFails(v) \/ ApplySpec(v) \/ CardDone(v)
            /\ Crosses(v)
       \/ \E c \in Card : Touches(c)
       \/ Restart
  BY TouchesShapes DEF Next, Crash, Panic
<1>. QED BY <1>3, <1>7, <1>8, <1>9, <1>10

-----------------------------------------------------------------------------
(* The inductive invariant *)

(* Nobody works, and no card has been touched. *)
LEMMA InitInv ==
  ASSUME Init
  PROVE  IInv
<1>1. Unused \in Hardware /\ CardOK(Unused)
  BY DEF Unused, Hardware, CardOK, Driver, Files
<1>2. \A w \in Worker : job[w] = NoJob /\ job[w].step = "idle" /\ ~hit[w] /\ w \notin crossed
  BY NoJobIsJob DEF Init
<1>3. Types
  BY <1>1, NoJobIsJob DEF Init, Types, Files
<1>4. JobsFit /\ WorkInHand /\ ResetsQuietCards /\ PathInHand
  BY <1>2 DEF JobsFit, WorkInHand, ResetsQuietCards, PathInHand, PathKnown
<1>. QED BY <1>3, <1>4 DEF IInv

(* Every step keeps the invariant. *)
LEMMA NextInv ==
  ASSUME IInv, [Next]_vars
  PROVE  IInv'
<1>1. CASE Next
  BY <1>1, CoreStep, SidesStep, PathStep DEF Core, Sides, IInv, Types
<1>2. CASE UNCHANGED vars
  BY <1>2 DEF vars, IInv, Types, JobsFit, WorkInHand, ResetsQuietCards, PathInHand, PathKnown,
              Asked
<1>. QED BY <1>1, <1>2

(* The inductive invariant holds in every state. *)
LEMMA Invariant == Spec => []IInv
<1>. QED BY InitInv, NextInv, PTL DEF Spec

-----------------------------------------------------------------------------
(* What the runs check, for any cards, configurations, requests and faults *)

(* Every variable has its type, only VFs that exist are bound, and the VFs a     *)
(* worker still has to go through are those of a job on one of its cards.        *)
THEOREM TypeCorrect == Spec => []TypeOK
<1>1. IInv => TypeOK
  <2>. SUFFICES ASSUME IInv PROVE TypeOK
    OBVIOUS
  <2>1. \A c \in Card : hw[c] \in Hardware /\ CardOK(hw[c])
    BY DEF IInv, Types
  <2>2. ASSUME NEW w \in Worker
        PROVE  /\ job[w].step # "idle" => job[w].card \in DOMAIN job[w].asked
               /\ job[w].left # {} => job[w].step \in {"unbind VFs", "bind VFs"}
               /\ w \in crossed => job[w].step # "idle"
    <3>1. CASE job[w].step = "idle"
      BY <3>1 DEF IInv, JobsFit, NoJob
    <3>2. CASE job[w].step # "idle"
      BY <3>2, JobFacts DEF Shape
    <3>. QED BY <3>1, <3>2
  <2>. QED BY <2>1, <2>2 DEF TypeOK, IInv, Types, Hardware, CardOK
<1>. QED BY <1>1, Invariant, PTL

(* The reset is never written to a card that a live pf_bb_config serves, however *)
(* pkill and the node behave, unless another worker has changed one of the       *)
(* worker's cards meanwhile: it may have bound the PF again and started the      *)
(* process.                                                                      *)
THEOREM ResetsAreQuiet == Spec => []ResetsQuietCards
<1>1. IInv => ResetsQuietCards
  BY DEF IInv
<1>. QED BY <1>1, Invariant, PTL

(* pf_bb_config is given the windows file of the card's own configuration, or    *)
(* the default of its model, unless another worker set the shared path between,  *)
(* or changed one of the worker's cards.                                         *)
THEOREM WindowsAreOwn == Spec => []OwnWindows
<1>1. IInv => OwnWindows
  BY DEF IInv, PathInHand, PathKnown, Own, OwnWindows
<1>. QED BY <1>1, Invariant, PTL

-----------------------------------------------------------------------------
(* The contract, step by step *)

(* Before anything happens, the cards have no VFs and nobody works. *)
LEMMA ContractInit ==
  ASSUME Init
  PROVE  Contract!Init
<1>1. \A c \in Card : hw[c].vfs = 0
  BY DEF Init, Unused
<1>2. [c \in Card |-> StateOf(hw[c])] = [c \in Card |-> NoConfig]
  BY <1>1, StateOfNothing
<1>3. [w \in Worker |-> job[w].asked] = [w \in Worker |-> Contract!Idle]
  BY DEF Init, NoJob, NoAsk, Contract!Idle
<1>4. [w \in Worker |-> hit[w] \/ w \in crossed] = [w \in Worker |-> FALSE]
  BY DEF Init
<1>. QED BY <1>2, <1>3, <1>4 DEF Init, Contract!Init

(* What the cards stand for is a state of the contract. *)
LEMMA StatesType ==
  [c \in Card |-> StateOf(hw[c])]' \in [Card -> Contract!State]
BY StateOfType DEF Contract!State

(* Whom a step on card c crosses was asked for c, too. *)
LEMMA CrossesSharing ==
  ASSUME IInv, NEW w \in Worker, job[w].step # "idle", Crosses(w), NEW j, NEW h, Goes(w, j, h),
         NEW v \in Worker, v # w, v \in crossed', v \notin crossed
  PROVE  v \in Contract!Sharing(w)
<1>1. job'[v] = job[v] /\ job[v].step # "idle"
  BY DEF Crosses, Goes, IInv, Types
<1>2. PICK c \in DOMAIN job[v].asked : hw'[c] # hw[c]
  BY <1>1 DEF Crosses
<1>3. c \in Card
  BY <1>1, RequestAssumption DEF IInv, JobsFit, Shape
<1>4. c = job[w].card
  BY <1>2, <1>3 DEF Goes, IInv, Types
<1>5. c \in DOMAIN job[w].asked
  BY <1>4, JobFacts DEF Shape
<1>. QED BY <1>2, <1>5 DEF Contract!Sharing

(* Nobody who was crossed and works on is forgotten. *)
LEMMA CrossedStay ==
  ASSUME IInv, NEW w \in Worker, Crosses(w), NEW v \in Worker, job'[v] = job[v], v \in crossed
  PROVE  v \in crossed'
BY DEF Crosses, IInv, JobsFit

(* A step of a worker hits those that it crosses. *)
LEMMA CrossesHits ==
  ASSUME IInv, NEW w \in Worker, job[w].step # "idle", Crosses(w), NEW j, NEW h, Goes(w, j, h),
         \A v \in Worker \ {w} : hit'[v] = hit[v]
  PROVE  \E S \in SUBSET Contract!Sharing(w) :
           [v \in Worker |-> hit[v] \/ v \in crossed]' =
             [v \in Worker |->
                IF v = w
                THEN hit'[w] \/ w \in crossed'
                ELSE [u \in Worker |-> hit[u] \/ u \in crossed][v] \/ v \in S]
<1>. DEFINE S == {v \in Worker \ {w} : v \in crossed' /\ v \notin crossed}
            was == [v \in Worker |-> hit[v] \/ v \in crossed]
<1>1. S \in SUBSET Contract!Sharing(w)
  BY CrossesSharing
<1>2. \A v \in Worker \ {w} : job'[v] = job[v]
  BY DEF Goes, IInv, Types
<1>3. ASSUME NEW v \in Worker, v # w
      PROVE  (hit'[v] \/ v \in crossed') = (was[v] \/ v \in S)
  BY <1>2, <1>3, CrossedStay
<1>. HIDE DEF S, was
<1>4. [v \in Worker |-> hit[v] \/ v \in crossed]'
        = [v \in Worker |-> IF v = w THEN hit'[w] \/ w \in crossed' ELSE was[v] \/ v \in S]
  BY <1>3
<1>. QED BY <1>1, <1>4 DEF was

(* A step that changes no card crosses nobody. *)
LEMMA CrossesNobody ==
  ASSUME IInv, NEW w \in Worker, Crosses(w), UNCHANGED hw,
         NEW v \in Worker, v # w, job'[v] = job[v]
  PROVE  v \in crossed' <=> v \in crossed
BY CrossedStay DEF Crosses

(* A worker that goes on changes no card but its own, and hits whoever was asked *)
(* for a card that it changes.                                                  *)
LEMMA AdvancesWorks ==
  ASSUME IInv, NEW w \in Worker, Advances(w), Crosses(w)
  PROVE  Contract!Work(w)
<1>1. PICK j \in Jobs, h \in Hardware : Goes(w, j, h) /\ SameTask(j, job[w]) /\ j.step # "idle"
  BY DEF Advances
<1>2. job[w].step # "idle" /\ job[w].card \in DOMAIN job[w].asked
  BY JobFacts DEF Advances, Shape
<1>3. [v \in Worker |-> job[v].asked]' = [v \in Worker |-> job[v].asked]
  BY <1>1 DEF Goes, SameTask, IInv, Types
<1>4. \A d \in Card \ DOMAIN job[w].asked : hw'[d] = hw[d]
  BY <1>1, <1>2 DEF Goes, IInv, Types
<1>5. UNCHANGED <<result, hit>>
  BY DEF Advances
<1>6. \A d \in Card \ DOMAIN job[w].asked : StateOf(hw'[d]) = StateOf(hw[d])
  BY <1>4
<1>7. job'[w] = j /\ \A v \in Worker \ {w} : job'[v] = job[v]
  BY <1>1 DEF Goes, IInv, Types
<1>8. (w \in crossed') = (w \in crossed)
  BY <1>1, <1>7 DEF Crosses
<1>9. Contract!Hits(w, [v \in Worker |-> hit[v] \/ v \in crossed][w])
  <2>1. (hit'[w] \/ w \in crossed') = [v \in Worker |-> hit[v] \/ v \in crossed][w]
    BY <1>5, <1>8
  <2>2. \A v \in Worker \ {w} : hit'[v] = hit[v]
    BY <1>5
  <2>. QED BY <1>1, <1>2, <2>1, <2>2, CrossesHits DEF Contract!Hits
<1>10. ASSUME NEW v \in Contract!Sharing(w), v \notin crossed', NEW c \in DOMAIN job[v].asked
       PROVE  c \in Card /\ StateOf(hw'[c]) = StateOf(hw[c])
  <2>1. v \in Worker /\ v # w
    BY DEF Contract!Sharing
  <2>2. job[v].step # "idle"
    BY <1>10, <2>1 DEF IInv, JobsFit, NoJob, NoAsk
  <2>3. hw'[c] = hw[c]
    BY <1>7, <1>10, <2>1, <2>2, CrossesFacts
  <2>4. c \in Card
    BY <2>1, <2>2, RequestAssumption DEF IInv, JobsFit, Shape
  <2>. QED BY <2>3, <2>4
<1>11. \A v \in Contract!Sharing(w) :
         \/ [u \in Worker |-> hit[u] \/ u \in crossed]'[v]
         \/ \A c \in DOMAIN [u \in Worker |-> job[u].asked][v] :
              [d \in Card |-> StateOf(hw[d])]'[c] = [d \in Card |-> StateOf(hw[d])][c]
  BY <1>10 DEF Contract!Sharing
<1>12. \A c \in Card \ DOMAIN [v \in Worker |-> job[v].asked][w] :
         [d \in Card |-> StateOf(hw[d])]'[c] = [d \in Card |-> StateOf(hw[d])][c]
  BY <1>6
<1>. QED BY <1>3, <1>5, <1>9, <1>11, <1>12, StatesType DEF Contract!Work, Contract!Hits

(* A worker that gives up answers with an error. *)
LEMMA GivesUpFails ==
  ASSUME IInv, NEW w \in Worker, GivesUp(w), Crosses(w)
  PROVE  Contract!Fail(w)
<1>1. PICK h : Goes(w, NoJob, h) /\ StateOf(h) = StateOf(hw[job[w].card])
  BY DEF GivesUp
<1>2. job[w].step # "idle"
  BY DEF GivesUp
<1>3. DOMAIN job[w].asked # {}
  BY <1>2, RequestAssumption, JobFacts DEF Shape
<1>4. job[w].asked # Contract!Idle
  BY <1>3 DEF Contract!Idle
<1>5. [v \in Worker |-> job[v].asked]' = [[v \in Worker |-> job[v].asked] EXCEPT ![w] = Contract!Idle]
  BY <1>1 DEF Goes, NoJob, NoAsk, IInv, Types, Contract!Idle
<1>6. \A d \in Card : StateOf(hw'[d]) = StateOf(hw[d])
  BY <1>1 DEF Goes, IInv, Types
<1>7. [c \in Card |-> StateOf(hw[c])]' = [c \in Card |-> StateOf(hw[c])]
  BY <1>6
<1>8. job'[w].step = "idle" /\ ~hit'[w] /\ \A v \in Worker \ {w} : hit'[v] = hit[v]
  BY <1>1, NoJobIsJob DEF GivesUp, Goes, IInv, Types
<1>9. w \notin crossed'
  BY <1>8, CrossesFacts
<1>10. Contract!Hits(w, FALSE)
  <2>1. (hit'[w] \/ w \in crossed') = FALSE
    BY <1>8, <1>9
  <2>. QED BY <1>1, <1>2, <1>8, <2>1, CrossesHits DEF Contract!Hits
<1>. QED BY <1>4, <1>5, <1>7, <1>10 DEF GivesUp, Contract!Fail

(* A worker that answers "ok" has all its cards as requested, or the node or    *)
(* another worker has changed one of them.                                      *)
LEMMA SucceedsSucceeds ==
  ASSUME IInv, NEW w \in Worker, Succeeds(w), Crosses(w)
  PROVE  Contract!Succeed(w)
<1>. DEFINE i == job[w]
<1>1. i.step = "done" /\ {c \in Due(i.asked, i.inv) : c > i.card} = {}
  BY DEF Succeeds
<1>2. i \in Jobs /\ Shape(w, i) /\ i.card \in Nat
  BY <1>1, JobFacts
<1>3. DOMAIN i.asked # {} /\ DOMAIN i.asked \subseteq Card /\ DOMAIN i.asked \subseteq Nat
  BY <1>2, RequestAssumption, CardAssumption DEF Shape
<1>4. ASSUME ~hit[w], w \notin crossed, NEW c \in DOMAIN i.asked PROVE StateOf(hw[c]) = i.asked[c]
  <2>1. Progress(i, hw)
    BY <1>1, <1>4 DEF IInv, WorkInHand
  <2>2. CASE c \notin Due(i.asked, i.inv)
    <3>1. i.asked[c] = NoConfig /\ ~(i.inv[c].vfs > 0) /\ i.inv[c].vfs \in Nat
      BY <1>2, <2>2 DEF Due, Shape
    <3>2. hw[c].vfs = 0
      BY <2>1, <2>2, <3>1 DEF Progress
    <3>. QED BY <3>1, <3>2, StateOfNothing
  <2>3. CASE c \in Due(i.asked, i.inv) /\ c < i.card
    BY <2>1, <2>3 DEF Progress
  <2>4. CASE c \in Due(i.asked, i.inv) /\ c = i.card
    BY <1>1, <2>1, <2>4 DEF Progress, Prepared
  <2>5. c \in Due(i.asked, i.inv) => ~(c > i.card)
    BY <1>1
  <2>6. c \in Nat
    BY <1>3
  <2>. QED BY <1>2, <2>2, <2>3, <2>4, <2>5, <2>6
<1>5. i.asked # Contract!Idle
  BY <1>3 DEF Contract!Idle
<1>6. [v \in Worker |-> job[v].asked]' = [[v \in Worker |-> job[v].asked] EXCEPT ![w] = Contract!Idle]
  BY DEF Succeeds, NoJob, NoAsk, IInv, Types, Contract!Idle
<1>7. \/ [v \in Worker |-> hit[v] \/ v \in crossed][w]
      \/ \A c \in DOMAIN i.asked : [d \in Card |-> StateOf(hw[d])][c] = i.asked[c]
  BY <1>3, <1>4
<1>8. [v \in Worker |-> hit[v] \/ v \in crossed]'
        = [[v \in Worker |-> hit[v] \/ v \in crossed] EXCEPT ![w] = FALSE]
  <2>1. job'[w].step = "idle" /\ ~hit'[w] /\ UNCHANGED hw
    BY NoJobIsJob DEF Succeeds, IInv, Types
  <2>2. \A v \in Worker \ {w} : job'[v] = job[v] /\ hit'[v] = hit[v]
    BY DEF Succeeds, IInv, Types
  <2>3. w \notin crossed' /\ \A v \in Worker \ {w} : v \in crossed' <=> v \in crossed
    BY <2>1, <2>2, CrossesFacts, CrossesNobody
  <2>. QED BY <2>1, <2>2, <2>3
<1>9. [c \in Card |-> StateOf(hw[c])]' = [c \in Card |-> StateOf(hw[c])]
  BY DEF Succeeds
<1>. QED BY <1>5, <1>6, <1>7, <1>8, <1>9 DEF Succeeds, Contract!Succeed

(* A worker that begins is asked for something. *)
LEMMA ApplySpecBegins ==
  ASSUME IInv, NEW w \in Worker, ApplySpec(w), Crosses(w)
  PROVE  Contract!Begin(w)
<1>1. PICK asked \in Requests[w] :
        LET inv == [c \in DOMAIN asked |-> [vfs |-> hw[c].vfs, driver |-> hw[c].driver]]
            due == Due(asked, inv)
        IN Goto(w, [NoJob EXCEPT !.asked = asked, !.inv = inv,
                                 !.step = IF due = {} THEN "done" ELSE "stop",
                                 !.card = IF due = {} THEN First(DOMAIN asked) ELSE First(due)])
  BY DEF ApplySpec
<1>. DEFINE inv == [c \in DOMAIN asked |-> [vfs |-> hw[c].vfs, driver |-> hw[c].driver]]
            due == Due(asked, inv)
            j == [NoJob EXCEPT !.asked = asked, !.inv = inv,
                               !.step = IF due = {} THEN "done" ELSE "stop",
                               !.card = IF due = {} THEN First(DOMAIN asked) ELSE First(due)]
<1>2. job' = [job EXCEPT ![w] = j] /\ j.asked = asked
  BY <1>1 DEF Goto, NoJob
<1>. HIDE DEF j
<1>3. job[w].step = "idle" /\ result' = [result EXCEPT ![w] = "none"] /\ UNCHANGED <<hw, hit>>
  BY DEF ApplySpec
<1>4. job[w].asked = Contract!Idle /\ ~hit[w] /\ w \notin crossed
  BY <1>3 DEF IInv, JobsFit, NoJob, NoAsk, Contract!Idle
<1>5. [v \in Worker |-> job[v].asked]' = [[v \in Worker |-> job[v].asked] EXCEPT ![w] = asked]
  BY <1>2 DEF IInv, Types
<1>6. asked # Contract!Idle
  <2>1. DOMAIN asked # {}
    BY RequestAssumption
  <2>. QED BY <2>1 DEF Contract!Idle
<1>7. Contract!IsTask(asked)
  BY <1>6, RequestAssumption DEF Contract!IsTask
<1>8. [v \in Worker |-> job[v].asked]'[w] = asked
  BY <1>5
<1>9. [c \in Card |-> StateOf(hw[c])]' = [c \in Card |-> StateOf(hw[c])]
  BY <1>3
<1>10. [v \in Worker |-> hit[v] \/ v \in crossed]'
         = [[v \in Worker |-> hit[v] \/ v \in crossed] EXCEPT ![w] = FALSE]
  <2>1. w \notin crossed'
    BY <1>3, <1>4 DEF Crosses
  <2>2. \A v \in Worker \ {w} : job'[v] = job[v]
    BY <1>2 DEF IInv, Types
  <2>3. \A v \in Worker \ {w} : v \in crossed' <=> v \in crossed
    BY <1>3, <2>2, CrossesNobody
  <2>. QED BY <1>3, <1>4, <2>1, <2>3
<1>. QED BY <1>3, <1>4, <1>5, <1>7, <1>8, <1>9, <1>10 DEF Contract!Begin

(* The node's changes are those that the contract allows it. *)
LEMMA TouchesOutside ==
  ASSUME IInv, NEW c \in Card, Touches(c)
  PROVE  Contract!Outside(c)
<1>1. \A d \in Card \ {c} : hw'[d] = hw[d]
  BY DEF Touches, IInv, Types
<1>2. [v \in Worker |-> job[v].asked]' = [v \in Worker |-> job[v].asked]
  BY DEF Touches
<1>3. [v \in Worker |-> hit[v] \/ v \in crossed]'
        = [w \in Worker |-> [v \in Worker |-> hit[v] \/ v \in crossed][w]
                              \/ c \in DOMAIN [v \in Worker |-> job[v].asked][w]]
  <2>1. crossed' = crossed /\ hit' = [w \in Worker |-> hit[w] \/ c \in DOMAIN job[w].asked]
    BY DEF Touches, Hits
  <2>. QED BY <2>1
<1>4. result' = result
  BY DEF Touches
<1>. QED BY <1>1, <1>2, <1>3, <1>4, StatesType DEF Contract!Outside

(* A restart is a restart. *)
LEMMA RestartRestarts ==
  ASSUME Restart
  PROVE  Contract!Restart
<1>1. [v \in Worker |-> job[v].asked]' = [v \in Worker |-> Contract!Idle]
  BY DEF Restart, NoJob, NoAsk, Contract!Idle
<1>2. [w \in Worker |-> hit[w] \/ w \in crossed]' = [w \in Worker |-> FALSE]
  BY DEF Restart
<1>. QED BY <1>1, <1>2, StatesType DEF Restart, Contract!Restart

(* The next card is no step of the contract. *)
LEMMA NextCardStutters ==
  ASSUME IInv, NEW w \in Worker, NextCard(w), Crosses(w)
  PROVE  UNCHANGED Contract!vars
<1>1. UNCHANGED <<hw, result, hit>>
  BY DEF NextCard
<1>2. [v \in Worker |-> job[v].asked]' = [v \in Worker |-> job[v].asked]
  BY DEF NextCard, IInv, Types, Jobs
<1>3. \A v \in Worker : v \in crossed' <=> v \in crossed
  <2>1. job'[w].step = "stop" /\ \A v \in Worker \ {w} : job'[v] = job[v]
    BY DEF NextCard, IInv, Types, Jobs
  <2>2. w \in crossed' <=> w \in crossed
    BY <2>1 DEF Crosses
  <2>. QED BY <1>1, <2>1, <2>2, CrossesNobody
<1>4. [v \in Worker |-> hit[v] \/ v \in crossed]' = [v \in Worker |-> hit[v] \/ v \in crossed]
  BY <1>1, <1>3
<1>. QED BY <1>1, <1>2, <1>4 DEF Contract!vars

(* ApplySpec keeps its contract, for any cards, configurations, requests and     *)
(* faults: it changes no card it was not asked for, and when it returns no error *)
(* every card it was asked for is as requested, unless the node, or another      *)
(* worker at a card that both were asked for, changed one while it worked.       *)
THEOREM ContractKept == Spec => KeepsContract
<1>1. ASSUME IInv, [Next]_vars PROVE [Contract!Next]_(Contract!vars)
  <2>1. CASE Next
    BY <1>1, <2>1, Shapes, AdvancesWorks, GivesUpFails, SucceedsSucceeds, ApplySpecBegins,
       TouchesOutside, RestartRestarts, NextCardStutters DEF Contract!Next
  <2>2. CASE UNCHANGED vars
    BY <2>2 DEF vars, Contract!vars
  <2>. QED BY <1>1, <2>1, <2>2
<1>. QED BY <1>1, ContractInit, Invariant, PTL DEF Spec, KeepsContract, Contract!Spec
=============================================================================
