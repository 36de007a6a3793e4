---------------------------- MODULE Configurator ----------------------------
(***************************************************************************)
(* The NodeConfigurator of one daemon, at the level of its writes to sysfs *)
(* and of the processes it starts and kills (pkg/daemon/node_management.go *)
(* and bbdevconfig.go).  The FEC and the VRB reconciler share one          *)
(* NodeConfigurator and one variable, the path of the FFT windows file;    *)
(* each works through the cards it was asked for, one after the other, and *)
(* stops at the first error.  Both may be asked for one card: 57c0 is in   *)
(* both inventories, and the FEC reconciler withdraws what has VFs and is  *)
(* not in its spec.  On each card:                                         *)
(*                                                                         *)
(*   stop pf_bb_config, unbind each VF, remove the VFs, unbind the PF,     *)
(*   reset it; then load and bind the drivers, choose the windows file,    *)
(*   run pf_bb_config, create the VFs, bind each of them.                  *)
(*                                                                         *)
(* A write to sysfs blocks while a process uses the device.  After 60 s    *)
(* writeFileWithTimeout gives up, but the goroutine it started goes on:    *)
(* the write lands whenever the device is free.                            *)
(***************************************************************************)
EXTENDS Integers, FiniteSets

CONSTANTS
  Card,            \* PCI addresses, as numbers in address order
  Worker,          \* the reconcilers that share the NodeConfigurator
  Requests,        \* what each may be asked: functions from its cards to configurations
  Config,          \* physical function configurations
  NoConfig,        \* what a withdrawn card is asked for
  Broken,          \* a card that is neither configured nor without VFs
  VFAmount,        \* the vfAmount of a configuration
  PFDriver,        \* its pfDriver
  VfioPci,         \* the driver under which pf_bb_config stays
  NoDriver,        \* a device bound to no driver
  FFTLut,          \* the windows file its fftLut names: a file, NoFile or Half
  NoFile,          \* no file: neither fftUrl nor fftChecksum
  Half,            \* only one of the two
  DefaultWindows,  \* the windows file of a card's model, NoFile for a card without FFT
  WrongSection,    \* configurations whose bbDevConfig is for another model
  FaultPlans       \* bounds on the faults of one behaviour, by kind

(***************************************************************************)
(* "call"   a command, a write or a download fails; a write times out and  *)
(*          lands later                                                    *)
(* "pkill"  pkill fails                                                    *)
(* "node"   a pf_bb_config dies, somebody writes 0 to sriov_numvfs, or the *)
(*          daemon's container restarts, and with it every process         *)
(***************************************************************************)
Fault == {"call", "pkill", "node"}

ASSUME CardAssumption == Card \subseteq Nat

ASSUME ConfigAssumption ==
  /\ NoConfig \notin Config
  /\ Broken \notin Config \cup {NoConfig}
  /\ VFAmount \in [Config -> Nat \ {0}]
  /\ NoDriver \notin {PFDriver[f] : f \in Config}
  /\ WrongSection \subseteq Config

ASSUME RequestAssumption ==
  \A w \in Worker : \A asked \in Requests[w] :
    /\ DOMAIN asked \subseteq Card /\ DOMAIN asked # {}
    /\ \A c \in DOMAIN asked : asked[c] \in Config \cup {NoConfig}

ASSUME BoundAssumption == FaultPlans \subseteq [Fault -> Nat]

VARIABLES
  hw,      \* the cards, their drivers, VFs and pf_bb_config
  job,     \* what each worker is doing
  path,    \* srsFftWindowsCoefficientFilepath
  mixed,   \* the workers for which another one has overwritten the path
  late,    \* the writes that timed out and have not landed
  result,  \* what each worker's last ApplySpec returned
  hit,     \* one of its cards was changed by the node since it began
  crossed, \* the workers one of whose cards another one has changed since they began
  spent    \* faults so far

vars == <<hw, job, path, mixed, late, result, hit, crossed, spent>>

-----------------------------------------------------------------------------
(***************************************************************************)
(* driver   the PF's driver             vfs    sriov_numvfs                *)
(* bound    the VFs that are bound      regs   the queues pf_bb_config set *)
(* alive    pf_bb_config runs           sock   its socket file exists      *)
(* windows  the windows file it was given                                  *)
(***************************************************************************)
Unused ==
  [driver |-> NoDriver, vfs |-> 0, bound |-> {}, regs |-> NoConfig,
   alive |-> FALSE, sock |-> FALSE, windows |-> NoFile]

NoAsk == <<>>

(***************************************************************************)
(* asked    the cards to update and their requested configurations         *)
(* inv      the inventory taken when ApplySpec began                       *)
(* card     the card in work            step   the next call               *)
(* left     the VFs still to be unbound or bound                           *)
(***************************************************************************)
NoJob ==
  [asked |-> NoAsk, inv |-> NoAsk, card |-> 0, step |-> "idle", left |-> {}]

Happens(f) ==
  /\ spent' = [spent EXCEPT ![f] = @ + 1]
  /\ \E plan \in FaultPlans : \A k \in Fault : spent'[k] <= plan[k]

Init ==
  /\ hw = [c \in Card |-> Unused]
  /\ job = [w \in Worker |-> NoJob]
  /\ path = NoFile
  /\ mixed = {}
  /\ late = {}
  /\ result = [w \in Worker |-> "none"]
  /\ hit = [w \in Worker |-> FALSE]
  /\ crossed = {}
  /\ spent = [f \in Fault |-> 0]

-----------------------------------------------------------------------------
(* Writes to sysfs *)

Write(op, c, arg) == [op |-> op, card |-> c, arg |-> arg]

(* The kernel refuses a write to a device that is not there, and a number of *)
(* VFs where there are VFs already.                                          *)
Accepted(h, e) ==
  CASE e.op = "unbind VF"  -> e.arg \in h.bound
    [] e.op = "bind VF"    -> e.arg \in (1..h.vfs) \ h.bound
    [] e.op = "set VFs"    -> h.driver # NoDriver /\ (e.arg = 0 \/ h.vfs = 0)
    [] e.op = "unbind PF"  -> h.driver # NoDriver
    [] e.op = "bind PF"    -> h.driver = NoDriver
    [] e.op = "reset"      -> TRUE

(* A driver does not let go of a PF that a process holds. *)
Blocked(h, e) == e.op = "unbind PF" /\ h.alive

(* A variant with a mistake: VFs that are gone stay bound. *)
SetVFsOnly(h, n) == [h EXCEPT !.vfs = n]

SetVFs(h, n) == [h EXCEPT !.vfs = n, !.bound = {}]

Effect(h, e) ==
  CASE e.op = "unbind VF"  -> [h EXCEPT !.bound = @ \ {e.arg}]
    [] e.op = "bind VF"    -> [h EXCEPT !.bound = @ \cup {e.arg}]
    [] e.op = "set VFs"    -> SetVFs(h, e.arg)
    [] e.op = "unbind PF"  -> [h EXCEPT !.driver = NoDriver]
    [] e.op = "bind PF"    -> [h EXCEPT !.driver = e.arg]
    [] e.op = "reset"      -> [h EXCEPT !.regs = NoConfig, !.windows = NoFile]

Goto(w, j) == job' = [job EXCEPT ![w] = j]

Step(w, name) == [job[w] EXCEPT !.step = name]

(* A variant with a mistake: the error of the unbind is only logged. *)
ReturnUnheeded(w, answer) ==
  IF answer = "error" /\ job[w].step = "unbind"
  THEN Goto(w, Step(w, "reset")) /\ UNCHANGED <<result, hit>>
  ELSE /\ Goto(w, NoJob)
       /\ result' = [result EXCEPT ![w] = answer]
       /\ hit' = [hit EXCEPT ![w] = FALSE]

(* ApplySpec returns. *)
Return(w, answer) ==
  /\ Goto(w, NoJob)
  /\ result' = [result EXCEPT ![w] = answer]
  /\ hit' = [hit EXCEPT ![w] = FALSE]

CallFails(w) ==
  /\ Happens("call")
  /\ Return(w, "error")
  /\ UNCHANGED <<hw, path, mixed, late>>

(* writeFileWithTimeout: the write is done, refused, or given up. *)
Sysfs(w, e, next) ==
  LET h == hw[e.card]
  IN \/ /\ Accepted(h, e) /\ ~Blocked(h, e)
        /\ hw' = [hw EXCEPT ![e.card] = Effect(h, e)]
        /\ Goto(w, next)
        /\ UNCHANGED <<late, result, hit, spent>>
     \/ /\ ~Accepted(h, e)
        /\ Return(w, "error")
        /\ UNCHANGED <<hw, late, spent>>
     \/ /\ Accepted(h, e)
        /\ IF Blocked(h, e) THEN UNCHANGED spent ELSE Happens("call")
        /\ late' = late \cup {e}
        /\ Return(w, "error")
        /\ UNCHANGED hw

-----------------------------------------------------------------------------
(* ApplySpec: the inventory, then card by card *)

Asked(w) == job[w].asked[job[w].card]

Inventoried(w) == job[w].inv[job[w].card]

First(cards) == CHOOSE c \in cards : \A d \in cards : c <= d

(* The cards to work on: a withdrawn card that had no VFs is left as it is. *)
Due(asked, inv) == {c \in DOMAIN asked : asked[c] # NoConfig \/ inv[c].vfs > 0}

(* GetSriovInventory, which may fail, and the first card. *)
ApplySpec(w) ==
  /\ job[w].step = "idle"
  /\ \E asked \in Requests[w] :
       LET inv == [c \in DOMAIN asked |-> [vfs |-> hw[c].vfs, driver |-> hw[c].driver]]
           due == Due(asked, inv)
       IN Goto(w, [NoJob EXCEPT !.asked = asked, !.inv = inv,
                                !.step = IF due = {} THEN "done" ELSE "stop",
                                !.card = IF due = {} THEN First(DOMAIN asked) ELSE First(due)])
  /\ result' = [result EXCEPT ![w] = "none"]
  /\ UNCHANGED <<hw, path, mixed, late, hit, spent>>

(* The loop goes on with the next card, or ApplySpec returns nil. *)
CardDone(w) ==
  LET rest == {c \in Due(job[w].asked, job[w].inv) : c > job[w].card}
  IN /\ job[w].step = "done"
     /\ IF rest = {}
        THEN Return(w, "ok")
        ELSE /\ Goto(w, [job[w] EXCEPT !.step = "stop", !.card = First(rest)])
             /\ UNCHANGED <<result, hit>>
     /\ UNCHANGED <<hw, path, mixed, late, spent>>

(* A command, a write or a listing fails; pkill and the download have actions *)
(* of their own.  Before the first card, the inventory cannot be taken.       *)
CommandFails(w) ==
  /\ job[w].step \notin {"idle", "windows", "done"}
  /\ job[w].step = "stop" => job[w].card = First(DOMAIN job[w].asked)
  /\ CallFails(w)

-----------------------------------------------------------------------------
(* cleanAcceleratorConfig *)

(* The VFs are listed once pf_bb_config is gone. *)
Unbinding(w) ==
  LET vfs == 1..hw[job[w].card].vfs
  IN [job[w] EXCEPT !.step = IF vfs = {} THEN "remove VFs" ELSE "unbind VFs", !.left = vfs]

(* pkill's error counts only when there was a socket file to remove. *)
StopPfBBConfig(w) ==
  LET c == job[w].card
  IN /\ job[w].step = "stop"
     /\ hw' = [hw EXCEPT ![c].alive = FALSE, ![c].sock = FALSE]
     /\ Goto(w, Unbinding(w))
     /\ UNCHANGED <<path, mixed, late, result, hit, spent>>

StopFails(w) ==
  LET c == job[w].card
  IN /\ job[w].step = "stop"
     /\ Happens("pkill")
     /\ hw' = [hw EXCEPT ![c].sock = FALSE]
     /\ IF hw[c].sock
        THEN Return(w, "error")
        ELSE Goto(w, Unbinding(w)) /\ UNCHANGED <<result, hit>>
     /\ UNCHANGED <<path, mixed, late>>

UnbindVFs(w) ==
  LET c == job[w].card
      v == First(job[w].left)
      next == [job[w] EXCEPT !.left = @ \ {v},
                             !.step = IF job[w].left = {v} THEN "remove VFs" ELSE @]
  IN /\ job[w].step = "unbind VFs"
     /\ IF v \in hw[c].bound
        THEN Sysfs(w, Write("unbind VF", c, v), next)
        ELSE Goto(w, next) /\ UNCHANGED <<hw, late, result, hit, spent>>
     /\ UNCHANGED <<path, mixed>>

(* The inventory says whether there are VFs and which driver has the PF. *)
RemoveVFs(w) ==
  LET c == job[w].card
      next == Step(w, "unbind")
  IN /\ job[w].step = "remove VFs"
     /\ CASE Inventoried(w).vfs = 0 \/ hw[c].vfs = 0 ->
               Goto(w, next) /\ UNCHANGED <<hw, late, result, hit, spent>>
          [] Inventoried(w).driver = NoDriver /\ Inventoried(w).vfs # 0 /\ hw[c].vfs # 0 ->
               Return(w, "error") /\ UNCHANGED <<hw, late, spent>>
          [] OTHER -> Sysfs(w, Write("set VFs", c, 0), next)
     /\ UNCHANGED <<path, mixed>>

UnbindPF(w) ==
  LET c == job[w].card
      next == Step(w, "reset")
  IN /\ job[w].step = "unbind"
     /\ IF hw[c].driver = NoDriver
        THEN Goto(w, next) /\ UNCHANGED <<hw, late, result, hit, spent>>
        ELSE Sysfs(w, Write("unbind PF", c, NoDriver), next)
     /\ UNCHANGED <<path, mixed>>

(* flrReset, the last write of cleanAcceleratorConfig. *)
FlrReset(w) ==
  /\ job[w].step = "reset"
  /\ Sysfs(w, Write("reset", job[w].card, NoDriver),
           Step(w, IF Asked(w) = NoConfig THEN "done" ELSE "bind"))
  /\ UNCHANGED <<path, mixed>>

-----------------------------------------------------------------------------
(* configureAccelerator, after the clean *)

(* loadAndBindDrivers; a PF that is bound again by now is unbound first. *)
BindPF(w) ==
  LET c == job[w].card
  IN /\ job[w].step = "bind"
     /\ IF hw[c].driver # NoDriver
        THEN Sysfs(w, Write("unbind PF", c, NoDriver), job[w])
        ELSE Sysfs(w, Write("bind PF", c, PFDriver[Asked(w)]), Step(w, "windows"))
     /\ UNCHANGED <<path, mixed>>

(* A variant with a mistake: a file of its own is the only one ever set. *)
WindowsFileKept(c, f) ==
  CASE FFTLut[f] = Half   -> NoFile
    [] FFTLut[f] = NoFile -> IF path = NoFile THEN DefaultWindows[c] ELSE path
    [] OTHER              -> FFTLut[f]

(* getFftFilePath and the default of the model; NoFile stands for an error. *)
WindowsFile(c, f) ==
  CASE FFTLut[f] = Half   -> NoFile
    [] FFTLut[f] = NoFile -> DefaultWindows[c]
    [] OTHER              -> FFTLut[f]

(* A bbDevConfig of another model: the section the code takes is nil. *)
Panics(w) ==
  /\ job[w].step = "windows"
  /\ DefaultWindows[job[w].card] # NoFile
  /\ Asked(w) \in WrongSection

(* The path is assigned before the error is looked at. *)
SetPath(w, file) ==
  /\ path' = file
  /\ mixed' = (mixed \ {w}) \cup {v \in Worker \ {w} : job[v].step = "run"}

ChooseWindows(w) ==
  LET c == job[w].card
      file == WindowsFile(c, Asked(w))
  IN /\ job[w].step = "windows"
     /\ ~Panics(w)
     /\ IF DefaultWindows[c] = NoFile
        THEN Goto(w, Step(w, "run")) /\ UNCHANGED <<path, mixed, result, hit>>
        ELSE /\ SetPath(w, file)
             /\ IF file = NoFile
                THEN Return(w, "error")
                ELSE Goto(w, Step(w, "run")) /\ UNCHANGED <<result, hit>>
     /\ UNCHANGED <<hw, late, spent>>

(* updateFftFile: the download, the checksum or the archive is bad. *)
DownloadFails(w) ==
  /\ job[w].step = "windows"
  /\ ~Panics(w)
  /\ DefaultWindows[job[w].card] # NoFile
  /\ FFTLut[Asked(w)] \notin {NoFile, Half}
  /\ Happens("call")
  /\ SetPath(w, NoFile)
  /\ Return(w, "error")
  /\ UNCHANGED <<hw, late>>

(* Under vfio-pci the process stays, with a socket; else it ends. *)
RunPFConfig(w) ==
  LET c == job[w].card
      f == Asked(w)
  IN /\ job[w].step = "run"
     /\ IF hw[c].driver = PFDriver[f] /\ ~hw[c].alive
        THEN /\ hw' = [hw EXCEPT ![c].regs = f,
                                 ![c].alive = PFDriver[f] = VfioPci,
                                 ![c].sock = PFDriver[f] = VfioPci,
                                 ![c].windows = IF DefaultWindows[c] = NoFile THEN NoFile ELSE path]
             /\ Goto(w, Step(w, "VFs"))
             /\ UNCHANGED <<result, hit>>
        ELSE /\ Return(w, "error")
             /\ UNCHANGED hw
     /\ UNCHANGED <<path, mixed, late, spent>>

(* A variant with a mistake: the VFs are listed before their number is set. *)
BindingListed(w, vfs) ==
  LET old == 1..hw[job[w].card].vfs
  IN [job[w] EXCEPT !.step = IF old = {} THEN "done" ELSE "bind VFs", !.left = old]

(* createdVfs, listed after the number was set. *)
Binding(w, vfs) == [job[w] EXCEPT !.step = "bind VFs", !.left = 1..vfs]

(* changeAmountOfVFs: from some VFs to none first. *)
ChangeAmountOfVFs(w) ==
  LET c == job[w].card
      n == VFAmount[Asked(w)]
  IN /\ job[w].step = "VFs"
     /\ IF hw[c].vfs = n
        THEN Goto(w, Binding(w, n)) /\ UNCHANGED <<hw, late, result, hit, spent>>
        ELSE IF hw[c].vfs > 0
        THEN Sysfs(w, Write("set VFs", c, 0), Step(w, "more VFs"))
        ELSE Sysfs(w, Write("set VFs", c, n), Binding(w, n))
     /\ UNCHANGED <<path, mixed>>

CreateVFs(w) ==
  LET n == VFAmount[Asked(w)]
  IN /\ job[w].step = "more VFs"
     /\ Sysfs(w, Write("set VFs", job[w].card, n), Binding(w, n))
     /\ UNCHANGED <<path, mixed>>

(* A VF that its driver took on its own is unbound first. *)
BindVFs(w) ==
  LET c == job[w].card
      v == First(job[w].left)
  IN /\ job[w].step = "bind VFs"
     /\ IF v \in hw[c].bound
        THEN Sysfs(w, Write("unbind VF", c, v), job[w])
        ELSE Sysfs(w, Write("bind VF", c, v),
                   [job[w] EXCEPT !.left = @ \ {v},
                                  !.step = IF job[w].left = {v} THEN "done" ELSE @])
     /\ UNCHANGED <<path, mixed>>

-----------------------------------------------------------------------------
(* The node *)

Hits(c) == hit' = [w \in Worker |-> hit[w] \/ c \in DOMAIN job[w].asked]

(* A write that was given up is done, or refused, after all. *)
Land(e) ==
  /\ ~Blocked(hw[e.card], e)
  /\ hw' = [hw EXCEPT ![e.card] = IF Accepted(@, e) THEN Effect(@, e) ELSE @]
  /\ late' = late \ {e}
  /\ Hits(e.card)
  /\ UNCHANGED <<job, path, mixed, result, crossed, spent>>

PfBBConfigDies(c) ==
  /\ hw[c].alive
  /\ Happens("node")
  /\ hw' = [hw EXCEPT ![c].alive = FALSE]
  /\ Hits(c)
  /\ UNCHANGED <<job, path, mixed, late, result, crossed>>

ResetVFs(c) ==
  /\ hw[c].vfs > 0
  /\ Happens("node")
  /\ hw' = [hw EXCEPT ![c].vfs = 0, ![c].bound = {}]
  /\ Hits(c)
  /\ UNCHANGED <<job, path, mixed, late, result, crossed>>

(* The container restarts: processes, files in /tmp and memory are gone. *)
Restart ==
  /\ hw' = [c \in Card |-> [hw[c] EXCEPT !.alive = FALSE, !.sock = FALSE]]
  /\ job' = [w \in Worker |-> NoJob]
  /\ path' = NoFile
  /\ mixed' = {}
  /\ result' = [w \in Worker |-> "none"]
  /\ hit' = [w \in Worker |-> FALSE]
  /\ crossed' = {}
  /\ UNCHANGED late

Crash == Happens("node") /\ Restart

(* A nil section ends the process: nothing recovers from the panic. *)
Panic(w) == Panics(w) /\ Restart /\ UNCHANGED spent

-----------------------------------------------------------------------------
Clean(w) ==
  StopPfBBConfig(w) \/ StopFails(w) \/ UnbindVFs(w) \/ RemoveVFs(w) \/ UnbindPF(w) \/ FlrReset(w)

Configure(w) ==
  \/ BindPF(w) \/ ChooseWindows(w) \/ DownloadFails(w) \/ RunPFConfig(w)
  \/ ChangeAmountOfVFs(w) \/ CreateVFs(w) \/ BindVFs(w)

(* Nothing keeps a worker from a card that another one was asked for: it then *)
(* changes the card under the other's hands.                                  *)
Crosses(w) ==
  crossed' =
    {v \in Worker :
       /\ job'[v].step # "idle"
       /\ v \in crossed \/ (v # w /\ \E c \in DOMAIN job[v].asked : hw'[c] # hw[c])}

Next ==
  \/ \E w \in Worker :
       \/ /\ ApplySpec(w) \/ Clean(w) \/ Configure(w) \/ CardDone(w) \/ CommandFails(w)
          /\ Crosses(w)
       \/ Panic(w)
  \/ \E e \in late : Land(e)
  \/ \E c \in Card : PfBBConfigDies(c) \/ ResetVFs(c)
  \/ Crash

Spec == Init /\ [][Next]_vars

-----------------------------------------------------------------------------
(* Properties *)

Driver == {PFDriver[f] : f \in Config} \cup {NoDriver}

(* Every variable has its type, only VFs that exist are bound, and the VFs a   *)
(* worker still has to go through are those of a job on one of its cards.      *)
TypeOK ==
  /\ \A c \in Card :
       /\ hw[c].driver \in Driver
       /\ hw[c].vfs \in Nat /\ hw[c].bound \subseteq 1..hw[c].vfs
       /\ hw[c].regs \in Config \cup {NoConfig}
       /\ hw[c].alive \in BOOLEAN /\ hw[c].sock \in BOOLEAN
  /\ \A w \in Worker :
       /\ job[w].step # "idle" => job[w].card \in DOMAIN job[w].asked
       /\ job[w].left # {} => job[w].step \in {"unbind VFs", "bind VFs"}
  /\ result \in [Worker -> {"none", "ok", "error"}]
  /\ hit \in [Worker -> BOOLEAN]
  /\ crossed \subseteq {w \in Worker : job[w].step # "idle"}
  /\ spent \in [Fault -> Nat]

(* The reset is never written to a card that a live pf_bb_config serves: a     *)
(* process that pkill did not kill, and whose survival stopPfBBConfig does not *)
(* report, is caught when its PF cannot be unbound.  Only the other reconciler *)
(* may have bound the PF again and started the process meanwhile.              *)
ResetsQuietCards ==
  \A w \in Worker \ crossed : job[w].step \in {"reset", "bind"} => ~hw[job[w].card].alive

(* pf_bb_config was given the windows file of the card's own configuration, or *)
(* the default of its model, unless the other reconciler set the path between, *)
(* srsFftWindowsCoefficientFilepath being one variable for all cards, or worked *)
(* on the card itself.                                                          *)
OwnWindows ==
  \A w \in Worker \ crossed :
    LET c == job[w].card
        f == Asked(w)
    IN (/\ job[w].step = "VFs" /\ hw[c].regs = f
        /\ DefaultWindows[c] # NoFile /\ w \notin mixed) =>
         hw[c].windows = (IF FFTLut[f] = NoFile THEN DefaultWindows[c] ELSE FFTLut[f])

(* A card that serves a configuration: driver, queues, VFs, their drivers and  *)
(* the process that vfio-pci needs.                                            *)
Serves(h, f) ==
  /\ h.driver = PFDriver[f]
  /\ h.regs = f
  /\ h.vfs = VFAmount[f]
  /\ h.bound = 1..h.vfs
  /\ h.alive = (PFDriver[f] = VfioPci)

StateOf(h) ==
  CASE h.vfs = 0                                        -> NoConfig
    [] h.vfs # 0 /\ h.regs \in Config /\ Serves(h, h.regs) -> h.regs
    [] OTHER                                            -> Broken

Contract == INSTANCE CardContract WITH
  state <- [c \in Card |-> StateOf(hw[c])],
  task <- [w \in Worker |-> job[w].asked],
  hit <- [w \in Worker |-> hit[w] \/ w \in crossed]

(* ApplySpec keeps its contract: it changes no card it was not asked for, and  *)
(* when it returns no error every card it was asked for is as requested,       *)
(* unless the node, or the other reconciler at a card that both were asked for, *)
(* changed one while it worked.                                                 *)
KeepsContract == Contract!Spec
=============================================================================
