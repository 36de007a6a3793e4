----------------------------- MODULE Telemetry -----------------------------
(***************************************************************************)
(* The telemetry loop of a daemon and the command line client, which both  *)
(* talk to the pf_bb_config of a card over its socket and read the answer  *)
(* from one file per card, the response log (pkg/daemon/telemetry.go and   *)
(* pf_bb_config_cli.go).                                                   *)
(*                                                                         *)
(* A round of the loop reads the node's two configuration objects, asks    *)
(* the pf_bb_config of every vfio-pci card of an object that is Succeeded  *)
(* for its data, one after the other, queues what it parses, and then      *)
(* replaces all gauges.  For an object that is not Succeeded it queues a   *)
(* count of 0 under the reason of the object's first condition.            *)
(*                                                                         *)
(* The answer to a request is written in two parts, and pf_bb_config takes *)
(* one request at a time.  Loop and client empty the log before they ask,  *)
(* and wait a second for "-- End of Response --".                          *)
(***************************************************************************)
EXTENDS Integers, Sequences, FiniteSets

CONSTANTS
  Card,        \* the cards
  Kind,        \* the kinds of configuration objects, in the order they are read
  Inventory,   \* the cards each kind's object lists under vfio-pci
  Owner,       \* the kind whose reconciler configures the card
  Commands,    \* the commands the client is given
  VFCounts,    \* the numbers of VFs a card may be given
  NotThere,    \* no file, no card, no request
  FaultPlans   \* bounds on the events of one behaviour, by kind

(***************************************************************************)
(* "pass"  a reconciler begins a pass         "die"  a pf_bb_config dies    *)
(* "get"   an object cannot be read           "slow" an answer is late      *)
(* "cli"   somebody runs the client                                        *)
(***************************************************************************)
Fault == {"pass", "die", "get", "slow", "cli"}

ASSUME InventoryAssumption ==
  /\ Kind = <<"fec", "vrb">>
  /\ \A k \in {"fec", "vrb"} : Inventory[k] \subseteq Card
  /\ Owner \in [Card -> {"fec", "vrb"}]
  /\ \A c \in Card : c \in Inventory[Owner[c]]
  /\ Commands \subseteq {"device_data", "mm_read", "auto_reset", "clear_log"}
  /\ VFCounts \subseteq Nat \ {0} /\ VFCounts # {}
  /\ NotThere \notin Card

(* A log that is not there is not one that says nothing, or something. *)
ASSUME NoLogAssumption ==
  NotThere \notin Seq([by : {"loop", "cli", "old"}, part : {"device_data", "mm_read", "end"}, n : Nat])

Kinds == {Kind[i] : i \in DOMAIN Kind}

VARIABLES
  conf,    \* the configuration objects: reason of the first condition, VFs listed
  hw,      \* the cards: VFs, pf_bb_config, its requests
  log,     \* the response logs
  main,    \* the main log ends with the line of a setting that was made
  loop,    \* the telemetry loop
  gauge,   \* the vf_count series, with the VFs that have a status and counters
  cli,     \* the client
  since,   \* the numbers of VFs a card has had since the round began
  spent    \* events so far

vars == <<conf, hw, log, main, loop, gauge, cli, since, spent>>

-----------------------------------------------------------------------------
NoRound ==
  [step |-> "sleep", seen |-> [k \in Kinds |-> NotThere], left |-> [k \in Kinds |-> {}],
   kind |-> Kind[1], card |-> NotThere, queue |-> {}]

NoCommand ==
  [step |-> "idle", card |-> NotThere, cmd |-> "none", shared |-> FALSE, heard |-> "none"]

Happens(f) ==
  /\ spent' = [spent EXCEPT ![f] = @ + 1]
  /\ \E plan \in FaultPlans : \A k \in Fault : spent'[k] <= plan[k]

(* Every card has been configured, and no log has been written.  Which number *)
(* of VFs the cards begin with makes no difference: numbers are only compared  *)
(* for equality.                                                               *)
Init ==
  LET n == CHOOSE m \in VFCounts : TRUE
  IN /\ conf = [k \in Kinds |-> [reason |-> "Succeeded", vfs |-> [c \in Inventory[k] |-> n]]]
     /\ hw = [c \in Card |-> [vfs |-> n, alive |-> TRUE, queue |-> <<>>, half |-> NotThere]]
     /\ log = [c \in Card |-> NotThere]
     /\ main = [c \in Card |-> FALSE]
     /\ loop = NoRound
     /\ gauge = {}
     /\ cli = NoCommand
     /\ since = [c \in Card |-> {n}]
     /\ spent = [f \in Fault |-> 0]

-----------------------------------------------------------------------------
(* pf_bb_config: requests [by, cmd], answers in two parts *)

Part(by, part, n) == [by |-> by, part |-> part, n |-> n]

Written(c) == IF log[c] = NotThere THEN <<>> ELSE log[c]

Take(c) ==
  LET r == Head(hw[c].queue)
  IN /\ hw[c].alive /\ hw[c].half = NotThere /\ hw[c].queue # <<>>
     /\ IF r.cmd \in {"device_data", "mm_read"}
        THEN /\ log' = [log EXCEPT ![c] = Append(Written(c), Part(r.by, r.cmd, hw[c].vfs))]
             /\ hw' = [hw EXCEPT ![c].queue = Tail(@), ![c].half = r.by]
             /\ UNCHANGED main
        ELSE /\ main' = [main EXCEPT ![c] = r.cmd = "auto_reset"]
             /\ hw' = [hw EXCEPT ![c].queue = Tail(@)]
             /\ UNCHANGED log
     /\ UNCHANGED <<conf, loop, gauge, cli, since, spent>>

Finish(c) ==
  /\ hw[c].half # NotThere
  /\ log' = [log EXCEPT ![c] = Append(Written(c), Part(hw[c].half, "end", 0))]
  /\ hw' = [hw EXCEPT ![c].half = NotThere]
  /\ UNCHANGED <<conf, main, loop, gauge, cli, since, spent>>

(* A variant with a mistake: the requests wait for the next pf_bb_config. *)
EndedWaiting(h) == [h EXCEPT !.alive = FALSE, !.half = NotThere]

Ended(h) == [h EXCEPT !.alive = FALSE, !.queue = <<>>, !.half = NotThere]

Busy(c) == hw[c].queue # <<>> \/ hw[c].half # NotThere

-----------------------------------------------------------------------------
(* A round *)

(* The loop sleeps for the gathering interval, which is longer than any answer *)
(* takes that is not slow.                                                    *)
BeginRound ==
  /\ loop.step = "sleep"
  /\ IF \E c \in Card : Busy(c) THEN Happens("slow") ELSE UNCHANGED spent
  /\ loop' = [loop EXCEPT !.step = "get"]
  /\ since' = [c \in Card |-> {hw[c].vfs}]
  /\ UNCHANGED <<conf, hw, log, main, gauge, cli>>

(* getMetrics: the two objects, each of which may be missing. *)
GetNodeConfig ==
  LET k == loop.kind
      last == k = Kind[Len(Kind)]
      got(answer) ==
        LET seen == [loop.seen EXCEPT ![k] = answer]
        IN loop' = IF \A j \in Kinds : last /\ seen[j] = NotThere THEN NoRound
                   ELSE [loop EXCEPT !.seen = seen, !.kind = IF last THEN Kind[1] ELSE Kind[2],
                                     !.step = IF last THEN "sort" ELSE "get"]
  IN /\ loop.step = "get"
     /\ \/ got(conf[k]) /\ UNCHANGED spent
        \/ got(NotThere) /\ Happens("get")
     /\ UNCHANGED <<conf, hw, log, main, gauge, cli, since>>

Series(c, status, n, vfs, counted) ==
  [card |-> c, status |-> status, n |-> n, vfs |-> vfs, counted |-> counted]

(* A gauge holds one value per card and status: the one set last. *)
Queued(queue, s) == {t \in queue : t.card # s.card \/ t.status # s.status} \cup {s}

(* getFecMetrics, getVrbMetrics: whom to ask, and who counts as nothing. *)
SortCards ==
  LET of(k) == IF loop.seen[k] = NotThere THEN {} ELSE Inventory[k]
      ok(k) == loop.seen[k] # NotThere /\ loop.seen[k].reason = "Succeeded"
  IN /\ loop.step = "sort"
     /\ loop' = [loop EXCEPT
          !.step = "next",
          !.left = [k \in Kinds |-> IF ok(k) THEN of(k) ELSE {}],
          !.queue = UNION {{Series(c, loop.seen[k].reason, 0, {}, {}) : c \in of(k)} :
                             k \in {j \in Kinds : loop.seen[j] # NotThere /\ ~ok(j)}}]
     /\ UNCHANGED <<conf, hw, log, main, gauge, cli, since, spent>>

Share(c) == cli' = [cli EXCEPT !.shared = @ \/ (cli.step # "idle" /\ cli.card = c)]

Emptied(c) == log' = [log EXCEPT ![c] = IF @ = NotThere THEN @ ELSE <<>>]

(* A variant with a mistake: the log is not emptied. *)
ClearLogNot(c) == UNCHANGED log

ClearLog(c) == Emptied(c)

(* getTelemetry of the next card, FEC cards first: clearLog. *)
NextCard ==
  /\ loop.step = "next"
  /\ \E k \in Kinds, c \in Card :
       /\ c \in loop.left[k]
       /\ k = "vrb" => loop.left["fec"] = {}
       /\ ClearLog(c)
       /\ Share(c)
       /\ loop' = [loop EXCEPT !.step = "request", !.kind = k, !.card = c, !.left[k] = @ \ {c}]
  /\ UNCHANGED <<conf, hw, main, gauge, since, spent>>

(* A variant with a mistake: the first card that fails ends the round. *)
CardFailedForAll == [loop EXCEPT !.step = "next", !.card = NotThere, !.left = [k \in Kinds |-> {}]]

CardFailed == [loop EXCEPT !.step = "next", !.card = NotThere]

RequestTelemetry ==
  LET c == loop.card
  IN /\ loop.step = "request"
     /\ IF hw[c].alive
        THEN /\ hw' = [hw EXCEPT ![c].queue = Append(@, [by |-> "loop", cmd |-> "device_data"])]
             /\ loop' = [loop EXCEPT !.step = "read"]
        ELSE loop' = CardFailed /\ UNCHANGED hw
     /\ UNCHANGED <<conf, log, main, gauge, cli, since, spent>>

Has(c, part) == \E i \in DOMAIN Written(c) : Written(c)[i].part = part

(* parseVFStatus: the VFs one by one only if there are as many as the object   *)
(* lists.                                                                      *)
DeviceStatus(n, listed) == IF n = listed THEN 1..n ELSE {}

(* processMetrics: a counter has one value for each VF of the card, and values *)
(* go to the listed VFs in their order, or to none.                            *)
Counters(n, listed) == IF n # listed THEN {} ELSE {v \in 1..n : v <= listed}

(* parseTelemetry: the count of the last answer in the file. *)
ParseTelemetry(c, listed) ==
  LET data == {i \in DOMAIN Written(c) : Written(c)[i].part = "device_data"}
      n == Written(c)[CHOOSE i \in data : \A j \in data : j <= i].n
  IN IF data = {} THEN loop.queue
     ELSE Queued(loop.queue,
                 Series(c, "Succeeded", n, DeviceStatus(n, listed), Counters(n, listed)))

(* readFileWithTelemetry: whatever answer has ended. *)
ReadTelemetry ==
  LET c == loop.card
  IN /\ loop.step = "read"
     /\ Has(c, "end")
     /\ loop' = [loop EXCEPT !.step = "next", !.card = NotThere,
                             !.queue = ParseTelemetry(c, loop.seen[loop.kind].vfs[c])]
     /\ UNCHANGED <<conf, hw, log, main, gauge, cli, since, spent>>

(* A second has passed.  An answer under way arrives in time, unless it is slow. *)
ReadTimesOut ==
  /\ loop.step = "read"
  /\ ~Has(loop.card, "end")
  /\ IF Busy(loop.card) THEN Happens("slow") ELSE UNCHANGED spent
  /\ loop' = CardFailed
  /\ UNCHANGED <<conf, hw, log, main, gauge, cli, since>>

(* A variant with a mistake: the gauges are not reset. *)
UpdatedMetricsKept ==
  {s \in gauge : \A t \in loop.queue : t.card # s.card \/ t.status # s.status} \cup loop.queue

UpdatedMetrics == loop.queue

(* updateMetrics: reset, then set. *)
UpdateMetrics ==
  /\ loop.step = "next"
  /\ \A k \in Kinds : loop.left[k] = {}
  /\ gauge' = UpdatedMetrics
  /\ loop' = NoRound
  /\ UNCHANGED <<conf, hw, log, main, cli, since, spent>>

-----------------------------------------------------------------------------
(* The client *)

(* findDevice: the only card of the first object that has one. *)
Devices(k) == IF Cardinality(Inventory[k]) = 1 THEN Inventory[k] ELSE {}

FindDevice(addr) ==
  CASE addr # NotThere                                       -> {addr} \cap UNION {Inventory[k] : k \in Kinds}
    [] addr = NotThere /\ Inventory["fec"] # {}              -> Devices("fec")
    [] addr = NotThere /\ Inventory["fec"] = {}              -> Devices("vrb")

Old(parts) == [i \in DOMAIN parts |-> [parts[i] EXCEPT !.by = "old"]]

(* What is in the log and under way on the card is not this command's. *)
StartPfBbConfigCli ==
  /\ cli.step = "idle"
  /\ Happens("cli")
  /\ \E addr \in Card \cup {NotThere}, cmd \in Commands :
       \E c \in FindDevice(addr) :
         /\ cli' = [NoCommand EXCEPT !.step = "dial", !.card = c, !.cmd = cmd,
                      !.shared = Busy(c) \/ loop.card = c]
         /\ log' = [log EXCEPT ![c] = IF @ = NotThere THEN @ ELSE Old(@)]
  /\ UNCHANGED <<conf, hw, main, loop, gauge, since>>

Return(heard) == cli' = [NoCommand EXCEPT !.heard = heard, !.shared = cli.shared]

(* A variant with a mistake: the response log is not emptied. *)
ClearResponseLogNot(c) == UNCHANGED log

ClearResponseLog(c) == Emptied(c)

(* sendCmd: dial, then empty the response log. *)
Dial ==
  LET c == cli.card
  IN /\ cli.step = "dial"
     /\ IF hw[c].alive
        THEN cli' = [cli EXCEPT !.step = "send"] /\ ClearResponseLog(c)
        ELSE Return("error") /\ UNCHANGED log
     /\ UNCHANGED <<conf, hw, main, loop, gauge, since, spent>>

Send ==
  LET c == cli.card
  IN /\ cli.step = "send"
     /\ IF hw[c].alive
        THEN /\ hw' = [hw EXCEPT ![c].queue = Append(@, [by |-> "cli", cmd |-> cli.cmd])]
             /\ cli' = [cli EXCEPT !.step = "poll"]
        ELSE Return("error") /\ UNCHANGED hw
     /\ UNCHANGED <<conf, log, main, loop, gauge, since, spent>>

ToResponseLog == cli.cmd \in {"device_data", "mm_read"}

(* pollLogFile looks for the end among the last five lines. *)
Answered ==
  LET c == cli.card
  IN CASE ToResponseLog            -> /\ Written(c) # <<>>
                                      /\ Written(c)[Len(Written(c))].part = "end"
       [] cli.cmd = "auto_reset"   -> main[c]
       [] cli.cmd = "clear_log"    -> ~main[c]

Own == \E i \in DOMAIN Written(cli.card) : Written(cli.card)[i] \in
         {Part("cli", cli.cmd, n) : n \in VFCounts}

PollLogFile ==
  /\ cli.step = "poll"
  /\ Answered
  /\ Return(IF ~ToResponseLog THEN "setting" ELSE IF Own THEN "own" ELSE "other")
  /\ UNCHANGED <<conf, hw, log, main, loop, gauge, since, spent>>

(* A log that is not there ends the wait at once. *)
PollFails ==
  /\ cli.step = "poll"
  /\ ~Answered
  /\ IF Busy(cli.card) /\ ~(ToResponseLog /\ log[cli.card] = NotThere)
     THEN Happens("slow") ELSE UNCHANGED spent
  /\ Return("error")
  /\ UNCHANGED <<conf, hw, log, main, loop, gauge, since>>

-----------------------------------------------------------------------------
(* The reconciler of a card, and the node *)

(* InProgress, pf_bb_config stopped. *)
BeginPass(c) ==
  /\ conf[Owner[c]].reason # "InProgress"
  /\ Happens("pass")
  /\ conf' = [conf EXCEPT ![Owner[c]].reason = "InProgress"]
  /\ hw' = [hw EXCEPT ![c] = Ended(@)]
  /\ UNCHANGED <<log, main, loop, gauge, cli, since>>

(* pf_bb_config started, the VFs made, the inventory in the status, or not. *)
EndPass(c) ==
  LET k == Owner[c]
  IN /\ conf[k].reason = "InProgress" /\ ~hw[c].alive
     /\ \/ /\ \E n \in VFCounts :
                /\ hw' = [hw EXCEPT ![c].alive = TRUE, ![c].vfs = n]
                /\ since' = [since EXCEPT ![c] = @ \cup {n}]
                /\ conf' = [conf EXCEPT ![k] = [reason |-> "Succeeded", vfs |-> [@.vfs EXCEPT ![c] = n]]]
        \/ conf' = [conf EXCEPT ![k].reason = "Failed"] /\ UNCHANGED <<hw, since>>
     /\ UNCHANGED <<log, main, loop, gauge, cli, spent>>

Die(c) ==
  /\ hw[c].alive
  /\ Happens("die")
  /\ hw' = [hw EXCEPT ![c] = Ended(@)]
  /\ UNCHANGED <<conf, log, main, loop, gauge, cli, since>>

-----------------------------------------------------------------------------
Round ==
  \/ BeginRound \/ GetNodeConfig \/ SortCards \/ NextCard \/ RequestTelemetry
  \/ ReadTelemetry \/ ReadTimesOut \/ UpdateMetrics

Serve(c) == Take(c) \/ Finish(c)

Client == Dial \/ Send \/ PollLogFile \/ PollFails

Next ==
  \/ Round \/ Client \/ StartPfBbConfigCli
  \/ \E c \in Card : Serve(c) \/ BeginPass(c) \/ EndPass(c) \/ Die(c)

Spec == Init /\ [][Next]_vars

(* The loop runs, pf_bb_config answers, and a reconciler ends its pass. *)
FairSpec ==
  /\ Spec
  /\ WF_vars(Round) /\ WF_vars(Client)
  /\ \A c \in Card : WF_vars(Serve(c)) /\ WF_vars(EndPass(c))

-----------------------------------------------------------------------------
(* Properties *)

(* Every variable has its type, and a process that is dead has no requests. *)
TypeOK ==
  /\ \A k \in Kinds : /\ conf[k].reason \in {"InProgress", "Succeeded", "Failed"}
                      /\ \A c \in Inventory[k] : conf[k].vfs[c] \in VFCounts
  /\ \A c \in Card : /\ hw[c].vfs \in VFCounts
                     /\ ~hw[c].alive => ~Busy(c)
  /\ loop.step \in {"sleep", "get", "sort", "next", "request", "read"}
  /\ loop.step \in {"request", "read"} => loop.card \in Inventory[loop.kind]
  /\ cli.step \in {"idle", "dial", "send", "poll"}
  /\ spent \in [Fault -> Nat]

(* A count that the loop takes for that of a configured card is a number of VFs *)
(* the card has had since the round began, whoever else used the log: no answer *)
(* of an earlier round is taken for one of this round.                          *)
CountedThisRound ==
  \A s \in loop.queue : s.status = "Succeeded" => s.n \in since[s.card]

(* No series survives the round it was made in: a card has at most one count    *)
(* for each object that lists it, however often the object's status changes.    *)
OneCountPerConfig ==
  \A c \in Card :
    Cardinality({s \in gauge : s.card = c}) <= Cardinality({k \in Kinds : c \in Inventory[k]})

(* A command that nobody disturbs prints its own answer: nothing was under way  *)
(* on the card when it began, and the loop did not come by.                     *)
CliHearsItself == (cli.heard = "other") => cli.shared

(* A card that goes on serving its configuration is reported with its number of *)
(* VFs in the end, whatever else is dead, late or disturbed, round after round. *)
LiveCardsReported ==
  \A c \in Card :
    <>[](hw[c].alive /\ conf[Owner[c]].reason = "Succeeded") =>
      []<>(\E s \in gauge : s.card = c /\ s.status = "Succeeded" /\ s.n = hw[c].vfs)
=============================================================================
