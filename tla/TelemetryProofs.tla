-------------------------- MODULE TelemetryProofs --------------------------
(***************************************************************************)
(* Proofs about Telemetry: what a round of the loop counts, how many       *)
(* series the gauges hold, and whose answer the client prints, for any     *)
(* cards, inventories and numbers of VFs, and with any faults.             *)
(*                                                                         *)
(* The inductive invariant has three parts besides the types: the log of   *)
(* the card in work holds answers of this round only (Fresh), the series   *)
(* of a round have one reason per object (Keyed), and the log of a client  *)
(* that nobody disturbs holds its own answer only (Alone).                 *)
(***************************************************************************)
EXTENDS Telemetry, SetInduction, FiniteSetTheorems

-----------------------------------------------------------------------------
(* Types *)

Reasons == {"InProgress", "Succeeded", "Failed"}

Lists == UNION {[Inventory[k] -> VFCounts] : k \in Kinds}

Answers == [reason : Reasons, vfs : Lists]

AllRequests == [by : {"loop", "cli"}, cmd : {"device_data", "mm_read", "auto_reset", "clear_log"}]

Parts == [by : {"loop", "cli", "old"}, part : {"device_data", "mm_read", "end"}, n : Nat]

AllHardware ==
  [vfs : VFCounts, alive : BOOLEAN, queue : Seq(AllRequests), half : {NotThere, "loop", "cli"}]

AllSeries ==
  [card : Card, status : Reasons, n : Nat, vfs : SUBSET Nat, counted : SUBSET Nat]

Rounds ==
  [step : {"sleep", "get", "sort", "next", "request", "read"},
   seen : [Kinds -> Answers \cup {NotThere}], left : [Kinds -> SUBSET Card],
   kind : Kinds, card : Card \cup {NotThere}, queue : SUBSET AllSeries]

Clients ==
  [step : {"idle", "dial", "send", "poll"}, card : Card \cup {NotThere},
   cmd : Commands \cup {"none"}, shared : BOOLEAN,
   heard : {"none", "error", "setting", "own", "other"}]

Types ==
  /\ conf \in [Kinds -> Answers]
  /\ hw \in [Card -> AllHardware]
  /\ log \in [Card -> Seq(Parts) \cup {NotThere}]
  /\ main \in [Card -> BOOLEAN]
  /\ loop \in Rounds
  /\ cli \in Clients
  /\ since \in [Card -> SUBSET Nat]
  /\ spent \in [Fault -> Nat]

(* A round works on the cards that an object lists which it has seen Succeeded.  *)
LoopFits(l) ==
  /\ \A k \in Kinds : l.seen[k] # NotThere => l.seen[k].vfs \in [Inventory[k] -> VFCounts]
  /\ \A k \in Kinds : l.left[k] # {} =>
       /\ l.left[k] \subseteq Inventory[k]
       /\ l.seen[k] # NotThere /\ l.seen[k].reason = "Succeeded"
       /\ l.step \notin {"sleep", "get", "sort"}
  /\ l.step \in {"request", "read"} =>
       /\ l.card \in Inventory[l.kind]
       /\ l.seen[l.kind] # NotThere /\ l.seen[l.kind].reason = "Succeeded"

(* The parts of the type invariant that relate two values. *)
Fitting ==
  /\ \A k \in Kinds : conf[k].vfs \in [Inventory[k] -> VFCounts]
  /\ \A c \in Card : ~hw[c].alive => ~Busy(c)
  /\ LoopFits(loop)
  /\ cli.step # "idle" => cli.card \in Card /\ cli.cmd \in Commands

-----------------------------------------------------------------------------
(* The inductive invariant *)

(* A log holds only answers that were given in this round. *)
LogFresh(c) ==
  \A i \in DOMAIN Written(c) :
    Written(c)[i].part = "device_data" => Written(c)[i].n \in since[c]

(* So it is for the card in work. *)
Fresh ==
  /\ \A c \in Card : hw[c].vfs \in since[c]
  /\ loop.step \in {"sleep", "get", "sort"} => loop.queue = {}
  /\ loop.step \in {"request", "read"} => LogFresh(loop.card)

(* Of each card there is one series for a reason, and the reason is that of an   *)
(* object that lists the card.                                                   *)
Keyed ==
  /\ \A s, t \in loop.queue : s.card = t.card /\ s.status = t.status => s = t
  /\ \A s \in loop.queue : \E k \in Kinds :
       /\ s.card \in Inventory[k]
       /\ loop.seen[k] # NotThere /\ loop.seen[k].reason = s.status

(* Nothing happens on the card of a client that is alone but what it asked for: *)
(* to its requests, an answer under way and what the log says.                  *)
Undisturbed(step, cmd, queue, half, says) ==
  /\ step \in {"dial", "send"} => queue = <<>> /\ half = NotThere
  /\ step = "send" => says = <<>>
  /\ step = "poll" =>
       /\ \A i \in DOMAIN queue : queue[i] = [by |-> "cli", cmd |-> cmd]
       /\ half # NotThere => says # <<>>
       /\ says # <<>> => \E n \in VFCounts : says[1] = Part("cli", cmd, n)

Alone ==
  cli.step # "idle" /\ ~cli.shared =>
    /\ loop.card # cli.card
    /\ Undisturbed(cli.step, cli.cmd, hw[cli.card].queue, hw[cli.card].half, Written(cli.card))

IInv ==
  /\ Types
  /\ Fitting
  /\ Fresh
  /\ CountedThisRound
  /\ Keyed
  /\ OneCountPerConfig
  /\ Alone
  /\ CliHearsItself

-----------------------------------------------------------------------------
(* The operators *)

(* The objects are read in a fixed order, one of each kind. *)
LEMMA TheKinds ==
  /\ Kinds = {"fec", "vrb"}
  /\ Kind[1] = "fec" /\ Kind[2] = "vrb" /\ Kind[Len(Kind)] = "vrb"
<1>1. DOMAIN Kind = {1, 2} /\ Kind[1] = "fec" /\ Kind[2] = "vrb" /\ Len(Kind) = 2
  BY InventoryAssumption
<1>. QED BY <1>1 DEF Kinds

(* Whose answer a part is makes no difference to what it says. *)
LEMMA OldSays ==
  ASSUME NEW parts \in Seq(Parts)
  PROVE  /\ Old(parts) \in Seq(Parts)
         /\ DOMAIN Old(parts) = DOMAIN parts
         /\ \A i \in DOMAIN parts : Old(parts)[i].part = parts[i].part /\ Old(parts)[i].n = parts[i].n
<1>1. \A i \in DOMAIN parts : parts[i] \in Parts
  OBVIOUS
<1>2. \A i \in DOMAIN parts :
        /\ [parts[i] EXCEPT !.by = "old"] \in Parts
        /\ [parts[i] EXCEPT !.by = "old"].part = parts[i].part
        /\ [parts[i] EXCEPT !.by = "old"].n = parts[i].n
  BY <1>1 DEF Parts
<1>3. DOMAIN parts = 1..Len(parts) /\ Len(parts) \in Nat
  OBVIOUS
<1>4. Old(parts) \in [1..Len(parts) -> Parts]
  BY <1>2, <1>3 DEF Old
<1>5. Old(parts) \in Seq(Parts)
  BY <1>3, <1>4
<1>. QED BY <1>2, <1>5 DEF Old

(* What a log says, be it there or not. *)
LEMMA WrittenType ==
  ASSUME Types, NEW c \in Card
  PROVE  Written(c) \in Seq(Parts) /\ DOMAIN Written(c) = 1..Len(Written(c))
BY DEF Types, Written

(* The count of the last answer in a log is one that the log has. *)
LEMMA ParsedCount ==
  ASSUME Types, NEW c \in Card, NEW listed \in Nat, ParseTelemetry(c, listed) # loop.queue
  PROVE  \E i \in DOMAIN Written(c) :
           LET n == Written(c)[i].n
           IN /\ Written(c)[i].part = "device_data" /\ n \in Nat
              /\ ParseTelemetry(c, listed) =
                   Queued(loop.queue,
                          Series(c, "Succeeded", n, DeviceStatus(n, listed), Counters(n, listed)))
<1>. DEFINE data == {i \in DOMAIN Written(c) : Written(c)[i].part = "device_data"}
            last == CHOOSE i \in data : \A j \in data : j <= i
<1>1. /\ Written(c) \in Seq(Parts) /\ DOMAIN Written(c) = 1..Len(Written(c))
      /\ Len(Written(c)) \in Nat
  BY WrittenType
<1>2. data # {} /\ data \in SUBSET Nat /\ \A i \in data : i <= Len(Written(c))
  BY <1>1 DEF ParseTelemetry
<1>3. \E i \in data : \A j \in data : j <= i
  BY <1>1, <1>2, GreatestElement
<1>4. last \in data
  BY <1>3
<1>5. Written(c)[last] \in Parts
  BY <1>1, <1>4
<1>6. Written(c)[last].n \in Nat
  BY <1>5 DEF Parts
<1>7. ParseTelemetry(c, listed) =
        Queued(loop.queue,
               Series(c, "Succeeded", Written(c)[last].n, DeviceStatus(Written(c)[last].n, listed),
                      Counters(Written(c)[last].n, listed)))
  BY <1>2 DEF ParseTelemetry
<1>. QED BY <1>4, <1>6, <1>7

(* What is parsed is queued. *)
LEMMA ParsedType ==
  ASSUME Types, NEW c \in Card, NEW listed \in Nat
  PROVE  ParseTelemetry(c, listed) \subseteq AllSeries
<1>1. loop.queue \subseteq AllSeries
  BY DEF Types, Rounds
<1>2. ASSUME NEW n \in Nat
      PROVE  Series(c, "Succeeded", n, DeviceStatus(n, listed), Counters(n, listed)) \in AllSeries
  <2>1. DeviceStatus(n, listed) \in SUBSET Nat /\ Counters(n, listed) \in SUBSET Nat
    BY DEF DeviceStatus, Counters
  <2>. QED BY <2>1 DEF Series, AllSeries, Reasons
<1>3. CASE ParseTelemetry(c, listed) # loop.queue
  <2>1. PICK n \in Nat :
          ParseTelemetry(c, listed) =
            Queued(loop.queue,
                   Series(c, "Succeeded", n, DeviceStatus(n, listed), Counters(n, listed)))
    BY <1>3, ParsedCount
  <2>. QED BY <1>1, <1>2, <2>1 DEF Queued
<1>. QED BY <1>1, <1>3

-----------------------------------------------------------------------------
(* Types, step by step *)

(* A fault is counted. *)
LEMMA HappensCounts ==
  ASSUME Types, NEW f \in Fault, Happens(f)
  PROVE  spent' \in [Fault -> Nat]
BY DEF Happens, Types

(* A process that is gone has no requests. *)
LEMMA EndedType ==
  ASSUME NEW h \in AllHardware
  PROVE  /\ Ended(h) \in AllHardware /\ Ended(h).alive = FALSE /\ Ended(h).vfs = h.vfs
         /\ Ended(h).queue = <<>> /\ Ended(h).half = NotThere
<1>. DEFINE none == <<>>
<1>1. none \in Seq(AllRequests)
  OBVIOUS
<1>2. Ended(h) = [h EXCEPT !.alive = FALSE, !.queue = none, !.half = NotThere]
  BY DEF Ended
<1>. HIDE DEF none
<1>3. /\ Ended(h) \in AllHardware /\ Ended(h).alive = FALSE /\ Ended(h).vfs = h.vfs
      /\ Ended(h).queue = none /\ Ended(h).half = NotThere
  BY <1>1, <1>2 DEF AllHardware
<1>. QED BY <1>3 DEF none

(* What the round is next, with its types. *)
LEMMA RoundTypes ==
  ASSUME Types, Fitting, Round
  PROVE  loop' \in Rounds /\ LoopFits(loop')
<1>0. /\ conf \in [Kinds -> Answers] /\ hw \in [Card -> AllHardware]
      /\ loop \in Rounds /\ LoopFits(loop)
      /\ \A k \in Kinds : Inventory[k] \subseteq Card
  BY TheKinds, InventoryAssumption DEF Types, Fitting
<1>1. NoRound \in Rounds /\ LoopFits(NoRound)
  BY TheKinds DEF NoRound, Rounds, LoopFits
<1>2. CASE BeginRound
  BY <1>0, <1>2 DEF BeginRound, Rounds, LoopFits
<1>3. CASE GetNodeConfig
  <2>1. PICK answer \in {conf[loop.kind], NotThere}, last \in BOOLEAN :
          LET seen == [loop.seen EXCEPT ![loop.kind] = answer]
          IN \/ loop' = NoRound
             \/ loop' = [loop EXCEPT !.seen = seen, !.kind = IF last THEN Kind[1] ELSE Kind[2],
                                     !.step = IF last THEN "sort" ELSE "get"]
    BY <1>3 DEF GetNodeConfig
  <2>. DEFINE seen == [loop.seen EXCEPT ![loop.kind] = answer]
              l == [loop EXCEPT !.seen = seen, !.kind = IF last THEN Kind[1] ELSE Kind[2],
                                !.step = IF last THEN "sort" ELSE "get"]
  <2>2. loop.kind \in Kinds /\ conf[loop.kind] \in Answers
    BY <1>0 DEF Rounds
  <2>3. /\ seen \in [Kinds -> Answers \cup {NotThere}]
        /\ \A k \in Kinds : seen[k] # NotThere => seen[k].vfs \in [Inventory[k] -> VFCounts]
    BY <1>0, <2>2 DEF Rounds, LoopFits, Fitting
  <2>4. \A k \in Kinds : loop.left[k] = {}
    BY <1>0, <1>3 DEF GetNodeConfig, LoopFits
  <2>. HIDE DEF seen
  <2>5. /\ l \in Rounds /\ l.seen = seen /\ l.left = loop.left
        /\ l.step = IF last THEN "sort" ELSE "get"
    BY <1>0, <2>3, TheKinds DEF Rounds
  <2>. HIDE DEF l
  <2>6. LoopFits(l)
    BY <2>3, <2>4, <2>5 DEF LoopFits
  <2>. QED BY <1>1, <2>1, <2>5, <2>6 DEF l, seen
<1>4. CASE SortCards
  <2>. DEFINE of(k) == IF loop.seen[k] = NotThere THEN {} ELSE Inventory[k]
              ok(k) == loop.seen[k] # NotThere /\ loop.seen[k].reason = "Succeeded"
              left == [k \in Kinds |-> IF ok(k) THEN of(k) ELSE {}]
              queue == UNION {{Series(c, loop.seen[k].reason, 0, {}, {}) : c \in of(k)} :
                                k \in {j \in Kinds : loop.seen[j] # NotThere /\ ~ok(j)}}
              l == [loop EXCEPT !.step = "next", !.left = left, !.queue = queue]
  <2>1. loop' = l
    BY <1>4 DEF SortCards
  <2>2. left \in [Kinds -> SUBSET Card]
    BY <1>0
  <2>3. queue \subseteq AllSeries
    <3>. SUFFICES ASSUME NEW k \in Kinds, loop.seen[k] # NotThere, NEW c \in of(k)
                  PROVE  Series(c, loop.seen[k].reason, 0, {}, {}) \in AllSeries
      OBVIOUS
    <3>1. c \in Card /\ loop.seen[k].reason \in Reasons
      BY <1>0 DEF Rounds, Answers
    <3>. QED BY <3>1 DEF Series, AllSeries
  <2>4. \A k \in Kinds : left[k] # {} => left[k] \subseteq Inventory[k] /\ ok(k)
    OBVIOUS
  <2>. HIDE DEF left, queue
  <2>5. l \in Rounds /\ l.seen = loop.seen /\ l.left = left /\ l.step = "next"
    BY <1>0, <2>2, <2>3 DEF Rounds
  <2>. HIDE DEF l
  <2>6. LoopFits(l)
    BY <1>0, <2>4, <2>5 DEF LoopFits
  <2>. QED BY <2>1, <2>5, <2>6
<1>5. CASE NextCard
  <2>1. PICK k \in Kinds, c \in Card :
          /\ c \in loop.left[k]
          /\ loop' = [loop EXCEPT !.step = "request", !.kind = k, !.card = c, !.left[k] = @ \ {c}]
    BY <1>5 DEF NextCard
  <2>. DEFINE l == [loop EXCEPT !.step = "request", !.kind = k, !.card = c, !.left[k] = @ \ {c}]
  <2>2. /\ l \in Rounds /\ l.seen = loop.seen /\ l.left = [loop.left EXCEPT ![k] = @ \ {c}]
        /\ l.step = "request" /\ l.kind = k /\ l.card = c
    BY <1>0 DEF Rounds
  <2>. HIDE DEF l
  <2>3. \A j \in Kinds : l.left[j] \subseteq loop.left[j]
    BY <1>0, <2>2 DEF Rounds
  <2>4. LoopFits(l)
    BY <1>0, <2>1, <2>2, <2>3 DEF LoopFits
  <2>. QED BY <2>1, <2>2, <2>4 DEF l
<1>6. CASE RequestTelemetry
  <2>1. loop.step = "request" /\ loop' \in {[loop EXCEPT !.step = "read"], CardFailed}
    BY <1>6 DEF RequestTelemetry
  <2>2. CASE loop' = [loop EXCEPT !.step = "read"]
    BY <1>0, <2>1, <2>2 DEF Rounds, LoopFits
  <2>3. CASE loop' = CardFailed
    BY <1>0, <2>1, <2>3 DEF CardFailed, Rounds, LoopFits
  <2>. QED BY <2>1, <2>2, <2>3
<1>7. CASE ReadTelemetry
  <2>. DEFINE listed == loop.seen[loop.kind].vfs[loop.card]
              queue == ParseTelemetry(loop.card, listed)
              l == [loop EXCEPT !.step = "next", !.card = NotThere, !.queue = queue]
  <2>1. loop.step = "read" /\ loop' = l
    BY <1>7 DEF ReadTelemetry
  <2>2. /\ loop.card \in Card /\ loop.card \in Inventory[loop.kind] /\ loop.kind \in Kinds
        /\ listed \in Nat
    BY <1>0, <2>1, InventoryAssumption DEF LoopFits, Rounds
  <2>3. queue \subseteq AllSeries
    BY <1>0, <2>2, ParsedType DEF Rounds
  <2>. HIDE DEF queue
  <2>4. l \in Rounds /\ l.seen = loop.seen /\ l.left = loop.left /\ l.step = "next"
    BY <1>0, <2>3 DEF Rounds
  <2>. HIDE DEF l
  <2>5. LoopFits(l)
    BY <1>0, <2>1, <2>4 DEF LoopFits
  <2>. QED BY <2>1, <2>4, <2>5
<1>8. CASE ReadTimesOut
  BY <1>0, <1>8 DEF ReadTimesOut, CardFailed, Rounds, LoopFits
<1>9. CASE UpdateMetrics
  BY <1>1, <1>9 DEF UpdateMetrics
<1>. QED BY <1>2, <1>3, <1>4, <1>5, <1>6, <1>7, <1>8, <1>9 DEF Round

(* A process that is gone is quiet. *)
Quiet(h) == ~h.alive => h.queue = <<>> /\ h.half = NotThere

(* The cards, and the logs, one of which changes. *)
Hardwares == hw \in [Card -> AllHardware] /\ \A c \in Card : Quiet(hw[c])

Logs == log \in [Card -> Seq(Parts) \cup {NotThere}]

(* A process that is gone has no request, and none half answered. *)
LEMMA HardwareNow ==
  ASSUME Types, Fitting
  PROVE  Hardwares
BY DEF Types, Fitting, Hardwares, Quiet, Busy

(* Another request is queued. *)
LEMMA RequestType ==
  ASSUME Types, Fitting, NEW c \in Card, hw[c].alive, NEW r \in AllRequests,
         hw' = [hw EXCEPT ![c].queue = Append(@, r)]
  PROVE  Hardwares'
<1>. DEFINE q == Append(hw[c].queue, r)
            h == [hw[c] EXCEPT !.queue = q]
<1>1. hw[c] \in AllHardware /\ hw[c].queue \in Seq(AllRequests)
  BY DEF Types, AllHardware
<1>2. q \in Seq(AllRequests)
  BY <1>1
<1>. HIDE DEF q
<1>3. h \in AllHardware /\ h.alive
  BY <1>1, <1>2 DEF AllHardware
<1>4. hw' = [hw EXCEPT ![c] = h]
  BY DEF q
<1>. HIDE DEF h
<1>. QED BY <1>3, <1>4, HardwareNow DEF Hardwares, Quiet

(* pf_bb_config takes a request, and answers it or sets something. *)
LEMMA TakeTypes ==
  ASSUME Types, Fitting, NEW c \in Card, Take(c)
  PROVE  /\ Hardwares' /\ Logs' /\ main' \in [Card -> BOOLEAN]
         /\ UNCHANGED <<conf, loop, gauge, cli, since, spent>>
<1>. DEFINE r == Head(hw[c].queue)
            q == Tail(hw[c].queue)
            p == Part(r.by, r.cmd, hw[c].vfs)
<1>1. hw[c] \in AllHardware /\ hw[c].queue \in Seq(AllRequests) /\ hw[c].alive /\ hw[c].queue # <<>>
  BY DEF Types, AllHardware, Take
<1>2. r \in AllRequests /\ q \in Seq(AllRequests)
  BY <1>1
<1>. HIDE DEF r, q
<1>3. r.by \in {"loop", "cli"} /\ hw[c].vfs \in Nat
  BY <1>1, <1>2, InventoryAssumption DEF AllRequests, AllHardware
<1>4. CASE r.cmd \in {"device_data", "mm_read"}
  <2>. DEFINE h == [hw[c] EXCEPT !.queue = q, !.half = r.by]
              x == Append(Written(c), p)
  <2>1. h \in AllHardware /\ h.alive
    BY <1>1, <1>2, <1>3 DEF AllHardware
  <2>2. p \in Parts
    BY <1>3, <1>4 DEF Part, Parts
  <2>3. x \in Seq(Parts)
    BY <2>2, WrittenType
  <2>4. hw' = [hw EXCEPT ![c] = h] /\ log' = [log EXCEPT ![c] = x] /\ UNCHANGED main
    BY <1>4 DEF Take, r, q
  <2>. HIDE DEF h, x
  <2>5. Hardwares'
    BY <2>1, <2>4, HardwareNow DEF Hardwares, Quiet
  <2>6. Logs'
    BY <2>3, <2>4 DEF Types, Logs
  <2>. QED BY <2>4, <2>5, <2>6 DEF Take, Types
<1>5. CASE r.cmd \notin {"device_data", "mm_read"}
  <2>. DEFINE h == [hw[c] EXCEPT !.queue = q]
  <2>1. h \in AllHardware /\ h.alive
    BY <1>1, <1>2 DEF AllHardware
  <2>2. hw' = [hw EXCEPT ![c] = h] /\ UNCHANGED log /\ main' = [main EXCEPT ![c] = r.cmd = "auto_reset"]
    BY <1>5 DEF Take, r, q
  <2>. HIDE DEF h
  <2>3. Hardwares'
    BY <2>1, <2>2, HardwareNow DEF Hardwares, Quiet
  <2>. QED BY <2>2, <2>3 DEF Take, Types, Logs
<1>. QED BY <1>4, <1>5

(* The second part of an answer. *)
LEMMA FinishTypes ==
  ASSUME Types, Fitting, NEW c \in Card, Finish(c)
  PROVE  Hardwares' /\ Logs' /\ UNCHANGED <<conf, main, loop, gauge, cli, since, spent>>
<1>. DEFINE p == Part(hw[c].half, "end", 0)
            h == [hw[c] EXCEPT !.half = NotThere]
            x == Append(Written(c), p)
<1>1. hw[c] \in AllHardware /\ hw[c].half \in {"loop", "cli"} /\ Quiet(hw[c])
  BY HardwareNow DEF Hardwares, AllHardware, Finish
<1>2. h \in AllHardware /\ h.alive
  BY <1>1 DEF AllHardware, Quiet, Finish
<1>3. p \in Parts
  BY <1>1 DEF Part, Parts
<1>4. x \in Seq(Parts)
  BY <1>3, WrittenType
<1>5. hw' = [hw EXCEPT ![c] = h] /\ log' = [log EXCEPT ![c] = x]
  BY DEF Finish
<1>. HIDE DEF h, x
<1>. QED BY <1>2, <1>4, <1>5, HardwareNow DEF Hardwares, Quiet, Finish, Types, Logs

(* A log is emptied, if it is there. *)
LEMMA EmptiedType ==
  ASSUME Types, NEW c \in Card, Emptied(c)
  PROVE  /\ Logs' /\ Written(c)' = <<>>
         /\ \A d \in Card \ {c} : log'[d] = log[d]
<1>1. <<>> \in Seq(Parts)
  OBVIOUS
<1>. QED BY <1>1 DEF Types, Logs, Emptied, Written

(* A client is disturbed. *)
LEMMA ShareType ==
  ASSUME Types, NEW c \in Card, Share(c)
  PROVE  /\ cli' \in Clients /\ cli'.step = cli.step /\ cli'.card = cli.card
         /\ cli'.cmd = cli.cmd /\ cli'.heard = cli.heard
         /\ cli'.shared = (cli.shared \/ (cli.step # "idle" /\ cli.card = c))
BY DEF Types, Clients, Share

(* A client returns. *)
LEMMA ReturnType ==
  ASSUME Types, NEW heard \in {"none", "error", "setting", "own", "other"}, Return(heard)
  PROVE  cli' \in Clients /\ cli'.step = "idle" /\ cli'.shared = cli.shared /\ cli'.heard = heard
BY DEF Types, Clients, Return, NoCommand

(* The client, the cards and the logs after a step of the client. *)
LEMMA ClientTypes ==
  ASSUME Types, Fitting, Client \/ StartPfBbConfigCli
  PROVE  /\ Hardwares' /\ Logs' /\ cli' \in Clients
         /\ cli'.step # "idle" => cli'.card \in Card /\ cli'.cmd \in Commands
         /\ UNCHANGED <<conf, main, loop, gauge, since>> /\ spent' \in [Fault -> Nat]
<1>0. /\ cli \in Clients /\ (cli.step # "idle" => cli.card \in Card /\ cli.cmd \in Commands)
      /\ Hardwares /\ Logs /\ spent \in [Fault -> Nat]
  BY HardwareNow DEF Types, Fitting, Logs
<1>1. CASE StartPfBbConfigCli
  <2>1. spent' \in [Fault -> Nat]
    BY <1>1, HappensCounts DEF StartPfBbConfigCli, Fault
  <2>0. \A addr \in Card \cup {NotThere} : FindDevice(addr) \subseteq Card
    BY TheKinds, InventoryAssumption DEF FindDevice, Devices
  <2>2. PICK cmd \in Commands, c \in Card :
          /\ cli' = [NoCommand EXCEPT !.step = "dial", !.card = c, !.cmd = cmd,
                       !.shared = Busy(c) \/ loop.card = c]
          /\ log' = [log EXCEPT ![c] = IF @ = NotThere THEN @ ELSE Old(@)]
    BY <1>1, <2>0 DEF StartPfBbConfigCli
  <2>4. cli' \in Clients /\ cli'.card \in Card /\ cli'.cmd \in Commands
    <3>. DEFINE b == Busy(c) \/ loop.card = c
    <3>1. b \in BOOLEAN
      BY DEF Busy
    <3>2. cli' = [NoCommand EXCEPT !.step = "dial", !.card = c, !.cmd = cmd, !.shared = b]
      BY <2>2
    <3>. HIDE DEF b
    <3>. QED BY <3>1, <3>2 DEF Clients, NoCommand
  <2>5. Logs'
    BY <1>0, <2>2, OldSays DEF Logs
  <2>. QED BY <1>0, <1>1, <2>1, <2>4, <2>5 DEF StartPfBbConfigCli, Hardwares
<1>2. ASSUME NEW heard \in {"none", "error", "setting", "own", "other"}, Return(heard)
      PROVE  cli' \in Clients /\ cli'.step = "idle"
  BY <1>2, ReturnType
<1>3. CASE Dial
  <2>1. UNCHANGED <<conf, hw, main, loop, gauge, since, spent>> /\ cli.card \in Card /\ cli.cmd \in Commands
    BY <1>0, <1>3 DEF Dial
  <2>2. CASE cli' = [cli EXCEPT !.step = "send"] /\ ClearResponseLog(cli.card)
    BY <1>0, <2>1, <2>2, EmptiedType DEF ClearResponseLog, Clients, Hardwares
  <2>3. CASE Return("error") /\ UNCHANGED log
    BY <1>0, <1>2, <2>1, <2>3 DEF Hardwares, Logs
  <2>. QED BY <1>3, <2>2, <2>3 DEF Dial
<1>4. CASE Send
  <2>. DEFINE r == [by |-> "cli", cmd |-> cli.cmd]
  <2>1. UNCHANGED <<conf, log, main, loop, gauge, since, spent>> /\ cli.card \in Card /\ cli.cmd \in Commands
    BY <1>0, <1>4 DEF Send
  <2>2. r \in AllRequests
    BY <2>1, InventoryAssumption DEF AllRequests
  <2>3. CASE /\ hw[cli.card].alive
             /\ hw' = [hw EXCEPT ![cli.card].queue = Append(@, r)]
             /\ cli' = [cli EXCEPT !.step = "poll"]
    <3>1. Hardwares'
      BY <2>1, <2>2, <2>3, RequestType
    <3>2. cli' \in Clients /\ cli'.card = cli.card /\ cli'.cmd = cli.cmd
      BY <1>0, <2>3 DEF Clients
    <3>. QED BY <1>0, <2>1, <3>1, <3>2 DEF Logs
  <2>4. CASE Return("error") /\ UNCHANGED hw
    BY <1>0, <1>2, <2>1, <2>4 DEF Hardwares, Logs
  <2>. QED BY <1>4, <2>3, <2>4 DEF Send
<1>5. CASE PollLogFile
  <2>1. cli' \in Clients /\ cli'.step = "idle"
    BY <1>2, <1>5 DEF PollLogFile
  <2>. QED BY <1>0, <1>5, <2>1 DEF PollLogFile, Hardwares, Logs
<1>6. CASE PollFails
  <2>1. cli' \in Clients /\ cli'.step = "idle"
    BY <1>2, <1>6 DEF PollFails
  <2>2. spent' \in [Fault -> Nat]
    BY <1>0, <1>6, HappensCounts DEF PollFails, Fault
  <2>. QED BY <1>0, <1>6, <2>1, <2>2 DEF PollFails, Hardwares, Logs
<1>. QED BY <1>1, <1>3, <1>4, <1>5, <1>6 DEF Client

(* What the steps of a round do to the rest. *)
LEMMA RoundRest ==
  ASSUME Types, Fitting, Round
  PROVE  /\ Hardwares' /\ Logs' /\ cli' \in Clients
         /\ cli'.step = cli.step /\ cli'.card = cli.card /\ cli'.cmd = cli.cmd
         /\ cli'.heard = cli.heard /\ (cli.shared => cli'.shared)
         /\ since' \in [Card -> SUBSET Nat] /\ UNCHANGED <<conf, main>>
         /\ spent' \in [Fault -> Nat]
<1>0. /\ cli \in Clients /\ Hardwares /\ Logs /\ spent \in [Fault -> Nat]
      /\ since \in [Card -> SUBSET Nat]
  BY HardwareNow DEF Types, Logs
<1>1. CASE BeginRound
  <2>1. spent' \in [Fault -> Nat]
    BY <1>0, <1>1, HappensCounts DEF BeginRound, Fault
  <2>2. \A c \in Card : hw[c].vfs \in Nat
    BY <1>0, InventoryAssumption DEF Hardwares, AllHardware
  <2>3. since' \in [Card -> SUBSET Nat]
    BY <1>1, <2>2 DEF BeginRound
  <2>. QED BY <1>0, <1>1, <2>1, <2>3 DEF BeginRound, Hardwares, Logs
<1>2. CASE GetNodeConfig
  <2>1. spent' \in [Fault -> Nat]
    BY <1>0, <1>2, HappensCounts DEF GetNodeConfig, Fault
  <2>. QED BY <1>0, <1>2, <2>1 DEF GetNodeConfig, Hardwares, Logs
<1>3. CASE SortCards
  BY <1>0, <1>3 DEF SortCards, Hardwares, Logs
<1>4. CASE NextCard
  <2>1. PICK c \in Card : Emptied(c) /\ Share(c)
    BY <1>4 DEF NextCard, ClearLog
  <2>2. Logs'
    BY <2>1, EmptiedType
  <2>3. /\ cli' \in Clients /\ cli'.step = cli.step /\ cli'.card = cli.card
        /\ cli'.cmd = cli.cmd /\ cli'.heard = cli.heard /\ (cli.shared => cli'.shared)
    BY <2>1, ShareType
  <2>4. UNCHANGED <<conf, hw, main, gauge, since, spent>>
    BY <1>4 DEF NextCard
  <2>. QED BY <1>0, <2>2, <2>3, <2>4 DEF Hardwares
<1>5. CASE RequestTelemetry
  <2>. DEFINE r == [by |-> "loop", cmd |-> "device_data"]
  <2>1. loop.card \in Card
    BY <1>5, TheKinds, InventoryAssumption DEF Fitting, LoopFits, RequestTelemetry, Types, Rounds
  <2>2. r \in AllRequests
    BY DEF AllRequests
  <2>3. UNCHANGED <<conf, log, main, gauge, cli, since, spent>>
    BY <1>5 DEF RequestTelemetry
  <2>4. CASE hw[loop.card].alive /\ hw' = [hw EXCEPT ![loop.card].queue = Append(@, r)]
    BY <1>0, <2>1, <2>2, <2>3, <2>4, RequestType DEF Logs
  <2>5. CASE UNCHANGED hw
    BY <1>0, <2>3, <2>5 DEF Hardwares, Logs
  <2>. QED BY <1>5, <2>4, <2>5 DEF RequestTelemetry
<1>6. CASE ReadTelemetry
  BY <1>0, <1>6 DEF ReadTelemetry, Hardwares, Logs
<1>7. CASE ReadTimesOut
  <2>1. spent' \in [Fault -> Nat]
    BY <1>0, <1>7, HappensCounts DEF ReadTimesOut, Fault
  <2>. QED BY <1>0, <1>7, <2>1 DEF ReadTimesOut, Hardwares, Logs
<1>8. CASE UpdateMetrics
  BY <1>0, <1>8 DEF UpdateMetrics, Hardwares, Logs
<1>. QED BY <1>1, <1>2, <1>3, <1>4, <1>5, <1>6, <1>7, <1>8 DEF Round

(* What the reconciler of a card and the node leave it. *)
LEMMA NodeTypes ==
  ASSUME Types, Fitting, NEW c \in Card, BeginPass(c) \/ EndPass(c) \/ Die(c)
  PROVE  /\ Hardwares' /\ conf' \in [Kinds -> Answers]
         /\ \A k \in Kinds : conf'[k].vfs \in [Inventory[k] -> VFCounts]
         /\ since' \in [Card -> SUBSET Nat] /\ UNCHANGED <<log, main, loop, gauge, cli>>
         /\ spent' \in [Fault -> Nat]
<1>0. /\ Hardwares /\ spent \in [Fault -> Nat] /\ since \in [Card -> SUBSET Nat]
      /\ conf \in [Kinds -> Answers] /\ Owner[c] \in Kinds /\ c \in Inventory[Owner[c]]
      /\ \A k \in Kinds : conf[k].vfs \in [Inventory[k] -> VFCounts]
  BY HardwareNow, InventoryAssumption, TheKinds DEF Types, Fitting
<1>1. ASSUME hw' = [hw EXCEPT ![c] = Ended(@)] PROVE Hardwares'
  <2>1. Ended(hw[c]) \in AllHardware /\ Quiet(Ended(hw[c]))
    BY <1>0, EndedType DEF Hardwares, Quiet
  <2>. QED BY <1>0, <1>1, <2>1 DEF Hardwares
<1>2. ASSUME NEW y \in Reasons, conf' = [conf EXCEPT ![Owner[c]].reason = y]
      PROVE  /\ conf' \in [Kinds -> Answers]
             /\ \A k \in Kinds : conf'[k].vfs \in [Inventory[k] -> VFCounts]
  BY <1>0, <1>2 DEF Answers
<1>3. CASE BeginPass(c)
  <2>1. spent' \in [Fault -> Nat]
    BY <1>3, HappensCounts DEF BeginPass, Fault
  <2>2. "InProgress" \in Reasons
    BY DEF Reasons
  <2>. QED BY <1>0, <1>1, <1>2, <1>3, <2>1, <2>2 DEF BeginPass
<1>4. CASE Die(c)
  <2>1. spent' \in [Fault -> Nat]
    BY <1>4, HappensCounts DEF Die, Fault
  <2>. QED BY <1>0, <1>1, <1>4, <2>1 DEF Die
<1>5. CASE EndPass(c)
  <2>1. UNCHANGED <<log, main, loop, gauge, cli, spent>>
    BY <1>5 DEF EndPass
  <2>2. CASE conf' = [conf EXCEPT ![Owner[c]].reason = "Failed"] /\ UNCHANGED <<hw, since>>
    <3>1. "Failed" \in Reasons
      BY DEF Reasons
    <3>. QED BY <1>0, <1>2, <2>1, <2>2, <3>1 DEF Hardwares
  <2>3. ASSUME NEW n \in VFCounts,
               hw' = [hw EXCEPT ![c].alive = TRUE, ![c].vfs = n],
               since' = [since EXCEPT ![c] = @ \cup {n}],
               conf' = [conf EXCEPT ![Owner[c]] =
                          [reason |-> "Succeeded", vfs |-> [@.vfs EXCEPT ![c] = n]]]
        PROVE  /\ Hardwares' /\ conf' \in [Kinds -> Answers]
               /\ \A k \in Kinds : conf'[k].vfs \in [Inventory[k] -> VFCounts]
               /\ since' \in [Card -> SUBSET Nat]
    <3>. DEFINE h == [hw[c] EXCEPT !.alive = TRUE, !.vfs = n]
                l == [conf[Owner[c]].vfs EXCEPT ![c] = n]
                a == [reason |-> "Succeeded", vfs |-> l]
    <3>1. h \in AllHardware /\ Quiet(h)
      BY <1>0 DEF Hardwares, AllHardware, Quiet
    <3>2. l \in [Inventory[Owner[c]] -> VFCounts]
      BY <1>0
    <3>3. a \in Answers /\ a.vfs = l
      BY <1>0, <3>2 DEF Answers, Lists, Reasons
    <3>4. hw' = [hw EXCEPT ![c] = h] /\ conf' = [conf EXCEPT ![Owner[c]] = a]
      BY <2>3
    <3>5. n \in Nat
      BY InventoryAssumption
    <3>. HIDE DEF h, l, a
    <3>6. Hardwares'
      BY <1>0, <3>1, <3>4 DEF Hardwares
    <3>7. /\ conf' \in [Kinds -> Answers]
          /\ \A k \in Kinds : conf'[k].vfs \in [Inventory[k] -> VFCounts]
      BY <1>0, <3>2, <3>3, <3>4
    <3>8. since' \in [Card -> SUBSET Nat]
      BY <1>0, <2>3, <3>5
    <3>. QED BY <3>6, <3>7, <3>8
  <2>. QED BY <1>0, <1>5, <2>1, <2>2, <2>3 DEF EndPass
<1>. QED BY <1>3, <1>4, <1>5

(* The types, whatever happens. *)
LEMMA TypesStep ==
  ASSUME Types, Fitting, [Next]_vars
  PROVE  Types' /\ Fitting'
<1>. DEFINE Rest == /\ conf' \in [Kinds -> Answers] /\ main' \in [Card -> BOOLEAN]
                    /\ \A k \in Kinds : conf'[k].vfs \in [Inventory[k] -> VFCounts]
                    /\ since' \in [Card -> SUBSET Nat] /\ spent' \in [Fault -> Nat]
            Cli == cli' \in Clients /\ (cli'.step # "idle" => cli'.card \in Card /\ cli'.cmd \in Commands)
            Loop == loop' \in Rounds /\ LoopFits(loop')
<1>0. /\ conf \in [Kinds -> Answers] /\ main \in [Card -> BOOLEAN]
      /\ \A k \in Kinds : conf[k].vfs \in [Inventory[k] -> VFCounts]
      /\ since \in [Card -> SUBSET Nat] /\ spent \in [Fault -> Nat]
      /\ cli \in Clients /\ (cli.step # "idle" => cli.card \in Card /\ cli.cmd \in Commands)
      /\ loop \in Rounds /\ LoopFits(loop) /\ Logs
  BY DEF Types, Fitting, Logs
<1>1. ASSUME Hardwares', Logs', Rest, Cli, Loop PROVE Types' /\ Fitting'
  BY <1>1 DEF Types, Fitting, Hardwares, Logs, Quiet, Busy
<1>2. CASE Round
  BY <1>0, <1>1, <1>2, RoundTypes, RoundRest
<1>3. CASE Client \/ StartPfBbConfigCli
  BY <1>0, <1>1, <1>3, ClientTypes
<1>4. ASSUME NEW c \in Card, BeginPass(c) \/ EndPass(c) \/ Die(c) PROVE Types' /\ Fitting'
  BY <1>0, <1>1, <1>4, NodeTypes DEF Logs
<1>5. ASSUME NEW c \in Card, Serve(c) PROVE Types' /\ Fitting'
  BY <1>0, <1>1, <1>5, TakeTypes, FinishTypes DEF Serve
<1>6. CASE UNCHANGED vars
  BY <1>6 DEF vars, Types, Fitting, Busy
<1>. QED BY <1>2, <1>3, <1>4, <1>5, <1>6 DEF Next

-----------------------------------------------------------------------------
(* What a round counts *)

(* The number of VFs a card has is one it has had since the round began. *)
LEMMA VFsCounted ==
  ASSUME Types, Fitting, \A c \in Card : hw[c].vfs \in since[c], Next
  PROVE  /\ \A c \in Card : hw'[c].vfs \in since'[c]
         /\ ~BeginRound => \A c \in Card : since[c] \subseteq since'[c]
<1>0. hw \in [Card -> AllHardware] /\ since \in [Card -> SUBSET Nat]
  BY DEF Types
<1>1. ASSUME NEW c \in Card, NEW h, hw' = [hw EXCEPT ![c] = h], h.vfs = hw[c].vfs, since' = since
      PROVE  \A d \in Card : hw'[d].vfs \in since'[d] /\ since[d] \subseteq since'[d]
  BY <1>0, <1>1
<1>2. ASSUME NEW c \in Card, NEW q, hw' = [hw EXCEPT ![c].queue = q], since' = since
      PROVE  \A d \in Card : hw'[d].vfs \in since'[d] /\ since[d] \subseteq since'[d]
  <2>. DEFINE h == [hw[c] EXCEPT !.queue = q]
  <2>1. h.vfs = hw[c].vfs
    BY <1>0 DEF AllHardware
  <2>2. hw' = [hw EXCEPT ![c] = h]
    BY <1>2
  <2>. HIDE DEF h
  <2>. QED BY <1>1, <1>2, <2>1, <2>2
<1>3. CASE Round
  <2>1. CASE BeginRound
    BY <1>0, <2>1 DEF BeginRound
  <2>2. CASE RequestTelemetry
    <3>1. loop.card \in Card
      BY <2>2, TheKinds, InventoryAssumption DEF Fitting, LoopFits, RequestTelemetry, Types, Rounds
    <3>2. since' = since /\ (hw' = hw \/ \E q : hw' = [hw EXCEPT ![loop.card].queue = q])
      BY <2>2 DEF RequestTelemetry
    <3>. QED BY <1>2, <3>1, <3>2
  <2>3. UNCHANGED <<hw, since>> \/ BeginRound \/ RequestTelemetry
    BY <1>3 DEF Round, GetNodeConfig, SortCards, NextCard, ReadTelemetry, ReadTimesOut, UpdateMetrics
  <2>. QED BY <2>1, <2>2, <2>3
<1>4. CASE Client \/ StartPfBbConfigCli
  <2>1. Send => cli.card \in Card
    BY DEF Fitting, Send
  <2>2. since' = since /\ (hw' = hw \/ (Send /\ \E q : hw' = [hw EXCEPT ![cli.card].queue = q]))
    BY <1>4 DEF Client, StartPfBbConfigCli, Dial, Send, PollLogFile, PollFails
  <2>. QED BY <1>2, <2>1, <2>2
<1>5. ASSUME NEW c \in Card, Serve(c) \/ BeginPass(c) \/ Die(c)
      PROVE  \A d \in Card : hw'[d].vfs \in since'[d] /\ since[d] \subseteq since'[d]
  <2>1. since' = since
    BY <1>5 DEF Serve, Take, Finish, BeginPass, Die
  <2>2. \/ \E q : hw' = [hw EXCEPT ![c].queue = q]
        \/ \E q, x : hw' = [hw EXCEPT ![c].queue = q, ![c].half = x]
        \/ \E x : hw' = [hw EXCEPT ![c].half = x]
        \/ hw' = [hw EXCEPT ![c] = Ended(@)]
    BY <1>5 DEF Serve, Take, Finish, BeginPass, Die
  <2>3. /\ Ended(hw[c]).vfs = hw[c].vfs
        /\ \A x : [hw[c] EXCEPT !.half = x].vfs = hw[c].vfs
        /\ \A q, x : [hw[c] EXCEPT !.queue = q, !.half = x].vfs = hw[c].vfs
    BY <1>0 DEF Ended, AllHardware
  <2>4. CASE hw' = [hw EXCEPT ![c] = Ended(@)]
    BY <1>1, <2>1, <2>3, <2>4
  <2>5. ASSUME NEW x, hw' = [hw EXCEPT ![c].half = x]
        PROVE  \A d \in Card : hw'[d].vfs \in since'[d] /\ since[d] \subseteq since'[d]
    <3>. DEFINE h == [hw[c] EXCEPT !.half = x]
    <3>1. hw' = [hw EXCEPT ![c] = h] /\ h.vfs = hw[c].vfs
      BY <2>3, <2>5
    <3>. HIDE DEF h
    <3>. QED BY <1>1, <2>1, <3>1
  <2>6. ASSUME NEW x, NEW q, hw' = [hw EXCEPT ![c].queue = q, ![c].half = x]
        PROVE  \A d \in Card : hw'[d].vfs \in since'[d] /\ since[d] \subseteq since'[d]
    <3>. DEFINE h == [hw[c] EXCEPT !.queue = q, !.half = x]
    <3>1. hw' = [hw EXCEPT ![c] = h] /\ h.vfs = hw[c].vfs
      BY <2>3, <2>6
    <3>. HIDE DEF h
    <3>. QED BY <1>1, <2>1, <3>1
  <2>. QED BY <1>2, <2>1, <2>2, <2>4, <2>5, <2>6
<1>6. ASSUME NEW c \in Card, EndPass(c)
      PROVE  \A d \in Card : hw'[d].vfs \in since'[d] /\ since[d] \subseteq since'[d]
  <2>1. CASE UNCHANGED <<hw, since>>
    BY <2>1
  <2>2. ASSUME NEW n, hw' = [hw EXCEPT ![c].alive = TRUE, ![c].vfs = n],
               since' = [since EXCEPT ![c] = @ \cup {n}]
        PROVE  \A d \in Card : hw'[d].vfs \in since'[d] /\ since[d] \subseteq since'[d]
    BY <1>0, <2>2 DEF AllHardware
  <2>. QED BY <1>6, <2>1, <2>2 DEF EndPass
<1>. QED BY <1>3, <1>4, <1>5, <1>6 DEF Next

(* The first part of an answer. *)
LEMMA TakenPart ==
  ASSUME Types, Fitting, NEW c \in Card, Take(c), Head(hw[c].queue).cmd \in {"device_data", "mm_read"}
  PROVE  Part(Head(hw[c].queue).by, Head(hw[c].queue).cmd, hw[c].vfs) \in Parts
<1>. DEFINE r == Head(hw[c].queue)
<1>1. hw[c] \in AllHardware /\ hw[c].queue \in Seq(AllRequests) /\ hw[c].queue # <<>>
  BY DEF Types, AllHardware, Take
<1>2. r \in AllRequests
  BY <1>1
<1>. HIDE DEF r
<1>3. r.by \in {"loop", "cli"} /\ hw[c].vfs \in Nat
  BY <1>1, <1>2, InventoryAssumption DEF AllRequests, AllHardware
<1>4. r.cmd \in {"device_data", "mm_read"}
  BY DEF r
<1>5. Part(r.by, r.cmd, hw[c].vfs) \in Parts
  BY <1>3, <1>4 DEF Part, Parts
<1>. QED BY <1>5 DEF r

(* What is appended to a log is in it. *)
LEMMA AppendWrites ==
  ASSUME Types, NEW c \in Card, NEW p \in Parts, log' = [log EXCEPT ![c] = Append(Written(c), p)]
  PROVE  Written(c)' = Append(Written(c), p)
<1>1. Written(c) \in Seq(Parts)
  BY WrittenType
<1>2. log'[c] = Append(Written(c), p) /\ Append(Written(c), p) \in Seq(Parts)
  BY <1>1 DEF Types
<1>3. Append(Written(c), p) # NotThere
  BY <1>2, NoLogAssumption DEF Parts
<1>. QED BY <1>2, <1>3 DEF Written

(* A log that is fresh stays so until the next round. *)
LEMMA LogStaysFresh ==
  ASSUME Types, Fitting, \A d \in Card : hw[d].vfs \in since[d],
         NEW c \in Card, LogFresh(c), Next, ~BeginRound
  PROVE  LogFresh(c)'
<1>0. since[c] \subseteq since'[c] /\ hw[c].vfs \in since'[c]
  BY VFsCounted
<1>1. CASE log'[c] = log[c]
  BY <1>0, <1>1 DEF LogFresh, Written
<1>2. CASE Written(c)' = <<>>
  BY <1>2 DEF LogFresh
<1>3. ASSUME NEW p, p.part = "device_data" => p.n \in since'[c], p \in Parts,
             Written(c)' = Append(Written(c), p)
      PROVE  LogFresh(c)'
  <2>1. Written(c) \in Seq(Parts)
    BY WrittenType
  <2>2. \A i \in DOMAIN Append(Written(c), p) :
          Append(Written(c), p)[i] = p \/ (i \in DOMAIN Written(c) /\ Append(Written(c), p)[i] = Written(c)[i])
    BY <1>3, <2>1
  <2>. QED BY <1>0, <1>3, <2>2 DEF LogFresh
<1>4. ASSUME NEW p \in Parts, log' = [log EXCEPT ![c] = Append(Written(c), p)]
      PROVE  Written(c)' = Append(Written(c), p)
  BY <1>4, AppendWrites
<1>5. ASSUME NEW d \in Card, d # c, NEW x, log' = [log EXCEPT ![d] = x] PROVE log'[c] = log[c]
  BY <1>5 DEF Types
<1>6. ASSUME NEW d \in Card, Emptied(d) PROVE LogFresh(c)'
  BY <1>1, <1>2, <1>6, EmptiedType
<1>7. ASSUME NEW d \in Card, Take(d) PROVE LogFresh(c)'
  <2>. DEFINE r == Head(hw[d].queue)
              p == Part(r.by, r.cmd, hw[d].vfs)
  <2>1. UNCHANGED log \/ (log' = [log EXCEPT ![d] = Append(Written(d), p)] /\ p \in Parts)
    BY <1>7, TakenPart DEF Take
  <2>2. p.n = hw[d].vfs
    BY DEF Part
  <2>. HIDE DEF p
  <2>. QED BY <1>0, <1>1, <1>3, <1>4, <1>5, <2>1, <2>2
<1>8. ASSUME NEW d \in Card, Finish(d) PROVE LogFresh(c)'
  <2>. DEFINE p == Part(hw[d].half, "end", 0)
  <2>1. log' = [log EXCEPT ![d] = Append(Written(d), p)] /\ p \in Parts /\ p.part = "end"
    BY <1>8 DEF Finish, Part, Parts, Types, AllHardware
  <2>. HIDE DEF p
  <2>. QED BY <1>1, <1>3, <1>4, <1>5, <2>1
<1>9. CASE StartPfBbConfigCli
  <2>1. \A addr \in Card \cup {NotThere} : FindDevice(addr) \subseteq Card
    BY TheKinds, InventoryAssumption DEF FindDevice, Devices
  <2>2. PICK d \in Card : log' = [log EXCEPT ![d] = IF @ = NotThere THEN @ ELSE Old(@)]
    BY <1>9, <2>1 DEF StartPfBbConfigCli
  <2>3. CASE d = c /\ log[c] # NotThere
    <3>1. log[c] \in Seq(Parts) /\ log'[c] = Old(log[c])
      BY <2>2, <2>3 DEF Types
    <3>2. /\ log'[c] \in Seq(Parts) /\ DOMAIN log'[c] = DOMAIN log[c]
          /\ \A i \in DOMAIN log[c] : log'[c][i].part = log[c][i].part /\ log'[c][i].n = log[c][i].n
      BY <3>1, OldSays
    <3>3. log'[c] # NotThere
      BY <3>2, NoLogAssumption DEF Parts
    <3>. QED BY <1>0, <2>3, <3>2, <3>3 DEF LogFresh, Written
  <2>4. CASE ~(d = c /\ log[c] # NotThere)
    BY <1>1, <2>2, <2>4 DEF Types
  <2>. QED BY <2>3, <2>4
<1>10. CASE Round
  <2>1. UNCHANGED log \/ \E d \in Card : Emptied(d)
    BY <1>10 DEF Round, BeginRound, GetNodeConfig, SortCards, NextCard, RequestTelemetry, ReadTelemetry,
                ReadTimesOut, UpdateMetrics, ClearLog
  <2>. QED BY <1>1, <1>6, <2>1
<1>11. CASE Client
  <2>1. Dial => cli.card \in Card
    BY DEF Fitting, Dial
  <2>2. UNCHANGED log \/ \E d \in Card : Emptied(d)
    BY <1>11, <2>1 DEF Client, Dial, Send, PollLogFile, PollFails, ClearResponseLog
  <2>. QED BY <1>1, <1>6, <2>2
<1>12. ASSUME NEW d \in Card, BeginPass(d) \/ EndPass(d) \/ Die(d) PROVE LogFresh(c)'
  BY <1>1, <1>12 DEF BeginPass, EndPass, Die
<1>. QED BY <1>7, <1>8, <1>9, <1>10, <1>11, <1>12 DEF Next, Serve

(* No answer of an earlier round is taken for one of this round. *)
LEMMA FreshStep ==
  ASSUME Types, Fitting, Fresh, CountedThisRound, [Next]_vars
  PROVE  Fresh' /\ CountedThisRound'
<1>0. /\ loop \in Rounds /\ loop.queue \subseteq AllSeries
      /\ \A s \in loop.queue : s.card \in Card
      /\ loop.step \in {"request", "read"} => loop.card \in Card
  BY TheKinds, InventoryAssumption DEF Types, Rounds, AllSeries, Fitting, LoopFits
<1>1. CASE UNCHANGED vars
  BY <1>1 DEF vars, Fresh, CountedThisRound, LogFresh, Written
<1>2. ASSUME Next
      PROVE  /\ \A c \in Card : hw'[c].vfs \in since'[c]
             /\ ~BeginRound => \A c \in Card : since[c] \subseteq since'[c]
  BY <1>2, VFsCounted DEF Fresh
<1>3. ASSUME Next, ~BeginRound, NEW c \in Card, LogFresh(c) PROVE LogFresh(c)'
  BY <1>3, LogStaysFresh DEF Fresh
<1>4. ASSUME Next, ~BeginRound, loop'.queue \subseteq loop.queue PROVE CountedThisRound'
  BY <1>0, <1>2, <1>4 DEF CountedThisRound
<1>5. ASSUME Next, loop' = loop PROVE Fresh' /\ CountedThisRound'
  <2>1. ~BeginRound
    BY <1>0, <1>5 DEF BeginRound, Rounds
  <2>2. PICK c : c = loop.card
    OBVIOUS
  <2>3. loop.step \in {"request", "read"} => LogFresh(c)'
    BY <1>0, <1>3, <1>5, <2>1, <2>2 DEF Fresh, LogFresh, Written
  <2>4. (loop.step \in {"request", "read"} => LogFresh(loop.card))'
    BY <1>5, <2>2, <2>3 DEF LogFresh, Written
  <2>. QED BY <1>2, <1>4, <1>5, <2>1, <2>4 DEF Fresh
<1>6. CASE Next /\ BeginRound
  <2>1. loop' = [loop EXCEPT !.step = "get"] /\ loop.queue = {}
    BY <1>6 DEF BeginRound, Fresh
  <2>2. loop'.queue = {} /\ loop'.step = "get"
    BY <1>0, <2>1 DEF Rounds
  <2>. QED BY <1>2, <1>6, <2>2 DEF Fresh, CountedThisRound
<1>7. CASE Next /\ GetNodeConfig
  <2>1. loop.queue = {} /\ loop.step = "get"
    BY <1>7 DEF GetNodeConfig, Fresh
  <2>2. loop'.queue = {} /\ loop'.step \notin {"request", "read"}
    <3>1. PICK answer \in {conf[loop.kind], NotThere}, last \in BOOLEAN :
            LET seen == [loop.seen EXCEPT ![loop.kind] = answer]
            IN \/ loop' = NoRound
               \/ loop' = [loop EXCEPT !.seen = seen, !.kind = IF last THEN Kind[1] ELSE Kind[2],
                                       !.step = IF last THEN "sort" ELSE "get"]
      BY <1>7 DEF GetNodeConfig
    <3>. DEFINE seen == [loop.seen EXCEPT ![loop.kind] = answer]
                kind == IF last THEN Kind[1] ELSE Kind[2]
    <3>2. loop' \in {NoRound, [loop EXCEPT !.seen = seen, !.kind = kind, !.step = IF last THEN "sort" ELSE "get"]}
      BY <3>1
    <3>. DEFINE step == IF last THEN "sort" ELSE "get"
    <3>3. step \in {"sort", "get"}
      OBVIOUS
    <3>. HIDE DEF seen, kind, step
    <3>4. CASE loop' = [loop EXCEPT !.seen = seen, !.kind = kind, !.step = step]
      <4>1. loop'.queue = loop.queue /\ loop'.step = step
        BY <1>0, <3>4 DEF Rounds
      <4>. QED BY <2>1, <3>3, <4>1
    <3>5. CASE loop' = NoRound
      BY <3>5 DEF NoRound
    <3>. QED BY <3>2, <3>4, <3>5 DEF step
  <2>. QED BY <1>2, <1>7, <2>2 DEF Fresh, CountedThisRound
<1>8. CASE Next /\ SortCards
  <2>1. loop'.step = "next" /\ ~BeginRound
    BY <1>0, <1>8 DEF SortCards, BeginRound, Rounds
  <2>2. \A s \in loop'.queue : s.status # "Succeeded"
    BY <1>0, <1>8 DEF SortCards, Rounds, Series
  <2>. QED BY <1>2, <1>8, <2>1, <2>2 DEF Fresh, CountedThisRound
<1>9. CASE Next /\ NextCard
  <2>1. PICK k \in Kinds, c \in Card :
          /\ Emptied(c)
          /\ loop' = [loop EXCEPT !.step = "request", !.kind = k, !.card = c, !.left[k] = @ \ {c}]
    BY <1>9 DEF NextCard, ClearLog
  <2>2. loop'.step = "request" /\ loop'.card = c /\ loop'.queue = loop.queue /\ ~BeginRound
    BY <1>0, <1>9, <2>1 DEF Rounds, BeginRound, NextCard
  <2>3. Written(c)' = <<>>
    BY <2>1, EmptiedType
  <2>4. LogFresh(loop.card)'
    BY <2>2, <2>3 DEF LogFresh, Written
  <2>. QED BY <1>2, <1>4, <1>9, <2>2, <2>4 DEF Fresh
<1>10. CASE Next /\ (RequestTelemetry \/ ReadTimesOut)
  <2>1. /\ loop' \in {[loop EXCEPT !.step = "read"], CardFailed} /\ loop.step \in {"request", "read"}
        /\ log' = log
    BY <1>10 DEF RequestTelemetry, ReadTimesOut
  <2>2. ~BeginRound
    BY <2>1 DEF BeginRound
  <2>3. CASE loop' = [loop EXCEPT !.step = "read"]
    <3>1. loop'.step = "read" /\ loop'.card = loop.card /\ loop'.queue = loop.queue
      BY <1>0, <2>3 DEF Rounds
    <3>2. PICK c \in Card : c = loop.card
      BY <1>0, <2>1
    <3>3. LogFresh(loop.card)'
      <4>1. LogFresh(c)
        BY <2>1, <3>2 DEF Fresh, LogFresh, Written
      <4>2. LogFresh(c)'
        BY <1>3, <1>10, <2>2, <4>1
      <4>. QED BY <3>1, <3>2, <4>2 DEF LogFresh, Written
    <3>. QED BY <1>2, <1>4, <1>10, <2>2, <3>1, <3>3 DEF Fresh
  <2>4. CASE loop' = CardFailed
    <3>1. loop'.step = "next" /\ loop'.queue = loop.queue
      BY <1>0, <2>4 DEF Rounds, CardFailed
    <3>. QED BY <1>2, <1>4, <1>10, <2>2, <3>1 DEF Fresh
  <2>. QED BY <2>1, <2>3, <2>4
<1>11. CASE Next /\ ReadTelemetry
  <2>. DEFINE c == loop.card
              listed == loop.seen[loop.kind].vfs[loop.card]
              queue == ParseTelemetry(c, listed)
  <2>1. /\ loop.step = "read" /\ UNCHANGED <<hw, log, since>>
        /\ loop' = [loop EXCEPT !.step = "next", !.card = NotThere, !.queue = queue]
    BY <1>11 DEF ReadTelemetry
  <2>2. /\ c \in Card /\ listed \in Nat /\ LogFresh(c)
    BY <1>0, <2>1, TheKinds, InventoryAssumption DEF Fitting, LoopFits, Rounds, Fresh
  <2>3. \A s \in queue : s.status = "Succeeded" => s.n \in since[s.card]
    <3>1. CASE queue = loop.queue
      BY <3>1 DEF CountedThisRound
    <3>2. CASE queue # loop.queue
      <4>1. PICK i \in DOMAIN Written(c) :
              LET n == Written(c)[i].n
              IN /\ Written(c)[i].part = "device_data"
                 /\ queue = Queued(loop.queue,
                              Series(c, "Succeeded", n, DeviceStatus(n, listed), Counters(n, listed)))
        BY <2>2, <3>2, ParsedCount
      <4>. DEFINE n == Written(c)[i].n
                  s == Series(c, "Succeeded", n, DeviceStatus(n, listed), Counters(n, listed))
      <4>2. n \in since[c]
        BY <2>2, <4>1 DEF LogFresh
      <4>3. s.card = c /\ s.n = n /\ queue = Queued(loop.queue, s)
        BY <4>1 DEF Series
      <4>. HIDE DEF n, s, queue
      <4>. QED BY <4>2, <4>3 DEF Queued, CountedThisRound
    <3>. QED BY <3>1, <3>2
  <2>. HIDE DEF queue
  <2>4. loop'.step = "next" /\ loop'.queue = queue
    BY <1>0, <2>1 DEF Rounds
  <2>. QED BY <1>2, <1>11, <2>1, <2>3, <2>4 DEF Fresh, CountedThisRound
<1>12. CASE Next /\ UpdateMetrics
  <2>1. loop'.step = "sleep" /\ loop'.queue = {}
    BY <1>12 DEF UpdateMetrics, NoRound
  <2>. QED BY <1>2, <1>12, <2>1 DEF Fresh, CountedThisRound
<1>13. CASE Next /\ ~Round
  <2>1. loop' = loop
    BY <1>13 DEF Next, Client, StartPfBbConfigCli, Dial, Send, PollLogFile, PollFails, Serve, Take, Finish,
                BeginPass, EndPass, Die
  <2>. QED BY <1>5, <1>13, <2>1
<1>. QED BY <1>1, <1>6, <1>7, <1>8, <1>9, <1>10, <1>11, <1>12, <1>13 DEF Round

-----------------------------------------------------------------------------
(* How many series there are *)

(* Queue one series in the place of those with its card and reason: no two of   *)
(* them are alike.                                                              *)
LEMMA QueuedKeyed ==
  ASSUME NEW queue, NEW x,
         \A s, t \in queue : s.card = t.card /\ s.status = t.status => s = t
  PROVE  \A s, t \in Queued(queue, x) : s.card = t.card /\ s.status = t.status => s = t
BY DEF Queued

(* A round has one series for a card and a reason. *)
LEMMA KeyedStep ==
  ASSUME Types, Fitting, Fresh, Keyed, [Next]_vars
  PROVE  Keyed'
<1>0. loop \in Rounds
  BY DEF Types
<1>1. ASSUME loop' = loop PROVE Keyed'
  BY <1>1 DEF Keyed
<1>2. ASSUME loop'.queue = {} PROVE Keyed'
  BY <1>2 DEF Keyed
<1>3. ASSUME loop'.queue = loop.queue, loop'.seen = loop.seen PROVE Keyed'
  BY <1>3 DEF Keyed
<1>4. CASE BeginRound
  <2>1. loop' = [loop EXCEPT !.step = "get"]
    BY <1>4 DEF BeginRound
  <2>. QED BY <1>0, <1>3, <2>1 DEF Rounds
<1>5. CASE GetNodeConfig
  <2>1. loop.queue = {}
    BY <1>5 DEF GetNodeConfig, Fresh
  <2>2. PICK answer \in {conf[loop.kind], NotThere}, last \in BOOLEAN :
          LET seen == [loop.seen EXCEPT ![loop.kind] = answer]
          IN \/ loop' = NoRound
             \/ loop' = [loop EXCEPT !.seen = seen, !.kind = IF last THEN Kind[1] ELSE Kind[2],
                                     !.step = IF last THEN "sort" ELSE "get"]
    BY <1>5 DEF GetNodeConfig
  <2>. DEFINE seen == [loop.seen EXCEPT ![loop.kind] = answer]
              kind == IF last THEN Kind[1] ELSE Kind[2]
              step == IF last THEN "sort" ELSE "get"
  <2>3. loop' \in {NoRound, [loop EXCEPT !.seen = seen, !.kind = kind, !.step = step]}
    BY <2>2
  <2>. HIDE DEF seen, kind, step
  <2>4. [loop EXCEPT !.seen = seen, !.kind = kind, !.step = step].queue = loop.queue
    BY <1>0 DEF Rounds
  <2>5. NoRound.queue = {}
    BY DEF NoRound
  <2>. QED BY <1>2, <2>1, <2>3, <2>4, <2>5
<1>6. CASE SortCards
  <2>. DEFINE of(k) == IF loop.seen[k] = NotThere THEN {} ELSE Inventory[k]
              ok(k) == loop.seen[k] # NotThere /\ loop.seen[k].reason = "Succeeded"
              left == [k \in Kinds |-> IF ok(k) THEN of(k) ELSE {}]
              queue == UNION {{Series(c, loop.seen[k].reason, 0, {}, {}) : c \in of(k)} :
                                k \in {j \in Kinds : loop.seen[j] # NotThere /\ ~ok(j)}}
  <2>1. loop' = [loop EXCEPT !.step = "next", !.left = left, !.queue = queue]
    BY <1>6 DEF SortCards
  <2>2. \A s \in queue : \E k \in Kinds : \E c \in Inventory[k] :
          loop.seen[k] # NotThere /\ s = Series(c, loop.seen[k].reason, 0, {}, {})
    OBVIOUS
  <2>. HIDE DEF left, queue
  <2>3. loop'.queue = queue /\ loop'.seen = loop.seen
    BY <1>0, <2>1 DEF Rounds
  <2>4. \A s \in queue : \E k \in Kinds :
          /\ s.card \in Inventory[k]
          /\ loop.seen[k] # NotThere /\ loop.seen[k].reason = s.status
    BY <2>2 DEF Series
  <2>5. \A s \in queue : s = Series(s.card, s.status, 0, {}, {})
    BY <2>2 DEF Series
  <2>. QED BY <2>3, <2>4, <2>5 DEF Keyed
<1>7. CASE NextCard
  <2>1. PICK k \in Kinds, c \in Card :
          loop' = [loop EXCEPT !.step = "request", !.kind = k, !.card = c, !.left[k] = @ \ {c}]
    BY <1>7 DEF NextCard
  <2>. QED BY <1>0, <1>3, <2>1 DEF Rounds
<1>8. CASE RequestTelemetry \/ ReadTimesOut
  <2>1. loop' \in {[loop EXCEPT !.step = "read"], CardFailed}
    BY <1>8 DEF RequestTelemetry, ReadTimesOut
  <2>. QED BY <1>0, <1>3, <2>1 DEF Rounds, CardFailed
<1>9. CASE ReadTelemetry
  <2>. DEFINE c == loop.card
              listed == loop.seen[loop.kind].vfs[loop.card]
              queue == ParseTelemetry(c, listed)
  <2>1. /\ loop.step = "read"
        /\ loop' = [loop EXCEPT !.step = "next", !.card = NotThere, !.queue = queue]
    BY <1>9 DEF ReadTelemetry
  <2>2. /\ c \in Card /\ listed \in Nat /\ loop.kind \in Kinds /\ c \in Inventory[loop.kind]
        /\ loop.seen[loop.kind] # NotThere /\ loop.seen[loop.kind].reason = "Succeeded"
    BY <1>0, <2>1, TheKinds, InventoryAssumption DEF Fitting, LoopFits, Rounds
  <2>3. loop'.queue = queue /\ loop'.seen = loop.seen
    <3>. HIDE DEF queue
    <3>. QED BY <1>0, <2>1 DEF Rounds
  <2>4. CASE queue = loop.queue
    BY <1>3, <2>3, <2>4
  <2>5. CASE queue # loop.queue
    <3>1. PICK i \in DOMAIN Written(c) :
            LET n == Written(c)[i].n
            IN queue = Queued(loop.queue,
                              Series(c, "Succeeded", n, DeviceStatus(n, listed), Counters(n, listed)))
      BY <2>2, <2>5, ParsedCount
    <3>. DEFINE n == Written(c)[i].n
                x == Series(c, "Succeeded", n, DeviceStatus(n, listed), Counters(n, listed))
    <3>2. x.card = c /\ x.status = "Succeeded" /\ queue = Queued(loop.queue, x)
      BY <3>1 DEF Series
    <3>. HIDE DEF n, x, queue
    <3>3. \A s, t \in queue : s.card = t.card /\ s.status = t.status => s = t
      BY <3>2, QueuedKeyed DEF Keyed
    <3>4. \A s \in queue : s = x \/ s \in loop.queue
      BY <3>2 DEF Queued
    <3>. QED BY <2>2, <2>3, <3>2, <3>3, <3>4 DEF Keyed
  <2>. QED BY <2>4, <2>5
<1>10. CASE UpdateMetrics
  BY <1>2, <1>10 DEF UpdateMetrics, NoRound
<1>11. CASE Next /\ ~Round
  BY <1>1, <1>11 DEF Next, Client, StartPfBbConfigCli, Dial, Send, PollLogFile, PollFails, Serve, Take,
                     Finish, BeginPass, EndPass, Die
<1>12. CASE UNCHANGED vars
  BY <1>1, <1>12 DEF vars
<1>. QED BY <1>4, <1>5, <1>6, <1>7, <1>8, <1>9, <1>10, <1>11, <1>12 DEF Round

(* Series of a card with different reasons come from different objects. *)
LEMMA KeyedCount ==
  ASSUME Keyed, NEW c \in Card
  PROVE  Cardinality({s \in loop.queue : s.card = c}) <= Cardinality({k \in Kinds : c \in Inventory[k]})
<1>. DEFINE S == {s \in loop.queue : s.card = c}
            T == {k \in Kinds : c \in Inventory[k]}
            of(s, k) == loop.seen[k] # NotThere /\ loop.seen[k].reason = s.status
            f == [s \in S |-> CHOOSE k \in T : of(s, k)]
<1>1. \A s \in S : f[s] \in T /\ of(s, f[s])
  <2>. SUFFICES ASSUME NEW s \in S PROVE f[s] \in T /\ of(s, f[s])
    OBVIOUS
  <2>1. \E k \in T : of(s, k)
    BY DEF Keyed
  <2>2. (CHOOSE k \in T : of(s, k)) \in T /\ of(s, CHOOSE k \in T : of(s, k))
    BY <2>1
  <2>. QED BY <2>2
<1>2. \A s, t \in S : f[s] = f[t] => s = t
  BY <1>1 DEF Keyed
<1>3. f \in [S -> T]
  BY <1>1
<1>4. f \in Injection(S, T)
  <2>. HIDE DEF f
  <2>. QED BY <1>2, <1>3 DEF Injection, IsInjective
<1>5. IsFiniteSet(T)
  <2>1. IsFiniteSet(Kinds)
    <3>1. IsFiniteSet({"fec"})
      BY FS_Singleton
    <3>2. IsFiniteSet({"fec"} \cup {"vrb"})
      BY <3>1, FS_AddElement
    <3>3. Kinds = {"fec"} \cup {"vrb"}
      BY TheKinds
    <3>. QED BY <3>2, <3>3
  <2>2. T \in SUBSET Kinds
    OBVIOUS
  <2>. QED BY <2>1, <2>2, FS_Subset
<1>6. Cardinality(S) <= Cardinality(T)
  <2>. HIDE DEF f, S, T
  <2>. QED BY <1>4, <1>5, FS_Injection
<1>. QED BY <1>6

(* The gauges are those of one round. *)
LEMMA GaugeStep ==
  ASSUME Keyed, OneCountPerConfig, [Next]_vars
  PROVE  OneCountPerConfig'
<1>1. gauge' = gauge \/ gauge' = loop.queue
  BY DEF Next, vars, Round, BeginRound, GetNodeConfig, SortCards, NextCard, RequestTelemetry, ReadTelemetry,
         ReadTimesOut, UpdateMetrics, UpdatedMetrics, Client, StartPfBbConfigCli, Dial, Send, PollLogFile,
         PollFails, Serve, Take, Finish, BeginPass, EndPass, Die
<1>. QED BY <1>1, KeyedCount DEF OneCountPerConfig

-----------------------------------------------------------------------------
(* Whom the client hears *)

(* A step that leaves the client's card, and the client, leaves it alone. *)
LEMMA LeftAlone ==
  ASSUME Types, Fitting, Alone, NEW c, c = cli.card,
         cli'.step = cli.step, cli'.card = c, cli'.cmd = cli.cmd, cli.shared => cli'.shared,
         cli.step # "idle" /\ ~cli'.shared =>
           /\ loop'.card \in {loop.card, NotThere} \/ loop'.card # c
           /\ hw'[c].queue = hw[c].queue /\ hw'[c].half = hw[c].half
           /\ log'[c] = log[c]
  PROVE  Alone'
<1>. SUFFICES ASSUME cli.step # "idle", ~cli'.shared
              PROVE  /\ loop'.card # c
                     /\ Undisturbed(cli.step, cli.cmd, hw[c].queue, hw[c].half, Written(c))
                     /\ Written(c)' = Written(c)
  BY DEF Alone, Written
<1>1. c \in Card /\ c # NotThere
  BY InventoryAssumption DEF Fitting
<1>2. Written(c)' = Written(c)
  BY DEF Written
<1>. QED BY <1>1, <1>2 DEF Alone

(* An undisturbed client stays so when pf_bb_config takes its request. *)
LEMMA TakenAlone ==
  ASSUME NEW step, NEW cmd, NEW queue \in Seq(AllRequests), queue # <<>>, NEW half, half = NotThere,
         NEW says \in Seq(Parts), NEW n \in VFCounts,
         Undisturbed(step, cmd, queue, half, says), step \in {"dial", "send", "poll"}
  PROVE  LET r == Head(queue)
         IN /\ Undisturbed(step, cmd, Tail(queue), half, says)
            /\ Part(r.by, r.cmd, n) \in Parts =>
                 Undisturbed(step, cmd, Tail(queue), r.by, Append(says, Part(r.by, r.cmd, n)))
<1>. DEFINE r == Head(queue)
            own == [by |-> "cli", cmd |-> cmd]
            p == Part(r.by, r.cmd, n)
<1>1. step = "poll" /\ r = own
  BY DEF Undisturbed
<1>2. \A i \in DOMAIN Tail(queue) : i + 1 \in DOMAIN queue /\ Tail(queue)[i] = queue[i + 1]
  OBVIOUS
<1>3. \A i \in DOMAIN Tail(queue) : Tail(queue)[i] = own
  BY <1>1, <1>2 DEF Undisturbed
<1>4. Undisturbed(step, cmd, Tail(queue), half, says)
  BY <1>1, <1>3 DEF Undisturbed
<1>5. ASSUME p \in Parts PROVE Undisturbed(step, cmd, Tail(queue), r.by, Append(says, p))
  <2>1. p = Part("cli", cmd, n)
    BY <1>1
  <2>. HIDE DEF p
  <2>2. Append(says, p) # <<>>
    BY <1>5
  <2>3. CASE says = <<>>
    <3>1. Append(says, p)[1] = p
      BY <1>5, <2>3
    <3>. QED BY <1>1, <1>3, <2>1, <2>2, <3>1 DEF Undisturbed
  <2>4. CASE says # <<>>
    <3>1. Append(says, p)[1] = says[1]
      BY <1>5, <2>4
    <3>2. \E m \in VFCounts : says[1] = Part("cli", cmd, m)
      BY <1>1, <2>4 DEF Undisturbed
    <3>. QED BY <1>1, <1>3, <2>2, <3>1, <3>2 DEF Undisturbed
  <2>. QED BY <2>3, <2>4
<1>. QED BY <1>4, <1>5

(* Likewise when the answer ends. *)
LEMMA FinishedAlone ==
  ASSUME NEW step, NEW cmd, NEW queue, NEW half, half # NotThere, NEW says \in Seq(Parts), NEW p \in Parts,
         Undisturbed(step, cmd, queue, half, says), step \in {"dial", "send", "poll"}
  PROVE  Undisturbed(step, cmd, queue, NotThere, Append(says, p))
<1>1. step = "poll" /\ says # <<>>
  BY DEF Undisturbed
<1>2. Append(says, p) # <<>> /\ Append(says, p)[1] = says[1]
  BY <1>1
<1>. QED BY <1>1, <1>2 DEF Undisturbed

(* The steps of a round, of which only NextCard and RequestTelemetry touch a    *)
(* card: the first counts the client as disturbed.                              *)
LEMMA RoundAlone ==
  ASSUME Types, Fitting, Alone, Round
  PROVE  Alone'
<1>0. /\ loop \in Rounds /\ hw \in [Card -> AllHardware]
      /\ cli.step # "idle" => cli.card \in Card
  BY DEF Types, Fitting
<1>1. PICK c : c = cli.card
  OBVIOUS
<1>2. cli'.step = cli.step /\ cli'.card = c /\ cli'.cmd = cli.cmd /\ (cli.shared => cli'.shared)
  BY <1>1, RoundRest
<1>3. CASE NextCard
  <2>1. PICK k \in Kinds, d \in Card :
          /\ Emptied(d) /\ Share(d) /\ hw' = hw
          /\ loop' = [loop EXCEPT !.step = "request", !.kind = k, !.card = d, !.left[k] = @ \ {d}]
    BY <1>3 DEF NextCard, ClearLog
  <2>2. loop'.card = d
    BY <1>0, <2>1 DEF Rounds
  <2>3. cli'.shared = (cli.shared \/ (cli.step # "idle" /\ c = d))
    BY <1>1, <2>1, ShareType
  <2>4. d # c /\ c \in Card => log'[c] = log[c]
    BY <2>1, EmptiedType
  <2>. QED BY <1>0, <1>1, <1>2, <2>1, <2>2, <2>3, <2>4, LeftAlone
<1>4. CASE RequestTelemetry
  <2>1. /\ log' = log /\ loop.card \in Card
        /\ hw' = hw \/ \E q : hw' = [hw EXCEPT ![loop.card].queue = q]
        /\ loop' \in {[loop EXCEPT !.step = "read"], CardFailed}
    BY <1>4, TheKinds, InventoryAssumption DEF RequestTelemetry, Fitting, LoopFits, Types, Rounds
  <2>2. loop'.card \in {loop.card, NotThere}
    BY <1>0, <2>1 DEF Rounds, CardFailed
  <2>3. cli.step # "idle" /\ ~cli'.shared => hw'[c] = hw[c]
    BY <1>0, <1>1, <1>2, <2>1 DEF Alone
  <2>. QED BY <1>1, <1>2, <2>1, <2>2, <2>3, LeftAlone
<1>5. CASE GetNodeConfig
  <2>1. PICK answer \in {conf[loop.kind], NotThere}, last \in BOOLEAN :
          LET seen == [loop.seen EXCEPT ![loop.kind] = answer]
          IN \/ loop' = NoRound
             \/ loop' = [loop EXCEPT !.seen = seen, !.kind = IF last THEN Kind[1] ELSE Kind[2],
                                     !.step = IF last THEN "sort" ELSE "get"]
    BY <1>5 DEF GetNodeConfig
  <2>. DEFINE seen == [loop.seen EXCEPT ![loop.kind] = answer]
              kind == IF last THEN Kind[1] ELSE Kind[2]
              step == IF last THEN "sort" ELSE "get"
  <2>2. loop' \in {NoRound, [loop EXCEPT !.seen = seen, !.kind = kind, !.step = step]}
    BY <2>1
  <2>. HIDE DEF seen, kind, step
  <2>3. [loop EXCEPT !.seen = seen, !.kind = kind, !.step = step].card = loop.card
    BY <1>0 DEF Rounds
  <2>4. NoRound.card = NotThere
    BY DEF NoRound
  <2>5. hw' = hw /\ log' = log
    BY <1>5 DEF GetNodeConfig
  <2>. QED BY <1>1, <1>2, <2>2, <2>3, <2>4, <2>5, LeftAlone
<1>6. CASE BeginRound \/ SortCards \/ ReadTelemetry \/ ReadTimesOut \/ UpdateMetrics
  <2>1. hw' = hw /\ log' = log
    BY <1>6 DEF BeginRound, SortCards, ReadTelemetry, ReadTimesOut, UpdateMetrics
  <2>2. \/ loop' = [loop EXCEPT !.step = "get"] \/ loop' = CardFailed \/ loop' = NoRound
        \/ \E left, queue : loop' = [loop EXCEPT !.step = "next", !.left = left, !.queue = queue]
        \/ \E queue : loop' = [loop EXCEPT !.step = "next", !.card = NotThere, !.queue = queue]
    BY <1>6 DEF BeginRound, SortCards, ReadTelemetry, ReadTimesOut, UpdateMetrics
  <2>3. ASSUME NEW left, NEW queue
        PROVE  /\ [loop EXCEPT !.step = "next", !.left = left, !.queue = queue].card = loop.card
               /\ [loop EXCEPT !.step = "next", !.card = NotThere, !.queue = queue].card = NotThere
    BY <1>0 DEF Rounds
  <2>4. [loop EXCEPT !.step = "get"].card = loop.card /\ CardFailed.card = NotThere /\ NoRound.card = NotThere
    BY <1>0 DEF Rounds, CardFailed, NoRound
  <2>5. loop'.card \in {loop.card, NotThere}
    <3>1. ASSUME NEW left, NEW queue, loop' = [loop EXCEPT !.step = "next", !.left = left, !.queue = queue]
          PROVE  loop'.card = loop.card
      BY <2>3, <3>1
    <3>2. ASSUME NEW queue, loop' = [loop EXCEPT !.step = "next", !.card = NotThere, !.queue = queue]
          PROVE  loop'.card = NotThere
      BY <2>3, <3>2
    <3>. QED BY <2>2, <2>4, <3>1, <3>2
  <2>. QED BY <1>1, <1>2, <2>1, <2>5, LeftAlone
<1>. QED BY <1>3, <1>4, <1>5, <1>6 DEF Round

(* The steps of the client, and its beginning. *)
LEMMA ClientAlone ==
  ASSUME Types, Fitting, Alone, Client \/ StartPfBbConfigCli
  PROVE  Alone'
<1>0. /\ hw \in [Card -> AllHardware] /\ cli \in Clients
      /\ cli.step # "idle" => cli.card \in Card
  BY DEF Types, Fitting
<1>1. ASSUME NEW heard \in {"none", "error", "setting", "own", "other"}, Return(heard)
      PROVE  Alone'
  BY <1>1, ReturnType DEF Alone
<1>2. CASE Dial
  <2>1. PICK c \in Card : c = cli.card
    BY <1>0, <1>2 DEF Dial
  <2>2. CASE Return("error")
    BY <1>1, <2>2
  <2>3. CASE cli' = [cli EXCEPT !.step = "send"] /\ Emptied(c)
    <3>1. cli'.step = "send" /\ cli'.card = c /\ cli'.shared = cli.shared /\ cli.step = "dial"
      BY <1>0, <1>2, <2>1, <2>3 DEF Clients, Dial
    <3>2. Written(c)' = <<>> /\ hw' = hw /\ loop' = loop
      BY <1>2, <2>3, EmptiedType DEF Dial
    <3>3. ~cli.shared => hw[c].queue = <<>> /\ hw[c].half = NotThere /\ loop.card # c
      BY <2>1, <3>1 DEF Alone, Undisturbed
    <3>. QED BY <3>1, <3>2, <3>3 DEF Alone, Undisturbed, Written
  <2>. QED BY <1>2, <2>1, <2>2, <2>3 DEF Dial, ClearResponseLog
<1>3. CASE Send
  <2>1. PICK c \in Card : c = cli.card
    BY <1>0, <1>3 DEF Send
  <2>2. CASE Return("error")
    BY <1>1, <2>2
  <2>3. CASE /\ hw' = [hw EXCEPT ![c].queue = Append(@, [by |-> "cli", cmd |-> cli.cmd])]
             /\ cli' = [cli EXCEPT !.step = "poll"]
    <3>. DEFINE own == [by |-> "cli", cmd |-> cli.cmd]
    <3>1. cli'.step = "poll" /\ cli'.card = c /\ cli'.shared = cli.shared /\ cli'.cmd = cli.cmd /\ cli.step = "send"
      BY <1>0, <1>3, <2>1, <2>3 DEF Clients, Send
    <3>2. hw'[c].queue = Append(hw[c].queue, own) /\ hw'[c].half = hw[c].half
      BY <1>0, <2>3 DEF AllHardware
    <3>3. log' = log /\ loop' = loop
      BY <1>3 DEF Send
    <3>4. ~cli.shared => hw[c].queue = <<>> /\ hw[c].half = NotThere /\ loop.card # c /\ Written(c) = <<>>
      BY <2>1, <3>1 DEF Alone, Undisturbed
    <3>5. ASSUME hw[c].queue = <<>> PROVE \A i \in DOMAIN hw'[c].queue : hw'[c].queue[i] = own
      <4>. HIDE DEF own
      <4>. QED BY <3>2, <3>5
    <3>6. Written(c)' = Written(c)
      BY <3>3 DEF Written
    <3>7. ~cli.shared => Undisturbed("poll", cli.cmd, hw'[c].queue, hw'[c].half, Written(c))
      BY <3>2, <3>4, <3>5 DEF Undisturbed
    <3>. QED BY <3>1, <3>3, <3>4, <3>6, <3>7 DEF Alone
  <2>. QED BY <1>3, <2>1, <2>2, <2>3 DEF Send
<1>4. CASE PollLogFile \/ PollFails
  BY <1>1, <1>4 DEF PollLogFile, PollFails
<1>5. CASE StartPfBbConfigCli
  <2>1. \A addr \in Card \cup {NotThere} : FindDevice(addr) \subseteq Card
    BY TheKinds, InventoryAssumption DEF FindDevice, Devices
  <2>2. PICK cmd \in Commands, c \in Card :
          cli' = [NoCommand EXCEPT !.step = "dial", !.card = c, !.cmd = cmd,
                    !.shared = Busy(c) \/ loop.card = c]
    BY <1>5, <2>1 DEF StartPfBbConfigCli
  <2>3. cli'.step = "dial" /\ cli'.card = c /\ cli'.shared = (Busy(c) \/ loop.card = c)
    BY <2>2 DEF NoCommand
  <2>4. loop' = loop /\ hw' = hw
    BY <1>5 DEF StartPfBbConfigCli
  <2>. QED BY <2>3, <2>4 DEF Alone, Undisturbed, Busy
<1>. QED BY <1>2, <1>3, <1>4, <1>5 DEF Client

(* The steps of the cards. *)
LEMMA CardAlone ==
  ASSUME Types, Fitting, Alone, NEW d \in Card, Serve(d) \/ BeginPass(d) \/ EndPass(d) \/ Die(d)
  PROVE  Alone'
<1>0. /\ hw \in [Card -> AllHardware] /\ log \in [Card -> Seq(Parts) \cup {NotThere}]
      /\ cli \in Clients
      /\ cli.step # "idle" => cli.card \in Card
      /\ cli' = cli /\ loop' = loop
  BY DEF Types, Fitting, Serve, Take, Finish, BeginPass, EndPass, Die
<1>. SUFFICES ASSUME cli.step # "idle", ~cli.shared PROVE Alone'
  BY <1>0 DEF Alone
<1>1. PICK c \in Card : c = cli.card
  BY <1>0
<1>2. /\ loop.card # c
      /\ Undisturbed(cli.step, cli.cmd, hw[c].queue, hw[c].half, Written(c))
  BY <1>1 DEF Alone
<1>3. ASSUME Undisturbed(cli.step, cli.cmd, hw'[c].queue, hw'[c].half, Written(c)') PROVE Alone'
  BY <1>0, <1>1, <1>2, <1>3 DEF Alone, Written
<1>4. ASSUME hw'[c].queue = hw[c].queue, hw'[c].half = hw[c].half, log'[c] = log[c] PROVE Alone'
  <2>1. Written(c)' = Written(c)
    BY <1>4 DEF Written
  <2>. QED BY <1>2, <1>3, <1>4, <2>1
<1>5. cli.step \in {"dial", "send", "poll"}
  BY <1>0 DEF Clients
<1>6. hw[c] \in AllHardware /\ hw[c].queue \in Seq(AllRequests) /\ hw[c].vfs \in VFCounts
  BY <1>0 DEF AllHardware
<1>7. CASE Take(d)
  <2>. DEFINE r == Head(hw[c].queue)
              q == Tail(hw[c].queue)
              p == Part(r.by, r.cmd, hw[c].vfs)
  <2>1. CASE d # c
    <3>1. hw'[c] = hw[c] /\ log'[c] = log[c]
      BY <1>0, <1>7, <2>1 DEF Take
    <3>. QED BY <1>4, <3>1
  <2>2. CASE d = c
    <3>1. hw[c].queue # <<>> /\ hw[c].half = NotThere
      BY <1>7, <2>2 DEF Take
    <3>2. Written(c) \in Seq(Parts)
      BY WrittenType
    <3>3. /\ Undisturbed(cli.step, cli.cmd, q, hw[c].half, Written(c))
          /\ p \in Parts => Undisturbed(cli.step, cli.cmd, q, r.by, Append(Written(c), p))
      BY <1>2, <1>5, <1>6, <3>1, <3>2, TakenAlone
    <3>4. CASE r.cmd \in {"device_data", "mm_read"}
      <4>1. p \in Parts
        BY <1>7, <2>2, <3>4, TakenPart
      <4>2. /\ log' = [log EXCEPT ![c] = Append(Written(c), p)]
            /\ hw' = [hw EXCEPT ![c].queue = Tail(@), ![c].half = r.by]
        BY <1>7, <2>2, <3>4 DEF Take
      <4>3. hw'[c].queue = q /\ hw'[c].half = r.by
        BY <1>0, <4>2 DEF AllHardware
      <4>4. Written(c)' = Append(Written(c), p)
        <5>. HIDE DEF p
        <5>. QED BY <4>1, <4>2, AppendWrites
      <4>. QED BY <1>3, <3>3, <4>1, <4>3, <4>4
    <3>5. CASE r.cmd \notin {"device_data", "mm_read"}
      <4>1. log' = log /\ hw' = [hw EXCEPT ![c].queue = Tail(@)]
        BY <1>7, <2>2, <3>5 DEF Take
      <4>2. hw'[c].queue = q /\ hw'[c].half = hw[c].half
        BY <1>0, <4>1 DEF AllHardware
      <4>3. Written(c)' = Written(c)
        BY <4>1 DEF Written
      <4>. QED BY <1>3, <3>3, <4>2, <4>3
    <3>. QED BY <3>4, <3>5
  <2>. QED BY <2>1, <2>2
<1>8. CASE Finish(d)
  <2>. DEFINE p == Part(hw[d].half, "end", 0)
  <2>1. /\ hw' = [hw EXCEPT ![d].half = NotThere] /\ hw[d].half # NotThere
        /\ log' = [log EXCEPT ![d] = Append(Written(d), p)]
    BY <1>8 DEF Finish
  <2>2. CASE d # c
    <3>1. hw'[c] = hw[c] /\ log'[c] = log[c]
      BY <1>0, <2>1, <2>2
    <3>. QED BY <1>4, <3>1
  <2>3. CASE d = c
    <3>1. p \in Parts
      BY <1>0, <2>1 DEF Part, Parts, AllHardware
    <3>. HIDE DEF p
    <3>2. Written(c)' = Append(Written(c), p)
      BY <2>1, <2>3, <3>1, AppendWrites
    <3>3. Written(c) \in Seq(Parts)
      BY WrittenType
    <3>4. hw'[c].queue = hw[c].queue /\ hw'[c].half = NotThere
      BY <1>0, <2>1, <2>3 DEF AllHardware
    <3>5. Undisturbed(cli.step, cli.cmd, hw[c].queue, NotThere, Append(Written(c), p))
      BY <1>2, <1>5, <2>1, <2>3, <3>1, <3>3, FinishedAlone
    <3>. QED BY <1>3, <3>2, <3>4, <3>5
  <2>. QED BY <2>2, <2>3
<1>9. CASE BeginPass(d) \/ Die(d)
  <2>1. hw' = [hw EXCEPT ![d] = Ended(@)] /\ log' = log
    BY <1>9 DEF BeginPass, Die
  <2>2. CASE d # c
    <3>1. hw'[c] = hw[c] /\ log'[c] = log[c]
      BY <1>0, <2>1, <2>2
    <3>. QED BY <1>4, <3>1
  <2>3. CASE d = c
    <3>1. hw'[c].queue = <<>> /\ hw'[c].half = NotThere
      BY <1>0, <2>1, <2>3, EndedType
    <3>2. Written(c)' = Written(c)
      BY <2>1 DEF Written
    <3>. QED BY <1>2, <1>3, <3>1, <3>2 DEF Undisturbed
  <2>. QED BY <2>2, <2>3
<1>10. CASE EndPass(d)
  <2>1. log' = log
    BY <1>10 DEF EndPass
  <2>2. CASE hw' = hw
    BY <1>4, <2>1, <2>2
  <2>3. ASSUME NEW n, hw' = [hw EXCEPT ![d].alive = TRUE, ![d].vfs = n] PROVE Alone'
    <3>1. hw'[c].queue = hw[c].queue /\ hw'[c].half = hw[c].half
      BY <1>0, <2>3 DEF AllHardware
    <3>. QED BY <1>4, <2>1, <3>1
  <2>. QED BY <1>10, <2>2, <2>3 DEF EndPass
<1>. QED BY <1>7, <1>8, <1>9, <1>10 DEF Serve

(* A client that is alone prints its own answer. *)
LEMMA HeardStep ==
  ASSUME Types, Fitting, Alone, CliHearsItself, [Next]_vars
  PROVE  CliHearsItself'
<1>1. ASSUME cli'.heard = cli.heard, cli.shared => cli'.shared PROVE CliHearsItself'
  BY <1>1 DEF CliHearsItself
<1>2. ASSUME NEW heard \in {"error", "setting", "own"}, Return(heard) PROVE CliHearsItself'
  BY <1>2, ReturnType DEF CliHearsItself
<1>3. CASE Round
  BY <1>1, <1>3, RoundRest
<1>4. CASE StartPfBbConfigCli
  <2>1. cli'.heard = "none"
    BY <1>4 DEF StartPfBbConfigCli, NoCommand
  <2>. QED BY <2>1 DEF CliHearsItself
<1>5. CASE Dial \/ Send
  <2>1. Return("error") \/ cli' = [cli EXCEPT !.step = "send"] \/ cli' = [cli EXCEPT !.step = "poll"]
    BY <1>5 DEF Dial, Send
  <2>2. cli \in Clients
    BY DEF Types
  <2>3. CASE cli' = [cli EXCEPT !.step = "send"] \/ cli' = [cli EXCEPT !.step = "poll"]
    BY <1>1, <2>2, <2>3 DEF Clients
  <2>. QED BY <1>2, <2>1, <2>3
<1>6. CASE PollFails
  BY <1>2, <1>6 DEF PollFails
<1>7. CASE PollLogFile
  <2>1. cli.step = "poll" /\ Answered /\ Return(IF ~ToResponseLog THEN "setting" ELSE IF Own THEN "own" ELSE "other")
    BY <1>7 DEF PollLogFile
  <2>2. CASE ~ToResponseLog \/ Own
    BY <1>2, <2>1, <2>2
  <2>3. CASE ToResponseLog /\ ~Own
    <3>1. PICK c \in Card : c = cli.card
      BY <2>1 DEF Fitting
    <3>2. Written(c) # <<>> /\ 1 \in DOMAIN Written(c)
      <4>1. Written(c) # <<>>
        BY <2>1, <2>3, <3>1 DEF Answered, ToResponseLog
      <4>. QED BY <4>1, WrittenType
    <3>3. \A n \in VFCounts : Written(c)[1] # Part("cli", cli.cmd, n)
      BY <2>3, <3>1, <3>2 DEF Own
    <3>4. cli.shared
      BY <2>1, <3>1, <3>2, <3>3 DEF Alone, Undisturbed
    <3>5. cli'.shared = cli.shared
      BY <2>1, ReturnType
    <3>. QED BY <3>4, <3>5 DEF CliHearsItself
  <2>. QED BY <2>2, <2>3
<1>8. ASSUME NEW d \in Card, Serve(d) \/ BeginPass(d) \/ EndPass(d) \/ Die(d) PROVE CliHearsItself'
  <2>1. cli' = cli
    BY <1>8 DEF Serve, Take, Finish, BeginPass, EndPass, Die
  <2>. QED BY <1>1, <2>1
<1>9. CASE UNCHANGED vars
  BY <1>1, <1>9 DEF vars
<1>. QED BY <1>3, <1>4, <1>5, <1>6, <1>7, <1>8, <1>9 DEF Next, Client

-----------------------------------------------------------------------------
(* The theorems *)

(* The invariant holds at the start: every card is served, and nobody asked. *)
LEMMA InitInv ==
  Init => IInv
<1>. SUFFICES ASSUME Init PROVE IInv
  OBVIOUS
<1>. DEFINE n == CHOOSE m \in VFCounts : TRUE
            none == <<>>
<1>1. n \in VFCounts /\ n \in Nat
  BY InventoryAssumption
<1>. HIDE DEF n
<1>2. /\ conf = [k \in Kinds |-> [reason |-> "Succeeded", vfs |-> [c \in Inventory[k] |-> n]]]
      /\ log = [c \in Card |-> NotThere]
      /\ main = [c \in Card |-> FALSE] /\ loop = NoRound /\ gauge = {} /\ cli = NoCommand
      /\ since = [c \in Card |-> {n}] /\ spent = [f \in Fault |-> 0]
  BY DEF Init, n
<1>3. hw = [c \in Card |-> [vfs |-> n, alive |-> TRUE, queue |-> none, half |-> NotThere]]
  BY DEF Init, n
<1>4. none \in Seq(AllRequests)
  OBVIOUS
<1>. HIDE DEF none
<1>5. \A k \in Kinds : conf[k] \in Answers /\ conf[k].vfs \in [Inventory[k] -> VFCounts]
  <2>. SUFFICES ASSUME NEW k \in Kinds
                PROVE  conf[k] \in Answers /\ conf[k].vfs \in [Inventory[k] -> VFCounts]
    OBVIOUS
  <2>. DEFINE l == [c \in Inventory[k] |-> n]
  <2>1. conf[k] = [reason |-> "Succeeded", vfs |-> l]
    BY <1>2
  <2>2. l \in [Inventory[k] -> VFCounts]
    BY <1>1
  <2>. HIDE DEF l
  <2>3. l \in Lists
    BY <2>2 DEF Lists
  <2>. QED BY <2>1, <2>2, <2>3 DEF Answers, Reasons
<1>6. hw \in [Card -> AllHardware] /\ \A c \in Card : hw[c].alive /\ hw[c].vfs = n
  BY <1>1, <1>3, <1>4 DEF AllHardware
<1>7. NoRound \in Rounds /\ LoopFits(NoRound) /\ NoRound.step = "sleep" /\ NoRound.queue = {}
  BY TheKinds DEF NoRound, Rounds, LoopFits
<1>8. NoCommand \in Clients /\ NoCommand.step = "idle" /\ NoCommand.heard = "none"
  BY DEF NoCommand, Clients
<1>9. Types
  <2>1. conf \in [Kinds -> Answers]
    BY <1>2, <1>5
  <2>2. log \in [Card -> Seq(Parts) \cup {NotThere}] /\ main \in [Card -> BOOLEAN]
    BY <1>2
  <2>3. since \in [Card -> SUBSET Nat] /\ spent \in [Fault -> Nat]
    BY <1>1, <1>2
  <2>. QED BY <1>2, <1>6, <1>7, <1>8, <2>1, <2>2, <2>3 DEF Types
<1>10. Fitting
  BY <1>2, <1>5, <1>6, <1>7, <1>8 DEF Fitting
<1>11. Fresh /\ CountedThisRound /\ Keyed
  BY <1>2, <1>6, <1>7 DEF Fresh, CountedThisRound, Keyed
<1>12. OneCountPerConfig
  BY <1>2, <1>11, <1>7, KeyedCount DEF OneCountPerConfig
<1>13. Alone /\ CliHearsItself
  BY <1>2, <1>8 DEF Alone, CliHearsItself
<1>. QED BY <1>9, <1>10, <1>11, <1>12, <1>13 DEF IInv

(* And every step keeps it. *)
LEMMA NextInv ==
  IInv /\ [Next]_vars => IInv'
<1>. SUFFICES ASSUME IInv, [Next]_vars PROVE IInv'
  OBVIOUS
<1>1. /\ Types /\ Fitting /\ Fresh /\ CountedThisRound /\ Keyed /\ OneCountPerConfig
      /\ Alone /\ CliHearsItself
  BY DEF IInv
<1>2. Types' /\ Fitting'
  BY <1>1, TypesStep
<1>3. Fresh' /\ CountedThisRound'
  BY <1>1, FreshStep
<1>4. Keyed'
  BY <1>1, KeyedStep
<1>5. OneCountPerConfig'
  BY <1>1, GaugeStep
<1>6. Alone'
  <2>1. CASE UNCHANGED vars
    BY <1>1, <2>1 DEF vars, Alone, Written
  <2>. QED BY <1>1, <2>1, RoundAlone, ClientAlone, CardAlone DEF Next
<1>7. CliHearsItself'
  BY <1>1, HeardStep
<1>. QED BY <1>2, <1>3, <1>4, <1>5, <1>6, <1>7 DEF IInv

(* So it holds of every reachable state. *)
THEOREM Invariant ==
  Spec => []IInv
BY InitInv, NextInv, PTL DEF Spec

(* Every variable has its type, a process that is dead has no requests, and the  *)
(* card in work is one that the object in work lists.                            *)
THEOREM TypeCorrect ==
  Spec => []TypeOK
<1>1. IInv => TypeOK
  <2>. SUFFICES ASSUME IInv PROVE TypeOK
    OBVIOUS
  <2>1. Types /\ Fitting
    BY DEF IInv
  <2>2. ASSUME NEW k \in Kinds
        PROVE  /\ conf[k].reason \in {"InProgress", "Succeeded", "Failed"}
               /\ \A c \in Inventory[k] : conf[k].vfs[c] \in VFCounts
    BY <2>1 DEF Types, Fitting, Answers, Reasons
  <2>3. ASSUME NEW c \in Card PROVE hw[c].vfs \in VFCounts /\ (~hw[c].alive => ~Busy(c))
    BY <2>1 DEF Types, Fitting, AllHardware
  <2>4. /\ loop.step \in {"sleep", "get", "sort", "next", "request", "read"}
        /\ loop.step \in {"request", "read"} => loop.card \in Inventory[loop.kind]
    BY <2>1 DEF Types, Rounds, Fitting, LoopFits
  <2>5. cli.step \in {"idle", "dial", "send", "poll"} /\ spent \in [Fault -> Nat]
    BY <2>1 DEF Types, Clients
  <2>. QED BY <2>2, <2>3, <2>4, <2>5 DEF TypeOK
<1>. QED BY <1>1, Invariant, PTL

(* A count that the loop takes for that of a configured card is a number of VFs  *)
(* the card has had since the round began, however the client, the reconciler    *)
(* and the deaths of pf_bb_config are interleaved with the round.                *)
THEOREM CountsAreOfThisRound ==
  Spec => []CountedThisRound
<1>1. IInv => CountedThisRound
  BY DEF IInv
<1>. QED BY <1>1, Invariant, PTL

(* The gauges hold at most one count of a card for each object that lists it.    *)
THEOREM OneCountEach ==
  Spec => []OneCountPerConfig
<1>1. IInv => OneCountPerConfig
  BY DEF IInv
<1>. QED BY <1>1, Invariant, PTL

(* A command that nobody disturbs prints its own answer.                         *)
THEOREM ClientsHearThemselves ==
  Spec => []CliHearsItself
<1>1. IInv => CliHearsItself
  BY DEF IInv
<1>. QED BY <1>1, Invariant, PTL
=============================================================================
