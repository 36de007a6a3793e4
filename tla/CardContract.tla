---------------------------- MODULE CardContract ----------------------------
(***************************************************************************)
(* What a call of ApplySpec promises about the cards of a node, whatever   *)
(* it does to them on the way.  A worker is handed configurations for      *)
(* some cards.  Until it answers, those cards and no others are its to     *)
(* change; another worker may have been handed some of them, too.  When it *)
(* answers "ok" each of them is as requested, unless the node or another   *)
(* worker changed one of them behind its back; when it answers "error"     *)
(* they may be in any state.                                               *)
(*                                                                         *)
(* Configurator implements this contract; NodeDaemon and VrbDaemon rely on *)
(* it, with the configuration of a card as one step.                       *)
(***************************************************************************)
CONSTANTS
  Card,      \* the cards of the node
  Worker,    \* the callers: the FEC and the VRB reconciler
  Config,    \* what a card can be asked to serve
  NoConfig,  \* a card without VFs, also what a withdrawn card is asked to be
  Broken     \* any other state of a card

VARIABLES
  state,   \* what each card is
  task,    \* what each worker was asked, Idle when it works on nothing
  result,  \* its last answer
  hit      \* the node or another worker has changed one of its cards since

vars == <<state, task, result, hit>>

State == Config \cup {NoConfig, Broken}

Idle == <<>>

(* Something to do: a configuration, or none, for some of the cards. *)
IsTask(asked) ==
  /\ asked # Idle
  /\ DOMAIN asked \subseteq Card
  /\ \A c \in DOMAIN asked : asked[c] \in Config \cup {NoConfig}

Init ==
  /\ state = [c \in Card |-> NoConfig]
  /\ task = [w \in Worker |-> Idle]
  /\ result = [w \in Worker |-> "none"]
  /\ hit = [w \in Worker |-> FALSE]

Begin(w) ==
  /\ task[w] = Idle /\ IsTask(task'[w])
  /\ task' = [task EXCEPT ![w] = task'[w]]
  /\ result' = [result EXCEPT ![w] = "none"]
  /\ hit' = [hit EXCEPT ![w] = FALSE]
  /\ UNCHANGED state

(* The other workers that were asked for one of its cards. *)
Sharing(w) == {v \in Worker \ {w} : DOMAIN task[v] \cap DOMAIN task[w] # {}}

(* It touches cards of theirs. *)
Hits(w, own) ==
  \E S \in SUBSET Sharing(w) :
    hit' = [v \in Worker |-> IF v = w THEN own ELSE hit[v] \/ v \in S]

(* Only the cards of the task change, and whoever else has one of them is hit. *)
Work(w) ==
  /\ UNCHANGED <<task, result>>
  /\ state' \in [Card -> State]
  /\ \A c \in Card \ DOMAIN task[w] : state'[c] = state[c]
  /\ Hits(w, hit[w])
  /\ \A v \in Sharing(w) : hit'[v] \/ \A c \in DOMAIN task[v] : state'[c] = state[c]

Succeed(w) ==
  /\ task[w] # Idle
  /\ hit[w] \/ \A c \in DOMAIN task[w] : state[c] = task[w][c]
  /\ task' = [task EXCEPT ![w] = Idle]
  /\ result' = [result EXCEPT ![w] = "ok"]
  /\ hit' = [hit EXCEPT ![w] = FALSE]
  /\ UNCHANGED state

Fail(w) ==
  /\ task[w] # Idle
  /\ task' = [task EXCEPT ![w] = Idle]
  /\ result' = [result EXCEPT ![w] = "error"]
  /\ Hits(w, FALSE)
  /\ UNCHANGED state

(* The node changes a card: a process dies, somebody writes to sysfs, a     *)
(* write that was given up lands.                                           *)
Outside(c) ==
  /\ state' \in [Card -> State]
  /\ \A d \in Card \ {c} : state'[d] = state[d]
  /\ hit' = [w \in Worker |-> hit[w] \/ c \in DOMAIN task[w]]
  /\ UNCHANGED <<task, result>>

(* The daemon restarts.  Its workers answer nothing any more. *)
Restart ==
  /\ state' \in [Card -> State]
  /\ task' = [w \in Worker |-> Idle]
  /\ result' = [w \in Worker |-> "none"]
  /\ hit' = [w \in Worker |-> FALSE]

Next ==
  \/ \E w \in Worker : Work(w) \/ Begin(w) \/ Succeed(w) \/ Fail(w)
  \/ \E c \in Card : Outside(c)
  \/ Restart

Spec == Init /\ [][Next]_vars
=============================================================================
