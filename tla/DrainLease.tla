------------------------------ MODULE DrainLease ------------------------------
(***************************************************************************)
(* DrainHelper.Run (pkg/common/drainhelper/drainhelper.go): the daemons of *)
(* all nodes share one lease, and a reconciler has to lead before it may   *)
(* drain its node and let its worker, the configurator, work on the cards. *)
(*                                                                         *)
(* A run joins the election of client-go with the name of its node.  When  *)
(* it leads, the worker is started in a goroutine of its own; the election *)
(* ends when the worker cancels its context or when the lease could not be *)
(* renewed in time, and Run returns with whatever error has been noted by  *)
(* then.  On the way out it clears the lease "manually".                    *)
(*                                                                         *)
(* The API server refuses to update a lease with an old resourceVersion.   *)
(* Versions are not counted: fresh holds the runs that know the current    *)
(* one.  The two reconcilers of a node share its LeaseLock.                *)
(***************************************************************************)
EXTENDS Integers, FiniteSets

CONSTANTS
  Node,       \* the nodes with a daemon
  Nobody,     \* the holder of a free lease
  Run,        \* the calls of DrainHelper.Run; a reconciler makes one at a time
  Home,       \* the node of each run
  Owner,      \* the reconciler of each run
  Drains,     \* the runs with drain = true, that is, without drainSkip
  MaxFaults   \* bound on the faults

ASSUME NobodyAssumption == Nobody \notin Node

ASSUME RunAssumption ==
  /\ Home \in [Run -> Node]
  /\ DOMAIN Owner = Run
  /\ \A r, q \in Run : Owner[r] = Owner[q] => Home[r] = Home[q]
  /\ Drains \subseteq Run

ASSUME FaultAssumption == MaxFaults \in Nat

VARIABLES
  holder,    \* the lease's HolderIdentity
  fresh,     \* runs that have read or written the lease as it is now
  cordoned,  \* nodes made unschedulable by their daemon
  elector,   \* where each run is in Run and its LeaderElector
  observed,  \* the holder each leader saw last
  worker,    \* where OnStartedLeading of each run is
  innerErr,  \* runs whose drain or uncordon failed
  workErr,   \* runs whose worker failed: configurationError
  returned,  \* runs whose innerErr was set when Run returned
  outcome,   \* what configureNode has returned
  faults,    \* faults so far
  lost       \* runs that gave up the lease, or had it cleared under them

workVars == <<cordoned, worker, innerErr, workErr>>
vars == <<holder, fresh, elector, observed, workVars, returned, outcome, faults, lost>>

(* The faults: renewals fail until RenewDeadline has passed; an update of the *)
(* lease succeeds and its answer is lost; the lease cannot be read or written *)
(* while it is cleared; one of the worker's calls fails; a daemon restarts.   *)
Fault == faults < MaxFaults /\ faults' = faults + 1

Init ==
  /\ holder = Nobody
  /\ fresh = {}
  /\ cordoned = {}
  /\ elector = [r \in Run |-> "new"]
  /\ observed = [r \in Run |-> Nobody]
  /\ worker = [r \in Run |-> "none"]
  /\ innerErr = {}
  /\ workErr = {}
  /\ returned = {}
  /\ outcome = [r \in Run |-> "none"]
  /\ faults = 0
  /\ lost = {}

-----------------------------------------------------------------------------
(* The election *)

(* A variant with a mistake: each reconciler goes by a name of its own. *)
ReconcilerIdentity(r) == Owner[r]

(* The identity in the election is the node's name, not the reconciler's. *)
Identity(r) == Home[r]

Leading(r) == elector[r] \in {"lead", "renew"}

(* Variants with a mistake: LeaseDuration below RenewDeadline; never. *)
ExpiredEarly == TRUE
ExpiredNever == FALSE

(* The others wait LeaseDuration since they saw the lease renewed, and the   *)
(* holder gives up when it could not renew for RenewDeadline, which is less. *)
Expired == \A q \in Run : Leading(q) => Identity(q) # holder

(* configureNode calls Run; its reconciler does nothing else meanwhile. *)
Start(r) ==
  /\ elector[r] = "new"
  /\ \A q \in Run \ {r} : Owner[q] = Owner[r] => elector[q] \in {"new", "out"}
  /\ elector' = [elector EXCEPT ![r] = "try"]
  /\ UNCHANGED <<holder, fresh, observed, workVars, returned, outcome, faults, lost>>

(* tryAcquireOrRenew reads the lease: only another one's that has not expired *)
(* keeps it from writing.                                                     *)
ReadLease(r) ==
  /\ elector[r] \in {"try", "lead"}
  /\ fresh' = fresh \cup {r}
  /\ observed' = IF Leading(r) THEN [observed EXCEPT ![r] = holder] ELSE observed
  /\ elector' =
       IF holder \in {Nobody, Identity(r)} \/ Expired
       THEN [elector EXCEPT ![r] = IF @ = "try" THEN "acquire" ELSE "renew"]
       ELSE elector
  /\ UNCHANGED <<holder, workVars, returned, outcome, faults, lost>>

Taken(r) ==
  /\ holder' = Identity(r)
  /\ observed' = [observed EXCEPT ![r] = Identity(r)]

(* The reconcilers of a daemon share one LeaseLock: what one of them reads    *)
(* brings the resourceVersion up to date for the other one's writes, too.     *)
LockFresh(r) == \E q \in fresh : Home[q] = Home[r]

(* The leaders whose lease r writes without having read it.                   *)
Ousted(r) ==
  {q \in Run : r \notin fresh /\ Leading(q) /\ Identity(q) = holder /\ holder # Identity(r)}

(* The lease is written, and a new leader starts its worker. *)
WriteLease(r) ==
  /\ elector[r] \in {"acquire", "renew"}
  /\ LockFresh(r)
  /\ Taken(r)
  /\ fresh' = {r}
  /\ elector' = [elector EXCEPT ![r] = "lead"]
  /\ worker' =
       IF elector[r] = "acquire"
       THEN [worker EXCEPT ![r] = IF r \in Drains THEN "drain" ELSE "work"]
       ELSE worker
  /\ lost' = lost \cup Ousted(r)
  /\ UNCHANGED <<cordoned, innerErr, workErr, returned, outcome, faults>>

Retry(r) ==
  elector' = [elector EXCEPT ![r] = IF @ = "acquire" THEN "try" ELSE "lead"]

WriteConflicts(r) ==
  /\ elector[r] \in {"acquire", "renew"}
  /\ ~LockFresh(r)
  /\ Retry(r)
  /\ UNCHANGED <<holder, fresh, observed, workVars, returned, outcome, faults, lost>>

WriteUnanswered(r) ==
  /\ elector[r] \in {"acquire", "renew"}
  /\ LockFresh(r)
  /\ Fault
  /\ holder' = Identity(r)
  /\ fresh' = {}
  /\ lost' = lost \cup Ousted(r)
  /\ Retry(r)
  /\ UNCHANGED <<observed, workVars, returned, outcome>>

(* The worker has cancelled the context of the election. *)
StopLeading(r) ==
  /\ Leading(r)
  /\ worker[r] \in {"done", "stuck"}
  /\ elector' = [elector EXCEPT ![r] = "release"]
  /\ UNCHANGED <<holder, fresh, observed, workVars, returned, outcome, faults, lost>>

(* RenewDeadline has passed: because another node holds the lease now, or   *)
(* because the API server was out of reach.                                 *)
GiveUp(r) ==
  /\ Leading(r)
  /\ IF holder \in {Nobody, Identity(r)} THEN Fault ELSE UNCHANGED faults
  /\ elector' = [elector EXCEPT ![r] = "release"]
  /\ lost' = lost \cup {r}
  /\ UNCHANGED <<holder, fresh, observed, workVars, returned, outcome>>

-----------------------------------------------------------------------------
(* The way out of Run *)

(* The runs under which a lease that r writes is cleared. *)
Robbed(r) == {q \in Run \ {r} : Leading(q) /\ Identity(q) = holder}

(* The elector releases the lease it believes to hold, and Run returns with *)
(* the error noted so far.  From now on the worker's context is cancelled.  *)
LeaveElection(r) ==
  /\ elector[r] = "release"
  /\ elector' = [elector EXCEPT ![r] = "clear"]
  /\ observed' = [observed EXCEPT ![r] = Nobody]
  /\ returned' = IF r \in innerErr THEN returned \cup {r} ELSE returned

Release(r) ==
  /\ LeaveElection(r)
  /\ observed[r] = Identity(r)
  /\ LockFresh(r)
  /\ holder' = Nobody
  /\ fresh' = {r}
  /\ lost' = lost \cup Robbed(r)
  /\ UNCHANGED <<workVars, outcome, faults>>

(* It is not the leader any more, or the update fails, which it may always. *)
ReleaseFails(r) ==
  /\ LeaveElection(r)
  /\ UNCHANGED <<holder, fresh, workVars, outcome, faults, lost>>

(* The deferred "bug mitigation" reads the lease ... *)
ReadForClearing(r) ==
  /\ elector[r] = "clear"
  /\ fresh' = fresh \cup {r}
  /\ elector' = [elector EXCEPT ![r] = "wipe"]
  /\ UNCHANGED <<holder, observed, workVars, returned, outcome, faults, lost>>

(* A variant with a mistake: the worker's error is forgotten. *)
OutcomeOfRun(r) == IF r \in returned THEN "error" ELSE "nil"

(* configureNode: the error of Run, if any, or else the worker's. *)
Outcome(r) == IF r \in returned \cup workErr THEN "error" ELSE "nil"

Return(r) ==
  /\ elector' = [elector EXCEPT ![r] = "out"]
  /\ outcome' = [outcome EXCEPT ![r] = Outcome(r)]
  /\ UNCHANGED <<observed, workVars, returned>>

(* ... and writes it back without a holder, whoever that was. *)
ClearLease(r) ==
  /\ elector[r] = "wipe"
  /\ LockFresh(r)
  /\ holder' = Nobody
  /\ fresh' = {r}
  /\ lost' = lost \cup Robbed(r)
  /\ Return(r)
  /\ UNCHANGED faults

ClearingConflicts(r) ==
  /\ elector[r] = "wipe"
  /\ ~LockFresh(r)
  /\ Return(r)
  /\ UNCHANGED <<holder, fresh, faults, lost>>

ClearingFails(r) ==
  /\ elector[r] \in {"clear", "wipe"}
  /\ Fault
  /\ Return(r)
  /\ UNCHANGED <<holder, fresh, lost>>

-----------------------------------------------------------------------------
(* OnStartedLeading *)

WorkerOnly == UNCHANGED <<holder, fresh, elector, observed, returned, outcome, lost>>

(* The context the worker gets is the election's; drain and uncordon read    *)
(* their node with it, the worker function does not look at it.              *)
Cancelled(r) == ~Leading(r) /\ elector[r] # "release"

ReadNode(r) ==
  /\ worker[r] \in {"drain", "uncordon"}
  /\ ~Cancelled(r)
  /\ worker' = [worker EXCEPT ![r] = IF @ = "drain" THEN "evict" ELSE "undo"]
  /\ WorkerOnly /\ UNCHANGED <<cordoned, innerErr, workErr, faults>>

Cordon(r) ==
  /\ worker[r] = "evict"
  /\ cordoned' = cordoned \cup {Home[r]}
  /\ worker' = [worker EXCEPT ![r] = "work"]
  /\ WorkerOnly /\ UNCHANGED <<innerErr, workErr, faults>>

(* The node cannot be read: cancelled, or another error. *)
NodeUnread(r) == IF Cancelled(r) THEN UNCHANGED faults ELSE Fault

(* Cordoning fails, or the node is cordoned and a pod cannot be evicted. *)
DrainError(r) ==
  /\ \/ worker[r] = "drain" /\ NodeUnread(r) /\ UNCHANGED cordoned
     \/ worker[r] = "evict" /\ Fault /\ cordoned' \in {cordoned, cordoned \cup {Home[r]}}
  /\ innerErr' = innerErr \cup {r}
  /\ WorkerOnly /\ UNCHANGED workErr

(* A variant with a mistake: nothing is undone after a failed drain. *)
DrainFailsForGood(r) == DrainError(r) /\ worker' = [worker EXCEPT ![r] = "done"]

(* "always try to uncordon the node" *)
DrainFails(r) == DrainError(r) /\ worker' = [worker EXCEPT ![r] = "uncordon"]

WorkDone(r) == worker' = [worker EXCEPT ![r] = IF r \in Drains THEN "uncordon" ELSE "done"]

Work(r) ==
  /\ worker[r] = "work"
  /\ WorkDone(r)
  /\ WorkerOnly /\ UNCHANGED <<cordoned, innerErr, workErr, faults>>

WorkFails(r) ==
  /\ worker[r] = "work"
  /\ Fault
  /\ workErr' = workErr \cup {r}
  /\ WorkDone(r)
  /\ WorkerOnly /\ UNCHANGED <<cordoned, innerErr>>

Uncordon(r) ==
  /\ worker[r] = "undo"
  /\ cordoned' = cordoned \ {Home[r]}
  /\ worker' = [worker EXCEPT ![r] = "done"]
  /\ WorkerOnly /\ UNCHANGED <<innerErr, workErr, faults>>

UncordonFails(r) ==
  /\ \/ worker[r] = "uncordon" /\ NodeUnread(r)
     \/ worker[r] = "undo" /\ Fault
  /\ innerErr' = innerErr \cup {r}
  /\ worker' = [worker EXCEPT ![r] = "stuck"]
  /\ WorkerOnly /\ UNCHANGED <<cordoned, workErr>>

-----------------------------------------------------------------------------

(* The daemon of n restarts: its runs are gone, its lease and its node stay. *)
Crash(n) ==
  LET gone == {r \in Run : Home[r] = n /\ elector[r] # "new"} IN
    /\ Fault
    /\ elector' = [r \in Run |-> IF r \in gone THEN "out" ELSE elector[r]]
    /\ worker' = [r \in Run |-> IF r \in gone /\ worker[r] \notin {"none", "done"}
                                THEN "killed" ELSE worker[r]]
    /\ fresh' = {r \in fresh : Home[r] # n}
    /\ observed' = [r \in Run |-> IF r \in gone THEN Nobody ELSE observed[r]]
    /\ UNCHANGED <<holder, cordoned, innerErr, workErr, returned, outcome, lost>>

Elect(r) == elector[r] \in {"try", "acquire"} /\ (ReadLease(r) \/ WriteLease(r) \/ WriteConflicts(r))

Renew(r) == elector[r] \in {"lead", "renew"} /\ (ReadLease(r) \/ WriteLease(r) \/ WriteConflicts(r))

Leave(r) ==
  \/ StopLeading(r)
  \/ Release(r)
  \/ ReleaseFails(r)
  \/ ReadForClearing(r)
  \/ ClearLease(r)
  \/ ClearingConflicts(r)

WorkerStep(r) ==
  \/ ReadNode(r)
  \/ Cordon(r)
  \/ DrainFails(r)
  \/ Work(r)
  \/ WorkFails(r)
  \/ Uncordon(r)
  \/ UncordonFails(r)

Next ==
  \/ \E r \in Run :
       Start(r) \/ Elect(r) \/ Renew(r) \/ GiveUp(r) \/ Leave(r) \/ WorkerStep(r)
         \/ WriteUnanswered(r) \/ ClearingFails(r)
  \/ \E n \in Node : Crash(n)

Spec == Init /\ [][Next]_vars

(* An elector tries every RetryPeriod, every call of a worker is bounded by a *)
(* timeout, and one that was ousted finds out at its RenewDeadline.  Nobody   *)
(* is bound to call Run, and no fault is bound to happen.                     *)
FairSpec ==
  /\ Spec
  /\ \A r \in Run :
       /\ WF_vars(Elect(r))
       /\ WF_vars(Leave(r))
       /\ WF_vars(WorkerStep(r))
       /\ WF_vars(GiveUp(r) /\ holder \notin {Nobody, Identity(r)})

-----------------------------------------------------------------------------
(* Properties *)

(* The type of each variable. *)
TypeOK ==
  /\ holder \in Node \cup {Nobody}
  /\ fresh \subseteq Run
  /\ cordoned \subseteq Node
  /\ elector \in [Run -> {"new", "try", "acquire", "lead", "renew", "release", "clear",
                          "wipe", "out"}]
  /\ observed \in [Run -> Node \cup {Nobody}]
  /\ worker \in [Run -> {"none", "drain", "evict", "work", "uncordon", "undo", "done", "stuck",
                         "killed"}]
  /\ innerErr \subseteq Run
  /\ workErr \subseteq Run
  /\ returned \subseteq innerErr
  /\ outcome \in [Run -> {"none", "nil", "error"}]
  /\ faults \in 0..MaxFaults
  /\ lost \subseteq Run

Working(r) == worker[r] \in {"drain", "evict", "work", "uncordon", "undo"}

(* Two nodes are worked on at once only if one of the leaders gave up before *)
(* its worker was done, or had its lease cleared by another run's way out or *)
(* overwritten through the lock that two reconcilers share.                  *)
ExclusiveUnlessLost ==
  \A r, q \in Run :
    Working(r) /\ Working(q) /\ Home[r] # Home[q] => {r, q} \cap lost # {}

(* configureNode answers nil, and Succeeded is reported, only after the worker *)
(* and the uncordon are done without an error, unless leadership was lost.     *)
NilMeansDone ==
  \A r \in Run \ lost :
    outcome[r] = "nil" => worker[r] = "done" /\ r \notin innerErr \cup workErr

(* A cordoned node has a run that will uncordon it, one whose uncordon failed, *)
(* or one that went down with its daemon.                                      *)
NotLeftCordoned ==
  \A n \in cordoned :
    \E r \in Run : Home[r] = n /\ (Working(r) \/ worker[r] \in {"stuck", "killed"})

(* Every call of Run returns, over outages, crashes of lease holders and the   *)
(* waiting of all for one lease.                                               *)
RunReturns ==
  \A r \in Run : elector[r] # "new" ~> elector[r] = "out"

===============================================================================
