--------------------------- MODULE DrainLeaseProofs ---------------------------
(***************************************************************************)
(* The safety properties of DrainLease, for every set of nodes, every      *)
(* number of runs by any reconcilers and any number of faults.             *)
(***************************************************************************)
EXTENDS DrainLease, TLAPS

-----------------------------------------------------------------------------
(* What groups of actions leave alone *)

LEMMA IdentityType == ASSUME NEW r \in Run PROVE Identity(r) \in Node
BY RunAssumption DEF Identity

(* The worker has no part in the election. *)
LEMMA WorkerStepElection ==
  ASSUME NEW r \in Run, WorkerStep(r)
  PROVE  UNCHANGED <<holder, fresh, elector, observed, returned, outcome, lost>>
BY DEF WorkerStep, WorkerOnly, ReadNode, Cordon, DrainFails, DrainError, Work, WorkFails,
       Uncordon, UncordonFails

(* The election has no part in the work, but that a new leader starts it. *)
LEMMA ElectionWork ==
  ASSUME NEW r \in Run,
         Start(r) \/ ReadLease(r) \/ WriteLease(r) \/ WriteConflicts(r) \/ WriteUnanswered(r)
           \/ GiveUp(r) \/ Leave(r) \/ ClearingFails(r)
  PROVE  /\ UNCHANGED <<cordoned, innerErr, workErr>>
         /\ worker' # worker => WriteLease(r) /\ elector[r] = "acquire"
BY DEF Start, ReadLease, WriteLease, WriteConflicts, WriteUnanswered, GiveUp, Leave,
       StopLeading, LeaveElection, Release, ReleaseFails, ReadForClearing, ClearLease,
       ClearingConflicts, ClearingFails, Return, Retry, workVars

-----------------------------------------------------------------------------
(* Types *)

LEMMA TypeInit == Init => TypeOK
BY NobodyAssumption, RunAssumption, FaultAssumption DEF Init, TypeOK

LEMMA TypeWorkerStep ==
  ASSUME TypeOK, NEW r \in Run, WorkerStep(r)
  PROVE  TypeOK'
<1> USE RunAssumption, FaultAssumption DEF TypeOK, WorkerOnly, Fault, NodeUnread
<1>1. CASE ReadNode(r)
  BY <1>1 DEF ReadNode
<1>2. CASE Cordon(r)
  BY <1>2 DEF Cordon
<1>3. CASE DrainFails(r)
  BY <1>3 DEF DrainFails, DrainError
<1>4. CASE Work(r)
  BY <1>4 DEF Work, WorkDone
<1>5. CASE WorkFails(r)
  BY <1>5 DEF WorkFails, WorkDone
<1>6. CASE Uncordon(r)
  BY <1>6 DEF Uncordon
<1>7. CASE UncordonFails(r)
  BY <1>7 DEF UncordonFails
<1> QED
  BY <1>1, <1>2, <1>3, <1>4, <1>5, <1>6, <1>7 DEF WorkerStep

LEMMA TypeStep == TypeOK /\ [Next]_vars => TypeOK'
<1> SUFFICES ASSUME TypeOK, [Next]_vars PROVE TypeOK'
  OBVIOUS
<1> USE RunAssumption, FaultAssumption, IdentityType
    DEF TypeOK, workVars, Fault, Ousted, Robbed, Retry, Taken
<1>1. CASE UNCHANGED vars
  BY <1>1 DEF vars
<1>2. ASSUME NEW r \in Run, Start(r) PROVE TypeOK'
  BY <1>2 DEF Start
<1>3. ASSUME NEW r \in Run, ReadLease(r) PROVE TypeOK'
  BY <1>3 DEF ReadLease
<1>4. ASSUME NEW r \in Run, WriteLease(r) PROVE TypeOK'
  BY <1>4 DEF WriteLease
<1>5. ASSUME NEW r \in Run, WriteConflicts(r) PROVE TypeOK'
  BY <1>5 DEF WriteConflicts
<1>6. ASSUME NEW r \in Run, WriteUnanswered(r) PROVE TypeOK'
  BY <1>6 DEF WriteUnanswered
<1>7. ASSUME NEW r \in Run, GiveUp(r) PROVE TypeOK'
  BY <1>7 DEF GiveUp
<1>8. ASSUME NEW r \in Run, StopLeading(r) PROVE TypeOK'
  BY <1>8 DEF StopLeading
<1>9. ASSUME NEW r \in Run, Release(r) PROVE TypeOK'
  BY <1>9 DEF Release, LeaveElection
<1>10. ASSUME NEW r \in Run, ReleaseFails(r) PROVE TypeOK'
  BY <1>10 DEF ReleaseFails, LeaveElection
<1>11. ASSUME NEW r \in Run, ReadForClearing(r) PROVE TypeOK'
  BY <1>11 DEF ReadForClearing
<1>12. ASSUME NEW r \in Run, ClearLease(r) PROVE TypeOK'
  BY <1>12 DEF ClearLease, Return, Outcome
<1>13. ASSUME NEW r \in Run, ClearingConflicts(r) PROVE TypeOK'
  BY <1>13 DEF ClearingConflicts, Return, Outcome
<1>14. ASSUME NEW r \in Run, ClearingFails(r) PROVE TypeOK'
  BY <1>14 DEF ClearingFails, Return, Outcome
<1>15. ASSUME NEW r \in Run, WorkerStep(r) PROVE TypeOK'
  BY <1>15, TypeWorkerStep
<1>16. ASSUME NEW n \in Node, Crash(n) PROVE TypeOK'
  BY <1>16 DEF Crash
<1> QED
  BY <1>1, <1>2, <1>3, <1>4, <1>5, <1>6, <1>7, <1>8, <1>9, <1>10, <1>11, <1>12, <1>13, <1>14,
     <1>15, <1>16 DEF Next, Elect, Renew, Leave

(* Every variable of the election and of the work keeps its type. *)
THEOREM TypeCorrect == Spec => []TypeOK
BY TypeInit, TypeStep, PTL DEF Spec

-----------------------------------------------------------------------------
(* One leader, but for lost leases *)

(* A run does nothing before it leads, and a worker outlives the leadership of *)
(* its run only if that was lost.                                              *)
WorkersLead ==
  \A r \in Run :
    /\ elector[r] \in {"new", "try", "acquire"} => worker[r] = "none"
    /\ Working(r) /\ r \notin lost => Leading(r)

(* Who leads and has not lost the lease holds it. *)
LeadersHold ==
  \A r \in Run : Leading(r) /\ r \notin lost => holder = Identity(r)

(* Who may write the lease, and has read it as it is, has no leader to oust. *)
WritersHaveLooked ==
  \A r \in fresh :
    elector[r] \in {"acquire", "renew"} => holder \in {Nobody, Identity(r)} \/ Expired

LEMMA LeaseInit == Init => WorkersLead /\ LeadersHold /\ WritersHaveLooked
BY DEF Init, WorkersLead, LeadersHold, WritersHaveLooked, Working, Leading

LEMMA WorkersLeadStep == TypeOK /\ WorkersLead /\ [Next]_vars => WorkersLead'
<1> SUFFICES ASSUME TypeOK, WorkersLead, [Next]_vars PROVE WorkersLead'
  OBVIOUS
<1> USE DEF TypeOK, WorkersLead, Working, Leading, workVars, Retry
<1>1. CASE UNCHANGED vars
  BY <1>1 DEF vars
<1>2. ASSUME NEW r \in Run, Start(r) PROVE WorkersLead'
  BY <1>2 DEF Start
<1>3. ASSUME NEW r \in Run, ReadLease(r) PROVE WorkersLead'
  BY <1>3 DEF ReadLease
<1>4. ASSUME NEW r \in Run, WriteLease(r) PROVE WorkersLead'
  BY <1>4 DEF WriteLease
<1>5. ASSUME NEW r \in Run, WriteConflicts(r) PROVE WorkersLead'
  BY <1>5 DEF WriteConflicts
<1>6. ASSUME NEW r \in Run, WriteUnanswered(r) PROVE WorkersLead'
  BY <1>6 DEF WriteUnanswered
<1>7. ASSUME NEW r \in Run, GiveUp(r) PROVE WorkersLead'
  BY <1>7 DEF GiveUp
<1>8. ASSUME NEW r \in Run, Leave(r) \/ ClearingFails(r) PROVE WorkersLead'
  BY <1>8 DEF Leave, StopLeading, Release, ReleaseFails, LeaveElection, ReadForClearing,
              ClearLease, ClearingConflicts, ClearingFails, Return
<1>9. ASSUME NEW r \in Run, WorkerStep(r) PROVE WorkersLead'
  <2>1. UNCHANGED <<elector, lost>>
    BY <1>9, WorkerStepElection
  <2>2. /\ Working(r)
        /\ \E w \in {"drain", "evict", "work", "uncordon", "undo", "done", "stuck"} :
             worker' = [worker EXCEPT ![r] = w]
    BY <1>9 DEF WorkerStep, ReadNode, Cordon, DrainFails, DrainError, Work, WorkFails, WorkDone,
                Uncordon, UncordonFails
  <2> QED
    BY <2>1, <2>2
<1>10. ASSUME NEW n \in Node, Crash(n) PROVE WorkersLead'
  BY <1>10 DEF Crash
<1> QED
  BY <1>1, <1>2, <1>3, <1>4, <1>5, <1>6, <1>7, <1>8, <1>9, <1>10 DEF Next, Elect, Renew

(* A write makes no unlost leader lose the lease: either the writer has looked *)
(* and there was none, or the leader is among the ousted.                      *)
LEMMA WriteOusts ==
  ASSUME TypeOK, LeadersHold, WritersHaveLooked,
         NEW r \in Run, elector[r] \in {"acquire", "renew"},
         NEW q \in Run, Leading(q), q \notin lost \cup Ousted(r)
  PROVE  Identity(q) = Identity(r)
<1>1. holder = Identity(q)
  BY DEF LeadersHold
<1>2. CASE r \in fresh
  <2>1. ~Expired
    BY <1>1 DEF Expired
  <2> QED
    BY <1>1, <1>2, <2>1, IdentityType, NobodyAssumption DEF WritersHaveLooked
<1>3. CASE r \notin fresh
  BY <1>1, <1>3 DEF Ousted
<1> QED
  BY <1>2, <1>3

LEMMA LeaseStep ==
  TypeOK /\ LeadersHold /\ WritersHaveLooked /\ [Next]_vars => LeadersHold' /\ WritersHaveLooked'
<1> SUFFICES ASSUME TypeOK, LeadersHold, WritersHaveLooked, [Next]_vars
             PROVE  LeadersHold' /\ WritersHaveLooked'
  OBVIOUS
<1> DEFINE Goal == LeadersHold' /\ WritersHaveLooked'
<1>1. CASE UNCHANGED vars
  BY <1>1 DEF vars, LeadersHold, WritersHaveLooked, Leading, Expired, Identity
<1>2. ASSUME NEW r \in Run, Start(r) PROVE Goal
  BY <1>2 DEF Start, TypeOK, LeadersHold, WritersHaveLooked, Leading, Expired, Identity
<1>3. ASSUME NEW r \in Run, ReadLease(r) PROVE Goal
  BY <1>3 DEF ReadLease, TypeOK, LeadersHold, WritersHaveLooked, Leading, Expired, Identity
<1>4. ASSUME NEW r \in Run, WriteLease(r) PROVE Goal
  <2>1. LeadersHold'
    <3> SUFFICES ASSUME NEW q \in Run, Leading(q)', q \notin lost' PROVE holder' = Identity(q)
      BY DEF LeadersHold, Identity
    <3>1. CASE q = r
      BY <1>4, <3>1 DEF WriteLease, Taken
    <3>2. CASE q # r
      <4>1. Leading(q) /\ q \notin lost \cup Ousted(r) /\ elector[r] \in {"acquire", "renew"}
        BY <1>4, <3>2 DEF WriteLease, TypeOK, Leading
      <4> QED
        BY <1>4, <4>1, WriteOusts DEF WriteLease, Taken
    <3> QED
      BY <3>1, <3>2
  <2>2. WritersHaveLooked'
    BY <1>4 DEF WriteLease, TypeOK, WritersHaveLooked
  <2> QED
    BY <2>1, <2>2
<1>5. ASSUME NEW r \in Run, WriteConflicts(r) PROVE Goal
  BY <1>5 DEF WriteConflicts, Retry, TypeOK, LeadersHold, WritersHaveLooked, Leading, Expired,
              Identity
<1>6. ASSUME NEW r \in Run, WriteUnanswered(r) PROVE Goal
  <2>1. LeadersHold'
    <3> SUFFICES ASSUME NEW q \in Run, Leading(q)', q \notin lost' PROVE holder' = Identity(q)
      BY DEF LeadersHold, Identity
    <3>1. Leading(q) /\ q \notin lost \cup Ousted(r) /\ elector[r] \in {"acquire", "renew"}
      BY <1>6 DEF WriteUnanswered, Retry, TypeOK, Leading
    <3> QED
      BY <1>6, <3>1, WriteOusts DEF WriteUnanswered
  <2>2. WritersHaveLooked'
    BY <1>6 DEF WriteUnanswered, WritersHaveLooked
  <2> QED
    BY <2>1, <2>2
<1>7. ASSUME NEW r \in Run, GiveUp(r) PROVE Goal
  BY <1>7 DEF GiveUp, TypeOK, LeadersHold, WritersHaveLooked, Leading, Expired, Identity
<1>8. ASSUME NEW r \in Run, StopLeading(r) \/ ReleaseFails(r) \/ ClearingConflicts(r)
                              \/ ClearingFails(r)
      PROVE  Goal
  BY <1>8 DEF StopLeading, ReleaseFails, LeaveElection, ClearingConflicts, ClearingFails, Return,
              TypeOK, LeadersHold, WritersHaveLooked, Leading, Expired, Identity
<1>9. ASSUME NEW r \in Run, ReadForClearing(r) PROVE Goal
  BY <1>9 DEF ReadForClearing, TypeOK, LeadersHold, WritersHaveLooked, Leading, Expired, Identity
<1>10. ASSUME NEW r \in Run, Release(r) \/ ClearLease(r) PROVE Goal
  BY <1>10 DEF Release, LeaveElection, ClearLease, Return, Robbed, TypeOK, LeadersHold,
               WritersHaveLooked, Leading, Identity
<1>11. ASSUME NEW r \in Run, WorkerStep(r) PROVE Goal
  BY <1>11, WorkerStepElection DEF LeadersHold, WritersHaveLooked, Leading, Expired, Identity
<1>12. ASSUME NEW n \in Node, Crash(n) PROVE Goal
  BY <1>12 DEF Crash, TypeOK, LeadersHold, WritersHaveLooked, Leading, Expired, Identity
<1> QED
  BY <1>1, <1>2, <1>3, <1>4, <1>5, <1>6, <1>7, <1>8, <1>9, <1>10, <1>11, <1>12
     DEF Next, Elect, Renew, Leave

LEMMA LeaseInv == Spec => [](TypeOK /\ WorkersLead /\ LeadersHold /\ WritersHaveLooked)
BY TypeInit, TypeStep, LeaseInit, WorkersLeadStep, LeaseStep, PTL DEF Spec

LEMMA HoldersExclude == WorkersLead /\ LeadersHold => ExclusiveUnlessLost
BY DEF WorkersLead, LeadersHold, ExclusiveUnlessLost, Identity

(* Two nodes are worked on at once only if one of the two runs has lost its   *)
(* lease: whatever outages, lost answers, crashes and clearings there are.    *)
THEOREM OneNodeAtATime == Spec => []ExclusiveUnlessLost
BY LeaseInv, HoldersExclude, PTL

-----------------------------------------------------------------------------
(* What Run returns *)

(* The way out of Run, with the lease not lost: the worker is over, and from *)
(* the end of the election on Run's error is known.  A worker that is stuck  *)
(* has noted its error.                                                       *)
WayOut ==
  \A r \in Run :
    /\ outcome[r] # "none" => elector[r] = "out"
    /\ worker[r] = "stuck" => r \in innerErr
    /\ r \notin lost =>
         /\ elector[r] \in {"release", "clear", "wipe"} => worker[r] \in {"done", "stuck"}
         /\ elector[r] \in {"clear", "wipe"} /\ r \in innerErr => r \in returned

LEMMA NilInit == Init => WayOut /\ NilMeansDone
BY DEF Init, WayOut, NilMeansDone

(* A step of the worker of r, seen from the others: it works, notes its own   *)
(* errors only, and is done or stuck at the end.                               *)
LEMMA WorkerStepWork ==
  ASSUME TypeOK, NEW r \in Run, WorkerStep(r)
  PROVE  /\ Working(r)
         /\ \E w \in {"drain", "evict", "work", "uncordon", "undo", "done", "stuck"} :
              /\ worker' = [worker EXCEPT ![r] = w]
              /\ w = "stuck" => r \in innerErr'
         /\ innerErr' \in {innerErr, innerErr \cup {r}}
         /\ workErr' \in {workErr, workErr \cup {r}}
BY DEF WorkerStep, ReadNode, Cordon, DrainFails, DrainError, Work, WorkFails, WorkDone,
       Uncordon, UncordonFails, Working, WorkerOnly

LEMMA NilStep ==
  TypeOK /\ WorkersLead /\ WayOut /\ NilMeansDone /\ [Next]_vars => WayOut' /\ NilMeansDone'
<1> SUFFICES ASSUME TypeOK, WorkersLead, WayOut, NilMeansDone, [Next]_vars
             PROVE  WayOut' /\ NilMeansDone'
  OBVIOUS
<1> DEFINE Goal == WayOut' /\ NilMeansDone'
<1> USE DEF TypeOK, WayOut, NilMeansDone, workVars, Retry
<1>1. CASE UNCHANGED vars
  BY <1>1 DEF vars
<1>2. ASSUME NEW r \in Run, Start(r) PROVE Goal
  BY <1>2 DEF Start
<1>3. ASSUME NEW r \in Run, ReadLease(r) PROVE Goal
  BY <1>3 DEF ReadLease, Leading
<1>4. ASSUME NEW r \in Run, WriteLease(r) PROVE Goal
  BY <1>4 DEF WriteLease
<1>5. ASSUME NEW r \in Run, WriteConflicts(r) \/ WriteUnanswered(r) PROVE Goal
  BY <1>5 DEF WriteConflicts, WriteUnanswered
<1>6. ASSUME NEW r \in Run, GiveUp(r) PROVE Goal
  BY <1>6 DEF GiveUp, Leading
<1>7. ASSUME NEW r \in Run, StopLeading(r) PROVE Goal
  BY <1>7 DEF StopLeading, Leading
<1>8. ASSUME NEW r \in Run, Release(r) \/ ReleaseFails(r) PROVE Goal
  BY <1>8 DEF Release, ReleaseFails, LeaveElection
<1>9. ASSUME NEW r \in Run, ReadForClearing(r) PROVE Goal
  BY <1>9 DEF ReadForClearing
<1>10. ASSUME NEW r \in Run, ClearLease(r) \/ ClearingConflicts(r) \/ ClearingFails(r) PROVE Goal
  BY <1>10 DEF ClearLease, ClearingConflicts, ClearingFails, Return, Outcome
<1>11. ASSUME NEW r \in Run, WorkerStep(r) PROVE Goal
  <2>1. UNCHANGED <<elector, returned, outcome, lost>>
    BY <1>11, WorkerStepElection
  <2>2. r \notin lost => Leading(r)
    BY <1>11, WorkerStepWork DEF WorkersLead
  <2> QED
    BY <1>11, <2>1, <2>2, WorkerStepWork DEF Leading, Working
<1>12. ASSUME NEW n \in Node, Crash(n) PROVE Goal
  BY <1>12 DEF Crash
<1> QED
  BY <1>1, <1>2, <1>3, <1>4, <1>5, <1>6, <1>7, <1>8, <1>9, <1>10, <1>11, <1>12
     DEF Next, Elect, Renew, Leave

(* configureNode answers nil only after worker and uncordon are done without *)
(* an error, unless the lease was lost.                                        *)
THEOREM NilIsTrue == Spec => []NilMeansDone
<1>1. Init => TypeOK /\ WorkersLead /\ WayOut /\ NilMeansDone
  BY TypeInit, LeaseInit, NilInit
<1>2. /\ TypeOK /\ WorkersLead /\ WayOut /\ NilMeansDone
      /\ [Next]_vars
      => (TypeOK /\ WorkersLead /\ WayOut /\ NilMeansDone)'
  BY TypeStep, WorkersLeadStep, NilStep
<1> QED
  BY <1>1, <1>2, PTL DEF Spec

-----------------------------------------------------------------------------
(* Cordoned nodes *)

(* A run that drains its node and has not finished. *)
Responsible(r) == r \in Drains /\ worker[r] \notin {"none", "done"}

(* Only runs that drain are at the stages of draining, and every cordoned node *)
(* has one that is not done.                                                    *)
CordonedForSomebody ==
  /\ \A r \in Run : worker[r] \in {"drain", "evict", "uncordon", "undo"} => r \in Drains
  /\ \A n \in cordoned : \E r \in Run : Home[r] = n /\ Responsible(r)

LEMMA CordonedInit == Init => CordonedForSomebody
BY DEF Init, CordonedForSomebody

LEMMA CordonedStep ==
  TypeOK /\ WorkersLead /\ CordonedForSomebody /\ [Next]_vars => CordonedForSomebody'
<1> SUFFICES ASSUME TypeOK, WorkersLead, CordonedForSomebody, [Next]_vars
             PROVE  CordonedForSomebody'
  OBVIOUS
<1> USE DEF TypeOK, CordonedForSomebody, Responsible
<1>1. CASE UNCHANGED vars
  BY <1>1 DEF vars, workVars
<1>2. ASSUME NEW r \in Run,
             Start(r) \/ ReadLease(r) \/ WriteConflicts(r) \/ WriteUnanswered(r) \/ GiveUp(r)
               \/ Leave(r) \/ ClearingFails(r)
      PROVE  CordonedForSomebody'
  <2>1. cordoned' = cordoned /\ (worker' = worker \/ WriteLease(r))
    BY <1>2, ElectionWork
  <2>2. CASE worker' = worker
    BY <2>1, <2>2
  <2>3. CASE WriteLease(r) /\ elector[r] = "acquire"
    BY <2>1, <2>3 DEF WriteLease, WorkersLead
  <2> QED
    BY <1>2, <2>1, <2>2, <2>3, ElectionWork
<1>3. ASSUME NEW r \in Run, WriteLease(r) PROVE CordonedForSomebody'
  <2>1. cordoned' = cordoned
    BY <1>3, ElectionWork
  <2> QED
    BY <1>3, <2>1 DEF WriteLease, WorkersLead
<1>4. ASSUME NEW r \in Run, WorkerStep(r) PROVE CordonedForSomebody'
  <2> USE DEF WorkerOnly
  <2>1. CASE ReadNode(r)
    BY <1>4, <2>1 DEF ReadNode
  <2>2. CASE Cordon(r)
    BY <1>4, <2>2 DEF Cordon
  <2>3. CASE DrainFails(r)
    BY <1>4, <2>3 DEF DrainFails, DrainError
  <2>4. CASE Work(r)
    BY <1>4, <2>4 DEF Work, WorkDone
  <2>5. CASE WorkFails(r)
    BY <1>4, <2>5 DEF WorkFails, WorkDone
  <2>6. CASE Uncordon(r)
    BY <1>4, <2>6 DEF Uncordon
  <2>7. CASE UncordonFails(r)
    BY <1>4, <2>7 DEF UncordonFails
  <2> QED
    BY <1>4, <2>1, <2>2, <2>3, <2>4, <2>5, <2>6, <2>7 DEF WorkerStep
<1>5. ASSUME NEW n \in Node, Crash(n) PROVE CordonedForSomebody'
  BY <1>5 DEF Crash
<1> QED
  BY <1>1, <1>2, <1>3, <1>4, <1>5 DEF Next, Elect, Renew

LEMMA SomebodyUncordons == TypeOK /\ CordonedForSomebody => NotLeftCordoned
BY DEF TypeOK, CordonedForSomebody, Responsible, NotLeftCordoned, Working

(* A cordoned node has a run that will uncordon it, whose uncordon failed, or  *)
(* that went down with its daemon.                                              *)
THEOREM CordonedNodesHaveARun == Spec => []NotLeftCordoned
<1>1. Init => TypeOK /\ WorkersLead /\ CordonedForSomebody
  BY TypeInit, LeaseInit, CordonedInit
<1>2. TypeOK /\ WorkersLead /\ CordonedForSomebody /\ [Next]_vars
        => (TypeOK /\ WorkersLead /\ CordonedForSomebody)'
  BY TypeStep, WorkersLeadStep, CordonedStep
<1> QED
  BY <1>1, <1>2, SomebodyUncordons, PTL DEF Spec
===============================================================================
