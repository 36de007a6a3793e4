----------------------------- MODULE MCNodeDaemon -----------------------------
(* Values for the constants of NodeDaemon: two cards on the node and the      *)
(* address of a third one that is not there; a and b ask for the same number  *)
(* of VFs from different drivers, r has a driver that the node rejects.       *)
EXTENDS NodeDaemon

CONSTANTS a, b, r, n0

MCCard == 1..3
MCInstalled == {1, 2}
MCConfig == {a, b, r}
MCVFAmount == [f \in MCConfig |-> 1]

Pfs(f1, f2, f3) == [c \in MCCard |-> CASE c = 1 -> f1 [] c = 2 -> f2 [] OTHER -> f3]

NodeSpecOf(f1, f2, f3, skip) == [pfs |-> Pfs(f1, f2, f3), drainSkip |-> skip]

(* Both cards alike, one changed, one dropped. *)
Plain == {NodeSpecOf(a, a, n0, FALSE), NodeSpecOf(b, a, n0, FALSE), NodeSpecOf(n0, a, n0, TRUE)}

(* A rejected driver first, a rejected driver second. *)
Refusable == {NodeSpecOf(r, a, n0, FALSE), NodeSpecOf(a, r, n0, FALSE)}

MCPropagated == Plain \cup Refusable

(* Which faults come together, each of them once. *)
Once(kinds) == [f \in Fault |-> IF f \in kinds THEN 1 ELSE 0]

SafetyFaults ==
  {Once({"step", "crash", "reboot", "numvfs", "pfbb"}), Once({"lease", "step"}),
   Once({"lease", "crash"}), Once({"lease", "numvfs"}), Once({"lease", "reboot"})}
LivenessFaults == {Once({"step", "crash", "numvfs", "delete"}), Once({"lease"})}
OneFailedCall == {Once({"step"})}
RepairFaults == {Once({"step", "numvfs"})}

FewSpecs == {NodeSpecOf(a, b, n0, FALSE), NodeSpecOf(b, a, n0, TRUE), NodeSpecOf(a, r, n0, FALSE),
             NodeSpecOf(a, n0, a, FALSE)}
Alternatives == {NodeSpecOf(a, a, n0, FALSE), NodeSpecOf(b, a, n0, FALSE)}
OnlyPlain == {NodeSpecOf(a, a, n0, FALSE)}
===============================================================================
