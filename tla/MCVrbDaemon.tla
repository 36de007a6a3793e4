----------------------------- MODULE MCVrbDaemon -----------------------------
(* Values for the constants of VrbDaemon: two cards on the node; f and g give  *)
(* the same VFs different names, p names none, r has a driver that is rejected. *)
EXTENDS VrbDaemon

CONSTANTS f, g, p, r, n0, x, y, noname, absent

MCCard == 1..2
MCConfig == {f, g, p, r}
MCVFAmount == [k \in MCConfig |-> 1]
MCResourceName == [k \in MCConfig |-> CASE k = f -> x [] k = g -> y [] OTHER -> noname]

Asks(k1, k2, skip) == [pfs |-> [c \in MCCard |-> IF c = 1 THEN k1 ELSE k2], drainSkip |-> skip]

(* Not a list of entries. *)
MCAbsent == {absent}

(* Both cards named, one renamed, one without a name, one rejected. *)
MCPropagated == {Asks(f, f, FALSE), Asks(g, f, FALSE), Asks(p, g, TRUE), Asks(f, r, FALSE)}

(* Which faults come together, each of them once, and with how many specs. *)
Plan(specs, kinds) ==
  [k \in Fault |-> IF k = "spec" THEN specs ELSE IF k \in kinds THEN 1 ELSE 0]

MCFaultPlans ==
  {Plan(2, {"step", "crash"}), Plan(2, {"step", "deploy"}), Plan(2, {"crash", "deploy", "other"}),
   Plan(2, {"crash", "numvfs"}), Plan(2, {"delete"}), Plan(2, {"lease", "other"}),
   Plan(1, {"lease", "step"})}
==============================================================================
