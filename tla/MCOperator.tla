----------------------------- MODULE MCOperator -----------------------------
(* Values for the constants of Operator: two places for pods; the labeler's   *)
(* asset, the device plugin's with its ConfigMap, and the daemon's with its   *)
(* Secret and DaemonSet.  Release 2 has another daemon, release 3 another     *)
(* VFIO token, which is in the device plugin's ConfigMap and in the Secret.   *)
EXTENDS Operator, TLC

CONSTANTS p, q, n1, n2, lab, map, secret, daemon, nothing, present, other

MCAssetOf == (lab :> 1 @@ map :> 2 @@ secret :> 3 @@ daemon :> 3)

Files(m, s, d) == <<(lab :> "l1"), (map :> m), (secret :> s @@ daemon :> d)>>

MCShipped == <<Files("m1", "s1", "d1"), Files("m1", "s1", "d2"), Files("m2", "s2", "d2")>>

MCEdits == {[asset |-> 2, data |-> (map :> "edit")]}

(* Sections around the limits: every operation has g groups of a queues, but *)
(* one of them has h of b.                                                   *)
Section(m, op, bundles, g, a, h, b) ==
  [bundles |-> bundles, groups |-> [o \in Operations(m) |-> IF o = op THEN h ELSE g],
   aqs |-> [o \in Operations(m) |-> IF o = op THEN b ELSE a]]

Around(m, vfs) ==
  {[kind |-> IF m \in {"acc100", "acc200"} THEN "fec" ELSE "vrb", vfAmount |-> vfs,
    sections |-> (m :> Section(m, op, bundles, g, 16, h, b))] :
     op \in Operations(m), bundles \in {16, 17}, g \in {1, 2}, h \in {2, 4, 5, 12, 27}, b \in {16, 17, 64}}

InSchema(cfg) ==
  \A m \in DOMAIN cfg.sections \cap {"acc100", "acc200"} :
    LET s == cfg.sections[m]
    IN s.bundles <= 16 /\ \A o \in Operations(m) : s.groups[o] <= 16 /\ s.aqs[o] <= 16

Link(net, flr, up, down) == [network |-> net, flr |-> flr, up |-> up, down |-> down]

Small(m) == Section(m, "uplink4G", 16, 1, 16, 1, 16)

Mixed ==
  {[kind |-> "fec", vfAmount |-> 16,
    sections |-> [m \in ms |-> IF m = "n3000" THEN Link("FPGA_5GNR", 0, 32, 32) ELSE Small(m)]] :
      ms \in SUBSET {"n3000", "acc100", "acc200"}}
  \cup {[kind |-> "vrb", vfAmount |-> 16, sections |-> [m \in ms |-> Small(m)]] :
      ms \in SUBSET {"vrb1", "vrb2"}}

Links ==
  {[kind |-> "fec", vfAmount |-> 1, sections |-> ("n3000" :> Link(net, flr, up, down))] :
     net \in {"FPGA_5GNR", "FPGA_LTE"}, flr \in {0, 1}, up \in {32, 33}, down \in {32, 33}}

MCSubmissions ==
  {cfg \in UNION {Around(m, 16) : m \in {"acc100", "acc200", "vrb1", "vrb2"}} \cup Mixed \cup Links :
     InSchema(cfg)}

(* Which events come together. *)
Plan(kinds) == [k \in Fault |-> IF k \in kinds THEN 1 ELSE 0]

MCFaultPlans ==
  {Plan({"call", "list"}), Plan({"crash", "admin"}), Plan({"admin", "list"}), Plan({"upgrade", "crash"}),
   Plan({"upgrade", "list"}), Plan({"submit"}), [Plan({"label"}) EXCEPT !["look"] = 2]}

TokenPlans == {Plan({"upgrade"})}
=============================================================================
