--------------------------- MODULE MCConfigurator ---------------------------
(* Values for the constants of Configurator: the FEC reconciler has card 1,   *)
(* without FFT windows, and card 2; the VRB reconciler has card 3, which the  *)
(* FEC reconciler withdraws once it finds VFs there.  a is served under       *)
(* vfio-pci with two VFs, the others under another driver with one; o has     *)
(* windows of its own, hl half an fftLut, m the section of another model.     *)
EXTENDS Configurator, TLC

CONSTANTS a, o, hl, m, g, n0, broken, fec, vrb, vfio, stub, none, own, vrb1, vrb2, nofile, half

MCCard == 1..3
MCConfig == {a, o, hl, m, g}
MCVFAmount == [f \in MCConfig |-> IF f = a THEN 2 ELSE 1]
MCPFDriver == [f \in MCConfig |-> IF f = a THEN vfio ELSE stub]
MCFFTLut == [f \in MCConfig |-> CASE f = hl -> half [] f = o -> own [] OTHER -> nofile]
MCDefaultWindows == [c \in MCCard |-> CASE c = 1 -> nofile [] c = 2 -> vrb1 [] c = 3 -> vrb2]

MCRequests ==
  [w \in {fec, vrb} |->
     IF w = fec
     THEN {(1 :> a @@ 2 :> hl), (1 :> n0 @@ 2 :> m), (3 :> n0)}
     ELSE {(3 :> g), (3 :> o)}]

(* Which faults come together. *)
Plan(kinds) == [k \in Fault |-> IF k \in kinds THEN 1 ELSE 0]

MCFaultPlans == {Plan({"call"}), [Plan({}) EXCEPT !["pkill"] = 2], Plan({"node"})}
=============================================================================
