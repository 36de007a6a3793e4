----------------------------- MODULE MCDrainLease -----------------------------
(* Values for the constants of DrainLease: the runs and their reconcilers. *)
EXTENDS DrainLease, TLC

CONSTANTS m, n, nobody

(* Two nodes; both reconcilers of the first one run, and one of them drains. *)
TwoNodes == {m, n}
ThreeRuns == {"m1", "m2", "n1"}
HomeOfThree == ("m1" :> m) @@ ("m2" :> m) @@ ("n1" :> n)
OwnerOfThree == ("m1" :> "m fec") @@ ("m2" :> "m vrb") @@ ("n1" :> "n fec")
DrainsOfThree == {"m1"}
===============================================================================
