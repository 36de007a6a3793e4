---------------------------- MODULE MCClusterConfig ----------------------------
(* Values for the constants of ClusterConfig: two cards on node m, one on n.   *)
(* wide selects everything, near selects one card of node m with the same     *)
(* priority, high the card of node n with a higher one.                     *)
EXTENDS ClusterConfig

CONSTANTS m, n, wide, near, high, none

MCNode == {m, n}
MCCard == {1, 2}
MCCardsOf == [x \in MCNode |-> IF x = m THEN {1, 2} ELSE {1}]
MCBoundAt == [x \in MCNode |-> "stub"]
MCDriver == {"stub", "vfio"}

MCSelectsNode == [c \in Config |-> CASE c = wide -> {m, n} [] c = near -> {m} [] OTHER -> {n}]
MCSelectsCard == [c \in Config |-> IF c = near THEN {1} ELSE {1, 2}]
MCSelectsDriver == [c \in Config |-> IF c = near THEN {"stub"} ELSE MCDriver]
MCPFDriver == [c \in Config |-> IF c = high THEN "vfio" ELSE "stub"]
MCPriority == [c \in Config |-> IF c = high THEN 1 ELSE 0]
=================================================================================
