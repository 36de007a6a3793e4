----------------------------- MODULE Admission -----------------------------
(***************************************************************************)
(* The validation of SriovFecClusterConfigs and SriovVrbClusterConfigs in  *)
(* the webhooks (api/sriovfec/v2 and api/sriovvrb/v1, *_webhook.go), and   *)
(* what a daemon does with a bbDevConfig that passed it: it validates it   *)
(* again and writes one of its sections to the file of pf_bb_config.       *)
(*                                                                         *)
(* A configuration is a record [kind, vfAmount, sections]; sections is a   *)
(* function from the models that have a section to                         *)
(*   [bundles, groups, aqs]         for ACC100, ACC200, VRB1 and VRB2,     *)
(*                                  groups and aqs by operation,           *)
(*   [network, flr, up, down]       for N3000, up and down the totals of   *)
(*                                  the queues of its eight VFs.           *)
(***************************************************************************)
EXTENDS Integers, Sequences, FiniteSets, FiniteSetsExt

(* The order in which the sections are looked at for ambiguity. *)
Sections(kind) == IF kind = "fec" THEN <<"n3000", "acc100", "acc200">> ELSE <<"vrb1", "vrb2">>

(* The order in which the daemon looks for the one to write. *)
Preferred(kind) == IF kind = "fec" THEN <<"acc100", "acc200", "n3000">> ELSE <<"vrb1", "vrb2">>

(* The operations of a model's queue groups. *)
Operations(m) ==
  {"uplink4G", "downlink4G", "uplink5G", "downlink5G"}
    \cup (IF m = "acc100" THEN {} ELSE {"qfft"})
    \cup (IF m = "vrb2" THEN {"qmld"} ELSE {})

MaxQueueGroups(m) == CASE m = "acc100" -> 8 [] m = "vrb2" -> 32 [] OTHER -> 16

Vrb1MaxVfNums == 16

Vrb2MaxQueuesPerOperation == 256

HasSection(cfg, m) == m \in DOMAIN cfg.sections

QueueGroups(m, section) == MapThenSumSet(LAMBDA op : section.groups[op], Operations(m))

Queues(section, op) == section.groups[op] * section.aqs[op]

-----------------------------------------------------------------------------
(* Only two sections next to each other are noticed: one that is absent     *)
(* resets what was found.                                                   *)
HasAmbiguousBBDevConfigs(cfg) ==
  LET order == Sections(cfg.kind)
  IN \E i \in 2..Len(order) : HasSection(cfg, order[i - 1]) /\ HasSection(cfg, order[i])

AmbiguousBBDevConfigValidator(cfg) ==
  ~HasAmbiguousBBDevConfigs(cfg) /\ DOMAIN cfg.sections # {}

N3000LinkQueuesValidator(cfg) ==
  HasSection(cfg, "n3000") =>
    cfg.sections["n3000"].up <= 32 /\ cfg.sections["n3000"].down <= 32

N3000FlrTimeoutValidator(cfg) ==
  HasSection(cfg, "n3000") =>
    cfg.sections["n3000"].network = "FPGA_LTE" \/ cfg.sections["n3000"].flr = 0

VfAmountFits(cfg, m) == HasSection(cfg, m) => cfg.sections[m].bundles = cfg.vfAmount

Acc100VfAmountValidator(cfg) == VfAmountFits(cfg, "acc100")

Acc200VfAmountValidator(cfg) == VfAmountFits(cfg, "acc200")

Vrb1VfAmountValidator(cfg) ==
  /\ VfAmountFits(cfg, "vrb1")
  /\ HasSection(cfg, "vrb1") => cfg.sections["vrb1"].bundles <= Vrb1MaxVfNums

(* A variant with a mistake: the bundles of VRB2 are not looked at. *)
Vrb2VfAmountValidatorNone(cfg) == TRUE

Vrb2VfAmountValidator(cfg) == VfAmountFits(cfg, "vrb2")

NumQueueGroupsFit(cfg, m) ==
  HasSection(cfg, m) => QueueGroups(m, cfg.sections[m]) <= MaxQueueGroups(m)

Acc100NumQueueGroupsValidator(cfg) == NumQueueGroupsFit(cfg, "acc100")

Acc200NumQueueGroupsValidator(cfg) == NumQueueGroupsFit(cfg, "acc200")

Vrb1NumQueueGroupsValidator(cfg) == NumQueueGroupsFit(cfg, "vrb1")

Vrb2NumQueueGroupsValidator(cfg) == NumQueueGroupsFit(cfg, "vrb2")

Vrb1NumAqsPerGroupsValidator(cfg) ==
  HasSection(cfg, "vrb1") =>
    \A op \in Operations("vrb1") : cfg.sections["vrb1"].aqs[op] <= MaxQueueGroups("vrb1")

(* The queues of downlink5G are computed with the aqs of downlink4G. *)
Vrb2NumQueuesPerOperationValidator(cfg) ==
  HasSection(cfg, "vrb2") =>
    LET section == cfg.sections["vrb2"]
    IN /\ \A op \in Operations("vrb2") \ {"downlink5G"} :
            Queues(section, op) <= Vrb2MaxQueuesPerOperation
       /\ section.groups["downlink5G"] * section.aqs["downlink4G"] <= Vrb2MaxQueuesPerOperation

FecValidate(cfg) ==
  /\ AmbiguousBBDevConfigValidator(cfg)
  /\ N3000LinkQueuesValidator(cfg) /\ N3000FlrTimeoutValidator(cfg)
  /\ Acc100VfAmountValidator(cfg) /\ Acc200VfAmountValidator(cfg)
  /\ Acc100NumQueueGroupsValidator(cfg) /\ Acc200NumQueueGroupsValidator(cfg)

VrbValidate(cfg) ==
  /\ AmbiguousBBDevConfigValidator(cfg)
  /\ Vrb1VfAmountValidator(cfg) /\ Vrb2VfAmountValidator(cfg)
  /\ Vrb1NumQueueGroupsValidator(cfg) /\ Vrb2NumQueueGroupsValidator(cfg)
  /\ Vrb1NumAqsPerGroupsValidator(cfg) /\ Vrb2NumQueuesPerOperationValidator(cfg)

Validate(cfg) == IF cfg.kind = "fec" THEN FecValidate(cfg) ELSE VrbValidate(cfg)

-----------------------------------------------------------------------------
(* BBDevConfig.Validate of the daemon: ACC200, ACC100, then N3000, or VRB1, *)
(* then VRB2; only the first section there is.                              *)
BBDevConfigValid(cfg) ==
  /\ ~HasAmbiguousBBDevConfigs(cfg)
  /\ LET order == IF cfg.kind = "fec" THEN <<"acc200", "acc100">> ELSE Sections("vrb")
         there == {i \in DOMAIN order : HasSection(cfg, order[i])}
     IN there # {} =>
          LET m == order[Min(there)]
          IN QueueGroups(m, cfg.sections[m]) <= MaxQueueGroups(m)

(* The model whose section is written, or an error. *)
GenerateBBDevConfigFile(cfg) ==
  LET order == Preferred(cfg.kind)
      there == {i \in DOMAIN order : HasSection(cfg, order[i])}
  IN IF BBDevConfigValid(cfg) /\ there # {} THEN order[Min(there)] ELSE "error"
=============================================================================
