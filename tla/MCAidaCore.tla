----------------------------- MODULE MCAidaCore -----------------------------
(***************************************************************************)
(* Small instances of AidaCore for TLC: two local models, a cloud one,     *)
(* and mirror, which offers small through a cloud provider under its id.   *)
(***************************************************************************)
EXTENDS AidaCore, TLC

CONSTANTS small, big, cloud, mirror,   \* entries
          inproc, standalone           \* improvers

MCEntry == {small, big, cloud, mirror}
MCModelId == {"small", "big", "cloud"}
MCSkill == {"general", "coding"}

MCIdOf ==
  small :> "small" @@ big :> "big" @@ cloud :> "cloud" @@ mirror :> "small"
MCSkillsOf ==
  [e \in MCEntry |-> IF e = big THEN {"general"} ELSE {"general", "coding"}]

\* For two improvers: a single skill, which only small and cloud have.
OneSkill == {"coding"}
AllCoding == [e \in MCEntry |-> IF e = big THEN {} ELSE {"coding"}]

MCVramOf == [e \in MCEntry |-> IF e = big THEN 5 ELSE IF e = small THEN 2 ELSE 0]
MCRamOf == [e \in MCEntry |-> IF e = small THEN 4 ELSE 0]
MCCloudOf == [e \in MCEntry |-> e \in {cloud, mirror}]

\* Versions of models.yaml: the user lists the cloud model or removes it, or
\* has another model in its place, or offers one model twice.
AllThree == {<<cloud, big, small>>}
DropsCloud == {<<cloud, big, small>>, <<big, small>>}
SwapsCloud == {<<cloud, small>>, <<big, small>>}
RepeatsId == {<<cloud, big, small>>, <<small, big, mirror>>}

\* A machine with nothing loaded and with no room at all.
Roomy == [vram |-> 8, ram |-> 8]
AllTaken == [vram |-> 0, ram |-> 2]
OneHardware == {Roomy}
TwoHardware == {Roomy, AllTaken}

Default == [airGapped |-> FALSE, localFirst |-> TRUE]
OneSettings == {Default}
CloudFirst == {[airGapped |-> FALSE, localFirst |-> FALSE]}
AirGapSettings == {Default, [airGapped |-> TRUE, localFirst |-> TRUE]}

OneImprover == {inproc}
TwoImprovers == {inproc, standalone}

=============================================================================
