--------------------------- MODULE ModelRegistry ---------------------------
(***************************************************************************)
(* The model registry (aidad/registry.py) and the choice the scheduler     *)
(* makes from it (aidad/scheduler.py).  No state: a registry is the        *)
(* sequence of entries loaded from config/models.yaml, in file order.      *)
(*                                                                         *)
(* An entry is a model value; the fields of it that scheduling looks at    *)
(* are constant functions, so that two entries may share an id (the same   *)
(* model offered by two providers).                                        *)
(***************************************************************************)
EXTENDS Integers, Sequences, FiniteSets

CONSTANTS
  Entry,      \* the entries that may appear in models.yaml
  ModelId,    \* the ids they carry
  Skill,      \* the skills a request may ask for
  IdOf,       \* [Entry -> ModelId]
  SkillsOf,   \* [Entry -> SUBSET Skill]
  VramOf,     \* [Entry -> Nat], requirements.vram_gb
  RamOf,      \* [Entry -> Nat], requirements.min_ram_gb
  CloudOf     \* [Entry -> BOOLEAN]

ASSUME EntryAssumption ==
  /\ IdOf \in [Entry -> ModelId]
  /\ SkillsOf \in [Entry -> SUBSET Skill]
  /\ VramOf \in [Entry -> Nat]
  /\ RamOf \in [Entry -> Nat]
  /\ CloudOf \in [Entry -> BOOLEAN]

\* What detect_hardware reports and select uses: free VRAM and free RAM.
HardwareInfo == [vram : Nat, ram : Nat]

\* The set of entries of a file, its order forgotten.
EntriesOf(reg) == {reg[i] : i \in DOMAIN reg}

(***************************************************************************)
(* by_skill filters the loaded entries; a candidate is a position of reg.  *)
(***************************************************************************)
BySkill(reg, skill, hw, allowCloud) ==
  {i \in DOMAIN reg :
     /\ skill \in SkillsOf[reg[i]]
     /\ VramOf[reg[i]] <= hw.vram
     /\ RamOf[reg[i]] <= hw.ram
     /\ allowCloud \/ ~CloudOf[reg[i]]}

SortsByPosition(reg, localFirst, i, j) ==   \* mutant: local_first is ignored
  i < j

\* The stable sort of by_skill: local before cloud if asked, then file order.
SortsBefore(reg, localFirst, i, j) ==
  IF localFirst /\ CloudOf[reg[i]] # CloudOf[reg[j]]
  THEN CloudOf[reg[j]]
  ELSE i < j

\* candidates[0]
IsFirst(reg, candidates, localFirst, i) ==
  /\ i \in candidates
  /\ \A j \in candidates \ {i} : SortsBefore(reg, localFirst, i, j)

=============================================================================
