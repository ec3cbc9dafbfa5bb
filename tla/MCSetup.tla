------------------------------ MODULE MCSetup ------------------------------
(***************************************************************************)
(* A small instance of Setup for TLC: up to three models of the shipped    *)
(* models.yaml with its requirements, of which deepseek-r1:1.5b stands for *)
(* what every machine gets.  With two, coder is also what is recommended   *)
(* for general use, which nobody asks for there.                           *)
(***************************************************************************)
EXTENDS Setup

CONSTANTS deepseek, coder, qwen,   \* models
          console, desktop         \* login shells

ThreeModels == {deepseek, coder, qwen}
TwoModels == {deepseek, coder}
OwnFiles == [m \in Model |-> m]
OneStarter == <<coder>>
OnEveryMachine == <<deepseek>>

MCSkillsOf ==
  [m \in Model |-> IF m = coder THEN {"general", "coding"} ELSE {"general"}]
MCVramOf == [m \in Model |-> IF m = deepseek THEN 2 ELSE 5]
MCRamOf == [m \in Model |-> IF m = deepseek THEN 4 ELSE 8]

OneShell == {console}
TwoShells == {console, desktop}

\* On both sides of the recommender's thresholds, and without a GPU.
EnoughRam == [vram |-> 0, ram |-> 8]
SmallGpu == [vram |-> 4, ram |-> 7]
Boundaries == {SmallGpu, EnoughRam}
WithoutGpu == {EnoughRam}

\* What users say, where it matters: nothing, or in the end that they code,
\* and then an answer to the question of privacy, too, or none.
Undecided == {[q \in {} |-> {}]}
PrivateOrNot ==
  {[q \in asked |-> IF q = "extra" THEN {"coding"} ELSE {}] :
     asked \in {{"extra"}, {"extra", "privacy"}}}

\* A cloud AI that cuts the machine off and recommends nothing to pull.
CutOff == {[privacy |-> "paranoid", airGapped |-> TRUE, pull |-> <<>>]}

OneModel == {coder}

=============================================================================
