---------------------------- MODULE Recommender ----------------------------
(***************************************************************************)
(* What setup/recommender.py recommends without a cloud AI: a UserProfile  *)
(* from keywords in the conversation and from what memory is free.  No     *)
(* state.                                                                  *)
(*                                                                         *)
(* A conversation is a function from the answered questions to the words   *)
(* the answer contains.  A word stands for the keywords of one rule, which *)
(* are matched anywhere in the text ("air" also in "Claire").  No rule     *)
(* looks for the levels of privacy.  Memory is in whole GB, to which the   *)
(* comparisons with whole numbers of the code are indifferent.             *)
(***************************************************************************)
EXTENDS Integers, Sequences

CONSTANTS
  Model,         \* ids of models
  Always,        \* what is pulled on every machine, in order
  CodingModel,   \* pulled if there is room
  GeneralModel   \* pulled, too, if there is room and use for it

Use == {"coding", "research", "sysadmin", "gaming"}
Level == {"standard", "high", "paranoid"}
Word == Use \cup {"privacy", "air"}

Question == {"name", "use_cases", "skill", "privacy", "desktop", "theme", "extra"}

\* The words the questions themselves contain.
Asks == [q \in Question |->
  CASE q = "use_cases" -> Use
    [] q = "privacy" -> {"privacy"}
    [] OTHER -> {}]

UserProfile == [privacy : Level, airGapped : BOOLEAN, pull : Seq(Model)]

\* The text that is searched: every answered question with its answer.
Text(said) == UNION {Asks[q] \cup said[q] : q \in DOMAIN said}

UseCases(said) ==
  LET named == Text(said) \cap Use
  IN  IF named = {} THEN {"general"} ELSE named

\* There is room for a model of 7 billion parameters.
RoomForSevenB(hw) == hw.vram >= 5 \/ hw.ram >= 8

ToPull(hw, said) ==
  IF ~RoomForSevenB(hw) THEN Always
  ELSE IF UseCases(said) \cap {"research", "general"} = {}
  THEN Always \o <<CodingModel>>
  ELSE Always \o <<CodingModel, GeneralModel>>

RuleBased(hw, said) ==
  [privacy |-> IF Text(said) \cap {"privacy", "air"} # {}
               THEN "paranoid" ELSE "high",
   airGapped |-> "air" \in Text(said),
   pull |-> ToPull(hw, said)]

=============================================================================
