------------------------------ MODULE MCSeeder ------------------------------
(* A small instance of Seeder for TLC. *)
EXTENDS Seeder

CONSTANTS qwen, llava

TwoModels == {qwen, llava}
OwnFiles == [m \in TwoModels |-> m]
InOrder == <<qwen, llava>>

=============================================================================
