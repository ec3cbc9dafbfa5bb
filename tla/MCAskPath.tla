----------------------------- MODULE MCAskPath -----------------------------
(* Small instances of AskPath for TLC. *)
EXTENDS AskPath

CONSTANTS alice, bob

OneChat == {alice}
TwoChats == {alice, bob}
LocalOnly == {"local"}
AnyModel == {"local", "cloud"}

Terminals == Permutations(TwoChats)

=============================================================================
