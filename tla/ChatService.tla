---------------------------- MODULE ChatService ----------------------------
(***************************************************************************)
(* What aida-chat promises its users (aidad/chat.py, chat_loop): a prompt  *)
(* is followed by exactly one outcome before the next prompt is read, an   *)
(* answer is an answer to that prompt, and the conversation kept is the    *)
(* last Exchanges completed exchanges, in order.                           *)
(***************************************************************************)
EXTENDS Integers, Sequences

CONSTANTS
  Chat,       \* the terminals running aida-chat
  Exchanges   \* how many exchanges are kept

VARIABLES
  busy,    \* [Chat -> BOOLEAN], a prompt is being worked on
  prompt,  \* [Chat -> Nat], the number of the last prompt
  recent   \* [Chat -> Seq(<<prompt, the prompt the reply answers>>)]

vars == <<busy, prompt, recent>>

Init ==
  /\ busy = [c \in Chat |-> FALSE]
  /\ prompt = [c \in Chat |-> 0]
  /\ recent = [c \in Chat |-> <<>>]

Ask(c) ==
  /\ ~busy[c]
  /\ busy' = [busy EXCEPT ![c] = TRUE]
  /\ prompt' = [prompt EXCEPT ![c] = @ + 1]
  /\ UNCHANGED recent

LastOf(s, n) == IF Len(s) <= n THEN s ELSE SubSeq(s, Len(s) - n + 1, Len(s))

Answer(c) ==
  /\ busy[c]
  /\ busy' = [busy EXCEPT ![c] = FALSE]
  /\ recent' = [recent EXCEPT
       ![c] = LastOf(Append(@, <<prompt[c], prompt[c]>>), Exchanges)]
  /\ UNCHANGED prompt

Fail(c) ==
  /\ busy[c]
  /\ busy' = [busy EXCEPT ![c] = FALSE]
  /\ UNCHANGED <<prompt, recent>>

\* The terminal is closed and opened again: nothing persists.
NewSession(c) ==
  /\ busy' = [busy EXCEPT ![c] = FALSE]
  /\ recent' = [recent EXCEPT ![c] = <<>>]
  /\ UNCHANGED prompt

Next == \E c \in Chat : Ask(c) \/ Answer(c) \/ Fail(c) \/ NewSession(c)

\* A prompt does not stay without an outcome.
Fairness ==
  \A c \in Chat :
    WF_vars(busy[c] /\ (Answer(c) \/ Fail(c) \/ NewSession(c)))

Spec == Init /\ [][Next]_vars /\ Fairness

=============================================================================
