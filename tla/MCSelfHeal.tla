----------------------------- MODULE MCSelfHeal -----------------------------
(* The four watched services of selfheal.py for TLC. *)
EXTENDS SelfHeal

CONSTANTS ollama, network

WatchedServices == <<Aidad, ollama, Docker, network>>

=============================================================================
