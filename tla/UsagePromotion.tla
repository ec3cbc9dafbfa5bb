--------------------------- MODULE UsagePromotion ---------------------------
(***************************************************************************)
(* What aidad/selfimprove.py computes: the use counts of a usage log and   *)
(* the new order of models.yaml that _promote_popular_models derives from  *)
(* them.  No state.                                                        *)
(*                                                                         *)
(* A usage log is the sequence of its decodable lines.  A line is the id   *)
(* of a "model_used" event, or AgentLine for an "agent_invoked" event,     *)
(* which counts as an event but names no model.                            *)
(***************************************************************************)
EXTENDS ModelRegistry

CONSTANT AgentLine

ASSUME AgentLineAssumption == AgentLine \notin ModelId

Line == ModelId \cup {AgentLine}

\* model_counts[id], 0 for an id the log does not name.
UseCount(log, id) == Cardinality({n \in DOMAIN log : log[n] = id})

Used(log) == {log[n] : n \in DOMAIN log} \ {AgentLine}

\* Dictionary order: an id's key is inserted where the log first names it.
SeenBefore(log, a, b) ==
  \E n \in DOMAIN log : log[n] = a /\ \A m \in 1..n : log[m] # b

RanksByCount(log, a, b) ==   \* mutant: ties in any order
  UseCount(log, a) >= UseCount(log, b)

LeastUsedFirst(log, a, b) ==   \* mutant: reverse=True is missing
  \/ UseCount(log, a) < UseCount(log, b)
  \/ UseCount(log, a) = UseCount(log, b) /\ SeenBefore(log, a, b)

\* Order of "ranked": by count, descending; sorted() keeps ties in dict order.
RanksBefore(log, a, b) ==
  \/ UseCount(log, a) > UseCount(log, b)
  \/ UseCount(log, a) = UseCount(log, b) /\ SeenBefore(log, a, b)

KeptIfUsed(models, log) ==   \* mutant: unused entries are not appended
  {i \in DOMAIN models :
     /\ IdOf[models[i]] \in Used(log)
     /\ \A j \in DOMAIN models : IdOf[models[j]] = IdOf[models[i]] => j <= i}

(***************************************************************************)
(* The positions of models that survive: id_to_model keeps the last entry  *)
(* of a used id, and entries whose id was never used are appended as they  *)
(* are.                                                                    *)
(***************************************************************************)
Kept(models, log) ==
  {i \in DOMAIN models :
     \/ IdOf[models[i]] \notin Used(log)
     \/ \A j \in DOMAIN models : IdOf[models[j]] = IdOf[models[i]] => j <= i}

Precedes(models, log, i, j) ==
  LET a == IdOf[models[i]]
      b == IdOf[models[j]]
  IN  \/ a \in Used(log) /\ b \notin Used(log)
      \/ a \in Used(log) /\ b \in Used(log) /\ RanksBefore(log, a, b)
      \/ a \notin Used(log) /\ b \notin Used(log) /\ i < j

\* The one enumeration of the kept positions in that order, as a set.
Orders(models, log) ==
  LET kept == Kept(models, log)
      last == Cardinality(kept)
  IN  {f \in [1..last -> kept] :
         \A m, n \in 1..last : m < n => Precedes(models, log, f[m], f[n])}

\* The value of "reordered".
Reordered(models, order) == [n \in DOMAIN order |-> models[order[n]]]

\* The ids a models.yaml offers; an id may stand in several entries.
IdsOf(models) == {IdOf[models[i]] : i \in DOMAIN models}

\* models.yaml already is in the order this log asks for.
InPromotedOrder(models, log) ==
  \A order \in Orders(models, log) : Reordered(models, order) = models

=============================================================================
