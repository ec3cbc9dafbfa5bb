------------------------------ MODULE SelfHeal ------------------------------
(***************************************************************************)
(* The self-heal daemon (aidad/selfheal.py) as systemd runs it             *)
(* (aida-selfheal.service): heal_loop looks at the watched services, then  *)
(* at the nats container, the memory and the disk, and repairs what it     *)
(* finds.  Each repair is followed by a line in selfheal.log; a line that  *)
(* cannot be written raises out of heal_loop, and systemd starts the       *)
(* process again.  Services, containers, memory and disk may change        *)
(* between any two steps.                                                  *)
(***************************************************************************)
EXTENDS Integers, Sequences

CONSTANTS
  Watched,    \* the .service entries of _WATCHED_SERVICES, in their order
  Aidad,      \* aidad.service
  Docker,     \* docker.service
  MaxFaults   \* bound: services or nats failing, and kills, together

Service == {Watched[i] : i \in DOMAIN Watched}
Other == {"nats", "memory", "disk"}

ASSUME HealAssumption ==
  /\ Watched \in Seq(Service)
  /\ Aidad \in Service /\ Docker \in Service /\ Aidad # Docker
  /\ Service \cap Other = {}
  /\ MaxFaults \in Nat

VARIABLES
  failed,     \* the services systemd reports as failed
  nats,       \* the nats container: "running", "stopped" or "absent"
  lowMemory,  \* less than _LOW_MEMORY_MB is available
  disk,       \* "ample", "low" (below 1 GB) or "full" (writes fail)
  pc,         \* heal_loop: "look", "act", "log", "asleep", or "down"
  at,         \* which check heal_loop is at
  quiet,      \* history: nothing failed since the pass began
  faults      \* history: number of faults

vars == <<failed, nats, lowMemory, disk, pc, at, quiet, faults>>
machine == <<failed, nats, lowMemory, disk>>

NatsFirst == <<"nats">> \o Watched \o <<"memory", "disk">>   \* mutant: order

\* What a pass looks at, in this order.
Checks == Watched \o <<"nats", "memory", "disk">>

Init ==
  /\ failed = {} /\ nats \in {"running", "absent"}
  /\ lowMemory = FALSE /\ disk = "ample"
  /\ pc = "down" /\ at = 1 /\ quiet = FALSE
  /\ faults = 0

-----------------------------------------------------------------------------
(* heal_loop *)

\* docker inspect prints "true".
ContainerRunning == Docker \notin failed /\ nats = "running"

NatsIsAUnit(target) ==   \* mutant: nats is asked for with systemctl is-failed
  \/ target \in failed
  \/ target = "memory" /\ lowMemory
  \/ target = "disk" /\ disk # "ample"

NeedsAction(target) ==
  \/ target \in failed
  \/ target = "nats" /\ ~ContainerRunning
  \/ target = "memory" /\ lowMemory
  \/ target = "disk" /\ disk # "ample"

OneTooFar ==   \* mutant: off by one at the end of a pass
  IF at > Len(Checks) THEN pc' = "asleep" /\ at' = 1
                      ELSE pc' = "look" /\ at' = at + 1

\* On to the next check, or to sleep after the last.
Advance ==
  IF at = Len(Checks) THEN pc' = "asleep" /\ at' = 1
                      ELSE pc' = "look" /\ at' = at + 1

\* The exception leaves heal_loop and the process ends.
Die == pc' = "down" /\ UNCHANGED at

Look ==
  /\ pc = "look"
  /\ IF NeedsAction(Checks[at]) THEN pc' = "act" /\ UNCHANGED at ELSE Advance
  /\ UNCHANGED <<machine, quiet, faults>>

StopContainer == nats' = IF nats = "running" THEN "stopped" ELSE nats

(***************************************************************************)
(* systemctl restart, whether or not the service is still failed.  Docker  *)
(* stops its containers.  aida-selfheal.service Requires=aidad.service and *)
(* comes After= it: restarting aidad stops this process first, before      *)
(* systemctl returns to it.                                                *)
(***************************************************************************)
LogFirst(service) ==   \* mutant: the log line comes before the restart
  /\ failed' = IF disk = "full" THEN failed ELSE failed \ {service}
  /\ IF service = Docker THEN StopContainer ELSE UNCHANGED nats
  /\ pc' = IF disk = "full" THEN "down" ELSE "log"

Restart(service) ==
  /\ failed' = failed \ {service}
  /\ IF service = Docker THEN StopContainer ELSE UNCHANGED nats
  /\ pc' = IF service = Aidad THEN "down" ELSE "log"

RestartService ==
  /\ pc = "act" /\ Checks[at] \in Service
  /\ Restart(Checks[at])
  /\ UNCHANGED <<at, lowMemory, disk, quiet, faults>>

\* docker restart nats; its exit code is not looked at.
RestartContainer ==
  /\ pc = "act" /\ Checks[at] = "nats"
  /\ nats' = IF Docker \notin failed /\ nats = "stopped" THEN "running" ELSE nats
  /\ pc' = "log"
  /\ UNCHANGED <<at, failed, lowMemory, disk, quiet, faults>>

\* Writing to drop_caches helps or not; or it is refused, which is ignored
\* if it is a PermissionError and ends the process if it is not.
FreeMemory ==
  /\ pc = "act" /\ Checks[at] = "memory"
  /\ \/ lowMemory' \in {lowMemory, FALSE} /\ pc' = "log" /\ UNCHANGED at
     \/ UNCHANGED lowMemory /\ Advance
     \/ UNCHANGED lowMemory /\ Die
  /\ UNCHANGED <<failed, nats, disk, quiet, faults>>

\* Nothing is done about the disk but to say so.
WarnOfDisk ==
  /\ pc = "act" /\ Checks[at] = "disk"
  /\ pc' = "log"
  /\ UNCHANGED <<machine, at, quiet, faults>>

\* _log_action
LogAction ==
  /\ pc = "log"
  /\ IF disk = "full" THEN Die ELSE Advance
  /\ UNCHANGED <<machine, quiet, faults>>

\* The 30 seconds are over.
StartPass ==
  /\ pc = "asleep"
  /\ pc' = "look" /\ at' = 1 /\ quiet' = TRUE
  /\ UNCHANGED <<machine, faults>>

\* systemd starts the process (Restart=always), and aidad with it (Requires=).
StartProcess ==
  /\ pc = "down"
  /\ pc' = "look" /\ at' = 1 /\ quiet' = TRUE
  /\ failed' = failed \ {Aidad}
  /\ UNCHANGED <<nats, lowMemory, disk, faults>>

HealStep ==
  \/ Look \/ RestartService \/ RestartContainer \/ FreeMemory \/ WarnOfDisk
  \/ LogAction \/ StartPass \/ StartProcess

-----------------------------------------------------------------------------
(* The machine *)

Fault == faults < MaxFaults /\ faults' = faults + 1

ServiceFails(service) ==
  /\ Fault
  /\ failed' = failed \cup {service}
  /\ IF service = Docker THEN StopContainer ELSE UNCHANGED nats
  /\ quiet' = FALSE
  /\ UNCHANGED <<lowMemory, disk, pc, at>>

NatsStops ==
  /\ nats = "running" /\ Fault
  /\ nats' = "stopped"
  /\ quiet' = FALSE
  /\ UNCHANGED <<failed, lowMemory, disk, pc, at>>

KillProcess ==
  /\ pc # "down" /\ Fault
  /\ pc' = "down"
  /\ UNCHANGED <<machine, at, quiet>>

MemoryChanges ==
  /\ lowMemory' = ~lowMemory
  /\ UNCHANGED <<failed, nats, disk, pc, at, quiet, faults>>

DiskChanges ==
  /\ disk' \in {"ample", "low", "full"} \ {disk}
  /\ UNCHANGED <<failed, nats, lowMemory, pc, at, quiet, faults>>

Next ==
  \/ HealStep
  \/ \E service \in Service : ServiceFails(service)
  \/ NatsStops \/ KillProcess \/ MemoryChanges \/ DiskChanges

\* heal_loop takes its next step, its sleep ends, systemd restarts it.
Spec == Init /\ [][Next]_vars
FairSpec == Spec /\ WF_vars(HealStep)

-----------------------------------------------------------------------------
(* Properties *)

\* Every variable has its type.
TypeOK ==
  /\ failed \subseteq Service
  /\ nats \in {"running", "stopped", "absent"}
  /\ lowMemory \in BOOLEAN
  /\ disk \in {"ample", "low", "full"}
  /\ pc \in {"look", "act", "log", "asleep", "down"}
  /\ at \in 1 .. Len(Checks)
  /\ quiet \in BOOLEAN /\ faults \in Nat

(***************************************************************************)
(* One pass is enough: if nothing failed while it ran, no watched service  *)
(* is failed and nats runs (unless there is no such container), although   *)
(* docker restart can do nothing while Docker is failed and restarting     *)
(* Docker stops nats (selfheal.py 109-117: services come first).           *)
(***************************************************************************)
OnePassRepairsAll ==
  pc = "asleep" /\ quiet => failed = {} /\ nats # "stopped"

(***************************************************************************)
(* A failed service is restarted even while the disk is full and every     *)
(* line for selfheal.log kills the process: the restart comes before the   *)
(* line (selfheal.py 67-68), and the next process finds one failed service *)
(* less.                                                                   *)
(***************************************************************************)
ServicesRepaired ==
  \A service \in Service : service \in failed ~> service \notin failed

\* So is a stopped nats container (selfheal.py 82-83, 115-117).
NatsRepaired == nats = "stopped" ~> nats = "running"

=============================================================================
