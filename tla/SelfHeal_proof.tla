--------------------------- MODULE SelfHeal_proof ---------------------------
(***************************************************************************)
(* Proofs about SelfHeal, for any list of watched services.                *)
(***************************************************************************)
EXTENDS SelfHeal, SequenceTheorems, TLAPS

\* The checks of a pass are the services, then the three others.
LEMMA ChecksShape ==
  /\ Checks \in Seq(Service \cup Other)
  /\ Len(Watched) \in Nat /\ Len(Checks) = Len(Watched) + 3
  /\ \A i \in 1 .. Len(Watched) : Checks[i] = Watched[i] /\ Watched[i] \in Service
  /\ Checks[Len(Watched) + 1] = "nats"
  /\ Checks[Len(Watched) + 2] = "memory"
  /\ Checks[Len(Watched) + 3] = "disk"
<1> DEFINE tail == <<"nats", "memory", "disk">>
<1>1. Watched \in Seq(Service \cup Other) /\ Len(Watched) \in Nat
  BY HealAssumption
<1>2. tail \in Seq(Service \cup Other) /\ Len(tail) = 3
  BY DEF Other
<1>3. \A i \in 1 .. Len(Watched) : Watched[i] \in Service
  BY HealAssumption
<1>4. /\ Checks \in Seq(Service \cup Other)
      /\ Len(Checks) = Len(Watched) + 3
      /\ \A i \in 1 .. Len(Watched) + 3 :
           Checks[i] = IF i <= Len(Watched) THEN Watched[i]
                                            ELSE tail[i - Len(Watched)]
  BY <1>1, <1>2, ConcatProperties DEF Checks
<1>5. /\ (Len(Watched) + 1) - Len(Watched) = 1
      /\ (Len(Watched) + 2) - Len(Watched) = 2
      /\ (Len(Watched) + 3) - Len(Watched) = 3
  BY <1>1
<1> QED BY <1>1, <1>3, <1>4, <1>5

\* Every check is of a service or of one of the three others.
LEMMA CheckKinds ==
  ASSUME NEW i \in 1 .. Len(Checks)
  PROVE  /\ i <= Len(Watched) => Checks[i] \in Service
         /\ Checks[i] \in Service => i <= Len(Watched)
<1>1. i <= Len(Watched) => Checks[i] \in Service
  BY ChecksShape
<1>2. i > Len(Watched) => Checks[i] \in Other
  BY ChecksShape DEF Other
<1> QED BY <1>1, <1>2, ChecksShape, HealAssumption

-----------------------------------------------------------------------------

LEMMA TypeInit == Init => TypeOK
<1> SUFFICES ASSUME Init PROVE TypeOK
  OBVIOUS
<1>1. at \in 1 .. Len(Checks)
  BY ChecksShape DEF Init
<1>2. failed \subseteq Service
  BY DEF Init
<1>3. faults \in Nat /\ quiet \in BOOLEAN /\ lowMemory \in BOOLEAN
  BY DEF Init
<1>4. /\ nats \in {"running", "stopped", "absent"}
      /\ disk \in {"ample", "low", "full"}
      /\ pc \in {"look", "act", "log", "asleep", "down"}
  BY DEF Init
<1> QED BY <1>1, <1>2, <1>3, <1>4 DEF TypeOK

LEMMA TypeNext == TypeOK /\ [Next]_vars => TypeOK'
<1> SUFFICES ASSUME TypeOK, [Next]_vars PROVE TypeOK'
  OBVIOUS
<1> USE DEF TypeOK
<1>0. Len(Checks)' = Len(Checks) /\ 1 \in 1 .. Len(Checks)
      /\ (at # Len(Checks) => at + 1 \in 1 .. Len(Checks))
  BY ChecksShape DEF Checks
<1>1. ASSUME Advance PROVE pc' \in {"look", "asleep"} /\ at' \in 1 .. Len(Checks)
  BY <1>0, <1>1 DEF Advance
<1>2. ASSUME Die PROVE pc' = "down" /\ at' \in 1 .. Len(Checks)
  BY <1>2 DEF Die
<1>f. ASSUME Fault PROVE faults' \in Nat
  BY <1>f DEF Fault
<1>3. CASE Look
  BY <1>1, <1>3 DEF Look, machine
<1>4. CASE RestartService
  BY <1>4 DEF RestartService, Restart, StopContainer
<1>5. CASE RestartContainer
  BY <1>5 DEF RestartContainer
<1>6. CASE FreeMemory
  BY <1>1, <1>2, <1>6 DEF FreeMemory
<1>7. CASE WarnOfDisk
  BY <1>7 DEF WarnOfDisk, machine
<1>8. CASE LogAction
  BY <1>1, <1>2, <1>8 DEF LogAction, machine
<1>9. CASE StartPass
  BY <1>0, <1>9 DEF StartPass, machine
<1>10. CASE StartProcess
  BY <1>0, <1>10 DEF StartProcess
<1>11. ASSUME NEW service \in Service, ServiceFails(service) PROVE TypeOK'
  BY <1>f, <1>11 DEF ServiceFails, StopContainer
<1>12. CASE NatsStops
  BY <1>f, <1>12 DEF NatsStops
<1>13. CASE KillProcess
  BY <1>f, <1>13 DEF KillProcess, machine
<1>14. CASE MemoryChanges
  BY <1>14 DEF MemoryChanges
<1>15. CASE DiskChanges
  BY <1>15 DEF DiskChanges
<1>16. CASE UNCHANGED vars
  BY <1>16 DEF vars
<1> QED
  BY <1>3, <1>4, <1>5, <1>6, <1>7, <1>8, <1>9, <1>10, <1>11, <1>12, <1>13,
     <1>14, <1>15, <1>16 DEF Next, HealStep

\* Every variable of the self-heal daemon keeps its type, whatever it watches.
THEOREM Typing == Spec => []TypeOK
  BY TypeInit, TypeNext, PTL DEF Spec

-----------------------------------------------------------------------------

(***************************************************************************)
(* The pass has dealt with check i.                                        *)
(***************************************************************************)
Done(i) == pc = "asleep" \/ i < at \/ (pc = "log" /\ i = at)

Sound(target) ==
  target \notin failed /\ (target = "nats" => nats # "stopped")

\* While nothing fails, what the pass has dealt with stays repaired.
PassInv ==
  quiet /\ pc # "down" => \A i \in 1 .. Len(Checks) : Done(i) => Sound(Checks[i])

LEMMA PassImplies == TypeOK /\ PassInv => OnePassRepairsAll
<1> SUFFICES ASSUME TypeOK, PassInv, pc = "asleep", quiet
             PROVE  failed = {} /\ nats # "stopped"
  BY DEF OnePassRepairsAll
<1>1. \A i \in 1 .. Len(Checks) : Sound(Checks[i])
  BY DEF PassInv, Done
<1>2. nats # "stopped"
  BY <1>1, ChecksShape DEF Sound
<1>3. ASSUME NEW service \in Service PROVE service \notin failed
  <2>1. PICK i \in 1 .. Len(Watched) : service = Watched[i]
    BY HealAssumption DEF Service
  <2> QED BY <2>1, <1>1, ChecksShape DEF Sound
<1> QED BY <1>2, <1>3 DEF TypeOK

LEMMA PassInit == Init => PassInv
  BY DEF Init, PassInv

LEMMA PassNext == TypeOK /\ TypeOK' /\ PassInv /\ [Next]_vars => PassInv'
<1> SUFFICES ASSUME TypeOK, TypeOK', PassInv, [Next]_vars,
                    quiet', pc' # "down",
                    NEW i \in 1 .. Len(Checks), Done(i)'
             PROVE  Sound(Checks[i])'
  BY DEF PassInv, Checks
<1>t. at \in 1 .. Len(Checks) /\ i \in Nat /\ at \in Nat
  BY ChecksShape DEF TypeOK
<1>a. ASSUME Advance, quiet, pc # "asleep" PROVE Done(i) \/ i = at
  BY <1>a, <1>t, ChecksShape DEF Advance, Done, TypeOK
<1>b. ASSUME Done(i), quiet, pc # "down" PROVE Sound(Checks[i])
  BY <1>b DEF PassInv
<1>1. CASE Look
  <2>1. Done(i) \/ (i = at /\ ~NeedsAction(Checks[at]))
    BY <1>1, <1>a, <1>t DEF Look, Done
  <2>2. Sound(Checks[i])
    BY <2>1, <1>b, <1>1 DEF Look, NeedsAction, Sound, ContainerRunning
  <2> QED BY <1>1, <2>2 DEF Look, machine, Sound, Checks
<1>2. CASE RestartService
  <2>1. Checks[at] \in Service /\ at <= Len(Watched) /\ i <= at
    BY <1>2, <1>t, CheckKinds DEF RestartService, Restart, Done
  <2>2. Checks[i] \in Service
    BY <2>1, <1>t, CheckKinds, ChecksShape
  <2>3. Checks[i] # "nats"
    BY <2>2, HealAssumption DEF Other
  <2>4. CASE i = at
    BY <1>2, <2>3, <2>4 DEF RestartService, Restart, Sound, Checks
  <2>5. CASE i # at
    <3>1. Done(i)
      BY <1>2, <2>1, <2>5, <1>t DEF Done
    <3>2. Checks[i] \notin failed
      BY <3>1, <1>2, <1>b DEF RestartService, Sound
    <3> QED BY <1>2, <2>3, <3>2 DEF RestartService, Restart, Sound, Checks
  <2> QED BY <2>4, <2>5
<1>3. CASE RestartContainer
  <2>1. i <= at /\ pc = "act" /\ Checks[at] = "nats" /\ quiet
    BY <1>3, <1>t DEF RestartContainer, Done
  <2>2. at = Len(Watched) + 1
    <3>1. Checks[at] \notin Service
      BY <2>1, HealAssumption DEF Other
    <3>2. at # Len(Watched) + 2 /\ at # Len(Watched) + 3
      BY <2>1, ChecksShape
    <3> QED BY <3>1, <3>2, <1>t, ChecksShape
  <2>3. \A j \in 1 .. Len(Watched) : Watched[j] \notin failed
    <3> TAKE j \in 1 .. Len(Watched)
    <3>1. j \in 1 .. Len(Checks) /\ Done(j)
      BY <2>2, ChecksShape DEF Done
    <3> QED BY <3>1, <2>1, ChecksShape DEF PassInv, Sound
  <2>4. Docker \notin failed
    BY <2>3, HealAssumption DEF Service
  <2>5. nats' # "stopped"
    BY <1>3, <2>4 DEF RestartContainer
  <2>6. CASE i = at
    BY <1>3, <2>1, <2>5, <2>6, HealAssumption
       DEF RestartContainer, Sound, Checks, TypeOK, Other
  <2>7. CASE i # at
    <3>1. Done(i)
      BY <2>1, <2>7, <1>t DEF Done
    <3> QED BY <1>3, <1>b, <2>1, <2>5, <3>1 DEF RestartContainer, Sound, Checks
  <2> QED BY <2>6, <2>7
<1>4. CASE FreeMemory
  <2>1. Checks[at] = "memory" /\ pc = "act" /\ quiet
        /\ failed' = failed /\ nats' = nats
    BY <1>4 DEF FreeMemory
  <2>2. Done(i) \/ i = at
    BY <1>4, <2>1, <1>a, <1>t DEF FreeMemory, Die, Done
  <2>3. CASE i = at
    BY <2>1, <2>3, HealAssumption DEF Sound, Checks, TypeOK, Other
  <2>4. CASE Done(i)
    BY <2>1, <2>4, <1>b DEF Sound, Checks
  <2> QED BY <2>2, <2>3, <2>4
<1>5. CASE WarnOfDisk
  <2>1. Checks[at] = "disk" /\ pc = "act" /\ quiet
        /\ failed' = failed /\ nats' = nats
    BY <1>5 DEF WarnOfDisk, machine
  <2>2. Done(i) \/ i = at
    BY <1>5, <1>t DEF WarnOfDisk, Done
  <2>3. CASE i = at
    BY <2>1, <2>3, HealAssumption DEF Sound, Checks, TypeOK, Other
  <2>4. CASE Done(i)
    BY <2>1, <2>4, <1>b DEF Sound, Checks
  <2> QED BY <2>2, <2>3, <2>4
<1>6. CASE LogAction
  <2>1. Done(i) /\ quiet /\ failed' = failed /\ nats' = nats /\ pc = "log"
    BY <1>6, <1>a, <1>t DEF LogAction, machine, Die, Done
  <2> QED BY <2>1, <1>b DEF Sound, Checks
<1>7. CASE StartPass \/ StartProcess
  BY <1>7, <1>t DEF StartPass, StartProcess, Done
<1>8. ASSUME NEW service \in Service, ServiceFails(service) PROVE FALSE
  BY <1>8 DEF ServiceFails
<1>9. CASE NatsStops \/ KillProcess
  BY <1>9 DEF NatsStops, KillProcess
<1>10. CASE MemoryChanges \/ DiskChanges \/ UNCHANGED vars
  <2>1. Done(i) /\ quiet /\ pc # "down" /\ failed' = failed /\ nats' = nats
    BY <1>10 DEF MemoryChanges, DiskChanges, vars, Done
  <2> QED BY <2>1, <1>b DEF Sound, Checks
<1> QED
  BY <1>1, <1>2, <1>3, <1>4, <1>5, <1>6, <1>7, <1>8, <1>9, <1>10
     DEF Next, HealStep

(***************************************************************************)
(* Whatever services are watched and in whatever order, one pass during    *)
(* which nothing fails leaves no service failed and nats not stopped.      *)
(***************************************************************************)
THEOREM OnePass == Spec => []OnePassRepairsAll
<1>1. Init => PassInv
  BY PassInit
<1>2. TypeOK /\ TypeOK' /\ PassInv /\ [Next]_vars => PassInv'
  BY PassNext
<1>3. TypeOK /\ PassInv => OnePassRepairsAll
  BY PassImplies
<1> QED BY <1>1, <1>2, <1>3, Typing, PTL DEF Spec

=============================================================================
