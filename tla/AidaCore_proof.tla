--------------------------- MODULE AidaCore_proof ---------------------------
(***************************************************************************)
(* Theorems about AidaCore, for every set of entries, improvers, versions, *)
(* settings and hardware, and every value of the bounds.                   *)
(***************************************************************************)
EXTENDS AidaCore, Promotion_proof, SequenceTheorems

-----------------------------------------------------------------------------
(* Types *)

LEMMA FrontType ==
  ASSUME NEW S, NEW s \in Seq(S)
  PROVE  /\ Front(s) \in Seq(S)
         /\ s # <<>> => /\ Len(Front(s)) = Len(s) - 1
                       /\ Last(s) \in S
<1>1. CASE s = <<>>
  BY <1>1 DEF Front
<1>2. CASE s # <<>>
  <2> DEFINE n == Len(s) - 1
  <2>1. n \in Nat /\ n <= Len(s) /\ Len(s) \in 1..Len(s)
    BY <1>2
  <2>2. SubSeq(s, 1, n) \in Seq(S) /\ Len(SubSeq(s, 1, n)) = n
    <3>1. n \in Int /\ 1 \in Int /\ \A i \in 1..n : s[i] \in S
      BY <2>1
    <3> HIDE DEF n
    <3>2. 1 <= n \/ n = 0
      BY <2>1
    <3>3. Len(SubSeq(s, 1, n)) = n
      BY <2>1, <3>1, <3>2, SubSeqProperties
    <3> QED
      BY <3>1, <3>3, SubSeqProperties
  <2>3. s[Len(s)] \in S
    BY <2>1
  <2> QED
    BY <2>2, <2>3 DEF Front, Last
<1> QED
  BY <1>1, <1>2

LEMMA OverlaidType ==
  ASSUME NEW new \in Seq(Entry), NEW old \in Seq(Entry),
         NEW m \in Overlaid(new, old)
  PROVE  m \in Seq(Entry)
<1>0. PICK k \in DOMAIN old :
        m \in {Append(Front(new), e) \o SubSeq(old, k + 1, Len(old)) :
                e \in Blends(Last(new), old[k])}
  BY DEF Overlaid
<1>1. PICK e \in Blends(Last(new), old[k]) :
        m = Append(Front(new), e) \o SubSeq(old, k + 1, Len(old))
  BY <1>0
<1>2. e \in Entry
  BY DEF Blends
<1>3. Append(Front(new), e) \in Seq(Entry)
  BY <1>2, FrontType
<1>4. k \in 1..Len(old) /\ Len(old) \in Nat
  OBVIOUS
<1>5. SubSeq(old, k + 1, Len(old)) \in Seq(Entry)
  BY <1>4
<1> QED
  BY <1>1, <1>3, <1>5

LEMMA WriteTextType ==
  ASSUME models \in [intact : BOOLEAN, entries : Seq(Entry)],
         collided \in BOOLEAN,
         NEW new \in Seq(Entry), WriteText(new)
  PROVE  /\ models' \in [intact : BOOLEAN, entries : Seq(Entry)]
         /\ collided' \in BOOLEAN
<1>1. models.entries \in Seq(Entry)
  OBVIOUS
<1>2. CASE models' = File(new) /\ UNCHANGED collided
  BY <1>2 DEF File
<1>3. CASE models' = [intact |-> FALSE, entries |-> new \o models.entries]
             /\ collided' = TRUE
  BY <1>1, <1>3
<1>4. ASSUME NEW m \in Overlaid(new, models.entries), models' = File(m),
             collided' = TRUE
      PROVE  /\ models' \in [intact : BOOLEAN, entries : Seq(Entry)]
             /\ collided' \in BOOLEAN
  BY <1>1, <1>4, OverlaidType DEF File
<1> QED
  BY <1>2, <1>3, <1>4 DEF WriteText

LEMMA InitTypeOK == Init => TypeOK
<1> SUFFICES ASSUME Init PROVE TypeOK
  OBVIOUS
<1>1. PICK v \in Versions, s \in SettingsFiles, h \in Hardware :
        /\ models = File(v) /\ lastEdit = v
        /\ settings = s /\ hardware = h
        /\ snapshot = SnapshotOf(<<>>, <<>>, h, s)
  BY DEF Init
<1>2. v \in Seq(Entry) /\ s \in Settings /\ h \in HardwareInfo
  BY CoreAssumption
<1>3. /\ models \in [intact : BOOLEAN, entries : Seq(Entry)]
      /\ lastEdit \in Seq(Entry)
      /\ settings \in Settings /\ hardware \in HardwareInfo
  BY <1>1, <1>2 DEF File
<1>4. snapshot \in [registry : Seq(Entry), order : Seq(Line),
                   hardware : HardwareInfo, settings : Settings]
  BY <1>1, <1>2 DEF SnapshotOf
<1>5. improver \in [Improver -> ImproverState]
  BY DEF Init, Asleep, Dead, ImproverState
<1>6. faults \in Faults
  BY DEF Init, Faults
<1>7. /\ up \in BOOLEAN /\ recording \in BOOLEAN /\ collided \in BOOLEAN
      /\ decision \subseteq Decision
  BY Zenon DEF Init
<1>8. /\ usage \in Seq(Line) /\ tail \in {"whole", "half", "open"}
      /\ diskOrder \in Seq(Line)
      /\ served \in Nat /\ unlogged \in Int /\ edits \in Nat
  BY DEF Init
<1> QED
  BY <1>3, <1>4, <1>5, <1>6, <1>7, <1>8, Zenon DEF TypeOK

LEMMA NextTypeOK == TypeOK /\ [Next]_vars => TypeOK'
<1> SUFFICES ASSUME TypeOK, [Next]_vars
             PROVE  TypeOK'
  OBVIOUS
<1> USE DEF TypeOK, file, world, daemon, log, user
<1> DEFINE pcs == {"asleep", "readConfig", "truncate", "write", "log",
                   "advise", "dead"}
<1>f. ASSUME NEW kind \in {"kill", "usage", "log"}, Fault(kind)
      PROVE  faults' \in Faults
  <2>1. faults' = [faults EXCEPT ![kind] = @ + 1]
    BY <1>f DEF Fault
  <2>2. CASE kind = "kill"
    <3>1. faults' = [faults EXCEPT !.kill = faults.kill + 1]
      BY <2>1, <2>2
    <3>2. faults.kill + 1 \in Nat
      BY DEF Faults
    <3> QED
      BY <3>1, <3>2 DEF Faults
  <2>3. CASE kind = "usage"
    <3>1. faults' = [faults EXCEPT !.usage = faults.usage + 1]
      BY <2>1, <2>3
    <3>2. faults.usage + 1 \in Nat
      BY DEF Faults
    <3> QED
      BY <3>1, <3>2 DEF Faults
  <2>4. CASE kind = "log"
    <3>1. faults' = [faults EXCEPT !.log = faults.log + 1]
      BY <2>1, <2>4
    <3>2. faults.log + 1 \in Nat
      BY DEF Faults
    <3> QED
      BY <3>1, <3>2 DEF Faults
  <2> QED
    BY <2>2, <2>3, <2>4
<1>g. ASSUME NEW p \in Improver, NEW pc \in pcs, Goto(p, pc)
      PROVE  improver' \in [Improver -> ImproverState]
  BY <1>g DEF Goto, ImproverState
<1>b. ASSUME NEW p \in Improver, NEW st \in ImproverState, Become(p, st)
      PROVE  improver' \in [Improver -> ImproverState]
  BY <1>b DEF Become
<1>d. Dead \in ImproverState /\ Asleep \in ImproverState
  BY DEF Dead, Asleep, ImproverState
<1> DEFINE tails == {"whole", "half", "open"}
<1>c. Closed \in Seq(Line)
  BY FrontType DEF Closed
<1>u. ASSUME NEW line \in Line, RecordUsage(line)
      PROVE  usage' \in Seq(Line) /\ tail' \in tails
  <2>1. usage' = Closed \/ usage' = Append(usage, line)
    BY <1>u, Zenon DEF RecordUsage
  <2>2. Append(usage, line) \in Seq(Line)
    OBVIOUS
  <2>3. tail' = "whole"
    BY <1>u DEF RecordUsage
  <2>4. usage' \in Seq(Line)
    BY <1>c, <2>1, <2>2
  <2> QED
    BY <2>3, <2>4
<1>v. ASSUME NEW line \in Line, RecordUsageFails(line)
      PROVE  usage' \in Seq(Line) /\ tail' \in tails /\ faults' \in Faults
  <2>1. \/ UNCHANGED <<usage, tail>>
        \/ usage' = Closed /\ tail' = "half"
        \/ usage' = Append(usage, line) /\ tail' = "open"
    BY <1>v DEF RecordUsageFails
  <2>2. Append(usage, line) \in Seq(Line)
    OBVIOUS
  <2>3. usage' \in Seq(Line)
    BY <1>c, <2>1, <2>2
  <2>4. tail' \in tails
    BY <2>1
  <2> QED
    BY <1>f, <1>v, <2>3, <2>4 DEF RecordUsageFails
<1>1. CASE StartDaemon
  BY <1>1, <1>d, CoreAssumption DEF StartDaemon, SnapshotOf
<1>2. CASE KillDaemon
  BY <1>2, <1>d, <1>f, CoreAssumption DEF KillDaemon
<1>3. ASSUME NEW s \in Skill, NEW b \in BOOLEAN, Schedule(s, b)
      PROVE  TypeOK'
  <2>1. PICK i \in Candidates(s, b) :
          /\ decision' = {[position |-> i, skill |-> s, requireLocal |-> b]}
          /\ served' = served + 1
          /\ \/ /\ RecordUsage(IdOf[snapshot.registry[i]])
                /\ recording' = TRUE
                /\ UNCHANGED faults
             \/ /\ RecordUsageFails(IdOf[snapshot.registry[i]])
                /\ UNCHANGED recording
    BY <1>3 DEF Schedule
  <2>2. i \in Nat /\ snapshot.registry[i] \in Entry
    BY DEF Candidates, BySkill
  <2>3. IdOf[snapshot.registry[i]] \in Line
    BY <2>2, EntryAssumption DEF Line
  <2>4. decision' \subseteq Decision
    BY <2>1, <2>2 DEF Decision
  <2>5. usage' \in Seq(Line) /\ tail' \in tails /\ faults' \in Faults
        /\ recording' \in BOOLEAN
    BY <2>1, <2>3, <1>u, <1>v
  <2> QED
    BY <1>3, <2>1, <2>4, <2>5 DEF Schedule
<1>4. ASSUME NEW s \in Skill, NEW b \in BOOLEAN, ScheduleNone(s, b)
      PROVE  TypeOK'
  BY <1>4 DEF ScheduleNone
<1>5. CASE RecordAgent
  BY <1>5, <1>u, <1>v DEF RecordAgent, Line
<1>6. ASSUME NEW p \in Improver, LoadUsage(p)
      PROVE  TypeOK'
  <2>1. [pc |-> IF EnoughSamples(usage) THEN "readConfig" ELSE "advise",
         view |-> usage, reordered |-> <<>>] \in ImproverState
    BY DEF ImproverState
  <2> QED
    BY <1>6, <2>1, <1>b DEF LoadUsage, AllLines
<1>7. ASSUME NEW p \in Improver, ReadConfig(p)
      PROVE  TypeOK'
  <2>1. PICK order \in Orders(models.entries, improver[p].view) :
          improver' = [improver EXCEPT
             ![p].pc = IF Reordered(models.entries, order) = models.entries
                       THEN "advise" ELSE "truncate",
             ![p].reordered = Reordered(models.entries, order)]
    BY <1>7, Zenon DEF ReadConfig
  <2>2. Reordered(models.entries, order) \in Seq(Entry)
    BY ReorderedType
  <2> DEFINE r == Reordered(models.entries, order)
             st == [improver[p] EXCEPT
                     !.pc = IF r = models.entries THEN "advise" ELSE "truncate",
                     !.reordered = r]
  <2> HIDE DEF r
  <2>3. improver[p] \in ImproverState /\ r \in Seq(Entry)
    BY <2>2 DEF r
  <2>4. st \in ImproverState
    BY <2>3 DEF ImproverState
  <2>5. improver' = [improver EXCEPT ![p] = st]
    BY <2>1, <2>3 DEF r, ImproverState
  <2>6. improver' \in [Improver -> ImproverState]
    BY <2>4, <2>5
  <2> QED
    BY <1>7, <2>6 DEF ReadConfig
<1>8. ASSUME NEW p \in Improver, ReadTruncatedConfig(p)
      PROVE  TypeOK'
  BY <1>8, <1>b, <1>d DEF ReadTruncatedConfig
<1>9. ASSUME NEW p \in Improver, Truncate(p)
      PROVE  TypeOK'
  BY <1>9, <1>g DEF Truncate, TruncatedFile
<1>10. ASSUME NEW p \in Improver, Write(p)
       PROVE  TypeOK'
  <2>1. improver[p].reordered \in Seq(Entry) /\ improver[p].view \in Seq(Line)
    BY DEF ImproverState
  <2>2. models' \in [intact : BOOLEAN, entries : Seq(Entry)] /\ collided' \in BOOLEAN
    BY <1>10, <2>1, WriteTextType DEF Write
  <2>3. diskOrder' \in Seq(Line)
    BY <1>10, <2>1 DEF Write
  <2>4. improver' \in [Improver -> ImproverState]
    BY <1>10, <1>g DEF Write
  <2> QED
    BY <1>10, <2>1, <2>2, <2>3, <2>4 DEF Write
<1>11. ASSUME NEW p \in Improver, LogReorder(p)
       PROVE  TypeOK'
  BY <1>11, <1>b, <1>d, <1>f, <1>g DEF LogReorder, LogImprovement
<1>12. ASSUME NEW p \in Improver, Advise(p)
       PROVE  TypeOK'
  BY <1>12, <1>b, <1>d, <1>f DEF Advise
<1>13. ASSUME NEW p \in Improver, RunStandalone(p) \/ KillStandalone(p)
       PROVE  TypeOK'
  BY <1>13, <1>b, <1>d, <1>f DEF RunStandalone, KillStandalone
<1>14. ASSUME NEW v \in Versions, EditModels(v)
       PROVE  TypeOK'
  BY <1>14, CoreAssumption DEF EditModels, File
<1>15. ASSUME NEW s \in SettingsFiles, ChangeSettings(s)
       PROVE  TypeOK'
  BY <1>15, CoreAssumption DEF ChangeSettings
<1>16. ASSUME NEW h \in Hardware, HardwareChanges(h)
       PROVE  TypeOK'
  BY <1>16, CoreAssumption DEF HardwareChanges
<1>17. CASE UNCHANGED vars
  BY <1>17 DEF vars
<1> QED
  BY <1>1, <1>2, <1>3, <1>4, <1>5, <1>6, <1>7, <1>8, <1>9, <1>10, <1>11,
     <1>12, <1>13, <1>14, <1>15, <1>16, <1>17 DEF Next, ImproverStep

(***************************************************************************)
(* In every behaviour each variable keeps its type; in particular          *)
(* models.yaml, when it parses, and the loaded registry are sequences of   *)
(* entries, whatever a pass computed from the log.                         *)
(***************************************************************************)
THEOREM Typing == Spec => []TypeOK
BY InitTypeOK, NextTypeOK, PTL DEF Spec

-----------------------------------------------------------------------------
(* Nothing is lost from models.yaml *)

FromVersion(m) == m \in Seq(Entry) /\ \E v \in Versions : PromotionOf(m, v)

(***************************************************************************)
(* A rearrangement of a version with unique ids has unique ids.            *)
(***************************************************************************)
LEMMA RearrangedUnique ==
  ASSUME NEW v \in Seq(Entry), UniqueIdsIn(v),
         NEW m \in Seq(Entry), Rearranges(m, v)
  PROVE  UniqueIdsIn(m)
<1> DEFINE n == Len(v)
           E == EntriesOf(v)
<1>3. n \in Nat /\ DOMAIN v = 1..n /\ DOMAIN m = 1..n /\ EntriesOf(m) = E
  BY DEF Rearranges
<1>4. IsFiniteSet(1..n) /\ Cardinality(1..n) = n
  BY <1>3, CardinalityUpTo
<1>5. v \in Bijection(1..n, E)
  <2>1. v \in [1..n -> E]
    BY <1>3 DEF EntriesOf
  <2>2. \A i, j \in 1..n : v[i] = v[j] => i = j
    BY <1>3 DEF UniqueIdsIn
  <2>3. \A e \in E : \E i \in 1..n : v[i] = e
    BY <1>3 DEF EntriesOf
  <2> QED
    BY <2>1, <2>2, <2>3
    DEF Bijection, Injection, Surjection, IsInjective
<1>6. Cardinality(E) = n
  BY <1>4, <1>5, FS_Bijection DEF ExistsBijection
<1>7. m \in Surjection(1..n, E)
  <2>1. m \in [1..n -> EntriesOf(m)]
    BY <1>3 DEF EntriesOf
  <2>2. \A e \in EntriesOf(m) : \E i \in 1..n : m[i] = e
    BY <1>3 DEF EntriesOf
  <2> QED
    BY <2>1, <2>2, <1>3 DEF Surjection
<1>8. m \in Injection(1..n, E)
  BY <1>4, <1>6, <1>7, FS_SurjSameCardinalityImpliesInj
<1>9. ASSUME NEW i \in 1..n, NEW j \in 1..n, IdOf[m[i]] = IdOf[m[j]]
      PROVE  i = j
  <2>1. PICK k \in 1..n, l \in 1..n : v[k] = m[i] /\ v[l] = m[j]
    <3>1. m[i] \in E /\ m[j] \in E
      BY <1>7 DEF Surjection
    <3> QED
      BY <3>1, <1>3 DEF EntriesOf
  <2>2. k = l
    BY <2>1, <1>3, <1>9 DEF UniqueIdsIn
  <2>3. m[i] = m[j]
    BY <2>1, <2>2
  <2> QED
    BY <2>3, <1>8 DEF Injection, IsInjective
<1> QED
  BY <1>3, <1>9 DEF UniqueIdsIn

(***************************************************************************)
(* The order computed by _promote_popular_models rearranges a file with    *)
(* unique ids: no entry is dropped, none is repeated.                      *)
(***************************************************************************)
LEMMA ReorderedRearranges ==
  ASSUME NEW m \in Seq(Entry), NEW view \in Seq(Line), UniqueIdsIn(m),
         NEW order \in Orders(m, view)
  PROVE  Rearranges(Reordered(m, order), m)
<1> DEFINE n == Len(m)
<1>1. n \in Nat /\ DOMAIN m = 1..n
  OBVIOUS
<1>2. Kept(m, view) = 1..n
  <2>1. ASSUME NEW i \in 1..n, NEW j \in 1..n, IdOf[m[j]] = IdOf[m[i]]
        PROVE  j <= i
    BY <2>1, <1>1 DEF UniqueIdsIn
  <2> QED
    BY <2>1, <1>1 DEF Kept
<1>3. IsFiniteSet(1..n) /\ Cardinality(1..n) = n
  BY <1>1, CardinalityUpTo
<1>4. /\ order \in [1..n -> 1..n]
      /\ \A k, l \in 1..n : k < l => Precedes(m, view, order[k], order[l])
  BY <1>2, <1>3 DEF Orders
<1>5. ASSUME NEW k \in 1..n, NEW l \in 1..n, order[k] = order[l]
      PROVE  k = l
  <2>1. ~Precedes(m, view, order[k], order[k])
    BY <1>4, PrecedesIrreflexive
  <2>2. ~(k < l) /\ ~(l < k)
    BY <2>1, <1>4, <1>5
  <2> QED
    BY <2>2
<1>6. order \in Injection(1..n, 1..n)
  BY <1>4, <1>5 DEF Injection, IsInjective
<1>7. order \in Surjection(1..n, 1..n)
  BY <1>3, <1>6, FS_Injection
<1>8. /\ DOMAIN Reordered(m, order) = 1..n
      /\ \A k \in 1..n : Reordered(m, order)[k] = m[order[k]]
  BY <1>4 DEF Reordered
<1>9. EntriesOf(Reordered(m, order)) = EntriesOf(m)
  <2> DEFINE r == Reordered(m, order)
  <2>1. \A e : e \in EntriesOf(m) <=> \E i \in 1..n : e = m[i]
    BY <1>1 DEF EntriesOf
  <2>2. \A e : e \in EntriesOf(r) <=> \E k \in 1..n : e = r[k]
    BY <1>8 DEF EntriesOf
  <2> HIDE DEF r
  <2>3. \A k \in 1..n : r[k] = m[order[k]] /\ order[k] \in 1..n
    BY <1>4, <1>8 DEF r
  <2>4. \A i \in 1..n : \E k \in 1..n : r[k] = m[i]
    <3>1. \A i \in 1..n : \E k \in 1..n : order[k] = i
      BY <1>7 DEF Surjection
    <3> QED
      BY <2>3, <3>1
  <2>5. ASSUME NEW e \in EntriesOf(r)
        PROVE  e \in EntriesOf(m)
    <3>1. PICK k \in 1..n : e = r[k]
      BY <2>2
    <3>2. order[k] \in 1..n /\ e = m[order[k]]
      BY <2>3, <3>1
    <3> HIDE DEF n
    <3> QED
      BY <2>1, <3>2
  <2>6. ASSUME NEW e \in EntriesOf(m)
        PROVE  e \in EntriesOf(r)
    <3>1. PICK i \in 1..n : e = m[i]
      BY <2>1
    <3> QED
      BY <2>2, <2>4, <3>1
  <2>7. EntriesOf(r) = EntriesOf(m)
    BY <2>5, <2>6
  <2> QED
    BY <2>7 DEF r
<1>10. Reordered(m, order) \in Seq(Entry)
  BY ReorderedType
<1>11. Len(Reordered(m, order)) = n
  BY <1>1, <1>8, <1>10
<1> QED
  BY <1>9, <1>11 DEF Rearranges

(***************************************************************************)
(* Promotions compose: a pass never makes anything else of a version, no   *)
(* matter how many passes went before.                                     *)
(***************************************************************************)
LEMMA PromotionStep ==
  ASSUME NEW m, FromVersion(m), NEW view \in Seq(Line),
         NEW order \in Orders(m, view)
  PROVE  FromVersion(Reordered(m, order))
<1> DEFINE r == Reordered(m, order)
<1>1. PICK v \in Versions : PromotionOf(m, v)
  BY DEF FromVersion
<1>2. m \in Seq(Entry) /\ v \in Seq(Entry)
  BY CoreAssumption DEF FromVersion
<1>3. r \in Seq(Entry)
  BY <1>2, ReorderedType
<1>4. /\ IdsOf(r) = IdsOf(m)
      /\ EntriesOf(r) \subseteq EntriesOf(m) /\ Len(r) <= Len(m)
  BY <1>2, NoIdLost
<1>5. UniqueIdsIn(v) => Rearranges(r, m)
  BY <1>1, <1>2, RearrangedUnique, ReorderedRearranges DEF PromotionOf
<1> HIDE DEF r
<1>6. UniqueIdsIn(v) => Rearranges(r, v)
  BY <1>1, <1>5 DEF PromotionOf, Rearranges
<1>7. Len(r) <= Len(v)
  BY <1>1, <1>2, <1>3, <1>4 DEF PromotionOf
<1>8. PromotionOf(r, v)
  BY <1>1, <1>4, <1>6, <1>7 DEF PromotionOf
<1> QED
  BY <1>3, <1>8 DEF FromVersion, r

\* In a world without repeated ids the file repeats none, either.
LEMMA VersionUnique ==
  ASSUME UniqueIds, NEW m, FromVersion(m)
  PROVE  UniqueIdsIn(m)
<1>1. PICK v \in Versions : PromotionOf(m, v)
  BY DEF FromVersion
<1>2. v \in Seq(Entry) /\ m \in Seq(Entry) /\ UniqueIdsIn(v)
  BY CoreAssumption DEF FromVersion, UniqueIds
<1> QED
  BY <1>1, <1>2, RearrangedUnique DEF PromotionOf

FileInv ==
  ~collided =>
    /\ models.intact => FromVersion(models.entries)
    /\ up => FromVersion(snapshot.registry)
    /\ \A p \in Improver :
         improver[p].pc \in {"truncate", "write"} => FromVersion(improver[p].reordered)

\* What a collision leaves behind is never forgotten.
LEMMA CollidedForEver ==
  ASSUME [Next]_vars
  PROVE  collided => collided'
<1>1. ASSUME NEW p \in Improver, Write(p)
      PROVE  collided => collided'
  BY <1>1 DEF Write, WriteText
<1> QED
  BY <1>1
  DEF Next, ImproverStep, vars, file, StartDaemon, KillDaemon, Schedule,
      ScheduleNone, RecordAgent, LoadUsage, ReadConfig, ReadTruncatedConfig,
      Truncate, LogReorder, Advise, RunStandalone, KillStandalone, EditModels,
      ChangeSettings, HardwareChanges

LEMMA VersionItself ==
  ASSUME NEW v \in Versions
  PROVE  FromVersion(v)
BY CoreAssumption DEF FromVersion, PromotionOf, Rearranges

LEMMA InitFileInv == Init => FileInv
<1> SUFFICES ASSUME Init PROVE FileInv
  OBVIOUS
<1>1. PICK v \in Versions : models = File(v)
  BY DEF Init
<1>2. FromVersion(v)
  BY VersionItself
<1>3. ~up /\ \A p \in Improver : improver[p].pc \in {"asleep", "dead"}
  BY DEF Init, Asleep, Dead
<1> QED
  BY <1>1, <1>2, <1>3 DEF FileInv, File

LEMMA NextFileInv ==
  ASSUME TypeOK, FileInv, [Next]_vars
  PROVE  FileInv'
<1> SUFFICES ASSUME ~collided' PROVE FileInv'
  BY DEF FileInv
<1>0. ~collided
  BY CollidedForEver
<1> USE <1>0 DEF file, world, daemon, log, user
<1> DEFINE Pending(p) == improver[p].pc \in {"truncate", "write"}
<1>1. CASE StartDaemon
  <2>1. FromVersion(snapshot'.registry)
    BY <1>1 DEF StartDaemon, SnapshotOf, Loadable, FileInv
  <2>2. ASSUME NEW p \in Improver, Pending(p)'
        PROVE  Pending(p) /\ improver'[p] = improver[p]
    BY <1>1, <2>2 DEF StartDaemon, Asleep, TypeOK
  <2> QED
    BY <1>1, <2>1, <2>2 DEF StartDaemon, FileInv
<1>2. ASSUME NEW p \in Improver,
             KillDaemon \/ LogReorder(p) \/ Advise(p) \/ LoadUsage(p)
               \/ ReadTruncatedConfig(p) \/ RunStandalone(p) \/ KillStandalone(p)
      PROVE  FileInv'
  <2>1. ASSUME NEW q \in Improver, Pending(q)'
        PROVE  Pending(q) /\ improver'[q] = improver[q]
    <3>1. ASSUME NEW r \in Improver, NEW st, st.pc \notin {"truncate", "write"},
                 Become(r, st)
          PROVE  Pending(q) /\ improver'[q] = improver[q]
      BY <2>1, <3>1 DEF Become, TypeOK
    <3>2. ASSUME Goto(p, "advise")
          PROVE  Pending(q) /\ improver'[q] = improver[q]
      BY <2>1, <3>2 DEF Goto, TypeOK, ImproverState
    <3>3. Dead.pc = "dead" /\ Asleep.pc = "asleep"
      BY DEF Dead, Asleep
    <3>4. CASE KillDaemon
      BY <3>1, <3>3, <3>4, CoreAssumption DEF KillDaemon, Become
    <3>5. CASE LogReorder(p)
      BY <3>1, <3>2, <3>3, <3>5 DEF LogReorder
    <3>6. CASE LoadUsage(p)
      <4> DEFINE st == [pc |-> IF EnoughSamples(usage) THEN "readConfig"
                               ELSE "advise",
                        view |-> usage, reordered |-> <<>>]
      <4>1. st.pc \notin {"truncate", "write"} /\ Become(p, st)
        BY <3>6 DEF LoadUsage, AllLines
      <4> QED
        BY <3>1, <4>1
    <3>7. CASE Advise(p) \/ ReadTruncatedConfig(p) \/ RunStandalone(p)
                 \/ KillStandalone(p)
      BY <3>1, <3>3, <3>7
      DEF Advise, ReadTruncatedConfig, RunStandalone, KillStandalone
    <3> QED
      BY <1>2, <3>4, <3>5, <3>6, <3>7
  <2>2. UNCHANGED models /\ UNCHANGED snapshot /\ (up' => up)
    BY <1>2 DEF KillDaemon, LogReorder, Advise, LoadUsage, ReadTruncatedConfig,
                RunStandalone, KillStandalone
  <2> QED
    BY <2>1, <2>2 DEF FileInv
<1>3. ASSUME NEW p \in Improver, ReadConfig(p)
      PROVE  FileInv'
  <2>1. PICK order \in Orders(models.entries, improver[p].view) :
          improver' = [improver EXCEPT
             ![p].pc = IF Reordered(models.entries, order) = models.entries
                       THEN "advise" ELSE "truncate",
             ![p].reordered = Reordered(models.entries, order)]
    BY <1>3 DEF ReadConfig
  <2>2. models.intact
    BY <1>3 DEF ReadConfig
  <2>3. models.entries \in Seq(Entry) /\ improver[p].view \in Seq(Line)
    BY DEF TypeOK, ImproverState
  <2>4. FromVersion(Reordered(models.entries, order))
    BY <2>2, <2>3, PromotionStep DEF FileInv
  <2>5. improver'[p].reordered = Reordered(models.entries, order)
    BY <2>1 DEF TypeOK, ImproverState
  <2>6. \A q \in Improver \ {p} : improver'[q] = improver[q]
    BY <2>1 DEF TypeOK
  <2>7. UNCHANGED <<models, snapshot, up>>
    BY <1>3 DEF ReadConfig
  <2> QED
    BY <2>4, <2>5, <2>6, <2>7 DEF FileInv
<1>4. ASSUME NEW p \in Improver, Truncate(p)
      PROVE  FileInv'
  <2>1. \A q \in Improver : improver'[q].reordered = improver[q].reordered
                            /\ (Pending(q)' => Pending(q))
    BY <1>4 DEF Truncate, Goto, TypeOK, ImproverState
  <2>2. ~models'.intact
    BY <1>4 DEF Truncate, TruncatedFile
  <2> QED
    BY <1>4, <2>1, <2>2 DEF Truncate, FileInv
<1>5. ASSUME NEW p \in Improver, Write(p)
      PROVE  FileInv'
  <2>1. \A q \in Improver : improver'[q].reordered = improver[q].reordered
                            /\ (Pending(q)' => Pending(q))
    BY <1>5 DEF Write, Goto, TypeOK, ImproverState
  <2>2. models' = File(improver[p].reordered)
    BY <1>5 DEF Write, WriteText
  <2>3. FromVersion(improver[p].reordered)
    BY <1>5 DEF Write, FileInv
  <2>4. models'.intact => FromVersion(models'.entries)
    BY <2>2, <2>3 DEF File
  <2> QED
    BY <1>5, <2>1, <2>4 DEF Write, FileInv
<1>6. ASSUME NEW v \in Versions, EditModels(v)
      PROVE  FileInv'
  <2>1. FromVersion(v)
    BY VersionItself
  <2>2. models' = File(v)
    BY <1>6 DEF EditModels
  <2>3. FromVersion(models'.entries)
    BY <2>1, <2>2 DEF File
  <2> QED
    BY <1>6, <2>3 DEF EditModels, FileInv
<1>7. ASSUME UNCHANGED <<models, snapshot, up, improver>>
      PROVE  FileInv'
  BY <1>7 DEF FileInv
<1>8. CASE UNCHANGED vars
  BY <1>7, <1>8 DEF vars
<1>9. ASSUME NEW s \in Skill, NEW b \in BOOLEAN, Schedule(s, b) \/ ScheduleNone(s, b)
      PROVE  FileInv'
  BY <1>7, <1>9 DEF Schedule, ScheduleNone
<1>10. CASE RecordAgent
  BY <1>7, <1>10 DEF RecordAgent
<1>11. ASSUME NEW s \in SettingsFiles, ChangeSettings(s)
       PROVE  FileInv'
  BY <1>7, <1>11 DEF ChangeSettings
<1>12. ASSUME NEW h \in Hardware, HardwareChanges(h)
       PROVE  FileInv'
  BY <1>7, <1>12 DEF HardwareChanges
<1>13. CASE KillDaemon
  BY <1>2, <1>13, CoreAssumption
<1> QED
  BY <1>1, <1>2, <1>3, <1>4, <1>5, <1>6, <1>8, <1>9, <1>10, <1>11, <1>12, <1>13
  DEF Next, ImproverStep

(***************************************************************************)
(* models.yaml (when it parses) and the loaded registry always hold        *)
(* exactly the entries of a version the user wrote, or of a version that   *)
(* repeats an id some entries for each of its ids, whatever the            *)
(* interleaving of any number of improvers, edits, kills and restarts.     *)
(***************************************************************************)
THEOREM NothingLost == Spec => []OnlyReordered
<1>1. TypeOK /\ FileInv /\ [Next]_vars => FileInv'
  BY NextFileInv
<1>2. FileInv => OnlyReordered
  BY DEF FileInv, OnlyReordered, FromVersion
<1> QED
  BY InitFileInv, <1>1, <1>2, Typing, PTL DEF Spec

-----------------------------------------------------------------------------
(* Local models come first *)

\* The answer is the first candidate of the registry it was made from.
DecisionInv ==
  /\ ~up => decision = {}
  /\ \A d \in decision :
       IsFirst(snapshot.registry, Candidates(d.skill, d.requireLocal),
               snapshot.settings.localFirst, d.position)

LEMMA NextDecisionInv ==
  ASSUME TypeOK, DecisionInv, [Next]_vars
  PROVE  DecisionInv'
<1> USE DEF file, world, daemon, log, user
<1>1. ASSUME UNCHANGED <<up, decision, snapshot>>
      PROVE  DecisionInv'
  BY <1>1 DEF DecisionInv, Candidates, AllowCloud
<1>2. CASE StartDaemon
  BY <1>2 DEF StartDaemon, DecisionInv
<1>3. CASE KillDaemon
  BY <1>3 DEF KillDaemon, DecisionInv
<1>4. ASSUME NEW s \in Skill, NEW b \in BOOLEAN, Schedule(s, b)
      PROVE  DecisionInv'
  <2>1. PICK i \in Candidates(s, b) :
          /\ IsFirst(snapshot.registry, Candidates(s, b),
                     snapshot.settings.localFirst, i)
          /\ decision' = {[position |-> i, skill |-> s, requireLocal |-> b]}
    BY <1>4 DEF Schedule
  <2>2. up' /\ UNCHANGED snapshot
    BY <1>4 DEF Schedule, EventLoopFree
  <2> QED
    BY <2>1, <2>2 DEF DecisionInv, Candidates, AllowCloud
<1>5. ASSUME NEW s \in Skill, NEW b \in BOOLEAN, ScheduleNone(s, b)
      PROVE  DecisionInv'
  BY <1>5 DEF ScheduleNone, DecisionInv
<1>6. CASE RecordAgent
  BY <1>1, <1>6 DEF RecordAgent
<1>7. ASSUME NEW p \in Improver,
             ImproverStep(p) \/ RunStandalone(p) \/ KillStandalone(p)
      PROVE  DecisionInv'
  BY <1>1, <1>7
  DEF ImproverStep, LoadUsage, ReadConfig, ReadTruncatedConfig, Truncate, Write,
      LogReorder, Advise, RunStandalone, KillStandalone
<1>8. ASSUME NEW v, EditModels(v) \/ ChangeSettings(v) \/ HardwareChanges(v)
      PROVE  DecisionInv'
  BY <1>1, <1>8 DEF EditModels, ChangeSettings, HardwareChanges
<1>9. CASE UNCHANGED vars
  BY <1>1, <1>9 DEF vars
<1> QED
  BY <1>2, <1>3, <1>4, <1>5, <1>6, <1>7, <1>8, <1>9 DEF Next

(***************************************************************************)
(* A cloud model is handed out only if request and settings allow it and,  *)
(* under local_first, only if no local model of the loaded registry has    *)
(* the skill and fits: no order that promotion gives models.yaml changes   *)
(* that.                                                                   *)
(***************************************************************************)
THEOREM LocalModelsFirst == Spec => []LocalFirst
<1>1. Init => DecisionInv
  BY DEF Init, DecisionInv
<1>2. TypeOK /\ DecisionInv /\ [Next]_vars => DecisionInv'
  BY NextDecisionInv
<1>3. TypeOK /\ DecisionInv => LocalFirst
  <2> SUFFICES ASSUME TypeOK, DecisionInv, NEW d \in decision,
                      CloudOf[snapshot.registry[d.position]]
               PROVE  /\ ~d.requireLocal /\ ~snapshot.settings.airGapped
                      /\ snapshot.settings.localFirst =>
                           BySkill(snapshot.registry, d.skill,
                                   snapshot.hardware, FALSE) = {}
    BY DEF LocalFirst
  <2> DEFINE reg == snapshot.registry
             candidates == Candidates(d.skill, d.requireLocal)
  <2>1. IsFirst(reg, candidates, snapshot.settings.localFirst, d.position)
    BY DEF DecisionInv
  <2>2. AllowCloud(d.requireLocal)
    BY <2>1 DEF IsFirst, Candidates, BySkill
  <2>3. ASSUME snapshot.settings.localFirst,
               NEW j \in BySkill(reg, d.skill, snapshot.hardware, FALSE)
        PROVE  FALSE
    <3>1. j \in candidates /\ ~CloudOf[reg[j]]
      BY DEF Candidates, BySkill
    <3>2. j # d.position
      BY <3>1
    <3>3. SortsBefore(reg, TRUE, d.position, j)
      BY <2>1, <2>3, <3>1, <3>2 DEF IsFirst, SortsBefore
    <3> QED
      BY <3>1, <3>3 DEF SortsBefore
  <2> QED
    BY <2>2, <2>3 DEF AllowCloud
<1> QED
  BY <1>1, <1>2, <1>3, Typing, PTL DEF Spec

-----------------------------------------------------------------------------
(* The usage log *)

UsageInv ==
  /\ UsageLossBounded
  /\ recording => up
  /\ tail = "open" => usage # <<>>

\* What a failed append, a line or two missing from it, does to the account.
LEMMA FailurePaid ==
  ASSUME NEW missing \in Int, NEW missing1 \in Int, NEW glue \in Int, NEW glue1 \in Int,
         NEW len \in Int, NEW len1 \in Int, NEW paid \in Int, NEW paid1 \in Int,
         NEW own \in {1, 2},
         missing >= 0, missing + glue <= paid,
         missing1 = missing + own - (len1 - len),
         len1 <= len + 1, glue1 - len1 <= glue - len + 1,
         paid1 = paid + 3
  PROVE  missing1 >= 0 /\ missing1 + glue1 <= paid1
OBVIOUS

LEMMA NextUsageInv ==
  ASSUME TypeOK, UsageInv, [Next]_vars
  PROVE  UsageInv'
<1> USE DEF file, world, daemon, log, user
<1> DEFINE busy == IF recording THEN 1 ELSE 0
           glue == ToBeGlued[tail]
           missing == 2 * served - Len(usage) - busy
           paid == 3 * faults.usage + faults.kill
           OpenLine == tail = "open" => usage # <<>>
<1>0. /\ tail \in {"whole", "half", "open"}
      /\ tail = "whole" => glue = 0
      /\ tail = "half" => glue = 1
      /\ tail = "open" => glue = 2
  BY DEF TypeOK, ToBeGlued
<1>1. /\ served \in Nat /\ Len(usage) \in Nat
      /\ faults.usage \in Nat /\ faults.kill \in Nat
      /\ faults \in Faults
      /\ busy \in {0, 1} /\ glue \in {0, 1, 2}
  BY <1>0 DEF TypeOK, Faults
<1>2. missing >= 0 /\ missing + glue <= paid /\ OpenLine
  BY DEF UsageInv, UsageLossBounded
<1>i. glue \in Int /\ paid \in Int
  <2>1. glue \in Int
    BY <1>1
  <2>2. \A a, b \in Nat : 3 * a + b \in Int
    OBVIOUS
  <2> QED
    BY <1>1, <2>1, <2>2
<1>3. ASSUME UNCHANGED <<served, usage, recording, tail>>,
             faults'.usage \in Nat, faults'.kill \in Nat,
             faults'.usage >= faults.usage, faults'.kill >= faults.kill,
             recording => up'
      PROVE  UsageInv'
  <2>1. missing' = missing /\ glue' = glue /\ OpenLine'
    BY <1>2, <1>3
  <2>2. paid' >= paid /\ paid \in Int /\ paid' \in Int
    <3>1. paid' = 3 * faults'.usage + faults'.kill
      OBVIOUS
    <3>2. \A a, b, c, d \in Nat : c >= a /\ d >= b => 3 * c + d >= 3 * a + b
      OBVIOUS
    <3>3. \A a, b \in Nat : 3 * a + b \in Int
      OBVIOUS
    <3> QED
      BY <1>1, <1>3, <3>1, <3>2, <3>3
  <2>3. missing \in Int
    BY <1>1
  <2>4. missing' >= 0 /\ missing' + glue' <= paid'
    <3> HIDE DEF missing, glue, paid
    <3> QED
      BY <1>1, <1>2, <2>1, <2>2, <2>3
  <2> QED
    BY <1>3, <2>1, <2>4 DEF UsageInv, UsageLossBounded
<1>k. ASSUME Fault("kill")
      PROVE  faults'.kill = faults.kill + 1 /\ faults'.usage = faults.usage
  BY <1>1, <1>k DEF Fault, Faults
<1>l. ASSUME Fault("log")
      PROVE  faults'.kill = faults.kill /\ faults'.usage = faults.usage
  BY <1>1, <1>l DEF Fault, Faults
<1>u. ASSUME Fault("usage")
      PROVE  faults'.kill = faults.kill /\ faults'.usage = faults.usage + 1
  BY <1>1, <1>u DEF Fault, Faults
<1>c. Len(Closed) = IF tail = "open" THEN Len(usage) - 1 ELSE Len(usage)
  <2>1. tail = "open" => Len(Front(usage)) = Len(usage) - 1
    BY <1>2, FrontType DEF TypeOK
  <2> QED
    BY <2>1 DEF Closed
\* A successful append: one line more, or one or two lost in the gluing.
<1>a. ASSUME NEW line \in Line, RecordUsage(line)
      PROVE  OpenLine' /\ glue' = 0 /\ Len(usage') = Len(usage) + 1 - glue
  <2>1. tail' = "whole" /\ glue' = 0
    BY <1>a DEF RecordUsage, ToBeGlued
  <2>2. CASE tail = "whole"
    <3>1. usage' = Append(usage, line)
      BY <1>a, <2>2 DEF RecordUsage
    <3> QED
      BY <1>0, <1>1, <2>1, <2>2, <3>1 DEF TypeOK
  <2>3. CASE tail # "whole"
    <3>1. usage' = Closed
      BY <1>a, <2>3, Zenon DEF RecordUsage
    <3> QED
      BY <1>0, <1>1, <1>c, <2>1, <2>3, <3>1
  <2> QED
    BY <2>2, <2>3
\* A failed append adds a line at most, and costs one of its own at most.
<1>b. ASSUME NEW line \in Line, RecordUsageFails(line)
      PROVE  /\ OpenLine' /\ glue' \in {0, 1, 2} /\ Len(usage') \in Nat
             /\ Len(usage') <= Len(usage) + 1
             /\ glue' - Len(usage') <= glue - Len(usage) + 1
             /\ paid' = paid + 3
             /\ faults'.usage \in Nat /\ faults'.kill \in Nat
  <2>1. paid' = paid + 3 /\ faults'.usage \in Nat /\ faults'.kill \in Nat
    <3>1. faults'.kill = faults.kill /\ faults'.usage = faults.usage + 1
      BY <1>b, <1>u DEF RecordUsageFails
    <3>2. paid' = 3 * faults'.usage + faults'.kill
      OBVIOUS
    <3>3. paid' = 3 * (faults.usage + 1) + faults.kill
      BY <3>1, <3>2, Zenon
    <3>4. 3 * (faults.usage + 1) + faults.kill = paid + 3
      BY <1>1
    <3>5. faults'.usage \in Nat /\ faults'.kill \in Nat
      BY <1>1, <3>1
    <3>6. paid' = paid + 3
      BY <3>3, <3>4, Zenon
    <3> QED
      BY <3>5, <3>6, Zenon
  <2> DEFINE Cost ==
        /\ glue' \in {0, 1, 2} /\ Len(usage') \in Nat
        /\ Len(usage') <= Len(usage) + 1
        /\ glue' - Len(usage') <= glue - Len(usage) + 1
  <2>2. CASE UNCHANGED <<usage, tail>>
    <3>1. usage' = usage /\ tail' = tail
      BY <2>2
    <3>2. glue' = glue /\ Len(usage') = Len(usage)
      BY <3>1, Zenon
    <3>3. OpenLine'
      BY <1>2, <3>1, Zenon
    <3> HIDE DEF glue, paid
    <3>4. Cost
      BY <1>1, <3>2
    <3> QED
      BY <2>1, <3>3, <3>4
  <2>3. CASE usage' = Closed /\ tail' = "half"
    <3>1. glue' = 1 /\ OpenLine'
      BY <2>3 DEF ToBeGlued
    <3>2. Len(usage') = IF tail = "open" THEN Len(usage) - 1 ELSE Len(usage)
      BY <1>c, <2>3
    <3>3. tail = "open" => Len(usage) # 0
      BY <1>2 DEF TypeOK
    <3> HIDE DEF glue, paid
    <3>4. CASE tail = "open"
      <4>1. Len(usage') = Len(usage) - 1 /\ glue = 2 /\ Len(usage) # 0
        BY <1>0, <3>2, <3>3, <3>4
      <4> QED
        BY <1>1, <2>1, <3>1, <4>1
    <3>5. CASE tail # "open"
      <4>1. Len(usage') = Len(usage) /\ glue \in {0, 1}
        BY <1>0, <3>2, <3>5
      <4> QED
        BY <1>1, <2>1, <3>1, <4>1
    <3> QED
      BY <3>4, <3>5
  <2>4. CASE tail = "whole" /\ usage' = Append(usage, line) /\ tail' = "open"
    <3>1. glue' = 2
      BY <2>4 DEF ToBeGlued
    <3>2. Len(usage') = Len(usage) + 1 /\ usage' # <<>>
      BY <2>4 DEF TypeOK
    <3> HIDE DEF glue, paid
    <3>3. Cost
      BY <1>0, <1>1, <2>4, <3>1, <3>2
    <3> QED
      BY <2>1, <3>2, <3>3
  <2> QED
    BY <1>b, <2>2, <2>3, <2>4 DEF RecordUsageFails
<1>4. ASSUME NEW s \in Skill, NEW b \in BOOLEAN, Schedule(s, b)
      PROVE  UsageInv'
  <2>1. PICK i \in Candidates(s, b) :
          /\ served' = served + 1
          /\ \/ /\ RecordUsage(IdOf[snapshot.registry[i]])
                /\ recording' = TRUE
                /\ UNCHANGED faults
             \/ /\ RecordUsageFails(IdOf[snapshot.registry[i]])
                /\ UNCHANGED recording
    BY <1>4 DEF Schedule
  <2>2. IdOf[snapshot.registry[i]] \in Line
    <3>1. snapshot.registry[i] \in Entry
      BY DEF Candidates, BySkill, TypeOK
    <3> QED
      BY <3>1, EntryAssumption DEF Line
  <2>3. ~recording /\ up' /\ busy = 0
    BY <1>4 DEF Schedule, EventLoopFree
  <2>4. CASE RecordUsage(IdOf[snapshot.registry[i]]) /\ recording' = TRUE
             /\ UNCHANGED faults
    <3>1. /\ busy' = 1 /\ glue' = 0 /\ Len(usage') = Len(usage) + 1 - glue
          /\ OpenLine' /\ paid' = paid
      BY <1>a, <2>2, <2>4
    <3>2. missing' = missing + glue /\ missing \in Int
      <4>1. served' = served + 1
        BY <2>1
      <4>2. missing' = 2 * (served + 1) - (Len(usage) + 1 - glue) - 1
        BY <3>1, <4>1
      <4>3. missing = 2 * served - Len(usage) - 0
        BY <2>3
      <4>4. glue \in Int /\ served \in Int /\ Len(usage) \in Int
        BY <1>1
      <4> HIDE DEF missing, glue, busy, paid
      <4> QED
        BY <4>2, <4>3, <4>4
    <3>3. missing' >= 0 /\ missing' + glue' <= paid'
      <4> HIDE DEF glue, busy, paid, missing
      <4> QED
        BY <1>1, <1>2, <3>1, <3>2
    <3> QED
      BY <2>3, <3>1, <3>3 DEF UsageInv, UsageLossBounded
  <2>5. CASE /\ RecordUsageFails(IdOf[snapshot.registry[i]])
             /\ UNCHANGED recording
    <3>1. busy' = 0 /\ served' \in Nat
      BY <1>1, <2>1, <2>3, <2>5
    <3>2. /\ missing' = missing + 2 - (Len(usage') - Len(usage))
          /\ missing \in Int /\ missing' \in Int
      <4>1. Len(usage') \in Nat
        BY <1>b, <2>2, <2>5
      <4>2. missing' = 2 * (served + 1) - Len(usage') - 0
        BY <2>1, <3>1
      <4>3. missing = 2 * served - Len(usage) - 0
        BY <2>3
      <4> HIDE DEF missing
      <4> QED
        BY <1>1, <4>1, <4>2, <4>3
    <3>3. missing' >= 0 /\ missing' + glue' <= paid'
      <4>0. glue \in Int /\ paid \in Int
        BY <1>i, Zenon
      <4> HIDE DEF missing, glue, paid, busy
      <4>1. /\ glue' - Len(usage') <= glue - Len(usage) + 1
            /\ Len(usage') <= Len(usage) + 1
            /\ paid' = paid + 3
            /\ Len(usage') \in Nat /\ glue' \in Int /\ paid \in Int
        BY <1>b, <2>2, <2>5, <4>0
      <4>2. missing >= 0 /\ missing + glue <= paid /\ paid' \in Int
            /\ Len(usage) \in Int /\ Len(usage') \in Int
        BY <1>1, <1>2, <4>0, <4>1
      <4> QED
        BY <3>2, <4>0, <4>1, <4>2, FailurePaid
    <3> QED
      BY <1>b, <2>2, <2>3, <2>5, <3>3 DEF UsageInv, UsageLossBounded
  <2> QED
    BY <2>1, <2>4, <2>5
<1>5. CASE RecordAgent
  <2>1. busy = 1 /\ busy' = 0 /\ ~recording' /\ served' = served
    BY <1>5 DEF RecordAgent
  <2>2. CASE RecordUsage(AgentLine) /\ UNCHANGED faults
    <3>1. /\ glue' = 0 /\ Len(usage') = Len(usage) + 1 - glue
          /\ OpenLine' /\ paid' = paid
      BY <1>a, <2>2 DEF Line
    <3>2. missing' = missing + glue /\ missing \in Int
      <4> HIDE DEF glue, busy, paid
      <4> QED
        BY <1>1, <2>1, <3>1
    <3>3. missing' >= 0 /\ missing' + glue' <= paid'
      <4> HIDE DEF glue, busy, paid, missing
      <4> QED
        BY <1>1, <1>2, <3>1, <3>2
    <3> QED
      BY <2>1, <3>1, <3>3 DEF UsageInv, UsageLossBounded
  <2>3. CASE RecordUsageFails(AgentLine)
    <3>1. AgentLine \in Line
      BY DEF Line
    <3>2. /\ missing' = missing + 1 - (Len(usage') - Len(usage))
          /\ missing \in Int /\ missing' \in Int
      <4>1. Len(usage') \in Nat
        BY <1>b, <2>3, <3>1
      <4>2. missing' = 2 * served - Len(usage') - 0
        BY <2>1
      <4>3. missing = 2 * served - Len(usage) - 1
        BY <2>1
      <4> HIDE DEF missing
      <4> QED
        BY <1>1, <4>1, <4>2, <4>3
    <3>3. missing' >= 0 /\ missing' + glue' <= paid'
      <4>0. glue \in Int /\ paid \in Int
        BY <1>i, Zenon
      <4> HIDE DEF missing, glue, paid, busy
      <4>1. /\ glue' - Len(usage') <= glue - Len(usage) + 1
            /\ Len(usage') <= Len(usage) + 1
            /\ paid' = paid + 3
            /\ Len(usage') \in Nat /\ glue' \in Int /\ paid \in Int
        BY <1>b, <2>3, <3>1, <4>0
      <4>2. missing >= 0 /\ missing + glue <= paid /\ paid' \in Int
            /\ Len(usage) \in Int /\ Len(usage') \in Int
        BY <1>1, <1>2, <4>0, <4>1
      <4> QED
        BY <3>2, <4>0, <4>1, <4>2, FailurePaid
    <3> QED
      BY <1>b, <2>1, <2>3, <3>1, <3>3 DEF UsageInv, UsageLossBounded
  <2> QED
    BY <1>5, <2>2, <2>3 DEF RecordAgent
<1>6. CASE KillDaemon
  <2>1. busy' = 0 /\ ~recording' /\ UNCHANGED <<served, usage, tail>>
    BY <1>6 DEF KillDaemon
  <2>2. /\ missing' = missing + busy /\ missing \in Int
        /\ glue' = glue /\ OpenLine'
    BY <1>1, <1>2, <2>1
  <2>3. paid' = paid + 1 /\ paid \in Int
    <3>1. faults'.kill = faults.kill + 1 /\ faults'.usage = faults.usage
      BY <1>6, <1>k DEF KillDaemon
    <3>2. paid' = 3 * faults'.usage + faults'.kill
      OBVIOUS
    <3>3. paid' = 3 * faults.usage + (faults.kill + 1)
      BY <3>1, <3>2, Zenon
    <3>4. \A a, b \in Nat : 3 * a + (b + 1) = 3 * a + b + 1 /\ 3 * a + b \in Int
      OBVIOUS
    <3> QED
      BY <1>1, <3>3, <3>4, Zenon
  <2>4. missing' >= 0 /\ missing' + glue' <= paid'
    <3> HIDE DEF glue, busy, paid, missing
    <3> QED
      BY <1>1, <1>2, <2>2, <2>3
  <2> QED
    BY <2>1, <2>2, <2>4 DEF UsageInv, UsageLossBounded
<1>7. CASE StartDaemon
  BY <1>1, <1>3, <1>7 DEF StartDaemon
<1>8. ASSUME NEW s \in Skill, NEW b \in BOOLEAN, ScheduleNone(s, b)
      PROVE  UsageInv'
  BY <1>1, <1>3, <1>8 DEF ScheduleNone, UsageInv
<1>9. ASSUME NEW p \in Improver, LogReorder(p) \/ Advise(p)
      PROVE  UsageInv'
  <2>1. faults' = faults \/ Fault("log")
    BY <1>9 DEF LogReorder, Advise
  <2> QED
    BY <1>1, <1>3, <1>9, <1>l, <2>1 DEF LogReorder, Advise, UsageInv
<1>10. ASSUME NEW p \in Improver, KillStandalone(p)
       PROVE  UsageInv'
  BY <1>1, <1>3, <1>10, <1>k DEF KillStandalone, UsageInv
<1>11. ASSUME NEW p \in Improver,
              \/ LoadUsage(p) \/ ReadConfig(p) \/ ReadTruncatedConfig(p)
              \/ Truncate(p) \/ Write(p) \/ RunStandalone(p)
       PROVE  UsageInv'
  BY <1>1, <1>3, <1>11
  DEF LoadUsage, ReadConfig, ReadTruncatedConfig, Truncate, Write,
      RunStandalone, UsageInv
<1>12. ASSUME NEW v, EditModels(v) \/ ChangeSettings(v) \/ HardwareChanges(v)
       PROVE  UsageInv'
  BY <1>1, <1>3, <1>12 DEF EditModels, ChangeSettings, HardwareChanges, UsageInv
<1>13. CASE UNCHANGED vars
  BY <1>1, <1>3, <1>13 DEF vars, UsageInv
<1> QED
  BY <1>4, <1>5, <1>6, <1>7, <1>8, <1>9, <1>10, <1>11, <1>12, <1>13
  DEF Next, ImproverStep

(***************************************************************************)
(* The usage log never holds more lines than decisions explain, and every  *)
(* line it lacks is paid for by a failed append (three lines at most) or   *)
(* by a kill (one line).                                                   *)
(***************************************************************************)
THEOREM UsageAccounted == Spec => []UsageLossBounded
<1>1. Init => UsageInv
  BY DEF Init, UsageInv, UsageLossBounded, ToBeGlued
<1>2. TypeOK /\ UsageInv /\ [Next]_vars => UsageInv'
  BY NextUsageInv
<1>3. UsageInv => UsageLossBounded
  BY DEF UsageInv
<1> QED
  BY <1>1, <1>2, <1>3, Typing, PTL DEF Spec

-----------------------------------------------------------------------------
(* models.yaml stays readable *)

(***************************************************************************)
(* The same entries without repeated ids have the same size.               *)
(***************************************************************************)
LEMMA UniqueSameSize ==
  ASSUME NEW a, NEW b, UniqueIdsIn(a), UniqueIdsIn(b),
         EntriesOf(a) = EntriesOf(b)
  PROVE  SameSize(a, b)
<1>1. ASSUME NEW m, UniqueIdsIn(m), NEW e \in EntriesOf(m)
      PROVE  Cardinality({i \in DOMAIN m : m[i] = e}) = 1
  <2>1. PICK k \in DOMAIN m : m[k] = e
    BY DEF EntriesOf
  <2>2. {i \in DOMAIN m : m[i] = e} = {k}
    BY <1>1, <2>1 DEF UniqueIdsIn
  <2> QED
    BY <2>2, FS_Singleton
<1>2. ASSUME NEW e \in EntriesOf(a) \cup EntriesOf(b)
      PROVE  Cardinality({i \in DOMAIN a : a[i] = e}) =
               Cardinality({i \in DOMAIN b : b[i] = e})
  BY <1>1, <1>2
<1> QED
  BY <1>2 DEF SameSize

InProgress(p) == improver[p].pc \in {"truncate", "write"}

\* Until the user edits it the file, and what any pass is about to write, has
\* the same entries, and if no id repeats the same size.
OneContent ==
  UniqueIds /\ edits = 0 =>
    /\ models.intact => EntriesOf(models.entries) = EntriesOf(lastEdit)
    /\ \A p \in Improver :
         InProgress(p) => EntriesOf(improver[p].reordered) = EntriesOf(lastEdit)

\* Nobody fills the file a lone improver has truncated.
LoneWriter ==
  Improver = {InProc} /\ improver[InProc].pc = "write" => models = TruncatedFile

\* Without a collision only truncation makes models.yaml unreadable.
OnlyTruncated == models.intact \/ collided \/ models = TruncatedFile

IntactInv == OneContent /\ LoneWriter /\ OnlyTruncated /\ IntactUnlessKilled

(***************************************************************************)
(* What a step that leaves the file alone must not do: bring an improver   *)
(* nearer to its write, or take one away from it without a kill.           *)
(***************************************************************************)
LEMMA FileUntouched ==
  ASSUME IntactInv, TypeOK, TypeOK', UNCHANGED <<models, collided, user>>,
         faults'.kill >= faults.kill,
         \A q \in Improver :
           InProgress(q)' => InProgress(q) /\ UNCHANGED improver[q],
         faults'.kill > 0 \/ \A q \in Improver :
           improver[q].pc = "write" => improver'[q].pc = "write"
  PROVE  IntactInv'
<1> USE DEF user
<1>1. OneContent'
  BY DEF IntactInv, OneContent
<1>2. LoneWriter'
  BY CoreAssumption DEF IntactInv, LoneWriter, InProgress
<1>3. faults.kill \in Nat /\ faults'.kill \in Nat
  BY DEF TypeOK, Faults
<1>4. IntactUnlessKilled'
  BY <1>3 DEF IntactInv, IntactUnlessKilled
<1>5. OnlyTruncated'
  BY DEF IntactInv, OnlyTruncated
<1> QED
  BY <1>1, <1>2, <1>4, <1>5 DEF IntactInv

LEMMA NextIntactInv ==
  ASSUME TypeOK, TypeOK', FileInv, IntactInv, [Next]_vars
  PROVE  IntactInv'
<1> USE DEF file, world, daemon, log, user
<1>0. /\ faults.kill \in Nat /\ faults'.kill \in Nat /\ edits \in Nat
      /\ faults \in Faults
  BY DEF TypeOK, Faults
<1>k. ASSUME NEW kind \in {"kill", "usage", "log"}, Fault(kind)
      PROVE  faults'.kill >= faults.kill /\ (kind = "kill" => faults'.kill > 0)
  BY <1>0, <1>k DEF Fault, Faults
<1>d. Dead.pc = "dead" /\ Asleep.pc = "asleep"
  BY DEF Dead, Asleep
\* Steps of the improvers that leave the file alone.
<1>b. ASSUME NEW p \in Improver, NEW st, Become(p, st),
             st.pc \notin {"truncate", "write"},
             improver[p].pc # "write" \/ faults'.kill > 0,
             faults'.kill >= faults.kill, UNCHANGED <<models, collided, user>>
      PROVE  IntactInv'
  <2>1. /\ improver'[p] = st
        /\ \A q \in Improver \ {p} : improver'[q] = improver[q]
    BY <1>b DEF Become, TypeOK
  <2> QED
    BY <1>b, <2>1, FileUntouched DEF InProgress
<1>1. CASE StartDaemon
  <2>1. models.intact /\ UNCHANGED <<models, collided, user, faults>>
    BY <1>1 DEF StartDaemon, Loadable
  <2>2. \A q \in Improver : improver'[q] = IF q = InProc THEN Asleep ELSE improver[q]
    BY <1>1 DEF StartDaemon, TypeOK
  <2>3. OneContent'
    BY <1>d, <2>1, <2>2 DEF IntactInv, OneContent, InProgress
  <2>4. LoneWriter' /\ OnlyTruncated' /\ IntactUnlessKilled'
    BY <1>d, <2>1, <2>2, CoreAssumption
    DEF IntactInv, LoneWriter, OnlyTruncated, IntactUnlessKilled
  <2> QED
    BY <2>3, <2>4 DEF IntactInv
<1>2. CASE KillDaemon
  BY <1>b, <1>d, <1>k, <1>2, CoreAssumption DEF KillDaemon, Become
<1>3. ASSUME NEW p \in Improver, LoadUsage(p)
      PROVE  IntactInv'
  BY <1>0, <1>b, <1>3 DEF LoadUsage
<1>4. ASSUME NEW p \in Improver, ReadConfig(p)
      PROVE  IntactInv'
  <2>1. PICK order \in Orders(models.entries, improver[p].view) :
          improver' = [improver EXCEPT
             ![p].pc = IF Reordered(models.entries, order) = models.entries
                       THEN "advise" ELSE "truncate",
             ![p].reordered = Reordered(models.entries, order)]
    BY <1>4 DEF ReadConfig
  <2>2. /\ improver[p].pc = "readConfig" /\ models.intact
        /\ UNCHANGED <<models, collided, user, faults>>
    BY <1>4 DEF ReadConfig
  <2>3. /\ improver'[p].reordered = Reordered(models.entries, order)
        /\ improver'[p].pc # "write"
        /\ \A q \in Improver \ {p} : improver'[q] = improver[q]
    BY <2>1 DEF TypeOK, ImproverState
  <2>4. ASSUME UniqueIds, edits = 0
        PROVE  EntriesOf(Reordered(models.entries, order))
                 = EntriesOf(models.entries)
    <3>1. models.entries \in Seq(Entry) /\ improver[p].view \in Seq(Line)
      BY DEF TypeOK, ImproverState
    <3>2. UniqueIdsIn(models.entries)
      BY <1>0, <2>2, <2>4, VersionUnique DEF FileInv, IntactInv, IntactUnlessKilled
    <3> QED
      BY <3>1, <3>2, ReorderedRearranges DEF Rearranges
  <2>5. OneContent'
    BY <2>2, <2>3, <2>4 DEF IntactInv, OneContent, InProgress
  <2>6. LoneWriter'
    BY <2>3, CoreAssumption DEF LoneWriter
  <2>7. OnlyTruncated' /\ IntactUnlessKilled'
    BY <2>2 DEF IntactInv, OnlyTruncated, IntactUnlessKilled
  <2> QED
    BY <2>5, <2>6, <2>7 DEF IntactInv
<1>5. ASSUME NEW p \in Improver, ReadTruncatedConfig(p)
      PROVE  IntactInv'
  BY <1>0, <1>b, <1>d, <1>5 DEF ReadTruncatedConfig
<1>6. ASSUME NEW p \in Improver, Truncate(p)
      PROVE  IntactInv'
  <2>1. /\ improver[p].pc = "truncate" /\ improver'[p].pc = "write"
        /\ \A q \in Improver : improver'[q].reordered = improver[q].reordered
        /\ \A q \in Improver \ {p} : improver'[q] = improver[q]
    BY <1>6 DEF Truncate, Goto, TypeOK, ImproverState
  <2>2. models' = TruncatedFile /\ ~models'.intact /\ UNCHANGED <<user, collided>>
    BY <1>6 DEF Truncate, TruncatedFile
  <2>3. OneContent'
    BY <2>1, <2>2 DEF IntactInv, OneContent, InProgress
  <2>4. LoneWriter' /\ OnlyTruncated' /\ IntactUnlessKilled'
    BY <2>1, <2>2 DEF IntactInv, LoneWriter, OnlyTruncated, IntactUnlessKilled
  <2> QED
    BY <2>3, <2>4 DEF IntactInv
<1>7. ASSUME NEW p \in Improver, Write(p)
      PROVE  IntactInv'
  <2>1. /\ improver[p].pc = "write" /\ improver'[p].pc = "log"
        /\ \A q \in Improver : improver'[q].reordered = improver[q].reordered
        /\ \A q \in Improver \ {p} : improver'[q] = improver[q]
        /\ UNCHANGED <<user, faults>>
    BY <1>7 DEF Write, Goto, TypeOK, ImproverState
  <2>2. \/ models' = File(improver[p].reordered) /\ UNCHANGED collided
        \/ /\ models # TruncatedFile
           /\ ~SameSize(models.entries, improver[p].reordered)
           /\ collided'
    BY <1>7 DEF Write, WriteText
  <2>3. ASSUME UniqueIds, edits = 0, models # TruncatedFile
        PROVE  SameSize(models.entries, improver[p].reordered)
    <3>1. ~collided
      BY <1>0, <2>3 DEF IntactInv, IntactUnlessKilled
    <3>2. models.intact
      BY <2>3, <3>1 DEF IntactInv, OnlyTruncated
    <3>3. EntriesOf(models.entries) = EntriesOf(improver[p].reordered)
      BY <2>1, <2>3, <3>2 DEF IntactInv, OneContent, InProgress
    <3>4. /\ UniqueIdsIn(models.entries)
          /\ UniqueIdsIn(improver[p].reordered)
      BY <2>1, <2>3, <3>1, <3>2, VersionUnique DEF FileInv
    <3> QED
      BY <3>3, <3>4, UniqueSameSize
  <2>4. OneContent'
    <3>1. ASSUME UniqueIds, edits = 0
          PROVE  EntriesOf(models'.entries) = EntriesOf(lastEdit)
      <4>1. models' = File(improver[p].reordered)
        BY <2>2, <2>3, <3>1
      <4> QED
        BY <2>1, <3>1, <4>1 DEF IntactInv, OneContent, InProgress, File
    <3> QED
      BY <2>1, <3>1 DEF IntactInv, OneContent, InProgress
  <2>5. LoneWriter'
    BY <2>1, CoreAssumption DEF LoneWriter
  <2>6. CASE models' = File(improver[p].reordered) /\ UNCHANGED collided
    BY <2>1, <2>4, <2>5, <2>6
    DEF IntactInv, OnlyTruncated, IntactUnlessKilled, File
  <2>7. CASE /\ models # TruncatedFile
             /\ ~SameSize(models.entries, improver[p].reordered)
             /\ collided'
    <3>1. edits > 0 \/ ~UniqueIds
      BY <1>0, <2>3, <2>7
    <3>2. Improver # {InProc}
      BY <2>1, <2>7 DEF IntactInv, LoneWriter
    <3>3. IntactUnlessKilled' /\ OnlyTruncated'
      BY <2>1, <2>7, <3>1, <3>2 DEF IntactUnlessKilled, OnlyTruncated
    <3> QED
      BY <2>4, <2>5, <3>3 DEF IntactInv
  <2> QED
    BY <2>2, <2>6, <2>7
<1>8. ASSUME NEW p \in Improver, LogReorder(p)
      PROVE  IntactInv'
  <2>1. CASE Goto(p, "advise") /\ (UNCHANGED faults \/ Fault("log"))
    <3>1. /\ improver'[p].pc = "advise" /\ improver[p].pc = "log"
          /\ \A q \in Improver \ {p} : improver'[q] = improver[q]
      BY <1>8, <2>1 DEF LogReorder, Goto, TypeOK, ImproverState
    <3>2. faults'.kill >= faults.kill
      BY <1>0, <1>k, <2>1
    <3> QED
      BY <1>8, <3>1, <3>2, FileUntouched DEF LogReorder, InProgress
  <2>2. CASE Become(p, Dead) /\ Fault("log")
    BY <1>b, <1>d, <1>k, <1>8, <2>2 DEF LogReorder
  <2> QED
    BY <1>8, <2>1, <2>2 DEF LogReorder
<1>9. ASSUME NEW p \in Improver, Advise(p)
      PROVE  IntactInv'
  BY <1>0, <1>b, <1>d, <1>k, <1>9 DEF Advise
<1>10. ASSUME NEW p \in Improver, RunStandalone(p)
       PROVE  IntactInv'
  BY <1>0, <1>b, <1>d, <1>10 DEF RunStandalone
<1>11. ASSUME NEW p \in Improver, KillStandalone(p)
       PROVE  IntactInv'
  BY <1>b, <1>d, <1>k, <1>11 DEF KillStandalone
<1>12. ASSUME NEW v \in Versions, EditModels(v)
       PROVE  IntactInv'
  <2>1. models'.intact /\ edits' > 0 /\ UNCHANGED improver
    BY <1>0, <1>12 DEF EditModels, File
  <2>2. \A q \in Improver : improver'[q].pc # "write"
    BY <1>12 DEF EditModels
  <2>3. UNCHANGED collided
    BY <1>12 DEF EditModels
  <2> QED
    BY <2>1, <2>2, <2>3, CoreAssumption
    DEF IntactInv, OneContent, LoneWriter, OnlyTruncated, IntactUnlessKilled
<1>13. ASSUME UNCHANGED <<models, collided, user, improver>>, faults'.kill >= faults.kill
       PROVE  IntactInv'
  BY <1>13, FileUntouched DEF InProgress
<1>14. ASSUME NEW s \in Skill, NEW b \in BOOLEAN, Schedule(s, b) \/ ScheduleNone(s, b)
       PROVE  IntactInv'
  <2>1. UNCHANGED <<models, collided, user, improver>> /\ (UNCHANGED faults \/ Fault("usage"))
    BY <1>14 DEF Schedule, ScheduleNone, RecordUsageFails
  <2> QED
    BY <1>0, <1>13, <1>k, <2>1
<1>15. CASE RecordAgent
  <2>1. UNCHANGED <<models, collided, user, improver>> /\ (UNCHANGED faults \/ Fault("usage"))
    BY <1>15 DEF RecordAgent, RecordUsageFails
  <2> QED
    BY <1>0, <1>13, <1>k, <2>1
<1>16. ASSUME NEW v, ChangeSettings(v) \/ HardwareChanges(v)
       PROVE  IntactInv'
  BY <1>0, <1>13, <1>16 DEF ChangeSettings, HardwareChanges
<1>17. CASE UNCHANGED vars
  BY <1>0, <1>13, <1>17 DEF vars
<1> QED
  BY <1>1, <1>2, <1>3, <1>4, <1>5, <1>6, <1>7, <1>8, <1>9, <1>10, <1>11,
     <1>12, <1>14, <1>15, <1>16, <1>17 DEF Next, ImproverStep

(***************************************************************************)
(* models.yaml can be read except while a pass writes it, unless a process *)
(* was killed or two improvers wrote files of different sizes over each    *)
(* other, for any number of improvers.                                     *)
(***************************************************************************)
THEOREM ReadableKept == Spec => []IntactUnlessKilled
<1>1. Init => IntactInv
  <2> SUFFICES ASSUME Init PROVE IntactInv
    OBVIOUS
  <2>1. PICK v \in Versions : models = File(v) /\ lastEdit = v
    BY DEF Init
  <2>2. \A p \in Improver : improver[p].pc \in {"asleep", "dead"}
    BY DEF Init, Asleep, Dead
  <2> QED
    BY <2>1, <2>2, CoreAssumption
    DEF Init, IntactInv, OneContent, LoneWriter, OnlyTruncated, IntactUnlessKilled,
        InProgress, File
<1>2. TypeOK /\ TypeOK' /\ FileInv /\ IntactInv /\ [Next]_vars => IntactInv'
  BY NextIntactInv
<1>3. TypeOK /\ FileInv /\ [Next]_vars => FileInv'
  BY NextFileInv
<1>4. IntactInv => IntactUnlessKilled
  BY DEF IntactInv
<1> QED
  BY InitFileInv, <1>1, <1>2, <1>3, <1>4, Typing, PTL DEF Spec

-----------------------------------------------------------------------------
(* The improvement log *)

Logging == {p \in Improver : improver[p].pc = "log"}

LogInv == UnloggedBounded /\ (up \/ improver[InProc].pc = "dead")

LEMMA LoggingFinite == IsFiniteSet(Logging) /\ Cardinality(Logging) \in Nat
<1>1. Logging \subseteq Improver
  BY DEF Logging
<1> QED
  BY <1>1, CoreAssumption, FS_Subset, FS_CardinalityType

(***************************************************************************)
(* What becomes of the number of improvers that have yet to log a reorder. *)
(***************************************************************************)
LEMMA LoggingCounted ==
  ASSUME NEW p \in Improver,
         \A q \in Improver \ {p} : improver'[q].pc = improver[q].pc
  PROVE  /\ (improver[p].pc = "log") <=> (improver'[p].pc = "log")
              => Logging' = Logging
         /\ improver[p].pc # "log" /\ improver'[p].pc = "log"
              => Cardinality(Logging') = Cardinality(Logging) + 1
         /\ improver[p].pc = "log" /\ improver'[p].pc # "log"
              => Cardinality(Logging') = Cardinality(Logging) - 1
<1>1. ASSUME (improver[p].pc = "log") <=> (improver'[p].pc = "log")
      PROVE  Logging' = Logging
  BY <1>1 DEF Logging
<1>2. ASSUME improver[p].pc # "log", improver'[p].pc = "log"
      PROVE  Cardinality(Logging') = Cardinality(Logging) + 1
  <2>1. p \notin Logging /\ Logging' = Logging \cup {p}
    BY <1>2 DEF Logging
  <2> QED
    BY <2>1, LoggingFinite, FS_AddElement
<1>3. ASSUME improver[p].pc = "log", improver'[p].pc # "log"
      PROVE  Cardinality(Logging') = Cardinality(Logging) - 1
  <2>1. p \in Logging /\ Logging' = Logging \ {p}
    BY <1>3 DEF Logging
  <2> QED
    BY <2>1, LoggingFinite, FS_RemoveElement
<1> QED
  BY <1>1, <1>2, <1>3

LEMMA NextLogInv ==
  ASSUME TypeOK, TypeOK', LogInv, [Next]_vars
  PROVE  LogInv'
<1> USE DEF file, world, daemon, log, user
<1> DEFINE n == Cardinality(Logging)
<1> HIDE DEF n
<1>0. /\ faults.kill \in Nat /\ faults.log \in Nat /\ faults \in Faults
      /\ faults'.kill \in Nat /\ faults'.log \in Nat
      /\ unlogged \in Int /\ unlogged' \in Int
      /\ n \in Nat /\ n' \in Nat
  <2>1. Logging' \subseteq Improver
    BY DEF Logging
  <2>2. n' \in Nat
    BY <2>1, CoreAssumption, FS_Subset, FS_CardinalityType DEF n
  <2> QED
    BY <2>2, LoggingFinite DEF TypeOK, Faults, n
<1>1. /\ unlogged >= n /\ unlogged <= n + faults.kill + faults.log
      /\ up \/ improver[InProc].pc = "dead"
  BY DEF LogInv, UnloggedBounded, Logging, n
<1>2. LogInv' <=> /\ unlogged' >= n' /\ unlogged' <= n' + faults'.kill + faults'.log
                  /\ up' \/ improver'[InProc].pc = "dead"
  BY DEF LogInv, UnloggedBounded, Logging, n
<1>f. ASSUME NEW kind \in {"kill", "usage", "log"}, Fault(kind)
      PROVE  faults'.kill + faults'.log =
               faults.kill + faults.log + (IF kind = "usage" THEN 0 ELSE 1)
  BY <1>0, <1>f DEF Fault, Faults
<1>d. Dead.pc = "dead" /\ Asleep.pc = "asleep"
  BY DEF Dead, Asleep
\* A kill, or a log entry that cannot be written.
<1>k. ASSUME NEW p \in Improver, improver' = [improver EXCEPT ![p] = Dead],
             Fault("kill") \/ Fault("log"), UNCHANGED unlogged,
             up' \/ p = InProc \/ (up' = up)
      PROVE  LogInv'
  <2>1. /\ improver'[p].pc # "log"
        /\ \A q \in Improver \ {p} : improver'[q] = improver[q]
        /\ up' \/ improver'[InProc].pc = "dead"
    BY <1>1, <1>d, <1>k, CoreAssumption DEF TypeOK
  <2>2. n' = n \/ n' = n - 1
    BY <2>1, LoggingCounted DEF n
  <2>3. faults'.kill + faults'.log = faults.kill + faults.log + 1
    BY <1>f, <1>k
  <2> QED
    BY <1>0, <1>1, <1>2, <1>k, <2>1, <2>2, <2>3
<1>3. CASE StartDaemon
  <2>1. /\ improver[InProc].pc = "dead" /\ improver'[InProc].pc = "asleep"
        /\ \A q \in Improver \ {InProc} : improver'[q] = improver[q]
        /\ up' /\ UNCHANGED <<unlogged, faults>>
    BY <1>1, <1>d, <1>3, CoreAssumption DEF StartDaemon, TypeOK
  <2>2. n' = n
    BY <2>1, LoggingCounted, CoreAssumption DEF n
  <2> QED
    BY <1>1, <1>2, <2>1, <2>2
<1>4. CASE KillDaemon
  BY <1>k, <1>4, CoreAssumption DEF KillDaemon
<1>5. ASSUME NEW p \in Improver, KillStandalone(p)
      PROVE  LogInv'
  BY <1>k, <1>5 DEF KillStandalone, Become
\* Steps of improvers without a fault.
<1>6. ASSUME NEW p \in Improver, Write(p)
      PROVE  LogInv'
  <2>1. /\ improver[p].pc = "write" /\ improver'[p].pc = "log"
        /\ \A q \in Improver \ {p} : improver'[q] = improver[q]
        /\ unlogged' = unlogged + 1 /\ UNCHANGED <<up, faults>>
    BY <1>6 DEF Write, Goto, TypeOK, ImproverState
  <2>2. n' = n + 1
    BY <2>1, LoggingCounted DEF n
  <2>3. up' \/ improver'[InProc].pc = "dead"
    BY <1>1, <1>6, <2>1, CoreAssumption DEF Write, Scheduled
  <2> QED
    BY <1>0, <1>1, <1>2, <2>1, <2>2, <2>3
<1>7. ASSUME NEW p \in Improver, LogReorder(p)
      PROVE  LogInv'
  <2>1. CASE LogImprovement /\ Goto(p, "advise") /\ UNCHANGED faults
    <3>1. /\ improver[p].pc = "log" /\ improver'[p].pc = "advise"
          /\ \A q \in Improver \ {p} : improver'[q] = improver[q]
          /\ unlogged' = unlogged - 1 /\ UNCHANGED <<up, faults>>
      BY <1>7, <2>1 DEF LogReorder, LogImprovement, Goto, TypeOK, ImproverState
    <3>2. n' = n - 1
      BY <3>1, LoggingCounted DEF n
    <3>3. up' \/ improver'[InProc].pc = "dead"
      BY <1>1, <1>7, <3>1, CoreAssumption DEF LogReorder, Scheduled
    <3> QED
      BY <1>0, <1>1, <1>2, <3>1, <3>2, <3>3
  <2>2. CASE Fault("log") /\ Become(p, Dead) /\ UNCHANGED unlogged
    BY <1>k, <1>7, <2>2 DEF LogReorder, Become
  <2>3. CASE Fault("log") /\ Goto(p, "advise") /\ UNCHANGED unlogged
    <3>1. /\ improver[p].pc = "log" /\ improver'[p].pc = "advise"
          /\ \A q \in Improver \ {p} : improver'[q] = improver[q]
          /\ UNCHANGED up
      BY <1>7, <2>3 DEF LogReorder, Goto, TypeOK, ImproverState
    <3>2. n' = n - 1
      BY <3>1, LoggingCounted DEF n
    <3>3. faults'.kill + faults'.log = faults.kill + faults.log + 1
      BY <1>f, <2>3
    <3>4. up' \/ improver'[InProc].pc = "dead"
      BY <1>1, <1>7, <3>1, CoreAssumption DEF LogReorder, Scheduled
    <3> QED
      BY <1>0, <1>1, <1>2, <2>3, <3>2, <3>3, <3>4
  <2> QED
    BY <1>7, <2>1, <2>2, <2>3 DEF LogReorder
<1>8. ASSUME NEW p \in Improver, Advise(p)
      PROVE  LogInv'
  <2>1. improver[p].pc = "advise" /\ UNCHANGED <<unlogged, up>>
    BY <1>8 DEF Advise
  <2>2. CASE Become(p, Asleep) /\ (UNCHANGED faults \/ Fault("log"))
    <3>1. /\ improver'[p].pc = "asleep"
          /\ \A q \in Improver \ {p} : improver'[q] = improver[q]
      BY <1>d, <2>2 DEF Become, TypeOK
    <3>2. n' = n
      BY <2>1, <3>1, LoggingCounted DEF n
    <3>3. up' \/ improver'[InProc].pc = "dead"
      BY <1>1, <1>8, <3>1, <2>1, CoreAssumption DEF Advise, Scheduled
    <3>4. faults'.kill + faults'.log >= faults.kill + faults.log
      BY <1>0, <1>f, <2>2
    <3> QED
      BY <1>0, <1>1, <1>2, <2>1, <3>2, <3>3, <3>4
  <2>3. CASE Become(p, Dead) /\ Fault("log")
    BY <1>k, <2>1, <2>3 DEF Become
  <2> QED
    BY <1>8, <2>2, <2>3 DEF Advise
<1>9. ASSUME NEW p \in Improver,
             LoadUsage(p) \/ ReadConfig(p) \/ ReadTruncatedConfig(p) \/ Truncate(p)
               \/ RunStandalone(p)
      PROVE  LogInv'
  <2>1. /\ improver[p].pc # "log" /\ improver'[p].pc # "log"
        /\ \A q \in Improver \ {p} : improver'[q] = improver[q]
    <3>1. CASE LoadUsage(p)
      BY <3>1 DEF LoadUsage, AllLines, Become, TypeOK
    <3>2. CASE ReadConfig(p)
      BY <3>2 DEF ReadConfig, TypeOK, ImproverState
    <3>3. CASE ReadTruncatedConfig(p) \/ RunStandalone(p)
      BY <1>d, <3>3 DEF ReadTruncatedConfig, RunStandalone, Become, TypeOK
    <3>4. CASE Truncate(p)
      BY <3>4 DEF Truncate, Goto, TypeOK, ImproverState
    <3> QED
      BY <1>9, <3>1, <3>2, <3>3, <3>4
  <2>2. UNCHANGED <<unlogged, faults, up>>
    BY <1>9 DEF LoadUsage, ReadConfig, ReadTruncatedConfig, Truncate, RunStandalone
  <2>3. up' \/ improver'[InProc].pc = "dead"
    BY <1>1, <1>9, <2>1, <2>2, CoreAssumption
    DEF LoadUsage, ReadConfig, ReadTruncatedConfig, Truncate, RunStandalone, Scheduled
  <2>4. n' = n
    BY <2>1, LoggingCounted DEF n
  <2> QED
    BY <1>1, <1>2, <2>2, <2>3, <2>4
<1>10. ASSUME UNCHANGED <<improver, unlogged, up>>,
              UNCHANGED faults \/ Fault("usage")
       PROVE  LogInv'
  <2>1. n' = n
    BY <1>10 DEF n, Logging
  <2>2. faults'.kill + faults'.log = faults.kill + faults.log
    BY <1>0, <1>10, <1>f
  <2> QED
    BY <1>0, <1>1, <1>2, <1>10, <2>1, <2>2
<1>11. ASSUME NEW s \in Skill, NEW b \in BOOLEAN, Schedule(s, b) \/ ScheduleNone(s, b)
       PROVE  LogInv'
  BY <1>10, <1>11 DEF Schedule, ScheduleNone, RecordUsageFails
<1>12. CASE RecordAgent
  BY <1>10, <1>12 DEF RecordAgent, RecordUsageFails
<1>13. ASSUME NEW v, EditModels(v) \/ ChangeSettings(v) \/ HardwareChanges(v)
       PROVE  LogInv'
  BY <1>10, <1>13 DEF EditModels, ChangeSettings, HardwareChanges
<1>14. CASE UNCHANGED vars
  BY <1>10, <1>14 DEF vars
<1> QED
  BY <1>3, <1>4, <1>5, <1>6, <1>7, <1>8, <1>9, <1>11, <1>12, <1>13, <1>14
  DEF Next, ImproverStep

(***************************************************************************)
(* A reorder that was applied is logged or about to be, unless its process *)
(* was killed or the log could not be written, once each, for any finite   *)
(* number of improvers.                                                    *)
(***************************************************************************)
THEOREM ReordersLogged == Spec => []UnloggedBounded
<1>1. Init => LogInv
  <2> SUFFICES ASSUME Init PROVE LogInv
    OBVIOUS
  <2>1. /\ improver[InProc].pc = "dead"
        /\ unlogged = 0 /\ faults.kill = 0 /\ faults.log = 0
    BY CoreAssumption DEF Init, Dead
  <2>2. \A p \in Improver : improver[p].pc # "log"
    BY DEF Init, Dead, Asleep
  <2>3. {p \in Improver : improver[p].pc = "log"} = {}
    BY <2>2
  <2>4. Cardinality({}) = 0
    BY FS_EmptySet
  <2>5. Cardinality({p \in Improver : improver[p].pc = "log"}) = 0
    BY <2>3, <2>4
  <2>6. UnloggedBounded
    BY <2>1, <2>5 DEF UnloggedBounded
  <2> QED
    BY <2>1, <2>6 DEF LogInv
<1>2. TypeOK /\ TypeOK' /\ LogInv /\ [Next]_vars => LogInv'
  BY NextLogInv
<1>3. LogInv => UnloggedBounded
  BY DEF LogInv
<1> QED
  BY <1>1, <1>2, <1>3, Typing, PTL DEF Spec

=============================================================================
