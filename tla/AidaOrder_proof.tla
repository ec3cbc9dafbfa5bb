--------------------------- MODULE AidaOrder_proof ---------------------------
(***************************************************************************)
(* The order of models.yaml and of the loaded registry, for any number of  *)
(* improvers, edits, kills and restarts.                                   *)
(***************************************************************************)
EXTENDS AidaCore_proof

\* entries are as the user left them, or in the order that view asks for.
SettledBy(entries, view) == view = <<>> \/ Settled(entries, view)

(***************************************************************************)
(* The inductive invariant: what is on disk, what is loaded and what is    *)
(* about to be written is in the order of the log it was reordered by; and *)
(* a lone improver writes only when its log is another one.                *)
(***************************************************************************)
DiskSettled == models.intact => SettledBy(models.entries, diskOrder)

LoadedSettled == up => SettledBy(snapshot.registry, snapshot.order)

PendingSettled ==
  \A p \in Improver :
    /\ improver[p].pc \in {"readConfig", "truncate", "write"}
         => improver[p].view # <<>>
    /\ improver[p].pc \in {"truncate", "write"}
         => Settled(improver[p].reordered, improver[p].view)

OrderInv == DiskSettled /\ LoadedSettled /\ PendingSettled /\ NoRepeatedReorder

LEMMA EnoughIsSome ==
  ASSUME NEW view \in Seq(Line), EnoughSamples(view)
  PROVE  view # <<>>
BY CoreAssumption DEF EnoughSamples

LEMMA InitOrderInv == Init => OrderInv
<1> SUFFICES ASSUME Init PROVE OrderInv
  OBVIOUS
<1>1. ~up /\ diskOrder = <<>>
  BY DEF Init
<1>2. \A p \in Improver : improver[p].pc \in {"asleep", "dead"}
  BY DEF Init, Asleep, Dead
<1> QED
  BY <1>1, <1>2, CoreAssumption
  DEF OrderInv, DiskSettled, LoadedSettled, PendingSettled, NoRepeatedReorder,
      SettledBy

LEMMA NextOrderInv ==
  ASSUME TypeOK, OrderInv, [Next]_vars
  PROVE  OrderInv'
<1> USE DEF file, world, daemon, log, user
<1>t. /\ \A p \in Improver : improver[p] \in ImproverState
      /\ models.entries \in Seq(Entry) /\ usage \in Seq(Line)
      /\ diskOrder \in Seq(Line) /\ InProc \in Improver
  BY CoreAssumption DEF TypeOK
<1>k. ASSUME UNCHANGED <<models, diskOrder, snapshot>>, up' => up,
             \A q \in Improver :
               \/ improver'[q] = improver[q]
               \/ improver'[q].pc \notin {"readConfig", "truncate", "write"}
      PROVE  OrderInv'
  BY <1>k, <1>t
  DEF OrderInv, DiskSettled, LoadedSettled, PendingSettled, NoRepeatedReorder
<1>b. ASSUME NEW p \in Improver, NEW st,
             st.pc \notin {"readConfig", "truncate", "write"},
             improver' = [improver EXCEPT ![p] = st]
      PROVE  \A q \in Improver :
               \/ improver'[q] = improver[q]
               \/ improver'[q].pc \notin {"readConfig", "truncate", "write"}
  BY <1>b DEF TypeOK
<1>d. Dead.pc = "dead" /\ Asleep.pc = "asleep"
  BY DEF Dead, Asleep
<1>1. CASE StartDaemon
  <2>1. /\ snapshot'.registry = models.entries
        /\ snapshot'.order = diskOrder
        /\ models.intact /\ UNCHANGED <<models, diskOrder>>
        /\ improver' = [improver EXCEPT ![InProc] = Asleep]
    BY <1>1 DEF StartDaemon, SnapshotOf, Loadable
  <2>2. LoadedSettled'
    BY <2>1 DEF LoadedSettled, OrderInv, DiskSettled
  <2>3. \A q \in Improver :
          \/ improver'[q] = improver[q]
          \/ improver'[q].pc \notin {"readConfig", "truncate", "write"}
    BY <2>1, <1>b, <1>d, <1>t
  <2> QED
    BY <2>1, <2>2, <2>3, <1>t
    DEF OrderInv, DiskSettled, PendingSettled, NoRepeatedReorder
<1>2. CASE KillDaemon
  <2>1. improver' = [improver EXCEPT ![InProc] = Dead]
    BY <1>2 DEF KillDaemon
  <2> QED
    BY <1>2, <2>1, <1>b, <1>d, <1>k, <1>t DEF KillDaemon
<1>3. ASSUME NEW p \in Improver, LoadUsage(p)
      PROVE  OrderInv'
  <2> DEFINE st == [pc |-> IF EnoughSamples(usage) THEN "readConfig"
                           ELSE "advise",
                    view |-> usage, reordered |-> <<>>]
  <2>1. improver' = [improver EXCEPT ![p] = st]
    BY <1>3 DEF LoadUsage, Become, AllLines
  <2>2. improver'[p] = st /\ \A q \in Improver \ {p} : improver'[q] = improver[q]
    BY <2>1 DEF TypeOK
  <2>3. st.pc = "readConfig" => st.view # <<>>
    BY <1>t, EnoughIsSome
  <2>4. st.pc \notin {"truncate", "write"}
    OBVIOUS
  <2> HIDE DEF st
  <2>5. UNCHANGED <<models, diskOrder, snapshot, up>>
    BY <1>3 DEF LoadUsage
  <2> QED
    BY <2>2, <2>3, <2>4, <2>5, <1>t
    DEF OrderInv, DiskSettled, LoadedSettled, PendingSettled, NoRepeatedReorder
<1>4. ASSUME NEW p \in Improver, ReadConfig(p)
      PROVE  OrderInv'
  <2> DEFINE view == improver[p].view
  <2>1. PICK order \in Orders(models.entries, view) :
          improver' = [improver EXCEPT
             ![p].pc = IF Reordered(models.entries, order) = models.entries
                       THEN "advise" ELSE "truncate",
             ![p].reordered = Reordered(models.entries, order)]
    BY <1>4 DEF ReadConfig
  <2>2. PICK r : r = Reordered(models.entries, order)
    OBVIOUS
  <2>3. /\ models.intact /\ improver[p].pc = "readConfig"
        /\ UNCHANGED <<models, diskOrder, snapshot, up>>
    BY <1>4 DEF ReadConfig
  <2>4. view \in Seq(Line) /\ view # <<>>
    BY <1>t, <2>3 DEF OrderInv, PendingSettled, ImproverState
  <2>5. Settled(r, view)
    BY <1>t, <2>2, <2>4, ReorderedSettled
  <2>6. /\ improver'[p].reordered = r
        /\ improver'[p].view = view
        /\ improver'[p].pc = IF r = models.entries THEN "advise" ELSE "truncate"
        /\ \A q \in Improver \ {p} : improver'[q] = improver[q]
    BY <2>1, <2>2, <1>t DEF TypeOK, ImproverState
  <2>7. PendingSettled'
    BY <2>4, <2>5, <2>6 DEF OrderInv, PendingSettled
  <2>8. NoRepeatedReorder'
    <3> SUFFICES ASSUME r # models.entries, view = diskOrder
                 PROVE  FALSE
      BY <2>3, <2>6, <1>t DEF OrderInv, NoRepeatedReorder
    <3>1. Settled(models.entries, view)
      BY <2>3, <2>4 DEF OrderInv, DiskSettled, SettledBy
    <3>2. InPromotedOrder(models.entries, view)
      BY <3>1, <2>4, <1>t, SettledStays
    <3> QED
      BY <3>2, <2>2 DEF InPromotedOrder
  <2> QED
    BY <2>3, <2>7, <2>8 DEF OrderInv, DiskSettled, LoadedSettled
<1>5. ASSUME NEW p \in Improver, Truncate(p)
      PROVE  OrderInv'
  <2>1. /\ improver[p].pc = "truncate" /\ ~models'.intact
        /\ UNCHANGED <<diskOrder, snapshot, up>>
    BY <1>5 DEF Truncate, TruncatedFile
  <2>2. /\ improver'[p] = [improver[p] EXCEPT !.pc = "write"]
        /\ \A q \in Improver \ {p} : improver'[q] = improver[q]
    BY <1>5 DEF Truncate, Goto, TypeOK
  <2>3. /\ improver'[p].pc = "write"
        /\ improver'[p].view = improver[p].view
        /\ improver'[p].reordered = improver[p].reordered
    BY <2>2, <1>t DEF ImproverState
  <2> QED
    BY <2>1, <2>2, <2>3, <1>t
    DEF OrderInv, DiskSettled, LoadedSettled, PendingSettled, NoRepeatedReorder
<1>6. ASSUME NEW p \in Improver, Write(p)
      PROVE  OrderInv'
  <2>1. improver[p].pc = "write" /\ UNCHANGED <<snapshot, up>>
    BY <1>6 DEF Write
  <2>2. \/ models' = File(improver[p].reordered) /\ diskOrder' = improver[p].view
        \/ diskOrder' = <<>>
    BY <1>6 DEF Write
  <2>3. /\ improver'[p] = [improver[p] EXCEPT !.pc = "log"]
        /\ \A q \in Improver \ {p} : improver'[q] = improver[q]
    BY <1>6 DEF Write, Goto, TypeOK
  <2>4. improver'[p].pc = "log"
    BY <2>3, <1>t DEF ImproverState
  <2>5. DiskSettled'
    BY <2>1, <2>2 DEF OrderInv, DiskSettled, PendingSettled, SettledBy, File
  <2> QED
    BY <2>1, <2>3, <2>4, <2>5, <1>t
    DEF OrderInv, LoadedSettled, PendingSettled, NoRepeatedReorder
<1>7. ASSUME NEW p \in Improver, LogReorder(p)
      PROVE  OrderInv'
  <2>1. CASE Goto(p, "advise")
    <3>1. /\ improver'[p] = [improver[p] EXCEPT !.pc = "advise"]
          /\ \A q \in Improver \ {p} : improver'[q] = improver[q]
      BY <2>1 DEF Goto, TypeOK
    <3>2. improver'[p].pc = "advise"
      BY <3>1, <1>t DEF ImproverState
    <3> QED
      BY <3>1, <3>2, <1>7, <1>k DEF LogReorder
  <2>2. CASE Become(p, Dead)
    BY <2>2, <1>7, <1>b, <1>d, <1>k DEF LogReorder, Become
  <2> QED
    BY <1>7, <2>1, <2>2 DEF LogReorder
<1>8. ASSUME NEW p \in Improver,
             Advise(p) \/ ReadTruncatedConfig(p) \/ RunStandalone(p)
               \/ KillStandalone(p)
      PROVE  OrderInv'
  <2>1. Become(p, Dead) \/ Become(p, Asleep)
    BY <1>8 DEF Advise, ReadTruncatedConfig, RunStandalone, KillStandalone
  <2>2. UNCHANGED <<models, diskOrder, snapshot, up>>
    BY <1>8 DEF Advise, ReadTruncatedConfig, RunStandalone, KillStandalone
  <2> QED
    BY <2>1, <2>2, <1>b, <1>d, <1>k DEF Become
<1>9. ASSUME NEW v \in Versions, EditModels(v)
      PROVE  OrderInv'
  <2>1. /\ diskOrder' = <<>>
        /\ UNCHANGED <<snapshot, up, improver>>
    BY <1>9 DEF EditModels
  <2> QED
    BY <2>1, <1>t
    DEF OrderInv, DiskSettled, LoadedSettled, PendingSettled, NoRepeatedReorder,
        SettledBy
<1>10. ASSUME NEW s \in Skill, NEW b \in BOOLEAN,
              Schedule(s, b) \/ ScheduleNone(s, b)
       PROVE  OrderInv'
  BY <1>10, <1>k DEF Schedule, ScheduleNone
<1>11. CASE RecordAgent
  BY <1>11, <1>k DEF RecordAgent
<1>12. ASSUME NEW v, ChangeSettings(v) \/ HardwareChanges(v)
       PROVE  OrderInv'
  BY <1>12, <1>k DEF ChangeSettings, HardwareChanges
<1>13. CASE UNCHANGED vars
  BY <1>13, <1>k DEF vars
<1> QED
  BY <1>1, <1>2, <1>3, <1>4, <1>5, <1>6, <1>7, <1>8, <1>9, <1>10, <1>11, <1>12,
     <1>13 DEF Next, ImproverStep

(***************************************************************************)
(* Whatever the interleaving, models.yaml (when it parses) and the loaded  *)
(* registry are in the order of the log they were last reordered by.       *)
(***************************************************************************)
THEOREM Ordered == Spec => []OrderInv
<1>1. TypeOK /\ OrderInv /\ [Next]_vars => OrderInv'
  BY NextOrderInv
<1> QED
  BY InitOrderInv, <1>1, Typing, PTL DEF Spec

(***************************************************************************)
(* A lone improver does not rewrite models.yaml twice for the same log,    *)
(* whatever is scheduled, edited or killed in between: the comparison      *)
(* before the write (selfimprove.py 92) is enough.                         *)
(***************************************************************************)
THEOREM NoIdleRewrite == Spec => []NoRepeatedReorder
<1>1. OrderInv => NoRepeatedReorder
  BY DEF OrderInv
<1> QED
  BY <1>1, Ordered, PTL

-----------------------------------------------------------------------------
(* Orders move forward *)

LEMMA PrefixReads ==
  ASSUME NEW S, NEW a \in Seq(S), NEW b \in Seq(S)
  PROVE  IsPrefix(a, b) <=> Len(a) <= Len(b) /\ \A n \in DOMAIN a : a[n] = b[n]
<1>1. CASE Len(a) <= Len(b)
  <2> DEFINE c == SubSeq(b, 1, Len(a))
  <2>1. c \in Seq(S) /\ Len(c) = Len(a) /\ \A n \in DOMAIN a : c[n] = b[n]
    BY <1>1
  <2>2. SubSeq(a, 1, Len(a)) = a
    OBVIOUS
  <2>3. IsPrefix(a, b) <=> a = c
    BY <1>1, <2>2 DEF IsPrefix
  <2> HIDE DEF c
  <2>4. c = a <=> \A n \in DOMAIN a : c[n] = a[n]
    BY <2>1, SeqEqual
  <2> QED
    BY <1>1, <2>1, <2>3, <2>4
<1> QED
  BY <1>1 DEF IsPrefix

LEMMA PrefixLaws ==
  ASSUME NEW S, NEW a \in Seq(S), NEW b \in Seq(S)
  PROVE  /\ IsPrefix(<<>>, a) /\ IsPrefix(a, a)
         /\ \A x \in S : IsPrefix(a, b) => IsPrefix(a, Append(b, x))
<1>1. IsPrefix(<<>>, a)
  <2>1. <<>> \in Seq(S) /\ Len(<<>>) = 0 /\ DOMAIN <<>> = {} /\ Len(a) >= 0
    OBVIOUS
  <2> QED
    BY <2>1, PrefixReads
<1>2. IsPrefix(a, a)
  BY PrefixReads
<1>3. ASSUME NEW x \in S, IsPrefix(a, b) PROVE IsPrefix(a, Append(b, x))
  <2>0. Append(b, x) \in Seq(S)
    OBVIOUS
  <2>1. PICK c \in Seq(S) : c = Append(b, x)
    BY <2>0
  <2>2. Len(c) = Len(b) + 1 /\ \A n \in 1..Len(b) : c[n] = b[n]
    BY <2>1
  <2>3. Len(a) <= Len(b) /\ \A n \in DOMAIN a : a[n] = b[n]
    BY <1>3, PrefixReads
  <2>4. Len(a) <= Len(c) /\ \A n \in DOMAIN a : a[n] = c[n]
    <3>1. Len(a) \in Nat /\ Len(b) \in Nat /\ DOMAIN a = 1..Len(a)
      OBVIOUS
    <3>2. DOMAIN a \subseteq 1..Len(b)
      BY <2>3, <3>1
    <3>3. Len(a) <= Len(c)
      BY <2>2, <2>3, <3>1
    <3> QED
      BY <2>2, <2>3, <3>2, <3>3
  <2>5. IsPrefix(a, c)
    BY <2>4, PrefixReads
  <2> QED
    BY <2>1, <2>5
<1> QED
  BY <1>1, <1>2, <1>3

LEMMA PrefixTransitive ==
  ASSUME NEW S, NEW a \in Seq(S), NEW b \in Seq(S), NEW c \in Seq(S),
         IsPrefix(a, b), IsPrefix(b, c)
  PROVE  IsPrefix(a, c)
<1>1. Len(a) <= Len(b) /\ \A n \in DOMAIN a : a[n] = b[n]
  BY PrefixReads
<1>2. Len(b) <= Len(c) /\ \A n \in DOMAIN b : b[n] = c[n]
  BY PrefixReads
<1>3. Len(a) <= Len(c)
  BY <1>1, <1>2
<1>4. ASSUME NEW n \in DOMAIN a PROVE a[n] = c[n]
  <2>1. n \in DOMAIN b
    BY <1>1
  <2> QED
    BY <1>1, <1>2, <2>1
<1> QED
  BY <1>3, <1>4, PrefixReads

LEMMA FrontPrefix ==
  ASSUME NEW S, NEW a \in Seq(S)
  PROVE  IsPrefix(Front(a), a)
<1>1. Front(a) \in Seq(S)
  BY FrontType
<1>2. CASE a = <<>>
  <2>1. Len(a) - 1 \in Int /\ Len(a) - 1 < 1
    BY <1>2
  <2>2. Front(a) = <<>>
    BY <2>1, SubSeqEmpty DEF Front
  <2> QED
    BY <2>2, PrefixLaws
<1>3. CASE a # <<>>
  <2> DEFINE n == Len(a) - 1
  <2>1. n \in Nat /\ Len(Front(a)) = n /\ n <= Len(a)
    BY <1>3, FrontType
  <2>2. \A i \in 1..n : a[i] \in S /\ 1 + i - 1 = i
    OBVIOUS
  <2>3. DOMAIN Front(a) = 1..n
    BY <1>1, <2>1
  <2>4. n \in Int /\ 1 \in Int /\ n - 1 + 1 = n
    BY <2>1
  <2>5. Front(a) = SubSeq(a, 1, n)
    BY DEF Front
  <2> HIDE DEF n
  <2>6. \A i \in 1..n : Front(a)[i] = a[i]
    BY <2>2, <2>4, <2>5, SubSeqProperties
  <2> QED
    BY <1>1, <2>1, <2>3, <2>6, PrefixReads
<1> QED
  BY <1>2, <1>3

LEMMA FrontOfAppend ==
  ASSUME NEW S, NEW a \in Seq(S), NEW x \in S
  PROVE  Front(Append(a, x)) = a
<1>0. Append(a, x) \in Seq(S)
  OBVIOUS
<1>1. PICK b \in Seq(S) : b = Append(a, x)
  BY <1>0
<1>2. /\ Len(b) = Len(a) + 1 /\ b # <<>>
      /\ \A i \in 1..Len(a) : b[i] = a[i]
  BY <1>1
<1>3. Front(b) \in Seq(S) /\ Len(Front(b)) = Len(b) - 1
  BY <1>2, FrontType
<1>4. Len(Front(b)) = Len(a)
  BY <1>2, <1>3
<1>5. \A i \in 1..Len(Front(b)) : Front(b)[i] = b[i]
  BY <1>3, FrontPrefix, PrefixReads
<1>6. \A i \in 1..Len(a) : Front(b)[i] = a[i]
  BY <1>2, <1>4, <1>5
<1> QED
  BY <1>1, <1>3, <1>4, <1>6, SeqEqual

(***************************************************************************)
(* Appends only fail once the disk is full, and from then on the last line *)
(* of a log may be glued to the next.  What is left of it lasts: of every  *)
(* log that a pass works from, or that the file was reordered by, it is a  *)
(* beginning of the lines that end in a newline; and a lone improver works *)
(* from a log that continues the file's.                                   *)
(***************************************************************************)
Lasting(l) == IF faults.usage = 0 THEN l ELSE Front(l)

OpenOnlyIfFull == tail = "open" => faults.usage > 0

LogsArePrefixes ==
  /\ IsPrefix(Lasting(diskOrder), Closed)
  /\ \A p \in Improver : IsPrefix(Lasting(improver[p].view), Closed)

LoneViewIsLater ==
  Improver = {InProc} /\ improver[InProc].pc \in {"readConfig", "truncate", "write"}
    => IsPrefix(Lasting(diskOrder), improver[InProc].view)

ForwardInv == OpenOnlyIfFull /\ LogsArePrefixes /\ LoneViewIsLater

LEMMA LastingLaws ==
  ASSUME NEW l \in Seq(Line)
  PROVE  /\ Lasting(l) \in Seq(Line)
         /\ IsPrefix(Lasting(l), l)
         /\ Lasting(<<>>) = <<>>
<1>1. Front(l) \in Seq(Line) /\ IsPrefix(Front(l), l) /\ IsPrefix(l, l)
  BY FrontType, FrontPrefix, PrefixLaws
<1>2. <<>> \in Seq(Line) /\ Len(<<>>) - 1 \in Int /\ Len(<<>>) - 1 < 1
  OBVIOUS
<1>3. Front(<<>>) = <<>>
  BY <1>2, SubSeqEmpty DEF Front
<1> QED
  BY <1>1, <1>3 DEF Lasting

LEMMA ClosedLaws ==
  ASSUME TypeOK
  PROVE  /\ Closed \in Seq(Line) /\ IsPrefix(Closed, usage)
         /\ OpenOnlyIfFull => IsPrefix(Lasting(usage), Closed)
<1>1. usage \in Seq(Line) /\ faults.usage \in Nat
  BY DEF TypeOK, Faults
<1>2. /\ Front(usage) \in Seq(Line) /\ IsPrefix(Front(usage), usage)
      /\ IsPrefix(usage, usage) /\ IsPrefix(Front(usage), Front(usage))
  BY <1>1, FrontType, FrontPrefix, PrefixLaws
<1> QED
  BY <1>1, <1>2 DEF Closed, Lasting, OpenOnlyIfFull

LEMMA InitForwardInv == Init => ForwardInv
<1> SUFFICES ASSUME Init PROVE ForwardInv
  OBVIOUS
<1>1. Closed = <<>> /\ diskOrder = <<>> /\ tail # "open"
  BY DEF Init, Closed
<1>2. \A p \in Improver :
        improver[p].pc \in {"asleep", "dead"} /\ improver[p].view = <<>>
  BY DEF Init, Asleep, Dead
<1>3. <<>> \in Seq(Line)
  OBVIOUS
<1>4. IsPrefix(<<>>, <<>>) /\ Lasting(<<>>) = <<>>
  BY <1>3, PrefixLaws, LastingLaws
<1> QED
  BY <1>1, <1>2, <1>4, CoreAssumption
  DEF ForwardInv, OpenOnlyIfFull, LogsArePrefixes, LoneViewIsLater

\* The log only grows, one line at a time, and an append may fail.
LEMMA LogGrows ==
  ASSUME TypeOK, TypeOK', ForwardInv, UNCHANGED <<diskOrder, improver>>,
         Closed' = Closed \/ \E x \in Line : Closed' = Append(Closed, x),
         UNCHANGED faults.usage \/ faults'.usage > 0,
         OpenOnlyIfFull'
  PROVE  ForwardInv'
<1>0. Closed' \in Seq(Line)
  <2>1. usage' \in Seq(Line)
    BY DEF TypeOK
  <2>2. Front(usage') \in Seq(Line)
    BY <2>1, FrontType
  <2> QED
    BY <2>1, <2>2 DEF Closed
<1>1. /\ diskOrder \in Seq(Line) /\ Closed \in Seq(Line) /\ Closed' \in Seq(Line)
      /\ \A p \in Improver : improver[p].view \in Seq(Line)
      /\ InProc \in Improver
  BY <1>0, ClosedLaws, CoreAssumption DEF TypeOK, ImproverState
<1>2. ASSUME NEW l \in Seq(Line)
      PROVE  /\ Lasting(l)' \in Seq(Line) /\ Lasting(l) \in Seq(Line)
             /\ IsPrefix(Lasting(l)', Lasting(l))
  <2>1. /\ Front(l) \in Seq(Line) /\ IsPrefix(Front(l), l)
        /\ IsPrefix(l, l) /\ IsPrefix(Front(l), Front(l))
    BY FrontType, FrontPrefix, PrefixLaws
  <2>2. faults.usage \in Nat /\ faults'.usage \in Nat
    BY DEF TypeOK, Faults
  <2> QED
    BY <2>1, <2>2 DEF Lasting
<1>3. ASSUME NEW l \in Seq(Line), IsPrefix(Lasting(l), Closed)
      PROVE  IsPrefix(Lasting(l)', Closed')
  <2>1. IsPrefix(Lasting(l), Closed')
    <3>1. ASSUME NEW x \in Line PROVE IsPrefix(Lasting(l), Append(Closed, x))
      BY <1>1, <1>2, <1>3, PrefixLaws
    <3> QED
      BY <1>3, <3>1
  <2> QED
    BY <1>1, <1>2, <2>1, PrefixTransitive
<1>4. LogsArePrefixes'
  BY <1>1, <1>3 DEF ForwardInv, LogsArePrefixes
<1>5. LoneViewIsLater'
  BY <1>1, <1>2, PrefixTransitive DEF ForwardInv, LoneViewIsLater
<1> QED
  BY <1>4, <1>5 DEF ForwardInv

\* What record_usage makes of the lines that end in a newline.
LEMMA RecordGrows ==
  ASSUME TypeOK, TypeOK', ForwardInv, NEW line \in Line,
         \/ RecordUsage(line) /\ UNCHANGED faults
         \/ RecordUsageFails(line)
  PROVE  /\ Closed' = Closed \/ \E x \in Line : Closed' = Append(Closed, x)
         /\ UNCHANGED faults.usage \/ faults'.usage > 0
         /\ OpenOnlyIfFull'
<1> USE DEF log
<1>1. usage \in Seq(Line) /\ tail \in {"whole", "half", "open"}
  BY DEF TypeOK
<1>2. CASE RecordUsage(line) /\ UNCHANGED faults
  <2>1. tail' = "whole" /\ Closed' = usage'
    BY <1>2 DEF RecordUsage, Closed
  <2>2. CASE tail = "whole"
    <3>1. Closed' = Append(Closed, line)
      BY <1>2, <2>1, <2>2 DEF RecordUsage, Closed
    <3> QED
      BY <1>2, <2>1, <3>1 DEF OpenOnlyIfFull
  <2>3. CASE tail # "whole"
    <3>1. Closed' = Closed
      BY <1>2, <2>1, <2>3 DEF RecordUsage
    <3> QED
      BY <1>2, <2>1, <3>1 DEF OpenOnlyIfFull
  <2> QED
    BY <2>2, <2>3
<1>3. CASE RecordUsageFails(line)
  <2>1. faults'.usage > 0
    <3>1. faults.usage \in Nat /\ faults'.usage = faults.usage + 1
      BY <1>3 DEF RecordUsageFails, Fault, TypeOK, Faults
    <3> QED
      BY <3>1
  <2>2. CASE UNCHANGED log
    BY <2>1, <2>2 DEF Closed, OpenOnlyIfFull
  <2>3. CASE usage' = Closed /\ tail' = "half"
    BY <2>1, <2>3 DEF Closed, OpenOnlyIfFull
  <2>4. CASE tail = "whole" /\ usage' = Append(usage, line) /\ tail' = "open"
    <3>1. Closed' = Front(Append(usage, line)) /\ Closed = usage
      BY <2>4 DEF Closed
    <3>2. Closed' = Closed
      BY <1>1, <3>1, FrontOfAppend
    <3> QED
      BY <2>1, <3>2 DEF OpenOnlyIfFull
  <2> QED
    BY <1>3, <2>2, <2>3, <2>4 DEF RecordUsageFails
<1> QED
  BY <1>2, <1>3

\* A pass goes on with the log it has read, or none begins.
LEMMA PassGoesOn ==
  ASSUME TypeOK, ForwardInv, NEW p \in Improver, NEW st,
         \/ st.view = <<>> /\ st.pc \in {"asleep", "dead"}
         \/ st.view = improver[p].view /\ st.pc \in {"log", "advise"}
         \/ /\ st.view = improver[p].view
            /\ improver[p].pc \in {"readConfig", "truncate", "write"},
         improver' = [improver EXCEPT ![p] = st],
         UNCHANGED <<diskOrder, usage, tail, faults.usage>>
  PROVE  ForwardInv'
<1>0. /\ Closed \in Seq(Line) /\ InProc \in Improver /\ <<>> \in Seq(Line)
      /\ Closed' = Closed /\ OpenOnlyIfFull'
  BY CoreAssumption, ClosedLaws DEF Closed, ForwardInv, OpenOnlyIfFull
<1>1. \A l : Lasting(l)' = Lasting(l)
  BY DEF Lasting
<1>2. /\ improver'[p] = st
      /\ \A q \in Improver \ {p} : improver'[q] = improver[q]
  BY DEF TypeOK
<1>3. IsPrefix(Lasting(<<>>), Closed)
  BY <1>0, PrefixLaws, LastingLaws
<1>4. /\ IsPrefix(Lasting(diskOrder)', Closed')
      /\ \A q \in Improver : IsPrefix(Lasting(improver'[q].view), Closed)
  BY <1>0, <1>1, <1>2, <1>3 DEF ForwardInv, LogsArePrefixes, Lasting
<1>5. LogsArePrefixes'
  BY <1>0, <1>4 DEF LogsArePrefixes, Lasting
<1>6. LoneViewIsLater'
  BY <1>0, <1>2 DEF ForwardInv, LoneViewIsLater, Lasting
<1> QED
  BY <1>0, <1>5, <1>6 DEF ForwardInv

MovesForward ==
  Improver = {InProc} =>
    \/ diskOrder' = <<>>
    \/ IsPrefix(diskOrder, diskOrder')
    \/ faults.usage > 0 /\ IsPrefix(Front(diskOrder), diskOrder')

LEMMA NextForwardInv ==
  ASSUME TypeOK, TypeOK', ForwardInv, [Next]_vars
  PROVE  ForwardInv' /\ MovesForward
<1> USE DEF file, world, daemon, log, user
<1>t. /\ \A p \in Improver : improver[p] \in ImproverState
      /\ \A p \in Improver : improver[p].view \in Seq(Line)
      /\ usage \in Seq(Line) /\ diskOrder \in Seq(Line) /\ InProc \in Improver
      /\ Closed \in Seq(Line)
      /\ faults \in Faults /\ faults.usage \in Nat
  BY CoreAssumption, ClosedLaws DEF TypeOK, ImproverState, Faults
<1>s. UNCHANGED diskOrder => MovesForward
  BY <1>t, PrefixLaws DEF MovesForward
\* No other failure is one of an append.
<1>f. ASSUME Fault("kill") \/ Fault("log")
      PROVE  faults'.usage = faults.usage
  BY <1>f, <1>t DEF Fault, Faults
<1>d. /\ Dead.pc = "dead" /\ Dead.view = <<>>
      /\ Asleep.pc = "asleep" /\ Asleep.view = <<>>
  BY DEF Dead, Asleep
<1>1. CASE StartDaemon \/ KillDaemon
  <2>1. /\ \/ improver' = [improver EXCEPT ![InProc] = Dead]
           \/ improver' = [improver EXCEPT ![InProc] = Asleep]
        /\ UNCHANGED <<diskOrder, usage>>
    BY <1>1 DEF StartDaemon, KillDaemon
  <2>2. UNCHANGED <<tail, faults.usage>>
    BY <1>1, <1>f DEF StartDaemon, KillDaemon
  <2> QED
    BY <2>1, <2>2, <1>d, <1>s, <1>t, PassGoesOn
<1>2. ASSUME NEW p \in Improver, LoadUsage(p)
      PROVE  ForwardInv' /\ MovesForward
  <2>1. /\ improver'[p].view = usage
        /\ \A q \in Improver \ {p} : improver'[q] = improver[q]
        /\ UNCHANGED <<diskOrder, usage, tail, faults>>
    BY <1>2 DEF LoadUsage, Become, AllLines, TypeOK
  <2>2. /\ IsPrefix(Lasting(usage), Closed) /\ IsPrefix(Closed, usage)
        /\ Closed' = Closed /\ OpenOnlyIfFull'
    BY <2>1, ClosedLaws DEF Closed, OpenOnlyIfFull, ForwardInv
  <2>3. LogsArePrefixes'
    BY <2>1, <2>2 DEF ForwardInv, LogsArePrefixes, Lasting
  <2>4. IsPrefix(Lasting(diskOrder), usage)
    BY <2>2, <1>t, PrefixTransitive, LastingLaws DEF ForwardInv, LogsArePrefixes
  <2>5. LoneViewIsLater'
    BY <2>1, <2>4, <1>t DEF LoneViewIsLater, Lasting
  <2> QED
    BY <2>1, <2>2, <2>3, <2>5, <1>s DEF ForwardInv
<1>3. ASSUME NEW p \in Improver, ReadConfig(p)
      PROVE  ForwardInv' /\ MovesForward
  <2>1. PICK pc, r : improver' = [improver EXCEPT ![p].pc = pc, ![p].reordered = r]
    BY <1>3 DEF ReadConfig
  <2>2. PICK st : st = [improver[p] EXCEPT !.pc = pc, !.reordered = r]
    OBVIOUS
  <2>3. st.view = improver[p].view /\ improver' = [improver EXCEPT ![p] = st]
    BY <2>1, <2>2, <1>t DEF ImproverState, TypeOK
  <2>4. /\ improver[p].pc = "readConfig"
        /\ UNCHANGED <<diskOrder, usage, tail, faults>>
    BY <1>3 DEF ReadConfig
  <2> QED
    BY <2>3, <2>4, <1>s, PassGoesOn
<1>4. ASSUME NEW p \in Improver, Truncate(p)
      PROVE  ForwardInv' /\ MovesForward
  <2>1. PICK st : st = [improver[p] EXCEPT !.pc = "write"]
    OBVIOUS
  <2>2. st.view = improver[p].view /\ improver' = [improver EXCEPT ![p] = st]
    BY <2>1, <1>4, <1>t DEF Truncate, Goto, ImproverState, TypeOK
  <2>3. improver[p].pc = "truncate" /\ UNCHANGED <<diskOrder, usage, tail, faults>>
    BY <1>4 DEF Truncate
  <2> QED
    BY <2>2, <2>3, <1>s, PassGoesOn
<1>5. ASSUME NEW p \in Improver, Write(p)
      PROVE  ForwardInv' /\ MovesForward
  <2>1. /\ improver[p].pc = "write"
        /\ diskOrder' \in {improver[p].view, <<>>}
        /\ UNCHANGED <<usage, tail, faults>>
    BY <1>5 DEF Write
  <2>2. /\ improver'[p].pc = "log" /\ improver'[p].view = improver[p].view
        /\ \A q \in Improver \ {p} : improver'[q] = improver[q]
    BY <1>5, <1>t DEF Write, Goto, ImproverState, TypeOK
  <2>3. Improver = {InProc} => p = InProc
    OBVIOUS
  <2>4. MovesForward
    BY <2>1, <2>3, <1>t
    DEF ForwardInv, LoneViewIsLater, Lasting, MovesForward
  <2>5. Closed' = Closed /\ OpenOnlyIfFull'
    BY <2>1 DEF Closed, OpenOnlyIfFull, ForwardInv
  <2>6. IsPrefix(Lasting(<<>>), Closed)
    BY <1>t, PrefixLaws, LastingLaws
  <2>7. LogsArePrefixes'
    BY <2>1, <2>2, <2>5, <2>6 DEF ForwardInv, LogsArePrefixes, Lasting
  <2>8. LoneViewIsLater'
    BY <2>2, <2>3, <1>t DEF LoneViewIsLater
  <2> QED
    BY <2>4, <2>5, <2>7, <2>8 DEF ForwardInv
<1>6. ASSUME NEW p \in Improver, LogReorder(p)
      PROVE  ForwardInv' /\ MovesForward
  <2>1. UNCHANGED <<diskOrder, usage, tail, faults.usage>>
    BY <1>6, <1>f DEF LogReorder
  <2>2. CASE Goto(p, "advise")
    <3>1. PICK st : st = [improver[p] EXCEPT !.pc = "advise"]
      OBVIOUS
    <3>2. /\ st.view = improver[p].view /\ st.pc = "advise"
          /\ improver' = [improver EXCEPT ![p] = st]
      BY <3>1, <2>2, <1>t DEF Goto, ImproverState, TypeOK
    <3> QED
      BY <2>1, <3>2, <1>s, PassGoesOn
  <2>3. CASE Become(p, Dead)
    BY <2>1, <2>3, <1>d, <1>s, PassGoesOn DEF Become
  <2> QED
    BY <1>6, <2>2, <2>3 DEF LogReorder
<1>7. ASSUME NEW p \in Improver,
             Advise(p) \/ ReadTruncatedConfig(p) \/ RunStandalone(p)
               \/ KillStandalone(p)
      PROVE  ForwardInv' /\ MovesForward
  <2>1. Become(p, Dead) \/ Become(p, Asleep)
    BY <1>7 DEF Advise, ReadTruncatedConfig, RunStandalone, KillStandalone
  <2>2. UNCHANGED <<diskOrder, usage, tail, faults.usage>>
    BY <1>7, <1>f DEF Advise, ReadTruncatedConfig, RunStandalone, KillStandalone
  <2> QED
    BY <2>1, <2>2, <1>d, <1>s, PassGoesOn DEF Become
<1>8. ASSUME NEW v \in Versions, EditModels(v)
      PROVE  ForwardInv' /\ MovesForward
  <2>1. diskOrder' = <<>> /\ UNCHANGED <<usage, tail, improver, faults>>
    BY <1>8 DEF EditModels
  <2>2. /\ IsPrefix(<<>>, Closed) /\ Lasting(<<>>) = <<>>
        /\ \A p \in Improver : IsPrefix(<<>>, improver[p].view)
    BY <1>t, PrefixLaws, LastingLaws
  <2>3. Closed' = Closed /\ OpenOnlyIfFull'
    BY <2>1 DEF Closed, OpenOnlyIfFull, ForwardInv
  <2>4. LogsArePrefixes'
    BY <2>1, <2>2, <2>3 DEF ForwardInv, LogsArePrefixes, Lasting
  <2>5. LoneViewIsLater'
    BY <2>1, <2>2, <1>t DEF LoneViewIsLater, Lasting
  <2>6. MovesForward
    BY <2>1 DEF MovesForward
  <2> QED
    BY <2>3, <2>4, <2>5, <2>6 DEF ForwardInv
<1>9. ASSUME NEW s \in Skill, NEW b \in BOOLEAN, Schedule(s, b)
      PROVE  ForwardInv' /\ MovesForward
  <2>1. PICK i \in Candidates(s, b) :
          \/ RecordUsage(IdOf[snapshot.registry[i]]) /\ UNCHANGED faults
          \/ RecordUsageFails(IdOf[snapshot.registry[i]])
    BY <1>9 DEF Schedule
  <2>2. IdOf[snapshot.registry[i]] \in Line
    BY EntryAssumption DEF TypeOK, Candidates, BySkill, Line
  <2>3. UNCHANGED <<diskOrder, improver>>
    BY <1>9 DEF Schedule
  <2> QED
    BY <2>1, <2>2, <2>3, <1>s, RecordGrows, LogGrows
<1>10. CASE RecordAgent
  <2>1. AgentLine \in Line /\ UNCHANGED <<diskOrder, improver>>
    BY <1>10 DEF RecordAgent, Line
  <2>2. \/ RecordUsage(AgentLine) /\ UNCHANGED faults
        \/ RecordUsageFails(AgentLine)
    BY <1>10 DEF RecordAgent
  <2> QED
    BY <2>1, <2>2, <1>s, RecordGrows, LogGrows
<1>11. ASSUME \/ \E s \in Skill, b \in BOOLEAN : ScheduleNone(s, b)
              \/ \E s \in SettingsFiles : ChangeSettings(s)
              \/ \E h \in Hardware : HardwareChanges(h)
              \/ UNCHANGED vars
       PROVE  ForwardInv' /\ MovesForward
  <2>1. UNCHANGED <<diskOrder, improver, usage, tail, faults>>
    BY <1>11 DEF ScheduleNone, ChangeSettings, HardwareChanges, vars
  <2>2. Closed' = Closed /\ OpenOnlyIfFull'
    BY <2>1 DEF Closed, OpenOnlyIfFull, ForwardInv
  <2> QED
    BY <2>1, <2>2, <1>s, LogGrows
<1> QED
  BY <1>1, <1>2, <1>3, <1>4, <1>5, <1>6, <1>7, <1>8, <1>9, <1>10, <1>11
  DEF Next, ImproverStep

(***************************************************************************)
(* While the daemon's loop is alone, every reorder is by a log that        *)
(* continues the log of the one before it (up to its last line, once an    *)
(* append has failed), whatever is killed, lost or edited in between       *)
(* (selfimprove.py 43-60, 133-142).                                        *)
(***************************************************************************)
THEOREM NeverBackwards == Spec => OrderMovesForward
<1>1. TypeOK /\ TypeOK' /\ ForwardInv /\ [Next]_vars => ForwardInv'
  BY NextForwardInv
<1>2. TypeOK /\ TypeOK' /\ ForwardInv /\ [Next]_vars =>
        [Improver = {InProc} =>
           \/ diskOrder' = <<>>
           \/ IsPrefix(diskOrder, diskOrder')
           \/ faults.usage > 0 /\ IsPrefix(Front(diskOrder), diskOrder')]_vars
  BY NextForwardInv DEF MovesForward
<1> QED
  BY InitForwardInv, <1>1, <1>2, Typing, PTL DEF Spec, OrderMovesForward

-----------------------------------------------------------------------------
(* The most used models come first *)

LEMMA SettledBySorted ==
  ASSUME NEW m \in Seq(Entry), NEW view \in Seq(Line), SettledBy(m, view)
  PROVE  SortedByUse(m, view)
<1>1. CASE view = <<>>
  <2>1. \A i \in DOMAIN m : UseCount(view, IdOf[m[i]]) = 0
    <3> TAKE i \in DOMAIN m
    <3>1. IdOf[m[i]] \in ModelId
      BY EntryAssumption
    <3>2. IdOf[m[i]] \notin Used(view)
      BY <1>1 DEF Used
    <3> QED
      BY <3>1, <3>2, UnusedCount
  <2> QED
    BY <2>1 DEF SortedByUse
<1>2. CASE Settled(m, view)
  BY <1>2, SettledSorted
<1> QED
  BY <1>1, <1>2 DEF SettledBy

(***************************************************************************)
(* The first of some positions of a registry that is sorted by use is one  *)
(* of the most used, up to the preference for local models.                *)
(***************************************************************************)
LEMMA FirstIsPopular ==
  ASSUME NEW reg \in Seq(Entry), NEW view \in Seq(Line), SortedByUse(reg, view),
         NEW candidates \in SUBSET DOMAIN reg, NEW localFirst \in BOOLEAN,
         NEW first, IsFirst(reg, candidates, localFirst, first),
         NEW i \in candidates
  PROVE  \/ UseCount(view, IdOf[reg[i]]) <= UseCount(view, IdOf[reg[first]])
         \/ localFirst /\ CloudOf[reg[i]] /\ ~CloudOf[reg[first]]
<1>1. first \in DOMAIN reg /\ i \in DOMAIN reg
  BY DEF IsFirst
<1>2. /\ UseCount(view, IdOf[reg[i]]) \in Nat
      /\ UseCount(view, IdOf[reg[first]]) \in Nat
  BY UseCountType
<1>3. CASE i = first
  BY <1>2, <1>3
<1>4. CASE first < i
  <2>1. UseCount(view, IdOf[reg[first]]) >= UseCount(view, IdOf[reg[i]])
    BY <1>1, <1>4 DEF SortedByUse
  <2> QED
    BY <1>2, <2>1
<1>5. CASE i # first /\ ~(first < i)
  <2>1. SortsBefore(reg, localFirst, first, i)
    BY <1>5 DEF IsFirst
  <2>2. CloudOf[reg[i]] \in BOOLEAN /\ CloudOf[reg[first]] \in BOOLEAN
    BY <1>1, EntryAssumption
  <2> QED
    BY <1>5, <2>1, <2>2, Zenon DEF SortsBefore
<1> QED
  BY <1>3, <1>4, <1>5

(***************************************************************************)
(* Promotion has the effect the loop is for: the model that /schedule      *)
(* hands out is one of the most used of the loaded models that could serve *)
(* the request, local ones if there are any, by the log the loaded file    *)
(* was last reordered by.                                                  *)
(***************************************************************************)
THEOREM MostUsedFirst == Spec => []PopularFirst
<1>1. Init => DecisionInv
  BY DEF Init, DecisionInv
<1>2. TypeOK /\ DecisionInv /\ [Next]_vars => DecisionInv'
  BY NextDecisionInv
<1>3. TypeOK /\ DecisionInv /\ OrderInv => PopularFirst
  <2> DEFINE reg == snapshot.registry
             uses(i) == UseCount(snapshot.order, IdOf[reg[i]])
  <2> SUFFICES ASSUME TypeOK, DecisionInv, OrderInv, NEW d \in decision,
                      NEW i \in Candidates(d.skill, d.requireLocal)
               PROVE  \/ uses(i) <= uses(d.position)
                      \/ snapshot.settings.localFirst /\ CloudOf[reg[i]]
                           /\ ~CloudOf[reg[d.position]]
    BY DEF PopularFirst
  <2>1. up
    BY DEF DecisionInv, TypeOK
  <2>2. /\ reg \in Seq(Entry) /\ snapshot.order \in Seq(Line)
        /\ snapshot.settings.localFirst \in BOOLEAN
    BY DEF TypeOK, Settings
  <2>3. SortedByUse(reg, snapshot.order)
    BY <2>1, <2>2, SettledBySorted DEF OrderInv, LoadedSettled
  <2>4. Candidates(d.skill, d.requireLocal) \in SUBSET DOMAIN reg
    BY DEF Candidates, BySkill
  <2>5. IsFirst(reg, Candidates(d.skill, d.requireLocal),
                snapshot.settings.localFirst, d.position)
    BY DEF DecisionInv
  <2> QED
    BY <2>2, <2>3, <2>4, <2>5, FirstIsPopular
<1> QED
  BY <1>1, <1>2, <1>3, Typing, Ordered, PTL DEF Spec

=============================================================================
