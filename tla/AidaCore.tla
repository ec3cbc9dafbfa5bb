------------------------------ MODULE AidaCore ------------------------------
(***************************************************************************)
(* The aidad process (daemon.py, api.py, scheduler.py) and the             *)
(* self-improve loop (selfimprove.py), which meet in two files: the usage  *)
(* log that every scheduling decision appends to, and config/models.yaml,  *)
(* which the loop rewrites from the log and the daemon loads when it       *)
(* starts.                                                                 *)
(*                                                                         *)
(* improve_loop runs as a task of the daemon's event loop (InProc) and     *)
(* possibly in separate processes (python -m aidad.selfimprove).  Within   *)
(* the daemon a scheduling request and an improvement pass never overlap:  *)
(* neither awaits anything between its steps.  Other processes, the user's *)
(* editor, kills and a full disk come between any two steps.               *)
(***************************************************************************)
EXTENDS UsagePromotion, SequencesExt

CONSTANTS
  Improver,      \* the improve_loop instances
  InProc,        \* the one inside the daemon
  MinSamples,    \* _MIN_SAMPLES
  Versions,      \* the contents a user may give models.yaml
  SettingsFiles, \* the values settings.yaml may hold
  Hardware,      \* the free VRAM and RAM detect_hardware may report
  MaxServed,     \* bound: scheduling decisions in a behaviour
  MaxEdits,      \* bound: edits of models.yaml
  MaxFaults      \* bound: kills and failed writes, together

Settings == [airGapped : BOOLEAN, localFirst : BOOLEAN]

ASSUME CoreAssumption ==
  /\ InProc \in Improver
  /\ IsFiniteSet(Improver)
  /\ MinSamples \in Nat \ {0}
  /\ Versions # {} /\ Versions \subseteq Seq(Entry)
  /\ SettingsFiles # {} /\ SettingsFiles \subseteq Settings
  /\ Hardware # {} /\ Hardware \subseteq HardwareInfo
  /\ MaxServed \in Nat /\ MaxEdits \in Nat /\ MaxFaults \in Nat

VARIABLES
  models,    \* models.yaml; not intact while or after a write was cut short
  settings,  \* settings.yaml
  hardware,  \* what is free right now
  up,        \* the daemon serves
  snapshot,  \* what the daemon read when it started
  recording, \* select is between its two record_usage calls
  decision,  \* {} or the last answer of /schedule since the daemon started
  usage,     \* the decodable lines of usage.jsonl
  tail,      \* how usage.jsonl ends: see RecordUsage
  improver,  \* [Improver -> the local state of improve_loop]
  \* History, which no guard but a bound reads:
  served,    \* number of decisions
  unlogged,  \* reorders applied minus reorders logged
  edits,     \* number of edits by the user
  lastEdit,  \* the version the user saved last
  diskOrder, \* the log by which models.yaml was last reordered, <<>> if none
  collided,  \* a write has left some of another improver's text behind its own
  faults     \* number of kills, usage writes and log writes that failed

vars == <<models, settings, hardware, up, snapshot, recording, decision,
          usage, tail, improver,
          served, unlogged, edits, lastEdit, diskOrder, collided, faults>>

file  == <<models, diskOrder, collided>>
world == <<settings, hardware>>
daemon == <<up, snapshot, recording, decision, served>>
log   == <<usage, tail>>
user  == <<edits, lastEdit>>

File(entries) == [intact |-> TRUE, entries |-> entries]
TruncatedFile == [intact |-> FALSE, entries |-> <<>>]

Asleep == [pc |-> "asleep", view |-> <<>>, reordered |-> <<>>]
Dead   == [pc |-> "dead", view |-> <<>>, reordered |-> <<>>]

TotalFaults == faults.kill + faults.usage + faults.log

Fault(kind) == /\ TotalFaults < MaxFaults
               /\ faults' = [faults EXCEPT ![kind] = @ + 1]

SnapshotSwapped(reg, order, hw, set) ==   \* mutant: arguments swapped
  [registry |-> order, order |-> reg, hardware |-> hw, settings |-> set]

SnapshotOf(reg, order, hw, set) ==
  [registry |-> reg, order |-> order, hardware |-> hw, settings |-> set]

Init ==
  \E v \in Versions, s \in SettingsFiles, h \in Hardware :
    /\ models = File(v) /\ lastEdit = v
    /\ settings = s /\ hardware = h
    /\ up = FALSE /\ snapshot = SnapshotOf(<<>>, <<>>, h, s)
    /\ recording = FALSE /\ decision = {}
    /\ usage = <<>> /\ tail = "whole"
    /\ improver = [p \in Improver |-> IF p = InProc THEN Dead ELSE Asleep]
    /\ served = 0 /\ unlogged = 0 /\ edits = 0
    /\ diskOrder = <<>> /\ collided = FALSE
    /\ faults = [kill |-> 0, usage |-> 0, log |-> 0]

-----------------------------------------------------------------------------
(* The daemon *)

\* The event loop is at an await: no handler and no pass is under way.
EventLoopFree == up /\ ~recording /\ improver[InProc].pc \in {"asleep", "dead"}

\* _load: of a truncated file safe_load makes None, and raw.get raises.
Loadable == models.intact

(***************************************************************************)
(* systemd starts aidad (Restart=always): main loads settings.yaml,        *)
(* AidaDaemon.__init__ detects the hardware and loads models.yaml, run     *)
(* creates the improve_loop task.  If the registry does not load the start *)
(* fails and nothing changes.  (Here settings.yaml always loads; Setup has *)
(* the ones that do not.)                                                  *)
(***************************************************************************)
StartDaemon ==
  /\ ~up
  /\ Loadable
  /\ up' = TRUE
  /\ snapshot' = SnapshotOf(models.entries, diskOrder, hardware, settings)
  /\ improver' = [improver EXCEPT ![InProc] = Asleep]
  /\ UNCHANGED <<file, world, recording, decision, served, log, user,
                 unlogged, faults>>

\* The daemon is killed, at any point of a handler or of a pass.
KillDaemon ==
  /\ up
  /\ Fault("kill")
  /\ up' = FALSE /\ recording' = FALSE /\ decision' = {}
  /\ improver' = [improver EXCEPT ![InProc] = Dead]
  /\ UNCHANGED <<file, world, snapshot, served, log, user, unlogged>>

AllowCloudForAll(requireLocal) ==   \* mutant: require_local is ignored
  ~snapshot.settings.airGapped

AllowCloud(requireLocal) == ~snapshot.settings.airGapped /\ ~requireLocal

\* The candidates of a request, as positions of the loaded registry.
Candidates(skill, requireLocal) ==
  BySkill(snapshot.registry, skill, snapshot.hardware, AllowCloud(requireLocal))

\* The lines of usage.jsonl that end in a newline.
Closed == IF tail = "open" THEN Front(usage) ELSE usage

(***************************************************************************)
(* record_usage appends one line.  After a failed append the file may end  *)
(* in half a line ("half"), or in a line that only lacks its newline and   *)
(* still decodes ("open"); the next line is glued to it and neither        *)
(* decodes.                                                                *)
(***************************************************************************)
RecordUsageGlued(line) ==   \* mutant: every later line is glued, too
  /\ usage' = IF tail = "whole" THEN Append(usage, line) ELSE Closed
  /\ UNCHANGED tail

RecordUsage(line) ==
  /\ usage' = IF tail = "whole" THEN Append(usage, line) ELSE Closed
  /\ tail' = "whole"

\* The append fails (disk full): before any byte, after some, or at the newline.
RecordUsageFails(line) ==
  /\ Fault("usage")
  /\ \/ UNCHANGED log
     \/ usage' = Closed /\ tail' = "half"
     \/ tail = "whole" /\ usage' = Append(usage, line) /\ tail' = "open"

\* /schedule, up to the first record_usage call of select.
Schedule(skill, requireLocal) ==
  /\ EventLoopFree
  /\ served < MaxServed
  /\ \E i \in Candidates(skill, requireLocal) :
       /\ IsFirst(snapshot.registry, Candidates(skill, requireLocal),
                  snapshot.settings.localFirst, i)
       /\ decision' = {[position |-> i, skill |-> skill,
                        requireLocal |-> requireLocal]}
       /\ served' = served + 1
       /\ \/ /\ RecordUsage(IdOf[snapshot.registry[i]])
             /\ recording' = TRUE
             /\ UNCHANGED faults
          \/ /\ RecordUsageFails(IdOf[snapshot.registry[i]])
             /\ UNCHANGED recording   \* except: pass, the answer is returned
  /\ UNCHANGED <<file, world, up, snapshot, improver, user, unlogged>>

\* /schedule answers {"error": ...}.
ScheduleNone(skill, requireLocal) ==
  /\ EventLoopFree
  /\ Candidates(skill, requireLocal) = {}
  /\ decision' = {}
  /\ UNCHANGED <<file, world, up, snapshot, recording, served, log, improver,
                 user, unlogged, faults>>

\* The second record_usage call, and the answer.
RecordAgent ==
  /\ recording
  /\ recording' = FALSE
  /\ \/ RecordUsage(AgentLine) /\ UNCHANGED faults
     \/ RecordUsageFails(AgentLine)
  /\ UNCHANGED <<file, world, up, snapshot, decision, served, improver, user,
                 unlogged>>

-----------------------------------------------------------------------------
(* improve_loop *)

\* p's next step can run: the daemon's task needs its event loop.
Scheduled(p) == p = InProc => up /\ ~recording

Goto(p, pc) == improver' = [improver EXCEPT ![p].pc = pc]
Become(p, local) == improver' = [improver EXCEPT ![p] = local]

MoreThanMinSamples(view) ==   \* mutant: off by one
  Len(view) > MinSamples /\ Used(view) # {}

\* total >= _MIN_SAMPLES, and model_counts is not empty.
EnoughSamples(view) == Len(view) >= MinSamples /\ Used(view) # {}

LatestLines ==   \* mutant: only the end of the log is read
  SubSeq(usage, IF Len(usage) > MinSamples THEN Len(usage) - MinSamples + 1
                ELSE 1, Len(usage))

\* _load_usage: every line that decodes.
AllLines == usage

(***************************************************************************)
(* The five minutes are over: read the log.  Below _MIN_SAMPLES lines, or  *)
(* with no line that names a model, models.yaml is not looked at.          *)
(***************************************************************************)
LoadUsage(p) ==
  /\ Scheduled(p)
  /\ improver[p].pc = "asleep"
  /\ usage # <<>>
  /\ Become(p, [pc |-> IF EnoughSamples(AllLines) THEN "readConfig" ELSE "advise",
                view |-> AllLines, reordered |-> <<>>])
  /\ UNCHANGED <<file, world, daemon, log, user, unlogged, faults>>

\* Parse models.yaml and compare it with its reordering.
ReadConfig(p) ==
  /\ Scheduled(p)
  /\ improver[p].pc = "readConfig"
  /\ models.intact
  /\ \E order \in Orders(models.entries, improver[p].view) :
       LET reordered == Reordered(models.entries, order)
       IN  improver' = [improver EXCEPT
             ![p].pc = IF reordered = models.entries THEN "advise" ELSE "truncate",
             ![p].reordered = reordered]
  /\ UNCHANGED <<file, world, daemon, log, user, unlogged, faults>>

\* safe_load returned None: cfg.get raises and the loop is over for good.
ReadTruncatedConfig(p) ==
  /\ Scheduled(p)
  /\ improver[p].pc = "readConfig"
  /\ ~models.intact
  /\ Become(p, Dead)
  /\ UNCHANGED <<file, world, daemon, log, user, unlogged, faults>>

\* write_text opens the file for writing, which truncates it.
Truncate(p) ==
  /\ Scheduled(p)
  /\ improver[p].pc = "truncate"
  /\ models' = TruncatedFile
  /\ Goto(p, "write")
  /\ UNCHANGED <<diskOrder, collided, world, daemon, log, user, unlogged, faults>>

\* The same entries in any order make texts of the same size.
SameSize(a, b) ==
  \A e \in EntriesOf(a) \cup EntriesOf(b) :
    Cardinality({i \in DOMAIN a : a[i] = e}) =
      Cardinality({i \in DOMAIN b : b[i] = e})

\* Entry e with the last lines of f behind it: of a repeated key the last
\* counts, and list items in front of a key go on with the skills of e.
Blends(e, f) ==
  {g \in Entry :
     /\ CloudOf[g] = CloudOf[e]
     /\ IdOf[g] \in {IdOf[e], IdOf[f]}
     /\ VramOf[g] \in {VramOf[e], VramOf[f]} /\ RamOf[g] \in {RamOf[e], RamOf[f]}
     /\ \/ SkillsOf[g] = SkillsOf[f]
        \/ /\ SkillsOf[e] \subseteq SkillsOf[g]
           /\ SkillsOf[g] \subseteq SkillsOf[e] \cup SkillsOf[f]}

(***************************************************************************)
(* What may be read where old was written before and new over its          *)
(* beginning, and the rest parses: it starts within old[k] or behind it.   *)
(* How much of old is left depends on lengths the model does not have.     *)
(***************************************************************************)
Overlaid(new, old) ==
  UNION {{Append(Front(new), e) \o SubSeq(old, k + 1, Len(old)) :
            e \in Blends(Last(new), old[k])} : k \in DOMAIN old}

WriteNothing(new) ==   \* mutant: the dump never reaches the file
  UNCHANGED <<models, collided>>

(***************************************************************************)
(* write_text writes and closes.  If another process has written since p   *)
(* truncated the file, p overwrites it from its first byte on, and the     *)
(* rest of a longer text stays: the file parses no more, or as a mixture.  *)
(***************************************************************************)
WriteText(new) ==
  \/ models' = File(new) /\ UNCHANGED collided
  \/ /\ models # TruncatedFile /\ ~SameSize(models.entries, new)
     /\ \/ models' = [intact |-> FALSE, entries |-> new \o models.entries]
        \/ \E m \in Overlaid(new, models.entries) : models' = File(m)
     /\ collided' = TRUE

Write(p) ==
  LET new == improver[p].reordered
  IN  /\ Scheduled(p)
      /\ improver[p].pc = "write"
      /\ WriteText(new)
      /\ diskOrder' = IF models' = File(new) THEN improver[p].view ELSE <<>>
      /\ unlogged' = unlogged + 1
      /\ Goto(p, "log")
      /\ UNCHANGED <<world, daemon, log, user, faults>>

LogNothing ==   \* mutant: the call is missing
  UNCHANGED unlogged

\* _log_improvement("reorder_models", ...)
LogImprovement == unlogged' = unlogged - 1

(***************************************************************************)
(* After the write.  The log is never closed: a full disk shows only when  *)
(* the file object is finalised, which loses the entry without a word.  If *)
(* improvements.log cannot be opened at all the loop is over.              *)
(***************************************************************************)
LogReorder(p) ==
  /\ Scheduled(p)
  /\ improver[p].pc = "log"
  /\ \/ LogImprovement /\ Goto(p, "advise") /\ UNCHANGED faults
     \/ Fault("log") /\ Goto(p, "advise") /\ UNCHANGED unlogged
     \/ Fault("log") /\ Become(p, Dead) /\ UNCHANGED unlogged
  /\ UNCHANGED <<file, world, daemon, log, user>>

\* Suggestions about unused agents and tight memory: log lines, or none, or
\* lines that are lost, or an improvements.log that cannot be opened.
Advise(p) ==
  /\ Scheduled(p)
  /\ improver[p].pc = "advise"
  /\ \/ Become(p, Asleep) /\ (UNCHANGED faults \/ Fault("log"))
     \/ Become(p, Dead) /\ Fault("log")
  /\ UNCHANGED <<file, world, daemon, log, user, unlogged>>

ImproverStep(p) ==
  \/ LoadUsage(p) \/ ReadConfig(p) \/ ReadTruncatedConfig(p)
  \/ Truncate(p) \/ Write(p) \/ LogReorder(p) \/ Advise(p)

\* Somebody runs python -m aidad.selfimprove (again).
RunStandalone(p) ==
  /\ p # InProc
  /\ improver[p].pc = "dead"
  /\ Become(p, Asleep)
  /\ UNCHANGED <<file, world, daemon, log, user, unlogged, faults>>

KillStandalone(p) ==
  /\ p # InProc
  /\ improver[p].pc # "dead"
  /\ Fault("kill")
  /\ Become(p, Dead)
  /\ UNCHANGED <<file, world, daemon, log, user, unlogged>>

-----------------------------------------------------------------------------
(* The user and the machine *)

\* The user saves models.yaml (not within the instant of a write_text).
EditModels(v) ==
  /\ edits < MaxEdits
  /\ \A p \in Improver : improver[p].pc # "write"
  /\ models' = File(v) /\ lastEdit' = v /\ diskOrder' = <<>>
  /\ edits' = edits + 1
  /\ UNCHANGED <<collided, world, daemon, log, improver, unlogged, faults>>

\* The setup wizard or the user rewrites settings.yaml.
ChangeSettings(s) ==
  /\ settings' = s
  /\ UNCHANGED <<file, hardware, daemon, log, improver, user, unlogged, faults>>

\* Models are loaded and unloaded: what is free changes.
HardwareChanges(h) ==
  /\ hardware' = h
  /\ UNCHANGED <<file, settings, daemon, log, improver, user, unlogged, faults>>

Next ==
  \/ StartDaemon \/ KillDaemon
  \/ \E s \in Skill, b \in BOOLEAN : Schedule(s, b) \/ ScheduleNone(s, b)
  \/ RecordAgent
  \/ \E p \in Improver : ImproverStep(p) \/ RunStandalone(p) \/ KillStandalone(p)
  \/ \E v \in Versions : EditModels(v)
  \/ \E s \in SettingsFiles : ChangeSettings(s)
  \/ \E h \in Hardware : HardwareChanges(h)

\* systemd restarts the daemon, and a running process keeps taking steps.
Fairness ==
  /\ WF_vars(StartDaemon)
  /\ WF_vars(RecordAgent)
  /\ \A p \in Improver : WF_vars(ImproverStep(p))

Spec == Init /\ [][Next]_vars
FairSpec == Spec /\ Fairness

-----------------------------------------------------------------------------
(* Properties *)

Faults == [kill : Nat, usage : Nat, log : Nat]

ImproverState ==
  [pc : {"asleep", "readConfig", "truncate", "write", "log", "advise", "dead"},
   view : Seq(Line), reordered : Seq(Entry)]

Decision == [position : Nat, skill : Skill, requireLocal : BOOLEAN]

\* Every variable has its type.
TypeOK ==
  /\ models \in [intact : BOOLEAN, entries : Seq(Entry)]
  /\ settings \in Settings /\ hardware \in HardwareInfo
  /\ up \in BOOLEAN /\ recording \in BOOLEAN
  /\ snapshot \in [registry : Seq(Entry), order : Seq(Line),
                   hardware : HardwareInfo, settings : Settings]
  /\ decision \subseteq Decision
  /\ usage \in Seq(Line) /\ tail \in {"whole", "half", "open"}
  /\ improver \in [Improver -> ImproverState]
  /\ served \in Nat /\ unlogged \in Int /\ edits \in Nat
  /\ lastEdit \in Seq(Entry) /\ diskOrder \in Seq(Line) /\ collided \in BOOLEAN
  /\ faults \in Faults

\* No two entries of a file carry the same id.
UniqueIdsIn(m) == \A i, j \in DOMAIN m : IdOf[m[i]] = IdOf[m[j]] => i = j

UniqueIds == \A v \in Versions : UniqueIdsIn(v)

\* b is a rearrangement of a, which repeats no entry.
Rearranges(b, a) == EntriesOf(b) = EntriesOf(a) /\ Len(b) = Len(a)

\* What promotion may make of a: every entry is kept unless ids repeat, and
\* then still every id.
PromotionOf(b, a) ==
  /\ IdsOf(b) = IdsOf(a)
  /\ EntriesOf(b) \subseteq EntriesOf(a) /\ Len(b) <= Len(a)
  /\ UniqueIdsIn(a) => Rearranges(b, a)

(***************************************************************************)
(* Until two improvers collide, and so for ever if there is one: whatever  *)
(* the interleaving of passes, kills and edits, a models.yaml that parses, *)
(* and the registry the daemon loaded, hold exactly the entries of one     *)
(* version the user wrote: _promote_popular_models neither drops nor       *)
(* duplicates an entry nor mixes two versions (selfimprove.py 87-90).      *)
(* From a version that repeats an id it may drop entries, but never the    *)
(* last one with that id.                                                  *)
(***************************************************************************)
OnlyReordered ==
  ~collided =>
    /\ models.intact => \E v \in Versions : PromotionOf(models.entries, v)
    /\ up => \E v \in Versions : PromotionOf(snapshot.registry, v)

(***************************************************************************)
(* While nothing is killed and no improvers collide, a models.yaml that    *)
(* does not parse is only ever seen while a write_text is under way        *)
(* (selfimprove.py 94); and it takes two improvers to collide, and an edit *)
(* or a repeated id, without which all their texts have the same size.     *)
(***************************************************************************)
IntactUnlessKilled ==
  /\ \/ models.intact
     \/ \E p \in Improver : improver[p].pc = "write"
     \/ faults.kill > 0
     \/ collided
  /\ collided => Improver # {InProc} /\ (edits > 0 \/ ~UniqueIds)

(***************************************************************************)
(* However far usage has promoted a cloud model in models.yaml, select     *)
(* hands it out only if the request and the loaded settings allow it and,  *)
(* under local_first, only if no local model of the loaded registry has    *)
(* the skill and fits (registry.py 57-67, scheduler.py 59-79).             *)
(***************************************************************************)
LocalFirst ==
  \A d \in decision :
    CloudOf[snapshot.registry[d.position]] =>
      /\ ~d.requireLocal /\ ~snapshot.settings.airGapped
      /\ snapshot.settings.localFirst =>
           BySkill(snapshot.registry, d.skill, snapshot.hardware, FALSE) = {}

(***************************************************************************)
(* Promotion has the effect the loop is for: after a restart the model     *)
(* handed out is, among the loaded models that could serve the request     *)
(* (local ones if there are any), one of the most used according to the    *)
(* log by which the loaded file was last reordered.                        *)
(***************************************************************************)
PopularFirst ==
  \A d \in decision :
    LET reg == snapshot.registry
        uses(i) == UseCount(snapshot.order, IdOf[reg[i]])
    IN  \A i \in Candidates(d.skill, d.requireLocal) :
          \/ uses(i) <= uses(d.position)
          \/ snapshot.settings.localFirst /\ CloudOf[reg[i]]
               /\ ~CloudOf[reg[d.position]]

\* The lines that the next append will cost.
ToBeGlued == [whole |-> 0, half |-> 1, open |-> 2]

(***************************************************************************)
(* The log never holds more than two lines per decision, and what it lacks *)
(* is accounted for: a failed append costs at most three lines (its own,   *)
(* the agent line that select then skips, and the next one that is glued   *)
(* to it), a kill between the two appends one (scheduler.py 89-94,         *)
(* selfimprove.py 43-60).                                                  *)
(***************************************************************************)
UsageLossBounded ==
  LET missing == 2 * served - Len(usage) - (IF recording THEN 1 ELSE 0)
  IN  /\ missing >= 0
      /\ missing + ToBeGlued[tail] <= 3 * faults.usage + faults.kill

(***************************************************************************)
(* Every reorder is in improvements.log unless the process was killed      *)
(* between write_text and _log_improvement, or the entry could not be      *)
(* written, whether that ended the loop or went unnoticed; and no reorder  *)
(* is logged that did not happen (selfimprove.py 36-40, 94-96).            *)
(***************************************************************************)
UnloggedBounded ==
  LET logging == {p \in Improver : improver[p].pc = "log"}
  IN  /\ unlogged >= Cardinality(logging)
      /\ unlogged <= Cardinality(logging) + faults.kill + faults.log

(***************************************************************************)
(* A lone improver does not rewrite models.yaml twice for the same log:    *)
(* reordering a reordered file changes nothing, so reordered != models     *)
(* (selfimprove.py 92) is false unless usage has moved on or the user has  *)
(* edited the file.                                                        *)
(***************************************************************************)
NoRepeatedReorder ==
  Improver = {InProc} /\ improver[InProc].pc = "truncate"
    => improver[InProc].view # diskOrder

(***************************************************************************)
(* The order of models.yaml only ever moves forward while the daemon's     *)
(* loop is alone: a reorder is by a log that continues the one before,     *)
(* through kills in the middle of a pass, lost lines and restarts; but for *)
(* its last line, if an append failed at the newline and the next was      *)
(* glued to it.  (A second improver may put back the order of an older     *)
(* log.)                                                                   *)
(***************************************************************************)
OrderMovesForward ==
  [][Improver = {InProc} =>
       \/ diskOrder' = <<>>
       \/ IsPrefix(diskOrder, diskOrder')
       \/ faults.usage > 0 /\ IsPrefix(Front(diskOrder), diskOrder')]_vars

(***************************************************************************)
(* Once usage and edits stop, models.yaml reaches the order the log asks   *)
(* for and keeps it, even with several improvers that started from         *)
(* different logs, unless it does not parse or no improver is left alive.  *)
(***************************************************************************)
PromotionReachesDisk ==
  <>[](  /\ models.intact
         /\ Len(usage) >= MinSamples
         /\ \E p \in Improver : improver[p].pc # "dead"
       => InPromotedOrder(models.entries, usage))

-----------------------------------------------------------------------------
(* What the repository says and the code does not do *)

\* "Config changes (models.yaml reorder) are safe -- fully reversible"
\* (docs/selfimprove.md:29): outside a write, models.yaml can be loaded.
ReorderIsSafe ==
  models.intact \/ \E p \in Improver : improver[p].pc = "write"

\* "Never delete or modify user data" (docs/selfimprove.md:26): the entries
\* the user saved last are the entries of models.yaml.
UserEditKept ==
  models.intact => EntriesOf(models.entries) = EntriesOf(lastEdit)

=============================================================================
