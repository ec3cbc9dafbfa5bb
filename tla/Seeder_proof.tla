---------------------------- MODULE Seeder_proof ----------------------------
(* Theorems about Seeder, for any models, starters and bounds. *)
EXTENDS Seeder, TLAPS

\* The torrent of the call in hand, step by step, and its file.
InHand ==
  /\ job.pc \in {"hash", "open"} => torrent[FileOf[job.model]] = None
  /\ job.pc = "fill" => torrent[FileOf[job.model]] = Torn
  /\ job.pc \in {"register", "announce", "add"}
       => torrent[FileOf[job.model]] = job.made

\* The links that were read, while the registry is empty.
KnownOnDisk ==
  job.pc = "announce" =>
    \A m \in Model : job.known[m] # None => torrent[FileOf[m]] = job.known[m]

DiskInv == SeederTypeOK /\ InHand /\ KnownOnDisk /\ AnnouncedIsOnDisk

LEMMA Kinds ==
  /\ None.kind = "none" /\ Torn.kind = "torn"
  /\ \A t \in Torrent : t.kind = "whole" /\ t # None /\ t # Torn
  /\ None # Torn
  BY DEF None, Torn, Torrent

LEMMA Files == \A m \in Model : FileOf[m] \in FileName
  BY DEF FileName

\* What a job is at each step.
LEMMA Jobs ==
  ASSUME SeederTypeOK, job.pc # "idle"
  PROVE  /\ job.model \in Model /\ job.made \in Torrent
         /\ job.pc = "announce" => job.known \in [Model -> Torrent \cup {None}]
  BY DEF SeederTypeOK, Job, Idle

LEMMA Goes ==
  ASSUME SeederTypeOK, job.pc \in {"hash", "open", "fill"},
         NEW pc \in {"open", "fill", "register"}, Goto(pc)
  PROVE  /\ job' \in Job /\ job'.pc = pc
         /\ job'.model = job.model /\ job'.made = job.made
<1> DEFINE Working == [pc : {"hash", "open", "fill", "register", "add"},
                       model : Model, made : Torrent]
<1>1. job \in Working
  BY DEF SeederTypeOK, Job, Idle
<1>2. job' = [job EXCEPT !.pc = pc]
  BY DEF Goto
<1>3. /\ job' \in Working /\ job'.pc = pc
      /\ job'.model = job.model /\ job'.made = job.made
  BY <1>1, <1>2
<1> QED
  BY <1>3 DEF Job

\* create_torrent's start hands on a torrent that fits the file.
LEMMA Begins ==
  ASSUME DiskInv, NEW m \in Model, Begin(m)
  PROVE  /\ job' \in Job
         /\ job'.pc = "hash" => torrent[FileOf[job'.model]] = None
         /\ job'.pc = "register" => torrent[FileOf[job'.model]] = job'.made
         /\ job'.pc \in {"idle", "hash", "register"}
<1> DEFINE found == torrent[FileOf[m]]
<1>1. found \in Torrent \cup {None, Torn}
  BY Files DEF DiskInv, SeederTypeOK
<1>2. CASE found.kind = "whole"
  <2>1. found \in Torrent
    BY <1>1, <1>2, Kinds
  <2>2. job' = [pc |-> "register", model |-> m, made |-> found]
    BY <1>2 DEF Begin
  <2> QED
    BY <2>1, <2>2 DEF Job
<1>3. CASE found.kind = "none" /\ pulled[m] > 0
  <2>1. found = None
    BY <1>1, <1>3, Kinds
  <2>2. job' = [pc |-> "hash", model |-> m, made |-> TorrentOf(m)]
    BY <1>3 DEF Begin
  <2>3. TorrentOf(m) \in Torrent
    BY <1>3 DEF TorrentOf, Torrent, DiskInv, SeederTypeOK
  <2> QED
    BY <2>1, <2>2, <2>3 DEF Job
<1>4. CASE found.kind # "whole" /\ ~(found.kind = "none" /\ pulled[m] > 0)
  BY <1>4 DEF Begin, Job, Idle
<1> QED
  BY <1>2, <1>3, <1>4

LEMMA DiskInit == ASSUME SeederInit PROVE DiskInv
<1>1. pulled \in [Model -> Nat] /\ faults \in [kill : Nat, write : Nat]
  BY DEF SeederInit
<1>2. job = Idle /\ job.pc = "idle" /\ todo \in Seq(Model) /\ job \in Job
  BY DEF SeederInit, Idle, Job
<1>3. /\ torrent \in [FileName -> Torrent \cup {None, Torn}]
      /\ magnets \in [Model -> Torrent \cup {None}]
      /\ session \in [Model -> Torrent \cup {None}]
      /\ \A m \in Model : magnets[m] = None /\ session[m] = None
  BY DEF SeederInit, NoMagnets
<1>4. SeederTypeOK
  BY <1>1, <1>2, <1>3 DEF SeederInit, SeederTypeOK
<1> QED
  BY <1>2, <1>3, <1>4 DEF DiskInv, InHand, KnownOnDisk, AnnouncedIsOnDisk

LEMMA DiskStep == ASSUME DiskInv, [SeederNext]_seederVars PROVE DiskInv'
<1> USE DEF DiskInv
<1> DEFINE File == FileOf[job.model]
<1>0. faults \in [kill : Nat, write : Nat]
  BY DEF SeederTypeOK
<1>fault. ASSUME NEW k \in {"kill", "write"}, Fault(k)
          PROVE  faults' \in [kill : Nat, write : Nat]
  BY <1>0, <1>fault DEF Fault
<1>1. CASE SeedStarter
  <2>1. Head(todo) \in Model /\ Tail(todo) \in Seq(Model)
    BY <1>1 DEF SeedStarter, SeederTypeOK
  <2>2. Begin(Head(todo)) /\ UNCHANGED <<pulled, torrent, magnets, online,
                                         session, faults>>
    BY <1>1 DEF SeedStarter, disk
  <2>3. SeederTypeOK'
    BY <1>1, <2>1, <2>2, Begins DEF SeedStarter, NextStarters, SeederTypeOK
  <2> QED
    BY <2>1, <2>2, <2>3, Begins DEF InHand, KnownOnDisk, AnnouncedIsOnDisk
<1>2. ASSUME NEW m \in Model, SeedRequest(m) PROVE DiskInv'
  <2>1. Begin(m) /\ UNCHANGED <<pulled, torrent, magnets, online, todo,
                                session, faults>>
    BY <1>2 DEF SeedRequest, disk, process
  <2> QED
    BY <2>1, Begins DEF SeederTypeOK, InHand, KnownOnDisk, AnnouncedIsOnDisk
<1>3. CASE Hash
  <2>1. job.pc = "hash" /\ UNCHANGED <<pulled, torrent, magnets, online, todo,
                                       session, faults>>
    BY <1>3 DEF Hash, disk, process
  <2>2. CASE Goto("open")
    <3>1. job' \in Job /\ job'.pc = "open" /\ job'.model = job.model
      BY <2>1, <2>2, Goes
    <3> QED
      BY <2>1, <3>1 DEF SeederTypeOK, InHand, KnownOnDisk, AnnouncedIsOnDisk
  <2>3. CASE Give
    BY <2>1, <2>3 DEF Give, Idle, Job, SeederTypeOK, InHand, KnownOnDisk,
                      AnnouncedIsOnDisk
  <2> QED
    BY <1>3, <2>2, <2>3 DEF Hash, HashBlobs
<1>4. CASE OpenTorrent
  <2>1. /\ job.pc = "open" /\ torrent' = [torrent EXCEPT ![File] = Torn]
        /\ UNCHANGED <<pulled, magnets, online, todo, session, faults>>
    BY <1>4 DEF OpenTorrent, process
  <2>2. job' \in Job /\ job'.pc = "fill" /\ job'.model = job.model
    BY <2>1, <1>4, Goes DEF OpenTorrent
  <2>3. File \in FileName /\ torrent[File] = None
    BY <2>1, Jobs, Files DEF InHand
  <2>4. torrent' \in [FileName -> Torrent \cup {None, Torn}]
    BY <2>1, <2>3 DEF SeederTypeOK
  <2>5. AnnouncedIsOnDisk'
    BY <2>1, <2>3, <2>4, Files DEF AnnouncedIsOnDisk, SeederTypeOK
  <2> QED
    BY <2>1, <2>2, <2>3, <2>4, <2>5 DEF SeederTypeOK, InHand, KnownOnDisk
<1>5. CASE FillTorrent
  <2>1. /\ job.pc = "fill" /\ job.made \in Torrent
        /\ File \in FileName /\ torrent[File] = Torn
        /\ UNCHANGED <<pulled, magnets, online, todo, session>>
    BY <1>5, Jobs, Files DEF FillTorrent, InHand, process
  <2>2. CASE /\ torrent' = [torrent EXCEPT ![File] = job.made]
             /\ Goto("register") /\ UNCHANGED faults
    <3>1. /\ job' \in Job /\ job'.pc = "register"
          /\ job'.model = job.model /\ job'.made = job.made
      BY <2>1, <2>2, Goes
    <3>2. torrent' \in [FileName -> Torrent \cup {None, Torn}]
      BY <2>1, <2>2 DEF SeederTypeOK
    <3>3. AnnouncedIsOnDisk'
      BY <2>1, <2>2, <3>2, Files, Kinds DEF AnnouncedIsOnDisk, SeederTypeOK
    <3> QED
      BY <2>1, <2>2, <3>1, <3>2, <3>3 DEF SeederTypeOK, InHand, KnownOnDisk
  <2>3. CASE Fault("write") /\ Give /\ UNCHANGED torrent
    BY <2>1, <2>3, <1>fault DEF Give, Idle, Job, SeederTypeOK, InHand,
                                KnownOnDisk, AnnouncedIsOnDisk
  <2> QED
    BY <1>5, <2>2, <2>3 DEF FillTorrent
<1>6. CASE OpenRegistry
  <2>1. /\ job.pc = "register"
        /\ job' = [pc |-> "announce", model |-> job.model, made |-> job.made,
                   known |-> magnets]
        /\ magnets' = NoMagnets
        /\ UNCHANGED <<pulled, torrent, online, todo, session, faults>>
    BY <1>6 DEF OpenRegistry, process
  <2>2. job' \in Job
    BY <2>1, Jobs DEF Job, SeederTypeOK
  <2> QED
    BY <2>1, <2>2 DEF SeederTypeOK, InHand, KnownOnDisk, AnnouncedIsOnDisk,
                      NoMagnets
<1>7. CASE WriteRegistry
  <2>1. /\ job.pc = "announce" /\ job.model \in Model /\ job.made \in Torrent
        /\ job.known \in [Model -> Torrent \cup {None}]
        /\ torrent[File] = job.made
        /\ UNCHANGED <<pulled, torrent, online, todo, session>>
    BY <1>7, Jobs DEF WriteRegistry, InHand, process
  <2>2. CASE /\ magnets' = WithThis
             /\ job' = [pc |-> "add", model |-> job.model, made |-> job.made]
             /\ UNCHANGED faults
    <3>1. magnets' \in [Model -> Torrent \cup {None}] /\ job' \in Job
      BY <2>1, <2>2 DEF WithThis, Job
    <3>2. AnnouncedIsOnDisk'
      BY <2>1, <2>2 DEF WithThis, KnownOnDisk, AnnouncedIsOnDisk
    <3> QED
      BY <2>1, <2>2, <3>1, <3>2 DEF SeederTypeOK, InHand, KnownOnDisk
  <2>3. CASE Fault("write") /\ Give /\ UNCHANGED magnets
    BY <2>1, <2>3, <1>fault DEF Give, Idle, Job, SeederTypeOK, InHand,
                                KnownOnDisk, AnnouncedIsOnDisk
  <2> QED
    BY <1>7, <2>2, <2>3 DEF WriteRegistry
<1>8. CASE AddTorrent
  <2>1. /\ job.pc = "add" /\ job.model \in Model
        /\ torrent[File] \in Torrent
        /\ session' = [session EXCEPT ![job.model] =
                         IF @ = None THEN torrent[File] ELSE @]
        /\ job' = Idle
        /\ UNCHANGED <<pulled, torrent, magnets, online, todo, faults>>
    BY <1>8, Jobs DEF AddTorrent, InHand, disk
  <2>2. session' \in [Model -> Torrent \cup {None}]
    BY <2>1 DEF SeederTypeOK
  <2>3. AnnouncedIsOnDisk'
    BY <2>1 DEF AnnouncedIsOnDisk, SeederTypeOK
  <2> QED
    BY <2>1, <2>2, <2>3 DEF SeederTypeOK, Job, Idle, InHand, KnownOnDisk
<1>9. CASE StartDaemon
  BY <1>9, SeederAssumption
  DEF StartDaemon, disk, SeederTypeOK, InHand, KnownOnDisk, AnnouncedIsOnDisk
<1>10. CASE KillDaemon
  <2>1. /\ job' = Idle /\ todo' = <<>> /\ online' = FALSE
        /\ session' = [m \in Model |-> None]
        /\ UNCHANGED <<pulled, torrent, magnets>>
        /\ faults' \in [kill : Nat, write : Nat]
    BY <1>10, <1>fault DEF KillDaemon, disk
  <2>2. job' \in Job /\ job'.pc = "idle" /\ todo' \in Seq(Model)
    BY <2>1 DEF Idle, Job
  <2>3. SeederTypeOK'
    BY <2>1, <2>2 DEF SeederTypeOK
  <2> QED
    BY <2>1, <2>2, <2>3 DEF InHand, KnownOnDisk, AnnouncedIsOnDisk
<1>11. ASSUME NEW m \in Model, Pull(m) PROVE DiskInv'
  BY <1>11
  DEF Pull, disk, process, SeederTypeOK, InHand, KnownOnDisk, AnnouncedIsOnDisk
<1>12. CASE UNCHANGED seederVars
  BY <1>12
  DEF seederVars, SeederTypeOK, InHand, KnownOnDisk, AnnouncedIsOnDisk
<1> QED
  BY <1>1, <1>2, <1>3, <1>4, <1>5, <1>6, <1>7, <1>8, <1>9, <1>10, <1>11, <1>12
  DEF SeederNext, SeedStep

(***************************************************************************)
(* The variables of the seeder keep their types; that the session only     *)
(* ever gets whole torrents needs the whole invariant.                     *)
(***************************************************************************)
THEOREM Typing == SeederSpec => []SeederTypeOK
<1>1. SeederInit => DiskInv
  BY DiskInit
<1>2. DiskInv /\ [SeederNext]_seederVars => DiskInv'
  BY DiskStep
<1>3. DiskInv => SeederTypeOK
  BY DEF DiskInv
<1> QED
  BY <1>1, <1>2, <1>3, PTL DEF SeederSpec

(***************************************************************************)
(* What model_torrents.yaml announces and what the session seeds is an     *)
(* intact .torrent file on the disk, whatever is killed or fails           *)
(* (seeder.py 67-71, 95-96, 110-111, 128-136).                             *)
(***************************************************************************)
THEOREM AnnouncedKept == SeederSpec => []AnnouncedIsOnDisk
<1>1. SeederInit => DiskInv
  BY DiskInit
<1>2. DiskInv /\ [SeederNext]_seederVars => DiskInv'
  BY DiskStep
<1>3. DiskInv => AnnouncedIsOnDisk
  BY DEF DiskInv
<1> QED
  BY <1>1, <1>2, <1>3, PTL DEF SeederSpec

\* While the registry is empty the links are in hand, and afterwards on disk.
LinksInv ==
  /\ DiskInv
  /\ SeededIsAnnounced
  /\ job.pc = "announce" /\ faults.write = 0 =>
       \A m \in Model : session[m] # None => job.known[m] # None
  /\ job.pc = "add" => magnets[job.model] # None

LEMMA LinksStep ==
  ASSUME LinksInv, [SeederNext]_seederVars PROVE LinksInv'
<1> USE DEF LinksInv
<1>0. DiskInv'
  BY DiskStep
<1>fault. ASSUME NEW k \in {"kill", "write"}, Fault(k)
          PROVE  k = "write" => faults'.write # 0
  BY <1>fault DEF Fault, DiskInv, SeederTypeOK
<1>begin. ASSUME NEW m \in Model, Begin(m), UNCHANGED <<magnets, session, faults>>,
                 job = Idle
          PROVE  LinksInv'
  BY <1>0, <1>begin, Begins DEF SeededIsAnnounced, Idle
<1>give. ASSUME Give, job.pc # "announce", UNCHANGED <<magnets, session>>,
                faults'.write = 0 => faults.write = 0
         PROVE  LinksInv'
  BY <1>0, <1>give DEF Give, Idle, SeededIsAnnounced
<1>goto. ASSUME NEW pc \in {"open", "fill", "register"}, Goto(pc),
                job.pc \in {"hash", "open", "fill"},
                UNCHANGED <<magnets, session, faults>>
         PROVE  LinksInv'
  BY <1>0, <1>goto, Goes DEF DiskInv, SeededIsAnnounced
<1>1. CASE SeedStarter
  BY <1>1, <1>begin DEF SeedStarter, disk, DiskInv, SeederTypeOK
<1>2. ASSUME NEW m \in Model, SeedRequest(m) PROVE LinksInv'
  BY <1>2, <1>begin DEF SeedRequest, disk, process
<1>3. CASE Hash
  BY <1>3, <1>give, <1>goto DEF Hash, HashBlobs, disk, process
<1>4. CASE OpenTorrent
  BY <1>4, <1>goto DEF OpenTorrent, process
<1>5. CASE FillTorrent
  <2>1. CASE Goto("register") /\ UNCHANGED faults
    BY <1>5, <2>1, <1>goto DEF FillTorrent, process
  <2>2. CASE Fault("write") /\ Give
    BY <1>5, <2>2, <1>fault, <1>give DEF FillTorrent, process
  <2> QED
    BY <1>5, <2>1, <2>2 DEF FillTorrent
<1>6. CASE OpenRegistry
  <2>1. /\ job.pc = "register"
        /\ job' = [pc |-> "announce", model |-> job.model, made |-> job.made,
                   known |-> magnets]
        /\ UNCHANGED <<session, faults>>
    BY <1>6 DEF OpenRegistry, process
  <2> QED
    BY <1>0, <2>1 DEF SeededIsAnnounced
<1>7. CASE WriteRegistry
  <2>1. /\ job.pc = "announce" /\ job.model \in Model /\ job.made # None
        /\ job.known \in [Model -> Torrent \cup {None}]
        /\ UNCHANGED session
    BY <1>7, Jobs, Kinds DEF WriteRegistry, DiskInv, process
  <2>2. CASE /\ magnets' = WithThis
             /\ job' = [pc |-> "add", model |-> job.model, made |-> job.made]
             /\ UNCHANGED faults
    BY <1>0, <2>1, <2>2 DEF WithThis, SeededIsAnnounced
  <2>3. CASE Fault("write") /\ Give
    <3>1. faults'.write # 0 /\ job'.pc = "idle"
      BY <2>3, <1>fault DEF Give, Idle
    <3> QED
      BY <1>0, <3>1 DEF SeededIsAnnounced
  <2> QED
    BY <1>7, <2>2, <2>3 DEF WriteRegistry
<1>8. CASE AddTorrent
  <2>1. /\ job.pc = "add" /\ job.model \in Model /\ job' = Idle
        /\ session' = [session EXCEPT ![job.model] =
                         IF @ = None THEN torrent[FileOf[job.model]] ELSE @]
        /\ UNCHANGED <<magnets, faults>>
    BY <1>8, Jobs DEF AddTorrent, DiskInv, disk
  <2> QED
    BY <1>0, <2>1 DEF DiskInv, SeederTypeOK, SeededIsAnnounced, Idle
<1>9. CASE StartDaemon
  BY <1>0, <1>9 DEF StartDaemon, disk, SeededIsAnnounced
<1>10. CASE KillDaemon
  BY <1>0, <1>10 DEF KillDaemon, Idle, SeededIsAnnounced
<1>11. ASSUME NEW m \in Model, Pull(m) PROVE LinksInv'
  BY <1>0, <1>11 DEF Pull, disk, process, SeededIsAnnounced
<1>12. CASE UNCHANGED seederVars
  BY <1>0, <1>12 DEF seederVars, SeededIsAnnounced
<1> QED
  BY <1>1, <1>2, <1>3, <1>4, <1>5, <1>6, <1>7, <1>8, <1>9, <1>10, <1>11, <1>12
  DEF SeederNext, SeedStep

(***************************************************************************)
(* Every model the session seeds has its magnet link, although each seed() *)
(* rewrites the registry and kills may empty it, as long as no write fails *)
(* (seeder.py 104-111, 128-136).                                           *)
(***************************************************************************)
THEOREM LinksKept == SeederSpec => []SeededIsAnnounced
<1>1. SeederInit => LinksInv
  <2> SUFFICES ASSUME SeederInit PROVE LinksInv
    OBVIOUS
  <2>1. job.pc = "idle" /\ \A m \in Model : session[m] = None
    BY DEF SeederInit, Idle
  <2> QED
    BY <2>1, DiskInit DEF LinksInv, SeededIsAnnounced
<1>2. LinksInv /\ [SeederNext]_seederVars => LinksInv'
  BY LinksStep
<1>3. LinksInv => SeededIsAnnounced
  BY DEF LinksInv
<1> QED
  BY <1>1, <1>2, <1>3, PTL DEF SeederSpec

-----------------------------------------------------------------------------
(* Links for good *)

\* A .torrent file that has been written to the end is not written again.
LEMMA WholeStays ==
  ASSUME DiskInv, [SeederNext]_seederVars, NEW f \in FileName,
         torrent[f] \in Torrent
  PROVE  torrent'[f] = torrent[f]
<1>1. torrent[f] # None /\ torrent[f] # Torn
  BY Kinds
<1>2. CASE OpenTorrent \/ FillTorrent
  <2>1. torrent[FileOf[job.model]] \in {None, Torn}
    BY <1>2 DEF OpenTorrent, FillTorrent, DiskInv, InHand
  <2>2. f # FileOf[job.model]
    BY <1>1, <2>1
  <2> QED
    BY <1>2, <2>2 DEF OpenTorrent, FillTorrent, DiskInv, SeederTypeOK
<1>3. CASE UNCHANGED torrent
  BY <1>3
<1> QED
  BY <1>2, <1>3
  DEF SeederNext, SeedStep, SeedStarter, SeedRequest, Hash, OpenRegistry,
      WriteRegistry, AddTorrent, StartDaemon, KillDaemon, Pull, disk, seederVars

\* So while the file is there, the only link of its model is to it.
LEMMA LinkOf ==
  ASSUME DiskInv, NEW m \in Model, NEW t \in Torrent
  PROVE  /\ magnets[m] = t => torrent[FileOf[m]] = t
         /\ torrent[FileOf[m]] = t => magnets[m] \in {None, t}
BY Kinds DEF DiskInv, AnnouncedIsOnDisk

(***************************************************************************)
(* A magnet link that was ever published for a model is its link for good, *)
(* whatever newer versions are pulled and whatever is killed or fails: no  *)
(* two nodes ever get different links (seeder.py 67-71, 104-111).          *)
(***************************************************************************)
THEOREM LinkForGood == SeederSpec => LinkStays
<1> SUFFICES ASSUME NEW m \in Model,
                    NEW t \in [kind : {"whole"}, model : Model,
                               version : 1..MaxVersion]
             PROVE  SeederSpec => [](magnets[m] = t => [](magnets[m] \in {None, t}))
  BY DEF LinkStays
<1>1. t \in Torrent /\ FileOf[m] \in FileName
  BY SeederAssumption, Files DEF Torrent
<1>2. SeederInit => DiskInv
  BY DiskInit
<1>3. DiskInv /\ [SeederNext]_seederVars => DiskInv'
  BY DiskStep
<1>4. DiskInv /\ torrent[FileOf[m]] = t /\ [SeederNext]_seederVars
        => (torrent[FileOf[m]] = t)'
  BY <1>1, WholeStays
<1>5. DiskInv /\ magnets[m] = t => torrent[FileOf[m]] = t
  BY <1>1, LinkOf
<1>6. DiskInv /\ torrent[FileOf[m]] = t => magnets[m] \in {None, t}
  BY <1>1, LinkOf
<1> QED
  BY <1>2, <1>3, <1>4, <1>5, <1>6, PTL DEF SeederSpec

=============================================================================
