------------------------------- MODULE Seeder -------------------------------
(***************************************************************************)
(* The model seeder (seeder/seeder.py) inside aidad: at start it seeds     *)
(* every local starter model that Ollama has pulled, later the models it   *)
(* is asked for over the API.  seed() writes a .torrent file once and for  *)
(* all, rewrites config/model_torrents.yaml in place and adds the torrent  *)
(* to the session.                                                         *)
(*                                                                         *)
(* seed() awaits nothing, so within the daemon one call is over before the *)
(* next begins, and start-up seeding is over before the API is served.     *)
(* Kills, a full disk and Ollama come between its steps.                   *)
(***************************************************************************)
EXTENDS Integers, Sequences

CONSTANTS
  Model,        \* ids of models
  FileOf,       \* [Model -> the stem of its .torrent file], safe_name
  Starters,     \* the local starter models of models.yaml, in their order
  MaxVersion,   \* bound: how often Ollama pulls a model anew
  MaxFaults     \* bound: kills and failed writes, together

FileName == {FileOf[m] : m \in Model}

ASSUME SeederAssumption ==
  /\ FileOf \in [Model -> FileName]
  /\ Starters \in Seq(Model)
  /\ MaxVersion \in Nat /\ MaxFaults \in Nat

VARIABLES
  pulled,   \* [Model -> Nat], the version Ollama's manifest names; 0: none
  torrent,  \* [FileName -> a .torrent file]
  magnets,  \* [Model -> the torrent its magnet link names], the yaml file
  online,   \* the daemon runs
  todo,     \* the starter models that start-up seeding has not come to
  job,      \* the seed() call in hand
  session,  \* [Model -> the torrent seeded], _handles
  faults    \* history: [kill |-> , write |-> ]

seederVars == <<pulled, torrent, magnets, online, todo, job, session, faults>>
disk == <<torrent, magnets>>
process == <<online, todo, session>>

None == [kind |-> "none"]
Torn == [kind |-> "torn"]
Torrent == [kind : {"whole"}, model : Model, version : Nat \ {0}]
TorrentOf(m) == [kind |-> "whole", model |-> m, version |-> pulled[m]]

\* model_torrents.yaml is missing or empty, which parses as no magnets.
NoMagnets == [m \in Model |-> None]

Idle == [pc |-> "idle"]

Fault(kind) ==
  /\ faults.kill + faults.write < MaxFaults
  /\ faults' = [faults EXCEPT ![kind] = @ + 1]

SeederInit ==
  /\ pulled \in [Model -> {0, 1}]
  /\ torrent = [f \in FileName |-> None]
  /\ magnets = NoMagnets
  /\ online = FALSE /\ todo = <<>> /\ job = Idle
  /\ session = [m \in Model |-> None]
  /\ faults = [kill |-> 0, write |-> 0]

-----------------------------------------------------------------------------
(* seed(model_id) *)

Goto(pc) == job' = [job EXCEPT !.pc = pc]

\* seed() raises.
Give == job' = Idle

BeginUnread(m) ==   \* mutant: a file that exists is taken to be a torrent
  LET found == torrent[FileOf[m]]
  IN  job' = IF found.kind # "none"
             THEN [pc |-> "register", model |-> m, made |-> found]
             ELSE IF pulled[m] > 0
             THEN [pc |-> "hash", model |-> m, made |-> TorrentOf(m)]
             ELSE Idle

BeginAnew(m) ==   \* mutant: a torrent of an older version is made anew
  LET found == torrent[FileOf[m]]
  IN  job' = IF found = TorrentOf(m)
             THEN [pc |-> "register", model |-> m, made |-> found]
             ELSE IF found.kind # "torn" /\ pulled[m] > 0
             THEN [pc |-> "hash", model |-> m, made |-> TorrentOf(m)]
             ELSE Idle

\* create_torrent: is there a file, can it be loaded, is the model pulled?
Begin(m) ==
  LET found == torrent[FileOf[m]]
  IN  job' = IF found.kind = "whole"
             THEN [pc |-> "register", model |-> m, made |-> found]
             ELSE IF found.kind = "none" /\ pulled[m] > 0
             THEN [pc |-> "hash", model |-> m, made |-> TorrentOf(m)]
             ELSE Idle

StopAtFirstFailure ==   \* mutant: the exception is caught outside the loop
  IF \/ torrent[FileOf[Head(todo)]].kind = "whole"
     \/ torrent[FileOf[Head(todo)]].kind = "none" /\ pulled[Head(todo)] > 0
  THEN Tail(todo) ELSE <<>>

\* Whatever becomes of one model, the loop goes on to the next.
NextStarters == Tail(todo)

\* _start_seeding_installed_models, its next model.
SeedStarter ==
  /\ online /\ job = Idle /\ todo # <<>>
  /\ Begin(Head(todo))
  /\ todo' = NextStarters
  /\ UNCHANGED <<pulled, disk, online, session, faults>>

\* POST /seeder/seed/{model_id}
SeedRequest(m) ==
  /\ online /\ job = Idle /\ todo = <<>>
  /\ Begin(m)
  /\ UNCHANGED <<pulled, disk, process, faults>>

HashAndRegister ==   \* mutant: the registry is updated before the file exists
  IF pulled[job.model] = job.made.version THEN Goto("register") ELSE Give

\* Hashing the blobs fails if a newer pull has replaced them meanwhile.
HashBlobs ==
  IF pulled[job.model] = job.made.version THEN Goto("open") ELSE Give

Hash ==
  /\ job.pc = "hash"
  /\ HashBlobs
  /\ UNCHANGED <<pulled, disk, process, faults>>

\* write_bytes truncates the file it opens ...
OpenTorrent ==
  /\ job.pc = "open"
  /\ torrent' = [torrent EXCEPT ![FileOf[job.model]] = Torn]
  /\ Goto("fill")
  /\ UNCHANGED <<pulled, magnets, process, faults>>

\* ... and fills it, or fails on a full disk.
FillTorrent ==
  /\ job.pc = "fill"
  /\ \/ /\ torrent' = [torrent EXCEPT ![FileOf[job.model]] = job.made]
        /\ Goto("register")
        /\ UNCHANGED faults
     \/ /\ Fault("write") /\ Give
        /\ UNCHANGED torrent
  /\ UNCHANGED <<pulled, magnets, process>>

\* _update_torrent_registry: read the file, truncate it ...
OpenRegistry ==
  /\ job.pc = "register"
  /\ job' = [pc |-> "announce", model |-> job.model, made |-> job.made,
             known |-> magnets]
  /\ magnets' = NoMagnets
  /\ UNCHANGED <<pulled, torrent, process, faults>>

OnlyThis ==   \* mutant: the links read before are not written back
  [NoMagnets EXCEPT ![job.model] = job.made]

WithThis == [job.known EXCEPT ![job.model] = job.made]

\* ... and write it with one link more.
WriteRegistry ==
  /\ job.pc = "announce"
  /\ \/ /\ magnets' = WithThis
        /\ job' = [pc |-> "add", model |-> job.model, made |-> job.made]
        /\ UNCHANGED faults
     \/ /\ Fault("write") /\ Give
        /\ UNCHANGED magnets
  /\ UNCHANGED <<pulled, torrent, process>>

\* add_torrent of the file, unless the session has a handle for the model.
AddTorrent ==
  /\ job.pc = "add"
  /\ session' = [session EXCEPT ![job.model] =
                   IF @ = None THEN torrent[FileOf[job.model]] ELSE @]
  /\ job' = Idle
  /\ UNCHANGED <<pulled, disk, online, todo, faults>>

SeedStep ==
  \/ SeedStarter \/ Hash \/ OpenTorrent \/ FillTorrent
  \/ OpenRegistry \/ WriteRegistry \/ AddTorrent

-----------------------------------------------------------------------------
(* The daemon and Ollama *)

StartDaemon ==
  /\ ~online
  /\ online' = TRUE /\ todo' = Starters
  /\ UNCHANGED <<pulled, disk, job, session, faults>>

KillDaemon ==
  /\ online /\ Fault("kill")
  /\ online' = FALSE /\ todo' = <<>> /\ job' = Idle
  /\ session' = [m \in Model |-> None]
  /\ UNCHANGED <<pulled, disk>>

\* ollama pull gets a model, or a newer version of it, and drops the old blobs.
Pull(m) ==
  /\ pulled[m] < MaxVersion
  /\ pulled' = [pulled EXCEPT ![m] = @ + 1]
  /\ UNCHANGED <<disk, process, job, faults>>

SeederNext ==
  \/ SeedStep
  \/ \E m \in Model : SeedRequest(m) \/ Pull(m)
  \/ StartDaemon \/ KillDaemon

\* The running daemon takes its next step, and systemd starts it again.
SeederFairness == WF_seederVars(SeedStep) /\ WF_seederVars(StartDaemon)

SeederSpec == SeederInit /\ [][SeederNext]_seederVars
SeederFairSpec == SeederSpec /\ SeederFairness

-----------------------------------------------------------------------------
(* Properties *)

Job ==
  {Idle}
    \cup [pc : {"hash", "open", "fill", "register", "add"},
          model : Model, made : Torrent]
    \cup [pc : {"announce"}, model : Model, made : Torrent,
          known : [Model -> Torrent \cup {None}]]

\* Every variable has its type.
SeederTypeOK ==
  /\ pulled \in [Model -> Nat]
  /\ torrent \in [FileName -> Torrent \cup {None, Torn}]
  /\ magnets \in [Model -> Torrent \cup {None}]
  /\ online \in BOOLEAN
  /\ todo \in Seq(Model)
  /\ job \in Job
  /\ session \in [Model -> Torrent \cup {None}]
  /\ faults \in [kill : Nat, write : Nat]

(***************************************************************************)
(* What is announced to other nodes, and what is seeded, is the intact     *)
(* .torrent file on the disk, whatever was killed or failed: so every      *)
(* later start can seed it again (seeder.py 95-96 before 128-136).         *)
(***************************************************************************)
AnnouncedIsOnDisk ==
  \A m \in Model :
    /\ magnets[m] # None => torrent[FileOf[m]] = magnets[m]
    /\ session[m] # None => torrent[FileOf[m]] = session[m]

(***************************************************************************)
(* What the session seeds has a magnet link, although the registry is      *)
(* rewritten for every model and a kill may empty it: only a write that    *)
(* fails without a kill leaves seeded models without their links           *)
(* (seeder.py 104-111, 128-136).                                           *)
(***************************************************************************)
SeededIsAnnounced ==
  \A m \in Model :
    session[m] # None /\ job.pc # "announce" /\ faults.write = 0
      => magnets[m] # None

(***************************************************************************)
(* A magnet link, once published, is the link of its model for good: it    *)
(* may be missing for a while, but neither kills nor newer versions that   *)
(* ollama pull brings ever put another one in its place, so nodes that     *)
(* looked it up at different times meet in one swarm (seeder.py 67-71).    *)
(***************************************************************************)
LinkStays ==
  \A m \in Model, t \in [kind : {"whole"}, model : Model, version : 1..MaxVersion] :
    [](magnets[m] = t => [](magnets[m] \in {None, t}))

(***************************************************************************)
(* Start-up seeding comes to every pulled starter model, also behind one   *)
(* that cannot be seeded (daemon.py 62-71), unless its own .torrent is     *)
(* torn, a write fails or the daemon is killed.                            *)
(***************************************************************************)
StartersSeeded ==
  \A m \in Model :
    (\E i \in DOMAIN todo : todo[i] = m) /\ pulled[m] = MaxVersion
      ~> \/ session[m] # None
         \/ torrent[FileOf[m]] = Torn
         \/ faults.write > 0
         \/ ~online

=============================================================================
