# AIDA OS: TLA+ models

Specifications of the concurrent and failure-prone parts of AIDA OS, checked
with TLC on small instances and proved with TLAPS for all instances as far
as safety goes. Paths and line numbers refer to the repository's `src/`.

## 1. The system

AIDA OS is an Arch Linux with a handful of cooperating Python processes:

| Component | State it keeps | Operations | Interacts with |
|---|---|---|---|
| `aidad` daemon and HTTP API (`aidad/daemon.py`, `api.py`, `settings.py`) | a snapshot of settings, hardware and models taken at start | start, `/schedule`, seeder endpoints | everything that needs a model |
| registry and scheduler (`registry.py`, `scheduler.py`) | the entries of `config/models.yaml` in file order | `by_skill`, `select`; `select` appends two lines to `usage.jsonl` | usage log |
| self-improve loop (`selfimprove.py`) | none between passes; files `usage.jsonl`, `improvements.log`, `models.yaml` | every five minutes: count, reorder `models.yaml`, log, suggest | runs inside the daemon *and* as `python -m aidad.selfimprove` |
| self-heal daemon (`selfheal.py`, `aida-selfheal.service`) | `selfheal.log` | every 30 s: restart failed services and nats, free memory, warn of the disk | systemd, Docker |
| chat terminal (`chat.py`) | history of the session | ask over the bus, fall back to running the graph itself | bus, orchestrator |
| bus client (`bus/client.py`) | one NATS connection per process | `request`, `subscribe_reply`, `subscribe`, `publish` | NATS |
| agents and orchestrator (`agents/`) | Hermes' memory store | handle one request: memories, then a model's answer | bus, `mpi` |
| MPI (`mpi/client.py`) | none | `/schedule`, then the completion | daemon, providers |
| capabilities (`capabilities/model.py`) | two lists per agent, read once | `check`, `require` | agents |
| seeder (`seeder/seeder.py`) | torrents, `model_torrents.yaml`, a libtorrent session | seed, download, wait, stats | daemon, installer |
| setup (`setup/`, `aida-firstboot.sh`) | `profile.yaml`, `settings.yaml` | wizard, recommender, pulls, configuration | seeder, Ollama, daemon |

Infrastructure (ansible, proxmox, archiso, scripts, CI) has no run-time state
of its own.

What is hard about it:

* **Files as shared memory.** `models.yaml` is read and rewritten in place by
  up to two loops and the user's editor, without a lock or an atomic rename,
  and the daemon refuses to start on a truncated one.
* **Snapshots.** The daemon decides from what it read at start, while
  settings, models and memory change underneath it.
* **Timeouts that race answers.** The terminal gives up on the bus after 60
  seconds and runs the same graph itself; the agent goes on with the abandoned
  request, in a queue in front of later ones.
* **Failure in the middle of a sequence.** A log line on a full disk ends
  self-heal in the middle of a pass, and is lost without a word by the
  self-improve loop, which never closes its log; systemd restarts some processes and nobody
  restarts an asyncio task. The setup wizard pulls for an hour, then writes two
  files that must agree, and any login shell may start a second one.

What makes each part correct, in one line: the reorder neither loses nor mixes
entries and has the effect it is for; decisions respect the loaded settings
whatever the order; usage and improvement logs miss only what failed; a prompt
has one outcome and an answer belongs to its prompt; the agents' queue drains;
a pass of self-heal repairs what is broken, in an order in which repairs do
not undo each other; what is announced to peers is on the disk; a saved profile
is one whose settings were written, and a setup that has begun to pull comes to
the settings and to its end.

## 2. Modules

| Module | Models | Composes |
|---|---|---|
| `ModelRegistry` | `registry.py` and the choice of `scheduler.py`, as operators on a sequence of entries | |
| `UsagePromotion` | the arithmetic of `selfimprove.py`: use counts, ranking, the new order | extends `ModelRegistry` |
| `AidaCore` | the daemon, any number of `improve_loop` instances, the files, the user, kills and failed writes | extends `UsagePromotion` |
| `Promotion_proof` | theorems about the arithmetic of the promotion and the choice of the scheduler | |
| `AidaCore_proof`, `AidaOrder_proof` | theorems about `AidaCore`: what the files hold; in which order | extend `Promotion_proof` |
| `ChatService` | abstract: what a chat terminal promises | |
| `AskPath` | chat, bus, AIDA agent, graph, Hermes, MPI; refines `ChatService` | instance of `ChatService` |
| `SelfHeal` | the self-heal daemon under systemd | |
| `SelfHeal_proof` | theorems about `SelfHeal` | |
| `Seeder` | `ModelSeeder.seed`, start-up seeding, the seed endpoint | |
| `Seeder_proof` | theorems about `Seeder` | |
| `Recommender` | `recommender.py`: the rule-based plan as an operator on the hardware and the words of the conversation | |
| `Setup` | the wizard and the installer it calls, in any number of login shells, beside the daemon's seeder | extends `Seeder`, instances of `Recommender` and `ModelRegistry` |
| `Setup_proof` | theorems about `Setup` | |
| `AskPath_proof`, `AskService_proof` | theorems about `AskPath`; that it implements `ChatService` | |
| `MCAidaCore`, `MCAskPath`, `MCSelfHeal`, `MCSeeder`, `MCSetup` | the small instances | |

Operators marked `mutant` are deliberately wrong variants of the definition
that follows them: each stands for a plausible bug, and putting it in the
definition's place makes a property of a run fail. They are never used by a
specification.

### How `AidaCore` corresponds to the code

`models` is `models.yaml`; `intact` is false between the truncation and the
write of `write_text`, and after a kill in between. `snapshot` is what
`AidaDaemon.__init__` reads, together with (history) the usage log by which
the file had last been reordered. `usage` holds the lines of `usage.jsonl` that
decode; the loop skips the others. `improver[p]` is the local state of one
`improve_loop`: `asleep`, then `readConfig` (line 83), `truncate` and `write`
(line 94), `log` (line 96), `advise` (lines 99-125). `InProc` is the instance
in the daemon: its steps and the handlers exclude each other because neither
contains an `await`, but other processes come between any two steps.

`Orders` gives the result of Python's stable sort as the one enumeration of
the kept positions that `Precedes` orders: no recursion, so it can be proved
about. An entry is a model value; id, skills, requirements and `cloud` are
constant functions of it, so that two entries can share an id; a reorder then
keeps only the last of those that were used (`Kept`). A usage line is an id or
`AgentLine`.

What fails. `_log_improvement` writes through a file object that nobody closes:
on a full disk the entry is lost when the object is finalised, where Python
swallows the exception, and the loop goes on; only if the log cannot be opened
at all does the exception end the loop. `LogReorder` and `Advise` have all three
outcomes. `record_usage` closes its file, so a failed append does raise. It may
leave nothing, half a line, or a line that only lacks its newline and still
decodes until the next one is glued to it (`tail`: `whole`, `half`, `open`).

Two improvers that overlap in `write_text` write their texts over each other
from the first byte on, and the rest of a longer text stays behind a shorter one
(texts of the same entries in another order have the same length: `SameSize`).
The rest may make the file unparsable. Or it parses, because it begins at a line:
further entries of the longer text follow, and its first lines continue the last
entry of the shorter text, where of a repeated key the last counts (`Blends`,
`Overlaid`). `collided` remembers that this has happened; until then `OnlyReordered`
allows no mixture.

Abstracted: time (a sleep may end at any moment), the wording of log lines, a
missing `models.yaml`, and the suggestions, of which only what may become of
their log lines is kept. A usage or settings text is short enough for one
`write`, and `settings.yaml` always loads here (`Setup` has the ones that do
not, and `Boot` their guard). `EditModels` is not taken during the instant
between truncation and write, because what an editor does to a file that changes
under it is its own affair.

### How `AskPath` corresponds to the code

`phase` is where `chat_loop` is: `idle` at the prompt, `asking` inside
`bus_request`, `direct` inside the fallback. `run[r]` is a graph invocation in
the agent or in a terminal; its stages are the awaits of `_get_memories`,
`_resolve_model` and `acompletion`. `inbox` is the pending queue of the
subscription (nats-py hands messages to a callback one at a time). `replies`
are under way. `agents` is the state of the daemon's subscriptions. A message
is who wrote it, for which prompt, and whether it is an answer or the
`"(no response)"` that `result.get` makes of an error reply. NATS and
nats-py are external: at most once, in order, replies matched to requests by
inbox. A `connect` that raises for any reason (no server, or a client version
that refuses the plain-function callbacks of `bus/client.py:35-37`) leaves
agents deaf; both outcomes are there at start and at every restart.

Not modelled here: the history sent with a request (the agent ignores it), the
context text, the terminal's own connection as distinct from the agents'.

### How `SelfHeal` corresponds to the code

`Checks` is the order of a pass: the `.service` entries of
`_WATCHED_SERVICES`, nats, memory, disk. A step looks at one of them, acts, or
writes the log line. `disk = "full"` makes `_log_action` raise, which ends the
process; systemd starts it again (`Restart=always`) and pulls in aidad
(`Requires=`). Restarting aidad restarts this process, before it can log.
Abstracted: a missing `systemctl` or `docker` (the installed system has both).

### How `Seeder` corresponds to the code

`pulled` is the version of a model that Ollama's manifest names; a torrent is
the model and version whose blobs it lists. `torrent` holds the `.torrent`
files (`Torn`: truncated at line 95, not yet or never filled), `magnets` is
`model_torrents.yaml`, empty between the truncation and the write of line 110,
`session` is `_handles`. `job` is the `seed()` call in hand: `hash` (lines
77-94), `open` and `fill` (line 95), `register` and `announce` (lines 103-110),
`add` (lines 130-135). `seed()` contains no `await`, so one call ends before
the next begins and start-up seeding ends before the API is served: `todo`
must be empty for `SeedRequest`. A torn torrent or a missing manifest makes
`Begin` give up; hashing fails if `ollama pull` has replaced the blobs.

Abstracted: a pull between the reading of the manifest and the look at each
blob (lines 46-57, one step: a blob removed there would be left out of the
torrent), a `model_torrents.yaml` cut somewhere in the middle (it is written
in one piece, so a kill leaves it empty), DHT and peers, a missing libtorrent.
The `download` half of the class, which only the installer calls, is in
`Setup`.

### How `Setup` corresponds to the code

`wizard[l]` is a run of `run_wizard` in login shell `l`: `questions`
(hardware scan and the five questions), `confirm` (the plan is shown), then
`apply_profile`: `pull` (the head of the loop in `pull_models`), `download`
(`wait_for_download`) or `ollama`, and the two writes, each in two steps
because `write_text` truncates before it writes: `openSettings`,
`fillSettings`, `openProfile`, `fillProfile`. `StartWizard` is a login that
finds no `profile.yaml` or a user who runs `aida-setup` again; nothing in the
code keeps two of them apart. What the daemon does is `Seeder`'s, with one
guard more: `Boot` needs a `settings.yaml` that parses.

`settings` is the privacy section of `settings.yaml`. It is `whole`, `empty`
(between the two steps of a write, or for good after a kill; it then loads as the
defaults in the daemon and is a `KeyError` in the wizard) or `garbled` (two wizards
wrote texts of different lengths over each other; loading raises in both). Two
such texts are dumps of the same settings with another `air_gapped` or policy:
they differ by three characters at most, so that what is left of the longer one
is an empty line or does not parse.

`profile` is what `load_profile` makes of `profile.yaml`: absent, torn (it
raises) or a profile. Here the texts of two wizards may differ by whole lines,
and what is left of a longer one behind a shorter one often parses: keys it
repeats count, as the last ones, and unknown ones are ignored. `texts` are the
plans whose texts the file consists of; `Overlaid` gives the profiles that may be
read from a plan written over others. `yaml.dump` sorts the keys, so
`privacy_level` is taken from the rest first, then also `models`, then all. A
profile is written in one piece; a write that fails puts nothing in the file.

`Proposals` is what `ai_recommend` returns: the profile of a cloud AI, any
member of the constant `AiProfiles`, or, without a key or on any exception,
`RuleBased`. A conversation is the set of words the recommender looks for that
an answer contains. The recommender joins its own questions with the answers
before it searches them; `Recommender` keeps that, the words of the questions included.

External: `ollama pull`, which may bring a newer version or fail (the code
does not look at its exit code), or end the wizard with an exception (no such
program, output that does not decode: `OllamaEnds` counts it as a kill), and peers: `PeersDeliver` may happen and has
no fairness. Abstracted: the desktop packages, whose result nobody reads, and
which of the three providers answers.

## 3. Runs

| Run | Instance | Question |
|---|---|---|
| `core_one_improver` | 4 entries (two local models; two of the cloud, one of them offering a local model's id again), 2 contents of `models.yaml`, one with the repeated id, 2 settings, 2 hardware states, 4 decisions, 1 edit, 1 fault | safety of the daemon with its loop |
| `core_two_improvers` | three entries with an id each, 2 contents of two entries (a cloud model or another in its place), daemon and standalone loop, 2 decisions, 1 edit, 1 fault, fairness | two writers of one file, who may collide and leave a mixture; the promotion reaches the disk |
| `ask_safety` | 2 terminals, 2 prompts each, 4 messages of history, 1 fault | at most two graph runs per prompt, requests in order |
| `ask_refines` | 1 terminal, 3 prompts, 2 messages of history, 2 faults, fairness | `AskPath` implements `ChatService`; the queue drains |
| `heal_repairs` | the 4 real services, 3 faults, fairness | one pass repairs all; everything is repaired in the end |
| `seeder` | 2 starter models, 2 versions each, 2 faults, fairness | what is announced can be seeded and stays announced; start-up comes to every model |
| `setup` | 2 shells, 2 models of the shipped `models.yaml`, a machine without GPU, 3 plans (2 rule-based, one of them paranoid, and a cloud AI's that cuts the machine off), 2 wizards, 1 fault, fairness | what a saved profile says was applied; settings agree with it; a setup goes on to the settings and ends |
| `core_reorder_safe`, `core_edit_kept`, `ask_failure_shown`, `setup_fallback`, `setup_local_models` | as small as the counterexample | statements of the repository the code contradicts (section 6) |

**Why the bounds are enough.** Four decisions are what it takes to reach
`_MIN_SAMPLES` (set to 5 lines there, 2 elsewhere, instead of 10), to rank one used model above
another and to decide again after a restart; one edit and one fault can come
between any two steps, which is where the in-place rewrite bites; a second
improver is the largest number the repository runs, and versions of two entries
that share one are enough for a mixture of three. Two prompts per terminal
let a late answer to the first meet the second, three with a history of one
exchange make the history slide twice. Two terminals mix in the agent's queue;
`SYMMETRY` over terminals is used only in the run without liveness. Three
faults let Docker, nats and one more service fail in one pass. In `seeder`,
two models are needed to see one behind a failing one and one link lost to
another's, two versions to replace blobs under a hash, two faults to tear a
torrent and then the registry. In `setup`, two wizards are what it takes to
overlap or to run setup again; the three plans differ in every field the model
keeps, so that a mixture of two shows and a plan that is not paranoid can follow
one that is; and one fault cuts one of the four write steps
short; models have one version there, since what a newer one does to a torrent
is `seeder`'s question (`setup_fallback` has two). Cut-offs
(`MaxServed`, `MaxEdits`, `MaxPrompts`, `MaxVersion`, `MaxSetups`,
`AskedToSeed`, `MaxFaults`) occur only as guards of
the action they bound; `MaxVersion` also is the range of the versions that
`LinkStays` speaks of, and any number in the theorem. `CHECK_DEADLOCK FALSE` is set in the runs of
`AskPath`, where the terminals stop after `MaxPrompts` prompts, and of `Setup`,
where wizards stop after `MaxSetups` and a garbled `settings.yaml` stops the
daemon too.

**Fairness.** `AidaCore`: weak fairness of the daemon's start (systemd,
`Restart=always`), of the second usage record and of each loop's next step;
none of requests, edits, kills or changes of the machine. `AskPath`: weak
fairness of the bus timeout or delivery, of the agent's next message and of a
graph's next step, because every await in them has a timeout or ends with the
provider's; none of the restarts, so the results hold with NATS and daemon
down for good. `SelfHeal`: weak fairness of the loop, its sleep and systemd's
restart. `Seeder`: weak fairness of the call in hand and of the daemon's start,
none of requests, pulls or faults. `Setup`: weak fairness of every wizard's own
next step once the user has confirmed (`ollama pull` ends) and of the daemon as
before; none of the user's answers and none of peers. Faults are finitely many; a service that keeps failing could, with a
full disk, keep the loop from ever reaching the checks after it.

## 4. Properties

* `OnlyReordered`: until two improvers collide (in particular, for ever if there
  is one), a `models.yaml` that parses and the loaded registry hold the entries
  of exactly one version the user wrote, although the read at line 83 is older
  than the write at 94 and edits and kills come between. If the version repeats
  an id, entries may go but no id does (`PromotionOf`). After a collision the
  file may be a mixture that parses, and nothing is claimed.
* `IntactUnlessKilled`: nobody sees an unreadable file except during a write,
  unless a process was killed in one or improvers collided; and a collision takes
  two improvers and an edit or a repeated id.
* `LocalFirst`: the order that usage produces never lets a cloud model
  overtake the settings the daemon loaded.
* `PopularFirst`: after a restart the decision follows the log by which the
  file was last reordered (ties aside, local first): the purpose of the loop.
* `UsageLossBounded`, `UnloggedBounded`: what the two logs may lack is bounded
  by the faults that happened, log entries lost without a word included.
* `NoRepeatedReorder`: reordering is idempotent for one log; the stable order
  of ties matters.
* `OrderMovesForward`: a lone loop never puts back the order of an older or a
  partial log, but for the last line of the log, which may stop decoding when the
  next is glued to it. With a second improver this can happen: it may write late what
  it computed early, until a later pass (`PromotionReachesDisk`) repairs it.
* `PromotionReachesDisk`: what usage asks for is on the disk in the end, also
  after late writes and collisions that leave a file that parses.
* `ImplementsChatService`: one outcome per prompt, an answer under its own
  prompt, history of whole exchanges in order, and an outcome in the end.
* `WorkBounded`, `HandledInOrder`, `QueueDrains`: cost and order of work that
  timeouts abandon.
* `AnnouncedIsOnDisk`: every magnet link and every seeded torrent is an intact
  file on the disk, so a later start can seed it again: file first, link then,
  session last.
* `SeededIsAnnounced`: the registry is rewritten from what was read of it, so
  no link of a seeded model is lost unless a write fails.
* `LinkStays`: the link of a model is never replaced by another one, so nodes
  that learn it at different times share one swarm. The price is that a newer
  version is never announced, and that its blobs may be gone here (section 6,
  `setup_fallback`).
* `StartersSeeded`: start-up seeding does not stop at a model that fails. A
  model that is not pulled again is meant (`pulled[m] = MaxVersion`), since a
  pull during the hash makes `seed()` fail.
* `OnePassRepairsAll`, `ServicesRepaired`, `NatsRepaired`: section 2.
* `SavedWasApplied`: `profile.yaml` is written after `settings.yaml`, so a
  profile on the disk has been applied, whatever is killed or fails. Where two
  wizards wrote at a time it may be a profile nobody planned, but each field of
  it is from one that was applied.
* `SettingsFollowProfile`: unless two wizards wrote at once or one was cut
  short, `air_gapped` is that of the saved profile, so running setup again takes
  an air gap back; the policy is "never" exactly if *some* profile applied so far
  was paranoid, since nothing takes that back (`installer.py:109-110`).
* `SetupEnds`: a setup that has come to the pulls gets to the settings, although
  pulls fail, and from there to its end. It stops before only for a kill, for
  settings another wizard has truncated, or for a download that waits for peers
  for ever, which the code allows.

## 5. Proofs

TLAPS proves, for any sets of entries, versions, improvers and hardware and
without the bounds playing a role:

| Theorem | Statement | Argument |
|---|---|---|
| `AidaCore_proof!Typing` | `Spec => []TypeOK` | inductive as it stands; needs that `Orders` yields functions into the file's positions |
| `Promotion_proof!OneOrder` | `Orders(m, log)` has exactly one element, for every `models.yaml` and log | `Precedes` is a strict total order of the kept positions (`PrecedenceOrders`), and a finite set has exactly one enumeration in a strict total order: the position of an element is the number of those below it (`EnumerationExists`, `EnumerationUnique`). So `ReadConfig` is never stuck and is deterministic, as `sorted` is |
| `Promotion_proof!ReorderIdempotent` | a reordered file is `InPromotedOrder` for the same log | what is reordered is *settled*: kept positions in the order of `Precedes`; then the identity is an enumeration, and by uniqueness the only one |
| `Promotion_proof!NoIdLost` | a reorder keeps all ids, adds nothing, and drops an entry only for a later one with its id | the last entry with an id is kept (`SomeEntryKept`), and an enumeration is onto |
| `Promotion_proof!OneFirst` | from a non-empty set of candidates exactly one `IsFirst` | the least position of the local candidates if `local_first` counts, else of all |
| `AidaCore_proof!NothingLost` | `Spec => []OnlyReordered` | the invariant adds what is in flight: until a collision, the `reordered` sequence an improver holds between reading and writing is itself a promotion of some version (`PromotionStep`). The theorem `ReorderedRearranges` shows that a reorder of a file with unique ids is a rearrangement: every position is kept, and an enumeration in a strict order is a bijection |
| `AidaCore_proof!LocalModelsFirst` | `Spec => []LocalFirst` | a decision's position was first among the candidates of the loaded registry, and the snapshot does not change while the decision stands |
| `AidaCore_proof!UsageAccounted` | `Spec => []UsageLossBounded` | arithmetic over the two appends of a decision; a tail that is half a line, or lacks its newline, stands for the one or two lines of loss not yet suffered |
| `AidaCore_proof!ReadableKept` | `Spec => []IntactUnlessKilled` | the invariant adds `OneContent` (without edits and repeated ids the file and all that improvers hold have the entries of one version, so all texts have one length and nothing collides), `LoneWriter` (the file a lone improver has truncated stays empty until it writes) and `OnlyTruncated` (without a collision an unreadable file is an empty one) |
| `AidaCore_proof!ReordersLogged` | `Spec => []UnloggedBounded` | counts the improvers about to log: a reorder enters that set when it is written and leaves it logged or at the price of a fault, whether the loop goes on or not |
| `AidaOrder_proof!Ordered` | `Spec => []OrderInv` | `OrderInv`: the file on disk, the loaded registry and the text an improver is about to write are each settled by the log they were reordered by (or untouched since the user wrote them), and a pending write of a lone improver is by another log than the file's. By `ReorderIdempotent` the comparison at line 92 sees that nothing is to do |
| `AidaOrder_proof!NoIdleRewrite` | `Spec => []NoRepeatedReorder` | a part of `OrderInv`, which is not inductive without the rest |
| `AidaOrder_proof!MostUsedFirst` | `Spec => []PopularFirst` | a settled file is sorted by use (`SettledSorted`), and the first candidate of a sorted file is a most used one, up to `local_first` (`FirstIsPopular`) |
| `AidaOrder_proof!NeverBackwards` | `Spec => OrderMovesForward` | an action property, from the invariant that every log in hand is a prefix of `usage`, and that a lone improver's continues `diskOrder`; once an append has failed, only the lines before its last one are sure to last (`Lasting`) |
| `AskPath_proof!Typing` | `Spec => []TypeOK` | inductive as it stands |
| `AskPath_proof!OldestServedFirst` | `Spec => []HandledInOrder` | the invariant adds that nobody holds a request of a prompt that has not been typed, so a new one is the latest everywhere |
| `AskPath_proof!TwoRunsAtMost` | `Spec => []WorkBounded` | while the request of the last prompt waits, one run is left for the agent; while the terminal asks, one for the terminal. That the agent takes a request up once follows from the strict order of the queue, hence from the theorem before |
| `AskService_proof!ServiceKept` | for even `MaxHistory`, `Spec => Service!Init /\ [][Service!Next]_(Service!vars)` | the invariant says that a graph run in a terminal's own process is for its last prompt and that histories consist of whole exchanges; lemmas about sequences show that trimming messages is trimming exchanges. With an odd length it would be false: history would start with an answer |
| `SelfHeal_proof!Typing` | `Spec => []TypeOK` | for any list of watched services |
| `SelfHeal_proof!OnePass` | `Spec => []OnePassRepairsAll` | the invariant says that what the pass has dealt with stays repaired while nothing fails; at nats it gives that Docker is up, so the restart works |
| `Seeder_proof!Typing`, `Seeder_proof!AnnouncedKept` | `SeederSpec => []SeederTypeOK`, `[]AnnouncedIsOnDisk` | one invariant for both: besides the files it says what the call in hand has made of its file so far (none, torn, whole) and that the links read before the registry is truncated are on disk too; a whole `.torrent` is never opened for writing again |
| `Seeder_proof!LinksKept` | `SeederSpec => []SeededIsAnnounced` | while the registry is empty, the links of everything seeded are in hand; a kill in between loses them together with the session |
| `Seeder_proof!LinkForGood` | `SeederSpec => LinkStays` | a `.torrent` that is whole is never written again (`WholeStays`), and by `AnnouncedKept` a link is to the file: so, for each model and torrent, temporal logic gives `[](magnets[m] = t => [](magnets[m] \in {None, t}))` |
| `Setup_proof!SetupTyping` | `SetupSpec => []SetupTypeOK` | for any overlapping wizards; what one works with was read from whole settings |
| `Setup_proof!AppliedBeforeSaved`, `Setup_proof!ProfileRules` | `SetupSpec => []SavedWasApplied`, `[]SettingsFollowProfile` | the invariant follows a plan through the four write steps (`InFlight`: a plan about to be saved has been applied), says that `profile.yaml` is still empty when the plan is filled in unless wizards overlap (`Alone`), and what the settings are, and which policy was read, while nothing is disturbed (`Orderly`) |
| `Setup_proof!LinksOnDisk`, `SeederTyping`, `LinksKeptBeside`, `LinkForGoodBeside` | `SetupSpec => []AnnouncedIsOnDisk`, `[]SeederTypeOK`, `[]SeededIsAnnounced`, `LinkStays` | every step of `Setup` is one of `Seeder`'s or leaves the seeder's files, session and call alone but for a fault or a pull (`BesideTheSeeder`), so everything proved of the seeder holds in the composition |

Assumptions used are the named `ASSUME`s of the modules (types of the
constants, `InProc \in Improver`, `Docker` watched, and so on); TLC evaluates
them in the runs. One theorem has a hypothesis of its own, in its statement:
`ServiceKept` an even history (it is 20).

How the promotion is proved about. What `selfimprove.py` computes is a sort, and
sorts are usually defined by recursion, about which these provers can say
little. The modules define it by what characterises it instead: `Orders` is the
set of enumerations of the kept positions in the order `Precedes`, `UseCount`
is the cardinality of a set of lines. Then existence and uniqueness of the
result are facts about strict orders on finite sets, proved once
(`Promotion_proof`), and no induction over a log or a file is left in
`AidaOrder_proof`. TLC, which evaluates `Orders` as the set of functions it is,
checks `OrderInv`'s consequences in the runs.

Only model-checked, because TLAPS has no `ENABLED` and hence no fairness: the
liveness properties `PromotionReachesDisk`, `QueueDrains`,
`ServicesRepaired`, `NatsRepaired`, `StartersSeeded`, `SetupEnds`, and the
fairness half of `ImplementsChatService`. Every other property of the passing
runs is stated by a theorem.

## 6. Where the code and its documentation disagree

Checked, each by a run TLC must find violated:

* "Config changes (`models.yaml` reorder) are safe -- fully reversible"
  (`docs/selfimprove.md:29`): a kill inside `write_text` leaves a file on which
  the daemon never starts again.
* "Never delete or modify user data" (`docs/selfimprove.md:26`): an edit saved
  between read and write is overwritten.
* "`No model available`" as an error the chat reports (`docs/chat.md:34`): on
  the bus it is shown as "(no response)" and kept as an answer.
* "No peers found ... falls back to Ollama download" (`docs/seeder.md:44`):
  `wait_for_download` waits for ever; the run shows a wizard stuck on blobs
  that `ollama pull` has replaced on the only machine that announced them.
* "After setup your local models take over -- you won't need this key again."
  (`setup/wizard.py:93`): on a machine with 8 GB of RAM and no GPU the plan
  pulls models none of which the scheduler would hand out there
  (`registry.py:61-62` needs the VRAM of every model that states any).

Seen while modelling, and visible in the models without a run of their own:
`air_gapped` reaches the scheduler only when the daemon restarts
(`docs/config.md:42`); memories go into prompts for cloud models too
(`agents/hermes.py:13`, "All data stays local"); paranoid privacy is to "never
connect to cloud" (`setup/wizard.py:142`), but the rule-based plan sets
`air_gapped` only if an answer contains "air", and the `default_cloud_policy`
that paranoid sets is never set back and never read; a `settings.yaml` truncated
by a killed wizard loads as the defaults, `air_gapped` off (`aidad/settings.py:52`); who answers "standard"
gets paranoid from the rule-based plan, because the question asks about
"privacy" and is searched too; a model is reported ready
although its pull failed (`setup/installer.py:68`); a `profile.yaml` cut short
makes every later wizard fail (`setup/profile.py`);
changes are logged after, not before, they are applied
(`selfimprove.py:9`, `docs/selfimprove.md:28`); a reorder drops one of two
entries with the same id, where the comment says it "keeps all entries, just
reorders" (`selfimprove.py:86`; `core_one_improver` has such a file); the running scheduler does not
pick the promoted model first (`docs/selfimprove.md:16-17`); the chat falls back
although NATS is up (`chat.py:4`); agents stay deaf once their subscription is
lost (`agents/base.py:48`); self-heal cannot log the restart of aidad, nor
anything on a full disk (`docs/selfheal.md:18`); nothing creates the `nats`
container on an installed system (`docs/bus.md:33`).

## 7. Not modelled, and the plan

The core, the chat path, self-healing, seeding and setup are modelled, and
every safety property of the passing runs is proved (section 5).
What is left, in the order in which it would be worth doing:

1. A process with several NATS clients: `get_connection` replaces a client that
   is reconnecting, and the old one comes back with its subscriptions
   (`bus/client.py:32`). `AskPath` has one connection per process.
2. `AidaCore` and `Setup` together, so that a wizard rewrites the settings of a
   daemon that decides. Today `AidaCore` lets the settings be rewritten at any
   time, by the wizard or the user, and `Setup` has the start of the daemon.

Left out for good: the first-boot script (three commands in sequence, the
`rm` of itself whatever the wizard did; `Setup` starts wizards at any time),
parsing of `nvidia-smi`/`rocm-smi`, capabilities (two static lists), the agents
outside alpha and the actions of Hermes that nothing calls, the read-only
endpoints, provisioning and CI (no run-time state), formatting and log texts.
