------------------------------- MODULE Setup -------------------------------
(***************************************************************************)
(* The setup wizard (setup/wizard.py) with the installer it calls          *)
(* (setup/installer.py), composed with the seeder of the running daemon.   *)
(* They meet in model_torrents.yaml, where the installer looks for a       *)
(* magnet link before it asks Ollama, in the models both of them pull, and *)
(* in settings.yaml, which the daemon loads when it starts.                *)
(*                                                                         *)
(* A login shell that finds no profile.yaml runs the wizard, also while    *)
(* another shell runs it, and aida-setup can be run by hand at any time:   *)
(* wizards may overlap.                                                    *)
(***************************************************************************)
EXTENDS Seeder

CONSTANTS
  Always, CodingModel, GeneralModel,   \* see Recommender
  Login,          \* the shells a wizard may run in
  Hardware,       \* the free VRAM and RAM detect_hardware may report
  Conversations,  \* the conversations held with the user
  AiProfiles,     \* what the cloud AI may return, as far as it validates
  FirstAirGapped, \* privacy.air_gapped in the settings.yaml of the image
  SkillsOf, VramOf, RamOf,   \* the models.yaml entries of the models
  AskedToSeed,    \* bound: the models the API is asked to seed
  MaxSetups       \* bound: wizards that are started

INSTANCE Recommender

ASSUME SetupAssumption ==
  /\ Always \in Seq(Model)
  /\ CodingModel \in Model /\ GeneralModel \in Model
  /\ Hardware # {} /\ Hardware \subseteq [vram : Nat, ram : Nat]
  /\ Conversations # {}
  /\ \A said \in Conversations :
       DOMAIN said \subseteq Question /\ said \in [DOMAIN said -> SUBSET Word]
  /\ AiProfiles \subseteq UserProfile
  /\ FirstAirGapped \in BOOLEAN
  /\ SkillsOf \in [Model -> SUBSET {"general", "coding"}]
  /\ VramOf \in [Model -> Nat] /\ RamOf \in [Model -> Nat]
  /\ AskedToSeed \subseteq Model /\ MaxSetups \in Nat

VARIABLES
  wizard,    \* [Login -> the local state of a wizard]
  settings,  \* settings.yaml, its privacy section
  profile,   \* profile.yaml as load_profile reads it
  texts,     \* the plans whose texts, or what is left of them, it consists of
  \* History, which no guard but a bound reads:
  setups,    \* number of wizards started
  applied,   \* the profiles whose settings were written to the end
  disturbed  \* "overlap": two wizards wrote at a time, "cut": one was cut short

setupVars == <<wizard, settings, profile, texts, setups, applied, disturbed>>
vars == <<seederVars, setupVars>>
files == <<settings, profile, texts>>
history == <<setups, applied, disturbed>>

Settings(airGapped, policy) ==
  [kind |-> "whole", airGapped |-> airGapped, policy |-> policy]

WholeSettings == [kind : {"whole"}, airGapped : BOOLEAN, policy : {"ask", "never"}]

\* An empty settings.yaml loads as the defaults, one that does not parse not.
Unreadable(kind) == [kind |-> kind, airGapped |-> FALSE, policy |-> "ask"]
EmptySettings == Unreadable("empty")
GarbledSettings == Unreadable("garbled")

Off == [stage |-> "off"]

SetupInit ==
  /\ SeederInit
  /\ wizard = [l \in Login |-> Off]
  /\ settings = Settings(FirstAirGapped, "ask")
  /\ profile = None /\ texts = {}
  /\ setups = 0 /\ applied = {} /\ disturbed = {}

-----------------------------------------------------------------------------
(* run_wizard *)

Become(l, local) == wizard' = [wizard EXCEPT ![l] = local]
Stage(l) == wizard[l].stage

Writing(l) ==
  Stage(l) \in {"openSettings", "fillSettings", "openProfile", "fillProfile"}

(***************************************************************************)
(* The wizard is started and comes to the questions: there is no profile,  *)
(* or there is one and the user wants to run setup again.  load_profile    *)
(* raises on one that was cut short.                                       *)
(***************************************************************************)
StartWizard(l) ==
  /\ Stage(l) = "off" /\ setups < MaxSetups
  /\ profile # Torn
  /\ Become(l, [stage |-> "questions"])
  /\ setups' = setups + 1
  /\ UNCHANGED <<seederVars, files, applied, disturbed>>

\* ai_recommend: the profile of the cloud AI or, without a key or if anything
\* fails on the way, the rule-based one.
Proposals(hw, said) == AiProfiles \cup {RuleBased(hw, said)}

\* Hardware scan and questions; then the plan is shown.
Recommend(l) ==
  /\ Stage(l) = "questions"
  /\ \E hw \in Hardware, said \in Conversations :
       \E plan \in Proposals(hw, said) :
         Become(l, [stage |-> "confirm", plan |-> plan,
                    hardware |-> hw, said |-> said])
  /\ UNCHANGED <<seederVars, files, history>>

\* The user does not apply the configuration.
Decline(l) ==
  /\ Stage(l) = "confirm"
  /\ Become(l, Off)
  /\ UNCHANGED <<seederVars, files, history>>

\* apply_profile: the desktop packages, whatever becomes of them, then pulls.
Confirm(l) ==
  /\ Stage(l) = "confirm"
  /\ Become(l, [stage |-> "pull", plan |-> wizard[l].plan,
                todo |-> wizard[l].plan.pull])
  /\ UNCHANGED <<seederVars, files, history>>

-----------------------------------------------------------------------------
(* pull_models *)

SameModelAgain(l) ==   \* mutant: the loop does not advance
  Become(l, [stage |-> "pull", plan |-> wizard[l].plan, todo |-> wizard[l].todo])

\* "ready": on to the next model.
NextModel(l) ==
  Become(l, [stage |-> "pull", plan |-> wizard[l].plan,
             todo |-> Tail(wizard[l].todo)])

(***************************************************************************)
(* _pull_model_torrent: no registry, no link, or any exception means       *)
(* Ollama; while the seeder rewrites the registry it is empty.             *)
(***************************************************************************)
TryTorrent(l) ==
  /\ Stage(l) = "pull" /\ wizard[l].todo # <<>>
  /\ LET link == magnets[Head(wizard[l].todo)]
     IN  \/ Become(l, [wizard[l] EXCEPT !.stage = "ollama"])
         \/ /\ link # None
            /\ Become(l, [stage |-> "download", plan |-> wizard[l].plan,
                          todo |-> wizard[l].todo])
  /\ UNCHANGED <<seederVars, files, history>>

\* Peers have sent what is missing, and wait_for_download returns.  Ollama
\* gets blobs without a manifest, which do not make a model of its.
PeersDeliver(l) ==
  /\ Stage(l) = "download"
  /\ NextModel(l)
  /\ UNCHANGED <<seederVars, files, history>>

(***************************************************************************)
(* ollama pull has what is newest, or failed: its exit code is not looked  *)
(* at.  Where ollama is missing, or prints what does not decode, an        *)
(* exception ends the wizard; it is counted with the kills.                *)
(***************************************************************************)
OllamaEnds(l) ==
  /\ Stage(l) = "ollama"
  /\ LET m == Head(wizard[l].todo)
     IN  \E v \in {pulled[m]} \cup (1 .. MaxVersion) :
           v >= pulled[m] /\ pulled' = [pulled EXCEPT ![m] = v]
  /\ \/ NextModel(l) /\ UNCHANGED faults
     \/ Become(l, Off) /\ Fault("kill")
  /\ UNCHANGED <<disk, process, job, files, history>>

-----------------------------------------------------------------------------
(* _write_aidad_config and save_profile *)

PolicyIsLevel(read, plan) ==   \* mutant: the level is written as the policy
  Settings(plan.airGapped, plan.privacy)

AirGapOnlySet(read, plan) ==   \* mutant: an air gap is never taken back
  Settings(read.airGapped \/ plan.airGapped,
           IF plan.privacy = "paranoid" THEN "never" ELSE read.policy)

AppliedTo(read, plan) ==
  Settings(plan.airGapped,
           IF plan.privacy = "paranoid" THEN "never" ELSE read.policy)

Overlap == IF \E k \in Login : Writing(k) THEN {"overlap"} ELSE {}

SaveAnyway(l) ==   \* mutant: broken settings are passed over
  /\ Stage(l) = "pull" /\ wizard[l].todo = <<>>
  /\ Become(l, IF settings.kind = "whole"
               THEN [stage |-> "openSettings", plan |-> wizard[l].plan,
                     read |-> settings]
               ELSE [stage |-> "openProfile", plan |-> wizard[l].plan])
  /\ disturbed' = disturbed \cup Overlap
  /\ UNCHANGED <<seederVars, files, setups, applied>>

\* Of settings.yaml without a privacy section the wizard makes a KeyError.
ReadSettings(l) ==
  /\ Stage(l) = "pull" /\ wizard[l].todo = <<>>
  /\ Become(l, IF settings.kind = "whole"
               THEN [stage |-> "openSettings", plan |-> wizard[l].plan,
                     read |-> settings]
               ELSE Off)
  /\ disturbed' = disturbed \cup Overlap
  /\ UNCHANGED <<seederVars, files, setups, applied>>

\* write_text truncates ...
OpenSettings(l) ==
  /\ Stage(l) = "openSettings"
  /\ settings' = EmptySettings
  /\ Become(l, [wizard[l] EXCEPT !.stage = "fillSettings"])
  /\ UNCHANGED <<seederVars, profile, texts, history>>

ProfileAfter(l) ==
  [stage |-> "openProfile", plan |-> wizard[l].plan]

\* A write fails on the full disk, and the wizard with it.
WriteFails(l) ==
  /\ Fault("write") /\ disturbed' = disturbed \cup {"cut"}
  /\ Become(l, Off)
  /\ UNCHANGED <<pulled, disk, process, job, files, setups, applied>>

(***************************************************************************)
(* ... and writes; over what another wizard has put there since, the rest  *)
(* of which may survive behind a shorter text.  As texts of the same       *)
(* settings they differ by three characters at most, and so little at the  *)
(* end is an empty line or does not parse.                                 *)
(***************************************************************************)
FillSettings(l) ==
  LET new == AppliedTo(wizard[l].read, wizard[l].plan)
  IN  /\ Stage(l) = "fillSettings"
      /\ \/ /\ \/ settings' = new
               \/ /\ settings.kind # "empty" /\ settings # new
                  /\ settings' = GarbledSettings
            /\ applied' = applied \cup {wizard[l].plan}
            /\ Become(l, ProfileAfter(l))
            /\ UNCHANGED <<seederVars, profile, texts, setups, disturbed>>
         \/ WriteFails(l)

OpenProfile(l) ==
  /\ Stage(l) = "openProfile"
  /\ profile' = Torn /\ texts' = {}
  /\ Become(l, [wizard[l] EXCEPT !.stage = "fillProfile"])
  /\ UNCHANGED <<seederVars, settings, history>>

\* A profile each field of which comes from one of the plans.
Mixtures(plans) ==
  [airGapped : {p.airGapped : p \in plans},
   pull : {p.pull : p \in plans},
   privacy : {p.privacy : p \in plans}]

(***************************************************************************)
(* The plan is written over longer texts.  yaml.dump sorts the keys, and   *)
(* where what is left behind the plan repeats one, the last one counts: of *)
(* what the model keeps, privacy_level is left over most easily, then      *)
(* models, then air_gapped.                                                *)
(***************************************************************************)
Overlaid(plan, left) ==
  {plan} \cup {[plan EXCEPT !.privacy = p.privacy] : p \in left}
    \cup {[p EXCEPT !.airGapped = plan.airGapped] : p \in Mixtures(left)}
    \cup Mixtures(left)

FillProfile(l) ==
  LET plan == wizard[l].plan
  IN  /\ Stage(l) = "fillProfile"
      /\ \/ /\ \/ profile' = plan /\ texts' = {plan}
               \/ /\ texts # {}
                  /\ profile' \in {Torn} \cup Overlaid(plan, texts)
                  /\ texts' = texts \cup {plan}
            /\ Become(l, Off)
            /\ UNCHANGED <<seederVars, settings, history>>
         \/ WriteFails(l)

UserAnswers(l) == StartWizard(l) \/ Recommend(l) \/ Decline(l) \/ Confirm(l)

InstallerStep(l) ==
  \/ TryTorrent(l) \/ OllamaEnds(l)
  \/ ReadSettings(l) \/ OpenSettings(l) \/ FillSettings(l)
  \/ OpenProfile(l) \/ FillProfile(l)

\* Ctrl-C, a closed terminal or a reboot.
KillWizard(l) ==
  /\ Stage(l) # "off" /\ Fault("kill")
  /\ Become(l, Off)
  /\ disturbed' = IF Writing(l) THEN disturbed \cup {"cut"} ELSE disturbed
  /\ UNCHANGED <<pulled, disk, process, job, files, setups, applied>>

-----------------------------------------------------------------------------
(* The composition *)

\* load_settings raises on a file that does not parse.
Boot == settings.kind # "garbled" /\ StartDaemon /\ UNCHANGED setupVars

DaemonStep == SeedStep /\ UNCHANGED setupVars

SetupNext ==
  \/ \E l \in Login :
       UserAnswers(l) \/ InstallerStep(l) \/ PeersDeliver(l) \/ KillWizard(l)
  \/ DaemonStep \/ Boot
  \/ (KillDaemon \/ \E m \in AskedToSeed : SeedRequest(m)) /\ UNCHANGED setupVars
  \/ (\E m \in Model : Pull(m)) /\ UNCHANGED setupVars

(***************************************************************************)
(* A running process takes its next step, ollama pull ends, systemd starts *)
(* the daemon.  Nothing makes the user answer or peers appear.             *)
(***************************************************************************)
SetupFairness ==
  /\ \A l \in Login : WF_vars(InstallerStep(l))
  /\ WF_vars(DaemonStep) /\ WF_vars(Boot)

SetupSpec == SetupInit /\ [][SetupNext]_vars
SetupFairSpec == SetupSpec /\ SetupFairness

-----------------------------------------------------------------------------
(* Properties *)

Local ==
  {Off} \cup [stage : {"questions"}]
    \cup [stage : {"confirm"}, plan : UserProfile,
          hardware : [vram : Nat, ram : Nat], said : Conversations]
    \cup [stage : {"pull"}, plan : UserProfile, todo : Seq(Model)]
    \cup [stage : {"ollama", "download"},
          plan : UserProfile, todo : Seq(Model) \ {<<>>}]
    \cup [stage : {"openSettings", "fillSettings"}, plan : UserProfile,
          read : WholeSettings]
    \cup [stage : {"openProfile", "fillProfile"}, plan : UserProfile]

(***************************************************************************)
(* Every variable of the wizards has its type; what a wizard has read of   *)
(* settings.yaml is whole, whatever it found there, and no plan names a    *)
(* policy of its own.                                                      *)
(***************************************************************************)
SetupTypeOK ==
  /\ wizard \in [Login -> Local]
  /\ settings \in WholeSettings \cup {EmptySettings, GarbledSettings}
  /\ profile \in UserProfile \cup {None, Torn} /\ texts \subseteq UserProfile
  /\ setups \in Nat /\ applied \subseteq UserProfile
  /\ disturbed \subseteq {"overlap", "cut"}

(***************************************************************************)
(* A saved profile has been applied: its settings were written to the end  *)
(* before, whatever is killed or fails.  Only where two wizards wrote at a *)
(* time may profile.yaml be one that nobody planned, each field of it that *)
(* of a plan which was applied (installer.py 120 before 121, profile.py    *)
(* 44).                                                                    *)
(***************************************************************************)
SavedWasApplied ==
  \/ profile \in {None, Torn} \cup applied
  \/ "overlap" \in disturbed /\ profile \in Mixtures(applied)

(***************************************************************************)
(* Setups that neither overlap nor are cut short while they write leave    *)
(* whole files, air_gapped as the saved profile has it, and the policy     *)
(* "never" if and only if one of the profiles applied so far was paranoid: *)
(* a later one that is not does not take it back (installer.py 107-111).   *)
(***************************************************************************)
SettingsFollowProfile ==
  disturbed = {} /\ (\A l \in Login : ~Writing(l)) =>
    /\ settings.kind = "whole" /\ profile # Torn
    /\ profile # None => settings.airGapped = profile.airGapped
    /\ settings.policy = "never" <=> \E p \in applied : p.privacy = "paranoid"

Asked(l) == Stage(l) = "confirm"

RuleBasedPlan(l) ==
  Asked(l) /\ wizard[l].plan = RuleBased(wizard[l].hardware, wizard[l].said)

(***************************************************************************)
(* A setup that has come to the pulls goes on to the settings, whatever    *)
(* becomes of the pulls, and from there to its end, whatever becomes of    *)
(* the files and the other wizards.  Only a download may hold it up for    *)
(* ever, settings that are not whole or a kill may stop it (installer.py   *)
(* 61-68, 107-108, 114-121).                                               *)
(***************************************************************************)
SetupEnds ==
  \A l \in Login :
    /\ Stage(l) = "pull" ~>
         \/ Stage(l) = "openSettings"
         \/ Stage(l) = "off" /\ (settings.kind # "whole" \/ faults.kill > 0)
         \/ [](Stage(l) = "download")
    /\ Stage(l) = "openSettings" ~> Stage(l) = "off"

\* The wizard waits for blobs that a newer pull has dropped on this machine.
WaitsForDroppedBlobs(l) ==
  /\ Stage(l) = "download"
  /\ LET m == Head(wizard[l].todo)
     IN  magnets[m] # None /\ magnets[m].version < pulled[m]

(***************************************************************************)
(* "No peers found ... falls back to Ollama download" (docs/seeder.md:44): *)
(* a download that this machine cannot provide does not wait for ever.     *)
(***************************************************************************)
NoPeersFallsBack ==
  \A l \in Login : WaitsForDroppedBlobs(l) ~> Stage(l) # "download"

Registry ==
  INSTANCE ModelRegistry WITH
    Entry <- Model, ModelId <- Model, Skill <- {"general", "coding"},
    IdOf <- [m \in Model |-> m], CloudOf <- [m \in Model |-> FALSE]

(***************************************************************************)
(* "After setup your local models take over -- you won't need this key     *)
(* again." (wizard.py:93): of the models the wizard is about to pull, the  *)
(* scheduler would hand out one for a general request on this hardware.    *)
(***************************************************************************)
LocalModelsTakeOver ==
  \A l \in Login : RuleBasedPlan(l) =>
    Registry!BySkill(wizard[l].plan.pull, "general", wizard[l].hardware, FALSE)
      # {}

=============================================================================
