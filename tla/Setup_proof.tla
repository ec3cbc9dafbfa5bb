---------------------------- MODULE Setup_proof ----------------------------
(***************************************************************************)
(* Theorems about Setup, for any login shells, hardware, conversations,    *)
(* recommendations and bounds.                                             *)
(***************************************************************************)
EXTENDS Setup, Seeder_proof

LEMMA Whole ==
  /\ \A s \in WholeSettings : s.kind = "whole"
  /\ EmptySettings.kind = "empty" /\ GarbledSettings.kind = "garbled"
  /\ \A g \in BOOLEAN, p \in {"ask", "never"} : Settings(g, p) \in WholeSettings
  BY DEF WholeSettings, EmptySettings, GarbledSettings, Unreadable, Settings

LEMMA Profiles == None # Torn /\ \A p \in UserProfile : p # Torn /\ p # None
<1>1. \A p \in UserProfile : "pull" \in DOMAIN p
  BY DEF UserProfile
<1>2. "pull" \notin DOMAIN None /\ "pull" \notin DOMAIN Torn
  BY DEF None, Torn
<1>3. None # Torn
  BY DEF None, Torn
<1> QED
  BY <1>1, <1>2, <1>3

LEMMA Recommended ==
  ASSUME NEW hw \in Hardware, NEW said \in Conversations
  PROVE  RuleBased(hw, said) \in UserProfile
<1>1. ToPull(hw, said) \in Seq(Model)
  BY SetupAssumption DEF ToPull
<1> QED
  BY <1>1 DEF RuleBased, UserProfile, Level

\* What a wizard has at each stage.
LEMMA Locals ==
  ASSUME NEW w \in Local
  PROVE  /\ w.stage \notin {"off", "questions"} => w.plan \in UserProfile
         /\ w.stage \in {"pull", "ollama", "download"} => w.todo \in Seq(Model)
         /\ w.stage \in {"ollama", "download"} => w.todo # <<>>
         /\ w.stage \in {"openSettings", "fillSettings"}
              => w.read \in WholeSettings
  BY DEF Local, Off

LEMMA Becomes ==
  ASSUME SetupTypeOK, NEW l \in Login, NEW x \in Local, Become(l, x)
  PROVE  /\ wizard' \in [Login -> Local] /\ wizard'[l] = x
         /\ \A k \in Login \ {l} : wizard'[k] = wizard[k]
  BY DEF SetupTypeOK, Become

\* What is about to be saved has been applied.
InFlight ==
  \A l \in Login :
    Stage(l) \in {"openProfile", "fillProfile"} => wizard[l].plan \in applied

\* The policy of settings s is what the profiles applied so far make of "ask".
Remembers(s) ==
  s.policy = "never" <=> \E p \in applied : p.privacy = "paranoid"

\* settings.yaml is whole and as p and the profiles before it want it.
Agrees(p) ==
  /\ settings.kind = "whole"
  /\ settings.airGapped = p.airGapped
  /\ Remembers(settings)

\* No two wizards have written at a time: profile.yaml is still empty.
Alone ==
  "overlap" \notin disturbed =>
    /\ \A k, l \in Login : Writing(k) /\ Writing(l) => k = l
    /\ \A l \in Login :
         Stage(l) = "fillProfile" => texts = {} /\ profile = Torn

\* How far the wizard that writes has come.
Orderly ==
  disturbed = {} =>
    \A l \in Login :
      /\ Stage(l) = "openSettings" => Remembers(wizard[l].read) /\ profile # Torn
      /\ Stage(l) = "fillSettings" =>
           /\ settings = EmptySettings /\ profile # Torn
           /\ Remembers(wizard[l].read)
      /\ Stage(l) \in {"openProfile", "fillProfile"} => Agrees(wizard[l].plan)

SetupInv ==
  /\ SetupTypeOK /\ InFlight /\ SavedWasApplied /\ texts \subseteq applied
  /\ Alone /\ Orderly /\ SettingsFollowProfile

LEMMA MixturesType ==
  ASSUME NEW plans, plans \subseteq UserProfile
  PROVE  Mixtures(plans) \subseteq UserProfile
  BY DEF Mixtures, UserProfile

\* Each field of an overlaid profile comes from one of the plans.
LEMMA OverlaidMixes ==
  ASSUME NEW plans, plans \subseteq UserProfile, NEW plan \in plans,
         NEW left \in SUBSET plans
  PROVE  Overlaid(plan, left) \subseteq Mixtures(plans)
<1>1. \A m \in Mixtures(plans) :
        [m EXCEPT !.airGapped = plan.airGapped] \in Mixtures(plans)
  BY DEF Mixtures
<1>2. plan \in Mixtures(plans)
  BY DEF Mixtures, UserProfile
<1>3. \A p \in left : [plan EXCEPT !.privacy = p.privacy] \in Mixtures(plans)
  BY DEF Mixtures, UserProfile
<1>4. Mixtures(left) \subseteq Mixtures(plans)
  BY DEF Mixtures
<1> QED
  BY <1>1, <1>2, <1>3, <1>4 DEF Overlaid

\* As more profiles are applied there are more mixtures of them.
LEMMA MixturesGrow ==
  ASSUME NEW S, NEW T, S \subseteq T
  PROVE  Mixtures(S) \subseteq Mixtures(T)
  BY DEF Mixtures

(***************************************************************************)
(* A step of one wizard that is not writing afterwards, and if it was, was *)
(* cut short, keeps the invariant when it leaves the files alone.          *)
(***************************************************************************)
LEMMA QuietStep ==
  ASSUME SetupInv, NEW l \in Login, NEW x \in Local, Become(l, x),
         x.stage \notin {"openSettings", "fillSettings", "openProfile", "fillProfile"},
         UNCHANGED <<settings, profile, texts, applied>>, setups' \in Nat,
         disturbed' \subseteq {"overlap", "cut"}, disturbed \subseteq disturbed',
         Writing(l) => disturbed' # {}
  PROVE  SetupInv'
<1>1. /\ wizard' \in [Login -> Local] /\ wizard'[l] = x
      /\ \A k \in Login \ {l} : wizard'[k] = wizard[k]
  BY Becomes DEF SetupInv
<1>2. ~Writing(l)' /\ \A k \in Login \ {l} : Writing(k)' = Writing(k)
  BY <1>1 DEF Writing, Stage
<1>3. SetupTypeOK'
  BY <1>1 DEF SetupInv, SetupTypeOK
<1>4. InFlight' /\ SavedWasApplied' /\ (texts \subseteq applied)'
  BY <1>1 DEF SetupInv, InFlight, SavedWasApplied, Stage
<1>5. Alone'
  BY <1>1, <1>2 DEF SetupInv, Alone, Stage
<1>6. Orderly'
  <2> SUFFICES ASSUME disturbed' = {} PROVE Orderly'
    BY DEF Orderly
  <2>1. disturbed = {}
    OBVIOUS
  <2> QED
    BY <1>1, <2>1 DEF SetupInv, Orderly, Agrees, Remembers, Stage
<1>7. SettingsFollowProfile'
  <2> SUFFICES ASSUME disturbed' = {}, \A k \in Login : ~Writing(k)'
               PROVE  disturbed = {} /\ \A k \in Login : ~Writing(k)
    BY DEF SetupInv, SettingsFollowProfile
  <2> QED
    BY <1>2
<1> QED
  BY <1>3, <1>4, <1>5, <1>6, <1>7 DEF SetupInv

LEMMA Asking ==
  ASSUME SetupInv, NEW l \in Login, UserAnswers(l)
  PROVE  SetupInv'
<1>0. wizard[l] \in Local /\ setups \in Nat /\ disturbed \subseteq {"overlap", "cut"}
  BY DEF SetupInv, SetupTypeOK
<1>off. Off \in Local /\ Off.stage = "off"
  BY DEF Off, Local
<1>1. CASE StartWizard(l)
  <2>1. [stage |-> "questions"] \in Local
    BY DEF Local
  <2> QED
    BY <1>0, <1>1, <2>1, QuietStep DEF StartWizard, files, Writing
<1>2. CASE Recommend(l)
  <2>1. PICK hw \in Hardware, said \in Conversations :
          \E plan \in AiProfiles \cup {RuleBased(hw, said)} :
            Become(l, [stage |-> "confirm", plan |-> plan,
                       hardware |-> hw, said |-> said])
    BY <1>2 DEF Recommend, Proposals
  <2>2. PICK plan \in AiProfiles \cup {RuleBased(hw, said)} :
          Become(l, [stage |-> "confirm", plan |-> plan,
                     hardware |-> hw, said |-> said])
    BY <2>1
  <2>3. plan \in UserProfile /\ hw \in [vram : Nat, ram : Nat]
    BY Recommended, SetupAssumption
  <2>4. [stage |-> "confirm", plan |-> plan, hardware |-> hw, said |-> said]
          \in Local
    BY <2>3 DEF Local
  <2> QED
    BY <1>0, <1>2, <2>2, <2>4, QuietStep DEF Recommend, files, history, Writing
<1>3. CASE Decline(l)
  BY <1>0, <1>off, <1>3, QuietStep DEF Decline, files, history, Writing
<1>4. CASE Confirm(l)
  <2>1. wizard[l].plan \in UserProfile
    BY <1>0, <1>4, Locals DEF Confirm, Stage
  <2>2. [stage |-> "pull", plan |-> wizard[l].plan, todo |-> wizard[l].plan.pull]
          \in Local
    BY <2>1 DEF Local, UserProfile
  <2> QED
    BY <1>0, <1>4, <2>2, QuietStep DEF Confirm, files, history, Writing
<1> QED
  BY <1>1, <1>2, <1>3, <1>4 DEF UserAnswers

LEMMA Advancing ==
  ASSUME SetupInv, NEW l \in Login, NextModel(l),
         Stage(l) \in {"pull", "ollama", "download"}, wizard[l].todo # <<>>,
         UNCHANGED <<settings, profile, texts, setups, applied, disturbed>>
  PROVE  SetupInv'
<1>0. wizard[l] \in Local /\ setups \in Nat /\ disturbed \subseteq {"overlap", "cut"}
  BY DEF SetupInv, SetupTypeOK
<1>1. wizard[l].plan \in UserProfile /\ wizard[l].todo \in Seq(Model)
  BY <1>0, Locals DEF Stage
<1>2. [stage |-> "pull", plan |-> wizard[l].plan, todo |-> Tail(wizard[l].todo)]
        \in Local
  BY <1>1 DEF Local
<1> QED
  BY <1>0, <1>2, QuietStep DEF NextModel, Writing

LEMMA Trying ==
  ASSUME SetupInv, NEW l \in Login, TryTorrent(l)
  PROVE  SetupInv'
<1>0. wizard[l] \in Local /\ setups \in Nat /\ disturbed \subseteq {"overlap", "cut"}
  BY DEF SetupInv, SetupTypeOK
<1>1. /\ Stage(l) = "pull" /\ wizard[l].plan \in UserProfile
      /\ wizard[l].todo \in Seq(Model)
  BY <1>0, Locals DEF TryTorrent, Stage
<1>2. PICK x \in {[wizard[l] EXCEPT !.stage = "ollama"],
                  [stage |-> "download", plan |-> wizard[l].plan,
                   todo |-> wizard[l].todo]} : Become(l, x)
  BY DEF TryTorrent
<1>3. /\ wizard[l] \in [stage : {"pull"}, plan : UserProfile, todo : Seq(Model)]
      /\ wizard[l].todo # <<>>
  BY <1>0, <1>1 DEF TryTorrent, Local, Off, Stage
<1>4. x \in Local /\ x.stage \in {"ollama", "download"}
  BY <1>1, <1>2, <1>3 DEF Local
<1> QED
  BY <1>0, <1>1, <1>2, <1>4, QuietStep DEF TryTorrent, files, history, Writing

LEMMA Failing ==
  ASSUME SetupInv, NEW l \in Login, WriteFails(l)
  PROVE  SetupInv'
<1>0. setups \in Nat /\ disturbed \subseteq {"overlap", "cut"} /\ Off \in Local /\ Off.stage = "off"
  BY DEF SetupInv, SetupTypeOK, Off, Local
<1> QED
  BY <1>0, QuietStep DEF WriteFails, files

LEMMA Reading ==
  ASSUME SetupInv, NEW l \in Login, ReadSettings(l)
  PROVE  SetupInv'
<1>0. wizard[l] \in Local /\ setups \in Nat /\ disturbed \subseteq {"overlap", "cut"}
  BY DEF SetupInv, SetupTypeOK
<1>1. /\ Stage(l) = "pull" /\ wizard[l].plan \in UserProfile
      /\ UNCHANGED <<settings, profile, texts, setups, applied>>
      /\ disturbed' = disturbed \cup Overlap
  BY <1>0, Locals DEF ReadSettings, Stage, files
<1>2. CASE settings.kind # "whole"
  <2>1. Become(l, Off) /\ Off \in Local /\ Off.stage = "off"
    BY <1>2 DEF ReadSettings, Off, Local
  <2> QED
    BY <1>0, <1>1, <2>1, QuietStep DEF Writing, Overlap
<1>3. CASE settings.kind = "whole"
  <2> DEFINE x == [stage |-> "openSettings", plan |-> wizard[l].plan,
                   read |-> settings]
  <2>1. settings \in WholeSettings
    BY <1>3, Whole DEF SetupInv, SetupTypeOK
  <2>2. x \in Local /\ Become(l, x)
    BY <1>1, <1>3, <2>1 DEF ReadSettings, Local
  <2>3. /\ wizard' \in [Login -> Local] /\ wizard'[l] = x
        /\ \A k \in Login \ {l} : wizard'[k] = wizard[k]
    BY <2>2, Becomes DEF SetupInv
  <2>4. Writing(l)' /\ \A k \in Login \ {l} : Writing(k)' = Writing(k)
    BY <2>3 DEF Writing, Stage
  <2>5. SetupTypeOK'
    BY <1>0, <1>1, <2>3 DEF SetupInv, SetupTypeOK, Overlap
  <2>6. InFlight' /\ SavedWasApplied' /\ (texts \subseteq applied)'
    BY <1>1, <2>3 DEF SetupInv, InFlight, SavedWasApplied, Stage
  <2>7. "overlap" \notin disturbed' =>
          "overlap" \notin disturbed /\ \A k \in Login : ~Writing(k)
    BY <1>1 DEF Overlap
  <2>8. Alone'
    BY <1>1, <2>3, <2>4, <2>7 DEF SetupInv, Alone, Writing, Stage
  <2>9. Orderly'
    <3> SUFFICES ASSUME disturbed' = {} PROVE Orderly'
      BY DEF Orderly
    <3>1. disturbed = {} /\ \A k \in Login : ~Writing(k)
      BY <1>1, <2>7
    <3>2. profile # Torn /\ Remembers(settings)
      BY <3>1 DEF SetupInv, SettingsFollowProfile, Remembers
    <3>3. \A k \in Login \ {l} : ~Writing(k)'
      BY <2>4, <3>1
    <3> QED
      BY <1>1, <2>3, <3>2, <3>3 DEF Orderly, Remembers, Writing, Stage
  <2>10. SettingsFollowProfile'
    BY <2>4 DEF SettingsFollowProfile
  <2> QED
    BY <2>5, <2>6, <2>8, <2>9, <2>10 DEF SetupInv
<1> QED
  BY <1>2, <1>3

LEMMA Pulled ==
  ASSUME SetupInv, NEW l \in Login, OllamaEnds(l) \/ PeersDeliver(l)
  PROVE  SetupInv'
<1>0. /\ wizard[l] \in Local /\ Off \in Local /\ Off.stage = "off"
      /\ setups \in Nat /\ disturbed \subseteq {"overlap", "cut"}
  BY DEF SetupInv, SetupTypeOK, Off, Local
<1>1. /\ Stage(l) \in {"ollama", "download"} /\ (NextModel(l) \/ Become(l, Off))
      /\ UNCHANGED <<settings, profile, texts, setups, applied, disturbed>>
  BY DEF OllamaEnds, PeersDeliver, files, history
<1>2. CASE NextModel(l)
  BY <1>0, <1>1, <1>2, Locals, Advancing DEF Stage
<1>3. CASE Become(l, Off)
  BY <1>0, <1>1, <1>3, QuietStep DEF Writing
<1> QED
  BY <1>1, <1>2, <1>3

LEMMA Opening ==
  ASSUME SetupInv, NEW l \in Login, OpenSettings(l)
  PROVE  SetupInv'
<1> DEFINE x == [wizard[l] EXCEPT !.stage = "fillSettings"]
<1>0. wizard[l] \in Local /\ Writing(l)
  BY DEF SetupInv, SetupTypeOK, OpenSettings, Writing
<1>1. /\ Stage(l) = "openSettings" /\ settings' = EmptySettings /\ Become(l, x)
      /\ UNCHANGED <<profile, texts, setups, applied, disturbed>>
  BY DEF OpenSettings, history
<1>2. wizard[l] \in [stage : {"openSettings", "fillSettings"},
                     plan : UserProfile, read : WholeSettings]
  BY <1>0, <1>1 DEF Local, Off, Stage
<1>3. x \in Local /\ x.stage = "fillSettings"
  BY <1>2 DEF Local
<1>4. /\ wizard' \in [Login -> Local] /\ wizard'[l] = x
      /\ \A k \in Login \ {l} : wizard'[k] = wizard[k]
  BY <1>1, <1>3, Becomes DEF SetupInv
<1>5. Writing(l)' /\ \A k \in Login \ {l} : Writing(k)' = Writing(k)
  BY <1>3, <1>4 DEF Writing, Stage
<1>6. /\ SetupTypeOK' /\ InFlight' /\ SavedWasApplied' /\ SettingsFollowProfile'
      /\ (texts \subseteq applied)'
  BY <1>1, <1>3, <1>4, <1>5
  DEF SetupInv, SetupTypeOK, InFlight, SavedWasApplied, SettingsFollowProfile, Stage
<1>7. Alone'
  BY <1>0, <1>1, <1>3, <1>4, <1>5 DEF SetupInv, Alone, Stage
<1>8. Orderly'
  <2> SUFFICES ASSUME disturbed' = {} PROVE Orderly'
    BY DEF Orderly
  <2>1. \A k \in Login \ {l} : ~Writing(k)'
    BY <1>0, <1>1, <1>5 DEF SetupInv, Alone
  <2>2. profile # Torn /\ Remembers(wizard[l].read)
    BY <1>1 DEF SetupInv, Orderly
  <2>3. x.read = wizard[l].read
    BY <1>2
  <2> HIDE DEF x
  <2> QED
    BY <1>1, <1>3, <1>4, <2>1, <2>2, <2>3 DEF Orderly, Remembers, Writing, Stage
<1> QED
  BY <1>6, <1>7, <1>8 DEF SetupInv

LEMMA Filling ==
  ASSUME SetupInv, NEW l \in Login, FillSettings(l)
  PROVE  SetupInv'
<1> DEFINE plan == wizard[l].plan
           new == AppliedTo(wizard[l].read, plan)
           x == ProfileAfter(l)
<1>0. wizard[l] \in Local /\ Stage(l) = "fillSettings" /\ Writing(l)
  BY DEF SetupInv, SetupTypeOK, FillSettings, Writing
<1>1. CASE WriteFails(l)
  BY <1>1, Failing
<1>2. CASE /\ \/ settings' = new
              \/ settings.kind # "empty" /\ settings' = GarbledSettings
           /\ applied' = applied \cup {plan}
           /\ Become(l, x)
           /\ UNCHANGED <<profile, texts, setups, disturbed>>
  <2>1. plan \in UserProfile /\ wizard[l].read \in WholeSettings
    BY <1>0, Locals DEF Stage
  <2>2. /\ new \in WholeSettings /\ new.airGapped = plan.airGapped
        /\ new.policy = "never" <=>
             plan.privacy = "paranoid" \/ wizard[l].read.policy = "never"
    BY <2>1 DEF AppliedTo, Settings, WholeSettings, UserProfile
  <2>3. x \in Local /\ x.stage = "openProfile" /\ x.plan = plan
    BY <2>1 DEF ProfileAfter, Local
  <2>4. /\ wizard' \in [Login -> Local] /\ wizard'[l] = x
        /\ \A k \in Login \ {l} : wizard'[k] = wizard[k]
    BY <1>2, <2>3, Becomes DEF SetupInv
  <2>5. Writing(l)' /\ \A k \in Login \ {l} : Writing(k)' = Writing(k)
    BY <2>3, <2>4 DEF Writing, Stage
  <2>6. SetupTypeOK'
    BY <1>2, <2>1, <2>2, <2>4 DEF SetupInv, SetupTypeOK
  <2>7. InFlight' /\ SettingsFollowProfile' /\ (texts \subseteq applied)'
    BY <1>2, <2>3, <2>4, <2>5
    DEF SetupInv, InFlight, SettingsFollowProfile, Stage
  <2>8. SavedWasApplied'
    <3>1. applied \subseteq applied'
      BY <1>2
    <3>2. Mixtures(applied) \subseteq Mixtures(applied')
      BY <3>1, MixturesGrow
    <3> QED
      BY <1>2, <3>1, <3>2 DEF SetupInv, SavedWasApplied, Mixtures
  <2>9. Alone'
    BY <1>0, <1>2, <2>3, <2>4, <2>5 DEF SetupInv, Alone, Stage
  <2>10. Orderly'
    <3> SUFFICES ASSUME disturbed' = {} PROVE Orderly'
      BY DEF Orderly
    <3>1. \A k \in Login \ {l} : ~Writing(k)'
      BY <1>0, <1>2, <2>5 DEF SetupInv, Alone
    <3>2. settings = EmptySettings /\ Remembers(wizard[l].read)
      BY <1>0, <1>2 DEF SetupInv, Orderly
    <3>3. settings' = new
      BY <1>2, <3>2, Whole
    <3>4. Agrees(plan)'
      <4>1. plan' = plan
        BY <2>3, <2>4
      <4>2. Remembers(settings)'
        BY <1>2, <2>2, <3>2, <3>3 DEF Remembers
      <4> QED
        BY <2>2, <3>3, <4>1, <4>2, Whole DEF Agrees
    <3> QED
      BY <2>3, <2>4, <3>1, <3>4 DEF Orderly, Writing, Stage
  <2> QED
    BY <2>6, <2>7, <2>8, <2>9, <2>10 DEF SetupInv
<1> QED
  BY <1>1, <1>2 DEF FillSettings

LEMMA OpeningProfile ==
  ASSUME SetupInv, NEW l \in Login, OpenProfile(l)
  PROVE  SetupInv'
<1> DEFINE x == [wizard[l] EXCEPT !.stage = "fillProfile"]
<1>0. wizard[l] \in Local /\ Writing(l)
  BY DEF SetupInv, SetupTypeOK, OpenProfile, Writing
<1>1. /\ Stage(l) = "openProfile" /\ Become(l, x)
      /\ profile' = Torn /\ texts' = {}
      /\ UNCHANGED <<settings, setups, applied, disturbed>>
  BY DEF OpenProfile, history
<1>2. wizard[l] \in [stage : {"openProfile", "fillProfile"}, plan : UserProfile]
  BY <1>0, <1>1 DEF Local, Off, Stage
<1>3. x \in Local /\ x.stage = "fillProfile" /\ x.plan = wizard[l].plan
  BY <1>2 DEF Local
<1>4. /\ wizard' \in [Login -> Local] /\ wizard'[l] = x
      /\ \A k \in Login \ {l} : wizard'[k] = wizard[k]
  BY <1>1, <1>3, Becomes DEF SetupInv
<1>5. Writing(l)' /\ \A k \in Login \ {l} : Writing(k)' = Writing(k)
  BY <1>3, <1>4 DEF Writing, Stage
<1>6. /\ SetupTypeOK' /\ InFlight' /\ SavedWasApplied' /\ SettingsFollowProfile'
      /\ (texts \subseteq applied)'
  BY <1>1, <1>3, <1>4, <1>5
  DEF SetupInv, SetupTypeOK, InFlight, SavedWasApplied, SettingsFollowProfile, Stage
<1>7. Alone'
  <2> SUFFICES ASSUME "overlap" \notin disturbed' PROVE Alone'
    BY DEF Alone
  <2>1. \A k \in Login \ {l} : ~Writing(k)'
    BY <1>0, <1>1, <1>5 DEF SetupInv, Alone
  <2> QED
    BY <1>1, <2>1 DEF Alone
<1>8. Orderly'
  <2> SUFFICES ASSUME disturbed' = {} PROVE Orderly'
    BY DEF Orderly
  <2>1. \A k \in Login \ {l} : ~Writing(k)'
    BY <1>0, <1>1, <1>5 DEF SetupInv, Alone
  <2>2. Agrees(wizard[l].plan)
    BY <1>1 DEF SetupInv, Orderly
  <2>3. Agrees(wizard[l].plan)'
    BY <1>1, <1>3, <1>4, <2>2 DEF Agrees, Remembers
  <2> QED
    BY <1>1, <1>3, <1>4, <2>1, <2>3 DEF Orderly, Writing, Stage
<1> QED
  BY <1>6, <1>7, <1>8 DEF SetupInv

LEMMA FillingProfile ==
  ASSUME SetupInv, NEW l \in Login, FillProfile(l)
  PROVE  SetupInv'
<1> DEFINE plan == wizard[l].plan
<1>0. wizard[l] \in Local /\ Stage(l) = "fillProfile" /\ Writing(l)
  BY DEF SetupInv, SetupTypeOK, FillProfile, Writing
<1>1. CASE WriteFails(l)
  BY <1>1, Failing
<1>2. CASE /\ \/ profile' = plan /\ texts' = {plan}
              \/ /\ texts # {}
                 /\ profile' \in {Torn} \cup Overlaid(plan, texts)
                 /\ texts' = texts \cup {plan}
           /\ Become(l, Off)
           /\ UNCHANGED <<settings, setups, applied, disturbed>>
  <2>1. /\ plan \in UserProfile /\ plan \in applied
        /\ applied \subseteq UserProfile /\ texts \subseteq applied
    BY <1>0, Locals DEF Stage, SetupInv, InFlight, SetupTypeOK
  <2>2. Off \in Local /\ Off.stage = "off"
    BY DEF Off, Local
  <2>3. /\ wizard' \in [Login -> Local] /\ wizard'[l] = Off
        /\ \A k \in Login \ {l} : wizard'[k] = wizard[k]
    BY <1>2, <2>2, Becomes DEF SetupInv
  <2>4. ~Writing(l)' /\ \A k \in Login \ {l} : Writing(k)' = Writing(k)
    BY <2>2, <2>3 DEF Writing, Stage
  <2>5. "overlap" \notin disturbed =>
          texts = {} /\ \A k \in Login \ {l} : ~Writing(k)
    BY <1>0 DEF SetupInv, Alone
  <2>6. /\ profile' \in {Torn, plan} \cup Mixtures(applied)
        /\ "overlap" \notin disturbed => profile' = plan
        /\ (texts \subseteq applied)'
    BY <1>2, <2>1, <2>5, OverlaidMixes
  <2>7. SetupTypeOK'
    <3>1. profile' \in UserProfile \cup {Torn}
      BY <2>1, <2>6, MixturesType
    <3> QED
      BY <1>2, <2>1, <2>3, <2>6, <3>1 DEF SetupInv, SetupTypeOK
  <2>8. InFlight' /\ SavedWasApplied'
    BY <1>2, <2>1, <2>2, <2>3, <2>6
    DEF SetupInv, InFlight, SavedWasApplied, Stage
  <2>9. Alone'
    BY <1>2, <2>4, <2>5 DEF Alone, Writing
  <2>10. Orderly'
    BY <1>2, <2>4, <2>5 DEF Orderly, Writing
  <2>11. SettingsFollowProfile'
    <3> SUFFICES ASSUME disturbed' = {} PROVE SettingsFollowProfile'
      BY DEF SettingsFollowProfile
    <3>1. Agrees(plan)
      BY <1>0, <1>2 DEF SetupInv, Orderly
    <3>2. profile' = plan /\ plan # Torn
      BY <1>2, <2>1, <2>6, Profiles
    <3> QED
      BY <1>2, <3>1, <3>2 DEF SettingsFollowProfile, Agrees, Remembers
  <2> QED
    BY <2>6, <2>7, <2>8, <2>9, <2>10, <2>11 DEF SetupInv
<1> QED
  BY <1>0, <1>1, <1>2 DEF FillProfile, history

LEMMA Killing ==
  ASSUME SetupInv, NEW l \in Login, KillWizard(l)
  PROVE  SetupInv'
<1>1. /\ setups \in Nat /\ disturbed \subseteq {"overlap", "cut"}
      /\ Off \in Local /\ Off.stage = "off"
  BY DEF SetupInv, SetupTypeOK, Off, Local
<1>2. /\ disturbed' \subseteq {"overlap", "cut"} /\ disturbed \subseteq disturbed'
      /\ Writing(l) => disturbed' # {}
  BY <1>1 DEF KillWizard
<1> QED
  BY <1>1, <1>2, QuietStep DEF KillWizard, files

LEMMA SetupStep == ASSUME SetupInv, [SetupNext]_vars PROVE SetupInv'
<1>1. ASSUME UNCHANGED setupVars PROVE SetupInv'
  BY <1>1
  DEF setupVars, SetupInv, SetupTypeOK, InFlight, SavedWasApplied, Alone, Orderly,
      SettingsFollowProfile, Agrees, Remembers, Writing, Stage
<1>2. ASSUME NEW l \in Login, InstallerStep(l) PROVE SetupInv'
  BY <1>2, Trying, Pulled, Reading, Opening, Filling, OpeningProfile, FillingProfile
  DEF InstallerStep
<1> QED
  BY <1>1, <1>2, Asking, Pulled, Killing
  DEF SetupNext, DaemonStep, Boot, vars

LEMMA SetupStart == ASSUME SetupInit PROVE SetupInv
<1>1. Off \in Local /\ Off.stage = "off"
  BY DEF Off, Local
<1>2. /\ settings \in WholeSettings /\ settings.kind = "whole"
      /\ settings.policy = "ask" /\ applied = {}
  BY Whole, SetupAssumption DEF SetupInit, Settings, WholeSettings
<1>3. \A l \in Login : Stage(l) = "off"
  BY <1>1 DEF SetupInit, Stage
<1>4. SetupTypeOK
  BY <1>1, <1>2 DEF SetupInit, SetupTypeOK
<1> QED
  BY <1>2, <1>3, <1>4, Profiles
  DEF SetupInit, SetupInv, InFlight, SavedWasApplied, Alone, Orderly,
      SettingsFollowProfile, Writing

(***************************************************************************)
(* The wizards' variables keep their types; above all, no wizard goes on   *)
(* with settings.yaml read while another one was writing it                *)
(* (installer.py 107-108).                                                 *)
(***************************************************************************)
THEOREM SetupTyping == SetupSpec => []SetupTypeOK
<1>1. SetupInit => SetupInv
  BY SetupStart
<1>2. SetupInv /\ [SetupNext]_vars => SetupInv'
  BY SetupStep
<1>3. SetupInv => SetupTypeOK
  BY DEF SetupInv
<1> QED
  BY <1>1, <1>2, <1>3, PTL DEF SetupSpec

(***************************************************************************)
(* For any number of wizards, kills and failed writes, profile.yaml holds  *)
(* no profile whose settings were not written to the end before, but where *)
(* two wizards wrote at a time: there it may be a mixture of such profiles *)
(* (installer.py 120-121, profile.py 44).                                  *)
(***************************************************************************)
THEOREM AppliedBeforeSaved == SetupSpec => []SavedWasApplied
<1>1. SetupInit => SetupInv
  BY SetupStart
<1>2. SetupInv /\ [SetupNext]_vars => SetupInv'
  BY SetupStep
<1>3. SetupInv => SavedWasApplied
  BY DEF SetupInv
<1> QED
  BY <1>1, <1>2, <1>3, PTL DEF SetupSpec

(***************************************************************************)
(* Wizards that neither overlap nor are cut short while they write leave   *)
(* air_gapped as the saved profile wants it and the policy "never" if and  *)
(* only if one of the profiles so far was paranoid, however often setup is *)
(* run (installer.py 107-111, 121).                                        *)
(***************************************************************************)
THEOREM ProfileRules == SetupSpec => []SettingsFollowProfile
<1>1. SetupInit => SetupInv
  BY SetupStart
<1>2. SetupInv /\ [SetupNext]_vars => SetupInv'
  BY SetupStep
<1>3. SetupInv => SettingsFollowProfile
  BY DEF SetupInv
<1> QED
  BY <1>1, <1>2, <1>3, PTL DEF SetupSpec

-----------------------------------------------------------------------------
(* The seeder beside the wizards *)

LEMMA SeederBesideWizards ==
  ASSUME DiskInv, [SetupNext]_vars PROVE DiskInv'
<1>1. ASSUME [SeederNext]_seederVars PROVE DiskInv'
  BY <1>1, DiskStep
<1>2. ASSUME UNCHANGED <<torrent, magnets, online, todo, job, session>>,
             pulled' \in [Model -> Nat], faults' \in [kill : Nat, write : Nat]
      PROVE  DiskInv'
  BY <1>2 DEF DiskInv, SeederTypeOK, InHand, KnownOnDisk, AnnouncedIsOnDisk
<1>3. pulled \in [Model -> Nat] /\ faults \in [kill : Nat, write : Nat]
  BY DEF DiskInv, SeederTypeOK
<1>4. ASSUME NEW k \in {"kill", "write"}, Fault(k)
      PROVE  faults' \in [kill : Nat, write : Nat]
  BY <1>3, <1>4 DEF Fault
<1>5. ASSUME NEW l \in Login, KillWizard(l) \/ WriteFails(l) PROVE DiskInv'
  BY <1>2, <1>3, <1>4, <1>5 DEF KillWizard, WriteFails, disk, process
<1>6. ASSUME NEW l \in Login, OllamaEnds(l) PROVE DiskInv'
  <2>1. PICK v \in {pulled[Head(wizard[l].todo)]} \cup (1 .. MaxVersion) :
          pulled' = [pulled EXCEPT ![Head(wizard[l].todo)] = v]
    BY <1>6 DEF OllamaEnds
  <2>2. faults' \in [kill : Nat, write : Nat]
    BY <1>3, <1>4, <1>6 DEF OllamaEnds
  <2>3. CASE Head(wizard[l].todo) \in Model
    <3>1. v \in Nat
      BY <1>3, <2>3, SeederAssumption
    <3>2. pulled' \in [Model -> Nat]
      BY <1>3, <2>1, <3>1
    <3> QED
      BY <1>2, <1>6, <2>2, <3>2 DEF OllamaEnds, disk, process
  <2>4. CASE Head(wizard[l].todo) \notin Model
    <3>1. pulled' \in [Model -> Nat]
      BY <1>3, <2>1, <2>4
    <3> QED
      BY <1>2, <1>6, <2>2, <3>1 DEF OllamaEnds, disk, process
  <2> QED
    BY <2>3, <2>4
<1>7. ASSUME NEW l \in Login, InstallerStep(l) PROVE DiskInv'
  BY <1>1, <1>5, <1>6, <1>7
  DEF InstallerStep, TryTorrent, ReadSettings, OpenSettings, FillSettings,
      OpenProfile, FillProfile
<1>8. ASSUME NEW l \in Login, UserAnswers(l) \/ PeersDeliver(l) PROVE DiskInv'
  BY <1>1, <1>8 DEF UserAnswers, StartWizard, Recommend, Decline, Confirm, PeersDeliver
<1>9. ASSUME DaemonStep \/ Boot \/ KillDaemon \/ (\E m \in Model : Pull(m))
             \/ (\E m \in AskedToSeed : SeedRequest(m)) \/ UNCHANGED vars
      PROVE  DiskInv'
  BY <1>1, <1>9, SetupAssumption DEF DaemonStep, Boot, SeederNext, vars
<1> QED
  BY <1>5, <1>7, <1>8, <1>9 DEF SetupNext

(***************************************************************************)
(* Whatever wizards, Ollama, kills and a full disk do meanwhile, the       *)
(* magnet links the installer looks up, like the torrents the daemon       *)
(* seeds, are intact files on this machine (installer.py 30-31,            *)
(* seeder.py 95-96, 128-136).                                              *)
(***************************************************************************)
THEOREM LinksOnDisk == SetupSpec => []AnnouncedIsOnDisk
<1>1. SetupInit => DiskInv
  BY DiskInit DEF SetupInit
<1>2. DiskInv /\ [SetupNext]_vars => DiskInv'
  BY SeederBesideWizards
<1>3. DiskInv => AnnouncedIsOnDisk
  BY DEF DiskInv
<1> QED
  BY <1>1, <1>2, <1>3, PTL DEF SetupSpec

\* A step of the seeder, or one that leaves it alone but for a fault or a pull.
LEMMA BesideTheSeeder ==
  ASSUME DiskInv, [SetupNext]_vars
  PROVE  \/ [SeederNext]_seederVars
         \/ /\ UNCHANGED <<torrent, magnets, online, todo, job, session>>
            /\ faults'.write = 0 => faults.write = 0
<1> DEFINE Beside == /\ UNCHANGED <<torrent, magnets, online, todo, job, session>>
                     /\ faults'.write = 0 => faults.write = 0
<1>1. ASSUME NEW k \in {"kill", "write"}, Fault(k)
      PROVE  faults'.write = 0 => faults.write = 0
  BY <1>1 DEF Fault, DiskInv, SeederTypeOK
<1>2. ASSUME NEW l \in Login, KillWizard(l) \/ WriteFails(l) PROVE Beside
  BY <1>1, <1>2 DEF KillWizard, WriteFails, disk, process
<1>3. ASSUME NEW l \in Login, InstallerStep(l)
      PROVE  Beside \/ UNCHANGED seederVars
  <2>1. ASSUME OllamaEnds(l) PROVE Beside
    BY <1>1, <2>1 DEF OllamaEnds, disk, process
  <2> QED
    BY <1>2, <1>3, <2>1
    DEF InstallerStep, TryTorrent, ReadSettings, OpenSettings, FillSettings,
        OpenProfile, FillProfile
<1>4. ASSUME NEW l \in Login, UserAnswers(l) \/ PeersDeliver(l)
      PROVE  UNCHANGED seederVars
  BY <1>4 DEF UserAnswers, StartWizard, Recommend, Decline, Confirm, PeersDeliver
<1>5. ASSUME DaemonStep \/ Boot \/ KillDaemon \/ (\E m \in Model : Pull(m))
             \/ (\E m \in AskedToSeed : SeedRequest(m)) \/ UNCHANGED vars
      PROVE  [SeederNext]_seederVars
  BY <1>5, SetupAssumption DEF DaemonStep, Boot, SeederNext, vars
<1> QED
  BY <1>2, <1>3, <1>4, <1>5 DEF SetupNext

(***************************************************************************)
(* The seeder keeps its types also beside wizards: neither a pull by the   *)
(* installer nor a wizard that is killed puts anything torn into the       *)
(* session or the registry (seeder.py 67-71, installer.py 25-57).          *)
(***************************************************************************)
THEOREM SeederTyping == SetupSpec => []SeederTypeOK
<1>1. SetupInit => DiskInv
  BY DiskInit DEF SetupInit
<1>2. DiskInv /\ [SetupNext]_vars => DiskInv'
  BY SeederBesideWizards
<1>3. DiskInv => SeederTypeOK
  BY DEF DiskInv
<1> QED
  BY <1>1, <1>2, <1>3, PTL DEF SetupSpec

(***************************************************************************)
(* While wizards pull models, too, every model the session seeds has the   *)
(* magnet link that installers on other machines look up, unless a write   *)
(* failed (seeder.py 104-111, 128-136, installer.py 30-31).                *)
(***************************************************************************)
THEOREM LinksKeptBeside == SetupSpec => []SeededIsAnnounced
<1>1. SetupInit => LinksInv
  <2> SUFFICES ASSUME SetupInit PROVE LinksInv
    OBVIOUS
  <2>1. SeederInit /\ job.pc = "idle" /\ \A m \in Model : session[m] = None
    BY DEF SetupInit, SeederInit, Idle
  <2> QED
    BY <2>1, DiskInit DEF LinksInv, SeededIsAnnounced
<1>2. LinksInv /\ [SetupNext]_vars => LinksInv'
  <2> SUFFICES ASSUME LinksInv, [SetupNext]_vars PROVE LinksInv'
    OBVIOUS
  <2>1. DiskInv
    BY DEF LinksInv
  <2>2. CASE [SeederNext]_seederVars
    BY <2>2, LinksStep
  <2>3. CASE /\ UNCHANGED <<torrent, magnets, online, todo, job, session>>
             /\ faults'.write = 0 => faults.write = 0
    <3>1. DiskInv'
      BY <2>1, SeederBesideWizards
    <3> QED
      BY <2>3, <3>1 DEF LinksInv, SeededIsAnnounced
  <2> QED
    BY <2>1, <2>2, <2>3, BesideTheSeeder
<1>3. LinksInv => SeededIsAnnounced
  BY DEF LinksInv
<1> QED
  BY <1>1, <1>2, <1>3, PTL DEF SetupSpec

(***************************************************************************)
(* The link under which the installer finds a model is the same at every   *)
(* setup, whatever newer versions setups have pulled since                 *)
(* (installer.py 30-31, seeder.py 67-71).                                  *)
(***************************************************************************)
THEOREM LinkForGoodBeside == SetupSpec => LinkStays
<1> SUFFICES ASSUME NEW m \in Model,
                    NEW t \in [kind : {"whole"}, model : Model,
                               version : 1..MaxVersion]
             PROVE  SetupSpec => [](magnets[m] = t => [](magnets[m] \in {None, t}))
  BY DEF LinkStays
<1>1. t \in Torrent /\ FileOf[m] \in FileName
  BY SeederAssumption, Files DEF Torrent
<1>2. SetupInit => DiskInv
  BY DiskInit DEF SetupInit
<1>3. DiskInv /\ [SetupNext]_vars => DiskInv'
  BY SeederBesideWizards
<1>4. DiskInv /\ torrent[FileOf[m]] = t /\ [SetupNext]_vars
        => (torrent[FileOf[m]] = t)'
  BY <1>1, BesideTheSeeder, WholeStays
<1>5. DiskInv /\ magnets[m] = t => torrent[FileOf[m]] = t
  BY <1>1, LinkOf
<1>6. DiskInv /\ torrent[FileOf[m]] = t => magnets[m] \in {None, t}
  BY <1>1, LinkOf
<1> QED
  BY <1>2, <1>3, <1>4, <1>5, <1>6, PTL DEF SetupSpec

=============================================================================
