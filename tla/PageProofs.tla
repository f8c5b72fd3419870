------------------------------ MODULE PageProofs ------------------------------
(***************************************************************************)
(* Proofs about pages of the dashboard for every value of their constants: *)
(* of ConfigPage, with the inductive invariant ConfigInv (any fields,      *)
(* values, tabs and bounds); of DetectionPage, with DetInv (any images,    *)
(* models and number of requests under way); and the steps of NodeTable,   *)
(* NodePages and GossipPlayback (any nodes, filters, sizes, ranges and     *)
(* number of loads), which preserve TableInv, PagesInv and PlayInv and of  *)
(* which PlayKeeps says what they do to what is shown.                     *)
(***************************************************************************)
EXTENDS ConfigPage, DetectionPage, GossipPlayback, FiniteSetTheorems, SequenceTheorems,
        WellFoundedInduction, TLAPS

(***************************************************************************)
(* The configuration.                                                      *)
(***************************************************************************)

(* The save that is on its way is one that a tab has sent.                 *)
SavesSent == \A t \in Tab : form[t].pc = "saving" => form[t].data \in was.sent

(* The core's singleton has the fields of a simulation as .env has them,   *)
(* the API's those of when the server started.                             *)
CoreIsSaved  == coreConfig = Unread \/ was.torn \/ \A f \in CoreField : coreConfig[f] = env[f]
ApiIsStarted == apiConfig \in {Unread, was.started}

ConfigInv == ConfigTypeOK /\ SavesSent /\ EnvIsOneForm /\ CoreIsSaved /\ ApiIsStarted

(* A configuration and what a form may hold.                               *)
LEMMA DefaultsType == Defaults \in Config /\ Defaults \in Form /\ FormOpened \in FormState
  BY ConfigAssumption DEF Defaults, Config, Form, FormOpened, FormState

LEMMA ConfigIsForm == Config \subseteq Form
  BY DEF Config, Form

LEMMA ValidIsConfig ==
  ASSUME NEW v \in Form, ~Invalid(v)
  PROVE  v \in Config
  BY DEF Form, Invalid, Config

(* A request has every field, so that nothing of the file before is left.  *)
LEMMA WrittenIsRequest ==
  ASSUME NEW d \in Config
  PROVE  Written(d) = d
  BY DEF Written, Config

LEMMA CountedType ==
  ASSUME ConfigTypeOK, NEW c \in {"edits", "saves", "faults"}, NEW max,
         max = IF c = "edits" THEN MaxEdits ELSE IF c = "saves" THEN MaxSaves ELSE MaxConfigFaults,
         Counted(c, max)
  PROVE  count' \in [edits : 0 .. MaxEdits, saves : 0 .. MaxSaves, faults : 0 .. MaxConfigFaults]
  BY ConfigAssumption DEF ConfigTypeOK, Counted

(***************************************************************************)
(* Initial states, and the steps one by one.                               *)
(***************************************************************************)

LEMMA ConfigInitInv == ConfigInit => ConfigInv
<1> SUFFICES ASSUME ConfigInit PROVE ConfigInv
  OBVIOUS
<1>1. ConfigTypeOK
  BY DefaultsType, ConfigAssumption DEF ConfigInit, ConfigTypeOK, NothingSet, NoRun, RunState
<1>2. SavesSent
  BY DEF ConfigInit, SavesSent, FormOpened
<1>3. EnvIsOneForm /\ CoreIsSaved /\ ApiIsStarted
  BY DEF ConfigInit, EnvIsOneForm, CoreIsSaved, ApiIsStarted
<1> QED BY <1>1, <1>2, <1>3 DEF ConfigInv

LEMMA ReadConfigInv == ASSUME ConfigInv, NEW t \in Tab, ReadConfig(t) PROVE ConfigInv'
<1> USE DEF ConfigInv
<1>1. ConfigTypeOK'
  BY DEF ConfigTypeOK, FormState, ReadConfig, serverVars
<1>2. SavesSent'
  BY DEF SavesSent, ReadConfig, serverVars, ConfigTypeOK
<1>3. EnvIsOneForm' /\ CoreIsSaved' /\ ApiIsStarted'
  BY DEF EnvIsOneForm, CoreIsSaved, ApiIsStarted, ReadConfig, serverVars
<1> QED BY <1>1, <1>2, <1>3

LEMMA RequestFailsInv == ASSUME ConfigInv, NEW t \in Tab, RequestFails(t) PROVE ConfigInv'
<1> USE DEF ConfigInv
<1>1. ConfigTypeOK'
  BY DEF ConfigTypeOK, FormState, RequestFails, serverVars
<1>2. SavesSent'
  BY DEF SavesSent, RequestFails, ConfigTypeOK, serverVars
<1> QED BY <1>1, <1>2 DEF EnvIsOneForm, CoreIsSaved, ApiIsStarted, RequestFails, serverVars

LEMMA PatchConfigInv == ASSUME ConfigInv, NEW t \in Tab, PatchConfig(t) PROVE ConfigInv'
<1> USE DEF ConfigInv
<1>1. form[t].data \in Config
  BY DEF ConfigTypeOK, FormState
<1>2. env' = form[t].data
  BY <1>1, WrittenIsRequest DEF PatchConfig
<1>3. ConfigTypeOK'
  BY <1>1, <1>2 DEF ConfigTypeOK, FormState, PatchConfig, Reset
<1>4. SavesSent'
  BY DEF SavesSent, PatchConfig, ConfigTypeOK
<1>5. EnvIsOneForm'
  BY <1>2 DEF EnvIsOneForm, SavesSent, PatchConfig
<1>6. CoreIsSaved' /\ ApiIsStarted'
  BY DEF CoreIsSaved, ApiIsStarted, PatchConfig, Reset
<1> QED BY <1>3, <1>4, <1>5, <1>6

LEMMA PatchTornInv == ASSUME ConfigInv, NEW t \in Tab, PatchTorn(t) PROVE ConfigInv'
<1> USE DEF ConfigInv
<1>1. PICK kept \in SUBSET Field :
           env' = [f \in Field |-> IF f \in kept THEN form[t].data[f] ELSE Default]
  BY DEF PatchTorn
<1>2. form[t].data \in Config
  BY DEF ConfigTypeOK, FormState
<1>3. env' \in Config
  BY <1>1, <1>2, ConfigAssumption DEF Config
<1>4. /\ was' \in [sent : SUBSET Config, torn : BOOLEAN, started : Config]
     /\ was'.torn /\ was'.sent = was.sent /\ was'.started = was.started
  BY DEF ConfigTypeOK, PatchTorn
<1>5. count' \in [edits : 0 .. MaxEdits, saves : 0 .. MaxSaves, faults : 0 .. MaxConfigFaults]
  BY CountedType DEF PatchTorn
<1>6. ConfigTypeOK'
  BY <1>3, <1>4, <1>5 DEF ConfigTypeOK, FormState, PatchTorn
<1>7. SavesSent'
  BY <1>4 DEF SavesSent, PatchTorn, ConfigTypeOK
<1> QED BY <1>4, <1>6, <1>7 DEF EnvIsOneForm, CoreIsSaved, ApiIsStarted, PatchTorn

(* What a Config() holds.                                                  *)
LEMMA ReadType ==
  ASSUME ConfigTypeOK
  PROVE  Read(environ) \in Config /\ \A f \in Field \ RequestField : Read(environ)[f] = env[f]
<1>1. \A f \in Field : Read(environ)[f] \in Value
  BY DEF ConfigTypeOK, Read, Config
<1> QED BY <1>1 DEF Read, Config

LEMMA SimulationReadsInv == ASSUME ConfigInv, SimulationReads PROVE ConfigInv'
<1> USE DEF ConfigInv
<1>1. coreConfig' \in Config /\ (coreConfig' = coreConfig \/ coreConfig' = Read(environ))
  BY ReadType DEF SimulationReads, ConfigTypeOK
<1>2. CoreIsSaved'
  BY <1>1, ReadType, ConfigAssumption DEF CoreIsSaved, SimulationReads
<1>3. run' \in RunState
  <2>1. apiConfig \in Config
    BY DEF SimulationReads, ConfigTypeOK
  <2>2. \A f \in Field : (CASE f \in ApiField  -> apiConfig[f]
                            [] f \in CoreField -> coreConfig'[f]
                            [] OTHER           -> Unset) \in Value \cup {Unset}
    BY <1>1, <2>1, ConfigAssumption DEF Config
  <2> QED BY <2>2 DEF SimulationReads, RunState
<1> QED BY <1>1, <1>2, <1>3 DEF ConfigTypeOK, SavesSent, EnvIsOneForm, ApiIsStarted, SimulationReads

LEMMA NodeReadsInv == ASSUME ConfigInv, NodeReads PROVE ConfigInv'
<1> USE DEF ConfigInv
<1>1. environ' \in [RequestField -> Value \cup {Unset}]
  BY DEF NodeReads
<1>2. run' \in RunState
  <2>1. \A f \in Field : (IF f \in NodeField /\ Accepted(Read(environ')) THEN env[f] ELSE Unset)
                           \in Value \cup {Unset}
    BY DEF ConfigTypeOK, Config
  <2> QED BY <2>1 DEF NodeReads, RunState
<1> QED BY <1>1, <1>2 DEF ConfigTypeOK, SavesSent, EnvIsOneForm, CoreIsSaved, ApiIsStarted, NodeReads

LEMMA ServerRestartsInv == ASSUME ConfigInv, ServerRestarts PROVE ConfigInv'
<1> USE DEF ConfigInv
<1>1. count' \in [edits : 0 .. MaxEdits, saves : 0 .. MaxSaves, faults : 0 .. MaxConfigFaults]
  BY CountedType DEF ServerRestarts
<1>2. \A t \in Tab : form'[t] \in FormState /\ form'[t].pc # "saving"
  <2> TAKE t \in Tab
  <2>1. form[t] \in FormState
    BY DEF ConfigTypeOK
  <2>2. form'[t] = CASE form[t].pc = "asked"  -> [form[t] EXCEPT !.pc = "skeleton"]
                     [] form[t].pc = "saving" -> [form[t] EXCEPT !.pc = "ready"]
                     [] OTHER                 -> form[t]
    BY DEF ServerRestarts
  <2>3. CASE form[t].pc = "asked"
    BY <2>1, <2>2, <2>3 DEF FormState
  <2>4. CASE form[t].pc = "saving"
    BY <2>1, <2>2, <2>4 DEF FormState
  <2>5. CASE form[t].pc \notin {"asked", "saving"}
    BY <2>1, <2>2, <2>5 DEF FormState
  <2> QED BY <2>3, <2>4, <2>5
<1>3. form' \in [Tab -> FormState]
  <2>1. form' = [t \in Tab |-> form'[t]]
    BY DEF ServerRestarts
  <2> QED BY <1>2, <2>1
<1>4. environ' \in [RequestField -> Value \cup {Unset}] /\ run' \in RunState
  BY DEF ServerRestarts, NothingSet, NoRun, RunState
<1>5. was' \in [sent : SUBSET Config, torn : BOOLEAN, started : Config]
  BY DEF ServerRestarts, ConfigTypeOK
<1>6. was'.started = env /\ was'.torn = was.torn /\ was'.sent = was.sent
  BY DEF ServerRestarts, ConfigTypeOK
<1>7. ConfigTypeOK'
  BY <1>1, <1>3, <1>4, <1>5 DEF ConfigTypeOK, ServerRestarts
<1> QED BY <1>2, <1>6, <1>7 DEF SavesSent, EnvIsOneForm, CoreIsSaved, ApiIsStarted, ServerRestarts

LEMMA AnswerArrivesInv == ASSUME ConfigInv, NEW t \in Tab, AnswerArrives(t) PROVE ConfigInv'
<1> USE DEF ConfigInv
<1>1. ConfigTypeOK'
  <2>1. form[t] \in FormState /\ form[t].data \in Form
    BY ConfigIsForm DEF ConfigTypeOK, FormState
  <2>2. [form[t] EXCEPT !.pc = "ready", !.errors = FALSE, !.values = form[t].data,
                        !.base = form[t].data] \in FormState
    BY <2>1 DEF FormState
  <2>3. form' \in [Tab -> FormState]
    BY <2>2 DEF ConfigTypeOK, AnswerArrives, serverVars
  <2> QED BY <2>3 DEF ConfigTypeOK, AnswerArrives, serverVars
<1> QED BY <1>1 DEF SavesSent, EnvIsOneForm, CoreIsSaved, ApiIsStarted, AnswerArrives, serverVars, ConfigTypeOK

LEMMA AnswerLostInv == ASSUME ConfigInv, NEW t \in Tab, AnswerLost(t) PROVE ConfigInv'
<1> USE DEF ConfigInv
<1>1. count' \in [edits : 0 .. MaxEdits, saves : 0 .. MaxSaves, faults : 0 .. MaxConfigFaults]
  BY CountedType DEF AnswerLost, serverVars
<1>2. ConfigTypeOK'
  BY <1>1 DEF ConfigTypeOK, FormState, AnswerLost, serverVars
<1> QED BY <1>2 DEF SavesSent, EnvIsOneForm, CoreIsSaved, ApiIsStarted, AnswerLost, serverVars, ConfigTypeOK

LEMMA EditInv ==
  ASSUME ConfigInv, NEW t \in Tab, NEW f \in Field, NEW v \in Value \cup {Bad}, Edit(t, f, v)
  PROVE  ConfigInv'
<1> USE DEF ConfigInv
<1>1. count' \in [edits : 0 .. MaxEdits, saves : 0 .. MaxSaves, faults : 0 .. MaxConfigFaults]
  BY CountedType DEF Edit, serverVars
<1>2. form[t] \in FormState
  BY DEF ConfigTypeOK
<1>3. [form[t].values EXCEPT ![f] = v] \in Form
  BY <1>2 DEF FormState, Form
<1>4. (form[t].errors /\ Invalid([form[t].values EXCEPT ![f] = v])) \in BOOLEAN
  OBVIOUS
<1>5. form'[t] = [form[t] EXCEPT !.values = [form[t].values EXCEPT ![f] = v],
                                 !.errors = form[t].errors
                                              /\ Invalid([form[t].values EXCEPT ![f] = v])]
  BY <1>2 DEF Edit, serverVars, ConfigTypeOK, FormState
<1>6. form'[t] \in FormState /\ form'[t].pc = form[t].pc /\ form'[t].data = form[t].data
  BY <1>2, <1>3, <1>4, <1>5 DEF FormState
<1>7. \A u \in Tab : u # t => form'[u] = form[u]
  BY DEF Edit, serverVars, ConfigTypeOK
<1>8. form' \in [Tab -> FormState]
  BY <1>6 DEF Edit, serverVars, ConfigTypeOK
<1>9. ConfigTypeOK'
  BY <1>1, <1>8 DEF ConfigTypeOK, Edit, serverVars
<1>10. SavesSent'
  BY <1>6, <1>7 DEF SavesSent, Edit
<1> QED BY <1>9, <1>10 DEF EnvIsOneForm, CoreIsSaved, ApiIsStarted, Edit, serverVars

LEMMA DiscardInv == ASSUME ConfigInv, NEW t \in Tab, Discard(t) PROVE ConfigInv'
<1> USE DEF ConfigInv
<1>1. form[t] \in FormState
  BY DEF ConfigTypeOK
<1>2. form'[t] = [form[t] EXCEPT !.values = form[t].base, !.errors = FALSE]
  BY <1>1 DEF Discard, serverVars, ConfigTypeOK, FormState
<1>3. form'[t] \in FormState /\ form'[t].pc = form[t].pc /\ form'[t].data = form[t].data
  BY <1>1, <1>2 DEF FormState
<1>4. \A u \in Tab : u # t => form'[u] = form[u]
  BY DEF Discard, serverVars, ConfigTypeOK
<1>5. form' \in [Tab -> FormState]
  BY <1>3 DEF Discard, serverVars, ConfigTypeOK
<1>6. ConfigTypeOK'
  BY <1>5 DEF ConfigTypeOK, Discard, serverVars
<1> QED BY <1>3, <1>4, <1>6 DEF SavesSent, EnvIsOneForm, CoreIsSaved, ApiIsStarted, Discard, serverVars

LEMMA SubmitInv == ASSUME ConfigInv, NEW t \in Tab, Submit(t) PROVE ConfigInv'
<1> USE DEF ConfigInv
<1>1. CASE Invalid(form[t].values) /\ UNCHANGED <<was, count>>
           /\ form' = [form EXCEPT ![t].errors = TRUE]
  <2> form[t] \in FormState
    BY DEF ConfigTypeOK
  <2>1. [form[t] EXCEPT !.errors = TRUE] \in FormState
    BY DEF FormState
  <2>2. form' \in [Tab -> FormState]
    BY <1>1, <2>1 DEF ConfigTypeOK
  <2>3. ConfigTypeOK'
    BY <1>1, <2>2 DEF ConfigTypeOK, Submit, serverVars
  <2> QED BY <1>1, <2>3 DEF SavesSent, EnvIsOneForm, CoreIsSaved, ApiIsStarted, Submit, serverVars, ConfigTypeOK
<1>2. CASE /\ ~Invalid(form[t].values)
           /\ Counted("saves", MaxSaves)
           /\ form' = [form EXCEPT ![t].pc = "saving", ![t].data = form[t].values]
           /\ was' = [was EXCEPT !.sent = @ \cup {form[t].values}]
  <2>1. form[t].values \in Config
    BY <1>2, ValidIsConfig DEF ConfigTypeOK, FormState
  <2>2. count' \in [edits : 0 .. MaxEdits, saves : 0 .. MaxSaves, faults : 0 .. MaxConfigFaults]
    BY <1>2, CountedType
  <2>3. /\ was' \in [sent : SUBSET Config, torn : BOOLEAN, started : Config]
        /\ was'.sent = was.sent \cup {form[t].values} /\ was'.torn = was.torn
    BY <1>2, <2>1 DEF ConfigTypeOK
  <2>4. ConfigTypeOK'
    BY <1>2, <2>1, <2>2, <2>3 DEF ConfigTypeOK, FormState, Submit, serverVars
  <2>5. SavesSent'
    BY <1>2, <2>3 DEF SavesSent, ConfigTypeOK, FormState
  <2> QED BY <2>3, <2>4, <2>5 DEF EnvIsOneForm, CoreIsSaved, ApiIsStarted, Submit, serverVars
<1> QED BY <1>1, <1>2 DEF Submit, serverVars

LEMMA TabOpensInv == ASSUME ConfigInv, NEW t \in Tab, TabOpens(t) PROVE ConfigInv'
<1> USE DEF ConfigInv
<1>1. ConfigTypeOK'
  BY DefaultsType DEF ConfigTypeOK, TabOpens, serverVars
<1>2. SavesSent'
  BY DEF SavesSent, TabOpens, serverVars, ConfigTypeOK, FormOpened
<1> QED BY <1>1, <1>2 DEF EnvIsOneForm, CoreIsSaved, ApiIsStarted, TabOpens, serverVars

LEMMA TabStepInv == ASSUME ConfigInv, NEW t \in Tab, TabStep(t) PROVE ConfigInv'
  BY ReadConfigInv, RequestFailsInv, PatchConfigInv, PatchTornInv, AnswerArrivesInv, AnswerLostInv, EditInv,
     DiscardInv, SubmitInv
  DEF TabStep

LEMMA ConfigNextInv == ConfigInv /\ [ConfigNext]_configVars => ConfigInv'
<1> SUFFICES ASSUME ConfigInv, [ConfigNext]_configVars PROVE ConfigInv'
  OBVIOUS
<1>1. CASE ConfigNext
  BY <1>1, TabStepInv, TabOpensInv, SimulationReadsInv, NodeReadsInv, ServerRestartsInv DEF ConfigNext
<1>2. CASE UNCHANGED configVars
  BY <1>2 DEF configVars, serverVars, ConfigInv, ConfigTypeOK, SavesSent, EnvIsOneForm, CoreIsSaved, ApiIsStarted
<1> QED BY <1>1, <1>2

(***************************************************************************)
(* The theorems.                                                           *)
(***************************************************************************)

(* However the tabs, the simulations, the failures and the restarts        *)
(* interleave: the variables keep their types.                             *)
THEOREM ConfigTypeHolds == ConfigSpec => []ConfigTypeOK
<1>1. ConfigSpec => []ConfigInv
  BY ConfigInitInv, ConfigNextInv, PTL DEF ConfigSpec
<1>2. ConfigInv => ConfigTypeOK
  BY DEF ConfigInv
<1> QED BY <1>1, <1>2, PTL

(* The keys' directory of a simulation is the one that .env says           *)
(* (patch_config resets the core's singleton after the write), unless a    *)
(* write was cut short; its metrics' directory is the one .env said as the *)
(* server started; and what its nodes read is what .env holds.             *)
THEOREM SimulationsUseSavedHolds == ConfigSpec => SimulationsUseSaved
<1>1. ConfigSpec => []ConfigInv
  BY ConfigInitInv, ConfigNextInv, PTL DEF ConfigSpec
<1>2. ConfigInv /\ [ConfigNext]_configVars => [TakesSaved]_configVars
  <2> SUFFICES ASSUME ConfigInv, [ConfigNext]_configVars PROVE TakesSaved
    OBVIOUS
  <2> USE DEF TakesSaved
  <2>1. CASE UNCHANGED run
    BY <2>1
  <2>2. CASE SimulationReads
    <3>1. run.pc = "no" /\ run'.pc = "thread"
      BY <2>2 DEF SimulationReads
    <3>2. \A f \in ApiField : run'.took[f] = apiConfig[f]
      BY <2>2, ConfigAssumption DEF SimulationReads
    <3>3. \A f \in CoreField : run'.took[f] = coreConfig'[f]
      BY <2>2, ConfigAssumption DEF SimulationReads
    <3>4. was.torn \/ \A f \in CoreField : coreConfig'[f] = env[f]
      <4>1. CASE coreConfig = Unread
        <5>1. coreConfig' = Read(environ)
          BY <2>2, <4>1 DEF SimulationReads
        <5> QED BY <5>1, ReadType, ConfigAssumption DEF ConfigInv
      <4>2. CASE coreConfig # Unread
        BY <2>2, <4>2 DEF SimulationReads, ConfigInv, CoreIsSaved
      <4> QED BY <4>1, <4>2
    <3>5. apiConfig = was.started
      BY <2>2 DEF SimulationReads, ConfigInv, ApiIsStarted
    <3> QED BY <3>1, <3>2, <3>3, <3>4, <3>5
  <2>3. CASE NodeReads
    BY <2>3 DEF NodeReads, NodeField
  <2>4. CASE ServerRestarts
    BY <2>4 DEF ServerRestarts, NoRun, NodeField
  <2>5. ASSUME NEW t \in Tab, TabStep(t) \/ TabOpens(t) PROVE UNCHANGED run
    BY <2>5 DEF TabStep, ReadConfig, RequestFails, PatchConfig, PatchTorn, AnswerArrives, AnswerLost,
                Edit, Discard, Submit, TabOpens, serverVars
  <2> QED BY <2>1, <2>2, <2>3, <2>4, <2>5 DEF ConfigNext, configVars, serverVars
<1> QED BY <1>1, <1>2, PTL DEF SimulationsUseSaved, ConfigSpec

(* .env holds what one tab has sent, never a mixture of two (onSubmit      *)
(* sends all fields), unless a write was cut short.                        *)
THEOREM EnvIsOneFormHolds == ConfigSpec => []EnvIsOneForm
<1>1. ConfigSpec => []ConfigInv
  BY ConfigInitInv, ConfigNextInv, PTL DEF ConfigSpec
<1>2. ConfigInv => EnvIsOneForm
  BY DEF ConfigInv
<1> QED BY <1>1, <1>2, PTL

-----------------------------------------------------------------------------
(***************************************************************************)
(* The detection page.                                                     *)
(***************************************************************************)

(* At most one request is under way, while the page is loading, and all    *)
(* that is asked for or was found belongs to the image on display.         *)
OneImage ==
  /\ \A r \in Request : asked[r] # Nothing => asked[r].image = det.file /\ det.loading
  /\ \A r, q \in Request : asked[r] # Nothing /\ asked[q] # Nothing => r = q
  /\ det.loading => det.file # NoImage
  /\ det.single # Nothing => det.single.image = det.file
  /\ det.compared # Nothing => det.compared.image = det.file

(* As long as no query for the list crossed another, there is at most one, *)
(* the selectors are hidden meanwhile, and no model was chosen before it   *)
(* was answered if none was when it was asked.                             *)
ListAlone ==
  ~crossed => /\ \A c \in Closure : list.queries[c] <= 1
              /\ \A c \in Closure : list.queries[c] > 0
                   => list.loading /\ \A d \in Closure \ {c} : list.queries[d] = 0
              /\ list.queries["unchosen"] > 0 => det.one = NoModel

DetInv == DetTypeOK /\ OneImage /\ ListAlone /\ ChosenAreListed

LEMMA ArgsType ==
  /\ Nothing \in Found
  /\ Nothing \notin Args
  /\ \A x \in Found : x # Nothing => x \in Args
  BY DEF Nothing, Found, Args

LEMMA ClearedType ==
  ASSUME NEW d \in DetState
  PROVE  /\ Cleared(d) \in DetState
         /\ Cleared(d).multi = d.multi /\ Cleared(d).one = d.one
         /\ Cleared(d).chosen = d.chosen /\ Cleared(d).file = d.file
         /\ Cleared(d).single = Nothing /\ Cleared(d).compared = Nothing
         /\ Cleared(d).loading = d.loading
  BY ArgsType DEF Cleared, DetState

LEMMA CountType ==
  ASSUME DetTypeOK, Click \/ Pick
  PROVE  detCount' \in [clicks : 0 .. MaxClicks, picks : 0 .. MaxPicks]
  BY DetectionAssumption DEF DetTypeOK, Click, Pick

(* What the invariant says of requests does not depend on mode, selection  *)
(* and list.                                                               *)
LEMMA SameRequests ==
  ASSUME DetInv, UNCHANGED asked,
         det' \in DetState,
         det'.file = det.file, det'.single = det.single, det'.compared = det.compared,
         det'.loading = det.loading
  PROVE  OneImage'
  BY DEF DetInv, OneImage

(* And what it says of the list does not depend on images and requests.    *)
LEMMA SameList ==
  ASSUME DetInv, UNCHANGED <<list, crossed>>, det'.one = det.one, det'.chosen = det.chosen
  PROVE  ListAlone' /\ ChosenAreListed'
  BY DEF DetInv, ListAlone, ChosenAreListed

(***************************************************************************)
(* Initial states, and the steps one by one.                               *)
(***************************************************************************)

(* A page that has just been mounted.                                      *)
LEMMA BlankInv ==
  ASSUME det = DetBlank, asked = NoneAsked, list = ListMounted, crossed = FALSE,
         detCount \in [clicks : 0 .. MaxClicks, picks : 0 .. MaxPicks]
  PROVE  DetInv
<1>1. det \in DetState
  BY ArgsType DEF DetBlank, DetState
<1>2. list \in ListState
  BY DEF ListState, ListMounted, Closure
<1>3. DetTypeOK
  BY <1>1, <1>2, ArgsType DEF DetTypeOK, NoneAsked
<1>4. OneImage
  BY DEF OneImage, NoneAsked, DetBlank
<1>5. ListAlone /\ ChosenAreListed
  BY DEF ListAlone, ChosenAreListed, ListMounted, DetBlank, Closure
<1> QED BY <1>3, <1>4, <1>5 DEF DetInv

LEMMA FetchCheckpointsInv == ASSUME DetInv, FetchCheckpoints PROVE DetInv'
<1>1. list \in ListState /\ list.queries \in [Closure -> Nat] /\ SeesNow \in Closure
  BY DEF DetInv, DetTypeOK, ListState, SeesNow, Closure
<1>2. list' = [list EXCEPT !.loading = TRUE, !.queries = [list.queries EXCEPT ![SeesNow] = @ + 1]]
  BY <1>1 DEF FetchCheckpoints, ListState
<1>3. /\ list' \in ListState /\ list'.loading /\ list'.shown = list.shown
      /\ list'.queries = [list.queries EXCEPT ![SeesNow] = @ + 1]
  <2>1. [list.queries EXCEPT ![SeesNow] = @ + 1] \in [Closure -> Nat]
    BY <1>1
  <2> QED BY <1>1, <1>2, <2>1 DEF ListState
<1>4. DetTypeOK'
  BY <1>3, CountType DEF DetInv, DetTypeOK, FetchCheckpoints
<1>5. OneImage'
  BY SameRequests DEF DetInv, DetTypeOK, FetchCheckpoints
<1>6. ASSUME ~crossed' PROVE \A c \in Closure : list.queries[c] = 0
  <2>1. ~Querying
    BY <1>6 DEF FetchCheckpoints
  <2> QED BY <1>1, <2>1 DEF Querying
<1>7. ASSUME ~crossed'
      PROVE  \A c \in Closure : list'.queries[c] = IF c = SeesNow THEN 1 ELSE 0
  BY <1>1, <1>3, <1>6, <1>7
<1>8. ListAlone'
  BY <1>1, <1>3, <1>7 DEF ListAlone, FetchCheckpoints, SeesNow, Closure
<1>9. ChosenAreListed'
  BY <1>3 DEF DetInv, ChosenAreListed, FetchCheckpoints
<1> QED BY <1>4, <1>5, <1>8, <1>9 DEF DetInv

(* The list after an answer, and what that leaves of a lone query.         *)
LEMMA AnsweredType ==
  ASSUME DetInv, NEW u \in Closure, list.queries[u] > 0
  PROVE  /\ Answered(u) \in ListState /\ Answered(u).shown = list.shown
         /\ ~crossed => \A v \in Closure : Answered(u).queries[v] = 0
         /\ ~crossed => list.loading /\ (u = "unchosen" => det.one = NoModel)
<1>1. list \in ListState /\ list.queries \in [Closure -> Nat]
  BY DEF DetInv, DetTypeOK, ListState
<1>2. [list.queries EXCEPT ![u] = @ - 1] \in [Closure -> Nat]
  BY <1>1
<1>3. /\ Answered(u) \in ListState /\ Answered(u).shown = list.shown
      /\ Answered(u).queries = [list.queries EXCEPT ![u] = @ - 1]
  BY <1>1, <1>2 DEF Answered, ListState
<1>4. ASSUME ~crossed, NEW v \in Closure PROVE Answered(u).queries[v] = 0
  <2>1. CASE v = u
    BY <1>1, <1>3, <1>4, <2>1 DEF DetInv, ListAlone
  <2>2. CASE v # u
    BY <1>1, <1>3, <1>4, <2>2 DEF DetInv, ListAlone
  <2> QED BY <2>1, <2>2
<1>5. ~crossed => list.loading /\ (u = "unchosen" => det.one = NoModel)
  BY DEF DetInv, ListAlone
<1> QED BY <1>3, <1>4, <1>5

LEMMA CheckpointsArriveInv ==
  ASSUME DetInv, NEW u \in Closure, CheckpointsArrive(u)
  PROVE  DetInv'
<1>1. PICK existing \in SUBSET Model, first \in Model :
           /\ list' = [Answered(u) EXCEPT !.shown = existing]
           /\ det' = [det EXCEPT !.chosen = existing,
                                 !.one = IF existing # {} /\ u = "unchosen" THEN first ELSE @]
  BY DEF CheckpointsArrive
<1>2. det \in DetState
  BY DEF DetInv, DetTypeOK
<1>3. /\ det' \in DetState
      /\ det'.file = det.file /\ det'.single = det.single /\ det'.compared = det.compared
      /\ det'.loading = det.loading /\ det'.chosen = existing
  BY <1>1, <1>2 DEF DetState
<1>4. /\ list' \in ListState /\ list'.shown = existing
      /\ ~crossed => \A v \in Closure : list'.queries[v] = 0
  BY <1>1, AnsweredType DEF CheckpointsArrive, ListState
<1>5. DetTypeOK'
  BY <1>3, <1>4 DEF DetInv, DetTypeOK, CheckpointsArrive
<1>6. OneImage'
  BY <1>3, SameRequests DEF CheckpointsArrive
<1>7. ListAlone'
  BY <1>4 DEF DetInv, DetTypeOK, ListState, ListAlone, Closure, CheckpointsArrive
<1>8. ChosenAreListed'
  BY <1>3, <1>4 DEF ChosenAreListed
<1> QED BY <1>5, <1>6, <1>7, <1>8 DEF DetInv

LEMMA CheckpointsFailInv ==
  ASSUME DetInv, NEW u \in Closure, CheckpointsFail(u)
  PROVE  DetInv'
<1>1. /\ list' \in ListState /\ list'.shown = list.shown
      /\ ~crossed => \A v \in Closure : list'.queries[v] = 0
  BY AnsweredType DEF CheckpointsFail
<1>2. DetTypeOK'
  BY <1>1, CountType DEF DetInv, DetTypeOK, CheckpointsFail
<1>3. OneImage'
  BY SameRequests DEF DetInv, DetTypeOK, CheckpointsFail
<1>4. ListAlone'
  BY <1>1 DEF DetInv, DetTypeOK, ListState, ListAlone, Closure, CheckpointsFail
<1>5. ChosenAreListed'
  BY <1>1 DEF DetInv, ChosenAreListed, CheckpointsFail
<1> QED BY <1>2, <1>3, <1>4, <1>5 DEF DetInv

(* The clicks that change the mode or the selection.                       *)
LEMMA PicksInv ==
  ASSUME DetInv, Pick, UNCHANGED <<asked, list, crossed>>,
         det' \in DetState, det'.chosen \subseteq list.shown,
         det'.file = det.file, det'.single = det.single, det'.compared = det.compared,
         det'.loading = det.loading,
         det'.one = det.one \/ ~list.loading
  PROVE  DetInv'
<1>1. DetTypeOK'
  BY CountType DEF DetInv, DetTypeOK
<1>2. OneImage'
  BY SameRequests
<1>3. ListAlone'
  <2>1. list.queries \in [Closure -> Nat] /\ "unchosen" \in Closure
    BY DEF DetInv, DetTypeOK, ListState, Closure
  <2>2. ~crossed /\ ~list.loading => \A c \in Closure : ~(list.queries[c] > 0)
    BY DEF DetInv, ListAlone
  <2>3. CASE det'.one = det.one
    BY <2>3 DEF DetInv, ListAlone
  <2>4. CASE ~list.loading
    BY <2>1, <2>2, <2>4 DEF DetInv, ListAlone
  <2> QED BY <2>3, <2>4
<1>4. ChosenAreListed'
  BY DEF ChosenAreListed
<1> QED BY <1>1, <1>2, <1>3, <1>4 DEF DetInv

LEMMA SelectOneInv == ASSUME DetInv, NEW m \in Model, SelectOne(m) PROVE DetInv'
<1>1. det \in DetState /\ det.chosen \subseteq list.shown /\ list.shown \subseteq Model
  BY DEF DetInv, DetTypeOK, ListState, ChosenAreListed
<1>2. /\ det' \in DetState /\ det'.chosen \subseteq list.shown
      /\ det'.file = det.file /\ det'.single = det.single /\ det'.compared = det.compared
      /\ det'.loading = det.loading /\ ~list.loading
  BY <1>1 DEF SelectOne, SingleSelector, DetState
<1>3. Pick /\ UNCHANGED <<asked, list, crossed>>
  BY DEF SelectOne
<1> QED BY <1>2, <1>3, PicksInv

LEMMA ToggleCheckpointInv == ASSUME DetInv, NEW m \in Model, ToggleCheckpoint(m) PROVE DetInv'
<1>1. det \in DetState /\ det.chosen \subseteq list.shown /\ list.shown \subseteq Model
  BY DEF DetInv, DetTypeOK, ListState, ChosenAreListed
<1>2. /\ det' \in DetState /\ det'.chosen \subseteq list.shown
      /\ det'.file = det.file /\ det'.single = det.single /\ det'.compared = det.compared
      /\ det'.loading = det.loading /\ det'.one = det.one
  BY <1>1 DEF ToggleCheckpoint, DetState
<1>3. Pick /\ UNCHANGED <<asked, list, crossed>>
  BY DEF ToggleCheckpoint
<1> QED BY <1>2, <1>3, PicksInv

LEMMA SelectAllInv == ASSUME DetInv, SelectAll PROVE DetInv'
<1>1. det \in DetState /\ det.chosen \subseteq list.shown /\ list.shown \subseteq Model
  BY DEF DetInv, DetTypeOK, ListState, ChosenAreListed
<1>2. /\ det' \in DetState /\ det'.chosen \subseteq list.shown
      /\ det'.file = det.file /\ det'.single = det.single /\ det'.compared = det.compared
      /\ det'.loading = det.loading /\ det'.one = det.one
  BY <1>1 DEF SelectAll, DetState
<1>3. Pick /\ UNCHANGED <<asked, list, crossed>>
  BY DEF SelectAll
<1> QED BY <1>2, <1>3, PicksInv

LEMMA SetMultiModeInv == ASSUME DetInv, NEW on \in BOOLEAN, SetMultiMode(on) PROVE DetInv'
<1>1. det \in DetState /\ det.chosen \subseteq list.shown /\ list.shown \subseteq Model
  BY DEF DetInv, DetTypeOK, ListState, ChosenAreListed
<1>2. /\ det' \in DetState /\ det'.chosen \subseteq list.shown
      /\ det'.file = det.file /\ det'.single = det.single /\ det'.compared = det.compared
      /\ det'.loading = det.loading /\ det'.one = det.one
  BY <1>1 DEF SetMultiMode, DetState
<1>3. Pick /\ UNCHANGED <<asked, list, crossed>>
  BY DEF SetMultiMode
<1> QED BY <1>2, <1>3, PicksInv

(* A request is made, or an error says that no model is chosen: in a state *)
(* with no request under way.                                              *)
LEMMA ExecuteInferenceInv ==
  ASSUME DetInv, Click, UNCHANGED <<list, crossed>>, ~det.loading,
         NEW image \in Image, NEW d \in DetState,
         d.file = image, d.chosen = det.chosen, d.one = det.one,
         ExecuteInference(d, image)
  PROVE  DetInv'
<1> DEFINE models == IF d.multi THEN d.chosen ELSE {d.one}
<1>1. detCount' \in [clicks : 0 .. MaxClicks, picks : 0 .. MaxPicks]
  BY CountType DEF DetInv
<1>2. Cleared(d) \in DetState
  BY ClearedType
<1>3. models \in SUBSET (Model \cup {NoModel})
  BY DEF DetState
<1>4. \A q \in Request : asked[q] = Nothing
  BY DEF DetInv, OneImage
<1>5. image # NoImage
  BY DetectionAssumption
<1>6. CASE models = {}
  <2>1. det' = [Cleared(d) EXCEPT !.loading = FALSE, !.error = TRUE] /\ UNCHANGED asked
    BY <1>6 DEF ExecuteInference
  <2>2. /\ det' \in DetState /\ det'.chosen = det.chosen /\ det'.one = det.one
        /\ det'.single = Nothing /\ det'.compared = Nothing /\ ~det'.loading
    BY <1>2, <2>1, ClearedType DEF DetState
  <2>3. DetTypeOK'
    BY <1>1, <2>1, <2>2 DEF DetInv, DetTypeOK
  <2>4. OneImage'
    BY <1>4, <2>1, <2>2 DEF OneImage
  <2> QED BY <2>2, <2>3, <2>4, SameList DEF DetInv
<1>7. CASE models # {}
  <2> DEFINE args == [image |-> image, multi |-> d.multi, models |-> models]
  <2>1. /\ det' = [Cleared(d) EXCEPT !.loading = TRUE]
        /\ \E r \in Request : asked' = [asked EXCEPT ![r] = args]
    BY <1>7 DEF ExecuteInference
  <2>2. PICK r \in Request : asked' = [asked EXCEPT ![r] = args]
    BY <2>1
  <2>3. args \in Args /\ args.image = image
    BY <1>3 DEF Args, DetState
  <2> HIDE DEF args
  <2>4. /\ det' \in DetState /\ det'.file = image /\ det'.chosen = det.chosen
        /\ det'.one = det.one /\ det'.loading
        /\ det'.single = Nothing /\ det'.compared = Nothing
    BY <1>2, <2>1, ClearedType DEF DetState
  <2>5. asked' \in [Request -> Found]
    BY <2>2, <2>3 DEF DetInv, DetTypeOK, Found
  <2>6. DetTypeOK'
    BY <1>1, <2>4, <2>5 DEF DetInv, DetTypeOK
  <2>7. \A q \in Request : asked'[q] = IF q = r THEN args ELSE Nothing
    BY <1>4, <2>2 DEF DetInv, DetTypeOK
  <2>8. OneImage'
    BY <1>5, <2>3, <2>4, <2>7 DEF OneImage
  <2> QED BY <2>4, <2>6, <2>8, SameList DEF DetInv
<1> QED BY <1>6, <1>7

LEMMA HandleFileInv == ASSUME DetInv, NEW image \in Image, HandleFile(image) PROVE DetInv'
<1>1. det \in DetState
  BY DEF DetInv, DetTypeOK
<1> DEFINE d == [det EXCEPT !.file = image]
<1>2. d \in DetState /\ d.file = image /\ d.chosen = det.chosen /\ d.one = det.one
  BY <1>1 DEF DetState
<1>3. ~det.loading
  BY DEF HandleFile, HasResults, DetInv, OneImage
<1>4. Click /\ UNCHANGED <<list, crossed>> /\ ExecuteInference(d, image)
  BY DEF HandleFile
<1> HIDE DEF d
<1> QED BY <1>2, <1>3, <1>4, ExecuteInferenceInv

LEMMA RunInferenceInv == ASSUME DetInv, RunInference PROVE DetInv'
<1>1. det \in DetState
  BY DEF DetInv, DetTypeOK
<1>2. det.file \in Image
  BY <1>1 DEF RunInference, HasResults, DetState
<1> QED BY <1>1, <1>2, ExecuteInferenceInv DEF RunInference

LEMMA HandleClearInv == ASSUME DetInv, HandleClear PROVE DetInv'
<1>1. det \in DetState
  BY DEF DetInv, DetTypeOK
<1>2. Cleared(det) \in DetState
  BY <1>1, ClearedType
<1>3. /\ det' \in DetState /\ det'.chosen = det.chosen /\ det'.one = det.one
      /\ det'.single = Nothing /\ det'.compared = Nothing /\ ~det'.loading
  BY <1>1, <1>2, ClearedType DEF HandleClear, DetState
<1>4. DetTypeOK'
  BY <1>3, CountType DEF DetInv, DetTypeOK, HandleClear
<1>5. OneImage'
  BY <1>3 DEF DetInv, OneImage, HandleClear
<1> QED BY <1>3, <1>4, <1>5, SameList DEF DetInv, HandleClear

LEMMA DetectionArrivesInv == ASSUME DetInv, NEW r \in Request, DetectionArrives(r) PROVE DetInv'
<1>1. det \in DetState /\ asked \in [Request -> Found]
  BY DEF DetInv, DetTypeOK
<1>2. asked[r] # Nothing /\ asked[r] \in Found
  BY <1>1 DEF DetectionArrives
<1>3. \/ det' = [det EXCEPT !.compared = asked[r], !.loading = FALSE]
      \/ det' = [det EXCEPT !.single = asked[r], !.loading = FALSE]
  BY DEF DetectionArrives
<1>4. /\ det' \in DetState /\ det'.file = det.file /\ det'.chosen = det.chosen
      /\ det'.one = det.one /\ ~det'.loading
      /\ \/ det'.single = asked[r] /\ det'.compared = det.compared
         \/ det'.single = det.single /\ det'.compared = asked[r]
  BY <1>1, <1>2, <1>3 DEF DetState
<1>5. asked' = [asked EXCEPT ![r] = Nothing] /\ UNCHANGED <<list, crossed, detCount>>
  BY DEF DetectionArrives
<1>6. DetTypeOK'
  BY <1>1, <1>4, <1>5, ArgsType DEF DetInv, DetTypeOK
<1>7. \A q \in Request : asked'[q] = Nothing
  BY <1>1, <1>2, <1>5 DEF DetInv, OneImage
<1>8. OneImage'
  BY <1>2, <1>4, <1>7 DEF DetInv, OneImage
<1> QED BY <1>4, <1>5, <1>6, <1>8, SameList DEF DetInv

LEMMA InferenceFailsInv == ASSUME DetInv, NEW r \in Request, InferenceFails(r) PROVE DetInv'
<1>1. det \in DetState /\ asked \in [Request -> Found]
  BY DEF DetInv, DetTypeOK
<1>2. /\ det' \in DetState /\ det'.file = det.file /\ det'.chosen = det.chosen
      /\ det'.one = det.one /\ ~det'.loading
      /\ det'.single = det.single /\ det'.compared = det.compared
  BY <1>1 DEF DetState, InferenceFails
<1>3. /\ asked[r] # Nothing /\ asked' = [asked EXCEPT ![r] = Nothing]
      /\ UNCHANGED <<list, crossed, detCount>>
  BY DEF InferenceFails
<1>4. DetTypeOK'
  BY <1>1, <1>2, <1>3, ArgsType DEF DetInv, DetTypeOK
<1>5. \A q \in Request : asked'[q] = Nothing
  BY <1>1, <1>3 DEF DetInv, OneImage
<1>6. OneImage'
  BY <1>2, <1>5 DEF DetInv, OneImage
<1> QED BY <1>2, <1>3, <1>4, <1>6, SameList DEF DetInv

LEMMA DetNextInv == DetInv /\ [DetNext]_detVars => DetInv'
<1> SUFFICES ASSUME DetInv, [DetNext]_detVars PROVE DetInv'
  OBVIOUS
<1>1. CASE DetNext
  BY <1>1, FetchCheckpointsInv, CheckpointsArriveInv, CheckpointsFailInv, SelectOneInv,
     ToggleCheckpointInv, SelectAllInv, SetMultiModeInv, HandleFileInv, RunInferenceInv,
     HandleClearInv, DetectionArrivesInv, InferenceFailsInv
  DEF DetNext
<1>2. CASE UNCHANGED detVars
  BY <1>2 DEF detVars, DetInv, DetTypeOK, OneImage, ListAlone, ChosenAreListed
<1> QED BY <1>1, <1>2

(* What the invariant says of what is shown.                               *)
LEMMA ImageFollows == DetInv => ResultsOfImage
<1> SUFFICES ASSUME DetInv, DetShows = "results"
             PROVE  ShownNow.image = det.file
  BY DEF ResultsOfImage
<1>1. ShownNow # Nothing
  BY DEF DetShows
<1> QED BY <1>1 DEF DetInv, OneImage, ShownNow

(* And what a step may do to the model that is chosen in single mode.      *)
PickKept == det.one # NoModel /\ det'.one \notin {NoModel, det.one} => crossed \/ UNCHANGED list

LEMMA PickFollows == DetInv /\ [DetNext]_detVars => PickKept
<1> SUFFICES ASSUME DetInv, [DetNext]_detVars PROVE PickKept
  OBVIOUS
<1>1. det \in DetState
  BY DEF DetInv, DetTypeOK
<1>2. ASSUME NEW u \in Closure, CheckpointsArrive(u) PROVE PickKept
  <2>1. crossed \/ (u = "unchosen" => det.one = NoModel)
    BY <1>2, AnsweredType DEF CheckpointsArrive
  <2>2. u # "unchosen" => det'.one = det.one
    BY <1>1, <1>2 DEF CheckpointsArrive, DetState
  <2> QED BY <2>1, <2>2 DEF PickKept
<1>3. CASE \/ FetchCheckpoints
           \/ \E u \in Closure : CheckpointsFail(u)
  BY <1>3 DEF PickKept, FetchCheckpoints, CheckpointsFail
<1>4. CASE UNCHANGED list
  BY <1>4 DEF PickKept
<1> QED BY <1>2, <1>3, <1>4 DEF DetNext, detVars, SelectOne, ToggleCheckpoint, SelectAll, SetMultiMode,
           HandleFile, RunInference, HandleClear, DetectionArrives, InferenceFails

LEMMA DetSpecInv == DetSpec => []DetInv
<1>1. DetInit => DetInv
  <2> SUFFICES ASSUME DetInit PROVE DetInv
    OBVIOUS
  <2>1. detCount \in [clicks : 0 .. MaxClicks, picks : 0 .. MaxPicks]
    BY DetectionAssumption DEF DetInit
  <2> QED BY <2>1, BlankInv DEF DetInit
<1> QED BY <1>1, DetNextInv, PTL DEF DetSpec

(***************************************************************************)
(* The theorems.                                                           *)
(***************************************************************************)

(* What was found in one image is never shown with another one: at most    *)
(* one request is under way, for the image on display, since Run, Change   *)
(* and Clear are disabled while loading.                                   *)
THEOREM ResultsOfImageHolds == DetSpec => []ResultsOfImage
  BY DetSpecInv, ImageFollows, PTL

(* The model chosen in single mode is replaced by an answer with the list  *)
(* only when the list was asked for again during a query, which            *)
(* fetchCheckpoints does not prevent.                                      *)
THEOREM PickNeedsOverlapHolds == DetSpec => PickNeedsOverlap
<1>1. DetInv /\ [DetNext]_detVars
        => [det.one # NoModel /\ det'.one \notin {NoModel, det.one} => crossed \/ UNCHANGED list]_detVars
  BY PickFollows DEF PickKept
<1> QED BY <1>1, DetSpecInv, PTL DEF DetSpec, PickNeedsOverlap

(* Only models in the list are chosen, so that "Select All" can compare    *)
(* numbers (checkpoint selector), also after the list was loaded again.    *)
THEOREM ChosenAreListedHolds == DetSpec => []ChosenAreListed
<1>1. DetInv => ChosenAreListed
  BY DEF DetInv
<1> QED BY <1>1, DetSpecInv, PTL

(***************************************************************************)
(* The table of nodes.                                                     *)
(***************************************************************************)

(* A row has the place of its node in the list that the rows were made of, *)
(* wherever it has been dragged to.                                        *)
RowsRanked ==
  \A i \in DOMAIN table.rows :
    table.rows[i].id = Place(NodesIn(table), table.rows[i].node)

(* There is a page only where there are rows.                              *)
PageFits == Len(table.rows) <= MaxNodes /\ table.index * table.size <= MaxNodes

TableInv == TableTypeOK /\ RowsRanked /\ PageFits

(* SelectionStays says this of every step.                                 *)
KeepsSelection ==
  table'.rows # table.rows =>
    \A n \in NodesIn(table) \cap NodesIn(table') :
      Place(NodesIn(table), n) = Place(NodesIn(table'), n)
        => (IsChosen(table, n) <=> IsChosen(table', n))

TableState == [rows : Seq(Row), chosen : SUBSET Node, filter : SUBSET Node,
               index : 0 .. MaxNodes, size : Size, hidden : SUBSET Column,
               drawer : {0} \cup Node]

(* Sets of nodes can be counted.                                           *)
LEMMA NodesFinite ==
  ASSUME NEW nodes \in SUBSET Node
  PROVE  /\ IsFiniteSet(nodes) /\ Cardinality(nodes) \in Nat
         /\ Cardinality(nodes) <= MaxNodes
<1>1. IsFiniteSet(Node) /\ Cardinality(Node) = MaxNodes
  BY FS_Interval, TableAssumption DEF Node
<1>2. IsFiniteSet(nodes) /\ Cardinality(nodes) <= Cardinality(Node)
  BY <1>1, FS_Subset
<1> QED BY <1>1, <1>2, FS_CardinalityType

(* Places are from 1 on, and no two nodes have the same,                   *)
LEMMA PlaceIsPlace ==
  ASSUME NEW nodes \in SUBSET Node, NEW n \in nodes
  PROVE  Place(nodes, n) \in 1 .. Cardinality(nodes)
<1> DEFINE below == {m \in nodes : m <= n}
<1>1. below \in SUBSET nodes /\ n \in below
  BY DEF Node
<1>2. Cardinality(below) \in Nat /\ Cardinality(below) <= Cardinality(nodes)
  BY <1>1, NodesFinite, FS_Subset
<1>3. Cardinality(below) # 0
  BY <1>1, NodesFinite, FS_Subset, FS_EmptySet
<1> QED BY <1>2, <1>3, NodesFinite DEF Place

(* Two nodes have two places.                                              *)
LEMMA PlacesDiffer ==
  ASSUME NEW nodes \in SUBSET Node, NEW m \in nodes, NEW n \in nodes, m < n
  PROVE  Place(nodes, m) # Place(nodes, n)
<1> DEFINE low == {k \in nodes : k <= m}
           high == {k \in nodes : k <= n}
<1>1. \A k \in nodes : k \in Int
  BY DEF Node
<1>2. low \in SUBSET high /\ n \in high /\ n \notin low
  BY <1>1
<1>3. IsFiniteSet(high)
  <2>1. IsFiniteSet(nodes) /\ high \in SUBSET nodes
    BY NodesFinite
  <2> QED BY <2>1, FS_Subset
<1> HIDE DEF low, high
<1>4. Cardinality(low) # Cardinality(high)
  BY <1>2, <1>3, FS_Subset
<1> QED BY <1>4 DEF Place, low, high

LEMMA PlaceNames ==
  ASSUME NEW nodes \in SUBSET Node, NEW m \in nodes, NEW n \in nodes,
         Place(nodes, m) = Place(nodes, n)
  PROVE  m = n
<1>1. m \in Int /\ n \in Int
  BY DEF Node
<1> QED BY <1>1, PlacesDiffer

(* There is a node at every place.                                         *)
LEMMA EveryPlace ==
  ASSUME NEW nodes \in SUBSET Node, NEW i \in 1 .. Cardinality(nodes)
  PROVE  NodeAt(nodes, i) \in nodes /\ Place(nodes, NodeAt(nodes, i)) = i
<1> DEFINE T == 1 .. Cardinality(nodes)
           f == [n \in nodes |-> Place(nodes, n)]
<1>1. f \in Injection(nodes, T)
  <2>1. f \in [nodes -> T]
    BY PlaceIsPlace
  <2>2. \A m, n \in nodes : f[m] = f[n] => m = n
    BY PlaceNames
  <2> QED BY <2>1, <2>2 DEF Injection, IsInjective
<1>2. IsFiniteSet(T) /\ Cardinality(T) = Cardinality(nodes)
  <2>1. Cardinality(nodes) \in Nat
    BY NodesFinite
  <2> QED BY <2>1, FS_Interval
<1>3. f \in Surjection(nodes, T)
  BY <1>1, <1>2, FS_Injection
<1>4. PICK n \in nodes : Place(nodes, n) = i
  BY <1>3 DEF Surjection
<1> QED BY <1>4 DEF NodeAt

(* The rows of a list have the places of its nodes.                        *)
LEMMA TableDataRows ==
  ASSUME NEW nodes \in SUBSET Node
  PROVE  LET rows == TableData(nodes)
         IN  /\ rows \in Seq(Row) /\ Len(rows) <= MaxNodes
             /\ {rows[i].node : i \in DOMAIN rows} = nodes
             /\ \A i \in DOMAIN rows : rows[i].id = Place(nodes, rows[i].node)
<1> DEFINE rows == TableData(nodes)
<1>1. Cardinality(nodes) \in Nat /\ Cardinality(nodes) <= MaxNodes
  BY NodesFinite
<1>2. /\ DOMAIN rows = 1 .. Cardinality(nodes)
      /\ \A i \in 1 .. Cardinality(nodes) : rows[i] = [id |-> i, node |-> NodeAt(nodes, i)]
  BY DEF TableData
<1>3. \A i \in 1 .. Cardinality(nodes) : rows[i] \in Row
  <2> SUFFICES ASSUME NEW i \in 1 .. Cardinality(nodes) PROVE rows[i] \in Row
    OBVIOUS
  <2> HIDE DEF rows
  <2>1. i \in Node
    BY <1>1, TableAssumption DEF Node
  <2>2. NodeAt(nodes, i) \in Node
    BY EveryPlace
  <2>3. rows[i] = [id |-> i, node |-> NodeAt(nodes, i)]
    BY <1>2
  <2> QED BY <2>1, <2>2, <2>3 DEF Row
<1>4. rows \in Seq(Row) /\ Len(rows) = Cardinality(nodes)
  BY <1>1, <1>2, <1>3 DEF TableData
<1>5. \A i \in DOMAIN rows : rows[i].id = Place(nodes, rows[i].node) /\ rows[i].node \in nodes
  BY <1>2, EveryPlace
<1>6. ASSUME NEW n \in nodes PROVE \E i \in DOMAIN rows : rows[i].node = n
  <2>1. Place(nodes, n) \in 1 .. Cardinality(nodes)
    BY PlaceIsPlace
  <2>2. rows[Place(nodes, n)].node = n
    BY <1>2, <2>1, EveryPlace, PlaceNames
  <2> QED BY <1>2, <2>1, <2>2
<1> HIDE DEF rows
<1>7. {rows[i].node : i \in DOMAIN rows} = nodes
  BY <1>5, <1>6
<1> QED BY <1>1, <1>4, <1>5, <1>7 DEF rows

(* What RemoveAt and InsertAt make of a sequence.                          *)
LEMMA RemoveAtRows ==
  ASSUME NEW S, NEW s \in Seq(S), NEW i \in 1 .. Len(s)
  PROVE  /\ RemoveAt(s, i) \in Seq(S) /\ Len(RemoveAt(s, i)) = Len(s) - 1
         /\ \A k \in 1 .. Len(s) - 1 : RemoveAt(s, i)[k] = IF k < i THEN s[k] ELSE s[k + 1]
<1> DEFINE a == SubSeq(s, 1, i - 1)
           b == SubSeq(s, i + 1, Len(s))
<1>1. a \in Seq(S) /\ Len(a) = i - 1 /\ \A k \in 1 .. i - 1 : a[k] = s[k]
  OBVIOUS
<1>2. b \in Seq(S) /\ Len(b) = Len(s) - i /\ \A k \in 1 .. Len(s) - i : b[k] = s[i + k]
  OBVIOUS
<1>3. RemoveAt(s, i) = a \o b
  BY DEF RemoveAt
<1> HIDE DEF a, b
<1>4. Len(s) \in Nat /\ i \in Nat /\ Len(a) + Len(b) = Len(s) - 1
  BY <1>1, <1>2
<1>5. a \o b \in Seq(S) /\ Len(a \o b) = Len(s) - 1
  BY <1>1, <1>2, <1>4, ConcatProperties
<1>6. \A k \in 1 .. Len(a) + Len(b) : (a \o b)[k] = IF k <= Len(a) THEN a[k] ELSE b[k - Len(a)]
  BY <1>1, <1>2, ConcatProperties
<1>7. ASSUME NEW k \in 1 .. Len(s) - 1
      PROVE  (a \o b)[k] = IF k < i THEN s[k] ELSE s[k + 1]
  <2>1. (a \o b)[k] = IF k <= i - 1 THEN a[k] ELSE b[k - (i - 1)]
    BY <1>1, <1>4, <1>6
  <2>2. CASE k < i
    <3>1. k \in 1 .. i - 1
      BY <1>4, <2>2
    <3> QED BY <1>1, <2>1, <2>2, <3>1
  <2>3. CASE ~(k < i)
    <3>1. k - (i - 1) \in 1 .. Len(s) - i /\ i + (k - (i - 1)) = k + 1 /\ ~(k <= i - 1)
      BY <1>4, <2>3
    <3> QED BY <1>2, <2>1, <2>3, <3>1
  <2> QED BY <2>2, <2>3
<1> QED BY <1>3, <1>5, <1>7

LEMMA InsertAtRows ==
  ASSUME NEW S, NEW s \in Seq(S), NEW i \in 1 .. Len(s) + 1, NEW e \in S
  PROVE  /\ InsertAt(s, i, e) \in Seq(S) /\ Len(InsertAt(s, i, e)) = Len(s) + 1
         /\ \A k \in 1 .. Len(s) + 1 :
              InsertAt(s, i, e)[k] = IF k < i THEN s[k] ELSE IF k = i THEN e ELSE s[k - 1]
<1> DEFINE a == SubSeq(s, 1, i - 1)
           b == SubSeq(s, i, Len(s))
           c == a \o <<e>>
<1>1. a \in Seq(S) /\ Len(a) = i - 1 /\ \A k \in 1 .. i - 1 : a[k] = s[k]
  OBVIOUS
<1>2. b \in Seq(S) /\ Len(b) = Len(s) - i + 1 /\ \A k \in 1 .. Len(s) - i + 1 : b[k] = s[i + k - 1]
  OBVIOUS
<1>3. InsertAt(s, i, e) = c \o b
  BY DEF InsertAt
<1> HIDE DEF a, b
<1>4. c \in Seq(S) /\ Len(c) = i /\ c[i] = e /\ \A k \in 1 .. i - 1 : c[k] = s[k]
  BY <1>1
<1> HIDE DEF c
<1>5. Len(s) \in Nat /\ i \in Nat /\ Len(c) + Len(b) = Len(s) + 1
  BY <1>2, <1>4
<1>6. c \o b \in Seq(S) /\ Len(c \o b) = Len(s) + 1
  BY <1>2, <1>4, <1>5, ConcatProperties
<1>7. \A k \in 1 .. Len(c) + Len(b) : (c \o b)[k] = IF k <= Len(c) THEN c[k] ELSE b[k - Len(c)]
  BY <1>2, <1>4, ConcatProperties
<1>8. ASSUME NEW k \in 1 .. Len(s) + 1
      PROVE  (c \o b)[k] = IF k < i THEN s[k] ELSE IF k = i THEN e ELSE s[k - 1]
  <2>1. (c \o b)[k] = IF k <= i THEN c[k] ELSE b[k - i]
    BY <1>4, <1>5, <1>7
  <2>2. CASE k <= i
    <3>1. k = i \/ k \in 1 .. i - 1
      BY <1>5, <2>2
    <3> QED BY <1>4, <1>5, <2>1, <2>2, <3>1
  <2>3. CASE ~(k <= i)
    <3>1. k - i \in 1 .. Len(s) - i + 1 /\ i + (k - i) - 1 = k - 1 /\ ~(k < i) /\ k # i
      BY <1>5, <2>3
    <3> QED BY <1>2, <2>1, <2>3, <3>1
  <2> QED BY <2>2, <2>3
<1> QED BY <1>3, <1>6, <1>8

(* What InsertAt(s, i, e) has at place k.                                  *)
Inserted(s, i, e, k) == IF k < i THEN s[k] ELSE IF k = i THEN e ELSE s[k - 1]

LEMMA InsertAtPlace ==
  ASSUME NEW S, NEW s \in Seq(S), NEW i \in 1 .. Len(s) + 1, NEW e \in S,
         NEW k \in 1 .. Len(s) + 1
  PROVE  InsertAt(s, i, e)[k] = Inserted(s, i, e, k)
<1>1. \A l \in 1 .. Len(s) + 1 :
        InsertAt(s, i, e)[l] = IF l < i THEN s[l] ELSE IF l = i THEN e ELSE s[l - 1]
  BY InsertAtRows
<1> QED BY <1>1 DEF Inserted

(* A row that is dragged stays among the rows, and so do the others.       *)
LEMMA MovedRows ==
  ASSUME NEW rows \in Seq(Row), NEW from \in 1 .. Len(rows), NEW to \in 1 .. Len(rows)
  PROVE  LET moved == Moved(rows, from, to)
         IN  /\ moved \in Seq(Row) /\ Len(moved) = Len(rows)
             /\ \A i \in DOMAIN moved : \E j \in DOMAIN rows : moved[i] = rows[j]
             /\ \A j \in DOMAIN rows : \E i \in DOMAIN moved : moved[i] = rows[j]
<1> DEFINE left  == RemoveAt(rows, from)
           moved == Moved(rows, from, to)
<1>1. /\ left \in Seq(Row) /\ Len(left) = Len(rows) - 1
      /\ \A k \in 1 .. Len(rows) - 1 : left[k] = IF k < from THEN rows[k] ELSE rows[k + 1]
  BY RemoveAtRows
<1>2. moved = InsertAt(left, to, rows[from]) /\ rows[from] \in Row
  BY DEF Moved
<1> HIDE DEF left, moved
<1>3. Len(left) + 1 = Len(rows) /\ to \in 1 .. Len(left) + 1
  BY <1>1
<1>4. /\ moved \in Seq(Row) /\ Len(moved) = Len(rows)
      /\ \A k \in 1 .. Len(rows) :
           moved[k] = IF k < to THEN left[k] ELSE IF k = to THEN rows[from] ELSE left[k - 1]
  <2> DEFINE e == rows[from]
  <2>1. e \in Row /\ left \in Seq(Row) /\ to \in 1 .. Len(left) + 1
    BY <1>1, <1>2, <1>3
  <2> HIDE DEF e
  <2>2. InsertAt(left, to, e) \in Seq(Row) /\ Len(InsertAt(left, to, e)) = Len(left) + 1
    BY <2>1, InsertAtRows
  <2>3. ASSUME NEW k \in 1 .. Len(left) + 1
        PROVE  InsertAt(left, to, e)[k] = Inserted(left, to, e, k)
    BY <2>1, InsertAtPlace
  <2> QED BY <1>2, <1>3, <2>2, <2>3 DEF e, Inserted
<1>5. DOMAIN rows = 1 .. Len(rows) /\ DOMAIN moved = 1 .. Len(rows) /\ Len(rows) \in Nat
  BY <1>4
<1>6. ASSUME NEW k \in 1 .. Len(rows) - 1
      PROVE  \E j \in 1 .. Len(rows) : left[k] = rows[j]
  <2>1. k \in 1 .. Len(rows) /\ k + 1 \in 1 .. Len(rows)
    BY <1>5
  <2> QED BY <1>1, <2>1
<1>7. ASSUME NEW i \in 1 .. Len(rows) PROVE \E j \in 1 .. Len(rows) : moved[i] = rows[j]
  <2>1. CASE i < to
    <3>1. i \in 1 .. Len(rows) - 1 /\ moved[i] = left[i]
      BY <1>4, <1>5, <2>1
    <3> QED BY <1>6, <3>1
  <2>2. CASE i = to
    BY <1>4, <2>2
  <2>3. CASE i > to
    <3>1. i - 1 \in 1 .. Len(rows) - 1 /\ moved[i] = left[i - 1]
      BY <1>4, <1>5, <2>3
    <3> QED BY <1>6, <3>1
  <2> QED BY <2>1, <2>2, <2>3
<1>8. ASSUME NEW k \in 1 .. Len(rows) - 1
      PROVE  \E i \in 1 .. Len(rows) : moved[i] = left[k]
  <2>1. CASE k < to
    BY <1>4, <1>5, <2>1
  <2>2. CASE k >= to
    <3>1. k + 1 \in 1 .. Len(rows) /\ k + 1 > to /\ (k + 1) - 1 = k
      BY <1>5, <2>2
    <3>2. moved[k + 1] = left[k]
      BY <1>4, <3>1
    <3> QED BY <3>1, <3>2
  <2> QED BY <2>1, <2>2
<1>9. ASSUME NEW j \in 1 .. Len(rows) PROVE \E i \in 1 .. Len(rows) : moved[i] = rows[j]
  <2>1. CASE j < from
    <3>1. j \in 1 .. Len(rows) - 1 /\ left[j] = rows[j]
      BY <1>1, <1>5, <2>1
    <3> QED BY <1>8, <3>1
  <2>2. CASE j = from
    BY <1>4, <2>2
  <2>3. CASE j > from
    <3>1. j - 1 \in 1 .. Len(rows) - 1 /\ left[j - 1] = rows[j]
      BY <1>1, <1>5, <2>3
    <3> QED BY <1>8, <3>1
  <2> QED BY <2>1, <2>2, <2>3
<1> QED BY <1>4, <1>5, <1>7, <1>9 DEF moved

LEMMA DrawnTable ==
  ASSUME NEW t, NEW rest,
         t \in TableState,
         rest = Drawn(t)
  PROVE  /\ rest \in TableState
         /\ rest.rows = t.rows /\ rest.chosen = t.chosen
         /\ rest.index = t.index /\ rest.size = t.size
<1> DEFINE d == IF t.drawer \in Ids(PageRows(t)) THEN t.drawer ELSE 0
<1>1. rest = [t EXCEPT !.drawer = d] /\ d \in {0} \cup Node
  BY DEF Drawn, TableState
<1> HIDE DEF d
<1> QED BY <1>1 DEF TableState

LEMMA ChosenByPlace ==
  ASSUME NEW t, NEW n \in NodesIn(t),
         \A i \in DOMAIN t.rows : t.rows[i].id = Place(NodesIn(t), t.rows[i].node)
  PROVE  IsChosen(t, n) <=> Place(NodesIn(t), n) \in t.chosen
<1>1. PICK k \in DOMAIN t.rows : t.rows[k].node = n
  BY DEF NodesIn
<1>2. t.rows[k].id = Place(NodesIn(t), n)
  BY <1>1
<1> QED BY <1>1, <1>2 DEF IsChosen

(* Other rows.                                                             *)
LEMMA RowsChange ==
  ASSUME TableInv, tableClicks' \in 0 .. MaxTableClicks, NEW rows \in Seq(Row),
         table' = Drawn(FromFirstPage([table EXCEPT !.rows = rows])),
         Len(rows) <= MaxNodes,
         \A i \in DOMAIN rows :
           rows[i].id = Place({rows[j].node : j \in DOMAIN rows}, rows[i].node)
  PROVE  TableInv' /\ KeepsSelection /\ table'.rows = rows
<1> USE DEF TableInv
<1> DEFINE t == FromFirstPage([table EXCEPT !.rows = rows])
<1>1. /\ t \in TableState
      /\ t.rows = rows /\ t.index = 0 /\ t.chosen = table.chosen /\ t.size = table.size
  <2> DEFINE u == [table EXCEPT !.rows = rows]
  <2>1. /\ u \in TableState
        /\ u.rows = rows /\ u.chosen = table.chosen /\ u.size = table.size
    BY DEF TableTypeOK, TableState
  <2>2. t = [u EXCEPT !.index = 0] /\ 0 \in 0 .. MaxNodes
    BY TableAssumption DEF FromFirstPage
  <2> HIDE DEF t, u
  <2> QED BY <2>1, <2>2 DEF TableState
<1> HIDE DEF t
<1>2. /\ TableTypeOK'
      /\ table'.rows = rows /\ table'.index = 0 /\ table'.chosen = table.chosen
      /\ table'.size \in Size
  <2>1. table' = Drawn(t)
    BY DEF t
  <2>2. /\ table' \in TableState /\ table'.rows = rows /\ table'.index = 0
        /\ table'.chosen = table.chosen
    BY <1>1, <2>1, DrawnTable
  <2>3. TableTypeOK'
    BY <2>2 DEF TableTypeOK, TableState
  <2> QED BY <2>2, <2>3 DEF TableState
<1>3. RowsRanked'
  <2>1. NodesIn(table') = {rows[j].node : j \in DOMAIN rows}
    BY <1>2 DEF NodesIn
  <2> QED BY <1>2, <2>1 DEF RowsRanked
<1>4. PageFits'
  BY <1>2, TableAssumption DEF PageFits
<1>5. KeepsSelection
  <2> SUFFICES ASSUME NEW n \in NodesIn(table) \cap NodesIn(table'),
                      Place(NodesIn(table), n) = Place(NodesIn(table'), n)
               PROVE  IsChosen(table, n) <=> IsChosen(table', n)
    BY DEF KeepsSelection
  <2>1. IsChosen(table, n) <=> Place(NodesIn(table), n) \in table.chosen
    BY ChosenByPlace DEF RowsRanked
  <2>2. IsChosen(table', n) <=> Place(NodesIn(table'), n) \in table'.chosen
    BY <1>3, ChosenByPlace DEF RowsRanked
  <2> QED BY <1>2, <2>1, <2>2
<1> QED BY <1>2, <1>3, <1>4, <1>5

(* The rows of a new list, in which a node may have kept its place.        *)
LEMMA TableGetsInv ==
  ASSUME TableInv, NEW nodes \in SUBSET Node, TableGets(nodes), UNCHANGED tableClicks
  PROVE  TableInv' /\ KeepsSelection
<1> DEFINE rows == TableData(nodes)
<1>1. /\ rows \in Seq(Row) /\ Len(rows) <= MaxNodes
      /\ {rows[i].node : i \in DOMAIN rows} = nodes
      /\ \A i \in DOMAIN rows : rows[i].id = Place(nodes, rows[i].node)
  BY TableDataRows
<1>2. table' = Drawn(FromFirstPage([table EXCEPT !.rows = rows]))
  BY DEF TableGets
<1>3. tableClicks' \in 0 .. MaxTableClicks
  BY DEF TableInv, TableTypeOK
<1> HIDE DEF rows
<1> QED BY <1>1, <1>2, <1>3, RowsChange

LEMMA Acts ==
  ASSUME TableTypeOK, Act
  PROVE  tableClicks' \in 0 .. MaxTableClicks
  BY TableAssumption DEF TableTypeOK, Act

(* A row that is dragged keeps its place in the list.                      *)
LEMMA DragInv ==
  ASSUME TableInv, NEW from, NEW to, HandleDragEnd(from, to)
  PROVE  TableInv' /\ KeepsSelection
<1> DEFINE rows == Moved(table.rows, from, to)
<1>1. table.rows \in Seq(Row) /\ from \in 1 .. Len(table.rows) /\ to \in 1 .. Len(table.rows)
  BY DEF TableInv, TableTypeOK, HandleDragEnd
<1>2. /\ rows \in Seq(Row) /\ Len(rows) = Len(table.rows)
      /\ \A i \in DOMAIN rows : \E j \in DOMAIN table.rows : rows[i] = table.rows[j]
      /\ \A j \in DOMAIN table.rows : \E i \in DOMAIN rows : rows[i] = table.rows[j]
  BY <1>1, MovedRows
<1>3. table' = Drawn(FromFirstPage([table EXCEPT !.rows = rows]))
  BY <1>1 DEF HandleDragEnd, TableInv, TableTypeOK
<1>4. tableClicks' \in 0 .. MaxTableClicks
  BY Acts DEF TableInv, HandleDragEnd
<1> HIDE DEF rows
<1>5. {rows[j].node : j \in DOMAIN rows} = NodesIn(table)
  <2>1. \A i \in DOMAIN rows : rows[i].node \in NodesIn(table)
    BY <1>2 DEF NodesIn
  <2>2. ASSUME NEW n \in NodesIn(table) PROVE \E i \in DOMAIN rows : rows[i].node = n
    <3>1. PICK j \in DOMAIN table.rows : n = table.rows[j].node
      BY DEF NodesIn
    <3> QED BY <1>2, <3>1
  <2> QED BY <2>1, <2>2
<1>6. \A i \in DOMAIN rows :
        rows[i].id = Place({rows[j].node : j \in DOMAIN rows}, rows[i].node)
  <2>1. ASSUME NEW i \in DOMAIN rows PROVE rows[i].id = Place(NodesIn(table), rows[i].node)
    <3>1. PICK j \in DOMAIN table.rows : rows[i] = table.rows[j]
      BY <1>2
    <3>2. table.rows[j].id = Place(NodesIn(table), table.rows[j].node)
      BY DEF TableInv, RowsRanked
    <3> QED BY <3>1, <3>2
  <2> QED BY <1>5, <2>1
<1>7. Len(rows) <= MaxNodes
  BY <1>2 DEF TableInv, PageFits
<1> QED BY <1>2, <1>3, <1>4, <1>6, <1>7, RowsChange

(* Steps that leave the rows alone.                                        *)
LEMMA RowsStay ==
  ASSUME TableInv, TableTypeOK', table'.rows = table.rows,
         table'.index * table'.size <= MaxNodes
  PROVE  TableInv' /\ KeepsSelection
  BY DEF TableInv, RowsRanked, PageFits, KeepsSelection, NodesIn

LEMMA TableTyped ==
  TableTypeOK <=> table \in TableState /\ tableClicks \in 0 .. MaxTableClicks
  BY DEF TableTypeOK, TableState

LEMMA TableNumbers ==
  ASSUME NEW t \in TableState
  PROVE  t.index \in Nat /\ t.size \in Nat /\ t.size > 0
<1>1. t.index \in 0 .. MaxNodes /\ t.size \in Size
  BY DEF TableState
<1>2. \A k \in Size : k \in Nat /\ k > 0
  BY TableAssumption
<1>3. \A k \in 0 .. MaxNodes : k \in Nat
  OBVIOUS
<1> QED BY <1>1, <1>2, <1>3

(* A click that leaves the rows alone and may turn the page.               *)
LEMMA PageTurns ==
  ASSUME TableInv, Act, NEW t \in TableState, table' = Drawn(t) \/ table' = t,
         t.rows = table.rows, t.index * t.size <= MaxNodes
  PROVE  TableInv' /\ KeepsSelection
<1>1. /\ table' \in TableState /\ table'.rows = t.rows
      /\ table'.index = t.index /\ table'.size = t.size
  BY DrawnTable
<1>2. tableClicks' \in 0 .. MaxTableClicks
  BY Acts DEF TableInv
<1>3. TableTypeOK'
  BY <1>1, <1>2 DEF TableTypeOK, TableState
<1> QED BY <1>1, <1>3, RowsStay

LEMMA FilterInv ==
  ASSUME TableInv, NEW f \in SUBSET Node, FilterNodes(f)
  PROVE  TableInv' /\ KeepsSelection
<1> DEFINE u == [table EXCEPT !.filter = f]
           t == [u EXCEPT !.index = 0]
<1>1. u \in TableState /\ u.rows = table.rows /\ u.size = table.size
  BY DEF TableInv, TableTypeOK, TableState
<1>2. table' = Drawn(t)
  BY DEF FilterNodes, FromFirstPage
<1> HIDE DEF u
<1>3. t \in TableState /\ t.rows = table.rows /\ t.index = 0
  <2>1. 0 \in 0 .. MaxNodes
    BY TableAssumption
  <2> QED BY <1>1, <2>1 DEF TableState
<1> HIDE DEF t
<1>4. t.size \in Nat
  BY <1>3, TableAssumption DEF TableState
<1>5. t.index * t.size <= MaxNodes
  BY <1>3, <1>4, TableAssumption
<1> QED BY <1>2, <1>3, <1>5, PageTurns DEF FilterNodes

(* Clicks that turn no page.                                               *)
LEMMA CellChanges ==
  ASSUME TableInv, Act, table' \in TableState, table'.rows = table.rows,
         table'.index = table.index, table'.size = table.size
  PROVE  TableInv' /\ KeepsSelection
<1>1. table'.index * table'.size <= MaxNodes
  BY DEF TableInv, PageFits
<1> QED BY <1>1, PageTurns

LEMMA PageIds == ASSUME TableTypeOK PROVE Ids(PageRows(table)) \subseteq Node
<1>1. \A i \in DOMAIN table.rows : table.rows[i] \in Row
  BY DEF TableTypeOK
<1>2. \A r \in PageRows(table) : \E i \in DOMAIN table.rows : r = table.rows[i]
  BY DEF PageRows, Filtered
<1>3. \A r \in PageRows(table) : r.id \in Node
  BY <1>1, <1>2 DEF Row
<1> QED BY <1>3 DEF Ids

LEMMA CellClicks ==
  ASSUME TableInv,
         \/ \E id \in Node : ToggleSelected(id) \/ OpenDrawer(id)
         \/ ToggleAllPageRows \/ CloseDrawer
         \/ \E c \in Column : ToggleVisibility(c)
  PROVE  TableInv' /\ KeepsSelection
<1>1. table \in TableState
  BY TableTyped DEF TableInv
<1>2. ASSUME NEW id \in Node, ToggleSelected(id) PROVE TableInv' /\ KeepsSelection
  BY <1>1, <1>2, CellChanges DEF ToggleSelected, TableState
<1>3. ASSUME NEW id \in Node, OpenDrawer(id) PROVE TableInv' /\ KeepsSelection
  BY <1>1, <1>3, CellChanges DEF OpenDrawer, TableState
<1>4. CASE ToggleAllPageRows
  <2> DEFINE ids == Ids(PageRows(table))
  <2>1. ids \subseteq Node
    BY PageIds DEF TableInv
  <2>2. Act /\ table' = [table EXCEPT !.chosen = IF ids \subseteq @ THEN @ \ ids ELSE @ \cup ids]
    BY <1>4 DEF ToggleAllPageRows
  <2> HIDE DEF ids
  <2> QED BY <1>1, <2>1, <2>2, CellChanges DEF TableState
<1>5. CASE CloseDrawer
  BY <1>1, <1>5, CellChanges DEF CloseDrawer, TableState
<1>6. ASSUME NEW c \in Column, ToggleVisibility(c) PROVE TableInv' /\ KeepsSelection
  BY <1>1, <1>6, CellChanges DEF ToggleVisibility, TableState
<1> QED BY <1>2, <1>3, <1>4, <1>5, <1>6

(* What \div gives, for the pages.                                         *)
LEMMA Quotient ==
  ASSUME NEW a \in Nat, NEW b \in Nat, b > 0
  PROVE  a \div b \in Nat /\ (a \div b) * b <= a /\ a \div b <= a
<1>1. a \div b \in Nat
  OBVIOUS
<1>2. b * (a \div b) <= a
  OBVIOUS
<1> DEFINE i == a \div b
<1>3. i \in Nat /\ b * i <= a
  BY <1>1, <1>2
<1> HIDE DEF i
<1>4. i * b = b * i /\ i <= i * b
  BY <1>3
<1> QED BY <1>3, <1>4 DEF i

(* What a page of another size starts with is not after the last row.      *)
LEMMA SizeInv ==
  ASSUME TableInv, NEW s \in Size, SetPageSize(s)
  PROVE  TableInv' /\ KeepsSelection
<1> DEFINE top == table.index * table.size
           i == top \div s
           u == [table EXCEPT !.size = s]
           t == [u EXCEPT !.index = i]
<1>1. table \in TableState /\ MaxNodes \in Nat /\ s \in Nat /\ s > 0 /\ Act
  BY TableTyped, TableAssumption DEF TableInv, SetPageSize
<1>2. table.index \in Nat /\ table.size \in Nat
  BY <1>1, TableNumbers
<1>3. top \in Nat /\ top <= MaxNodes
  BY <1>2 DEF TableInv, PageFits
<1>4. table' = Drawn(t)
  BY <1>1 DEF SetPageSize, TableState
<1> HIDE DEF top
<1>5. i \in 0 .. MaxNodes /\ i * s <= MaxNodes
  <2>1. i \in Nat /\ i * s <= top /\ i <= top
    BY <1>1, <1>3, Quotient
  <2> HIDE DEF i
  <2>2. i * s \in Nat
    BY <1>1, <2>1
  <2> QED BY <1>1, <1>3, <2>1, <2>2
<1> HIDE DEF i
<1>6. u \in TableState /\ u.rows = table.rows /\ u.size = s
  BY <1>1 DEF TableState
<1> HIDE DEF u
<1>7. t \in TableState /\ t.rows = table.rows /\ t.size = s /\ t.index = i
  BY <1>5, <1>6 DEF TableState
<1> HIDE DEF t
<1> QED BY <1>1, <1>4, <1>5, <1>7, PageTurns

LEMMA FilteredFit ==
  ASSUME TableInv
  PROVE  Cardinality(Filtered(table)) \in Nat /\ Cardinality(Filtered(table)) <= MaxNodes
<1>1. table.rows \in Seq(Row) /\ Len(table.rows) \in Nat /\ Len(table.rows) <= MaxNodes
  BY DEF TableInv, TableTypeOK, PageFits
<1>2. IsFiniteSet(DOMAIN table.rows) /\ Cardinality(DOMAIN table.rows) = Len(table.rows)
  <2>1. DOMAIN table.rows = 1 .. Len(table.rows)
    BY <1>1
  <2> DEFINE l == Len(table.rows)
  <2>2. l \in Nat
    BY <1>1
  <2> HIDE DEF l
  <2>3. IsFiniteSet(1 .. l) /\ Cardinality(1 .. l) = l
    BY <2>2, FS_Interval
  <2> QED BY <2>1, <2>3 DEF l
<1>3. Filtered(table) \subseteq DOMAIN table.rows
  BY DEF Filtered
<1>4. /\ IsFiniteSet(Filtered(table))
      /\ Cardinality(Filtered(table)) <= Cardinality(DOMAIN table.rows)
  BY <1>2, <1>3, FS_Subset
<1> QED BY <1>1, <1>2, <1>4, FS_CardinalityType, TableAssumption

(* A product grows with its factor.                                        *)
LEMMA Products ==
  ASSUME NEW a \in Nat, NEW b \in Nat, NEW s \in Nat, a <= b
  PROVE  a * s <= b * s
<1> DEFINE d == b - a
<1>1. d \in Nat /\ b = a + d
  OBVIOUS
<1> HIDE DEF d
<1>2. b * s = a * s + d * s /\ d * s \in Nat /\ a * s \in Nat
  BY <1>1
<1> QED BY <1>2

(* There is a row on every page but the first.                             *)
LEMMA IndexInv ==
  ASSUME TableInv, NEW i \in 0 .. MaxNodes, SetPageIndex(i)
  PROVE  TableInv' /\ KeepsSelection
<1> DEFINE t == [table EXCEPT !.index = i]
           n == Cardinality(Filtered(table))
           size == table.size
           last == PageCount(table) - 1
<1>1. table \in TableState /\ MaxNodes \in Nat /\ Act /\ table' = Drawn(t)
  BY TableTyped, TableAssumption DEF TableInv, SetPageIndex
<1>2. t \in TableState /\ t.rows = table.rows /\ t.index = i /\ t.size = size
  BY <1>1 DEF TableState
<1>3. /\ table.index \in Nat /\ size \in Nat /\ size > 0
      /\ table.index * size <= MaxNodes
  BY <1>1, TableAssumption DEF TableState, TableInv, PageFits
<1>4. n \in Nat /\ n <= MaxNodes
  BY FilteredFit
<1>5. i <= table.index \/ i <= last
  <2>1. CASE CanPreviousPage /\ i \in {0, table.index - 1}
    BY <1>3, <2>1
  <2>2. CASE CanNextPage /\ i \in {table.index + 1, last}
    <3>1. table.index < last /\ last \in Int
      BY <1>3, <1>4, <2>2 DEF CanNextPage, PageCount
    <3> HIDE DEF last
    <3> QED BY <1>3, <2>2, <3>1
  <2> QED BY <2>1, <2>2 DEF SetPageIndex
<1>6. last \in Int /\ (last >= 0 => last * size <= n)
  <2> DEFINE c == n + size - 1
             q == c \div size
  <2>1. c \in Nat /\ last = q - 1
    BY <1>3, <1>4 DEF PageCount
  <2> HIDE DEF c
  <2>2. q \in Nat /\ q * size <= c
    BY <1>3, <2>1, Quotient
  <2> HIDE DEF q, last
  <2>3. last * size = q * size - size
    BY <1>3, <2>1, <2>2
  <2>4. q * size \in Int
    BY <1>3, <2>2
  <2>5. last * size <= n
    BY <1>3, <1>4, <2>2, <2>3, <2>4 DEF c
  <2> QED BY <2>1, <2>2, <2>5
<1> HIDE DEF t, n, last, size
<1>7. i * size <= MaxNodes
  <2>1. CASE i <= table.index
    <3>1. i * size <= table.index * size
      BY <1>3, <2>1, Products
    <3>2. i * size \in Nat /\ table.index * size \in Nat
      BY <1>3
    <3> QED BY <1>1, <1>3, <3>1, <3>2
  <2>2. CASE i <= last
    <3>1. last \in Nat /\ last * size <= n
      BY <1>6, <2>2
    <3>2. i * size <= last * size
      BY <1>3, <2>2, <3>1, Products
    <3>3. i * size \in Nat /\ last * size \in Nat
      BY <1>3, <3>1
    <3> QED BY <1>1, <1>4, <3>1, <3>2, <3>3
  <2> QED BY <1>5, <2>1, <2>2
<1> QED BY <1>1, <1>2, <1>7, PageTurns

LEMMA TableClickInv ==
  ASSUME TableInv, TableClick
  PROVE  TableInv' /\ KeepsSelection /\ Act
<1>1. TableInv' /\ KeepsSelection
  <2>1. ASSUME NEW f \in Filter, FilterNodes(f) PROVE TableInv' /\ KeepsSelection
    BY <2>1, FilterInv, TableAssumption
  <2>2. ASSUME NEW i \in 0 .. MaxNodes, SetPageIndex(i) PROVE TableInv' /\ KeepsSelection
    BY <2>2, IndexInv
  <2>3. ASSUME NEW s \in Size, SetPageSize(s) PROVE TableInv' /\ KeepsSelection
    BY <2>3, SizeInv
  <2>4. ASSUME NEW from \in Node, NEW to \in Node, HandleDragEnd(from, to)
        PROVE TableInv' /\ KeepsSelection
    BY <2>4, DragInv
  <2> QED BY <2>1, <2>2, <2>3, <2>4, CellClicks DEF TableClick
<1>2. Act
  BY DEF TableClick, FilterNodes, ToggleSelected, OpenDrawer, ToggleAllPageRows,
         ToggleVisibility, SetPageSize, SetPageIndex, HandleDragEnd, CloseDrawer
<1> QED BY <1>1, <1>2

LEMMA BlankTableInv == table = TableBlank /\ tableClicks \in 0 .. MaxTableClicks => TableInv
<1> SUFFICES ASSUME table = TableBlank, tableClicks \in 0 .. MaxTableClicks PROVE TableInv
  OBVIOUS
<1>1. TableBlank \in TableState
  BY TableAssumption DEF TableBlank, TableState, Row
<1>2. TableTypeOK
  BY <1>1 DEF TableTypeOK, TableState
<1>3. RowsRanked
  BY DEF RowsRanked, TableBlank
<1>4. PageFits
  BY TableAssumption DEF PageFits, TableBlank
<1> QED BY <1>2, <1>3, <1>4 DEF TableInv

(***************************************************************************)
(* The loads of the node pages.                                            *)
(***************************************************************************)

ViewState == [page : NodePage \cup {"other"}, node : Node, loading : BOOLEAN,
              shown : [Part -> Seen], begun : SUBSET Loader,
              picked : SUBSET Node, range : TimeRange]

LoadState == [loader : Loader \cup {"none"}, first : BOOLEAN, got : [Part -> Seen],
              overtaken : BOOLEAN]

(* Shown, of what a page has.                                              *)
ShownIn(shown, part) == IF shown[part] = NoAnswer THEN Zero ELSE shown[part]

Got(l, part) == l.got[part] # NoAnswer

(* The server answers the parts of a load, and with what is recorded.      *)
PartsFit(l) == \A p \in Part : Got(l, p) => p \in PartsOf(l.loader)
NotAhead(l, recorded) ==
  \A p \in Part : Got(l, p) => \A n \in Node : l.got[p][n] <= recorded[n]

(* An answer that nothing has overtaken is not behind what is shown; a     *)
(* list of nodes has those whose histories will be asked for.              *)
NotBehind(l, shown) ==
  ~l.overtaken =>
    /\ \A p \in Part : Got(l, p) => \A n \in Node : ShownIn(shown, p)[n] <= l.got[p][n]
    /\ Got(l, "list") =>
         \A n \in Node : ShownIn(shown, "histories")[n] > 0 => l.got["list"][n] > 0

LoadOK(l, on, shown, recorded) ==
  /\ l \in LoadState
  /\ l.loader \in LoadersOf(on) \cup {"none"}
  /\ PartsFit(l) /\ NotAhead(l, recorded) /\ NotBehind(l, shown)

ShownRecorded(shown, recorded) ==
  \A p \in Part, n \in Node : ShownIn(shown, p)[n] <= recorded[n]

PagesInv ==
  /\ TableInv
  /\ records \in Records /\ pushed \in Records
  /\ view \in ViewState
  /\ loadFaults \in 0 .. MaxLoadFaults
  /\ ShownRecorded(view.shown, records)
  /\ load = [s \in Slot |-> load[s]]
  /\ \A s \in Slot : LoadOK(load[s], view.page, view.shown, records)

(* A step after which as much is shown as before, or more.                 *)
Onward ==
  /\ \A p \in Part, n \in Node : ShownIn(view.shown, p)[n] <= ShownIn(view'.shown, p)[n]
  /\ view'.page = view.page /\ view'.node = view.node
  /\ view'.loading => view.loading


(* Numbers of records, and what a page knows of them.                      *)
LEMMA RecordsNumbers ==
  ASSUME NEW f \in Records, NEW n \in Node
  PROVE  f[n] \in Nat /\ f[n] <= MaxRecords /\ MaxRecords \in Nat
<1>1. f[n] \in 0 .. MaxRecords /\ MaxRecords \in Nat
  BY PagesAssumption DEF Records
<1> QED BY <1>1

LEMMA ZeroType == Zero \in Records /\ \A n \in Node : Zero[n] = 0
  BY PagesAssumption DEF Zero, Records

LEMMA ShownType ==
  ASSUME NEW shown \in [Part -> Seen], NEW p \in Part
  PROVE  ShownIn(shown, p) \in Records
<1>1. shown[p] \in Seen
  OBVIOUS
<1> QED BY <1>1, ZeroType DEF Seen, ShownIn

LEMMA ShownNumbers ==
  ASSUME NEW shown \in [Part -> Seen], NEW p \in Part, NEW n \in Node
  PROVE  ShownIn(shown, p)[n] \in Nat /\ ShownIn(shown, p)[n] <= MaxRecords
  BY ShownType, RecordsNumbers

LEMMA GotNumbers ==
  ASSUME NEW l \in LoadState, NEW p \in Part, Got(l, p)
  PROVE  l.got[p] \in Records /\ \A n \in Node : l.got[p][n] \in Nat
<1>1. l.got[p] \in Seen
  BY DEF LoadState
<1>2. l.got[p] \in Records
  BY <1>1 DEF Seen, Got
<1> QED BY <1>2, RecordsNumbers

LEMMA PartsTogether ==
  ASSUME NEW l \in Loader \cup {"none"}, "list" \in PartsOf(l)
  PROVE  "histories" \in PartsOf(l)
  BY DEF PartsOf, Loader

LEMMA PartsAreParts ==
  ASSUME NEW l \in Loader
  PROVE  PartsOf(l) \subseteq Part
  BY DEF PartsOf, Loader, Part

(* The loads of one page have no parts in common.                          *)
LEMMA PartsApart ==
  ASSUME NEW on, NEW k \in LoadersOf(on), NEW l \in LoadersOf(on), k # l
  PROVE  PartsOf(k) \cap PartsOf(l) = {}
<1>1. CASE on = "dashboard"
  <2>1. LoadersOf(on) = {"hook", "summary", "rounds", "table"}
    BY <1>1 DEF LoadersOf
  <2>2. \A m \in LoadersOf(on) : PartsOf(m) = {m}
    BY <2>1 DEF PartsOf
  <2> QED BY <2>2
<1>2. CASE on # "dashboard"
  BY <1>2 DEF LoadersOf
<1> QED BY <1>1, <1>2

(* A load that nothing has answered.                                       *)
LEMMA NothingGot ==
  ASSUME NEW l \in LoadState, NEW on, NEW shown, NEW recorded,
         l.loader \in LoadersOf(on) \cup {"none"}, \A p \in Part : ~Got(l, p)
  PROVE  LoadOK(l, on, shown, recorded)
<1>1. "list" \in Part
  BY DEF Part
<1> QED BY <1>1 DEF LoadOK, PartsFit, NotAhead, NotBehind

LEMMA NoLoadOK ==
  ASSUME NEW on, NEW shown, NEW recorded
  PROVE  LoadOK(NoLoad, on, shown, recorded) /\ NoLoad.loader = "none"
<1>1. NoLoad \in LoadState /\ NoLoad.loader = "none"
  BY DEF NoLoad, LoadState, Seen
<1>2. \A p \in Part : ~Got(NoLoad, p)
  BY DEF Got, NoLoad
<1> QED BY <1>1, <1>2, NothingGot

LEMMA StartedRecord ==
  ASSUME NEW loader, NEW first \in BOOLEAN, NEW l,
         l = [NoLoad EXCEPT !.loader = loader, !.first = first]
  PROVE  l = [loader |-> loader, first |-> first, got |-> NoLoad.got, overtaken |-> FALSE]
  BY DEF NoLoad

LEMMA StartedOK ==
  ASSUME NEW on, NEW shown, NEW recorded, NEW loader \in LoadersOf(on) \cap Loader,
         NEW first \in BOOLEAN, NEW l,
         l = [loader |-> loader, first |-> first, got |-> NoLoad.got, overtaken |-> FALSE]
  PROVE  LoadOK(l, on, shown, recorded) /\ l.loader = loader
<1> DEFINE got == NoLoad.got
<1>1. got \in [Part -> Seen] /\ \A p \in Part : got[p] = NoAnswer
  BY DEF NoLoad, Seen
<1> HIDE DEF got
<1>2. l = [loader |-> loader, first |-> first, got |-> got, overtaken |-> FALSE]
  BY DEF got
<1>3. l \in LoadState
  BY <1>1, <1>2 DEF LoadState
<1>4. l.loader = loader /\ l.got = got
  BY <1>2
<1>5. \A p \in Part : ~Got(l, p)
  BY <1>1, <1>4 DEF Got
<1> QED BY <1>3, <1>4, <1>5, NothingGot

(* A load that is overtaken has what it had.                               *)
LEMMA OvertakenOK ==
  ASSUME NEW l, NEW on, NEW shown, NEW recorded, LoadOK(l, on, shown, recorded), NEW after,
         NEW k, k = [l EXCEPT !.overtaken = TRUE]
  PROVE  LoadOK(k, on, after, recorded) /\ k.loader = l.loader
<1>1. k \in LoadState /\ k.loader = l.loader /\ k.got = l.got /\ k.overtaken
  BY DEF LoadOK, LoadState
<1>2. PartsFit(k) /\ NotAhead(k, recorded)
  BY <1>1 DEF LoadOK, PartsFit, NotAhead, Got
<1>3. NotBehind(k, after)
  BY <1>1 DEF NotBehind
<1> QED BY <1>1, <1>2, <1>3 DEF LoadOK

(* Other parts have come to be shown.                                      *)
LEMMA ApartOK ==
  ASSUME NEW l, NEW on, NEW shown, NEW recorded, LoadOK(l, on, shown, recorded), NEW after,
         \A p \in Part \cap PartsOf(l.loader) : after[p] = shown[p]
  PROVE  LoadOK(l, on, after, recorded)
<1>1. \A p \in Part \cap PartsOf(l.loader) : ShownIn(after, p) = ShownIn(shown, p)
  BY DEF ShownIn
<1>2. \A p \in Part : Got(l, p) => p \in PartsOf(l.loader)
  BY DEF LoadOK, PartsFit
<1>3. /\ "list" \in Part /\ "histories" \in Part
      /\ Got(l, "list") => "histories" \in PartsOf(l.loader)
  BY <1>2, PartsTogether DEF Part, LoadOK, LoadState
<1>4. NotBehind(l, after)
  BY <1>1, <1>2, <1>3 DEF LoadOK, NotBehind
<1> QED BY <1>4 DEF LoadOK

(* The server answers one more part.                                       *)
LEMMA AnsweredOK ==
  ASSUME NEW l, NEW on, NEW shown, NEW recorded, LoadOK(l, on, shown, recorded),
         NEW part \in Part, part \in PartsOf(l.loader),
         NEW answer \in Records, \A n \in Node : answer[n] <= recorded[n],
         ~l.overtaken => \A n \in Node : ShownIn(shown, part)[n] <= answer[n],
         part = "list" => \A n \in Node : ShownIn(shown, "histories")[n] > 0 => answer[n] > 0,
         NEW k, k = [l EXCEPT !.got[part] = answer]
  PROVE  LoadOK(k, on, shown, recorded) /\ k.loader = l.loader
<1> DEFINE got == [l.got EXCEPT ![part] = answer]
<1>1. l \in LoadState /\ got \in [Part -> Seen] /\ got[part] = answer
      /\ \A p \in Part : p # part => got[p] = l.got[p]
  BY DEF LoadOK, LoadState, Seen
<1>2. k = [l EXCEPT !.got = got]
  OBVIOUS
<1> HIDE DEF got
<1>3. k \in LoadState /\ k.loader = l.loader /\ k.got = got /\ k.overtaken = l.overtaken
  BY <1>1, <1>2 DEF LoadState
<1>4. PartsFit(k)
  BY <1>1, <1>3 DEF LoadOK, PartsFit, Got
<1>5. NotAhead(k, recorded)
  BY <1>1, <1>3 DEF LoadOK, NotAhead, Got
<1>6. NotBehind(k, shown)
  <2> SUFFICES ASSUME ~l.overtaken PROVE NotBehind(k, shown)
    BY <1>3 DEF NotBehind
  <2>1. ASSUME NEW p \in Part, Got(k, p), NEW n \in Node
        PROVE  ShownIn(shown, p)[n] <= k.got[p][n]
    BY <1>1, <1>3, <2>1 DEF LoadOK, NotBehind, Got
  <2>2. ASSUME Got(k, "list"), NEW n \in Node, ShownIn(shown, "histories")[n] > 0
        PROVE  k.got["list"][n] > 0
    <3>1. "list" \in Part
      BY DEF Part
    <3> QED BY <1>1, <1>3, <2>2, <3>1 DEF LoadOK, NotBehind, Got
  <2> QED BY <2>1, <2>2 DEF NotBehind
<1> QED BY <1>3, <1>4, <1>5, <1>6 DEF LoadOK

(* More is recorded.                                                       *)
LEMMA RecordedOK ==
  ASSUME NEW l, NEW on, NEW shown, NEW recorded \in Records, LoadOK(l, on, shown, recorded),
         NEW later \in Records, \A n \in Node : recorded[n] <= later[n]
  PROVE  LoadOK(l, on, shown, later)
<1>1. ASSUME NEW p \in Part, Got(l, p), NEW n \in Node
      PROVE  l.got[p][n] <= later[n]
  <2>1. l.got[p][n] \in Nat
    BY <1>1, GotNumbers DEF LoadOK
  <2>2. l.got[p][n] <= recorded[n]
    BY <1>1 DEF LoadOK, NotAhead
  <2>3. recorded[n] \in Nat /\ later[n] \in Nat
    BY RecordsNumbers
  <2> QED BY <2>1, <2>2, <2>3
<1> QED BY <1>1 DEF LoadOK, NotAhead

(***************************************************************************)
(* The steps of the node pages.                                            *)
(***************************************************************************)

LEMMA PagesTypes == PagesInv => PagesTypeOK
<1> SUFFICES ASSUME PagesInv PROVE PagesTypeOK
  OBVIOUS
<1>1. load \in [Slot -> LoadState]
  BY DEF PagesInv, LoadOK
<1> QED BY <1>1 DEF PagesInv, TableInv, PagesTypeOK, ViewState, LoadState

(* Steps that leave alone what is shown.                                   *)
LEMMA SameShown ==
  ASSUME PagesInv, view'.shown = view.shown, view'.page = view.page, view'.node = view.node,
         view'.loading => view.loading
  PROVE  Onward
<1>1. \A p \in Part, n \in Node : ShownIn(view.shown, p)[n] \in Nat
  BY ShownNumbers DEF PagesInv, ViewState
<1>2. \A p \in Part, n \in Node : ShownIn(view.shown, p)[n] <= ShownIn(view.shown, p)[n]
  BY <1>1
<1> QED BY <1>2 DEF Onward

LEMMA SameShownInv ==
  ASSUME PagesInv, TableInv', view' \in ViewState, UNCHANGED <<records, pushed>>,
         view'.shown = view.shown, view'.page = view.page,
         loadFaults' \in 0 .. MaxLoadFaults, load' = [s \in Slot |-> load'[s]],
         \A s \in Slot : LoadOK(load'[s], view.page, view.shown, records)
  PROVE  PagesInv'
  BY DEF PagesInv

LEMMA ClickedInv ==
  ASSUME PagesInv, UNCHANGED <<table, records, pushed, load, loadFaults>>,
         Act \/ UNCHANGED tableClicks,
         view' \in ViewState, view'.shown = view.shown, view'.page = view.page,
         view'.node = view.node, view'.loading = view.loading
  PROVE  PagesInv' /\ Onward
<1>1. tableClicks' \in 0 .. MaxTableClicks
  BY Acts DEF PagesInv, TableInv, TableTypeOK
<1>2. TableInv'
  BY <1>1 DEF PagesInv, TableInv, TableTypeOK, RowsRanked, PageFits, NodesIn
<1>3. PagesInv'
  BY <1>2, SameShownInv DEF PagesInv
<1> QED BY <1>3, SameShown

LEMMA SetTimeRangeInv ==
  ASSUME PagesInv, NEW r \in TimeRange, SetTimeRange(r)
  PROVE  PagesInv' /\ Onward
<1>1. view' = [view EXCEPT !.range = r] /\ view \in ViewState
  BY DEF SetTimeRange, PagesInv
<1>2. /\ view' \in ViewState /\ view'.shown = view.shown /\ view'.page = view.page
      /\ view'.node = view.node /\ view'.loading = view.loading
  BY <1>1 DEF ViewState
<1> QED BY <1>2, ClickedInv DEF SetTimeRange

LEMMA SelectNodeInv ==
  ASSUME PagesInv, NEW n \in Node, SelectNode(n)
  PROVE  PagesInv' /\ Onward
<1> DEFINE picked == IF n \in view.picked THEN view.picked \ {n} ELSE view.picked \cup {n}
<1>1. view' = [view EXCEPT !.picked = picked] /\ view \in ViewState
  BY DEF SelectNode, PagesInv, ViewState
<1>2. picked \in SUBSET Node
  BY <1>1 DEF ViewState
<1> HIDE DEF picked
<1>3. /\ view' \in ViewState /\ view'.shown = view.shown /\ view'.page = view.page
      /\ view'.node = view.node /\ view'.loading = view.loading
  BY <1>1, <1>2 DEF ViewState
<1> QED BY <1>3, ClickedInv DEF SelectNode

LEMMA InTableInv ==
  ASSUME PagesInv, InTable
  PROVE  PagesInv' /\ Onward /\ KeepsSelection
<1>1. TableInv' /\ KeepsSelection
  BY TableClickInv DEF PagesInv, InTable
<1>2. PagesInv'
  BY <1>1 DEF PagesInv, InTable
<1> QED BY <1>1, <1>2, SameShown DEF InTable

(* Steps of one load.                                                      *)
LEMMA OneLoadInv ==
  ASSUME PagesInv, NEW s \in Slot, NEW l, LoadOK(l, view.page, view.shown, records),
         load' = [load EXCEPT ![s] = l], UNCHANGED <<tableVars, records, pushed>>,
         view' \in ViewState, view'.shown = view.shown, view'.page = view.page,
         view'.node = view.node, view'.loading => view.loading,
         loadFaults' \in 0 .. MaxLoadFaults
  PROVE  PagesInv' /\ Onward
<1>1. load' = [r \in Slot |-> IF r = s THEN l ELSE load[r]]
  BY DEF PagesInv
<1>2. /\ load' = [r \in Slot |-> load'[r]]
      /\ \A r \in Slot : LoadOK(load'[r], view.page, view.shown, records)
  BY <1>1 DEF PagesInv
<1>3. TableInv'
  BY DEF PagesInv, TableInv, TableTypeOK, RowsRanked, PageFits, NodesIn, tableVars
<1> QED BY <1>2, <1>3, SameShown, SameShownInv

LEMMA LoadStartsInv ==
  ASSUME PagesInv, NEW loader \in Loader, NEW s \in Slot, LoadStarts(loader, s)
  PROVE  PagesInv' /\ Onward
<1> DEFINE first == loader \notin view.begun
           l == [NoLoad EXCEPT !.loader = loader, !.first = first]
<1>1. /\ load' = [load EXCEPT ![s] = l] /\ loader \in LoadersOf(view.page)
      /\ view' = [view EXCEPT !.begun = @ \cup {loader}] /\ view \in ViewState
      /\ UNCHANGED <<tableVars, records, pushed, loadFaults>>
  BY DEF LoadStarts, Due, PagesInv
<1>2. first \in BOOLEAN
  OBVIOUS
<1> HIDE DEF first
<1>3. l = [loader |-> loader, first |-> first, got |-> NoLoad.got, overtaken |-> FALSE]
  BY <1>2, StartedRecord
<1> HIDE DEF l
<1>4. LoadOK(l, view.page, view.shown, records)
  BY <1>1, <1>2, <1>3, StartedOK
<1>5. /\ view' \in ViewState /\ view'.shown = view.shown /\ view'.page = view.page
      /\ view'.node = view.node /\ view'.loading = view.loading
  BY <1>1 DEF ViewState
<1>6. loadFaults' \in 0 .. MaxLoadFaults
  BY <1>1 DEF PagesInv
<1> QED BY <1>1, <1>4, <1>5, <1>6, OneLoadInv

LEMMA LoadFailsInv ==
  ASSUME PagesInv, NEW s \in Slot, LoadFails(s)
  PROVE  PagesInv' /\ Onward
<1> DEFINE loading == view.loading /\ ~EndsLoading(load[s])
<1>1. /\ load' = [load EXCEPT ![s] = NoLoad] /\ UNCHANGED <<tableVars, records, pushed>>
      /\ view' = [view EXCEPT !.loading = loading] /\ view \in ViewState
  BY DEF LoadFails, PagesInv, ViewState
<1>2. loading \in BOOLEAN /\ (loading => view.loading)
  OBVIOUS
<1> HIDE DEF loading
<1>3. /\ view' \in ViewState /\ view'.shown = view.shown /\ view'.page = view.page
      /\ view'.node = view.node /\ view'.loading = loading
  BY <1>1, <1>2 DEF ViewState
<1>4. loadFaults' \in 0 .. MaxLoadFaults
  BY PagesAssumption DEF PagesInv, LoadFails
<1>5. LoadOK(NoLoad, view.page, view.shown, records)
  BY NoLoadOK
<1> QED BY <1>1, <1>2, <1>3, <1>4, <1>5, OneLoadInv

(* What the server knows is not behind what is shown, and the histories    *)
(* it gives are those of the nodes in the list.                            *)
LEMMA ServedInv ==
  ASSUME PagesInv, NEW s \in Slot, NEW part \in Part, Served(s, part)
  PROVE  PagesInv' /\ Onward
<1> DEFINE l == load[s]
           answer == IF part = "histories"
                     THEN [n \in Node |-> IF l.got["list"][n] > 0 THEN records[n] ELSE 0]
                     ELSE records
           k == [l EXCEPT !.got[part] = answer]
<1>1. LoadOK(l, view.page, view.shown, records) /\ records \in Records /\ view \in ViewState
  BY DEF PagesInv
<1>2. /\ load' = [load EXCEPT ![s].got[part] = answer]
      /\ part \in PartsOf(l.loader)
      /\ part = "histories" => Got(l, "list")
      /\ UNCHANGED <<tableVars, records, pushed, view, loadFaults>>
  BY DEF Served, Got
<1>3. load' = [load EXCEPT ![s] = k]
  BY <1>2
<1>4. answer \in Records /\ \A n \in Node : answer[n] <= records[n]
  <2>1. \A n \in Node : /\ records[n] \in Nat /\ records[n] \in 0 .. MaxRecords
                        /\ 0 \in 0 .. MaxRecords
    BY <1>1, RecordsNumbers, PagesAssumption DEF Records
  <2>2. CASE part = "histories"
    <3> DEFINE f == [n \in Node |-> IF l.got["list"][n] > 0 THEN records[n] ELSE 0]
    <3>1. f \in Records /\ \A n \in Node : f[n] <= records[n]
      BY <2>1 DEF Records
    <3> QED BY <2>2, <3>1
  <2>3. CASE part # "histories"
    BY <1>1, <2>1, <2>3
  <2> QED BY <2>2, <2>3
<1>5. ASSUME ~l.overtaken, NEW n \in Node
      PROVE  ShownIn(view.shown, part)[n] <= answer[n]
  <2>1. /\ ShownIn(view.shown, part)[n] <= records[n]
        /\ ShownIn(view.shown, part)[n] \in Nat
    BY <1>1, ShownNumbers DEF PagesInv, ShownRecorded, ViewState
  <2>2. CASE part = "histories" /\ ~(l.got["list"][n] > 0)
    <3>1. ~(ShownIn(view.shown, "histories")[n] > 0)
      BY <1>1, <1>2, <1>5, <2>2 DEF LoadOK, NotBehind
    <3>2. answer[n] = 0
      BY <2>2
    <3> QED BY <2>1, <2>2, <3>1, <3>2
  <2>3. CASE ~(part = "histories" /\ ~(l.got["list"][n] > 0))
    BY <2>1, <2>3
  <2> QED BY <2>2, <2>3
<1>6. ASSUME part = "list", NEW n \in Node, ShownIn(view.shown, "histories")[n] > 0
      PROVE  answer[n] > 0
  <2>1. "histories" \in Part
    BY DEF Part
  <2>2. /\ ShownIn(view.shown, "histories")[n] <= records[n]
        /\ ShownIn(view.shown, "histories")[n] \in Nat /\ records[n] \in Nat
    BY <1>1, <2>1, ShownNumbers, RecordsNumbers DEF PagesInv, ShownRecorded, ViewState
  <2>3. answer[n] = records[n]
    BY <1>6
  <2> QED BY <1>6, <2>2, <2>3
<1>7. LoadOK(k, view.page, view.shown, records)
  <2>1. \A n \in Node : answer[n] <= records[n]
    BY <1>4
  <2>2. answer \in Records
    BY <1>4
  <2>3. k = [l EXCEPT !.got[part] = answer]
    OBVIOUS
  <2> HIDE DEF answer, k, l
  <2> QED BY <1>1, <1>2, <1>5, <1>6, <2>1, <2>2, <2>3, AnsweredOK
<1> HIDE DEF k
<1>8. loadFaults' \in 0 .. MaxLoadFaults /\ view' = view
  BY <1>2 DEF PagesInv
<1> QED BY <1>1, <1>2, <1>3, <1>7, <1>8, OneLoadInv

(* Other loads of what has come to be shown are overtaken; the others are  *)
(* about other parts.                                                      *)
LEMMA OvertakingOK ==
  ASSUME PagesInv, NEW loader, NEW after,
         \A p \in Part : after[p] # view.shown[p] =>
           \A k \in LoadersOf(view.page) : p \in PartsOf(k) => k = loader,
         NEW r \in Slot, NEW l,
         l = IF load[r].loader = loader THEN [load[r] EXCEPT !.overtaken = TRUE] ELSE load[r]
  PROVE  LoadOK(l, view.page, after, records)
<1>1. LoadOK(load[r], view.page, view.shown, records)
  BY DEF PagesInv
<1>2. CASE load[r].loader = loader
  BY <1>1, <1>2, OvertakenOK
<1>3. CASE load[r].loader # loader
  <2>1. ASSUME NEW p \in Part \cap PartsOf(load[r].loader) PROVE after[p] = view.shown[p]
    <3>1. load[r].loader # "none"
      BY <2>1 DEF PartsOf, Part
    <3>2. load[r].loader \in LoadersOf(view.page)
      BY <1>1, <3>1 DEF LoadOK
    <3> QED BY <1>3, <3>2
  <2> QED BY <1>1, <1>3, <2>1, ApartOK
<1> QED BY <1>2, <1>3

(* A push: newer of one node, or older.                                    *)
LEMMA PushedInv ==
  ASSUME PagesInv, NEW part \in Part, NEW loader, NEW n \in Node, NEW r \in Nat, r <= records[n],
         \A k \in LoadersOf(view.page) : part \in PartsOf(k) => k = loader,
         NEW f, f = [ShownIn(view.shown, part) EXCEPT ![n] = r],
         view' = [view EXCEPT !.shown[part] = f],
         load' = [s \in Slot |-> IF load[s].loader = loader THEN [load[s] EXCEPT !.overtaken = TRUE]
                                                            ELSE load[s]],
         pushed' \in Records, UNCHANGED <<tableVars, records, loadFaults>>
  PROVE  PagesInv'
<1> DEFINE after == [view.shown EXCEPT ![part] = f]
<1>1. view \in ViewState /\ records \in Records
  BY DEF PagesInv
<1>2. f \in Records /\ \A m \in Node : f[m] <= records[m]
  <2>1. ShownIn(view.shown, part) \in Records
    BY <1>1, ShownType DEF ViewState
  <2>2. r \in 0 .. MaxRecords
    BY <1>1, RecordsNumbers
  <2>3. \A m \in Node : ShownIn(view.shown, part)[m] <= records[m]
    BY DEF PagesInv, ShownRecorded
  <2> HIDE DEF after
  <2> QED BY <2>1, <2>2, <2>3 DEF Records
<1>3. /\ after \in [Part -> Seen] /\ after[part] = f
      /\ \A p \in Part : p # part => after[p] = view.shown[p]
  BY <1>1, <1>2 DEF ViewState, Seen
<1>4. view' = [view EXCEPT !.shown = after]
  OBVIOUS
<1> HIDE DEF after
<1>5. view' \in ViewState /\ view'.shown = after /\ view'.page = view.page
  BY <1>1, <1>3, <1>4 DEF ViewState
<1>6. ShownRecorded(after, records)
  <2>1. ASSUME NEW p \in Part, NEW m \in Node PROVE ShownIn(after, p)[m] <= records[m]
    <3>1. CASE p = part
      <4>1. ShownIn(after, p) \in {f, Zero}
        BY <1>3, <3>1 DEF ShownIn
      <4>2. Zero[m] <= records[m] /\ f[m] <= records[m]
        BY <1>1, <1>2, ZeroType, RecordsNumbers
      <4> QED BY <4>1, <4>2
    <3>2. CASE p # part
      BY <1>3, <3>2 DEF ShownIn, PagesInv, ShownRecorded
    <3> QED BY <3>1, <3>2
  <2> QED BY <2>1 DEF ShownRecorded
<1>7. \A p \in Part : after[p] # view.shown[p] =>
        \A k \in LoadersOf(view.page) : p \in PartsOf(k) => k = loader
  BY <1>3
<1>8. ASSUME NEW s \in Slot PROVE LoadOK(load'[s], view.page, after, records)
  <2>1. load'[s] = IF load[s].loader = loader THEN [load[s] EXCEPT !.overtaken = TRUE] ELSE load[s]
    OBVIOUS
  <2> QED BY <1>7, <2>1, OvertakingOK
<1>9. load' = [s \in Slot |-> load'[s]]
  OBVIOUS
<1>10. TableInv' /\ loadFaults' \in 0 .. MaxLoadFaults
  BY DEF PagesInv, TableInv, TableTypeOK, RowsRanked, PageFits, NodesIn, tableVars
<1> QED BY <1>1, <1>5, <1>6, <1>8, <1>9, <1>10 DEF PagesInv

LEMMA NextPushed ==
  ASSUME PagesInv, NEW n \in Node, NEW r \in pushed[n] + 1 .. records[n],
         pushed' = [pushed EXCEPT ![n] = r]
  PROVE  r \in Nat /\ r <= records[n] /\ pushed' \in Records /\ LateArrives
<1>1. pushed \in Records /\ records[n] \in Nat /\ records[n] <= MaxRecords /\ pushed[n] \in Nat
  BY RecordsNumbers DEF PagesInv
<1>2. r \in 0 .. MaxRecords /\ r \in Nat /\ r <= records[n] /\ r # pushed[n]
  <2>1. r \in Int /\ r >= pushed[n] + 1 /\ r <= records[n]
    BY <1>1
  <2>2. MaxRecords \in Nat
    BY PagesAssumption
  <2> QED BY <1>1, <2>1, <2>2
<1>3. pushed' \in Records /\ pushed'[n] = r
  BY <1>1, <1>2 DEF Records
<1> QED BY <1>2, <1>3 DEF LateArrives

(* A push to the hook, and one to the gossip page.                         *)
LEMMA PushArrivesInv ==
  ASSUME PagesInv, NEW n \in Node, PushArrives(n)
  PROVE  PagesInv' /\ LateArrives
<1>1. PICK r \in pushed[n] + 1 .. records[n] :
        /\ pushed' = [pushed EXCEPT ![n] = r]
        /\ view' = [view EXCEPT !.shown["hook"] = [Shown("hook") EXCEPT ![n] = r]]
  BY DEF PushArrives
<1>2. r \in Nat /\ r <= records[n] /\ pushed' \in Records /\ LateArrives
  BY <1>1, NextPushed
<1>3. Shown("hook") = ShownIn(view.shown, "hook")
  BY DEF Shown, ShownIn
<1>4. "hook" \in Part /\ \A k \in LoadersOf(view.page) : "hook" \in PartsOf(k) => k = "hook"
  BY DEF Part, PartsOf
<1>5. load' = [s \in Slot |-> IF load[s].loader = "hook" THEN [load[s] EXCEPT !.overtaken = TRUE]
                                                         ELSE load[s]]
      /\ UNCHANGED <<tableVars, records, loadFaults>>
  BY DEF PushArrives
<1>6. PagesInv'
  BY <1>1, <1>2, <1>3, <1>4, <1>5, PushedInv
<1> QED BY <1>2, <1>6

LEMMA EmptyDomain == DOMAIN <<>> = {}
  OBVIOUS

LEMMA LivePushInv ==
  ASSUME PagesInv, NEW n \in Node, HandleLive(n)
  PROVE  PagesInv' /\ Onward
<1>1. PICK r \in 1 .. records[n] :
        /\ pushed' = [pushed EXCEPT ![n] = IF r > @ THEN r ELSE @]
        /\ view' = [view EXCEPT !.shown["histories"] =
                      [Shown("histories") EXCEPT ![n] = IF r > @ THEN r ELSE @]]
  BY DEF HandleLive
<1>2. r \in Nat /\ r <= records[n] /\ pushed' \in Records
  <2>1. pushed \in Records /\ records[n] \in Nat /\ records[n] <= MaxRecords
    BY RecordsNumbers DEF PagesInv
  <2>2. r \in 0 .. MaxRecords /\ r \in Nat /\ r <= records[n]
    BY <2>1, PagesAssumption
  <2> QED BY <1>1, <2>1, <2>2 DEF Records
<1> DEFINE h == ShownIn(view.shown, "histories")
           m == IF r > h[n] THEN r ELSE h[n]
           f == [h EXCEPT ![n] = m]
<1>3. /\ "histories" \in Part /\ h \in Records /\ view \in ViewState
      /\ h[n] \in Nat /\ h[n] <= records[n] /\ \A k \in Node : h[k] \in Nat
  <2>1. "histories" \in Part
    BY DEF Part
  <2> QED BY <2>1, ShownType, ShownNumbers DEF PagesInv, ViewState, ShownRecorded
<1>4. Shown("histories") = h
  BY DEF Shown, ShownIn
<1>5. view' = [view EXCEPT !.shown["histories"] = f]
  BY <1>1, <1>3, <1>4 DEF Records
<1>6. m \in Nat /\ m <= records[n] /\ h[n] <= m
  BY <1>2, <1>3
<1>7. view.page = "gossip"
      /\ \A k \in LoadersOf(view.page) : "histories" \in PartsOf(k) => k = "gossip"
  BY DEF HandleLive, LoadersOf
<1>8. load' = [s \in Slot |-> IF load[s].loader = "gossip" THEN [load[s] EXCEPT !.overtaken = TRUE]
                                                           ELSE load[s]]
      /\ UNCHANGED <<tableVars, records, loadFaults>>
  BY DEF HandleLive
<1> HIDE DEF m
<1>9. PagesInv'
  BY <1>2, <1>3, <1>5, <1>6, <1>7, <1>8, PushedInv
<1>10. f \in Records /\ \A k \in Node : h[k] <= f[k]
  <2>1. m \in 0 .. MaxRecords
    BY <1>3, <1>6, RecordsNumbers DEF PagesInv
  <2>2. f \in Records /\ f[n] = m /\ \A k \in Node : k # n => f[k] = h[k]
    BY <1>3, <2>1 DEF Records
  <2> QED BY <1>3, <1>6, <2>2
<1> HIDE DEF f
<1>11. /\ \A p \in Part : p # "histories" => view'.shown[p] = view.shown[p]
       /\ view'.shown["histories"] = f
       /\ view'.page = view.page /\ view'.node = view.node /\ view'.loading = view.loading
  BY <1>3, <1>5 DEF ViewState
<1>12. ASSUME NEW p \in Part, NEW k \in Node
       PROVE  ShownIn(view.shown, p)[k] <= ShownIn(view'.shown, p)[k]
  <2>1. CASE p = "histories"
    <3>1. f # NoAnswer
      BY <1>10, EmptyDomain DEF Records, NoAnswer
    <3>2. ShownIn(view'.shown, p) = f
      BY <1>11, <2>1, <3>1 DEF ShownIn
    <3> QED BY <1>10, <2>1, <3>2
  <2>2. CASE p # "histories"
    <3>1. ShownIn(view'.shown, p) = ShownIn(view.shown, p)
      BY <1>11, <2>2 DEF ShownIn
    <3>2. ShownIn(view.shown, p)[k] \in Nat
      BY <1>3, ShownNumbers DEF ViewState
    <3> QED BY <3>1, <3>2
  <2> QED BY <2>1, <2>2
<1> QED BY <1>9, <1>11, <1>12 DEF Onward

(* The skeleton does not come back.                                        *)
LEMMA LoadingGoes ==
  ASSUME PagesInv,
         \/ \E n \in Node : PushArrives(n) \/ SelectNode(n)
         \/ \E loader, s : LoadStarts(loader, s)
         \/ \E s : LoadArrives(s) \/ LoadFails(s) \/ \E part : Served(s, part)
         \/ \E r : SetTimeRange(r)
         \/ InTable
  PROVE  view'.loading => view.loading
<1>1. view \in ViewState
  BY DEF PagesInv
<1>2. CASE \E n \in Node : PushArrives(n) \/ SelectNode(n)
  BY <1>1, <1>2 DEF PushArrives, SelectNode, ViewState
<1>3. CASE \E loader, s : LoadStarts(loader, s)
  BY <1>1, <1>3 DEF LoadStarts, ViewState
<1>4. CASE \E s : LoadArrives(s)
  BY <1>1, <1>4 DEF LoadArrives, ViewState
<1>5. CASE \E s : LoadFails(s)
  BY <1>1, <1>5 DEF LoadFails, ViewState
<1>6. CASE \E s, part : Served(s, part)
  BY <1>6 DEF Served
<1>7. CASE (\E r : SetTimeRange(r)) \/ InTable
  BY <1>1, <1>7 DEF SetTimeRange, InTable, ViewState
<1> QED BY <1>2, <1>3, <1>4, <1>5, <1>6, <1>7

(* All the answers of a load are shown.  If nothing has overtaken them,    *)
(* then no less is shown than before.                                      *)
LEMMA LoadArrivesInv ==
  ASSUME PagesInv, NEW s \in Slot, LoadArrives(s)
  PROVE  PagesInv' /\ KeepsSelection /\ (Onward \/ LateArrives) /\ load'[s] = NoLoad
<1> DEFINE l == load[s]
           after == [p \in Part |-> IF p \in PartsOf(l.loader) THEN l.got[p] ELSE view.shown[p]]
           loading == view.loading /\ ~EndsLoading(l)
           picked == IF l.loader = "metrics" THEN {n \in Node : l.got["histories"][n] > 0}
                                             ELSE view.picked
<1>1. /\ view \in ViewState /\ records \in Records
      /\ LoadOK(l, view.page, view.shown, records) /\ l \in LoadState
  BY DEF PagesInv, LoadOK
<1>2. /\ l.loader \in LoadersOf(view.page) /\ l.loader # "none"
      /\ \A p \in PartsOf(l.loader) : Got(l, p)
      /\ view' = [view EXCEPT !.shown = after, !.loading = loading, !.picked = picked]
  BY <1>1 DEF LoadArrives, LoadOK, Got, ViewState
<1>3. after \in [Part -> Seen] /\ loading \in BOOLEAN /\ picked \in SUBSET Node
  BY <1>1 DEF LoadState, ViewState
<1>4. loading => view.loading
  OBVIOUS
<1>5. \A p \in Part : after[p] = IF p \in PartsOf(l.loader) THEN l.got[p] ELSE view.shown[p]
  OBVIOUS
<1>6. load' = Overtaken(s) /\ UNCHANGED <<records, pushed, loadFaults>>
  BY DEF LoadArrives
<1> HIDE DEF after, loading, picked, l
<1>7. /\ view' \in ViewState /\ view'.shown = after /\ view'.page = view.page
      /\ view'.node = view.node /\ view'.loading = loading
  <2> DEFINE u == [view EXCEPT !.shown = after]
             v == [u EXCEPT !.loading = loading]
  <2>1. view' = [v EXCEPT !.picked = picked]
    BY <1>1, <1>2 DEF ViewState
  <2>2. u \in ViewState /\ u.shown = after /\ u.page = view.page /\ u.node = view.node
    BY <1>1, <1>3 DEF ViewState
  <2> HIDE DEF u
  <2>3. /\ v \in ViewState /\ v.shown = after /\ v.page = view.page
        /\ v.node = view.node /\ v.loading = loading
    BY <1>3, <2>2 DEF ViewState
  <2> HIDE DEF v
  <2> QED BY <1>3, <2>1, <2>3 DEF ViewState
<1>8. ASSUME NEW p \in Part
      PROVE  /\ ShownIn(after, p) \in {l.got[p], ShownIn(view.shown, p)}
             /\ p \in PartsOf(l.loader) => ShownIn(after, p) = l.got[p]
             /\ p \notin PartsOf(l.loader) => ShownIn(after, p) = ShownIn(view.shown, p)
  BY <1>2, <1>5 DEF ShownIn, Got
<1>9. ShownRecorded(after, records)
  <2>1. ASSUME NEW p \in Part, NEW n \in Node PROVE ShownIn(after, p)[n] <= records[n]
    <3>1. CASE p \in PartsOf(l.loader)
      BY <1>1, <1>2, <1>8, <3>1 DEF LoadOK, NotAhead
    <3>2. CASE p \notin PartsOf(l.loader)
      BY <1>8, <3>2 DEF PagesInv, ShownRecorded
    <3> QED BY <3>1, <3>2
  <2> QED BY <2>1 DEF ShownRecorded
<1>10. load'[s] = NoLoad /\ load' = [r \in Slot |-> load'[r]]
  BY <1>6 DEF Overtaken
<1>11. ASSUME NEW r \in Slot PROVE LoadOK(load'[r], view.page, after, records)
  <2>1. CASE r = s
    BY <1>10, <2>1, NoLoadOK
  <2>2. CASE r # s
    <3>1. load'[r] = IF load[r].loader = l.loader THEN [load[r] EXCEPT !.overtaken = TRUE]
                                                  ELSE load[r]
      BY <1>6, <2>2 DEF Overtaken, l
    <3>2. \A p \in Part : after[p] # view.shown[p] =>
            \A k \in LoadersOf(view.page) : p \in PartsOf(k) => k = l.loader
      BY <1>2, <1>5, PartsApart
    <3> QED BY <3>1, <3>2, OvertakingOK
  <2> QED BY <2>1, <2>2
<1>12. TableInv' /\ KeepsSelection
  <2>1. CASE l.loader = "table"
    <3> DEFINE nodes == {n \in Node : l.got["table"][n] > 0}
    <3>1. TableGets(nodes) /\ UNCHANGED tableClicks /\ nodes \in SUBSET Node
      BY <2>1 DEF LoadArrives, l
    <3> QED BY <3>1, TableGetsInv DEF PagesInv
  <2>2. CASE l.loader # "table"
    <3>1. UNCHANGED tableVars
      BY <2>2 DEF LoadArrives, l
    <3> QED BY <3>1 DEF PagesInv, TableInv, TableTypeOK, RowsRanked, PageFits, NodesIn, tableVars,
                        KeepsSelection
  <2> QED BY <2>1, <2>2
<1>13. PagesInv'
  BY <1>6, <1>7, <1>9, <1>10, <1>11, <1>12 DEF PagesInv
<1>14. ASSUME l.overtaken PROVE LateArrives
  BY <1>10, <1>14 DEF LateArrives, l
<1>15. ASSUME ~l.overtaken PROVE Onward
  <2>1. ASSUME NEW p \in Part, NEW n \in Node
        PROVE  ShownIn(view.shown, p)[n] <= ShownIn(after, p)[n]
    <3>1. CASE p \in PartsOf(l.loader)
      BY <1>1, <1>2, <1>8, <1>15, <3>1 DEF LoadOK, NotBehind
    <3>2. CASE p \notin PartsOf(l.loader)
      <4>1. ShownIn(view.shown, p)[n] \in Nat
        BY <1>1, ShownNumbers DEF ViewState
      <4> QED BY <1>8, <3>2, <4>1
    <3> QED BY <3>1, <3>2
  <2> QED BY <1>4, <1>7, <2>1 DEF Onward
<1> QED BY <1>10, <1>12, <1>13, <1>14, <1>15

(* The least of some numbers.                                              *)
LEMMA LeastNumber ==
  ASSUME NEW B, B \subseteq Nat, B # {}
  PROVE  \E m \in B : \A k \in B : m <= k
<1> DEFINE R == {p \in Nat \X Nat : p[1] < p[2]}
<1>1. IsWellFoundedOn(R, Nat)
  BY NatLessThanWellFounded, Zenon DEF OpToRel
<1> HIDE DEF R
<1>2. PICK m \in B : \A k \in B : <<k, m>> \notin R
  BY <1>1, WFMin
<1>3. ASSUME NEW k \in B PROVE m <= k
  <2>1. ~ k < m
    BY <1>2 DEF R
  <2>2. k \in Nat /\ m \in Nat
    OBVIOUS
  <2> QED BY <2>1, <2>2
<1> QED BY <1>3


(* Fewer than the bound are recorded of all nodes, and so of each.         *)
LEMMA RecordsBelow ==
  ASSUME records \in Records, NEW n \in Node, Cardinality(Recorded) < MaxRecords
  PROVE  records[n] < MaxRecords
<1> SUFFICES ASSUME records[n] >= MaxRecords PROVE FALSE
  BY RecordsNumbers
<1> DEFINE all == 1 .. MaxRecords
           mine == {<<n, k>> : k \in all}
           f == [k \in all |-> <<n, k>>]
<1>1. MaxRecords \in Nat /\ records[n] \in Nat
  BY RecordsNumbers
<1>2. IsFiniteSet(all) /\ Cardinality(all) = MaxRecords
  BY <1>1, FS_Interval
<1>3. f \in Bijection(all, mine)
  <2>1. f \in [all -> mine]
    OBVIOUS
  <2>2. \A j, k \in all : f[j] = f[k] => j = k
    OBVIOUS
  <2>3. \A m \in mine : \E k \in all : f[k] = m
    OBVIOUS
  <2> QED BY <2>1, <2>2, <2>3 DEF Bijection, Injection, Surjection, IsInjective
<1>4. Cardinality(mine) = MaxRecords
  <2> HIDE DEF all, mine, f
  <2>1. ExistsBijection(all, mine)
    BY <1>3 DEF ExistsBijection
  <2> QED BY <1>2, <2>1, FS_Bijection
<1>5. mine \subseteq Recorded
  BY <1>1 DEF Recorded
<1>6. IsFiniteSet(Recorded)
  <2>1. IsFiniteSet(Node)
    BY NodesFinite
  <2>2. IsFiniteSet(Node \X all)
    BY <1>2, <2>1, FS_Product
  <2> QED BY <2>2, FS_Subset DEF Recorded
<1>7. Cardinality(mine) <= Cardinality(Recorded) /\ Cardinality(Recorded) \in Nat
  BY <1>5, <1>6, FS_Subset, FS_CardinalityType
<1> QED BY <1>1, <1>4, <1>7

(* A node records more, of which no page knows yet.                        *)
LEMMA NodeRecordsInv ==
  ASSUME PagesInv, NEW n \in Node, NodeRecords(n)
  PROVE  PagesInv' /\ Onward
<1>1. /\ records \in Records /\ records' = [records EXCEPT ![n] = @ + 1]
      /\ UNCHANGED <<tableVars, pushed, view, load, loadFaults>>
  BY DEF PagesInv, NodeRecords
<1>2. records[n] < MaxRecords
  BY <1>1, RecordsBelow DEF NodeRecords
<1>3. records' \in Records /\ \A m \in Node : records[m] <= records'[m]
  <2>1. \A m \in Node : records[m] \in Nat /\ records[m] \in 0 .. MaxRecords
    BY <1>1, RecordsNumbers DEF Records
  <2>2. records[n] + 1 \in 0 .. MaxRecords /\ records[n] <= records[n] + 1
    BY <1>2, <2>1, PagesAssumption
  <2>3. records' \in Records
    BY <1>1, <2>2 DEF Records
  <2>4. ASSUME NEW m \in Node PROVE records[m] <= records'[m]
    <3>1. CASE m = n
      BY <1>1, <2>2, <3>1 DEF Records
    <3>2. CASE m # n
      BY <1>1, <2>1, <3>2 DEF Records
    <3> QED BY <3>1, <3>2
  <2> QED BY <2>3, <2>4
<1>4. ShownRecorded(view.shown, records')
  <2>1. ASSUME NEW p \in Part, NEW m \in Node PROVE ShownIn(view.shown, p)[m] <= records'[m]
    <3>1. ShownIn(view.shown, p)[m] <= records[m] /\ ShownIn(view.shown, p)[m] \in Nat
      BY ShownNumbers DEF PagesInv, ShownRecorded, ViewState
    <3>2. records[m] \in Nat /\ records'[m] \in Nat /\ records[m] <= records'[m]
      BY <1>1, <1>3, RecordsNumbers
    <3> QED BY <3>1, <3>2
  <2> QED BY <2>1 DEF ShownRecorded
<1>5. \A s \in Slot : LoadOK(load[s], view.page, view.shown, records')
  BY <1>1, <1>3, RecordedOK DEF PagesInv
<1>6. TableInv'
  BY <1>1 DEF PagesInv, TableInv, TableTypeOK, RowsRanked, PageFits, NodesIn, tableVars
<1>7. PagesInv'
  BY <1>1, <1>3, <1>4, <1>5, <1>6 DEF PagesInv
<1> QED BY <1>1, <1>7, SameShown

(* A page that has just been mounted.                                      *)
LEMMA MountedView ==
  ASSUME NEW on, NEW n \in Node, NEW range \in {"10", "all"}
  PROVE  LET v == Mounted(on, n, range)
         IN  /\ v \in ViewState /\ v.begun = {} /\ v.shown = [p \in Part |-> NoAnswer]
<1>1. range \in TimeRange
  BY PagesAssumption
<1>2. (IF on \in NodePage THEN on ELSE "other") \in NodePage \cup {"other"}
  OBVIOUS
<1>3. [p \in Part |-> NoAnswer] \in [Part -> Seen]
  BY DEF Seen
<1> QED BY <1>1, <1>2, <1>3 DEF Mounted, ViewState

(* A page that has just been mounted, with what the nodes have recorded.   *)
PageMounted ==
  /\ TableInv /\ records \in Records /\ pushed \in Records /\ loadFaults \in 0 .. MaxLoadFaults
  /\ \E on : \E n \in Node, range \in {"10", "all"} : view = Mounted(on, n, range)
  /\ load = NoLoads

LEMMA MountedPagesInv == PageMounted => PagesInv
<1> SUFFICES ASSUME PageMounted, NEW on, NEW n \in Node, NEW range \in {"10", "all"},
                    view = Mounted(on, n, range)
             PROVE  PagesInv
  BY DEF PageMounted
<1>0. /\ TableInv /\ records \in Records /\ pushed \in Records
      /\ loadFaults \in 0 .. MaxLoadFaults /\ load = NoLoads
  BY DEF PageMounted
<1>1. view \in ViewState /\ view.shown = [p \in Part |-> NoAnswer]
  BY MountedView
<1>2. ShownRecorded(view.shown, records)
  <2>1. ASSUME NEW p \in Part, NEW m \in Node PROVE ShownIn(view.shown, p)[m] <= records[m]
    <3>1. ShownIn(view.shown, p) = Zero
      BY <1>1 DEF ShownIn
    <3>2. Zero[m] = 0 /\ records[m] \in Nat
      BY <1>0, ZeroType, RecordsNumbers
    <3> QED BY <3>1, <3>2
  <2> QED BY <2>1 DEF ShownRecorded
<1>3. load = [s \in Slot |-> load[s]] /\ \A s \in Slot : load[s] = NoLoad
  BY <1>0 DEF NoLoads
<1>4. \A s \in Slot : LoadOK(load[s], view.page, view.shown, records)
  BY <1>3, NoLoadOK
<1> QED BY <1>0, <1>1, <1>2, <1>3, <1>4 DEF PagesInv

(* What Onward means for the properties.                                   *)

LEMMA KnownGrows ==
  ASSUME PagesInv, PagesInv', Onward, NEW p \in Part
  PROVE  Known(p) \subseteq Known(p)'
<1>1. \A n \in Node : Shown(p)[n] \in Nat /\ Shown(p)'[n] \in Nat /\ Shown(p)[n] <= Shown(p)'[n]
  <2> TAKE n \in Node
  <2>1. view.shown \in [Part -> Seen] /\ view'.shown \in [Part -> Seen]
    BY DEF PagesInv, ViewState
  <2>2. ShownIn(view.shown, p)[n] \in Nat /\ ShownIn(view'.shown, p)[n] \in Nat
    BY <2>1, ShownNumbers
  <2>3. Shown(p) = ShownIn(view.shown, p) /\ Shown(p)' = ShownIn(view'.shown, p)
    BY DEF Shown, ShownIn
  <2> QED BY <2>2, <2>3 DEF Onward
<1> QED BY <1>1 DEF Known

LEMMA OnwardKeeps ==
  ASSUME PagesInv, PagesInv', Onward
  PROVE  ~GoesBack
<1>1. ASSUME NEW p \in Part, NEW n \in Node PROVE ~(Shown(p)'[n] < Shown(p)[n])
  <2>1. view.shown \in [Part -> Seen] /\ view'.shown \in [Part -> Seen]
    BY DEF PagesInv, ViewState
  <2>2. ShownIn(view.shown, p)[n] \in Nat /\ ShownIn(view'.shown, p)[n] \in Nat
    BY <2>1, ShownNumbers
  <2>3. Shown(p) = ShownIn(view.shown, p) /\ Shown(p)' = ShownIn(view'.shown, p)
    BY DEF Shown, ShownIn
  <2> QED BY <2>2, <2>3 DEF Onward
<1>2. \A p \in Part : Known(p) # {} => Known(p)' # {}
  BY KnownGrows
<1>3. /\ {"hook", "summary", "rounds", "history", "histories", "stats", "report", "band"}
           \subseteq Part
      /\ view'.page = view.page /\ view'.node = view.node
      /\ view.loading \in BOOLEAN /\ view'.loading \in BOOLEAN /\ (view'.loading => view.loading)
  BY DEF Part, Onward, PagesInv, ViewState
<1>4. HasContent => HasContent'
  <2>1. CASE view.page = "dashboard"
    BY <1>2, <1>3, <2>1 DEF HasContent, CardsShow, ChartShows
  <2>2. CASE view.page = "nodes"
    BY <1>2, <1>3, <2>2 DEF HasContent, NodesShow
  <2>3. CASE view.page = "detail"
    <3>1. Known("history") \subseteq Known("history")'
      BY <1>3, KnownGrows
    <3> QED BY <1>3, <2>3, <3>1 DEF HasContent, DetailShows
  <2>4. CASE view.page = "metrics"
    BY <1>2, <1>3, <2>4 DEF HasContent, MetricsShow
  <2>5. CASE view.page = "convergence"
    BY <1>2, <1>3, <2>5 DEF HasContent, ConvergenceShows
  <2>6. CASE view.page \notin {"dashboard", "nodes", "detail", "metrics", "convergence"}
    BY <1>3, <2>6 DEF HasContent
  <2> QED BY <2>1, <2>2, <2>3, <2>4, <2>5, <2>6
<1> QED BY <1>1, <1>4 DEF GoesBack

LEMMA GraphKeeps ==
  ASSUME PagesInv, PagesInv', Onward, play.round \in Nat
  PROVE  ~GraphLoses
<1> SUFFICES ASSUME play'.round = play.round PROVE DrawnEdges \subseteq DrawnEdges'
  BY DEF GraphLoses
<1>1. ASSUME NEW n \in GraphNodes PROVE n \in GraphNodes'
  <2> DEFINE before == Shown("histories")[n]
             after == Shown("histories")'[n]
  <2>1. "histories" \in Part /\ n \in Node /\ before >= play.round /\ play.round > 0
    BY DEF Part, GraphNodes
  <2>2. before \in Nat /\ after \in Nat /\ before <= after
    <3>1. view.shown \in [Part -> Seen] /\ view'.shown \in [Part -> Seen]
      BY DEF PagesInv, ViewState
    <3>2. /\ ShownIn(view.shown, "histories")[n] \in Nat
          /\ ShownIn(view'.shown, "histories")[n] \in Nat
      BY <2>1, <3>1, ShownNumbers
    <3>3. /\ Shown("histories") = ShownIn(view.shown, "histories")
          /\ Shown("histories")' = ShownIn(view'.shown, "histories")
      BY DEF Shown, ShownIn
    <3> QED BY <2>1, <3>2, <3>3 DEF Onward
  <2> HIDE DEF before
  <2>3. after >= play.round
    BY <2>1, <2>2
  <2> QED BY <2>1, <2>3 DEF GraphNodes
<1> QED BY <1>1 DEF DrawnEdges, GraphEdges

(* The newest round of a history.                                          *)
LEMMA HighestType ==
  ASSUME NEW history \in Records
  PROVE  Highest(history) \in Played
<1> DEFINE above == {r \in Nat : \A n \in Node : history[n] <= r}
           top == CHOOSE r \in above : \A k \in above : r <= k
<1>1. MaxRecords \in above
  BY RecordsNumbers, PagesAssumption
<1>2. PICK r \in above : \A k \in above : r <= k
  BY <1>1, LeastNumber
<1>3. r \in Nat /\ r <= MaxRecords /\ \A n \in Node : history[n] <= r
  BY <1>1, <1>2
<1>4. ASSUME r # 0, \A n \in Node : history[n] # r PROVE FALSE
  <2>1. r - 1 \in Nat /\ r - 1 < r
    BY <1>3, <1>4
  <2>2. \A n \in Node : history[n] <= r - 1
    BY <1>3, <1>4, RecordsNumbers
  <2>3. r - 1 \in above
    BY <2>1, <2>2
  <2> QED BY <1>2, <1>3, <2>1, <2>3
<1>5. r \in Played
  BY <1>3, PagesAssumption DEF Played
<1> QED BY <1>3, <1>4, <1>5 DEF Highest

(* A step of a page shows no less than before, unless something that was   *)
(* overtaken arrives; and the selection of the table stays.                *)
LEMMA PagesNextInv ==
  ASSUME PagesInv, PagesNext
  PROVE  PagesInv' /\ KeepsSelection /\ (Onward \/ LateArrives)
<1>1. UNCHANGED table => KeepsSelection
  BY DEF KeepsSelection
<1>2. CASE \E n \in Node : PushArrives(n)
  BY <1>1, <1>2, PushArrivesInv DEF PushArrives, tableVars
<1>3. CASE \E n \in Node : SelectNode(n)
  BY <1>1, <1>3, SelectNodeInv DEF SelectNode
<1>4. CASE \E loader \in Loader, s \in Slot : LoadStarts(loader, s)
  BY <1>1, <1>4, LoadStartsInv DEF LoadStarts, tableVars
<1>5. CASE \E s \in Slot : LoadStep(s)
  <2>1. CASE \E s \in Slot, part \in Part : Served(s, part)
    BY <1>1, <2>1, ServedInv DEF Served, tableVars
  <2>2. CASE \E s \in Slot : LoadArrives(s)
    BY <2>2, LoadArrivesInv
  <2>3. CASE \E s \in Slot : LoadFails(s)
    BY <1>1, <2>3, LoadFailsInv DEF LoadFails, tableVars
  <2> QED BY <1>5, <2>1, <2>2, <2>3 DEF LoadStep
<1>6. CASE \E r \in TimeRange : SetTimeRange(r)
  BY <1>1, <1>6, SetTimeRangeInv DEF SetTimeRange
<1>7. CASE InTable
  BY <1>7, InTableInv
<1> QED BY <1>2, <1>3, <1>4, <1>5, <1>6, <1>7 DEF PagesNext

(* A page is mounted, in a document that stays or that is loaded.          *)
LEMMA RangeAtMount == ASSUME NEW mobile PROVE RangeAt(mobile, "all") \in {"10", "all"}
  BY DEF RangeAt

LEMMA LaterMounted == (table = TableBlank /\ tableClicks \in 0 .. MaxTableClicks => TableInv)'
                      /\ (PageMounted => PagesInv)'
  BY BlankTableInv, MountedPagesInv, PTL

LEMMA PageOpenedInv ==
  ASSUME PagesInv, NEW on, NEW n \in Node, NEW mobile, PageOpened(on, n, mobile),
         UNCHANGED <<tableClicks, records, loadFaults>>
  PROVE  PagesInv' /\ KeepsSelection /\ ~Stays
<1>1. PICK r \in {"10", "all"} : view' = Mounted(on, n, r)
  BY RangeAtMount DEF PageOpened
<1>2. TableInv'
  BY LaterMounted DEF PageOpened, PagesInv, TableInv, TableTypeOK
<1>3. PageMounted'
  <2>1. /\ records' \in Records /\ pushed' \in Records /\ loadFaults' \in 0 .. MaxLoadFaults
        /\ load' = NoLoads
    BY DEF PagesInv, PageOpened
  <2> QED BY <1>1, <1>2, <2>1 DEF PageMounted
<1>4. PagesInv'
  BY <1>3, LaterMounted
<1>5. KeepsSelection
  BY DEF PageOpened, TableBlank, KeepsSelection, NodesIn
<1>6. ~Stays
  BY <1>1 DEF Stays, Mounted
<1> QED BY <1>4, <1>5, <1>6

LEMMA PagesInitInv ==
  ASSUME NEW on, NEW mobile, PagesInit(on, mobile)
  PROVE  PagesInv
<1>1. PICK r \in {"10", "all"} : view = Mounted(on, 1, r)
  BY RangeAtMount DEF PagesInit
<1>2. TableInv
  <2>1. table = TableBlank /\ tableClicks = 0
    BY DEF PagesInit, TableInit
  <2>2. tableClicks \in 0 .. MaxTableClicks
    BY <2>1, TableAssumption
  <2> QED BY <2>1, <2>2, BlankTableInv
<1>3. PageMounted
  <2>1. 1 \in Node
    BY TableAssumption DEF Node
  <2>2. /\ records \in Records /\ pushed \in Records /\ loadFaults \in 0 .. MaxLoadFaults
        /\ load = NoLoads
    BY ZeroType, PagesAssumption DEF PagesInit
  <2> QED BY <1>1, <1>2, <2>1, <2>2 DEF PageMounted
<1> QED BY <1>3, MountedPagesInv

(***************************************************************************)
(* Playback on the gossip page.                                            *)
(***************************************************************************)

PlayState == [live : BOOLEAN, playing : BOOLEAN, round : Played, top : Played, error : BOOLEAN,
              left : SUBSET Mode, behind : Records]

(* What plays does not follow the newest round.                            *)
Playable(p) == p \in PlayState /\ (p.playing => ~p.live)

PlayInv == PagesInv /\ Playable(play) /\ asLive \in [Slot -> BOOLEAN]

(* PlaybackSkipsNothing says this of every step,                           *)
SkipsNothing ==
  play.playing /\ play'.round # play.round /\ tableClicks' = tableClicks /\ Stays
    => play'.round = play.round + 1 \/ LiveAnswer \/ LivePush

(* and GoesBackNeedsOverlap this.                                          *)
LosesNothing ==
  /\ HoldsLess /\ Stays => LateArrives
  /\ RoundGoes /\ Stays => GossipFails

(* Nothing but a failure covers the graph.                                 *)
StaysOpen ==
  /\ view'.loading => view.loading
  /\ play'.error => play.error \/ GossipFails

LEMMA PlayTypes == PlayInv => PlayTypeOK
  BY DEF PlayInv, Playable, PlayState, PlayTypeOK

(* Rounds are numbers.                                                     *)
LEMMA PlayedNumbers ==
  ASSUME NEW p \in PlayState
  PROVE  /\ p.round \in Nat /\ p.top \in Nat /\ p.round <= MaxRecords /\ p.top <= MaxRecords
         /\ MaxRecords \in Nat /\ 0 \in Played
<1>1. MaxRecords \in Nat
  BY PagesAssumption
<1>2. p.round \in 0 .. MaxRecords /\ p.top \in 0 .. MaxRecords
  BY DEF PlayState, Played
<1> QED BY <1>1, <1>2 DEF Played

LEMMA PlayedRange == ASSUME NEW r \in Nat, r <= MaxRecords PROVE r \in Played
  BY PagesAssumption DEF Played

LEMMA SettledPlayable ==
  ASSUME NEW p, Playable(p)
  PROVE  /\ Playable(Settled(p)) /\ Settled(p).round = p.round /\ Settled(p).error = p.error
         /\ Settled(p).behind = p.behind
<1>1. CASE p.playing /\ ~p.live /\ p.round >= p.top
  <2>1. Settled(p) = [p EXCEPT !.playing = FALSE]
    BY <1>1 DEF Settled
  <2> QED BY <2>1 DEF Playable, PlayState
<1>2. CASE ~(p.playing /\ ~p.live /\ p.round >= p.top)
  BY <1>2 DEF Settled
<1> QED BY <1>1, <1>2

LEMMA ShowsLess ==
  ASSUME PlayInv, PagesInv', Onward \/ LateArrives, StaysOpen
  PROVE  LosesNothing
<1>1. play.round \in Nat
  BY PlayedNumbers DEF PlayInv, Playable
<1>2. Onward => ~GoesBack /\ ~GraphLoses
  BY <1>1, OnwardKeeps, GraphKeeps DEF PlayInv
<1>3. RoundGoes /\ Stays => GossipFails
  BY DEF RoundGoes, RoundShown, GossipShows, Stays, StaysOpen
<1> QED BY <1>2, <1>3 DEF LosesNothing, HoldsLess

(* What a step at the page, or around it, does to what is shown.           *)
PageKeeps == PagesInv' /\ KeepsSelection /\ (Onward \/ LateArrives)
PlayKeeps == PlayInv' /\ SkipsNothing /\ KeepsSelection /\ LosesNothing

(* What is left to show of a step at the gossip page.                      *)
LEMMA RoundKeeps ==
  ASSUME PlayInv, PageKeeps, Playable(play'), asLive' \in [Slot -> BOOLEAN], SkipsNothing, StaysOpen
  PROVE  PlayKeeps
  BY ShowsLess DEF PlayInv, PageKeeps, PlayKeeps

(* Steps that leave the pages alone.                                       *)
LEMMA SamePages ==
  ASSUME PagesInv, UNCHANGED pagesVars
  PROVE  PageKeeps
<1>1. /\ UNCHANGED <<table, tableClicks>> /\ UNCHANGED <<records, pushed, load, loadFaults>>
      /\ UNCHANGED view
  BY DEF pagesVars, tableVars
<1>2. view' \in ViewState
  BY <1>1 DEF PagesInv
<1>3. PagesInv' /\ Onward
  BY <1>1, <1>2, ClickedInv
<1> QED BY <1>1, <1>3 DEF PageKeeps, KeepsSelection

(* Steps that leave the round alone.                                       *)
LEMMA RoundStays ==
  ASSUME PlayInv, PageKeeps, Playable(play'), asLive' \in [Slot -> BOOLEAN],
         play'.round = play.round, StaysOpen
  PROVE  PlayKeeps
  BY RoundKeeps DEF SkipsNothing

(* Steps around the pages.                                                 *)
LEMMA PlayStays ==
  ASSUME PlayInv, PageKeeps, UNCHANGED <<play, asLive>>, view'.loading => view.loading
  PROVE  PlayKeeps
  BY RoundStays DEF PlayInv, StaysOpen

(* The controls, each of which is a click.                                 *)
LEMMA ControlKeeps ==
  ASSUME PlayInv, NEW p, Playable(p), p.error = play.error, Control(p)
  PROVE  PlayKeeps
<1>1. PagesInv' /\ Onward
  BY ClickedInv DEF PlayInv, Control, PagesInv
<1>2. KeepsSelection
  BY DEF KeepsSelection, Control
<1>3. Playable(play') /\ StaysOpen
  BY SettledPlayable DEF Control, StaysOpen
<1>4. tableClicks' # tableClicks
  <2>1. tableClicks \in 0 .. MaxTableClicks
    BY DEF PlayInv, PagesInv, TableInv, TableTypeOK
  <2>2. tableClicks \in Nat /\ tableClicks' = tableClicks + 1
    BY <2>1, TableAssumption DEF Control, Act
  <2> QED BY <2>2
<1>5. UNCHANGED asLive
  BY DEF Control
<1> QED BY <1>1, <1>2, <1>3, <1>4, <1>5, RoundKeeps DEF PlayInv, PageKeeps, SkipsNothing

LEMMA SetLiveKeeps == ASSUME PlayInv, NEW on \in BOOLEAN, SetLive(on) PROVE PlayKeeps
<1> DEFINE q == Switched(play)
           p == IF on THEN [q EXCEPT !.live = TRUE, !.playing = FALSE, !.round = play.top]
                      ELSE [q EXCEPT !.live = FALSE]
<1>1. q \in PlayState /\ q.error = play.error
  <2>1. play \in PlayState /\ pushed \in Records
    BY DEF PlayInv, Playable, PagesInv
  <2>2. ModeNow \in Mode
    BY DEF ModeNow, Mode
  <2> DEFINE left == play.left \cup {ModeNow}
             behind == IF play.left = {} THEN pushed ELSE play.behind
  <2>3. left \in SUBSET Mode /\ behind \in Records
    BY <2>1, <2>2 DEF PlayState
  <2>4. q = [play EXCEPT !.left = left, !.behind = behind]
    BY <2>1 DEF Switched, PlayState
  <2> HIDE DEF left, behind, q
  <2> QED BY <2>1, <2>3, <2>4 DEF PlayState
<1>2. Control(p)
  BY DEF SetLive
<1> HIDE DEF q
<1>3. Playable(p) /\ p.error = play.error
  <2>1. play.top \in Played
    BY DEF PlayInv, Playable, PlayState
  <2> QED BY <1>1, <2>1 DEF Playable, PlayState
<1> HIDE DEF p
<1> QED BY <1>2, <1>3, ControlKeeps

LEMMA TogglePlaybackKeeps == ASSUME PlayInv, TogglePlayback PROVE PlayKeeps
<1> DEFINE r == IF play.round >= play.top /\ ~play.playing THEN 0 ELSE play.round
           p == [play EXCEPT !.round = r, !.playing = ~play.playing]
<1>0. play \in PlayState
  BY DEF PlayInv, Playable
<1>1. Playable(p) /\ p.error = play.error
  <2> DEFINE b == ~play.playing
  <2>1. p = [play EXCEPT !.round = r, !.playing = b]
    OBVIOUS
  <2>2. /\ ~play.live /\ play.live \in BOOLEAN /\ b \in BOOLEAN /\ play.error \in BOOLEAN
        /\ play.left \in SUBSET Mode /\ play.behind \in Records
    BY <1>0 DEF TogglePlayback, Timeline, PlayState
  <2>3. r \in Played /\ play.top \in Played
    BY <1>0, PlayedNumbers DEF PlayState
  <2> HIDE DEF p, r, b
  <2>4. p = [live |-> play.live, playing |-> b, round |-> r, top |-> play.top,
             error |-> play.error, left |-> play.left, behind |-> play.behind]
    BY <1>0, <2>1 DEF PlayState
  <2>5. p \in PlayState /\ ~p.live /\ p.error = play.error
    BY <2>2, <2>3, <2>4 DEF PlayState
  <2> QED BY <2>5 DEF Playable
<1>2. Control(p)
  BY <1>0 DEF TogglePlayback, PlayState
<1> HIDE DEF p
<1> QED BY <1>1, <1>2, ControlKeeps

(* Another round is chosen, and playing or not.                            *)
LEMMA OtherRound ==
  ASSUME PlayInv, NEW r \in Played
  PROVE  /\ Playable([play EXCEPT !.round = r])
         /\ Playable([play EXCEPT !.round = r, !.playing = FALSE])
         /\ [play EXCEPT !.round = r].error = play.error
         /\ [play EXCEPT !.round = r, !.playing = FALSE].error = play.error
<1> DEFINE p == [play EXCEPT !.round = r]
           q == [play EXCEPT !.round = r, !.playing = FALSE]
<1>1. Playable(p) /\ p.error = play.error
  BY DEF PlayInv, Playable, PlayState
<1>2. Playable(q) /\ q.error = play.error
  BY DEF PlayInv, Playable, PlayState
<1> QED BY <1>1, <1>2

LEMMA RoundControls ==
  ASSUME PlayInv, PreviousRound \/ NextRound \/ \E r \in Played : HandleSliderChange(r)
  PROVE  PlayKeeps
<1>0. /\ play \in PlayState /\ play.round \in Nat /\ play.top \in Nat
      /\ play.round <= MaxRecords /\ play.top <= MaxRecords
  BY PlayedNumbers DEF PlayInv, Playable
<1>1. CASE PreviousRound
  <2>1. play.round - 1 \in Nat /\ play.round - 1 <= MaxRecords
    BY <1>0, <1>1, PagesAssumption DEF PreviousRound
  <2>2. Control([play EXCEPT !.round = play.round - 1])
    BY <1>1 DEF PreviousRound
  <2> QED BY <2>1, <2>2, PlayedRange, OtherRound, ControlKeeps
<1>2. CASE NextRound
  <2> DEFINE r == IF play.round + 1 < play.top THEN play.round + 1 ELSE play.top
  <2>1. r \in Nat /\ r <= MaxRecords
    BY <1>0, PagesAssumption
  <2>2. Control([play EXCEPT !.round = r])
    BY <1>2 DEF NextRound
  <2> HIDE DEF r
  <2> QED BY <2>1, <2>2, PlayedRange, OtherRound, ControlKeeps
<1>3. ASSUME NEW r \in Played, HandleSliderChange(r) PROVE PlayKeeps
  <2>1. Control([play EXCEPT !.round = r, !.playing = FALSE])
    BY <1>3 DEF HandleSliderChange
  <2> QED BY <2>1, OtherRound, ControlKeeps
<1> QED BY <1>1, <1>2, <1>3

LEMMA TickKeeps == ASSUME PlayInv, Tick PROVE PlayKeeps
<1>1. UNCHANGED pagesVars /\ UNCHANGED asLive /\ play' = Settled([play EXCEPT !.round = @ + 1])
  BY DEF Tick
<1>2. /\ play \in PlayState /\ play.round \in Nat /\ play.top \in Nat
      /\ play.top <= MaxRecords
  BY PlayedNumbers DEF PlayInv, Playable
<1>3. play.round + 1 \in Played
  <2>1. play.round + 1 \in Nat /\ play.round + 1 <= MaxRecords
    BY <1>2, PagesAssumption DEF Tick
  <2> QED BY <2>1, PlayedRange
<1> DEFINE p == [play EXCEPT !.round = play.round + 1]
<1>4. Playable(p) /\ p.round = play.round + 1 /\ p.error = play.error
  BY <1>2, <1>3, OtherRound DEF PlayState
<1>5. play' = Settled(p)
  BY <1>1
<1> HIDE DEF p
<1>6. Playable(play') /\ play'.round = play.round + 1 /\ play'.error = play.error
  BY <1>4, <1>5, SettledPlayable
<1>7. PageKeeps /\ StaysOpen
  BY <1>1, <1>6, SamePages DEF PlayInv, StaysOpen, pagesVars
<1> QED BY <1>1, <1>6, <1>7, RoundKeeps DEF PlayInv, SkipsNothing

(* Steps of the loads that leave the round alone.                          *)
LEMMA HistoryKeeps ==
  ASSUME PlayInv, NEW s \in Slot, HistoryAsked(s) \/ LoadServed(s) \/ HistoryFails(s)
  PROVE  PlayKeeps
<1>1. CASE HistoryAsked(s)
  <2>1. "gossip" \in Loader /\ LoadStarts("gossip", s)
    BY <1>1 DEF Loader, HistoryAsked
  <2>2. PageKeeps
    BY <2>1, LoadStartsInv DEF PlayInv, PageKeeps, KeepsSelection, LoadStarts, tableVars
  <2>3. asLive' \in [Slot -> BOOLEAN]
    BY <1>1 DEF HistoryAsked, PlayInv, Playable, PlayState
  <2>4. StaysOpen
    BY <1>1, LoadingGoes DEF HistoryAsked, PlayInv, StaysOpen
  <2> QED BY <1>1, <2>2, <2>3, <2>4, RoundStays DEF PlayInv, HistoryAsked
<1>2. CASE LoadServed(s)
  <2>1. PageKeeps
    BY <1>2, ServedInv DEF LoadServed, PlayInv, PageKeeps, KeepsSelection, Served, tableVars
  <2> QED BY <1>2, <2>1, PlayStays DEF LoadServed, Served
<1>3. CASE HistoryFails(s)
  <2>1. PageKeeps
    BY <1>3, LoadFailsInv DEF HistoryFails, PlayInv, PageKeeps, KeepsSelection, LoadFails, tableVars
  <2>2. Playable(play') /\ play'.round = play.round
    BY <1>3 DEF HistoryFails, PlayInv, Playable, PlayState
  <2>3. StaysOpen
    <3>1. view'.loading => view.loading
      BY <1>3, LoadingGoes DEF HistoryFails, PlayInv
    <3>2. GossipFails
      <4>1. load[s].loader = "gossip"
        <5>1. load[s].loader \in LoadersOf(view.page) \cup {"none"}
          BY DEF PlayInv, PagesInv, LoadOK
        <5> QED BY <1>3, <5>1 DEF HistoryFails, LoadFails, LoadersOf
      <4>2. load'[s] = NoLoad
        BY <1>3 DEF HistoryFails, LoadFails, PlayInv, PagesInv
      <4> QED BY <1>3, <4>1, <4>2 DEF GossipFails, HistoryFails, LoadFails
    <3> QED BY <3>1, <3>2 DEF StaysOpen
  <2> QED BY <1>3, <2>1, <2>2, <2>3, RoundStays DEF PlayInv, HistoryFails
<1> QED BY <1>1, <1>2, <1>3

(* An answer moves the page only when it was asked for in live mode.       *)
LEMMA HistoryArrivesKeeps ==
  ASSUME PlayInv, NEW s \in Slot, HistoryArrives(s)
  PROVE  PlayKeeps
<1> DEFINE top == Highest(load[s].got["histories"])
           p == [play EXCEPT !.top = top, !.error = FALSE,
                             !.round = IF asLive[s] THEN top ELSE @]
<1>1. PageKeeps /\ load'[s] = NoLoad
  BY LoadArrivesInv DEF PlayInv, HistoryArrives, PageKeeps
<1>2. play' = Settled(p) /\ UNCHANGED asLive
  BY DEF HistoryArrives
<1>3. load[s] \in LoadState /\ load[s].loader = "gossip"
  <2>1. load[s] \in LoadState /\ load[s].loader \in LoadersOf(view.page) \cup {"none"}
    BY DEF PlayInv, PagesInv, LoadOK
  <2>2. view.page = "gossip" /\ load[s].loader # "none"
    BY DEF HistoryArrives, LoadArrives
  <2> QED BY <2>1, <2>2 DEF LoadersOf
<1>4. top \in Played
  <2>1. "histories" \in Part /\ "histories" \in PartsOf(load[s].loader)
    BY <1>3 DEF Part, PartsOf
  <2>2. load[s].got["histories"] \in Records
    BY <1>3, <2>1, GotNumbers DEF HistoryArrives, LoadArrives, Got
  <2> QED BY <2>2, HighestType
<1>5. play \in PlayState /\ asLive[s] \in BOOLEAN
  BY DEF PlayInv, Playable
<1>6. Playable(p) /\ (~asLive[s] => p.round = play.round) /\ ~p.error
  <2> DEFINE round == IF asLive[s] THEN top ELSE play.round
  <2>1. p = [play EXCEPT !.top = top, !.error = FALSE, !.round = round]
    BY <1>5 DEF PlayState
  <2>2. round \in Played
    BY <1>4, <1>5 DEF PlayState
  <2> HIDE DEF p, top, round
  <2>3. p = [live |-> play.live, playing |-> play.playing, round |-> round, top |-> top,
             error |-> FALSE, left |-> play.left, behind |-> play.behind]
    BY <1>5, <2>1 DEF PlayState
  <2>4. /\ play.live \in BOOLEAN /\ play.playing \in BOOLEAN
        /\ play.left \in SUBSET Mode /\ play.behind \in Records
        /\ play.playing => ~play.live
    BY DEF PlayInv, Playable, PlayState
  <2>5. Playable(p) /\ p.round = round /\ ~p.error
    <3>1. p.round = round /\ p.playing = play.playing /\ p.live = play.live /\ ~p.error
      BY <2>3
    <3>2. p \in PlayState
      BY <1>4, <2>2, <2>3, <2>4 DEF PlayState
    <3> QED BY <2>4, <3>1, <3>2 DEF Playable
  <2> QED BY <2>5 DEF round
<1> HIDE DEF p
<1>7. Playable(play') /\ (~asLive[s] => play'.round = play.round) /\ StaysOpen
  <2>1. Playable(play') /\ (~asLive[s] => play'.round = play.round) /\ ~play'.error
    BY <1>2, <1>6, SettledPlayable
  <2>2. view'.loading => view.loading
    BY LoadingGoes DEF HistoryArrives, PlayInv
  <2> QED BY <2>1, <2>2 DEF StaysOpen
<1>8. asLive[s] => LiveAnswer
  BY <1>1, <1>3 DEF LiveAnswer
<1> QED BY <1>1, <1>2, <1>7, <1>8, RoundKeeps DEF PlayInv, SkipsNothing

(* What a handler of either mode makes of a push.                          *)
LEMMA HandledPlayable ==
  ASSUME NEW q, Playable(q), NEW r \in Played, NEW mode
  PROVE  /\ Playable(Handled(q, mode, r)) /\ Handled(q, mode, r).error = q.error
         /\ Handled(q, mode, r).behind = q.behind
         /\ mode # "live" => Handled(q, mode, r).round = q.round
<1>1. CASE mode # "live"
  BY <1>1 DEF Handled
<1>2. CASE mode = "live"
  <2> DEFINE round == IF r > q.round THEN r ELSE q.round
             top == IF r > q.top THEN r ELSE q.top
             p == [q EXCEPT !.round = round, !.top = top]
  <2>1. q \in PlayState /\ round \in Played /\ top \in Played
    BY DEF Playable, PlayState
  <2>2. Handled(q, mode, r) = p
    BY <1>2, <2>1 DEF Handled, PlayState
  <2> HIDE DEF round, top
  <2>3. p \in PlayState /\ p.error = q.error /\ p.behind = q.behind
        /\ p.playing = q.playing /\ p.live = q.live
    BY <2>1 DEF PlayState
  <2> QED BY <1>2, <2>2, <2>3 DEF Playable
<1> QED BY <1>1, <1>2

(* A push moves the page through a handler of live mode; when something    *)
(* plays, this is one left over.                                           *)
LEMMA HandleLiveKeeps == ASSUME PlayInv, NEW n \in Node, HandleLive(n) PROVE PlayKeeps
<1>1. PageKeeps /\ (view'.loading => view.loading)
  BY LivePushInv DEF PlayInv, PageKeeps, KeepsSelection, HandleLive, tableVars, Onward
<1>2. UNCHANGED asLive
  BY DEF HandleLive
<1>3. PICK r \in 1 .. records[n], mode \in Handlers :
        /\ ComesFirst(n, r) \/ ComesAgain(n, r)
        /\ pushed' = [pushed EXCEPT ![n] = IF r > @ THEN r ELSE @]
        /\ play' = LET p == IF ComesFirst(n, r) THEN play ELSE [play EXCEPT !.behind[n] = r]
                   IN  Settled(Handled(p, mode, r))
  BY DEF HandleLive
<1> DEFINE q == IF ComesFirst(n, r) THEN play ELSE [play EXCEPT !.behind[n] = r]
<1>4. /\ records[n] \in Nat /\ records[n] <= MaxRecords /\ pushed[n] \in Nat /\ play.behind[n] \in Nat
      /\ pushed \in Records /\ play.behind \in Records /\ play \in PlayState
  BY RecordsNumbers DEF PlayInv, PagesInv, Playable, PlayState
<1>5. r \in Played /\ r \in Nat /\ r \in 0 .. MaxRecords
  BY <1>4, PagesAssumption, PlayedRange
<1>6. /\ Playable(q) /\ q.round = play.round /\ q.error = play.error
      /\ q.behind = IF ComesFirst(n, r) THEN play.behind ELSE [play.behind EXCEPT ![n] = r]
  <2>1. CASE ComesFirst(n, r)
    BY <2>1 DEF PlayInv
  <2>2. CASE ~ComesFirst(n, r)
    <3> DEFINE behind == [play.behind EXCEPT ![n] = r]
    <3>1. behind \in Records
      BY <1>4, <1>5 DEF Records
    <3>2. q = [play EXCEPT !.behind = behind]
      BY <1>4, <2>2 DEF PlayState
    <3> HIDE DEF behind, q
    <3>3. q \in PlayState /\ q.round = play.round /\ q.error = play.error /\ q.behind = behind
          /\ q.playing = play.playing /\ q.live = play.live
      BY <1>4, <3>1, <3>2 DEF PlayState
    <3> QED BY <2>2, <3>3 DEF Playable, PlayInv, behind
  <2> QED BY <2>1, <2>2
<1> HIDE DEF q
<1>7. /\ Playable(play') /\ play'.error = play.error /\ play'.behind = q.behind
      /\ mode # "live" => play'.round = play.round
  <2> DEFINE p == Handled(q, mode, r)
  <2>1. play' = Settled(p)
    BY <1>3 DEF q
  <2>2. Playable(p) /\ p.error = play.error /\ p.behind = q.behind
        /\ (mode # "live" => p.round = play.round)
    BY <1>5, <1>6, HandledPlayable
  <2> HIDE DEF p
  <2> QED BY <2>1, <2>2, SettledPlayable
<1>8. <<pushed, play.behind>>' # <<pushed, play.behind>>
  <2>1. CASE ComesFirst(n, r)
    <3>1. pushed'[n] = r /\ r # pushed[n]
      BY <1>3, <1>4, <1>5, <2>1 DEF ComesFirst, Records
    <3> QED BY <3>1
  <2>2. CASE ~ComesFirst(n, r)
    <3>1. play'.behind = [play.behind EXCEPT ![n] = r]
      BY <1>6, <1>7, <2>2
    <3>2. play'.behind[n] = r /\ r # play.behind[n]
      BY <1>3, <1>4, <1>5, <2>2, <3>1 DEF ComesAgain, Records
    <3> QED BY <3>2
  <2> QED BY <2>1, <2>2
<1>9. SkipsNothing
  <2>1. CASE mode # "live"
    BY <1>7, <2>1 DEF SkipsNothing
  <2>2. CASE mode = "live" /\ play.playing
    <3>1. "live" \in play.left
      BY <2>2 DEF Handlers, ModeNow, PlayInv, Playable
    <3> QED BY <1>8, <3>1 DEF LivePush, SkipsNothing
  <2>3. CASE ~play.playing
    BY <2>3 DEF SkipsNothing
  <2> QED BY <2>1, <2>2, <2>3
<1>10. StaysOpen
  BY <1>1, <1>7 DEF StaysOpen
<1> QED BY <1>1, <1>2, <1>7, <1>9, <1>10, RoundKeeps DEF PlayInv

LEMMA PlayNextKeeps == ASSUME PlayInv, PlayNext PROVE PlayKeeps
  BY SetLiveKeeps, TogglePlaybackKeeps, RoundControls, TickKeeps, HistoryArrivesKeeps, HistoryKeeps,
     HandleLiveKeeps
  DEF PlayNext, GossipStep

(* The steps of the other pages.                                           *)
LEMMA PagesNextKeeps == ASSUME PlayInv, PagesNext, UNCHANGED <<play, asLive>> PROVE PlayKeeps
<1>1. view'.loading => view.loading
  BY LoadingGoes DEF PagesNext, LoadStep, PlayInv
<1>2. PageKeeps
  BY PagesNextInv DEF PlayInv, PageKeeps
<1> QED BY <1>1, <1>2, PlayStays

LEMMA NodeRecordsKeeps ==
  ASSUME PlayInv, NEW n \in Node, NodeRecords(n), UNCHANGED <<play, asLive>>
  PROVE  PlayKeeps
<1>1. PageKeeps
  BY NodeRecordsInv DEF PlayInv, PageKeeps, KeepsSelection, NodeRecords, tableVars
<1> QED BY <1>1, PlayStays DEF NodeRecords

(* The chart takes another range, and nothing else changes.                *)
LEMMA RangeKeeps ==
  ASSUME PlayInv, NEW mobile,
         \/ view' = [view EXCEPT !.range = RangeAt(mobile, @)]
         \/ UNCHANGED view,
         UNCHANGED <<tableVars, records, pushed, load, loadFaults, play, asLive>>
  PROVE  PlayKeeps
<1>1. view \in ViewState
  BY DEF PlayInv, PagesInv
<1>2. PICK r \in TimeRange : view' = [view EXCEPT !.range = r] \/ UNCHANGED view
  <2>1. RangeAt(mobile, view.range) \in TimeRange
    BY <1>1, PagesAssumption DEF RangeAt, ViewState
  <2> QED BY <1>1, <2>1 DEF ViewState
<1>3. /\ view' \in ViewState /\ view'.shown = view.shown /\ view'.page = view.page
      /\ view'.node = view.node /\ view'.loading = view.loading
  BY <1>1, <1>2 DEF ViewState
<1>4. PageKeeps
  BY <1>3, ClickedInv DEF PlayInv, PageKeeps, KeepsSelection, tableVars
<1> QED BY <1>3, <1>4, PlayStays

LEMMA SamePlayKeeps == ASSUME PlayInv, UNCHANGED playVars PROVE PlayKeeps
<1>1. UNCHANGED pagesVars /\ UNCHANGED play /\ UNCHANGED asLive
  BY DEF playVars
<1>2. PageKeeps
  BY <1>1, SamePages DEF PlayInv
<1> QED BY <1>1, <1>2, PlayStays DEF pagesVars

LEMMA PlayBlankType == Playable(PlayBlank) /\ AllLive \in [Slot -> BOOLEAN]
<1>1. 0 \in Played /\ Zero \in Records
  BY PagesAssumption, ZeroType DEF Played
<1> QED BY <1>1 DEF PlayBlank, AllLive, Playable, PlayState

LEMMA OpenedKeeps ==
  ASSUME PlayInv, NEW on, NEW n \in Node, NEW mobile, PageOpened(on, n, mobile),
         UNCHANGED <<tableClicks, records, loadFaults>>, play' = PlayBlank, asLive' = AllLive
  PROVE  PlayKeeps
<1>1. PagesInv' /\ KeepsSelection /\ ~Stays
  BY PageOpenedInv DEF PlayInv
<1> QED BY <1>1, PlayBlankType DEF PlayInv, PlayKeeps, SkipsNothing, LosesNothing
=============================================================================
