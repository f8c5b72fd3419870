------------------------------ MODULE ConfigPage ------------------------------
(***************************************************************************)
(* The configuration: the file .env, the two singletons of the server that *)
(* are read from it (api/dependencies.py and src/bloomfl/config.py), the   *)
(* requests of api/routers/config.py, the simulations that read it         *)
(* (api/services/simulation_service.py, simulation/runner.py), and the     *)
(* tabs that show the form of frontend/src/app/(app)/config/page.tsx.      *)
(*                                                                         *)
(* Abstractions.  A field has a few values and one that the form's schema  *)
(* refuses.  Lines of .env that belong to no field are left out.  A node   *)
(* of a simulation stands for each of them: they read by themselves.  What *)
(* the runner gives its nodes whatever the file holds (data_dir, epochs,   *)
(* ...) is no field.                                                       *)
(***************************************************************************)
EXTENDS Naturals

CONSTANTS
  Field,
  Value, Default,    \* the values of a field
  Bad,               \* what the schema refuses
  Refused,           \* pairs of a field and a value: what the schema accepts
                     \* and the validators of Config do not
  ApiField,          \* what a simulation takes from the API's singleton:
                     \* metrics_dir
  CoreField,         \* what it takes from the core's: key_storage_dir
  RequestField,      \* what it puts into os.environ: transport, ...
  Tab,               \* the tabs that are open at the page
  MaxEdits,          \* bound: edits of a field
  MaxSaves,          \* bound: saves
  MaxConfigFaults    \* bound: failures, restarts of the server

ASSUME ConfigAssumption ==
  /\ Default \in Value /\ Bad \notin Value
  /\ \A f \in Field : <<f, Default>> \notin Refused
  /\ ApiField \cup CoreField \cup RequestField \subseteq Field
  /\ ApiField \cap CoreField = {} /\ RequestField \cap (ApiField \cup CoreField) = {}
  /\ {MaxEdits, MaxSaves, MaxConfigFaults} \subseteq Nat

Config   == [Field -> Value]
Form     == [Field -> Value \cup {Bad}]
Defaults == [f \in Field |-> Default]
Unread   == <<>>     \* a singleton that is None
Unset    == <<"unset">>     \* no value: a field nobody has set or taken

VARIABLES
  env,        \* what a Config read from .env alone would be
  environ,    \* what os.environ of the server's process sets besides
  apiConfig,  \* _config_instance of api/dependencies.py; None: no server
  coreConfig, \* _config of src/bloomfl/config.py
  run,        \* where the start of a simulation is, and what it took last
  form,       \* form[t]: the form in tab t
  was,        \* history: what .env held at first or a tab has sent, whether
              \* a write was cut short, what .env held as the server started
  count       \* numbers of bounded events

serverVars == <<env, environ, apiConfig, coreConfig, run>>
configVars == <<serverVars, form, was, count>>

FormState == [pc : {"asked", "answered", "skeleton", "ready", "saving", "saved"},
              values : Form,        \* what the fields hold
              base   : Form,        \* what they held at the last reset
              errors : BOOLEAN,     \* are errors of the schema on display?
              data   : Config]      \* of the request or the answer on its way

RunState == [pc : {"no", "thread"}, took : [Field -> Value \cup {Unset}]]

ConfigTypeOK ==
  /\ env \in Config /\ environ \in [RequestField -> Value \cup {Unset}]
  /\ apiConfig \in Config \cup {Unread} /\ coreConfig \in Config \cup {Unread}
  /\ run \in RunState
  /\ form \in [Tab -> FormState]
  /\ was \in [sent : SUBSET Config, torn : BOOLEAN, started : Config]
  /\ count \in [edits : 0 .. MaxEdits, saves : 0 .. MaxSaves, faults : 0 .. MaxConfigFaults]

FormOpened == [pc |-> "asked", values |-> Defaults, base |-> Defaults, errors |-> FALSE,
               data |-> Defaults]

NothingSet == [f \in RequestField |-> Unset]
NoRun      == [pc |-> "no", took |-> [f \in Field |-> Unset]]

(* The server reads its configuration as it starts (api/main.py).          *)
ConfigInit ==
  /\ env = Defaults /\ environ = NothingSet
  /\ apiConfig = Defaults /\ coreConfig = Unread
  /\ run = NoRun
  /\ form = [t \in Tab |-> FormOpened]
  /\ was = [sent |-> {Defaults}, torn |-> FALSE, started |-> Defaults]
  /\ count = [edits |-> 0, saves |-> 0, faults |-> 0]

Counted(c, max) == count[c] < max /\ count' = [count EXCEPT ![c] = @ + 1]

-----------------------------------------------------------------------------
(* The server.                                                             *)

(* Mutation of Written: only what differs from the server's configuration. *)
WrittenChanges(data) == [f \in Field |-> IF data[f] = apiConfig[f] THEN env[f] ELSE data[f]]

(* The lines of .env, replaced or appended for each field of the request,  *)
(* which has them all, edited or not.                                      *)
Written(data) == [f \in Field |-> IF f \in DOMAIN data THEN data[f] ELSE env[f]]

ReadConfig(t) ==
  /\ form[t].pc = "asked" /\ apiConfig # Unread
  /\ form' = [form EXCEPT ![t].data = apiConfig, ![t].pc = "answered"]
  /\ UNCHANGED <<serverVars, was, count>>

(* There is no server: no form without the answer, a toast for a save.     *)
RequestFails(t) ==
  /\ form[t].pc \in {"asked", "saving"} /\ apiConfig = Unread
  /\ form' = [form EXCEPT ![t].pc = IF @ = "asked" THEN "skeleton" ELSE "ready"]
  /\ UNCHANGED <<serverVars, was, count>>

(* Mutation of Reset: the singleton stays.                                 *)
ResetNothing == UNCHANGED coreConfig

(* reset_config(): the core's singleton, not the one the API has.          *)
Reset == coreConfig' = Unread

(* patch_config, which does not await; the answer is what the API has.     *)
PatchConfig(t) ==
  /\ form[t].pc = "saving" /\ apiConfig # Unread
  /\ env' = Written(form[t].data)
  /\ Reset
  /\ form' = [form EXCEPT ![t].data = apiConfig, ![t].pc = "saved"]
  /\ UNCHANGED <<environ, apiConfig, run, was, count>>

(* write_text truncates the file and raises before all lines are in it.    *)
PatchTorn(t) ==
  /\ form[t].pc = "saving" /\ apiConfig # Unread
  /\ Counted("faults", MaxConfigFaults)
  /\ \E kept \in SUBSET Field :
       env' = [f \in Field |-> IF f \in kept THEN form[t].data[f] ELSE Default]
  /\ was' = [was EXCEPT !.torn = TRUE]
  /\ form' = [form EXCEPT ![t].pc = "ready"]
  /\ UNCHANGED <<environ, apiConfig, coreConfig, run>>

(* Config(): what os.environ e sets comes before the file, and the         *)
(* validators may raise.                                                   *)
Read(e)       == [f \in Field |-> IF f \in RequestField /\ e[f] # Unset THEN e[f] ELSE env[f]]
Accepted(cfg) == \A f \in Field : <<f, cfg[f]>> \notin Refused

(* _run up to its thread: the metrics directory of the API's singleton and *)
(* the keys' of the core's, which is read if there is none - when that     *)
(* raises, there is no simulation.                                         *)
SimulationReads ==
  /\ apiConfig # Unread /\ run.pc = "no"
  /\ \/ coreConfig # Unread /\ UNCHANGED coreConfig
     \/ coreConfig = Unread /\ Accepted(Read(environ)) /\ coreConfig' = Read(environ)
  /\ run' = [pc |-> "thread",
             took |-> [f \in Field |-> CASE f \in ApiField  -> apiConfig[f]
                                         [] f \in CoreField -> coreConfig'[f]
                                         [] OTHER           -> Unset]]
  /\ UNCHANGED <<env, environ, apiConfig, form, was, count>>

NodeField == Field \ (ApiField \cup CoreField \cup RequestField)

(* _thread_run puts the request into os.environ, where it stays, and       *)
(* starts a node, which reads the file anew - or dies of what it reads.    *)
NodeReads ==
  /\ run.pc = "thread"
  /\ environ' \in [RequestField -> Value]
  /\ run' = [pc |-> "no",
             took |-> [f \in Field |-> IF f \in NodeField /\ Accepted(Read(environ'))
                                       THEN env[f] ELSE Unset]]
  /\ UNCHANGED <<env, apiConfig, coreConfig, form, was, count>>

(* The server ends, with the requests it was at, and starts again - unless *)
(* it raises at what the file holds, and there is no server any more.      *)
ServerRestarts ==
  /\ Counted("faults", MaxConfigFaults)
  /\ apiConfig' = (IF Accepted(env) THEN env ELSE Unread)
  /\ coreConfig' = Unread /\ environ' = NothingSet /\ run' = NoRun
  /\ was' = [was EXCEPT !.started = env]
  /\ form' = [t \in Tab |-> CASE form[t].pc = "asked"  -> [form[t] EXCEPT !.pc = "skeleton"]
                              [] form[t].pc = "saving" -> [form[t] EXCEPT !.pc = "ready"]
                              [] OTHER                 -> form[t]]
  /\ UNCHANGED env

-----------------------------------------------------------------------------
(* A tab.                                                                  *)

Editable(t)     == form[t].pc \in {"ready", "saving", "saved"}
IsDirty(t)      == form[t].values # form[t].base
IsSubmitting(t) == form[t].pc \in {"saving", "saved"}
Invalid(values) == \E f \in Field : values[f] = Bad

(* form.reset(...) with the answer to the load or to the save: what was    *)
(* typed meanwhile is gone.                                                *)
AnswerArrives(t) ==
  /\ form[t].pc \in {"answered", "saved"}
  /\ form' = [form EXCEPT ![t] = [@ EXCEPT !.pc = "ready", !.errors = FALSE,
                                           !.values = form[t].data, !.base = form[t].data]]
  /\ UNCHANGED <<serverVars, was, count>>

(* The answer is lost: no form without the first, a toast for the other.   *)
AnswerLost(t) ==
  /\ form[t].pc \in {"answered", "saved"}
  /\ Counted("faults", MaxConfigFaults)
  /\ form' = [form EXCEPT ![t].pc = IF @ = "answered" THEN "skeleton" ELSE "ready"]
  /\ UNCHANGED <<serverVars, was>>

(* A switch, a choice or an input; errors on display follow the values.    *)
Edit(t, f, v) ==
  /\ Editable(t) /\ form[t].values[f] # v
  /\ Counted("edits", MaxEdits)
  /\ form' = [form EXCEPT ![t].values[f] = v,
                          ![t].errors = @ /\ Invalid([form[t].values EXCEPT ![f] = v])]
  /\ UNCHANGED <<serverVars, was>>

(* The bar at the bottom is there while the form is dirty.                 *)
Discard(t) ==
  /\ Editable(t) /\ IsDirty(t)
  /\ form' = [form EXCEPT ![t].values = form[t].base, ![t].errors = FALSE]
  /\ UNCHANGED <<serverVars, was, count>>

(* handleSubmit: the values are checked against the schema and sent.       *)
Submit(t) ==
  /\ Editable(t) /\ IsDirty(t) /\ ~IsSubmitting(t) /\ ~form[t].errors
  /\ \/ /\ Invalid(form[t].values)
        /\ form' = [form EXCEPT ![t].errors = TRUE]
        /\ UNCHANGED <<was, count>>
     \/ /\ ~Invalid(form[t].values)
        /\ Counted("saves", MaxSaves)
        /\ form' = [form EXCEPT ![t].pc = "saving", ![t].data = form[t].values]
        /\ was' = [was EXCEPT !.sent = @ \cup {form[t].values}]
  /\ UNCHANGED serverVars

(* The page is opened, or loaded again.                                    *)
TabOpens(t) ==
  /\ form' = [form EXCEPT ![t] = FormOpened]
  /\ UNCHANGED <<serverVars, was, count>>

TabStep(t) ==
  \/ ReadConfig(t) \/ RequestFails(t) \/ PatchConfig(t) \/ PatchTorn(t)
  \/ AnswerArrives(t) \/ AnswerLost(t) \/ Discard(t) \/ Submit(t)
  \/ \E f \in Field, v \in Value \cup {Bad} : Edit(t, f, v)

ConfigNext ==
  \/ SimulationReads \/ NodeReads \/ ServerRestarts
  \/ \E t \in Tab : TabStep(t) \/ TabOpens(t)
ConfigSpec == ConfigInit /\ [][ConfigNext]_configVars

-----------------------------------------------------------------------------
(* Properties.                                                             *)

(* What the start of a simulation takes.                                   *)
TakesSaved ==
  /\ run.pc = "no" /\ run'.pc = "thread" =>
       /\ \A f \in ApiField : run'.took[f] = was.started[f]
       /\ \A f \in CoreField : run'.took[f] = env[f] \/ was.torn
  /\ run.pc = "thread" /\ run'.pc = "no" =>
       \A f \in NodeField : run'.took[f] \in {Unset, env[f]}

(* What a save does to the next simulation, however the saves of several   *)
(* tabs, simulations and restarts of the server interleave.  The keys are  *)
(* taken where .env says, since patch_config resets the core's singleton - *)
(* except after a write cut short, whose exception passes by the reset.    *)
(* What the nodes read is what .env holds.  But the metrics go where .env  *)
(* said as the server started, where its other services look for them.     *)
SimulationsUseSaved == [][TakesSaved]_configVars

(* "Write changed values to .env" (api/routers/config.py:24): .env holds    *)
(* what one tab sent, or what it held at first, never a mixture of two     *)
(* tabs - so that the last save takes back what another tab has saved      *)
(* since this one was loaded.                                              *)
EnvIsOneForm == env \in was.sent \/ was.torn
=============================================================================
