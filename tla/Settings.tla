------------------------------ MODULE Settings ------------------------------
(***************************************************************************)
(* Which model a session talks to, and what is written down about it.      *)
(*                                                                         *)
(* model.conf is edited by the user and reloaded or replaced whole by the  *)
(* session; runtime.conf holds two preferences shared by every instance on *)
(* the machine and is rewritten whole, after reading it again; the session *)
(* file keeps the session's own choice.  The status bar shows what the     *)
(* session last said, and the agent keeps the provider it was built with.  *)
(* A model is a name; a block of model.conf may be rejected; a Broken name *)
(* passes validation but no provider can be built for it.                  *)
(***************************************************************************)
EXTENDS Naturals, FiniteSets

CONSTANTS
  Override,   (* the name given with --model, or ""                        *)
  Default,    (* the model of the default model.conf                       *)
  Broken,     (* names no provider can be built for                        *)
  Confs,      (* what model.conf may hold: sequences of [name, ok]         *)
  Noted,      (* models runtime.conf may name                              *)
  Filed,      (* models a session file may name                            *)
  Levels,     (* reasoning levels                                          *)
  MaxChanges  (* bound: commands, edits and other instances' switches      *)

VARIABLES
  hasFile,   (* the session was given a session file                       *)
  conf,      (* model.conf                                                 *)
  disk,      (* runtime.conf: [model, theme]                               *)
  other,     (* another instance: the file it is about to write, or None   *)
  models,    (* modelManager.models; a model's ID is its place             *)
  active,    (* modelManager.activeID, 0 for none                          *)
  rm,        (* runtimeManager.config                                      *)
  saving,    (* what run() is about to write to runtime.conf, or None      *)
  meta,      (* sessionMetaModel                                           *)
  level,     (* reasoningLevel                                             *)
  agent,     (* [name, level] of the provider requests go to, or None      *)
  told,      (* what the adapter was last told: [name, level, list]        *)
  file,      (* active_model of the session file, or "" when it has none   *)
  chosen,    (* history: the last model switched to by name, or ""         *)
  changes

vars == <<hasFile, conf, disk, other, models, active, rm, saving, meta, level, agent, told,
          file, chosen, changes>>

None == [none |-> TRUE]

-----------------------------------------------------------------------------
(* modelManager.                                                           *)

(* The names of some of the blocks, in order.                              *)
NamesOf(blocks, kept) ==
  [n \in 1..Cardinality(kept) |->
     blocks[CHOOSE i \in kept : Cardinality({j \in kept : j < i}) = n - 1].name]

(* Rejected blocks are left out, and of two with one name the second.      *)
ParseModelConfig(blocks) ==
  NamesOf(blocks, {i \in DOMAIN blocks :
                   /\ blocks[i].ok
                   /\ \A j \in 1..(i - 1) : blocks[j].ok => blocks[j].name # blocks[i].name})

Valid(blocks) == NamesOf(blocks, {i \in DOMAIN blocks : blocks[i].ok})

FindModelByName(list, name) ==
  IF \E i \in DOMAIN list : list[i] = name
  THEN CHOOSE i \in DOMAIN list :
         list[i] = name /\ \A j \in DOMAIN list : list[j] = name => i <= j
  ELSE 0

NameOf(list, id) == IF id \in DOMAIN list THEN list[id] ELSE ""

-----------------------------------------------------------------------------
(* modelService: runtime.conf, else the first model; then the session      *)
(* file; then --model.                                                     *)

Prefer(list, name, else) ==
  IF name # "" /\ FindModelByName(list, name) # 0 THEN FindModelByName(list, name) ELSE else

ResolveActiveModel_RuntimeLast(list, was) ==
  LET first == IF list = <<>> THEN was ELSE 1 IN
  Prefer(list, Override, Prefer(list, rm.model, Prefer(list, meta, first)))

ResolveActiveModel(list, was) ==
  LET first == IF list = <<>> THEN was ELSE 1 IN
  Prefer(list, Override, Prefer(list, meta, Prefer(list, rm.model, first)))

(* Session.SwitchModel: builds a provider, gives it the reasoning level    *)
(* and says so; a model none can be built for changes nothing.             *)
SwitchModel_NoLevel(name) ==
  IF name \in Broken THEN UNCHANGED <<agent, told>>
  ELSE /\ agent' = [name |-> name, level |-> CHOOSE l \in Levels : \A k \in Levels : l <= k]
       /\ told' = [told EXCEPT !.name = name]

SwitchModel(name) ==
  IF name \in Broken THEN UNCHANGED <<agent, told>>
  ELSE /\ agent' = [name |-> name, level |-> level]
       /\ told' = [told EXCEPT !.name = name]

-----------------------------------------------------------------------------
SettingsInit ==
  /\ hasFile \in BOOLEAN /\ conf \in Confs
  /\ disk \in [model : {""} \cup Noted, theme : {"dark"}]
  /\ other = None /\ saving = None /\ changes = 0 /\ chosen = ""
  /\ models = ParseModelConfig(conf)
  /\ rm = disk
  /\ meta \in (IF hasFile THEN {""} \cup Filed ELSE {""}) /\ file = meta
  /\ active = ResolveActiveModel(models, 0)
  /\ Override = "" \/ NameOf(models, active) = Override
  /\ level \in Levels
  /\ agent = None
  /\ told = [name |-> NameOf(models, active), level |-> level, list |-> models]

Change == changes < MaxChanges /\ changes' = changes + 1
Idle == saving = None

(* The user edits model.conf.                                              *)
EditConf(c) ==
  /\ Change /\ conf' = c
  /\ UNCHANGED <<disk, other, models, active, rm, saving, meta, level, agent, told, file, chosen>>

(* handleModelLoad, handleModelSync after the new list is in place.  A     *)
(* list with no model in it is not announced.                              *)
Installed(list) ==
  LET now == ResolveActiveModel(list, active) IN
  /\ models' = list /\ active' = now
  /\ IF now \notin DOMAIN list THEN UNCHANGED <<agent, told>>
     ELSE IF list[now] \in Broken THEN UNCHANGED <<agent, told>>
     ELSE /\ agent' = [name |-> list[now], level |-> level]
          /\ told' = [told EXCEPT !.name = list[now], !.list = list]

ModelLoad ==
  /\ Change /\ Idle
  /\ conf' = IF conf = <<>> THEN <<[name |-> Default, ok |-> TRUE]>> ELSE conf
  /\ Installed(ParseModelConfig(conf'))
  /\ UNCHANGED <<disk, other, rm, saving, meta, level, file, chosen>>

(* A list in which no model is usable is refused and the old one kept.     *)
ModelSync(list) ==
  /\ Change /\ Idle
  /\ IF Valid(list) = <<>> /\ list # <<>>
     THEN Installed(models) /\ UNCHANGED conf
     ELSE /\ Installed(Valid(list))
          /\ conf' = [i \in DOMAIN Valid(list) |-> [name |-> Valid(list)[i], ok |-> TRUE]]
  /\ UNCHANGED <<disk, other, rm, saving, meta, level, file, chosen>>

(* runtimeManager.update: read the file again, change one field ...        *)
Update(field, value) == [disk EXCEPT ![field] = value]

ModelSet(id) ==
  /\ Change /\ Idle
  /\ active' = id
  /\ chosen' = models[id]
  /\ IF hasFile
     THEN meta' = models[id] /\ SwitchModel(models[id]) /\ UNCHANGED saving
     ELSE /\ saving' = [cfg |-> Update("model", models[id]), switch |-> TRUE]
          /\ UNCHANGED <<meta, agent, told>>
  /\ UNCHANGED <<conf, disk, other, models, rm, level, file>>

ThemeSet(name) ==
  /\ Change /\ Idle
  /\ saving' = [cfg |-> Update("theme", name), switch |-> FALSE]
  /\ UNCHANGED <<conf, disk, other, models, active, rm, meta, level, agent, told, file, chosen>>

(* ... and put it in the file's place, or fail to; the switch goes on.     *)
Saved(ok) ==
  /\ ~Idle
  /\ IF ok THEN disk' = saving.cfg /\ rm' = saving.cfg ELSE UNCHANGED <<disk, rm>>
  /\ saving' = None
  /\ IF saving.switch THEN SwitchModel(models[active]) ELSE UNCHANGED <<agent, told>>
  /\ UNCHANGED <<conf, other, models, active, meta, level, file, chosen, changes>>

SetReasoningLevel(l) ==
  /\ Change /\ Idle
  /\ level' = l
  /\ agent' = IF agent = None THEN None ELSE [agent EXCEPT !.level = l]
  /\ told' = [told EXCEPT !.level = l]
  /\ UNCHANGED <<conf, disk, other, models, active, rm, saving, meta, file, chosen>>

(* A task starts; ensureAgentInitialized builds the first provider.        *)
Prompt ==
  /\ Idle /\ agent = None
  /\ active \in DOMAIN models /\ models[active] \notin Broken
  /\ agent' = [name |-> models[active], level |-> level]
  /\ UNCHANGED <<conf, disk, other, models, active, rm, saving, meta, level, told, file, chosen, changes>>

(* :save, or the save after a task.                                        *)
Save ==
  /\ Idle /\ hasFile
  /\ file' = NameOf(models, active)
  /\ UNCHANGED <<conf, disk, other, models, active, rm, saving, meta, level, agent, told, chosen, changes>>

(* Another instance switches its theme or its model.                       *)
OtherReads(field, value) ==
  /\ Change /\ other = None
  /\ other' = Update(field, value)
  /\ UNCHANGED <<conf, disk, models, active, rm, saving, meta, level, agent, told, file, chosen>>

OtherWrites ==
  /\ other # None
  /\ disk' = other /\ other' = None
  /\ UNCHANGED <<conf, models, active, rm, saving, meta, level, agent, told, file, chosen, changes>>

SettingsNext ==
  /\ UNCHANGED hasFile
  /\ \/ \E c \in Confs : EditConf(c) \/ ModelSync(c)
     \/ ModelLoad
     \/ \E id \in DOMAIN models : ModelSet(id)
     \/ ThemeSet("light")
     \/ \E ok \in BOOLEAN : Saved(ok)
     \/ \E l \in Levels : SetReasoningLevel(l)
     \/ Prompt \/ Save
     \/ OtherReads("theme", "solar") \/ OtherReads("model", "b")
     \/ OtherWrites

SettingsSpec == SettingsInit /\ [][SettingsNext]_vars
-----------------------------------------------------------------------------
(* Whatever switch, reload or sync failed half way, the status bar never   *)
(* shows another model or reasoning level than the one requests go to; and *)
(* that is the active model, unless none is active or it is one no         *)
(* provider can be built for.                                              *)
ToldIsUsed ==
  agent # None =>
    /\ told.name = agent.name /\ told.level = agent.level
    /\ Idle /\ active \in DOMAIN models /\ models[active] \notin Broken =>
         agent.name = models[active]

(* A reload or a sync never takes a session with a file away from the      *)
(* model its user switched to, while that model exists (IDs are dealt      *)
(* again on each) and --model does not say otherwise.                      *)
SwitchSticks ==
  hasFile /\ Override = "" /\ chosen # "" /\ FindModelByName(models, chosen) # 0 =>
    NameOf(models, active) = chosen

(* The model shown is the model used, and a reload keeps the chosen one.   *)
SettingsHeld == ToldIsUsed /\ SwitchSticks
=============================================================================
