----------------------------- MODULE HostProofs -----------------------------
(***************************************************************************)
(* Three things the parts of the program that read and keep get right.     *)
(* Settings: which model a session talks to, what it says, and what the    *)
(* user chose agree, for every model.conf, whatever is rejected in it, and *)
(* any number of changes.  MCPTokens: while no refresh is disturbed, the   *)
(* refresh token the server still takes is never lost, for any number of   *)
(* requests, tokens and starts.  InputPump: between the frames an adapter  *)
(* writes and the messages run() takes, no part is lost, doubled or out of *)
(* order, and every command has one answer that finds its name.            *)
(***************************************************************************)
EXTENDS Settings, MCPTokens, InputPump, SequenceTheorems, WellFoundedInduction, TLAPS

-----------------------------------------------------------------------------
(* Settings.                                                               *)

(* Records: a provider and a save are not None, and have their fields.     *)
Shapes ==
  /\ DOMAIN models \subseteq Nat
  /\ told = [name |-> told.name, level |-> told.level, list |-> told.list]
  /\ agent = None \/ agent = [name |-> agent.name, level |-> agent.level]
  /\ saving = None \/ (saving = [cfg |-> saving.cfg, switch |-> saving.switch]
                        /\ saving.switch \in BOOLEAN)

(* The session's own choice is the one reloads go by.                      *)
MetaIsChosen == hasFile /\ chosen # "" => meta = chosen

(* What is said is what is used, ...                                       *)
Agreed ==
  /\ told.level = level
  /\ agent # None => agent.name = told.name /\ agent.level = level
(* ... and what is active, except while a switch is about to be made.      *)
Switching == saving # None /\ saving.switch
Followed ==
  /\ Switching => active \in DOMAIN models
  /\ ~Switching /\ active \in DOMAIN models /\ models[active] \notin Broken =>
       told.name = models[active]

IInv == Shapes /\ MetaIsChosen /\ Agreed /\ Followed /\ SwitchSticks

-----------------------------------------------------------------------------
(* No record of another shape is None.                                     *)
LEMMA NotNone ==
  ASSUME NEW a, NEW b
  PROVE  [cfg |-> a, switch |-> b] # None /\ [name |-> a, level |-> b] # None
<1>1. DOMAIN None = {"none"} BY DEF None
<1>2. DOMAIN [cfg |-> a, switch |-> b] = {"cfg", "switch"} OBVIOUS
<1>3. DOMAIN [name |-> a, level |-> b] = {"name", "level"} OBVIOUS
<1> QED BY <1>1, <1>2, <1>3

(* findModelByName returns a model of that name, if it returns one.        *)
LEMMA FoundIsNamed ==
  ASSUME NEW list, NEW name, DOMAIN list \subseteq Nat, FindModelByName(list, name) # 0
  PROVE  /\ FindModelByName(list, name) \in DOMAIN list
         /\ list[FindModelByName(list, name)] = name
<1> DEFINE T == {i \in DOMAIN list : list[i] = name}
           Less == {ss \in Nat \X Nat : ss[1] < ss[2]}
<1>1. T # {} /\ T \subseteq Nat
  BY DEF FindModelByName
<1>2. PICK i \in T : \A j \in T : ~(<<j, i>> \in Less)
  <2>1. Less = OpToRel(<, Nat)
    BY DEF OpToRel
  <2>2. IsWellFoundedOn(Less, Nat)
    BY <2>1, NatLessThanWellFounded
  <2> HIDE DEF T, Less
  <2> QED BY <1>1, <2>2, WFMin
<1>3. i \in DOMAIN list /\ list[i] = name /\ \A j \in DOMAIN list : list[j] = name => i <= j
  <2> SUFFICES ASSUME NEW j \in T, ~(i <= j) PROVE FALSE
    OBVIOUS
  <2>1. i \in Nat /\ j \in Nat /\ j < i
    BY <1>1
  <2>2. <<j, i>> \in Less
    BY <2>1
  <2> QED BY <1>2, <2>2
<1> QED BY <1>1, <1>3 DEF FindModelByName

(* The places of the models of a list.                                     *)
LEMMA ListPlaces ==
  ASSUME NEW blocks
  PROVE  DOMAIN ParseModelConfig(blocks) \subseteq Nat /\ DOMAIN Valid(blocks) \subseteq Nat
<1>1. ASSUME NEW kept PROVE DOMAIN NamesOf(blocks, kept) \subseteq Nat
  BY DEF NamesOf
<1> QED BY <1>1 DEF ParseModelConfig, Valid

(* ResolveActiveModel goes by the session's own choice before runtime.conf.*)
LEMMA ChoiceIsResolved ==
  ASSUME NEW list, NEW was, DOMAIN list \subseteq Nat,
         Override = "", meta # "", FindModelByName(list, meta) # 0
  PROVE  NameOf(list, ResolveActiveModel(list, was)) = meta
<1>1. ResolveActiveModel(list, was) = FindModelByName(list, meta)
  BY DEF ResolveActiveModel, Prefer
<1> QED BY <1>1, FoundIsNamed DEF NameOf

-----------------------------------------------------------------------------
(* What settings start with: a list, a resolved model, and told as much.    *)
LEMMA InitIInv == SettingsInit => IInv
<1> SUFFICES ASSUME SettingsInit PROVE IInv
  OBVIOUS
<1>1. Shapes
  BY ListPlaces DEF SettingsInit, Shapes
<1>2. MetaIsChosen /\ SwitchSticks
  BY DEF SettingsInit, MetaIsChosen, SwitchSticks
<1>3. Agreed
  BY DEF SettingsInit, Agreed
<1>4. Followed
  BY DEF SettingsInit, Followed, Switching, NameOf
<1> QED BY <1>1, <1>2, <1>3, <1>4 DEF IInv

(* A reload and a sync: a new list, and what becomes active in it.         *)
LEMMA InstalledIInv ==
  ASSUME IInv, Idle, NEW list, DOMAIN list \subseteq Nat, Installed(list),
         UNCHANGED <<hasFile, saving, meta, level, chosen>>
  PROVE  IInv'
<1> DEFINE now == ResolveActiveModel(list, active)
<1>1. models' = list /\ active' = now
  BY DEF Installed
<1>2. ~Switching'
  BY DEF Idle, Switching
<1>3. MetaIsChosen'
  BY DEF IInv, MetaIsChosen
<1>4. SwitchSticks'
  <2> SUFFICES ASSUME hasFile, Override = "", chosen # "", FindModelByName(list, chosen) # 0
               PROVE  NameOf(list, now) = chosen
    BY <1>1 DEF SwitchSticks
  <2>1. meta = chosen
    BY DEF IInv, MetaIsChosen
  <2> QED BY <2>1, ChoiceIsResolved
<1>5. CASE now \notin DOMAIN list \/ list[now] \in Broken
  <2>1. UNCHANGED <<agent, told>>
    BY <1>5 DEF Installed
  <2>2. Shapes' /\ Agreed' /\ Followed'
    BY <1>1, <1>2, <1>5, <2>1 DEF IInv, Shapes, Agreed, Followed
  <2> QED BY <1>3, <1>4, <2>2 DEF IInv
<1>6. CASE now \in DOMAIN list /\ list[now] \notin Broken
  <2>1. /\ agent' = [name |-> list[now], level |-> level]
        /\ told' = [told EXCEPT !.name = list[now], !.list = list]
    BY <1>6 DEF Installed
  <2>2. told' = [name |-> list[now], level |-> told.level, list |-> list]
    BY <2>1 DEF IInv, Shapes
  <2>3. Shapes'
    BY <1>1, <2>1, <2>2 DEF IInv, Shapes
  <2>4. Agreed' /\ Followed'
    BY <1>1, <1>2, <2>1, <2>2 DEF IInv, Agreed, Followed
  <2> QED BY <1>3, <1>4, <2>3, <2>4 DEF IInv
<1> QED BY <1>5, <1>6

(* A switch to the model that is active.                                   *)
LEMMA SwitchedIInv ==
  ASSUME IInv, active' \in DOMAIN models, SwitchModel(models[active']), ~Switching',
         UNCHANGED <<models, level>>, MetaIsChosen', SwitchSticks',
         saving' = None \/ saving' = saving
  PROVE  IInv'
<1>1. CASE models[active'] \in Broken
  <2>1. UNCHANGED <<agent, told>>
    BY <1>1 DEF SwitchModel
  <2> QED BY <1>1, <2>1 DEF IInv, Shapes, Agreed, Followed
<1>2. CASE models[active'] \notin Broken
  <2>1. /\ agent' = [name |-> models[active'], level |-> level]
        /\ told' = [told EXCEPT !.name = models[active']]
    BY <1>2 DEF SwitchModel
  <2>2. told' = [name |-> models[active'], level |-> told.level, list |-> told.list]
    BY <2>1 DEF IInv, Shapes
  <2> QED BY <2>1, <2>2 DEF IInv, Shapes, Agreed, Followed
<1> QED BY <1>1, <1>2

(* Every step keeps the invariant.                                         *)
LEMMA NextIInv == IInv /\ [SettingsNext]_vars => IInv'
<1> SUFFICES ASSUME IInv, [SettingsNext]_vars PROVE IInv'
  OBVIOUS
<1>0. UNCHANGED hasFile
  BY DEF SettingsNext, vars
<1> USE <1>0 DEF IInv
<1>1. ASSUME NEW c \in Confs, EditConf(c) PROVE IInv'
  BY <1>1 DEF EditConf, Shapes, MetaIsChosen, Agreed, Followed, Switching, SwitchSticks
<1>2. ASSUME NEW c \in Confs, ModelSync(c) PROVE IInv'
  <2>1. CASE Valid(c) = <<>> /\ c # <<>>
    BY <1>2, <2>1, InstalledIInv DEF ModelSync, Shapes
  <2>2. CASE ~(Valid(c) = <<>> /\ c # <<>>)
    BY <1>2, <2>2, ListPlaces, InstalledIInv DEF ModelSync
  <2> QED BY <2>1, <2>2
<1>3. CASE ModelLoad
  BY <1>3, ListPlaces, InstalledIInv DEF ModelLoad
<1>4. ASSUME NEW id \in DOMAIN models, ModelSet(id) PROVE IInv'
  <2>1. /\ Idle /\ id \in DOMAIN models /\ active' = id /\ chosen' = models[id]
        /\ UNCHANGED <<models, level>>
    BY <1>4 DEF ModelSet
  <2>2. SwitchSticks'
    BY <2>1 DEF SwitchSticks, NameOf
  <2>3. CASE hasFile
    <3>1. meta' = models[id] /\ SwitchModel(models[id]) /\ saving' = saving
      BY <1>4, <2>3 DEF ModelSet
    <3>2. MetaIsChosen' /\ ~Switching'
      BY <2>1, <3>1 DEF MetaIsChosen, Switching, Idle
    <3> QED BY <2>1, <2>2, <3>1, <3>2, SwitchedIInv
  <2>4. CASE ~hasFile
    <3>1. /\ saving' = [cfg |-> Update("model", models[id]), switch |-> TRUE]
          /\ UNCHANGED <<agent, told>>
      BY <1>4, <2>4 DEF ModelSet
    <3>2. Shapes'
      BY <2>1, <3>1 DEF Shapes
    <3>3. Switching'
      BY <3>1, NotNone DEF Switching
    <3> QED BY <2>1, <2>2, <2>4, <3>1, <3>2, <3>3 DEF MetaIsChosen, Agreed, Followed
  <2> QED BY <2>3, <2>4
<1>5. CASE ThemeSet("light")
  <2>1. saving' = [cfg |-> Update("theme", "light"), switch |-> FALSE] /\ ~Switching
    BY <1>5 DEF ThemeSet, Idle, Switching
  <2>2. Shapes'
    BY <1>5, <2>1 DEF ThemeSet, Shapes
  <2>3. ~Switching'
    BY <2>1 DEF Switching
  <2> QED BY <1>5, <2>1, <2>2, <2>3 DEF ThemeSet, MetaIsChosen, Agreed, Followed, SwitchSticks
<1>6. ASSUME NEW ok \in BOOLEAN, Saved(ok) PROVE IInv'
  <2>1. saving' = None /\ ~Switching' /\ saving # None
    BY <1>6 DEF Saved, Idle, Switching
  <2>2. MetaIsChosen' /\ SwitchSticks'
    BY <1>6 DEF Saved, MetaIsChosen, SwitchSticks
  <2>3. CASE saving.switch
    <3>1. active' \in DOMAIN models /\ SwitchModel(models[active'])
      BY <1>6, <2>1, <2>3 DEF Saved, Followed, Switching
    <3> QED BY <1>6, <2>1, <2>2, <3>1, SwitchedIInv DEF Saved
  <2>4. CASE ~saving.switch
    <3>1. UNCHANGED <<agent, told, models, active, level>> /\ ~Switching
      BY <1>6, <2>4 DEF Saved, Switching
    <3> QED BY <2>1, <2>2, <3>1 DEF Shapes, Agreed, Followed
  <2> QED BY <2>3, <2>4
<1>7. ASSUME NEW l \in Levels, SetReasoningLevel(l) PROVE IInv'
  <2>1. /\ level' = l /\ told' = [name |-> told.name, level |-> l, list |-> told.list]
        /\ UNCHANGED <<models, active, saving, meta, chosen>>
    BY <1>7 DEF SetReasoningLevel, Shapes
  <2>2. MetaIsChosen' /\ SwitchSticks' /\ Followed'
    BY <2>1 DEF MetaIsChosen, SwitchSticks, Followed, Switching
  <2>3. CASE agent = None
    <3>1. agent' = None
      BY <1>7, <2>3 DEF SetReasoningLevel
    <3> QED BY <2>1, <2>2, <3>1 DEF Shapes, Agreed
  <2>4. CASE agent # None
    <3>1. agent' = [name |-> agent.name, level |-> l]
      BY <1>7, <2>4 DEF SetReasoningLevel, Shapes
    <3> QED BY <2>1, <2>2, <2>4, <3>1 DEF Shapes, Agreed
  <2> QED BY <2>3, <2>4
<1>8. CASE Prompt
  <2>1. agent' = [name |-> models[active], level |-> level] /\ told.name = models[active]
    BY <1>8 DEF Prompt, Followed, Switching, Idle
  <2>2. UNCHANGED <<models, active, saving, meta, level, told, chosen>>
    BY <1>8 DEF Prompt
  <2> QED BY <2>1, <2>2 DEF Shapes, MetaIsChosen, Agreed, Followed, Switching, SwitchSticks
<1>9. CASE Save
  BY <1>9 DEF Save, Shapes, MetaIsChosen, Agreed, Followed, Switching, SwitchSticks
<1>10. ASSUME NEW field, NEW value, OtherReads(field, value) PROVE IInv'
  BY <1>10 DEF OtherReads, Shapes, MetaIsChosen, Agreed, Followed, Switching, SwitchSticks
<1>11. CASE OtherWrites
  BY <1>11 DEF OtherWrites, Shapes, MetaIsChosen, Agreed, Followed, Switching, SwitchSticks
<1>12. CASE UNCHANGED vars
  <2>1. UNCHANGED <<models, active, saving, meta, level, agent, told, chosen>>
    BY <1>12 DEF vars
  <2> QED
    BY <2>1 DEF Shapes, MetaIsChosen, Agreed, Followed, Switching, SwitchSticks
<1> QED
  BY <1>1, <1>2, <1>3, <1>4, <1>5, <1>6, <1>7, <1>8, <1>9, <1>10, <1>11, <1>12
  DEF SettingsNext

-----------------------------------------------------------------------------
(* So it holds in every state.                                            *)
LEMMA Invariance == SettingsSpec => []IInv
BY InitIInv, NextIInv, PTL DEF SettingsSpec

(* The status bar shows the model and the level requests go to, and that is*)
(* the active model, whichever step of a switch, a reload or a sync failed *)
(* (handleModelSet, handleModelLoad, handleModelSync); ids are dealt again *)
(* on every reload, and the model a session with a file was switched to    *)
(* stays active while it exists (ResolveActiveModel).                      *)
THEOREM ShownAndChosen == SettingsSpec => []SettingsHeld
<1>1. IInv => ToldIsUsed
  BY DEF IInv, Agreed, Followed, Switching, Idle, ToldIsUsed
<1>2. IInv => SettingsHeld
  BY <1>1 DEF IInv, SettingsHeld
<1> QED BY <1>2, Invariance, PTL

-----------------------------------------------------------------------------
(* MCPTokens.                                                              *)

MaybeToken == TokenSet \cup {NoToken}
InToken == {"loaded", "refresh", "innerRefresh", "renewed", "keep"}

TokensTypeOK ==
  /\ {running, endpoint, disturbed} \subseteq BOOLEAN
  /\ granted \in Nat
  /\ {tokenFile, obtained, cached} \subseteq MaybeToken
  /\ at \in [Posts -> {"idle", "again", "post", "load", "inner"} \cup InToken]
  /\ tok \in [Posts -> MaybeToken]
  /\ tries \in [Posts -> Nat] /\ refused \in [Posts -> BOOLEAN]

(* Nothing the server takes is lost with every other token but t.          *)
Good(t) == t \in TokenSet /\ \A r \in 1 .. granted : Accepts(r) => t.refresh = r

(* One request has the newest token, and nobody else touches the provider. *)
Pending(c) ==
  Saving(c) /\ Good(tok[c]) /\ \A d \in Posts \ {c} : at[d] \in Resting

Runs ==
  /\ running => obtained \in TokenSet /\ granted > 0
  /\ ~running => \A c \in Posts : at[c] = "idle"
  /\ granted = 0 => tokenFile = NoToken
  /\ \A c \in Posts : at[c] \in InToken => tok[c] \in TokenSet

Kept ==
  /\ granted = 0 \/ Good(tokenFile) \/ \E c \in Posts : Pending(c)
  /\ cached = NoToken \/ Good(cached) \/ \E c \in Posts : Pending(c) /\ at[c] = "renewed"
  /\ \A c \in Posts : /\ at[c] \in InToken => Good(tok[c])
                      /\ at[c] = "inner" => Good(obtained)
  /\ running => Good(obtained) \/ endpoint

TokensInv == TokensTypeOK /\ Runs /\ (~disturbed => Kept)

-----------------------------------------------------------------------------
USE TokensAssumption DEF MaybeToken, InToken

(* A token that cannot be renewed and is good leaves nothing to be lost.   *)
LEMMA NothingToLose ==
  ASSUME NEW t, Good(t), ~Accepts(t.refresh), NEW u \in TokenSet
  PROVE  Good(u)
BY DEF Good, Accepts

LEMMA TokensInitInv == TokensInit => TokensInv
<1> SUFFICES ASSUME TokensInit PROVE TokensInv
  OBVIOUS
<1>1. TokensTypeOK
  <2>1. tries \in [Posts -> Nat] /\ refused \in [Posts -> BOOLEAN] /\ tok \in [Posts -> MaybeToken]
    BY DEF TokensInit
  <2> QED BY <2>1 DEF TokensInit, TokensTypeOK
<1>2. Runs /\ Kept
  BY DEF TokensInit, Runs, Kept
<1> QED BY <1>1, <1>2 DEF TokensInv

LEMMA StartInv == ASSUME TokensInv, StartProgram \/ StopProgram PROVE TokensInv'
<1> USE DEF process, provider, request, authServer
<1>1. CASE StopProgram
  BY <1>1 DEF StopProgram, TokensInv, TokensTypeOK, Runs, Kept, Good, Accepts, Pending, Saving
<1>2. CASE StartProgram /\ StartStored
  <2>1. obtained' = tokenFile /\ tokenFile' = tokenFile /\ tokenFile \in TokenSet
    BY <1>2 DEF StartStored, Stored, TokensInv, TokensTypeOK
  <2>2. (TokensTypeOK /\ Runs)'
    <3>1. granted \in Nat /\ granted # 0
      BY <2>1 DEF TokensInv, TokensTypeOK, Runs
    <3>2. TokensTypeOK'
      BY <1>2, <2>1 DEF StartProgram, StartStored, TokensInv, TokensTypeOK
    <3>3. Runs'
      BY <1>2, <2>1, <3>1 DEF StartProgram, StartStored, TokensInv, Runs
    <3> QED BY <3>2, <3>3
  <2>3. ASSUME ~disturbed' PROVE Good(tokenFile)'
    BY <1>2, <2>1, <2>3 DEF StartProgram, StartStored, TokensInv, TokensTypeOK, Runs, Kept,
                            Good, Accepts, Pending, Saving
  <2>4. ASSUME ~disturbed' PROVE Kept'
    BY <1>2, <2>1, <2>3, <2>4 DEF StartProgram, Kept, TokensInv, Runs
  <2> QED BY <2>2, <2>4 DEF TokensInv
<1>3. CASE StartProgram /\ Authorize
  <2>1. /\ granted \in Nat /\ granted' = granted + 1
        /\ obtained' \in {Token(granted + 1, granted + 1, TRUE), Token(granted + 1, 0, TRUE)}
        /\ tokenFile' \in {tokenFile, obtained'}
        /\ \A c \in Posts : at[c] = "idle"
        /\ cached' = NoToken /\ running' = TRUE /\ endpoint' = TRUE
        /\ UNCHANGED request
    BY <1>3 DEF StartProgram, Authorize, TokensInv, TokensTypeOK, Runs
  <2>0. obtained' \in TokenSet /\ granted' \in Nat /\ granted' > 0
    <3>1. Token(granted + 1, granted + 1, TRUE) \in TokenSet
      BY <2>1 DEF Token, TokenSet
    <3>2. Token(granted + 1, 0, TRUE) \in TokenSet
      BY <2>1 DEF Token, TokenSet
    <3>3. obtained' \in TokenSet
      BY <2>1, <3>1, <3>2
    <3>4. granted \in Nat /\ granted' = granted + 1
      BY <2>1
    <3> QED BY <3>3, <3>4
  <2>2. (TokensTypeOK /\ Runs)'
    <3>1. disturbed' \in BOOLEAN
      BY <1>3 DEF Authorize, TokensInv, TokensTypeOK
    <3> QED BY <2>1, <2>0, <3>1 DEF TokensInv, TokensTypeOK, Runs
  <2>3. ASSUME ~disturbed' PROVE Good(obtained)' /\ tokenFile' = obtained'
    <3>1. ~disturbed /\ tokenFile' = obtained'
      BY <1>3, <2>3 DEF StartProgram, Authorize, TokensInv, TokensTypeOK
    <3>2. \A r \in 1 .. granted : ~Accepts(r)
      <4>1. tokenFile = NoToken \/ tokenFile.refresh = 0
        BY <1>3 DEF StartProgram, Authorize, Stored, Renewable
      <4>2. granted = 0 \/ Good(tokenFile)
        BY <2>1, <3>1 DEF TokensInv, Kept, Pending, Saving
      <4> QED BY <4>1, <4>2, <2>1 DEF Good, Accepts
    <3>3. /\ revoked' = revoked
          /\ \/ spent' = spent /\ obtained' = Token(granted + 1, granted + 1, TRUE)
             \/ spent' = spent \cup {granted + 1} /\ obtained' = Token(granted + 1, 0, TRUE)
      BY <1>3 DEF StartProgram, Authorize
    <3>4. ASSUME NEW r \in 1 .. granted', Accepts(r)' PROVE obtained'.refresh = r
      <4>1. r \in 1 .. granted \/ r = granted + 1
        BY <2>1
      <4>2. ~(r \in 1 .. granted)
        BY <3>2, <3>3, <3>4 DEF Accepts
      <4> QED BY <4>1, <4>2, <3>3, <3>4 DEF Accepts, Token
    <3> QED BY <3>1, <3>4, <2>0 DEF Good
  <2>4. ASSUME ~disturbed' PROVE Kept'
    <3>1. Good(obtained)' /\ Good(tokenFile)'
      BY <2>3, <2>4 DEF Good
    <3> QED BY <2>1, <3>1 DEF Kept
  <2> QED BY <2>2, <2>4 DEF TokensInv
<1> QED BY <1>1, <1>2, <1>3 DEF StartProgram

LEMMA ServerInv == ASSUME TokensInv, Expire \/ Revoke PROVE TokensInv'
BY DEF process, provider, request, authServer, Expire, Revoke, TokensInv, TokensTypeOK, Runs,
       Kept, Good, Accepts, Pending, Saving, Resting

(* A request that reads, remembers or writes grants nothing.               *)
LEMMA KeepInv ==
  ASSUME TokensInv, NEW c \in Posts, SetCached(c) \/ Persist(c) \/ Answered(c)
  PROVE  TokensInv'
<1> USE DEF process, provider, request, authServer, Moves
<1>1. CASE SetCached(c)
  BY <1>1 DEF SetCached, TokensInv, TokensTypeOK, Runs, Kept, Good, Accepts, Pending, Saving,
              Resting
<1>2. CASE Persist(c)
  <2>1. (TokensTypeOK /\ Runs)'
    <3>1. tok[c] \in TokenSet /\ granted # 0
      BY <1>2 DEF Persist, TokensInv, TokensTypeOK, Runs
    <3>2. TokensTypeOK'
      BY <1>2 DEF Persist, TokensInv, TokensTypeOK
    <3> QED BY <1>2, <3>1, <3>2 DEF Persist, TokensInv, TokensTypeOK, Runs
  <2>2. ASSUME ~disturbed' PROVE Kept'
    <3>1. ~disturbed /\ tokenFile' = tok[c] /\ Good(tok[c])
      BY <1>2, <2>2 DEF Persist, TokensInv, TokensTypeOK, Kept
    <3> QED BY <1>2, <3>1 DEF Persist, TokensInv, TokensTypeOK, Runs, Kept, Good, Accepts,
                              Pending, Saving, Resting
  <2> QED BY <2>1, <2>2 DEF TokensInv
<1>3. CASE Answered(c)
  BY <1>3 DEF Answered, TokensInv, TokensTypeOK, Runs, Kept, Good, Accepts, Pending, Saving,
              Resting
<1> QED BY <1>1, <1>2, <1>3

LEMMA TakeInv ==
  ASSUME TokensInv, NEW c \in Posts,
         AskToken(c) \/ LoadToken(c) \/ RememberLoaded(c) \/ FromInner(c)
  PROVE  TokensInv'
<1> USE DEF process, provider, request, authServer, Moves, Holds, Choice, Renewable
<1>1. CASE AskToken(c)
  BY <1>1, NothingToLose DEF AskToken, TokensInv, TokensTypeOK, Runs, Kept, Good, Accepts,
              Pending, Saving, Resting
<1>2. CASE LoadToken(c)
  BY <1>2 DEF LoadToken, TokensInv, TokensTypeOK, Runs, Kept, Good, Accepts, Pending, Saving,
              Resting
<1>3. CASE RememberLoaded(c)
  BY <1>3, NothingToLose DEF RememberLoaded, TokensInv, TokensTypeOK, Runs, Kept, Good,
              Accepts, Pending, Saving, Resting
<1>4. CASE FromInner(c)
  BY <1>4 DEF FromInner, TokensInv, TokensTypeOK, Runs, Kept, Good, Accepts, Pending, Saving,
              Resting
<1> QED BY <1>1, <1>2, <1>3, <1>4

LEMMA RefreshInv ==
  ASSUME TokensInv, NEW c \in Posts, RefreshToken(c) PROVE TokensInv'
<1> USE DEF process, provider, request, authServer, Holds
<1>1. CASE Falls(c) /\ UNCHANGED authServer
  <2>1. (TokensTypeOK /\ Runs)'
    BY <1>1 DEF RefreshToken, Falls, TokensInv, TokensTypeOK, Runs
  <2>2. ASSUME ~disturbed' PROVE Kept'
    <3>1. ~disturbed /\ (~endpoint \/ ~Accepts(tok[c].refresh)) /\ Good(tok[c])
      BY <1>1, <2>2 DEF RefreshToken, TokensInv, TokensTypeOK, Kept
    <3>2. obtained \in TokenSet /\ Good(obtained)
      BY <1>1, <3>1, NothingToLose DEF RefreshToken, TokensInv, Runs, Kept
    <3> QED BY <1>1, <3>1, <3>2 DEF RefreshToken, Falls, TokensInv, TokensTypeOK, Runs, Kept,
                                    Good, Accepts, Pending, Saving, Resting
  <2> QED BY <2>1, <2>2 DEF TokensInv
<1>2. CASE /\ granted' = granted + 1 /\ Accepts(tok[c].refresh)
           /\ at' = [at EXCEPT ![c] = "renewed"]
           /\ \E rotates \in BOOLEAN :
                /\ tok' = [tok EXCEPT ![c] = Renewed(tok[c], rotates)]
                /\ spent' = spent \cup {IF rotates THEN tok[c].refresh ELSE granted + 1}
           /\ disturbed' = (disturbed \/ \E d \in Posts \ {c} : at[d] \notin Resting)
           /\ endpoint /\ UNCHANGED <<process, tokenFile, provider, tries, refused, revoked>>
  <2> PICK rotates \in BOOLEAN :
         /\ tok' = [tok EXCEPT ![c] = Renewed(tok[c], rotates)]
         /\ spent' = spent \cup {IF rotates THEN tok[c].refresh ELSE granted + 1}
    BY <1>2
  <2>1. granted \in Nat /\ tok[c] \in MaybeToken /\ c \in Posts
    BY DEF TokensInv, TokensTypeOK
  <2>2. Renewed(tok[c], rotates) \in TokenSet
    <3>1. tok[c] \in TokenSet
      BY DEF RefreshToken, TokensInv, Runs
    <3> QED BY <2>1, <3>1 DEF Renewed, Token, TokenSet
  <2>3. tok'[c] = Renewed(tok[c], rotates)
    BY <2>1 DEF TokensInv, TokensTypeOK
  <2>4. (TokensTypeOK /\ Runs)'
    <3>1. TokensTypeOK'
      BY <1>2, <2>1, <2>2 DEF TokensInv, TokensTypeOK, process, provider
    <3>2. running /\ granted' > 0
      BY <1>2, <2>1 DEF RefreshToken
    <3> QED BY <1>2, <2>1, <2>2, <2>3, <3>1, <3>2 DEF TokensInv, TokensTypeOK, Runs, process
  <2>5. ASSUME ~disturbed' PROVE Kept'
    <3>1. ~disturbed /\ \A d \in Posts \ {c} : at[d] \in Resting /\ at'[d] = at[d]
      BY <1>2, <2>5 DEF TokensInv, TokensTypeOK
    <3>2. Good(tok[c])
      BY <3>1 DEF RefreshToken, TokensInv, Kept
    <3>3. ASSUME NEW r \in 1 .. granted', Accepts(r)'
          PROVE  Renewed(tok[c], rotates).refresh = r
      <4>1. r = granted + 1 \/ (r \in 1 .. granted /\ r = tok[c].refresh)
        BY <1>2, <2>1, <3>2, <3>3 DEF Good, Accepts
      <4> QED BY <1>2, <4>1, <3>3 DEF Accepts, Renewed, Token
    <3>4. Good(tok[c])' /\ at'[c] = "renewed"
      BY <1>2, <2>1, <2>2, <2>3, <3>3 DEF Good, TokensInv, TokensTypeOK
    <3>5. Pending(c)'
      BY <3>1, <3>4 DEF Pending, Saving
    <3> QED BY <1>2, <3>1, <3>4, <3>5 DEF Kept, Resting
  <2> QED BY <2>4, <2>5 DEF TokensInv
<1> QED BY <1>1, <1>2 DEF RefreshToken

LEMMA TokensInductive == TokensSpec => []TokensInv
<1>1. TokensInit => TokensInv
  BY TokensInitInv
<1>2. TokensInv /\ [TokensNext]_tokenVars => TokensInv'
  <2> SUFFICES ASSUME TokensInv, [TokensNext]_tokenVars PROVE TokensInv'
    OBVIOUS
  <2>1. CASE TokensNext
    BY <2>1, StartInv, ServerInv, KeepInv, TakeInv, RefreshInv DEF TokensNext, PostStep
  <2>2. CASE UNCHANGED tokenVars
    BY <2>2 DEF tokenVars, process, provider, request, authServer, TokensInv, TokensTypeOK,
                Runs, Kept, Good, Accepts, Pending, Saving
  <2> QED BY <2>1, <2>2
<1> QED BY <1>1, <1>2, PTL DEF TokensSpec

(* Whatever expires, is called back, asked for, fallen back on, stopped and*)
(* started again: what the server still takes is on file or on its way.    *)
THEOREM RefreshTokenKept == TokensSpec => []TokenKept
<1>1. TokensInv => TokenKept
  BY DEF TokensInv, TokensTypeOK, Runs, Kept, Good, Pending, TokenKept
<1> QED BY <1>1, TokensInductive, PTL

-----------------------------------------------------------------------------
(* The input pump.  The invariant adds to PartsInOrder and CommandsAnswered*)
(* that a frame is read once (TakenOnce) and that only a command that was  *)
(* read is answered (AnswersAsked); BoxesMove, the lemma every step goes   *)
(* through, says that the order of the parts survives whatever moves the   *)
(* staged ones as a whole.                                                 *)

InputTags == {"UX", "UE", "CI", "CE", "empty", "badcommand", "badframe", "broken"}
FrameLists ==
  {<<"UX", "UX", "UE">>, <<"UX", "UE">>, <<"CI">>, <<"CE">>, <<"UX">>, <<"empty">>,
   <<"badcommand">>, <<"badframe">>, <<"broken">>}
Issues == [kind : {"media", "message", "command", "auth", "end", "UX", "empty", "badcommand",
                   "badframe", "broken"}, frames : FrameLists]
InFrames == [tag : InputTags, of : Nat, k : Nat]
InMsgs == [kind : {"prompt", "err", "reject", "cmd", "end"}, parts : Seq(InFrames), of : Nat]

PumpTypes ==
  /\ issued \in Seq(Issues) /\ written \in Seq(Nat) /\ Len(written) = Len(issued)
  /\ taken \in Seq(InFrames) /\ staged \in Seq(InFrames) /\ msgs \in Seq(InMsgs)
  /\ sent \in Nat /\ handled \in Nat /\ handled <= sent /\ sent <= Len(msgs)

(* A frame is read once, after those written before it.                    *)
TakenOnce ==
  /\ \A e \in 1 .. Len(issued) : written[e] <= Len(issued[e].frames)
  /\ \A i \in 1 .. Len(taken) :
       /\ taken[i].of \in 1 .. Len(issued)
       /\ 1 <= taken[i].k /\ taken[i].k <= written[taken[i].of]
       /\ taken[i].tag = issued[taken[i].of].frames[taken[i].k]
  /\ \A i, h \in 1 .. Len(taken) : taken[i] = taken[h] => i = h

(* A message that answers is the answer to a command that was read, and    *)
(* until it is taken the command has its name.                             *)
AnswersAsked ==
  /\ \A j \in 1 .. Len(msgs) : msgs[j].kind \in {"cmd", "reject"} =>
       \E i \in 1 .. Len(taken) : taken[i].tag = "CI" /\ taken[i].of = msgs[j].of
  /\ \A j \in handled + 1 .. Len(msgs) : msgs[j].kind \in {"cmd", "reject"} =>
       msgs[j].of \in names
  /\ nameless = {}

(* CommandsAnswered, of one command.                                       *)
AnsweredOnce(e) == \E j \in 1 .. Len(msgs) : \A l \in 1 .. Len(msgs) : Answers(l, e) <=> l = j

PumpInv == PumpTypes /\ TakenOnce /\ PartsInOrder /\ CommandsAnswered /\ AnswersAsked

LEMMA FramesOfIssue ==
  /\ \A fs \in FrameLists :
       /\ fs \in Seq(InputTags) /\ Len(fs) \in Nat
       /\ \A n \in 1 .. Len(fs) : fs[n] \in InputTags /\ (fs[n] = "CI" => n = 1 /\ Len(fs) = 1)
       /\ fs[1] = "CI" => Len(fs) = 1
  /\ \A kind \in IssueKinds : \A fs \in SubmitCmd(kind) : [kind |-> kind, frames |-> fs] \in Issues
<1>1. ASSUME NEW fs \in FrameLists
      PROVE  /\ fs \in Seq(InputTags) /\ Len(fs) \in Nat
             /\ \A n \in 1 .. Len(fs) : fs[n] \in InputTags /\ (fs[n] = "CI" => n = 1 /\ Len(fs) = 1)
             /\ fs[1] = "CI" => Len(fs) = 1
  <2>1. CASE fs = <<"UX", "UX", "UE">>
    <3>1. Len(fs) = 3 /\ fs[1] = "UX" /\ fs[2] = "UX" /\ fs[3] = "UE" /\ fs \in Seq(InputTags)
      BY <2>1 DEF InputTags
    <3>2. \A n \in 1 .. Len(fs) : n = 1 \/ n = 2 \/ n = 3
      BY <3>1
    <3> QED
      BY <3>1, <3>2 DEF InputTags
  <2>2. CASE fs = <<"UX", "UE">>
    <3>1. Len(fs) = 2 /\ fs[1] = "UX" /\ fs[2] = "UE" /\ fs \in Seq(InputTags)
      BY <2>2 DEF InputTags
    <3>2. \A n \in 1 .. Len(fs) : n = 1 \/ n = 2
      BY <3>1
    <3> QED
      BY <3>1, <3>2 DEF InputTags
  <2>3. ASSUME NEW tag \in InputTags, fs = <<tag>>
        PROVE  /\ fs \in Seq(InputTags) /\ Len(fs) = 1 /\ fs[1] = tag
               /\ \A n \in 1 .. Len(fs) : n = 1
    BY <2>3
  <2>4. fs \in {<<"UX", "UX", "UE">>, <<"UX", "UE">>} \/ \E tag \in InputTags : fs = <<tag>>
    BY DEF FrameLists, InputTags
  <2> QED
    BY <2>1, <2>2, <2>3, <2>4
<1>2. ASSUME NEW kind \in IssueKinds, NEW fs \in SubmitCmd(kind)
      PROVE  [kind |-> kind, frames |-> fs] \in Issues
  <2>1. kind \in {"media", "message", "command", "auth", "end", "UX", "empty", "badcommand",
                  "badframe", "broken"}
    BY <1>2 DEF IssueKinds
  <2>2. fs \in FrameLists
    BY <1>2, <2>1 DEF SubmitCmd, Frames, FrameLists
  <2> QED
    BY <2>1, <2>2 DEF Issues
<1> QED
  BY <1>1, <1>2

LEMMA PumpStarts == PumpInit => PumpInv
<1> SUFFICES ASSUME PumpInit PROVE PumpInv
  OBVIOUS
<1>1. /\ issued = <<>> /\ written = <<>> /\ taken = <<>> /\ staged = <<>> /\ msgs = <<>>
      /\ sent = 0 /\ handled = 0 /\ nameless = {}
  BY DEF PumpInit
<1>2. Len(<<>>) = 0
  OBVIOUS
<1>3. PumpTypes
  BY <1>1, <1>2 DEF PumpTypes
<1>4. TakenOnce /\ CommandsAnswered /\ AnswersAsked
  BY <1>1, <1>2 DEF TakenOnce, CommandsAnswered, AnswersAsked
<1>5. PartsInOrder
  BY <1>1, <1>2 DEF PartsInOrder, Boxes, Box
<1> QED
  BY <1>3, <1>4, <1>5 DEF PumpInv

(* Staged parts go into one new message, or stay behind the new ones; the  *)
(* order in which the parts lie is that of before.                         *)
LEMMA BoxesMove ==
  ASSUME PumpInv, NEW g \in Nat, Len(msgs) < g, g <= Len(msgs') + 1,
         Len(msgs') \in Nat,
         \A j \in 1 .. Len(msgs) : Box(j)' = Box(j),
         Box(g)' = staged,
         \A j \in Len(msgs) + 1 .. Len(msgs') + 1 : j # g => Len(Box(j)') = 0,
         Len(taken') \in Nat, Len(taken) <= Len(taken'),
         \A i \in 1 .. Len(taken) : taken'[i] = taken[i],
         \A i \in Len(taken) + 1 .. Len(taken') :
           taken'[i].tag # "UX" /\ \A h \in 1 .. Len(taken) : taken'[i] # taken[h]
  PROVE  PartsInOrder'
<1> DEFINE Old(j) == IF j = g THEN Len(msgs) + 1 ELSE j
<1>0. Len(msgs) \in Nat /\ Len(taken) \in Nat
  BY DEF PumpInv, PumpTypes
<1>1. /\ Box(Len(msgs) + 1) = staged
      /\ \A j \in Boxes : j = Len(msgs) + 1 \/ j \in 1 .. Len(msgs)
  BY <1>0 DEF Box, Boxes
<1>2. ASSUME NEW j \in Boxes', NEW n \in 1 .. Len(Box(j)')
      PROVE  /\ Old(j) \in Boxes /\ Box(j)' = Box(Old(j))
             /\ j = g \/ j < Len(msgs) + 1
  <2>1. j \in 1 .. Len(msgs') + 1
    BY DEF Boxes
  <2>2. j = g \/ j \in 1 .. Len(msgs)
    BY <1>0, <1>2, <2>1
  <2> QED
    BY <1>0, <1>1, <2>2 DEF Boxes
<1>3. ASSUME NEW j \in Boxes
      PROVE  \E l \in Boxes' : Old(l) = j /\ Box(l)' = Box(j)
  <2>1. CASE j = Len(msgs) + 1
    BY <1>0, <1>1, <2>1 DEF Boxes
  <2>2. CASE j \in 1 .. Len(msgs)
    BY <1>0, <2>2 DEF Boxes
  <2> QED
    BY <1>1, <2>1, <2>2
<1>4. ASSUME NEW i \in 1 .. Len(taken'), NEW j \in Boxes', NEW n \in 1 .. Len(Box(j)'),
             Lies(taken[i], j, n)'
      PROVE  i \in 1 .. Len(taken) /\ taken'[i] = taken[i] /\ Lies(taken[i], Old(j), n)
             /\ n \in 1 .. Len(Box(Old(j)))
  <2>1. Old(j) \in Boxes /\ Box(j)' = Box(Old(j))
    BY <1>2
  <2>2. Box(Old(j))[n] = taken'[i] /\ n \in 1 .. Len(Box(Old(j)))
    BY <1>4, <2>1 DEF Lies
  <2>3. PICK h \in 1 .. Len(taken) : taken[h].tag = "UX" /\ Lies(taken[h], Old(j), n)
    BY <2>1, <2>2 DEF PumpInv, PartsInOrder
  <2>4. taken'[i] = taken[h]
    BY <2>2, <2>3 DEF Lies
  <2>5. i \in 1 .. Len(taken)
    BY <1>0, <2>3, <2>4
  <2> QED
    BY <2>2, <2>5 DEF Lies
<1> HIDE DEF Old
<1>5. ASSUME NEW i \in 1 .. Len(taken'), taken'[i].tag = "UX"
      PROVE  \E j \in Boxes' : \E n \in 1 .. Len(Box(j)') : Lies(taken[i], j, n)'
  <2>1. i \in 1 .. Len(taken) /\ taken[i] = taken'[i]
    BY <1>0, <1>5
  <2>2. PICK j \in Boxes : \E n \in 1 .. Len(Box(j)) : Lies(taken[i], j, n)
    BY <1>5, <2>1 DEF PumpInv, PartsInOrder
  <2>3. PICK l \in Boxes' : Box(l)' = Box(j)
    BY <1>3
  <2> QED
    BY <2>1, <2>2, <2>3 DEF Lies
<1>6. ASSUME NEW j \in Boxes', NEW n \in 1 .. Len(Box(j)')
      PROVE  \E i \in 1 .. Len(taken') : taken'[i].tag = "UX" /\ Lies(taken[i], j, n)'
  <2>1. Old(j) \in Boxes /\ Box(j)' = Box(Old(j)) /\ n \in 1 .. Len(Box(Old(j)))
    BY <1>2, <1>6
  <2>2. PICK i \in 1 .. Len(taken) : taken[i].tag = "UX" /\ Lies(taken[i], Old(j), n)
    BY <2>1 DEF PumpInv, PartsInOrder
  <2>3. i \in 1 .. Len(taken') /\ taken'[i] = taken[i]
    BY <1>0
  <2> QED
    BY <2>1, <2>2, <2>3 DEF Lies
<1>7. ASSUME NEW i \in 1 .. Len(taken'), NEW j \in Boxes', NEW n \in 1 .. Len(Box(j)'),
             Lies(taken[i], j, n)',
             NEW h \in 1 .. Len(taken'), NEW l \in Boxes', NEW m \in 1 .. Len(Box(l)'),
             Lies(taken[h], l, m)'
      PROVE  i < h <=> Comes(j, n, l, m)
  <2>1. /\ i \in 1 .. Len(taken) /\ Lies(taken[i], Old(j), n) /\ n \in 1 .. Len(Box(Old(j)))
        /\ Old(j) \in Boxes
    BY <1>2, <1>4, <1>7
  <2>2. /\ h \in 1 .. Len(taken) /\ Lies(taken[h], Old(l), m) /\ m \in 1 .. Len(Box(Old(l)))
        /\ Old(l) \in Boxes
    BY <1>2, <1>4, <1>7
  <2>3. i < h <=> Comes(Old(j), n, Old(l), m)
    BY <2>1, <2>2 DEF PumpInv, PartsInOrder
  <2>4. (Old(j) < Old(l) <=> j < l) /\ (Old(j) = Old(l) <=> j = l)
    <3>1. j \in Nat /\ l \in Nat /\ (j = g \/ j < Len(msgs) + 1) /\ (l = g \/ l < Len(msgs) + 1)
      BY <1>2 DEF Boxes
    <3> QED
      BY <1>0, <3>1 DEF Old
  <2> QED
    BY <2>3, <2>4 DEF Comes
<1> QED
  BY <1>5, <1>6, <1>7 DEF PartsInOrder, Comes

LEMMA PumpFacts ==
  ASSUME PumpInv
  PROVE  /\ Len(issued) \in Nat /\ Entries = 1 .. Len(issued)
         /\ Len(taken) \in Nat /\ Len(msgs) \in Nat /\ Len(staged) \in Nat
         /\ \A e \in 1 .. Len(issued) :
              /\ issued[e] \in Issues /\ issued[e].frames \in FrameLists /\ written[e] \in Nat
              /\ written[e] <= Len(issued[e].frames) /\ Len(issued[e].frames) \in Nat
         /\ \A j \in 1 .. Len(msgs) : msgs[j] \in InMsgs
<1>1. /\ Len(issued) \in Nat /\ Entries = 1 .. Len(issued)
      /\ Len(taken) \in Nat /\ Len(msgs) \in Nat /\ Len(staged) \in Nat
      /\ \A j \in 1 .. Len(msgs) : msgs[j] \in InMsgs
      /\ \A e \in 1 .. Len(issued) : issued[e] \in Issues /\ written[e] \in Nat
  BY DEF PumpInv, PumpTypes, Entries
<1>2. \A issue \in Issues : issue.frames \in FrameLists
  BY DEF Issues
<1> QED
  BY <1>1, <1>2, FramesOfIssue DEF PumpInv, TakenOnce

(* A command that is not written yet has no answer.                        *)
LEMMA UnwrittenUnasked ==
  ASSUME PumpInv, NEW e \in Entries, Left(e), issued[e].frames[1] = "CI",
         NEW i \in 1 .. Len(taken)
  PROVE  taken[i].of # e
<1> SUFFICES ASSUME taken[i].of = e PROVE FALSE
  OBVIOUS
<1>1. /\ Len(issued[e].frames) = 1 /\ written[e] \in Nat /\ written[e] < 1
  BY PumpFacts, FramesOfIssue DEF Left
<1>2. 1 <= taken[i].k /\ taken[i].k <= written[e] /\ taken[i].k \in Nat
  <2>1. taken[i] \in InFrames
    BY DEF PumpInv, PumpTypes
  <2> QED
    BY <2>1 DEF PumpInv, TakenOnce, InFrames
<1> QED
  BY <1>1, <1>2

LEMMA NothingRead ==
  ASSUME PumpInv, UNCHANGED <<taken, staged, msgs>>
  PROVE  PartsInOrder' /\ CommandsAnswered'
<1>1. taken' = taken /\ staged' = staged /\ msgs' = msgs
  OBVIOUS
<1>2. PartsInOrder /\ CommandsAnswered
  BY DEF PumpInv
<1>3. PartsInOrder'
  <2>1. \A i \in 1 .. Len(taken') : taken'[i].tag = "UX" =>
          (\E j \in Boxes : \E n \in 1 .. Len(Box(j)) : Lies(taken[i], j, n))'
    BY <1>1, <1>2 DEF PartsInOrder, Boxes, Box, Lies
  <2>2. (\A j \in Boxes : \A n \in 1 .. Len(Box(j)) :
           \E i \in 1 .. Len(taken) : taken[i].tag = "UX" /\ Lies(taken[i], j, n))'
    BY <1>1, <1>2 DEF PartsInOrder, Boxes, Box, Lies
  <2>3. (\A i \in 1 .. Len(taken) : \A j \in Boxes : \A n \in 1 .. Len(Box(j)) : Lies(taken[i], j, n) =>
           \A h \in 1 .. Len(taken) : \A l \in Boxes : \A m \in 1 .. Len(Box(l)) :
             Lies(taken[h], l, m) => (i < h <=> Comes(j, n, l, m)))'
    <3>1. ASSUME NEW i \in 1 .. Len(taken), NEW j \in Boxes, NEW n \in 1 .. Len(Box(j)),
                 NEW h \in 1 .. Len(taken), NEW l \in Boxes, NEW m \in 1 .. Len(Box(l)),
                 Box(j)[n] = taken[i], Box(l)[m] = taken[h]
          PROVE  i < h <=> Comes(j, n, l, m)
      BY <1>2, <3>1 DEF PartsInOrder, Lies
    <3>2. Boxes' = Boxes /\ \A j : Box(j)' = Box(j)
      BY <1>1 DEF Boxes, Box
    <3> QED
      BY <1>1, <3>1, <3>2 DEF Lies
  <2> QED
    BY <2>1, <2>2, <2>3 DEF PartsInOrder
<1>4. CommandsAnswered'
  BY <1>1, <1>2 DEF CommandsAnswered, Answers
<1> QED
  BY <1>3, <1>4

LEMMA IssueKeeps == ASSUME PumpInv, NEW kind \in IssueKinds, Issue(kind) PROVE PumpInv'
<1>1. PICK fs \in SubmitCmd(kind) : issued' = Append(issued, [kind |-> kind, frames |-> fs])
  BY DEF Issue
<1> DEFINE new == [kind |-> kind, frames |-> fs]
<1>2. new \in Issues /\ fs \in FrameLists /\ Len(fs) \in Nat /\ new.frames = fs
  <2>1. new \in Issues
    BY <1>1, FramesOfIssue
  <2>2. new.frames = fs
    OBVIOUS
  <2>3. fs \in FrameLists
    <3>1. \A issue \in Issues : issue.frames \in FrameLists
      BY DEF Issues
    <3> QED
      BY <2>1, <2>2, <3>1
  <2> QED
    BY <2>1, <2>2, <2>3, FramesOfIssue
<1> HIDE DEF new
<1>3. /\ issued' = Append(issued, new) /\ written' = Append(written, 0)
      /\ UNCHANGED <<names, pipe, taken, staged, msgs, sent, handled, pump, loop, nameless>>
  BY <1>1 DEF Issue, new
<1>4. /\ issued' \in Seq(Issues) /\ written' \in Seq(Nat) /\ Len(written') = Len(issued')
      /\ Len(issued') = Len(issued) + 1 /\ Len(issued) \in Nat
      /\ issued'[Len(issued) + 1] = new /\ written'[Len(issued) + 1] = 0
      /\ \A e \in 1 .. Len(issued) : issued'[e] = issued[e] /\ written'[e] = written[e]
  BY <1>2, <1>3 DEF PumpInv, PumpTypes
<1>5. PumpTypes'
  BY <1>3, <1>4 DEF PumpInv, PumpTypes
<1>6. TakenOnce'
  <2>1. \A e \in 1 .. Len(issued') : e \in 1 .. Len(issued) \/ e = Len(issued) + 1
    BY <1>4
  <2>2. \A e \in 1 .. Len(issued') : written'[e] <= Len(issued'[e].frames)
    BY <1>2, <1>4, <2>1 DEF PumpInv, TakenOnce
  <2>3. \A i \in 1 .. Len(taken) : taken[i].of \in 1 .. Len(issued)
    BY DEF PumpInv, TakenOnce
  <2> QED
    BY <1>3, <1>4, <2>2, <2>3 DEF PumpInv, TakenOnce
<1>7. AnswersAsked'
  BY <1>3 DEF PumpInv, AnswersAsked
<1> QED
  BY <1>3, <1>5, <1>6, <1>7, NothingRead DEF PumpInv

LEMMA WriteFailsKeeps == ASSUME PumpInv, NEW e \in Entries, WriteFails(e) PROVE PumpInv'
<1>1. /\ Left(e) /\ written' = [written EXCEPT ![e] = Len(issued[e].frames)] /\ names' = names \ {e}
      /\ UNCHANGED <<issued, pipe, taken, staged, msgs, sent, handled, pump, loop, nameless>>
  BY DEF WriteFails
<1>2. /\ e \in 1 .. Len(issued) /\ Len(issued[e].frames) \in Nat
      /\ \A d \in 1 .. Len(issued) : written[d] \in Nat /\ Len(issued[d].frames) \in Nat
      /\ issued[e].frames \in FrameLists
  BY PumpFacts
<1>3. /\ written' \in Seq(Nat) /\ Len(written') = Len(issued)
      /\ \A d \in 1 .. Len(issued) :
           written'[d] = IF d = e THEN Len(issued[e].frames) ELSE written[d]
  BY <1>1, <1>2 DEF PumpInv, PumpTypes
<1>4. PumpTypes'
  BY <1>1, <1>3 DEF PumpInv, PumpTypes
<1>5. TakenOnce'
  <2>1. \A d \in 1 .. Len(issued) :
          written'[d] <= Len(issued[d].frames) /\ written[d] <= written'[d] /\ written'[d] \in Nat
    <3>1. ASSUME NEW d \in 1 .. Len(issued)
          PROVE  written'[d] <= Len(issued[d].frames) /\ written[d] <= written'[d] /\ written'[d] \in Nat
      <4>1. written[d] \in Nat /\ Len(issued[d].frames) \in Nat /\ written[d] <= Len(issued[d].frames)
        BY <1>2 DEF PumpInv, TakenOnce
      <4>2. written'[d] = IF d = e THEN Len(issued[e].frames) ELSE written[d]
        BY <1>3
      <4> QED
        BY <4>1, <4>2
    <3> QED
      BY <3>1
  <2>2. \A i \in 1 .. Len(taken) : taken[i].of \in 1 .. Len(issued) /\ taken[i].k \in Nat
    <3>1. \A f \in InFrames : f.k \in Nat
      BY DEF InFrames
    <3> QED
      BY <3>1 DEF PumpInv, PumpTypes, TakenOnce
  <2>3. ASSUME NEW i \in 1 .. Len(taken) PROVE taken[i].k <= written'[taken[i].of]
    <3>1. taken[i].k <= written[taken[i].of]
      BY DEF PumpInv, TakenOnce
    <3>2. PICK d \in 1 .. Len(issued) : d = taken[i].of
      BY <2>2
    <3>3. written[d] \in Nat /\ written[d] <= written'[d] /\ written'[d] \in Nat
      BY <1>2, <2>1
    <3> QED
      BY <2>2, <3>1, <3>2, <3>3
  <2> QED
    BY <1>1, <2>1, <2>3 DEF PumpInv, TakenOnce
<1>6. AnswersAsked'
  <2>1. ASSUME NEW j \in 1 .. Len(msgs), msgs[j].kind \in {"cmd", "reject"}
        PROVE  msgs[j].of # e
    <3>1. PICK i \in 1 .. Len(taken) : taken[i].tag = "CI" /\ taken[i].of = msgs[j].of
      BY <2>1 DEF PumpInv, AnswersAsked
    <3>2. CASE taken[i].of = e
      <4>1. /\ taken[i].k \in 1 .. Len(issued[e].frames)
            /\ issued[e].frames[taken[i].k] = "CI"
        <5>1. taken[i] \in InFrames
          BY DEF PumpInv, PumpTypes
        <5>2. taken[i].k \in Nat
          BY <5>1 DEF InFrames
        <5>3. 1 <= taken[i].k /\ taken[i].k <= written[e] /\ written[e] <= Len(issued[e].frames)
          BY <1>2, <3>2 DEF PumpInv, TakenOnce
        <5>4. taken[i].tag = issued[e].frames[taken[i].k]
          BY <3>2 DEF PumpInv, TakenOnce
        <5>5. written[e] \in Nat /\ Len(issued[e].frames) \in Nat
          BY <1>2
        <5> QED
          BY <3>1, <5>2, <5>3, <5>4, <5>5
      <4>2. issued[e].frames[1] = "CI"
        BY <1>2, <4>1, FramesOfIssue
      <4> QED
        BY <1>1, <3>2, <4>2, UnwrittenUnasked
    <3> QED
      BY <3>1, <3>2
  <2>2. \A j \in handled + 1 .. Len(msgs) : j \in 1 .. Len(msgs)
    BY DEF PumpInv, PumpTypes
  <2> QED
    BY <1>1, <2>1, <2>2 DEF PumpInv, AnswersAsked
<1> QED
  BY <1>1, <1>4, <1>5, <1>6, NothingRead DEF PumpInv

LEMMA LoopTakeKeeps == PumpInv /\ LoopTake => PumpInv'
<1> SUFFICES ASSUME PumpInv, LoopTake PROVE PumpInv'
  OBVIOUS
<1> DEFINE msg == msgs[handled + 1]
<1>1. /\ handled < sent /\ handled' = handled + 1
      /\ IF msg.kind \in {"cmd", "reject"}
         THEN names' = names \ {msg.of} /\ nameless' = nameless \cup ({msg.of} \ names)
         ELSE UNCHANGED <<names, nameless>>
      /\ UNCHANGED <<issued, written, pipe, taken, staged, msgs, sent, pump>>
  BY DEF LoopTake
<1>2. /\ handled \in Nat /\ sent \in Nat /\ sent <= Len(msgs) /\ Len(msgs) \in Nat
      /\ handled + 1 \in 1 .. Len(msgs) /\ handled + 1 \in handled + 1 .. Len(msgs)
  BY <1>1 DEF PumpInv, PumpTypes
<1>3. PumpTypes'
  BY <1>1, <1>2 DEF PumpInv, PumpTypes
<1>4. TakenOnce'
  BY <1>1 DEF PumpInv, TakenOnce
<1>5. CASE msg.kind \in {"cmd", "reject"}
  <2>1. msg.of \in names
    BY <1>2, <1>5 DEF PumpInv, AnswersAsked
  <2>2. nameless' = {} /\ names' = names \ {msg.of}
    BY <1>1, <1>5, <2>1 DEF PumpInv, AnswersAsked
  <2>3. ASSUME NEW j \in handled + 2 .. Len(msgs), msgs[j].kind \in {"cmd", "reject"}
        PROVE  msgs[j].of \in names'
    <3>1. j \in 1 .. Len(msgs) /\ j \in handled + 1 .. Len(msgs) /\ j # handled + 1
      BY <1>2
    <3>2. PICK i \in 1 .. Len(taken) : taken[i].tag = "CI" /\ taken[i].of = msg.of
      BY <1>2, <1>5 DEF PumpInv, AnswersAsked
    <3>3. PICK a \in 1 .. Len(msgs) :
            \A l \in 1 .. Len(msgs) : Answers(l, msg.of) <=> l = a
      BY <3>2 DEF PumpInv, CommandsAnswered
    <3>4. Answers(handled + 1, msg.of)
      BY <1>5 DEF Answers
    <3>5. ~Answers(j, msg.of)
      BY <1>2, <3>1, <3>3, <3>4
    <3>6. msgs[j].of # msg.of
      BY <2>3, <3>5 DEF Answers
    <3>7. msgs[j].of \in names
      BY <2>3, <3>1 DEF PumpInv, AnswersAsked
    <3> QED
      BY <2>2, <3>6, <3>7
  <2>4. \A j \in handled' + 1 .. Len(msgs) : j \in handled + 2 .. Len(msgs)
    BY <1>1, <1>2
  <2>5. AnswersAsked'
    BY <1>1, <2>2, <2>3, <2>4 DEF PumpInv, AnswersAsked
  <2> QED
    BY <1>1, <1>3, <1>4, <2>5, NothingRead DEF PumpInv
<1>6. CASE msg.kind \notin {"cmd", "reject"}
  <2>1. \A j \in handled' + 1 .. Len(msgs) : j \in handled + 1 .. Len(msgs)
    BY <1>1, <1>2
  <2>2. AnswersAsked'
    BY <1>1, <1>6, <2>1 DEF PumpInv, AnswersAsked
  <2> QED
    BY <1>1, <1>3, <1>4, <2>2, NothingRead DEF PumpInv
<1> QED
  BY <1>5, <1>6

LEMMA QuietKeeps ==
  ASSUME PumpInv,
         (\E e \in Entries : Register(e)) \/ PumpSend \/ LoopSeesClosed \/ RunReturns \/ ClosePipe
           \/ UNCHANGED pumpVars
  PROVE  PumpInv'
<1>1. UNCHANGED <<issued, written, taken, staged, msgs, handled, nameless>> /\ names \subseteq names'
  BY DEF Register, PumpSend, LoopSeesClosed, RunReturns, ClosePipe, pumpVars
<1>2. sent' = sent \/ (sent < Len(msgs) /\ sent' = sent + 1)
  BY DEF Register, PumpSend, LoopSeesClosed, RunReturns, ClosePipe, pumpVars
<1>3. PumpTypes'
  BY <1>1, <1>2 DEF PumpInv, PumpTypes
<1>4. TakenOnce' /\ AnswersAsked'
  BY <1>1 DEF PumpInv, TakenOnce, AnswersAsked
<1> QED
  BY <1>1, <1>3, <1>4, NothingRead DEF PumpInv

(* At the end of the stream what is staged is the last message.            *)
LEMMA PumpEOFKeeps == PumpInv /\ PumpEOF => PumpInv'
<1> SUFFICES ASSUME PumpInv, PumpEOF PROVE PumpInv'
  OBVIOUS
<1>1. /\ sent = Len(msgs) /\ staged' = <<>>
      /\ msgs' = IF staged # <<>> THEN Append(msgs, PromptMsg(staged)) ELSE msgs
      /\ UNCHANGED <<issued, written, names, pipe, taken, sent, handled, loop, nameless>>
  BY DEF PumpEOF
<1>2. PromptMsg(staged) \in InMsgs /\ PromptMsg(staged).kind = "prompt" /\ PromptMsg(staged).parts = staged
  BY DEF PromptMsg, InMsgs, PumpInv, PumpTypes
<1>3. Len(msgs) \in Nat /\ Len(taken) \in Nat /\ Len(staged) \in Nat /\ msgs \in Seq(InMsgs)
  BY PumpFacts DEF PumpInv, PumpTypes
<1>4. /\ msgs' \in Seq(InMsgs) /\ Len(msgs') \in {Len(msgs), Len(msgs) + 1}
      /\ \A j \in 1 .. Len(msgs) : msgs'[j] = msgs[j]
      /\ Len(msgs') = Len(msgs) + 1 => msgs'[Len(msgs) + 1] = PromptMsg(staged)
      /\ Len(msgs') = Len(msgs) => staged = <<>>
  BY <1>1, <1>2, <1>3
<1>5. PumpTypes'
  <2>1. <<>> \in Seq(InFrames)
    OBVIOUS
  <2> QED
    BY <1>1, <1>3, <1>4, <2>1 DEF PumpInv, PumpTypes
<1>6. TakenOnce'
  BY <1>1 DEF PumpInv, TakenOnce
<1>7. PartsInOrder'
  <2>0. PICK g \in Nat : g = Len(msgs) + 1
    BY <1>3
  <2>1. g \in Nat /\ Len(msgs) < g /\ g <= Len(msgs') + 1 /\ Len(msgs') \in Nat
    BY <1>3, <1>4, <2>0
  <2>2. \A j \in 1 .. Len(msgs) : Box(j)' = Box(j)
    BY <1>3, <1>4 DEF Box
  <2>3. Box(g)' = staged
    <3>1. CASE Len(msgs') = Len(msgs)
      BY <1>1, <1>3, <1>4, <2>0, <3>1 DEF Box
    <3>2. CASE Len(msgs') = Len(msgs) + 1
      BY <1>2, <1>3, <1>4, <2>0, <3>2 DEF Box
    <3> QED
      BY <1>4, <3>1, <3>2
  <2>4. \A j \in Len(msgs) + 1 .. Len(msgs') + 1 : j # g => Len(Box(j)') = 0
    BY <1>1, <1>3, <1>4, <2>0 DEF Box
  <2>5. Len(taken') \in Nat /\ taken' = taken
    BY <1>1, <1>3
  <2>6. /\ Len(taken) <= Len(taken') /\ \A i \in 1 .. Len(taken) : taken'[i] = taken[i]
        /\ \A i \in Len(taken) + 1 .. Len(taken') :
             taken'[i].tag # "UX" /\ \A h \in 1 .. Len(taken) : taken'[i] # taken[h]
    BY <1>3, <2>5
  <2> QED
    BY <2>1, <2>2, <2>3, <2>4, <2>5, <2>6, BoxesMove
<1>8. \A j \in 1 .. Len(msgs') : msgs'[j].kind \in {"cmd", "reject"} =>
        j \in 1 .. Len(msgs) /\ msgs'[j] = msgs[j]
  BY <1>2, <1>3, <1>4
<1>9. CommandsAnswered'
  <2> SUFFICES ASSUME NEW i \in 1 .. Len(taken), taken[i].tag = "CI"
               PROVE  \E j \in 1 .. Len(msgs') :
                        \A l \in 1 .. Len(msgs') : Answers(l, taken[i].of)' <=> l = j
    BY <1>1 DEF CommandsAnswered
  <2>1. PICK j \in 1 .. Len(msgs) :
          \A l \in 1 .. Len(msgs) : Answers(l, taken[i].of) <=> l = j
    BY DEF PumpInv, CommandsAnswered
  <2>2. j \in 1 .. Len(msgs')
    BY <1>3, <1>4
  <2>3. \A l \in 1 .. Len(msgs) : Answers(l, taken[i].of)' <=> Answers(l, taken[i].of)
    BY <1>1, <1>4 DEF Answers
  <2>4. \A l \in 1 .. Len(msgs') : Answers(l, taken[i].of)' <=> l = j
    BY <1>1, <1>8, <2>1, <2>3 DEF Answers
  <2> QED
    BY <2>2, <2>4
<1>10. AnswersAsked'
  <2>1. \A j \in handled + 1 .. Len(msgs') : j \in 1 .. Len(msgs') 
    BY <1>3, <1>4 DEF PumpInv, PumpTypes
  <2>2. \A j \in handled + 1 .. Len(msgs') :
          j \in 1 .. Len(msgs) => j \in handled + 1 .. Len(msgs)
    BY <1>3, <1>4 DEF PumpInv, PumpTypes
  <2>3. AnswersAsked
    BY DEF PumpInv
  <2> QED
    BY <1>1, <1>8, <2>1, <2>2, <2>3 DEF AnswersAsked
<1> QED
  BY <1>5, <1>6, <1>7, <1>9, <1>10 DEF PumpInv

(* The messages a frame makes, and where the staged parts go.              *)
LEMMA FrameMakes ==
  ASSUME PumpInv, NEW f \in InFrames
  PROVE  /\ Made(f) \in Seq(InMsgs) /\ Len(Made(f)) \in {0, 1, 2} /\ Staged(f) \in Seq(InFrames)
         /\ f.tag = "UX" => Made(f) = <<>> /\ Staged(f) = Append(staged, f)
         /\ f.tag = "CI" => /\ Len(Made(f)) = 1 /\ Made(f)[1].kind \in {"cmd", "reject"}
                            /\ Made(f)[1].of = f.of
         /\ f.tag # "CI" => \A n \in 1 .. Len(Made(f)) : Made(f)[n].kind \notin {"cmd", "reject"}
         /\ f.tag # "UX" =>
              \E g \in 1 .. Len(Made(f)) + 1 :
                \A n \in 1 .. Len(Made(f)) + 1 :
                  (IF n <= Len(Made(f)) THEN Made(f)[n].parts ELSE Staged(f))
                    = IF n = g THEN staged ELSE <<>>
<1>1. staged \in Seq(InFrames) /\ f.of \in Nat /\ f.tag \in InputTags /\ <<>> \in Seq(InFrames)
  BY DEF PumpInv, PumpTypes, InFrames
<1> DEFINE M(kind, parts, of) == [kind |-> kind, parts |-> parts, of |-> of]
<1>2. \A kind \in {"prompt", "err", "reject", "cmd", "end"} : \A of \in Nat :
        M(kind, staged, of) \in InMsgs /\ M(kind, <<>>, of) \in InMsgs
  BY <1>1 DEF InMsgs
<1> DEFINE Placed(ms, st) ==
      \E g \in 1 .. Len(ms) + 1 :
        \A n \in 1 .. Len(ms) + 1 :
          (IF n <= Len(ms) THEN ms[n].parts ELSE st) = IF n = g THEN staged ELSE <<>>
<1>a. Len(<<>>) = 0 /\ <<>> \in Seq(InMsgs) /\ Placed(<<>>, staged)
  <2>1. Len(<<>>) = 0 /\ <<>> \in Seq(InMsgs)
    OBVIOUS
  <2>2. 1 \in 1 .. 0 + 1 /\ \A n \in 1 .. 0 + 1 : n = 1 /\ ~(n <= 0)
    OBVIOUS
  <2> QED
    BY <2>1, <2>2
<1>b. ASSUME NEW msg \in InMsgs, NEW st,
             (msg.parts = staged /\ st = <<>>) \/ (msg.parts = <<>> /\ st = staged)
      PROVE  /\ <<msg>> \in Seq(InMsgs) /\ Len(<<msg>>) = 1 /\ <<msg>>[1] = msg
             /\ Placed(<<msg>>, st)
  <2>1. /\ <<msg>> \in Seq(InMsgs) /\ Len(<<msg>>) = 1 /\ <<msg>>[1] = msg
    OBVIOUS
  <2>2. \A n \in 1 .. 1 + 1 : (n = 1 /\ n <= 1) \/ (n = 2 /\ ~(n <= 1))
    OBVIOUS
  <2>3. CASE msg.parts = staged /\ st = <<>>
    <3>1. 1 \in 1 .. 1 + 1
      OBVIOUS
    <3> QED
      BY <2>1, <2>2, <2>3, <3>1
  <2>4. CASE msg.parts = <<>> /\ st = staged
    <3>1. 2 \in 1 .. 1 + 1
      OBVIOUS
    <3> QED
      BY <2>1, <2>2, <2>4, <3>1
  <2> QED
    BY <1>b, <2>1, <2>3, <2>4
<1>c. ASSUME NEW msg \in InMsgs, NEW end \in InMsgs, msg.parts = staged, end.parts = <<>>
      PROVE  /\ <<msg, end>> \in Seq(InMsgs) /\ Len(<<msg, end>>) = 2
             /\ <<msg, end>>[1] = msg /\ <<msg, end>>[2] = end /\ Placed(<<msg, end>>, <<>>)
  <2>1. /\ <<msg, end>> \in Seq(InMsgs) /\ Len(<<msg, end>>) = 2
        /\ <<msg, end>>[1] = msg /\ <<msg, end>>[2] = end
    OBVIOUS
  <2>2. /\ \A n \in 1 .. 2 + 1 : (n = 1 /\ n <= 2) \/ (n = 2 /\ n <= 2) \/ (n = 3 /\ ~(n <= 2))
        /\ 1 \in 1 .. 2 + 1
    OBVIOUS
  <2> QED
    BY <1>c, <2>1, <2>2
<1>d. ASSUME NEW kind \in {"prompt", "err", "reject", "cmd", "end"}, NEW of \in Nat,
             \/ Made(f) = <<M(kind, staged, of)>> /\ Staged(f) = <<>>
             \/ Made(f) = <<M(kind, <<>>, of)>> /\ Staged(f) = staged
      PROVE  /\ Made(f) \in Seq(InMsgs) /\ Len(Made(f)) = 1 /\ Staged(f) \in Seq(InFrames)
             /\ Made(f)[1].kind = kind /\ Made(f)[1].of = of
             /\ \A n \in 1 .. Len(Made(f)) : n = 1
             /\ Placed(Made(f), Staged(f))
  <2>1. \A parts : /\ M(kind, parts, of).parts = parts /\ M(kind, parts, of).kind = kind
                   /\ M(kind, parts, of).of = of
    OBVIOUS
  <2>2. PICK msg \in InMsgs :
          /\ Made(f) = <<msg>> /\ msg.kind = kind /\ msg.of = of
          /\ (msg.parts = staged /\ Staged(f) = <<>>) \/ (msg.parts = <<>> /\ Staged(f) = staged)
    <3> HIDE DEF M
    <3> QED
      BY <1>2, <1>d, <2>1
  <2>3. /\ <<msg>> \in Seq(InMsgs) /\ Len(<<msg>>) = 1 /\ <<msg>>[1] = msg
        /\ Placed(<<msg>>, Staged(f))
    <3> HIDE DEF Placed
    <3> QED
      BY <1>b, <2>2
  <2>4. \A n \in 1 .. 1 : n = 1
    OBVIOUS
  <2> HIDE DEF Placed
  <2> QED
    BY <1>1, <2>2, <2>3, <2>4
<1>e. /\ M("prompt", staged, 0).parts = staged /\ M("end", <<>>, 0).parts = <<>>
      /\ M("prompt", staged, 0).kind = "prompt" /\ M("end", <<>>, 0).kind = "end"
  OBVIOUS
<1> HIDE DEF M, Placed
<1>3. CASE f.tag = "UX"
  BY <1>1, <1>3, <1>a DEF Made, Staged
<1>4. CASE f.tag = "empty"
  <2>1. Made(f) = <<>> /\ Staged(f) = staged
    BY <1>4 DEF Made, Staged
  <2> QED
    BY <1>1, <1>4, <1>a, <2>1 DEF Placed
<1>5. CASE f.tag = "CI" /\ staged # <<>>
  <2>1. Made(f) = <<M("reject", staged, f.of)>> /\ Staged(f) = <<>>
    BY <1>5 DEF Made, Staged, M
  <2> QED
    BY <1>1, <1>5, <1>d, <2>1 DEF Placed
<1>6. CASE f.tag = "CI" /\ staged = <<>>
  <2>1. Made(f) = <<M("cmd", <<>>, f.of)>> /\ Staged(f) = staged
    BY <1>6 DEF Made, Staged, M
  <2> QED
    BY <1>1, <1>6, <1>d, <2>1 DEF Placed
<1>7. CASE f.tag = "UE"
  <2>1. CASE staged # <<>>
    <3>1. Made(f) = <<M("prompt", staged, 0)>> /\ Staged(f) = <<>>
      BY <1>7, <2>1 DEF Made, Staged, PromptMsg, M
    <3> QED
      BY <1>7, <1>d, <3>1 DEF Placed
  <2>2. CASE staged = <<>>
    <3>1. Made(f) = <<>> /\ Staged(f) = staged
      BY <1>7, <2>2 DEF Made, Staged
    <3> QED
      BY <1>1, <1>7, <1>a, <3>1 DEF Placed
  <2> QED
    BY <2>1, <2>2
<1>8. CASE f.tag = "CE"
  <2>3. ASSUME NEW a, NEW b PROVE <<a>> \o <<b>> = <<a, b>>
    <3>1. <<a>> \in Seq({a, b}) /\ <<b>> \in Seq({a, b})
      OBVIOUS
    <3>2. /\ <<a>> \o <<b>> \in Seq({a, b}) /\ Len(<<a>> \o <<b>>) = 2
          /\ (<<a>> \o <<b>>)[1] = a /\ (<<a>> \o <<b>>)[2] = b
      BY <3>1
    <3>3. <<a, b>> \in Seq({a, b}) /\ Len(<<a, b>>) = 2 /\ <<a, b>>[1] = a /\ <<a, b>>[2] = b
      OBVIOUS
    <3>4. \A i \in 1 .. 2 : (<<a>> \o <<b>>)[i] = <<a, b>>[i]
      <4>1. \A i \in 1 .. 2 : i = 1 \/ i = 2
        OBVIOUS
      <4> QED
        BY <3>2, <3>3, <4>1
    <3> QED
      BY <3>2, <3>3, <3>4, SeqEqual
  <2>4. \A a : <<>> \o <<a>> = <<a>>
    <3> SUFFICES ASSUME NEW a PROVE <<>> \o <<a>> = <<a>>
      OBVIOUS
    <3>1. <<a>> \in Seq({a})
      OBVIOUS
    <3> QED
      BY <3>1, ConcatEmptySeq
  <2>1. CASE staged # <<>>
    <3>1. Made(f) = <<M("prompt", staged, 0), M("end", <<>>, 0)>> /\ Staged(f) = <<>>
      <4>1. Made(f) = <<M("prompt", staged, 0)>> \o <<M("end", <<>>, 0)>> /\ Staged(f) = <<>>
        BY <1>8, <2>1 DEF Made, Staged, PromptMsg, M
      <4> QED
        BY <2>3, <4>1
    <3>2. \A n \in 1 .. 2 : n = 1 \/ n = 2
      OBVIOUS
    <3>3. M("prompt", staged, 0) \in InMsgs /\ M("end", <<>>, 0) \in InMsgs
      BY <1>2
    <3>4. /\ Made(f) \in Seq(InMsgs) /\ Len(Made(f)) = 2 /\ Placed(Made(f), Staged(f))
          /\ Made(f)[1].kind = "prompt" /\ Made(f)[2].kind = "end"
      BY <1>c, <1>e, <3>1, <3>3
    <3> QED
      BY <1>1, <1>8, <3>1, <3>2, <3>4 DEF Placed
  <2>2. CASE staged = <<>>
    <3>1. Made(f) = <<M("end", <<>>, 0)>> /\ Staged(f) = staged
      <4>1. Made(f) = <<>> \o <<M("end", <<>>, 0)>> /\ Staged(f) = staged
        BY <1>8, <2>2 DEF Made, Staged, M
      <4> QED
        BY <2>4, <4>1
    <3> QED
      BY <1>8, <1>d, <3>1 DEF Placed
  <2> QED
    BY <2>1, <2>2
<1>9. CASE f.tag = "badcommand"
  <2>1. Made(f) = <<M("err", <<>>, 0)>> /\ Staged(f) = staged
    BY <1>9 DEF Made, Staged, Err, M
  <2> QED
    BY <1>9, <1>d, <2>1 DEF Placed
<1>10. CASE f.tag \in {"badframe", "broken"}
  <2>1. Made(f) = <<M("err", staged, 0)>> /\ Staged(f) = <<>>
    BY <1>10 DEF Made, Staged, Refusal, Err, M
  <2> QED
    BY <1>10, <1>d, <2>1 DEF Placed
<1> QED
  BY <1>1, <1>3, <1>4, <1>5, <1>6, <1>7, <1>8, <1>9, <1>10 DEF InputTags

(* A frame passes the pipe.                                                *)
LEMMA FrameRead ==
  ASSUME PumpInv, NEW e \in Entries, Write(e), NEW f, f = Frame(e)
  PROVE  /\ e \in 1 .. Len(issued) /\ f \in InFrames /\ f.of = e /\ f.k = written[e] + 1
         /\ written[e] \in Nat /\ written[e] + 1 <= Len(issued[e].frames)
         /\ f.tag = issued[e].frames[written[e] + 1]
         /\ f.tag = "CI" => issued[e].frames[1] = "CI" /\ e \in names /\ Left(e)
         /\ \A h \in 1 .. Len(taken) : taken[h] # f
         /\ taken' = Append(taken, f) /\ staged' = Staged(f) /\ msgs' = msgs \o Made(f)
         /\ written' = [written EXCEPT ![e] = @ + 1] /\ sent = Len(msgs)
         /\ UNCHANGED <<issued, names, pipe, sent, handled, loop, nameless>>
<1>1. /\ taken' = Append(taken, f) /\ staged' = Staged(f) /\ msgs' = msgs \o Made(f)
      /\ written' = [written EXCEPT ![e] = @ + 1] /\ sent = Len(msgs) /\ Left(e) /\ Named(e)
      /\ UNCHANGED <<issued, names, pipe, sent, handled, loop, nameless>>
  BY DEF Write
<1>2. /\ e \in 1 .. Len(issued) /\ Len(issued) \in Nat /\ written[e] \in Nat
      /\ issued[e].frames \in FrameLists /\ Len(issued[e].frames) \in Nat
  BY PumpFacts
<1>3. written[e] + 1 <= Len(issued[e].frames) /\ written[e] + 1 \in 1 .. Len(issued[e].frames)
  BY <1>1, <1>2 DEF Left
<1>4. f.of = e /\ f.k = written[e] + 1 /\ f.tag = issued[e].frames[written[e] + 1]
  BY DEF Frame
<1>5. f \in InFrames
  <2>1. f.tag \in InputTags
    BY <1>2, <1>3, <1>4, FramesOfIssue
  <2>2. f = [tag |-> issued[e].frames[written[e] + 1], of |-> e, k |-> written[e] + 1]
    BY DEF Frame
  <2> QED
    BY <1>2, <1>4, <2>1, <2>2 DEF InFrames
<1>6. f.tag = "CI" => issued[e].frames[1] = "CI"
  BY <1>2, <1>3, <1>4, FramesOfIssue
<1>7. ASSUME NEW h \in 1 .. Len(taken) PROVE taken[h] # f
  <2>1. taken[h].k <= written[taken[h].of]
    BY DEF PumpInv, TakenOnce
  <2> QED
    BY <1>2, <1>4, <2>1
<1> QED
  BY <1>1, <1>2, <1>3, <1>4, <1>5, <1>6, <1>7 DEF Named

(* A part is staged behind all that came before it.                        *)
LEMMA PartStaged ==
  ASSUME PumpInv, NEW f \in InFrames, f.tag = "UX", \A h \in 1 .. Len(taken) : taken[h] # f,
         taken' = Append(taken, f), staged' = Append(staged, f), msgs' = msgs
  PROVE  PartsInOrder'
<1> DEFINE L == Len(msgs) + 1
<1> DEFINE N == Len(taken) + 1
<1> DEFINE K == Len(staged) + 1
<1>0. /\ Len(msgs) \in Nat /\ Len(taken) \in Nat /\ Len(staged) \in Nat
      /\ taken \in Seq(InFrames) /\ staged \in Seq(InFrames)
  BY PumpFacts DEF PumpInv, PumpTypes
<1>1. /\ Len(taken') = N /\ taken'[N] = f /\ \A i \in 1 .. Len(taken) : taken'[i] = taken[i]
      /\ \A i \in 1 .. N : i \in 1 .. Len(taken) \/ i = N
  BY <1>0
<1>2. /\ Boxes' = Boxes /\ L \in Boxes /\ \A j \in Boxes : j = L \/ j \in 1 .. Len(msgs)
      /\ \A j \in Boxes : j \in Nat /\ j <= L
  BY <1>0 DEF Boxes
<1>3. Box(L) = staged
  BY <1>0 DEF Box
<1>4. ASSUME NEW j \in Boxes
      PROVE  /\ j # L => Box(j)' = Box(j)
             /\ j = L => Box(j)' = Append(staged, f)
  BY <1>0, <1>2 DEF Box
<1>5. /\ Len(Append(staged, f)) = K /\ Append(staged, f)[K] = f
      /\ \A n \in 1 .. Len(staged) : Append(staged, f)[n] = staged[n]
      /\ \A n \in 1 .. K : n \in 1 .. Len(staged) \/ n = K
      /\ \A n \in 1 .. Len(staged) : n \in 1 .. K /\ n < K
      /\ K \in 1 .. K
  BY <1>0
(* Where something lies after it.                                          *)
<1>6. ASSUME NEW j \in Boxes, NEW n \in 1 .. Len(Box(j)')
      PROVE  \/ n \in 1 .. Len(Box(j)) /\ Box(j)'[n] = Box(j)[n] /\ (j = L => n < K)
             \/ j = L /\ n = K /\ Box(j)'[n] = f
  <2>1. CASE j # L
    BY <1>4, <1>6, <2>1
  <2>2. CASE j = L
    BY <1>3, <1>4, <1>5, <1>6, <2>2
  <2> QED
    BY <2>1, <2>2
<1>7. ASSUME NEW j \in Boxes, NEW n \in 1 .. Len(Box(j))
      PROVE  n \in 1 .. Len(Box(j)') /\ Box(j)'[n] = Box(j)[n]
  <2>1. CASE j # L
    BY <1>4, <1>7, <2>1
  <2>2. CASE j = L
    BY <1>3, <1>4, <1>5, <1>7, <2>2
  <2> QED
    BY <2>1, <2>2
<1>8. ASSUME NEW j \in Boxes, NEW n \in 1 .. Len(Box(j))
      PROVE  \E i \in 1 .. Len(taken) : taken[i].tag = "UX" /\ Box(j)[n] = taken[i]
  BY <1>8 DEF PumpInv, PartsInOrder, Lies
<1> HIDE DEF L, N, K
<1>9. ASSUME NEW i \in 1 .. N, taken'[i].tag = "UX"
      PROVE  \E j \in Boxes : \E n \in 1 .. Len(Box(j)') : Box(j)'[n] = taken'[i]
  <2>1. CASE i = N
    BY <1>1, <1>2, <1>4, <1>5, <2>1
  <2>2. CASE i \in 1 .. Len(taken)
    <3>1. PICK j \in Boxes : \E n \in 1 .. Len(Box(j)) : Lies(taken[i], j, n)
      BY <1>1, <1>9, <2>2 DEF PumpInv, PartsInOrder
    <3> QED
      BY <1>1, <1>7, <2>2, <3>1 DEF Lies
  <2> QED
    BY <1>1, <2>1, <2>2
<1>10. ASSUME NEW j \in Boxes, NEW n \in 1 .. Len(Box(j)')
       PROVE  \E i \in 1 .. N : taken'[i].tag = "UX" /\ Box(j)'[n] = taken'[i]
  <2>1. CASE n \in 1 .. Len(Box(j)) /\ Box(j)'[n] = Box(j)[n]
    <3>1. PICK i \in 1 .. Len(taken) : taken[i].tag = "UX" /\ Box(j)[n] = taken[i]
      BY <1>8, <2>1
    <3> QED
      BY <1>0, <1>1, <2>1, <3>1 DEF N
  <2>2. CASE Box(j)'[n] = f
    BY <1>0, <1>1, <2>2 DEF N
  <2> QED
    BY <1>6, <1>10, <2>1, <2>2
(* A frame read before lies where it lay, and the new one at the end.      *)
<1>11. ASSUME NEW i \in 1 .. N, NEW j \in Boxes, NEW n \in 1 .. Len(Box(j)'),
              Box(j)'[n] = taken'[i]
       PROVE  \/ /\ i \in 1 .. Len(taken) /\ i < N /\ n \in 1 .. Len(Box(j)) /\ n \in Nat
                 /\ Lies(taken[i], j, n) /\ (j = L => n < K)
              \/ i = N /\ j = L /\ n = K
  <2>1. CASE n \in 1 .. Len(Box(j)) /\ Box(j)'[n] = Box(j)[n] /\ (j = L => n < K)
    <3>1. PICK h \in 1 .. Len(taken) : Box(j)[n] = taken[h]
      BY <1>8, <2>1
    <3>2. i \in 1 .. Len(taken)
      BY <1>1, <1>11, <2>1, <3>1
    <3>3. Box(j)[n] = taken[i]
      BY <1>1, <1>11, <2>1, <3>2
    <3>4. i < N /\ n \in Nat
      BY <1>0, <3>2 DEF N
    <3> QED
      BY <2>1, <3>2, <3>3, <3>4 DEF Lies
  <2>2. CASE j = L /\ n = K /\ Box(j)'[n] = f
    BY <1>1, <1>11, <2>2
  <2> QED
    BY <1>6, <1>11, <2>1, <2>2
<1>12. ASSUME NEW i \in 1 .. N, NEW j \in Boxes, NEW n \in 1 .. Len(Box(j)'),
              Box(j)'[n] = taken'[i],
              NEW h \in 1 .. N, NEW l \in Boxes, NEW m \in 1 .. Len(Box(l)'),
              Box(l)'[m] = taken'[h]
       PROVE  i < h <=> Comes(j, n, l, m)
  <2>0. j \in Nat /\ l \in Nat /\ L \in Nat /\ j <= L /\ l <= L /\ N \in Nat /\ K \in Nat
    BY <1>0, <1>2, SMTT(30) DEF L, N, K
  <2>1. CASE i = N /\ j = L /\ n = K
    <3>1. CASE h = N /\ l = L /\ m = K
      BY <2>0, <2>1, <3>1 DEF Comes
    <3>2. CASE h < N /\ m \in Nat /\ (l = L => m < K) /\ h \in 1 .. Len(taken)
      BY <1>0, <2>0, <2>1, <3>2 DEF Comes
    <3> QED
      BY <1>11, <1>12, <3>1, <3>2
  <2>2. CASE /\ i \in 1 .. Len(taken) /\ i < N /\ n \in 1 .. Len(Box(j)) /\ n \in Nat
             /\ Lies(taken[i], j, n) /\ (j = L => n < K)
    <3>1. CASE h = N /\ l = L /\ m = K
      BY <2>0, <2>2, <3>1 DEF Comes
    <3>2. CASE h \in 1 .. Len(taken) /\ m \in 1 .. Len(Box(l)) /\ Lies(taken[h], l, m)
      BY <2>2, <3>2 DEF PumpInv, PartsInOrder
    <3> QED
      BY <1>11, <1>12, <3>1, <3>2
  <2> QED
    BY <1>11, <1>12, <2>1, <2>2
<1>13. \A i \in 1 .. Len(taken') : taken'[i].tag = "UX" =>
         \E j \in Boxes' : \E n \in 1 .. Len(Box(j)') : Lies(taken[i], j, n)'
  BY <1>1, <1>2, <1>9 DEF Lies
<1>14. \A j \in Boxes' : \A n \in 1 .. Len(Box(j)') :
         \E i \in 1 .. Len(taken') : taken'[i].tag = "UX" /\ Lies(taken[i], j, n)'
  BY <1>1, <1>2, <1>10 DEF Lies
<1>15. ASSUME NEW i \in 1 .. Len(taken'), NEW j \in Boxes', NEW n \in 1 .. Len(Box(j)'),
              Lies(taken[i], j, n)',
              NEW h \in 1 .. Len(taken'), NEW l \in Boxes', NEW m \in 1 .. Len(Box(l)'),
              Lies(taken[h], l, m)'
       PROVE  i < h <=> Comes(j, n, l, m)
  BY <1>1, <1>2, <1>12, <1>15 DEF Lies
<1> QED
  BY <1>13, <1>14, <1>15 DEF PartsInOrder, Comes

(* What the second of two sequences puts in their concatenation.            *)
LEMMA Joined ==
  ASSUME NEW S, NEW s \in Seq(S), NEW t \in Seq(S), NEW u, u = s \o t
  PROVE  /\ u \in Seq(S) /\ Len(u) = Len(s) + Len(t)
         /\ \A j \in 1 .. Len(s) : u[j] = s[j]
         /\ \A n \in 1 .. Len(t) : u[Len(s) + n] = t[n]
         /\ \A j \in 1 .. Len(u) :
              \/ j \in 1 .. Len(s)
              \/ \E n \in 1 .. Len(t) : j = Len(s) + n /\ u[j] = t[n]
<1>1. Len(s) \in Nat /\ Len(t) \in Nat /\ u \in Seq(S) /\ Len(u) = Len(s) + Len(t)
  OBVIOUS
<1>2. \A j \in 1 .. Len(s) : u[j] = s[j]
  OBVIOUS
<1>3. ASSUME NEW n \in 1 .. Len(t) PROVE u[Len(s) + n] = t[n]
  <2>1. PICK j \in 1 .. Len(s) + Len(t) : j = Len(s) + n
    BY <1>1
  <2>2. ~(j <= Len(s)) /\ j - Len(s) = n
    BY <1>1, <2>1
  <2>3. u[j] = t[j - Len(s)]
    BY <1>1, <2>1, <2>2, ConcatProperties
  <2> QED
    BY <2>1, <2>2, <2>3
<1>4. ASSUME NEW j \in 1 .. Len(u), j \notin 1 .. Len(s)
      PROVE  \E n \in 1 .. Len(t) : j = Len(s) + n /\ u[j] = t[n]
  <2>0. j \in Nat /\ Len(s) < j /\ j <= Len(s) + Len(t)
    BY <1>1, <1>4
  <2>1. PICK n \in 1 .. Len(t) : n = j - Len(s)
    <3>1. \A a, b, c \in Nat : a < c /\ c <= a + b => c - a \in 1 .. b
      OBVIOUS
    <3>2. j - Len(s) \in 1 .. Len(t)
      BY <1>1, <2>0, <3>1
    <3> QED
      BY <3>2
  <2>2. j = Len(s) + n
    BY <1>1, <2>0, <2>1
  <2> QED
    BY <1>3, <2>2
<1> QED
  BY <1>1, <1>2, <1>3, <1>4

(* One more at one place of a sequence of numbers: the places stay, and     *)
(* only that one changes.                                                   *)
LEMMA OneMore ==
  ASSUME NEW s \in Seq(Nat), NEW e \in 1 .. Len(s), NEW t, t = [s EXCEPT ![e] = @ + 1]
  PROVE  /\ t \in Seq(Nat) /\ Len(t) = Len(s)
         /\ \A d \in 1 .. Len(s) : t[d] = IF d = e THEN s[e] + 1 ELSE s[d]
<1>1. s[e] \in Nat
  OBVIOUS
<1>2. s[e] + 1 \in Nat
  BY <1>1
<1>3. t \in Seq(Nat) /\ Len(t) = Len(s)
  BY <1>2, ExceptSeq
<1>4. ASSUME NEW d \in 1 .. Len(s)
      PROVE  t[d] = IF d = e THEN s[e] + 1 ELSE s[d]
  BY <1>4
<1> QED
  BY <1>3, <1>4

(* A write keeps the invariant: the frame's part is staged behind all the   *)
(* others, or the staged parts go on into the message the frame makes.      *)
LEMMA WriteKeeps == ASSUME PumpInv, NEW e \in Entries, Write(e) PROVE PumpInv'
<1>0. PICK f : f = Frame(e)
  OBVIOUS
<1>1. /\ e \in 1 .. Len(issued) /\ f \in InFrames /\ f.of = e /\ f.k = written[e] + 1
      /\ written[e] \in Nat /\ written[e] + 1 <= Len(issued[e].frames)
      /\ f.tag = issued[e].frames[written[e] + 1]
      /\ f.tag = "CI" => issued[e].frames[1] = "CI" /\ e \in names /\ Left(e)
      /\ \A h \in 1 .. Len(taken) : taken[h] # f
      /\ taken' = Append(taken, f) /\ staged' = Staged(f) /\ msgs' = msgs \o Made(f)
      /\ written' = [written EXCEPT ![e] = @ + 1] /\ sent = Len(msgs)
      /\ UNCHANGED <<issued, names, pipe, sent, handled, loop, nameless>>
  BY <1>0, FrameRead
<1>2. /\ Len(msgs) \in Nat /\ Len(taken) \in Nat /\ Len(issued) \in Nat
      /\ msgs \in Seq(InMsgs) /\ taken \in Seq(InFrames) /\ staged \in Seq(InFrames)
      /\ sent \in Nat /\ handled \in Nat /\ handled <= sent
  BY PumpFacts DEF PumpInv, PumpTypes
<1>3. PICK made : made = Made(f)
  OBVIOUS
<1>4. /\ made \in Seq(InMsgs) /\ Len(made) \in {0, 1, 2} /\ Staged(f) \in Seq(InFrames)
      /\ f.tag = "UX" => made = <<>> /\ Staged(f) = Append(staged, f)
  BY <1>1, <1>3, FrameMakes
<1>c. ASSUME f.tag = "CI"
      PROVE  Len(made) = 1 /\ made[1].kind \in {"cmd", "reject"} /\ made[1].of = e
  <2>1. Len(Made(f)) = 1 /\ Made(f)[1].kind \in {"cmd", "reject"} /\ Made(f)[1].of = f.of
    BY <1>1, <1>c, FrameMakes
  <2> QED
    BY <1>1, <1>3, <2>1
<1>n. ASSUME NEW n \in 1 .. Len(made), made[n].kind \in {"cmd", "reject"}
      PROVE  f.tag = "CI" /\ n = 1
  <2>1. f.tag # "CI" => \A m \in 1 .. Len(Made(f)) : Made(f)[m].kind \notin {"cmd", "reject"}
    BY <1>1, FrameMakes
  <2>2. f.tag = "CI"
    BY <1>3, <1>n, <2>1
  <2>3. Len(made) = 1
    BY <1>c, <2>2
  <2> QED
    BY <2>2, <2>3
<1>b. f.tag # "UX" =>
        \E g \in 1 .. Len(made) + 1 :
          \A n \in 1 .. Len(made) + 1 :
            (IF n <= Len(made) THEN made[n].parts ELSE Staged(f)) = IF n = g THEN staged ELSE <<>>
  <2>1. f.tag # "UX" =>
          \E g \in 1 .. Len(Made(f)) + 1 :
            \A n \in 1 .. Len(Made(f)) + 1 :
              (IF n <= Len(Made(f)) THEN Made(f)[n].parts ELSE Staged(f))
                = IF n = g THEN staged ELSE <<>>
    BY <1>1, FrameMakes, Zenon
  <2> QED
    BY <1>3, <2>1, Zenon
<1>5. /\ msgs' \in Seq(InMsgs) /\ Len(msgs') = Len(msgs) + Len(made)
      /\ \A j \in 1 .. Len(msgs) : msgs'[j] = msgs[j]
      /\ \A n \in 1 .. Len(made) : msgs'[Len(msgs) + n] = made[n]
      /\ \A j \in 1 .. Len(msgs') :
           \/ j \in 1 .. Len(msgs)
           \/ \E n \in 1 .. Len(made) : j = Len(msgs) + n /\ msgs'[j] = made[n]
  <2>1. msgs' = msgs \o made /\ made \in Seq(InMsgs) /\ msgs \in Seq(InMsgs)
    BY <1>1, <1>2, <1>3, <1>4
  <2> QED
    <3>1. /\ msgs' \in Seq(InMsgs) /\ Len(msgs') = Len(msgs) + Len(made)
          /\ \A j \in 1 .. Len(msgs) : msgs'[j] = msgs[j]
      BY <2>1, Joined
    <3>2. \A n \in 1 .. Len(made) : msgs'[Len(msgs) + n] = made[n]
      BY <2>1, Joined
    <3>3. \A j \in 1 .. Len(msgs') :
            \/ j \in 1 .. Len(msgs)
            \/ \E n \in 1 .. Len(made) : j = Len(msgs) + n /\ msgs'[j] = made[n]
      BY <2>1, Joined
    <3> QED
      BY <3>1, <3>2, <3>3
<1>6. /\ Len(taken') = Len(taken) + 1 /\ taken'[Len(taken) + 1] = f /\ taken' \in Seq(InFrames)
      /\ \A i \in 1 .. Len(taken) : taken'[i] = taken[i]
      /\ \A i \in 1 .. Len(taken') : i \in 1 .. Len(taken) \/ i = Len(taken) + 1
  BY <1>1, <1>2
<1>7. /\ written' \in Seq(Nat) /\ Len(written') = Len(issued)
      /\ \A d \in 1 .. Len(issued) : written'[d] = IF d = e THEN written[e] + 1 ELSE written[d]
  <2>1. written \in Seq(Nat) /\ Len(written) = Len(issued) /\ e \in 1 .. Len(written)
    BY <1>1 DEF PumpInv, PumpTypes
  <2>2. written' = [written EXCEPT ![e] = @ + 1]
    BY <1>1
  <2> QED
    BY <2>1, <2>2, OneMore
<1>8. PumpTypes'
  <2>1. Len(msgs) <= Len(msgs')
    BY <1>2, <1>4, <1>5
  <2> QED
    BY <1>1, <1>2, <1>4, <1>5, <1>6, <1>7, <2>1 DEF PumpInv, PumpTypes
<1>9. TakenOnce'
  <2>1. \A d \in 1 .. Len(issued) :
          written[d] \in Nat /\ written[d] <= written'[d] /\ written'[d] \in Nat
           /\ written'[d] <= Len(issued[d].frames)
    <3>1. \A d \in 1 .. Len(issued) :
            written[d] \in Nat /\ written[d] <= Len(issued[d].frames) /\ Len(issued[d].frames) \in Nat
      BY PumpFacts
    <3>2. ASSUME NEW d \in 1 .. Len(issued)
          PROVE  written[d] <= written'[d] /\ written'[d] \in Nat /\ written'[d] <= Len(issued[d].frames)
      <4>1. CASE d = e
        BY <1>1, <1>7, <3>1, <4>1
      <4>2. CASE d # e
        BY <1>7, <3>1, <4>2
      <4> QED
        BY <4>1, <4>2
    <3> QED
      BY <3>1, <3>2
  <2>2. ASSUME NEW i \in 1 .. Len(taken)
        PROVE  /\ taken[i].of \in 1 .. Len(issued) /\ 1 <= taken[i].k
               /\ taken[i].k <= written'[taken[i].of]
               /\ taken[i].tag = issued[taken[i].of].frames[taken[i].k]
    <3>1. taken[i].k \in Nat
      <4>1. \A g \in InFrames : g.k \in Nat
        BY DEF InFrames
      <4> QED
        BY <1>2, <4>1
    <3>2. /\ taken[i].of \in 1 .. Len(issued) /\ 1 <= taken[i].k
          /\ taken[i].k <= written[taken[i].of]
          /\ taken[i].tag = issued[taken[i].of].frames[taken[i].k]
      BY DEF PumpInv, TakenOnce
    <3> QED
      BY <2>1, <3>1, <3>2
  <2>3. /\ f.of \in 1 .. Len(issued) /\ 1 <= f.k /\ f.k <= written'[f.of]
        /\ f.tag = issued[f.of].frames[f.k]
    BY <1>1, <1>7
  <2>4. ASSUME NEW i \in 1 .. Len(taken'), NEW h \in 1 .. Len(taken'), taken'[i] = taken'[h]
        PROVE  i = h
    <3>1. \A j \in 1 .. Len(taken) : taken[j] # f
      <4>1. ASSUME NEW j \in 1 .. Len(taken), taken[j] = f PROVE FALSE
        <5>1. taken[j].k <= written[e]
          BY <1>1, <4>1 DEF PumpInv, TakenOnce
        <5>2. written[e] \in Nat /\ f.k = written[e] + 1
          BY <1>1, PumpFacts
        <5> QED
          BY <4>1, <5>1, <5>2
      <4> QED
        BY <4>1
    <3>2. i = Len(taken) + 1 <=> h = Len(taken) + 1
      BY <1>6, <2>4, <3>1
    <3>3. CASE i \in 1 .. Len(taken) /\ h \in 1 .. Len(taken)
      <4>1. taken[i] = taken[h]
        BY <1>6, <2>4, <3>3
      <4> QED
        BY <3>3, <4>1 DEF PumpInv, TakenOnce
    <3> QED
      BY <1>6, <3>2, <3>3
  <2>5. ASSUME NEW i \in 1 .. Len(taken')
        PROVE  /\ taken'[i].of \in 1 .. Len(issued) /\ 1 <= taken'[i].k
               /\ taken'[i].k <= written'[taken'[i].of]
               /\ taken'[i].tag = issued[taken'[i].of].frames[taken'[i].k]
    BY <1>6, <2>2, <2>3
  <2> QED
    BY <1>1, <2>1, <2>4, <2>5 DEF TakenOnce
<1>10. PartsInOrder'
  <2>1. CASE f.tag = "UX"
    <3>1. msgs' = msgs /\ staged' = Append(staged, f)
      <4>1. msgs \o <<>> = msgs
        BY <1>2, ConcatEmptySeq
      <4> QED
        BY <1>1, <1>3, <1>4, <2>1, <4>1
    <3> QED
      BY <1>1, <2>1, <3>1, PartStaged
  <2>2. CASE f.tag # "UX"
    <3>1. PICK n \in 1 .. Len(made) + 1 :
            \A m \in 1 .. Len(made) + 1 :
              (IF m <= Len(made) THEN made[m].parts ELSE Staged(f)) = IF m = n THEN staged ELSE <<>>
      BY <1>b, <2>2
    <3>2. PICK g \in Nat : g = Len(msgs) + n
      BY <1>2, <1>4
    <3>3. Len(msgs) < g /\ g <= Len(msgs') + 1 /\ Len(msgs') \in Nat
      BY <1>2, <1>4, <1>5, <3>2
    <3>4. \A j \in 1 .. Len(msgs) : Box(j)' = Box(j)
      BY <1>2, <1>4, <1>5 DEF Box
    <3>5. ASSUME NEW m \in 1 .. Len(made) + 1, NEW j, j = Len(msgs) + m
          PROVE  Box(j)' = IF m = n THEN staged ELSE <<>>
      <4>1. CASE m <= Len(made)
        <5>1. m \in 1 .. Len(made) /\ j <= Len(msgs') /\ msgs'[j] = made[m]
          BY <1>2, <1>4, <1>5, <3>5, <4>1
        <5> QED
          BY <3>1, <4>1, <5>1 DEF Box
      <4>2. CASE ~(m <= Len(made))
        <5>1. ~(j <= Len(msgs'))
          BY <1>2, <1>4, <1>5, <3>5, <4>2
        <5> QED
          BY <1>1, <3>1, <4>2, <5>1 DEF Box
      <4> QED
        BY <4>1, <4>2
    <3>6. Box(g)' = staged
      BY <3>1, <3>2, <3>5
    <3>7. ASSUME NEW j \in Len(msgs) + 1 .. Len(msgs') + 1, j # g PROVE Len(Box(j)') = 0
      <4>1. j - Len(msgs) \in 1 .. Len(made) + 1 /\ j = Len(msgs) + (j - Len(msgs))
        BY <1>2, <1>4, <1>5, <3>7
      <4>2. PICK m \in 1 .. Len(made) + 1 : j = Len(msgs) + m
        BY <4>1
      <4>3. Box(j)' = <<>>
        BY <1>2, <1>4, <3>2, <3>5, <3>7, <4>2
      <4> QED
        BY <4>3
    <3>8. /\ Len(taken') \in Nat /\ Len(taken) <= Len(taken')
          /\ \A i \in 1 .. Len(taken) : taken'[i] = taken[i]
          /\ \A i \in Len(taken) + 1 .. Len(taken') :
               taken'[i].tag # "UX" /\ \A h \in 1 .. Len(taken) : taken'[i] # taken[h]
      <4>1. Len(taken') \in Nat /\ Len(taken) <= Len(taken')
        BY <1>2, <1>6
      <4>2. ASSUME NEW i \in Len(taken) + 1 .. Len(taken') PROVE taken'[i] = f
        <5>1. i = Len(taken) + 1
          BY <1>2, <1>6
        <5> QED
          BY <1>6, <5>1
      <4> QED
        BY <1>1, <1>6, <2>2, <4>1, <4>2
    <3> QED
      BY <3>3, <3>4, <3>6, <3>7, <3>8, BoxesMove
  <2> QED
    BY <2>1, <2>2
<1>11. ASSUME NEW i \in 1 .. Len(taken), f.tag = "CI" PROVE taken[i].of # e
  BY <1>1, <1>11, UnwrittenUnasked
<1>12. \A a : \A l \in 1 .. Len(msgs) : Answers(l, a)' <=> Answers(l, a)
  BY <1>5 DEF Answers
<1>13. \A a : \A l \in 1 .. Len(msgs') :
         l \notin 1 .. Len(msgs) /\ Answers(l, a)' => f.tag = "CI" /\ a = e /\ l = Len(msgs) + 1
  <2>1. ASSUME NEW a, NEW l \in 1 .. Len(msgs'), l \notin 1 .. Len(msgs), Answers(l, a)'
        PROVE  f.tag = "CI" /\ a = e /\ l = Len(msgs) + 1
    <3>1. PICK n \in 1 .. Len(made) : l = Len(msgs) + n /\ msgs'[l] = made[n]
      BY <1>5, <2>1
    <3>2. made[n].kind \in {"cmd", "reject"} /\ made[n].of = a
      BY <2>1, <3>1 DEF Answers
    <3>3. f.tag = "CI" /\ n = 1
      BY <1>n, <3>2
    <3>4. a = e
      BY <1>c, <3>2, <3>3
    <3> QED
      BY <3>1, <3>3, <3>4
  <2> QED
    BY <2>1
<1>14. CommandsAnswered'
  <2>1. ASSUME NEW i \in 1 .. Len(taken), taken[i].tag = "CI", NEW a, a = taken[i].of
        PROVE  AnsweredOnce(a)'
    <3>1. PICK j \in 1 .. Len(msgs) : \A l \in 1 .. Len(msgs) : Answers(l, a) <=> l = j
      BY <2>1 DEF PumpInv, CommandsAnswered
    <3>2. j \in 1 .. Len(msgs')
      BY <1>2, <1>4, <1>5
    <3>3. \A l \in 1 .. Len(msgs') : Answers(l, a)' <=> l = j
      BY <1>11, <1>12, <1>13, <2>1, <3>1
    <3> QED
      BY <3>2, <3>3 DEF AnsweredOnce
  <2>2. ASSUME f.tag = "CI"
        PROVE  AnsweredOnce(e)'
    <3>1. PICK j \in 1 .. Len(msgs') : j = Len(msgs) + 1
      <4>1. Len(msgs') = Len(msgs) + 1
        BY <1>c, <1>5, <2>2
      <4> QED
        BY <1>2, <4>1
    <3>2. msgs'[j].kind \in {"cmd", "reject"} /\ msgs'[j].of = e
      <4>1. 1 \in 1 .. Len(made) /\ msgs'[Len(msgs) + 1] = made[1]
        <5>1. Len(made) = 1
          BY <1>c, <2>2
        <5> QED
          BY <1>5, <5>1
      <4> QED
        BY <1>c, <2>2, <3>1, <4>1
    <3>3. \A l \in 1 .. Len(msgs) : ~Answers(l, e)
      <4>1. ASSUME NEW l \in 1 .. Len(msgs), Answers(l, e) PROVE FALSE
        <5>1. PICK i \in 1 .. Len(taken) : taken[i].of = e
          BY <4>1 DEF PumpInv, AnswersAsked, Answers
        <5> QED
          BY <1>11, <2>2, <5>1
      <4> QED
        BY <4>1
    <3>4. \A l \in 1 .. Len(msgs') :
            (msgs'[l].kind \in {"cmd", "reject"} /\ msgs'[l].of = e) <=> l = j
      BY <1>5, <1>13, <3>1, <3>2, <3>3 DEF Answers
    <3> QED
      BY <3>4 DEF AnsweredOnce, Answers
  <2>3. ASSUME NEW i \in 1 .. Len(taken'), taken'[i].tag = "CI", NEW a, a = taken'[i].of
        PROVE  AnsweredOnce(a)'
    <3>1. CASE i \in 1 .. Len(taken)
      <4>1. taken[i].tag = "CI" /\ a = taken[i].of
        BY <1>6, <2>3, <3>1
      <4> QED
        BY <2>1, <3>1, <4>1
    <3>2. CASE i = Len(taken) + 1
      <4>1. f.tag = "CI" /\ a = e
        BY <1>1, <1>6, <2>3, <3>2
      <4> QED
        BY <2>2, <4>1
    <3> QED
      BY <1>6, <3>1, <3>2
  <2> QED
    BY <2>3 DEF CommandsAnswered, AnsweredOnce
<1>15. AnswersAsked'
  <2>1. ASSUME NEW j \in 1 .. Len(msgs'), msgs'[j].kind \in {"cmd", "reject"}
        PROVE  /\ \E i \in 1 .. Len(taken') : taken'[i].tag = "CI" /\ taken'[i].of = msgs'[j].of
               /\ j \in handled + 1 .. Len(msgs') => msgs'[j].of \in names
    <3>1. CASE j \in 1 .. Len(msgs)
      <4>1. msgs'[j] = msgs[j]
        BY <1>5, <3>1
      <4>2. PICK i \in 1 .. Len(taken) : taken[i].tag = "CI" /\ taken[i].of = msgs[j].of
        BY <2>1, <3>1, <4>1 DEF PumpInv, AnswersAsked
      <4>3. i \in 1 .. Len(taken') /\ taken'[i] = taken[i]
        BY <1>2, <1>6
      <4>4. j \in handled + 1 .. Len(msgs') => j \in handled + 1 .. Len(msgs)
        BY <1>2, <3>1
      <4> QED
        BY <2>1, <3>1, <4>1, <4>2, <4>3, <4>4 DEF PumpInv, AnswersAsked
    <3>2. CASE j \notin 1 .. Len(msgs)
      <4>1. PICK a : a = msgs'[j].of
        OBVIOUS
      <4>2. f.tag = "CI" /\ msgs'[j].of = e
        BY <1>13, <2>1, <3>2, <4>1 DEF Answers
      <4>3. Len(taken) + 1 \in 1 .. Len(taken')
        BY <1>2, <1>6
      <4> QED
        BY <1>1, <1>6, <4>2, <4>3
    <3> QED
      BY <3>1, <3>2
  <2>2. \A j \in handled + 1 .. Len(msgs') : j \in 1 .. Len(msgs')
    BY <1>2, <1>4, <1>5
  <2> QED
    BY <1>1, <2>1, <2>2 DEF PumpInv, AnswersAsked
<1> QED
  BY <1>8, <1>9, <1>10, <1>14, <1>15 DEF PumpInv

LEMMA PumpSteps == PumpInv /\ [PumpNext]_pumpVars => PumpInv'
BY IssueKeeps, WriteKeeps, WriteFailsKeeps, PumpEOFKeeps, LoopTakeKeeps, QuietKeeps DEF PumpNext, GoesOn

(* No part of a message is lost, doubled or out of order between the frames*)
(* an adapter wrote and the messages run() gets, every command is answered *)
(* once, and the answer finds the name it was sent under (inputPump,       *)
(* handleInputFrame, commands.Writer): for any adapter, any number of      *)
(* messages and any capacity of the channel.                               *)
THEOREM NothingIsLost == PumpSpec => []InputAccounted
<1>1. PumpInv => InputAccounted
  BY DEF PumpInv, AnswersAsked, InputAccounted, AnswersNamed
<1> QED
  BY <1>1, PumpStarts, PumpSteps, PTL DEF PumpSpec
=============================================================================
