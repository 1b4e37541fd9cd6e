----------------------------- MODULE Selectors -----------------------------
(***************************************************************************)
(* The theme and the model selector of the terminal: a list under a filter *)
(* (filtered_list.go), the keys either takes, the preview a theme gets     *)
(* while its row is highlighted, and what a pick makes of the session.     *)
(*                                                                         *)
(* A filter is the set of names it matches; a row is a name, or for models *)
(* an ID.  A preview is drawn a moment after the last key by a tick that   *)
(* carries the number it was armed with; fresh says the number is current. *)
(***************************************************************************)
EXTENDS Naturals, Sequences

CONSTANTS
  Themes,     (* the themes the session sent at startup, in order          *)
  StartThemes,(* what runtime.conf may name at startup, "" for no theme    *)
  Filters,    (* what can be typed: the sets of themes and IDs they match  *)
  Lists,      (* the model lists the session may send, in order of IDs     *)
  MaySaveFail,(* whether runtime.conf may refuse to be written             *)
  MaxKeys     (* bound: keys and lists                                     *)

(* A theme has a name: "" stands for none.                                 *)
ASSUME SelectorsAssumption ==
  /\ Themes \in Seq(STRING) /\ \A i \in DOMAIN Themes : Themes[i] # ""
  /\ Lists \subseteq Seq(STRING)

VARIABLES
  theme,      (* the theme selector                                        *)
  screen,     (* the theme the terminal is drawn in, "" the built-in one   *)
  applied,    (* appliedTheme                                              *)
  active,     (* activeTheme of the terminal                               *)
  original,   (* originalThemeName                                         *)
  previewed,  (* previewAppliedTheme, or ""                                *)
  ticks,      (* preview ticks on their way: [theme, fresh]                *)
  submitted,  (* theme names sent to the session and not handled           *)
  session,    (* active_theme of the session                               *)
  opened,     (* history: screen when the selector was opened, or "" when  *)
              (* it was not the session's theme then                       *)
  model,      (* the model selector, with the list it was loaded with      *)
  list,       (* the model list in the session's snapshot                  *)
  picked,     (* history: the ID of the last pick and the rows on screen   *)
  keys

selectorsVars == <<theme, screen, applied, active, original, previewed, ticks, submitted,
                   session, opened, model, list, picked, keys>>

-----------------------------------------------------------------------------
(* filtered_list.go.                                                       *)

ThemeNames == {Themes[i] : i \in DOMAIN Themes}
Everything == UNION {{l[i] : i \in DOMAIN l} : l \in Lists} \cup ThemeNames

Matching(rows, filter) ==
  LET kept[n \in 0..Len(rows)] ==
        IF n = 0 THEN <<>>
        ELSE IF rows[n] \in filter THEN Append(kept[n - 1], rows[n]) ELSE kept[n - 1]
  IN  kept[Len(rows)]

(* Tab moves between the filter and the list; Ctrl+C empties the filter;   *)
(* pasted text goes to the filter wherever the focus is.                   *)
TypedFilter(key) == CHOOSE f \in Filters \cup {Everything} : key = <<"type", f>> \/ key = <<"paste", f>>

HandleKey(fl, key) ==
  CASE key = <<"tab">> -> [fl EXCEPT !.inFilter = ~@]
    [] key = <<"esc">> -> [fl EXCEPT !.open = FALSE]
    [] key = <<"ctrl+c">> /\ fl.inFilter -> [fl EXCEPT !.filter = Everything]
    [] (key[1] = "type" /\ fl.inFilter) \/ key[1] = "paste" -> [fl EXCEPT !.filter = TypedFilter(key)]
    [] OTHER -> fl

Moved(fl, key) ==
  CASE ~fl.inFilter /\ key = <<"j">> /\ fl.idx < Len(fl.rows) -> [fl EXCEPT !.idx = @ + 1]
    [] ~fl.inFilter /\ key = <<"k">> /\ fl.idx > 1 -> [fl EXCEPT !.idx = @ - 1]
    [] OTHER -> fl

ClampSelection_No(fl) == fl
ClampSelection(fl) ==
  [fl EXCEPT !.idx = IF fl.rows = <<>> THEN 1 ELSE IF fl.idx > Len(fl.rows) THEN Len(fl.rows) ELSE fl.idx]

(* Enter takes the highlighted row, and from the filter the first one.     *)
Pick(fl) == IF fl.inFilter THEN fl.rows[1] ELSE fl.rows[fl.idx]
Picks(fl, key) == key = <<"enter">> /\ fl.rows # <<>>

ListKeys ==
  {<<"tab">>, <<"esc">>, <<"enter">>, <<"ctrl+c">>, <<"j">>, <<"k">>}
    \cup {<<w, f>> : w \in {"type", "paste"}, f \in Filters}

Pressed == keys < MaxKeys /\ keys' = keys + 1

-----------------------------------------------------------------------------
(* The theme selector.                                                     *)

SelectorsInit ==
  /\ theme = [open |-> FALSE, inFilter |-> TRUE, filter |-> Everything, rows |-> <<>>, idx |-> 1,
              preview |-> ""]
  /\ session \in StartThemes /\ applied = session /\ active = session
  /\ screen = IF session \in ThemeNames THEN session ELSE ""
  /\ original = "" /\ previewed = "" /\ ticks = {} /\ submitted = <<>> /\ opened = ""
  /\ list \in Lists
  /\ model = [open |-> FALSE, inFilter |-> TRUE, filter |-> Everything, rows |-> list, idx |-> 1,
              loaded |-> list]
  /\ picked = [id |-> "", rows |-> <<"">>]
  /\ keys = 0

LoadPreview(ts) == IF ts.rows = <<>> THEN ts ELSE [ts EXCEPT !.preview = ts.rows[ts.idx]]

UpdateFilteredThemes(ts, was) ==
  IF ts.filter = was THEN ts
  ELSE ClampSelection([ts EXCEPT !.rows = Matching(Themes, ts.filter), !.idx = 1])

OpenThemeSelector ==
  /\ Pressed /\ ~theme.open /\ ~model.open
  /\ theme' = LoadPreview([open |-> TRUE, inFilter |-> TRUE, filter |-> Everything, rows |-> Themes,
                           idx |-> IF active \in ThemeNames
                                   THEN CHOOSE i \in DOMAIN Themes : Themes[i] = active ELSE 1,
                           preview |-> ""])
  /\ original' = active /\ previewed' = IF active \in ThemeNames THEN active ELSE ""
  /\ opened' = IF screen = session /\ active = session /\ submitted = <<>> THEN screen ELSE ""
  /\ UNCHANGED <<screen, applied, active, ticks, submitted, session, model, list, picked>>

(* A number is spent: every tick armed before is no longer the current one.*)
Spent == {[t EXCEPT !.fresh = FALSE] : t \in ticks}

Restored_No == UNCHANGED screen

(* What was previewed goes only if there is a theme to go back to.         *)
Restored ==
  IF previewed \notin {"", original} /\ original \in ThemeNames
  THEN screen' = original ELSE UNCHANGED screen

(* The selector after a key that neither picks nor closes.                 *)
Handled(t, key) ==
  LET fl    == HandleKey(t, key)
      next  == UpdateFilteredThemes(fl, t.filter)
      moved == Moved(next, key)
  IN  IF key[1] # "paste" /\ (fl.filter # t.filter \/ moved # next
                                \/ (key = <<"ctrl+c">> /\ fl.inFilter))
      THEN LoadPreview(moved) ELSE next

(* Any other key arms the preview of the highlighted row again; a paste    *)
(* narrows the list without it.                                            *)
ThemeKey(key) ==
  /\ Pressed /\ theme.open
  /\ LET ts == Handled(theme, key)
     IN  IF key = <<"esc">> THEN
           /\ Restored
           /\ theme' = [ts EXCEPT !.preview = ""]
           /\ previewed' = "" /\ ticks' = Spent
           /\ UNCHANGED submitted
         ELSE IF Picks(theme, key) THEN
           /\ theme' = [theme EXCEPT !.open = FALSE, !.preview = Pick(theme)]
           /\ submitted' = Append(submitted, Pick(theme)) /\ ticks' = Spent
           /\ UNCHANGED <<screen, previewed>>
         ELSE
           /\ theme' = ts
           /\ ticks' = IF key[1] = "paste" \/ ts.preview = "" THEN ticks
                       ELSE Spent \cup {[theme |-> ts.preview, fresh |-> TRUE]}
           /\ UNCHANGED <<screen, previewed, submitted>>
  /\ UNCHANGED <<applied, active, original, session, opened, model, list, picked>>

HandleThemePreview_Any(t) == screen' = t.theme /\ previewed' = t.theme

HandleThemePreview(t) ==
  IF t.fresh THEN screen' = t.theme /\ previewed' = t.theme ELSE UNCHANGED <<screen, previewed>>

PreviewTick(t) ==
  /\ t \in ticks /\ ticks' = ticks \ {t}
  /\ HandleThemePreview(t)
  /\ UNCHANGED <<theme, applied, active, original, submitted, session, opened, model, list, picked, keys>>

(* handleThemeSet: refused when there is no such file; the theme named in  *)
(* the message that follows is the old one when runtime.conf could not be  *)
(* written.                                                                *)
ThemeSet(ok) ==
  /\ submitted # <<>> /\ submitted' = Tail(submitted)
  /\ session' = IF ok THEN Head(submitted) ELSE session
  /\ UNCHANGED <<theme, screen, applied, active, original, previewed, ticks, opened, model, list, picked, keys>>

(* A beat of the terminal (updateStatus, syncThemeFromSession): a theme it *)
(* has no colors of changes none.                                          *)
Beat ==
  /\ active # session \/ applied # session
  /\ IF session \in {applied, ""} THEN UNCHANGED <<screen, applied>>
     ELSE applied' = session /\ screen' = IF session \in ThemeNames THEN session ELSE screen
  /\ active' = session
  /\ UNCHANGED <<theme, original, previewed, ticks, submitted, session, opened, model, list, picked, keys>>

-----------------------------------------------------------------------------
(* The model selector.                                                     *)

OpenModelSelector ==
  /\ Pressed /\ ~theme.open /\ ~model.open
  /\ model' = [model EXCEPT !.open = TRUE, !.inFilter = TRUE, !.filter = Everything,
                            !.rows = model.loaded, !.idx = 1]
  /\ UNCHANGED <<theme, screen, applied, active, original, previewed, ticks, submitted, session, opened, list, picked>>

(* A highlighted row keeps the highlight while the filter still shows it.  *)
UpdateFilteredModels(ms, rows) ==
  LET id == IF ~ms.inFilter /\ ms.idx \in DOMAIN ms.rows THEN ms.rows[ms.idx] ELSE ""
      at == {i \in DOMAIN rows : rows[i] = id}
  IN  [ms EXCEPT !.rows = rows, !.idx = IF at = {} THEN 1 ELSE CHOOSE i \in at : TRUE]

ModelKey(key) ==
  /\ Pressed /\ model.open
  /\ LET fl == HandleKey(model, key)
         ms == IF fl.filter # model.filter
               THEN UpdateFilteredModels(fl, Matching(model.loaded, fl.filter)) ELSE fl
     IN  IF Picks(model, key)
         THEN /\ picked' = [id |-> Pick(model), rows |-> model.rows]
              /\ model' = [model EXCEPT !.open = FALSE]
         ELSE model' = Moved(ms, key) /\ UNCHANGED picked
  /\ UNCHANGED <<theme, screen, applied, active, original, previewed, ticks, submitted, session, opened, list>>

(* A list arrives; an open selector keeps its place in it.                 *)
LoadModels(l) ==
  /\ Pressed /\ l \in Lists /\ list' = l
  /\ IF l = model.loaded THEN UNCHANGED model
     ELSE LET ms == UpdateFilteredModels([model EXCEPT !.loaded = l], Matching(l, model.filter)) IN
          model' = IF model.open /\ model.loaded # <<>>
                   THEN ClampSelection([ms EXCEPT !.idx = model.idx]) ELSE ms
  /\ UNCHANGED <<theme, screen, applied, active, original, previewed, ticks, submitted, session, opened, picked>>

SelectorsNext ==
  \/ OpenThemeSelector \/ OpenModelSelector
  \/ \E key \in ListKeys : ThemeKey(key) \/ ModelKey(key)
  \/ \E t \in ticks : PreviewTick(t)
  \/ \E ok \in {TRUE, ~MaySaveFail} : ThemeSet(ok)
  \/ Beat
  \/ \E l \in Lists : LoadModels(l)

SelectorsSpec == SelectorsInit /\ [][SelectorsNext]_selectorsVars
-----------------------------------------------------------------------------
(* Whatever lists arrive and whatever is typed while a selector is open,   *)
(* the highlight is on a row that is there (the code indexes the rows with *)
(* it), and what Enter picked was one of the rows.                         *)
HighlightOnRow ==
  /\ \A s \in {theme, model} : s.open => s.idx \in 1..(IF s.rows = <<>> THEN 1 ELSE Len(s.rows))
  /\ \E i \in DOMAIN picked.rows : picked.rows[i] = picked.id

(* A selector opened while the session's theme is on screen and canceled   *)
(* leaves that theme, whatever it previewed; and nothing armed while it    *)
(* was open is drawn after it closed, then only the session's word is.     *)
NoPreviewStays ==
  /\ theme.open /\ ~theme'.open /\ submitted' = submitted /\ opened # "" => screen' = opened
  /\ ~theme.open /\ screen' # screen => screen' = session
=============================================================================
