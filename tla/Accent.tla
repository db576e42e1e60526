-------------------------------- MODULE Accent --------------------------------
(***************************************************************************)
(* The accent colour of the page: the state of AccentProvider, the cached  *)
(* query of useAccentSync, the optimistic choice of the settings page      *)
(* (SettingsPage.tsx, AppearancePanel) and the preference that the backend *)
(* stores (accounts/preferences.rs).                                       *)
(*                                                                         *)
(* Answers arrive in any order; a save may fail, before or after it was    *)
(* stored.                                                                 *)
(***************************************************************************)
EXTENDS Naturals

CONSTANTS
    Accents,        \* the presets
    DefaultAccent,  \* of the page before anything is known, and of the backend
    Unknown,        \* the query has no data
    MaxChoices      \* bound: choices of the user

VARIABLES
    accent,     \* what the page shows
    data,       \* the cached answer of getAccent
    query,      \* the running getAccent: none, asked, or what it read
    preference, \* accent_color of the user
    choices,    \* choices made so far
    chosen,     \* the choice of each save
    previous,   \* what was shown before it
    save,       \* where each save is
    failed,     \* history: a save or a load failed
    overtaken,  \* history: a save was stored after a later one
    joined      \* history: the last save to be answered took over a load that had read

page == <<accent, data, query>>
vars == <<page, preference, choices, chosen, previous, save, failed, overtaken, joined>>

Saves == 1 .. MaxChoices
None == [at |-> "none", value |-> Unknown]
Asked == [at |-> "asked", value |-> Unknown]

Init ==
    /\ preference \in Accents
    /\ accent \in Accents           \* of an earlier visit, in localStorage
    /\ data = Unknown
    /\ query = Asked
    /\ choices = 0
    /\ chosen = [n \in Saves |-> DefaultAccent]
    /\ previous = [n \in Saves |-> DefaultAccent]
    /\ save = [n \in Saves |-> "none"]
    /\ failed = FALSE
    /\ overtaken = FALSE
    /\ joined = FALSE

--------------------------------------------------------------------------------
(* The query. *)

FetchRead ==
    /\ query.at = "asked"
    /\ query' = [at |-> "read", value |-> preference]
    /\ UNCHANGED <<accent, data, preference, choices, chosen, previous, save, failed, overtaken, joined>>

FetchAnswered ==
    /\ query.at = "read"
    /\ data' = query.value
    /\ query' = None
    /\ UNCHANGED <<accent, preference, choices, chosen, previous, save, failed, overtaken, joined>>

FetchFails ==
    /\ query # None
    /\ query' = None
    /\ failed' = TRUE
    /\ UNCHANGED <<accent, data, preference, choices, chosen, previous, save, overtaken, joined>>

(* The effect of useAccentSync: whenever the accent or the data have changed,
   the data win. *)
Sync ==
    /\ data # Unknown
    /\ data # accent
    /\ accent' = data
    /\ UNCHANGED <<data, query, preference, choices, chosen, previous, save, failed, overtaken, joined>>

--------------------------------------------------------------------------------
(* Choices. *)

(* selectAccent: shown at once, and saved. *)
Select(a) ==
    /\ choices < MaxChoices
    /\ choices' = choices + 1
    /\ chosen' = [chosen EXCEPT ![choices'] = a]
    /\ previous' = [previous EXCEPT ![choices'] = accent]
    /\ save' = [save EXCEPT ![choices'] = "asked"]
    /\ accent' = a
    /\ UNCHANGED <<data, query, preference, failed, overtaken, joined>>

(* set_accent; the page may have given up waiting. *)
Store(n) ==
    /\ save[n] \in {"asked", "abandoned"}
    /\ preference' = chosen[n]
    /\ save' = [save EXCEPT ![n] = IF save[n] = "asked" THEN "stored" ELSE "done"]
    /\ overtaken' = (overtaken \/ \E m \in Saves : m > n /\ save[m] \in {"stored", "done"})
    /\ UNCHANGED <<page, choices, chosen, previous, failed, joined>>

(* Variant: a load that is under way is thought to be recent enough. *)
SavedJoining(n) ==
    /\ save[n] = "stored"
    /\ save' = [save EXCEPT ![n] = "done"]
    /\ query' = IF query = None THEN Asked ELSE query
    /\ joined' = (data = Unknown /\ query.at = "read")
    /\ UNCHANGED <<accent, data, preference, choices, chosen, previous, failed, overtaken>>

(* onSuccess: invalidateQueries cancels a load that is under way and loads; but
   the first load, when there is no data yet, it joins. *)
Saved(n) ==
    /\ save[n] = "stored"
    /\ save' = [save EXCEPT ![n] = "done"]
    /\ LET joining == data = Unknown /\ query # None
       IN  /\ query' = IF joining THEN query ELSE Asked
           /\ joined' = (joining /\ query.at = "read")
    /\ UNCHANGED <<accent, data, preference, choices, chosen, previous, failed, overtaken>>

(* onError: the latest choice is rolled back.  The backend may have stored it,
   may do so later, or never. *)
SaveFails(n) ==
    /\ save[n] \in {"asked", "stored"}
    /\ save' \in {[save EXCEPT ![n] = "done"],
                  [save EXCEPT ![n] = IF save[n] = "asked" THEN "abandoned" ELSE "done"]}
    /\ accent' = IF n = choices THEN previous[n] ELSE accent
    /\ failed' = TRUE
    /\ UNCHANGED <<data, query, preference, choices, chosen, previous, overtaken, joined>>

--------------------------------------------------------------------------------

(* Nothing is under way and no effect is due. *)
Quiet ==
    /\ query = None
    /\ \A n \in Saves : save[n] \in {"none", "done"}
    /\ data \in {Unknown, accent}

Next ==
    \/ FetchRead
    \/ FetchAnswered
    \/ FetchFails
    \/ Sync
    \/ \E a \in Accents : Select(a)
    \/ \E n \in Saves : Store(n) \/ Saved(n) \/ SaveFails(n)

Spec == Init /\ [][Next]_vars

--------------------------------------------------------------------------------
(* Properties. *)

(* When everything has been answered and nothing failed, the page shows the stored
   preference, unless the last save found the first load under way: a later load
   that read before the save does not survive it.  And the preference is the last
   choice, unless the backend stored the saves in another order: nothing holds a
   save back until the one before is answered. *)
ChoiceSettles ==
    Quiet /\ ~failed =>
        /\ ~joined => accent = preference
        /\ ~overtaken /\ choices > 0 => preference = chosen[choices]

================================================================================
