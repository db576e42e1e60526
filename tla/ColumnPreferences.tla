--------------------------- MODULE ColumnPreferences ---------------------------
(***************************************************************************)
(* The columns of the inventory table: the hook useColumnPreferences with  *)
(* its load, its edits and its debounced save, and the preference the      *)
(* backend stores (accounts/preferences.rs).                               *)
(*                                                                         *)
(* Edits are computed from a ref that is ahead of the rendered columns.    *)
(* The user may leave the page and come back: the timer of the old visit   *)
(* is not cleared.  Saves are stored in any order.                         *)
(***************************************************************************)
EXTENDS Naturals, SequencesExt

CONSTANTS
    Keys,           \* the columns
    Default,        \* the default layout: each column once, shown or not
    OldKey,         \* the name a column had before
    NewKey,         \* the column it means now
    GoneKey,        \* a column the page no longer has
    MaxEdits,       \* bound: edits
    MaxVisits       \* bound: visits of the page

Entries == [key : Keys \cup {OldKey, GoneKey}, visible : BOOLEAN]

KeysOf(c) == {c[i].key : i \in DOMAIN c}

OnceEach(c) == \A i, j \in DOMAIN c : c[i].key = c[j].key => i = j

(* Each column of the page once, and nothing twice; what was saved of a column that
   is gone stays. *)
IsComplete(c) ==
    /\ Keys \subseteq KeysOf(c)
    /\ KeysOf(c) \subseteq Keys \cup {GoneKey}
    /\ OnceEach(c)

VARIABLES
    rendered,   \* columns: what the page shows
    ref,        \* columnsRef
    load,       \* the load of this visit
    timers,     \* saves that wait for their 300 ms, by the visit they are from
    puts,       \* saves under way, by number
    stored,     \* columns_inventory-list of the user
    visit,      \* visits so far
    there,      \* the page is open
    edits,      \* edits so far
    sent,       \* saves sent so far
    wanted,     \* history: what the edits of the user ask for
    edited,     \* history: edits were made in this visit
    raced,      \* history: a load and an edit crossed
    latest,     \* history: the latest save that was stored
    lost        \* history: a load or a save failed, or saves changed their order

hook == <<rendered, ref, load>>
history == <<wanted, edited, raced, latest, lost>>
vars == <<hook, timers, puts, stored, visit, there, edits, sent, history>>

Named(k, name) ==
    [i \in DOMAIN Default |->
        IF Default[i].key = k THEN [Default[i] EXCEPT !.key = name] ELSE Default[i]]

(* What users have saved: the default, a layout from before a column was added,
   removed or renamed, or with both names of one.
   SCHEMA: COLUMNS skips the order 10, of the lifecycle that migration 0022 removed. *)
Layouts ==
    {Default}
    \cup {RemoveAt(Default, i) : i \in DOMAIN Default}
    \cup {Named(NewKey, OldKey)}
    \cup {Append(Default, [key |-> k, visible |-> FALSE]) : k \in {OldKey, GoneKey}}

NoLoad == [at |-> "none", value |-> Default]

Init ==
    /\ stored \in Layouts
    /\ rendered = Default
    /\ ref = Default
    /\ load = [at |-> "asked", value |-> Default]
    /\ timers = {}
    /\ puts = {}
    /\ visit = 1
    /\ there = TRUE
    /\ edits = 0
    /\ sent = 0
    /\ wanted = Default
    /\ edited = FALSE
    /\ raced = FALSE
    /\ latest = 0
    /\ lost = FALSE

--------------------------------------------------------------------------------
(* Columns that c does not have come last, hidden: mergeWithDefaults, and the end
   of columns. *)
MergeWithDefaults(c) ==
    LET merged[n \in 0 .. Len(Default)] ==
            IF n = 0 THEN c
            ELSE IF Default[n].key \in KeysOf(c) THEN merged[n - 1]
            ELSE Append(merged[n - 1], [key |-> Default[n].key, visible |-> FALSE])
    IN  merged[Len(Default)]

Renamed(c) ==
    [i \in DOMAIN c |-> [c[i] EXCEPT !.key = IF @ = OldKey THEN NewKey ELSE @]]

FirstOfEach(c) ==
    LET kept[n \in 0 .. Len(c)] ==
            IF n = 0 THEN <<>>
            ELSE IF c[n].key \in KeysOf(kept[n - 1]) THEN kept[n - 1]
            ELSE Append(kept[n - 1], c[n])
    IN  kept[Len(c)]

(* Variant: a layout with both names of a column keeps both. *)
ColumnsRenamed(saved) == MergeWithDefaults(Renamed(saved))

(* columns: what the backend answers for a saved layout. *)
Columns(saved) == MergeWithDefaults(FirstOfEach(Renamed(saved)))

Toggled(c, k) ==
    [i \in DOMAIN c |-> IF c[i].key = k THEN [c[i] EXCEPT !.visible = ~@] ELSE c[i]]

(* from is put where to is. *)
Reordered(c, from, to) ==
    LET place(k) == CHOOSE i \in DOMAIN c : c[i].key = k
    IN  InsertAt(RemoveAt(c, place(from)), place(to), c[place(from)])

--------------------------------------------------------------------------------
(* The load. *)

LoadRead ==
    /\ load.at = "asked"
    /\ load' = [at |-> "read", value |-> Columns(stored)]
    /\ raced' = (raced \/ timers # {} \/ puts # {})
    /\ UNCHANGED <<rendered, ref, timers, puts, stored, visit, there, edits, sent,
                   wanted, edited, latest, lost>>

(* What is loaded replaces what was edited meanwhile; the save of the edit goes
   on. *)
LoadAnswered ==
    /\ load.at = "read"
    /\ load' = NoLoad
    /\ ref' = MergeWithDefaults(load.value)
    /\ wanted' = MergeWithDefaults(load.value)
    /\ raced' = (raced \/ edited)
    /\ UNCHANGED <<rendered, timers, puts, stored, visit, there, edits, sent, edited,
                   latest, lost>>

LoadFails ==
    /\ load # NoLoad
    /\ load' = NoLoad
    /\ lost' = TRUE
    /\ UNCHANGED <<rendered, ref, timers, puts, stored, visit, there, edits, sent,
                   wanted, edited, raced, latest>>

Render ==
    /\ rendered # ref
    /\ rendered' = ref
    /\ UNCHANGED <<ref, load, timers, puts, stored, visit, there, edits, sent, history>>

--------------------------------------------------------------------------------
(* Edits. *)

(* save: the timer of this visit starts anew, with these columns. *)
Save(next) ==
    timers' = {t \in timers : t.visit # visit} \cup {[visit |-> visit, columns |-> next]}

(* Variant: an edit is computed from the columns the page shows. *)
CurrentRendered == rendered

(* columnsRef.current. *)
Current == ref

(* toggleColumn, reorderColumns or resetToDefault; meant is the same edit of what
   the user wanted before. *)
Change(next, meant) ==
    /\ there
    /\ edits < MaxEdits
    /\ edits' = edits + 1
    /\ ref' = next
    /\ Save(next)
    /\ wanted' = meant
    /\ edited' = TRUE
    /\ raced' = (raced \/ load # NoLoad)
    /\ UNCHANGED <<rendered, load, puts, stored, visit, there, sent, latest, lost>>

ToggleColumn(k) == Change(Toggled(Current, k), Toggled(wanted, k))

(* A column that is not there cannot be moved; onto itself changes nothing. *)
ReorderColumns(from, to) ==
    /\ from # to
    /\ {from, to} \subseteq KeysOf(Current)
    /\ {from, to} \subseteq KeysOf(wanted)
    /\ Change(Reordered(Current, from, to), Reordered(wanted, from, to))

ResetToDefault == Change(Default, Default)

TimerFires(t) ==
    /\ timers' = timers \ {t}
    /\ sent' = sent + 1
    /\ puts' = puts \cup {[n |-> sent', columns |-> t.columns]}
    /\ UNCHANGED <<hook, stored, visit, there, edits, history>>

(* The keys that set_columns knows, each once. *)
Accepted(c) == KeysOf(c) \subseteq Keys \cup {OldKey} /\ OnceEach(c)

(* set_columns. *)
Store(p) ==
    /\ Accepted(p.columns)
    /\ puts' = puts \ {p}
    /\ stored' = p.columns
    /\ latest' = IF p.n > latest THEN p.n ELSE latest
    /\ lost' = (lost \/ p.n < latest)
    /\ UNCHANGED <<hook, timers, visit, there, edits, sent, wanted, edited, raced>>

(* 422: the page shows the error and keeps what it has. *)
Refuse(p) ==
    /\ ~Accepted(p.columns)
    /\ puts' = puts \ {p}
    /\ UNCHANGED <<hook, timers, stored, visit, there, edits, sent, history>>

SaveFails(p) ==
    /\ puts' = puts \ {p}
    /\ lost' = TRUE
    /\ UNCHANGED <<hook, timers, stored, visit, there, edits, sent, wanted, edited,
                   raced, latest>>

--------------------------------------------------------------------------------
(* Visits. *)

(* The cleanup cancels the load, and only the load. *)
Leave ==
    /\ there
    /\ there' = FALSE
    /\ load' = NoLoad
    /\ lost' = (lost \/ load # NoLoad)
    /\ UNCHANGED <<rendered, ref, timers, puts, stored, visit, edits, sent, wanted,
                   edited, raced, latest>>

Return ==
    /\ ~there
    /\ visit < MaxVisits
    /\ visit' = visit + 1
    /\ there' = TRUE
    /\ rendered' = Default
    /\ ref' = Default
    /\ load' = [at |-> "asked", value |-> Default]
    /\ wanted' = Default
    /\ edited' = FALSE
    /\ UNCHANGED <<timers, puts, stored, edits, sent, raced, latest, lost>>

Next ==
    \/ LoadRead
    \/ LoadAnswered
    \/ LoadFails
    \/ Render
    \/ \E k \in KeysOf(rendered) : ToggleColumn(k)
    \/ \E from, to \in KeysOf(rendered) : ReorderColumns(from, to)
    \/ ResetToDefault
    \/ \E t \in timers : TimerFires(t)
    \/ \E p \in puts : Store(p) \/ Refuse(p) \/ SaveFails(p)
    \/ Leave
    \/ Return

Spec == Init /\ [][Next]_vars

--------------------------------------------------------------------------------
(* Properties. *)

Quiet == load = NoLoad /\ timers = {} /\ puts = {} /\ rendered = ref

(* A layout has each column once and no key twice, also after moves, a reset, and
   the load of a layout that was saved before a column was added, renamed or
   removed; only a removed one may be in it besides. *)
EveryColumnOnce ==
    \A c \in {ref} \cup {t.columns : t \in timers} : IsComplete(c)

(* When everything has been answered, the page shows what the edits asked for, and
   that is what the next visit loads, or it has a removed column, which is refused
   until the layout is reset.  No edit is lost to another made before it was
   rendered, nor to the debounce, unless a load and an edit crossed, something
   failed, or two saves were stored in the other order. *)
EditsAreSaved ==
    Quiet /\ ~raced /\ ~lost =>
        /\ rendered = wanted
        /\ Columns(stored) = wanted \/ GoneKey \in KeysOf(wanted)

================================================================================
