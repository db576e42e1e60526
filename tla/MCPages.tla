-------------------------------- MODULE MCPages --------------------------------
(***************************************************************************)
(* Accent, ColumnPreferences and NotificationBell on small instances: what *)
(* the page keeps of the backend's state, with choices shown before they   *)
(* are saved.  They share no state, so that a behaviour follows one of     *)
(* them, and the variables of the others have no value.                    *)
(***************************************************************************)
EXTENDS Naturals, Sequences, TLC

CONSTANTS
    Accents, DefaultAccent, Unknown, MaxChoices,            \* of Accent
    Keys, Default, OldKey, NewKey, GoneKey, MaxEdits, MaxVisits,    \* of ColumnPreferences
    k1, k2, k3,                                             \* the columns here
    Vms, Dates, NotDue, Unacked, MaxCalls, MaxChanges,      \* of NotificationBell
    Unused

ASSUME AccentsAreKnown == DefaultAccent \in Accents /\ Unknown \notin Accents
ASSUME ChoicesAreNatural == MaxChoices \in Nat
ASSUME NamesAreKnown == NewKey \in Keys /\ {OldKey, GoneKey} \cap Keys = {} /\ OldKey # GoneKey
ASSUME DefaultHasEachColumn ==
    /\ Default \in Seq([key : Keys, visible : BOOLEAN])
    /\ Keys = {Default[i].key : i \in DOMAIN Default}
    /\ \A i, j \in DOMAIN Default : Default[i].key = Default[j].key => i = j

VARIABLES
    part,       \* the component this behaviour is about
    accent, data, query, preference, choices, chosen, previous, save, failed, overtaken,
    joined, rendered, ref, load, timers, puts, stored, visit, there, edits, sent,
    wanted, edited, raced, latest, lost,
    date, acked, cached, open, fetch, calls, changes, behind

(* Only the first column is shown by default. *)
ThreeColumns ==
    <<[key |-> k1, visible |-> TRUE], [key |-> k2, visible |-> FALSE],
      [key |-> k3, visible |-> FALSE]>>

Accent == INSTANCE Accent
Columns == INSTANCE ColumnPreferences
Bell == INSTANCE NotificationBell

accentVars ==
    <<accent, data, query, preference, choices, chosen, previous, save, failed, overtaken,
      joined>>
columnVars ==
    <<rendered, ref, load, timers, puts, stored, visit, there, edits, sent,
      wanted, edited, raced, latest, lost>>
bellVars == <<date, acked, cached, open, fetch, calls, changes, behind>>

NoAccent ==
    /\ accent = Unused /\ data = Unused /\ query = Unused /\ preference = Unused
    /\ choices = Unused /\ chosen = Unused /\ previous = Unused /\ save = Unused
    /\ failed = Unused /\ overtaken = Unused /\ joined = Unused

NoColumns ==
    /\ rendered = Unused /\ ref = Unused /\ load = Unused /\ timers = Unused
    /\ puts = Unused /\ stored = Unused /\ visit = Unused /\ there = Unused
    /\ edits = Unused /\ sent = Unused /\ wanted = Unused /\ edited = Unused
    /\ raced = Unused /\ latest = Unused /\ lost = Unused

NoBell ==
    /\ date = Unused /\ acked = Unused /\ cached = Unused /\ open = Unused
    /\ fetch = Unused /\ calls = Unused /\ changes = Unused /\ behind = Unused

PagesInit ==
    \/ part = "accent" /\ Accent!Init /\ NoColumns /\ NoBell
    \/ part = "columns" /\ Columns!Init /\ NoAccent /\ NoBell
    \/ part = "bell" /\ Bell!Init /\ NoAccent /\ NoColumns

PagesNext ==
    /\ UNCHANGED part
    /\ \/ part = "accent" /\ Accent!Next /\ UNCHANGED <<columnVars, bellVars>>
       \/ part = "columns" /\ Columns!Next /\ UNCHANGED <<accentVars, bellVars>>
       \/ part = "bell" /\ Bell!Next /\ UNCHANGED <<accentVars, columnVars>>

PagesSpec == PagesInit /\ [][PagesNext]_<<part, accentVars, columnVars, bellVars>>

Symmetry == Permutations(Accents \ {DefaultAccent}) \cup Permutations(Vms)

--------------------------------------------------------------------------------
(* When all is answered and nothing failed, the page shows the accent stored, unless
   the last save joined the first load, and the one stored is the last choice unless
   saves were stored in another order. *)
ChoiceSettles == part = "accent" => Accent!ChoiceSettles

(* The table has each column once and no key twice, whatever layout was loaded. *)
EveryColumnOnce == part = "columns" => Columns!EveryColumnOnce

(* When all is answered, page and backend have what the edits asked for, or the page
   has a column that is gone, and its saves are refused. *)
EditsAreSaved == part = "columns" => Columns!EditsAreSaved

(* When nothing is under way, the page lists the alerts the backend lists. *)
ListIsServers == part = "bell" => Bell!ListIsServers

================================================================================
