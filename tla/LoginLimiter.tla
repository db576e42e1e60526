----------------------------- MODULE LoginLimiter -----------------------------
(***************************************************************************)
(* The login limiter (api/auth.rs: Attempts): a sliding window of accepted *)
(* attempts for each scope and path, in a table of bounded size that is    *)
(* swept now and then.  It is behind a mutex, so a check is one step.      *)
(*                                                                         *)
(* Time is a natural number, in the unit of the window.  The table is in   *)
(* memory: it starts empty with the process.                               *)
(***************************************************************************)
EXTENDS Integers, Sequences, FiniteSets

CONSTANTS
    Keys,           \* a scope with its path: an account, a directory entry, ..
    Limit,          \* Limit[k]: attempts of k accepted in a window
    Window,         \* ATTEMPT_WINDOW
    SweepEvery,     \* the second after which a check sweeps again
    MaxKeys,        \* MAX_ATTEMPT_KEYS
    MaxTime         \* bound: the time

ASSUME LimitsArePositive == Limit \in [Keys -> Nat \ {0}]
ASSUME TimesArePositive == Window \in Nat \ {0} /\ SweepEvery \in Nat
ASSUME CapacityIsPositive == MaxKeys \in Nat \ {0}
ASSUME MaxTimeIsNatural == MaxTime \in Nat

VARIABLES
    now,        \* Instant::now
    queues,     \* queues[k]: times of accepted attempts; an entry is never empty
    sweptAt,    \* swept_at
    granted,    \* history: the times of all accepted attempts of k
    last        \* history: the key checked last at this time, and the verdict

limiterVars == <<now, queues, sweptAt, granted, last>>

Unchecked == [key |-> "none", verdict |-> "none"]

LimiterInit ==
    /\ now = 0
    /\ queues = [k \in Keys |-> <<>>]
    /\ sweptAt = 0
    /\ granted = [k \in Keys |-> <<>>]
    /\ last = Unchecked

--------------------------------------------------------------------------------
Entries(q) == {k \in Keys : q[k] # <<>>}

(* Variant: an attempt counts for the whole unit in which its window ends. *)
ExpiredLate(t) == now - t > Window

Expired(t) == now - t >= Window

(* Variant: a queue whose first attempt has expired starts anew. *)
PrunedWhole(q) == IF q # <<>> /\ Expired(q[1]) THEN <<>> ELSE q

(* Expired attempts are popped from the front. *)
Pruned(q) ==
    LET n == CHOOSE i \in 0..Len(q) :
                /\ \A j \in 1..i : Expired(q[j])
                /\ i = Len(q) \/ ~Expired(q[i + 1])
    IN  SubSeq(q, n + 1, Len(q))

SweepDue == now - sweptAt >= SweepEvery \/ Cardinality(Entries(queues)) >= MaxKeys

Swept == IF SweepDue THEN [k \in Keys |-> Pruned(queues[k])] ELSE queues

Full(q, k) == Cardinality(Entries(q)) >= MaxKeys /\ k \notin Entries(q)

Verdict(k) ==
    IF Full(Swept, k) THEN "full"
    ELSE IF Len(Pruned(Swept[k])) >= Limit[k] THEN "limited"
    ELSE "accepted"

--------------------------------------------------------------------------------
Check(k) ==
    /\ sweptAt' = IF SweepDue THEN now ELSE sweptAt
    /\ last' = [key |-> k, verdict |-> Verdict(k)]
    /\ queues' = CASE Verdict(k) = "full" -> Swept
                   [] Verdict(k) = "limited" -> [Swept EXCEPT ![k] = Pruned(@)]
                   [] Verdict(k) = "accepted" -> [Swept EXCEPT ![k] = Append(Pruned(@), now)]
    /\ granted' = IF Verdict(k) = "accepted" THEN [granted EXCEPT ![k] = Append(@, now)]
                  ELSE granted
    /\ UNCHANGED now

Tick ==
    /\ now < MaxTime
    /\ now' = now + 1
    /\ last' = Unchecked
    /\ UNCHANGED <<queues, sweptAt, granted>>

LimiterNext == Tick \/ \E k \in Keys : Check(k)

LimiterSpec == LimiterInit /\ [][LimiterNext]_limiterVars

--------------------------------------------------------------------------------
(* Properties. *)

LimiterTypeOK ==
    /\ now \in Nat
    /\ queues \in [Keys -> Seq(Nat)]
    /\ sweptAt \in Nat
    /\ granted \in [Keys -> Seq(Nat)]
    /\ last \in [key : Keys, verdict : {"full", "limited", "accepted"}] \cup {Unchecked}

(* No window of time holds more accepted attempts of a key than its limit: of
   Limit + 1 in a row, the last is at least a window after the first.  Neither
   the sweep nor the table's size ever forgets an attempt that still counts. *)
WithinBudget ==
    \A k \in Keys : \A i \in 1..Len(granted[k]) :
        i + Limit[k] <= Len(granted[k]) =>
            granted[k][i + Limit[k]] - granted[k][i] >= Window

(* The table never has more entries than its capacity. *)
CapacityKept == Cardinality(Entries(queues)) <= MaxKeys

Recent(k, n) == Len(granted[k]) >= n /\ now - granted[k][Len(granted[k]) - n + 1] < Window

(* An attempt is only refused for the reason given: its key spent its limit within
   the last window, or as many keys as the table has entries were accepted in it
   and the key is none of them. *)
RefusedForAReason ==
    /\ last.verdict = "limited" => Recent(last.key, Limit[last.key])
    /\ last.verdict = "full" =>
            /\ Cardinality({k \in Keys : Recent(k, 1)}) >= MaxKeys
            /\ ~Recent(last.key, 1)

================================================================================
