---------------------------- MODULE FrontendProofs ----------------------------
(***************************************************************************)
(* Proofs about the frontend, for any number of requests, choices, VMs,    *)
(* acknowledgements and changes: the session client keeps its promises,    *)
(* the accent that is shown settles on the one that is stored, the columns *)
(* on what the edits asked for, the bell on the alerts that the backend    *)
(* lists.                                                                  *)
(***************************************************************************)
EXTENDS SessionClient, MCPages, TLAPS, SequenceTheorems, WellFoundedInduction

--------------------------------------------------------------------------------
(* The session client.  The invariant has a part per promise: what was executed
   can be read off the server's answer; a header is the jar's until the jar
   changes; a refresh that starts after a logout has no token to offer. *)

(* The answer says whether the request was executed, the outcome repeats it. *)
AnswersTell ==
    \A r \in Requests :
        /\ executed[r] = IF server[r] = "ok" THEN 1 ELSE 0
        /\ pc[r] = "idle" => server[r] = "none"
        /\ pc[r] = "called" => server[r] \in {"none", "401"}
        /\ pc[r] \in {"ok", "401", "403"} => server[r] = pc[r]
        /\ pc[r] = "awaiting" => server[r] = "401"
        /\ r \in Reads => server[r] # "403"

(* Until the jar changes, a header belongs to the cookie it will go with. *)
HeadersPaired ==
    \A r \in Requests \ Reads :
        r \notin crossed =>
            /\ pc[r] = "called" => header[r] = jar.session
            /\ server[r] \in {"asked", "403"} => pc[r] # "called"
            /\ server[r] = "asked" => header[r] = cookie[r]
            /\ server[r] # "403"

(* A refresh that began after the logout has no token. *)
NothingToRenew ==
    loggedOut /\ ~overlapped =>
        /\ jar = [session |-> 0, refresh |-> 0]
        /\ refresh # "ok"
        /\ refresh = "sent" => renewal = 0

ClientInv ==
    /\ TypeOK
    /\ AnswersTell
    /\ HeadersPaired
    /\ NothingToRenew

--------------------------------------------------------------------------------

(* A signed-in page that has asked for nothing satisfies the invariant. *)
LEMMA ClientStarts == Init => ClientInv
<1> SUFFICES ASSUME Init PROVE ClientInv
  OBVIOUS
<1>1. TypeOK
  <2>1. jar \in [session : Nat, refresh : Nat] /\ fresh \subseteq 1 .. made
        /\ renewable \subseteq 1 .. made /\ made \in Nat
    BY DEF Init
  <2>2. /\ pc \in [Requests -> Stages] /\ header \in [Requests -> Nat]
        /\ cookie \in [Requests -> Nat] /\ executed \in [Requests -> 0 .. 1]
        /\ server \in [Requests -> {"none", "asked", "ok", "401", "403"}]
    BY DEF Init, Stages
  <2> QED
    BY <2>1, <2>2 DEF Init, TypeOK
<1>2. AnswersTell /\ HeadersPaired /\ NothingToRenew
  BY DEF Init, AnswersTell, HeadersPaired, NothingToRenew
<1> QED
  BY <1>1, <1>2 DEF ClientInv

(* No step of a request, of the refresh or of the outside breaks it. *)
LEMMA ClientStep ==
  ASSUME ClientInv, [Next]_vars
  PROVE  ClientInv'
<1> USE DEF ClientInv, browser, backend, history
<1> USE DEF TypeOK, Stages, Outcomes
<1>1. ASSUME NEW r \in Requests, Call(r) PROVE ClientInv'
  <2>1. TypeOK'
    BY <1>1 DEF Call
  <2>2. AnswersTell'
    BY <1>1 DEF Call, AnswersTell
  <2>3. HeadersPaired'
    BY <1>1 DEF Call, HeadersPaired, AnswersTell
  <2>4. NothingToRenew'
    BY <1>1 DEF Call, NothingToRenew
  <2> QED
    BY <2>1, <2>2, <2>3, <2>4
<1>2. ASSUME NEW r \in Requests, Attach(r) PROVE ClientInv'
  <2>1. TypeOK'
    BY <1>2 DEF Attach
  <2>2. AnswersTell'
    BY <1>2 DEF Attach, AnswersTell
  <2>3. HeadersPaired'
    BY <1>2 DEF Attach, HeadersPaired
  <2>4. NothingToRenew'
    BY <1>2 DEF Attach, NothingToRenew
  <2> QED
    BY <2>1, <2>2, <2>3, <2>4
<1>3. ASSUME NEW r \in Requests, Handle(r) PROVE ClientInv'
  <2>1. executed[r] = 0
    BY <1>3 DEF Handle, AnswersTell
  <2>2. TypeOK'
    BY <1>3, <2>1 DEF Handle
  <2>3. AnswersTell'
    BY <1>3, <2>1 DEF Handle, AnswersTell
  <2>4. HeadersPaired'
    BY <1>3 DEF Handle, HeadersPaired
  <2>5. NothingToRenew'
    BY <1>3 DEF Handle, NothingToRenew
  <2> QED
    BY <2>2, <2>3, <2>4, <2>5
<1>4. ASSUME NEW r \in Requests, Arrive(r) \/ AwaitRefresh(r) \/ Timeout(r) PROVE ClientInv'
  <2>1. TypeOK'
    BY <1>4 DEF Arrive, AwaitRefresh, Timeout
  <2>2. AnswersTell'
    BY <1>4 DEF Arrive, AwaitRefresh, Timeout, AnswersTell
  <2>3. HeadersPaired'
    BY <1>4 DEF Arrive, AwaitRefresh, Timeout, HeadersPaired
  <2>4. NothingToRenew'
    BY <1>4 DEF Arrive, AwaitRefresh, Timeout, NothingToRenew
  <2> QED
    BY <2>1, <2>2, <2>3, <2>4
<1>5. ASSUME NEW r \in Requests, LogoutArrives(r) PROVE ClientInv'
  <2>1. TypeOK'
    BY <1>5 DEF LogoutArrives, ClearedJar, Crossing
  <2>2. AnswersTell'
    BY <1>5 DEF LogoutArrives, AnswersTell
  <2>3. HeadersPaired'
    BY <1>5 DEF LogoutArrives, HeadersPaired, Crossing
  <2>4. NothingToRenew'
    BY <1>5 DEF LogoutArrives, NothingToRenew, ClearedJar
  <2> QED
    BY <2>1, <2>2, <2>3, <2>4
<1>6. CASE RefreshAttach \/ RefreshFails
  <2>1. TypeOK'
    BY <1>6 DEF RefreshAttach, RefreshFails
  <2>2. AnswersTell'
    BY <1>6 DEF RefreshAttach, RefreshFails, AnswersTell
  <2>3. HeadersPaired'
    BY <1>6 DEF RefreshAttach, RefreshFails, HeadersPaired
  <2>4. NothingToRenew'
    <3>1. UNCHANGED <<jar, loggedOut, overlapped>> /\ refresh' # "ok"
      BY <1>6 DEF RefreshAttach, RefreshFails
    <3>2. refresh' = "sent" => renewal' = jar.refresh
      BY <1>6 DEF RefreshAttach, RefreshFails
    <3>3. jar = [session |-> 0, refresh |-> 0] => jar.refresh = 0
      OBVIOUS
    <3> QED
      BY <3>1, <3>2, <3>3 DEF NothingToRenew
  <2> QED
    BY <2>1, <2>2, <2>3, <2>4
<1>7. CASE RefreshGranted
  <2>1. TypeOK'
    BY <1>7 DEF RefreshGranted
  <2>2. AnswersTell'
    BY <1>7 DEF RefreshGranted, AnswersTell
  <2>3. HeadersPaired'
    BY <1>7 DEF RefreshGranted, HeadersPaired
  <2>4. renewal # 0 /\ refresh = "sent"
    BY <1>7 DEF RefreshGranted
  <2>5. ~(loggedOut /\ ~overlapped)
    BY <2>4 DEF NothingToRenew
  <2>6. loggedOut' = loggedOut /\ overlapped' = overlapped
    BY <1>7 DEF RefreshGranted
  <2>7. NothingToRenew'
    <3>1. ~(loggedOut' /\ ~overlapped')
      BY <2>5, <2>6, Zenon
    <3> QED
      BY <3>1, Zenon DEF NothingToRenew
  <2> QED
    BY <2>1, <2>2, <2>3, <2>7
<1>8. CASE RefreshArrives
  <2>1. TypeOK'
    BY <1>8 DEF RefreshArrives, Waiters, Crossing
  <2>2. AnswersTell'
    BY <1>8 DEF RefreshArrives, Waiters, AnswersTell
  <2>3. HeadersPaired'
    BY <1>8 DEF RefreshArrives, Waiters, Crossing, HeadersPaired, AnswersTell
  <2>4. NothingToRenew'
    BY <1>8 DEF RefreshArrives, NothingToRenew
  <2> QED
    BY <2>1, <2>2, <2>3, <2>4
<1>9. CASE RefreshRejected
  <2>1. TypeOK'
    BY <1>9 DEF RefreshRejected, Waiters
  <2>2. AnswersTell'
    BY <1>9 DEF RefreshRejected, Waiters, AnswersTell
  <2>3. HeadersPaired'
    BY <1>9 DEF RefreshRejected, Waiters, HeadersPaired
  <2>4. NothingToRenew'
    BY <1>9 DEF RefreshRejected, NothingToRenew
  <2> QED
    BY <2>1, <2>2, <2>3, <2>4
<1>10. CASE (\E s \in fresh : Expire(s)) \/ Revoke \/ UNCHANGED vars
  <2>1. TypeOK'
    BY <1>10 DEF Expire, Revoke, vars
  <2>2. AnswersTell' /\ HeadersPaired' /\ NothingToRenew'
    BY <1>10 DEF Expire, Revoke, vars, AnswersTell, HeadersPaired, NothingToRenew
  <2> QED
    BY <2>1, <2>2
<1> QED
  BY <1>1, <1>2, <1>3, <1>4, <1>5, <1>6, <1>7, <1>8, <1>9, <1>10
  DEF Next, RequestStep, RefreshStep, Idle

(* Every variable has its type, and no request is executed twice. *)
THEOREM ClientTypeCorrect == Spec => []TypeOK
<1>1. ClientInv => TypeOK
  BY DEF ClientInv
<1> QED
  BY <1>1, ClientStarts, ClientStep, PTL DEF Spec

(* What the page is told of a request is what the server did. *)
THEOREM OutcomesTrue == Spec => []OutcomesAreTrue
<1>1. ClientInv => OutcomesAreTrue
  BY DEF ClientInv, AnswersTell, OutcomesAreTrue
<1> QED
  BY <1>1, ClientStarts, ClientStep, PTL DEF Spec

(* A request is refused for its CSRF header only across a change of the jar. *)
THEOREM CsrfPaired == Spec => []RefusedOnlyAcrossChange
<1>1. ClientInv => RefusedOnlyAcrossChange
  <2> SUFFICES ASSUME ClientInv, NEW r \in Requests, server[r] = "403"
               PROVE  r \in crossed
    BY DEF RefusedOnlyAcrossChange
  <2> QED
    BY DEF ClientInv, HeadersPaired, AnswersTell
<1> QED
  BY <1>1, ClientStarts, ClientStep, PTL DEF Spec

(* Without a refresh under way, a logout is final. *)
THEOREM LogoutIsFinal == Spec => []LogoutEndsSession
<1>1. ClientInv => LogoutEndsSession
  BY DEF ClientInv, NothingToRenew, LogoutEndsSession
<1> QED
  BY <1>1, ClientStarts, ClientStep, PTL DEF Spec

--------------------------------------------------------------------------------
(* The accent: a cache that is loaded again after a change.  The invariant says who
   will still reload one that is not current. *)

AccentTyped ==
    /\ accent \in Accents
    /\ data \in Accents \cup {Unknown}
    /\ query \in [at : {"none", "asked", "read"}, value : Accents \cup {Unknown}]
    /\ query.at = "none" => query = Accent!None
    /\ preference \in Accents
    /\ choices \in 0..MaxChoices
    /\ chosen \in [Accent!Saves -> Accents]
    /\ previous \in [Accent!Saves -> Accents]
    /\ save \in [Accent!Saves -> {"none", "asked", "abandoned", "stored", "done"}]
    /\ failed \in BOOLEAN
    /\ overtaken \in BOOLEAN /\ joined \in BOOLEAN
    /\ \A n \in Accent!Saves : save[n] = "none" <=> n > choices
    /\ ~failed => \A n \in Accent!Saves : save[n] # "abandoned"

(* A load that is older than the last save is repeated when that is answered, unless
   it is the first. *)
AccentReloads ==
    ~failed /\ ~joined /\ (\A n \in Accent!Saves : save[n] # "stored") =>
        /\ query.at = "read" => query.value = preference
        /\ query.at = "none" => data = preference

(* In order, the preference is the last choice that was stored. *)
LastIsStored ==
    ~failed /\ ~overtaken =>
        \A n \in Accent!Saves :
            /\ save[n] \in {"stored", "done"}
            /\ \A m \in Accent!Saves : save[m] \in {"stored", "done"} => m <= n
            => preference = chosen[n]

AccentInv == AccentTyped /\ AccentReloads /\ LastIsStored

(* A page that has asked for the accent and chosen nothing. *)
LEMMA AccentStarts == Accent!Init => AccentInv
<1> SUFFICES ASSUME Accent!Init PROVE AccentInv
    OBVIOUS
<1>1. AccentTyped
    <2>1. query \in [at : {"none", "asked", "read"}, value : Accents \cup {Unknown}]
          /\ query.at = "asked"
        BY DEF Accent!Init, Accent!Asked
    <2>2. \A n \in Accent!Saves : n > choices /\ save[n] = "none"
        BY ChoicesAreNatural DEF Accent!Init, Accent!Saves
    <2>3. /\ chosen \in [Accent!Saves -> Accents] /\ previous \in [Accent!Saves -> Accents]
          /\ save \in [Accent!Saves -> {"none", "asked", "abandoned", "stored", "done"}]
        BY AccentsAreKnown DEF Accent!Init
    <2>4. choices \in 0..MaxChoices
        BY ChoicesAreNatural DEF Accent!Init
    <2> QED BY <2>1, <2>2, <2>3, <2>4 DEF Accent!Init, AccentTyped
<1>2. AccentReloads /\ LastIsStored
    BY DEF Accent!Init, AccentReloads, LastIsStored, Accent!Asked
<1> QED BY <1>1, <1>2 DEF AccentInv

(* The query and its effect. *)
LEMMA AccentLoads ==
    ASSUME AccentInv,
           Accent!FetchRead \/ Accent!FetchAnswered \/ Accent!FetchFails \/ Accent!Sync
    PROVE  AccentInv'
<1> USE DEF AccentInv, AccentTyped, AccentReloads, LastIsStored
<1>1. CASE Accent!FetchRead
    BY <1>1 DEF Accent!FetchRead, Accent!None
<1>2. CASE Accent!FetchAnswered
    BY <1>2 DEF Accent!FetchAnswered, Accent!None
<1>3. CASE Accent!FetchFails
    BY <1>3 DEF Accent!FetchFails, Accent!None
<1>4. CASE Accent!Sync
    BY <1>4 DEF Accent!Sync
<1> QED BY <1>1, <1>2, <1>3, <1>4

(* A choice, whose save is asked for. *)
LEMMA AccentChosen ==
    ASSUME AccentInv, NEW a \in Accents, Accent!Select(a)
    PROVE  AccentInv'
<1> DEFINE n == choices + 1
<1>1. /\ n \in Accent!Saves /\ save[n] = "none" /\ choices' = n
      /\ chosen' = [chosen EXCEPT ![n] = a]
      /\ previous' = [previous EXCEPT ![n] = accent]
      /\ save' = [save EXCEPT ![n] = "asked"]
      /\ accent' = a
      /\ UNCHANGED <<data, query, preference, failed, overtaken, joined>>
    BY ChoicesAreNatural DEF Accent!Select, Accent!Saves, AccentInv, AccentTyped
<1>2. AccentTyped'
    BY <1>1, ChoicesAreNatural DEF AccentInv, AccentTyped, Accent!Saves, Accent!None
<1>3. \A m \in Accent!Saves :
        /\ save'[m] = "stored" <=> save[m] = "stored"
        /\ save'[m] = "done" <=> save[m] = "done"
        /\ save'[m] \in {"stored", "done"} => chosen'[m] = chosen[m]
    BY <1>1 DEF AccentInv, AccentTyped
<1>4. AccentReloads'
    BY <1>1, <1>3 DEF AccentInv, AccentReloads
<1>5. LastIsStored'
    BY <1>1, <1>3 DEF AccentInv, LastIsStored
<1> QED BY <1>2, <1>4, <1>5 DEF AccentInv

(* A save is stored: the load under way, if it has read, is no longer current, and
   the save will repeat it. *)
LEMMA AccentStored ==
    ASSUME AccentInv, NEW n \in Accent!Saves, Accent!Store(n)
    PROVE  AccentInv'
<1>1. /\ save[n] \in {"asked", "abandoned"}
      /\ preference' = chosen[n]
      /\ save' = [save EXCEPT ![n] = IF save[n] = "asked" THEN "stored" ELSE "done"]
      /\ overtaken' = (overtaken \/ \E m \in Accent!Saves :
                            m > n /\ save[m] \in {"stored", "done"})
      /\ UNCHANGED <<accent, data, query, choices, chosen, previous, failed, joined>>
    BY DEF Accent!Store, Accent!page
<1>2. AccentTyped'
    <2>1. save' \in [Accent!Saves -> {"none", "asked", "abandoned", "stored", "done"}]
        BY <1>1 DEF AccentInv, AccentTyped
    <2>2. overtaken' \in BOOLEAN /\ preference' \in Accents
        BY <1>1 DEF AccentInv, AccentTyped
    <2>3. \A m \in Accent!Saves :
            /\ save'[m] = "none" <=> save[m] = "none"
            /\ save'[m] = "abandoned" => save[m] = "abandoned"
        BY <1>1 DEF AccentInv, AccentTyped
    <2> QED BY <1>1, <2>1, <2>2, <2>3 DEF AccentInv, AccentTyped
<1>3. ~failed' => save[n] = "asked" /\ save'[n] = "stored"
    BY <1>1 DEF AccentInv, AccentTyped
<1>4. AccentReloads'
    BY <1>3 DEF AccentReloads
<1>5. LastIsStored'
    <2> SUFFICES ASSUME ~failed', ~overtaken', NEW k \in Accent!Saves,
                        save'[k] \in {"stored", "done"},
                        \A m \in Accent!Saves : save'[m] \in {"stored", "done"} => m <= k
                 PROVE  preference' = chosen'[k]
        BY DEF LastIsStored
    <2>1. n <= k /\ ~(k > n /\ save[k] \in {"stored", "done"})
        BY <1>1, <1>3
    <2>2. k # n => save'[k] = save[k]
        BY <1>1 DEF AccentInv, AccentTyped
    <2>3. k = n
        BY <2>1, <2>2 DEF Accent!Saves
    <2> QED BY <1>1, <2>3
<1> QED BY <1>2, <1>4, <1>5 DEF AccentInv

(* A save is answered, or fails. *)
LEMMA AccentAnswered ==
    ASSUME AccentInv, NEW n \in Accent!Saves, Accent!Saved(n) \/ Accent!SaveFails(n)
    PROVE  AccentInv'
<1>1. CASE Accent!Saved(n)
    <2>1. /\ save[n] = "stored" /\ save' = [save EXCEPT ![n] = "done"]
          /\ query' \in {query, Accent!Asked}
          /\ joined' = (query' # Accent!Asked /\ query.at = "read")
          /\ query' = Accent!Asked \/ query.at \in {"asked", "read"}
          /\ UNCHANGED <<accent, data, preference, choices, chosen, previous, failed, overtaken>>
        BY <1>1 DEF Accent!Saved, AccentInv, AccentTyped, Accent!None, Accent!Asked
    <2>2. AccentTyped'
        BY <2>1 DEF AccentInv, AccentTyped, Accent!Asked, Accent!None
    <2>3. AccentReloads'
        <3>1. CASE query' = Accent!Asked
            BY <3>1 DEF AccentReloads, Accent!Asked
        <3>2. CASE query' # Accent!Asked
            <4>1. query' = query /\ (query.at = "read" => joined') /\ query.at # "none"
                BY <2>1, <3>2
            <4> QED BY <4>1 DEF AccentReloads
        <3> QED BY <3>1, <3>2
    <2>4. \A m \in Accent!Saves :
            save'[m] \in {"stored", "done"} <=> save[m] \in {"stored", "done"}
        BY <2>1 DEF AccentInv, AccentTyped
    <2>5. LastIsStored'
        BY <2>1, <2>4 DEF AccentInv, LastIsStored
    <2> QED BY <2>2, <2>3, <2>5 DEF AccentInv
<1>2. CASE Accent!SaveFails(n)
    <2>1. /\ save[n] \in {"asked", "stored"}
          /\ \/ save' = [save EXCEPT ![n] = "done"]
             \/ save' = [save EXCEPT ![n] = "abandoned"]
          /\ accent' = IF n = choices THEN previous[n] ELSE accent
          /\ failed' = TRUE
          /\ UNCHANGED <<data, query, preference, choices, chosen, previous, overtaken, joined>>
        BY <1>2 DEF Accent!SaveFails
    <2>2. AccentTyped'
        BY <2>1 DEF AccentInv, AccentTyped
    <2>3. AccentReloads' /\ LastIsStored'
        BY <2>1 DEF AccentReloads, LastIsStored
    <2> QED BY <2>2, <2>3 DEF AccentInv
<1> QED BY <1>1, <1>2

LEMMA AccentStep == AccentInv /\ [Accent!Next]_accentVars => AccentInv'
<1> SUFFICES ASSUME AccentInv, [Accent!Next]_accentVars PROVE AccentInv'
    OBVIOUS
<1>1. CASE UNCHANGED accentVars
    BY <1>1 DEF accentVars, AccentInv, AccentTyped, AccentReloads, LastIsStored
<1>2. CASE Accent!Next
    BY <1>2, AccentLoads, AccentChosen, AccentStored, AccentAnswered DEF Accent!Next
<1> QED BY <1>1, <1>2

(* When all is quiet nothing is stored and not yet loaded, and every choice that
   was made is stored. *)
LEMMA AccentSettled ==
    ASSUME AccentInv
    PROVE  Accent!ChoiceSettles
<1> SUFFICES ASSUME Accent!Quiet, ~failed
             PROVE  /\ ~joined => accent = preference
                    /\ ~overtaken /\ choices > 0 => preference = chosen[choices]
    BY DEF Accent!ChoiceSettles
<1>1. query.at = "none" /\ \A n \in Accent!Saves : save[n] \in {"none", "done"}
    BY DEF Accent!Quiet, Accent!None
<1>2. ASSUME ~joined PROVE accent = preference
    BY <1>1, <1>2, AccentsAreKnown
    DEF Accent!Quiet, AccentInv, AccentReloads, AccentTyped
<1>3. ASSUME ~overtaken, choices > 0 PROVE preference = chosen[choices]
    <2>1. choices \in Accent!Saves
        BY <1>3, ChoicesAreNatural DEF AccentInv, AccentTyped, Accent!Saves
    <2>2. \A n \in Accent!Saves : save[n] = "done" <=> ~(n > choices)
        BY <1>1 DEF AccentInv, AccentTyped
    <2>3. \A n \in Accent!Saves : ~(n > choices) <=> n <= choices
        BY ChoicesAreNatural DEF AccentInv, AccentTyped, Accent!Saves
    <2>4. /\ save[choices] = "done"
          /\ \A m \in Accent!Saves : save[m] \in {"stored", "done"} => m <= choices
        BY <1>1, <2>1, <2>2, <2>3, ChoicesAreNatural DEF AccentInv, AccentTyped
    <2> QED BY <1>3, <2>1, <2>4 DEF AccentInv, LastIsStored
<1> QED BY <1>2, <1>3

--------------------------------------------------------------------------------
(* The bell: another such cache, with calls that the page may no longer wait for. *)

BellTyped ==
    /\ fetch.at \in {"none", "asked", "read"}
    /\ fetch.at = "none" <=> fetch = Bell!NoFetch
    /\ behind \in BOOLEAN
    /\ \A c \in calls :
        /\ c = [vms |-> c.vms, dismisses |-> c.dismisses, at |-> c.at, dates |-> c.dates,
                heard |-> c.heard, previous |-> c.previous]
        /\ c.at \in {"sent", "read", "stored"}
        /\ c.dismisses \in BOOLEAN /\ c.heard \in BOOLEAN
        /\ c.at = "stored" => c.heard

(* Whoever stored an acknowledgement and is still heard, or took an alert off the
   list, will have the list fetched anew. *)
BellRefetches ==
    ~behind =>
        /\ fetch.at = "read" =>
            fetch.list = Bell!Due \/ \E c \in calls : c.at = "stored"
        /\ fetch.at = "none" =>
            \/ cached = Bell!Due
            \/ \E c \in calls : c.at = "stored" \/ (c.heard /\ c.dismisses)

BellInv == BellTyped /\ BellRefetches

(* A page that has asked for the list and acknowledged nothing. *)
LEMMA BellStarts == Bell!Init => BellInv
<1> SUFFICES ASSUME Bell!Init PROVE BellInv
    OBVIOUS
<1>1. fetch.at = "asked" /\ fetch # Bell!NoFetch
    BY DEF Bell!Init, Bell!Asked, Bell!NoFetch
<1>2. calls = {} /\ behind = FALSE
    BY DEF Bell!Init
<1> QED BY <1>1, <1>2 DEF BellInv, BellTyped, BellRefetches

(* The query: what it has read when nothing more is to come is what it lists. *)
LEMMA BellPolls ==
    ASSUME BellInv,
           Bell!Poll \/ Bell!FetchRead \/ Bell!FetchAnswered \/ Bell!FetchFails
    PROVE  BellInv'
<1>1. CASE Bell!Poll
    <2>1. fetch'.at = "asked" /\ fetch' # Bell!NoFetch /\ UNCHANGED <<calls, behind>>
        BY <1>1 DEF Bell!Poll, Bell!Asked, Bell!NoFetch
    <2> QED BY <2>1 DEF BellInv, BellTyped, BellRefetches
<1>2. CASE Bell!FetchRead
    <2>1. /\ fetch'.at = "read" /\ fetch' # Bell!NoFetch /\ fetch'.list = Bell!Due
          /\ behind' = FALSE /\ UNCHANGED <<calls, date, acked>>
        BY <1>2 DEF Bell!FetchRead, Bell!NoFetch, Bell!server
    <2>2. Bell!Due' = Bell!Due
        BY <2>1 DEF Bell!Due
    <2> QED BY <2>1, <2>2 DEF BellInv, BellTyped, BellRefetches
<1>3. CASE Bell!FetchAnswered
    <2>1. /\ fetch.at = "read" /\ fetch' = Bell!NoFetch /\ fetch'.at = "none"
          /\ cached' = fetch.list
          /\ UNCHANGED <<calls, behind, date, acked>>
        BY <1>3 DEF Bell!FetchAnswered, Bell!NoFetch, Bell!server
    <2>2. Bell!Due' = Bell!Due
        BY <2>1 DEF Bell!Due
    <2> QED BY <2>1, <2>2 DEF BellInv, BellTyped, BellRefetches
<1>4. CASE Bell!FetchFails
    <2>1. fetch' = Bell!NoFetch /\ fetch'.at = "none" /\ behind' = TRUE /\ UNCHANGED calls
        BY <1>4 DEF Bell!FetchFails, Bell!NoFetch
    <2> QED BY <2>1 DEF BellInv, BellTyped, BellRefetches
<1> QED BY <1>1, <1>2, <1>3, <1>4

(* Opening and closing the panel, and a dismissal. *)
LEMMA BellClicks ==
    ASSUME BellInv,
           Bell!Open \/ Bell!Close \/ \E d \in cached : Bell!Dismiss(d)
    PROVE  BellInv'
<1>1. CASE Bell!Close
    <2>1. UNCHANGED <<fetch, calls, behind, cached, date, acked>>
        BY <1>1 DEF Bell!Close, Bell!server
    <2>2. Bell!Due' = Bell!Due
        BY <2>1 DEF Bell!Due
    <2> QED BY <2>1, <2>2 DEF BellInv, BellTyped, BellRefetches
<1>2. CASE Bell!Open
    <2> DEFINE call == Bell!Sent(Vms, FALSE)
    <2>1. /\ calls' = calls \/ calls' = calls \cup {call}
          /\ UNCHANGED <<fetch, behind, cached, date, acked>>
        BY <1>2 DEF Bell!Open, Bell!server
    <2>2. Bell!Due' = Bell!Due
        BY <2>1 DEF Bell!Due
    <2>3. /\ call = [vms |-> call.vms, dismisses |-> call.dismisses, at |-> call.at,
                     dates |-> call.dates, heard |-> call.heard, previous |-> call.previous]
          /\ call.at = "sent" /\ call.dismisses = FALSE /\ call.heard = TRUE
        BY DEF Bell!Sent
    <2> HIDE DEF call
    <2>4. BellTyped'
        BY <2>1, <2>3 DEF BellInv, BellTyped
    <2>5. BellRefetches'
        BY <2>1, <2>2 DEF BellInv, BellRefetches
    <2> QED BY <2>4, <2>5 DEF BellInv
<1>3. CASE \E d \in cached : Bell!Dismiss(d)
    <2> PICK d \in cached : Bell!Dismiss(d)
        BY <1>3
    <2> DEFINE call == Bell!Sent({d.vm}, TRUE)
    <2>1. /\ calls' = calls \cup {call} /\ behind' = behind
          /\ fetch' = Bell!NoFetch /\ fetch'.at = "none"
        BY DEF Bell!Dismiss, Bell!NoFetch
    <2>2. /\ call = [vms |-> call.vms, dismisses |-> call.dismisses, at |-> call.at,
                     dates |-> call.dates, heard |-> call.heard, previous |-> call.previous]
          /\ call.at = "sent" /\ call.dismisses = TRUE /\ call.heard = TRUE
        BY DEF Bell!Sent
    <2> HIDE DEF call
    <2>3. BellTyped'
        BY <2>1, <2>2 DEF BellInv, BellTyped
    <2>4. BellRefetches'
        BY <2>1, <2>2 DEF BellInv, BellRefetches
    <2> QED BY <2>3, <2>4 DEF BellInv
<1> QED BY <1>1, <1>2, <1>3

(* The backend reads and stores, and others move dates. *)
LEMMA BellBackend ==
    ASSUME BellInv,
           \/ \E c \in calls : Bell!AckRead(c) \/ Bell!AckStored(c)
           \/ \E v \in Vms, d \in Dates \cup {NotDue} : Bell!SetDate(v, d)
    PROVE  BellInv'
<1>1. CASE \E v \in Vms, d \in Dates \cup {NotDue} : Bell!SetDate(v, d)
    <2>1. behind' = TRUE /\ UNCHANGED <<fetch, calls>>
        BY <1>1 DEF Bell!SetDate
    <2> QED BY <2>1 DEF BellInv, BellTyped, BellRefetches
<1>2. ASSUME NEW c \in calls, Bell!AckRead(c)
      PROVE  BellInv'
    <2> DEFINE dates == [v \in {w \in c.vms : date[w] # NotDue} |-> date[v]]
               read == [c EXCEPT !.at = "read", !.dates = dates]
    <2>1. /\ c.at = "sent"
          /\ calls' = (calls \ {c}) \cup {read}
          /\ UNCHANGED <<fetch, behind, cached, date, acked>>
        BY <1>2 DEF Bell!AckRead, Bell!server
    <2>2. /\ read = [vms |-> read.vms, dismisses |-> read.dismisses, at |-> read.at,
                     dates |-> read.dates, heard |-> read.heard, previous |-> read.previous]
          /\ read.at = "read" /\ read.dismisses = c.dismisses /\ read.heard = c.heard
        <3> HIDE DEF dates
        <3>1. PICK v, d, a, t, h, l :
                c = [vms |-> v, dismisses |-> d, at |-> a, dates |-> t, heard |-> h,
                     previous |-> l]
            BY DEF BellInv, BellTyped
        <3>2. read = [vms |-> v, dismisses |-> d, at |-> "read", dates |-> dates, heard |-> h,
                      previous |-> l]
            <4> DEFINE marked == [c EXCEPT !.at = "read"]
            <4>1. marked = [vms |-> v, dismisses |-> d, at |-> "read", dates |-> t,
                            heard |-> h, previous |-> l]
                BY <3>1
            <4>2. read = [marked EXCEPT !.dates = dates]
                OBVIOUS
            <4> HIDE DEF marked, read
            <4> QED BY <4>1, <4>2
        <3>3. c.dismisses = d /\ c.heard = h
            BY <3>1
        <3> HIDE DEF read
        <3> QED BY <3>2, <3>3
    <2>3. Bell!Due' = Bell!Due
        BY <2>1 DEF Bell!Due
    <2> HIDE DEF read
    <2>4. BellTyped'
        BY <2>1, <2>2 DEF BellInv, BellTyped
    <2>5. \A e \in calls : \E f \in calls' :
            /\ e.at = "stored" => f.at = "stored"
            /\ f.heard = e.heard /\ f.dismisses = e.dismisses
        BY <2>1, <2>2
    <2>6. BellRefetches'
        BY <2>1, <2>3, <2>5 DEF BellInv, BellRefetches
    <2> QED BY <2>4, <2>6 DEF BellInv
<1>3. ASSUME NEW c \in calls, Bell!AckStored(c)
      PROVE  BellInv'
    <2> DEFINE answered == [c EXCEPT !.at = "stored"]
    <2>1. /\ calls' = (calls \ {c}) \cup (IF c.heard THEN {answered} ELSE {})
          /\ behind' = (behind \/ ~c.heard)
          /\ UNCHANGED fetch
        BY <1>3 DEF Bell!AckStored
    <2>2. /\ answered = [vms |-> answered.vms, dismisses |-> answered.dismisses,
                         at |-> answered.at, dates |-> answered.dates,
                         heard |-> answered.heard, previous |-> answered.previous]
          /\ answered.at = "stored"
          /\ answered.dismisses = c.dismisses /\ answered.heard = c.heard
        BY DEF BellInv, BellTyped
    <2> HIDE DEF answered
    <2>3. c.heard \in BOOLEAN /\ c.dismisses \in BOOLEAN
        BY DEF BellInv, BellTyped
    <2>4. BellTyped'
        <3>1. \A e \in calls' : e \in calls \/ (e = answered /\ c.heard)
            BY <2>1
        <3>2. behind' \in BOOLEAN
            BY <2>1, <2>3 DEF BellInv, BellTyped
        <3> QED BY <2>1, <2>2, <2>3, <3>1, <3>2 DEF BellInv, BellTyped
    <2>5. ~behind' => answered \in calls' /\ answered.at = "stored"
        BY <2>1, <2>2
    <2>6. BellRefetches'
        BY <2>5 DEF BellRefetches
    <2> QED BY <2>4, <2>6 DEF BellInv
<1> QED BY <1>1, <1>2, <1>3

(* An acknowledgement is answered or given up. *)
LEMMA BellAnswers ==
    ASSUME BellInv, NEW c \in calls, Bell!Acknowledged(c) \/ Bell!AckFails(c)
    PROVE  BellInv'
<1>1. CASE Bell!Acknowledged(c)
    <2>1. /\ calls' = calls \ {c} /\ fetch'.at = "asked" /\ fetch' # Bell!NoFetch
          /\ behind' = behind
        BY <1>1 DEF Bell!Acknowledged, Bell!Asked, Bell!NoFetch
    <2> QED BY <2>1 DEF BellInv, BellTyped, BellRefetches
<1>2. CASE Bell!AckFails(c)
    <2>0. PICK no \in BOOLEAN : no = FALSE
        OBVIOUS
    <2> DEFINE unheard == [c EXCEPT !.heard = no]
    <2>1. /\ cached' = IF c.dismisses THEN c.previous ELSE cached
          /\ fetch' = IF c.dismisses THEN Bell!Asked ELSE fetch
          /\ \/ calls' = (calls \ {c}) \cup (IF c.at = "stored" THEN {} ELSE {unheard})
             \/ c.at # "stored" /\ calls' = calls \ {c}
          /\ behind' = (behind \/ (~c.dismisses /\ c.at = "stored"))
          /\ UNCHANGED <<date, acked>>
        BY <1>2, <2>0 DEF Bell!AckFails, Bell!Settled, Bell!server
    <2>2. /\ unheard = [vms |-> unheard.vms, dismisses |-> unheard.dismisses,
                        at |-> unheard.at, dates |-> unheard.dates,
                        heard |-> unheard.heard, previous |-> unheard.previous]
          /\ unheard.at = c.at /\ unheard.dismisses = c.dismisses /\ unheard.heard = FALSE
        <3>1. PICK v, d, a, t, h, l :
                c = [vms |-> v, dismisses |-> d, at |-> a, dates |-> t, heard |-> h,
                     previous |-> l]
            BY DEF BellInv, BellTyped
        <3>2. unheard = [vms |-> v, dismisses |-> d, at |-> a, dates |-> t, heard |-> no,
                         previous |-> l]
            BY <3>1
        <3>3. c.dismisses = d /\ c.at = a
            BY <3>1
        <3> HIDE DEF unheard
        <3> QED BY <2>0, <3>2, <3>3
    <2> HIDE DEF unheard
    <2>3. c.at \in {"sent", "read", "stored"} /\ c.dismisses \in BOOLEAN
        BY DEF BellInv, BellTyped
    <2>4. \A e \in calls' : e \in calls \/ (e = unheard /\ c.at # "stored")
        BY <2>1
    <2>5. fetch'.at \in {"none", "asked", "read"} /\ (fetch'.at = "none" <=> fetch' = Bell!NoFetch)
        BY <2>1, <2>3 DEF BellInv, BellTyped, Bell!Asked, Bell!NoFetch
    <2>6. behind' \in BOOLEAN
        BY <2>1, <2>3 DEF BellInv, BellTyped
    <2>7. BellTyped'
        BY <2>2, <2>3, <2>4, <2>5, <2>6 DEF BellInv, BellTyped
    <2>8. CASE c.dismisses
        <3>1. fetch'.at = "asked"
            BY <2>1, <2>8 DEF Bell!Asked
        <3> QED BY <2>7, <3>1 DEF BellInv, BellRefetches
    <2>9. CASE ~c.dismisses /\ c.at = "stored"
        <3>1. behind' = TRUE
            BY <2>1, <2>9
        <3> QED BY <2>7, <3>1 DEF BellInv, BellRefetches
    <2>10. CASE ~c.dismisses /\ c.at # "stored"
        <3>1. UNCHANGED <<cached, fetch, behind>>
            BY <2>1, <2>10, <2>6 DEF BellInv, BellTyped
        <3>2. Bell!Due' = Bell!Due
            BY <2>1 DEF Bell!Due
        <3>3. \A e \in calls \ {c} : e \in calls'
            BY <2>1
        <3> QED BY <2>7, <2>10, <3>1, <3>2, <3>3 DEF BellInv, BellRefetches
    <2> QED BY <2>3, <2>8, <2>9, <2>10
<1> QED BY <1>1, <1>2

LEMMA BellStep == BellInv /\ [Bell!Next]_bellVars => BellInv'
<1> SUFFICES ASSUME BellInv, [Bell!Next]_bellVars PROVE BellInv'
    OBVIOUS
<1>1. CASE UNCHANGED bellVars
    <2>1. Bell!Due' = Bell!Due
        BY <1>1 DEF bellVars, Bell!Due
    <2> QED BY <1>1, <2>1 DEF bellVars, BellInv, BellTyped, BellRefetches
<1>2. CASE Bell!Next
    BY <1>2, BellPolls, BellClicks, BellBackend, BellAnswers DEF Bell!Next
<1> QED BY <1>1, <1>2

LEMMA BellSettled ==
    ASSUME BellInv
    PROVE  Bell!ListIsServers
<1>1. Bell!Quiet => fetch.at = "none" /\ calls = {}
    BY DEF Bell!Quiet, Bell!NoFetch
<1> QED BY <1>1 DEF Bell!ListIsServers, BellInv, BellRefetches

--------------------------------------------------------------------------------
(* The columns.  The loops over a layout are functions of how far they have come. *)

Column == [key : Keys \cup {GoneKey}, visible : BOOLEAN]

(* A layout of the page. *)
IsLayout(c) == c \in Seq(Column) /\ Columns!IsComplete(c)

LEMMA Counting ==
    ASSUME NEW N \in Nat, NEW T, 0 \in T,
           \A n \in 1 .. N : n - 1 \in T => n \in T
    PROVE  \A n \in 0 .. N : n \in T
<1> DEFINE Without == {n \in Nat : n \in 0 .. N /\ n \notin T}
<1>1. ASSUME Without # {} PROVE FALSE
    <2>1. Without \subseteq Nat
        OBVIOUS
    <2>2. PICK n \in Without : \A m \in Without : ~(<<m, n>> \in OpToRel(<, Nat))
        <3>1. IsWellFoundedOn(OpToRel(<, Nat), Nat)
            BY NatLessThanWellFounded
        <3> HIDE DEF Without
        <3> QED BY <1>1, <2>1, <3>1, WFMin
    <2>3. n \in 1 .. N /\ n \notin T
        <3>1. n \in Without
            BY <2>2
        <3> QED BY <3>1
    <2>4. n - 1 \in Nat /\ n - 1 \in 0 .. N /\ <<n - 1, n>> \in OpToRel(<, Nat)
        BY <2>3 DEF OpToRel
    <2>5. n - 1 \notin Without
        <3> HIDE DEF Without
        <3> QED BY <2>2, <2>4
    <2> QED BY <2>3, <2>4, <2>5
<1> QED BY <1>1

(* A loop that turns one value of S into the next gives a value after each step. *)
Steps(N, S) == [1 .. N -> [S -> S]]

Runs(N, S, start, step) ==
    \E d \in [0 .. N -> S] : d[0] = start /\ \A n \in 1 .. N : d[n] = step[n][d[n - 1]]

LEMMA LoopRuns ==
    ASSUME NEW N \in Nat, NEW S, NEW start \in S, NEW step \in Steps(N, S)
    PROVE  Runs(N, S, start, step)
<1> USE DEF Steps
<1> DEFINE Run(M, d) == d[0] = start /\ \A n \in 1 .. M : d[n] = step[n][d[n - 1]]
           T == {M \in 0 .. N : \E d \in [0 .. M -> S] : Run(M, d)}
<1>1. 0 \in T
    <2> DEFINE e == [n \in 0 .. 0 |-> start]
    <2>1. e \in [0 .. 0 -> S] /\ e[0] = start /\ 1 .. 0 = {}
        OBVIOUS
    <2> HIDE DEF e
    <2> QED BY <2>1
<1>2. ASSUME NEW M \in 1 .. N, M - 1 \in T
      PROVE  M \in T
    <2>1. PICK d \in [0 .. M - 1 -> S] : Run(M - 1, d)
        BY <1>2
    <2> DEFINE e == [n \in 0 .. M |-> IF n = M THEN step[M][d[M - 1]] ELSE d[n]]
    <2>2. M - 1 \in 0 .. M - 1 /\ step[M][d[M - 1]] \in S
        BY <2>1
    <2>3. e \in [0 .. M -> S]
        BY <2>2
    <2>4. /\ e[0] = d[0] /\ e[M] = step[M][d[M - 1]] /\ e[M - 1] = d[M - 1]
          /\ \A n \in 1 .. M - 1 : e[n] = d[n] /\ e[n - 1] = d[n - 1]
        OBVIOUS
    <2> HIDE DEF e
    <2>5. ASSUME NEW n \in 1 .. M PROVE e[n] = step[n][e[n - 1]]
        <3>1. CASE n = M
            BY <2>4, <3>1
        <3>2. CASE n \in 1 .. M - 1
            BY <2>1, <2>4, <3>2
        <3> QED BY <3>1, <3>2
    <2>6. Run(M, e)
        BY <2>1, <2>4, <2>5
    <2>7. M \in 0 .. N
        OBVIOUS
    <2> QED BY <2>3, <2>6, <2>7
<1>3. \A n \in 0 .. N : n \in T
    <2> HIDE DEF T
    <2> QED BY <1>1, <1>2, Counting
<1>4. N \in 0 .. N
    OBVIOUS
<1> QED BY <1>3, <1>4 DEF Runs

LEMMA KeysAppended ==
    ASSUME NEW c \in Seq(Column), Columns!OnceEach(c), NEW e \in Column, e.key \notin Columns!KeysOf(c)
    PROVE  /\ Append(c, e) \in Seq(Column)
           /\ Columns!OnceEach(Append(c, e))
           /\ Columns!KeysOf(Append(c, e)) = Columns!KeysOf(c) \cup {e.key}
<1>1. /\ Append(c, e) \in Seq(Column) /\ Len(Append(c, e)) = Len(c) + 1
      /\ DOMAIN c = 1 .. Len(c) /\ DOMAIN Append(c, e) = 1 .. Len(c) + 1
      /\ \A i \in 1 .. Len(c) : Append(c, e)[i] = c[i]
      /\ Append(c, e)[Len(c) + 1] = e
    OBVIOUS
<1>2. \A i \in 1 .. Len(c) : c[i].key # e.key
    BY <1>1 DEF Columns!KeysOf
<1>3. Columns!OnceEach(Append(c, e))
    BY <1>1, <1>2 DEF Columns!OnceEach
<1>4. Columns!KeysOf(Append(c, e)) = Columns!KeysOf(c) \cup {e.key}
    BY <1>1 DEF Columns!KeysOf
<1> QED BY <1>1, <1>3, <1>4

(* mergeWithDefaults as a loop. *)
LEMMA MergeRuns ==
    ASSUME NEW c \in Seq(Column)
    PROVE  \E d \in [0 .. Len(Default) -> Seq(Column)] :
                /\ Columns!MergeWithDefaults(c) = d[Len(Default)]
                /\ d[0] = c
                /\ \A n \in 1 .. Len(Default) :
                    d[n] = IF Default[n].key \in Columns!KeysOf(c) THEN d[n - 1]
                           ELSE Append(d[n - 1], [key |-> Default[n].key, visible |-> FALSE])
<1> DEFINE N == Len(Default)
           e(n) == [key |-> Default[n].key, visible |-> FALSE]
           F(g) == [n \in 0 .. N |->
                        IF n = 0 THEN c
                        ELSE IF Default[n].key \in Columns!KeysOf(c) THEN g[n - 1]
                        ELSE Append(g[n - 1], e(n))]
           step == [n \in 1 .. N |-> [x \in Seq(Column) |->
                        IF Default[n].key \in Columns!KeysOf(c) THEN x ELSE Append(x, e(n))]]
<1>1. N \in Nat /\ \A n \in 1 .. N : e(n) \in Column
    BY DefaultHasEachColumn DEF Column
<1>2. step \in [1 .. N -> [Seq(Column) -> Seq(Column)]]
    BY <1>1
<1>3. PICK d \in [0 .. N -> Seq(Column)] :
            d[0] = c /\ \A n \in 1 .. N : d[n] = step[n][d[n - 1]]
    <2>1. step \in Steps(N, Seq(Column))
        BY <1>2 DEF Steps
    <2> HIDE DEF step, N
    <2>2. Runs(N, Seq(Column), c, step)
        BY <1>1, <2>1, LoopRuns
    <2> QED BY <2>2 DEF Runs
<1>4. ASSUME NEW n \in 1 .. N
      PROVE  d[n] = IF Default[n].key \in Columns!KeysOf(c) THEN d[n - 1]
                    ELSE Append(d[n - 1], e(n))
    <2>1. d[n - 1] \in Seq(Column)
        BY <1>1
    <2> HIDE DEF e, N
    <2> QED BY <1>3, <2>1
<1>5. d = F(d)
    <2>1. ASSUME NEW n \in 0 .. N PROVE d[n] = F(d)[n]
        <3> HIDE DEF e, N
        <3>1. CASE n = 0
            BY <1>3, <3>1
        <3>2. CASE n \in 1 .. N
            <4>1. n # 0
                BY <1>1, <3>2
            <4> QED BY <1>4, <3>2, <4>1
        <3> QED BY <1>1, <3>1, <3>2
    <2>2. DOMAIN d = 0 .. N /\ DOMAIN F(d) = 0 .. N
        OBVIOUS
    <2>3. d = [n \in 0 .. N |-> d[n]] /\ F(d) = [n \in 0 .. N |-> F(d)[n]]
        BY <2>2
    <2> HIDE DEF F, N
    <2> QED BY <2>1, <2>3
<1> DEFINE g == CHOOSE f : f = F(f)
<1>6. g = F(g)
    <2> HIDE DEF F
    <2> QED BY <1>5
<1>7. Columns!MergeWithDefaults(c) = g[N]
    BY DEF Columns!MergeWithDefaults
<1>8. \A n \in 0 .. N : g[n] = d[n]
    <2> DEFINE T == {n \in 0 .. N : g[n] = d[n]}
    <2>1. 0 \in T
        <3>1. g[0] = F(g)[0]
            <4> HIDE DEF g, F
            <4> QED BY <1>6
        <3> HIDE DEF g
        <3> QED BY <1>1, <1>3, <3>1
    <2>2. ASSUME NEW n \in 1 .. N, n - 1 \in T PROVE n \in T
        <3>1. g[n] = F(g)[n]
            <4> HIDE DEF g, F
            <4> QED BY <1>6
        <3> HIDE DEF g
        <3> QED BY <1>1, <1>4, <2>2, <3>1
    <2> HIDE DEF g, T, N
    <2>3. \A n \in 0 .. N : n \in T
        BY <1>1, <2>1, <2>2, Counting
    <2> QED BY <2>3 DEF T
<1>9. N \in 0 .. N
    BY <1>1
<1> HIDE DEF g, F, step
<1> QED BY <1>3, <1>4, <1>7, <1>8, <1>9

(* mergeWithDefaults completes a layout and leaves a complete one as it is. *)
LEMMA MergeCompletes ==
    ASSUME NEW c \in Seq(Column), Columns!OnceEach(c)
    PROVE  /\ IsLayout(Columns!MergeWithDefaults(c))
           /\ IsLayout(c) => Columns!MergeWithDefaults(c) = c
<1> DEFINE N == Len(Default)
<1>1. PICK d \in [0 .. N -> Seq(Column)] :
                /\ Columns!MergeWithDefaults(c) = d[N]
                /\ d[0] = c
                /\ \A n \in 1 .. N :
                    d[n] = IF Default[n].key \in Columns!KeysOf(c) THEN d[n - 1]
                           ELSE Append(d[n - 1], [key |-> Default[n].key, visible |-> FALSE])
    BY MergeRuns
<1>2. /\ N \in Nat /\ DOMAIN Default = 1 .. N
      /\ Keys = {Default[i].key : i \in 1 .. N}
      /\ \A i, j \in 1 .. N : Default[i].key = Default[j].key => i = j
    <2>1. N \in Nat /\ DOMAIN Default = 1 .. N
        BY DefaultHasEachColumn
    <2> HIDE DEF N
    <2> QED BY <2>1, DefaultHasEachColumn
<1> DEFINE upto(j) == {Default[m].key : m \in 1 .. j}
<1>3. \A n \in 0 .. N :
        Columns!OnceEach(d[n]) /\ Columns!KeysOf(d[n]) = Columns!KeysOf(c) \cup upto(n)
    <2> DEFINE T == {n \in 0 .. N :
                        /\ Columns!OnceEach(d[n])
                        /\ Columns!KeysOf(d[n]) = Columns!KeysOf(c) \cup upto(n)}
    <2> HIDE DEF N
    <2>1. 0 \in T
        <3>1. upto(0) = {} /\ 0 \in 0 .. N
            BY <1>2
        <3> HIDE DEF upto
        <3> QED BY <1>1, <3>1
    <2>2. ASSUME NEW n \in 1 .. N, n - 1 \in T PROVE n \in T
        <3> DEFINE k == Default[n].key
                   e == [key |-> k, visible |-> FALSE]
        <3>1. /\ Columns!OnceEach(d[n - 1]) /\ d[n - 1] \in Seq(Column)
              /\ Columns!KeysOf(d[n - 1]) = Columns!KeysOf(c) \cup upto(n - 1)
            <4> HIDE DEF upto
            <4> QED BY <1>1, <1>2, <2>2
        <3>2. upto(n) = upto(n - 1) \cup {k}
            <4>1. 1 .. n = (1 .. (n - 1)) \cup {n}
                BY <1>2
            <4> QED BY <4>1
        <3>3. k \notin upto(n - 1) /\ k \in Keys
            BY <1>2
        <3>4. d[n] = IF k \in Columns!KeysOf(c) THEN d[n - 1] ELSE Append(d[n - 1], e)
            BY <1>1
        <3>5. e \in Column /\ e.key = k
            BY <3>3 DEF Column
        <3> HIDE DEF upto, k, e
        <3>6. CASE k \in Columns!KeysOf(c)
            BY <3>1, <3>2, <3>4, <3>6
        <3>7. CASE k \notin Columns!KeysOf(c)
            <4>1. d[n] = Append(d[n - 1], e) /\ k \notin Columns!KeysOf(d[n - 1])
                BY <3>1, <3>3, <3>4, <3>7
            <4>2. Columns!OnceEach(d[n]) /\ Columns!KeysOf(d[n]) = Columns!KeysOf(d[n - 1]) \cup {k}
                BY <3>1, <3>5, <4>1, KeysAppended
            <4> QED BY <3>1, <3>2, <4>2
        <3> QED BY <3>6, <3>7
    <2> HIDE DEF T
    <2>3. \A n \in 0 .. N : n \in T
        BY <1>2, <2>1, <2>2, Counting
    <2> QED BY <2>3 DEF T
<1>4. IsLayout(d[N])
    <2>1. Columns!OnceEach(d[N]) /\ Columns!KeysOf(d[N]) = Columns!KeysOf(c) \cup Keys
        <3>1. upto(N) = Keys /\ N \in 0 .. N
            BY <1>2
        <3> HIDE DEF upto
        <3> QED BY <1>3, <3>1
    <2>2. Columns!KeysOf(c) \subseteq Keys \cup {GoneKey}
        <3>1. \A i \in DOMAIN c : c[i] \in Column
            OBVIOUS
        <3> QED BY <3>1 DEF Columns!KeysOf, Column
    <2> QED BY <1>1, <1>2, <2>1, <2>2 DEF IsLayout, Columns!IsComplete, Columns!OnceEach
<1>5. ASSUME IsLayout(c) PROVE d[N] = c
    <2> DEFINE T == {n \in 0 .. N : d[n] = c}
    <2> HIDE DEF N
    <2>1. 0 \in T
        BY <1>1, <1>2
    <2>2. ASSUME NEW n \in 1 .. N, n - 1 \in T PROVE n \in T
        <3>1. Keys \subseteq Columns!KeysOf(c)
            BY <1>5 DEF IsLayout, Columns!IsComplete
        <3>2. Default[n].key \in Keys
            BY <1>2
        <3>3. d[n] = d[n - 1]
            BY <1>1, <3>1, <3>2
        <3>4. d[n - 1] = c /\ n \in 0 .. N
            BY <1>2, <2>2
        <3> QED BY <3>3, <3>4
    <2> HIDE DEF T
    <2>3. \A n \in 0 .. N : n \in T
        BY <1>2, <2>1, <2>2, Counting
    <2> QED BY <1>2, <2>3 DEF T
<1> QED BY <1>1, <1>4, <1>5

(* retain_mut in columns as a loop. *)
LEMMA KeptRuns ==
    ASSUME NEW c \in Seq(Column)
    PROVE  \E d : /\ Columns!FirstOfEach(c) = d[Len(c)]
                  /\ d[0] = <<>>
                  /\ \A n \in 1 .. Len(c) :
                        d[n] = IF c[n].key \in Columns!KeysOf(d[n - 1]) THEN d[n - 1]
                               ELSE Append(d[n - 1], c[n])
<1> DEFINE N == Len(c)
           next(n, x) == IF c[n].key \in Columns!KeysOf(x) THEN x ELSE Append(x, c[n])
           F(g) == [n \in 0 .. N |->
                        IF n = 0 THEN <<>>
                        ELSE IF c[n].key \in Columns!KeysOf(g[n - 1]) THEN g[n - 1]
                        ELSE Append(g[n - 1], c[n])]
           step == [n \in 1 .. N |-> [x \in Seq(Column) |-> next(n, x)]]
<1>1. N \in Nat /\ \A n \in 1 .. N : c[n] \in Column
    OBVIOUS
<1>2. step \in Steps(N, Seq(Column))
    BY <1>1 DEF Steps
<1>3. PICK d \in [0 .. N -> Seq(Column)] :
            d[0] = <<>> /\ \A n \in 1 .. N : d[n] = step[n][d[n - 1]]
    <2>1. <<>> \in Seq(Column)
        OBVIOUS
    <2> HIDE DEF step, N
    <2>2. Runs(N, Seq(Column), <<>>, step)
        BY <1>1, <1>2, <2>1, LoopRuns
    <2> QED BY <2>2 DEF Runs
<1>4. ASSUME NEW n \in 1 .. N
      PROVE  d[n] = next(n, d[n - 1])
    <2>1. d[n - 1] \in Seq(Column)
        BY <1>1
    <2> HIDE DEF next, N
    <2> QED BY <1>3, <2>1
<1>5. d = F(d)
    <2>1. ASSUME NEW n \in 0 .. N PROVE d[n] = F(d)[n]
        <3> HIDE DEF N
        <3>1. CASE n = 0
            BY <1>3, <3>1
        <3>2. CASE n \in 1 .. N
            <4>1. n # 0
                BY <1>1, <3>2
            <4> QED BY <1>4, <3>2, <4>1
        <3> QED BY <1>1, <3>1, <3>2
    <2>2. DOMAIN d = 0 .. N /\ DOMAIN F(d) = 0 .. N
        OBVIOUS
    <2>3. d = [n \in 0 .. N |-> d[n]] /\ F(d) = [n \in 0 .. N |-> F(d)[n]]
        BY <2>2
    <2> HIDE DEF F, N
    <2> QED BY <2>1, <2>3
<1> DEFINE g == CHOOSE f : f = F(f)
<1>6. g = F(g)
    <2> HIDE DEF F
    <2> QED BY <1>5
<1>7. Columns!FirstOfEach(c) = g[N]
    BY DEF Columns!FirstOfEach
<1>8. /\ F(g)[0] = <<>>
      /\ \A n \in 1 .. N : F(g)[n] = next(n, g[n - 1])
    <2> HIDE DEF g
    <2> QED BY <1>1
<1>9. g[0] = <<>> /\ \A n \in 1 .. N : g[n] = next(n, g[n - 1])
    <2> HIDE DEF g, F, next
    <2> QED BY <1>6, <1>8
<1> HIDE DEF g, F, step
<1> QED BY <1>7, <1>9

(* It keeps each column once, and all of a layout that has each once. *)
LEMMA FirstsAreOnce ==
    ASSUME NEW c \in Seq(Column)
    PROVE  /\ Columns!FirstOfEach(c) \in Seq(Column)
           /\ Columns!OnceEach(Columns!FirstOfEach(c))
           /\ Columns!OnceEach(c) => Columns!FirstOfEach(c) = c
<1> DEFINE N == Len(c)
<1>1. PICK d : /\ Columns!FirstOfEach(c) = d[N]
               /\ d[0] = <<>>
               /\ \A n \in 1 .. N :
                    d[n] = IF c[n].key \in Columns!KeysOf(d[n - 1]) THEN d[n - 1]
                           ELSE Append(d[n - 1], c[n])
    BY KeptRuns
<1>2. /\ N \in Nat /\ N \in 0 .. N /\ DOMAIN c = 1 .. N
      /\ \A n \in 1 .. N : c[n] \in Column
    OBVIOUS
<1>3. d[N] \in Seq(Column) /\ Columns!OnceEach(d[N])
    <2> DEFINE T == {n \in 0 .. N : d[n] \in Seq(Column) /\ Columns!OnceEach(d[n])}
    <2> HIDE DEF N
    <2>1. 0 \in T
        <3>1. <<>> \in Seq(Column) /\ DOMAIN <<>> = {} /\ 0 \in 0 .. N
            BY <1>2
        <3>2. Columns!OnceEach(<<>>)
            BY <3>1 DEF Columns!OnceEach
        <3> QED BY <1>1, <3>1, <3>2
    <2>2. ASSUME NEW n \in 1 .. N, n - 1 \in T PROVE n \in T
        <3>1. CASE c[n].key \in Columns!KeysOf(d[n - 1])
            BY <1>1, <1>2, <2>2, <3>1
        <3>2. CASE c[n].key \notin Columns!KeysOf(d[n - 1])
            <4>1. d[n] = Append(d[n - 1], c[n])
                BY <1>1, <3>2
            <4>2. d[n] \in Seq(Column) /\ Columns!OnceEach(d[n])
                BY <1>2, <2>2, <3>2, <4>1, KeysAppended
            <4> QED BY <1>2, <4>2
        <3> QED BY <3>1, <3>2
    <2> HIDE DEF T
    <2>3. \A n \in 0 .. N : n \in T
        BY <1>2, <2>1, <2>2, Counting
    <2> QED BY <1>2, <2>3 DEF T
<1>4. ASSUME Columns!OnceEach(c) PROVE d[N] = c
    <2> DEFINE Is(n) == /\ d[n] \in Seq(Column) /\ Len(d[n]) = n
                        /\ \A i \in 1 .. n : d[n][i] = c[i]
               T == {n \in 0 .. N : Is(n)}
    <2> HIDE DEF N
    <2>1. 0 \in T
        <3>1. <<>> \in Seq(Column) /\ Len(<<>>) = 0 /\ 0 \in 0 .. N /\ 1 .. 0 = {}
            BY <1>2
        <3> QED BY <1>1, <3>1
    <2>2. ASSUME NEW n \in 1 .. N, n - 1 \in T PROVE n \in T
        <3>1. Is(n - 1) /\ n \in Nat /\ n \in 0 .. N /\ c[n] \in Column
            BY <1>2, <2>2
        <3>2. c[n].key \notin Columns!KeysOf(d[n - 1])
            <4>1. \A i \in 1 .. (n - 1) : c[i].key # c[n].key
                BY <1>2, <1>4 DEF Columns!OnceEach
            <4>2. DOMAIN d[n - 1] = 1 .. (n - 1)
                BY <3>1
            <4> QED BY <3>1, <4>1, <4>2 DEF Columns!KeysOf
        <3>3. d[n] = Append(d[n - 1], c[n])
            BY <1>1, <3>2
        <3>4. Is(n)
            BY <3>1, <3>3
        <3> QED BY <3>1, <3>4
    <2> HIDE DEF T
    <2>3. \A n \in 0 .. N : n \in T
        BY <1>2, <2>1, <2>2, Counting
    <2>4. Is(N)
        BY <1>2, <2>3 DEF T
    <2>5. c = [i \in 1 .. N |-> c[i]] /\ d[N] = [i \in 1 .. N |-> d[N][i]]
        BY <1>2, <2>4
    <2> QED BY <2>4, <2>5
<1> QED BY <1>1, <1>3, <1>4

(* What was saved under an old name is a layout of columns, and what has no old
   name stays. *)
LEMMA RenamesApply ==
    ASSUME NEW c \in Seq(Columns!Entries)
    PROVE  /\ Columns!Renamed(c) \in Seq(Column)
           /\ c \in Seq(Column) => Columns!Renamed(c) = c
<1> DEFINE new(e) == [e EXCEPT !.key = IF e.key = OldKey THEN NewKey ELSE e.key]
<1>1. Columns!Renamed(c) = [i \in 1 .. Len(c) |-> new(c[i])]
    BY DEF Columns!Renamed
<1>2. ASSUME NEW e \in Columns!Entries
      PROVE  new(e) \in Column
    BY NamesAreKnown DEF Columns!Entries, Column
<1>3. ASSUME NEW e \in Column
      PROVE  new(e) = e
    <2>1. PICK k \in Keys \cup {GoneKey}, v \in BOOLEAN : e = [key |-> k, visible |-> v]
        BY DEF Column
    <2>2. e.key = k /\ k # OldKey
        BY <2>1, NamesAreKnown
    <2>3. new(e) = [e EXCEPT !.key = k]
        BY <2>2
    <2> HIDE DEF new
    <2> QED BY <2>1, <2>3
<1>4. Len(c) \in Nat /\ \A i \in 1 .. Len(c) : c[i] \in Columns!Entries
    OBVIOUS
<1> HIDE DEF new
<1>5. Columns!Renamed(c) \in Seq(Column)
    BY <1>1, <1>2, <1>4
<1>6. ASSUME c \in Seq(Column)
      PROVE  Columns!Renamed(c) = c
    <2>1. \A i \in 1 .. Len(c) : c[i] \in Column
        BY <1>6
    <2>2. c = [i \in 1 .. Len(c) |-> c[i]]
        BY <1>6
    <2> QED BY <1>1, <1>3, <2>1, <2>2
<1> QED BY <1>5, <1>6

(* columns answers a layout of the page, and a layout of the page as it is. *)
LEMMA ColumnsAnswer ==
    /\ \A c \in Seq(Columns!Entries) : IsLayout(Columns!Columns(c))
    /\ \A c : IsLayout(c) => Columns!Columns(c) = c
<1>1. ASSUME NEW c \in Seq(Columns!Entries)
      PROVE  IsLayout(Columns!Columns(c))
    BY RenamesApply, FirstsAreOnce, MergeCompletes DEF Columns!Columns
<1>2. ASSUME NEW c, IsLayout(c)
      PROVE  Columns!Columns(c) = c
    <2>1. c \in Seq(Column) /\ Columns!OnceEach(c)
        BY <1>2 DEF IsLayout, Columns!IsComplete, Columns!OnceEach
    <2>2. Column \subseteq Columns!Entries
        BY DEF Column, Columns!Entries
    <2>3. c \in Seq(Columns!Entries)
        BY <2>1, <2>2
    <2>4. Columns!Renamed(c) = c
        BY <2>1, <2>3, RenamesApply
    <2>5. Columns!FirstOfEach(c) = c
        BY <2>1, FirstsAreOnce
    <2> QED BY <1>2, <2>1, <2>4, <2>5, MergeCompletes DEF Columns!Columns
<1> QED BY <1>1, <1>2

(* A toggled and a reordered layout have the same columns. *)
LEMMA ToggledIsLayout ==
    ASSUME NEW c, IsLayout(c), NEW k
    PROVE  IsLayout(Columns!Toggled(c, k))
<1> DEFINE new == Columns!Toggled(c, k)
<1>1. /\ c \in Seq(Column) /\ Len(c) \in Nat /\ DOMAIN c = 1 .. Len(c)
      /\ \A i \in 1 .. Len(c) : c[i] \in Column
    BY DEF IsLayout
<1>2. new = [i \in 1 .. Len(c) |->
                IF c[i].key = k THEN [c[i] EXCEPT !.visible = ~c[i].visible] ELSE c[i]]
    BY <1>1 DEF Columns!Toggled
<1>3. ASSUME NEW i \in 1 .. Len(c)
      PROVE  new[i] \in Column /\ new[i].key = c[i].key
    BY <1>1, <1>2 DEF Column
<1>4. DOMAIN new = 1 .. Len(c) /\ new \in Seq(Column)
    BY <1>1, <1>2, <1>3
<1> HIDE DEF new
<1>5. Columns!KeysOf(new) = Columns!KeysOf(c)
    BY <1>1, <1>3, <1>4 DEF Columns!KeysOf
<1> QED BY <1>1, <1>3, <1>4, <1>5 DEF IsLayout, Columns!IsComplete, Columns!OnceEach, new

LEMMA ReorderedIsLayout ==
    ASSUME NEW c, IsLayout(c), NEW from, NEW to, {from, to} \subseteq Columns!KeysOf(c), from # to
    PROVE  IsLayout(Columns!Reordered(c, from, to))
<1> DEFINE N == Len(c)
           place(k) == CHOOSE i \in DOMAIN c : c[i].key = k
           p == place(from)
           q == place(to)
           at(i) == IF i < q THEN (IF i < p THEN i ELSE i + 1)
                    ELSE IF i = q THEN p
                    ELSE (IF i - 1 < p THEN i - 1 ELSE i)
           new == Columns!Reordered(c, from, to)
<1>1. /\ c \in Seq(Column) /\ N \in Nat /\ DOMAIN c = 1 .. N
      /\ \A i \in 1 .. N : c[i] \in Column
      /\ \A i, j \in 1 .. N : c[i].key = c[j].key => i = j
    BY DEF IsLayout, Columns!IsComplete, Columns!OnceEach
<1>2. p \in 1 .. N /\ q \in 1 .. N /\ p # q
    <2>1. /\ \E i \in DOMAIN c : c[i].key = from
          /\ \E i \in DOMAIN c : c[i].key = to
        BY <1>1 DEF Columns!KeysOf
    <2>2. p \in DOMAIN c /\ c[p].key = from /\ q \in DOMAIN c /\ c[q].key = to
        BY <2>1
    <2> QED BY <1>1, <2>2
<1> HIDE DEF p, q, N
<1> DEFINE short == Columns!RemoveAt(c, p)
<1>3. /\ short \in Seq(Column) /\ Len(short) = N - 1
      /\ \A i \in 1 .. (N - 1) : short[i] = IF i < p THEN c[i] ELSE c[i + 1]
    <2> DEFINE a == SubSeq(c, 1, p - 1)
               b == SubSeq(c, p + 1, N)
    <2>1. /\ a \in Seq(Column) /\ Len(a) = p - 1
          /\ \A i \in 1 .. (p - 1) : a[i] = c[i]
        BY <1>1, <1>2 DEF N
    <2>2. /\ b \in Seq(Column) /\ Len(b) = N - p
          /\ \A i \in 1 .. (N - p) : b[i] = c[p + i]
        <3>1. p + 1 \in Int /\ N \in Int /\ \A i \in (p + 1) .. N : c[i] \in Column
            BY <1>1, <1>2
        <3>2. /\ b \in Seq(Column)
              /\ Len(b) = IF p + 1 <= N THEN N - (p + 1) + 1 ELSE 0
              /\ \A i \in 1 .. (N - (p + 1) + 1) : b[i] = c[(p + 1) + i - 1]
            BY <3>1, SubSeqProperties
        <3>3. N - (p + 1) + 1 = N - p /\ \A i \in 1 .. (N - p) : (p + 1) + i - 1 = p + i
            BY <1>1, <1>2
        <3>4. Len(b) = N - p
            BY <1>1, <1>2, <3>2
        <3> HIDE DEF b
        <3> QED BY <3>2, <3>3, <3>4
    <2>3. short = a \o b
        BY DEF Columns!RemoveAt, N
    <2>4. /\ short \in Seq(Column) /\ Len(short) = Len(a) + Len(b)
          /\ \A i \in 1 .. Len(a) + Len(b) :
                short[i] = IF i <= Len(a) THEN a[i] ELSE b[i - Len(a)]
        <3>1. a \in Seq(Column) /\ b \in Seq(Column)
            BY <2>1, <2>2
        <3> HIDE DEF a, b, short
        <3> QED BY <2>3, <3>1, ConcatProperties
    <2> HIDE DEF a, b, short
    <2>5. Len(short) = N - 1
        BY <1>1, <1>2, <2>1, <2>2, <2>4
    <2>6. ASSUME NEW i \in 1 .. (N - 1)
          PROVE  short[i] = IF i < p THEN c[i] ELSE c[i + 1]
        <3>1. CASE i < p
            <4>1. i \in 1 .. (p - 1) /\ short[i] = a[i]
                BY <1>1, <1>2, <2>1, <2>2, <2>4, <3>1
            <4> QED BY <2>1, <3>1, <4>1
        <3>2. CASE ~(i < p)
            <4>1. i - (p - 1) \in 1 .. (N - p) /\ short[i] = b[i - (p - 1)]
                BY <1>1, <1>2, <2>1, <2>2, <2>4, <3>2
            <4>2. p + (i - (p - 1)) = i + 1
                BY <1>1, <1>2
            <4> QED BY <2>2, <3>2, <4>1, <4>2
        <3> QED BY <3>1, <3>2
    <2> QED BY <2>4, <2>6, <2>5
<1>4. new = Columns!InsertAt(short, q, c[p])
    BY DEF Columns!Reordered, p, q
<1> HIDE DEF short, new
<1>5. /\ new \in Seq(Column) /\ Len(new) = N
      /\ \A i \in 1 .. N :
            new[i] = IF i < q THEN short[i] ELSE IF i = q THEN c[p] ELSE short[i - 1]
    <2> DEFINE a == SubSeq(short, 1, q - 1)
               b == SubSeq(short, q, Len(short))
               one == <<c[p]>>
    <2>1. /\ q \in Int /\ q - 1 \in Nat /\ N - 1 \in Nat /\ q - 1 <= N - 1
          /\ \A i \in 1 .. (N - 1) : short[i] \in Column
        BY <1>1, <1>2, <1>3
    <2>2. /\ a \in Seq(Column) /\ Len(a) = q - 1
          /\ \A i \in 1 .. (q - 1) : a[i] = short[i]
        <3>1. \A i \in 1 .. (q - 1) : short[i] \in Column
            BY <2>1
        <3>2. /\ a \in Seq(Column)
              /\ Len(a) = IF 1 <= q - 1 THEN (q - 1) - 1 + 1 ELSE 0
              /\ \A i \in 1 .. (q - 1) - 1 + 1 : a[i] = short[1 + i - 1]
            BY <2>1, <3>1, SubSeqProperties
        <3>3. (q - 1) - 1 + 1 = q - 1 /\ \A i \in 1 .. (q - 1) : 1 + i - 1 = i
            BY <2>1
        <3>4. Len(a) = q - 1
            BY <2>1, <3>2
        <3> HIDE DEF a
        <3> QED BY <3>2, <3>3, <3>4
    <2>3. /\ b \in Seq(Column) /\ Len(b) = N - q
          /\ \A i \in 1 .. (N - q) : b[i] = short[q + i - 1]
        <3>1. Len(short) = N - 1 /\ \A i \in q .. (N - 1) : short[i] \in Column
            BY <1>2, <1>3, <2>1
        <3>2. /\ b \in Seq(Column)
              /\ Len(b) = IF q <= N - 1 THEN (N - 1) - q + 1 ELSE 0
              /\ \A i \in 1 .. (N - 1) - q + 1 : b[i] = short[q + i - 1]
            BY <2>1, <3>1, SubSeqProperties
        <3>3. (N - 1) - q + 1 = N - q
            BY <1>1, <1>2
        <3>4. Len(b) = N - q
            BY <1>1, <1>2, <3>2
        <3> HIDE DEF b
        <3> QED BY <3>2, <3>3, <3>4
    <2>4. one \in Seq(Column) /\ Len(one) = 1 /\ one[1] = c[p]
        BY <1>1, <1>2
    <2>5. new = (a \o one) \o b
        BY <1>4 DEF Columns!InsertAt
    <2> HIDE DEF a, b, one
    <2>6. /\ a \o one \in Seq(Column) /\ Len(a \o one) = q
          /\ \A i \in 1 .. q : (a \o one)[i] = IF i < q THEN short[i] ELSE c[p]
        <3>1. /\ a \o one \in Seq(Column) /\ Len(a \o one) = Len(a) + Len(one)
              /\ \A i \in 1 .. Len(a) + Len(one) :
                    (a \o one)[i] = IF i <= Len(a) THEN a[i] ELSE one[i - Len(a)]
            BY <2>2, <2>4, ConcatProperties
        <3> DEFINE x == a \o one
        <3>2. \A i \in 1 .. q : x[i] = IF i <= q - 1 THEN a[i] ELSE one[i - (q - 1)]
            BY <2>1, <2>2, <2>4, <3>1
        <3>3. Len(x) = q
            BY <2>1, <2>2, <2>4, <3>1
        <3> HIDE DEF x
        <3>4. ASSUME NEW i \in 1 .. q PROVE x[i] = IF i < q THEN short[i] ELSE c[p]
            <4>1. CASE i < q
                BY <2>1, <2>2, <3>2, <4>1
            <4>2. CASE i = q
                <5>1. ~(i <= q - 1) /\ i - (q - 1) = 1
                    BY <2>1, <4>2
                <5> QED BY <2>4, <3>2, <4>2, <5>1
            <4> QED BY <2>1, <4>1, <4>2
        <3> QED BY <3>1, <3>3, <3>4 DEF x
    <2> DEFINE x == a \o one
    <2>7. /\ new \in Seq(Column) /\ Len(new) = Len(x) + Len(b)
          /\ \A i \in 1 .. Len(x) + Len(b) :
                new[i] = IF i <= Len(x) THEN x[i] ELSE b[i - Len(x)]
        <3>1. x \in Seq(Column) /\ b \in Seq(Column)
            BY <2>3, <2>6
        <3> HIDE DEF x, new
        <3> QED BY <2>5, <3>1, ConcatProperties DEF x
    <2>8. x \in Seq(Column) /\ Len(x) = q /\ \A i \in 1 .. q :
            x[i] = IF i < q THEN short[i] ELSE c[p]
        BY <2>6
    <2> HIDE DEF x, new
    <2>9. Len(new) = N
        BY <1>1, <1>2, <2>3, <2>7, <2>8
    <2>10. ASSUME NEW i \in 1 .. N
           PROVE  new[i] = IF i < q THEN short[i] ELSE IF i = q THEN c[p] ELSE short[i - 1]
        <3>1. new[i] = IF i <= q THEN x[i] ELSE b[i - q]
            BY <1>1, <1>2, <2>3, <2>7, <2>8
        <3>2. CASE i <= q
            <4>1. i \in 1 .. q
                BY <1>1, <1>2, <3>2
            <4> QED BY <1>1, <1>2, <2>8, <3>1, <3>2, <4>1
        <3>3. CASE i > q
            <4>1. i - q \in 1 .. (N - q) /\ q + (i - q) - 1 = i - 1
                BY <1>1, <1>2, <3>3
            <4>2. ~(i <= q) /\ ~(i < q) /\ i # q
                BY <1>1, <1>2, <3>3
            <4> QED BY <2>3, <3>1, <4>1, <4>2
        <3> QED BY <1>1, <1>2, <3>2, <3>3
    <2> QED BY <2>7, <2>9, <2>10
<1>6. DOMAIN new = 1 .. N /\ \A i \in 1 .. N : at(i) \in 1 .. N /\ new[i] = c[at(i)]
    <2>1. DOMAIN new = 1 .. N
        BY <1>5
    <2>2. ASSUME NEW i \in 1 .. N PROVE at(i) \in 1 .. N /\ new[i] = c[at(i)]
        <3>1. CASE i < q
            <4>1. i \in 1 .. (N - 1) /\ new[i] = short[i]
                BY <1>1, <1>2, <1>5, <3>1
            <4>2. short[i] = IF i < p THEN c[i] ELSE c[i + 1]
                BY <1>3, <4>1
            <4> QED BY <1>1, <1>2, <3>1, <4>1, <4>2
        <3>2. CASE i = q
            BY <1>1, <1>2, <1>5, <3>2
        <3>3. CASE i > q
            <4>1. i - 1 \in 1 .. (N - 1) /\ new[i] = short[i - 1] /\ (i - 1) + 1 = i
                BY <1>1, <1>2, <1>5, <3>3
            <4>2. short[i - 1] = IF i - 1 < p THEN c[i - 1] ELSE c[i]
                BY <1>3, <4>1
            <4> QED BY <1>1, <1>2, <3>3, <4>1, <4>2
        <3> QED BY <1>1, <1>2, <3>1, <3>2, <3>3
    <2> QED BY <2>1, <2>2
<1>7. \A i, j \in 1 .. N : at(i) = at(j) => i = j
    BY <1>1, <1>2
<1>8. ASSUME NEW m \in 1 .. N
      PROVE  \E i \in 1 .. N : at(i) = m
    <2>1. CASE m = p
        BY <1>1, <1>2, <2>1
    <2>2. CASE m < p
        <3>1. m < q => at(m) = m
            BY <1>1, <1>2, <2>2
        <3>2. m >= q => m + 1 \in 1 .. N /\ at(m + 1) = m
            BY <1>1, <1>2, <2>2
        <3> HIDE DEF at
        <3> QED BY <1>1, <1>2, <3>1, <3>2
    <2>3. CASE m > p
        <3>1. m <= q => m - 1 \in 1 .. N /\ at(m - 1) = m
            BY <1>1, <1>2, <2>3
        <3>2. m > q => at(m) = m
            BY <1>1, <1>2, <2>3
        <3> HIDE DEF at
        <3> QED BY <1>1, <1>2, <3>1, <3>2
    <2> QED BY <1>1, <1>2, <2>1, <2>2, <2>3
<1> HIDE DEF at
<1>9. \A i, j \in 1 .. N : new[i].key = new[j].key => i = j
    BY <1>1, <1>6, <1>7
<1>10. Columns!KeysOf(new) = Columns!KeysOf(c)
    <2>1. Columns!KeysOf(new) \subseteq Columns!KeysOf(c)
        BY <1>1, <1>6 DEF Columns!KeysOf
    <2>2. ASSUME NEW m \in 1 .. N PROVE c[m].key \in Columns!KeysOf(new)
        <3>1. PICK i \in 1 .. N : at(i) = m
            BY <1>8
        <3>2. new[i] = c[m] /\ i \in DOMAIN new
            BY <1>6, <3>1
        <3> QED BY <3>2 DEF Columns!KeysOf
    <2>3. Columns!KeysOf(c) \subseteq Columns!KeysOf(new)
        BY <1>1, <2>2 DEF Columns!KeysOf
    <2> QED BY <2>1, <2>3
<1> QED BY <1>1, <1>5, <1>6, <1>9, <1>10 DEF IsLayout, Columns!IsComplete, Columns!OnceEach, new

(* Between page and backend.  Whatever waits or travels is a layout, and each save
   has a number of its own. *)
ColumnsTyped ==
    /\ IsLayout(ref) /\ wanted = ref
    /\ load.at \in {"none", "asked", "read"} /\ IsLayout(load.value)
    /\ load.at = "none" <=> load = Columns!NoLoad
    /\ \A t \in timers : t.visit \in Nat /\ IsLayout(t.columns)
    /\ \A p \in puts : p.n \in 1 .. sent /\ p.n # latest /\ IsLayout(p.columns)
    /\ \A p, q \in puts : p.n = q.n => p = q
    /\ stored \in Seq(Columns!Entries)
    /\ visit \in Nat /\ sent \in Nat /\ latest \in 0 .. sent
    /\ edited \in BOOLEAN /\ raced \in BOOLEAN /\ lost \in BOOLEAN

(* A load that met no edit has read what is stored, and nothing is on its way. *)
LoadsAlone ==
    load.at # "none" /\ ~raced =>
        /\ ~edited
        /\ load.at = "read" =>
            /\ timers = {} /\ puts = {}
            /\ load.value = Columns!Columns(stored)

(* What the page has is what waits for the timer, or else what the last save
   carries, or else what is stored, and then older saves come too late, or else what
   the backend refuses to store. *)
LastIsSaved ==
    load.at = "none" /\ ~raced /\ ~lost =>
        /\ \A t \in timers : t.visit = visit /\ t.columns = ref
        /\ timers = {} =>
            \/ \E p \in puts : p.n = sent /\ p.columns = ref
            \/ /\ Columns!Columns(stored) = ref
               /\ puts # {} => latest = sent
            \/ GoneKey \in Columns!KeysOf(ref)

ColumnsInv == ColumnsTyped /\ LoadsAlone /\ LastIsSaved

LEMMA DefaultIsLayout == IsLayout(Default)
<1>1. [key : Keys, visible : BOOLEAN] \subseteq Column
    BY DEF Column
<1>2. Default \in Seq(Column)
    <2>1. Default \in Seq([key : Keys, visible : BOOLEAN])
        BY DefaultHasEachColumn
    <2>2. ASSUME NEW S, NEW T, S \subseteq T, NEW c \in Seq(S)
          PROVE  c \in Seq(T)
        BY <2>2
    <2> QED BY <1>1, <2>1, <2>2
<1> QED
    BY <1>2, DefaultHasEachColumn
    DEF IsLayout, Columns!IsComplete, Columns!OnceEach, Columns!KeysOf

(* Whatever the user has saved. *)
LEMMA LayoutsAreSaved == Columns!Layouts \subseteq Seq(Columns!Entries)
<1>1. Default \in Seq(Columns!Entries)
    <2>1. Column \subseteq Columns!Entries
        BY DEF Column, Columns!Entries
    <2>2. Default \in Seq(Column)
        BY DefaultIsLayout DEF IsLayout
    <2> QED BY <2>1, <2>2
<1>2. ASSUME NEW i \in DOMAIN Default
      PROVE  Columns!RemoveAt(Default, i) \in Seq(Columns!Entries)
    <2> DEFINE a == SubSeq(Default, 1, i - 1)
               b == SubSeq(Default, i + 1, Len(Default))
    <2>1. i \in Int /\ Len(Default) \in Int /\ i \in 1 .. Len(Default)
          /\ \A j \in 1 .. Len(Default) : Default[j] \in Columns!Entries
        BY <1>1
    <2>2. a \in Seq(Columns!Entries) /\ b \in Seq(Columns!Entries)
        <3>1. /\ \A j \in 1 .. (i - 1) : Default[j] \in Columns!Entries
              /\ \A j \in (i + 1) .. Len(Default) : Default[j] \in Columns!Entries
            BY <2>1
        <3> QED BY <2>1, <3>1, SubSeqProperties
    <2>3. Columns!RemoveAt(Default, i) = a \o b
        BY DEF Columns!RemoveAt
    <2> HIDE DEF a, b
    <2> QED BY <2>2, <2>3, ConcatProperties
<1>3. Columns!Named(NewKey, OldKey) \in Seq(Columns!Entries)
    <2>1. ASSUME NEW i \in DOMAIN Default
          PROVE  [Default[i] EXCEPT !.key = OldKey] \in Columns!Entries
        <3>1. Default[i] \in Columns!Entries /\ OldKey \in Keys \cup {OldKey}
            BY <1>1
        <3> QED BY <3>1 DEF Columns!Entries
    <2>2. DOMAIN Default = 1 .. Len(Default) /\ Len(Default) \in Nat
        BY <1>1
    <2> QED BY <1>1, <2>1, <2>2 DEF Columns!Named
<1>4. \A k \in {OldKey, GoneKey} :
        Append(Default, [key |-> k, visible |-> FALSE]) \in Seq(Columns!Entries)
    BY <1>1 DEF Columns!Entries
<1> QED BY <1>1, <1>2, <1>3, <1>4 DEF Columns!Layouts

LEMMA ColumnsStart == Columns!Init => ColumnsInv
<1> SUFFICES ASSUME Columns!Init PROVE ColumnsInv
    OBVIOUS
<1>1. load.at = "asked" /\ load.value = Default /\ load # Columns!NoLoad
    BY DEF Columns!Init, Columns!NoLoad
<1>2. ColumnsTyped
    <2>1. visit \in Nat /\ sent \in Nat /\ latest \in 0 .. sent
        BY DEF Columns!Init
    <2>2. stored \in Seq(Columns!Entries)
        BY LayoutsAreSaved DEF Columns!Init
    <2>3. ref = Default /\ wanted = Default /\ timers = {} /\ puts = {}
          /\ edited = FALSE /\ raced = FALSE /\ lost = FALSE
        BY DEF Columns!Init
    <2> QED BY <1>1, <2>1, <2>2, <2>3, DefaultIsLayout DEF ColumnsTyped
<1>3. LoadsAlone /\ LastIsSaved
    BY <1>1 DEF Columns!Init, LoadsAlone, LastIsSaved
<1> QED BY <1>2, <1>3 DEF ColumnsInv

(* The load. *)
LEMMA LoadSteps ==
    ASSUME ColumnsInv,
           Columns!LoadRead \/ Columns!LoadAnswered \/ Columns!LoadFails \/ Columns!Render
    PROVE  ColumnsInv'
<1>1. CASE Columns!LoadRead
    <2>1. /\ load.at = "asked" /\ load'.at = "read" /\ load' # Columns!NoLoad
          /\ load'.value = Columns!Columns(stored)
          /\ raced' = (raced \/ timers # {} \/ puts # {})
          /\ UNCHANGED <<ref, timers, puts, stored, visit, sent, wanted, edited, latest, lost>>
        BY <1>1 DEF Columns!LoadRead, Columns!NoLoad
    <2>2. IsLayout(load'.value)
        BY <2>1, ColumnsAnswer DEF ColumnsInv, ColumnsTyped
    <2>3. ColumnsTyped'
        BY <2>1, <2>2 DEF ColumnsInv, ColumnsTyped
    <2>4. LoadsAlone' /\ LastIsSaved'
        BY <2>1 DEF ColumnsInv, ColumnsTyped, LoadsAlone, LastIsSaved
    <2> QED BY <2>3, <2>4 DEF ColumnsInv
<1>2. CASE Columns!LoadAnswered
    <2>1. /\ load.at = "read" /\ load' = Columns!NoLoad
          /\ load'.at = "none" /\ load'.value = Default
          /\ ref' = Columns!MergeWithDefaults(load.value) /\ wanted' = ref'
          /\ raced' = (raced \/ edited)
          /\ UNCHANGED <<timers, puts, stored, visit, sent, edited, latest, lost>>
        BY <1>2 DEF Columns!LoadAnswered, Columns!NoLoad
    <2>2. ref' = load.value
        <3>1. IsLayout(load.value)
            BY DEF ColumnsInv, ColumnsTyped
        <3>2. load.value \in Seq(Column) /\ Columns!OnceEach(load.value)
            BY <3>1 DEF IsLayout, Columns!IsComplete, Columns!OnceEach
        <3> QED BY <2>1, <3>1, <3>2, MergeCompletes
    <2>3. ColumnsTyped'
        BY <2>1, <2>2, DefaultIsLayout DEF ColumnsInv, ColumnsTyped
    <2>4. LoadsAlone' /\ LastIsSaved'
        BY <2>1, <2>2 DEF ColumnsInv, LoadsAlone, LastIsSaved
    <2> QED BY <2>3, <2>4 DEF ColumnsInv
<1>3. CASE Columns!LoadFails
    <2>1. /\ load' = Columns!NoLoad /\ load'.at = "none" /\ load'.value = Default
          /\ lost' = TRUE
          /\ UNCHANGED <<ref, timers, puts, stored, visit, sent, wanted, edited, raced, latest>>
        BY <1>3 DEF Columns!LoadFails, Columns!NoLoad
    <2>2. ColumnsTyped'
        BY <2>1, DefaultIsLayout DEF ColumnsInv, ColumnsTyped
    <2>3. LoadsAlone' /\ LastIsSaved'
        BY <2>1 DEF LoadsAlone, LastIsSaved
    <2> QED BY <2>2, <2>3 DEF ColumnsInv
<1>4. CASE Columns!Render
    BY <1>4 DEF Columns!Render, Columns!history, ColumnsInv, ColumnsTyped, LoadsAlone, LastIsSaved
<1> QED BY <1>1, <1>2, <1>3, <1>4

(* An edit: it is computed from what the page has, and its timer replaces the one
   of an earlier edit of the visit. *)
LEMMA ChangeStep ==
    ASSUME ColumnsInv, NEW next, IsLayout(next), Columns!Change(next, next)
    PROVE  ColumnsInv'
<1> DEFINE new == [visit |-> visit, columns |-> next]
<1>1. /\ ref' = next /\ wanted' = next /\ edited' = TRUE
      /\ timers' = {t \in timers : t.visit # visit} \cup {new}
      /\ raced' = (raced \/ load # Columns!NoLoad)
      /\ UNCHANGED <<load, puts, stored, visit, sent, latest, lost>>
    BY DEF Columns!Change, Columns!Save
<1>2. new.visit = visit /\ new.columns = next
    OBVIOUS
<1> HIDE DEF new
<1>3. ColumnsTyped'
    BY <1>1, <1>2 DEF ColumnsInv, ColumnsTyped
<1>4. LoadsAlone'
    BY <1>1 DEF ColumnsInv, ColumnsTyped, LoadsAlone
<1>5. LastIsSaved'
    BY <1>1, <1>2 DEF ColumnsInv, ColumnsTyped, LastIsSaved
<1> QED BY <1>3, <1>4, <1>5 DEF ColumnsInv

LEMMA EditSteps ==
    ASSUME ColumnsInv,
           \/ \E k \in Columns!KeysOf(rendered) : Columns!ToggleColumn(k)
           \/ \E from, to \in Columns!KeysOf(rendered) : Columns!ReorderColumns(from, to)
           \/ Columns!ResetToDefault
    PROVE  ColumnsInv'
<1>1. IsLayout(ref) /\ wanted = ref
    BY DEF ColumnsInv, ColumnsTyped
<1>2. ASSUME NEW k, Columns!ToggleColumn(k)
      PROVE  ColumnsInv'
    <2>1. IsLayout(Columns!Toggled(ref, k))
        BY <1>1, ToggledIsLayout
    <2>2. Columns!Change(Columns!Toggled(ref, k), Columns!Toggled(ref, k))
        BY <1>1, <1>2 DEF Columns!ToggleColumn, Columns!Current
    <2> QED BY <2>1, <2>2, ChangeStep
<1>3. ASSUME NEW from, NEW to, Columns!ReorderColumns(from, to)
      PROVE  ColumnsInv'
    <2>1. from # to /\ {from, to} \subseteq Columns!KeysOf(ref)
        BY <1>3 DEF Columns!ReorderColumns, Columns!Current
    <2>2. IsLayout(Columns!Reordered(ref, from, to))
        BY <1>1, <2>1, ReorderedIsLayout
    <2>3. Columns!Change(Columns!Reordered(ref, from, to), Columns!Reordered(ref, from, to))
        BY <1>1, <1>3 DEF Columns!ReorderColumns, Columns!Current
    <2> QED BY <2>2, <2>3, ChangeStep
<1>4. CASE Columns!ResetToDefault
    BY <1>4, DefaultIsLayout, ChangeStep DEF Columns!ResetToDefault
<1> QED BY <1>2, <1>3, <1>4

(* A save: sent, stored or failed. *)
LEMMA TimerStep ==
    ASSUME ColumnsInv, NEW t \in timers, Columns!TimerFires(t)
    PROVE  ColumnsInv'
<1> DEFINE put == [n |-> sent + 1, columns |-> t.columns]
<1>1. /\ timers' = timers \ {t} /\ sent' = sent + 1 /\ puts' = puts \cup {put}
      /\ UNCHANGED <<ref, load, stored, visit, wanted, edited, raced, latest, lost>>
    BY DEF Columns!TimerFires, Columns!hook, Columns!history
<1>2. put.n = sent' /\ put.columns = t.columns
    BY <1>1
<1> HIDE DEF put
<1>3. ColumnsTyped'
    <2>1. sent \in Nat /\ latest \in 0 .. sent /\ \A p \in puts : p.n \in 1 .. sent
        BY DEF ColumnsInv, ColumnsTyped
    <2>2. /\ sent' \in Nat /\ latest' \in 0 .. sent' /\ put.n \in 1 .. sent' /\ put.n # latest'
          /\ \A p \in puts : p.n \in 1 .. sent' /\ p.n # put.n
        BY <1>1, <1>2, <2>1
    <2>3. \A p, q \in puts' : p.n = q.n => p = q
        BY <1>1, <2>2 DEF ColumnsInv, ColumnsTyped
    <2> QED BY <1>1, <1>2, <2>2, <2>3 DEF ColumnsInv, ColumnsTyped
<1>4. LoadsAlone'
    BY <1>1 DEF ColumnsInv, ColumnsTyped, LoadsAlone
<1>5. LastIsSaved'
    <2>1. put \in puts'
        BY <1>1
    <2> QED BY <1>1, <1>2, <2>1 DEF ColumnsInv, LastIsSaved
<1> QED BY <1>3, <1>4, <1>5 DEF ColumnsInv

LEMMA StoreStep ==
    ASSUME ColumnsInv, NEW p \in puts, Columns!Store(p)
    PROVE  ColumnsInv'
<1>1. /\ puts' = puts \ {p} /\ stored' = p.columns
      /\ latest' = IF p.n > latest THEN p.n ELSE latest
      /\ lost' = (lost \/ p.n < latest)
      /\ UNCHANGED <<ref, load, timers, visit, sent, wanted, edited, raced>>
    BY DEF Columns!Store, Columns!hook
<1>2. /\ p.n \in 1 .. sent /\ p.n # latest /\ sent \in Nat /\ latest \in 0 .. sent
      /\ IsLayout(p.columns)
      /\ \A q \in puts : q.n \in 1 .. sent /\ q.n # latest /\ (q.n = p.n => q = p)
    BY DEF ColumnsInv, ColumnsTyped
<1>3. stored' \in Seq(Columns!Entries) /\ Columns!Columns(stored') = p.columns
    <2>1. Column \subseteq Columns!Entries
        BY DEF Column, Columns!Entries
    <2>2. p.columns \in Seq(Columns!Entries)
        BY <1>2, <2>1 DEF IsLayout
    <2> QED BY <1>1, <1>2, <2>2, ColumnsAnswer
<1>4. /\ latest' \in 0 .. sent /\ \A q \in puts' : q.n # latest'
      /\ p.n < latest \/ latest' = p.n
    BY <1>1, <1>2
<1>5. ColumnsTyped'
    BY <1>1, <1>3, <1>4 DEF ColumnsInv, ColumnsTyped
<1>6. LoadsAlone'
    BY <1>1 DEF ColumnsInv, LoadsAlone
<1>7. LastIsSaved'
    <2> SUFFICES ASSUME load.at = "none", ~raced, ~lost', timers = {}
                 PROVE  \/ \E q \in puts' : q.n = sent /\ q.columns = ref
                        \/ /\ Columns!Columns(stored') = ref
                           /\ puts' # {} => latest' = sent
                        \/ GoneKey \in Columns!KeysOf(ref)
        BY <1>1 DEF ColumnsInv, LastIsSaved
    <2>1. latest' = p.n /\ ~(p.n < latest)
        BY <1>1, <1>4
    <2>2. CASE \E q \in puts : q.n = sent /\ q.columns = ref
        <3>1. PICK q \in puts : q.n = sent /\ q.columns = ref
            BY <2>2
        <3>2. CASE q = p
            BY <1>3, <2>1, <3>1, <3>2
        <3>3. CASE q # p
            BY <1>1, <3>1, <3>3
        <3> QED BY <3>2, <3>3
    <2>3. CASE puts # {} => latest = sent
        <3>1. latest = sent
            BY <2>3
        <3> QED BY <1>2, <2>1, <3>1
    <2> QED BY <1>1, <2>2, <2>3 DEF ColumnsInv, LastIsSaved
<1> QED BY <1>5, <1>6, <1>7 DEF ColumnsInv

(* The backend refuses a layout of the page only for the column that is gone. *)
LEMMA RefuseStep ==
    ASSUME ColumnsInv, NEW p \in puts, Columns!Refuse(p)
    PROVE  ColumnsInv'
<1>1. /\ puts' = puts \ {p} /\ ~Columns!Accepted(p.columns)
      /\ UNCHANGED <<ref, load, timers, stored, visit, sent, wanted, edited, raced, latest, lost>>
    BY DEF Columns!Refuse, Columns!hook, Columns!history
<1>2. GoneKey \in Columns!KeysOf(p.columns)
    <2>1. IsLayout(p.columns)
        BY DEF ColumnsInv, ColumnsTyped
    <2> QED BY <1>1, <2>1 DEF IsLayout, Columns!IsComplete, Columns!Accepted
<1>3. ColumnsTyped'
    BY <1>1 DEF ColumnsInv, ColumnsTyped
<1>4. LoadsAlone'
    BY <1>1 DEF ColumnsInv, LoadsAlone
<1>5. LastIsSaved'
    <2> SUFFICES ASSUME load.at = "none", ~raced, ~lost, timers = {},
                        GoneKey \notin Columns!KeysOf(ref)
                 PROVE  \/ \E q \in puts' : q.n = sent /\ q.columns = ref
                        \/ /\ Columns!Columns(stored) = ref
                           /\ puts' # {} => latest = sent
        BY <1>1 DEF ColumnsInv, LastIsSaved
    <2>1. CASE \E q \in puts : q.n = sent /\ q.columns = ref
        <3>1. PICK q \in puts : q.n = sent /\ q.columns = ref
            BY <2>1
        <3>2. q # p
            BY <1>2, <3>1
        <3> QED BY <1>1, <3>1, <3>2
    <2>2. CASE Columns!Columns(stored) = ref /\ (puts # {} => latest = sent)
        BY <1>1, <2>2
    <2> QED BY <2>1, <2>2 DEF ColumnsInv, LastIsSaved
<1> QED BY <1>3, <1>4, <1>5 DEF ColumnsInv

LEMMA SaveFailsStep ==
    ASSUME ColumnsInv, NEW p \in puts, Columns!SaveFails(p)
    PROVE  ColumnsInv'
<1>1. /\ puts' = puts \ {p} /\ lost' = TRUE
      /\ UNCHANGED <<ref, load, timers, stored, visit, sent, wanted, edited, raced, latest>>
    BY DEF Columns!SaveFails, Columns!hook
<1>2. ColumnsTyped'
    BY <1>1 DEF ColumnsInv, ColumnsTyped
<1>3. LoadsAlone' /\ LastIsSaved'
    BY <1>1 DEF ColumnsInv, LoadsAlone, LastIsSaved
<1> QED BY <1>2, <1>3 DEF ColumnsInv

(* The user goes, with saves and timers left behind, and comes back. *)
LEMMA VisitSteps ==
    ASSUME ColumnsInv, Columns!Leave \/ Columns!Return
    PROVE  ColumnsInv'
<1>1. CASE Columns!Leave
    <2>1. /\ load' = Columns!NoLoad /\ load'.at = "none" /\ load'.value = Default
          /\ lost' = (lost \/ load # Columns!NoLoad)
          /\ UNCHANGED <<ref, timers, puts, stored, visit, sent, wanted, edited, raced, latest>>
        BY <1>1 DEF Columns!Leave, Columns!NoLoad
    <2>2. ColumnsTyped'
        BY <2>1, DefaultIsLayout DEF ColumnsInv, ColumnsTyped
    <2>3. LoadsAlone' /\ LastIsSaved'
        BY <2>1 DEF ColumnsInv, ColumnsTyped, LoadsAlone, LastIsSaved
    <2> QED BY <2>2, <2>3 DEF ColumnsInv
<1>2. CASE Columns!Return
    <2>1. /\ load'.at = "asked" /\ load'.value = Default /\ load' # Columns!NoLoad
          /\ ref' = Default /\ wanted' = Default /\ edited' = FALSE /\ visit' = visit + 1
          /\ UNCHANGED <<timers, puts, stored, sent, raced, latest, lost>>
        BY <1>2 DEF Columns!Return, Columns!NoLoad
    <2>2. visit' \in Nat
        BY <2>1 DEF ColumnsInv, ColumnsTyped
    <2>3. load'.at \in {"none", "asked", "read"} /\ ~(load'.at = "none")
        BY <2>1
    <2>4. ColumnsTyped'
        BY <2>1, <2>2, <2>3, DefaultIsLayout DEF ColumnsInv, ColumnsTyped
    <2>5. LoadsAlone' /\ LastIsSaved'
        BY <2>1 DEF LoadsAlone, LastIsSaved
    <2> QED BY <2>4, <2>5 DEF ColumnsInv
<1> QED BY <1>1, <1>2

LEMMA ColumnsStep == ColumnsInv /\ [Columns!Next]_columnVars => ColumnsInv'
<1> SUFFICES ASSUME ColumnsInv, [Columns!Next]_columnVars PROVE ColumnsInv'
    OBVIOUS
<1>1. CASE UNCHANGED columnVars
    BY <1>1 DEF columnVars, ColumnsInv, ColumnsTyped, LoadsAlone, LastIsSaved
<1>2. CASE Columns!Next
    BY <1>2, LoadSteps, EditSteps, TimerStep, StoreStep, RefuseStep, SaveFailsStep, VisitSteps
    DEF Columns!Next
<1> QED BY <1>1, <1>2

LEMMA ColumnsHold ==
    ASSUME ColumnsInv
    PROVE  Columns!EveryColumnOnce /\ Columns!EditsAreSaved
<1>1. Columns!EveryColumnOnce
    BY DEF ColumnsInv, ColumnsTyped, IsLayout, Columns!EveryColumnOnce
<1>2. ASSUME Columns!Quiet, ~raced, ~lost
      PROVE  /\ rendered = wanted
             /\ Columns!Columns(stored) = wanted \/ GoneKey \in Columns!KeysOf(wanted)
    BY <1>2 DEF Columns!Quiet, Columns!NoLoad, ColumnsInv, ColumnsTyped, LastIsSaved
<1> QED BY <1>1, <1>2 DEF Columns!EditsAreSaved

--------------------------------------------------------------------------------
(* Theorems. *)

(* A step of the behaviour is one of its component, or none. *)
LEMMA PartsApart ==
    ASSUME [PagesNext]_<<part, accentVars, columnVars, bellVars>>
    PROVE  /\ part' = part
           /\ part = "accent" => [Accent!Next]_accentVars
           /\ part = "columns" => [Columns!Next]_columnVars
           /\ part = "bell" => [Bell!Next]_bellVars
<1>1. CASE UNCHANGED <<part, accentVars, columnVars, bellVars>>
    BY <1>1
<1>2. CASE PagesNext
    BY <1>2 DEF PagesNext
<1> QED BY <1>1, <1>2

(* When all is answered and nothing failed the page shows the accent that is
   stored, unless the last save joined the first load, and the one stored is the last
   chosen unless the backend stored an older one after it (useAccentSync and the
   settings page): for any number of choices and presets, and any order of
   answers. *)
THEOREM AccentSettles == PagesSpec => []ChoiceSettles
<1> DEFINE Inv == part = "accent" => AccentInv
<1>1. PagesInit => Inv
    BY AccentStarts DEF PagesInit
<1>2. Inv /\ [PagesNext]_<<part, accentVars, columnVars, bellVars>> => Inv'
    BY PartsApart, AccentStep
<1>3. Inv => ChoiceSettles
    BY AccentSettled DEF ChoiceSettles
<1> QED BY <1>1, <1>2, <1>3, PTL DEF PagesSpec

(* Whatever layout was saved, and however it is edited, the table has each column
   once and no key twice; besides the columns it may have one that is gone
   (useColumnPreferences.ts: mergeWithDefaults; preferences.rs: columns). *)
THEOREM ColumnsComplete == PagesSpec => []EveryColumnOnce
<1> DEFINE Inv == part = "columns" => ColumnsInv
<1>1. PagesInit => Inv
    BY ColumnsStart DEF PagesInit
<1>2. Inv /\ [PagesNext]_<<part, accentVars, columnVars, bellVars>> => Inv'
    BY PartsApart, ColumnsStep
<1>3. Inv => EveryColumnOnce
    BY ColumnsHold DEF EveryColumnOnce
<1> QED BY <1>1, <1>2, <1>3, PTL DEF PagesSpec

(* When all is answered, page and backend have what the edits asked for, or the page
   has a column that is gone and the backend refuses to save it, unless a load
   crossed an edit, a call failed or saves changed their order
   (useColumnPreferences.ts: columnsRef, save; preferences.rs: set_columns). *)
THEOREM ColumnEditsSaved == PagesSpec => []EditsAreSaved
<1> DEFINE Inv == part = "columns" => ColumnsInv
<1>1. PagesInit => Inv
    BY ColumnsStart DEF PagesInit
<1>2. Inv /\ [PagesNext]_<<part, accentVars, columnVars, bellVars>> => Inv'
    BY PartsApart, ColumnsStep
<1>3. Inv => EditsAreSaved
    BY ColumnsHold DEF EditsAreSaved
<1> QED BY <1>1, <1>2, <1>3, PTL DEF PagesSpec

(* When nothing is under way the bell lists what the backend lists, unless that
   changed behind its back (NotificationBell.tsx: onMutate, onError, onSettled). *)
THEOREM BellLists == PagesSpec => []ListIsServers
<1> DEFINE Inv == part = "bell" => BellInv
<1>1. PagesInit => Inv
    BY BellStarts DEF PagesInit
<1>2. Inv /\ [PagesNext]_<<part, accentVars, columnVars, bellVars>> => Inv'
    BY PartsApart, BellStep
<1>3. Inv => ListIsServers
    BY BellSettled DEF ListIsServers
<1> QED BY <1>1, <1>2, <1>3, PTL DEF PagesSpec

===============================================================================
