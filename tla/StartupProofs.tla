----------------------------- MODULE StartupProofs -----------------------------
(***************************************************************************)
(* What Startup promises for any number of processes and stagings, and any *)
(* timing of the probes, in three invariants:                              *)
(*   LeaseInv   a connection that works holds the lease, and who lost it   *)
(*              is no later than its clock says;                           *)
(*   MakerInv   who made a staging database has done with its start;       *)
(*   ChainInv   one process migrates, and where it is in the script tells  *)
(*              what is committed and what its transaction holds.          *)
(***************************************************************************)
EXTENDS Startup, TLAPS

Stages == {"new", "migrating", "leasing", "listing", "reclaiming", "serving",
           "draining", "failed", "gone"}

(* Without the lease nobody answers the probe, but an answer may be on its way: what
   is served without it is counted by the time of the probe that was answered, of
   the wait for the next, and of the next. *)
InTime(p) ==
    /\ ~Serving(p) => probing[p] = "no" /\ elapsed[p] = 0 /\ overtime[p] = 0
    /\ link[p] = "ok" => overtime[p] = 0
    /\ probing[p] = "answered" => elapsed[p] <= Patience /\ overtime[p] <= elapsed[p]
    /\ probing[p] = "no" => elapsed[p] <= Interval /\ overtime[p] <= Patience + elapsed[p]
    /\ probing[p] = "sent" =>
        elapsed[p] <= Patience /\ overtime[p] <= Patience + Interval + elapsed[p]

LeaseTyped ==
    /\ phase \in [Procs -> Stages]
    /\ lease \in Procs \cup {NoProc}
    /\ link \in [Procs -> {"none", "ok", "reset", "hung"}]
    /\ probing \in [Procs -> {"no", "sent", "answered"}]
    /\ elapsed \in [Procs -> Nat]
    /\ overtime \in [Procs -> Nat]

LeaseInv ==
    /\ LeaseTyped
    /\ \A p \in Procs : link[p] = "ok" => lease = p
    /\ \A p \in Procs : InTime(p)

--------------------------------------------------------------------------------
(* A process that ends keeps no count, and takes the lease from nobody else. *)
LEMMA EndsKeepsLease ==
    ASSUME LeaseInv, NEW p \in Procs, Ends(p)
    PROVE  LeaseInv'
<1>1. LeaseTyped'
    <2>1. lease' \in Procs \cup {NoProc}
        BY DEF LeaseInv, LeaseTyped, Ends
    <2>2. phase' \in [Procs -> Stages] /\ link' \in [Procs -> {"none", "ok", "reset", "hung"}]
        BY DEF LeaseInv, LeaseTyped, Stages, Ends
    <2>3. /\ probing' \in [Procs -> {"no", "sent", "answered"}]
          /\ elapsed' \in [Procs -> Nat]
          /\ overtime' \in [Procs -> Nat]
        BY DEF LeaseInv, LeaseTyped, Ends
    <2> QED
        BY <2>1, <2>2, <2>3 DEF LeaseTyped
<1>2. \A q \in Procs : link'[q] = "ok" => lease' = q
    BY NoProcIsNobody DEF LeaseInv, LeaseTyped, Ends
<1>3. ASSUME NEW q \in Procs
      PROVE  InTime(q)'
    <2>1. CASE q = p
        BY <2>1, TimesAreNatural DEF LeaseInv, LeaseTyped, Ends, InTime, Serving
    <2>2. CASE q # p
        BY <2>2 DEF LeaseInv, LeaseTyped, Ends, InTime, Serving
    <2> QED
        BY <2>1, <2>2
<1> QED
    BY <1>1, <1>2, <1>3 DEF LeaseInv

(* The steps of the start do not touch the clocks. *)
LEMMA StartKeepsLease ==
    ASSUME LeaseInv, NEW p \in Procs,
           Migrate(p) \/ Execute(p) \/ Unlock(p) \/ TryLease(p) \/ ListStagings(p)
              \/ Serve(p) \/ Signal(p)
    PROVE  LeaseInv'
<1>1. LeaseTyped' /\ UNCHANGED monitor
    <2>1. phase' \in [Procs -> Stages]
        BY DEF LeaseInv, LeaseTyped, Stages, Migrate, Execute, Unlock, TryLease, ListStagings,
               Serve, Signal, Proceeds
    <2>2. lease' \in Procs \cup {NoProc} /\ link' \in [Procs -> {"none", "ok", "reset", "hung"}]
        <3>1. CASE TryLease(p)
            BY <3>1 DEF LeaseInv, LeaseTyped, TryLease, owning
        <3>2. CASE ~TryLease(p)
            BY <3>2 DEF LeaseInv, LeaseTyped, Migrate, Execute, Unlock, ListStagings,
                        Serve, Signal, owning
        <3> QED
            BY <3>1, <3>2
    <2>3. UNCHANGED monitor
        BY DEF Migrate, Execute, Unlock, TryLease, ListStagings, Serve, Signal
    <2> QED
        BY <2>1, <2>2, <2>3 DEF LeaseInv, LeaseTyped, monitor
<1>2. \A q \in Procs : link'[q] = "ok" => lease' = q
    <2>1. CASE TryLease(p)
        BY <2>1, NoProcIsNobody DEF LeaseInv, LeaseTyped, TryLease, owning
    <2>2. CASE ~TryLease(p)
        <3>1. UNCHANGED owning
            BY <2>2 DEF Migrate, Execute, Unlock, ListStagings, Serve, Signal
        <3> QED
            BY <3>1 DEF LeaseInv, owning
    <2> QED
        BY <2>1, <2>2
<1>3. ASSUME NEW q \in Procs
      PROVE  InTime(q)'
    <2>1. Serving(q) => Serving(q)'
        BY DEF LeaseInv, LeaseTyped, Serving, Migrate, Execute, Unlock, TryLease,
               ListStagings, Serve, Signal, Proceeds
    <2>2. link'[q] = "ok" => overtime[q] = 0
        <3>1. CASE TryLease(p) /\ q = p
            BY <3>1 DEF LeaseInv, LeaseTyped, InTime, TryLease, Proceeds, Serving
        <3>2. CASE ~(TryLease(p) /\ q = p)
            <4>1. link'[q] = link[q]
                BY <3>2 DEF LeaseInv, LeaseTyped, TryLease, Migrate, Execute, Unlock,
                            ListStagings, Serve, Signal, owning
            <4> QED
                BY <4>1 DEF LeaseInv, InTime
        <3> QED
            BY <3>1, <3>2
    <2> QED
        BY <1>1, <2>1, <2>2 DEF LeaseInv, InTime, monitor
<1> QED
    BY <1>1, <1>2, <1>3 DEF LeaseInv

LEMMA WatchKeepsLease ==
    ASSUME LeaseInv, NEW p \in Procs,
           Probe(p) \/ ServerAnswers(p) \/ ProbeAnswered(p) \/ Breaks(p)
    PROVE  LeaseInv'
<1>1. LeaseTyped' /\ UNCHANGED phase
    <2>1. CASE Probe(p)
        BY <2>1 DEF LeaseInv, LeaseTyped, Probe, owning
    <2>2. CASE ProbeAnswered(p)
        BY <2>2 DEF LeaseInv, LeaseTyped, ProbeAnswered, owning
    <2>4. CASE ServerAnswers(p)
        BY <2>4 DEF LeaseInv, LeaseTyped, ServerAnswers, owning
    <2>3. CASE Breaks(p)
        <3>1. lease' \in Procs \cup {NoProc}
            BY <2>3 DEF Breaks
        <3>2. link' \in [Procs -> {"none", "ok", "reset", "hung"}]
            BY <2>3 DEF Breaks, LeaseInv, LeaseTyped
        <3> QED
            BY <2>3, <3>1, <3>2 DEF LeaseInv, LeaseTyped, Breaks, monitor
    <2> QED
        BY <2>1, <2>2, <2>3, <2>4
<1>2. \A q \in Procs : link'[q] = "ok" => lease' = q
    BY DEF LeaseInv, LeaseTyped, Probe, ServerAnswers, ProbeAnswered, Breaks, owning
<1>3. ASSUME NEW q \in Procs
      PROVE  InTime(q)'
    <2>1. CASE Probe(p)
        BY <2>1, TimesAreNatural
           DEF LeaseInv, LeaseTyped, InTime, Probe, Watched, Serving, owning
    <2>2. CASE ProbeAnswered(p)
        BY <2>2, TimesAreNatural DEF LeaseInv, LeaseTyped, InTime, ProbeAnswered, Serving, owning
    <2>3. CASE Breaks(p)
        BY <2>3 DEF LeaseInv, LeaseTyped, InTime, Breaks, Serving, monitor
    <2>4. CASE ServerAnswers(p)
        BY <2>4, TimesAreNatural DEF LeaseInv, LeaseTyped, InTime, ServerAnswers, Serving, owning
    <2> QED
        BY <2>1, <2>2, <2>3, <2>4
<1> QED
    BY <1>1, <1>2, <1>3 DEF LeaseInv

(* A tick that counts for who serves without the lease counts for its clock. *)
LEMMA TickKeepsLease ==
    ASSUME LeaseInv, Tick
    PROVE  LeaseInv'
<1>1. LeaseTyped' /\ UNCHANGED <<phase, lease, link, probing>>
    BY DEF LeaseInv, LeaseTyped, Tick, owning
<1>2. ASSUME NEW q \in Procs
      PROVE  InTime(q)'
    <2>1. InTime(q) /\ Punctual(q)
        BY DEF LeaseInv, Tick
    <2>2. elapsed'[q] = (IF Serving(q) THEN elapsed[q] + 1 ELSE elapsed[q])
        BY DEF Tick, Watched
    <2>3. overtime'[q] = (IF Serving(q) /\ lease # q THEN overtime[q] + 1 ELSE overtime[q])
        BY DEF Tick
    <2>4. link[q] = "ok" => lease = q
        BY DEF LeaseInv
    <2>5. elapsed[q] \in Nat /\ overtime[q] \in Nat /\ probing[q] \in {"no", "sent", "answered"}
        BY DEF LeaseInv, LeaseTyped
    <2>6. Serving(q)' = Serving(q)
        BY <1>1 DEF Serving
    <2>7. CASE Serving(q)
        BY <1>1, <2>1, <2>2, <2>3, <2>4, <2>5, <2>6, <2>7, TimesAreNatural
           DEF InTime, Punctual, Watched
    <2>8. CASE ~Serving(q)
        BY <1>1, <2>1, <2>2, <2>3, <2>6, <2>8 DEF InTime
    <2> QED
        BY <2>7, <2>8
<1> QED
    BY <1>1, <1>2 DEF LeaseInv

THEOREM LeaseInvariant == StartupSpec => []LeaseInv
<1>1. StartupInit => LeaseInv
    <2> SUFFICES ASSUME StartupInit
                 PROVE  LeaseInv
        OBVIOUS
    <2>1. LeaseTyped
        BY DEF StartupInit, LeaseTyped, Stages
    <2>2. ASSUME NEW p \in Procs
          PROVE  link[p] = "none" /\ InTime(p)
        <3>1. /\ phase[p] = "new" /\ link[p] = "none" /\ probing[p] = "no"
              /\ elapsed[p] = 0 /\ overtime[p] = 0
            BY DEF StartupInit
        <3> QED
            BY <3>1, TimesAreNatural DEF InTime, Serving
    <2> QED
        BY <2>1, <2>2 DEF LeaseInv
<1>2. LeaseInv /\ [StartupNext]_startupVars => LeaseInv'
    <2> SUFFICES ASSUME LeaseInv, [StartupNext]_startupVars
                 PROVE  LeaseInv'
        OBVIOUS
    <2>1. ASSUME NEW p \in Procs,
                 Migrate(p) \/ Execute(p) \/ Unlock(p) \/ TryLease(p)
                    \/ ListStagings(p) \/ Serve(p) \/ Signal(p)
          PROVE  LeaseInv'
        BY <2>1, StartKeepsLease
    <2>2. ASSUME NEW p \in Procs, DrainEnds(p) \/ ProbeFails(p) \/ Dies(p)
          PROVE  LeaseInv'
        BY <2>2, EndsKeepsLease DEF DrainEnds, ProbeFails, Dies
    <2>3. ASSUME NEW p \in Procs, Probe(p) \/ ServerAnswers(p) \/ ProbeAnswered(p) \/ Breaks(p)
          PROVE  LeaseInv'
        BY <2>3, WatchKeepsLease
    <2>4. ASSUME NEW p \in Procs, NEW s, Stage(p, s) \/ Unstage(p, s) \/ ReclaimStaging(p, s)
          PROVE  LeaseInv'
        BY <2>4 DEF Stage, Unstage, ReclaimStaging, LeaseInv, LeaseTyped, InTime, Serving,
                    owning, monitor
    <2>5. CASE ServerNotices
        BY <2>5 DEF ServerNotices, LeaseInv, LeaseTyped, InTime, Serving, monitor
    <2>6. CASE Tick
        BY <2>6, TickKeepsLease
    <2>7. CASE UNCHANGED startupVars
        BY <2>7 DEF startupVars, owning, monitor, LeaseInv, LeaseTyped, InTime, Serving
    <2> QED
        BY <2>1, <2>2, <2>3, <2>4, <2>5, <2>6, <2>7 DEF StartupNext
<1> QED
    BY <1>1, <1>2, PTL DEF StartupSpec

(* Who has lost the lease serves for no more than an interval and two timeouts,
   draining or not, whether the connection fails or hangs and wherever between
   two probes it happens, an answer on its way included: lease_monitor is awaited
   for as long as it serves. *)
THEOREM LeaseLossEnds == StartupSpec => []ServesBrieflyWithoutLease
<1>1. ASSUME LeaseInv
      PROVE  ServesBrieflyWithoutLease
    <2> SUFFICES ASSUME NEW p \in Procs
                 PROVE  overtime[p] <= Patience + Interval + Patience
        BY DEF ServesBrieflyWithoutLease
    <2>1. /\ elapsed[p] \in Nat /\ overtime[p] \in Nat /\ InTime(p)
          /\ probing[p] \in {"no", "sent", "answered"}
        BY <1>1 DEF LeaseInv, LeaseTyped
    <2> QED
        BY <2>1, TimesAreNatural DEF InTime
<1> QED
    BY <1>1, LeaseInvariant, PTL

--------------------------------------------------------------------------------
(* A process makes a staging database only when it has done with its start. *)
MakerInv ==
    /\ phase \in [Procs -> Stages]
    /\ staging \subseteq Stagings
    /\ \A s \in Stagings : maker[s] \in Procs =>
            phase[maker[s]] \in {"serving", "draining", "gone"}

THEOREM MakerInvariant == StartupSpec => []MakerInv
<1>1. StartupInit => MakerInv
    BY NoProcIsNobody DEF StartupInit, MakerInv, Stages
<1>2. MakerInv /\ [StartupNext]_startupVars => MakerInv'
    <2> SUFFICES ASSUME MakerInv, [StartupNext]_startupVars
                 PROVE  MakerInv'
        OBVIOUS
    <2> USE DEF MakerInv, Stages
    <2>1. ASSUME NEW p \in Procs, Migrate(p) \/ Execute(p) \/ Unlock(p)
          PROVE  MakerInv'
        BY <2>1 DEF Migrate, Execute, Unlock, Proceeds, reclaim
    <2>2. ASSUME NEW p \in Procs,
                 TryLease(p) \/ ListStagings(p) \/ Serve(p) \/ Signal(p)
          PROVE  MakerInv'
        BY <2>2 DEF TryLease, ListStagings, Serve, Signal, Proceeds, reclaim
    <2>3. ASSUME NEW p \in Procs, DrainEnds(p) \/ ProbeFails(p) \/ Dies(p)
          PROVE  MakerInv'
        BY <2>3 DEF DrainEnds, ProbeFails, Dies, Ends
    <2>4. ASSUME NEW p \in Procs, Probe(p) \/ ServerAnswers(p) \/ ProbeAnswered(p) \/ Breaks(p)
          PROVE  MakerInv'
        BY <2>4 DEF Probe, ServerAnswers, ProbeAnswered, Breaks, reclaim
    <2>5. ASSUME NEW p \in Procs, NEW s \in Stagings, Stage(p, s)
          PROVE  MakerInv'
        BY <2>5 DEF Stage, Serving
    <2>6. ASSUME NEW p \in Procs, NEW s, Unstage(p, s) \/ ReclaimStaging(p, s)
          PROVE  MakerInv'
        BY <2>6 DEF Unstage, ReclaimStaging
    <2>7. CASE ServerNotices \/ Tick \/ UNCHANGED startupVars
        BY <2>7 DEF ServerNotices, Tick, startupVars, reclaim
    <2> QED
        BY <2>1, <2>2, <2>3, <2>4, <2>5, <2>6, <2>7 DEF StartupNext
<1> QED
    BY <1>1, <1>2, PTL DEF StartupSpec

(* A start cannot drop the staging database of a restore of the owner: what it asks
   of the database goes over the connection of its own lease, so it is the owner,
   and it makes none before it serves. *)
THEOREM OwnerKeepsStagings == StartupSpec => OwnersStagingKept
<1>1. LeaseInv /\ MakerInv /\ [StartupNext]_startupVars =>
        [\A s \in staging \ staging' :
            lease # NoProc /\ maker[s] = lease => UNCHANGED todo]_startupVars
    <2> SUFFICES ASSUME LeaseInv, MakerInv, StartupNext,
                        NEW s \in staging \ staging', lease # NoProc, maker[s] = lease
                 PROVE  UNCHANGED todo
        OBVIOUS
    <2>1. ASSUME NEW p \in Procs, NEW t \in todo[p], ReclaimStaging(p, t)
          PROVE  FALSE
        <3>1. s = t /\ phase[p] = "reclaiming" /\ lease = p
            BY <2>1 DEF ReclaimStaging, OnLeaseSession, LeaseInv
        <3> QED
            BY <3>1 DEF MakerInv
    <2>2. ASSUME NEW p \in Procs, NEW t, Stage(p, t) \/ Unstage(p, t)
          PROVE  UNCHANGED todo
        BY <2>2 DEF Stage, Unstage
    <2>3. ASSUME NEW p \in Procs,
                 Migrate(p) \/ Execute(p) \/ Unlock(p) \/ TryLease(p)
                    \/ ListStagings(p) \/ Serve(p) \/ Signal(p) \/ DrainEnds(p)
                    \/ Probe(p) \/ ServerAnswers(p) \/ ProbeAnswered(p) \/ ProbeFails(p)
                    \/ Dies(p) \/ Breaks(p)
          PROVE  FALSE
        BY <2>3 DEF Migrate, Execute, Unlock, TryLease, ListStagings, Serve, Signal,
                    DrainEnds, Probe, ServerAnswers, ProbeAnswered, ProbeFails, Dies,
                    Breaks, Ends, reclaim
    <2>4. CASE ServerNotices \/ Tick
        BY <2>4 DEF ServerNotices, Tick, reclaim
    <2> QED
        BY <2>1, <2>2, <2>3, <2>4 DEF StartupNext
<1> QED
    BY <1>1, LeaseInvariant, MakerInvariant, PTL DEF StartupSpec, OwnersStagingKept

--------------------------------------------------------------------------------
(* The script and what a batch of it does. *)

LEMMA ScriptLines ==
    /\ DOMAIN Script = 1 .. 12 /\ Len(Script) = 12
    /\ Script[1] = Line("begin") /\ Script[2] = Revision(1) /\ Script[3] = Revision(2)
    /\ Script[4] = Line("commit") /\ Script[5] = Revision(3) /\ Script[6] = Revision(4)
    /\ Script[7] = Line("commit") /\ Script[8] = Line("add") /\ Script[9] = Line("begin")
    /\ Script[10] = Revision(5) /\ Script[11] = Revision(6) /\ Script[12] = Line("commit")
BY DEF Script

LEMMA TransactionLines ==
    \A i \in 1 .. 12 : IsTransactionLine(i) <=> i \in {1, 4, 7, 9, 12}
<1>1. ASSUME NEW i \in {1, 9}
      PROVE  IsTransactionLine(i)
    BY ScriptLines DEF IsTransactionLine, Line
<1>2. ASSUME NEW i \in {4, 7, 12}
      PROVE  IsTransactionLine(i)
    BY ScriptLines DEF IsTransactionLine, Line
<1>3. ASSUME NEW i \in {2, 3, 5, 6, 8, 10, 11}
      PROVE  ~IsTransactionLine(i)
    BY ScriptLines DEF IsTransactionLine, Line, Revision
<1> QED
    BY <1>1, <1>2, <1>3

LEMMA BatchEnds ==
    ASSUME NEW i \in 1 .. 12
    PROVE  BatchEnd(i) = IF i \in {2, 5, 10} THEN i + 1 ELSE i
<1> DEFINE Closes(j) == /\ j = 12 \/ IsTransactionLine(j + 1)
                        /\ \A k \in i .. j : ~IsTransactionLine(k)
<1>1. CASE i \in {1, 4, 7, 9, 12}
    BY <1>1, TransactionLines DEF BatchEnd
<1>2. CASE i \in {2, 5, 10}
    <2>1. Closes(i + 1) /\ i + 1 \in i .. 12
        BY <1>2, TransactionLines
    <2>2. \A j \in i .. 12 : Closes(j) => j = i + 1
        BY <1>2, TransactionLines
    <2>3. BatchEnd(i) = CHOOSE j \in i .. 12 : Closes(j)
        BY <1>2, TransactionLines, ScriptLines DEF BatchEnd
    <2> QED
        BY <1>2, <2>1, <2>2, <2>3
<1>3. CASE i \in {3, 6, 8, 11}
    <2>1. Closes(i) /\ i \in i .. 12
        BY <1>3, TransactionLines
    <2>2. \A j \in i .. 12 : Closes(j) => j = i
        BY <1>3, TransactionLines
    <2>3. BatchEnd(i) = CHOOSE j \in i .. 12 : Closes(j)
        BY <1>3, TransactionLines, ScriptLines DEF BatchEnd
    <2> QED
        BY <1>3, <2>1, <2>2, <2>3
<1> QED
    BY <1>1, <1>2, <1>3

(* A recursive function over two lines is what it says, because such a function
   exists. *)
LEMMA RanOne ==
    ASSUME NEW base, NEW i \in Nat
    PROVE  Ran(base, i, i) = Apply(base, Script[i])
<1> DEFINE F(g) == [k \in (i - 1) .. i |->
                        IF k < i THEN base ELSE Apply(g[k - 1], Script[k])]
           db == CHOOSE g : g = F(g)
           w == [k \in (i - 1) .. i |-> IF k < i THEN base ELSE Apply(base, Script[i])]
<1>1. Ran(base, i, i) = db[i]
    BY DEF Ran
<1>2. w = F(w)
    <2>1. ASSUME NEW k \in (i - 1) .. i
          PROVE  w[k] = F(w)[k]
        <3>1. CASE k = i
            <4>1. w[i - 1] = base
                OBVIOUS
            <4> QED
                BY <3>1, <4>1
        <3>2. CASE k < i
            BY <3>2
        <3> QED
            BY <3>1, <3>2
    <2> QED
        BY <2>1
<1>3. db = F(db)
    <2> HIDE DEF F, w
    <2> QED
        BY <1>2
<1>4. db[i - 1] = base
    <2>1. F(db)[i - 1] = base
        OBVIOUS
    <2> QED
        BY <1>3, <2>1
<1>5. F(db)[i] = Apply(db[i - 1], Script[i])
    OBVIOUS
<1> QED
    BY <1>1, <1>3, <1>4, <1>5

LEMMA RanTwo ==
    ASSUME NEW base, NEW i \in Nat
    PROVE  Ran(base, i, i + 1) = Apply(Apply(base, Script[i]), Script[i + 1])
<1> DEFINE F(g) == [k \in (i - 1) .. (i + 1) |->
                        IF k < i THEN base ELSE Apply(g[k - 1], Script[k])]
           db == CHOOSE g : g = F(g)
           w == [k \in (i - 1) .. (i + 1) |->
                    IF k < i THEN base
                    ELSE IF k = i THEN Apply(base, Script[i])
                    ELSE Apply(Apply(base, Script[i]), Script[i + 1])]
<1>1. Ran(base, i, i + 1) = db[i + 1]
    BY DEF Ran
<1>2. w = F(w)
    <2>1. w[i - 1] = base /\ w[i] = Apply(base, Script[i])
        OBVIOUS
    <2>2. ASSUME NEW k \in (i - 1) .. (i + 1)
          PROVE  w[k] = F(w)[k]
        <3>1. CASE k = i + 1
            BY <2>1, <3>1
        <3>2. CASE k = i
            BY <2>1, <3>2
        <3>3. CASE k < i
            BY <3>3
        <3> QED
            BY <3>1, <3>2, <3>3
    <2> QED
        BY <2>2
<1>3. db = F(db)
    <2> HIDE DEF F, w
    <2> QED
        BY <1>2
<1>4. /\ F(db)[i - 1] = base
      /\ F(db)[i] = Apply(db[i - 1], Script[i])
      /\ F(db)[i + 1] = Apply(db[i], Script[i + 1])
    OBVIOUS
<1>5. db[i - 1] = base /\ db[i] = Apply(base, Script[i])
    BY <1>3, <1>4
<1> QED
    BY <1>1, <1>3, <1>4, <1>5

Dbs == [version : 0 .. HEAD, added : BOOLEAN, ok : BOOLEAN]

(* No revision failed, and the enum value came between the fourth and the fifth. *)
Sound(db) ==
    /\ db \in Dbs
    /\ db.ok
    /\ db.version < 4 => ~db.added
    /\ db.version > 4 => db.added

LEMMA RevisionApplied ==
    ASSUME NEW db \in Dbs, NEW n \in 1 .. HEAD
    PROVE  LET new == Apply(db, Revision(n))
           IN  /\ new \in Dbs
               /\ new.version = n
               /\ new.added = db.added
               /\ new.ok <=> db.ok /\ db.version = n - 1 /\ (n = Uses => schema.added)
<1> DEFINE good == db.ok /\ db.version = n - 1 /\ (n = Uses => schema.added)
<1>1. good \in BOOLEAN /\ n \in 0 .. HEAD
    BY DEF Dbs, HEAD
<1>2. PICK v \in 0 .. HEAD, a \in BOOLEAN, o \in BOOLEAN :
        db = [version |-> v, added |-> a, ok |-> o]
    BY DEF Dbs
<1>3. PICK g \in BOOLEAN : g = good
    BY <1>1
<1>4. Apply(db, Revision(n)) = [[db EXCEPT !.version = n] EXCEPT !.ok = g]
    BY <1>3 DEF Apply, Revision
<1>5. [db EXCEPT !.version = n] = [version |-> n, added |-> a, ok |-> o]
    BY <1>2
<1>6. Apply(db, Revision(n)) = [version |-> n, added |-> a, ok |-> g]
    BY <1>4, <1>5
<1>7. [version |-> n, added |-> a, ok |-> g] \in Dbs
    BY <1>1 DEF Dbs
<1>8. db.added = a
    BY <1>2
<1>9. Apply(db, Revision(n)).ok <=> good
    <2>1. Apply(db, Revision(n)).ok = g
        BY <1>6
    <2> QED
        BY <1>3, <2>1
<1> QED
    BY <1>6, <1>7, <1>8, <1>9

LEMMA ValueAdded ==
    ASSUME NEW db \in Dbs
    PROVE  LET new == Apply(db, Line("add"))
           IN  new \in Dbs /\ new.version = db.version /\ new.added /\ new.ok = db.ok
<1>0. PICK yes \in BOOLEAN : yes
    OBVIOUS
<1>1. PICK v \in 0 .. HEAD, a \in BOOLEAN, o \in BOOLEAN :
        db = [version |-> v, added |-> a, ok |-> o]
    BY DEF Dbs
<1>2. Apply(db, Line("add")) = [db EXCEPT !.added = yes]
    BY <1>0 DEF Apply, Line
<1>3. [db EXCEPT !.added = yes] = [version |-> v, added |-> yes, ok |-> o]
    BY <1>1
<1> QED
    BY <1>0, <1>1, <1>2, <1>3 DEF Dbs

--------------------------------------------------------------------------------
(* What is committed, db, and what the transaction holds, t, when a migration is at
   line i of the script. *)
At(i, db, t) ==
    /\ i = 1 => t = NoTx /\ db.version = 0
    /\ i = 2 => t = db /\ db.version = 0
    /\ i = 3 => t = db /\ db.version = 1
    /\ i = 4 => Sound(t) /\ t.version = 2 /\ db.version <= 2
    /\ i = 5 => t = NoTx /\ db.version = 2
    /\ i = 6 => t = db /\ db.version = 3
    /\ i = 7 => \/ t = NoTx /\ db.version = 4
                \/ Sound(t) /\ t.version = 4 /\ db.version \in {3, 4}
    /\ i = 8 => t = NoTx /\ db.version = 4
    /\ i = 9 => t = NoTx /\ db.version = 4 /\ db.added
    /\ i = 10 => t = db /\ db.version = 4 /\ db.added
    /\ i = 11 => t = db /\ db.version = 5
    /\ i = 12 => Sound(t) /\ t.version = 6 /\ db.version \in {4, 5}
    /\ i = 13 => t = NoTx /\ db.version = 6

LEMMA NoTxIsNone == \A t : Sound(t) => t # NoTx
BY DEF Sound, NoTx

(* Every batch finds what it needs and leaves what the next one needs. *)
LEMMA BatchesFit ==
    ASSUME NEW p \in Procs, pos[p] \in 1 .. 12, Sound(schema), At(pos[p], schema, tx[p])
    PROVE  \E db, t :
            /\ Executed(p) = [schema |-> db, tx |-> t]
            /\ Sound(db)
            /\ t = NoTx \/ Sound(t)
            /\ At(BatchEnd(pos[p]) + 1, db, t)
<1> DEFINE base == IF tx[p] = NoTx THEN schema ELSE tx[p]
           after == Ran(base, pos[p], BatchEnd(pos[p]))
           op == Script[pos[p]].op
<1>1. Executed(p) =
        CASE op = "begin" -> [schema |-> schema, tx |-> base]
          [] op = "commit" -> [schema |-> base, tx |-> NoTx]
          [] op \notin {"begin", "commit"} /\ tx[p] = NoTx -> [schema |-> after, tx |-> NoTx]
          [] op \notin {"begin", "commit"} /\ tx[p] # NoTx -> [schema |-> schema, tx |-> after]
    BY DEF Executed
<1>2. base = schema \/ (base = tx[p] /\ tx[p] # NoTx)
    OBVIOUS
<1>3. CASE pos[p] \in {1, 9}
    <2>1. op = "begin" /\ tx[p] = NoTx /\ BatchEnd(pos[p]) = pos[p]
        BY <1>3, ScriptLines, BatchEnds DEF Line, At
    <2>2. Executed(p) = [schema |-> schema, tx |-> schema]
        BY <1>1, <2>1
    <2>3. At(pos[p] + 1, schema, schema)
        BY <1>3 DEF At
    <2> QED
        BY <2>1, <2>2, <2>3
<1>4. CASE pos[p] \in {4, 7, 12}
    <2>1. op = "commit" /\ BatchEnd(pos[p]) = pos[p]
        BY <1>4, ScriptLines, BatchEnds DEF Line
    <2>2. Executed(p) = [schema |-> base, tx |-> NoTx]
        BY <1>1, <2>1
    <2>3. Sound(base) /\ At(pos[p] + 1, base, NoTx)
        BY <1>4, NoTxIsNone DEF At
    <2> QED
        BY <2>1, <2>2, <2>3
<1>5. CASE pos[p] = 8
    <2>1. op = "add" /\ tx[p] = NoTx /\ BatchEnd(pos[p]) = pos[p]
        BY <1>5, ScriptLines, BatchEnds DEF Line, At
    <2>2. after = Apply(schema, Line("add"))
        BY <1>5, <2>1, RanOne, ScriptLines
    <2>3. Executed(p) = [schema |-> after, tx |-> NoTx]
        BY <1>1, <2>1
    <2>4. Sound(after) /\ At(9, after, NoTx)
        BY <1>5, <2>2, ValueAdded DEF At, Sound
    <2> QED
        BY <1>5, <2>1, <2>3, <2>4
<1>6. CASE pos[p] \in {3, 6, 11}
    <2>1. PICK n \in {2, 4, 6} :
            /\ Script[pos[p]] = Revision(n)
            /\ schema.version = n - 1
            /\ <<pos[p], n>> \in {<<3, 2>>, <<6, 4>>, <<11, 6>>}
        BY <1>6, ScriptLines DEF At
    <2>2. op = "revision" /\ tx[p] = schema /\ BatchEnd(pos[p]) = pos[p]
        BY <1>6, <2>1, BatchEnds DEF Revision, At
    <2>3. after = Apply(schema, Revision(n))
        BY <2>1, <2>2, RanOne
    <2>4. Executed(p) = [schema |-> schema, tx |-> after]
        BY <1>1, <2>2, NoTxIsNone
    <2>5. Sound(after) /\ after.version = n
        BY <2>1, <2>3, RevisionApplied DEF Sound, HEAD, Uses
    <2>6. At(pos[p] + 1, schema, after)
        BY <1>6, <2>1, <2>5 DEF At
    <2> QED
        BY <2>2, <2>4, <2>5, <2>6
<1>7. CASE pos[p] \in {2, 5, 10}
    <2>1. PICK n \in {1, 3, 5} :
            /\ Script[pos[p]] = Revision(n)
            /\ Script[pos[p] + 1] = Revision(n + 1)
            /\ schema.version = n - 1
            /\ <<pos[p], n>> \in {<<2, 1>>, <<5, 3>>, <<10, 5>>}
        BY <1>7, ScriptLines DEF At
    <2>2. op = "revision" /\ base = schema /\ BatchEnd(pos[p]) = pos[p] + 1
        BY <1>7, <2>1, BatchEnds DEF Revision, At
    <2>3. after = Apply(Apply(schema, Revision(n)), Revision(n + 1))
        BY <2>1, <2>2, RanTwo
    <2>4. n = 5 => schema.added
        BY <2>1 DEF At
    <2>5. LET one == Apply(schema, Revision(n))
          IN  one \in Dbs /\ one.ok /\ one.version = n /\ one.added = schema.added
        BY <2>1, <2>4, RevisionApplied DEF Sound, HEAD, Uses
    <2>6. after \in Dbs /\ after.ok /\ after.version = n + 1 /\ after.added = schema.added
        BY <2>1, <2>3, <2>5, RevisionApplied DEF HEAD, Uses
    <2>7. Sound(after)
        BY <2>1, <2>4, <2>6 DEF Sound
    <2>8. CASE pos[p] = 5
        <3>1. Executed(p) = [schema |-> after, tx |-> NoTx]
            BY <1>1, <2>2, <2>8 DEF At
        <3>2. At(7, after, NoTx)
            BY <2>1, <2>6, <2>8 DEF At
        <3> QED
            BY <2>2, <2>7, <2>8, <3>1, <3>2
    <2>9. CASE pos[p] # 5
        <3>1. tx[p] = schema
            BY <1>7, <2>9 DEF At
        <3>2. Executed(p) = [schema |-> schema, tx |-> after]
            BY <1>1, <2>2, <3>1, NoTxIsNone
        <3>3. At(pos[p] + 2, schema, after)
            BY <2>1, <2>6, <2>7, <2>9 DEF At
        <3> QED
            BY <2>2, <2>7, <3>2, <3>3
    <2> QED
        BY <2>8, <2>9
<1> QED
    BY <1>3, <1>4, <1>5, <1>6, <1>7

(* A start finds its place in the chain. *)
LEMMA PlaceFound ==
    ASSUME NEW v \in 1 .. (HEAD - 1)
    PROVE  (CHOOSE i \in DOMAIN Script : Script[i] = Revision(v)) =
                IF v <= 2 THEN v + 1 ELSE IF v <= 4 THEN v + 2 ELSE 10
<1> DEFINE place == IF v <= 2 THEN v + 1 ELSE IF v <= 4 THEN v + 2 ELSE 10
<1>1. v \in {1, 2, 3, 4, 5}
    BY DEF HEAD
<1>2. place \in DOMAIN Script /\ Script[place] = Revision(v)
    BY <1>1, ScriptLines
<1>3. ASSUME NEW i \in DOMAIN Script, Script[i] = Revision(v)
      PROVE  i = place
    <2>1. i \notin {1, 4, 7, 8, 9, 12}
        BY <1>3, ScriptLines DEF Line, Revision
    <2>2. i \in {2, 3, 5, 6, 10, 11}
        BY <2>1, ScriptLines
    <2> QED
        BY <1>1, <1>3, <2>2, ScriptLines DEF Revision
<1> HIDE DEF place
<1>4. (CHOOSE i \in DOMAIN Script : Script[i] = Revision(v)) = place
    BY <1>2, <1>3
<1> QED
    BY <1>4 DEF place

ChainTyped ==
    /\ phase \in [Procs -> Stages]
    /\ pos \in [Procs -> 1 .. 13]
    /\ tx \in [Procs -> Dbs]
    /\ Sound(schema)

ChainInv ==
    /\ ChainTyped
    /\ \A p \in Procs : phase[p] = "migrating" <=> locked = p
    /\ \A p \in Procs : phase[p] = "migrating" => At(pos[p], schema, tx[p])
    /\ StartsUpgrade

LEMMA NoTxTyped == NoTx \in Dbs
BY DEF NoTx, Dbs, HEAD

(* With the newest schema there is nothing left to execute. *)
LEMMA NewestIsLast ==
    ASSUME NEW i \in 1 .. 13, NEW t, At(i, schema, t), schema.version = HEAD
    PROVE  i = 13
BY DEF At, HEAD

LEMMA ChainStarts == StartupInit => ChainInv
<1> SUFFICES ASSUME StartupInit
             PROVE  ChainInv
    OBVIOUS
<1>1. ChainTyped
    <2>1. Sound(schema)
        <3>1. PICK v \in 0 .. HEAD, a \in BOOLEAN :
                /\ v < 4 => ~a
                /\ v > 4 => a
                /\ schema = [version |-> v, added |-> a, ok |-> TRUE]
            BY DEF StartupInit
        <3>2. schema \in Dbs /\ schema.ok /\ schema.version = v /\ schema.added = a
            BY <3>1 DEF Dbs
        <3> QED
            BY <3>1, <3>2 DEF Sound
    <2>2. tx \in [Procs -> Dbs]
        BY NoTxTyped DEF StartupInit
    <2> QED
        BY <2>1, <2>2 DEF StartupInit, ChainTyped, Stages
<1>2. \A p \in Procs : phase[p] = "new" /\ locked # p
    BY NoProcIsNobody DEF StartupInit
<1> QED
    BY <1>1, <1>2 DEF ChainInv, StartsUpgrade, Migrated

LEMMA MigrateKeepsChain ==
    ASSUME ChainInv, NEW p \in Procs, Migrate(p)
    PROVE  ChainInv'
<1> DEFINE v == schema.version
<1>1. v \in 0 .. HEAD /\ schema \in Dbs
    BY DEF ChainInv, ChainTyped, Sound, Dbs
<1>2. /\ UNCHANGED schema
      /\ phase[p] = "new" /\ phase' = [phase EXCEPT ![p] = "migrating"]
      /\ locked' = p
      /\ \A q \in Procs : phase[q] # "migrating"
    BY NoProcIsNobody DEF Migrate, Proceeds, LockFree, ChainInv
<1>3. DOMAIN pos = Procs /\ DOMAIN tx = Procs /\ DOMAIN phase = Procs
    BY DEF ChainInv, ChainTyped
<1>4. /\ pos'[p] \in 1 .. 13 /\ tx'[p] \in Dbs /\ At(pos'[p], schema, tx'[p])
    <2>1. CASE v = 0
        <3>1. pos'[p] = 1 /\ tx'[p] = NoTx
            BY <1>3, <2>1 DEF Migrate
        <3> QED
            BY <2>1, <3>1, NoTxTyped DEF At
    <2>2. CASE v = HEAD
        <3>1. pos'[p] = 13 /\ tx'[p] = NoTx
            BY <1>3, <2>2, ScriptLines DEF Migrate, HEAD
        <3> QED
            BY <2>2, <3>1, NoTxTyped DEF At, HEAD
    <2>3. CASE v \in 1 .. (HEAD - 1)
        <3>1. /\ pos'[p] = 1 + CHOOSE i \in DOMAIN Script : Script[i] = Revision(v)
              /\ tx'[p] = schema
            BY <1>3, <2>3 DEF Migrate, HEAD
        <3>2. pos'[p] = 1 + IF v <= 2 THEN v + 1 ELSE IF v <= 4 THEN v + 2 ELSE 10
            BY <2>3, <3>1, PlaceFound
        <3>3. <<v, pos'[p]>> \in {<<1, 3>>, <<2, 4>>, <<3, 6>>, <<4, 7>>, <<5, 11>>}
            BY <2>3, <3>2 DEF HEAD
        <3> QED
            BY <1>1, <3>1, <3>3 DEF At, ChainInv, ChainTyped
    <2> QED
        BY <1>1, <2>1, <2>2, <2>3 DEF HEAD
<1>5. \A q \in Procs \ {p} : phase'[q] = phase[q] /\ pos'[q] = pos[q] /\ tx'[q] = tx[q]
    BY <1>2, <1>3 DEF Migrate
<1>6. ChainTyped'
    <2>1. pos' \in [Procs -> 1 .. 13] /\ tx' \in [Procs -> Dbs]
        BY <1>3, <1>4, <1>5 DEF Migrate, ChainInv, ChainTyped
    <2>2. phase' \in [Procs -> Stages] /\ Sound(schema)'
        BY <1>2 DEF ChainInv, ChainTyped, Stages, Sound
    <2> QED
        BY <2>1, <2>2 DEF ChainTyped
<1>7. StartsUpgrade'
    BY <1>2, <1>5 DEF ChainInv, StartsUpgrade, Migrated, ChainTyped
<1>8. \A q \in Procs : phase'[q] = "migrating" <=> q = p
    BY <1>2, <1>3, <1>5
<1> QED
    BY <1>2, <1>4, <1>6, <1>7, <1>8 DEF ChainInv

(* What a migration executes, or what the server does of its last statement when it
   dies, leaves a sound schema, and before that nobody is past the chain. *)
LEMMA ExecuteFits ==
    ASSUME ChainInv, NEW p \in Procs, phase[p] = "migrating", pos[p] <= Len(Script)
    PROVE  /\ Sound(Executed(p).schema)
           /\ Executed(p).tx = NoTx \/ Sound(Executed(p).tx)
           /\ At(BatchEnd(pos[p]) + 1, Executed(p).schema, Executed(p).tx)
           /\ BatchEnd(pos[p]) \in 1 .. 12
           /\ \A q \in Procs : phase[q] \notin Migrated
           /\ \A q \in Procs \ {p} : phase[q] # "migrating"
<1>1. pos[p] \in 1 .. 12 /\ Sound(schema) /\ At(pos[p], schema, tx[p])
    BY ScriptLines DEF ChainInv, ChainTyped
<1>2. PICK db, t :
        /\ Executed(p) = [schema |-> db, tx |-> t]
        /\ Sound(db)
        /\ t = NoTx \/ Sound(t)
        /\ At(BatchEnd(pos[p]) + 1, db, t)
    BY <1>1, BatchesFit
<1>3. BatchEnd(pos[p]) \in 1 .. 12
    BY <1>1, BatchEnds
<1>4. schema.version # HEAD
    BY <1>1, NewestIsLast
<1> QED
    BY <1>2, <1>3, <1>4 DEF ChainInv, StartsUpgrade

LEMMA ExecuteKeepsChain ==
    ASSUME ChainInv, NEW p \in Procs, Execute(p)
    PROVE  ChainInv'
<1>1. /\ Sound(Executed(p).schema)
      /\ Executed(p).tx = NoTx \/ Sound(Executed(p).tx)
      /\ At(BatchEnd(pos[p]) + 1, Executed(p).schema, Executed(p).tx)
      /\ BatchEnd(pos[p]) \in 1 .. 12
      /\ \A q \in Procs : phase[q] \notin Migrated
      /\ \A q \in Procs \ {p} : phase[q] # "migrating"
    BY ExecuteFits DEF Execute
<1>2. Executed(p).schema.ok /\ (Executed(p).tx = NoTx \/ Executed(p).tx.ok)
    BY <1>1 DEF Sound
<1>3. /\ schema' = Executed(p).schema
      /\ tx' = [tx EXCEPT ![p] = Executed(p).tx]
      /\ phase' = [phase EXCEPT ![p] = phase[p]]
      /\ locked' = locked
      /\ pos' = [pos EXCEPT ![p] = BatchEnd(pos[p]) + 1]
    BY <1>2 DEF Execute
<1>4. phase' = phase
    BY <1>3 DEF ChainInv, ChainTyped
<1>5. Executed(p).tx \in Dbs
    BY <1>1, NoTxTyped DEF Sound
<1>6. ChainTyped'
    <2>1. pos' \in [Procs -> 1 .. 13] /\ tx' \in [Procs -> Dbs]
        BY <1>1, <1>3, <1>5 DEF ChainInv, ChainTyped
    <2>2. Sound(schema)'
        BY <1>1, <1>3 DEF Sound
    <2> QED
        BY <1>4, <2>1, <2>2 DEF ChainInv, ChainTyped
<1>7. At(pos'[p], schema', tx'[p])
    BY <1>1, <1>3 DEF ChainInv, ChainTyped
<1>8. StartsUpgrade'
    BY <1>1, <1>4 DEF ChainInv, StartsUpgrade
<1> QED
    BY <1>1, <1>3, <1>4, <1>6, <1>7, <1>8 DEF ChainInv

(* Who is past the chain found the newest schema. *)
LEMMA UnlockKeepsChain ==
    ASSUME ChainInv, NEW p \in Procs, Unlock(p)
    PROVE  ChainInv'
<1>1. /\ phase[p] = "migrating" /\ phase' = [phase EXCEPT ![p] = "leasing"]
      /\ locked' = NoProc /\ UNCHANGED <<schema, pos, tx>>
    BY DEF Unlock, Proceeds
<1>2. schema.version = HEAD
    <2>1. pos[p] = 13 /\ At(pos[p], schema, tx[p])
        BY <1>1, ScriptLines DEF Unlock, ChainInv, ChainTyped
    <2> QED
        BY <2>1 DEF At, HEAD
<1>3. \A q \in Procs : phase'[q] # "migrating" /\ locked' # q
    BY <1>1, NoProcIsNobody DEF ChainInv, ChainTyped
<1>4. ChainTyped'
    BY <1>1 DEF ChainInv, ChainTyped, Stages, Sound
<1>5. StartsUpgrade'
    BY <1>1, <1>2 DEF ChainInv, ChainTyped, StartsUpgrade
<1> QED
    BY <1>3, <1>4, <1>5 DEF ChainInv

LEMMA DiesKeepsChain ==
    ASSUME ChainInv, NEW p \in Procs, Dies(p)
    PROVE  ChainInv'
<1>1. /\ phase' = [phase EXCEPT ![p] = "gone"]
      /\ tx' = [tx EXCEPT ![p] = NoTx]
      /\ locked' = (IF locked = p THEN NoProc ELSE locked)
      /\ UNCHANGED pos
    BY DEF Dies, Ends
<1>2. \/ UNCHANGED schema
      \/ phase[p] = "migrating" /\ pos[p] <= Len(Script) /\ schema' = Executed(p).schema
    BY DEF Dies
<1>3. Sound(schema)'
    BY <1>2, ExecuteFits DEF ChainInv, ChainTyped, Sound
<1>4. ChainTyped'
    BY <1>1, <1>3, NoTxTyped DEF ChainInv, ChainTyped, Stages
<1>5. StartsUpgrade'
    BY <1>1, <1>2, ExecuteFits DEF ChainInv, ChainTyped, StartsUpgrade, Migrated
<1>6. ASSUME NEW q \in Procs
      PROVE  (phase[q] = "migrating" <=> locked = q)'
    BY <1>1, NoProcIsNobody DEF ChainInv, ChainTyped
<1>7. ASSUME NEW q \in Procs, phase'[q] = "migrating"
      PROVE  At(pos[q], schema, tx[q])'
    <2>1. q # p /\ phase[q] = "migrating" /\ tx'[q] = tx[q] /\ pos'[q] = pos[q]
        BY <1>1, <1>7 DEF ChainInv, ChainTyped
    <2>2. UNCHANGED schema
        BY <1>2, <2>1 DEF ChainInv
    <2> QED
        BY <2>1, <2>2 DEF ChainInv, At, Sound
<1> QED
    BY <1>4, <1>5, <1>6, <1>7 DEF ChainInv

THEOREM ChainInvariant == StartupSpec => []ChainInv
<1>1. LeaseInv /\ ChainInv /\ [StartupNext]_startupVars => ChainInv'
    <2> SUFFICES ASSUME LeaseInv, ChainInv, [StartupNext]_startupVars
                 PROVE  ChainInv'
        OBVIOUS
    <2>1. ASSUME UNCHANGED migration, ChainTyped',
                 \A q \in Procs : /\ phase'[q] = "migrating" <=> phase[q] = "migrating"
                                  /\ phase'[q] # "failed"
                                  /\ phase'[q] \in Migrated => phase[q] \in Migrated
          PROVE  ChainInv'
        BY <2>1 DEF migration, ChainInv, StartsUpgrade
    <2>2. ASSUME NEW p \in Procs, Migrate(p) \/ Execute(p) \/ Unlock(p) \/ Dies(p)
          PROVE  ChainInv'
        BY <2>2, MigrateKeepsChain, ExecuteKeepsChain, UnlockKeepsChain, DiesKeepsChain
    <2>3. ASSUME NEW p \in Procs,
                 \/ TryLease(p) \/ ListStagings(p) \/ Serve(p) \/ Signal(p)
                 \/ DrainEnds(p) \/ ProbeFails(p)
          PROVE  ChainInv'
        <3>1. UNCHANGED migration
            BY <2>3 DEF TryLease, ListStagings, Serve, Signal, DrainEnds, ProbeFails
        <3>2. ChainTyped'
            BY <2>3, <3>1 DEF TryLease, ListStagings, Serve, Signal, DrainEnds, ProbeFails,
                              Ends, Proceeds, migration, ChainInv, ChainTyped, Stages, Sound
        <3>3. phase[p] \in {"leasing", "listing", "reclaiming", "serving", "draining"}
            BY <2>3 DEF TryLease, ListStagings, Serve, Signal, DrainEnds, ProbeFails, Proceeds,
                        LeaseInv, InTime, Serving
        <3>4. \E to \in {"listing", "reclaiming", "serving", "draining", "gone"} :
                phase' = [phase EXCEPT ![p] = to]
            BY <2>3 DEF TryLease, ListStagings, Serve, Signal, DrainEnds, ProbeFails, Ends,
                        Proceeds
        <3>5. ASSUME NEW q \in Procs
              PROVE  /\ phase'[q] = "migrating" <=> phase[q] = "migrating"
                     /\ phase'[q] # "failed"
                     /\ phase'[q] \in Migrated => phase[q] \in Migrated
            BY <3>3, <3>4 DEF ChainInv, ChainTyped, StartsUpgrade, Migrated
        <3> QED
            BY <2>1, <3>1, <3>2, <3>5
    <2>4. CASE UNCHANGED <<migration, phase>>
        BY <2>1, <2>4 DEF migration, ChainInv, ChainTyped, StartsUpgrade, Sound
    <2>5. ASSUME NEW p \in Procs, Probe(p) \/ ServerAnswers(p) \/ ProbeAnswered(p) \/ Breaks(p)
          PROVE  ChainInv'
        BY <2>4, <2>5 DEF Probe, ServerAnswers, ProbeAnswered, Breaks
    <2>6. ASSUME NEW p \in Procs, NEW s, Stage(p, s) \/ Unstage(p, s) \/ ReclaimStaging(p, s)
          PROVE  ChainInv'
        BY <2>4, <2>6 DEF Stage, Unstage, ReclaimStaging
    <2>7. CASE ServerNotices \/ Tick \/ UNCHANGED startupVars
        BY <2>4, <2>7 DEF ServerNotices, Tick, startupVars
    <2> QED
        BY <2>2, <2>3, <2>5, <2>6, <2>7 DEF StartupNext
<1> QED
    BY <1>1, ChainStarts, LeaseInvariant, PTL DEF StartupSpec

(* Whoever starts, from whatever was committed and however many died on the way:
   no start fails in the chain, and who is past it has the newest schema. *)
THEOREM EveryStartUpgrades == StartupSpec => []StartsUpgrade
<1>1. ChainInv => StartsUpgrade
    BY DEF ChainInv
<1> QED
    BY <1>1, ChainInvariant, PTL

================================================================================
