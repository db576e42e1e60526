---------------------------- MODULE CsvImportProofs ----------------------------
(***************************************************************************)
(* Proofs about the CSV import, for any inventory, files, rows and number  *)
(* of calls: a batch is applied at most once, and one that decommissions   *)
(* the greater part of a scope only when the user confirmed it for that    *)
(* batch; what it writes to a VM comes from a row of the VM's identity and *)
(* leaves the curated fields that are supplied; the networks of a VM get   *)
(* no address a second time.                                               *)
(*                                                                         *)
(* What a batch does to its rows is left as it is in Applied for the first *)
(* two: they depend only on who may apply a batch and when.                *)
(***************************************************************************)
EXTENDS
    MCCsvImport, TLAPS, FiniteSetTheorems, SequenceTheorems, WellFoundedInduction

PageType ==
    [file : Files \cup {NoFile}, batch : Nat,
     shown : {"none", "previewed", "committed"}, tick : BOOLEAN]

PreviewType ==
    [file : Files, full : BOOLEAN, batch : Nat, open : BOOLEAN, bound : BOOLEAN]

CommitType ==
    [batch : Nat, confirm : BOOLEAN, at : {"sent", "checked", "refused", "done"},
     open : BOOLEAN, bound : BOOLEAN, seen : Nat]

IsSequence(s) == s \in Seq({s[i] : i \in DOMAIN s})

IsBatch(b) ==
    /\ b = [file |-> b.file, status |-> b.status, rows |-> b.rows, total |-> b.total]
    /\ b.status \in {"previewed", "committed"}

(* The types of the calls and of the page, and one count for each batch. *)
CallsTyped ==
    /\ page \in PageType
    /\ previews \in Seq(PreviewType)
    /\ commits \in Seq(CommitType)
    /\ IsSequence(batches)
    /\ \A b \in DOMAIN batches : IsBatch(batches[b])
    /\ applied \in Seq(Nat)
    /\ Len(applied) = Len(batches)

(* Whoever names a batch names one that is there; the page shows one unless it
   shows none. *)
BatchesKnown ==
    /\ page.batch \in 0..Len(batches)
    /\ page.shown = "none" <=> page.batch = 0
    /\ \A i \in DOMAIN previews : previews[i].batch \in 0..Len(batches)
    /\ \A i \in DOMAIN commits :
        /\ commits[i].batch \in 1..Len(batches)
        /\ commits[i].seen \in 1..Len(batches)

(* The status of a batch says how often it was applied; whoever has checked it
   has it alone and before it is applied. *)
LockHeld ==
    /\ \A b \in DOMAIN batches :
        applied[b] = IF batches[b].status = "committed" THEN 1 ELSE 0
    /\ \A i \in DOMAIN commits : commits[i].at = "checked" =>
        /\ batches[commits[i].batch].status = "previewed"
        /\ Count(batches[commits[i].batch], "conflict") = 0
        /\ \A j \in DOMAIN commits :
            commits[j].at = "checked" /\ commits[j].batch = commits[i].batch => i = j

(* The tick of the page, of a commit sent and of a batch applied is one that
   the user set for that batch. *)
TicksTrue ==
    /\ page.tick /\ page.shown = "previewed" => page.batch \in ticked
    /\ \A i \in DOMAIN commits :
        /\ commits[i].confirm => commits[i].batch \in ticked
        /\ commits[i].at = "checked" /\ IsMajority(batches[commits[i].batch]) =>
            commits[i].confirm
    /\ MajorityConfirmed

ImportInv == CallsTyped /\ BatchesKnown /\ LockHeld /\ TicksTrue

--------------------------------------------------------------------------------
(* Operators of the model. *)

(* A sequence stays one when a batch is added or one of its batches changed. *)
LEMMA Extended ==
    ASSUME NEW s, IsSequence(s), NEW e
    PROVE  /\ IsSequence(Append(s, e))
           /\ Len(s) \in Nat
           /\ DOMAIN s = 1..Len(s)
           /\ Len(Append(s, e)) = Len(s) + 1
           /\ DOMAIN Append(s, e) = 1..(Len(s) + 1)
           /\ Append(s, e)[Len(s) + 1] = e
           /\ \A i \in 1..Len(s) : Append(s, e)[i] = s[i]
<1> DEFINE S == {s[i] : i \in DOMAIN s}
           t == Append(s, e)
<1>1. s \in Seq(S)
    BY DEF IsSequence
<1>2. t \in Seq(S \cup {e}) /\ s \in Seq(S \cup {e})
    BY <1>1
<1>3. /\ Len(s) \in Nat /\ DOMAIN s = 1..Len(s)
      /\ Len(t) = Len(s) + 1 /\ DOMAIN t = 1..(Len(s) + 1)
      /\ t[Len(s) + 1] = e
      /\ \A i \in 1..Len(s) : t[i] = s[i]
    BY <1>2
<1>4. t \in Seq({t[i] : i \in DOMAIN t})
    <2> HIDE DEF S, t
    <2> QED BY <1>2, <1>3
<1> QED BY <1>3, <1>4 DEF IsSequence

LEMMA Changed ==
    ASSUME NEW s, IsSequence(s), NEW k \in DOMAIN s, NEW e
    PROVE  /\ IsSequence([s EXCEPT ![k] = e])
           /\ Len([s EXCEPT ![k] = e]) = Len(s)
           /\ DOMAIN [s EXCEPT ![k] = e] = DOMAIN s
           /\ [s EXCEPT ![k] = e][k] = e
           /\ \A i \in DOMAIN s \ {k} : [s EXCEPT ![k] = e][i] = s[i]
<1> DEFINE S == {s[i] : i \in DOMAIN s}
           t == [s EXCEPT ![k] = e]
<1>1. s \in Seq(S)
    BY DEF IsSequence
<1>2. s \in Seq(S \cup {e}) /\ t \in Seq(S \cup {e})
    BY <1>1
<1>3. /\ Len(t) = Len(s) /\ DOMAIN t = DOMAIN s /\ t[k] = e
      /\ \A i \in DOMAIN s \ {k} : t[i] = s[i]
    BY <1>2
<1>4. t \in Seq({t[i] : i \in DOMAIN t})
    <2> HIDE DEF S, t
    <2> QED BY <1>2, <1>3
<1> QED BY <1>3, <1>4 DEF IsSequence

(* Only the rows and the total of a batch decide whether it needs the tick. *)
LEMMA SameMajority ==
    ASSUME NEW b, NEW c, b.rows = c.rows, b.total = c.total
    PROVE  IsMajority(b) <=> IsMajority(c)
BY DEF IsMajority, Count

(* Append and the marks of Reset and Following keep everything else of a call. *)
LEMMA CallsReset ==
    /\ \A calls \in Seq(PreviewType) :
        /\ Reset(calls) \in Seq(PreviewType)
        /\ Len(Reset(calls)) = Len(calls) /\ DOMAIN Reset(calls) = DOMAIN calls
        /\ \A i \in DOMAIN calls : Reset(calls)[i].batch = calls[i].batch
    /\ \A calls \in Seq(CommitType) :
        /\ Reset(calls) \in Seq(CommitType)
        /\ Len(Reset(calls)) = Len(calls) /\ DOMAIN Reset(calls) = DOMAIN calls
        /\ \A i \in DOMAIN calls :
            /\ Reset(calls)[i].batch = calls[i].batch
            /\ Reset(calls)[i].confirm = calls[i].confirm
            /\ Reset(calls)[i].at = calls[i].at
            /\ Reset(calls)[i].seen = calls[i].seen
<1> DEFINE Freed(c) == [c EXCEPT !.bound = FALSE]
<1>1. ASSUME NEW calls \in Seq(PreviewType)
      PROVE  /\ Reset(calls) \in Seq(PreviewType)
             /\ Len(Reset(calls)) = Len(calls) /\ DOMAIN Reset(calls) = DOMAIN calls
             /\ \A i \in DOMAIN calls : Reset(calls)[i].batch = calls[i].batch
    <2>1. /\ DOMAIN calls = 1..Len(calls) /\ Len(calls) \in Nat
          /\ \A i \in DOMAIN calls : calls[i] \in PreviewType
        OBVIOUS
    <2>2. \A i \in DOMAIN calls :
            /\ Freed(calls[i]) \in PreviewType
            /\ Freed(calls[i]).batch = calls[i].batch
        BY <2>1 DEF PreviewType
    <2>3. Reset(calls) = [i \in DOMAIN calls |-> Freed(calls[i])]
        BY DEF Reset
    <2> QED
        <3> HIDE DEF Freed
        <3> QED BY <2>1, <2>2, <2>3
<1>2. ASSUME NEW calls \in Seq(CommitType)
      PROVE  /\ Reset(calls) \in Seq(CommitType)
             /\ Len(Reset(calls)) = Len(calls) /\ DOMAIN Reset(calls) = DOMAIN calls
             /\ \A i \in DOMAIN calls :
                /\ Reset(calls)[i].batch = calls[i].batch
                /\ Reset(calls)[i].confirm = calls[i].confirm
                /\ Reset(calls)[i].at = calls[i].at
                /\ Reset(calls)[i].seen = calls[i].seen
    <2>1. /\ DOMAIN calls = 1..Len(calls) /\ Len(calls) \in Nat
          /\ \A i \in DOMAIN calls : calls[i] \in CommitType
        OBVIOUS
    <2>2. \A i \in DOMAIN calls :
            /\ Freed(calls[i]) \in CommitType
            /\ Freed(calls[i]).batch = calls[i].batch
            /\ Freed(calls[i]).confirm = calls[i].confirm
            /\ Freed(calls[i]).at = calls[i].at
            /\ Freed(calls[i]).seen = calls[i].seen
        BY <2>1 DEF CommitType
    <2>3. Reset(calls) = [i \in DOMAIN calls |-> Freed(calls[i])]
        BY DEF Reset
    <2> QED
        <3> HIDE DEF Freed
        <3> QED BY <2>1, <2>2, <2>3
<1> QED BY <1>1, <1>2

LEMMA CommitsFollow ==
    ASSUME NEW calls \in Seq(CommitType), NEW b \in Nat
    PROVE  /\ Following(calls, b) \in Seq(CommitType)
           /\ Len(Following(calls, b)) = Len(calls)
           /\ DOMAIN Following(calls, b) = DOMAIN calls
           /\ \A i \in DOMAIN calls :
                /\ Following(calls, b)[i].batch = calls[i].batch
                /\ Following(calls, b)[i].confirm = calls[i].confirm
                /\ Following(calls, b)[i].at = calls[i].at
                /\ Following(calls, b)[i].seen \in {calls[i].seen, b}
<1> DEFINE Marked(c) == IF c.bound THEN [c EXCEPT !.seen = b] ELSE c
<1>1. /\ DOMAIN calls = 1..Len(calls) /\ Len(calls) \in Nat
      /\ \A i \in DOMAIN calls : calls[i] \in CommitType
    OBVIOUS
<1>2. \A i \in DOMAIN calls :
        /\ Marked(calls[i]) \in CommitType
        /\ Marked(calls[i]).batch = calls[i].batch
        /\ Marked(calls[i]).confirm = calls[i].confirm
        /\ Marked(calls[i]).at = calls[i].at
        /\ Marked(calls[i]).seen \in {calls[i].seen, b}
    BY <1>1 DEF CommitType
<1>3. Following(calls, b) = [i \in DOMAIN calls |-> Marked(calls[i])]
    BY DEF Following
<1> QED
    <2> HIDE DEF Marked
    <2> QED BY <1>1, <1>2, <1>3

(* The mark that a call ended, or how far a commit is, changes nothing else. *)
LEMMA PreviewEnded ==
    ASSUME NEW calls \in Seq(PreviewType), NEW i \in DOMAIN calls
    PROVE  /\ [calls EXCEPT ![i].open = FALSE] \in Seq(PreviewType)
           /\ Len([calls EXCEPT ![i].open = FALSE]) = Len(calls)
           /\ DOMAIN [calls EXCEPT ![i].open = FALSE] = DOMAIN calls
           /\ \A j \in DOMAIN calls :
                [calls EXCEPT ![i].open = FALSE][j].batch = calls[j].batch
<1> DEFINE c == [calls[i] EXCEPT !.open = FALSE]
<1>1. /\ DOMAIN calls = 1..Len(calls) /\ Len(calls) \in Nat
      /\ calls[i] \in PreviewType
    OBVIOUS
<1>2. c \in PreviewType /\ c.batch = calls[i].batch
    BY <1>1 DEF PreviewType
<1>3. [calls EXCEPT ![i].open = FALSE] = [calls EXCEPT ![i] = c]
    OBVIOUS
<1> HIDE DEF c
<1>4. [calls EXCEPT ![i] = c] \in Seq(PreviewType) /\ Len([calls EXCEPT ![i] = c]) = Len(calls)
    BY <1>1, <1>2
<1>5. \A j \in DOMAIN calls : [calls EXCEPT ![i] = c][j] = IF j = i THEN c ELSE calls[j]
    BY <1>1
<1>6. DOMAIN [calls EXCEPT ![i] = c] = DOMAIN calls
    OBVIOUS
<1> QED BY <1>2, <1>3, <1>4, <1>5, <1>6

LEMMA CommitEnded ==
    ASSUME NEW calls \in Seq(CommitType), NEW i \in DOMAIN calls
    PROVE  /\ [calls EXCEPT ![i].open = FALSE] \in Seq(CommitType)
           /\ Len([calls EXCEPT ![i].open = FALSE]) = Len(calls)
           /\ DOMAIN [calls EXCEPT ![i].open = FALSE] = DOMAIN calls
           /\ \A j \in DOMAIN calls :
                /\ [calls EXCEPT ![i].open = FALSE][j].batch = calls[j].batch
                /\ [calls EXCEPT ![i].open = FALSE][j].confirm = calls[j].confirm
                /\ [calls EXCEPT ![i].open = FALSE][j].at = calls[j].at
                /\ [calls EXCEPT ![i].open = FALSE][j].seen = calls[j].seen
<1> DEFINE c == [calls[i] EXCEPT !.open = FALSE]
<1>1. /\ DOMAIN calls = 1..Len(calls) /\ Len(calls) \in Nat
      /\ calls[i] \in CommitType
    OBVIOUS
<1>2. /\ c \in CommitType /\ c.batch = calls[i].batch /\ c.confirm = calls[i].confirm
      /\ c.at = calls[i].at /\ c.seen = calls[i].seen
    BY <1>1 DEF CommitType
<1>3. [calls EXCEPT ![i].open = FALSE] = [calls EXCEPT ![i] = c]
    OBVIOUS
<1> HIDE DEF c
<1>4. [calls EXCEPT ![i] = c] \in Seq(CommitType) /\ Len([calls EXCEPT ![i] = c]) = Len(calls)
    BY <1>1, <1>2
<1>5. \A j \in DOMAIN calls : [calls EXCEPT ![i] = c][j] = IF j = i THEN c ELSE calls[j]
    BY <1>1
<1>6. DOMAIN [calls EXCEPT ![i] = c] = DOMAIN calls
    OBVIOUS
<1> QED BY <1>2, <1>3, <1>4, <1>5, <1>6

LEMMA CommitMarked ==
    ASSUME NEW calls \in Seq(CommitType), NEW i \in DOMAIN calls,
           NEW m \in {"checked", "refused", "done"}
    PROVE  /\ [calls EXCEPT ![i].at = m] \in Seq(CommitType)
           /\ DOMAIN [calls EXCEPT ![i].at = m] = DOMAIN calls
           /\ \A j \in DOMAIN calls :
                /\ [calls EXCEPT ![i].at = m][j].batch = calls[j].batch
                /\ [calls EXCEPT ![i].at = m][j].confirm = calls[j].confirm
                /\ [calls EXCEPT ![i].at = m][j].seen = calls[j].seen
                /\ [calls EXCEPT ![i].at = m][j].at = IF j = i THEN m ELSE calls[j].at
<1> DEFINE c == [calls[i] EXCEPT !.at = m]
<1>1. /\ DOMAIN calls = 1..Len(calls) /\ Len(calls) \in Nat
      /\ calls[i] \in CommitType
    OBVIOUS
<1>2. /\ c \in CommitType /\ c.batch = calls[i].batch /\ c.confirm = calls[i].confirm
      /\ c.at = m /\ c.seen = calls[i].seen
    BY <1>1 DEF CommitType
<1>3. [calls EXCEPT ![i].at = m] = [calls EXCEPT ![i] = c]
    OBVIOUS
<1> HIDE DEF c
<1>4. [calls EXCEPT ![i] = c] \in Seq(CommitType) /\ Len([calls EXCEPT ![i] = c]) = Len(calls)
    BY <1>1, <1>2
<1>5. \A j \in DOMAIN calls : [calls EXCEPT ![i] = c][j] = IF j = i THEN c ELSE calls[j]
    BY <1>1
<1>6. DOMAIN [calls EXCEPT ![i] = c] = DOMAIN calls
    OBVIOUS
<1> QED BY <1>2, <1>3, <1>4, <1>5, <1>6

--------------------------------------------------------------------------------
(* Steps. *)

(* The calls of the page keep their batches, ticks and progress; all the user does
   besides is to tick more. *)
QuietStep ==
    /\ UNCHANGED <<batches, applied>>
    /\ ticked \subseteq ticked'
    /\ commits' \in Seq(CommitType)
    /\ Len(commits') = Len(commits)
    /\ \A i \in DOMAIN commits :
        /\ commits'[i].batch = commits[i].batch
        /\ commits'[i].confirm = commits[i].confirm
        /\ commits'[i].at = commits[i].at

LEMMA QuietStepsKeep ==
    ASSUME ImportInv, QuietStep
    PROVE  /\ LockHeld'
           /\ \A i \in DOMAIN commits' :
                /\ commits'[i].confirm => commits'[i].batch \in ticked'
                /\ commits'[i].at = "checked" /\ IsMajority(batches'[commits'[i].batch]) =>
                    commits'[i].confirm
           /\ MajorityConfirmed'
<1>1. DOMAIN commits' = DOMAIN commits
    BY DEF QuietStep, ImportInv, CallsTyped
<1>2. LockHeld'
    BY <1>1 DEF QuietStep, ImportInv, LockHeld
<1>3. \A i \in DOMAIN commits' :
        /\ commits'[i].confirm => commits'[i].batch \in ticked'
        /\ commits'[i].at = "checked" /\ IsMajority(batches'[commits'[i].batch]) =>
            commits'[i].confirm
    BY <1>1 DEF QuietStep, ImportInv, TicksTrue
<1>4. MajorityConfirmed'
    BY DEF QuietStep, ImportInv, TicksTrue, MajorityConfirmed
<1> QED BY <1>2, <1>3, <1>4

(* Choosing a file, sending a preview and the end of a call without an answer. *)
LEMMA PageSteps ==
    ASSUME ImportInv,
           \/ \E f \in Files \cup {NoFile} : ChooseFile(f)
           \/ \E full \in BOOLEAN : Preview(full)
           \/ \E i \in DOMAIN previews : PreviewFails(i)
           \/ \E i \in DOMAIN commits : CommitFails(i)
    PROVE  ImportInv'
<1>1. /\ page \in PageType /\ previews \in Seq(PreviewType) /\ commits \in Seq(CommitType)
      /\ DOMAIN previews = 1..Len(previews) /\ DOMAIN commits = 1..Len(commits)
      /\ Len(previews) \in Nat /\ Len(commits) \in Nat /\ Len(batches) \in Nat
    BY DEF ImportInv, CallsTyped, IsSequence
<1>2. CASE \E f \in Files \cup {NoFile} : ChooseFile(f)
    <2> PICK f \in Files \cup {NoFile} : ChooseFile(f)
        BY <1>2
    <2>1. QuietStep
        BY <1>1, CallsReset DEF ChooseFile, QuietStep
    <2>2. CallsTyped'
        BY <1>1, CallsReset DEF ChooseFile, ImportInv, CallsTyped, PageType
    <2>3. BatchesKnown'
        <3>1. page'.batch = 0 /\ page'.shown = "none" /\ batches' = batches
            BY DEF ChooseFile
        <3>2. \A i \in DOMAIN previews' : previews'[i].batch \in 0..Len(batches)
            BY <1>1, CallsReset DEF ChooseFile, ImportInv, BatchesKnown
        <3>3. \A i \in DOMAIN commits' :
                /\ commits'[i].batch \in 1..Len(batches)
                /\ commits'[i].seen \in 1..Len(batches)
            <4>1. commits' = Reset(commits)
                BY DEF ChooseFile
            <4>2. /\ DOMAIN commits' = DOMAIN commits
                  /\ \A i \in DOMAIN commits :
                        /\ commits'[i].batch = commits[i].batch
                        /\ commits'[i].seen = commits[i].seen
                BY <1>1, <4>1, CallsReset
            <4> QED BY <4>2 DEF ImportInv, BatchesKnown
        <3> QED BY <1>1, <3>1, <3>2, <3>3 DEF BatchesKnown
    <2>4. (page.tick /\ page.shown = "previewed" => page.batch \in ticked)'
        BY DEF ChooseFile
    <2> QED BY <2>1, <2>2, <2>3, <2>4, QuietStepsKeep DEF ImportInv, TicksTrue
<1>3. CASE \E full \in BOOLEAN : Preview(full)
    <2> PICK full \in BOOLEAN : Preview(full)
        BY <1>3
    <2> DEFINE call == [file |-> page.file, full |-> full, batch |-> 0,
                        open |-> TRUE, bound |-> TRUE]
    <2>1. QuietStep
        BY <1>1, CallsReset DEF Preview, QuietStep
    <2>2. call \in PreviewType /\ call.batch = 0
        BY <1>1 DEF PageType, PreviewType, Preview
    <2>3. previews' = Append(Reset(previews), call)
        BY DEF Preview
    <2>4. CallsTyped'
        <3>1. previews' \in Seq(PreviewType)
            BY <1>1, <2>2, <2>3, CallsReset
        <3>2. page' \in PageType
            BY <1>1 DEF Preview, PageType
        <3> QED BY <1>1, <3>1, <3>2, CallsReset DEF Preview, ImportInv, CallsTyped
    <2>5. BatchesKnown'
        <3>1. \A i \in DOMAIN previews' : previews'[i].batch \in 0..Len(batches)
            <4>1. \A i \in DOMAIN previews' :
                    previews'[i] = IF i = Len(previews) + 1 THEN call ELSE Reset(previews)[i]
                BY <1>1, <2>2, <2>3, CallsReset
            <4>2. DOMAIN previews' = 1..(Len(previews) + 1)
                BY <1>1, <2>2, <2>3, CallsReset
            <4>3. \A i \in DOMAIN previews : Reset(previews)[i].batch \in 0..Len(batches)
                BY <1>1, CallsReset DEF ImportInv, BatchesKnown
            <4> QED BY <1>1, <2>2, <4>1, <4>2, <4>3
        <3>2. page'.batch = 0 /\ page'.shown = "none"
            BY <1>1 DEF Preview, PageType
        <3>3. \A i \in DOMAIN commits' :
                /\ commits'[i].batch \in 1..Len(batches)
                /\ commits'[i].seen \in 1..Len(batches)
            <4>1. commits' = Reset(commits)
                BY DEF Preview
            <4>2. /\ DOMAIN commits' = DOMAIN commits
                  /\ \A i \in DOMAIN commits :
                        /\ commits'[i].batch = commits[i].batch
                        /\ commits'[i].seen = commits[i].seen
                BY <1>1, <4>1, CallsReset
            <4> QED BY <4>2 DEF ImportInv, BatchesKnown
        <3>4. batches' = batches
            BY DEF Preview
        <3> QED BY <1>1, <3>1, <3>2, <3>3, <3>4 DEF BatchesKnown
    <2>6. (page.tick /\ page.shown = "previewed" => page.batch \in ticked)'
        BY <1>1 DEF Preview, PageType
    <2> QED BY <2>1, <2>4, <2>5, <2>6, QuietStepsKeep DEF ImportInv, TicksTrue
<1>4. CASE \E i \in DOMAIN previews : PreviewFails(i)
    <2> PICK i \in DOMAIN previews : PreviewFails(i)
        BY <1>4
    <2>1. /\ previews' = [previews EXCEPT ![i].open = FALSE]
          /\ UNCHANGED <<batches, page, commits, applied, ticked>>
        BY DEF PreviewFails
    <2>2. /\ previews' \in Seq(PreviewType)
          /\ \A j \in DOMAIN previews' : previews'[j].batch \in 0..Len(batches)
        BY <1>1, <2>1, PreviewEnded DEF ImportInv, BatchesKnown
    <2>3. QuietStep
        BY <1>1, <2>1 DEF QuietStep
    <2>4. CallsTyped' /\ BatchesKnown'
        BY <2>1, <2>2 DEF ImportInv, CallsTyped, BatchesKnown
    <2>5. (page.tick /\ page.shown = "previewed" => page.batch \in ticked)'
        BY <2>1 DEF ImportInv, TicksTrue
    <2> QED BY <2>3, <2>4, <2>5, QuietStepsKeep DEF ImportInv, TicksTrue
<1>5. CASE \E i \in DOMAIN commits : CommitFails(i)
    <2> PICK i \in DOMAIN commits : CommitFails(i)
        BY <1>5
    <2>1. /\ commits' = [commits EXCEPT ![i].open = FALSE]
          /\ UNCHANGED <<batches, page, previews, applied, ticked>>
        BY DEF CommitFails
    <2>2. QuietStep
        BY <1>1, <2>1, CommitEnded DEF QuietStep
    <2>3. /\ commits' \in Seq(CommitType)
          /\ \A j \in DOMAIN commits' :
                /\ commits'[j].batch \in 1..Len(batches)
                /\ commits'[j].seen \in 1..Len(batches)
        <3>1. /\ commits' \in Seq(CommitType) /\ DOMAIN commits' = DOMAIN commits
              /\ \A j \in DOMAIN commits :
                    /\ commits'[j].batch = commits[j].batch
                    /\ commits'[j].seen = commits[j].seen
            BY <1>1, <2>1, CommitEnded
        <3> QED BY <3>1 DEF ImportInv, BatchesKnown
    <2>4. CallsTyped' /\ BatchesKnown'
        BY <2>1, <2>3 DEF ImportInv, CallsTyped, BatchesKnown
    <2>5. (page.tick /\ page.shown = "previewed" => page.batch \in ticked)'
        BY <2>1 DEF ImportInv, TicksTrue
    <2> QED BY <2>2, <2>4, <2>5, QuietStepsKeep DEF ImportInv, TicksTrue
<1> QED BY <1>2, <1>3, <1>4, <1>5

(* A preview or a commit is answered: what the page shows then has lost its tick
   or is committed. *)
LEMMA AnswerSteps ==
    ASSUME ImportInv,
           \/ \E i \in DOMAIN previews : PreviewAnswered(i)
           \/ \E i \in DOMAIN commits : CommitAnswered(i)
    PROVE  ImportInv'
<1>1. /\ page \in PageType /\ previews \in Seq(PreviewType) /\ commits \in Seq(CommitType)
      /\ DOMAIN previews = 1..Len(previews) /\ DOMAIN commits = 1..Len(commits)
      /\ Len(previews) \in Nat /\ Len(commits) \in Nat /\ Len(batches) \in Nat
    BY DEF ImportInv, CallsTyped, IsSequence
<1>2. CASE \E i \in DOMAIN previews : PreviewAnswered(i)
    <2> PICK i \in DOMAIN previews : PreviewAnswered(i)
        BY <1>2
    <2> DEFINE b == previews[i].batch
    <2>1. /\ b # 0
          /\ page' = [page EXCEPT !.batch = b, !.shown = "previewed", !.tick = FALSE]
          /\ previews' = [previews EXCEPT ![i].open = FALSE]
          /\ commits' = Following(commits, page'.batch)
          /\ UNCHANGED <<batches, applied, ticked>>
        BY DEF PreviewAnswered, TickForNewBatch
    <2>2. b \in 1..Len(batches) /\ b \in Nat
        BY <1>1, <2>1 DEF ImportInv, BatchesKnown, PreviewType
    <2> HIDE DEF b
    <2>3. /\ page' \in PageType /\ page'.batch = b /\ page'.shown = "previewed"
          /\ page'.tick = FALSE
        BY <1>1, <2>1, <2>2 DEF PageType
    <2>4. /\ previews' \in Seq(PreviewType)
          /\ \A j \in DOMAIN previews' : previews'[j].batch \in 0..Len(batches)
        BY <1>1, <2>1, PreviewEnded DEF ImportInv, BatchesKnown
    <2>5. /\ commits' \in Seq(CommitType)
          /\ \A j \in DOMAIN commits' :
                /\ commits'[j].batch \in 1..Len(batches)
                /\ commits'[j].seen \in 1..Len(batches)
        <3>1. commits' = Following(commits, b) /\ b \in Nat
            BY <1>1, <2>1, <2>2, <2>3
        <3>2. commits' \in Seq(CommitType) /\ DOMAIN commits' = DOMAIN commits
            BY <1>1, <3>1, CommitsFollow
        <3>3. \A j \in DOMAIN commits :
                commits'[j].batch = commits[j].batch /\ commits'[j].seen \in {commits[j].seen, b}
            BY <1>1, <3>1, CommitsFollow
        <3> QED BY <2>2, <3>2, <3>3 DEF ImportInv, BatchesKnown
    <2>6. QuietStep
        BY <1>1, <2>1, <2>2, <2>3, CommitsFollow DEF QuietStep
    <2>7. CallsTyped'
        BY <2>1, <2>3, <2>4, <2>5 DEF ImportInv, CallsTyped
    <2>8. BatchesKnown'
        BY <1>1, <2>1, <2>2, <2>3, <2>4, <2>5 DEF BatchesKnown
    <2> QED BY <2>3, <2>6, <2>7, <2>8, QuietStepsKeep DEF ImportInv, TicksTrue
<1>3. CASE \E i \in DOMAIN commits : CommitAnswered(i)
    <2> PICK i \in DOMAIN commits : CommitAnswered(i)
        BY <1>3
    <2> DEFINE b == commits[i].seen
               closed == [commits EXCEPT ![i].open = FALSE]
    <2>1. /\ page' = [page EXCEPT !.batch = b, !.shown = "committed"]
          /\ commits' = Following(closed, page'.batch)
          /\ UNCHANGED <<batches, previews, applied, ticked>>
        BY DEF CommitAnswered
    <2>2. b \in 1..Len(batches) /\ b \in Nat
        BY <1>1, <2>1 DEF ImportInv, BatchesKnown
    <2>3. /\ closed \in Seq(CommitType) /\ Len(closed) = Len(commits)
          /\ \A j \in DOMAIN commits :
                /\ closed[j].batch = commits[j].batch
                /\ closed[j].confirm = commits[j].confirm
                /\ closed[j].at = commits[j].at
                /\ closed[j].seen = commits[j].seen
        BY <1>1, CommitEnded
    <2> HIDE DEF b, closed
    <2>4. /\ page' \in PageType /\ page'.batch = b /\ page'.shown = "committed"
        BY <1>1, <2>1, <2>2 DEF PageType
    <2>5. commits' = Following(closed, b) /\ b \in Nat
        BY <1>1, <2>1, <2>2, <2>4
    <2>6. /\ commits' \in Seq(CommitType) /\ Len(commits') = Len(commits)
          /\ DOMAIN commits' = DOMAIN commits
          /\ DOMAIN closed = DOMAIN commits
        BY <1>1, <2>3, <2>5, CommitsFollow
    <2>7. \A j \in DOMAIN commits :
            /\ commits'[j].batch = commits[j].batch
            /\ commits'[j].confirm = commits[j].confirm
            /\ commits'[j].at = commits[j].at
            /\ commits'[j].seen \in {commits[j].seen, b}
        BY <2>3, <2>5, <2>6, CommitsFollow
    <2>8. QuietStep
        BY <2>1, <2>6, <2>7 DEF QuietStep
    <2>9. \A j \in DOMAIN commits' :
            /\ commits'[j].batch \in 1..Len(batches)
            /\ commits'[j].seen \in 1..Len(batches)
        BY <2>2, <2>6, <2>7 DEF ImportInv, BatchesKnown
    <2>10. CallsTyped'
        BY <2>1, <2>4, <2>6 DEF ImportInv, CallsTyped
    <2>11. BatchesKnown'
        <3>1. \A j \in DOMAIN previews' : previews'[j].batch \in 0..Len(batches)
            BY <2>1 DEF ImportInv, BatchesKnown
        <3> QED BY <1>1, <2>1, <2>2, <2>4, <2>9, <3>1 DEF BatchesKnown
    <2> QED BY <2>4, <2>8, <2>10, <2>11, QuietStepsKeep DEF ImportInv, TicksTrue
<1> QED BY <1>2, <1>3

(* The user sets or clears the tick for the batch that is shown. *)
LEMMA TickStep ==
    ASSUME ImportInv, Tick
    PROVE  ImportInv'
<1>1. /\ page' = [page EXCEPT !.tick = ~@]
      /\ ticked' = IF page'.tick THEN ticked \cup {page.batch} ELSE ticked
      /\ UNCHANGED <<batches, previews, commits, applied>>
    BY DEF Tick
<1>2. page \in PageType
    BY DEF ImportInv, CallsTyped
<1>3. /\ page' \in PageType /\ page'.batch = page.batch /\ page'.shown = page.shown
    BY <1>1, <1>2 DEF PageType
<1>4. QuietStep
    BY <1>1 DEF ImportInv, CallsTyped, QuietStep
<1>5. CallsTyped'
    BY <1>1, <1>3 DEF ImportInv, CallsTyped
<1>6. BatchesKnown'
    BY <1>1, <1>3 DEF ImportInv, BatchesKnown
<1>7. page'.tick => page'.batch \in ticked'
    BY <1>1, <1>3
<1> QED BY <1>4, <1>5, <1>6, <1>7, QuietStepsKeep DEF ImportInv, TicksTrue

(* A commit takes the batch that is shown, previewed and not yet committed, with
   the tick that the user set for it. *)
LEMMA CommitStep ==
    ASSUME ImportInv, Commit
    PROVE  ImportInv'
<1> DEFINE call == [batch |-> page.batch, confirm |-> page.tick, at |-> "sent",
                    open |-> TRUE, bound |-> TRUE, seen |-> page.batch]
           kept == Reset(commits)
<1>1. /\ page.batch # 0 /\ page.shown # "committed"
      /\ commits' = Append(kept, call)
      /\ UNCHANGED <<batches, page, previews, applied, ticked>>
    BY DEF Commit, CannotCommit
<1>2. /\ page \in PageType /\ commits \in Seq(CommitType)
      /\ DOMAIN commits = 1..Len(commits) /\ Len(commits) \in Nat
    BY DEF ImportInv, CallsTyped
<1>3. page.batch \in 1..Len(batches) /\ page.shown = "previewed"
    <2>1. page.batch \in 0..Len(batches) /\ (page.shown = "none" <=> page.batch = 0)
        BY DEF ImportInv, BatchesKnown
    <2>2. Len(batches) \in Nat
        BY DEF ImportInv, CallsTyped, IsSequence
    <2>3. page.shown \in {"none", "previewed", "committed"}
        BY <1>2 DEF PageType
    <2> QED BY <1>1, <2>1, <2>2, <2>3
<1>4. /\ call \in CommitType /\ call.batch = page.batch /\ call.seen = page.batch
      /\ call.confirm = page.tick /\ call.at = "sent"
    BY <1>2 DEF PageType, CommitType
<1>5. /\ kept \in Seq(CommitType) /\ Len(kept) = Len(commits) /\ DOMAIN kept = DOMAIN commits
      /\ \A i \in DOMAIN commits :
            /\ kept[i].batch = commits[i].batch /\ kept[i].confirm = commits[i].confirm
            /\ kept[i].at = commits[i].at /\ kept[i].seen = commits[i].seen
    BY <1>2, CallsReset
<1> HIDE DEF call, kept
<1>6. /\ commits' \in Seq(CommitType)
      /\ DOMAIN commits' = 1..(Len(commits) + 1)
      /\ \A i \in DOMAIN commits' :
            commits'[i] = IF i \in DOMAIN commits THEN kept[i] ELSE call
    BY <1>1, <1>2, <1>4, <1>5
<1>7. CallsTyped'
    BY <1>1, <1>6 DEF ImportInv, CallsTyped
<1>8. \A i \in DOMAIN commits' :
        \/ /\ i \in DOMAIN commits
           /\ commits'[i].batch = commits[i].batch /\ commits'[i].confirm = commits[i].confirm
           /\ commits'[i].at = commits[i].at /\ commits'[i].seen = commits[i].seen
        \/ /\ commits'[i].batch = page.batch /\ commits'[i].seen = page.batch
           /\ commits'[i].confirm = page.tick /\ commits'[i].at = "sent"
    BY <1>4, <1>5, <1>6
<1>9. BatchesKnown'
    <2>1. \A i \in DOMAIN commits' :
            /\ commits'[i].batch \in 1..Len(batches)
            /\ commits'[i].seen \in 1..Len(batches)
        BY <1>3, <1>8 DEF ImportInv, BatchesKnown
    <2> QED BY <1>1, <2>1 DEF ImportInv, BatchesKnown
<1>10. LockHeld'
    BY <1>1, <1>8 DEF ImportInv, LockHeld
<1>11. \A i \in DOMAIN commits' :
        /\ commits'[i].confirm => commits'[i].batch \in ticked
        /\ commits'[i].at = "checked" /\ IsMajority(batches[commits'[i].batch]) =>
            commits'[i].confirm
    BY <1>3, <1>8 DEF ImportInv, TicksTrue
<1>12. TicksTrue'
    BY <1>1, <1>11 DEF ImportInv, TicksTrue, MajorityConfirmed
<1> QED BY <1>7, <1>9, <1>10, <1>12 DEF ImportInv

(* The backend stores a preview as a batch of its own, not applied yet. *)
LEMMA PreviewMadeStep ==
    ASSUME ImportInv, NEW i \in DOMAIN previews, PreviewMade(i)
    PROVE  ImportInv'
<1>1. PICK S \in Firsts :
        batches' = Append(batches, Batch(previews[i].file, previews[i].full, S))
    BY DEF PreviewMade
<1> DEFINE b == Batch(previews[i].file, previews[i].full, S)
<1>2. /\ batches' = Append(batches, b)
      /\ applied' = Append(applied, 0)
      /\ previews' = [previews EXCEPT ![i].batch = Len(batches')]
      /\ UNCHANGED <<page, commits, ticked>>
    BY <1>1 DEF PreviewMade
<1>3. IsBatch(b) /\ b.status = "previewed"
    BY DEF Batch, IsBatch
<1> HIDE DEF b
<1>4. IsSequence(batches) /\ applied \in Seq(Nat) /\ Len(applied) = Len(batches)
    BY DEF ImportInv, CallsTyped
<1>5. /\ IsSequence(batches') /\ Len(batches) \in Nat
      /\ DOMAIN batches = 1..Len(batches)
      /\ Len(batches') = Len(batches) + 1
      /\ DOMAIN batches' = 1..(Len(batches) + 1)
      /\ batches'[Len(batches) + 1] = b
      /\ \A k \in 1..Len(batches) : batches'[k] = batches[k]
    BY <1>2, <1>4, Extended
<1>6. /\ applied' \in Seq(Nat) /\ Len(applied') = Len(batches')
      /\ applied'[Len(batches) + 1] = 0
      /\ \A k \in 1..Len(batches) : applied'[k] = applied[k]
    BY <1>2, <1>4, <1>5
<1>7. /\ previews \in Seq(PreviewType)
      /\ \A j \in DOMAIN previews : previews[j].batch \in 0..Len(batches)
    BY DEF ImportInv, CallsTyped, BatchesKnown
<1>8. previews' \in Seq(PreviewType) /\ DOMAIN previews' = DOMAIN previews
    <2> DEFINE p == [previews[i] EXCEPT !.batch = Len(batches')]
    <2>1. previews' = [previews EXCEPT ![i] = p]
        BY <1>2
    <2>2. p \in PreviewType
        <3>1. previews[i] \in PreviewType
            BY <1>7
        <3>2. Len(batches') \in Nat
            BY <1>5
        <3> QED BY <3>1, <3>2 DEF PreviewType
    <2> HIDE DEF p
    <2> QED BY <1>7, <2>1, <2>2
<1>9. \A j \in DOMAIN previews' : previews'[j].batch \in 0..Len(batches')
    <2>1. \A j \in DOMAIN previews : previews[j] \in PreviewType
        BY <1>7
    <2>2. \A j \in DOMAIN previews :
            previews'[j].batch = IF j = i THEN Len(batches') ELSE previews[j].batch
        BY <1>2, <2>1 DEF PreviewType
    <2> QED BY <1>5, <1>7, <1>8, <2>2
<1>10. CallsTyped'
    <2>1. \A k \in DOMAIN batches' : IsBatch(batches'[k])
        <3>1. \A k \in 1..Len(batches) : IsBatch(batches[k])
            BY <1>5 DEF ImportInv, CallsTyped
        <3>2. \A k \in DOMAIN batches' : k \in 1..Len(batches) \/ k = Len(batches) + 1
            BY <1>5
        <3> QED BY <1>3, <1>5, <3>1, <3>2
    <2> QED BY <1>2, <1>5, <1>6, <1>8, <2>1 DEF ImportInv, CallsTyped
<1>11. \A j \in DOMAIN commits :
        commits[j].batch \in 1..Len(batches) /\ commits[j].seen \in 1..Len(batches)
    BY DEF ImportInv, BatchesKnown
<1>12. BatchesKnown'
    <2>1. page.batch \in 0..Len(batches')
        BY <1>5 DEF ImportInv, BatchesKnown
    <2>2. \A j \in DOMAIN commits :
            commits[j].batch \in 1..Len(batches') /\ commits[j].seen \in 1..Len(batches')
        BY <1>5, <1>11
    <2> QED BY <1>2, <1>9, <2>1, <2>2 DEF ImportInv, BatchesKnown
<1>13. LockHeld'
    <2>1. \A k \in DOMAIN batches' :
            applied'[k] = IF batches'[k].status = "committed" THEN 1 ELSE 0
        BY <1>3, <1>5, <1>6 DEF ImportInv, LockHeld
    <2> QED BY <1>2, <1>5, <1>11, <2>1 DEF ImportInv, LockHeld
<1>14. TicksTrue'
    <2>1. \A j \in DOMAIN commits : batches'[commits[j].batch] = batches[commits[j].batch]
        BY <1>5, <1>11
    <2>2. MajorityConfirmed'
        BY <1>2, <1>3, <1>5 DEF ImportInv, TicksTrue, MajorityConfirmed
    <2> QED BY <1>2, <2>1, <2>2 DEF ImportInv, TicksTrue
<1> QED BY <1>10, <1>12, <1>13, <1>14 DEF ImportInv

(* The backend decides on a commit; what it refuses or rolls back leaves no
   trace. *)
LEMMA DecisionSteps ==
    ASSUME ImportInv, NEW i \in DOMAIN commits, CommitChecks(i) \/ CommitRollsBack(i)
    PROVE  ImportInv'
<1> DEFINE may == MayApply(batches[commits[i].batch], commits[i].confirm)
<1>1. UNCHANGED <<batches, page, previews, applied, ticked>>
    BY DEF CommitChecks, CommitRollsBack
<1>2. PICK m \in {"checked", "refused"} :
        /\ commits' = [commits EXCEPT ![i].at = m]
        /\ m = "checked" => commits[i].at = "sent" /\ LockFree(i) /\ may
    <2>1. CASE CommitChecks(i)
        <3>1. CASE may
            BY <2>1, <3>1 DEF CommitChecks
        <3>2. CASE ~may
            BY <2>1, <3>2 DEF CommitChecks
        <3> QED BY <3>1, <3>2
    <2>2. CASE CommitRollsBack(i)
        BY <2>2 DEF CommitRollsBack
    <2> QED BY <2>1, <2>2
<1>3. commits \in Seq(CommitType)
    BY DEF ImportInv, CallsTyped
<1>4. commits' \in Seq(CommitType) /\ DOMAIN commits' = DOMAIN commits
    BY <1>2, <1>3, CommitMarked
<1>5. \A j \in DOMAIN commits :
        /\ commits'[j].batch = commits[j].batch /\ commits'[j].confirm = commits[j].confirm
        /\ commits'[j].seen = commits[j].seen
        /\ commits'[j].at = IF j = i THEN m ELSE commits[j].at
    BY <1>2, <1>3, CommitMarked
<1>6. m = "checked" =>
        /\ batches[commits[i].batch].status = "previewed"
        /\ Count(batches[commits[i].batch], "conflict") = 0
        /\ IsMajority(batches[commits[i].batch]) => commits[i].confirm
        /\ \A j \in DOMAIN commits :
            commits[j].at = "checked" => commits[j].batch # commits[i].batch
    BY <1>2 DEF MayApply, LockFree
<1>7. CallsTyped'
    BY <1>1, <1>4 DEF ImportInv, CallsTyped
<1>8. BatchesKnown'
    BY <1>1, <1>4, <1>5 DEF ImportInv, BatchesKnown
<1>9. LockHeld'
    BY <1>1, <1>4, <1>5, <1>6 DEF ImportInv, LockHeld
<1>10. TicksTrue'
    BY <1>1, <1>4, <1>5, <1>6 DEF ImportInv, TicksTrue, MajorityConfirmed
<1> QED BY <1>7, <1>8, <1>9, <1>10 DEF ImportInv

(* A batch that is applied was previewed, its lock taken by this commit alone, and
   has the tick it needs. *)
LEMMA ApplyStep ==
    ASSUME ImportInv, NEW i \in DOMAIN commits, CommitApplies(i)
    PROVE  ImportInv'
<1> DEFINE b == commits[i].batch
           done == [batches[b] EXCEPT !.status = "committed"]
<1>1. /\ commits[i].at = "checked"
      /\ batches' = [batches EXCEPT ![b] = done]
      /\ applied' = [applied EXCEPT ![b] = @ + 1]
      /\ commits' = [commits EXCEPT ![i].at = "done"]
      /\ UNCHANGED <<page, previews, ticked>>
    BY DEF CommitApplies
<1>2. /\ IsSequence(batches) /\ applied \in Seq(Nat) /\ Len(applied) = Len(batches)
      /\ commits \in Seq(CommitType)
      /\ b \in 1..Len(batches) /\ DOMAIN batches = 1..Len(batches)
      /\ DOMAIN applied = 1..Len(batches)
    BY DEF ImportInv, CallsTyped, BatchesKnown, IsSequence
<1>3. IsBatch(batches[b]) /\ batches[b].status = "previewed" /\ applied[b] = 0
    BY <1>1, <1>2 DEF ImportInv, CallsTyped, LockHeld
<1>4. /\ IsBatch(done) /\ done.status = "committed"
      /\ done.rows = batches[b].rows /\ done.total = batches[b].total
    BY <1>3 DEF IsBatch
<1>5. \A j \in DOMAIN commits :
        commits[j].at = "checked" /\ commits[j].batch = b => i = j
    BY <1>1 DEF ImportInv, LockHeld
<1>6. IsMajority(done) => b \in ticked
    BY <1>1, <1>4, SameMajority DEF ImportInv, TicksTrue
<1> HIDE DEF b, done
<1>7. /\ IsSequence(batches') /\ Len(batches') = Len(batches)
      /\ DOMAIN batches' = DOMAIN batches
      /\ batches'[b] = done
      /\ \A k \in DOMAIN batches \ {b} : batches'[k] = batches[k]
    BY <1>1, <1>2, Changed
<1>8. /\ applied' \in Seq(Nat) /\ Len(applied') = Len(batches)
      /\ \A k \in DOMAIN batches : applied'[k] = IF k = b THEN 1 ELSE applied[k]
    BY <1>1, <1>2, <1>3
<1>9. /\ commits' \in Seq(CommitType) /\ DOMAIN commits' = DOMAIN commits
      /\ \A j \in DOMAIN commits :
            /\ commits'[j].batch = commits[j].batch /\ commits'[j].confirm = commits[j].confirm
            /\ commits'[j].seen = commits[j].seen
            /\ commits'[j].at = IF j = i THEN "done" ELSE commits[j].at
    <2>1. PICK m \in {"checked", "refused", "done"} : m = "done"
        OBVIOUS
    <2>2. commits' = [commits EXCEPT ![i].at = m]
        BY <1>1, <2>1
    <2>3. commits \in Seq(CommitType)
        BY <1>2
    <2>4. commits' \in Seq(CommitType) /\ DOMAIN commits' = DOMAIN commits
        BY <2>2, <2>3, CommitMarked
    <2>5. \A j \in DOMAIN commits :
            /\ commits'[j].batch = commits[j].batch
            /\ commits'[j].confirm = commits[j].confirm
            /\ commits'[j].seen = commits[j].seen
            /\ commits'[j].at = IF j = i THEN m ELSE commits[j].at
        BY <2>2, <2>3, CommitMarked
    <2> QED BY <2>1, <2>4, <2>5
<1>10. CallsTyped'
    <2>1. \A k \in DOMAIN batches' : IsBatch(batches'[k])
        BY <1>4, <1>7 DEF ImportInv, CallsTyped
    <2> QED BY <1>1, <1>7, <1>8, <1>9, <2>1 DEF ImportInv, CallsTyped
<1>11. BatchesKnown'
    BY <1>1, <1>7, <1>9 DEF ImportInv, BatchesKnown
<1>12. LockHeld'
    <2>1. \A k \in DOMAIN batches' :
            applied'[k] = IF batches'[k].status = "committed" THEN 1 ELSE 0
        BY <1>4, <1>7, <1>8 DEF ImportInv, LockHeld
    <2>2. \A j \in DOMAIN commits : commits'[j].at = "checked" =>
            /\ j # i /\ commits[j].at = "checked"
            /\ commits[j].batch # b /\ commits[j].batch \in DOMAIN batches
        BY <1>2, <1>5, <1>9 DEF ImportInv, BatchesKnown
    <2> QED BY <1>7, <1>9, <2>1, <2>2 DEF ImportInv, LockHeld
<1>13. TicksTrue'
    <2>1. \A k \in DOMAIN batches' : IsMajority(batches'[k]) <=> IsMajority(batches[k])
        BY <1>4, <1>7, SameMajority
    <2>2. MajorityConfirmed'
        BY <1>1, <1>6, <1>7 DEF ImportInv, TicksTrue, MajorityConfirmed
    <2>3. \A j \in DOMAIN commits : commits[j].batch \in DOMAIN batches
        BY <1>2 DEF ImportInv, BatchesKnown
    <2> QED BY <1>1, <1>7, <1>9, <2>1, <2>2, <2>3 DEF ImportInv, TicksTrue
<1> QED BY <1>10, <1>11, <1>12, <1>13 DEF ImportInv

--------------------------------------------------------------------------------
(* Theorems. *)

THEOREM ImportInvariant == Spec => []ImportInv
<1>1. Init => ImportInv
    BY DEF Init, ImportInv, CallsTyped, BatchesKnown, LockHeld, TicksTrue,
        MajorityConfirmed, PageType, IsSequence
<1>2. ImportInv /\ [Next]_vars => ImportInv'
    <2> SUFFICES ASSUME ImportInv, [Next]_vars PROVE ImportInv'
        OBVIOUS
    <2>1. CASE \/ \E f \in Files \cup {NoFile} : ChooseFile(f)
               \/ \E full \in BOOLEAN : Preview(full)
               \/ \E i \in DOMAIN previews : PreviewFails(i)
               \/ \E i \in DOMAIN commits : CommitFails(i)
        BY <2>1, PageSteps
    <2>2. CASE Tick
        BY <2>2, TickStep
    <2>3. CASE Commit
        BY <2>3, CommitStep
    <2>4. CASE \/ \E i \in DOMAIN previews : PreviewAnswered(i)
               \/ \E i \in DOMAIN commits : CommitAnswered(i)
        BY <2>4, AnswerSteps
    <2>5. CASE \E i \in DOMAIN previews : PreviewMade(i)
        BY <2>5, PreviewMadeStep
    <2>6. CASE \E i \in DOMAIN commits : CommitChecks(i) \/ CommitRollsBack(i)
        BY <2>6, DecisionSteps
    <2>7. CASE \E i \in DOMAIN commits : CommitApplies(i)
        BY <2>7, ApplyStep
    <2>8. CASE UNCHANGED <<batches, page, previews, commits, applied, ticked>>
        BY <2>8 DEF ImportInv, CallsTyped, BatchesKnown, LockHeld, TicksTrue,
            MajorityConfirmed
    <2>9. CASE \E v \in Live :
                \/ \E t \in Owners : SetOwner(v, t)
                \/ \E flag \in Flags : SetMonitoring(v, flag)
                \/ \E c \in Clusters : Move(v, c)
                \/ Delete(v)
        BY <2>8, <2>9 DEF SetOwner, SetMonitoring, Move, Delete, EditBy
    <2>10. CASE UNCHANGED vars
        BY <2>8, <2>10 DEF vars
    <2> QED BY <2>1, <2>2, <2>3, <2>4, <2>5, <2>6, <2>7, <2>9, <2>10 DEF Next
<1> QED BY <1>1, <1>2, PTL DEF Spec

(* A batch is applied at most once (imports.rs: the lock and the status of the
   batch in commit), however often its commit is sent again. *)
THEOREM ImportAppliedOnce == Spec => []AppliedOnce
<1>1. ImportInv => AppliedOnce
    <2> SUFFICES ASSUME ImportInv, NEW b \in DOMAIN applied PROVE applied[b] <= 1
        BY DEF AppliedOnce
    <2>1. b \in DOMAIN batches
        BY DEF ImportInv, CallsTyped, IsSequence
    <2>2. applied[b] \in {0, 1}
        BY <2>1 DEF ImportInv, LockHeld
    <2> QED BY <2>2
<1> QED BY <1>1, ImportInvariant, PTL

(* More than half of a scope is only decommissioned by a batch for which the user
   set the confirmation while that batch was shown (ImportCsvPage.tsx: the resets
   of confirmDecommission; imports.rs: commit's demand for it). *)
THEOREM ImportMajorityConfirmed == Spec => []MajorityConfirmed
<1>1. ImportInv => MajorityConfirmed
    BY DEF ImportInv, TicksTrue
<1> QED BY <1>1, ImportInvariant, PTL

--------------------------------------------------------------------------------
(* What a batch does to the VMs. *)

(* A row of a batch does what a row of its file says, or decommissions a VM. *)
RowFrom(row, file) ==
    /\ row.action \in {"create", "update", "unchanged", "decommission", "conflict"}
    /\ row.action \in {"create", "update"} => \E j \in DOMAIN file : row.cells = file[j]
    /\ row.action \in {"update", "decommission"} => row.target \in Ids

FromFile(b) ==
    /\ b.file \in Files
    /\ Len(b.rows) \in Nat
    /\ DOMAIN b.rows = 1..Len(b.rows)
    /\ \A k \in DOMAIN b.rows : RowFrom(b.rows[k], b.file)

(* Each result is that of the rows before, with one row more: the function that
   Applied chooses exists for every number of rows. *)
LEMMA RowsInOrder ==
    ASSUME NEW rows, Len(rows) \in Nat
    PROVE  \E d : /\ Applied(rows) = d[Len(rows)]
                  /\ d[0] = [ok |-> TRUE, vms |-> vms]
                  /\ \A n \in 1..Len(rows) : d[n] = AfterRow(d[n - 1], rows[n])
<1> DEFINE start == [ok |-> TRUE, vms |-> vms]
           F(N, g) == [n \in 0..N |-> IF n = 0 THEN start ELSE AfterRow(g[n - 1], rows[n])]
           Without == {N \in Nat : ~\E g : g = F(N, g)}
<1>1. ASSUME Without # {}
      PROVE  FALSE
    <2>1. PICK N \in Without : \A M \in Without : ~(<<M, N>> \in OpToRel(<, Nat))
        <3>1. Without \subseteq Nat
            OBVIOUS
        <3> HIDE DEF Without
        <3> QED BY <1>1, <3>1, WFMin, NatLessThanWellFounded
    <2>2. N \in Nat /\ ~\E g : g = F(N, g)
        BY <2>1
    <2>3. N # 0
        <3>1. [n \in {0} |-> start] = F(0, [n \in {0} |-> start])
            OBVIOUS
        <3> QED BY <2>2, <3>1
    <2>4. N - 1 \in Nat /\ <<N - 1, N>> \in OpToRel(<, Nat)
        BY <2>2, <2>3 DEF OpToRel
    <2>5. PICK g : g = F(N - 1, g)
        BY <2>1, <2>4
    <2> DEFINE h == [n \in 0..N |-> IF n < N THEN g[n] ELSE AfterRow(g[N - 1], rows[N])]
    <2>6. ASSUME NEW n \in 0..N
          PROVE  h[n] = F(N, h)[n]
        <3>1. \A m \in 0..(N - 1) : g[m] = IF m = 0 THEN start ELSE AfterRow(g[m - 1], rows[m])
            BY <2>5
        <3>2. CASE n = N
            <4>1. h[N - 1] = g[N - 1]
                BY <2>2, <2>3
            <4> QED BY <2>2, <2>3, <3>2, <4>1
        <3>3. CASE n < N /\ n # 0
            <4>1. h[n - 1] = g[n - 1] /\ h[n] = g[n]
                BY <2>2, <3>3
            <4>2. g[n] = AfterRow(g[n - 1], rows[n])
                BY <2>2, <3>1, <3>3
            <4> QED BY <3>3, <4>1, <4>2
        <3>4. CASE n = 0
            <4>1. 0 \in 0..(N - 1) /\ 0 < N
                BY <2>2, <2>3
            <4>2. g[0] = start
                BY <3>1, <4>1
            <4>3. h[0] = g[0] /\ F(N, h)[0] = start
                BY <2>2, <4>1
            <4> HIDE DEF h, F, start
            <4> QED BY <3>4, <4>2, <4>3
        <3> QED BY <2>2, <3>2, <3>3, <3>4
    <2>7. h = F(N, h)
        BY <2>6
    <2> HIDE DEF h, F
    <2> QED BY <2>2, <2>7
<1> DEFINE d == CHOOSE g : g = F(Len(rows), g)
<1>2. d = F(Len(rows), d)
    <2>1. \E g : g = F(Len(rows), g)
        BY <1>1
    <2> HIDE DEF F
    <2> QED BY <2>1
<1>3. Applied(rows) = d[Len(rows)]
    BY DEF Applied
<1>4. /\ F(Len(rows), d)[0] = start
      /\ \A n \in 1..Len(rows) : F(Len(rows), d)[n] = AfterRow(d[n - 1], rows[n])
    OBVIOUS
<1>5. d[0] = start /\ \A n \in 1..Len(rows) : d[n] = AfterRow(d[n - 1], rows[n])
    <2> HIDE DEF d, F
    <2> QED BY <1>2, <1>4
<1> QED BY <1>3, <1>5

(* What becomes of a VM that was there while rows of the file are applied: it
   keeps its identity and what is curated, and changes only by a row with its identity. *)
Follows(v, x, file) ==
    /\ x \in Vm
    /\ Identity(x) = Identity(vms[v])
    /\ supplied(vms[v].owner) => x.owner = vms[v].owner
    /\ supplied(vms[v].monitoring) => x.monitoring = vms[v].monitoring
    /\ <<x.owner, x.monitoring, x.ext>> # <<vms[v].owner, vms[v].monitoring, vms[v].ext>> =>
        \E j \in DOMAIN file : Identity(file[j]) = Identity(vms[v])

Keeps(table, file) ==
    /\ table \in [Ids -> Vm \cup {NoVm, Gone}]
    /\ \A v \in Live : Follows(v, table[v], file)

(* An update keeps the identity, which has the external id only where a row has
   the same. *)
LEMMA UpdateFollows ==
    ASSUME NEW x \in Vm, NEW row \in CsvRow, Identity(x) = Identity(row)
    PROVE  /\ Updated(x, row) \in Vm
           /\ Identity(Updated(x, row)) = Identity(x)
           /\ Updated(x, row).owner = Filled(x.owner, row.owner)
           /\ Updated(x, row).monitoring = Filled(x.monitoring, row.monitoring)
<1> DEFINE own == Filled(x.owner, row.owner)
           mon == Filled(x.monitoring, row.monitoring)
           ext == Replaced(x.ext, row.ext)
<1>1. PICK pl \in Platforms, na \in Texts, cl \in Clusters, ex \in Texts \cup {Blank},
           ow \in Texts \cup {Blank}, mo \in Flags,
           st \in {"running", "unknown", "decommissioned"} :
        x = [platform |-> pl, name |-> na, cluster |-> cl, ext |-> ex, owner |-> ow,
             monitoring |-> mo, status |-> st]
    BY DEF Vm
<1>2. own \in Texts \cup {Blank} /\ mon \in Flags /\ ext \in Texts \cup {Blank}
    <2>1. /\ row.owner \in Texts \cup {Blank} /\ row.monitoring \in Flags \cup {Blank}
          /\ row.ext \in Texts \cup {Blank}
        BY DEF CsvRow
    <2>2. x.owner = ow /\ x.monitoring = mo /\ x.ext = ex
        BY <1>1
    <2> QED BY <2>1, <2>2 DEF Filled, Replaced
<1> HIDE DEF own, mon, ext
<1>3. Updated(x, row) =
        [[[x EXCEPT !.owner = own] EXCEPT !.monitoring = mon] EXCEPT !.ext = ext]
    BY DEF Updated, own, mon, ext
<1>4. [x EXCEPT !.owner = own] =
        [platform |-> pl, name |-> na, cluster |-> cl, ext |-> ex, owner |-> own,
         monitoring |-> mo, status |-> st]
    BY <1>1
<1>5. Updated(x, row) =
        [platform |-> pl, name |-> na, cluster |-> cl, ext |-> ext, owner |-> own,
         monitoring |-> mon, status |-> st]
    BY <1>3, <1>4
<1>6. Updated(x, row) \in Vm
    BY <1>2, <1>5 DEF Vm
<1>7. pl = "proxmox" => ext = ex
    <2>1. CASE pl = "proxmox" /\ row.platform = "proxmox"
        BY <1>1, <2>1 DEF Identity, Replaced, ext
    <2>2. CASE pl = "proxmox" /\ row.platform # "proxmox"
        BY <1>1, <2>2 DEF Identity
    <2> QED BY <2>1, <2>2
<1>8. Identity(Updated(x, row)) = Identity(x)
    BY <1>1, <1>5, <1>7 DEF Identity
<1> QED BY <1>5, <1>6, <1>8 DEF own, mon

LEMMA RowKeeps ==
    ASSUME NEW table, NEW file \in Seq(CsvRow), NEW row,
           vms \in [Ids -> Vm \cup {NoVm, Gone}], Keeps(table, file),
           RowFrom(row, file), row.action \in {"create", "update", "decommission"},
           row.action = "create" => Unused(table) # {},
           row.action # "create" => StillMatches(table, row)
    PROVE  Keeps(RowApplied(table, row), file)
<1> DEFINE new == RowApplied(table, row)
<1>1. CASE row.action = "create"
    <2> DEFINE at == CHOOSE v \in Unused(table) : TRUE
    <2>1. at \in Unused(table) /\ at \in Ids /\ table[at] = NoVm
        BY <1>1 DEF Unused
    <2>2. new = [table EXCEPT ![at] = Created(row.cells)]
        BY <1>1 DEF RowApplied
    <2>3. Created(row.cells) \in Vm
        <3>1. row.cells \in CsvRow
            BY <1>1 DEF RowFrom
        <3>2. Replaced("false", row.cells.monitoring) \in Flags
            BY <3>1 DEF CsvRow, Replaced, Flags
        <3> QED BY <3>1, <3>2 DEF Created, CsvRow, Vm
    <2>4. at \notin Live
        BY <2>1, NoVmIsNone DEF Keeps, Follows
    <2> HIDE DEF at, new
    <2>5. new \in [Ids -> Vm \cup {NoVm, Gone}] /\ \A v \in Ids \ {at} : new[v] = table[v]
        BY <2>1, <2>2, <2>3 DEF Keeps
    <2> QED BY <2>4, <2>5 DEF Keeps, Live, new
<1>2. CASE row.action = "update"
    <2> DEFINE at == row.target
    <2>1. PICK j \in DOMAIN file : row.cells = file[j]
        BY <1>2 DEF RowFrom
    <2>2. row.cells \in CsvRow
        BY <2>1
    <2>3. at \in Ids /\ table[at] \in Vm /\ Identity(table[at]) = Identity(row.cells)
        BY <1>2 DEF RowFrom, StillMatches, Keeps
    <2>4. new = [table EXCEPT ![at] = Updated(table[at], row.cells)]
        BY <1>2 DEF RowApplied
    <2>5. /\ Updated(table[at], row.cells) \in Vm
          /\ Identity(Updated(table[at], row.cells)) = Identity(table[at])
          /\ Updated(table[at], row.cells).owner = Filled(table[at].owner, row.cells.owner)
          /\ Updated(table[at], row.cells).monitoring =
                Filled(table[at].monitoring, row.cells.monitoring)
        BY <2>2, <2>3, UpdateFollows
    <2> HIDE DEF at, new
    <2>6. /\ new \in [Ids -> Vm \cup {NoVm, Gone}]
          /\ new[at] = Updated(table[at], row.cells)
          /\ \A v \in Ids \ {at} : new[v] = table[v]
        BY <2>3, <2>4, <2>5 DEF Keeps
    <2>7. ASSUME at \in Live
          PROVE  Follows(at, new[at], file)
        <3>1. Follows(at, table[at], file)
            BY <2>7 DEF Keeps
        <3>2. /\ supplied(vms[at].owner) => new[at].owner = vms[at].owner
              /\ supplied(vms[at].monitoring) => new[at].monitoring = vms[at].monitoring
            BY <2>5, <2>6, <3>1 DEF Follows, Filled
        <3>3. Identity(file[j]) = Identity(vms[at])
            BY <2>1, <2>3, <3>1 DEF Follows
        <3> QED BY <2>5, <2>6, <3>1, <3>2, <3>3 DEF Follows
    <2> QED BY <2>6, <2>7 DEF Keeps, Live, new
<1>3. CASE row.action = "decommission"
    <2> DEFINE at == row.target
    <2>1. at \in Ids /\ table[at] \in Vm
        BY <1>3 DEF RowFrom, StillMatches, Keeps
    <2>2. PICK m \in {"running", "unknown", "decommissioned"} : m = "decommissioned"
        OBVIOUS
    <2> DEFINE x == [table[at] EXCEPT !.status = m]
    <2>3. new = [table EXCEPT ![at] = x]
        BY <1>3, <2>2 DEF RowApplied
    <2>4. /\ x \in Vm /\ x.platform = table[at].platform /\ x.name = table[at].name
          /\ x.cluster = table[at].cluster /\ x.ext = table[at].ext
          /\ x.owner = table[at].owner /\ x.monitoring = table[at].monitoring
        BY <2>1 DEF Vm
    <2>5. Identity(x) = Identity(table[at])
        BY <2>4 DEF Identity
    <2> HIDE DEF at, new, x
    <2>6. /\ new \in [Ids -> Vm \cup {NoVm, Gone}]
          /\ new[at] = x
          /\ \A v \in Ids \ {at} : new[v] = table[v]
        BY <2>1, <2>3, <2>4 DEF Keeps
    <2>7. ASSUME at \in Live
          PROVE  Follows(at, new[at], file)
        BY <2>4, <2>5, <2>6, <2>7 DEF Keeps, Follows
    <2> QED BY <2>6, <2>7 DEF Keeps, Live, new
<1> QED BY <1>1, <1>2, <1>3

(* Row by row, also when one fails on the way. *)
LEMMA BatchKeeps ==
    ASSUME NEW b, FromFile(b), \A k \in DOMAIN b.rows : b.rows[k].action # "conflict",
           vms \in [Ids -> Vm \cup {NoVm, Gone}]
    PROVE  Keeps(Applied(b.rows).vms, b.file)
<1> DEFINE rows == b.rows
           file == b.file
<1>1. /\ Len(rows) \in Nat /\ DOMAIN rows = 1..Len(rows)
      /\ \A k \in DOMAIN rows : RowFrom(rows[k], file)
      /\ file \in Seq(CsvRow)
    BY FilesHoldRows DEF FromFile
<1>2. PICK d : /\ Applied(rows) = d[Len(rows)]
               /\ d[0] = [ok |-> TRUE, vms |-> vms]
               /\ \A n \in 1..Len(rows) : d[n] = AfterRow(d[n - 1], rows[n])
    BY <1>1, RowsInOrder
<1> HIDE DEF rows, file
<1>3. Keeps(d[0].vms, file)
    <2>1. d[0].vms = vms
        BY <1>2
    <2> QED BY <2>1 DEF Keeps, Follows, Live
<1>4. ASSUME NEW n \in 1..Len(rows), Keeps(d[n - 1].vms, file)
      PROVE  Keeps(d[n].vms, file)
    <2> DEFINE done == d[n - 1]
               row == rows[n]
    <2>1. d[n] = AfterRow(done, row) /\ RowFrom(row, file) /\ row.action # "conflict"
        BY <1>1, <1>2, <1>4 DEF rows
    <2>2. CASE row.action = "unchanged" \/ ~done.ok
        BY <1>4, <2>1, <2>2 DEF AfterRow
    <2>3. CASE /\ ~(row.action = "unchanged" \/ ~done.ok)
               /\ IF row.action = "create" THEN Unused(done.vms) = {}
                  ELSE ~StillMatches(done.vms, row)
        <3>1. d[n] = [ok |-> FALSE, vms |-> done.vms]
            BY <2>1, <2>3 DEF AfterRow
        <3> QED BY <1>4, <3>1
    <2>4. CASE /\ ~(row.action = "unchanged" \/ ~done.ok)
               /\ ~IF row.action = "create" THEN Unused(done.vms) = {}
                   ELSE ~StillMatches(done.vms, row)
        <3>1. d[n].vms = RowApplied(done.vms, row)
            BY <2>1, <2>4 DEF AfterRow
        <3>2. row.action \in {"create", "update", "decommission"}
            BY <2>1, <2>4 DEF RowFrom
        <3> HIDE DEF done, row
        <3> QED BY <1>1, <1>4, <2>1, <2>4, <3>1, <3>2, RowKeeps DEF done
    <2> QED BY <2>2, <2>3, <2>4
<1>5. \A n \in 0..Len(rows) : Keeps(d[n].vms, file)
    <2> DEFINE Broken == {n \in 0..Len(rows) : ~Keeps(d[n].vms, file)}
    <2> SUFFICES ASSUME Broken # {}
                 PROVE  FALSE
        OBVIOUS
    <2>1. Broken \subseteq Nat
        BY <1>1
    <2>2. PICK n \in Broken : \A m \in Broken : ~(<<m, n>> \in OpToRel(<, Nat))
        <3> HIDE DEF Broken
        <3> QED BY <2>1, WFMin, NatLessThanWellFounded
    <2>3. n \in 1..Len(rows) /\ n - 1 \in 0..Len(rows) /\ <<n - 1, n>> \in OpToRel(<, Nat)
        BY <1>1, <1>3, <2>2 DEF OpToRel
    <2>4. Keeps(d[n - 1].vms, file)
        BY <2>2, <2>3
    <2> QED BY <1>4, <2>2, <2>3, <2>4
<1> QED BY <1>1, <1>2, <1>5 DEF rows, file

--------------------------------------------------------------------------------
(* How a preview makes the rows of a batch. *)

LEMMA SetInOrder ==
    ASSUME NEW M, IsFiniteSet(M)
    PROVE  Cardinality(M) \in Nat /\ SetToSeq(M) \in [1..Cardinality(M) -> M]
<1>1. Cardinality(M) \in Nat /\ ExistsBijection(1..Cardinality(M), M)
    BY FS_CardinalityType
<1>2. PICK f \in [1..Cardinality(M) -> M] : IsInjective(f)
    BY <1>1 DEF ExistsBijection, Bijection, Injection, IsInjective
<1> QED BY <1>1, <1>2 DEF SetToSeq

LEMMA ClassifiedFrom ==
    ASSUME NEW file \in Files, NEW k \in DOMAIN file, NEW S \in Firsts
    PROVE  RowFrom(Classified(file, k, S), file)
<1> DEFINE row == file[k]
           match == {v \in S : Identity(vms[v]) = Identity(row)}
           v == CHOOSE m \in match : TRUE
           twice == \E j \in 1..(k - 1) : Identity(file[j]) = Identity(row)
           kind == IF Updated(vms[v], row) = vms[v] THEN "unchanged" ELSE "update"
<1>1. Classified(file, k, S) =
        IF twice THEN Row("conflict", NoVm, row)
        ELSE IF match = {} THEN Row("create", NoVm, row)
        ELSE Row(kind, v, row)
    BY DEF Classified
<1>2. match # {} => v \in Ids
    BY DEF Firsts, Live
<1>3. kind \in {"unchanged", "update"}
    OBVIOUS
<1> HIDE DEF match, v, twice, kind
<1>4. CASE twice
    BY <1>1, <1>4 DEF Row, RowFrom
<1>5. CASE ~twice /\ match = {}
    BY <1>1, <1>5 DEF Row, RowFrom
<1>6. CASE ~twice /\ match # {}
    BY <1>1, <1>2, <1>3, <1>6 DEF Row, RowFrom
<1> QED BY <1>4, <1>5, <1>6

LEMMA BatchFrom ==
    ASSUME NEW file \in Files, NEW full \in BOOLEAN, NEW S \in Firsts
    PROVE  FromFile(Batch(file, full, S))
<1> DEFINE named == [k \in DOMAIN file |-> Classified(file, k, S)]
           matched == {named[k].target : k \in DOMAIN named} \ {NoVm}
           missing == IF full THEN Missing(file, matched) ELSE {}
           gone == SetToSeq(missing)
           last == [n \in DOMAIN gone |-> Row("decommission", gone[n], NoFile)]
           R == {named[k] : k \in DOMAIN file} \cup {last[n] : n \in DOMAIN gone}
<1>1. Batch(file, full, S).rows = named \o last /\ Batch(file, full, S).file = file
    BY DEF Batch
<1>2. DOMAIN file = 1..Len(file) /\ Len(file) \in Nat
    BY FilesHoldRows
<1>3. missing \subseteq Ids
    BY DEF Missing, Live
<1>4. IsFiniteSet(missing)
    BY <1>3, IdsAreFinite, FS_Subset
<1>5. Cardinality(missing) \in Nat /\ gone \in [1..Cardinality(missing) -> missing]
    <2> HIDE DEF missing
    <2> QED BY <1>4, SetInOrder
<1>6. \A x \in R : RowFrom(x, file)
    <2>1. \A k \in DOMAIN file : RowFrom(named[k], file)
        BY ClassifiedFrom
    <2>2. \A n \in DOMAIN gone : RowFrom(last[n], file)
        <3> HIDE DEF gone, missing
        <3> QED BY <1>3, <1>5 DEF Row, RowFrom
    <2> HIDE DEF named, last, gone
    <2> QED BY <2>1, <2>2
<1> HIDE DEF missing, matched
<1>7. named \in Seq(R) /\ last \in Seq(R)
    <2>1. DOMAIN gone = 1..Cardinality(missing)
        BY <1>5
    <2> HIDE DEF gone
    <2> QED BY <1>2, <1>5, <2>1
<1> HIDE DEF named, last, R
<1>8. named \o last \in Seq(R)
    BY <1>7
<1>9. /\ Len(named \o last) \in Nat
      /\ DOMAIN (named \o last) = 1..Len(named \o last)
      /\ \A k \in DOMAIN (named \o last) : (named \o last)[k] \in R
    BY <1>8
<1> QED BY <1>1, <1>6, <1>9 DEF FromFile

--------------------------------------------------------------------------------
(* The table holds VMs, and the batches what the files say. *)
TablesInv ==
    /\ vms \in [Ids -> Vm \cup {NoVm, Gone}]
    /\ edits \in Nat
    /\ \A b \in DOMAIN batches : FromFile(batches[b])

(* What is applied follows the file of its batch. *)
LEMMA ApplyFollows ==
    ASSUME ImportInv, TablesInv, NEW i \in DOMAIN commits, CommitApplies(i)
    PROVE  /\ commits[i].batch \in DOMAIN batches
           /\ Keeps(vms', batches[commits[i].batch].file)
<1> DEFINE b == batches[commits[i].batch]
<1>1. commits[i].batch \in DOMAIN batches
    BY DEF ImportInv, CallsTyped, BatchesKnown, IsSequence
<1>2. FromFile(b)
    BY <1>1 DEF TablesInv
<1>3. \A k \in DOMAIN b.rows : b.rows[k].action # "conflict"
    <2> DEFINE C == {k \in DOMAIN b.rows : b.rows[k].action = "conflict"}
    <2>1. Cardinality(C) = 0
        BY DEF CommitApplies, ImportInv, LockHeld, Count
    <2>2. IsFiniteSet(DOMAIN b.rows)
        BY <1>2, FS_Interval DEF FromFile
    <2>3. IsFiniteSet(C)
        BY <2>2, FS_Subset
    <2>4. C = {}
        <3> HIDE DEF C
        <3> QED BY <2>1, <2>3, FS_EmptySet
    <2> QED BY <2>4
<1>4. vms' = Applied(b.rows).vms
    BY DEF CommitApplies
<1> HIDE DEF b
<1>5. Keeps(vms', b.file)
    BY <1>2, <1>3, <1>4, BatchKeeps DEF TablesInv
<1> QED BY <1>1, <1>5 DEF b

THEOREM TablesInvariant == Spec => []TablesInv
<1>1. Init => TablesInv
    BY InventoriesHoldVms DEF Init, TablesInv
<1>2. ImportInv /\ TablesInv /\ [Next]_vars => TablesInv'
    <2> SUFFICES ASSUME ImportInv, TablesInv, [Next]_vars
                 PROVE  TablesInv'
        OBVIOUS
    <2>1. CASE UNCHANGED <<vms, edits, batches>>
        BY <2>1 DEF TablesInv
    <2>2. ASSUME NEW v \in Live,
                 \/ \E t \in Owners : SetOwner(v, t)
                 \/ \E flag \in Flags : SetMonitoring(v, flag)
                 \/ \E c \in Clusters : Move(v, c)
                 \/ Delete(v)
          PROVE  TablesInv'
        <3>1. edits' = edits + 1 /\ UNCHANGED batches
            BY <2>2 DEF SetOwner, SetMonitoring, Move, Delete, EditBy
        <3>2. v \in Ids /\ vms[v] \in Vm
            BY DEF Live, TablesInv
        <3>3. \E x \in Vm \cup {Gone} : vms' = [vms EXCEPT ![v] = x]
            <4>1. CASE \E t \in Owners : SetOwner(v, t)
                <5>1. PICK t \in Owners : vms' = [vms EXCEPT ![v].owner = t]
                    BY <4>1 DEF SetOwner, EditBy
                <5>2. [vms[v] EXCEPT !.owner = t] \in Vm
                    BY <3>2, OwnersAreTexts DEF Vm
                <5> QED BY <5>1, <5>2
            <4>2. CASE \E c \in Clusters : Move(v, c)
                <5>1. PICK c \in Clusters : vms' = [vms EXCEPT ![v].cluster = c]
                    BY <4>2 DEF Move, EditBy
                <5>2. [vms[v] EXCEPT !.cluster = c] \in Vm
                    BY <3>2 DEF Vm
                <5> QED BY <5>1, <5>2
            <4>3. CASE Delete(v)
                BY <4>3 DEF Delete, EditBy
            <4>4. CASE \E flag \in Flags : SetMonitoring(v, flag)
                <5>1. PICK flag \in Flags : vms' = [vms EXCEPT ![v].monitoring = flag]
                    BY <4>4 DEF SetMonitoring, EditBy
                <5>2. [vms[v] EXCEPT !.monitoring = flag] \in Vm
                    BY <3>2 DEF Vm
                <5> QED BY <5>1, <5>2
            <4> QED BY <2>2, <4>1, <4>2, <4>3, <4>4
        <3> QED BY <3>1, <3>2, <3>3 DEF TablesInv
    <2>3. ASSUME NEW i \in DOMAIN previews, PreviewMade(i)
          PROVE  TablesInv'
        <3>1. PICK S \in Firsts :
                batches' = Append(batches, Batch(previews[i].file, previews[i].full, S))
            BY <2>3 DEF PreviewMade
        <3>2. previews[i].file \in Files /\ previews[i].full \in BOOLEAN
            <4>1. previews[i] \in PreviewType
                BY DEF ImportInv, CallsTyped
            <4> QED BY <4>1 DEF PreviewType
        <3>3. FromFile(Batch(previews[i].file, previews[i].full, S))
            BY <3>2, BatchFrom
        <3>4. IsSequence(batches)
            BY DEF ImportInv, CallsTyped
        <3>5. \A b \in DOMAIN batches' : FromFile(batches'[b])
            <4> DEFINE new == Batch(previews[i].file, previews[i].full, S)
            <4> HIDE DEF new
            <4>1. /\ DOMAIN batches = 1..Len(batches) /\ Len(batches) \in Nat
                  /\ DOMAIN batches' = 1..(Len(batches) + 1)
                  /\ batches'[Len(batches) + 1] = new
                  /\ \A b \in 1..Len(batches) : batches'[b] = batches[b]
                BY <3>1, <3>4, Extended DEF new
            <4>2. FromFile(new)
                BY <3>3 DEF new
            <4>3. \A b \in 1..Len(batches) : FromFile(batches'[b])
                BY <4>1 DEF TablesInv
            <4> QED BY <4>1, <4>2, <4>3
        <3>6. UNCHANGED <<vms, edits>>
            BY <2>3 DEF PreviewMade
        <3> QED BY <3>5, <3>6 DEF TablesInv
    <2>4. ASSUME NEW i \in DOMAIN commits, CommitApplies(i)
          PROVE  TablesInv'
        <3> DEFINE b == commits[i].batch
                   done == [batches[b] EXCEPT !.status = "committed"]
        <3>1. b \in DOMAIN batches /\ Keeps(vms', batches[b].file)
            BY <2>4, ApplyFollows
        <3>2. IsBatch(batches[b]) /\ FromFile(batches[b]) /\ IsSequence(batches)
            BY <3>1 DEF ImportInv, CallsTyped, TablesInv
        <3>3. done.file = batches[b].file /\ done.rows = batches[b].rows
            BY <3>2 DEF IsBatch
        <3>4. batches' = [batches EXCEPT ![b] = done] /\ edits' = edits
            BY <2>4 DEF CommitApplies
        <3>5. FromFile(done)
            <4> HIDE DEF done
            <4> QED BY <3>2, <3>3 DEF FromFile
        <3> HIDE DEF b, done
        <3>6. /\ DOMAIN batches' = DOMAIN batches
              /\ batches'[b] = done
              /\ \A k \in DOMAIN batches \ {b} : batches'[k] = batches[k]
            BY <3>1, <3>2, <3>4, Changed
        <3>7. \A k \in DOMAIN batches' : FromFile(batches'[k])
            BY <3>5, <3>6 DEF TablesInv
        <3> QED BY <3>1, <3>4, <3>7 DEF TablesInv, Keeps
    <2>5. CASE \/ \E f \in Files \cup {NoFile} : ChooseFile(f)
               \/ \E full \in BOOLEAN : Preview(full)
               \/ Tick
               \/ Commit
        BY <2>1, <2>5 DEF ChooseFile, Preview, Tick, Commit
    <2>6. ASSUME NEW i \in DOMAIN previews, PreviewAnswered(i) \/ PreviewFails(i)
          PROVE  TablesInv'
        BY <2>1, <2>6 DEF PreviewAnswered, PreviewFails
    <2>7. ASSUME NEW i \in DOMAIN commits,
                 CommitAnswered(i) \/ CommitFails(i) \/ CommitChecks(i) \/ CommitRollsBack(i)
          PROVE  TablesInv'
        BY <2>1, <2>7 DEF CommitAnswered, CommitFails, CommitChecks, CommitRollsBack
    <2>8. CASE UNCHANGED vars
        BY <2>1, <2>8 DEF vars
    <2> QED BY <2>2, <2>3, <2>4, <2>5, <2>6, <2>7, <2>8 DEF Next
<1> QED BY <1>1, <1>2, ImportInvariant, PTL DEF Spec

(* Whoever does not edit either leaves the VMs alone or applies a batch. *)
LEMMA OnlyCommitsWrite ==
    ASSUME TablesInv, Next, edits' = edits
    PROVE  vms' = vms \/ \E i \in DOMAIN commits : CommitApplies(i)
<1>1. edits \in Nat
    BY DEF TablesInv
<1>2. ASSUME NEW v \in Live,
             \/ \E t \in Owners : SetOwner(v, t)
             \/ \E flag \in Flags : SetMonitoring(v, flag)
             \/ \E c \in Clusters : Move(v, c)
             \/ Delete(v)
      PROVE  FALSE
    BY <1>1, <1>2 DEF SetOwner, SetMonitoring, Move, Delete, EditBy
<1>3. CASE \/ \E f \in Files \cup {NoFile} : ChooseFile(f)
           \/ \E full \in BOOLEAN : Preview(full)
           \/ Tick
           \/ Commit
    BY <1>3 DEF ChooseFile, Preview, Tick, Commit
<1>4. ASSUME NEW i \in DOMAIN previews,
             PreviewAnswered(i) \/ PreviewFails(i) \/ PreviewMade(i)
      PROVE  vms' = vms
    BY <1>4 DEF PreviewAnswered, PreviewFails, PreviewMade
<1>5. ASSUME NEW i \in DOMAIN commits,
             CommitAnswered(i) \/ CommitFails(i) \/ CommitChecks(i) \/ CommitRollsBack(i)
      PROVE  vms' = vms
    BY <1>5 DEF CommitAnswered, CommitFails, CommitChecks, CommitRollsBack
<1> QED BY <1>2, <1>3, <1>4, <1>5 DEF Next

(* Whatever file is imported into whatever inventory: an owner that is set and a
   flag that is on stay, also when they were set between the preview and the commit
   (imports.rs: updates, which commit_row asks again of the row as it is now). *)
THEOREM ImportKeepsCurated == Spec => CuratedKept
<1> DEFINE Kept(v) ==
            /\ supplied(vms[v].owner) => vms'[v].owner = vms[v].owner
            /\ supplied(vms[v].monitoring) => vms'[v].monitoring = vms[v].monitoring
<1>1. ImportInv /\ TablesInv /\ [Next]_vars =>
        [edits' = edits => \A v \in Live : Kept(v)]_vars
    <2> SUFFICES ASSUME ImportInv, TablesInv, Next, edits' = edits, NEW v \in Live
                 PROVE  Kept(v)
        OBVIOUS
    <2>1. CASE vms' = vms
        BY <2>1
    <2>2. ASSUME NEW i \in DOMAIN commits, CommitApplies(i)
          PROVE  Kept(v)
        BY <2>2, ApplyFollows DEF Keeps, Follows
    <2> QED BY <2>1, <2>2, OnlyCommitsWrite
<1> QED BY <1>1, ImportInvariant, TablesInvariant, PTL DEF Spec, CuratedKept

(* What an import writes to a VM comes from a row of the committed file with the
   identity the VM has at that moment: a target that was moved or renamed since the
   preview fails the batch (imports.rs: commit_row). *)
THEOREM ImportMatchesRows == Spec => UpdatesMatchTheirRow
<1> DEFINE Matched == \A v \in Live :
            <<vms'[v].owner, vms'[v].monitoring, vms'[v].ext>>
                    # <<vms[v].owner, vms[v].monitoring, vms[v].ext>> =>
                \E b \in DOMAIN batches :
                    /\ batches'[b].status = "committed"
                    /\ \E i \in DOMAIN batches[b].file :
                        Identity(batches[b].file[i]) = Identity(vms[v])
<1>1. ImportInv /\ TablesInv /\ [Next]_vars => [edits' = edits => Matched]_vars
    <2> SUFFICES ASSUME ImportInv, TablesInv, Next, edits' = edits
                 PROVE  Matched
        OBVIOUS
    <2>1. CASE vms' = vms
        BY <2>1
    <2>2. ASSUME NEW i \in DOMAIN commits, CommitApplies(i)
          PROVE  Matched
        <3> DEFINE b == commits[i].batch
        <3>1. b \in DOMAIN batches /\ Keeps(vms', batches[b].file)
            BY <2>2, ApplyFollows
        <3>2. batches'[b].status = "committed"
            <4>1. IsBatch(batches[b])
                BY <3>1 DEF ImportInv, CallsTyped
            <4>2. batches' = [batches EXCEPT ![b].status = "committed"]
                BY <2>2 DEF CommitApplies
            <4>3. batches'[b] = [batches[b] EXCEPT !.status = "committed"]
                BY <3>1, <4>2
            <4> QED BY <4>1, <4>3 DEF IsBatch
        <3> HIDE DEF b
        <3> QED BY <3>1, <3>2 DEF Keeps, Follows
    <2> QED BY <2>1, <2>2, OnlyCommitsWrite
<1> QED BY <1>1, ImportInvariant, TablesInvariant, PTL DEF Spec, UpdatesMatchTheirRow

--------------------------------------------------------------------------------
(* The networks of a VM.  The loops over addresses and networks are functions of how
   far they have come. *)

LEMMA Counting ==
    ASSUME NEW N \in Nat, NEW T, 0 \in T,
           \A n \in 1 .. N : n - 1 \in T => n \in T
    PROVE  \A n \in 0 .. N : n \in T
<1> DEFINE Without == {n \in Nat : n \in 0 .. N /\ n \notin T}
<1>1. ASSUME Without # {} PROVE FALSE
    <2>1. Without \subseteq Nat
        OBVIOUS
    <2>2. PICK n \in Without : \A m \in Without : ~(<<m, n>> \in OpToRel(<, Nat))
        <3>1. IsWellFoundedOn(OpToRel(<, Nat), Nat)
            BY NatLessThanWellFounded
        <3> HIDE DEF Without
        <3> QED BY <1>1, <2>1, <3>1, WFMin
    <2>3. n \in 1 .. N /\ n \notin T
        <3>1. n \in Without
            BY <2>2
        <3> QED BY <3>1
    <2>4. n - 1 \in Nat /\ n - 1 \in 0 .. N /\ <<n - 1, n>> \in OpToRel(<, Nat)
        BY <2>3 DEF OpToRel
    <2>5. n - 1 \notin Without
        <3> HIDE DEF Without
        <3> QED BY <2>2, <2>4
    <2> QED BY <2>3, <2>4, <2>5
<1> QED BY <1>1

(* A loop that turns one value of S into the next gives a value after each step. *)
Steps(N, S) == [1 .. N -> [S -> S]]

Runs(N, S, start, step) ==
    \E d \in [0 .. N -> S] : d[0] = start /\ \A n \in 1 .. N : d[n] = step[n][d[n - 1]]

LEMMA LoopRuns ==
    ASSUME NEW N \in Nat, NEW S, NEW start \in S, NEW step \in Steps(N, S)
    PROVE  Runs(N, S, start, step)
<1> USE DEF Steps
<1> DEFINE Run(M, d) == d[0] = start /\ \A n \in 1 .. M : d[n] = step[n][d[n - 1]]
           T == {M \in 0 .. N : \E d \in [0 .. M -> S] : Run(M, d)}
<1>1. 0 \in T
    <2> DEFINE e == [n \in 0 .. 0 |-> start]
    <2>1. e \in [0 .. 0 -> S] /\ e[0] = start /\ 1 .. 0 = {}
        OBVIOUS
    <2> HIDE DEF e
    <2> QED BY <2>1
<1>2. ASSUME NEW M \in 1 .. N, M - 1 \in T
      PROVE  M \in T
    <2>1. PICK d \in [0 .. M - 1 -> S] : Run(M - 1, d)
        BY <1>2
    <2> DEFINE e == [n \in 0 .. M |-> IF n = M THEN step[M][d[M - 1]] ELSE d[n]]
    <2>2. M - 1 \in 0 .. M - 1 /\ step[M][d[M - 1]] \in S
        BY <2>1
    <2>3. e \in [0 .. M -> S]
        BY <2>2
    <2>4. /\ e[0] = d[0] /\ e[M] = step[M][d[M - 1]] /\ e[M - 1] = d[M - 1]
          /\ \A n \in 1 .. M - 1 : e[n] = d[n] /\ e[n - 1] = d[n - 1]
        OBVIOUS
    <2> HIDE DEF e
    <2>5. ASSUME NEW n \in 1 .. M PROVE e[n] = step[n][e[n - 1]]
        <3>1. CASE n = M
            BY <2>4, <3>1
        <3>2. CASE n \in 1 .. M - 1
            BY <2>1, <2>4, <3>2
        <3> QED BY <3>1, <3>2
    <2>6. Run(M, e)
        BY <2>1, <2>4, <2>5
    <2>7. M \in 0 .. N
        OBVIOUS
    <2> QED BY <2>3, <2>6, <2>7
<1>3. \A n \in 0 .. N : n \in T
    <2> HIDE DEF T
    <2> QED BY <1>1, <1>2, Counting
<1>4. N \in 0 .. N
    OBVIOUS
<1> QED BY <1>3, <1>4 DEF Runs


(* Fresh as a loop. *)
LEMMA FreshRuns ==
    ASSUME NEW E, NEW s \in Seq(E), NEW S
    PROVE  \E d \in [0 .. Len(s) -> Seq(E)] :
                /\ Fresh(s, S) = d[Len(s)]
                /\ d[0] = <<>>
                /\ \A n \in 1 .. Len(s) :
                    d[n] = IF s[n] \in S \cup Range(d[n - 1]) THEN d[n - 1]
                           ELSE Append(d[n - 1], s[n])
<1> DEFINE N == Len(s)
           next(n, x) == IF s[n] \in S \cup Range(x) THEN x ELSE Append(x, s[n])
           F(g) == [n \in 0 .. N |->
                        IF n = 0 THEN <<>>
                        ELSE IF s[n] \in S \cup Range(g[n - 1]) THEN g[n - 1]
                        ELSE Append(g[n - 1], s[n])]
           step == [n \in 1 .. N |-> [x \in Seq(E) |-> next(n, x)]]
<1>1. N \in Nat /\ \A n \in 1 .. N : s[n] \in E
    OBVIOUS
<1>2. step \in Steps(N, Seq(E))
    BY <1>1 DEF Steps
<1>3. PICK d \in [0 .. N -> Seq(E)] :
            d[0] = <<>> /\ \A n \in 1 .. N : d[n] = step[n][d[n - 1]]
    <2>1. <<>> \in Seq(E)
        OBVIOUS
    <2> HIDE DEF step, N
    <2>2. Runs(N, Seq(E), <<>>, step)
        BY <1>1, <1>2, <2>1, LoopRuns
    <2> QED BY <2>2 DEF Runs
<1>4. ASSUME NEW n \in 1 .. N
      PROVE  d[n] = next(n, d[n - 1])
    <2>1. d[n - 1] \in Seq(E)
        BY <1>1
    <2> HIDE DEF next, N
    <2> QED BY <1>3, <2>1
<1>5. d = F(d)
    <2>1. ASSUME NEW n \in 0 .. N PROVE d[n] = F(d)[n]
        <3> HIDE DEF N
        <3>1. CASE n = 0
            BY <1>3, <3>1
        <3>2. CASE n \in 1 .. N
            <4>1. n # 0
                BY <1>1, <3>2
            <4> QED BY <1>4, <3>2, <4>1
        <3> QED BY <1>1, <3>1, <3>2
    <2>2. DOMAIN d = 0 .. N /\ DOMAIN F(d) = 0 .. N
        OBVIOUS
    <2>3. d = [n \in 0 .. N |-> d[n]] /\ F(d) = [n \in 0 .. N |-> F(d)[n]]
        BY <2>2
    <2> HIDE DEF F, N
    <2> QED BY <2>1, <2>3
<1> DEFINE g == CHOOSE f : f = F(f)
<1>6. g = F(g)
    <2> HIDE DEF F
    <2> QED BY <1>5
<1>7. Fresh(s, S) = g[N]
    BY DEF Fresh
<1>8. \A n \in 0 .. N : g[n] = d[n]
    <2> DEFINE T == {n \in 0 .. N : g[n] = d[n]}
    <2>1. 0 \in T
        <3>1. g[0] = F(g)[0]
            <4> HIDE DEF g, F
            <4> QED BY <1>6
        <3> HIDE DEF g
        <3> QED BY <1>1, <1>3, <3>1
    <2>2. ASSUME NEW n \in 1 .. N, n - 1 \in T PROVE n \in T
        <3>1. g[n] = F(g)[n]
            <4> HIDE DEF g, F
            <4> QED BY <1>6
        <3> HIDE DEF g
        <3> QED BY <1>1, <1>4, <2>2, <3>1
    <2> HIDE DEF g, T, N
    <2>3. \A n \in 0 .. N : n \in T
        BY <1>1, <2>1, <2>2, Counting
    <2> QED BY <2>3 DEF T
<1>9. N \in 0 .. N
    BY <1>1
<1> HIDE DEF g, F, step
<1> QED BY <1>3, <1>4, <1>7, <1>8, <1>9

OnceIn(s) == \A i, j \in DOMAIN s : s[i] = s[j] => i = j

LEMMA Appended ==
    ASSUME NEW E, NEW s \in Seq(E), NEW e \in E
    PROVE  /\ Append(s, e) \in Seq(E)
           /\ Range(Append(s, e)) = Range(s) \cup {e}
           /\ OnceIn(s) /\ e \notin Range(s) => OnceIn(Append(s, e))
<1>1. /\ Append(s, e) \in Seq(E) /\ Len(s) \in Nat
      /\ DOMAIN s = 1 .. Len(s) /\ DOMAIN Append(s, e) = 1 .. Len(s) + 1
      /\ \A i \in 1 .. Len(s) : Append(s, e)[i] = s[i]
      /\ Append(s, e)[Len(s) + 1] = e
    OBVIOUS
<1> QED BY <1>1 DEF Range, OnceIn

(* What Fresh returns: the rest of s, each once. *)
LEMMA FreshIs ==
    ASSUME NEW E, NEW s \in Seq(E), NEW S
    PROVE  /\ Fresh(s, S) \in Seq(E)
           /\ OnceIn(Fresh(s, S))
           /\ Range(Fresh(s, S)) = Range(s) \ S
<1> DEFINE N == Len(s)
<1>1. PICK d \in [0 .. N -> Seq(E)] :
                /\ Fresh(s, S) = d[N]
                /\ d[0] = <<>>
                /\ \A n \in 1 .. N :
                    d[n] = IF s[n] \in S \cup Range(d[n - 1]) THEN d[n - 1]
                           ELSE Append(d[n - 1], s[n])
    BY FreshRuns
<1>2. /\ N \in Nat /\ N \in 0 .. N /\ DOMAIN s = 1 .. N
      /\ \A n \in 1 .. N : s[n] \in E
    OBVIOUS
<1> DEFINE upto(n) == {s[m] : m \in 1 .. n}
           T == {n \in 0 .. N : OnceIn(d[n]) /\ Range(d[n]) = upto(n) \ S}
<1> HIDE DEF N
<1>3. 0 \in T
    <2>1. <<>> \in Seq(E) /\ DOMAIN <<>> = {} /\ 0 \in 0 .. N /\ upto(0) = {}
        BY <1>2
    <2>2. OnceIn(<<>>) /\ Range(<<>>) = {}
        BY <2>1 DEF OnceIn, Range
    <2> HIDE DEF upto
    <2> QED BY <1>1, <2>1, <2>2
<1>4. ASSUME NEW n \in 1 .. N, n - 1 \in T PROVE n \in T
    <2>1. upto(n) = upto(n - 1) \cup {s[n]}
        <3>1. 1 .. n = (1 .. (n - 1)) \cup {n}
            BY <1>2
        <3> QED BY <3>1
    <2>2. /\ d[n - 1] \in Seq(E) /\ s[n] \in E /\ n \in 0 .. N
          /\ OnceIn(d[n - 1]) /\ Range(d[n - 1]) = upto(n - 1) \ S
        <3> HIDE DEF upto
        <3> QED BY <1>1, <1>2, <1>4
    <2> HIDE DEF upto
    <2>3. CASE s[n] \in S \cup Range(d[n - 1])
        <3>1. d[n] = d[n - 1]
            BY <1>1, <2>3
        <3> QED BY <2>1, <2>2, <2>3, <3>1
    <2>4. CASE s[n] \notin S \cup Range(d[n - 1])
        <3>1. d[n] = Append(d[n - 1], s[n])
            BY <1>1, <2>4
        <3>2. OnceIn(d[n]) /\ Range(d[n]) = Range(d[n - 1]) \cup {s[n]}
            BY <2>2, <2>4, <3>1, Appended
        <3> QED BY <2>1, <2>2, <2>4, <3>2
    <2> QED BY <2>3, <2>4
<1>5. N \in T
    <2> HIDE DEF T
    <2>1. \A n \in 0 .. N : n \in T
        BY <1>2, <1>3, <1>4, Counting
    <2> QED BY <1>2, <2>1
<1>6. upto(N) = Range(s) /\ d[N] \in Seq(E)
    <2>1. upto(N) = Range(s)
        BY <1>2 DEF Range
    <2> HIDE DEF upto
    <2> QED BY <1>1, <1>2, <2>1
<1> HIDE DEF upto
<1> QED BY <1>1, <1>5, <1>6

(* What the plans of some roles have done: every address mentioned in their columns
   is claimed, a network that is taken over is one of such a role that its column
   does not mention, and no address is given out twice. *)
Distinct(nets) == \A i, j \in DOMAIN nets : nets[i].ip = nets[j].ip => i = j

Taken(plan) == {t[2] : t \in plan.retargets}

Moves(plan, nets, row, done) ==
    /\ plan.retargets \subseteq (DOMAIN nets) \X Ips
    /\ \A t \in plan.retargets :
        /\ nets[t[1]].role \in done
        /\ nets[t[1]].ip \notin Range(row[nets[t[1]].role])
    /\ \A t, u \in plan.retargets : t[1] = u[1] \/ t[2] = u[2] => t = u

Adds(plan) == plan.inserts \in Seq(Network) /\ Distinct(plan.inserts)

Apart(plan, nets) ==
    /\ Taken(plan) \cap Addresses(nets) = {}
    /\ Addresses(plan.inserts) \cap Addresses(nets) = {}
    /\ Taken(plan) \cap Addresses(plan.inserts) = {}

Claims(plan, nets, row, done) ==
    /\ plan.claimed = Addresses(nets) \cup Taken(plan) \cup Addresses(plan.inserts)
    /\ \A r \in done : Range(row[r]) \subseteq plan.claimed

PlanInv(plan, nets, row, done) ==
    /\ Moves(plan, nets, row, done)
    /\ Adds(plan)
    /\ Apart(plan, nets)
    /\ Claims(plan, nets, row, done)

(* Concatenation, for networks. *)
LEMMA Joined ==
    ASSUME NEW a \in Seq(Network), NEW b \in Seq(Network)
    PROVE  /\ a \o b \in Seq(Network)
           /\ Len(a \o b) = Len(a) + Len(b)
           /\ Len(a) \in Nat /\ Len(b) \in Nat
           /\ DOMAIN a = 1 .. Len(a) /\ DOMAIN b = 1 .. Len(b)
           /\ DOMAIN (a \o b) = 1 .. Len(a) + Len(b)
           /\ \A i \in 1 .. Len(a) : (a \o b)[i] = a[i]
           /\ \A i \in 1 .. Len(b) : (a \o b)[Len(a) + i] = b[i]
           /\ \A i \in 1 .. Len(a) + Len(b) :
                i \in 1 .. Len(a) \/ \E k \in 1 .. Len(b) : i = Len(a) + k
<1>1. /\ a \o b \in Seq(Network) /\ Len(a \o b) = Len(a) + Len(b)
      /\ \A i \in 1 .. Len(a) + Len(b) :
            (a \o b)[i] = IF i <= Len(a) THEN a[i] ELSE b[i - Len(a)]
    BY ConcatProperties
<1>2. /\ Len(a) \in Nat /\ Len(b) \in Nat
      /\ DOMAIN a = 1 .. Len(a) /\ DOMAIN b = 1 .. Len(b)
    OBVIOUS
<1>3. DOMAIN (a \o b) = 1 .. Len(a) + Len(b)
    BY <1>1
<1> DEFINE c == a \o b
<1> HIDE DEF c
<1>4. /\ \A i \in 1 .. Len(a) : c[i] = a[i]
      /\ \A i \in 1 .. Len(b) : c[Len(a) + i] = b[i]
    <2>1. \A i \in 1 .. Len(a) + Len(b) : c[i] = IF i <= Len(a) THEN a[i] ELSE b[i - Len(a)]
        BY <1>1 DEF c
    <2>2. ASSUME NEW i \in 1 .. Len(a) PROVE c[i] = a[i]
        BY <1>2, <2>1
    <2>3. ASSUME NEW i \in 1 .. Len(b) PROVE c[Len(a) + i] = b[i]
        <3>1. /\ Len(a) + i \in 1 .. Len(a) + Len(b) /\ ~(Len(a) + i <= Len(a))
              /\ (Len(a) + i) - Len(a) = i
            BY <1>2
        <3> QED BY <2>1, <3>1
    <2> QED BY <2>2, <2>3
<1>5. ASSUME NEW i \in 1 .. Len(a) + Len(b)
      PROVE  i \in 1 .. Len(a) \/ \E k \in 1 .. Len(b) : i = Len(a) + k
    <2>1. CASE i > Len(a)
        <3>1. i - Len(a) \in 1 .. Len(b) /\ i = Len(a) + (i - Len(a))
            BY <1>2, <2>1
        <3> QED BY <3>1
    <2> QED BY <1>2, <2>1
<1> QED BY <1>1, <1>2, <1>3, <1>4, <1>5 DEF c

LEMMA AddressesJoined ==
    ASSUME NEW a \in Seq(Network), NEW b \in Seq(Network)
    PROVE  /\ Addresses(a \o b) = Addresses(a) \cup Addresses(b)
           /\ Distinct(b) /\ Addresses(a) \cap Addresses(b) = {}
                => NoNewRepeats(a, a \o b)
           /\ Distinct(a) /\ Distinct(b) /\ Addresses(a) \cap Addresses(b) = {}
                => Distinct(a \o b)
<1> DEFINE c == a \o b
<1>1. /\ DOMAIN a = 1 .. Len(a) /\ DOMAIN b = 1 .. Len(b)
      /\ DOMAIN c = 1 .. Len(a) + Len(b)
      /\ Len(a) \in Nat /\ Len(b) \in Nat
      /\ \A i \in 1 .. Len(a) : c[i] = a[i]
      /\ \A i \in 1 .. Len(b) : c[Len(a) + i] = b[i]
      /\ \A i \in 1 .. Len(a) + Len(b) :
            i \in 1 .. Len(a) \/ \E k \in 1 .. Len(b) : i = Len(a) + k
    BY Joined
<1> HIDE DEF c
<1>2. Addresses(c) = Addresses(a) \cup Addresses(b)
    <2>1. ASSUME NEW i \in 1 .. Len(a) + Len(b)
          PROVE  c[i].ip \in Addresses(a) \cup Addresses(b)
        BY <1>1 DEF Addresses
    <2>2. ASSUME NEW i \in 1 .. Len(a) PROVE a[i].ip \in Addresses(c)
        <3>1. i \in DOMAIN c /\ c[i] = a[i]
            BY <1>1
        <3> QED BY <3>1 DEF Addresses
    <2>3. ASSUME NEW i \in 1 .. Len(b) PROVE b[i].ip \in Addresses(c)
        <3>1. Len(a) + i \in DOMAIN c
            BY <1>1
        <3> QED BY <1>1, <3>1 DEF Addresses
    <2> QED BY <1>1, <2>1, <2>2, <2>3 DEF Addresses
<1>3. ASSUME Distinct(b), Addresses(a) \cap Addresses(b) = {},
             NEW i \in DOMAIN c, NEW j \in DOMAIN c, c[i].ip = c[j].ip, i # j
      PROVE  i \in DOMAIN a /\ j \in DOMAIN a /\ a[i].ip = a[j].ip
    <2>1. \A k \in 1 .. Len(a), l \in 1 .. Len(b) : a[k].ip # b[l].ip
        BY <1>1, <1>3 DEF Addresses
    <2>2. CASE i \in 1 .. Len(a) /\ j \in 1 .. Len(a)
        BY <1>1, <1>3, <2>2
    <2>3. CASE i \in 1 .. Len(a) /\ j \notin 1 .. Len(a)
        BY <1>1, <1>3, <2>1, <2>3
    <2>4. CASE i \notin 1 .. Len(a) /\ j \in 1 .. Len(a)
        BY <1>1, <1>3, <2>1, <2>4
    <2>5. CASE i \notin 1 .. Len(a) /\ j \notin 1 .. Len(a)
        <3>1. PICK k \in 1 .. Len(b) : i = Len(a) + k
            BY <1>1, <2>5
        <3>2. PICK l \in 1 .. Len(b) : j = Len(a) + l
            BY <1>1, <2>5
        <3>3. b[k].ip = b[l].ip
            BY <1>1, <1>3, <3>1, <3>2
        <3>4. k = l
            BY <1>1, <1>3, <3>3 DEF Distinct
        <3> QED BY <1>3, <3>1, <3>2, <3>4
    <2> QED BY <2>2, <2>3, <2>4, <2>5
<1>4. Distinct(b) /\ Addresses(a) \cap Addresses(b) = {} => NoNewRepeats(a, c)
    BY <1>3 DEF NoNewRepeats
<1>5. Distinct(a) /\ Distinct(b) /\ Addresses(a) \cap Addresses(b) = {} => Distinct(c)
    BY <1>4 DEF NoNewRepeats, Distinct
<1> QED BY <1>2, <1>4, <1>5 DEF c

(* The plan of one more role. *)
LEMMA PlanStep ==
    ASSUME NEW nets \in Seq(Network), NEW row \in [Roles -> Seq(Ips)], NEW plan,
           NEW done \in SUBSET Roles, NEW r \in Roles, r \notin done,
           PlanInv(plan, nets, row, done)
    PROVE  PlanInv(Plan(plan, r, nets, row[r]), nets, row, done \cup {r})
<1> DEFINE column == row[r]
           new == New(column, plan.claimed)
           free == Reusable(nets, r, column)
           n == IF Len(new) < Len(free) THEN Len(new) ELSE Len(free)
           rest == [k \in 1 .. Len(new) - n |-> [role |-> r, ip |-> new[n + k]]]
           moved == {<<free[k], new[k]>> : k \in 1 .. n}
           after == Plan(plan, r, nets, column)
<1>1. /\ after.claimed = plan.claimed \cup Range(new)
      /\ after.retargets = plan.retargets \cup moved
      /\ after.inserts = plan.inserts \o rest
    BY DEF Plan
<1>2. /\ new \in Seq(Ips) /\ OnceIn(new) /\ Range(new) = Range(column) \ plan.claimed
    <2>1. column \in Seq(Ips)
        OBVIOUS
    <2> QED BY <2>1, FreshIs DEF New
<1>3. /\ free \in Seq(DOMAIN nets) /\ OnceIn(free)
      /\ \A x \in Range(free) : x \in DOMAIN nets /\ nets[x].role = r /\ nets[x].ip \notin Range(column)
    <2> DEFINE S == {i \in DOMAIN nets : nets[i].role # r \/ nets[i].ip \in Range(column)}
               all == [i \in DOMAIN nets |-> i]
    <2>1. all \in Seq(DOMAIN nets) /\ Range(all) = DOMAIN nets
        <3>1. Len(nets) \in Nat /\ DOMAIN nets = 1 .. Len(nets)
            OBVIOUS
        <3>2. all \in Seq(DOMAIN nets)
            BY <3>1
        <3>3. DOMAIN all = DOMAIN nets /\ \A i \in DOMAIN nets : all[i] = i
            OBVIOUS
        <3> HIDE DEF all
        <3> QED BY <3>2, <3>3 DEF Range
    <2>2. free = Fresh(all, S)
        BY DEF Reusable
    <2> HIDE DEF all, free
    <2>3. free \in Seq(DOMAIN nets) /\ OnceIn(free) /\ Range(free) = DOMAIN nets \ S
        <3> HIDE DEF S
        <3> QED BY <2>1, <2>2, FreshIs
    <2> QED BY <2>3
<1> HIDE DEF new, free, after
<1>4. /\ Len(new) \in Nat /\ Len(free) \in Nat /\ n \in Nat /\ n <= Len(new) /\ n <= Len(free)
      /\ DOMAIN new = 1 .. Len(new) /\ DOMAIN free = 1 .. Len(free)
    BY <1>2, <1>3
<1> HIDE DEF n
<1>5. \A k \in 1 .. n : /\ free[k] \in DOMAIN nets /\ nets[free[k]].role = r
                        /\ nets[free[k]].ip \notin Range(column)
                        /\ new[k] \in Ips /\ new[k] \in Range(new)
    <2> SUFFICES ASSUME NEW k \in 1 .. n
                 PROVE  /\ free[k] \in DOMAIN nets /\ nets[free[k]].role = r
                        /\ nets[free[k]].ip \notin Range(column)
                        /\ new[k] \in Ips /\ new[k] \in Range(new)
        OBVIOUS
    <2>1. k \in DOMAIN new /\ k \in DOMAIN free
        BY <1>4
    <2>2. free[k] \in Range(free) /\ new[k] \in Range(new) /\ new[k] \in Ips
        BY <1>2, <2>1 DEF Range
    <2> QED BY <1>3, <2>2
<1>6. /\ rest \in Seq(Network) /\ Len(rest) = Len(new) - n /\ DOMAIN rest = 1 .. Len(new) - n
      /\ \A k \in 1 .. Len(new) - n : rest[k].ip = new[n + k] /\ n + k \in DOMAIN new
    <2>1. Len(new) - n \in Nat
        BY <1>4
    <2>2. \A k \in 1 .. Len(new) - n : n + k \in DOMAIN new /\ new[n + k] \in Ips
        BY <1>2, <1>4
    <2>3. \A k \in 1 .. Len(new) - n : [role |-> r, ip |-> new[n + k]] \in Network
        BY <2>2 DEF Network
    <2>4. rest \in Seq(Network) /\ DOMAIN rest = 1 .. Len(new) - n
        BY <2>1, <2>3
    <2> QED BY <2>1, <2>2, <2>4
<1>7. Range(new) = {new[k] : k \in 1 .. n} \cup Addresses(rest)
    <2>1. Addresses(rest) = {new[n + k] : k \in 1 .. Len(new) - n}
        <3> HIDE DEF rest
        <3> QED BY <1>6 DEF Addresses
    <2>2. ASSUME NEW i \in DOMAIN new, i \notin 1 .. n
          PROVE  i - n \in 1 .. Len(new) - n /\ i = n + (i - n)
        BY <1>4, <2>2
    <2>3. \A i \in 1 .. n : i \in DOMAIN new
        BY <1>4
    <2>4. \A k \in 1 .. Len(new) - n : n + k \in DOMAIN new
        BY <1>6
    <2> QED BY <2>1, <2>2, <2>3, <2>4 DEF Range
<1>8. {new[k] : k \in 1 .. n} \cap Addresses(rest) = {} /\ Distinct(rest)
    <2> HIDE DEF rest
    <2>1. ASSUME NEW k \in 1 .. n, NEW l \in 1 .. Len(new) - n PROVE new[k] # rest[l].ip
        <3>1. k \in DOMAIN new /\ n + l \in DOMAIN new /\ k # n + l
            BY <1>4, <1>6
        <3>2. new[k] # new[n + l]
            BY <1>2, <3>1 DEF OnceIn
        <3> QED BY <1>6, <3>2
    <2>2. ASSUME NEW k \in DOMAIN rest, NEW l \in DOMAIN rest, rest[k].ip = rest[l].ip PROVE k = l
        <3>1. n + k = n + l
            BY <1>2, <1>6, <2>2 DEF OnceIn
        <3> QED BY <1>4, <1>6, <3>1
    <2> QED BY <1>6, <2>1, <2>2 DEF Addresses, Distinct
<1> HIDE DEF rest
<1>9. /\ {t[2] : t \in moved} = {new[k] : k \in 1 .. n}
      /\ Taken(after) = Taken(plan) \cup {new[k] : k \in 1 .. n}
    <2>1. ASSUME NEW t \in moved PROVE t[2] \in {new[k] : k \in 1 .. n}
        <3>1. PICK k \in 1 .. n : t = <<free[k], new[k]>>
            OBVIOUS
        <3> QED BY <3>1
    <2>2. ASSUME NEW k \in 1 .. n PROVE \E t \in moved : t[2] = new[k]
        <3>1. <<free[k], new[k]>> \in moved /\ <<free[k], new[k]>>[2] = new[k]
            OBVIOUS
        <3> HIDE DEF moved
        <3> QED BY <3>1
    <2> HIDE DEF moved
    <2>3. Taken(after) = Taken(plan) \cup {t[2] : t \in moved}
        BY <1>1 DEF Taken
    <2>4. {t[2] : t \in moved} = {new[k] : k \in 1 .. n}
        BY <2>1, <2>2
    <2> QED BY <2>3, <2>4
<1>10. Range(new) \cap plan.claimed = {} /\ Range(column) \subseteq after.claimed
    BY <1>1, <1>2
<1>11. Moves(after, nets, row, done \cup {r})
    <2> USE DEF PlanInv
    <2>1. \A t \in moved : /\ t \in (DOMAIN nets) \X Ips /\ nets[t[1]].role = r
                           /\ nets[t[1]].ip \notin Range(column)
                           /\ t[2] \notin plan.claimed
        BY <1>5, <1>10
    <2>2. ASSUME NEW t \in moved, NEW u \in moved, t[1] = u[1] \/ t[2] = u[2] PROVE t = u
        <3>1. PICK k \in 1 .. n : t = <<free[k], new[k]>>
            OBVIOUS
        <3>2. PICK l \in 1 .. n : u = <<free[l], new[l]>>
            OBVIOUS
        <3>3. k \in DOMAIN free /\ k \in DOMAIN new /\ l \in DOMAIN free /\ l \in DOMAIN new
            BY <1>4
        <3>4. free[k] = free[l] \/ new[k] = new[l]
            BY <2>2, <3>1, <3>2
        <3>5. k = l
            BY <1>2, <1>3, <3>3, <3>4 DEF OnceIn
        <3> QED BY <3>1, <3>2, <3>5
    <2> HIDE DEF moved
    <2>3. ASSUME NEW t \in plan.retargets, NEW u \in moved PROVE t[1] # u[1] /\ t[2] # u[2]
        <3>1. nets[t[1]].role \in done /\ t[2] \in plan.claimed
            BY DEF Moves, Claims, Taken
        <3> QED BY <2>1, <3>1
    <2>4. /\ after.retargets \subseteq (DOMAIN nets) \X Ips
          /\ \A t \in after.retargets : nets[t[1]].role \in done \cup {r}
        BY <1>1, <2>1 DEF Moves
    <2>5. \A t \in after.retargets : nets[t[1]].ip \notin Range(row[nets[t[1]].role])
        BY <1>1, <2>1 DEF Moves
    <2>6. \A t, u \in after.retargets : t[1] = u[1] \/ t[2] = u[2] => t = u
        BY <1>1, <2>2, <2>3 DEF Moves
    <2> QED BY <2>4, <2>5, <2>6 DEF Moves
<1> HIDE DEF moved
<1>12. /\ Addresses(after.inserts) = Addresses(plan.inserts) \cup Addresses(rest)
       /\ Adds(after)
    <2>1. /\ Addresses(plan.inserts) \subseteq plan.claimed
          /\ plan.inserts \in Seq(Network) /\ Distinct(plan.inserts)
        BY DEF PlanInv, Adds, Claims
    <2>2. Addresses(plan.inserts) \cap Addresses(rest) = {}
        BY <1>7, <1>10, <2>1
    <2>3. after.inserts \in Seq(Network)
        BY <1>1, <1>6, <2>1, Joined
    <2> QED BY <1>1, <1>6, <1>8, <2>1, <2>2, <2>3, AddressesJoined DEF Adds
<1> DEFINE firsts == {new[k] : k \in 1 .. n}
<1>13. /\ firsts \subseteq Range(new) /\ Addresses(rest) \subseteq Range(new)
       /\ Range(new) = firsts \cup Addresses(rest) /\ firsts \cap Addresses(rest) = {}
       /\ Taken(after) = Taken(plan) \cup firsts
    BY <1>7, <1>8, <1>9
<1> HIDE DEF firsts
<1>14. Apart(after, nets)
    BY <1>10, <1>12, <1>13 DEF PlanInv, Apart, Claims
<1>15. Claims(after, nets, row, done \cup {r})
    <2>1. after.claimed = Addresses(nets) \cup Taken(after) \cup Addresses(after.inserts)
        BY <1>1, <1>12, <1>13 DEF PlanInv, Claims
    <2>2. \A q \in done : Range(row[q]) \subseteq after.claimed
        BY <1>1 DEF PlanInv, Claims
    <2> QED BY <1>10, <2>1, <2>2 DEF Claims
<1> QED BY <1>11, <1>12, <1>14, <1>15 DEF PlanInv, after

(* The plans of all columns. *)
LEMMA PlansAre ==
    ASSUME NEW nets \in Seq(Network), NEW row \in [Roles -> Seq(Ips)]
    PROVE  PlanInv(Plans(nets, row), nets, row, Roles)
<1> DEFINE none == [claimed |-> Addresses(nets), retargets |-> {}, inserts |-> <<>>]
           first == Plan(none, "private", nets, row["private"])
           second == Plan(first, "public", nets, row["public"])
           third == Plan(second, "backup", nets, row["backup"])
<1>1. PlanInv(none, nets, row, {})
    <2>1. /\ none.claimed = Addresses(nets) /\ none.retargets = {} /\ none.inserts = <<>>
          /\ <<>> \in Seq(Network) /\ DOMAIN <<>> = {}
        OBVIOUS
    <2> HIDE DEF none
    <2>2. Taken(none) = {} /\ Addresses(none.inserts) = {} /\ Distinct(none.inserts)
        BY <2>1 DEF Taken, Addresses, Distinct
    <2> QED BY <2>1, <2>2 DEF PlanInv, Moves, Adds, Apart, Claims
<1> HIDE DEF none
<1>2. PlanInv(first, nets, row, {"private"})
    <2>1. "private" \in Roles /\ "private" \notin {} /\ {} \in SUBSET Roles
          /\ {} \cup {"private"} = {"private"}
        BY DEF Roles
    <2>2. PlanInv(first, nets, row, {} \cup {"private"})
        BY <1>1, <2>1, PlanStep
    <2> QED BY <2>1, <2>2
<1> HIDE DEF first
<1>3. PlanInv(second, nets, row, {"private", "public"})
    <2>1. /\ "public" \in Roles /\ "public" \notin {"private"} /\ {"private"} \in SUBSET Roles
          /\ {"private"} \cup {"public"} = {"private", "public"}
        BY DEF Roles
    <2>2. PlanInv(second, nets, row, {"private"} \cup {"public"})
        BY <1>2, <2>1, PlanStep
    <2> QED BY <2>1, <2>2
<1> HIDE DEF second
<1>4. PlanInv(third, nets, row, Roles)
    <2>1. /\ "backup" \in Roles /\ "backup" \notin {"private", "public"}
          /\ {"private", "public"} \in SUBSET Roles
          /\ {"private", "public"} \cup {"backup"} = Roles
        BY DEF Roles
    <2>2. PlanInv(third, nets, row, {"private", "public"} \cup {"backup"})
        BY <1>3, <2>1, PlanStep
    <2> QED BY <2>1, <2>2
<1>5. Plans(nets, row) = third
    BY DEF Plans, first, second, none
<1> QED BY <1>4, <1>5

(* The networks that were there, after the import. *)
Renumbered(nets, plan) ==
    [i \in DOMAIN nets |->
        IF \E t \in plan.retargets : t[1] = i
        THEN [nets[i] EXCEPT !.ip = (CHOOSE t \in plan.retargets : t[1] = i)[2]]
        ELSE nets[i]]

LEMMA RenumberedIs ==
    ASSUME NEW nets \in Seq(Network), NEW row, NEW done, NEW plan,
           Moves(plan, nets, row, done)
    PROVE  /\ Renumbered(nets, plan) \in Seq(Network)
           /\ DOMAIN Renumbered(nets, plan) = DOMAIN nets
           /\ \A i \in DOMAIN nets : Renumbered(nets, plan)[i].role = nets[i].role
           /\ \A t \in plan.retargets : t[1] \in DOMAIN nets /\ Renumbered(nets, plan)[t[1]].ip = t[2]
           /\ \A i \in DOMAIN nets :
                \/ \E t \in plan.retargets : t[1] = i
                \/ Renumbered(nets, plan)[i] = nets[i]
<1> DEFINE b == Renumbered(nets, plan)
           moves(i) == \E t \in plan.retargets : t[1] = i
           to(i) == (CHOOSE t \in plan.retargets : t[1] = i)[2]
<1>1. /\ DOMAIN nets = 1 .. Len(nets) /\ Len(nets) \in Nat
      /\ \A i \in DOMAIN nets : nets[i] \in Network
    OBVIOUS
<1>2. DOMAIN b = DOMAIN nets
    BY DEF Renumbered
<1>3. \A i \in DOMAIN nets : b[i] = IF moves(i) THEN [nets[i] EXCEPT !.ip = to(i)] ELSE nets[i]
    BY DEF Renumbered
<1>4. ASSUME NEW t \in plan.retargets
      PROVE  t[1] \in DOMAIN nets /\ t[2] \in Ips /\ to(t[1]) = t[2]
    <2>1. t[1] \in DOMAIN nets /\ t[2] \in Ips
        BY DEF Moves
    <2> DEFINE u == CHOOSE x \in plan.retargets : x[1] = t[1]
    <2>2. u \in plan.retargets /\ u[1] = t[1]
        OBVIOUS
    <2> HIDE DEF u
    <2>3. u = t
        BY <2>2 DEF Moves
    <2> QED BY <2>1, <2>3 DEF u
<1>5. ASSUME NEW i \in DOMAIN nets, moves(i) PROVE to(i) \in Ips
    <2>1. PICK t \in plan.retargets : t[1] = i
        BY <1>5
    <2> HIDE DEF to
    <2> QED BY <1>4, <2>1
<1> HIDE DEF b, to
<1>6. ASSUME NEW i \in DOMAIN nets, moves(i)
      PROVE  b[i] \in Network /\ b[i].role = nets[i].role /\ b[i].ip = to(i)
    <2>1. PICK q \in Roles, a \in Ips : nets[i] = [role |-> q, ip |-> a]
        BY <1>1 DEF Network
    <2>2. b[i] = [role |-> q, ip |-> to(i)]
        BY <1>3, <1>6, <2>1
    <2> QED BY <1>5, <1>6, <2>1, <2>2 DEF Network
<1>7. ASSUME NEW i \in DOMAIN nets, ~moves(i) PROVE b[i] = nets[i]
    BY <1>3, <1>7
<1>8. b \in Seq(Network)
    <2>1. \A i \in DOMAIN nets : b[i] \in Network
        BY <1>1, <1>6, <1>7
    <2>2. b = [i \in 1 .. Len(nets) |-> b[i]]
        BY <1>1 DEF b, Renumbered
    <2> QED BY <1>1, <2>1, <2>2
<1>9. \A t \in plan.retargets : t[1] \in DOMAIN nets /\ b[t[1]].ip = t[2]
    BY <1>4, <1>6
<1>10. \A i \in DOMAIN nets : b[i].role = nets[i].role
    BY <1>6, <1>7
<1>11. \A i \in DOMAIN nets : moves(i) \/ b[i] = nets[i]
    BY <1>7
<1> QED BY <1>2, <1>8, <1>9, <1>10, <1>11 DEF b

(* A row whose addresses are all there changes nothing. *)
LEMMA NothingToAttach ==
    ASSUME NEW nets \in Seq(Network), NEW row \in [Roles -> Seq(Ips)],
           \A r \in Roles : Range(row[r]) \subseteq Addresses(nets)
    PROVE  Attached(nets, row) = nets
<1> DEFINE none == [claimed |-> Addresses(nets), retargets |-> {}, inserts |-> <<>>]
<1>1. ASSUME NEW r \in Roles PROVE Plan(none, r, nets, row[r]) = none
    <2> DEFINE new == New(row[r], none.claimed)
               free == Reusable(nets, r, row[r])
               n == IF Len(new) < Len(free) THEN Len(new) ELSE Len(free)
               rest == [k \in 1 .. Len(new) - n |-> [role |-> r, ip |-> new[n + k]]]
    <2>1. new = <<>>
        <3>1. row[r] \in Seq(Ips) /\ none.claimed = Addresses(nets)
            OBVIOUS
        <3> HIDE DEF none
        <3>2. new \in Seq(Ips) /\ Range(new) = {}
            <4>1. new \in Seq(Ips) /\ Range(new) = Range(row[r]) \ none.claimed
                BY <3>1, FreshIs DEF New
            <4> QED BY <3>1, <4>1
        <3> HIDE DEF new
        <3>3. DOMAIN new = {}
            BY <3>2 DEF Range
        <3> QED BY <3>2, <3>3
    <2>2. free \in Seq(DOMAIN nets)
        <3> DEFINE all == [i \in DOMAIN nets |-> i]
        <3>1. Len(nets) \in Nat /\ DOMAIN nets = 1 .. Len(nets)
            OBVIOUS
        <3>2. all \in Seq(DOMAIN nets)
            BY <3>1
        <3> HIDE DEF all
        <3> QED BY <3>2, FreshIs DEF Reusable, all
    <2>3. Len(free) \in Nat /\ Len(new) = 0
        BY <2>1, <2>2
    <2>4. n = 0 /\ 1 .. n = {} /\ 1 .. Len(new) - n = {}
        <3> HIDE DEF new, free
        <3> QED BY <2>3
    <2>5. rest = <<>>
        <3> HIDE DEF new, free, n
        <3>1. DOMAIN rest = {} /\ rest = [k \in {} |-> [role |-> r, ip |-> new[n + k]]]
            BY <2>4
        <3> QED BY <3>1
    <2>6. {<<free[k], new[k]>> : k \in 1 .. n} = {}
        <3> HIDE DEF new, free, n
        <3> QED BY <2>4
    <2>7. Plan(none, r, nets, row[r]) =
            [claimed |-> none.claimed \cup Range(new),
             retargets |-> none.retargets \cup {<<free[k], new[k]>> : k \in 1 .. n},
             inserts |-> none.inserts \o rest]
        BY DEF Plan
    <2>8. Range(<<>>) = {} /\ <<>> \o <<>> = <<>>
        BY DEF Range
    <2> HIDE DEF new, free, n, rest
    <2> QED BY <2>1, <2>5, <2>6, <2>7, <2>8
<1>2. Plans(nets, row) = none
    <2>1. "private" \in Roles /\ "public" \in Roles /\ "backup" \in Roles
        BY DEF Roles
    <2> HIDE DEF none
    <2> QED BY <1>1, <2>1 DEF Plans, none
<1>3. Renumbered(nets, none) = nets
    <2>1. Renumbered(nets, none) = [i \in DOMAIN nets |-> nets[i]]
        BY DEF Renumbered
    <2> QED BY <2>1
<1>4. Attached(nets, row) = nets \o <<>>
    <2>1. Attached(nets, row) = Renumbered(nets, Plans(nets, row)) \o Plans(nets, row).inserts
        BY DEF Attached, Renumbered
    <2>2. none.inserts = <<>>
        OBVIOUS
    <2> HIDE DEF none
    <2> QED BY <1>2, <1>3, <2>1, <2>2
<1> QED BY <1>4, ConcatEmptySeq

(* Whatever networks a VM has and whatever addresses a row mentions: its plan is
   sound.  That the address of a network which is taken over is not mentioned in the
   column of its role (Moves) keeps what the row names; that all mentioned addresses
   are claimed (Claims) leaves nothing to do a second time. *)
LEMMA PlanSound ==
    ASSUME NEW nets \in Seq(Network), NEW row \in [Roles -> Seq(Ips)]
    PROVE  IsSound(nets, row) /\ Attached(nets, row) \in Seq(Network)
<1> DEFINE plan == Plans(nets, row)
           b == Renumbered(nets, plan)
           after == Attached(nets, row)
<1>1. PlanInv(plan, nets, row, Roles)
    BY PlansAre
<1> HIDE DEF plan
<1>2. /\ b \in Seq(Network) /\ DOMAIN b = DOMAIN nets
      /\ \A i \in DOMAIN nets : b[i].role = nets[i].role
      /\ \A t \in plan.retargets : t[1] \in DOMAIN nets /\ b[t[1]].ip = t[2]
      /\ \A i \in DOMAIN nets : (\E t \in plan.retargets : t[1] = i) \/ b[i] = nets[i]
    BY <1>1, RenumberedIs DEF PlanInv
<1>3. after = b \o plan.inserts
    BY DEF Attached, Renumbered, plan
<1> HIDE DEF b, after
<1>4. plan.inserts \in Seq(Network) /\ Distinct(plan.inserts)
    BY <1>1 DEF PlanInv, Adds
<1>5. ASSUME NEW i \in DOMAIN nets
      PROVE  b[i].ip \in Taken(plan) \cup Addresses(nets)
    <2>1. ASSUME NEW t \in plan.retargets, t[1] = i PROVE b[i].ip \in Taken(plan)
        BY <1>2, <2>1 DEF Taken
    <2>2. ASSUME b[i] = nets[i] PROVE b[i].ip \in Addresses(nets)
        BY <2>2 DEF Addresses
    <2> QED BY <1>2, <2>1, <2>2
<1>6. ASSUME NEW i \in DOMAIN nets, NEW j \in DOMAIN nets, b[i].ip = b[j].ip, i # j
      PROVE  nets[i].ip = nets[j].ip
    <2>1. Taken(plan) \cap Addresses(nets) = {}
        BY <1>1 DEF PlanInv, Apart
    <2>2. CASE b[i] = nets[i] /\ b[j] = nets[j]
        BY <1>6, <2>2
    <2>3. ASSUME NEW t \in plan.retargets, NEW u \in plan.retargets, t[1] = i, u[1] = j
          PROVE  FALSE
        <3>1. t[2] = u[2]
            BY <1>2, <1>6, <2>3
        <3> QED BY <1>1, <1>6, <2>3, <3>1 DEF PlanInv, Moves
    <2>4. ASSUME NEW t \in plan.retargets, NEW k \in DOMAIN nets, b[k] = nets[k], b[t[1]].ip = b[k].ip
          PROVE  FALSE
        <3>1. t[2] \in Taken(plan) /\ t[2] = nets[k].ip
            BY <1>2, <2>4 DEF Taken
        <3> QED BY <2>1, <3>1 DEF Addresses
    <2>5. CASE b[i] = nets[i] /\ b[j] # nets[j]
        <3>1. PICK t \in plan.retargets : t[1] = j
            BY <1>2, <2>5
        <3> QED BY <1>6, <2>4, <2>5, <3>1
    <2>6. CASE b[i] # nets[i] /\ b[j] = nets[j]
        <3>1. PICK t \in plan.retargets : t[1] = i
            BY <1>2, <2>6
        <3> QED BY <1>6, <2>4, <2>6, <3>1
    <2>7. CASE b[i] # nets[i] /\ b[j] # nets[j]
        <3>1. PICK t \in plan.retargets : t[1] = i
            BY <1>2, <2>7
        <3>2. PICK u \in plan.retargets : u[1] = j
            BY <1>2, <2>7
        <3> QED BY <2>3, <3>1, <3>2
    <2> QED BY <2>2, <2>5, <2>6, <2>7
<1>7. Addresses(b) \cap Addresses(plan.inserts) = {}
    <2>1. \A i \in DOMAIN nets : b[i].ip \in Taken(plan) \cup Addresses(nets)
        BY <1>5
    <2>2. Addresses(b) \subseteq Taken(plan) \cup Addresses(nets)
        BY <1>2, <2>1 DEF Addresses
    <2> QED BY <1>1, <2>2 DEF PlanInv, Apart
<1>8. /\ after \in Seq(Network)
      /\ Addresses(after) = Addresses(b) \cup Addresses(plan.inserts)
      /\ NoNewRepeats(nets, after)
      /\ \A i \in DOMAIN nets : i \in DOMAIN after /\ after[i] = b[i]
    <2>1. NoNewRepeats(b, after) /\ Addresses(after) = Addresses(b) \cup Addresses(plan.inserts)
        BY <1>2, <1>3, <1>4, <1>7, AddressesJoined
    <2>2. /\ after \in Seq(Network) /\ Len(b) \in Nat /\ Len(plan.inserts) \in Nat
          /\ DOMAIN after = 1 .. Len(b) + Len(plan.inserts) /\ DOMAIN b = 1 .. Len(b)
          /\ \A i \in 1 .. Len(b) : after[i] = b[i]
        BY <1>2, <1>3, <1>4, Joined
    <2>3. NoNewRepeats(nets, after)
        BY <1>2, <1>6, <2>1, <2>2 DEF NoNewRepeats
    <2> QED BY <1>2, <2>1, <2>2, <2>3
<1>9. ASSUME NEW r \in Roles, NEW a \in HeldAs(nets, r), a \in Range(row[r])
      PROVE  a \in HeldAs(after, r) /\ a \in Addresses(after)
    <2>1. PICK i \in DOMAIN nets : nets[i].role = r /\ nets[i].ip = a
        BY DEF HeldAs
    <2>2. ~\E t \in plan.retargets : t[1] = i
        BY <1>1, <1>9, <2>1 DEF PlanInv, Moves
    <2>3. i \in DOMAIN after /\ after[i] = nets[i]
        BY <1>2, <1>8, <2>2
    <2> QED BY <2>1, <2>3 DEF HeldAs, Addresses
<1>10. ASSUME ~Displaces(nets, row), NEW r \in Roles, NEW a \in Range(row[r])
       PROVE  a \in Addresses(after)
    <2>1. a \in Addresses(nets) \cup Taken(plan) \cup Addresses(plan.inserts)
        BY <1>1 DEF PlanInv, Claims
    <2>2. CASE a \in Addresses(nets)
        <3>1. a \in HeldAs(nets, r)
            BY <1>10, <2>2 DEF Displaces
        <3> QED BY <1>9, <3>1
    <2>3. CASE a \in Taken(plan)
        <3>1. PICK t \in plan.retargets : t[2] = a
            BY <2>3 DEF Taken
        <3>2. t[1] \in DOMAIN after /\ after[t[1]].ip = a
            BY <1>2, <1>8, <3>1
        <3> QED BY <3>2 DEF Addresses
    <2>4. CASE a \in Addresses(plan.inserts)
        BY <1>8, <2>4
    <2> QED BY <2>1, <2>2, <2>3, <2>4
<1>11. ASSUME ~Displaces(nets, row)
       PROVE  /\ \A r \in Roles : Range(row[r]) \subseteq Addresses(after)
              /\ Attached(after, row) = after
    <2>1. \A r \in Roles : Range(row[r]) \subseteq Addresses(after)
        BY <1>10, <1>11
    <2> QED BY <1>8, <2>1, NothingToAttach
<1> QED BY <1>8, <1>9, <1>11 DEF IsSound, after

(* The types of the networks of the VM and of the row. *)
NetworksTyped ==
    /\ mentions \in [Roles -> Seq(Ips)]
    /\ part = "networks" => networks \in Seq(Network)

LEMMA BoundedAre ==
    ASSUME NEW S, NEW N \in Nat, NEW s \in BoundedSeq(S, N)
    PROVE  s \in Seq(S)
<1>1. PICK m \in 0 .. N : s \in [1 .. m -> S]
    BY DEF BoundedSeq, SeqOf
<1>2. m \in Nat
    BY <1>1
<1> QED BY <1>1, <1>2

(* However often any row is imported into any VM: no address again, none moved that
   the row names, and nothing left to do a second time (imports.rs: ip_plans,
   attach_children). *)
THEOREM ImportPlansSound == MCSpec => []PlanIsSound
<1>1. MCInit => NetworksTyped
    <2>1. MaxNetworks \in Nat /\ MaxMentions \in Nat
        BY PlanBoundsAreNatural
    <2>2. ASSUME BatchesInit PROVE NetworksTyped
        <3>1. \A r \in Roles : <<>> \in Seq(Ips)
            OBVIOUS
        <3>2. mentions \in [Roles -> Seq(Ips)]
            BY <2>2, <3>1 DEF BatchesInit
        <3> QED BY <2>2, <3>2 DEF BatchesInit, NetworksTyped
    <2>3. ASSUME NetworksInit PROVE NetworksTyped
        <3>1. networks \in Seq(Network)
            BY <2>1, <2>3, BoundedAre DEF NetworksInit, NetworkLists
        <3>2. mentions \in [Roles -> BoundedSeq(Ips, MaxMentions)]
            BY <2>3 DEF NetworksInit, MentionLists
        <3>3. \A r \in Roles : mentions[r] \in Seq(Ips)
            BY <2>1, <3>2, BoundedAre
        <3> QED BY <3>1, <3>2, <3>3 DEF NetworksTyped
    <2> QED BY <2>2, <2>3 DEF MCInit
<1>2. NetworksTyped /\ [MCNext]_<<part, networks, mentions, vars>> => NetworksTyped'
    <2> SUFFICES ASSUME NetworksTyped, [MCNext]_<<part, networks, mentions, vars>>
                 PROVE  NetworksTyped'
        OBVIOUS
    <2>1. CASE ImportRow
        BY <2>1, PlanSound DEF ImportRow, NetworksTyped
    <2>2. CASE UNCHANGED <<part, networks, mentions>>
        BY <2>2 DEF NetworksTyped
    <2> QED BY <2>1, <2>2 DEF MCNext, ImportBatches
<1>3. NetworksTyped => PlanIsSound
    BY PlanSound DEF NetworksTyped, PlanIsSound
<1> QED BY <1>1, <1>2, <1>3, PTL DEF MCSpec

================================================================================
