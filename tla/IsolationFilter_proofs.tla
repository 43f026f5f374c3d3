------------------------ MODULE IsolationFilter_proofs ------------------------
(***************************************************************************)
(* Theorems about what a provider request is given of the session, for any *)
(* number of goals, steps, stamps, tool calls and entries of a branch.     *)
(*                                                                         *)
(* A request is filtered by the last record, the last compaction and the   *)
(* cutoff of one goal; that this is enough rests on how the branch came to *)
(* be.  The invariant (History) says it of a sequence of entries alone, in *)
(* a form that every prefix inherits, because the human may select one.    *)
(***************************************************************************)
EXTENDS IsolationFilter, SequenceTheorems, FiniteSetTheorems, WellFoundedInduction, TLAPS

Entry == Message \cup GoalRecord \cup Compaction

-----------------------------------------------------------------------------
(* The inductive invariant.                                                *)

IsWork(entry) == entry.kind \in {"user", "assistant"}

Stamp(entry) == IF entry.kind = "goal" THEN entry.goal.cutoff ELSE entry.stamp

(* The record at r is the one the first n entries leave in memory.         *)
Holds(b, r, n) ==
  /\ r \in 1..n
  /\ b[r].kind = "goal"
  /\ \A k \in (r + 1)..n : b[k].kind # "goal"

(* A branch begins with a goal; a step after the first has a cutoff; a     *)
(* goal comes after those of lower number.                                 *)
Numbers(b) ==
  /\ Len(b) >= 1 /\ b[1].kind = "goal"
  /\ \A r \in DOMAIN b : b[r].kind = "goal" => (b[r].goal.work.step > 1 => b[r].goal.cutoff > 0)
  /\ \A r, q \in DOMAIN b :
       (b[r].kind = "goal" /\ b[q].kind = "goal" /\ r <= q) =>
         b[r].goal.work.goal <= b[q].goal.work.goal

(* A reply is later than all that was there, a result not earlier.         *)
Ordered(b) ==
  \A i, k \in DOMAIN b : i < k =>
    /\ b[k].kind = "assistant" => Stamp(b[i]) < b[k].stamp
    /\ b[k].kind = "result" => Stamp(b[i]) <= b[k].stamp

(* Work before a record is of an earlier goal, or of the same goal and of  *)
(* a step that the record's cutoff shuts out; of the record's own step     *)
(* only if the record completes the goal.                                  *)
Precedes(entry, g) ==
  \/ entry.work.goal < g.work.goal
  \/ /\ entry.work.goal = g.work.goal
     /\ entry.work.step <= g.work.step
     /\ ~g.complete => entry.work.step < g.work.step
     /\ entry.work.step < g.work.step => entry.stamp <= g.cutoff

Behind(b) ==
  \A q, i \in DOMAIN b :
    (b[q].kind = "goal" /\ i < q /\ IsWork(b[i])) => Precedes(b[i], b[q].goal)

(* Work after it is the record's own.                                      *)
Own(b) ==
  \A q, i \in DOMAIN b : (Holds(b, q, i) /\ IsWork(b[i])) => b[i].work = b[q].goal.work

(* A result follows the reply that made its call, with nothing between but *)
(* other results and the records of completed steps.                       *)
Answers(b, i, j) ==
  /\ j < i /\ b[j].kind = "assistant"
  /\ b[i].calls \subseteq b[j].calls
  /\ b[i].work = b[j].work
  /\ \A k \in (j + 1)..i : b[k].kind \in {"result", "goal"}

Grouped(b) ==
  \A i \in DOMAIN b : b[i].kind = "result" =>
    b[i].calls # {} /\ \E j \in DOMAIN b : Answers(b, i, j)

(* No two replies share a call.                                            *)
Distinct(b) ==
  \A i, j \in DOMAIN b :
    (b[i].kind = "assistant" /\ b[j].kind = "assistant" /\ i # j) =>
      b[i].calls \cap b[j].calls = {}

(* No compaction keeps a result without its reply.                         *)
KeptWhole(b) ==
  \A p \in DOMAIN b : b[p].kind = "compaction" =>
    \/ b[p].kept \in {p, p + 1}
    \/ b[p].kept \in 1..(p - 1) /\ b[b[p].kept].kind \notin {"result", "goal", "compaction"}

(* The call that completed a step was made before.                         *)
Caused(b) ==
  \A r \in DOMAIN b : b[r].kind = "goal" =>
    \A c \in b[r].by : \E j \in DOMAIN b : j < r /\ b[j].kind = "assistant" /\ c \in b[j].calls

(* From a completion on, the goal's cutoff shuts out the replies before    *)
(* it, until the goal is complete.                                         *)
Closed(b) ==
  \A r, q, i \in DOMAIN b :
    ( /\ b[r].kind = "goal" /\ b[r].by # {}
      /\ b[q].kind = "goal" /\ r <= q /\ ~b[q].goal.complete
      /\ b[q].goal.work.goal = b[r].goal.work.goal
      /\ i < r /\ b[i].kind = "assistant" ) => b[i].stamp <= b[q].goal.cutoff

(* A summary covers the work of the step it was made in, and is in view.   *)
Covered(b) ==
  \A p, q, i \in DOMAIN b :
    ( /\ b[p].kind = "compaction" /\ Holds(b, q, p)
      /\ q < i /\ i < p /\ b[i].kind # "compaction"
      /\ b[i].work = b[q].goal.work /\ i < b[p].kept ) =>
         b[i].work \in b[p].covers /\ b[p].stamp > b[q].goal.cutoff

History(b) ==
  /\ Numbers(b) /\ Ordered(b) /\ Behind(b) /\ Own(b) /\ Grouped(b)
  /\ Distinct(b) /\ KeptWhole(b) /\ Caused(b) /\ Closed(b) /\ Covered(b)

GoalIsRecorded == \A q \in DOMAIN branch : Holds(branch, q, Len(branch)) => goal = branch[q].goal

(* The turn that runs is the last reply's.  If it completed the step, the  *)
(* boundary it waits for is that of another step than its own.             *)
Leads(b, j, calls) ==
  /\ b[j].kind = "assistant"
  /\ calls \subseteq b[j].calls
  /\ \A k \in (j + 1)..Len(b) : b[k].kind \in {"result", "goal"}

Running(b, calls, next) ==
  calls # {} =>
    \E j \in DOMAIN b :
      /\ Leads(b, j, calls)
      /\ next.call \in calls => b[j].work # next.work

TurnInv == Running(branch, turn.open \cup turn.answered, boundary)

(* What the extension remembers of completions agrees with the records.    *)
Remembered(b, completions, open) ==
  \A r \in DOMAIN b : b[r].kind = "goal" =>
    /\ \A a \in completions : a.call \in b[r].by => b[r].goal.work.goal = a.goal
    /\ \A c \in b[r].by \cap open : \E a \in completions : a.call = c

AcceptedInv ==
  /\ boundary # NoBoundary => \E a \in accepted : a.call = boundary.call
  /\ Remembered(branch, accepted, turn.open)

FilterInv == TypeOK /\ History(branch) /\ GoalIsRecorded /\ TurnInv /\ AcceptedInv

-----------------------------------------------------------------------------
(* Numbers, and the fields of entries.                                     *)

LEMMA MaxIsReached ==
  ASSUME NEW n \in Nat, NEW S, S \subseteq 0..n, S # {}
  PROVE  Max(S) \in S /\ \A x \in S : Max(S) >= x
<1> DEFINE T == {k \in Nat : \A x \in S : x <= k}
<1>1. PICK k \in T : \A other \in T : ~ (<<other, k>> \in OpToRel(<, Nat))
  <2>1. n \in T /\ T \subseteq Nat
    OBVIOUS
  <2> HIDE DEF T
  <2> QED
    BY <2>1, NatLessThanWellFounded, WFMin, Zenon
<1>2. ASSUME NEW other \in T PROVE other >= k
  <2>1. other \in Nat /\ k \in Nat
    OBVIOUS
  <2>2. other < k => <<other, k>> \in OpToRel(<, Nat)
    BY <2>1 DEF OpToRel
  <2>3. ~(other < k)
    <3> HIDE DEF T
    <3> QED
      BY <1>1, <2>2, Zenon
  <2> QED
    BY <2>1, <2>3
<1>3. k \in S
  <2> SUFFICES ASSUME k \notin S PROVE FALSE
    OBVIOUS
  <2>1. k \in Nat /\ \A x \in S : x \in Nat /\ x < k
    OBVIOUS
  <2>2. PICK x0 \in S : TRUE
    OBVIOUS
  <2>3. k - 1 \in Nat /\ \A x \in S : x <= k - 1
    BY <2>1, <2>2
  <2>4. k - 1 \in T /\ ~(k - 1 >= k)
    BY <2>1, <2>3
  <2> QED
    BY <1>2, <2>4
<1>4. k \in S /\ \A x \in S : k >= x
  BY <1>3
<1> QED
  BY <1>4 DEF Max

LEMMA EntryKinds ==
  ASSUME NEW e \in Entry
  PROVE  /\ e.kind \in {"user", "assistant", "result", "snapshot", "goal", "compaction"}
         /\ e.kind = "goal" => e \in GoalRecord
         /\ e.kind = "compaction" => e \in Compaction
         /\ e.kind \notin {"goal", "compaction"} => e \in Message
BY DEF Entry, Message, GoalRecord, Compaction

LEMMA GoalFields ==
  ASSUME NEW g \in Goal
  PROVE  /\ g.work \in Work /\ g.complete \in BOOLEAN /\ g.cutoff \in 0..MaxClock
         /\ g.work.goal \in 1..MaxGoals /\ g.work.step \in 1..Steps
         /\ g.cutoff \in Nat /\ g.work.goal \in Nat /\ g.work.step \in Nat
BY IsolationAssumption DEF Goal, Work, Stamps

LEMMA RecordFields ==
  ASSUME NEW e \in Entry, e.kind = "goal"
  PROVE  e.goal \in Goal /\ e.by \subseteq Calls
BY EntryKinds DEF GoalRecord

LEMMA CompactionFields ==
  ASSUME NEW e \in Entry, e.kind = "compaction"
  PROVE  /\ e.stamp \in 0..MaxClock /\ e.stamp \in Nat
         /\ e.kept \in Nat /\ e.covers \subseteq Work
BY EntryKinds, IsolationAssumption DEF Compaction, Stamps

LEMMA MessageFields ==
  ASSUME NEW e \in Entry, e.kind \notin {"goal", "compaction"}
  PROVE  /\ e.stamp \in 0..MaxClock /\ e.stamp \in Nat
         /\ e.work \in Work /\ e.calls \subseteq Calls
         /\ e.work.goal \in Nat /\ e.work.step \in Nat
BY EntryKinds, IsolationAssumption DEF Message, Stamps, Work

LEMMA StampFields ==
  ASSUME NEW e \in Entry
  PROVE  Stamp(e) \in 0..MaxClock /\ Stamp(e) \in Nat
BY RecordFields, CompactionFields, MessageFields, GoalFields DEF Stamp

-----------------------------------------------------------------------------
(* A prefix of a history is a history.                                     *)

LEMMA PrefixIsHistory ==
  ASSUME NEW b \in Seq(Entry), NEW p \in Seq(Entry), History(b),
         Len(p) \in 1..Len(b), \A i \in 1..Len(p) : p[i] = b[i]
  PROVE  History(p)
<1>1. DOMAIN p \subseteq DOMAIN b /\ \A i \in DOMAIN p : p[i] = b[i] /\ i \in 1..Len(b) /\ i \in Nat
  OBVIOUS
<1>2. \A r, n \in DOMAIN p : Holds(p, r, n) => Holds(b, r, n)
  BY <1>1 DEF Holds
<1>3. Numbers(p)
  BY <1>1 DEF History, Numbers
<1>4. Ordered(p)
  BY <1>1 DEF History, Ordered
<1>5. Behind(p)
  BY <1>1 DEF History, Behind
<1>6. Own(p)
  BY <1>1, <1>2 DEF History, Own
<1>7. Grouped(p)
  BY <1>1 DEF History, Grouped, Answers
<1>8. Distinct(p)
  BY <1>1 DEF History, Distinct
<1>9. KeptWhole(p)
  BY <1>1 DEF History, KeptWhole
<1>10. Caused(p)
  BY <1>1 DEF History, Caused
<1>11. Closed(p)
  BY <1>1 DEF History, Closed
<1>12. Covered(p)
  BY <1>1, <1>2 DEF History, Covered
<1> QED
  BY <1>3, <1>4, <1>5, <1>6, <1>7, <1>8, <1>9, <1>10, <1>11, <1>12 DEF History

-----------------------------------------------------------------------------
(* What an entry must satisfy for a longer branch to be a history, one     *)
(* part of the invariant at a time.                                        *)

Grows(b, p, e) ==
  /\ Len(p) = Len(b) + 1 /\ p[Len(b) + 1] = e
  /\ \A i \in 1..Len(b) : p[i] = b[i]

LEMMA AppendGrows ==
  ASSUME NEW b \in Seq(Entry), NEW e \in Entry
  PROVE  Append(b, e) \in Seq(Entry) /\ Grows(b, Append(b, e), e)
BY DEF Grows

(* Entries of the old branch, and the new one.                             *)
LEMMA GrownDomain ==
  ASSUME NEW b \in Seq(Entry), NEW p \in Seq(Entry), NEW e, Grows(b, p, e)
  PROVE  /\ Len(b) \in Nat /\ DOMAIN b = 1..Len(b) /\ DOMAIN p = 1..(Len(b) + 1)
         /\ e \in Entry
         /\ \A i \in DOMAIN p : i \in Nat /\ p[i] \in Entry
         /\ \A i \in DOMAIN p :
              (i \in DOMAIN b /\ i <= Len(b) /\ p[i] = b[i]) \/ (i = Len(b) + 1 /\ p[i] = e)
BY DEF Grows

LEMMA GrownHolds ==
  ASSUME NEW b \in Seq(Entry), NEW p \in Seq(Entry), NEW e, Grows(b, p, e),
         NEW r \in DOMAIN p, NEW n \in DOMAIN p, Holds(p, r, n)
  PROVE  \/ r \in DOMAIN b /\ n \in DOMAIN b /\ Holds(b, r, n)
         \/ n = Len(b) + 1 /\ e.kind # "goal" /\ r \in DOMAIN b /\ Holds(b, r, Len(b))
         \/ n = Len(b) + 1 /\ e.kind = "goal" /\ r = n
BY DEF Holds, Grows

LEMMA NumbersGrow ==
  ASSUME NEW b \in Seq(Entry), NEW p \in Seq(Entry), NEW e, Grows(b, p, e), Numbers(b),
         e.kind = "goal" =>
           /\ e.goal.work.step > 1 => e.goal.cutoff > 0
           /\ \A r \in DOMAIN b : b[r].kind = "goal" => b[r].goal.work.goal <= e.goal.work.goal
  PROVE  Numbers(p)
<1>1. Len(p) >= 1 /\ p[1].kind = "goal"
  BY DEF Grows, Numbers
<1>2. \A r \in DOMAIN p : p[r].kind = "goal" => (p[r].goal.work.step > 1 => p[r].goal.cutoff > 0)
  BY GrownDomain DEF Numbers
<1>3. ASSUME NEW r \in DOMAIN p, NEW q \in DOMAIN p, p[r].kind = "goal", p[q].kind = "goal", r <= q
      PROVE  p[r].goal.work.goal <= p[q].goal.work.goal
  <2>1. CASE q \in DOMAIN b
    <3>1. r \in DOMAIN b /\ p[r] = b[r] /\ p[q] = b[q]
      BY <1>3, <2>1, GrownDomain
    <3> QED
      BY <1>3, <2>1, <3>1 DEF Numbers
  <2>2. CASE q = Len(b) + 1 /\ p[q] = e /\ r \in DOMAIN b /\ p[r] = b[r]
    BY <1>3, <2>2
  <2>3. CASE q = Len(b) + 1 /\ p[q] = e /\ r = q
    <3>1. p[r].goal.work.goal \in Nat
      BY <1>3, GrownDomain, RecordFields, GoalFields
    <3> QED
      BY <2>3, <3>1
  <2> QED
    BY <2>1, <2>2, <2>3, GrownDomain
<1> QED
  BY <1>1, <1>2, <1>3 DEF Numbers

LEMMA OrderedGrow ==
  ASSUME NEW b \in Seq(Entry), NEW p \in Seq(Entry), NEW e, Grows(b, p, e), Ordered(b),
         e.kind = "assistant" => \A i \in DOMAIN b : Stamp(b[i]) < e.stamp,
         e.kind = "result" => \A i \in DOMAIN b : Stamp(b[i]) <= e.stamp
  PROVE  Ordered(p)
<1> SUFFICES ASSUME NEW i \in DOMAIN p, NEW k \in DOMAIN p, i < k
             PROVE  /\ p[k].kind = "assistant" => Stamp(p[i]) < p[k].stamp
                    /\ p[k].kind = "result" => Stamp(p[i]) <= p[k].stamp
  BY DEF Ordered
<1>1. i \in DOMAIN b /\ p[i] = b[i]
  BY GrownDomain
<1>2. CASE k \in DOMAIN b /\ p[k] = b[k]
  BY <1>1, <1>2 DEF Ordered
<1>3. CASE p[k] = e
  BY <1>1, <1>3
<1> QED
  BY <1>2, <1>3, GrownDomain

LEMMA BehindGrow ==
  ASSUME NEW b \in Seq(Entry), NEW p \in Seq(Entry), NEW e, Grows(b, p, e), Behind(b),
         e.kind = "goal" => \A i \in DOMAIN b : IsWork(b[i]) => Precedes(b[i], e.goal)
  PROVE  Behind(p)
<1> SUFFICES ASSUME NEW q \in DOMAIN p, NEW i \in DOMAIN p, p[q].kind = "goal", i < q, IsWork(p[i])
             PROVE  Precedes(p[i], p[q].goal)
  BY DEF Behind
<1>1. i \in DOMAIN b /\ p[i] = b[i]
  BY GrownDomain
<1>2. CASE q \in DOMAIN b /\ p[q] = b[q]
  BY <1>1, <1>2 DEF Behind
<1>3. CASE p[q] = e
  BY <1>1, <1>3
<1> QED
  BY <1>2, <1>3, GrownDomain

LEMMA OwnGrow ==
  ASSUME NEW b \in Seq(Entry), NEW p \in Seq(Entry), NEW e, Grows(b, p, e), Own(b),
         IsWork(e) => \A q \in DOMAIN b : Holds(b, q, Len(b)) => e.work = b[q].goal.work
  PROVE  Own(p)
<1> SUFFICES ASSUME NEW q \in DOMAIN p, NEW i \in DOMAIN p, Holds(p, q, i), IsWork(p[i])
             PROVE  p[i].work = p[q].goal.work
  BY DEF Own
<1>1. CASE q \in DOMAIN b /\ i \in DOMAIN b /\ Holds(b, q, i)
  BY <1>1, GrownDomain DEF Own
<1>2. CASE i = Len(b) + 1 /\ q \in DOMAIN b /\ Holds(b, q, Len(b))
  BY <1>2, GrownDomain
<1>3. CASE i = Len(b) + 1 /\ e.kind = "goal"
  BY <1>3, GrownDomain DEF IsWork
<1> QED
  BY <1>1, <1>2, <1>3, GrownHolds

LEMMA GroupedGrow ==
  ASSUME NEW b \in Seq(Entry), NEW p \in Seq(Entry), NEW e, Grows(b, p, e), Grouped(b),
         e.kind = "result" =>
           /\ e.calls # {}
           /\ \E j \in DOMAIN b : Leads(b, j, e.calls) /\ e.work = b[j].work
  PROVE  Grouped(p)
<1> SUFFICES ASSUME NEW i \in DOMAIN p, p[i].kind = "result"
             PROVE  p[i].calls # {} /\ \E j \in DOMAIN p : Answers(p, i, j)
  BY DEF Grouped
<1>1. CASE i \in DOMAIN b /\ p[i] = b[i]
  <2>1. PICK j \in DOMAIN b : Answers(b, i, j)
    BY <1>1 DEF Grouped
  <2>2. j \in DOMAIN p /\ Answers(p, i, j)
    BY <1>1, <2>1, GrownDomain DEF Answers
  <2> QED
    BY <1>1, <2>2 DEF Grouped
<1>2. CASE i = Len(b) + 1 /\ p[i] = e
  <2>1. PICK j \in DOMAIN b : Leads(b, j, e.calls) /\ e.work = b[j].work
    BY <1>2
  <2>2. j \in DOMAIN p /\ Answers(p, i, j)
    BY <1>2, <2>1, GrownDomain DEF Answers, Leads
  <2> QED
    BY <1>2, <2>2
<1> QED
  BY <1>1, <1>2, GrownDomain

LEMMA DistinctGrow ==
  ASSUME NEW b \in Seq(Entry), NEW p \in Seq(Entry), NEW e, Grows(b, p, e), Distinct(b),
         e.kind = "assistant" =>
           \A i \in DOMAIN b : b[i].kind = "assistant" => b[i].calls \cap e.calls = {}
  PROVE  Distinct(p)
BY GrownDomain DEF Distinct

LEMMA KeptWholeGrow ==
  ASSUME NEW b \in Seq(Entry), NEW p \in Seq(Entry), NEW e, Grows(b, p, e), KeptWhole(b),
         e.kind = "compaction" =>
           \/ e.kept \in {Len(b) + 1, Len(b) + 2}
           \/ e.kept \in DOMAIN b /\ b[e.kept].kind \notin {"result", "goal", "compaction"}
  PROVE  KeptWhole(p)
<1> SUFFICES ASSUME NEW i \in DOMAIN p, p[i].kind = "compaction"
             PROVE  \/ p[i].kept \in {i, i + 1}
                    \/ p[i].kept \in 1..(i - 1) /\ p[p[i].kept].kind \notin {"result", "goal", "compaction"}
  BY DEF KeptWhole
<1>1. CASE i \in DOMAIN b /\ p[i] = b[i]
  BY <1>1, GrownDomain DEF KeptWhole
<1>2. CASE i = Len(b) + 1 /\ p[i] = e
  BY <1>2, GrownDomain
<1> QED
  BY <1>1, <1>2, GrownDomain

LEMMA CausedGrow ==
  ASSUME NEW b \in Seq(Entry), NEW p \in Seq(Entry), NEW e, Grows(b, p, e), Caused(b),
         e.kind = "goal" =>
           \A c \in e.by : \E j \in DOMAIN b : b[j].kind = "assistant" /\ c \in b[j].calls
  PROVE  Caused(p)
<1> SUFFICES ASSUME NEW r \in DOMAIN p, p[r].kind = "goal", NEW c \in p[r].by
             PROVE  \E j \in DOMAIN p : j < r /\ p[j].kind = "assistant" /\ c \in p[j].calls
  BY DEF Caused
<1>1. CASE r \in DOMAIN b /\ p[r] = b[r]
  <2>1. PICK j \in DOMAIN b : j < r /\ b[j].kind = "assistant" /\ c \in b[j].calls
    BY <1>1 DEF Caused
  <2> QED
    BY <2>1, GrownDomain
<1>2. CASE r = Len(b) + 1 /\ p[r] = e
  <2>1. PICK j \in DOMAIN b : b[j].kind = "assistant" /\ c \in b[j].calls
    BY <1>2
  <2> QED
    BY <1>2, <2>1, GrownDomain
<1> QED
  BY <1>1, <1>2, GrownDomain

LEMMA ClosedGrow ==
  ASSUME NEW b \in Seq(Entry), NEW p \in Seq(Entry), NEW e, Grows(b, p, e), Closed(b),
         e.kind = "goal" =>
           \/ e.by = {} /\ \A r \in DOMAIN b : b[r].kind = "goal" =>
                             b[r].goal.work.goal # e.goal.work.goal
           \/ e.goal.complete
           \/ \A i \in DOMAIN b : b[i].kind = "assistant" => b[i].stamp <= e.goal.cutoff
  PROVE  Closed(p)
<1> SUFFICES ASSUME NEW r \in DOMAIN p, NEW q \in DOMAIN p, NEW i \in DOMAIN p,
                    p[r].kind = "goal", p[r].by # {},
                    p[q].kind = "goal", r <= q, ~p[q].goal.complete,
                    p[q].goal.work.goal = p[r].goal.work.goal,
                    i < r, p[i].kind = "assistant"
             PROVE  p[i].stamp <= p[q].goal.cutoff
  BY DEF Closed
<1>1. i \in DOMAIN b /\ p[i] = b[i]
  BY GrownDomain
<1>2. CASE q \in DOMAIN b /\ p[q] = b[q]
  <2>1. r \in DOMAIN b /\ p[r] = b[r]
    BY <1>2, GrownDomain
  <2> QED
    BY <1>1, <1>2, <2>1 DEF Closed
<1>3. CASE p[q] = e
  BY <1>1, <1>3, GrownDomain
<1> QED
  BY <1>2, <1>3, GrownDomain

LEMMA CoveredGrow ==
  ASSUME NEW b \in Seq(Entry), NEW p \in Seq(Entry), NEW e, Grows(b, p, e), Covered(b),
         e.kind = "compaction" =>
           \A q, i \in DOMAIN b :
             (Holds(b, q, Len(b)) /\ q < i /\ b[i].kind # "compaction"
                /\ b[i].work = b[q].goal.work /\ i < e.kept) =>
               b[i].work \in e.covers /\ e.stamp > b[q].goal.cutoff
  PROVE  Covered(p)
<1> SUFFICES ASSUME NEW n \in DOMAIN p, NEW q \in DOMAIN p, NEW i \in DOMAIN p,
                    p[n].kind = "compaction", Holds(p, q, n),
                    q < i, i < n, p[i].kind # "compaction",
                    p[i].work = p[q].goal.work, i < p[n].kept
             PROVE  p[i].work \in p[n].covers /\ p[n].stamp > p[q].goal.cutoff
  BY DEF Covered
<1>1. i \in DOMAIN b /\ p[i] = b[i] /\ q \in DOMAIN b /\ p[q] = b[q]
  BY GrownDomain
<1>2. CASE n \in DOMAIN b /\ p[n] = b[n] /\ Holds(b, q, n)
  BY <1>1, <1>2 DEF Covered
<1>3. CASE n = Len(b) + 1 /\ p[n] = e /\ Holds(b, q, Len(b))
  BY <1>1, <1>3
<1>4. n \in DOMAIN b \/ n = Len(b) + 1
  BY GrownDomain
<1>5. CASE n \in DOMAIN b
  <2>1. p[n] = b[n] /\ n # Len(b) + 1
    BY <1>5, GrownDomain
  <2> QED
    BY <1>2, <1>5, <2>1, GrownHolds
<1>6. CASE n = Len(b) + 1
  <2>1. p[n] = e /\ n \notin DOMAIN b /\ q # n
    BY <1>1, <1>6, GrownDomain
  <2> QED
    BY <1>3, <1>6, <2>1, GrownHolds
<1> QED
  BY <1>4, <1>5, <1>6

(* A history that grows by an entry of its kind is a history.              *)
LEMMA HistoryByRecord ==
  ASSUME NEW b \in Seq(Entry), NEW p \in Seq(Entry), NEW e, Grows(b, p, e), History(b),
         e.kind = "goal",
         e.goal.work.step > 1 => e.goal.cutoff > 0,
         \A r \in DOMAIN b : b[r].kind = "goal" => b[r].goal.work.goal <= e.goal.work.goal,
         \A i \in DOMAIN b : IsWork(b[i]) => Precedes(b[i], e.goal),
         \A c \in e.by : \E j \in DOMAIN b : b[j].kind = "assistant" /\ c \in b[j].calls,
         \/ e.by = {} /\ \A r \in DOMAIN b : b[r].kind = "goal" =>
                           b[r].goal.work.goal # e.goal.work.goal
         \/ e.goal.complete
         \/ \A i \in DOMAIN b : b[i].kind = "assistant" => b[i].stamp <= e.goal.cutoff
  PROVE  History(p)
<1>1. ~IsWork(e) /\ e.kind # "assistant" /\ e.kind # "result" /\ e.kind # "compaction"
  BY DEF IsWork
<1>2. Numbers(p)
  BY NumbersGrow DEF History
<1>3. Ordered(p)
  BY <1>1, OrderedGrow DEF History
<1>4. Behind(p)
  BY BehindGrow DEF History
<1>5. Own(p)
  BY <1>1, OwnGrow DEF History
<1>6. Grouped(p)
  BY <1>1, GroupedGrow DEF History
<1>7. Distinct(p)
  BY <1>1, DistinctGrow DEF History
<1>8. KeptWhole(p)
  BY <1>1, KeptWholeGrow DEF History
<1>9. Caused(p)
  BY CausedGrow DEF History
<1>10. Closed(p)
  BY ClosedGrow DEF History
<1>11. Covered(p)
  BY <1>1, CoveredGrow DEF History
<1> QED
  BY <1>2, <1>3, <1>4, <1>5, <1>6, <1>7, <1>8, <1>9, <1>10, <1>11 DEF History

LEMMA HistoryByMessage ==
  ASSUME NEW b \in Seq(Entry), NEW p \in Seq(Entry), NEW e, Grows(b, p, e), History(b),
         e.kind \notin {"goal", "compaction"},
         IsWork(e) => \A q \in DOMAIN b : Holds(b, q, Len(b)) => e.work = b[q].goal.work,
         e.kind = "assistant" =>
           \A i \in DOMAIN b :
             /\ Stamp(b[i]) < e.stamp
             /\ b[i].kind = "assistant" => b[i].calls \cap e.calls = {},
         e.kind = "result" =>
           /\ \A i \in DOMAIN b : Stamp(b[i]) <= e.stamp
           /\ e.calls # {}
           /\ \E j \in DOMAIN b : Leads(b, j, e.calls) /\ e.work = b[j].work
  PROVE  History(p)
<1>1. Numbers(p)
  BY NumbersGrow DEF History
<1>2. Ordered(p)
  BY OrderedGrow DEF History
<1>3. Behind(p)
  BY BehindGrow DEF History
<1>4. Own(p)
  BY OwnGrow DEF History
<1>5. Grouped(p)
  BY GroupedGrow DEF History
<1>6. Distinct(p)
  BY DistinctGrow DEF History
<1>7. KeptWhole(p)
  BY KeptWholeGrow DEF History
<1>8. Caused(p)
  BY CausedGrow DEF History
<1>9. Closed(p)
  BY ClosedGrow DEF History
<1>10. Covered(p)
  BY CoveredGrow DEF History
<1> QED
  BY <1>1, <1>2, <1>3, <1>4, <1>5, <1>6, <1>7, <1>8, <1>9, <1>10 DEF History

LEMMA HistoryByCompaction ==
  ASSUME NEW b \in Seq(Entry), NEW p \in Seq(Entry), NEW e, Grows(b, p, e), History(b),
         e.kind = "compaction",
         \/ e.kept \in {Len(b) + 1, Len(b) + 2}
         \/ e.kept \in DOMAIN b /\ b[e.kept].kind \notin {"result", "goal", "compaction"},
         \A q, i \in DOMAIN b :
           (Holds(b, q, Len(b)) /\ q < i /\ b[i].kind # "compaction"
              /\ b[i].work = b[q].goal.work /\ i < e.kept) =>
             b[i].work \in e.covers /\ e.stamp > b[q].goal.cutoff
  PROVE  History(p)
<1>1. ~IsWork(e) /\ e.kind # "assistant" /\ e.kind # "result" /\ e.kind # "goal"
  BY DEF IsWork
<1>2. Numbers(p)
  BY <1>1, NumbersGrow DEF History
<1>3. Ordered(p)
  BY <1>1, OrderedGrow DEF History
<1>4. Behind(p)
  BY <1>1, BehindGrow DEF History
<1>5. Own(p)
  BY <1>1, OwnGrow DEF History
<1>6. Grouped(p)
  BY <1>1, GroupedGrow DEF History
<1>7. Distinct(p)
  BY <1>1, DistinctGrow DEF History
<1>8. KeptWhole(p)
  BY KeptWholeGrow DEF History
<1>9. Caused(p)
  BY <1>1, CausedGrow DEF History
<1>10. Closed(p)
  BY <1>1, ClosedGrow DEF History
<1>11. Covered(p)
  BY CoveredGrow DEF History
<1> QED
  BY <1>2, <1>3, <1>4, <1>5, <1>6, <1>7, <1>8, <1>9, <1>10, <1>11 DEF History

-----------------------------------------------------------------------------
(* The clock, the ids of calls and the last compaction.                    *)

LEMMA ClockIsLatest ==
  ASSUME branch \in Seq(Entry)
  PROVE  /\ Clock \in 0..MaxClock /\ Clock \in Nat
         /\ \A i \in DOMAIN branch : Stamp(branch[i]) <= Clock
<1> DEFINE S == {IF branch[i].kind = "goal" THEN branch[i].goal.cutoff ELSE branch[i].stamp :
                   i \in DOMAIN branch}
           T == {0} \cup S
<1>1. \A i \in DOMAIN branch : Stamp(branch[i]) \in S
  BY DEF Stamp
<1>2. S \subseteq 0..MaxClock
  <2> SUFFICES ASSUME NEW i \in DOMAIN branch PROVE Stamp(branch[i]) \in 0..MaxClock
    BY DEF Stamp
  <2> QED
    BY StampFields
<1>3. Clock = Max(T)
  BY DEF Clock
<1>4. T \subseteq 0..MaxClock /\ T # {} /\ MaxClock \in Nat
  BY <1>2, IsolationAssumption
<1>5. \A i \in DOMAIN branch : Stamp(branch[i]) \in T
  BY <1>1
<1> HIDE DEF T
<1>6. Clock \in T /\ \A x \in T : Clock >= x
  BY <1>3, <1>4, MaxIsReached
<1>7. Clock \in 0..MaxClock /\ Clock \in Nat /\ \A x \in T : x \in Nat
  BY <1>4, <1>6
<1> QED
  BY <1>5, <1>6, <1>7

LEMMA NowAndLater ==
  ASSUME branch \in Seq(Entry)
  PROVE  /\ \A now \in Now : now \in Stamps /\ now \in Nat /\ now >= Clock
         /\ \A now \in Later : now \in Stamps /\ now \in Nat /\ now > Clock
BY ClockIsLatest, IsolationAssumption DEF Now, Later, Stamps

LEMMA NextCallIsNew ==
  ASSUME TypeOK
  PROVE  /\ NextCall \in Nat \ {0}
         /\ \A a \in accepted : a.call < NextCall
         /\ \A i \in DOMAIN branch : branch[i].kind = "assistant" =>
              \A c \in branch[i].calls : c < NextCall
<1> DEFINE A == {a.call : a \in accepted}
           B == UNION {branch[i].calls : i \in {i \in DOMAIN branch : branch[i].kind = "assistant"}}
           T == {0} \cup A \cup B
<1>1. A \subseteq 1..MaxCalls
  BY DEF TypeOK, Calls
<1>2. B \subseteq 1..MaxCalls
  BY MessageFields DEF TypeOK, Entry, Calls
<1>3. NextCall = Max(T) + 1
  BY DEF NextCall
<1>4. T \subseteq 0..MaxCalls /\ T # {} /\ MaxCalls \in Nat
  BY <1>1, <1>2, IsolationAssumption
<1>5. /\ \A a \in accepted : a.call \in T
      /\ \A i \in DOMAIN branch : branch[i].kind = "assistant" => \A c \in branch[i].calls : c \in T
  OBVIOUS
<1> DEFINE m == Max(T)
<1> HIDE DEF T
<1>6. m \in T /\ \A x \in T : m >= x
  BY <1>4, MaxIsReached
<1>7. NextCall = m + 1
  BY <1>3
<1> HIDE DEF m
<1>8. m \in Nat /\ \A x \in T : x \in Nat
  BY <1>4, <1>6
<1>9. NextCall \in Nat \ {0} /\ \A x \in T : x < NextCall
  BY <1>6, <1>7, <1>8
<1> QED
  BY <1>5, <1>9

LEMMA LastCompactionIsLast ==
  ASSUME branch \in Seq(Entry)
  PROVE  /\ LastCompaction \in Nat
         /\ LastCompaction # 0 =>
              LastCompaction \in DOMAIN branch /\ branch[LastCompaction].kind = "compaction"
         /\ \A i \in DOMAIN branch : branch[i].kind = "compaction" => i <= LastCompaction
<1> DEFINE T == {i \in DOMAIN branch : branch[i].kind = "compaction"} \cup {0}
<1>1. T \subseteq 0..Len(branch) /\ T # {} /\ Len(branch) \in Nat
  OBVIOUS
<1>2. Max(T) \in T /\ \A x \in T : Max(T) >= x
  <2> HIDE DEF T
  <2> QED
    BY <1>1, MaxIsReached
<1>3. LastCompaction = Max(T)
  BY DEF LastCompaction
<1> QED
  BY <1>1, <1>2, <1>3

(* The last record of the first n entries.                                 *)
LEMMA LastRecordHolds ==
  ASSUME NEW b \in Seq(Entry), Numbers(b), NEW n \in 1..Len(b)
  PROVE  Holds(b, Max({j \in 1..n : b[j].kind = "goal"}), n)
<1> DEFINE T == {j \in 1..n : b[j].kind = "goal"}
<1>1. T \subseteq 0..n /\ T # {} /\ n \in Nat
  BY DEF Numbers
<1> DEFINE m == Max(T)
<1>2. m \in T /\ \A x \in T : m >= x
  <2> HIDE DEF T
  <2> QED
    BY <1>1, MaxIsReached
<1>3. ASSUME m \in T, \A x \in T : m >= x PROVE Holds(b, m, n)
  <2> HIDE DEF m
  <2>1. m \in 1..n /\ b[m].kind = "goal"
    BY <1>3
  <2>2. \A k \in (m + 1)..n : b[k].kind # "goal"
    BY <1>3, <2>1
  <2> QED
    BY <2>1, <2>2 DEF Holds
<1> QED
  BY <1>2, <1>3

-----------------------------------------------------------------------------
(* The rest of the invariant, on a branch that grows.                      *)

LEMMA SomeRecordHolds ==
  ASSUME NEW b \in Seq(Entry), Numbers(b)
  PROVE  \E q \in DOMAIN b : Holds(b, q, Len(b))
<1>1. Len(b) \in 1..Len(b) /\ DOMAIN b = 1..Len(b)
  BY DEF Numbers
<1>2. Holds(b, Max({j \in 1..Len(b) : b[j].kind = "goal"}), Len(b))
  BY <1>1, LastRecordHolds
<1> QED
  BY <1>1, <1>2 DEF Holds

LEMMA LastHoldsByOther ==
  ASSUME NEW b \in Seq(Entry), NEW p \in Seq(Entry), NEW e, Grows(b, p, e), e.kind # "goal",
         NEW q \in DOMAIN p, Holds(p, q, Len(p))
  PROVE  q \in DOMAIN b /\ Holds(b, q, Len(b)) /\ p[q] = b[q]
<1>1. Len(p) \in DOMAIN p /\ Len(p) = Len(b) + 1 /\ Len(p) \notin DOMAIN b
  BY GrownDomain DEF Grows
<1>2. q \in DOMAIN b /\ Holds(b, q, Len(b))
  BY <1>1, GrownHolds
<1> QED
  BY <1>2, GrownDomain DEF Grows

LEMMA LastHoldsByRecord ==
  ASSUME NEW b \in Seq(Entry), NEW p \in Seq(Entry), NEW e, Grows(b, p, e), e.kind = "goal",
         NEW q \in DOMAIN p, Holds(p, q, Len(p))
  PROVE  p[q] = e
<1>1. Len(p) \in DOMAIN p /\ Len(p) = Len(b) + 1 /\ Len(p) \notin DOMAIN b
  BY GrownDomain DEF Grows
<1>2. q = Len(b) + 1
  BY <1>1, GrownHolds
<1> QED
  BY <1>2 DEF Grows

LEMMA RunningGrow ==
  ASSUME NEW b \in Seq(Entry), NEW p \in Seq(Entry), NEW e, Grows(b, p, e),
         NEW calls, NEW next, Running(b, calls, next), e.kind \in {"result", "goal"}
  PROVE  Running(p, calls, next)
<1> SUFFICES ASSUME calls # {}
             PROVE  \E j \in DOMAIN p :
                      Leads(p, j, calls) /\ (next.call \in calls => p[j].work # next.work)
  BY DEF Running
<1>1. PICK j \in DOMAIN b :
        Leads(b, j, calls) /\ (next.call \in calls => b[j].work # next.work)
  BY DEF Running
<1>2. j \in DOMAIN p /\ p[j] = b[j]
  BY GrownDomain DEF Grows
<1>3. Leads(p, j, calls)
  BY <1>1, <1>2, GrownDomain DEF Leads, Grows
<1> QED
  BY <1>1, <1>2, <1>3

LEMMA RememberedGrow ==
  ASSUME NEW b \in Seq(Entry), NEW p \in Seq(Entry), NEW e, Grows(b, p, e), e.kind # "goal",
         NEW completions, NEW open, NEW left, Remembered(b, completions, open), left \subseteq open
  PROVE  Remembered(p, completions, left)
BY GrownDomain DEF Remembered

(* What a state of the invariant has to offer.                             *)
LEMMA FilterFacts ==
  ASSUME FilterInv
  PROVE  /\ branch \in Seq(Entry) /\ History(branch) /\ Numbers(branch)
         /\ Len(branch) \in Nat /\ DOMAIN branch = 1..Len(branch) /\ Len(branch) >= 1
         /\ \A i \in DOMAIN branch : i \in Nat /\ branch[i] \in Entry
         /\ goal \in Goal
         /\ \E q \in DOMAIN branch :
              Holds(branch, q, Len(branch)) /\ branch[q].kind = "goal" /\ branch[q].goal = goal
<1>1. branch \in Seq(Entry) /\ History(branch) /\ Numbers(branch) /\ goal \in Goal
  BY DEF FilterInv, TypeOK, Entry, History
<1>2. PICK q \in DOMAIN branch : Holds(branch, q, Len(branch))
  BY <1>1, SomeRecordHolds
<1>3. branch[q].kind = "goal" /\ branch[q].goal = goal
  BY <1>2 DEF FilterInv, GoalIsRecorded, Holds
<1> QED
  BY <1>1, <1>2, <1>3 DEF Numbers

-----------------------------------------------------------------------------
(* The invariant holds initially, and after every step.                    *)

LEMMA InitFilterInv == Init => FilterInv
<1> SUFFICES ASSUME Init PROVE FilterInv
  OBVIOUS
<1> DEFINE e == Recorded(goal, {})
<1>1. goal = NewGoal(1) /\ goal \in Goal /\ goal.work.step = 1 /\ goal.work.goal = 1
  BY IsolationAssumption DEF Init, NewGoal, Goal, Work, Stamps
<1>2. e \in Entry /\ e.kind = "goal" /\ e.goal = goal /\ e.by = {}
  BY <1>1 DEF Entry, GoalRecord, Recorded
<1>3. branch = <<e>>
  BY DEF Init
<1> HIDE DEF e
<1>4. branch \in Seq(Entry) /\ DOMAIN branch = {1} /\ branch[1] = e /\ Len(branch) = 1
  BY <1>2, <1>3
<1>5. History(branch)
  BY <1>1, <1>2, <1>4
     DEF History, Numbers, Ordered, Behind, Own, Grouped, Distinct, KeptWhole, Caused, Closed,
         Covered, Holds, IsWork
<1>6. TypeOK
  BY <1>1, <1>4 DEF Init, TypeOK, Entry, NoTurn
<1>7. GoalIsRecorded
  BY <1>2, <1>4 DEF GoalIsRecorded
<1>8. TurnInv
  BY DEF TurnInv, Running, Init, NoTurn
<1>9. AcceptedInv
  BY <1>2, <1>4 DEF AcceptedInv, Remembered, Init
<1> QED
  BY <1>5, <1>6, <1>7, <1>8, <1>9 DEF FilterInv

LEMMA UserMessageFilterInv ==
  ASSUME FilterInv, UserMessage
  PROVE  FilterInv'
<1>1. PICK stamp \in Now : branch' = Append(branch, Said("user", stamp, goal.work, {}))
  BY DEF UserMessage
<1> DEFINE e == Said("user", stamp, goal.work, {})
<1>2. branch \in Seq(Entry) /\ History(branch) /\ goal \in Goal /\ goal.work \in Work
  BY FilterFacts, GoalFields
<1>3. stamp \in Stamps
  BY <1>2, NowAndLater
<1>4. e \in Entry /\ e.kind = "user" /\ e.work = goal.work
  BY <1>2, <1>3 DEF Said, Entry, Message
<1>5. branch' \in Seq(Entry) /\ Grows(branch, branch', e)
  BY <1>1, <1>2, <1>4, AppendGrows
<1> HIDE DEF e
<1>6. \A q \in DOMAIN branch : Holds(branch, q, Len(branch)) => e.work = branch[q].goal.work
  BY <1>4 DEF FilterInv, GoalIsRecorded
<1>7. History(branch')
  BY <1>2, <1>4, <1>5, <1>6, HistoryByMessage
<1>8. TypeOK'
  BY <1>5 DEF FilterInv, TypeOK, Entry, UserMessage
<1>9. GoalIsRecorded'
  BY <1>2, <1>4, <1>5, LastHoldsByOther DEF FilterInv, GoalIsRecorded, UserMessage
<1>10. TurnInv'
  BY DEF UserMessage, TurnInv, Running, NoTurn
<1>11. AcceptedInv'
  BY <1>2, <1>4, <1>5, RememberedGrow DEF FilterInv, AcceptedInv, UserMessage
<1> QED
  BY <1>7, <1>8, <1>9, <1>10, <1>11 DEF FilterInv

LEMMA DeliverSnapshotFilterInv ==
  ASSUME FilterInv, DeliverSnapshot
  PROVE  FilterInv'
<1>1. branch \in Seq(Entry) /\ History(branch) /\ goal \in Goal
  BY FilterFacts
<1>2. PICK stamp \in Stamps, work \in Work : branch' = Append(branch, Said("snapshot", stamp, work, {}))
  <2>1. Clock \in Stamps /\ goal.cutoff \in Stamps /\ goal.work \in Work
    BY <1>1, ClockIsLatest, GoalFields DEF Stamps
  <2>2. \A i \in DOMAIN branch : branch[i].kind = "goal" => branch[i].goal.work \in Work
    BY <1>1, FilterFacts, RecordFields, GoalFields
  <2> QED
    BY <2>1, <2>2 DEF DeliverSnapshot
<1> DEFINE e == Said("snapshot", stamp, work, {})
<1>3. e \in Entry /\ e.kind = "snapshot"
  BY DEF Said, Entry, Message
<1>4. branch' \in Seq(Entry) /\ Grows(branch, branch', e)
  BY <1>1, <1>2, <1>3, AppendGrows
<1> HIDE DEF e
<1>5. ~IsWork(e)
  BY <1>3 DEF IsWork
<1>6. History(branch')
  BY <1>1, <1>3, <1>4, <1>5, HistoryByMessage
<1>7. TypeOK'
  BY <1>4 DEF FilterInv, TypeOK, Entry, DeliverSnapshot
<1>8. GoalIsRecorded'
  BY <1>1, <1>3, <1>4, LastHoldsByOther DEF FilterInv, GoalIsRecorded, DeliverSnapshot
<1>9. TurnInv'
  BY DEF DeliverSnapshot, TurnInv, Running, NoTurn
<1>10. AcceptedInv'
  BY <1>1, <1>3, <1>4, RememberedGrow DEF FilterInv, AcceptedInv, DeliverSnapshot
<1> QED
  BY <1>6, <1>7, <1>8, <1>9, <1>10 DEF FilterInv

LEMMA AssistantReplyFilterInv ==
  ASSUME FilterInv, AssistantReply
  PROVE  FilterInv'
<1>1. PICK calls \in {{NextCall}, {NextCall, NextCall + 1}}, stamp \in Later :
        /\ calls \subseteq Calls
        /\ branch' = Append(branch, Said("assistant", stamp, goal.work, calls))
        /\ turn' = [open |-> calls, answered |-> {}]
  BY DEF AssistantReply
<1>2. UNCHANGED <<goal, accepted, boundary>>
  BY DEF AssistantReply
<1> DEFINE e == Said("assistant", stamp, goal.work, calls)
<1>3. branch \in Seq(Entry) /\ History(branch) /\ goal \in Goal /\ goal.work \in Work /\ TypeOK
  BY FilterFacts, GoalFields DEF FilterInv
<1>4. stamp \in Stamps /\ stamp \in Nat /\ stamp > Clock
  BY <1>3, NowAndLater
<1>5. e \in Entry /\ e.kind = "assistant" /\ e.work = goal.work /\ e.stamp = stamp /\ e.calls = calls
  BY <1>1, <1>3, <1>4 DEF Said, Entry, Message
<1>6. branch' \in Seq(Entry) /\ Grows(branch, branch', e)
  BY <1>1, <1>3, <1>5, AppendGrows
<1> HIDE DEF e
<1>7. \A c \in calls : c >= NextCall
  BY <1>1, <1>3, NextCallIsNew
<1>8. \A i \in DOMAIN branch : branch[i].kind = "assistant" =>
        \A c \in branch[i].calls : c \in Nat /\ c < NextCall
  BY <1>3, FilterFacts, MessageFields, NextCallIsNew DEF Calls
<1>9. \A a \in accepted : a.call \in Nat /\ a.call < NextCall
  BY <1>3, NextCallIsNew DEF TypeOK, Calls
<1>10. \A q \in DOMAIN branch : Holds(branch, q, Len(branch)) => e.work = branch[q].goal.work
  BY <1>5 DEF FilterInv, GoalIsRecorded
<1>11. NextCall \in Nat \ {0}
  BY <1>3, NextCallIsNew
<1>12. ASSUME NEW i \in DOMAIN branch
       PROVE  /\ Stamp(branch[i]) < e.stamp
              /\ branch[i].kind = "assistant" => branch[i].calls \cap e.calls = {}
  <2>1. Stamp(branch[i]) < e.stamp
    BY <1>3, <1>4, <1>5, ClockIsLatest, FilterFacts, StampFields
  <2>2. branch[i].kind = "assistant" => branch[i].calls \cap e.calls = {}
    BY <1>5, <1>7, <1>8, <1>11
  <2> QED
    BY <2>1, <2>2
<1>13. History(branch')
  BY <1>3, <1>5, <1>6, <1>10, <1>12, HistoryByMessage
<1>14. TypeOK'
  BY <1>1, <1>2, <1>6 DEF FilterInv, TypeOK, Entry
<1>15. GoalIsRecorded'
  BY <1>2, <1>3, <1>5, <1>6, LastHoldsByOther DEF FilterInv, GoalIsRecorded
<1>16. TurnInv'
  <2>1. turn'.open \cup turn'.answered = calls
    BY <1>1
  <2>2. boundary.call \notin calls
    <3>1. CASE boundary = NoBoundary
      BY <1>7, <1>11, <3>1 DEF NoBoundary
    <3>2. CASE boundary # NoBoundary
      BY <1>7, <1>9, <1>11, <3>2 DEF FilterInv, AcceptedInv
    <3> QED
      BY <3>1, <3>2
  <2>3. Len(branch) + 1 \in DOMAIN branch' /\ Leads(branch', Len(branch) + 1, calls)
    BY <1>3, <1>5, <1>6, GrownDomain DEF Leads, Grows
  <2> QED
    BY <1>2, <2>1, <2>2, <2>3 DEF TurnInv, Running
<1>17. AcceptedInv'
  <2>1. Remembered(branch, accepted, calls)
    <3>1. \A r \in DOMAIN branch : branch[r].kind = "goal" => branch[r].by \cap calls = {}
      BY <1>3, <1>7, <1>8, <1>11 DEF History, Caused
    <3> QED
      BY <3>1 DEF FilterInv, AcceptedInv, Remembered
  <2>2. Remembered(branch', accepted, calls)
    BY <1>3, <1>5, <1>6, <2>1, RememberedGrow
  <2> QED
    BY <1>1, <1>2, <2>2 DEF FilterInv, AcceptedInv
<1> QED
  BY <1>13, <1>14, <1>15, <1>16, <1>17 DEF FilterInv

LEMMA ToolResultFilterInv ==
  ASSUME FilterInv, ToolResult
  PROVE  FilterInv'
<1>1. PICK call \in turn.open : \E stamp \in Now :
        LET asked == CHOOSE i \in DOMAIN branch : branch[i].kind = "assistant" /\ call \in branch[i].calls
        IN /\ branch' = Append(branch, Said("result", stamp, branch[asked].work, {call}))
           /\ turn' = [open |-> turn.open \ {call}, answered |-> turn.answered \cup {call}]
  BY DEF ToolResult
<1> DEFINE asked == CHOOSE i \in DOMAIN branch : branch[i].kind = "assistant" /\ call \in branch[i].calls
<1>2. PICK stamp \in Now :
        /\ branch' = Append(branch, Said("result", stamp, branch[asked].work, {call}))
        /\ turn' = [open |-> turn.open \ {call}, answered |-> turn.answered \cup {call}]
  BY <1>1
<1>3. UNCHANGED <<goal, accepted, boundary>>
  BY DEF ToolResult
<1>4. branch \in Seq(Entry) /\ History(branch)
  BY FilterFacts
<1>5. PICK j \in DOMAIN branch : Leads(branch, j, turn.open \cup turn.answered)
  BY <1>1 DEF FilterInv, TurnInv, Running
<1>6. asked = j
  <2>1. branch[j].kind = "assistant" /\ call \in branch[j].calls
    BY <1>1, <1>5 DEF Leads
  <2>2. \A i \in DOMAIN branch : (branch[i].kind = "assistant" /\ call \in branch[i].calls) => i = j
    BY <1>4, <2>1 DEF History, Distinct
  <2> QED
    BY <2>1, <2>2
<1> HIDE DEF asked
<1> DEFINE e == Said("result", stamp, branch[asked].work, {call})
<1>7. stamp \in Stamps /\ stamp \in Nat /\ stamp >= Clock
  BY <1>4, NowAndLater
<1>8. branch[j] \in Entry /\ branch[j].kind = "assistant" /\ branch[j].work \in Work
  BY <1>5, FilterFacts, MessageFields DEF Leads
<1>9. /\ e \in Entry /\ e.kind = "result" /\ e.stamp = stamp
      /\ e.work = branch[j].work /\ e.calls = {call}
  BY <1>1, <1>6, <1>7, <1>8 DEF Said, Entry, Message, FilterInv, TypeOK
<1>10. branch' \in Seq(Entry) /\ Grows(branch, branch', e)
  BY <1>2, <1>4, <1>9, AppendGrows
<1> HIDE DEF e
<1>11. \A i \in DOMAIN branch : Stamp(branch[i]) <= e.stamp
  BY <1>4, <1>7, <1>9, ClockIsLatest, FilterFacts, StampFields
<1>12. Leads(branch, j, e.calls) /\ e.calls # {}
  BY <1>1, <1>5, <1>9 DEF Leads
<1>13. History(branch')
  <2>1. ~IsWork(e)
    BY <1>9 DEF IsWork
  <2> QED
    BY <1>4, <1>9, <1>10, <1>11, <1>12, <2>1, HistoryByMessage
<1>14. TypeOK'
  BY <1>1, <1>2, <1>3, <1>10 DEF FilterInv, TypeOK, Entry
<1>15. GoalIsRecorded'
  BY <1>3, <1>4, <1>9, <1>10, LastHoldsByOther DEF FilterInv, GoalIsRecorded
<1>16. TurnInv'
  <2>1. turn'.open \cup turn'.answered = turn.open \cup turn.answered
    BY <1>1, <1>2
  <2>2. Running(branch', turn.open \cup turn.answered, boundary)
    BY <1>4, <1>9, <1>10, RunningGrow DEF FilterInv, TurnInv
  <2> QED
    BY <1>3, <2>1, <2>2 DEF TurnInv
<1>17. AcceptedInv'
  <2>1. Remembered(branch', accepted, turn.open \ {call})
    BY <1>4, <1>9, <1>10, RememberedGrow DEF FilterInv, AcceptedInv
  <2> QED
    BY <1>2, <1>3, <2>1 DEF FilterInv, AcceptedInv
<1> QED
  BY <1>13, <1>14, <1>15, <1>16, <1>17 DEF FilterInv

LEMMA AbortFilterInv ==
  ASSUME FilterInv, Abort
  PROVE  FilterInv'
<1>1. /\ turn'.open = {} /\ turn'.answered = turn.answered
      /\ turn' \in [open : SUBSET Calls, answered : SUBSET Calls]
      /\ UNCHANGED <<branch, goal, accepted, boundary>>
  BY DEF Abort, FilterInv, TypeOK
<1>2. TypeOK' /\ History(branch') /\ GoalIsRecorded'
  BY <1>1 DEF FilterInv, TypeOK, GoalIsRecorded
<1>3. TurnInv'
  <2>1. Running(branch, turn.answered, boundary)
    BY DEF FilterInv, TurnInv, Running, Leads
  <2> QED
    BY <1>1, <2>1 DEF TurnInv
<1>4. AcceptedInv'
  BY <1>1 DEF FilterInv, AcceptedInv, Remembered
<1> QED
  BY <1>2, <1>3, <1>4 DEF FilterInv

LEMMA SessionStartFilterInv ==
  ASSUME FilterInv, SessionStart
  PROVE  FilterInv'
<1>1. TypeOK' /\ History(branch') /\ GoalIsRecorded'
  BY DEF FilterInv, TypeOK, GoalIsRecorded, SessionStart, NoTurn
<1>2. TurnInv' /\ AcceptedInv'
  BY DEF SessionStart, NoTurn, TurnInv, Running, AcceptedInv, Remembered
<1> QED
  BY <1>1, <1>2 DEF FilterInv

LEMMA SessionTreeFilterInv ==
  ASSUME FilterInv, SessionTree
  PROVE  FilterInv'
<1>1. PICK i \in 1..(Len(branch) - 1) :
        /\ branch' = SubSeq(branch, 1, i)
        /\ goal' = branch[Max({j \in 1..i : branch[j].kind = "goal"})].goal
  BY DEF SessionTree
<1>2. /\ branch \in Seq(Entry) /\ History(branch) /\ Numbers(branch)
      /\ i \in DOMAIN branch /\ i \in 1..Len(branch)
  BY FilterFacts
<1>3. /\ branch' \in Seq(Entry) /\ Len(branch') = i /\ DOMAIN branch' = 1..i
      /\ \A k \in 1..i : branch'[k] = branch[k]
  BY <1>1, <1>2
<1> DEFINE record == Max({j \in 1..i : branch[j].kind = "goal"})
<1>4. Holds(branch, record, i)
  BY <1>2, LastRecordHolds
<1>5. goal' = branch[record].goal
  BY <1>1
<1> HIDE DEF record
<1>6. record \in 1..i /\ branch[record].kind = "goal" /\ branch[record].goal \in Goal
  <2>1. record \in 1..i /\ branch[record].kind = "goal" /\ record \in DOMAIN branch
    BY <1>2, <1>4 DEF Holds
  <2> QED
    BY <2>1, FilterFacts, RecordFields
<1>7. History(branch')
  BY <1>2, <1>3, PrefixIsHistory
<1>8. TypeOK'
  BY <1>3, <1>5, <1>6 DEF FilterInv, TypeOK, Entry, SessionTree, NoTurn
<1>9. GoalIsRecorded'
  <2> SUFFICES ASSUME NEW q \in DOMAIN branch', Holds(branch', q, Len(branch'))
               PROVE  goal' = branch'[q].goal
    BY DEF GoalIsRecorded
  <2>1. q = record
    BY <1>2, <1>3, <1>4, <1>6 DEF Holds
  <2> QED
    BY <1>3, <1>5, <1>6, <2>1
<1>10. TurnInv'
  BY DEF SessionTree, NoTurn, TurnInv, Running
<1>11. AcceptedInv'
  BY <1>2, <1>3, FilterFacts DEF FilterInv, AcceptedInv, Remembered, SessionTree, NoTurn
<1> QED
  BY <1>7, <1>8, <1>9, <1>10, <1>11 DEF FilterInv

LEMMA ReplaceGoalFilterInv ==
  ASSUME FilterInv, ReplaceGoal
  PROVE  FilterInv'
<1> DEFINE g == NewGoal(goal.work.goal + 1)
           e == Recorded(g, {})
<1>1. goal.work.goal < MaxGoals /\ goal' = g /\ branch' = Append(branch, e)
      /\ UNCHANGED <<accepted, boundary, turn>>
  BY DEF ReplaceGoal
<1>2. branch \in Seq(Entry) /\ History(branch) /\ goal \in Goal /\ goal.work.goal \in Nat
  BY FilterFacts, GoalFields
<1>3. g \in Goal /\ g.work.step = 1 /\ g.work.goal = goal.work.goal + 1
  BY <1>1, <1>2, IsolationAssumption DEF NewGoal, Goal, Work, Stamps
<1> HIDE DEF g
<1>4. e \in Entry /\ e.kind = "goal" /\ e.goal = g /\ e.by = {}
  BY <1>3 DEF Recorded, Entry, GoalRecord
<1>5. branch' \in Seq(Entry) /\ Grows(branch, branch', e)
  BY <1>1, <1>2, <1>4, AppendGrows
<1> HIDE DEF e
<1>6. PICK q \in DOMAIN branch :
        Holds(branch, q, Len(branch)) /\ branch[q].kind = "goal" /\ branch[q].goal = goal
  BY FilterFacts
<1>7. ASSUME NEW r \in DOMAIN branch, branch[r].kind = "goal"
      PROVE  branch[r].goal.work.goal < g.work.goal
  <2>1. branch[r].goal.work.goal \in Nat
    BY <1>7, FilterFacts, RecordFields, GoalFields
  <2>2. r <= q
    BY <1>6, <1>7, FilterFacts DEF Holds
  <2>3. branch[r].goal.work.goal <= goal.work.goal
    BY <1>2, <1>6, <1>7, <2>2 DEF History, Numbers
  <2> QED
    BY <1>2, <1>3, <2>1, <2>3
<1>8. ASSUME NEW i \in DOMAIN branch, IsWork(branch[i])
      PROVE  Precedes(branch[i], g)
  <2>1. branch[i].work.goal \in Nat /\ i # q /\ i \in Nat /\ q \in Nat
    BY <1>6, <1>8, FilterFacts, MessageFields DEF IsWork
  <2>2. CASE i < q
    BY <1>2, <1>3, <1>6, <1>8, <2>1, <2>2 DEF History, Behind, Precedes
  <2>3. CASE i > q
    <3>1. Holds(branch, q, i)
      BY <1>6, <2>1, <2>3, FilterFacts DEF Holds
    <3>2. branch[i].work = goal.work
      BY <1>2, <1>6, <1>8, <3>1 DEF History, Own
    <3> QED
      BY <1>2, <1>3, <3>2 DEF Precedes
  <2> QED
    BY <2>1, <2>2, <2>3
<1>9. ASSUME NEW r \in DOMAIN branch, branch[r].kind = "goal"
      PROVE  branch[r].goal.work.goal <= g.work.goal /\ branch[r].goal.work.goal # g.work.goal
  <2>1. branch[r].goal.work.goal \in Nat /\ g.work.goal \in Nat
    BY <1>2, <1>3, <1>9, FilterFacts, RecordFields, GoalFields
  <2> QED
    BY <1>7, <1>9, <2>1
<1>10. History(branch')
  BY <1>2, <1>3, <1>4, <1>5, <1>8, <1>9, HistoryByRecord
<1>11. TypeOK'
  BY <1>1, <1>3, <1>5 DEF FilterInv, TypeOK, Entry
<1>12. GoalIsRecorded'
  <2>1. \A n \in DOMAIN branch' : Holds(branch', n, Len(branch')) => branch'[n] = e
    BY <1>2, <1>4, <1>5, LastHoldsByRecord
  <2> QED
    BY <1>1, <1>4, <2>1 DEF GoalIsRecorded
<1>13. TurnInv'
  <2>1. Running(branch', turn.open \cup turn.answered, boundary)
    BY <1>2, <1>4, <1>5, RunningGrow DEF FilterInv, TurnInv
  <2> QED
    BY <1>1, <2>1 DEF TurnInv
<1>14. AcceptedInv'
  BY <1>1, <1>2, <1>4, <1>5, GrownDomain DEF FilterInv, AcceptedInv, Remembered
<1> QED
  BY <1>10, <1>11, <1>12, <1>13, <1>14 DEF FilterInv

(* Where the last record is: work before it is shut out, work after it is  *)
(* the goal's.                                                             *)
LEMMA WorkOfTheGoal ==
  ASSUME FilterInv, NEW i \in DOMAIN branch, IsWork(branch[i])
  PROVE  Precedes(branch[i], goal) \/ branch[i].work = goal.work
<1>1. PICK q \in DOMAIN branch :
        Holds(branch, q, Len(branch)) /\ branch[q].kind = "goal" /\ branch[q].goal = goal
  BY FilterFacts
<1>2. History(branch) /\ i # q /\ i \in Nat /\ q \in Nat
  BY <1>1, FilterFacts DEF IsWork
<1>3. CASE i < q
  BY <1>1, <1>2, <1>3 DEF History, Behind
<1>4. CASE i > q
  <2>1. Holds(branch, q, i)
    BY <1>1, <1>2, <1>4, FilterFacts DEF Holds
  <2> QED
    BY <1>1, <1>2, <2>1 DEF History, Own
<1> QED
  BY <1>2, <1>3, <1>4

LEMMA CompletionFields ==
  ASSUME NEW g \in Goal, ~g.complete, NEW now \in Stamps
  PROVE  LET done == AfterCompletion(g, now)
         IN /\ done \in Goal
            /\ done.work.goal = g.work.goal
            /\ done.complete => done.work = g.work /\ done.cutoff = g.cutoff
            /\ ~done.complete => done.work.step = g.work.step + 1 /\ done.cutoff = now
<1>1. g = [work |-> g.work, complete |-> g.complete, cutoff |-> g.cutoff]
  BY DEF Goal
<1>2. g.work = [goal |-> g.work.goal, step |-> g.work.step]
  BY DEF Goal, Work
<1>3. CASE g.work.step = Steps
  <2>1. AfterCompletion(g, now) = [work |-> g.work, complete |-> TRUE, cutoff |-> g.cutoff]
    BY <1>1, <1>3 DEF AfterCompletion, Goal
  <2> QED
    BY <2>1, GoalFields DEF Goal, Stamps
<1>4. CASE g.work.step # Steps
  <2>1. AfterCompletion(g, now) =
          [ work |-> [goal |-> g.work.goal, step |-> g.work.step + 1],
            complete |-> g.complete, cutoff |-> now ]
    BY <1>2, <1>4 DEF AfterCompletion, Goal, Work
  <2>2. g.work.step + 1 \in 1..Steps /\ g.work.goal \in 1..MaxGoals
    BY <1>4, GoalFields, IsolationAssumption
  <2> QED
    BY <2>1, <2>2 DEF Goal, Work, Stamps
<1> QED
  BY <1>3, <1>4

LEMMA CompleteStageFilterInv ==
  ASSUME FilterInv, CompleteStage
  PROVE  FilterInv'
<1>1. PICK call \in turn.open, now \in Now :
        /\ \A a \in accepted : a.call # call
        /\ goal' = AfterCompletion(goal, now)
        /\ branch' = Append(branch, Recorded(goal', {call}))
        /\ accepted' = accepted \cup {[call |-> call, goal |-> goal.work.goal]}
        /\ boundary' = IF goal'.complete THEN boundary ELSE [call |-> call, work |-> goal'.work]
  BY DEF CompleteStage
<1>2. ~goal.complete /\ UNCHANGED turn
  BY DEF CompleteStage
<1> DEFINE e == Recorded(goal', {call})
           a1 == [call |-> call, goal |-> goal.work.goal]
<1>3. branch \in Seq(Entry) /\ History(branch) /\ goal \in Goal /\ goal.work.goal \in Nat
      /\ goal.work.step \in Nat /\ goal.work.goal \in 1..MaxGoals
  BY FilterFacts, GoalFields
<1>4. now \in Stamps /\ now \in Nat /\ now >= Clock
  BY <1>3, NowAndLater
<1>5. /\ goal' \in Goal /\ goal'.work.goal = goal.work.goal
      /\ goal'.complete => goal'.work = goal.work /\ goal'.cutoff = goal.cutoff
      /\ ~goal'.complete => goal'.work.step = goal.work.step + 1 /\ goal'.cutoff = now
  BY <1>1, <1>2, <1>3, <1>4, CompletionFields
<1>6. call \in Calls
  BY DEF FilterInv, TypeOK
<1>7. e \in Entry /\ e.kind = "goal" /\ e.goal = goal' /\ e.by = {call}
  BY <1>5, <1>6 DEF Recorded, Entry, GoalRecord
<1>8. branch' \in Seq(Entry) /\ Grows(branch, branch', e)
  BY <1>1, <1>3, <1>7, AppendGrows
<1> HIDE DEF e
<1>9. PICK q \in DOMAIN branch :
        Holds(branch, q, Len(branch)) /\ branch[q].kind = "goal" /\ branch[q].goal = goal
  BY FilterFacts
<1>10. PICK j \in DOMAIN branch :
         /\ Leads(branch, j, turn.open \cup turn.answered)
         /\ boundary.call \in turn.open \cup turn.answered => branch[j].work # boundary.work
  BY <1>1 DEF FilterInv, TurnInv, Running
<1>11. branch[j].kind = "assistant" /\ call \in branch[j].calls /\ IsWork(branch[j])
  BY <1>1, <1>10 DEF Leads, IsWork
<1>12. \A i \in DOMAIN branch : Stamp(branch[i]) \in Nat /\ Stamp(branch[i]) <= now
  BY <1>3, <1>4, ClockIsLatest, FilterFacts, StampFields
<1>13. now > 0
  <2>1. 1 \in DOMAIN branch /\ branch[1].kind = "goal" /\ 1 < j
    BY <1>3, <1>11, FilterFacts DEF History, Numbers
  <2>2. Stamp(branch[1]) < branch[j].stamp
    BY <1>3, <1>11, <2>1 DEF History, Ordered
  <2>3. Stamp(branch[j]) = branch[j].stamp
    BY <1>11 DEF Stamp
  <2> QED
    BY <1>4, <1>12, <2>1, <2>2, <2>3
<1>14. e.goal.work.step > 1 => e.goal.cutoff > 0
  <2>1. goal.work.step > 1 => goal.cutoff > 0
    BY <1>3, <1>9 DEF History, Numbers
  <2> QED
    BY <1>5, <1>7, <1>13, <2>1
<1>15. ASSUME NEW r \in DOMAIN branch, branch[r].kind = "goal"
       PROVE  branch[r].goal.work.goal <= e.goal.work.goal
  <2>1. r <= q
    BY <1>9, <1>15, FilterFacts DEF Holds
  <2> QED
    BY <1>3, <1>5, <1>7, <1>9, <1>15, <2>1 DEF History, Numbers
<1>16. ASSUME NEW i \in DOMAIN branch, IsWork(branch[i])
       PROVE  Precedes(branch[i], goal')
  <2>1. branch[i].stamp \in Nat /\ branch[i].stamp <= now
        /\ branch[i].work.step \in Nat /\ branch[i].work.goal \in Nat
    BY <1>12, <1>16, FilterFacts, MessageFields DEF Stamp, IsWork
  <2>2. Precedes(branch[i], goal) \/ branch[i].work = goal.work
    BY <1>16, WorkOfTheGoal
  <2>3. CASE goal'.complete
    BY <1>2, <1>3, <1>5, <2>1, <2>2, <2>3 DEF Precedes
  <2>4. CASE ~goal'.complete
    <3>1. goal'.work.step = goal.work.step + 1 /\ goal'.cutoff = now
      BY <1>5, <2>4
    <3>2. \/ branch[i].work.goal < goal.work.goal
          \/ branch[i].work.goal = goal.work.goal /\ branch[i].work.step <= goal.work.step
      BY <1>3, <2>2 DEF Precedes
    <3>3. branch[i].work.step <= goal.work.step =>
            branch[i].work.step < goal'.work.step /\ branch[i].work.step <= goal'.work.step
      BY <1>3, <2>1, <3>1
    <3> QED
      BY <1>5, <2>1, <3>1, <3>2, <3>3 DEF Precedes
  <2> QED
    BY <2>3, <2>4
<1>17. e.goal.complete \/
       \A i \in DOMAIN branch : branch[i].kind = "assistant" => branch[i].stamp <= e.goal.cutoff
  BY <1>5, <1>7, <1>12 DEF Stamp
<1>18. History(branch')
  BY <1>3, <1>7, <1>8, <1>11, <1>14, <1>15, <1>16, <1>17, HistoryByRecord
<1>19. TypeOK'
  <2>1. goal'.work \in Work
    BY <1>5, GoalFields
  <2>2. boundary' \in [call : Calls, work : Work] \cup {NoBoundary}
    BY <1>1, <1>6, <2>1 DEF FilterInv, TypeOK
  <2>3. accepted' \subseteq [call : Calls, goal : 1..MaxGoals]
    BY <1>1, <1>3, <1>6 DEF FilterInv, TypeOK
  <2> QED
    BY <1>2, <1>5, <1>8, <2>2, <2>3 DEF FilterInv, TypeOK, Entry
<1>20. GoalIsRecorded'
  BY <1>3, <1>7, <1>8, LastHoldsByRecord DEF GoalIsRecorded
<1>21. TurnInv'
  <2>1. CASE goal'.complete
    <3>1. Running(branch', turn.open \cup turn.answered, boundary)
      BY <1>3, <1>7, <1>8, RunningGrow DEF FilterInv, TurnInv
    <3> QED
      BY <1>1, <1>2, <2>1, <3>1 DEF TurnInv
  <2>2. CASE ~goal'.complete
    <3>1. branch[j].work # goal'.work
      BY <1>3, <1>5, <1>11, <1>16, <2>2 DEF Precedes
    <3>2. boundary'.work = goal'.work
      BY <1>1, <2>2
    <3>3. Running(branch, turn.open \cup turn.answered, boundary')
      BY <1>10, <3>1, <3>2 DEF Running
    <3>4. Running(branch', turn.open \cup turn.answered, boundary')
      BY <1>3, <1>7, <1>8, <3>3, RunningGrow
    <3> QED
      BY <1>2, <3>4 DEF TurnInv
  <2> QED
    BY <2>1, <2>2
<1>22. AcceptedInv'
  <2>1. a1.call = call /\ a1.goal = goal.work.goal /\ accepted' = accepted \cup {a1}
    BY <1>1
  <2> HIDE DEF a1
  <2>2. boundary' # NoBoundary => \E a \in accepted' : a.call = boundary'.call
    BY <1>1, <2>1 DEF FilterInv, AcceptedInv
  <2>3. ASSUME NEW r \in DOMAIN branch', branch'[r].kind = "goal"
        PROVE  /\ \A a \in accepted' : a.call \in branch'[r].by => branch'[r].goal.work.goal = a.goal
               /\ \A c \in branch'[r].by \cap turn.open : \E a \in accepted' : a.call = c
    <3>1. CASE r \in DOMAIN branch /\ branch'[r] = branch[r]
      BY <1>1, <2>1, <2>3, <3>1 DEF FilterInv, AcceptedInv, Remembered
    <3>2. CASE branch'[r] = e
      BY <1>1, <1>5, <1>7, <2>1, <3>2
    <3> QED
      BY <1>3, <1>8, <3>1, <3>2, GrownDomain
  <2> QED
    BY <1>2, <2>2, <2>3 DEF AcceptedInv, Remembered
<1> QED
  BY <1>18, <1>19, <1>20, <1>21, <1>22 DEF FilterInv

-----------------------------------------------------------------------------
(* The context, compactions and the end of a turn.                         *)

LEMMA ContextIs ==
  ASSUME FilterInv
  PROVE  /\ \A i \in DOMAIN branch : branch[i].kind \notin {"goal", "compaction"} =>
              \/ i \in Context
              \/ LastCompaction # 0 /\ i < branch[LastCompaction].kept
         /\ \A i \in Context :
              /\ i \in DOMAIN branch /\ branch[i].kind # "goal"
              /\ branch[i].kind = "compaction" => i = LastCompaction
              /\ (branch[i].kind # "compaction" /\ LastCompaction # 0) =>
                   i >= branch[LastCompaction].kept
         /\ LastCompaction # 0 => LastCompaction \in Context
<1>1. /\ LastCompaction \in Nat
      /\ LastCompaction # 0 =>
           LastCompaction \in DOMAIN branch /\ branch[LastCompaction].kind = "compaction"
  BY FilterFacts, LastCompactionIsLast
<1>2. \A i \in DOMAIN branch : i \in Nat
  BY FilterFacts
<1>3. LastCompaction # 0 => branch[LastCompaction].kept \in Nat
  BY <1>1, FilterFacts, CompactionFields
<1> QED
  BY <1>1, <1>2, <1>3 DEF Context

(* What the last compaction left out was said before it.                   *)
LEMMA LeftOutBefore ==
  ASSUME FilterInv, LastCompaction # 0, NEW i \in DOMAIN branch,
         branch[i].kind # "compaction", i < branch[LastCompaction].kept
  PROVE  i < LastCompaction
<1>1. LastCompaction \in DOMAIN branch /\ branch[LastCompaction].kind = "compaction"
  BY FilterFacts, LastCompactionIsLast
<1> DEFINE last == LastCompaction
           kept == branch[last].kept
<1>2. last \in Nat /\ i \in Nat /\ i # last /\ kept \in Nat
  BY <1>1, FilterFacts, CompactionFields
<1>3. kept \in {last, last + 1} \/ kept \in 1..(last - 1)
  BY <1>1, FilterFacts DEF History, KeptWhole
<1> HIDE DEF last, kept
<1>4. i < kept
  BY DEF kept, last
<1>5. i < last
  BY <1>2, <1>3, <1>4
<1> QED
  BY <1>5 DEF last

(* Nor does it part a result from its reply.                               *)
LEMMA ReplyInContext ==
  ASSUME FilterInv, NEW i \in Context, NEW j \in DOMAIN branch, Answers(branch, i, j)
  PROVE  j \in Context
<1>1. i \in DOMAIN branch /\ branch[i].kind # "compaction" /\ j < i /\ branch[j].kind = "assistant"
  BY ContextIs, FilterFacts DEF Answers
<1> SUFFICES ASSUME LastCompaction # 0, j < branch[LastCompaction].kept
             PROVE  FALSE
  BY <1>1, ContextIs
<1> DEFINE last == LastCompaction
           kept == branch[last].kept
<1>2. last \in DOMAIN branch /\ branch[last].kind = "compaction" /\ last \in Nat /\ kept \in Nat
      /\ i \in Nat /\ j \in Nat
  BY <1>1, FilterFacts, LastCompactionIsLast, CompactionFields
<1>3. \/ kept \in {last, last + 1}
      \/ kept \in 1..(last - 1) /\ branch[kept].kind \notin {"result", "goal", "compaction"}
  BY <1>2, FilterFacts DEF History, KeptWhole
<1>4. i >= kept /\ j < kept
  BY <1>1, ContextIs
<1>5. \A k \in (j + 1)..i : branch[k].kind \in {"result", "goal"}
  BY DEF Answers
<1>6. i # last /\ j # last
  BY <1>1, <1>2
<1> HIDE DEF last, kept
<1>7. CASE kept \in {last, last + 1}
  <2>1. last \in (j + 1)..i
    BY <1>2, <1>4, <1>6, <1>7
  <2> QED
    BY <1>2, <1>5, <2>1
<1>8. CASE kept \in 1..(last - 1) /\ branch[kept].kind \notin {"result", "goal", "compaction"}
  <2>1. kept \in (j + 1)..i
    BY <1>2, <1>4
  <2> QED
    BY <1>5, <1>8, <2>1
<1> QED
  BY <1>3, <1>7, <1>8

LEMMA AutoCompactionFilterInv ==
  ASSUME FilterInv, AutoCompaction
  PROVE  FilterInv'
<1> DEFINE summarised(kept) == {i \in Context : i < kept \/ i = LastCompaction}
           covers(kept) == UNION {IF branch[i].kind = "compaction" THEN branch[i].covers
                                  ELSE {branch[i].work} : i \in summarised(kept)}
<1>1. PICK kept \in {i \in Context : branch[i].kind \notin {"result", "compaction"}} \cup {Len(branch) + 1},
           stamp \in Later :
        branch' = Append(branch,
          [kind |-> "compaction", stamp |-> stamp, kept |-> kept, covers |-> covers(kept)])
  BY DEF AutoCompaction
<1>2. turn = NoTurn /\ UNCHANGED <<goal, accepted, boundary, turn>>
  BY DEF AutoCompaction
<1> DEFINE e == [kind |-> "compaction", stamp |-> stamp, kept |-> kept, covers |-> covers(kept)]
<1>3. branch \in Seq(Entry) /\ History(branch)
  BY FilterFacts
<1>4. stamp \in Stamps /\ stamp \in Nat /\ stamp > Clock
  BY <1>3, NowAndLater
<1>5. ASSUME NEW i \in summarised(kept)
      PROVE  (IF branch[i].kind = "compaction" THEN branch[i].covers ELSE {branch[i].work}) \subseteq Work
  <2>1. i \in DOMAIN branch /\ branch[i] \in Entry /\ branch[i].kind # "goal"
    BY ContextIs, FilterFacts
  <2> QED
    BY <2>1, CompactionFields, MessageFields
<1>6. covers(kept) \subseteq Work
  BY <1>5
<1>7. kept \in Nat
  BY FilterFacts, ContextIs
<1>8. /\ e.kind = "compaction" /\ e.stamp = stamp /\ e.kept = kept /\ e.covers = covers(kept)
      /\ e \in Entry
  <2> HIDE DEF covers
  <2> QED
    BY <1>4, <1>6, <1>7 DEF Entry, Compaction
<1>9. branch' \in Seq(Entry) /\ Grows(branch, branch', e)
  BY <1>1, <1>3, <1>8, AppendGrows
<1> HIDE DEF e
<1>10. \/ e.kept \in {Len(branch) + 1, Len(branch) + 2}
       \/ e.kept \in DOMAIN branch /\ branch[e.kept].kind \notin {"result", "goal", "compaction"}
  BY <1>1, <1>8, ContextIs
<1>11. ASSUME NEW q \in DOMAIN branch, NEW i \in DOMAIN branch,
              Holds(branch, q, Len(branch)), q < i, branch[i].kind # "compaction",
              branch[i].work = branch[q].goal.work, i < kept
       PROVE  branch[i].work \in covers(kept) /\ stamp > branch[q].goal.cutoff
  <2>1. i \in Nat /\ q \in Nat /\ branch[q].kind = "goal" /\ branch[i].kind # "goal"
    BY <1>11, FilterFacts DEF Holds
  <2>2. stamp > branch[q].goal.cutoff
    <3>1. Stamp(branch[q]) <= Clock /\ Clock \in Nat /\ Stamp(branch[q]) \in Nat
      BY <1>3, ClockIsLatest, FilterFacts, StampFields
    <3> QED
      BY <1>4, <2>1, <3>1 DEF Stamp
  <2>3. CASE i \in Context
    <3>1. i \in summarised(kept)
      BY <1>11, <2>3
    <3>2. branch[i].work \in
            IF branch[i].kind = "compaction" THEN branch[i].covers ELSE {branch[i].work}
      BY <1>11
    <3> HIDE DEF summarised
    <3>3. branch[i].work \in covers(kept)
      BY <3>1, <3>2, Zenon
    <3> QED
      BY <2>2, <3>3
  <2>4. CASE i \notin Context
    <3> DEFINE last == LastCompaction
    <3>1. last # 0 /\ i < branch[last].kept
      BY <1>11, <2>1, <2>4, ContextIs
    <3>2. i < last /\ last \in DOMAIN branch /\ branch[last].kind = "compaction" /\ last \in Nat
      BY <1>3, <1>11, <3>1, FilterFacts, LeftOutBefore, LastCompactionIsLast
    <3>3. Holds(branch, q, last)
      BY <1>11, <2>1, <3>2, FilterFacts DEF Holds
    <3>4. branch[i].work \in branch[last].covers
      <4> HIDE DEF last
      <4> QED
        BY <1>3, <1>11, <3>1, <3>2, <3>3 DEF History, Covered
    <3>5. last \in summarised(kept)
      BY <3>1, ContextIs
    <3> QED
      BY <2>2, <3>2, <3>4, <3>5
  <2> QED
    BY <2>2, <2>3, <2>4
<1> HIDE DEF covers
<1>12. History(branch')
  BY <1>3, <1>8, <1>9, <1>10, <1>11, HistoryByCompaction
<1>13. TypeOK'
  BY <1>2, <1>9 DEF FilterInv, TypeOK, Entry
<1>14. GoalIsRecorded'
  BY <1>2, <1>3, <1>8, <1>9, LastHoldsByOther DEF FilterInv, GoalIsRecorded
<1>15. TurnInv'
  BY <1>2 DEF TurnInv, Running, NoTurn
<1>16. AcceptedInv'
  BY <1>2, <1>3, <1>8, <1>9, RememberedGrow DEF FilterInv, AcceptedInv
<1> QED
  BY <1>12, <1>13, <1>14, <1>15, <1>16 DEF FilterInv

(* Between the reply of the turn that runs and its end there is nothing of *)
(* another work.                                                           *)
LEMMA TurnIsOneWork ==
  ASSUME FilterInv, NEW calls, NEW j \in DOMAIN branch, Leads(branch, j, calls),
         NEW i \in DOMAIN branch, i > j, branch[i].kind # "goal"
  PROVE  branch[i].work = branch[j].work
<1>1. i \in (j + 1)..Len(branch) /\ branch[j].kind = "assistant" /\ j \in Nat /\ i \in Nat
  BY FilterFacts DEF Leads
<1>2. branch[i].kind = "result"
  BY <1>1 DEF Leads
<1>3. PICK k \in DOMAIN branch : Answers(branch, i, k)
  BY <1>2, FilterFacts DEF History, Grouped
<1>4. k \in Nat /\ k < i /\ branch[k].kind = "assistant"
  BY <1>3, FilterFacts DEF Answers
<1>5. CASE j < k
  <2>1. k \in (j + 1)..Len(branch)
    BY <1>1, <1>4, <1>5
  <2> QED
    BY <1>4, <2>1 DEF Leads
<1>6. CASE k < j
  <2>1. j \in (k + 1)..i
    BY <1>1, <1>4, <1>6
  <2> QED
    BY <1>1, <1>3, <2>1 DEF Answers
<1>7. CASE k = j
  BY <1>3, <1>7 DEF Answers
<1> QED
  BY <1>1, <1>4, <1>5, <1>6, <1>7

LEMMA TurnEndFilterInv ==
  ASSUME FilterInv, TurnEnd
  PROVE  FilterInv'
<1>1. turn' = NoTurn /\ UNCHANGED <<goal, accepted>>
      /\ boundary' = IF boundary.call \in turn.answered THEN NoBoundary ELSE boundary
  BY DEF TurnEnd
<1>2. TurnInv'
  BY <1>1 DEF TurnInv, Running, NoTurn
<1>3. \/ UNCHANGED branch
      \/ /\ boundary.call \in turn.answered
         /\ goal.work = boundary.work
         /\ branch' = Append(branch, [ kind |-> "compaction", stamp |-> Clock,
                                       kept |-> Len(branch) + 2, covers |-> {} ])
  BY DEF TurnEnd
<1>4. boundary' \in [call : Calls, work : Work] \cup {NoBoundary}
  BY <1>1 DEF FilterInv, TypeOK
<1>5. boundary' # NoBoundary => \E a \in accepted : a.call = boundary'.call
  BY <1>1 DEF FilterInv, AcceptedInv
<1>6. CASE UNCHANGED branch
  <2>1. TypeOK' /\ History(branch') /\ GoalIsRecorded'
    BY <1>1, <1>4, <1>6 DEF FilterInv, TypeOK, GoalIsRecorded, NoTurn
  <2>2. AcceptedInv'
    BY <1>1, <1>5, <1>6 DEF FilterInv, AcceptedInv, Remembered, NoTurn
  <2> QED
    BY <1>2, <2>1, <2>2 DEF FilterInv
<1>7. CASE /\ boundary.call \in turn.answered
           /\ goal.work = boundary.work
           /\ branch' = Append(branch, [ kind |-> "compaction", stamp |-> Clock,
                                         kept |-> Len(branch) + 2, covers |-> {} ])
  <2> DEFINE e == [kind |-> "compaction", stamp |-> Clock, kept |-> Len(branch) + 2, covers |-> {}]
  <2>1. branch \in Seq(Entry) /\ History(branch) /\ Len(branch) \in Nat
    BY FilterFacts
  <2>2. Clock \in Stamps
    BY <2>1, ClockIsLatest DEF Stamps
  <2>3. e \in Entry /\ e.kind = "compaction" /\ e.kept = Len(branch) + 2
    BY <2>1, <2>2 DEF Entry, Compaction
  <2>4. branch' \in Seq(Entry) /\ Grows(branch, branch', e)
    BY <1>7, <2>1, <2>3, AppendGrows
  <2> HIDE DEF e
  <2>5. PICK j \in DOMAIN branch :
          Leads(branch, j, turn.open \cup turn.answered) /\ branch[j].work # boundary.work
    BY <1>7 DEF FilterInv, TurnInv, Running
  <2>6. ASSUME NEW q \in DOMAIN branch, NEW i \in DOMAIN branch,
               Holds(branch, q, Len(branch)), q < i, branch[i].kind # "compaction",
               branch[i].work = branch[q].goal.work
        PROVE  FALSE
    <3>1. branch[q].goal = goal /\ branch[i].kind # "goal" /\ i \in Nat /\ j \in Nat /\ q \in Nat
      <4>1. i \in Nat /\ j \in Nat /\ q \in Nat /\ i <= Len(branch)
        BY FilterFacts
      <4>2. branch[q].goal = goal
        BY <2>6 DEF FilterInv, GoalIsRecorded
      <4>3. i \in (q + 1)..Len(branch)
        BY <2>1, <2>6, <4>1
      <4> QED
        BY <2>6, <4>1, <4>2, <4>3 DEF Holds
    <3>2. CASE i > j
      BY <1>7, <2>5, <2>6, <3>1, <3>2, TurnIsOneWork
    <3>3. CASE i <= j
      <4>1. Holds(branch, q, j)
        BY <2>6, <3>1, <3>3, FilterFacts DEF Holds
      <4>2. IsWork(branch[j])
        BY <2>5 DEF Leads, IsWork
      <4> QED
        BY <1>7, <2>1, <2>5, <3>1, <4>1, <4>2 DEF History, Own
    <3> QED
      BY <3>1, <3>2, <3>3
  <2>7. History(branch')
    BY <2>1, <2>3, <2>4, <2>6, HistoryByCompaction
  <2>8. TypeOK'
    BY <1>1, <1>4, <2>4 DEF FilterInv, TypeOK, Entry, NoTurn
  <2>9. GoalIsRecorded'
    BY <1>1, <2>1, <2>3, <2>4, LastHoldsByOther DEF FilterInv, GoalIsRecorded
  <2>10. AcceptedInv'
    <3>1. Remembered(branch', accepted, {})
      BY <2>1, <2>3, <2>4, RememberedGrow DEF FilterInv, AcceptedInv
    <3> QED
      BY <1>1, <1>5, <3>1 DEF AcceptedInv, NoTurn
  <2> QED
    BY <1>2, <2>7, <2>8, <2>9, <2>10 DEF FilterInv
<1> QED
  BY <1>3, <1>6, <1>7

LEMMA StepFilterInv ==
  FilterInv /\ [Next]_vars => FilterInv'
<1> SUFFICES ASSUME FilterInv, [Next]_vars PROVE FilterInv'
  OBVIOUS
<1>1. CASE UserMessage
  BY <1>1, UserMessageFilterInv
<1>2. CASE AssistantReply
  BY <1>2, AssistantReplyFilterInv
<1>3. CASE ToolResult
  BY <1>3, ToolResultFilterInv
<1>4. CASE Abort
  BY <1>4, AbortFilterInv
<1>5. CASE DeliverSnapshot
  BY <1>5, DeliverSnapshotFilterInv
<1>6. CASE AutoCompaction
  BY <1>6, AutoCompactionFilterInv
<1>7. CASE CompleteStage
  BY <1>7, CompleteStageFilterInv
<1>8. CASE TurnEnd
  BY <1>8, TurnEndFilterInv
<1>9. CASE ReplaceGoal
  BY <1>9, ReplaceGoalFilterInv
<1>10. CASE SessionStart
  BY <1>10, SessionStartFilterInv
<1>11. CASE SessionTree
  BY <1>11, SessionTreeFilterInv
<1>12. CASE UNCHANGED vars
  BY <1>12 DEF vars, FilterInv, TypeOK, GoalIsRecorded, TurnInv, AcceptedInv
<1> QED
  BY <1>1, <1>2, <1>3, <1>4, <1>5, <1>6, <1>7, <1>8, <1>9, <1>10, <1>11, <1>12 DEF Next

(* The shape of the session and of what the extension remembers of it is   *)
(* kept by every handler (the context and turn_end handlers,               *)
(* completeStage).                                                         *)
THEOREM FilterInvariant == Spec => []FilterInv
BY InitFilterInv, StepFilterInv, PTL DEF Spec

(* Every entry, cutoff and boundary is of its type, whatever the human     *)
(* selects and whenever the session restarts.                              *)
THEOREM FilterTypes == Spec => []TypeOK
<1>1. FilterInv => TypeOK
  BY DEF FilterInv
<1> QED
  BY <1>1, FilterInvariant, PTL

-----------------------------------------------------------------------------
(* The properties, from the invariant.                                     *)

LEMMA NewestSnapshot ==
  ASSUME FilterInv
  PROVE  LET newest == Max({i \in Context : IsCurrentSnapshot(branch[i])} \cup {0})
         IN /\ newest # 0 => newest \in Context /\ IsCurrentSnapshot(branch[newest])
            /\ \A i \in Context : IsCurrentSnapshot(branch[i]) => i <= newest
            /\ newest \in Nat
<1> DEFINE T == {i \in Context : IsCurrentSnapshot(branch[i])} \cup {0}
<1>1. Len(branch) \in Nat /\ \A i \in Context : i \in 1..Len(branch) /\ i \in Nat
  BY ContextIs, FilterFacts
<1>2. T \subseteq 0..Len(branch) /\ T # {}
  BY <1>1
<1>3. Max(T) \in T /\ \A x \in T : Max(T) >= x
  <2> HIDE DEF T
  <2> QED
    BY <1>1, <1>2, MaxIsReached
<1> DEFINE m == Max(T)
<1>4. ASSUME m \in T, \A x \in T : m >= x
      PROVE  /\ m # 0 => m \in Context /\ IsCurrentSnapshot(branch[m])
             /\ \A i \in Context : IsCurrentSnapshot(branch[i]) => i <= m
             /\ m \in Nat
  <2> HIDE DEF m
  <2> QED
    BY <1>1, <1>4
<1> QED
  BY <1>3, <1>4

(* What is in view is the newest snapshot or passes the filter.            *)
Passes(entry) ==
  /\ entry.kind # "snapshot"
  /\ goal.cutoff # 0 => entry.stamp > goal.cutoff /\ ~IsOldStepLeftover(entry, OldCallIds)

LEMMA ViewIs ==
  ASSUME FilterInv
  PROVE  /\ \A i \in View : i \in Context /\ (Passes(branch[i]) \/ IsCurrentSnapshot(branch[i]))
         /\ \A i \in Context : Passes(branch[i]) => i \in View
         /\ \A i \in Context :
              (IsCurrentSnapshot(branch[i]) /\
                 \A j \in DOMAIN branch : j > i => ~IsCurrentSnapshot(branch[j])) => i \in View
<1> DEFINE newest == Max({i \in Context : IsCurrentSnapshot(branch[i])} \cup {0})
<1>1. View = {i \in Context : i = newest \/ Passes(branch[i])}
  BY DEF View, Passes
<1>2. /\ newest # 0 => newest \in Context /\ IsCurrentSnapshot(branch[newest])
      /\ \A i \in Context : IsCurrentSnapshot(branch[i]) => i <= newest
      /\ newest \in Nat
  BY NewestSnapshot
<1> HIDE DEF newest
<1>3. \A i \in Context : i \in DOMAIN branch /\ i \in Nat /\ i > 0
  BY ContextIs, FilterFacts
<1>4. ASSUME NEW i \in Context, IsCurrentSnapshot(branch[i]),
             \A j \in DOMAIN branch : j > i => ~IsCurrentSnapshot(branch[j])
      PROVE  i = newest
  BY <1>2, <1>3, <1>4
<1> QED
  BY <1>1, <1>2, <1>3, <1>4

(* The ids of calls that are old, for replies.                             *)
LEMMA OldCalls ==
  ASSUME FilterInv, NEW c \in OldCallIds
  PROVE  \/ \E a \in accepted : a.goal = goal.work.goal /\ a.call = c
         \/ \E i \in Context : branch[i].kind = "assistant" /\ branch[i].stamp <= goal.cutoff
                                 /\ c \in branch[i].calls
BY DEF OldCallIds

LEMMA StaleCallsAreOld ==
  ASSUME FilterInv, NEW i \in Context, branch[i].kind = "assistant", branch[i].stamp <= goal.cutoff
  PROVE  branch[i].calls \subseteq OldCallIds
BY DEF OldCallIds

(* A reply after the cutoff has a call that is old only if the completion  *)
(* it made has been taken back.                                            *)
LEMMA OldCallOfNewReply ==
  ASSUME FilterInv, ~goal.complete,
         NEW j \in DOMAIN branch, branch[j].kind = "assistant", branch[j].stamp > goal.cutoff,
         NEW c \in branch[j].calls, c \in OldCallIds
  PROVE  c \in TakenBack
<1>1. branch[j].stamp \in Nat /\ goal.cutoff \in Nat
  BY FilterFacts, MessageFields, GoalFields
<1>2. ASSUME NEW i \in Context, branch[i].kind = "assistant", branch[i].stamp <= goal.cutoff,
             c \in branch[i].calls
      PROVE  FALSE
  <2>1. i \in DOMAIN branch /\ i # j
    BY <1>1, <1>2, ContextIs
  <2> QED
    BY <1>2, <2>1, FilterFacts DEF History, Distinct
<1>3. PICK a \in accepted : a.goal = goal.work.goal /\ a.call = c
  BY <1>2, OldCalls
<1>4. ASSUME NEW r \in DOMAIN branch, branch[r].kind = "goal", c \in branch[r].by
      PROVE  FALSE
  <2>1. branch[r].goal.work.goal = goal.work.goal
    BY <1>3, <1>4 DEF FilterInv, AcceptedInv, Remembered
  <2>2. PICK k \in DOMAIN branch : k < r /\ branch[k].kind = "assistant" /\ c \in branch[k].calls
    BY <1>4, FilterFacts DEF History, Caused
  <2>3. k = j
    BY <2>2, FilterFacts DEF History, Distinct
  <2>4. PICK q \in DOMAIN branch :
          Holds(branch, q, Len(branch)) /\ branch[q].kind = "goal" /\ branch[q].goal = goal
    BY FilterFacts
  <2>5. r <= q
    BY <1>4, <2>4, FilterFacts DEF Holds
  <2>6. branch[j].stamp <= goal.cutoff
    BY <1>4, <2>1, <2>2, <2>3, <2>4, <2>5, FilterFacts DEF History, Closed
  <2> QED
    BY <1>1, <2>6
<1> QED
  BY <1>3, <1>4 DEF TakenBack

(* No request after a transition is given a message of a step that is      *)
(* over, for any stamps, any order of results and any restarts (the        *)
(* context handler).                                                       *)
LEMMA NoOldStepWorkHolds == FilterInv => NoOldStepWork
<1> SUFFICES ASSUME FilterInv, ~goal.complete,
                    NEW i \in View, branch[i].kind # "compaction", IsOldStep(branch[i].work)
             PROVE  FALSE
  BY DEF NoOldStepWork
<1>1. i \in Context /\ i \in DOMAIN branch /\ branch[i].kind # "goal"
  BY ViewIs, ContextIs
<1>2. /\ branch[i] \in Entry /\ branch[i].work.step \in Nat /\ branch[i].stamp \in Nat
      /\ goal.work.step \in Nat /\ goal.cutoff \in Nat /\ goal.work.goal \in Nat
  BY <1>1, FilterFacts, MessageFields, GoalFields
<1>3. branch[i].work.goal = goal.work.goal /\ branch[i].work.step < goal.work.step
  BY DEF IsOldStep
<1>4. ~IsCurrentSnapshot(branch[i])
  BY <1>2, <1>3 DEF IsCurrentSnapshot
<1>5. goal.cutoff > 0
  <2>1. branch[i].work.step >= 1
    BY <1>1, FilterFacts, MessageFields DEF Work
  <2>2. goal.work.step > 1
    BY <1>2, <1>3, <2>1
  <2> QED
    BY <2>2, FilterFacts DEF Numbers
<1>6. /\ branch[i].kind # "snapshot" /\ branch[i].stamp > goal.cutoff
      /\ ~IsOldStepLeftover(branch[i], OldCallIds)
  BY <1>2, <1>4, <1>5, ViewIs DEF Passes
<1>7. ASSUME NEW k \in DOMAIN branch, IsWork(branch[k]), branch[k].work = branch[i].work
      PROVE  branch[k].stamp <= goal.cutoff
  BY <1>2, <1>3, <1>7, WorkOfTheGoal DEF Precedes
<1>8. ~IsWork(branch[i])
  BY <1>1, <1>2, <1>6, <1>7
<1>9. branch[i].kind = "result"
  BY <1>1, <1>2, <1>6, <1>8, EntryKinds DEF IsWork
<1>10. PICK j \in DOMAIN branch : Answers(branch, i, j)
  BY <1>1, <1>9, FilterFacts DEF History, Grouped
<1>11. branch[i].calls # {} /\ branch[i].calls \subseteq branch[j].calls
  BY <1>1, <1>9, <1>10, FilterFacts DEF History, Grouped, Answers
<1>12. branch[j].kind = "assistant" /\ branch[j].stamp <= goal.cutoff
  BY <1>7, <1>10 DEF Answers, IsWork
<1>13. branch[j].calls \subseteq OldCallIds
  BY <1>1, <1>10, <1>12, ReplyInContext, StaleCallsAreOld
<1> QED
  BY <1>6, <1>9, <1>11, <1>13 DEF IsOldStepLeftover

THEOREM NoOldWorkInView == Spec => []NoOldStepWork
BY NoOldStepWorkHolds, FilterInvariant, PTL

(* A reply in the context that is later than the cutoff is in view, unless *)
(* its completion was taken back.                                          *)
LEMMA NewReplyInView ==
  ASSUME FilterInv, ~goal.complete,
         NEW j \in Context, branch[j].kind = "assistant",
         goal.cutoff # 0 => branch[j].stamp > goal.cutoff
  PROVE  j \in View \/ branch[j].calls \cap TakenBack # {}
<1>1. j \in DOMAIN branch
  BY ContextIs
<1>2. CASE goal.cutoff # 0 => ~IsOldStepLeftover(branch[j], OldCallIds)
  <2>1. Passes(branch[j])
    BY <1>2 DEF Passes
  <2> QED
    BY <2>1, ViewIs
<1>3. CASE goal.cutoff # 0 /\ IsOldStepLeftover(branch[j], OldCallIds)
  <2>1. PICK c \in branch[j].calls : c \in OldCallIds
    BY <1>3 DEF IsOldStepLeftover
  <2>2. c \in TakenBack
    BY <1>1, <1>3, <2>1, OldCallOfNewReply
  <2> QED
    BY <2>2
<1> QED
  BY <1>2, <1>3

LEMMA ResultsHaveCallsHolds == FilterInv => ResultsHaveCalls
<1> SUFFICES ASSUME FilterInv, ~goal.complete, NEW i \in View, branch[i].kind = "result", ~HasCall(i)
             PROVE  ReportsTakenBack(branch[i])
  BY DEF ResultsHaveCalls, Orphans
<1>1. i \in Context /\ i \in DOMAIN branch
  BY ViewIs, ContextIs
<1>2. PICK j \in DOMAIN branch : Answers(branch, i, j)
  BY <1>1, FilterFacts DEF History, Grouped
<1>3. /\ branch[i].calls # {} /\ branch[i].calls \subseteq branch[j].calls
      /\ branch[j].kind = "assistant"
  BY <1>1, <1>2, FilterFacts DEF History, Grouped, Answers
<1>4. j \in Context
  BY <1>1, <1>2, ReplyInContext
<1>5. goal.cutoff # 0 => ~IsOldStepLeftover(branch[i], OldCallIds)
  BY ViewIs DEF Passes, IsCurrentSnapshot
<1>6. goal.cutoff # 0 => branch[j].stamp > goal.cutoff
  <2>1. branch[j].stamp \in Nat /\ goal.cutoff \in Nat
    BY <1>3, FilterFacts, MessageFields, GoalFields
  <2>2. ASSUME goal.cutoff # 0, branch[j].stamp <= goal.cutoff PROVE FALSE
    <3>1. branch[j].calls \subseteq OldCallIds
      BY <1>3, <1>4, <2>2, StaleCallsAreOld
    <3> QED
      BY <1>3, <1>5, <2>2, <3>1 DEF IsOldStepLeftover
  <2> QED
    BY <2>1, <2>2
<1>7. CASE j \in View
  BY <1>3, <1>7 DEF HasCall
<1>8. CASE branch[j].calls \cap TakenBack # {}
  BY <1>3, <1>8 DEF ReportsTakenBack
<1> QED
  BY <1>3, <1>4, <1>6, <1>7, <1>8, NewReplyInView

(* While a goal has steps to go, every result that a request is given      *)
(* without its call belongs to a reply one of whose calls completed a step *)
(* and was taken back by navigation (the context handler).  Nothing is     *)
(* said of a goal that is complete.                                        *)
THEOREM NoOrphanInView == Spec => []ResultsHaveCalls
BY ResultsHaveCallsHolds, FilterInvariant, PTL

LEMMA OwnWorkStaysHolds == FilterInv => OwnWorkStays
<1> SUFFICES ASSUME FilterInv, ~goal.complete, NEW i \in OwnWork
             PROVE  Stays(i) \/ ReportsTakenBack(branch[i])
  BY DEF OwnWorkStays
<1> DEFINE q == LastRecord
<1>1. /\ i \in DOMAIN branch /\ i > q /\ branch[i].kind # "compaction"
      /\ branch[i].work = goal.work
      /\ branch[i].kind = "user" => branch[i].stamp > goal.cutoff
      /\ branch[i].kind = "snapshot" =>
           \A j \in DOMAIN branch : j > i => ~IsCurrentSnapshot(branch[j])
  BY DEF OwnWork
<1>2. Holds(branch, q, Len(branch))
  <2>1. q = Max({j \in 1..Len(branch) : branch[j].kind = "goal"})
    BY FilterFacts DEF LastRecord
  <2>2. Len(branch) \in 1..Len(branch)
    BY FilterFacts
  <2> QED
    BY <2>1, <2>2, FilterFacts, LastRecordHolds
<1> HIDE DEF q
<1>3. /\ q \in DOMAIN branch /\ branch[q].kind = "goal" /\ branch[q].goal = goal
      /\ q \in Nat /\ i \in Nat /\ goal.cutoff \in Nat /\ Stamp(branch[q]) = goal.cutoff
  BY <1>1, <1>2, FilterFacts, GoalFields DEF Holds, FilterInv, GoalIsRecorded, Stamp
<1>4. branch[i].kind # "goal" /\ branch[i] \in Entry
  BY <1>1, <1>2, <1>3, FilterFacts DEF Holds
<1>5. branch[i].kind \in {"user", "assistant", "result", "snapshot"} /\ branch[i].stamp \in Nat
  BY <1>1, <1>4, EntryKinds, MessageFields
<1>6. ASSUME i \in Context, branch[i].kind = "snapshot" PROVE i \in View
  BY <1>1, <1>6, ViewIs DEF IsCurrentSnapshot
<1>7. ASSUME i \in Context, branch[i].kind = "user" PROVE i \in View
  BY <1>1, <1>7, ViewIs DEF Passes, IsOldStepLeftover
<1>8. ASSUME NEW j \in DOMAIN branch, q < j, branch[j].kind = "assistant"
      PROVE  branch[j].stamp > goal.cutoff
  <2>1. branch[j].stamp \in Nat
    BY <1>8, FilterFacts, MessageFields
  <2> QED
    BY <1>3, <1>8, <2>1, FilterFacts DEF History, Ordered
<1>9. ASSUME i \in Context, branch[i].kind = "assistant"
      PROVE  i \in View \/ ReportsTakenBack(branch[i])
  <2>1. i \in View \/ branch[i].calls \cap TakenBack # {}
    BY <1>1, <1>3, <1>8, <1>9, NewReplyInView
  <2> QED
    BY <1>1, <1>9, <2>1 DEF ReportsTakenBack
<1>10. ASSUME i \in Context, branch[i].kind = "result"
       PROVE  i \in View \/ ReportsTakenBack(branch[i])
  <2>1. PICK j \in DOMAIN branch : Answers(branch, i, j)
    BY <1>1, <1>10, FilterFacts DEF History, Grouped
  <2>2. /\ branch[i].calls \subseteq branch[j].calls
        /\ branch[j].kind = "assistant" /\ branch[j].work = goal.work /\ j < i /\ j \in Nat
        /\ branch[j].stamp \in Nat /\ Stamp(branch[j]) = branch[j].stamp
    BY <1>1, <2>1, FilterFacts, MessageFields DEF Answers, Stamp
  <2>3. j > q
    <3>1. j # q
      BY <1>3, <2>2
    <3>2. ASSUME j < q PROVE FALSE
      <4>1. Precedes(branch[j], goal)
        BY <1>3, <2>2, <3>2, FilterFacts DEF History, Behind, IsWork
      <4>2. goal.work.goal \in Nat /\ goal.work.step \in Nat
        BY FilterFacts, GoalFields
      <4> QED
        BY <2>2, <4>1, <4>2 DEF Precedes
    <3> QED
      BY <1>3, <2>2, <3>1, <3>2
  <2>4. branch[j].stamp > goal.cutoff
    BY <1>8, <2>2, <2>3
  <2>5. branch[i].stamp > goal.cutoff
    <3>1. Stamp(branch[j]) <= branch[i].stamp
      BY <1>1, <1>10, <2>2, FilterFacts DEF History, Ordered
    <3> QED
      BY <1>3, <1>5, <2>2, <2>4, <3>1
  <2>6. CASE branch[i].calls \cap OldCallIds = {}
    <3>1. Passes(branch[i])
      BY <1>10, <2>5, <2>6 DEF Passes, IsOldStepLeftover
    <3> QED
      BY <1>10, <3>1, ViewIs
  <2>7. ASSUME NEW c \in branch[i].calls, c \in OldCallIds PROVE ReportsTakenBack(branch[i])
    <3>1. c \in TakenBack
      BY <2>2, <2>4, <2>7, OldCallOfNewReply
    <3> QED
      BY <2>2, <2>7, <3>1 DEF ReportsTakenBack
  <2> QED
    BY <2>6, <2>7
<1>11. CASE i \in Context
  BY <1>5, <1>6, <1>7, <1>9, <1>10, <1>11 DEF Stays
<1>12. CASE i \notin Context
  <2> DEFINE last == LastCompaction
  <2>1. last # 0 /\ i < branch[last].kept
    BY <1>1, <1>4, <1>12, ContextIs
  <2>2. last \in DOMAIN branch /\ branch[last].kind = "compaction" /\ last \in Nat /\ i < last
    BY <1>1, <2>1, FilterFacts, LastCompactionIsLast, LeftOutBefore
  <2>3. last \in Context
    BY <2>1, ContextIs
  <2> HIDE DEF last
  <2>4. Holds(branch, q, last)
    BY <1>1, <1>2, <1>3, <2>2, FilterFacts DEF Holds
  <2>5. branch[i].work \in branch[last].covers /\ branch[last].stamp > goal.cutoff
    BY <1>1, <1>3, <2>1, <2>2, <2>4, FilterFacts DEF History, Covered
  <2>6. last \in View
    BY <2>2, <2>3, <2>5, ViewIs DEF Passes, IsOldStepLeftover
  <2> QED
    BY <2>1, <2>5, <2>6 DEF Stays, last
<1> QED
  BY <1>11, <1>12

(* The filter and the compaction at a boundary take nothing of the current *)
(* step from it: what it asked, was told and reported stays until a        *)
(* summary covers it (the context and turn_end handlers).                  *)
THEOREM OwnWorkStaysInView == Spec => []OwnWorkStays
BY OwnWorkStaysHolds, FilterInvariant, PTL

=============================================================================
