--------------------------- MODULE MainLineProofs ---------------------------
(***************************************************************************)
(* What no merge can do to main, for any number of pull requests open at   *)
(* once and of any age.  A run judges the candidate, a merge of two older  *)
(* commits, against the main of that moment; the branch goes into a main   *)
(* that is later still.  The argument: what a branch has seen, base, its   *)
(* run's main, at, and main are in the order Later, which the gates make   *)
(* transitive; so a gate passed against any of them says of the branch     *)
(* itself that it takes nothing from base, whatever main is when it merges.*)
(***************************************************************************)
EXTENDS MainLine, TLAPS

(* Nothing that the gates protect in b is lost in m, but in files, and in  *)
(* messages, of g.                                                         *)
LaterLedger(b, m, g) ==
  "ledger" \notin g /\ b.ledger # Missing => m.ledger # Missing /\ m.ledger \subseteq b.ledger
LaterRevs(b, m, g) ==
  \A x \in Module \ g : b.revs[x] # Missing =>
    /\ m.revs[x] # Missing
    /\ \A d \in Date : b.revs[x][d] # Absent => m.revs[x][d] = b.revs[x][d]
LaterWire(b, m, g) ==
  \A x \in Message \ g : b.wire[x] # Missing =>
    m.wire[x] # Missing /\ b.wire[x] \subseteq m.wire[x]
Later(b, m, g) == LaterLedger(b, m, g) /\ LaterRevs(b, m, g) /\ LaterWire(b, m, g)

(* The branch tip h takes nothing from b by editing a file, or a message, *)
(* of it.                                                                  *)
LedgerFine(h, b, g) ==
  "ledger" \notin g /\ b.ledger # Missing /\ h.ledger # Missing => h.ledger \subseteq b.ledger
RevsFine(h, b, g) ==
  \A x \in Module \ g : b.revs[x] # Missing /\ h.revs[x] # Missing =>
    \A d \in Date : b.revs[x][d] # Absent => h.revs[x][d] = b.revs[x][d]
WireFine(h, b, g) ==
  \A x \in Message \ g : b.wire[x] # Missing /\ h.wire[x] # Missing =>
    b.wire[x] \subseteq h.wire[x]

Ordered(p) == Later(base[p], at[p], gone) /\ Later(at[p], main, gone)

(* What the results of a run say of the branch. *)
Judged(p) ==
  /\ res[p]["changes"] # "skipped"
  /\ res[p]["changes"] = "success" =>
       /\ \A j \in Job \ {"changes"} : res[p][j] = "skipped" => ~Wanted(p, j)
       /\ res[p]["yang"] = "success" =>
            /\ LedgerFine(head[p], base[p], gone)
            /\ RevsFine(head[p], base[p], gone)
            /\ Clean(Candidate(p))
       /\ res[p]["buf"] = "success" => WireFine(head[p], base[p], gone)
       /\ res[p]["go"] = "success" => OneFieldPerTag(Candidate(p))

Held == \A p \in open : Ordered(p) /\ Judged(p)
Inv == TypeOK /\ Held /\ FreshMainIsClean

-----------------------------------------------------------------------------
(* Trees and their merges. *)

LEMMA TreeParts ==
  ASSUME NEW t \in Tree
  PROVE  /\ t.ledger = Missing \/ t.ledger \subseteq Key
         /\ \A x \in Module : t.revs[x] = Missing \/ t.revs[x] \in [Date -> Text \cup {Absent}]
         /\ t.revs \in [Module -> {Missing} \cup [Date -> Text \cup {Absent}]]
         /\ t.bad \subseteq Key /\ t.used \subseteq Key
         /\ \A x \in Message : t.wire[x] = Missing \/ t.wire[x] \subseteq Item
         /\ t.wire \in [Message -> {Missing} \cup SUBSET Item]
         /\ t.docs \subseteq Line
         /\ t.changelog \in BOOLEAN /\ t.manifest \in BOOLEAN
BY DEF Tree

LEMMA MergedTree ==
  ASSUME NEW b \in Tree, NEW m \in Tree, NEW h \in Tree
  PROVE  Merged(b, m, h) \in Tree
<1>1. MergedLines(b.ledger, m.ledger, h.ledger) \in {Missing} \cup SUBSET Key
  BY TreeParts DEF MergedLines, Either, Lines
<1>2. ASSUME NEW x \in Module
      PROVE  MergedRevs(b.revs[x], m.revs[x], h.revs[x])
               \in {Missing} \cup [Date -> Text \cup {Absent}]
  BY TreeParts DEF MergedRevs, Either
<1>3. [x \in Module |-> MergedRevs(b.revs[x], m.revs[x], h.revs[x])]
        \in [Module -> {Missing} \cup [Date -> Text \cup {Absent}]]
  BY <1>2
<1>4. /\ Lines(b.bad, m.bad, h.bad) \in SUBSET Key
      /\ Lines(b.used, m.used, h.used) \in SUBSET Key
      /\ Lines(b.docs, m.docs, h.docs) \in SUBSET Line
  BY TreeParts DEF Lines
<1>6. ASSUME NEW x \in Message
      PROVE  MergedLines(b.wire[x], m.wire[x], h.wire[x]) \in {Missing} \cup SUBSET Item
  BY TreeParts DEF MergedLines, Either, Lines
<1>7. [x \in Message |-> MergedLines(b.wire[x], m.wire[x], h.wire[x])]
        \in [Message -> {Missing} \cup SUBSET Item]
  BY <1>6
<1>5. /\ Either(b.changelog, m.changelog, h.changelog) \in BOOLEAN
      /\ Either(b.manifest, m.manifest, h.manifest) \in BOOLEAN
  BY TreeParts DEF Either
<1> QED  BY <1>1, <1>3, <1>4, <1>5, <1>7 DEF Merged, Tree

LEMMA BlankTree == Blank \in Tree
BY DEF Blank, Tree

LEMMA LaterReflexive ==
  ASSUME NEW t, NEW g  PROVE Later(t, t, g)
BY DEF Later, LaterLedger, LaterRevs, LaterWire

LEMMA LaterTransitive ==
  ASSUME NEW b, NEW a, NEW m, NEW g, NEW k, g \subseteq k, Later(b, a, g), Later(a, m, k)
  PROVE  Later(b, m, k)
<1>1. LaterLedger(b, m, k)  BY DEF Later, LaterLedger
<1>2. LaterRevs(b, m, k)
  <2> SUFFICES ASSUME NEW x \in Module \ k, b.revs[x] # Missing
               PROVE  /\ m.revs[x] # Missing
                      /\ \A d \in Date : b.revs[x][d] # Absent => m.revs[x][d] = b.revs[x][d]
    BY DEF LaterRevs
  <2>1. x \in Module \ g  OBVIOUS
  <2> QED  BY <2>1 DEF Later, LaterRevs
<1>3. LaterWire(b, m, k)
  <2> SUFFICES ASSUME NEW x \in Message \ k, b.wire[x] # Missing
               PROVE  m.wire[x] # Missing /\ b.wire[x] \subseteq m.wire[x]
    BY DEF LaterWire
  <2>1. x \in Message \ g  OBVIOUS
  <2> QED  BY <2>1 DEF Later, LaterWire
<1> QED  BY <1>1, <1>2, <1>3 DEF Later

LEMMA FineInFewerFiles ==
  ASSUME NEW h, NEW b, NEW g, NEW k, g \subseteq k
  PROVE  /\ LedgerFine(h, b, g) => LedgerFine(h, b, k)
         /\ RevsFine(h, b, g) => RevsFine(h, b, k)
         /\ WireFine(h, b, g) => WireFine(h, b, k)
BY DEF LedgerFine, RevsFine, WireFine

-----------------------------------------------------------------------------
(* What a gate that accepts the merge of head with at says of head. *)

LEMMA GrowthGate ==
  ASSUME NEW b \in Tree, NEW a \in Tree, NEW m \in Tree, NEW h \in Tree, NEW g,
         LaterLedger(b, a, g), LaterLedger(a, m, g), Growth(Merged(b, a, h), m)
  PROVE  LedgerFine(h, b, g)
<1> SUFFICES ASSUME "ledger" \notin g, b.ledger # Missing, h.ledger # Missing,
                    NEW x \in h.ledger
             PROVE  x \in b.ledger
  BY DEF LedgerFine
<1>1. /\ a.ledger # Missing /\ a.ledger \subseteq b.ledger
      /\ m.ledger # Missing /\ m.ledger \subseteq a.ledger
  BY DEF LaterLedger
<1>2. Merged(b, a, h).ledger = Lines(b.ledger, a.ledger, h.ledger)
  BY <1>1 DEF Merged, MergedLines
<1>3. Lines(b.ledger, a.ledger, h.ledger) \in SUBSET Key
  BY <1>1, TreeParts DEF Lines
<1>4. Merged(b, a, h).ledger # Missing  BY <1>2, <1>3, MainAssumption
<1>5. Lines(b.ledger, a.ledger, h.ledger) \subseteq m.ledger
  BY <1>1, <1>2, <1>4 DEF Growth, Exceptions
<1> QED  BY <1>1, <1>5 DEF Lines

LEMMA HistoryGate ==
  ASSUME NEW b \in Tree, NEW a \in Tree, NEW m \in Tree, NEW h \in Tree, NEW g,
         LaterRevs(b, a, g), LaterRevs(a, m, g), RevisionHistory(Merged(b, a, h), m)
  PROVE  RevsFine(h, b, g)
<1> SUFFICES ASSUME NEW x \in Module \ g, b.revs[x] # Missing, h.revs[x] # Missing,
                    NEW d \in Date, b.revs[x][d] # Absent
             PROVE  h.revs[x][d] = b.revs[x][d]
  BY DEF RevsFine
<1>1. /\ a.revs[x] # Missing /\ m.revs[x] # Missing
      /\ a.revs[x][d] = b.revs[x][d] /\ m.revs[x][d] = b.revs[x][d]
  BY DEF LaterRevs
<1>2. Merged(b, a, h).revs[x] = [e \in Date |-> Either(b.revs[x][e], a.revs[x][e], h.revs[x][e])]
  BY <1>1 DEF Merged, MergedRevs
<1>3. Merged(b, a, h).revs[x] \in [Date -> Text \cup {Absent}]
  BY <1>1, <1>2, TreeParts DEF Either
<1>4. Merged(b, a, h).revs[x] # Missing  BY <1>3, MainAssumption
<1>5. Merged(b, a, h).revs[x][d] = m.revs[x][d]
  BY <1>1, <1>4 DEF RevisionHistory
<1> QED  BY <1>1, <1>2, <1>5 DEF Either

LEMMA BreakingGate ==
  ASSUME NEW b \in Tree, NEW a \in Tree, NEW m \in Tree, NEW h \in Tree, NEW g,
         LaterWire(b, a, g), LaterWire(a, m, g), BufBreaking(Merged(b, a, h), m)
  PROVE  WireFine(h, b, g)
<1> SUFFICES ASSUME NEW x \in Message \ g, b.wire[x] # Missing, h.wire[x] # Missing,
                    NEW f \in b.wire[x]
             PROVE  f \in h.wire[x]
  BY DEF WireFine
<1>1. /\ a.wire[x] # Missing /\ m.wire[x] # Missing
      /\ b.wire[x] \subseteq a.wire[x] /\ a.wire[x] \subseteq m.wire[x]
  BY DEF LaterWire
<1>2. Merged(b, a, h).wire[x] = Lines(b.wire[x], a.wire[x], h.wire[x])
  BY <1>1 DEF Merged, MergedLines
<1>3. Lines(b.wire[x], a.wire[x], h.wire[x]) \in SUBSET Item
  BY <1>1, TreeParts DEF Lines
<1>4. Merged(b, a, h).wire[x] # Missing  BY <1>2, <1>3, MainAssumption
<1>5. m.wire[x] \subseteq Lines(b.wire[x], a.wire[x], h.wire[x])
  BY <1>1, <1>2, <1>4 DEF BufBreaking
<1> QED  BY <1>1, <1>5 DEF Lines

(* A gate is skipped when the merge leaves what it reads as it is in at. *)

LEMMA UntouchedLedger ==
  ASSUME NEW b, NEW a, NEW h, NEW g,
         LaterLedger(b, a, g), Merged(b, a, h).ledger = a.ledger
  PROVE  LedgerFine(h, b, g)
<1> SUFFICES ASSUME "ledger" \notin g, b.ledger # Missing, h.ledger # Missing
             PROVE  h.ledger \subseteq b.ledger
  BY DEF LedgerFine
<1>1. a.ledger # Missing /\ a.ledger \subseteq b.ledger  BY DEF LaterLedger
<1>2. a.ledger = Lines(b.ledger, a.ledger, h.ledger)
  BY <1>1 DEF Merged, MergedLines
<1> QED  BY <1>1, <1>2 DEF Lines

LEMMA UntouchedRevs ==
  ASSUME NEW b, NEW a, NEW h, NEW g,
         LaterRevs(b, a, g), Merged(b, a, h).revs = a.revs
  PROVE  RevsFine(h, b, g)
<1> SUFFICES ASSUME NEW x \in Module \ g, b.revs[x] # Missing, h.revs[x] # Missing,
                    NEW d \in Date, b.revs[x][d] # Absent
             PROVE  h.revs[x][d] = b.revs[x][d]
  BY DEF RevsFine
<1>1. a.revs[x] # Missing /\ a.revs[x][d] = b.revs[x][d]  BY DEF LaterRevs
<1>2. a.revs[x] = [e \in Date |-> Either(b.revs[x][e], a.revs[x][e], h.revs[x][e])]
  BY <1>1 DEF Merged, MergedRevs
<1> QED  BY <1>1, <1>2 DEF Either

LEMMA UntouchedWire ==
  ASSUME NEW b, NEW a, NEW h, NEW g,
         LaterWire(b, a, g), Merged(b, a, h).wire = a.wire
  PROVE  WireFine(h, b, g)
<1> SUFFICES ASSUME NEW x \in Message \ g, b.wire[x] # Missing, h.wire[x] # Missing
             PROVE  b.wire[x] \subseteq h.wire[x]
  BY DEF WireFine
<1>1. a.wire[x] # Missing /\ b.wire[x] \subseteq a.wire[x]  BY DEF LaterWire
<1>2. a.wire[x] = Lines(b.wire[x], a.wire[x], h.wire[x])
  BY <1>1 DEF Merged, MergedLines
<1> QED  BY <1>1, <1>2 DEF Lines

-----------------------------------------------------------------------------
(* The merge of a fine branch takes nothing from any main later than base. *)

LEMMA MergeKeepsLedger ==
  ASSUME NEW b \in Tree, NEW m \in Tree, NEW h \in Tree, NEW g, NEW k,
         k = g \cup Removed(m, Merged(b, m, h)), Mergeable(b, m, h),
         LaterLedger(b, m, g), LedgerFine(h, b, g)
  PROVE  LaterLedger(m, Merged(b, m, h), k)
<1> SUFFICES ASSUME "ledger" \notin k, m.ledger # Missing
             PROVE  /\ Merged(b, m, h).ledger # Missing
                    /\ Merged(b, m, h).ledger \subseteq m.ledger
  BY DEF LaterLedger
<1>1. Merged(b, m, h).ledger # Missing  BY DEF Removed
<1>2. Merged(b, m, h).ledger = MergedLines(b.ledger, m.ledger, h.ledger)  BY DEF Merged
<1>3. CASE b.ledger # Missing /\ h.ledger # Missing
  BY <1>1, <1>2, <1>3 DEF LedgerFine, MergedLines, Lines
<1>4. CASE ~(b.ledger # Missing /\ h.ledger # Missing)
  <2>1. Missing \in {b.ledger, m.ledger, h.ledger}  BY <1>4
  <2>2. ~Clash(b.ledger, m.ledger, h.ledger)  BY <2>1 DEF Mergeable
  <2>3. Merged(b, m, h).ledger = m.ledger
    BY <1>1, <1>2, <1>4, <2>1, <2>2 DEF MergedLines, Either, Clash
  <2> QED  BY <1>1, <2>3
<1> QED  BY <1>3, <1>4

LEMMA MergeKeepsRevs ==
  ASSUME NEW b \in Tree, NEW m \in Tree, NEW h \in Tree, NEW g, NEW k,
         k = g \cup Removed(m, Merged(b, m, h)), Mergeable(b, m, h),
         LaterRevs(b, m, g), RevsFine(h, b, g)
  PROVE  LaterRevs(m, Merged(b, m, h), k)
<1> SUFFICES ASSUME NEW x \in Module \ k, m.revs[x] # Missing
             PROVE  /\ Merged(b, m, h).revs[x] # Missing
                    /\ \A d \in Date : m.revs[x][d] # Absent =>
                         Merged(b, m, h).revs[x][d] = m.revs[x][d]
  BY DEF LaterRevs
<1>1. Merged(b, m, h).revs[x] # Missing  BY DEF Removed
<1>2. Merged(b, m, h).revs[x] = MergedRevs(b.revs[x], m.revs[x], h.revs[x])  BY DEF Merged
<1>3. x \in Module \ g  OBVIOUS
<1>4. CASE b.revs[x] # Missing /\ h.revs[x] # Missing
  <2> SUFFICES ASSUME NEW d \in Date, m.revs[x][d] # Absent
               PROVE  Merged(b, m, h).revs[x][d] = m.revs[x][d]
    BY <1>1
  <2>1. Merged(b, m, h).revs[x][d] = Either(b.revs[x][d], m.revs[x][d], h.revs[x][d])
    BY <1>2, <1>4 DEF MergedRevs
  <2>2. CASE b.revs[x][d] = Absent
    BY <2>1, <2>2 DEF Either
  <2>3. CASE b.revs[x][d] # Absent
    <3>1. m.revs[x][d] = b.revs[x][d]  BY <1>3, <1>4, <2>3 DEF LaterRevs
    <3>2. h.revs[x][d] = b.revs[x][d]  BY <1>3, <1>4, <2>3 DEF RevsFine
    <3> QED  BY <2>1, <3>1, <3>2 DEF Either
  <2> QED  BY <2>2, <2>3
<1>5. CASE ~(b.revs[x] # Missing /\ h.revs[x] # Missing)
  <2>1. Missing \in {b.revs[x], m.revs[x], h.revs[x]}  BY <1>5
  <2>2. ~Clash(b.revs[x], m.revs[x], h.revs[x])  BY <2>1 DEF Mergeable
  <2>3. Merged(b, m, h).revs[x] = m.revs[x]
    BY <1>1, <1>2, <1>5, <2>1, <2>2 DEF MergedRevs, Either, Clash
  <2> QED  BY <1>1, <2>3
<1> QED  BY <1>4, <1>5

LEMMA MergeKeepsWire ==
  ASSUME NEW b \in Tree, NEW m \in Tree, NEW h \in Tree, NEW g, NEW k,
         k = g \cup Removed(m, Merged(b, m, h)), Mergeable(b, m, h),
         LaterWire(b, m, g), WireFine(h, b, g)
  PROVE  LaterWire(m, Merged(b, m, h), k)
<1> SUFFICES ASSUME NEW x \in Message \ k, m.wire[x] # Missing
             PROVE  /\ Merged(b, m, h).wire[x] # Missing
                    /\ m.wire[x] \subseteq Merged(b, m, h).wire[x]
  BY DEF LaterWire
<1>1. Merged(b, m, h).wire[x] # Missing  BY DEF Removed
<1>2. Merged(b, m, h).wire[x] = MergedLines(b.wire[x], m.wire[x], h.wire[x])  BY DEF Merged
<1>3. x \in Message \ g  OBVIOUS
<1>4. CASE b.wire[x] # Missing /\ h.wire[x] # Missing
  <2>1. b.wire[x] \subseteq h.wire[x]  BY <1>3, <1>4 DEF WireFine
  <2>2. Merged(b, m, h).wire[x] = Lines(b.wire[x], m.wire[x], h.wire[x])
    BY <1>2, <1>4 DEF MergedLines
  <2> QED  BY <1>1, <2>1, <2>2 DEF Lines
<1>5. CASE ~(b.wire[x] # Missing /\ h.wire[x] # Missing)
  <2>1. Missing \in {b.wire[x], m.wire[x], h.wire[x]}  BY <1>5
  <2>2. ~Clash(b.wire[x], m.wire[x], h.wire[x])  BY <2>1 DEF Mergeable
  <2>3. Merged(b, m, h).wire[x] = m.wire[x]
    BY <1>1, <1>2, <1>5, <2>1, <2>2 DEF MergedLines, Either, Clash
  <2> QED  BY <1>1, <2>3
<1> QED  BY <1>4, <1>5

LEMMA MergeKeeps ==
  ASSUME NEW b \in Tree, NEW m \in Tree, NEW h \in Tree, NEW g, NEW k,
         k = g \cup Removed(m, Merged(b, m, h)), Mergeable(b, m, h), Later(b, m, g),
         LedgerFine(h, b, g), RevsFine(h, b, g), WireFine(h, b, g)
  PROVE  Later(m, Merged(b, m, h), k)
BY MergeKeepsLedger, MergeKeepsRevs, MergeKeepsWire DEF Later

-----------------------------------------------------------------------------
(* Type correctness: every tree in the state is one. *)
THEOREM TypeCorrect == Spec => []TypeOK
<1>1. Init => TypeOK
  <2> SUFFICES ASSUME Init  PROVE TypeOK
    OBVIOUS
  <2>1. Pending \in Results  BY DEF Pending, Result, Results, Job
  <2>2. [p \in PR |-> Blank] \in [PR -> Tree]  BY BlankTree
  <2>3. commits \in 0..MaxCommits  BY MainAssumption DEF Init
  <2> QED  BY <2>1, <2>2, <2>3 DEF Init, TypeOK
<1>2. TypeOK /\ [Next]_vars => TypeOK'
  <2> SUFFICES ASSUME TypeOK, [Next]_vars  PROVE TypeOK'
    OBVIOUS
  <2> USE DEF TypeOK
  <2>1. ASSUME NEW p \in PR, NEW tip \in Tree, NEW seen \in Tree, NewTip(p, tip, seen)
        PROVE  /\ main' \in Tree /\ base' \in [PR -> Tree] /\ head' \in [PR -> Tree]
               /\ at' \in [PR -> Tree] /\ res' \in [PR -> Results]
               /\ gone' \subseteq Module \cup Message \cup {"ledger"} /\ stale' \in BOOLEAN
    <3>1. Pending \in Results  BY DEF Pending, Result, Results, Job
    <3> QED  BY <2>1, <3>1 DEF NewTip
  <2>2. ASSUME NEW p \in PR, NEW who \in {"human", "bot"}, Open(p, who)  PROVE TypeOK'
    <3>1. PICK tip \in Tree : NewTip(p, tip, main)  BY <2>2 DEF Open, Edits
    <3>2. commits' \in 0..MaxCommits  BY <2>2, MainAssumption DEF Open
    <3> QED  BY <2>1, <2>2, <3>1, <3>2 DEF Open
  <2>3. ASSUME NEW p \in PR, Push(p)  PROVE TypeOK'
    <3>1. PICK tip \in Tree : NewTip(p, tip, base[p])  BY <2>3 DEF Push, Edits
    <3>2. commits' \in 0..MaxCommits  BY <2>3, MainAssumption DEF Push
    <3> QED  BY <2>1, <2>3, <3>1, <3>2 DEF Push
  <2>4. ASSUME NEW p \in PR, Update(p)  PROVE TypeOK'
    <3>1. Merged(base[p], main, head[p]) \in Tree  BY MergedTree
    <3> QED  BY <2>1, <2>4, <3>1 DEF Update
  <2>5. ASSUME NEW p \in PR, NEW results \in Results, Reports(p, results)  PROVE TypeOK'
    BY <2>5 DEF Reports
  <2>6. ASSUME NEW p \in PR, Changes(p)  PROVE TypeOK'
    <3>1. PICK result \in {"success", "failure"} :
            Reports(p, [j \in Job |->
              IF j = "changes" THEN result
              ELSE IF result = "success" /\ Wanted(p, j) THEN "pending" ELSE "skipped"])
      BY <2>6 DEF Changes
    <3>2. [j \in Job |->
            IF j = "changes" THEN result
            ELSE IF result = "success" /\ Wanted(p, j) THEN "pending" ELSE "skipped"] \in Results
      BY DEF Result, Results, Job
    <3> QED  BY <2>5, <3>1, <3>2
  <2>7. ASSUME NEW p \in PR, Rerun(p)  PROVE TypeOK'
    BY <2>5, <2>7 DEF Rerun, Pending, Result, Results, Job
  <2>8. ASSUME NEW p \in PR, NEW jobs, Finish(p, jobs)  PROVE TypeOK'
    <3> DEFINE told == [j \in Job |-> IF j \in jobs /\ res[p][j] = "pending"
                                      THEN "success" ELSE res[p][j]]
    <3>0. /\ told \in [Job -> Result]
          /\ told["changes"] = "success"
      BY <2>8 DEF Result, Results, Finish, Job
    <3>1. told \in Results
      BY <3>0 DEF Results
    <3> QED  BY <2>5, <2>8, <3>1 DEF Finish
  <2>9. ASSUME NEW p \in PR, Leave(p)
        PROVE  /\ open' \subseteq PR /\ author' \in [PR -> {"human", "bot"}]
               /\ base' \in [PR -> Tree] /\ head' \in [PR -> Tree] /\ at' \in [PR -> Tree]
               /\ res' \in [PR -> Results] /\ commits' \in 0..MaxCommits
    <3>1. Pending \in Results  BY DEF Pending, Result, Results, Job
    <3> QED  BY <2>9, <3>1, BlankTree DEF Leave
  <2>10. ASSUME NEW p \in PR, Merge(p)  PROVE TypeOK'
    <3>1. main' \in Tree  BY <2>10, MergedTree DEF Merge
    <3>2. gone' \subseteq Module \cup Message \cup {"ledger"}  BY <2>10 DEF Merge, Removed
    <3>3. stale' \in BOOLEAN  BY <2>10 DEF Merge
    <3> QED  BY <2>9, <2>10, <3>1, <3>2, <3>3 DEF Merge
  <2>11. ASSUME NEW p \in PR, Close(p)  PROVE TypeOK'
    BY <2>9, <2>11 DEF Close
  <2>12. CASE UNCHANGED vars
    BY <2>12 DEF vars, branches
  <2> QED  BY <2>2, <2>3, <2>4, <2>6, <2>7, <2>8, <2>10, <2>11, <2>12 DEF Next
<1> QED  BY <1>1, <1>2, PTL DEF Spec

-----------------------------------------------------------------------------
(* What the gates know, carried from step to step. *)

(* A pull request that a step leaves alone keeps what its run found, however *)
(* main moves on.                                                            *)
LEMMA OthersKeep ==
  ASSUME TypeOK, NEW q \in open, Ordered(q), Judged(q),
         gone \subseteq gone', Later(main, main', gone'),
         author'[q] = author[q], base'[q] = base[q], head'[q] = head[q],
         at'[q] = at[q], res'[q] = res[q]
  PROVE  (Ordered(q) /\ Judged(q))'
<1>1. Later(base[q], at[q], gone')
  BY LaterTransitive, LaterReflexive DEF Ordered
<1>2. Later(at[q], main', gone')
  BY LaterTransitive DEF Ordered
<1>3. Ordered(q)'  BY <1>1, <1>2 DEF Ordered
<1>4. Candidate(q)' = Candidate(q)  BY DEF Candidate
<1>5. \A j : Wanted(q, j)' <=> Wanted(q, j)
  BY <1>4 DEF Wanted, Release, Code, Changed
<1>6. Judged(q)'
  <2>1. LedgerFine(head[q], base[q], gone) => LedgerFine(head[q], base[q], gone')
    BY FineInFewerFiles
  <2>2. RevsFine(head[q], base[q], gone) => RevsFine(head[q], base[q], gone')
    BY FineInFewerFiles
  <2>3. WireFine(head[q], base[q], gone) => WireFine(head[q], base[q], gone')
    BY FineInFewerFiles
  <2> QED  BY <1>4, <1>5, <2>1, <2>2, <2>3 DEF Judged
<1> QED  BY <1>3, <1>6

(* What ci-ok's acceptance says of a branch, gates run or skipped. *)
LEMMA AcceptedIsFine ==
  ASSUME TypeOK, NEW p \in open, Ordered(p), Judged(p), CiOk(p)
  PROVE  /\ LedgerFine(head[p], base[p], gone)
         /\ RevsFine(head[p], base[p], gone)
         /\ WireFine(head[p], base[p], gone)
         /\ Clean(at[p]) => Clean(Candidate(p))
         /\ OneFieldPerTag(at[p]) => OneFieldPerTag(Candidate(p))
<1>1. res[p]["changes"] = "success"  BY DEF CiOk, Judged, Job
<1>2. /\ res[p]["yang"] \in {"success", "skipped"}
      /\ res[p]["buf"] \in {"success", "skipped"}
      /\ res[p]["go"] \in {"success", "skipped"}
  BY DEF CiOk, Job
<1>3. ASSUME NEW k \in Component, k \notin Changed(p)
      PROVE  Merged(base[p], at[p], head[p])[k] = at[p][k]
  BY <1>3 DEF Changed, Candidate
<1>4. /\ LedgerFine(head[p], base[p], gone)
      /\ RevsFine(head[p], base[p], gone)
      /\ Clean(at[p]) => Clean(Candidate(p))
  <2>1. CASE res[p]["yang"] = "success"
    BY <1>1, <2>1 DEF Judged
  <2>2. CASE res[p]["yang"] = "skipped"
    <3>1. Changed(p) \subseteq {"changelog", "manifest"}
      BY <1>1, <2>2 DEF Judged, Wanted, Release, Job
    <3>2. /\ Merged(base[p], at[p], head[p]).ledger = at[p].ledger
          /\ Merged(base[p], at[p], head[p]).revs = at[p].revs
          /\ Merged(base[p], at[p], head[p]).bad = at[p].bad
          /\ Merged(base[p], at[p], head[p]).used = at[p].used
          /\ Merged(base[p], at[p], head[p]).docs = at[p].docs
      BY <1>3, <3>1 DEF Component
    <3>3. LedgerFine(head[p], base[p], gone)
      BY <3>2, UntouchedLedger DEF Ordered, Later
    <3>4. RevsFine(head[p], base[p], gone)
      BY <3>2, UntouchedRevs DEF Ordered, Later
    <3>5. Clean(at[p]) => Clean(Candidate(p))
      BY <3>2 DEF Clean, Naming, Conventions, Violations, Exceptions, Candidate
    <3> QED  BY <3>3, <3>4, <3>5
  <2> QED  BY <1>2, <2>1, <2>2
<1>5. WireFine(head[p], base[p], gone)
  <2>1. CASE res[p]["buf"] = "success"
    BY <1>1, <2>1 DEF Judged
  <2>2. CASE res[p]["buf"] = "skipped"
    <3>1. "wire" \notin Changed(p)
      BY <1>1, <2>2 DEF Judged, Wanted, Release, Code, Job
    <3>2. Merged(base[p], at[p], head[p]).wire = at[p].wire
      BY <1>3, <3>1 DEF Component
    <3> QED  BY <3>2, UntouchedWire DEF Ordered, Later
  <2> QED  BY <1>2, <2>1, <2>2
<1>6. OneFieldPerTag(at[p]) => OneFieldPerTag(Candidate(p))
  <2>1. CASE res[p]["go"] = "success"
    BY <1>1, <2>1 DEF Judged
  <2>2. CASE res[p]["go"] = "skipped"
    <3>1. "wire" \notin Changed(p)
      BY <1>1, <2>2 DEF Judged, Wanted, Release, Code, Job
    <3>2. Candidate(p).wire = at[p].wire
      BY <1>3, <3>1 DEF Component, Candidate
    <3> QED  BY <3>2 DEF OneFieldPerTag
  <2> QED  BY <1>2, <2>1, <2>2
<1> QED  BY <1>4, <1>5, <1>6

(* Only Merge moves main, and never back. *)
LEMMA MainGoesOn ==
  ASSUME TypeOK, Held, [Next]_vars
  PROVE  gone \subseteq gone' /\ Later(main, main', gone')
<1>1. CASE main' = main /\ gone' = gone
  BY <1>1, LaterReflexive
<1>2. ASSUME NEW p \in PR, Merge(p)  PROVE gone \subseteq gone' /\ Later(main, main', gone')
  <2>1. /\ p \in open /\ CiOk(p) /\ Mergeable(base[p], main, head[p])
        /\ main' = Merged(base[p], main, head[p])
        /\ gone' = gone \cup Removed(main, Merged(base[p], main, head[p]))
    BY <1>2 DEF Merge
  <2>2. Ordered(p) /\ Judged(p)  BY <2>1 DEF Held
  <2>3. /\ LedgerFine(head[p], base[p], gone) /\ RevsFine(head[p], base[p], gone)
        /\ WireFine(head[p], base[p], gone)
    BY <2>1, <2>2, AcceptedIsFine
  <2>4. Later(base[p], main, gone)  BY <2>2, LaterTransitive DEF Ordered
  <2>5. base[p] \in Tree /\ main \in Tree /\ head[p] \in Tree  BY DEF TypeOK
  <2>6. Later(main, Merged(base[p], main, head[p]), gone')
    BY <2>1, <2>3, <2>4, <2>5, MergeKeeps
  <2> QED  BY <2>1, <2>6
<1> QED
  BY <1>1, <1>2 DEF Next, Open, Push, Update, Changes, Rerun, Finish, Close, Reports, NewTip,
                    vars, branches

LEMMA HeldStep ==
  ASSUME TypeOK, Held, [Next]_vars  PROVE Held'
<1> USE DEF TypeOK, Held, Results
<1>1. gone \subseteq gone' /\ Later(main, main', gone')  BY MainGoesOn
<1>2. ASSUME NEW q \in open,
             author'[q] = author[q], base'[q] = base[q], head'[q] = head[q],
             at'[q] = at[q], res'[q] = res[q]
      PROVE  (Ordered(q) /\ Judged(q))'
  BY <1>1, <1>2, OthersKeep
<1>3. ASSUME NEW p \in PR, NEW tip, NEW seen, NewTip(p, tip, seen),
             Later(seen, main, gone), open' \subseteq open \cup {p},
             \A q \in PR \ {p} : author'[q] = author[q]
      PROVE  Held'
  <2>1. /\ base'[p] = seen /\ at'[p] = main /\ main' = main /\ gone' = gone
        /\ res'[p] = Pending
    BY <1>3 DEF NewTip
  <2>2. Ordered(p)'  BY <1>3, <2>1, LaterReflexive DEF Ordered
  <2>3. Judged(p)'  BY <2>1 DEF Judged, Pending, Job
  <2>4. ASSUME NEW q \in open' \ {p}  PROVE (Ordered(q) /\ Judged(q))'
    <3>1. q \in open /\ q \in PR \ {p}  BY <1>3
    <3> QED  BY <1>2, <1>3, <3>1 DEF NewTip
  <2> QED  BY <2>2, <2>3, <2>4
<1>4. ASSUME NEW p \in open, NEW results \in [Job -> Result], Reports(p, results),
             Judged(p)'
      PROVE  Held'
  <2>1. /\ main' = main /\ gone' = gone /\ open' = open /\ author' = author
        /\ base' = base /\ head' = head /\ at' = at
    BY <1>4 DEF Reports
  <2>2. Ordered(p)'  BY <2>1 DEF Ordered
  <2>3. ASSUME NEW q \in open \ {p}  PROVE (Ordered(q) /\ Judged(q))'
    <3>1. res'[q] = res[q]  BY <1>4 DEF Reports
    <3> QED  BY <1>2, <2>1, <3>1
  <2> QED  BY <1>4, <2>1, <2>2, <2>3
<1>5. ASSUME NEW p \in PR, Leave(p)  PROVE Held'
  <2> SUFFICES ASSUME NEW q \in open'  PROVE (Ordered(q) /\ Judged(q))'
    OBVIOUS
  <2>1. q \in open /\ q # p  BY <1>5 DEF Leave
  <2> QED  BY <1>2, <1>5, <2>1 DEF Leave
<1>6. ASSUME NEW p \in PR, NEW who, Open(p, who)  PROVE Held'
  <2>1. PICK tip \in Tree : NewTip(p, tip, main)  BY <1>6 DEF Open, Edits
  <2>2. open' \subseteq open \cup {p} /\ \A q \in PR \ {p} : author'[q] = author[q]
    BY <1>6 DEF Open
  <2> QED  BY <1>3, <2>1, <2>2, LaterReflexive
<1>7. ASSUME NEW p \in PR, Push(p)  PROVE Held'
  <2>1. PICK tip \in Tree : NewTip(p, tip, base[p])  BY <1>7 DEF Push, Edits
  <2>2. p \in open /\ open' = open /\ author' = author  BY <1>7 DEF Push
  <2>3. Later(base[p], main, gone)  BY <2>2, LaterTransitive DEF Ordered
  <2> QED  BY <1>3, <2>1, <2>2, <2>3
<1>8. ASSUME NEW p \in PR, Update(p)  PROVE Held'
  <2>1. NewTip(p, Merged(base[p], main, head[p]), main)  BY <1>8 DEF Update
  <2>2. open' = open /\ author' = author  BY <1>8 DEF Update
  <2> QED  BY <1>3, <2>1, <2>2, LaterReflexive
<1>9. ASSUME NEW p \in PR, Changes(p)  PROVE Held'
  <2> DEFINE told(result) == [j \in Job |->
               IF j = "changes" THEN result
               ELSE IF result = "success" /\ Wanted(p, j) THEN "pending" ELSE "skipped"]
  <2>1. PICK result \in {"success", "failure"} : Reports(p, told(result))
    BY <1>9 DEF Changes
  <2>2. p \in open  BY <1>9 DEF Changes, Running
  <2>3. told(result) \in [Job -> Result]  BY DEF Result
  <2>4. /\ res'[p] = told(result) /\ base' = base /\ head' = head /\ at' = at
        /\ author' = author /\ gone' = gone
    BY <2>1 DEF Reports
  <2>5. \A j : Wanted(p, j)' <=> Wanted(p, j)
    BY <2>4 DEF Wanted, Release, Code, Changed, Candidate
  <2>6. /\ res'[p]["changes"] = result
        /\ \A j \in Job \ {"changes"} : res'[p][j] # "success"
        /\ \A j \in Job \ {"changes"} : result = "success" /\ res'[p][j] = "skipped" => ~Wanted(p, j)
    BY <2>4 DEF Job
  <2>7. Judged(p)'  BY <2>5, <2>6 DEF Judged, Job
  <2> HIDE DEF told
  <2> QED  BY <1>4, <2>1, <2>2, <2>3, <2>7
<1>10. ASSUME NEW p \in PR, Rerun(p)  PROVE Held'
  <2>1. Reports(p, Pending) /\ p \in open  BY <1>10 DEF Rerun, Running
  <2>2. res'[p] = Pending  BY <2>1 DEF Reports
  <2>3. Judged(p)'  BY <2>2 DEF Judged, Pending, Job
  <2>4. Pending \in [Job -> Result]  BY DEF Pending, Result
  <2> QED  BY <1>4, <2>1, <2>3, <2>4
<1>11. ASSUME NEW p \in PR, NEW jobs, Finish(p, jobs)  PROVE Held'
  <2> DEFINE told == [j \in Job |-> IF j \in jobs /\ res[p][j] = "pending"
                                    THEN "success" ELSE res[p][j]]
  <2>1. /\ p \in open /\ res[p]["changes"] = "success" /\ Reports(p, told)
        /\ \A j \in jobs : res[p][j] = "pending" => Passes(p, j)
    BY <1>11 DEF Finish, Running
  <2>2. told \in [Job -> Result]  BY <2>1 DEF Result
  <2>3. /\ res'[p] = told /\ base' = base /\ head' = head /\ at' = at
        /\ author' = author /\ gone' = gone
    BY <2>1 DEF Reports
  <2>4. Candidate(p)' = Candidate(p) /\ \A j : Wanted(p, j)' <=> Wanted(p, j)
    BY <2>3 DEF Wanted, Release, Code, Changed, Candidate
  <2>5. Ordered(p) /\ Judged(p)  BY <2>1
  <2>6. base[p] \in Tree /\ at[p] \in Tree /\ main \in Tree /\ head[p] \in Tree  OBVIOUS
  <2>7. ASSUME told["yang"] = "success"
        PROVE  /\ LedgerFine(head[p], base[p], gone)
               /\ RevsFine(head[p], base[p], gone)
               /\ Clean(Candidate(p))
    <3>1. CASE res[p]["yang"] = "success"
      BY <2>1, <2>5, <3>1 DEF Judged
    <3>2. CASE res[p]["yang"] # "success"
      <4>1. Passes(p, "yang")  BY <2>1, <2>7, <3>2 DEF Job
      <4>2. Yang(Candidate(p), main)  BY <4>1 DEF Passes
      <4>3. LedgerFine(head[p], base[p], gone)
        BY <2>5, <2>6, <4>2, GrowthGate DEF Yang, Candidate, Ordered, Later
      <4>4. RevsFine(head[p], base[p], gone)
        BY <2>5, <2>6, <4>2, HistoryGate DEF Yang, Candidate, Ordered, Later
      <4> QED  BY <4>2, <4>3, <4>4 DEF Yang
    <3> QED  BY <3>1, <3>2
  <2>8. ASSUME told["buf"] = "success"  PROVE WireFine(head[p], base[p], gone)
    <3>1. CASE res[p]["buf"] = "success"
      BY <2>1, <2>5, <3>1 DEF Judged
    <3>2. CASE res[p]["buf"] # "success"
      <4>1. Passes(p, "buf")  BY <2>1, <2>8, <3>2 DEF Job
      <4>2. BufBreaking(Candidate(p), main)  BY <4>1 DEF Passes
      <4> QED  BY <2>5, <2>6, <4>2, BreakingGate DEF Candidate, Ordered, Later
    <3> QED  BY <3>1, <3>2
  <2>8a. ASSUME told["go"] = "success"  PROVE OneFieldPerTag(Candidate(p))
    <3>1. CASE res[p]["go"] = "success"
      BY <2>1, <2>5, <3>1 DEF Judged
    <3>2. CASE res[p]["go"] # "success"
      <4>1. Passes(p, "go")  BY <2>1, <2>8a, <3>2 DEF Job
      <4> QED  BY <4>1 DEF Passes
    <3> QED  BY <3>1, <3>2
  <2>9. /\ told["changes"] # "skipped"
        /\ \A j \in Job \ {"changes"} : told[j] = "skipped" => ~Wanted(p, j)
    BY <2>1, <2>5 DEF Judged, Job
  <2>10. Judged(p)'
    <3> HIDE DEF told
    <3> QED  BY <2>3, <2>4, <2>7, <2>8, <2>8a, <2>9 DEF Judged
  <2> HIDE DEF told
  <2> QED  BY <1>4, <2>1, <2>2, <2>10
<1>12. CASE UNCHANGED vars
  <2>1. /\ main' = main /\ gone' = gone /\ open' = open /\ author' = author /\ base' = base
        /\ head' = head /\ at' = at /\ res' = res
    BY <1>12 DEF vars, branches
  <2> QED  BY <1>2, <2>1
<1> QED
  BY <1>5, <1>6, <1>7, <1>8, <1>9, <1>10, <1>11, <1>12 DEF Next, Merge, Close

LEMMA CleanStep ==
  ASSUME TypeOK, Held, FreshMainIsClean, [Next]_vars  PROVE FreshMainIsClean'
<1>1. CASE main' = main /\ stale' = stale
  BY <1>1 DEF FreshMainIsClean, Clean, Naming, Conventions, Violations, Exceptions,
             OneFieldPerTag
<1>2. ASSUME NEW p \in PR, Merge(p)  PROVE FreshMainIsClean'
  <2> SUFFICES ASSUME ~stale'  PROVE (Clean(main) /\ OneFieldPerTag(main))'
    BY DEF FreshMainIsClean
  <2>1. /\ p \in open /\ CiOk(p) /\ at[p] = main /\ ~stale
        /\ main' = Merged(base[p], main, head[p])
    BY <1>2 DEF Merge, TypeOK
  <2>2. Clean(at[p]) /\ OneFieldPerTag(at[p])  BY <2>1 DEF FreshMainIsClean
  <2>3. Clean(Candidate(p)) /\ OneFieldPerTag(Candidate(p))
    BY <2>1, <2>2, AcceptedIsFine DEF Held
  <2>4. main' = Candidate(p)  BY <2>1 DEF Candidate
  <2> QED  BY <2>3, <2>4 DEF Clean, Naming, Conventions, Violations, Exceptions, OneFieldPerTag
<1> QED
  BY <1>1, <1>2 DEF Next, Open, Push, Update, Changes, Rerun, Finish, Close, Reports, NewTip,
                    vars, branches

(* The inductive invariant: what was passed, against whatever main, binds  *)
(* the branch to its base.                                                 *)
THEOREM InvHolds == Spec => []Inv
<1>1. Init => Held /\ FreshMainIsClean
  BY DEF Init, Held, FreshMainIsClean
<1>2. Held /\ FreshMainIsClean /\ TypeOK /\ [Next]_vars => (Held /\ FreshMainIsClean)'
  BY HeldStep, CleanStep
<1> QED  BY <1>1, <1>2, TypeCorrect, PTL DEF Spec, Inv

(* The list of exceptions only shrinks, merges of stale runs included. *)
THEOREM LedgerShrinks == Spec => LedgerOnlyShrinks
<1>1. Inv /\ [Next]_vars =>
        [main.ledger # Missing /\ "ledger" \notin gone' => main'.ledger \subseteq main.ledger]_vars
  BY MainGoesOn DEF Inv, Later, LaterLedger
<1> QED  BY <1>1, InvHolds, PTL DEF Spec, LedgerOnlyShrinks

(* A revision that is on main stays on it, word for word, with its file. *)
THEOREM RevisionsStay == Spec => RevisionsSurvive
<1>1. Inv /\ [Next]_vars =>
        [\A m \in Module \ gone' : main.revs[m] # Missing =>
           \A d \in Date : main.revs[m][d] # Absent => main'.revs[m][d] = main.revs[m][d]]_vars
  BY MainGoesOn DEF Inv, Later, LaterRevs
<1> QED  BY <1>1, InvHolds, PTL DEF Spec, RevisionsSurvive

(* However old the run, a message on main keeps its fields and its reserved *)
(* tags, until a merge removes it as a whole, which buf does not flag.      *)
THEOREM WireStays == Spec => WireSurvives
<1>1. Inv /\ [Next]_vars =>
        [\A m \in Message \ gone' : main.wire[m] # Missing =>
           main'.wire[m] # Missing /\ main.wire[m] \subseteq main'.wire[m]]_vars
  BY MainGoesOn DEF Inv, Later, LaterWire
<1> QED  BY <1>1, InvHolds, PTL DEF Spec, WireSurvives

(* A gate that ci-ok lets pass unrun had nothing in the change to look at. *)
THEOREM SkipsAreByDesign == Spec => []SkippedByDesign
<1>1. Inv => SkippedByDesign
  <2> SUFFICES ASSUME Inv, NEW p \in open, CiOk(p), NEW j \in Job, res[p][j] = "skipped"
               PROVE  \/ /\ author[p] = "bot"
                         /\ Changed(p) \cap {"ledger", "bad", "used", "docs", "revs", "wire"} = {}
                      \/ /\ j # "yang"
                         /\ Changed(p) \cap {"ledger", "bad", "used", "revs", "wire", "manifest"} = {}
    BY DEF SkippedByDesign
  <2>1. Judged(p)  BY DEF Inv, Held
  <2>2. j # "changes" /\ res[p]["changes"] = "success"
    BY <2>1 DEF Judged, CiOk, Job
  <2>3. ~Wanted(p, j)  BY <2>1, <2>2 DEF Judged
  <2>4. Release(p) \/ (j # "yang" /\ ~Code(p))  BY <2>3 DEF Wanted
  <2> QED  BY <2>4 DEF Release, Code
<1> QED  BY <1>1, InvHolds, PTL

(* While every merge goes into the main its run saw, main is clean. *)
THEOREM MainStaysClean == Spec => []FreshMainIsClean
<1>1. Inv => FreshMainIsClean  BY DEF Inv
<1> QED  BY <1>1, InvHolds, PTL
=============================================================================
