------------------------------ MODULE MainLine ------------------------------
(***************************************************************************)
(* The main branch and what guards it: pull requests, the CI run of each   *)
(* (.github/workflows/ci.yml) and the two gates that compare a change with *)
(* its base branch, the ledger of convention exceptions                    *)
(* (tools/check-conventions) and the revision history                      *)
(* (tools/check-revision-history).                                         *)
(*                                                                         *)
(* A run is about the merge of the branch with main as it was when the     *)
(* branch was pushed; its jobs fetch main again, each when it starts; the  *)
(* branch is merged into main as it is later still.                        *)
(***************************************************************************)
EXTENDS Naturals

CONSTANTS
  PR,         \* open pull requests, at most
  Key,        \* convention exceptions: rule, module and path
  Line,       \* lines of documents with a forbidden name
  Module,     \* YANG files
  Date,       \* revision dates
  Text,       \* texts of a revision statement
  Message,    \* messages of the wire contract
  Item,       \* their fields, live or reserved, each with its tag:
  SameTag,    \* SameTag[f] are the items that have the tag of f
  Missing,    \* a file, or a message, that does not exist
  Parts,      \* bound: the parts of the tree that one commit edits together
  MaxCommits  \* bound: commits made on branches

Absent == "absent"   \* a revision a module does not have

ASSUME MainAssumption ==
  /\ \A s \in SUBSET Key : s # Missing
  /\ \A f \in [Date -> Text \cup {Absent}] : f # Missing
  /\ \A s \in SUBSET Item : s # Missing
  /\ SameTag \in [Item -> SUBSET Item]
  /\ Absent \notin Text /\ Module \cap {"ledger"} = {}
  /\ Message \cap (Module \cup {"ledger"}) = {}
  /\ MaxCommits \in Nat

(* What the gates read of a commit.  A definition of bad breaks a           *)
(* convention once a module uses it: a leaf of a grouping, or an            *)
(* enumeration that is read from a device.                                  *)
Tree == [ledger : {Missing} \cup SUBSET Key, bad : SUBSET Key, used : SUBSET Key,
         docs : SUBSET Line,
         revs : [Module -> {Missing} \cup [Date -> Text \cup {Absent}]],
         wire : [Message -> {Missing} \cup SUBSET Item],
         changelog : BOOLEAN, manifest : BOOLEAN]
Component == {"ledger", "bad", "used", "docs", "revs", "wire", "changelog", "manifest"}

Job == {"changes", "go", "buf", "yang", "conformance"}
Result == {"pending", "success", "failure", "skipped"}
Pending == [j \in Job |-> "pending"]

VARIABLES
  main,    \* the tip of main
  open,    \* the pull requests that are open
  author,  \* "bot" (release-please, in this repository), or "human"
  base,    \* the commit of main the branch has last seen
  head,    \* the tip of the branch
  at,      \* the tip of main when the branch was last pushed
  res,     \* the result of each job of the run of that push
  commits, \* commits made on branches so far
  gone,    \* the files and messages a merge has ever removed from main
  stale    \* a merge has ever gone into a main its run did not see

branches == <<open, author, base, head, at, res>>
vars == <<main, branches, commits, gone, stale>>

Blank == [ledger |-> Missing, bad |-> {}, used |-> {}, docs |-> {},
          revs |-> [m \in Module |-> Missing], wire |-> [m \in Message |-> Missing],
          changelog |-> FALSE, manifest |-> FALSE]

-----------------------------------------------------------------------------
(* git: the merge of ours and theirs, which both come from old.  Lines are  *)
(* merged one by one, a file or a message that was added or removed as a whole. *)

Clash(old, ours, theirs) == ours # old /\ theirs # old /\ ours # theirs
Either(old, ours, theirs) == IF ours = old THEN theirs ELSE ours
Lines(old, ours, theirs) == (ours \cap theirs) \cup (ours \ old) \cup (theirs \ old)

Mergeable(old, ours, theirs) ==
  /\ Missing \in {old.ledger, ours.ledger, theirs.ledger} =>
       ~Clash(old.ledger, ours.ledger, theirs.ledger)
  /\ \A m \in Module :
       IF Missing \in {old.revs[m], ours.revs[m], theirs.revs[m]}
       THEN ~Clash(old.revs[m], ours.revs[m], theirs.revs[m])
       ELSE \A d \in Date : ~Clash(old.revs[m][d], ours.revs[m][d], theirs.revs[m][d])
  /\ \A m \in Message : Missing \in {old.wire[m], ours.wire[m], theirs.wire[m]} =>
       ~Clash(old.wire[m], ours.wire[m], theirs.wire[m])

(* The ledger, or one message. *)
MergedLines(old, ours, theirs) ==
  IF Missing \in {old, ours, theirs}
  THEN Either(old, ours, theirs) ELSE Lines(old, ours, theirs)

MergedRevs(old, ours, theirs) ==
  IF Missing \in {old, ours, theirs} THEN Either(old, ours, theirs)
  ELSE [d \in Date |-> Either(old[d], ours[d], theirs[d])]

Merged(old, ours, theirs) ==
  [ledger |-> MergedLines(old.ledger, ours.ledger, theirs.ledger),
   bad    |-> Lines(old.bad, ours.bad, theirs.bad),
   used   |-> Lines(old.used, ours.used, theirs.used),
   docs   |-> Lines(old.docs, ours.docs, theirs.docs),
   revs   |-> [m \in Module |-> MergedRevs(old.revs[m], ours.revs[m], theirs.revs[m])],
   wire   |-> [m \in Message |-> MergedLines(old.wire[m], ours.wire[m], theirs.wire[m])],
   changelog |-> Either(old.changelog, ours.changelog, theirs.changelog),
   manifest  |-> Either(old.manifest, ours.manifest, theirs.manifest)]

-----------------------------------------------------------------------------
(* The gates, on a tree and the tip of main they fetch. *)

(* readExceptions: a missing file is an empty list. *)
Exceptions(t) == IF t.ledger = Missing THEN {} ELSE t.ledger

(* compare: no violation that is not listed, nothing listed that is none. *)
Violations(t) == t.bad \cap t.used
Conventions(t) == Violations(t) = Exceptions(t)

(* check-naming, which reads the documents too. *)
Naming(t) == t.docs = {}
Clean(t) == Conventions(t) /\ Naming(t)

(* Mistake: an empty list is taken for a missing one. *)
GrowthOfSome(t, tip) == Exceptions(tip) # {} => Exceptions(t) \subseteq tip.ledger

(* checkGrowth, which the workflow skips when main has no ledger. *)
Growth(t, tip) == tip.ledger # Missing => Exceptions(t) \subseteq tip.ledger

(* Mistake: a date that is still there is a revision that is still there. *)
DatesKept(t, tip) ==
  \A m \in Module : Missing \notin {t.revs[m], tip.revs[m]} =>
    \A d \in Date : tip.revs[m][d] # Absent => t.revs[m][d] # Absent

(* check-revision-history: files in both, every revision of the tip. *)
RevisionHistory(t, tip) ==
  \A m \in Module : Missing \notin {t.revs[m], tip.revs[m]} =>
    \A d \in Date : tip.revs[m][d] # Absent => t.revs[m][d] = tip.revs[m][d]

(* buf breaking: a message in both keeps its fields and reserved tags.      *)
(* WIRE_JSON has no rule for a message that is gone as a whole.             *)
BufBreaking(t, tip) ==
  \A m \in Message : Missing \notin {t.wire[m], tip.wire[m]} => tip.wire[m] \subseteq t.wire[m]

(* The tests and the freshness gate: the generator refuses a message with a *)
(* tag of two fields, which two branches may have taken apart.              *)
OneFieldPerTag(t) ==
  \A m \in Message : t.wire[m] # Missing =>
    \A f \in t.wire[m] : SameTag[f] \cap t.wire[m] = {f}

Yang(t, tip) == Clean(t) /\ Growth(t, tip) /\ RevisionHistory(t, tip)

-----------------------------------------------------------------------------
(* The run of a pull request. *)

(* The merge commit it checks out, and the diff to its first parent. *)
Candidate(p) == Merged(base[p], at[p], head[p])
Changed(p) == {c \in Component : Candidate(p)[c] # at[p][c]}

(* Mistake: one document in the change makes it docs-only. *)
TouchesNoDocs(p) == Changed(p) \cap {"docs", "changelog"} = {}

(* Every path under docs/ or .claude/, or a top-level *.md: the gates that  *)
(* read no document are skipped.  An empty diff counts as code.             *)
Code(p) == Changed(p) = {} \/ ~(Changed(p) \subseteq {"docs", "changelog"})

(* Mistake: only the file list is looked at. *)
ReleaseFiles(p) == Changed(p) # {} /\ Changed(p) \subseteq {"changelog", "manifest"}

(* The release-please PR: by its files, its repository and its author. *)
Release(p) ==
  /\ Changed(p) # {} /\ Changed(p) \subseteq {"changelog", "manifest"}
  /\ author[p] = "bot"

(* Mistake: the yang gates too are skipped when only documents change. *)
WantedIfCode(p, j) == ~Release(p) /\ Code(p)

(* The if: of a job. *)
Wanted(p, j) == ~Release(p) /\ (j # "yang" => Code(p))

(* What the jobs find; the builds, the tests and the harness pass or not.   *)
Passes(p, j) ==
  CASE j = "yang" -> Yang(Candidate(p), main)
    [] j = "buf"  -> BufBreaking(Candidate(p), main)
    [] j = "go"   -> OneFieldPerTag(Candidate(p))
    [] OTHER      -> TRUE

(* Mistake: ci-ok does not need changes itself. *)
GatesOk(p) ==
  \A j \in Job \ {"changes"} : res[p][j] \in {"success", "skipped"}

(* The one required check: every job succeeded or was skipped. *)
CiOk(p) == \A j \in Job : res[p][j] \in {"success", "skipped"}

-----------------------------------------------------------------------------
Init ==
  /\ main \in {t \in Tree : Clean(t) /\ OneFieldPerTag(t) /\ t.ledger # Missing /\ ~t.changelog /\ ~t.manifest}
  /\ open = {} /\ author = [p \in PR |-> "human"]
  /\ base = [p \in PR |-> Blank] /\ head = base /\ at = base
  /\ res = [p \in PR |-> Pending] /\ commits = 0 /\ gone = {} /\ stale = FALSE

(* A commit of a human; release-please's edit its two files. *)
Edits(t, who) ==
  {u \in Tree : /\ u # t
                /\ \E part \in IF who = "bot" THEN {{"changelog", "manifest"}} ELSE Parts :
                     \A c \in Component \ part : u[c] = t[c]}

(* The branch has a new tip, and has seen the commit seen of main: a run    *)
(* starts, and the one before it is cancelled.                              *)
NewTip(p, tip, seen) ==
  /\ head' = [head EXCEPT ![p] = tip] /\ base' = [base EXCEPT ![p] = seen]
  /\ at' = [at EXCEPT ![p] = main] /\ res' = [res EXCEPT ![p] = Pending]
  /\ UNCHANGED <<main, gone, stale>>

Open(p, who) ==
  /\ p \notin open /\ commits < MaxCommits
  /\ open' = open \cup {p} /\ author' = [author EXCEPT ![p] = who]
  /\ commits' = commits + 1
  /\ \E tip \in Edits(main, who) : NewTip(p, tip, main)

Push(p) ==
  /\ p \in open /\ commits < MaxCommits
  /\ commits' = commits + 1
  /\ \E tip \in Edits(head[p], author[p]) : NewTip(p, tip, base[p])
  /\ UNCHANGED <<open, author>>

(* main is merged into the branch. *)
Update(p) ==
  /\ p \in open /\ base[p] # main /\ Mergeable(base[p], main, head[p])
  /\ NewTip(p, Merged(base[p], main, head[p]), main)
  /\ UNCHANGED <<open, author, commits>>

(* A run needs a merge commit: none is made while the branch conflicts. *)
Running(p) == p \in open /\ Mergeable(base[p], at[p], head[p])

Reports(p, results) ==
  /\ res' = [res EXCEPT ![p] = results]
  /\ UNCHANGED <<main, open, author, base, head, at, commits, gone, stale>>

(* changes decides which jobs run; if it fails, none does, until it is run  *)
(* again.                                                                   *)
Changes(p) ==
  /\ Running(p) /\ res[p]["changes"] = "pending"
  /\ \E result \in {"success", "failure"} :
       Reports(p, [j \in Job |->
         IF j = "changes" THEN result
         ELSE IF result = "success" /\ Wanted(p, j) THEN "pending" ELSE "skipped"])

Rerun(p) == Running(p) /\ res[p]["changes"] = "failure" /\ Reports(p, Pending)

(* Mistake: a job does not need changes. *)
FinishUnneeded(p, jobs) ==
  /\ Running(p)
  /\ \E j \in jobs : res[p][j] = "pending"
  /\ \A j \in jobs : res[p][j] = "pending" => Passes(p, j)
  /\ Reports(p, [j \in Job |-> IF j \in jobs /\ res[p][j] = "pending"
                              THEN "success" ELSE res[p][j]])

(* A job that fails or is cancelled may be run again, on the same merge     *)
(* commit and a later main: it is as pending as before.  go and conformance *)
(* never look at main and run exactly when buf does: they end with it.      *)
Finish(p, jobs) ==
  /\ Running(p) /\ res[p]["changes"] = "success"
  /\ \E j \in jobs : res[p][j] = "pending"
  /\ \A j \in jobs : res[p][j] = "pending" => Passes(p, j)
  /\ Reports(p, [j \in Job |-> IF j \in jobs /\ res[p][j] = "pending"
                              THEN "success" ELSE res[p][j]])

Leave(p) ==
  /\ open' = open \ {p} /\ author' = [author EXCEPT ![p] = "human"]
  /\ base' = [base EXCEPT ![p] = Blank] /\ head' = [head EXCEPT ![p] = Blank]
  /\ at' = [at EXCEPT ![p] = Blank] /\ res' = [res EXCEPT ![p] = Pending]
  /\ UNCHANGED commits

Removed(old, new) ==
  {m \in Module : old.revs[m] # Missing /\ new.revs[m] = Missing} \cup
  {m \in Message : old.wire[m] # Missing /\ new.wire[m] = Missing} \cup
  {f \in {"ledger"} : old.ledger # Missing /\ new.ledger = Missing}

Merge(p) ==
  /\ p \in open /\ CiOk(p) /\ Mergeable(base[p], main, head[p])
  /\ main' = Merged(base[p], main, head[p])
  /\ gone' = gone \cup Removed(main, main') /\ stale' = (stale \/ at[p] # main)
  /\ Leave(p)

Close(p) == p \in open /\ Leave(p) /\ UNCHANGED <<main, gone, stale>>

Next ==
  \E p \in PR :
    \/ \E who \in {"human", "bot"} : Open(p, who)
    \/ Push(p) \/ Update(p) \/ Changes(p) \/ Rerun(p)
    \/ \E jobs \in {{"buf", "go", "conformance"}, {"yang"}} : Finish(p, jobs)
    \/ Merge(p) \/ Close(p)

Spec == Init /\ [][Next]_vars

-----------------------------------------------------------------------------
(* ci.yml, "needs: changes": no job has a result before changes has one,    *)
(* and none runs after it failed.                                           *)
Results ==
  {r \in [Job -> Result] : \A j \in Job \ {"changes"} :
     /\ r["changes"] = "pending" => r[j] = "pending"
     /\ r["changes"] = "failure" => r[j] = "skipped"}

(* Types, the order of the jobs among them. *)
TypeOK ==
  /\ main \in Tree /\ open \subseteq PR /\ author \in [PR -> {"human", "bot"}]
  /\ base \in [PR -> Tree] /\ head \in [PR -> Tree] /\ at \in [PR -> Tree]
  /\ res \in [PR -> Results] /\ commits \in 0..MaxCommits
  /\ gone \subseteq Module \cup Message \cup {"ledger"} /\ stale \in BOOLEAN

(* conventions-exceptions.yaml, "This list only shrinks": while main has the *)
(* file, no merge adds to it, however old the main its run compared with.   *)
LedgerOnlyShrinks ==
  [][main.ledger # Missing /\ "ledger" \notin gone' => main'.ledger \subseteq main.ledger]_vars

(* check-revision-history, "every revision present on the base must survive *)
(* byte-for-byte": on main, over merges of any age, while its file stays.   *)
RevisionsSurvive ==
  [][\A m \in Module \ gone' : main.revs[m] # Missing =>
       \A d \in Date : main.revs[m][d] # Absent => main'.revs[m][d] = main.revs[m][d]]_vars

(* docs/versioning.md, "buf breaking compares every PR against main":       *)
(* over merges of any age, a message of main's wire contract keeps its      *)
(* fields and reserved tags, until a merge removes the message, which buf   *)
(* lets pass.                                                               *)
WireSurvives ==
  [][\A m \in Message \ gone' : main.wire[m] # Missing =>
       main'.wire[m] # Missing /\ main.wire[m] \subseteq main'.wire[m]]_vars

(* ci.yml, "A gate skipped by design counts as passing": a run that ci-ok   *)
(* accepts has skipped a gate only on the release PR, or one that reads no  *)
(* document and on documents alone.                                         *)
SkippedByDesign ==
  \A p \in open : CiOk(p) => \A j \in Job : res[p][j] = "skipped" =>
    \/ author[p] = "bot" /\ Changed(p) \cap {"ledger", "bad", "used", "docs", "revs", "wire"} = {}
    \/ j # "yang" /\ Changed(p) \cap {"ledger", "bad", "used", "revs", "wire", "manifest"} = {}

(* ci.yml, "the full gate already passed on the PR": as long as every merge *)
(* went into the main its run saw, main keeps the conventions and its list  *)
(* of exceptions in step, though one request may write the definition that  *)
(* another uses; no document brings a forbidden name; and no tag that two   *)
(* branches took for different fields of a message gets there twice.        *)
FreshMainIsClean == stale \/ (Clean(main) /\ OneFieldPerTag(main))
=============================================================================
