# OpenITS models: a TLA+ verification of the tooling

The repository keeps one source of truth, the YANG modules under `yang/`, and
generates everything else from it: protobuf files, Go bindings, JSON Schemas,
an AsyncAPI document and a schema registry. What can go wrong in it is in the
tools that generate, compare, gate and publish these artifacts, in `tools/`,
`scripts/`, the `Makefile` and `.github/workflows/`. This directory holds the
TLA+ models of those tools, the TLC runs that check them and the TLAPS proofs
about them.

## The system

| part | state it keeps | operations | what makes it correct |
|---|---|---|---|
| Field-number lock, `tools/yang-proto-gen/fieldnum.go` | `field-numbers.yaml`: message, field, tag | load, `Assign`, `Retired`, save | a published tag never moves, a retired one is never reused |
| Generation run, `main.go`, `emit.go`, `grouping.go` | an in-memory lock, the files it writes | load YANG, emit, validate, write protos, save lock, JSON Schemas, prune | no partial output when validation fails; regenerating settles |
| Naming, `emit.go` | per-package sets of message and enum names | qualify colliding names, deduplicate enums | unique names, whatever the map order; stable wire names |
| Derived indexes, `catalog.go`, `index.go`, `asyncapi.go` | none | catalog of ce-types, `index.json`, `asyncapi.yaml` | name every live notification once; resolve to real snapshots |
| Schema registry, `scripts/update-schema-registry.sh` | `schema-registry/<module>/<revision>/` | snapshot a new revision, backfill, report drift | a published snapshot never changes |
| Revision gates, `scripts/check-revisions.sh`, `tools/check-revision-history` | none (compare with registry, with `main`) | compare | a changed module has a new revision; history only grows |
| Conventions ledger, `tools/check-conventions` | `conventions-exceptions.yaml` | scan, compare with the ledger and its base | the list of exceptions only shrinks |
| Other gates: naming, enums, deviations, augment collisions, events layering, mode kinds, graduation | none | scan and report | each is a pure function of the YANG |
| Conformance harness, `tools/conformance/main.go`, `driver.go` | two snapshots of the device, a channel of events | collect, subscribe, drain, collect, judge | terminates; loses nothing it was given; judges like with like |
| Mock devices, `tools/conformance/mock_*.go` | none | build a device tree, emit numbered events | satisfy every check |
| Conformance checks, `tools/conformance/tests` | per-check memories (last sequence, last indication) | walk the events and the device trees | accept every conforming device; notice the faults they name |
| CI and release, `.github/workflows`, `release-please-config.json` | branch, tags, release assets | gate a PR, open a release PR, tag, upload | nothing merges on a red gate; a release carries its own tree |
| `ce-id`, `docs/ce-id-spec.md`, `tools/check-ce-id-vectors` | vectors | recompute and compare | the same event has the same id at every observer |
| Scaffolding and coverage reports, `openits-new-service`, `arcit-coverage`, `noi-validator` | none | write files, count | - |
| Generated and data: `pkg/`, `api/`, `bindings/`, `yang/`, `schema-registry/` | - | - | outputs and inputs of the tools above |

How they interact.  A developer edits `yang/` and runs `make gen`: the
generator reads the YANG and the field lock, writes the protos, then the lock,
then the JSON Schemas and removes those no longer live; protoc, ygot and the
index generators follow.  `make check-gen` regenerates and fails on any
difference, so what merges is what a run leaves unchanged.  The registry script
snapshots the generated artifacts of each new module revision, and
`check-revisions.sh` compares each module with the snapshot of its revision.  The
workflows run these gates on a pull request, roll them up in one job (`ci-ok`),
and publish a release from `main`.  The conformance harness is a program of its
own: it reads a device, listens to it for a window through a goroutine and a
bounded channel, reads it again, and runs the checks over what it saw.

The hard behaviours are listed in `PROJECT.json` under `hazards`, each at its
line: runs of a tool lost between two writes, edits in one module that change
the output of another, retired fields that return, files restored from another
commit, the harness's two clocks and its channel, redelivered events, checks
that compare a state with events taken at another time.

## Modules

| module | models | |
|---|---|---|
| `WireMap` | what the lock promises: a map that only grows, one field per tag | abstract |
| `FieldLock` | `fieldnum.go`, and how `Generate` and `EmitMessage` use it | detailed; implements `WireMap` |
| `FieldLockProofs` | theorems about `FieldLock` | TLAPS |
| `MCFieldLock` | instances for TLC | |
| `Harness` | `tools/conformance/main.go`, the driver's `Subscribe`, and the digital-twin check | detailed |
| `HarnessProofs` | theorems about `Harness` | TLAPS |
| `MCHarness` | instances for TLC | |
| `LaneSignals` | a lane's event stream, `header_sequence.go`, and the signal sequence check of `reversible_lane.go` | detailed |
| `LaneSignalsProofs` | a theorem about the numbering of `LaneSignals` | TLAPS |
| `LaneChecksProofs` | theorems about the two checks of `LaneSignals` | TLAPS |
| `MCLaneSignals` | instances for TLC | |
| `SchemaRegistry` | `update-schema-registry.sh`, `check-revisions.sh`, and the merge they guard | detailed |
| `SchemaRegistryProofs` | theorems about `SchemaRegistry` | TLAPS |
| `MCSchemaRegistry` | instances for TLC | |
| `Corpus` | `make gen` on one go package: names, files, schemas, pruning, protoc | detailed |
| `CorpusProofs` | theorems about `Corpus` | TLAPS |
| `MCCorpus` | instance for TLC | |
| `MainLine` | pull requests, `ci.yml`, `check-conventions`, `check-revision-history` | detailed |
| `MainLineProofs` | theorems about `MainLine` | TLAPS |
| `RecursionTheorems` | lemmas: induction over numbers, functions defined by recursion, places in a finite order | TLAPS |
| `MCMainLine` | instance for TLC | |

The components meet in the artifacts, not in memory.  `Corpus` is what a run
makes of the names and files of a package and `FieldLock` what it makes of the
tags in them; `SchemaRegistry` begins with the generated files of a tree;
`MainLine` is what becomes of trees when several branches merge, with the gates
as predicates of a tree and a base; `Harness` produces the observation that
`LaneSignals`' checks walk.  Each module is checked on its own.

### FieldLock

State: the working tree (`yang`, `proto`, `lock`), what `main` carries
(`mainProto`, `mainLock`) with the history variable `published`, and the run
(`pc`, `cur`, `idx`, `mem`, `used`).  `drift`, `verdict` and `again` record what
`git diff --exit-code` would say after a run.

A run is: `LoadFieldLock`; per message of `Order`, `SkipMessage` (deprecated
notifications are not emitted) or `BeginAssign`, then per declaration one of
`AssignReserved`, `KeepTag`, `AssignFree` (the loop of `Assign`), `EndMessage`;
`ValidatePass` or `ValidateFail`; `WriteProtoFile` per file; `SaveLock`.
`Abort` may end it between any two of them.  Between runs the developer may
edit the YANG (`EditYang`), restore the lock or a generated file from `main`
(`RestoreLock`, `RestoreProto`), and merge a tree that a run has just left
unchanged (`Merge`, the `check-gen` gate).

Abstractions.  A message is one bucket of the lock; the messages nested in it
are buckets of their own, so they need no nesting here.  A declaration has a
name and a shape: `kind` (an identityref leaf named kind), `wire` (a container
named source that comes from grouping wire-source) or `plain`.  Two declarations
of a message may share a name: that is how "a-b" and "a_b" collapse.  Enum and
message names, imports, types and labels are left out.  A run reads the YANG
before it numbers the first field, so an edit during a run is an edit after it.
A `.proto` torn by a lost write is not modelled: the next run rewrites every
file, and nothing reads one back.  A torn lock is (`TearLock`), in a
specification of its own, `TornSpec`, because it does break the properties.
`buf breaking` is an external tool and is not modelled.

### Harness

State: the device (`now`, `value`, `emitted`), `main` (`pc`, with what it has
collected in `before`, `after`, `events`), the subscribing goroutine (`sub`, its
position `first`, `next` in the device's events, the deadline `window`), and what
they share: the channel `ch`, `closed`, and `subDone`.

`main` is `CollectFirst` or `CollectFirstFails`, `Subscribe` (the `go`
statement), `Receive` until `StopDraining` (the `range` ends), `Join`,
`CollectAfter` or `CollectAfterFails`, `Judge`.  The goroutine is `Send`,
`Return` or `ReturnError`, `Report`, `Close`; `WindowCloses` is the deadline of
`subCtx`.  Every interleaving of the two with the device (`Tick`, `Transition`,
`SilentChange`) is allowed: a driver is never in step with the device.

`Judge` is the comparison both twin checks make
(`TestZoneOccupancyEvent_ChangedMirrorsLiveState` and the gate check of
`reversible_lane.go`), for one zone and one value: the latest event that is not
newer than the reading's `observed-at` must agree with the reading.

Abstractions.  A reading carries two fields the harness cannot see, `seq` (the
last event it reflects) and `time`: they let properties say what the check can
only estimate.  `Resolution` is the ratio of the event clock to the clock of
`observed-at`, which the mock formats in whole seconds.  The driver takes the
device's events in the order it emits them.  The 30 seconds that `ctx` has over
the window only bound the second `Collect`, which may fail here anyway.  The
other checks of the suite are pure functions of the same observation.

### LaneSignals

State: what each face of one lane shows, the event numbering (`epoch`, `seq`),
the events emitted (`log`; its index is the event's ce-id) and the order of
arrival.  The device is external: `Change` emits
lcs-indication-changed, with or without its previous-indication; `OtherEvent`
takes a number too; `Restart` starts an epoch and numbers from 1, as
`stampHeaders` does.  `Deliver` takes any event that has not arrived, so events
overtake one another and one that never arrives is lost; `Redeliver` takes one
that has.

The two checks are recursions over what arrived.  `HeaderStep` is the body of the
loop of `TestEvent_SequenceContiguousWithinEpoch` and `HeaderAfter[n]` what it
keeps after n arrivals; `Sorted(n)` is the place of the n-th event after the
stable sort by epoch of first arrival and sequence, `SignalStep` the body of the
loop of `TestReversibleLane_IndicationSequence` with the map of remembered
indications, and `SignalAfter[n]` what it keeps after n sorted events.  `Mutcd`
is the rule itself, over what the lane really shows, so the properties compare
the check with the rule and never with itself.

Abstractions.  One source device, every event has a header and a ce-id, one
segment and lane.  Lamps that no rule speaks of are left out of the instances.

### SchemaRegistry

State: the working tree (`yang`, the generated `proto` and `json`, and `reg`),
the script's table of routes, what is merged (`main`), the run of the script
(`pc`, `at`), and three history variables: `served`, what main's registry ever
served, `deleted`, the published snapshots deleted since the last merge, and
`calm`, whether no run was lost and each began with regenerated files.

One pass of the module loop is: an existing directory is left alone (`Skip`) or
given a schema.json (`Backfill`, `RewriteManifest`); a module without a route
ends the run (`NoRoute`); a new revision gets its directory and one file after
the other (`MakeDir`, `CopyYang`, `CopyProto`, `WriteSchemaJson`,
`WriteManifest`, `WriteReadme`).  `Crash` loses the run between any two, `Tear`
inside one, which leaves half a file.  The developer edits, with or without a new
revision, regenerates, adds a route, deletes snapshots, and merges what
`check-revisions.sh` and `make check-gen` accept; git drops an empty directory
(`Committed`).  Deleting is what `check-revisions.sh` advises for a snapshot that
was never published, but it does not look: with a published one deleted, the
module is NEW and passes.  `DeleteSnapshot` therefore takes any, and
`ServedIsPinned` and `SnapshotImmutable` let go of a snapshot somebody deleted
until it is merged anew; the manifest properties and `CalmSnapshots` hold all the
same.

Abstractions.  What a module says is a value, in `Declaring` when it has a
notification statement and in `LiveBody` when one of them is live; every service
has a .proto file, so the missing one of line 331 does not occur; schema.proto
packs a whole service and stands here for what it has of the snapshot's module; a
manifest is the set of companions it lists, and a torn one counts as none; an
augment or a deviation is a module that declares nothing, later in `Order`.  One
working tree at a time: branches that merge into each other are in `MainLine`.

### Corpus

State: the modules of a service and the entries that are live in them (`mods`,
`yang`), the three `.proto` files (`files`: each is the set of entries it was
generated from, or missing), the JSON Schemas, where `make gen` is (`pc`), and
the entries of the last `make gen` that succeeded (`made`), a history variable.

The actions: `Add`, `Remove`, `AddModule`, `RemoveModule` between runs; `Start`
validates everything before the first file is written, or refuses; `WriteProto`
per file, `WriteSchema` per notification, `Prune`, `Protoc`; `Lost` ends a run
between any two of them.  The names are operators over the live entries:
`Collisions` (collisionSetForRoots), `MessageName` (nestedMessageName and
avoidEnumName, down the tree), `EnumName` (emitEnum and its registry), `Valid`
(the two validations), `Written` (which files a run touches).  `Compiles` is what
protoc asks of the files that are then on disk: no two messages or enums of one
name, every enum declared that is referred to, and no two enums that share the
name of a member.  The last is because proto puts the members of an enum in the
package, so that emitEnum calls them by the words of the enum followed by their
own (`ValueNames`), and adds one that is unspecified if none is numbered 0
(`Members`).

Abstractions.  An entry is a notification, a container or list, or an
enumeration leaf, numbered in the order the generator emits it, a message before
what is nested in it (the code depends on the order of the enumerations alone); a
name is a sequence of words, so that "parent then label" is what the code does and
two names are equal when their words are; a module's name counts as one word.  A single-use grouping, an action or a
choice adds nothing to the naming that a container does not; shared groupings
are in `FieldLock`.  Descriptions, options, imports and field types are left out.

### MainLine

State: the tip of `main`; of each pull request its author, the commit of main its
branch has last seen (`base`), its tip (`head`), the tip of main when it was last
pushed (`at`) and the results of its jobs (`res`); and two history variables,
`gone` (files and messages a merge has removed) and `stale` (a merge went into a main its run
did not see).

A tree is what the gates read: the ledger of exceptions, the definitions that
break a convention and those that are used, lines of documents with a forbidden
name, the revision statements of each module, the wire contract (of each message
its fields and reserved tags, or that it does not exist), and release-please's
two files.  `Open`, `Push` and `Update` give a branch a new tip,
which starts a run on the merge of the tip with main; `Changes` classifies the
change and skips jobs; `Finish` lets a job pass; `Rerun` and `Close`; `Merge`
merges the branch, when `ci-ok` is green, into whatever main is by then.  Three
versions of main matter and may all differ: the one in the merge commit that is
tested, the one that a gate fetches when it starts, and the one merged into.

Abstractions.  A three-way merge is done line by line within a file and whole
for a file or a message that comes or goes.  `BufBreaking` is what WIRE_JSON
(`buf.yaml`) asks of fields: a message in both trees keeps what it has.  It has
no rule against the deletion of a message, an enum or a file, so a message that
is renamed (see `MessageNamesStay`) or removed takes its fields and reserved tags
with it, and `WireSurvives` is about the messages that stay.  What WIRE_JSON asks
beyond that (a field that stays keeps its type, so renaming a message is noticed
where a field that stays refers to it) is left out: the model lets more through.
A job that fails stays pending, since a re-run
may turn it green.  `go` is the freshness gate and the generator's refusal of a
tag held by two fields (`OneFieldPerTag`); builds, tests and linters may pass at
any time.  A buf check that was merged on red on purpose, as docs/versioning.md
allows, is outside the model.

## Runs

| run | instance | shows |
|---|---|---|
| `fieldlock` | one message, names source (reserved), a, b; two declarations at a time; reserved tags 2 and 4, so that numbering has to step over both; one other user of wire-source | the properties below, and `WireMapSpec` |
| `fieldlock_share` | two messages in two files, no other user of wire-source | `TagsNeverMove` fails: a second use of the grouping moves the first one's tag |
| `fieldlock_torn` | the first instance with `TearLock` | `TagsNeverMove` fails: an empty lock is read as a lock without messages |
| `harness` | a channel of 1, three transitions, times 0 to 3, readings in units of 2, silent changes and failing calls | all properties of `Harness`, under fairness |
| `harness_late` | an exact clock, no silent change, no failing call | `MismatchMeansSilent` fails: the device changes between the end of the window and the second reading |
| `lane` | one lane, five indications, changes legal or not, three events, three arrivals, two epochs | the four properties of the two checks |
| `lane_repeat` | the same with a lane that is always legal, and room for four arrivals | `RepeatPasses` fails: the repeat of a change does not continue the chain |
| `registry` | one module, two revisions, three texts of the first: a live notification, a deprecated one, none; one of the second | `ServedIsPinned`, `SnapshotImmutable`, `ManifestResolves`; while calm also `ManifestComplete` and `CalmSnapshots` (2,718,396 states) |
| `registry_lost` | the same | `SnapshotComplete` fails: a partial snapshot is never completed |
| `registry_json` | the same | `JsonOfItsYang` fails, even while calm: the backfill takes a later text |
| `corpus` | a service of two modules and twelve entries, any two edits | `FilesAreFresh`, `SchemasAreLive`, `GeneratedCompiles`, `MessageNamesStay`, `EnumNamesStay` (526,471 states) |
| `mainline` | two pull requests, two commits, one exception, one module and date, two texts, one message, two items with one tag | `LedgerOnlyShrinks`, `RevisionsSurvive`, `WireSurvives`, `SkippedByDesign`, `FreshMainIsClean` (251,470 states) |

The properties of `fieldlock`: `TagsNeverMove`, `TagsNeverReused`,
`ReservedTagsKept`, `RetiredTagsReserved`, `WireUnambiguous`,
`RegenerationSettles`, and that the lock on main implements `WireMap`.

Bounds.  `MaxFields` (2) bounds the declarations a message has at once, `Field`
the names it can ever have; three names with two at a time make a field retire
while another takes its place, and return.  `TagBound` is at least the number of
names plus two, so `AssignFree` always finds a tag: the bound cuts nothing.
There is no bound on the number of runs, edits, merges or losses.  Order of
messages and files only matters for what is on disk when a run is lost; the
two-message instance is there for the grouping, which couples messages.

For `harness`, three transitions against a channel of one fill the channel with
one event still unsent; a clock unit of two puts an event and a reading in the
same unit and in different ones; `MaxTime` and `MaxEvents` only stop the device.
For `lane`, three events are two of one face with one of the other between them,
the longest memory the signal check has, or a restart and an event on each side
of it; three arrivals are all of them in any order, two with a redelivery, or one
or two of them with a loss.  A face starts green or red; the other indications
come with the events.  For `registry`, two revisions, three texts of the first and
one of the second are an edit with or without a new revision and its revert,
across every way a text decides which files a snapshot has (`Text` bounds what a
module says at each revision); every run of the script, edit, merge and deletion
may happen any number of times.  One module is enough for what a snapshot holds:
modules meet in the script only where a run ends early, which `NoRoute` and
`Crash` do at any point.

For `corpus`, the twelve entries hold the ways two names can meet: two lists of
one label in two modules, a notification and a container that spell an enum's
name, four leaves of one label with three sets of values, and an enum mode-auto
with a member on beside enums mode with a member auto-on.  Every closed valid
subset of them that compiles is an initial state, so a second edit already follows any history
a longer one could leave, but for what lost runs leave on disk; `MaxEdits` (2)
allows an edit, a run lost anywhere in it, a second edit and a whole run.
`GeneratedCompiles` has two premises, `NoLeftover` and `~Overlooked`, each needed:
see below.  For `mainline`, two requests are what it takes for one to be stale;
two commits are one on each or two on one.  One of everything the gates compare
is enough because each gate compares line by line; two texts let a revision be
rewritten, two items of one tag let two branches take the same number, and one
message comes, goes and returns, or is changed on one branch and removed on the
other.

Deadlock is not checked where the program ends (`harness`, `harness_late`) or
the bounded device and delivery do (`lane`, `lane_repeat`), nor where the bound on
commits can leave the branches with nothing to do (`mainline`).

Fairness.  Only the harness promises that something happens (`Termination`).
`FairSpec` assumes weak fairness of `main` as a whole and of the goroutine as a
whole (the Go scheduler runs both) and of `WindowCloses` (a timer fires).
`ReturnError` is outside it: a driver need not fail.  `Return` is inside it,
which is the contract of `Driver.Subscribe`, "runs until ctx is done": a driver
that ignores its context hangs the harness.  Nothing is assumed of the device.
The other modules claim no liveness: nothing obliges a developer to do anything.

## Proofs

`FieldLockProofs` proves, for every set of messages, fields and declarations
and every value of the bounds, `TypeCorrect` (no hypothesis beyond
`LockAssumption`) and the six invariants of the run and the refinement of
`WireMap`, under `ShapesFixed`: a field name keeps its shape, and wire-source is
shared through some use outside the modelled messages.  The hypothesis is needed:
`fieldlock_share` is what happens without it.

The invariants are not inductive.  `IInv` adds what ties the pieces together:
each lock gives a tag to one field and of the right kind (`LockOK`); the tree's
lock extends main's and the run's extends the tree's, so restoring files never
loses a published tag (`LocksInv`); main's protos account for every tag of main's
lock (`MainInv`); while emitting, every message passed is numbered and the tags
held are in `used` (`EmitInv`); while writing, every file passed carries the run's
tags (`WriteInv`); and a settled tree is a fixed point of a run (`SettledInv`),
which is what makes the freshness gate satisfiable.  The step proof has one
lemma per part and one step per action.

`HarnessProofs` proves, for every channel capacity, set of values, resolution and
bound, and with no hypothesis beyond `HarnessAssumption`, every safety property
of `Harness`.  Its inductive invariant `IInv` adds to the types: the device's
events are numbered by their place and stamped in the order of the clock
(`Stamped`); what `main` received, followed by what the channel holds, is the
stretch of the device's events that the driver has taken (`Stretch`); the
channel is closed only once the goroutine is done, and `main` is past its drain
loop only with the channel closed and empty (`Control`); and each reading lies
on the side of that stretch it should (`Readings`).  `FailureExplained` and
`SilentChangeNoticed` then follow at the step that judges, from the order of the
stamps: `Ordered`, `Announced` and `Settled` are the lemmas about it.

`SchemaRegistryProofs` proves, for every set of modules, revisions and texts and
with no hypothesis beyond `RegistryAssumption`, every property of the `registry`
run.  Its `IInv` says that a working run is at a module of its order (`Busy`);
that the tree keeps every snapshot main has and nobody deleted (`Published`); that
a snapshot on
main has its schema.yang, which is what was served under that revision and what
main's module says while it declares it (`OnMain`); that manifests resolve
(`Snapshots`); what the snapshot in progress has at each step of the script
(`AtDest`); and, while `calm`, that everything but the snapshot in progress is
whole (`Calm`).  `Published` and `AtDest` need each other: a run only works in a
directory that main lacks or that was deleted, because the others are there
already.

`CorpusProofs` proves, for every set of entries in any modules, every property of
the `corpus` run.  `Progress` follows the run file by file: what it has
passed is generated from the YANG of this run, and the rest is as it was.
`ValidatedCompiles` then needs that what the generator validates (message names)
and what it constructs (enum names, `FirstOnes`) leave nothing to collide but for
the labels listed in `Overlooked`, which speaks of labels alone and never of the
names made from them: that a message meets no enum is `MessageMeetsNoEnum`, from
how a name ends; that no two enums share the name of a member is `MembersDiffer`,
from where two sequences of words that are equal as wholes can be cut
(`SameStart`, `SameLength`, `Prefixed`); `EnumsKeepTheirNames` is a lemma about the first
leaf of a label.  `MessagesKeepTheirNames` follows a name down the tree: an entry
lives only with the one it is nested in (`Nested`, an invariant of its own, over
the YANG and over the last output), so when a message is in two outputs its parent
is too (`ParentIsMessage`); if nothing came or went that bears on either, the
parent has one name in both, the label collides in both or in neither
(`CollisionsStay`), and so does the name with an enum (`EnumLabelsStay`).

`MainLineProofs` proves, for any number of requests, modules, dates, texts and
exceptions, every property of the `mainline` run.  The gates compare with a main
that is older than the one merged into, so the invariant puts what a branch has
seen, its run's main and main itself in the order `Later`, in which nothing that
the gates protect is lost; a gate that passed against any of them then says that
the branch itself takes nothing from its base (`Judged`), and a line-by-line
merge of such a branch takes nothing from any later main.  That is why the
ledger, the revisions and the messages of the wire contract survive merges of any
age, as long as no merge removes the file or the message as a whole;
cleanness has no such order, and is proved only while no merge is stale.

`LaneSignalsProofs` proves that the device's numbering is without holes within an
epoch, restarts included.  `LaneChecksProofs` proves from it, with no hypothesis
beyond `LaneAssumption`, the four properties of the `lane` run, for every set of
indications and any number of events, arrivals and epochs.  Its `LaneInv` adds
that epochs do not decrease along the log and that numbers in one epoch differ
as places in the log do (`Numbered`), and that what the faces showed before each
event is a history in which every event says truly what it changed and whether
the rule allows it (`History`).

- The header check.  By induction on the arrivals, as long as no gap is reported
  the last number of each epoch is that of its latest event seen, and the events
  seen of the epoch are a run of the log (`Run`, `StepRun`).  With `Between`, that
  an event of the log between two of one epoch is of that epoch, silence
  means a run (`HeaderSilence`); and a whole stream in order brings, at each
  arrival, an event seen before or the next of its epoch (`HeaderAcceptsWhole`).
- The signal check.  When the epochs are first seen in order, the sort puts the
  events in the order of the log (`EpochsRanked`, `SortedByLog`), each in one place
  (`SortRanked`, from `Ranks`).  By induction on the sorted events, the check then
  remembers of each face its latest indication, or nothing after a dropout or
  before the first event (`Remembers`); and what it remembers it compares as the
  rule does (`StepExact`): it reports an event that breaks the rule whenever the
  previous indication can be known, and of those that keep it only the exception
  of paragraph 05 with an opposite face that has not changed yet.  Once an event
  is reported, later steps keep it (`StepKeeps`), redelivered ones included.

`RecursionTheorems` is what makes these inductions possible.  The library's
induction theorems have an operator as a parameter, and no installed prover
instantiates one.  A set serves as well: a set of numbers that holds every
number whose smaller ones it holds, holds them all (`Strong`, `Upto`, from the
least element of the set of exceptions).  From it follow that a recursive
function over numbers or over a tree has the equation of its definition
(`Iteration`, `Solution`), which TLAPS does not assume, and that counting the
smaller elements of a finite order gives every element a place of its own
(`Ranks`).

Only model-checked: `Termination`, because liveness is out of the prover's
reach; and what the runs that expect a violation show, `TornSpec` among it.
Every other property of the passing runs is a theorem.

## What the runs found

Six places where the code does not do what its own comments or documents say,
each the counterexample of a run:

- a second use of grouping wire-source moves a published tag (`fieldlock_share`);
- a lock truncated by a lost run is read as an empty one (`fieldlock_torn`);
- a device that changes after the window and before the second reading fails the
  twin check although it announced the change (`harness_late`);
- a redelivered lane-signal change is reported as a chain break (`lane_repeat`);
- a run of the registry script lost half way leaves a snapshot that is never
  completed (`registry_lost`);
- a backfill may give a published revision the schema of a later text
  (`registry_json`).

Other places where code and text part, which the models show or rest on, and
which have no run of their own:

- `.github/workflows/ci.yml:72` says that the references check fails on a
  reference that names a missing document; the check reads no document, and fails
  on any reference that cites a path of the repository;
- `tools/yang-proto-gen/emit.go:87` says that an enum keeps its name and the new
  message is qualified: a new enum also renames a message that was there before,
  and a new enum in a module emitted earlier takes the bare name from an enum
  already on the wire (`EnumNamesStay` and `MessageNamesStay` name these cases as
  the only ones);
- the generator does not validate enum names or those of their members: two sets
  of values of one label from one module beside a third, a root named like an
  enum, a qualified name that meets another enum, a label that goes on like a
  member of another enum (mode-auto/on beside mode/auto-on), all reach protoc
  (`Overlooked`);
- `docs/versioning.md:49` says that buf compares every pull request with main, and
  the same page that a retired number is never reused: under WIRE_JSON a message
  removed or renamed as a whole is not compared, and its reserved tags go from the
  `.proto` with it, so that only the lock still has them (`gone` in
  `WireSurvives`);
- `check-revisions.sh:99` passes a module whose published snapshot was deleted, as
  NEW, so the registry is immutable only as long as nobody deletes (`deleted` in
  `ServedIsPinned` and `SnapshotImmutable`);
- a `.proto` file that nothing is routed to any more is never removed
  (`NoLeftover`): protoc compiles what is left in it, or refuses it, and
  `make check-gen` sees no difference;
- the ledger and the revision history are not compared when a merge removes the
  file (`gone` in `LedgerOnlyShrinks` and `RevisionsSurvive`), and two requests
  green on their own may together turn main red (`stale` in `FreshMainIsClean`);
  the push run of `ci.yml` takes for granted that they cannot.

## Not modelled

- The body of a JSON Schema, of a catalog, of `asyncapi.yaml` and of a `.proto`
  field: translations without state, compared by `make check-gen` with their last
  output.
- `index.json` after a snapshot: it is built from a scan of the registry, so a
  stale one is a difference `make check-gen` reports; nothing interacts with it.
- The single-pass gates (naming, enums, deviations, augments, layering, mode
  kinds, graduation, references): a predicate of the tree each.  In `MainLine`
  one stands for them (`Naming`).
- The conformance checks that compare fields of one reading with each other, and
  the ce-id vectors: what they say is what they do, a model would restate them.
- A module without a revision, which ends a run of the registry script where it
  stands, as a missing route does, and `-write` of check-conventions (it writes the list that the
  comparison then accepts).
- Tagging, the bundle and its upload: external actions of the release workflow.
- Generated Go (`pkg/`), the API documents and bindings, and YANG data: outputs
  and inputs.  They are most of the repository's lines, so the definitions of
  these modules map to a small share of all lines although they cover the
  stateful part of `tools/`, `scripts/` and `.github/`.

## Order of the work

The modules were written in the order in which a mistake costs most: tags on the
wire (`WireMap`, `FieldLock`), the judge of other people's devices (`Harness`,
`LaneSignals`), what is served for ever (`SchemaRegistry`), what everything is
built from (`Corpus`), and the branch all of it merges into (`MainLine`).  What is
left would be a composition of `FieldLock` with `MainLine`, so that two branches
number fields instead of bringing items with tags; a reference definition for
the checks over coordination, splits and overlaps; and, on the side of the
proofs, the converse of what the runs with a violation show: that a property that
fails there holds once the step that breaks it is taken away.
