--------------------------- MODULE SchemaRegistry ---------------------------
(***************************************************************************)
(* The schema registry: scripts/update-schema-registry.sh, which snapshots *)
(* each new revision of a YANG module with its generated companions, and   *)
(* scripts/check-revisions.sh, which compares modules with the snapshots   *)
(* of their declared revisions before a change merges.                     *)
(*                                                                         *)
(* A developer edits modules, with or without a new revision, regenerates, *)
(* runs the script, may lose it between two files, deletes snapshots, and  *)
(* merges what the gates accept.                                           *)
(***************************************************************************)
EXTENDS Naturals, Sequences

CONSTANTS
  Module,     \* YANG modules of one service
  Order,      \* the modules in the order the script visits them
  Body,       \* what a module may say
  Declaring,  \* the bodies that declare a notification, live or not
  LiveBody,   \* the bodies in which a notification is live
  MaxRev,     \* bound: revisions of a module
  Text        \* bound: Text[r] is what a module may say at its revision r

Absent == "absent"
Torn == "torn"           \* what a lost run leaves of a file it was writing
NoManifest == {Absent}   \* none, or one that is torn
Rev == 1..MaxRev

ASSUME RegistryAssumption ==
  /\ Order \in Seq(Module) /\ \A m \in Module : \E i \in 1..Len(Order) : Order[i] = m
  /\ LiveBody \subseteq Declaring /\ Declaring \subseteq Body /\ Body \cap {Absent, Torn} = {}
  /\ MaxRev \in Nat \ {0} /\ Text \in [Rev -> SUBSET Body]

VARIABLES
  yang,    \* working tree: each module's newest revision and its body
  proto,   \* working tree: the service's .proto file, the body of each module
  json,    \* working tree: each module's JSON Schemas, Absent if none is live
  reg,     \* working tree: schema-registry/<module>/<revision>/
  routes,  \* the modules PROTO_ROUTE_PREFIXES has a route for
  main,    \* what is merged: the first four
  calm,    \* no run was lost, and each began with regenerated files
  served,  \* every <<module, revision, schema.yang>> main's registry has had,
           \* until somebody deletes the snapshot
  deleted, \* the snapshots main has and somebody deleted since the last merge
  pc,      \* what the script is about to do
  at       \* index in Order of the module it is at

tree == <<yang, proto, json, reg>>
vars == <<tree, routes, main, calm, served, deleted, pc, at>>

(* A snapshot: whether its directory exists, and its files.  schema.proto   *)
(* packs the whole service; here it is the body it has for this module.     *)
(* MANIFEST.json is the set of companions it lists.                         *)
Snapshot == [dir : BOOLEAN, yang : Body \cup {Absent, Torn},
             proto : Body \cup {Absent, Torn}, json : Body \cup {Absent, Torn}, manifest : (SUBSET {"proto", "json"}) \cup {NoManifest},
             readme : BOOLEAN]
NoSnapshot == [dir |-> FALSE, yang |-> Absent, proto |-> Absent, json |-> Absent,
               manifest |-> NoManifest, readme |-> FALSE]

Tree == [yang : [Module -> [rev : Rev, body : Body]],
         proto : [Module -> Body], json : [Module -> Body \cup {Absent}],
         reg : [Module -> [Rev -> Snapshot]]]

(* The generated files of the modules in y. *)
Generated(y) == [m \in Module |-> y[m].body]
GeneratedJson(y) == [m \in Module |-> IF y[m].body \in LiveBody
                                      THEN y[m].body ELSE Absent]
Fresh == proto = Generated(yang) /\ json = GeneratedJson(yang)

(* The companions a directory holds. *)
Companions(s) == {f \in {"proto", "json"} : s[f] # Absent}

Init ==
  \E y \in [Module -> [rev : {1}, body : Text[1]]] :
    /\ yang = y /\ proto = Generated(y) /\ json = GeneratedJson(y)
    /\ reg = [m \in Module |-> [r \in Rev |-> NoSnapshot]]
    /\ main = [yang |-> y, proto |-> proto, json |-> json, reg |-> reg]
    /\ routes \in SUBSET Module /\ calm = TRUE /\ served = {} /\ deleted = {}
    /\ pc = "idle" /\ at = 1

-----------------------------------------------------------------------------
(* The developer. *)

Edit(m, rev, body) ==
  /\ pc = "idle" /\ [rev |-> rev, body |-> body] # yang[m]
  /\ rev \in {yang[m].rev, yang[m].rev + 1} \cap Rev /\ body \in Text[rev]
  /\ yang' = [yang EXCEPT ![m] = [rev |-> rev, body |-> body]]
  /\ UNCHANGED <<proto, json, reg, routes, main, calm, served, deleted, pc, at>>

Gen ==
  /\ pc = "idle" /\ ~Fresh
  /\ proto' = Generated(yang) /\ json' = GeneratedJson(yang)
  /\ UNCHANGED <<yang, reg, routes, main, calm, served, deleted, pc, at>>

(* check-revisions, advice (b): delete a stale snapshot.  It is meant for one *)
(* that was never published, but nothing looks: a module without a snapshot  *)
(* is NEW, and passes.                                                       *)
DeleteSnapshot(m, r) ==
  /\ pc = "idle" /\ reg[m][r].dir
  /\ reg' = [reg EXCEPT ![m][r] = NoSnapshot]
  /\ deleted' = deleted \cup {d \in {<<m, r>>} : main.reg[m][r].dir}
  /\ served' = {s \in served : <<s[1], s[2]>> # <<m, r>>}
  /\ UNCHANGED <<yang, proto, json, routes, main, calm, pc, at>>

(* A module gets its row in PROTO_ROUTE_PREFIXES. *)
AddRoute(m) ==
  /\ pc = "idle" /\ m \notin routes
  /\ routes' = routes \cup {m}
  /\ UNCHANGED <<tree, main, calm, served, deleted, pc, at>>

-----------------------------------------------------------------------------
(* The gates and the merge. *)

(* Mistake: no module is compared with its snapshot. *)
NoDrift == TRUE

(* check-revisions.sh: a module differs from the snapshot of its revision.  *)
CheckRevisions ==
  \A m \in Module :
    LET snap == reg[m][yang[m].rev].yang
    IN snap = Absent \/ snap = yang[m].body

(* Git keeps no empty directory. *)
Committed == [m \in Module |-> [r \in Rev |->
  IF reg[m][r] = [NoSnapshot EXCEPT !.dir = TRUE] THEN NoSnapshot ELSE reg[m][r]]]

Merge ==
  /\ pc = "idle" /\ CheckRevisions /\ Fresh
  /\ main' = [yang |-> yang, proto |-> proto, json |-> json, reg |-> Committed]
  /\ served' = served \cup
       {s \in {<<m, r, Committed[m][r].yang>> : m \in Module, r \in Rev} : s[3] # Absent}
  /\ main' # main /\ deleted' = {}
  /\ UNCHANGED <<tree, routes, calm, pc, at>>

-----------------------------------------------------------------------------
(* A run of update-schema-registry.sh. *)

Here == Order[at]
HereRev == yang[Here].rev
Dest == reg[Here][HereRev]
Put(snapshot) == reg' = [reg EXCEPT ![Here][HereRev] = snapshot]

Script(to) == pc' = to /\ UNCHANGED <<yang, proto, json, routes, main, calm, served, deleted>>

(* The module visited has its snapshot; that lacks a schema.json the tree    *)
(* has; it has no snapshot, and none is made without a route.                *)
Visit(present) == pc = "visit" /\ at <= Len(Order) /\ Dest.dir = present
DeclaresNotification == yang[Here].body \in Declaring
Lacking == /\ DeclaresNotification /\ Dest.json = Absent
           /\ Here \in routes /\ json[Here] # Absent
Unrouted == DeclaresNotification /\ Here \notin routes

Start ==
  /\ pc = "idle"
  /\ pc' = "visit" /\ at' = 1 /\ calm' = (calm /\ Fresh)
  /\ UNCHANGED <<tree, routes, main, served, deleted>>

(* An existing directory that lacks nothing, or nothing the tree can give. *)
Skip ==
  /\ Visit(TRUE) /\ ~Lacking
  /\ at' = at + 1 /\ Script("visit") /\ UNCHANGED reg

(* Mistake: the backfill takes the .proto of the tree as well. *)
BackfillProto ==
  /\ Visit(TRUE) /\ Lacking
  /\ Put([Dest EXCEPT !.json = json[Here], !.proto = proto[Here]])
  /\ Script("backfilled") /\ UNCHANGED at

(* An existing directory without schema.json is given one from the tree. *)
Backfill ==
  /\ Visit(TRUE) /\ Lacking
  /\ Put([Dest EXCEPT !.json = json[Here]])
  /\ Script("backfilled") /\ UNCHANGED at

(* Mistake: the manifest is left as it was. *)
KeepManifest ==
  /\ pc = "backfilled"
  /\ at' = at + 1 /\ Script("visit") /\ UNCHANGED reg

RewriteManifest ==
  /\ pc = "backfilled"
  /\ Put([Dest EXCEPT !.manifest = Companions(Dest)])
  /\ at' = at + 1 /\ Script("visit")

(* A module with notifications and no route ends the run. *)
NoRoute ==
  /\ Visit(FALSE) /\ Unrouted
  /\ at' = 1 /\ Script("idle") /\ UNCHANGED reg

(* Mistake: the route is looked up once schema.yang is written. *)
MakeDirBeforeRoute ==
  /\ Visit(FALSE)
  /\ \/ /\ ~Unrouted /\ Put([Dest EXCEPT !.dir = TRUE])
        /\ Script("yang") /\ UNCHANGED at
     \/ /\ Unrouted /\ Put([Dest EXCEPT !.dir = TRUE, !.yang = yang[Here].body])
        /\ Script("idle") /\ at' = 1

(* Mistake: only the module's own directory is made. *)
MakeDirOfModule ==
  /\ Visit(FALSE) /\ ~Unrouted
  /\ Script("yang") /\ UNCHANGED <<reg, at>>

MakeDir ==
  /\ Visit(FALSE) /\ ~Unrouted
  /\ Put([Dest EXCEPT !.dir = TRUE]) /\ Script("yang") /\ UNCHANGED at

CopyYang ==
  /\ pc = "yang"
  /\ Put([Dest EXCEPT !.yang = yang[Here].body])
  /\ Script(IF DeclaresNotification THEN "proto" ELSE "manifest") /\ UNCHANGED at

CopyProto ==
  /\ pc = "proto"
  /\ Put([Dest EXCEPT !.proto = proto[Here]])
  /\ Script("json") /\ UNCHANGED at

WriteSchemaJson ==
  /\ pc = "json"
  /\ Put([Dest EXCEPT !.json = json[Here]])
  /\ Script("manifest") /\ UNCHANGED at

(* Mistake: the manifest lists what a module should have. *)
WriteManifestExpected ==
  /\ pc = "manifest"
  /\ Put([Dest EXCEPT !.manifest = IF DeclaresNotification THEN {"proto", "json"} ELSE {}])
  /\ Script("readme") /\ UNCHANGED at

WriteManifest ==
  /\ pc = "manifest"
  /\ Put([Dest EXCEPT !.manifest = Companions(Dest)])
  /\ Script("readme") /\ UNCHANGED at

WriteReadme ==
  /\ pc = "readme"
  /\ Put([Dest EXCEPT !.readme = TRUE])
  /\ at' = at + 1 /\ Script("visit")

Finish ==
  /\ pc = "visit" /\ at > Len(Order)
  /\ at' = 1 /\ Script("idle") /\ UNCHANGED reg

(* The run is lost between two files, or in one; what it has written stays. *)
Lose == pc' = "idle" /\ at' = 1 /\ calm' = FALSE /\ UNCHANGED <<routes, main, served, deleted>>

Crash == pc # "idle" /\ Lose /\ UNCHANGED tree

Tear ==
  /\ \/ pc = "yang" /\ Put([Dest EXCEPT !.yang = Torn])
     \/ pc = "proto" /\ Put([Dest EXCEPT !.proto = Torn])
     \/ pc = "json" /\ json[Here] # Absent /\ Put([Dest EXCEPT !.json = Torn])
     \/ Visit(TRUE) /\ Lacking /\ Put([Dest EXCEPT !.json = Torn])
     \/ pc = "backfilled" /\ Put([Dest EXCEPT !.manifest = NoManifest])
  /\ Lose /\ UNCHANGED <<yang, proto, json>>

RunScript == \/ Start \/ Skip \/ Backfill \/ RewriteManifest \/ NoRoute \/ MakeDir
             \/ CopyYang \/ CopyProto \/ WriteSchemaJson \/ WriteManifest
             \/ WriteReadme \/ Finish

Next ==
  \/ \E m \in Module, r \in Rev, b \in Body : Edit(m, r, b)
  \/ \E m \in Module, r \in Rev : DeleteSnapshot(m, r)
  \/ \E m \in Module : AddRoute(m)
  \/ Gen \/ Merge \/ RunScript \/ Crash \/ Tear

Spec == Init /\ [][Next]_vars

-----------------------------------------------------------------------------
(* Every variable has its type, and only a directory holds files. *)
TypeOK ==
  /\ [yang |-> yang, proto |-> proto, json |-> json, reg |-> reg] \in Tree
  /\ main \in Tree /\ routes \subseteq Module /\ calm \in BOOLEAN
  /\ served \subseteq Module \X Rev \X (Body \cup {Torn})
  /\ deleted \subseteq Module \X Rev
  /\ pc \in {"idle", "visit", "backfilled", "yang", "proto", "json", "manifest", "readme"}
  /\ at \in 1..(Len(Order) + 1)
  /\ \A m \in Module, r \in Rev : ~reg[m][r].dir => reg[m][r] = NoSnapshot

(* A revision served once is served with the same schema.yang for ever, and *)
(* main's module says the same while it declares that revision: whoever     *)
(* resolved a ce-dataschema URL keeps the contract it saw, over any edits,  *)
(* backfills, deletions of other snapshots and lost runs; so half a         *)
(* schema.yang is never served while main declares its revision.  A deleted *)
(* snapshot takes this away until it is merged anew.                        *)
ServedIsPinned ==
  \A s, t \in served :
    /\ s[1] = t[1] /\ s[2] = t[2] => s[3] = t[3]
    /\ main.yang[s[1]].rev = s[2] => main.yang[s[1]].body = s[3]

(* A published snapshot never gains, loses or changes its schema.yang, its   *)
(* schema.proto or its README.md, and never loses a schema.json:            *)
(* update-schema-registry.sh, "the backfill never touches                   *)
(* schema.yang/schema.proto/README.md".  One that somebody deletes goes.    *)
SnapshotImmutable ==
  [][\A m \in Module, r \in Rev :
       LET old == main.reg[m][r]
           new == main'.reg[m][r]
       IN old.dir /\ <<m, r>> \notin deleted =>
                     /\ new.dir /\ new.yang = old.yang
                     /\ new.proto = old.proto /\ new.readme = old.readme
                     /\ old.json # Absent => new.json = old.json
    ]_main

(* A manifest never names a file that is not there, whenever a run is lost. *)
ManifestResolves ==
  \A m \in Module, r \in Rev :
    reg[m][r].manifest \in (SUBSET Companions(reg[m][r])) \cup {NoManifest}

(* update-schema-registry.sh rewrites MANIFEST.json "to refresh the files   *)
(* list after a same-revision backfill": while no run is lost, a manifest   *)
(* names every companion that is there.                                     *)
ManifestComplete ==
  calm /\ pc = "idle" => \A m \in Module, r \in Rev :
    reg[m][r].manifest \in {NoManifest, Companions(reg[m][r])}

(* update-schema-registry.sh: "Every snapshot always carries schema.yang. A *)
(* module that declares at least one live `notification` statement also     *)
(* carries schema.proto".  Here: every snapshot main serves.                *)
SnapshotComplete ==
  \A m \in Module, r \in Rev :
    main.reg[m][r].dir =>
      /\ main.reg[m][r].yang # Absent
      /\ main.reg[m][r].yang \in LiveBody => main.reg[m][r].proto # Absent

(* That holds while no run is lost, whatever order routes, modules and runs *)
(* come in, and the schema.proto is then the one of the schema.yang next to *)
(* it: "derived 1:1 from it".                                               *)
CalmSnapshots ==
  calm => /\ SnapshotComplete
          /\ \A m \in Module, r \in Rev :
               main.reg[m][r].proto \in {Absent, main.reg[m][r].yang}

(* update-schema-registry.sh: a backfilled schema.json is "additive,        *)
(* derived": it is the one of the snapshot's own schema.yang, when no run   *)
(* is lost and each begins with regenerated files.                          *)
JsonOfItsYang ==
  calm => \A m \in Module, r \in Rev :
    main.reg[m][r].json \in {Absent, main.reg[m][r].yang}
=============================================================================
