------------------------ MODULE SchemaRegistryProofs ------------------------
(***************************************************************************)
(* Proofs about SchemaRegistry, for any number of modules, revisions and   *)
(* texts.  The invariant IInv relates the registry of the tree to the one   *)
(* main has (Published), says what main may hold (OnMain), what every       *)
(* snapshot may hold (Snapshots), what the one being made holds at each     *)
(* step of the script (AtDest), and what all of them hold while no run was  *)
(* lost (Calm).                                                             *)
(***************************************************************************)
EXTENDS SchemaRegistry, TLAPS

Pcs == {"idle", "visit", "backfilled", "yang", "proto", "json", "manifest", "readme"}
Work == {"yang", "proto", "json", "manifest", "readme"}

(* A file other than the manifest. *)
HasFile(s) == s.yang # Absent \/ s.proto # Absent \/ s.json # Absent \/ s.readme

(* schema.yang, and if that declares a notification its schema.proto. *)
Whole(s) ==
  /\ s.yang # Absent
  /\ s.yang \in Declaring => s.proto # Absent
  /\ s.proto \in {Absent, s.yang}

(* s keeps what was published as o. *)
Keeps(s, o) ==
  /\ s.dir /\ s.yang = o.yang /\ s.proto = o.proto /\ s.readme = o.readme
  /\ o.json # Absent => s.json = o.json

Resolves(s) ==
  /\ s.manifest \in (SUBSET Companions(s)) \cup {NoManifest}
  /\ s.manifest # NoManifest => HasFile(s)

(* What main has and nobody deleted. *)
Kept(m, r) == main.reg[m][r].dir /\ <<m, r>> \notin deleted

Busy == pc \in Work \cup {"backfilled"} => at <= Len(Order)

Published ==
  \A m \in Module, r \in Rev : Kept(m, r) => Keeps(reg[m][r], main.reg[m][r])

OnMain ==
  /\ \A m \in Module, r \in Rev :
       IF main.reg[m][r].dir THEN HasFile(main.reg[m][r]) ELSE main.reg[m][r] = NoSnapshot
  /\ \A m \in Module :
       main.reg[m][main.yang[m].rev].yang \in {Absent, main.yang[m].body}
  /\ \A s \in served : /\ <<s[1], s[2]>> \notin deleted
                       /\ main.reg[s[1]][s[2]].yang = s[3]

Snapshots == \A m \in Module, r \in Rev : Resolves(reg[m][r])

AtDest ==
  /\ pc = "backfilled" => Dest.dir /\ Dest.json # Absent
  /\ pc \in Work => Dest.dir /\ ~Kept(Here, HereRev)
  /\ pc \in Work \ {"yang"} => Dest.yang = yang[Here].body
  /\ pc \in Work \ {"readme"} => Dest.manifest = NoManifest

CalmDest ==
  /\ pc # "idle" => Fresh
  /\ pc \in {"yang", "proto"} => Dest.proto = Absent
  /\ pc = "proto" => DeclaresNotification
  /\ pc \in {"json", "manifest", "readme"} => Whole(Dest)

CalmReg ==
  \A m \in Module, r \in Rev :
    /\ \/ reg[m][r].dir => Whole(reg[m][r])
       \/ pc \in Work /\ m = Here /\ r = HereRev
    /\ \/ reg[m][r].manifest \in {NoManifest, Companions(reg[m][r])}
       \/ pc = "backfilled" /\ m = Here /\ r = HereRev

CalmMain == \A m \in Module, r \in Rev : main.reg[m][r].dir => Whole(main.reg[m][r])

Calm == calm => CalmDest /\ CalmReg /\ CalmMain

IInv == TypeOK /\ Busy /\ Published /\ OnMain /\ Snapshots /\ AtDest /\ Calm

-----------------------------------------------------------------------------
(* Types, spelled out. *)
LEMMA Types ==
  ASSUME TypeOK
  PROVE  /\ yang \in [Module -> [rev : Rev, body : Body]] /\ proto \in [Module -> Body]
         /\ json \in [Module -> Body \cup {Absent}]
         /\ reg \in [Module -> [Rev -> Snapshot]]
         /\ main.yang \in [Module -> [rev : Rev, body : Body]]
         /\ main.reg \in [Module -> [Rev -> Snapshot]]
         /\ pc \in Pcs /\ at \in 1..(Len(Order) + 1) /\ calm \in BOOLEAN
  BY DEF TypeOK, Tree, Pcs

LEMMA HereIsModule ==
  ASSUME TypeOK, at <= Len(Order)
  PROVE  /\ Here \in Module /\ HereRev \in Rev /\ Dest \in Snapshot
         /\ yang[Here].body \in Body
<1>1. Here \in Module
  BY RegistryAssumption DEF Here, TypeOK
<1>. QED BY <1>1, Types DEF HereRev, Dest

LEMMA Others ==
  ASSUME TypeOK, at <= Len(Order), NEW n, Put(n)
  PROVE  /\ reg'[Here][HereRev] = n
         /\ \A m \in Module, r \in Rev :
              m # Here \/ r # HereRev => reg'[m][r] = reg[m][r]
         /\ n \in Snapshot => reg' \in [Module -> [Rev -> Snapshot]]
  BY HereIsModule, Types DEF Put

(* What a step of the script has to show of the snapshot it writes. *)
LEMMA PutKeeps ==
  ASSUME IInv, at <= Len(Order), NEW n \in Snapshot, Put(n),
         UNCHANGED <<yang, proto, json, routes, main, served, deleted>>, calm' \in BOOLEAN,
         pc' \in Pcs, at' \in 1..(Len(Order) + 1),
         n.dir, Resolves(n), Kept(Here, HereRev) => Keeps(n, Dest)
  PROVE  TypeOK' /\ Published' /\ OnMain' /\ Snapshots'
<1>. USE DEF IInv
<1>1. TypeOK'
  <2>1. reg' \in [Module -> [Rev -> Snapshot]]
    BY Others
  <2>2. [yang |-> yang, proto |-> proto, json |-> json, reg |-> reg]' \in Tree
    BY <2>1, Types DEF Tree
  <2>3. \A m \in Module, r \in Rev : ~reg'[m][r].dir => reg'[m][r] = NoSnapshot
    BY Others DEF TypeOK
  <2>. QED BY <2>2, <2>3 DEF TypeOK, Pcs
<1>2. Published'
  <2>1. Kept(Here, HereRev) => Keeps(n, main.reg[Here][HereRev])
    BY HereIsModule DEF Published, Keeps, Dest
  <2>2. \A m \in Module, r \in Rev : Kept(m, r)' = Kept(m, r)
    BY DEF Kept
  <2>. QED BY <2>1, <2>2, Others DEF Published
<1>3. OnMain'
  BY DEF OnMain
<1>4. Snapshots'
  BY Others DEF Snapshots
<1>. QED BY <1>1, <1>2, <1>3, <1>4

-----------------------------------------------------------------------------
(* The initial states satisfy the invariant. *)
LEMMA InitIInv == Init => IInv
<1>. SUFFICES ASSUME NEW y \in [Module -> [rev : {1}, body : Text[1]]],
                     yang = y, proto = Generated(y), json = GeneratedJson(y),
                     reg = [m \in Module |-> [r \in Rev |-> NoSnapshot]],
                     main = [yang |-> y, proto |-> proto, json |-> json, reg |-> reg],
                     routes \in SUBSET Module, calm = TRUE, served = {}, deleted = {}, pc = "idle", at = 1
              PROVE  IInv
  BY DEF Init
<1>1. y \in [Module -> [rev : Rev, body : Body]]
  <2>1. 1 \in Rev
    BY RegistryAssumption DEF Rev
  <2>2. Text[1] \subseteq Body
    BY <2>1, RegistryAssumption
  <2>. QED BY <2>1, <2>2
<1>2. proto \in [Module -> Body] /\ json \in [Module -> Body \cup {Absent}]
  BY <1>1 DEF Generated, GeneratedJson
<1>3. NoSnapshot \in Snapshot
  BY DEF NoSnapshot, Snapshot
<1>4. reg \in [Module -> [Rev -> Snapshot]]
  BY <1>3
<1>5. \A m \in Module, r \in Rev : reg[m][r] = NoSnapshot
  OBVIOUS
<1>6. main.reg = reg /\ main.yang = y
  OBVIOUS
<1>7. TypeOK
  <2>1. main \in Tree
    BY <1>1, <1>2, <1>4 DEF Tree
  <2>2. at \in 1..(Len(Order) + 1)
    BY RegistryAssumption
  <2>. QED BY <2>1, <2>2, <1>1, <1>2, <1>4, <1>5 DEF TypeOK, Tree
<1>8. Published /\ OnMain /\ Snapshots
  <2>1. \A m \in Module : y[m].rev \in Rev
    BY <1>1
  <2>. QED BY <1>5, <1>6, <2>1 DEF Published, Kept, OnMain, Snapshots, Resolves, NoSnapshot
<1>9. Busy /\ AtDest /\ Calm
  BY <1>5, <1>6 DEF Busy, AtDest, Calm, CalmDest, CalmReg, CalmMain, NoSnapshot, Work
<1>. QED BY <1>7, <1>8, <1>9 DEF IInv

-----------------------------------------------------------------------------
(* The developer and the gates: the script is not running. *)

LEMMA EditKeeps ==
  ASSUME IInv, NEW m \in Module, NEW r \in Rev, NEW b \in Body, Edit(m, r, b)
  PROVE  IInv'
<1>. USE DEF IInv, Edit
<1>1. yang' \in [Module -> [rev : Rev, body : Body]]
  BY Types
<1>2. TypeOK'
  BY <1>1, Types DEF TypeOK, Tree
<1>3. Published' /\ OnMain' /\ Snapshots' /\ Busy'
  BY DEF Published, Kept, OnMain, Snapshots, Busy
<1>4. AtDest' /\ Calm'
  BY DEF AtDest, Calm, CalmDest, CalmReg, CalmMain, Work
<1>. QED BY <1>2, <1>3, <1>4

LEMMA GenKeeps == IInv /\ Gen => IInv'
<1>. SUFFICES ASSUME IInv, Gen PROVE IInv'
  OBVIOUS
<1>. USE DEF IInv, Gen
<1>1. proto' \in [Module -> Body] /\ json' \in [Module -> Body \cup {Absent}]
  BY Types DEF Generated, GeneratedJson
<1>2. TypeOK'
  BY <1>1, Types DEF TypeOK, Tree
<1>3. Published' /\ OnMain' /\ Snapshots' /\ Busy'
  BY DEF Published, Kept, OnMain, Snapshots, Busy
<1>4. AtDest' /\ Calm'
  BY DEF AtDest, Calm, CalmDest, CalmReg, CalmMain, Work
<1>. QED BY <1>2, <1>3, <1>4

LEMMA DeleteKeeps ==
  ASSUME IInv, NEW m \in Module, NEW r \in Rev, DeleteSnapshot(m, r)
  PROVE  IInv'
<1>. USE DEF IInv, DeleteSnapshot
<1>1. NoSnapshot \in Snapshot /\ ~NoSnapshot.dir /\ Resolves(NoSnapshot)
        /\ NoSnapshot.manifest = NoManifest
  BY DEF NoSnapshot, Snapshot, Resolves
<1>2. /\ reg' \in [Module -> [Rev -> Snapshot]]
      /\ \A o \in Module, q \in Rev : reg'[o][q] = reg[o][q] \/ reg'[o][q] = NoSnapshot
      /\ \A o \in Module, q \in Rev :
           Kept(o, q)' => Kept(o, q) /\ reg'[o][q] = reg[o][q]
  <2>1. reg'[m][r] = NoSnapshot
    BY Types
  <2>2. \A o \in Module, q \in Rev : o # m \/ q # r => reg'[o][q] = reg[o][q]
    BY Types
  <2>3. deleted \subseteq deleted'
    OBVIOUS
  <2>4. ~Kept(m, r)'
    BY <1>1 DEF Kept
  <2>5. \A o \in Module, q \in Rev : Kept(o, q)' => Kept(o, q)
    BY <2>3 DEF Kept
  <2>6. reg' \in [Module -> [Rev -> Snapshot]]
    BY <1>1, Types
  <2>. QED BY <2>1, <2>2, <2>4, <2>5, <2>6
<1>3. TypeOK'
  <2>1. deleted' \subseteq Module \X Rev
    BY DEF TypeOK
  <2>. QED BY <1>2, <2>1, Types DEF TypeOK, Tree
<1>4. Published' /\ OnMain' /\ Snapshots' /\ Busy'
  <2>1. Published'
    BY <1>2 DEF Published
  <2>. QED BY <2>1, <1>1, <1>2 DEF OnMain, Snapshots, Busy
<1>5. AtDest' /\ Calm'
  BY <1>1, <1>2 DEF AtDest, Calm, CalmDest, CalmReg, CalmMain, Work
<1>. QED BY <1>3, <1>4, <1>5

LEMMA AddRouteKeeps ==
  ASSUME IInv, NEW m \in Module, AddRoute(m)
  PROVE  IInv'
<1>. USE DEF IInv, AddRoute, tree
<1>1. TypeOK'
  BY DEF TypeOK, Tree
<1>2. Published' /\ OnMain' /\ Snapshots' /\ Busy'
  BY DEF Published, Kept, OnMain, Snapshots, Busy
<1>3. AtDest' /\ Calm'
  BY DEF AtDest, Calm, CalmDest, CalmReg, CalmMain, Work, Fresh
<1>. QED BY <1>1, <1>2, <1>3

(* What git commits is the tree's snapshot, or none of an empty directory. *)
LEMMA CommittedIs ==
  ASSUME TypeOK, NEW m \in Module, NEW r \in Rev
  PROVE  /\ Committed[m][r] \in Snapshot
         /\ Committed[m][r] = reg[m][r] \/ Committed[m][r] = NoSnapshot
         /\ HasFile(reg[m][r]) => Committed[m][r] = reg[m][r]
         /\ Resolves(reg[m][r]) /\ Committed[m][r].dir => HasFile(Committed[m][r])
         /\ ~Committed[m][r].dir => Committed[m][r] = NoSnapshot
<1>. DEFINE s == reg[m][r]
            Empty == [NoSnapshot EXCEPT !.dir = TRUE]
<1>1. s \in Snapshot /\ (~s.dir => s = NoSnapshot)
  BY Types DEF TypeOK
<1>2. Committed[m][r] = IF s = Empty THEN NoSnapshot ELSE s
  BY DEF Committed
<1>3. NoSnapshot \in Snapshot /\ ~NoSnapshot.dir /\ ~HasFile(Empty)
  BY DEF NoSnapshot, Snapshot, HasFile
<1>4. s.dir /\ ~HasFile(s) /\ s.manifest = NoManifest => s = Empty
  <2>. SUFFICES ASSUME s.dir, ~HasFile(s), s.manifest = NoManifest PROVE s = Empty
    OBVIOUS
  <2>1. s.dir = TRUE /\ s.readme = FALSE
    BY <1>1 DEF HasFile, Snapshot
  <2>2. s.yang = Absent /\ s.proto = Absent /\ s.json = Absent
    BY DEF HasFile
  <2>3. s = [dir |-> s.dir, yang |-> s.yang, proto |-> s.proto, json |-> s.json,
             manifest |-> s.manifest, readme |-> s.readme]
    BY <1>1 DEF Snapshot
  <2>4. Empty = [dir |-> TRUE, yang |-> Absent, proto |-> Absent, json |-> Absent,
                 manifest |-> NoManifest, readme |-> FALSE]
    <3>1. /\ Empty \in Snapshot /\ Empty.dir = TRUE /\ Empty.yang = Absent
          /\ Empty.proto = Absent /\ Empty.json = Absent
          /\ Empty.manifest = NoManifest /\ Empty.readme = FALSE
      BY DEF NoSnapshot, Snapshot
    <3>2. Empty = [dir |-> Empty.dir, yang |-> Empty.yang, proto |-> Empty.proto,
                   json |-> Empty.json, manifest |-> Empty.manifest, readme |-> Empty.readme]
      <4>. HIDE DEF Empty
      <4>. QED BY <3>1 DEF Snapshot
    <3>. HIDE DEF Empty
    <3>. QED BY <3>1, <3>2
  <2>. HIDE DEF Empty
  <2>. QED BY <2>1, <2>2, <2>3, <2>4
<1>5. Resolves(s) /\ s.dir /\ ~HasFile(s) => s = Empty
  BY <1>4 DEF Resolves
<1>. HIDE DEF Empty
<1>. QED BY <1>1, <1>2, <1>3, <1>5

LEMMA MergeKeeps == IInv /\ Merge => IInv'
<1>. SUFFICES ASSUME IInv, Merge PROVE IInv'
  OBVIOUS
<1>. USE DEF IInv
<1>1. /\ UNCHANGED <<yang, proto, json, reg, routes, calm, pc, at>> /\ deleted' = {} 
      /\ pc = "idle"
      /\ main' = [yang |-> yang, proto |-> proto, json |-> json, reg |-> Committed]
      /\ main'.reg = Committed /\ main'.yang = yang
  BY DEF Merge, tree
<1>2. Committed \in [Module -> [Rev -> Snapshot]]
  BY CommittedIs DEF Committed
<1>3. served' \subseteq Module \X Rev \X (Body \cup {Torn})
  <2>1. ASSUME NEW m \in Module, NEW r \in Rev, Committed[m][r].yang # Absent
        PROVE  Committed[m][r].yang \in Body \cup {Torn}
    BY <2>1, CommittedIs DEF Snapshot
  <2>2. \A s \in served' \ served : s \in Module \X Rev \X (Body \cup {Torn})
    BY <2>1 DEF Merge
  <2>. QED BY <2>2 DEF TypeOK
<1>4. TypeOK'
  <2>1. main' \in Tree
    BY <1>1, <1>2, Types DEF Tree
  <2>. QED BY <2>1, <1>1, <1>3 DEF TypeOK
<1>5. Published'
  <2>. SUFFICES ASSUME NEW m \in Module, NEW r \in Rev, Committed[m][r].dir
                PROVE  Keeps(reg[m][r], Committed[m][r])
    BY <1>1 DEF Published, Kept
  <2>1. Committed[m][r] = reg[m][r]
    BY CommittedIs DEF NoSnapshot
  <2>. QED BY <2>1 DEF Keeps
<1>6. OnMain'
  <2>1. \A m \in Module, r \in Rev :
          IF main'.reg[m][r].dir THEN HasFile(main'.reg[m][r]) ELSE main'.reg[m][r] = NoSnapshot
    BY <1>1, CommittedIs DEF Snapshots
  <2>2. \A m \in Module : Committed[m][yang[m].rev].yang \in {Absent, yang[m].body}
    <3>. TAKE m \in Module
    <3>1. yang[m].rev \in Rev
      BY Types
    <3>2. reg[m][yang[m].rev].yang \in {Absent, yang[m].body}
      BY DEF Merge, CheckRevisions
    <3>. QED BY <3>1, <3>2, CommittedIs DEF NoSnapshot
  <2>3. \A s \in served : Committed[s[1]][s[2]].yang = s[3]
    <3>. TAKE s \in served
    <3>1. s[1] \in Module /\ s[2] \in Rev /\ s[3] # Absent
      BY RegistryAssumption DEF TypeOK, Absent, Torn
    <3>2. main.reg[s[1]][s[2]].yang = s[3] /\ <<s[1], s[2]>> \notin deleted
      BY DEF OnMain
    <3>3. main.reg[s[1]][s[2]].dir
      BY <3>1, <3>2 DEF OnMain, NoSnapshot
    <3>4. reg[s[1]][s[2]].yang = s[3]
      BY <3>1, <3>2, <3>3 DEF Published, Kept, Keeps
    <3>. QED BY <3>1, <3>4, CommittedIs DEF HasFile
  <2>4. \A s \in served' : main'.reg[s[1]][s[2]].yang = s[3]
    BY <2>3, <1>1 DEF Merge
  <2>. QED BY <2>1, <2>2, <2>4, <1>1 DEF OnMain
<1>7. Snapshots' /\ Busy' /\ AtDest'
  BY <1>1 DEF Snapshots, Busy, AtDest, Work
<1>8. Calm'
  <2>. SUFFICES ASSUME calm PROVE CalmReg' /\ CalmMain'
    BY <1>1 DEF Calm, CalmDest
  <2>1. \A m \in Module, r \in Rev : reg[m][r].dir => Whole(reg[m][r])
    BY <1>1 DEF Calm, CalmReg, Work
  <2>2. \A m \in Module, r \in Rev : Committed[m][r].dir => Whole(Committed[m][r])
    BY <2>1, CommittedIs DEF NoSnapshot
  <2>3. CalmReg'
    BY <1>1 DEF Calm, CalmReg, Work
  <2>. QED BY <2>2, <2>3, <1>1 DEF CalmMain
<1>. QED BY <1>4, <1>5, <1>6, <1>7, <1>8

-----------------------------------------------------------------------------
(* A run of the script. *)

StepFrame == UNCHANGED <<yang, proto, json, routes, main, calm, served, deleted>>

LEMMA ScriptIs ==
  ASSUME NEW to, Script(to)
  PROVE  pc' = to /\ StepFrame
  BY DEF Script, StepFrame

LEMMA StartKeeps == IInv /\ Start => IInv'
<1>. SUFFICES ASSUME IInv, Start PROVE IInv'
  OBVIOUS
<1>. USE DEF IInv, Start, tree
<1>1. TypeOK'
  BY RegistryAssumption DEF TypeOK
<1>2. Published' /\ OnMain' /\ Snapshots' /\ Busy' /\ AtDest'
  BY DEF Published, Kept, OnMain, Snapshots, Busy, AtDest, Work
<1>3. Calm'
  BY DEF Calm, CalmDest, CalmReg, CalmMain, Work, Fresh
<1>. QED BY <1>1, <1>2, <1>3

(* A step that writes nothing and leaves the script between two modules. *)
LEMMA IdleStepKeeps ==
  ASSUME IInv, UNCHANGED reg, StepFrame, pc = "visit", pc' \in {"visit", "idle"},
         at' \in 1..(Len(Order) + 1)
  PROVE  IInv'
<1>. USE DEF IInv, StepFrame
<1>1. TypeOK'
  BY DEF TypeOK
<1>2. Published' /\ OnMain' /\ Snapshots' /\ Busy' /\ AtDest'
  BY DEF Published, Kept, OnMain, Snapshots, Busy, AtDest, Work
<1>3. Calm'
  BY DEF Calm, CalmDest, CalmReg, CalmMain, Work, Fresh
<1>. QED BY <1>1, <1>2, <1>3

LEMMA SkipKeeps == IInv /\ Skip => IInv'
<1>. SUFFICES ASSUME IInv, Skip PROVE IInv'
  OBVIOUS
<1>1. at' \in 1..(Len(Order) + 1) /\ pc' = "visit" /\ StepFrame
  BY RegistryAssumption DEF IInv, TypeOK, Skip, Visit, Script, StepFrame
<1>. QED BY <1>1, IdleStepKeeps DEF Skip, Visit

LEMMA NoRouteKeeps == IInv /\ NoRoute => IInv'
<1>. SUFFICES ASSUME IInv, NoRoute PROVE IInv'
  OBVIOUS
<1>1. at' \in 1..(Len(Order) + 1) /\ pc' = "idle" /\ StepFrame
  BY RegistryAssumption DEF NoRoute, Script, StepFrame
<1>. QED BY <1>1, IdleStepKeeps DEF NoRoute, Visit

LEMMA FinishKeeps == IInv /\ Finish => IInv'
<1>. SUFFICES ASSUME IInv, Finish PROVE IInv'
  OBVIOUS
<1>1. at' \in 1..(Len(Order) + 1) /\ pc' = "idle" /\ StepFrame
  BY RegistryAssumption DEF Finish, Script, StepFrame
<1>. QED BY <1>1, IdleStepKeeps DEF Finish

LEMMA CrashKeeps == IInv /\ Crash => IInv'
<1>. SUFFICES ASSUME IInv, Crash PROVE IInv'
  OBVIOUS
<1>. USE DEF IInv, Crash, Lose, tree
<1>1. TypeOK'
  <2>0. Len(Order) \in Nat
    BY RegistryAssumption
  <2>1. at' \in 1..(Len(Order) + 1) /\ calm' = FALSE /\ pc' = "idle"
    BY <2>0
  <2>2. [yang |-> yang, proto |-> proto, json |-> json, reg |-> reg]' \in Tree
    BY Types DEF Tree
  <2>. QED BY <2>1, <2>2 DEF TypeOK
<1>2. Published' /\ OnMain' /\ Snapshots' /\ Busy' /\ AtDest' /\ Calm'
  BY DEF Published, Kept, OnMain, Snapshots, Busy, AtDest, Work, Calm
<1>. QED BY <1>1, <1>2

(* A step that writes n into the snapshot being made or backfilled, and      *)
(* stays at the module.                                                      *)
LEMMA WriteKeeps ==
  ASSUME IInv, at <= Len(Order), NEW n \in Snapshot, Put(n), StepFrame, at' = at,
         pc' \in Work \cup {"backfilled"}, n.dir, Resolves(n),
         Kept(Here, HereRev) => Keeps(n, Dest),
         pc' = "backfilled" => n.json # Absent,
         pc' \in Work => ~Kept(Here, HereRev),
         pc' \in Work \ {"yang"} => n.yang = yang[Here].body,
         pc' \in Work \ {"readme"} => n.manifest = NoManifest,
         calm => /\ Fresh
                 /\ pc' \in {"yang", "proto"} => n.proto = Absent
                 /\ pc' = "proto" => DeclaresNotification
                 /\ pc' \in {"json", "manifest", "readme", "backfilled"} => Whole(n)
                 /\ pc' # "backfilled" => n.manifest \in {NoManifest, Companions(n)}
                 /\ pc \in Work \cup {"visit"}
  PROVE  IInv'
<1>. USE DEF IInv
<1>1. pc' \in Pcs /\ at' \in 1..(Len(Order) + 1)
  BY DEF Pcs, Work, TypeOK
<1>2. TypeOK' /\ Published' /\ OnMain' /\ Snapshots'
  <2>1. calm' \in BOOLEAN
    BY DEF StepFrame, TypeOK
  <2>. QED BY <1>1, <2>1, PutKeeps DEF StepFrame
<1>3. Here' = Here /\ HereRev' = HereRev /\ Dest' = n /\ Here \in Module /\ HereRev \in Rev
  BY Others, HereIsModule DEF StepFrame, Here, HereRev, Dest
<1>4. Busy'
  BY DEF Busy
<1>5. AtDest'
  BY <1>3 DEF AtDest, StepFrame, Work, Kept
<1>6. Calm'
  <2>. SUFFICES ASSUME calm PROVE CalmDest' /\ CalmReg' /\ CalmMain'
    BY DEF Calm, StepFrame
  <2>1. CalmDest'
    BY <1>3 DEF CalmDest, StepFrame, Fresh, DeclaresNotification, Work
  <2>2. CalmReg'
    <3>. SUFFICES ASSUME NEW m \in Module, NEW r \in Rev
                  PROVE  /\ \/ reg'[m][r].dir => Whole(reg'[m][r])
                            \/ pc' \in Work /\ m = Here /\ r = HereRev
                         /\ \/ reg'[m][r].manifest \in {NoManifest, Companions(reg'[m][r])}
                            \/ pc' = "backfilled" /\ m = Here /\ r = HereRev
      BY <1>3 DEF CalmReg
    <3>1. CASE m = Here /\ r = HereRev
      BY <3>1, Others DEF Work
    <3>2. CASE ~(m = Here /\ r = HereRev)
      BY <3>2, Others DEF Calm, CalmReg, Work
    <3>. QED BY <3>1, <3>2
  <2>3. CalmMain'
    BY DEF Calm, CalmMain, StepFrame
  <2>. QED BY <2>1, <2>2, <2>3
<1>. QED BY <1>2, <1>4, <1>5, <1>6

(* The last step at a module: the script goes to the next. *)
LEMMA LastWriteKeeps ==
  ASSUME IInv, at <= Len(Order), NEW n \in Snapshot, Put(n), StepFrame, at' = at + 1,
         pc' = "visit", n.dir, Resolves(n),
         Kept(Here, HereRev) => Keeps(n, Dest),
         calm => /\ Fresh /\ Whole(n)
                 /\ n.manifest \in {NoManifest, Companions(n)}
                 /\ pc \in Work \cup {"backfilled"}
  PROVE  IInv'
<1>. USE DEF IInv
<1>1. pc' \in Pcs /\ at' \in 1..(Len(Order) + 1)
  BY RegistryAssumption DEF Pcs, TypeOK
<1>2. TypeOK' /\ Published' /\ OnMain' /\ Snapshots'
  <2>1. calm' \in BOOLEAN
    BY DEF StepFrame, TypeOK
  <2>. QED BY <1>1, <2>1, PutKeeps DEF StepFrame
<1>3. Busy' /\ AtDest'
  BY DEF Busy, AtDest, Work
<1>4. Calm'
  <2>. SUFFICES ASSUME calm PROVE CalmDest' /\ CalmReg' /\ CalmMain'
    BY DEF Calm, StepFrame
  <2>1. CalmDest'
    BY DEF CalmDest, StepFrame, Fresh
  <2>2. CalmReg'
    <3>. SUFFICES ASSUME NEW m \in Module, NEW r \in Rev
                  PROVE  /\ reg'[m][r].dir => Whole(reg'[m][r])
                         /\ reg'[m][r].manifest \in {NoManifest, Companions(reg'[m][r])}
      BY DEF CalmReg
    <3>1. CASE m = Here /\ r = HereRev
      BY <3>1, Others
    <3>2. CASE ~(m = Here /\ r = HereRev)
      BY <3>2, Others DEF Calm, CalmReg
    <3>. QED BY <3>1, <3>2
  <2>3. CalmMain'
    BY DEF Calm, CalmMain, StepFrame
  <2>. QED BY <2>1, <2>2, <2>3
<1>. QED BY <1>2, <1>3, <1>4

LEMMA BackfillKeeps == IInv /\ Backfill => IInv'
<1>. SUFFICES ASSUME IInv, Backfill PROVE IInv'
  OBVIOUS
<1>. DEFINE n == [Dest EXCEPT !.json = json[Here]]
<1>1. /\ at <= Len(Order) /\ Dest.dir /\ pc = "visit" /\ Put(n) /\ StepFrame
      /\ at' = at /\ pc' = "backfilled" /\ Dest.json = Absent /\ json[Here] # Absent
  BY DEF Backfill, Visit, Lacking, Script, StepFrame
<1>2. TypeOK /\ Here \in Module /\ HereRev \in Rev /\ Dest \in Snapshot
        /\ json[Here] \in Body \cup {Absent}
  BY <1>1, HereIsModule, Types DEF IInv
<1>3. /\ n \in Snapshot /\ n.dir /\ n.yang = Dest.yang /\ n.proto = Dest.proto
      /\ n.json = json[Here] /\ n.manifest = Dest.manifest /\ n.readme = Dest.readme
  BY <1>1, <1>2 DEF Snapshot
<1>. HIDE DEF n
<1>4. Resolves(Dest)
  BY <1>2 DEF IInv, Snapshots, Dest
<1>5. Resolves(n)
  BY <1>1, <1>3, <1>4 DEF Resolves, Companions, HasFile
<1>6. Kept(Here, HereRev) => Keeps(n, Dest)
  BY <1>1, <1>3 DEF Keeps
<1>7. calm => Fresh /\ Whole(n)
  BY <1>1, <1>2, <1>3 DEF IInv, Calm, CalmDest, CalmReg, Whole, Work, Dest
<1>. QED BY <1>1, <1>2, <1>3, <1>5, <1>6, <1>7, WriteKeeps DEF Work

LEMMA RewriteManifestKeeps == IInv /\ RewriteManifest => IInv'
<1>. SUFFICES ASSUME IInv, RewriteManifest PROVE IInv'
  OBVIOUS
<1>. DEFINE n == [Dest EXCEPT !.manifest = Companions(Dest)]
<1>1. /\ pc = "backfilled" /\ Put(n) /\ StepFrame /\ at' = at + 1 /\ pc' = "visit"
  BY DEF RewriteManifest, Script, StepFrame
<1>2. TypeOK /\ at <= Len(Order) /\ Here \in Module /\ HereRev \in Rev /\ Dest \in Snapshot
        /\ Dest.dir /\ Dest.json # Absent
  BY <1>1, HereIsModule DEF IInv, Busy, AtDest
<1>3. /\ n \in Snapshot /\ n.dir /\ n.yang = Dest.yang /\ n.proto = Dest.proto
      /\ n.json = Dest.json /\ n.manifest = Companions(Dest) /\ n.readme = Dest.readme
  BY <1>2 DEF Snapshot, Companions
<1>. HIDE DEF n
<1>4. Companions(n) = Companions(Dest)
  BY <1>3 DEF Companions
<1>5. Resolves(n)
  BY <1>2, <1>3, <1>4 DEF Resolves, HasFile
<1>6. Keeps(n, Dest)
  BY <1>2, <1>3 DEF Keeps
<1>7. calm => Fresh /\ Whole(n)
  BY <1>1, <1>2, <1>3 DEF IInv, Calm, CalmDest, CalmReg, Whole, Work, Dest
<1>. QED BY <1>1, <1>2, <1>3, <1>4, <1>5, <1>6, <1>7, LastWriteKeeps

LEMMA MakeDirKeeps == IInv /\ MakeDir => IInv'
<1>. SUFFICES ASSUME IInv, MakeDir PROVE IInv'
  OBVIOUS
<1>. DEFINE n == [Dest EXCEPT !.dir = TRUE]
<1>1. /\ at <= Len(Order) /\ ~Dest.dir /\ pc = "visit" /\ Put(n) /\ StepFrame
      /\ at' = at /\ pc' = "yang"
  BY DEF MakeDir, Visit, Script, StepFrame
<1>2. TypeOK /\ Here \in Module /\ HereRev \in Rev /\ Dest \in Snapshot
  BY <1>1, HereIsModule DEF IInv
<1>3. Dest = NoSnapshot
  BY <1>1, <1>2 DEF TypeOK, Dest
<1>4. /\ n \in Snapshot /\ n.dir /\ n.yang = Absent /\ n.proto = Absent
      /\ n.json = Absent /\ n.manifest = NoManifest
  BY <1>2, <1>3 DEF Snapshot, NoSnapshot
<1>. HIDE DEF n
<1>5. Resolves(n)
  BY <1>4 DEF Resolves
<1>6. ~Kept(Here, HereRev)
  BY <1>1, <1>2 DEF IInv, Published, Keeps, Dest
<1>7. calm => Fresh
  BY <1>1 DEF IInv, Calm, CalmDest
<1>. QED BY <1>1, <1>2, <1>4, <1>5, <1>6, <1>7, WriteKeeps DEF Work

(* At a step of Work the snapshot being made is not on main. *)
LEMMA AtWork ==
  ASSUME IInv, pc \in Work
  PROVE  /\ TypeOK /\ at <= Len(Order) /\ Here \in Module /\ HereRev \in Rev
         /\ Dest \in Snapshot /\ Dest.dir /\ yang[Here].body \in Body
         /\ proto[Here] \in Body /\ json[Here] \in Body \cup {Absent}
         /\ ~Kept(Here, HereRev)
         /\ pc # "yang" => Dest.yang = yang[Here].body /\ Dest.yang # Absent
         /\ pc # "readme" => Dest.manifest = NoManifest
         /\ calm => Fresh /\ proto[Here] = yang[Here].body
         /\ yang[Here].body # Absent
<1>1. TypeOK /\ at <= Len(Order)
  BY DEF IInv, Busy
<1>2. /\ Here \in Module /\ HereRev \in Rev /\ Dest \in Snapshot /\ yang[Here].body \in Body
      /\ proto[Here] \in Body /\ json[Here] \in Body \cup {Absent}
  BY <1>1, HereIsModule, Types
<1>3. /\ Dest.dir /\ ~Kept(Here, HereRev)
      /\ pc # "yang" => Dest.yang = yang[Here].body
      /\ pc # "readme" => Dest.manifest = NoManifest
  BY DEF IInv, AtDest
<1>4. calm => Fresh
  BY DEF IInv, Calm, CalmDest, Work
<1>. QED BY <1>1, <1>2, <1>3, <1>4, RegistryAssumption DEF NoSnapshot, Fresh, Generated

LEMMA CopyYangKeeps == IInv /\ CopyYang => IInv'
<1>. SUFFICES ASSUME IInv, CopyYang PROVE IInv'
  OBVIOUS
<1>. DEFINE n == [Dest EXCEPT !.yang = yang[Here].body]
<1>1. /\ pc = "yang" /\ Put(n) /\ StepFrame /\ at' = at
      /\ pc' = IF DeclaresNotification THEN "proto" ELSE "manifest"
  BY DEF CopyYang, Script, StepFrame
<1>2. pc \in Work
  BY <1>1 DEF Work
<1>3. /\ n \in Snapshot /\ n.dir /\ n.yang = yang[Here].body /\ n.proto = Dest.proto
      /\ n.manifest = NoManifest
  BY <1>1, <1>2, AtWork DEF Snapshot
<1>. HIDE DEF n
<1>4. Resolves(n)
  BY <1>3 DEF Resolves
<1>5. calm => Fresh /\ n.proto = Absent
  BY <1>1, <1>2, <1>3, AtWork DEF IInv, Calm, CalmDest
<1>6. calm /\ ~DeclaresNotification => Whole(n)
  BY <1>2, <1>3, <1>5, AtWork DEF Whole, DeclaresNotification
<1>. QED BY <1>1, <1>2, <1>3, <1>4, <1>5, <1>6, AtWork, WriteKeeps DEF Work

LEMMA CopyProtoKeeps == IInv /\ CopyProto => IInv'
<1>. SUFFICES ASSUME IInv, CopyProto PROVE IInv'
  OBVIOUS
<1>. DEFINE n == [Dest EXCEPT !.proto = proto[Here]]
<1>1. /\ pc = "proto" /\ Put(n) /\ StepFrame /\ at' = at /\ pc' = "json"
  BY DEF CopyProto, Script, StepFrame
<1>2. pc \in Work
  BY <1>1 DEF Work
<1>3. /\ n \in Snapshot /\ n.dir /\ n.yang = yang[Here].body /\ n.proto = proto[Here]
      /\ n.manifest = NoManifest
  BY <1>1, <1>2, AtWork DEF Snapshot
<1>. HIDE DEF n
<1>4. Resolves(n)
  BY <1>3 DEF Resolves
<1>5. calm => Fresh /\ Whole(n)
  BY <1>2, <1>3, AtWork DEF Whole
<1>. QED BY <1>1, <1>2, <1>3, <1>4, <1>5, AtWork, WriteKeeps DEF Work

LEMMA WriteSchemaJsonKeeps == IInv /\ WriteSchemaJson => IInv'
<1>. SUFFICES ASSUME IInv, WriteSchemaJson PROVE IInv'
  OBVIOUS
<1>. DEFINE n == [Dest EXCEPT !.json = json[Here]]
<1>1. /\ pc = "json" /\ Put(n) /\ StepFrame /\ at' = at /\ pc' = "manifest"
  BY DEF WriteSchemaJson, Script, StepFrame
<1>2. pc \in Work
  BY <1>1 DEF Work
<1>3. /\ n \in Snapshot /\ n.dir /\ n.yang = yang[Here].body /\ n.proto = Dest.proto
      /\ n.yang = Dest.yang /\ n.manifest = NoManifest
  BY <1>1, <1>2, AtWork DEF Snapshot
<1>. HIDE DEF n
<1>4. Resolves(n)
  BY <1>3 DEF Resolves
<1>5. calm => Fresh /\ Whole(n)
  BY <1>1, <1>2, <1>3, AtWork DEF Whole, IInv, Calm, CalmDest
<1>. QED BY <1>1, <1>2, <1>3, <1>4, <1>5, AtWork, WriteKeeps DEF Work

LEMMA WriteManifestKeeps == IInv /\ WriteManifest => IInv'
<1>. SUFFICES ASSUME IInv, WriteManifest PROVE IInv'
  OBVIOUS
<1>. DEFINE n == [Dest EXCEPT !.manifest = Companions(Dest)]
<1>1. /\ pc = "manifest" /\ Put(n) /\ StepFrame /\ at' = at /\ pc' = "readme"
  BY DEF WriteManifest, Script, StepFrame
<1>2. pc \in Work
  BY <1>1 DEF Work
<1>3. /\ n \in Snapshot /\ n.dir /\ n.yang = Dest.yang /\ n.proto = Dest.proto
      /\ n.json = Dest.json /\ n.manifest = Companions(Dest)
      /\ n.yang = yang[Here].body /\ n.yang # Absent
  BY <1>1, <1>2, AtWork DEF Snapshot, Companions
<1>. HIDE DEF n
<1>4. Companions(n) = Companions(Dest)
  BY <1>3 DEF Companions
<1>5. Resolves(n)
  BY <1>3, <1>4 DEF Resolves, HasFile
<1>6. calm => Fresh /\ Whole(n)
  BY <1>1, <1>2, <1>3, AtWork DEF Whole, IInv, Calm, CalmDest
<1>. QED BY <1>1, <1>2, <1>3, <1>4, <1>5, <1>6, AtWork, WriteKeeps DEF Work

LEMMA WriteReadmeKeeps == IInv /\ WriteReadme => IInv'
<1>. SUFFICES ASSUME IInv, WriteReadme PROVE IInv'
  OBVIOUS
<1>. DEFINE n == [Dest EXCEPT !.readme = TRUE]
<1>1. /\ pc = "readme" /\ Put(n) /\ StepFrame /\ at' = at + 1 /\ pc' = "visit"
  BY DEF WriteReadme, Script, StepFrame
<1>2. pc \in Work
  BY <1>1 DEF Work
<1>3. /\ n \in Snapshot /\ n.dir /\ n.yang = Dest.yang /\ n.proto = Dest.proto
      /\ n.json = Dest.json /\ n.manifest = Dest.manifest /\ n.readme
  BY <1>2, AtWork DEF Snapshot
<1>. HIDE DEF n
<1>4. Companions(n) = Companions(Dest)
  BY <1>3 DEF Companions
<1>5. Resolves(n)
  <2>1. Resolves(Dest)
    BY <1>2, AtWork DEF IInv, Snapshots, Dest
  <2>. QED BY <2>1, <1>3, <1>4 DEF Resolves, HasFile
<1>6. calm => Fresh /\ Whole(n)
  BY <1>1, <1>2, <1>3, AtWork DEF Whole, IInv, Calm, CalmDest
<1>7. calm => n.manifest \in {NoManifest, Companions(n)}
  BY <1>1, <1>2, <1>3, <1>4, AtWork DEF IInv, Calm, CalmReg, Dest
<1>. QED BY <1>1, <1>2, <1>3, <1>5, <1>6, <1>7, AtWork, LastWriteKeeps

(* A torn file is lost like one that was never written: main has none of the *)
(* snapshot being made, and a backfill only adds.                           *)
LEMMA TearKeeps == IInv /\ Tear => IInv'
<1>. SUFFICES ASSUME IInv, Tear PROVE IInv'
  OBVIOUS
<1>1. /\ UNCHANGED <<yang, proto, json, routes, main, served, deleted>>
      /\ pc' = "idle" /\ at' = 1 /\ calm' = FALSE
  BY DEF Tear, Lose
<1>2. TypeOK /\ at <= Len(Order)
  BY DEF IInv, Tear, Visit, Busy, Work
<1>3. Here \in Module /\ HereRev \in Rev /\ Dest \in Snapshot /\ Resolves(Dest)
  BY <1>2, HereIsModule DEF IInv, Snapshots, Dest
<1>4. /\ pc' \in Pcs /\ at' \in 1..(Len(Order) + 1) /\ calm' \in BOOLEAN
  <2>1. Len(Order) \in Nat
    BY RegistryAssumption
  <2>2. 1 \in 1..(Len(Order) + 1)
    BY <2>1
  <2>3. pc' \in Pcs /\ calm' \in BOOLEAN
    BY <1>1 DEF Pcs
  <2>. QED BY <1>1, <2>2, <2>3
<1>5. Torn # Absent
  BY DEF Torn, Absent
<1>6. ASSUME NEW n \in Snapshot, Put(n), n.dir, Resolves(n),
             Kept(Here, HereRev) => Keeps(n, Dest)
      PROVE  IInv'
  <2>1. TypeOK' /\ Published' /\ OnMain' /\ Snapshots'
    BY <1>1, <1>2, <1>4, <1>6, PutKeeps
  <2>2. Busy' /\ AtDest' /\ Calm'
    BY <1>1 DEF Busy, AtDest, Calm, Work
  <2>. QED BY <2>1, <2>2 DEF IInv
<1>7. CASE pc = "yang" /\ Put([Dest EXCEPT !.yang = Torn])
  <2>. DEFINE n == [Dest EXCEPT !.yang = Torn]
  <2>1. pc \in Work
    BY <1>7 DEF Work
  <2>2. n \in Snapshot /\ n.dir /\ n.manifest = NoManifest
    BY <1>3, <1>7, <2>1, AtWork DEF Snapshot
  <2>3. Put(n)
    BY <1>7
  <2>. HIDE DEF n
  <2>. QED BY <1>6, <2>1, <2>2, <2>3, AtWork DEF Resolves
<1>8. CASE pc = "proto" /\ Put([Dest EXCEPT !.proto = Torn])
  <2>. DEFINE n == [Dest EXCEPT !.proto = Torn]
  <2>1. pc \in Work
    BY <1>8 DEF Work
  <2>2. n \in Snapshot /\ n.dir /\ n.manifest = NoManifest
    BY <1>3, <1>8, <2>1, AtWork DEF Snapshot
  <2>3. Put(n)
    BY <1>8
  <2>. HIDE DEF n
  <2>. QED BY <1>6, <2>1, <2>2, <2>3, AtWork DEF Resolves
<1>9. CASE pc = "json" /\ Put([Dest EXCEPT !.json = Torn])
  <2>. DEFINE n == [Dest EXCEPT !.json = Torn]
  <2>1. pc \in Work
    BY <1>9 DEF Work
  <2>2. n \in Snapshot /\ n.dir /\ n.manifest = NoManifest
    BY <1>3, <1>9, <2>1, AtWork DEF Snapshot
  <2>3. Put(n)
    BY <1>9
  <2>. HIDE DEF n
  <2>. QED BY <1>6, <2>1, <2>2, <2>3, AtWork DEF Resolves
<1>10. CASE Visit(TRUE) /\ Lacking /\ Put([Dest EXCEPT !.json = Torn])
  <2>. DEFINE n == [Dest EXCEPT !.json = Torn]
  <2>1. Dest.dir /\ Dest.json = Absent /\ Put(n)
    BY <1>10 DEF Visit, Lacking
  <2>2. /\ n \in Snapshot /\ n.dir /\ n.yang = Dest.yang /\ n.proto = Dest.proto
        /\ n.json = Torn /\ n.manifest = Dest.manifest /\ n.readme = Dest.readme
    BY <1>3, <2>1 DEF Snapshot
  <2>. HIDE DEF n
  <2>3. Resolves(n)
    BY <1>3, <1>5, <2>1, <2>2 DEF Resolves, Companions, HasFile
  <2>4. Keeps(n, Dest)
    BY <2>1, <2>2 DEF Keeps
  <2>. QED BY <1>6, <2>1, <2>2, <2>3, <2>4
<1>11. CASE pc = "backfilled" /\ Put([Dest EXCEPT !.manifest = NoManifest])
  <2>. DEFINE n == [Dest EXCEPT !.manifest = NoManifest]
  <2>1. Dest.dir /\ Put(n)
    BY <1>11 DEF IInv, AtDest
  <2>2. /\ n \in Snapshot /\ n.dir /\ n.yang = Dest.yang /\ n.proto = Dest.proto
        /\ n.json = Dest.json /\ n.manifest = NoManifest /\ n.readme = Dest.readme
    BY <1>3, <2>1 DEF Snapshot
  <2>. HIDE DEF n
  <2>3. Resolves(n)
    BY <2>2 DEF Resolves
  <2>4. Keeps(n, Dest)
    BY <2>1, <2>2 DEF Keeps
  <2>. QED BY <1>6, <2>1, <2>2, <2>3, <2>4
<1>. QED BY <1>7, <1>8, <1>9, <1>10, <1>11 DEF Tear

(* Every step keeps the invariant. *)
LEMMA NextIInv == IInv /\ [Next]_vars => IInv'
<1>. SUFFICES ASSUME IInv, [Next]_vars PROVE IInv'
  OBVIOUS
<1>1. CASE \E m \in Module, r \in Rev, b \in Body : Edit(m, r, b)
  BY <1>1, EditKeeps
<1>2. CASE \E m \in Module, r \in Rev : DeleteSnapshot(m, r)
  BY <1>2, DeleteKeeps
<1>3. CASE \E m \in Module : AddRoute(m)
  BY <1>3, AddRouteKeeps
<1>4. CASE Gen \/ Merge \/ Crash \/ Tear
  BY <1>4, GenKeeps, MergeKeeps, CrashKeeps, TearKeeps
<1>5. CASE RunScript
  BY <1>5, StartKeeps, SkipKeeps, BackfillKeeps, RewriteManifestKeeps, NoRouteKeeps,
     MakeDirKeeps, CopyYangKeeps, CopyProtoKeeps, WriteSchemaJsonKeeps, WriteManifestKeeps,
     WriteReadmeKeeps, FinishKeeps DEF RunScript
<1>6. CASE UNCHANGED vars
  <2>1. TypeOK' /\ Busy' /\ Published' /\ OnMain' /\ Snapshots'
    BY <1>6 DEF IInv, vars, tree, TypeOK, Busy, Published, Kept, OnMain, Snapshots
  <2>2. Here' = Here /\ HereRev' = HereRev /\ Dest' = Dest
    BY <1>6 DEF vars, tree, Here, HereRev, Dest
  <2>3. AtDest' /\ Calm'
    BY <1>6, <2>2 DEF IInv, vars, tree, AtDest, Kept, Calm, CalmDest, CalmReg, CalmMain, Fresh,
       DeclaresNotification
  <2>. QED BY <2>1, <2>3 DEF IInv
<1>. QED BY <1>1, <1>2, <1>3, <1>4, <1>5, <1>6 DEF Next

-----------------------------------------------------------------------------
(* In every reachable state the invariant holds. *)
THEOREM InvHolds == Spec => []IInv
  BY InitIInv, NextIInv, PTL DEF Spec

(* Types are kept, and only a directory holds files. *)
THEOREM TypeCorrect == Spec => []TypeOK
<1>1. IInv => TypeOK
  BY DEF IInv
<1>. QED BY <1>1, InvHolds, PTL

(* What was served under a revision is what main serves under it, and what   *)
(* main's module says while it declares that revision: check-revisions.sh    *)
(* compares them at each merge, and the script writes no schema.yang twice.  *)
THEOREM ServedStays == Spec => []ServedIsPinned
<1>1. IInv => ServedIsPinned
  <2>. SUFFICES ASSUME IInv, NEW s \in served, NEW t \in served
                PROVE  /\ s[1] = t[1] /\ s[2] = t[2] => s[3] = t[3]
                       /\ main.yang[s[1]].rev = s[2] => main.yang[s[1]].body = s[3]
    BY DEF ServedIsPinned
  <2>1. s[1] \in Module /\ s[3] # Absent
    BY RegistryAssumption DEF IInv, TypeOK, Absent, Torn
  <2>2. main.reg[s[1]][s[2]].yang = s[3] /\ main.reg[t[1]][t[2]].yang = t[3]
    BY DEF IInv, OnMain
  <2>3. main.reg[s[1]][main.yang[s[1]].rev].yang \in {Absent, main.yang[s[1]].body}
    BY <2>1 DEF IInv, OnMain
  <2>. QED BY <2>1, <2>2, <2>3
<1>. QED BY <1>1, InvHolds, PTL

(* A manifest names no file that is not there. *)
THEOREM ManifestsResolve == Spec => []ManifestResolves
<1>1. IInv => ManifestResolves
  BY DEF IInv, Snapshots, Resolves, ManifestResolves
<1>. QED BY <1>1, InvHolds, PTL

(* While no run is lost, between runs a manifest names every companion. *)
THEOREM ManifestsAreComplete == Spec => []ManifestComplete
<1>1. IInv => ManifestComplete
  BY DEF IInv, Calm, CalmReg, ManifestComplete
<1>. QED BY <1>1, InvHolds, PTL

(* While no run is lost, main serves whole snapshots, each with the          *)
(* schema.proto of its own schema.yang.                                      *)
THEOREM CalmRunsMakeWholeSnapshots == Spec => []CalmSnapshots
<1>1. IInv => CalmSnapshots
  <2>. SUFFICES ASSUME IInv, calm, NEW m \in Module, NEW r \in Rev
                PROVE  LET s == main.reg[m][r]
                       IN  /\ s.dir => /\ s.yang # Absent
                                       /\ s.yang \in LiveBody => s.proto # Absent
                           /\ s.proto \in {Absent, s.yang}
    BY DEF CalmSnapshots, SnapshotComplete
  <2>1. CASE main.reg[m][r].dir
    BY <2>1, RegistryAssumption DEF IInv, Calm, CalmMain, Whole
  <2>2. CASE ~main.reg[m][r].dir
    BY <2>2 DEF IInv, OnMain, NoSnapshot
  <2>. QED BY <2>1, <2>2
<1>. QED BY <1>1, InvHolds, PTL

(* A merge changes no published snapshot but for a schema.json it lacked and *)
(* its manifest: the tree keeps what main has, and git commits it whole.     *)
THEOREM PublishedStays == Spec => SnapshotImmutable
<1>1. IInv /\ [Next]_vars =>
        [\A m \in Module, r \in Rev :
           LET old == main.reg[m][r]
               new == main'.reg[m][r]
           IN old.dir /\ <<m, r>> \notin deleted =>
                         /\ new.dir /\ new.yang = old.yang
                         /\ new.proto = old.proto /\ new.readme = old.readme
                         /\ old.json # Absent => new.json = old.json]_main
  <2>. SUFFICES ASSUME IInv, [Next]_vars, main' # main,
                       NEW m \in Module, NEW r \in Rev, Kept(m, r)
                PROVE  Keeps(main'.reg[m][r], main.reg[m][r])
    BY DEF Keeps, Kept
  <2>1. Merge
    BY DEF Next, vars, Edit, DeleteSnapshot, AddRoute, Gen, Crash, Tear, Lose, RunScript, Start, Skip,
       Backfill, RewriteManifest, NoRoute, MakeDir, CopyYang, CopyProto, WriteSchemaJson,
       WriteManifest, WriteReadme, Finish, Script
  <2>2. main'.reg = Committed
    BY <2>1 DEF Merge
  <2>3. Keeps(reg[m][r], main.reg[m][r]) /\ HasFile(main.reg[m][r])
    BY DEF IInv, Published, OnMain, Kept
  <2>4. HasFile(reg[m][r])
    BY <2>3 DEF Keeps, HasFile
  <2>. QED BY <2>2, <2>3, <2>4, CommittedIs DEF IInv
<1>. QED BY <1>1, InvHolds, PTL DEF Spec, SnapshotImmutable
=============================================================================
