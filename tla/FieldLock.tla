----------------------------- MODULE FieldLock -----------------------------
(***************************************************************************)
(* The field-number lock of tools/yang-proto-gen and the generator run     *)
(* that reads, extends and saves it: fieldnum.go, and the part of          *)
(* Generate (main.go) and EmitMessage (emit.go) that numbers fields.       *)
(*                                                                         *)
(* A developer edits the YANG of a working tree, runs the generator, may   *)
(* lose it at any step, may restore files from main, and merges a tree     *)
(* that the check-gen gate found up to date.  A run works on a copy of     *)
(* the lock in memory and writes it back last, after every .proto file.    *)
(***************************************************************************)
EXTENDS Naturals, Sequences

CONSTANTS
  Message,        \* proto messages, by lock key
  Field,          \* proto field names
  KindField,      \* the field name "kind"
  SourceField,    \* the field name "source"
  KindTag,        \* reservedKind (99)
  SourceTag,      \* reservedSource (100)
  Decls,          \* the declarations a YANG edit may put in a message
  MaxFields,      \* bound: declarations per message
  TagBound,       \* bound: largest tag tried, at least 2 more than the fields
  OtherWireUses,  \* uses of grouping wire-source outside Message
  Order,          \* the messages in the order a run emits them
  Files           \* the messages of each .proto file, in writing order

Shape == {"plain", "kind", "wire"}

ASSUME LockAssumption ==
  /\ KindTag \in Nat \ {0} /\ SourceTag \in Nat \ {0} /\ KindTag # SourceTag
  /\ Decls \subseteq [name : Field, shape : Shape]
  /\ \A d \in Decls : /\ d.shape = "kind" => d.name = KindField
                      /\ d.shape = "wire" => d.name = SourceField
  /\ KindField # SourceField
  /\ MaxFields \in Nat /\ TagBound \in Nat /\ OtherWireUses \in Nat
  /\ Order \in Seq(Message)
  /\ \A m \in Message : \E i \in 1..Len(Order) : Order[i] = m
  /\ \A i, j \in 1..Len(Order) : Order[i] = Order[j] => i = j
  /\ Files \in Seq(SUBSET Message)
  /\ \A m \in Message : \E i \in 1..Len(Files) : m \in Files[i]

VARIABLES
  yang,       \* working tree: the notifications and their fields
  proto,      \* working tree: the generated .proto messages
  lock,       \* working tree: field-numbers.yaml
  mainProto,  \* the .proto messages on main
  mainLock,   \* the lock on main
  published,  \* every <<message, field, tag>> main has ever carried
  pc,         \* what the generator run is doing
  cur,        \* index in Order while emitting, in Files while writing
  idx,        \* next field of the message being numbered, 0 before the first
  mem,        \* the run's lock in memory
  used,       \* the tags Assign will not hand out in this message
  drift,      \* a file this run wrote differs from what it replaced
  verdict,    \* how the last run ended, if the tree is still what it left
  again       \* the run started on a tree the run before it had settled

tree == <<yang, proto, lock>>
main == <<mainProto, mainLock, published>>
run  == <<pc, cur, idx, mem, used, drift>>
vars == <<tree, main, run, verdict, again>>

NoTag == 0
Tags == Nat

(* Two YANG names may collapse to one field name ("a-b", "a_b"); "kind" and *)
(* "source" have a single spelling, which siblings cannot share.            *)
FieldSeqs ==
  {s \in UNION {[1..n -> Decls] : n \in 0..MaxFields} :
     \A i, j \in DOMAIN s :
        s[i].name = s[j].name /\ s[i].name \in {KindField, SourceField} => i = j}

Entry == [live : BOOLEAN, fields : FieldSeqs]
LockFile == [Message -> [Field -> Tags]]
Block == [present : BOOLEAN, live : [Field -> Tags], reserved : [Field -> Tags],
          clash : BOOLEAN]   \* two field lines carry one tag

EmptyLock == [m \in Message |-> [f \in Field |-> NoTag]]
NoTags == [f \in Field |-> NoTag]
Absent == [present |-> FALSE, live |-> NoTags, reserved |-> NoTags, clash |-> FALSE]

(* The field names of a message, and the tags its lock bucket holds. *)
Names(m) == {yang[m].fields[i].name : i \in 1..Len(yang[m].fields)}
Held(L, m) == {L[m][f] : f \in Field} \ {NoTag}

(* SharedGroupings: the wire-source grouping is emitted as the shared       *)
(* message only when at least two sites use it, whatever their status.      *)
WireUsers == {m \in Message : \E i \in 1..Len(yang[m].fields) :
                                 yang[m].fields[i].shape = "wire"}
WireShared == \/ OtherWireUses >= 2
              \/ OtherWireUses = 1 /\ WireUsers # {}
              \/ \E m, n \in WireUsers : m # n

(* reservedFieldTags: the exact tag a declaration must have, if any. *)
ReservedTag(d) ==
  IF d.shape = "kind" THEN KindTag
  ELSE IF d.shape = "wire" /\ WireShared THEN SourceTag ELSE NoTag

(* What EmitMessage renders for m from the tags in L: the live fields, and  *)
(* the entries of the lock the model no longer defines (Retired).           *)
Emitted(L, m) ==
  IF yang[m].live
  THEN [present  |-> TRUE,
        live     |-> [f \in Field |-> IF f \in Names(m) THEN L[m][f] ELSE NoTag],
        reserved |-> [f \in Field |-> IF f \in Names(m) THEN NoTag ELSE L[m][f]],
        clash    |-> \E i, j \in 1..Len(yang[m].fields) : i # j /\
                       L[m][yang[m].fields[i].name] = L[m][yang[m].fields[j].name]]
  ELSE Absent

(* Mistake: no validation before the files are written. *)
NoValidation == TRUE

(* validateUniqueFieldTags, over the messages this run emitted. *)
UniqueFieldTags == \A m \in Message : ~Emitted(mem, m).clash

-----------------------------------------------------------------------------
Init ==
  /\ yang = [m \in Message |-> [live |-> FALSE, fields |-> <<>>]]
  /\ proto = [m \in Message |-> Absent]
  /\ lock = EmptyLock
  /\ mainProto = proto /\ mainLock = lock /\ published = {}
  /\ pc = "idle" /\ cur = 1 /\ idx = 0
  /\ mem = EmptyLock /\ used = {} /\ drift = FALSE
  /\ verdict = "none" /\ again = FALSE

(***************************************************************************)
(* The working tree.                                                       *)
(***************************************************************************)

(* A YANG edit: declarations added, dropped or reordered, a notification   *)
(* deprecated or brought back.  A run has read the YANG before it numbers  *)
(* the first field, so an edit during a run is an edit after it.           *)
EditYang(m, entry) ==
  /\ pc = "idle" /\ entry # yang[m]
  /\ yang' = [yang EXCEPT ![m] = entry]
  /\ verdict' = "none"
  /\ UNCHANGED <<proto, lock, main, run, again>>

(* git checkout of a generated file: the lock, or one .proto file. *)
RestoreLock ==
  /\ pc = "idle" /\ lock # mainLock
  /\ lock' = mainLock
  /\ verdict' = "none"
  /\ UNCHANGED <<yang, proto, main, run, again>>

RestoreProto(i) ==
  /\ pc = "idle" /\ \E m \in Files[i] : proto[m] # mainProto[m]
  /\ proto' = [m \in Message |-> IF m \in Files[i] THEN mainProto[m] ELSE proto[m]]
  /\ verdict' = "none"
  /\ UNCHANGED <<yang, lock, main, run, again>>

(* check-gen passed: regenerating the committed tree left it unchanged. *)
Merge ==
  /\ pc = "idle" /\ verdict = "clean"
  /\ mainProto' = proto /\ mainLock' = lock
  /\ published' = published \cup
       {p \in {<<m, f, proto[m].live[f]>> : m \in Message, f \in Field} : p[3] # NoTag}
  /\ main' # main
  /\ UNCHANGED <<tree, run, verdict, again>>

(***************************************************************************)
(* A generator run.                                                        *)
(***************************************************************************)

(* Mistake: the tags assigned by earlier runs are not read back. *)
LoadNothing ==
  /\ pc = "idle"
  /\ pc' = "emit" /\ cur' = 1 /\ idx' = 0
  /\ mem' = EmptyLock /\ used' = {} /\ drift' = FALSE
  /\ again' = (verdict # "none") /\ verdict' = "none"
  /\ UNCHANGED <<tree, main>>

(* Generate up to its first EmitMessage: LoadFieldLock. *)
LoadFieldLock ==
  /\ pc = "idle"
  /\ pc' = "emit" /\ cur' = 1 /\ idx' = 0
  /\ mem' = lock /\ used' = {} /\ drift' = FALSE
  /\ again' = (verdict # "none") /\ verdict' = "none"
  /\ UNCHANGED <<tree, main>>

(* A deprecated or obsolete notification is not emitted. *)
SkipMessage ==
  /\ pc = "emit" /\ cur <= Len(Order) /\ ~yang[Order[cur]].live
  /\ cur' = cur + 1
  /\ UNCHANGED <<tree, main, pc, idx, mem, used, drift, verdict, again>>

(* Mistake: only the tags of fields still in the model are taken. *)
BeginAssignLiveOnly ==
  /\ pc = "emit" /\ cur <= Len(Order) /\ yang[Order[cur]].live /\ idx = 0
  /\ idx' = 1 /\ used' = {mem[Order[cur]][f] : f \in Names(Order[cur])} \ {NoTag}
  /\ UNCHANGED <<tree, main, pc, cur, mem, drift, verdict, again>>

(* Assign, up to its loop: every tag the bucket holds is taken. *)
BeginAssign ==
  /\ pc = "emit" /\ cur <= Len(Order) /\ yang[Order[cur]].live /\ idx = 0
  /\ idx' = 1 /\ used' = Held(mem, Order[cur])
  /\ UNCHANGED <<tree, main, pc, cur, mem, drift, verdict, again>>

(* One turn of Assign's loop, for declaration d of message m. *)
Numbering(m, d) ==
  /\ pc = "emit" /\ cur <= Len(Order) /\ m = Order[cur]
  /\ idx \in 1..Len(yang[m].fields) /\ d = yang[m].fields[idx]
  /\ idx' = idx + 1
  /\ UNCHANGED <<tree, main, pc, cur, drift, verdict, again>>

AssignReserved(m, d) ==
  /\ Numbering(m, d) /\ ReservedTag(d) # NoTag
  /\ mem' = [mem EXCEPT ![m][d.name] = ReservedTag(d)]
  /\ UNCHANGED used

KeepTag(m, d) ==
  /\ Numbering(m, d) /\ ReservedTag(d) = NoTag /\ mem[m][d.name] # NoTag
  /\ UNCHANGED <<mem, used>>

(* Mistake: sequential numbering runs through the reserved tags. *)
FreeOrReserved(t) == t >= 1 /\ t \notin used

(* nextFree: the smallest tag that is neither taken nor reserved. *)
Free(t) == t >= 1 /\ t \notin used \cup {KindTag, SourceTag}

NextFree(t) == Free(t) /\ \A u \in 1..(t - 1) : ~Free(u)

(* Mistake: a field is numbered afresh although the lock has its tag. *)
AssignAlways(m, d) ==
  /\ Numbering(m, d) /\ ReservedTag(d) = NoTag
  /\ \E t \in 1..TagBound :
        /\ NextFree(t)
        /\ mem' = [mem EXCEPT ![m][d.name] = t]
        /\ used' = used \cup {t}

(* Mistake: next starts at 0, which is no protobuf tag. *)
AssignFromZero(m, d) ==
  /\ Numbering(m, d) /\ ReservedTag(d) = NoTag /\ mem[m][d.name] = NoTag
  /\ LET taken == used \cup {KindTag, SourceTag} IN
     \E t \in 0..TagBound :
        /\ t \notin taken /\ 0..(t - 1) \subseteq taken
        /\ mem' = [mem EXCEPT ![m][d.name] = t]
        /\ used' = used \cup {t}

AssignFree(m, d) ==
  /\ Numbering(m, d) /\ ReservedTag(d) = NoTag /\ mem[m][d.name] = NoTag
  /\ \E t \in 1..TagBound :
        /\ NextFree(t)
        /\ mem' = [mem EXCEPT ![m][d.name] = t]
        /\ used' = used \cup {t}

EndMessage ==
  /\ pc = "emit" /\ cur <= Len(Order) /\ yang[Order[cur]].live
  /\ idx = Len(yang[Order[cur]].fields) + 1
  /\ cur' = cur + 1 /\ idx' = 0 /\ used' = {}
  /\ UNCHANGED <<tree, main, pc, mem, drift, verdict, again>>

(* Every file is validated before any is written. *)
ValidatePass ==
  /\ pc = "emit" /\ cur > Len(Order) /\ UniqueFieldTags
  /\ pc' = "write" /\ cur' = 1
  /\ UNCHANGED <<tree, main, idx, mem, used, drift, verdict, again>>

ValidateFail ==
  /\ pc = "emit" /\ cur > Len(Order) /\ ~UniqueFieldTags
  /\ pc' = "idle" /\ cur' = 1 /\ mem' = EmptyLock /\ drift' = FALSE /\ again' = FALSE
  /\ UNCHANGED <<tree, main, idx, used, verdict>>

(* Mistake: the files are rendered from the lock the run started from. *)
WriteStaleTags ==
  /\ pc = "write" /\ cur <= Len(Files)
  /\ proto' = [m \in Message |-> IF m \in Files[cur] THEN Emitted(lock, m) ELSE proto[m]]
  /\ cur' = cur + 1 /\ drift' = (drift \/ proto' # proto)
  /\ UNCHANGED <<yang, lock, main, pc, idx, mem, used, verdict, again>>

WriteProtoFile ==
  /\ pc = "write" /\ cur <= Len(Files)
  /\ proto' = [m \in Message |-> IF m \in Files[cur] THEN Emitted(mem, m) ELSE proto[m]]
  /\ cur' = cur + 1 /\ drift' = (drift \/ proto' # proto)
  /\ UNCHANGED <<yang, lock, main, pc, idx, mem, used, verdict, again>>

(* Mistake: the saved lock keeps only the fields still in the model. *)
SaveLiveOnly ==
  /\ pc = "write" /\ cur > Len(Files)
  /\ lock' = [m \in Message |->
                [f \in Field |-> IF f \in Names(m) THEN mem[m][f] ELSE NoTag]]
  /\ verdict' = IF drift \/ lock' # lock THEN "drift" ELSE "clean"
  /\ pc' = "idle" /\ cur' = 1 /\ mem' = EmptyLock /\ drift' = FALSE
  /\ UNCHANGED <<yang, proto, main, idx, used, again>>

SaveLock ==
  /\ pc = "write" /\ cur > Len(Files)
  /\ lock' = mem
  /\ verdict' = IF drift \/ lock' # lock THEN "drift" ELSE "clean"
  /\ pc' = "idle" /\ cur' = 1 /\ mem' = EmptyLock /\ drift' = FALSE
  /\ UNCHANGED <<yang, proto, main, idx, used, again>>

(* The run dies, or a write returns an error, between any two steps. *)
Abort ==
  /\ pc # "idle"
  /\ pc' = "idle" /\ cur' = 1 /\ idx' = 0 /\ mem' = EmptyLock /\ used' = {}
  /\ drift' = FALSE /\ again' = FALSE
  /\ UNCHANGED <<tree, main, verdict>>

Next ==
  \/ \E m \in Message : \E entry \in Entry : EditYang(m, entry)
  \/ RestoreLock
  \/ \E i \in 1..Len(Files) : RestoreProto(i)
  \/ Merge
  \/ LoadFieldLock
  \/ SkipMessage
  \/ BeginAssign
  \/ \E m \in Message, d \in Decls :
        AssignReserved(m, d) \/ KeepTag(m, d) \/ AssignFree(m, d)
  \/ EndMessage
  \/ ValidatePass
  \/ ValidateFail
  \/ WriteProtoFile
  \/ SaveLock
  \/ Abort

Spec == Init /\ [][Next]_vars

(* Save is os.WriteFile, which truncates the file before it writes: a run   *)
(* lost in between leaves an empty lock, and LoadFieldLock reads an empty   *)
(* file as a lock with no messages, without an error.                       *)
TearLock ==
  /\ pc = "write" /\ cur > Len(Files)
  /\ lock' = EmptyLock
  /\ pc' = "idle" /\ cur' = 1 /\ mem' = EmptyLock /\ drift' = FALSE /\ again' = FALSE
  /\ UNCHANGED <<yang, proto, main, idx, used, verdict>>

TornSpec == Init /\ [][Next \/ TearLock]_vars
-----------------------------------------------------------------------------
(***************************************************************************)
(* Properties.                                                             *)
(***************************************************************************)

(* Every variable keeps its shape, and Assign hands out no tag 0: the       *)
(* working tree, main and the run (fieldnum.go:65-73).                      *)
TypeOK ==
  /\ yang \in [Message -> Entry]
  /\ proto \in [Message -> Block] /\ mainProto \in [Message -> Block]
  /\ lock \in LockFile /\ mainLock \in LockFile /\ mem \in LockFile
  /\ published \subseteq Message \X Field \X (Tags \ {NoTag})
  /\ pc \in {"idle", "emit", "write"}
  /\ cur \in Nat \ {0} /\ idx \in 0..(MaxFields + 1)
  /\ used \subseteq Tags \ {NoTag}
  /\ drift \in BOOLEAN /\ again \in BOOLEAN
  /\ verdict \in {"none", "clean", "drift"}

(* fieldnum.go:15-16.  A field that main has carried under one tag is never *)
(* carried under another, through any editing, lost runs, restored files,   *)
(* and deprecations followed by a return.                                   *)
TagsNeverMove ==
  \A p, q \in published : p[1] = q[1] /\ p[2] = q[2] => p[3] = q[3]

(* docs/versioning.md:53-54.  A tag main has carried for one field of a     *)
(* message is never carried there by another, even after the first field    *)
(* is gone: an old consumer never decodes one field as the other.           *)
TagsNeverReused ==
  \A p, q \in published : p[1] = q[1] /\ p[3] = q[3] => p[2] = q[2]

(* The tag a declaration may reach the wire under. *)
TagFits(d, t) ==
  /\ d.shape = "kind"  => t = KindTag
  /\ d.shape = "wire"  => t = SourceTag
  /\ d.shape = "plain" => t \notin {KindTag, SourceTag}

(* fieldnum.go:41-47.  The reserved tags reach the wire only on the fields  *)
(* they are reserved for, and those fields reach it under no other tag.     *)
ReservedTagsKept ==
  \A p \in published : \E d \in Decls : d.name = p[2] /\ TagFits(d, p[3])

(* emit.go:636-642.  Every tag a message on main has ever carried is in the *)
(* message's .proto today: on its live field, or in `reserved` by number    *)
(* and name, where consumers and buf see it.                                *)
RetiredTagsReserved ==
  \A p \in published : mainProto[p[1]].present =>
     \/ mainProto[p[1]].live[p[2]] = p[3]
     \/ mainProto[p[1]].reserved[p[2]] = p[3]

(* main.go:227-229 and what protoc demands of a file: no message on main    *)
(* gives one tag to two fields, or uses a tag it also reserves.             *)
WireUnambiguous ==
  \A m \in Message :
     LET b == mainProto[m] IN
     /\ ~b.clash
     /\ \A f, g \in Field : b.live[f] # NoTag => b.live[f] # b.reserved[g]

(* Makefile:79-81.  The freshness gate can be met: a run that completes on  *)
(* the tree a completed run left finds nothing to change.                   *)
RegenerationSettles == again /\ pc = "idle" => verdict # "drift"

(* The lock on main is an append-only wire map (WireMap). *)
Wire == INSTANCE WireMap WITH wire <- mainLock
WireMapSpec == Wire!Spec

-----------------------------------------------------------------------------
(***************************************************************************)
(* The inductive invariant behind those properties, for a corpus in which  *)
(* a field name keeps its shape: no field moves between the reserved tags  *)
(* and the sequential ones, and wire-source stays a shared grouping.       *)
(***************************************************************************)
ShapesFixed ==
  /\ OtherWireUses >= 1
  /\ \A d, e \in Decls : d.name = e.name => d.shape = e.shape

(* A lock gives a tag only to declared fields, of the right kind, once. *)
LockOK(L) ==
  /\ \A m \in Message, f \in Field : L[m][f] # NoTag =>
        \E d \in Decls : d.name = f /\ TagFits(d, L[m][f])
  /\ Wire!OneTagPerField(L)

(* Declaration j of message m has the tag Assign gives it. *)
DeclNumbered(L, m, j) ==
  LET d == yang[m].fields[j] IN
  /\ L[m][d.name] # NoTag
  /\ ReservedTag(d) # NoTag => L[m][d.name] = ReservedTag(d)

Numbered(L, m) ==
  yang[m].live => \A j \in 1..Len(yang[m].fields) : DeclNumbered(L, m, j)

(* The tree is what a completed run leaves. *)
Settled ==
  \A m \in Message :
     Numbered(lock, m) /\ proto[m] = Emitted(lock, m) /\ ~proto[m].clash

(* A .proto accounts for every tag of its lock bucket, on one side only. *)
Accounts(P, L) ==
  \A m \in Message, f \in Field :
     \/ P[m].live[f] = L[m][f] /\ P[m].reserved[f] = NoTag
     \/ P[m].live[f] = NoTag /\ P[m].reserved[f] = L[m][f]
     \/ P[m] = Absent

LocksInv ==
  /\ LockOK(lock) /\ LockOK(mainLock) /\ LockOK(mem)
  /\ Wire!Extends(lock, mainLock)
  /\ pc # "idle" => Wire!Extends(mem, lock)

MainInv ==
  /\ \A p \in published : mainLock[p[1]][p[2]] = p[3]
  /\ Accounts(mainProto, mainLock)
  /\ \A m \in Message : ~mainProto[m].clash

EmitInv ==
  pc = "emit" =>
    /\ cur <= Len(Order) + 1
    /\ \A i \in 1..(cur - 1) : Numbered(mem, Order[i])
    /\ idx # 0 =>
         /\ cur <= Len(Order) /\ yang[Order[cur]].live
         /\ Held(mem, Order[cur]) \subseteq used \cup {KindTag, SourceTag}
         /\ idx <= Len(yang[Order[cur]].fields) + 1
         /\ \A j \in 1..(idx - 1) : DeclNumbered(mem, Order[cur], j)

WriteInv ==
  pc = "write" =>
    /\ \A m \in Message : Numbered(mem, m) /\ ~Emitted(mem, m).clash
    /\ \A i \in 1..Len(Files) : i < cur =>
         \A m \in Files[i] : proto[m] = Emitted(mem, m)

SettledInv ==
  /\ verdict # "none" => pc = "idle" /\ Settled
  /\ again /\ pc # "idle" => Settled /\ mem = lock /\ drift = FALSE
  /\ RegenerationSettles

IInv == TypeOK /\ LocksInv /\ MainInv /\ EmitInv /\ WriteInv /\ SettledInv
=============================================================================
