------------------------------- MODULE Corpus -------------------------------
(***************************************************************************)
(* The generated files of one service, and the names in them: what make    *)
(* gen (tools/yang-proto-gen/main.go and emit.go, then scripts/proto-gen.sh) *)
(* makes of the YANG of one go_package, over edits and lost runs.  A name   *)
(* depends on the whole package.  events.proto, state.proto and types.proto *)
(* are written one after the other, then the JSON Schemas, and the schemas  *)
(* of notifications that are gone are removed; protoc reads what is then on *)
(* disk, which may hold files of modules that no longer exist.              *)
(*                                                                         *)
(* A file is the set of entries it was generated from, a name the sequence *)
(* of its words.  Field tags are in FieldLock.                              *)
(***************************************************************************)
EXTENDS Naturals, Sequences

CONSTANTS
  Entry,     \* notifications, containers or lists, leaves of an enumeration:
             \* numbers in the order of their emission, which is downwards
  Word,      \* the words of YANG names; the name of a module counts as one
  Top,       \* the parent of a notification or of a root container
  Parent, Label, Module, Kind, \* of each entry: the enclosing entry, the words
             \* of its YANG name, its module, "notification", "message", "enum"
  Values,    \* of each entry that is an enum, its members: words and number
  StateModule, \* the module with a config and state route
  Missing,   \* a file that does not exist
  MaxEdits   \* bound: edits of the YANG

Modules == {Module[e] : e \in Entry}
Files == {"events", "state", "types"}
ConfigState == {<<"config">>, <<"state">>}

ASSUME CorpusAssumption ==
  /\ Entry \subseteq Nat
  /\ Label \in [Entry -> Seq(Word) \ {<<>>}] /\ Module \in [Entry -> Word]
  /\ \A e \in Entry : Values[e] \subseteq [words : Seq(Word), number : Nat]
  /\ "unspecified" \in Word
  /\ Kind \in [Entry -> {"notification", "message", "enum"}]
  /\ \A e \in Entry : Parent[e] = Top \/ /\ Parent[e] \in Entry /\ Parent[e] < e
                                         /\ Module[Parent[e]] = Module[e]
                                         /\ Kind[Parent[e]] # "enum"
                                         /\ Kind[e] # "notification"
  /\ Top \notin Entry /\ MaxEdits \in Nat
  /\ \A s \in SUBSET Entry : s # Missing

VARIABLES
  mods,    \* the YANG modules of the service that exist
  yang,    \* the entries in them that are live
  files,   \* for each .proto file, the entries it was generated from
  schemas, \* the notifications with a *.schema.json
  pc,      \* what make gen does next
  made,    \* the entries of the last make gen that succeeded
  edits    \* edits made so far

vars == <<mods, yang, files, schemas, pc, made, edits>>

-----------------------------------------------------------------------------
(* The entries that reach a .proto file: below a notification, or below a   *)
(* container of the module with a state route.                              *)

Of(y, kind) == {e \in y : Kind[e] = kind}
Root[e \in Entry] == IF Parent[e] = Top THEN e ELSE Root[Parent[e]]
FileOf(e) == IF Kind[Root[e]] = "notification" THEN "events" ELSE "state"
Emitted(y) == {e \in y : FileOf(e) = "state" => Module[Root[e]] = StateModule}
Messages(y) == Of(Emitted(y), "notification") \cup Of(Emitted(y), "message")
Enums(y) == Of(Emitted(y), "enum")

(* Mistake: roots are counted as well. *)
CountedWithRoots(y) == {n \in Messages(y) : Label[n] \notin ConfigState}

Counted(y) == {n \in Messages(y) : Parent[n] # Top /\ Label[n] \notin ConfigState}

(* collisionSetForRoots: the labels of several lists or containers of the   *)
(* package.                                                                 *)
Collisions(y) ==
  LET counted == Counted(y)
  IN  {Label[n] : n \in {o \in counted : \E p \in counted \ {o} : Label[p] = Label[o]}}

EnumLabels(y) == {Label[e] : e \in Enums(y)}

(* nestedMessageName, then avoidEnumName. *)
NestedMessageName(parent, n, collisions) ==
  IF Label[n] \in ConfigState \cup collisions THEN parent \o Label[n] ELSE Label[n]
AvoidEnumName(enumNames, parent, name) ==
  IF name \in enumNames THEN parent \o name ELSE name

(* The name of every entry, were it a message. *)
Name(y) ==
  LET collisions == Collisions(y)
      enumNames == EnumLabels(y)
      name[n \in Entry] ==
        IF Parent[n] = Top THEN Label[n]
        ELSE LET parent == name[Parent[n]]
             IN  AvoidEnumName(enumNames, parent, NestedMessageName(parent, n, collisions))
  IN  name

MessageName(y) == LET name == Name(y) IN [n \in Messages(y) |-> name[n]]

First(s) == CHOOSE e \in s : \A f \in s : e <= f
SameLabel(y, e) == {f \in Enums(y) : Label[f] = Label[e]}
SameEnum(y, e) == {f \in SameLabel(y, e) : Values[f] = Values[e]}

(* Mistake: each file declares the enums it uses, and the second to declare *)
(* one renames it.                                                          *)
EnumNamePerFile(y, e) ==
  LET here == {f \in SameEnum(y, e) : FileOf(f) = FileOf(e)}
  IN  IF First(here) = First(SameLabel(y, e))
      THEN Label[e] ELSE <<Module[First(here)]>> \o Label[e]

(* Mistake: a name is taken only when an enum of the same file has it. *)
EnumNameBlind(y, e) ==
  IF \E f \in SameLabel(y, e) : /\ FileOf(f) = FileOf(e) /\ Values[f] # Values[e]
                                /\ f < First(SameEnum(y, e))
  THEN <<Module[First(SameEnum(y, e))]>> \o Label[e] ELSE Label[e]

(* emitEnum: the first of a label keeps it, later ones with other values    *)
(* are called after the module that asks first.                             *)
EnumName(y, e) ==
  IF Values[First(SameLabel(y, e))] = Values[e]
  THEN Label[e] ELSE <<Module[First(SameEnum(y, e))]>> \o Label[e]

(* validateUniqueMessages, findCrossFileMessageCollisions. *)
Valid(y) ==
  LET name == MessageName(y)
  IN  \A n, o \in Messages(y) : name[n] = name[o] => n = o

(* Mistake: a file with nothing in it is not written. *)
WrittenIfAny(y, m, file) ==
  CASE file = "types" -> Enums(y) # {}
    [] OTHER -> \E n \in Messages(y) : FileOf(n) = file

(* The files a run writes: those that a module is routed to, and types.proto *)
(* if it declares anything.                                                  *)
Written(y, m, file) ==
  CASE file = "events" -> m # {}
    [] file = "state"  -> StateModule \in m
    [] file = "types"  -> Enums(y) # {}

-----------------------------------------------------------------------------
(* protoc on what is on disk. *)

MessagesIn(file) ==
  IF files[file] = Missing THEN {}
  ELSE LET name == MessageName(files[file])
       IN  {<<file, n, name[n]>> : n \in {o \in DOMAIN name : FileOf(o) = file}}
Declared ==
  IF files["types"] = Missing THEN {}
  ELSE {[name |-> EnumName(files["types"], e), values |-> Values[e]] : e \in Enums(files["types"])}
Referenced(file) ==
  IF files[file] = Missing THEN {}
  ELSE {[name |-> EnumName(files[file], e), values |-> Values[e]]
          : e \in {f \in Enums(files[file]) : FileOf(f) = file}}

(* What a declared enum calls its members: PREFIX_VALUE, the prefix being    *)
(* the words of its name, and a sentinel if none of them is numbered 0.     *)
Members(values) ==
  {v.words : v \in values} \cup
  (IF \E v \in values : v.number = 0 THEN {} ELSE {<<"unspecified">>})
ValueNames(d) == {d.name \o w : w \in Members(d.values)}

(* In a package no two messages or enums share a name, and no two enums the *)
(* name of a member: the names of members are in the package, not the enum. *)
Compiles ==
  LET messages == MessagesIn("events") \cup MessagesIn("state")
  IN  /\ \A m, n \in messages : m[3] = n[3] => m = n
      /\ \A d, e \in Declared : d.name = e.name => d = e
      /\ \A m \in messages, d \in Declared : m[3] # d.name
      /\ \A d, e \in Declared : ValueNames(d) \cap ValueNames(e) # {} => d = e
      /\ Referenced("events") \cup Referenced("state") \subseteq Declared

-----------------------------------------------------------------------------
(* An entry and those it is nested in. *)
Around[e \in Entry] == {e} \cup (IF Parent[e] = Top THEN {} ELSE Around[Parent[e]])
Closed(y) == \A e \in y : Parent[e] \in y \cup {Top}
Outcome(y, m) == [f \in Files |-> IF Written(y, m, f) THEN y ELSE Missing]

Init ==
  /\ mods \in SUBSET Modules
  /\ yang \in {y \in SUBSET {e \in Entry : Module[e] \in mods} : Closed(y) /\ Valid(y)}
  /\ files = Outcome(yang, mods) /\ Compiles
  /\ schemas = Of(yang, "notification")
  /\ pc = "idle" /\ made = yang /\ edits = 0

Edit(y, m) ==
  /\ pc = "idle" /\ edits < MaxEdits /\ edits' = edits + 1
  /\ yang' = y /\ mods' = m
  /\ UNCHANGED <<files, schemas, pc, made>>

(* An entry comes, or goes with what is below it; a module, with all its    *)
(* entries.                                                                 *)
Add(e) ==
  /\ e \notin yang /\ Module[e] \in mods /\ Parent[e] \in yang \cup {Top}
  /\ Edit(yang \cup {e}, mods)
Remove(e) == e \in yang /\ Edit({f \in yang : e \notin Around[f]}, mods)
AddModule(m) == m \notin mods /\ Edit(yang, mods \cup {m})
RemoveModule(m) == m \in mods /\ Edit({e \in yang : Module[e] # m}, mods \ {m})

(* Mistake: each file is validated when it has been written. *)
StartUnchecked ==
  /\ pc = "idle" /\ pc' = "events"
  /\ UNCHANGED <<mods, yang, files, schemas, made, edits>>

(* make gen: everything is validated before the first file is written, and  *)
(* a run refused leaves everything as it is.                                *)
Start ==
  /\ pc = "idle" /\ pc' = IF Valid(yang) THEN "events" ELSE "idle"
  /\ UNCHANGED <<mods, yang, files, schemas, made, edits>>

After == [events |-> "state", state |-> "types", types |-> "schemas"]

WriteProto ==
  /\ pc \in Files /\ pc' = After[pc]
  /\ files' = IF Written(yang, mods, pc) THEN [files EXCEPT ![pc] = yang] ELSE files
  /\ UNCHANGED <<mods, yang, schemas, made, edits>>

WriteSchema(n) ==
  /\ pc = "schemas" /\ n \in Of(yang, "notification") \ schemas
  /\ schemas' = schemas \cup {n}
  /\ UNCHANGED <<mods, yang, files, pc, made, edits>>

(* Mistake: only the directories a schema was written to are pruned. *)
PrunedIfWritten == IF Of(yang, "notification") # {} THEN Of(yang, "notification") ELSE schemas

(* pruneOrphanSchemas, in the directories that a module is routed to. *)
Pruned == IF mods # {} THEN Of(yang, "notification") ELSE schemas

Prune ==
  /\ pc = "schemas" /\ Of(yang, "notification") \subseteq schemas
  /\ schemas' = Pruned /\ pc' = "protoc"
  /\ UNCHANGED <<mods, yang, files, made, edits>>

Protoc ==
  /\ pc = "protoc" /\ pc' = "idle"
  /\ made' = IF Compiles THEN yang ELSE made
  /\ UNCHANGED <<mods, yang, files, schemas, edits>>

(* The run is lost: between two writes, or with a write that failed. *)
Lost ==
  /\ pc # "idle" /\ pc' = "idle"
  /\ UNCHANGED <<mods, yang, files, schemas, made, edits>>

Next ==
  \/ \E e \in Entry : Add(e) \/ Remove(e) \/ WriteSchema(e)
  \/ \E m \in Modules : AddModule(m) \/ RemoveModule(m)
  \/ Start \/ WriteProto \/ Prune \/ Protoc \/ Lost

Spec == Init /\ [][Next]_vars

-----------------------------------------------------------------------------
(* Types: files, schemas and the last output are sets of entries of the     *)
(* service, what is live is in a module that exists, and no file holds what  *)
(* the validation refuses (main.go:260).                                    *)
TypeOK ==
  /\ mods \subseteq Modules
  /\ yang \subseteq {e \in Entry : Module[e] \in mods}
  /\ files \in [Files -> (SUBSET Entry) \cup {Missing}]
  /\ \A y \in {files[f] : f \in Files} \ {Missing} : Valid(y)
  /\ schemas \subseteq {e \in Entry : Kind[e] = "notification"}
  /\ pc \in Files \cup {"idle", "schemas", "protoc"}
  /\ made \in SUBSET Entry /\ edits \in 0..MaxEdits

(* A module of the service is routed to the file. *)
Routed(file) ==
  CASE file = "events" -> mods # {}
    [] file = "state"  -> StateModule \in mods
    [] file = "types"  -> Enums(yang) # {}

(* A run that gets as far as protoc leaves nothing of an earlier YANG, nor   *)
(* of a run that was lost, in any file that some module is still routed to  *)
(* (main.go:306).                                                           *)
FilesAreFresh == pc = "protoc" => \A f \in Files : Routed(f) => files[f] = yang

(* After a run the schemas are those of the live notifications, also when    *)
(* none is left: a directory is pruned if a module is routed there, not if   *)
(* a schema was written there (main.go:391, 424).                            *)
SchemasAreLive == pc = "protoc" /\ mods # {} => schemas = Of(yang, "notification")

(* No leftover: a file that no module is routed to is not there. *)
NoLeftover == \A f \in Files : Routed(f) \/ files[f] = Missing

StartsWith(s, t) == Len(t) <= Len(s) /\ SubSeq(s, 1, Len(t)) = t
EndsWith(s, t) == Len(t) <= Len(s) /\ SubSeq(s, Len(s) - Len(t) + 1, Len(s)) = t

(* The labels the generator does not look at:                                *)
(*  - a root with the label of an enum;                                      *)
(*  - an enum with a longer label than another that it ends with, which ends *)
(*    with the label of a message: avoiding the one, it may meet the other;  *)
(*  - a label that begins with a module's name, as a qualified enum does;    *)
(*  - two enums of one label that both are qualified by one module;          *)
(*  - an enum whose label goes on, where another's ends, like a member of    *)
(*    that other one.                                                        *)
Overlooked ==
  \/ \E n \in Messages(yang), e \in Enums(yang) : Parent[n] = Top /\ Label[n] = Label[e]
  \/ \E n \in Messages(yang), d, e \in Enums(yang) :
       /\ Len(Label[e]) < Len(Label[d])
       /\ EndsWith(Label[d], Label[e]) /\ EndsWith(Label[e], Label[n])
  \/ \E n \in Emitted(yang), e \in Enums(yang) : Label[n][1] = Module[e]
  \/ \E d, e \in Enums(yang) :
       /\ Label[d] = Label[e] /\ Values[d] # Values[e]
       /\ Values[First(SameLabel(yang, e))] \notin {Values[d], Values[e]}
       /\ Module[First(SameEnum(yang, d))] = Module[First(SameEnum(yang, e))]
  \/ \E d, e \in Enums(yang) :
       /\ Len(Label[d]) < Len(Label[e])
       /\ \E w \in Members(Values[d]) : StartsWith(Label[d] \o w, Label[e])

(* Without leftovers and with none of those labels, what passed the          *)
(* validation compiles, whatever was on disk before: no message, enum or     *)
(* member shares a name, though names depend on the whole package, and every *)
(* enum that events.proto or state.proto refers to is declared in types.proto *)
(* with those values (emit.go:1136, main.go:293).                            *)
GeneratedCompiles == pc = "protoc" /\ NoLeftover /\ ~Overlooked => Compiles

CameOrWent(x, y) == (x \ y) \cup (y \ x)

(* A message that both outputs have is renamed only if, for it or a message  *)
(* it is nested in, another list or container of that label came or went    *)
(* below a root, or an enum came or went that has the name: a new root, a    *)
(* module with no state route and an edit elsewhere rename nothing           *)
(* (emit.go:411, main.go:217; the lock would give a renamed message new tags). *)
MessageNamesStay ==
  [][made' # made => \A n \in Messages(made) \cap Messages(made') :
       MessageName(made)[n] # MessageName(made')[n] =>
         \E a \in Around[n], o \in CameOrWent(made, made') :
           \/ Kind[o] = "message" /\ Parent[o] # Top /\ Label[o] = Label[a]
           \/ Kind[o] = "enum" /\ Label[o] \in {MessageName(made)[a], MessageName(made')[a]}]_vars

(* An enum that both outputs have is renamed only if its label has, in one   *)
(* or the other, another set of values: a second leaf with the same values,  *)
(* in either file, renames neither (emit.go:54).                             *)
EnumNamesStay ==
  [][made' # made => \A e \in Enums(made) \cap Enums(made') :
       EnumName(made, e) # EnumName(made', e) =>
         \E f \in Enums(made) \cup Enums(made') :
           Label[f] = Label[e] /\ Values[f] # Values[e]]_vars
=============================================================================
