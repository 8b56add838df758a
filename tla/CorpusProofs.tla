---------------------------- MODULE CorpusProofs ----------------------------
(***************************************************************************)
(* Proofs about Corpus: what a run that gets as far as protoc has made of  *)
(* the files, whatever the YANG, the edits and the lost runs before, and   *)
(* that it compiles.  IInv follows a run from file to file: at each step   *)
(* the files already visited are those of the YANG that was validated.     *)
(***************************************************************************)
EXTENDS Corpus, RecursionTheorems, SequenceTheorems, TLAPS

LiveSchemas == Of(yang, "notification")

Progress ==
  /\ pc # "idle" => Valid(yang)
  /\ pc \in {"state", "types", "schemas", "protoc"} /\ Routed("events") => files["events"] = yang
  /\ pc \in {"types", "schemas", "protoc"} /\ Routed("state") => files["state"] = yang
  /\ pc \in {"schemas", "protoc"} /\ Routed("types") => files["types"] = yang
  /\ pc = "protoc" /\ mods # {} => schemas = LiveSchemas

IInv == TypeOK /\ Progress

-----------------------------------------------------------------------------
LEMMA WrittenIfRouted ==
  ASSUME NEW f \in Files
  PROVE  Routed(f) <=> Written(yang, mods, f)
  BY DEF Routed, Written, Files

LEMMA EditKeeps ==
  ASSUME IInv, NEW m \in SUBSET Modules, NEW y \in SUBSET {e \in Entry : Module[e] \in m},
         Edit(y, m)
  PROVE  IInv'
<1>1. TypeOK'
  BY CorpusAssumption DEF IInv, TypeOK, Edit
<1>2. pc' = "idle"
  BY DEF Edit
<1>. QED BY <1>1, <1>2 DEF IInv, Progress

(* The initial states satisfy the invariant. *)
LEMMA InitIInv == Init => IInv
<1>. SUFFICES ASSUME Init PROVE IInv
  OBVIOUS
<1>1. /\ yang \in SUBSET Entry /\ Valid(yang) /\ pc = "idle"
      /\ files = [f \in Files |-> IF Written(yang, mods, f) THEN yang ELSE Missing]
  BY DEF Init, Outcome
<1>2. TypeOK
  <2>1. mods \subseteq Modules /\ yang \subseteq {e \in Entry : Module[e] \in mods}
    BY DEF Init
  <2>2. files \in [Files -> (SUBSET Entry) \cup {Missing}]
    BY <1>1
  <2>3. \A f \in Files : files[f] # Missing => Valid(files[f])
    BY <1>1
  <2>4. schemas \subseteq {e \in Entry : Kind[e] = "notification"}
    BY <1>1 DEF Init, Of
  <2>5. made \in SUBSET Entry /\ edits \in 0..MaxEdits
    BY <1>1, CorpusAssumption DEF Init
  <2>. QED BY <1>1, <2>1, <2>2, <2>3, <2>4, <2>5 DEF TypeOK
<1>. QED BY <1>1, <1>2 DEF IInv, Progress

(* Every step keeps the invariant. *)
LEMMA NextIInv == IInv /\ [Next]_vars => IInv'
<1>. SUFFICES ASSUME IInv, [Next]_vars PROVE IInv'
  OBVIOUS
<1>. USE DEF IInv
<1>1. ASSUME NEW e \in Entry, Add(e) PROVE IInv'
  BY <1>1, EditKeeps DEF Add, TypeOK
<1>2. ASSUME NEW e \in Entry, Remove(e) PROVE IInv'
  BY <1>2, EditKeeps DEF Remove, TypeOK
<1>3. ASSUME NEW m \in Modules, AddModule(m) PROVE IInv'
  BY <1>3, EditKeeps DEF AddModule, TypeOK
<1>4. ASSUME NEW m \in Modules, RemoveModule(m) PROVE IInv'
  BY <1>4, EditKeeps DEF RemoveModule, TypeOK
<1>5. ASSUME NEW e \in Entry, WriteSchema(e) PROVE IInv'
  BY <1>5 DEF WriteSchema, TypeOK, Progress, Routed, Of
<1>6. CASE Start
  BY <1>6 DEF Start, TypeOK, Progress, Files
<1>7. CASE WriteProto
  <2>. USE <1>7 DEF WriteProto
  <2>1. Valid(yang) /\ yang \in SUBSET Entry
    BY DEF Progress, TypeOK, Files
  <2>2. TypeOK'
    BY <2>1 DEF TypeOK, After, Files
  <2>3. \A f \in Files : Routed(f)' <=> Routed(f)
    BY DEF Routed, Files
  <2>4. Routed(pc) => files'[pc] = yang
    BY WrittenIfRouted DEF TypeOK
  <2>5. \A f \in Files : f # pc => files'[f] = files[f]
    BY DEF TypeOK
  <2>6. Progress'
    <3>1. CASE pc = "events"
      BY <3>1, <2>1, <2>3, <2>4, <2>5 DEF Progress, After, Files
    <3>2. CASE pc = "state"
      BY <3>2, <2>1, <2>3, <2>4, <2>5 DEF Progress, After, Files
    <3>3. CASE pc = "types"
      BY <3>3, <2>1, <2>3, <2>4, <2>5 DEF Progress, After, Files
    <3>. QED BY <3>1, <3>2, <3>3 DEF Files
  <2>. QED BY <2>2, <2>6
<1>8. CASE Prune
  <2>1. TypeOK'
    BY <1>8 DEF Prune, Pruned, TypeOK, Of
  <2>2. Progress'
    BY <1>8 DEF Prune, Pruned, Progress, Routed, LiveSchemas, Of
  <2>. QED BY <2>1, <2>2
<1>9. CASE Protoc
  BY <1>9 DEF Protoc, TypeOK, Progress
<1>10. CASE Lost
  BY <1>10 DEF Lost, TypeOK, Progress
<1>11. CASE UNCHANGED vars
  BY <1>11 DEF vars, TypeOK, Progress, Routed, LiveSchemas, Of, Enums, Emitted
<1>. QED
  BY <1>1, <1>2, <1>3, <1>4, <1>5, <1>6, <1>7, <1>8, <1>9, <1>10, <1>11 DEF Next

(* In every reachable state the invariant holds. *)
THEOREM RunsFollowTheYang == Spec => []IInv
  BY InitIInv, NextIInv, PTL DEF Spec

(* Types are kept, and no file holds what the validation refuses. *)
THEOREM TypeCorrect == Spec => []TypeOK
<1>1. IInv => TypeOK
  BY DEF IInv
<1>. QED BY <1>1, RunsFollowTheYang, PTL

(* A run that gets as far as protoc leaves nothing old in a file that some   *)
(* module is routed to: main.go writes all of them before it comes so far.   *)
THEOREM CompleteRunsAreFresh == Spec => []FilesAreFresh
<1>1. IInv => FilesAreFresh
  BY DEF IInv, Progress, FilesAreFresh, Files
<1>. QED BY <1>1, RunsFollowTheYang, PTL

(* The schemas are then those of the live notifications: pruneOrphanSchemas. *)
THEOREM OrphansGo == Spec => []SchemasAreLive
<1>1. IInv => SchemasAreLive
  BY DEF IInv, Progress, SchemasAreLive, LiveSchemas
<1>. QED BY <1>1, RunsFollowTheYang, PTL

-----------------------------------------------------------------------------
(* Names of enums. *)

LEMMA FirstIsIn ==
  ASSUME NEW s \in SUBSET Entry, s # {}
  PROVE  First(s) \in s
<1>1. \E e \in s : \A f \in s : e <= f
  <2>1. s \in SUBSET Nat
    BY CorpusAssumption
  <2>. QED BY <2>1, Least
<1>. QED BY <1>1 DEF First

LEMMA EnumsAreEntries ==
  ASSUME NEW y \in SUBSET Entry
  PROVE  Enums(y) \subseteq y
  BY DEF Enums, Of, Emitted

(* The entry that asks first for a label, and for a label with its values. *)
LEMMA FirstOnes ==
  ASSUME NEW y \in SUBSET Entry, NEW e \in Enums(y)
  PROVE  /\ First(SameLabel(y, e)) \in SameLabel(y, e)
         /\ First(SameEnum(y, e)) \in SameEnum(y, e)
<1>1. e \in SameLabel(y, e) /\ e \in SameEnum(y, e)
  BY DEF SameLabel, SameEnum
<1>2. SameLabel(y, e) \in SUBSET Entry /\ SameEnum(y, e) \in SUBSET Entry
  BY EnumsAreEntries DEF SameLabel, SameEnum
<1>. QED BY <1>1, <1>2, FirstIsIn

(* Words and their concatenations. *)
Words == Seq(Word)

LEMMA EnumLabel ==
  ASSUME NEW e \in Entry
  PROVE  Label[e] \in Words /\ Len(Label[e]) \in Nat /\ Len(Label[e]) >= 1 /\ Label[e][1] \in Word
<1>1. Label[e] \in Words /\ Label[e] # <<>>
  BY CorpusAssumption DEF Words
<1>. QED BY <1>1 DEF Words

LEMMA OneWord ==
  ASSUME NEW a \in Word
  PROVE  <<a>> \in Words
  BY DEF Words

LEMMA StartOf ==
  ASSUME NEW s \in Words, NEW t \in Words
  PROVE  StartsWith(s \o t, s)
<1>. DEFINE c == s \o t
            b == SubSeq(c, 1, Len(s))
<1>. USE DEF Words
<1>1. /\ c \in Seq(Word) /\ Len(c) = Len(s) + Len(t)
      /\ \A i \in 1..Len(s) : c[i] = s[i]
  <2>1. /\ c \in Seq(Word) /\ Len(c) = Len(s) + Len(t)
        /\ \A i \in 1..(Len(s) + Len(t)) : c[i] = IF i <= Len(s) THEN s[i] ELSE t[i - Len(s)]
    BY ConcatProperties
  <2>2. Len(s) \in Nat /\ Len(t) \in Nat
    OBVIOUS
  <2>. HIDE DEF c
  <2>. QED BY <2>1, <2>2
<1>. HIDE DEF c
<1>2. /\ b \in Seq(Word) /\ Len(b) = Len(s)
      /\ \A i \in 1..Len(s) : b[i] = c[i]
  BY <1>1
<1>. HIDE DEF b
<1>3. b = s
  BY <1>1, <1>2, SeqEqual
<1>. QED BY <1>1, <1>3 DEF StartsWith, b, c

LEMMA EndOf ==
  ASSUME NEW s \in Words, NEW t \in Words
  PROVE  EndsWith(s \o t, t)
<1>. DEFINE c == s \o t
            b == SubSeq(c, Len(c) - Len(t) + 1, Len(c))
<1>. USE DEF Words
<1>1. /\ c \in Seq(Word) /\ Len(c) = Len(s) + Len(t)
      /\ \A i \in 1..Len(t) : c[Len(s) + i] = t[i]
  <2>1. /\ c \in Seq(Word) /\ Len(c) = Len(s) + Len(t)
        /\ \A i \in 1..(Len(s) + Len(t)) : c[i] = IF i <= Len(s) THEN s[i] ELSE t[i - Len(s)]
    BY ConcatProperties
  <2>2. Len(s) \in Nat /\ Len(t) \in Nat
    OBVIOUS
  <2>. HIDE DEF c
  <2>. QED BY <2>1, <2>2
<1>. HIDE DEF c
<1>2. /\ b \in Seq(Word) /\ Len(b) = Len(t)
      /\ \A i \in 1..Len(t) : b[i] = c[Len(s) + i]
  BY <1>1
<1>. HIDE DEF b
<1>3. b = t
  BY <1>1, <1>2, SeqEqual
<1>. QED BY <1>1, <1>3 DEF EndsWith, b, c

(* Equal concatenations start alike. *)
LEMMA SameStart ==
  ASSUME NEW s \in Words, NEW t \in Words, NEW u \in Words, NEW v \in Words, s \o t = u \o v
  PROVE  /\ Len(s) = Len(u) => s = u
         /\ StartsWith(s \o t, u)
         /\ Len(s) >= 1 /\ Len(u) >= 1 => s[1] = u[1]
<1>. USE DEF Words
<1>1. \A i \in 1..(Len(s) + Len(t)) : (s \o t)[i] = IF i <= Len(s) THEN s[i] ELSE t[i - Len(s)]
  BY ConcatProperties
<1>2. \A i \in 1..(Len(u) + Len(v)) : (u \o v)[i] = IF i <= Len(u) THEN u[i] ELSE v[i - Len(u)]
  BY ConcatProperties
<1>3. /\ Len(s) \in Nat /\ Len(t) \in Nat /\ Len(u) \in Nat /\ Len(v) \in Nat
  OBVIOUS
<1>. DEFINE c == s \o t
<1>4. /\ \A i \in 1..Len(s) : c[i] = s[i]
      /\ \A i \in 1..Len(u) : c[i] = u[i]
  <2>1. /\ \A i \in 1..(Len(s) + Len(t)) : c[i] = IF i <= Len(s) THEN s[i] ELSE t[i - Len(s)]
        /\ \A i \in 1..(Len(u) + Len(v)) : c[i] = IF i <= Len(u) THEN u[i] ELSE v[i - Len(u)]
    BY <1>1, <1>2
  <2>. HIDE DEF c
  <2>2. ASSUME NEW i \in 1..Len(s) PROVE c[i] = s[i]
    <3>1. i \in 1..(Len(s) + Len(t)) /\ i <= Len(s)
      BY <1>3
    <3>. QED BY <2>1, <3>1
  <2>3. ASSUME NEW i \in 1..Len(u) PROVE c[i] = u[i]
    <3>1. i \in 1..(Len(u) + Len(v)) /\ i <= Len(u)
      BY <1>3
    <3>. QED BY <2>1, <3>1
  <2>. QED BY <2>2, <2>3
<1>. HIDE DEF c
<1>5. Len(s) = Len(u) => s = u
  BY <1>4, SeqEqual
<1>6. Len(s) >= 1 /\ Len(u) >= 1 => s[1] = u[1]
  BY <1>3, <1>4
<1>7. StartsWith(s \o t, u)
  BY StartOf
<1>. QED BY <1>5, <1>6, <1>7

LEMMA SameLength ==
  ASSUME NEW s \in Words, NEW t \in Words, NEW u \in Words, NEW v \in Words, s \o t = u \o v,
         Len(s) = Len(u)
  PROVE  s = u
  BY SameStart

LEMMA Associative ==
  ASSUME NEW s \in Words, NEW t \in Words, NEW u \in Words
  PROVE  (s \o t) \o u = s \o (t \o u)
  BY ConcatAssociative DEF Words

LEMMA Prefixed ==
  ASSUME NEW a \in Word, NEW b \in Word, NEW s \in Words, NEW t \in Words,
         <<a>> \o s = <<b>> \o t
  PROVE  a = b /\ s = t
<1>. USE DEF Words
<1>1. (<<a>> \o s)[1] = a /\ (<<b>> \o t)[1] = b
  OBVIOUS
<1>2. Len(s) = Len(t)
  <2>1. Len(<<a>> \o s) = 1 + Len(s) /\ Len(<<b>> \o t) = 1 + Len(t)
    OBVIOUS
  <2>. QED BY <2>1
<1>3. \A i \in 1..Len(s) : s[i] = t[i]
  <2>. TAKE i \in 1..Len(s)
  <2>1. (<<a>> \o s)[i + 1] = s[i] /\ (<<b>> \o t)[i + 1] = t[i]
    BY <1>2
  <2>. QED BY <2>1
<1>. QED BY <1>1, <1>2, <1>3

(* A name comes with one set of values. *)
LEMMA EnumNamesDiffer ==
  ASSUME TypeOK, ~Overlooked, NEW d \in Enums(yang), NEW e \in Enums(yang),
         EnumName(yang, d) = EnumName(yang, e)
  PROVE  Values[d] = Values[e]
<1>. DEFINE First1(f) == First(SameLabel(yang, f))
            Own(f) == Module[First(SameEnum(yang, f))]
<1>0. yang \in SUBSET Entry
  BY DEF TypeOK
<1>1. \A f \in Enums(yang) : /\ First(SameEnum(yang, f)) \in Enums(yang)
                             /\ First1(f) \in Enums(yang) /\ Label[First1(f)] = Label[f]
  BY <1>0, FirstOnes DEF SameLabel, SameEnum
<1>2. ASSUME NEW f \in Enums(yang), NEW g \in Enums(yang), NEW h \in Enums(yang)
      PROVE  Label[f] # <<Module[h]>> \o Label[g]
  <2>1. Label[f][1] # Module[h]
    BY DEF Overlooked, Enums, Of
  <2>2. (<<Module[h]>> \o Label[g])[1] = Module[h]
    BY <1>0, EnumsAreEntries, EnumLabel DEF Words
  <2>. QED BY <2>1, <2>2
<1>3. \A f \in Enums(yang) :
        EnumName(yang, f) = IF Values[First1(f)] = Values[f] THEN Label[f]
                            ELSE <<Own(f)>> \o Label[f]
  BY DEF EnumName
<1>4. CASE Values[First1(d)] = Values[d] /\ Values[First1(e)] = Values[e]
  <2>1. Label[d] = Label[e]
    BY <1>4, <1>3
  <2>2. SameLabel(yang, d) = SameLabel(yang, e)
    BY <2>1 DEF SameLabel
  <2>. QED BY <2>2, <1>4
<1>5. CASE Values[First1(d)] = Values[d] /\ Values[First1(e)] # Values[e]
  <2>1. Label[d] = <<Own(e)>> \o Label[e]
    BY <1>5, <1>3
  <2>. QED BY <2>1, <1>1, <1>2
<1>6. CASE Values[First1(d)] # Values[d] /\ Values[First1(e)] = Values[e]
  <2>1. Label[e] = <<Own(d)>> \o Label[d]
    BY <1>6, <1>3
  <2>. QED BY <2>1, <1>1, <1>2
<1>7. CASE Values[First1(d)] # Values[d] /\ Values[First1(e)] # Values[e]
  <2>1. <<Own(d)>> \o Label[d] = <<Own(e)>> \o Label[e]
    BY <1>7, <1>3
  <2>2. Own(d) = Own(e) /\ Label[d] = Label[e]
    <3>1. Own(d) \in Word /\ Own(e) \in Word
      <4>1. First(SameEnum(yang, d)) \in Entry /\ First(SameEnum(yang, e)) \in Entry
        BY <1>0, <1>1, EnumsAreEntries
      <4>. QED BY <4>1, CorpusAssumption
    <3>2. Label[d] \in Words /\ Label[e] \in Words
      BY <1>0, EnumsAreEntries, EnumLabel
    <3>. DEFINE a == Own(d)
                b == Own(e)
                s == Label[d]
                t == Label[e]
    <3>3. a \in Word /\ b \in Word /\ s \in Words /\ t \in Words /\ <<a>> \o s = <<b>> \o t
      BY <2>1, <3>1, <3>2
    <3>. HIDE DEF a, b, s, t
    <3>4. a = b /\ s = t
      BY <3>3, Prefixed
    <3>. QED BY <3>4 DEF a, b, s, t
  <2>3. SameLabel(yang, d) = SameLabel(yang, e)
    BY <2>2 DEF SameLabel
  <2>. QED BY <2>2, <2>3, <1>7 DEF Overlooked
<1>. QED BY <1>4, <1>5, <1>6, <1>7

-----------------------------------------------------------------------------
(* An enum whose label has one set of values is called by its label. *)
LEMMA SoleEnumName ==
  ASSUME NEW y \in SUBSET Entry, NEW e \in Enums(y),
         \A f \in Enums(y) : Label[f] = Label[e] => Values[f] = Values[e]
  PROVE  EnumName(y, e) = Label[e]
  BY FirstOnes DEF SameLabel, EnumName

(* Deduplication keeps the names of enums: emit.go renames one only if its   *)
(* label has another set of values before or after.                         *)
THEOREM EnumsKeepTheirNames == Spec => EnumNamesStay
<1>1. IInv /\ IInv' /\ [Next]_vars =>
        [made' # made => \A e \in Enums(made) \cap Enums(made') :
           EnumName(made, e) # EnumName(made', e) =>
             \E f \in Enums(made) \cup Enums(made') :
               Label[f] = Label[e] /\ Values[f] # Values[e]]_vars
  <2>. SUFFICES ASSUME IInv, IInv', NEW e \in Enums(made) \cap Enums(made'),
                       \A f \in Enums(made) \cup Enums(made') :
                         Label[f] = Label[e] => Values[f] = Values[e]
                PROVE  EnumName(made, e) = EnumName(made', e)
    OBVIOUS
  <2>1. made \in SUBSET Entry /\ made' \in SUBSET Entry
    BY DEF IInv, TypeOK
  <2>. QED BY <2>1, SoleEnumName
<1>. QED BY <1>1, RunsFollowTheYang, PTL DEF Spec, EnumNamesStay

-----------------------------------------------------------------------------
(* Names of messages.  Entries are nested in smaller ones, so what is       *)
(* defined by following Parent is well defined.                             *)
Roots == {e \in Entry : Parent[e] = Top}

LEMMA ParentForest == Forest(Entry, Roots, Parent)
  BY CorpusAssumption DEF Forest, Roots

LEMMA AroundIs ==
  \A e \in Entry : Around[e] = {e} \cup (IF Parent[e] = Top THEN {} ELSE Around[Parent[e]])
<1>. DEFINE X == SUBSET Entry
            A == [e \in Entry |-> {e}]
            B == [e \in Entry |-> [s \in X |-> {e} \cup s]]
<1>1. A \in [Entry -> X] /\ B \in [Entry -> [X -> X]]
  OBVIOUS
<1>2. PICK f \in [Entry -> X] : \A e \in Entry : Solves(f, e, Roots, Parent, A, B)
  <2>. HIDE DEF A, B, X
  <2>. QED BY <1>1, ParentForest, Solution
<1>3. ASSUME NEW e \in Entry
      PROVE  f[e] = {e} \cup (IF Parent[e] = Top THEN {} ELSE f[Parent[e]])
  <2>1. CASE Parent[e] = Top
    BY <2>1, <1>2 DEF Solves, Roots
  <2>2. CASE Parent[e] # Top
    <3>1. Parent[e] \in Entry /\ e \notin Roots
      BY <2>2, CorpusAssumption DEF Roots
    <3>2. f[e] = B[e][f[Parent[e]]] /\ f[Parent[e]] \in X
      BY <3>1, <1>2 DEF Solves
    <3>. QED BY <2>2, <3>2
  <2>. QED BY <2>1, <2>2
<1>4. f = [e \in Entry |-> {e} \cup (IF Parent[e] = Top THEN {} ELSE f[Parent[e]])]
  BY <1>2, <1>3
<1>5. Around = [e \in Entry |-> {e} \cup (IF Parent[e] = Top THEN {} ELSE Around[Parent[e]])]
  BY <1>4 DEF Around
<1>. DEFINE G == Around
<1>6. G = [e \in Entry |-> {e} \cup (IF Parent[e] = Top THEN {} ELSE G[Parent[e]])]
  BY <1>5
<1>. HIDE DEF G
<1>7. \A e \in Entry : G[e] = {e} \cup (IF Parent[e] = Top THEN {} ELSE G[Parent[e]])
  BY <1>6
<1>. QED BY <1>7 DEF G

LEMMA RootIs ==
  \A e \in Entry : Root[e] = IF Parent[e] = Top THEN e ELSE Root[Parent[e]]
<1>. DEFINE A == [e \in Entry |-> e]
            B == [e \in Entry |-> [s \in Entry |-> s]]
<1>1. A \in [Entry -> Entry] /\ B \in [Entry -> [Entry -> Entry]]
  OBVIOUS
<1>2. PICK f \in [Entry -> Entry] : \A e \in Entry : Solves(f, e, Roots, Parent, A, B)
  <2>. HIDE DEF A, B
  <2>. QED BY <1>1, ParentForest, Solution
<1>3. ASSUME NEW e \in Entry
      PROVE  f[e] = IF Parent[e] = Top THEN e ELSE f[Parent[e]]
  <2>1. CASE Parent[e] = Top
    BY <2>1, <1>2 DEF Solves, Roots
  <2>2. CASE Parent[e] # Top
    <3>1. Parent[e] \in Entry /\ e \notin Roots
      BY <2>2, CorpusAssumption DEF Roots
    <3>2. f[e] = B[e][f[Parent[e]]] /\ f[Parent[e]] \in Entry
      BY <3>1, <1>2 DEF Solves
    <3>. QED BY <2>2, <3>2
  <2>. QED BY <2>1, <2>2
<1>4. f = [e \in Entry |-> IF Parent[e] = Top THEN e ELSE f[Parent[e]]]
  BY <1>2, <1>3
<1>5. Root = [e \in Entry |-> IF Parent[e] = Top THEN e ELSE Root[Parent[e]]]
  BY <1>4 DEF Root
<1>. DEFINE G == Root
<1>6. G = [e \in Entry |-> IF Parent[e] = Top THEN e ELSE G[Parent[e]]]
  BY <1>5
<1>. HIDE DEF G
<1>7. \A e \in Entry : G[e] = IF Parent[e] = Top THEN e ELSE G[Parent[e]]
  BY <1>6
<1>. QED BY <1>7 DEF G

(* The name of an entry below the name of its parent.                       *)
NameBelow(y, parent, n) ==
  AvoidEnumName(EnumLabels(y), parent, NestedMessageName(parent, n, Collisions(y)))

LEMMA NameIs ==
  ASSUME NEW y
  PROVE  \A n \in Entry : Name(y)[n] = IF Parent[n] = Top THEN Label[n]
                                      ELSE NameBelow(y, Name(y)[Parent[n]], n)
<1>. DEFINE X == Seq(Word)
            B == [n \in Entry |-> [s \in X |-> NameBelow(y, s, n)]]
<1>1. \A n \in Entry, s \in X : NameBelow(y, s, n) \in X
  <2>. SUFFICES ASSUME NEW n \in Entry, NEW s \in X PROVE NameBelow(y, s, n) \in X
    OBVIOUS
  <2>. DEFINE c == Collisions(y)
              nested == NestedMessageName(s, n, c)
  <2>1. Label[n] \in X /\ \A t \in X : s \o t \in X
    BY CorpusAssumption
  <2>. HIDE DEF X, c
  <2>2. nested \in X
    BY <2>1 DEF NestedMessageName
  <2>. HIDE DEF nested
  <2>3. NameBelow(y, s, n) = IF nested \in EnumLabels(y) THEN s \o nested ELSE nested
    BY DEF NameBelow, AvoidEnumName, nested, c
  <2>. QED BY <2>1, <2>2, <2>3
<1>2. Label \in [Entry -> X] /\ B \in [Entry -> [X -> X]]
  BY <1>1, CorpusAssumption
<1>3. PICK f \in [Entry -> X] : \A e \in Entry : Solves(f, e, Roots, Parent, Label, B)
  <2>. HIDE DEF B, X
  <2>. QED BY <1>2, ParentForest, Solution
<1>4. ASSUME NEW n \in Entry
      PROVE  f[n] = IF Parent[n] = Top THEN Label[n] ELSE NameBelow(y, f[Parent[n]], n)
  <2>1. CASE Parent[n] = Top
    BY <2>1, <1>3 DEF Solves, Roots
  <2>2. CASE Parent[n] # Top
    <3>1. Parent[n] \in Entry /\ n \notin Roots
      BY <2>2, CorpusAssumption DEF Roots
    <3>2. f[n] = B[n][f[Parent[n]]] /\ f[Parent[n]] \in X
      BY <3>1, <1>3 DEF Solves
    <3>. QED BY <2>2, <3>2
  <2>. QED BY <2>1, <2>2
<1>5. f = [n \in Entry |-> IF Parent[n] = Top THEN Label[n]
                           ELSE NameBelow(y, f[Parent[n]], n)]
  BY <1>3, <1>4
<1>. DEFINE G == Name(y)
<1>6. G = CHOOSE g : g = [n \in Entry |-> IF Parent[n] = Top THEN Label[n]
                                          ELSE NameBelow(y, g[Parent[n]], n)]
  BY DEF Name, NameBelow
<1>. HIDE DEF G
<1>7. G = [n \in Entry |-> IF Parent[n] = Top THEN Label[n] ELSE NameBelow(y, G[Parent[n]], n)]
  BY <1>5, <1>6
<1>8. \A n \in Entry : G[n] = IF Parent[n] = Top THEN Label[n] ELSE NameBelow(y, G[Parent[n]], n)
  BY <1>7
<1>. QED BY <1>8 DEF G

-----------------------------------------------------------------------------
(* An entry is live only with the one it is nested in, also in the output.  *)
Nested == Closed(yang) /\ Closed(made)

LEMMA InitNested == Init => Nested
  BY DEF Init, Nested

LEMMA NextNested ==
  ASSUME IInv, Nested, [Next]_vars
  PROVE  Nested'
<1>0. /\ yang \in SUBSET Entry
      /\ \A e \in yang : Parent[e] \in yang \cup {Top}
      /\ \A e \in Entry : Parent[e] # Top => Parent[e] \in Entry /\ Module[Parent[e]] = Module[e]
  BY CorpusAssumption DEF IInv, TypeOK, Nested, Closed
<1>1. ASSUME NEW e \in Entry, Add(e) PROVE Nested'
  <2>1. yang' = yang \cup {e} /\ made' = made /\ Parent[e] \in yang \cup {Top}
    BY <1>1 DEF Add, Edit
  <2>. QED BY <2>1, <1>0 DEF Nested, Closed
<1>2. ASSUME NEW e \in Entry, Remove(e) PROVE Nested'
  <2>1. yang' = {f \in yang : e \notin Around[f]} /\ made' = made
    BY <1>2 DEF Remove, Edit
  <2>2. ASSUME NEW f \in yang, e \notin Around[f], Parent[f] # Top
        PROVE  Parent[f] \in yang /\ e \notin Around[Parent[f]]
    BY <2>2, <1>0, AroundIs
  <2>. QED BY <2>1, <2>2 DEF Nested, Closed
<1>3. ASSUME NEW m, RemoveModule(m) PROVE Nested'
  <2>1. yang' = {f \in yang : Module[f] # m} /\ made' = made
    BY <1>3 DEF RemoveModule, Edit
  <2>. QED BY <2>1, <1>0 DEF Nested, Closed
<1>4. ASSUME UNCHANGED yang, made' \in {made, yang} PROVE Nested'
  BY <1>4 DEF Nested, Closed
<1>5. CASE Protoc
  BY <1>4, <1>5 DEF Protoc
<1>6. CASE Start \/ WriteProto \/ Prune \/ Lost \/ UNCHANGED vars
  BY <1>4, <1>6 DEF Start, WriteProto, Prune, Lost, vars
<1>7. ASSUME NEW e \in Entry, WriteSchema(e) PROVE Nested'
  BY <1>4, <1>7 DEF WriteSchema
<1>8. ASSUME NEW m, AddModule(m) PROVE Nested'
  BY <1>4, <1>8 DEF AddModule, Edit
<1>. QED BY <1>1, <1>2, <1>3, <1>5, <1>6, <1>7, <1>8 DEF Next

(* Whether an entry reaches a file depends on its root alone, so a message  *)
(* is there with every one it is nested in.                                 *)
LEMMA ParentIsMessage ==
  ASSUME NEW y \in SUBSET Entry, Closed(y), NEW n \in Messages(y), Parent[n] # Top
  PROVE  Parent[n] \in Messages(y)
<1>1. n \in y /\ n \in Entry /\ (FileOf(n) = "state" => Module[Root[n]] = StateModule)
  BY DEF Messages, Of, Emitted
<1>2. /\ Parent[n] \in y /\ Parent[n] \in Entry
      /\ Kind[Parent[n]] \in {"notification", "message"}
  BY <1>1, CorpusAssumption DEF Closed
<1>3. Root[n] = Root[Parent[n]]
  BY <1>1, RootIs
<1>4. FileOf(n) = FileOf(Parent[n])
  BY <1>3 DEF FileOf
<1>. QED BY <1>1, <1>2, <1>3, <1>4 DEF Messages, Of, Emitted

-----------------------------------------------------------------------------
(* What a complete run leaves compiles. *)

(* The name of an enum is its label, or that after the name of a module. *)
LEMMA EnumNameIs ==
  ASSUME NEW y \in SUBSET Entry, NEW e \in Enums(y)
  PROVE  \/ EnumName(y, e) = Label[e]
         \/ \E h \in Enums(y) : EnumName(y, e) = <<Module[h]>> \o Label[e]
  BY FirstOnes DEF SameEnum, SameLabel, EnumName

(* The name of a message starts with a word that the label of a message     *)
(* starts with.                                                             *)
LEMMA MessageWords ==
  ASSUME NEW y \in SUBSET Entry, Closed(y)
  PROVE  \A n \in Messages(y) :
           /\ Name(y)[n] \in Words /\ Len(Name(y)[n]) >= 1
           /\ \E a \in Messages(y) : Name(y)[n][1] = Label[a][1]
<1>. DEFINE P(n) == /\ Name(y)[n] \in Words /\ Len(Name(y)[n]) >= 1
                    /\ \E a \in Messages(y) : Name(y)[n][1] = Label[a][1]
            S == {n \in Entry : n \in Messages(y) => P(n)}
<1>1. ASSUME NEW n \in Entry, \A m \in Entry : m < n => m \in S
      PROVE  n \in S
  <2>. SUFFICES ASSUME n \in Messages(y) PROVE P(n)
    OBVIOUS
  <2>0. Label[n] \in Words /\ Len(Label[n]) >= 1
    BY EnumLabel
  <2>1. CASE Parent[n] = Top
    BY <2>0, <2>1, NameIs
  <2>2. CASE Parent[n] # Top
    <3>. DEFINE s == Name(y)[Parent[n]]
                nested == NestedMessageName(s, n, Collisions(y))
                Q(w) == w \in Words /\ Len(w) >= 1 /\ \E a \in Messages(y) : w[1] = Label[a][1]
    <3>1. Parent[n] \in Messages(y) /\ Parent[n] \in Entry /\ Parent[n] < n
      BY <2>2, ParentIsMessage, CorpusAssumption
    <3>2. Q(s)
      BY <3>1, <1>1
    <3>3. Name(y)[n] = IF nested \in EnumLabels(y) THEN s \o nested ELSE nested
      BY <2>2, NameIs DEF NameBelow, AvoidEnumName
    <3>4. nested \in {Label[n], s \o Label[n]}
      BY DEF NestedMessageName
    <3>5. Q(Label[n])
      BY <2>0
    <3>. HIDE DEF s
    <3>6. ASSUME NEW t \in Words, NEW u \in Words, Q(t) PROVE Q(t \o u)
      <4>1. t \o u \in Words /\ Len(t \o u) = Len(t) + Len(u) /\ (t \o u)[1] = t[1]
        BY <3>6 DEF Words
      <4>2. Len(u) \in Nat
        BY DEF Words
      <4>. QED BY <3>6, <4>1, <4>2
    <3>7. Q(nested)
      <4>1. Q(s \o Label[n])
        <5>. HIDE DEF Q
        <5>1. s \in Words
          BY <3>2 DEF Q
        <5>. QED BY <2>0, <3>2, <3>6, <5>1
      <4>. HIDE DEF nested, Q
      <4>. QED BY <3>4, <3>5, <4>1
    <3>8. Q(Name(y)[n])
      <4>. HIDE DEF nested
      <4>1. Q(nested) /\ Q(s) /\ nested \in Words /\ s \in Words
        BY <3>2, <3>7
      <4>2. Q(s \o nested)
        BY <4>1, <3>6
      <4>. QED BY <3>3, <4>1, <4>2
    <3>. QED BY <3>8
  <2>. QED BY <2>1, <2>2
<1>2. Entry \subseteq S
  <2>. HIDE DEF S
  <2>. QED BY <1>1, CorpusAssumption, Strong
<1>3. \A n \in Messages(y) : n \in Entry
  BY DEF Messages, Of, Emitted
<1>. QED BY <1>2, <1>3

(* No message is called like an enum. *)
LEMMA MessageMeetsNoEnum ==
  ASSUME yang \in SUBSET Entry, Closed(yang), ~Overlooked,
         NEW n \in Messages(yang), NEW e \in Enums(yang)
  PROVE  Name(yang)[n] # EnumName(yang, e)
<1>. SUFFICES ASSUME Name(yang)[n] = EnumName(yang, e) PROVE FALSE
  OBVIOUS
<1>0. n \in Entry /\ e \in Entry /\ Label[n] \in Words /\ Label[e] \in Words
  BY EnumsAreEntries, EnumLabel DEF Messages, Of, Emitted
<1>1. ASSUME NEW h \in Enums(yang), EnumName(yang, e) = <<Module[h]>> \o Label[e] PROVE FALSE
  <2>1. PICK a \in Messages(yang) : Name(yang)[n][1] = Label[a][1]
    BY MessageWords
  <2>2. (<<Module[h]>> \o Label[e])[1] = Module[h]
    BY <1>0 DEF Words
  <2>3. a \in Emitted(yang)
    BY DEF Messages, Of
  <2>. QED BY <1>1, <2>1, <2>2, <2>3 DEF Overlooked
<1>2. CASE EnumName(yang, e) = Label[e] /\ Parent[n] = Top
  BY <1>0, <1>2, NameIs DEF Overlooked
<1>3. CASE EnumName(yang, e) = Label[e] /\ Parent[n] # Top
  <2>. DEFINE s == Name(yang)[Parent[n]]
              nested == NestedMessageName(s, n, Collisions(yang))
  <2>1. Name(yang)[n] = IF nested \in EnumLabels(yang) THEN s \o nested ELSE nested
    BY <1>0, <1>3, NameIs DEF NameBelow, AvoidEnumName
  <2>2. s \in Words /\ Len(s) >= 1
    BY <1>3, ParentIsMessage, MessageWords
  <2>3. nested \in {Label[n], s \o Label[n]}
    BY DEF NestedMessageName
  <2>. HIDE DEF s
  <2>4. EndsWith(nested, Label[n])
    <3>1. CASE nested = Label[n]
      <4>1. Label[n] = <<>> \o Label[n]
        BY <1>0, ConcatEmptySeq DEF Words
      <4>2. <<>> \in Words
        BY DEF Words
      <4>. QED BY <1>0, <3>1, <4>1, <4>2, EndOf
    <3>2. CASE nested = s \o Label[n]
      BY <1>0, <2>2, <3>2, EndOf
    <3>. QED BY <2>3, <3>1, <3>2
  <2>. HIDE DEF nested
  <2>5. nested \in EnumLabels(yang)
    BY <1>3, <2>1 DEF EnumLabels
  <2>6. PICK f \in Enums(yang) : nested = Label[f]
    BY <2>5 DEF EnumLabels
  <2>7. Label[e] = s \o Label[f]
    BY <1>3, <2>1, <2>5, <2>6
  <2>8. Label[f] \in Words
    BY <2>6, EnumsAreEntries, EnumLabel
  <2>9. EndsWith(Label[e], Label[f])
    BY <2>2, <2>7, <2>8, EndOf
  <2>10. Len(Label[f]) < Len(Label[e])
    <3>1. Len(Label[e]) = Len(s) + Len(Label[f])
      BY <2>2, <2>7, <2>8 DEF Words
    <3>2. Len(s) \in Nat /\ Len(Label[f]) \in Nat
      BY <2>2, <2>8 DEF Words
    <3>. QED BY <2>2, <3>1, <3>2
  <2>. QED BY <2>4, <2>6, <2>9, <2>10 DEF Overlooked
<1>. QED BY <1>1, <1>2, <1>3, EnumNameIs

(* Two enums that share the name of a member share their own. *)
LEMMA MembersDiffer ==
  ASSUME yang \in SUBSET Entry, ~Overlooked,
         NEW d \in Enums(yang), NEW e \in Enums(yang),
         NEW v \in Members(Values[d]), NEW w \in Members(Values[e]),
         EnumName(yang, d) \o v = EnumName(yang, e) \o w
  PROVE  EnumName(yang, d) = EnumName(yang, e)
<1>0. d \in Entry /\ e \in Entry
  BY EnumsAreEntries
<1>1. /\ Label[d] \in Words /\ Label[e] \in Words
      /\ Len(Label[d]) \in Nat /\ Len(Label[e]) \in Nat
      /\ Len(Label[d]) >= 1 /\ Len(Label[e]) >= 1
  BY <1>0, EnumLabel
<1>2. v \in Words /\ w \in Words
  <2>1. \A f \in Entry : Members(Values[f]) \subseteq Words
    <3>1. <<"unspecified">> \in Words
      <4>1. "unspecified" \in Word
        BY CorpusAssumption
      <4>. QED BY <4>1, OneWord
    <3>2. \A f \in Entry : \A x \in Values[f] : x.words \in Words
      BY CorpusAssumption DEF Words
    <3>. QED BY <3>1, <3>2 DEF Members
  <2>. QED BY <1>0, <2>1
<1>3. ASSUME NEW h \in Enums(yang)
      PROVE  Module[h] \in Word /\ <<Module[h]>> \in Words
  <2>1. Module[h] \in Word
    BY EnumsAreEntries, CorpusAssumption
  <2>. QED BY <2>1, OneWord
<1>4. ASSUME NEW f \in Enums(yang), NEW h \in Enums(yang)
      PROVE  Label[f][1] # Module[h]
  <2>1. f \in Emitted(yang)
    BY DEF Enums, Of
  <2>. QED BY <2>1 DEF Overlooked
(* Labels followed by members are equal only if the labels are. *)
<1>5. ASSUME Label[d] \o v = Label[e] \o w
      PROVE  Label[d] = Label[e]
  <2>1. StartsWith(Label[d] \o v, Label[e])
    BY <1>1, <1>2, <1>5, SameStart
  <2>2. ASSUME Len(Label[d]) = Len(Label[e])  PROVE Label[d] = Label[e]
    <3>. DEFINE s == Label[d]
                u == Label[e]
    <3>1. s \in Words /\ u \in Words /\ s \o v = u \o w /\ Len(s) = Len(u)
      BY <1>1, <1>5, <2>2
    <3>. HIDE DEF s, u
    <3>2. s = u
      BY <1>2, <3>1, SameLength
    <3>. QED BY <3>2 DEF s, u
  <2>3. Label[e] \o w = Label[d] \o v
    BY <1>5
  <2>4. StartsWith(Label[e] \o w, Label[d])
    BY <1>1, <1>2, <2>3, SameStart
  <2>5. ~(Len(Label[d]) < Len(Label[e]))
    BY <2>1 DEF Overlooked
  <2>6. ~(Len(Label[e]) < Len(Label[d]))
    BY <2>4 DEF Overlooked
  <2>. QED BY <1>1, <2>2, <2>5, <2>6
<1>6. CASE EnumName(yang, d) = Label[d] /\ EnumName(yang, e) = Label[e]
  BY <1>5, <1>6
<1>7. ASSUME NEW h \in Enums(yang), NEW f \in Enums(yang), NEW g \in Enums(yang),
             NEW x \in Words, NEW z \in Words,
             Label[f] \o x = (<<Module[h]>> \o Label[g]) \o z
      PROVE  FALSE
  <2>1. /\ Label[f] \in Words /\ Len(Label[f]) >= 1 /\ Label[g] \in Words
    BY EnumsAreEntries, EnumLabel
  <2>2. /\ <<Module[h]>> \o Label[g] \in Words /\ Len(<<Module[h]>> \o Label[g]) >= 1
        /\ (<<Module[h]>> \o Label[g])[1] = Module[h]
    BY <1>3, <2>1 DEF Words
  <2>3. Label[f][1] = (<<Module[h]>> \o Label[g])[1]
    BY <1>7, <2>1, <2>2, SameStart
  <2>. QED BY <1>4, <2>2, <2>3
<1>8. ASSUME NEW h \in Enums(yang), NEW i \in Enums(yang),
             EnumName(yang, d) = <<Module[h]>> \o Label[d],
             EnumName(yang, e) = <<Module[i]>> \o Label[e]
      PROVE  EnumName(yang, d) = EnumName(yang, e)
  <2>1. (<<Module[h]>> \o Label[d]) \o v = <<Module[h]>> \o (Label[d] \o v)
    <3>. DEFINE s == <<Module[h]>>
                t == Label[d]
    <3>1. s \in Words /\ t \in Words
      BY <1>1, <1>3
    <3>. HIDE DEF s, t
    <3>2. (s \o t) \o v = s \o (t \o v)
      BY <1>2, <3>1, Associative
    <3>. QED BY <3>2 DEF s, t
  <2>2. (<<Module[i]>> \o Label[e]) \o w = <<Module[i]>> \o (Label[e] \o w)
    <3>. DEFINE s == <<Module[i]>>
                t == Label[e]
    <3>1. s \in Words /\ t \in Words
      BY <1>1, <1>3
    <3>. HIDE DEF s, t
    <3>2. (s \o t) \o w = s \o (t \o w)
      BY <1>2, <3>1, Associative
    <3>. QED BY <3>2 DEF s, t
  <2>3. <<Module[h]>> \o (Label[d] \o v) = <<Module[i]>> \o (Label[e] \o w)
    BY <1>8, <2>1, <2>2
  <2>. DEFINE x == Label[d] \o v
              z == Label[e] \o w
  <2>4. x \in Words /\ z \in Words
    BY <1>1, <1>2, ConcatProperties DEF Words
  <2>5. Module[h] = Module[i] /\ x = z
    <3>. DEFINE a == Module[h]
                b == Module[i]
    <3>1. a \in Word /\ b \in Word
      BY <1>3
    <3>2. <<a>> \o x = <<b>> \o z
      BY <2>3
    <3>. HIDE DEF a, b, x, z
    <3>3. a = b /\ x = z
      BY <2>4, <3>1, <3>2, Prefixed
    <3>. QED BY <3>3 DEF a, b
  <2>6. Label[d] = Label[e]
    BY <1>5, <2>5
  <2>7. <<Module[h]>> = <<Module[i]>>
    BY <2>5
  <2>. QED BY <1>8, <2>6, <2>7
<1>9. /\ EnumName(yang, d) = Label[d]
         \/ \E h \in Enums(yang) : EnumName(yang, d) = <<Module[h]>> \o Label[d]
      /\ EnumName(yang, e) = Label[e]
         \/ \E i \in Enums(yang) : EnumName(yang, e) = <<Module[i]>> \o Label[e]
  BY EnumNameIs
<1>10. ASSUME NEW i \in Enums(yang), EnumName(yang, d) = Label[d],
              EnumName(yang, e) = <<Module[i]>> \o Label[e]
       PROVE  FALSE
  <2>1. Label[d] \o v = (<<Module[i]>> \o Label[e]) \o w
    BY <1>10
  <2>. QED BY <1>2, <1>7, <2>1
<1>11. ASSUME NEW h \in Enums(yang), EnumName(yang, d) = <<Module[h]>> \o Label[d],
              EnumName(yang, e) = Label[e]
       PROVE  FALSE
  <2>1. Label[e] \o w = (<<Module[h]>> \o Label[d]) \o v
    BY <1>11
  <2>. QED BY <1>2, <1>7, <2>1
<1>. QED BY <1>6, <1>8, <1>9, <1>10, <1>11

LEMMA InvCompiles == IInv /\ Nested => GeneratedCompiles
<1>. SUFFICES ASSUME IInv, Nested, pc = "protoc", NoLeftover, ~Overlooked PROVE Compiles
  BY DEF GeneratedCompiles
<1>. DEFINE name == MessageName(yang)
<1>1. \A f \in Files : files[f] # Missing => files[f] = yang /\ Routed(f)
  BY DEF IInv, Progress, NoLeftover, Files
<1>2. \A f \in {"events", "state"} :
        MessagesIn(f) \subseteq {<<f, n, name[n]>> : n \in {o \in DOMAIN name : FileOf(o) = f}}
  BY <1>1 DEF MessagesIn, Files
<1>3. DOMAIN name = Messages(yang)
  BY DEF MessageName
<1>4. \A n, o \in Messages(yang) : name[n] = name[o] => n = o
  BY DEF IInv, Progress, Valid
<1>5. Declared \subseteq {[name |-> EnumName(yang, e), values |-> Values[e]] : e \in Enums(yang)}
  BY <1>1 DEF Declared, Files
<1>6. \A m, n \in MessagesIn("events") \cup MessagesIn("state") : m[3] = n[3] => m = n
  <2>. SUFFICES ASSUME NEW m \in MessagesIn("events") \cup MessagesIn("state"),
                       NEW n \in MessagesIn("events") \cup MessagesIn("state"),
                       m[3] = n[3]
                PROVE  m = n
    OBVIOUS
  <2>1. PICK o \in Messages(yang) : m = <<FileOf(o), o, name[o]>>
    BY <1>2, <1>3
  <2>2. PICK p \in Messages(yang) : n = <<FileOf(p), p, name[p]>>
    BY <1>2, <1>3
  <2>3. o = p
    BY <2>1, <2>2, <1>4
  <2>. QED BY <2>1, <2>2, <2>3
<1>7. \A d, e \in Declared : d.name = e.name => d = e
  <2>. SUFFICES ASSUME NEW d \in Declared, NEW e \in Declared, d.name = e.name PROVE d = e
    OBVIOUS
  <2>1. PICK f \in Enums(yang) : d = [name |-> EnumName(yang, f), values |-> Values[f]]
    BY <1>5
  <2>2. PICK g \in Enums(yang) : e = [name |-> EnumName(yang, g), values |-> Values[g]]
    BY <1>5
  <2>3. Values[f] = Values[g]
    BY <2>1, <2>2, EnumNamesDiffer DEF IInv
  <2>. QED BY <2>1, <2>2, <2>3
<1>8. \A m \in MessagesIn("events") \cup MessagesIn("state"), d \in Declared : m[3] # d.name
  <2>. SUFFICES ASSUME NEW m \in MessagesIn("events") \cup MessagesIn("state"), NEW d \in Declared
                PROVE  m[3] # d.name
    OBVIOUS
  <2>1. PICK o \in Messages(yang) : m = <<FileOf(o), o, name[o]>>
    BY <1>2, <1>3
  <2>2. PICK e \in Enums(yang) : d = [name |-> EnumName(yang, e), values |-> Values[e]]
    BY <1>5
  <2>3. name[o] # EnumName(yang, e)
    BY MessageMeetsNoEnum DEF IInv, TypeOK, Nested, MessageName
  <2>. QED BY <2>1, <2>2, <2>3
<1>9. \A f \in {"events", "state"} : Referenced(f) \subseteq Declared
  <2>. SUFFICES ASSUME NEW f \in {"events", "state"}, NEW r \in Referenced(f) PROVE r \in Declared
    OBVIOUS
  <2>1. files[f] # Missing
    BY DEF Referenced
  <2>2. PICK e \in Enums(yang) : r = [name |-> EnumName(yang, e), values |-> Values[e]]
    BY <2>1, <1>1 DEF Referenced, Files
  <2>3. Routed("types")
    BY DEF Routed
  <2>4. files["types"] = yang /\ yang # Missing
    BY <2>3, CorpusAssumption DEF IInv, Progress, TypeOK
  <2>. QED BY <2>2, <2>4 DEF Declared
<1>10. \A d, e \in Declared : ValueNames(d) \cap ValueNames(e) # {} => d = e
  <2>. SUFFICES ASSUME NEW d \in Declared, NEW e \in Declared,
                       NEW v \in Members(d.values), NEW w \in Members(e.values),
                       d.name \o v = e.name \o w
                PROVE  d = e
    BY DEF ValueNames
  <2>1. PICK f \in Enums(yang) : d = [name |-> EnumName(yang, f), values |-> Values[f]]
    BY <1>5
  <2>2. PICK g \in Enums(yang) : e = [name |-> EnumName(yang, g), values |-> Values[g]]
    BY <1>5
  <2>3. EnumName(yang, f) = EnumName(yang, g)
    BY <2>1, <2>2, MembersDiffer DEF IInv, TypeOK
  <2>. QED BY <1>7, <2>1, <2>2, <2>3
<1>. QED BY <1>6, <1>7, <1>8, <1>9, <1>10 DEF Compiles

LEMMA AlwaysNested == Spec => []Nested
  BY InitNested, NextNested, RunsFollowTheYang, PTL DEF Spec

(* Without leftovers, and with none of the labels the generator overlooks,  *)
(* what passed the validation of main.go compiles: the names of messages,   *)
(* enums and members differ, though no step compares a member with any.     *)
THEOREM ValidatedCompiles == Spec => []GeneratedCompiles
  BY InvCompiles, AlwaysNested, RunsFollowTheYang, PTL

-----------------------------------------------------------------------------
(* What renames a message. *)

(* A label collides in both of two outputs, unless a list or container of   *)
(* that label came or went below a root.                                    *)
LEMMA CollisionsStay ==
  ASSUME NEW y \in SUBSET Entry, NEW z \in SUBSET Entry, NEW l,
         \A o \in CameOrWent(y, z) :
           ~(Kind[o] = "message" /\ Parent[o] # Top /\ Label[o] = l),
         l \in Collisions(y)
  PROVE  l \in Collisions(z)
<1>1. PICK o \in Counted(y), p \in Counted(y) :
        o # p /\ Label[o] = l /\ Label[p] = l
  BY DEF Collisions
<1>2. ASSUME NEW q \in Counted(y), Label[q] = l PROVE q \in Counted(z)
  <2>1. /\ q \in y /\ q \in Entry /\ Parent[q] # Top /\ Label[q] \notin ConfigState
        /\ Kind[q] \in {"notification", "message"}
        /\ FileOf(q) = "state" => Module[Root[q]] = StateModule
    BY DEF Counted, Messages, Of, Emitted
  <2>2. Kind[q] = "message"
    BY <2>1, CorpusAssumption
  <2>3. q \in z
    BY <2>1, <2>2, <1>2 DEF CameOrWent
  <2>. QED BY <2>1, <2>2, <2>3 DEF Counted, Messages, Of, Emitted
<1>3. o \in Counted(z) /\ p \in Counted(z)
  BY <1>1, <1>2
<1>4. o \in {q \in Counted(z) : \E r \in Counted(z) \ {q} : Label[r] = Label[q]}
  BY <1>1, <1>3
<1>. QED BY <1>1, <1>4 DEF Collisions

LEMMA EnumLabelsStay ==
  ASSUME NEW y \in SUBSET Entry, NEW z \in SUBSET Entry, NEW l,
         \A o \in CameOrWent(y, z) : ~(Kind[o] = "enum" /\ Label[o] = l),
         l \in EnumLabels(y)
  PROVE  l \in EnumLabels(z)
<1>1. PICK e \in Enums(y) : Label[e] = l
  BY DEF EnumLabels
<1>2. e \in y /\ Kind[e] = "enum" /\ (FileOf(e) = "state" => Module[Root[e]] = StateModule)
  BY DEF Enums, Of, Emitted
<1>3. e \in z
  BY <1>1, <1>2 DEF CameOrWent
<1>4. e \in Enums(z)
  BY <1>2, <1>3 DEF Enums, Of, Emitted
<1>. QED BY <1>1, <1>4 DEF EnumLabels

(* Nothing came or went that bears on the name of n in y or z.              *)
Undisturbed(y, z, n) ==
  \A a \in Around[n], o \in CameOrWent(y, z) :
    /\ ~(Kind[o] = "message" /\ Parent[o] # Top /\ Label[o] = Label[a])
    /\ ~(Kind[o] = "enum" /\ Label[o] \in {MessageName(y)[a], MessageName(z)[a]})

LEMMA NamesStay ==
  ASSUME NEW y \in SUBSET Entry, NEW z \in SUBSET Entry, Closed(y), Closed(z)
  PROVE  \A n \in Messages(y) \cap Messages(z) :
           Undisturbed(y, z, n) => MessageName(y)[n] = MessageName(z)[n]
<1>. DEFINE S == {n \in Entry : n \in Messages(y) \cap Messages(z) /\ Undisturbed(y, z, n)
                               => Name(y)[n] = Name(z)[n]}
<1>1. \A n \in Messages(y) : n \in Entry /\ MessageName(y)[n] = Name(y)[n]
  BY DEF MessageName, Messages, Of, Emitted
<1>2. \A n \in Messages(z) : n \in Entry /\ MessageName(z)[n] = Name(z)[n]
  BY DEF MessageName, Messages, Of, Emitted
<1>3. CameOrWent(y, z) = CameOrWent(z, y)
  BY DEF CameOrWent
<1>4. ASSUME NEW n \in Entry, \A m \in Entry : m < n => m \in S
      PROVE  n \in S
  <2>. SUFFICES ASSUME n \in Messages(y), n \in Messages(z), Undisturbed(y, z, n)
                PROVE  Name(y)[n] = Name(z)[n]
    OBVIOUS
  <2>1. CASE Parent[n] = Top
    BY <2>1, NameIs
  <2>2. CASE Parent[n] # Top
    <3>. DEFINE p == Parent[n]
                q == Name(y)[p]
                cy == NestedMessageName(q, n, Collisions(y))
                cz == NestedMessageName(q, n, Collisions(z))
    <3>1. p \in Entry /\ p < n /\ p \in Messages(y) /\ p \in Messages(z)
      BY <2>2, ParentIsMessage, CorpusAssumption
    <3>2. Around[n] = {n} \cup Around[p]
      BY <2>2, AroundIs
    <3>3. Undisturbed(y, z, p)
      BY <3>2 DEF Undisturbed
    <3>4. q = Name(z)[p]
      BY <3>1, <3>3, <1>4
    <3>5. /\ Name(y)[n] = NameBelow(y, q, n)
          /\ Name(z)[n] = NameBelow(z, q, n)
      BY <2>2, <3>4, NameIs
    <3>6. n \in Around[n]
      BY <3>2
    <3>7. \A o \in CameOrWent(y, z) :
            /\ ~(Kind[o] = "message" /\ Parent[o] # Top /\ Label[o] = Label[n])
            /\ ~(Kind[o] = "enum" /\ Label[o] \in {Name(y)[n], Name(z)[n]})
      BY <3>6, <1>1, <1>2 DEF Undisturbed
    <3>8. Label[n] \in Collisions(y) <=> Label[n] \in Collisions(z)
      BY <3>7, <1>3, CollisionsStay
    <3>9. cy = cz
      BY <3>8 DEF NestedMessageName
    <3>. HIDE DEF q, p
    <3>10. /\ NameBelow(y, q, n) = IF cy \in EnumLabels(y) THEN q \o cy ELSE cy
           /\ NameBelow(z, q, n) = IF cy \in EnumLabels(z) THEN q \o cy ELSE cy
      BY <3>9 DEF NameBelow, AvoidEnumName
    <3>. HIDE DEF cy, cz
    <3>11. cy \in EnumLabels(y) => cy \in EnumLabels(z)
      <4>. SUFFICES ASSUME cy \in EnumLabels(y), cy \notin EnumLabels(z) PROVE FALSE
        OBVIOUS
      <4>1. Name(z)[n] = cy
        BY <3>5, <3>10
      <4>2. \A o \in CameOrWent(y, z) : ~(Kind[o] = "enum" /\ Label[o] = cy)
        BY <4>1, <3>7
      <4>. QED BY <4>2, EnumLabelsStay
    <3>12. cy \in EnumLabels(z) => cy \in EnumLabels(y)
      <4>. SUFFICES ASSUME cy \in EnumLabels(z), cy \notin EnumLabels(y) PROVE FALSE
        OBVIOUS
      <4>1. Name(y)[n] = cy
        BY <3>5, <3>10
      <4>2. \A o \in CameOrWent(z, y) : ~(Kind[o] = "enum" /\ Label[o] = cy)
        BY <4>1, <3>7, <1>3
      <4>. QED BY <4>2, EnumLabelsStay
    <3>. QED BY <3>5, <3>10, <3>11, <3>12
  <2>. QED BY <2>1, <2>2
<1>5. Entry \subseteq S
  <2>. HIDE DEF S
  <2>. QED BY <1>4, CorpusAssumption, Strong
<1>. QED BY <1>1, <1>2, <1>5

(* Edits elsewhere rename nothing: a message that both outputs have keeps   *)
(* its name, and with it the tags of its fields, unless a list or container *)
(* of its label, or of one it is nested in, came or went below a root, or   *)
(* an enum did that is called like it (emit.go:411).                        *)
THEOREM MessagesKeepTheirNames == Spec => MessageNamesStay
<1>1. IInv /\ IInv' /\ Nested /\ Nested' =>
        (made' # made => \A n \in Messages(made) \cap Messages(made') :
           MessageName(made)[n] # MessageName(made')[n] =>
             \E a \in Around[n], o \in CameOrWent(made, made') :
               \/ Kind[o] = "message" /\ Parent[o] # Top /\ Label[o] = Label[a]
               \/ Kind[o] = "enum" /\ Label[o] \in {MessageName(made)[a], MessageName(made')[a]})
  <2>. DEFINE z == made'
  <2>. SUFFICES ASSUME IInv, IInv', Nested, Nested', NEW n \in Messages(made) \cap Messages(z),
                       MessageName(made)[n] # MessageName(z)[n]
                PROVE  ~Undisturbed(made, z, n)
    BY DEF Undisturbed
  <2>1. made \in SUBSET Entry /\ z \in SUBSET Entry /\ Closed(made) /\ Closed(z)
    BY DEF IInv, TypeOK, Nested
  <2>. HIDE DEF z
  <2>. QED BY <2>1, NamesStay
<1>. QED BY <1>1, AlwaysNested, RunsFollowTheYang, PTL DEF Spec, MessageNamesStay
=============================================================================
