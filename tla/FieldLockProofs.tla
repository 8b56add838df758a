-------------------------- MODULE FieldLockProofs --------------------------
(***************************************************************************)
(* FieldLock, proved for every set of messages, fields and declarations:   *)
(* as long as a field name keeps its shape, the lock is an append-only     *)
(* wire map and everything main has carried stays decodable.               *)
(***************************************************************************)
EXTENDS FieldLock, TLAPS

(* A message's declarations are a sequence of at most MaxFields of Decls. *)
LEMMA FieldSeqFacts ==
  ASSUME NEW s \in FieldSeqs
  PROVE  /\ s \in Seq(Decls) /\ Len(s) \in Nat /\ Len(s) <= MaxFields
         /\ \A i \in 1..Len(s) : s[i] \in Decls
<1>1. PICK n \in 0..MaxFields : s \in [1..n -> Decls]
  BY DEF FieldSeqs
<1>2. n \in Nat /\ n <= MaxFields
  BY <1>1, LockAssumption DEF LockAssumption
<1>3. QED
  BY <1>1, <1>2

LEMMA YangFacts ==
  ASSUME TypeOK, NEW m \in Message
  PROVE  /\ yang[m].fields \in FieldSeqs /\ yang[m].live \in BOOLEAN
         /\ Len(yang[m].fields) \in Nat /\ Len(yang[m].fields) <= MaxFields
         /\ \A i \in 1..Len(yang[m].fields) :
              yang[m].fields[i] \in Decls /\ yang[m].fields[i].name \in Field
<1>1. yang[m] \in Entry
  BY DEF TypeOK
<1>2. yang[m].fields \in FieldSeqs /\ yang[m].live \in BOOLEAN
  BY <1>1 DEF Entry
<1>3. \A d \in Decls : d.name \in Field
  BY LockAssumption DEF LockAssumption
<1>4. QED
  BY <1>2, <1>3, FieldSeqFacts

LEMMA OrderFacts ==
  /\ Len(Order) \in Nat
  /\ \A i \in 1..Len(Order) : Order[i] \in Message
  /\ \A i, j \in 1..Len(Order) : Order[i] = Order[j] => i = j
  /\ \A m \in Message : \E i \in 1..Len(Order) : Order[i] = m
  BY LockAssumption DEF LockAssumption

LEMMA ReservedTagNat == \A d : ReservedTag(d) \in Nat
  BY LockAssumption DEF ReservedTag, LockAssumption, NoTag

LEMMA EmittedType ==
  ASSUME TypeOK, NEW L \in LockFile, NEW m \in Message
  PROVE  Emitted(L, m) \in Block
  BY DEF Emitted, Block, LockFile, Absent, NoTags, Tags, NoTag

LEMMA InitType == Init => TypeOK
<1> SUFFICES ASSUME Init PROVE TypeOK
  OBVIOUS
<1>1. <<>> \in FieldSeqs
  <2>1. <<>> \in [1..0 -> Decls]
    OBVIOUS
  <2>2. 0 \in 0..MaxFields
    BY LockAssumption DEF LockAssumption
  <2> QED
    BY <2>1, <2>2 DEF FieldSeqs
<1>2. EmptyLock \in LockFile /\ Absent \in Block
  BY DEF EmptyLock, LockFile, Absent, Block, NoTags, Tags, NoTag
<1>3. yang \in [Message -> Entry]
  BY <1>1 DEF Init, Entry
<1>4. proto \in [Message -> Block] /\ mainProto \in [Message -> Block]
  BY <1>2 DEF Init
<1>5. idx \in 0..(MaxFields + 1)
  BY LockAssumption DEF Init, LockAssumption
<1>6. drift \in BOOLEAN /\ again \in BOOLEAN
  BY DEF Init
<1> QED
  BY <1>2, <1>3, <1>4, <1>5, <1>6 DEF Init, TypeOK

(* Every step keeps every variable in its set. *)
LEMMA TypeStep == TypeOK /\ [Next]_vars => TypeOK'
<1> SUFFICES ASSUME TypeOK, [Next]_vars PROVE TypeOK'
  OBVIOUS
<1> USE DEF tree, main, run
<1>0. EmptyLock \in LockFile
  BY DEF EmptyLock, LockFile, Tags, NoTag
<1>1. CASE \E m \in Message : \E entry \in Entry : EditYang(m, entry)
  BY <1>1 DEF EditYang, TypeOK
<1>2. CASE RestoreLock
  BY <1>2 DEF RestoreLock, TypeOK
<1>3. CASE \E i \in 1..Len(Files) : RestoreProto(i)
  BY <1>3 DEF RestoreProto, TypeOK
<1>4. CASE Merge
  <2>1. \A m \in Message, f \in Field : proto[m].live[f] \in Tags
    BY DEF TypeOK, Block
  <2>2. published' \subseteq Message \X Field \X (Tags \ {NoTag})
    BY <1>4, <2>1 DEF Merge, TypeOK
  <2> QED
    BY <1>4, <2>2 DEF Merge, TypeOK
<1>5. CASE LoadFieldLock
  <2>1. idx' \in 0..(MaxFields + 1)
    BY <1>5, LockAssumption DEF LoadFieldLock, LockAssumption
  <2>2. drift' \in BOOLEAN /\ again' \in BOOLEAN
    BY <1>5, Zenon DEF LoadFieldLock
  <2> QED
    BY <1>5, <2>1, <2>2 DEF LoadFieldLock, TypeOK
<1>6. CASE SkipMessage
  BY <1>6 DEF SkipMessage, TypeOK
<1>7. CASE BeginAssign
  <2>1. Order[cur] \in Message
    BY <1>7, LockAssumption DEF BeginAssign, LockAssumption, TypeOK
  <2>2. used' \subseteq Tags \ {NoTag}
    BY <1>7, <2>1 DEF BeginAssign, Held, TypeOK, LockFile
  <2>3. idx' \in 0..(MaxFields + 1)
    BY <1>7, LockAssumption DEF BeginAssign, LockAssumption
  <2> QED
    BY <1>7, <2>2, <2>3 DEF BeginAssign, TypeOK
<1>8. ASSUME NEW m \in Message, NEW d \in Decls,
             AssignReserved(m, d) \/ KeepTag(m, d) \/ AssignFree(m, d)
      PROVE  TypeOK'
  <2>1. Numbering(m, d)
    BY <1>8 DEF AssignReserved, KeepTag, AssignFree
  <2>2. idx' \in 0..(MaxFields + 1)
    <3>1. Len(yang[m].fields) \in Nat /\ Len(yang[m].fields) <= MaxFields
      BY YangFacts
    <3>2. idx \in 1..Len(yang[m].fields) /\ idx' = idx + 1
      BY <2>1 DEF Numbering
    <3>3. MaxFields \in Nat
      BY LockAssumption DEF LockAssumption
    <3> HIDE DEF TypeOK
    <3> QED
      BY <3>1, <3>2, <3>3
  <2>3. d.name \in Field /\ ReservedTag(d) \in Tags
    BY LockAssumption, ReservedTagNat DEF LockAssumption, Tags
  <2>4. mem' \in LockFile /\ used' \subseteq Tags \ {NoTag}
    <3>1. CASE AssignReserved(m, d)
      BY <3>1, <2>3 DEF AssignReserved, TypeOK, LockFile
    <3>2. CASE KeepTag(m, d)
      BY <3>2 DEF KeepTag, TypeOK
    <3>3. CASE AssignFree(m, d)
      <4>1. PICK t \in 1..TagBound : /\ NextFree(t)
                                     /\ mem' = [mem EXCEPT ![m][d.name] = t]
                                     /\ used' = used \cup {t}
        BY <3>3 DEF AssignFree
      <4>2. t \in Tags \ {NoTag}
        <5> TagBound \in Nat  BY LockAssumption DEF LockAssumption
        <5> HIDE DEF TypeOK
        <5> QED  BY <4>1 DEF Tags, NoTag
      <4> QED
        BY <4>1, <4>2, <2>3 DEF TypeOK, LockFile
    <3> QED
      BY <1>8, <3>1, <3>2, <3>3
  <2> QED
    BY <2>1, <2>2, <2>4 DEF Numbering, TypeOK
<1>9. CASE EndMessage
  <2>1. idx' \in 0..(MaxFields + 1)
    BY <1>9, LockAssumption DEF EndMessage, LockAssumption
  <2> QED
    BY <1>9, <2>1 DEF EndMessage, TypeOK
<1>10. CASE ValidatePass
  BY <1>10 DEF ValidatePass, TypeOK
<1>11. CASE ValidateFail
  <2>1. drift' \in BOOLEAN /\ again' \in BOOLEAN
    BY <1>11 DEF ValidateFail, TypeOK
  <2> QED
    BY <1>0, <1>11, <2>1 DEF ValidateFail, TypeOK
<1>12. CASE WriteProtoFile
  <2>1. \A m \in Message : Emitted(mem, m) \in Block
    BY EmittedType DEF TypeOK
  <2>2. proto' \in [Message -> Block]
    BY <1>12, <2>1 DEF WriteProtoFile, TypeOK
  <2> QED
    BY <1>12, <2>2 DEF WriteProtoFile, TypeOK
<1>13. CASE SaveLock
  <2>1. drift' \in BOOLEAN /\ again' \in BOOLEAN
    BY <1>13 DEF SaveLock, TypeOK
  <2> QED
    BY <1>0, <1>13, <2>1 DEF SaveLock, TypeOK
<1>14. CASE Abort
  <2>1. idx' \in 0..(MaxFields + 1)
    BY <1>14, LockAssumption DEF Abort, LockAssumption
  <2>2. drift' \in BOOLEAN /\ again' \in BOOLEAN
    BY <1>14 DEF Abort
  <2> QED
    BY <1>0, <1>14, <2>1, <2>2 DEF Abort, TypeOK
<1>15. CASE UNCHANGED vars
  BY <1>15 DEF vars, TypeOK
<1> QED
  BY <1>1, <1>2, <1>3, <1>4, <1>5, <1>6, <1>7, <1>8, <1>9, <1>10, <1>11,
     <1>12, <1>13, <1>14, <1>15 DEF Next

(* FieldLock's variables keep their shapes, whatever the constants. *)
THEOREM TypeCorrect == Spec => []TypeOK
  BY InitType, TypeStep, PTL DEF Spec

-----------------------------------------------------------------------------
(***************************************************************************)
(* Facts about one turn of Assign's loop.                                  *)
(***************************************************************************)

(* A declaration of m that Assign is told nothing about is a plain one:     *)
(* m's own use of wire-source, with the one outside, makes it shared.       *)
LEMMA UnreservedIsPlain ==
  ASSUME ShapesFixed, TypeOK, NEW m \in Message,
         NEW i \in 1..Len(yang[m].fields), ReservedTag(yang[m].fields[i]) = NoTag
  PROVE  yang[m].fields[i].shape = "plain"
<1> DEFINE d == yang[m].fields[i]
<1>1. d \in Decls
  BY YangFacts
<1>2. d.shape \in {"plain", "kind", "wire"}
  BY <1>1, LockAssumption DEF LockAssumption, Shape
<1>3. d.shape # "kind"
  BY LockAssumption DEF ReservedTag, LockAssumption, NoTag
<1>4. ASSUME d.shape = "wire" PROVE FALSE
  <2>1. m \in WireUsers
    BY <1>4 DEF WireUsers
  <2>2. WireShared
    BY <2>1, LockAssumption DEF WireShared, ShapesFixed, LockAssumption
  <2> QED
    BY <1>4, <2>2, LockAssumption DEF ReservedTag, LockAssumption, NoTag
<1> QED
  BY <1>2, <1>3, <1>4

LEMMA ReservedTagFits ==
  ASSUME NEW d \in Decls, ReservedTag(d) # NoTag
  PROVE  TagFits(d, ReservedTag(d)) /\ ReservedTag(d) \in {KindTag, SourceTag}
  BY DEF ReservedTag, TagFits

(* A lock that fits its declarations has a reserved tag only on its field. *)
LEMMA ReservedOnlyOnce ==
  ASSUME NEW L, LockOK(L), NEW m \in Message, NEW g \in Field, NEW d \in Decls,
         NEW t \in {KindTag, SourceTag}, TagFits(d, t), L[m][g] = t
  PROVE  g = d.name
<1>1. t # NoTag
  BY LockAssumption DEF LockAssumption, NoTag
<1>2. PICK e \in Decls : e.name = g /\ TagFits(e, t)
  BY <1>1 DEF LockOK
<1>3. d.shape \in Shape /\ e.shape \in Shape
  BY LockAssumption DEF LockAssumption
<1> QED
  BY <1>2, <1>3, LockAssumption DEF LockAssumption, TagFits, Shape

(* Giving declaration d of m a tag no other field of m has keeps a lock OK. *)
LEMMA AssignKeepsLockOK ==
  ASSUME NEW L \in LockFile, LockOK(L), NEW m \in Message, NEW d \in Decls,
         NEW t \in Nat, TagFits(d, t),
         \A g \in Field : L[m][g] = t => g = d.name,
         NEW K, K = [L EXCEPT ![m][d.name] = t]
  PROVE  LockOK(K)
<1>1. d.name \in Field
  BY LockAssumption DEF LockAssumption
<1>2. \A n \in Message, f \in Field :
        K[n][f] = IF n = m /\ f = d.name THEN t ELSE L[n][f]
  BY <1>1 DEF LockFile
<1>3. ASSUME NEW n \in Message, NEW f \in Field, K[n][f] # NoTag
      PROVE  \E e \in Decls : e.name = f /\ TagFits(e, K[n][f])
  BY <1>2, <1>3 DEF LockOK
<1>4. Wire!OneTagPerField(K)
  BY <1>2 DEF LockOK, Wire!OneTagPerField
<1> QED
  BY <1>3, <1>4 DEF LockOK

LEMMA AssignExtends ==
  ASSUME NEW L \in LockFile, NEW m \in Message, NEW d \in Decls, NEW t \in Nat,
         L[m][d.name] \in {NoTag, t}, NEW B, Wire!Extends(L, B)
  PROVE  Wire!Extends([L EXCEPT ![m][d.name] = t], B)
<1> DEFINE K == [L EXCEPT ![m][d.name] = t]
<1>1. d.name \in Field
  BY LockAssumption DEF LockAssumption
<1>2. \A n \in Message, f \in Field :
        K[n][f] = IF n = m /\ f = d.name THEN t ELSE L[n][f]
  BY <1>1 DEF LockFile
<1>3. \A n \in Message, f \in Field : L[n][f] # NoTag => K[n][f] = L[n][f]
  BY <1>2
<1> QED
  BY <1>3 DEF Wire!Extends, Wire!NoTag, NoTag

(* What one turn of the loop does to the lock in memory. *)
LEMMA LoopTurn ==
  ASSUME ShapesFixed, IInv, NEW m \in Message, NEW d \in Decls,
         AssignReserved(m, d) \/ KeepTag(m, d) \/ AssignFree(m, d)
  PROVE  \E t \in Nat :
           /\ mem' = [mem EXCEPT ![m][d.name] = t]
           /\ t # NoTag /\ TagFits(d, t)
           /\ ReservedTag(d) # NoTag => t = ReservedTag(d)
           /\ mem[m][d.name] \in {NoTag, t}
           /\ \A g \in Field : mem[m][g] = t => g = d.name
           /\ t \in used' \cup {KindTag, SourceTag} /\ used \subseteq used'
<1>1. Numbering(m, d)
  BY DEF AssignReserved, KeepTag, AssignFree
<1>2. /\ idx # 0 /\ m = Order[cur] /\ idx \in 1..Len(yang[m].fields)
      /\ d = yang[m].fields[idx] /\ pc = "emit"
  BY <1>1, YangFacts DEF Numbering, IInv
<1>3. LockOK(mem) /\ mem \in LockFile /\ d.name \in Field
  BY LockAssumption DEF IInv, LocksInv, TypeOK, LockAssumption
<1>4. Held(mem, m) \subseteq used \cup {KindTag, SourceTag}
  BY <1>2 DEF IInv, EmitInv
<1>5. CASE AssignReserved(m, d)
  <2> DEFINE t == ReservedTag(d)
  <2>1. t \in Nat /\ t # NoTag /\ TagFits(d, t) /\ t \in {KindTag, SourceTag}
    BY <1>5, ReservedTagNat, ReservedTagFits DEF AssignReserved
  <2>2. \A g \in Field : mem[m][g] = t => g = d.name
    BY <2>1, <1>3, ReservedOnlyOnce
  <2>3. ASSUME mem[m][d.name] # NoTag PROVE mem[m][d.name] = t
    <3>1. PICK e \in Decls : e.name = d.name /\ TagFits(e, mem[m][d.name])
      BY <2>3, <1>3 DEF LockOK
    <3>2. e.shape = d.shape /\ d.shape \in Shape
      BY <3>1, LockAssumption DEF ShapesFixed, LockAssumption
    <3> QED
      BY <2>1, <3>1, <3>2, LockAssumption DEF TagFits, Shape, LockAssumption
  <2> HIDE DEF t
  <2> QED
    BY <1>5, <2>1, <2>2, <2>3 DEF AssignReserved, t
<1>6. CASE KeepTag(m, d)
  <2> DEFINE t == mem[m][d.name]
  <2>1. t \in Nat /\ t # NoTag /\ mem' = mem /\ used' = used /\ ReservedTag(d) = NoTag
    BY <1>3, <1>6 DEF KeepTag, LockFile, Tags
  <2>2. mem' = [mem EXCEPT ![m][d.name] = t]
    BY <2>1, <1>3 DEF LockFile
  <2>3. PICK e \in Decls : e.name = d.name /\ TagFits(e, t)
    BY <2>1, <1>3 DEF LockOK
  <2>4. TagFits(d, t)
    BY <2>3 DEF ShapesFixed, TagFits
  <2>5. \A g \in Field : mem[m][g] = t => g = d.name
    BY <1>3, <2>1 DEF LockOK, Wire!OneTagPerField, Wire!NoTag, NoTag
  <2>6. t \in used \cup {KindTag, SourceTag}
    BY <1>3, <1>4, <2>1 DEF Held
  <2> QED
    BY <2>1, <2>2, <2>4, <2>5, <2>6
<1>7. CASE AssignFree(m, d)
  <2>1. PICK t \in 1..TagBound : /\ NextFree(t)
                                 /\ mem' = [mem EXCEPT ![m][d.name] = t]
                                 /\ used' = used \cup {t}
    BY <1>7 DEF AssignFree
  <2>2. t \in Nat /\ t # NoTag /\ t \notin used \cup {KindTag, SourceTag}
    <3>1. Free(t)
      BY <2>1 DEF NextFree
    <3>2. t \in Nat
      BY <2>1, LockAssumption DEF LockAssumption
    <3> QED
      BY <3>1, <3>2 DEF Free, NoTag
  <2>3. ReservedTag(d) = NoTag /\ mem[m][d.name] = NoTag
    BY <1>7 DEF AssignFree
  <2>4. d.shape = "plain"
    BY <1>2, <2>3, UnreservedIsPlain DEF IInv
  <2>5. TagFits(d, t)
    BY <2>2, <2>4 DEF TagFits
  <2>6. \A g \in Field : mem[m][g] = t => g = d.name
    BY <1>4, <2>2 DEF Held
  <2> QED
    BY <2>1, <2>2, <2>3, <2>5, <2>6
<1> QED
  BY <1>5, <1>6, <1>7

-----------------------------------------------------------------------------
(***************************************************************************)
(* The inductive invariant.                                                *)
(***************************************************************************)
LEMMA EmptyLockOK == LockOK(EmptyLock)
  BY DEF LockOK, EmptyLock, Wire!OneTagPerField, Wire!NoTag, NoTag

LEMMA ExtendsRefl == \A L : Wire!Extends(L, L)
  BY DEF Wire!Extends

LEMMA ExtendsTrans ==
  ASSUME NEW A, NEW B, NEW C, Wire!Extends(A, B), Wire!Extends(B, C)
  PROVE  Wire!Extends(A, C)
  BY DEF Wire!Extends

LEMMA InitInv == Init => IInv
<1> SUFFICES ASSUME Init PROVE IInv
  OBVIOUS
<1>1. TypeOK
  BY InitType
<1>2. LocksInv
  BY EmptyLockOK, ExtendsRefl DEF Init, LocksInv
<1>3. MainInv
  BY DEF Init, MainInv, Accounts, Absent
<1>4. EmitInv /\ WriteInv /\ SettledInv
  BY DEF Init, EmitInv, WriteInv, SettledInv, RegenerationSettles
<1> QED
  BY <1>1, <1>2, <1>3, <1>4 DEF IInv

(* The three locks stay well formed and in order: main, tree, memory. *)
LEMMA LocksStep == ShapesFixed /\ IInv /\ [Next]_vars => LocksInv'
<1> SUFFICES ASSUME ShapesFixed, IInv, [Next]_vars PROVE LocksInv'
  OBVIOUS
<1> USE DEF tree, main, run
<1>0. LocksInv /\ TypeOK
  BY DEF IInv
<1>1. CASE UNCHANGED <<lock, mainLock, mem, pc>>
  BY <1>0, <1>1 DEF LocksInv, LockOK, Wire!OneTagPerField, Wire!Extends
<1>2. CASE RestoreLock
  BY <1>0, <1>2, ExtendsRefl DEF RestoreLock, LocksInv, LockOK,
     Wire!OneTagPerField, Wire!Extends
<1>3. CASE Merge
  BY <1>0, <1>3, ExtendsRefl DEF Merge, LocksInv, LockOK,
     Wire!OneTagPerField, Wire!Extends
<1>4. CASE LoadFieldLock
  BY <1>0, <1>4, ExtendsRefl DEF LoadFieldLock, LocksInv, LockOK,
     Wire!OneTagPerField, Wire!Extends
<1>5. ASSUME NEW m \in Message, NEW d \in Decls,
             AssignReserved(m, d) \/ KeepTag(m, d) \/ AssignFree(m, d)
      PROVE  LocksInv'
  <2>1. UNCHANGED <<lock, mainLock, pc>> /\ pc = "emit"
    BY <1>5 DEF AssignReserved, KeepTag, AssignFree, Numbering
  <2>2. PICK t \in Nat :
           /\ mem' = [mem EXCEPT ![m][d.name] = t]
           /\ TagFits(d, t) /\ mem[m][d.name] \in {NoTag, t}
           /\ \A g \in Field : mem[m][g] = t => g = d.name
    BY <1>5, LoopTurn
  <2>3. mem \in LockFile /\ LockOK(mem) /\ Wire!Extends(mem, lock)
    BY <1>0, <2>1 DEF LocksInv, TypeOK
  <2>4. LockOK(mem')
    BY <2>2, <2>3, AssignKeepsLockOK
  <2>5. Wire!Extends(mem', lock)
    BY <2>2, <2>3, AssignExtends
  <2> QED
    BY <1>0, <2>1, <2>4, <2>5 DEF LocksInv, LockOK, Wire!OneTagPerField, Wire!Extends
<1>6. CASE SkipMessage \/ BeginAssign \/ EndMessage \/ WriteProtoFile
  BY <1>1, <1>6 DEF SkipMessage, BeginAssign, EndMessage, WriteProtoFile
<1>7. CASE ValidatePass
  BY <1>0, <1>7 DEF ValidatePass, LocksInv, LockOK, Wire!OneTagPerField, Wire!Extends
<1>8. CASE ValidateFail \/ Abort
  BY <1>0, <1>8, EmptyLockOK DEF ValidateFail, Abort, LocksInv, LockOK,
     Wire!OneTagPerField, Wire!Extends
<1>9. CASE SaveLock
  <2>1. Wire!Extends(mem, mainLock)
    BY <1>0, <1>9, ExtendsTrans DEF SaveLock, LocksInv
  <2> QED
    BY <1>0, <1>9, <2>1, EmptyLockOK DEF SaveLock, LocksInv, LockOK,
       Wire!OneTagPerField, Wire!Extends
<1>10. CASE \E m \in Message : \E entry \in Entry : EditYang(m, entry)
  BY <1>1, <1>10 DEF EditYang
<1>11. CASE \E i \in 1..Len(Files) : RestoreProto(i)
  BY <1>1, <1>11 DEF RestoreProto
<1>12. CASE UNCHANGED vars
  BY <1>1, <1>12 DEF vars
<1> QED
  BY <1>2, <1>3, <1>4, <1>5, <1>6, <1>7, <1>8, <1>9, <1>10, <1>11, <1>12 DEF Next

LEMMA AccountsSettled ==
  ASSUME Settled, TypeOK
  PROVE  Accounts(proto, lock)
<1> SUFFICES ASSUME NEW m \in Message, NEW f \in Field
             PROVE  \/ proto[m].live[f] = lock[m][f] /\ proto[m].reserved[f] = NoTag
                    \/ proto[m].live[f] = NoTag /\ proto[m].reserved[f] = lock[m][f]
                    \/ proto[m] = Absent
  BY DEF Accounts
<1>1. proto[m] = Emitted(lock, m)
  BY DEF Settled
<1> QED
  BY <1>1 DEF Emitted

(* Main only ever receives a settled tree, whose lock extends main's. *)
LEMMA MainStep == IInv /\ [Next]_vars => MainInv'
<1> SUFFICES ASSUME IInv, [Next]_vars PROVE MainInv'
  OBVIOUS
<1> USE DEF tree, main, run
<1>0. MainInv /\ TypeOK
  BY DEF IInv
<1>1. CASE UNCHANGED main
  BY <1>0, <1>1 DEF MainInv, Accounts, Absent
<1>2. CASE Merge
  <2>1. Settled /\ Wire!Extends(lock, mainLock)
    BY <1>2 DEF Merge, IInv, SettledInv, LocksInv
  <2>2. mainProto' = proto /\ mainLock' = lock
    BY <1>2 DEF Merge
  <2>3. Accounts(proto, lock)
    BY <1>0, <2>1, AccountsSettled
  <2>4. ASSUME NEW p \in published PROVE lock[p[1]][p[2]] = p[3]
    <3>1. p[1] \in Message /\ p[2] \in Field /\ p[3] # NoTag
      BY <1>0 DEF TypeOK
    <3>2. mainLock[p[1]][p[2]] = p[3]
      BY <1>0 DEF MainInv
    <3> QED
      BY <2>1, <3>1, <3>2 DEF Wire!Extends, Wire!NoTag, NoTag
  <2>5. ASSUME NEW m \in Message, NEW f \in Field, proto[m].live[f] # NoTag
        PROVE  lock[m][f] = proto[m].live[f]
    BY <2>3, <2>5 DEF Accounts, Absent, NoTags
  <2>6. ASSUME NEW p \in published' PROVE lock[p[1]][p[2]] = p[3]
    <3>1. CASE p \in published
      BY <2>4, <3>1
    <3>2. CASE p \notin published
      <4>1. PICK m \in Message, f \in Field :
               p = <<m, f, proto[m].live[f]>> /\ proto[m].live[f] # NoTag
        BY <1>2, <2>6, <3>2 DEF Merge
      <4> QED
        BY <2>5, <4>1
    <3> QED
      BY <3>1, <3>2
  <2> QED
    BY <2>1, <2>2, <2>3, <2>6 DEF MainInv, Accounts, Absent, Settled
<1>3. Merge \/ UNCHANGED main
  BY DEF Next, vars, EditYang, RestoreLock, RestoreProto, LoadFieldLock, SkipMessage,
     BeginAssign, AssignReserved, KeepTag, AssignFree, Numbering, EndMessage,
     ValidatePass, ValidateFail, WriteProtoFile, SaveLock, Abort
<1> QED
  BY <1>1, <1>2, <1>3

LEMMA NumberedStable ==
  ASSUME UNCHANGED <<yang, mem>>
  PROVE  /\ \A m : Numbered(mem, m)' <=> Numbered(mem, m)
         /\ \A m, j : DeclNumbered(mem, m, j)' <=> DeclNumbered(mem, m, j)
         /\ \A m : Emitted(mem, m)' = Emitted(mem, m)
  BY DEF Numbered, DeclNumbered, ReservedTag, WireShared, WireUsers, Emitted, Names

LEMMA SettledStable ==
  ASSUME UNCHANGED <<yang, proto, lock>>
  PROVE  Settled' <=> Settled
  BY DEF Settled, Numbered, DeclNumbered, ReservedTag, WireShared, WireUsers, Emitted,
     Names

(* A turn of the loop numbers one more declaration and unnumbers none. *)
LEMMA EmitLoop ==
  ASSUME ShapesFixed, IInv, NEW m \in Message, NEW d \in Decls,
         AssignReserved(m, d) \/ KeepTag(m, d) \/ AssignFree(m, d)
  PROVE  EmitInv'
<1>1. /\ UNCHANGED <<yang, cur, pc>> /\ pc = "emit" /\ cur <= Len(Order)
      /\ m = Order[cur] /\ idx \in 1..Len(yang[m].fields) /\ idx' = idx + 1
      /\ d = yang[m].fields[idx]
  BY DEF AssignReserved, KeepTag, AssignFree, Numbering, tree, main
<1>2. /\ mem \in LockFile /\ cur \in Nat \ {0} /\ Len(yang[m].fields) \in Nat
      /\ d.name \in Field
  BY YangFacts, LockAssumption DEF IInv, TypeOK, LockAssumption
<1>3. PICK t \in Nat :
           /\ mem' = [mem EXCEPT ![m][d.name] = t]
           /\ t # NoTag /\ (ReservedTag(d) # NoTag => t = ReservedTag(d))
           /\ t \in used' \cup {KindTag, SourceTag} /\ used \subseteq used'
  BY LoopTurn
<1>4. idx # 0 /\ idx \in Nat
  BY <1>1, <1>2
<1>5. /\ \A i \in 1..(cur - 1) : Numbered(mem, Order[i])
      /\ yang[m].live /\ Held(mem, m) \subseteq used \cup {KindTag, SourceTag}
      /\ \A j \in 1..(idx - 1) : DeclNumbered(mem, m, j)
  BY <1>1, <1>4 DEF IInv, EmitInv
<1>6. \A n \in Message, f \in Field :
        mem'[n][f] = IF n = m /\ f = d.name THEN t ELSE mem[n][f]
  BY <1>2, <1>3 DEF LockFile
<1>7. \A e : ReservedTag(e)' = ReservedTag(e)
  BY <1>1 DEF ReservedTag, WireShared, WireUsers
<1>8. Held(mem', m) \subseteq used' \cup {KindTag, SourceTag}
  BY <1>3, <1>5, <1>6 DEF Held
<1>9. ASSUME NEW i \in 1..(cur - 1) PROVE Numbered(mem, Order[i])'
  <2>1. /\ i \in 1..Len(Order) /\ cur \in 1..Len(Order) /\ i # cur
        /\ Order[i] \in Message
    <3>1. i \in 1..Len(Order) /\ cur \in 1..Len(Order) /\ i # cur
      BY <1>1, <1>2, OrderFacts
    <3> QED
      BY <3>1, OrderFacts
  <2>2. Order[i] # m
    BY <1>1, <2>1, OrderFacts
  <2>3. Numbered(mem, Order[i])
    BY <1>5
  <2>4. \A j \in 1..Len(yang[Order[i]].fields) : yang[Order[i]].fields[j].name \in Field
    BY <2>1, YangFacts DEF IInv
  <2> QED
    BY <1>1, <1>6, <1>7, <2>1, <2>2, <2>3, <2>4 DEF Numbered, DeclNumbered
<1>10. ASSUME NEW j \in 1..idx PROVE DeclNumbered(mem, m, j)'
  <2> DEFINE e == yang[m].fields[j]
  <2>1. j \in 1..Len(yang[m].fields)
    BY <1>1, <1>2
  <2>2. e \in Decls /\ e.name \in Field
    BY <2>1, YangFacts DEF IInv
  <2>3. CASE e.name = d.name
    <3>1. mem'[m][e.name] = t
      BY <1>6, <2>2, <2>3
    <3>2. ReservedTag(e) = ReservedTag(d)
      BY <2>2, <2>3 DEF ShapesFixed, ReservedTag
    <3> QED
      BY <1>1, <1>3, <1>7, <3>1, <3>2 DEF DeclNumbered
  <2>4. CASE e.name # d.name
    <3>1. mem'[m][e.name] = mem[m][e.name]
      BY <1>6, <2>2, <2>4
    <3>2. j \in 1..(idx - 1)
      BY <1>1, <1>4, <2>4
    <3>3. DeclNumbered(mem, m, j)
      BY <1>5, <3>2
    <3> QED
      BY <1>1, <1>7, <3>1, <3>3 DEF DeclNumbered
  <2> QED
    BY <2>3, <2>4
<1> QED
  BY <1>1, <1>2, <1>4, <1>5, <1>8, <1>9, <1>10 DEF EmitInv, Held

LEMMA EmitStep == ShapesFixed /\ IInv /\ [Next]_vars => EmitInv'
<1> SUFFICES ASSUME ShapesFixed, IInv, [Next]_vars PROVE EmitInv'
  OBVIOUS
<1> USE DEF tree, main, run
<1>0. EmitInv /\ cur \in Nat \ {0} /\ idx \in Nat /\ Len(Order) \in Nat
  BY LockAssumption DEF IInv, TypeOK, LockAssumption
<1>1. CASE pc' # "emit"
  BY <1>1 DEF EmitInv
<1>2. CASE LoadFieldLock
  BY <1>2, LockAssumption DEF LoadFieldLock, EmitInv, LockAssumption
<1>3. CASE SkipMessage
  <2>1. UNCHANGED <<yang, mem, idx>> /\ pc = "emit" /\ cur' = cur + 1
        /\ cur <= Len(Order) /\ ~yang[Order[cur]].live
    BY <1>3 DEF SkipMessage
  <2>2. idx = 0
    BY <1>0, <2>1 DEF EmitInv
  <2>3. \A i \in 1..cur : Numbered(mem, Order[i])
    BY <1>0, <2>1 DEF EmitInv, Numbered
  <2> QED
    BY <1>0, <2>1, <2>2, <2>3, NumberedStable DEF EmitInv
<1>4. CASE BeginAssign
  <2>1. UNCHANGED <<yang, mem, cur>> /\ pc = "emit" /\ idx' = 1
        /\ cur <= Len(Order) /\ yang[Order[cur]].live /\ used' = Held(mem, Order[cur])
    BY <1>4 DEF BeginAssign
  <2>2. Order[cur] \in Message
    BY <1>0, <2>1, OrderFacts
  <2>3. Len(yang[Order[cur]].fields) \in Nat
    BY <2>2, YangFacts DEF IInv
  <2>4. \A i \in 1..(cur - 1) : Numbered(mem, Order[i])
    BY <1>0, <2>1 DEF EmitInv
  <2> QED
    BY <1>0, <2>1, <2>3, <2>4, NumberedStable DEF EmitInv, Held
<1>5. ASSUME NEW m \in Message, NEW d \in Decls,
             AssignReserved(m, d) \/ KeepTag(m, d) \/ AssignFree(m, d)
      PROVE  EmitInv'
  BY <1>5, EmitLoop
<1>6. CASE EndMessage
  <2>1. UNCHANGED <<yang, mem>> /\ pc = "emit" /\ cur' = cur + 1 /\ idx' = 0
        /\ cur <= Len(Order) /\ yang[Order[cur]].live
        /\ idx = Len(yang[Order[cur]].fields) + 1
    BY <1>6 DEF EndMessage
  <2>2. Order[cur] \in Message /\ Len(yang[Order[cur]].fields) \in Nat
    <3>1. Order[cur] \in Message
      BY <1>0, <2>1, OrderFacts
    <3> QED
      BY <3>1, YangFacts DEF IInv
  <2>3. Numbered(mem, Order[cur])
    BY <1>0, <2>1, <2>2 DEF EmitInv, Numbered
  <2>4. \A i \in 1..cur : Numbered(mem, Order[i])
    BY <1>0, <2>1, <2>3 DEF EmitInv
  <2> QED
    BY <1>0, <2>1, <2>4, NumberedStable DEF EmitInv
<1>7. CASE UNCHANGED vars
  BY <1>0, <1>7, NumberedStable DEF vars, EmitInv, Held
<1>8. CASE ValidatePass \/ ValidateFail \/ WriteProtoFile \/ SaveLock \/ Abort
           \/ RestoreLock \/ Merge
  BY <1>1, <1>8 DEF ValidatePass, ValidateFail, WriteProtoFile, SaveLock, Abort,
     RestoreLock, Merge
<1>9. CASE \E m \in Message : \E entry \in Entry : EditYang(m, entry)
  BY <1>1, <1>9 DEF EditYang
<1>10. CASE \E i \in 1..Len(Files) : RestoreProto(i)
  BY <1>1, <1>10 DEF RestoreProto
<1> QED
  BY <1>2, <1>3, <1>4, <1>5, <1>6, <1>7, <1>8, <1>9, <1>10 DEF Next

LEMMA WriteStep == IInv /\ [Next]_vars => WriteInv'
<1> SUFFICES ASSUME IInv, [Next]_vars PROVE WriteInv'
  OBVIOUS
<1> USE DEF tree, main, run
<1>0. WriteInv /\ cur \in Nat \ {0} /\ Len(Files) \in Nat
  BY LockAssumption DEF IInv, TypeOK, LockAssumption
<1>1. CASE pc' # "write"
  BY <1>1 DEF WriteInv
<1>2. CASE ValidatePass
  <2>1. /\ UNCHANGED <<yang, mem>> /\ pc = "emit" /\ cur > Len(Order) /\ cur' = 1
        /\ \A m \in Message : ~Emitted(mem, m).clash
    BY <1>2 DEF ValidatePass, UniqueFieldTags
  <2>2. ASSUME NEW m \in Message PROVE Numbered(mem, m)
    <3>1. PICK i \in 1..Len(Order) : Order[i] = m
      BY OrderFacts
    <3>2. i \in 1..(cur - 1)
      BY <1>0, <2>1, <3>1, OrderFacts
    <3> QED
      BY <2>1, <3>1, <3>2 DEF IInv, EmitInv
  <2> QED
    BY <2>1, <2>2, NumberedStable DEF WriteInv
<1>3. CASE WriteProtoFile
  <2>1. /\ UNCHANGED <<yang, mem>> /\ pc = "write" /\ cur' = cur + 1
        /\ cur \in 1..Len(Files)
        /\ proto' = [m \in Message |-> IF m \in Files[cur] THEN Emitted(mem, m)
                                                         ELSE proto[m]]
    BY <1>0, <1>3 DEF WriteProtoFile
  <2>2. \A i \in 1..Len(Files) : Files[i] \subseteq Message
    BY LockAssumption DEF LockAssumption
  <2>3. ASSUME NEW i \in 1..Len(Files), i < cur + 1, NEW m \in Files[i]
        PROVE  proto'[m] = Emitted(mem, m)
    <3>1. m \in Message
      BY <2>2
    <3>2. i = cur \/ i < cur
      BY <1>0, <2>3
    <3> QED
      BY <1>0, <2>1, <2>3, <3>1, <3>2 DEF WriteInv
  <2>4. \A m \in Message : Numbered(mem, m) /\ ~Emitted(mem, m).clash
    BY <1>0, <2>1 DEF WriteInv
  <2> QED
    BY <2>1, <2>3, <2>4, NumberedStable DEF WriteInv
<1>4. CASE UNCHANGED vars
  BY <1>0, <1>4, NumberedStable DEF vars, WriteInv
<1>5. CASE RestoreLock \/ Merge \/ LoadFieldLock \/ SkipMessage \/ BeginAssign
           \/ EndMessage \/ ValidateFail \/ SaveLock \/ Abort
  BY <1>1, <1>5 DEF RestoreLock, Merge, LoadFieldLock, SkipMessage, BeginAssign,
     EndMessage, ValidateFail, SaveLock, Abort
<1>6. CASE \E m \in Message : \E entry \in Entry : EditYang(m, entry)
  BY <1>1, <1>6 DEF EditYang
<1>7. CASE \E i \in 1..Len(Files) : RestoreProto(i)
  BY <1>1, <1>7 DEF RestoreProto
<1>8. CASE \E m \in Message, d \in Decls :
              AssignReserved(m, d) \/ KeepTag(m, d) \/ AssignFree(m, d)
  BY <1>1, <1>8 DEF AssignReserved, KeepTag, AssignFree, Numbering
<1> QED
  BY <1>2, <1>3, <1>4, <1>5, <1>6, <1>7, <1>8 DEF Next

(* On a settled tree a run changes nothing: every turn of the loop gives a  *)
(* field the tag it has, and every file written is the one already there.   *)
LEMMA LoopOnSettled ==
  ASSUME IInv, Settled, mem = lock, NEW m \in Message, NEW d \in Decls,
         AssignReserved(m, d) \/ KeepTag(m, d) \/ AssignFree(m, d)
  PROVE  mem' = mem
<1>1. /\ m = Order[cur] /\ pc = "emit" /\ cur <= Len(Order)
      /\ idx \in 1..Len(yang[m].fields) /\ d = yang[m].fields[idx]
  BY DEF AssignReserved, KeepTag, AssignFree, Numbering
<1>2. idx # 0
  BY <1>1, YangFacts DEF IInv
<1>3. yang[m].live
  BY <1>1, <1>2 DEF IInv, EmitInv
<1>4. DeclNumbered(mem, m, idx)
  BY <1>1, <1>3 DEF Settled, Numbered
<1>5. /\ mem[m][d.name] # NoTag
      /\ ReservedTag(d) # NoTag => mem[m][d.name] = ReservedTag(d)
  BY <1>1, <1>4 DEF DeclNumbered
<1>6. mem \in LockFile
  BY DEF IInv, TypeOK
<1>7. CASE AssignReserved(m, d)
  BY <1>5, <1>6, <1>7 DEF AssignReserved, LockFile
<1>8. CASE KeepTag(m, d)
  BY <1>8 DEF KeepTag
<1>9. CASE AssignFree(m, d)
  BY <1>5, <1>9 DEF AssignFree
<1> QED
  BY <1>7, <1>8, <1>9

LEMMA SettledStep == IInv /\ [Next]_vars => SettledInv'
<1> SUFFICES ASSUME IInv, [Next]_vars PROVE SettledInv'
  OBVIOUS
<1> USE DEF tree, main, run
<1>0. /\ verdict # "none" => pc = "idle" /\ Settled
      /\ again /\ pc # "idle" => Settled /\ mem = lock /\ drift = FALSE
      /\ again /\ pc = "idle" => verdict # "drift"
  BY DEF IInv, SettledInv, RegenerationSettles
<1>1. CASE \/ UNCHANGED vars \/ Merge \/ SkipMessage \/ BeginAssign
           \/ EndMessage \/ ValidatePass
  <2>1. UNCHANGED <<yang, proto, lock, mem, drift, verdict, again>>
    BY <1>1 DEF vars, Merge, SkipMessage, BeginAssign, EndMessage, ValidatePass
  <2>2. (pc' = "idle") <=> (pc = "idle")
    BY <1>1 DEF vars, Merge, SkipMessage, BeginAssign, EndMessage, ValidatePass
  <2> QED
    BY <1>0, <2>1, <2>2, SettledStable DEF SettledInv, RegenerationSettles
<1>2. CASE (\E m \in Message : \E entry \in Entry : EditYang(m, entry))
           \/ RestoreLock \/ \E i \in 1..Len(Files) : RestoreProto(i)
  <2>1. verdict' = "none" /\ pc' = "idle"
    BY <1>2 DEF EditYang, RestoreLock, RestoreProto
  <2> QED
    BY <2>1 DEF SettledInv, RegenerationSettles
<1>3. CASE ValidateFail \/ Abort
  <2>1. pc # "idle" /\ verdict' = verdict /\ pc' = "idle" /\ again' = FALSE
    BY <1>3 DEF ValidateFail, Abort
  <2> QED
    BY <1>0, <2>1 DEF SettledInv, RegenerationSettles
<1>4. CASE LoadFieldLock
  <2>1. /\ UNCHANGED <<yang, proto, lock>> /\ pc' = "emit" /\ mem' = lock
        /\ drift' = FALSE /\ verdict' = "none" /\ (again' => verdict # "none")
    BY <1>4 DEF LoadFieldLock
  <2> QED
    BY <1>0, <2>1, SettledStable DEF SettledInv, RegenerationSettles
<1>5. ASSUME NEW m \in Message, NEW d \in Decls,
             AssignReserved(m, d) \/ KeepTag(m, d) \/ AssignFree(m, d)
      PROVE  SettledInv'
  <2>1. UNCHANGED <<yang, proto, lock, pc, drift, verdict, again>> /\ pc = "emit"
    BY <1>5 DEF AssignReserved, KeepTag, AssignFree, Numbering
  <2>2. again => mem' = mem
    BY <1>0, <1>5, <2>1, LoopOnSettled
  <2> QED
    BY <1>0, <2>1, <2>2, SettledStable DEF SettledInv, RegenerationSettles
<1>6. CASE WriteProtoFile
  <2>1. /\ UNCHANGED <<yang, lock, mem, pc, verdict, again>> /\ pc = "write"
        /\ proto' = [m \in Message |-> IF m \in Files[cur] THEN Emitted(mem, m)
                                                         ELSE proto[m]]
        /\ drift' = (drift \/ proto' # proto)
    BY <1>6 DEF WriteProtoFile
  <2>2. ASSUME again PROVE proto' = proto /\ drift' = FALSE
    <3>1. mem = lock /\ \A m \in Message : proto[m] = Emitted(mem, m)
      BY <1>0, <2>1, <2>2 DEF Settled
    <3>2. proto \in [Message -> Block]
      BY DEF IInv, TypeOK
    <3>3. proto' = proto
      BY <2>1, <3>1, <3>2
    <3> QED
      BY <1>0, <2>1, <2>2, <3>3
  <2> QED
    BY <1>0, <2>1, <2>2, SettledStable DEF SettledInv, RegenerationSettles
<1>7. CASE SaveLock
  <2>1. /\ UNCHANGED <<yang, proto, again>> /\ pc = "write" /\ cur > Len(Files)
        /\ lock' = mem /\ pc' = "idle"
        /\ verdict' = IF drift \/ lock' # lock THEN "drift" ELSE "clean"
    BY <1>7 DEF SaveLock
  <2>2. again => verdict' = "clean"
    BY <1>0, <2>1
  <2>3. ASSUME NEW m \in Message
        PROVE  Numbered(mem, m) /\ proto[m] = Emitted(mem, m) /\ ~Emitted(mem, m).clash
    <3>1. PICK i \in 1..Len(Files) : m \in Files[i]
      BY LockAssumption DEF LockAssumption
    <3>2. i < cur
      BY <2>1, LockAssumption DEF IInv, TypeOK, LockAssumption
    <3> QED
      BY <2>1, <3>1, <3>2 DEF IInv, WriteInv
  <2>4. Settled'
    <3>1. yang' = yang /\ proto' = proto /\ lock' = mem
      BY <2>1
    <3>2. ASSUME NEW m \in Message PROVE Numbered(lock, m)'
      <4>1. \A e : ReservedTag(e)' = ReservedTag(e)
        BY <3>1 DEF ReservedTag, WireShared, WireUsers
      <4>2. Numbered(mem, m)
        BY <2>3
      <4> QED
        BY <3>1, <4>1, <4>2 DEF Numbered, DeclNumbered
    <3>3. ASSUME NEW m \in Message PROVE (proto[m] = Emitted(lock, m) /\ ~proto[m].clash)'
      BY <2>3, <3>1 DEF Emitted, Names
    <3> QED
      BY <3>2, <3>3 DEF Settled
  <2> QED
    BY <2>1, <2>2, <2>4 DEF SettledInv, RegenerationSettles
<1> QED
  BY <1>1, <1>2, <1>3, <1>4, <1>5, <1>6, <1>7 DEF Next

-----------------------------------------------------------------------------
(***************************************************************************)
(* Theorems.                                                               *)
(***************************************************************************)

(* The inductive invariant of FieldLock.tla holds throughout. *)
THEOREM Invariance == ShapesFixed => (Spec => []IInv)
<1> SUFFICES ASSUME ShapesFixed PROVE Spec => []IInv
  OBVIOUS
<1>1. IInv /\ [Next]_vars => IInv'
  <2> SUFFICES ASSUME IInv, [Next]_vars PROVE IInv'
    OBVIOUS
  <2>1. TypeOK'
    BY TypeStep DEF IInv
  <2>2. LocksInv' /\ MainInv' /\ EmitInv' /\ WriteInv' /\ SettledInv'
    BY LocksStep, MainStep, EmitStep, WriteStep, SettledStep
  <2> QED
    BY <2>1, <2>2 DEF IInv
<1> QED
  BY InitInv, <1>1, PTL DEF Spec

(* fieldnum.go:15-16: what main has carried under one tag is never carried  *)
(* under another.                                                           *)
THEOREM TagStability == ShapesFixed => (Spec => []TagsNeverMove)
<1>1. IInv => TagsNeverMove
  BY DEF IInv, MainInv, TagsNeverMove
<1> QED
  BY <1>1, Invariance, PTL

(* docs/versioning.md:53-54: a tag main has carried is never given to       *)
(* another field, even after its own is retired.                            *)
THEOREM NoTagReuse == ShapesFixed => (Spec => []TagsNeverReused)
<1>1. ASSUME IInv PROVE TagsNeverReused
  <2> SUFFICES ASSUME NEW p \in published, NEW q \in published,
                      p[1] = q[1], p[3] = q[3]
               PROVE  p[2] = q[2]
    BY DEF TagsNeverReused
  <2>1. /\ p[1] \in Message /\ p[2] \in Field /\ p[3] # NoTag
        /\ q[2] \in Field
    BY <1>1 DEF IInv, TypeOK
  <2>2. mainLock[p[1]][p[2]] = p[3] /\ mainLock[q[1]][q[2]] = q[3]
    BY <1>1 DEF IInv, MainInv
  <2>3. Wire!OneTagPerField(mainLock)
    BY <1>1 DEF IInv, LocksInv, LockOK
  <2> QED
    BY <2>1, <2>2, <2>3 DEF Wire!OneTagPerField, Wire!NoTag, NoTag
<1> QED
  BY <1>1, Invariance, PTL

(* fieldnum.go:41-47: the reserved tags stay with the reserved shapes. *)
THEOREM ReservedTags == ShapesFixed => (Spec => []ReservedTagsKept)
<1>1. ASSUME IInv PROVE ReservedTagsKept
  <2> SUFFICES ASSUME NEW p \in published
               PROVE  \E d \in Decls : d.name = p[2] /\ TagFits(d, p[3])
    BY DEF ReservedTagsKept
  <2>1. p[1] \in Message /\ p[2] \in Field /\ p[3] # NoTag
    BY <1>1 DEF IInv, TypeOK
  <2>2. mainLock[p[1]][p[2]] = p[3] /\ LockOK(mainLock)
    BY <1>1 DEF IInv, MainInv, LocksInv
  <2> QED
    BY <2>1, <2>2 DEF LockOK
<1> QED
  BY <1>1, Invariance, PTL

(* emit.go:636-642: a message on main shows every tag it has ever carried,  *)
(* as a live field or as reserved.                                          *)
THEOREM RetirementVisible == ShapesFixed => (Spec => []RetiredTagsReserved)
<1>1. ASSUME IInv PROVE RetiredTagsReserved
  <2> SUFFICES ASSUME NEW p \in published, mainProto[p[1]].present
               PROVE  \/ mainProto[p[1]].live[p[2]] = p[3]
                      \/ mainProto[p[1]].reserved[p[2]] = p[3]
    BY DEF RetiredTagsReserved
  <2>1. p[1] \in Message /\ p[2] \in Field
    BY <1>1 DEF IInv, TypeOK
  <2>2. mainLock[p[1]][p[2]] = p[3] /\ Accounts(mainProto, mainLock)
    BY <1>1 DEF IInv, MainInv
  <2>3. mainProto[p[1]] # Absent
    BY DEF Absent
  <2> QED
    BY <2>1, <2>2, <2>3 DEF Accounts
<1> QED
  BY <1>1, Invariance, PTL

(* main.go:227-229: no message on main uses a tag twice, or one it reserves. *)
THEOREM WireUnambiguity == ShapesFixed => (Spec => []WireUnambiguous)
<1>1. ASSUME IInv PROVE WireUnambiguous
  <2> SUFFICES ASSUME NEW m \in Message, NEW f \in Field, NEW g \in Field,
                      mainProto[m].live[f] # NoTag
               PROVE  mainProto[m].live[f] # mainProto[m].reserved[g]
    BY <1>1 DEF WireUnambiguous, IInv, MainInv
  <2>1. Accounts(mainProto, mainLock) /\ Wire!OneTagPerField(mainLock)
    BY <1>1 DEF IInv, MainInv, LocksInv, LockOK
  <2>2. mainProto[m] # Absent
    BY DEF Absent, NoTags
  <2>3. /\ mainProto[m].live[f] = mainLock[m][f] /\ mainProto[m].reserved[f] = NoTag
        /\ mainProto[m].reserved[g] \in {NoTag, mainLock[m][g]}
    BY <2>1, <2>2 DEF Accounts
  <2> QED
    BY <2>1, <2>3 DEF Wire!OneTagPerField, Wire!NoTag, NoTag
<1> QED
  BY <1>1, Invariance, PTL

(* Makefile:79-81: regenerating a settled tree changes nothing. *)
THEOREM GenerationSettles == ShapesFixed => (Spec => []RegenerationSettles)
<1>1. IInv => RegenerationSettles
  BY DEF IInv, SettledInv
<1> QED
  BY <1>1, Invariance, PTL

(* The lock on main implements the append-only wire map. *)
THEOREM Refinement == ShapesFixed => (Spec => WireMapSpec)
<1>1. Init => Wire!Init
  BY DEF Init, Wire!Init, EmptyLock, NoTag, Wire!NoTag
<1>2. ASSUME IInv, IInv', [Next]_vars PROVE [Wire!Append]_mainLock
  <2>1. CASE mainLock' = mainLock
    BY <2>1
  <2>2. CASE Merge
    <3>1. mainLock' = lock
      BY <2>2 DEF Merge
    <3>2. lock \in [Message -> [Field -> Nat]]
      BY <1>2 DEF IInv, TypeOK, LockFile, Tags
    <3>3. Wire!Extends(lock, mainLock) /\ Wire!OneTagPerField(lock)
      BY <1>2 DEF IInv, LocksInv, LockOK
    <3>4. Wire!Extends(mainLock', mainLock) /\ Wire!OneTagPerField(mainLock')
      BY <3>1, <3>3
    <3> QED
      BY <3>1, <3>2, <3>4 DEF Wire!Append
  <2>3. Merge \/ mainLock' = mainLock
    BY <1>2 DEF Next, vars, main, tree, EditYang, RestoreLock, RestoreProto, LoadFieldLock,
       SkipMessage, BeginAssign, AssignReserved, KeepTag, AssignFree, Numbering,
       EndMessage, ValidatePass, ValidateFail, WriteProtoFile, SaveLock, Abort
  <2> QED
    BY <2>1, <2>2, <2>3
<1> QED
  BY <1>1, <1>2, Invariance, PTL DEF Spec, WireMapSpec, Wire!Spec
=============================================================================
