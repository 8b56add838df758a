------------------------- MODULE LaneSignalsProofs -------------------------
(***************************************************************************)
(* The device of LaneSignals numbers its events as stampHeaders promises,  *)
(* for every number of indications, events, arrivals and epochs.           *)
(***************************************************************************)
EXTENDS LaneSignals, Integers, FiniteSetTheorems, TLAPS

(* The events of epoch x. *)
InEpoch(x) == {i \in 1..Len(log) : log[i].epoch = x}

(* No event carries an epoch the device has not begun: a restart finds its  *)
(* new epoch empty, which is why it numbers from 1.                         *)
Begun == \A i \in 1..Len(log) : log[i].epoch <= epoch

IInv == TypeOK /\ Begun

LEMMA InEpochFinite ==
  ASSUME NEW x, Len(log) \in Nat
  PROVE  /\ IsFiniteSet(InEpoch(x))
         /\ Cardinality(InEpoch(x)) \in Nat
         /\ Cardinality(InEpoch(x)) <= Len(log)
<1>1. IsFiniteSet(1..Len(log)) /\ Cardinality(1..Len(log)) = Len(log)
  <2> DEFINE n == Len(log)
  <2>1. n \in Nat /\ 1 \in Int /\ n \in Int
    OBVIOUS
  <2> HIDE DEF n
  <2>2. IsFiniteSet(1..n) /\ Cardinality(1..n) = IF 1 > n THEN 0 ELSE n - 1 + 1
    BY <2>1, FS_Interval
  <2>3. IsFiniteSet(1..n) /\ Cardinality(1..n) = n
    BY <2>1, <2>2
  <2> QED BY <2>3 DEF n
<1>2. InEpoch(x) \subseteq 1..Len(log)
  BY DEF InEpoch
<1>3. IsFiniteSet(InEpoch(x)) /\ Cardinality(InEpoch(x)) <= Cardinality(1..Len(log))
  BY <1>1, <1>2, FS_Subset
<1>4. Cardinality(InEpoch(x)) \in Nat
  BY <1>3, FS_CardinalityType
<1> QED BY <1>1, <1>3, <1>4

(* An event takes the next number of its epoch, and no other. *)
LEMMA EmitKeeps ==
  ASSUME LaneAssumption, IInv, NEW face \in Face \cup {Absent},
         NEW prev \in Indication \cup {Absent},
         NEW cur \in Indication \cup {Absent}, NEW legal \in BOOLEAN,
         Emit(face, prev, cur, legal), UNCHANGED <<epoch, arrived>>
  PROVE  /\ log' \in Seq(Event) /\ arrived' \in Seq(1..Len(log'))
         /\ seq' = Cardinality({i \in 1..Len(log') : log'[i].epoch = epoch'})
         /\ Begun'
<1> DEFINE e == [epoch |-> epoch, seq |-> seq + 1, face |-> face,
                 prev |-> prev, cur |-> cur, legal |-> legal]
<1>1. /\ log \in Seq(Event) /\ Len(log) \in Nat /\ epoch \in 1..MaxEpoch
      /\ seq = Cardinality(InEpoch(epoch)) /\ MaxEpoch \in Nat /\ MaxEvents \in Nat
  BY DEF IInv, TypeOK, InEpoch, LaneAssumption
<1>2. seq \in Nat /\ seq <= Len(log) /\ IsFiniteSet(InEpoch(epoch))
  BY <1>1, InEpochFinite
<1>3. Len(log) < MaxEvents /\ seq' = seq + 1 /\ log' = Append(log, e)
  BY DEF Emit
<1>4. e \in Event
  BY <1>1, <1>2, <1>3 DEF Event
<1> HIDE DEF e
<1>5. /\ log' \in Seq(Event) /\ Len(log') = Len(log) + 1
      /\ \A i \in 1..Len(log) : log'[i] = log[i]
      /\ log'[Len(log) + 1] = e
  BY <1>1, <1>3, <1>4
<1>6. e.epoch = epoch
  BY DEF e
<1>7. {i \in 1..Len(log') : log'[i].epoch = epoch'}
        = InEpoch(epoch) \cup {Len(log) + 1}
  BY <1>1, <1>5, <1>6 DEF InEpoch
<1>8. Len(log) + 1 \notin InEpoch(epoch)
  BY <1>1 DEF InEpoch
<1>9. Cardinality(InEpoch(epoch) \cup {Len(log) + 1}) = seq + 1
  BY <1>1, <1>2, <1>8, FS_AddElement
<1>10. seq' = Cardinality({i \in 1..Len(log') : log'[i].epoch = epoch'})
  BY <1>3, <1>7, <1>9
<1>11. Begun'
  <2> SUFFICES ASSUME NEW i \in 1..Len(log') PROVE log'[i].epoch <= epoch
    BY DEF Begun
  <2>1. CASE i \in 1..Len(log)
    BY <2>1, <1>5 DEF IInv, Begun
  <2>2. CASE i = Len(log) + 1
    BY <2>2, <1>1, <1>5, <1>6
  <2> QED BY <2>1, <2>2, <1>1, <1>5
<1>12. arrived' \in Seq(1..Len(log'))
  <2> DEFINE Old == 1..Len(log)
             New == 1..Len(log')
  <2>1. arrived \in Seq(Old) /\ Old \subseteq New /\ arrived' = arrived
    BY <1>1, <1>5 DEF IInv, TypeOK
  <2> HIDE DEF Old, New
  <2>2. \A k \in 1..Len(arrived) : arrived[k] \in New
    BY <2>1
  <2>3. arrived' \in Seq(New)
    BY <2>1, <2>2
  <2> QED BY <2>3 DEF New
<1> QED BY <1>5, <1>10, <1>11, <1>12

LEMMA InitIInv == LaneAssumption /\ Init => IInv
<1> SUFFICES ASSUME LaneAssumption, Init PROVE IInv
  OBVIOUS
<1>1. Len(log) = 0 /\ 1..Len(log) = {}
  BY DEF Init
<1>2. log \in Seq(Event) /\ arrived \in Seq(1..Len(log))
  BY DEF Init
<1>3. {i \in 1..Len(log) : log[i].epoch = epoch} = {}
  BY <1>1
<1>4. seq = Cardinality({i \in 1..Len(log) : log[i].epoch = epoch})
  BY <1>3, FS_EmptySet DEF Init
<1>5. shown \in [Face -> Indication] /\ epoch \in 1..MaxEpoch
  BY DEF Init, LaneAssumption
<1>6. Begun
  BY <1>1 DEF Begun
<1> QED BY <1>2, <1>4, <1>5, <1>6 DEF IInv, TypeOK

LEMMA ArriveKeeps ==
  ASSUME IInv, NEW i \in 1..Len(log), Arrive(i)
  PROVE  IInv'
<1>1. arrived' \in Seq(1..Len(log)) /\ UNCHANGED <<shown, epoch, seq, log>>
  BY DEF Arrive, IInv, TypeOK
<1> QED BY <1>1 DEF IInv, TypeOK, Begun

LEMMA NextIInv == LaneAssumption /\ IInv /\ [Next]_vars => IInv'
<1> SUFFICES ASSUME LaneAssumption, IInv, [Next]_vars PROVE IInv'
  OBVIOUS
<1>1. ASSUME NEW f \in Face, NEW cur \in Indication,
             NEW prev \in Indication \cup {Absent}, Change(f, cur, prev)
      PROVE  IInv'
  <2>1. Mutcd(shown, f, cur) \in BOOLEAN
    BY DEF Mutcd
  <2>2. Emit(f, prev, cur, Mutcd(shown, f, cur)) /\ UNCHANGED <<epoch, arrived>>
        /\ shown' = [shown EXCEPT ![f] = cur]
    BY <1>1 DEF Change
  <2>3. shown' \in [Face -> Indication]
    BY <2>2 DEF IInv, TypeOK
  <2>4. /\ log' \in Seq(Event) /\ arrived' \in Seq(1..Len(log'))
        /\ seq' = Cardinality({i \in 1..Len(log') : log'[i].epoch = epoch'})
        /\ Begun'
    <3> DEFINE legal == Mutcd(shown, f, cur)
    <3>1. Emit(f, prev, cur, legal) /\ legal \in BOOLEAN
      BY <2>1, <2>2
    <3> HIDE DEF legal
    <3> QED BY <3>1, <2>2, EmitKeeps
  <2> QED BY <2>2, <2>3, <2>4 DEF IInv, TypeOK
<1>2. CASE OtherEvent
  <2>1. Emit(Absent, Absent, Absent, TRUE) /\ UNCHANGED <<shown, epoch, arrived>>
    BY <1>2 DEF OtherEvent
  <2>2. /\ log' \in Seq(Event) /\ arrived' \in Seq(1..Len(log'))
        /\ seq' = Cardinality({i \in 1..Len(log') : log'[i].epoch = epoch'})
        /\ Begun'
    BY <2>1, EmitKeeps
  <2> QED BY <2>1, <2>2 DEF IInv, TypeOK
<1>3. CASE Restart
  <2>1. /\ epoch' = epoch + 1 /\ seq' = 0 /\ epoch < MaxEpoch
        /\ UNCHANGED <<shown, log, arrived>>
    BY <1>3 DEF Restart
  <2>2. /\ epoch \in 1..MaxEpoch /\ MaxEpoch \in Nat /\ log \in Seq(Event)
        /\ \A i \in 1..Len(log) : log[i].epoch <= epoch
    BY DEF IInv, TypeOK, Begun, LaneAssumption
  <2>3. \A i \in 1..Len(log) : log[i].epoch \in 1..MaxEpoch
    <3>1. \A i \in 1..Len(log) : log[i] \in Event
      BY <2>2
    <3>2. \A e \in Event : e.epoch \in 1..MaxEpoch
      BY DEF Event
    <3> QED BY <3>1, <3>2
  <2>4. epoch' \in 1..MaxEpoch
    BY <2>1, <2>2
  <2>5. \A i \in 1..Len(log) : log[i].epoch # epoch + 1 /\ log[i].epoch <= epoch + 1
    BY <2>2, <2>3
  <2>6. {i \in 1..Len(log') : log'[i].epoch = epoch'} = {} /\ Begun'
    BY <2>1, <2>5 DEF Begun
  <2>7. seq' = Cardinality({i \in 1..Len(log') : log'[i].epoch = epoch'})
    BY <2>1, <2>6, FS_EmptySet
  <2> QED BY <2>1, <2>4, <2>6, <2>7 DEF IInv, TypeOK
<1>4. CASE Deliver
  BY <1>4, ArriveKeeps DEF Deliver
<1>5. CASE Redeliver
  <2>1. Got \subseteq 1..Len(log)
    BY DEF Got, IInv, TypeOK
  <2> QED BY <1>5, <2>1, ArriveKeeps DEF Redeliver
<1>6. CASE UNCHANGED vars
  BY <1>6 DEF vars, IInv, TypeOK, Begun
<1> QED BY <1>1, <1>2, <1>3, <1>4, <1>5, <1>6 DEF Next

(* stampHeaders numbers the events of an epoch without a hole, so that the  *)
(* sequence of the last one is their count, also after a restart: what both *)
(* checks take from a conforming device.                                    *)
THEOREM TypeCorrect == Spec => []TypeOK
<1>1. Init => IInv
  BY LaneAssumption, InitIInv
<1>2. IInv /\ [Next]_vars => IInv'
  BY LaneAssumption, NextIInv
<1>3. IInv => TypeOK
  BY DEF IInv
<1> QED BY <1>1, <1>2, <1>3, PTL DEF Spec
=============================================================================
