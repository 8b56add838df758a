--------------------------- MODULE HarnessProofs ---------------------------
(* Theorems about Harness, for every channel capacity, set of values, clock *)
(* resolution and bound.                                                     *)
EXTENDS Harness, TLAPS

(* observed-at is a time no later than the reading. *)
LEMMA StampType ==
  ASSUME NEW t \in Nat, NEW r \in Nat \ {0}
  PROVE  t - (t % r) \in Nat /\ t - (t % r) <= t
  BY SMT

LEMMA ReadType ==
  ASSUME TypeOK
  PROVE  Read \in Reading /\ Read.seq = Len(emitted) /\ Read.time = now /\ Read.at <= now
<1>1. now \in Nat /\ Resolution \in Nat \ {0}
  BY HarnessAssumption DEF TypeOK
<1>2. now - (now % Resolution) \in Nat /\ now - (now % Resolution) <= now
  BY <1>1, StampType
<1> QED
  BY <1>1, <1>2 DEF TypeOK, Read, Reading

LEMMA InitType == Init => TypeOK
<1> SUFFICES ASSUME Init PROVE TypeOK
  OBVIOUS
<1>1. emitted \in Seq(Event) /\ events \in Seq(Event)
  BY DEF Init
<1>2. ch \in Seq(Event) /\ Len(ch) <= Cap
  BY HarnessAssumption DEF Init
<1>3. subDone \in Seq({"result"}) /\ Len(subDone) <= 1
  BY DEF Init
<1>4. now \in Nat /\ value \in Value /\ first \in Nat \ {0} /\ next \in Nat \ {0}
  BY DEF Init
<1>5. before = NoReading /\ after = NoReading /\ pc = "collect" /\ sub = "none"
        /\ window = "open" /\ closed = FALSE
  BY DEF Init
<1> QED
  BY <1>1, <1>2, <1>3, <1>4, <1>5 DEF TypeOK

LEMMA StepType ==
  ASSUME TypeOK, [Next]_vars
  PROVE  TypeOK'
<1> USE HarnessAssumption
<1> USE DEF Finished
<1>1. CASE Tick
  BY <1>1 DEF TypeOK, Tick, driver, chans, seen
<1>2. ASSUME NEW v \in Value, Transition(v) PROVE TypeOK'
  <2>1. [seq |-> Len(emitted) + 1, at |-> now, val |-> v] \in Event
    BY DEF TypeOK, Event
  <2> QED
    BY <1>2, <2>1 DEF TypeOK, Transition, driver, chans, seen
<1>3. ASSUME NEW v \in Value, SilentChange(v) PROVE TypeOK'
  BY <1>3 DEF TypeOK, SilentChange, driver, chans, seen
<1>4. CASE CollectFirst
  BY <1>4, ReadType DEF TypeOK, CollectFirst, device, driver, chans, seen
<1>5. CASE CollectFirstFails
  BY <1>5 DEF TypeOK, CollectFirstFails, device, driver, chans, seen
<1>6. CASE Subscribe
  BY <1>6 DEF TypeOK, Subscribe, device, driver, chans, seen
<1>7. CASE Receive
  <2>1. Head(ch) \in Event /\ Tail(ch) \in Seq(Event) /\ Len(Tail(ch)) <= Cap
    BY <1>7 DEF TypeOK, Receive
  <2>2. events' \in Seq(Event)
    BY <1>7, <2>1 DEF TypeOK, Receive
  <2> QED
    BY <1>7, <2>1, <2>2 DEF TypeOK, Receive, device, driver, chans, seen
<1>8. CASE StopDraining
  BY <1>8 DEF TypeOK, StopDraining, device, driver, chans, seen
<1>9. CASE Join
  BY <1>9 DEF TypeOK, Join, device, driver, chans, seen
<1>10. CASE CollectAfter
  BY <1>10, ReadType DEF TypeOK, CollectAfter, device, driver, chans, seen
<1>11. CASE CollectAfterFails
  BY <1>11 DEF TypeOK, CollectAfterFails, device, driver, chans, seen
<1>12. CASE Judge
  BY <1>12 DEF TypeOK, Judge, device, driver, chans, seen
<1>13. CASE Send
  <2>1. emitted[next] \in Event
    BY <1>13 DEF TypeOK, Send
  <2>2. ch' \in Seq(Event) /\ Len(ch') <= Cap
    BY <1>13, <2>1 DEF TypeOK, Send
  <2> QED
    BY <1>13, <2>1, <2>2 DEF TypeOK, Send, device, driver, chans, seen
<1>14. CASE Return
  BY <1>14 DEF TypeOK, Return, device, driver, chans, seen
<1>15. CASE ReturnError
  BY <1>15 DEF TypeOK, ReturnError, device, driver, chans, seen
<1>16. CASE Report
  BY <1>16 DEF TypeOK, Report, device, driver, chans, seen
<1>17. CASE Close
  BY <1>17 DEF TypeOK, Close, device, driver, chans, seen
<1>18. CASE WindowCloses
  BY <1>18 DEF TypeOK, WindowCloses, device, driver, chans, seen
<1>19. CASE UNCHANGED vars
  BY <1>19 DEF TypeOK, vars, device, driver, chans, seen
<1> QED
  BY <1>1, <1>2, <1>3, <1>4, <1>5, <1>6, <1>7, <1>8, <1>9, <1>10, <1>11, <1>12, <1>13, <1>14, <1>15, <1>16, <1>17, <1>18, <1>19 DEF Next, Main, Goroutine, Device

(* Every variable keeps its type and the channel its capacity. *)
THEOREM TypeCorrect == Spec => []TypeOK
<1>1. TypeOK /\ [Next]_vars => TypeOK'
  BY StepType
<1> QED
  BY InitType, <1>1, PTL DEF Spec

-----------------------------------------------------------------------------
(* The inductive invariant. *)

(* Events carry their number, and times that never decrease. *)
Stamped ==
  /\ \A i \in 1..Len(emitted) : emitted[i].seq = i /\ emitted[i].at <= now
  /\ \A i, j \in 1..Len(emitted) : i <= j => emitted[i].at <= emitted[j].at

(* What main received, then what the channel holds, is the stretch of the   *)
(* device's events the driver has sent.                                     *)
Stretch ==
  /\ first <= next /\ next <= Len(emitted) + 1
  /\ Len(events) + Len(ch) = next - first
  /\ \A i \in 1..Len(events) : events[i] = emitted[first + i - 1]
  /\ \A i \in 1..Len(ch) : ch[i] = emitted[first + Len(events) + i - 1]

Left == {"join", "recollect", "judge", "passed", "failed"}

(* Where main and the goroutine can be together. *)
Control ==
  /\ closed <=> sub = "done"
  /\ sub = "none" <=> pc \in {"collect", "subscribe", "error"}
  /\ sub = "none" => events = <<>> /\ ch = <<>>
  /\ pc \in Left => closed /\ ch = <<>>
  /\ after # NoReading => pc \in {"judge", "passed", "failed"}

(* What each reading reflects. *)
Readings ==
  /\ pc = "subscribe" => before.seq <= Len(emitted)
  /\ sub # "none" => before.seq < first
  /\ after # NoReading =>
       /\ after.seq <= Len(emitted) /\ next <= after.seq + 1
       /\ \A i \in 1..after.seq : emitted[i].at <= after.time

IInv == TypeOK /\ Stamped /\ Stretch /\ Control /\ Readings

LEMMA InitIInv == Init => IInv
<1> SUFFICES ASSUME Init PROVE IInv
  OBVIOUS
<1>1. TypeOK
  BY InitType
<1>2. /\ emitted = <<>> /\ events = <<>> /\ ch = <<>> /\ first = 1 /\ next = 1
      /\ pc = "collect" /\ sub = "none" /\ closed = FALSE /\ after = NoReading
  BY DEF Init
<1>3. Stamped
  BY <1>2 DEF Stamped
<1>4. Stretch
  BY <1>2 DEF Stretch
<1>5. Control /\ Readings
  BY <1>2 DEF Control, Readings, Left
<1> QED
  BY <1>1, <1>3, <1>4, <1>5 DEF IInv

(* Only a tick and a transition touch what Stamped speaks of. *)
LEMMA StampedStep ==
  ASSUME IInv, [Next]_vars
  PROVE  Stamped'
<1> DEFINE n == Len(emitted)
<1>0. /\ n \in Nat /\ now \in Nat
      /\ \A i \in 1..n : emitted[i].seq = i /\ emitted[i].at <= now /\ emitted[i].at \in Nat
      /\ \A i, j \in 1..n : i <= j => emitted[i].at <= emitted[j].at
  <2>1. \A i \in 1..n : emitted[i] \in Event
    BY DEF IInv, TypeOK
  <2> QED
    BY <2>1 DEF IInv, TypeOK, Stamped, Event
<1>1. CASE Tick
  <2>1. emitted' = emitted /\ now' = now + 1
    BY <1>1 DEF Tick
  <2> QED
    BY <1>0, <2>1 DEF Stamped
<1>2. ASSUME NEW v \in Value, Transition(v) PROVE Stamped'
  <2> DEFINE e == [seq |-> Len(emitted) + 1, at |-> now, val |-> v]
  <2>1. e \in Event /\ e.seq = Len(emitted) + 1 /\ e.at = now
    BY DEF IInv, TypeOK, Event
  <2> HIDE DEF e
  <2>2. emitted' = Append(emitted, e) /\ now' = now
    BY <1>2 DEF Transition, e
  <2>3. /\ Len(emitted') = Len(emitted) + 1
        /\ emitted'[Len(emitted) + 1] = e
        /\ \A i \in 1..Len(emitted) : emitted'[i] = emitted[i]
    BY <2>1, <2>2 DEF IInv, TypeOK
  <2> HIDE DEF n
  <2>4. \A i \in 1..Len(emitted') : i \in 1..n \/ i = n + 1
    BY <1>0, <2>3 DEF n
  <2>5. \A i \in 1..Len(emitted') : emitted'[i].seq = i /\ emitted'[i].at <= now'
    BY <1>0, <2>1, <2>2, <2>3, <2>4 DEF n
  <2>6. \A i, j \in 1..Len(emitted') : i <= j => emitted'[i].at <= emitted'[j].at
    BY <1>0, <2>1, <2>2, <2>3, <2>4 DEF n
  <2> QED
    BY <2>5, <2>6 DEF Stamped
<1>3. CASE UNCHANGED <<now, emitted>>
  BY <1>3 DEF IInv, Stamped
<1> QED
  BY <1>1, <1>2, <1>3 DEF Next, Main, Goroutine, Device, vars, device,
     SilentChange, CollectFirst, CollectFirstFails, Subscribe, Receive,
     StopDraining, Join, CollectAfter, CollectAfterFails, Judge, Send, Return,
     ReturnError, Report, Close, WindowCloses

LEMMA StretchStep ==
  ASSUME IInv, [Next]_vars
  PROVE  Stretch'
<1>0. /\ emitted \in Seq(Event) /\ events \in Seq(Event) /\ ch \in Seq(Event)
      /\ first \in Nat \ {0} /\ next \in Nat \ {0} /\ now \in Nat
      /\ Stretch /\ Control
  BY DEF IInv, TypeOK
<1>6. /\ first <= next /\ next <= Len(emitted) + 1
      /\ Len(events) + Len(ch) = next - first
      /\ Len(events) \in Nat /\ Len(ch) \in Nat /\ Len(emitted) \in Nat
      /\ first \in Nat /\ next \in Nat
  BY <1>0 DEF Stretch
<1>1. ASSUME NEW v \in Value, Transition(v) PROVE Stretch'
  <2> DEFINE e == [seq |-> Len(emitted) + 1, at |-> now, val |-> v]
  <2>1. e \in Event
    BY <1>0 DEF Event
  <2> HIDE DEF e
  <2>2. emitted' = Append(emitted, e) /\ UNCHANGED <<first, next, events, ch>>
    BY <1>1 DEF Transition, e, driver, chans, seen
  <2>3. /\ Len(emitted') = Len(emitted) + 1
        /\ \A i \in 1..Len(emitted) : emitted'[i] = emitted[i]
    BY <1>0, <2>1, <2>2
  <2>4. \A i \in 1..Len(events) : first + i - 1 \in 1..Len(emitted)
    BY <1>0 DEF Stretch
  <2>5. \A i \in 1..Len(ch) : first + Len(events) + i - 1 \in 1..Len(emitted)
    BY <1>0 DEF Stretch
  <2> QED
    BY <1>0, <2>2, <2>3, <2>4, <2>5 DEF Stretch
<1>2. CASE Subscribe
  <2>1. events = <<>> /\ ch = <<>>
    BY <1>0, <1>2 DEF IInv, TypeOK, Finished, Subscribe, Control
  <2> QED
    BY <1>0, <1>2, <2>1 DEF Subscribe, Stretch, device, chans, seen
<1>3. CASE Receive
  <2>1. /\ Len(events') = Len(events) + 1 /\ Len(ch') = Len(ch) - 1
        /\ events'[Len(events) + 1] = ch[1]
        /\ \A i \in 1..Len(events) : events'[i] = events[i]
        /\ \A i \in 1..Len(ch') : ch'[i] = ch[i + 1]
    BY <1>0, <1>3 DEF Receive
  <2>2. UNCHANGED <<emitted, first, next>>
    BY <1>3 DEF Receive, device, driver
  <2>3. \A i \in 1..Len(events') : i \in 1..Len(events) \/ i = Len(events) + 1
    BY <1>0, <2>1
  <2>4. Len(ch) >= 1
    BY <1>0, <1>3 DEF Receive
  <2>5. \A i \in 1..Len(events') : events'[i] = emitted[first + i - 1]
    BY <1>0, <2>1, <2>3, <2>4 DEF Stretch
  <2>6. \A i \in 1..Len(ch') : ch'[i] = emitted[first + Len(events') + i - 1]
    <3> SUFFICES ASSUME NEW i \in 1..Len(ch')
                 PROVE  ch'[i] = emitted[first + Len(events') + i - 1]
      OBVIOUS
    <3>1. i + 1 \in 1..Len(ch) /\ i \in Nat
      BY <1>0, <2>1, <2>4
    <3>2. ch[i + 1] = emitted[first + Len(events) + (i + 1) - 1]
      BY <1>0, <3>1 DEF Stretch
    <3>3. first + Len(events) + (i + 1) - 1 = first + Len(events') + i - 1
      BY <1>0, <2>1, <3>1
    <3> QED
      BY <2>1, <3>2, <3>3
  <2>7. /\ first' <= next' /\ next' <= Len(emitted') + 1
        /\ Len(events') + Len(ch') = next' - first'
    BY <1>6, <2>1, <2>2, <2>4
  <2> QED
    BY <2>2, <2>5, <2>6, <2>7 DEF Stretch
<1>4. CASE Send
  <2>1. emitted[next] \in Event
    BY <1>0, <1>4 DEF Send
  <2>2. /\ Len(ch') = Len(ch) + 1 /\ ch'[Len(ch) + 1] = emitted[next]
        /\ \A i \in 1..Len(ch) : ch'[i] = ch[i]
    BY <1>0, <1>4, <2>1 DEF Send
  <2>3. UNCHANGED <<emitted, first, events>> /\ next' = next + 1 /\ next <= Len(emitted)
    BY <1>4 DEF Send, device, seen
  <2>4. \A i \in 1..Len(ch') : i \in 1..Len(ch) \/ i = Len(ch) + 1
    BY <1>0, <2>2
  <2>5. next = first + Len(events) + (Len(ch) + 1) - 1
    BY <1>6
  <2>6. \A i \in 1..Len(ch') : ch'[i] = emitted[first + Len(events) + i - 1]
    BY <1>0, <2>2, <2>4, <2>5 DEF Stretch
  <2>7. /\ first' <= next' /\ next' <= Len(emitted') + 1
        /\ Len(events') + Len(ch') = next' - first'
    BY <1>6, <2>2, <2>3
  <2>8. \A i \in 1..Len(events') : events'[i] = emitted'[first' + i - 1]
    BY <1>0, <2>3 DEF Stretch
  <2> QED
    BY <2>3, <2>6, <2>7, <2>8 DEF Stretch
<1>5. CASE UNCHANGED <<emitted, first, next, events, ch>>
  BY <1>0, <1>5 DEF Stretch
<1> QED
  BY <1>1, <1>2, <1>3, <1>4, <1>5 DEF Next, Main, Goroutine, Device, vars, device,
     driver, chans, seen, Tick, SilentChange, CollectFirst, CollectFirstFails,
     StopDraining, Join, CollectAfter, CollectAfterFails, Judge, Return,
     ReturnError, Report, Close, WindowCloses

LEMMA ControlStep ==
  ASSUME IInv, [Next]_vars
  PROVE  Control'
<1> USE DEF IInv, TypeOK, Control, Left, Finished
<1>1. CASE Main
  BY <1>1 DEF Main, device, driver, chans, seen, CollectFirst, CollectFirstFails,
     Subscribe, Receive, StopDraining, Join, CollectAfter, CollectAfterFails, Judge
<1>2. CASE Goroutine
  BY <1>2 DEF Goroutine, device, driver, chans, seen, Send, Return, ReturnError,
     Report, Close
<1>3. CASE Device
  <2>1. UNCHANGED <<pc, sub, closed, events, ch, after>>
    BY <1>3 DEF Device, Tick, Transition, SilentChange, chans, seen
  <2> QED
    BY <2>1
<1>5. CASE WindowCloses
  BY <1>5 DEF WindowCloses, chans, seen
<1>4. CASE UNCHANGED vars
  BY <1>4 DEF vars, chans, seen
<1> QED
  BY <1>1, <1>2, <1>3, <1>4, <1>5 DEF Next

LEMMA ReadingsStep ==
  ASSUME IInv, [Next]_vars
  PROVE  Readings'
<1> DEFINE n == Len(emitted)
<1>0. /\ n \in Nat /\ now \in Nat /\ next \in Nat /\ next <= n + 1
      /\ \A i \in 1..n : emitted[i].at <= now
      /\ pc \notin {"collect", "error"} => before.seq \in Nat
      /\ after # NoReading => after.seq \in Nat
  BY DEF IInv, TypeOK, Stamped, Stretch, Reading
<1>1. /\ sub = "none" <=> pc \in {"collect", "subscribe", "error"}
      /\ after # NoReading => sub = "done" /\ pc \in {"judge", "passed", "failed"}
  BY DEF IInv, Control, Left
<1>2. Readings
  BY DEF IInv
<1>3. ASSUME NEW v \in Value, Transition(v) PROVE Readings'
  <2> DEFINE e == [seq |-> Len(emitted) + 1, at |-> now, val |-> v]
  <2>1. e \in Event /\ emitted \in Seq(Event)
    BY DEF IInv, TypeOK, Event
  <2> HIDE DEF e
  <2>2. emitted' = Append(emitted, e) /\ UNCHANGED <<pc, sub, first, next, before, after>>
    BY <1>3 DEF Transition, e, driver, seen
  <2>3. Len(emitted') = n + 1 /\ \A i \in 1..n : emitted'[i] = emitted[i]
    BY <2>1, <2>2
  <2>4. pc' = "subscribe" => before'.seq <= Len(emitted')
    BY <1>0, <1>2, <2>2, <2>3 DEF Readings
  <2>5. ASSUME after' # NoReading
        PROVE  /\ after'.seq <= Len(emitted') /\ next' <= after'.seq + 1
               /\ \A i \in 1..after'.seq : emitted'[i].at <= after'.time
    <3>1. after.seq \in Nat /\ after.seq <= n /\ next <= after.seq + 1
          /\ \A i \in 1..after.seq : emitted[i].at <= after.time
      BY <1>0, <1>2, <2>2, <2>5 DEF Readings
    <3>2. \A i \in 1..after.seq : i \in 1..n
      BY <1>0, <3>1
    <3> QED
      BY <1>0, <2>2, <2>3, <3>1, <3>2
  <2> QED
    BY <1>2, <2>2, <2>4, <2>5 DEF Readings
<1>4. CASE CollectFirst
  <2>1. before' = Read /\ pc' = "subscribe" /\ sub' = sub /\ emitted' = emitted
        /\ after' = after /\ sub = "none" /\ after = NoReading
    BY <1>1, <1>4 DEF CollectFirst, device
  <2>2. before'.seq = n
    BY <2>1, ReadType DEF IInv
  <2> QED
    BY <1>0, <2>1, <2>2 DEF Readings
<1>5. CASE Subscribe
  <2>1. pc' = "drain" /\ first' = n + 1 /\ before' = before /\ after' = after
        /\ pc = "subscribe" /\ after = NoReading
    BY <1>1, <1>5 DEF Subscribe, seen
  <2> QED
    BY <1>0, <1>2, <2>1 DEF Readings
<1>6. CASE CollectAfter
  <2>1. after' = Read /\ pc' = "judge" /\ before' = before
        /\ UNCHANGED <<emitted, sub, first, next>>
    BY <1>6 DEF CollectAfter, device, driver
  <2>2. after'.seq = n /\ after'.time = now
    BY <2>1, ReadType DEF IInv
  <2> QED
    BY <1>0, <1>2, <2>1, <2>2 DEF Readings
<1>7. CASE Send
  <2>1. sub = "send" /\ UNCHANGED <<pc, sub, first, before, after>>
    BY <1>7 DEF Send, seen
  <2>2. after = NoReading /\ pc # "subscribe"
    BY <1>1, <2>1
  <2> QED
    BY <1>2, <2>1, <2>2 DEF Readings
<1>8. CASE CollectAfterFails
  <2>1. after' = NoReading /\ pc' = "judge" /\ UNCHANGED <<sub, first, before>>
    BY <1>8 DEF CollectAfterFails, driver
  <2> QED
    BY <1>2, <2>1 DEF Readings
<1>9. ASSUME /\ UNCHANGED <<emitted, first, next, before, after>>
             /\ pc' = "subscribe" => pc = "subscribe"
             /\ sub' # "none" => sub # "none"
      PROVE  Readings'
  BY <1>2, <1>9 DEF Readings
<1>10. CASE Main
  BY <1>4, <1>5, <1>6, <1>8, <1>9, <1>10 DEF Main, device, driver, chans, seen,
     CollectFirstFails, Receive, StopDraining, Join, Judge
<1>11. CASE Goroutine
  BY <1>7, <1>9, <1>11 DEF Goroutine, device, driver, chans, seen, Return,
     ReturnError, Report, Close
<1>12. CASE Device \/ WindowCloses
  BY <1>3, <1>9, <1>12 DEF Device, device, driver, chans, seen, Tick, SilentChange,
     WindowCloses
<1>13. CASE UNCHANGED vars
  BY <1>9, <1>13 DEF vars, device, driver, chans, seen
<1> QED
  BY <1>10, <1>11, <1>12, <1>13 DEF Next

THEOREM Inductive == Spec => []IInv
<1>1. IInv /\ [Next]_vars => IInv'
  BY StepType, StampedStep, StretchStep, ControlStep, ReadingsStep DEF IInv
<1> QED
  BY InitIInv, <1>1, PTL DEF Spec

-----------------------------------------------------------------------------
(* What the invariant says of the events received. *)
LEMMA Received ==
  ASSUME IInv, NEW i \in 1..Len(events)
  PROVE  /\ first + i - 1 \in 1..Len(emitted) /\ first + i - 1 < next
         /\ events[i] = emitted[first + i - 1] /\ events[i].seq = first + i - 1
<1>1. first \in Nat \ {0} /\ next \in Nat /\ Len(events) \in Nat
      /\ Len(ch) \in Nat /\ Len(emitted) \in Nat /\ Stretch
  BY DEF IInv, TypeOK
<1>2. first + i - 1 \in 1..Len(emitted) /\ first + i - 1 < next
  BY <1>1 DEF Stretch
<1> QED
  BY <1>1, <1>2 DEF IInv, Stamped, Stretch

(* Once main has left the range loop, nothing sent is still on its way. *)
LEMMA Drained ==
  ASSUME IInv, pc \in Left
  PROVE  Len(events) = next - first
<1>1. ch = <<>> /\ Len(events) + Len(ch) = next - first
  BY DEF IInv, Control, Stretch
<1>2. Len(events) \in Nat /\ next \in Nat /\ first \in Nat
  BY DEF IInv, TypeOK
<1> QED
  BY <1>1, <1>2

(* Every event the driver sent is judged, in the order it was sent. *)
THEOREM AllDeliveredJudged == Spec => []DeliveredIsJudged
<1>1. IInv => DeliveredIsJudged
  <2> SUFFICES ASSUME IInv, pc \in Left
               PROVE  events = SubSeq(emitted, first, next - 1)
    BY DEF DeliveredIsJudged, Left
  <2>1. emitted \in Seq(Event) /\ events \in Seq(Event) /\ first \in Nat \ {0}
        /\ next \in Nat \ {0} /\ first <= next /\ next <= Len(emitted) + 1
    BY DEF IInv, TypeOK, Stretch
  <2>2. Len(events) = next - first
    BY Drained
  <2>3. SubSeq(emitted, first, next - 1) = [i \in 1..(next - first) |-> emitted[first + i - 1]]
    BY <2>1
  <2>4. events = [i \in 1..Len(events) |-> events[i]]
    BY <2>1
  <2> QED
    BY <2>2, <2>3, <2>4, Received
<1> QED
  BY <1>1, Inductive, PTL

(* The second reading reflects every event received and is taken after them. *)
THEOREM AfterPostdates == Spec => []SnapshotPostdatesEvents
<1>1. IInv => SnapshotPostdatesEvents
  <2> SUFFICES ASSUME IInv, after # NoReading, NEW i \in 1..Len(events)
               PROVE  events[i].seq <= after.seq /\ events[i].at <= after.time
    BY DEF SnapshotPostdatesEvents
  <2>1. after.seq \in Nat /\ next \in Nat /\ first \in Nat /\ i \in Nat
    BY DEF IInv, TypeOK, Reading
  <2>2. /\ next <= after.seq + 1
        /\ \A j \in 1..after.seq : emitted[j].at <= after.time
    BY DEF IInv, Readings
  <2>3. first + i - 1 \in 1..after.seq
    BY <2>1, <2>2, Received
  <2>4. events[i] = emitted[first + i - 1] /\ events[i].seq = first + i - 1
    BY Received
  <2>5. emitted[first + i - 1].at <= after.time
    BY <2>2, <2>3
  <2>6. first + i - 1 <= after.seq
    BY <2>1, <2>3
  <2> QED
    BY <2>4, <2>5, <2>6
<1> QED
  BY <1>1, Inductive, PTL

(* No event received is one the first reading already reflects. *)
THEOREM EventsPostdate == Spec => []EventsPostdateDevice
<1>1. IInv => EventsPostdateDevice
  <2> SUFFICES ASSUME IInv, NEW i \in 1..Len(events)
               PROVE  events[i].seq > before.seq
    BY DEF EventsPostdateDevice
  <2>1. sub # "none"
    BY DEF IInv, Control
  <2>2. before.seq \in Nat /\ before.seq < first
    BY <2>1 DEF IInv, Control, Readings, TypeOK, Reading
  <2>3. first \in Nat /\ i \in Nat /\ i >= 1
    BY DEF IInv, TypeOK
  <2> QED
    BY <2>2, <2>3, Received
<1> QED
  BY <1>1, Inductive, PTL

(* The events received in a state where the check is about to run or has    *)
(* run are ordered by number and by time.                                   *)
LEMMA Ordered ==
  ASSUME IInv, NEW i \in 1..Len(events), NEW j \in 1..Len(events), i <= j
  PROVE  /\ events[i].at \in Nat /\ events[j].at \in Nat
         /\ events[i].at <= events[j].at
         /\ events[i].seq = first + i - 1 /\ events[j].seq = first + j - 1
<1>1. events[i] \in Event /\ events[j] \in Event
  BY DEF IInv, TypeOK
<1>2. i \in Nat /\ j \in Nat /\ first \in Nat
  BY DEF IInv, TypeOK
<1>3. first + i - 1 <= first + j - 1
  BY <1>2
<1>4. emitted[first + i - 1].at <= emitted[first + j - 1].at
  BY <1>3, Received DEF IInv, Stamped
<1> QED
  BY <1>1, <1>4, Received DEF Event

(* The event that announced what the second reading shows was received, if  *)
(* it came after the subscription and the driver sent it.                   *)
LEMMA Announced ==
  ASSUME IInv, pc \in Left, after # NoReading, after.seq < next, events # <<>>
  PROVE  /\ Len(events) \in 1..Len(events) /\ after.seq = next - 1
         /\ events[Len(events)] = emitted[after.seq]
         /\ \A i \in 1..Len(events) : i <= Len(events)
<1>1. /\ after.seq \in Nat /\ next \in Nat /\ first \in Nat
      /\ Len(events) \in Nat /\ events \in Seq(Event)
  BY DEF IInv, TypeOK, Reading
<1>2. Len(events) >= 1
  BY <1>1
<1>3. after.seq = next - 1
  BY <1>1 DEF IInv, Readings
<1>4. first + Len(events) - 1 = next - 1
  BY <1>1, Drained
<1>5. Len(events) \in 1..Len(events)
  BY <1>1, <1>2
<1>6. events[Len(events)] = emitted[first + Len(events) - 1]
  BY <1>5, Received
<1>7. first + Len(events) - 1 = after.seq
  BY <1>3, <1>4
<1> QED
  BY <1>1, <1>3, <1>5, <1>6, <1>7

(* FailureExplained and SilentChangeNoticed speak of a state that does not  *)
(* change once main has judged; before that they hold of no state.          *)
LEMMA Settled ==
  ASSUME IInv, [Next]_vars, pc \in {"passed", "failed"}
  PROVE  /\ UNCHANGED <<pc, next, events, before, after>>
         /\ Len(emitted) <= Len(emitted')
         /\ \A i \in 1..Len(emitted) : emitted'[i] = emitted[i]
<1>1. sub = "done"
  BY DEF IInv, Control, Left
<1>2. emitted \in Seq(Event) /\ now \in Nat
  BY DEF IInv, TypeOK
<1>3. ASSUME NEW v \in Value, Transition(v)
      PROVE  /\ Len(emitted) <= Len(emitted')
             /\ \A i \in 1..Len(emitted) : emitted'[i] = emitted[i]
  <2> DEFINE e == [seq |-> Len(emitted) + 1, at |-> now, val |-> v]
  <2>1. e \in Event
    BY <1>2 DEF Event
  <2> HIDE DEF e
  <2>2. emitted' = Append(emitted, e)
    BY <1>3 DEF Transition, e
  <2> QED
    BY <1>2, <2>1, <2>2
<1>4. UNCHANGED emitted \/ \E v \in Value : Transition(v)
  BY DEF Next, Main, Goroutine, Device, vars, device, SilentChange, Tick,
     CollectFirst, CollectFirstFails, Subscribe, Receive, StopDraining, Join,
     CollectAfter, CollectAfterFails, Judge, Send, Return, ReturnError, Report,
     Close, WindowCloses
<1>5. UNCHANGED <<pc, next, events, before, after>>
  BY <1>1 DEF Next, Main, Goroutine, Device, vars, driver, seen, SilentChange, Tick,
     Transition, CollectFirst, CollectFirstFails, Subscribe, Receive, StopDraining,
     Join, CollectAfter, CollectAfterFails, Judge, Send, Return, ReturnError,
     Report, Close, WindowCloses
<1> QED
  BY <1>2, <1>3, <1>4, <1>5

LEMMA JudgeExplains ==
  ASSUME IInv, pc = "judge", Mismatch(Judged)
  PROVE  Explained
<1> DEFINE last == Len(events)
<1>1. PICK i \in Candidates(Judged) :
         /\ \A j \in Candidates(Judged) : i = j \/ Newer(events[i], events[j])
         /\ events[i].val # Judged.val
  BY DEF Mismatch
<1>2. i \in 1..last /\ events[i].at <= Judged.at
  BY <1>1 DEF Candidates
<1>3. CASE after = NoReading
  BY <1>2, <1>3 DEF Judged, Explained
<1>4. CASE after # NoReading
  <2>1. SUFFICES ASSUME next > after.seq, ~Unannounced(after),
                        \A j \in 1..last : ~(events[j].at > after.at)
                 PROVE  FALSE
    <3>1. next \in Nat /\ after.seq \in Nat
      BY <1>4 DEF IInv, TypeOK, Reading
    <3> QED
      BY <1>4, <3>1 DEF Explained, Judged
  <2>2. events # <<>> /\ pc \in Left /\ after.at \in Nat /\ after.seq \in Nat
        /\ next \in Nat /\ events \in Seq(Event)
    BY <1>2, <1>4 DEF IInv, TypeOK, Reading, Left
  <2>3. after.seq < next
    BY <2>1, <2>2
  <2>4. /\ last \in 1..last /\ after.seq = next - 1
        /\ events[last] = emitted[after.seq] /\ i <= last
    BY <1>2, <1>4, <2>2, <2>3, Announced
  <2>5. events[last].at \in Nat /\ events[last].seq \in Nat /\ events[i].seq \in Nat
    <3>1. events[last] \in Event /\ events[i] \in Event
      BY <1>2, <2>2, <2>4
    <3> QED
      BY <3>1 DEF Event
  <2>6. last \in Candidates(Judged)
    BY <1>4, <2>1, <2>2, <2>4, <2>5 DEF Candidates, Judged
  <2>7. after.seq > 0
    BY <2>2, <2>4, Received DEF IInv, TypeOK, Stretch
  <2>8. i # last
    BY <1>1, <1>4, <2>1, <2>4, <2>7 DEF Judged, Unannounced
  <2>9. Newer(events[i], events[last])
    BY <1>1, <2>6, <2>8
  <2>10. /\ events[i].at \in Nat /\ events[last].at \in Nat
         /\ events[i].at <= events[last].at
         /\ events[i].seq = first + i - 1 /\ events[last].seq = first + last - 1
    BY <1>2, <2>4, Ordered
  <2>11. events[i].seq < events[last].seq
    <3>1. i \in Nat /\ last \in Nat /\ first \in Nat
      BY <1>2 DEF IInv, TypeOK
    <3> QED
      BY <2>4, <2>8, <2>10, <3>1
  <2> HIDE DEF last
  <2> QED
    BY <2>5, <2>9, <2>10, <2>11 DEF Newer
<1> QED
  BY <1>3, <1>4

LEMMA PassNotices ==
  ASSUME IInv, pc = "judge", ~Mismatch(Judged), after # NoReading, events # <<>>,
         next > after.seq, events[Len(events)].at <= after.at
  PROVE  after.val = events[Len(events)].val
<1> DEFINE last == Len(events)
<1>1. /\ pc \in Left /\ after.seq \in Nat /\ next \in Nat /\ first \in Nat
      /\ events \in Seq(Event)
  BY DEF IInv, TypeOK, Reading, Left
<1>2. last \in 1..last /\ \A j \in 1..last : j <= last
  BY <1>1, Announced
<1>3. last \in Candidates(Judged)
  BY <1>2 DEF Candidates, Judged
<1>4. ASSUME NEW j \in Candidates(Judged), last # j
      PROVE  Newer(events[last], events[j])
  <2>1. j \in 1..last /\ j <= last
    BY <1>2, <1>4 DEF Candidates
  <2>2. /\ events[j].at \in Nat /\ events[last].at \in Nat
        /\ events[j].at <= events[last].at
        /\ events[j].seq = first + j - 1 /\ events[last].seq = first + last - 1
    BY <1>2, <2>1, Ordered
  <2>3. events[last].seq > events[j].seq
    <3>1. j \in Nat /\ last \in Nat
      BY <1>1, <2>1
    <3> QED
      BY <1>1, <1>4, <2>1, <2>2, <3>1
  <2> HIDE DEF last
  <2> QED
    BY <2>2, <2>3 DEF Newer
<1> HIDE DEF last
<1>5. events[last].val = Judged.val
  BY <1>3, <1>4 DEF Mismatch
<1> QED
  BY <1>5 DEF Judged, last

(* A failure of the twin check has one of the four reasons. *)
THEOREM FailuresExplained == Spec => []FailureExplained
<1>1. Init => FailureExplained
  BY DEF Init, FailureExplained
<1>2. IInv /\ FailureExplained /\ [Next]_vars => FailureExplained'
  <2> SUFFICES ASSUME IInv, FailureExplained, [Next]_vars, pc' = "failed"
               PROVE  Explained'
    BY DEF FailureExplained
  <2>1. CASE pc = "failed"
    <3>1. /\ UNCHANGED <<next, events, before, after>>
          /\ Len(emitted) <= Len(emitted')
          /\ \A i \in 1..Len(emitted) : emitted'[i] = emitted[i]
      BY <2>1, Settled
    <3>2. Explained
      BY <2>1 DEF FailureExplained
    <3>3. ASSUME Unannounced(Judged) PROVE Unannounced(Judged)'
      <4>1. Judged.seq \in 1..Len(emitted)
        <5>1. before.seq \in Nat /\ before.seq <= Len(emitted) /\ Len(emitted) \in Nat
          BY <2>1 DEF IInv, TypeOK, Reading, Control, Readings, Stretch, Left
        <5>2. after # NoReading => after.seq \in Nat /\ after.seq <= Len(emitted)
          BY DEF IInv, TypeOK, Reading, Readings
        <5> QED
          BY <3>3, <5>1, <5>2 DEF Unannounced, Judged
      <4>2. emitted'[Judged.seq] = emitted[Judged.seq] /\ Judged' = Judged
        BY <3>1, <4>1 DEF Judged
      <4> QED
        BY <3>3, <4>2 DEF Unannounced
    <3> QED
      BY <3>1, <3>2, <3>3 DEF Explained
  <2>2. CASE pc # "failed"
    <3>1. Judge /\ Mismatch(Judged)
      BY <2>2 DEF Next, Main, Goroutine, Device, vars, SilentChange, Tick,
         Transition, CollectFirst, CollectFirstFails, Subscribe, Receive,
         StopDraining, Join, CollectAfter, CollectAfterFails, Judge, Send, Return,
         ReturnError, Report, Close, WindowCloses
    <3>2. Explained /\ UNCHANGED <<emitted, next, events, before, after>>
      BY <3>1, JudgeExplains DEF Judge, device, driver, seen
    <3> QED
      BY <3>2 DEF Explained, Unannounced, Judged
  <2> QED
    BY <2>1, <2>2
<1> QED
  BY <1>1, <1>2, Inductive, PTL DEF Spec

(* A silent change that could be noticed is. *)
THEOREM SilenceNoticed == Spec => []SilentChangeNoticed
<1>1. Init => SilentChangeNoticed
  BY DEF Init, SilentChangeNoticed
<1>2. IInv /\ SilentChangeNoticed /\ [Next]_vars => SilentChangeNoticed'
  <2> SUFFICES ASSUME IInv, SilentChangeNoticed, [Next]_vars, pc' = "passed"
               PROVE  SilentChangeNoticed'
    BY DEF SilentChangeNoticed
  <2>1. CASE pc = "passed"
    <3>1. UNCHANGED <<pc, next, events, after>>
      BY <2>1, Settled
    <3> QED
      BY <3>1 DEF SilentChangeNoticed
  <2>2. CASE pc # "passed"
    <3>1. Judge /\ ~Mismatch(Judged)
      BY <2>2 DEF Next, Main, Goroutine, Device, vars, SilentChange, Tick,
         Transition, CollectFirst, CollectFirstFails, Subscribe, Receive,
         StopDraining, Join, CollectAfter, CollectAfterFails, Judge, Send, Return,
         ReturnError, Report, Close, WindowCloses
    <3>2. pc = "judge" /\ UNCHANGED <<next, events, after>>
      BY <3>1 DEF Judge, driver, seen
    <3> QED
      BY <3>1, <3>2, PassNotices DEF SilentChangeNoticed
  <2> QED
    BY <2>1, <2>2
<1> QED
  BY <1>1, <1>2, Inductive, PTL DEF Spec
=============================================================================
