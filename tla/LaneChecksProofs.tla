-------------------------- MODULE LaneChecksProofs --------------------------
(***************************************************************************)
(* The two checks of LaneSignals are exact, for every device that numbers  *)
(* its events as stampHeaders does, every pattern of loss, reordering and   *)
(* redelivery, and every number of events, arrivals and epochs.             *)
(*                                                                         *)
(* Each check is a recursion over what arrived.  Part 1 relates the numbers *)
(* in the log to its order; part 2 follows the header check arrival by      *)
(* arrival; part 3 keeps the history of the two faces; part 4 follows the   *)
(* signal check in the order the sort makes.                                *)
(***************************************************************************)
EXTENDS LaneSignalsProofs, RecursionTheorems

-----------------------------------------------------------------------------
(* Part 1: the numbers in the log. *)

(* Epochs do not decrease, an epoch is numbered from 1 without a hole, and  *)
(* the device knows the last number of its own.                             *)
Numbered ==
  /\ \A i, j \in 1..Len(log) : i <= j =>
       /\ log[i].epoch <= log[j].epoch
       /\ log[i].epoch = log[j].epoch => log[j].seq = log[i].seq + (j - i)
  /\ \A j \in 1..Len(log) :
       (\A i \in 1..(j - 1) : log[i].epoch # log[j].epoch) => log[j].seq = 1
  /\ \A i \in 1..Len(log) :
       log[i].epoch = epoch => seq = log[i].seq + (Len(log) - i)
  /\ (\A i \in 1..Len(log) : log[i].epoch # epoch) => seq = 0

LEMMA EventTypes ==
  ASSUME LaneAssumption, IInv
  PROVE  /\ log \in Seq(Event) /\ Len(log) \in Nat /\ epoch \in 1..MaxEpoch
         /\ MaxEpoch \in Nat
         /\ \A i \in 1..Len(log) :
              /\ log[i].epoch \in 1..MaxEpoch /\ log[i].epoch \in Nat
              /\ log[i].epoch <= epoch
              /\ log[i].seq \in Nat /\ log[i].seq >= 1
              /\ log[i].face \in Face \cup {Absent}
              /\ log[i].prev \in Indication \cup {Absent}
              /\ log[i].cur \in Indication \cup {Absent}
<1>1. log \in Seq(Event) /\ Len(log) \in Nat /\ epoch \in 1..MaxEpoch /\ MaxEpoch \in Nat
      /\ MaxEvents \in Nat /\ \A i \in 1..Len(log) : log[i].epoch <= epoch
  BY DEF IInv, TypeOK, Begun, LaneAssumption
<1>2. \A i \in 1..Len(log) : log[i] \in Event
  BY <1>1
<1>3. \A e \in Event : /\ e.epoch \in 1..MaxEpoch /\ e.seq \in 1..MaxEvents
                       /\ e.face \in Face \cup {Absent}
                       /\ e.prev \in Indication \cup {Absent}
                       /\ e.cur \in Indication \cup {Absent}
  BY DEF Event
<1>4. \A x \in 1..MaxEpoch : x \in Nat
  BY <1>1
<1>5. \A x \in 1..MaxEvents : x \in Nat /\ x >= 1
  BY <1>1
<1>6. ASSUME NEW i \in 1..Len(log)
      PROVE  /\ log[i].epoch \in 1..MaxEpoch /\ log[i].seq \in 1..MaxEvents
             /\ log[i].face \in Face \cup {Absent}
             /\ log[i].prev \in Indication \cup {Absent}
             /\ log[i].cur \in Indication \cup {Absent}
  BY <1>2, <1>3
<1> QED BY <1>1, <1>4, <1>5, <1>6

LEMMA EmitNumbers ==
  ASSUME LaneAssumption, IInv, Numbered, NEW face, NEW prev, NEW cur, NEW legal,
         Emit(face, prev, cur, legal), UNCHANGED epoch
  PROVE  Numbered'
<1> DEFINE e == [epoch |-> epoch, seq |-> seq + 1, face |-> face,
                 prev |-> prev, cur |-> cur, legal |-> legal]
           N == Len(log)
<1>1. /\ log \in Seq(Event) /\ N \in Nat /\ epoch \in Nat
      /\ \A i \in 1..N : log[i].epoch <= epoch
  BY EventTypes
<1>2. \A i \in 1..N : log[i].epoch \in Nat /\ log[i].seq \in Nat
  BY EventTypes
<1>3. seq \in Nat
  BY <1>1, InEpochFinite DEF IInv, TypeOK, InEpoch
<1>4. seq' = seq + 1 /\ log' = Append(log, e) /\ e.epoch = epoch /\ e.seq = seq + 1
  BY DEF Emit
<1> HIDE DEF e
<1>5. /\ Len(log') = N + 1 /\ log'[N + 1] = e
      /\ \A i \in 1..N : log'[i] = log[i]
  BY <1>1, <1>4
<1> HIDE DEF N
<1>6. /\ \A i \in 1..N : log[i].epoch = epoch => seq = log[i].seq + (N - i)
      /\ (\A i \in 1..N : log[i].epoch # epoch) => seq = 0
  BY DEF Numbered, N
<1>7. ASSUME NEW i \in 1..(N + 1), NEW j \in 1..(N + 1), i <= j
      PROVE  /\ log'[i].epoch <= log'[j].epoch
             /\ log'[i].epoch = log'[j].epoch => log'[j].seq = log'[i].seq + (j - i)
  <2>1. CASE j \in 1..N
    <3>1. i \in 1..N
      BY <2>1, <1>1, <1>7
    <3> QED BY <2>1, <3>1, <1>5, <1>7 DEF Numbered, N
  <2>2. CASE i \in 1..N /\ j = N + 1
    <3>1. log[i].epoch = epoch => seq + 1 = log[i].seq + ((N + 1) - i)
      <4> DEFINE b == log[i].seq
      <4>1. b \in Nat /\ i \in Nat /\ N \in Nat
        BY <2>2, <1>1, <1>2
      <4>2. log[i].epoch = epoch => seq = b + (N - i)
        BY <2>2, <1>6
      <4> HIDE DEF b
      <4>3. seq = b + (N - i) => seq + 1 = b + ((N + 1) - i)
        BY <4>1, <1>3
      <4> QED BY <4>2, <4>3 DEF b
    <3> QED BY <2>2, <3>1, <1>1, <1>4, <1>5
  <2>3. CASE i = N + 1 /\ j = N + 1
    <3>1. e.seq = e.seq + ((N + 1) - (N + 1)) /\ e.epoch <= e.epoch
      BY <1>1, <1>3, <1>4
    <3> QED BY <2>3, <3>1, <1>5
  <2> QED BY <2>1, <2>2, <2>3, <1>1, <1>7
<1>8. ASSUME NEW j \in 1..(N + 1),
             \A i \in 1..(j - 1) : log'[i].epoch # log'[j].epoch
      PROVE  log'[j].seq = 1
  <2>1. CASE j \in 1..N
    <3>1. \A i \in 1..(j - 1) : i \in 1..N
      BY <2>1, <1>1
    <3> QED BY <2>1, <3>1, <1>5, <1>8 DEF Numbered, N
  <2>2. CASE j = N + 1
    <3>1. \A i \in 1..N : log[i].epoch # epoch
      BY <2>2, <1>1, <1>4, <1>5, <1>8
    <3> QED BY <2>2, <3>1, <1>4, <1>5, <1>6
  <2> QED BY <2>1, <2>2, <1>1
<1>9. ASSUME NEW i \in 1..(N + 1), log'[i].epoch = epoch'
      PROVE  seq' = log'[i].seq + ((N + 1) - i)
  <2>1. CASE i \in 1..N
    <3>1. i \in Nat /\ log[i].seq \in Nat /\ log[i].epoch = epoch
      BY <2>1, <1>1, <1>2, <1>5, <1>9
    <3>2. seq + 1 = log[i].seq + ((N + 1) - i)
      <4> DEFINE b == log[i].seq
      <4>1. b \in Nat /\ i \in Nat /\ N \in Nat /\ seq = b + (N - i)
        BY <3>1, <2>1, <1>1, <1>6
      <4> HIDE DEF b
      <4>2. seq + 1 = b + ((N + 1) - i)
        BY <4>1, <1>3
      <4> QED BY <4>2 DEF b
    <3> QED BY <3>2, <2>1, <1>4, <1>5
  <2>2. CASE i = N + 1
    BY <2>2, <1>1, <1>3, <1>4, <1>5
  <2> QED BY <2>1, <2>2, <1>1
<1>10. N + 1 \in 1..(N + 1) /\ log'[N + 1].epoch = epoch'
  BY <1>1, <1>4, <1>5
<1> QED BY <1>5, <1>7, <1>8, <1>9, <1>10 DEF Numbered

LEMMA NextNumbered ==
  ASSUME LaneAssumption, IInv, Numbered, [Next]_vars
  PROVE  Numbered'
<1>1. ASSUME NEW f \in Face, NEW cur \in Indication,
             NEW prev \in Indication \cup {Absent}, Change(f, cur, prev)
      PROVE  Numbered'
  <2> DEFINE legal == Mutcd(shown, f, cur)
  <2>1. Emit(f, prev, cur, legal) /\ UNCHANGED epoch
    BY <1>1 DEF Change
  <2> HIDE DEF legal
  <2> QED BY <2>1, EmitNumbers
<1>2. CASE OtherEvent
  BY <1>2, EmitNumbers DEF OtherEvent
<1>3. CASE Restart
  <2>1. epoch' = epoch + 1 /\ seq' = 0 /\ log' = log
    BY <1>3 DEF Restart
  <2>2. /\ epoch \in Nat
        /\ \A i \in 1..Len(log) : log[i].epoch \in Nat /\ log[i].epoch <= epoch
    BY EventTypes
  <2>3. \A i \in 1..Len(log) : log[i].epoch # epoch'
    BY <2>1, <2>2
  <2> QED BY <2>1, <2>3 DEF Numbered
<1>4. CASE Deliver
  BY <1>4 DEF Deliver, Arrive, Numbered
<1>5. CASE Redeliver
  BY <1>5 DEF Redeliver, Arrive, Numbered
<1>6. CASE UNCHANGED vars
  BY <1>6 DEF vars, Numbered
<1> QED BY <1>1, <1>2, <1>3, <1>4, <1>5, <1>6 DEF Next

LEMMA InitNumbered == Init => Numbered
<1>1. Init => Len(log) = 0 /\ 1..Len(log) = {} /\ seq = 0
  BY DEF Init
<1> QED BY <1>1 DEF Numbered

-----------------------------------------------------------------------------
(* Part 2: the header check. *)

HeaderStart == [seen |-> {}, last |-> [x \in 1..MaxEpoch |-> 0], gap |-> FALSE]
HeaderState == [seen : SUBSET Nat, last : [1..MaxEpoch -> Nat], gap : BOOLEAN]

LEMMA HeaderStepType ==
  ASSUME LaneAssumption, IInv, NEW s \in HeaderState, NEW i \in 1..Len(log)
  PROVE  HeaderStep(s, i) \in HeaderState
<1> DEFINE last == [s.last EXCEPT ![log[i].epoch] = log[i].seq]
           gap == s.gap \/ s.last[log[i].epoch] \notin {0, log[i].seq - 1}
<1>1. log[i].epoch \in 1..MaxEpoch /\ log[i].seq \in Nat /\ i \in Nat
  BY EventTypes
<1>2. s.seen \in SUBSET Nat /\ s.last \in [1..MaxEpoch -> Nat] /\ s.gap \in BOOLEAN
  BY DEF HeaderState
<1>3. last \in [1..MaxEpoch -> Nat]
  BY <1>1, <1>2
<1>4. gap \in BOOLEAN
  BY <1>2
<1>5. HeaderStep(s, i) = IF i \in s.seen THEN s
        ELSE [seen |-> s.seen \cup {i}, last |-> last, gap |-> gap]
  BY DEF HeaderStep
<1> HIDE DEF last, gap
<1>6. s.seen \cup {i} \in SUBSET Nat
  BY <1>1, <1>2
<1>7. [seen |-> s.seen \cup {i}, last |-> last, gap |-> gap] \in HeaderState
  BY <1>3, <1>4, <1>6 DEF HeaderState
<1> QED BY <1>5, <1>7

LEMMA ArrivedType ==
  ASSUME IInv
  PROVE  /\ Len(arrived) \in Nat /\ Got \subseteq 1..Len(log)
         /\ \A n \in 1..Len(arrived) : arrived[n] \in 1..Len(log)
<1> DEFINE D == 1..Len(log)
<1>1. arrived \in Seq(D)
  BY DEF IInv, TypeOK
<1> HIDE DEF D
<1>2. Len(arrived) \in Nat /\ \A n \in 1..Len(arrived) : arrived[n] \in D
  BY <1>1
<1> QED BY <1>2 DEF D, Got

(* The recursion of the check is well defined. *)
LEMMA HeaderUnfolds ==
  ASSUME LaneAssumption, IInv
  PROVE  \A n \in 0..Len(arrived) :
           /\ HeaderAfter[n] \in HeaderState
           /\ HeaderAfter[n] = IF n = 0 THEN HeaderStart
                               ELSE HeaderStep(HeaderAfter[n - 1], arrived[n])
<1> DEFINE N == Len(arrived)
           B == [n \in 1..N |-> [s \in HeaderState |-> HeaderStep(s, arrived[n])]]
<1>1. N \in Nat /\ \A n \in 1..N : arrived[n] \in 1..Len(log)
  BY ArrivedType
<1>2. HeaderStart \in HeaderState
  BY DEF HeaderStart, HeaderState
<1>3. Steps(N, HeaderState, B)
  BY <1>1, HeaderStepType DEF Steps
<1>4. PICK f : f \in [0..N -> HeaderState] /\ Iterates(f, N, HeaderStart, B)
  <2>1. N \in Nat
    BY <1>1
  <2> HIDE DEF B, N
  <2> QED BY <2>1, <1>2, <1>3, Iteration
<1>5. ASSUME NEW n \in 0..N
      PROVE  f[n] = IF n = 0 THEN HeaderStart ELSE HeaderStep(f[n - 1], arrived[n])
  <2>1. n # 0 => n \in 1..N /\ n - 1 \in 0..N
    BY <1>1
  <2>2. n # 0 => f[n - 1] \in HeaderState
    BY <2>1, <1>4
  <2> QED BY <2>1, <2>2, <1>4 DEF Iterates
<1>6. f = [n \in 0..Len(arrived) |->
             IF n = 0 THEN HeaderStart ELSE HeaderStep(f[n - 1], arrived[n])]
  BY <1>4, <1>5
<1> DEFINE H == HeaderAfter
<1>7. H = [n \in 0..N |-> IF n = 0 THEN HeaderStart ELSE HeaderStep(H[n - 1], arrived[n])]
  BY <1>6 DEF HeaderAfter, HeaderStart
<1> HIDE DEF H
<1>8. \A n \in 0..N : H[n] = IF n = 0 THEN HeaderStart ELSE HeaderStep(H[n - 1], arrived[n])
  BY <1>7
<1>9. IteratesWithin(H, N, HeaderState, HeaderStart, B)
  <2> SUFFICES ASSUME NEW n \in 0..N
               PROVE  H[n] = IF n = 0 THEN HeaderStart
                        ELSE IF H[n - 1] \in HeaderState THEN B[n][H[n - 1]] ELSE H[n]
    BY DEF IteratesWithin
  <2>1. n # 0 => n \in 1..N
    BY <1>1
  <2> QED BY <2>1, <1>8
<1>10. \A n \in 0..N : H[n] \in HeaderState
  <2>1. N \in Nat
    BY <1>1
  <2> HIDE DEF B, N
  <2> QED BY <2>1, <1>2, <1>3, <1>9, IterationType
<1> QED BY <1>8, <1>10 DEF H

(* What lies between two events of an epoch is of that epoch. *)
LEMMA Between ==
  ASSUME LaneAssumption, IInv, Numbered,
         NEW i \in 1..Len(log), NEW j \in 1..Len(log), NEW m \in i..j,
         log[i].epoch = log[j].epoch
  PROVE  m \in 1..Len(log) /\ log[m].epoch = log[i].epoch
<1>1. m \in 1..Len(log) /\ i <= m /\ m <= j /\ Len(log) \in Nat
  BY EventTypes
<1>2. log[i].epoch <= log[m].epoch /\ log[m].epoch <= log[j].epoch
  BY <1>1 DEF Numbered
<1>3. log[i].epoch \in Nat /\ log[m].epoch \in Nat /\ log[j].epoch \in Nat
  BY <1>1, EventTypes
<1> QED BY <1>1, <1>2, <1>3

(* The next number of an epoch is at the next place of the log. *)
LEMMA NextPlace ==
  ASSUME LaneAssumption, IInv, Numbered,
         NEW i \in 1..Len(log), NEW j \in 1..Len(log),
         log[i].epoch = log[j].epoch, log[i].seq = log[j].seq - 1
  PROVE  j = i + 1
<1> DEFINE a == log[i].seq
           b == log[j].seq
<1>1. i \in Nat /\ j \in Nat /\ a \in Nat /\ b \in Nat /\ a = b - 1
  BY EventTypes
<1>2. i <= j => b = a + (j - i)
  BY DEF Numbered
<1>3. j <= i => a = b + (i - j)
  BY DEF Numbered
<1> HIDE DEF a, b
<1> QED BY <1>1, <1>2, <1>3

(* Event b is the last one checked of epoch x; of the epoch a run up to it  *)
(* has been seen.                                                           *)
Tip(h, x, b) ==
  /\ log[b].epoch = x /\ h.last[x] = log[b].seq
  /\ \A i \in h.seen : log[i].epoch = x => i <= b /\ \A m \in i..b : m \in h.seen

Run(h, n) ==
  /\ h.seen = {arrived[k] : k \in 1..n}
  /\ \A x \in 1..MaxEpoch :
       \/ h.last[x] = 0 /\ \A i \in h.seen : log[i].epoch # x
       \/ \E b \in h.seen : Tip(h, x, b)

LEMMA SeenGrows ==
  ASSUME IInv, NEW n \in 1..Len(arrived)
  PROVE  {arrived[k] : k \in 1..n} = {arrived[k] : k \in 1..(n - 1)} \cup {arrived[n]}
<1>1. Len(arrived) \in Nat
  BY ArrivedType
<1>2. \A k : k \in 1..n <=> k \in 1..(n - 1) \/ k = n
  BY <1>1
<1> QED BY <1>2

(* A step that reports nothing continues the run. *)
LEMMA StepRun ==
  ASSUME LaneAssumption, IInv, Numbered, NEW h \in HeaderState,
         NEW n \in 1..Len(arrived), Run(h, n - 1), arrived[n] \notin h.seen,
         h.last[log[arrived[n]].epoch] \in {0, log[arrived[n]].seq - 1}
  PROVE  /\ Run(HeaderStep(h, arrived[n]), n)
         /\ \A j \in h.seen : log[j].epoch = log[arrived[n]].epoch => j < arrived[n]
<1> DEFINE i == arrived[n]
           y == log[i].epoch
           g == HeaderStep(h, i)
<1>1. i \in 1..Len(log) /\ h.seen \subseteq 1..Len(log) /\ Len(log) \in Nat
  <2>1. h.seen \subseteq Got
    BY DEF Run, Got
  <2>2. i \in 1..Len(log)
    BY ArrivedType
  <2>3. Got \subseteq 1..Len(log)
    BY ArrivedType
  <2> QED BY <2>1, <2>2, <2>3, EventTypes
<1>2. y \in 1..MaxEpoch /\ log[i].seq \in Nat /\ log[i].seq >= 1
  BY <1>1, EventTypes
<1>3. /\ g.seen = h.seen \cup {i} /\ i \notin h.seen
      /\ g.last = [h.last EXCEPT ![y] = log[i].seq]
  BY DEF HeaderStep
<1>4. h.last \in [1..MaxEpoch -> Nat]
  BY DEF HeaderState
<1>5. g.last[y] = log[i].seq /\ \A x \in 1..MaxEpoch \ {y} : g.last[x] = h.last[x]
  BY <1>2, <1>3, <1>4
<1> HIDE DEF g
<1>6. g.seen = {arrived[k] : k \in 1..n}
  BY <1>3, SeenGrows DEF Run
<1>7. ASSUME NEW j \in h.seen, log[j].epoch = y
      PROVE  /\ j < i
             /\ \A m \in j..i : m \in g.seen
  <2>1. PICK b \in h.seen : Tip(h, y, b)
    BY <1>2, <1>7 DEF Run
  <2>2. b \in 1..Len(log) /\ log[b].epoch = y /\ log[b].seq >= 1
        /\ log[b].seq = h.last[y] /\ log[b].seq \in Nat
    BY <2>1, <1>1, EventTypes DEF Tip
  <2>3. log[b].seq = log[i].seq - 1
    BY <2>2
  <2>4. i = b + 1
    BY <2>2, <2>3, <1>1, NextPlace
  <2>5. j <= b /\ (\A m \in j..b : m \in h.seen) /\ j \in Nat /\ b \in Nat
    BY <2>1, <2>2, <1>1, <1>7 DEF Tip
  <2>6. \A m \in j..i : m \in j..b \/ m = i
    BY <2>4, <2>5
  <2> QED BY <2>4, <2>5, <2>6, <1>3
<1>8. Tip(g, y, i)
  <2> SUFFICES ASSUME NEW j \in g.seen, log[j].epoch = y
               PROVE  j <= i /\ \A m \in j..i : m \in g.seen
    BY <1>5 DEF Tip
  <2>1. CASE j \in h.seen
    BY <2>1, <1>1, <1>7
  <2>2. CASE j = i
    BY <2>2, <1>1, <1>3
  <2> QED BY <2>1, <2>2, <1>3
<1>9. ASSUME NEW x \in 1..MaxEpoch, x # y
      PROVE  \/ g.last[x] = 0 /\ \A j \in g.seen : log[j].epoch # x
             \/ \E b \in g.seen : Tip(g, x, b)
  <2>1. CASE h.last[x] = 0 /\ \A j \in h.seen : log[j].epoch # x
    BY <2>1, <1>3, <1>5, <1>9
  <2>2. CASE \E b \in h.seen : Tip(h, x, b)
    <3>1. PICK b \in h.seen : Tip(h, x, b)
      BY <2>2
    <3>2. Tip(g, x, b)
      BY <3>1, <1>3, <1>5, <1>9 DEF Tip
    <3> QED BY <3>1, <3>2, <1>3
  <2> QED BY <2>1, <2>2 DEF Run
<1>10. Run(g, n)
  <2>1. i \in g.seen
    BY <1>3
  <2> QED BY <2>1, <1>6, <1>8, <1>9 DEF Run
<1> QED BY <1>7, <1>10 DEF g

LEMMA RepeatRun ==
  ASSUME IInv, NEW h, NEW n \in 1..Len(arrived), Run(h, n - 1), arrived[n] \in h.seen
  PROVE  HeaderStep(h, arrived[n]) = h /\ Run(h, n)
<1>1. {arrived[k] : k \in 1..n} = h.seen
  BY SeenGrows DEF Run
<1>2. HeaderStep(h, arrived[n]) = h
  BY DEF HeaderStep
<1> QED BY <1>1, <1>2 DEF Run

LEMMA StartRun == Run(HeaderStart, 0)
<1>1. {arrived[k] : k \in 1..0} = {}
  OBVIOUS
<1> QED BY <1>1 DEF Run, HeaderStart

LEMMA HeaderNext ==
  ASSUME LaneAssumption, IInv, NEW n \in 0..Len(arrived), n < Len(arrived)
  PROVE  /\ n + 1 \in 1..Len(arrived) /\ (n + 1) - 1 = n
         /\ HeaderAfter[n] \in HeaderState
         /\ HeaderAfter[n + 1] = HeaderStep(HeaderAfter[n], arrived[n + 1])
<1>1. n + 1 \in 1..Len(arrived) /\ n + 1 \in 0..Len(arrived) /\ (n + 1) - 1 = n /\ n + 1 # 0
  BY ArrivedType
<1> QED BY <1>1, HeaderUnfolds

(* A stream whole and in order is seen as a prefix of the log.              *)
LEMMA HeaderAcceptsWhole ==
  ASSUME LaneAssumption, IInv, Numbered
  PROVE  HeaderAccepts
<1> SUFFICES ASSUME Whole, InOrder PROVE ~HeaderGap
  BY DEF HeaderAccepts
<1> DEFINE N == Len(arrived)
           H == HeaderAfter
           Prefix(n) == \E m \in Nat : H[n].seen = 1..m
           S == {n \in 0..N : ~H[n].gap /\ Run(H[n], n) /\ Prefix(n)}
<1>1. N \in Nat /\ Len(log) \in Nat
  BY ArrivedType, EventTypes
<1>2. 0 \in S
  <2>1. H[0] = HeaderStart
    BY <1>1, HeaderUnfolds
  <2>2. HeaderStart.seen = {} /\ ~HeaderStart.gap
    BY DEF HeaderStart
  <2>3. Prefix(0)
    <3>1. H[0].seen = 1..0
      BY <2>1, <2>2
    <3> QED BY <3>1
  <2>4. ~H[0].gap /\ Run(H[0], 0)
    BY <2>1, <2>2, StartRun
  <2> HIDE DEF Prefix, H
  <2> QED BY <2>3, <2>4, <1>1
<1>3. ASSUME NEW n \in 0..N, n \in S /\ n < N PROVE n + 1 \in S
  <2> DEFINE h == H[n]
             i == arrived[n + 1]
             g == HeaderStep(h, i)
  <2>1. /\ n + 1 \in 1..N /\ (n + 1) - 1 = n /\ h \in HeaderState /\ H[n + 1] = g
        /\ n + 1 \in 0..N /\ n \in Nat
    BY <1>1, <1>3, HeaderNext
  <2>2. ~h.gap /\ Run(h, n) /\ i \in Got /\ i \in 1..Len(log)
    BY <1>3, <2>1, ArrivedType DEF Got
  <2>3. PICK m \in Nat : h.seen = 1..m
    BY <1>3
  <2> HIDE DEF H, h, g
  <2>4. CASE i \in h.seen
    <3>1. g = h /\ Run(h, n + 1)
      BY <2>1, <2>2, <2>4, RepeatRun DEF g
    <3> QED BY <3>1, <2>1, <2>2, <2>3
  <2>5. CASE i \notin h.seen
    <3>1. m + 1 <= i /\ m + 1 \in 1..i
      BY <2>2, <2>3, <2>5, <1>1
    <3>2. PICK l \in 1..N : arrived[l] = m + 1
      BY <3>1, <2>2 DEF Whole, Got
    <3>3. i = m + 1
      <4>1. \A k \in 1..n : arrived[k] # m + 1
        <5>1. \A k \in 1..n : arrived[k] \in 1..m
          BY <2>2, <2>3 DEF Run
        <5> QED BY <5>1
      <4>2. \A k \in 1..(n + 1) : k \in 1..n \/ k = n + 1
        BY <2>1
      <4>3. CASE l <= n + 1
        BY <4>1, <4>2, <4>3, <3>2, <1>1
      <4>4. CASE n + 1 < l /\ arrived[l] < arrived[n + 1]
        <5>1. PICK k \in 1..(n + 1) : arrived[k] = arrived[l]
          BY <4>4, <2>1 DEF InOrder
        <5> QED BY <5>1, <4>1, <4>2, <3>2
      <4> QED BY <4>3, <4>4, <3>1, <3>2, <2>1, <2>2, <1>1
    <3>4. h.last[log[i].epoch] \in {0, log[i].seq - 1}
      <4> DEFINE y == log[i].epoch
      <4>1. y \in 1..MaxEpoch /\ log[i].seq \in Nat
        BY <2>2, EventTypes
      <4>2. SUFFICES ASSUME NEW b \in h.seen, Tip(h, y, b)
                     PROVE  h.last[y] = log[i].seq - 1
        BY <4>1, <2>2 DEF Run
      <4>3. /\ b \in 1..Len(log) /\ b <= m /\ m \in b..i /\ m \in 1..m
            /\ log[b].epoch = y /\ h.last[y] = log[b].seq
        BY <4>2, <3>3, <2>2, <2>3, <1>1 DEF Tip
      <4>4. m \in 1..Len(log) /\ log[m].epoch = y
        BY <4>3, <2>2, Between
      <4>5. m <= b
        BY <4>2, <4>3, <4>4, <2>3 DEF Tip
      <4>6. m = b /\ m <= i
        BY <4>3, <4>5, <3>3, <1>1
      <4>7. log[i].seq = log[m].seq + (i - m)
        BY <4>4, <4>6, <2>2 DEF Numbered
      <4>8. log[m].seq \in Nat
        BY <4>4, EventTypes
      <4> DEFINE u == log[i].seq
                 v == log[m].seq
      <4>9. u = v + (i - m) /\ u \in Nat /\ v \in Nat
        BY <4>1, <4>7, <4>8
      <4> HIDE DEF u, v
      <4>10. v = u - 1
        BY <4>9, <3>3
      <4> QED BY <4>3, <4>6, <4>10 DEF u, v
    <3>5. Run(g, n + 1)
      BY <2>1, <2>2, <2>5, <3>4, StepRun DEF g
    <3>6. g.seen = h.seen \cup {i} /\ ~g.gap
      BY <2>2, <2>5, <3>4 DEF g, HeaderStep
    <3>7. g.seen = 1..(m + 1)
      BY <3>3, <3>6, <2>3
    <3> QED BY <3>5, <3>6, <3>7, <2>1
  <2> QED BY <2>4, <2>5
<1>4. 0..N \subseteq S
  <2> HIDE DEF S
  <2> QED BY <1>1, <1>2, <1>3, Upto
<1> QED BY <1>1, <1>4 DEF HeaderGap

(* Without a report, what was seen of an epoch is a run at every arrival,   *)
(* and a run only grows at its end.                                         *)
LEMMA HeaderSilence ==
  ASSUME LaneAssumption, IInv, Numbered
  PROVE  HeaderSilenceIsProof
<1> SUFFICES ASSUME ~HeaderGap
             PROVE  \A i, j \in Got : log[i].epoch = log[j].epoch =>
                      /\ \A m \in i..j : m \in Got
                      /\ \A k, l \in 1..Len(arrived) :
                           k < l /\ arrived[k] = j /\ arrived[l] = i /\ i < j =>
                             \E n \in 1..k : arrived[n] = i
  BY DEF HeaderSilenceIsProof
<1> DEFINE N == Len(arrived)
           H == HeaderAfter
           Ordered(n) == \A k, l \in 1..n :
             log[arrived[k]].epoch = log[arrived[l]].epoch /\ arrived[l] < arrived[k] =>
               \E m \in 1..k : arrived[m] = arrived[l]
           S == {n \in 0..N : ~H[n].gap => Run(H[n], n) /\ Ordered(n)}
<1>1. N \in Nat /\ Len(log) \in Nat
  BY ArrivedType, EventTypes
<1>2. 0 \in S
  <2>1. H[0] = HeaderStart
    BY <1>1, HeaderUnfolds
  <2> QED BY <2>1, <1>1, StartRun
<1>3. ASSUME NEW n \in 0..N, n \in S /\ n < N PROVE n + 1 \in S
  <2> DEFINE h == H[n]
             i == arrived[n + 1]
             g == HeaderStep(h, i)
  <2>1. /\ n + 1 \in 1..N /\ (n + 1) - 1 = n /\ h \in HeaderState /\ H[n + 1] = g
        /\ n + 1 \in 0..N /\ n \in Nat
    BY <1>1, <1>3, HeaderNext
  <2> SUFFICES ASSUME ~g.gap PROVE Run(g, n + 1) /\ Ordered(n + 1)
    BY <2>1
  <2>2. /\ ~h.gap
        /\ i \notin h.seen => h.last[log[i].epoch] \in {0, log[i].seq - 1}
    BY DEF HeaderStep
  <2>3. Run(h, n) /\ Ordered(n)
    BY <1>3, <2>2
  <2> HIDE DEF H, h, g
  <2>4. /\ Run(g, n + 1)
        /\ i \in h.seen \/ \A j \in h.seen : log[j].epoch = log[i].epoch => j < i
    <3>1. CASE i \in h.seen
      BY <3>1, <2>1, <2>3, RepeatRun DEF g
    <3>2. CASE i \notin h.seen
      BY <3>2, <2>1, <2>2, <2>3, StepRun DEF g
    <3> QED BY <3>1, <3>2
  <2>5. \A k \in 1..n : arrived[k] \in h.seen
    BY <2>3 DEF Run
  <2>6. ASSUME NEW k \in 1..(n + 1), NEW l \in 1..(n + 1),
               log[arrived[k]].epoch = log[arrived[l]].epoch, arrived[l] < arrived[k]
        PROVE  \E m \in 1..k : arrived[m] = arrived[l]
    <3>1. CASE k \in 1..n /\ l \in 1..n
      BY <3>1, <2>3, <2>6
    <3>2. CASE k = n + 1
      BY <3>2, <2>1
    <3>3. CASE k \in 1..n /\ l = n + 1 /\ i \in h.seen
      <4>1. PICK m \in 1..n : arrived[m] = i
        BY <3>3, <2>3 DEF Run
      <4> QED BY <4>1, <3>3, <2>3, <2>6
    <3>4. CASE k \in 1..n /\ l = n + 1 /\ i \notin h.seen
      <4>1. arrived[k] < i
        BY <3>4, <2>4, <2>5, <2>6
      <4>2. arrived[k] \in Nat /\ i \in Nat
        <5>1. k \in 1..N
          BY <3>4, <2>1, <1>1
        <5> QED BY <5>1, <2>1, ArrivedType
      <4> QED BY <4>1, <4>2, <3>4, <2>6
    <3> QED BY <3>1, <3>2, <3>3, <3>4, <2>1
  <2> QED BY <2>4, <2>6
<1>4. 0..N \subseteq S
  <2> HIDE DEF S
  <2> QED BY <1>1, <1>2, <1>3, Upto
<1>5. Run(H[N], N) /\ Ordered(N)
  BY <1>1, <1>4 DEF HeaderGap
<1> HIDE DEF H
<1>6. H[N].seen = Got
  BY <1>5 DEF Run, Got
<1>7. ASSUME NEW i \in Got, NEW j \in Got, log[i].epoch = log[j].epoch
      PROVE  \A m \in i..j : m \in Got
  <2> DEFINE y == log[i].epoch
  <2>1. y \in 1..MaxEpoch
    BY ArrivedType, EventTypes
  <2>2. PICK b \in Got : Tip(H[N], y, b)
    BY <2>1, <1>5, <1>6, <1>7 DEF Run
  <2>3. j <= b /\ \A m \in i..b : m \in Got
    BY <2>2, <1>6, <1>7 DEF Tip
  <2>4. i \in Nat /\ j \in Nat /\ b \in Nat
    BY ArrivedType
  <2>5. \A m \in i..j : m \in i..b
    BY <2>3, <2>4
  <2> QED BY <2>3, <2>5
<1>8. ASSUME NEW k \in 1..N, NEW l \in 1..N,
             log[arrived[k]].epoch = log[arrived[l]].epoch, arrived[l] < arrived[k]
      PROVE  \E n \in 1..k : arrived[n] = arrived[l]
  BY <1>5, <1>8
<1> QED BY <1>7, <1>8

-----------------------------------------------------------------------------
(* Part 3: the history of the faces. *)

(* The last event before place i of the log l that speaks of face f. *)
Latest(l, f, i, j) ==
  /\ j \in 1..(i - 1) /\ l[j].face = f
  /\ \A k \in 1..(i - 1) : l[k].face = f => k <= j

(* H is what the faces showed before each event of l and, at the end, s:    *)
(* an event changes what is shown, does not lie about what was, and knows   *)
(* whether the rule allows it.                                              *)
HistoryOf(H, l, s) ==
  /\ H \in [1..(Len(l) + 1) -> [Face -> Indication]]
  /\ H[Len(l) + 1] = s
  /\ \A i \in 1..Len(l) : Signal(l[i]) =>
       /\ l[i].face \in Face /\ l[i].cur \in Indication
       /\ l[i].prev \in {H[i][l[i].face], Absent}
       /\ l[i].cur # H[i][l[i].face]
       /\ l[i].legal = Mutcd(H[i], l[i].face, l[i].cur)
  /\ \A i \in 1..Len(l) : ~Signal(l[i]) => l[i].legal
  /\ \A i \in 1..(Len(l) + 1), f \in Face : \A j \in 1..(i - 1) :
       Latest(l, f, i, j) => H[i][f] = l[j].cur

History == \E H : HistoryOf(H, log, shown)

(* Event e takes the faces from s to t. *)
Changes(e, s, t) ==
  \/ e.face = Absent /\ e.legal /\ t = s
  \/ /\ e.face \in Face /\ e.cur \in Indication
     /\ e.prev \in {s[e.face], Absent} /\ e.cur # s[e.face]
     /\ e.legal = Mutcd(s, e.face, e.cur)
     /\ t = [s EXCEPT ![e.face] = e.cur]

(* One more event, one more entry. *)
LEMMA HistoryAppend ==
  ASSUME LaneAssumption, NEW l \in Seq(Event), NEW s \in [Face -> Indication],
         NEW t \in [Face -> Indication], NEW H, HistoryOf(H, l, s), NEW e,
         Changes(e, s, t),
         NEW m, Len(m) = Len(l) + 1, m[Len(l) + 1] = e,
         \A i \in 1..Len(l) : m[i] = l[i]
  PROVE  \E G : HistoryOf(G, m, t)
<1> DEFINE N == Len(l)
           G == [i \in 1..(N + 2) |-> IF i = N + 2 THEN t ELSE H[i]]
<1>1. N \in Nat /\ Absent \notin Face
  BY DEF LaneAssumption
<1> HIDE DEF N
<1>2. /\ H \in [1..(N + 1) -> [Face -> Indication]] /\ H[N + 1] = s
      /\ Len(m) = N + 1 /\ m[N + 1] = e /\ \A i \in 1..N : m[i] = l[i]
  BY DEF HistoryOf, N
<1>3. \A i \in 1..(N + 2) : i \in 1..(N + 1) \/ i = N + 2
  BY <1>1
<1>4. G \in [1..(N + 2) -> [Face -> Indication]]
  BY <1>2, <1>3
<1>5. /\ G[N + 2] = t
      /\ \A i \in 1..(N + 1) : i \in 1..(N + 2) /\ i # N + 2 /\ G[i] = H[i]
  BY <1>1
<1> HIDE DEF G
<1>6. ASSUME NEW i \in 1..(N + 1), Signal(m[i])
      PROVE  /\ m[i].face \in Face /\ m[i].cur \in Indication
             /\ m[i].prev \in {G[i][m[i].face], Absent}
             /\ m[i].cur # G[i][m[i].face]
             /\ m[i].legal = Mutcd(G[i], m[i].face, m[i].cur)
  <2>1. CASE i \in 1..N
    <3>1. m[i] = l[i] /\ G[i] = H[i] /\ Signal(l[i])
      BY <2>1, <1>2, <1>5, <1>6
    <3> QED BY <3>1, <2>1 DEF HistoryOf, N
  <2>2. CASE i = N + 1
    <3>1. m[i] = e /\ G[i] = s /\ e.face # Absent
      BY <2>2, <1>1, <1>2, <1>5, <1>6 DEF Signal
    <3> QED BY <3>1 DEF Changes
  <2> QED BY <2>1, <2>2, <1>1
<1>7. ASSUME NEW i \in 1..(N + 1), ~Signal(m[i])
       PROVE  m[i].legal
  <2>1. CASE i \in 1..N
    BY <2>1, <1>2, <1>7 DEF HistoryOf, N
  <2>2. CASE i = N + 1
    BY <2>2, <1>1, <1>2, <1>7 DEF Changes, Signal
  <2> QED BY <2>1, <2>2, <1>1
<1>8. ASSUME NEW i \in 1..(N + 1), NEW f \in Face, NEW j \in 1..(i - 1),
             Latest(m, f, i, j)
      PROVE  Latest(l, f, i, j) /\ m[j] = l[j]
  <2>1. \A k \in 1..(i - 1) : k \in 1..N
    BY <1>1
  <2>2. \A k \in 1..(i - 1) : m[k] = l[k]
    BY <2>1, <1>2
  <2> QED BY <2>2, <1>8 DEF Latest
<1>9. ASSUME NEW i \in 1..(N + 2), NEW f \in Face, NEW j \in 1..(i - 1),
             Latest(m, f, i, j)
      PROVE  G[i][f] = m[j].cur
  <2>1. CASE i \in 1..(N + 1)
    <3>1. Latest(l, f, i, j) /\ m[j] = l[j]
      BY <2>1, <1>8, <1>9
    <3>2. H[i][f] = l[j].cur
      BY <2>1, <3>1 DEF HistoryOf, N
    <3> QED BY <2>1, <3>1, <3>2, <1>5
  <2>2. CASE i = N + 2 /\ e.face = f
    <3>1. N + 1 \in 1..(i - 1) /\ \A k \in 1..(i - 1) : k <= N + 1 /\ k \in Nat
      BY <2>2, <1>1
    <3>2. N + 1 <= j
      BY <2>2, <3>1, <1>2, <1>9 DEF Latest
    <3>3. j = N + 1
      BY <3>1, <3>2, <1>1
    <3>4. t[f] = e.cur
      BY <2>2, <1>1 DEF Changes
    <3> QED BY <2>2, <3>3, <3>4, <1>2, <1>5
  <2>3. CASE i = N + 2 /\ e.face # f
    <3>1. j # N + 1 /\ m[j].face = f
      BY <2>3, <1>2, <1>9 DEF Latest
    <3>2. j \in 1..N /\ (N + 1) - 1 = N /\ i - 1 = N + 1 /\ N + 1 \in 1..(N + 1)
          /\ j \in 1..((N + 1) - 1)
      BY <3>1, <2>3, <1>1
    <3>3. \A k \in 1..N : k \in 1..(i - 1)
      BY <3>2, <1>1
    <3>4. Latest(l, f, N + 1, j)
      BY <3>1, <3>2, <3>3, <1>2, <1>9 DEF Latest
    <3>5. H[N + 1][f] = l[j].cur
      BY <3>2, <3>4 DEF HistoryOf, N
    <3>6. t[f] = s[f]
      BY <2>3 DEF Changes
    <3> QED BY <2>3, <3>2, <3>5, <3>6, <1>2, <1>5
  <2> QED BY <2>1, <2>2, <2>3, <1>3
<1>10. (N + 1) + 1 = N + 2
  BY <1>1
<1>11. HistoryOf(G, m, t)
  BY <1>2, <1>4, <1>5, <1>6, <1>9, <1>10, <1>7 DEF HistoryOf
<1> QED BY <1>11

LEMMA EmitHistory ==
  ASSUME LaneAssumption, IInv, History, NEW face, NEW prev, NEW cur, NEW legal,
         Emit(face, prev, cur, legal), shown' \in [Face -> Indication],
         \/ face = Absent /\ legal = TRUE /\ shown' = shown
         \/ /\ face \in Face /\ cur \in Indication
            /\ prev \in {shown[face], Absent} /\ cur # shown[face]
            /\ legal = Mutcd(shown, face, cur)
            /\ shown' = [shown EXCEPT ![face] = cur]
  PROVE  History'
<1> DEFINE e == [epoch |-> epoch, seq |-> seq + 1, face |-> face,
                 prev |-> prev, cur |-> cur, legal |-> legal]
<1>1. PICK H : HistoryOf(H, log, shown)
  BY DEF History
<1>2. log \in Seq(Event) /\ shown \in [Face -> Indication]
  BY DEF IInv, TypeOK
<1>3. log' = Append(log, e) /\ e.face = face /\ e.prev = prev /\ e.cur = cur
      /\ e.legal = legal
  BY DEF Emit
<1> HIDE DEF e
<1>4. Len(log') = Len(log) + 1 /\ log'[Len(log) + 1] = e
      /\ \A i \in 1..Len(log) : log'[i] = log[i]
  BY <1>2, <1>3
<1>5. Changes(e, shown, shown')
  BY <1>3 DEF Changes
<1> DEFINE l == log'
           t == shown'
<1>6. Changes(e, shown, t) /\ t \in [Face -> Indication] /\ Len(l) = Len(log) + 1
      /\ l[Len(log) + 1] = e /\ \A i \in 1..Len(log) : l[i] = log[i]
  BY <1>4, <1>5
<1> HIDE DEF l, t
<1>7. \E G : HistoryOf(G, l, t)
  BY <1>1, <1>2, <1>6, HistoryAppend
<1> QED BY <1>7 DEF History, l, t

LEMMA NextHistory ==
  ASSUME LaneAssumption, IInv, History, [Next]_vars
  PROVE  History'
<1>0. shown \in [Face -> Indication] /\ shown' \in [Face -> Indication]
  <2>1. IInv'
    BY NextIInv
  <2> QED BY <2>1 DEF IInv, TypeOK
<1>1. ASSUME NEW f \in Face, NEW cur \in Indication,
             NEW prev \in Indication \cup {Absent}, Change(f, cur, prev)
      PROVE  History'
  <2> DEFINE legal == Mutcd(shown, f, cur)
  <2>1. /\ Emit(f, prev, cur, legal) /\ cur # shown[f] /\ prev \in {shown[f], Absent}
        /\ shown' = [shown EXCEPT ![f] = cur] /\ legal = Mutcd(shown, f, cur)
    BY <1>1 DEF Change
  <2> HIDE DEF legal
  <2> QED BY <2>1, <1>0, EmitHistory
<1>2. CASE OtherEvent
  <2>1. Emit(Absent, Absent, Absent, TRUE) /\ shown' = shown
    BY <1>2 DEF OtherEvent
  <2> QED BY <2>1, <1>0, EmitHistory
<1>3. CASE Restart
  BY <1>3 DEF Restart, History
<1>4. CASE Deliver
  BY <1>4 DEF Deliver, Arrive, History
<1>5. CASE Redeliver
  BY <1>5 DEF Redeliver, Arrive, History
<1>6. CASE UNCHANGED vars
  BY <1>6 DEF vars, History
<1> QED BY <1>1, <1>2, <1>3, <1>4, <1>5, <1>6 DEF Next

LEMMA InitHistory == LaneAssumption /\ Init => History
<1> SUFFICES ASSUME LaneAssumption, Init PROVE HistoryOf([i \in 1..1 |-> shown], log, shown)
  BY DEF History
<1>1. Len(log) = 0 /\ 1..Len(log) = {} /\ shown \in [Face -> Indication]
  BY DEF Init, LaneAssumption
<1>2. \A i \in 1..1 : 1..(i - 1) = {}
  OBVIOUS
<1>3. 0 + 1 = 1
  OBVIOUS
<1> QED BY <1>1, <1>2, <1>3 DEF HistoryOf

-----------------------------------------------------------------------------
(* Part 4: the signal check. *)

LEMMA OppositeIs ==
  ASSUME LaneAssumption, NEW f \in Face
  PROVE  Opposite(f) \in Face /\ Opposite(f) # f
<1>1. \E g \in Face : g # f
  <2>1. SUFFICES ASSUME Face = {f} PROVE FALSE
    OBVIOUS
  <2>2. Cardinality({f}) = 1
    BY FS_Singleton
  <2> QED BY <2>1, <2>2 DEF LaneAssumption
<1> QED BY <1>1 DEF Opposite

LEMMA SignalPlaces ==
  ASSUME LaneAssumption, IInv
  PROVE  /\ IsFiniteSet(Signals) /\ Cardinality(Signals) \in Nat
         /\ \A k \in Signals :
              /\ k \in 1..Len(arrived) /\ k \in Nat
              /\ arrived[k] \in Got /\ arrived[k] \in 1..Len(log) /\ arrived[k] \in Nat
              /\ At(k).epoch \in Nat /\ At(k).seq \in Nat /\ At(k).face \in Face
<1> DEFINE N == Len(arrived)
<1>1. N \in Nat /\ \A n \in 1..N : arrived[n] \in 1..Len(log)
  BY ArrivedType
<1>2. IsFiniteSet(1..N)
  <2> HIDE DEF N
  <2> QED BY <1>1, FS_Interval
<1>3. Signals \in SUBSET (1..N)
  BY DEF Signals
<1>4. IsFiniteSet(Signals) /\ Cardinality(Signals) \in Nat
  <2>1. IsFiniteSet(Signals)
    BY <1>2, <1>3, FS_Subset
  <2> QED BY <2>1, FS_CardinalityType
<1>5. ASSUME NEW k \in Signals
      PROVE  /\ k \in 1..Len(arrived) /\ k \in Nat
             /\ arrived[k] \in Got /\ arrived[k] \in 1..Len(log) /\ arrived[k] \in Nat
             /\ At(k).epoch \in Nat /\ At(k).seq \in Nat /\ At(k).face \in Face
  <2>1. k \in 1..N /\ Signal(At(k))
    BY DEF Signals
  <2>2. k \in Nat /\ arrived[k] \in Got /\ arrived[k] \in 1..Len(log) /\ arrived[k] \in Nat
    BY <2>1, <1>1 DEF Got
  <2> QED BY <2>1, <2>2, EventTypes DEF At, Signal
<1> QED BY <1>4, <1>5

(* epochOrder has the first place of every epoch observed. *)
LEMMA RankIsFirst ==
  ASSUME LaneAssumption, IInv, NEW k \in Signals
  PROVE  LET r == EpochRank(At(k).epoch)
         IN  /\ r \in Signals /\ At(r).epoch = At(k).epoch
             /\ \A j \in Signals : At(j).epoch = At(k).epoch => r <= j
<1> DEFINE x == At(k).epoch
           T == {j \in Signals : At(j).epoch = x}
           First(r) == r \in Signals /\ At(r).epoch = x /\ \A j \in Signals : At(j).epoch = x => r <= j
<1>1. T \in SUBSET Nat /\ T # {}
  BY SignalPlaces
<1>2. \E r \in T : \A j \in T : r <= j
  <2> HIDE DEF T
  <2> QED BY <1>1, Least
<1>3. \E r \in Signals : At(r).epoch = x /\ \A j \in Signals : At(j).epoch = x => r <= j
  BY <1>2
<1> HIDE DEF x
<1>4. First(EpochRank(x))
  BY <1>3 DEF EpochRank
<1> QED BY <1>4 DEF x

(* When epochs are observed in order, the sort puts events in the order of  *)
(* the log, and deliveries of one event in the order of their arrival.      *)
InLogOrder(j, k) ==
  arrived[j] < arrived[k] \/ (arrived[j] = arrived[k] /\ j < k)

LEMMA EpochsRanked ==
  ASSUME LaneAssumption, IInv, EpochsInOrder, NEW j \in Signals, NEW k \in Signals,
         At(j).epoch < At(k).epoch
  PROVE  EpochRank(At(j).epoch) < EpochRank(At(k).epoch)
<1> DEFINE p == EpochRank(At(j).epoch)
           q == EpochRank(At(k).epoch)
<1>1. /\ p \in Signals /\ At(p).epoch = At(j).epoch
      /\ \A i \in Signals : At(i).epoch = At(j).epoch => p <= i
      /\ q \in Signals /\ At(q).epoch = At(k).epoch
  BY RankIsFirst
<1> HIDE DEF p, q
<1>2. p \in Nat /\ q \in Nat /\ \A i \in Signals : i \in Nat
  BY <1>1, SignalPlaces
<1>3. At(j).epoch \in Nat /\ At(k).epoch \in Nat
  BY SignalPlaces
<1>4. p # q
  BY <1>1, <1>3
<1>5. SUFFICES ASSUME q < p PROVE FALSE
  BY <1>2, <1>4 DEF p, q
<1>6. PICK i \in Signals : i < q /\ At(i).epoch = At(p).epoch
  BY <1>1, <1>5 DEF EpochsInOrder
<1>7. p <= i
  BY <1>1, <1>6
<1> QED BY <1>2, <1>5, <1>6, <1>7

LEMMA SortedByLog ==
  ASSUME LaneAssumption, IInv, Numbered, EpochsInOrder,
         NEW j \in Signals, NEW k \in Signals
  PROVE  Before(j, k) <=> InLogOrder(j, k)
<1> DEFINE a == arrived[j]
           b == arrived[k]
           p == EpochRank(At(j).epoch)
           q == EpochRank(At(k).epoch)
<1>1. /\ a \in 1..Len(log) /\ b \in 1..Len(log) /\ a \in Nat /\ b \in Nat
      /\ j \in Nat /\ k \in Nat
      /\ At(j).epoch \in Nat /\ At(j).seq \in Nat
      /\ At(k).epoch \in Nat /\ At(k).seq \in Nat
  BY SignalPlaces
<1>2. p \in Nat /\ q \in Nat
  BY RankIsFirst, SignalPlaces
<1>3. /\ a <= b => /\ At(j).epoch <= At(k).epoch
                   /\ At(j).epoch = At(k).epoch => At(k).seq = At(j).seq + (b - a)
      /\ b <= a => /\ At(k).epoch <= At(j).epoch
                   /\ At(j).epoch = At(k).epoch => At(j).seq = At(k).seq + (a - b)
  BY <1>1 DEF Numbered, At
<1>4. CASE At(j).epoch = At(k).epoch
  <2>1. p = q
    BY <1>4
  <2> DEFINE u == At(j).seq
             v == At(k).seq
  <2>2. /\ u \in Nat /\ v \in Nat
        /\ a <= b => v = u + (b - a)
        /\ b <= a => u = v + (a - b)
    BY <1>1, <1>3, <1>4
  <2>3. Before(j, k) <=> u < v \/ (u = v /\ j < k)
    BY <2>1, <1>2 DEF Before
  <2> HIDE DEF a, b, u, v
  <2>4. (u < v <=> a < b) /\ (u = v <=> a = b)
    BY <2>2, <1>1
  <2> QED BY <2>3, <2>4 DEF InLogOrder, a, b
<1>5. CASE At(j).epoch < At(k).epoch
  <2>1. p < q
    BY <1>5, EpochsRanked
  <2>2. a < b
    BY <1>5, <1>1, <1>3
  <2> QED BY <2>1, <2>2 DEF Before, InLogOrder
<1>6. CASE At(k).epoch < At(j).epoch
  <2>1. q < p
    BY <1>6, EpochsRanked
  <2>2. b < a
    BY <1>6, <1>1, <1>3
  <2>3. ~(p < q) /\ p # q
    BY <2>1, <1>2
  <2>4. ~(a < b) /\ a # b
    BY <2>2, <1>1
  <2> QED BY <2>3, <2>4 DEF Before, InLogOrder
<1> QED BY <1>1, <1>4, <1>5, <1>6

(* The places the sort puts before k, and the first n of the sorted ones.   *)
Ahead == [k \in Signals |-> {j \in Signals : Before(j, k)}]
Done(n) == {j \in Signals : Cardinality(Ahead[j]) < n}

LEMMA SortRanked ==
  ASSUME LaneAssumption, IInv, Numbered, EpochsInOrder
  PROVE  Ranked(Signals, Ahead)
<1>1. IsFiniteSet(Signals) /\ Ahead \in [Signals -> SUBSET Signals]
  BY SignalPlaces DEF Ahead
<1>2. \A j, k \in Signals : j \in Ahead[k] <=> InLogOrder(j, k)
  BY SortedByLog DEF Ahead
<1>3. \A k \in Signals : k \in Nat /\ arrived[k] \in Nat
  BY SignalPlaces
<1>4. \A k \in Signals : k \notin Ahead[k]
  BY <1>2, <1>3 DEF InLogOrder
<1>5. ASSUME NEW j \in Signals, NEW k \in Signals, InLogOrder(j, k)
      PROVE  j \in Ahead[k] /\ Ahead[j] \subseteq Ahead[k]
  <2>1. ASSUME NEW i \in Signals, InLogOrder(i, j) PROVE InLogOrder(i, k)
    BY <1>3, <1>5, <2>1 DEF InLogOrder
  <2> QED BY <2>1, <1>1, <1>2, <1>5
<1>6. \A j, k \in Signals : j # k => InLogOrder(j, k) \/ InLogOrder(k, j)
  BY <1>3 DEF InLogOrder
<1> QED BY <1>1, <1>4, <1>5, <1>6 DEF Ranked

(* The next event to check is the first of the log not yet checked. *)
LEMMA SortedPlace ==
  ASSUME LaneAssumption, IInv, Numbered, EpochsInOrder,
         NEW n \in Nat, n < Cardinality(Signals), NEW k, k = Sorted(n + 1)
  PROVE  /\ k \in Signals /\ k \notin Done(n)
         /\ Done(n) = {j \in Signals : InLogOrder(j, k)}
         /\ Done(n + 1) = Done(n) \cup {k}
<1> DEFINE C == Cardinality(Signals)
           r(j) == Cardinality(Ahead[j])
<1>1. /\ C \in Nat
      /\ \A j \in Signals : r(j) \in Nat /\ r(j) < C
      /\ \A i, j \in Signals : i \in Ahead[j] <=> r(i) < r(j)
      /\ \A m \in 1..C : \E j \in Signals : r(j) = m - 1
  BY SortRanked, Ranks
<1>2. \A j \in Signals : Ahead[j] = {i \in Signals : Before(i, j)}
  BY DEF Ahead
<1>3. n + 1 \in 1..C /\ (n + 1) - 1 = n
  BY <1>1
<1>4. \E j \in Signals : Cardinality({i \in Signals : Before(i, j)}) = (n + 1) - 1
  BY <1>1, <1>2, <1>3
<1>5. k \in Signals /\ r(k) = n
  <2>1. k \in Signals /\ Cardinality({i \in Signals : Before(i, k)}) = (n + 1) - 1
    BY <1>4 DEF Sorted
  <2> QED BY <2>1, <1>2, <1>3
<1>6. \A i, j \in Signals : r(i) = r(j) => i = j
  <2>1. \A i, j \in Signals : i # j => i \in Ahead[j] \/ j \in Ahead[i]
    BY SortRanked DEF Ranked
  <2> HIDE DEF r
  <2> QED BY <2>1, <1>1
<1>7. \A j \in Signals : InLogOrder(j, k) <=> j \in Ahead[k]
  BY <1>5, SortedByLog DEF Ahead
<1>8. \A j \in Signals : j \in Done(n) <=> r(j) < n
  BY DEF Done
<1>9. \A j \in Signals : j \in Done(n + 1) <=> r(j) < n + 1
  BY DEF Done
<1> HIDE DEF r
<1>10. Done(n) = {j \in Signals : InLogOrder(j, k)}
  BY <1>1, <1>5, <1>7, <1>8 DEF Done
<1>11. k \notin Done(n)
  BY <1>1, <1>5, <1>8
<1>12. Done(n + 1) = Done(n) \cup {k}
  <2>1. \A j \in Signals : j \in Done(n + 1) <=> j \in Done(n) \/ j = k
    BY <1>1, <1>5, <1>6, <1>8, <1>9
  <2>2. Done(n) \subseteq Signals /\ Done(n + 1) \subseteq Signals
    BY DEF Done
  <2> QED BY <2>1, <2>2, <1>5
<1> QED BY <1>5, <1>10, <1>11, <1>12

LEMMA DoneEnds ==
  ASSUME LaneAssumption, IInv, Numbered, EpochsInOrder
  PROVE  Done(0) = {} /\ Done(Cardinality(Signals)) = Signals
<1>1. \A j \in Signals : /\ Cardinality(Ahead[j]) \in Nat
                        /\ Cardinality(Ahead[j]) < Cardinality(Signals)
  BY SortRanked, Ranks
<1> QED BY <1>1 DEF Done

SignalStart == [last |-> [f \in Face |-> Absent], broken |-> {}, illegal |-> {}]
SignalState == [last : [Face -> Indication \cup {Absent}],
                broken : SUBSET Nat, illegal : SUBSET Nat]

LEMMA SignalStepType ==
  ASSUME LaneAssumption, IInv, NEW s \in SignalState, NEW k \in Signals
  PROVE  SignalStep(s, arrived[k]) \in SignalState
<1> DEFINE i == arrived[k]
           g == SignalStep(s, i)
           last == [s.last EXCEPT ![log[i].face] =
                      IF log[i].cur = Unknown THEN Absent ELSE log[i].cur]
<1>1. i \in Nat /\ log[i].face \in Face /\ log[i].cur \in Indication \cup {Absent}
  BY SignalPlaces, EventTypes DEF At
<1>2. /\ s.last \in [Face -> Indication \cup {Absent}]
      /\ s.broken \in SUBSET Nat /\ s.illegal \in SUBSET Nat
  BY DEF SignalState
<1>3. last \in [Face -> Indication \cup {Absent}]
  BY <1>1, <1>2
<1>4. s.broken \cup {i} \in SUBSET Nat /\ s.illegal \cup {i} \in SUBSET Nat
  BY <1>1, <1>2
<1>5. \E b \in {s.broken, s.broken \cup {i}}, x \in {s.illegal, s.illegal \cup {i}} :
        g = [last |-> last, broken |-> b, illegal |-> x]
  BY DEF SignalStep
<1> HIDE DEF g, last, i
<1>6. PICK b \in SUBSET Nat, x \in SUBSET Nat : g = [last |-> last, broken |-> b, illegal |-> x]
  BY <1>2, <1>4, <1>5
<1>7. g \in SignalState
  BY <1>3, <1>6 DEF SignalState
<1> QED BY <1>7 DEF g, i

LEMMA SignalUnfolds ==
  ASSUME LaneAssumption, IInv, Numbered, EpochsInOrder
  PROVE  \A n \in 0..Cardinality(Signals) :
           /\ SignalAfter[n] \in SignalState
           /\ SignalAfter[n] = IF n = 0 THEN SignalStart
                ELSE SignalStep(SignalAfter[n - 1], arrived[Sorted(n)])
<1> DEFINE N == Cardinality(Signals)
           B == [n \in 1..N |-> [s \in SignalState |-> SignalStep(s, arrived[Sorted(n)])]]
<1>1. N \in Nat /\ \A n \in 1..N : Sorted(n) \in Signals
  <2>1. N \in Nat
    BY SignalPlaces
  <2>2. ASSUME NEW n \in 1..N PROVE Sorted(n) \in Signals
    <3> DEFINE m == n - 1
    <3>1. m \in Nat /\ m < N /\ m + 1 = n
      BY <2>1
    <3> HIDE DEF m
    <3>2. Sorted(m + 1) \in Signals
      BY <3>1, SortedPlace
    <3> QED BY <3>1, <3>2
  <2> QED BY <2>1, <2>2
<1>2. SignalStart \in SignalState
  BY DEF SignalStart, SignalState
<1>3. Steps(N, SignalState, B)
  BY <1>1, SignalStepType DEF Steps
<1>4. PICK f : f \in [0..N -> SignalState] /\ Iterates(f, N, SignalStart, B)
  <2>1. N \in Nat
    BY <1>1
  <2> HIDE DEF B, N
  <2> QED BY <2>1, <1>2, <1>3, Iteration
<1>5. ASSUME NEW n \in 0..N
      PROVE  f[n] = IF n = 0 THEN SignalStart ELSE SignalStep(f[n - 1], arrived[Sorted(n)])
  <2>1. n # 0 => n \in 1..N /\ n - 1 \in 0..N
    BY <1>1
  <2>2. n # 0 => f[n - 1] \in SignalState
    BY <2>1, <1>4
  <2> QED BY <2>1, <2>2, <1>4 DEF Iterates
<1>6. f = [n \in 0..Cardinality(Signals) |->
             IF n = 0 THEN SignalStart ELSE SignalStep(f[n - 1], arrived[Sorted(n)])]
  BY <1>4, <1>5
<1> DEFINE H == SignalAfter
<1>7. H = [n \in 0..N |-> IF n = 0 THEN SignalStart
                          ELSE SignalStep(H[n - 1], arrived[Sorted(n)])]
  BY <1>6 DEF SignalAfter, SignalStart
<1> HIDE DEF H
<1>8. \A n \in 0..N : H[n] = IF n = 0 THEN SignalStart
                             ELSE SignalStep(H[n - 1], arrived[Sorted(n)])
  BY <1>7
<1>9. IteratesWithin(H, N, SignalState, SignalStart, B)
  <2> SUFFICES ASSUME NEW n \in 0..N
               PROVE  H[n] = IF n = 0 THEN SignalStart
                        ELSE IF H[n - 1] \in SignalState THEN B[n][H[n - 1]] ELSE H[n]
    BY DEF IteratesWithin
  <2>1. n # 0 => n \in 1..N
    BY <1>1
  <2> QED BY <2>1, <1>8
<1>10. \A n \in 0..N : H[n] \in SignalState
  <2>1. N \in Nat
    BY <1>1
  <2> HIDE DEF B, N
  <2> QED BY <2>1, <1>2, <1>3, <1>9, IterationType
<1> QED BY <1>8, <1>10 DEF H

(* The events of the first n places of the sort. *)
Checked(n) == {arrived[k] : k \in Done(n)}

(* Step n + 1 checks event i, after all signal events before it. *)
ChecksNext(n, i) ==
  /\ n + 1 \in 0..Cardinality(Signals)
  /\ SignalAfter[n] \in SignalState
  /\ SignalAfter[n + 1] = SignalStep(SignalAfter[n], i)
  /\ i \in Got /\ i \in 1..Len(log) /\ Signal(log[i]) /\ log[i].face \in Face
  /\ Checked(n + 1) = Checked(n) \cup {i}
  /\ \A j \in Checked(n) : j \in 1..Len(log) /\ j \in Got /\ j <= i
  /\ \A j \in 1..(i - 1) : Signal(log[j]) => j \in Checked(n)

LEMMA CheckStep ==
  ASSUME LaneAssumption, IInv, Numbered, EpochsInOrder, Whole,
         NEW n \in 0..Cardinality(Signals), n < Cardinality(Signals)
  PROVE  ChecksNext(n, arrived[Sorted(n + 1)])
<1> DEFINE k == Sorted(n + 1)
           i == arrived[k]
           C == Cardinality(Signals)
<1>1. C \in Nat
  BY SignalPlaces
<1>2. n \in Nat /\ n + 1 \in 0..C /\ n + 1 # 0 /\ (n + 1) - 1 = n
  BY <1>1
<1>3. /\ k \in Signals /\ Done(n) = {j \in Signals : InLogOrder(j, k)}
      /\ Done(n + 1) = Done(n) \cup {k}
  BY <1>2, SortedPlace
<1>4. SignalAfter[n] \in SignalState /\ SignalAfter[n + 1] = SignalStep(SignalAfter[n], i)
  BY <1>2, SignalUnfolds
<1> HIDE DEF k
<1>5. /\ i \in Got /\ i \in 1..Len(log) /\ i \in Nat /\ Signal(log[i])
      /\ log[i].face \in Face
  BY <1>3, SignalPlaces DEF At, Signals
<1>6. Checked(n + 1) = Checked(n) \cup {i}
  BY <1>3 DEF Checked
<1>7. ASSUME NEW j \in Checked(n) PROVE j \in 1..Len(log) /\ j \in Got /\ j <= i
  <2>1. PICK p \in Signals : InLogOrder(p, k) /\ arrived[p] = j
    BY <1>3 DEF Checked
  <2>2. j \in Got /\ j \in 1..Len(log) /\ j \in Nat
    BY <2>1, SignalPlaces
  <2> QED BY <2>1, <2>2, <1>5 DEF InLogOrder
<1>8. ASSUME NEW j \in 1..(i - 1), Signal(log[j]) PROVE j \in Checked(n)
  <2>1. j \in 1..i /\ j < i
    BY <1>5
  <2>2. j \in Got
    BY <2>1, <1>5 DEF Whole
  <2>3. PICK p \in 1..Len(arrived) : arrived[p] = j
    BY <2>2 DEF Got
  <2>4. p \in Signals /\ InLogOrder(p, k)
    BY <2>1, <2>3, <1>8 DEF Signals, At, InLogOrder
  <2> QED BY <2>3, <2>4, <1>3 DEF Checked
<1> QED BY <1>2, <1>4, <1>5, <1>6, <1>7, <1>8 DEF ChecksNext, k

(* What the check remembers of each face is its last event among those      *)
(* checked, unless that was a dropout.                                      *)
Remembers(s, Q) ==
  \A f \in Face :
    \/ s.last[f] = Absent /\ \A j \in Q : log[j].face # f
    \/ \E j \in Q : /\ log[j].face = f /\ \A k \in Q : log[k].face = f => k <= j
                   /\ s.last[f] = IF log[j].cur = Unknown THEN Absent ELSE log[j].cur

LEMMA RemembersNext ==
  ASSUME LaneAssumption, IInv, NEW n, NEW i, ChecksNext(n, i),
         Remembers(SignalAfter[n], Checked(n))
  PROVE  Remembers(SignalAfter[n + 1], Checked(n + 1))
<1> DEFINE s == SignalAfter[n]
           g == SignalAfter[n + 1]
           Q == Checked(n)
           R == Checked(n + 1)
           y == log[i].face
           v == IF log[i].cur = Unknown THEN Absent ELSE log[i].cur
<1>1. /\ s \in SignalState /\ g = SignalStep(s, i) /\ y \in Face /\ R = Q \cup {i}
      /\ i \in Nat /\ (\A j \in Q : j <= i) /\ Remembers(s, Q)
  BY EventTypes DEF ChecksNext
<1>2. g.last = [s.last EXCEPT ![y] = v]
  BY <1>1 DEF SignalStep
<1>3. s.last \in [Face -> Indication \cup {Absent}]
  BY <1>1 DEF SignalState
<1>4. g.last[y] = v /\ \A f \in Face \ {y} : g.last[f] = s.last[f]
  BY <1>1, <1>2, <1>3
<1> HIDE DEF s, g, Q, R
<1>5. SUFFICES ASSUME NEW f \in Face
               PROVE  \/ g.last[f] = Absent /\ \A j \in R : log[j].face # f
                      \/ \E j \in R : /\ log[j].face = f /\ \A k \in R : log[k].face = f => k <= j
                                     /\ g.last[f] = IF log[j].cur = Unknown THEN Absent
                                                     ELSE log[j].cur
  BY DEF Remembers, g, R
<1>6. CASE f = y
  <2>1. i \in R /\ \A k \in R : k <= i
    BY <1>1
  <2> QED BY <2>1, <1>4, <1>6
<1>7. CASE f # y
  <2>1. g.last[f] = s.last[f] /\ \A j \in R : log[j].face = f => j \in Q
    BY <1>1, <1>4, <1>7
  <2>2. CASE s.last[f] = Absent /\ \A j \in Q : log[j].face # f
    BY <2>1, <2>2
  <2>3. CASE \E j \in Q : /\ log[j].face = f /\ \A k \in Q : log[k].face = f => k <= j
                        /\ s.last[f] = IF log[j].cur = Unknown THEN Absent ELSE log[j].cur
    BY <2>1, <2>3, <1>1
  <2> QED BY <2>2, <2>3, <1>1 DEF Remembers
<1> QED BY <1>6, <1>7

(* What it remembers when it first checks event i is what the face showed.  *)
LEMMA Remembered ==
  ASSUME LaneAssumption, IInv, NEW H, HistoryOf(H, log, shown), NEW n, NEW i,
         ChecksNext(n, i), Remembers(SignalAfter[n], Checked(n)), i \notin Checked(n),
         NEW f \in Face
  PROVE  \/ SignalAfter[n].last[f] = Absent /\ \A j \in 1..(i - 1) : log[j].face # f
         \/ \E j \in 1..(i - 1) :
              /\ Latest(log, f, i, j) /\ H[i][f] = log[j].cur
              /\ SignalAfter[n].last[f] = IF H[i][f] = Unknown THEN Absent ELSE H[i][f]
<1> DEFINE s == SignalAfter[n]
           Q == Checked(n)
<1>1. /\ i \in 1..Len(log) /\ i \notin Q /\ Remembers(s, Q) /\ Len(log) \in Nat
      /\ \A j \in Q : j \in 1..Len(log) /\ j <= i
      /\ \A j \in 1..(i - 1) : Signal(log[j]) => j \in Q
  BY EventTypes DEF ChecksNext
<1> HIDE DEF s, Q
<1>2. \A j \in 1..(i - 1) : log[j].face = f => j \in Q
  BY <1>1 DEF Signal, LaneAssumption
<1>3. \A j \in Q : j \in 1..(i - 1)
  BY <1>1
<1>4. CASE s.last[f] = Absent /\ \A j \in Q : log[j].face # f
  BY <1>2, <1>4 DEF s
<1>5. CASE \E j \in Q : /\ log[j].face = f /\ \A k \in Q : log[k].face = f => k <= j
                      /\ s.last[f] = IF log[j].cur = Unknown THEN Absent ELSE log[j].cur
  <2>1. PICK j \in Q : /\ log[j].face = f /\ \A k \in Q : log[k].face = f => k <= j
                       /\ s.last[f] = IF log[j].cur = Unknown THEN Absent ELSE log[j].cur
    BY <1>5
  <2>2. j \in 1..(i - 1) /\ Latest(log, f, i, j)
    BY <2>1, <1>2, <1>3 DEF Latest
  <2>3. i \in 1..(Len(log) + 1)
    BY <1>1
  <2>4. H[i][f] = log[j].cur
    BY <2>2, <2>3 DEF HistoryOf
  <2> QED BY <2>1, <2>2, <2>4 DEF s
<1> QED BY <1>1, <1>4, <1>5 DEF Remembers

(* The check of event i, by what the face showed: of a change it can follow *)
(* it reports what the rule forbids, and nothing the rule allows but the    *)
(* exception it cannot confirm.                                             *)
LEMMA StepExact ==
  ASSUME LaneAssumption, IInv, NEW H, HistoryOf(H, log, shown), NEW n, NEW i,
         ChecksNext(n, i), Remembers(SignalAfter[n], Checked(n)), i \notin Checked(n)
  PROVE  LET s == SignalAfter[n]  g == SignalAfter[n + 1]
         IN  /\ g.broken = s.broken
             /\ \/ g.illegal = s.illegal
                \/ g.illegal = s.illegal \cup {i} /\ (log[i].legal => OppositeUnseen(i))
             /\ ~log[i].legal /\ PreviousKnown(i) => i \in g.illegal
<1> DEFINE s == SignalAfter[n]
           g == SignalAfter[n + 1]
           e == log[i]
           f == e.face
           o == Opposite(f)
           w == H[i][f]
           x == H[i][o]
           a == s.last[f]
           b == s.last[o]
           prev == IF e.prev # Absent THEN e.prev ELSE a
           Forbidden == /\ e.cur # Unknown /\ prev \notin {Absent, e.cur}
                        /\ ~LcsTransitionLegal(prev, e.cur, b = Red)
<1>1. /\ g = SignalStep(s, i) /\ f \in Face /\ o \in Face /\ Signal(e)
      /\ i \in 1..Len(log) /\ i \in 1..(Len(log) + 1)
  BY OppositeIs, EventTypes DEF ChecksNext
<1>2. /\ e.cur \in Indication /\ e.prev \in {w, Absent} /\ e.cur # w
      /\ e.legal = Mutcd(H[i], f, e.cur)
  BY <1>1 DEF HistoryOf
<1>3. w \in Indication /\ x \in Indication
  BY <1>1 DEF HistoryOf
<1>4. \/ a = Absent /\ \A j \in 1..(i - 1) : log[j].face # f
      \/ \E j \in 1..(i - 1) : /\ Latest(log, f, i, j) /\ w = log[j].cur
                             /\ a = IF w = Unknown THEN Absent ELSE w
  BY <1>1, Remembered
<1>5. \/ b = Absent /\ \A j \in 1..(i - 1) : log[j].face # o
      \/ b = IF x = Unknown THEN Absent ELSE x
  BY <1>1, Remembered
<1>6. Absent \notin Indication
  BY DEF LaneAssumption
<1>7. /\ Red # Unknown /\ Red # Absent /\ Unknown # Absent /\ Green # Yellow
      /\ Green # Unknown /\ Yellow # Unknown
  BY DEF Red, Unknown, Absent, Green, Yellow
<1>8. Mutcd(H[i], f, e.cur) <=>
        \/ e.cur = Unknown \/ w \notin {Green, Yellow}
        \/ w \in {Green, Yellow} /\ e.cur = Red
        \/ w = Green /\ e.cur = Yellow
        \/ w = Green /\ e.cur = TwoWay /\ x = Red
  BY DEF Mutcd
<1>9. /\ g.broken = IF e.prev # Absent /\ a \notin {Absent, e.prev}
                    THEN s.broken \cup {i} ELSE s.broken
      /\ g.illegal = IF Forbidden THEN s.illegal \cup {i} ELSE s.illegal
  BY <1>1 DEF SignalStep
<1>10. PreviousKnown(i) => prev = w
  <2>1. SUFFICES ASSUME PreviousKnown(i), e.prev = Absent PROVE a = w
    BY <1>2
  <2>2. PICK j \in 1..(i - 1) :
          /\ log[j].face = f /\ log[j].cur # Unknown
          /\ \A k \in 1..(i - 1) : log[k].face = f => k <= j
    BY <2>1 DEF PreviousKnown
  <2>3. PICK k \in 1..(i - 1) : /\ Latest(log, f, i, k) /\ w = log[k].cur
                               /\ a = IF w = Unknown THEN Absent ELSE w
    BY <2>2, <1>4
  <2>4. k <= j /\ j <= k
    BY <2>2, <2>3 DEF Latest
  <2>5. k = j
    <3>1. i \in Nat
      BY <1>1, EventTypes
    <3> QED BY <3>1, <2>4
  <2> QED BY <2>2, <2>3, <2>5
<1>11. OppositeUnseen(i) <=> e.cur = TwoWay /\ \A j \in 1..(i - 1) : log[j].face # o
  BY DEF OppositeUnseen
<1>12. LcsTransitionLegal(w, e.cur, b = Red) <=>
         /\ w = Green => e.cur \in {Yellow, Red} \/ (e.cur = TwoWay /\ b = Red)
         /\ w = Yellow => e.cur = Red
  BY DEF LcsTransitionLegal
<1>13. prev \in {w, Absent} /\ a \in {w, Absent}
  BY <1>2, <1>4
<1>14. g.broken = s.broken
  <2>1. e.prev # Absent => e.prev = w
    BY <1>2
  <2> QED BY <2>1, <1>9, <1>13
<1>15. Forbidden => prev = w /\ ~LcsTransitionLegal(w, e.cur, b = Red)
  <2>1. Forbidden => prev = w
    BY <1>13
  <2> HIDE DEF w
  <2> QED BY <2>1
<1> DEFINE cur == e.cur
           NoneOfO == \A j \in 1..(i - 1) : log[j].face # o
<1>16. Forbidden /\ Mutcd(H[i], f, cur) => cur = TwoWay /\ NoneOfO
  <2>1. SUFFICES ASSUME Forbidden, Mutcd(H[i], f, cur) PROVE cur = TwoWay /\ NoneOfO
    OBVIOUS
  <2>2. cur # Unknown
    BY <2>1
  <2>3. \/ w = Green /\ cur \notin {Yellow, Red} /\ ~(cur = TwoWay /\ b = Red)
        \/ w = Yellow /\ cur # Red
    BY <2>1, <1>12, <1>15
  <2> HIDE DEF w, x, b, cur, NoneOfO, prev, Forbidden
  <2>4. w = Green /\ cur = TwoWay /\ x = Red /\ b # Red
    BY <2>1, <2>2, <2>3, <1>7, <1>8 DEF cur
  <2> QED BY <2>4, <1>5, <1>7 DEF NoneOfO
<1>17. ~Mutcd(H[i], f, cur) /\ prev = w => Forbidden
  <2>1. SUFFICES ASSUME ~Mutcd(H[i], f, cur), prev = w PROVE Forbidden
    OBVIOUS
  <2>2. /\ cur # Unknown /\ w \in {Green, Yellow} /\ cur # Red
        /\ ~(w = Green /\ cur = Yellow) /\ ~(w = Green /\ cur = TwoWay /\ x = Red)
    BY <2>1, <1>8
  <2>3. b = Red => x = Red
    BY <1>5, <1>7
  <2>4. ~LcsTransitionLegal(w, e.cur, b = Red)
    BY <2>2, <2>3, <1>12
  <2>5. w # Absent /\ w # e.cur
    BY <1>2, <1>3, <1>6
  <2> QED BY <2>1, <2>2, <2>4, <2>5
<1> HIDE DEF Forbidden, prev, NoneOfO, a, b, w, x
<1>18. \/ g.illegal = s.illegal
       \/ g.illegal = s.illegal \cup {i} /\ (e.legal => OppositeUnseen(i))
  BY <1>2, <1>9, <1>11, <1>16 DEF NoneOfO
<1>19. ~e.legal /\ PreviousKnown(i) => i \in g.illegal
  BY <1>2, <1>9, <1>10, <1>17
<1> QED BY <1>14, <1>18, <1>19

(* An event delivered again leaves what was reported. *)
LEMMA StepKeeps ==
  ASSUME NEW n, NEW i, ChecksNext(n, i)
  PROVE  SignalAfter[n].illegal \subseteq SignalAfter[n + 1].illegal
BY DEF ChecksNext, SignalStep

LEMMA SignalsStart ==
  ASSUME LaneAssumption, IInv, Numbered, EpochsInOrder
  PROVE  /\ Cardinality(Signals) \in Nat /\ 0 \in 0..Cardinality(Signals)
         /\ SignalAfter[0] = SignalStart /\ Checked(0) = {}
         /\ Remembers(SignalAfter[0], Checked(0))
<1>1. Cardinality(Signals) \in Nat /\ 0 \in 0..Cardinality(Signals)
  BY SignalPlaces
<1>2. SignalAfter[0] = SignalStart
  BY <1>1, SignalUnfolds
<1>3. Checked(0) = {}
  BY DoneEnds DEF Checked
<1> QED BY <1>1, <1>2, <1>3 DEF Remembers, SignalStart

LEMMA AllChecked ==
  ASSUME LaneAssumption, IInv, Numbered, EpochsInOrder
  PROVE  \A i \in Got : Signal(log[i]) => i \in Checked(Cardinality(Signals))
BY DoneEnds DEF Checked, Got, Signals, At

LEMMA SignalLegal ==
  ASSUME LaneAssumption, IInv, Numbered, History
  PROVE  LegalStreamAccepted
<1> SUFFICES ASSUME Whole, EpochsInOrder, Len(arrived) = Cardinality(Got),
                    \A i \in Got : log[i].legal
             PROVE  SignalCheck.broken = {} /\ \A i \in SignalCheck.illegal : OppositeUnseen(i)
  BY DEF LegalStreamAccepted
<1> DEFINE C == Cardinality(Signals)
           Fine(n) == /\ SignalAfter[n].broken = {}
                      /\ \A i \in SignalAfter[n].illegal : OppositeUnseen(i)
           S == {n \in 0..C : Remembers(SignalAfter[n], Checked(n)) /\ Fine(n)}
<1>1. C \in Nat
  BY SignalsStart
<1>2. \A j, k \in 1..Len(arrived) : arrived[j] = arrived[k] => j = k
  <2> DEFINE N == Len(arrived)
             T == 1..N
             f == [k \in T |-> arrived[k]]
  <2>1. IsFiniteSet(T) /\ Cardinality(T) = N
    <3>1. N \in Nat
      BY ArrivedType
    <3> HIDE DEF N
    <3>2. 1 \in Int /\ N \in Int
      BY <3>1
    <3>3. IsFiniteSet(1..N) /\ Cardinality(1..N) = IF 1 > N THEN 0 ELSE N - 1 + 1
      BY <3>2, FS_Interval
    <3> QED BY <3>1, <3>3
  <2>2. f \in Surjection(T, Got)
    BY DEF Surjection, Got
  <2>3. Cardinality(Got) = Cardinality(T)
    BY <2>1
  <2>4. f \in Injection(T, Got)
    <3> HIDE DEF f, T
    <3> QED BY <2>1, <2>2, <2>3, FS_Surjection
  <2>5. \A j, k \in T : f[j] = f[k] => j = k
    <3> HIDE DEF T
    <3> QED BY <2>4 DEF Injection, IsInjective
  <2> QED BY <2>5
<1>3. 0 \in S
  BY SignalsStart DEF SignalStart
<1>4. ASSUME NEW n \in 0..C, n \in S /\ n < C PROVE n + 1 \in S
  <2> DEFINE k == Sorted(n + 1)
             i == arrived[k]
  <2>1. ChecksNext(n, i)
    BY <1>4, CheckStep
  <2>2. i \notin Checked(n)
    <3>1. n \in Nat
      BY <1>1
    <3>2. k \in Signals /\ k \notin Done(n)
      BY <1>4, <3>1, SortedPlace
    <3>3. Done(n) \subseteq 1..Len(arrived) /\ k \in 1..Len(arrived)
      BY <3>2 DEF Done, Signals
    <3> QED BY <3>2, <3>3, <1>2 DEF Checked
  <2> HIDE DEF i
  <2>3. PICK H : HistoryOf(H, log, shown)
    BY DEF History
  <2>4. /\ SignalAfter[n + 1].broken = SignalAfter[n].broken
        /\ \/ SignalAfter[n + 1].illegal = SignalAfter[n].illegal
           \/ /\ SignalAfter[n + 1].illegal = SignalAfter[n].illegal \cup {i}
              /\ log[i].legal => OppositeUnseen(i)
    BY <2>1, <2>2, <2>3, <1>4, StepExact
  <2>5. log[i].legal /\ n + 1 \in 0..C
    BY <2>1 DEF ChecksNext
  <2>6. Remembers(SignalAfter[n + 1], Checked(n + 1))
    BY <2>1, <1>4, RemembersNext
  <2> QED BY <2>4, <2>5, <2>6, <1>4
<1>5. 0..C \subseteq S
  <2> HIDE DEF S, C
  <2> QED BY <1>1, <1>3, <1>4, Upto
<1> QED BY <1>1, <1>5 DEF SignalCheck

LEMMA SignalIllegal ==
  ASSUME LaneAssumption, IInv, Numbered, History
  PROVE  IllegalChangeNoticed
<1> SUFFICES ASSUME Whole, EpochsInOrder,
                    NEW b \in Got, ~log[b].legal, PreviousKnown(b)
             PROVE  b \in SignalCheck.illegal
  BY DEF IllegalChangeNoticed
<1> DEFINE C == Cardinality(Signals)
           S == {n \in 0..C : /\ Remembers(SignalAfter[n], Checked(n))
                              /\ b \in Checked(n) => b \in SignalAfter[n].illegal}
<1>1. C \in Nat
  BY SignalsStart
<1>2. 0 \in S
  BY SignalsStart
<1>3. ASSUME NEW n \in 0..C, n \in S /\ n < C PROVE n + 1 \in S
  <2> DEFINE i == arrived[Sorted(n + 1)]
  <2>1. ChecksNext(n, i)
    BY <1>3, CheckStep
  <2> HIDE DEF i
  <2>2. n + 1 \in 0..C /\ Checked(n + 1) = Checked(n) \cup {i}
    BY <2>1 DEF ChecksNext
  <2>3. Remembers(SignalAfter[n + 1], Checked(n + 1))
    BY <2>1, <1>3, RemembersNext
  <2>4. CASE b \in Checked(n)
    BY <2>1, <2>2, <2>3, <2>4, <1>3, StepKeeps
  <2>5. CASE b \notin Checked(n) /\ b = i
    <3>1. PICK H : HistoryOf(H, log, shown)
      BY DEF History
    <3>2. i \in SignalAfter[n + 1].illegal
      BY <2>1, <2>5, <3>1, <1>3, StepExact
    <3> QED BY <3>2, <2>2, <2>3, <2>5
  <2>6. CASE b \notin Checked(n) /\ b # i
    BY <2>2, <2>3, <2>6
  <2> QED BY <2>4, <2>5, <2>6
<1>4. 0..C \subseteq S
  <2> HIDE DEF S, C
  <2> QED BY <1>1, <1>2, <1>3, Upto
<1>5. b \in Checked(C) => b \in SignalAfter[C].illegal
  BY <1>1, <1>4
<1>6. Signal(log[b])
  <2>1. PICK H : HistoryOf(H, log, shown)
    BY DEF History
  <2>2. b \in 1..Len(log)
    BY ArrivedType
  <2> QED BY <2>1, <2>2 DEF HistoryOf
<1> QED BY <1>5, <1>6, AllChecked DEF SignalCheck

-----------------------------------------------------------------------------
(* What the steps keep: the numbers, and the history. *)
LaneInv == IInv /\ Numbered /\ History

LEMMA SpecLaneInv == Spec => []LaneInv
<1>1. Init => LaneInv
  BY LaneAssumption, InitIInv, InitNumbered, InitHistory DEF LaneInv
<1>2. LaneInv /\ [Next]_vars => LaneInv'
  BY LaneAssumption, NextIInv, NextNumbered, NextHistory DEF LaneInv
<1> QED BY <1>1, <1>2, PTL DEF Spec

(* header_sequence.go accepts every stream observed whole and in order,     *)
(* however often events are delivered again and the device restarts: the    *)
(* check raises no false alarm.                                             *)
THEOREM HeaderCheckAccepts == Spec => []HeaderAccepts
<1>1. LaneInv => HeaderAccepts
  BY LaneAssumption, HeaderAcceptsWhole DEF LaneInv
<1> QED BY <1>1, SpecLaneInv, PTL

(* The silence of header_sequence.go is a proof: what was observed of each  *)
(* epoch is a run of the log without a hole, first observed in order.       *)
THEOREM HeaderCheckProves == Spec => []HeaderSilenceIsProof
<1>1. LaneInv => HeaderSilenceIsProof
  BY LaneAssumption, HeaderSilence DEF LaneInv
<1> QED BY <1>1, SpecLaneInv, PTL

(* reversible_lane.go accepts a legal stream observed whole and once, in    *)
(* whatever order within an epoch: the sort restores the order of the log,  *)
(* and only the exception of 4T.04 for a face not yet seen is reported.     *)
THEOREM LegalLaneAccepted == Spec => []LegalStreamAccepted
<1>1. LaneInv => LegalStreamAccepted
  BY LaneAssumption, SignalLegal DEF LaneInv
<1> QED BY <1>1, SpecLaneInv, PTL

(* reversible_lane.go reports every change 4T.04 forbids whose previous     *)
(* indication it can know, also when events are delivered again or          *)
(* overtake one another within an epoch.                                    *)
THEOREM IllegalLaneNoticed == Spec => []IllegalChangeNoticed
<1>1. LaneInv => IllegalChangeNoticed
  BY LaneAssumption, SignalIllegal DEF LaneInv
<1> QED BY <1>1, SpecLaneInv, PTL
=============================================================================
