---------------------------- MODULE LaneSignals ----------------------------
(***************************************************************************)
(* The event stream of a reversible lane and the two checks the            *)
(* conformance suite runs over it: the header check of                     *)
(* tests/header_sequence.go, on every event, and the lane-use signal check *)
(* of tests/reversible_lane.go, on the events that change an indication.   *)
(*                                                                         *)
(* The device has one lane with two faces.  It numbers its events within   *)
(* an epoch, as stampHeaders does, and starts a new epoch when it          *)
(* restarts.  An event may be lost, overtaken or delivered again.          *)
(***************************************************************************)
EXTENDS Naturals, FiniteSets, Sequences

CONSTANTS
  Face,         \* the two directions of the lane
  Indication,   \* lane-use signal indications, some of those below or others
  Start,        \* what a face may show before the first event
  Legal,        \* the device never makes a change MUTCD 4T.04 forbids
  MaxEvents,    \* bound: events of the device
  MaxArrivals,  \* bound: deliveries
  MaxEpoch      \* bound: epochs

Green == "green-arrow"
Yellow == "yellow-x"
Red == "red-x"
TwoWay == "white-two-way-left-turn-arrow"
Unknown == "unknown"
Absent == "absent"     \* no previous-indication, nothing remembered

ASSUME LaneAssumption ==
  /\ Cardinality(Face) = 2 /\ Absent \notin Face
  /\ Absent \notin Indication /\ Start \subseteq Indication \ {Unknown}
  /\ Legal \in BOOLEAN
  /\ MaxEvents \in Nat /\ MaxArrivals \in Nat /\ MaxEpoch \in Nat \ {0}

VARIABLES
  shown,    \* what the device reads back at each face
  epoch,    \* its sequence-epoch
  seq,      \* the sequence of the last event in this epoch
  log,      \* every event emitted; an event's place is its ce-id
  arrived   \* places of the events observed, in arrival order

vars == <<shown, epoch, seq, log, arrived>>

(* An event of another kind has a header and no face. *)
Event == [epoch : 1..MaxEpoch, seq : 1..MaxEvents, face : Face \cup {Absent},
          prev : Indication \cup {Absent}, cur : Indication \cup {Absent},
          legal : BOOLEAN]

Opposite(f) == CHOOSE g \in Face : g # f
Signal(e) == e.face # Absent
Got == {arrived[k] : k \in 1..Len(arrived)}

(* Mistake: the exception does not look at the opposite face. *)
TwoWayAlways(prev, cur, oppositeRed) ==
  /\ prev = Green => cur \in {Yellow, Red, TwoWay}
  /\ prev = Yellow => cur = Red

(* lcsTransitionLegal. *)
LcsTransitionLegal(prev, cur, oppositeRed) ==
  /\ prev = Green => cur \in {Yellow, Red} \/ (cur = TwoWay /\ oppositeRed)
  /\ prev = Yellow => cur = Red

(* MUTCD 4T.04 paragraphs 03 and 05, as the comments of the check quote     *)
(* them, for a change of face f when the faces show this.  A readback       *)
(* dropout is not a change of the signal.                                   *)
Mutcd(shows, f, cur) ==
  \/ cur = Unknown \/ shows[f] \notin {Green, Yellow}
  \/ shows[f] \in {Green, Yellow} /\ cur = Red
  \/ shows[f] = Green /\ cur = Yellow
  \/ shows[f] = Green /\ cur = TwoWay /\ shows[Opposite(f)] = Red

-----------------------------------------------------------------------------
(* The device. *)

Init ==
  /\ shown \in [Face -> Start]
  /\ epoch = 1 /\ seq = 0 /\ log = <<>> /\ arrived = <<>>

(* stampHeaders: the next number of the epoch. *)
Emit(face, prev, cur, legal) ==
  /\ Len(log) < MaxEvents
  /\ seq' = seq + 1
  /\ log' = Append(log, [epoch |-> epoch, seq |-> seq + 1, face |-> face,
                         prev |-> prev, cur |-> cur, legal |-> legal])

(* lcs-indication-changed, with or without previous-indication. *)
Change(f, cur, prev) ==
  /\ cur # shown[f] /\ prev \in {shown[f], Absent}
  /\ Legal => Mutcd(shown, f, cur)
  /\ Emit(f, prev, cur, Mutcd(shown, f, cur))
  /\ shown' = [shown EXCEPT ![f] = cur]
  /\ UNCHANGED <<epoch, arrived>>

(* Any other event of the device takes a number too. *)
OtherEvent ==
  /\ Emit(Absent, Absent, Absent, TRUE)
  /\ UNCHANGED <<shown, epoch, arrived>>

(* Mistake: numbering goes on in the new epoch. *)
RestartCountingOn ==
  /\ epoch < MaxEpoch
  /\ epoch' = epoch + 1
  /\ UNCHANGED <<shown, seq, log, arrived>>

Restart ==
  /\ epoch < MaxEpoch
  /\ epoch' = epoch + 1 /\ seq' = 0
  /\ UNCHANGED <<shown, log, arrived>>

-----------------------------------------------------------------------------
(* Delivery: any event may arrive before those emitted earlier, and one      *)
(* that never arrives is lost.                                               *)

Arrive(i) ==
  /\ Len(arrived) < MaxArrivals
  /\ arrived' = Append(arrived, i)
  /\ UNCHANGED <<shown, epoch, seq, log>>

Deliver == \E i \in (1..Len(log)) \ Got : Arrive(i)

Redeliver == \E i \in Got : Arrive(i)

-----------------------------------------------------------------------------
(* TestEvent_SequenceContiguousWithinEpoch. *)

(* Mistake: a redelivered event is checked like a new one. *)
HeaderStepAll(s, i) ==
  LET e == log[i] IN
  [seen |-> s.seen, last |-> [s.last EXCEPT ![e.epoch] = e.seq],
   gap |-> s.gap \/ s.last[e.epoch] \notin {0, e.seq - 1}]

(* Mistake: only a number that does not grow is reported. *)
HeaderStepGrowing(s, i) ==
  LET e == log[i] IN
  IF i \in s.seen THEN s
  ELSE [seen |-> s.seen \cup {i}, last |-> [s.last EXCEPT ![e.epoch] = e.seq],
        gap |-> s.gap \/ e.seq <= s.last[e.epoch]]

(* A ce-id already seen is skipped; another event follows the last one of   *)
(* its epoch by exactly 1, or is the first of it.                           *)
HeaderStep(s, i) ==
  LET e == log[i] IN
  IF i \in s.seen THEN s
  ELSE [seen |-> s.seen \cup {i}, last |-> [s.last EXCEPT ![e.epoch] = e.seq],
        gap |-> s.gap \/ s.last[e.epoch] \notin {0, e.seq - 1}]

(* After n of the events that arrived. *)
HeaderAfter[n \in 0..Len(arrived)] ==
  IF n = 0 THEN [seen |-> {}, last |-> [x \in 1..MaxEpoch |-> 0], gap |-> FALSE]
           ELSE HeaderStep(HeaderAfter[n - 1], arrived[n])

HeaderGap == HeaderAfter[Len(arrived)].gap

-----------------------------------------------------------------------------
(* TestReversibleLane_IndicationSequence. *)

(* The event observed at place k, and the places of signal events. *)
At(k) == log[arrived[k]]
Signals == {k \in 1..Len(arrived) : Signal(At(k))}

(* epochOrder: epochs rank by their first arrival. *)
EpochRank(x) == CHOOSE k \in Signals :
  At(k).epoch = x /\ \A j \in Signals : At(j).epoch = x => k <= j

(* Mistake: by sequence alone, the epochs mixed. *)
BeforeBySequence(j, k) ==
  At(j).seq < At(k).seq \/ (At(j).seq = At(k).seq /\ j < k)

(* The stable sort: place j goes before place k. *)
Before(j, k) ==
  LET rj == EpochRank(At(j).epoch)  rk == EpochRank(At(k).epoch)
  IN \/ rj < rk
     \/ rj = rk /\ At(j).seq < At(k).seq
     \/ rj = rk /\ At(j).seq = At(k).seq /\ j < k

(* The place of the n-th event after sorting. *)
Sorted(n) == CHOOSE k \in Signals :
  Cardinality({j \in Signals : Before(j, k)}) = n - 1

(* Each head's remembered indication; a dropout clears it.  The opposite    *)
(* face counts as red only if it was seen to be.                            *)
SignalStep(s, i) ==
  LET e == log[i]
      prev == IF e.prev # Absent THEN e.prev ELSE s.last[e.face]
  IN [last |-> [s.last EXCEPT ![e.face] = IF e.cur = Unknown THEN Absent ELSE e.cur],
      broken |-> IF e.prev # Absent /\ s.last[e.face] \notin {Absent, e.prev}
                 THEN s.broken \cup {i} ELSE s.broken,
      illegal |-> IF /\ e.cur # Unknown /\ prev \notin {Absent, e.cur}
                     /\ ~LcsTransitionLegal(prev, e.cur,
                                            s.last[Opposite(e.face)] = Red)
                  THEN s.illegal \cup {i} ELSE s.illegal]

(* After n of the sorted events. *)
SignalAfter[n \in 0..Cardinality(Signals)] ==
  IF n = 0 THEN [last |-> [f \in Face |-> Absent], broken |-> {}, illegal |-> {}]
           ELSE SignalStep(SignalAfter[n - 1], arrived[Sorted(n)])

SignalCheck == SignalAfter[Cardinality(Signals)]

-----------------------------------------------------------------------------
Next ==
  \/ \E f \in Face, cur \in Indication, prev \in Indication \cup {Absent} :
        Change(f, cur, prev)
  \/ OtherEvent \/ Restart
  \/ Deliver \/ Redeliver

Spec == Init /\ [][Next]_vars

-----------------------------------------------------------------------------
(* Every variable has its type, and seq counts the events of the epoch.     *)
TypeOK ==
  /\ shown \in [Face -> Indication] /\ epoch \in 1..MaxEpoch
  /\ log \in Seq(Event)
  /\ arrived \in Seq(1..Len(log))
  /\ seq = Cardinality({i \in 1..Len(log) : log[i].epoch = epoch})

(* Nothing observed is missing an event before it. *)
Whole == \A i \in Got : \A j \in 1..i : j \in Got

(* Every event is first observed after those before it. *)
InOrder ==
  \A k, l \in 1..Len(arrived) :
    k < l /\ arrived[l] < arrived[k] => \E j \in 1..k : arrived[j] = arrived[l]

(* The first signal event observed of an epoch comes after the first of the *)
(* epochs before it.                                                        *)
EpochsInOrder ==
  \A k, l \in Signals :
    k < l /\ At(l).epoch < At(k).epoch =>
      \E j \in Signals : j < k /\ At(j).epoch = At(l).epoch

(* header_sequence.go: "at-least-once delivery may redeliver it, which is   *)
(* not a gap", and "a new epoch starts a fresh stream": a stream observed   *)
(* whole and in order is accepted, whatever is delivered again and whenever *)
(* the device restarts.                                                     *)
HeaderAccepts == Whole /\ InOrder => ~HeaderGap

(* A silent header check means that what was observed of each epoch is a    *)
(* run without a hole, first observed in order.                             *)
HeaderSilenceIsProof ==
  ~HeaderGap =>
    \A i, j \in Got : log[i].epoch = log[j].epoch =>
      /\ \A m \in i..j : m \in Got
      /\ \A k, l \in 1..Len(arrived) :
           k < l /\ arrived[k] = j /\ arrived[l] = i /\ i < j =>
             \E n \in 1..k : arrived[n] = i

(* The change of event i is the one paragraph 05 excepts, and the check     *)
(* cannot know that the opposite face is red: it has not changed yet.       *)
OppositeUnseen(i) ==
  /\ log[i].cur = TwoWay
  /\ \A j \in 1..(i - 1) : log[j].face # Opposite(log[i].face)

(* A legal stream observed whole and once, in any order within an epoch, is *)
(* accepted, but for the exception the check cannot confirm.                *)
LegalStreamAccepted ==
  /\ Whole /\ EpochsInOrder /\ Len(arrived) = Cardinality(Got)
  /\ \A i \in Got : log[i].legal
  => LET check == SignalCheck
     IN check.broken = {} /\ \A i \in check.illegal : OppositeUnseen(i)

(* The check could tell what event i changed from: the event says so, or    *)
(* the face was seen before and did not drop out.                           *)
PreviousKnown(i) ==
  \/ log[i].prev # Absent
  \/ LET earlier == {j \in 1..(i - 1) : log[j].face = log[i].face}
     IN \E j \in earlier : log[j].cur # Unknown /\ \A k \in earlier : k <= j

(* A change the MUTCD forbids is reported whenever the stream is whole,     *)
(* whatever is redelivered and however events overtake one another within   *)
(* an epoch.                                                                *)
IllegalChangeNoticed ==
  Whole /\ EpochsInOrder =>
    {i \in Got : ~log[i].legal /\ PreviousKnown(i)} \subseteq SignalCheck.illegal

(* reversible_lane.go: "A repeat of the same value is treated as no change  *)
(* and passes."                                                             *)
RepeatPasses ==
  Whole /\ InOrder /\ (\A i \in Got : log[i].legal) => SignalCheck.broken = {}
=============================================================================
