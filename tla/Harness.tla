------------------------------ MODULE Harness ------------------------------
(***************************************************************************)
(* The conformance harness, tools/conformance: main.go reads the device,   *)
(* starts a goroutine that subscribes through the driver for one window,   *)
(* drains a bounded channel until that goroutine closes it, reads the      *)
(* device again and judges.  Judging is the digital-twin check of          *)
(* tests/zone_occupancy.go for one zone: the reading against the latest    *)
(* transition it could have reflected.                                     *)
(*                                                                         *)
(* The device is external: it changes state at any time and emits an event *)
(* for each change, or, when it does not conform, fails to.                *)
(***************************************************************************)
EXTENDS Naturals, Sequences

CONSTANTS
  Cap,         \* capacity of the event channel (64 in main.go)
  Value,       \* what a zone may report
  MaxEvents,   \* bound: transitions the device reports
  MaxTime,     \* bound: the device clock
  Resolution,  \* clock ticks in one unit of observed-at
  MaySkip,     \* whether the device may change without an event
  MayFail,     \* whether Collect and Subscribe may return errors
  NoReading    \* no DeviceAfter (nil)

ASSUME HarnessAssumption ==
  /\ Cap \in Nat \ {0} /\ Resolution \in Nat \ {0}
  /\ MaxEvents \in Nat /\ MaxTime \in Nat /\ MaySkip \in BOOLEAN /\ MayFail \in BOOLEAN

VARIABLES
  now,      \* device clock
  value,    \* what the device would report now
  emitted,  \* every event the device has emitted, in order
  pc,       \* where main is
  sub,      \* where the subscribing goroutine is
  first,    \* index in emitted of the first event the driver gets
  next,     \* index in emitted of the next event the driver sends
  window,   \* subCtx: "open" until its deadline, then "closed"
  ch,       \* evCh: the events buffered in the channel
  closed,   \* evCh is closed
  subDone,  \* what is buffered in subDone
  events,   \* the events main has received
  before,   \* Device: the reading before the window
  after     \* DeviceAfter: the reading after it, or NoReading

device == <<now, value, emitted>>
driver == <<first, next, window>>
chans  == <<ch, closed, subDone>>
seen   == <<events, before, after>>
vars   == <<device, pc, sub, driver, chans, seen>>

Event == [seq : Nat, at : Nat, val : Value]
(* A reading carries its observed-at and value.  The last event it reflects *)
(* and when it was taken, seq and time, are not visible to the harness.     *)
Reading == [at : Nat, val : Value, seq : Nat, time : Nat]

Finished == {"passed", "failed", "error"}

Init ==
  /\ now = 0 /\ value \in Value /\ emitted = <<>>
  /\ pc = "collect" /\ sub = "none"
  /\ first = 1 /\ next = 1 /\ window = "open"
  /\ ch = <<>> /\ closed = FALSE /\ subDone = <<>>
  /\ events = <<>> /\ before = NoReading /\ after = NoReading

-----------------------------------------------------------------------------
(* The device. *)

Tick ==
  /\ now < MaxTime
  /\ now' = now + 1
  /\ UNCHANGED <<value, emitted, pc, sub, driver, chans, seen>>

Transition(v) ==
  /\ v # value /\ Len(emitted) < MaxEvents
  /\ value' = v
  /\ emitted' = Append(emitted, [seq |-> Len(emitted) + 1, at |-> now, val |-> v])
  /\ UNCHANGED <<now, pc, sub, driver, chans, seen>>

(* The defect the twin check looks for. *)
SilentChange(v) ==
  /\ MaySkip /\ v # value
  /\ value' = v
  /\ UNCHANGED <<now, emitted, pc, sub, driver, chans, seen>>

(* What Collect returns: observed-at is in whole units of Resolution. *)
Read == [at |-> now - (now % Resolution), val |-> value,
         seq |-> Len(emitted), time |-> now]

-----------------------------------------------------------------------------
(* main, up to the second reading. *)

CollectFirst ==
  /\ pc = "collect"
  /\ before' = Read /\ pc' = "subscribe"
  /\ UNCHANGED <<device, sub, driver, chans, events, after>>

(* Mistake: the first error is only printed, like the second. *)
CollectFirstErrorIgnored ==
  /\ MayFail /\ pc = "collect"
  /\ pc' = "subscribe"
  /\ UNCHANGED <<device, sub, driver, chans, seen>>

CollectFirstFails ==
  /\ MayFail /\ pc = "collect"
  /\ pc' = "error"
  /\ UNCHANGED <<device, sub, driver, chans, seen>>

(* Mistake: the driver also gets what was emitted before it subscribed. *)
SubscribeReplaying ==
  /\ pc = "subscribe"
  /\ pc' = "drain" /\ sub' = "send"
  /\ first' = 1 /\ next' = 1
  /\ UNCHANGED <<device, window, chans, seen>>

(* Start the goroutine: the driver gets what the device emits from now on. *)
Subscribe ==
  /\ pc = "subscribe"
  /\ pc' = "drain" /\ sub' = "send"
  /\ first' = Len(emitted) + 1 /\ next' = Len(emitted) + 1
  /\ UNCHANGED <<device, window, chans, seen>>

Receive ==
  /\ pc = "drain" /\ ch # <<>>
  /\ events' = Append(events, Head(ch)) /\ ch' = Tail(ch)
  /\ UNCHANGED <<device, pc, sub, driver, closed, subDone, before, after>>

(* Mistake: stop at the first moment the channel is empty. *)
StopWhenEmpty ==
  /\ pc = "drain" /\ ch = <<>>
  /\ pc' = "join" /\ window' = "closed"
  /\ UNCHANGED <<device, sub, first, next, chans, seen>>

(* The range over evCh ends when it is closed and empty; subCancel. *)
StopDraining ==
  /\ pc = "drain" /\ closed /\ ch = <<>>
  /\ pc' = "join" /\ window' = "closed"
  /\ UNCHANGED <<device, sub, first, next, chans, seen>>

Join ==
  /\ pc = "join" /\ subDone # <<>>
  /\ subDone' = Tail(subDone) /\ pc' = "recollect"
  /\ UNCHANGED <<device, sub, driver, ch, closed, seen>>

(* Mistake: the reading from before the window is used again. *)
ReuseFirstReading ==
  /\ pc = "recollect"
  /\ after' = before /\ pc' = "judge"
  /\ UNCHANGED <<device, sub, driver, chans, events, before>>

CollectAfter ==
  /\ pc = "recollect"
  /\ after' = Read /\ pc' = "judge"
  /\ UNCHANGED <<device, sub, driver, chans, events, before>>

CollectAfterFails ==
  /\ MayFail /\ pc = "recollect"
  /\ after' = NoReading /\ pc' = "judge"
  /\ UNCHANGED <<device, sub, driver, chans, events, before>>

-----------------------------------------------------------------------------
(* The goroutine: Subscribe's loop over the device's events, with its       *)
(* select on ctx.Done, then the report and the close.                       *)

Send ==
  /\ sub = "send" /\ next <= Len(emitted) /\ Len(ch) < Cap
  /\ ch' = Append(ch, emitted[next]) /\ next' = next + 1
  /\ UNCHANGED <<device, pc, sub, first, window, closed, subDone, seen>>

(* Done wins the select, or the loop is over and the window expires. *)
Return ==
  /\ sub = "send" /\ window = "closed"
  /\ sub' = "report"
  /\ UNCHANGED <<device, pc, driver, chans, seen>>

(* A driver may give up early; main prints the error and goes on. *)
ReturnError ==
  /\ MayFail /\ sub = "send"
  /\ sub' = "report"
  /\ UNCHANGED <<device, pc, driver, chans, seen>>

(* Mistake: subDone has no buffer, and main receives from it only later. *)
ReportUnbuffered ==
  /\ sub = "report" /\ pc = "join"
  /\ subDone' = Append(subDone, "result") /\ sub' = "close"
  /\ UNCHANGED <<device, pc, driver, ch, closed, seen>>

Report ==
  /\ sub = "report" /\ Len(subDone) < 1
  /\ subDone' = Append(subDone, "result") /\ sub' = "close"
  /\ UNCHANGED <<device, pc, driver, ch, closed, seen>>

Close ==
  /\ sub = "close"
  /\ closed' = TRUE /\ sub' = "done"
  /\ UNCHANGED <<device, pc, driver, ch, subDone, seen>>

(* The deadline of subCtx. *)
WindowCloses ==
  /\ sub # "none" /\ window = "open"
  /\ window' = "closed"
  /\ UNCHANGED <<device, pc, sub, first, next, chans, seen>>

-----------------------------------------------------------------------------
(* TestZoneOccupancyEvent_ChangedMirrorsLiveState, for the zone. *)

(* The reading judged: the one after the window if there is one. *)
Judged == IF after = NoReading THEN before ELSE after

(* Mistake: of two events at one instant, either will do. *)
NewerOrTied(e, f) == e.at >= f.at

(* newerChange: by occurred-at, then by sequence. *)
Newer(e, f) == e.at > f.at \/ (e.at = f.at /\ e.seq > f.seq)

(* Mistake: only events strictly before the reading. *)
CandidatesBefore(r) == {i \in 1..Len(events) : events[i].at < r.at}

(* The events the reading could have reflected. *)
Candidates(r) == {i \in 1..Len(events) : events[i].at <= r.at}

(* The latest event that was not newer than the reading says otherwise. *)
Mismatch(r) ==
  \E i \in Candidates(r) :
    /\ \A j \in Candidates(r) : i = j \/ Newer(events[i], events[j])
    /\ events[i].val # r.val

Judge ==
  /\ pc = "judge"
  /\ pc' = IF Mismatch(Judged) THEN "failed" ELSE "passed"
  /\ UNCHANGED <<device, sub, driver, chans, seen>>

Main == \/ CollectFirst \/ CollectFirstFails \/ Subscribe \/ Receive
        \/ StopDraining \/ Join \/ CollectAfter \/ CollectAfterFails \/ Judge

Goroutine == Send \/ Return \/ ReturnError \/ Report \/ Close

Device == Tick \/ \E v \in Value : (Transition(v) \/ SilentChange(v))

Next == Main \/ Goroutine \/ WindowCloses \/ Device

Spec == Init /\ [][Next]_vars

(* main and the goroutine are scheduled, the deadline passes, and a         *)
(* subscription that is not interrupted ends when its window does.          *)
FairSpec ==
  /\ Spec
  /\ WF_vars(Main) /\ WF_vars(WindowCloses)
  /\ WF_vars(Send \/ Return \/ Report \/ Close)

-----------------------------------------------------------------------------
(* Every variable has its type; nothing is judged without a first reading,  *)
(* and the channel never holds more than its capacity.                      *)
TypeOK ==
  /\ now \in Nat /\ value \in Value /\ emitted \in Seq(Event)
  /\ pc \in {"collect", "subscribe", "drain", "join", "recollect", "judge"}
           \cup Finished
  /\ sub \in {"none", "send", "report", "close", "done"}
  /\ first \in Nat \ {0} /\ next \in Nat \ {0} /\ window \in {"open", "closed"}
  /\ ch \in Seq(Event) /\ Len(ch) <= Cap
  /\ closed \in BOOLEAN /\ subDone \in Seq({"result"}) /\ Len(subDone) <= 1
  /\ events \in Seq(Event)
  /\ before \in Reading \cup {NoReading} /\ after \in Reading \cup {NoReading}
  /\ pc \notin {"collect", "error"} => before \in Reading

(* What the driver sent is what the checks see: once main has left the      *)
(* range loop, the events received are exactly those the driver took from   *)
(* the device, in its order, whatever the channel still held when the       *)
(* window closed.                                                           *)
DeliveredIsJudged ==
  pc \in {"join", "recollect", "judge", "passed", "failed"} =>
    events = SubSeq(emitted, first, next - 1)

(* main.go: the second snapshot "postdates those events": it reflects every *)
(* event received, and none of them is stamped after it was taken.          *)
SnapshotPostdatesEvents ==
  after # NoReading =>
    \A i \in 1..Len(events) :
      events[i].seq <= after.seq /\ events[i].at <= after.time

(* tests.go: "every event in Events postdates Device": no event received is *)
(* one that the first reading already reflects.                             *)
EventsPostdateDevice ==
  \A i \in 1..Len(events) : events[i].seq > before.seq

(* The device reported a value it never announced. *)
Unannounced(r) == r.seq > 0 /\ emitted[r.seq].val # r.val

Explained ==
  \/ Unannounced(Judged)
  \/ after # NoReading /\ next <= after.seq
  \/ after # NoReading /\ \E i \in 1..Len(events) : events[i].at > after.at
  \/ after = NoReading /\ \E i \in 1..Len(events) : events[i].at <= before.at

(* The twin check fails only for one of four reasons: the device changed    *)
(* without an event; a transition the reading reflects was never sent by    *)
(* the driver; the reading's clock is too coarse to place an event it       *)
(* reflects; or the second reading failed and the first one shares its      *)
(* clock unit with an event that followed it.                               *)
FailureExplained == pc = "failed" => Explained

(* A silent change after the last event is noticed when everything the      *)
(* second reading reflects was delivered and its clock can place it.        *)
SilentChangeNoticed ==
  LET lastEvent == events[Len(events)] IN
  /\ pc = "passed" /\ after # NoReading
  /\ events # <<>> /\ next > after.seq /\ lastEvent.at <= after.at
  => after.val = lastEvent.val

(* zone_occupancy.go: "A mismatch means the device changed state without    *)
(* emitting the transition."                                                *)
MismatchMeansSilent == pc = "failed" => Unannounced(Judged)

(* The harness always ends, and unless it gave up before subscribing, its   *)
(* goroutine ends with it: main never waits for a channel nobody will       *)
(* close, nor the goroutine for a receiver that is gone.                    *)
Termination == <>[](pc \in Finished /\ (pc = "error" \/ sub = "done"))
=============================================================================
