--------------------------- MODULE OrderWait_proofs ---------------------------
(* Theorems about OrderWait, for every bound, every quantity and both feeds. *)
EXTENDS OrderWait, TLAPS

-----------------------------------------------------------------------------
(* Types.                                                                  *)

\* The tracker has one slot, that of the call under way, and an Event is set only where
\* a fill has landed.
SlotInv ==
    /\ slots = IF call = "idle" THEN {} ELSE {cid}
    /\ call # "idle" => cid \in Cids
    /\ \A c \in Cids : (c \in woken => fills[c] # None) /\ (fills[c] # None => c \in slots)

TypeInv == OrderWaitTypeOK /\ SlotInv

LEMMA NoneIsNone ==
    /\ \A fill \in Fills : fill # None
    /\ \A result \in Outcomes : result # None
    /\ \A s \in Terminal : s # None
  BY NoneAssumption

LEMMA OutcomeType == NoOutcome \in Outcomes /\ Notice \in Events
  BY DEF NoOutcome, Outcomes, Notice, Events, Reached

\* What add makes of a fill is a fill.
LEMMA AddType ==
    ASSUME NEW fill \in Fills \cup {None}, NEW event \in Events
    PROVE  Add(fill, event) \in Fills
  BY NoneIsNone DEF Add, Fills, Events, Reached, Terminal

\* What submit_and_await makes of an answer and a fill is an outcome.
LEMMA MergeType ==
    ASSUME OrderWaitTypeOK, NEW fill \in Fills \cup {None}
    PROVE  Merge(fill) \in Outcomes
  BY DEF OrderWaitTypeOK, Merge, Fills, Outcomes, Terminal

LEMMA TypeInit == ASSUME OrderWaitInit PROVE TypeInv
<1> USE DEF OrderWaitInit
<1>1. /\ <<>> \in Seq(Events) /\ Len(<<>>) = 0
      /\ 0 \in 0 .. Requested /\ 0 \in 0 .. NOrders /\ 0 \in 0 .. MaxBreaks
      /\ 0 <= MaxPushes
  BY OrderWaitAssumption
<1>2. OrderWaitTypeOK
  BY <1>1, OutcomeType DEF OrderWaitTypeOK
<1>3. SlotInv
  BY DEF SlotInv
<1> QED BY <1>2, <1>3 DEF TypeInv

\* An event more on its way.
LEMMA Pushed ==
    ASSUME NEW s \in Seq(Events), Len(s) < MaxPushes, NEW event \in Events
    PROVE  Append(s, event) \in Seq(Events) /\ Len(Append(s, event)) <= MaxPushes
<1>1. Append(s, event) \in Seq(Events)
  OBVIOUS
<1>2. Len(s) \in Nat /\ Len(Append(s, event)) = Len(s) + 1
  OBVIOUS
<1> HIDE DEF Events
<1> QED BY <1>1, <1>2, OrderWaitAssumption

\* A push keeps the stream's types.
LEMMA PushType ==
    ASSUME OrderWaitTypeOK, NEW c \in Cids, NEW event \in Events, Push(c, event)
    PROVE  /\ pushes' \in Seq(Events) /\ Len(pushes') <= MaxPushes
           /\ link' \in {"up", "down"} /\ listen_key' \in {"fresh", "expired"}
           /\ breaks' \in 0 .. MaxBreaks
           /\ lost' \subseteq Cids /\ deaf' \in BOOLEAN
<1> USE DEF OrderWaitTypeOK, Push
<1>1. CASE link = "up" /\ listen_key = "fresh"
  BY <1>1, Pushed
<1>2. CASE ~ (link = "up" /\ listen_key = "fresh")
  BY <1>2
<1> QED BY <1>1, <1>2

LEMMA VenueType ==
    ASSUME TypeInv,
           NEW c \in Cids, VenueReceives(c) \/ VenueFills(c) \/ VenueCancels(c)
    PROVE  TypeInv'
<1> USE DEF TypeInv, OrderWaitTypeOK, SlotInv
<1>1. CASE VenueReceives(c)
  BY <1>1 DEF VenueReceives, streamVars, trackerVars, callVars, Reached
<1>2. CASE VenueFills(c)
  <2>1. PICK qty \in 1 .. Requested - done[c] :
            /\ done' = [done EXCEPT ![c] = @ + qty]
            /\ state' = [state EXCEPT ![c] = IF done'[c] = Requested THEN "filled" ELSE @]
            /\ Push(c, [cid |-> c, status |-> state'[c],
                        qty |-> IF feed = "delta" THEN qty ELSE done'[c]])
    BY <1>2 DEF VenueFills
  <2>2. /\ state' \in [Cids -> {"none", "sent", "rejected"} \cup Reached]
        /\ state'[c] \in Reached
        /\ done' \in [Cids -> 0 .. Requested]
    BY <1>2, <2>1, OrderWaitAssumption DEF VenueFills, Reached
  <2>3. [cid |-> c, status |-> state'[c],
         qty |-> IF feed = "delta" THEN qty ELSE done'[c]] \in Events
    BY <2>2, OrderWaitAssumption DEF Events
  <2> QED
    BY <1>2, <2>1, <2>2, <2>3, PushType DEF VenueFills, trackerVars, callVars
<1>3. CASE VenueCancels(c)
  <2>1. [cid |-> c, status |-> "canceled",
         qty |-> IF feed = "delta" THEN 0 ELSE done[c]] \in Events
    BY OrderWaitAssumption DEF Events, Reached
  <2> QED
    BY <1>3, <2>1, PushType DEF VenueCancels, trackerVars, callVars, Reached
<1> QED BY <1>1, <1>2, <1>3

\* The call returns a result: its slot goes.
LEMMA ReturnType ==
    ASSUME TypeInv, NEW result \in Outcomes, Return(result), call # "idle",
           untold' \subseteq Cids, UNCHANGED <<feed, state, done, streamVars>>
    PROVE  TypeInv'
  BY OutcomeType DEF TypeInv, OrderWaitTypeOK, SlotInv, Return, Release, streamVars

LEMMA CallType ==
    ASSUME TypeInv,
           \/ VenueAnswers \/ SubmitAndAwait \/ PlaceReturns \/ PostTimesOut \/ PlaceFails
           \/ Wake \/ WaitTimesOut
    PROVE  TypeInv'
<1> USE DEF TypeInv, OrderWaitTypeOK, SlotInv
<1>1. CASE VenueAnswers
  <2>1. PICK filled \in IF feed = "delta" THEN {0, done[cid]} ELSE {0} :
          answer' = [NoOutcome EXCEPT
                        !.success = state[cid] # "rejected" \/ call = "querying",
                        !.status = IF state[cid] = "rejected" /\ call = "placing" THEN None
                                   ELSE IF feed = "delta" THEN state[cid] ELSE "open",
                        !.filled = filled]
    BY <1>1 DEF VenueAnswers
  <2>2. cid \in Cids /\ filled \in Nat /\ state[cid] \in Reached \cup {"rejected"}
    <3>1. cid \in Cids /\ state[cid] \in Reached \cup {"rejected"}
      BY <1>1 DEF VenueAnswers
    <3>2. done[cid] \in Nat
      BY <3>1, OrderWaitAssumption
    <3> QED BY <2>1, <3>1, <3>2
  <2>3. answer' \in Outcomes
    BY <2>1, <2>2 DEF NoOutcome, Outcomes, Terminal, Reached
  <2> QED
    BY <1>1, <2>3 DEF VenueAnswers, streamVars, trackerVars, callVars
<1>2. CASE SubmitAndAwait
  BY <1>2, OrderWaitAssumption DEF SubmitAndAwait, streamVars, Cids
<1>3. CASE PlaceReturns
  <2>1. answer \in Outcomes
    BY <1>3 DEF PlaceReturns
  <2>2. CASE answer.success
    BY <1>3, <2>1, <2>2 DEF PlaceReturns, streamVars, trackerVars
  <2>3. CASE ~answer.success
    BY <1>3, <2>3, ReturnType, OutcomeType DEF PlaceReturns
  <2> QED BY <2>2, <2>3
<1>4. CASE PostTimesOut
  BY <1>4 DEF PostTimesOut, streamVars, trackerVars
<1>5. CASE PlaceFails
  BY <1>5, ReturnType, OutcomeType DEF PlaceFails
<1>6. ASSUME NEW ended \in {"unplaced", "complete", "timeout"}, Finish(ended)
      PROVE  TypeInv'
  <2>1. fills[cid] \in Fills \cup {None} /\ cid \in Cids
    BY <1>6 DEF Finish
  <2>2. Merge(fills[cid]) \in Outcomes
    BY <2>1, MergeType
  <2>3. [Merge(fills[cid]) EXCEPT !.ended = ended] \in Outcomes
    BY <2>2 DEF Outcomes
  <2> QED BY <1>6, <2>3, ReturnType DEF Finish
<1>7. CASE Wake
  <2>1. CASE Complete(fills[cid])
    BY <1>6, <1>7, <2>1 DEF Wake
  <2>2. CASE ~Complete(fills[cid])
    BY <1>7, <2>2 DEF Wake, venueVars, streamVars, callVars
  <2> QED BY <2>1, <2>2
<1>8. CASE WaitTimesOut
  BY <1>6, <1>8 DEF WaitTimesOut
<1> QED BY <1>1, <1>2, <1>3, <1>4, <1>5, <1>7, <1>8

LEMMA StreamType ==
    ASSUME TypeInv, DeliverEvent \/ Rotate \/ KeyExpires \/ StreamBreaks \/ StreamReconnects
    PROVE  TypeInv'
<1> USE DEF TypeInv, OrderWaitTypeOK, SlotInv
<1>0. ASSUME pushes # <<>>
      PROVE  /\ Tail(pushes) \in Seq(Events) /\ Len(Tail(pushes)) <= MaxPushes
             /\ Head(pushes) \in Events
  BY <1>0, OrderWaitAssumption
<1>1. CASE DeliverEvent
  <2>1. CASE UNCHANGED trackerVars
    BY <1>0, <1>1, <2>1 DEF DeliverEvent, trackerVars, venueVars, callVars
  <2>2. CASE OnEvent(Head(pushes)) /\ Head(pushes).cid \in slots
    <3>1. Add(fills[Head(pushes).cid], Head(pushes)) \in Fills
      BY <1>0, <1>1, <2>2, AddType DEF DeliverEvent
    <3> QED
      <4> DEFINE c == Head(pushes).cid
                 new == Add(fills[c], Head(pushes))
      <4>1. /\ pushes' = Tail(pushes) /\ slots' = slots /\ c \in slots /\ c \in Cids
            /\ fills' = [fills EXCEPT ![c] = new]
            /\ woken' = woken \cup {c}
            /\ UNCHANGED <<feed, venueVars, link, listen_key, breaks, lost, deaf, callVars>>
        BY <1>1, <2>2 DEF DeliverEvent, OnEvent
      <4>2. new \in Fills /\ new # None
        BY <3>1, NoneIsNone
      <4>3. fills' \in [Cids -> Fills \cup {None}] /\ fills'[c] # None
            /\ \A d \in Cids : d # c => fills'[d] = fills[d]
        BY <4>1, <4>2
      <4> HIDE DEF new, c
      <4> QED BY <1>0, <1>1, <4>1, <4>3 DEF DeliverEvent, venueVars, callVars
  <2> QED BY <1>1, <2>1, <2>2 DEF DeliverEvent, OnEvent
<1>2. CASE Rotate
  <2>1. pushes' \in Seq(Events) /\ Len(pushes') <= MaxPushes /\ lost' \subseteq Cids
    BY <1>2, OrderWaitAssumption DEF Rotate, Drop
  <2> QED BY <1>2, <2>1 DEF Rotate, Drop, venueVars, trackerVars, callVars
<1>3. CASE KeyExpires
  <2>2. pushes' \in Seq(Events) /\ Len(pushes') <= MaxPushes
    BY <1>3, Pushed, OutcomeType DEF KeyExpires
  <2> QED BY <1>3, <2>2 DEF KeyExpires, venueVars, trackerVars, callVars
<1>4. CASE StreamBreaks
  BY <1>4, OrderWaitAssumption DEF StreamBreaks, Drop, venueVars, trackerVars, callVars
<1>5. CASE StreamReconnects
  <2>1. pushes' \in Seq(Events) /\ Len(pushes') <= MaxPushes
    <3>1. CASE pushes' = <<>>
      BY <3>1, OrderWaitAssumption
    <3>2. ASSUME NEW c \in Cids, state[c] \in Reached,
                 pushes' = <<[cid |-> c, qty |-> done[c], status |-> state[c]]>>
          PROVE  pushes' \in Seq(Events) /\ Len(pushes') <= MaxPushes
      <4>1. [cid |-> c, qty |-> done[c], status |-> state[c]] \in Events
        BY <3>2, OrderWaitAssumption DEF Events
      <4> QED BY <3>2, <4>1, OrderWaitAssumption
    <3> QED BY <1>5, <3>1, <3>2 DEF StreamReconnects
  <2> QED BY <1>5, <2>1 DEF StreamReconnects, venueVars, trackerVars, callVars
<1> QED BY <1>1, <1>2, <1>3, <1>4, <1>5

LEMMA TypeInvariant == OrderWaitSpec => []TypeInv
<1>1. OrderWaitInit => TypeInv
  BY TypeInit
<1>2. TypeInv /\ [OrderWaitNext]_waitVars => TypeInv'
  <2>1. ASSUME TypeInv, OrderWaitNext PROVE TypeInv'
    BY <2>1, VenueType, CallType, StreamType DEF OrderWaitNext
  <2>2. ASSUME TypeInv, UNCHANGED waitVars PROVE TypeInv'
    BY <2>2 DEF TypeInv, OrderWaitTypeOK, SlotInv, waitVars, venueVars, streamVars,
                trackerVars, callVars
  <2> QED BY <2>1, <2>2
<1> QED BY <1>1, <1>2, PTL DEF OrderWaitSpec

\* Every variable keeps its type.
THEOREM WaitTypesHold == OrderWaitSpec => []OrderWaitTypeOK
<1>1. TypeInv => OrderWaitTypeOK
  BY DEF TypeInv
<1> QED BY <1>1, TypeInvariant, PTL
-----------------------------------------------------------------------------
(* The Event.                                                              *)

\* Whatever has landed and was not looked at has set its Event.
WakeInv == \A c \in Cids : c \notin woken /\ fills[c] # None => ~Complete(fills[c])

\* The tracker is only touched by the call and by an event.
LEMMA TrackerKept ==
    ASSUME OrderWaitNext
    PROVE  \/ UNCHANGED <<woken, fills>>
           \/ fills' = [fills EXCEPT ![cid] = None]
              /\ woken' = woken \ {cid} /\ slots' = slots \ {cid}
           \/ ~Complete(fills[cid]) /\ woken' = woken \ {cid} /\ UNCHANGED fills
           \/ /\ pushes # <<>> /\ Head(pushes).cid \in slots /\ pushes' = Tail(pushes)
              /\ fills' = [fills EXCEPT ![Head(pushes).cid] = Add(@, Head(pushes))]
              /\ woken' = woken \cup {Head(pushes).cid}
<1>1. ASSUME NEW c \in Cids, VenueReceives(c) \/ VenueFills(c) \/ VenueCancels(c)
      PROVE  UNCHANGED <<woken, fills>>
  BY <1>1 DEF VenueReceives, VenueFills, VenueCancels, trackerVars
<1>2. CASE VenueAnswers \/ SubmitAndAwait \/ PostTimesOut
  BY <1>2 DEF VenueAnswers, SubmitAndAwait, PostTimesOut, trackerVars
<1>3. CASE PlaceReturns \/ PlaceFails
  BY <1>3 DEF PlaceReturns, PlaceFails, Return, Release, trackerVars
<1>4. CASE Wake \/ WaitTimesOut
  BY <1>4 DEF Wake, WaitTimesOut, Finish, Return, Release
<1>5. CASE DeliverEvent
  BY <1>5 DEF DeliverEvent, OnEvent, trackerVars
<1>6. CASE Rotate \/ KeyExpires \/ StreamBreaks \/ StreamReconnects
  BY <1>6 DEF Rotate, KeyExpires, StreamBreaks, StreamReconnects, trackerVars
<1> QED BY <1>1, <1>2, <1>3, <1>4, <1>5, <1>6 DEF OrderWaitNext

LEMMA WakeInvariant == OrderWaitSpec => []WakeInv
<1>1. OrderWaitInit => WakeInv
  BY DEF OrderWaitInit, WakeInv
<1>2. TypeInv /\ WakeInv /\ [OrderWaitNext]_waitVars => WakeInv'
  <2> SUFFICES ASSUME TypeInv, WakeInv, [OrderWaitNext]_waitVars,
                      NEW c \in Cids, c \notin woken', fills'[c] # None
               PROVE  ~Complete(fills'[c])
    BY DEF WakeInv, Complete
  <2> USE DEF WakeInv
  <2>0. fills \in [Cids -> Fills \cup {None}]
    BY DEF TypeInv, OrderWaitTypeOK
  <2>1. CASE UNCHANGED <<woken, fills>>
    BY <2>1
  <2>2. CASE fills' = [fills EXCEPT ![cid] = None] /\ woken' = woken \ {cid}
    BY <2>0, <2>2
  <2>3. CASE ~Complete(fills[cid]) /\ woken' = woken \ {cid} /\ UNCHANGED fills
    BY <2>3
  <2>4. CASE /\ fills' = [fills EXCEPT ![Head(pushes).cid] = Add(@, Head(pushes))]
             /\ woken' = woken \cup {Head(pushes).cid}
    BY <2>0, <2>4
  <2>5. CASE UNCHANGED waitVars
    BY <2>5 DEF waitVars, trackerVars
  <2> QED BY <2>1, <2>2, <2>3, <2>4, <2>5, TrackerKept
<1> QED BY <1>1, <1>2, TypeInvariant, PTL DEF OrderWaitSpec

\* await_terminal and on_event: no fill that completes an order lands without waking
\* the call that waits for it.
THEOREM NoWakeupLost == OrderWaitSpec => []NoLostWakeup
<1>1. TypeInv /\ WakeInv => NoLostWakeup
  BY DEF TypeInv, SlotInv, WakeInv, NoLostWakeup
<1> QED BY <1>1, TypeInvariant, WakeInvariant, PTL

-----------------------------------------------------------------------------
(* What is said of an order's status.                                      *)

Unfilled == {"none", "sent", "rejected"}

\* An order that was not placed is not at the venue, and only one that the engine took
\* executes.
VenueInv ==
    \A c \in Cids :
        /\ c > cid => state[c] = "none"
        /\ state[c] \in Unfilled => done[c] = 0

LEMMA VenueStep == ASSUME TypeInv, VenueInv, OrderWaitNext PROVE VenueInv'
<1> USE DEF VenueInv
<1>0. /\ state \in [Cids -> {"none", "sent", "rejected"} \cup Reached]
      /\ done \in [Cids -> 0 .. Requested] /\ cid \in 0 .. NOrders
  BY DEF TypeInv, OrderWaitTypeOK
<1>1. ASSUME NEW c \in Cids, VenueReceives(c) PROVE VenueInv'
  BY <1>0, <1>1 DEF VenueReceives, callVars, Unfilled
<1>2. ASSUME NEW c \in Cids, VenueFills(c) PROVE VenueInv'
  <2>1. /\ \A d \in Cids : d # c => state'[d] = state[d] /\ done'[d] = done[d]
        /\ state'[c] \in {"open", "filled"} /\ state[c] = "open" /\ cid' = cid
    BY <1>0, <1>2 DEF VenueFills, callVars
  <2> QED BY <1>0, <2>1 DEF Unfilled
<1>3. ASSUME NEW c \in Cids, VenueCancels(c) PROVE VenueInv'
  BY <1>0, <1>3 DEF VenueCancels, callVars, Unfilled
<1>4. CASE SubmitAndAwait
  BY <1>0, <1>4 DEF SubmitAndAwait, Unfilled, Cids
<1>5. CASE UNCHANGED <<state, done, cid>>
  BY <1>5
<1>6. CASE \/ VenueAnswers \/ PlaceReturns \/ PostTimesOut \/ PlaceFails \/ Wake
           \/ WaitTimesOut
  BY <1>5, <1>6 DEF VenueAnswers, PlaceReturns, PostTimesOut, PlaceFails, Wake, WaitTimesOut,
                    Finish, Return, venueVars, callVars
<1>7. CASE DeliverEvent \/ Rotate \/ KeyExpires \/ StreamBreaks \/ StreamReconnects
  BY <1>5, <1>7 DEF DeliverEvent, Rotate, KeyExpires, StreamBreaks, StreamReconnects,
                    venueVars, callVars
<1> QED BY <1>1, <1>2, <1>3, <1>4, <1>6, <1>7 DEF OrderWaitNext

\* What the venue has settled stays, executed quantities only grow, and a lost push
\* stays lost.
LEMMA Settled ==
    ASSUME TypeInv, VenueInv, OrderWaitNext
    PROVE  /\ \A c \in Cids : state[c] \in Terminal => state'[c] = state[c] /\ done'[c] = done[c]
           /\ \A c \in Cids : done[c] <= done'[c]
           /\ \A c \in Cids : done[c] = Requested => done'[c] = done[c]
           /\ lost \subseteq lost'
           /\ feed' = feed
<1>0. /\ state \in [Cids -> {"none", "sent", "rejected"} \cup Reached]
      /\ done \in [Cids -> 0 .. Requested] /\ cid \in 0 .. NOrders
      /\ \A c \in Cids : done[c] \in Int
  BY OrderWaitAssumption DEF TypeInv, OrderWaitTypeOK
<1>1. ASSUME NEW c \in Cids, VenueReceives(c) \/ VenueCancels(c)
      PROVE  /\ state[c] \notin Terminal /\ feed' = feed /\ done' = done /\ lost \subseteq lost'
             /\ \A d \in Cids : d # c => state'[d] = state[d]
  BY <1>0, <1>1 DEF VenueReceives, VenueCancels, Push, streamVars, Terminal
<1>2. ASSUME NEW c \in Cids, VenueFills(c)
      PROVE  /\ state[c] \notin Terminal /\ feed' = feed /\ lost \subseteq lost'
             /\ done[c] < done'[c] /\ done[c] # Requested
             /\ \A d \in Cids : d # c => state'[d] = state[d] /\ done'[d] = done[d]
  BY <1>0, <1>2, OrderWaitAssumption DEF VenueFills, Push, Terminal
<1>3. CASE SubmitAndAwait
  BY <1>0, <1>3 DEF SubmitAndAwait, streamVars, VenueInv, Terminal, Cids
<1>4. CASE UNCHANGED <<state, done, feed>> /\ lost \subseteq lost'
  BY <1>0, <1>4
<1>5. CASE \/ VenueAnswers \/ PlaceReturns \/ PostTimesOut \/ PlaceFails \/ Wake
           \/ WaitTimesOut
  BY <1>4, <1>5 DEF VenueAnswers, PlaceReturns, PostTimesOut, PlaceFails, Wake, WaitTimesOut,
                    Finish, streamVars, venueVars
<1>6. CASE DeliverEvent \/ Rotate \/ KeyExpires \/ StreamBreaks \/ StreamReconnects
  BY <1>4, <1>6 DEF DeliverEvent, Rotate, KeyExpires, StreamBreaks, StreamReconnects, Drop,
                    venueVars
<1>7. CASE \E c \in Cids : VenueReceives(c) \/ VenueCancels(c)
  <2>1. PICK c \in Cids : VenueReceives(c) \/ VenueCancels(c)
    BY <1>7
  <2> QED BY <1>0, <1>1, <2>1
<1>8. CASE \E c \in Cids : VenueFills(c)
  <2>1. PICK c \in Cids : VenueFills(c)
    BY <1>8
  <2>2. /\ state[c] \notin Terminal /\ feed' = feed /\ lost \subseteq lost'
        /\ done[c] <= done'[c] /\ done[c] # Requested
        /\ \A d \in Cids : d # c => state'[d] = state[d] /\ done'[d] = done[d]
    <3>1. done'[c] \in Int
      BY <1>0, <2>1, OrderWaitAssumption DEF VenueFills
    <3> QED BY <1>0, <1>2, <2>1, <3>1
  <2> QED BY <1>0, <2>2
<1> QED BY <1>3, <1>5, <1>6, <1>7, <1>8 DEF OrderWaitNext
\* A terminal status is the order's state.
Says(c, status) == status \in Terminal => state[c] = status

PushSays ==
    \A i \in 1 .. Len(pushes) :
        pushes[i].cid \in Cids => Says(pushes[i].cid, pushes[i].status)
FillSays == \A c \in Cids : fills[c] # None => Says(c, fills[c].last_status)
AnswerSays ==
    call # "idle" /\ answer # None =>
        Says(cid, answer.status) /\ (~answer.success => state[cid] = "rejected")
OutcomeSays == call = "waiting" => Says(cid, outcome.status) /\ outcome.success
ReportSays ==
    \A c \in Cids : report[c] # None =>
        /\ Says(c, report[c].status)
        /\ ~report[c].success /\ c \notin untold => state[c] = "rejected"

StatusInv == VenueInv /\ PushSays /\ FillSays /\ AnswerSays /\ OutcomeSays /\ ReportSays

\* Which events join the stream: of a fill, of a cancellation, the notice, and after a
\* reconnect the state of one order.
Told(event) ==
    event.cid \in Cids =>
        /\ event.status = state'[event.cid]
        /\ event.qty <= done'[event.cid]
        /\ feed = "snapshot" => event.qty = done'[event.cid]

LEMMA PushesKept ==
    ASSUME TypeInv, OrderWaitNext
    PROVE  \/ pushes' = pushes
           \/ pushes # <<>> /\ pushes' = Tail(pushes)
           \/ pushes' = <<>>
           \/ \E event \in Events :
                 /\ Told(event)
                 /\ \/ /\ event.cid \in Cids => state[event.cid] = "open"
                       /\ pushes' = Append(pushes, event)
                    \/ feed = "snapshot" /\ pushes' = <<event>>
<1>0. /\ state \in [Cids -> {"none", "sent", "rejected"} \cup Reached]
      /\ done \in [Cids -> 0 .. Requested] /\ cid \in 0 .. NOrders
      /\ feed \in {"delta", "snapshot"}
      /\ \A c \in Cids : done[c] \in Nat
  BY OrderWaitAssumption DEF TypeInv, OrderWaitTypeOK
<1>1. ASSUME NEW c \in Cids, VenueFills(c)
      PROVE  pushes' = pushes \/ \E event \in Events :
                                    /\ Told(event)
                                    /\ event.cid \in Cids => state[event.cid] = "open"
                                    /\ pushes' = Append(pushes, event)
  <2>1. PICK qty \in 1 .. Requested - done[c] :
            /\ done' = [done EXCEPT ![c] = @ + qty]
            /\ state' = [state EXCEPT ![c] = IF done'[c] = Requested THEN "filled" ELSE @]
            /\ Push(c, [cid |-> c, status |-> state'[c],
                        qty |-> IF feed = "delta" THEN qty ELSE done'[c]])
    BY <1>1 DEF VenueFills
  <2> DEFINE event == [cid |-> c, status |-> state'[c],
                       qty |-> IF feed = "delta" THEN qty ELSE done'[c]]
  <2>2. /\ state'[c] \in Reached /\ done'[c] = done[c] + qty
        /\ qty \in Nat /\ done[c] \in Nat /\ done'[c] \in Nat
    BY <1>0, <1>1, <2>1, OrderWaitAssumption DEF VenueFills, Reached
  <2>3. event \in Events
    BY <2>2 DEF Events
  <2>4. Told(event)
    BY <1>0, <2>2 DEF Told
  <2>5. pushes' = pushes \/ pushes' = Append(pushes, event)
    BY <2>1 DEF Push
  <2> QED BY <1>1, <2>3, <2>4, <2>5 DEF VenueFills
<1>2. ASSUME NEW c \in Cids, VenueCancels(c)
      PROVE  pushes' = pushes \/ \E event \in Events :
                                    /\ Told(event)
                                    /\ event.cid \in Cids => state[event.cid] = "open"
                                    /\ pushes' = Append(pushes, event)
  <2> DEFINE event == [cid |-> c, status |-> "canceled",
                       qty |-> IF feed = "delta" THEN 0 ELSE done[c]]
  <2>1. state'[c] = "canceled" /\ done' = done /\ Push(c, event)
    BY <1>0, <1>2 DEF VenueCancels
  <2>2. event \in Events
    BY <1>0 DEF Events, Reached
  <2>3. Told(event)
    BY <1>0, <2>1 DEF Told
  <2>4. pushes' = pushes \/ pushes' = Append(pushes, event)
    BY <2>1 DEF Push
  <2> QED BY <1>2, <2>2, <2>3, <2>4 DEF VenueCancels
<1>3. CASE KeyExpires
  <2>1. Told(Notice) /\ Notice \in Events /\ Notice.cid \notin Cids
    BY OutcomeType DEF Told, Notice, Cids
  <2> QED BY <1>3, <2>1 DEF KeyExpires
<1>4. CASE StreamReconnects
  <2>1. ASSUME NEW c \in Cids, state[c] \in Reached
        PROVE  /\ [cid |-> c, qty |-> done[c], status |-> state[c]] \in Events
               /\ Told([cid |-> c, qty |-> done[c], status |-> state[c]])
    BY <1>0, <1>4, <2>1 DEF Told, Events, StreamReconnects, venueVars
  <2> QED BY <1>4, <2>1 DEF StreamReconnects
<1>5. CASE DeliverEvent \/ Rotate \/ StreamBreaks
  BY <1>5 DEF DeliverEvent, Rotate, StreamBreaks, Drop
<1>6. CASE \/ VenueAnswers \/ SubmitAndAwait \/ PlaceReturns \/ PostTimesOut \/ PlaceFails
           \/ Wake \/ WaitTimesOut
  BY <1>6 DEF VenueAnswers, SubmitAndAwait, PlaceReturns, PostTimesOut, PlaceFails, Wake,
              WaitTimesOut, Finish, streamVars
<1>7. ASSUME NEW c \in Cids, VenueReceives(c) PROVE pushes' = pushes
  BY <1>7 DEF VenueReceives, streamVars
<1> QED BY <1>1, <1>2, <1>3, <1>4, <1>5, <1>6, <1>7 DEF OrderWaitNext

LEMMA PushSaysStep ==
    ASSUME TypeInv, StatusInv, OrderWaitNext PROVE PushSays'
<1> SUFFICES ASSUME NEW i \in 1 .. Len(pushes'), pushes'[i].cid \in Cids,
                    pushes'[i].status \in Terminal
             PROVE  state'[pushes'[i].cid] = pushes'[i].status
  BY DEF PushSays, Says
<1>0. pushes \in Seq(Events)
  BY DEF TypeInv, OrderWaitTypeOK
<1>1. ASSUME NEW j \in 1 .. Len(pushes), pushes'[i] = pushes[j]
      PROVE  state'[pushes'[i].cid] = pushes'[i].status
  BY <1>1, Settled DEF StatusInv, PushSays, Says
<1>2. CASE pushes' = pushes
  BY <1>1, <1>2
<1>3. CASE pushes # <<>> /\ pushes' = Tail(pushes)
  <2>1. i + 1 \in 1 .. Len(pushes) /\ pushes'[i] = pushes[i + 1]
    BY <1>0, <1>3
  <2> QED BY <1>1, <2>1
<1>4. CASE pushes' = <<>>
  BY <1>4
<1>5. ASSUME NEW event \in Events, Told(event), pushes' = Append(pushes, event)
      PROVE  state'[pushes'[i].cid] = pushes'[i].status
  <2>1. (i \in 1 .. Len(pushes) /\ pushes'[i] = pushes[i]) \/ pushes'[i] = event
    BY <1>0, <1>5
  <2> QED BY <1>1, <1>5, <2>1 DEF Told
<1>6. ASSUME NEW event \in Events, Told(event), pushes' = <<event>>
      PROVE  state'[pushes'[i].cid] = pushes'[i].status
  BY <1>6 DEF Told
<1> QED BY <1>2, <1>3, <1>4, <1>5, <1>6, PushesKept

\* What Add remembers of the status comes from the event or from before.
LEMMA FillSaysStep ==
    ASSUME TypeInv, StatusInv, OrderWaitNext PROVE FillSays'
<1> SUFFICES ASSUME NEW c \in Cids, fills'[c] # None, fills'[c].last_status \in Terminal
             PROVE  state'[c] = fills'[c].last_status
  BY DEF FillSays, Says
<1>0. fills \in [Cids -> Fills \cup {None}] /\ pushes \in Seq(Events) /\ slots \subseteq Cids
  BY DEF TypeInv, OrderWaitTypeOK
<1>1. CASE fills'[c] = fills[c]
  BY <1>1, Settled DEF StatusInv, FillSays, Says
<1>2. CASE fills' = [fills EXCEPT ![cid] = None]
  BY <1>0, <1>1, <1>2
<1>3. CASE /\ pushes # <<>> /\ Head(pushes).cid \in slots
           /\ fills' = [fills EXCEPT ![Head(pushes).cid] = Add(@, Head(pushes))]
  <2>1. CASE c # Head(pushes).cid
    BY <1>0, <1>1, <1>3, <2>1
  <2>2. CASE c = Head(pushes).cid
    <3>1. 1 \in 1 .. Len(pushes) /\ Head(pushes) = pushes[1]
      BY <1>0, <1>3
    <3>2. fills'[c] = Add(fills[c], pushes[1])
      BY <1>0, <1>3, <2>2, <3>1
    <3>3. \/ fills'[c].last_status = pushes[1].status
          \/ fills[c] # None /\ fills'[c].last_status = fills[c].last_status
      BY <3>2, NoneIsNone DEF Add
    <3> QED BY <2>2, <3>1, <3>3, Settled DEF StatusInv, PushSays, FillSays, Says
  <2> QED BY <2>1, <2>2
<1> QED BY <1>1, <1>2, <1>3, TrackerKept

\* How a call ends: with an outcome that failed, or with the merge.
LEMMA ReportKept ==
    ASSUME TypeInv, StatusInv, OrderWaitNext
    PROVE  \/ report' = report
           \/ /\ cid \in Cids
              /\ \/ /\ report' = [report EXCEPT ![cid] = NoOutcome]
                    /\ state'[cid] = "rejected" \/ cid \in untold'
                 \/ /\ call = "waiting" /\ UNCHANGED <<state, done>>
                    /\ \E ended \in {"complete", "timeout"} :
                          /\ report' = [report EXCEPT ![cid] =
                                           [Merge(fills[cid]) EXCEPT !.ended = ended]]
                          /\ ended = "complete" =>
                                cid \in woken /\ Complete(fills[cid])
<1>0. call # "idle" => cid \in Cids
  BY DEF TypeInv, SlotInv
<1>1. CASE PlaceReturns
  BY <1>0, <1>1 DEF PlaceReturns, Return, StatusInv, AnswerSays
<1>2. CASE PlaceFails
  BY <1>0, <1>2 DEF PlaceFails, Return
<1>3. CASE Wake \/ WaitTimesOut
  BY <1>0, <1>3 DEF Wake, WaitTimesOut, Finish, Return, callVars
<1>4. ASSUME NEW c \in Cids, VenueReceives(c) \/ VenueFills(c) \/ VenueCancels(c)
      PROVE  report' = report
  BY <1>4 DEF VenueReceives, VenueFills, VenueCancels, callVars
<1>5. CASE VenueAnswers \/ SubmitAndAwait \/ PostTimesOut
  BY <1>5 DEF VenueAnswers, SubmitAndAwait, PostTimesOut, callVars
<1>6. CASE DeliverEvent \/ Rotate \/ KeyExpires \/ StreamBreaks \/ StreamReconnects
  BY <1>6 DEF DeliverEvent, Rotate, KeyExpires, StreamBreaks, StreamReconnects, callVars
<1> QED BY <1>1, <1>2, <1>3, <1>4, <1>5, <1>6 DEF OrderWaitNext

LEMMA ReportSaysStep ==
    ASSUME TypeInv, StatusInv, OrderWaitNext PROVE ReportSays'
<1> SUFFICES ASSUME NEW c \in Cids, report'[c] # None
             PROVE  /\ report'[c].status \in Terminal => state'[c] = report'[c].status
                    /\ ~report'[c].success /\ c \notin untold' => state'[c] = "rejected"
  BY DEF ReportSays, Says
<1>0. report \in [Cids -> Outcomes \cup {None}] /\ untold \subseteq untold'
      /\ "rejected" \in Terminal
  <2>1. \A d \in Cids : VenueReceives(d) \/ VenueFills(d) \/ VenueCancels(d)
                            => untold' = untold
    BY DEF VenueReceives, VenueFills, VenueCancels, callVars
  <2>2. untold \subseteq untold'
    BY <2>1 DEF OrderWaitNext, VenueAnswers, SubmitAndAwait, PlaceReturns, PostTimesOut,
                PlaceFails, Wake, WaitTimesOut, Finish, DeliverEvent, Rotate, KeyExpires,
                StreamBreaks, StreamReconnects, callVars
  <2> QED BY <2>2 DEF TypeInv, OrderWaitTypeOK, Terminal
<1>1. CASE report'[c] = report[c]
  BY <1>0, <1>1, Settled DEF StatusInv, ReportSays, Says
<1>2. CASE /\ cid \in Cids /\ report' = [report EXCEPT ![cid] = NoOutcome]
           /\ state'[cid] = "rejected" \/ cid \in untold'
  <2>1. NoOutcome.status \notin Terminal
    BY NoneIsNone DEF NoOutcome
  <2> QED BY <1>0, <1>1, <1>2, <2>1
<1>3. ASSUME cid \in Cids, call = "waiting", UNCHANGED <<state, done>>,
             NEW ended \in {"complete", "timeout"},
             report' = [report EXCEPT ![cid] = [Merge(fills[cid]) EXCEPT !.ended = ended]]
      PROVE  /\ report'[c].status \in Terminal => state'[c] = report'[c].status
             /\ ~report'[c].success /\ c \notin untold' => state'[c] = "rejected"
  <2>1. CASE c # cid
    BY <1>0, <1>1, <1>3, <2>1
  <2>2. CASE c = cid
    <3>1. fills[c] \in Fills \cup {None} /\ outcome \in Outcomes
      BY DEF TypeInv, OrderWaitTypeOK
    <3>2. Merge(fills[c]) \in Outcomes
      BY <3>1, MergeType DEF TypeInv
    <3>3. /\ report'[c].status = Merge(fills[c]).status
          /\ report'[c].success = Merge(fills[c]).success
      BY <1>0, <1>3, <2>2, <3>2 DEF Outcomes
    <3>4. /\ Merge(fills[c]).success = outcome.success
          /\ \/ Merge(fills[c]).status = outcome.status
             \/ fills[c] # None /\ Merge(fills[c]).status = fills[c].last_status
      BY <3>1 DEF Merge, Outcomes
    <3> QED BY <1>3, <2>2, <3>3, <3>4 DEF StatusInv, OutcomeSays, FillSays, Says
  <2> QED BY <2>1, <2>2
<1> QED BY <1>1, <1>2, <1>3, ReportKept
\* What place_market_order returned, and with what a call waits.
LEMMA AnswerSaysStep ==
    ASSUME TypeInv, StatusInv, OrderWaitNext PROVE AnswerSays' /\ OutcomeSays'
<1> USE DEF StatusInv, AnswerSays, OutcomeSays, Says
<1>0. /\ call # "idle" => cid \in Cids
      /\ "rejected" \in Terminal /\ call \in {"idle", "placing", "querying", "waiting"}
      /\ answer \in {None} \cup Outcomes
  BY DEF TypeInv, SlotInv, OrderWaitTypeOK, Terminal
<1>1. CASE UNCHANGED <<call, cid, answer, outcome>>
  BY <1>0, <1>1, Settled
<1>2. CASE VenueAnswers
  <2>1. PICK filled \in IF feed = "delta" THEN {0, done[cid]} ELSE {0} :
          answer' = [NoOutcome EXCEPT
                        !.success = state[cid] # "rejected" \/ call = "querying",
                        !.status = IF state[cid] = "rejected" /\ call = "placing" THEN None
                                   ELSE IF feed = "delta" THEN state[cid] ELSE "open",
                        !.filled = filled]
    BY <1>2 DEF VenueAnswers
  <2>2. /\ ~answer'.success => state[cid] = "rejected"
        /\ answer'.status \in {None, "open", state[cid]}
    BY <2>1 DEF NoOutcome
  <2>3. {None, "open"} \cap Terminal = {}
    BY NoneIsNone DEF Terminal
  <2> QED BY <1>2, <2>2, <2>3 DEF VenueAnswers, callVars
<1>3. CASE SubmitAndAwait
  BY <1>3 DEF SubmitAndAwait
<1>4. CASE PlaceReturns
  BY <1>0, <1>4 DEF PlaceReturns, Return
<1>5. CASE PostTimesOut
  BY <1>5 DEF PostTimesOut
<1>6. CASE PlaceFails
  BY <1>6 DEF PlaceFails, Return
<1>7. CASE Wake
  <2>1. CASE Complete(fills[cid])
    BY <1>7, <2>1 DEF Wake, Finish, Return
  <2>2. CASE ~Complete(fills[cid])
    BY <1>1, <1>7, <2>2 DEF Wake, callVars, venueVars
  <2> QED BY <2>1, <2>2
<1>8. CASE WaitTimesOut
  BY <1>8 DEF WaitTimesOut, Finish, Return
<1>9. ASSUME NEW c \in Cids, VenueReceives(c) \/ VenueFills(c) \/ VenueCancels(c)
      PROVE  UNCHANGED <<call, cid, answer, outcome>>
  BY <1>9 DEF VenueReceives, VenueFills, VenueCancels, callVars
<1>10. CASE DeliverEvent \/ Rotate \/ KeyExpires \/ StreamBreaks \/ StreamReconnects
  BY <1>1, <1>10 DEF DeliverEvent, Rotate, KeyExpires, StreamBreaks, StreamReconnects,
                     venueVars, callVars
<1> QED BY <1>1, <1>2, <1>3, <1>4, <1>5, <1>6, <1>7, <1>8, <1>9, <1>10 DEF OrderWaitNext

LEMMA StatusInvariant == OrderWaitSpec => []StatusInv
<1>1. OrderWaitInit => StatusInv
  BY NoneIsNone
     DEF OrderWaitInit, StatusInv, VenueInv, PushSays, FillSays, AnswerSays, OutcomeSays,
         ReportSays, Unfilled
<1>2. TypeInv /\ StatusInv /\ [OrderWaitNext]_waitVars => StatusInv'
  <2>1. ASSUME TypeInv, StatusInv, OrderWaitNext PROVE StatusInv'
    BY <2>1, VenueStep, PushSaysStep, FillSaysStep, AnswerSaysStep, ReportSaysStep
       DEF StatusInv
  <2>2. ASSUME StatusInv, UNCHANGED waitVars PROVE StatusInv'
    BY <2>2 DEF StatusInv, VenueInv, PushSays, FillSays, AnswerSays, OutcomeSays, ReportSays,
                Says, waitVars, venueVars, streamVars, trackerVars, callVars
  <2> QED BY <2>1, <2>2
<1> QED BY <1>1, <1>2, TypeInvariant, PTL DEF OrderWaitSpec

\* submit_and_await: the status a call reports as terminal is the order's, for good.
THEOREM StatusesAreFinal == OrderWaitSpec => []StatusIsFinal
<1>1. StatusInv => StatusIsFinal
  BY DEF StatusInv, ReportSays, Says, StatusIsFinal, Returned
<1> QED BY <1>1, StatusInvariant, PTL

\* place_market_order with Aster's recovery: of an order whose call failed nothing is
\* executed, unless no true answer about it came.
THEOREM FailuresAreTrue == OrderWaitSpec => []FailedMeansNothingDone
<1>1. StatusInv => FailedMeansNothingDone
  BY DEF StatusInv, VenueInv, ReportSays, Unfilled, FailedMeansNothingDone, Returned
<1> QED BY <1>1, StatusInvariant, PTL
-----------------------------------------------------------------------------
(* Quantities.  For running totals an event is right by itself.  For single *)
(* fills the ledger of an order gives, for every event on its way, what the *)
(* tracker will have counted when it has taken it.                          *)

Share(event, c) == IF event.cid = c THEN event.qty ELSE 0

\* `f` is a ledger of order c over the events `ps`: it starts at or above what has been
\* counted, ends at or below what is executed, and does both exactly if nothing is lost.
LedgerOf(c, f, ps, got, total, exact) ==
    /\ f \in [0 .. Len(ps) -> Nat]
    /\ \A i \in 1 .. Len(ps) : f[i] = f[i - 1] + Share(ps[i], c)
    /\ \A i \in 0 .. Len(ps) :
          /\ f[i] <= f[Len(ps)]
          /\ (\A n \in i + 1 .. Len(ps) : ps[n].cid # c) => f[i] = f[Len(ps)]
    /\ got <= f[0] /\ f[Len(ps)] <= total
    /\ exact => got = f[0] /\ f[Len(ps)] = total

LEMMA ShareType ==
    ASSUME NEW event \in Events, NEW c
    PROVE  Share(event, c) \in Nat /\ (event.cid # c => Share(event, c) = 0)
  BY DEF Share, Events

\* The counted and the executed quantity move, no event does.
LEMMA LedgerStill ==
    ASSUME NEW c, NEW ps \in Seq(Events), NEW f,
           NEW got \in Nat, NEW total \in Nat, NEW exact \in BOOLEAN,
           NEW got2 \in Nat, NEW total2 \in Nat, NEW exact2 \in BOOLEAN,
           LedgerOf(c, f, ps, got, total, exact),
           got2 <= got, total <= total2,
           exact2 => total2 = 0 \/ (exact /\ got2 = got /\ total2 = total)
    PROVE  LedgerOf(c, f, ps, got2, total2, exact2)
<1>1. Len(ps) \in Nat /\ 0 \in 0 .. Len(ps) /\ Len(ps) \in 0 .. Len(ps)
  OBVIOUS
<1>2. f[0] \in Nat /\ f[Len(ps)] \in Nat /\ f[0] <= f[Len(ps)]
  BY <1>1 DEF LedgerOf
<1> QED BY <1>1, <1>2 DEF LedgerOf

\* An event joins the stream.
LEMMA LedgerAppend ==
    ASSUME NEW c, NEW ps \in Seq(Events), NEW f, NEW event \in Events,
           NEW got \in Nat, NEW total \in Nat, NEW exact \in BOOLEAN,
           LedgerOf(c, f, ps, got, total, exact)
    PROVE  \E g : LedgerOf(c, g, Append(ps, event), got, total + Share(event, c), exact)
<1> DEFINE qs == Append(ps, event)
           L == Len(ps)
           g == [i \in 0 .. L + 1 |-> IF i <= L THEN f[i] ELSE f[L] + Share(event, c)]
<1>1. /\ L \in Nat /\ Len(qs) = L + 1 /\ qs[L + 1] = event
      /\ \A i \in 1 .. L : qs[i] = ps[i]
  OBVIOUS
<1>2. Share(event, c) \in Nat /\ (event.cid # c => Share(event, c) = 0)
  BY ShareType
<1> HIDE DEF qs, L
<1>3. \A i \in 0 .. L : f[i] \in Nat
  BY <1>1 DEF LedgerOf, L
<1>4. /\ g \in [0 .. Len(qs) -> Nat]
      /\ g[0] = f[0] /\ g[Len(qs)] = f[L] + Share(event, c)
      /\ \A i \in 0 .. L : g[i] = f[i]
  BY <1>1, <1>2, <1>3
<1>5. \A i \in 1 .. Len(qs) : g[i] = g[i - 1] + Share(qs[i], c)
  <2> SUFFICES ASSUME NEW i \in 1 .. Len(qs) PROVE g[i] = g[i - 1] + Share(qs[i], c)
    OBVIOUS
  <2>1. CASE i = L + 1
    BY <1>1, <1>4, <2>1
  <2>2. CASE i \in 1 .. L
    <3>1. f[i] = f[i - 1] + Share(ps[i], c)
      BY <2>2 DEF LedgerOf, L
    <3> QED BY <1>1, <1>4, <2>2, <3>1
  <2> QED BY <1>1, <2>1, <2>2
<1>6. ASSUME NEW i \in 0 .. Len(qs)
      PROVE  /\ g[i] <= g[Len(qs)]
             /\ (\A n \in i + 1 .. Len(qs) : qs[n].cid # c) => g[i] = g[Len(qs)]
  <2>1. CASE i = L + 1
    BY <1>1, <1>2, <1>3, <1>4, <2>1
  <2>2. CASE i \in 0 .. L
    <3>1. /\ f[i] <= f[L]
          /\ (\A n \in i + 1 .. L : ps[n].cid # c) => f[i] = f[L]
      BY <2>2 DEF LedgerOf, L
    <3>2. g[i] = f[i] /\ g[Len(qs)] = f[L] + Share(event, c) /\ f[i] \in Nat /\ f[L] \in Nat
      BY <1>1, <1>3, <1>4, <2>2
    <3>3. ASSUME \A n \in i + 1 .. Len(qs) : qs[n].cid # c
          PROVE  f[i] = f[L] /\ Share(event, c) = 0
      <4>1. L + 1 \in i + 1 .. Len(qs) /\ \A n \in i + 1 .. L : n \in i + 1 .. Len(qs) /\ n \in 1 .. L
        BY <1>1, <2>2
      <4> QED BY <1>1, <1>2, <3>1, <3>3, <4>1
    <3> QED BY <1>2, <3>1, <3>2, <3>3
  <2> QED BY <1>1, <2>1, <2>2
<1>7. /\ got <= g[0] /\ g[Len(qs)] <= total + Share(event, c)
      /\ exact => got = g[0] /\ g[Len(qs)] = total + Share(event, c)
  <2>1. /\ got <= f[0] /\ f[L] <= total
        /\ exact => got = f[0] /\ f[L] = total
    BY DEF LedgerOf, L
  <2>2. f[L] \in Nat
    BY <1>1, <1>3
  <2> QED BY <1>2, <1>4, <2>1, <2>2
<1>8. LedgerOf(c, g, qs, got, total + Share(event, c), exact)
  BY <1>4, <1>5, <1>6, <1>7 DEF LedgerOf
<1> QED BY <1>8 DEF qs

\* The oldest event is taken, and counted or not.
LEMMA LedgerTail ==
    ASSUME NEW c, NEW ps \in Seq(Events), ps # <<>>, NEW f,
           NEW got \in Nat, NEW total \in Nat, NEW exact \in BOOLEAN,
           NEW got2 \in Nat, NEW exact2 \in BOOLEAN,
           LedgerOf(c, f, ps, got, total, exact),
           got2 <= got + Share(ps[1], c),
           exact2 => exact /\ got2 = got + Share(ps[1], c)
    PROVE  \E g : LedgerOf(c, g, Tail(ps), got2, total, exact2)
<1> DEFINE qs == Tail(ps)
           L == Len(ps)
           g == [i \in 0 .. L - 1 |-> f[i + 1]]
<1>1. /\ L \in Nat \ {0} /\ Len(qs) = L - 1
      /\ \A i \in 1 .. L - 1 : qs[i] = ps[i + 1]
  OBVIOUS
<1>2. Share(ps[1], c) \in Nat
  BY <1>1, ShareType
<1> HIDE DEF qs, L
<1>3. /\ \A i \in 0 .. L : f[i] \in Nat
      /\ \A i \in 1 .. L : f[i] = f[i - 1] + Share(ps[i], c)
      /\ \A i \in 0 .. L :
            f[i] <= f[L] /\ ((\A n \in i + 1 .. L : ps[n].cid # c) => f[i] = f[L])
      /\ got <= f[0] /\ f[L] <= total
      /\ exact => got = f[0] /\ f[L] = total
  BY DEF LedgerOf, L
<1>4. /\ g \in [0 .. Len(qs) -> Nat]
      /\ \A i \in 0 .. Len(qs) : g[i] = f[i + 1]
      /\ g[0] = f[1] /\ g[Len(qs)] = f[L]
  BY <1>1, <1>3
<1> HIDE DEF g
<1>5. \A i \in 1 .. Len(qs) : g[i] = g[i - 1] + Share(qs[i], c)
  <2> SUFFICES ASSUME NEW i \in 1 .. Len(qs) PROVE g[i] = g[i - 1] + Share(qs[i], c)
    OBVIOUS
  <2>1. /\ i + 1 \in 1 .. L /\ (i + 1) - 1 = i /\ qs[i] = ps[i + 1]
        /\ g[i] = f[i + 1] /\ g[i - 1] = f[i]
    <3>1. i \in 1 .. L - 1 /\ i \in 0 .. Len(qs) /\ i - 1 \in 0 .. Len(qs)
      BY <1>1
    <3>2. i + 1 \in 1 .. L /\ (i + 1) - 1 = i /\ (i - 1) + 1 = i
      BY <1>1, <3>1
    <3> QED BY <1>1, <1>4, <3>1, <3>2
  <2> QED BY <1>3, <2>1
<1>6. ASSUME NEW i \in 0 .. Len(qs)
      PROVE  /\ g[i] <= g[Len(qs)]
             /\ (\A n \in i + 1 .. Len(qs) : qs[n].cid # c) => g[i] = g[Len(qs)]
  <2>1. i + 1 \in 0 .. L /\ g[i] = f[i + 1] /\ g[Len(qs)] = f[L]
    BY <1>1, <1>4
  <2>2. ASSUME \A n \in i + 1 .. Len(qs) : qs[n].cid # c
        PROVE  \A n \in (i + 1) + 1 .. L : ps[n].cid # c
    <3> SUFFICES ASSUME NEW n \in (i + 1) + 1 .. L PROVE ps[n].cid # c
      OBVIOUS
    <3>1. n - 1 \in i + 1 .. Len(qs) /\ n - 1 \in 1 .. L - 1 /\ (n - 1) + 1 = n
      BY <1>1
    <3> QED BY <1>1, <2>2, <3>1
  <2> QED BY <1>3, <2>1, <2>2
<1>7. /\ got2 <= g[0] /\ g[Len(qs)] <= total
      /\ exact2 => got2 = g[0] /\ g[Len(qs)] = total
  <2>1. f[1] = f[0] + Share(ps[1], c) /\ f[0] \in Nat /\ f[1] \in Nat
    BY <1>1, <1>3
  <2> QED BY <1>2, <1>3, <1>4, <2>1
<1>8. LedgerOf(c, g, qs, got2, total, exact2)
  BY <1>4, <1>5, <1>6, <1>7 DEF LedgerOf
<1> QED BY <1>8 DEF qs

\* The stream breaks: the ledger stays exact for an order with no event on its way.
LEMMA LedgerDrop ==
    ASSUME NEW c, NEW ps \in Seq(Events), NEW f,
           NEW got \in Nat, NEW total \in Nat, NEW exact \in BOOLEAN, NEW exact2 \in BOOLEAN,
           LedgerOf(c, f, ps, got, total, exact),
           exact2 => exact /\ \A n \in 1 .. Len(ps) : ps[n].cid # c
    PROVE  \E g : LedgerOf(c, g, <<>>, got, total, exact2)
<1> DEFINE g == [i \in 0 .. 0 |-> f[0]]
<1>1. Len(ps) \in Nat /\ 0 \in 0 .. Len(ps) /\ Len(ps) \in 0 .. Len(ps)
  OBVIOUS
<1>2. /\ f[0] \in Nat /\ f[Len(ps)] \in Nat
      /\ f[0] <= f[Len(ps)] /\ got <= f[0] /\ f[Len(ps)] <= total
      /\ exact2 => got = f[0] /\ f[Len(ps)] = total /\ f[0] = f[Len(ps)]
  BY <1>1 DEF LedgerOf
<1>3. g \in [0 .. 0 -> Nat] /\ g[0] = f[0] /\ \A i \in 0 .. 0 : i = 0
  BY <1>2
<1>4. Len(<<>>) = 0 /\ 1 .. 0 = {}
  OBVIOUS
<1> HIDE DEF g
<1>5. LedgerOf(c, g, <<>>, got, total, exact2)
  BY <1>2, <1>3, <1>4 DEF LedgerOf
<1> QED BY <1>5
Got(c) == IF fills[c] = None THEN 0 ELSE fills[c].filled
Whole(c) == c \in slots \ lost

\* The last word on an order is the last event of it that is on its way.
LastInv ==
    /\ \A i, j \in 1 .. Len(pushes) :
          i < j /\ pushes[i].cid \in Cids /\ pushes[i].status \in Terminal
             => pushes[j].cid # pushes[i].cid
    /\ \A c \in Cids, i \in 1 .. Len(pushes) :
          fills[c] # None /\ fills[c].last_status \in Terminal /\ pushes[i].cid = c
             => feed = "snapshot" /\ pushes[i].status \in Terminal

\* Running totals.
SnapshotInv == feed = "snapshot" =>
    /\ \A i \in 1 .. Len(pushes) :
          pushes[i].cid \in Cids =>
             /\ pushes[i].qty <= done[pushes[i].cid]
             /\ pushes[i].status \in Terminal => pushes[i].qty = done[pushes[i].cid]
    /\ \A c \in Cids :
          /\ Got(c) <= done[c]
          /\ fills[c] # None /\ fills[c].last_status \in Terminal => Got(c) = done[c]

\* Single fills.
DeltaInv == feed = "delta" =>
    \A c \in Cids : \E f : LedgerOf(c, f, pushes, Got(c), done[c], Whole(c))

\* A connection that is down has nothing on its way.
DownInv == link = "down" => pushes = <<>>

ReportInv ==
    /\ call # "idle" /\ answer # None => answer.filled <= done[cid]
    /\ call = "waiting" => outcome.filled <= done[cid]
    /\ \A c \in Cids : report[c] # None =>
          /\ report[c].filled <= done[c]
          /\ report[c].ended = "complete" /\ c \notin lost =>
                /\ report[c].filled = done[c]
                /\ done[c] = Requested \/ state[c] \in Terminal

TotalInv == LastInv /\ SnapshotInv /\ DeltaInv /\ DownInv /\ ReportInv

LEMMA GotType ==
    ASSUME TypeInv, NEW c \in Cids
    PROVE  Got(c) \in Nat /\ done[c] \in Nat /\ done[c] <= Requested /\ Whole(c) \in BOOLEAN
  BY OrderWaitAssumption DEF TypeInv, OrderWaitTypeOK, Got, Fills, Whole

\* The tracker never counts more than was executed, and has counted it all when the
\* order is complete, unless a push was lost.
LEMMA Counted ==
    ASSUME TypeInv, StatusInv, TotalInv, NEW c \in Cids
    PROVE  /\ Got(c) <= done[c]
           /\ Whole(c) /\ fills[c] # None /\ Complete(fills[c]) =>
                 Got(c) = done[c] /\ (done[c] = Requested \/ state[c] \in Terminal)
<1>0. Got(c) \in Nat /\ done[c] \in Nat /\ done[c] <= Requested /\ Requested \in Nat
      /\ feed \in {"delta", "snapshot"} /\ pushes \in Seq(Events)
  BY GotType, OrderWaitAssumption DEF TypeInv, OrderWaitTypeOK
<1>1. /\ Got(c) <= done[c]
      /\ Whole(c) /\ fills[c] # None /\ fills[c].last_status \in Terminal => Got(c) = done[c]
  <2>1. CASE feed = "snapshot"
    BY <2>1 DEF TotalInv, SnapshotInv
  <2>2. CASE feed = "delta"
    <3>1. PICK f : LedgerOf(c, f, pushes, Got(c), done[c], Whole(c))
      BY <2>2 DEF TotalInv, DeltaInv
    <3>2. Len(pushes) \in Nat /\ 0 \in 0 .. Len(pushes) /\ Len(pushes) \in 0 .. Len(pushes)
      BY <1>0
    <3>3. /\ f[0] \in Nat /\ f[Len(pushes)] \in Nat
          /\ f[0] <= f[Len(pushes)]
          /\ (\A n \in 0 + 1 .. Len(pushes) : pushes[n].cid # c) => f[0] = f[Len(pushes)]
          /\ Got(c) <= f[0] /\ f[Len(pushes)] <= done[c]
          /\ Whole(c) => Got(c) = f[0] /\ f[Len(pushes)] = done[c]
      BY <3>1, <3>2 DEF LedgerOf
    <3>4. ASSUME fills[c] # None, fills[c].last_status \in Terminal
          PROVE  \A n \in 0 + 1 .. Len(pushes) : pushes[n].cid # c
      BY <2>2, <3>4 DEF TotalInv, LastInv
    <3> QED BY <1>0, <3>3, <3>4
  <2> QED BY <1>0, <2>1, <2>2
<1>2. ASSUME fills[c] # None, Complete(fills[c])
      PROVE  fills[c].last_status \in Terminal \/ Got(c) >= Requested
  BY <1>2 DEF Complete, Got
<1>3. fills[c] # None /\ fills[c].last_status \in Terminal => state[c] \in Terminal
  BY DEF StatusInv, FillSays, Says
<1> QED BY <1>0, <1>1, <1>2, <1>3

LEMMA LastStep ==
    ASSUME TypeInv, StatusInv, TotalInv, OrderWaitNext PROVE LastInv'
<1>0. /\ pushes \in Seq(Events) /\ fills \in [Cids -> Fills \cup {None}]
      /\ slots \subseteq Cids /\ Len(pushes) \in Nat
      /\ "open" \notin Terminal
  BY DEF TypeInv, OrderWaitTypeOK, Terminal
<1>1. /\ \A i \in 1 .. Len(pushes) :
            pushes[i].cid \in Cids /\ pushes[i].status \in Terminal
               => state[pushes[i].cid] \in Terminal
      /\ \A c \in Cids : fills[c] # None /\ fills[c].last_status \in Terminal
               => state[c] \in Terminal
  BY DEF StatusInv, PushSays, FillSays, Says
<1>2. ASSUME NEW i \in 1 .. Len(pushes'), NEW j \in 1 .. Len(pushes'), i < j,
             pushes'[i].cid \in Cids, pushes'[i].status \in Terminal
      PROVE  pushes'[j].cid # pushes'[i].cid
  <2>1. CASE pushes' = pushes
    BY <1>2, <2>1 DEF TotalInv, LastInv
  <2>2. CASE pushes # <<>> /\ pushes' = Tail(pushes)
    <3>1. /\ i + 1 \in 1 .. Len(pushes) /\ j + 1 \in 1 .. Len(pushes) /\ i + 1 < j + 1
          /\ pushes'[i] = pushes[i + 1] /\ pushes'[j] = pushes[j + 1]
      BY <1>0, <1>2, <2>2
    <3> QED BY <1>2, <3>1 DEF TotalInv, LastInv
  <2>3. CASE pushes' = <<>>
    BY <2>3
  <2>4. ASSUME NEW event \in Events, event.cid \in Cids => state[event.cid] = "open",
               pushes' = Append(pushes, event)
        PROVE  pushes'[j].cid # pushes'[i].cid
    <3>1. /\ i \in 1 .. Len(pushes) /\ pushes'[i] = pushes[i]
          /\ \/ j \in 1 .. Len(pushes) /\ pushes'[j] = pushes[j]
             \/ pushes'[j] = event
      BY <1>0, <1>2, <2>4
    <3> QED BY <1>0, <1>1, <1>2, <2>4, <3>1 DEF TotalInv, LastInv
  <2>5. ASSUME NEW event \in Events, pushes' = <<event>>
        PROVE  FALSE
    BY <1>2, <2>5
  <2> QED BY <2>1, <2>2, <2>3, <2>4, <2>5, PushesKept
<1>3. ASSUME NEW c \in Cids, NEW i \in 1 .. Len(pushes'),
             fills'[c] # None, fills'[c].last_status \in Terminal, pushes'[i].cid = c
      PROVE  feed' = "snapshot" /\ pushes'[i].status \in Terminal
  <2>0. feed' = feed
    BY Settled DEF StatusInv
  <2>1. CASE fills'[c] = fills[c]
    <3>1. state[c] \in Terminal /\ state'[c] = state[c]
      BY <1>1, <1>3, <2>1, Settled DEF StatusInv
    <3>2. ASSUME NEW k \in 1 .. Len(pushes), pushes'[i] = pushes[k]
          PROVE  feed' = "snapshot" /\ pushes'[i].status \in Terminal
      BY <1>3, <2>0, <2>1, <3>2 DEF TotalInv, LastInv
    <3>3. CASE pushes' = pushes
      BY <3>2, <3>3
    <3>4. CASE pushes # <<>> /\ pushes' = Tail(pushes)
      <4>1. i + 1 \in 1 .. Len(pushes) /\ pushes'[i] = pushes[i + 1]
        BY <1>0, <3>4
      <4> QED BY <3>2, <4>1
    <3>5. CASE pushes' = <<>>
      BY <3>5
    <3>6. ASSUME NEW event \in Events, event.cid \in Cids => state[event.cid] = "open",
                 pushes' = Append(pushes, event)
          PROVE  feed' = "snapshot" /\ pushes'[i].status \in Terminal
      <4>1. (i \in 1 .. Len(pushes) /\ pushes'[i] = pushes[i]) \/ pushes'[i] = event
        BY <1>0, <3>6
      <4> QED BY <1>0, <1>3, <3>1, <3>2, <3>6, <4>1
    <3>7. ASSUME NEW event \in Events, Told(event), feed = "snapshot", pushes' = <<event>>
          PROVE  feed' = "snapshot" /\ pushes'[i].status \in Terminal
      BY <1>3, <2>0, <3>1, <3>7 DEF Told
    <3> QED BY <3>3, <3>4, <3>5, <3>6, <3>7, PushesKept
  <2>2. CASE fills' = [fills EXCEPT ![cid] = None]
    BY <1>0, <1>3, <2>1, <2>2
  <2>3. CASE /\ pushes # <<>> /\ Head(pushes).cid \in slots /\ pushes' = Tail(pushes)
             /\ fills' = [fills EXCEPT ![Head(pushes).cid] = Add(@, Head(pushes))]
    <3>1. CASE c # Head(pushes).cid
      BY <1>0, <2>1, <2>3, <3>1
    <3>2. CASE c = Head(pushes).cid
      <4>1. /\ 1 \in 1 .. Len(pushes) /\ Head(pushes) = pushes[1]
            /\ i + 1 \in 1 .. Len(pushes) /\ pushes'[i] = pushes[i + 1] /\ 1 < i + 1
        BY <1>0, <2>3
      <4>2. \/ fills'[c].last_status = pushes[1].status
            \/ fills[c] # None /\ fills'[c].last_status = fills[c].last_status
        <5>1. fills'[c] = Add(fills[c], pushes[1])
          BY <1>0, <2>3, <3>2, <4>1
        <5> QED BY <1>3, <5>1, NoneIsNone DEF Add
      <4>3. ~ (pushes[1].status \in Terminal)
        BY <1>3, <3>2, <4>1 DEF TotalInv, LastInv
      <4>4. fills[c] # None /\ fills[c].last_status \in Terminal
        BY <1>3, <4>2, <4>3
      <4> QED BY <1>3, <2>0, <4>1, <4>4 DEF TotalInv, LastInv
    <3> QED BY <3>1, <3>2
  <2> QED BY <2>1, <2>2, <2>3, TrackerKept
<1> QED BY <1>2, <1>3 DEF LastInv

\* What Add makes of a running total.
LEMMA SnapshotStep ==
    ASSUME TypeInv, StatusInv, TotalInv, OrderWaitNext PROVE SnapshotInv'
<1>0. /\ pushes \in Seq(Events) /\ fills \in [Cids -> Fills \cup {None}]
      /\ slots \subseteq Cids /\ feed' = feed
  BY Settled DEF TypeInv, OrderWaitTypeOK, StatusInv
<1> SUFFICES ASSUME feed = "snapshot" PROVE SnapshotInv'
  BY <1>0 DEF SnapshotInv
<1>1. ASSUME NEW c \in Cids
      PROVE  /\ done[c] \in Nat /\ done'[c] \in Nat /\ done[c] <= done'[c]
             /\ state[c] \in Terminal => done'[c] = done[c]
  <2>1. TypeInv'
    BY VenueType, CallType, StreamType DEF OrderWaitNext
  <2> QED BY <2>1, GotType, Settled, OrderWaitAssumption
          DEF StatusInv, TypeInv, OrderWaitTypeOK
<1>2. ASSUME NEW i \in 1 .. Len(pushes'), pushes'[i].cid \in Cids
      PROVE  /\ pushes'[i].qty <= done'[pushes'[i].cid]
             /\ pushes'[i].status \in Terminal => pushes'[i].qty = done'[pushes'[i].cid]
  <2>1. ASSUME NEW j \in 1 .. Len(pushes), pushes'[i] = pushes[j]
        PROVE  /\ pushes'[i].qty <= done'[pushes'[i].cid]
               /\ pushes'[i].status \in Terminal => pushes'[i].qty = done'[pushes'[i].cid]
    <3>1. pushes[j].qty \in Nat /\ pushes[j].cid \in Cids
      <4>1. pushes[j] \in Events
        BY <1>0
      <4> QED BY <1>2, <2>1, <4>1 DEF Events
    <3>2. /\ pushes[j].qty <= done[pushes[j].cid]
          /\ pushes[j].status \in Terminal =>
                pushes[j].qty = done[pushes[j].cid] /\ state[pushes[j].cid] \in Terminal
      BY <3>1 DEF TotalInv, SnapshotInv, StatusInv, PushSays, Says
    <3> QED BY <1>1, <2>1, <3>1, <3>2
  <2>2. CASE pushes' = pushes
    BY <2>1, <2>2
  <2>3. CASE pushes # <<>> /\ pushes' = Tail(pushes)
    <3>1. i + 1 \in 1 .. Len(pushes) /\ pushes'[i] = pushes[i + 1]
      BY <1>0, <2>3
    <3> QED BY <2>1, <3>1
  <2>4. CASE pushes' = <<>>
    BY <2>4
  <2>5. ASSUME NEW event \in Events, Told(event),
               pushes' = Append(pushes, event) \/ pushes' = <<event>>
        PROVE  /\ pushes'[i].qty <= done'[pushes'[i].cid]
               /\ pushes'[i].status \in Terminal => pushes'[i].qty = done'[pushes'[i].cid]
    <3>1. (i \in 1 .. Len(pushes) /\ pushes'[i] = pushes[i]) \/ pushes'[i] = event
      <4>1. CASE pushes' = Append(pushes, event)
        BY <1>0, <4>1
      <4>2. CASE pushes' = <<event>>
        BY <4>2
      <4> QED BY <2>5, <4>1, <4>2
    <3>2. CASE pushes'[i] = event
      BY <1>1, <1>2, <2>5, <3>2 DEF Told
    <3> QED BY <2>1, <3>1, <3>2
  <2> QED BY <2>2, <2>3, <2>4, <2>5, PushesKept
<1>3. ASSUME NEW c \in Cids
      PROVE  /\ Got(c)' <= done'[c]
             /\ fills'[c] # None /\ fills'[c].last_status \in Terminal => Got(c)' = done'[c]
  <2>0. /\ Got(c) \in Nat /\ Got(c) <= done[c]
        /\ fills[c] # None /\ fills[c].last_status \in Terminal =>
              Got(c) = done[c] /\ state[c] \in Terminal
    BY GotType DEF TotalInv, SnapshotInv, StatusInv, FillSays, Says
  <2>1. CASE fills'[c] = fills[c]
    <3>1. Got(c)' = Got(c)
      BY <2>1 DEF Got
    <3> QED BY <1>1, <2>0, <2>1, <3>1
  <2>2. CASE fills' = [fills EXCEPT ![cid] = None]
    <3>1. CASE c = cid
      BY <1>0, <1>1, <2>2, <3>1 DEF Got
    <3> QED BY <1>0, <2>1, <2>2, <3>1
  <2>3. CASE /\ pushes # <<>> /\ Head(pushes).cid \in slots /\ pushes' = Tail(pushes)
             /\ fills' = [fills EXCEPT ![Head(pushes).cid] = Add(@, Head(pushes))]
    <3>1. CASE c # Head(pushes).cid
      BY <1>0, <2>1, <2>3, <3>1
    <3>2. CASE c = Head(pushes).cid
      <4>1. 1 \in 1 .. Len(pushes) /\ Head(pushes) = pushes[1]
        BY <1>0, <2>3
      <4>2. /\ pushes[1].qty \in Nat /\ pushes[1].qty <= done[c]
            /\ pushes[1].status \in Terminal =>
                  pushes[1].qty = done[c] /\ state[c] \in Terminal
        <5>1. pushes[1] \in Events /\ pushes[1].cid = c
          BY <1>0, <3>2, <4>1
        <5> QED BY <4>1, <5>1 DEF Events, TotalInv, SnapshotInv, StatusInv, PushSays, Says
      <4>3. /\ fills'[c] # None
            /\ Got(c)' = IF pushes[1].qty > 0 THEN pushes[1].qty ELSE Got(c)
            /\ \/ fills'[c].last_status = pushes[1].status
               \/ fills[c] # None /\ fills'[c].last_status = fills[c].last_status
               \/ fills'[c].last_status = None
        <5>1. fills'[c] = Add(fills[c], pushes[1])
          BY <1>0, <2>3, <3>2, <4>1
        <5>2. pushes[1] \in Events /\ fills[c] \in Fills \cup {None}
          BY <1>0, <4>1
        <5>3. fills'[c] # None
          BY <5>1, <5>2, AddType, NoneIsNone
        <5>4. fills'[c].filled = IF pushes[1].qty > 0 THEN pushes[1].qty ELSE Got(c)
          BY <5>1 DEF Add, Got
        <5>5. \/ fills'[c].last_status = pushes[1].status
              \/ fills[c] # None /\ fills'[c].last_status = fills[c].last_status
              \/ fills'[c].last_status = None
          BY <5>1 DEF Add
        <5> QED BY <5>3, <5>4, <5>5 DEF Got
      <4>4. CASE pushes[1].status \in Terminal
        BY <1>1, <2>0, <4>2, <4>3, <4>4
      <4>5. CASE pushes[1].status \notin Terminal
        <5>1. ASSUME fills'[c].last_status \in Terminal PROVE FALSE
          BY <3>2, <4>1, <4>3, <4>5, <5>1, NoneIsNone DEF TotalInv, LastInv
        <5> QED BY <1>1, <2>0, <4>2, <4>3, <5>1
      <4> QED BY <4>4, <4>5
    <3> QED BY <3>1, <3>2
  <2> QED BY <2>1, <2>2, <2>3, TrackerKept
<1> QED BY <1>2, <1>3 DEF SnapshotInv

LEMMA TypeStep == ASSUME TypeInv, OrderWaitNext PROVE TypeInv'
  BY VenueType, CallType, StreamType DEF OrderWaitNext

\* What an order is owed: a ledger exists after every step.
LEMMA DeltaStep ==
    ASSUME TypeInv, StatusInv, TotalInv, OrderWaitNext PROVE DeltaInv'
<1> SUFFICES ASSUME feed = "delta", NEW c \in Cids
             PROVE  \E g : LedgerOf(c, g, pushes', Got(c)', done'[c], Whole(c)')
  BY Settled DEF DeltaInv, StatusInv
<1>0. /\ pushes \in Seq(Events) /\ fills \in [Cids -> Fills \cup {None}]
      /\ done \in [Cids -> 0 .. Requested] /\ slots \subseteq Cids
      /\ Got(c) \in Nat /\ done[c] \in Nat /\ Whole(c) \in BOOLEAN
      /\ Got(c)' \in Nat /\ done'[c] \in Nat /\ Whole(c)' \in BOOLEAN
  <2>1. TypeInv'
    BY TypeStep
  <2>2. Got(c)' \in Nat /\ done'[c] \in Nat /\ Whole(c)' \in BOOLEAN
    BY <2>1, OrderWaitAssumption DEF TypeInv, OrderWaitTypeOK, Got, Fills, Whole
  <2> QED BY <2>2, GotType DEF TypeInv, OrderWaitTypeOK
<1>f. PICK f : LedgerOf(c, f, pushes, Got(c), done[c], Whole(c))
  BY DEF TotalInv, DeltaInv
<1>s. ASSUME pushes' = pushes, Got(c)' <= Got(c), done[c] <= done'[c],
             Whole(c)' => done'[c] = 0
                          \/ (Whole(c) /\ Got(c)' = Got(c) /\ done'[c] = done[c])
      PROVE  \E g : LedgerOf(c, g, pushes', Got(c)', done'[c], Whole(c)')
  BY <1>0, <1>f, <1>s, LedgerStill
<1>a. ASSUME NEW event \in Events, pushes' = Append(pushes, event), Got(c)' = Got(c),
             done'[c] = done[c] + Share(event, c), Whole(c)' = Whole(c)
      PROVE  \E g : LedgerOf(c, g, pushes', Got(c)', done'[c], Whole(c)')
  BY <1>0, <1>f, <1>a, LedgerAppend
<1>u. ASSUME UNCHANGED <<pushes, fills, done, slots, lost>>
      PROVE  \E g : LedgerOf(c, g, pushes', Got(c)', done'[c], Whole(c)')
  <2>1. Got(c)' = Got(c) /\ Whole(c)' = Whole(c)
    BY <1>u DEF Got, Whole
  <2> QED BY <1>0, <1>s, <1>u, <2>1
<1>1. ASSUME NEW d \in Cids, VenueReceives(d)
      PROVE  \E g : LedgerOf(c, g, pushes', Got(c)', done'[c], Whole(c)')
  BY <1>1, <1>u DEF VenueReceives, streamVars, trackerVars
<1>p. ASSUME NEW d \in Cids, NEW qty \in Nat, NEW status \in Reached,
             Push(d, [cid |-> d, status |-> status, qty |-> qty]),
             done' = [done EXCEPT ![d] = @ + qty], UNCHANGED trackerVars
      PROVE  \E g : LedgerOf(c, g, pushes', Got(c)', done'[c], Whole(c)')
  <2> DEFINE event == [cid |-> d, status |-> status, qty |-> qty]
  <2>1. Got(c)' = Got(c)
    BY <1>p DEF trackerVars, Got
  <2>2. done'[c] = done[c] + Share(event, c) /\ done[c] <= done'[c]
        /\ (c # d => done'[c] = done[c])
    BY <1>0, <1>p DEF Share
  <2>3. event \in Events
    BY DEF Events
  <2>4. CASE link = "up" /\ listen_key = "fresh"
    <3>1. pushes' = Append(pushes, event) /\ Whole(c)' = Whole(c)
      BY <1>p, <2>4 DEF Push, trackerVars, Whole
    <3> QED BY <1>a, <2>1, <2>2, <2>3, <3>1
  <2>5. CASE ~ (link = "up" /\ listen_key = "fresh")
    <3>1. pushes' = pushes /\ (Whole(c)' => Whole(c) /\ c # d)
      BY <1>p, <2>5 DEF Push, trackerVars, Whole
    <3> QED BY <1>0, <1>s, <2>1, <2>2, <3>1
  <2> QED BY <2>4, <2>5
<1>2. ASSUME NEW d \in Cids, VenueFills(d)
      PROVE  \E g : LedgerOf(c, g, pushes', Got(c)', done'[c], Whole(c)')
  <2>1. PICK qty \in 1 .. Requested - done[d] :
            /\ done' = [done EXCEPT ![d] = @ + qty]
            /\ state' = [state EXCEPT ![d] = IF done'[d] = Requested THEN "filled" ELSE @]
            /\ Push(d, [cid |-> d, status |-> state'[d], qty |-> qty])
    BY <1>2 DEF VenueFills
  <2>2. qty \in Nat
    BY <1>0, <2>1, OrderWaitAssumption
  <2>3. state'[d] \in Reached
    BY <1>2, <2>1 DEF VenueFills, TypeInv, OrderWaitTypeOK, Reached
  <2>4. UNCHANGED trackerVars
    BY <1>2 DEF VenueFills
  <2> QED BY <1>p, <2>1, <2>2, <2>3, <2>4
<1>3. ASSUME NEW d \in Cids, VenueCancels(d)
      PROVE  \E g : LedgerOf(c, g, pushes', Got(c)', done'[c], Whole(c)')
  <2>1. /\ Push(d, [cid |-> d, status |-> "canceled", qty |-> 0])
        /\ done' = done /\ UNCHANGED trackerVars
    BY <1>3 DEF VenueCancels
  <2>2. done' = [done EXCEPT ![d] = @ + 0] /\ "canceled" \in Reached /\ 0 \in Nat
    BY <1>0, <2>1 DEF Reached
  <2> QED BY <1>p, <2>1, <2>2
<1>4. CASE VenueAnswers \/ PostTimesOut
  BY <1>4, <1>u DEF VenueAnswers, PostTimesOut, streamVars, trackerVars
<1>5. CASE SubmitAndAwait
  <2>1. pushes' = pushes /\ Got(c)' = Got(c) /\ done' = done
    BY <1>5 DEF SubmitAndAwait, streamVars, Got
  <2>2. Whole(c)' => Whole(c) \/ done[c] = 0
    BY <1>5 DEF SubmitAndAwait, streamVars, Whole, StatusInv, VenueInv, Unfilled, Cids,
                TypeInv, OrderWaitTypeOK
  <2> QED BY <1>0, <1>s, <2>1, <2>2
<1>r. ASSUME Return(report'[cid]), UNCHANGED <<done, streamVars>>, call # "idle"
      PROVE  \E g : LedgerOf(c, g, pushes', Got(c)', done'[c], Whole(c)')
  <2>1. pushes' = pushes /\ (Whole(c)' => Whole(c) /\ c # cid)
    BY <1>r DEF Return, Release, streamVars, Whole
  <2>2. Got(c)' <= Got(c) /\ (c # cid => Got(c)' = Got(c))
    BY <1>0, <1>r DEF Return, Release, Got
  <2> QED BY <1>0, <1>r, <1>s, <2>1, <2>2
<1>6. CASE PlaceReturns \/ PlaceFails \/ Wake \/ WaitTimesOut
  <2>1. report \in [Cids -> Outcomes \cup {None}]
        /\ (call # "idle" => cid \in Cids)
    BY DEF TypeInv, OrderWaitTypeOK, SlotInv
  <2>2. ASSUME NEW result, Return(result), call # "idle", UNCHANGED <<done, streamVars>>
        PROVE  \E g : LedgerOf(c, g, pushes', Got(c)', done'[c], Whole(c)')
    <3>1. report'[cid] = result
      BY <2>1, <2>2 DEF Return
    <3> QED BY <1>r, <2>2, <3>1
  <2>3. CASE PlaceReturns
    <3>1. call # "idle" /\ UNCHANGED <<done, streamVars>>
      BY <2>3 DEF PlaceReturns
    <3>2. CASE answer.success
      BY <1>u, <2>3, <3>2 DEF PlaceReturns, streamVars, trackerVars
    <3>3. CASE ~answer.success
      BY <2>2, <2>3, <3>1, <3>3 DEF PlaceReturns
    <3> QED BY <3>2, <3>3
  <2>4. CASE PlaceFails
    <3>1. call # "idle" /\ UNCHANGED <<done, streamVars>> /\ Return(NoOutcome)
      BY <2>4 DEF PlaceFails
    <3> QED BY <2>2, <3>1
  <2>5. ASSUME NEW ended, Finish(ended)
        PROVE  \E g : LedgerOf(c, g, pushes', Got(c)', done'[c], Whole(c)')
    <3>1. /\ call # "idle" /\ UNCHANGED <<done, streamVars>>
          /\ Return([Merge(fills[cid]) EXCEPT !.ended = ended])
      BY <2>5 DEF Finish
    <3> QED BY <2>2, <3>1
  <2>6. CASE Wake
    <3>1. Finish("complete") \/ UNCHANGED <<venueVars, streamVars, slots, fills>>
      BY <2>6 DEF Wake
    <3> QED BY <1>u, <2>5, <3>1 DEF venueVars, streamVars
  <2> QED BY <1>6, <2>3, <2>4, <2>5, <2>6 DEF WaitTimesOut
<1>7. CASE DeliverEvent
  <2>1. /\ pushes # <<>> /\ pushes' = Tail(pushes) /\ Head(pushes) = pushes[1]
        /\ 1 \in 1 .. Len(pushes) /\ pushes[1] \in Events /\ pushes[1].cid \in Cids
        /\ done' = done /\ lost' = lost /\ slots' = slots
        /\ IF pushes[1].qty = 0 THEN fills' = fills ELSE
           IF pushes[1].cid \in slots
           THEN fills' = [fills EXCEPT ![pushes[1].cid] = Add(@, pushes[1])]
           ELSE fills' = fills
    BY <1>0, <1>7 DEF DeliverEvent, OnEvent, venueVars, trackerVars
  <2>2. pushes[1].qty \in Nat /\ Share(pushes[1], c) \in Nat
        /\ (pushes[1].cid # c => Share(pushes[1], c) = 0)
        /\ (pushes[1].cid = c => Share(pushes[1], c) = pushes[1].qty)
    BY <2>1, ShareType DEF Events, Share
  <2>3. /\ Got(c)' <= Got(c) + Share(pushes[1], c)
        /\ Whole(c)' => Whole(c) /\ Got(c)' = Got(c) + Share(pushes[1], c)
    <3>1. CASE pushes[1].qty = 0 \/ pushes[1].cid # c
      <4>1. fills'[c] = fills[c]
        BY <1>0, <2>1, <3>1
      <4>2. Got(c)' = Got(c) /\ Whole(c)' = Whole(c)
        BY <2>1, <4>1 DEF Got, Whole
      <4> QED BY <1>0, <2>2, <3>1, <4>2
    <3>2. CASE pushes[1].qty # 0 /\ pushes[1].cid = c /\ c \notin slots
      BY <1>0, <2>1, <2>2, <3>2 DEF Got, Whole
    <3>3. CASE pushes[1].qty # 0 /\ pushes[1].cid = c /\ c \in slots
      <4>1. fills'[c] = Add(fills[c], pushes[1])
        BY <1>0, <2>1, <3>3
      <4>2. fills'[c] # None
        BY <1>0, <2>1, <4>1, AddType, NoneIsNone
      <4>3. fills'[c].filled = Got(c) + pushes[1].qty
        BY <4>1 DEF Add, Got
      <4>4. Got(c)' = Got(c) + pushes[1].qty /\ Whole(c)' = Whole(c)
        BY <2>1, <4>2, <4>3 DEF Got, Whole
      <4> QED BY <1>0, <2>2, <3>3, <4>4
    <3> QED BY <3>1, <3>2, <3>3
  <2> HIDE DEF Got, Whole
  <2>4. \E g : LedgerOf(c, g, Tail(pushes), Got(c)', done[c], Whole(c)')
    BY <1>0, <1>f, <2>1, <2>3, LedgerTail
  <2> QED BY <2>1, <2>4
<1>8. CASE Rotate \/ StreamBreaks
  <2>1. /\ pushes' = <<>> /\ done' = done /\ UNCHANGED trackerVars
        /\ lost' = lost \cup ({e.cid : e \in {pushes[i] : i \in DOMAIN pushes}} \cap Cids)
    BY <1>8 DEF Rotate, StreamBreaks, Drop, venueVars
  <2>2. Got(c)' = Got(c)
    BY <2>1 DEF Got, trackerVars
  <2>3. Whole(c)' => Whole(c) /\ \A n \in 1 .. Len(pushes) : pushes[n].cid # c
    BY <1>0, <2>1 DEF Whole, trackerVars
  <2>4. \E g : LedgerOf(c, g, <<>>, Got(c), done[c], Whole(c)')
    BY <1>0, <1>f, <2>3, LedgerDrop
  <2> QED BY <2>1, <2>2, <2>4
<1>9. CASE KeyExpires
  <2>1. done' = done /\ lost' = lost /\ UNCHANGED trackerVars
        /\ (pushes' = pushes \/ pushes' = Append(pushes, Notice))
    BY <1>9 DEF KeyExpires, venueVars
  <2>2. Got(c)' = Got(c) /\ Whole(c)' = Whole(c)
    BY <2>1 DEF Got, Whole, trackerVars
  <2>3. Notice \in Events /\ Share(Notice, c) = 0
    BY OutcomeType DEF Share, Notice, Cids
  <2>4. CASE pushes' = pushes
    BY <1>0, <1>s, <2>1, <2>2, <2>4
  <2>5. CASE pushes' = Append(pushes, Notice)
    BY <1>0, <1>a, <2>1, <2>2, <2>3, <2>5
  <2> QED BY <2>1, <2>4, <2>5
<1>10. CASE StreamReconnects
  <2>1. pushes' = pushes
    BY <1>10 DEF StreamReconnects, TotalInv, DownInv
  <2> QED BY <1>10, <1>u, <2>1 DEF StreamReconnects, venueVars, trackerVars
<1> QED BY <1>1, <1>2, <1>3, <1>4, <1>5, <1>6, <1>7, <1>8, <1>9, <1>10 DEF OrderWaitNext

LEMMA DownStep == ASSUME DownInv, OrderWaitNext PROVE DownInv'
<1> USE DEF DownInv
<1>1. ASSUME NEW c \in Cids, VenueReceives(c) \/ VenueFills(c) \/ VenueCancels(c)
      PROVE  DownInv'
  BY <1>1 DEF VenueReceives, VenueFills, VenueCancels, Push, streamVars
<1>2. CASE \/ VenueAnswers \/ SubmitAndAwait \/ PlaceReturns \/ PostTimesOut \/ PlaceFails
           \/ Wake \/ WaitTimesOut
  BY <1>2 DEF VenueAnswers, SubmitAndAwait, PlaceReturns, PostTimesOut, PlaceFails, Wake,
              WaitTimesOut, Finish, streamVars
<1>3. CASE DeliverEvent \/ Rotate \/ KeyExpires \/ StreamBreaks \/ StreamReconnects
  BY <1>3 DEF DeliverEvent, Rotate, KeyExpires, StreamBreaks, StreamReconnects, Drop
<1> QED BY <1>1, <1>2, <1>3 DEF OrderWaitNext

\* Neither an answer nor a report says more than was executed.
LEMMA ReportInvStep ==
    ASSUME TypeInv, StatusInv, TotalInv, OrderWaitNext PROVE ReportInv'
<1>0. /\ call # "idle" => cid \in Cids
      /\ \A c \in Cids : done[c] \in Nat /\ done'[c] \in Nat /\ done[c] <= done'[c]
      /\ answer \in {None} \cup Outcomes /\ outcome \in Outcomes
      /\ report \in [Cids -> Outcomes \cup {None}]
      /\ \A result \in Outcomes : result.filled \in Nat
      /\ lost \subseteq lost' /\ NoOutcome.filled = 0 /\ NoOutcome.ended = "unplaced"
  <2>1. TypeInv'
    BY TypeStep
  <2>2. \A c \in Cids : done[c] \in Nat /\ done'[c] \in Nat
    BY <2>1, OrderWaitAssumption DEF TypeInv, OrderWaitTypeOK
  <2> QED BY <2>2, Settled DEF TypeInv, OrderWaitTypeOK, SlotInv, Outcomes, NoOutcome, StatusInv
<1>a. /\ call # "idle" /\ answer # None => answer.filled <= done[cid]
      /\ call = "waiting" => outcome.filled <= done[cid]
      /\ \A c \in Cids : report[c] # None =>
            /\ report[c].filled <= done[c]
            /\ report[c].ended = "complete" /\ c \notin lost =>
                  /\ report[c].filled = done[c]
                  /\ done[c] = Requested \/ state[c] \in Terminal
  BY DEF TotalInv, ReportInv
<1>1. /\ call' # "idle" /\ answer' # None => answer'.filled <= done'[cid']
      /\ call' = "waiting" => outcome'.filled <= done'[cid']
  <2>1. CASE UNCHANGED <<call, cid, answer, outcome>>
    BY <1>0, <1>a, <2>1
  <2>2. CASE VenueAnswers
    <3>1. PICK filled \in IF feed = "delta" THEN {0, done[cid]} ELSE {0} :
            answer' = [NoOutcome EXCEPT
                          !.success = state[cid] # "rejected" \/ call = "querying",
                          !.status = IF state[cid] = "rejected" /\ call = "placing" THEN None
                                     ELSE IF feed = "delta" THEN state[cid] ELSE "open",
                          !.filled = filled]
      BY <2>2 DEF VenueAnswers
    <3>2. answer'.filled = filled
      BY <3>1 DEF NoOutcome
    <3>3. call \in {"placing", "querying"} /\ UNCHANGED <<done, call, cid, outcome>>
      BY <2>2 DEF VenueAnswers, callVars
    <3> QED BY <1>0, <3>1, <3>2, <3>3
  <2>3. CASE SubmitAndAwait \/ PostTimesOut \/ PlaceFails
    BY <2>3 DEF SubmitAndAwait, PostTimesOut, PlaceFails, Return
  <2>4. CASE PlaceReturns
    BY <1>0, <1>a, <2>4 DEF PlaceReturns, Return
  <2>5. CASE Wake \/ WaitTimesOut
    <3>1. \/ UNCHANGED <<call, cid, answer, outcome>>
          \/ call' = "idle"
      BY <2>5 DEF Wake, WaitTimesOut, Finish, Return, venueVars, callVars
    <3> QED BY <2>1, <3>1
  <2>6. ASSUME NEW c \in Cids, VenueReceives(c) \/ VenueFills(c) \/ VenueCancels(c)
        PROVE  UNCHANGED <<call, cid, answer, outcome>>
    BY <2>6 DEF VenueReceives, VenueFills, VenueCancels, callVars
  <2>7. CASE DeliverEvent \/ Rotate \/ KeyExpires \/ StreamBreaks \/ StreamReconnects
    BY <2>1, <2>7 DEF DeliverEvent, Rotate, KeyExpires, StreamBreaks, StreamReconnects,
                      venueVars, callVars
  <2> QED BY <2>1, <2>2, <2>3, <2>4, <2>5, <2>6, <2>7 DEF OrderWaitNext
<1>2. ASSUME NEW c \in Cids, report'[c] # None
      PROVE  /\ report'[c].filled <= done'[c]
             /\ report'[c].ended = "complete" /\ c \notin lost' =>
                   /\ report'[c].filled = done'[c]
                   /\ done'[c] = Requested \/ state'[c] \in Terminal
  <2>1. CASE report'[c] = report[c]
    <3>1. report[c] \in Outcomes /\ report[c].filled \in Nat
      BY <1>0, <1>2, <2>1
    <3>2. /\ done[c] = Requested => done'[c] = done[c]
          /\ state[c] \in Terminal => done'[c] = done[c] /\ state'[c] = state[c]
      BY Settled DEF StatusInv
    <3> QED BY <1>0, <1>2, <1>a, <2>1, <3>1, <3>2
  <2>2. CASE cid \in Cids /\ report' = [report EXCEPT ![cid] = NoOutcome]
    <3>1. CASE c = cid
      BY <1>0, <2>2, <3>1
    <3> QED BY <1>0, <2>1, <2>2, <3>1
  <2>3. ASSUME NEW ended \in {"complete", "timeout"}, cid \in Cids,
               call = "waiting", UNCHANGED <<state, done>>,
               report' = [report EXCEPT ![cid] = [Merge(fills[cid]) EXCEPT !.ended = ended]],
               ended = "complete" => cid \in woken /\ Complete(fills[cid])
        PROVE  /\ report'[c].filled <= done'[c]
               /\ report'[c].ended = "complete" /\ c \notin lost' =>
                     /\ report'[c].filled = done'[c]
                     /\ done'[c] = Requested \/ state'[c] \in Terminal
    <3>1. CASE c # cid
      BY <1>0, <2>1, <2>3, <3>1
    <3>2. CASE c = cid
      <4>1. /\ fills[c] \in Fills \cup {None}
            /\ c \in woken => fills[c] # None
            /\ c \in slots
        BY <2>3, <3>2 DEF TypeInv, OrderWaitTypeOK, SlotInv
      <4>2. Merge(fills[c]) \in Outcomes
        BY <4>1, MergeType DEF TypeInv
      <4>3. report'[c].filled = Merge(fills[c]).filled /\ report'[c].ended = ended
        BY <1>0, <2>3, <3>2, <4>2 DEF Outcomes
      <4>4. Merge(fills[c]).filled =
               IF fills[c] # None /\ Got(c) >= outcome.filled /\ Got(c) > 0
               THEN Got(c) ELSE outcome.filled
        BY <1>0 DEF Merge, Outcomes, Got
      <4>5. /\ Got(c) \in Nat /\ Got(c) <= done[c] /\ done[c] \in Nat
            /\ outcome.filled \in Nat /\ outcome.filled <= done[c]
        BY <1>0, <1>a, <2>3, <3>2, Counted, GotType
      <4>6. ASSUME ended = "complete", c \notin lost'
            PROVE  /\ fills[c] # None /\ Got(c) = done[c]
                   /\ done[c] = Requested \/ state[c] \in Terminal
        <5>1. Whole(c) /\ fills[c] # None /\ Complete(fills[c])
          BY <1>0, <2>3, <3>2, <4>1, <4>6 DEF Whole
        <5> QED BY <5>1, Counted
      <4> HIDE DEF Got, Merge
      <4> QED BY <2>3, <4>3, <4>4, <4>5, <4>6
    <3> QED BY <3>1, <3>2
  <2> QED BY <2>1, <2>2, <2>3, ReportKept
<1> QED BY <1>1, <1>2 DEF ReportInv

LEMMA TotalInit == ASSUME OrderWaitInit PROVE TotalInv
<1> USE DEF OrderWaitInit
<1>1. Len(pushes) = 0 /\ 1 .. Len(pushes) = {} /\ 0 .. Len(pushes) = {0}
  OBVIOUS
<1>2. LastInv /\ DownInv
  BY <1>1 DEF LastInv, DownInv
<1>3. SnapshotInv
  BY <1>1 DEF SnapshotInv, Got
<1>4. ReportInv
  BY DEF ReportInv
<1>5. DeltaInv
  <2> SUFFICES ASSUME NEW c \in Cids
               PROVE  \E f : LedgerOf(c, f, pushes, Got(c), done[c], Whole(c))
    BY DEF DeltaInv
  <2> DEFINE f == [i \in 0 .. 0 |-> 0]
  <2>1. f \in [0 .. 0 -> Nat] /\ f[0] = 0 /\ Got(c) = 0 /\ done[c] = 0
    BY DEF Got
  <2> HIDE DEF f
  <2>2. LedgerOf(c, f, pushes, Got(c), done[c], Whole(c))
    BY <1>1, <2>1 DEF LedgerOf
  <2> QED BY <2>2
<1> QED BY <1>2, <1>3, <1>4, <1>5 DEF TotalInv

\* The quantities are right in every reachable state.
LEMMA TotalInvariant == OrderWaitSpec => []TotalInv
<1>1. TypeInv /\ StatusInv /\ TotalInv /\ [OrderWaitNext]_waitVars => TotalInv'
  <2> SUFFICES ASSUME TypeInv, StatusInv, TotalInv, [OrderWaitNext]_waitVars
               PROVE  TotalInv'
    OBVIOUS
  <2>1. CASE OrderWaitNext
    <3>1. DownInv'
      BY <2>1, DownStep DEF TotalInv
    <3> QED BY <2>1, <3>1, LastStep, SnapshotStep, DeltaStep, ReportInvStep DEF TotalInv
  <2>2. CASE UNCHANGED waitVars
    <3>1. UNCHANGED <<feed, state, done, answer, pushes, link, lost, slots, fills, cid, call,
                      outcome, report>>
      BY <2>2 DEF waitVars, venueVars, streamVars, trackerVars, callVars
    <3>2. \A c \in Cids : Got(c)' = Got(c) /\ Whole(c)' = Whole(c)
      BY <3>1 DEF Got, Whole
    <3>3. LastInv' /\ DownInv'
      BY <3>1 DEF TotalInv, LastInv, DownInv
    <3>4. SnapshotInv'
      BY <3>1, <3>2 DEF TotalInv, SnapshotInv
    <3>5. DeltaInv'
      BY <3>1, <3>2 DEF TotalInv, DeltaInv
    <3>6. ReportInv'
      BY <3>1 DEF TotalInv, ReportInv
    <3> QED BY <3>3, <3>4, <3>5, <3>6 DEF TotalInv
  <2> QED BY <2>1, <2>2
<1> QED BY <1>1, TotalInit, TypeInvariant, StatusInvariant, PTL DEF OrderWaitSpec

\* No call reports more than its order executed, whatever arrives twice, late or not at
\* all, and a wait that ended with the order complete reports all of it unless a push was
\* lost: submit_and_await's merge, LegOutcome.add and the venue's two kinds of feed agree.
THEOREM ReportsAreTrue == OrderWaitSpec => []ReportsWhatFilled
<1>1. TotalInv => ReportsWhatFilled
  BY DEF TotalInv, ReportInv, ReportsWhatFilled, Returned
<1> QED BY <1>1, TotalInvariant, PTL
=============================================================================
