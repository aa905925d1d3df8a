----------------------- MODULE DoorController_proofs -----------------------
(* The safety properties of the Jetson's door state machine, for every        *)
(* tolerance, hold and maximum: its state is what it last sent, it does not   *)
(* close on a short occlusion, and opens by itself only for a stable item.    *)
EXTENDS DoorController, FiniteSetTheorems, FunctionTheorems, WellFoundedInduction, TLAPS

LEMMA WireInit == Init => FollowsWire
  BY DEF Init, FollowsWire

LEMMA WireStep == FollowsWire /\ [Next]_vars => FollowsWire'
<1> SUFFICES ASSUME FollowsWire, [Next]_vars PROVE FollowsWire'
  OBVIOUS
<1> USE DEF FollowsWire
<1>1. CASE UNCHANGED <<current_state, active_item, wire>>
  BY <1>1
<1>2. ASSUME NEW item, Opened(item) PROVE FollowsWire'
  BY <1>2 DEF Opened
<1>3. CASE Closed
  BY <1>3 DEF Closed
<1>4. CASE process_detections
  <2>1. CASE handle_closed_state(frame)
    BY <2>1, <1>1, <1>2 DEF handle_closed_state, door
  <2>2. CASE handle_open_state(frame)
    BY <2>2, <1>1, <1>3 DEF handle_open_state, CloseSucceeds, CloseFails
  <2> QED
    BY <1>4, <2>1, <2>2 DEF process_detections
<1>5. CASE Tick
  BY <1>5, <1>1 DEF Tick
<1>6. ASSUME NEW newest \in Frames \cup {NoFrame}, Capture(newest) PROVE FollowsWire'
  BY <1>6, <1>1 DEF Capture, door, history
<1>7. ASSUME NEW item \in Items \cup {"ALL", NoItem}, request_open(item) PROVE FollowsWire'
  BY <1>7, <1>2 DEF request_open
<1>8. CASE request_close
  BY <1>8, <1>3 DEF request_close
<1>9. CASE UNCHANGED vars
  BY <1>9, <1>1 DEF vars, door, history
<1> QED
  BY <1>4, <1>5, <1>6, <1>7, <1>8, <1>9 DEF Next

(* The state machine never believes more than it has sent, whichever writes   *)
(* failed.                                                                    *)
THEOREM StateFollowsWire == Spec => []FollowsWire
  BY WireInit, WireStep, PTL DEF Spec

-----------------------------------------------------------------------------
LEMMA LostInit == ControllerAssumption /\ Init => LostInv
  BY DEF ControllerAssumption, Init, LostInv

(* A look that leaves the door OPEN counts as a loss only what is out of      *)
(* sight, once the hold is over.                                              *)
LEMMA LostAfterLook ==
  ASSUME ControllerAssumption, LostInv, current_state = "OPEN", NEW top, CloseFails(top)
  PROVE LostInv'
<1>1. CASE top = active_item /\ openAge < MaxOpen
  BY <1>1 DEF ControllerAssumption, LostInv, CloseFails, LostAfter, AtMost
<1>2. CASE openAge >= MaxOpen
  BY <1>2 DEF ControllerAssumption, LostInv, CloseFails, LostAfter, AtMost
<1>3. CASE top # active_item /\ openAge < MaxOpen
  BY <1>3 DEF ControllerAssumption, LostInv, CloseFails, LostAfter, AtMost
<1> QED
  BY <1>1, <1>2, <1>3 DEF LostInv, ControllerAssumption

LEMMA LostStep == ControllerAssumption /\ LostInv /\ [Next]_vars => LostInv'
<1> SUFFICES ASSUME ControllerAssumption, LostInv, [Next]_vars PROVE LostInv'
  OBVIOUS
<1>1. CASE UNCHANGED <<door, unseen>>
  BY <1>1 DEF LostInv, door
<1>2. ASSUME NEW item, Opened(item) PROVE LostInv'
  BY <1>2 DEF Opened, LostInv, ControllerAssumption
<1>3. CASE Closed
  BY <1>3 DEF Closed, LostInv, ControllerAssumption
<1>4. CASE process_detections
  <2>1. CASE handle_closed_state(frame)
    BY <2>1, <1>1, <1>2 DEF handle_closed_state
  <2>2. CASE handle_open_state(frame)
    BY <2>2, <1>3, LostAfterLook DEF handle_open_state, CloseSucceeds
  <2> QED
    BY <1>4, <2>1, <2>2 DEF process_detections
<1>5. CASE Tick
  BY <1>5 DEF Tick, LostInv, ControllerAssumption, AtMost
<1>6. ASSUME NEW newest \in Frames \cup {NoFrame}, Capture(newest) PROVE LostInv'
  BY <1>6, <1>1 DEF Capture, history
<1>7. ASSUME NEW item \in Items \cup {"ALL", NoItem}, request_open(item) PROVE LostInv'
  BY <1>7, <1>2 DEF request_open
<1>8. CASE request_close
  BY <1>8, <1>3 DEF request_close
<1>9. CASE UNCHANGED vars
  BY <1>9, <1>1 DEF vars, history
<1> QED
  BY <1>4, <1>5, <1>6, <1>7, <1>8, <1>9 DEF Next

(* A look that closes the door has found the hold over and the item gone, or  *)
(* the maximum over.                                                          *)
LEMMA CloseIsDue ==
  ASSUME ControllerAssumption, LostInv, Next,
         current_state = "OPEN", current_state' = "CLOSED", ready, ~ready'
  PROVE openAge >= MaxOpen \/ (openAge >= MinHold /\ unseen + 1 >= LostTolerance)
<1>1. process_detections
  BY DEF Next, Tick, Capture, request_open, request_close
<1>2. CloseSucceeds(TopItem(frame))
  BY <1>1 DEF process_detections, handle_closed_state, handle_open_state, CloseFails
<1>3. CASE openAge < MaxOpen
  <2>1. openAge >= MinHold /\ LostAfter(TopItem(frame)) >= LostTolerance
    BY <1>2, <1>3 DEF CloseSucceeds, MayClose, LostInv, ControllerAssumption
  <2>2. LostAfter(TopItem(frame)) <= unseen + 1
    BY <1>3 DEF LostAfter, AtMost, LostInv, ControllerAssumption
  <2> QED
    BY <2>1, <2>2 DEF LostAfter, AtMost, LostInv, ControllerAssumption
<1> QED
  BY <1>3 DEF LostInv, ControllerAssumption

(* The loop never closes the door on a short occlusion.                       *)
THEOREM NoEarlyClose == Spec => ClosesWhenGone
<1>1. Spec => []LostInv
  BY LostInit, LostStep, ControllerAssumption, PTL DEF Spec
<1>2. LostInv /\ [Next]_vars
        => [current_state = "OPEN" /\ current_state' = "CLOSED" /\ ready /\ ~ready'
            => \/ openAge >= MaxOpen
               \/ openAge >= MinHold /\ unseen + 1 >= LostTolerance]_vars
  BY CloseIsDue, ControllerAssumption
<1> QED
  BY <1>1, <1>2, PTL DEF Spec, ClosesWhenGone
-----------------------------------------------------------------------------
(* A detection list has a most confident detection, and the first of equals:  *)
(* the shortest prefix without one would have to be empty.                    *)
BestOf(dets, n, d) ==
  /\ d \in 1..n
  /\ \A e \in 1..n : dets[e].confidence <= dets[d].confidence
  /\ \A e \in 1..n : dets[e].confidence = dets[d].confidence => d <= e

LEMMA PrefixHasBest ==
  ASSUME NEW dets \in Seq(Detections), NEW n \in 1..(Len(dets) - 1),
         NEW d, BestOf(dets, n, d)
  PROVE  \E b : BestOf(dets, n + 1, b)
<1> DEFINE conf(e) == dets[e].confidence
<1>1. \A e \in 1..(n + 1) : conf(e) \in Nat
  <2>1. \A e \in 1..(n + 1) : e \in 1..Len(dets) /\ dets[e] \in Detections
    OBVIOUS
  <2> QED
    BY <2>1 DEF Detections
<1>2. /\ d \in 1..n
      /\ \A e \in 1..n : conf(e) <= conf(d)
      /\ \A e \in 1..n : conf(e) = conf(d) => d <= e
  BY DEF BestOf
<1>3. n \in Nat /\ n + 1 \in 1..(n + 1)
  <2>1. Len(dets) \in Nat
    OBVIOUS
  <2> QED
    BY <2>1
<1>4. d \in 1..(n + 1) /\ d <= n + 1 /\ \A e \in 1..(n + 1) : e \in 1..n \/ e = n + 1
  BY <1>2, <1>3
<1>5. conf(d) \in Nat /\ conf(n + 1) \in Nat /\ \A e \in 1..n : conf(e) \in Nat
  BY <1>1, <1>3, <1>4
<1> HIDE DEF conf
<1>6. CASE conf(n + 1) <= conf(d)
  <2>1. /\ \A e \in 1..(n + 1) : conf(e) <= conf(d)
        /\ \A e \in 1..(n + 1) : conf(e) = conf(d) => d <= e
    BY <1>2, <1>4, <1>6
  <2>2. BestOf(dets, n + 1, d)
    BY <1>4, <2>1, Zenon DEF BestOf, conf
  <2> QED
    BY <2>2
<1>7. CASE conf(d) < conf(n + 1)
  <2>1. \A e \in 1..n : conf(e) < conf(n + 1)
    <3> SUFFICES ASSUME NEW e \in 1..n PROVE conf(e) < conf(n + 1)
      OBVIOUS
    <3>1. conf(e) \in Nat /\ conf(e) <= conf(d)
      BY <1>2, <1>5
    <3> QED
      BY <1>5, <1>7, <3>1
  <2>2. \A e \in 1..n : conf(e) <= conf(n + 1) /\ conf(e) # conf(n + 1)
    <3> SUFFICES ASSUME NEW e \in 1..n PROVE conf(e) <= conf(n + 1) /\ conf(e) # conf(n + 1)
      OBVIOUS
    <3> QED
      BY <1>5, <2>1
  <2>3. n + 1 <= n + 1 /\ conf(n + 1) <= conf(n + 1)
    BY <1>3, <1>5
  <2>4. /\ \A e \in 1..(n + 1) : conf(e) <= conf(n + 1)
        /\ \A e \in 1..(n + 1) : conf(e) = conf(n + 1) => n + 1 <= e
    BY <1>4, <2>2, <2>3, Zenon
  <2>5. BestOf(dets, n + 1, n + 1)
    BY <1>3, <2>4, Zenon DEF BestOf, conf
  <2> QED
    BY <2>5
<1>8. conf(n + 1) <= conf(d) \/ conf(d) < conf(n + 1)
  BY <1>5
<1> QED
  BY <1>6, <1>7, <1>8

LEMMA LeastNatural ==
  ASSUME NEW S, S \subseteq Nat, S # {}
  PROVE  \E n \in S : \A k \in S : n <= k
<1>1. PICK n \in S : \A k \in S : <<k, n>> \notin OpToRel(<, Nat)
  BY WFMin, NatLessThanWellFounded, Zenon
<1>2. \A k \in S : ~(k < n)
  BY <1>1, Zenon DEF OpToRel
<1> QED
  BY <1>2

LEMMA BestIsThere ==
  ASSUME NEW dets \in Seq(Detections), dets # <<>>
  PROVE  Best(dets) \in DOMAIN dets
<1> DEFINE Has(n) == \E d : BestOf(dets, n, d)
           bare == {n \in 1..Len(dets) : ~Has(n)}
<1>1. Len(dets) \in Nat \ {0} /\ DOMAIN dets = 1..Len(dets)
  OBVIOUS
<1>2. Has(1)
  <2>1. 1 \in 1..Len(dets) /\ dets[1] \in Detections
    BY <1>1
  <2>2. dets[1].confidence \in Nat
    BY <2>1 DEF Detections
  <2>3. BestOf(dets, 1, 1)
    BY <2>2 DEF BestOf
  <2> QED
    BY <2>3
<1>3. \A n \in 1..(Len(dets) - 1) : Has(n) => Has(n + 1)
  BY PrefixHasBest
<1> HIDE DEF Has
<1>4. bare = {}
  <2> SUFFICES ASSUME bare # {} PROVE FALSE
    OBVIOUS
  <2>1. PICK n \in bare : \A k \in bare : n <= k
    <3>1. bare \subseteq Nat
      BY <1>1
    <3> HIDE DEF bare
    <3> QED
      BY <3>1, LeastNatural
  <2>2. n # 1 /\ n \in 1..Len(dets) /\ ~Has(n)
    BY <1>2
  <2>3. n - 1 \in 1..(Len(dets) - 1) /\ ~(n <= n - 1)
    BY <1>1, <2>2
  <2>4. Has(n - 1)
    <3> SUFFICES ASSUME ~Has(n - 1) PROVE FALSE
      OBVIOUS
    <3>1. n - 1 \in 1..Len(dets)
      BY <1>1, <2>3
    <3>2. n - 1 \in bare
      BY <3>1, Zenon
    <3> QED
      BY <2>1, <2>3, <3>2
  <2>5. Has((n - 1) + 1) /\ (n - 1) + 1 = n
    BY <1>3, <2>2, <2>3, <2>4
  <2> QED
    BY <2>2, <2>5
<1>5. Has(Len(dets))
  BY <1>1, <1>4
<1>6. PICK d : BestOf(dets, Len(dets), d)
  BY <1>5 DEF Has
<1> QED
  BY <1>1, <1>6 DEF Best, BestOf

LEMMA TopItemType ==
  ASSUME ControllerAssumption, NEW dets \in Frames
  PROVE  TopItem(dets) \in Items \cup {NoItem} /\ Accepted(dets) \subseteq Items
<1>1. dets \in Seq(Detections)
  BY DEF ControllerAssumption
<1>2. \A d \in DOMAIN dets : dets[d].item \in Items
  <2>1. \A d \in DOMAIN dets : dets[d] \in Detections
    BY <1>1
  <2> QED
    BY <2>1 DEF Detections
<1>3. CASE dets = <<>>
  <2>1. TopItem(dets) = NoItem
    BY <1>3 DEF TopItem
  <2>2. Accepted(dets) \subseteq Items
    BY <1>2 DEF Accepted
  <2> QED
    BY <2>1, <2>2
<1>4. CASE dets # <<>>
  <2>1. Best(dets) \in DOMAIN dets
    BY <1>1, <1>4, BestIsThere
  <2>2. TopItem(dets) \in Items \cup {NoItem}
    BY <1>2, <1>4, <2>1 DEF TopItem
  <2>3. Accepted(dets) \subseteq Items
    BY <1>2 DEF Accepted
  <2> QED
    BY <2>2, <2>3
<1> QED
  BY <1>3, <1>4

Looks == [items : SUBSET Items, age : 0..StableTicks]

(* The parts of the type invariant that a step changes together.              *)
DoorType ==
  /\ current_state \in {"OPEN", "CLOSED"} /\ active_item \in Items \cup {"ALL", NoItem}
  /\ lost_count \in 0..LostTolerance /\ openAge \in 0..MaxOpen
  /\ wire \in Commands /\ unseen \in Nat
CandidateType ==
  /\ candidate_item \in Items \cup {NoItem}
  /\ consecutive_count \in Nat /\ miss_count \in 0..(MissTolerance + 1)
  /\ candidateAge \in 0..StableTicks
LoopType ==
  auto_open \in BOOLEAN /\ ready \in BOOLEAN /\ frame \in Frames \cup {NoFrame}
LogType == log \in Seq(Looks)

LEMMA TypeInit == ControllerAssumption /\ Init => TypeOK
<1> SUFFICES ASSUME ControllerAssumption, Init PROVE TypeOK
  OBVIOUS
<1>1. wire \in Commands
  BY DEF Init, Commands
<1>2. DoorType /\ CandidateType
  BY <1>1 DEF ControllerAssumption, Init, DoorType, CandidateType
<1>3. LoopType
  BY DEF Init, LoopType
<1>4. LogType
  BY DEF Init, LogType
<1> QED
  BY <1>2, <1>3, <1>4 DEF TypeOK, DoorType, CandidateType, LoopType, LogType, Looks

LEMMA OpenedType ==
  ASSUME ControllerAssumption, NEW item \in Items \cup {"ALL"}, Opened(item)
  PROVE  DoorType'
  BY DEF ControllerAssumption, Opened, DoorType, Commands

LEMMA ClosedType ==
  ASSUME ControllerAssumption, Closed
  PROVE  DoorType' /\ LogType'
<1>1. DoorType'
  BY DEF ControllerAssumption, Closed, DoorType, Commands
<1>2. LogType'
  BY DEF Closed, LogType
<1> QED
  BY <1>1, <1>2

LEMMA ForgottenType ==
  ASSUME ControllerAssumption, CandidateType, ForgetCandidate,
         miss_count' \in {0, miss_count, AtMost(miss_count + 1, MissTolerance + 1)}
  PROVE  CandidateType'
  BY DEF ControllerAssumption, CandidateType, ForgetCandidate, AtMost

LEMMA CandidateStep ==
  ASSUME ControllerAssumption, CandidateType, NEW top \in Items \cup {NoItem}, update_candidate(top)
  PROVE  CandidateType'
<1>1. CASE top = NoItem
  <2>1. miss_count' \in 0..(MissTolerance + 1)
    BY <1>1 DEF ControllerAssumption, CandidateType, update_candidate, AtMost
  <2>2. CASE miss_count' > MissTolerance
    BY <1>1, <2>1, <2>2 DEF ControllerAssumption, CandidateType, update_candidate, ForgetCandidate
  <2>3. CASE ~(miss_count' > MissTolerance)
    BY <1>1, <2>1, <2>3 DEF CandidateType, update_candidate
  <2> QED
    BY <2>2, <2>3
<1>2. CASE top # NoItem
  BY <1>2 DEF ControllerAssumption, CandidateType, update_candidate, AtMost
<1> QED
  BY <1>1, <1>2

LEMMA RecordType ==
  ASSUME ControllerAssumption, LogType, NEW dets \in Frames, Record(dets)
  PROVE  LogType'
<1> DEFINE look == [items |-> Accepted(dets), age |-> 0]
           longer == Append(log, look)
<1>1. look \in Looks
  BY TopItemType DEF Looks, ControllerAssumption
<1>2. longer \in Seq(Looks) /\ longer # <<>>
  BY <1>1 DEF LogType
<1>3. log' = longer \/ log' = Tail(longer)
  BY DEF Record
<1> HIDE DEF longer
<1> QED
  BY <1>2, <1>3 DEF LogType

LEMMA TypeStep == ControllerAssumption /\ TypeOK /\ [Next]_vars => TypeOK'
<1> SUFFICES ASSUME ControllerAssumption, DoorType, CandidateType, LoopType, LogType, [Next]_vars
             PROVE  DoorType' /\ CandidateType' /\ LoopType' /\ LogType'
  BY DEF TypeOK, DoorType, CandidateType, LoopType, LogType, Looks
<1>1. CASE Tick
  <2>1. LoopType' /\ DoorType'
    BY <1>1 DEF Tick, LoopType, DoorType, ControllerAssumption, AtMost
  <2>2. CandidateType'
    BY <1>1 DEF Tick, CandidateType, ControllerAssumption, AtMost
  <2>3. LogType'
    <3>1. ASSUME NEW k \in DOMAIN log PROVE [log[k] EXCEPT !.age = AtMost(@ + 1, StableTicks)] \in Looks
      <4>1. log[k] \in Looks
        BY DEF LogType
      <4>2. log[k].age \in 0..StableTicks
        BY <4>1 DEF Looks
      <4>3. AtMost(log[k].age + 1, StableTicks) \in 0..StableTicks
        BY <4>2 DEF AtMost, ControllerAssumption
      <4> QED
        BY <4>1, <4>3 DEF Looks
    <3>2. DOMAIN log = 1..Len(log) /\ Len(log) \in Nat
      BY DEF LogType
    <3>3. log' = [k \in 1..Len(log) |-> [log[k] EXCEPT !.age = AtMost(@ + 1, StableTicks)]]
      BY <1>1, <3>2 DEF Tick
    <3> QED
      BY <3>1, <3>2, <3>3 DEF LogType
  <2> QED
    BY <2>1, <2>2, <2>3
<1>2. ASSUME NEW newest \in Frames \cup {NoFrame}, Capture(newest)
      PROVE  DoorType' /\ CandidateType' /\ LoopType' /\ LogType'
  BY <1>2 DEF Capture, door, candidate, history, LoopType, DoorType, CandidateType, LogType
<1>3. CASE process_detections
  <2>1. frame \in Frames /\ LoopType'
    BY <1>3 DEF process_detections, Look, LoopType
  <2>2. TopItem(frame) \in Items \cup {NoItem}
    BY <2>1, TopItemType
  <2>3. CASE handle_closed_state(frame)
    <3>1. CandidateType'
      BY <2>2, <2>3, CandidateStep DEF handle_closed_state
    <3>2. LogType'
      BY <2>1, <2>3, RecordType DEF handle_closed_state
    <3>3. DoorType'
      BY <2>2, <2>3, OpenedType DEF handle_closed_state, door, DoorType
    <3> QED
      BY <2>1, <3>1, <3>2, <3>3
  <2>4. CASE handle_open_state(frame)
    <3>1. CASE CloseSucceeds(TopItem(frame))
      BY <2>1, <3>1, ClosedType, ForgottenType DEF CloseSucceeds
    <3>2. CASE CloseFails(TopItem(frame))
      <4>1. CandidateType' /\ LogType'
        BY <3>2 DEF CloseFails, candidate, CandidateType, LogType
      <4>2. LostAfter(TopItem(frame)) \in 0..LostTolerance
        BY DEF LostAfter, AtMost, DoorType, ControllerAssumption
      <4>3. lost_count' \in 0..LostTolerance /\ unseen' \in Nat
        BY <3>2, <4>2 DEF CloseFails, AtMost, DoorType, ControllerAssumption
      <4> QED
        BY <2>1, <3>2, <4>1, <4>3 DEF CloseFails, DoorType
    <3> QED
      BY <2>4, <3>1, <3>2 DEF handle_open_state
  <2> QED
    BY <1>3, <2>3, <2>4 DEF process_detections
<1>4. ASSUME NEW item \in Items \cup {"ALL", NoItem}, request_open(item)
      PROVE  DoorType' /\ CandidateType' /\ LoopType' /\ LogType'
  <2>1. DoorType'
    BY <1>4, OpenedType DEF request_open, CandidateType
  <2> QED
    BY <1>4, <2>1 DEF request_open, CandidateType, LoopType, LogType, ControllerAssumption
<1>5. CASE request_close
  BY <1>5, ClosedType, ForgottenType DEF request_close, LoopType
<1>6. CASE UNCHANGED vars
  BY <1>6 DEF vars, door, candidate, history, LoopType, DoorType, CandidateType, LogType
<1> QED
  BY <1>1, <1>2, <1>3, <1>4, <1>5, <1>6 DEF Next

(* Counters, ages, candidate, log and commands keep their types.              *)
THEOREM ControllerType == Spec => []TypeOK
  BY TypeInit, TypeStep, ControllerAssumption, PTL DEF Spec
-----------------------------------------------------------------------------
(* The loop opens only for a stable item.  While the door is closed, some     *)
(* look since it closed is the candidate's first: it is as old as the         *)
(* candidate, the item was accepted since then as often as was counted, last  *)
(* when the misses began, and never away for longer than is tolerated.  The   *)
(* log has these looks, or the last of them.                                  *)
Shown(item, looks, first) == {k \in first..Len(looks) : item \in looks[k].items}

(* No MissTolerance + 1 looks in a row without the item.                      *)
Covers(item, looks, first) ==
  \A k \in first..(Len(looks) - MissTolerance) :
    k..(k + MissTolerance) \cap Shown(item, looks, first) # {}

Held(item, looks, age, count, misses, first) ==
  /\ first \in 1..Len(looks) /\ item \in looks[first].items
  /\ looks[first].age >= age
  /\ Cardinality(Shown(item, looks, first)) >= count
  /\ \E k \in Shown(item, looks, first) : k >= Len(looks) - misses
  /\ Covers(item, looks, first)

LEMMA ShownFinite ==
  ASSUME NEW item, NEW looks \in Seq(Looks), NEW first \in 1..Len(looks)
  PROVE  /\ IsFiniteSet(Shown(item, looks, first))
         /\ Cardinality(Shown(item, looks, first)) \in Nat
<1>1. first \in Int /\ Len(looks) \in Int
  OBVIOUS
<1>2. IsFiniteSet(first..Len(looks))
  BY <1>1, FS_Interval
<1>3. Shown(item, looks, first) \in SUBSET (first..Len(looks))
  BY DEF Shown
<1>4. IsFiniteSet(Shown(item, looks, first))
  BY <1>2, <1>3, FS_Subset
<1> QED
  BY <1>4, FS_CardinalityType

(* What one more look adds.                                                   *)
LEMMA ShownLonger ==
  ASSUME NEW item, NEW looks \in Seq(Looks), NEW look \in Looks, NEW first \in 1..(Len(looks) + 1)
  PROVE  /\ Shown(item, Append(looks, look), first)
              = Shown(item, looks, first) \cup (IF item \in look.items THEN {Len(looks) + 1} ELSE {})
         /\ Len(looks) + 1 \notin Shown(item, looks, first)
<1> DEFINE n == Len(looks)
           longer == Append(looks, look)
<1>1. n \in Nat /\ Len(longer) = n + 1 /\ longer[n + 1] = look /\ \A k \in 1..n : longer[k] = looks[k]
  OBVIOUS
<1>2. \A k : k \in first..(n + 1) <=> k \in first..n \/ k = n + 1
  BY <1>1
<1>3. \A k \in first..n : k \in 1..n /\ k # n + 1
  BY <1>1
<1> HIDE DEF n, longer
<1>4. Len(looks) + 1 \notin Shown(item, looks, first)
  BY <1>3 DEF Shown, n
<1>5. Shown(item, longer, first) = {k \in first..(n + 1) : item \in longer[k].items}
  BY <1>1 DEF Shown
<1>6. Shown(item, looks, first) = {k \in first..n : item \in looks[k].items}
  BY DEF Shown, n
<1>7. \A k : k \in Shown(item, longer, first)
              <=> k \in Shown(item, looks, first) \/ (k = n + 1 /\ item \in look.items)
  BY <1>1, <1>2, <1>3, <1>5, <1>6
<1>8. Shown(item, longer, first)
        = Shown(item, looks, first) \cup (IF item \in look.items THEN {n + 1} ELSE {})
  <2>1. CASE item \in look.items
    <3>1. Shown(item, longer, first) = Shown(item, looks, first) \cup {n + 1}
      BY <1>7, <2>1, Zenon
    <3> QED
      BY <2>1, <3>1
  <2>2. CASE item \notin look.items
    <3>1. Shown(item, longer, first) = Shown(item, looks, first)
      BY <1>7, <2>2, Zenon
    <3> QED
      BY <2>2, <3>1
  <2> QED
    BY <2>1, <2>2
<1> QED
  BY <1>4, <1>8 DEF n, longer

LEMMA HeldNew ==
  ASSUME ControllerAssumption, NEW item, NEW looks \in Seq(Looks), NEW look \in Looks,
         item \in look.items
  PROVE  Held(item, Append(looks, look), 0, 1, 0, Len(looks) + 1)
<1> DEFINE n == Len(looks)
           longer == Append(looks, look)
           shown == Shown(item, longer, n + 1)
<1>1. n \in Nat /\ Len(longer) = n + 1 /\ longer[n + 1] = look /\ longer \in Seq(Looks)
  OBVIOUS
<1>2. look.age \in Nat
  BY DEF Looks, ControllerAssumption
<1> HIDE DEF n, longer
<1>3. shown = {n + 1}
  <2>1. \A k : k \in (n + 1)..(n + 1) <=> k = n + 1
    BY <1>1
  <2> QED
    BY <1>1, <2>1 DEF Shown
<1>4. Cardinality(shown) = 1
  BY <1>3, FS_Singleton
<1>5. \A k \in (n + 1)..(n + 1 - MissTolerance) : n + 1 \in k..(k + MissTolerance)
  BY <1>1 DEF ControllerAssumption
<1>6. n + 1 \in 1..Len(longer) /\ n + 1 >= Len(longer) - 0 /\ 1 >= 1
  BY <1>1
<1> HIDE DEF shown
<1>7. \A k \in (n + 1)..(Len(longer) - MissTolerance) : k..(k + MissTolerance) \cap shown # {}
  BY <1>1, <1>3, <1>5
<1>8. item \in longer[n + 1].items /\ longer[n + 1].age >= 0
  BY <1>1, <1>2
<1>9. Cardinality(shown) >= 1
  BY <1>4
<1>10. \E k \in shown : k >= Len(longer) - 0
  BY <1>3, <1>6
<1>11. Held(item, longer, 0, 1, 0, n + 1)
  BY <1>6, <1>7, <1>8, <1>9, <1>10, Zenon DEF Held, Covers, shown
<1> QED
  BY <1>11 DEF n, longer

(* A look adds to the count if it shows the item; a miss does not end the     *)
(* stretch while misses are tolerated.                                        *)
LEMMA HeldOn ==
  ASSUME ControllerAssumption, NEW item, NEW looks \in Seq(Looks), NEW look \in Looks,
         NEW age, NEW count \in Nat, NEW misses \in Nat, NEW first \in Nat,
         Held(item, looks, age, count, misses, first),
         NEW counted \in Nat, NEW missed \in Nat,
         missed <= MissTolerance,
         \/ item \in look.items /\ counted <= count + 1 /\ missed = 0
         \/ counted <= count /\ missed = misses + 1
  PROVE  Held(item, Append(looks, look), age, counted, missed, first)
<1> DEFINE n == Len(looks)
           longer == Append(looks, look)
           before == Shown(item, looks, first)
           after == Shown(item, longer, first)
<1>1. /\ n \in Nat /\ Len(longer) = n + 1 /\ longer[n + 1] = look /\ longer \in Seq(Looks)
      /\ \A k \in 1..n : longer[k] = looks[k]
  OBVIOUS
<1>2. first \in 1..n /\ first \in 1..(n + 1)
  BY <1>1 DEF Held
<1>3. longer[first] = looks[first] /\ item \in longer[first].items /\ longer[first].age >= age
  BY <1>1, <1>2 DEF Held
<1>4. after = before \cup (IF item \in look.items THEN {n + 1} ELSE {}) /\ n + 1 \notin before
  BY <1>2, ShownLonger
<1>5. IsFiniteSet(before) /\ Cardinality(before) \in Nat
  BY <1>2, ShownFinite
<1>6. /\ Cardinality(before) >= count
      /\ \E k \in before : k >= n - misses
      /\ \A k \in first..(n - MissTolerance) : k..(k + MissTolerance) \cap before # {}
  BY DEF Held, Covers
<1>7. before \subseteq first..n
  BY DEF Shown
<1> HIDE DEF n, longer, before, after
<1>8. Cardinality(after) >= counted
  <2>1. CASE item \in look.items
    <3>1. Cardinality(after) = Cardinality(before) + 1
      BY <1>4, <1>5, <2>1, FS_AddElement
    <3> QED
      BY <1>5, <1>6, <3>1
  <2>2. CASE item \notin look.items
    <3>1. after = before
      BY <1>4, <2>2
    <3> QED
      BY <1>5, <1>6, <2>2, <3>1
  <2> QED
    BY <2>1, <2>2
<1>9. PICK last \in after : last >= n + 1 - missed /\ last <= n + 1 /\ last \in Int
  <2>1. CASE item \in look.items /\ missed = 0
    <3>1. n + 1 \in after
      BY <1>4, <2>1
    <3>2. n + 1 >= n + 1 - missed /\ n + 1 <= n + 1 /\ n + 1 \in Int
      BY <1>1, <2>1
    <3> QED
      BY <3>1, <3>2
  <2>2. CASE missed = misses + 1
    <3>1. PICK k \in before : k >= n - misses
      BY <1>6
    <3>2. k \in Int /\ k <= n
      BY <1>1, <1>2, <1>7, <3>1
    <3>3. k >= n + 1 - missed /\ k <= n + 1
      BY <1>1, <2>2, <3>1, <3>2
    <3>4. k \in after
      BY <1>4, <3>1
    <3> QED
      BY <3>2, <3>3, <3>4
  <2> QED
    BY <2>1, <2>2
<1>10. ASSUME NEW k \in first..(n + 1 - MissTolerance) PROVE k..(k + MissTolerance) \cap after # {}
  <2>1. MissTolerance \in Nat /\ k \in Int
    BY <1>1, <1>2 DEF ControllerAssumption
  <2>2. CASE k <= n - MissTolerance
    <3>1. k \in first..(n - MissTolerance)
      BY <1>1, <1>2, <2>1, <2>2
    <3>2. k..(k + MissTolerance) \cap before # {}
      BY <1>6, <3>1
    <3> QED
      BY <1>4, <3>2
  <2>3. CASE k = n + 1 - MissTolerance
    <3>1. last \in k..(k + MissTolerance)
      BY <1>1, <1>9, <2>1, <2>3
    <3> QED
      BY <1>9, <3>1
  <2> QED
    BY <1>1, <2>1, <2>2, <2>3
<1>11. Covers(item, longer, first)
  <2>1. Len(longer) - MissTolerance = n + 1 - MissTolerance
    BY <1>1
  <2> QED
    BY <1>10, <2>1, Zenon DEF Covers, after
<1>12. Held(item, longer, age, counted, missed, first)
  BY <1>1, <1>2, <1>3, <1>8, <1>9, <1>11 DEF Held, after
<1> QED
  BY <1>12 DEF longer

(* Time passes: every look of a log is one tick older.                        *)
Older(looks) == [k \in DOMAIN looks |-> [looks[k] EXCEPT !.age = AtMost(@ + 1, StableTicks)]]

LEMMA OlderLooks ==
  ASSUME ControllerAssumption, NEW looks \in Seq(Looks)
  PROVE  /\ Older(looks) \in Seq(Looks) /\ Len(Older(looks)) = Len(looks)
         /\ \A k \in 1..Len(looks) :
              /\ looks[k] \in Looks /\ Older(looks)[k].items = looks[k].items
              /\ Older(looks)[k].age = AtMost(looks[k].age + 1, StableTicks)
              /\ Older(looks)[k] = [looks[k] EXCEPT !.age = AtMost(looks[k].age + 1, StableTicks)]
<1> DEFINE older == Older(looks)
<1>1. Len(looks) \in Nat /\ DOMAIN looks = 1..Len(looks)
  OBVIOUS
<1>2. ASSUME NEW k \in 1..Len(looks)
      PROVE  /\ looks[k] \in Looks /\ older[k] \in Looks /\ older[k].items = looks[k].items
             /\ older[k].age = AtMost(looks[k].age + 1, StableTicks)
             /\ older[k] = [looks[k] EXCEPT !.age = AtMost(looks[k].age + 1, StableTicks)]
  <2> DEFINE was == looks[k]
  <2>1. was \in Looks
    BY <1>1
  <2>2. older[k] = [was EXCEPT !.age = AtMost(was.age + 1, StableTicks)]
    BY <1>1 DEF Older
  <2> HIDE DEF was, older
  <2>3. AtMost(was.age + 1, StableTicks) \in 0..StableTicks
    BY <2>1 DEF Looks, AtMost, ControllerAssumption
  <2>4. older[k] \in Looks /\ older[k].items = was.items /\ older[k].age = AtMost(was.age + 1, StableTicks)
    BY <2>1, <2>2, <2>3 DEF Looks
  <2> QED
    BY <2>1, <2>2, <2>4 DEF was
<1>3. DOMAIN older = 1..Len(looks)
  BY <1>1 DEF Older
<1>4. older = [k \in 1..Len(looks) |-> older[k]]
  BY <1>1, <1>3 DEF Older
<1> HIDE DEF older
<1>5. older \in Seq(Looks) /\ Len(older) = Len(looks)
  BY <1>1, <1>2, <1>3, <1>4
<1> QED
  BY <1>2, <1>5 DEF older

(* The first look ages with the candidate.                                    *)
LEMMA HeldAged ==
  ASSUME ControllerAssumption, NEW item, NEW looks \in Seq(Looks),
         NEW age \in Nat, NEW count, NEW misses, NEW first \in Nat,
         Held(item, looks, age, count, misses, first)
  PROVE  Held(item, Older(looks), AtMost(age + 1, StableTicks), count, misses, first)
<1> DEFINE older == Older(looks)
<1>1. Len(looks) \in Nat /\ DOMAIN looks = 1..Len(looks) /\ first \in 1..Len(looks)
  BY DEF Held
<1>2. ASSUME NEW k \in 1..Len(looks)
      PROVE  older[k].items = looks[k].items /\ older[k].age = AtMost(looks[k].age + 1, StableTicks)
  BY OlderLooks
<1>3. Len(older) = Len(looks)
  BY OlderLooks
<1> HIDE DEF older
<1>4. Shown(item, older, first) = Shown(item, looks, first)
  <2>1. \A k \in first..Len(looks) : k \in 1..Len(looks)
    BY <1>1
  <2> QED
    BY <1>2, <1>3, <2>1 DEF Shown
<1>5. older[first].age >= AtMost(age + 1, StableTicks)
  <2>1. looks[first].age \in Nat /\ looks[first].age >= age
    <3>1. looks[first] \in Looks
      BY <1>1
    <3> QED
      BY <3>1 DEF Held, Looks, ControllerAssumption
  <2>2. older[first].age = AtMost(looks[first].age + 1, StableTicks)
    BY <1>1, <1>2
  <2>3. AtMost(looks[first].age + 1, StableTicks) >= AtMost(age + 1, StableTicks)
    BY <2>1 DEF AtMost, ControllerAssumption
  <2> QED
    BY <2>2, <2>3
<1>6. item \in older[first].items
  BY <1>1, <1>2 DEF Held
<1>7. Held(item, older, AtMost(age + 1, StableTicks), count, misses, first)
  BY <1>1, <1>3, <1>4, <1>5, <1>6 DEF Held, Covers
<1> QED
  BY <1>7 DEF older

(* The log a run keeps is the end of what there was to log; it forgets only   *)
(* when it is full.                                                           *)
Gone(looks, full) == Len(full) - Len(looks)

IsEnd(looks, full) ==
  /\ Len(looks) <= Len(full)
  /\ \A k \in 1..Len(looks) : looks[k] = full[Gone(looks, full) + k]
  /\ Len(looks) < Len(full) => LogLength # 0 /\ Len(looks) = LogLength

(* In n stretches of MissTolerance + 1 looks the item is shown n times.       *)
LEMMA CoveredCount ==
  ASSUME ControllerAssumption, NEW item, NEW looks \in Seq(Looks),
         NEW first \in 1..(Len(looks) + 1), Covers(item, looks, first),
         NEW n \in Nat, Len(looks) - first + 1 >= n * (MissTolerance + 1)
  PROVE  Cardinality(Shown(item, looks, first)) >= n
<1> DEFINE len == Len(looks)
           w == MissTolerance + 1
           count(lo) == Cardinality(Shown(item, looks, lo))
           bad == {m \in Nat : \E lo \in first..(len + 1) : len - lo + 1 >= m * w /\ ~(count(lo) >= m)}
<1>1. len \in Nat /\ w \in Nat \ {0} /\ first \in 1..(len + 1) /\ w = MissTolerance + 1
      /\ MissTolerance \in Nat
  BY DEF ControllerAssumption
<1>2. \A lo \in first..(len + 1) : IsFiniteSet(Shown(item, looks, lo)) /\ count(lo) \in Nat
  <2> TAKE lo \in first..(len + 1)
  <2>1. CASE lo \in 1..len
    BY <2>1, ShownFinite
  <2>2. CASE lo = len + 1
    <3>1. lo..len = {}
      BY <1>1, <2>2
    <3>2. Shown(item, looks, lo) = {}
      BY <3>1 DEF Shown
    <3> QED
      BY <3>2, FS_EmptySet
  <2> QED
    BY <1>1, <2>1, <2>2
<1> SUFFICES ASSUME bad # {} PROVE FALSE
  <2> SUFFICES ASSUME bad = {} PROVE Cardinality(Shown(item, looks, first)) >= n
    OBVIOUS
  <2>1. first \in first..(len + 1) /\ len - first + 1 >= n * w
    BY <1>1
  <2> HIDE DEF len, w
  <2> QED
    BY <2>1
<1>3. PICK m \in bad : \A k \in bad : m <= k
  BY LeastNatural
<1>4. m \in Nat
  OBVIOUS
<1>5. PICK lo \in first..(len + 1) : len - lo + 1 >= m * w /\ ~(count(lo) >= m)
  BY <1>3
<1>6. lo \in Int /\ lo >= 1 /\ lo <= len + 1 /\ count(lo) \in Nat /\ lo >= first
  BY <1>1, <1>2
<1>7. m # 0
  BY <1>5, <1>6
<1>8. m - 1 \in Nat /\ m * w = (m - 1) * w + w /\ (m - 1) * w >= 0
  BY <1>1, <1>4, <1>7
<1> DEFINE up == lo + w
<1>9. up \in first..(len + 1) /\ len - up + 1 >= (m - 1) * w /\ lo \in first..(len - MissTolerance)
  BY <1>1, <1>5, <1>6, <1>8
<1>10. count(up) >= m - 1
  <2>1. m - 1 \notin bad
    BY <1>3, <1>4
  <2> QED
    BY <1>8, <1>9, <2>1
<1>11. PICK k \in lo..(lo + MissTolerance) : k \in Shown(item, looks, first)
  BY <1>9 DEF Covers
<1>12. k \in lo..len /\ k \notin up..len /\ \A j \in up..len : j \in lo..len
  BY <1>1, <1>6, <1>9, <1>11 DEF Shown
<1>13. Shown(item, looks, up) \cup {k} \in SUBSET Shown(item, looks, lo) /\ k \notin Shown(item, looks, up)
  BY <1>11, <1>12 DEF Shown
<1>14. Cardinality(Shown(item, looks, up) \cup {k}) = count(up) + 1
  BY <1>2, <1>9, <1>13, FS_AddElement
<1>15. Cardinality(Shown(item, looks, up) \cup {k}) <= count(lo)
  BY <1>2, <1>13, FS_Subset
<1>16. count(up) \in Nat
  BY <1>2, <1>9
<1> HIDE DEF count
<1> QED
  BY <1>4, <1>5, <1>6, <1>10, <1>14, <1>15, <1>16

(* What is shown at the end is shown in the log, counted from its own start.  *)
LEMMA ShownAtEnd ==
  ASSUME NEW item, NEW looks \in Seq(Looks), NEW full \in Seq(Looks), IsEnd(looks, full),
         NEW first \in (Gone(looks, full) + 1)..Len(full)
  PROVE  /\ first - Gone(looks, full) \in 1..Len(looks)
         /\ \A k \in Int : k \in Shown(item, looks, first - Gone(looks, full))
                             <=> k + Gone(looks, full) \in Shown(item, full, first)
         /\ Cardinality(Shown(item, looks, first - Gone(looks, full)))
              = Cardinality(Shown(item, full, first))
<1> DEFINE d == Gone(looks, full)
           here == Shown(item, looks, first - d)
           there == Shown(item, full, first)
           move == [k \in there |-> k - d]
<1>1. /\ Len(looks) \in Nat /\ Len(full) \in Nat /\ d \in Nat /\ d = Len(full) - Len(looks)
      /\ first \in Int /\ first >= d + 1 /\ first <= Len(full)
      /\ \A k \in 1..Len(looks) : looks[k] = full[d + k]
  BY DEF IsEnd, Gone
<1>2. first - d \in 1..Len(looks) /\ first \in 1..Len(full)
  BY <1>1
<1> HIDE DEF d
<1>3. ASSUME NEW k \in Int
      PROVE  k \in here <=> k + d \in there
  <2>1. k \in (first - d)..Len(looks) <=> k + d \in first..Len(full)
    BY <1>1
  <2>2. k \in (first - d)..Len(looks) => looks[k] = full[k + d]
    BY <1>1
  <2> QED
    BY <2>1, <2>2 DEF Shown
<1>4. there \subseteq Int /\ here \subseteq Int
  BY <1>1 DEF Shown
<1>5. IsFiniteSet(there)
  BY <1>2, ShownFinite
<1> HIDE DEF here, there
<1>6. \A k \in there : k - d \in here
  <2> TAKE k \in there
  <2>1. k - d \in Int /\ (k - d) + d = k
    BY <1>1, <1>4
  <2> QED
    BY <1>3, <2>1
<1>7. \A a, b \in there : move[a] = move[b] => a = b
  BY <1>1, <1>4
<1>8. \A t \in here : \E s \in there : move[s] = t
  <2> TAKE t \in here
  <2>1. t + d \in there /\ (t + d) - d = t
    BY <1>1, <1>3, <1>4
  <2> QED
    BY <2>1
<1>9. move \in [there -> here]
  BY <1>6
<1> HIDE DEF move
<1>10. move \in Bijection(there, here)
  BY <1>7, <1>8, <1>9, Fun_IsBij
<1>11. ExistsBijection(there, here)
  BY <1>10, Fun_ExistsBij, Zenon
<1>12. Cardinality(here) = Cardinality(there)
  BY <1>5, <1>11, FS_Bijection
<1> QED
  BY <1>2, <1>3, <1>12 DEF d, here, there


(* A full log is long enough for a stable stretch.                            *)
LogSuffices ==
  \/ LogLength = 0
  \/ /\ LogLength >= StableTicks + MissTolerance + 1
     /\ LogLength >= StableFrames * (MissTolerance + 1)

(* A look is at least as old as the looks after it are many, one more once    *)
(* the next may come.                                                         *)
Ages(looks, next) ==
  \A k \in 1..Len(looks) : looks[k].age >= AtMost(Len(looks) - k + next, StableTicks)

(* A stretch whose beginning the log still has is stable in the log.          *)
LEMMA EndHolds ==
  ASSUME ControllerAssumption, NEW item, NEW looks \in Seq(Looks), NEW full \in Seq(Looks),
         IsEnd(looks, full), NEW first \in (Gone(looks, full) + 1)..Len(full),
         first \in Shown(item, full, first), full[first].age >= StableTicks,
         Cardinality(Shown(item, full, first)) >= StableFrames, Covers(item, full, first)
  PROVE  Stable(item, looks)
<1> DEFINE d == Gone(looks, full)
           from == first - d
           shown == Shown(item, looks, from)
<1>1. /\ from \in 1..Len(looks)
      /\ \A k \in Int : k \in shown <=> k + d \in Shown(item, full, first)
      /\ Cardinality(shown) = Cardinality(Shown(item, full, first))
  BY ShownAtEnd
<1>2. /\ Len(looks) \in Nat /\ Len(full) \in Nat /\ d \in Nat /\ Len(full) = Len(looks) + d
      /\ first = from + d /\ from \in Int
      /\ \A k \in 1..Len(looks) : looks[k] = full[d + k]
  BY DEF IsEnd, Gone
<1>3. MissTolerance \in Nat
  BY DEF ControllerAssumption
<1>4. shown = {k \in from..Len(looks) : item \in looks[k].items}
  BY DEF Shown
<1> HIDE DEF d, from, shown
<1>5. from \in shown /\ looks[from].age >= StableTicks
  <2>1. from + d = first /\ d + from = first
    BY <1>2
  <2>2. from + d \in Shown(item, full, first)
    BY <2>1
  <2>3. looks[from] = full[first]
    BY <1>1, <1>2, <2>1
  <2> QED
    BY <1>1, <1>2, <2>2, <2>3
<1>6. ASSUME NEW k \in from..(Len(looks) - MissTolerance)
      PROVE  k..(k + MissTolerance) \cap shown # {}
  <2>1. k + d \in first..(Len(full) - MissTolerance) /\ k \in Int
    BY <1>2, <1>3
  <2>2. PICK j \in (k + d)..(k + d + MissTolerance) : j \in Shown(item, full, first)
    BY <2>1 DEF Covers
  <2>3. j - d \in k..(k + MissTolerance) /\ j - d \in Int /\ (j - d) + d = j
    BY <1>2, <1>3, <2>1, <2>2
  <2>4. j - d \in shown
    BY <1>1, <2>2, <2>3
  <2> QED
    BY <2>3, <2>4
<1>7. from \in DOMAIN looks
  BY <1>1
<1> QED
  BY <1>1, <1>4, <1>5, <1>6, <1>7 DEF Stable

(* What is shown from a look on is shown from any earlier one on.             *)
LEMMA ShownLater ==
  ASSUME NEW item, NEW looks \in Seq(Looks), NEW first \in Nat, NEW later \in Nat, first <= later
  PROVE  /\ \A k : k \in Shown(item, looks, later) <=> k \in Shown(item, looks, first) /\ k >= later
         /\ ControllerAssumption /\ Covers(item, looks, first) => Covers(item, looks, later)
<1>1. Len(looks) \in Nat
  OBVIOUS
<1>2. ASSUME NEW k PROVE k \in later..Len(looks) <=> k \in first..Len(looks) /\ k >= later
  BY <1>1
<1>3. \A k : k \in Shown(item, looks, later) <=> k \in Shown(item, looks, first) /\ k >= later
  BY <1>2 DEF Shown
<1>4. ASSUME MissTolerance \in Nat, Covers(item, looks, first),
             NEW k \in later..(Len(looks) - MissTolerance)
      PROVE  k..(k + MissTolerance) \cap Shown(item, looks, later) # {}
  <2>1. k \in first..(Len(looks) - MissTolerance)
    BY <1>1, <1>4
  <2>2. PICK j \in k..(k + MissTolerance) : j \in Shown(item, looks, first)
    BY <1>4, <2>1 DEF Covers
  <2>3. j >= later
    BY <1>1, <1>4, <2>2
  <2> QED
    BY <1>3, <2>2, <2>3
<1> QED
  BY <1>3, <1>4 DEF Covers, ControllerAssumption

(* The end of a stretch that is long and dense enough is a stable stretch.    *)
LEMMA HeldIsStable ==
  ASSUME ControllerAssumption, LogSuffices,
         NEW item, NEW looks \in Seq(Looks), NEW full \in Seq(Looks), IsEnd(looks, full),
         Ages(looks, 0), NEW age \in Nat, NEW count \in Nat, NEW misses, NEW first \in Nat,
         Held(item, full, age, count, misses, first), age >= StableTicks, count >= StableFrames
  PROVE  Stable(item, looks)
<1> DEFINE d == Gone(looks, full)
<1>1. /\ Len(looks) \in Nat /\ Len(full) \in Nat /\ d \in Nat /\ d = Len(full) - Len(looks)
      /\ Len(full) = Len(looks) + d
      /\ \A k \in 1..Len(looks) : looks[k] = full[d + k]
      /\ first \in 1..Len(full)
  BY DEF IsEnd, Gone, Held
<1>2. StableTicks \in Nat /\ StableFrames \in Nat /\ MissTolerance \in Nat
  BY DEF ControllerAssumption
<1>3. Covers(item, full, first) /\ first \in Shown(item, full, first)
  BY <1>1 DEF Held, Shown
<1> HIDE DEF d
<1>4. CASE first > d
  <2>1. full[first].age \in Nat /\ full[first].age >= age
    <3>1. full[first] \in Looks
      BY <1>1
    <3> QED
      BY <3>1 DEF Held, Looks, ControllerAssumption
  <2>2. Cardinality(Shown(item, full, first)) \in Nat /\ Cardinality(Shown(item, full, first)) >= count
    BY <1>1, ShownFinite DEF Held
  <2>3. full[first].age >= StableTicks /\ Cardinality(Shown(item, full, first)) >= StableFrames
    BY <1>2, <2>1, <2>2
  <2>4. first \in (d + 1)..Len(full)
    BY <1>1, <1>4
  <2> QED
    BY <1>3, <2>3, <2>4, EndHolds DEF d
<1>5. CASE first <= d
  <2> DEFINE shown == Shown(item, full, d + 1)
             wide == StableFrames * (MissTolerance + 1)
  <2>1. /\ Len(looks) >= StableTicks + MissTolerance + 1
        /\ Len(looks) >= wide
    <3>1. Len(looks) < Len(full)
      BY <1>1, <1>5
    <3>2. LogLength # 0 /\ Len(looks) = LogLength
      BY <3>1 DEF IsEnd
    <3> QED
      BY <3>2 DEF LogSuffices
  <2>2. d + 1 \in Nat /\ first <= d + 1 /\ d + 1 \in 1..(Len(full) + 1) /\ d + 1 \in first..(Len(full) - MissTolerance)
    BY <1>1, <1>2, <1>5, <2>1
  <2>3. /\ \A k : k \in shown <=> k \in Shown(item, full, first) /\ k >= d + 1
        /\ Covers(item, full, d + 1)
    BY <1>3, <2>2, ShownLater
  <2>4. Cardinality(shown) >= StableFrames
    <3>1. wide \in Int
      BY <1>2
    <3> HIDE DEF wide
    <3>2. Len(full) - (d + 1) + 1 >= wide
      BY <1>1, <2>1, <3>1
    <3> QED
      BY <1>2, <2>2, <2>3, <3>2, CoveredCount DEF wide
  <2>5. PICK k \in (d + 1)..(d + 1 + MissTolerance) : k \in shown
    <3>1. d + 1 \in (d + 1)..(Len(full) - MissTolerance)
      BY <1>1, <2>2
    <3> QED
      BY <2>3, <3>1 DEF Covers
  <2>6. shown \subseteq Nat
    BY <1>1 DEF Shown
  <2> HIDE DEF shown
  <2>7. PICK from \in shown : \A j \in shown : from <= j
    BY <2>5, <2>6, LeastNatural
  <2>8. from \in Nat /\ d + 1 <= from /\ from <= d + 1 + MissTolerance
    BY <1>1, <1>2, <2>3, <2>5, <2>6, <2>7
  <2>9. \A j : j \in Shown(item, full, from) <=> j \in shown /\ j >= from
    BY <2>2, <2>8, ShownLater DEF shown
  <2>10. Shown(item, full, from) = shown /\ Covers(item, full, from)
    <3>1. \A j : j \in Shown(item, full, from) <=> j \in shown
      BY <2>6, <2>7, <2>8, <2>9
    <3>2. Shown(item, full, from) = shown
      BY <3>1, Zenon
    <3> QED
      BY <2>2, <2>3, <2>8, <3>2, ShownLater
  <2>11. from \in (d + 1)..Len(full)
    BY <1>1, <1>2, <2>1, <2>8
  <2>12. full[from].age >= StableTicks
    <3>1. from - d \in 1..Len(looks) /\ d + (from - d) = from
      BY <1>1, <2>11
    <3>2. looks[from - d].age >= AtMost(Len(looks) - (from - d) + 0, StableTicks)
      BY <3>1 DEF Ages
    <3>3. AtMost(Len(looks) - (from - d) + 0, StableTicks) = StableTicks
      <4>1. /\ d \in Int /\ Len(looks) \in Int /\ from \in Int
            /\ StableTicks \in Int /\ MissTolerance \in Int
        BY <1>1, <1>2, <2>8
      <4>2. from <= d + 1 + MissTolerance /\ Len(looks) >= StableTicks + MissTolerance + 1
        BY <2>1, <2>8
      <4>3. ~(Len(looks) - (from - d) + 0 < StableTicks)
        BY <4>1, <4>2
      <4> QED
        BY <4>3 DEF AtMost
    <3>4. looks[from - d] = full[from]
      BY <1>1, <3>1
    <3> QED
      BY <3>2, <3>3, <3>4
  <2> QED
    BY <2>4, <2>7, <2>10, <2>11, <2>12, EndHolds DEF d
<1> QED
  BY <1>1, <1>4, <1>5

LEMMA TopIsAccepted ==
  ASSUME ControllerAssumption, NEW dets \in Frames, TopItem(dets) # NoItem
  PROVE  TopItem(dets) \in Accepted(dets)
<1>1. dets \in Seq(Detections) /\ dets # <<>>
  BY DEF ControllerAssumption, TopItem
<1>2. Best(dets) \in DOMAIN dets
  BY <1>1, BestIsThere
<1>3. dets[Best(dets)].passed /\ TopItem(dets) = dets[Best(dets)].item
  BY <1>1 DEF TopItem
<1> QED
  BY <1>2, <1>3 DEF Accepted

(* The log goes on as the longer one does.                                    *)
LogBound == LogLength # 0 => Len(log) <= LogLength

LEMMA EndGoesOn ==
  ASSUME ControllerAssumption, LogType, LogBound, NEW full \in Seq(Looks), IsEnd(log, full),
         NEW dets \in Frames, Record(dets)
  PROVE  /\ LogBound'
         /\ IsEnd(log', Append(full, [items |-> Accepted(dets), age |-> 0]))
<1> DEFINE look == [items |-> Accepted(dets), age |-> 0]
           longer == Append(log, look)
           fuller == Append(full, look)
<1>1. look \in Looks
  BY TopItemType DEF Looks, ControllerAssumption
<1>2. log' = IF LogLength = 0 \/ Len(longer) <= LogLength THEN longer ELSE Tail(longer)
  BY DEF Record
<1>3. log \in Seq(Looks) /\ Len(log) \in Nat /\ Len(full) \in Nat /\ LogLength \in Nat
  BY DEF LogType, ControllerAssumption
<1> HIDE DEF look
<1>4. /\ longer \in Seq(Looks) /\ Len(longer) = Len(log) + 1 /\ longer[Len(log) + 1] = look
      /\ \A k \in 1..Len(log) : longer[k] = log[k]
      /\ fuller \in Seq(Looks) /\ Len(fuller) = Len(full) + 1 /\ fuller[Len(full) + 1] = look
      /\ \A k \in 1..Len(full) : fuller[k] = full[k]
  BY <1>1, <1>3
<1>5. /\ Len(log) <= Len(full)
      /\ \A k \in 1..Len(log) : log[k] = full[Len(full) - Len(log) + k]
      /\ Len(log) < Len(full) => LogLength # 0 /\ Len(log) = LogLength
  BY DEF IsEnd, Gone
<1> HIDE DEF longer, fuller
<1>6. \A k \in 1..Len(longer) : longer[k] = fuller[Len(full) - Len(log) + k]
  <2> TAKE k \in 1..Len(longer)
  <2>1. CASE k \in 1..Len(log)
    <3>1. Len(full) - Len(log) + k \in 1..Len(full)
      BY <1>3, <1>5, <2>1
    <3> QED
      BY <1>4, <1>5, <2>1, <3>1
  <2>2. CASE k = Len(log) + 1
    <3>1. Len(full) - Len(log) + k = Len(full) + 1
      BY <1>3, <2>2
    <3> QED
      BY <1>4, <2>2, <3>1
  <2> QED
    BY <1>3, <1>4, <2>1, <2>2
<1>7. CASE LogLength = 0 \/ Len(longer) <= LogLength
  <2>1. log' = longer
    BY <1>2, <1>7
  <2>2. Len(log) = Len(full)
    BY <1>3, <1>4, <1>5, <1>7
  <2>3. Len(fuller) - Len(longer) = Len(full) - Len(log) /\ Len(longer) = Len(fuller)
    BY <1>3, <1>4, <2>2
  <2>4. IsEnd(longer, fuller)
    BY <1>3, <1>4, <1>6, <2>3 DEF IsEnd, Gone
  <2>5. LogBound'
    BY <1>7, <2>1 DEF LogBound
  <2> QED
    BY <2>1, <2>4, <2>5 DEF fuller, look
<1>8. CASE LogLength # 0 /\ ~(Len(longer) <= LogLength)
  <2>1. log' = Tail(longer)
    BY <1>2, <1>8
  <2>2. Len(log) = LogLength
    BY <1>3, <1>4, <1>8 DEF LogBound
  <2>3. Len(log') = Len(log) /\ \A k \in 1..Len(log) : log'[k] = longer[k + 1]
    BY <1>3, <1>4, <2>1
  <2>4. Len(fuller) - Len(log') = Len(full) - Len(log) + 1
    BY <1>3, <1>4, <2>3
  <2>5. \A k \in 1..Len(log') : log'[k] = fuller[Len(fuller) - Len(log') + k]
    <3> TAKE k \in 1..Len(log')
    <3>1. k + 1 \in 1..Len(longer) /\ Len(full) - Len(log) + (k + 1) = Len(fuller) - Len(log') + k
      BY <1>3, <1>4, <2>3, <2>4
    <3> QED
      BY <1>6, <2>3, <3>1
  <2>6. Len(log') <= Len(fuller)
    BY <1>3, <1>4, <1>5, <2>3
  <2>7. IsEnd(log', fuller)
    BY <1>8, <2>2, <2>3, <2>5, <2>6 DEF IsEnd, Gone
  <2>8. LogBound'
    BY <1>3, <2>2, <2>3 DEF LogBound
  <2> QED
    BY <2>7, <2>8 DEF fuller, look
<1> QED
  BY <1>7, <1>8

(* A look counts one more since every other, and starts at no age.            *)
LEMMA AgesGoOn ==
  ASSUME ControllerAssumption, LogType, Ages(log, 1), NEW dets \in Frames, Record(dets)
  PROVE  Ages(log', 0)
<1> DEFINE look == [items |-> Accepted(dets), age |-> 0]
           longer == Append(log, look)
           n == Len(log)
<1>1. log' = longer \/ log' = Tail(longer)
  BY DEF Record
<1>2. log \in Seq(Looks) /\ n \in Nat /\ look.age = 0
  BY DEF LogType
<1> HIDE DEF look
<1>3. /\ Len(longer) = n + 1 /\ longer[n + 1] = look /\ \A k \in 1..n : longer[k] = log[k]
      /\ Len(Tail(longer)) = n /\ \A k \in 1..n : Tail(longer)[k] = longer[k + 1]
  BY <1>2
<1> HIDE DEF longer
<1>4. \A k \in 1..(n + 1) : longer[k].age >= AtMost(n + 1 - k, StableTicks)
  <2> TAKE k \in 1..(n + 1)
  <2>1. CASE k \in 1..n
    <3>1. log[k].age >= AtMost(n - k + 1, StableTicks) /\ n - k + 1 = n + 1 - k
      BY <1>2, <2>1 DEF Ages
    <3> QED
      BY <1>3, <2>1, <3>1
  <2>2. CASE k = n + 1
    <3>1. n + 1 - k = 0
      BY <1>2, <2>2
    <3>2. AtMost(0, StableTicks) <= 0
      BY DEF AtMost, ControllerAssumption
    <3> QED
      BY <1>2, <1>3, <2>2, <3>1, <3>2
  <2> QED
    BY <1>2, <2>1, <2>2
<1>5. Ages(longer, 0)
  <2> SUFFICES ASSUME NEW k \in 1..(n + 1)
               PROVE  longer[k].age >= AtMost(n + 1 - k + 0, StableTicks)
    BY <1>3 DEF Ages
  <2>1. n + 1 - k + 0 = n + 1 - k
    BY <1>2
  <2> QED
    BY <1>4, <2>1
<1>6. Ages(Tail(longer), 0)
  <2> SUFFICES ASSUME NEW k \in 1..n
               PROVE  Tail(longer)[k].age >= AtMost(n - k + 0, StableTicks)
    BY <1>3 DEF Ages
  <2>1. n - k + 0 = n + 1 - (k + 1) /\ k + 1 \in 1..(n + 1)
    BY <1>2
  <2> QED
    BY <1>3, <1>4, <2>1
<1> QED
  BY <1>1, <1>5, <1>6

(* The invariant: while the door is closed the candidate has a stretch that   *)
(* the log has the end of.                                                    *)
Tracked ==
  candidate_item # NoItem =>
    /\ miss_count <= MissTolerance
    /\ \E full \in Seq(Looks), first \in Nat :
         /\ IsEnd(log, full)
         /\ Held(candidate_item, full, candidateAge, consecutive_count, miss_count, first)

StableInv ==
  /\ LogBound
  /\ Ages(log, IF ready THEN 1 ELSE 0)
  /\ current_state = "CLOSED" => Tracked

(* A look with the door closed keeps the candidate's stretch.                 *)
LEMMA LookTracks ==
  ASSUME ControllerAssumption, CandidateType, LogType, LogBound, Tracked,
         NEW dets \in Frames, update_candidate(TopItem(dets)), Record(dets)
  PROVE  LogBound' /\ Tracked'
<1> DEFINE top == TopItem(dets)
           look == [items |-> Accepted(dets), age |-> 0]
<1>1. top \in Items \cup {NoItem} /\ look \in Looks /\ look.items = Accepted(dets)
  BY TopItemType DEF Looks, ControllerAssumption
<1>2. top # NoItem => top \in look.items
  BY <1>1, TopIsAccepted
<1>3. /\ log \in Seq(Looks) /\ IsEnd(log, log)
      /\ \A full \in Seq(Looks) : Append(full, look) \in Seq(Looks)
  BY <1>1 DEF LogType, IsEnd, Gone
<1>4. \A full \in Seq(Looks) : IsEnd(log, full) => LogBound' /\ IsEnd(log', Append(full, look))
  BY EndGoesOn
<1>5. LogBound' /\ update_candidate(top)
  BY <1>3, <1>4
<1> HIDE DEF top, look
<1>6. CASE top = NoItem /\ candidate_item' # NoItem
  <2>1. /\ miss_count' = AtMost(miss_count + 1, MissTolerance + 1) /\ ~(miss_count' > MissTolerance)
        /\ UNCHANGED <<candidate_item, consecutive_count, candidateAge>>
    BY <1>5, <1>6 DEF update_candidate, ForgetCandidate
  <2>2. miss_count \in Nat /\ miss_count' = miss_count + 1 /\ miss_count' \in Nat /\ miss_count' <= MissTolerance
    BY <2>1 DEF AtMost, CandidateType, ControllerAssumption
  <2>3. PICK full \in Seq(Looks), first \in Nat :
          /\ IsEnd(log, full)
          /\ Held(candidate_item, full, candidateAge, consecutive_count, miss_count, first)
    BY <1>6, <2>1 DEF Tracked
  <2>4. consecutive_count \in Nat /\ consecutive_count <= consecutive_count
    BY DEF CandidateType
  <2>5. Held(candidate_item, Append(full, look), candidateAge, consecutive_count, miss_count', first)
    BY <1>1, <2>2, <2>3, <2>4, HeldOn
  <2> QED
    BY <1>3, <1>4, <1>5, <2>1, <2>2, <2>3, <2>5 DEF Tracked
<1>7. CASE top # NoItem /\ top = candidate_item
  <2>1. /\ miss_count' = 0 /\ candidate_item' = candidate_item /\ candidateAge' = candidateAge
        /\ consecutive_count' = AtMost(consecutive_count + 1, StableFrames)
    BY <1>5, <1>7 DEF update_candidate
  <2>2. /\ consecutive_count \in Nat /\ consecutive_count' \in Nat /\ consecutive_count' <= consecutive_count + 1
        /\ miss_count \in Nat
    BY <2>1 DEF AtMost, CandidateType, ControllerAssumption
  <2>3. PICK full \in Seq(Looks), first \in Nat :
          /\ IsEnd(log, full)
          /\ Held(candidate_item, full, candidateAge, consecutive_count, miss_count, first)
    BY <1>7 DEF Tracked
  <2>4. 0 \in Nat /\ 0 <= MissTolerance
    BY DEF ControllerAssumption
  <2>5. Held(candidate_item, Append(full, look), candidateAge, consecutive_count', 0, first)
    BY <1>1, <1>2, <1>7, <2>2, <2>3, <2>4, HeldOn
  <2> QED
    BY <1>3, <1>4, <1>5, <2>1, <2>3, <2>4, <2>5 DEF Tracked
<1>8. CASE top # NoItem /\ top # candidate_item
  <2>1. miss_count' = 0 /\ candidate_item' = top /\ candidateAge' = 0 /\ consecutive_count' = 1
    BY <1>5, <1>8 DEF update_candidate
  <2>2. Held(top, Append(log, look), 0, 1, 0, Len(log) + 1)
    BY <1>1, <1>2, <1>3, <1>8, HeldNew
  <2>3. 0 <= MissTolerance /\ Len(log) + 1 \in Nat
    BY <1>3 DEF ControllerAssumption
  <2> QED
    BY <1>3, <1>4, <1>5, <2>1, <2>2, <2>3 DEF Tracked
<1>9. CASE candidate_item' = NoItem
  BY <1>5, <1>9 DEF Tracked
<1> QED
  BY <1>6, <1>7, <1>8, <1>9

LEMMA StableInit == Init => StableInv
<1> SUFFICES ASSUME Init PROVE StableInv
  OBVIOUS
<1>1. Len(log) = 0 /\ candidate_item = NoItem
  BY DEF Init
<1>2. LogBound
  BY <1>1, ControllerAssumption DEF LogBound, ControllerAssumption
<1>3. \A next : Ages(log, next)
  BY <1>1 DEF Ages
<1> QED
  BY <1>1, <1>2, <1>3 DEF StableInv, Tracked

(* An empty log says nothing of the ages, and a later look may come sooner.   *)
LEMMA AgesKept ==
  ASSUME ControllerAssumption, LogType, LoopType, LogBound, Ages(log, IF ready THEN 1 ELSE 0),
         log' = <<>> \/ (log' = log /\ (ready' => ready)), ready' \in BOOLEAN
  PROVE  LogBound' /\ Ages(log', IF ready' THEN 1 ELSE 0)
<1>1. CASE log' = <<>>
  <2>1. Len(log') = 0
    BY <1>1
  <2>2. LogBound' /\ \A next : Ages(log', next)
    BY <2>1 DEF LogBound, Ages, ControllerAssumption
  <2> QED
    BY <2>2
<1>2. CASE log' = log /\ ready' = ready
  BY <1>2 DEF LogBound
<1>3. CASE log' = log /\ ready /\ ~ready'
  <2>1. LogBound'
    BY <1>3 DEF LogBound
  <2>2. Ages(log, 1) /\ Len(log) \in Nat
    BY <1>3 DEF LogType
  <2>3. ASSUME NEW k \in 1..Len(log) PROVE log[k].age >= AtMost(Len(log) - k + 0, StableTicks)
    <3>1. log[k].age >= AtMost(Len(log) - k + 1, StableTicks)
      BY <2>2 DEF Ages
    <3>2. log[k].age \in Nat
      <4>1. log[k] \in Looks
        BY DEF LogType
      <4> QED
        BY <4>1 DEF Looks, ControllerAssumption
    <3>3. /\ AtMost(Len(log) - k + 0, StableTicks) <= AtMost(Len(log) - k + 1, StableTicks)
          /\ AtMost(Len(log) - k + 0, StableTicks) \in Int /\ AtMost(Len(log) - k + 1, StableTicks) \in Int
      BY <2>2 DEF AtMost, ControllerAssumption
    <3> QED
      BY <3>1, <3>2, <3>3
  <2>4. Ages(log', 0)
    BY <1>3, <2>3 DEF Ages
  <2> QED
    BY <1>3, <2>1, <2>4
<1> QED
  BY <1>1, <1>2, <1>3 DEF LoopType

LEMMA TickStable ==
  ASSUME ControllerAssumption, CandidateType, LogType, LoopType, StableInv, Tick
  PROVE  StableInv'
<1>1. /\ UNCHANGED <<candidate_item, consecutive_count, miss_count, current_state>>
      /\ candidateAge' = IF candidate_item = NoItem THEN 0 ELSE AtMost(candidateAge + 1, StableTicks)
      /\ log' = Older(log) /\ ready' = TRUE
  BY DEF Tick, Older
<1>2. log \in Seq(Looks) /\ Len(log) \in Nat
  BY DEF LogType
<1>3. /\ Len(Older(log)) = Len(log)
      /\ \A k \in 1..Len(log) : Older(log)[k].age = AtMost(log[k].age + 1, StableTicks)
  BY <1>2, OlderLooks
<1>4. LogBound'
  BY <1>1, <1>3 DEF LogBound, StableInv
<1>5. Ages(log', 1)
  <2> SUFFICES ASSUME NEW k \in 1..Len(log)
               PROVE  AtMost(log[k].age + 1, StableTicks) >= AtMost(Len(log) - k + 1, StableTicks)
    BY <1>1, <1>3 DEF Ages
  <2> DEFINE next == IF ready THEN 1 ELSE 0
             age == log[k].age
  <2>1. age \in Nat
    <3>1. log[k] \in Looks
      BY <1>2
    <3> QED
      BY <3>1 DEF Looks, ControllerAssumption
  <2>2. age >= AtMost(Len(log) - k + next, StableTicks) /\ next \in {0, 1}
    BY DEF StableInv, Ages
  <2> HIDE DEF next, age
  <2>3. age >= AtMost(Len(log) - k, StableTicks)
    BY <1>2, <2>1, <2>2 DEF AtMost, ControllerAssumption
  <2>4. AtMost(age + 1, StableTicks) >= AtMost(Len(log) - k + 1, StableTicks)
    BY <1>2, <2>1, <2>3 DEF AtMost, ControllerAssumption
  <2> QED
    BY <2>4 DEF age
<1>6. ASSUME current_state = "CLOSED", candidate_item # NoItem
      PROVE  /\ miss_count <= MissTolerance
             /\ \E full \in Seq(Looks), first \in Nat :
                  /\ IsEnd(log', full)
                  /\ Held(candidate_item, full, candidateAge', consecutive_count, miss_count, first)
  <2>1. Tracked
    BY <1>6 DEF StableInv
  <2>2. PICK full \in Seq(Looks), first \in Nat :
          /\ IsEnd(log, full)
          /\ Held(candidate_item, full, candidateAge, consecutive_count, miss_count, first)
    BY <1>6, <2>1 DEF Tracked
  <2>3. candidateAge \in Nat
    BY DEF CandidateType, ControllerAssumption
  <2>4. Held(candidate_item, Older(full), candidateAge', consecutive_count, miss_count, first)
    <3>1. Held(candidate_item, Older(full), AtMost(candidateAge + 1, StableTicks),
               consecutive_count, miss_count, first)
      BY <2>2, <2>3, HeldAged
    <3> QED
      BY <1>1, <1>6, <3>1
  <2>5. /\ Older(full) \in Seq(Looks) /\ Len(Older(full)) = Len(full) /\ Len(full) \in Nat
        /\ \A k \in 1..Len(full) :
             Older(full)[k] = [full[k] EXCEPT !.age = AtMost(full[k].age + 1, StableTicks)]
        /\ \A k \in 1..Len(log) :
             Older(log)[k] = [log[k] EXCEPT !.age = AtMost(log[k].age + 1, StableTicks)]
    BY <1>2, OlderLooks
  <2>6. IsEnd(Older(log), Older(full))
    <3>1. /\ Len(log) <= Len(full)
          /\ \A k \in 1..Len(log) : log[k] = full[Len(full) - Len(log) + k]
          /\ Len(log) < Len(full) => LogLength # 0 /\ Len(log) = LogLength
      BY <2>2 DEF IsEnd, Gone
    <3>2. \A k \in 1..Len(log) : Older(log)[k] = Older(full)[Len(full) - Len(log) + k]
      <4> TAKE k \in 1..Len(log)
      <4>1. Len(full) - Len(log) + k \in 1..Len(full)
        BY <1>2, <2>5, <3>1
      <4> QED
        BY <2>5, <3>1, <4>1
    <3> QED
      BY <1>3, <2>5, <3>1, <3>2 DEF IsEnd, Gone
  <2> QED
    BY <1>1, <1>6, <2>1, <2>4, <2>5, <2>6 DEF Tracked
<1>7. current_state' = "CLOSED" => Tracked'
  BY <1>1, <1>6 DEF Tracked
<1> QED
  BY <1>1, <1>4, <1>5, <1>7 DEF StableInv

LEMMA StableStep ==
  ASSUME ControllerAssumption, TypeOK, TypeOK', StableInv, [Next]_vars
  PROVE  StableInv'
<1>1. CandidateType /\ LogType /\ LoopType /\ DoorType /\ ready' \in BOOLEAN
  BY DEF TypeOK, CandidateType, LogType, LoopType, DoorType, Looks
<1>2. CASE Tick
  BY <1>1, <1>2, TickStable
<1>3. ASSUME log' = <<>> \/ (log' = log /\ (ready' => ready)), current_state' = "CLOSED" => Tracked'
      PROVE  StableInv'
  BY <1>1, <1>3, AgesKept DEF StableInv
<1>4. CASE UNCHANGED <<current_state, candidate, log>> /\ (ready' => ready)
  <2>1. current_state' = "CLOSED" => Tracked'
    BY <1>4 DEF StableInv, Tracked, candidate
  <2> QED
    BY <1>3, <1>4, <2>1
<1>5. CASE process_detections
  <2>1. frame \in Frames /\ ready /\ ~ready'
    BY <1>1, <1>5 DEF process_detections, Look, LoopType
  <2>2. CASE handle_closed_state(frame)
    <3>1. update_candidate(TopItem(frame)) /\ Record(frame) /\ Tracked /\ LogBound /\ Ages(log, 1)
      BY <2>1, <2>2 DEF handle_closed_state, StableInv
    <3>2. LogBound' /\ Tracked'
      BY <1>1, <2>1, <3>1, LookTracks
    <3>3. Ages(log', 0)
      BY <1>1, <2>1, <3>1, AgesGoOn
    <3>4. Ages(log', IF ready' THEN 1 ELSE 0)
      BY <2>1, <3>3
    <3> QED
      BY <3>2, <3>4 DEF StableInv
  <2>3. CASE handle_open_state(frame)
    <3>1. candidate_item' = NoItem \/ current_state' = "OPEN"
      BY <2>3 DEF handle_open_state, CloseSucceeds, CloseFails, ForgetCandidate
    <3>2. log' = <<>> \/ log' = log
      BY <2>3 DEF handle_open_state, CloseSucceeds, CloseFails, Closed
    <3> QED
      BY <1>3, <2>1, <3>1, <3>2 DEF Tracked
  <2> QED
    BY <1>5, <2>2, <2>3 DEF process_detections
<1>6. ASSUME NEW item \in Items \cup {"ALL", NoItem}, request_open(item) PROVE StableInv'
  <2>1. log' = log /\ ready' = ready /\ current_state' = "OPEN"
    BY <1>6 DEF request_open, Opened
  <2> QED
    BY <1>3, <2>1
<1>7. CASE request_close
  <2>1. log' = <<>> /\ candidate_item' = NoItem
    BY <1>7 DEF request_close, ForgetCandidate, Closed
  <2> QED
    BY <1>3, <2>1 DEF Tracked
<1> QED
  BY <1>2, <1>4, <1>5, <1>6, <1>7 DEF Next, Capture, vars, door, history

LEMMA OpeningIsStable ==
  ASSUME ControllerAssumption, LogSuffices, TypeOK, TypeOK', StableInv, [Next]_vars,
         current_state = "CLOSED", current_state' = "OPEN", ready, ~ready'
  PROVE  auto_open /\ Stable(active_item', log')
<1>1. /\ CandidateType /\ LogType /\ LoopType /\ DoorType
      /\ candidateAge' \in Nat /\ consecutive_count' \in Nat /\ log' \in Seq(Looks)
  BY DEF TypeOK, CandidateType, LogType, LoopType, DoorType, Looks, ControllerAssumption
<1>2. process_detections
  BY DEF Next, vars, Tick, Capture, request_open, request_close
<1>3. frame \in Frames /\ handle_closed_state(frame)
  BY <1>1, <1>2 DEF process_detections, Look, LoopType, handle_open_state
<1>4. /\ update_candidate(TopItem(frame)) /\ Record(frame)
      /\ Tracked /\ LogBound /\ Ages(log, 1)
  BY <1>3 DEF handle_closed_state, StableInv
<1>5. Tracked' /\ Ages(log', 0)
  BY <1>1, <1>3, <1>4, LookTracks, AgesGoOn
<1>6. /\ auto_open /\ TopItem(frame) # NoItem /\ Opened(TopItem(frame))
      /\ candidateAge' >= StableTicks /\ consecutive_count' >= StableFrames
  BY <1>3 DEF handle_closed_state, door
<1>7. candidate_item' = TopItem(frame) /\ active_item' = TopItem(frame)
  BY <1>4, <1>6 DEF update_candidate, Opened
<1>8. PICK full \in Seq(Looks), first \in Nat :
        /\ IsEnd(log', full)
        /\ Held(candidate_item', full, candidateAge', consecutive_count', miss_count', first)
  BY <1>5, <1>6, <1>7 DEF Tracked
<1>9. Stable(candidate_item', log')
  BY <1>1, <1>5, <1>6, <1>8, HeldIsStable
<1> QED
  BY <1>6, <1>7, <1>9

(* The loop opens the door only for an item that was stable, for any          *)
(* tolerances: read off the looks since the door closed, or off the last of   *)
(* them where these are long enough for a stable stretch.                     *)
THEOREM OpensOnlyOnStable == LogSuffices => (Spec => AutoOpensOnStable)
<1> SUFFICES ASSUME LogSuffices PROVE Spec => AutoOpensOnStable
  OBVIOUS
<1>1. TypeOK /\ TypeOK' /\ StableInv /\ [Next]_vars => StableInv'
  BY StableStep, ControllerAssumption
<1>2. Spec => [](TypeOK /\ StableInv)
  BY <1>1, ControllerType, StableInit, PTL DEF Spec
<1>3. TypeOK /\ TypeOK' /\ StableInv /\ [Next]_vars
        => [current_state = "CLOSED" /\ current_state' = "OPEN" /\ ready /\ ~ready'
              => auto_open /\ Stable(active_item', log')]_vars
  BY OpeningIsStable, ControllerAssumption
<1> QED
  BY <1>2, <1>3, PTL DEF Spec, AutoOpensOnStable
=============================================================================
