--------------------------- MODULE DoorController ---------------------------
(***************************************************************************)
(* The Jetson's door state machine, AutoDoorController: it opens the door  *)
(* for an item the camera has shown long enough, keeps it open for a       *)
(* minimum, and closes it when the item is gone or the door has been open  *)
(* too long.  The kiosk's OPEN and CLOSE commands come between iterations  *)
(* of the main loop, and any serial write may fail.  The camera thread     *)
(* replaces the frame the loop looks at whenever it captures one, so that  *)
(* an iteration may miss frames or look at one again.                      *)
(*                                                                         *)
(* Time is in ticks, at most one iteration each; stamps are kept as ages,  *)
(* up to the value their test needs.  Counters saturate likewise.          *)
(***************************************************************************)
EXTENDS Integers, Sequences, FiniteSets

CONSTANTS
  Items,          \* the categories the detector reports
  NoItem,         \* Python's None, and the empty item of a command
  Frames,         \* the detection lists a frame may produce
  NoFrame,        \* the camera has none, or its last read failed
  StableTicks,    \* stable_sec
  StableFrames,   \* stable_frames
  MissTolerance,  \* miss_tolerance
  MinHold,        \* min_hold_sec
  MaxOpen,        \* max_open_sec
  LostTolerance,  \* lost_tolerance
  LogLength       \* bound: the looks at a frame the history keeps, 0 for all

Detections == [item : Items, confidence : Nat, passed : BOOLEAN]

ASSUME ControllerAssumption ==
  /\ NoItem \notin Items /\ "ALL" \notin Items /\ NoItem # "ALL"
  /\ Frames \subseteq Seq(Detections) /\ NoFrame \notin Frames
  /\ StableTicks \in Nat /\ StableFrames \in Nat /\ MissTolerance \in Nat
  /\ MinHold \in Nat /\ MaxOpen \in Nat \ {0} /\ LostTolerance \in Nat \ {0}
  /\ LogLength \in Nat

VARIABLES
  auto_open,          \* the configuration's auto_open
  current_state, active_item,
  candidate_item, consecutive_count, miss_count, lost_count,
  candidateAge,       \* now - candidate_start_time while there is a candidate
  openAge,            \* now - door_open_timestamp while OPEN
  frame,              \* the camera's latest frame
  ready,              \* the loop may begin its next iteration
  wire,               \* history: the last command whose write succeeded
  unseen,             \* history: looks in a row, since OPEN, without the open item
  log                 \* history: the looks since the door closed, oldest first

candidate == <<candidate_item, consecutive_count, miss_count, candidateAge>>
door == <<current_state, active_item, openAge, lost_count>>
history == <<wire, unseen, log>>
vars == <<auto_open, door, candidate, frame, ready, history>>

-----------------------------------------------------------------------------
AtMost(n, bound) == IF n < bound THEN n ELSE bound

(* The most confident detection, the first of equals; a rejected one hides   *)
(* every other.                                                              *)
Best(dets) ==
  CHOOSE d \in DOMAIN dets :
    /\ \A e \in DOMAIN dets : dets[e].confidence <= dets[d].confidence
    /\ \A e \in DOMAIN dets : dets[e].confidence = dets[d].confidence => d <= e

(* Mutant of TopItem: the verdict of the quality inspection is ignored. *)
TopItemUninspected(dets) == IF dets = <<>> THEN NoItem ELSE dets[Best(dets)].item

TopItem(dets) ==
  IF dets = <<>> THEN NoItem
  ELSE IF dets[Best(dets)].passed THEN dets[Best(dets)].item ELSE NoItem

Accepted(dets) == {dets[d].item : d \in {e \in DOMAIN dets : dets[e].passed}}

-----------------------------------------------------------------------------
Init ==
  /\ auto_open \in BOOLEAN
  /\ current_state = "CLOSED" /\ active_item = NoItem
  /\ candidate_item = NoItem /\ consecutive_count = 0
  /\ miss_count = 0 /\ lost_count = 0
  /\ candidateAge = 0 /\ openAge = 0
  /\ frame = NoFrame /\ ready = FALSE
  /\ wire = [op |-> "CLOSE", item |-> NoItem] /\ unseen = 0 /\ log = <<>>

Tick ==
  /\ ready' = TRUE
  /\ candidateAge' = IF candidate_item = NoItem THEN 0 ELSE AtMost(candidateAge + 1, StableTicks)
  /\ openAge' = IF current_state = "OPEN" THEN AtMost(openAge + 1, MaxOpen) ELSE 0
  /\ log' = [k \in DOMAIN log |-> [log[k] EXCEPT !.age = AtMost(@ + 1, StableTicks)]]
  /\ UNCHANGED <<auto_open, current_state, active_item, lost_count, candidate_item,
                 consecutive_count, miss_count, frame, wire, unseen>>

(* The capture thread: a new frame, or a failed read until the next one. *)
Capture(newest) ==
  /\ frame' = newest
  /\ UNCHANGED <<auto_open, door, candidate, ready, history>>

Opened(item) ==
  /\ current_state' = "OPEN"
  /\ active_item' = item
  /\ openAge' = 0
  /\ lost_count' = 0
  /\ wire' = [op |-> "OPEN", item |-> item]
  /\ unseen' = 0

Closed ==
  /\ current_state' = "CLOSED"
  /\ active_item' = NoItem
  /\ openAge' = 0
  /\ lost_count' = 0
  /\ wire' = [op |-> "CLOSE", item |-> NoItem]
  /\ unseen' = 0
  /\ log' = <<>>

ForgetCandidate == candidate_item' = NoItem /\ consecutive_count' = 0 /\ candidateAge' = 0

(* Mutant of request_open: no default for a command without an item. *)
RequestBare(item) ==
  /\ Opened(item)
  /\ miss_count' = 0
  /\ UNCHANGED <<auto_open, candidate_item, consecutive_count, candidateAge, frame, ready, log>>

(* The kiosk's commands; a write that fails changes nothing. *)
request_open(item) ==
  /\ Opened(IF item # NoItem THEN item
            ELSE IF candidate_item # NoItem THEN candidate_item ELSE "ALL")
  /\ miss_count' = 0
  /\ UNCHANGED <<auto_open, candidate_item, consecutive_count, candidateAge, frame, ready, log>>

request_close ==
  /\ Closed
  /\ ForgetCandidate
  /\ miss_count' = 0
  /\ UNCHANGED <<auto_open, frame, ready>>

(* Mutant of update_candidate: a miss never resets a long enough absence. *)
CandidateSurvives(top) ==
  IF top = NoItem
  THEN UNCHANGED candidate
  ELSE /\ miss_count' = 0
       /\ candidate_item' = top
       /\ consecutive_count' = IF top = candidate_item
                               THEN AtMost(consecutive_count + 1, StableFrames) ELSE 1
       /\ candidateAge' = IF top = candidate_item THEN candidateAge ELSE 0

(* Short drop-outs keep the candidate, longer ones and another item do not. *)
update_candidate(top) ==
  IF top = NoItem
  THEN /\ miss_count' = AtMost(miss_count + 1, MissTolerance + 1)
       /\ IF miss_count' > MissTolerance
          THEN ForgetCandidate
          ELSE UNCHANGED <<candidate_item, consecutive_count, candidateAge>>
  ELSE /\ miss_count' = 0
       /\ candidate_item' = top
       /\ consecutive_count' = IF top = candidate_item
                               THEN AtMost(consecutive_count + 1, StableFrames) ELSE 1
       /\ candidateAge' = IF top = candidate_item THEN candidateAge ELSE 0

Record(dets) ==
  log' = LET l == Append(log, [items |-> Accepted(dets), age |-> 0])
         IN IF LogLength = 0 \/ Len(l) <= LogLength THEN l ELSE Tail(l)

(* One iteration of the main loop on the latest frame. *)
Look == ready /\ frame # NoFrame /\ ready' = FALSE /\ UNCHANGED <<frame, auto_open>>

(* CLOSED: the candidate is tracked, and a stable one opens the door if the  *)
(* write of the command succeeds; if not, the next frame tries again.        *)
handle_closed_state(dets) ==
  /\ current_state = "CLOSED"
  /\ update_candidate(TopItem(dets))
  /\ Record(dets)
  /\ \/ /\ auto_open
        /\ TopItem(dets) # NoItem
        /\ candidateAge' >= StableTicks
        /\ consecutive_count' >= StableFrames
        /\ Opened(TopItem(dets))
     \/ UNCHANGED <<door, wire, unseen>>

(* Mutant of LostAfter: a sighting of the item does not restart the count. *)
LostKept(top) == IF top = active_item THEN lost_count ELSE AtMost(lost_count + 1, LostTolerance)

LostAfter(top) ==
  IF top = active_item /\ openAge < MaxOpen THEN 0 ELSE AtMost(lost_count + 1, LostTolerance)

MayClose(top) ==
  /\ openAge >= MinHold \/ openAge >= MaxOpen
  /\ LostAfter(top) >= LostTolerance \/ openAge >= MaxOpen

(* Mutant of CloseFails: the state machine closes though the write failed. *)
CloseAnyway(top) ==
  /\ current_state' = "CLOSED"
  /\ active_item' = NoItem
  /\ UNCHANGED <<openAge, lost_count, candidate, wire, unseen, log>>

(* The write of CLOSE failed, or nothing was due: the count goes on. *)
CloseFails(top) ==
  /\ lost_count' = IF openAge >= MinHold \/ openAge >= MaxOpen THEN LostAfter(top) ELSE lost_count
  /\ unseen' = IF top = active_item THEN 0 ELSE AtMost(unseen + 1, LostTolerance)
  /\ UNCHANGED <<current_state, active_item, openAge, candidate, wire, log>>

CloseSucceeds(top) ==
  /\ MayClose(top)
  /\ Closed
  /\ ForgetCandidate
  /\ UNCHANGED miss_count

(* Mutant of handle_open_state: an item still in view keeps the door open. *)
OpenWhileSeen(dets) ==
  /\ current_state = "OPEN"
  /\ \/ TopItem(dets) # active_item /\ CloseSucceeds(TopItem(dets))
     \/ CloseFails(TopItem(dets))

(* OPEN: nothing happens during the hold; then the item must stay away for   *)
(* LostTolerance looks, or the door must have been open for MaxOpen.         *)
handle_open_state(dets) ==
  /\ current_state = "OPEN"
  /\ CloseSucceeds(TopItem(dets)) \/ CloseFails(TopItem(dets))

process_detections ==
  Look /\ (handle_closed_state(frame) \/ handle_open_state(frame))

Next ==
  \/ Tick
  \/ \E newest \in Frames \cup {NoFrame} : Capture(newest)
  \/ process_detections
  \/ \E item \in Items \cup {"ALL", NoItem} : request_open(item)
  \/ request_close

Spec == Init /\ [][Next]_vars

(* The main loop goes round, and a serial line that accepts a write now and  *)
(* then lets the overdue CLOSE through.                                      *)
OverdueClose == Look /\ openAge >= MaxOpen /\ handle_open_state(frame) /\ current_state' = "CLOSED"

FairSpec == Spec /\ WF_vars(Tick) /\ SF_vars(OverdueClose)

-----------------------------------------------------------------------------
(* Properties. *)

Commands == [op : {"OPEN"}, item : Items \cup {"ALL"}] \cup {[op |-> "CLOSE", item |-> NoItem]}

TypeOK ==
  /\ auto_open \in BOOLEAN /\ ready \in BOOLEAN
  /\ frame \in Frames \cup {NoFrame}
  /\ current_state \in {"OPEN", "CLOSED"}
  /\ active_item \in Items \cup {"ALL", NoItem}
  /\ candidate_item \in Items \cup {NoItem}
  /\ consecutive_count \in Nat /\ miss_count \in 0..(MissTolerance + 1)
  /\ lost_count \in 0..LostTolerance
  /\ candidateAge \in 0..StableTicks /\ openAge \in 0..MaxOpen
  /\ wire \in Commands /\ unseen \in Nat
  /\ log \in Seq([items : SUBSET Items, age : 0..StableTicks])

(* The state machine never believes more than it has sent: it is OPEN for an *)
(* item exactly when the last command that left the serial port opened the   *)
(* door for that item, whichever writes failed.                              *)
FollowsWire == wire = [op |-> IF current_state = "OPEN" THEN "OPEN" ELSE "CLOSE", item |-> active_item]

(* Some stretch of the log, ending now, shows the item accepted often and    *)
(* long enough, never away for more than MissTolerance looks in a row.       *)
Stable(item, looks) ==
  \E first \in DOMAIN looks :
    LET shown == {k \in first..Len(looks) : item \in looks[k].items}
    IN /\ first \in shown /\ looks[first].age >= StableTicks
       /\ Cardinality(shown) >= StableFrames
       /\ \A k \in first..(Len(looks) - MissTolerance) :
            k..(k + MissTolerance) \cap shown # {}

(* The loop opens the door only for an item that passed inspection in enough *)
(* recent looks, all of them since the door was last closed.                 *)
AutoOpensOnStable ==
  [][current_state = "CLOSED" /\ current_state' = "OPEN" /\ ready /\ ~ready'
       => auto_open /\ Stable(active_item', log')]_vars

(* The loop closes the door only after the hold with the item out of sight   *)
(* for LostTolerance looks in a row, the present one included, or after      *)
(* MaxOpen: never on a short occlusion.                                      *)
ClosesWhenGone ==
  [][current_state = "OPEN" /\ current_state' = "CLOSED" /\ ready /\ ~ready'
       => \/ openAge >= MaxOpen
          \/ openAge >= MinHold /\ unseen + 1 >= LostTolerance]_vars

(* What it needs to be inductive: the count of losses never runs ahead of    *)
(* the looks in a row without the item, and starts when the hold is over.    *)
LostInv ==
  /\ current_state \in {"OPEN", "CLOSED"}
  /\ lost_count \in 0..LostTolerance /\ openAge \in 0..MaxOpen /\ unseen \in Nat
  /\ current_state = "OPEN" /\ openAge < MaxOpen =>
       lost_count <= unseen /\ (openAge < MinHold => lost_count = 0)

(* The maximum opening holds while the camera delivers: a door left open     *)
(* closes, unless it is opened again by command for ever.                    *)
MaxOpenHolds ==
  \/ []<>(current_state = "CLOSED")
  \/ <>[](frame = NoFrame)
  \/ []<><<\E item \in Items \cup {"ALL", NoItem} : request_open(item)>>_vars
=============================================================================
