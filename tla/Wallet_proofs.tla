----------------------------- MODULE Wallet_proofs -----------------------------
(***************************************************************************)
(* Theorems about a member's points, for any members, price, requests      *)
(* under way, taps and failures.  The inductive invariant says of every    *)
(* request whom it is for and, of a purchase, where its answer stands.     *)
(***************************************************************************)
EXTENDS Wallet, TLAPS

(* What a request is, and what a purchase has come to. *)
Sound(call) ==
  /\ call.by # "none" => call.user \in Users
  /\ call.by = "deduct" =>
       /\ call.n \in Purchases
       /\ call.stage = "answered" => call.n \in paid
       /\ ~call.awaited => call.n \in lost

SlotsOK == \A c \in Slots : Sound(calls[c])
StoreOK == store.user # Nobody => store.user \in Users

TypeInv == TypeOK /\ SlotsOK

(***************************************************************************)
(* Requests.                                                               *)
(***************************************************************************)

LEMMA CallType ==
  \A by \in {"home", "shop", "refresh", "deduct"}, u \in Users, n \in 0..MaxTaps :
    /\ Call(by, u, n) \in Calls
    /\ Call(by, u, n).by = by /\ Call(by, u, n).user = u /\ Call(by, u, n).n = n
    /\ Call(by, u, n).stage = "sent" /\ Call(by, u, n).awaited
  BY DEF Call, Calls

LEMMA NoCallType == NoCall \in Calls /\ NoCall.by = "none" /\ NoCall.stage = "sent" /\ ~NoCall.awaited
  BY WalletAssumption DEF NoCall, Calls

LEMMA SentType ==
  ASSUME NEW cs \in [Slots -> Calls], HasRoom(cs), NEW call \in Calls
  PROVE  \E c \in Slots : cs[c] = NoCall /\ Sent(cs, call) = [cs EXCEPT ![c] = call]
  <1> DEFINE c == CHOOSE x \in Slots : cs[x] = NoCall
  <1>1. c \in Slots /\ cs[c] = NoCall  BY DEF HasRoom
  <1>2. Sent(cs, call) = [cs EXCEPT ![c] = call]  BY DEF Sent
  <1> QED  BY <1>1, <1>2

LEMMA OrphanType ==
  ASSUME NEW call \in Calls
  PROVE  /\ Orphan(call) \in Calls
         /\ \/ Orphan(call) = NoCall
            \/ /\ call.by = "deduct" /\ call.stage # "answered" /\ ~Orphan(call).awaited
               /\ Orphan(call).by = "deduct" /\ Orphan(call).n = call.n
               /\ Orphan(call).user = call.user /\ Orphan(call).stage = call.stage
  BY NoCallType DEF Orphan, Calls

(* The request of a slot after a step that writes one slot.                 *)
LEMMA OneSlot ==
  ASSUME NEW c \in Slots, NEW call, calls \in [Slots -> Calls], calls' = [calls EXCEPT ![c] = call]
  PROVE  calls'[c] = call /\ \A d \in Slots : d # c => calls'[d] = calls[d]
  OBVIOUS

LEMMA StoredType ==
  ASSUME TypeOK, NEW new \in [user : Users \cup {Nobody}, points : Nat \cup {NoPoints}], Stored(new)
  PROVE  /\ store' \in [user : Users \cup {Nobody}, points : Nat \cup {NoPoints}]
         /\ collected' \subseteq Viewers
  BY DEF Stored, TypeOK

(***************************************************************************)
(* Types.                                                                  *)
(***************************************************************************)

LEMMA TypeInit == Init => TypeInv
  <1> SUFFICES ASSUME Init PROVE TypeInv  OBVIOUS
  <1>1. \A c \in Slots : calls[c] = NoCall  BY DEF Init
  <1>2. SlotsOK  BY <1>1, NoCallType DEF SlotsOK, Sound
  <1>3. store \in [user : Users \cup {Nobody}, points : Nat \cup {NoPoints}]
    <2>1. CASE store = [user |-> Nobody, points |-> NoPoints]  BY <2>1
    <2>2. CASE store \in [user : Users, points : {Start}]  BY <2>2, WalletAssumption
    <2> QED  BY <2>1, <2>2 DEF Init
  <1>4. store.user \in Users \cup {Nobody}  BY <1>3
  <1>5. calls \in [Slots -> Calls]  BY NoCallType DEF Init
  <1>6. points \in [Users -> Nat] /\ earned \in [Users -> Nat] /\ spent \in [Users -> Nat]
    BY WalletAssumption DEF Init
  <1>7. /\ collected \subseteq Viewers /\ userPoints \in Nat
        /\ isLoggedIn \in BOOLEAN /\ isLoading \in BOOLEAN /\ overtaken \in BOOLEAN
        /\ member \in Users \cup {Nobody} /\ behind \subseteq Users \cup {Nobody}
        /\ paid = {} /\ coupons = {} /\ lost = {} /\ failures \in Nat
    BY <1>4 DEF Init
  <1>8. taps \in 0..MaxTaps  BY WalletAssumption DEF Init
  <1>9. TypeOK  BY <1>3, <1>5, <1>6, <1>7, <1>8 DEF TypeOK
  <1> QED  BY <1>2, <1>9 DEF TypeInv

(* A request sent for whom the store names. *)
LEMMA SendType ==
  ASSUME TypeInv, NEW cs \in [Slots -> Calls], \A c \in Slots : Sound(cs[c]), HasRoom(cs),
         NEW by \in {"home", "shop", "refresh", "deduct"}, store.user # Nobody,
         NEW n \in 0..MaxTaps, by = "deduct" => n \in Purchases
  PROVE  /\ Sent(cs, Call(by, store.user, n)) \in [Slots -> Calls]
         /\ \A c \in Slots : Sound(Sent(cs, Call(by, store.user, n))[c])
  <1>0. store \in [user : Users \cup {Nobody}, points : Nat \cup {NoPoints}]  BY DEF TypeInv, TypeOK
  <1>1. store.user \in Users  BY <1>0
  <1> DEFINE call == Call(by, store.user, n)
  <1>a. call \in Calls /\ call.by = by /\ call.user = store.user /\ call.n = n
        /\ call.stage = "sent" /\ call.awaited
    <2>1. call \in Calls  BY <1>1, CallType
    <2>2. call.by = by /\ call.user = store.user /\ call.n = n /\ call.stage = "sent"  BY <1>1, CallType
    <2>3. call.awaited  BY <1>1, CallType
    <2> QED  BY <2>1, <2>2, <2>3
  <1> HIDE DEF call
  <1>2. call \in Calls /\ Sound(call)  BY <1>1, <1>a DEF Sound
  <1>3. PICK c \in Slots : Sent(cs, call) = [cs EXCEPT ![c] = call]  BY <1>2, SentType
  <1>4. Sent(cs, call) \in [Slots -> Calls]  BY <1>2, <1>3
  <1>5. \A d \in Slots : Sent(cs, call)[d] = IF d = c THEN call ELSE cs[d]  BY <1>3
  <1>6. \A d \in Slots : Sound(Sent(cs, call)[d])  BY <1>2, <1>5
  <1> QED  BY <1>4, <1>6 DEF call

(* A step writes one slot, with a request that is still sound: the purchases *)
(* paid and lost only grow.                                                  *)
LEMMA SlotWritten ==
  ASSUME TypeInv, NEW c \in Slots, NEW call \in Calls,
         calls' = [calls EXCEPT ![c] = call],
         paid \subseteq paid', lost \subseteq lost',
         call.by # "none" => call.user \in Users,
         call.by = "deduct" =>
           /\ call.n \in Purchases
           /\ call.stage = "answered" => call.n \in paid'
           /\ ~call.awaited => call.n \in lost'
  PROVE  calls' \in [Slots -> Calls] /\ SlotsOK'
  <1>1. calls \in [Slots -> Calls]  BY DEF TypeInv, TypeOK
  <1>2. calls' \in [Slots -> Calls]  BY <1>1
  <1>3. calls'[c] = call /\ \A d \in Slots : d # c => calls'[d] = calls[d]  BY <1>1
  <1>4. ASSUME NEW d \in Slots PROVE Sound(calls[d])'
    <2>1. CASE d = c  BY <1>3, <2>1 DEF Sound
    <2>2. CASE d # c  BY <1>3, <2>2 DEF Sound, TypeInv, SlotsOK
    <2> QED  BY <2>1, <2>2
  <1> QED  BY <1>2, <1>4 DEF SlotsOK

LEMMA SlotFreed ==
  ASSUME TypeInv, NEW c \in Slots, calls' = [calls EXCEPT ![c] = NoCall],
         paid \subseteq paid', lost \subseteq lost'
  PROVE  calls' \in [Slots -> Calls] /\ SlotsOK'
  BY NoCallType, SlotWritten

LEMMA SlotsKept ==
  ASSUME TypeInv, UNCHANGED calls, paid \subseteq paid', lost \subseteq lost'
  PROVE  SlotsOK'
  BY DEF TypeInv, SlotsOK, Sound

LEMMA GetType ==
  ASSUME TypeInv, NEW c \in Slots, get_by_id(c)
  PROVE  TypeInv'
  <1> DEFINE stage == IF IsRead(c) THEN "answered" ELSE "row"
  <1> DEFINE call == [calls[c] EXCEPT !.stage = stage, !.value = points[calls[c].user]]
  <1>1. calls \in [Slots -> Calls] /\ points \in [Users -> Nat] /\ behind \subseteq Users \cup {Nobody}
    BY DEF TypeInv, TypeOK
  <1>2. calls[c].by # "none" /\ Sound(calls[c])  BY DEF get_by_id, Free, TypeInv, SlotsOK
  <1>3. calls[c].user \in Users /\ points[calls[c].user] \in Nat  BY <1>1, <1>2 DEF Sound
  <1>4. stage \in {"answered", "row"} /\ (calls[c].by = "deduct" => stage = "row")  BY DEF IsRead
  <1>5. calls' = [calls EXCEPT ![c] = call]  BY <1>1 DEF get_by_id
  <1> HIDE DEF stage
  <1>6. call \in Calls /\ call.by = calls[c].by /\ call.user = calls[c].user /\ call.n = calls[c].n
        /\ call.stage = stage
    BY <1>1, <1>3, <1>4 DEF Calls
  <1>7. call.awaited <=> calls[c].awaited  BY <1>1 DEF Calls
  <1> HIDE DEF call
  <1>8. paid' = paid /\ lost' = lost  BY DEF get_by_id, purchases
  <1>9. calls' \in [Slots -> Calls] /\ SlotsOK'
    BY <1>2, <1>3, <1>4, <1>5, <1>6, <1>7, <1>8, SlotWritten DEF Sound
  <1>10. behind' \subseteq Users \cup {Nobody}  BY <1>1 DEF get_by_id
  <1> QED  BY <1>9, <1>10 DEF TypeInv, TypeOK, get_by_id, app, purchases

LEMMA AnswerType ==
  ASSUME TypeInv, NEW c \in Slots, NEW stage \in {"answered", "refused"}, NEW value \in Nat,
         calls[c].by = "deduct", Answer(c, stage, value),
         paid \subseteq paid', lost' = lost, stage = "answered" => calls[c].n \in paid'
  PROVE  calls' \in [Slots -> Calls] /\ SlotsOK'
  <1> DEFINE call == [calls[c] EXCEPT !.stage = stage, !.value = value]
  <1>1. calls \in [Slots -> Calls] /\ Sound(calls[c])  BY DEF TypeInv, TypeOK, SlotsOK
  <1>2. CASE calls[c].awaited
    <2>1. calls' = [calls EXCEPT ![c] = call]  BY <1>1, <1>2 DEF Answer
    <2>2. call \in Calls /\ call.by = calls[c].by /\ call.user = calls[c].user /\ call.n = calls[c].n
          /\ call.stage = stage
      BY <1>1 DEF Calls
    <2>3. call.awaited <=> calls[c].awaited  BY <1>1 DEF Calls
    <2> HIDE DEF call
    <2> QED  BY <1>1, <1>2, <2>1, <2>2, <2>3, SlotWritten DEF Sound
  <1>3. CASE ~calls[c].awaited
    <2>1. calls' = [calls EXCEPT ![c] = NoCall]  BY <1>1, <1>3 DEF Answer
    <2> QED  BY <2>1, SlotFreed
  <1> QED  BY <1>2, <1>3

LEMMA DeductType ==
  ASSUME TypeInv, NEW c \in Slots, deduct_points_atomic(c)
  PROVE  TypeInv'
  <1> USE DEF deduct_points_atomic
  <1>1. calls \in [Slots -> Calls] /\ points \in [Users -> Nat] /\ spent \in [Users -> Nat]
        /\ behind \subseteq Users \cup {Nobody} /\ paid \subseteq Purchases /\ Price \in Nat
    BY WalletAssumption DEF TypeInv, TypeOK
  <1>2. calls[c].by = "deduct" /\ Sound(calls[c])  BY DEF TypeInv, SlotsOK
  <1>3. calls[c].user \in Users /\ calls[c].n \in Purchases /\ points[calls[c].user] \in Nat
    BY <1>1, <1>2 DEF Sound
  <1>4. CASE Deducts(c)
    <2>1. points[calls[c].user] - Price \in Nat  BY <1>1, <1>3, <1>4 DEF Deducts
    <2>2. points' \in [Users -> Nat]  BY <1>1, <1>3, <1>4, <2>1 DEF Deducts
    <2>3. spent' \in [Users -> Nat]  BY <1>1, <1>3, <1>4 DEF Deducts
    <2>4. paid' = paid \cup {calls[c].n} /\ lost' = lost  BY <1>4 DEF Deducts
    <2>5. calls' \in [Slots -> Calls] /\ SlotsOK'
      BY <1>2, <1>4, <2>1, <2>4, AnswerType DEF Deducts
    <2>6. behind' \subseteq Users \cup {Nobody}  BY <1>1, <1>3, <1>4 DEF Deducts
    <2> QED  BY <1>1, <1>3, <2>2, <2>3, <2>4, <2>5, <2>6 DEF TypeInv, TypeOK, app
  <1>5. CASE Answer(c, "refused", 0) /\ UNCHANGED <<points, spent, paid, behind>>
    <2>1. calls' \in [Slots -> Calls] /\ SlotsOK'  BY <1>2, <1>5, AnswerType
    <2> QED  BY <1>5, <2>1 DEF TypeInv, TypeOK, app
  <1> QED  BY <1>4, <1>5

(* What login, logout and the answers store.                                *)
LEMMA StoreFields == TypeInv => /\ store.user \in Users \cup {Nobody}
                                /\ store.points \in Nat \cup {NoPoints}
  <1> SUFFICES ASSUME TypeInv PROVE /\ store.user \in Users \cup {Nobody}
                                   /\ store.points \in Nat \cup {NoPoints}
    OBVIOUS
  <1>1. store \in [user : Users \cup {Nobody}, points : Nat \cup {NoPoints}]  BY DEF TypeInv, TypeOK
  <1> QED  BY <1>1

LEMMA LoginType ==
  ASSUME TypeInv, NEW u \in Users, login(u)
  PROVE  TypeInv'
  <1> DEFINE new == [store EXCEPT !.user = u]
  <1>0. store \in [user : Users \cup {Nobody}, points : Nat \cup {NoPoints}]  BY DEF TypeInv, TypeOK
  <1>1. new \in [user : Users \cup {Nobody}, points : Nat \cup {NoPoints}]  BY <1>0
  <1>2. Stored(new)  BY DEF login
  <1> HIDE DEF new
  <1>3. /\ store' \in [user : Users \cup {Nobody}, points : Nat \cup {NoPoints}]
        /\ collected' \subseteq Viewers
    BY <1>1, <1>2, StoredType DEF TypeInv
  <1>4. SlotsOK'  BY SlotsKept DEF login, purchases
  <1>5. taps' \in 0..MaxTaps  BY WalletAssumption DEF login, Tap, TypeInv, TypeOK
  <1> QED  BY <1>3, <1>4, <1>5 DEF TypeInv, TypeOK, login, purchases, Tap

LEMMA LogoutType == TypeInv /\ logout => TypeInv'
  <1> SUFFICES ASSUME TypeInv, logout PROVE TypeInv'  OBVIOUS
  <1> DEFINE new == [user |-> Nobody, points |-> NoPoints]
  <1>1. new \in [user : Users \cup {Nobody}, points : Nat \cup {NoPoints}]  OBVIOUS
  <1>2. Stored(new)  BY DEF logout
  <1> HIDE DEF new
  <1>3. /\ store' \in [user : Users \cup {Nobody}, points : Nat \cup {NoPoints}]
        /\ collected' \subseteq Viewers
    BY <1>1, <1>2, StoredType DEF TypeInv
  <1>4. SlotsOK'  BY SlotsKept DEF logout, purchases
  <1>5. taps' \in 0..MaxTaps  BY WalletAssumption DEF logout, Tap, TypeInv, TypeOK
  <1>6. overtaken' \in BOOLEAN
    <2> DEFINE reading == \E c \in Slots : IsRead(c)
    <2>1. overtaken \in BOOLEAN  BY DEF TypeInv, TypeOK
    <2>2. overtaken' = (overtaken \/ reading)  BY DEF logout
    <2> QED  BY <2>1, <2>2
  <1> QED  BY <1>3, <1>4, <1>5, <1>6 DEF TypeInv, TypeOK, logout, purchases, Tap

LEMMA ConfirmType == TypeInv /\ confirmPurchase => TypeInv'
  <1> SUFFICES ASSUME TypeInv, confirmPurchase PROVE TypeInv'  OBVIOUS
  <1> DEFINE deducting == Sent(calls, Call("deduct", store.user, taps'))
  <1>1. store.user # Nobody /\ taps' = taps + 1 /\ taps < MaxTaps /\ taps \in 0..MaxTaps
    BY DEF confirmPurchase, Tap, TypeInv, TypeOK
  <1>2. taps' \in 0..MaxTaps /\ taps' \in Purchases  BY <1>1, WalletAssumption DEF Purchases
  <1>3. HasRoom(calls) /\ HasRoom(deducting) /\ calls' = Sent(deducting, Call("home", store.user, 0))
    BY DEF confirmPurchase
  <1>4. calls \in [Slots -> Calls] /\ \A c \in Slots : Sound(calls[c])  BY DEF TypeInv, TypeOK, SlotsOK
  <1>5. deducting \in [Slots -> Calls] /\ \A c \in Slots : Sound(deducting[c])
    BY <1>1, <1>2, <1>3, <1>4, SendType
  <1> HIDE DEF deducting
  <1>6. 0 \in 0..MaxTaps  BY WalletAssumption
  <1>7. calls' \in [Slots -> Calls] /\ \A c \in Slots : Sound(calls'[c])
    BY <1>1, <1>3, <1>5, <1>6, SendType
  <1>8. SlotsOK'  BY <1>7 DEF SlotsOK, Sound, confirmPurchase, history, purchases
  <1> QED  BY <1>2, <1>7, <1>8 DEF TypeInv, TypeOK, confirmPurchase, history, purchases, Tap

(* A read sent by the home screen, the shop or a refresh.                   *)
LEMMA ReadType ==
  ASSUME TypeInv, NEW by \in {"home", "shop", "refresh"}, NEW cs \in [Slots -> Calls],
         \A c \in Slots : Sound(cs[c]), store.user # Nobody, HasRoom(cs),
         calls' = Sent(cs, Call(by, store.user, 0)), UNCHANGED <<paid, lost>>
  PROVE  calls' \in [Slots -> Calls] /\ SlotsOK'
  <1>1. 0 \in 0..MaxTaps  BY WalletAssumption
  <1>2. by \in {"home", "shop", "refresh", "deduct"} /\ by # "deduct"  OBVIOUS
  <1>3. calls' \in [Slots -> Calls] /\ \A c \in Slots : Sound(calls'[c])
    BY <1>1, <1>2, SendType
  <1> QED  BY <1>3 DEF SlotsOK, Sound

LEMMA RefreshType == TypeInv /\ refresh => TypeInv'
  <1> SUFFICES ASSUME TypeInv, refresh PROVE TypeInv'  OBVIOUS
  <1>1. calls \in [Slots -> Calls] /\ \A c \in Slots : Sound(calls[c])  BY DEF TypeInv, TypeOK, SlotsOK
  <1>2. PICK by \in {"home", "refresh"} : Send(Call(by, store.user, 0))  BY DEF refresh
  <1>3. calls' \in [Slots -> Calls] /\ SlotsOK'
    BY <1>1, <1>2, ReadType DEF refresh, Send, history, purchases
  <1>4. taps' \in 0..MaxTaps  BY WalletAssumption DEF refresh, Tap, TypeInv, TypeOK
  <1> QED  BY <1>3, <1>4 DEF TypeInv, TypeOK, refresh, app, history, purchases, Tap

LEMMA HomeType == TypeInv /\ CollectsHome => TypeInv'
  <1> SUFFICES ASSUME TypeInv, CollectsHome PROVE TypeInv'  OBVIOUS
  <1>1. calls \in [Slots -> Calls] /\ \A c \in Slots : Sound(calls[c])  BY DEF TypeInv, TypeOK, SlotsOK
  <1>2. paid' = paid /\ lost' = lost  BY DEF CollectsHome, history, purchases
  <1>3. CASE store.user = Nobody
    <2>1. UNCHANGED calls  BY <1>3 DEF CollectsHome
    <2> QED  BY <1>1, <1>2, <2>1, SlotsKept DEF TypeInv, TypeOK, CollectsHome, history, purchases, Viewers
  <1>4. CASE store.user # Nobody
    <2>1. Send(Call("home", store.user, 0))  BY <1>4 DEF CollectsHome
    <2>2. calls' \in [Slots -> Calls] /\ SlotsOK'  BY <1>1, <1>2, <1>4, <2>1, ReadType DEF Send
    <2> QED  BY <2>2 DEF TypeInv, TypeOK, CollectsHome, history, purchases, Viewers
  <1> QED  BY <1>3, <1>4

LEMMA ShopType == TypeInv /\ CollectsShop => TypeInv'
  <1> SUFFICES ASSUME TypeInv, CollectsShop PROVE TypeInv'  OBVIOUS
  <1> DEFINE cancelled == {c \in Slots : calls[c].by = "shop"}
  <1> DEFINE left == [c \in Slots |-> IF c \in cancelled THEN NoCall ELSE calls[c]]
  <1> DEFINE shown == IF store.user = Nobody \/ cancelled # {} THEN 0 ELSE userPoints
  <1>1. calls \in [Slots -> Calls] /\ \A c \in Slots : Sound(calls[c])  BY DEF TypeInv, TypeOK, SlotsOK
  <1>2. paid' = paid /\ lost' = lost  BY DEF CollectsShop, history, purchases
  <1>3. left \in [Slots -> Calls] /\ \A c \in Slots : Sound(left[c])
    <2>1. Sound(NoCall)  BY NoCallType DEF Sound
    <2> QED  BY <1>1, <2>1, NoCallType
  <1>4. shown \in Nat  BY DEF TypeInv, TypeOK
  <1>5. /\ IF store.user = Nobody THEN calls' = left
           ELSE HasRoom(left) /\ calls' = Sent(left, Call("shop", store.user, 0))
        /\ \/ userPoints' = IF store.points = NoPoints THEN shown ELSE store.points
           \/ cancelled # {} /\ userPoints' = 0
    BY DEF CollectsShop
  <1>6. userPoints' \in Nat  BY <1>4, <1>5, StoreFields
  <1> HIDE DEF left
  <1>7. CASE store.user = Nobody
    <2>1. calls' = left  BY <1>5, <1>7
    <2>2. SlotsOK'  BY <1>2, <1>3, <2>1 DEF SlotsOK, Sound
    <2> QED  BY <1>3, <1>6, <2>1, <2>2 DEF TypeInv, TypeOK, CollectsShop, history, purchases, Viewers
  <1>8. CASE store.user # Nobody
    <2>1. HasRoom(left) /\ calls' = Sent(left, Call("shop", store.user, 0))  BY <1>5, <1>8
    <2>2. calls' \in [Slots -> Calls] /\ SlotsOK'  BY <1>2, <1>3, <1>8, <2>1, ReadType
    <2> QED  BY <1>6, <2>2 DEF TypeInv, TypeOK, CollectsShop, history, purchases, Viewers
  <1> QED  BY <1>7, <1>8

LEMMA InfoType ==
  ASSUME TypeInv, NEW c \in Slots, getUserInfo(c)
  PROVE  TypeInv'
  <1> DEFINE call == [calls[c] EXCEPT !.stage = "stored"]
  <1> DEFINE new == [user |-> calls[c].user, points |-> calls[c].value]
  <1>1. calls \in [Slots -> Calls] /\ Sound(calls[c]) /\ IsRead(c)
    BY DEF TypeInv, TypeOK, SlotsOK, getUserInfo
  <1>2. calls[c].by # "none" /\ calls[c].by # "deduct" /\ calls[c].user \in Users /\ calls[c].value \in Nat
    BY <1>1 DEF IsRead, Sound, Calls
  <1>3. new \in [user : Users \cup {Nobody}, points : Nat \cup {NoPoints}]  BY <1>2
  <1>4. Stored(new)  BY DEF getUserInfo
  <1> HIDE DEF new
  <1>5. /\ store' \in [user : Users \cup {Nobody}, points : Nat \cup {NoPoints}]
        /\ collected' \subseteq Viewers
    BY <1>3, <1>4, StoredType DEF TypeInv
  <1>6. paid' = paid /\ lost' = lost  BY DEF getUserInfo, history, purchases
  <1>7. calls' \in [Slots -> Calls] /\ SlotsOK'
    <2>1. CASE Shows(c)
      <3>1. calls' = [calls EXCEPT ![c] = call]  BY <1>1, <2>1 DEF getUserInfo
      <3>2. call \in Calls /\ call.by = calls[c].by /\ call.user = calls[c].user  BY <1>1 DEF Calls
      <3> HIDE DEF call
      <3> QED  BY <1>2, <1>6, <3>1, <3>2, SlotWritten
    <2>2. CASE ~Shows(c)
      <3>1. calls' = [calls EXCEPT ![c] = NoCall]  BY <1>1, <2>2 DEF getUserInfo
      <3> QED  BY <1>6, <3>1, SlotFreed
    <2> QED  BY <2>1, <2>2
  <1> QED  BY <1>5, <1>7 DEF TypeInv, TypeOK, getUserInfo, history, purchases

LEMMA FetchType ==
  ASSUME TypeInv, NEW c \in Slots, fetchUserPoints(c)
  PROVE  TypeInv'
  <1>1. calls[c].value \in Nat  BY DEF TypeInv, TypeOK, Calls
  <1>2. calls' \in [Slots -> Calls] /\ SlotsOK'
    BY SlotFreed DEF fetchUserPoints, Return, history, purchases
  <1> QED  BY <1>1, <1>2 DEF TypeInv, TypeOK, fetchUserPoints, history, purchases

LEMMA PurchaseType ==
  ASSUME TypeInv, NEW c \in Slots, deductPoints(c)
  PROVE  TypeInv'
  <1>1. calls \in [Slots -> Calls] /\ Sound(calls[c]) /\ calls[c].by = "deduct"
    BY DEF TypeInv, TypeOK, SlotsOK, deductPoints
  <1>2. calls[c].value \in Nat /\ calls[c].n \in Purchases  BY <1>1 DEF Calls, Sound
  <1>3. calls' \in [Slots -> Calls] /\ SlotsOK'  BY SlotFreed DEF deductPoints, Return
  <1>4. CASE calls[c].stage = "refused"
    BY <1>3, <1>4 DEF TypeInv, TypeOK, deductPoints
  <1>5. CASE calls[c].stage # "refused"
    <2> DEFINE new == [store EXCEPT !.points = calls[c].value]
    <2>0. store \in [user : Users \cup {Nobody}, points : Nat \cup {NoPoints}]  BY DEF TypeInv, TypeOK
    <2>1. new \in [user : Users \cup {Nobody}, points : Nat \cup {NoPoints}]  BY <1>2, <2>0
    <2>2. Stored(new)  BY <1>5 DEF deductPoints
    <2> HIDE DEF new
    <2>3. /\ store' \in [user : Users \cup {Nobody}, points : Nat \cup {NoPoints}]
          /\ collected' \subseteq Viewers
      BY <2>1, <2>2, StoredType DEF TypeInv
    <2> QED  BY <1>2, <1>3, <1>5, <2>3 DEF TypeInv, TypeOK, deductPoints
  <1> QED  BY <1>4, <1>5

LEMMA GiveUpType ==
  ASSUME TypeInv, NEW c \in Slots, GivesUp(c)
  PROVE  TypeInv'
  <1>1. calls \in [Slots -> Calls] /\ Sound(calls[c]) /\ calls[c] \in Calls
    BY DEF TypeInv, TypeOK, SlotsOK
  <1>2. calls[c].n \in 0..MaxTaps /\ calls[c].user \in Users \cup {Nobody}  BY <1>1 DEF Calls
  <1> DEFINE call == Orphan(calls[c])
  <1>3. calls' = [calls EXCEPT ![c] = call]  BY <1>1 DEF GivesUp
  <1>4. call \in Calls /\ (call = NoCall \/ (/\ calls[c].by = "deduct" /\ calls[c].stage # "answered"
                                             /\ call.by = "deduct" /\ call.n = calls[c].n
                                             /\ call.user = calls[c].user /\ call.stage = calls[c].stage))
    BY <1>1, OrphanType
  <1> HIDE DEF call
  <1>5. paid' = paid /\ lost \subseteq lost' /\ (calls[c].by = "deduct" => calls[c].n \in lost')
    BY DEF GivesUp, IsRead
  <1>6. calls' \in [Slots -> Calls] /\ SlotsOK'
    <2>1. CASE call = NoCall  BY <1>3, <1>5, <2>1, SlotFreed
    <2>2. CASE call # NoCall  BY <1>1, <1>3, <1>4, <1>5, <2>2, SlotWritten DEF Sound
    <2> QED  BY <2>1, <2>2
  <1>7. userPoints' \in Nat  BY DEF TypeInv, TypeOK, GivesUp
  <1>8. isLoading' \in BOOLEAN /\ lost' \subseteq 0..MaxTaps /\ failures' \in Nat
    <2>1. isLoading \in BOOLEAN /\ lost \subseteq 0..MaxTaps  BY DEF TypeInv, TypeOK
    <2>2. failures' \in Nat  BY DEF TypeInv, TypeOK, GivesUp, Fail
    <2>3. \/ isLoading' = isLoading /\ lost' = lost
          \/ isLoading' = FALSE /\ lost' = lost \cup {calls[c].n}
      BY DEF GivesUp
    <2> QED  BY <1>2, <2>1, <2>2, <2>3
  <1>9. behind' \subseteq Users \cup {Nobody}  BY <1>2 DEF TypeInv, TypeOK, GivesUp
  <1> QED  BY <1>5, <1>6, <1>7, <1>8, <1>9 DEF TypeInv, TypeOK, GivesUp, Fail

LEMMA RestartType == TypeInv /\ Restart => TypeInv'
  <1> SUFFICES ASSUME TypeInv, Restart PROVE TypeInv'  OBVIOUS
  <1>1. calls \in [Slots -> Calls] /\ \A c \in Slots : Sound(calls[c]) /\ calls[c] \in Calls
    BY DEF TypeInv, TypeOK, SlotsOK
  <1>2. \A c \in Slots : calls[c].n \in 0..MaxTaps /\ calls[c].user \in Users \cup {Nobody}
    BY <1>1 DEF Calls
  <1>3. calls' = [c \in Slots |-> Orphan(calls[c])]  BY DEF Restart
  <1>4. \A c \in Slots : calls[c].by = "deduct" => calls[c].n \in lost'  BY DEF Restart
  <1>5. paid' = paid /\ lost \subseteq lost' /\ lost' \subseteq 0..MaxTaps
    BY <1>2 DEF Restart, TypeInv, TypeOK
  <1>6. ASSUME NEW c \in Slots PROVE calls'[c] \in Calls /\ Sound(calls[c])'
    <2>1. calls'[c] = Orphan(calls[c])  BY <1>3
    <2>2. CASE calls'[c] = NoCall  BY <2>2, NoCallType DEF Sound
    <2>3. CASE calls'[c] # NoCall
      BY <1>1, <1>4, <1>5, <2>1, <2>3, OrphanType DEF Sound
    <2> QED  BY <2>2, <2>3
  <1>7. calls' \in [Slots -> Calls]  BY <1>3, <1>6
  <1>8. SlotsOK'  BY <1>6 DEF SlotsOK
  <1>9. behind' \subseteq Users \cup {Nobody}  BY <1>2 DEF TypeInv, TypeOK, Restart
  <1>10. failures' \in Nat /\ isLoggedIn' \in BOOLEAN  BY DEF TypeInv, TypeOK, Restart, Fail
  <1> QED  BY <1>5, <1>7, <1>8, <1>9, <1>10 DEF TypeInv, TypeOK, Restart, Fail

LEMMA AddType ==
  ASSUME TypeInv, NEW u \in Users, add_points_atomic(u)
  PROVE  TypeInv'
  <1>1. SlotsOK'  BY SlotsKept DEF add_points_atomic, purchases
  <1>2. points' \in [Users -> Nat] /\ earned' \in [Users -> Nat]
    BY DEF add_points_atomic, TypeInv, TypeOK
  <1> QED  BY <1>1, <1>2 DEF add_points_atomic, TypeInv, TypeOK, app, purchases

LEMMA TypeNext == TypeInv /\ [Next]_vars => TypeInv'
  <1> SUFFICES ASSUME TypeInv, [Next]_vars PROVE TypeInv'  OBVIOUS
  <1>1. CASE UNCHANGED vars
    BY <1>1 DEF vars, app, history, purchases, TypeInv, TypeOK, SlotsOK, Sound
  <1> QED
    BY <1>1, AddType, LoginType, GetType, DeductType, InfoType, FetchType, PurchaseType, GiveUpType,
       LogoutType, ConfirmType, RefreshType, HomeType, ShopType, RestartType
    DEF Next

(* The rows, requests and screens keep their types; no balance is negative.  *)
THEOREM WalletType == Spec => []TypeOK
  <1>1. TypeInv => TypeOK  BY DEF TypeInv
  <1> QED  BY <1>1, TypeInit, TypeNext, PTL DEF Spec

(***************************************************************************)
(* The balance.                                                            *)
(***************************************************************************)

LEMMA BalanceNext == TypeInv /\ NoOverdraft /\ [Next]_vars => NoOverdraft'
  <1> SUFFICES ASSUME TypeInv, NoOverdraft, [Next]_vars PROVE NoOverdraft'  OBVIOUS
  <1>1. points \in [Users -> Nat] /\ earned \in [Users -> Nat] /\ spent \in [Users -> Nat] /\ Price \in Nat
    BY WalletAssumption DEF TypeInv, TypeOK
  <1>2. CASE UNCHANGED <<points, earned, spent>>  BY <1>2 DEF NoOverdraft
  <1>3. ASSUME NEW u \in Users, add_points_atomic(u) PROVE NoOverdraft'
    BY <1>1, <1>3 DEF add_points_atomic, NoOverdraft
  <1>4. ASSUME NEW c \in Slots, deduct_points_atomic(c) PROVE NoOverdraft'
    <2>1. CASE Deducts(c)
      <3>1. calls[c].user \in Users
        BY <1>4 DEF deduct_points_atomic, TypeInv, SlotsOK, Sound
      <3>2. earned' = earned /\ points[calls[c].user] >= Price
        BY <1>4, <2>1 DEF deduct_points_atomic, Deducts
      <3>3. /\ points' = [points EXCEPT ![calls[c].user] = @ - Price]
            /\ spent' = [spent EXCEPT ![calls[c].user] = @ + Price]
        BY <2>1 DEF Deducts
      <3> QED  BY <1>1, <3>1, <3>2, <3>3 DEF NoOverdraft
    <2>2. CASE ~Deducts(c)  BY <1>2, <1>4, <2>2 DEF deduct_points_atomic
    <2> QED  BY <2>1, <2>2
  <1> QED
    BY <1>2, <1>3, <1>4 DEF Next, vars, app, history, login, get_by_id, getUserInfo, fetchUserPoints,
       deductPoints, GivesUp, logout, confirmPurchase, refresh, CollectsHome, CollectsShop, Restart

(* However many purchases overlap, and whatever the stations pay meanwhile:  *)
(* a balance is what was earned less what was spent, and never negative.     *)
THEOREM Balance == Spec => []NoOverdraft
  <1>1. TypeInv /\ NoOverdraft /\ [Next]_vars => (TypeInv /\ NoOverdraft)'  BY TypeNext, BalanceNext
  <1>2. Init => NoOverdraft
    <2> SUFFICES ASSUME Init, NEW u \in Users PROVE points[u] = earned[u] - spent[u] /\ points[u] >= 0
      BY DEF NoOverdraft
    <2>1. points[u] = Start /\ earned[u] = Start /\ spent[u] = 0 /\ Start \in Nat
      BY WalletAssumption DEF Init
    <2> QED  BY <2>1
  <1> QED  BY <1>1, <1>2, TypeInit, PTL DEF Spec

(***************************************************************************)
(* Coupons.                                                                *)
(***************************************************************************)

Answered(c, n) ==
  calls[c].by = "deduct" /\ calls[c].n = n /\ calls[c].awaited /\ calls[c].stage = "answered"

(* An answer stays on its way through a step that leaves its slot alone, and *)
(* purchases that are shown or lost stay so.                                 *)
LEMMA CouponsKept ==
  ASSUME CouponsPaid, coupons' = coupons, paid' = paid, lost \subseteq lost',
         \A c \in Slots, n \in Purchases : Answered(c, n) => calls'[c] = calls[c] \/ n \in lost',
         paid \subseteq Purchases
  PROVE  CouponsPaid'
  BY DEF CouponsPaid, Answered

(* A request is sent to a free slot.                                         *)
LEMMA SentElsewhere ==
  ASSUME NEW cs \in [Slots -> Calls], HasRoom(cs), NEW call \in Calls,
         NEW c \in Slots, cs[c].by # "none"
  PROVE  Sent(cs, call)[c] = cs[c]
  <1>1. PICK d \in Slots : cs[d] = NoCall /\ Sent(cs, call) = [cs EXCEPT ![d] = call]  BY SentType
  <1>2. d # c  BY <1>1, NoCallType
  <1> QED  BY <1>1, <1>2

LEMMA CouponsNext == TypeInv /\ CouponsPaid /\ [Next]_vars => CouponsPaid'
  <1> SUFFICES ASSUME TypeInv, CouponsPaid, [Next]_vars PROVE CouponsPaid'  OBVIOUS
  <1>1. calls \in [Slots -> Calls] /\ paid \subseteq Purchases /\ \A c \in Slots : Sound(calls[c])
    BY DEF TypeInv, TypeOK, SlotsOK
  <1>2. CASE UNCHANGED <<calls, purchases>>  BY <1>1, <1>2, CouponsKept DEF purchases
  <1>3. ASSUME NEW c \in Slots, get_by_id(c) \/ getUserInfo(c) \/ fetchUserPoints(c) PROVE CouponsPaid'
    <2>1. UNCHANGED purchases  BY <1>3 DEF get_by_id, getUserInfo, fetchUserPoints, history
    <2>2. ~(calls[c].by = "deduct" /\ calls[c].stage = "answered")
      BY <1>3 DEF get_by_id, getUserInfo, fetchUserPoints, IsRead
    <2>3. \A d \in Slots : d # c => calls'[d] = calls[d]
      BY <1>1, <1>3 DEF get_by_id, getUserInfo, fetchUserPoints, Return
    <2> QED  BY <1>1, <2>1, <2>2, <2>3, CouponsKept DEF Answered, purchases
  <1>4. ASSUME NEW c \in Slots, deduct_points_atomic(c) PROVE CouponsPaid'
    <2>1. calls[c].by = "deduct" /\ calls[c].stage = "row" /\ coupons' = coupons /\ lost' = lost
      BY <1>4 DEF deduct_points_atomic
    <2>2. \A d \in Slots : d # c => calls'[d] = calls[d]
      BY <1>1, <1>4 DEF deduct_points_atomic, Deducts, Answer
    <2>3. CASE Deducts(c)
      <3>0. PICK n : n = calls[c].n  OBVIOUS
      <3>1. paid' = paid \cup {n}  BY <2>3, <3>0 DEF Deducts
      <3>2. n \in lost' \/ Answered(c, n)'
        <4>1. CASE calls[c].awaited
          <5> DEFINE call == [calls[c] EXCEPT !.stage = "answered", !.value = points[calls[c].user] - Price]
          <5>1. calls'[c] = call  BY <1>1, <2>3, <4>1 DEF Deducts, Answer
          <5>2. call.by = "deduct" /\ call.n = n /\ call.stage = "answered"  BY <1>1, <2>1, <3>0 DEF Calls
          <5>3. call.awaited  BY <1>1, <4>1 DEF Calls
          <5> HIDE DEF call
          <5> QED  BY <5>1, <5>2, <5>3 DEF Answered
        <4>2. CASE ~calls[c].awaited  BY <1>1, <2>1, <3>0, <4>2 DEF Sound
        <4> QED  BY <4>1, <4>2
      <3>3. ASSUME NEW m \in paid, m \notin coupons, m \notin lost PROVE \E d \in Slots : Answered(d, m)'
        <4>1. PICK d \in Slots : Answered(d, m)  BY <3>3 DEF CouponsPaid, Answered
        <4>2. d # c  BY <2>1, <4>1 DEF Answered
        <4> QED  BY <2>2, <4>1, <4>2 DEF Answered
      <3>4. coupons' \subseteq paid'  BY <2>1, <3>1 DEF CouponsPaid
      <3>5. ASSUME NEW m \in paid', m \notin coupons', m \notin lost'
            PROVE  \E d \in Slots : Answered(d, m)'
        <4>1. CASE m = n  BY <3>2, <3>5, <4>1 DEF Answered
        <4>2. CASE m \in paid
          <5>1. m \notin coupons /\ m \notin lost  BY <2>1, <3>5
          <5> QED  BY <3>3, <4>2, <5>1 DEF Answered
        <4> QED  BY <3>1, <4>1, <4>2
      <3> QED  BY <3>4, <3>5 DEF CouponsPaid, Answered
    <2>4. CASE ~Deducts(c)
      <3>1. paid' = paid  BY <1>4, <2>4 DEF deduct_points_atomic
      <3> QED  BY <1>1, <2>1, <2>2, <3>1, CouponsKept DEF Answered
    <2> QED  BY <2>3, <2>4
  <1>5. ASSUME NEW c \in Slots, deductPoints(c) PROVE CouponsPaid'
    <2>1. calls[c].by = "deduct" /\ paid' = paid /\ lost' = lost  BY <1>5 DEF deductPoints
    <2>2. \A d \in Slots : d # c => calls'[d] = calls[d]  BY <1>1, <1>5 DEF deductPoints, Return
    <2>3. CASE calls[c].stage = "refused"
      <3>1. coupons' = coupons  BY <1>5, <2>3 DEF deductPoints
      <3> QED  BY <1>1, <2>1, <2>2, <2>3, <3>1, CouponsKept DEF Answered
    <2>4. CASE calls[c].stage # "refused"
      <3>1. calls[c].stage = "answered" /\ coupons' = coupons \cup {calls[c].n}
        BY <1>5, <2>4 DEF deductPoints
      <3>2. calls[c].n \in paid  BY <1>1, <2>1, <3>1 DEF Sound
      <3>3. ASSUME NEW m \in paid, m \notin coupons', m \notin lost PROVE \E d \in Slots : Answered(d, m)'
        <4>1. PICK d \in Slots : Answered(d, m)  BY <3>1, <3>3 DEF CouponsPaid, Answered
        <4>2. d # c  BY <3>1, <3>3, <4>1 DEF Answered
        <4> QED  BY <2>2, <4>1, <4>2 DEF Answered
      <3> QED  BY <2>1, <3>1, <3>2, <3>3 DEF CouponsPaid, Answered
    <2> QED  BY <2>3, <2>4
  <1>6. ASSUME NEW c \in Slots, GivesUp(c) PROVE CouponsPaid'
    <2>1. coupons' = coupons /\ paid' = paid /\ lost \subseteq lost'  BY <1>6 DEF GivesUp
    <2>2. calls[c].by = "deduct" => calls[c].n \in lost'  BY <1>6 DEF GivesUp, IsRead
    <2>3. \A d \in Slots : d # c => calls'[d] = calls[d]  BY <1>1, <1>6 DEF GivesUp
    <2> QED  BY <1>1, <2>1, <2>2, <2>3, CouponsKept DEF Answered
  <1>7. CASE Restart
    <2>1. coupons' = coupons /\ paid' = paid /\ lost \subseteq lost'  BY <1>7 DEF Restart
    <2>2. \A c \in Slots : calls[c].by = "deduct" => calls[c].n \in lost'  BY <1>7 DEF Restart
    <2> QED  BY <1>1, <2>1, <2>2, CouponsKept DEF Answered
  <1>8. CASE confirmPurchase \/ refresh \/ CollectsHome \/ CollectsShop
    <2>1. UNCHANGED purchases
      BY <1>8 DEF confirmPurchase, refresh, CollectsHome, CollectsShop, history
    <2>2. ASSUME NEW c \in Slots, calls[c].by = "deduct" PROVE calls'[c] = calls[c]
      <3>1. \A cs \in [Slots -> Calls], call \in Calls :
              HasRoom(cs) /\ cs[c].by # "none" => Sent(cs, call)[c] = cs[c]
        BY SentElsewhere
      <3>2. store.user # Nobody => store.user \in Users  BY StoreFields
      <3>3. \A by \in {"home", "shop", "refresh", "deduct"}, n \in 0..MaxTaps :
              store.user # Nobody => Call(by, store.user, n) \in Calls
        BY <3>2, CallType
      <3>4. 0 \in 0..MaxTaps  BY WalletAssumption
      <3>5. CASE confirmPurchase
        <4> DEFINE call == Call("deduct", store.user, taps')
        <4> DEFINE deducting == Sent(calls, call)
        <4>1. HasRoom(calls) /\ HasRoom(deducting) /\ calls' = Sent(deducting, Call("home", store.user, 0))
              /\ store.user # Nobody
          BY <3>5 DEF confirmPurchase
        <4>2. taps' \in 0..MaxTaps  BY <3>5, WalletAssumption DEF confirmPurchase, Tap, TypeInv, TypeOK
        <4>3. call \in Calls /\ Call("home", store.user, 0) \in Calls  BY <3>3, <3>4, <4>1, <4>2
        <4> HIDE DEF call
        <4>4. deducting \in [Slots -> Calls]  BY <1>1, <4>1, <4>3, SentType
        <4>5. deducting[c] = calls[c]  BY <1>1, <2>2, <3>1, <4>1, <4>3
        <4> HIDE DEF deducting
        <4> QED  BY <2>2, <3>1, <4>1, <4>3, <4>4, <4>5
      <3>6. CASE refresh
        <4>1. PICK by \in {"home", "refresh"} : Send(Call(by, store.user, 0))  BY <3>6 DEF refresh
        <4>2. Call(by, store.user, 0) \in Calls  BY <3>3, <3>4, <3>6 DEF refresh
        <4> QED  BY <1>1, <2>2, <3>1, <4>1, <4>2 DEF Send
      <3>7. CASE CollectsHome
        <4>1. CASE store.user = Nobody  BY <3>7, <4>1 DEF CollectsHome
        <4>2. CASE store.user # Nobody
          <5>1. Call("home", store.user, 0) \in Calls  BY <3>3, <3>4, <4>2
          <5> QED  BY <1>1, <2>2, <3>1, <3>7, <4>2, <5>1 DEF CollectsHome, Send
        <4> QED  BY <4>1, <4>2
      <3>8. CASE CollectsShop
        <4> DEFINE cancelled == {d \in Slots : calls[d].by = "shop"}
        <4> DEFINE left == [d \in Slots |-> IF d \in cancelled THEN NoCall ELSE calls[d]]
        <4>1. IF store.user = Nobody THEN calls' = left
              ELSE HasRoom(left) /\ calls' = Sent(left, Call("shop", store.user, 0))
          BY <3>8 DEF CollectsShop
        <4>2. left \in [Slots -> Calls] /\ left[c] = calls[c]  BY <1>1, <2>2, NoCallType
        <4> HIDE DEF left
        <4>3. CASE store.user = Nobody  BY <4>1, <4>2, <4>3
        <4>4. CASE store.user # Nobody
          <5>1. Call("shop", store.user, 0) \in Calls  BY <3>3, <3>4, <4>4
          <5> QED  BY <2>2, <3>1, <4>1, <4>2, <4>4, <5>1
        <4> QED  BY <4>3, <4>4
      <3> QED  BY <1>8, <3>5, <3>6, <3>7, <3>8
    <2> QED  BY <1>1, <2>1, <2>2, CouponsKept DEF Answered, purchases
  <1> QED
    BY <1>2, <1>3, <1>4, <1>5, <1>6, <1>7, <1>8 DEF Next, vars, history, purchases,
       add_points_atomic, login, logout

(* Each coupon was paid for, and each purchase that was paid for has its     *)
(* coupon, or its answer on the way or lost: for any requests under way.     *)
THEOREM CouponsArePaid == Spec => []CouponsPaid
  <1>1. TypeInv /\ CouponsPaid /\ [Next]_vars => (TypeInv /\ CouponsPaid)'  BY TypeNext, CouponsNext
  <1>2. Init => CouponsPaid  BY DEF Init, CouponsPaid
  <1> QED  BY <1>1, <1>2, TypeInit, PTL DEF Spec

(***************************************************************************)
(* Whom the app acts for.                                                  *)
(***************************************************************************)

(* Unless a read crossed a logout: the store has who logged in, and so does  *)
(* every read under way.                                                     *)
Agrees ==
  ~overtaken =>
    /\ store.user = member /\ (isLoggedIn <=> member # Nobody)
    /\ \A c \in Slots : IsRead(c) => calls[c].user = member

(* A step that leaves the store's user alone and sends reads for that user.  *)
LEMMA AgreesKept ==
  ASSUME Agrees, store'.user = store.user, member' = member, isLoggedIn' = isLoggedIn,
         overtaken' = overtaken,
         \A c \in Slots : IsRead(c)' => calls'[c].user = store.user \/ (IsRead(c) /\ calls'[c].user = calls[c].user)
  PROVE  Agrees'
  BY DEF Agrees

(* A request sent is a new one for the store's user in one slot.             *)
LEMMA SentAgrees ==
  ASSUME NEW cs \in [Slots -> Calls], HasRoom(cs), NEW call \in Calls, NEW c \in Slots
  PROVE  Sent(cs, call)[c] = call \/ Sent(cs, call)[c] = cs[c]
  <1>1. PICK d \in Slots : Sent(cs, call) = [cs EXCEPT ![d] = call]  BY SentType
  <1> QED  BY <1>1

LEMMA CallUser ==
  ASSUME TypeInv, NEW by \in {"home", "shop", "refresh", "deduct"}, NEW n \in 0..MaxTaps, store.user # Nobody
  PROVE  Call(by, store.user, n) \in Calls /\ Call(by, store.user, n).user = store.user
  <1>1. store.user \in Users  BY StoreFields
  <1>2. Call(by, store.user, n) \in Calls  BY <1>1, CallType
  <1>3. Call(by, store.user, n).user = store.user  BY <1>1, CallType
  <1> QED  BY <1>2, <1>3

LEMMA AgreesNext == TypeInv /\ Agrees /\ [Next]_vars => Agrees'
  <1> SUFFICES ASSUME TypeInv, Agrees, [Next]_vars PROVE Agrees'  OBVIOUS
  <1>0. calls \in [Slots -> Calls] /\ \A c \in Slots : Sound(calls[c])
    BY DEF TypeInv, TypeOK, SlotsOK
  <1>a. 0 \in 0..MaxTaps  BY WalletAssumption
  <1>1. CASE UNCHANGED <<calls, store, member, isLoggedIn, overtaken>>
    BY <1>1, AgreesKept DEF IsRead
  <1>2. ASSUME NEW u \in Users, login(u) PROVE Agrees'
    <2> SUFFICES ASSUME ~overtaken' PROVE Agrees'  BY DEF Agrees
    <2>1. ~overtaken /\ ~isLoggedIn /\ calls' = calls /\ member' = u /\ isLoggedIn' = TRUE
      BY <1>2 DEF login
    <2>2. member = Nobody /\ \A c \in Slots : ~IsRead(c)
      <3>1. member = Nobody /\ \A c \in Slots : IsRead(c) => calls[c].user = Nobody
        BY <2>1 DEF Agrees
      <3> QED  BY <1>0, <3>1, WalletAssumption DEF IsRead, Sound
    <2> DEFINE new == [store EXCEPT !.user = u]
    <2>3. store' = new  BY <1>2 DEF login, Stored
    <2>4. store \in [user : Users \cup {Nobody}, points : Nat \cup {NoPoints}]  BY DEF TypeInv, TypeOK
    <2>5. new.user = u  BY <2>4
    <2> HIDE DEF new
    <2> QED  BY <2>1, <2>2, <2>3, <2>5, WalletAssumption DEF Agrees, IsRead
  <1>3. CASE logout
    <2> SUFFICES ASSUME ~overtaken' PROVE Agrees'  BY DEF Agrees
    <2> DEFINE reading == \E c \in Slots : IsRead(c)
    <2>1. overtaken' = (overtaken \/ reading)  BY <1>3 DEF logout
    <2>2. ~reading  BY <2>1
    <2>3. store' = [user |-> Nobody, points |-> NoPoints] /\ member' = Nobody /\ isLoggedIn' = FALSE
          /\ calls' = calls
      BY <1>3 DEF logout, Stored
    <2> QED  BY <2>2, <2>3 DEF Agrees, IsRead
  <1>4. ASSUME NEW c \in Slots, get_by_id(c) PROVE Agrees'
    <2>1. UNCHANGED <<store, member, isLoggedIn, overtaken>>  BY <1>4 DEF get_by_id, app
    <2>2. \A d \in Slots : d # c => calls'[d] = calls[d]  BY <1>0, <1>4 DEF get_by_id
    <2>3. calls'[c].by = calls[c].by /\ calls'[c].user = calls[c].user
      BY <1>0, <1>4 DEF get_by_id, Calls
    <2> QED  BY <2>1, <2>2, <2>3, AgreesKept DEF IsRead
  <1>5. ASSUME NEW c \in Slots, deduct_points_atomic(c) PROVE Agrees'
    <2>1. UNCHANGED <<store, member, isLoggedIn, overtaken>>  BY <1>5 DEF deduct_points_atomic, app
    <2>2. \A d \in Slots : d # c => calls'[d] = calls[d]
      BY <1>0, <1>5 DEF deduct_points_atomic, Deducts, Answer
    <2>3. ~IsRead(c)'
      <3> DEFINE was == calls[c]
      <3>1. was \in Calls /\ was.by = "deduct"  BY <1>0, <1>5 DEF deduct_points_atomic
      <3>2. \E stage, value : Answer(c, stage, value)  BY <1>5 DEF deduct_points_atomic, Deducts
      <3>3. PICK stage, value : Answer(c, stage, value)  BY <3>2
      <3>4. calls'[c] = IF was.awaited THEN [was EXCEPT !.stage = stage, !.value = value] ELSE NoCall
        BY <1>0, <3>3 DEF Answer
      <3> HIDE DEF was
      <3>5. [was EXCEPT !.stage = stage, !.value = value].by = "deduct"  BY <3>1 DEF Calls
      <3>6. calls'[c].by \in {"deduct", "none"}  BY <3>4, <3>5, NoCallType
      <3> QED  BY <3>6 DEF IsRead
    <2> QED  BY <2>1, <2>2, <2>3, AgreesKept DEF IsRead
  <1>6. ASSUME NEW c \in Slots, getUserInfo(c) PROVE Agrees'
    <2> SUFFICES ASSUME ~overtaken' PROVE Agrees'  BY DEF Agrees
    <2>1. ~overtaken /\ UNCHANGED <<member, isLoggedIn>>  BY <1>6 DEF getUserInfo, history
    <2>2. calls[c].user = member /\ store' = [user |-> calls[c].user, points |-> calls[c].value]
      BY <1>6, <2>1 DEF Agrees, getUserInfo, Stored
    <2>3. store'.user = member  BY <2>2
    <2>4. \A d \in Slots : d # c => calls'[d] = calls[d]  BY <1>0, <1>6 DEF getUserInfo
    <2>5. calls'[c].user = calls[c].user \/ ~IsRead(c)'
      BY <1>0, <1>6, NoCallType DEF getUserInfo, IsRead, Calls
    <2> QED  BY <2>1, <2>2, <2>3, <2>4, <2>5 DEF Agrees, IsRead
  <1>7. ASSUME NEW c \in Slots, fetchUserPoints(c) PROVE Agrees'
    <2>1. UNCHANGED <<store, member, isLoggedIn, overtaken>>  BY <1>7 DEF fetchUserPoints, history
    <2>2. \A d \in Slots : d # c => calls'[d] = calls[d]  BY <1>0, <1>7 DEF fetchUserPoints, Return
    <2>3. ~IsRead(c)'  BY <1>0, <1>7, NoCallType DEF fetchUserPoints, Return, IsRead
    <2> QED  BY <2>1, <2>2, <2>3, AgreesKept DEF IsRead
  <1>8. ASSUME NEW c \in Slots, deductPoints(c) PROVE Agrees'
    <2>1. UNCHANGED <<member, isLoggedIn, overtaken>>  BY <1>8 DEF deductPoints
    <2>2. \A d \in Slots : d # c => calls'[d] = calls[d]  BY <1>0, <1>8 DEF deductPoints, Return
    <2>3. ~IsRead(c)'  BY <1>0, <1>8, NoCallType DEF deductPoints, Return, IsRead
    <2>4. store'.user = store.user
      <3>1. store \in [user : Users \cup {Nobody}, points : Nat \cup {NoPoints}]  BY DEF TypeInv, TypeOK
      <3>2. store' = store \/ store' = [store EXCEPT !.points = calls[c].value]
        BY <1>8 DEF deductPoints, Stored
      <3> QED  BY <3>1, <3>2
    <2> QED  BY <2>1, <2>2, <2>3, <2>4, AgreesKept DEF IsRead
  <1>9. ASSUME NEW c \in Slots, GivesUp(c) PROVE Agrees'
    <2>1. UNCHANGED <<store, member, isLoggedIn, overtaken>>  BY <1>9 DEF GivesUp
    <2>2. \A d \in Slots : d # c => calls'[d] = calls[d]  BY <1>0, <1>9 DEF GivesUp
    <2>3. ~IsRead(c)'
      <3>1. calls'[c] = Orphan(calls[c])  BY <1>0, <1>9 DEF GivesUp
      <3>2. calls'[c].by \in {"deduct", "none"}  BY <1>0, <3>1, OrphanType, NoCallType
      <3> QED  BY <3>2 DEF IsRead
    <2> QED  BY <2>1, <2>2, <2>3, AgreesKept DEF IsRead
  <1>10. CASE Restart
    <2> SUFFICES ASSUME ~overtaken' PROVE Agrees'  BY DEF Agrees
    <2>1. ~overtaken /\ UNCHANGED <<store, member>> /\ isLoggedIn' = (store.user # Nobody)
      BY <1>10 DEF Restart
    <2>2. \A c \in Slots : ~IsRead(c)'
      <3>1. \A c \in Slots : calls'[c] = Orphan(calls[c])  BY <1>10 DEF Restart
      <3>2. \A c \in Slots : calls'[c].by \in {"deduct", "none"}  BY <1>0, <3>1, OrphanType, NoCallType
      <3> QED  BY <3>2 DEF IsRead
    <2> QED  BY <2>1, <2>2 DEF Agrees
  <1>11. CASE confirmPurchase
    <2>1. UNCHANGED <<store, member, isLoggedIn, overtaken>>  BY <1>11 DEF confirmPurchase, history
    <2> DEFINE call == Call("deduct", store.user, taps')
    <2> DEFINE read == Call("home", store.user, 0)
    <2> DEFINE deducting == Sent(calls, call)
    <2>2. HasRoom(calls) /\ HasRoom(deducting) /\ calls' = Sent(deducting, read) /\ store.user # Nobody
      BY <1>11 DEF confirmPurchase
    <2>3. taps' \in 0..MaxTaps  BY <1>11, WalletAssumption DEF confirmPurchase, Tap, TypeInv, TypeOK
    <2>4. call \in Calls /\ call.user = store.user  BY <2>2, <2>3, CallUser
    <2>5. read \in Calls /\ read.user = store.user  BY <1>a, <2>2, CallUser
    <2> HIDE DEF call, read
    <2>6. deducting \in [Slots -> Calls]  BY <1>0, <2>2, <2>4, SentType
    <2>7. \A c \in Slots : deducting[c] = call \/ deducting[c] = calls[c]
      BY <1>0, <2>2, <2>4, SentAgrees
    <2> HIDE DEF deducting
    <2>8. \A c \in Slots : calls'[c] = read \/ calls'[c] = call \/ calls'[c] = calls[c]
      BY <2>2, <2>5, <2>6, <2>7, SentAgrees
    <2> QED  BY <2>1, <2>4, <2>5, <2>8, AgreesKept DEF IsRead
  <1>12. ASSUME NEW by \in {"home", "shop", "refresh"}, NEW cs \in [Slots -> Calls], HasRoom(cs),
                \A c \in Slots : cs[c] = calls[c] \/ cs[c] = NoCall,
                calls' = Sent(cs, Call(by, store.user, 0)), store.user # Nobody,
                UNCHANGED <<store, member, isLoggedIn, overtaken>>
         PROVE  Agrees'
    <2> DEFINE read == Call(by, store.user, 0)
    <2>1. by \in {"home", "shop", "refresh", "deduct"}  OBVIOUS
    <2>2. read \in Calls /\ read.user = store.user  BY <1>a, <1>12, <2>1, CallUser
    <2>3. calls' = Sent(cs, read)  BY <1>12
    <2> HIDE DEF read
    <2>4. \A c \in Slots : calls'[c] = read \/ calls'[c] = cs[c]  BY <1>12, <2>2, <2>3, SentAgrees
    <2> QED  BY <1>12, <2>2, <2>4, NoCallType, AgreesKept DEF IsRead
  <1>13. CASE refresh
    <2>1. PICK by \in {"home", "refresh"} : Send(Call(by, store.user, 0))  BY <1>13 DEF refresh
    <2>2. store.user # Nobody /\ UNCHANGED <<store, member, isLoggedIn, overtaken>>
      BY <1>13 DEF refresh, app, history
    <2> QED  BY <1>0, <1>12, <2>1, <2>2 DEF Send
  <1>14. CASE CollectsHome
    <2>1. UNCHANGED <<store, member, isLoggedIn, overtaken>>  BY <1>14 DEF CollectsHome, history
    <2>2. CASE store.user = Nobody  BY <1>1, <1>14, <2>1, <2>2 DEF CollectsHome
    <2>3. CASE store.user # Nobody
      <3>1. Send(Call("home", store.user, 0))  BY <1>14, <2>3 DEF CollectsHome
      <3> QED  BY <1>0, <1>12, <2>1, <2>3, <3>1 DEF Send
    <2> QED  BY <2>2, <2>3
  <1>15. CASE CollectsShop
    <2> DEFINE cancelled == {d \in Slots : calls[d].by = "shop"}
    <2> DEFINE left == [d \in Slots |-> IF d \in cancelled THEN NoCall ELSE calls[d]]
    <2>1. IF store.user = Nobody THEN calls' = left
          ELSE HasRoom(left) /\ calls' = Sent(left, Call("shop", store.user, 0))
      BY <1>15 DEF CollectsShop
    <2>2. left \in [Slots -> Calls] /\ \A c \in Slots : left[c] = calls[c] \/ left[c] = NoCall
      BY <1>0, NoCallType
    <2> HIDE DEF left
    <2>3. UNCHANGED <<store, member, isLoggedIn, overtaken>>  BY <1>15 DEF CollectsShop, history
    <2>4. CASE store.user = Nobody
      <3>1. calls' = left  BY <2>1, <2>4
      <3> QED  BY <2>2, <2>3, <3>1, NoCallType, AgreesKept DEF IsRead
    <2>5. CASE store.user # Nobody  BY <1>12, <2>1, <2>2, <2>3, <2>5
    <2> QED  BY <2>4, <2>5
  <1> QED
    BY <1>1, <1>2, <1>3, <1>4, <1>5, <1>6, <1>7, <1>8, <1>9, <1>10, <1>11, <1>13, <1>14, <1>15
    DEF Next, vars, app, history, add_points_atomic

(* For any members and requests under way: as long as no read crossed a      *)
(* logout, the app acts for the member who logged in, and for nobody else.   *)
THEOREM ActsForMemberOnly == Spec => []ActsForMember
  <1>1. TypeInv /\ Agrees /\ [Next]_vars => (TypeInv /\ Agrees)'  BY TypeNext, AgreesNext
  <1>2. Init => Agrees
    <2> SUFFICES ASSUME Init PROVE Agrees  OBVIOUS
    <2>1. \A c \in Slots : calls[c] = NoCall  BY DEF Init
    <2>2. \A c \in Slots : ~IsRead(c)  BY <2>1, NoCallType DEF IsRead
    <2> QED  BY <2>2 DEF Init, Agrees
  <1>3. Agrees => ActsForMember  BY DEF Agrees, ActsForMember
  <1> QED  BY <1>1, <1>2, <1>3, TypeInit, PTL DEF Spec
=============================================================================
