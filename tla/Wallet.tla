-------------------------------- MODULE Wallet --------------------------------
(***************************************************************************)
(* A member's points: the row of the users table, the copy the app keeps   *)
(* in its session store, and what its shop shows of it.  Every view model  *)
(* collects the store and asks the server again whenever the store         *)
(* changes; whoever answers overwrites the store.  Requests overtake one   *)
(* another, and the app gives one up without the server learning of it.    *)
(*                                                                         *)
(* One phone.  MyPageViewModel reads as ShopViewModel does and is left     *)
(* out, and so are the dialogs: the button of a purchase is enabled when   *)
(* the shop shows enough points and no purchase is loading.                *)
(***************************************************************************)
EXTENDS Integers

CONSTANTS
  Users,        \* the members who use this phone
  Nobody,       \* user_id missing in the store
  NoPoints,     \* user_points missing in the store
  Price,        \* of a product
  Slots,        \* bound: requests under way
  MaxTaps,      \* bound: logins, logouts, purchases and refreshes
  MaxFailures,  \* bound: requests given up, and restarts of the app
  MaxEarned,    \* bound: points each member earns at the stations
  Start         \* the points each member has at first

ASSUME WalletAssumption ==
  /\ Nobody \notin Users /\ NoPoints \notin Int
  /\ Price \in Nat \ {0} /\ MaxTaps \in Nat /\ MaxFailures \in Nat
  /\ MaxEarned \in Nat /\ Start \in Nat

VARIABLES
  points,       \* users.points
  calls,        \* the requests under way, with how far they are
  store,        \* SessionManager: user_id and user_points
  collected,    \* the view models that have seen what is stored
  isLoggedIn,   \* LoginUiState
  userPoints, isLoading,     \* ShopUiState
  member,       \* history: who logged in last, and has not logged out
  overtaken,    \* history: a member logged out with a read under way
  behind,       \* history: whose points changed and the app has not asked since
  earned, spent,             \* history, by user
  paid, coupons, lost,       \* history: purchases deducted, shown, unanswered
  taps, failures             \* history: how many so far

purchases == <<paid, coupons, lost>>
app == <<store, collected, isLoggedIn, userPoints, isLoading>>
history == <<member, overtaken, behind, earned, spent, purchases>>
vars == <<points, calls, app, history, taps, failures>>

Purchases == 1..MaxTaps
Viewers == {"home", "shop"}

Calls ==
  [by : {"home", "shop", "refresh", "deduct", "none"}, user : Users \cup {Nobody}, n : 0..MaxTaps,
   stage : {"sent", "row", "answered", "refused", "stored"}, value : Nat, awaited : BOOLEAN]

Call(by, user, n) ==
  [by |-> by, user |-> user, n |-> n, stage |-> "sent", value |-> 0, awaited |-> TRUE]
NoCall == [by |-> "none", user |-> Nobody, n |-> 0, stage |-> "sent", value |-> 0, awaited |-> FALSE]

(* The app is started, with the session it stored or without one. *)
Init ==
  /\ points = [u \in Users |-> Start] /\ calls = [c \in Slots |-> NoCall]
  /\ store \in {[user |-> Nobody, points |-> NoPoints]} \cup [user : Users, points : {Start}]
  /\ collected = {} /\ isLoggedIn = (store.user # Nobody) /\ userPoints = 0 /\ isLoading = FALSE
  /\ member = store.user /\ overtaken = FALSE /\ behind = {}
  /\ earned = [u \in Users |-> Start] /\ spent = [u \in Users |-> 0]
  /\ paid = {} /\ coupons = {} /\ lost = {}
  /\ taps = 0 /\ failures = 0

IsRead(c) == calls[c].by \in {"home", "shop", "refresh"}
Shows(c) == calls[c].by \in {"shop", "refresh"}
Free(c) == calls[c].by = "none"
Return(c) == calls' = [calls EXCEPT ![c] = NoCall]
Tap == taps < MaxTaps /\ taps' = taps + 1 /\ UNCHANGED failures

Resumed == \A c \in Slots : calls[c].stage # "stored"

(* Mutant of Stored: the flow of user_id is made distinct, and a change of   *)
(* the points alone asks for nothing.                                        *)
StoredDistinct(new) ==
  Resumed /\ store' = new /\ collected' = IF new.user = store.user THEN collected ELSE {}

(* DataStore.edit: the flows emit, to whoever collects them, when what is    *)
(* stored has changed.  Edits are made one by one, and who waits for one is  *)
(* resumed on the main thread, first come, first served.                     *)
Stored(new) ==
  Resumed /\ store' = new /\ collected' = IF new = store THEN collected ELSE {}

-----------------------------------------------------------------------------
(* The server. *)

(* What a station pays in, while the phone is elsewhere. *)
add_points_atomic(u) ==
  /\ earned[u] < MaxEarned
  /\ points' = [points EXCEPT ![u] = @ + 1]
  /\ earned' = [earned EXCEPT ![u] = @ + 1]
  /\ behind' = behind \cup {u}
  /\ UNCHANGED <<calls, app, member, overtaken, spent, purchases, taps, failures>>

get_by_id(c) ==
  /\ ~Free(c) /\ calls[c].stage = "sent"
  /\ calls' = [calls EXCEPT ![c].stage = IF IsRead(c) THEN "answered" ELSE "row",
                            ![c].value = points[calls[c].user]]
  /\ behind' = IF IsRead(c) THEN behind \ {calls[c].user} ELSE behind
  /\ UNCHANGED <<points, app, member, overtaken, earned, spent, purchases, taps, failures>>

(* Where a purchase goes when the app no longer waits for it. *)
Answer(c, stage, value) ==
  calls' = [calls EXCEPT ![c] = IF @.awaited THEN [@ EXCEPT !.stage = stage, !.value = value] ELSE NoCall]

(* Mutant of Deducts: the UPDATE has no condition. *)
DeductsAlways(c) ==
  /\ points' = [points EXCEPT ![calls[c].user] = @ - Price]
  /\ spent' = [spent EXCEPT ![calls[c].user] = @ + Price]
  /\ paid' = paid \cup {calls[c].n}
  /\ Answer(c, "answered", points[calls[c].user] - Price)
  /\ UNCHANGED behind

(* Mutant of Deducts: the UPDATE relies on the balance read before it. *)
DeductsRow(c) ==
  /\ calls[c].value >= Price
  /\ points' = [points EXCEPT ![calls[c].user] = @ - Price]
  /\ spent' = [spent EXCEPT ![calls[c].user] = @ + Price]
  /\ paid' = paid \cup {calls[c].n}
  /\ Answer(c, "answered", points[calls[c].user] - Price)
  /\ behind' = IF calls[c].awaited THEN behind ELSE behind \cup {calls[c].user}

(* Mutant of Deducts: the answer is given and the commit forgotten. *)
DeductsUncommitted(c) ==
  /\ points[calls[c].user] >= Price
  /\ Answer(c, "answered", points[calls[c].user] - Price)
  /\ UNCHANGED <<points, spent, paid, behind>>

(* The UPDATE with its condition, and the commit. *)
Deducts(c) ==
  /\ points[calls[c].user] >= Price
  /\ points' = [points EXCEPT ![calls[c].user] = @ - Price]
  /\ spent' = [spent EXCEPT ![calls[c].user] = @ + Price]
  /\ paid' = paid \cup {calls[c].n}
  /\ Answer(c, "answered", points[calls[c].user] - Price)
  /\ behind' = IF calls[c].awaited THEN behind ELSE behind \cup {calls[c].user}

deduct_points_atomic(c) ==
  /\ calls[c].by = "deduct" /\ calls[c].stage = "row"
  /\ \/ Deducts(c)
     \/ /\ points[calls[c].user] < Price
        /\ Answer(c, "refused", 0)
        /\ UNCHANGED <<points, spent, paid, behind>>
  /\ UNCHANGED <<app, member, overtaken, earned, coupons, lost, taps, failures>>

-----------------------------------------------------------------------------
(* The app. *)

HasRoom(cs) == \E c \in Slots : cs[c] = NoCall
Sent(cs, call) == [cs EXCEPT ![CHOOSE c \in Slots : cs[c] = NoCall] = call]
Send(call) == HasRoom(calls) /\ calls' = Sent(calls, call)

(* AuthRepository.login, with the answer; the points stay as they are. *)
login(u) ==
  /\ ~isLoggedIn /\ Tap
  /\ Stored([store EXCEPT !.user = u])
  /\ isLoggedIn' = TRUE /\ member' = u
  /\ UNCHANGED <<points, calls, userPoints, isLoading, overtaken, behind, earned, spent, purchases>>

(* Mutant of logout: the screen changes and the store keeps the member. *)
LogoutScreen ==
  /\ isLoggedIn /\ Tap
  /\ isLoggedIn' = FALSE /\ member' = Nobody
  /\ UNCHANGED <<points, calls, store, collected, userPoints, isLoading,
                 overtaken, behind, earned, spent, purchases>>

logout ==
  /\ isLoggedIn /\ Tap
  /\ Stored([user |-> Nobody, points |-> NoPoints])
  /\ isLoggedIn' = FALSE /\ member' = Nobody
  /\ overtaken' = (overtaken \/ \E c \in Slots : IsRead(c))
  /\ UNCHANGED <<points, calls, userPoints, isLoading, behind, earned, spent, purchases>>

(* The button, which also refreshes the home screen. *)
confirmPurchase ==
  /\ isLoggedIn /\ ~isLoading /\ userPoints >= Price /\ Tap
  /\ store.user # Nobody
  /\ isLoading' = TRUE
  /\ LET deducting == Sent(calls, Call("deduct", store.user, taps'))
     IN HasRoom(calls) /\ HasRoom(deducting) /\ calls' = Sent(deducting, Call("home", store.user, 0))
  /\ UNCHANGED <<points, store, collected, isLoggedIn, userPoints, history>>

(* HomeViewModel.refresh, or ShopViewModel.refresh. *)
refresh ==
  /\ isLoggedIn /\ store.user # Nobody /\ Tap
  /\ \E by \in {"home", "refresh"} : Send(Call(by, store.user, 0))
  /\ UNCHANGED <<points, app, history>>

(* A view model collects the store and asks the server, of which the home    *)
(* screen may have several reads under way.  The shop's collectLatest        *)
(* cancels the read before, which then shows 0, before or after the flow of  *)
(* the points shows what is stored.                                          *)
CollectsHome ==
  /\ "home" \notin collected /\ collected' = collected \cup {"home"}
  /\ IF store.user = Nobody THEN UNCHANGED calls
     ELSE Send(Call("home", store.user, 0))
  /\ UNCHANGED <<points, store, isLoggedIn, userPoints, isLoading, history, taps, failures>>

CollectsShop ==
  LET cancelled == {c \in Slots : calls[c].by = "shop"}
      left == [c \in Slots |-> IF c \in cancelled THEN NoCall ELSE calls[c]]
      shown == IF store.user = Nobody \/ cancelled # {} THEN 0 ELSE userPoints
  IN /\ "shop" \notin collected /\ collected' = collected \cup {"shop"}
     /\ IF store.user = Nobody THEN calls' = left
        ELSE HasRoom(left) /\ calls' = Sent(left, Call("shop", store.user, 0))
     /\ \/ userPoints' = IF store.points = NoPoints THEN shown ELSE store.points
        \/ cancelled # {} /\ userPoints' = 0
     /\ UNCHANGED <<points, store, isLoggedIn, isLoading, history, taps, failures>>

(* getUserInfo has its answer and saves the session, then the shop shows it. *)
getUserInfo(c) ==
  /\ IsRead(c) /\ calls[c].stage = "answered"
  /\ Stored([user |-> calls[c].user, points |-> calls[c].value])
  /\ calls' = [calls EXCEPT ![c] = IF Shows(c) THEN [@ EXCEPT !.stage = "stored"] ELSE NoCall]
  /\ UNCHANGED <<points, isLoggedIn, userPoints, isLoading, history, taps, failures>>

fetchUserPoints(c) ==
  /\ calls[c].stage = "stored"
  /\ userPoints' = calls[c].value /\ Return(c)
  /\ UNCHANGED <<points, store, collected, isLoggedIn, isLoading, history, taps, failures>>

(* The purchase has its answer: the coupon is shown, whoever is logged in. *)
deductPoints(c) ==
  /\ calls[c].by = "deduct" /\ calls[c].awaited /\ calls[c].stage \in {"answered", "refused"}
  /\ isLoading' = FALSE /\ Return(c)
  /\ IF calls[c].stage = "refused" THEN UNCHANGED <<store, collected, userPoints, coupons>>
     ELSE /\ Stored([store EXCEPT !.points = calls[c].value])
          /\ userPoints' = calls[c].value
          /\ coupons' = coupons \cup {calls[c].n}
  /\ UNCHANGED <<points, isLoggedIn, member, overtaken, behind, earned, spent, paid, lost, taps, failures>>

(* What remains of a request the app no longer waits for: a read changes     *)
(* nothing at the server, a purchase goes on if it has not been done.        *)
Orphan(call) ==
  IF call.by = "deduct" /\ call.stage \in {"sent", "row"} THEN [call EXCEPT !.awaited = FALSE] ELSE NoCall

Fail == failures < MaxFailures /\ failures' = failures + 1 /\ UNCHANGED taps

(* A request fails for the app: its answer is lost, or late. *)
GivesUp(c) ==
  /\ calls[c].awaited /\ calls[c].stage # "stored" /\ Fail
  /\ calls' = [calls EXCEPT ![c] = Orphan(@)]
  /\ IF IsRead(c) THEN UNCHANGED <<isLoading, lost>>
     ELSE isLoading' = FALSE /\ lost' = lost \cup {calls[c].n}
  /\ userPoints' = IF Shows(c) THEN 0 ELSE userPoints
  /\ behind' = behind \cup {calls[c].user}
  /\ UNCHANGED <<points, store, collected, isLoggedIn, member, overtaken, earned, spent, paid, coupons>>

(* The app's process dies and is started again: checkAutoLogin. *)
Restart ==
  /\ Fail
  /\ calls' = [c \in Slots |-> Orphan(calls[c])]
  /\ isLoggedIn' = (store.user # Nobody)
  /\ userPoints' = 0 /\ isLoading' = FALSE /\ collected' = {}
  /\ lost' = lost \cup {calls[c].n : c \in {d \in Slots : calls[d].by = "deduct"}}
  /\ behind' = behind \cup {calls[c].user : c \in {d \in Slots : ~Free(d)}}
  /\ UNCHANGED <<points, store, member, overtaken, earned, spent, paid, coupons>>

-----------------------------------------------------------------------------
Next ==
  \/ \E u \in Users : add_points_atomic(u) \/ login(u)
  \/ \E c \in Slots :
       \/ get_by_id(c) \/ deduct_points_atomic(c)
       \/ getUserInfo(c) \/ fetchUserPoints(c) \/ deductPoints(c) \/ GivesUp(c)
  \/ logout \/ confirmPurchase \/ refresh \/ CollectsHome \/ CollectsShop \/ Restart

Spec == Init /\ [][Next]_vars

(* The server answers what it was asked, and the app's coroutines run. *)
Works(c) ==
  get_by_id(c) \/ deduct_points_atomic(c) \/ getUserInfo(c) \/ fetchUserPoints(c) \/ deductPoints(c)
FairSpec ==
  /\ Spec /\ \A c \in Slots : WF_vars(Works(c))
  /\ SF_vars(CollectsHome) /\ SF_vars(CollectsShop)

-----------------------------------------------------------------------------
(* Properties. *)

TypeOK ==
  /\ points \in [Users -> Nat] /\ earned \in [Users -> Nat] /\ spent \in [Users -> Nat]
  /\ calls \in [Slots -> Calls]
  /\ store \in [user : Users \cup {Nobody}, points : Nat \cup {NoPoints}]
  /\ collected \subseteq Viewers /\ userPoints \in Nat
  /\ isLoggedIn \in BOOLEAN /\ isLoading \in BOOLEAN /\ overtaken \in BOOLEAN
  /\ member \in Users \cup {Nobody} /\ behind \subseteq Users \cup {Nobody}
  /\ paid \subseteq Purchases /\ coupons \subseteq Purchases /\ lost \subseteq 0..MaxTaps
  /\ taps \in 0..MaxTaps /\ failures \in Nat

(* However purchases overlap, with each other and with what the stations     *)
(* pay, the balance is what was earned less what was spent, never below 0.   *)
NoOverdraft == \A u \in Users : points[u] = earned[u] - spent[u] /\ points[u] >= 0

(* A coupon is shown only for points that were deducted, and points that     *)
(* were deducted without a coupon have their answer on the way, or lost.     *)
CouponsPaid ==
  /\ coupons \subseteq paid
  /\ \A n \in paid : \/ n \in coupons \/ n \in lost
                     \/ \E c \in Slots : calls[c].by = "deduct" /\ calls[c].n = n
                                         /\ calls[c].awaited /\ calls[c].stage = "answered"

(* The app acts for whoever logged in last, and for nobody after a logout,   *)
(* unless a read under way at a logout brought the old member back.          *)
ActsForMember == overtaken \/ store.user = member

(* Answers overtake one another, and an old one may overwrite a newer        *)
(* balance; but that is a change, which makes the home screen ask again: in  *)
(* the end the store has the member's balance, unless it changed where the   *)
(* app could not know and nobody asked; and the shop shows that, or 0 when a *)
(* request failed.  The reads of two members, after a logout with one under  *)
(* way, may go on overwriting each other for ever.                           *)
Settles ==
  <>[](~overtaken /\ store.user # Nobody =>
        /\ store.points = points[store.user] \/ store.user \in behind
        /\ userPoints = store.points \/ (userPoints = 0 /\ failures > 0))
=============================================================================
