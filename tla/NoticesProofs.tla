---------------------------- MODULE NoticesProofs ----------------------------
(***************************************************************************)
(* Proofs about Notices: a token stands only where its device was logged   *)
(* in, and a notice whose sender waited reaches a device of the person it  *)
(* is about, for any number of devices, phones, open reads and restarts.   *)
(***************************************************************************)
EXTENDS Notices, TLAPS

Tokens == Devices \cup {NoToken}

\* The shape of the state.
Shapes ==
    /\ state \in [Devices -> {"off", "starting", "running"}]
    /\ prefs \in [Devices -> Phones \cup {NoPhone}]
    /\ userPhone \in [Devices -> Phones \cup {NoPhone}]
    /\ page \in [Devices -> {"elsewhere", "auth", "profile"}]
    /\ shown \in [Devices -> {"elsewhere", "auth", "profile"}]
    /\ asks \in [Devices -> 0 .. MaxAsks]
    /\ outbox \in [Devices -> Seq(Phones)]
    /\ used \in SUBSET (Devices \X Phones)

CheckoutShape ==
    checkout \in [step : {"closed", "first", "second", "ready", "failed"},
                  to : [{1, 2} -> Tokens], filed : SUBSET {1, 2}]

DeskShape ==
    /\ desk \in [mtoken : Tokens, reads : Seq(Phones), dialog : Phones \cup {NoPhone},
                 alone : BOOLEAN, found : BOOLEAN]
    /\ Len(desk.reads) <= MaxReads

\* What a device keeps, holds and has on its way was logged in on it.
Owned ==
    \A d \in Devices :
        /\ prefs[d] # NoPhone => <<d, prefs[d]>> \in used
        /\ userPhone[d] # NoPhone => <<d, userPhone[d]>> \in used
        /\ \A k \in 1 .. Len(outbox[d]) : <<d, outbox[d][k]>> \in used

Filed == \A p \in DOMAIN tokens : <<tokens[p], p>> \in used

\* The static is the preferences', but between a login or logout and its frame.
Fresh ==
    \A d \in Devices :
        /\ state[d] = "off" => asks[d] = 0
        /\ state[d] # "running" => userPhone[d] = NoPhone /\ page[d] = shown[d]
        /\ state[d] = "running" /\ (page[d] = shown[d] \/ page[d] = "elsewhere")
                => userPhone[d] = prefs[d]

\* A token that was read is its administrator's.
CheckoutKnows ==
    /\ \A i \in checkout.filed : AdminPhones[i] \in DOMAIN tokens
    /\ \A i \in checkout.filed :
          checkout.step = "ready" \/ (checkout.step = "second" /\ i = 1)
              => <<checkout.to[i], AdminPhones[i]>> \in used

\* While one dialog's read is the only one, mtoken is its customer's or not
\* found yet.
DeskKnows ==
    desk.alone =>
        /\ desk.dialog # NoPhone
        /\ desk.reads = << >> \/ (desk.reads = <<desk.dialog>> /\ ~ desk.found)
        /\ desk.found => <<desk.mtoken, desk.dialog>> \in used

\* What was sent last.
Notified == \A n \in sent : n.sure => <<n.to, n.about>> \in used

DeviceInv == Shapes /\ Owned /\ Filed /\ Fresh

NoticeInv ==
    /\ DeviceInv
    /\ CheckoutShape /\ CheckoutKnows
    /\ DeskShape /\ DeskKnows
    /\ Notified

\* The steps of one device.
DeviceStep(d) ==
    \/ Start(d) \/ PrefsRead(d) \/ Stop(d)
    \/ TokenArrives(d) \/ TokenFails(d) \/ Deliver(d)
    \/ \E p \in {"elsewhere", "auth", "profile"} : NavTapped(d, p)
    \/ \E p \in Phones : LogIn(d, p)
    \/ LogOut(d) \/ Frame(d)

\* What the two pages know outlives every step of a device: accounts used and
\* phones filed only grow.
LEMMA ReadersKeep ==
    ASSUME NoticeInv, used \subseteq used', DOMAIN tokens \subseteq DOMAIN tokens',
           UNCHANGED <<checkout, desk>>
    PROVE  CheckoutShape' /\ CheckoutKnows' /\ DeskShape' /\ DeskKnows'
BY DEF NoticeInv, CheckoutShape, CheckoutKnows, DeskShape, DeskKnows

\* Phones that only move between preferences and static, or go, stay owned.
LEMMA MovedPhonesAreOwned ==
    ASSUME Owned, UNCHANGED <<used, outbox>>,
           \A d \in Devices : /\ prefs'[d] \in {prefs[d], NoPhone}
                              /\ userPhone'[d] \in {userPhone[d], prefs[d], NoPhone}
    PROVE  Owned'
BY DEF Owned

\* The static of a process that starts is empty.
LEMMA StartKeeps ==
    ASSUME NoticeInv, NEW d \in Devices, Start(d)
    PROVE  DeviceInv'
<1>1. Shapes'
  BY BoundsAssumption DEF NoticeInv, DeviceInv, Shapes, Start
<1>2. Owned'
  <2>1. prefs \in [Devices -> Phones \cup {NoPhone}] /\ userPhone \in [Devices -> Phones \cup {NoPhone}]
    BY DEF NoticeInv, DeviceInv, Shapes
  <2>2. /\ UNCHANGED <<used, outbox>>
        /\ \A e \in Devices : /\ prefs'[e] \in {prefs[e], NoPhone}
                              /\ userPhone'[e] \in {userPhone[e], prefs[e], NoPhone}
    BY <2>1 DEF Start
  <2> QED
    BY <2>2, MovedPhonesAreOwned DEF NoticeInv, DeviceInv
<1>3. Filed'
  BY <1>1 DEF NoticeInv, DeviceInv, Shapes, Owned, Filed, Start
<1>4. Fresh'
  BY <1>1, PhonesAssumption DEF NoticeInv, DeviceInv, Shapes, Fresh, Start
<1> QED
  BY <1>1, <1>2, <1>3, <1>4 DEF DeviceInv

\* The static takes what the preferences hold.
LEMMA PrefsReadKeeps ==
    ASSUME NoticeInv, NEW d \in Devices, PrefsRead(d)
    PROVE  DeviceInv'
<1>1. Shapes'
  BY BoundsAssumption DEF NoticeInv, DeviceInv, Shapes, PrefsRead
<1>2. Owned'
  <2>1. prefs \in [Devices -> Phones \cup {NoPhone}] /\ userPhone \in [Devices -> Phones \cup {NoPhone}]
    BY DEF NoticeInv, DeviceInv, Shapes
  <2>2. /\ UNCHANGED <<used, outbox>>
        /\ \A e \in Devices : /\ prefs'[e] \in {prefs[e], NoPhone}
                              /\ userPhone'[e] \in {userPhone[e], prefs[e], NoPhone}
    BY <2>1 DEF PrefsRead
  <2> QED
    BY <2>2, MovedPhonesAreOwned DEF NoticeInv, DeviceInv
<1>3. Filed'
  BY <1>1 DEF NoticeInv, DeviceInv, Shapes, Owned, Filed, PrefsRead
<1>4. Fresh'
  BY <1>1, PhonesAssumption DEF NoticeInv, DeviceInv, Shapes, Fresh, PrefsRead
<1> QED
  BY <1>1, <1>2, <1>3, <1>4 DEF DeviceInv

\* Only the preferences and the queue outlive the process.
LEMMA StopKeeps ==
    ASSUME NoticeInv, NEW d \in Devices, Stop(d)
    PROVE  DeviceInv'
<1>1. Shapes'
  BY BoundsAssumption DEF NoticeInv, DeviceInv, Shapes, Stop
<1>2. Owned'
  <2>1. prefs \in [Devices -> Phones \cup {NoPhone}] /\ userPhone \in [Devices -> Phones \cup {NoPhone}]
    BY DEF NoticeInv, DeviceInv, Shapes
  <2>2. /\ UNCHANGED <<used, outbox>>
        /\ \A e \in Devices : /\ prefs'[e] \in {prefs[e], NoPhone}
                              /\ userPhone'[e] \in {userPhone[e], prefs[e], NoPhone}
    BY <2>1 DEF Stop
  <2> QED
    BY <2>2, MovedPhonesAreOwned DEF NoticeInv, DeviceInv
<1>3. Filed'
  BY <1>1 DEF NoticeInv, DeviceInv, Shapes, Owned, Filed, Stop
<1>4. Fresh'
  BY <1>1, PhonesAssumption DEF NoticeInv, DeviceInv, Shapes, Fresh, Stop
<1> QED
  BY <1>1, <1>2, <1>3, <1>4 DEF DeviceInv

\* The phone that is queued is the static, and not the empty one.
LEMMA TokenArrivesKeeps ==
    ASSUME NoticeInv, NEW d \in Devices, TokenArrives(d)
    PROVE  DeviceInv'
<1>1. Shapes'
  BY BoundsAssumption DEF NoticeInv, DeviceInv, Shapes, TokenArrives
<1>2. Owned'
  <2>1. CASE userPhone[d] = NoPhone
    BY <2>1 DEF NoticeInv, DeviceInv, Owned, TokenArrives
  <2>2. CASE userPhone[d] # NoPhone
    <3>1. <<d, userPhone[d]>> \in used /\ userPhone[d] \in Phones /\ outbox[d] \in Seq(Phones)
      BY <2>2 DEF NoticeInv, DeviceInv, Shapes, Owned
    <3>2. /\ outbox' = [outbox EXCEPT ![d] = Append(outbox[d], userPhone[d])]
          /\ UNCHANGED <<prefs, userPhone, used>>
      BY <2>2 DEF TokenArrives
    <3>3. \A k \in 1 .. Len(outbox'[d]) : <<d, outbox'[d][k]>> \in used
      <4>1. outbox'[d] = Append(outbox[d], userPhone[d])
        BY <3>2 DEF NoticeInv, DeviceInv, Shapes
      <4>2. \A k \in 1 .. Len(outbox[d]) : <<d, outbox[d][k]>> \in used
        BY DEF NoticeInv, DeviceInv, Owned
      <4> QED
        BY <3>1, <4>1, <4>2
    <3>4. \A e \in Devices \ {d} : outbox'[e] = outbox[e]
      BY <3>2 DEF NoticeInv, DeviceInv, Shapes
    <3>5. \A e \in Devices : \A k \in 1 .. Len(outbox'[e]) : <<e, outbox'[e][k]>> \in used
      <4>1. \A e \in Devices \ {d} : \A k \in 1 .. Len(outbox[e]) : <<e, outbox[e][k]>> \in used
        BY DEF NoticeInv, DeviceInv, Owned
      <4> QED
        BY <3>3, <3>4, <4>1
    <3> QED
      BY <3>2, <3>5 DEF NoticeInv, DeviceInv, Owned
  <2> QED
    BY <2>1, <2>2
<1>3. Filed'
  BY <1>1 DEF NoticeInv, DeviceInv, Shapes, Owned, Filed, TokenArrives
<1>4. Fresh'
  BY <1>1, PhonesAssumption DEF NoticeInv, DeviceInv, Shapes, Fresh, TokenArrives
<1> QED
  BY <1>1, <1>2, <1>3, <1>4 DEF DeviceInv

\* A question that fails leaves the queue as it is.
LEMMA TokenFailsKeeps ==
    ASSUME NoticeInv, NEW d \in Devices, TokenFails(d)
    PROVE  DeviceInv'
<1>1. Shapes'
  BY BoundsAssumption DEF NoticeInv, DeviceInv, Shapes, TokenFails
<1>2. Owned' /\ Filed' /\ Fresh'
  BY DEF NoticeInv, DeviceInv, Owned, Filed, Fresh, TokenFails
<1> QED
  BY <1>1, <1>2 DEF DeviceInv

\* The server takes what the device's own queue held.
LEMMA DeliverKeeps ==
    ASSUME NoticeInv, NEW d \in Devices, Deliver(d)
    PROVE  DeviceInv'
<1> DEFINE q == outbox[d]
<1>a. /\ q \in Seq(Phones) /\ q # << >>
      /\ \A k \in 1 .. Len(q) : <<d, q[k]>> \in used
  BY DEF NoticeInv, DeviceInv, Shapes, Owned, Deliver
<1>b. /\ Tail(q) \in Seq(Phones) /\ Len(Tail(q)) = Len(q) - 1
      /\ \A k \in 1 .. Len(Tail(q)) : Tail(q)[k] = q[k + 1]
  BY <1>a
<1>c. Head(q) \in Phones /\ <<d, Head(q)>> \in used
  BY <1>a
<1>d. /\ outbox'[d] = Tail(q)
      /\ \A e \in Devices \ {d} : outbox'[e] = outbox[e]
  BY DEF NoticeInv, DeviceInv, Shapes, Deliver
<1>1. Shapes'
  BY <1>b DEF NoticeInv, DeviceInv, Shapes, Deliver
<1>2. Owned'
  <2>1. \A k \in 1 .. Len(Tail(q)) : <<d, Tail(q)[k]>> \in used
    BY <1>a, <1>b
  <2>2. UNCHANGED <<prefs, userPhone, used>>
    BY DEF Deliver
  <2> QED
    BY <2>1, <2>2, <1>d DEF NoticeInv, DeviceInv, Owned
<1>3. Filed'
  <2>1. tokens' = [p \in DOMAIN tokens \cup {Head(q)} |-> IF p = Head(q) THEN d ELSE tokens[p]]
    BY DEF Deliver
  <2>2. used' = used
    BY DEF Deliver
  <2> QED
    BY <1>c, <2>1, <2>2 DEF NoticeInv, DeviceInv, Filed
<1>4. Fresh'
  BY <1>1, PhonesAssumption DEF NoticeInv, DeviceInv, Shapes, Fresh, Deliver
<1> QED
  BY <1>1, <1>2, <1>3, <1>4 DEF DeviceInv

\* A move changes no account.
LEMMA NavTappedKeeps ==
    ASSUME NoticeInv, NEW d \in Devices, NEW p \in {"elsewhere", "auth", "profile"}, NavTapped(d, p)
    PROVE  DeviceInv'
<1>1. Shapes'
  BY BoundsAssumption DEF NoticeInv, DeviceInv, Shapes, NavTapped, Settled, Go
<1>2. Owned'
  <2>1. prefs \in [Devices -> Phones \cup {NoPhone}] /\ userPhone \in [Devices -> Phones \cup {NoPhone}]
    BY DEF NoticeInv, DeviceInv, Shapes
  <2>2. /\ UNCHANGED <<used, outbox>>
        /\ \A e \in Devices : /\ prefs'[e] \in {prefs[e], NoPhone}
                              /\ userPhone'[e] \in {userPhone[e], prefs[e], NoPhone}
    BY <2>1 DEF NavTapped
  <2> QED
    BY <2>2, MovedPhonesAreOwned DEF NoticeInv, DeviceInv
<1>3. Filed'
  BY <1>1 DEF NoticeInv, DeviceInv, Shapes, Owned, Filed, NavTapped
<1>4. Fresh'
  BY <1>1, PhonesAssumption DEF NoticeInv, DeviceInv, Shapes, Fresh, NavTapped, Settled, Go
<1> QED
  BY <1>1, <1>2, <1>3, <1>4 DEF DeviceInv

\* The account logged in to is noted as used.
LEMMA LogInKeeps ==
    ASSUME NoticeInv, NEW d \in Devices, NEW p \in Phones, LogIn(d, p)
    PROVE  DeviceInv'
<1>1. Shapes'
  BY BoundsAssumption DEF NoticeInv, DeviceInv, Shapes, LogIn, Settled, Go
<1>2. Owned'
  BY <1>1, PhonesAssumption DEF NoticeInv, DeviceInv, Shapes, Owned, Fresh, LogIn, Settled, Go
<1>3. Filed'
  BY <1>1 DEF NoticeInv, DeviceInv, Shapes, Owned, Filed, LogIn
<1>4. Fresh'
  BY <1>1, PhonesAssumption DEF NoticeInv, DeviceInv, Shapes, Fresh, LogIn, Settled, Go
<1> QED
  BY <1>1, <1>2, <1>3, <1>4 DEF DeviceInv

\* The static is behind until the login is drawn.
LEMMA LogOutKeeps ==
    ASSUME NoticeInv, NEW d \in Devices, LogOut(d)
    PROVE  DeviceInv'
<1>1. Shapes'
  BY BoundsAssumption DEF NoticeInv, DeviceInv, Shapes, LogOut, Settled, Go
<1>2. Owned'
  <2>1. prefs \in [Devices -> Phones \cup {NoPhone}] /\ userPhone \in [Devices -> Phones \cup {NoPhone}]
    BY DEF NoticeInv, DeviceInv, Shapes
  <2>2. /\ UNCHANGED <<used, outbox>>
        /\ \A e \in Devices : /\ prefs'[e] \in {prefs[e], NoPhone}
                              /\ userPhone'[e] \in {userPhone[e], prefs[e], NoPhone}
    BY <2>1 DEF LogOut
  <2> QED
    BY <2>2, MovedPhonesAreOwned DEF NoticeInv, DeviceInv
<1>3. Filed'
  BY <1>1 DEF NoticeInv, DeviceInv, Shapes, Owned, Filed, LogOut
<1>4. Fresh'
  BY <1>1, PhonesAssumption DEF NoticeInv, DeviceInv, Shapes, Fresh, LogOut, Settled, Go
<1> QED
  BY <1>1, <1>2, <1>3, <1>4 DEF DeviceInv

\* A page that is drawn reads the preferences, or never lost them.
LEMMA FrameKeeps ==
    ASSUME NoticeInv, NEW d \in Devices, Frame(d)
    PROVE  DeviceInv'
<1>1. Shapes'
  BY BoundsAssumption DEF NoticeInv, DeviceInv, Shapes, Frame
<1>2. Owned'
  <2>1. prefs \in [Devices -> Phones \cup {NoPhone}] /\ userPhone \in [Devices -> Phones \cup {NoPhone}]
    BY DEF NoticeInv, DeviceInv, Shapes
  <2>2. /\ UNCHANGED <<used, outbox>>
        /\ \A e \in Devices : /\ prefs'[e] \in {prefs[e], NoPhone}
                              /\ userPhone'[e] \in {userPhone[e], prefs[e], NoPhone}
    BY <2>1 DEF Frame
  <2> QED
    BY <2>2, MovedPhonesAreOwned DEF NoticeInv, DeviceInv
<1>3. Filed'
  BY <1>1 DEF NoticeInv, DeviceInv, Shapes, Owned, Filed, Frame
<1>4. Fresh'
  BY <1>1, PhonesAssumption DEF NoticeInv, DeviceInv, Shapes, Fresh, Frame
<1> QED
  BY <1>1, <1>2, <1>3, <1>4 DEF DeviceInv

\* A device's step preserves the whole invariant.
LEMMA DeviceStepKeeps ==
    ASSUME NoticeInv, NEW d \in Devices, DeviceStep(d)
    PROVE  NoticeInv'
<1>1. DeviceInv'
  BY StartKeeps, PrefsReadKeeps, StopKeeps, TokenArrivesKeeps, TokenFailsKeeps, DeliverKeeps,
     NavTappedKeeps, LogInKeeps, LogOutKeeps, FrameKeeps DEF DeviceStep
<1>2. /\ used \subseteq used' /\ DOMAIN tokens \subseteq DOMAIN tokens' /\ sent' = {}
      /\ UNCHANGED <<checkout, desk>>
  BY DEF DeviceStep, Start, PrefsRead, Stop, TokenArrives, TokenFails, Deliver, NavTapped, LogIn,
         LogOut, Frame, Quiet
<1>3. CheckoutShape' /\ CheckoutKnows' /\ DeskShape' /\ DeskKnows'
  BY <1>2, ReadersKeep
<1> QED
  BY <1>1, <1>2, <1>3 DEF NoticeInv, Notified

\* The two pages change nothing of the devices or of the server.
LEMMA PagesKeepDevices ==
    ASSUME NoticeInv, UNCHANGED <<device, tokens, used>>
    PROVE  DeviceInv'
BY DEF NoticeInv, DeviceInv, Shapes, Owned, Filed, Fresh, device

\* The steps of the checkout page.
CheckoutStep == OpenCheckout \/ AdminTokenRead \/ AdminTokenFails \/ Submit \/ LeaveCheckout

\* A read finds the administrator's token, or there was none to find when the
\* page was opened; what is sent after the second is that.
LEMMA CheckoutStepKeeps ==
    ASSUME NoticeInv, CheckoutStep
    PROVE  NoticeInv'
<1>a. UNCHANGED <<device, tokens, used, desk>>
  BY DEF CheckoutStep, OpenCheckout, AdminTokenRead, AdminTokenFails, Submit, LeaveCheckout
<1>b. /\ CheckoutShape /\ CheckoutKnows /\ DeskShape /\ DeskKnows
      /\ \A p \in DOMAIN tokens : <<tokens[p], p>> \in used /\ tokens[p] \in Devices
  BY DEF NoticeInv, DeviceInv, Filed, Shapes
<1>1. DeviceInv' /\ DeskShape' /\ DeskKnows'
  BY <1>a, <1>b, PagesKeepDevices DEF DeskShape, DeskKnows
<1>2. NoCheckout \in [step : {"closed"}, to : [{1, 2} -> Tokens], filed : {{}}]
  BY DEF NoCheckout, Tokens
<1>3. CASE OpenCheckout
  BY <1>1, <1>2, <1>3, <1>b
    DEF NoticeInv, OpenCheckout, CheckoutShape, CheckoutKnows, Notified, Quiet
<1>4. CASE AdminTokenRead
  <2> DEFINE i == IF checkout.step = "first" THEN 1 ELSE 2
  <2>1. /\ (checkout.step = "first" /\ i = 1) \/ (checkout.step = "second" /\ i = 2)
        /\ checkout' = [checkout EXCEPT !.step = IF i = 1 THEN "second" ELSE "ready",
                                        !.to = [@ EXCEPT ![i] = TokenOf(AdminPhones[i])]]
        /\ sent' = {} /\ UNCHANGED <<tokens, used>>
    BY <1>4 DEF AdminTokenRead, Quiet
  <2>2. TokenOf(AdminPhones[i]) \in Tokens
    BY <1>b DEF TokenOf, Tokens
  <2>3. i \in checkout.filed => <<TokenOf(AdminPhones[i]), AdminPhones[i]>> \in used
    BY <1>b DEF TokenOf, CheckoutKnows
  <2>4. CheckoutShape'
    BY <1>b, <2>1, <2>2 DEF CheckoutShape
  <2>5. CheckoutKnows'
    BY <1>b, <2>1, <2>3 DEF CheckoutKnows, CheckoutShape
  <2> QED
    BY <1>1, <2>1, <2>4, <2>5 DEF NoticeInv, Notified, Quiet
<1>5. CASE AdminTokenFails
  BY <1>1, <1>5, <1>b
    DEF NoticeInv, AdminTokenFails, CheckoutShape, CheckoutKnows, Notified, Quiet
<1>6. CASE Submit
  <2>1. ASSUME NEW n \in sent', n.sure
        PROVE  <<n.to, n.about>> \in used
    <3>1. PICK i \in {1, 2} : n = [kind |-> "order", to |-> checkout.to[i], about |-> AdminPhones[i],
                                  sure |-> checkout.step = "ready" /\ i \in checkout.filed]
      BY <1>6, <2>1 DEF Submit
    <3>2. checkout.step = "ready" /\ i \in checkout.filed
      BY <2>1, <3>1
    <3>3. n.to = checkout.to[i] /\ n.about = AdminPhones[i]
      BY <3>1
    <3> QED
      BY <1>b, <3>2, <3>3 DEF CheckoutKnows
  <2> QED
    BY <1>1, <1>2, <1>6, <2>1
      DEF NoticeInv, Submit, CheckoutShape, CheckoutKnows, Notified, Quiet
<1>7. CASE LeaveCheckout
  BY <1>1, <1>2, <1>7
    DEF NoticeInv, LeaveCheckout, CheckoutShape, CheckoutKnows, Notified, Quiet
<1> QED
  BY <1>3, <1>4, <1>5, <1>6, <1>7 DEF CheckoutStep

\* The steps of the page of orders.
DeskStep ==
    \/ \E p \in Phones : OpenTotal(p)
    \/ \E k \in 1 .. MaxReads : UserTokenRead(k)
    \/ ConfirmTotal \/ Dismiss \/ LeaveOrders

\* The only read of a dialog is its customer's, so that what it finds is his.
LEMMA DeskStepKeeps ==
    ASSUME NoticeInv, DeskStep
    PROVE  NoticeInv'
<1>a. UNCHANGED <<device, tokens, used, checkout>>
  BY DEF DeskStep, OpenTotal, UserTokenRead, ConfirmTotal, Dismiss, LeaveOrders
<1>b. /\ CheckoutShape /\ CheckoutKnows /\ DeskShape /\ DeskKnows
      /\ \A p \in DOMAIN tokens : <<tokens[p], p>> \in used /\ tokens[p] \in Devices
  BY DEF NoticeInv, DeviceInv, Filed, Shapes
<1>1. DeviceInv' /\ CheckoutShape' /\ CheckoutKnows'
  BY <1>a, <1>b, PagesKeepDevices DEF CheckoutShape, CheckoutKnows
<1>2. ASSUME NEW p \in Phones, OpenTotal(p)
      PROVE  NoticeInv'
  <2>1. /\ Append(desk.reads, p) \in Seq(Phones)
        /\ Len(Append(desk.reads, p)) <= MaxReads
        /\ desk.reads = << >> => Append(desk.reads, p) = <<p>>
    <3>1. desk.reads \in Seq(Phones) /\ Len(desk.reads) < MaxReads /\ MaxReads \in Nat
      BY <1>2, <1>b, BoundsAssumption DEF OpenTotal, DeskShape
    <3>2. desk.reads = << >> => Append(desk.reads, p) = <<p>>
      OBVIOUS
    <3> QED
      BY <3>1, <3>2
  <2>2. DeskShape'
    BY <1>2, <1>b, <2>1 DEF OpenTotal, DeskShape
  <2>3. DeskKnows'
    BY <1>2, <1>b, <2>1, PhonesAssumption DEF OpenTotal, DeskShape, DeskKnows
  <2> QED
    BY <1>1, <1>2, <2>2, <2>3 DEF NoticeInv, OpenTotal, Notified, Quiet
<1>3. ASSUME NEW k \in 1 .. MaxReads, UserTokenRead(k)
      PROVE  NoticeInv'
  <2> DEFINE s == desk.reads
  <2>1. PICK found \in BOOLEAN :
          /\ found => s[k] \in DOMAIN tokens
          /\ desk' = [desk EXCEPT !.reads = RemoveAt(s, k),
                                  !.mtoken = IF found THEN tokens[s[k]] ELSE @,
                                  !.found = @ \/ (found /\ desk.dialog # NoPhone)]
    BY <1>3 DEF UserTokenRead
  <2>2. s \in Seq(Phones) /\ k \in 1 .. Len(s) /\ s[k] \in Phones
    BY <1>3, <1>b DEF UserTokenRead, DeskShape
  <2>3. RemoveAt(s, k) \in Seq(Phones) /\ Len(RemoveAt(s, k)) = Len(s) - 1
    <3> DEFINE front == SubSeq(s, 1, k - 1)
               back  == SubSeq(s, k + 1, Len(s))
    <3>1. front \in Seq(Phones) /\ Len(front) = k - 1
      BY <2>2
    <3>2. back \in Seq(Phones) /\ Len(back) = Len(s) - k
      BY <2>2
    <3>3. RemoveAt(s, k) = front \o back
      BY DEF RemoveAt
    <3> HIDE DEF front, back
    <3>4. front \o back \in Seq(Phones) /\ Len(front \o back) = Len(front) + Len(back)
      BY <3>1, <3>2
    <3> QED
      BY <2>2, <3>1, <3>2, <3>3, <3>4
  <2>4. ASSUME NEW p, s = <<p>>
        PROVE  RemoveAt(s, k) = << >> /\ s[k] = p
    BY <2>2, <2>3, <2>4
  <2>5. found \in BOOLEAN /\ (found => tokens[s[k]] \in Devices /\ <<tokens[s[k]], s[k]>> \in used)
    BY <1>b, <2>1
  <2>6. DeskShape'
    <3>1. Len(desk.reads) <= MaxReads /\ MaxReads \in Nat
      BY <1>b, BoundsAssumption DEF DeskShape
    <3>2. Len(RemoveAt(s, k)) <= MaxReads
      BY <2>2, <2>3, <3>1
    <3>3. CASE found
      BY <1>b, <2>1, <2>3, <2>5, <3>2, <3>3 DEF DeskShape, Tokens
    <3>4. CASE ~ found
      BY <1>b, <2>1, <2>3, <2>5, <3>2, <3>4 DEF DeskShape, Tokens
    <3> QED
      BY <3>3, <3>4
  <2>7. DeskKnows'
    <3> SUFFICES ASSUME desk'.alone
                 PROVE  /\ desk'.dialog # NoPhone
                        /\ desk'.reads = << >>
                        /\ desk'.found => <<desk'.mtoken, desk'.dialog>> \in used
      BY <1>a DEF DeskKnows
    <3>1. desk.alone /\ desk'.dialog = desk.dialog
      BY <1>b, <2>1 DEF DeskShape
    <3>2. s = <<desk.dialog>> /\ ~ desk.found /\ desk.dialog # NoPhone
      BY <1>b, <2>2, <3>1 DEF DeskKnows
    <3> QED
      BY <1>b, <2>1, <2>4, <2>5, <3>1, <3>2 DEF DeskShape
  <2>8. Notified'
    BY <1>3 DEF UserTokenRead, Notified, Quiet
  <2> QED
    BY <1>1, <2>6, <2>7, <2>8 DEF NoticeInv
<1>4. CASE ConfirmTotal
  <2>1. ASSUME NEW n \in sent', n.sure
        PROVE  <<n.to, n.about>> \in used
    <3>1. n = [kind |-> "total", to |-> desk.mtoken, about |-> desk.dialog,
               sure |-> desk.alone /\ desk.found]
      BY <1>4, <2>1 DEF ConfirmTotal
    <3>2. desk.alone /\ desk.found
      BY <2>1, <3>1
    <3>3. n.to = desk.mtoken /\ n.about = desk.dialog
      BY <3>1
    <3> QED
      BY <1>b, <3>2, <3>3 DEF DeskKnows
  <2> QED
    BY <1>1, <1>4, <1>b, <2>1 DEF NoticeInv, ConfirmTotal, DialogClosed, DeskShape, DeskKnows,
       Notified, Quiet
<1>5. CASE Dismiss
  BY <1>1, <1>5, <1>b
    DEF NoticeInv, Dismiss, DialogClosed, DeskShape, DeskKnows, Notified, Quiet
<1>6. CASE LeaveOrders
  <2>1. DeskShape'
    BY <1>6, BoundsAssumption DEF LeaveOrders, NoDesk, DeskShape, Tokens
  <2> QED
    BY <1>1, <1>6, <2>1 DEF NoticeInv, LeaveOrders, NoDesk, DeskKnows, Notified, Quiet
<1> QED
  BY <1>2, <1>3, <1>4, <1>5, <1>6 DEF DeskStep

\* Before anything is installed there is no account, no token and no page.
LEMMA NoticeInit == Init => NoticeInv
<1> SUFFICES ASSUME Init PROVE NoticeInv
  OBVIOUS
<1>1. DeviceInv
  BY BoundsAssumption DEF Init, DeviceInv, Shapes, Owned, Filed, Fresh
<1>2. CheckoutShape /\ CheckoutKnows
  BY DEF Init, NoCheckout, CheckoutShape, CheckoutKnows, Tokens
<1>3. DeskShape /\ DeskKnows
  BY BoundsAssumption DEF Init, NoDesk, DeskShape, DeskKnows, Tokens
<1> QED
  BY <1>1, <1>2, <1>3 DEF NoticeInv, Notified, Init

LEMMA NoticeNext == NoticeInv /\ [Next]_vars => NoticeInv'
<1> SUFFICES ASSUME NoticeInv, [Next]_vars PROVE NoticeInv'
  OBVIOUS
<1>1. CASE \E d \in Devices : DeviceStep(d)
  BY <1>1, DeviceStepKeeps
<1>2. CASE CheckoutStep
  BY <1>2, CheckoutStepKeeps
<1>3. CASE DeskStep
  BY <1>3, DeskStepKeeps
<1>4. CASE UNCHANGED vars
  BY <1>4 DEF vars, device, NoticeInv, DeviceInv, Shapes, Owned, Filed, Fresh, CheckoutShape,
     CheckoutKnows, DeskShape, DeskKnows, Notified, Quiet
<1> QED
  BY <1>1, <1>2, <1>3, <1>4 DEF Next, DeviceStep, CheckoutStep, DeskStep

\* The inductive invariant holds: tokens and queued phones were logged in with
\* on their device, the static lags only on the way to a page that reads it,
\* and what a page has read belongs to whom it will be sent about.
THEOREM NoticeInvHolds == Spec => []NoticeInv
<1> QED
  BY NoticeInit, NoticeNext, PTL DEF Spec

\* The shapes, and no token under a phone the device was not logged in with,
\* nor under the empty one (saveToken, main.dart:98).
THEOREM NoticesTypeCorrect == Spec => []TypeOK
<1>1. NoticeInv => TypeOK
  <2> SUFFICES ASSUME NoticeInv PROVE TypeOK
    OBVIOUS
  <2>1. /\ used \subseteq Devices \X Phones
        /\ \A p \in DOMAIN tokens : <<tokens[p], p>> \in used
    BY DEF NoticeInv, DeviceInv, Shapes, Filed
  <2>2. Len(desk.reads) <= MaxReads /\ desk.mtoken \in Devices \cup {NoToken}
    BY DEF NoticeInv, DeskShape, Tokens
  <2>3. ASSUME NEW d \in Devices
        PROVE  /\ state[d] \in {"off", "starting", "running"} /\ asks[d] \in 0 .. MaxAsks
               /\ \A k \in DOMAIN outbox[d] : <<d, outbox[d][k]>> \in used
    <3>1. outbox[d] \in Seq(Phones) /\ state[d] \in {"off", "starting", "running"}
          /\ asks[d] \in 0 .. MaxAsks
      BY DEF NoticeInv, DeviceInv, Shapes
    <3>2. \A k \in 1 .. Len(outbox[d]) : <<d, outbox[d][k]>> \in used
      BY DEF NoticeInv, DeviceInv, Owned
    <3>3. DOMAIN outbox[d] = 1 .. Len(outbox[d])
      BY <3>1
    <3> QED
      BY <3>1, <3>2, <3>3
  <2> QED
    BY <2>1, <2>2, <2>3 DEF TypeOK
<1> QED
  BY <1>1, NoticeInvHolds, PTL

\* Who waits for adminToken reaches a device of each administrator who had one
\* filed (checkoutPageDelivery.dart:66).
THEOREM OrdersReachAdmins == Spec => []OrderReachesAdmins
<1>1. NoticeInv => OrderReachesAdmins
  BY DEF NoticeInv, Notified, OrderReachesAdmins
<1> QED
  BY <1>1, NoticeInvHolds, PTL

\* Who waits for getUserToken reaches a device of the order's customer
\* (orders_for_admin.dart:38).
THEOREM TotalsReachCustomers == Spec => []TotalReachesItsCustomer
<1>1. NoticeInv => TotalReachesItsCustomer
  BY DEF NoticeInv, Notified, TotalReachesItsCustomer
<1> QED
  BY <1>1, NoticeInvHolds, PTL

\* A late token is filed under the account of the page that is drawn.
THEOREM LateTokensFollowTheAccount == Spec => LateTokenIsTheAccounts
<1>1. ASSUME NoticeInv, [Next]_vars
      PROVE  [\A d \in Devices : Len(outbox'[d]) > Len(outbox[d]) =>
                 page[d] # shown[d] \/ Last(outbox'[d]) = prefs[d]]_vars
  <2> SUFFICES ASSUME NEW d \in Devices, Len(outbox'[d]) > Len(outbox[d]), page[d] = shown[d],
                      ~ UNCHANGED vars
               PROVE  Last(outbox'[d]) = prefs[d]
    OBVIOUS
  <2>1. outbox \in [Devices -> Seq(Phones)]
    BY <1>1 DEF NoticeInv, DeviceInv, Shapes
  <2>2. outbox[d] \in Seq(Phones) /\ outbox'[d] # outbox[d]
    BY <2>1
  <2>3. ASSUME NEW e \in Devices, Deliver(e)
        PROVE  FALSE
    <3>1. outbox'[d] = IF d = e THEN Tail(outbox[d]) ELSE outbox[d]
      BY <2>1, <2>3 DEF Deliver
    <3>2. outbox[d] # << >>
      BY <2>2, <2>3, <3>1 DEF Deliver
    <3> QED
      BY <2>2, <3>1, <3>2
  <2>4. PICK e \in Devices : TokenArrives(e)
    BY <1>1, <2>2, <2>3 DEF Next, Start, PrefsRead, Stop, TokenFails, NavTapped, LogIn, LogOut, Frame,
       OpenCheckout, AdminTokenRead, AdminTokenFails, Submit, LeaveCheckout, OpenTotal,
       UserTokenRead, ConfirmTotal, Dismiss, LeaveOrders, device
  <2>5. /\ e = d /\ asks[d] > 0 /\ userPhone[d] # NoPhone
        /\ outbox'[d] = Append(outbox[d], userPhone[d])
    BY <2>1, <2>2, <2>4 DEF TokenArrives
  <2>6. userPhone[d] = prefs[d]
    BY <1>1, <2>5 DEF NoticeInv, DeviceInv, Shapes, Fresh
  <2> QED
    BY <2>2, <2>5, <2>6 DEF Last
<1> QED
  BY <1>1, NoticeInvHolds, PTL DEF Spec, LateTokenIsTheAccounts

=============================================================================
