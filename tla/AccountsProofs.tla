---------------------------- MODULE AccountsProofs ----------------------------
(***************************************************************************)
(* Proofs about Accounts for every number of devices: although initName is *)
(* never awaited, a drawn page agrees with the preferences; the address on *)
(* a device belongs to its account; the account a device is logged in to   *)
(* exists, though between Firestore's answer and its use the form may      *)
(* change and writes may be sent; and when everything is sent, the device  *)
(* that named an account shows that name.                                  *)
(***************************************************************************)
EXTENDS Accounts, WellFoundedInduction, TLAPS

Fields == {"name", "phone", "adress"}

\* The shape of what a device keeps.  The value of a name may come from an
\* answer of Firestore and is left open.
Shapes ==
    /\ DOMAIN prefs = Devices /\ DOMAIN statics = Devices
    /\ \A d \in Devices : DOMAIN prefs[d] = Fields /\ DOMAIN statics[d] = Fields
    /\ DOMAIN page = Devices /\ DOMAIN shown = Devices

\* A question to Firestore is about a phone.
Questions ==
    /\ DOMAIN check = Devices
    /\ \A d \in Devices :
          check[d] # NoCheck => "phone" \in DOMAIN check[d] /\ check[d].phone # Nobody

\* Statics are behind the preferences only between a change of the account and
\* the frame that shows its page.
BehindOnTheWay(d) ==
    Behind(d) => \/ page[d] = "profile" /\ shown[d] \notin {"profile", "inner"}
                 \/ page[d] = "auth" /\ shown[d] = "profile"

\* The pages inside the profile are for those who are logged in.
InsideHasAccount(d) ==
    /\ page[d] \in {"profile", "inner"} => prefs[d].phone # Nobody
    /\ shown[d] \in {"profile", "inner"} => statics[d].phone # Nobody

\* A name comes with a phone.
NameHasPhone(d) ==
    /\ prefs[d].name # Nobody => prefs[d].phone # Nobody
    /\ statics[d].name # Nobody => statics[d].phone # Nobody

AdressOf(d) == prefs[d].adress \in {Nobody, prefs[d].phone}

Sound(d) == BehindOnTheWay(d) /\ InsideHasAccount(d) /\ NameHasPhone(d) /\ AdressOf(d)

SessionInv == Shapes /\ Questions /\ \A d \in Devices \ astray : Sound(d)

-----------------------------------------------------------------------------
\* Sound only reads these variables.
LEMMA SoundReads ==
    ASSUME NEW e \in Devices, Sound(e),
           prefs'[e] = prefs[e], statics'[e] = statics[e],
           page'[e] = page[e], shown'[e] = shown[e]
    PROVE  Sound(e)'
  BY DEF Sound, BehindOnTheWay, Behind, InsideHasAccount, NameHasPhone, AdressOf

\* A handler of one device keeps SessionInv if it keeps that device sound.
LEMMA OneDevice ==
    ASSUME NEW d \in Devices, SessionInv, Shapes', Questions',
           astray \subseteq astray',
           \A e \in Devices \ {d} :
               /\ prefs'[e] = prefs[e] /\ statics'[e] = statics[e]
               /\ page'[e] = page[e] /\ shown'[e] = shown[e],
           d \notin astray' => Sound(d)'
    PROVE  SessionInv'
  <1>1. ASSUME NEW e \in Devices \ astray'
        PROVE  Sound(e)'
    <2>1. CASE e = d
      BY <1>1, <2>1
    <2>2. CASE e # d
      <3>1. Sound(e)
        BY <1>1 DEF SessionInv
      <3>2. prefs'[e] = prefs[e] /\ statics'[e] = statics[e] /\ page'[e] = page[e] /\ shown'[e] = shown[e]
        BY <2>2, <1>1
      <3>3. QED
        BY <3>1, <3>2, <1>1, SoundReads
    <2>3. QED
      BY <2>1, <2>2
  <1>2. QED
    BY <1>1 DEF SessionInv

LEMMA InitSession == Init => SessionInv
  <1>1. SUFFICES ASSUME Init
                 PROVE  SessionInv
    OBVIOUS
  <1>2. Shapes
    BY <1>1 DEF Init, Shapes, NoAccount, Fields
  <1>3. Questions
    BY <1>1 DEF Init, Questions
  <1>4. ASSUME NEW d \in Devices
        PROVE  Sound(d)
    BY <1>1, <1>4 DEF Init, Sound, BehindOnTheWay, Behind, InsideHasAccount, NameHasPhone, AdressOf,
                      NoAccount
  <1>5. QED
    BY <1>2, <1>3, <1>4 DEF SessionInv

-----------------------------------------------------------------------------
\* What does not touch the session at all.
LEMMA SessionUntouched ==
    ASSUME SessionInv, Questions', UNCHANGED <<prefs, statics, page, shown, astray>>
    PROVE  SessionInv'
  <1>1. Shapes'
    BY DEF SessionInv, Shapes
  <1>2. ASSUME NEW e \in Devices \ astray'
        PROVE  Sound(e)'
    BY <1>2, SoundReads DEF SessionInv
  <1>3. QED
    BY <1>1, <1>2 DEF SessionInv

LEMMA QuestionAsked ==
    ASSUME NEW d \in Devices, SessionInv, NEW k, AskAbout(d, k)
    PROVE  SessionInv'
  <1>1. Questions'
    BY DEF AskAbout, SessionInv, Questions
  <1>2. QED
    BY <1>1, SessionUntouched DEF AskAbout

LEMMA QuestionEnds ==
    ASSUME NEW d \in Devices, SessionInv, check' = [check EXCEPT ![d] = NoCheck]
    PROVE  Questions'
  BY DEF SessionInv, Questions

LEMMA QuestionAnswered ==
    ASSUME NEW d \in Devices, SessionInv, Reply(d)
    PROVE  SessionInv'
  <1>1. Questions'
    <2>1. PICK c : check' = [check EXCEPT ![d] = c]
                   /\ (c = [kind |-> check[d].kind, phone |-> check[d].phone, live |-> check[d].live,
                            form |-> check[d].form, reply |-> "found",
                            doc |-> View(d)[check[d].phone]]
                       \/ c = [check[d] EXCEPT !.reply = "free"])
      BY DEF Reply
    <2>2. "phone" \in DOMAIN check[d] /\ check[d].phone # Nobody
      BY DEF SessionInv, Questions, Reply
    <2>3. "phone" \in DOMAIN c /\ c.phone # Nobody
      BY <2>1, <2>2
    <2>4. QED
      BY <2>1, <2>3 DEF SessionInv, Questions
  <1>2. QED
    BY <1>1, SessionUntouched DEF Reply

-----------------------------------------------------------------------------
\* The page that is shown next reads the preferences; a page that does not is
\* only ever shown when there is nothing new to read.
LEMMA FrameKeeps ==
    ASSUME NEW d \in Devices, SessionInv, Frame(d)
    PROVE  SessionInv'
  <1>1. /\ page[d] # shown[d] /\ shown' = [shown EXCEPT ![d] = page[d]]
        /\ UNCHANGED <<prefs, page, astray>>
    BY DEF Frame
  <1>2. \/ page[d] \in {"reg", "auth", "profile", "elsewhere"} /\ statics' = [statics EXCEPT ![d] = prefs[d]]
        \/ page[d] \in {"inner", "elsewhere"} /\ statics' = statics
    BY DEF Frame, InitNameAtFrame
  <1>3. Shapes'
    BY <1>1, <1>2 DEF SessionInv, Shapes
  <1>4. Questions'
    BY DEF Frame, SessionInv, Questions
  <1>5. ASSUME d \notin astray'
        PROVE  Sound(d)'
    <2>1. Sound(d)
      BY <1>1, <1>5 DEF SessionInv
    <2>2. prefs'[d] = prefs[d] /\ page'[d] = page[d] /\ shown'[d] = page[d] /\ statics'[d] = prefs[d]
      BY <1>1, <1>2, <2>1 DEF Sound, BehindOnTheWay, Behind, SessionInv, Shapes
    <2>3. QED
      BY <2>1, <2>2 DEF Sound, BehindOnTheWay, Behind, InsideHasAccount, NameHasPhone, AdressOf
  <1>6. \A e \in Devices \ {d} :
            /\ prefs'[e] = prefs[e] /\ statics'[e] = statics[e]
            /\ page'[e] = page[e] /\ shown'[e] = shown[e]
    BY <1>1, <1>2 DEF SessionInv, Shapes
  <1>7. QED
    BY <1>1, <1>3, <1>4, <1>5, <1>6, OneDevice

\* A page may be asked for if, with an account, one may be inside the profile.
LEMMA TurnKeeps ==
    ASSUME NEW d \in Devices, SessionInv, NEW p, Turn(d, p),
           Sound(d) /\ ~ Behind(d) /\ p \in {"profile", "inner"} => prefs[d].phone # Nobody
    PROVE  SessionInv'
  <1>1. /\ page' = [page EXCEPT ![d] = p] /\ UNCHANGED <<prefs, statics, shown, check>>
        /\ astray' = IF Behind(d) THEN astray \cup {d} ELSE astray
    BY DEF Turn, Go, Stray
  <1>2. Shapes' /\ Questions'
    BY <1>1 DEF SessionInv, Shapes, Questions
  <1>3. ASSUME d \notin astray'
        PROVE  Sound(d)'
    <2>1. Sound(d) /\ ~ Behind(d)
      BY <1>1, <1>3 DEF SessionInv
    <2>2. page'[d] = p
      BY <1>1 DEF SessionInv, Shapes
    <2>3. QED
      BY <1>1, <2>1, <2>2 DEF Sound, BehindOnTheWay, Behind, InsideHasAccount, NameHasPhone, AdressOf
  <1>4. \A e \in Devices \ {d} :
            /\ prefs'[e] = prefs[e] /\ statics'[e] = statics[e]
            /\ page'[e] = page[e] /\ shown'[e] = shown[e]
    BY <1>1 DEF SessionInv, Shapes
  <1>5. QED
    BY <1>1, <1>2, <1>3, <1>4, OneDevice

LEMMA TapsKeep ==
    ASSUME NEW d \in Devices, SessionInv,
           \/ NavTapped(d) \/ ProfileTapped(d)
           \/ \E p \in {"auth", "reg"} : LinkTapped(d, p)
           \/ InnerTapped(d) \/ BackTapped(d)
    PROVE  SessionInv'
  <1>1. CASE NavTapped(d)
    BY <1>1, TurnKeeps DEF NavTapped
  <1>2. CASE ProfileTapped(d)
    <2>1. CASE statics[d].name = Nobody
      BY <1>2, <2>1, TurnKeeps DEF ProfileTapped
    <2>2. CASE statics[d].name # Nobody
      <3>1. Turn(d, "profile")
        BY <1>2, <2>2 DEF ProfileTapped
      <3>2. Sound(d) /\ ~ Behind(d) => prefs[d].phone # Nobody
        BY <2>2 DEF Sound, NameHasPhone, Behind
      <3>3. QED
        BY <3>1, <3>2, TurnKeeps
    <2>3. QED
      BY <2>1, <2>2
  <1>3. CASE \E p \in {"auth", "reg"} : LinkTapped(d, p)
    BY <1>3, TurnKeeps DEF LinkTapped
  <1>4. Sound(d) /\ ~ Behind(d) /\ shown[d] \in {"profile", "inner"} => prefs[d].phone # Nobody
    BY DEF Sound, InsideHasAccount, Behind
  <1>5. CASE InnerTapped(d)
    BY <1>4, <1>5, TurnKeeps DEF InnerTapped
  <1>6. CASE BackTapped(d)
    BY <1>4, <1>6, TurnKeeps DEF BackTapped
  <1>7. QED
    BY <1>1, <1>2, <1>3, <1>5, <1>6

-----------------------------------------------------------------------------
\* Registration and login enter an account on a device that had none, and the
\* profile they ask for is not yet shown.
LEMMA EnterKeeps ==
    ASSUME NEW d \in Devices, SessionInv, Questions', NEW name, NEW phone, Enter(d, name, phone),
           UNCHANGED <<statics, shown>>, astray \subseteq astray',
           d \notin astray' => prefs[d].phone = Nobody /\ ~ Behind(d) /\ phone # Nobody
    PROVE  SessionInv'
  <1>1. prefs' = [prefs EXCEPT ![d].name = name, ![d].phone = phone] /\ page' = [page EXCEPT ![d] = "profile"]
    BY DEF Enter, Go
  <1>2. Shapes'
    BY <1>1 DEF SessionInv, Shapes
  <1>3. prefs'[d].phone = phone /\ prefs'[d].adress = prefs[d].adress /\ page'[d] = "profile"
    BY <1>1 DEF SessionInv, Shapes, Fields
  <1>4. ASSUME d \notin astray'
        PROVE  Sound(d)'
    <2>1. Sound(d) /\ statics[d].phone = Nobody
      BY <1>4 DEF SessionInv, Behind
    <2>2. shown[d] \notin {"profile", "inner"} /\ prefs[d].adress = Nobody /\ statics[d].name = Nobody
      BY <1>4, <2>1 DEF Sound, InsideHasAccount, AdressOf, NameHasPhone
    <2>3. QED
      BY <1>3, <1>4, <2>1, <2>2
         DEF Sound, BehindOnTheWay, Behind, InsideHasAccount, NameHasPhone, AdressOf
  <1>5. \A e \in Devices \ {d} :
            /\ prefs'[e] = prefs[e] /\ statics'[e] = statics[e]
            /\ page'[e] = page[e] /\ shown'[e] = shown[e]
    BY <1>1 DEF SessionInv, Shapes
  <1>6. QED
    BY <1>2, <1>4, <1>5, OneDevice

LEMMA RegisterKeeps ==
    ASSUME NEW d \in Devices, SessionInv, Register(d)
    PROVE  SessionInv'
  <1>1. Questions'
    BY QuestionEnds DEF Register, Answered
  <1>2. /\ Enter(d, FormNow(d).word, FormNow(d).phone) /\ FormNow(d).phone # Nobody
        /\ UNCHANGED <<statics, shown>>
        /\ Stray(d, prefs[d].phone # Nobody \/ Behind(d))
    BY DEF Register
  <1>3. astray \subseteq astray' /\ (d \notin astray' => prefs[d].phone = Nobody /\ ~ Behind(d))
    BY <1>2 DEF Stray
  <1>4. QED
    BY <1>1, <1>2, <1>3, EnterKeeps

LEMMA LogInKeeps ==
    ASSUME NEW d \in Devices, SessionInv, LogIn(d)
    PROVE  SessionInv'
  <1>1. Questions'
    BY QuestionEnds DEF LogIn, Answered
  <1>2. /\ Enter(d, check[d].doc.name, FormNow(d).phone)
        /\ UNCHANGED <<statics, shown>>
        /\ Stray(d, ~ check[d].live \/ FormNow(d).phone # check[d].phone
                    \/ prefs[d].phone # Nobody \/ Behind(d))
    BY DEF LogIn
  <1>3. check[d].phone # Nobody
    BY DEF LogIn, Answered, SessionInv, Questions
  <1>4. /\ astray \subseteq astray'
        /\ d \notin astray' => prefs[d].phone = Nobody /\ ~ Behind(d) /\ FormNow(d).phone # Nobody
    BY <1>2, <1>3 DEF Stray
  <1>5. QED
    BY <1>1, <1>2, <1>4, EnterKeeps

-----------------------------------------------------------------------------
LEMMA LogOutKeeps ==
    ASSUME NEW d \in Devices, SessionInv, LogOut(d)
    PROVE  SessionInv'
  <1>1. /\ shown[d] = "profile" /\ prefs' = [prefs EXCEPT ![d] = NoAccount]
        /\ page' = [page EXCEPT ![d] = "auth"] /\ UNCHANGED <<statics, shown, check, astray>>
    BY DEF LogOut, Go
  <1>2. Shapes' /\ Questions'
    BY <1>1 DEF SessionInv, Shapes, Questions, NoAccount, Fields
  <1>3. ASSUME d \notin astray'
        PROVE  Sound(d)'
    <2>1. Sound(d)
      BY <1>1, <1>3 DEF SessionInv
    <2>2. prefs'[d] = NoAccount /\ page'[d] = "auth"
      BY <1>1 DEF SessionInv, Shapes
    <2>3. QED
      BY <1>1, <2>1, <2>2
         DEF Sound, BehindOnTheWay, Behind, InsideHasAccount, NameHasPhone, AdressOf, NoAccount
  <1>4. \A e \in Devices \ {d} :
            /\ prefs'[e] = prefs[e] /\ statics'[e] = statics[e]
            /\ page'[e] = page[e] /\ shown'[e] = shown[e]
    BY <1>1 DEF SessionInv, Shapes
  <1>5. QED
    BY <1>1, <1>2, <1>3, <1>4, OneDevice

\* On a page inside the profile the statics are not behind.
LEMMA InnerUpToDate ==
    ASSUME NEW d \in Devices, Sound(d), shown[d] = "inner"
    PROVE  statics[d] = prefs[d] /\ statics[d].phone # Nobody
  BY DEF Sound, BehindOnTheWay, Behind, InsideHasAccount

LEMMA ChangeNameKeeps ==
    ASSUME NEW d \in Devices, SessionInv, NEW w, ChangeName(d, w)
    PROVE  SessionInv'
  <1>1. /\ shown[d] = "inner"
        /\ prefs' = [prefs EXCEPT ![d].name = w] /\ statics' = [statics EXCEPT ![d].name = w]
        /\ UNCHANGED <<page, shown, check, astray>>
    BY DEF ChangeName
  <1>2. Shapes' /\ Questions'
    BY <1>1 DEF SessionInv, Shapes, Questions
  <1>3. ASSUME d \notin astray'
        PROVE  Sound(d)'
    <2>1. Sound(d)
      BY <1>1, <1>3 DEF SessionInv
    <2>2. statics[d] = prefs[d] /\ statics[d].phone # Nobody
      BY <1>1, <2>1, InnerUpToDate
    <2>3. prefs'[d] = [prefs[d] EXCEPT !.name = w] /\ statics'[d] = [prefs[d] EXCEPT !.name = w]
      BY <1>1, <2>2 DEF SessionInv, Shapes
    <2>4. prefs'[d].phone = prefs[d].phone /\ prefs'[d].adress = prefs[d].adress /\ statics'[d] = prefs'[d]
      BY <2>3 DEF SessionInv, Shapes, Fields
    <2>5. QED
      BY <1>1, <2>1, <2>2, <2>4
         DEF Sound, BehindOnTheWay, Behind, InsideHasAccount, NameHasPhone, AdressOf
  <1>4. \A e \in Devices \ {d} :
            /\ prefs'[e] = prefs[e] /\ statics'[e] = statics[e]
            /\ page'[e] = page[e] /\ shown'[e] = shown[e]
    BY <1>1 DEF SessionInv, Shapes
  <1>5. QED
    BY <1>1, <1>2, <1>3, <1>4, OneDevice

LEMMA ChangeAdressKeeps ==
    ASSUME NEW d \in Devices, SessionInv, ChangeAdress(d)
    PROVE  SessionInv'
  <1>1. /\ shown[d] = "inner"
        /\ prefs' = [prefs EXCEPT ![d].adress = statics[d].phone]
        /\ statics' = [statics EXCEPT ![d].adress = statics[d].phone]
        /\ UNCHANGED <<page, shown, check, astray>>
    BY DEF ChangeAdress
  <1>2. Shapes' /\ Questions'
    BY <1>1 DEF SessionInv, Shapes, Questions
  <1>3. ASSUME d \notin astray'
        PROVE  Sound(d)'
    <2>1. Sound(d)
      BY <1>1, <1>3 DEF SessionInv
    <2>2. statics[d] = prefs[d] /\ statics[d].phone # Nobody
      BY <1>1, <2>1, InnerUpToDate
    <2>3. /\ prefs'[d] = [prefs[d] EXCEPT !.adress = prefs[d].phone]
          /\ statics'[d] = [prefs[d] EXCEPT !.adress = prefs[d].phone]
      BY <1>1, <2>2 DEF SessionInv, Shapes
    <2>4. prefs'[d].phone = prefs[d].phone /\ prefs'[d].adress = prefs[d].phone /\ statics'[d] = prefs'[d]
      BY <2>3 DEF SessionInv, Shapes, Fields
    <2>5. QED
      BY <1>1, <2>1, <2>2, <2>4
         DEF Sound, BehindOnTheWay, Behind, InsideHasAccount, NameHasPhone, AdressOf
  <1>4. \A e \in Devices \ {d} :
            /\ prefs'[e] = prefs[e] /\ statics'[e] = statics[e]
            /\ page'[e] = page[e] /\ shown'[e] = shown[e]
    BY <1>1 DEF SessionInv, Shapes
  <1>5. QED
    BY <1>1, <1>2, <1>3, <1>4, OneDevice

-----------------------------------------------------------------------------
\* What leaves the session alone: typing, questions and their answers, and the
\* writes to the server.
LEMMA BusinessKeeps ==
    ASSUME NEW d \in Devices, SessionInv,
           \/ \E f \in Form : Type(d, f)
           \/ Ask(d) \/ AskReset(d) \/ Reply(d) \/ Fail(d) \/ Refuse(d)
           \/ \E w \in Words : ChangePass(d, w)
           \/ \E w \in Words : ResetPass(d, w)
           \/ Deliver(d)
    PROVE  SessionInv'
  <1>0. UNCHANGED check => Questions'
    BY DEF SessionInv, Questions
  <1>1. CASE \E f \in Form : Type(d, f)
    BY <1>0, <1>1, SessionUntouched DEF Type
  <1>2. CASE Ask(d) \/ AskReset(d)
    BY <1>2, QuestionAsked DEF Ask, AskReset
  <1>3. CASE Reply(d)
    BY <1>3, QuestionAnswered
  <1>4. CASE Fail(d)
    BY <1>4, QuestionEnds, SessionUntouched DEF Fail
  <1>5. CASE Refuse(d)
    BY <1>5, QuestionEnds, SessionUntouched DEF Refuse, Answered
  <1>6. CASE \E w \in Words : ChangePass(d, w)
    BY <1>0, <1>6, SessionUntouched DEF ChangePass, deviceVars
  <1>7. CASE \E w \in Words : ResetPass(d, w)
    BY <1>7, QuestionEnds, SessionUntouched DEF ResetPass, Answered
  <1>8. CASE Deliver(d)
    BY <1>0, <1>8, SessionUntouched DEF Deliver, deviceVars
  <1>9. QED
    BY <1>1, <1>2, <1>3, <1>4, <1>5, <1>6, <1>7, <1>8

LEMMA NextSession == SessionInv /\ [Next]_vars => SessionInv'
  <1>1. SUFFICES ASSUME SessionInv, [Next]_vars
                 PROVE  SessionInv'
    OBVIOUS
  <1>2. CASE UNCHANGED vars
    BY <1>1, <1>2, SessionUntouched DEF vars, SessionInv, Questions
  <1>3. CASE Next
    <2>1. PICK d \in Devices :
             \/ Frame(d)
             \/ NavTapped(d) \/ ProfileTapped(d) \/ (\E p \in {"auth", "reg"} : LinkTapped(d, p))
             \/ InnerTapped(d) \/ BackTapped(d)
             \/ (\E f \in Form : Type(d, f))
             \/ Ask(d) \/ AskReset(d) \/ Reply(d) \/ Fail(d) \/ Refuse(d)
             \/ Register(d) \/ LogIn(d) \/ LogOut(d)
             \/ (\E w \in Words : ChangeName(d, w))
             \/ ChangeAdress(d)
             \/ (\E w \in Words : ChangePass(d, w)) \/ (\E w \in Words : ResetPass(d, w))
             \/ Deliver(d)
      BY <1>3 DEF Next
    <2>2. QED
      BY <1>1, <2>1, FrameKeeps, TapsKeep, RegisterKeeps, LogInKeeps, LogOutKeeps,
         ChangeNameKeeps, ChangeAdressKeeps, BusinessKeeps
  <1>4. QED
    BY <1>1, <1>2, <1>3

THEOREM SessionInvHolds == Spec => []SessionInv
  BY InitSession, NextSession, PTL DEF Spec

\* On any number of devices, a drawn page agrees with the preferences, although
\* none of the pages awaits initName.
THEOREM AlwaysStaticsFollow == Spec => []StaticsFollow
  <1>1. SessionInv => StaticsFollow
    BY DEF SessionInv, Sound, BehindOnTheWay, Behind, StaticsFollow
  <1>2. QED
    BY <1>1, SessionInvHolds, PTL

\* On any number of devices, the address that checkout fills in was entered
\* under the account the device is logged in to.
THEOREM AlwaysAdress == Spec => []AdressIsTheAccounts
  <1>1. SessionInv => AdressIsTheAccounts
    BY DEF SessionInv, Sound, AdressOf, AdressIsTheAccounts
  <1>2. QED
    BY <1>1, SessionInvHolds, PTL

-----------------------------------------------------------------------------
(***************************************************************************)
(* The accounts themselves.  A device sees the server's collection after   *)
(* the writes of its own queue, one by one; FoldLeft computes it by        *)
(* recursion over the sets of positions, and v is such a recursive         *)
(* function.  It exists for every length of the queue, by the least one    *)
(* for which it would not.                                                 *)
(***************************************************************************)
ViewOf(ds, ws) == FoldLeft(Apply, ds, ws)

Folds(v, ds, ws, n) ==
    v = [s \in SUBSET (1 .. n) |->
           IF s = {} THEN ds ELSE Apply(v[s \ {Max(s)}], ws[Max(s)])]

\* Every nonempty set of natural numbers has a least element.
LEMMA LeastElement ==
    ASSUME NEW S, S \subseteq Nat, S # {}
    PROVE  \E m \in S : \A n \in S : m <= n
<1> DEFINE Less == {ss \in Nat \X Nat : ss[1] < ss[2]}
<1>1. IsWellFoundedOn(Less, Nat)
  BY NatLessThanWellFounded DEF OpToRel
<1>2. PICK m \in S : \A n \in S : <<n, m>> \notin Less
  BY <1>1, WFMin
<1>3. \A n \in S : ~ (n < m)
  BY <1>2
<1> QED
  BY <1>3, SMT

\* The collections a view passes through, from the server's on.
Steps(step, ds, ws, n) ==
    /\ step[0] = ds
    /\ \A k \in 1 .. n : step[k] = Apply(step[k - 1], ws[k])

LEMMA MaxOf ==
    ASSUME NEW n \in Nat, NEW s \in SUBSET (1 .. n), n \in s
    PROVE  Max(s) = n
<1>1. \A y \in s : n >= y
  OBVIOUS
<1>2. \A x \in s : (\A y \in s : x >= y) => x = n
  <2> SUFFICES ASSUME NEW x \in s, \A y \in s : x >= y
               PROVE  x = n
    OBVIOUS
  <2>1. x >= n /\ n >= x /\ x \in Nat
    BY <1>1
  <2> QED
    BY <2>1
<1>3. Max(s) \in s /\ \A y \in s : Max(s) >= y
  BY <1>1, Zenon DEF Max
<1> QED
  BY <1>2, <1>3, Zenon

LEMMA FoldExists ==
    ASSUME NEW ds, NEW ws, NEW n \in Nat
    PROVE  \E v : Folds(v, ds, ws, n)
<1> DEFINE B == {k \in Nat : ~ \E v : Folds(v, ds, ws, k)}
<1>1. SUFFICES ASSUME B # {}
               PROVE  FALSE
  OBVIOUS
<1>2. PICK m \in B : \A k \in B : m <= k
  BY <1>1, LeastElement
<1>3. CASE m = 0
  <2> DEFINE v == [s \in SUBSET (1 .. 0) |-> ds]
  <2>1. \A s \in SUBSET (1 .. 0) : s = {}
    OBVIOUS
  <2>2. Folds(v, ds, ws, 0)
    BY <2>1 DEF Folds
  <2> QED
    BY <1>2, <1>3, <2>2
<1>4. CASE m # 0
  <2>1. m - 1 \in Nat /\ m - 1 \notin B /\ m \in Nat
    BY <1>2, <1>4
  <2>2. PICK u : Folds(u, ds, ws, m - 1)
    BY <2>1
  <2> DEFINE v == [s \in SUBSET (1 .. m) |->
                     IF m \in s THEN Apply(u[s \ {m}], ws[m]) ELSE u[s]]
  <2>3. \A s \in SUBSET (1 .. m) :
           v[s] = IF s = {} THEN ds ELSE Apply(v[s \ {Max(s)}], ws[Max(s)])
    <3> SUFFICES ASSUME NEW s \in SUBSET (1 .. m)
                 PROVE  v[s] = IF s = {} THEN ds ELSE Apply(v[s \ {Max(s)}], ws[Max(s)])
      OBVIOUS
    <3>1. CASE m \in s
      <4>1. Max(s) = m
        BY <2>1, <3>1, MaxOf
      <4>2. s # {} /\ s \ {m} \in SUBSET (1 .. m) /\ m \notin s \ {m}
        BY <3>1
      <4>3. v[s] = Apply(u[s \ {m}], ws[m])
        BY <3>1
      <4>4. v[s \ {m}] = u[s \ {m}]
        BY <4>2
      <4> HIDE DEF v
      <4> QED
        BY <4>1, <4>2, <4>3, <4>4
    <3>2. CASE m \notin s
      <4>1. s \in SUBSET (1 .. (m - 1))
        BY <2>1, <3>2
      <4>2. v[s] = u[s]
        BY <3>2
      <4>3. u[s] = IF s = {} THEN ds ELSE Apply(u[s \ {Max(s)}], ws[Max(s)])
        BY <2>2, <4>1 DEF Folds
      <4>4. s \ {Max(s)} \in SUBSET (1 .. m) /\ m \notin s \ {Max(s)}
        BY <3>2
      <4>5. v[s \ {Max(s)}] = u[s \ {Max(s)}]
        BY <4>4
      <4> HIDE DEF v
      <4> QED
        BY <4>2, <4>3, <4>5
    <3> QED
      BY <3>1, <3>2
  <2>4. v = [s \in SUBSET (1 .. m) |-> v[s]]
    OBVIOUS
  <2> HIDE DEF v
  <2>5. Folds(v, ds, ws, m)
    BY <2>3, <2>4 DEF Folds
  <2> QED
    BY <1>2, <2>5
<1> QED
  BY <1>3, <1>4

LEMMA ViewSteps ==
    ASSUME NEW ds, NEW ws, NEW n \in Nat, DOMAIN ws = 1 .. n
    PROVE  \E step : Steps(step, ds, ws, n) /\ ViewOf(ds, ws) = step[n]
<1> DEFINE v    == CHOOSE u : Folds(u, ds, ws, n)
           step == [k \in 0 .. n |-> v[1 .. k]]
<1>1. Folds(v, ds, ws, n)
  BY FoldExists
<1>2. ViewOf(ds, ws) = v[1 .. n]
  BY DEF ViewOf, FoldLeft, MapThenFoldSet, Folds
<1> HIDE DEF v
<1>3. v[{}] = ds
  BY <1>1 DEF Folds
<1>4. ASSUME NEW k \in 1 .. n
      PROVE  v[1 .. k] = Apply(v[1 .. (k - 1)], ws[k])
  <2>1. 1 .. k \in SUBSET (1 .. n) /\ 1 .. k # {} /\ k \in Nat /\ k \in 1 .. k
    OBVIOUS
  <2>2. Max(1 .. k) = k
    BY <2>1, MaxOf
  <2>3. (1 .. k) \ {k} = 1 .. (k - 1)
    OBVIOUS
  <2>4. v[1 .. k] = Apply(v[(1 .. k) \ {Max(1 .. k)}], ws[Max(1 .. k)])
    BY <1>1, <2>1 DEF Folds
  <2> QED
    BY <2>2, <2>3, <2>4
<1>5. step[0] = ds
  <2>1. 1 .. 0 = {} /\ 0 \in 0 .. n
    OBVIOUS
  <2> QED
    BY <1>3, <2>1
<1>6. \A k \in 1 .. n : step[k] = Apply(step[k - 1], ws[k])
  <2> SUFFICES ASSUME NEW k \in 1 .. n
               PROVE  step[k] = Apply(step[k - 1], ws[k])
    OBVIOUS
  <2>1. k \in 0 .. n /\ k - 1 \in 0 .. n
    OBVIOUS
  <2>2. step[k] = v[1 .. k] /\ step[k - 1] = v[1 .. (k - 1)]
    BY <2>1
  <2> HIDE DEF step
  <2> QED
    BY <1>4, <2>2
<1>7. ViewOf(ds, ws) = step[n]
  BY <1>2
<1> HIDE DEF step
<1>8. Steps(step, ds, ws, n)
  BY <1>5, <1>6 DEF Steps
<1> QED
  BY <1>7, <1>8

-----------------------------------------------------------------------------
Collections == UNION {[P -> User] : P \in SUBSET Phones}

Writes == {SetUser(p, w) : p \in Phones, w \in Words}
              \cup {UpdateName(p, w) : p \in Phones, w \in Words}
              \cup {UpdatePass(p, w) : p \in Phones, w \in Words}

LEMMA CollectionFacts ==
    ASSUME NEW ds
    PROVE  ds \in Collections <=>
              /\ ds = [p \in DOMAIN ds |-> ds[p]]
              /\ DOMAIN ds \subseteq Phones
              /\ \A p \in DOMAIN ds : ds[p] \in User
<1>1. ASSUME ds \in Collections
      PROVE  /\ ds = [p \in DOMAIN ds |-> ds[p]]
             /\ DOMAIN ds \subseteq Phones
             /\ \A p \in DOMAIN ds : ds[p] \in User
  <2>1. PICK P \in SUBSET Phones : ds \in [P -> User]
    BY <1>1 DEF Collections
  <2> QED
    BY <2>1
<1>2. ASSUME ds = [p \in DOMAIN ds |-> ds[p]], DOMAIN ds \subseteq Phones,
             \A p \in DOMAIN ds : ds[p] \in User
      PROVE  ds \in Collections
  <2>1. ds \in [DOMAIN ds -> User]
    BY <1>2
  <2> QED
    BY <1>2, <2>1 DEF Collections
<1> QED
  BY <1>1, <1>2

LEMMA WriteFacts ==
    ASSUME NEW w \in Writes
    PROVE  /\ w.phone \in Phones
           /\ w.op \in {"setUser", "updateName", "updatePass"}
           /\ w.op = "setUser" => w.name \in Words /\ w.pass \in Words
           /\ w.op = "updateName" => w.name \in Words
           /\ w.op = "updatePass" => w.pass \in Words
  BY DEF Writes, SetUser, UpdateName, UpdatePass

\* The account a write may create.
Creates(w) == IF w.op = "setUser" THEN {w.phone} ELSE {}

\* No write removes an account.
LEMMA ApplyFacts ==
    ASSUME NEW ds \in Collections, NEW w \in Writes
    PROVE  /\ Apply(ds, w) \in Collections
           /\ DOMAIN Apply(ds, w) = DOMAIN ds \cup Creates(w)
<1>1. DOMAIN ds \subseteq Phones /\ \A p \in DOMAIN ds : ds[p] \in User
  BY CollectionFacts
<1>2. /\ w.phone \in Phones
      /\ w.op \in {"setUser", "updateName", "updatePass"}
      /\ w.op = "setUser" => w.name \in Words /\ w.pass \in Words
      /\ w.op = "updateName" => w.name \in Words
      /\ w.op = "updatePass" => w.pass \in Words
  BY WriteFacts
<1>3. CASE w.op = "setUser"
  <2> DEFINE doc == [name |-> w.name, pass |-> w.pass]
             es  == [p \in DOMAIN ds \cup {w.phone} |-> IF p = w.phone THEN doc ELSE ds[p]]
  <2>1. es = Apply(ds, w)
    BY <1>3 DEF Apply, SetDoc
  <2>2. doc \in User
    BY <1>2, <1>3 DEF User
  <2> HIDE DEF doc
  <2>3. /\ \A p \in DOMAIN es : es[p] \in User
        /\ DOMAIN es = DOMAIN ds \cup {w.phone} /\ DOMAIN es \subseteq Phones
        /\ es = [p \in DOMAIN es |-> es[p]]
    BY <1>1, <1>2, <2>2
  <2> HIDE DEF es
  <2> QED
    BY <1>3, <2>1, <2>3, CollectionFacts DEF Creates
<1>4. CASE w.op = "updateName" /\ w.phone \in DOMAIN ds
  <2> DEFINE es == [ds EXCEPT ![w.phone].name = w.name]
  <2>1. es = Apply(ds, w)
    BY <1>4 DEF Apply
  <2>2. \A u \in User : [u EXCEPT !.name = w.name] \in User
    BY <1>2, <1>4 DEF User
  <2>3. /\ \A p \in DOMAIN ds :
              es[p] = IF p = w.phone THEN [ds[p] EXCEPT !.name = w.name] ELSE ds[p]
        /\ DOMAIN es = DOMAIN ds /\ es = [p \in DOMAIN es |-> es[p]]
    OBVIOUS
  <2> HIDE DEF es
  <2>4. \A p \in DOMAIN es : es[p] \in User
    BY <1>1, <2>2, <2>3
  <2> QED
    BY <1>1, <1>4, <2>1, <2>3, <2>4, CollectionFacts DEF Creates
<1>5. CASE w.op = "updatePass" /\ w.phone \in DOMAIN ds
  <2> DEFINE es == [ds EXCEPT ![w.phone].pass = w.pass]
  <2>1. es = Apply(ds, w)
    BY <1>5 DEF Apply
  <2>2. \A u \in User : [u EXCEPT !.pass = w.pass] \in User
    BY <1>2, <1>5 DEF User
  <2>3. /\ \A p \in DOMAIN ds :
              es[p] = IF p = w.phone THEN [ds[p] EXCEPT !.pass = w.pass] ELSE ds[p]
        /\ DOMAIN es = DOMAIN ds /\ es = [p \in DOMAIN es |-> es[p]]
    OBVIOUS
  <2> HIDE DEF es
  <2>4. \A p \in DOMAIN es : es[p] \in User
    BY <1>1, <2>2, <2>3
  <2> QED
    BY <1>1, <1>5, <2>1, <2>3, <2>4, CollectionFacts DEF Creates
<1>6. CASE w.op # "setUser" /\ w.phone \notin DOMAIN ds
  <2>1. Apply(ds, w) = ds
    BY <1>6 DEF Apply
  <2> QED
    BY <1>6, <2>1 DEF Creates
<1> QED
  BY <1>2, <1>3, <1>4, <1>5, <1>6

\* The accounts a queue creates.
Created(ws) == {p \in Phones : \E k \in DOMAIN ws : p \in Creates(ws[k])}

LEMMA ViewFacts ==
    ASSUME NEW ds \in Collections, NEW ws \in Seq(Writes)
    PROVE  /\ ViewOf(ds, ws) \in Collections
           /\ DOMAIN ViewOf(ds, ws) = DOMAIN ds \cup Created(ws)
<1> DEFINE n == Len(ws)
           Upto(k) == {p \in Phones : \E j \in 1 .. k : p \in Creates(ws[j])}
<1>1. n \in Nat /\ DOMAIN ws = 1 .. n /\ \A k \in 1 .. n : ws[k] \in Writes
  OBVIOUS
<1> HIDE DEF n
<1>2. PICK step : Steps(step, ds, ws, n) /\ ViewOf(ds, ws) = step[n]
  BY <1>1, ViewSteps
<1> DEFINE Fits(k) == step[k] \in Collections /\ DOMAIN step[k] = DOMAIN ds \cup Upto(k)
           B == {k \in 0 .. n : ~ Fits(k)}
<1>3. Fits(0)
  <2>1. step[0] = ds
    BY <1>2 DEF Steps
  <2>2. Upto(0) = {}
    OBVIOUS
  <2> QED
    BY <2>1, <2>2
<1>4. ASSUME NEW k \in 1 .. n, Fits(k - 1)
      PROVE  Fits(k)
  <2>1. step[k] = Apply(step[k - 1], ws[k])
    BY <1>2 DEF Steps
  <2>2. ws[k] \in Writes
    BY <1>1
  <2>3. /\ step[k] \in Collections
        /\ DOMAIN step[k] = DOMAIN step[k - 1] \cup Creates(ws[k])
    BY <1>4, <2>1, <2>2, ApplyFacts
  <2>4. Upto(k) = Upto(k - 1) \cup Creates(ws[k])
    <3>1. Creates(ws[k]) \subseteq Phones
      BY <2>2, WriteFacts DEF Creates
    <3>2. k \in 1 .. k /\ \A j \in 1 .. k : j \in 1 .. (k - 1) \/ j = k
      BY <1>1
    <3>3. \A j \in 1 .. (k - 1) : j \in 1 .. k
      BY <1>1
    <3> QED
      BY <3>1, <3>2, <3>3
  <2> HIDE DEF Upto
  <2> QED
    BY <1>4, <2>3, <2>4
<1> HIDE DEF Fits
<1>5. B = {}
  <2> SUFFICES ASSUME B # {}
               PROVE  FALSE
    OBVIOUS
  <2>0. B \subseteq Nat
    BY <1>1
  <2>1. PICK m \in B : \A k \in B : m <= k
    BY <2>0, LeastElement
  <2>2. m # 0
    BY <1>3, <2>1
  <2>3. m \in 1 .. n /\ m - 1 \in 0 .. n /\ m - 1 \notin B
    BY <1>1, <2>1, <2>2
  <2>4. Fits(m)
    BY <1>4, <2>3
  <2> QED
    BY <2>1, <2>4
<1>6. Fits(n)
  <2>1. n \in 0 .. n
    BY <1>1
  <2> QED
    BY <1>5, <2>1
<1>7. Upto(n) = Created(ws)
  BY <1>1 DEF Created
<1> QED
  BY <1>2, <1>6, <1>7 DEF Fits

-----------------------------------------------------------------------------
(***************************************************************************)
(* An account is never removed, so that what a device knows to be          *)
(* registered stays registered, first in its queue and then on the server. *)
(***************************************************************************)
Known(d) == DOMAIN users \cup Created(outbox[d])

Asked == [kind : {"reg", "auth", "reset"}, phone : Phones, live : BOOLEAN,
          form : Form, reply : {"waiting", "free"}]
Found == [kind : {"reg", "auth", "reset"}, phone : Phones, live : BOOLEAN,
          form : Form, reply : {"found"}, doc : User]

ServerTyped ==
    /\ users \in Collections
    /\ DOMAIN author = DOMAIN users /\ \A p \in DOMAIN author : author[p] \in Devices

QueuesTyped == outbox \in [Devices -> Seq(Writes)]

AccountTyped ==
    /\ prefs \in [Devices -> Account] /\ statics \in [Devices -> Account]
    /\ astray \subseteq Devices

PagesTyped ==
    /\ page \in [Devices -> Pages] /\ shown \in [Devices -> Pages]
    /\ form \in [Devices -> Form]

ChecksTyped == check \in [Devices -> {NoCheck} \cup Asked \cup Found]

Types == ServerTyped /\ QueuesTyped /\ AccountTyped /\ PagesTyped /\ ChecksTyped

\* An account that was found can be logged in to, whatever happens until the
\* answer is looked at.
FoundIsKnown(d) ==
    check[d] # NoCheck /\ check[d].reply = "found" => check[d].phone \in Known(d)

EnteredIsKnown(d) ==
    d \notin astray /\ prefs[d].phone # Nobody => prefs[d].phone \in Known(d)

AccountInv == Types /\ \A d \in Devices : FoundIsKnown(d) /\ EnteredIsKnown(d)

KnownGrows == \A e \in Devices : Known(e) \subseteq Known(e)'

LEMMA InitAccounts == Init => AccountInv
<1> SUFFICES ASSUME Init
             PROVE  AccountInv
  OBVIOUS
<1>1. ServerTyped
  <2>1. DOMAIN users = {} /\ DOMAIN author = {} /\ users = [p \in DOMAIN users |-> users[p]]
    BY DEF Init
  <2> QED
    BY <2>1, CollectionFacts DEF ServerTyped
<1>2. QueuesTyped
  <2>1. << >> \in Seq(Writes)
    OBVIOUS
  <2> QED
    BY <2>1 DEF Init, QueuesTyped
<1>3. AccountTyped
  <2>1. NoAccount \in Account
    BY DEF NoAccount, Account, Words, Numbers
  <2> QED
    BY <2>1 DEF Init, AccountTyped
<1>4. PagesTyped
  <2>1. BlankForm \in Form /\ "elsewhere" \in Pages
    BY DEF BlankForm, Form, Words, Numbers, Pages
  <2> QED
    BY <2>1 DEF Init, PagesTyped
<1>5. ChecksTyped
  BY DEF Init, ChecksTyped
<1>6. ASSUME NEW d \in Devices
      PROVE  FoundIsKnown(d) /\ EnteredIsKnown(d)
  <2>1. check[d] = NoCheck /\ prefs[d].phone = Nobody
    BY DEF Init, NoAccount
  <2> QED
    BY <2>1 DEF FoundIsKnown, EnteredIsKnown
<1> QED
  BY <1>1, <1>2, <1>3, <1>4, <1>5, <1>6 DEF AccountInv, Types

\* A handler of one device has to answer for that device only.
LEMMA KnownStays ==
    ASSUME NEW d \in Devices, AccountInv, Types', KnownGrows, astray \subseteq astray',
           \A e \in Devices \ {d} : prefs'[e] = prefs[e] /\ check'[e] = check[e],
           FoundIsKnown(d)', EnteredIsKnown(d)'
    PROVE  AccountInv'
<1>1. ASSUME NEW e \in Devices
      PROVE  FoundIsKnown(e)' /\ EnteredIsKnown(e)'
  <2>1. CASE e = d
    BY <2>1
  <2>2. CASE e # d
    <3>1. prefs'[e] = prefs[e] /\ check'[e] = check[e] /\ Known(e) \subseteq Known(e)'
      BY <2>2 DEF KnownGrows
    <3>2. FoundIsKnown(e) /\ EnteredIsKnown(e)
      BY DEF AccountInv
    <3> QED
      BY <3>1, <3>2 DEF FoundIsKnown, EnteredIsKnown
  <2> QED
    BY <2>1, <2>2
<1> QED
  BY <1>1 DEF AccountInv

LEMMA StillFound ==
    ASSUME NEW d \in Devices, AccountInv, KnownGrows, UNCHANGED check
    PROVE  FoundIsKnown(d)'
  BY DEF AccountInv, KnownGrows, FoundIsKnown

LEMMA StillEntered ==
    ASSUME NEW d \in Devices, AccountInv, KnownGrows, astray \subseteq astray',
           prefs'[d].phone = prefs[d].phone
    PROVE  EnteredIsKnown(d)'
  BY DEF AccountInv, KnownGrows, EnteredIsKnown

\* Nothing new is written.
LEMMA NothingWritten ==
    ASSUME AccountInv, UNCHANGED <<users, author, outbox>>
    PROVE  KnownGrows /\ ServerTyped' /\ QueuesTyped'
  BY DEF KnownGrows, Known, Created, ServerTyped, QueuesTyped, AccountInv, Types

\* A write is put into the device's queue.
LEMMA Written ==
    ASSUME NEW d \in Devices, AccountInv, NEW w \in Writes, Enqueue(d, w),
           UNCHANGED <<users, author>>
    PROVE  /\ KnownGrows /\ ServerTyped' /\ QueuesTyped'
           /\ Creates(w) \subseteq Known(d)'
<1>1. outbox \in [Devices -> Seq(Writes)] /\ outbox' = [outbox EXCEPT ![d] = Append(@, w)]
  BY DEF AccountInv, Types, QueuesTyped, Enqueue
<1>2. /\ outbox'[d] = Append(outbox[d], w)
      /\ \A e \in Devices \ {d} : outbox'[e] = outbox[e]
  BY <1>1
<1>3. /\ Append(outbox[d], w) \in Seq(Writes)
      /\ DOMAIN outbox[d] \subseteq DOMAIN outbox'[d]
      /\ \A k \in DOMAIN outbox[d] : outbox'[d][k] = outbox[d][k]
      /\ Len(outbox[d]) + 1 \in DOMAIN outbox'[d] /\ outbox'[d][Len(outbox[d]) + 1] = w
  BY <1>1, <1>2
<1>4. QueuesTyped'
  BY <1>1, <1>3 DEF QueuesTyped
<1>5. Creates(w) \subseteq Phones
  BY WriteFacts DEF Creates
<1>6. Created(outbox[d]) \subseteq Created(outbox'[d]) /\ Creates(w) \subseteq Created(outbox'[d])
  BY <1>3, <1>5 DEF Created
<1>7. KnownGrows
  BY <1>2, <1>6 DEF KnownGrows, Known
<1>8. ServerTyped'
  BY DEF AccountInv, Types, ServerTyped
<1> QED
  BY <1>4, <1>6, <1>7, <1>8 DEF Known

\* The server takes a write: what it creates goes from the queue to the server.
LEMMA DeliverKeepsAccounts ==
    ASSUME NEW d \in Devices, AccountInv, Deliver(d)
    PROVE  AccountInv'
<1> DEFINE w == Head(outbox[d])
<1>1. /\ outbox \in [Devices -> Seq(Writes)] /\ outbox[d] # << >>
      /\ outbox' = [outbox EXCEPT ![d] = Tail(@)]
      /\ users' = Apply(users, w)
      /\ author' = IF w.op # "updatePass" /\ w.phone \in DOMAIN users'
                   THEN SetDoc(author, w.phone, d) ELSE author
      /\ UNCHANGED deviceVars
  BY DEF AccountInv, Types, QueuesTyped, Deliver
<1>2. /\ outbox'[d] = Tail(outbox[d]) /\ w \in Writes /\ outbox[d][1] = w
      /\ \A e \in Devices \ {d} : outbox'[e] = outbox[e]
      /\ Tail(outbox[d]) \in Seq(Writes)
  BY <1>1
<1>3. QueuesTyped'
  BY <1>1, <1>2 DEF QueuesTyped
<1> HIDE DEF w
<1>4. users \in Collections /\ DOMAIN author = DOMAIN users /\ \A p \in DOMAIN author : author[p] \in Devices
  BY DEF AccountInv, Types, ServerTyped
<1>5. users' \in Collections /\ DOMAIN users' = DOMAIN users \cup Creates(w)
  BY <1>1, <1>2, <1>4, ApplyFacts
<1>6. ServerTyped'
  <2>1. CASE w.op # "updatePass" /\ w.phone \in DOMAIN users'
    <3>1. /\ DOMAIN author' = DOMAIN author \cup {w.phone}
          /\ \A p \in DOMAIN author' : author'[p] \in Devices
      BY <1>1, <1>4, <2>1 DEF SetDoc
    <3>2. DOMAIN author' = DOMAIN users'
      BY <1>4, <1>5, <2>1, <3>1 DEF Creates
    <3> QED
      BY <1>5, <3>1, <3>2 DEF ServerTyped
  <2>2. CASE ~ (w.op # "updatePass" /\ w.phone \in DOMAIN users')
    <3>1. author' = author
      BY <1>1, <2>2, Zenon
    <3>2. DOMAIN users' = DOMAIN users
      BY <1>5, <2>2 DEF Creates
    <3> QED
      BY <1>4, <1>5, <3>1, <3>2 DEF ServerTyped
  <2> QED
    BY <2>1, <2>2
<1>7. Created(outbox[d]) \subseteq Creates(w) \cup Created(outbox'[d])
  <2> SUFFICES ASSUME NEW p \in Created(outbox[d]), p \notin Creates(w)
               PROVE  p \in Created(outbox'[d])
    OBVIOUS
  <2>1. PICK k \in DOMAIN outbox[d] : p \in Creates(outbox[d][k])
    BY DEF Created
  <2>2. k # 1
    BY <1>2, <2>1
  <2>3. k - 1 \in DOMAIN outbox'[d] /\ outbox'[d][k - 1] = outbox[d][k]
    BY <1>1, <1>2, <2>1, <2>2
  <2> QED
    BY <2>1, <2>3 DEF Created
<1>8. KnownGrows
  BY <1>2, <1>5, <1>7 DEF KnownGrows, Known
<1>9. Types'
  <2>1. AccountTyped' /\ PagesTyped' /\ ChecksTyped'
    BY <1>1 DEF AccountInv, Types, AccountTyped, PagesTyped, ChecksTyped, deviceVars
  <2> QED
    BY <1>3, <1>6, <2>1 DEF Types
<1>10. UNCHANGED <<check, prefs, astray>>
  BY <1>1 DEF deviceVars
<1>11. FoundIsKnown(d)' /\ EnteredIsKnown(d)'
  BY <1>8, <1>10, StillFound, StillEntered
<1> QED
  BY <1>8, <1>9, <1>10, <1>11, KnownStays

-----------------------------------------------------------------------------
LEMMA CheckCases ==
    ASSUME NEW d \in Devices, AccountInv
    PROVE  \/ check[d] = NoCheck
           \/ check[d] \in Asked
           \/ check[d] \in Found
  BY DEF AccountInv, Types, ChecksTyped

LEMMA FormTyped ==
    ASSUME NEW d \in Devices, AccountInv, check[d] # NoCheck
    PROVE  FormNow(d) \in Form
<1>1. form[d] \in Form
  BY DEF AccountInv, Types, PagesTyped
<1>2. check[d].form \in Form
  BY CheckCases DEF Asked, Found
<1> QED
  BY <1>1, <1>2, Zenon DEF FormNow

\* The question of a device changes, or ends.
LEMMA CheckChanges ==
    ASSUME NEW d \in Devices, AccountInv, NEW c \in {NoCheck} \cup Asked \cup Found,
           check' = [check EXCEPT ![d] = c]
    PROVE  /\ ChecksTyped' /\ check'[d] = c
           /\ \A e \in Devices \ {d} : check'[e] = check[e]
  BY DEF AccountInv, Types, ChecksTyped

\* Typing, questions and answers concern neither the account nor the server.
LEMMA QuestionsKeep ==
    ASSUME NEW d \in Devices, AccountInv, NEW c \in {NoCheck} \cup Asked \cup Found,
           check' = [check EXCEPT ![d] = c],
           UNCHANGED <<users, author, outbox, prefs, statics, astray>>, PagesTyped',
           c # NoCheck /\ c.reply = "found" => c.phone \in Known(d)
    PROVE  AccountInv'
<1>1. KnownGrows /\ ServerTyped' /\ QueuesTyped'
  BY NothingWritten
<1>2. /\ ChecksTyped' /\ check'[d] = c
      /\ \A e \in Devices \ {d} : check'[e] = check[e]
  BY CheckChanges
<1>3. Types'
  <2>1. AccountTyped'
    BY DEF AccountInv, Types, AccountTyped
  <2> QED
    BY <1>1, <1>2, <2>1 DEF Types
<1>4. FoundIsKnown(d)'
  BY <1>1, <1>2 DEF FoundIsKnown, KnownGrows
<1>5. EnteredIsKnown(d)'
  BY <1>1, StillEntered
<1> QED
  BY <1>1, <1>2, <1>3, <1>4, <1>5, KnownStays

LEMMA AnsweredAbout ==
    ASSUME NEW d \in Devices, AccountInv, NEW k, NEW r, Answered(d, k, r)
    PROVE  /\ check[d] # NoCheck /\ check' = [check EXCEPT ![d] = NoCheck]
           /\ check[d] \in Asked \cup Found
  BY CheckCases DEF Answered

LEMMA AskKeeps ==
    ASSUME NEW d \in Devices, AccountInv, NEW k \in {"reg", "auth", "reset"}, AskAbout(d, k)
    PROVE  AccountInv'
<1> DEFINE c == [kind |-> k, phone |-> form[d].phone, live |-> TRUE,
                 form |-> BlankForm, reply |-> "waiting"]
<1>1. /\ check' = [check EXCEPT ![d] = c] /\ form[d].phone # Nobody
      /\ UNCHANGED <<users, author, outbox, prefs, statics, page, shown, form, astray>>
  BY DEF AskAbout
<1>2. c \in Asked
  <2>1. form[d].phone \in Phones
    BY <1>1 DEF AccountInv, Types, PagesTyped, Form, Numbers
  <2>2. BlankForm \in Form
    BY DEF BlankForm, Form, Words, Numbers
  <2> QED
    BY <2>1, <2>2 DEF Asked
<1>3. c.reply # "found"
  OBVIOUS
<1>4. PagesTyped'
  BY <1>1 DEF AccountInv, Types, PagesTyped
<1> HIDE DEF c
<1> QED
  BY <1>1, <1>2, <1>3, <1>4, QuestionsKeep

\* Firestore answers with what the device sees, its own writes included.
LEMMA ReplyKeeps ==
    ASSUME NEW d \in Devices, AccountInv, Reply(d)
    PROVE  AccountInv'
<1> DEFINE seen == View(d)
           p == check[d].phone
           yes == [kind |-> check[d].kind, phone |-> p, live |-> check[d].live,
                   form |-> check[d].form, reply |-> "found", doc |-> seen[p]]
           no == [check[d] EXCEPT !.reply = "free"]
<1>1. /\ check[d] # NoCheck /\ check[d].reply = "waiting"
      /\ check' = [check EXCEPT ![d] = IF p \in DOMAIN seen THEN yes ELSE no]
      /\ UNCHANGED <<users, author, outbox, prefs, statics, page, shown, form, astray>>
  BY DEF Reply
<1>2. check[d] \in Asked
  <2>1. \A c \in Found : c.reply # "waiting"
    BY DEF Found
  <2> QED
    BY <1>1, <2>1, CheckCases
<1>3. seen \in Collections /\ DOMAIN seen = Known(d)
  <2>1. users \in Collections /\ outbox[d] \in Seq(Writes)
    BY DEF AccountInv, Types, ServerTyped, QueuesTyped
  <2>2. seen = ViewOf(users, outbox[d])
    BY DEF View, ViewOf
  <2> QED
    BY <2>1, <2>2, ViewFacts DEF Known
<1>4. PagesTyped'
  BY <1>1 DEF AccountInv, Types, PagesTyped
<1>5. CASE p \in DOMAIN seen
  <2>1. seen[p] \in User
    BY <1>3, <1>5, CollectionFacts
  <2> HIDE DEF seen
  <2>2. yes \in Found /\ yes.phone = p
    BY <1>2, <2>1 DEF Asked, Found
  <2>3. check' = [check EXCEPT ![d] = yes]
    BY <1>1, <1>5
  <2> HIDE DEF yes, p
  <2> QED
    BY <1>1, <1>3, <1>4, <1>5, <2>2, <2>3, QuestionsKeep
<1>6. CASE p \notin DOMAIN seen
  <2>1. no \in Asked /\ no.reply # "found"
    BY <1>2 DEF Asked
  <2>2. check' = [check EXCEPT ![d] = no]
    BY <1>1, <1>6
  <2> HIDE DEF no
  <2> QED
    BY <1>1, <1>4, <2>1, <2>2, QuestionsKeep
<1> QED
  BY <1>5, <1>6

LEMMA EndKeeps ==
    ASSUME NEW d \in Devices, AccountInv, Fail(d) \/ Refuse(d)
    PROVE  AccountInv'
<1>1. /\ check' = [check EXCEPT ![d] = NoCheck]
      /\ UNCHANGED <<users, author, outbox, prefs, statics, page, shown, form, astray>>
  BY DEF Fail, Refuse, Answered
<1>2. PagesTyped'
  BY <1>1 DEF AccountInv, Types, PagesTyped
<1> QED
  BY <1>1, <1>2, QuestionsKeep

\* What leaves the questions, the server and the account's phone alone.
LEMMA ScreensKeep ==
    ASSUME NEW d \in Devices, AccountInv, AccountTyped', PagesTyped',
           UNCHANGED <<users, author, outbox, check>>, astray \subseteq astray',
           \A e \in Devices : prefs'[e] = prefs[e] \/ (e = d /\ prefs'[e].phone \in {Nobody, prefs[e].phone})
    PROVE  AccountInv'
<1>1. KnownGrows /\ ServerTyped' /\ QueuesTyped'
  BY NothingWritten
<1>2. ChecksTyped'
  BY DEF AccountInv, Types, ChecksTyped
<1>3. Types'
  BY <1>1, <1>2 DEF Types
<1>4. FoundIsKnown(d)'
  BY <1>1, StillFound
<1>5. EnteredIsKnown(d)'
  <2>1. CASE prefs'[d].phone = Nobody
    BY <2>1 DEF EnteredIsKnown
  <2>2. CASE prefs'[d].phone # Nobody
    BY <1>1, <2>2, StillEntered
  <2> QED
    BY <2>1, <2>2
<1> QED
  BY <1>1, <1>3, <1>4, <1>5, KnownStays

LEMMA FrameKeepsAccounts ==
    ASSUME NEW d \in Devices, AccountInv, Frame(d)
    PROVE  AccountInv'
<1>1. /\ shown' = [shown EXCEPT ![d] = page[d]] /\ form' = [form EXCEPT ![d] = BlankForm]
      /\ statics' = [statics EXCEPT ![d] = prefs[d]] \/ statics' = statics
      /\ check' = IF check[d] # NoCheck /\ check[d].live
                  THEN [check EXCEPT ![d].live = FALSE, ![d].form = form[d]] ELSE check
      /\ UNCHANGED <<users, author, outbox, prefs, page, astray>>
  BY DEF Frame, InitNameAtFrame
<1>2. PagesTyped'
  <2>1. BlankForm \in Form
    BY DEF BlankForm, Form, Words, Numbers
  <2> QED
    BY <1>1, <2>1 DEF AccountInv, Types, PagesTyped
<1>3. AccountTyped'
  BY <1>1 DEF AccountInv, Types, AccountTyped
<1>4. CASE UNCHANGED check
  BY <1>1, <1>2, <1>3, <1>4, ScreensKeep
<1>5. CASE check[d] # NoCheck /\ check' = [check EXCEPT ![d].live = FALSE, ![d].form = form[d]]
  <2> DEFINE c == [check[d] EXCEPT !.live = FALSE, !.form = form[d]]
  <2>1. form[d] \in Form
    BY DEF AccountInv, Types, PagesTyped
  <2>2. c \in Asked \cup Found /\ c.phone = check[d].phone /\ c.reply = check[d].reply
    <3>1. CASE check[d] \in Asked
      BY <2>1, <3>1 DEF Asked
    <3>2. CASE check[d] \in Found
      BY <2>1, <3>2 DEF Found
    <3> QED
      BY <1>5, <3>1, <3>2, CheckCases
  <2>3. check' = [check EXCEPT ![d] = c]
    BY <1>5 DEF AccountInv, Types, ChecksTyped
  <2> HIDE DEF c
  <2>4. /\ ChecksTyped' /\ check'[d] = c
        /\ \A e \in Devices \ {d} : check'[e] = check[e]
    BY <2>2, <2>3, CheckChanges
  <2>5. KnownGrows /\ ServerTyped' /\ QueuesTyped'
    BY <1>1, NothingWritten
  <2>6. Types'
    BY <1>2, <1>3, <2>4, <2>5 DEF Types
  <2>7. FoundIsKnown(d)'
    BY <1>5, <2>2, <2>4, <2>5 DEF FoundIsKnown, KnownGrows, AccountInv
  <2>8. EnteredIsKnown(d)'
    BY <1>1, <2>5, StillEntered
  <2> QED
    BY <1>1, <2>4, <2>5, <2>6, <2>7, <2>8, KnownStays
<1> QED
  BY <1>1, <1>4, <1>5, Zenon

-----------------------------------------------------------------------------
LEMMA TurnKeepsAccounts ==
    ASSUME NEW d \in Devices, AccountInv, NEW p \in Pages, Turn(d, p)
    PROVE  AccountInv'
<1>1. /\ page' = [page EXCEPT ![d] = p]
      /\ astray' = IF Behind(d) THEN astray \cup {d} ELSE astray
      /\ UNCHANGED <<users, author, outbox, prefs, statics, shown, form, check>>
  BY DEF Turn, Go, Stray
<1>2. AccountTyped' /\ PagesTyped'
  BY <1>1 DEF AccountInv, Types, AccountTyped, PagesTyped
<1>3. astray \subseteq astray'
  BY <1>1
<1> QED
  BY <1>1, <1>2, <1>3, ScreensKeep

\* The account a device is logged in to from now on is known there.
LEMMA EnteredKeeps ==
    ASSUME NEW d \in Devices, AccountInv, KnownGrows, ServerTyped', QueuesTyped',
           NEW name \in Words, NEW phone \in Numbers, Enter(d, name, phone),
           check' = [check EXCEPT ![d] = NoCheck], NEW cond, Stray(d, cond),
           UNCHANGED <<statics, shown, form>>,
           ~ cond /\ phone # Nobody => phone \in Known(d)'
    PROVE  AccountInv'
<1>1. /\ prefs' = [prefs EXCEPT ![d].name = name, ![d].phone = phone]
      /\ page' = [page EXCEPT ![d] = "profile"]
      /\ astray' = IF cond THEN astray \cup {d} ELSE astray
  BY DEF Enter, Go, Stray
<1>2. prefs \in [Devices -> Account] /\ statics \in [Devices -> Account] /\ astray \subseteq Devices
  BY DEF AccountInv, Types, AccountTyped
<1>3. /\ prefs'[d] \in Account /\ prefs'[d].phone = phone
      /\ prefs' \in [Devices -> Account]
      /\ \A e \in Devices \ {d} : prefs'[e] = prefs[e]
  <2> DEFINE a == [prefs[d] EXCEPT !.name = name, !.phone = phone]
  <2>1. a \in Account /\ a.phone = phone
    BY <1>2 DEF Account
  <2>2. prefs' = [prefs EXCEPT ![d] = a]
    BY <1>1, <1>2
  <2> HIDE DEF a
  <2> QED
    BY <1>2, <2>1, <2>2
<1>4. AccountTyped'
  BY <1>1, <1>2, <1>3 DEF AccountTyped
<1>5. PagesTyped'
  BY <1>1 DEF AccountInv, Types, PagesTyped, Pages
<1>6. /\ ChecksTyped' /\ check'[d] = NoCheck
      /\ \A e \in Devices \ {d} : check'[e] = check[e]
  BY CheckChanges
<1>7. Types'
  BY <1>4, <1>5, <1>6 DEF Types
<1>8. FoundIsKnown(d)'
  BY <1>6 DEF FoundIsKnown
<1>9. EnteredIsKnown(d)'
  BY <1>1, <1>3 DEF EnteredIsKnown
<1>10. astray \subseteq astray'
  BY <1>1
<1> QED
  BY <1>3, <1>6, <1>7, <1>8, <1>9, <1>10, KnownStays

\* The phone in the form may have changed since Firestore was asked, but the
\* account is created under the phone that the device remembers.
LEMMA RegisterKeepsAccounts ==
    ASSUME NEW d \in Devices, AccountInv, Register(d)
    PROVE  AccountInv'
<1> DEFINE f == FormNow(d)
           w == SetUser(f.phone, f.word)
<1>1. /\ check[d] # NoCheck /\ check' = [check EXCEPT ![d] = NoCheck]
      /\ f.phone # Nobody /\ Enqueue(d, w) /\ Enter(d, f.word, f.phone)
      /\ Stray(d, prefs[d].phone # Nobody \/ Behind(d))
      /\ UNCHANGED <<users, author, statics, shown, form>>
  BY DEF Register, Answered
<1>2. f.phone \in Phones /\ f.word \in Words
  BY <1>1, FormTyped DEF Form, Numbers
<1> HIDE DEF f
<1>3. w \in Writes /\ Creates(w) = {f.phone}
  BY <1>2 DEF Writes, Creates, SetUser
<1>4. KnownGrows /\ ServerTyped' /\ QueuesTyped' /\ f.phone \in Known(d)'
  BY <1>1, <1>3, Written
<1> QED
  BY <1>1, <1>2, <1>4, EnteredKeeps DEF Numbers

\* The phone of a login is the one that was found, unless it was changed.
LEMMA LogInKeepsAccounts ==
    ASSUME NEW d \in Devices, AccountInv, LogIn(d)
    PROVE  AccountInv'
<1> DEFINE f == FormNow(d)
           cond == \/ ~ check[d].live \/ f.phone # check[d].phone
                   \/ prefs[d].phone # Nobody \/ Behind(d)
<1>1. /\ check[d] # NoCheck /\ check[d].reply = "found"
      /\ check' = [check EXCEPT ![d] = NoCheck]
      /\ Enter(d, check[d].doc.name, f.phone) /\ Stray(d, cond)
      /\ UNCHANGED <<users, author, outbox, statics, shown, form>>
  BY DEF LogIn, Answered
<1>2. f.phone \in Numbers
  BY <1>1, FormTyped DEF Form
<1>3. check[d].doc.name \in Words
  <2>1. \A c \in Asked : c.reply # "found"
    BY DEF Asked
  <2>2. check[d] \in Found
    BY <1>1, <2>1, CheckCases
  <2> QED
    BY <2>2 DEF Found, User
<1>4. KnownGrows /\ ServerTyped' /\ QueuesTyped'
  BY <1>1, NothingWritten
<1>5. ~ cond => f.phone \in Known(d)'
  BY <1>1, <1>4 DEF AccountInv, FoundIsKnown, KnownGrows
<1> HIDE DEF f, cond
<1> QED
  BY <1>1, <1>2, <1>3, <1>4, <1>5, EnteredKeeps

-----------------------------------------------------------------------------
LEMMA LogOutKeepsAccounts ==
    ASSUME NEW d \in Devices, AccountInv, LogOut(d)
    PROVE  AccountInv'
<1>1. /\ prefs' = [prefs EXCEPT ![d] = NoAccount] /\ page' = [page EXCEPT ![d] = "auth"]
      /\ UNCHANGED <<users, author, outbox, statics, shown, form, check, astray>>
  BY DEF LogOut, Go
<1>2. NoAccount \in Account /\ NoAccount.phone = Nobody
  BY DEF NoAccount, Account, Words, Numbers
<1>3. prefs \in [Devices -> Account]
  BY DEF AccountInv, Types, AccountTyped
<1>4. AccountTyped' /\ PagesTyped'
  BY <1>1, <1>2 DEF AccountInv, Types, AccountTyped, PagesTyped, Pages
<1>5. \A e \in Devices : prefs'[e] = prefs[e] \/ (e = d /\ prefs'[e].phone \in {Nobody, prefs[e].phone})
  BY <1>1, <1>2, <1>3
<1> QED
  BY <1>1, <1>4, <1>5, ScreensKeep

LEMMA ChangeAdressKeepsAccounts ==
    ASSUME NEW d \in Devices, AccountInv, ChangeAdress(d)
    PROVE  AccountInv'
<1> DEFINE a == [prefs[d] EXCEPT !.adress = statics[d].phone]
           b == [statics[d] EXCEPT !.adress = statics[d].phone]
<1>1. prefs \in [Devices -> Account] /\ statics \in [Devices -> Account] /\ astray \subseteq Devices
  BY DEF AccountInv, Types, AccountTyped
<1>2. /\ prefs' = [prefs EXCEPT ![d] = a] /\ statics' = [statics EXCEPT ![d] = b]
      /\ UNCHANGED <<users, author, outbox, page, shown, form, check, astray>>
  BY <1>1 DEF ChangeAdress
<1>3. a \in Account /\ b \in Account /\ a.phone = prefs[d].phone
  BY <1>1 DEF Account
<1> HIDE DEF a, b
<1>4. AccountTyped'
  BY <1>1, <1>2, <1>3 DEF AccountTyped
<1>5. PagesTyped'
  BY <1>2 DEF AccountInv, Types, PagesTyped
<1>6. \A e \in Devices : prefs'[e] = prefs[e] \/ (e = d /\ prefs'[e].phone \in {Nobody, prefs[e].phone})
  BY <1>1, <1>2, <1>3
<1> QED
  BY <1>2, <1>4, <1>5, <1>6, ScreensKeep

\* A write of "my data" or of a reset, which creates nothing.
LEMMA WritesKeep ==
    ASSUME NEW d \in Devices, AccountInv, NEW w \in Writes, Enqueue(d, w),
           UNCHANGED <<users, author, astray>>, AccountTyped', PagesTyped',
           \A e \in Devices \ {d} : prefs'[e] = prefs[e],
           prefs'[d].phone = prefs[d].phone,
           check' = check \/ check' = [check EXCEPT ![d] = NoCheck]
    PROVE  AccountInv'
<1>1. KnownGrows /\ ServerTyped' /\ QueuesTyped'
  BY Written
<1>2. /\ ChecksTyped' /\ check'[d] \in {NoCheck, check[d]}
      /\ \A e \in Devices \ {d} : check'[e] = check[e]
  BY CheckChanges DEF AccountInv, Types, ChecksTyped
<1>3. Types'
  BY <1>1, <1>2 DEF Types
<1>4. FoundIsKnown(d)'
  BY <1>1, <1>2 DEF AccountInv, FoundIsKnown, KnownGrows
<1>5. EnteredIsKnown(d)'
  BY <1>1, StillEntered
<1> QED
  BY <1>1, <1>2, <1>3, <1>4, <1>5, KnownStays

LEMMA MyDataKeeps ==
    ASSUME NEW d \in Devices, AccountInv, NEW w \in Words, ChangeName(d, w) \/ ChangePass(d, w)
    PROVE  AccountInv'
<1> DEFINE p == statics[d].phone
           a == [prefs[d] EXCEPT !.name = w]
           b == [statics[d] EXCEPT !.name = w]
<1>1. prefs \in [Devices -> Account] /\ statics \in [Devices -> Account] /\ astray \subseteq Devices
  BY DEF AccountInv, Types, AccountTyped
<1>2. p # Nobody => p \in Phones
  BY <1>1 DEF Account, Numbers
<1>3. p # Nobody => UpdateName(p, w) \in Writes /\ UpdatePass(p, w) \in Writes
  BY <1>2 DEF Writes
<1>4. CASE ChangePass(d, w)
  <2>1. /\ p # Nobody /\ Enqueue(d, UpdatePass(p, w))
        /\ UNCHANGED <<users, author, prefs, statics, page, shown, form, check, astray>>
    BY <1>4 DEF ChangePass, deviceVars
  <2>2. AccountTyped' /\ PagesTyped'
    BY <2>1 DEF AccountInv, Types, AccountTyped, PagesTyped
  <2> QED
    BY <1>3, <2>1, <2>2, WritesKeep
<1>5. CASE ChangeName(d, w)
  <2>1. /\ p # Nobody /\ Enqueue(d, UpdateName(p, w))
        /\ prefs' = [prefs EXCEPT ![d] = a] /\ statics' = [statics EXCEPT ![d] = b]
        /\ UNCHANGED <<users, author, page, shown, form, check, astray>>
    BY <1>1, <1>5 DEF ChangeName
  <2>2. a \in Account /\ b \in Account /\ a.phone = prefs[d].phone
    BY <1>1 DEF Account
  <2> HIDE DEF a, b
  <2>3. AccountTyped'
    BY <1>1, <2>1, <2>2 DEF AccountTyped
  <2>4. PagesTyped'
    BY <2>1 DEF AccountInv, Types, PagesTyped
  <2>5. prefs'[d] = a /\ \A e \in Devices \ {d} : prefs'[e] = prefs[e]
    BY <1>1, <2>1
  <2> QED
    BY <1>3, <2>1, <2>2, <2>3, <2>4, <2>5, WritesKeep
<1> QED
  BY <1>4, <1>5

LEMMA ResetKeepsAccounts ==
    ASSUME NEW d \in Devices, AccountInv, NEW w \in Words, ResetPass(d, w)
    PROVE  AccountInv'
<1> DEFINE p == FormNow(d).phone
<1>1. /\ check[d] # NoCheck /\ check' = [check EXCEPT ![d] = NoCheck]
      /\ p # Nobody /\ Enqueue(d, UpdatePass(p, w))
      /\ UNCHANGED <<users, author, prefs, statics, page, shown, form, astray>>
  BY DEF ResetPass, Answered
<1>2. p \in Phones
  BY <1>1, FormTyped DEF Form, Numbers
<1> HIDE DEF p
<1>3. UpdatePass(p, w) \in Writes
  BY <1>2 DEF Writes
<1>4. AccountTyped' /\ PagesTyped'
  BY <1>1 DEF AccountInv, Types, AccountTyped, PagesTyped
<1> QED
  BY <1>1, <1>3, <1>4, WritesKeep

LEMMA TypeKeepsAccounts ==
    ASSUME NEW d \in Devices, AccountInv, NEW f \in Form, Type(d, f)
    PROVE  AccountInv'
<1>1. /\ form' = [form EXCEPT ![d] = f]
      /\ UNCHANGED <<users, author, outbox, prefs, statics, page, shown, check, astray>>
  BY DEF Type
<1>2. AccountTyped' /\ PagesTyped'
  BY <1>1 DEF AccountInv, Types, AccountTyped, PagesTyped
<1> QED
  BY <1>1, <1>2, ScreensKeep

LEMMA NextAccounts == AccountInv /\ [Next]_vars => AccountInv'
<1> SUFFICES ASSUME AccountInv, [Next]_vars
             PROVE  AccountInv'
  OBVIOUS
<1>1. CASE UNCHANGED vars
  <2>1. KnownGrows /\ ServerTyped' /\ QueuesTyped'
    BY <1>1, NothingWritten DEF vars
  <2>2. AccountTyped' /\ PagesTyped' /\ ChecksTyped'
    BY <1>1 DEF vars, AccountInv, Types, AccountTyped, PagesTyped, ChecksTyped
  <2>3. \A d \in Devices : FoundIsKnown(d)' /\ EnteredIsKnown(d)'
    <3>1. UNCHANGED <<check, prefs, astray>>
      BY <1>1 DEF vars
    <3> QED
      BY <2>1, <3>1 DEF AccountInv, FoundIsKnown, EnteredIsKnown, KnownGrows
  <2> QED
    BY <2>1, <2>2, <2>3 DEF AccountInv, Types
<1>2. ASSUME NEW d \in Devices,
             \/ NavTapped(d) \/ ProfileTapped(d)
             \/ \E p \in {"auth", "reg"} : LinkTapped(d, p)
             \/ InnerTapped(d) \/ BackTapped(d)
      PROVE  AccountInv'
  <2>1. \E p \in Pages : Turn(d, p)
    BY <1>2 DEF NavTapped, ProfileTapped, LinkTapped, InnerTapped, BackTapped, Pages
  <2> QED
    BY <2>1, TurnKeepsAccounts
<1>3. ASSUME NEW d \in Devices, Ask(d) \/ AskReset(d)
      PROVE  AccountInv'
  <2>1. \E k \in {"reg", "auth", "reset"} : AskAbout(d, k)
    BY <1>3 DEF Ask, AskReset
  <2> QED
    BY <2>1, AskKeeps
<1>4. CASE Next
  <2>1. PICK d \in Devices :
           \/ Frame(d)
           \/ NavTapped(d) \/ ProfileTapped(d) \/ (\E p \in {"auth", "reg"} : LinkTapped(d, p))
           \/ InnerTapped(d) \/ BackTapped(d)
           \/ (\E f \in Form : Type(d, f))
           \/ Ask(d) \/ AskReset(d) \/ Reply(d) \/ Fail(d) \/ Refuse(d)
           \/ Register(d) \/ LogIn(d) \/ LogOut(d)
           \/ (\E w \in Words : ChangeName(d, w))
           \/ ChangeAdress(d)
           \/ (\E w \in Words : ChangePass(d, w)) \/ (\E w \in Words : ResetPass(d, w))
           \/ Deliver(d)
    BY <1>4 DEF Next
  <2> QED
    BY <1>2, <1>3, <2>1, FrameKeepsAccounts, TypeKeepsAccounts, ReplyKeeps, EndKeeps,
       RegisterKeepsAccounts, LogInKeepsAccounts, LogOutKeepsAccounts, MyDataKeeps,
       ChangeAdressKeepsAccounts, ResetKeepsAccounts, DeliverKeepsAccounts
<1> QED
  BY <1>1, <1>4

THEOREM AccountInvHolds == Spec => []AccountInv
  BY InitAccounts, NextAccounts, PTL DEF Spec

\* On any number of devices, the collection, the queues, the forms and the
\* answers hold what their fields in the code can hold, and whoever gave an
\* account its name is a device.
THEOREM AlwaysTypeOK == Spec => []TypeOK
<1>1. AccountInv => TypeOK
  <2> SUFFICES ASSUME AccountInv
               PROVE  TypeOK
    OBVIOUS
  <2>1. /\ DOMAIN users \subseteq Phones /\ \A p \in DOMAIN users : users[p] \in User
        /\ DOMAIN author = DOMAIN users /\ \A p \in DOMAIN author : author[p] \in Devices
    BY CollectionFacts DEF AccountInv, Types, ServerTyped
  <2>2. \A d \in Devices : \A k \in DOMAIN outbox[d] : outbox[d][k].phone \in Phones
    <3> SUFFICES ASSUME NEW d \in Devices, NEW k \in DOMAIN outbox[d]
                 PROVE  outbox[d][k].phone \in Phones
      OBVIOUS
    <3>1. outbox[d] \in Seq(Writes)
      BY DEF AccountInv, Types, QueuesTyped
    <3>2. outbox[d][k] \in Writes
      BY <3>1
    <3> QED
      BY <3>2, WriteFacts
  <2> QED
    BY <2>1, <2>2 DEF AccountInv, Types, AccountTyped, PagesTyped, TypeOK
<1> QED
  BY <1>1, AccountInvHolds, PTL

\* On any number of devices and for queues of any length, the phone of a
\* device that is logged in names an account, on the server or in the device's
\* own queue.
THEOREM AlwaysAccountExists == Spec => []AccountExists
<1>1. AccountInv => AccountExists
  <2> SUFFICES ASSUME AccountInv, NEW d \in Devices \ astray, prefs[d].phone # Nobody
               PROVE  prefs[d].phone \in DOMAIN View(d)
    BY DEF AccountExists
  <2>1. users \in Collections /\ outbox[d] \in Seq(Writes)
    BY DEF AccountInv, Types, ServerTyped, QueuesTyped
  <2>2. View(d) = ViewOf(users, outbox[d])
    BY DEF View, ViewOf
  <2>3. DOMAIN View(d) = Known(d)
    BY <2>1, <2>2, ViewFacts DEF Known
  <2> QED
    BY <2>3 DEF AccountInv, EnteredIsKnown
<1> QED
  BY <1>1, AccountInvHolds, PTL

-----------------------------------------------------------------------------
(***************************************************************************)
(* The name a device shows.  What a device shows of its account is what    *)
(* its own last write of the account's name says, while that write is in   *)
(* its queue and after it, until another device's write gives the account  *)
(* a name.  A login takes the name from an answer, so an answer that waits *)
(* to be looked at must be right in the same sense: nothing that names an  *)
(* account can enter the queue of a device whose form is on the screen.    *)
(***************************************************************************)
NameWrite(w, p) == w.op # "updatePass" /\ w.phone = p

\* The k-th write is the last of the queue that names p.
LastNaming(ws, p, k) ==
    /\ k \in DOMAIN ws /\ NameWrite(ws[k], p)
    /\ \A j \in DOMAIN ws : NameWrite(ws[j], p) => j <= k

SaysQueued(ws, p, n) == \A k \in DOMAIN ws : LastNaming(ws, p, k) => ws[k].name = n

SaysServed(d, p, n) ==
    (\A k \in DOMAIN outbox[d] : ~ NameWrite(outbox[d][k], p)) /\ p \in DOMAIN users /\ author[p] = d
        => users[p].name = n

\* As far as device d is concerned, account p is named n.
Says(d, p, n) == SaysQueued(outbox[d], p, n) /\ SaysServed(d, p, n)

LEMMA ApplyNames ==
    ASSUME NEW ds \in Collections, NEW w \in Writes, NEW p \in DOMAIN Apply(ds, w)
    PROVE  /\ NameWrite(w, p) => Apply(ds, w)[p].name = w.name
           /\ ~ NameWrite(w, p) => p \in DOMAIN ds /\ Apply(ds, w)[p].name = ds[p].name
<1>1. \A q \in DOMAIN ds : ds[q] \in User
  BY CollectionFacts
<1>2. w.op \in {"setUser", "updateName", "updatePass"}
  BY WriteFacts
<1>3. CASE w.op = "setUser"
  <2>1. Apply(ds, w) = [q \in DOMAIN ds \cup {w.phone} |->
                          IF q = w.phone THEN [name |-> w.name, pass |-> w.pass] ELSE ds[q]]
    BY <1>3 DEF Apply, SetDoc
  <2> QED
    BY <1>3, <2>1 DEF NameWrite
<1>4. CASE w.op = "updateName" /\ w.phone \in DOMAIN ds
  <2>1. Apply(ds, w) = [ds EXCEPT ![w.phone].name = w.name]
    BY <1>4 DEF Apply
  <2>2. p \in DOMAIN ds /\ ds[p] \in User
    BY <1>1, <2>1
  <2>3. Apply(ds, w)[p] = IF p = w.phone THEN [ds[p] EXCEPT !.name = w.name] ELSE ds[p]
    BY <2>1, <2>2
  <2> QED
    BY <1>4, <2>2, <2>3 DEF NameWrite, User
<1>5. CASE w.op = "updatePass" /\ w.phone \in DOMAIN ds
  <2>1. Apply(ds, w) = [ds EXCEPT ![w.phone].pass = w.pass]
    BY <1>5 DEF Apply
  <2>2. p \in DOMAIN ds /\ ds[p] \in User
    BY <1>1, <2>1
  <2>3. Apply(ds, w)[p] = IF p = w.phone THEN [ds[p] EXCEPT !.pass = w.pass] ELSE ds[p]
    BY <2>1, <2>2
  <2> QED
    BY <1>5, <2>2, <2>3 DEF NameWrite, User
<1>6. CASE w.op # "setUser" /\ w.phone \notin DOMAIN ds
  <2>1. Apply(ds, w) = ds
    BY <1>6 DEF Apply
  <2> QED
    BY <1>6, <2>1 DEF NameWrite
<1> QED
  BY <1>2, <1>3, <1>4, <1>5, <1>6

\* Along a view, the name of an account is what it was after the m-th write,
\* if no later one names it.
LEMMA NameKept ==
    ASSUME NEW ds \in Collections, NEW ws \in Seq(Writes), NEW step,
           Steps(step, ds, ws, Len(ws)), NEW p, NEW m \in 0 .. Len(ws),
           \A k \in DOMAIN ws : k > m => ~ NameWrite(ws[k], p)
    PROVE  /\ p \in DOMAIN step[Len(ws)] =>
                p \in DOMAIN step[m] /\ step[Len(ws)][p].name = step[m][p].name
           /\ m > 0 => step[m - 1] \in Collections
<1> DEFINE n == Len(ws)
<1>1. n \in Nat /\ DOMAIN ws = 1 .. n /\ \A k \in 1 .. n : ws[k] \in Writes
  OBVIOUS
<1>2. m \in 0 .. n /\ Steps(step, ds, ws, n)
  OBVIOUS
<1> HIDE DEF n
<1>a. m \in Nat
  BY <1>1, <1>2
<1> DEFINE Same(k) == p \in DOMAIN step[k] =>
                        p \in DOMAIN step[m] /\ step[k][p].name = step[m][p].name
           Fits(k) == step[k] \in Collections /\ (k >= m => Same(k))
           B == {k \in 0 .. n : ~ Fits(k)}
<1>3. Fits(0)
  <2>1. step[0] = ds
    BY <1>2 DEF Steps
  <2>2. 0 >= m => m = 0
    BY <1>a
  <2> QED
    BY <2>1, <2>2
<1>4. ASSUME NEW k \in 1 .. n, Fits(k - 1)
      PROVE  Fits(k)
  <2>1. step[k] = Apply(step[k - 1], ws[k])
    BY <1>2 DEF Steps
  <2>2. ws[k] \in Writes /\ step[k - 1] \in Collections
    BY <1>1, <1>4
  <2>3. step[k] \in Collections
    BY <2>1, <2>2, ApplyFacts
  <2>4. CASE k = m
    BY <2>3, <2>4
  <2>5. CASE k < m
    BY <1>a, <1>1, <2>3, <2>5
  <2>6. CASE k > m
    <3>1. k - 1 >= m
      BY <1>a, <1>1, <2>6
    <3>2. Same(k - 1)
      BY <1>4, <3>1
    <3>3. ~ NameWrite(ws[k], p)
      BY <1>1, <2>6
    <3>4. p \in DOMAIN step[k] => p \in DOMAIN step[k - 1] /\ step[k][p].name = step[k - 1][p].name
      BY <2>1, <2>2, <3>3, ApplyNames
    <3> QED
      BY <2>3, <3>2, <3>4
  <2>7. k = m \/ k < m \/ k > m
    BY <1>a, <1>1
  <2> QED
    BY <2>4, <2>5, <2>6, <2>7
<1> HIDE DEF Fits
<1>5. B = {}
  <2> SUFFICES ASSUME B # {}
               PROVE  FALSE
    OBVIOUS
  <2>0. B \subseteq Nat
    BY <1>1
  <2>1. PICK j \in B : \A k \in B : j <= k
    BY <2>0, LeastElement
  <2>2. j # 0
    BY <1>3, <2>1
  <2>3. j \in 1 .. n /\ j - 1 \in 0 .. n /\ j - 1 \notin B
    BY <1>1, <2>1, <2>2
  <2>4. Fits(j)
    BY <1>4, <2>3
  <2> QED
    BY <2>1, <2>4
<1>6. Fits(n) /\ n >= m
  <2>1. n \in 0 .. n
    BY <1>1
  <2> QED
    BY <1>1, <1>2, <1>5, <2>1
<1>7. m > 0 => Fits(m - 1)
  <2>1. m > 0 => m - 1 \in 0 .. n
    BY <1>1, <1>2
  <2> QED
    BY <1>5, <2>1
<1> QED
  BY <1>6, <1>7 DEF Fits, n

\* A device sees an account under the name its queue gives it at last.
LEMMA ViewName ==
    ASSUME NEW ds \in Collections, NEW ws \in Seq(Writes), NEW p \in DOMAIN ViewOf(ds, ws)
    PROVE  /\ SaysQueued(ws, p, ViewOf(ds, ws)[p].name)
           /\ (\A k \in DOMAIN ws : ~ NameWrite(ws[k], p)) =>
                 p \in DOMAIN ds /\ ViewOf(ds, ws)[p].name = ds[p].name
<1>1. Len(ws) \in Nat /\ DOMAIN ws = 1 .. Len(ws) /\ \A k \in 1 .. Len(ws) : ws[k] \in Writes
  OBVIOUS
<1>2. PICK step : Steps(step, ds, ws, Len(ws)) /\ ViewOf(ds, ws) = step[Len(ws)]
  BY <1>1, ViewSteps
<1>3. ASSUME NEW k \in DOMAIN ws, LastNaming(ws, p, k)
      PROVE  ws[k].name = ViewOf(ds, ws)[p].name
  <2>1. k \in 1 .. Len(ws) /\ k \in 0 .. Len(ws) /\ k > 0
    BY <1>1
  <2>2. \A j \in DOMAIN ws : j > k => ~ NameWrite(ws[j], p)
    BY <1>1, <1>3 DEF LastNaming
  <2>3. /\ p \in DOMAIN step[k] /\ step[Len(ws)][p].name = step[k][p].name
        /\ step[k - 1] \in Collections
    BY <1>2, <2>1, <2>2, NameKept
  <2>4. step[k] = Apply(step[k - 1], ws[k])
    BY <1>2, <2>1 DEF Steps
  <2>5. step[k][p].name = ws[k].name
    BY <1>1, <1>3, <2>1, <2>3, <2>4, ApplyNames DEF LastNaming
  <2> QED
    BY <1>2, <2>3, <2>5
<1>4. ASSUME \A k \in DOMAIN ws : ~ NameWrite(ws[k], p)
      PROVE  p \in DOMAIN ds /\ ViewOf(ds, ws)[p].name = ds[p].name
  <2>1. 0 \in 0 .. Len(ws) /\ step[0] = ds
    BY <1>1, <1>2 DEF Steps
  <2> QED
    BY <1>2, <1>4, <2>1, NameKept
<1> QED
  BY <1>3, <1>4 DEF SaysQueued

-----------------------------------------------------------------------------
ShowsRight(d) ==
    d \notin astray /\ prefs[d].phone # Nobody => Says(d, prefs[d].phone, prefs[d].name)

\* A question whose form is on the screen.
Open(d) == check[d] # NoCheck /\ check[d].live

FormShown(d) == Open(d) => shown[d] \in {"auth", "reg"}

AnswerRight(d) ==
    Open(d) /\ check[d].kind = "auth" /\ check[d].reply = "found"
        => Says(d, check[d].phone, check[d].doc.name)

Naming(d) == ShowsRight(d) /\ FormShown(d) /\ AnswerRight(d)

NameInv == AccountInv /\ SessionInv /\ \A d \in Devices : Naming(d)

LEMMA InitNames == Init => NameInv
<1> SUFFICES ASSUME Init
             PROVE  NameInv
  OBVIOUS
<1>1. ASSUME NEW d \in Devices
      PROVE  Naming(d)
  BY DEF Init, Naming, ShowsRight, FormShown, AnswerRight, Open, NoAccount
<1> QED
  BY <1>1, InitAccounts, InitSession DEF NameInv

\* What is said of an account depends on the device's queue and the server.
LEMMA SaysReads ==
    ASSUME NEW d \in Devices, UNCHANGED <<users, author>>, outbox'[d] = outbox[d],
           NEW p, NEW n, Says(d, p, n)
    PROVE  Says(d, p, n)'
  BY DEF Says, SaysQueued, SaysServed, LastNaming

\* A handler of one device has to answer for that device only.
LEMMA NamingStays ==
    ASSUME NEW d \in Devices, \A e \in Devices : Naming(e),
           UNCHANGED <<users, author>>, astray \subseteq astray',
           \A e \in Devices \ {d} :
               /\ outbox'[e] = outbox[e] /\ prefs'[e] = prefs[e]
               /\ check'[e] = check[e] /\ shown'[e] = shown[e],
           Naming(d)'
    PROVE  \A e \in Devices : Naming(e)'
<1> SUFFICES ASSUME NEW e \in Devices, e # d
             PROVE  Naming(e)'
  OBVIOUS
<1>1. /\ outbox'[e] = outbox[e] /\ prefs'[e] = prefs[e]
      /\ check'[e] = check[e] /\ shown'[e] = shown[e] /\ Naming(e)
  OBVIOUS
<1>2. ShowsRight(e)'
  BY <1>1, SaysReads DEF Naming, ShowsRight
<1>3. FormShown(e)'
  BY <1>1 DEF Naming, FormShown, Open
<1>4. AnswerRight(e)'
  BY <1>1, SaysReads DEF Naming, AnswerRight, Open
<1> QED
  BY <1>2, <1>3, <1>4 DEF Naming

\* What neither writes, nor enters an account, nor asks.
LEMMA NamingUntouched ==
    ASSUME NEW d \in Devices, \A e \in Devices : Naming(e),
           UNCHANGED <<users, author, outbox>>, astray \subseteq astray',
           \A e \in Devices \ {d} :
               /\ prefs'[e] = prefs[e] /\ check'[e] = check[e] /\ shown'[e] = shown[e],
           \/ prefs'[d].phone = Nobody
           \/ prefs'[d].phone = prefs[d].phone /\ prefs'[d].name = prefs[d].name,
           \/ ~ Open(d)'
           \/ check'[d] = check[d] /\ shown'[d] = shown[d]
    PROVE  \A e \in Devices : Naming(e)'
<1>1. ShowsRight(d)'
  BY SaysReads DEF Naming, ShowsRight
<1>2. FormShown(d)'
  BY DEF Naming, FormShown, Open
<1>3. AnswerRight(d)'
  BY SaysReads DEF Naming, AnswerRight, Open
<1> QED
  BY <1>1, <1>2, <1>3, NamingStays DEF Naming

-----------------------------------------------------------------------------
\* A write that names p decides what is said of it.
LEMMA NamingWritten ==
    ASSUME NEW d \in Devices, AccountInv, NEW w \in Writes, Enqueue(d, w),
           NEW p, NameWrite(w, p)
    PROVE  Says(d, p, w.name)'
<1>1. outbox[d] \in Seq(Writes) /\ outbox'[d] = Append(outbox[d], w)
  BY DEF AccountInv, Types, QueuesTyped, Enqueue
<1>2. /\ Len(outbox[d]) + 1 \in DOMAIN outbox'[d] /\ outbox'[d][Len(outbox[d]) + 1] = w
      /\ \A k \in DOMAIN outbox'[d] : k <= Len(outbox[d]) + 1 /\ k \in Nat
      /\ Len(outbox[d]) \in Nat
  BY <1>1
<1>3. SaysQueued(outbox'[d], p, w.name)
  <2> SUFFICES ASSUME NEW k \in DOMAIN outbox'[d], LastNaming(outbox'[d], p, k)
               PROVE  outbox'[d][k].name = w.name
    BY DEF SaysQueued
  <2>1. k = Len(outbox[d]) + 1
    BY <1>2 DEF LastNaming
  <2> QED
    BY <1>2, <2>1
<1>4. SaysServed(d, p, w.name)'
  BY <1>2 DEF SaysServed
<1> QED
  BY <1>3, <1>4 DEF Says

\* A write that names nobody changes nothing that is said.
LEMMA NoNameWritten ==
    ASSUME NEW d \in Devices, AccountInv, NEW w \in Writes, Enqueue(d, w),
           UNCHANGED <<users, author>>,
           NEW p, ~ NameWrite(w, p), NEW n, Says(d, p, n)
    PROVE  Says(d, p, n)'
<1>1. outbox[d] \in Seq(Writes) /\ outbox'[d] = Append(outbox[d], w)
  BY DEF AccountInv, Types, QueuesTyped, Enqueue
<1>2. /\ \A k \in DOMAIN outbox[d] : k \in DOMAIN outbox'[d] /\ outbox'[d][k] = outbox[d][k]
      /\ \A k \in DOMAIN outbox'[d] : k \notin DOMAIN outbox[d] => outbox'[d][k] = w
  BY <1>1
<1>3. SaysQueued(outbox'[d], p, n)
  <2> SUFFICES ASSUME NEW k \in DOMAIN outbox'[d], LastNaming(outbox'[d], p, k)
               PROVE  outbox'[d][k].name = n
    BY DEF SaysQueued
  <2>1. k \in DOMAIN outbox[d]
    BY <1>2 DEF LastNaming
  <2>2. LastNaming(outbox[d], p, k)
    BY <1>2, <2>1 DEF LastNaming
  <2> QED
    BY <1>2, <2>1, <2>2 DEF Says, SaysQueued
<1>4. SaysServed(d, p, n)'
  BY <1>2 DEF Says, SaysServed
<1> QED
  BY <1>3, <1>4 DEF Says

-----------------------------------------------------------------------------
\* The answer is what the device sees, its own writes included.
LEMMA ReplyNames ==
    ASSUME NEW d \in Devices, NameInv, Reply(d)
    PROVE  \A e \in Devices : Naming(e)'
<1> DEFINE p == check[d].phone
           yes == [kind |-> check[d].kind, phone |-> p, live |-> check[d].live,
                   form |-> check[d].form, reply |-> "found", doc |-> View(d)[p]]
           no == [check[d] EXCEPT !.reply = "free"]
           c == IF p \in DOMAIN View(d) THEN yes ELSE no
<1>1. /\ check[d] # NoCheck
      /\ check' = [check EXCEPT ![d] = c]
      /\ UNCHANGED <<users, author, outbox, prefs, statics, page, shown, form, astray>>
  BY DEF Reply
<1>2. check[d] \in Asked \cup Found
  BY <1>1, CheckCases DEF NameInv
<1>3. users \in Collections /\ outbox[d] \in Seq(Writes) /\ View(d) = ViewOf(users, outbox[d])
  BY DEF NameInv, AccountInv, Types, ServerTyped, QueuesTyped, View, ViewOf
<1>4. c.live = check[d].live
  BY <1>2 DEF Asked, Found
<1>5. c.reply = "found" => p \in DOMAIN View(d) /\ c.phone = p /\ c.doc.name = View(d)[p].name
  BY <1>2 DEF Asked, Found
<1>6. p \in DOMAIN View(d) => Says(d, p, View(d)[p].name)
  <2> SUFFICES ASSUME p \in DOMAIN View(d)
               PROVE  Says(d, p, View(d)[p].name)
    OBVIOUS
  <2> HIDE DEF p
  <2> QED
    BY <1>3, ViewName DEF Says, SaysServed
<1> HIDE DEF c, p
<1>7. check'[d] = c /\ \A e \in Devices \ {d} : check'[e] = check[e]
  BY <1>1 DEF NameInv, AccountInv, Types, ChecksTyped
<1>8. Naming(d)
  BY DEF NameInv
<1>9. ShowsRight(d)'
  BY <1>1, <1>8, SaysReads DEF Naming, ShowsRight
<1>10. FormShown(d)'
  BY <1>1, <1>4, <1>7, <1>8 DEF Naming, FormShown, Open
<1>11. AnswerRight(d)'
  <2>1. PICK q, n : q = c.phone /\ n = c.doc.name
    OBVIOUS
  <2>2. c.reply = "found" => Says(d, q, n)
    BY <1>5, <1>6, <2>1
  <2>3. c.reply = "found" => Says(d, q, n)'
    BY <1>1, <2>2, SaysReads
  <2> QED
    BY <1>7, <2>1, <2>3 DEF AnswerRight
<1> QED
  BY <1>1, <1>7, <1>8, <1>9, <1>10, <1>11, NamingStays DEF NameInv, Naming

\* A question is asked from a form on the screen, and has no answer yet.
LEMMA AskNames ==
    ASSUME NEW d \in Devices, NameInv, Ask(d) \/ AskReset(d)
    PROVE  \A e \in Devices : Naming(e)'
<1>1. PICK k : AskAbout(d, k) /\ shown[d] \in {"auth", "reg"}
  BY DEF Ask, AskReset
<1> DEFINE c == [kind |-> k, phone |-> form[d].phone, live |-> TRUE,
                 form |-> BlankForm, reply |-> "waiting"]
<1>2. /\ check' = [check EXCEPT ![d] = c]
      /\ UNCHANGED <<users, author, outbox, prefs, statics, page, shown, form, astray>>
  BY <1>1 DEF AskAbout
<1>3. c.reply # "found"
  OBVIOUS
<1> HIDE DEF c
<1>4. check'[d] = c /\ \A e \in Devices \ {d} : check'[e] = check[e]
  BY <1>2 DEF NameInv, AccountInv, Types, ChecksTyped
<1>5. Naming(d)
  BY DEF NameInv
<1>6. ShowsRight(d)'
  BY <1>2, <1>5, SaysReads DEF Naming, ShowsRight
<1>7. FormShown(d)' /\ AnswerRight(d)'
  BY <1>1, <1>2, <1>3, <1>4 DEF FormShown, AnswerRight
<1> QED
  BY <1>2, <1>4, <1>6, <1>7, NamingStays DEF NameInv, Naming

\* The question is over.
LEMMA QuestionOver ==
    ASSUME NEW d \in Devices, AccountInv, check' = [check EXCEPT ![d] = NoCheck]
    PROVE  /\ ~ Open(d)'
           /\ \A e \in Devices \ {d} : check'[e] = check[e]
  BY DEF AccountInv, Types, ChecksTyped, Open

LEMMA EndNames ==
    ASSUME NEW d \in Devices, NameInv, Fail(d) \/ Refuse(d)
    PROVE  \A e \in Devices : Naming(e)'
<1>1. /\ check' = [check EXCEPT ![d] = NoCheck]
      /\ UNCHANGED <<users, author, outbox, prefs, statics, page, shown, form, astray>>
  BY DEF Fail, Refuse, Answered
<1> QED
  BY <1>1, QuestionOver, NamingUntouched DEF NameInv

\* When another page is shown, the form of a question is no longer on the screen.
LEMMA FrameNames ==
    ASSUME NEW d \in Devices, NameInv, Frame(d)
    PROVE  \A e \in Devices : Naming(e)'
<1>1. /\ shown' = [shown EXCEPT ![d] = page[d]]
      /\ UNCHANGED <<users, author, outbox, prefs, page, astray>>
      /\ check' = IF check[d] # NoCheck /\ check[d].live
                  THEN [check EXCEPT ![d].live = FALSE, ![d].form = form[d]]
                  ELSE check
  BY DEF Frame
<1>2. /\ check \in [Devices -> {NoCheck} \cup Asked \cup Found]
      /\ shown \in [Devices -> Pages]
  BY DEF NameInv, AccountInv, Types, ChecksTyped, PagesTyped
<1>3. ~ Open(d)' /\ \A e \in Devices \ {d} : check'[e] = check[e]
  <2>1. CASE Open(d)
    <3> DEFINE c == [check[d] EXCEPT !.live = FALSE, !.form = form[d]]
    <3>1. check' = [check EXCEPT ![d] = c]
      BY <1>1, <1>2, <2>1 DEF Open
    <3>2. ~ c.live
      BY <1>2, <2>1 DEF Open, Asked, Found
    <3> HIDE DEF c
    <3> QED
      BY <1>2, <3>1, <3>2 DEF Open
  <2>2. CASE ~ Open(d)
    BY <1>1, <2>2 DEF Open
  <2> QED
    BY <2>1, <2>2
<1>4. \A e \in Devices \ {d} : shown'[e] = shown[e] /\ prefs'[e] = prefs[e]
  BY <1>1, <1>2
<1> QED
  BY <1>1, <1>3, <1>4, NamingUntouched DEF NameInv

\* Asking for a page, and typing.
LEMMA TurnNames ==
    ASSUME NEW d \in Devices, NameInv, NEW p, Turn(d, p)
    PROVE  \A e \in Devices : Naming(e)'
<1>1. /\ astray' = IF Behind(d) THEN astray \cup {d} ELSE astray
      /\ UNCHANGED <<users, author, outbox, prefs, statics, shown, form, check>>
  BY DEF Turn, Stray
<1>2. astray \subseteq astray'
  BY <1>1
<1> QED
  BY <1>1, <1>2, NamingUntouched DEF NameInv

LEMMA TypeNames ==
    ASSUME NEW d \in Devices, NameInv, NEW f, Type(d, f)
    PROVE  \A e \in Devices : Naming(e)'
<1>1. UNCHANGED <<users, author, outbox, prefs, statics, page, shown, check, astray>>
  BY DEF Type
<1> QED
  BY <1>1, NamingUntouched DEF NameInv

-----------------------------------------------------------------------------
\* The preferences of a device that is entered hold the name and the phone.
LEMMA EnterPrefs ==
    ASSUME NEW d \in Devices, AccountInv, NEW name, NEW phone, Enter(d, name, phone)
    PROVE  /\ prefs'[d].name = name /\ prefs'[d].phone = phone
           /\ \A e \in Devices \ {d} : prefs'[e] = prefs[e]
<1>1. prefs \in [Devices -> Account]
  BY DEF AccountInv, Types, AccountTyped
<1> DEFINE a == [prefs[d] EXCEPT !.name = name, !.phone = phone]
<1>2. a.name = name /\ a.phone = phone
  BY <1>1 DEF Account
<1>3. prefs' = [prefs EXCEPT ![d] = a]
  BY <1>1 DEF Enter
<1> HIDE DEF a
<1> QED
  BY <1>1, <1>2, <1>3

\* A registration names its own account.
LEMMA RegisterNames ==
    ASSUME NEW d \in Devices, NameInv, Register(d)
    PROVE  \A e \in Devices : Naming(e)'
<1> DEFINE f == FormNow(d)
           w == SetUser(f.phone, f.word)
<1>0. AccountInv /\ \A e \in Devices : Naming(e)
  BY DEF NameInv
<1>1. /\ check[d] # NoCheck /\ check' = [check EXCEPT ![d] = NoCheck]
      /\ f.phone # Nobody /\ Enqueue(d, w) /\ Enter(d, f.word, f.phone)
      /\ Stray(d, prefs[d].phone # Nobody \/ Behind(d))
      /\ UNCHANGED <<users, author, statics, shown, form>>
  BY DEF Register, Answered
<1>2. f.phone \in Phones /\ f.word \in Words
  BY <1>0, <1>1, FormTyped DEF Form, Numbers
<1> HIDE DEF f
<1>b. w \in Writes /\ NameWrite(w, f.phone) /\ w.name = f.word
  BY <1>2 DEF Writes, NameWrite, SetUser
<1> HIDE DEF w
<1>3. PICK v \in Writes : v = w /\ NameWrite(v, f.phone) /\ v.name = f.word
  BY <1>b
<1>a. PICK p : p = f.phone
  OBVIOUS
<1>4. Says(d, p, v.name)'
  BY <1>0, <1>1, <1>3, <1>a, NamingWritten
<1>5. /\ prefs'[d].name = f.word /\ prefs'[d].phone = f.phone
      /\ \A e \in Devices \ {d} : prefs'[e] = prefs[e]
  BY <1>0, <1>1, EnterPrefs
<1>6. ~ Open(d)' /\ \A e \in Devices \ {d} : check'[e] = check[e]
  BY <1>0, <1>1, QuestionOver
<1>7. \A e \in Devices \ {d} : outbox'[e] = outbox[e]
  BY <1>0, <1>1 DEF Enqueue, AccountInv, Types, QueuesTyped
<1>8. ShowsRight(d)'
  BY <1>3, <1>4, <1>5, <1>a DEF ShowsRight
<1>9. Naming(d)'
  BY <1>6, <1>8 DEF Naming, FormShown, AnswerRight
<1>10. astray \subseteq astray'
  BY <1>1 DEF Stray
<1> QED
  BY <1>0, <1>1, <1>5, <1>6, <1>7, <1>9, <1>10, NamingStays

\* A login takes the name of the answer, which is right as long as its form is
\* on the screen and the phone in it is the one that was asked about.
LEMMA LogInNames ==
    ASSUME NEW d \in Devices, NameInv, LogIn(d)
    PROVE  \A e \in Devices : Naming(e)'
<1> DEFINE f == FormNow(d)
           cond == \/ ~ check[d].live \/ f.phone # check[d].phone
                   \/ prefs[d].phone # Nobody \/ Behind(d)
           name == check[d].doc.name
<1>0. AccountInv /\ \A e \in Devices : Naming(e)
  BY DEF NameInv
<1>1. /\ check[d] # NoCheck /\ check[d].reply = "found" /\ check[d].kind = "auth"
      /\ check' = [check EXCEPT ![d] = NoCheck]
      /\ Enter(d, name, f.phone) /\ Stray(d, cond)
      /\ UNCHANGED <<users, author, outbox, statics, shown, form>>
  BY DEF LogIn, Answered
<1>2. ~ cond => Says(d, f.phone, name)
  BY <1>0, <1>1 DEF Naming, AnswerRight, Open
<1>3. astray' = IF cond THEN astray \cup {d} ELSE astray
  BY <1>1 DEF Stray
<1> HIDE DEF f, cond, name
<1>4. /\ prefs'[d].name = name /\ prefs'[d].phone = f.phone
      /\ \A e \in Devices \ {d} : prefs'[e] = prefs[e]
  BY <1>0, <1>1, EnterPrefs
<1>5. ~ Open(d)' /\ \A e \in Devices \ {d} : check'[e] = check[e]
  BY <1>0, <1>1, QuestionOver
<1>6. ShowsRight(d)'
  <2>1. PICK p, n : p = f.phone /\ n = name
    OBVIOUS
  <2>2. d \notin astray' => Says(d, p, n)
    BY <1>2, <1>3, <2>1
  <2>3. d \notin astray' => Says(d, p, n)'
    BY <1>1, <2>2, SaysReads
  <2> QED
    BY <1>4, <2>1, <2>3 DEF ShowsRight
<1>7. Naming(d)'
  BY <1>5, <1>6 DEF Naming, FormShown, AnswerRight
<1>8. astray \subseteq astray'
  BY <1>3
<1> QED
  BY <1>0, <1>1, <1>4, <1>5, <1>7, <1>8, NamingStays

-----------------------------------------------------------------------------
LEMMA LogOutNames ==
    ASSUME NEW d \in Devices, NameInv, LogOut(d)
    PROVE  \A e \in Devices : Naming(e)'
<1>1. /\ prefs' = [prefs EXCEPT ![d] = NoAccount]
      /\ UNCHANGED <<users, author, outbox, statics, shown, form, check, astray>>
  BY DEF LogOut
<1>2. prefs'[d].phone = Nobody /\ \A e \in Devices \ {d} : prefs'[e] = prefs[e]
  BY <1>1 DEF NameInv, AccountInv, Types, AccountTyped, NoAccount
<1> QED
  BY <1>1, <1>2, NamingUntouched DEF NameInv

LEMMA ChangeAdressNames ==
    ASSUME NEW d \in Devices, NameInv, ChangeAdress(d)
    PROVE  \A e \in Devices : Naming(e)'
<1> DEFINE a == [prefs[d] EXCEPT !.adress = statics[d].phone]
<1>1. prefs \in [Devices -> Account]
  BY DEF NameInv, AccountInv, Types, AccountTyped
<1>2. /\ prefs' = [prefs EXCEPT ![d] = a]
      /\ UNCHANGED <<users, author, outbox, page, shown, form, check, astray>>
  BY <1>1 DEF ChangeAdress
<1>3. a.name = prefs[d].name /\ a.phone = prefs[d].phone
  BY <1>1 DEF Account
<1> HIDE DEF a
<1>4. prefs'[d] = a /\ \A e \in Devices \ {d} : prefs'[e] = prefs[e]
  BY <1>1, <1>2
<1> QED
  BY <1>2, <1>3, <1>4, NamingUntouched DEF NameInv

\* A password is changed, inside the profile or by a reset, of whatever account:
\* nothing is named.
LEMMA PassNames ==
    ASSUME NEW d \in Devices, NameInv, NEW p \in Phones, NEW v \in Words,
           Enqueue(d, UpdatePass(p, v)), UNCHANGED <<users, author, prefs, shown, astray>>,
           \/ ~ Open(d)' /\ \A e \in Devices \ {d} : check'[e] = check[e]
           \/ UNCHANGED check
    PROVE  \A e \in Devices : Naming(e)'
<1> DEFINE w == UpdatePass(p, v)
<1>0. AccountInv /\ \A e \in Devices : Naming(e)
  BY DEF NameInv
<1>1. w \in Writes /\ \A q : ~ NameWrite(w, q)
  BY DEF Writes, NameWrite, UpdatePass
<1> HIDE DEF w
<1>2. ASSUME NEW q, NEW n, Says(d, q, n)
      PROVE  Says(d, q, n)'
  BY <1>0, <1>1, <1>2, NoNameWritten DEF w
<1>3. ShowsRight(d)'
  BY <1>0, <1>2 DEF Naming, ShowsRight
<1>4. FormShown(d)'
  BY <1>0 DEF Naming, FormShown, Open
<1>5. AnswerRight(d)'
  BY <1>0, <1>2 DEF Naming, AnswerRight, Open
<1>6. \A e \in Devices \ {d} : outbox'[e] = outbox[e]
  BY <1>0 DEF Enqueue, AccountInv, Types, QueuesTyped
<1> QED
  BY <1>0, <1>3, <1>4, <1>5, <1>6, NamingStays DEF Naming

LEMMA ChangePassNames ==
    ASSUME NEW d \in Devices, NameInv, NEW w \in Words, ChangePass(d, w) \/ ResetPass(d, w)
    PROVE  \A e \in Devices : Naming(e)'
<1>0. AccountInv
  BY DEF NameInv
<1>1. CASE ChangePass(d, w)
  <2>1. PICK p : p = statics[d].phone
    OBVIOUS
  <2>2. /\ p # Nobody /\ Enqueue(d, UpdatePass(p, w))
        /\ UNCHANGED <<users, author, prefs, shown, check, astray>>
    BY <1>1, <2>1 DEF ChangePass, deviceVars
  <2>3. p \in Phones
    BY <1>0, <2>1, <2>2 DEF AccountInv, Types, AccountTyped, Account, Numbers
  <2> QED
    BY <2>2, <2>3, PassNames
<1>2. CASE ResetPass(d, w)
  <2>1. PICK p : p = FormNow(d).phone
    OBVIOUS
  <2>2. /\ check[d] # NoCheck /\ check' = [check EXCEPT ![d] = NoCheck]
        /\ p # Nobody /\ Enqueue(d, UpdatePass(p, w))
        /\ UNCHANGED <<users, author, prefs, shown, astray>>
    BY <1>2, <2>1 DEF ResetPass, Answered
  <2>3. p \in Phones
    BY <1>0, <2>1, <2>2, FormTyped DEF Form, Numbers
  <2> QED
    BY <1>0, <2>2, <2>3, QuestionOver, PassNames
<1> QED
  BY <1>1, <1>2

\* "My data" names the account whose phone the device remembers, and no form is
\* on the screen whose question the new name could make wrong.
LEMMA ChangeNameNames ==
    ASSUME NEW d \in Devices, NameInv, NEW v \in Words, ChangeName(d, v)
    PROVE  \A e \in Devices : Naming(e)'
<1> DEFINE a == [prefs[d] EXCEPT !.name = v]
<1>0. AccountInv /\ SessionInv /\ \A e \in Devices : Naming(e)
  BY DEF NameInv
<1>1. PICK p : p = statics[d].phone
  OBVIOUS
<1>2. prefs \in [Devices -> Account] /\ statics \in [Devices -> Account]
  BY <1>0 DEF AccountInv, Types, AccountTyped
<1>3. /\ shown[d] = "inner" /\ p # Nobody /\ Enqueue(d, UpdateName(p, v))
      /\ prefs' = [prefs EXCEPT ![d] = a]
      /\ UNCHANGED <<users, author, shown, check, astray>>
  BY <1>1, <1>2 DEF ChangeName
<1>4. p \in Phones
  BY <1>1, <1>2, <1>3 DEF Account, Numbers
<1>5. a.name = v /\ a.phone = prefs[d].phone
  BY <1>2 DEF Account
<1> HIDE DEF a
<1>6. prefs'[d] = a /\ \A e \in Devices \ {d} : prefs'[e] = prefs[e]
  BY <1>2, <1>3
<1>7. ~ Open(d)'
  BY <1>0, <1>3 DEF Naming, FormShown, Open
<1>8. PICK w \in Writes : w = UpdateName(p, v) /\ NameWrite(w, p) /\ w.name = v
  <2> DEFINE u == UpdateName(p, v)
  <2>1. u \in Writes /\ NameWrite(u, p) /\ u.name = v
    BY <1>4 DEF Writes, NameWrite, UpdateName
  <2> HIDE DEF u
  <2>2. \E w \in Writes : w = u /\ NameWrite(w, p) /\ w.name = v
    BY <2>1
  <2> QED
    BY <2>2 DEF u
<1>9. Says(d, p, v)'
  BY <1>0, <1>3, <1>8, NamingWritten
<1>10. d \notin astray => prefs[d].phone = p
  BY <1>0, <1>1, <1>3, InnerUpToDate DEF SessionInv
<1>11. ShowsRight(d)'
  BY <1>3, <1>5, <1>6, <1>9, <1>10 DEF ShowsRight
<1>12. Naming(d)'
  BY <1>7, <1>11 DEF Naming, FormShown, AnswerRight
<1>13. \A e \in Devices \ {d} : outbox'[e] = outbox[e]
  BY <1>0, <1>3 DEF Enqueue, AccountInv, Types, QueuesTyped
<1> QED
  BY <1>0, <1>3, <1>6, <1>12, <1>13, NamingStays

-----------------------------------------------------------------------------
\* The server takes a device's oldest write.  If it was the last to name an
\* account, the server now says what the queue said; and another device has
\* nothing to say of the account any more.
LEMMA DeliverNames ==
    ASSUME NEW d \in Devices, NameInv, Deliver(d)
    PROVE  \A e \in Devices : Naming(e)'
<1> DEFINE w == Head(outbox[d])
<1>0. /\ AccountInv /\ \A e \in Devices : Naming(e)
      /\ AccountInv'
  BY DeliverKeepsAccounts DEF NameInv
<1>1. /\ outbox \in [Devices -> Seq(Writes)] /\ outbox[d] # << >>
      /\ outbox' = [outbox EXCEPT ![d] = Tail(@)]
      /\ users' = Apply(users, w)
      /\ author' = IF w.op # "updatePass" /\ w.phone \in DOMAIN users'
                   THEN SetDoc(author, w.phone, d) ELSE author
      /\ UNCHANGED deviceVars
  BY <1>0 DEF AccountInv, Types, QueuesTyped, Deliver
<1>2. /\ outbox'[d] = Tail(outbox[d]) /\ w \in Writes
      /\ \A e \in Devices \ {d} : outbox'[e] = outbox[e]
  BY <1>1
<1>3. /\ 1 \in DOMAIN outbox[d] /\ outbox[d][1] = w
      /\ \A k \in DOMAIN outbox'[d] :
            k \in Nat /\ k + 1 \in DOMAIN outbox[d] /\ outbox'[d][k] = outbox[d][k + 1]
      /\ \A k \in DOMAIN outbox[d] :
            k \in Nat /\ k >= 1 /\ (k # 1 => k - 1 \in DOMAIN outbox'[d])
  BY <1>1, <1>2
<1>4. /\ users \in Collections /\ DOMAIN author = DOMAIN users
      /\ DOMAIN author' = DOMAIN users'
  BY <1>0 DEF AccountInv, Types, ServerTyped
<1> HIDE DEF w
<1>5. ASSUME NEW p \in DOMAIN users'
      PROVE  /\ NameWrite(w, p) => users'[p].name = w.name /\ author'[p] = d
             /\ ~ NameWrite(w, p) =>
                   p \in DOMAIN users /\ users'[p].name = users[p].name /\ author'[p] = author[p]
  <2>1. CASE NameWrite(w, p)
    <3>1. users'[p].name = w.name
      BY <1>1, <1>2, <1>4, <2>1, ApplyNames
    <3>2. author' = SetDoc(author, w.phone, d) /\ w.phone = p
      BY <1>1, <2>1 DEF NameWrite
    <3>3. author'[p] = d
      BY <3>2 DEF SetDoc
    <3> QED
      BY <2>1, <3>1, <3>3
  <2>2. CASE ~ NameWrite(w, p)
    <3>1. p \in DOMAIN users /\ users'[p].name = users[p].name
      BY <1>1, <1>2, <1>4, <2>2, ApplyNames
    <3>2. CASE w.op # "updatePass" /\ w.phone \in DOMAIN users'
      <4>1. author' = SetDoc(author, w.phone, d)
        BY <1>1, <3>2
      <4>2. p # w.phone /\ p \in DOMAIN author
        BY <1>4, <2>2, <3>1, <3>2 DEF NameWrite
      <4>3. author'[p] = author[p]
        BY <4>1, <4>2 DEF SetDoc
      <4> QED
        BY <2>2, <3>1, <4>3
    <3>3. CASE ~ (w.op # "updatePass" /\ w.phone \in DOMAIN users')
      <4>1. author' = author
        BY <1>1, <3>3, Zenon
      <4> QED
        BY <2>2, <3>1, <4>1
    <3> QED
      BY <3>2, <3>3
  <2> QED
    BY <2>1, <2>2
<1>6. ASSUME NEW e \in Devices, e # d, NEW p, NEW n, Says(e, p, n)
      PROVE  Says(e, p, n)'
  <2>1. outbox'[e] = outbox[e]
    BY <1>2, <1>6
  <2>2. SaysQueued(outbox'[e], p, n)
    BY <1>6, <2>1 DEF Says
  <2>3. SaysServed(e, p, n)'
    <3> SUFFICES ASSUME \A k \in DOMAIN outbox'[e] : ~ NameWrite(outbox'[e][k], p),
                        p \in DOMAIN users', author'[p] = e
                 PROVE  users'[p].name = n
      BY DEF SaysServed
    <3>1. ~ NameWrite(w, p)
      BY <1>5, <1>6
    <3> QED
      BY <1>5, <1>6, <2>1, <3>1 DEF Says, SaysServed
  <2> QED
    BY <2>2, <2>3 DEF Says
<1>7. ASSUME NEW p, NEW n, Says(d, p, n)
      PROVE  Says(d, p, n)'
  <2>1. SaysQueued(outbox'[d], p, n)
    <3> SUFFICES ASSUME NEW k \in DOMAIN outbox'[d], LastNaming(outbox'[d], p, k)
                 PROVE  outbox'[d][k].name = n
      BY DEF SaysQueued
    <3>1. k \in Nat /\ k + 1 \in DOMAIN outbox[d] /\ outbox'[d][k] = outbox[d][k + 1]
      BY <1>3
    <3>2. ASSUME NEW j \in DOMAIN outbox[d], NameWrite(outbox[d][j], p)
          PROVE  j <= k + 1
      <4>1. CASE j = 1
        BY <3>1, <4>1
      <4>2. CASE j # 1
        <5>1. j - 1 \in DOMAIN outbox'[d] /\ j \in Nat
          BY <1>3, <4>2
        <5>2. outbox'[d][j - 1] = outbox[d][(j - 1) + 1] /\ (j - 1) + 1 = j
          BY <1>3, <5>1
        <5>3. j - 1 <= k
          BY <3>2, <5>1, <5>2 DEF LastNaming
        <5> QED
          BY <3>1, <5>1, <5>3
      <4> QED
        BY <4>1, <4>2
    <3>3. LastNaming(outbox[d], p, k + 1)
      BY <3>1, <3>2 DEF LastNaming
    <3> QED
      BY <1>7, <3>1, <3>3 DEF Says, SaysQueued
  <2>2. SaysServed(d, p, n)'
    <3> SUFFICES ASSUME \A k \in DOMAIN outbox'[d] : ~ NameWrite(outbox'[d][k], p),
                        p \in DOMAIN users', author'[p] = d
                 PROVE  users'[p].name = n
      BY DEF SaysServed
    <3>1. ASSUME NEW j \in DOMAIN outbox[d], j # 1
          PROVE  ~ NameWrite(outbox[d][j], p)
      <4>1. j - 1 \in DOMAIN outbox'[d] /\ j \in Nat
        BY <1>3, <3>1
      <4>2. outbox'[d][j - 1] = outbox[d][(j - 1) + 1] /\ (j - 1) + 1 = j
        BY <1>3, <4>1
      <4> QED
        BY <4>1, <4>2
    <3>2. CASE NameWrite(w, p)
      <4>1. \A j \in DOMAIN outbox[d] : NameWrite(outbox[d][j], p) => j <= 1
        BY <3>1
      <4>2. LastNaming(outbox[d], p, 1)
        BY <1>3, <3>2, <4>1 DEF LastNaming
      <4>3. w.name = n
        BY <1>3, <1>7, <4>2 DEF Says, SaysQueued
      <4> QED
        BY <1>5, <3>2, <4>3
    <3>3. CASE ~ NameWrite(w, p)
      <4>1. \A j \in DOMAIN outbox[d] : ~ NameWrite(outbox[d][j], p)
        BY <1>3, <3>1, <3>3
      <4> QED
        BY <1>5, <1>7, <3>3, <4>1 DEF Says, SaysServed
    <3> QED
      BY <3>2, <3>3
  <2> QED
    BY <2>1, <2>2 DEF Says
<1>8. ASSUME NEW e \in Devices, NEW p, NEW n, Says(e, p, n)
      PROVE  Says(e, p, n)'
  BY <1>6, <1>7, <1>8
<1>9. ASSUME NEW e \in Devices
      PROVE  Naming(e)'
  <2>1. Naming(e) /\ UNCHANGED <<check, prefs, shown, astray>>
    BY <1>0, <1>1 DEF deviceVars
  <2>2. ShowsRight(e)'
    BY <1>8, <2>1 DEF Naming, ShowsRight
  <2>3. FormShown(e)'
    BY <2>1 DEF Naming, FormShown, Open
  <2>4. AnswerRight(e)'
    BY <1>8, <2>1 DEF Naming, AnswerRight, Open
  <2> QED
    BY <2>2, <2>3, <2>4 DEF Naming
<1> QED
  BY <1>9

LEMMA NextNames == NameInv /\ [Next]_vars => NameInv'
<1> SUFFICES ASSUME NameInv, [Next]_vars
             PROVE  NameInv'
  OBVIOUS
<1>1. AccountInv' /\ SessionInv'
  BY NextAccounts, NextSession DEF NameInv
<1>2. CASE UNCHANGED vars
  <2> SUFFICES ASSUME NEW d \in Devices
               PROVE  Naming(d)'
    BY <1>1 DEF NameInv
  <2>1. Naming(d) /\ UNCHANGED <<users, author, outbox, prefs, shown, check, astray>>
    BY <1>2 DEF NameInv, vars
  <2>2. ShowsRight(d)' /\ FormShown(d)' /\ AnswerRight(d)'
    BY <2>1, SaysReads DEF Naming, ShowsRight, FormShown, AnswerRight, Open
  <2> QED
    BY <2>2 DEF Naming
<1>3. CASE Next
  <2>1. PICK d \in Devices :
           \/ Frame(d)
           \/ NavTapped(d) \/ ProfileTapped(d) \/ (\E p \in {"auth", "reg"} : LinkTapped(d, p))
           \/ InnerTapped(d) \/ BackTapped(d)
           \/ (\E f \in Form : Type(d, f))
           \/ Ask(d) \/ AskReset(d) \/ Reply(d) \/ Fail(d) \/ Refuse(d)
           \/ Register(d) \/ LogIn(d) \/ LogOut(d)
           \/ (\E w \in Words : ChangeName(d, w))
           \/ ChangeAdress(d)
           \/ (\E w \in Words : ChangePass(d, w)) \/ (\E w \in Words : ResetPass(d, w))
           \/ Deliver(d)
    BY <1>3 DEF Next
  <2>2. ASSUME NavTapped(d) \/ ProfileTapped(d) \/ (\E p \in {"auth", "reg"} : LinkTapped(d, p))
               \/ InnerTapped(d) \/ BackTapped(d)
        PROVE  \E p : Turn(d, p)
    BY <2>2 DEF NavTapped, ProfileTapped, LinkTapped, InnerTapped, BackTapped
  <2>3. \A e \in Devices : Naming(e)'
    BY <2>1, <2>2, FrameNames, TurnNames, TypeNames, AskNames, ReplyNames, EndNames, RegisterNames,
       LogInNames, LogOutNames, ChangeNameNames, ChangeAdressNames, ChangePassNames, DeliverNames
  <2> QED
    BY <1>1, <2>3 DEF NameInv
<1> QED
  BY <1>2, <1>3

THEOREM NameInvHolds == Spec => []NameInv
  BY InitNames, NextNames, PTL DEF Spec

\* On any number of devices, and whatever the others register and change: when
\* everything has been sent, the device that gave an account its present name
\* shows that name, if it is still logged in to the account.
THEOREM AlwaysAuthorShowsTheName == Spec => []AuthorShowsTheName
<1>1. NameInv => AuthorShowsTheName
  <2> SUFFICES ASSUME NameInv, \A d \in Devices : outbox[d] = << >>, NEW p \in DOMAIN users,
                      prefs[author[p]].phone = p, author[p] \notin astray
               PROVE  prefs[author[p]].name = users[p].name
    BY DEF AuthorShowsTheName
  <2>1. users \in Collections /\ DOMAIN author = DOMAIN users /\ author[p] \in Devices
    BY DEF NameInv, AccountInv, Types, ServerTyped
  <2>2. p # Nobody
    BY <2>1, CollectionFacts, NobodyAssumption
  <2>3. Says(author[p], p, prefs[author[p]].name)
    BY <2>1, <2>2 DEF NameInv, Naming, ShowsRight
  <2>4. \A k \in DOMAIN outbox[author[p]] : ~ NameWrite(outbox[author[p]][k], p)
    BY <2>1
  <2> QED
    BY <2>3, <2>4 DEF Says, SaysServed
<1> QED
  BY <1>1, NameInvHolds, PTL

=============================================================================
