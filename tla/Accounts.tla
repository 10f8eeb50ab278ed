------------------------------- MODULE Accounts -------------------------------
(***************************************************************************)
(* Accounts: the collection 'users', the account a device is logged in to, *)
(* and the pages that change either (reg.dart, auth.dart, profile.dart,    *)
(* admin_profile.dart, my_data.dart, shared_data.dart).                    *)
(*                                                                         *)
(* A device keeps its account twice: in the preferences, which the setters *)
(* of SharedData change, and in SharedData's statics, which initName loads *)
(* from the preferences when a page gets a new State.  Once the            *)
(* preferences are loaded, setters and initName are chains of microtasks:  *)
(* they end before the next tap, answer or frame.                          *)
(*                                                                         *)
(* Registration and login ask Firestore about a phone and go on when the   *)
(* answer arrives, with what the form holds then, shown or not.            *)
(*                                                                         *)
(* What people type is abstracted: a word of People stands for a name, an  *)
(* email or a password.  The delivery address stands for what is kept on   *)
(* the device only; it is named by the account it was entered under.       *)
(***************************************************************************)
EXTENDS Naturals, Sequences, SequencesExt

CONSTANTS Devices,
          Phones,           \* what an account is filed under
          People,
          Nobody,           \* the empty string
          MaxQueue          \* bound: writes a device holds back

ASSUME NobodyAssumption == Nobody \notin Phones \cup People
ASSUME MaxQueueAssumption == MaxQueue \in Nat \ {0}

VARIABLES
    users,      \* server: documents of 'users'
    author,     \* server: the device whose write gave an account its name
    outbox,     \* per device, the writes not yet acknowledged
    prefs,      \* per device, name, phone and adress in the preferences
    statics,    \* per device, SharedData's statics
    page,       \* per device, currentPageIndex
    shown,      \* per device, the page whose State is on the screen
    form,       \* per device, the form of the State of Auth or Reg shown
    check,      \* per device, the question to Firestore under way
    astray      \* devices on which something came in between, see Stray

deviceVars == <<prefs, statics, page, shown, form, check, astray>>
vars == <<users, author, outbox, prefs, statics, page, shown, form, check, astray>>

Pages == {"elsewhere", "reg", "auth", "profile", "inner"}

Words   == People \cup {Nobody}
Numbers == Phones \cup {Nobody}

User    == [name : Words, pass : Words]
Account == [name : Words, phone : Numbers, adress : Numbers]
Form    == [phone : Numbers, word : Words]

NoAccount == [name |-> Nobody, phone |-> Nobody, adress |-> Nobody]
BlankForm == [phone |-> Nobody, word |-> Nobody]
NoCheck   == [kind |-> "none"]

-----------------------------------------------------------------------------
\* The writes the application issues.
SetUser(p, w)    == [op |-> "setUser", phone |-> p, name |-> w, pass |-> w]
UpdateName(p, w) == [op |-> "updateName", phone |-> p, name |-> w]
UpdatePass(p, w) == [op |-> "updatePass", phone |-> p, pass |-> w]

SetDoc(docs, id, doc) ==
    [k \in DOMAIN docs \cup {id} |-> IF k = id THEN doc ELSE docs[k]]

\* What a write does to the collection.
Apply(docs, w) ==
    CASE w.op = "setUser" -> SetDoc(docs, w.phone, [name |-> w.name, pass |-> w.pass])
      [] w.op = "updateName" /\ w.phone \in DOMAIN docs ->
            [docs EXCEPT ![w.phone].name = w.name]
      [] w.op = "updatePass" /\ w.phone \in DOMAIN docs ->
            [docs EXCEPT ![w.phone].pass = w.pass]
      [] OTHER -> docs

\* The collection as a device sees it: the server's, its own writes applied.
View(d) == FoldLeft(Apply, users, outbox[d])

Enqueue(d, w) ==
    /\ Len(outbox[d]) < MaxQueue
    /\ outbox' = [outbox EXCEPT ![d] = Append(@, w)]

-----------------------------------------------------------------------------
Init ==
    /\ users = << >> /\ author = << >>
    /\ outbox = [d \in Devices |-> << >>]
    /\ prefs = [d \in Devices |-> NoAccount]
    /\ statics = [d \in Devices |-> NoAccount]
    /\ page = [d \in Devices |-> "elsewhere"]
    /\ shown = [d \in Devices |-> "elsewhere"]
    /\ form = [d \in Devices |-> BlankForm]
    /\ check = [d \in Devices |-> NoCheck]
    /\ astray = {}

\* For the properties: the devices on which an account was logged in to over
\* another one, a login's phone was changed while it was checked, or a tap or
\* an answer came between a change of the account and the next frame.
Stray(d, cond) == astray' = IF cond THEN astray \cup {d} ELSE astray

Behind(d) == statics[d] # prefs[d]

\* Handlers ask for a page, which the next frame shows.
Go(d, p) == page' = [page EXCEPT ![d] = p]

\* Faulty variant, for the check of the properties: the profile does not call initName.
InitNameForgotten(d) ==
    \/ /\ page[d] \in {"reg", "auth", "elsewhere"}
       /\ statics' = [statics EXCEPT ![d] = prefs[d]]
    \/ /\ page[d] \in {"inner", "profile", "elsewhere"}
       /\ UNCHANGED statics

\* initState of the page that is shown next; of the other pages some call
\* initName and some do not, the pages inside the profile do not.
InitNameAtFrame(d) ==
    \/ /\ page[d] \in {"reg", "auth", "profile", "elsewhere"}
       /\ statics' = [statics EXCEPT ![d] = prefs[d]]
    \/ /\ page[d] \in {"inner", "elsewhere"}
       /\ UNCHANGED statics

\* The next frame: the page gets a new State.  A check under way keeps the
\* form of the State that asked.
Frame(d) ==
    /\ page[d] # shown[d]
    /\ shown' = [shown EXCEPT ![d] = page[d]]
    /\ InitNameAtFrame(d)
    /\ form' = [form EXCEPT ![d] = BlankForm]
    /\ check' = IF check[d] # NoCheck /\ check[d].live
                THEN [check EXCEPT ![d].live = FALSE, ![d].form = form[d]]
                ELSE check
    /\ UNCHANGED <<users, author, outbox, prefs, page, astray>>

-----------------------------------------------------------------------------
\* Taps that only ask for a page: the bottom bar, the two links under the
\* forms, the buttons of the profile and the way back to it.
Turn(d, p) ==
    /\ Go(d, p)
    /\ Stray(d, Behind(d))
    /\ UNCHANGED <<users, author, outbox, prefs, statics, shown, form, check>>

NavTapped(d)     == Turn(d, "elsewhere")
ProfileTapped(d) == Turn(d, IF statics[d].name = Nobody THEN "auth" ELSE "profile")
LinkTapped(d, p) == shown[d] \in {"auth", "reg"} /\ Turn(d, p)
InnerTapped(d)   == shown[d] = "profile" /\ Turn(d, "inner")
BackTapped(d)    == shown[d] = "inner" /\ Turn(d, "profile")

\* Typing into the form.
Type(d, f) ==
    /\ shown[d] \in {"auth", "reg"}
    /\ f # form[d]
    /\ form' = [form EXCEPT ![d] = f]
    /\ UNCHANGED <<users, author, outbox, prefs, statics, page, shown, check, astray>>

\* Firestore is asked for the document of the form's phone.  One question at a
\* time is under way.
AskAbout(d, kind) ==
    /\ form[d].phone # Nobody
    /\ check[d] = NoCheck
    /\ check' = [check EXCEPT ![d] =
                    [kind |-> kind, phone |-> form[d].phone, live |-> TRUE,
                     form |-> BlankForm, reply |-> "waiting"]]
    /\ UNCHANGED <<users, author, outbox, prefs, statics, page, shown, form, astray>>

\* The button of Reg or Auth, with a form that is complete.
Ask(d) ==
    /\ shown[d] \in {"auth", "reg"}
    /\ form[d].word # Nobody
    /\ AskAbout(d, shown[d])

\* "Forgotten password", a dialog of Auth that shares the form's phone.
AskReset(d) == shown[d] = "auth" /\ AskAbout(d, "reset")

\* Firestore reads the document, or fails: then the handler ends by rethrow.
Reply(d) ==
    /\ check[d] # NoCheck /\ check[d].reply = "waiting"
    /\ LET seen == View(d)
           p    == check[d].phone
       IN  check' = [check EXCEPT ![d] =
                IF p \in DOMAIN seen
                THEN [kind |-> @.kind, phone |-> p, live |-> @.live, form |-> @.form,
                      reply |-> "found", doc |-> seen[p]]
                ELSE [@ EXCEPT !.reply = "free"]]
    /\ UNCHANGED <<users, author, outbox, prefs, statics, page, shown, form, astray>>

Fail(d) ==
    /\ check[d] # NoCheck /\ check[d].reply = "waiting"
    /\ check' = [check EXCEPT ![d] = NoCheck]
    /\ UNCHANGED <<users, author, outbox, prefs, statics, page, shown, form, astray>>

\* What the fields of the State that asked hold now.
FormNow(d) == IF check[d].live THEN form[d] ELSE check[d].form

\* The answer arrives.
Answered(d, kind, replies) ==
    /\ check[d] # NoCheck /\ check[d].kind = kind /\ check[d].reply \in replies
    /\ check' = [check EXCEPT ![d] = NoCheck]

\* The device is logged in and its profile asked for.
Enter(d, name, phone) ==
    /\ prefs' = [prefs EXCEPT ![d].name = name, ![d].phone = phone]
    /\ Go(d, "profile")

\* Faulty variant, for the check of the properties: the phone is not looked at again.
RegisterAnyPhone(d) ==
    LET f == FormNow(d)
    IN  /\ Answered(d, "reg", {"free"})
        /\ Enqueue(d, SetUser(f.phone, f.word))
        /\ Enter(d, f.word, f.phone)
        /\ Stray(d, prefs[d].phone # Nobody \/ Behind(d))
        /\ UNCHANGED <<users, author, statics, shown, form>>

\* Faulty variant, for the check of the properties: the account is filed under the
\* phone that was asked about.
RegisterAsked(d) ==
    LET f == FormNow(d)
    IN  /\ Answered(d, "reg", {"free"})
        /\ f.phone # Nobody
        /\ Enqueue(d, SetUser(check[d].phone, f.word))
        /\ Enter(d, f.word, f.phone)
        /\ Stray(d, prefs[d].phone # Nobody \/ Behind(d))
        /\ UNCHANGED <<users, author, statics, shown, form>>

\* Registration of a free phone: the account is what the form holds now.
\* With an empty phone, doc throws before anything is changed.
Register(d) ==
    LET f == FormNow(d)
    IN  /\ Answered(d, "reg", {"free"})
        /\ f.phone # Nobody
        /\ Enqueue(d, SetUser(f.phone, f.word))
        /\ Enter(d, f.word, f.phone)
        /\ Stray(d, prefs[d].phone # Nobody \/ Behind(d))
        /\ UNCHANGED <<users, author, statics, shown, form>>

\* Login with the right password: the name comes from the answer, the phone
\* from the form.
LogIn(d) ==
    LET f == FormNow(d)
    IN  /\ Answered(d, "auth", {"found"})
        /\ check[d].doc.pass = f.word
        /\ Enter(d, check[d].doc.name, f.phone)
        /\ Stray(d, ~ check[d].live \/ f.phone # check[d].phone
                    \/ prefs[d].phone # Nobody \/ Behind(d))
        /\ UNCHANGED <<users, author, outbox, statics, shown, form>>

\* The new password goes to the phone the field holds now.
ResetPass(d, w) ==
    /\ Answered(d, "reset", {"found"})
    /\ FormNow(d).phone # Nobody
    /\ Enqueue(d, UpdatePass(FormNow(d).phone, w))
    /\ UNCHANGED <<users, author, prefs, statics, page, shown, form, astray>>

\* Every other answer only changes the text under the form, or throws.
Refuse(d) ==
    /\ \/ Answered(d, "reg", {"found"})
       \/ Answered(d, "reg", {"free"}) /\ FormNow(d).phone = Nobody
       \/ Answered(d, "auth", {"free"})
       \/ Answered(d, "auth", {"found"}) /\ check[d].doc.pass # FormNow(d).word
       \/ Answered(d, "reset", {"free"})
       \/ Answered(d, "reset", {"found"}) /\ FormNow(d).phone = Nobody
    /\ UNCHANGED <<users, author, outbox, prefs, statics, page, shown, form, astray>>

-----------------------------------------------------------------------------
\* Faulty variant, for the check of the properties: the address stays in the preferences.
LogOutKeepingAdress(d) ==
    /\ shown[d] = "profile"
    /\ prefs' = [prefs EXCEPT ![d].name = Nobody, ![d].phone = Nobody]
    /\ Go(d, "auth")
    /\ UNCHANGED <<users, author, outbox, statics, shown, form, check, astray>>

\* exitUser empties the preferences and leaves the statics.
LogOut(d) ==
    /\ shown[d] = "profile"
    /\ prefs' = [prefs EXCEPT ![d] = NoAccount]
    /\ Go(d, "auth")
    /\ UNCHANGED <<users, author, outbox, statics, shown, form, check, astray>>

\* Faulty variant, for the check of the properties: the preferences keep the old name.
ChangeNameUnsaved(d, w) ==
    /\ shown[d] = "inner"
    /\ statics[d].phone # Nobody
    /\ Enqueue(d, UpdateName(statics[d].phone, w))
    /\ statics' = [statics EXCEPT ![d].name = w]
    /\ UNCHANGED <<users, author, prefs, page, shown, form, check, astray>>

\* "My data": the account's document is found by the static phone; with an
\* empty one, doc throws before anything is changed.
ChangeName(d, w) ==
    /\ shown[d] = "inner"
    /\ statics[d].phone # Nobody
    /\ Enqueue(d, UpdateName(statics[d].phone, w))
    /\ prefs' = [prefs EXCEPT ![d].name = w]
    /\ statics' = [statics EXCEPT ![d].name = w]
    /\ UNCHANGED <<users, author, page, shown, form, check, astray>>

ChangePass(d, w) ==
    /\ shown[d] = "inner"
    /\ statics[d].phone # Nobody
    /\ Enqueue(d, UpdatePass(statics[d].phone, w))
    /\ UNCHANGED <<users, author, deviceVars>>

\* The address is kept on the device, with or without an account.
ChangeAdress(d) ==
    /\ shown[d] = "inner"
    /\ prefs' = [prefs EXCEPT ![d].adress = statics[d].phone]
    /\ statics' = [statics EXCEPT ![d].adress = statics[d].phone]
    /\ UNCHANGED <<users, author, outbox, page, shown, form, check, astray>>

\* The server takes the oldest write of a device.
Deliver(d) ==
    /\ outbox[d] # << >>
    /\ LET w == Head(outbox[d])
       IN  /\ users' = Apply(users, w)
           /\ author' = IF w.op # "updatePass" /\ w.phone \in DOMAIN users'
                        THEN SetDoc(author, w.phone, d) ELSE author
    /\ outbox' = [outbox EXCEPT ![d] = Tail(@)]
    /\ UNCHANGED deviceVars

Next ==
    \E d \in Devices :
        \/ Frame(d)
        \/ NavTapped(d)
        \/ ProfileTapped(d)
        \/ \E p \in {"auth", "reg"} : LinkTapped(d, p)
        \/ InnerTapped(d)
        \/ BackTapped(d)
        \/ \E f \in Form : Type(d, f)
        \/ Ask(d)
        \/ AskReset(d)
        \/ Reply(d)
        \/ Fail(d)
        \/ Register(d)
        \/ LogIn(d)
        \/ Refuse(d)
        \/ LogOut(d)
        \/ \E w \in Words : ChangeName(d, w)
        \/ \E w \in Words : ChangePass(d, w)
        \/ ChangeAdress(d)
        \/ \E w \in Words : ResetPass(d, w)
        \/ Deliver(d)

Spec == Init /\ [][Next]_vars

-----------------------------------------------------------------------------
\* The variables hold what their fields in the code can hold, and an account's
\* name has an author.
TypeOK ==
    /\ DOMAIN users \subseteq Phones /\ \A p \in DOMAIN users : users[p] \in User
    /\ DOMAIN author = DOMAIN users /\ \A p \in DOMAIN author : author[p] \in Devices
    /\ prefs \in [Devices -> Account] /\ statics \in [Devices -> Account]
    /\ page \in [Devices -> Pages] /\ shown \in [Devices -> Pages]
    /\ form \in [Devices -> Form]
    /\ \A d \in Devices : \A k \in DOMAIN outbox[d] : outbox[d][k].phone \in Phones
    /\ astray \subseteq Devices

\* Nobody awaits initName, and yet a drawn page agrees with the preferences.
StaticsFollow ==
    \A d \in Devices \ astray : page[d] = shown[d] => statics[d] = prefs[d]

\* The phone of a logged-in device names an account, on the server or in the
\* device's own queue, though the field it was typed in may have changed since
\* Firestore was asked about it.
AccountExists ==
    \A d \in Devices \ astray :
        prefs[d].phone # Nobody => prefs[d].phone \in DOMAIN View(d)

\* The delivery address that checkout fills in was entered under the account
\* the device is logged in to, although log-out, log-in and "my data" each
\* change only part of the preferences and the statics.
AdressIsTheAccounts ==
    \A d \in Devices \ astray : prefs[d].adress \in {Nobody, prefs[d].phone}

\* When everything has been sent, the device that gave an account its present
\* name shows that name, if it is still logged in to the account: other
\* devices' registrations and changes only ever outdate each other's.
AuthorShowsTheName ==
    (\A d \in Devices : outbox[d] = << >>) =>
        \A p \in DOMAIN users :
            prefs[author[p]].phone = p /\ author[p] \notin astray
                => prefs[author[p]].name = users[p].name
=============================================================================
