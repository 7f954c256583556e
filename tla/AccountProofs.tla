--------------------------- MODULE AccountProofs ---------------------------
(***************************************************************************)
(* Proofs about module Account, for any users, passwords and bounds:       *)
(*                                                                         *)
(*   AccountTypeCorrect   AccountTypeOK.  AccountShape adds what the types *)
(*                        rest on: the first screen is never dismissed,    *)
(*                        and what is under way belongs to a screen.       *)
(*   ListOnlyIfAccepted   ListMeansAccepted.  AcceptedSince relates the    *)
(*                        current user, the callbacks and the alert        *)
(*                        "registered" to the accepted users.              *)
(*   NoTapTraps           TapsNeverTrap.  SignedOut says which screens a   *)
(*                        signed-out user can reach, and that no callback  *)
(*                        under way opens another.                         *)
(*   AccountAndRowAgree   PasswordsAgree.  PasswordsInStep says what the   *)
(*                        account and the row will hold once the requests  *)
(*                        and the writes under way are answered.           *)
(*                                                                         *)
(* The steps of the specification are classified once, by what they do to  *)
(* the screens (UiChange), the requests (RequestChange), the main queue    *)
(* (QueueChange) and the current user (SessionChange); most proofs go      *)
(* through these cases and not through the actions.                        *)
(***************************************************************************)
EXTENDS Account, SeqLemmas

\* The first screen is the login screen, and it is never taken off the stack.
StackShape == stack[1] = 1 /\ screens[1].kind = "login"

\* The screens and their stack have the types AccountTypeOK gives them.
UiShape ==
    /\ screens \in Seq(Screen)
    /\ Len(screens) \in ScreenIds
    /\ stack \in Seq(DOMAIN screens)
    /\ stack # <<>>
    /\ StackShape

\* ss are the screens with some of their variables and alerts changed.
KeepsKinds(ss) ==
    /\ ss \in Seq(Screen)
    /\ Len(ss) = Len(screens)
    /\ DOMAIN ss = DOMAIN screens
    /\ \A s \in DOMAIN screens :
          /\ ss[s].kind = screens[s].kind
          /\ ss[s].kind = "list" => ss[s].email = screens[s].email

\* None of them newly says that a user was registered.
KeepsQuiet(ss) ==
    /\ KeepsKinds(ss)
    /\ \A s \in DOMAIN screens : ss[s].alert = "registered" => screens[s].alert = "registered"

\* There is always a visible screen: Dismiss never empties the stack.
LEMMA TopIsScreen ==
    ASSUME UiShape
    PROVE  /\ Top \in DOMAIN screens /\ Top \in ScreenIds
           /\ screens[Top] \in Screen
           /\ Len(stack) \in DOMAIN stack /\ Top = stack[Len(stack)]
           /\ DOMAIN screens = 1 .. Len(screens) /\ Len(screens) \in Nat /\ 1 \in DOMAIN screens
           /\ DOMAIN stack = 1 .. Len(stack) /\ Len(stack) \in Nat /\ Len(stack) >= 1
  <1>1. Len(stack) \in DOMAIN stack /\ Top = stack[Len(stack)] /\ Top \in DOMAIN screens
    BY LastSeq DEF UiShape, Top
  <1>2. DOMAIN screens = 1 .. Len(screens) /\ Len(screens) \in Nat
    BY LenProperties DEF UiShape
  <1>3. DOMAIN stack = 1 .. Len(stack) /\ Len(stack) \in Nat
    BY LenProperties DEF UiShape
  <1>4. Len(screens) \in 1 .. MaxScreens /\ MaxScreens \in Nat
    BY AccountAssumption DEF UiShape, ScreenIds
  <1>5. screens[Top] \in Screen
    BY <1>1, ElementOfSeq, <1>2 DEF UiShape
  <1> QED
    BY <1>1, <1>2, <1>3, <1>4, <1>5 DEF ScreenIds

\* An assignment to the variables or the alert of one screen.
LEMMA ScreenEdited ==
    ASSUME UiShape, NEW ss, KeepsQuiet(ss), NEW t, NEW s,
           t \in DOMAIN screens =>
              /\ s \in Screen /\ s.kind = screens[t].kind
              /\ s.kind = "list" => s.email = screens[t].email
              /\ s.alert = "registered" => screens[t].alert = "registered"
    PROVE  KeepsQuiet([ss EXCEPT ![t] = s])
  <1> DEFINE new == [ss EXCEPT ![t] = s]
  <1>1. ss \in [1 .. Len(screens) -> Screen] /\ Len(screens) \in Nat /\ DOMAIN screens = 1 .. Len(screens)
    BY LenProperties DEF UiShape, KeepsQuiet, KeepsKinds
  <1>2. new \in [1 .. Len(screens) -> Screen]
    BY <1>1
  <1>3. new \in Seq(Screen) /\ Len(new) = Len(screens) /\ DOMAIN new = DOMAIN screens
    BY <1>1, <1>2
  <1>4. ASSUME NEW i \in DOMAIN screens
        PROVE  /\ new[i].kind = screens[i].kind
               /\ new[i].kind = "list" => new[i].email = screens[i].email
               /\ new[i].alert = "registered" => screens[i].alert = "registered"
    <2>1. CASE i = t
      BY <1>1, <2>1
    <2>2. CASE i # t
      BY <1>1, <2>2 DEF KeepsQuiet, KeepsKinds
    <2> QED
      BY <2>1, <2>2
  <1> QED
    BY <1>3, <1>4 DEF KeepsQuiet, KeepsKinds

\* The screens as they are.
LEMMA ScreensKeepQuiet ==
    ASSUME UiShape
    PROVE  KeepsQuiet(screens)
  BY LenProperties DEF UiShape, KeepsKinds, KeepsQuiet

\* present(alert) and its OK button change the visible screen's alert only.
LEMMA AlertKeepsQuiet ==
    ASSUME UiShape, NEW a \in {"none", "error", "wrong", "rename", "logout", "updated"}
    PROVE  KeepsQuiet(WithAlert(a)) /\ WithAlert(a)[Top] = [screens[Top] EXCEPT !.alert = a]
  <1> DEFINE s == [screens[Top] EXCEPT !.alert = a]
  <1>1. screens[Top] \in Screen /\ Top \in DOMAIN screens
    BY TopIsScreen
  <1>2. s \in Screen /\ s.kind = screens[Top].kind /\ s.alert # "registered" /\ s.email = screens[Top].email
    BY <1>1 DEF Screen
  <1>3. WithAlert(a) = [screens EXCEPT ![Top] = s]
    BY DEF WithAlert
  <1>4. WithAlert(a)[Top] = s
    BY <1>1, <1>3 DEF UiShape
  <1> HIDE DEF s
  <1>5. KeepsQuiet([screens EXCEPT ![Top] = s])
    BY <1>2, ScreenEdited, ScreensKeepQuiet
  <1> QED
    BY <1>3, <1>4, <1>5 DEF s

\* The alert of a registration is the only one that changes what follows.
LEMMA RegisteredKeepsKinds ==
    ASSUME UiShape
    PROVE  /\ KeepsKinds(WithAlert("registered"))
           /\ \A s \in DOMAIN screens \ {Top} : WithAlert("registered")[s] = screens[s]
  <1> DEFINE s == [screens[Top] EXCEPT !.alert = "registered"]
             new == [screens EXCEPT ![Top] = s]
  <1>1. screens[Top] \in Screen /\ Top \in DOMAIN screens
    BY TopIsScreen
  <1>2. s \in Screen /\ s.kind = screens[Top].kind /\ s.email = screens[Top].email
    BY <1>1 DEF Screen
  <1>3. screens \in [1 .. Len(screens) -> Screen] /\ Len(screens) \in Nat /\ DOMAIN screens = 1 .. Len(screens)
    BY LenProperties DEF UiShape
  <1>4. new \in [1 .. Len(screens) -> Screen]
    BY <1>2, <1>3
  <1>5. new \in Seq(Screen) /\ Len(new) = Len(screens) /\ DOMAIN new = DOMAIN screens
    BY <1>3, <1>4
  <1>6. \A i \in DOMAIN screens : new[i].kind = screens[i].kind /\ new[i].email = screens[i].email
    BY <1>2, <1>3
  <1>7. WithAlert("registered") = new
    BY DEF WithAlert
  <1> HIDE DEF new
  <1>8. KeepsKinds(new)
    BY <1>5, <1>6 DEF KeepsKinds
  <1> QED
    BY <1>7, <1>8 DEF new

\* A screen instantiated from the storyboard.
LEMMA NewScreenTyped ==
    ASSUME NEW kind \in Kind
    PROVE  NewScreen(kind) \in Screen /\ NewScreen(kind).kind = kind
  BY DEF NewScreen, Screen

\* Editing screens keeps the types of the screens and the stack.
LEMMA EditShape ==
    ASSUME UiShape, NEW ss, KeepsKinds(ss), screens' = ss, stack' = stack
    PROVE  UiShape' /\ DOMAIN screens' = DOMAIN screens
  BY TopIsScreen DEF UiShape, StackShape, KeepsKinds

\* present(viewController): the new screen is the visible one.
LEMMA PushShape ==
    ASSUME UiShape, NEW ss, KeepsKinds(ss), NEW s \in Screen, Present(ss, s)
    PROVE  /\ UiShape' /\ DOMAIN screens \subseteq DOMAIN screens'
           /\ DOMAIN screens' = DOMAIN screens \cup {Len(screens) + 1}
           /\ Len(stack') = Len(stack) + 1
           /\ stack'[Len(stack) + 1] = Len(screens) + 1
           /\ \A i \in DOMAIN stack : stack'[i] = stack[i]
           /\ \A i \in DOMAIN screens : screens'[i] = ss[i]
           /\ screens'[Len(screens) + 1] = s
  <1> DEFINE n == Len(screens) + 1
  <1>1. /\ Len(screens) \in Nat /\ DOMAIN screens = 1 .. Len(screens) /\ 1 \in DOMAIN screens
        /\ Len(stack) \in Nat /\ 1 \in DOMAIN stack /\ DOMAIN stack = 1 .. Len(stack)
    BY TopIsScreen
  <1>2. /\ screens' = Append(ss, s)
        /\ stack' = Append(stack, n)
        /\ Len(screens) < MaxScreens
    BY DEF Present, KeepsKinds
  <1>3. /\ screens' \in Seq(Screen)
        /\ Len(screens') = n
        /\ DOMAIN screens' = 1 .. n
        /\ \A i \in DOMAIN screens : screens'[i] = ss[i]
        /\ screens'[n] = s
    BY <1>2, AppendSeq DEF KeepsKinds
  <1>4. DOMAIN screens' = DOMAIN screens \cup {n}
    BY <1>1, <1>3
  <1>5. stack \in Seq(DOMAIN screens')
    BY <1>4 DEF UiShape
  <1>6. n \in DOMAIN screens'
    BY <1>4
  <1>7. /\ stack' \in Seq(DOMAIN screens')
        /\ Len(stack') = Len(stack) + 1
        /\ \A i \in DOMAIN stack : stack'[i] = stack[i]
        /\ stack'[Len(stack) + 1] = n
    BY <1>2, <1>5, <1>6, AppendSeq
  <1>8. stack' # <<>>
    BY <1>1, <1>7, EmptySeq
  <1>9. Len(screens') \in ScreenIds
    BY <1>1, <1>2, <1>3, AccountAssumption DEF ScreenIds
  <1>10. StackShape'
    BY <1>1, <1>3, <1>7 DEF UiShape, StackShape, KeepsKinds
  <1> QED
    BY <1>3, <1>4, <1>7, <1>8, <1>9, <1>10 DEF UiShape

\* dismiss: the screen below is the visible one, and the first one stays.
LEMMA PopShape ==
    ASSUME UiShape, NEW kind \in {"registration", "profile", "changePassword"}, Dismiss(kind)
    PROVE  /\ UiShape' /\ DOMAIN screens' = DOMAIN screens
           /\ KeepsQuiet(screens')
           /\ Len(stack) > 1 /\ Len(stack') = Len(stack) - 1
           /\ \A i \in 1 .. (Len(stack) - 1) : stack'[i] = stack[i]
  <1>1. /\ Top \in DOMAIN screens /\ Top = stack[Len(stack)]
        /\ screens[Top].kind = kind /\ stack' = Front(stack)
        /\ screens' = IF kind = "registration" THEN screens
                      ELSE [screens EXCEPT ![Top] = NewScreen(kind)]
    BY TopIsScreen DEF Dismiss, Tappable, Shows
  <1>2. NewScreen(kind) \in Screen /\ NewScreen(kind).kind = kind /\ NewScreen(kind).alert = "none"
    BY NewScreenTyped DEF NewScreen, Kind
  <1>3. KeepsQuiet(screens')
    BY <1>1, <1>2, ScreenEdited, ScreensKeepQuiet
  <1>4. PICK n \in Nat : n = Len(stack) /\ n > 1
    <2>1. PICK n \in Nat : n = Len(stack) /\ n >= 1
      BY TopIsScreen
    <2>2. n # 1
      BY <1>1, <2>1 DEF UiShape, StackShape
    <2> QED
      BY <2>1, <2>2
  <1>5. /\ Front(stack) \in Seq(DOMAIN screens)
        /\ Len(Front(stack)) = n - 1
        /\ \A j \in 1 .. (n - 1) : Front(stack)[j] = stack[j]
    BY <1>4, FrontSeq DEF UiShape
  <1>6. stack' # <<>> /\ stack'[1] = 1
    BY <1>1, <1>4, <1>5, EmptySeq DEF UiShape, StackShape
  <1>7. UiShape'
    BY <1>1, <1>3, <1>5, <1>6, TopIsScreen DEF UiShape, StackShape, KeepsQuiet, KeepsKinds
  <1> QED
    BY <1>1, <1>3, <1>4, <1>5, <1>7 DEF KeepsQuiet, KeepsKinds

-----------------------------------------------------------------------------

\* The events a request or a write leaves on the main queue.
Event == SignedIn \cup Created \cup Renamed \cup Value

\* A callback that tells of an accepted log in or registration.
Accepted(e) == e.type = "create" \/ (e.type = "signIn" /\ e.ok)

\* What is under way belongs to a screen that exists.
RequestShape ==
    /\ requests \in Seq(Request)
    /\ \A i \in DOMAIN requests : requests[i].screen \in DOMAIN screens
\* The callbacks on the main queue, those of requests belonging to a screen.
QueueShape ==
    /\ mainQueue \in Seq(Event)
    /\ \A i \in DOMAIN mainQueue :
          mainQueue[i].type \in {"signIn", "create"} => mainQueue[i].screen \in DOMAIN screens
\* The unanswered calls to the database.
DatabaseShape ==
    /\ writes \in Seq(Write)
    /\ reads \in Seq([screen : ScreenIds, user : User])
FlightShape == RequestShape /\ QueueShape /\ DatabaseShape

\* The variables that are neither screens nor queues.
ScalarShape ==
    /\ hud \in BOOLEAN
    /\ currentUser \in User \cup {NoUser}
    /\ session \in Nat
    /\ issued \in 0 .. MaxRequests
    /\ written \in 0 .. MaxWrites
    /\ asked \in 0 .. MaxReads
    /\ password \in [User -> Password \cup {None}]
    /\ row \in [User -> Row]
    /\ trap \in {"none", "list", "profile", "changePassword", "update", "rename",
                 "created", "renamed"}
    /\ kills \in 0 .. MaxKills
    /\ accepted \subseteq User
    /\ forced \in BOOLEAN
    /\ parted \subseteq User

\* The inductive invariant behind AccountTypeOK.
AccountShape == UiShape /\ FlightShape /\ ScalarShape

\* How a step changes the screens: a screen is edited, pushed or dismissed, or
\* the app starts again.
Edited == KeepsQuiet(screens') /\ stack' = stack
Pushed(s) == \E ss : KeepsQuiet(ss) /\ Present(ss, s)
ListScreen == [NewScreen("list") EXCEPT !.email = currentUser]
MayOpenList ==
    \/ screens[Top].alert = "registered"
    \/ mainQueue # <<>> /\ Accepted(Head(mainQueue)) /\ CanPresent(Head(mainQueue).screen)
UiChange ==
    \/ Edited
    \/ HandleCreated
    \/ Pushed(NewScreen("login"))
    \/ Pushed(NewScreen("registration"))
    \/ currentUser # NoUser /\ Pushed(NewScreen("profile"))
    \/ screens[Top].kind = "profile" /\ Pushed(NewScreen("changePassword"))
    \/ currentUser # NoUser /\ MayOpenList /\ Pushed(ListScreen)
    \/ \E kind \in {"registration", "profile", "changePassword"} : Dismiss(kind)
    \/ Relaunch

\* What each arm of a handler that needs a user does to the screens.
LEMMA UidChange ==
    ASSUME UiShape, NEW ss, KeepsQuiet(ss),
           \/ MayOpenList /\ PresentList(ss)
           \/ PresentProfile(ss)
    PROVE  UiChange
  <1>1. CASE UNCHANGED <<screens, stack>>
    BY <1>1, ScreensKeepQuiet DEF UiChange, Edited
  <1>2. CASE currentUser # NoUser /\ MayOpenList /\ Present(ss, ListScreen)
    BY <1>2 DEF UiChange, Pushed
  <1>3. CASE currentUser # NoUser /\ Present(ss, NewScreen("profile"))
    BY <1>3 DEF UiChange, Pushed
  <1> QED
    BY <1>1, <1>2, <1>3 DEF PresentList, PresentProfile, WithUid, ListScreen

\* An alert, or none, on the visible screen is an edit of the screens.
LEMMA AlertEdited ==
    ASSUME UiShape, NEW a \in {"none", "error", "wrong", "rename", "logout", "updated"},
           ShowAlert(a)
    PROVE  UiChange
  BY AlertKeepsQuiet DEF ShowAlert, UiChange, Edited

\* So is doing nothing to them.
LEMMA ScreensUnchanged ==
    ASSUME UiShape, UNCHANGED <<screens, stack>>
    PROVE  UiChange
  BY ScreensKeepQuiet DEF UiChange, Edited

\* What the buttons of the login and registration screens do to the screens.
LEMMA StartChange ==
    ASSUME AccountShape, StartStep
    PROVE  UiChange
  <1> USE DEF AccountShape
  <1>1. ASSUME NEW u \in User, NEW p \in Password, LogInBtnPressed(u, p)
        PROVE  UiChange
    BY <1>1, ScreensUnchanged DEF LogInBtnPressed
  <1>2. CASE LogInBlank
    BY <1>2, AlertEdited DEF LogInBlank
  <1>3. CASE SignUpBtnPressed
    BY <1>3, ScreensKeepQuiet DEF SignUpBtnPressed, UiChange, Pushed
  <1>4. ASSUME NEW u \in User, NEW p \in Password, NEW valid \in BOOLEAN,
               RegisterBtnPressed(u, p, valid)
        PROVE  UiChange
    <2> DEFINE a == IF valid THEN "none" ELSE "error"
               s == [screens[Top] EXCEPT !.email = u, !.newPassword = p, !.alert = a]
    <2>1. screens[Top] \in Screen /\ Top \in DOMAIN screens /\ screens[Top].kind = "registration"
      BY <1>4, TopIsScreen DEF RegisterBtnPressed, Tappable, Shows
    <2>2. s \in Screen /\ s.kind = "registration" /\ s.alert # "registered"
      BY <2>1 DEF Screen
    <2>3. screens' = [screens EXCEPT ![Top] = s] /\ stack' = stack
      BY <1>4, <2>1 DEF RegisterBtnPressed, UiShape
    <2> HIDE DEF s
    <2>4. KeepsQuiet(screens')
      BY <2>1, <2>2, <2>3, ScreenEdited, ScreensKeepQuiet
    <2> QED
      BY <2>3, <2>4 DEF UiChange, Edited
  <1>5. CASE AlreadyBtnPressed
    BY <1>5 DEF AlreadyBtnPressed, UiChange
  <1>6. CASE RegisteredOk
    <2>1. MayOpenList
      BY <1>6 DEF RegisteredOk, Shows, MayOpenList
    <2> QED
      BY <1>6, <2>1, AlertKeepsQuiet, UidChange DEF RegisteredOk
  <1>7. CASE AlertDismissed
    BY <1>7, AlertEdited DEF AlertDismissed
  <1> QED
    BY <1>1, <1>2, <1>3, <1>4, <1>5, <1>6, <1>7 DEF StartStep

\* changePasswordViewController's comparison edits the visible screen.
LEMMA ComparedKeepsQuiet ==
    ASSUME UiShape, NEW typed \in Password \cup {None}
    PROVE  KeepsQuiet(Compared(typed))
  <1>1. screens[Top] \in Screen /\ Top \in DOMAIN screens
    BY TopIsScreen
  <1>2. CASE typed = None
    BY <1>2, AlertKeepsQuiet DEF Compared
  <1>3. CASE typed # None /\ screens[Top].userPassword # typed
    <2> DEFINE s == [screens[Top] EXCEPT !.alert = "wrong", !.oldPassword = typed]
    <2>1. s \in Screen /\ s.kind = screens[Top].kind /\ s.email = screens[Top].email /\ s.alert = "wrong"
      BY <1>1 DEF Screen
    <2>2. Compared(typed) = [WithAlert("wrong") EXCEPT ![Top] = s]
      BY <1>3, AlertKeepsQuiet DEF Compared
    <2> HIDE DEF s
    <2>3. KeepsQuiet([WithAlert("wrong") EXCEPT ![Top] = s])
      BY <2>1, AlertKeepsQuiet, ScreenEdited
    <2> QED
      BY <2>2, <2>3
  <1>4. CASE typed # None /\ screens[Top].userPassword = typed
    <2> DEFINE s == [screens[Top] EXCEPT !.oldPassword = typed, !.fieldsShown = TRUE]
    <2>1. /\ s \in Screen /\ s.kind = screens[Top].kind /\ s.email = screens[Top].email
          /\ s.alert = screens[Top].alert
      BY <1>1 DEF Screen
    <2>2. Compared(typed) = [screens EXCEPT ![Top] = s]
      BY <1>1, <1>4 DEF Compared, UiShape
    <2> HIDE DEF s
    <2>3. KeepsQuiet([screens EXCEPT ![Top] = s])
      BY <2>1, ScreensKeepQuiet, ScreenEdited
    <2> QED
      BY <2>2, <2>3
  <1> QED
    BY <1>2, <1>3, <1>4

\* What the buttons of the list, profile and change-password screens do.
LEMMA ProfileChange ==
    ASSUME AccountShape, ProfileStep
    PROVE  UiChange
  <1> USE DEF AccountShape
  <1>1. CASE MyProfilePageBtnPressed
    BY <1>1, ScreensKeepQuiet, UidChange DEF MyProfilePageBtnPressed
  <1>2. CASE ProfileBackBtnPressed
    BY <1>2 DEF ProfileBackBtnPressed, UiChange
  <1>3. CASE UpdateUserNameBtnPressed
    BY <1>3, AlertEdited DEF UpdateUserNameBtnPressed
  <1>4. CASE UpdateUserNameOk
    BY <1>4, AlertEdited DEF UpdateUserNameOk, ShowAlert
  <1>5. CASE UpdatePasswordBtnPressed
    BY <1>5, ScreensKeepQuiet DEF UpdatePasswordBtnPressed, Tappable, Shows, UiChange, Pushed
  <1>6. CASE LogOutBtnPressed
    BY <1>6, AlertEdited DEF LogOutBtnPressed
  <1>7. ASSUME NEW ok \in BOOLEAN, LogOutOk(ok)
        PROVE  UiChange
    BY <1>7, AlertKeepsQuiet DEF LogOutOk, UiChange, Pushed
  <1>8. CASE ChangeBackBtnPressed
    BY <1>8 DEF ChangeBackBtnPressed, UiChange
  <1>9. ASSUME NEW typed \in Password \cup {None}, DoneBtnPressed(typed)
        PROVE  UiChange
    <2>1. CASE UNCHANGED screens
      BY <1>9, <2>1, ScreensUnchanged DEF DoneBtnPressed
    <2>2. CASE screens' = Compared(typed)
      BY <1>9, <2>2, ComparedKeepsQuiet DEF DoneBtnPressed, UiChange, Edited
    <2> QED
      BY <1>9, <2>1, <2>2 DEF DoneBtnPressed, WithUid
  <1>10. ASSUME NEW p \in Password, UpdateBtnPressed(p)
         PROVE  UiChange
    <2>1. CASE UNCHANGED screens
      BY <1>10, <2>1, ScreensUnchanged DEF UpdateBtnPressed
    <2>2. CASE screens' = [WithAlert("updated") EXCEPT ![Top].newPassword = p]
      <3> DEFINE s == [screens[Top] EXCEPT !.alert = "updated", !.newPassword = p]
      <3>1. screens[Top] \in Screen
        BY TopIsScreen
      <3>2. s \in Screen /\ s.kind = screens[Top].kind /\ s.email = screens[Top].email /\ s.alert = "updated"
        BY <3>1 DEF Screen
      <3>3. screens' = [WithAlert("updated") EXCEPT ![Top] = s]
        BY <2>2, AlertKeepsQuiet
      <3> HIDE DEF s
      <3>4. KeepsQuiet(screens')
        BY <3>2, <3>3, AlertKeepsQuiet, ScreenEdited
      <3> QED
        BY <1>10, <3>4 DEF UpdateBtnPressed, UiChange, Edited
    <2> QED
      BY <1>10, <2>1, <2>2 DEF UpdateBtnPressed, WithUid
  <1>11. CASE UpdateInvalid
    BY <1>11, AlertEdited DEF UpdateInvalid
  <1>12. CASE UpdatedOk
    BY <1>12, AlertKeepsQuiet, UidChange DEF UpdatedOk
  <1> QED
    BY <1>1, <1>2, <1>3, <1>4, <1>5, <1>6, <1>7, <1>8, <1>9, <1>10, <1>11, <1>12
    DEF ProfileStep

\* What the callbacks on the main queue do to the screens.
LEMMA MainQueueChange ==
    ASSUME AccountShape, MainQueueStep
    PROVE  UiChange
  <1> USE DEF AccountShape
  <1>1. CASE HandleSignedIn
    <2> DEFINE e == Head(mainQueue)
    <2>1. mainQueue # <<>> /\ e.type = "signIn" /\ LogInCallback(e)
      BY <1>1 DEF HandleSignedIn
    <2>2. CASE ~CanPresent(e.screen)
      BY <2>1, <2>2, ScreensUnchanged DEF LogInCallback
    <2>3. CASE CanPresent(e.screen) /\ e.ok
      <3>1. MayOpenList
        BY <2>1, <2>3 DEF MayOpenList, Accepted
      <3>2. PresentList(screens)
        BY <2>1, <2>3 DEF LogInCallback
      <3> QED
        BY <3>1, <3>2, ScreensKeepQuiet, UidChange
    <2>4. CASE CanPresent(e.screen) /\ ~e.ok
      BY <2>1, <2>4, AlertEdited DEF LogInCallback
    <2> QED
      BY <2>2, <2>3, <2>4
  <1>2. CASE HandleCreated
    BY <1>2 DEF UiChange
  <1>3. CASE HandleRenamed
    BY <1>3, ScreensUnchanged DEF HandleRenamed, uiVars
  <1>4. CASE HandleValue
    <2> DEFINE e == Head(mainQueue)
               s == [screens[e.screen] EXCEPT !.userPassword = e.password]
    <2>1. mainQueue # <<>> /\ e.type = "value" /\ e \in Event
      BY <1>4, TailSeq DEF HandleValue, FlightShape, QueueShape
    <2>2. e.password \in Password \cup {NotFound}
      BY <2>1 DEF Event, SignedIn, Created, Renamed, Value
    <2>3. screens' = [screens EXCEPT ![e.screen] = s] /\ stack' = stack
      BY <1>4 DEF HandleValue
    <2>4. ASSUME e.screen \in DOMAIN screens
          PROVE  /\ s \in Screen /\ s.kind = screens[e.screen].kind
                 /\ s.email = screens[e.screen].email /\ s.alert = screens[e.screen].alert
      <3>1. screens[e.screen] \in Screen
        BY <2>4, ElementOfSeq, LenProperties DEF UiShape
      <3> QED
        BY <2>2, <3>1 DEF Screen
    <2> HIDE DEF s
    <2>5. KeepsQuiet(screens')
      BY <2>3, <2>4, ScreensKeepQuiet, ScreenEdited
    <2> QED
      BY <2>3, <2>5 DEF UiChange, Edited
  <1> QED
    BY <1>1, <1>2, <1>3, <1>4 DEF MainQueueStep

\* An answer changes no screen before its callback runs.
LEMMA ServerChange ==
    ASSUME AccountShape, ServerStep
    PROVE  UNCHANGED uiVars
  BY DEF ServerStep, AuthAccepts, AuthFails, TokenInvalid, WriteAnswered, ReadAnswered

\* Every step changes the screens in one of the ways of UiChange.
LEMMA StepChange ==
    ASSUME AccountShape, [AccountNext]_accountVars
    PROVE  UiChange
  <1>1. CASE StartStep \/ ProfileStep \/ MainQueueStep
    BY <1>1, StartChange, ProfileChange, MainQueueChange
  <1>2. CASE ServerStep
    BY <1>2, ServerChange, ScreensUnchanged DEF uiVars, AccountShape
  <1>3. CASE Relaunch
    BY <1>3 DEF UiChange
  <1>4. CASE UNCHANGED accountVars
    BY <1>4, ScreensUnchanged DEF accountVars, uiVars, AccountShape
  <1> QED
    BY <1>1, <1>2, <1>3, <1>4 DEF AccountNext

\* The callback of createUser leaves the kinds of the screens alone.
LEMMA CreatedEdit ==
    ASSUME UiShape, HandleCreated
    PROVE  \E ss : KeepsKinds(ss) /\ screens' = ss /\ stack' = stack
  BY RegisteredKeepsKinds, ScreensKeepQuiet DEF HandleCreated, KeepsQuiet

\* The screens and their stack after any step.
LEMMA UiStep ==
    ASSUME AccountShape, UiChange
    PROVE  UiShape' /\ (Relaunch \/ DOMAIN screens \subseteq DOMAIN screens')
  <1> USE DEF AccountShape
  <1>1. CASE Edited
    BY <1>1, EditShape DEF Edited, KeepsQuiet
  <1>2. CASE HandleCreated
    BY <1>2, CreatedEdit, EditShape
  <1>3. ASSUME NEW s \in Screen, Pushed(s)
        PROVE  UiShape' /\ DOMAIN screens \subseteq DOMAIN screens'
    BY <1>3, PushShape DEF Pushed, KeepsQuiet
  <1>4. \A kind \in Kind : NewScreen(kind) \in Screen
    BY NewScreenTyped
  <1>5. currentUser # NoUser => ListScreen \in Screen
    BY DEF ScalarShape, ListScreen, NewScreen, Screen, Kind
  <1>6. ASSUME NEW kind \in {"registration", "profile", "changePassword"}, Dismiss(kind)
        PROVE  UiShape' /\ DOMAIN screens \subseteq DOMAIN screens'
    BY <1>6, PopShape
  <1>7. CASE Relaunch
    <2>1. screens' = <<NewScreen("login")>> /\ stack' = <<1>>
      BY <1>7 DEF Relaunch
    <2>2. NewScreen("login") \in Screen /\ NewScreen("login").kind = "login"
      BY NewScreenTyped DEF Kind
    <2>3. /\ screens' \in Seq(Screen) /\ Len(screens') = 1 /\ DOMAIN screens' = {1}
          /\ screens'[1] = NewScreen("login")
      BY <2>1, <2>2
    <2>4. stack' \in Seq({1}) /\ stack' # <<>> /\ stack'[1] = 1
      BY <2>1
    <2>5. 1 \in ScreenIds
      BY AccountAssumption DEF ScreenIds
    <2> QED
      BY <1>7, <2>2, <2>3, <2>4, <2>5 DEF UiShape, StackShape
  <1> QED
    BY <1>1, <1>2, <1>3, <1>4, <1>5, <1>6, <1>7 DEF UiChange, Kind

-----------------------------------------------------------------------------

\* How a step changes the requests under way and the main queue.
RequestChange ==
    \/ requests' = requests
    \/ \E i \in DOMAIN requests : requests' = RemoveAt(requests, i)
    \/ \E r \in Request : r.screen = Top /\ requests' = Append(requests, r)
    \/ Relaunch
\* How a step changes the main queue: an event leaves at the head or joins at the
\* end, an accepted sign-in or registration with its user current.
QueueChange ==
    \/ mainQueue' = mainQueue
    \/ mainQueue # <<>> /\ mainQueue' = Tail(mainQueue)
    \/ \E e \in Event :
          /\ e.type \in {"signIn", "create"} =>
                \E i \in DOMAIN requests : e.screen = requests[i].screen
          /\ Accepted(e) => currentUser' # NoUser /\ currentUser' \in accepted'
          /\ mainQueue' = Append(mainQueue, e)
    \/ Relaunch

\* signIn, createUser and updatePassword add a request of the visible screen.
LEMMA RequestSent ==
    ASSUME AccountShape, NEW type \in {"signIn", "create", "update"}, NEW u \in User,
           NEW p \in Password, SendRequest(type, u, p)
    PROVE  RequestChange
  <1> DEFINE r == [type |-> type, screen |-> Top, user |-> u, password |-> p, session |-> session]
  <1>1. r \in Request
    BY TopIsScreen DEF AccountShape, ScalarShape, Request
  <1>2. requests' = Append(requests, r)
    BY DEF SendRequest
  <1> QED
    BY <1>1, <1>2 DEF RequestChange

\* What an unanswered request holds.
LEMMA QueuedRequest ==
    ASSUME FlightShape, NEW i \in DOMAIN requests
    PROVE  /\ requests[i] \in Request
           /\ requests[i].type \in {"signIn", "create", "update"}
           /\ requests[i].screen \in ScreenIds
           /\ requests[i].user \in User /\ requests[i].password \in Password
           /\ requests[i].session \in Nat
  <1>1. requests[i] \in Request
    BY ElementOfSeq, LenProperties DEF FlightShape, RequestShape
  <1> QED
    BY <1>1 DEF Request

\* Every step changes the requests in one of the ways of RequestChange.
LEMMA RequestsStep ==
    ASSUME AccountShape, [AccountNext]_accountVars
    PROVE  RequestChange
  <1>1. CASE StartStep
    BY <1>1, RequestSent
    DEF StartStep, LogInBtnPressed, LogInBlank, SignUpBtnPressed, RegisterBtnPressed,
        AlreadyBtnPressed, RegisteredOk, AlertDismissed, Dismiss, Navigates, OnlyScreens,
        authVars, RequestChange
  <1>2. CASE ProfileStep
    <2>1. ASSUME NEW p \in Password, UpdateBtnPressed(p)
          PROVE  RequestChange
      <3>1. CASE UNCHANGED authVars
        BY <3>1 DEF authVars, RequestChange
      <3>2. CASE currentUser # NoUser /\ SendRequest("update", currentUser, p)
        BY <3>2, RequestSent DEF AccountShape, ScalarShape
      <3> QED
        BY <2>1, <3>1, <3>2 DEF UpdateBtnPressed, WithUid
    <2>2. CASE UNCHANGED requests
      BY <2>2 DEF RequestChange
    <2> QED
      BY <1>2, <2>1, <2>2
      DEF ProfileStep, MyProfilePageBtnPressed, ProfileBackBtnPressed, UpdateUserNameBtnPressed,
          UpdateUserNameOk, UpdatePasswordBtnPressed, LogOutBtnPressed, LogOutOk,
          ChangeBackBtnPressed, DoneBtnPressed, UpdateInvalid, UpdatedOk, Dismiss, Navigates,
          OnlyScreens, authVars
  <1>3. CASE MainQueueStep
    BY <1>3 DEF MainQueueStep, HandleSignedIn, HandleCreated, HandleRenamed, HandleValue,
                authVars, RequestChange
  <1>4. CASE ServerStep
    BY <1>4 DEF ServerStep, AuthAccepts, AuthFails, TokenInvalid, WriteAnswered, ReadAnswered,
                authVars, RequestChange
  <1>5. CASE Relaunch
    BY <1>5 DEF RequestChange
  <1>6. CASE UNCHANGED accountVars
    BY <1>6 DEF accountVars, authVars, RequestChange
  <1> QED
    BY <1>1, <1>2, <1>3, <1>4, <1>5, <1>6 DEF AccountNext

\* The password that a read of the row delivers.
LEMMA ReadValueTyped ==
    ASSUME DatabaseShape, ScalarShape, NEW u \in User, NEW p \in SeenPassword(u)
    PROVE  PasswordOf(p) \in Password \cup {NotFound}
  <1>1. \A i \in DOMAIN writes : writes[i] \in Write
    BY ElementOfSeq, LenProperties DEF DatabaseShape
  <1>2. \A i \in DOMAIN writes : writes[i].password \in Password \cup {None}
    BY <1>1 DEF Write
  <1>3. row[u].password \in Password \cup {None}
    BY DEF ScalarShape, Row
  <1> QED
    BY <1>2, <1>3 DEF SeenPassword, PasswordOf

\* Every step changes the main queue in one of the ways of QueueChange.
LEMMA QueueStep ==
    ASSUME AccountShape, [AccountNext]_accountVars
    PROVE  QueueChange
  <1>1. CASE StartStep \/ ProfileStep \/ UNCHANGED accountVars
    BY <1>1
    DEF StartStep, LogInBtnPressed, LogInBlank, SignUpBtnPressed, RegisterBtnPressed,
        AlreadyBtnPressed, RegisteredOk, AlertDismissed, Dismiss, Navigates, OnlyScreens,
        ProfileStep, MyProfilePageBtnPressed, ProfileBackBtnPressed, UpdateUserNameBtnPressed,
        UpdateUserNameOk, UpdatePasswordBtnPressed, LogOutBtnPressed, LogOutOk,
        ChangeBackBtnPressed, DoneBtnPressed, UpdateBtnPressed, UpdateInvalid, UpdatedOk,
        accountVars, QueueChange
  <1>2. CASE MainQueueStep
    BY <1>2 DEF MainQueueStep, HandleSignedIn, HandleCreated, HandleRenamed, HandleValue,
                QueueChange
  <1>3. ASSUME NEW i \in DOMAIN requests, AuthAccepts(i)
        PROVE  QueueChange
    <2> DEFINE r == requests[i]
    <2>1. r \in Request /\ r.screen \in ScreenIds /\ r.user \in User /\ r.password \in Password
      BY QueuedRequest DEF AccountShape
    <2>2. CASE r.type = "signIn"
      <3> DEFINE e == [type |-> "signIn", screen |-> r.screen, ok |-> TRUE]
      <3>1. e \in Event
        BY <2>1 DEF Event, SignedIn
      <3>2. mainQueue' = Append(mainQueue, e) /\ currentUser' = r.user /\ accepted' = accepted \cup {r.user}
        BY <1>3, <2>2 DEF AuthAccepts, SignInFlow
      <3> QED
        BY <2>1, <3>1, <3>2, AccountAssumption DEF QueueChange
    <2>3. CASE r.type = "create"
      <3> DEFINE e == [type |-> "create", screen |-> r.screen, user |-> r.user,
                       password |-> r.password]
      <3>1. e \in Event
        BY <2>1 DEF Event, Created
      <3>2. mainQueue' = Append(mainQueue, e) /\ currentUser' = r.user /\ accepted' = accepted \cup {r.user}
        BY <1>3, <2>3 DEF AuthAccepts, SignInFlow
      <3> QED
        BY <2>1, <3>1, <3>2, AccountAssumption DEF QueueChange
    <2>4. CASE UNCHANGED mainQueue
      BY <2>4 DEF QueueChange
    <2> QED
      BY <1>3, <2>2, <2>3, <2>4 DEF AuthAccepts
  <1>4. ASSUME NEW i \in DOMAIN requests, NEW applied \in BOOLEAN, AuthFails(i, applied)
        PROVE  QueueChange
    <2> DEFINE r == requests[i]
               e == [type |-> "signIn", screen |-> r.screen, ok |-> FALSE]
    <2>1. e \in Event /\ e.screen = r.screen /\ ~Accepted(e)
      BY QueuedRequest DEF AccountShape, Event, SignedIn, Accepted
    <2>2. mainQueue' = mainQueue \/ mainQueue' = Append(mainQueue, e)
      BY <1>4 DEF AuthFails
    <2> QED
      BY <2>1, <2>2 DEF QueueChange
  <1>5. ASSUME NEW ok \in BOOLEAN, WriteAnswered(ok)
        PROVE  QueueChange
    <2> DEFINE w == Head(writes)
               e == [type |-> "renamed", screen |-> w.screen]
    <2>1. w \in Write
      BY <1>5, TailSeq DEF WriteAnswered, AccountShape, FlightShape, DatabaseShape
    <2>2. e \in Event /\ e.type \notin {"signIn", "create"} /\ ~Accepted(e)
      BY <2>1 DEF Write, Event, Renamed, Accepted
    <2>3. mainQueue' = mainQueue \/ mainQueue' = Append(mainQueue, e)
      BY <1>5 DEF WriteAnswered
    <2> QED
      BY <2>2, <2>3 DEF QueueChange
  <1>6. ASSUME NEW i \in DOMAIN reads, NEW ok \in BOOLEAN, ReadAnswered(i, ok)
        PROVE  QueueChange
    <2> DEFINE r == reads[i]
    <2>1. r.screen \in ScreenIds /\ r.user \in User
      <3>1. r \in [screen : ScreenIds, user : User]
        BY ElementOfSeq, LenProperties DEF AccountShape, FlightShape, DatabaseShape
      <3> QED
        BY <3>1
    <2>2. CASE mainQueue' = mainQueue
      BY <2>2 DEF QueueChange
    <2>3. ASSUME NEW p \in SeenPassword(r.user),
                 mainQueue' = Append(mainQueue, [type |-> "value", screen |-> r.screen,
                                                 password |-> PasswordOf(p)])
          PROVE  QueueChange
      <3> DEFINE e == [type |-> "value", screen |-> r.screen, password |-> PasswordOf(p)]
      <3>1. PasswordOf(p) \in Password \cup {NotFound}
        BY <2>1, ReadValueTyped DEF AccountShape, FlightShape
      <3>2. e \in Event /\ e.type \notin {"signIn", "create"} /\ ~Accepted(e)
        BY <2>1, <3>1 DEF Event, Value, Accepted
      <3> QED
        BY <2>3, <3>2 DEF QueueChange
    <2> QED
      BY <1>6, <2>2, <2>3 DEF ReadAnswered
  <1>7. ASSUME NEW i \in DOMAIN requests, TokenInvalid(i)
        PROVE  QueueChange
    BY <1>7 DEF TokenInvalid, QueueChange
  <1>8. CASE Relaunch
    BY <1>8 DEF QueueChange
  <1> QED
    BY <1>1, <1>2, <1>3, <1>4, <1>5, <1>6, <1>7, <1>8 DEF AccountNext, ServerStep

\* An unanswered request always belongs to a screen that exists.
LEMMA RequestShapeStep ==
    ASSUME AccountShape, [AccountNext]_accountVars
    PROVE  RequestShape'
  <1>1. UiShape' /\ (Relaunch \/ DOMAIN screens \subseteq DOMAIN screens')
    BY StepChange, UiStep
  <1>2. RequestShape
    BY DEF AccountShape, FlightShape
  <1>3. CASE requests' = requests
    BY <1>1, <1>2, <1>3 DEF RequestShape, Relaunch
  <1>4. ASSUME NEW i \in DOMAIN requests, requests' = RemoveAt(requests, i), ~Relaunch
        PROVE  RequestShape'
    <2>1. /\ requests' \in Seq(Request)
          /\ \A j \in DOMAIN requests' : \E k \in DOMAIN requests : requests'[j] = requests[k]
      BY <1>2, <1>4, RemoveAtSeq, RemoveAtElements DEF RequestShape
    <2> QED
      BY <1>1, <1>2, <1>4, <2>1 DEF RequestShape
  <1>5. ASSUME NEW r \in Request, r.screen = Top, requests' = Append(requests, r), ~Relaunch
        PROVE  RequestShape'
    <2>1. /\ requests' \in Seq(Request) /\ DOMAIN requests' = DOMAIN requests \cup {Len(requests) + 1}
          /\ \A j \in DOMAIN requests : requests'[j] = requests[j]
          /\ requests'[Len(requests) + 1] = r
      BY <1>2, <1>5, AppendSeq DEF RequestShape
    <2>2. Top \in DOMAIN screens
      BY TopIsScreen DEF AccountShape
    <2> QED
      BY <1>1, <1>2, <1>5, <2>1, <2>2 DEF RequestShape
  <1>6. CASE Relaunch
    BY <1>6 DEF Relaunch, RequestShape
  <1> QED
    BY <1>3, <1>4, <1>5, <1>6, RequestsStep DEF RequestChange

\* So does the callback of a request.
LEMMA QueueShapeStep ==
    ASSUME AccountShape, [AccountNext]_accountVars
    PROVE  QueueShape'
  <1>1. UiShape' /\ (Relaunch \/ DOMAIN screens \subseteq DOMAIN screens')
    BY StepChange, UiStep
  <1>2. QueueShape
    BY DEF AccountShape, FlightShape
  <1>3. CASE mainQueue' = mainQueue /\ ~Relaunch
    BY <1>1, <1>2, <1>3 DEF QueueShape
  <1>4. CASE mainQueue # <<>> /\ mainQueue' = Tail(mainQueue) /\ ~Relaunch
    <2>1. /\ mainQueue' \in Seq(Event)
          /\ \A j \in DOMAIN mainQueue' : j + 1 \in DOMAIN mainQueue /\ mainQueue'[j] = mainQueue[j + 1]
      BY <1>2, <1>4, TailSeq DEF QueueShape
    <2> QED
      BY <1>1, <1>2, <1>4, <2>1 DEF QueueShape
  <1>5. ASSUME NEW e \in Event, mainQueue' = Append(mainQueue, e), ~Relaunch,
               e.type \in {"signIn", "create"} => \E i \in DOMAIN requests : e.screen = requests[i].screen
        PROVE  QueueShape'
    <2>1. /\ mainQueue' \in Seq(Event) /\ DOMAIN mainQueue' = DOMAIN mainQueue \cup {Len(mainQueue) + 1}
          /\ \A j \in DOMAIN mainQueue : mainQueue'[j] = mainQueue[j]
          /\ mainQueue'[Len(mainQueue) + 1] = e
      BY <1>2, <1>5, AppendSeq DEF QueueShape
    <2>2. e.type \in {"signIn", "create"} => e.screen \in DOMAIN screens
      BY <1>5 DEF AccountShape, FlightShape, RequestShape
    <2> QED
      BY <1>1, <1>2, <1>5, <2>1, <2>2 DEF QueueShape
  <1>6. CASE Relaunch
    BY <1>6 DEF Relaunch, QueueShape
  <1> QED
    BY <1>3, <1>4, <1>5, <1>6, QueueStep DEF QueueChange

\* setValue and observeSingleEvent add to what is under way.
LEMMA WriteQueued ==
    ASSUME DatabaseShape, ScalarShape, currentUser # NoUser,
           NEW field \in {"row", "password", "userName"}, NEW s \in ScreenIds,
           NEW e \in User \cup {None}, NEW p \in Password \cup {None}, SetValue(field, s, e, p)
    PROVE  DatabaseShape' /\ written' \in 0 .. MaxWrites /\ asked' = asked
  <1> DEFINE w == [field |-> field, screen |-> s, user |-> currentUser, email |-> e, password |-> p]
  <1>1. w \in Write
    BY DEF ScalarShape, Write
  <1>2. writes' = Append(writes, w) /\ reads' = reads
    BY DEF SetValue
  <1>3. writes' \in Seq(Write)
    BY <1>1, <1>2, AppendSeq DEF DatabaseShape
  <1>4. written' \in 0 .. MaxWrites /\ asked' = asked
    BY AccountAssumption DEF SetValue, ScalarShape
  <1> QED
    BY <1>2, <1>3, <1>4 DEF DatabaseShape

\* observeSingleEvent keeps the types of the database calls.
LEMMA ReadQueued ==
    ASSUME DatabaseShape, ScalarShape, UiShape, currentUser # NoUser, ObserveSingleEvent
    PROVE  DatabaseShape' /\ asked' \in 0 .. MaxReads /\ written' = written
  <1> DEFINE r == [screen |-> Top, user |-> currentUser]
  <1>1. r \in [screen : ScreenIds, user : User]
    BY TopIsScreen DEF ScalarShape
  <1>2. reads' = Append(reads, r) /\ writes' = writes
    BY DEF ObserveSingleEvent
  <1>3. reads' \in Seq([screen : ScreenIds, user : User])
    BY <1>1, <1>2, AppendSeq DEF DatabaseShape
  <1>4. asked' \in 0 .. MaxReads /\ written' = written
    BY AccountAssumption DEF ObserveSingleEvent, ScalarShape
  <1> QED
    BY <1>2, <1>3, <1>4 DEF DatabaseShape

\* The variables of a screen that HandleCreated writes to the row.
LEMMA FormTyped ==
    ASSUME AccountShape, mainQueue # <<>>, Head(mainQueue).type = "create"
    PROVE  LET e == Head(mainQueue)
           IN  /\ e.screen \in DOMAIN screens /\ e.screen \in ScreenIds
               /\ screens[e.screen].email \in User \cup {None}
               /\ screens[e.screen].newPassword \in Password \cup {None}
               /\ e.user \in User /\ e.password \in Password
  <1> DEFINE e == Head(mainQueue)
  <1>1. e \in Event /\ 1 \in DOMAIN mainQueue /\ e = mainQueue[1]
    BY TailSeq DEF AccountShape, FlightShape, QueueShape
  <1>2. e.screen \in DOMAIN screens
    BY <1>1 DEF AccountShape, FlightShape, QueueShape
  <1>3. screens[e.screen] \in Screen
    BY <1>2, ElementOfSeq, LenProperties DEF AccountShape, UiShape
  <1>4. e.screen \in ScreenIds /\ e.user \in User /\ e.password \in Password
    BY <1>1 DEF Event, SignedIn, Created, Renamed, Value
  <1> QED
    BY <1>2, <1>3, <1>4 DEF Screen

\* The database calls keep their types and bounds.
DbChange == DatabaseShape' /\ written' \in 0 .. MaxWrites /\ asked' \in 0 .. MaxReads

\* Every step keeps the types and bounds of the database calls.
LEMMA DatabaseStep ==
    ASSUME AccountShape, [AccountNext]_accountVars
    PROVE  DbChange
  <1> USE DEF AccountShape, FlightShape
  <1>1. ASSUME UNCHANGED dbVars
        PROVE  DbChange
    BY <1>1 DEF dbVars, DbChange, DatabaseShape, ScalarShape
  <1>2. ASSUME DatabaseShape', UNCHANGED <<written, asked>>
        PROVE  DbChange
    BY <1>2 DEF DbChange, ScalarShape
  <1>3. CASE StartStep \/ UNCHANGED accountVars
    BY <1>1, <1>3
    DEF StartStep, LogInBtnPressed, LogInBlank, SignUpBtnPressed, RegisterBtnPressed,
        AlreadyBtnPressed, RegisteredOk, AlertDismissed, Dismiss, Navigates, OnlyScreens, accountVars
  <1>4. CASE ProfileStep
    <2>1. CASE UpdateUserNameOk
      <3>1. CASE currentUser # NoUser /\ SetValue("userName", Top, None, None)
        BY <3>1, WriteQueued, TopIsScreen DEF DbChange, ScalarShape
      <3> QED
        BY <1>1, <2>1, <3>1 DEF UpdateUserNameOk, WithUid
    <2>2. ASSUME NEW typed \in Password \cup {None}, DoneBtnPressed(typed)
          PROVE  DbChange
      <3>1. CASE currentUser # NoUser /\ ObserveSingleEvent
        BY <3>1, ReadQueued DEF DbChange, ScalarShape
      <3> QED
        BY <1>1, <2>2, <3>1 DEF DoneBtnPressed, WithUid
    <2>3. ASSUME NEW p \in Password, UpdateBtnPressed(p)
          PROVE  DbChange
      <3>1. CASE currentUser # NoUser /\ SetValue("password", Top, None, p)
        BY <3>1, WriteQueued, TopIsScreen DEF DbChange, ScalarShape
      <3> QED
        BY <1>1, <2>3, <3>1 DEF UpdateBtnPressed, WithUid
    <2> QED
      BY <1>1, <1>4, <2>1, <2>2, <2>3
      DEF ProfileStep, MyProfilePageBtnPressed, ProfileBackBtnPressed, UpdateUserNameBtnPressed,
          UpdatePasswordBtnPressed, LogOutBtnPressed, LogOutOk, ChangeBackBtnPressed,
          UpdateInvalid, UpdatedOk, Dismiss, Navigates, OnlyScreens
  <1>5. CASE MainQueueStep
    <2>1. CASE HandleCreated
      <3> DEFINE e == Head(mainQueue)
                 form == screens[e.screen]
      <3>1. CASE currentUser # NoUser /\ SetValue("row", e.screen, form.email, form.newPassword)
        BY <2>1, <3>1, WriteQueued, FormTyped DEF DbChange, ScalarShape, HandleCreated
      <3> QED
        BY <1>1, <2>1, <3>1 DEF HandleCreated, WithUid
    <2> QED
      BY <1>1, <1>5, <2>1 DEF MainQueueStep, HandleSignedIn, HandleRenamed, HandleValue
  <1>6. ASSUME NEW ok \in BOOLEAN, WriteAnswered(ok)
        PROVE  DbChange
    BY <1>2, <1>6, TailSeq DEF WriteAnswered, DatabaseShape
  <1>7. ASSUME NEW i \in DOMAIN reads, NEW ok \in BOOLEAN, ReadAnswered(i, ok)
        PROVE  DbChange
    BY <1>2, <1>7, RemoveAtSeq DEF ReadAnswered, DatabaseShape
  <1>8. CASE ServerStep
    BY <1>1, <1>6, <1>7, <1>8 DEF ServerStep, AuthAccepts, AuthFails, TokenInvalid
  <1>9. CASE Relaunch
    BY <1>9, AccountAssumption DEF Relaunch, DbChange, DatabaseShape
  <1> QED
    BY <1>3, <1>4, <1>5, <1>8, <1>9 DEF AccountNext

\* The other variables, but for written and asked, whose bounds DbChange states.
OtherShape ==
    /\ hud \in BOOLEAN
    /\ currentUser \in User \cup {NoUser}
    /\ session \in Nat
    /\ issued \in 0 .. MaxRequests
    /\ password \in [User -> Password \cup {None}]
    /\ row \in [User -> Row]
    /\ trap \in {"none", "list", "profile", "changePassword", "update", "rename",
                 "created", "renamed"}
    /\ kills \in 0 .. MaxKills
    /\ accepted \subseteq User
    /\ forced \in BOOLEAN
    /\ parted \subseteq User

\* A request counts towards its bound, and changes no session.
LEMMA RequestCounted ==
    ASSUME ScalarShape, NEW type, NEW u, NEW p, SendRequest(type, u, p)
    PROVE  issued' \in 0 .. MaxRequests /\ currentUser' = currentUser /\ session' = session
  BY AccountAssumption DEF SendRequest, ScalarShape

\* The login and registration screens keep the types of the other variables.
LEMMA StartOther ==
    ASSUME AccountShape, StartStep \/ UNCHANGED accountVars
    PROVE  OtherShape'
  <1> USE DEF AccountShape, ScalarShape, OtherShape
  <1>1. CASE UNCHANGED accountVars
    BY <1>1 DEF accountVars, uiVars, authVars, serverVars, historyVars
  <1>2. ASSUME NEW u \in User, NEW p \in Password, LogInBtnPressed(u, p)
        PROVE  OtherShape'
    BY <1>2, RequestCounted DEF LogInBtnPressed, serverVars, historyVars
  <1>3. ASSUME NEW u \in User, NEW p \in Password, NEW valid \in BOOLEAN,
               RegisterBtnPressed(u, p, valid)
        PROVE  OtherShape'
    BY <1>3, RequestCounted DEF RegisterBtnPressed, authVars, serverVars, historyVars
  <1>4. CASE LogInBlank \/ SignUpBtnPressed \/ AlreadyBtnPressed \/ AlertDismissed
    BY <1>4 DEF LogInBlank, SignUpBtnPressed, AlreadyBtnPressed, AlertDismissed, Dismiss,
                Navigates, OnlyScreens, authVars, serverVars, historyVars
  <1>5. CASE RegisteredOk
    BY <1>5 DEF RegisteredOk, PresentList, WithUid, OnlyScreens, authVars, serverVars, historyVars
  <1> QED
    BY <1>1, <1>2, <1>3, <1>4, <1>5 DEF StartStep

\* Nobody's requests are under way for no user.
LEMMA UpdateNeedsUser ==
    ASSUME FlightShape, ScalarShape, Overlapping(currentUser)
    PROVE  currentUser \in User
  <1>1. \A i \in DOMAIN requests : requests[i].user \in User
    BY QueuedRequest
  <1>2. \A i \in DOMAIN mainQueue : mainQueue[i].type = "create" => mainQueue[i].user \in User
    <2>1. \A i \in DOMAIN mainQueue : mainQueue[i] \in Event
      BY ElementOfSeq, LenProperties DEF FlightShape, QueueShape
    <2> QED
      BY <2>1 DEF Event, SignedIn, Created, Renamed, Value
  <1> QED
    BY <1>1, <1>2 DEF Overlapping

\* So do the list, profile and change-password screens.
LEMMA ProfileOther ==
    ASSUME AccountShape, ProfileStep
    PROVE  OtherShape'
  <1> USE DEF AccountShape, ScalarShape, OtherShape
  <1>1. CASE MyProfilePageBtnPressed \/ UpdatedOk
    BY <1>1 DEF MyProfilePageBtnPressed, UpdatedOk, PresentProfile, WithUid, OnlyScreens, authVars,
                serverVars, historyVars
  <1>2. CASE \/ ProfileBackBtnPressed \/ UpdateUserNameBtnPressed \/ UpdatePasswordBtnPressed
             \/ LogOutBtnPressed \/ ChangeBackBtnPressed \/ UpdateInvalid
    BY <1>2 DEF ProfileBackBtnPressed, UpdateUserNameBtnPressed, UpdatePasswordBtnPressed,
                LogOutBtnPressed, ChangeBackBtnPressed, UpdateInvalid, Dismiss, Navigates,
                OnlyScreens, authVars, serverVars, historyVars
  <1>3. CASE UpdateUserNameOk
    BY <1>3 DEF UpdateUserNameOk, WithUid, authVars, serverVars, historyVars
  <1>4. ASSUME NEW ok \in BOOLEAN, LogOutOk(ok)
        PROVE  OtherShape'
    BY <1>4 DEF LogOutOk, serverVars, historyVars
  <1>5. ASSUME NEW typed \in Password \cup {None}, DoneBtnPressed(typed)
        PROVE  OtherShape'
    BY <1>5 DEF DoneBtnPressed, WithUid, authVars, serverVars, historyVars
  <1>6. ASSUME NEW p \in Password, UpdateBtnPressed(p)
        PROVE  OtherShape'
    <2>1. issued' \in 0 .. MaxRequests /\ currentUser' = currentUser /\ session' = session
      BY <1>6, RequestCounted DEF UpdateBtnPressed, WithUid, authVars
    <2>2. trap' \in {trap, "update"} /\ hud' \in BOOLEAN
      BY <1>6 DEF UpdateBtnPressed, WithUid
    <2>3. parted' \subseteq User
      <3>1. CASE Overlapping(currentUser)
        <4>1. currentUser \in User
          BY <3>1, <1>6, UpdateNeedsUser
        <4> QED
          BY <1>6, <3>1, <4>1 DEF UpdateBtnPressed
      <3>2. CASE ~Overlapping(currentUser)
        BY <1>6, <3>2 DEF UpdateBtnPressed
      <3> QED
        BY <3>1, <3>2
    <2> QED
      BY <1>6, <2>1, <2>2, <2>3 DEF UpdateBtnPressed, serverVars
  <1> QED
    BY <1>1, <1>2, <1>3, <1>4, <1>5, <1>6 DEF ProfileStep

\* So do the callbacks on the main queue.
LEMMA MainQueueOther ==
    ASSUME AccountShape, MainQueueStep
    PROVE  OtherShape'
  <1> USE DEF AccountShape, ScalarShape, OtherShape
  <1>1. CASE HandleSignedIn
    <2>1. trap' \in {trap, "list"} /\ hud' = FALSE
      BY <1>1 DEF HandleSignedIn, LogInCallback, PresentList, WithUid
    <2> QED
      BY <1>1, <2>1 DEF HandleSignedIn, authVars, serverVars, historyVars
  <1>2. CASE HandleCreated
    <2>1. trap' \in {trap, "created"}
      BY <1>2 DEF HandleCreated, WithUid
    <2>2. Confused(Head(mainQueue)) \subseteq User
      BY <1>2, FormTyped DEF HandleCreated, Confused
    <2> QED
      BY <1>2, <2>1, <2>2 DEF HandleCreated, authVars, serverVars
  <1>3. CASE HandleRenamed \/ HandleValue
    BY <1>3 DEF HandleRenamed, HandleValue, WithUid, uiVars, authVars, serverVars, historyVars
  <1> QED
    BY <1>1, <1>2, <1>3 DEF MainQueueStep

\* So do the answers of the servers.
LEMMA ServerOther ==
    ASSUME AccountShape, ServerStep
    PROVE  OtherShape'
  <1> USE DEF AccountShape, ScalarShape, OtherShape
  <1>1. ASSUME NEW i \in DOMAIN requests, AuthAccepts(i)
        PROVE  OtherShape'
    <2>1. requests[i].user \in User /\ requests[i].password \in Password
      BY QueuedRequest
    <2>2. /\ currentUser' \in User \cup {NoUser} /\ session' \in Nat /\ accepted' \subseteq User
          /\ password' \in [User -> Password \cup {None}]
      BY <1>1, <2>1 DEF AuthAccepts, SignInFlow
    <2> QED
      BY <1>1, <2>2 DEF AuthAccepts, uiVars
  <1>2. ASSUME NEW i \in DOMAIN requests, NEW applied \in BOOLEAN, AuthFails(i, applied)
        PROVE  OtherShape'
    <2>1. requests[i].user \in User /\ requests[i].password \in Password
      BY QueuedRequest
    <2>2. parted' \subseteq User /\ password' \in [User -> Password \cup {None}]
      BY <1>2, <2>1 DEF AuthFails
    <2> QED
      BY <1>2, <2>2 DEF AuthFails, uiVars
  <1>3. ASSUME NEW i \in DOMAIN requests, TokenInvalid(i)
        PROVE  OtherShape'
    <2>1. requests[i].user \in User
      BY QueuedRequest
    <2> QED
      BY <1>3, <2>1 DEF TokenInvalid, uiVars, serverVars
  <1>4. ASSUME NEW ok \in BOOLEAN, WriteAnswered(ok)
        PROVE  OtherShape'
    <2> DEFINE w == Head(writes)
    <2>1. w \in Write
      BY <1>4, TailSeq DEF WriteAnswered, FlightShape, DatabaseShape
    <2>2. /\ w.user \in User /\ w.email \in User \cup {None} /\ w.password \in Password \cup {None}
          /\ w.field \in {"row", "password", "userName"}
      BY <2>1 DEF Write
    <2>3. Applied(row[w.user], w) \in Row
      BY <2>2 DEF Applied, Row
    <2>4. row' \in [User -> Row]
      BY <1>4, <2>3 DEF WriteAnswered
    <2>5. parted' \subseteq User
      BY <1>4, <2>2 DEF WriteAnswered
    <2> QED
      BY <1>4, <2>4, <2>5 DEF WriteAnswered, uiVars, authVars
  <1>5. ASSUME NEW i \in DOMAIN reads, NEW ok \in BOOLEAN, ReadAnswered(i, ok)
        PROVE  OtherShape'
    BY <1>5 DEF ReadAnswered, uiVars, authVars, serverVars, historyVars
  <1> QED
    BY <1>1, <1>2, <1>3, <1>4, <1>5 DEF ServerStep

\* So does a new start of the app.
LEMMA RelaunchOther ==
    ASSUME AccountShape, Relaunch
    PROVE  OtherShape'
  <1>1. kills' \in 0 .. MaxKills /\ issued' \in 0 .. MaxRequests
    BY AccountAssumption DEF AccountShape, ScalarShape, Relaunch
  <1>2. parted' \subseteq User
    BY DEF AccountShape, ScalarShape, Relaunch
  <1>3. /\ hud' = FALSE /\ session' = 0 /\ trap' = "none" /\ accepted' = {} /\ forced' = FALSE
        /\ UNCHANGED <<currentUser, password, row>>
    BY DEF Relaunch, serverVars
  <1> QED
    BY <1>1, <1>2, <1>3 DEF AccountShape, ScalarShape, OtherShape

\* Every step keeps the state well formed.
LEMMA ShapeStep ==
    ASSUME AccountShape, [AccountNext]_accountVars
    PROVE  AccountShape'
  <1>1. UiShape'
    BY StepChange, UiStep
  <1>2. FlightShape' /\ written' \in 0 .. MaxWrites /\ asked' \in 0 .. MaxReads
    BY RequestShapeStep, QueueShapeStep, DatabaseStep DEF FlightShape, DbChange
  <1>3. OtherShape'
    BY StartOther, ProfileOther, MainQueueOther, ServerOther, RelaunchOther DEF AccountNext
  <1> QED
    BY <1>1, <1>2, <1>3 DEF AccountShape, ScalarShape, OtherShape

\* The app starts with the login screen and nothing under way.
LEMMA ShapeInit ==
    ASSUME AccountInit
    PROVE  AccountShape
  <1>1. UiShape
    <2>1. screens = <<NewScreen("login")>> /\ stack = <<1>>
      BY DEF AccountInit
    <2>2. NewScreen("login") \in Screen /\ NewScreen("login").kind = "login"
      BY NewScreenTyped DEF Kind
    <2>3. /\ screens \in Seq(Screen) /\ Len(screens) = 1 /\ DOMAIN screens = {1}
          /\ screens[1] = NewScreen("login")
      BY <2>1, <2>2
    <2>4. stack \in Seq({1}) /\ stack # <<>> /\ stack[1] = 1
      BY <2>1
    <2>5. 1 \in ScreenIds
      BY AccountAssumption DEF ScreenIds
    <2> QED
      BY <2>2, <2>3, <2>4, <2>5 DEF UiShape, StackShape
  <1>2. FlightShape
    BY DEF AccountInit, FlightShape, RequestShape, QueueShape, DatabaseShape
  <1>3. row \in [User -> Row]
    BY DEF AccountInit, Row
  <1>4. /\ issued \in 0 .. MaxRequests /\ written \in 0 .. MaxWrites
        /\ asked \in 0 .. MaxReads /\ kills \in 0 .. MaxKills
    BY AccountAssumption DEF AccountInit
  <1>5. ScalarShape
    BY <1>3, <1>4 DEF AccountInit, ScalarShape
  <1> QED
    BY <1>1, <1>2, <1>5 DEF AccountShape

\* AccountShape says all that AccountTypeOK does.
LEMMA ShapeIsTyped ==
    ASSUME AccountShape
    PROVE  AccountTypeOK
  BY DEF AccountShape, UiShape, FlightShape, RequestShape, QueueShape, DatabaseShape, ScalarShape,
         AccountTypeOK, Event

\* Every variable keeps its type through the handlers of all the screens, the
\* callbacks and the answers of both servers: AccountTypeOK.
THEOREM AccountTypeCorrect == AccountSpec => []AccountTypeOK
  <1>1. AccountInit => AccountShape
    BY ShapeInit
  <1>2. AccountShape /\ [AccountNext]_accountVars => AccountShape'
    BY ShapeStep
  <1>3. AccountShape => AccountTypeOK
    BY ShapeIsTyped
  <1> QED
    BY <1>1, <1>2, <1>3, PTL DEF AccountSpec

-----------------------------------------------------------------------------

\* Who the current user is after a step, and whom the server has accepted.
SessionChange ==
    \/ UNCHANGED <<currentUser, accepted, forced>>
    \/ \E u \in User : currentUser' = u /\ accepted' = accepted \cup {u} /\ forced' = forced
    \/ /\ Pushed(NewScreen("login"))
       /\ currentUser' \in {currentUser, NoUser} /\ UNCHANGED <<accepted, forced>>
    \/ currentUser' \in {currentUser, NoUser} /\ accepted' = accepted /\ forced' = TRUE
    \/ Relaunch

\* Every step changes the current user in one of the ways of SessionChange.
LEMMA SessionStep ==
    ASSUME AccountShape, [AccountNext]_accountVars
    PROVE  SessionChange
  <1>1. CASE StartStep
    BY <1>1
    DEF StartStep, LogInBtnPressed, LogInBlank, SignUpBtnPressed, RegisterBtnPressed,
        AlreadyBtnPressed, RegisteredOk, AlertDismissed, Dismiss, Navigates, OnlyScreens,
        SendRequest, authVars, historyVars, SessionChange
  <1>2. CASE ProfileStep
    <2>1. ASSUME NEW ok \in BOOLEAN, LogOutOk(ok)
          PROVE  SessionChange
      BY <2>1, AlertKeepsQuiet DEF AccountShape, LogOutOk, Pushed, historyVars, SessionChange
    <2>2. CASE UNCHANGED <<currentUser, accepted, forced>>
      BY <2>2 DEF SessionChange
    <2>3. ASSUME NEW p \in Password, UpdateBtnPressed(p)
          PROVE  UNCHANGED <<currentUser, accepted, forced>>
      BY <2>3 DEF UpdateBtnPressed, WithUid, SendRequest, authVars
    <2> QED
      BY <1>2, <2>1, <2>2, <2>3
      DEF ProfileStep, MyProfilePageBtnPressed, ProfileBackBtnPressed, UpdateUserNameBtnPressed,
          UpdateUserNameOk, UpdatePasswordBtnPressed, LogOutBtnPressed, ChangeBackBtnPressed,
          DoneBtnPressed, UpdateInvalid, UpdatedOk, Dismiss, Navigates, OnlyScreens, authVars,
          historyVars
  <1>3. CASE MainQueueStep
    BY <1>3 DEF MainQueueStep, HandleSignedIn, HandleCreated, HandleRenamed, HandleValue,
                authVars, historyVars, SessionChange
  <1>4. ASSUME NEW i \in DOMAIN requests, AuthAccepts(i)
        PROVE  SessionChange
    BY <1>4, QueuedRequest DEF AccountShape, AuthAccepts, SignInFlow, SessionChange
  <1>5. CASE ServerStep
    BY <1>4, <1>5 DEF ServerStep, AuthFails, TokenInvalid, WriteAnswered, ReadAnswered, authVars,
                      historyVars, SessionChange
  <1>6. CASE Relaunch
    BY <1>6 DEF SessionChange
  <1>7. CASE UNCHANGED accountVars
    BY <1>7 DEF accountVars, authVars, historyVars, SessionChange
  <1> QED
    BY <1>1, <1>2, <1>3, <1>5, <1>6, <1>7 DEF AccountNext

\* Once the server has accepted somebody since launch, the current user is
\* one it accepted; and what opens a list comes only after that.
AcceptedSince ==
    /\ accepted # {} => currentUser \in accepted \cup {NoUser}
    /\ \A i \in DOMAIN mainQueue : Accepted(mainQueue[i]) => accepted # {}
    /\ \A s \in DOMAIN screens : screens[s].alert = "registered" => accepted # {}

\* The inductive invariant behind ListMeansAccepted.
AcceptedInv == AcceptedSince /\ ListMeansAccepted

\* The head of the main queue is one of its events.
LEMMA HeadQueued ==
    ASSUME QueueShape, mainQueue # <<>>
    PROVE  1 \in DOMAIN mainQueue /\ Head(mainQueue) = mainQueue[1] /\ Head(mainQueue) \in Event
  BY TailSeq DEF QueueShape

\* Where the events on the main queue come from.
LEMMA QueueElements ==
    ASSUME AccountShape, QueueChange, ~Relaunch, NEW j \in DOMAIN mainQueue'
    PROVE  \/ \E i \in DOMAIN mainQueue : mainQueue'[j] = mainQueue[i]
           \/ /\ Accepted(mainQueue'[j]) => currentUser' # NoUser /\ currentUser' \in accepted'
              /\ mainQueue'[j].type \in {"signIn", "create"} =>
                    \E i \in DOMAIN requests : mainQueue'[j].screen = requests[i].screen
  <1>1. mainQueue \in Seq(Event)
    BY DEF AccountShape, FlightShape, QueueShape
  <1>2. CASE mainQueue' = mainQueue
    BY <1>2
  <1>3. CASE mainQueue # <<>> /\ mainQueue' = Tail(mainQueue)
    BY <1>1, <1>3, TailSeq
  <1>4. ASSUME NEW e \in Event, mainQueue' = Append(mainQueue, e),
               e.type \in {"signIn", "create"} => \E i \in DOMAIN requests : e.screen = requests[i].screen,
               Accepted(e) => currentUser' # NoUser /\ currentUser' \in accepted'
        PROVE  \/ \E i \in DOMAIN mainQueue : mainQueue'[j] = mainQueue[i]
               \/ /\ Accepted(mainQueue'[j]) => currentUser' # NoUser /\ currentUser' \in accepted'
                  /\ mainQueue'[j].type \in {"signIn", "create"} =>
                        \E i \in DOMAIN requests : mainQueue'[j].screen = requests[i].screen
    <2>1. /\ DOMAIN mainQueue' = DOMAIN mainQueue \cup {Len(mainQueue) + 1}
          /\ \A i \in DOMAIN mainQueue : mainQueue'[i] = mainQueue[i]
          /\ mainQueue'[Len(mainQueue) + 1] = e
      BY <1>1, <1>4, AppendSeq
    <2>2. CASE j \in DOMAIN mainQueue
      BY <2>1, <2>2
    <2>3. CASE j = Len(mainQueue) + 1
      BY <1>4, <2>1, <2>3
    <2> QED
      BY <2>1, <2>2, <2>3
  <1> QED
    BY <1>2, <1>3, <1>4 DEF QueueChange

\* No step opens a list for a user the server did not accept.
LEMMA AcceptedStep ==
    ASSUME AccountShape, AcceptedInv, [AccountNext]_accountVars
    PROVE  AcceptedInv'
  <1> USE DEF AcceptedInv, AcceptedSince
  <1>1. CASE Relaunch
    <2>1. screens' = <<NewScreen("login")>> /\ mainQueue' = <<>> /\ accepted' = {}
      BY <1>1 DEF Relaunch
    <2>2. DOMAIN screens' = {1} /\ screens'[1].kind = "login" /\ screens'[1].alert = "none"
      BY <2>1 DEF NewScreen
    <2> QED
      BY <2>1, <2>2 DEF ListMeansAccepted
  <1>2. CASE ~Relaunch
    <2>1. accepted \subseteq accepted' /\ (accepted' # {} => currentUser' \in accepted' \cup {NoUser})
      BY <1>2, SessionStep DEF SessionChange
    <2>2. \A i \in DOMAIN mainQueue' : Accepted(mainQueue'[i]) => accepted' # {}
      BY <1>2, <2>1, QueueStep, QueueElements
    <2> DEFINE Fine(s) == /\ screens'[s].alert = "registered" => accepted' # {}
                          /\ screens'[s].kind = "list" => screens'[s].email \in accepted'
    <2>3. ASSUME NEW ss, KeepsQuiet(ss), NEW s \in DOMAIN screens, screens'[s] = ss[s]
          PROVE  Fine(s)
      BY <2>1, <2>3 DEF KeepsQuiet, KeepsKinds, ListMeansAccepted
    <2>4. ASSUME NEW new \in Screen, Pushed(new), new.alert = "none",
                 new.kind = "list" => new.email \in accepted,
                 NEW s \in DOMAIN screens'
          PROVE  Fine(s)
      <3>1. PICK ss : KeepsQuiet(ss) /\ Present(ss, new)
        BY <2>4 DEF Pushed
      <3>2. /\ DOMAIN screens' = DOMAIN screens \cup {Len(screens) + 1}
            /\ \A i \in DOMAIN screens : screens'[i] = ss[i]
            /\ screens'[Len(screens) + 1] = new
        BY <3>1, PushShape DEF AccountShape, KeepsQuiet
      <3>3. CASE s \in DOMAIN screens
        BY <2>3, <3>1, <3>2, <3>3
      <3>4. CASE s = Len(screens) + 1
        BY <2>1, <2>4, <3>2, <3>4
      <3> QED
        BY <3>2, <3>3, <3>4
    <2>5. ASSUME NEW s \in DOMAIN screens'
          PROVE  Fine(s)
      <3>1. CASE Edited
        <4>1. KeepsQuiet(screens') /\ DOMAIN screens' = DOMAIN screens
          BY <3>1 DEF Edited, KeepsQuiet, KeepsKinds
        <4> QED
          BY <2>3, <4>1
      <3>2. CASE HandleCreated
        <4>1. KeepsKinds(screens')
          BY <3>2, CreatedEdit DEF AccountShape
        <4>2. mainQueue # <<>> /\ Accepted(Head(mainQueue))
          BY <3>2 DEF HandleCreated, Accepted
        <4>3. accepted # {}
          BY <4>2, HeadQueued DEF AccountShape, FlightShape
        <4> QED
          BY <2>1, <4>1, <4>3 DEF KeepsKinds, ListMeansAccepted
      <3>3. ASSUME NEW kind \in Kind \ {"list"}, Pushed(NewScreen(kind))
            PROVE  Fine(s)
        <4>1. NewScreen(kind) \in Screen /\ NewScreen(kind).kind = kind /\ NewScreen(kind).alert = "none"
          BY NewScreenTyped DEF NewScreen
        <4> QED
          BY <2>4, <3>3, <4>1
      <3>4. CASE currentUser # NoUser /\ MayOpenList /\ Pushed(ListScreen)
        <4>1. accepted # {}
          <5>1. CASE screens[Top].alert = "registered"
            BY <5>1, TopIsScreen DEF AccountShape
          <5>2. CASE mainQueue # <<>> /\ Accepted(Head(mainQueue))
            BY <5>2, HeadQueued DEF AccountShape, FlightShape
          <5> QED
            BY <3>4, <5>1, <5>2 DEF MayOpenList
        <4>2. currentUser \in accepted
          BY <3>4, <4>1
        <4>3. /\ ListScreen \in Screen /\ ListScreen.alert = "none"
              /\ ListScreen.email = currentUser
          BY <3>4 DEF AccountShape, ScalarShape, ListScreen, NewScreen, Screen, Kind
        <4> QED
          BY <2>4, <3>4, <4>2, <4>3
      <3>5. ASSUME NEW kind \in {"registration", "profile", "changePassword"}, Dismiss(kind)
            PROVE  Fine(s)
        <4>1. KeepsQuiet(screens') /\ DOMAIN screens' = DOMAIN screens
          BY <3>5, PopShape DEF AccountShape
        <4> QED
          BY <2>3, <4>1
      <3> HIDE DEF Fine
      <3> QED
        BY <1>2, <3>1, <3>2, <3>3, <3>4, <3>5, StepChange DEF UiChange, Kind
    <2> QED
      BY <2>1, <2>2, <2>5 DEF ListMeansAccepted
  <1> QED
    BY <1>1, <1>2

\* A list opens only for a user whose credentials the server accepted since the
\* launch (logInBtnPressed, RegisterBtnPressed): ListMeansAccepted.
THEOREM ListOnlyIfAccepted == AccountSpec => []ListMeansAccepted
  <1>1. AccountInit => AccountShape /\ AcceptedInv
    <2>1. ASSUME AccountInit
          PROVE  AcceptedInv
      <3>1. screens = <<NewScreen("login")>> /\ mainQueue = <<>> /\ accepted = {}
        BY <2>1 DEF AccountInit
      <3>2. DOMAIN screens = {1} /\ screens[1].kind = "login" /\ screens[1].alert = "none"
        BY <3>1 DEF NewScreen
      <3> QED
        BY <3>1, <3>2 DEF AcceptedInv, AcceptedSince, ListMeansAccepted
    <2> QED
      BY <2>1, ShapeInit
  <1>2. AccountShape /\ AcceptedInv /\ [AccountNext]_accountVars => (AccountShape /\ AcceptedInv)'
    BY ShapeStep, AcceptedStep
  <1>3. AcceptedInv => ListMeansAccepted
    BY DEF AcceptedInv
  <1> QED
    BY <1>1, <1>2, <1>3, PTL DEF AccountSpec

-----------------------------------------------------------------------------

\* The screen s leads no further by itself: no callback opens a list on it.
NoWayOn(s) ==
    /\ screens[s].kind \in {"login", "registration"}
    /\ screens[s].alert # "registered"
    /\ \A i \in DOMAIN mainQueue : Accepted(mainQueue[i]) => mainQueue[i].screen # s

\* Without a current user there is a login screen, and only registrations on
\* top of it, none of them with a way on: the buttons of the screens below it,
\* which need a user, cannot be reached.
SignedOut ==
    currentUser = NoUser /\ ~forced =>
        \E p \in DOMAIN stack :
            /\ screens[stack[p]].kind = "login"
            /\ \A q \in p .. Len(stack) : NoWayOn(stack[q])

\* The inductive invariant behind TapsNeverTrap.
SignedOutInv == SignedOut /\ TapsNeverTrap

\* Where the program stops for want of a user.
LEMMA TrapChange ==
    ASSUME AccountShape, [AccountNext]_accountVars
    PROVE  \/ trap' \in {trap, "none", "created", "renamed"}
           \/ /\ currentUser = NoUser
              /\ screens[Top].kind \in {"list", "profile", "changePassword"} \/ MayOpenList
  <1>1. CASE RegisteredOk
    BY <1>1 DEF RegisteredOk, Shows, PresentList, WithUid, MayOpenList
  <1>2. CASE StartStep /\ ~RegisteredOk
    BY <1>2
    DEF StartStep, LogInBtnPressed, LogInBlank, SignUpBtnPressed, RegisterBtnPressed,
        AlreadyBtnPressed, AlertDismissed, Dismiss, Navigates, OnlyScreens
  <1>3. CASE ProfileStep
    <2>1. CASE MyProfilePageBtnPressed \/ UpdatedOk
      BY <2>1 DEF MyProfilePageBtnPressed, UpdatedOk, Tappable, Shows, PresentProfile, WithUid
    <2>2. CASE UpdateUserNameOk
      BY <2>2 DEF UpdateUserNameOk, Shows, WithUid
    <2>3. CASE \E typed \in Password \cup {None} : DoneBtnPressed(typed)
      BY <2>3 DEF DoneBtnPressed, Tappable, Shows, WithUid
    <2>4. CASE \E p \in Password : UpdateBtnPressed(p)
      BY <2>4 DEF UpdateBtnPressed, Tappable, Shows, WithUid
    <2>5. CASE \E ok \in BOOLEAN : LogOutOk(ok)
      BY <2>5 DEF LogOutOk
    <2>6. CASE \/ ProfileBackBtnPressed \/ UpdateUserNameBtnPressed \/ UpdatePasswordBtnPressed
               \/ LogOutBtnPressed \/ ChangeBackBtnPressed \/ UpdateInvalid
      BY <2>6 DEF ProfileBackBtnPressed, UpdateUserNameBtnPressed, UpdatePasswordBtnPressed,
                  LogOutBtnPressed, ChangeBackBtnPressed, UpdateInvalid, Dismiss, Navigates
    <2> QED
      BY <1>3, <2>1, <2>2, <2>3, <2>4, <2>5, <2>6 DEF ProfileStep
  <1>4. CASE HandleSignedIn
    <2> DEFINE e == Head(mainQueue)
    <2>1. mainQueue # <<>> /\ e.type = "signIn" /\ LogInCallback(e)
      BY <1>4 DEF HandleSignedIn
    <2>2. CASE CanPresent(e.screen) /\ e.ok /\ PresentList(screens)
      BY <2>1, <2>2 DEF MayOpenList, Accepted, PresentList, WithUid
    <2> QED
      BY <2>1, <2>2 DEF LogInCallback
  <1>5. CASE HandleCreated \/ HandleRenamed \/ HandleValue
    BY <1>5 DEF HandleCreated, HandleRenamed, HandleValue, WithUid
  <1>6. CASE ServerStep \/ Relaunch \/ UNCHANGED accountVars
    BY <1>6 DEF ServerStep, AuthAccepts, AuthFails, TokenInvalid, WriteAnswered, ReadAnswered,
                Relaunch, accountVars
  <1> QED
    BY <1>1, <1>2, <1>3, <1>4, <1>5, <1>6 DEF AccountNext, MainQueueStep

\* A screen with no way on gets none from a step that leaves nobody signed in.
LEMMA NoWayKept ==
    ASSUME AccountShape, QueueChange, ~Relaunch, currentUser' = NoUser,
           NEW s \in DOMAIN screens, NoWayOn(s),
           screens'[s].kind = screens[s].kind,
           screens'[s].alert = "registered" => screens[s].alert = "registered"
    PROVE  NoWayOn(s)'
  BY QueueElements DEF NoWayOn

\* Nor has a screen that was not there before.
LEMMA NoWayNew ==
    ASSUME AccountShape, QueueChange, ~Relaunch, currentUser' = NoUser,
           NEW s, s \notin DOMAIN screens,
           screens'[s].kind \in {"login", "registration"}, screens'[s].alert # "registered"
    PROVE  NoWayOn(s)'
  <1>1. ASSUME NEW j \in DOMAIN mainQueue', Accepted(mainQueue'[j])
        PROVE  mainQueue'[j].screen # s
    <2>1. mainQueue'[j].type \in {"signIn", "create"}
      BY <1>1 DEF Accepted
    <2>2. PICK i \in DOMAIN mainQueue : mainQueue'[j] = mainQueue[i]
      BY <1>1, QueueElements
    <2> QED
      BY <2>1, <2>2 DEF AccountShape, FlightShape, QueueShape
  <1> QED
    BY <1>1 DEF NoWayOn, Accepted

\* What SignedOut says of the visible screen.
LEMMA NoWayOnTop ==
    ASSUME AccountShape, SignedOut, currentUser = NoUser, ~forced
    PROVE  NoWayOn(Top) /\ ~MayOpenList
  <1>1. NoWayOn(Top)
    BY TopIsScreen DEF AccountShape, SignedOut
  <1>2. mainQueue # <<>> => 1 \in DOMAIN mainQueue /\ Head(mainQueue) = mainQueue[1]
    BY HeadQueued DEF AccountShape, FlightShape
  <1> QED
    BY <1>1, <1>2 DEF NoWayOn, MayOpenList, CanPresent

\* A login screen that comes on top of the others.
LEMMA LoginPushed ==
    ASSUME AccountShape, QueueChange, ~Relaunch, currentUser' = NoUser,
           Pushed(NewScreen("login"))
    PROVE  SignedOut'
  <1>0. PICK n, p : n = Len(screens) + 1 /\ p = Len(stack) + 1
    OBVIOUS
  <1>1. PICK ss : KeepsQuiet(ss) /\ Present(ss, NewScreen("login"))
    BY DEF Pushed
  <1>2. NewScreen("login") \in Screen
    BY NewScreenTyped DEF Kind
  <1>3. /\ screens'[n] = NewScreen("login") /\ Len(stack') = p /\ stack'[p] = n
        /\ DOMAIN stack' = 1 .. Len(stack') /\ Len(stack) \in Nat
    BY <1>0, <1>1, <1>2, PushShape, TopIsScreen, LenProperties DEF AccountShape, KeepsQuiet, UiShape
  <1>4. n \notin DOMAIN screens
    BY <1>0, TopIsScreen DEF AccountShape
  <1>5. screens'[n].kind = "login" /\ screens'[n].alert = "none"
    BY <1>3 DEF NewScreen
  <1>6. NoWayOn(n)'
    BY <1>4, <1>5, NoWayNew
  <1>7. p \in DOMAIN stack' /\ \A q \in p .. Len(stack') : q = p
    BY <1>0, <1>3
  <1> QED
    BY <1>3, <1>5, <1>6, <1>7 DEF SignedOut

\* No step leaves a signed-out user a screen that needs one: signOut and Relaunch
\* show a login screen, and no accepted callback is left to open a list.
LEMMA SignedOutStep ==
    ASSUME AccountShape, SignedOut, [AccountNext]_accountVars
    PROVE  SignedOut'
  <1>1. CASE Relaunch
    <2>1. screens' = <<NewScreen("login")>> /\ stack' = <<1>> /\ mainQueue' = <<>>
      BY <1>1 DEF Relaunch
    <2>2. /\ DOMAIN stack' = {1} /\ stack'[1] = 1 /\ Len(stack') = 1
          /\ screens'[1].kind = "login" /\ screens'[1].alert = "none"
      BY <2>1 DEF NewScreen
    <2>3. /\ screens'[1].kind \in {"login", "registration"}
          /\ screens'[1].alert # "registered"
          /\ \A i \in DOMAIN mainQueue' : Accepted(mainQueue'[i]) => mainQueue'[i].screen # 1
      BY <2>1, <2>2
    <2>4. 1 \in DOMAIN stack' /\ \A q \in 1 .. Len(stack') : stack'[q] = 1
      BY <2>2
    <2> QED
      BY <2>2, <2>3, <2>4 DEF SignedOut, NoWayOn, Accepted
  <1>2. CASE Pushed(NewScreen("login")) /\ currentUser' = NoUser /\ ~Relaunch
    BY <1>2, LoginPushed, QueueStep
  <1>3. ASSUME ~Relaunch, ~Pushed(NewScreen("login")), currentUser' = NoUser, ~forced'
        PROVE  SignedOut'
    <2>1. currentUser = NoUser /\ ~forced
      <3>1. forced' # TRUE /\ \A u \in User : currentUser' # u
        BY <1>3, AccountAssumption
      <3>2. UNCHANGED <<currentUser, accepted, forced>>
        BY <1>3, <3>1, SessionStep DEF SessionChange
      <3> QED
        BY <1>3, <3>2
    <2>2. QueueChange /\ UiChange
      BY QueueStep, StepChange
    <2>3. NoWayOn(Top) /\ ~MayOpenList
      BY <2>1, NoWayOnTop
    <2>4. PICK p \in DOMAIN stack : /\ screens[stack[p]].kind = "login"
                                    /\ \A q \in p .. Len(stack) : NoWayOn(stack[q])
      BY <2>1 DEF SignedOut
    <2>5. /\ \A q \in DOMAIN stack : stack[q] \in DOMAIN screens
          /\ DOMAIN stack = 1 .. Len(stack) /\ Len(stack) \in Nat /\ Len(stack) \in DOMAIN stack
          /\ Top = stack[Len(stack)]
      <3>1. DOMAIN stack = 1 .. Len(stack) /\ Len(stack) \in Nat
        BY TopIsScreen DEF AccountShape
      <3>2. stack \in Seq(DOMAIN screens)
        BY DEF AccountShape, UiShape
      <3> QED
        BY <3>1, <3>2, ElementOfSeq, TopIsScreen DEF AccountShape
    \* NoWayOn(s)', for a screen of the step's first or second state.
    <2> DEFINE After(s) ==
                 /\ screens'[s].kind \in {"login", "registration"}
                 /\ screens'[s].alert # "registered"
                 /\ \A i \in DOMAIN mainQueue' : Accepted(mainQueue'[i]) => mainQueue'[i].screen # s
    <2>6. ASSUME NEW ss, KeepsQuiet(ss), NEW s \in DOMAIN screens, screens'[s] = ss[s], NoWayOn(s)
          PROVE  After(s)
      <3>1. NoWayOn(s)'
        BY <1>3, <2>2, <2>6, NoWayKept DEF KeepsQuiet, KeepsKinds
      <3> QED
        BY <3>1 DEF NoWayOn, Accepted
    <2>7. ASSUME NEW m \in DOMAIN stack', screens'[stack'[m]].kind = "login",
                 \A q \in m .. Len(stack') : After(stack'[q])
          PROVE  SignedOut'
      BY <2>7 DEF SignedOut, NoWayOn, Accepted
    <2> HIDE DEF After
    <2>8. ASSUME NEW ss, KeepsQuiet(ss), screens' = ss, stack' = stack
          PROVE  SignedOut'
      <3>1. \A q \in p .. Len(stack) : After(stack[q])
        BY <2>4, <2>5, <2>6, <2>8
      <3>2. screens'[stack[p]].kind = "login"
        BY <2>4, <2>5, <2>8 DEF KeepsQuiet, KeepsKinds
      <3> QED
        BY <2>7, <2>8, <3>1, <3>2
    <2>9. CASE HandleCreated
      <3>1. ~CanPresent(Head(mainQueue).screen)
        BY <2>3, <2>9 DEF HandleCreated, MayOpenList, Accepted
      <3>2. screens' = screens /\ stack' = stack
        BY <2>9, <3>1 DEF HandleCreated
      <3> QED
        BY <2>8, <3>2, ScreensKeepQuiet DEF AccountShape
    <2>10. CASE Pushed(NewScreen("registration"))
      <3>1. PICK n, k : n = Len(screens) + 1 /\ k = Len(stack) + 1
        OBVIOUS
      <3>2. PICK ss : KeepsQuiet(ss) /\ Present(ss, NewScreen("registration"))
        BY <2>10 DEF Pushed
      <3>3. /\ NewScreen("registration") \in Screen
            /\ NewScreen("registration").kind = "registration" /\ NewScreen("registration").alert = "none"
        BY NewScreenTyped DEF Kind, NewScreen
      <3>4. /\ screens'[n] = NewScreen("registration") /\ Len(stack') = k /\ stack'[k] = n
            /\ \A i \in DOMAIN stack : stack'[i] = stack[i]
            /\ \A i \in DOMAIN screens : screens'[i] = ss[i]
            /\ UiShape'
        BY <3>1, <3>2, <3>3, PushShape DEF AccountShape, KeepsQuiet
      <3>5. DOMAIN stack' = 1 .. k
        BY <3>4, LenProperties DEF UiShape
      <3>6. n \notin DOMAIN screens
        BY <3>1, TopIsScreen DEF AccountShape
      <3>7. After(n)
        <4>1. NoWayOn(n)'
          BY <1>3, <2>2, <3>3, <3>4, <3>6, NoWayNew
        <4> QED
          BY <4>1 DEF NoWayOn, After, Accepted
      <3>8. \A q \in p .. Len(stack) : After(stack'[q])
        BY <2>4, <2>5, <2>6, <3>2, <3>4
      <3>9. p .. k = (p .. Len(stack)) \cup {k} /\ p \in DOMAIN stack'
        BY <2>4, <2>5, <3>1, <3>5
      <3>10. screens'[stack'[p]].kind = "login"
        BY <2>4, <2>5, <3>2, <3>4 DEF KeepsQuiet, KeepsKinds
      <3> QED
        BY <2>7, <3>4, <3>7, <3>8, <3>9, <3>10
    <2>11. ASSUME NEW kind \in {"registration", "profile", "changePassword"}, Dismiss(kind)
           PROVE  SignedOut'
      <3>1. /\ KeepsQuiet(screens') /\ Len(stack') = Len(stack) - 1 /\ UiShape'
            /\ \A i \in 1 .. (Len(stack) - 1) : stack'[i] = stack[i]
        BY <2>11, PopShape DEF AccountShape
      <3>2. screens[Top].kind # "login"
        BY <2>11 DEF Dismiss, Tappable, Shows
      <3>3. p \in 1 .. (Len(stack) - 1)
        BY <2>4, <2>5, <3>2
      <3>4. DOMAIN stack' = 1 .. (Len(stack) - 1)
        BY <3>1, LenProperties DEF UiShape
      <3>5. \A q \in p .. (Len(stack) - 1) : After(stack'[q])
        BY <2>4, <2>5, <2>6, <3>1, <3>3
      <3>6. screens'[stack'[p]].kind = "login"
        BY <2>4, <2>5, <3>1, <3>3 DEF KeepsQuiet, KeepsKinds
      <3> QED
        BY <2>7, <3>1, <3>3, <3>4, <3>5, <3>6
    <2>12. CASE Edited
      BY <2>8, <2>12 DEF Edited
    <2>13. screens[Top].kind # "profile"
      BY <2>3 DEF NoWayOn
    <2> QED
      BY <1>3, <2>1, <2>2, <2>3, <2>9, <2>10, <2>11, <2>12, <2>13 DEF UiChange
  <1>4. CASE ~(currentUser' = NoUser /\ ~forced')
    BY <1>4 DEF SignedOut
  <1> QED
    BY <1>1, <1>2, <1>3, <1>4

\* No tap meets a missing user.
LEMMA NoTrapStep ==
    ASSUME AccountShape, SignedOutInv, [AccountNext]_accountVars
    PROVE  TapsNeverTrap'
  <1>1. CASE Relaunch
    BY <1>1 DEF Relaunch, TapsNeverTrap
  <1>2. CASE ~Relaunch
    <2>1. forced => forced'
      BY <1>2, SessionStep DEF SessionChange
    <2>2. CASE trap' \in {trap, "none", "created", "renamed"}
      BY <2>1, <2>2 DEF SignedOutInv, TapsNeverTrap
    <2>3. CASE /\ currentUser = NoUser
               /\ screens[Top].kind \in {"list", "profile", "changePassword"} \/ MayOpenList
      <3>1. forced
        BY <2>3, NoWayOnTop DEF SignedOutInv, NoWayOn, AccountShape, ScalarShape
      <3> QED
        BY <2>1, <3>1 DEF TapsNeverTrap
    <2> QED
      BY <2>2, <2>3, TrapChange
  <1> QED
    BY <1>1, <1>2

\* (Auth.auth().currentUser?.uid)! in the handlers of the buttons always finds a
\* user, unless FIRUser signed it out by itself: TapsNeverTrap.
THEOREM NoTapTraps == AccountSpec => []TapsNeverTrap
  <1>1. AccountInit => AccountShape /\ SignedOutInv
    <2>1. ASSUME AccountInit
          PROVE  SignedOutInv
      <3>1. /\ screens = <<NewScreen("login")>> /\ stack = <<1>> /\ mainQueue = <<>>
            /\ trap = "none"
        BY <2>1 DEF AccountInit
      <3>2. /\ DOMAIN stack = {1} /\ stack[1] = 1 /\ Len(stack) = 1
            /\ screens[1].kind = "login" /\ screens[1].alert = "none"
        BY <3>1 DEF NewScreen
      <3>3. NoWayOn(1)
        BY <3>1, <3>2 DEF NoWayOn
      <3> QED
        BY <3>1, <3>2, <3>3 DEF SignedOutInv, SignedOut, TapsNeverTrap
    <2> QED
      BY <2>1, ShapeInit
  <1>2. AccountShape /\ SignedOutInv /\ [AccountNext]_accountVars => (AccountShape /\ SignedOutInv)'
    BY ShapeStep, SignedOutStep, NoTrapStep DEF SignedOutInv
  <1>3. SignedOutInv => TapsNeverTrap
    BY DEF SignedOutInv
  <1> QED
    BY <1>1, <1>2, <1>3, PTL DEF AccountSpec

-----------------------------------------------------------------------------
(* The account and the row of a user *)

\* The i-th request changes u's password.
Updates(i, u) == requests[i].type = "update" /\ requests[i].user = u

\* u's password will be p: that of the last change under way, or the server's.
AccountTarget(u, p) ==
    /\ (\A i \in DOMAIN requests : ~Updates(i, u)) => password[u] = p
    /\ \A i \in DOMAIN requests :
          Updates(i, u) /\ (\A j \in DOMAIN requests : Updates(j, u) => j <= i)
             => requests[i].password = p

\* The password in u's row will be p.
RowTarget(u, p) ==
    /\ (\A i \in DOMAIN writes : ~SetsPassword(i, u)) => row[u].password = p
    /\ \A i \in DOMAIN writes :
          SetsPassword(i, u) /\ (\A j \in DOMAIN writes : SetsPassword(j, u) => j <= i)
             => writes[i].password = p

\* u was registered, and the callback that writes its row is still to come.
Registering(u) ==
    \E i \in DOMAIN mainQueue : mainQueue[i].type = "create" /\ mainQueue[i].user = u

\* All changes of u's password under way were made through one FIRUser.
OneSession(u) ==
    \A i, j \in DOMAIN requests :
        Updates(i, u) /\ Updates(j, u) => requests[i].session = requests[j].session

\* The account and the row of u are heading for the same password.
SameTarget(u) ==
    Registering(u) \/ \E p \in Password \cup {None} : AccountTarget(u, p) /\ RowTarget(u, p)

\* What is under way for u makes its account and its row agree in the end, and
\* the changes of its password are answered in their order.
InStep(u) == OneSession(u) /\ SameTarget(u)

\* The inductive invariant behind PasswordsAgree.
PasswordsInStep == \A u \in User \ parted : InStep(u)

\* A request leaves: it does not change u's password, or it is the first that
\* does and was accepted.
LEMMA RequestLeaves ==
    ASSUME FlightShape, NEW u, NEW k \in DOMAIN requests, requests' = RemoveAt(requests, k)
    PROVE  /\ OneSession(u) => OneSession(u)'
           /\ \/ ~Updates(k, u) /\ password'[u] = password[u]
              \/ /\ Updates(k, u) /\ password'[u] = requests[k].password
                 /\ \A j \in DOMAIN requests : Updates(j, u) => k <= j
              => \A p : AccountTarget(u, p) => AccountTarget(u, p)'
  <1>0. requests \in Seq(Request) /\ DOMAIN requests = 1 .. Len(requests) /\ Len(requests) \in Nat
    BY LenProperties DEF FlightShape, RequestShape
  <1>1. PICK n \in Nat : n = Len(requests) - 1
    <2>1. k \in 1 .. Len(requests)
      BY <1>0
    <2>2. Len(requests) >= 1
      BY <1>0, <2>1
    <2>3. Len(requests) - 1 \in Nat
      BY <1>0, <2>2
    <2> QED
      BY <2>3
  <1>2. /\ DOMAIN requests' = 1 .. n
        /\ \A j \in 1 .. n : requests'[j] = IF j < k THEN requests[j] ELSE requests[j + 1]
    BY <1>0, <1>1, RemoveAtSeq
  <1>3. k \in 1 .. (n + 1) /\ DOMAIN requests = 1 .. (n + 1)
    BY <1>0, <1>1
  <1>10. PICK old : old = [j \in 1 .. n |-> IF j < k THEN j ELSE j + 1]
    OBVIOUS
  <1>4. \A j \in 1 .. n : old[j] \in DOMAIN requests /\ requests'[j] = requests[old[j]]
    BY <1>2, <1>3, <1>10
  <1>5. \A m \in DOMAIN requests : m # k => \E j \in 1 .. n : old[j] = m
    <2>1. ASSUME NEW m \in 1 .. (n + 1), m < k
          PROVE  m \in 1 .. n /\ old[m] = m
      BY <1>3, <1>10, <2>1
    <2>2. ASSUME NEW m \in 1 .. (n + 1), m > k
          PROVE  m - 1 \in 1 .. n /\ old[m - 1] = m
      BY <1>3, <1>10, <2>2
    <2> QED
      BY <1>3, <2>1, <2>2
  <1>6. \A i, j \in 1 .. n : i <= j <=> old[i] <= old[j]
    BY <1>3, <1>10
  <1>7. \A j \in 1 .. n : Updates(j, u)' <=> Updates(old[j], u)
    BY <1>4 DEF Updates
  <1>8. ASSUME OneSession(u)
        PROVE  OneSession(u)'
    BY <1>2, <1>4, <1>7, <1>8 DEF OneSession
  <1>9. ASSUME \/ ~Updates(k, u) /\ password'[u] = password[u]
               \/ /\ Updates(k, u) /\ password'[u] = requests[k].password
                  /\ \A j \in DOMAIN requests : Updates(j, u) => k <= j,
               NEW p, AccountTarget(u, p)
        PROVE  AccountTarget(u, p)'
    <2>1. ASSUME \A j \in 1 .. n : ~Updates(j, u)'
          PROVE  password'[u] = p
      <3>1. \A m \in DOMAIN requests : m # k => ~Updates(m, u)
        BY <1>5, <1>7, <2>1
      <3> QED
        BY <1>0, <1>9, <3>1 DEF AccountTarget
    <2>2. ASSUME NEW i \in 1 .. n, Updates(i, u)',
                 \A j \in 1 .. n : Updates(j, u)' => j <= i
          PROVE  requests'[i].password = p
      <3>1. old[i] \in DOMAIN requests /\ Updates(old[i], u)
        BY <1>4, <1>7, <2>2
      <3>2. ASSUME NEW m \in DOMAIN requests, Updates(m, u)
            PROVE  m <= old[i]
        <4>1. CASE m = k
          BY <1>9, <3>1, <3>2, <4>1
        <4>2. CASE m # k
          BY <1>5, <1>6, <1>7, <2>2, <3>2, <4>2
        <4> QED
          BY <4>1, <4>2
      <3> QED
        BY <1>4, <1>9, <3>1, <3>2 DEF AccountTarget
    <2> QED
      BY <1>2, <2>1, <2>2 DEF AccountTarget
  <1> QED
    BY <1>8, <1>9

\* A request is sent: it does not change u's password, or u's will be its own.
LEMMA RequestEnters ==
    ASSUME FlightShape, NEW u, NEW r \in Request, requests' = Append(requests, r)
    PROVE  /\ ~(r.type = "update" /\ r.user = u) /\ password'[u] = password[u] =>
                 /\ OneSession(u) => OneSession(u)'
                 /\ \A p : AccountTarget(u, p) => AccountTarget(u, p)'
           /\ /\ r.type = "update" /\ r.user = u /\ OneSession(u)
              /\ \A j \in DOMAIN requests : Updates(j, u) => requests[j].session = r.session
              => /\ OneSession(u)'
                 /\ \A p : p = r.password => AccountTarget(u, p)'
  <1>0. requests \in Seq(Request)
    BY DEF FlightShape, RequestShape
  <1>1. PICK n \in Nat : n = Len(requests)
    BY <1>0, LenProperties
  <1>2. /\ DOMAIN requests = 1 .. n /\ DOMAIN requests' = 1 .. (n + 1)
        /\ \A j \in 1 .. n : requests'[j] = requests[j]
        /\ requests'[n + 1] = r
    BY <1>0, <1>1, AppendSeq
  <1>3. \A j \in 1 .. n : Updates(j, u)' <=> Updates(j, u)
    BY <1>2 DEF Updates
  <1>4. \A j \in 1 .. (n + 1) : j = n + 1 \/ j \in 1 .. n
    OBVIOUS
  <1>5. \A j \in 1 .. n : j \in 1 .. (n + 1)
    OBVIOUS
  <1>6. ASSUME ~(r.type = "update" /\ r.user = u), password'[u] = password[u]
        PROVE  /\ OneSession(u) => OneSession(u)'
               /\ \A p : AccountTarget(u, p) => AccountTarget(u, p)'
    <2>1. \A j \in 1 .. (n + 1) : Updates(j, u)' => j \in 1 .. n
      BY <1>2, <1>4, <1>6 DEF Updates
    <2>2. OneSession(u) => OneSession(u)'
      BY <1>2, <1>3, <2>1 DEF OneSession
    <2>3. ASSUME NEW p, AccountTarget(u, p)
          PROVE  AccountTarget(u, p)'
      BY <1>2, <1>3, <1>5, <1>6, <2>1, <2>3 DEF AccountTarget
    <2> QED
      BY <2>2, <2>3
  <1>7. ASSUME r.type = "update", r.user = u, OneSession(u),
               \A j \in DOMAIN requests : Updates(j, u) => requests[j].session = r.session
        PROVE  /\ OneSession(u)'
               /\ \A p : p = r.password => AccountTarget(u, p)'
    <2>1. Updates(n + 1, u)' /\ n + 1 \in 1 .. (n + 1)
      BY <1>2, <1>7 DEF Updates
    <2>2. \A j \in 1 .. (n + 1) : Updates(j, u)' => requests'[j].session = r.session
      BY <1>2, <1>3, <1>4, <1>7
    <2>3. OneSession(u)'
      BY <1>2, <2>2 DEF OneSession
    <2>4. ASSUME NEW p, p = r.password
          PROVE  AccountTarget(u, p)'
      <3>1. \A i \in 1 .. (n + 1) : n + 1 <= i => i = n + 1
        OBVIOUS
      <3> QED
        BY <1>2, <2>1, <2>4, <3>1 DEF AccountTarget
    <2> QED
      BY <2>3, <2>4
  <1> QED
    BY <1>6, <1>7

\* A write is answered: it does not set the password in u's row, or it does.
LEMMA WriteLeaves ==
    ASSUME FlightShape, NEW u, writes # <<>>, writes' = Tail(writes),
           \/ ~SetsPassword(1, u) /\ row'[u].password = row[u].password
           \/ SetsPassword(1, u) /\ row'[u].password = writes[1].password
    PROVE  \A p : RowTarget(u, p) => RowTarget(u, p)'
  <1>0. writes \in Seq(Write)
    BY DEF FlightShape, DatabaseShape
  <1>1. PICK n \in Nat : n = Len(writes) - 1
    <2>1. Len(writes) \in Nat /\ Len(writes) >= 1
      BY <1>0, EmptySeq, LenProperties
    <2>2. Len(writes) - 1 \in Nat
      BY <2>1
    <2> QED
      BY <2>2
  <1>2. /\ DOMAIN writes' = 1 .. n /\ DOMAIN writes = 1 .. (n + 1)
        /\ \A j \in 1 .. n : j + 1 \in 1 .. (n + 1) /\ writes'[j] = writes[j + 1]
    <2>1. Len(writes) = n + 1 /\ DOMAIN writes = 1 .. Len(writes)
      BY <1>0, <1>1, LenProperties
    <2> QED
      BY <1>0, <1>1, <2>1, TailSeq
  <1>3. \A j \in 1 .. n : SetsPassword(j, u)' <=> SetsPassword(j + 1, u)
    BY <1>2 DEF SetsPassword
  <1>4. \A m \in 1 .. (n + 1) : m = 1 \/ \E j \in 1 .. n : m = j + 1
    <2>1. \A m \in 1 .. (n + 1) : m # 1 => m - 1 \in 1 .. n /\ m = (m - 1) + 1
      BY <1>1
    <2> QED
      BY <2>1
  <1>5. ASSUME NEW p, RowTarget(u, p)
        PROVE  RowTarget(u, p)'
    <2>1. ASSUME \A j \in 1 .. n : ~SetsPassword(j, u)'
          PROVE  row'[u].password = p
      <3>1. \A m \in 1 .. (n + 1) : m # 1 => ~SetsPassword(m, u)
        BY <1>3, <1>4, <2>1
      <3>2. 1 \in 1 .. (n + 1)
        OBVIOUS
      <3> QED
        BY <1>2, <1>5, <3>1, <3>2 DEF RowTarget
    <2>2. ASSUME NEW i \in 1 .. n, SetsPassword(i, u)',
                 \A j \in 1 .. n : SetsPassword(j, u)' => j <= i
          PROVE  writes'[i].password = p
      <3>1. i + 1 \in 1 .. (n + 1) /\ SetsPassword(i + 1, u) /\ writes'[i] = writes[i + 1]
        BY <1>2, <1>3, <2>2
      <3>2. \A m \in 1 .. (n + 1) : SetsPassword(m, u) => m <= i + 1
        BY <1>3, <1>4, <2>2
      <3> QED
        BY <1>2, <1>5, <3>1, <3>2 DEF RowTarget
    <2> QED
      BY <1>2, <2>1, <2>2 DEF RowTarget
  <1> QED
    BY <1>5

\* A write is sent: it does not set the password in u's row, or that will be its own.
LEMMA WriteEnters ==
    ASSUME FlightShape, NEW u, NEW w \in Write, writes' = Append(writes, w)
    PROVE  /\ ~(w.user = u /\ w.field # "userName") /\ row'[u].password = row[u].password =>
                 \A p : RowTarget(u, p) => RowTarget(u, p)'
           /\ w.user = u /\ w.field # "userName" => \A p : p = w.password => RowTarget(u, p)'
  <1>0. writes \in Seq(Write)
    BY DEF FlightShape, DatabaseShape
  <1>1. PICK n \in Nat : n = Len(writes)
    BY <1>0, LenProperties
  <1>2. /\ DOMAIN writes = 1 .. n /\ DOMAIN writes' = 1 .. (n + 1)
        /\ \A j \in 1 .. n : writes'[j] = writes[j]
        /\ writes'[n + 1] = w
    BY <1>0, <1>1, AppendSeq
  <1>3. \A j \in 1 .. n : SetsPassword(j, u)' <=> SetsPassword(j, u)
    BY <1>2 DEF SetsPassword
  <1>4. /\ \A j \in 1 .. (n + 1) : j = n + 1 \/ j \in 1 .. n
        /\ \A j \in 1 .. n : j \in 1 .. (n + 1)
    OBVIOUS
  <1>5. ASSUME ~(w.user = u /\ w.field # "userName"), row'[u].password = row[u].password,
               NEW p, RowTarget(u, p)
        PROVE  RowTarget(u, p)'
    <2>1. \A j \in 1 .. (n + 1) : SetsPassword(j, u)' => j \in 1 .. n
      BY <1>2, <1>4, <1>5 DEF SetsPassword
    <2> QED
      BY <1>2, <1>3, <1>4, <1>5, <2>1 DEF RowTarget
  <1>6. ASSUME w.user = u, w.field # "userName", NEW p, p = w.password
        PROVE  RowTarget(u, p)'
    <2>1. SetsPassword(n + 1, u)' /\ n + 1 \in 1 .. (n + 1)
      BY <1>2, <1>6 DEF SetsPassword
    <2>2. \A i \in 1 .. (n + 1) : n + 1 <= i => i = n + 1
      OBVIOUS
    <2> QED
      BY <1>2, <1>6, <2>1, <2>2 DEF RowTarget
  <1> QED
    BY <1>5, <1>6

\* The events of the main queue that follow, but for the one that is handled.
LEMMA RegistrationKept ==
    ASSUME AccountShape, NEW u,
           \/ mainQueue' = mainQueue
           \/ \E e : mainQueue' = Append(mainQueue, e)
           \/ /\ mainQueue # <<>> /\ mainQueue' = Tail(mainQueue)
              /\ ~(Head(mainQueue).type = "create" /\ Head(mainQueue).user = u)
    PROVE  Registering(u) => Registering(u)'
  <1>0. mainQueue \in Seq(Event)
    BY DEF AccountShape, FlightShape, QueueShape
  <1>1. CASE mainQueue' = mainQueue
    BY <1>1 DEF Registering
  <1>2. ASSUME NEW e, mainQueue' = Append(mainQueue, e)
        PROVE  Registering(u) => Registering(u)'
    <2>0. mainQueue \in Seq(Event \cup {e}) /\ e \in Event \cup {e}
      BY <1>0
    <2>1. PICK n \in Nat : n = Len(mainQueue)
      BY <1>0, LenProperties
    <2>2. /\ DOMAIN mainQueue = 1 .. n /\ DOMAIN mainQueue' = 1 .. (n + 1)
          /\ \A j \in 1 .. n : mainQueue'[j] = mainQueue[j]
      BY <1>2, <2>0, <2>1, AppendSeq
    <2>3. \A j \in 1 .. n : j \in 1 .. (n + 1)
      OBVIOUS
    <2> QED
      BY <2>2, <2>3 DEF Registering
  <1>3. ASSUME mainQueue # <<>>, mainQueue' = Tail(mainQueue),
               ~(Head(mainQueue).type = "create" /\ Head(mainQueue).user = u),
               Registering(u)
        PROVE  Registering(u)'
    <2>1. PICK i \in DOMAIN mainQueue : mainQueue[i].type = "create" /\ mainQueue[i].user = u
      BY <1>3 DEF Registering
    <2>2. Len(mainQueue) \in Nat /\ DOMAIN mainQueue = 1 .. Len(mainQueue) /\ Head(mainQueue) = mainQueue[1]
      BY <1>0, <1>3, TailSeq, LenProperties
    <2>3. i # 1 /\ i \in 1 .. Len(mainQueue)
      BY <1>3, <2>1, <2>2
    <2>4. PICK m \in 1 .. (Len(mainQueue) - 1) : m + 1 = i
      <3>1. i - 1 \in 1 .. (Len(mainQueue) - 1) /\ (i - 1) + 1 = i
        BY <2>2, <2>3
      <3> QED
        BY <3>1
    <2>5. m \in DOMAIN mainQueue' /\ mainQueue'[m] = mainQueue[i]
      BY <1>0, <1>3, <2>4, TailSeq
    <2> QED
      BY <2>1, <2>5 DEF Registering
  <1> QED
    BY <1>1, <1>2, <1>3

\* The step leaves what u's password will be, in the account and in the row.
Kept(u) ==
    /\ OneSession(u) => OneSession(u)'
    /\ Registering(u) => Registering(u)'
    /\ \A p : AccountTarget(u, p) => AccountTarget(u, p)'
    /\ \A p : RowTarget(u, p) => RowTarget(u, p)'

\* A step that leaves both targets alone leaves them equal.
LEMMA KeptInStep ==
    ASSUME NEW u, InStep(u), Kept(u)
    PROVE  InStep(u)'
  <1>1. OneSession(u)'
    BY DEF InStep, Kept
  <1>2. SameTarget(u)'
    BY DEF InStep, Kept, SameTarget
  <1> QED
    BY <1>1, <1>2 DEF InStep

\* A step that has nothing to do with the account.
LEMMA AccountUntouched ==
    ASSUME requests' = requests, NEW u, password'[u] = password[u]
    PROVE  /\ OneSession(u) => OneSession(u)'
           /\ \A p : AccountTarget(u, p) => AccountTarget(u, p)'
  BY DEF OneSession, AccountTarget, Updates

\* A step that has nothing to do with the row.
LEMMA RowUntouched ==
    ASSUME writes' = writes, NEW u, row'[u].password = row[u].password
    PROVE  \A p : RowTarget(u, p) => RowTarget(u, p)'
  BY DEF RowTarget, SetsPassword

\* Requests that do not change a password.
LEMMA OtherRequestSent ==
    ASSUME AccountShape, NEW type \in {"signIn", "create"}, NEW v \in User, NEW q \in Password,
           SendRequest(type, v, q), NEW u, password'[u] = password[u]
    PROVE  /\ OneSession(u) => OneSession(u)'
           /\ \A p : AccountTarget(u, p) => AccountTarget(u, p)'
  <1> DEFINE r == [type |-> type, screen |-> Top, user |-> v, password |-> q, session |-> session]
  <1>1. r \in Request
    BY TopIsScreen DEF AccountShape, ScalarShape, Request
  <1>2. requests' = Append(requests, r) /\ r.type # "update"
    BY DEF SendRequest
  <1> HIDE DEF r
  <1> QED
    BY <1>1, <1>2, RequestEnters DEF AccountShape

\* What SetValue adds to the writes under way.
LEMMA WriteSent ==
    ASSUME AccountShape, currentUser # NoUser,
           NEW field \in {"row", "password", "userName"}, NEW s \in ScreenIds,
           NEW e \in User \cup {None}, NEW q \in Password \cup {None}, SetValue(field, s, e, q),
           NEW u
    PROVE  /\ ~(currentUser = u /\ field # "userName") /\ row'[u].password = row[u].password =>
                 \A p : RowTarget(u, p) => RowTarget(u, p)'
           /\ currentUser = u /\ field # "userName" => \A p : p = q => RowTarget(u, p)'
  <1> DEFINE w == [field |-> field, screen |-> s, user |-> currentUser, email |-> e, password |-> q]
  <1>1. w \in Write
    BY DEF AccountShape, ScalarShape, Write
  <1>2. writes' = Append(writes, w) /\ w.user = currentUser /\ w.field = field /\ w.password = q
    BY DEF SetValue
  <1> HIDE DEF w
  <1> QED
    BY <1>1, <1>2, WriteEnters DEF AccountShape

\* The login and registration screens send requests that change no password.
LEMMA StartInStep ==
    ASSUME AccountShape, StartStep \/ UNCHANGED accountVars, NEW u, InStep(u)
    PROVE  InStep(u)'
  <1>1. password' = password /\ row' = row /\ writes' = writes /\ mainQueue' = mainQueue
    BY DEF StartStep, LogInBtnPressed, LogInBlank, SignUpBtnPressed, RegisterBtnPressed,
           AlreadyBtnPressed, RegisteredOk, AlertDismissed, Dismiss, Navigates, OnlyScreens,
           accountVars, serverVars, dbVars
  <1>2. \/ requests' = requests
        \/ \E type \in {"signIn", "create"}, v \in User, q \in Password : SendRequest(type, v, q)
    BY DEF StartStep, LogInBtnPressed, LogInBlank, SignUpBtnPressed, RegisterBtnPressed,
           AlreadyBtnPressed, RegisteredOk, AlertDismissed, Dismiss, Navigates, OnlyScreens,
           accountVars, authVars
  <1>3. /\ OneSession(u) => OneSession(u)'
        /\ \A p : AccountTarget(u, p) => AccountTarget(u, p)'
    BY <1>1, <1>2, AccountUntouched, OtherRequestSent
  <1>4. \A p : RowTarget(u, p) => RowTarget(u, p)'
    BY <1>1, RowUntouched
  <1>5. Registering(u) => Registering(u)'
    BY <1>1, RegistrationKept
  <1> QED
    BY <1>3, <1>4, <1>5, KeptInStep DEF Kept

\* A change of the password sets both; it meets no other session's, nor a
\* registration, unless its user counts as parted.
LEMMA UpdateInStep ==
    ASSUME AccountShape, NEW q \in Password, UpdateBtnPressed(q), NEW u \in User \ parted',
           InStep(u)
    PROVE  InStep(u)'
  <1>1. password' = password /\ row' = row /\ mainQueue' = mainQueue
    BY DEF UpdateBtnPressed, serverVars
  <1>2. CASE currentUser = NoUser
    <2>1. requests' = requests /\ writes' = writes
      BY <1>2 DEF UpdateBtnPressed, WithUid, authVars, dbVars
    <2> QED
      BY <1>1, <2>1, AccountUntouched, RowUntouched, RegistrationKept, KeptInStep DEF Kept
  <1>3. CASE currentUser # NoUser
    <2> DEFINE r == [type |-> "update", screen |-> Top, user |-> currentUser, password |-> q,
                     session |-> session]
    <2>1. SendRequest("update", currentUser, q) /\ SetValue("password", Top, None, q)
      BY <1>3 DEF UpdateBtnPressed, WithUid
    <2>2. Top \in ScreenIds /\ r \in Request
      BY <1>3, TopIsScreen DEF AccountShape, ScalarShape, Request
    <2>3. /\ requests' = Append(requests, r)
          /\ r.type = "update" /\ r.user = currentUser /\ r.password = q /\ r.session = session
      BY <2>1 DEF SendRequest
    <2> HIDE DEF r
    <2>4. CASE u # currentUser
      <3>1. /\ OneSession(u) => OneSession(u)'
            /\ \A p : AccountTarget(u, p) => AccountTarget(u, p)'
        BY <1>1, <2>2, <2>3, <2>4, RequestEnters DEF AccountShape
      <3>2. \A p : RowTarget(u, p) => RowTarget(u, p)'
        BY <1>1, <1>3, <2>1, <2>2, <2>4, WriteSent
      <3> QED
        BY <1>1, <3>1, <3>2, RegistrationKept, KeptInStep DEF Kept
    <2>5. CASE u = currentUser
      <3>1. ~Overlapping(currentUser)
        BY <2>5 DEF UpdateBtnPressed
      <3>2. \A j \in DOMAIN requests : Updates(j, u) => requests[j].session = r.session
        BY <2>3, <2>5, <3>1 DEF Overlapping, Updates
      <3>3. OneSession(u)' /\ AccountTarget(u, q)'
        BY <2>2, <2>3, <2>5, <3>2, RequestEnters DEF InStep, AccountShape
      <3>4. RowTarget(u, q)'
        BY <1>3, <2>1, <2>2, <2>5, WriteSent
      <3> QED
        BY <3>3, <3>4 DEF InStep, SameTarget
    <2> QED
      BY <2>4, <2>5
  <1> QED
    BY <1>2, <1>3

\* Of the profile's and change-password's buttons only Update changes a password.
LEMMA ProfileInStep ==
    ASSUME AccountShape, ProfileStep, NEW u \in User \ parted', InStep(u)
    PROVE  InStep(u)'
  <1>1. CASE UpdateUserNameOk
    <2>1. password' = password /\ row' = row /\ mainQueue' = mainQueue /\ requests' = requests
      BY <1>1 DEF UpdateUserNameOk, serverVars, authVars
    <2>2. \/ writes' = writes
          \/ currentUser # NoUser /\ SetValue("userName", Top, None, None)
      BY <1>1 DEF UpdateUserNameOk, WithUid, dbVars
    <2>3. \A p : RowTarget(u, p) => RowTarget(u, p)'
      BY <2>1, <2>2, RowUntouched, WriteSent, TopIsScreen DEF AccountShape
    <2> QED
      BY <2>1, <2>3, AccountUntouched, RegistrationKept, KeptInStep DEF Kept
  <1>2. CASE \E q \in Password : UpdateBtnPressed(q)
    BY <1>2, UpdateInStep
  <1>3. CASE ProfileStep /\ ~UpdateUserNameOk /\ ~\E q \in Password : UpdateBtnPressed(q)
    <2>1. /\ password' = password /\ row' = row /\ mainQueue' = mainQueue
          /\ requests' = requests /\ writes' = writes
      BY <1>3
      DEF ProfileStep, MyProfilePageBtnPressed, ProfileBackBtnPressed, UpdateUserNameBtnPressed,
          UpdatePasswordBtnPressed, LogOutBtnPressed, LogOutOk, ChangeBackBtnPressed,
          DoneBtnPressed, ObserveSingleEvent, UpdateInvalid, UpdatedOk, Dismiss, Navigates,
          OnlyScreens, WithUid, authVars, dbVars, serverVars
    <2> QED
      BY <2>1, AccountUntouched, RowUntouched, RegistrationKept, KeptInStep DEF Kept
  <1> QED
    BY <1>1, <1>2, <1>3

\* The callback of a registration writes the password that the server has,
\* unless it is confused.
LEMMA CreatedInStep ==
    ASSUME AccountShape, HandleCreated, NEW u \in User \ parted', InStep(u)
    PROVE  InStep(u)'
  <1> DEFINE e == Head(mainQueue)
             form == screens[e.screen]
  <1>1. /\ mainQueue # <<>> /\ e.type = "create" /\ mainQueue' = Tail(mainQueue)
        /\ password' = password /\ row' = row /\ requests' = requests
        /\ parted' = parted \cup Confused(e)
        /\ \/ writes' = writes /\ currentUser = NoUser
           \/ currentUser # NoUser /\ SetValue("row", e.screen, form.email, form.newPassword)
    BY DEF HandleCreated, WithUid, serverVars, authVars, dbVars
  <1>2. /\ e.screen \in ScreenIds /\ form.email \in User \cup {None}
        /\ form.newPassword \in Password \cup {None} /\ e.password \in Password
    BY <1>1, FormTyped
  <1>3. u # NoUser /\ u \notin Confused(e)
    BY <1>1, AccountAssumption
  <1>4. CASE u # e.user
    <2>1. \A p : RowTarget(u, p) => RowTarget(u, p)'
      <3>1. CASE writes' = writes
        BY <1>1, <3>1, RowUntouched
      <3>2. CASE currentUser # NoUser /\ SetValue("row", e.screen, form.email, form.newPassword)
        <4>1. currentUser # u
          BY <1>3, <1>4 DEF Confused
        <4> QED
          BY <1>1, <1>2, <3>2, <4>1, WriteSent
      <3> QED
        BY <1>1, <3>1, <3>2
    <2> QED
      BY <1>1, <1>4, <2>1, AccountUntouched, RegistrationKept, KeptInStep DEF Kept
  <1>5. CASE u = e.user
    <2>1. /\ form.newPassword = e.password /\ currentUser = u /\ password[u] = e.password
          /\ \A i \in DOMAIN requests : ~Updates(i, u)
      BY <1>3, <1>5 DEF Confused, Updates
    <2>2. PICK p : p = e.password
      OBVIOUS
    <2>3. OneSession(u)' /\ AccountTarget(u, p)'
      BY <1>1, <2>1, <2>2 DEF InStep, OneSession, AccountTarget, Updates
    <2>4. RowTarget(u, p)'
      BY <1>1, <1>2, <1>3, <2>1, <2>2, WriteSent
    <2> QED
      BY <1>2, <2>2, <2>3, <2>4 DEF InStep, SameTarget
  <1> QED
    BY <1>4, <1>5

\* Of the callbacks only that of createUser writes a row.
LEMMA MainQueueInStep ==
    ASSUME AccountShape, MainQueueStep, NEW u \in User \ parted', InStep(u)
    PROVE  InStep(u)'
  <1>1. CASE HandleCreated
    BY <1>1, CreatedInStep
  <1>2. CASE HandleSignedIn \/ HandleRenamed \/ HandleValue
    <2>1. /\ password' = password /\ row' = row /\ requests' = requests /\ writes' = writes
          /\ mainQueue # <<>> /\ mainQueue' = Tail(mainQueue) /\ Head(mainQueue).type # "create"
      BY <1>2 DEF HandleSignedIn, HandleRenamed, HandleValue, authVars, dbVars, serverVars
    <2> QED
      BY <2>1, AccountUntouched, RowUntouched, RegistrationKept, KeptInStep DEF Kept
  <1> QED
    BY <1>1, <1>2 DEF MainQueueStep

\* The changes of a password are accepted in their order, that of the one
\* FIRUser they were made through (InOrder, OneSession).
LEMMA AcceptInStep ==
    ASSUME AccountShape, NEW i \in DOMAIN requests, AuthAccepts(i), NEW u \in User, InStep(u)
    PROVE  InStep(u)'
  <1> DEFINE r == requests[i]
  <1>1. /\ InOrder(i) /\ requests' = RemoveAt(requests, i) /\ writes' = writes /\ row' = row
        /\ \/ r.type = "signIn" /\ password' = password /\ \E e : mainQueue' = Append(mainQueue, e)
           \/ /\ r.type = "create" /\ password' = [password EXCEPT ![r.user] = r.password]
              /\ \E e : e.type = "create" /\ e.user = r.user /\ mainQueue' = Append(mainQueue, e)
           \/ /\ r.type = "update" /\ password' = [password EXCEPT ![r.user] = r.password]
              /\ mainQueue' = mainQueue
    BY DEF AuthAccepts, dbVars
  <1>2. \A p : RowTarget(u, p) => RowTarget(u, p)'
    BY <1>1, RowUntouched
  <1>3. Registering(u) => Registering(u)'
    BY <1>1, RegistrationKept
  <1>4. OneSession(u)'
    BY <1>1, RequestLeaves DEF AccountShape, InStep
  <1>5. password \in [User -> Password \cup {None}] /\ r.user \in User
    BY QueuedRequest DEF AccountShape, ScalarShape
  <1>6. CASE r.type = "create" /\ r.user = u
    <2>1. PICK e : e.type = "create" /\ e.user = u /\ mainQueue' = Append(mainQueue, e)
      BY <1>1, <1>6
    <2>2. PICK n \in Nat : n = Len(mainQueue)
      BY LenProperties DEF AccountShape, FlightShape, QueueShape
    <2>3. mainQueue \in Seq(Event \cup {e}) /\ e \in Event \cup {e}
      BY DEF AccountShape, FlightShape, QueueShape
    <2>4. DOMAIN mainQueue' = 1 .. (n + 1) /\ mainQueue'[n + 1] = e
      BY <2>1, <2>2, <2>3, AppendSeq
    <2>5. Registering(u)'
      BY <2>1, <2>4 DEF Registering
    <2> QED
      BY <1>4, <2>5 DEF InStep, SameTarget
  <1>7. CASE ~(r.type = "create" /\ r.user = u)
    <2>1. \/ ~Updates(i, u) /\ password'[u] = password[u]
          \/ /\ Updates(i, u) /\ password'[u] = r.password
             /\ \A j \in DOMAIN requests : Updates(j, u) => i <= j
      <3>1. CASE ~Updates(i, u)
        BY <1>1, <1>5, <1>7, <3>1 DEF Updates
      <3>2. CASE Updates(i, u)
        <4>1. password'[u] = r.password
          BY <1>1, <1>5, <3>2 DEF Updates
        <4>2. requests \in Seq(Request) /\ DOMAIN requests = 1 .. Len(requests) /\ Len(requests) \in Nat
          BY LenProperties DEF AccountShape, FlightShape, RequestShape
        <4>3. ASSUME NEW j \in DOMAIN requests, Updates(j, u), ~(i <= j)
              PROVE  FALSE
          <5>1. j \in 1 .. (i - 1)
            BY <4>2, <4>3
          <5>2. requests[j].session = requests[i].session
            BY <3>2, <4>3 DEF InStep, OneSession
          <5> QED
            BY <1>1, <3>2, <4>3, <5>1, <5>2 DEF InOrder, Updates
        <4> QED
          BY <3>2, <4>1, <4>3
      <3> QED
        BY <3>1, <3>2
    <2>2. \A p : AccountTarget(u, p) => AccountTarget(u, p)'
      BY <1>1, <2>1, RequestLeaves DEF AccountShape
    <2> QED
      BY <1>2, <1>3, <1>4, <2>2, KeptInStep DEF Kept
  <1> QED
    BY <1>6, <1>7

\* A request that is refused, or whose answer is lost.
LEMMA FailInStep ==
    ASSUME AccountShape, NEW i \in DOMAIN requests, NEW u \in User \ parted', InStep(u),
           TokenInvalid(i) \/ \E applied \in BOOLEAN : AuthFails(i, applied)
    PROVE  InStep(u)'
  <1> DEFINE r == requests[i]
  <1>1. /\ requests' = RemoveAt(requests, i) /\ writes' = writes /\ row' = row
        /\ mainQueue' = mainQueue \/ \E e : mainQueue' = Append(mainQueue, e)
    BY DEF TokenInvalid, AuthFails, dbVars, serverVars
  <1>2. password \in [User -> Password \cup {None}] /\ r.user \in User
    BY QueuedRequest DEF AccountShape, ScalarShape
  <1>3. ~Updates(i, u) /\ password'[u] = password[u]
    BY <1>2 DEF TokenInvalid, AuthFails, serverVars, Updates
  <1>4. /\ OneSession(u) => OneSession(u)'
        /\ \A p : AccountTarget(u, p) => AccountTarget(u, p)'
    BY <1>1, <1>3, RequestLeaves DEF AccountShape
  <1> QED
    BY <1>1, <1>4, RowUntouched, RegistrationKept, KeptInStep DEF Kept

\* An answered setValue: the first write under way, whose user is parted if it
\* was refused.
LEMMA WriteInStep ==
    ASSUME AccountShape, NEW ok \in BOOLEAN, WriteAnswered(ok), NEW u \in User \ parted', InStep(u)
    PROVE  InStep(u)'
  <1> DEFINE w == Head(writes)
  <1>1. /\ writes # <<>> /\ writes' = Tail(writes)
        /\ requests' = requests /\ password' = password
        /\ mainQueue' = mainQueue \/ \E e : mainQueue' = Append(mainQueue, e)
        /\ row' = IF ok THEN [row EXCEPT ![w.user] = Applied(@, w)] ELSE row
        /\ ~ok /\ w.field # "userName" => w.user # u
    BY DEF WriteAnswered, authVars
  <1>2. w = writes[1] /\ w \in Write
    BY <1>1, TailSeq DEF AccountShape, FlightShape, DatabaseShape
  <1>3. w.user \in User /\ w.field \in {"row", "password", "userName"}
    BY <1>2 DEF Write
  <1>4. row \in [User -> Row]
    BY DEF AccountShape, ScalarShape
  <1>5. \/ ~SetsPassword(1, u) /\ row'[u].password = row[u].password
        \/ SetsPassword(1, u) /\ row'[u].password = writes[1].password
    <2>1. CASE w.user # u
      BY <1>1, <1>2, <1>3, <1>4, <2>1 DEF SetsPassword
    <2>2. CASE w.user = u /\ w.field = "userName"
      <3>1. Applied(row[u], w) = row[u]
        BY <2>2 DEF Applied
      <3> QED
        BY <1>1, <1>2, <1>4, <2>2, <3>1 DEF SetsPassword
    <2>3. CASE w.user = u /\ w.field # "userName"
      <3>1. row'[u] = Applied(row[u], w)
        BY <1>1, <1>4, <2>3
      <3>2. Applied(row[u], w).password = w.password
        BY <1>3, <1>4, <2>3 DEF Applied, Row
      <3> QED
        BY <1>2, <2>3, <3>1, <3>2 DEF SetsPassword
    <2> QED
      BY <2>1, <2>2, <2>3
  <1>6. \A p : RowTarget(u, p) => RowTarget(u, p)'
    BY <1>1, <1>5, WriteLeaves DEF AccountShape
  <1> QED
    BY <1>1, <1>6, AccountUntouched, RegistrationKept, KeptInStep DEF Kept

\* The answers of both servers.
LEMMA ServerInStep ==
    ASSUME AccountShape, ServerStep, NEW u \in User \ parted', InStep(u)
    PROVE  InStep(u)'
  <1>1. ASSUME NEW i \in DOMAIN reads, NEW ok \in BOOLEAN, ReadAnswered(i, ok)
        PROVE  InStep(u)'
    <2>1. /\ requests' = requests /\ writes' = writes /\ password' = password /\ row' = row
          /\ mainQueue' = mainQueue \/ \E e : mainQueue' = Append(mainQueue, e)
      BY <1>1 DEF ReadAnswered, authVars, serverVars
    <2> QED
      BY <2>1, AccountUntouched, RowUntouched, RegistrationKept, KeptInStep DEF Kept
  <1> QED
    BY <1>1, AcceptInStep, FailInStep, WriteInStep DEF ServerStep

\* What is lost with the app parts its user's row from the account.
LEMMA RelaunchInStep ==
    ASSUME AccountShape, Relaunch, NEW u \in User \ parted', InStep(u)
    PROVE  InStep(u)'
  <1>1. ~Busy(u)
    BY DEF Relaunch
  <1>2. PICK p \in Password \cup {None} : AccountTarget(u, p) /\ RowTarget(u, p)
    BY <1>1 DEF Busy, InStep, SameTarget, Registering
  <1>3. password[u] = p /\ row[u].password = p
    BY <1>1, <1>2 DEF Busy, AccountTarget, RowTarget, Updates, SetsPassword
  <1>4. requests' = <<>> /\ writes' = <<>> /\ password' = password /\ row' = row
    BY DEF Relaunch, serverVars
  <1>5. DOMAIN requests' = {} /\ DOMAIN writes' = {}
    BY <1>4
  <1>6. OneSession(u)' /\ AccountTarget(u, p)' /\ RowTarget(u, p)'
    BY <1>3, <1>4, <1>5 DEF OneSession, AccountTarget, RowTarget
  <1> QED
    BY <1>6 DEF InStep, SameTarget

\* No step sets the account and the row of a user apart who does not count as parted.
LEMMA PasswordsStep ==
    ASSUME AccountShape, PasswordsInStep, [AccountNext]_accountVars
    PROVE  PasswordsInStep'
  <1>1. parted \subseteq parted'
    BY DEF AccountNext, StartStep, LogInBtnPressed, LogInBlank, SignUpBtnPressed,
           RegisterBtnPressed, AlreadyBtnPressed, RegisteredOk, AlertDismissed, ProfileStep,
           MyProfilePageBtnPressed, ProfileBackBtnPressed, UpdateUserNameBtnPressed,
           UpdateUserNameOk, UpdatePasswordBtnPressed, LogOutBtnPressed, LogOutOk,
           ChangeBackBtnPressed, DoneBtnPressed, UpdateBtnPressed, UpdateInvalid, UpdatedOk,
           MainQueueStep, HandleSignedIn, HandleCreated, HandleRenamed, HandleValue,
           ServerStep, AuthAccepts, AuthFails, TokenInvalid, WriteAnswered, ReadAnswered,
           Relaunch, Dismiss, Navigates, OnlyScreens, historyVars, accountVars
  <1>2. ASSUME NEW u \in User \ parted'
        PROVE  InStep(u)'
    <2>1. InStep(u)
      BY <1>1 DEF PasswordsInStep
    <2> QED
      BY <2>1, StartInStep, ProfileInStep, MainQueueInStep, ServerInStep, RelaunchInStep
      DEF AccountNext
  <1> QED
    BY <1>2 DEF PasswordsInStep

\* Once nothing is under way for a user, updatePassword and setValue have left the
\* same password in the account and in the row, unless the user counts as parted:
\* PasswordsAgree.
THEOREM AccountAndRowAgree == AccountSpec => []PasswordsAgree
  <1>1. AccountInit => AccountShape /\ PasswordsInStep
    <2>1. ASSUME AccountInit
          PROVE  PasswordsInStep
      <3>1. /\ requests = <<>> /\ writes = <<>>
            /\ password \in [User -> Password \cup {None}]
            /\ \A u \in User : row[u].password = password[u]
        BY <2>1 DEF AccountInit
      <3>2. DOMAIN requests = {} /\ DOMAIN writes = {}
        BY <3>1
      <3>3. ASSUME NEW u \in User
            PROVE  InStep(u)
        <4>1. OneSession(u) /\ AccountTarget(u, password[u]) /\ RowTarget(u, password[u])
          BY <3>1, <3>2 DEF OneSession, AccountTarget, RowTarget
        <4> QED
          BY <3>1, <4>1 DEF InStep, SameTarget
      <3> QED
        BY <3>3 DEF PasswordsInStep
    <2> QED
      BY <2>1, ShapeInit
  <1>2. AccountShape /\ PasswordsInStep /\ [AccountNext]_accountVars => (AccountShape /\ PasswordsInStep)'
    BY ShapeStep, PasswordsStep
  <1>3. PasswordsInStep => PasswordsAgree
    <2>1. ASSUME NEW u \in User \ parted, InStep(u), ~Busy(u)
          PROVE  row[u].password = password[u]
      <3>1. PICK p \in Password \cup {None} : AccountTarget(u, p) /\ RowTarget(u, p)
        BY <2>1 DEF Busy, InStep, SameTarget, Registering
      <3> QED
        BY <2>1, <3>1 DEF Busy, AccountTarget, RowTarget, Updates, SetsPassword
    <2> QED
      BY <2>1 DEF PasswordsInStep, PasswordsAgree
  <1> QED
    BY <1>1, <1>2, <1>3, PTL DEF AccountSpec
=============================================================================
