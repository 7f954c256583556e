------------------------------- MODULE Account -------------------------------
(***************************************************************************)
(* Accounts: the screens for logging in, registering, the profile and      *)
(* changing the password, over the authentication client (FIRAuth,         *)
(* FIRUser) and the user's row "user/<uid>" in the database.  The reset of *)
(* a forgotten password makes no call: it is module PasswordReset.         *)
(*                                                                         *)
(* An e-mail and the uid of its account are the same model value.  The     *)
(* user name and the photo are shown and never used: they are left out.    *)
(* Of the list of memories only its place among the screens is kept; what  *)
(* it does is module Diary.                                                *)
(*                                                                         *)
(* A handler runs on the main queue in one step.  The authentication       *)
(* client sets currentUser on its own queue when an answer comes and only  *)
(* then sends the callback to the main queue, so taps run in between.      *)
(* Reading currentUser!.uid without a user stops the program: trap.        *)
(*                                                                         *)
(* External, modelled from their use: UIKit's presentation of screens and  *)
(* alerts, the authentication server and the database server.              *)
(***************************************************************************)
EXTENDS Naturals, Sequences, SequencesExt

CONSTANTS
    User,       \* e-mail addresses and uids
    Password,   \* passwords that are typed
    NoUser,     \* nobody
    None,       \* no account, no entry in the row, an empty field
    NotFound,   \* the text "not found"
    MaxScreens, \* bound on the screens presented since launch
    MaxRequests,\* bound on the authentication requests since launch
    MaxWrites,  \* bound on the database writes since launch
    MaxReads,   \* bound on the reads since launch
    MaxKills    \* bound on the app being killed and started again

ASSUME AccountAssumption ==
    /\ NoUser \notin User
    /\ None \notin Password \cup User /\ NotFound \notin Password
    /\ {MaxScreens, MaxRequests, MaxWrites, MaxReads, MaxKills} \subseteq Nat
    /\ MaxScreens >= 1

VARIABLES
    screens,     \* every screen presented since launch
    stack,       \* the ones on the screen stack, the visible one last
    hud,         \* is the progress HUD showing
    mainQueue,   \* blocks dispatched to the main queue
    currentUser, \* FIRAuth's current user, kept in the keychain
    session,     \* counts the FIRUser objects: one per sign-in
    requests,    \* unanswered authentication requests, oldest first
    issued, written, asked,  \* count requests, writes and reads since launch
    writes,      \* unanswered writes to user rows, oldest first
    reads,       \* unanswered reads of user rows
    password,    \* authentication server: account -> password
    row,         \* database server: user/<uid>
    trap,        \* where the program stopped
    kills,       \* counter for its bound
    accepted,    \* users whose credentials the server accepted since launch
    forced,      \* has FIRUser signed the user out by itself since launch
    parted       \* users whose row and account something may have set apart

uiVars == <<screens, stack, hud>>
authVars == <<currentUser, session, requests, issued>>
dbVars == <<writes, reads, written, asked>>
serverVars == <<password, row>>
historyVars == <<accepted, forced, parted>>
accountVars == <<uiVars, mainQueue, authVars, dbVars, serverVars, trap, kills,
                 historyVars>>

Kind == {"login", "registration", "list", "profile", "changePassword"}
\* email: of a form, or the user a list listens for.  newPassword: of a form.
\* userPassword: what the change-password screen read from the row.
Screen == [kind : Kind,
           alert : {"none", "error", "wrong", "registered", "rename", "logout",
                    "updated"},
           email : User \cup {None},
           newPassword : Password \cup {None},
           oldPassword : Password \cup {None},
           userPassword : Password \cup {None, NotFound},
           fieldsShown : BOOLEAN]
ScreenIds == 1 .. MaxScreens
Request == [type : {"signIn", "create", "update"}, screen : ScreenIds,
            user : User, password : Password, session : Nat]
Write == [field : {"row", "password", "userName"}, screen : ScreenIds,
          user : User, email : User \cup {None}, password : Password \cup {None}]
Row == [email : User \cup {None}, password : Password \cup {None}]
SignedIn == [type : {"signIn"}, screen : ScreenIds, ok : BOOLEAN]
Created == [type : {"create"}, screen : ScreenIds, user : User, password : Password]
Renamed == [type : {"renamed"}, screen : ScreenIds]
Value == [type : {"value"}, screen : ScreenIds, password : Password \cup {NotFound}]

AccountTypeOK ==
    /\ screens \in Seq(Screen)
    /\ Len(screens) \in ScreenIds
    /\ stack \in Seq(DOMAIN screens)
    /\ stack # <<>>
    /\ hud \in BOOLEAN
    /\ mainQueue \in Seq(SignedIn \cup Created \cup Renamed \cup Value)
    /\ currentUser \in User \cup {NoUser}
    /\ session \in Nat
    /\ requests \in Seq(Request)
    /\ issued \in 0 .. MaxRequests
    /\ written \in 0 .. MaxWrites
    /\ asked \in 0 .. MaxReads
    /\ writes \in Seq(Write)
    /\ reads \in Seq([screen : ScreenIds, user : User])
    /\ password \in [User -> Password \cup {None}]
    /\ row \in [User -> Row]
    /\ trap \in {"none", "list", "profile", "changePassword", "update", "rename",
                 "created", "renamed"}
    /\ kills \in 0 .. MaxKills
    /\ accepted \subseteq User
    /\ forced \in BOOLEAN
    /\ parted \subseteq User

-----------------------------------------------------------------------------
(* Screens *)

NewScreen(kind) ==
    [kind |-> kind, alert |-> "none", email |-> None, newPassword |-> None,
     oldPassword |-> None, userPassword |-> None, fieldsShown |-> FALSE]

Top == Last(stack)
Shows(kind, alert) == screens[Top].kind = kind /\ screens[Top].alert = alert
Tappable(kind) == Shows(kind, "none")

\* A screen presents only if it is the visible one and presents nothing yet.
CanPresent(s) == s = Top /\ screens[s].alert = "none"

\* The new screen s over the screens ss.
Present(ss, s) ==
    /\ Len(ss) < MaxScreens
    /\ screens' = Append(ss, s)
    /\ stack' = Append(stack, Len(ss) + 1)

\* The screens with the alert a on the top one.
WithAlert(a) == [screens EXCEPT ![Top].alert = a]
ShowAlert(a) == screens' = WithAlert(a) /\ stack' = stack

\* The handler leaves everything but the screens, the HUD and trap alone.
OnlyScreens == UNCHANGED <<mainQueue, authVars, dbVars, serverVars, kills, historyVars>>

\* The handler only moves between screens and alerts.
Navigates == OnlyScreens /\ UNCHANGED <<hud, trap>>

\* (currentUser?.uid)! at place, then the rest of the handler.
WithUid(place, rest, nothing) ==
    \/ currentUser = NoUser /\ trap' = place /\ nothing
    \/ currentUser # NoUser /\ trap' = trap /\ rest

\* A list or a profile over the screens ss: both viewDidLoad need a user.
PresentList(ss) ==
    WithUid("list", Present(ss, [NewScreen("list") EXCEPT !.email = currentUser]),
            UNCHANGED <<screens, stack>>)
PresentProfile(ss) ==
    WithUid("profile", Present(ss, NewScreen("profile")), UNCHANGED <<screens, stack>>)

\* The screen goes; of its variables only a registration's are used afterwards,
\* by the callback of a request still under way.
Dismiss(kind) ==
    /\ Tappable(kind)
    /\ stack' = Front(stack)
    /\ screens' = IF kind = "registration" THEN screens
                  ELSE [screens EXCEPT ![Top] = NewScreen(kind)]
    /\ Navigates

\* OK on an alert whose action does nothing, or Cancel.
AlertDismissed ==
    /\ screens[Top].alert \in {"error", "wrong", "rename", "logout"}
    /\ ShowAlert("none")
    /\ Navigates

-----------------------------------------------------------------------------
(* Requests to the authentication server, writes and reads of user rows *)

SendRequest(type, u, p) ==
    /\ issued < MaxRequests
    /\ issued' = issued + 1
    /\ requests' = Append(requests, [type |-> type, screen |-> Top, user |-> u,
                                     password |-> p, session |-> session])
    /\ UNCHANGED <<currentUser, session>>

\* setValue on a user row or on one of its fields.
SetValue(field, s, e, p) ==
    /\ written < MaxWrites
    /\ written' = written + 1
    /\ writes' = Append(writes, [field |-> field, screen |-> s, user |-> currentUser,
                                 email |-> e, password |-> p])
    /\ UNCHANGED <<reads, asked>>

\* observeSingleEvent on the row of the current user.
ObserveSingleEvent ==
    /\ asked < MaxReads
    /\ asked' = asked + 1
    /\ reads' = Append(reads, [screen |-> Top, user |-> currentUser])
    /\ UNCHANGED <<writes, written>>

Applied(r, w) ==
    CASE w.field = "row" -> [email |-> w.email, password |-> w.password]
      [] w.field = "password" -> [r EXCEPT !.password = w.password]
      [] w.field = "userName" -> r

\* The unanswered write i sets the password in u's row.
SetsPassword(i, u) == writes[i].user = u /\ writes[i].field # "userName"

\* The password in u's row as this client shows it, as a set of one: that of
\* the last unanswered write that sets it, or the server's.
SeenPassword(u) ==
    IF \E i \in DOMAIN writes : SetsPassword(i, u)
    THEN {writes[i].password : i \in {j \in DOMAIN writes :
              SetsPassword(j, u) /\ \A k \in DOMAIN writes : SetsPassword(k, u) => k <= j}}
    ELSE {row[u].password}

-----------------------------------------------------------------------------
(* logInViewController *)

LogInBtnPressed(u, p) ==
    /\ Tappable("login")
    /\ hud' = TRUE
    /\ SendRequest("signIn", u, p)
    /\ UNCHANGED <<screens, stack, mainQueue, dbVars, serverVars, trap, kills,
                   historyVars>>

\* An empty field: the alert, and the HUD stays.
LogInBlank ==
    /\ Tappable("login")
    /\ hud' = TRUE
    /\ ShowAlert("error")
    /\ trap' = trap
    /\ OnlyScreens

SignUpBtnPressed ==
    Tappable("login") /\ Present(screens, NewScreen("registration")) /\ Navigates

\* Mutant of LogInCallback: the error is not looked at.
LogInCallbackNoCheck(e) ==
    /\ hud' = FALSE
    /\ IF CanPresent(e.screen) THEN PresentList(screens)
                               ELSE UNCHANGED <<screens, stack, trap>>

\* The callback of signIn.
LogInCallback(e) ==
    /\ hud' = FALSE
    /\ IF ~CanPresent(e.screen) THEN UNCHANGED <<screens, stack, trap>>
       ELSE IF e.ok THEN PresentList(screens)
       ELSE ShowAlert("error") /\ trap' = trap

HandleSignedIn ==
    /\ mainQueue # <<>> /\ Head(mainQueue).type = "signIn"
    /\ LogInCallback(Head(mainQueue))
    /\ mainQueue' = Tail(mainQueue)
    /\ UNCHANGED <<authVars, dbVars, serverVars, kills, historyVars>>

-----------------------------------------------------------------------------
(* registrationViewController *)

\* The form is copied to the screen's variables before it is checked.
RegisterBtnPressed(u, p, valid) ==
    /\ Tappable("registration")
    /\ hud' = TRUE
    /\ screens' = [screens EXCEPT ![Top].email = u, ![Top].newPassword = p,
                                  ![Top].alert = IF valid THEN "none" ELSE "error"]
    /\ IF valid THEN SendRequest("create", u, p) ELSE UNCHANGED authVars
    /\ UNCHANGED <<stack, mainQueue, dbVars, serverVars, trap, kills, historyVars>>

AlreadyBtnPressed == Dismiss("registration")

\* Users whose row this callback may get wrong: the form changed, or another
\* user is current, or the password was changed already.
Confused(e) ==
    LET form == screens[e.screen]
    IN  IF /\ form.email = e.user /\ form.newPassword = e.password
           /\ currentUser = e.user /\ password[e.user] = e.password
           /\ \A i \in DOMAIN requests :
                 ~(requests[i].type = "update" /\ requests[i].user = e.user)
        THEN {} ELSE {e.user, currentUser} \ {NoUser}

\* The callback of a createUser that succeeded: the alert, then the row, taken
\* from the screen's variables and written for whoever is the current user.
HandleCreated ==
    LET e == Head(mainQueue)
        form == screens[e.screen]
    IN  /\ mainQueue # <<>> /\ e.type = "create"
        /\ mainQueue' = Tail(mainQueue)
        /\ screens' = IF CanPresent(e.screen) THEN WithAlert("registered") ELSE screens
        /\ WithUid("created", SetValue("row", e.screen, form.email, form.newPassword),
                   UNCHANGED dbVars)
        /\ parted' = parted \cup Confused(e)
        /\ UNCHANGED <<stack, hud, authVars, serverVars, kills, accepted, forced>>

RegisteredOk ==
    /\ Shows("registration", "registered")
    /\ hud' = FALSE
    /\ PresentList(WithAlert("none"))
    /\ OnlyScreens

-----------------------------------------------------------------------------
(* myProfileViewController, and the list's way to it *)

MyProfilePageBtnPressed ==
    /\ Tappable("list")
    /\ PresentProfile(screens)
    /\ hud' = hud
    /\ OnlyScreens

ProfileBackBtnPressed == Dismiss("profile")

UpdateUserNameBtnPressed == Tappable("profile") /\ ShowAlert("rename") /\ Navigates
LogOutBtnPressed == Tappable("profile") /\ ShowAlert("logout") /\ Navigates

UpdatePasswordBtnPressed ==
    Tappable("profile") /\ Present(screens, NewScreen("changePassword")) /\ Navigates

UpdateUserNameOk ==
    /\ Shows("profile", "rename")
    /\ screens' = WithAlert("none")
    /\ WithUid("rename", SetValue("userName", Top, None, None), UNCHANGED dbVars)
    /\ UNCHANGED <<stack, hud, mainQueue, authVars, serverVars, kills, historyVars>>

\* The new name is accepted: getUserNameFromDatabase reads it back.
HandleRenamed ==
    /\ mainQueue # <<>> /\ Head(mainQueue).type = "renamed"
    /\ mainQueue' = Tail(mainQueue)
    /\ WithUid("renamed", TRUE, TRUE)
    /\ UNCHANGED <<uiVars, authVars, dbVars, serverVars, kills, historyVars>>

\* Mutant of LogOutOk: the profile is dismissed, back to the list.
LogOutOkDismisses(ok) ==
    /\ Shows("profile", "logout")
    /\ screens' = WithAlert("none")
    /\ stack' = Front(stack)
    /\ hud' = FALSE
    /\ currentUser' = IF ok THEN NoUser ELSE currentUser
    /\ UNCHANGED <<mainQueue, session, requests, issued, dbVars, serverVars, trap,
                   kills, historyVars>>

\* signOut may fail to clear the keychain; the login screen comes anyway.
LogOutOk(ok) ==
    /\ Shows("profile", "logout")
    /\ Present(WithAlert("none"), NewScreen("login"))
    /\ hud' = FALSE
    /\ currentUser' = IF ok THEN NoUser ELSE currentUser
    /\ UNCHANGED <<mainQueue, session, requests, issued, dbVars, serverVars, trap,
                   kills, historyVars>>

-----------------------------------------------------------------------------
(* changePasswordViewController *)

ChangeBackBtnPressed == Dismiss("changePassword")

\* What is typed (None: nothing) against what an earlier read left behind.
Compared(typed) ==
    CASE typed = None -> WithAlert("error")
      [] typed # None /\ screens[Top].userPassword # typed ->
            [WithAlert("wrong") EXCEPT ![Top].oldPassword = typed]
      [] OTHER -> [screens EXCEPT ![Top].oldPassword = typed, ![Top].fieldsShown = TRUE]

\* Mutant of PasswordOf: nothing takes the place of a missing password.
PasswordOfNoDefault(p) == p

\* What the closure of the read makes of the row's password p.
PasswordOf(p) == IF p = None THEN NotFound ELSE p

\* The row is asked for, and the comparison made before the answer is there.
DoneBtnPressed(typed) ==
    /\ Tappable("changePassword") /\ ~screens[Top].fieldsShown
    /\ WithUid("changePassword", ObserveSingleEvent /\ screens' = Compared(typed),
               UNCHANGED <<screens, dbVars>>)
    /\ UNCHANGED <<stack, hud, mainQueue, authVars, serverVars, kills, historyVars>>

HandleValue ==
    LET e == Head(mainQueue)
    IN  /\ mainQueue # <<>> /\ e.type = "value"
        /\ mainQueue' = Tail(mainQueue)
        /\ screens' = [screens EXCEPT ![e.screen].userPassword = e.password]
        /\ UNCHANGED <<stack, hud, authVars, dbVars, serverVars, trap, kills,
                       historyVars>>

\* A change of u's password while one of an earlier session, or the creation
\* of its row, is still under way.
Overlapping(u) ==
    \/ \E i \in DOMAIN requests :
          /\ requests[i].type = "update" /\ requests[i].user = u
          /\ requests[i].session # session
    \/ \E i \in DOMAIN mainQueue :
          mainQueue[i].type = "create" /\ mainQueue[i].user = u

\* Two independent changes, the account's and the row's, and the alert.
UpdateBtnPressed(p) ==
    /\ Tappable("changePassword") /\ screens[Top].fieldsShown
    /\ WithUid("update",
               /\ hud' = FALSE
               /\ SendRequest("update", currentUser, p)
               /\ SetValue("password", Top, None, p)
               /\ screens' = [WithAlert("updated") EXCEPT ![Top].newPassword = p],
               hud' = TRUE /\ UNCHANGED <<screens, authVars, dbVars>>)
    /\ parted' = IF Overlapping(currentUser) THEN parted \cup {currentUser} ELSE parted
    /\ UNCHANGED <<stack, mainQueue, serverVars, kills, accepted, forced>>

\* Empty or different fields: only the first of the two alerts is presented.
UpdateInvalid ==
    /\ Tappable("changePassword") /\ screens[Top].fieldsShown
    /\ hud' = FALSE
    /\ ShowAlert("error")
    /\ trap' = trap
    /\ OnlyScreens

UpdatedOk ==
    /\ Shows("changePassword", "updated")
    /\ PresentProfile(WithAlert("none"))
    /\ hud' = hud
    /\ OnlyScreens

-----------------------------------------------------------------------------
(* The authentication client and server *)

\* Mutant of InOrder: no task queue.
InOrderNever(i) == TRUE

\* Changes made through one FIRUser wait for each other in its task queue;
\* other requests are independent.
InOrder(i) ==
    requests[i].type = "update" =>
        \A j \in 1 .. (i - 1) :
            ~(requests[j].type = "update" /\ requests[j].session = requests[i].session)

\* A new FIRUser becomes the current user, then the callback is dispatched.
SignInFlow(u) ==
    /\ currentUser' = u
    /\ session' = session + 1
    /\ accepted' = accepted \cup {u}

AuthAccepts(i) ==
    LET r == requests[i]
    IN  /\ InOrder(i)
        /\ requests' = RemoveAt(requests, i)
        /\ \/ /\ r.type = "signIn" /\ password[r.user] = r.password
              /\ SignInFlow(r.user)
              /\ mainQueue' = Append(mainQueue, [type |-> "signIn",
                                                 screen |-> r.screen, ok |-> TRUE])
              /\ password' = password
           \/ /\ r.type = "create" /\ password[r.user] = None
              /\ SignInFlow(r.user)
              /\ mainQueue' = Append(mainQueue, [type |-> "create", screen |-> r.screen,
                                                 user |-> r.user, password |-> r.password])
              /\ password' = [password EXCEPT ![r.user] = r.password]
           \/ /\ r.type = "update"
              /\ password' = [password EXCEPT ![r.user] = r.password]
              /\ UNCHANGED <<currentUser, session, accepted, mainQueue>>
        /\ UNCHANGED <<uiVars, issued, dbVars, row, trap, kills, forced, parted>>

\* An error: refused, or a lost answer to a request the server applied.  The
\* errors of createUser and updatePassword are only printed.
AuthFails(i, applied) ==
    LET r == requests[i]
    IN  /\ InOrder(i)
        /\ applied => (r.type = "update" \/ (r.type = "create" /\ password[r.user] = None))
        /\ requests' = RemoveAt(requests, i)
        /\ mainQueue' = IF r.type = "signIn"
                        THEN Append(mainQueue, [type |-> "signIn", screen |-> r.screen,
                                                ok |-> FALSE])
                        ELSE mainQueue
        /\ password' = IF applied THEN [password EXCEPT ![r.user] = r.password]
                                  ELSE password
        /\ parted' = IF r.type = "update" \/ applied THEN parted \cup {r.user} ELSE parted
        /\ UNCHANGED <<uiVars, currentUser, session, issued, dbVars, row, trap, kills,
                       accepted, forced>>

\* The error says the token is invalid: FIRUser signs its user out.
TokenInvalid(i) ==
    LET r == requests[i]
    IN  /\ r.type = "update" /\ InOrder(i)
        /\ requests' = RemoveAt(requests, i)
        /\ currentUser' = IF currentUser = r.user THEN NoUser ELSE currentUser
        /\ forced' = TRUE
        /\ parted' = parted \cup {r.user}
        /\ UNCHANGED <<uiVars, mainQueue, session, issued, dbVars, serverVars, trap,
                       kills, accepted>>

-----------------------------------------------------------------------------
(* The database client and server *)

WriteAnswered(ok) ==
    LET w == Head(writes)
    IN  /\ writes # <<>>
        /\ writes' = Tail(writes)
        /\ row' = IF ok THEN [row EXCEPT ![w.user] = Applied(@, w)] ELSE row
        /\ mainQueue' = IF ok /\ w.field = "userName"
                        THEN Append(mainQueue, [type |-> "renamed", screen |-> w.screen])
                        ELSE mainQueue
        /\ parted' = IF ok \/ w.field = "userName" THEN parted ELSE parted \cup {w.user}
        /\ UNCHANGED <<uiVars, authVars, reads, written, asked, password, trap, kills,
                       accepted, forced>>

\* A refused read calls nothing back that matters.
ReadAnswered(i, ok) ==
    LET r == reads[i]
    IN  /\ reads' = RemoveAt(reads, i)
        /\ \/ ~ok /\ mainQueue' = mainQueue
           \/ ok /\ \E p \in SeenPassword(r.user) :
                      mainQueue' = Append(mainQueue, [type |-> "value", screen |-> r.screen,
                                                      password |-> PasswordOf(p)])
        /\ UNCHANGED <<uiVars, authVars, writes, written, asked, serverVars, trap,
                       kills, historyVars>>

-----------------------------------------------------------------------------

\* Something is still under way that sets u's row or password.
Busy(u) ==
    \/ \E i \in DOMAIN requests : requests[i].type # "signIn" /\ requests[i].user = u
    \/ \E i \in DOMAIN writes : writes[i].user = u
    \/ \E i \in DOMAIN mainQueue : mainQueue[i].type = "create" /\ mainQueue[i].user = u

\* The app is killed, or has trapped, and is started again: only the keychain's
\* user survives, and the login screen is shown all the same.
Relaunch ==
    /\ kills < MaxKills
    /\ kills' = kills + 1
    /\ screens' = <<NewScreen("login")>>
    /\ stack' = <<1>>
    /\ hud' = FALSE
    /\ mainQueue' = <<>>
    /\ requests' = <<>> /\ issued' = 0 /\ session' = 0
    /\ writes' = <<>> /\ reads' = <<>> /\ written' = 0 /\ asked' = 0
    /\ trap' = "none"
    /\ accepted' = {} /\ forced' = FALSE
    /\ parted' = parted \cup {u \in User : Busy(u)}
    /\ UNCHANGED <<currentUser, serverVars>>

AccountInit ==
    /\ screens = <<NewScreen("login")>>
    /\ stack = <<1>>
    /\ hud = FALSE
    /\ mainQueue = <<>>
    /\ password \in [User -> Password \cup {None}]
    /\ row = [u \in User |-> [email |-> IF password[u] = None THEN None ELSE u,
                              password |-> password[u]]]
    /\ currentUser \in {u \in User : password[u] # None} \cup {NoUser}
    /\ session = 0
    /\ requests = <<>> /\ issued = 0
    /\ writes = <<>> /\ reads = <<>> /\ written = 0 /\ asked = 0
    /\ trap = "none"
    /\ kills = 0
    /\ accepted = {} /\ forced = FALSE /\ parted = {}

StartStep ==
    \/ \E u \in User, p \in Password : LogInBtnPressed(u, p)
    \/ LogInBlank
    \/ SignUpBtnPressed
    \/ \E u \in User, p \in Password, valid \in BOOLEAN : RegisterBtnPressed(u, p, valid)
    \/ AlreadyBtnPressed
    \/ RegisteredOk
    \/ AlertDismissed

ProfileStep ==
    \/ MyProfilePageBtnPressed
    \/ ProfileBackBtnPressed
    \/ UpdateUserNameBtnPressed
    \/ UpdateUserNameOk
    \/ UpdatePasswordBtnPressed
    \/ LogOutBtnPressed
    \/ \E ok \in BOOLEAN : LogOutOk(ok)
    \/ ChangeBackBtnPressed
    \/ \E typed \in Password \cup {None} : DoneBtnPressed(typed)
    \/ \E p \in Password : UpdateBtnPressed(p)
    \/ UpdateInvalid
    \/ UpdatedOk

MainQueueStep == HandleSignedIn \/ HandleCreated \/ HandleRenamed \/ HandleValue

ServerStep ==
    \/ \E i \in DOMAIN requests : AuthAccepts(i)
    \/ \E i \in DOMAIN requests, applied \in BOOLEAN : AuthFails(i, applied)
    \/ \E i \in DOMAIN requests : TokenInvalid(i)
    \/ \E ok \in BOOLEAN : WriteAnswered(ok)
    \/ \E i \in DOMAIN reads, ok \in BOOLEAN : ReadAnswered(i, ok)

AccountNext ==
    \/ trap = "none" /\ (StartStep \/ ProfileStep)
    \/ trap = "none" /\ (MainQueueStep \/ ServerStep)
    \/ Relaunch

AccountSpec == AccountInit /\ [][AccountNext]_accountVars

-----------------------------------------------------------------------------
(* Properties *)

\* The password is kept twice, in the account (Auth updatePassword) and in the
\* row (setValue), changed by requests that know nothing of each other.  Once
\* nothing is under way the two agree, unless one of the changes failed, was
\* lost with the app, or met a registration or another session of the user.
PasswordsAgree ==
    \A u \in User \ parted : Busy(u) \/ row[u].password = password[u]

\* A list of memories is only ever opened for a user whose credentials the
\* server accepted since the app was started: a user restored from the
\* keychain gets none by a failed log in (logInBtnPressed).
ListMeansAccepted ==
    \A s \in DOMAIN screens : screens[s].kind = "list" => screens[s].email \in accepted

\* Taps always find a current user: (Auth.auth().currentUser?.uid)! in the
\* handlers of buttons and in the viewDidLoad of the screens they open never
\* stops the program, unless FIRUser itself signed the user out.
TapsNeverTrap ==
    trap \in {"list", "profile", "changePassword", "update", "rename"} => forced

\* (Auth.auth().currentUser?.uid)! finds a user wherever the code says so.
UidIsThere == trap = "none"
=============================================================================
