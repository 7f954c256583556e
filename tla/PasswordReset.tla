---------------------------- MODULE PasswordReset ----------------------------
(***************************************************************************)
(* The reset of a forgotten password: forgetPasswordViewController, then   *)
(* confirmPINViewController, then recreatePasswordViewController, then a   *)
(* new logInViewController.  The screens pass nothing on to each other and *)
(* make no call, neither to the authentication server nor to the database. *)
(***************************************************************************)
EXTENDS Naturals, Sequences, SequencesExt

CONSTANTS
    User,       \* e-mail addresses
    Password,   \* passwords
    None,       \* an empty field
    MaxScreens  \* bound on the presented screens

VARIABLES
    stack,      \* presented screens, the visible one last
    password    \* the accounts' passwords on the authentication server

resetVars == <<stack, password>>

NewScreen(kind) == [kind |-> kind, alert |-> "none", email |-> None, newPassword |-> None]

ResetInit ==
    /\ stack = <<NewScreen("login")>>
    /\ password \in [User -> Password]

Top == Len(stack)
Shows(kind, alert) == stack[Top].kind = kind /\ stack[Top].alert = alert
WithAlert(a) == [stack EXCEPT ![Top].alert = a]

\* A new screen, over the top screen showing alert (which OK has dismissed).
Open(from, alert, kind) ==
    /\ Shows(from, alert) /\ Top < MaxScreens
    /\ stack' = Append(WithAlert("none"), NewScreen(kind))
    /\ password' = password

ForgetPasswordBtnPressed == Open("login", "none", "forgetPassword")

BackBtnPressed ==
    /\ Shows("forgetPassword", "none")
    /\ stack' = Front(stack)
    /\ password' = password

\* Without an e-mail the alert that asks for it comes first, and the second
\* one, with the way to the PIN, is not presented.
ResetBtnPressed(e) ==
    /\ Shows("forgetPassword", "none")
    /\ stack' = [WithAlert(IF e = None THEN "error" ELSE "pin") EXCEPT ![Top].email = e]
    /\ password' = password

PinOk == Open("forgetPassword", "pin", "confirmPIN")

\* An empty PIN and a wrong one, and "resend", show an alert and nothing more.
ConfirmPinBtnPressed == Open("confirmPIN", "none", "recreatePassword")
PinAlert ==
    /\ Shows("confirmPIN", "none")
    /\ stack' = WithAlert("error")
    /\ password' = password

\* The two fields (None: empty).
DoneBtnPresed(p, repeated) ==
    /\ Shows("recreatePassword", "none")
    /\ stack' = [WithAlert(IF p = None \/ p # repeated THEN "error" ELSE "changed")
                    EXCEPT ![Top].newPassword = p]
    /\ password' = password

ChangedOk == Open("recreatePassword", "changed", "login")

AlertDismissed ==
    /\ stack[Top].alert = "error"
    /\ stack' = WithAlert("none")
    /\ password' = password

ResetNext ==
    \/ ForgetPasswordBtnPressed
    \/ BackBtnPressed
    \/ \E e \in User \cup {None} : ResetBtnPressed(e)
    \/ PinOk
    \/ ConfirmPinBtnPressed
    \/ PinAlert
    \/ \E p, repeated \in Password \cup {None} : DoneBtnPresed(p, repeated)
    \/ ChangedOk
    \/ AlertDismissed

ResetSpec == ResetInit /\ [][ResetNext]_resetVars

-----------------------------------------------------------------------------

\* While "Password sucessfully changed now you can Log in" is on display
\* (recreatePasswordViewController doneBtnPresed), the account the reset was
\* asked for (the last forgetPasswordViewController) has the new password.
ChangedMeansChanged ==
    Shows("recreatePassword", "changed") =>
        LET forget == SelectLastInSeq(stack, LAMBDA s : s.kind = "forgetPassword")
        IN  password[stack[forget].email] = stack[Top].newPassword

=============================================================================
