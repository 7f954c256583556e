------------------------------ MODULE MCAccount ------------------------------
(***************************************************************************)
(* Account for TLC.  Four screens reach the change of a password after a   *)
(* log in (log in, list, profile, change), and the login screen after a    *)
(* log out; a registration before them needs a fifth.                      *)
(***************************************************************************)
EXTENDS Account

\* PasswordsAgree says nothing of a user in parted, and none ever leaves it:
\* the run about passwords need not go on once every user is there.
NotAllParted == parted # User

\* Bounds of that run: what is under way at one time, and how much of it waits
\* on the main queue.
MaxUnderWay == 3
MaxWaiting == 1
FewUnderWay ==
    /\ Len(requests) + Len(writes) + Len(reads) + Len(mainQueue) <= MaxUnderWay
    /\ Len(mainQueue) <= MaxWaiting

Symmetry == Permutations(User) \cup Permutations(Password)
=============================================================================
