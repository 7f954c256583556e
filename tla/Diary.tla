-------------------------------- MODULE Diary --------------------------------
(***************************************************************************)
(* The diary itself: the list of memories (myMemoriesViewController), the  *)
(* add/edit screen (addMemoryViewController) and the screen of one memory  *)
(* (showMemoryViewController), over the database client of module Repo,    *)
(* for one signed-in user.                                                 *)
(*                                                                         *)
(* Screens are presented on top of each other and only the show screen is  *)
(* ever dismissed: after adding, cancelling or deleting, the app presents  *)
(* a new list.  Every list therefore stays alive below, with the listener  *)
(* its viewDidLoad registered.  A list handles childAdded events only.     *)
(*                                                                         *)
(* The database calls back on the main queue.  A call of the app into the  *)
(* database runs on a serial queue that the server's messages also run on; *)
(* a message handled between the call and its execution is equivalent to   *)
(* one handled before the call, so the call takes effect at once here.     *)
(*                                                                         *)
(* External, modelled from their use: UIKit's presentation of screens and  *)
(* alerts, and the server (with the other devices of the same user).       *)
(***************************************************************************)
EXTENDS Repo, SequencesExt

CONSTANTS
    NoKey,      \* memoryID before one is chosen
    MaxScreens, \* bound on the presented screens
    MaxRemote,  \* bound on the writes of other devices
    MaxKills    \* bound on the app being killed and started again

ASSUME DiaryAssumption ==
    /\ Key \subseteq Nat /\ IsFiniteSet(Key) /\ NoKey \notin Key
    /\ MaxScreens \in Nat \ {0} /\ MaxRemote \in Nat /\ MaxKills \in Nat

VARIABLES
    stack,      \* presented screens, the visible one last
    hud,        \* is the progress HUD showing
    mainQueue,  \* blocks dispatched to the main queue
    onComplete, \* for each pending write, the screen its callback belongs to (0: none)
    server,     \* the server's data
    answers,    \* answers on their way, to the oldest pending writes
    usedIds,    \* ids that were ever given to a memory
    remote, kills,  \* counters for the bounds
    disturbed,  \* memories changed or removed under the list shown last
    deleted,    \* memories the user deleted and nobody brought back
    acceptedScreens \* screens with a write the server accepted

uiVars == <<stack, hud>>
historyVars == <<disturbed, deleted, acceptedScreens>>
diaryVars == <<repoVars, uiVars, mainQueue, onComplete, server, answers,
               usedIds, remote, kills, historyVars>>

Row == [key : Key, node : Value]
Screen == [kind : {"list", "add", "show"},
           initator : {"", "vc1", "vc2"},
           memoryID : Key \cup {NoKey},
           text : Node,
           rows : Seq(Row),
           observing : BOOLEAN,
           alert : {"none", "saved", "delete"}]
ScreenIds == 1 .. MaxScreens
ChildAdded == [type : {"childAdded"}, screen : ScreenIds, key : Key, node : Value]
Completion == [type : {"completion"}, screen : ScreenIds, success : BOOLEAN]

DiaryTypeOK ==
    /\ RepoTypeOK
    /\ stack \in Seq(Screen)
    /\ Len(stack) \in ScreenIds
    /\ hud \in BOOLEAN
    /\ mainQueue \in Seq(ChildAdded \cup Completion)
    /\ onComplete \in Seq(ScreenIds \cup {0})
    /\ Len(onComplete) = Len(allWrites)
    /\ server \in [Key -> Node]
    /\ answers \in Seq(BOOLEAN)
    /\ Len(answers) <= Len(allWrites)
    /\ usedIds \subseteq Key
    /\ remote \in 0 .. MaxRemote
    /\ kills \in 0 .. MaxKills
    /\ disturbed \subseteq Key
    /\ deleted \subseteq Key
    /\ acceptedScreens \subseteq ScreenIds

-----------------------------------------------------------------------------
(* Screens *)

Top == Len(stack)
Blank == [kind |-> "list", initator |-> "", memoryID |-> NoKey, text |-> Absent,
          rows |-> <<>>, observing |-> FALSE, alert |-> "none"]
NewList == [Blank EXCEPT !.observing = TRUE]
NewAdd == [Blank EXCEPT !.kind = "add", !.initator = "vc1"]
NewEdit(s) == [Blank EXCEPT !.kind = "add", !.initator = "vc2",
                            !.memoryID = s.memoryID, !.text = s.text]
NewShow(r) == [Blank EXCEPT !.kind = "show", !.memoryID = r.key, !.text = r.node]

\* The visible screen is of the kind and its buttons can be tapped.
Tappable(kind) == stack[Top].kind = kind /\ stack[Top].alert = "none"

\* A screen presents only if it is the visible one and presents nothing yet;
\* UIKit ignores the call otherwise.
CanPresent(p) == p = Top /\ stack[p].alert = "none"

\* Lists of s whose listener is registered.
Listeners(s) == {p \in DOMAIN s : s[p].observing}

\* Mutant of Appeared: any change of a child counts.
AppearedOrChanged(old, new) == {k \in Key : old[k] # new[k]}

Appeared(old, new) == {k \in Key : old[k] = Absent /\ new[k] # Absent}

\* The numbers in S, in their order.
Ascending(S) ==
    CHOOSE f \in [1 .. Cardinality(S) -> S] : \A i, j \in DOMAIN f : i < j => f[i] < f[j]

\* Blocks for the listeners: a childAdded for each child that appeared, in key
\* order, and for each listener.
ChildAddedEvents(old, new, regs) ==
    LET ks == Ascending(Appeared(old, new))
        ps == Ascending(regs)
        event(i) == [type |-> "childAdded", screen |-> ps[((i - 1) % Len(ps)) + 1],
                     key |-> ks[((i - 1) \div Len(ps)) + 1],
                     node |-> new[ks[((i - 1) \div Len(ps)) + 1]]]
    IN  [i \in 1 .. (Len(ks) * Len(ps)) |-> event(i)]

\* Events of a step that changes the view the lists of stack listen to.
RaisedEvents == ChildAddedEvents(eventCache, eventCache', Listeners(stack))

\* Changes and removals under the shown list, which it does not observe.
Unobserved ==
    IF listening THEN {k \in Key : eventCache[k] # Absent /\ eventCache'[k] # eventCache[k]}
                 ELSE {}

-----------------------------------------------------------------------------
(* A new list.  Its viewDidLoad registers a listener, and observe replays   *)
(* the children the view holds to it.                                       *)

\* Mutant of RetriveMemories: the children the view already holds are not replayed.
RetriveMemoriesNoReplay(s) ==
    /\ mainQueue' = mainQueue
    /\ disturbed' = {}
    /\ stack' = Append(s, NewList)

\* Presented on the screens s, after the step that registered its listener.
RetriveMemories(s) ==
    /\ mainQueue' = mainQueue \o ChildAddedEvents(Empty, eventCache', {Len(s) + 1})
    /\ disturbed' = {}
    /\ stack' = Append(s, NewList)

-----------------------------------------------------------------------------
(* myMemoriesViewController *)

AddMemoriesBtnPressed ==
    /\ Tappable("list") /\ Top < MaxScreens
    /\ stack' = Append(stack, NewAdd)
    /\ UNCHANGED <<repoVars, hud, mainQueue, onComplete, server, answers,
                   usedIds, remote, kills, historyVars>>

DidSelectRow(i) ==
    /\ Tappable("list") /\ Top < MaxScreens
    /\ i \in DOMAIN stack[Top].rows
    /\ stack' = Append(stack, NewShow(stack[Top].rows[i]))
    /\ UNCHANGED <<repoVars, hud, mainQueue, onComplete, server, answers,
                   usedIds, remote, kills, historyVars>>

-----------------------------------------------------------------------------
(* addMemoryViewController *)

\* random(): 28 random characters, taken to be an id no memory ever had.
Random == Key \ usedIds

DoneBtnPressed(k, v) ==
    /\ Tappable("add")
    /\ IF stack[Top].initator = "vc1" THEN k \in Random ELSE k = stack[Top].memoryID
    /\ hud' = TRUE
    /\ stack' = [stack EXCEPT ![Top].memoryID = k, ![Top].text = v]
    /\ usedIds' = usedIds \cup {k}
    /\ Set(k, v)
    /\ onComplete' = Append(onComplete, Top)
    /\ mainQueue' = mainQueue \o RaisedEvents
    /\ UNCHANGED <<server, answers, remote, kills, historyVars>>

\* Mutant of CancelBtnPressed: the screen is dismissed, back to the old list.
CancelBtnDismisses ==
    /\ Tappable("add")
    /\ stack' = Front(stack)
    /\ UNCHANGED <<repoVars, hud, mainQueue, onComplete, server, answers,
                   usedIds, remote, kills, historyVars>>

CancelBtnPressed ==
    /\ Tappable("add") /\ Top < MaxScreens
    /\ AddEventRegistration
    /\ RetriveMemories(stack)
    /\ UNCHANGED <<hud, onComplete, server, answers, usedIds, remote, kills,
                   deleted, acceptedScreens>>

\* OK on "Memory is saved".
SavedOk ==
    /\ stack[Top].alert = "saved" /\ Top < MaxScreens
    /\ hud' = FALSE
    /\ AddEventRegistration
    /\ RetriveMemories([stack EXCEPT ![Top].alert = "none"])
    /\ UNCHANGED <<onComplete, server, answers, usedIds, remote, kills,
                   deleted, acceptedScreens>>

-----------------------------------------------------------------------------
(* showMemoryViewController *)

BackBtnPressed ==
    /\ Tappable("show")
    /\ stack' = Front(stack)
    /\ UNCHANGED <<repoVars, hud, mainQueue, onComplete, server, answers,
                   usedIds, remote, kills, historyVars>>

EditBtnPressed ==
    /\ Tappable("show") /\ Top < MaxScreens
    /\ stack' = Append(stack, NewEdit(stack[Top]))
    /\ UNCHANGED <<repoVars, hud, mainQueue, onComplete, server, answers,
                   usedIds, remote, kills, historyVars>>

DeleteBtnPressed ==
    /\ Tappable("show")
    /\ stack' = [stack EXCEPT ![Top].alert = "delete"]
    /\ UNCHANGED <<repoVars, hud, mainQueue, onComplete, server, answers,
                   usedIds, remote, kills, historyVars>>

DeleteCancelled ==
    /\ stack[Top].alert = "delete"
    /\ stack' = [stack EXCEPT ![Top].alert = "none"]
    /\ UNCHANGED <<repoVars, hud, mainQueue, onComplete, server, answers,
                   usedIds, remote, kills, historyVars>>

\* Ok on "Are you sure": the memory is removed, no callback, and a new list shown.
DeleteOk ==
    /\ stack[Top].alert = "delete" /\ Top < MaxScreens
    /\ RemoveAndObserve(stack[Top].memoryID)
    /\ onComplete' = Append(onComplete, 0)
    /\ RetriveMemories([stack EXCEPT ![Top].alert = "none"])
    /\ deleted' = deleted \cup {stack[Top].memoryID}
    /\ UNCHANGED <<hud, server, answers, usedIds, remote, kills, acceptedScreens>>

-----------------------------------------------------------------------------
(* The main queue *)

\* The closure of observe(.childAdded).
HandleChildAdded ==
    LET e == Head(mainQueue)
    IN  /\ mainQueue # <<>> /\ e.type = "childAdded"
        /\ stack' = [stack EXCEPT ![e.screen].rows =
                        Append(@, [key |-> e.key, node |-> e.node])]
        /\ mainQueue' = Tail(mainQueue)
        /\ UNCHANGED <<repoVars, hud, onComplete, server, answers, usedIds,
                       remote, kills, historyVars>>

\* Mutant of SavedAlert: the error is not looked at.
SavedAlertAlways(e) == CanPresent(e.screen)

\* Does the callback of setValue present "Memory is saved".
SavedAlert(e) == e.success /\ CanPresent(e.screen)

\* The callback of setValue: an error is only printed.
HandleCompletion ==
    LET e == Head(mainQueue)
    IN  /\ mainQueue # <<>> /\ e.type = "completion"
        /\ stack' = IF SavedAlert(e) THEN [stack EXCEPT ![e.screen].alert = "saved"]
                                     ELSE stack
        /\ mainQueue' = Tail(mainQueue)
        /\ UNCHANGED <<repoVars, hud, onComplete, server, answers, usedIds,
                       remote, kills, historyVars>>

-----------------------------------------------------------------------------
(* The server and the other devices *)

\* The server pushes child k to this client if it listens.
PushChild(k) ==
    IF listening /\ serverComplete
      THEN /\ ApplyServerOverwrite(k, server'[k])
           /\ mainQueue' = mainQueue \o RaisedEvents
           /\ disturbed' = disturbed \cup Unobserved
      ELSE UNCHANGED <<repoVars, mainQueue, disturbed>>

ServerAccepts ==
    LET i == Len(answers) + 1
    IN  /\ i <= Len(allWrites)
        /\ server' = [server EXCEPT ![allWrites[i].key] = allWrites[i].node]
        /\ answers' = Append(answers, TRUE)
        /\ PushChild(allWrites[i].key)
        /\ acceptedScreens' = acceptedScreens \cup ({onComplete[i]} \ {0})
        /\ UNCHANGED <<uiVars, onComplete, usedIds, remote, kills, deleted>>

ServerRejects ==
    /\ Len(answers) < Len(allWrites)
    /\ answers' = Append(answers, FALSE)
    /\ UNCHANGED <<repoVars, uiVars, mainQueue, onComplete, server, usedIds,
                   remote, kills, historyVars>>

\* The oldest answer arrives: events first, then the callback of the write.
AnswerArrives ==
    LET success == Head(answers)
        w == Head(allWrites)
    IN  /\ answers # <<>> /\ MayAnswer(1)
        /\ AckWrite(1, success)
        /\ answers' = Tail(answers)
        /\ onComplete' = Tail(onComplete)
        /\ mainQueue' = mainQueue \o RaisedEvents \o
              (IF Head(onComplete) = 0 THEN <<>>
               ELSE <<[type |-> "completion", screen |-> Head(onComplete),
                       success |-> success]>>)
        /\ disturbed' = disturbed \cup Unobserved
        /\ deleted' = IF ~success /\ w.node = Absent THEN deleted \ {w.key} ELSE deleted
        /\ UNCHANGED <<uiVars, server, usedIds, remote, kills, acceptedScreens>>

\* The server answers the listen with its data.
FirstData ==
    /\ listening /\ ~serverComplete
    /\ ApplyServerSnapshot(server)
    /\ mainQueue' = mainQueue \o RaisedEvents
    /\ disturbed' = disturbed \cup Unobserved
    /\ UNCHANGED <<uiVars, onComplete, server, answers, usedIds, remote, kills,
                   deleted, acceptedScreens>>

\* Another device of the user adds, edits or deletes a memory.
OtherDevice(k, n) ==
    /\ remote < MaxRemote
    /\ n # server[k]
    /\ remote' = remote + 1
    /\ server' = [server EXCEPT ![k] = n]
    /\ usedIds' = usedIds \cup {k}
    /\ PushChild(k)
    /\ deleted' = IF n # Absent THEN deleted \ {k} ELSE deleted
    /\ UNCHANGED <<uiVars, onComplete, answers, kills, acceptedScreens>>

\* The server ends the listen; every listener is told and removed.
ListenRevoked ==
    /\ remote < MaxRemote
    /\ remote' = remote + 1
    /\ RemoveEventRegistrations
    /\ stack' = [p \in DOMAIN stack |-> [stack[p] EXCEPT !.observing = FALSE]]
    /\ UNCHANGED <<hud, mainQueue, onComplete, server, answers, usedIds, kills,
                   historyVars>>

\* The app is killed and started again: nothing on the device survives, and
\* after the login screen there is one list.
Relaunch ==
    /\ kills < MaxKills
    /\ kills' = kills + 1
    /\ writeIdCounter' = 0
    /\ allWrites' = <<>>
    /\ visibleWrites' = [k \in Key |-> NoWrite]
    /\ listening' = TRUE
    /\ NewView
    /\ stack' = <<NewList>>
    /\ hud' = FALSE
    /\ mainQueue' = <<>>
    /\ onComplete' = <<>>
    /\ answers' = <<>>
    /\ disturbed' = {} /\ deleted' = {} /\ acceptedScreens' = {}
    /\ UNCHANGED <<server, usedIds, remote>>

-----------------------------------------------------------------------------

DiaryInit ==
    /\ writeIdCounter = 0
    /\ allWrites = <<>>
    /\ visibleWrites = [k \in Key |-> NoWrite]
    /\ listening = TRUE
    /\ serverComplete = FALSE
    /\ serverCache = Empty
    /\ eventCache = Empty
    /\ stack = <<NewList>>
    /\ hud = FALSE
    /\ mainQueue = <<>>
    /\ onComplete = <<>>
    /\ server \in [Key -> Node]
    /\ answers = <<>>
    /\ usedIds = {k \in Key : server[k] # Absent}
    /\ remote = 0 /\ kills = 0
    /\ disturbed = {} /\ deleted = {} /\ acceptedScreens = {}

UserStep ==
    \/ AddMemoriesBtnPressed
    \/ \E i \in DOMAIN stack[Top].rows : DidSelectRow(i)
    \/ \E k \in Key, v \in Value : DoneBtnPressed(k, v)
    \/ CancelBtnPressed
    \/ SavedOk
    \/ BackBtnPressed
    \/ EditBtnPressed
    \/ DeleteBtnPressed
    \/ DeleteCancelled
    \/ DeleteOk

MainQueueStep == HandleChildAdded \/ HandleCompletion

ServerStep == ServerAccepts \/ ServerRejects \/ AnswerArrives \/ FirstData

OutsideStep ==
    \/ \E k \in Key, n \in Node : OtherDevice(k, n)
    \/ ListenRevoked
    \/ Relaunch

DiaryNext == UserStep \/ MainQueueStep \/ ServerStep \/ OutsideStep

DiarySpec == DiaryInit /\ [][DiaryNext]_diaryVars

\* The main queue runs and the server answers in the end: the connection
\* retries for ever and keeps unanswered writes.
DiaryFairSpec ==
    /\ DiarySpec
    /\ WF_diaryVars(MainQueueStep)
    /\ WF_diaryVars(ServerStep)

-----------------------------------------------------------------------------
(* Properties *)

\* Rows the list at p has for k, and events on the main queue that add one.
Rows(p, k) == {i \in DOMAIN stack[p].rows : stack[p].rows[i].key = k}
Coming(p, k) ==
    {i \in DOMAIN mainQueue : /\ mainQueue[i].type = "childAdded"
                              /\ mainQueue[i].screen = p /\ mainQueue[i].key = k}

\* No list misses a memory: every memory of the view is a row of every list
\* that still listens (retriveMemories), or its event is on the main queue.
NoMemoryMissing ==
    \A p \in Listeners(stack), k \in Key :
        eventCache[k] # Absent => Rows(p, k) \cup Coming(p, k) # {}

\* The list at p shows k once, with the node n, or is about to.
ShownOnce(p, k, n) ==
    \/ \E i \in Rows(p, k) : Rows(p, k) = {i} /\ stack[p].rows[i].node = n /\ Coming(p, k) = {}
    \/ \E i \in Coming(p, k) : Coming(p, k) = {i} /\ mainQueue[i].node = n /\ Rows(p, k) = {}

\* The visible list is exact: one row for each memory with its contents and no
\* other row, except for memories changed or removed under it by an answer or
\* another device, which childAdded does not report.  In particular the app's
\* own adds, edits and deletes never leave a stale or double row on display.
VisibleListExact ==
    stack[Top].kind = "list" /\ stack[Top].observing =>
        \A k \in Key \ disturbed :
            IF eventCache[k] = Absent THEN Rows(Top, k) \cup Coming(Top, k) = {}
                                      ELSE ShownOnce(Top, k, eventCache[k])

\* A memory the user deleted (showMemoryViewController deleteBtnPressed) stays
\* out of the view, whatever older writes to it are still answered, unless the
\* delete is rejected or another device writes it again.
DeletedStaysDeleted ==
    \A k \in deleted : eventCache[k] = Absent

\* "Memory is saved" is on display only for a screen one of whose writes the
\* server has accepted (addMemoryViewController doneBtnPressed).
SavedMeansAccepted ==
    \A p \in DOMAIN stack : stack[p].alert = "saved" => p \in acceptedScreens

\* Once the user and the other devices are done, the view and the server agree
\* and every callback has run.
Converges ==
    <>[](allWrites = <<>> /\ mainQueue = <<>> /\ (listening => eventCache = server))
=============================================================================
