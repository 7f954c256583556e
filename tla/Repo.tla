-------------------------------- MODULE Repo --------------------------------
(***************************************************************************)
(* The Realtime Database client below the app's controllers, at one        *)
(* location, "memory/<uid>": the queue of writes the server has not        *)
(* answered yet (FWriteTree), and the one view of the location (FView with *)
(* its FViewProcessor), a server cache and the event cache the app sees.   *)
(*                                                                         *)
(* A memory is a child of the location and is always written whole, so a   *)
(* child is a Value or Absent and every write is an overwrite of one       *)
(* child.  The network is the environment of this module: it answers       *)
(* pending writes, oldest first while there is a view, and pushes any      *)
(* server data.  Module Connection models the network and is shown to be   *)
(* such an environment.                                                    *)
(***************************************************************************)
EXTENDS Naturals, Sequences

CONSTANTS
    Key,        \* child names: memory ids
    Value,      \* contents of a memory
    Absent,     \* the empty node: no child of that name
    NoWrite,    \* no pending write covers the child
    MaxWrites   \* bound on the writes a behaviour makes

ASSUME NodeAssumption == Absent \notin Value /\ NoWrite \notin Value \cup {Absent}
ASSUME MaxWritesAssumption == MaxWrites \in Nat

Node == Value \cup {Absent}

VARIABLES
    writeIdCounter, \* the id the next write gets
    allWrites,      \* pending writes, oldest first
    visibleWrites,  \* child -> the node the pending writes put there
    listening,      \* is there a view of the location
    serverComplete, \* is the view's server cache fully initialized
    serverCache,    \* child -> what the server last said
    eventCache      \* child -> what the registered listeners were told

writeVars == <<writeIdCounter, allWrites, visibleWrites>>
viewVars == <<listening, serverComplete, serverCache, eventCache>>
repoVars == <<writeVars, viewVars>>

Write == [id : Nat, key : Key, node : Node]
Empty == [k \in Key |-> Absent]

RepoTypeOK ==
    /\ writeIdCounter \in Nat
    /\ allWrites \in Seq(Write)
    /\ visibleWrites \in [Key -> Node \cup {NoWrite}]
    /\ listening \in BOOLEAN
    /\ serverComplete \in BOOLEAN
    /\ serverCache \in [Key -> Node]
    /\ eventCache \in [Key -> Node]

RepoInit ==
    /\ writeIdCounter = 0
    /\ allWrites = <<>>
    /\ visibleWrites = [k \in Key |-> NoWrite]
    /\ listening = FALSE
    /\ serverComplete = FALSE
    /\ serverCache = Empty
    /\ eventCache = Empty

-----------------------------------------------------------------------------
(* The write tree *)

\* The pending writes laid over the nodes of base.
Layer(visible, base) ==
    [k \in Key |-> IF visible[k] = NoWrite THEN base[k] ELSE visible[k]]

WritesTo(ws, k) == {i \in DOMAIN ws : ws[i].key = k}

\* The last write to each child, computed from the queue.
LayerTreeFromWrites(ws) ==
    [k \in Key |->
        IF WritesTo(ws, k) = {}
          THEN NoWrite
          ELSE ws[CHOOSE i \in WritesTo(ws, k) :
                     \A j \in WritesTo(ws, k) : j <= i].node]

RemoveIndex(ws, i) ==
    [j \in 1 .. (Len(ws) - 1) |-> IF j < i THEN ws[j] ELSE ws[j + 1]]

\* Mutant of IsShadowed: later writes are not looked at.
IsShadowedNever(i) == FALSE

\* A later write to the same child hides the one at index i.
IsShadowed(i) == \E j \in WritesTo(allWrites, allWrites[i].key) : j > i

OverlapsEarlier(i) == \E j \in WritesTo(allWrites, allWrites[i].key) : j < i

\* Mutant of VisibleAfterRemove: a later write to the child is not looked for.
VisibleAfterRemoveUnshadowed(i) ==
    [visibleWrites EXCEPT ![allWrites[i].key] = NoWrite]

\* visibleWrites after the write at index i is forgotten.
VisibleAfterRemove(i) ==
    IF IsShadowed(i) THEN visibleWrites
    ELSE IF OverlapsEarlier(i) THEN LayerTreeFromWrites(RemoveIndex(allWrites, i))
    ELSE [visibleWrites EXCEPT ![allWrites[i].key] = NoWrite]

RemoveWriteId(i) ==
    /\ allWrites' = RemoveIndex(allWrites, i)
    /\ visibleWrites' = VisibleAfterRemove(i)

-----------------------------------------------------------------------------
(* Operations of the app: setValue and removeValue, observe *)

AddOverwrite(k, n) ==
    /\ writeIdCounter' = writeIdCounter + 1
    /\ allWrites' = Append(allWrites, [id |-> writeIdCounter, key |-> k, node |-> n])
    /\ visibleWrites' = [visibleWrites EXCEPT ![k] = n]

\* The app's own write shows at once.
ApplyUserOverwriteTo(k, n) ==
    IF listening THEN [eventCache EXCEPT ![k] = n] ELSE eventCache

\* setValue (n a value) and removeValue (n = Absent) on child k.
Set(k, n) ==
    /\ writeIdCounter < MaxWrites
    /\ AddOverwrite(k, n)
    /\ eventCache' = ApplyUserOverwriteTo(k, n)
    /\ UNCHANGED <<listening, serverComplete, serverCache>>

\* The view a first registration creates: persistence is off, so its server cache
\* starts empty and incomplete; the pending writes prefill the event cache.
NewView ==
    /\ serverComplete' = FALSE
    /\ serverCache' = Empty
    /\ eventCache' = Layer(visibleWrites', Empty)

\* observe: the first registration creates the view, a later one joins it.
AddEventRegistration ==
    /\ UNCHANGED writeVars
    /\ listening' = TRUE
    /\ IF listening THEN UNCHANGED <<serverComplete, serverCache, eventCache>>
                    ELSE NewView

\* removeValue on child k followed by observe.
RemoveAndObserve(k) ==
    /\ writeIdCounter < MaxWrites
    /\ AddOverwrite(k, Absent)
    /\ listening' = TRUE
    /\ IF listening
         THEN /\ eventCache' = ApplyUserOverwriteTo(k, Absent)
              /\ UNCHANGED <<serverComplete, serverCache>>
         ELSE NewView

-----------------------------------------------------------------------------
(* What the connection reports *)

Uncover(k) == [eventCache EXCEPT ![k] = serverCache[k]]

\* An accepted write uncovers the server's child only where the server cache
\* is complete for it.
AckUserWriteOn(k) ==
    IF serverComplete \/ serverCache[k] # Absent THEN Uncover(k) ELSE eventCache

\* Mutant of RevertUserWriteOn: the rejected write is not undone in the view.
RevertUserWriteOnKeeps(k) == eventCache

\* A rejected write always uncovers it, as absent if nothing is known.
RevertUserWriteOn(k) == Uncover(k)

\* The write at index i was answered.  The view is re-evaluated only if no
\* later write hides the child and none is left on it.
AckWrite(i, success) ==
    LET k == allWrites[i].key
        reevaluate == listening /\ ~IsShadowed(i) /\ VisibleAfterRemove(i)[k] = NoWrite
    IN  /\ RemoveWriteId(i)
        /\ eventCache' = IF ~reevaluate THEN eventCache
                         ELSE IF success THEN AckUserWriteOn(k)
                         ELSE RevertUserWriteOn(k)
        /\ UNCHANGED <<writeIdCounter, listening, serverComplete, serverCache>>

\* Mutant of EventAfterServerOverwrite: server data shows through a pending write.
EventAfterServerOverwriteUnshadowed(k, n) == [eventCache EXCEPT ![k] = n]

\* Server data for a child is ignored under a pending write to it.
EventAfterServerOverwrite(k, n) ==
    IF visibleWrites[k] # NoWrite THEN eventCache ELSE [eventCache EXCEPT ![k] = n]

\* A data push for one child.
ApplyServerOverwrite(k, n) ==
    /\ listening
    /\ serverCache' = [serverCache EXCEPT ![k] = n]
    /\ eventCache' = EventAfterServerOverwrite(k, n)
    /\ UNCHANGED <<writeVars, listening, serverComplete>>

\* A data push for the whole location.
ApplyServerSnapshot(nodes) ==
    /\ listening
    /\ serverComplete' = TRUE
    /\ serverCache' = nodes
    /\ eventCache' = Layer(visibleWrites, nodes)
    /\ UNCHANGED <<writeVars, listening>>

\* The listen was accepted: what the server cache holds is all there is.
ApplyListenComplete ==
    /\ listening
    /\ serverComplete' = TRUE
    /\ eventCache' = Layer(visibleWrites, serverCache)
    /\ UNCHANGED <<writeVars, listening, serverCache>>

\* The listen was refused or revoked: the view and its registrations go.
RemoveEventRegistrations ==
    /\ listening
    /\ listening' = FALSE
    /\ serverComplete' = FALSE
    /\ serverCache' = Empty
    /\ eventCache' = Empty
    /\ UNCHANGED writeVars

-----------------------------------------------------------------------------
(* The client in the environment module Connection is shown to be: while     *)
(* there is a view, answers come oldest first, and never before its first    *)
(* server data.                                                              *)

MayAnswer(i) == i \in DOMAIN allWrites /\ (listening => i = 1 /\ serverComplete)

RepoNext ==
    \/ \E k \in Key, n \in Node : Set(k, n)
    \/ AddEventRegistration
    \/ \E i \in DOMAIN allWrites, success \in BOOLEAN : MayAnswer(i) /\ AckWrite(i, success)
    \/ \E k \in Key, n \in Node : ApplyServerOverwrite(k, n)
    \/ \E nodes \in [Key -> Node] : ApplyServerSnapshot(nodes)
    \/ ApplyListenComplete
    \/ RemoveEventRegistrations

RepoSpec == RepoInit /\ [][RepoNext]_repoVars

-----------------------------------------------------------------------------
(* Properties *)

\* The incrementally maintained visibleWrites (FWriteTree addOverwrite and
\* removeWriteId) is always the last pending write to each child.
VisibleWritesExact ==
    \A k \in Key :
        \/ visibleWrites[k] = NoWrite /\ WritesTo(allWrites, k) = {}
        \/ \E i \in WritesTo(allWrites, k) :
              /\ visibleWrites[k] = allWrites[i].node
              /\ \A j \in WritesTo(allWrites, k) : j <= i

\* What the listeners were told (FViewProcessor) is the server's data with the
\* pending writes on top, after any mix of writes, answers and pushes.
EventCacheExact ==
    listening => eventCache = Layer(visibleWrites, serverCache)

\* Write ids grow along the queue and are never reused: addOverwriteAtPath's
\* assertion "Stacking an older write on top of a newer one" cannot fail, and
\* an answer finds its own write.
WriteIdsIncrease ==
    /\ \A i, j \in DOMAIN allWrites : i < j => allWrites[i].id < allWrites[j].id
    /\ \A i \in DOMAIN allWrites : allWrites[i].id < writeIdCounter

\* A listener never sees a child move back under a write that is still
\* pending: while a write to k is queued, only a new write to k, or the
\* loss of the view, changes what is shown for k.
PendingWriteStays ==
    [][\A k \in Key :
          (/\ listening /\ listening'
           /\ eventCache'[k] # eventCache[k]
           /\ WritesTo(allWrites, k) # {}
           /\ WritesTo(allWrites', k) # {})
             => writeIdCounter' = writeIdCounter + 1]_repoVars

=============================================================================
