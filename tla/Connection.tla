----------------------------- MODULE Connection -----------------------------
(***************************************************************************)
(* FPersistentConnection below the database client of module Repo, and the *)
(* server at its other end.  Calls of the client are kept as an            *)
(* outstanding listen and outstanding puts until they are answered; when   *)
(* the socket breaks, everything in flight is lost, the connection is      *)
(* opened again, and what is outstanding is sent again.                    *)
(*                                                                         *)
(* A put answered while a listen is not is held back (putsToAck), so that  *)
(* the client hears of it after the data that contains it.  This is what   *)
(* makes the connection the environment Repo assumes (ImplementsRepo).     *)
(*                                                                         *)
(* All handlers run on one serial queue, each in one step, except that the *)
(* loop of ackPuts is unrolled: no other handler runs while acking holds.  *)
(* External, modelled from its use: the server.                            *)
(***************************************************************************)
EXTENDS Repo, SequencesExt

CONSTANTS
    MaxListens, \* bound on the listens the client starts
    MaxDrops,   \* bound on broken sockets and failed attempts to connect
    MaxRemote,  \* bound on writes of other devices
    MaxEnded    \* bound on listens the server refuses or revokes

ASSUME ConnectionAssumption ==
    {MaxListens, MaxDrops, MaxRemote, MaxEnded} \subseteq Nat

VARIABLES
    connectionState,
    listenSpec,      \* the outstanding query, numbered; 0: none
    listenCounter,   \* number of the last listen
    outstandingPuts, \* unanswered puts, in the order of their index
    putsToAck,       \* answers held back
    unackedListens,  \* listens sent on this socket and not answered
    acking,          \* the loop of ackPuts is running
    toServer, toClient,  \* the two directions of the socket
    server,          \* the server's data
    serverListens,   \* does the server push changes on this socket
    drops, remote, ended \* counters for their bounds

connVars == <<connectionState, listenSpec, listenCounter, outstandingPuts, putsToAck,
              unackedListens, acking>>
netVars == <<toServer, toClient, server, serverListens, drops, remote, ended>>
connectionVars == <<repoVars, connVars, netVars>>

Put == [type : {"put"}, id : Nat, key : Key, node : Node]
PutAnswer == [type : {"put"}, id : Nat, ok : BOOLEAN]
ToServer == Put \cup [type : {"auth"}]
            \cup [type : {"listen"}, spec : Nat, hash : [Key -> Node]]
ToClient == PutAnswer \cup [type : {"auth"}, ok : BOOLEAN]
            \cup [type : {"listen"}, spec : Nat, ok : BOOLEAN]
            \cup [type : {"snapshot"}, nodes : [Key -> Node]]
            \cup [type : {"child"}, key : Key, node : Node]
            \cup [type : {"revoked"}]

\* unackedListens, an NSUInteger whose assertion "decremented to be negative" can
\* never fail, indeed never goes below zero (FPersistentConnection sendListen).
ConnectionTypeOK ==
    /\ RepoTypeOK
    /\ connectionState \in {"disconnected", "connecting", "authenticating", "connected"}
    /\ listenSpec \in 0 .. listenCounter
    /\ listenCounter \in 0 .. MaxListens
    /\ outstandingPuts \in Seq(Put)
    /\ putsToAck \in Seq(PutAnswer)
    /\ unackedListens \in Nat
    /\ acking \in BOOLEAN
    /\ toServer \in Seq(ToServer)
    /\ toClient \in Seq(ToClient)
    /\ server \in [Key -> Node]
    /\ serverListens \in BOOLEAN
    /\ drops \in 0 .. MaxDrops
    /\ remote \in 0 .. MaxRemote
    /\ ended \in 0 .. MaxEnded

ConnectionInit ==
    /\ RepoInit
    /\ connectionState = "disconnected"
    /\ listenSpec = 0 /\ listenCounter = 0
    /\ outstandingPuts = <<>> /\ putsToAck = <<>>
    /\ unackedListens = 0
    /\ acking = FALSE
    /\ toServer = <<>> /\ toClient = <<>>
    /\ server \in [Key -> Node]
    /\ serverListens = FALSE
    /\ drops = 0 /\ remote = 0 /\ ended = 0

-----------------------------------------------------------------------------
(* Calls of the client *)

Connected == connectionState \in {"authenticating", "connected"}
CanSendWrites == connectionState = "connected"

\* The request of a listen, with a hash of the server data its view has.
ListenRequest(spec, nodes) == [type |-> "listen", spec |-> spec, hash |-> nodes]

\* Mutant of SentListens: a listen sent is not counted.
SentListensUncounted(n) == unackedListens

\* unackedListens after n listens were sent.
SentListens(n) == unackedListens + n

\* setValue or removeValue.
PutData(k, n) ==
    LET put == [type |-> "put", id |-> writeIdCounter, key |-> k, node |-> n]
    IN  /\ ~acking
        /\ Set(k, n)
        /\ outstandingPuts' = Append(outstandingPuts, put)
        /\ toServer' = IF CanSendWrites THEN Append(toServer, put) ELSE toServer
        /\ UNCHANGED <<connectionState, listenSpec, listenCounter, putsToAck,
                       unackedListens, acking, toClient, server, serverListens,
                       drops, remote, ended>>

\* observe where there is no view yet.
Listen ==
    /\ ~acking
    /\ ~listening /\ listenCounter < MaxListens
    /\ AddEventRegistration
    /\ listenCounter' = listenCounter + 1
    /\ listenSpec' = listenCounter'
    /\ IF Connected
         THEN /\ toServer' = Append(toServer, ListenRequest(listenSpec', serverCache'))
              /\ unackedListens' = SentListens(1)
         ELSE UNCHANGED <<toServer, unackedListens>>
    /\ UNCHANGED <<connectionState, outstandingPuts, putsToAck, acking, toClient,
                   server, serverListens, drops, remote, ended>>

-----------------------------------------------------------------------------
(* The socket *)

TryReconnect ==
    /\ ~acking /\ connectionState = "disconnected"
    /\ connectionState' = "connecting"
    /\ UNCHANGED <<repoVars, listenSpec, listenCounter, outstandingPuts, putsToAck,
                   unackedListens, acking, netVars>>

\* Mutant of Restored: the outstanding puts are not sent again.
RestoredNoPuts(listens) == listens

\* The outstanding listen, then the outstanding puts in their order.
Restored(listens) == listens \o outstandingPuts

RestoreState ==
    /\ connectionState' = "connected"
    /\ toServer' = toServer \o Restored(IF listenSpec = 0 THEN <<>>
                                       ELSE <<ListenRequest(listenSpec, serverCache)>>)
    /\ unackedListens' = SentListens(IF listenSpec = 0 THEN 0 ELSE 1)

\* The socket is open: restoreAuth, with a token or without one.
OnReady(token) ==
    /\ ~acking /\ connectionState = "connecting"
    /\ IF token
         THEN /\ connectionState' = "authenticating"
              /\ toServer' = Append(toServer, [type |-> "auth"])
              /\ unackedListens' = unackedListens
         ELSE RestoreState
    /\ UNCHANGED <<repoVars, listenSpec, listenCounter, outstandingPuts, putsToAck,
                   acking, toClient, server, serverListens, drops, remote, ended>>

\* Mutant of PutsToAckKept: the answers held back are forgotten.
PutsToAckDropped == <<>>

\* A disconnect keeps the answers held back for the next listen's answer.
PutsToAckKept == putsToAck

\* The connection is gone, with everything in flight.
Drop ==
    /\ connectionState' = "disconnected"
    /\ unackedListens' = 0
    /\ putsToAck' = PutsToAckKept
    /\ toServer' = <<>> /\ toClient' = <<>>
    /\ serverListens' = FALSE
    /\ UNCHANGED <<repoVars, listenSpec, listenCounter, outstandingPuts, acking,
                   server, remote, ended>>

\* The socket breaks, or does not open.
OnDisconnect ==
    /\ ~acking /\ connectionState # "disconnected"
    /\ drops < MaxDrops
    /\ drops' = drops + 1
    /\ Drop

-----------------------------------------------------------------------------
(* Messages of the server *)

Receive(type) == ~acking /\ toClient # <<>> /\ Head(toClient).type = type
Received == toClient' = Tail(toClient)

OnAuth ==
    /\ Receive("auth")
    /\ \/ /\ Head(toClient).ok
          /\ RestoreState
          /\ Received
          /\ UNCHANGED <<repoVars, listenSpec, listenCounter, outstandingPuts,
                         putsToAck, acking, server, serverListens, drops, remote, ended>>
       \/ /\ ~Head(toClient).ok
          /\ Drop
          /\ drops' = drops

\* Data for a location without a view is ignored.
OnDataPush ==
    LET m == Head(toClient)
    IN  /\ Receive("snapshot") \/ Receive("child")
        /\ IF ~listening THEN UNCHANGED repoVars
           ELSE IF m.type = "snapshot" THEN ApplyServerSnapshot(m.nodes)
           ELSE ApplyServerOverwrite(m.key, m.node)
        /\ Received
        /\ UNCHANGED <<connVars, toServer, server, serverListens, drops, remote, ended>>

\* The listen was ended by the server: the listeners are told and removed.
OnListenRevoked ==
    /\ Receive("revoked")
    /\ IF listenSpec = 0 THEN UNCHANGED repoVars ELSE RemoveEventRegistrations
    /\ listenSpec' = 0
    /\ Received
    /\ UNCHANGED <<connectionState, listenCounter, outstandingPuts, putsToAck,
                   unackedListens, acking, toServer, server, serverListens, drops, remote, ended>>

\* The answer to a listen counts only for the listen it belongs to.  When no
\* listen is unanswered any more, the puts held back are acknowledged.
OnListenResponse ==
    LET m == Head(toClient)
        current == listenSpec = m.spec
    IN  /\ Receive("listen")
        /\ IF ~current THEN UNCHANGED repoVars
           ELSE IF m.ok THEN ApplyListenComplete
           ELSE RemoveEventRegistrations
        /\ listenSpec' = IF current /\ ~m.ok THEN 0 ELSE listenSpec
        /\ unackedListens' = unackedListens - 1
        /\ acking' = (unackedListens' = 0 /\ putsToAck # <<>>)
        /\ Received
        /\ UNCHANGED <<connectionState, listenCounter, outstandingPuts, putsToAck,
                       toServer, server, serverListens, drops, remote, ended>>

\* The write with this id is acknowledged to the client.
AckToClient(a) ==
    \E i \in DOMAIN allWrites : allWrites[i].id = a.id /\ AckWrite(i, a.ok)

\* One round of the loop in ackPuts.
AckPuts ==
    /\ acking
    /\ AckToClient(Head(putsToAck))
    /\ putsToAck' = Tail(putsToAck)
    /\ acking' = (Len(putsToAck) > 1)
    /\ UNCHANGED <<connectionState, listenSpec, listenCounter, outstandingPuts,
                   unackedListens, netVars>>

\* Mutant of MustHold: an answer is passed on at once.
MustHoldNever == FALSE

\* Some listen sent on this socket is unanswered.
MustHold == unackedListens # 0

OnPutResponse ==
    LET a == Head(toClient)
    IN  /\ Receive("put")
        /\ \E i \in DOMAIN outstandingPuts :
              /\ outstandingPuts[i].id = a.id
              /\ outstandingPuts' = RemoveAt(outstandingPuts, i)
        /\ IF MustHold
             THEN putsToAck' = Append(putsToAck, a) /\ UNCHANGED repoVars
             ELSE AckToClient(a) /\ putsToAck' = putsToAck
        /\ Received
        /\ UNCHANGED <<connectionState, listenSpec, listenCounter, unackedListens,
                       acking, toServer, server, serverListens, drops, remote, ended>>

-----------------------------------------------------------------------------
(* The server: requests in order, data before the answer it belongs to *)

ServerAuth(ok) ==
    /\ toServer # <<>> /\ Head(toServer).type = "auth"
    /\ ok \/ drops < MaxDrops
    /\ drops' = IF ok THEN drops ELSE drops + 1
    /\ toServer' = Tail(toServer)
    /\ toClient' = Append(toClient, [type |-> "auth", ok |-> ok])
    /\ UNCHANGED <<repoVars, connVars, server, serverListens, remote, ended>>

\* The data is sent unless the hash says the client has it.
ServerListen(ok) ==
    LET m == Head(toServer)
        data == IF ok /\ m.hash # server THEN <<[type |-> "snapshot", nodes |-> server]>>
                                         ELSE <<>>
    IN  /\ toServer # <<>> /\ m.type = "listen"
        /\ ok \/ ended < MaxEnded
        /\ ended' = IF ok THEN ended ELSE ended + 1
        /\ serverListens' = ok
        /\ toServer' = Tail(toServer)
        /\ toClient' = toClient \o data \o
                          <<[type |-> "listen", spec |-> m.spec, ok |-> ok]>>
        /\ UNCHANGED <<repoVars, connVars, server, drops, remote>>

\* The push of child k, if the server pushes on this socket.
Pushed(k) ==
    IF serverListens THEN <<[type |-> "child", key |-> k, node |-> server'[k]]>> ELSE <<>>

ServerPut(ok) ==
    LET m == Head(toServer)
    IN  /\ toServer # <<>> /\ m.type = "put"
        /\ server' = IF ok THEN [server EXCEPT ![m.key] = m.node] ELSE server
        /\ toServer' = Tail(toServer)
        /\ toClient' = toClient \o (IF ok THEN Pushed(m.key) ELSE <<>>) \o
                          <<[type |-> "put", id |-> m.id, ok |-> ok]>>
        /\ UNCHANGED <<repoVars, connVars, serverListens, drops, remote, ended>>

OtherDevice(k, n) ==
    /\ remote < MaxRemote
    /\ remote' = remote + 1
    /\ n # server[k]
    /\ server' = [server EXCEPT ![k] = n]
    /\ toClient' = toClient \o Pushed(k)
    /\ UNCHANGED <<repoVars, connVars, toServer, serverListens, drops, ended>>

ServerRevokes ==
    /\ serverListens /\ ended < MaxEnded
    /\ ended' = ended + 1
    /\ serverListens' = FALSE
    /\ toClient' = Append(toClient, [type |-> "revoked"])
    /\ UNCHANGED <<repoVars, connVars, toServer, server, drops, remote>>

-----------------------------------------------------------------------------

ClientStep ==
    \/ \E k \in Key, n \in Node : PutData(k, n)
    \/ Listen
SocketStep == TryReconnect \/ (\E token \in BOOLEAN : OnReady(token))
MessageStep ==
    \/ OnAuth
    \/ OnDataPush
    \/ OnListenRevoked
    \/ OnListenResponse
    \/ AckPuts
    \/ OnPutResponse
ServerStep ==
    \E ok \in BOOLEAN : ServerAuth(ok) \/ ServerListen(ok) \/ ServerPut(ok)
OutsideStep ==
    \/ OnDisconnect
    \/ \E k \in Key, n \in Node : OtherDevice(k, n)
    \/ ServerRevokes

ConnectionNext == ClientStep \/ SocketStep \/ MessageStep \/ ServerStep \/ OutsideStep

ConnectionSpec == ConnectionInit /\ [][ConnectionNext]_connectionVars

\* The retry helper tries again for ever, messages are delivered and the
\* server handles requests.
ConnectionFairSpec ==
    /\ ConnectionSpec
    /\ WF_connectionVars(SocketStep)
    /\ WF_connectionVars(MessageStep)
    /\ WF_connectionVars(ServerStep)

-----------------------------------------------------------------------------
(* Properties *)

\* Every step of the connection is a step the database client's specification
\* allows: writes are acknowledged oldest first, whatever was sent again after
\* a disconnect, and never before a view has its server data.
ImplementsRepo == RepoSpec

\* No write is lost, doubled or overtaken on its way: the pending writes of the
\* client (FWriteTree) are the answers held back, then the outstanding puts
\* (FPersistentConnection), in this order.
PutsMatchWrites ==
    LET id(w) == w.id
        ids(s) == [i \in DOMAIN s |-> id(s[i])]
    IN  ids(allWrites) = ids(putsToAck) \o ids(outstandingPuts)

\* Answers held back that nothing will pass on: no listen is left that is or
\* would be sent again, so no answer to one will come (onDisconnect keeps
\* putsToAck and sets unackedListens to 0).
Stranded == putsToAck # <<>> /\ listenSpec = 0 /\ unackedListens = 0 /\ ~acking

\* Once sockets stop breaking and the users are done, every put has had its
\* answer, the client has heard of it unless it is stranded, and a listening
\* client sees the server's data.
PutsAnswered ==
    <>[](/\ outstandingPuts = <<>>
         /\ allWrites = <<>> \/ (Stranded /\ Len(allWrites) = Len(putsToAck))
         /\ listening => eventCache = server)

=============================================================================
