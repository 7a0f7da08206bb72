----------------------------- MODULE Handshake -----------------------------
(***************************************************************************)
(* The four-message handshake of PosixTcpNetStackWorker::handshake on      *)
(* several connections between nodes, and the registration it asks of      *)
(* each node's connection table:                                           *)
(*                                                                         *)
(*   client                      server                                    *)
(*     ---- request (logic port) --->   Connecting                         *)
(*     <--- OK ----------------------   ConnectingRe                       *)
(*     ---- OK --------------------->   put into the server's table        *)
(*     <--- OK or ERROR -------------                                      *)
(*   put into the client's table                                           *)
(*                                                                         *)
(* An end that fails is deleted and closes its socket.  An end whose read  *)
(* returns a piece of a message waits for ever on a condition that only it *)
(* could signal.                                                           *)
(***************************************************************************)
EXTENDS Naturals, Sequences

CONSTANTS Node, Conn, Client, Server, NoConn,
          ClientMayDie,     \* may a client go away in the middle of a handshake?
          ShortReads        \* may a read return a piece of a handshake message?

ASSUME Ends == /\ Client \in [Conn -> Node] /\ Server \in [Conn -> Node]
               /\ \A c \in Conn : Client[c] # Server[c]
               /\ NoConn \notin Conn
               /\ {ClientMayDie, ShortReads} \subseteq BOOLEAN

VARIABLES st,      \* the state of each connection's two ends
          inbox,   \* the messages on their way to each end
          table    \* each node's handler for each peer

vars == <<st, inbox, table>>

Side == {"client", "server"}
Other(s) == IF s = "client" THEN "server" ELSE "client"
NodeOf(c, s) == IF s = "client" THEN Client[c] ELSE Server[c]
PeerOf(c, s) == NodeOf(c, Other(s))

Init == /\ st = [c \in Conn |-> [s \in Side |-> "none"]]
        /\ inbox = [c \in Conn |-> [s \in Side |-> <<>>]]
        /\ table = [n \in Node |-> [p \in Node |-> NoConn]]

-----------------------------------------------------------------------------
Become(c, s, state) == st' = [st EXCEPT ![c][s] = state]

\* The head of the inbox of end s, taken; and a reply on its way.
Receives(c, s, m) == inbox[c][s] # <<>> /\ Head(inbox[c][s]) = m
Taken(c, s) == [inbox EXCEPT ![c][s] = Tail(@)]
Reply(c, s, m) == inbox' = [Taken(c, s) EXCEPT ![c][Other(s)] = Append(@, m)]
NoReply(c, s) == inbox' = Taken(c, s)

\* A write to a socket whose remote end is closed may fail.
SendMayFail(c, s) == st[c][Other(s)] = "closed"

Slot(c, s) == table[NodeOf(c, s)][PeerOf(c, s)]
SetSlot(c, s, v) == table' = [table EXCEPT ![NodeOf(c, s)][PeerOf(c, s)] = v]

-----------------------------------------------------------------------------
\* connect(): the table has no handler, the socket connects (and is accepted by a
\* pool thread of the server), the request goes out.
Dial(c) ==
    /\ st[c]["client"] = "none" /\ Slot(c, "client") = NoConn
    /\ st' = [st EXCEPT ![c]["client"] = "ConnectSe", ![c]["server"] = "Connecting"]
    /\ inbox' = [inbox EXCEPT ![c]["server"] = <<"request">>]
    /\ UNCHANGED table

\* Connecting: the server learns the logic port and answers.
ServerAnswers(c) ==
    /\ st[c]["server"] = "Connecting" /\ Receives(c, "server", "request")
    /\ \/ Reply(c, "server", "OK") /\ Become(c, "server", "ConnectingRe")
       \/ SendMayFail(c, "server") /\ NoReply(c, "server") /\ Become(c, "server", "closed")
    /\ UNCHANGED table

\* ConnectSe: the client confirms.
ClientConfirms(c) ==
    /\ st[c]["client"] = "ConnectSe" /\ Receives(c, "client", "OK")
    /\ Reply(c, "client", "OK") /\ Become(c, "client", "WaitLastACK")
    /\ UNCHANGED table

\* Mutant of ServerPut: a refused registration is confirmed.
ServerPutConfirms(c) ==
    /\ st[c]["server"] = "ConnectingRe" /\ Receives(c, "server", "OK")
    /\ IF Slot(c, "server") = NoConn
       THEN /\ SetSlot(c, "server", c)
            /\ NoReply(c, "server") /\ Become(c, "server", "Registered")
       ELSE /\ Reply(c, "server", "OK") /\ Become(c, "server", "closed")
            /\ UNCHANGED table

\* ConnectingRe: whatever the message, the server registers the connection.
ServerPut(c) ==
    /\ st[c]["server"] = "ConnectingRe" /\ Receives(c, "server", "OK")
    /\ IF Slot(c, "server") = NoConn
       THEN /\ SetSlot(c, "server", c)
            /\ NoReply(c, "server") /\ Become(c, "server", "Registered")
       ELSE /\ Reply(c, "server", "ERROR") /\ Become(c, "server", "closed")
            /\ UNCHANGED table

\* The last message.  When it cannot be sent the end is deleted, and stays registered.
ServerAcks(c) ==
    /\ st[c]["server"] = "Registered"
    /\ \/ /\ inbox' = [inbox EXCEPT ![c]["client"] = Append(@, "OK")]
          /\ Become(c, "server", "Connected")
       \/ SendMayFail(c, "server") /\ Become(c, "server", "closed") /\ UNCHANGED inbox
    /\ UNCHANGED table

\* Mutant of ClientPut: an earlier connection is replaced.
ClientPutReplaces(c) ==
    /\ st[c]["client"] = "WaitLastACK" /\ Receives(c, "client", "OK")
    /\ NoReply(c, "client")
    /\ SetSlot(c, "client", c) /\ Become(c, "client", "Connected")

\* WaitLastACK: the client registers what the server accepted.
ClientPut(c) ==
    /\ st[c]["client"] = "WaitLastACK" /\ Receives(c, "client", "OK")
    /\ NoReply(c, "client")
    /\ IF Slot(c, "client") = NoConn
       THEN SetSlot(c, "client", c) /\ Become(c, "client", "Connected")
       ELSE Become(c, "client", "closed") /\ UNCHANGED table

ClientRefused(c) ==
    /\ st[c]["client"] = "WaitLastACK" /\ Receives(c, "client", "ERROR")
    /\ NoReply(c, "client") /\ Become(c, "client", "closed")
    /\ UNCHANGED table

\* Mutant of GivesUp: the server waits for the client's confirmation for ever.
GivesUpExceptServer(c, s) ==
    /\ st[c][s] \in {"ConnectSe", "WaitLastACK", "Connecting"}
    /\ inbox[c][s] = <<>> /\ st[c][Other(s)] = "closed"
    /\ Become(c, s, "closed")
    /\ UNCHANGED <<inbox, table>>

\* Recv(true) returns true without a message, and Initialize waits for m_initWaitCv.
Waiting == {"ConnectSe", "WaitLastACK", "Connecting", "ConnectingRe"}

Hangs(c, s) ==
    /\ ShortReads /\ st[c][s] \in Waiting /\ inbox[c][s] # <<>>
    /\ Become(c, s, "hung")
    /\ UNCHANGED <<inbox, table>>

\* End of file while waiting for the next handshake message: Initialize fails.
GivesUp(c, s) ==
    /\ st[c][s] \in Waiting
    /\ inbox[c][s] = <<>> /\ st[c][Other(s)] = "closed"
    /\ Become(c, s, "closed")
    /\ UNCHANGED <<inbox, table>>

\* End of file on an established connection: on_finish unregisters and releases it.
Finish(c, s) ==
    /\ st[c][s] = "Connected" /\ inbox[c][s] = <<>> /\ st[c][Other(s)] = "closed"
    /\ SetSlot(c, s, NoConn) /\ Become(c, s, "closed")
    /\ UNCHANGED inbox

ClientDies(c) ==
    /\ ClientMayDie /\ st[c]["client"] \in {"ConnectSe", "WaitLastACK"}
    /\ Become(c, "client", "closed")
    /\ UNCHANGED <<inbox, table>>

-----------------------------------------------------------------------------
Progress(c) ==
    \/ ServerAnswers(c) \/ ClientConfirms(c) \/ ServerPut(c) \/ ServerAcks(c)
    \/ ClientPut(c) \/ ClientRefused(c)
    \/ \E s \in Side : Hangs(c, s) \/ GivesUp(c, s) \/ Finish(c, s)

Next == \E c \in Conn : Dial(c) \/ Progress(c) \/ ClientDies(c)

Spec == Init /\ [][Next]_vars

\* Each end has a thread of its own until it is connected or closed.
FairSpec == Spec /\ \A c \in Conn : WF_vars(Progress(c))

-----------------------------------------------------------------------------
ClientState == {"none", "ConnectSe", "WaitLastACK", "Connected", "hung", "closed"}
ServerState == {"none", "Connecting", "ConnectingRe", "Registered", "Connected", "hung", "closed"}
HandshakeTypeOK == /\ st \in [Conn -> [Side -> ClientState \cup ServerState]]
                   /\ \A c \in Conn : st[c]["client"] \in ClientState /\ st[c]["server"] \in ServerState
                   /\ inbox \in [Conn -> [Side -> Seq({"request", "OK", "ERROR"})]]
                   /\ table \in [Node -> [Node -> Conn \cup {NoConn}]]

\* A client that is connected has a server that is connected too: it registers its
\* end only after the server has registered and kept its own.
ClientHasServer ==
    \A c \in Conn : st[c]["client"] = "Connected" => st[c]["server"] = "Connected"

\* "One and the same connection between two points" (unique-worker-manager.h:41): a
\* node has at most one established connection with a peer, whoever dialled it.
OneConnectionPerPeer ==
    \A c, d \in Conn : \A s, r \in Side :
        /\ st[c][s] = "Connected" /\ st[d][r] = "Connected"
        /\ NodeOf(c, s) = NodeOf(d, r) /\ PeerOf(c, s) = PeerOf(d, r)
        => c = d

Over(c) == \A s \in Side : st[c][s] \in {"none", "Connected", "closed"}
Hung(c) == \E s \in Side : st[c][s] = "hung"

\* A handshake comes to an end, and no end stays connected to one that is gone, unless
\* a cut message leaves one of the ends waiting for ever.
HandshakeEnds ==
    \A c \in Conn : /\ st[c]["client"] # "none" ~> Over(c) \/ Hung(c)
                    /\ st[c]["client"] = "closed" ~> st[c]["server"] = "closed" \/ Hung(c)
=============================================================================
