-------------------------- MODULE Handshake_proofs --------------------------
(***************************************************************************)
(* Proofs about the handshake, for any nodes and any number of             *)
(* connections between them: types, that a connected client has a          *)
(* connected server, and that a node has at most one established           *)
(* connection with a peer.                                                 *)
(***************************************************************************)
EXTENDS Handshake, TLAPS

StateOf(s) == IF s = "client" THEN ClientState ELSE ServerState
StTypes == /\ st \in [Conn -> [Side -> ClientState \cup ServerState]]
           /\ \A c \in Conn : st[c]["client"] \in ClientState /\ st[c]["server"] \in ServerState
Message == {"request", "OK", "ERROR"}
InboxTypes == inbox \in [Conn -> [Side -> Seq(Message)]]
TableTypes == table \in [Node -> [Node -> Conn \cup {NoConn}]]

LEMMA TypeParts == HandshakeTypeOK <=> StTypes /\ InboxTypes /\ TableTypes
BY DEF HandshakeTypeOK, StTypes, InboxTypes, TableTypes, Message

-----------------------------------------------------------------------------
(* What the helpers change, and what they leave. *)

LEMMA Ending ==
  ASSUME NEW c \in Conn, NEW s \in Side
  PROVE  /\ NodeOf(c, s) \in Node /\ PeerOf(c, s) \in Node
         /\ Other(s) \in Side /\ Other(s) # s /\ Other(Other(s)) = s
         /\ \A r \in Side : r = s \/ r = Other(s)
         /\ \A r \in Side : NodeOf(c, r) = NodeOf(c, s) => r = s
BY Ends DEF NodeOf, PeerOf, Other, Side

LEMMA Becoming ==
  ASSUME StTypes, NEW c \in Conn, NEW s \in Side, NEW state \in StateOf(s), Become(c, s, state)
  PROVE  /\ StTypes'
         /\ st'[c][s] = state
         /\ \A r \in Side : r # s => st'[c][r] = st[c][r]
         /\ \A d \in Conn : d # c => st'[d] = st[d]
<1>1. st' = [st EXCEPT ![c][s] = state] /\ state \in ClientState \cup ServerState
  BY DEF Become, StateOf
<1>2. st' \in [Conn -> [Side -> ClientState \cup ServerState]]
  BY <1>1 DEF StTypes
<1>3. /\ st'[c][s] = state
      /\ \A r \in Side : r # s => st'[c][r] = st[c][r]
      /\ \A d \in Conn : d # c => st'[d] = st[d]
  BY <1>1 DEF StTypes
<1>4. \A d \in Conn : st'[d]["client"] \in ClientState /\ st'[d]["server"] \in ServerState
  BY <1>3 DEF StTypes, StateOf, Side
<1>5. QED
  BY <1>2, <1>3, <1>4 DEF StTypes

LEMMA Taking ==
  ASSUME InboxTypes, NEW c \in Conn, NEW s \in Side, NEW m, Receives(c, s, m), NoReply(c, s)
  PROVE  /\ InboxTypes'
         /\ inbox'[c][s] = Tail(inbox[c][s])
         /\ \A r \in Side : r # s => inbox'[c][r] = inbox[c][r]
         /\ \A d \in Conn : d # c => inbox'[d] = inbox[d]
<1>1. Tail(inbox[c][s]) \in Seq(Message)
  BY DEF InboxTypes, Receives
<1>2. inbox' = [inbox EXCEPT ![c][s] = Tail(inbox[c][s])]
  BY DEF NoReply, Taken, InboxTypes
<1>3. QED
  BY <1>1, <1>2 DEF InboxTypes

LEMMA Replying ==
  ASSUME InboxTypes, NEW c \in Conn, NEW s \in Side, NEW m, Receives(c, s, m),
         NEW n \in Message, Reply(c, s, n)
  PROVE  /\ InboxTypes'
         /\ inbox'[c][s] = Tail(inbox[c][s])
         /\ inbox'[c][Other(s)] = Append(inbox[c][Other(s)], n)
         /\ \A d \in Conn : d # c => inbox'[d] = inbox[d]
<1>1. Tail(inbox[c][s]) \in Seq(Message) /\ Append(inbox[c][Other(s)], n) \in Seq(Message)
  BY Ending DEF InboxTypes, Receives
<1>2. Taken(c, s) \in [Conn -> [Side -> Seq(Message)]]
  BY <1>1 DEF InboxTypes, Taken
<1>3. /\ Taken(c, s)[c][s] = Tail(inbox[c][s])
      /\ \A r \in Side : r # s => Taken(c, s)[c][r] = inbox[c][r]
      /\ \A d \in Conn : d # c => Taken(c, s)[d] = inbox[d]
  BY DEF InboxTypes, Taken
<1>4. inbox' = [Taken(c, s) EXCEPT ![c][Other(s)] = Append(inbox[c][Other(s)], n)]
  BY <1>2, <1>3, Ending DEF Reply
<1>5. QED
  BY <1>1, <1>2, <1>3, <1>4, Ending DEF InboxTypes

LEMMA Sending ==
  ASSUME InboxTypes, NEW c \in Conn, NEW s \in Side, NEW m \in Message,
         inbox' = [inbox EXCEPT ![c][s] = Append(@, m)]
  PROVE  /\ InboxTypes'
         /\ inbox'[c][s] = Append(inbox[c][s], m)
         /\ \A r \in Side : r # s => inbox'[c][r] = inbox[c][r]
         /\ \A d \in Conn : d # c => inbox'[d] = inbox[d]
<1>1. Append(inbox[c][s], m) \in Seq(Message)
  BY DEF InboxTypes
<1>2. QED
  BY <1>1 DEF InboxTypes

(* A connection's slot is its own pair of nodes, in this order. *)
SameSlot(c, s, d, r) == NodeOf(c, s) = NodeOf(d, r) /\ PeerOf(c, s) = PeerOf(d, r)

LEMMA Setting ==
  ASSUME TableTypes, NEW c \in Conn, NEW s \in Side, NEW v \in Conn \cup {NoConn}, SetSlot(c, s, v)
  PROVE  /\ TableTypes'
         /\ Slot(c, s)' = v
         /\ \A d \in Conn, r \in Side : ~SameSlot(c, s, d, r) => Slot(d, r)' = Slot(d, r)
<1>1. NodeOf(c, s) \in Node /\ PeerOf(c, s) \in Node
  BY Ending
<1>2. TableTypes' /\ table'[NodeOf(c, s)][PeerOf(c, s)] = v
  BY <1>1 DEF SetSlot, TableTypes
<1>3. \A n, p \in Node : n # NodeOf(c, s) \/ p # PeerOf(c, s) => table'[n][p] = table[n][p]
  BY <1>1 DEF SetSlot, TableTypes
<1>4. ASSUME NEW d \in Conn, NEW r \in Side, ~SameSlot(c, s, d, r)
      PROVE  Slot(d, r)' = Slot(d, r)
  BY <1>3, <1>4, Ending DEF SameSlot, Slot, NodeOf, PeerOf
<1>5. Slot(c, s)' = v
  BY <1>2 DEF Slot, NodeOf, PeerOf
<1>6. QED
  BY <1>2, <1>4, <1>5

-----------------------------------------------------------------------------
(* Type correctness. *)

LEMMA InitTyped == Init => HandshakeTypeOK
BY DEF Init, HandshakeTypeOK, Side, ClientState, ServerState

(* What a step of connection c does to the three parts of the state. *)
LEMMA NextTyped == HandshakeTypeOK /\ [Next]_vars => HandshakeTypeOK'
<1> SUFFICES ASSUME HandshakeTypeOK, [Next]_vars PROVE HandshakeTypeOK'
  OBVIOUS
<1>0. StTypes /\ InboxTypes /\ TableTypes
  BY TypeParts
<1>typed. (StTypes' /\ InboxTypes' /\ TableTypes') => HandshakeTypeOK'
  BY DEF HandshakeTypeOK, StTypes, InboxTypes, TableTypes, Message
<1>side. "client" \in Side /\ "server" \in Side
  BY DEF Side
<1>states. /\ {"ConnectSe", "WaitLastACK", "Connected", "hung", "closed"} \subseteq StateOf("client")
           /\ {"ConnectingRe", "Registered", "Connected", "hung", "closed"} \subseteq StateOf("server")
           /\ \A s \in Side : "hung" \in StateOf(s) /\ "closed" \in StateOf(s)
           /\ {"OK", "ERROR"} \subseteq Message
  BY DEF StateOf, ClientState, ServerState, Side, Message
<1>1. CASE UNCHANGED vars
  BY <1>1, <1>0, <1>typed DEF vars, StTypes, InboxTypes, TableTypes
<1>2. ASSUME NEW c \in Conn, Dial(c) PROVE HandshakeTypeOK'
  <2>1. StTypes'
    BY <1>0, <1>2 DEF Dial, StTypes, ClientState, ServerState, Side
  <2>2. InboxTypes' /\ TableTypes'
    BY <1>0, <1>2 DEF Dial, InboxTypes, TableTypes, Message, Side
  <2>3. QED
    BY <2>1, <2>2, <1>typed
<1>3. ASSUME NEW c \in Conn, ServerAnswers(c) PROVE HandshakeTypeOK'
  <2>1. TableTypes' /\ InboxTypes'
    BY <1>0, <1>3, <1>side, <1>states, Taking, Replying DEF ServerAnswers, TableTypes
  <2>2. StTypes'
    BY <1>0, <1>3, <1>side, <1>states, Becoming DEF ServerAnswers
  <2>3. QED
    BY <2>1, <2>2, <1>typed
<1>4. ASSUME NEW c \in Conn, ClientConfirms(c) PROVE HandshakeTypeOK'
  <2>1. TableTypes' /\ InboxTypes'
    BY <1>0, <1>4, <1>side, <1>states, Replying DEF ClientConfirms, TableTypes
  <2>2. StTypes'
    BY <1>0, <1>4, <1>side, <1>states, Becoming DEF ClientConfirms
  <2>3. QED
    BY <2>1, <2>2, <1>typed
<1>5. ASSUME NEW c \in Conn, ServerPut(c) PROVE HandshakeTypeOK'
  <2>1. InboxTypes'
    BY <1>0, <1>5, <1>side, <1>states, Taking, Replying DEF ServerPut
  <2>2. StTypes'
    BY <1>0, <1>5, <1>side, <1>states, Becoming DEF ServerPut
  <2>3. TableTypes'
    BY <1>0, <1>5, <1>side, Setting DEF ServerPut, TableTypes
  <2>4. QED
    BY <2>1, <2>2, <2>3, <1>typed
<1>6. ASSUME NEW c \in Conn, ServerAcks(c) PROVE HandshakeTypeOK'
  <2>1. InboxTypes'
    <3>1. CASE UNCHANGED inbox
      BY <1>0, <3>1 DEF InboxTypes
    <3>2. CASE inbox' = [inbox EXCEPT ![c]["client"] = Append(@, "OK")]
      BY <1>0, <3>2, <1>side, <1>states, Sending
    <3>3. QED
      BY <1>6, <3>1, <3>2 DEF ServerAcks
  <2>0. TableTypes'
    BY <1>0, <1>6 DEF ServerAcks, TableTypes
  <2>2. StTypes'
    BY <1>0, <1>6, <1>side, <1>states, Becoming DEF ServerAcks
  <2>3. QED
    BY <2>0, <2>1, <2>2, <1>typed
<1>7. ASSUME NEW c \in Conn, ClientPut(c) PROVE HandshakeTypeOK'
  <2>1. InboxTypes'
    BY <1>0, <1>7, <1>side, Taking DEF ClientPut
  <2>2. StTypes'
    BY <1>0, <1>7, <1>side, <1>states, Becoming DEF ClientPut
  <2>3. TableTypes'
    BY <1>0, <1>7, <1>side, Setting DEF ClientPut, TableTypes
  <2>4. QED
    BY <2>1, <2>2, <2>3, <1>typed
<1>8. ASSUME NEW c \in Conn, ClientRefused(c) PROVE HandshakeTypeOK'
  <2>1. TableTypes' /\ InboxTypes'
    BY <1>0, <1>8, <1>side, Taking DEF ClientRefused, TableTypes
  <2>2. StTypes'
    BY <1>0, <1>8, <1>side, <1>states, Becoming DEF ClientRefused
  <2>3. QED
    BY <2>1, <2>2, <1>typed
<1>9. ASSUME NEW c \in Conn, NEW s \in Side, Hangs(c, s) \/ GivesUp(c, s) PROVE HandshakeTypeOK'
  <2>1. TableTypes' /\ InboxTypes'
    BY <1>0, <1>9 DEF Hangs, GivesUp, InboxTypes, TableTypes
  <2>2. StTypes'
    BY <1>0, <1>9, <1>states, Becoming DEF Hangs, GivesUp
  <2>3. QED
    BY <2>1, <2>2, <1>typed
<1>10. ASSUME NEW c \in Conn, NEW s \in Side, Finish(c, s) PROVE HandshakeTypeOK'
  <2>1. TableTypes' /\ InboxTypes'
    BY <1>0, <1>10, Setting DEF Finish, InboxTypes
  <2>2. StTypes'
    BY <1>0, <1>10, <1>states, Becoming DEF Finish
  <2>3. QED
    BY <2>1, <2>2, <1>typed
<1>11. ASSUME NEW c \in Conn, ClientDies(c) PROVE HandshakeTypeOK'
  <2>1. TableTypes' /\ InboxTypes'
    BY <1>0, <1>11 DEF ClientDies, InboxTypes, TableTypes
  <2>2. StTypes'
    BY <1>0, <1>11, <1>side, <1>states, Becoming DEF ClientDies
  <2>3. QED
    BY <2>1, <2>2, <1>typed
<1>12. QED
  BY <1>1, <1>2, <1>3, <1>4, <1>5, <1>6, <1>7, <1>8, <1>9, <1>10, <1>11 DEF Next, Progress

(* Every state and message of the handshake is one the code names. *)
THEOREM HandshakeTypeCorrect == Spec => []HandshakeTypeOK
BY InitTyped, NextTyped, PTL DEF Spec

-----------------------------------------------------------------------------
(* One connection per peer.  The table is what keeps the second one out,   *)
(* so the invariant says that an end which is registered and not yet       *)
(* finished is the one its node's table names.                             *)

Filed(c, s) == st[c][s] \in {"Registered", "Connected"} => Slot(c, s) = c
TableInv == HandshakeTypeOK /\ \A c \in Conn, s \in Side : Filed(c, s)

(* An end moves without a change of the table. *)
LEMMA FiledKept ==
  ASSUME TableInv, NEW c \in Conn, NEW s \in Side, NEW state \in StateOf(s),
         Become(c, s, state), UNCHANGED table,
         state \in {"Registered", "Connected"} => st[c][s] \in {"Registered", "Connected"}
  PROVE  \A d \in Conn, r \in Side : Filed(d, r)'
<1>1. StTypes
  BY TypeParts DEF TableInv
<1>2. \A d \in Conn, r \in Side : Slot(d, r)' = Slot(d, r)
  BY DEF Slot, NodeOf, PeerOf
<1>3. ASSUME NEW d \in Conn, NEW r \in Side, st'[d][r] \in {"Registered", "Connected"}
      PROVE  st[d][r] \in {"Registered", "Connected"}
  BY <1>1, <1>3, Becoming
<1>4. QED
  BY <1>2, <1>3 DEF TableInv, Filed

(* An end takes a free slot, or gives its own up. *)
LEMMA FiledSet ==
  ASSUME TableInv, NEW c \in Conn, NEW s \in Side, NEW state \in StateOf(s),
         NEW v \in Conn \cup {NoConn}, Become(c, s, state), SetSlot(c, s, v),
         \/ v = c /\ Slot(c, s) = NoConn
         \/ state = "closed" /\ Slot(c, s) = c
  PROVE  \A d \in Conn, r \in Side : Filed(d, r)'
<1>1. StTypes /\ TableTypes
  BY TypeParts DEF TableInv
<1>2. SUFFICES ASSUME NEW d \in Conn, NEW r \in Side, st'[d][r] \in {"Registered", "Connected"}
               PROVE  Slot(d, r)' = d
  BY DEF Filed
<1>3. CASE d = c /\ r = s
  BY <1>1, <1>2, <1>3, Becoming, Setting
<1>4. CASE ~(d = c /\ r = s)
  <2>1. st'[d][r] = st[d][r]
    BY <1>1, <1>4, Becoming
  <2>2. Slot(d, r) = d
    BY <1>2, <2>1 DEF TableInv, Filed
  <2>3. ~SameSlot(c, s, d, r)
    <3>1. SUFFICES ASSUME SameSlot(c, s, d, r) PROVE FALSE
      OBVIOUS
    <3>2. Slot(c, s) = d
      BY <2>2, <3>1 DEF SameSlot, Slot
    <3>3. d = c /\ r = s
      BY <3>1, <3>2, Ends, Ending DEF SameSlot
    <3>4. QED
      BY <3>3, <1>4
  <2>4. QED
    BY <1>1, <2>2, <2>3, Setting
<1>5. QED
  BY <1>3, <1>4

LEMMA NextFiled == TableInv /\ [Next]_vars => TableInv'
<1> SUFFICES ASSUME TableInv, [Next]_vars PROVE TableInv'
  OBVIOUS
<1>0. HandshakeTypeOK /\ StTypes /\ InboxTypes /\ TableTypes
  BY TypeParts DEF TableInv
<1>typed. HandshakeTypeOK'
  BY NextTyped DEF TableInv
<1>side. "client" \in Side /\ "server" \in Side
  BY DEF Side
<1>states. /\ {"WaitLastACK", "Connected", "hung", "closed"} \subseteq StateOf("client")
           /\ {"ConnectingRe", "Registered", "Connected", "hung", "closed"} \subseteq StateOf("server")
           /\ \A s \in Side : "hung" \in StateOf(s) /\ "closed" \in StateOf(s)
  BY DEF StateOf, ClientState, ServerState, Side
<1> SUFFICES \A d \in Conn, r \in Side : Filed(d, r)'
  BY <1>typed DEF TableInv
<1>1. CASE UNCHANGED vars
  BY <1>1 DEF vars, TableInv, Filed, Slot, NodeOf, PeerOf
<1>2. ASSUME NEW c \in Conn, Dial(c) PROVE \A d \in Conn, r \in Side : Filed(d, r)'
  <2>1. \A d \in Conn, r \in Side : st'[d][r] = st[d][r] \/ st'[d][r] \in {"ConnectSe", "Connecting"}
    BY <1>0, <1>2 DEF Dial, StTypes
  <2>2. \A d \in Conn, r \in Side : Slot(d, r)' = Slot(d, r)
    BY <1>2 DEF Dial, Slot, NodeOf, PeerOf
  <2>3. QED
    BY <2>1, <2>2 DEF TableInv, Filed
<1>3. ASSUME NEW c \in Conn, ServerAnswers(c) PROVE \A d \in Conn, r \in Side : Filed(d, r)'
  BY <1>3, <1>side, <1>states, FiledKept DEF ServerAnswers
<1>4. ASSUME NEW c \in Conn, ClientConfirms(c) PROVE \A d \in Conn, r \in Side : Filed(d, r)'
  BY <1>4, <1>side, <1>states, FiledKept DEF ClientConfirms
<1>5. ASSUME NEW c \in Conn, ServerPut(c) PROVE \A d \in Conn, r \in Side : Filed(d, r)'
  BY <1>5, <1>side, <1>states, FiledKept, FiledSet DEF ServerPut
<1>6. ASSUME NEW c \in Conn, ServerAcks(c) PROVE \A d \in Conn, r \in Side : Filed(d, r)'
  BY <1>6, <1>side, <1>states, FiledKept DEF ServerAcks
<1>7. ASSUME NEW c \in Conn, ClientPut(c) PROVE \A d \in Conn, r \in Side : Filed(d, r)'
  BY <1>7, <1>side, <1>states, FiledKept, FiledSet DEF ClientPut
<1>8. ASSUME NEW c \in Conn, ClientRefused(c) PROVE \A d \in Conn, r \in Side : Filed(d, r)'
  BY <1>8, <1>side, <1>states, FiledKept DEF ClientRefused
<1>9. ASSUME NEW c \in Conn, NEW s \in Side, Hangs(c, s) \/ GivesUp(c, s)
      PROVE  \A d \in Conn, r \in Side : Filed(d, r)'
  BY <1>9, <1>states, FiledKept DEF Hangs, GivesUp
<1>10. ASSUME NEW c \in Conn, NEW s \in Side, Finish(c, s)
       PROVE  \A d \in Conn, r \in Side : Filed(d, r)'
  <2>1. Slot(c, s) = c
    BY <1>10 DEF Finish, TableInv, Filed
  <2>2. QED
    BY <1>10, <2>1, <1>states, FiledSet DEF Finish
<1>11. ASSUME NEW c \in Conn, ClientDies(c) PROVE \A d \in Conn, r \in Side : Filed(d, r)'
  BY <1>11, <1>side, <1>states, FiledKept DEF ClientDies
<1>12. QED
  BY <1>1, <1>2, <1>3, <1>4, <1>5, <1>6, <1>7, <1>8, <1>9, <1>10, <1>11 DEF Next, Progress

(* However many connections two nodes dial in either direction, neither of *)
(* them ever has two established ones with the other.                      *)
THEOREM AtMostOneConnection == Spec => []OneConnectionPerPeer
<1>1. Init => TableInv
  BY InitTyped DEF Init, TableInv, Filed
<1>2. TableInv => OneConnectionPerPeer
  BY DEF TableInv, Filed, OneConnectionPerPeer, Slot
<1>3. QED
  BY <1>1, <1>2, NextFiled, PTL DEF Spec

-----------------------------------------------------------------------------
(* Agreement.  Where the server is and what is on its way to the client,   *)
(* for each place of the client.                                           *)

PhaseOf(client, server, toClient, toServer) ==
  /\ client = "none" => server = "none" /\ toClient = <<>>
  /\ client = "ConnectSe" =>
       \/ server = "Connecting" /\ toClient = <<>> /\ toServer = <<"request">>
       \/ server = "hung" /\ toClient = <<>>
       \/ server = "ConnectingRe" /\ toClient = <<"OK">> /\ toServer = <<>>
  /\ client = "WaitLastACK" =>
       \/ server \in {"ConnectingRe", "Registered", "hung"} /\ toClient = <<>>
       \/ server = "Connected" /\ toClient = <<"OK">>
       \/ server = "closed" /\ toClient = <<"ERROR">>
  /\ client = "Connected" => server = "Connected"

Phase(c) == PhaseOf(st[c]["client"], st[c]["server"], inbox[c]["client"], inbox[c]["server"])
PhaseInv == HandshakeTypeOK /\ \A c \in Conn : Phase(c)

(* The steps of one connection leave the others' phases alone. *)
LEMMA OthersKeepPhase ==
  ASSUME PhaseInv, NEW c \in Conn, Phase(c)',
         \A d \in Conn : d # c => st'[d] = st[d] /\ inbox'[d] = inbox[d]
  PROVE  \A d \in Conn : Phase(d)'
BY DEF PhaseInv, Phase

LEMMA NextPhase == PhaseInv /\ [Next]_vars => PhaseInv'
<1> SUFFICES ASSUME PhaseInv, [Next]_vars PROVE PhaseInv'
  OBVIOUS
<1>0. HandshakeTypeOK /\ StTypes /\ InboxTypes /\ \A c \in Conn : Phase(c)
  BY TypeParts DEF PhaseInv
<1>typed. HandshakeTypeOK'
  BY NextTyped DEF PhaseInv
<1>side. /\ "client" \in Side /\ "server" \in Side
         /\ Other("client") = "server" /\ Other("server") = "client"
  BY DEF Side, Other
<1>states. /\ {"WaitLastACK", "Connected", "hung", "closed"} \subseteq StateOf("client")
           /\ {"ConnectingRe", "Registered", "Connected", "hung", "closed"} \subseteq StateOf("server")
           /\ \A s \in Side : "hung" \in StateOf(s) /\ "closed" \in StateOf(s)
           /\ {"OK", "ERROR"} \subseteq Message
  BY DEF StateOf, ClientState, ServerState, Side, Message
<1>seqs. \A m \in Message : Tail(<<m>>) = <<>> /\ Append(<<>>, m) = <<m>> /\ Head(<<m>>) = m
  OBVIOUS
<1> SUFFICES \A d \in Conn : Phase(d)'
  BY <1>typed DEF PhaseInv
<1>1. CASE UNCHANGED vars
  BY <1>1, <1>0 DEF vars, Phase
<1>2. ASSUME NEW c \in Conn, Dial(c) PROVE \A d \in Conn : Phase(d)'
  <2>1. /\ st'[c]["client"] = "ConnectSe" /\ st'[c]["server"] = "Connecting"
        /\ inbox'[c]["server"] = <<"request">> /\ inbox'[c]["client"] = inbox[c]["client"]
        /\ \A d \in Conn : d # c => st'[d] = st[d] /\ inbox'[d] = inbox[d]
    BY <1>0, <1>2, <1>side DEF Dial, StTypes, InboxTypes
  <2>2. inbox[c]["client"] = <<>>
    BY <1>0, <1>2 DEF Dial, Phase, PhaseOf
  <2>3. Phase(c)'
    BY <2>1, <2>2 DEF Phase, PhaseOf
  <2>4. QED
    BY <2>1, <2>3, OthersKeepPhase
<1>3. ASSUME NEW c \in Conn, ServerAnswers(c) PROVE \A d \in Conn : Phase(d)'
  <2>1. CASE Reply(c, "server", "OK") /\ Become(c, "server", "ConnectingRe")
    <3>1. /\ st'[c]["server"] = "ConnectingRe" /\ st'[c]["client"] = st[c]["client"]
          /\ inbox'[c]["server"] = Tail(inbox[c]["server"])
          /\ inbox'[c]["client"] = Append(inbox[c]["client"], "OK")
          /\ \A d \in Conn : d # c => st'[d] = st[d] /\ inbox'[d] = inbox[d]
      BY <1>0, <1>3, <2>1, <1>side, <1>states, Becoming, Replying DEF ServerAnswers
    <3>2. Phase(c)'
      BY <1>0, <1>3, <3>1, <1>seqs, <1>states DEF ServerAnswers, Phase, PhaseOf, Message
    <3>3. QED
      BY <3>1, <3>2, OthersKeepPhase
  <2>2. CASE SendMayFail(c, "server") /\ NoReply(c, "server") /\ Become(c, "server", "closed")
    <3>1. /\ st'[c]["server"] = "closed" /\ st'[c]["client"] = "closed"
          /\ \A d \in Conn : d # c => st'[d] = st[d] /\ inbox'[d] = inbox[d]
      BY <1>0, <1>3, <2>2, <1>side, <1>states, Becoming, Taking DEF ServerAnswers, SendMayFail
    <3>2. Phase(c)'
      BY <3>1 DEF Phase, PhaseOf
    <3>3. QED
      BY <3>1, <3>2, OthersKeepPhase
  <2>3. QED
    BY <1>3, <2>1, <2>2 DEF ServerAnswers
<1>4. ASSUME NEW c \in Conn, ClientConfirms(c) PROVE \A d \in Conn : Phase(d)'
  <2>1. /\ st'[c]["client"] = "WaitLastACK" /\ st'[c]["server"] = st[c]["server"]
        /\ inbox'[c]["client"] = Tail(inbox[c]["client"])
        /\ \A d \in Conn : d # c => st'[d] = st[d] /\ inbox'[d] = inbox[d]
    BY <1>0, <1>4, <1>side, <1>states, Becoming, Replying DEF ClientConfirms
  <2>2. st[c]["server"] = "ConnectingRe" /\ inbox[c]["client"] = <<"OK">>
    BY <1>0, <1>4 DEF ClientConfirms, Receives, Phase, PhaseOf
  <2>3. Phase(c)'
    BY <2>1, <2>2, <1>seqs, <1>states DEF Phase, PhaseOf
  <2>4. QED
    BY <2>1, <2>3, OthersKeepPhase
<1>5. ASSUME NEW c \in Conn, ServerPut(c) PROVE \A d \in Conn : Phase(d)'
  <2>1. CASE NoReply(c, "server") /\ Become(c, "server", "Registered")
    <3>1. /\ st'[c]["server"] = "Registered" /\ st'[c]["client"] = st[c]["client"]
          /\ inbox'[c]["client"] = inbox[c]["client"]
          /\ \A d \in Conn : d # c => st'[d] = st[d] /\ inbox'[d] = inbox[d]
      BY <1>0, <1>5, <2>1, <1>side, <1>states, Becoming, Taking DEF ServerPut
    <3>2. Phase(c)'
      BY <1>0, <1>5, <3>1 DEF ServerPut, Receives, Phase, PhaseOf
    <3>3. QED
      BY <3>1, <3>2, OthersKeepPhase
  <2>2. CASE Reply(c, "server", "ERROR") /\ Become(c, "server", "closed")
    <3>1. /\ st'[c]["server"] = "closed" /\ st'[c]["client"] = st[c]["client"]
          /\ inbox'[c]["client"] = Append(inbox[c]["client"], "ERROR")
          /\ \A d \in Conn : d # c => st'[d] = st[d] /\ inbox'[d] = inbox[d]
      BY <1>0, <1>5, <2>2, <1>side, <1>states, Becoming, Replying DEF ServerPut
    <3>2. Phase(c)'
      BY <1>0, <1>5, <3>1, <1>seqs, <1>states DEF ServerPut, Receives, Phase, PhaseOf
    <3>3. QED
      BY <3>1, <3>2, OthersKeepPhase
  <2>3. QED
    BY <1>5, <2>1, <2>2 DEF ServerPut
<1>6. ASSUME NEW c \in Conn, ServerAcks(c) PROVE \A d \in Conn : Phase(d)'
  <2>1. CASE inbox' = [inbox EXCEPT ![c]["client"] = Append(@, "OK")]
            /\ Become(c, "server", "Connected")
    <3>0. /\ st'[c]["server"] = "Connected" /\ st'[c]["client"] = st[c]["client"]
          /\ \A d \in Conn : d # c => st'[d] = st[d]
      BY <1>0, <2>1, <1>side, <1>states, Becoming
    <3>1. /\ inbox'[c]["client"] = Append(inbox[c]["client"], "OK")
          /\ \A d \in Conn : d # c => inbox'[d] = inbox[d]
      BY <1>0, <2>1, <1>side, <1>states, Sending
    <3>2. Phase(c)'
      BY <1>0, <1>6, <3>0, <3>1, <1>seqs, <1>states DEF ServerAcks, Phase, PhaseOf
    <3>3. QED
      BY <3>0, <3>1, <3>2, OthersKeepPhase
  <2>2. CASE SendMayFail(c, "server") /\ Become(c, "server", "closed") /\ UNCHANGED inbox
    <3>1. /\ st'[c]["server"] = "closed" /\ st'[c]["client"] = "closed"
          /\ \A d \in Conn : d # c => st'[d] = st[d] /\ inbox'[d] = inbox[d]
      BY <1>0, <2>2, <1>side, <1>states, Becoming DEF SendMayFail
    <3>2. Phase(c)'
      BY <3>1 DEF Phase, PhaseOf
    <3>3. QED
      BY <3>1, <3>2, OthersKeepPhase
  <2>3. QED
    BY <1>6, <2>1, <2>2 DEF ServerAcks
<1>7. ASSUME NEW c \in Conn, ClientPut(c) \/ ClientRefused(c) PROVE \A d \in Conn : Phase(d)'
  <2>1. /\ st'[c]["client"] \in {"Connected", "closed"} /\ st'[c]["server"] = st[c]["server"]
        /\ \A d \in Conn : d # c => st'[d] = st[d] /\ inbox'[d] = inbox[d]
    BY <1>0, <1>7, <1>side, <1>states, Becoming, Taking DEF ClientPut, ClientRefused
  <2>2. st'[c]["client"] = "Connected" => Receives(c, "client", "OK")
            /\ st[c]["client"] = "WaitLastACK"
    BY <1>0, <1>7, <1>side, <1>states, Becoming DEF ClientPut, ClientRefused
  <2>3. st'[c]["client"] = "Connected" => st[c]["server"] = "Connected"
    BY <1>0, <2>2, <1>seqs, <1>states DEF Receives, Phase, PhaseOf
  <2>4. Phase(c)'
    BY <2>1, <2>3 DEF Phase, PhaseOf
  <2>5. QED
    BY <2>1, <2>4, OthersKeepPhase
<1>8. ASSUME NEW c \in Conn, NEW s \in Side, Hangs(c, s) \/ GivesUp(c, s) \/ Finish(c, s)
      PROVE  \A d \in Conn : Phase(d)'
  <2>1. /\ st'[c][s] \in {"hung", "closed"} /\ \A r \in Side : r # s => st'[c][r] = st[c][r]
        /\ \A d \in Conn : d # c => st'[d] = st[d]
    BY <1>0, <1>8, <1>states, Becoming DEF Hangs, GivesUp, Finish
  <2>2. UNCHANGED inbox
    BY <1>8 DEF Hangs, GivesUp, Finish
  <2>3. Phase(c)'
    <3>1. CASE s = "client"
      BY <2>1, <3>1 DEF Phase, PhaseOf
    <3>2. CASE s = "server" /\ Hangs(c, s)
      <4>1. st'[c]["server"] = "hung" /\ st'[c]["client"] = st[c]["client"]
        BY <1>0, <3>2, <1>side, <1>states, Becoming DEF Hangs
      <4>2. QED
        BY <1>0, <2>2, <3>2, <4>1 DEF Hangs, Waiting, Phase, PhaseOf
    <3>3. CASE s = "server" /\ (GivesUp(c, s) \/ Finish(c, s))
      <4>1. st[c]["client"] = "closed"
        BY <3>3, <1>side DEF GivesUp, Finish
      <4>2. QED
        BY <2>1, <3>3, <4>1, <1>side DEF Phase, PhaseOf
    <3>4. QED
      BY <1>8, <3>1, <3>2, <3>3 DEF Side
  <2>4. QED
    BY <2>1, <2>2, <2>3, OthersKeepPhase
<1>9. ASSUME NEW c \in Conn, ClientDies(c) PROVE \A d \in Conn : Phase(d)'
  <2>1. /\ st'[c]["client"] = "closed" /\ UNCHANGED inbox
        /\ \A d \in Conn : d # c => st'[d] = st[d]
    BY <1>0, <1>9, <1>side, <1>states, Becoming DEF ClientDies
  <2>2. Phase(c)'
    BY <2>1 DEF Phase, PhaseOf
  <2>3. QED
    BY <2>1, <2>2, OthersKeepPhase
<1>10. QED
  BY <1>1, <1>2, <1>3, <1>4, <1>5, <1>6, <1>7, <1>8, <1>9 DEF Next, Progress

(* A client never takes a connection for established that its server does  *)
(* not, whatever is refused, cut short or closed meanwhile.                *)
THEOREM ConnectedClientHasServer == Spec => []ClientHasServer
<1>1. Init => PhaseInv
  BY InitTyped DEF Init, PhaseInv, Phase, PhaseOf, Side
<1>2. PhaseInv => ClientHasServer
  BY DEF PhaseInv, Phase, PhaseOf, ClientHasServer
<1>3. QED
  BY <1>1, <1>2, NextPhase, PTL DEF Spec
=============================================================================
