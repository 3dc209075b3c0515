----------------------------- MODULE SocketTable -----------------------------
(***************************************************************************)
(* What the socket calls promise: an identifier names one socket from its  *)
(* creation to its close and never another; a call touches only the socket *)
(* it names; an established socket has a peer, only stream sockets listen, *)
(* and data is accepted only while a socket is established.                *)
(***************************************************************************)
EXTENDS Naturals

CONSTANTS Ids, NoSocket, NoAddr

VARIABLES
  sock,      \* identifier -> its socket, or NoSocket
  used_ids   \* identifiers that have been given out

socketVars == <<sock, used_ids>>

Create(id) ==
  /\ id \notin used_ids /\ used_ids' = used_ids \cup {id}
  /\ sock'[id] # NoSocket
  /\ sock'[id].state = "Closed" /\ sock'[id].remote_addr = NoAddr /\ sock'[id].sent = 0

Lawful(old, new) ==
  /\ new.sock_type = old.sock_type
  /\ new.state = "Established" => new.remote_addr # NoAddr
  /\ new.state = "Listen" => new.sock_type = "Stream"
  /\ new.state = "Closed" => old.state = "Closed"
  /\ new.sent # old.sent =>
       /\ new.sent > old.sent
       /\ old.state = "Established" /\ new = [old EXCEPT !.sent = new.sent]

Change(id) ==
  /\ sock[id] # NoSocket /\ sock'[id] # NoSocket
  /\ Lawful(sock[id], sock'[id])
  /\ UNCHANGED used_ids

Destroy(id) ==
  /\ sock[id] # NoSocket /\ sock'[id] = NoSocket
  /\ UNCHANGED used_ids

SocketsInit == sock = [id \in Ids |-> NoSocket] /\ used_ids = {}

SocketsNext ==
  \E id \in Ids :
    /\ Create(id) \/ Change(id) \/ Destroy(id)
    /\ \A other \in Ids \ {id} : sock'[other] = sock[other]

SocketsSpec == SocketsInit /\ [][SocketsNext]_socketVars
=============================================================================
