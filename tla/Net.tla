--------------------------------- MODULE Net ---------------------------------
(***************************************************************************)
(* The network stack: src/zarya-os/kernel/src/net/mod.rs.  The socket      *)
(* calls take &mut self, so each is one action; a call that names no       *)
(* socket returns an error and changes nothing.  Bytes in a buffer are     *)
(* counted.  accept is not implemented, and no packet reaches a socket:    *)
(* handle_packet only reports what it has got.                             *)
(*                                                                         *)
(* A packet is its length, its ethertype and its protocol.  An access past *)
(* the end of a slice panics, and the kernel stops.                        *)
(***************************************************************************)
EXTENDS Naturals, Sequences, FiniteSets

CONSTANTS
  MaxSockets,     \* bound: sockets ever created
  MaxSent,        \* bound: bytes in a send buffer
  Addrs,          \* socket addresses
  NoAddr,         \* None for an address
  NoSocket,       \* "Socket not found"
  MaxFrame        \* bound: the longest packet

SocketTypes  == {"Stream", "Datagram", "Raw"}
SocketStates == {"Closed", "Listen", "Established"}  \* of eleven; the others are never set
Ethertypes   == {"IPv4", "ARP", "other"}
Protocols    == {"ICMP", "TCP", "UDP", "other"}

ASSUME NetConstants ==
  /\ MaxSockets \in Nat /\ MaxSent \in Nat /\ MaxFrame \in Nat
  /\ NoAddr \notin Addrs

Peers   == Addrs \cup {NoAddr}
Records == [id : Nat, sock_type : SocketTypes, local_addr : Peers, remote_addr : Peers,
            state : SocketStates, received : Nat, sent : Nat]

ASSUME NoSocketIsNoRecord == NoSocket \notin Records

VARIABLES
  sockets,           \* NetworkStack::sockets
  next_socket_id,    \* NetworkStack::next_socket_id
  dead,              \* has the kernel panicked?
  last               \* the last packet, and what became of it

netVars == <<sockets, next_socket_id, dead, last>>

-----------------------------------------------------------------------------
(* iter().find: the position of the first socket with this identifier.     *)
Matches(id) == {i \in DOMAIN sockets : sockets[i].id = id}
Found(id)   == CHOOSE i \in Matches(id) : \A j \in Matches(id) : i <= j

SocketById(id) == IF Matches(id) = {} THEN NoSocket ELSE sockets[Found(id)]

(* iter_mut().find, and a new value for what was found.                    *)
Update(id, new) ==
  /\ ~dead /\ Matches(id) # {}
  /\ sockets' = [sockets EXCEPT ![Found(id)] = new]
  /\ UNCHANGED <<next_socket_id, dead, last>>

NewSocket(id, type) ==
  [id |-> id, sock_type |-> type, local_addr |-> NoAddr, remote_addr |-> NoAddr,
   state |-> "Closed", received |-> 0, sent |-> 0]

SocketByCount(type) ==
  /\ ~dead /\ next_socket_id <= MaxSockets
  /\ sockets' = Append(sockets, NewSocket(Len(sockets) + 1, type))
  /\ next_socket_id' = next_socket_id + 1
  /\ UNCHANGED <<dead, last>>

socket(type) ==
  /\ ~dead /\ next_socket_id <= MaxSockets
  /\ sockets' = Append(sockets, NewSocket(next_socket_id, type))
  /\ next_socket_id' = next_socket_id + 1
  /\ UNCHANGED <<dead, last>>

(* bind in any state; the address may be in use.                           *)
bind(id, addr) == Update(id, [SocketById(id) EXCEPT !.local_addr = addr])

listen(id) ==
  /\ Matches(id) # {} /\ SocketById(id).sock_type = "Stream"
  /\ Update(id, [SocketById(id) EXCEPT !.state = "Listen"])

(* connect in any state and for any type, at once and without a packet.    *)
connect(id, addr) ==
  Update(id, [SocketById(id) EXCEPT !.remote_addr = addr, !.state = "Established"])

(* send: the bytes go to the send buffer, from which nothing takes them.   *)
send(id, n) ==
  /\ Matches(id) # {} /\ SocketById(id).state = "Established"
  /\ SocketById(id).sent + n <= MaxSent
  /\ Update(id, [SocketById(id) EXCEPT !.sent = @ + n])

(* recv takes what there is, up to the length of the caller's buffer.      *)
recv(id, n) ==
  Update(id, [SocketById(id) EXCEPT !.received = IF @ < n THEN 0 ELSE @ - n])

close(id) ==
  /\ ~dead /\ Matches(id) # {}
  /\ sockets' = SubSeq(sockets, 1, Found(id) - 1) \o
                SubSeq(sockets, Found(id) + 1, Len(sockets))
  /\ UNCHANGED <<next_socket_id, dead, last>>

-----------------------------------------------------------------------------
(* Packets.  Reading byte i of a slice of len bytes panics if i >= len.    *)
Packets == [len : 0 .. MaxFrame, ethertype : Ethertypes, protocol : Protocols]
ETHERNET_HEADER == 14

handle_ipv4(len, packet) ==
  IF len = 0 THEN "ignored" ELSE IF 9 >= len THEN "panic" ELSE packet.protocol

LooseHandlePacket(packet) ==
  CASE packet.len < ETHERNET_HEADER - 1 -> "ignored"
    [] packet.len = ETHERNET_HEADER - 1 -> "panic"
    [] OTHER -> IF packet.ethertype = "IPv4"
                  THEN handle_ipv4(packet.len - ETHERNET_HEADER, packet)
                  ELSE packet.ethertype

handle_packet(packet) ==
  CASE packet.len < ETHERNET_HEADER -> "ignored"
    [] OTHER -> IF packet.ethertype = "IPv4"
                  THEN handle_ipv4(packet.len - ETHERNET_HEADER, packet)
                  ELSE packet.ethertype

Receive(packet) ==
  /\ ~dead
  /\ last' = [packet |-> packet, outcome |-> handle_packet(packet)]
  /\ dead' = (last'.outcome = "panic")
  /\ UNCHANGED <<sockets, next_socket_id>>

-----------------------------------------------------------------------------
NoPacket == [packet |-> [len |-> 0, ethertype |-> "other", protocol |-> "other"],
             outcome |-> "ignored"]

NetInit == sockets = <<>> /\ next_socket_id = 1 /\ dead = FALSE /\ last = NoPacket

SocketCall(id) ==
  \/ \E addr \in Addrs : bind(id, addr) \/ connect(id, addr)
  \/ \E n \in 1 .. MaxSent : send(id, n) \/ recv(id, n)
  \/ listen(id) \/ close(id)

SocketNext ==
  \/ \E type \in SocketTypes : socket(type)
  \/ \E id \in 1 .. MaxSockets : SocketCall(id)

PacketNext == \E packet \in Packets : Receive(packet)

NetNext == SocketNext \/ PacketNext

NetSpec == NetInit /\ [][NetNext]_netVars

-----------------------------------------------------------------------------
Sockets == INSTANCE SocketTable WITH
  Ids <- 1 .. MaxSockets, sock <- [id \in 1 .. MaxSockets |-> SocketById(id)],
  used_ids <- 1 .. next_socket_id - 1

(* The vector of sockets implements SocketTable: a search by identifier    *)
(* finds the socket it was created for, in spite of the sockets that were  *)
(* removed from the vector before it, and no sequence of bind, listen,     *)
(* connect and send leaves a socket established without a peer or takes    *)
(* data for one that is not established.                                   *)
NetRefinement == Sockets!SocketsSpec

(* A packet panics the kernel only if it announces IPv4 and ends inside    *)
(* the first ten bytes of that header; every packet that holds the headers *)
(* it announces is told apart by its protocol, and anything too short for  *)
(* an Ethernet header is ignored.                                          *)
OnlyTruncatedHeaderPanics ==
  LET p == last.packet
      truncated == p.ethertype = "IPv4" /\ p.len > ETHERNET_HEADER
                     /\ p.len < ETHERNET_HEADER + 10
  IN  /\ dead <=> truncated
      /\ p.ethertype = "IPv4" /\ p.len >= ETHERNET_HEADER + 20 => last.outcome = p.protocol
      /\ p.len < ETHERNET_HEADER => last.outcome = "ignored"
=============================================================================
