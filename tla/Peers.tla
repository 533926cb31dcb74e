------------------------------- MODULE Peers -------------------------------
(***************************************************************************)
(* The two TCP peers of one proxied connection, seen through the socket    *)
(* the proxy holds to each of them: the local application ("client",       *)
(* client_fd) and the SOCKS5 server ("relay", relay_fd).  The kernel and   *)
(* the peers are external code; they are modelled by what splice(2),       *)
(* recv(2), send(2) and shutdown(2) let the pumps observe.                 *)
(*                                                                         *)
(* A stream is abstracted to its length: the pumps move bytes without      *)
(* looking at them, so what matters is how many bytes of a stream are      *)
(* still in the kernel, inside the proxy, or delivered.                    *)
(***************************************************************************)
EXTENDS Naturals

CONSTANT MaxSend    \* bound on the bytes one peer sends

ASSUME MaxSendAssumption == MaxSend \in Nat

VARIABLES
  sent,       \* sent[s]: bytes of peer s that have reached the proxy's host
  unread,     \* unread[s]: those still in the receive queue of socket s
  delivered,  \* delivered[s]: bytes the proxy has written to socket s
  fin,        \* fin[s]: peer s has closed its sending direction
  rst,        \* rst[s]: peer s has reset the connection
  sockerr,    \* sockerr[s]: the reset has not yet been reported (SO_ERROR)
  stalled     \* stalled[s]: peer s stopped reading, its window is closed

peerVars == <<sent, unread, delivered, fin, rst, sockerr, stalled>>

Side == {"client", "relay"}

Other(s) == IF s = "client" THEN "relay" ELSE "client"

AllFalse == [s \in Side |-> FALSE]
AllTrue  == [s \in Side |-> TRUE]
AllZero  == [s \in Side |-> 0]

PeersTypeOK ==
  /\ sent \in [Side -> Nat]
  /\ unread \in [Side -> Nat]
  /\ delivered \in [Side -> Nat]
  /\ fin \in [Side -> BOOLEAN]
  /\ rst \in [Side -> BOOLEAN]
  /\ sockerr \in [Side -> BOOLEAN]
  /\ stalled \in [Side -> BOOLEAN]

(***************************************************************************)
(* When the pump starts, the SOCKS5 handshake may already have taken       *)
(* `early' bytes of the relay's payload into the relay bufferevent.        *)
(***************************************************************************)
PeersInit(early) ==
  /\ sent = [AllZero EXCEPT !["relay"] = early]
  /\ unread = AllZero
  /\ delivered = AllZero
  /\ fin = AllFalse
  /\ rst = AllFalse
  /\ sockerr = AllFalse
  /\ stalled = AllFalse

PeerSend(s) ==
  /\ ~fin[s] /\ ~rst[s]
  /\ sent[s] < MaxSend
  /\ sent' = [sent EXCEPT ![s] = @ + 1]
  /\ unread' = [unread EXCEPT ![s] = @ + 1]
  /\ UNCHANGED <<delivered, fin, rst, sockerr, stalled>>

PeerFin(s) ==
  /\ ~fin[s] /\ ~rst[s]
  /\ fin' = [fin EXCEPT ![s] = TRUE]
  /\ UNCHANGED <<sent, unread, delivered, rst, sockerr, stalled>>

PeerReset(s) ==
  /\ ~rst[s]
  /\ rst' = [rst EXCEPT ![s] = TRUE]
  /\ sockerr' = [sockerr EXCEPT ![s] = TRUE]
  /\ UNCHANGED <<sent, unread, delivered, fin, stalled>>

PeerStall(s) ==
  /\ ~stalled[s]
  /\ stalled' = [stalled EXCEPT ![s] = TRUE]
  /\ UNCHANGED <<sent, unread, delivered, fin, rst, sockerr>>

PeerStep(s) == PeerSend(s) \/ PeerFin(s) \/ PeerReset(s) \/ PeerStall(s)

(***************************************************************************)
(* What a read of socket s finds once its receive queue is empty.  The     *)
(* kernel reports a reset once, to the first call that asks, and then      *)
(* treats the receive side as ended.                                       *)
(***************************************************************************)
AtEof(s)   == unread[s] = 0 /\ (IF rst[s] THEN ~sockerr[s] ELSE fin[s])
AtError(s) == unread[s] = 0 /\ rst[s] /\ sockerr[s]

ReportError(s) == sockerr' = [sockerr EXCEPT ![s] = FALSE]

(***************************************************************************)
(* What the proxy does to the sockets: take n bytes from the receive queue *)
(* of s, hand n bytes to the send queue of s.                              *)
(***************************************************************************)
SocketRead(s, n)  == unread' = [unread EXCEPT ![s] = @ - n]
SocketWrite(s, n) == delivered' = [delivered EXCEPT ![s] = @ + n]
=============================================================================
