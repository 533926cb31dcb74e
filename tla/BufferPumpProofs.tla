-------------------------- MODULE BufferPumpProofs --------------------------
(***************************************************************************)
(* Proofs about BufferPump, for every MaxSend, BufSize and Leftovers.      *)
(***************************************************************************)
EXTENDS BufferPump, TLAPS

(* The two sides are each other's Other. *)
LEMMA OtherSide ==
  ASSUME NEW s \in Side
  PROVE  /\ Other(s) \in Side
         /\ Other(s) # s
         /\ Other(Other(s)) = s
         /\ Side = {s, Other(s)}
BY DEF Other, Side

(* The arithmetic of a stream's byte count: what is left of it when some   *)
(* of the places its bytes can be in are empty.                            *)
LEMMA StreamSum ==
  ASSUME NEW n \in Nat, NEW u \in Nat, NEW i \in Nat, NEW o \in Nat,
         NEW d \in Nat, n = u + i + o + d
  PROVE  /\ u = 0 /\ o = 0 => d + i = n
         /\ u = 0 /\ o = 0 /\ i = 0 => d = n
         /\ u = 0 /\ i = 0 => n = d + o
         /\ \A k \in 1 .. o : k \in 1 .. (n - d)
OBVIOUS

(* A read callback of either side is MoveInput of that side. *)
LEMMA ReadcbIsMove ==
  ASSUME NEW s \in Side, NEW n, readcb(s, n)
  PROVE  MoveInput(s, n)
BY DEF readcb, transocks_client_readcb, transocks_relay_readcb, Side

(* A write callback of either side is PropagateOnDrain of that side. *)
LEMMA WritecbIsPropagate ==
  ASSUME NEW s \in Side, NEW left, NEW wp, writecb(s, left, wp)
  PROVE  PropagateOnDrain(s, left, wp)
BY DEF writecb, transocks_client_writecb, transocks_relay_writecb, Side

(* The end-of-file and write-error branches as the event callbacks reach
   them: libevent has disabled the event already, the handler does it again. *)
ReadEnded(s) ==
  CheckClose([shutdown_read EXCEPT ![s] = TRUE],
             [shutdown_write EXCEPT ![Other(s)] = @ \/ output[Other(s)] = 0],
             [ev_read EXCEPT ![s] = FALSE], ev_write, wpending)

WriteBroken(s) ==
  CheckClose(shutdown_read,
             [shutdown_write EXCEPT ![s] = TRUE],
             ev_read,
             [ev_write EXCEPT ![s] = FALSE],
             [wpending EXCEPT ![s] = FALSE])

LEMMA DisabledTwice ==
  ASSUME NEW f, NEW s
  PROVE  [[f EXCEPT ![s] = FALSE] EXCEPT ![s] = FALSE] = [f EXCEPT ![s] = FALSE]
OBVIOUS

(* What the event callbacks do for each event libevent reports to them. *)
LEMMA EventcbCases ==
  ASSUME NEW s \in Side
  PROVE  /\ readcb_event(s, {"EOF"}, "none") => ReadEnded(s)
         /\ readcb_event(s, {"ERROR"}, "ECONNRESET") => OnError
         /\ \A err : writecb_event(s, {"ERROR"}, err) => WriteBroken(s) \/ OnError
<1>1. \A what, err, er, ew, wp :
        eventcb(s, what, err, er, ew, wp) => EventCb(s, what, err, er, ew, wp)
  BY DEF eventcb, transocks_client_eventcb, transocks_relay_eventcb, Side
<1>2. /\ ReadEof({"READING"} \cup {"EOF"})
      /\ ~ReadEof({"READING"} \cup {"ERROR"})
      /\ ~ReadEof({"WRITING"} \cup {"ERROR"})
      /\ \A err : ~WriteEof({"READING"} \cup {"ERROR"}, err)
  BY DEF ReadEof, WriteEof
<1>3. OnReadEof(s, [ev_read EXCEPT ![s] = FALSE]) => ReadEnded(s)
  BY DisabledTwice, Zenon DEF OnReadEof, ReadEnded
<1>4. OnWriteEof(s, [ev_write EXCEPT ![s] = FALSE], [wpending EXCEPT ![s] = FALSE])
        => WriteBroken(s)
  BY DisabledTwice, Zenon DEF OnWriteEof, WriteBroken
<1> QED BY <1>1, <1>2, <1>3, <1>4, Zenon DEF EventCb, readcb_event, writecb_event

(* CheckClose either frees the client or leaves its state alone. *)
LEMMA CheckCloseCases ==
  ASSUME NEW sr, NEW sw, NEW er, NEW ew, NEW wp,
         CheckClose(sr, sw, er, ew, wp)
  PROVE  /\ shutdown_read' = sr /\ shutdown_write' = sw /\ dropped' = dropped
         /\ \/ /\ \A s \in Side : sr[s] /\ sw[s]
               /\ transocks_client_free
            \/ /\ client_state' = client_state
               /\ ev_read' = er /\ ev_write' = ew /\ wpending' = wp
BY DEF CheckClose, transocks_check_close, transocks_bufferpump_free

-----------------------------------------------------------------------------
(* The invariant's account of the stream read from side s. *)
LEMMA StreamBytes ==
  ASSUME IInv, NEW s \in Side
  PROVE  /\ sent[s] = unread[s] + input[s] + output[Other(s)]
                        + delivered[Other(s)]
         /\ sent[s] \in Nat /\ unread[s] \in Nat /\ input[s] \in Nat
         /\ output[Other(s)] \in Nat /\ delivered[Other(s)] \in Nat
<1>1. sent[s] = unread[s] + input[s] + output[Other(s)] + delivered[Other(s)]
  BY DEF IInv, Conservation
<1>2. /\ sent[s] \in Nat /\ unread[s] \in Nat /\ input[s] \in Nat
      /\ output[Other(s)] \in Nat /\ delivered[Other(s)] \in Nat
  BY OtherSide DEF IInv, TypeOK, PeersTypeOK
<1> QED BY <1>1, <1>2

(* What is queued for side s has been sent to it and not yet delivered. *)
LEMMA WriteRoom ==
  ASSUME IInv, NEW s \in Side
  PROVE  /\ \A k \in 1 .. output[s] : k \in 1 .. (sent[Other(s)] - delivered[s])
         /\ output[s] > 0 => output[s] \in 1 .. (sent[Other(s)] - delivered[s])
<1> DEFINE o == Other(s)
<1>1. o \in Side /\ Other(o) = s
  BY OtherSide
<1>2. /\ sent[o] = unread[o] + input[o] + output[s] + delivered[s]
      /\ sent[o] \in Nat /\ unread[o] \in Nat /\ input[o] \in Nat
      /\ output[s] \in Nat /\ delivered[s] \in Nat
  BY <1>1, StreamBytes
<1> HIDE DEF o
<1>3. \A k \in 1 .. output[s] : k \in 1 .. (sent[o] - delivered[s])
  BY <1>2, StreamSum
<1>4. output[s] > 0 => output[s] \in 1 .. output[s]
  BY <1>2
<1> QED BY <1>3, <1>4 DEF o

(* The handshake hands over a state that satisfies the invariant. *)
LEMMA InitIInv == Init => IInv
<1> SUFFICES ASSUME Init PROVE IInv
  OBVIOUS
<1> PICK early \in Leftovers :
      PeersInit(early) /\ input = [AllZero EXCEPT !["relay"] = early]
  BY DEF Init
<1>0. early \in Nat
  BY LeftoversAssumption, BufSizeAssumption
<1>1. TypeOK
  BY <1>0 DEF Init, PeersInit, TypeOK, PeersTypeOK, AllZero, AllFalse, Side,
              ClientStates
<1>2. Conservation
  BY <1>0 DEF Init, PeersInit, Conservation, AllZero, AllFalse, Side, Other
<1>3. ReadShut /\ WriteShut /\ Events /\ FreeReason /\ NoLostWakeup
  BY DEF Init, ReadShut, WriteShut, Events, FreeReason, NoLostWakeup,
         AllFalse, Destroyed
<1> QED BY <1>1, <1>2, <1>3 DEF IInv

(* The steps of the peers preserve the invariant. *)
LEMMA PeerStepIInv ==
  ASSUME IInv, NEW s \in Side, PeerAction(s)
  PROVE  IInv'
<1> USE DEF IInv
<1>0. /\ client_state # "client_DESTROYED"
      /\ UNCHANGED <<bevVars, clientVars, delivered>>
      /\ PeerStep(s)
  BY DEF PeerAction, PeerStep, PeerSend, PeerFin, PeerReset, PeerStall
<1>1. TypeOK'
  <2>1. PeersTypeOK'
    <3>1. CASE PeerSend(s)
      BY <1>0, <3>1 DEF TypeOK, PeersTypeOK, PeerSend
    <3>2. CASE PeerFin(s)
      BY <1>0, <3>2 DEF TypeOK, PeersTypeOK, PeerFin
    <3>3. CASE PeerReset(s)
      BY <1>0, <3>3 DEF TypeOK, PeersTypeOK, PeerReset
    <3>4. CASE PeerStall(s)
      BY <1>0, <3>4 DEF TypeOK, PeersTypeOK, PeerStall
    <3> QED BY <1>0, <3>1, <3>2, <3>3, <3>4 DEF PeerStep
  <2> QED BY <1>0, <2>1 DEF TypeOK, bevVars, clientVars
<1>2. Conservation'
  <2>1. CASE PeerSend(s)
    <3> SUFFICES ASSUME NEW t \in Side
                 PROVE  sent'[t] = unread'[t] + input'[t] + output'[Other(t)]
                                     + delivered'[Other(t)]
      BY DEF Conservation
    <3>1. sent[t] = unread[t] + input[t] + output[Other(t)] + delivered[Other(t)]
      BY DEF Conservation
    <3>2. /\ sent[t] \in Nat /\ unread[t] \in Nat /\ input[t] \in Nat
          /\ output[Other(t)] \in Nat /\ delivered[Other(t)] \in Nat
      BY OtherSide DEF TypeOK, PeersTypeOK
    <3>3. /\ input' = input /\ output' = output /\ delivered' = delivered
      BY <1>0 DEF bevVars
    <3>4. \/ sent'[t] = sent[t] /\ unread'[t] = unread[t]
          \/ sent'[t] = sent[t] + 1 /\ unread'[t] = unread[t] + 1
      BY <2>1 DEF PeerSend, TypeOK, PeersTypeOK
    <3> QED BY <3>1, <3>2, <3>3, <3>4
  <2>2. CASE PeerFin(s) \/ PeerReset(s) \/ PeerStall(s)
    BY <1>0, <2>2 DEF Conservation, PeerFin, PeerReset, PeerStall, bevVars
  <2> QED BY <1>0, <2>1, <2>2 DEF PeerStep
<1>3. ReadShut'
  BY <1>0 DEF TypeOK, PeersTypeOK, ReadShut, PeerStep, PeerSend,
       PeerFin, PeerReset, PeerStall, bevVars, clientVars
<1>4. WriteShut'
  BY <1>0 DEF TypeOK, PeersTypeOK, WriteShut, PeerStep, PeerSend,
       PeerFin, PeerReset, PeerStall, bevVars, clientVars
<1>5. Events' /\ FreeReason' /\ NoLostWakeup'
  BY <1>0 DEF Events, FreeReason, NoLostWakeup, bevVars, clientVars, Destroyed
<1> QED BY <1>1, <1>2, <1>3, <1>4, <1>5

(* Reading data preserves the invariant: the bytes taken from the socket   *)
(* and those waiting in the input buffer join the other side's output.     *)
LEMMA ReadDataIInv ==
  ASSUME IInv, NEW s \in Side, bufferevent_read_data(s)
  PROVE  IInv'
<1> USE DEF IInv
<1> DEFINE n == Min(unread[s], BufSize - input[s])
           o == Other(s)
<1>0. /\ ev_read[s]
      /\ n > 0
      /\ unread' = [unread EXCEPT ![s] = @ - n]
      /\ MoveInput(s, n)
      /\ UNCHANGED <<sent, delivered, fin, rst, sockerr, stalled>>
  BY ReadcbIsMove DEF bufferevent_read_data, SocketRead
<1>1. n \in Nat /\ n <= unread[s]
  BY <1>0, BufSizeAssumption DEF Min, TypeOK, PeersTypeOK
<1>2. /\ input' = [input EXCEPT ![s] = 0]
      /\ output' = [output EXCEPT ![o] = @ + input[s] + n]
      /\ wpending' = [wpending EXCEPT ![o] = @ \/ ev_write[o]]
      /\ UNCHANGED <<ev_read, ev_write, client_state, shutdown_read,
                     shutdown_write, dropped>>
  BY <1>0 DEF MoveInput, clientVars
<1>3. o \in Side /\ o # s /\ Other(o) = s /\ Side = {s, o}
  BY OtherSide
<1> HIDE DEF n, o
<1>4. client_state = "client_pumping_data"
  BY <1>0 DEF Events
<1>5. ~shutdown_read[s]
  BY <1>0 DEF ReadShut
<1>6. TypeOK'
  <2>1. PeersTypeOK'
    BY <1>0, <1>1 DEF TypeOK, PeersTypeOK
  <2>2. input' \in [Side -> Nat] /\ output' \in [Side -> Nat]
    BY <1>1, <1>2, <1>3 DEF TypeOK
  <2>3. wpending' \in [Side -> BOOLEAN]
    BY <1>2, <1>3 DEF TypeOK
  <2> QED BY <1>2, <2>1, <2>2, <2>3 DEF TypeOK
<1>7. Conservation'
  <2>1. /\ unread'[s] = unread[s] - n /\ unread'[o] = unread[o]
        /\ input'[s] = 0 /\ input'[o] = input[o]
        /\ output'[o] = output[o] + input[s] + n /\ output'[s] = output[s]
    BY <1>0, <1>2, <1>3 DEF TypeOK, PeersTypeOK
  <2>2. \A t \in Side : /\ sent[t] \in Nat /\ unread[t] \in Nat
                        /\ input[t] \in Nat /\ output[t] \in Nat
                        /\ delivered[t] \in Nat
    BY DEF TypeOK, PeersTypeOK
  <2>3. /\ sent[s] = unread[s] + input[s] + output[o] + delivered[o]
        /\ sent[o] = unread[o] + input[o] + output[s] + delivered[s]
    BY <1>3 DEF Conservation, o
  <2>4. sent'[s] = unread'[s] + input'[s] + output'[o] + delivered'[o]
    <3>1. sent[s] = (unread[s] - n) + 0 + (output[o] + input[s] + n)
                      + delivered[o]
      BY <1>1, <1>3, <2>2, <2>3
    <3> QED BY <1>0, <2>1, <3>1
  <2>5. sent'[o] = unread'[o] + input'[o] + output'[s] + delivered'[s]
    BY <1>0, <2>1, <2>3
  <2> QED BY <1>3, <2>4, <2>5 DEF Conservation, o
<1>8. ReadShut'
  BY <1>0, <1>2, <1>5 DEF ReadShut, TypeOK, PeersTypeOK
<1>9. WriteShut'
  BY <1>0, <1>2, <1>3, <1>5 DEF WriteShut, TypeOK
<1>10. Events' /\ FreeReason'
  BY <1>0, <1>2, <1>4 DEF Events, FreeReason, Destroyed
<1>11. NoLostWakeup'
  <2>1. wpending'[o] \/ shutdown_write'[o]
    BY <1>2, <1>3, <1>4 DEF Events, TypeOK
  <2>2. wpending'[s] = wpending[s] /\ output'[s] = output[s]
    BY <1>2, <1>3 DEF TypeOK
  <2> QED BY <1>2, <1>3, <1>4, <2>1, <2>2 DEF NoLostWakeup
<1> QED BY <1>6, <1>7, <1>8, <1>9, <1>10, <1>11

(* Freeing the client preserves what the invariant says of pending events. *)
LEMMA FreeIInv ==
  ASSUME IInv,
         UNCHANGED <<sent, unread, delivered, fin, rst, stalled>>,
         sockerr' \in [Side -> BOOLEAN],
         UNCHANGED <<input, output, shutdown_read, shutdown_write>>,
         transocks_client_free,
         dropped' \in BOOLEAN,
         dropped' \/ \E s \in Side : rst[s]
  PROVE  IInv'
<1> USE DEF IInv
<1>1. TypeOK'
  BY DEF TypeOK, PeersTypeOK, transocks_client_free, ClientStates, AllFalse
<1>2. Conservation'
  BY DEF Conservation
<1>3. ReadShut' /\ WriteShut'
  BY DEF ReadShut, WriteShut, transocks_client_free, AllFalse
<1>4. Events' /\ FreeReason' /\ NoLostWakeup'
  BY DEF Events, FreeReason, NoLostWakeup, transocks_client_free, AllFalse,
         Destroyed, Intact
<1> QED BY <1>1, <1>2, <1>3, <1>4

(***************************************************************************)
(* What the shutdown flags and event masks a callback passes to CheckClose *)
(* must satisfy for a pump that goes on running.                           *)
(***************************************************************************)
GoesOn(sr, sw, er, ew, wp) ==
  /\ sr \in [Side -> BOOLEAN] /\ sw \in [Side -> BOOLEAN]
  /\ er \in [Side -> BOOLEAN] /\ ew \in [Side -> BOOLEAN]
  /\ wp \in [Side -> BOOLEAN]
  /\ \A s \in Side : sr[s] => (fin'[s] \/ rst'[s]) /\ unread'[s] = 0 /\ ~er[s]
  /\ \A s \in Side : sw[s] => (sr[Other(s)] /\ output'[s] = 0) \/ rst'[s]
  /\ \A s \in Side : ew[s] \/ sw[s]
  /\ \A s \in Side : sw[s] \/ wp[s] \/ (output'[s] = 0 /\ ~sr[Other(s)])

(* The tail CheckClose of a callback then re-establishes the invariant.    *)
LEMMA CheckCloseIInv ==
  ASSUME IInv, client_state = "client_pumping_data",
         NEW sr, NEW sw, NEW er, NEW ew, NEW wp,
         CheckClose(sr, sw, er, ew, wp),
         GoesOn(sr, sw, er, ew, wp),
         PeersTypeOK', input' \in [Side -> Nat], output' \in [Side -> Nat],
         Conservation'
  PROVE  IInv'
<1> USE DEF GoesOn
<1>1. /\ shutdown_read' = sr /\ shutdown_write' = sw /\ dropped' = dropped
      /\ \/ /\ \A s \in Side : sr[s] /\ sw[s]
            /\ transocks_client_free
         \/ /\ client_state' = client_state
            /\ ev_read' = er /\ ev_write' = ew /\ wpending' = wp
  BY CheckCloseCases
<1>2. CASE (\A s \in Side : sr[s] /\ sw[s]) /\ transocks_client_free
  <2>1. TypeOK'
    BY <1>1, <1>2 DEF IInv, TypeOK, transocks_client_free, AllFalse, ClientStates
  <2>2. ReadShut' /\ WriteShut'
    BY <1>1, <1>2 DEF ReadShut, WriteShut, transocks_client_free, AllFalse
  <2>3. Events' /\ FreeReason' /\ NoLostWakeup'
    BY <1>1, <1>2 DEF Events, FreeReason, NoLostWakeup, transocks_client_free,
                      AllFalse, Destroyed
  <2> QED BY <2>1, <2>2, <2>3 DEF IInv
<1>3. CASE /\ client_state' = client_state
           /\ ev_read' = er /\ ev_write' = ew /\ wpending' = wp
  <2>1. TypeOK'
    BY <1>1, <1>3 DEF IInv, TypeOK
  <2>2. ReadShut' /\ WriteShut'
    BY <1>1, <1>3 DEF ReadShut, WriteShut
  <2>3. Events' /\ FreeReason' /\ NoLostWakeup'
    BY <1>1, <1>3 DEF Events, FreeReason, NoLostWakeup, Destroyed
  <2> QED BY <2>1, <2>2, <2>3 DEF IInv
<1> QED BY <1>1, <1>2, <1>3

(* End-of-file on socket s: the read side is shut down, and the FIN is     *)
(* forwarded at once only if nothing is queued for the other side.         *)
LEMMA ReadEofIInv ==
  ASSUME IInv, NEW s \in Side, bufferevent_read_eof(s)
  PROVE  IInv'
<1> DEFINE o  == Other(s)
           sr == [shutdown_read EXCEPT ![s] = TRUE]
           sw == [shutdown_write EXCEPT ![o] = @ \/ output[o] = 0]
           er == [ev_read EXCEPT ![s] = FALSE]
<1>0. /\ ev_read[s]
      /\ AtEof(s)
      /\ CheckClose(sr, sw, er, ev_write, wpending)
      /\ UNCHANGED <<peerVars, input, output>>
  BY EventcbCases DEF bufferevent_read_eof, ReadEnded
<1>1. o \in Side /\ o # s /\ Other(o) = s /\ Side = {s, o}
  BY OtherSide
<1>2. client_state = "client_pumping_data"
  BY <1>0 DEF IInv, Events
<1>3. unread[s] = 0 /\ (fin[s] \/ rst[s])
  BY <1>0 DEF AtEof
<1>t. TypeOK /\ ReadShut /\ WriteShut /\ Events /\ NoLostWakeup
  BY DEF IInv
<1> HIDE DEF o
<1>4. /\ sr \in [Side -> BOOLEAN] /\ sw \in [Side -> BOOLEAN]
      /\ er \in [Side -> BOOLEAN] /\ ev_write \in [Side -> BOOLEAN]
      /\ wpending \in [Side -> BOOLEAN]
  BY <1>1, <1>t DEF TypeOK
<1>5. /\ sr[s] /\ sr[o] = shutdown_read[o]
      /\ sw[s] = shutdown_write[s] /\ (sw[o] <=> shutdown_write[o] \/ output[o] = 0)
      /\ ~er[s] /\ er[o] = ev_read[o]
  BY <1>1, <1>t DEF TypeOK
<1>6. /\ PeersTypeOK' /\ input' \in [Side -> Nat] /\ output' \in [Side -> Nat]
      /\ Conservation'
  BY <1>0 DEF IInv, TypeOK, PeersTypeOK, Conservation, peerVars
<1>u. fin' = fin /\ rst' = rst /\ unread' = unread /\ output' = output
  BY <1>0 DEF peerVars
<1>7. \A t \in Side : sr[t] => /\ (fin'[t] \/ rst'[t]) /\ unread'[t] = 0 /\ ~er[t]
  BY <1>u, <1>1, <1>3, <1>5, <1>t DEF ReadShut
<1>8. \A t \in Side : sw[t] => (sr[Other(t)] /\ output'[t] = 0) \/ rst'[t]
  BY <1>u, <1>1, <1>5, <1>t DEF WriteShut, o
<1>9. \A t \in Side : ev_write[t] \/ sw[t]
  BY <1>1, <1>2, <1>5, <1>t DEF Events
<1>10. \A t \in Side : sw[t] \/ wpending[t] \/ (output'[t] = 0 /\ ~sr[Other(t)])
  <2>1. \A t \in Side : \/ shutdown_write[t] \/ wpending[t]
                        \/ output[t] = 0 /\ ~shutdown_read[Other(t)]
    BY <1>2, <1>t DEF NoLostWakeup
  <2>2. sw[s] \/ wpending[s] \/ (output'[s] = 0 /\ ~sr[Other(s)])
    BY <1>u, <1>1, <1>5, <2>1 DEF o
  <2>3. sw[o] \/ wpending[o] \/ (output'[o] = 0 /\ ~sr[Other(o)])
    BY <1>u, <1>1, <1>5, <2>1
  <2> QED BY <1>1, <2>2, <2>3
<1>11. GoesOn(sr, sw, er, ev_write, wpending)
  BY <1>4, <1>7, <1>8, <1>9, <1>10 DEF GoesOn
<1> HIDE DEF sr, sw, er
<1> QED BY <1>0, <1>2, <1>6, <1>11, CheckCloseIInv

(* The write callback of side s, called with an empty output buffer,       *)
(* re-establishes the invariant.                                           *)
LEMMA DrainedIInv ==
  ASSUME IInv, NEW s \in Side, client_state = "client_pumping_data",
         writecb(s, 0, [wpending EXCEPT ![s] = FALSE]),
         PeersTypeOK', Conservation',
         input' \in [Side -> Nat], output' = [output EXCEPT ![s] = 0],
         UNCHANGED <<unread, fin, rst>>
  PROVE  IInv'
<1> DEFINE o  == Other(s)
           sw == [shutdown_write EXCEPT ![s] = @ \/ (0 = 0 /\ shutdown_read[o])]
           wp == [wpending EXCEPT ![s] = FALSE]
<1>0. CheckClose(shutdown_read, sw, ev_read, ev_write, wp)
  BY WritecbIsPropagate DEF PropagateOnDrain
<1>1. o \in Side /\ o # s /\ Other(o) = s /\ Side = {s, o}
  BY OtherSide
<1>t. TypeOK /\ ReadShut /\ WriteShut /\ Events /\ NoLostWakeup
  BY DEF IInv
<1>2. /\ shutdown_read \in [Side -> BOOLEAN] /\ ev_read \in [Side -> BOOLEAN]
      /\ ev_write \in [Side -> BOOLEAN] /\ sw \in [Side -> BOOLEAN]
      /\ wp \in [Side -> BOOLEAN] /\ output' \in [Side -> Nat]
  BY <1>1, <1>t DEF TypeOK
<1>3. /\ sw[s] <=> shutdown_write[s] \/ shutdown_read[o]
      /\ sw[o] <=> shutdown_write[o]
      /\ wp[o] <=> wpending[o]
      /\ output'[s] = 0 /\ output'[o] = output[o]
  BY <1>1, <1>t DEF TypeOK
<1> HIDE DEF o, sw, wp
<1>4. \A t \in Side : shutdown_read[t] =>
        (fin'[t] \/ rst'[t]) /\ unread'[t] = 0 /\ ~ev_read[t]
  BY <1>t DEF ReadShut
<1>5. \A t \in Side : sw[t] => (shutdown_read[Other(t)] /\ output'[t] = 0) \/ rst'[t]
  <2>1. \A t \in Side :
          shutdown_write[t] => (shutdown_read[Other(t)] /\ output[t] = 0) \/ rst[t]
    BY <1>t DEF WriteShut
  <2>2. sw[s] => (shutdown_read[Other(s)] /\ output'[s] = 0) \/ rst'[s]
    BY <1>3, <2>1 DEF o
  <2>3. sw[o] => (shutdown_read[Other(o)] /\ output'[o] = 0) \/ rst'[o]
    BY <1>1, <1>3, <2>1
  <2> QED BY <1>1, <2>2, <2>3
<1>6. \A t \in Side : ev_write[t] \/ sw[t]
  BY <1>1, <1>3, <1>t DEF Events
<1>7. \A t \in Side : sw[t] \/ wp[t] \/ (output'[t] = 0 /\ ~shutdown_read[Other(t)])
  <2>1. \A t \in Side : \/ shutdown_write[t] \/ wpending[t]
                        \/ output[t] = 0 /\ ~shutdown_read[Other(t)]
    BY <1>t DEF NoLostWakeup
  <2>2. sw[s] \/ wp[s] \/ (output'[s] = 0 /\ ~shutdown_read[Other(s)])
    BY <1>3 DEF o
  <2>3. sw[o] \/ wp[o] \/ (output'[o] = 0 /\ ~shutdown_read[Other(o)])
    BY <1>1, <1>3, <2>1
  <2> QED BY <1>1, <2>2, <2>3
<1>8. GoesOn(shutdown_read, sw, ev_read, ev_write, wp)
  BY <1>2, <1>4, <1>5, <1>6, <1>7 DEF GoesOn
<1> QED BY <1>0, <1>2, <1>8, CheckCloseIInv

(* Writing part or all of the output buffer preserves the invariant. *)
LEMMA WriteDataIInv ==
  ASSUME IInv, NEW s \in Side, bufferevent_write_data(s)
  PROVE  IInv'
<1> DEFINE o == Other(s)
<1>t. TypeOK /\ ReadShut /\ WriteShut /\ Events /\ NoLostWakeup /\ Conservation
  BY DEF IInv
<1>0. PICK n \in 1 .. output[s] :
        /\ delivered' = [delivered EXCEPT ![s] = @ + n]
        /\ output' = [output EXCEPT ![s] = @ - n]
        /\ \/ n = output[s] /\ writecb(s, 0, [wpending EXCEPT ![s] = FALSE])
           \/ n < output[s] /\ UNCHANGED <<clientVars, ev_read, ev_write, wpending>>
  BY DEF bufferevent_write_data, SocketWrite
<1>1. /\ wpending[s]
      /\ ~rst[s]
      /\ UNCHANGED <<sent, unread, fin, rst, sockerr, stalled, input>>
  BY DEF bufferevent_write_data
<1>2. o \in Side /\ o # s /\ Other(o) = s /\ Side = {s, o}
  BY OtherSide
<1> HIDE DEF o
<1>3. client_state = "client_pumping_data"
  BY <1>1, <1>t DEF Events
<1>4. n \in Nat /\ n <= output[s] /\ output[s] \in Nat
  BY <1>0, <1>t DEF TypeOK
<1>5. PeersTypeOK' /\ input' \in [Side -> Nat] /\ output' \in [Side -> Nat]
  BY <1>0, <1>1, <1>4, <1>t DEF TypeOK, PeersTypeOK
<1>6. Conservation'
  <2>1. /\ delivered'[s] = delivered[s] + n /\ delivered'[o] = delivered[o]
        /\ output'[s] = output[s] - n /\ output'[o] = output[o]
    BY <1>0, <1>2, <1>t DEF TypeOK, PeersTypeOK
  <2>2. \A t \in Side : /\ sent[t] \in Nat /\ unread[t] \in Nat
                        /\ input[t] \in Nat /\ output[t] \in Nat
                        /\ delivered[t] \in Nat
    BY <1>t DEF TypeOK, PeersTypeOK
  <2>3. /\ sent[s] = unread[s] + input[s] + output[o] + delivered[o]
        /\ sent[o] = unread[o] + input[o] + output[s] + delivered[s]
    BY <1>2, <1>t DEF Conservation, o
  <2>4. sent'[s] = unread'[s] + input'[s] + output'[o] + delivered'[o]
    BY <1>1, <2>1, <2>3
  <2>5. sent'[o] = unread'[o] + input'[o] + output'[s] + delivered'[s]
    <3>1. sent[o] = unread[o] + input[o] + (output[s] - n) + (delivered[s] + n)
      BY <1>2, <1>4, <2>2, <2>3
    <3> QED BY <1>1, <2>1, <3>1
  <2> QED BY <1>2, <2>4, <2>5 DEF Conservation, o
<1>7. CASE n = output[s] /\ writecb(s, 0, [wpending EXCEPT ![s] = FALSE])
  <2>0. output[s] - n = 0
    BY <1>4, <1>7
  <2>1. output' = [output EXCEPT ![s] = 0]
    BY <1>0, <2>0
  <2> QED BY <1>1, <1>3, <1>5, <1>6, <1>7, <2>1, DrainedIInv
<1>8. CASE n < output[s] /\ UNCHANGED <<clientVars, ev_read, ev_write, wpending>>
  <2>1. TypeOK'
    BY <1>5, <1>8, <1>t DEF TypeOK, clientVars
  <2>2. ReadShut' /\ Events' /\ FreeReason'
    BY <1>1, <1>3, <1>8, <1>t DEF ReadShut, Events, FreeReason, Destroyed, clientVars
  <2>3. WriteShut'
    <3>1. ~shutdown_write[s]
      BY <1>1, <1>4, <1>8, <1>t DEF WriteShut
    <3>2. output'[o] = output[o]
      BY <1>0, <1>2, <1>t DEF TypeOK
    <3> QED BY <1>1, <1>2, <1>8, <1>t, <3>1, <3>2 DEF WriteShut, clientVars
  <2>4. NoLostWakeup'
    <3>1. output'[o] = output[o]
      BY <1>0, <1>2, <1>t DEF TypeOK
    <3> QED BY <1>1, <1>2, <1>3, <1>8, <1>t, <3>1 DEF NoLostWakeup, clientVars
  <2> QED BY <1>6, <2>1, <2>2, <2>3, <2>4 DEF IInv
<1> QED BY <1>0, <1>7, <1>8

(* A write event with nothing to write preserves the invariant. *)
LEMMA WriteIdleIInv ==
  ASSUME IInv, NEW s \in Side, bufferevent_write_idle(s)
  PROVE  IInv'
<1>t. TypeOK /\ Events /\ Conservation
  BY DEF IInv
<1>0. /\ wpending[s]
      /\ output[s] = 0
      /\ writecb(s, 0, [wpending EXCEPT ![s] = FALSE])
      /\ UNCHANGED <<sent, unread, delivered, fin, rst, sockerr, stalled,
                     input, output>>
  BY DEF bufferevent_write_idle, peerVars
<1>1. client_state = "client_pumping_data"
  BY <1>0, <1>t DEF Events
<1>2. output' = [output EXCEPT ![s] = 0]
  BY <1>0, <1>t DEF TypeOK
<1>3. PeersTypeOK' /\ Conservation' /\ input' \in [Side -> Nat]
  BY <1>0, <1>t DEF TypeOK, PeersTypeOK, Conservation
<1> QED BY <1>0, <1>1, <1>2, <1>3, DrainedIInv

(* A reset found by a read frees the client and preserves the invariant.   *)
LEMMA ReadErrorIInv ==
  ASSUME IInv, NEW s \in Side, bufferevent_read_error(s)
  PROVE  IInv'
<1>0. /\ rst[s]
      /\ OnError
      /\ sockerr' = [sockerr EXCEPT ![s] = FALSE]
      /\ UNCHANGED <<sent, unread, delivered, fin, rst, stalled, input, output>>
  BY EventcbCases DEF bufferevent_read_error, AtError, ReportError
<1>1. /\ transocks_client_free
      /\ UNCHANGED <<shutdown_read, shutdown_write, dropped>>
  BY <1>0 DEF OnError, transocks_bufferpump_free
<1>2. sockerr' \in [Side -> BOOLEAN] /\ dropped' \in BOOLEAN
  BY <1>0, <1>1 DEF IInv, TypeOK, PeersTypeOK
<1> QED BY <1>0, <1>1, <1>2, FreeIInv

(* A failed write either shuts down that write side or frees the client.   *)
LEMMA WriteErrorIInv ==
  ASSUME IInv, NEW s \in Side, bufferevent_write_error(s)
  PROVE  IInv'
<1> DEFINE sw == [shutdown_write EXCEPT ![s] = TRUE]
           ew == [ev_write EXCEPT ![s] = FALSE]
           wp == [wpending EXCEPT ![s] = FALSE]
<1>t. TypeOK /\ ReadShut /\ WriteShut /\ Events /\ NoLostWakeup /\ Conservation
  BY DEF IInv
<1>0. /\ wpending[s]
      /\ rst[s]
      /\ WriteBroken(s) \/ OnError
      /\ sockerr' = [sockerr EXCEPT ![s] = FALSE]
      /\ UNCHANGED <<sent, unread, delivered, fin, rst, stalled, input, output>>
  BY EventcbCases DEF bufferevent_write_error, ReportError
<1>1. sockerr' \in [Side -> BOOLEAN]
  BY <1>0, <1>t DEF TypeOK, PeersTypeOK
<1>2. CASE OnError
  <2>1. /\ transocks_client_free
        /\ UNCHANGED <<shutdown_read, shutdown_write, dropped>>
    BY <1>2 DEF OnError, transocks_bufferpump_free
  <2>2. dropped' \in BOOLEAN
    BY <2>1, <1>t DEF TypeOK
  <2> QED BY <1>0, <1>1, <2>1, <2>2, FreeIInv
<1>3. CASE WriteBroken(s)
  <2>1. CheckClose(shutdown_read, sw, ev_read, ew, wp)
    BY <1>3 DEF WriteBroken
  <2>2. client_state = "client_pumping_data"
    BY <1>0, <1>t DEF Events
  <2>3. /\ PeersTypeOK' /\ Conservation'
        /\ input' \in [Side -> Nat] /\ output' \in [Side -> Nat]
    BY <1>0, <1>1, <1>t DEF TypeOK, PeersTypeOK, Conservation
  <2>4. /\ shutdown_read \in [Side -> BOOLEAN] /\ ev_read \in [Side -> BOOLEAN]
        /\ sw \in [Side -> BOOLEAN] /\ ew \in [Side -> BOOLEAN]
        /\ wp \in [Side -> BOOLEAN]
    BY <1>t DEF TypeOK
  <2>5. /\ sw[s]
        /\ \A t \in Side \ {s} : /\ sw[t] <=> shutdown_write[t]
                                 /\ ew[t] <=> ev_write[t]
                                 /\ wp[t] <=> wpending[t]
    BY <1>t DEF TypeOK
  <2> HIDE DEF sw, ew, wp
  <2>6. /\ \A t \in Side : shutdown_read[t] =>
             (fin'[t] \/ rst'[t]) /\ unread'[t] = 0 /\ ~ev_read[t]
        /\ \A t \in Side : sw[t] =>
             (shutdown_read[Other(t)] /\ output'[t] = 0) \/ rst'[t]
    BY <1>0, <1>t, <2>5 DEF ReadShut, WriteShut
  <2>7. \A t \in Side : ew[t] \/ sw[t]
    BY <1>t, <2>2, <2>5 DEF Events
  <2>8. \A t \in Side : sw[t] \/ wp[t] \/ (output'[t] = 0 /\ ~shutdown_read[Other(t)])
    <3>1. \A t \in Side : \/ shutdown_write[t] \/ wpending[t]
                          \/ output[t] = 0 /\ ~shutdown_read[Other(t)]
      BY <1>t, <2>2 DEF NoLostWakeup
    <3> QED BY <1>0, <2>5, <3>1
  <2>9. GoesOn(shutdown_read, sw, ev_read, ew, wp)
    BY <2>4, <2>6, <2>7, <2>8 DEF GoesOn
  <2> QED BY <2>1, <2>2, <2>3, <2>9, CheckCloseIInv
<1> QED BY <1>0, <1>2, <1>3

(* Starting the pump preserves the invariant. *)
LEMMA StartIInv ==
  ASSUME IInv, transocks_start_pump
  PROVE  IInv'
<1> USE DEF IInv, transocks_start_pump, transocks_bufferpump_start_pump
<1>1. TypeOK'
  BY DEF TypeOK, PeersTypeOK, peerVars, ClientStates, AllTrue
<1>2. Conservation'
  BY DEF Conservation, peerVars
<1>3. ReadShut' /\ WriteShut' /\ Events'
  BY DEF ReadShut, WriteShut, Events, peerVars, AllTrue
<1>4. FreeReason' /\ NoLostWakeup'
  BY DEF FreeReason, NoLostWakeup, Destroyed, AllTrue
<1> QED BY <1>1, <1>2, <1>3, <1>4

(* A failed start and a local drop free the client and preserve it. *)
LEMMA DropIInv ==
  ASSUME IInv, start_pump_fails \/ transocks_pump_free
  PROVE  IInv'
<1>1. /\ transocks_client_free
      /\ dropped' = TRUE
      /\ UNCHANGED <<sent, unread, delivered, fin, rst, sockerr, stalled, input,
                     output, shutdown_read, shutdown_write>>
  BY DEF start_pump_fails, transocks_pump_free, transocks_bufferpump_free, peerVars
<1>2. sockerr' \in [Side -> BOOLEAN]
  BY <1>1 DEF IInv, TypeOK, PeersTypeOK
<1> QED BY <1>1, <1>2, FreeIInv

(* Every step of the pump and of its peers preserves the invariant. *)
LEMMA NextIInv == IInv /\ [Next]_vars => IInv'
<1> SUFFICES ASSUME IInv, [Next]_vars PROVE IInv'
  OBVIOUS
<1>1. CASE transocks_start_pump
  BY <1>1, StartIInv
<1>2. CASE start_pump_fails \/ transocks_pump_free
  BY <1>2, DropIInv
<1>3. ASSUME NEW s \in Side, PeerAction(s) PROVE IInv'
  BY <1>3, PeerStepIInv
<1>4. ASSUME NEW s \in Side, Readable(s) PROVE IInv'
  BY <1>4, ReadDataIInv, ReadEofIInv, ReadErrorIInv DEF Readable
<1>5. ASSUME NEW s \in Side, Writable(s) PROVE IInv'
  BY <1>5, WriteDataIInv, WriteIdleIInv, WriteErrorIInv DEF Writable
<1>6. CASE UNCHANGED vars
  BY <1>6 DEF IInv, TypeOK, PeersTypeOK, Conservation, ReadShut, WriteShut, Events,
              FreeReason, NoLostWakeup, Destroyed, Intact, vars, peerVars, bevVars,
              clientVars
<1> QED BY <1>1, <1>2, <1>3, <1>4, <1>5, <1>6 DEF Next

(* The inductive invariant holds in every reachable state. *)
THEOREM Invariance == Spec => []IInv
BY InitIInv, NextIInv, PTL DEF Spec

(* The state variables always have their types. *)
THEOREM TypeCorrect == Spec => []TypeOK
<1>1. IInv => TypeOK
  BY DEF IInv
<1> QED BY <1>1, Invariance, PTL

(* No byte is lost, duplicated or invented inside the proxy: each is in    *)
(* the kernel, in an input buffer, in an output buffer, or delivered.      *)
THEOREM Conserved == Spec => []Conservation
<1>1. IInv => Conservation
  BY DEF IInv
<1> QED BY <1>1, Invariance, PTL

(* A direction that is shut down has been passed on, and a client freed    *)
(* without a reset or a drop has both directions shut down.                *)
LEMMA ShutMeansPassedOn == IInv => FinAfterDrain /\ GracefulClose
<1>1. IInv => FinAfterDrain
  <2> SUFFICES ASSUME IInv, Intact, NEW s \in Side, shutdown_write[Other(s)]
               PROVE  fin[s] /\ delivered[Other(s)] + input[s] = sent[s]
    BY DEF FinAfterDrain
  <2>1. shutdown_read[s] /\ output[Other(s)] = 0
    BY OtherSide DEF IInv, WriteShut, Intact
  <2>2. fin[s]
    BY <2>1 DEF IInv, ReadShut, Intact
  <2>3. unread[s] = 0 /\ output[Other(s)] = 0
    BY <2>1 DEF IInv, ReadShut
  <2>4. /\ sent[s] = unread[s] + input[s] + output[Other(s)]
                        + delivered[Other(s)]
        /\ sent[s] \in Nat /\ unread[s] \in Nat /\ input[s] \in Nat
        /\ output[Other(s)] \in Nat /\ delivered[Other(s)] \in Nat
    BY StreamBytes
  <2>5. delivered[Other(s)] + input[s] = sent[s]
    BY <2>3, <2>4, StreamSum
  <2> QED BY <2>2, <2>5
<1>2. IInv /\ FinAfterDrain => GracefulClose
  BY OtherSide DEF IInv, FinAfterDrain, GracefulClose, FreeReason
<1> QED BY <1>1, <1>2

(* The FIN forwarded to one end follows the last byte of the other end's   *)
(* stream.                                                                 *)
THEOREM FinIsLast == Spec => []FinAfterDrain
BY ShutMeansPassedOn, Invariance, PTL

(* A connection that was neither reset nor dropped is destroyed only after *)
(* both streams have ended and been passed on.                             *)
THEOREM CloseIsGraceful == Spec => []GracefulClose
BY ShutMeansPassedOn, Invariance, PTL

(* A running pump with output queued, or with a FIN still owed, always has *)
(* a write event pending on that side.                                     *)
THEOREM WakeupsKept == Spec => []NoLostWakeup
<1>1. IInv => NoLostWakeup
  BY DEF IInv
<1> QED BY <1>1, Invariance, PTL

(* Nothing is written to a socket after its write side was shut down;      *)
(* nothing is taken from one, and no read event of it handled, after its   *)
(* read side was.                                                          *)
THEOREM ShutdownFinal == Spec => ShutdownIsFinal
<1> DEFINE Final == \A s \in Side :
                      /\ shutdown_write[s] => delivered'[s] = delivered[s]
                      /\ shutdown_read[s] => unread'[s] = unread[s] /\ ~Readable(s)
<1>1. IInv /\ [Next]_vars => [Final]_vars
  <2> SUFFICES ASSUME IInv, Next PROVE Final
    OBVIOUS
  <2> DEFINE WriteHalf == \A s \in Side : shutdown_write[s] => delivered'[s] = delivered[s]
             ReadHalf == \A s \in Side : shutdown_read[s] => unread'[s] = unread[s]
  <2>r. \A s \in Side : Readable(s) => ev_read[s]
    BY DEF Readable, bufferevent_read_data, bufferevent_read_eof, bufferevent_read_error
  <2>s. \A s \in Side : shutdown_read[s] => ~Readable(s)
    BY <2>r DEF IInv, ReadShut
  <2>1. CASE transocks_start_pump \/ start_pump_fails \/ transocks_pump_free
    BY <2>1, <2>s DEF transocks_start_pump, start_pump_fails, transocks_pump_free, peerVars
  <2>2. ASSUME NEW s \in Side, PeerAction(s) PROVE Final
    <3>1. WriteHalf
      BY <2>2 DEF PeerAction, PeerStep, PeerSend, PeerFin, PeerReset, PeerStall
    <3>2. ReadHalf
      <4>1. \A t \in Side : shutdown_read[t] => (fin[t] \/ rst[t]) /\ unread[t] = 0
        BY DEF IInv, ReadShut
      <4>2. CASE PeerSend(s)
        <5>1. /\ ~fin[s] /\ ~rst[s]
              /\ \A t \in Side \ {s} : unread'[t] = unread[t]
          BY <4>2 DEF PeerSend, IInv, TypeOK, PeersTypeOK
        <5> QED BY <4>1, <5>1
      <4>3. CASE PeerFin(s) \/ PeerStall(s)
        BY <4>3 DEF PeerFin, PeerStall
      <4>4. CASE PeerReset(s)
        BY <4>1, <4>4 DEF PeerReset, IInv, TypeOK, PeersTypeOK
      <4> QED BY <2>2, <4>2, <4>3, <4>4 DEF PeerAction, PeerStep
    <3> QED BY <2>s, <3>1, <3>2
  <2>3. ASSUME NEW s \in Side, Readable(s) PROVE Final
    <3>0. ~shutdown_read[s]
      BY <2>3, <2>s
    <3>1. delivered' = delivered
      BY <2>3 DEF Readable, bufferevent_read_data, bufferevent_read_eof,
                  bufferevent_read_error, peerVars
    <3>2. \A t \in Side \ {s} : unread'[t] = unread[t]
      BY <2>3 DEF Readable, bufferevent_read_data, bufferevent_read_eof, SocketRead,
                  bufferevent_read_error, peerVars, IInv, TypeOK, PeersTypeOK
    <3> QED BY <2>s, <3>0, <3>1, <3>2
  <2>4. ASSUME NEW s \in Side, Writable(s) PROVE Final
    <3>u. unread' = unread
      BY <2>4 DEF Writable, bufferevent_write_data, bufferevent_write_idle,
                  bufferevent_write_error, peerVars
    <3>1. CASE bufferevent_write_data(s)
      <4>1. /\ output[s] > 0 /\ ~rst[s]
            /\ \E n : delivered' = [delivered EXCEPT ![s] = @ + n]
        BY <3>1 DEF bufferevent_write_data, SocketWrite
      <4>2. ~shutdown_write[s]
        BY <4>1 DEF IInv, WriteShut, TypeOK
      <4>3. \A t \in Side \ {s} : delivered'[t] = delivered[t]
        BY <4>1 DEF IInv, TypeOK, PeersTypeOK
      <4> QED BY <2>s, <3>u, <4>2, <4>3
    <3>2. CASE bufferevent_write_idle(s) \/ bufferevent_write_error(s)
      BY <2>s, <3>u, <3>2 DEF bufferevent_write_idle, bufferevent_write_error, peerVars
    <3> QED BY <2>4, <3>1, <3>2 DEF Writable
  <2> QED BY <2>1, <2>2, <2>3, <2>4 DEF Next
<1> QED BY <1>1, Invariance, PTL DEF Spec, ShutdownIsFinal

-----------------------------------------------------------------------------
(***************************************************************************)
(* The loop never spins.  No callback adds an event that was not added,    *)
(* except that reading adds the write event of the other side; that is     *)
(* paid for by the bytes it has read.                                      *)
(***************************************************************************)
LEMMA WorkOfBoth ==
  ASSUME TypeOK, TypeOK', NEW s \in Side
  PROVE  /\ Work = WorkAt(s) + WorkAt(Other(s))
         /\ Work' = WorkAt(s)' + WorkAt(Other(s))'
         /\ WorkAt(s) \in Nat /\ WorkAt(Other(s)) \in Nat
         /\ WorkAt(s)' \in Nat /\ WorkAt(Other(s))' \in Nat
<1>1. WorkAt("client") \in Nat /\ WorkAt("relay") \in Nat
  BY DEF WorkAt, One, TypeOK, PeersTypeOK, Side
<1>2. WorkAt("client")' \in Nat /\ WorkAt("relay")' \in Nat
  BY DEF WorkAt, One, TypeOK, PeersTypeOK, Side
<1>3. CASE s = "client"
  BY <1>1, <1>2, <1>3 DEF Work, Other
<1>4. CASE s = "relay"
  BY <1>1, <1>2, <1>4 DEF Work, Other
<1> QED BY <1>3, <1>4 DEF Side

(* Neither side has more to do than before. *)
NoMoreWork ==
  \A t \in Side : /\ unread'[t] = unread[t] /\ input'[t] = input[t]
                  /\ output'[t] <= output[t]
                  /\ wpending'[t] => wpending[t]
                  /\ ev_read'[t] => ev_read[t]

(* Side s writes bytes or loses an event, and nothing is added. *)
LEMMA SomeWorkDone ==
  ASSUME TypeOK, TypeOK', NEW s \in Side, NoMoreWork,
         \/ output'[s] < output[s]
         \/ wpending[s] /\ ~wpending'[s]
         \/ ev_read[s] /\ ~ev_read'[s]
  PROVE  Work' < Work
<1>1. \A t \in Side : /\ unread[t] \in Nat /\ input[t] \in Nat /\ output[t] \in Nat
                      /\ output'[t] \in Nat
                      /\ wpending[t] \in BOOLEAN /\ wpending'[t] \in BOOLEAN
                      /\ ev_read[t] \in BOOLEAN /\ ev_read'[t] \in BOOLEAN
  BY DEF TypeOK, PeersTypeOK
<1>2. \A t \in Side : WorkAt(t)' <= WorkAt(t)
  BY <1>1 DEF NoMoreWork, WorkAt, One
<1>3. WorkAt(s)' < WorkAt(s)
  BY <1>1 DEF NoMoreWork, WorkAt, One
<1>4. Other(s) \in Side
  BY OtherSide
<1>5. /\ Work = WorkAt(s) + WorkAt(Other(s)) /\ Work' = WorkAt(s)' + WorkAt(Other(s))'
      /\ WorkAt(s) \in Nat /\ WorkAt(s)' \in Nat
      /\ WorkAt(Other(s)) \in Nat /\ WorkAt(Other(s))' \in Nat
  BY WorkOfBoth, Zenon
<1> QED BY <1>2, <1>3, <1>4, <1>5

(* CheckClose takes over the events it is given, or removes all of them. *)
LEMMA CheckCloseWork ==
  ASSUME NEW sr, NEW sw, NEW er, NEW ew, NEW wp, CheckClose(sr, sw, er, ew, wp),
         NEW t \in Side
  PROVE  /\ wpending'[t] => wp[t]
         /\ ev_read'[t] => er[t]
BY CheckCloseCases DEF transocks_client_free, AllFalse

(* Reading moves bytes to the other side, which is nearer to the end. *)
LEMMA ReadDataWork ==
  ASSUME IInv, IInv', NEW s \in Side, bufferevent_read_data(s)
  PROVE  Work' < Work
<1> DEFINE o == Other(s)
<1>o. o \in Side /\ o # s
  BY OtherSide
<1>1. PICK n : /\ n = Min(unread[s], BufSize - input[s]) /\ n > 0 /\ SocketRead(s, n)
               /\ MoveInput(s, n)
  BY ReadcbIsMove DEF bufferevent_read_data
<1>2. /\ unread \in [Side -> Nat] /\ input \in [Side -> Nat] /\ output \in [Side -> Nat]
      /\ wpending \in [Side -> BOOLEAN] /\ ev_read \in [Side -> BOOLEAN]
      /\ wpending' \in [Side -> BOOLEAN] /\ TypeOK /\ TypeOK'
  BY DEF IInv, TypeOK, PeersTypeOK
<1>3. n \in Nat /\ n <= unread[s]
  BY <1>1, <1>2, BufSizeAssumption DEF Min
<1>4. /\ unread'[s] = unread[s] - n /\ input'[s] = 0 /\ output'[s] = output[s]
      /\ wpending'[s] = wpending[s] /\ ev_read'[s] = ev_read[s]
  BY <1>o, <1>1, <1>2 DEF SocketRead, MoveInput
<1>5. /\ unread'[o] = unread[o] /\ input'[o] = input[o]
      /\ output'[o] = output[o] + input[s] + n /\ ev_read'[o] = ev_read[o]
  BY <1>o, <1>1, <1>2 DEF SocketRead, MoveInput
<1> DEFINE u == unread[s]
           i == input[s]
           e == output[s] + One(wpending[s]) + One(ev_read[s])
           f == 3 * (unread[o] + input[o]) + output[o] + One(ev_read[o])
<1>6. u \in Nat /\ i \in Nat /\ e \in Nat /\ f \in Nat
  BY <1>o, <1>2 DEF One
<1>7. WorkAt(s) = 3 * (u + i) + e /\ WorkAt(s)' = 3 * (u - n) + e
  BY <1>2, <1>3, <1>4 DEF WorkAt, One
<1>8. WorkAt(o) >= f /\ WorkAt(o)' <= f + i + n + 1
  <2> DEFINE w == One(wpending[o])
             v == One(wpending'[o])
             q == unread[o] + input[o]
             r == One(ev_read[o])
             p == output[o]
  <2>1. w \in 0 .. 1 /\ v \in 0 .. 1
    BY DEF One
  <2>2. q \in Nat /\ r \in Nat /\ p \in Nat
    BY <1>o, <1>2 DEF One
  <2>3. /\ WorkAt(o) = 3 * q + p + w + r
        /\ WorkAt(o)' = 3 * q + (p + i + n) + v + r
        /\ f = 3 * q + p + r
    BY <1>5 DEF WorkAt
  <2> HIDE DEF w, v, q, r, p, i, f
  <2> QED BY <1>3, <1>6, <2>1, <2>2, <2>3
<1>9. /\ Work = WorkAt(s) + WorkAt(o) /\ Work' = WorkAt(s)' + WorkAt(o)'
      /\ WorkAt(o) \in Nat /\ WorkAt(o)' \in Nat
  BY <1>2, WorkOfBoth, Zenon
<1> HIDE DEF u, i, e, f, o
<1> QED BY <1>1, <1>3, <1>6, <1>7, <1>8, <1>9

(* Reporting end-of-file or an error turns EV_READ off. *)
LEMMA ReadEndWork ==
  ASSUME IInv, IInv', NEW s \in Side, bufferevent_read_eof(s) \/ bufferevent_read_error(s)
  PROVE  Work' < Work
<1>1. /\ ev_read[s] /\ UNCHANGED <<unread, input, output>>
      /\ ReadEnded(s) \/ OnError
  BY EventcbCases DEF bufferevent_read_eof, bufferevent_read_error, peerVars
<1>2. TypeOK /\ TypeOK'
  BY DEF IInv
<1>3. \A t \in Side : /\ wpending'[t] => wpending[t]
                      /\ ev_read'[t] => ev_read[t] /\ t # s
  <2>1. CASE ReadEnded(s)
    <3> DEFINE sr == [shutdown_read EXCEPT ![s] = TRUE]
               sw == [shutdown_write EXCEPT ![Other(s)] = @ \/ output[Other(s)] = 0]
               er == [ev_read EXCEPT ![s] = FALSE]
    <3>1. CheckClose(sr, sw, er, ev_write, wpending)
      BY <2>1 DEF ReadEnded
    <3>2. \A t \in Side : er[t] => ev_read[t] /\ t # s
      BY <1>2 DEF TypeOK
    <3> HIDE DEF sr, sw, er
    <3>3. \A t \in Side : (wpending'[t] => wpending[t]) /\ (ev_read'[t] => er[t])
      BY <3>1, CheckCloseWork, Zenon
    <3> QED BY <3>2, <3>3
  <2>2. CASE OnError
    BY <2>2 DEF OnError, transocks_bufferpump_free, transocks_client_free, AllFalse
  <2> QED BY <1>1, <2>1, <2>2
<1>4. NoMoreWork
  BY <1>1, <1>2, <1>3 DEF NoMoreWork, TypeOK
<1> QED BY <1>1, <1>2, <1>3, <1>4, SomeWorkDone

(* The write callback leaves no event behind that was not there. *)
LEMMA WriteEvents ==
  ASSUME IInv, NEW s \in Side, writecb(s, 0, [wpending EXCEPT ![s] = FALSE])
  PROVE  \A t \in Side : /\ wpending'[t] => wpending[t] /\ t # s
                         /\ ev_read'[t] => ev_read[t]
<1> DEFINE sw == [shutdown_write EXCEPT ![s] = @ \/ (0 = 0 /\ shutdown_read[Other(s)])]
           wp == [wpending EXCEPT ![s] = FALSE]
<1>1. CheckClose(shutdown_read, sw, ev_read, ev_write, wp)
  BY WritecbIsPropagate DEF PropagateOnDrain
<1>2. \A t \in Side : wp[t] => wpending[t] /\ t # s
  BY DEF IInv, TypeOK
<1> HIDE DEF sw, wp
<1>3. \A t \in Side : (wpending'[t] => wp[t]) /\ (ev_read'[t] => ev_read[t])
  BY <1>1, CheckCloseWork, Zenon
<1> QED BY <1>2, <1>3

(* Writing takes bytes from the output buffer or the write event away. *)
LEMMA WriteWork ==
  ASSUME IInv, IInv', NEW s \in Side, Writable(s)
  PROVE  Work' < Work
<1>0. TypeOK /\ TypeOK'
  BY DEF IInv
<1>1. CASE bufferevent_write_data(s)
  <2>1. PICK n \in 1 .. output[s] :
          /\ output' = [output EXCEPT ![s] = @ - n]
          /\ \/ n = output[s] /\ writecb(s, 0, [wpending EXCEPT ![s] = FALSE])
             \/ n < output[s] /\ UNCHANGED <<ev_read, wpending>>
    BY <1>1 DEF bufferevent_write_data
  <2>2. \A t \in Side : /\ wpending'[t] => wpending[t]
                        /\ ev_read'[t] => ev_read[t]
    BY <2>1, WriteEvents
  <2>3. output'[s] < output[s] /\ \A t \in Side : output'[t] <= output[t]
    BY <1>0, <2>1 DEF TypeOK
  <2>4. NoMoreWork
    BY <1>1, <2>2, <2>3 DEF NoMoreWork, bufferevent_write_data
  <2> QED BY <1>0, <2>3, <2>4, SomeWorkDone
<1>2. CASE bufferevent_write_idle(s) \/ bufferevent_write_error(s)
  <2>1. wpending[s] /\ UNCHANGED <<unread, input, output>>
    BY <1>2 DEF bufferevent_write_idle, bufferevent_write_error, peerVars
  <2>2. \A t \in Side : /\ wpending'[t] => wpending[t] /\ t # s
                        /\ ev_read'[t] => ev_read[t]
    <3>1. CASE bufferevent_write_idle(s)
      BY <3>1, WriteEvents DEF bufferevent_write_idle
    <3>2. CASE WriteBroken(s)
      <4> DEFINE sw == [shutdown_write EXCEPT ![s] = TRUE]
                 ew == [ev_write EXCEPT ![s] = FALSE]
                 wp == [wpending EXCEPT ![s] = FALSE]
      <4>1. CheckClose(shutdown_read, sw, ev_read, ew, wp)
        BY <3>2 DEF WriteBroken
      <4>2. \A t \in Side : wp[t] => wpending[t] /\ t # s
        BY <1>0 DEF TypeOK
      <4> HIDE DEF sw, ew, wp
      <4>3. \A t \in Side : (wpending'[t] => wp[t]) /\ (ev_read'[t] => ev_read[t])
        BY <4>1, CheckCloseWork, Zenon
      <4> QED BY <4>2, <4>3
    <3>3. CASE OnError
      BY <3>3 DEF OnError, transocks_bufferpump_free, transocks_client_free, AllFalse
    <3>4. bufferevent_write_error(s) => WriteBroken(s) \/ OnError
      BY EventcbCases DEF bufferevent_write_error
    <3> QED BY <1>2, <3>1, <3>2, <3>3, <3>4
  <2>3. NoMoreWork
    BY <1>0, <2>1, <2>2 DEF NoMoreWork, TypeOK
  <2> QED BY <1>0, <2>1, <2>2, <2>3, SomeWorkDone
<1> QED BY <1>1, <1>2 DEF Writable

(* Every callback of bufferpump.c brings the loop nearer to having nothing *)
(* to do until a peer moves.                                               *)
THEOREM LoopNeverSpins == Spec => NeverSpins
<1>1. IInv /\ IInv' => ((\E s \in Side : Readable(s) \/ Writable(s)) => Work' < Work)
  BY ReadDataWork, ReadEndWork, WriteWork DEF Readable
<1>2. IInv /\ IInv' /\ [Next]_vars =>
        [(\E s \in Side : Readable(s) \/ Writable(s)) => Work' < Work]_vars
  BY <1>1
<1> QED BY <1>2, Invariance, PTL DEF Spec, NeverSpins

-----------------------------------------------------------------------------
(***************************************************************************)
(* When no callback is due, nothing is owed.  Beyond IInv this needs that  *)
(* a side is read until its end has been seen, that an input buffer is     *)
(* never at the high watermark, where libevent would stop reading, and     *)
(* that a client all of whose flags are set does not stay.                 *)
(***************************************************************************)
Attentive ==
  /\ \A s \in Side : input[s] < BufSize
  /\ client_state = "client_pumping_data" =>
       /\ \A s \in Side : ev_read[s] \/ shutdown_read[s]
       /\ ~transocks_check_close(shutdown_read, shutdown_write)

(* The close check leaves only clients it need not free. *)
LEMMA CheckCloseAttentive ==
  ASSUME Attentive, UNCHANGED input, NEW sr, NEW sw, NEW er, NEW ew, NEW wp,
         CheckClose(sr, sw, er, ew, wp), \A t \in Side : er[t] \/ sr[t]
  PROVE  Attentive'
BY DEF CheckClose, transocks_check_close, transocks_bufferpump_free, transocks_client_free,
       Attentive

LEMMA FreeAttentive ==
  ASSUME Attentive, UNCHANGED input, transocks_client_free
  PROVE  Attentive'
BY DEF Attentive, transocks_client_free

(* The read callback takes all of the input buffer; at the end of a stream *)
(* EV_READ goes off with the flag set.                                     *)
LEMMA ReadableAttentive ==
  ASSUME IInv, Attentive, NEW s \in Side, Readable(s)
  PROVE  Attentive'
<1>t. input \in [Side -> Nat] /\ ev_read \in [Side -> BOOLEAN] /\ 0 < BufSize
      /\ shutdown_read \in [Side -> BOOLEAN]
  BY BufSizeAssumption DEF IInv, TypeOK
<1>p. client_state = "client_pumping_data"
  BY DEF Readable, bufferevent_read_data, bufferevent_read_eof, bufferevent_read_error, IInv,
         Events
<1>1. CASE bufferevent_read_data(s)
  <2>1. \E n : MoveInput(s, n)
    BY <1>1, ReadcbIsMove DEF bufferevent_read_data
  <2> QED BY <1>t, <2>1 DEF MoveInput, clientVars, Attentive, transocks_check_close
<1>2. CASE bufferevent_read_eof(s)
  <2> DEFINE sr == [shutdown_read EXCEPT ![s] = TRUE]
             sw == [shutdown_write EXCEPT ![Other(s)] = @ \/ output[Other(s)] = 0]
             er == [ev_read EXCEPT ![s] = FALSE]
  <2>1. CheckClose(sr, sw, er, ev_write, wpending) /\ UNCHANGED input
    BY <1>2, EventcbCases DEF bufferevent_read_eof, ReadEnded
  <2>2. \A t \in Side : er[t] \/ sr[t]
    BY <1>p, <1>t DEF Attentive
  <2> HIDE DEF sr, sw, er
  <2> QED BY <2>1, <2>2, CheckCloseAttentive
<1>3. CASE bufferevent_read_error(s)
  BY <1>3, EventcbCases, FreeAttentive DEF bufferevent_read_error, OnError,
     transocks_bufferpump_free
<1> QED BY <1>1, <1>2, <1>3 DEF Readable

LEMMA WritableAttentive ==
  ASSUME IInv, Attentive, NEW s \in Side, Writable(s)
  PROVE  Attentive'
<1>p. client_state = "client_pumping_data" /\ UNCHANGED input
  BY DEF Writable, bufferevent_write_data, bufferevent_write_idle, bufferevent_write_error, IInv,
         Events
<1>e. \A t \in Side : ev_read[t] \/ shutdown_read[t]
  BY <1>p DEF Attentive
<1>w. \A left, wp : writecb(s, left, wp) => Attentive'
  BY <1>p, <1>e, WritecbIsPropagate, CheckCloseAttentive DEF PropagateOnDrain
<1>1. CASE bufferevent_write_data(s)
  <2>1. \/ writecb(s, 0, [wpending EXCEPT ![s] = FALSE])
        \/ UNCHANGED <<clientVars, ev_read>>
    BY <1>1 DEF bufferevent_write_data
  <2> QED BY <1>p, <1>w, <2>1 DEF Attentive, clientVars, transocks_check_close
<1>2. CASE bufferevent_write_idle(s)
  BY <1>w, <1>2 DEF bufferevent_write_idle
<1>3. CASE bufferevent_write_error(s)
  <2>1. WriteBroken(s) \/ OnError
    BY <1>3, EventcbCases DEF bufferevent_write_error
  <2>2. CASE WriteBroken(s)
    BY <1>p, <1>e, <2>2, CheckCloseAttentive DEF WriteBroken
  <2>3. CASE OnError
    BY <1>p, <2>3, FreeAttentive DEF OnError, transocks_bufferpump_free
  <2> QED BY <2>1, <2>2, <2>3
<1> QED BY <1>1, <1>2, <1>3 DEF Writable

LEMMA NextAttentive == IInv /\ Attentive /\ [Next]_vars => Attentive'
<1> SUFFICES ASSUME IInv, Attentive, [Next]_vars PROVE Attentive'
  OBVIOUS
<1>1. CASE transocks_start_pump
  <2>1. ~shutdown_read["client"]
    BY <1>1 DEF transocks_start_pump, IInv, Events, Side
  <2> QED BY <1>1, <2>1 DEF transocks_start_pump, transocks_bufferpump_start_pump, Attentive,
       AllTrue, transocks_check_close, Side
<1>2. CASE start_pump_fails \/ transocks_pump_free
  BY <1>2, FreeAttentive DEF start_pump_fails, transocks_pump_free, transocks_bufferpump_free
<1>3. CASE (\E s \in Side : PeerAction(s)) \/ UNCHANGED vars
  BY <1>3 DEF PeerAction, vars, bevVars, clientVars, Attentive, transocks_check_close
<1> QED BY <1>1, <1>2, <1>3, ReadableAttentive, WritableAttentive DEF Next

(* What IInv and Attentive say of a quiet pump. *)
LEMMA QuietDone == IInv /\ Attentive => QuietIsDone
<1> SUFFICES ASSUME IInv, Attentive, client_state = "client_pumping_data",
                    \A s \in Side : ~ReadDue(s) /\ ~WriteDue(s)
             PROVE  /\ \A s \in Side : fin[s] => shutdown_write[Other(s)] \/ stalled[Other(s)]
                    /\ (\A s \in Side : fin[s] \/ rst[s]) => \E s \in Side : stalled[s]
  BY DEF QuietIsDone
<1>1. ASSUME NEW s \in Side, fin[s] \/ rst[s]
      PROVE  shutdown_read[s]
  <2>1. unread[s] \in Nat /\ input[s] < BufSize
    BY DEF IInv, TypeOK, PeersTypeOK, Attentive
  <2>2. unread[s] = 0 => AtEof(s) \/ AtError(s)
    <3>1. CASE rst[s]
      BY <3>1, Zenon DEF AtEof, AtError
    <3>2. CASE ~rst[s]
      BY <1>1, <3>2, Zenon DEF AtEof
    <3> QED BY <3>1, <3>2
  <2>3. ~ev_read[s]
    BY <2>1, <2>2 DEF ReadDue
  <2> QED BY <2>3 DEF Attentive
<1>2. ASSUME NEW s \in Side, shutdown_read[s]
      PROVE  shutdown_write[Other(s)] \/ stalled[Other(s)]
  <2>1. Other(s) \in Side /\ Other(Other(s)) = s
    BY OtherSide
  <2>2. shutdown_write[Other(s)] \/ wpending[Other(s)]
    BY <1>2, <2>1 DEF IInv, NoLostWakeup
  <2> QED BY <2>1, <2>2 DEF WriteDue
<1>3. (\A s \in Side : shutdown_read[s]) => \E s \in Side : stalled[s]
  <2> SUFFICES ASSUME \A s \in Side : shutdown_read[s], \A s \in Side : ~stalled[s]
               PROVE  FALSE
    OBVIOUS
  <2>1. \A s \in Side : shutdown_write[Other(s)]
    BY <1>2, OtherSide
  <2>2. \A s \in Side : shutdown_write[s]
    BY <2>1 DEF Side, Other
  <2> QED BY <2>2 DEF Attentive, transocks_check_close
<1> QED BY <1>1, <1>2, <1>3

(***************************************************************************)
(* A pump with no callback due has passed on every end it has seen and     *)
(* freed every client it should have: nothing in bufferpump.c waits for an *)
(* event that is not coming.                                               *)
(***************************************************************************)
THEOREM QuietMeansDone == Spec => []QuietIsDone
<1>1. Init => Attentive
  BY LeftoversAssumption, BufSizeAssumption DEF Init, Attentive, AllZero, Side
<1> QED BY <1>1, NextAttentive, QuietDone, Invariance, PTL DEF Spec

-----------------------------------------------------------------------------
(***************************************************************************)
(* Refinement.  A pump that starts with empty input buffers implements     *)
(* StreamRelay: reads are invisible, a write is a Forward to that end, an  *)
(* end-of-file is a Forward to the other end, an error an Abort.           *)
(***************************************************************************)
NoInput == input = AllZero

(* With no input left over, a stream read to its end is queued or delivered. *)
LEMMA DrainedBytes ==
  ASSUME IInv, NoInput, NEW s \in Side, unread[s] = 0
  PROVE  /\ sent[s] = delivered[Other(s)] + output[Other(s)]
         /\ output[Other(s)] = 0 => delivered[Other(s)] = sent[s]
<1>1. input[s] = 0
  BY DEF NoInput, AllZero
<1> DEFINE d == delivered[Other(s)]
           q == output[Other(s)]
<1>2. /\ sent[s] = unread[s] + input[s] + q + d
      /\ sent[s] \in Nat /\ unread[s] \in Nat /\ input[s] \in Nat
      /\ q \in Nat /\ d \in Nat
  BY StreamBytes
<1> HIDE DEF d, q
<1>3. sent[s] = d + q /\ (q = 0 => d = sent[s])
  BY <1>1, <1>2
<1> QED BY <1>3 DEF d, q

(* The read callback empties the input buffer: what it finds there was left
   by the handshake, and if nothing was, the buffer is always empty. *)
LEMMA NoInputInductive ==
  ASSUME Leftovers = {0}
  PROVE  /\ Init => NoInput
         /\ IInv /\ NoInput /\ [Next]_vars => NoInput'
<1>1. Init => NoInput
  BY DEF Init, NoInput, AllZero, Side
<1>2. ASSUME IInv, NoInput, Next PROVE NoInput'
  <2>1. ASSUME NEW s \in Side, bufferevent_read_data(s) PROVE NoInput'
    <3>1. \E n : MoveInput(s, n)
      BY <2>1, ReadcbIsMove DEF bufferevent_read_data
    <3> QED BY <1>2, <3>1 DEF MoveInput, NoInput, AllZero
  <2>2. (\A s \in Side : ~bufferevent_read_data(s)) => input' = input
    BY <1>2 DEF Next, transocks_start_pump, transocks_bufferpump_start_pump,
         start_pump_fails, transocks_pump_free, PeerAction, Readable, Writable,
         bufferevent_read_eof, bufferevent_read_error, bufferevent_write_data,
         bufferevent_write_idle, bufferevent_write_error, bevVars
  <2> QED BY <1>2, <2>1, <2>2 DEF NoInput
<1>3. IInv /\ NoInput /\ UNCHANGED vars => NoInput'
  BY DEF NoInput, vars, bevVars
<1> QED BY <1>1, <1>2, <1>3

(* The names of StreamRelay for the two ends are those of Peers. *)
LEMMA RelayNames ==
  /\ Relay!End = Side
  /\ \A s : Relay!Peer(s) = Other(s)
BY DEF Relay!End, Relay!Peer, Side, Other

(***************************************************************************)
(* A step that delivers d towards end s, sets the write-shutdown flags to  *)
(* sw and ends in CheckClose is a Forward(s), if sw only adds s and only   *)
(* when the stream to s is complete or the connection broken.              *)
(***************************************************************************)
LEMMA ForwardStep ==
  ASSUME IInv, NEW s \in Side, client_state = "client_pumping_data",
         NEW sr, NEW sw, NEW er, NEW ew, NEW wp,
         CheckClose(sr, sw, er, ew, wp),
         \/ delivered' = delivered
         \/ /\ ~shutdown_write[s]
            /\ \E n \in 1 .. (sent[Other(s)] - delivered[s]) :
                 delivered' = [delivered EXCEPT ![s] = @ + n],
         \/ sw = shutdown_write
         \/ /\ \/ fin[Other(s)] /\ delivered'[s] = sent[Other(s)]
               \/ \E t \in Side : rst[t]
            /\ sw = [shutdown_write EXCEPT ![s] = TRUE],
         UNCHANGED <<sent, fin, rst>>
  PROVE  Relay!Forward(s)
<1>1. /\ shutdown_read' = sr /\ shutdown_write' = sw /\ dropped' = dropped
      /\ \/ /\ \A t \in Side : sr[t] /\ sw[t]
            /\ transocks_client_free
         \/ /\ client_state' = client_state
            /\ ev_read' = er /\ ev_write' = ew /\ wpending' = wp
  BY CheckCloseCases
<1>2. ~Destroyed
  BY DEF Destroyed
<1>3. \/ Destroyed' = Destroyed
      \/ Relay!MayClose /\ Destroyed' = TRUE
  BY <1>1, RelayNames DEF Relay!MayClose, Destroyed, transocks_client_free
<1>4. \/ shutdown_write' = shutdown_write
      \/ /\ Relay!Complete(s) \/ Relay!Broken
         /\ shutdown_write' = [shutdown_write EXCEPT ![s] = TRUE]
  BY <1>1, RelayNames DEF Relay!Complete, Relay!Broken
<1> QED BY <1>1, <1>2, <1>3, <1>4, RelayNames DEF Relay!Forward

(* Reading is invisible, or a Forward of end-of-file, or an Abort. *)
LEMMA ReadableRefines ==
  ASSUME IInv, NoInput, NEW s \in Side, Readable(s)
  PROVE  [Relay!RelayNext]_(Relay!relayVars)
<1>o. Other(s) \in Side /\ Other(Other(s)) = s
  BY OtherSide
<1>1. CASE bufferevent_read_data(s)
  <2>1. \E n : MoveInput(s, n)
    BY <1>1, ReadcbIsMove DEF bufferevent_read_data
  <2> QED BY <1>1, <2>1 DEF bufferevent_read_data, MoveInput, clientVars,
                            Relay!relayVars, Destroyed
<1>2. CASE bufferevent_read_eof(s)
  <2> DEFINE o  == Other(s)
             sr == [shutdown_read EXCEPT ![s] = TRUE]
             sw == [shutdown_write EXCEPT ![o] = @ \/ output[o] = 0]
             er == [ev_read EXCEPT ![s] = FALSE]
  <2>1. /\ ev_read[s]
        /\ AtEof(s)
        /\ CheckClose(sr, sw, er, ev_write, wpending)
        /\ UNCHANGED <<sent, delivered, fin, rst>>
    BY <1>2, EventcbCases DEF bufferevent_read_eof, ReadEnded, peerVars
  <2>2. client_state = "client_pumping_data"
    BY <2>1 DEF IInv, Events
  <2>3. \/ sw = shutdown_write
        \/ output[o] = 0 /\ sw = [shutdown_write EXCEPT ![o] = TRUE]
    BY <1>o DEF IInv, TypeOK
  <2>4. output[o] = 0 /\ ~rst[s] => fin[s] /\ delivered[o] = sent[s]
    <3>1. unread[s] = 0 /\ (~rst[s] => fin[s])
      BY <2>1 DEF AtEof
    <3>2. output[o] = 0 => delivered[o] = sent[s]
      BY <3>1, DrainedBytes
    <3> QED BY <3>1, <3>2
  <2>5. \/ sw = shutdown_write
        \/ /\ \/ fin[Other(o)] /\ delivered'[o] = sent[Other(o)]
              \/ \E t \in Side : rst[t]
           /\ sw = [shutdown_write EXCEPT ![o] = TRUE]
    BY <1>o, <2>1, <2>3, <2>4
  <2> HIDE DEF sr, sw, er
  <2>6. Relay!Forward(o)
    BY <1>o, <2>1, <2>2, <2>5, ForwardStep
  <2> QED BY <1>o, <2>6, RelayNames DEF Relay!RelayNext
<1>3. CASE bufferevent_read_error(s)
  <2>1. /\ ev_read[s] /\ rst[s] /\ OnError
        /\ UNCHANGED <<sent, delivered, fin, rst>>
    BY <1>3, EventcbCases DEF bufferevent_read_error, AtError
  <2>2. client_state = "client_pumping_data"
    BY <2>1 DEF IInv, Events
  <2>3. Relay!Abort
    BY <2>1, <2>2, RelayNames DEF Relay!Abort, Relay!Broken, Destroyed, OnError,
         transocks_bufferpump_free, transocks_client_free
  <2> QED BY <2>3 DEF Relay!RelayNext
<1> QED BY <1>1, <1>2, <1>3 DEF Readable

(* A drained output buffer: the write callback forwards the FIN if the     *)
(* source has ended, which is a Forward(s) together with the delivery.     *)
LEMMA DrainedRefines ==
  ASSUME IInv, NoInput, NEW s \in Side, client_state = "client_pumping_data",
         writecb(s, 0, [wpending EXCEPT ![s] = FALSE]),
         \/ output[s] = 0 /\ delivered' = delivered
         \/ /\ output[s] > 0 /\ ~shutdown_write[s]
            /\ delivered' = [delivered EXCEPT ![s] = @ + output[s]],
         UNCHANGED <<sent, fin, rst>>
  PROVE  Relay!Forward(s)
<1> DEFINE o  == Other(s)
           sw == [shutdown_write EXCEPT ![s] = @ \/ (0 = 0 /\ shutdown_read[o])]
           wp == [wpending EXCEPT ![s] = FALSE]
<1>o. o \in Side /\ Other(o) = s
  BY OtherSide
<1>0. CheckClose(shutdown_read, sw, ev_read, ev_write, wp)
  BY WritecbIsPropagate DEF PropagateOnDrain
<1>1. /\ output[s] \in Nat /\ delivered[s] \in Nat
      /\ delivered \in [Side -> Nat]
  BY DEF IInv, TypeOK, PeersTypeOK
<1>2. delivered'[s] = delivered[s] + output[s]
  <2>1. CASE output[s] = 0 /\ delivered' = delivered
    BY <1>1, <2>1
  <2>2. CASE delivered' = [delivered EXCEPT ![s] = @ + output[s]]
    BY <1>1, <2>2
  <2> QED BY <2>1, <2>2
<1>3. \/ delivered' = delivered
      \/ /\ ~shutdown_write[s]
         /\ \E n \in 1 .. (sent[o] - delivered[s]) :
              delivered' = [delivered EXCEPT ![s] = @ + n]
  <2>1. output[s] > 0 => output[s] \in 1 .. (sent[o] - delivered[s])
    BY WriteRoom
  <2> QED BY <2>1
<1>4. \/ sw = shutdown_write
      \/ /\ \/ fin[o] /\ delivered'[s] = sent[o]
            \/ \E t \in Side : rst[t]
         /\ sw = [shutdown_write EXCEPT ![s] = TRUE]
  <2>1. CASE shutdown_read[o]
    <3>1. (fin[o] \/ rst[o]) /\ unread[o] = 0
      BY <1>o, <2>1 DEF IInv, ReadShut
    <3>2. delivered'[s] = sent[o]
      <4>1. sent[o] = delivered[s] + output[s]
        BY <1>o, <3>1, DrainedBytes
      <4> QED BY <1>2, <4>1
    <3>3. sw = [shutdown_write EXCEPT ![s] = TRUE]
      BY <2>1 DEF IInv, TypeOK
    <3> QED BY <1>o, <3>1, <3>2, <3>3
  <2>2. CASE ~shutdown_read[o]
    BY <2>2 DEF IInv, TypeOK
  <2> QED BY <2>1, <2>2
<1> HIDE DEF sw, wp
<1> QED BY <1>0, <1>3, <1>4, ForwardStep

(* Writing is a Forward to that end, or an Abort. *)
LEMMA WritableRefines ==
  ASSUME IInv, NoInput, NEW s \in Side, Writable(s)
  PROVE  [Relay!RelayNext]_(Relay!relayVars)
<1>p. client_state = "client_pumping_data"
  BY DEF Writable, bufferevent_write_data, bufferevent_write_idle,
         bufferevent_write_error, IInv, Events
<1>f. Relay!Forward(s) => [Relay!RelayNext]_(Relay!relayVars)
  BY RelayNames DEF Relay!RelayNext
<1>1. CASE bufferevent_write_data(s)
  <2>1. PICK n \in 1 .. output[s] :
          /\ delivered' = [delivered EXCEPT ![s] = @ + n]
          /\ \/ n = output[s] /\ writecb(s, 0, [wpending EXCEPT ![s] = FALSE])
             \/ n < output[s] /\ UNCHANGED clientVars
    BY <1>1 DEF bufferevent_write_data, SocketWrite
  <2>2. /\ output[s] > 0 /\ ~rst[s]
        /\ UNCHANGED <<sent, fin, rst>>
    BY <1>1 DEF bufferevent_write_data
  <2>3. ~shutdown_write[s]
    BY <2>2 DEF IInv, WriteShut, TypeOK
  <2>4. CASE n = output[s] /\ writecb(s, 0, [wpending EXCEPT ![s] = FALSE])
    BY <1>p, <1>f, <2>1, <2>2, <2>3, <2>4, DrainedRefines
  <2>5. CASE n < output[s] /\ UNCHANGED clientVars
    <3>1. n \in 1 .. (sent[Other(s)] - delivered[s])
      <4>1. \A k \in 1 .. output[s] : k \in 1 .. (sent[Other(s)] - delivered[s])
        BY OtherSide, WriteRoom
      <4> QED BY <2>1, <4>1
    <3>2. Relay!Forward(s)
      BY <1>p, <2>1, <2>2, <2>3, <2>5, <3>1, RelayNames
         DEF Relay!Forward, Destroyed, clientVars
    <3> QED BY <1>f, <3>2
  <2> QED BY <2>1, <2>4, <2>5
<1>2. CASE bufferevent_write_idle(s)
  <2>1. /\ output[s] = 0
        /\ writecb(s, 0, [wpending EXCEPT ![s] = FALSE])
        /\ UNCHANGED <<sent, delivered, fin, rst>>
    BY <1>2 DEF bufferevent_write_idle, peerVars
  <2> QED BY <1>p, <1>f, <2>1, DrainedRefines
<1>3. CASE bufferevent_write_error(s)
  <2>1. /\ rst[s]
        /\ WriteBroken(s) \/ OnError
        /\ UNCHANGED <<sent, delivered, fin, rst>>
    BY <1>3, EventcbCases DEF bufferevent_write_error
  <2>2. CASE OnError
    <3>1. Relay!Abort
      BY <1>p, <2>1, <2>2, RelayNames DEF Relay!Abort, Relay!Broken, Destroyed,
           OnError, transocks_bufferpump_free, transocks_client_free
    <3> QED BY <3>1 DEF Relay!RelayNext
  <2>3. CASE WriteBroken(s)
    <3>1. Relay!Forward(s)
      BY <1>p, <2>1, <2>3, ForwardStep DEF WriteBroken
    <3> QED BY <1>f, <3>1
  <2> QED BY <2>1, <2>2, <2>3
<1> QED BY <1>1, <1>2, <1>3 DEF Writable

(* The peers' own steps, and starting or dropping the pump. *)
LEMMA OtherStepsRefine ==
  ASSUME IInv, \/ transocks_start_pump \/ start_pump_fails \/ transocks_pump_free
               \/ \E s \in Side : PeerAction(s)
  PROVE  [Relay!RelayNext]_(Relay!relayVars)
<1>1. CASE transocks_start_pump
  BY <1>1 DEF transocks_start_pump, transocks_bufferpump_start_pump, peerVars,
              Relay!relayVars, Destroyed
<1>2. CASE start_pump_fails \/ transocks_pump_free
  <2>1. Relay!Drop
    BY <1>2 DEF Relay!Drop, start_pump_fails, transocks_pump_free, Destroyed,
         transocks_bufferpump_free, transocks_client_free, peerVars
  <2> QED BY <2>1 DEF Relay!RelayNext
<1>3. ASSUME NEW s \in Side, PeerAction(s)
      PROVE  [Relay!RelayNext]_(Relay!relayVars)
  <2>1. /\ ~Destroyed
        /\ UNCHANGED <<delivered, shutdown_write, dropped>>
        /\ Destroyed' = Destroyed
        /\ PeerStep(s)
    BY <1>3 DEF PeerAction, PeerStep, PeerSend, PeerFin, PeerReset, PeerStall,
                Destroyed, clientVars
  <2>2. CASE PeerStall(s)
    BY <2>1, <2>2 DEF PeerStall, Relay!relayVars
  <2>3. CASE PeerSend(s) \/ PeerFin(s) \/ PeerReset(s)
    <3>1. Relay!EndStep(s)
      BY <2>1, <2>3 DEF PeerSend, PeerFin, PeerReset, Relay!EndStep
    <3> QED BY <3>1, RelayNames DEF Relay!RelayNext
  <2> QED BY <2>1, <2>2, <2>3 DEF PeerStep
<1> QED BY <1>1, <1>2, <1>3

(***************************************************************************)
(* The buffer pump implements StreamRelay with half-close, provided the    *)
(* handshake leaves no payload in relay_bev's input buffer.                *)
(***************************************************************************)
THEOREM PumpRefinesRelay ==
  ASSUME Leftovers = {0}
  PROVE  Spec => RelaySpec
<1>1. Init => Relay!RelayInit
  BY RelayNames DEF Init, PeersInit, Relay!RelayInit, AllZero, AllFalse, Side,
       Destroyed
<1>2. IInv /\ NoInput /\ [Next]_vars => [Relay!RelayNext]_(Relay!relayVars)
  <2>1. ASSUME IInv, NoInput, Next PROVE [Relay!RelayNext]_(Relay!relayVars)
    BY <2>1, ReadableRefines, WritableRefines, OtherStepsRefine DEF Next
  <2>2. UNCHANGED vars => UNCHANGED Relay!relayVars
    BY DEF vars, peerVars, clientVars, Relay!relayVars, Destroyed
  <2> QED BY <2>1, <2>2
<1>3. Spec => []NoInput
  BY NoInputInductive, Invariance, PTL DEF Spec
<1> QED BY <1>1, <1>2, <1>3, Invariance, PTL DEF Spec, RelaySpec, Relay!RelaySpec
=============================================================================
