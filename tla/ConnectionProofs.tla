-------------------------- MODULE ConnectionProofs --------------------------
(***************************************************************************)
(* Proofs about Connection: the invariant of the pump and that of the      *)
(* handshake hold together, from the accept to the free.                   *)
(***************************************************************************)
EXTENDS Connection, BufferPumpProofs

HP == INSTANCE Socks5Proofs WITH
        PumpMethods <- {"bufferpump"}, pump_method <- "bufferpump",
        client_state <- h_state, on_read <- h_on_read, ev_read <- h_ev_read,
        input <- h_input

(* The handshake of Connection is the one Socks5Proofs is about. *)
LEMMA SameHandshake ==
  /\ H!Init => HP!Init
  /\ H!Next => HP!Next
  /\ H!Pumping <=> HP!Pumping
  /\ H!Destroyed <=> HP!Destroyed
<1>1. H!Init => HP!Init
  BY DEF H!Init, HP!Init
<1>2. (H!Pumping <=> HP!Pumping) /\ (H!Destroyed <=> HP!Destroyed)
  BY DEF H!Pumping, HP!Pumping, H!Destroyed, HP!Destroyed
<1>3. H!Next => HP!Next
  BY Zenon DEF H!Next, HP!Next, H!BufferEvent, HP!BufferEvent, H!ServerStep, HP!ServerStep,
    H!ServerHangsUp, HP!ServerHangsUp, H!ServerSendsPayload,
    HP!ServerSendsPayload, H!ServerReplies, HP!ServerReplies,
    H!ServerSelectsMethod, HP!ServerSelectsMethod,
    H!transocks_drop_all_clients, HP!transocks_drop_all_clients,
    H!socks5_timeout_cb, HP!socks5_timeout_cb, H!socks_handshake_stage_errcb,
    HP!socks_handshake_stage_errcb, H!bufferevent_read, HP!bufferevent_read,
    H!socks_on_server_connect_reply_readcb,
    HP!socks_on_server_connect_reply_readcb, H!StartPumpFails,
    HP!StartPumpFails, H!StartPump, HP!StartPump, H!Min, HP!Min, H!DrainLen,
    HP!DrainLen, H!read_high, HP!read_high, H!ReplyAccepted, HP!ReplyAccepted, H!Header, HP!Header,
    H!socks_on_server_selected_method_readcb,
    HP!socks_on_server_selected_method_readcb, H!MethodAccepted,
    HP!MethodAccepted, H!send_connect_request_fails,
    HP!send_connect_request_fails, H!socks_send_connect_request,
    HP!socks_send_connect_request, H!relay_onconnect_eventcb,
    HP!relay_onconnect_eventcb, H!OnConnectError, HP!OnConnectError,
    H!OnConnected, HP!OnConnected, H!socks_send_method_selection,
    HP!socks_send_method_selection, H!start_connect_relay_fails_connect,
    HP!start_connect_relay_fails_connect, H!start_connect_relay_fails_local,
    HP!start_connect_relay_fails_local, H!transocks_start_connect_relay,
    HP!transocks_start_connect_relay, H!NullTimer, HP!NullTimer,
    H!transocks_client_set_timeout, HP!transocks_client_set_timeout,
    H!transocks_client_free, HP!transocks_client_free, H!bevVars, HP!bevVars,
    H!serverVars, HP!serverVars, H!outcomeVars, HP!outcomeVars, H!Pumping,
    HP!Pumping, H!MaxWire, HP!MaxWire, H!MethodReplyLen, HP!MethodReplyLen,
    H!ConnectReplyLen, HP!ConnectReplyLen
<1> QED BY <1>1, <1>2, <1>3

-----------------------------------------------------------------------------
(* How the two parts of the client go together.  Until the pump starts,    *)
(* nothing has passed; a client freed by the handshake counts as dropped;  *)
(* once the pump runs, the input buffer of relay_bev holds what the        *)
(* handshake left there or nothing, that of client_bev always nothing.     *)
Together ==
  /\ h_state \notin {"client_pumping_data", "client_DESTROYED"} =>
       client_state = "client_socks5_finish_handshake"
  /\ h_state = "client_DESTROYED" => Destroyed /\ dropped
  /\ h_state # "client_pumping_data" =>
       /\ delivered = AllZero /\ output = AllZero
       /\ shutdown_read = AllFalse /\ shutdown_write = AllFalse
       /\ ~fin["relay"] /\ ~rst["relay"]
  /\ h_state = "client_pumping_data" =>
       /\ client_state # "client_socks5_finish_handshake"
       /\ sent["relay"] >= payload
       /\ input["relay"] \in {0, leftover}
  /\ input["client"] = 0

CInv == IInv /\ HP!HInv /\ Together

(* An accepted client. *)
LEMMA InitCInv == ConnInit => CInv
<1> SUFFICES ASSUME ConnInit PROVE CInv
  OBVIOUS
<1>1. IInv
  BY InitIInv DEF ConnInit
<1>2. HP!HInv
  BY SameHandshake, HP!InitHInv, MethodRepliesAssumption, ConnectRepliesAssumption,
     PayloadAssumption, WatermarkAssumption DEF ConnInit
<1>3. Together
  BY DEF ConnInit, Init, PeersInit, H!Init, Together, AllZero, AllFalse, Side
<1> QED BY <1>1, <1>2, <1>3 DEF CInv

(* A step of the handshake keeps the invariant of the handshake; the pump  *)
(* is not running yet.                                                     *)
LEMMA HandshakeStep ==
  ASSUME CInv, WithHandshake(H!Next)
  PROVE  /\ HP!HInv' /\ HP!Next
         /\ h_state \notin {"client_pumping_data", "client_DESTROYED"}
         /\ client_state = "client_socks5_finish_handshake"
<1>1. ~Destroyed /\ HP!Next /\ HP!HInv
  BY SameHandshake DEF WithHandshake, CInv
<1>2. HP!HInv'
  BY <1>1, HP!NextHInv, MethodRepliesAssumption, ConnectRepliesAssumption, PayloadAssumption, WatermarkAssumption
<1>3. h_state # "client_pumping_data"
  BY <1>1, HP!PumpEndsHandshake, MethodRepliesAssumption, ConnectRepliesAssumption,
     PayloadAssumption, WatermarkAssumption DEF HP!Pumping
<1>4. h_state # "client_DESTROYED"
  BY <1>1 DEF CInv, Together
<1> QED BY <1>1, <1>2, <1>3, <1>4 DEF CInv, Together

(* The pump takes over the bytes as the handshake counts them. *)
LEMMA HandoverCInv ==
  ASSUME CInv, WithHandshake(H!Next), HP!Pumping', Handover
  PROVE  CInv'
<1>0. /\ HP!HInv' /\ HP!Next /\ HP!HInv
      /\ h_state \notin {"client_pumping_data", "client_DESTROYED"}
      /\ client_state = "client_socks5_finish_handshake"
  BY HandshakeStep DEF CInv
<1> \A p, n \in Nat : p + n \in Nat /\ p + n >= p
  OBVIOUS
<1>1. strayed' \in Nat /\ leftover' + wire' = payload' + strayed'
  BY <1>0, HP!PumpStarts, MethodRepliesAssumption, ConnectRepliesAssumption,
     PayloadAssumption, WatermarkAssumption DEF HP!Pumping
<1>2. wire' \in Nat /\ payload' \in Nat /\ leftover' \in Nat
  BY <1>0 DEF HP!HInv, HP!Bytes
<1>3. /\ delivered = AllZero /\ output = AllZero /\ input["client"] = 0
      /\ shutdown_read = AllFalse /\ shutdown_write = AllFalse
  BY <1>0 DEF CInv, Together
<1>4. /\ client_state' = "client_pumping_data" /\ h_state' = "client_pumping_data"
      /\ sent' = [sent EXCEPT !["relay"] = payload' + strayed']
      /\ unread' = [unread EXCEPT !["relay"] = wire']
      /\ input' = [input EXCEPT !["relay"] = leftover']
      /\ ev_read' = AllTrue /\ ev_write' = AllTrue /\ wpending' = AllTrue
      /\ UNCHANGED <<delivered, stalled, output, shutdown_read, shutdown_write, dropped>>
  BY DEF Handover, HP!Pumping
<1>5. TypeOK'
  <2>0. TypeOK /\ PeersTypeOK
    BY DEF CInv, IInv, TypeOK
  <2>1. fin' \in [Side -> BOOLEAN] /\ rst' \in [Side -> BOOLEAN] /\ sockerr' \in [Side -> BOOLEAN]
    BY <2>0 DEF Handover, PeersTypeOK
  <2>2. payload' + strayed' \in Nat
    BY <1>1, <1>2
  <2>3. PeersTypeOK'
    BY <1>2, <1>4, <2>0, <2>1, <2>2 DEF PeersTypeOK
  <2> QED BY <1>2, <1>4, <2>0, <2>3 DEF TypeOK, ClientStates, AllTrue
<1>6. Conservation'
  <2>1. sent["client"] = unread["client"] + input["client"] + output["relay"]
                           + delivered["relay"]
    BY DEF CInv, IInv, Conservation, Side, Other
  <2>2. sent'["client"] = unread'["client"] + input'["client"] + output'["relay"]
                            + delivered'["relay"]
    BY <1>4, <2>1 DEF CInv, IInv, TypeOK, PeersTypeOK, Side
  <2>3. /\ sent'["relay"] = payload' + strayed' /\ unread'["relay"] = wire'
        /\ input'["relay"] = leftover' /\ output'["client"] = 0 /\ delivered'["client"] = 0
    BY <1>3, <1>4 DEF CInv, IInv, TypeOK, PeersTypeOK, Side, AllZero
  <2>4. sent'["relay"] = unread'["relay"] + input'["relay"] + output'["client"]
                           + delivered'["client"]
    BY <1>1, <1>2, <2>3
  <2> QED BY <2>2, <2>4 DEF Conservation, Side, Other
<1>7. ReadShut' /\ WriteShut' /\ Events' /\ FreeReason' /\ NoLostWakeup'
  BY <1>3, <1>4 DEF ReadShut, WriteShut, Events, FreeReason, NoLostWakeup, AllFalse, AllTrue,
                    Destroyed
<1>8. Together'
  <2>1. /\ input'["client"] = 0 /\ input'["relay"] = leftover'
        /\ sent'["relay"] = payload' + strayed'
    BY <1>3, <1>4 DEF CInv, IInv, TypeOK, PeersTypeOK, Side
  <2>2. sent'["relay"] >= payload'
    BY <1>1, <1>2, <2>1
  <2> QED BY <1>4, <2>1, <2>2 DEF Together
<1> QED BY <1>0, <1>5, <1>6, <1>7, <1>8 DEF CInv, IInv

(* The handshake fails, times out or is dropped: nothing has passed. *)
LEMMA FreedCInv ==
  ASSUME CInv, WithHandshake(H!Next), HP!Destroyed', FreeFromHandshake
  PROVE  CInv'
<1>0. HP!HInv' /\ h_state # "client_pumping_data"
  BY HandshakeStep
<1>1. /\ h_state' = "client_DESTROYED" /\ client_state' = "client_DESTROYED" /\ dropped' = TRUE
      /\ transocks_client_free
      /\ UNCHANGED <<sent, unread, delivered, fin, rst, sockerr, stalled, input, output,
                     shutdown_read, shutdown_write>>
  BY <1>0 DEF FreeFromHandshake, transocks_client_free, H!Pumping, HP!Destroyed, peerVars
<1>2. sockerr' \in [Side -> BOOLEAN]
  BY <1>1 DEF CInv, IInv, TypeOK, PeersTypeOK
<1>3. IInv'
  BY <1>1, <1>2, FreeIInv DEF CInv
<1>4. Together'
  BY <1>0, <1>1 DEF CInv, Together, Destroyed
<1> QED BY <1>0, <1>3, <1>4 DEF CInv

LEMMA UnchangedIInv ==
  ASSUME IInv, UNCHANGED vars
  PROVE  IInv'
BY NextIInv

(* Every step of the handshake. *)
LEMMA HandshakeCInv ==
  ASSUME CInv, WithHandshake(H!Next)
  PROVE  CInv'
<1>0. /\ HP!HInv'
      /\ h_state \notin {"client_pumping_data", "client_DESTROYED"}
      /\ client_state = "client_socks5_finish_handshake"
  BY HandshakeStep
<1>1. CASE h_state' = "client_pumping_data" /\ Handover
  BY <1>1, HandoverCInv DEF HP!Pumping
<1>2. CASE h_state' = "client_DESTROYED" /\ FreeFromHandshake
  BY <1>2, FreedCInv DEF HP!Destroyed
<1>3. CASE h_state' \notin {"client_pumping_data", "client_DESTROYED"} /\ UNCHANGED vars
  <2>1. IInv'
    BY <1>3, UnchangedIInv DEF CInv
  <2>2. UNCHANGED <<client_state, delivered, output, shutdown_read, shutdown_write, input, fin,
                    rst>>
    BY <1>3 DEF vars, peerVars, bevVars, clientVars
  <2>3. Together'
    BY <1>0, <1>3, <2>2 DEF CInv, Together
  <2> QED BY <1>0, <2>1, <2>3 DEF CInv
<1> QED BY <1>1, <1>2, <1>3 DEF WithHandshake, H!Pumping, H!Destroyed

(* What keeps the invariant of the handshake: it looks at its own          *)
(* variables only.                                                         *)
LEMMA HandshakeRests ==
  ASSUME CInv, UNCHANGED handshakeVars
  PROVE  HP!HInv' /\ UNCHANGED <<h_state, leftover, payload>>
<1>1. UNCHANGED HP!vars
  BY DEF handshakeVars, HP!vars, HP!bevVars, HP!serverVars, HP!outcomeVars
<1>2. HP!HInv'
  BY <1>1, HP!NextHInv, MethodRepliesAssumption, ConnectRepliesAssumption, PayloadAssumption, WatermarkAssumption
     DEF CInv
<1> QED BY <1>2 DEF handshakeVars

(* The application sends, ends or resets while the handshake runs. *)
LEMMA WaitingCInv ==
  ASSUME CInv, ClientWaits
  PROVE  CInv'
<1>0. /\ HP!HInv' /\ UNCHANGED <<h_state, leftover, payload>>
      /\ h_state # "client_pumping_data" /\ PeerAction("client")
  BY HandshakeRests DEF ClientWaits, H!Pumping
<1>1. IInv'
  BY <1>0, PeerStepIInv DEF CInv, Side
<1>2. UNCHANGED <<client_state, dropped, delivered, output, shutdown_read, shutdown_write, input>>
  BY <1>0 DEF PeerAction, PeerStep, PeerSend, PeerFin, PeerReset, PeerStall, bevVars, clientVars
<1>3. fin'["relay"] = fin["relay"] /\ rst'["relay"] = rst["relay"]
  BY <1>0 DEF PeerAction, PeerStep, PeerSend, PeerFin, PeerReset, PeerStall, CInv, IInv, TypeOK,
              PeersTypeOK, Side
<1>4. Together'
  BY <1>0, <1>2, <1>3 DEF CInv, Together, Destroyed
<1> QED BY <1>0, <1>1, <1>4 DEF CInv

PumpNext ==
  transocks_pump_free \/ \E s \in Side : PeerAction(s) \/ Readable(s) \/ Writable(s)

(* A callback of the pump leaves an input buffer alone or empties it. *)
LEMMA PumpInput ==
  ASSUME PumpNext
  PROVE  input' = input \/ \E s \in Side : input' = [input EXCEPT ![s] = 0]
<1>1. ASSUME NEW s \in Side, bufferevent_read_data(s)
      PROVE  input' = [input EXCEPT ![s] = 0]
  <2>1. \E n : MoveInput(s, n)
    BY <1>1, ReadcbIsMove DEF bufferevent_read_data
  <2> QED BY <2>1 DEF MoveInput
<1>2. (\A s \in Side : ~bufferevent_read_data(s)) => input' = input
  BY DEF PumpNext, transocks_pump_free, PeerAction, Readable, Writable,
         bufferevent_read_eof, bufferevent_read_error, bufferevent_write_data,
         bufferevent_write_idle, bufferevent_write_error, bevVars
<1> QED BY <1>1, <1>2

(* Only the peers add to what they have sent. *)
LEMMA PumpSent ==
  ASSUME IInv, PumpNext
  PROVE  sent' = sent \/ \E s \in Side : sent' = [sent EXCEPT ![s] = @ + 1]
<1>1. ASSUME NEW s \in Side, PeerAction(s)
      PROVE  sent' = sent \/ sent' = [sent EXCEPT ![s] = @ + 1]
  BY <1>1 DEF PeerAction, PeerStep, PeerSend, PeerFin, PeerReset, PeerStall
<1>2. (\A s \in Side : ~PeerAction(s)) => sent' = sent
  BY DEF PumpNext, transocks_pump_free, Readable, Writable, bufferevent_read_data,
         bufferevent_read_eof, bufferevent_read_error, bufferevent_write_data,
         bufferevent_write_idle, bufferevent_write_error, peerVars
<1> QED BY <1>1, <1>2

(* A client whose pump has started does not go back to the handshake. *)
LEMMA PumpState ==
  ASSUME PumpNext
  PROVE  client_state' \in {client_state, "client_DESTROYED"}
<1>0. /\ transocks_client_free => client_state' = "client_DESTROYED"
      /\ \A sr, sw, er, ew, wp : CheckClose(sr, sw, er, ew, wp) =>
           client_state' \in {client_state, "client_DESTROYED"}
  BY DEF CheckClose, transocks_client_free, transocks_bufferpump_free
<1>1. ASSUME NEW s \in Side, Readable(s)
      PROVE  client_state' \in {client_state, "client_DESTROYED"}
  <2>1. CASE bufferevent_read_data(s)
    <3>1. \E n : MoveInput(s, n)
      BY <2>1, ReadcbIsMove DEF bufferevent_read_data
    <3> QED BY <3>1 DEF MoveInput, clientVars
  <2>2. CASE bufferevent_read_eof(s)
    BY <1>0, <2>2, EventcbCases DEF bufferevent_read_eof, ReadEnded
  <2>3. CASE bufferevent_read_error(s)
    BY <1>0, <2>3, EventcbCases DEF bufferevent_read_error, OnError, transocks_bufferpump_free
  <2> QED BY <1>1, <2>1, <2>2, <2>3 DEF Readable
<1>2. ASSUME NEW s \in Side, Writable(s)
      PROVE  client_state' \in {client_state, "client_DESTROYED"}
  <2>1. \A left, wp : writecb(s, left, wp) =>
          client_state' \in {client_state, "client_DESTROYED"}
    BY <1>0, WritecbIsPropagate DEF PropagateOnDrain
  <2>2. CASE bufferevent_write_data(s)
    BY <2>1, <2>2 DEF bufferevent_write_data, clientVars
  <2>3. CASE bufferevent_write_idle(s)
    BY <2>1, <2>3 DEF bufferevent_write_idle
  <2>4. CASE bufferevent_write_error(s)
    <3>1. WriteBroken(s) \/ OnError
      BY <2>4, EventcbCases DEF bufferevent_write_error
    <3> QED BY <1>0, <3>1 DEF WriteBroken, OnError, transocks_bufferpump_free
  <2> QED BY <1>2, <2>2, <2>3, <2>4 DEF Writable
<1>3. ASSUME NEW s \in Side, PeerAction(s) PROVE client_state' = client_state
  BY <1>3 DEF PeerAction, clientVars
<1>4. transocks_pump_free => client_state' = "client_DESTROYED"
  BY <1>0 DEF transocks_pump_free, transocks_bufferpump_free
<1> QED BY <1>1, <1>2, <1>3, <1>4 DEF PumpNext

(* Every step of the running pump and of its peers. *)
LEMMA PumpCInv ==
  ASSUME CInv, h_state = "client_pumping_data", PumpNext, UNCHANGED handshakeVars
  PROVE  CInv'
<1>0. HP!HInv' /\ UNCHANGED <<h_state, leftover, payload>>
  BY HandshakeRests
<1>1. IInv'
  BY NextIInv DEF CInv, PumpNext, Next
<1>2. client_state' # "client_socks5_finish_handshake"
  BY PumpState DEF CInv, Together
<1>3. /\ TypeOK /\ payload \in Nat /\ sent["relay"] \in Nat /\ sent["relay"] >= payload
      /\ input["relay"] \in {0, leftover} /\ input["client"] = 0
  BY DEF CInv, IInv, TypeOK, PeersTypeOK, Together, HP!HInv, HP!Bytes, Side
<1>4. input'["client"] = 0 /\ input'["relay"] \in {0, leftover}
  BY <1>3, PumpInput DEF TypeOK, Side
<1>5. sent'["relay"] >= payload
  <2>1. \A n, p \in Nat : n >= p => n + 1 >= p
    OBVIOUS
  <2>2. sent'["relay"] \in {sent["relay"], sent["relay"] + 1}
    BY <1>3, PumpSent DEF CInv, TypeOK, PeersTypeOK, Side
  <2> QED BY <1>3, <2>1, <2>2
<1>6. Together'
  BY <1>0, <1>2, <1>4, <1>5 DEF Together
<1> QED BY <1>0, <1>1, <1>6 DEF CInv

(* Every step of the connection. *)
LEMMA NextCInv == CInv /\ [ConnNext]_connVars => CInv'
<1> SUFFICES ASSUME CInv, [ConnNext]_connVars PROVE CInv'
  OBVIOUS
<1>1. CASE WithHandshake(H!Next)
  BY <1>1, HandshakeCInv
<1>2. CASE ClientWaits
  BY <1>2, WaitingCInv
<1>3. CASE PumpStep(transocks_pump_free)
  BY <1>3, PumpCInv DEF PumpStep, PumpNext, H!Pumping
<1>4. ASSUME NEW s \in Side, PumpStep(PeerAction(s) \/ Readable(s) \/ Writable(s))
      PROVE  CInv'
  BY <1>4, PumpCInv DEF PumpStep, PumpNext, H!Pumping
<1>5. CASE UNCHANGED connVars
  <2>1. IInv' /\ HP!HInv' /\ UNCHANGED <<h_state, leftover, payload>>
    BY <1>5, UnchangedIInv, HandshakeRests DEF CInv, connVars
  <2>2. UNCHANGED <<client_state, dropped, delivered, sent, output, shutdown_read,
                    shutdown_write, input, fin, rst>>
    BY <1>5 DEF connVars, vars, peerVars, bevVars, clientVars
  <2> QED BY <2>1, <2>2 DEF CInv, Together, Destroyed
<1> QED BY <1>1, <1>2, <1>3, <1>4, <1>5 DEF ConnNext

-----------------------------------------------------------------------------
(* Handshake and pump together, from the accept in listener_cb to          *)
(* transocks_client_free.                                                  *)
THEOREM ConnectionInvariance == ConnSpec => []CInv
BY InitCInv, NextCInv, PTL DEF ConnSpec

(* A connection that ends by itself has carried both streams to their      *)
(* ends, whatever was sent while transocks_start_pump was still to come.   *)
THEOREM StreamsCarriedInFull == ConnSpec => []CarriedInFull
<1>1. CInv => CarriedInFull
  <2> SUFFICES ASSUME CInv, Destroyed, Intact, ~dropped
               PROVE  /\ \A s \in Side : fin[s]
                      /\ delivered["relay"] = sent["client"]
                      /\ sent["relay"] >= payload
                      /\ creply = "ipv4" => strayed = 0
                      /\ delivered["client"] \in {sent["relay"], sent["relay"] - leftover}
    BY DEF CarriedInFull
  <2>1. h_state = "client_pumping_data"
    BY DEF CInv, Together, Destroyed
  <2>2. /\ sent["relay"] >= payload /\ input["client"] = 0 /\ input["relay"] \in {0, leftover}
    BY <2>1 DEF CInv, Together
  <2>3. creply = "ipv4" => strayed = 0
    BY <2>1 DEF CInv, HP!HInv, HP!Ipv4PayloadAligned, HP!Pumping
  <2>4. \A s \in Side : fin[s] /\ delivered[Other(s)] + input[s] = sent[s]
    BY ShutMeansPassedOn DEF CInv, GracefulClose
  <2>5. /\ delivered["relay"] + input["client"] = sent["client"]
        /\ delivered["client"] + input["relay"] = sent["relay"]
    BY <2>4 DEF Side, Other
  <2>6. \A s \in Side : delivered[s] \in Nat /\ sent[s] \in Nat /\ input[s] \in Nat
    BY DEF CInv, IInv, TypeOK, PeersTypeOK
  <2>7. \A d, i, n \in Nat : d + i = n => d = n - i /\ (i = 0 => d = n)
    OBVIOUS
  <2>8. delivered["relay"] = sent["client"]
    BY <2>2, <2>5, <2>6, <2>7 DEF Side
  <2>9. delivered["client"] \in {sent["relay"], sent["relay"] - leftover}
    <3>1. /\ delivered["client"] = sent["relay"] - input["relay"]
          /\ input["relay"] = 0 => delivered["client"] = sent["relay"]
      BY <2>5, <2>6, <2>7 DEF Side
    <3> QED BY <2>2, <3>1
  <2> QED BY <2>2, <2>3, <2>4, <2>8, <2>9
<1> QED BY <1>1, ConnectionInvariance, PTL

(* Seen from the relay's side up to the start of the pump, the connection  *)
(* is the handshake alone: what the application does meanwhile, and what   *)
(* the pump does later, disturbs nothing of it.                            *)
THEOREM ImplementsHandshake == ConnSpec => H!Spec
<1>1. ConnInit => H!Init
  BY DEF ConnInit
<1>2. [ConnNext]_connVars => [H!Next]_(H!vars)
  <2>1. UNCHANGED handshakeVars => UNCHANGED H!vars
    BY DEF handshakeVars, H!vars, H!bevVars, H!serverVars, H!outcomeVars
  <2> QED BY <2>1 DEF ConnNext, WithHandshake, ClientWaits, PumpStep, connVars
<1> QED BY <1>1, <1>2, PTL DEF ConnSpec, H!Spec

(* The pump that takes over finds both input buffers below the watermark,  *)
(* which the handshake has kept too, and no flag set.                      *)
LEMMA HandoverAttentive ==
  ASSUME CInv, Attentive, WithHandshake(H!Next), HP!Pumping', Handover
  PROVE  Attentive'
<1>0. /\ HP!HInv' /\ HP!Next /\ HP!HInv /\ ~HP!Pumping
      /\ h_state # "client_pumping_data"
  BY HandshakeStep DEF CInv, HP!Pumping
<1>f. leftover' \in Nat /\ leftover' < BufSize
  <2>1. h_input' < BufSize /\ leftover' = h_input'
    BY <1>0, HP!PumpStarts, MethodRepliesAssumption, ConnectRepliesAssumption,
       PayloadAssumption, WatermarkAssumption
  <2>2. leftover' \in Nat
    BY <1>0 DEF HP!HInv, HP!Bytes
  <2> QED BY <2>1, <2>2
<1>1. /\ shutdown_read' = AllFalse
      /\ ev_read' = AllTrue /\ input' = [input EXCEPT !["relay"] = leftover']
      /\ input \in [Side -> Nat]
  BY <1>0 DEF CInv, Together, IInv, TypeOK, Handover
<1>2. \A s \in Side : input'[s] < BufSize
  BY <1>1, <1>f DEF Attentive, Side
<1> QED BY <1>1, <1>2 DEF Attentive, AllFalse, AllTrue, transocks_check_close, Side

(***************************************************************************)
(* After the handshake, too, a pump with no callback due owes nothing:     *)
(* however much payload the server sends with its reply, what              *)
(* socks_on_server_connect_reply_readcb leaves behind in relay_bev stays   *)
(* below the high watermark and never stops its reading.                   *)
(***************************************************************************)
THEOREM ConnectionQuiet == ConnSpec => []QuietIsDone
<1>1. ConnInit => Attentive
  BY LeftoversAssumption, BufSizeAssumption DEF ConnInit, Init, Attentive, AllZero, Side
<1>2. CInv /\ Attentive /\ [ConnNext]_connVars => Attentive'
  <2> SUFFICES ASSUME CInv, Attentive, [ConnNext]_connVars
               PROVE  Attentive'
    OBVIOUS
  <2>1. CASE WithHandshake(H!Next)
    <3>2. CASE H!Pumping' /\ Handover
      BY <2>1, <3>2, HandoverAttentive DEF H!Pumping, HP!Pumping
    <3>3. CASE FreeFromHandshake
      BY <3>3, FreeAttentive DEF FreeFromHandshake
    <3>4. CASE UNCHANGED vars
      BY <3>4, NextAttentive DEF CInv
    <3> QED BY <2>1, <3>2, <3>3, <3>4 DEF WithHandshake
  <2>2. CASE Next \/ UNCHANGED vars
    BY <2>2, NextAttentive DEF CInv
  <2>3. CASE ~WithHandshake(H!Next)
    BY <2>2, <2>3 DEF ConnNext, ClientWaits, PumpStep, Next, connVars, Side
  <2> QED BY <2>1, <2>3
<1>3. CInv /\ Attentive => QuietIsDone
  BY QuietDone DEF CInv
<1> QED BY <1>1, <1>2, <1>3, ConnectionInvariance, PTL DEF ConnSpec

-----------------------------------------------------------------------------
(***************************************************************************)
(* The connection from accept to free as one StreamRelay.  The handshake   *)
(* and what the application sends meanwhile are steps of the ends or       *)
(* invisible, a failed handshake is a Drop, and a step of the running pump *)
(* is the step of StreamRelay that BufferPumpProofs finds for it.          *)
(***************************************************************************)
AllSent == [sent EXCEPT !["relay"] = IF h_state = "client_pumping_data" THEN @ ELSE payload]

(* The names of StreamRelay for the two ends are those of Peers. *)
LEMMA CarriedNames ==
  /\ Carried!End = Side
  /\ \A s : Carried!Peer(s) = Other(s)
BY DEF Carried!End, Carried!Peer, Side, Other

(* What counts as sent while the pump runs, and before. *)
LEMMA AllSentValue ==
  ASSUME CInv
  PROVE  /\ h_state = "client_pumping_data" => AllSent = sent
         /\ h_state # "client_pumping_data" => AllSent = [sent EXCEPT !["relay"] = payload]
BY DEF AllSent, CInv, IInv, TypeOK, PeersTypeOK, Side

(* A step of the running pump. *)
LEMMA PumpIsCarried ==
  ASSUME CInv, CInv', h_state = "client_pumping_data", h_state' = "client_pumping_data",
         [Relay!RelayNext]_(Relay!relayVars)
  PROVE  [Carried!RelayNext]_(Carried!relayVars)
<1>1. AllSent = sent /\ AllSent' = sent'
  BY AllSentValue DEF AllSent, CInv, IInv, TypeOK, PeersTypeOK, Side
<1>2. [sent EXCEPT !["relay"] = IF H!Pumping THEN @ ELSE payload] = sent
  BY <1>1 DEF AllSent, H!Pumping
<1>3. [sent EXCEPT !["relay"] = IF H!Pumping THEN @ ELSE payload]' = sent'
  BY <1>1 DEF AllSent, H!Pumping
<1>4. UNCHANGED Relay!relayVars => UNCHANGED Carried!relayVars
  BY <1>2, <1>3 DEF Relay!relayVars, Carried!relayVars
<1>5. Relay!RelayNext => Carried!RelayNext
  BY <1>2, <1>3 DEF Relay!RelayNext, Carried!RelayNext, Relay!EndStep, Carried!EndStep,
       Relay!Forward, Carried!Forward, Relay!Abort, Carried!Abort, Relay!Drop, Carried!Drop,
       Relay!Broken, Carried!Broken, Relay!Complete, Carried!Complete, Relay!MayClose,
       Carried!MayClose, Relay!End, Carried!End, Relay!Peer, Carried!Peer
<1> QED BY <1>4, <1>5

(* An end sends, ends its stream or resets. *)
EndMoves(s) ==
  \/ ~fin[s] /\ AllSent' = [AllSent EXCEPT ![s] = @ + 1] /\ UNCHANGED <<fin, rst>>
  \/ fin' = [fin EXCEPT ![s] = TRUE] /\ UNCHANGED <<AllSent, rst>>
  \/ rst' = [rst EXCEPT ![s] = TRUE] /\ UNCHANGED <<AllSent, fin>>

(* It does, and the client keeps its state. *)
LEMMA EndIsCarried ==
  ASSUME NEW s \in Side, EndMoves(s), ~Destroyed, ~Destroyed',
         UNCHANGED <<delivered, shutdown_write, dropped>>
  PROVE  Carried!RelayNext
<1>1. Carried!EndStep(s)
  BY DEF EndMoves, Carried!EndStep, AllSent, H!Pumping, Destroyed
<1> QED BY <1>1, CarriedNames DEF Carried!RelayNext

(* Nothing of what the ends can see changes. *)
LEMMA Invisible ==
  ASSUME UNCHANGED <<AllSent, fin, rst, delivered, shutdown_write, dropped>>,
         Destroyed' <=> Destroyed
  PROVE  UNCHANGED Carried!relayVars
BY DEF Carried!relayVars, AllSent, H!Pumping, Destroyed

(* A step of the handshake. *)
LEMMA HandshakeIsCarried ==
  ASSUME CInv, CInv', WithHandshake(H!Next), leftover' = 0, strayed' = 0
  PROVE  [Carried!RelayNext]_(Carried!relayVars)
<1>0. /\ HP!Next /\ ~Destroyed
      /\ h_state \notin {"client_pumping_data", "client_DESTROYED"}
      /\ ~fin["relay"] /\ ~rst["relay"]
      /\ AllSent = [sent EXCEPT !["relay"] = payload]
  BY HandshakeStep, AllSentValue DEF WithHandshake, CInv, Together
<1>1. payload' = payload \/ (payload' = payload + 1 /\ h_state' = h_state)
  BY <1>0, HP!PayloadGrows, MethodRepliesAssumption, ConnectRepliesAssumption, PayloadAssumption, WatermarkAssumption
<1>t. /\ payload \in Nat /\ sent \in [Side -> Nat]
      /\ fin \in [Side -> BOOLEAN] /\ rst \in [Side -> BOOLEAN]
  BY DEF CInv, IInv, TypeOK, PeersTypeOK, HP!HInv, HP!Bytes
<1>2. CASE h_state' = "client_pumping_data" /\ Handover
  <2>1. /\ ~Destroyed' /\ UNCHANGED <<delivered, shutdown_write, dropped>>
        /\ sent' = [sent EXCEPT !["relay"] = payload' + strayed']
    BY <1>2 DEF Handover, Destroyed
  <2>2. AllSent' = AllSent
    <3>1. AllSent' = sent'
      BY <1>2, AllSentValue DEF AllSent, CInv, IInv, TypeOK, PeersTypeOK, Side
    <3>2. payload' + strayed' = payload
      BY <1>0, <1>1, <1>2, <1>t
    <3> QED BY <1>0, <2>1, <3>1, <3>2
  <2>3. PICK reset \in BOOLEAN :
          /\ fin' = [fin EXCEPT !["relay"] = hangup' /\ ~reset]
          /\ rst' = [rst EXCEPT !["relay"] = hangup' /\ reset]
    BY <1>2 DEF Handover
  <2>4. \/ UNCHANGED <<fin, rst>>
        \/ fin' = [fin EXCEPT !["relay"] = TRUE] /\ UNCHANGED rst
        \/ rst' = [rst EXCEPT !["relay"] = TRUE] /\ UNCHANGED fin
    BY <1>0, <1>t, <2>3 DEF Side
  <2>5. CASE UNCHANGED <<fin, rst>>
    BY <1>0, <2>1, <2>2, <2>5, Invisible, Zenon
  <2>6. CASE ~UNCHANGED <<fin, rst>>
    <3>1. EndMoves("relay") /\ "relay" \in Side
      BY <2>2, <2>4, <2>6 DEF EndMoves, Side
    <3> QED BY <1>0, <2>1, <3>1, EndIsCarried
  <2> QED BY <2>5, <2>6
<1>3. CASE h_state' = "client_DESTROYED" /\ FreeFromHandshake
  <2>1. /\ Destroyed' /\ dropped' = TRUE
        /\ UNCHANGED <<sent, fin, rst, delivered, shutdown_write>>
    BY <1>0, <1>3 DEF FreeFromHandshake, transocks_client_free, Destroyed, H!Pumping, peerVars
  <2>2. AllSent' = AllSent
    BY <1>0, <1>1, <1>3, <2>1 DEF AllSent
  <2>3. Carried!Drop
    BY <1>0, <2>1, <2>2 DEF Carried!Drop, AllSent, H!Pumping
  <2> QED BY <2>3 DEF Carried!RelayNext
<1>4. CASE h_state' \notin {"client_pumping_data", "client_DESTROYED"} /\ UNCHANGED vars
  <2>1. /\ UNCHANGED <<sent, fin, rst, delivered, shutdown_write, dropped>>
        /\ Destroyed' <=> Destroyed
    BY <1>4 DEF vars, peerVars, clientVars, Destroyed
  <2>2. AllSent' = [sent EXCEPT !["relay"] = payload']
    BY <1>4, <2>1 DEF AllSent
  <2>3. CASE payload' = payload
    <3>1. UNCHANGED AllSent
      BY <1>0, <2>2, <2>3
    <3> QED BY <2>1, <3>1, Invisible, Zenon
  <2>4. CASE payload' = payload + 1
    <3>1. AllSent' = [AllSent EXCEPT !["relay"] = @ + 1]
      BY <1>0, <1>t, <2>2, <2>4 DEF Side
    <3>2. EndMoves("relay") /\ "relay" \in Side
      BY <1>0, <2>1, <3>1 DEF EndMoves, Side
    <3> QED BY <1>0, <2>1, <3>2, EndIsCarried
  <2> QED BY <1>1, <2>3, <2>4
<1> QED BY <1>2, <1>3, <1>4 DEF WithHandshake, H!Pumping, H!Destroyed

(* The application sends, ends or resets before the pump runs. *)
LEMMA WaitingIsCarried ==
  ASSUME CInv, ClientWaits
  PROVE  [Carried!RelayNext]_(Carried!relayVars)
<1>0. /\ UNCHANGED <<h_state, payload, delivered, shutdown_write, dropped, client_state>>
      /\ h_state # "client_pumping_data" /\ ~Destroyed /\ PeerStep("client")
      /\ AllSent = [sent EXCEPT !["relay"] = payload]
  BY AllSentValue DEF ClientWaits, PeerAction, PeerStep, PeerSend, PeerFin, PeerReset, PeerStall,
       handshakeVars, clientVars, H!Pumping, Destroyed
<1>1. /\ AllSent' = [sent' EXCEPT !["relay"] = payload]
      /\ ~Destroyed' /\ sent \in [Side -> Nat]
  BY <1>0 DEF AllSent, Destroyed, CInv, IInv, TypeOK, PeersTypeOK
<1>2. CASE PeerSend("client")
  <2>1. AllSent' = [AllSent EXCEPT !["client"] = @ + 1]
    BY <1>0, <1>1, <1>2 DEF PeerSend, Side
  <2>2. EndMoves("client") /\ "client" \in Side
    BY <1>2, <2>1 DEF EndMoves, PeerSend, Side
  <2> QED BY <1>0, <1>1, <2>2, EndIsCarried
<1>3. CASE PeerFin("client") \/ PeerReset("client")
  <2>1. AllSent' = AllSent
    BY <1>0, <1>1, <1>3 DEF PeerFin, PeerReset
  <2>2. EndMoves("client") /\ "client" \in Side
    BY <1>3, <2>1 DEF EndMoves, PeerFin, PeerReset, Side
  <2> QED BY <1>0, <1>1, <2>2, EndIsCarried
<1>4. CASE PeerStall("client")
  <2>1. UNCHANGED <<AllSent, fin, rst>>
    BY <1>0, <1>1, <1>4 DEF PeerStall
  <2> QED BY <1>0, <1>1, <2>1, Invisible, Zenon
<1> QED BY <1>0, <1>2, <1>3, <1>4 DEF PeerStep

(***************************************************************************)
(* From listener_cb to transocks_client_free the two ends see a            *)
(* StreamRelay with half-close, as long as                                 *)
(* socks_on_server_connect_reply_readcb leaves relay_bev at the first byte *)
(* of payload and with none of it in the input buffer.                     *)
(***************************************************************************)
THEOREM ConnectionRefinesRelay == ConnSpec => ImplementsRelay
<1>1. ConnInit => Carried!RelayInit
  <2> SUFFICES ASSUME ConnInit PROVE Carried!RelayInit
    OBVIOUS
  <2>1. CInv /\ h_state = "client_NEW" /\ payload = 0
    BY InitCInv DEF ConnInit, H!Init
  <2>2. AllSent \in [Side -> Nat]
    BY <2>1, AllSentValue DEF CInv, IInv, TypeOK, PeersTypeOK
  <2>3. /\ fin = AllFalse /\ rst = AllFalse /\ delivered = AllZero
        /\ shutdown_write = AllFalse /\ Destroyed = FALSE /\ dropped = FALSE
    BY DEF ConnInit, Init, PeersInit, Destroyed
  <2> QED BY <2>2, <2>3, CarriedNames DEF Carried!RelayInit, AllSent, H!Pumping, AllFalse, AllZero
<1>2. CInv /\ CInv' /\ [ConnNext]_connVars =>
        [leftover' = 0 /\ strayed' = 0 => Carried!RelayNext]_(Carried!relayVars)
  <2> SUFFICES ASSUME CInv, CInv', [ConnNext]_connVars, leftover' = 0, strayed' = 0
               PROVE  [Carried!RelayNext]_(Carried!relayVars)
    OBVIOUS
  <2>1. CASE WithHandshake(H!Next)
    BY <2>1, HandshakeIsCarried
  <2>2. CASE ClientWaits
    BY <2>2, WaitingIsCarried
  <2>3. ASSUME PumpNext, H!Pumping, UNCHANGED handshakeVars
        PROVE  [Carried!RelayNext]_(Carried!relayVars)
    <3>1. h_state = "client_pumping_data" /\ UNCHANGED <<h_state, leftover>>
      BY <2>3 DEF H!Pumping, handshakeVars
    <3>2. NoInput
      BY <3>1 DEF CInv, Together, IInv, TypeOK, NoInput, AllZero, Side
    <3>3. [Relay!RelayNext]_(Relay!relayVars)
      BY <2>3, <3>2, ReadableRefines, WritableRefines, OtherStepsRefine DEF PumpNext, CInv
    <3> QED BY <3>1, <3>3, PumpIsCarried
  <2>4. CASE UNCHANGED connVars
    <3>1. /\ UNCHANGED <<AllSent, fin, rst, delivered, shutdown_write, dropped>>
          /\ Destroyed' <=> Destroyed
      BY <2>4 DEF connVars, vars, peerVars, clientVars, handshakeVars, AllSent, Destroyed
    <3> QED BY <3>1, Invisible, Zenon
  <2>5. CASE PumpStep(transocks_pump_free)
    BY <2>3, <2>5 DEF PumpStep, PumpNext
  <2>6. ASSUME NEW s \in Side, PumpStep(PeerAction(s) \/ Readable(s) \/ Writable(s))
        PROVE  [Carried!RelayNext]_(Carried!relayVars)
    BY <2>3, <2>6 DEF PumpStep, PumpNext
  <2> QED BY <2>1, <2>2, <2>4, <2>5, <2>6 DEF ConnNext
<1> QED BY <1>1, <1>2, ConnectionInvariance, PTL DEF ConnSpec, ImplementsRelay
=============================================================================
