---------------------------- MODULE Socks5Proofs ----------------------------
(***************************************************************************)
(* Proofs about Socks5, for every BufSize, MaxPayload and set of replies.  *)
(***************************************************************************)
EXTENDS Socks5, TLAPS

(* The callbacks set on relay_bev tell the stage of the handshake. *)
Stage ==
  /\ pump_method \in {"bufferpump", "splicepump"} /\ ev_read \in BOOLEAN
  /\ on_read \in {"none", "relay_onconnect", "selected_method", "connect_reply", "pump"}
  /\ timeout_ev \in {"null", "idle", "pending"}
  /\ relay_bev = IF on_read = "none" THEN "null" ELSE "live"
  /\ on_read = "none" =>
       client_state \in {"client_NEW", "client_DESTROYED"} /\ timeout_ev = "null"
  /\ on_read = "relay_onconnect" => client_state = "client_NEW"
  /\ on_read = "selected_method" => client_state = "client_relay_connected" /\ low = 2
  /\ on_read = "connect_reply" => client_state = "client_relay_connected" /\ low = 10
  /\ on_read = "pump" => Pumping
  /\ ev_read => on_read \in {"selected_method", "connect_reply"}

\* bytes of a message that was sent
MethodBytes  == IF mreply = "none" THEN 0 ELSE MethodReplyLen(mreply)
ReplyBytes   == IF creply = "none" THEN 0 ELSE ConnectReplyLen(creply)
StrayBytes   == IF mreply = "long" THEN 1 ELSE 0

(* What the server has sent is in the input buffer or on the wire, up to   *)
(* what earlier stages have drained.                                       *)
Bytes ==
  /\ input \in Nat /\ wire \in Nat /\ payload \in Nat /\ leftover \in Nat
  /\ client_state = "client_NEW" =>
       /\ request = "none" /\ mreply = "none" /\ creply = "none"
       /\ input = 0 /\ wire = 0 /\ payload = 0
  /\ on_read = "selected_method" =>
       /\ request = "method" /\ creply = "none" /\ payload = 0
       /\ input + wire = MethodBytes
  /\ on_read = "connect_reply" =>
       /\ request = "connect" /\ mreply \in {"noauth", "long"}
       /\ creply = "none" => payload = 0
       /\ input + wire = StrayBytes + ReplyBytes + payload

(* Every misbehaviour of the server is on record. *)
Blame ==
  /\ mreply \notin {"none", "noauth"} => "bad_reply" \in faults
  /\ creply \notin {"none", "ipv4", "ipv6"} => "bad_reply" \in faults
  /\ hangup => "hangup" \in faults

HInv == /\ Stage /\ Bytes /\ Blame
        /\ WaitingIsTimed /\ PumpIsUntimed /\ PumpAfterSuccess /\ Ipv4PayloadAligned
        /\ NoSpuriousDrop /\ OnlyLocalFaultsCrash /\ SignalClosesBuffered

(* A new client has no timer, no bufferevent and no reply. *)
LEMMA InitHInv == Init => HInv
<1> SUFFICES ASSUME Init PROVE HInv
  OBVIOUS
<1>1. Stage
  BY PumpMethodsAssumption DEF Init, Stage
<1>2. Bytes /\ Blame
  BY DEF Init, Bytes, Blame
<1>3. WaitingIsTimed /\ PumpIsUntimed /\ PumpAfterSuccess /\ Ipv4PayloadAligned
      /\ NoSpuriousDrop
  BY DEF Init, WaitingIsTimed, PumpIsUntimed, PumpAfterSuccess, Ipv4PayloadAligned,
         NoSpuriousDrop, Pumping, Destroyed
<1>4. OnlyLocalFaultsCrash /\ SignalClosesBuffered
  BY DEF Init, OnlyLocalFaultsCrash, SignalClosesBuffered
<1> QED BY <1>1, <1>2, <1>3, <1>4 DEF HInv

(* Freeing the client ends every obligation but to have a reason. *)
LEMMA FreeHInv ==
  ASSUME HInv, transocks_client_free, UNCHANGED pump_method,
         input' \in Nat, wire' \in Nat, payload' \in Nat, leftover' \in Nat,
         Blame', faults' # {}, OnlyLocalFaultsCrash'
  PROVE  HInv'
BY DEF transocks_client_free, HInv, Stage, Bytes, WaitingIsTimed, PumpIsUntimed,
       PumpAfterSuccess, Ipv4PayloadAligned, NoSpuriousDrop, SignalClosesBuffered, Pumping,
       Destroyed

(* A timer that is set runs, or its failure is on record. *)
LEMMA TimerSet ==
  ASSUME transocks_client_set_timeout
  PROVE  /\ timeout_ev' \in {"null", "idle", "pending"}
         /\ timeout_ev' = "pending" \/ "timer" \in faults'
         /\ faults \subseteq faults'
         /\ \A f : f \in faults' => f \in faults \/ f = "timer"
BY DEF transocks_client_set_timeout

(* A callback that finds no timer does so because it could not be set. *)
LEMMA NullTimerHInv ==
  ASSUME HInv, NullTimer, on_read \in {"relay_onconnect", "selected_method", "connect_reply"},
         UNCHANGED <<signalled, pump_method>>
  PROVE  HInv'
<1>1. "timer" \in faults
  BY DEF HInv, NullTimer, WaitingIsTimed, Stage, Pumping
<1>2. UNCHANGED <<client_state, relay_bev, on_read, low, ev_read, input, timeout_ev,
                  leftover, strayed, request, mreply, creply, wire, payload, hangup, faults>>
  BY DEF NullTimer, bevVars, serverVars
<1> QED
  BY <1>1, <1>2 DEF HInv, Stage, Bytes, Blame, WaitingIsTimed, PumpIsUntimed, PumpAfterSuccess,
       Ipv4PayloadAligned, NoSpuriousDrop, OnlyLocalFaultsCrash, SignalClosesBuffered,
       Pumping, Destroyed, MethodBytes, ReplyBytes, StrayBytes

(* A step to the next stage that sets the timer again. *)
LEMMA WaitHInv ==
  ASSUME HInv, transocks_client_set_timeout, Stage', Bytes', ~Pumping', ~Destroyed', ~Destroyed,
         UNCHANGED <<crashed, signalled, pump_method, mreply, creply, hangup>>
  PROVE  HInv'
<1>1. Blame'
  BY TimerSet DEF HInv, Blame
<1>2. WaitingIsTimed'
  BY TimerSet DEF WaitingIsTimed
<1>3. OnlyLocalFaultsCrash' /\ SignalClosesBuffered'
  BY TimerSet DEF HInv, OnlyLocalFaultsCrash, SignalClosesBuffered, Destroyed
<1>4. PumpIsUntimed' /\ PumpAfterSuccess' /\ Ipv4PayloadAligned' /\ NoSpuriousDrop'
  BY DEF PumpIsUntimed, PumpAfterSuccess, Ipv4PayloadAligned, NoSpuriousDrop
<1> QED BY <1>1, <1>2, <1>3, <1>4 DEF HInv

(* Connecting to the relay. *)
LEMMA StartHInv ==
  ASSUME HInv, transocks_start_connect_relay
  PROVE  HInv'
<1>1. /\ client_state = "client_NEW" /\ relay_bev' = "live" /\ on_read' = "relay_onconnect"
      /\ transocks_client_set_timeout
      /\ UNCHANGED <<client_state, low, ev_read, input, leftover, strayed, crashed, request,
                     mreply, creply, wire, payload, hangup, signalled, pump_method>>
  BY DEF transocks_start_connect_relay, outcomeVars, serverVars
<1>2. Stage'
  BY <1>1, TimerSet DEF HInv, Stage
<1>3. Bytes'
  BY <1>1 DEF HInv, Bytes
<1>4. ~Pumping' /\ ~Destroyed /\ ~Destroyed'
  BY <1>1 DEF Pumping, Destroyed
<1> QED BY <1>1, <1>2, <1>3, <1>4, WaitHInv

(* Every way to fail before the handshake is on record. *)
LEMMA StartFailsHInv ==
  ASSUME HInv, start_connect_relay_fails_local \/ start_connect_relay_fails_connect
  PROVE  HInv'
<1>1. /\ transocks_client_free
      /\ UNCHANGED <<pump_method, input, leftover, strayed, request, mreply, creply, wire,
                     payload, hangup, signalled>>
      /\ \/ faults' = faults \cup {"local"} /\ UNCHANGED crashed
         \/ faults' = faults \cup {"connect"}
  BY DEF start_connect_relay_fails_local, start_connect_relay_fails_connect, outcomeVars,
         serverVars
<1>2. Blame' /\ faults' # {} /\ OnlyLocalFaultsCrash'
  BY <1>1 DEF HInv, Blame, OnlyLocalFaultsCrash
<1> QED BY <1>1, <1>2, FreeHInv DEF HInv, Bytes

(* The connection is made or refused. *)
LEMMA ConnectHInv ==
  ASSUME HInv, relay_onconnect_eventcb
  PROVE  HInv'
<1>0. on_read = "relay_onconnect" /\ UNCHANGED <<signalled, pump_method>>
      /\ client_state = "client_NEW"
  BY DEF relay_onconnect_eventcb, HInv, Stage
<1>1. CASE OnConnected
  <2>1. /\ client_state' = "client_relay_connected" /\ low' = 2 /\ request' = "method"
        /\ on_read' = "selected_method" /\ ev_read' = TRUE /\ transocks_client_set_timeout
        /\ UNCHANGED <<relay_bev, input, mreply, creply, wire, payload, hangup, leftover,
                       strayed, crashed>>
    BY <1>1 DEF OnConnected, socks_send_method_selection, outcomeVars
  <2>2. Stage'
    BY <1>0, <2>1, TimerSet DEF HInv, Stage
  <2>3. Bytes'
    BY <1>0, <2>1 DEF HInv, Bytes, MethodBytes
  <2>4. ~Pumping' /\ ~Destroyed /\ ~Destroyed'
    BY <1>0, <2>1 DEF Pumping, Destroyed
  <2> QED BY <1>0, <2>1, <2>2, <2>3, <2>4, WaitHInv
<1>2. CASE OnConnectError
  <2>1. /\ transocks_client_free /\ faults' = faults \cup {"refused"}
        /\ UNCHANGED <<input, leftover, strayed, crashed, request, mreply, creply, wire,
                       payload, hangup>>
    BY <1>2 DEF OnConnectError, outcomeVars, serverVars
  <2>2. Blame' /\ faults' # {} /\ OnlyLocalFaultsCrash'
    BY <1>0, <2>1 DEF HInv, Blame, OnlyLocalFaultsCrash
  <2> QED BY <1>0, <2>1, <2>2, FreeHInv DEF HInv, Bytes
<1>3. CASE NullTimer
  BY <1>0, <1>3, NullTimerHInv
<1> QED BY <1>1, <1>2, <1>3 DEF relay_onconnect_eventcb

(* Bytes that do not fill the low watermark stay in the input buffer. *)
LEMMA ShortReadHInv ==
  ASSUME HInv, NEW n \in Nat, ev_read, n <= wire,
         input' = input + n, wire' = wire - n,
         UNCHANGED <<client_state, relay_bev, on_read, low, ev_read, timeout_ev, outcomeVars,
                     request, mreply, creply, payload, hangup, faults, signalled, pump_method>>
  PROVE  HInv'
<1>1. /\ input \in Nat /\ wire \in Nat /\ input' \in Nat /\ wire' \in Nat
      /\ input' + wire' = input + wire
  BY DEF HInv, Bytes
<1>2. on_read \in {"selected_method", "connect_reply"}
      /\ client_state = "client_relay_connected"
  BY DEF HInv, Stage
<1>3. Bytes'
  BY <1>1, <1>2 DEF HInv, Bytes, MethodBytes, ReplyBytes, StrayBytes, outcomeVars
<1>4. Stage' /\ Blame'
  BY DEF HInv, Stage, Blame, Pumping
<1>5. WaitingIsTimed' /\ PumpIsUntimed' /\ PumpAfterSuccess' /\ Ipv4PayloadAligned'
  BY <1>2 DEF HInv, WaitingIsTimed, PumpIsUntimed, PumpAfterSuccess, Ipv4PayloadAligned, Pumping
<1>6. NoSpuriousDrop' /\ OnlyLocalFaultsCrash' /\ SignalClosesBuffered'
  BY DEF HInv, NoSpuriousDrop, OnlyLocalFaultsCrash, SignalClosesBuffered, Destroyed, outcomeVars
<1> QED BY <1>3, <1>4, <1>5, <1>6 DEF HInv

(* The method reply has arrived: a server that chose "no authentication"   *)
(* sent exactly the two bytes.                                             *)
LEMMA MethodHInv ==
  ASSUME HInv, NEW n \in Nat, n <= wire, on_read = "selected_method", input + n >= 2,
         wire' = wire - n, socks_on_server_selected_method_readcb(input + n),
         UNCHANGED <<signalled, pump_method>>
  PROVE  HInv'
<1> DEFINE len == input + n
<1>0. /\ Stage /\ Bytes /\ Blame /\ client_state = "client_relay_connected"
      /\ input \in Nat /\ wire \in Nat /\ len \in Nat /\ wire - n \in Nat
      /\ len + (wire - n) = MethodBytes /\ creply = "none" /\ payload = 0
  BY DEF HInv, Stage, Bytes
<1>1. mreply # "none"
  BY <1>0 DEF MethodBytes
<1>2. UNCHANGED <<leftover, strayed, crashed, mreply, creply, payload, hangup>>
  BY DEF socks_on_server_selected_method_readcb, outcomeVars, socks_send_connect_request,
         send_connect_request_fails
<1>3. CASE MethodAccepted(len) /\ socks_send_connect_request(len - 2)
  <2>1. len = 2 /\ mreply \in {"noauth", "long"} /\ wire - n = StrayBytes
    BY <1>0, <1>3 DEF MethodAccepted, MethodBytes, MethodReplyLen, StrayBytes
  <2>2. /\ input' = 0 /\ request' = "connect" /\ low' = 10 /\ on_read' = "connect_reply"
        /\ ev_read' = TRUE /\ transocks_client_set_timeout
        /\ UNCHANGED <<client_state, relay_bev>>
    BY <1>3, <2>1 DEF socks_send_connect_request
  <2>3. Stage'
    BY <1>0, <2>2, TimerSet DEF Stage
  <2>4. Bytes'
    BY <1>0, <1>2, <2>1, <2>2 DEF Bytes, StrayBytes, ReplyBytes
  <2>5. ~Pumping' /\ ~Destroyed /\ ~Destroyed'
    BY <1>0, <2>2 DEF Pumping, Destroyed
  <2> QED BY <1>2, <2>2, <2>3, <2>4, <2>5, WaitHInv
<1>4. CASE MethodAccepted(len) /\ send_connect_request_fails(len - 2)
  <2>1. /\ transocks_client_free /\ faults' = faults \cup {"local"} /\ input' = len - 2
        /\ len - 2 \in Nat
    BY <1>0, <1>4 DEF send_connect_request_fails, MethodAccepted
  <2>2. Blame' /\ faults' # {} /\ OnlyLocalFaultsCrash'
    BY <1>0, <1>2, <2>1 DEF HInv, Blame, OnlyLocalFaultsCrash
  <2> QED BY <1>0, <1>2, <2>1, <2>2, FreeHInv DEF Bytes
<1>5. CASE ~MethodAccepted(len) /\ input' = len /\ transocks_client_free /\ UNCHANGED faults
  <2>1. mreply # "noauth"
    BY <1>0, <1>5 DEF MethodAccepted, MethodBytes, MethodReplyLen
  <2>2. Blame' /\ faults' # {} /\ OnlyLocalFaultsCrash'
    BY <1>0, <1>1, <1>2, <1>5, <2>1 DEF HInv, Blame, OnlyLocalFaultsCrash
  <2> QED BY <1>0, <1>2, <1>5, <2>2, FreeHInv DEF Bytes
<1> QED BY <1>3, <1>4, <1>5 DEF socks_on_server_selected_method_readcb

(* The connect reply has arrived, in whole or its first ten bytes. *)
LEMMA ReplyHInv ==
  ASSUME HInv, NEW n \in Nat, n <= wire, on_read = "connect_reply", input + n >= 10,
         wire' = wire - n, socks_on_server_connect_reply_readcb(input + n),
         UNCHANGED <<signalled, pump_method>>
  PROVE  HInv'
<1> DEFINE len == input + n
<1>0. /\ Stage /\ Bytes /\ Blame /\ client_state = "client_relay_connected"
      /\ input \in Nat /\ wire \in Nat /\ payload \in Nat /\ len \in Nat /\ wire - n \in Nat
      /\ len >= 10 /\ mreply \in {"noauth", "long"}
      /\ creply = "none" => payload = 0
      /\ len + (wire - n) = StrayBytes + ReplyBytes + payload
  BY DEF HInv, Stage, Bytes
<1>1. creply # "none"
  BY <1>0 DEF StrayBytes, ReplyBytes
<1>2. UNCHANGED <<request, mreply, creply, payload, hangup>>
  BY DEF socks_on_server_connect_reply_readcb
<1>3. CASE ReplyAccepted(len)
  <2>1. mreply = "noauth" /\ creply \in {"ipv4", "ipv6"} /\ StrayBytes = 0
    BY <1>0, <1>3 DEF ReplyAccepted, Header, StrayBytes
  <2>2. /\ DrainLen \in {10, 22} /\ len - Min(DrainLen, len) \in Nat
        /\ creply = "ipv4" => /\ DrainLen - Min(DrainLen, len) = 0
                              /\ (len - Min(DrainLen, len)) + (wire - n) = payload
    BY <1>0, <2>1 DEF DrainLen, Header, Min, ReplyBytes, ConnectReplyLen
  <2>3. CASE StartPump(len)
    <3>1. /\ client_state' = "client_pumping_data" /\ timeout_ev' = "idle" /\ ev_read' = FALSE
          /\ on_read' = "pump" /\ UNCHANGED <<relay_bev, low, crashed, faults>>
          /\ input' = len - Min(DrainLen, len) /\ leftover' = len - Min(DrainLen, len)
          /\ strayed' = DrainLen - Min(DrainLen, len)
      BY <2>3 DEF StartPump
    <3>2. Stage' /\ Bytes' /\ Blame'
      BY <1>0, <1>2, <2>2, <3>1 DEF Stage, Bytes, Blame, Pumping
    <3>3. WaitingIsTimed' /\ PumpIsUntimed' /\ PumpAfterSuccess' /\ NoSpuriousDrop'
      BY <1>2, <2>1, <3>1 DEF WaitingIsTimed, PumpIsUntimed, PumpAfterSuccess, NoSpuriousDrop,
                              Pumping, Destroyed
    <3>4. Ipv4PayloadAligned'
      BY <1>2, <2>2, <3>1 DEF Ipv4PayloadAligned
    <3>5. OnlyLocalFaultsCrash' /\ SignalClosesBuffered'
      BY <1>0, <3>1 DEF HInv, OnlyLocalFaultsCrash, SignalClosesBuffered, Destroyed
    <3> QED BY <3>2, <3>3, <3>4, <3>5 DEF HInv
  <2>4. CASE StartPumpFails(len)
    <3>1. /\ transocks_client_free /\ faults' = faults \cup {"local"}
          /\ input' = len - Min(DrainLen, len) /\ UNCHANGED <<leftover, strayed>>
          /\ crashed' => pump_method = "splicepump"
      BY <2>4 DEF StartPumpFails
    <3>2. Blame' /\ faults' # {} /\ OnlyLocalFaultsCrash'
      BY <1>0, <1>2, <3>1 DEF Blame, OnlyLocalFaultsCrash
    <3> QED BY <1>0, <1>2, <2>2, <3>1, <3>2, FreeHInv DEF Bytes
  <2> QED BY <1>3, <2>3, <2>4 DEF socks_on_server_connect_reply_readcb
<1>4. CASE ~ReplyAccepted(len)
  <2>1. /\ input' = len /\ transocks_client_free
        /\ UNCHANGED <<leftover, strayed, crashed, faults>>
    BY <1>4 DEF socks_on_server_connect_reply_readcb, outcomeVars
  <2>2. "bad_reply" \in faults
    BY <1>0, <1>1, <1>4 DEF ReplyAccepted, Header, Blame
  <2>3. Blame' /\ faults' # {} /\ OnlyLocalFaultsCrash'
    BY <1>0, <1>2, <2>1, <2>2 DEF HInv, Blame, OnlyLocalFaultsCrash
  <2> QED BY <1>0, <1>2, <2>1, <2>3, FreeHInv DEF Bytes
<1> QED BY <1>3, <1>4

(* A read of any length. *)
LEMMA ReadHInv ==
  ASSUME HInv, NEW n \in Nat, bufferevent_read(n)
  PROVE  HInv'
<1>0. /\ ev_read /\ n <= wire /\ UNCHANGED <<signalled, pump_method>>
      /\ on_read \in {"selected_method", "connect_reply"}
      /\ low = IF on_read = "selected_method" THEN 2 ELSE 10
      /\ input \in Nat
  BY DEF bufferevent_read, HInv, Stage, Bytes
<1>1. CASE input + n < low
  BY <1>0, <1>1, ShortReadHInv DEF bufferevent_read
<1>2. CASE ~(input + n < low)
  <2>1. CASE NullTimer
    BY <1>0, <2>1, NullTimerHInv
  <2>2. CASE /\ wire' = wire - n
             /\ \/ /\ on_read = "selected_method"
                   /\ socks_on_server_selected_method_readcb(input + n)
                \/ /\ on_read = "connect_reply"
                   /\ socks_on_server_connect_reply_readcb(input + n)
    <3>1. input + n >= low
      BY <1>0, <1>2
    <3> QED BY <1>0, <2>2, <3>1, MethodHInv, ReplyHInv
  <2> QED BY <1>2, <2>1, <2>2 DEF bufferevent_read
<1> QED BY <1>1, <1>2

(* The server hangs up, the timer expires, or SIGUSR1 is handled. *)
LEMMA EndHInv ==
  ASSUME HInv, socks_handshake_stage_errcb \/ socks5_timeout_cb \/ transocks_drop_all_clients
  PROVE  HInv'
<1>1. CASE transocks_client_free
  <2>1. /\ UNCHANGED <<pump_method, input, leftover, strayed, crashed, request, mreply, creply,
                       wire, payload, hangup>>
        /\ \/ faults' = faults /\ hangup
           \/ \E f \in {"timeout", "signal"} : faults' = faults \cup {f}
    <3>1. CASE socks_handshake_stage_errcb
      BY <1>1, <3>1 DEF socks_handshake_stage_errcb, NullTimer, transocks_client_free, HInv,
                        Stage, outcomeVars, serverVars
    <3>2. CASE socks5_timeout_cb
      BY <3>2 DEF socks5_timeout_cb, outcomeVars, serverVars
    <3>3. CASE transocks_drop_all_clients
      <4>1. client_state # "client_DESTROYED"
        BY <3>3 DEF transocks_drop_all_clients, HInv, Stage
      <4> QED BY <1>1, <3>3, <4>1 DEF transocks_drop_all_clients, transocks_client_free,
                                      outcomeVars, serverVars
    <3> QED BY <3>1, <3>2, <3>3
  <2>2. Blame' /\ faults' # {} /\ OnlyLocalFaultsCrash'
    BY <2>1 DEF HInv, Blame, OnlyLocalFaultsCrash
  <2> QED BY <1>1, <2>1, <2>2, FreeHInv DEF HInv, Bytes
<1>2. CASE socks_handshake_stage_errcb /\ NullTimer
  BY <1>2, NullTimerHInv DEF socks_handshake_stage_errcb, HInv, Stage
<1>3. CASE transocks_drop_all_clients /\ pump_method = "splicepump"
  <2>1. /\ UNCHANGED <<client_state, relay_bev, on_read, low, ev_read, timeout_ev, faults,
                       pump_method, input, leftover, strayed, crashed, request, mreply, creply,
                       wire, payload, hangup>>
    BY <1>3 DEF transocks_drop_all_clients, outcomeVars, serverVars
  <2>2. Stage' /\ Blame'
    BY <2>1 DEF HInv, Stage, Blame, Pumping
  <2>3. Bytes'
    BY <2>1 DEF HInv, Bytes, MethodBytes, ReplyBytes, StrayBytes
  <2> QED BY <1>3, <2>1, <2>2, <2>3 DEF HInv, WaitingIsTimed, PumpIsUntimed, PumpAfterSuccess,
       Ipv4PayloadAligned, NoSpuriousDrop, OnlyLocalFaultsCrash, SignalClosesBuffered,
       Pumping, Destroyed
<1> QED BY <1>1, <1>2, <1>3 DEF socks_handshake_stage_errcb, socks5_timeout_cb,
           transocks_drop_all_clients

(* What the server sends only adds to the wire. *)
LEMMA ServerHInv ==
  ASSUME HInv, ServerStep
  PROVE  HInv'
<1>0. /\ Stage /\ Bytes /\ Blame /\ relay_bev = "live" /\ ~Pumping
      /\ on_read \in {"relay_onconnect", "selected_method", "connect_reply"}
      /\ client_state # "client_DESTROYED"
      /\ UNCHANGED <<client_state, relay_bev, on_read, low, ev_read, input, timeout_ev, leftover,
                     strayed, crashed, signalled, pump_method>>
  BY DEF HInv, Stage, ServerStep, Pumping, bevVars, outcomeVars
<1>1. /\ faults \subseteq faults' /\ ("timer" \in faults' => "timer" \in faults)
      /\ Blame' /\ Bytes'
  <2>1. ASSUME NEW k \in MethodReplies, ServerSelectsMethod(k)
        PROVE  faults \subseteq faults' /\ ("timer" \in faults' => "timer" \in faults)
               /\ Blame' /\ Bytes'
    <3>1. /\ request = "method" /\ mreply = "none" /\ mreply' = k
          /\ wire' = wire + MethodReplyLen(k)
          /\ faults' = (IF k = "noauth" THEN faults ELSE faults \cup {"bad_reply"})
          /\ UNCHANGED <<request, creply, payload, hangup>>
      BY <2>1 DEF ServerSelectsMethod
    <3>2. on_read = "selected_method" /\ k # "none"
      BY <1>0, <3>1, MethodRepliesAssumption DEF Stage, Bytes
    <3>3. Bytes'
      <4>1. input + wire = 0 /\ input \in Nat /\ wire \in Nat /\ MethodReplyLen(k) \in Nat
        BY <1>0, <3>1, <3>2 DEF Bytes, MethodBytes, MethodReplyLen
      <4>2. input' + wire' = MethodReplyLen(k) /\ wire' \in Nat
        BY <1>0, <3>1, <4>1
      <4> QED BY <1>0, <3>1, <3>2, <4>2 DEF Bytes, MethodBytes, Stage
    <3> QED BY <1>0, <3>1, <3>3 DEF Blame
  <2>2. ASSUME NEW k \in ConnectReplies, ServerReplies(k)
        PROVE  faults \subseteq faults' /\ ("timer" \in faults' => "timer" \in faults)
               /\ Blame' /\ Bytes'
    <3>1. /\ request = "connect" /\ creply = "none" /\ creply' = k
          /\ wire' = wire + ConnectReplyLen(k)
          /\ faults' = (IF k \in {"ipv4", "ipv6"} THEN faults ELSE faults \cup {"bad_reply"})
          /\ UNCHANGED <<request, mreply, payload, hangup>>
      BY <2>2 DEF ServerReplies
    <3>2. on_read = "connect_reply" /\ k # "none"
      BY <1>0, <3>1, ConnectRepliesAssumption DEF Stage, Bytes
    <3>3. Bytes'
      <4>1. /\ input + wire = StrayBytes /\ payload = 0 /\ input \in Nat /\ wire \in Nat
            /\ ConnectReplyLen(k) \in Nat /\ StrayBytes \in Nat
        BY <1>0, <3>1, <3>2 DEF Bytes, ReplyBytes, StrayBytes, ConnectReplyLen
      <4>2. input' + wire' = StrayBytes + ConnectReplyLen(k) + payload' /\ wire' \in Nat
        BY <1>0, <3>1, <4>1
      <4> QED BY <1>0, <3>1, <3>2, <4>1, <4>2 DEF Bytes, ReplyBytes, StrayBytes, Stage
    <3> QED BY <1>0, <3>1, <3>3 DEF Blame
  <2>3. ASSUME ServerSendsPayload
        PROVE  faults \subseteq faults' /\ ("timer" \in faults' => "timer" \in faults)
               /\ Blame' /\ Bytes'
    <3>1. /\ creply # "none" /\ payload' = payload + 1 /\ wire' = wire + 1
          /\ UNCHANGED <<request, mreply, creply, hangup, faults>>
      BY <2>3 DEF ServerSendsPayload
    <3>2. on_read = "connect_reply"
      BY <1>0, <3>1 DEF Stage, Bytes
    <3>3. Bytes'
      <4>1. /\ input + wire = StrayBytes + ReplyBytes + payload /\ payload \in Nat
            /\ input \in Nat /\ wire \in Nat /\ StrayBytes \in Nat /\ ReplyBytes \in Nat
        BY <1>0, <3>2 DEF Bytes, ReplyBytes, StrayBytes, ConnectReplyLen
      <4>2. /\ input' + wire' = StrayBytes + ReplyBytes + payload'
            /\ wire' \in Nat /\ payload' \in Nat
        BY <1>0, <3>1, <4>1
      <4> QED BY <1>0, <3>1, <3>2, <4>2 DEF Bytes, ReplyBytes, StrayBytes, Stage
    <3> QED BY <1>0, <3>1, <3>3 DEF Blame
  <2>4. ASSUME ServerHangsUp
        PROVE  faults \subseteq faults' /\ ("timer" \in faults' => "timer" \in faults)
               /\ Blame' /\ Bytes'
    BY <1>0, <2>4 DEF ServerHangsUp, Blame, Bytes, MethodBytes, ReplyBytes, StrayBytes
  <2> QED BY <2>1, <2>2, <2>3, <2>4 DEF ServerStep
<1>2. Stage'
  BY <1>0 DEF Stage, Pumping
<1>3. WaitingIsTimed' /\ PumpIsUntimed' /\ PumpAfterSuccess' /\ Ipv4PayloadAligned'
  BY <1>0, <1>1 DEF HInv, WaitingIsTimed, PumpIsUntimed, PumpAfterSuccess, Ipv4PayloadAligned,
                    Pumping
<1>4. NoSpuriousDrop' /\ OnlyLocalFaultsCrash' /\ SignalClosesBuffered'
  BY <1>0, <1>1 DEF HInv, NoSpuriousDrop, OnlyLocalFaultsCrash, SignalClosesBuffered, Destroyed
<1> QED BY <1>1, <1>2, <1>3, <1>4 DEF HInv

(* Every step keeps the invariant. *)
LEMMA NextHInv == HInv /\ [Next]_vars => HInv'
<1> SUFFICES ASSUME HInv, [Next]_vars PROVE HInv'
  OBVIOUS
<1>1. CASE Next
  <2>1. \A n \in 1 .. MaxWire : bufferevent_read(n) => HInv'
    BY ReadHInv
  <2> QED BY <1>1, <2>1, StartHInv, StartFailsHInv, ConnectHInv, EndHInv, ServerHInv
             DEF Next, BufferEvent
<1>2. CASE UNCHANGED vars
  <2>1. UNCHANGED <<pump_method, client_state, relay_bev, on_read, low, ev_read, input, timeout_ev,
                    leftover, strayed, crashed, request, mreply, creply, wire, payload, hangup,
                    signalled, faults>>
    BY <1>2 DEF vars, bevVars, serverVars, outcomeVars
  <2>2. Stage' /\ Blame'
    BY <2>1 DEF HInv, Stage, Blame, Pumping
  <2>3. Bytes'
    BY <2>1 DEF HInv, Bytes, MethodBytes, ReplyBytes, StrayBytes
  <2>4. WaitingIsTimed' /\ PumpIsUntimed' /\ PumpAfterSuccess' /\ Ipv4PayloadAligned'
    BY <2>1 DEF HInv, WaitingIsTimed, PumpIsUntimed, PumpAfterSuccess, Ipv4PayloadAligned, Pumping
  <2>5. NoSpuriousDrop' /\ OnlyLocalFaultsCrash' /\ SignalClosesBuffered'
    BY <2>1 DEF HInv, NoSpuriousDrop, OnlyLocalFaultsCrash, SignalClosesBuffered, Destroyed
  <2> QED BY <2>2, <2>3, <2>4, <2>5 DEF HInv
<1> QED BY <1>1, <1>2

(* Whatever reply it was, what the pump will find is what the server has   *)
(* sent after it, and what of the reply was not drained.  The buffer was   *)
(* filled at most up to the high watermark, and ten bytes have left it.    *)
LEMMA PumpStarts ==
  ASSUME HInv, Next, ~Pumping, Pumping'
  PROVE  /\ strayed' \in Nat /\ leftover' + wire' = payload' + strayed'
         /\ input' < BufSize /\ leftover' = input'
<1>1. PICK n \in 1 .. MaxWire : bufferevent_read(n)
  BY DEF Next, BufferEvent, transocks_start_connect_relay, start_connect_relay_fails_local,
     start_connect_relay_fails_connect, relay_onconnect_eventcb, OnConnected, OnConnectError,
     NullTimer, socks_handshake_stage_errcb, socks5_timeout_cb, transocks_drop_all_clients,
     ServerStep, transocks_client_free, Pumping
<1>2. PICK len : len = input + n
  OBVIOUS
<1>3. /\ n \in Nat /\ n <= wire /\ on_read = "connect_reply" /\ wire' = wire - n
      /\ socks_on_server_connect_reply_readcb(len)
  <2>1. n \in Nat
    BY MaxPayloadAssumption DEF MaxWire
  <2>2. client_state' # client_state
    BY DEF Pumping
  <2>3. ~NullTimer
    BY <2>2 DEF NullTimer
  <2>4. ~socks_on_server_selected_method_readcb(len)
    BY <2>2 DEF socks_on_server_selected_method_readcb, socks_send_connect_request,
                send_connect_request_fails, transocks_client_free, Pumping
  <2> QED BY <1>1, <1>2, <2>1, <2>2, <2>3, <2>4 DEF bufferevent_read
<1>4. ReplyAccepted(len) /\ StartPump(len) /\ UNCHANGED <<mreply, creply, payload>>
  BY <1>3 DEF socks_on_server_connect_reply_readcb, StartPumpFails, transocks_client_free, Pumping
<1>5. PICK w, d : w = wire - n /\ d = DrainLen
  OBVIOUS
<1>6. /\ payload \in Nat /\ len \in Nat /\ w \in Nat
      /\ len + w = StrayBytes + ReplyBytes + payload
  BY <1>2, <1>3, <1>5 DEF HInv, Bytes
<1>7. StrayBytes = 0 /\ ReplyBytes = d /\ d \in Nat
  BY <1>4, <1>5 DEF ReplyAccepted, Header, StrayBytes, ReplyBytes, DrainLen, ConnectReplyLen
<1>8. len + w = d + payload
  BY <1>6, <1>7
<1>9. d - Min(d, len) \in Nat /\ (len - Min(d, len)) + w = payload + (d - Min(d, len))
  <2>1. payload \in Nat /\ len \in Nat /\ w \in Nat /\ d \in Nat
    BY <1>6, <1>7
  <2> QED BY <1>8, <2>1 DEF Min
<1>10. len - Min(d, len) < BufSize
  <2>1. len <= BufSize
    BY <1>1, <1>2 DEF bufferevent_read, read_high
  <2>2. len >= 10 /\ d \in {10, 22}
    BY <1>4, <1>5 DEF ReplyAccepted, DrainLen
  <2>3. len \in Nat /\ d \in Nat /\ BufSize \in Nat
    BY <1>6, <1>7, WatermarkAssumption
  <2> QED BY <2>1, <2>2, <2>3 DEF Min
<1> QED BY <1>3, <1>4, <1>5, <1>9, <1>10 DEF StartPump

(* Once the pump runs, nothing of the handshake happens any more. *)
LEMMA PumpEndsHandshake ==
  ASSUME HInv, Pumping
  PROVE  ~Next
<1>1. /\ on_read = "pump" /\ ~ev_read /\ relay_bev = "live" /\ timeout_ev # "pending"
      /\ client_state = "client_pumping_data"
  BY DEF HInv, Stage, PumpIsUntimed, Pumping
<1> QED BY <1>1 DEF Next, BufferEvent, transocks_start_connect_relay,
     start_connect_relay_fails_local, start_connect_relay_fails_connect,
     relay_onconnect_eventcb, bufferevent_read, socks_handshake_stage_errcb,
     socks5_timeout_cb, transocks_drop_all_clients, ServerStep, Pumping

(* Payload comes from the server one byte at a time, and the step that     *)
(* brings one moves nothing else of the handshake on.                      *)
LEMMA PayloadGrows ==
  ASSUME Next
  PROVE  payload' = payload \/ (payload' = payload + 1 /\ UNCHANGED client_state)
<1>1. CASE ServerStep
  BY <1>1 DEF ServerStep, ServerSelectsMethod, ServerReplies, ServerSendsPayload, ServerHangsUp
<1>2. ASSUME NEW n, bufferevent_read(n)
      PROVE  payload' = payload
  BY <1>2 DEF bufferevent_read, NullTimer, serverVars, socks_on_server_selected_method_readcb,
       socks_send_connect_request, send_connect_request_fails,
       socks_on_server_connect_reply_readcb
<1>3. CASE relay_onconnect_eventcb
  BY <1>3 DEF relay_onconnect_eventcb, OnConnected, socks_send_method_selection,
       OnConnectError, NullTimer, serverVars
<1> QED
  BY <1>1, <1>2, <1>3 DEF Next, BufferEvent, serverVars, NullTimer,
     transocks_start_connect_relay, start_connect_relay_fails_local,
     start_connect_relay_fails_connect, socks_handshake_stage_errcb, socks5_timeout_cb,
     transocks_drop_all_clients

(* The inductive invariant of the handshake. *)
THEOREM HandshakeInvariance == Spec => []HInv
BY InitHInv, NextHInv, PTL DEF Spec

(* While it waits for the relay a client has a timer running, at every     *)
(* stage of the handshake, unless a timer could not be set.                *)
THEOREM TimersRight == Spec => []WaitingIsTimed
<1>1. HInv => WaitingIsTimed
  BY DEF HInv
<1> QED BY <1>1, HandshakeInvariance, PTL

(* Once the pump runs, the timer of the handshake cannot end it any more.  *)
THEOREM NoTimerWhilePumping == Spec => []PumpIsUntimed
<1>1. HInv => PumpIsUntimed
  BY DEF HInv
<1> QED BY <1>1, HandshakeInvariance, PTL

(* The pump starts only when the server has granted the connection.        *)
THEOREM GrantedFirst == Spec => []PumpAfterSuccess
<1>1. HInv => PumpAfterSuccess
  BY DEF HInv
<1> QED BY <1>1, HandshakeInvariance, PTL

(* After an IPv4 reply the pump starts at the first byte of the payload,   *)
(* however much payload comes with the reply and wherever it is cut.       *)
THEOREM PayloadFromItsStart == Spec => []Ipv4PayloadAligned
<1>1. HInv => Ipv4PayloadAligned
  BY DEF HInv
<1> QED BY <1>1, HandshakeInvariance, PTL

(* The pump finds room in the input buffer of relay_bev, whatever payload  *)
(* the server sends along with its reply.                                  *)
THEOREM PumpCanRead == Spec => []RoomToRead
<1>1. Init => RoomToRead
  BY DEF Init, RoomToRead, Pumping
<1>2. HInv /\ RoomToRead /\ [Next]_vars => RoomToRead'
  <2> SUFFICES ASSUME HInv, RoomToRead, [Next]_vars, Pumping' PROVE input' < BufSize
    BY DEF RoomToRead
  <2>1. CASE Next
    BY <2>1, PumpEndsHandshake, PumpStarts
  <2>2. CASE UNCHANGED vars
    BY <2>2 DEF vars, bevVars, RoomToRead, Pumping
  <2> QED BY <2>1, <2>2
<1> QED BY <1>1, <1>2, HandshakeInvariance, PTL DEF Spec

(* A handshake is not given up without a reason outside the program.       *)
THEOREM DropsHaveReasons == Spec => []NoSpuriousDrop
<1>1. HInv => NoSpuriousDrop
  BY DEF HInv
<1> QED BY <1>1, HandshakeInvariance, PTL

(* What the server does cannot kill the process.                           *)
THEOREM ServerCannotCrash == Spec => []OnlyLocalFaultsCrash
<1>1. HInv => OnlyLocalFaultsCrash
  BY DEF HInv
<1> QED BY <1>1, HandshakeInvariance, PTL

(***************************************************************************)
(* Types.  What can be in the buffer or on the wire is bounded by the      *)
(* longest replies and the payload, so the lengths are too.                *)
(***************************************************************************)
Room == input + wire <= 25 + payload /\ payload <= MaxPayload

Faults == {"local", "connect", "refused", "timer", "timeout", "hangup", "bad_reply",
           "signal"}

Kinds ==
  /\ pump_method \in PumpMethods /\ low \in 0 .. 10 /\ strayed \in 0 .. 22
  /\ leftover <= MaxPayload
  /\ crashed \in BOOLEAN /\ hangup \in BOOLEAN /\ signalled \in BOOLEAN
  /\ request \in {"none", "method", "connect"}
  /\ mreply \in MethodReplies \cup {"none"} /\ creply \in ConnectReplies \cup {"none"}
  /\ faults \subseteq Faults

(* Together they are the type invariant. *)
LEMMA Types == ASSUME HInv, Room, Kinds PROVE TypeOK
<1>1. /\ relay_bev \in {"null", "live"}
      /\ client_state \in {"client_NEW", "client_relay_connected",
                           "client_pumping_data", "client_DESTROYED"}
      /\ on_read \in {"none", "relay_onconnect", "selected_method", "connect_reply", "pump"}
      /\ timeout_ev \in {"null", "idle", "pending"} /\ ev_read \in BOOLEAN
  BY DEF HInv, Stage, Pumping
<1>2. input \in 0 .. MaxWire /\ wire \in 0 .. MaxWire /\ payload \in 0 .. MaxPayload
      /\ leftover \in 0 .. MaxPayload
  BY MaxPayloadAssumption DEF HInv, Bytes, Room, MaxWire, Kinds
<1> QED BY <1>1, <1>2 DEF TypeOK, Kinds, Faults

(* The arithmetic of lengths: input i, wire w, payload p. *)
LEMMA StaysBelow ==
  ASSUME NEW i \in Nat, NEW w \in Nat, NEW p \in Nat, NEW j \in Nat, NEW v \in Nat,
         i + w <= 25 + p, j + v <= i + w
  PROVE  j + v <= 25 + p
OBVIOUS

LEMMA ReadMoves ==
  ASSUME NEW i \in Nat, NEW w \in Nat, NEW n \in Nat, n <= w, NEW j \in Nat, j <= i + n
  PROVE  w - n \in Nat /\ j + (w - n) <= i + w
OBVIOUS

LEMMA DrainLeaves ==
  ASSUME NEW len \in Nat, NEW d \in Nat, NEW v \in Nat, NEW p \in Nat,
         NEW s \in {0}, len + v = s + d + p
  PROVE  len - Min(d, len) <= p
BY DEF Min

LEMMA MessagesFit ==
  ASSUME NEW i \in Nat, NEW w \in Nat, NEW p \in Nat, NEW s \in 0 .. 3, NEW r \in 0 .. 22,
         i + w = s + r + p
  PROVE  i + w <= 25 + p
OBVIOUS

(* Only the server adds to what is in the buffer or on the wire. *)
LEMMA OwnStepRoom ==
  ASSUME HInv, Room, input' \in Nat, wire' \in Nat, payload' = payload,
         input' + wire' <= input + wire
  PROVE  Room'
<1>1. input \in Nat /\ wire \in Nat /\ payload \in Nat
  BY DEF HInv, Bytes
<1>2. input' + wire' <= 25 + payload
  BY <1>1, StaysBelow DEF Room
<1> QED BY <1>2 DEF Room

LEMMA TimerKinds ==
  ASSUME Kinds, transocks_client_set_timeout
  PROVE  faults' \subseteq Faults
BY DEF Kinds, transocks_client_set_timeout, Faults

(* Steps that neither read nor write. *)
LEMMA QuietTypes ==
  ASSUME HInv, Room, Kinds,
         \/ transocks_start_connect_relay \/ start_connect_relay_fails_local
         \/ start_connect_relay_fails_connect \/ relay_onconnect_eventcb
         \/ socks_handshake_stage_errcb \/ socks5_timeout_cb \/ transocks_drop_all_clients
  PROVE  Room' /\ Kinds'
<1>1. UNCHANGED <<input, wire, payload, pump_method, mreply, creply, hangup, leftover, strayed>>
  BY DEF transocks_start_connect_relay, start_connect_relay_fails_local, NullTimer,
     start_connect_relay_fails_connect, relay_onconnect_eventcb, OnConnected, OnConnectError,
     socks_send_method_selection, socks_handshake_stage_errcb, socks5_timeout_cb,
     transocks_drop_all_clients, serverVars, outcomeVars, bevVars
<1>2. low' \in {low, 2} /\ request' \in {request, "method"}
  BY DEF transocks_start_connect_relay, start_connect_relay_fails_local, NullTimer,
     start_connect_relay_fails_connect, relay_onconnect_eventcb, OnConnected, OnConnectError,
     socks_send_method_selection, socks_handshake_stage_errcb, socks5_timeout_cb,
     transocks_drop_all_clients, serverVars, bevVars, transocks_client_free
<1>3. crashed' \in BOOLEAN /\ signalled' \in BOOLEAN
  BY DEF Kinds, transocks_start_connect_relay, start_connect_relay_fails_local, NullTimer,
     start_connect_relay_fails_connect, relay_onconnect_eventcb, OnConnected, OnConnectError,
     socks_handshake_stage_errcb, socks5_timeout_cb, transocks_drop_all_clients, outcomeVars
<1>4. faults' \subseteq Faults
  <2>1. transocks_client_set_timeout \/ faults' = faults
          \/ \E f \in Faults : faults' = faults \cup {f}
    BY DEF transocks_start_connect_relay, start_connect_relay_fails_local, NullTimer,
       start_connect_relay_fails_connect, relay_onconnect_eventcb, OnConnected, OnConnectError,
       socks_send_method_selection, socks_handshake_stage_errcb, socks5_timeout_cb,
       transocks_drop_all_clients, Faults
  <2> QED BY <2>1, TimerKinds DEF Kinds
<1>5. Room'
  BY <1>1, OwnStepRoom DEF HInv, Bytes
<1> QED BY <1>1, <1>2, <1>3, <1>4, <1>5 DEF Kinds

(* A read moves bytes from the wire to the buffer, and a reply is drained. *)
LEMMA ReadTypes ==
  ASSUME HInv, Room, Kinds, NEW n \in Nat, bufferevent_read(n)
  PROVE  Room' /\ Kinds'
<1>0. /\ ev_read /\ n <= wire /\ UNCHANGED <<signalled, pump_method>>
      /\ input \in Nat /\ wire \in Nat /\ payload \in Nat /\ input + n \in Nat
      /\ wire - n \in Nat
  BY DEF bufferevent_read, HInv, Bytes
<1>1. CASE input + n < low
  <2>1. /\ input' = input + n /\ wire' = wire - n
        /\ UNCHANGED <<low, leftover, strayed, crashed, request, mreply, creply, payload,
                       hangup, faults>>
    BY <1>1 DEF bufferevent_read, outcomeVars
  <2>2. Room'
    BY <1>0, <2>1, OwnStepRoom
  <2> QED BY <1>0, <2>1, <2>2 DEF Kinds
<1>2. CASE NullTimer
  <2>1. /\ crashed' = TRUE
        /\ UNCHANGED <<low, leftover, strayed, request, mreply, creply, payload, hangup,
                       faults, input, wire>>
    BY <1>2 DEF NullTimer, bevVars, serverVars
  <2>2. Room'
    BY <1>0, <2>1, OwnStepRoom
  <2> QED BY <1>0, <2>1, <2>2 DEF Kinds
<1>3. CASE wire' = wire - n /\ socks_on_server_selected_method_readcb(input + n)
  <2>1. UNCHANGED <<leftover, strayed, crashed, mreply, creply, payload, hangup>>
    BY <1>3 DEF socks_on_server_selected_method_readcb, outcomeVars,
       socks_send_connect_request, send_connect_request_fails
  <2>2. input' \in Nat /\ input' <= input + n
    BY <1>0, <1>3 DEF socks_on_server_selected_method_readcb, MethodAccepted,
       socks_send_connect_request, send_connect_request_fails
  <2>3. low' \in {low, 10} /\ request' \in {request, "connect"}
    BY <1>3 DEF socks_on_server_selected_method_readcb, transocks_client_free,
       socks_send_connect_request, send_connect_request_fails
  <2>4. faults' \subseteq Faults
    BY <1>3, TimerKinds DEF socks_on_server_selected_method_readcb,
       socks_send_connect_request, send_connect_request_fails, Kinds, Faults
  <2>5. Room'
    <3>1. wire' \in Nat /\ input' + wire' <= input + wire
      BY <1>0, <1>3, <2>2, ReadMoves
    <3> QED BY <2>1, <2>2, <3>1, OwnStepRoom
  <2> QED BY <1>0, <2>1, <2>3, <2>4, <2>5 DEF Kinds
<1>4. CASE /\ on_read = "connect_reply" /\ wire' = wire - n
           /\ socks_on_server_connect_reply_readcb(input + n)
  <2>0. PICK len : len = input + n
    OBVIOUS
  <2>1. UNCHANGED <<request, mreply, creply, payload, hangup>>
    BY <1>4 DEF socks_on_server_connect_reply_readcb
  <2>2. /\ len + wire' = StrayBytes + ReplyBytes + payload /\ len \in Nat /\ wire' \in Nat
        /\ StrayBytes \in {0, 1} /\ ReplyBytes \in {0, 8, 10, 22}
    BY <1>0, <1>4, <2>0 DEF HInv, Bytes, StrayBytes, ReplyBytes, ConnectReplyLen
  <2>3. low' = low /\ faults' \subseteq Faults /\ crashed' \in BOOLEAN
    BY <1>4 DEF socks_on_server_connect_reply_readcb, transocks_client_free, StartPump,
       StartPumpFails, outcomeVars, Kinds, Faults
  <2>4. /\ DrainLen \in {10, 22} /\ Min(DrainLen, len) \in Nat /\ Min(DrainLen, len) <= len
        /\ Min(DrainLen, len) <= DrainLen
    BY <2>2 DEF DrainLen, Min
  <2>5. input' \in {len, len - Min(DrainLen, len)}
    BY <1>4, <2>0 DEF socks_on_server_connect_reply_readcb, StartPump, StartPumpFails
  <2>6. input' \in Nat /\ input' <= len
    BY <2>2, <2>4, <2>5
  <2>7. Room'
    <3>1. wire' \in Nat /\ input' + wire' <= input + wire
      BY <1>0, <1>4, <2>0, <2>6, ReadMoves
    <3> QED BY <2>1, <2>6, <3>1, OwnStepRoom
  <2>8. /\ strayed' \in 0 .. 22 /\ leftover' <= MaxPayload
    <3>1. CASE UNCHANGED <<strayed, leftover>>
      BY <3>1 DEF Kinds
    <3>2. CASE ReplyAccepted(len) /\ StartPump(len)
      <4>1. /\ leftover' = len - Min(DrainLen, len) /\ strayed' = DrainLen - Min(DrainLen, len)
        BY <3>2 DEF StartPump
      <4>2. StrayBytes = 0 /\ ReplyBytes = DrainLen
        BY <3>2 DEF ReplyAccepted, Header, StrayBytes, ReplyBytes, DrainLen, ConnectReplyLen
      <4>3. strayed' \in 0 .. 22
        BY <2>4, <4>1
      <4>4. len - Min(DrainLen, len) <= payload
        <5>1. PICK d \in {10, 22} : d = DrainLen
          BY <2>4
        <5>2. len + wire' = StrayBytes + d + payload /\ StrayBytes \in {0}
          BY <2>2, <4>2, <5>1
        <5>3. len \in Nat /\ d \in Nat /\ wire' \in Nat /\ payload \in Nat
          BY <1>0, <2>2, <5>1
        <5>4. len - Min(d, len) <= payload
          BY <5>2, <5>3, DrainLeaves
        <5> QED BY <5>1, <5>4
      <4> QED BY <1>0, <2>2, <2>4, <4>1, <4>3, <4>4, MaxPayloadAssumption DEF Room
    <3> QED BY <1>4, <2>0, <3>1, <3>2 DEF socks_on_server_connect_reply_readcb,
               StartPumpFails, outcomeVars
  <2> QED BY <1>0, <2>1, <2>3, <2>7, <2>8 DEF Kinds
<1> QED BY <1>1, <1>2, <1>3, <1>4 DEF bufferevent_read

(* What the server sends is bounded by the stage the handshake is in. *)
LEMMA ServerTypes ==
  ASSUME HInv, HInv', Room, Kinds, ServerStep
  PROVE  Room' /\ Kinds'
<1>1. /\ on_read' \in {"relay_onconnect", "selected_method", "connect_reply"}
      /\ UNCHANGED <<low, strayed, leftover, crashed, signalled, pump_method>>
  BY DEF HInv, Stage, ServerStep, Pumping, bevVars, outcomeVars
<1>2. /\ payload' <= MaxPayload /\ request' = request /\ hangup' \in BOOLEAN
      /\ mreply' \in MethodReplies \cup {"none"} /\ creply' \in ConnectReplies \cup {"none"}
      /\ faults' \subseteq Faults
  <2>1. ASSUME NEW k \in MethodReplies, ServerSelectsMethod(k)
        PROVE  mreply' \in MethodReplies /\ UNCHANGED <<request, creply, payload, hangup>>
               /\ faults' \subseteq Faults
    BY <2>1 DEF ServerSelectsMethod, Kinds, Faults
  <2>2. ASSUME NEW k \in ConnectReplies, ServerReplies(k)
        PROVE  creply' \in ConnectReplies /\ UNCHANGED <<request, mreply, payload, hangup>>
               /\ faults' \subseteq Faults
    BY <2>2 DEF ServerReplies, Kinds, Faults
  <2>3. ASSUME ServerSendsPayload
        PROVE  payload' <= MaxPayload /\ UNCHANGED <<request, mreply, creply, hangup, faults>>
    <3>1. payload \in Nat /\ payload < MaxPayload /\ payload' = payload + 1
      BY <2>3 DEF ServerSendsPayload, HInv, Bytes
    <3> QED BY <2>3, <3>1, MaxPayloadAssumption DEF ServerSendsPayload
  <2>4. ASSUME ServerHangsUp
        PROVE  hangup' = TRUE /\ UNCHANGED <<request, mreply, creply, payload>>
               /\ faults' \subseteq Faults
    BY <2>4 DEF ServerHangsUp, Kinds, Faults
  <2> QED BY <2>1, <2>2, <2>3, <2>4 DEF ServerStep, Kinds, Room
<1>3. Bytes' /\ Stage'
  BY DEF HInv
<1>4. payload' \in Nat /\ input' + wire' <= 25 + payload'
  <2>1. MethodBytes' <= 3 /\ StrayBytes' <= 1 /\ ReplyBytes' <= 22
        /\ MethodBytes' \in Nat /\ StrayBytes' \in Nat /\ ReplyBytes' \in Nat
    BY DEF MethodBytes, StrayBytes, ReplyBytes, MethodReplyLen, ConnectReplyLen
  <2>2. payload' \in Nat /\ input' \in Nat /\ wire' \in Nat
    BY <1>3 DEF Bytes
  <2>3. CASE on_read' = "relay_onconnect"
    BY <1>3, <2>2, <2>3 DEF Bytes, Stage
  <2>4. CASE on_read' = "selected_method"
    <3>1. input' + wire' = MethodBytes' /\ payload' = 0
      BY <1>3, <2>4 DEF Bytes
    <3>2. PICK m \in 0 .. 3 : m = MethodBytes'
      BY <2>1
    <3> QED BY <3>1, <3>2
  <2>5. CASE on_read' = "connect_reply"
    <3>1. input' + wire' = StrayBytes' + ReplyBytes' + payload'
      BY <1>3, <2>5 DEF Bytes
    <3>2. StrayBytes' \in 0 .. 3 /\ ReplyBytes' \in 0 .. 22
      BY <2>1
    <3> QED BY <2>2, <3>1, <3>2, MessagesFit
  <2> QED BY <1>1, <2>2, <2>3, <2>4, <2>5
<1> QED BY <1>1, <1>2, <1>4 DEF Kinds, Room

(* Every variable of the handshake keeps its type: in particular no drain  *)
(* takes more out of the input buffer than it holds, and no more than the  *)
(* payload is left to the pump.                                            *)
THEOREM HandshakeTypes == Spec => []TypeOK
<1>1. Init => Room /\ Kinds
  <2> SUFFICES ASSUME Init PROVE Room /\ Kinds
    OBVIOUS
  <2>1. Room
    BY MaxPayloadAssumption DEF Init, Room
  <2>2. Kinds
    <3>1. 0 <= MaxPayload /\ 0 \in 0 .. 10 /\ 0 \in 0 .. 22
      BY MaxPayloadAssumption
    <3> QED BY <3>1 DEF Init, Kinds
  <2> QED BY <2>1, <2>2
<1>2. HInv /\ HInv' /\ Room /\ Kinds /\ [Next]_vars => Room' /\ Kinds'
  <2> SUFFICES ASSUME HInv, HInv', Room, Kinds, [Next]_vars PROVE Room' /\ Kinds'
    OBVIOUS
  <2>1. CASE UNCHANGED vars
    BY <2>1 DEF vars, bevVars, serverVars, outcomeVars, Room, Kinds
  <2>2. \A n \in 1 .. MaxWire : bufferevent_read(n) => Room' /\ Kinds'
    BY ReadTypes
  <2>3. CASE Next
    BY <2>2, <2>3, QuietTypes, ServerTypes DEF Next, BufferEvent
  <2> QED BY <2>1, <2>3
<1>3. HInv /\ Room /\ Kinds => TypeOK
  BY Types
<1> QED BY <1>1, <1>2, <1>3, HandshakeInvariance, PTL DEF Spec
=============================================================================
