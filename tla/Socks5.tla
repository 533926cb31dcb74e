------------------------------- MODULE Socks5 -------------------------------
(***************************************************************************)
(* The SOCKS5 handshake of socks5.c for one accepted client: connect to    *)
(* the relay, negotiate "no authentication", send CONNECT, read the reply, *)
(* start the pump.  Every wait is guarded by a timer.                      *)
(*                                                                         *)
(* The relay's byte stream is abstracted to lengths and to the kind of     *)
(* each message.  The server, TCP's cutting of the stream into reads, the  *)
(* libevent bufferevent and the clock are external.                        *)
(***************************************************************************)
EXTENDS Naturals

CONSTANTS
  PumpMethods,    \* the pump methods the process may be started with
  MethodReplies,  \* kinds of method-selection replies the server may send
  ConnectReplies, \* kinds of connect replies the server may send
  BufSize,        \* TRANSOCKS_BUFSIZE, the read high watermark
  MaxPayload      \* bound on the payload sent right after the reply

ASSUME PumpMethodsAssumption == PumpMethods \subseteq {"bufferpump", "splicepump"}
ASSUME MethodRepliesAssumption ==
  MethodReplies \subseteq {"noauth", "bad_version", "bad_method", "long"}
ASSUME ConnectRepliesAssumption ==
  ConnectReplies \subseteq
    {"ipv4", "ipv6", "bad_version", "refused", "domain", "short_domain"}
ASSUME WatermarkAssumption == BufSize \in Nat /\ BufSize >= 10
ASSUME MaxPayloadAssumption == MaxPayload \in Nat

VARIABLES
  pump_method,  \* pump_method_name of the environment, never changed
  client_state,
  relay_bev,    \* "null", "live"
  on_read,       \* the callbacks set on relay_bev
  low,          \* its read low watermark
  ev_read,      \* EV_READ enabled on it
  input,        \* length of its input buffer
  timeout_ev,   \* "null", "idle" (allocated, not added) or "pending"
  leftover,     \* payload in the input buffer when the pump starts
  strayed,      \* bytes of the reply the pump will take for payload
  crashed,      \* died of a NULL timeout_ev or of freeing something twice
  request,      \* last request written to relay_bev
  mreply,       \* kind of the method-selection reply, once sent
  creply,       \* kind of the connect reply, once sent
  wire,         \* bytes sent by the server and not yet read
  payload,      \* payload bytes among all it has sent
  hangup,       \* the server has closed or reset the connection
  signalled,    \* SIGUSR1 was handled after the client was accepted
  faults        \* history: what went wrong outside this program

bevVars == <<relay_bev, on_read, low, ev_read, input>>
serverVars == <<request, mreply, creply, wire, payload, hangup>>
outcomeVars == <<leftover, strayed, crashed>>
vars == <<pump_method, client_state, bevVars, timeout_ev, outcomeVars,
          serverVars, signalled, faults>>

Destroyed == client_state = "client_DESTROYED"
Pumping   == client_state = "client_pumping_data"

MethodReplyLen(k)  == IF k = "long" THEN 3 ELSE 2
ConnectReplyLen(k) ==
  IF k = "ipv6" THEN 22 ELSE IF k = "short_domain" THEN 8 ELSE 10

MaxWire == 3 + 22 + MaxPayload

TypeOK ==
  /\ pump_method \in PumpMethods
  /\ client_state \in {"client_NEW", "client_relay_connected",
                       "client_pumping_data", "client_DESTROYED"}
  /\ relay_bev \in {"null", "live"}
  /\ on_read \in {"none", "relay_onconnect", "selected_method", "connect_reply",
                 "pump"}
  /\ low \in 0 .. 10
  /\ ev_read \in BOOLEAN
  /\ input \in 0 .. MaxWire
  /\ timeout_ev \in {"null", "idle", "pending"}
  /\ leftover \in 0 .. MaxPayload
  /\ strayed \in 0 .. 22
  /\ crashed \in BOOLEAN
  /\ request \in {"none", "method", "connect"}
  /\ mreply \in MethodReplies \cup {"none"}
  /\ creply \in ConnectReplies \cup {"none"}
  /\ wire \in 0 .. MaxWire
  /\ payload \in 0 .. MaxPayload
  /\ hangup \in BOOLEAN
  /\ signalled \in BOOLEAN
  /\ faults \subseteq {"local", "connect", "refused", "timer", "timeout",
                       "hangup", "bad_reply", "signal"}

\* transocks_client_new, and listener_cb up to transocks_start_connect_relay
Init ==
  /\ pump_method \in PumpMethods
  /\ client_state = "client_NEW"
  /\ relay_bev = "null" /\ on_read = "none" /\ low = 0
  /\ ev_read = FALSE /\ input = 0
  /\ timeout_ev = "null"
  /\ leftover = 0 /\ strayed = 0 /\ crashed = FALSE
  /\ request = "none" /\ mreply = "none" /\ creply = "none"
  /\ wire = 0 /\ payload = 0 /\ hangup = FALSE
  /\ signalled = FALSE
  /\ faults = {}

-----------------------------------------------------------------------------
(***************************************************************************)
(* transocks_client_free: delete and free the timer, disable and free      *)
(* relay_bev.                                                              *)
(***************************************************************************)
transocks_client_free ==
  /\ client_state' = "client_DESTROYED"
  /\ timeout_ev' = "null"
  /\ relay_bev' = "null"
  /\ on_read' = "none"
  /\ ev_read' = FALSE
  /\ UNCHANGED low

(***************************************************************************)
(* transocks_client_set_timeout.  Its result is ignored by all callers:    *)
(* when libevent is out of memory the client goes on without a timer.      *)
(***************************************************************************)
transocks_client_set_timeout ==
  \/ /\ timeout_ev' = "pending"
     /\ UNCHANGED faults
  \/ /\ timeout_ev' \in IF timeout_ev = "null" THEN {"null", "idle"} ELSE {"idle"}
     /\ faults' = faults \cup {"timer"}

(***************************************************************************)
(* The callbacks begin with evtimer_del(timeout_ev), which dereferences    *)
(* it.                                                                     *)
(***************************************************************************)
NullTimer ==
  /\ timeout_ev = "null"
  /\ crashed' = TRUE
  /\ UNCHANGED <<client_state, bevVars, timeout_ev, leftover, strayed,
                 serverVars, faults>>

-----------------------------------------------------------------------------
(***************************************************************************)
(* transocks_start_connect_relay.                                          *)
(***************************************************************************)
transocks_start_connect_relay ==
  /\ client_state = "client_NEW" /\ relay_bev = "null"
  /\ relay_bev' = "live"
  /\ on_read' = "relay_onconnect"
  /\ transocks_client_set_timeout
  /\ UNCHANGED <<client_state, low, ev_read, input, outcomeVars, serverVars,
                 signalled, pump_method>>

\* socket(), a socket option or bufferevent_socket_new fails
start_connect_relay_fails_local ==
  /\ client_state = "client_NEW" /\ relay_bev = "null"
  /\ transocks_client_free
  /\ faults' = faults \cup {"local"}
  /\ UNCHANGED <<input, outcomeVars, serverVars, signalled, pump_method>>

\* bufferevent_socket_connect fails: label freeBev frees relay_bev through
\* the local variable, then transocks_client_free finds it in the client
start_connect_relay_fails_connect ==
  /\ client_state = "client_NEW" /\ relay_bev = "null"
  /\ transocks_client_free
  /\ crashed' \in BOOLEAN
  /\ faults' = faults \cup {"connect"}
  /\ UNCHANGED <<input, leftover, strayed, serverVars, signalled, pump_method>>

\* mutant: the low watermark lets the callback run on one byte
send_method_selection_low1 ==
  /\ low' = 1
  /\ request' = "method"
  /\ on_read' = "selected_method"
  /\ ev_read' = TRUE
  /\ transocks_client_set_timeout
  /\ UNCHANGED <<relay_bev, input, mreply, creply, wire, payload, hangup>>

\* mutant: the timer is freed and not set again
send_method_selection_untimed ==
  /\ low' = 2
  /\ request' = "method"
  /\ on_read' = "selected_method"
  /\ ev_read' = TRUE
  /\ timeout_ev' = "null"
  /\ UNCHANGED <<relay_bev, input, mreply, creply, wire, payload, hangup, faults>>

socks_send_method_selection ==
  /\ low' = 2
  /\ request' = "method"
  /\ on_read' = "selected_method"
  /\ ev_read' = TRUE
  /\ transocks_client_set_timeout
  /\ UNCHANGED <<relay_bev, input, mreply, creply, wire, payload, hangup>>

OnConnected ==
  /\ timeout_ev # "null"
  /\ client_state' = "client_relay_connected"
  /\ socks_send_method_selection
  /\ UNCHANGED <<outcomeVars>>

OnConnectError ==
  /\ timeout_ev # "null"
  /\ transocks_client_free
  /\ faults' = faults \cup {"refused"}
  /\ UNCHANGED <<input, outcomeVars, serverVars>>

relay_onconnect_eventcb ==
  /\ on_read = "relay_onconnect"
  /\ OnConnected \/ OnConnectError \/ NullTimer
  /\ UNCHANGED <<signalled, pump_method>>

-----------------------------------------------------------------------------
\* mutant: the timer is not set again
send_connect_request_untimed(len) ==
  /\ input' = len
  /\ request' = "connect"
  /\ low' = 10
  /\ on_read' = "connect_reply"
  /\ ev_read' = TRUE
  /\ timeout_ev' = "idle"
  /\ UNCHANGED <<client_state, relay_bev, mreply, creply, payload, hangup, faults>>

(***************************************************************************)
(* socks_on_server_selected_method_readcb, with len bytes in the input     *)
(* buffer.                                                                 *)
(***************************************************************************)
socks_send_connect_request(len) ==
  /\ input' = len
  /\ request' = "connect"
  /\ low' = 10
  /\ on_read' = "connect_reply"
  /\ ev_read' = TRUE
  /\ transocks_client_set_timeout
  /\ UNCHANGED <<client_state, relay_bev, mreply, creply, payload, hangup>>

\* the request structure cannot be allocated
send_connect_request_fails(len) ==
  /\ input' = len
  /\ transocks_client_free
  /\ faults' = faults \cup {"local"}
  /\ UNCHANGED <<request, mreply, creply, payload, hangup>>

MethodAccepted(len) == len >= 2 /\ mreply \in {"noauth", "long"} /\ len - 2 = 0

socks_on_server_selected_method_readcb(len) ==
  /\ \/ /\ MethodAccepted(len)
        /\ \/ socks_send_connect_request(len - 2)
           \/ send_connect_request_fails(len - 2)
     \/ /\ ~MethodAccepted(len)
        /\ input' = len
        /\ transocks_client_free
        /\ UNCHANGED <<request, mreply, creply, payload, hangup, faults>>
  /\ UNCHANGED outcomeVars

(***************************************************************************)
(* socks_on_server_connect_reply_readcb, with len bytes in the input       *)
(* buffer.  evbuffer_drain removes at most what is there: when an IPv6     *)
(* reply of 22 bytes has only partly arrived, its tail stays on the wire.  *)
(* A stray byte after the method reply is found where VER should be.       *)
(***************************************************************************)
Header == IF mreply = "long" THEN "bad_version" ELSE creply

\* mutant: the reply code is not looked at
ReplyAccepted_any_rep(len) == len >= 10 /\ Header \in {"ipv4", "ipv6", "refused"}

ReplyAccepted(len) == len >= 10 /\ Header \in {"ipv4", "ipv6"}

\* mutant: every reply is taken for an IPv6 reply
DrainLen_always_22 == 22

DrainLen == IF Header = "ipv6" THEN 22 ELSE 10

Min(a, b) == IF a < b THEN a ELSE b

\* mutant: the timer is not deleted
StartPump_timed(len) ==
  /\ client_state' = "client_pumping_data"
  /\ input' = len - Min(DrainLen, len)
  /\ leftover' = len - Min(DrainLen, len)
  /\ strayed' = DrainLen - Min(DrainLen, len)
  /\ ev_read' = FALSE
  /\ on_read' = "pump"
  /\ UNCHANGED <<timeout_ev, relay_bev, low, crashed, faults>>

\* transocks_start_pump succeeds; bufferevent_disable until it does
StartPump(len) ==
  /\ client_state' = "client_pumping_data"
  /\ input' = len - Min(DrainLen, len)
  /\ leftover' = len - Min(DrainLen, len)
  /\ strayed' = DrainLen - Min(DrainLen, len)
  /\ timeout_ev' = "idle"
  /\ ev_read' = FALSE
  /\ on_read' = "pump"
  /\ UNCHANGED <<relay_bev, low, crashed, faults>>

\* the splice pump may have freed the client, which is then freed again
StartPumpFails(len) ==
  /\ input' = len - Min(DrainLen, len)
  /\ transocks_client_free
  /\ crashed' \in IF pump_method = "splicepump" THEN BOOLEAN ELSE {FALSE}
  /\ faults' = faults \cup {"local"}
  /\ UNCHANGED <<leftover, strayed>>

socks_on_server_connect_reply_readcb(len) ==
  /\ \/ ReplyAccepted(len) /\ (StartPump(len) \/ StartPumpFails(len))
     \/ /\ ~ReplyAccepted(len)
        /\ input' = len
        /\ transocks_client_free
        /\ UNCHANGED <<outcomeVars, faults>>
  /\ UNCHANGED <<request, mreply, creply, payload, hangup>>

-----------------------------------------------------------------------------
\* mutant: the high watermark is 0, which is none
read_high_none == MaxWire

\* the read high watermark both requests set together with the low one
read_high == BufSize

(***************************************************************************)
(* libevent's read side of relay_bev (external): any part of what is on    *)
(* the wire arrives, as long as the input buffer stays within the high     *)
(* watermark; the read callback runs once the buffer holds at least the    *)
(* low watermark.                                                          *)
(***************************************************************************)
bufferevent_read(n) ==
  LET len == input + n
  IN  /\ ev_read
      /\ n <= wire
      /\ len <= read_high
      /\ IF len < low
           THEN /\ input' = len
                /\ wire' = wire - n
                /\ UNCHANGED <<client_state, relay_bev, on_read, low, ev_read,
                       timeout_ev, outcomeVars, request, mreply, creply,
                       payload, hangup, faults>>
           ELSE \/ NullTimer
                \/ /\ timeout_ev # "null"
                   /\ wire' = wire - n
                   /\ \/ /\ on_read = "selected_method"
                         /\ socks_on_server_selected_method_readcb(len)
                      \/ /\ on_read = "connect_reply"
                         /\ socks_on_server_connect_reply_readcb(len)
      /\ UNCHANGED <<signalled, pump_method>>

\* EOF or an error, found by a read or a write
socks_handshake_stage_errcb ==
  /\ ev_read
  /\ hangup
  /\ \/ NullTimer
     \/ /\ timeout_ev # "null"
        /\ transocks_client_free
        /\ UNCHANGED <<input, outcomeVars, serverVars, faults>>
  /\ UNCHANGED <<signalled, pump_method>>

\* 60 seconds have passed since the timer was set
socks5_timeout_cb ==
  /\ timeout_ev = "pending"
  /\ transocks_client_free
  /\ faults' = faults \cup {"timeout"}
  /\ UNCHANGED <<input, outcomeVars, serverVars, signalled, pump_method>>

(***************************************************************************)
(* SIGUSR1 during the handshake: transocks_drop_all_clients calls          *)
(* transocks_pump_free.  transocks_splicepump_free returns at once because *)
(* no pump is attached yet (user_arg is NULL).                             *)
(***************************************************************************)
transocks_drop_all_clients ==
  /\ relay_bev = "live" /\ ~Pumping /\ ~signalled
  /\ signalled' = TRUE
  /\ \/ /\ pump_method = "bufferpump"
        /\ transocks_client_free
        /\ faults' = faults \cup {"signal"}
     \/ /\ pump_method = "splicepump"
        /\ UNCHANGED <<client_state, relay_bev, on_read, low, ev_read, timeout_ev,
                       faults>>
  /\ UNCHANGED <<pump_method, input, outcomeVars, serverVars>>

-----------------------------------------------------------------------------
(***************************************************************************)
(* The SOCKS5 server (external).                                           *)
(***************************************************************************)
ServerSelectsMethod(k) ==
  /\ request = "method" /\ mreply = "none" /\ ~hangup
  /\ mreply' = k
  /\ wire' = wire + MethodReplyLen(k)
  /\ faults' = IF k = "noauth" THEN faults ELSE faults \cup {"bad_reply"}
  /\ UNCHANGED <<request, creply, payload, hangup>>

ServerReplies(k) ==
  /\ request = "connect" /\ creply = "none" /\ ~hangup
  /\ creply' = k
  /\ wire' = wire + ConnectReplyLen(k)
  /\ faults' = IF k \in {"ipv4", "ipv6"} THEN faults ELSE faults \cup {"bad_reply"}
  /\ UNCHANGED <<request, mreply, payload, hangup>>

ServerSendsPayload ==
  /\ creply \notin {"none", "bad_version", "refused"} /\ ~hangup
  /\ payload < MaxPayload
  /\ payload' = payload + 1
  /\ wire' = wire + 1
  /\ UNCHANGED <<request, mreply, creply, hangup, faults>>

ServerHangsUp ==
  /\ ~hangup
  /\ hangup' = TRUE
  /\ faults' = faults \cup {"hangup"}
  /\ UNCHANGED <<request, mreply, creply, wire, payload>>

ServerStep ==
  /\ relay_bev = "live" /\ ~Pumping
  /\ \/ \E k \in MethodReplies : ServerSelectsMethod(k)
     \/ \E k \in ConnectReplies : ServerReplies(k)
     \/ ServerSendsPayload
     \/ request # "none" /\ ServerHangsUp
  /\ UNCHANGED <<client_state, bevVars, timeout_ev, outcomeVars, signalled, pump_method>>

-----------------------------------------------------------------------------
BufferEvent ==
  \/ relay_onconnect_eventcb
  \/ \E n \in 1 .. MaxWire : bufferevent_read(n)
  \/ socks_handshake_stage_errcb

Next ==
  /\ ~crashed
  /\ \/ transocks_start_connect_relay
     \/ start_connect_relay_fails_local
     \/ start_connect_relay_fails_connect
     \/ BufferEvent
     \/ socks5_timeout_cb
     \/ transocks_drop_all_clients
     \/ ServerStep

(***************************************************************************)
(* The listener callback starts the handshake in the same event; the clock *)
(* runs, so a pending timer eventually expires.  Nothing is assumed of the *)
(* server.                                                                 *)
(***************************************************************************)
Fairness ==
  /\ WF_vars(transocks_start_connect_relay)
  /\ WF_vars(socks5_timeout_cb)

Spec == Init /\ [][Next]_vars

FairSpec == Spec /\ Fairness

-----------------------------------------------------------------------------
(***************************************************************************)
(* Safety: a client that waits for the relay has a timer running, at every *)
(* stage and across each hand-over from one callback to the next.  Only a  *)
(* timer that could not be set is an exception.                            *)
(***************************************************************************)
WaitingIsTimed ==
  relay_bev = "live" /\ ~Pumping /\ "timer" \notin faults => timeout_ev = "pending"

(***************************************************************************)
(* Safety: once the pump runs, the handshake timer cannot fire any more.   *)
(***************************************************************************)
PumpIsUntimed == Pumping => timeout_ev # "pending"

(***************************************************************************)
(* Safety: the pump starts only after the server chose "no authentication" *)
(* and reported success.                                                   *)
(***************************************************************************)
PumpAfterSuccess ==
  Pumping => mreply = "noauth" /\ creply \in {"ipv4", "ipv6"}

(***************************************************************************)
(* Safety: after an IPv4 reply the payload starts at the right byte,       *)
(* however the reply and the payload were cut into reads.                  *)
(***************************************************************************)
Ipv4PayloadAligned ==
  Pumping /\ creply = "ipv4" => strayed = 0 /\ leftover + wire = payload

(***************************************************************************)
(* Safety: relay_bev can be read when the pump takes it over, however much *)
(* payload came with the reply.  The pump keeps the high watermark of the  *)
(* handshake and empties the input buffer only when new bytes arrive: a    *)
(* buffer filled up to the watermark would never be read again.            *)
(***************************************************************************)
RoomToRead == Pumping => input < BufSize

(***************************************************************************)
(* Safety: a handshake is given up only for a reason outside the program:  *)
(* no way of cutting the replies into reads makes it fail.                 *)
(***************************************************************************)
NoSpuriousDrop == Destroyed => faults # {}

(***************************************************************************)
(* Safety: nothing the server sends, no way it is cut into reads, no       *)
(* hang-up, timeout or SIGUSR1 kills the process.  The error paths that    *)
(* free something twice or use a timer that was never allocated are only   *)
(* reached when an allocation or a call on this host has failed.           *)
(***************************************************************************)
OnlyLocalFaultsCrash ==
  crashed => \/ {"timer", "connect"} \cap faults # {}
             \/ pump_method = "splicepump" /\ "local" \in faults

(***************************************************************************)
(* Liveness: every handshake ends, in a running pump or in the client      *)
(* being freed, even if the server never answers, unless a timer could not *)
(* be set.                                                                 *)
(***************************************************************************)
HandshakeTerminates == <>(Pumping \/ Destroyed \/ "timer" \in faults)

(***************************************************************************)
(* README.md:6 promises "IPv4 and IPv6 support": the payload after any     *)
(* successful reply starts at the right byte.                              *)
(***************************************************************************)
PayloadAligned == Pumping => strayed = 0

(***************************************************************************)
(* Safety: with the buffer pump, a client that was there when SIGUSR1 was  *)
(* handled is gone, in whatever stage of the handshake it was.             *)
(***************************************************************************)
SignalClosesBuffered == signalled /\ pump_method = "bufferpump" => Destroyed

(***************************************************************************)
(* README.md:18: "send `SIGUSR1` to close all connection manually, it's    *)
(* equivalent to restart the program": the same with any pump.             *)
(***************************************************************************)
SignalCloses == signalled => Destroyed
=============================================================================
