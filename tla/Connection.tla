----------------------------- MODULE Connection -----------------------------
(***************************************************************************)
(* One connection with the buffer pump from accept to free: the handshake  *)
(* (Socks5) and the pump (BufferPump) on the same client, with the client  *)
(* application sending, ending or resetting while the handshake runs.      *)
(*                                                                         *)
(* The variables of the pump have their own names; those of the handshake  *)
(* that clash with them begin with h_.  Until the pump starts, the pump's  *)
(* variables are the client's socket and client_bev as listener_cb made    *)
(* it; from then on those of the handshake only keep its timer.            *)
(***************************************************************************)
EXTENDS BufferPump

CONSTANTS MethodReplies, ConnectReplies, MaxPayload

\* those of Socks5
ASSUME MethodRepliesAssumption ==
  MethodReplies \subseteq {"noauth", "bad_version", "bad_method", "long"}
ASSUME ConnectRepliesAssumption ==
  ConnectReplies \subseteq
    {"ipv4", "ipv6", "bad_version", "refused", "domain", "short_domain"}
ASSUME WatermarkAssumption == BufSize \in Nat /\ BufSize >= 10
ASSUME PayloadAssumption == MaxPayload \in Nat

VARIABLES h_state, relay_bev, h_on_read, low, h_ev_read, h_input, timeout_ev,
          leftover, strayed, crashed, request, mreply, creply, wire, payload,
          hangup, signalled, faults

H == INSTANCE Socks5 WITH
       PumpMethods <- {"bufferpump"}, pump_method <- "bufferpump",
       client_state <- h_state, on_read <- h_on_read, ev_read <- h_ev_read,
       input <- h_input

handshakeVars ==
  <<h_state, relay_bev, h_on_read, low, h_ev_read, h_input, timeout_ev,
    leftover, strayed, crashed, request, mreply, creply, wire, payload,
    hangup, signalled, faults>>

connVars == <<vars, handshakeVars>>

ConnInit == Init /\ H!Init

-----------------------------------------------------------------------------
\* mutant: EV_READ of client_bev, off since accept, stays off
Handover_client_off ==
  /\ client_state' = "client_pumping_data"
  /\ sent' = [sent EXCEPT !["relay"] = payload' + strayed']
  /\ unread' = [unread EXCEPT !["relay"] = wire']
  /\ input' = [input EXCEPT !["relay"] = leftover']
  /\ ev_read' = [AllTrue EXCEPT !["client"] = FALSE]
  /\ ev_write' = AllTrue /\ wpending' = AllTrue
  /\ fin' = [fin EXCEPT !["relay"] = hangup']
  /\ UNCHANGED <<delivered, stalled, rst, sockerr, output, shutdown_read,
                 shutdown_write, dropped>>

\* mutant: EV_READ of relay_bev, off since the reply, stays off
Handover_relay_off ==
  /\ client_state' = "client_pumping_data"
  /\ sent' = [sent EXCEPT !["relay"] = payload' + strayed']
  /\ unread' = [unread EXCEPT !["relay"] = wire']
  /\ input' = [input EXCEPT !["relay"] = leftover']
  /\ ev_read' = [AllTrue EXCEPT !["relay"] = FALSE]
  /\ ev_write' = AllTrue /\ wpending' = AllTrue
  /\ fin' = [fin EXCEPT !["relay"] = hangup']
  /\ UNCHANGED <<delivered, stalled, rst, sockerr, output, shutdown_read,
                 shutdown_write, dropped>>

\* mutant: a hang-up during the handshake is passed on as the pump starts
Handover_ends_early ==
  /\ client_state' = "client_pumping_data"
  /\ sent' = [sent EXCEPT !["relay"] = payload' + strayed']
  /\ unread' = [unread EXCEPT !["relay"] = wire']
  /\ input' = [input EXCEPT !["relay"] = leftover']
  /\ ev_read' = AllTrue /\ ev_write' = AllTrue /\ wpending' = AllTrue
  /\ fin' = [fin EXCEPT !["relay"] = hangup']
  /\ shutdown_write' = [shutdown_write EXCEPT !["client"] = hangup']
  /\ UNCHANGED <<delivered, stalled, rst, sockerr, output, shutdown_read, dropped>>

(***************************************************************************)
(* The pump starts: transocks_bufferpump_start_pump on the bufferevents as *)
(* the handshake leaves them.  What the server has sent and is not read    *)
(* yet is the receive queue of relay_fd, what was read beyond the reply is *)
(* the input of relay_bev, and a hang-up is still to be noticed.           *)
(***************************************************************************)
Handover ==
  /\ client_state' = "client_pumping_data"
  /\ sent' = [sent EXCEPT !["relay"] = payload' + strayed']
  /\ unread' = [unread EXCEPT !["relay"] = wire']
  /\ input' = [input EXCEPT !["relay"] = leftover']
  /\ ev_read' = AllTrue /\ ev_write' = AllTrue /\ wpending' = AllTrue
  /\ \E reset \in BOOLEAN :
       /\ fin' = [fin EXCEPT !["relay"] = hangup' /\ ~reset]
       /\ rst' = [rst EXCEPT !["relay"] = hangup' /\ reset]
       /\ sockerr' = [sockerr EXCEPT !["relay"] = hangup' /\ reset]
  /\ UNCHANGED <<delivered, stalled, output, shutdown_read, shutdown_write, dropped>>

\* transocks_client_free, called by the handshake or by its timer
FreeFromHandshake ==
  /\ transocks_client_free
  /\ dropped' = ~H!Pumping
  /\ UNCHANGED <<peerVars, input, output, shutdown_read, shutdown_write>>

\* a step of the handshake and what it means for the rest of the client
WithHandshake(A) ==
  /\ ~Destroyed
  /\ A
  /\ \/ ~H!Pumping /\ H!Pumping' /\ Handover
     \/ H!Destroyed' /\ FreeFromHandshake
     \/ ~H!Pumping' /\ ~H!Destroyed' /\ UNCHANGED vars

\* client_bev has EV_READ off: what the application does stays in its socket
ClientWaits == ~H!Pumping /\ PeerAction("client") /\ UNCHANGED handshakeVars

PumpStep(A) == H!Pumping /\ A /\ UNCHANGED handshakeVars

ConnNext ==
  \/ WithHandshake(H!Next)
  \/ ~crashed /\ ClientWaits
  \/ PumpStep(transocks_pump_free)
  \/ \E s \in Side : PumpStep(PeerAction(s) \/ Readable(s) \/ Writable(s))

(***************************************************************************)
(* As in the two parts: connecting is started in the same callback, the    *)
(* clock runs, and the loop runs callbacks that stay ready.                *)
(***************************************************************************)
ConnFairness ==
  /\ WF_connVars(WithHandshake(H!transocks_start_connect_relay))
  /\ WF_connVars(WithHandshake(H!socks5_timeout_cb))
  /\ \A s \in Side : /\ WF_connVars(PumpStep(Readable(s)))
                     /\ WF_connVars(PumpStep(Writable(s)))

ConnSpec == ConnInit /\ [][ConnNext]_connVars /\ ConnFairness

-----------------------------------------------------------------------------
(***************************************************************************)
(* A connection that ends without a reset, a failed handshake or a local   *)
(* drop has carried both streams to their ends: all that the application   *)
(* sent, also during the handshake, has reached the relay, and all payload *)
(* of the server the application, except what was read in one piece with   *)
(* the reply and is still in relay_bev.  No byte of an IPv4 reply is taken *)
(* for payload, and the handshake's timer does not end a connection that   *)
(* runs.                                                                   *)
(***************************************************************************)
CarriedInFull ==
  Destroyed /\ Intact /\ ~dropped =>
    /\ \A s \in Side : fin[s]
    /\ delivered["relay"] = sent["client"]
    /\ sent["relay"] >= payload
    /\ creply = "ipv4" => strayed = 0
    /\ delivered["client"] \in {sent["relay"], sent["relay"] - leftover}

(***************************************************************************)
(* When the application ends its stream, even before the handshake is      *)
(* over, the end is passed on to the relay or the connection is freed,     *)
(* unless the relay stops reading or a timer could not be set.             *)
(***************************************************************************)
EndIsPassedOn ==
  fin["client"] ~> \/ shutdown_write["relay"] \/ Destroyed
                   \/ stalled["relay"] \/ "timer" \in faults

(***************************************************************************)
(* Refinement: from the accept on, the two ends see the one stream relay   *)
(* of StreamRelay.  What the server sends counts as sent from the moment   *)
(* it follows the reply, although the pump only learns of it when it       *)
(* starts; the handshake itself is invisible, and a handshake that fails   *)
(* is a local drop.  It holds as long as the reply was not read in one     *)
(* piece with payload (leftover) or taken for payload in part (strayed).   *)
(***************************************************************************)
Carried == INSTANCE StreamRelay WITH
             HalfClose <- TRUE, finOut <- shutdown_write, closed <- Destroyed,
             sent <- [sent EXCEPT !["relay"] = IF H!Pumping THEN @ ELSE payload]

ImplementsRelay ==
  /\ Carried!RelayInit
  /\ [][leftover' = 0 /\ strayed' = 0 => Carried!RelayNext]_(Carried!relayVars)
=============================================================================
