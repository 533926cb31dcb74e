----------------------------- MODULE BufferPump -----------------------------
(***************************************************************************)
(* The data pump of bufferpump.c for one connection: two libevent          *)
(* bufferevents, client_bev and relay_bev, whose read callbacks move the   *)
(* input buffer of one side to the output buffer of the other, and whose   *)
(* write and event callbacks propagate end-of-stream.                      *)
(*                                                                         *)
(* The code has each callback twice, once per side, with client and relay  *)
(* swapped; here each is one operator with the side as parameter, and the  *)
(* two source functions are its two instances.  A libevent callback runs   *)
(* to completion before the next one (one thread, one event loop), so each *)
(* is one action.                                                          *)
(***************************************************************************)
EXTENDS Peers

CONSTANTS
  BufSize,      \* TRANSOCKS_BUFSIZE, the read high watermark
  Leftovers     \* how many payload bytes the handshake may leave in the
                \* input buffer of relay_bev

ASSUME BufSizeAssumption == BufSize \in Nat \ {0}
ASSUME LeftoversAssumption == Leftovers \subseteq 0 .. (BufSize - 1)

VARIABLES
  client_state,
  shutdown_read,   \* client_shutdown_read, relay_shutdown_read
  shutdown_write,  \* client_shutdown_write, relay_shutdown_write
  input,           \* length of bufferevent_get_input of each side's bev
  output,          \* length of bufferevent_get_output
  ev_read,         \* EV_READ enabled: the bev's read event is added
  ev_write,        \* EV_WRITE enabled
  wpending,        \* the bev's write event is added
  dropped          \* freed for a local reason: SIGUSR1, exit or ENOMEM

bevVars == <<input, output, ev_read, ev_write, wpending>>
clientVars == <<client_state, shutdown_read, shutdown_write, dropped>>
vars == <<peerVars, bevVars, clientVars>>

ClientStates ==
  {"client_socks5_finish_handshake", "client_pumping_data", "client_DESTROYED"}

TypeOK ==
  /\ PeersTypeOK
  /\ client_state \in ClientStates
  /\ shutdown_read \in [Side -> BOOLEAN]
  /\ shutdown_write \in [Side -> BOOLEAN]
  /\ input \in [Side -> Nat]
  /\ output \in [Side -> Nat]
  /\ ev_read \in [Side -> BOOLEAN]
  /\ ev_write \in [Side -> BOOLEAN]
  /\ wpending \in [Side -> BOOLEAN]
  /\ dropped \in BOOLEAN

(***************************************************************************)
(* The state socks_on_server_connect_reply_readcb hands to the pump:       *)
(* relay_bev disabled, client_bev with EV_READ disabled since accept and   *)
(* EV_WRITE enabled by default, flags as transocks_client_new set them.    *)
(***************************************************************************)
Init ==
  /\ \E early \in Leftovers :
       /\ PeersInit(early)
       /\ input = [AllZero EXCEPT !["relay"] = early]
  /\ client_state = "client_socks5_finish_handshake"
  /\ shutdown_read = AllFalse
  /\ shutdown_write = AllFalse
  /\ output = AllZero
  /\ ev_read = AllFalse
  /\ ev_write = [AllFalse EXCEPT !["client"] = TRUE]
  /\ wpending = AllFalse
  /\ dropped = FALSE

-----------------------------------------------------------------------------
(***************************************************************************)
(* Freeing.  The buffers are released with the bufferevents; input and     *)
(* output keep the number of bytes that were thrown away.                  *)
(***************************************************************************)
transocks_client_free ==
  /\ ev_read' = AllFalse
  /\ ev_write' = AllFalse
  /\ wpending' = AllFalse
  /\ client_state' = "client_DESTROYED"

\* disables both bufferevents, as transocks_client_free does once more
transocks_bufferpump_free == transocks_client_free

\* mutant: only the read flags are looked at
check_close_reads_only(sr, sw) == \A s \in Side : sr[s]

transocks_check_close(sr, sw) == \A s \in Side : sr[s] /\ sw[s]

(***************************************************************************)
(* The common tail of the write and event callbacks: record the shutdown   *)
(* flags sr and sw and the event masks, then free if all four flags hold.  *)
(***************************************************************************)
CheckClose(sr, sw, er, ew, wp) ==
  /\ shutdown_read' = sr
  /\ shutdown_write' = sw
  /\ IF transocks_check_close(sr, sw)
       THEN transocks_bufferpump_free
       ELSE /\ ev_read' = er
            /\ ev_write' = ew
            /\ wpending' = wp
            /\ UNCHANGED client_state
  /\ UNCHANGED dropped

-----------------------------------------------------------------------------
\* mutant: the input buffer is copied instead of moved
MoveInput_copies(s, n) ==
  /\ input' = [input EXCEPT ![s] = @ + n]
  /\ output' = [output EXCEPT ![Other(s)] = @ + input[s] + n]
  /\ wpending' = [wpending EXCEPT ![Other(s)] = @ \/ ev_write[Other(s)]]
  /\ UNCHANGED <<ev_read, ev_write, clientVars>>

(***************************************************************************)
(* Read callbacks: the whole input buffer of s, n fresh bytes included,    *)
(* goes to the output buffer of the other side (evbuffer_remove_buffer).   *)
(* Adding to an output buffer adds the write event if EV_WRITE is enabled. *)
(***************************************************************************)
MoveInput(s, n) ==
  /\ input' = [input EXCEPT ![s] = 0]
  /\ output' = [output EXCEPT ![Other(s)] = @ + input[s] + n]
  /\ wpending' = [wpending EXCEPT ![Other(s)] = @ \/ ev_write[Other(s)]]
  /\ UNCHANGED <<ev_read, ev_write, clientVars>>

transocks_client_readcb(n) == MoveInput("client", n)
transocks_relay_readcb(n)  == MoveInput("relay", n)

readcb(s, n) ==
  \/ s = "client" /\ transocks_client_readcb(n)
  \/ s = "relay"  /\ transocks_relay_readcb(n)

\* mutant: the source's end-of-stream is not awaited
PropagateOnDrain_eager(s, left, wp) ==
  CheckClose(shutdown_read,
             [shutdown_write EXCEPT ![s] = @ \/ left = 0],
             ev_read, ev_write, wp)

\* mutant: the end-of-stream owed is forgotten
PropagateOnDrain_never(s, left, wp) ==
  CheckClose(shutdown_read, shutdown_write, ev_read, ev_write, wp)

\* mutant: the close check at the end of the callback is missing
PropagateOnDrain_unchecked(s, left, wp) ==
  /\ shutdown_write' =
       [shutdown_write EXCEPT ![s] = @ \/ (left = 0 /\ shutdown_read[Other(s)])]
  /\ wpending' = wp
  /\ UNCHANGED <<shutdown_read, ev_read, ev_write, client_state, dropped>>

(***************************************************************************)
(* Write callbacks, called by libevent when the output buffer of s is      *)
(* empty: if the other side has already reached end-of-stream, all of its  *)
(* data has been passed on and the write direction of s is shut down.      *)
(* left is the length of the output buffer after the write.                *)
(***************************************************************************)
PropagateOnDrain(s, left, wp) ==
  LET drained == left = 0 /\ shutdown_read[Other(s)]
  IN  CheckClose(shutdown_read,
                 [shutdown_write EXCEPT ![s] = @ \/ drained],
                 ev_read, ev_write, wp)

transocks_client_writecb(left, wp) == PropagateOnDrain("client", left, wp)
transocks_relay_writecb(left, wp)  == PropagateOnDrain("relay", left, wp)

writecb(s, left, wp) ==
  \/ s = "client" /\ transocks_client_writecb(left, wp)
  \/ s = "relay"  /\ transocks_relay_writecb(left, wp)

(***************************************************************************)
(* Event callbacks.  what is the set of BEV_EVENT_ flags, err the errno;   *)
(* er, ew and wp are the event masks as libevent leaves them on calling.   *)
(*   read EOF : EV_READ off, and if nothing is queued for the other side,  *)
(*              its write direction is shut down at once;                  *)
(*   write EOF: EV_WRITE off, the write direction of s counts as shut;     *)
(*   any other error frees the connection.                                 *)
(***************************************************************************)
ReadEof(what) == {"READING", "EOF"} \subseteq what

WriteEof(what, err) ==
  /\ "WRITING" \in what
  /\ \/ "ERROR" \in what /\ err = "ECONNRESET"
     \/ "EOF" \in what

\* mutant: queued output is not looked at before the shutdown
OnReadEof_undrained(s, er) ==
  CheckClose([shutdown_read EXCEPT ![s] = TRUE],
             [shutdown_write EXCEPT ![Other(s)] = TRUE],
             [er EXCEPT ![s] = FALSE], ev_write, wpending)

\* mutant: EV_READ is enabled again at end-of-file, to notice a later reset
OnReadEof_rearmed(s, er) ==
  CheckClose([shutdown_read EXCEPT ![s] = TRUE],
             [shutdown_write EXCEPT ![Other(s)] = @ \/ output[Other(s)] = 0],
             [er EXCEPT ![s] = TRUE], ev_write, wpending)

\* mutant: the shutdown is always left to the write callback
OnReadEof_lazy(s, er) ==
  CheckClose([shutdown_read EXCEPT ![s] = TRUE], shutdown_write,
             [er EXCEPT ![s] = FALSE], ev_write, wpending)

OnReadEof(s, er) ==
  CheckClose([shutdown_read EXCEPT ![s] = TRUE],
             [shutdown_write EXCEPT ![Other(s)] = @ \/ output[Other(s)] = 0],
             [er EXCEPT ![s] = FALSE], ev_write, wpending)

OnWriteEof(s, ew, wp) ==
  CheckClose(shutdown_read,
             [shutdown_write EXCEPT ![s] = TRUE],
             ev_read,
             [ew EXCEPT ![s] = FALSE],
             [wp EXCEPT ![s] = FALSE])

OnError ==
  /\ transocks_bufferpump_free
  /\ UNCHANGED <<shutdown_read, shutdown_write, dropped>>

EventCb(s, what, err, er, ew, wp) ==
  \/ ReadEof(what) /\ OnReadEof(s, er)
  \/ ~ReadEof(what) /\ WriteEof(what, err) /\ OnWriteEof(s, ew, wp)
  \/ ~ReadEof(what) /\ ~WriteEof(what, err) /\ "ERROR" \in what /\ OnError

transocks_client_eventcb(what, err, er, ew, wp) == EventCb("client", what, err, er, ew, wp)
transocks_relay_eventcb(what, err, er, ew, wp)  == EventCb("relay", what, err, er, ew, wp)

eventcb(s, what, err, er, ew, wp) ==
  \/ s = "client" /\ transocks_client_eventcb(what, err, er, ew, wp)
  \/ s = "relay"  /\ transocks_relay_eventcb(what, err, er, ew, wp)

-----------------------------------------------------------------------------
(***************************************************************************)
(* libevent's socket bufferevent (external).  bufferevent_readcb runs when *)
(* socket s is readable: data goes to the input buffer, up to the high     *)
(* watermark, and the read callback is called; at end-of-file and on an    *)
(* error it disables EV_READ and then calls the event callback.            *)
(***************************************************************************)
Min(a, b) == IF a < b THEN a ELSE b

bufferevent_read_data(s) ==
  LET n == Min(unread[s], BufSize - input[s])
  IN  /\ ev_read[s]
      /\ unread[s] > 0
      /\ n > 0
      /\ SocketRead(s, n)
      /\ readcb(s, n)
      /\ UNCHANGED <<sent, delivered, fin, rst, sockerr, stalled>>

readcb_event(s, what, err) ==
  eventcb(s, {"READING"} \cup what, err, [ev_read EXCEPT ![s] = FALSE], ev_write, wpending)

bufferevent_read_eof(s) ==
  /\ ev_read[s]
  /\ AtEof(s)
  /\ readcb_event(s, {"EOF"}, "none")
  /\ UNCHANGED <<peerVars, input, output>>

bufferevent_read_error(s) ==
  /\ ev_read[s]
  /\ AtError(s)
  /\ ReportError(s)
  /\ readcb_event(s, {"ERROR"}, "ECONNRESET")
  /\ UNCHANGED <<sent, unread, delivered, fin, rst, stalled, input, output>>

(***************************************************************************)
(* bufferevent_writecb runs when socket s is writable and its write event  *)
(* is added: it writes part or all of the output buffer, removes the event *)
(* when nothing is left, and calls the write callback once the buffer has  *)
(* fallen to the write low watermark, which is 0.  On an error it disables *)
(* EV_WRITE and then calls the event callback.                             *)
(***************************************************************************)
bufferevent_write_data(s) ==
  /\ wpending[s]
  /\ output[s] > 0
  /\ ~rst[s] /\ ~stalled[s]
  /\ \E n \in 1 .. output[s] :
       /\ SocketWrite(s, n)
       /\ output' = [output EXCEPT ![s] = @ - n]
       /\ \/ n = output[s] /\ writecb(s, 0, [wpending EXCEPT ![s] = FALSE])
          \/ n < output[s] /\ UNCHANGED <<clientVars, ev_read, ev_write, wpending>>
  /\ UNCHANGED <<sent, unread, fin, rst, sockerr, stalled, input>>

bufferevent_write_idle(s) ==
  /\ wpending[s]
  /\ output[s] = 0
  /\ writecb(s, 0, [wpending EXCEPT ![s] = FALSE])
  /\ UNCHANGED <<peerVars, input, output>>

writecb_event(s, what, err) ==
  eventcb(s, {"WRITING"} \cup what, err, ev_read,
          [ev_write EXCEPT ![s] = FALSE], [wpending EXCEPT ![s] = FALSE])

bufferevent_write_error(s) ==
  /\ wpending[s]
  /\ output[s] > 0
  /\ rst[s]
  /\ ReportError(s)
  /\ \E err \in IF sockerr[s] THEN {"ECONNRESET", "ETIMEDOUT"} ELSE {"EPIPE"} :
       writecb_event(s, {"ERROR"}, err)
  /\ UNCHANGED <<sent, unread, delivered, fin, rst, stalled, input, output>>

-----------------------------------------------------------------------------
(***************************************************************************)
(* Starting and dropping.                                                  *)
(***************************************************************************)
transocks_bufferpump_start_pump ==
  /\ ev_read' = AllTrue
  /\ ev_write' = AllTrue
  /\ wpending' = AllTrue
  /\ UNCHANGED <<input, output, shutdown_read, shutdown_write, dropped>>

transocks_start_pump ==
  /\ client_state = "client_socks5_finish_handshake"
  /\ transocks_bufferpump_start_pump
  /\ client_state' = "client_pumping_data"
  /\ UNCHANGED peerVars

\* bufferevent_enable fails: start_pump returns -1 and the caller,
\* socks_on_server_connect_reply_readcb, frees the client.
start_pump_fails ==
  /\ client_state = "client_socks5_finish_handshake"
  /\ transocks_client_free
  /\ dropped' = TRUE
  /\ UNCHANGED <<peerVars, input, output, shutdown_read, shutdown_write>>

\* transocks_drop_all_clients, on SIGUSR1 and at exit
transocks_pump_free ==
  /\ client_state = "client_pumping_data"
  /\ transocks_bufferpump_free
  /\ dropped' = TRUE
  /\ UNCHANGED <<peerVars, input, output, shutdown_read, shutdown_write>>

PeerAction(s) ==
  /\ client_state # "client_DESTROYED"
  /\ PeerStep(s)
  /\ UNCHANGED <<bevVars, clientVars>>

Readable(s) ==
  \/ bufferevent_read_data(s)
  \/ bufferevent_read_eof(s)
  \/ bufferevent_read_error(s)

Writable(s) ==
  \/ bufferevent_write_data(s)
  \/ bufferevent_write_idle(s)
  \/ bufferevent_write_error(s)

Next ==
  \/ transocks_start_pump
  \/ start_pump_fails
  \/ transocks_pump_free
  \/ \E s \in Side : PeerAction(s) \/ Readable(s) \/ Writable(s)

(***************************************************************************)
(* The event loop polls level-triggered and runs every ready callback in   *)
(* each round, so a callback whose socket stays ready eventually runs.     *)
(* Nothing is assumed of the peers.                                        *)
(***************************************************************************)
Fairness ==
  /\ WF_vars(transocks_start_pump)
  /\ \A s \in Side : WF_vars(Readable(s)) /\ WF_vars(Writable(s))

Spec == Init /\ [][Next]_vars

FairSpec == Spec /\ Fairness
-----------------------------------------------------------------------------
Destroyed == client_state = "client_DESTROYED"
Intact == \A s \in Side : ~rst[s]

(***************************************************************************)
(* The inductive invariant behind the safety properties.                   *)
(***************************************************************************)
\* every byte received is in exactly one place
Conservation ==
  \A s \in Side :
    sent[s] = unread[s] + input[s] + output[Other(s)] + delivered[Other(s)]

\* a shut-down read side has been read to its end and is not read again
ReadShut ==
  \A s \in Side :
    shutdown_read[s] => (fin[s] \/ rst[s]) /\ unread[s] = 0 /\ ~ev_read[s]

\* a write side is shut down when its stream has been passed on, or broken
WriteShut ==
  \A s \in Side :
    shutdown_write[s] => \/ shutdown_read[Other(s)] /\ output[s] = 0
                         \/ rst[s]

\* events are only pending while the pump runs; EV_WRITE stays enabled
\* until the write side is shut down
Events ==
  /\ client_state # "client_pumping_data" =>
       \A s \in Side : ~ev_read[s] /\ ~wpending[s]
  /\ client_state = "client_pumping_data" =>
       \A s \in Side : ev_write[s] \/ shutdown_write[s]
  /\ client_state = "client_socks5_finish_handshake" =>
       \A s \in Side : ~shutdown_read[s] /\ ~shutdown_write[s]

\* why a connection is gone
FreeReason ==
  Destroyed /\ Intact /\ ~dropped =>
    \A s \in Side : shutdown_read[s] /\ shutdown_write[s]

(***************************************************************************)
(* Safety: the FIN forwarded to one end follows the last byte of the other *)
(* end's stream.  When shutdown(SHUT_WR) has been called on a socket and   *)
(* nothing was reset, the opposite peer has ended its stream and every     *)
(* byte the read callback took has been written out; only payload left     *)
(* behind by the handshake (input) can be missing.                         *)
(***************************************************************************)
FinAfterDrain ==
  Intact => \A s \in Side :
    shutdown_write[Other(s)] => /\ fin[s]
                                /\ delivered[Other(s)] + input[s] = sent[s]

(***************************************************************************)
(* Safety: transocks_check_close frees the connection only when both       *)
(* streams have ended and been passed on in full: without a reset or a     *)
(* local drop, no byte is in flight when the client is destroyed.          *)
(***************************************************************************)
GracefulClose ==
  Destroyed /\ Intact /\ ~dropped => \A s \in Side :
    fin[s] /\ delivered[Other(s)] + input[s] = sent[s]

(***************************************************************************)
(* Safety: no lost wake-up.  While the pump runs, queued output always has *)
(* a write event pending, and so has a direction whose source has ended    *)
(* but whose FIN is still owed: that write event is what runs the write    *)
(* callback which calls shutdown(SHUT_WR).                                 *)
(***************************************************************************)
NoLostWakeup ==
  client_state = "client_pumping_data" => \A s \in Side :
    \/ shutdown_write[s]
    \/ wpending[s]
    \/ output[s] = 0 /\ ~shutdown_read[Other(s)]

IInv ==
  /\ TypeOK
  /\ Conservation
  /\ ReadShut
  /\ WriteShut
  /\ Events
  /\ FreeReason
  /\ NoLostWakeup

(***************************************************************************)
(* Action property: nothing is written to a socket after shutdown(SHUT_WR) *)
(* was called on it; after shutdown(SHUT_RD) nothing more is taken from    *)
(* the socket and libevent handles no data, end-of-file or error of its    *)
(* read side, which stays readable for ever.                               *)
(***************************************************************************)
ShutdownIsFinal ==
  [][\A s \in Side :
       /\ shutdown_write[s] => delivered'[s] = delivered[s]
       /\ shutdown_read[s] => unread'[s] = unread[s] /\ ~Readable(s)]_vars

(***************************************************************************)
(* What the event loop has left to do if both peers fall silent: bytes to  *)
(* read and to write, and events that are added.                           *)
(***************************************************************************)
One(b) == IF b THEN 1 ELSE 0

WorkAt(s) ==
  3 * (unread[s] + input[s]) + output[s] + One(wpending[s]) + One(ev_read[s])

Work == WorkAt("client") + WorkAt("relay")

(***************************************************************************)
(* Action property: the loop never spins.  Every callback on a socket that *)
(* is ready uses up some of the work, whether it moves bytes, passes on an *)
(* end-of-stream or meets an error, so that between two steps of the peers *)
(* only finitely many callbacks run.  No handler enables an event again    *)
(* that libevent has disabled or removed: a socket at end-of-file stays    *)
(* readable for ever, and one with nothing to write stays writable.        *)
(***************************************************************************)
NeverSpins ==
  [][(\E s \in Side : Readable(s) \/ Writable(s)) => Work' < Work]_vars

(***************************************************************************)
(* Safety: when no callback is due, everything owed has been done.  If     *)
(* neither socket has an event the loop waits for, an ended stream has     *)
(* been passed on and a connection both of whose ends are gone is freed,   *)
(* unless a peer has stopped reading.  So no read event is lost at the     *)
(* high watermark, no write event before a FIN that is owed, and no        *)
(* callback that sets the last of the four shutdown flags omits the close  *)
(* check.  With NeverSpins this is why the two liveness properties hold.   *)
(***************************************************************************)
ReadDue(s) ==
  /\ ev_read[s]
  /\ (unread[s] > 0 /\ input[s] < BufSize) \/ AtEof(s) \/ AtError(s)

WriteDue(s) == wpending[s] /\ (output[s] = 0 \/ rst[s] \/ ~stalled[s])

QuietIsDone ==
  client_state = "client_pumping_data" /\ (\A s \in Side : ~ReadDue(s) /\ ~WriteDue(s)) =>
    /\ \A s \in Side : fin[s] => shutdown_write[Other(s)] \/ stalled[Other(s)]
    /\ (\A s \in Side : fin[s] \/ rst[s]) => \E s \in Side : stalled[s]

(***************************************************************************)
(* context.h:71: "relay_bev;  // relay output -> client input".  All that  *)
(* the relay sends goes to the client, payload that arrived together with  *)
(* the SOCKS5 reply included.                                              *)
(***************************************************************************)
NothingStranded ==
  Destroyed /\ Intact /\ ~dropped => \A s \in Side : delivered[Other(s)] = sent[s]

(***************************************************************************)
(* Liveness: half-close.  When one peer ends its stream, the proxy         *)
(* eventually shuts down the write direction of the other socket, or frees *)
(* the connection, unless the other peer never reads again.                *)
(***************************************************************************)
HalfCloseForwarded ==
  \A s \in Side :
    fin[s] ~> shutdown_write[Other(s)] \/ Destroyed \/ stalled[Other(s)]

(***************************************************************************)
(* Liveness: once both peers have ended or reset, the client is eventually *)
(* freed by the close check or by an error, unless a peer with output      *)
(* queued for it never reads again.                                        *)
(***************************************************************************)
BothEndsClose ==
  (\A s \in Side : fin[s] \/ rst[s]) ~> Destroyed \/ \E s \in Side : stalled[s]

(***************************************************************************)
(* Refinement: the pump implements StreamRelay with half-close.            *)
(***************************************************************************)
Relay == INSTANCE StreamRelay WITH
           HalfClose <- TRUE, finOut <- shutdown_write, closed <- Destroyed

RelaySpec == Relay!RelaySpec
=============================================================================
