----------------------------- MODULE SplicePump -----------------------------
(***************************************************************************)
(* The data pump of splicepump.c for one connection.  Each direction has a *)
(* pipe; a read event on the source socket splices into the pipe, a read   *)
(* event on the pipe splices out of it into the target socket.  The        *)
(* bufferevents of the handshake are disabled and detached from the        *)
(* sockets, so payload they hold is never looked at again.                 *)
(***************************************************************************)
EXTENDS Peers

CONSTANTS
  PipeCap,      \* capacity of a pipe in bytes (F_GETPIPE_SZ)
  PipeSlots,    \* a pipe also has a limited number of buffers: it can be
                \* full as soon as it holds PipeSlots bytes
  Leftovers     \* payload bytes the handshake may leave in relay_bev

ASSUME PipeAssumption == PipeCap \in Nat /\ PipeSlots \in 1 .. PipeCap
ASSUME LeftoversAssumption == Leftovers \subseteq Nat

VARIABLES
  client_state,
  shutdown_read,   \* client_shutdown_read, relay_shutdown_read
  shutdown_write,  \* client_shutdown_write, relay_shutdown_write
  user_arg,        \* the transocks_splicepump attached to the client
  pipe,            \* bytes in the kernel's pipe of each direction
  data_in_pipe,    \* the pump's own count of them
  pipe_writefd,    \* "none" (-1), "open", or "stale": the number of a
  pipe_readfd,     \*   descriptor the pump has closed already
  read_ev,         \* client_read_ev, relay_read_ev, by direction
  write_ev,        \* relay_write_ev, client_write_ev, by direction
  write_active,    \* the write event was made active by hand
  stranded,        \* payload held by relay_bev, never forwarded
  dropped          \* freed for a local reason

pumpVars == <<user_arg, pipe, data_in_pipe, pipe_writefd, pipe_readfd,
              read_ev, write_ev, write_active>>
flagVars == <<shutdown_read, shutdown_write>>
vars == <<peerVars, pumpVars, flagVars, client_state, stranded, dropped>>

Dir == {"inbound", "outbound"}
Src(d) == IF d = "inbound" THEN "relay" ELSE "client"
Dst(d) == IF d = "inbound" THEN "client" ELSE "relay"

NoDir  == [d \in Dir |-> FALSE]
BothDir == [d \in Dir |-> TRUE]
PipeEnds(v) == [d \in Dir |-> v]

Destroyed == client_state = "client_DESTROYED"

TypeOK ==
  /\ PeersTypeOK
  /\ client_state \in {"client_socks5_finish_handshake", "client_pumping_data",
                       "client_DESTROYED"}
  /\ shutdown_read \in [Side -> BOOLEAN]
  /\ shutdown_write \in [Side -> BOOLEAN]
  /\ user_arg \in {"null", "pump", "freed"}
  /\ pipe \in [Dir -> 0 .. PipeCap]
  /\ data_in_pipe \in [Dir -> Nat]
  /\ pipe_writefd \in [Dir -> {"none", "open", "stale"}]
  /\ pipe_readfd \in [Dir -> {"none", "open", "stale"}]
  /\ read_ev \in [Dir -> BOOLEAN]
  /\ write_ev \in [Dir -> BOOLEAN]
  /\ write_active \in [Dir -> BOOLEAN]
  /\ stranded \in Nat
  /\ dropped \in BOOLEAN

Init ==
  /\ \E early \in Leftovers : PeersInit(early) /\ stranded = early
  /\ client_state = "client_socks5_finish_handshake"
  /\ shutdown_read = AllFalse
  /\ shutdown_write = AllFalse
  /\ user_arg = "null"
  /\ pipe = [d \in Dir |-> 0]
  /\ data_in_pipe = [d \in Dir |-> 0]
  /\ pipe_writefd = PipeEnds("none")
  /\ pipe_readfd = PipeEnds("none")
  /\ read_ev = NoDir
  /\ write_ev = NoDir
  /\ write_active = NoDir
  /\ dropped = FALSE

-----------------------------------------------------------------------------
(***************************************************************************)
(* transocks_splicepump_free on an attached pump: close the pipe ends that *)
(* the fields name, delete the events, free the pump, free the client.     *)
(* The kernel's pipes vanish; pipe keeps the number of bytes they held.    *)
(***************************************************************************)
transocks_splicepump_free ==
  /\ pipe_writefd' = PipeEnds("none")
  /\ pipe_readfd' = PipeEnds("none")
  /\ read_ev' = NoDir
  /\ write_ev' = NoDir
  /\ write_active' = NoDir
  /\ user_arg' = "freed"
  /\ client_state' = "client_DESTROYED"

transocks_on_fatal_failure ==
  /\ transocks_splicepump_free
  /\ UNCHANGED <<pipe, data_in_pipe, flagVars, dropped>>

\* mutant: the write side is not awaited
DirectionEnded_reads_only(d, sr, sw) == sr[Src(d)]

(***************************************************************************)
(* transocks_check_normal_termination: with valid descriptors, the end of  *)
(* one direction frees the whole connection.  It is the tail of both pipe  *)
(* functions: sr and sw are the flags they leave, wfd, rfd, rev and act    *)
(* the pipe ends and events.                                               *)
(***************************************************************************)
DirectionEnded(d, sr, sw) == sr[Src(d)] /\ sw[Dst(d)]

transocks_check_normal_termination(d, sr, sw, wfd, rfd, rev, act) ==
  /\ shutdown_read' = sr
  /\ shutdown_write' = sw
  /\ IF DirectionEnded(d, sr, sw)
       THEN transocks_splicepump_free
       ELSE /\ pipe_writefd' = wfd
            /\ pipe_readfd' = rfd
            /\ read_ev' = rev
            /\ write_active' = act
            /\ UNCHANGED <<write_ev, user_arg, client_state>>
  /\ UNCHANGED dropped

-----------------------------------------------------------------------------
(***************************************************************************)
(* splice(2) from the source socket into the pipe (external).  A full pipe *)
(* refuses before the socket is looked at.                                 *)
(***************************************************************************)
SpliceInTransfers(d, n) ==
  /\ pipe[d] < PipeCap
  /\ n \in 1 .. unread[Src(d)]
  /\ n <= PipeCap - pipe[d]

SpliceInRetries(d) == pipe[d] >= PipeSlots
SpliceInEof(d)     == pipe[d] < PipeCap /\ AtEof(Src(d))
SpliceInFails(d)   == pipe[d] < PipeCap /\ AtError(Src(d))

\* mutant: data_in_pipe is not increased
WriteToPipe_uncounted(d) ==
  \E n \in 1 .. PipeCap :
    /\ SpliceInTransfers(d, n)
    /\ SocketRead(Src(d), n)
    /\ pipe' = [pipe EXCEPT ![d] = @ + n]
    /\ transocks_check_normal_termination(d, shutdown_read, shutdown_write,
         pipe_writefd, pipe_readfd, read_ev, write_active)
    /\ UNCHANGED <<data_in_pipe, sent, delivered, fin, rst, sockerr, stalled>>

(***************************************************************************)
(* transocks_write_to_pipe(direction), one disjunct per splice result.     *)
(***************************************************************************)
WriteToPipe_normal_transfer(d) ==
  \E n \in 1 .. PipeCap :
    /\ SpliceInTransfers(d, n)
    /\ SocketRead(Src(d), n)
    /\ pipe' = [pipe EXCEPT ![d] = @ + n]
    /\ data_in_pipe' = [data_in_pipe EXCEPT ![d] = @ + n]
    /\ transocks_check_normal_termination(d, shutdown_read, shutdown_write,
         pipe_writefd, pipe_readfd, read_ev, write_active)
    /\ UNCHANGED <<sent, delivered, fin, rst, sockerr, stalled>>

\* TRANSOCKS_EVENT_ACTIVE only activates an event that is not pending
WriteToPipe_can_retry(d) ==
  /\ SpliceInRetries(d)
  /\ transocks_check_normal_termination(d, shutdown_read, shutdown_write,
       pipe_writefd, pipe_readfd, read_ev,
       [write_active EXCEPT ![d] = @ \/ (data_in_pipe[d] > 0 /\ ~write_ev[d])])
  /\ UNCHANGED <<peerVars, pipe, data_in_pipe>>

\* mutant: the write end of the pipe stays open
WriteToPipe_read_eof_unclosed(d) ==
  /\ SpliceInEof(d)
  /\ transocks_check_normal_termination(d,
       [shutdown_read EXCEPT ![Src(d)] = TRUE], shutdown_write,
       pipe_writefd, pipe_readfd,
       [read_ev EXCEPT ![d] = FALSE], write_active)
  /\ UNCHANGED <<peerVars, pipe, data_in_pipe>>

\* closes a copy of the write end: the field keeps the number
WriteToPipe_read_eof(d) ==
  /\ SpliceInEof(d)
  /\ transocks_check_normal_termination(d,
       [shutdown_read EXCEPT ![Src(d)] = TRUE], shutdown_write,
       [pipe_writefd EXCEPT ![d] = "stale"], pipe_readfd,
       [read_ev EXCEPT ![d] = FALSE], write_active)
  /\ UNCHANGED <<peerVars, pipe, data_in_pipe>>

WriteToPipe_fatal_failure(d) ==
  /\ SpliceInFails(d)
  /\ ReportError(Src(d))
  /\ transocks_on_fatal_failure
  /\ UNCHANGED <<sent, unread, delivered, fin, rst, stalled>>

transocks_write_to_pipe(d) ==
  \/ WriteToPipe_normal_transfer(d)
  \/ WriteToPipe_can_retry(d)
  \/ WriteToPipe_read_eof(d)
  \/ WriteToPipe_fatal_failure(d)

-----------------------------------------------------------------------------
(***************************************************************************)
(* splice(2) from the pipe into the target socket, asking for data_in_pipe *)
(* bytes (external).  Zero bytes asked for, or an empty pipe without a     *)
(* writer, return 0; a peer that does not read makes it fail with EAGAIN.  *)
(***************************************************************************)
SpliceOutTransfers(d, n) ==
  /\ ~rst[Dst(d)] /\ ~stalled[Dst(d)]
  /\ n \in 1 .. data_in_pipe[d]
  /\ n <= pipe[d]

SpliceOutRetries(d) ==
  /\ data_in_pipe[d] > 0
  /\ IF pipe[d] = 0 THEN pipe_writefd[d] = "open"
                    ELSE stalled[Dst(d)] /\ ~rst[Dst(d)]

SpliceOutEof(d) ==
  \/ data_in_pipe[d] = 0
  \/ pipe[d] = 0 /\ pipe_writefd[d] # "open"

SpliceOutFails(d) == data_in_pipe[d] > 0 /\ pipe[d] > 0 /\ rst[Dst(d)]

\* mutant: data_in_pipe is not decreased
ReadFromPipe_uncounted(d) ==
  \E n \in 1 .. PipeCap :
    /\ SpliceOutTransfers(d, n)
    /\ SocketWrite(Dst(d), n)
    /\ pipe' = [pipe EXCEPT ![d] = @ - n]
    /\ transocks_check_normal_termination(d, shutdown_read, shutdown_write,
         pipe_writefd, pipe_readfd, read_ev, [write_active EXCEPT ![d] = FALSE])
    /\ UNCHANGED <<data_in_pipe, sent, unread, fin, rst, sockerr, stalled>>

(***************************************************************************)
(* transocks_read_from_pipe(direction), one disjunct per splice result.    *)
(***************************************************************************)
ReadFromPipe_normal_transfer(d) ==
  \E n \in 1 .. PipeCap :
    /\ SpliceOutTransfers(d, n)
    /\ SocketWrite(Dst(d), n)
    /\ pipe' = [pipe EXCEPT ![d] = @ - n]
    /\ data_in_pipe' = [data_in_pipe EXCEPT ![d] = @ - n]
    /\ transocks_check_normal_termination(d, shutdown_read, shutdown_write,
         pipe_writefd, pipe_readfd, read_ev, [write_active EXCEPT ![d] = FALSE])
    /\ UNCHANGED <<sent, unread, fin, rst, sockerr, stalled>>

ReadFromPipe_can_retry(d) ==
  /\ SpliceOutRetries(d)
  /\ transocks_check_normal_termination(d, shutdown_read, shutdown_write,
       pipe_writefd, pipe_readfd, read_ev, [write_active EXCEPT ![d] = FALSE])
  /\ UNCHANGED <<peerVars, pipe, data_in_pipe>>

ReadFromPipe_read_eof(d) ==
  /\ SpliceOutEof(d)
  /\ transocks_check_normal_termination(d,
       shutdown_read, [shutdown_write EXCEPT ![Dst(d)] = TRUE],
       pipe_writefd, [pipe_readfd EXCEPT ![d] = "stale"],
       read_ev, [write_active EXCEPT ![d] = FALSE])
  /\ UNCHANGED <<peerVars, pipe, data_in_pipe>>

ReadFromPipe_fatal_failure(d) ==
  /\ SpliceOutFails(d)
  /\ ReportError(Dst(d))
  /\ transocks_on_fatal_failure
  /\ UNCHANGED <<sent, unread, delivered, fin, rst, stalled>>

transocks_read_from_pipe(d) ==
  \/ ReadFromPipe_normal_transfer(d)
  \/ ReadFromPipe_can_retry(d)
  \/ ReadFromPipe_read_eof(d)
  \/ ReadFromPipe_fatal_failure(d)

-----------------------------------------------------------------------------
(***************************************************************************)
(* The event callbacks.  A read event fires while its socket has data, an  *)
(* end-of-file or an error; a write event fires while its pipe has data or *)
(* has lost its writer, or when it was activated by hand.                  *)
(***************************************************************************)
SocketReadable(s) == unread[s] > 0 \/ AtEof(s) \/ AtError(s)
PipeReadable(d)   == pipe[d] > 0 \/ pipe_writefd[d] # "open"
WriteEventReady(d) == (write_ev[d] /\ PipeReadable(d)) \/ write_active[d]

ReadEvent(d) ==
  /\ read_ev[d]
  /\ SocketReadable(Src(d))
  /\ transocks_write_to_pipe(d)
  /\ UNCHANGED stranded

WriteEvent(d) ==
  /\ WriteEventReady(d)
  /\ transocks_read_from_pipe(d)
  /\ UNCHANGED stranded

transocks_splicepump_client_readcb  == ReadEvent("outbound")
transocks_splicepump_relay_writecb  == WriteEvent("outbound")
transocks_splicepump_relay_readcb   == ReadEvent("inbound")
transocks_splicepump_client_writecb == WriteEvent("inbound")

(***************************************************************************)
(* transocks_splicepump_start_pump.                                        *)
(***************************************************************************)
transocks_splicepump_new ==
  /\ user_arg' = "pump"
  /\ UNCHANGED <<pipe, data_in_pipe>>

transocks_splicepump_start_pump ==
  /\ client_state = "client_socks5_finish_handshake"
  /\ transocks_splicepump_new
  /\ pipe_writefd' = PipeEnds("open")
  /\ pipe_readfd' = PipeEnds("open")
  /\ read_ev' = BothDir
  /\ write_ev' = BothDir
  /\ client_state' = "client_pumping_data"
  /\ UNCHANGED <<peerVars, flagVars, write_active, stranded, dropped>>

\* fails before the pump is attached: transocks_splicepump_free returns at
\* once, and the caller of transocks_start_pump frees the client
start_pump_fails_early ==
  /\ client_state = "client_socks5_finish_handshake"
  /\ client_state' = "client_DESTROYED"
  /\ dropped' = TRUE
  /\ UNCHANGED <<peerVars, pumpVars, flagVars, stranded>>

\* fails after: transocks_splicepump_free has freed the client as well when
\* start_pump returns -1, and the caller frees it again
start_pump_fails_late ==
  /\ client_state = "client_socks5_finish_handshake"
  /\ transocks_splicepump_free
  /\ dropped' = TRUE
  /\ UNCHANGED <<peerVars, pipe, data_in_pipe, flagVars, stranded>>

\* transocks_drop_all_clients
transocks_pump_free ==
  /\ client_state = "client_pumping_data"
  /\ user_arg = "pump"
  /\ transocks_splicepump_free
  /\ dropped' = TRUE
  /\ UNCHANGED <<peerVars, pipe, data_in_pipe, flagVars, stranded>>

PeerAction(s) ==
  /\ ~Destroyed
  /\ PeerStep(s)
  /\ UNCHANGED <<pumpVars, flagVars, client_state, stranded, dropped>>

Next ==
  \/ transocks_splicepump_start_pump
  \/ start_pump_fails_early
  \/ start_pump_fails_late
  \/ transocks_pump_free
  \/ transocks_splicepump_client_readcb
  \/ transocks_splicepump_relay_writecb
  \/ transocks_splicepump_relay_readcb
  \/ transocks_splicepump_client_writecb
  \/ \E s \in Side : PeerAction(s)

(***************************************************************************)
(* Level-triggered events on one loop: an event whose descriptor stays     *)
(* ready eventually runs.  Nothing is assumed of the peers.                *)
(***************************************************************************)
Fairness ==
  /\ WF_vars(transocks_splicepump_start_pump)
  /\ WF_vars(transocks_splicepump_client_readcb)
  /\ WF_vars(transocks_splicepump_relay_writecb)
  /\ WF_vars(transocks_splicepump_relay_readcb)
  /\ WF_vars(transocks_splicepump_client_writecb)

Spec == Init /\ [][Next]_vars

FairSpec == Spec /\ Fairness

-----------------------------------------------------------------------------
\* bytes of the stream of direction d that were stranded at the start
Stranded(d) == IF d = "inbound" THEN stranded ELSE 0

(***************************************************************************)
(* Safety: the pump's count agrees with the kernel and no byte is lost or  *)
(* duplicated between the sockets.  transocks_read_from_pipe asks splice   *)
(* for data_in_pipe bytes, so a wrong count would be a false end-of-file.  *)
(***************************************************************************)
PipeAccounting ==
  \A d \in Dir :
    /\ data_in_pipe[d] = pipe[d]
    /\ sent[Src(d)] = unread[Src(d)] + Stranded(d) + pipe[d] + delivered[Dst(d)]

(***************************************************************************)
(* Safety: splice returning 0 on a pipe means end-of-stream.  Because a    *)
(* splice of length 0 also returns 0, a write event must never run on an   *)
(* empty pipe whose writer is open; then the write side of the target is   *)
(* shut down only after the source ended and its pipe was drained.         *)
(***************************************************************************)
NoFalseEof ==
  \A d \in Dir :
    shutdown_write[Dst(d)] =>
      /\ shutdown_read[Src(d)]
      /\ fin[Src(d)]
      /\ delivered[Dst(d)] + Stranded(d) = sent[Src(d)]

(***************************************************************************)
(* Liveness: the end or the reset of one stream eventually frees the       *)
(* connection, unless a peer never reads again.                            *)
(***************************************************************************)
EndFreesConnection ==
  \A s \in Side :
    fin[s] \/ rst[s] ~> Destroyed \/ \E t \in Side : stalled[t]

(***************************************************************************)
(* Refinement: the pump implements StreamRelay without half-close.         *)
(***************************************************************************)
Relay == INSTANCE StreamRelay WITH
           HalfClose <- FALSE, finOut <- shutdown_write, closed <- Destroyed

RelaySpec == Relay!RelaySpec
=============================================================================
