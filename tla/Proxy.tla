------------------------------- MODULE Proxy -------------------------------
(***************************************************************************)
(* The process around the connections while its event loop runs, and its   *)
(* exit: the listener, the signals, the list of clients and the            *)
(* descriptors they hold (context.c), for both pump methods.  Start-up and *)
(* the release of the environment are in Startup; what a connection does   *)
(* between being accepted, starting its pump and ending is in Socks5,      *)
(* BufferPump and SplicePump; here those are single events.                *)
(*                                                                         *)
(* Two things are modelled exactly because their interplay is the hard     *)
(* part: the kernel hands out the lowest free descriptor number, and       *)
(* libevent runs all events of one round before the finalizers that        *)
(* bufferevent_free queues behind them.  A round finds its events in any   *)
(* order, and finalizers only close, so both are sets.  The list of        *)
(* clients is the set of its members: ClientList has the links.            *)
(***************************************************************************)
EXTENDS Naturals, Sequences, FiniteSets, Functions

CONSTANTS
  Clients,      \* the connections that may be accepted, each once
  MaxFd,        \* RLIMIT_NOFILE
  MaxBatch,     \* how many events one round of the loop may find ready
  PumpMethods   \* the pump methods the process may be started with

ASSUME ClientsAssumption == "env" \notin Clients
ASSUME MaxFdAssumption == MaxFd \in Nat \ {0}
ASSUME MaxBatchAssumption == MaxBatch \in Nat \ {0}
ASSUME PumpMethodsAssumption == PumpMethods \subseteq {"bufferpump", "splicepump"}

VARIABLES
  pump_method,\* pump_method_name of the environment, never changed
  phase,      \* how far main has come
  fdtab,      \* the kernel's descriptor table: who opened each number
  state,      \* of each client
  fd,         \* the descriptor numbers in each client's fields, 0 for -1
  ended,      \* splice pump: write ends whose source has reached its end
  list,       \* current_clients_dlinklist
  active,     \* the events of this round that libevent has not run yet
  finalizing  \* the numbers its queued finalizers are to close

vars == <<pump_method, phase, fdtab, state, fd, ended, list, active, finalizing>>

Fds          == 1 .. MaxFd
SocketFields == {"client_fd", "relay_fd"}
PipeFields   == {"inbound_w", "inbound_r", "outbound_w", "outbound_r"}
Fields       == SocketFields \cup PipeFields
WriteEnds    == {"inbound_w", "outbound_w"}

\* entries of the descriptor table
FreeSlot == <<"none", "free">>
Listener == <<"env", "listener_fd">>
Lost     == {"createpipe"} \X {"pipe_readfd", "pipe_writefd"}

Alive(c) == state[c] \in {"handshake", "pumping"}

\* an event: what it is and whose
Event(what, c) == [what |-> what, of |-> c]
ClientEvents == {Event(w, c) : w \in {"start_pump", "source_eof", "end"}, c \in Clients}
LoopEvents == {Event(w, "env") : w \in {"accept", "drop", "terminate"}}

TypeOK ==
  /\ pump_method \in PumpMethods
  /\ phase \in {"running", "shutdown", "exited"}
  /\ fdtab \in [Fds -> {FreeSlot, Listener} \cup Lost \cup (Clients \X Fields)]
  /\ state \in [Clients -> {"unused", "handshake", "pumping", "freed"}]
  /\ fd \in [Clients -> [Fields -> 0 .. MaxFd]]
  /\ ended \in [Clients -> SUBSET WriteEnds]
  /\ list \subseteq Clients
  /\ active \subseteq ClientEvents \cup LoopEvents
  /\ finalizing \subseteq Fds

\* the state Startup!LoopIsReady describes
Init ==
  /\ pump_method \in PumpMethods
  /\ phase = "running"
  /\ fdtab = [n \in Fds |-> IF n = 1 THEN Listener ELSE FreeSlot]
  /\ state = [c \in Clients |-> "unused"]
  /\ fd = [c \in Clients |-> [k \in Fields |-> 0]]
  /\ ended = [c \in Clients |-> {}]
  /\ list = {}
  /\ active = {}
  /\ finalizing = {}

-----------------------------------------------------------------------------
(***************************************************************************)
(* Descriptors.  The kernel gives the lowest free numbers of a table, in   *)
(* the order of the calls, to the fields of ks; close frees a number,      *)
(* whoever has it by now.                                                  *)
(***************************************************************************)
Free(tab) == {n \in Fds : tab[n] = FreeSlot}

Lowest(tab, ks) ==
  LET lowest == {n \in Free(tab) : Cardinality({m \in Free(tab) : m < n}) < Len(ks)}
  IN  {p \in [Range(ks) -> lowest] :
         \A i, j \in DOMAIN ks : i < j => p[ks[i]] < p[ks[j]]}

Opened(tab, who, p) ==
  [n \in Fds |-> IF n \in Range(p) THEN <<who, CHOOSE k \in DOMAIN p : p[k] = n>>
                                   ELSE tab[n]]

Closed(tab, nums) == [n \in Fds |-> IF n \in nums THEN FreeSlot ELSE tab[n]]

\* the fields of a client after the numbers of p have been assigned to some
Assigned(fields, p) == [k \in Fields |-> IF k \in DOMAIN p THEN p[k] ELSE fields[k]]

Open(c, p) ==
  /\ fd' = [fd EXCEPT ![c] = Assigned(fd[c], p)]
  /\ fdtab' = Opened(fdtab, c, p)

\* mutant: pipes are closed only when both have been created
splicepump_free_complete(fields) ==
  IF \A k \in PipeFields : fields[k] # 0 THEN {fields[k] : k \in PipeFields} ELSE {}

\* mutant: the client is not unlinked
free_context_linked(gone) ==
  /\ state' = [c \in Clients |-> IF c \in gone THEN "freed" ELSE state[c]]
  /\ fd' = [c \in Clients |-> IF c \in gone THEN [k \in Fields |-> 0] ELSE fd[c]]
  /\ UNCHANGED <<list, ended, pump_method>>

(***************************************************************************)
(* Freeing the clients of the set gone, one after the other, which leaves  *)
(* the descriptor table tab: transocks_client_free closes client_fd and    *)
(* relay_fd (Held), deletes the events of the client, frees both           *)
(* bufferevents and unlinks the client.  The                               *)
(* bufferevents were created with BEV_OPT_CLOSE_ON_FREE: their finalizers, *)
(* queued now and run later, close the same two numbers again (late),      *)
(* unless the splice pump has detached them.  transocks_splicepump_free    *)
(* closes the numbers in the pipe fields first.                            *)
(***************************************************************************)
transocks_splicepump_free(fields) == {fields[k] : k \in PipeFields} \ {0}

Held(fields) ==
  transocks_splicepump_free(fields) \cup ({fields[k] : k \in SocketFields} \ {0})

HeldBy(cs) == UNION {Held(fd[c]) : c \in cs}

Detached(c) == pump_method = "splicepump" /\ state[c] = "pumping"

FinalizersOf(cs) ==
  {fd[c][k] : c \in {b \in cs : ~Detached(b)}, k \in SocketFields}

FreeContext(gone) ==
  /\ state' = [c \in Clients |-> IF c \in gone THEN "freed" ELSE state[c]]
  /\ fd' = [c \in Clients |-> IF c \in gone THEN [k \in Fields |-> 0] ELSE fd[c]]
  /\ list' = list \ gone
  /\ UNCHANGED <<ended, pump_method>>

transocks_client_free(tab, gone, late, handled) ==
  /\ fdtab' = tab
  /\ FreeContext(gone)
  /\ active' = {e \in active \ {handled} : e.of \notin gone}
  /\ finalizing' = finalizing \cup late
  /\ UNCHANGED phase

\* mutant: clients in the handshake are passed over
Droppable_pumping_only(c) == state[c] = "pumping"

(***************************************************************************)
(* transocks_drop_all_clients calls transocks_pump_free on the whole list. *)
(* A splice pump that has not started has no user_arg: nothing is freed.   *)
(***************************************************************************)
Droppable(c) == pump_method = "splicepump" => state[c] = "pumping"

Dropped == {c \in list : Droppable(c)}

\* mutant: the listening socket is not closed
listener_deinit_open(tab) == tab

(***************************************************************************)
(* main after label shutdown: drop the clients, then                       *)
(* transocks_global_env_free with listener_deinit, signal_deinit and       *)
(* event_base_free, which runs the finalizers that are left.               *)
(***************************************************************************)
listener_deinit(tab) == 
  [n \in Fds |-> IF tab[n] = Listener THEN FreeSlot ELSE tab[n]]

Shutdown ==
  /\ phase = "shutdown"
  /\ phase' = "exited"
  /\ fdtab' = listener_deinit(Closed(fdtab, finalizing \cup HeldBy(Dropped)))
  /\ FreeContext(Dropped)
  /\ active' = {}
  /\ finalizing' = {}

-----------------------------------------------------------------------------
(***************************************************************************)
(* event_base_dispatch (external): when nothing is queued, a round of the  *)
(* loop finds up to MaxBatch events that are ready; they run one by one,   *)
(* then the finalizers they left.                                          *)
(***************************************************************************)
Ready(e) ==
  \/ e.what = "accept" /\ \E c \in Clients : state[c] = "unused"
  \/ e.what \in {"drop", "terminate"}
  \/ e.what = "start_pump" /\ state[e.of] = "handshake"
  \/ e.what = "end" /\ Alive(e.of)
  \/ e.what = "source_eof" /\ Detached(e.of) /\ ended[e.of] # WriteEnds

event_base_poll ==
  /\ phase = "running"
  /\ active = {} /\ finalizing = {}
  /\ \E f \in [1 .. MaxBatch -> {e \in ClientEvents \cup LoopEvents : Ready(e)}] :
       active' = Range(f)
  /\ UNCHANGED <<phase, pump_method, fdtab, state, fd, ended, list, finalizing>>

Handle(e) == phase = "running" /\ e \in active

Handled(e) == Handle(e) /\ active' = active \ {e}

\* a finalizer closes the number its bufferevent had
bufferevent_finalize ==
  /\ phase = "running"
  /\ active = {}
  /\ \E n \in finalizing :
       /\ fdtab' = Closed(fdtab, {n})
       /\ finalizing' = finalizing \ {n}
  /\ UNCHANGED <<phase, pump_method, state, fd, ended, list, active>>

(***************************************************************************)
(* listener_cb and transocks_start_connect_relay, which it calls.          *)
(***************************************************************************)
Accept == Event("accept", "env")

\* accept fails
listener_cb_gives_up ==
  /\ Handled(Accept)
  /\ UNCHANGED <<phase, pump_method, fdtab, state, fd, ended, list, finalizing>>

(***************************************************************************)
(* A step after accept fails: at freeFd and freeClient before the number   *)
(* is in a field of the new client ("accepted"), at freeBev when it is     *)
(* ("field") or when client_bev has it too ("bev").  freeBev frees         *)
(* client_bev, freeClient the client, which closes its client_fd, and      *)
(* freeFd closes the number; a finalizer closes it once more.  The client  *)
(* was never listed.                                                       *)
(***************************************************************************)
listener_cb_fails(c) ==
  /\ Handled(Accept)
  /\ state[c] = "unused"
  /\ \E p \in Lowest(fdtab, <<"client_fd">>), reached \in {"accepted", "field", "bev"} :
       LET client_fd == IF reached = "accepted" THEN {} ELSE Range(p)
           bev_fd    == IF reached = "bev" THEN Range(p) ELSE {}
       IN  /\ fdtab' = Closed(Closed(Opened(fdtab, c, p), client_fd), Range(p))
           /\ finalizing' = finalizing \cup bev_fd
  /\ UNCHANGED <<phase, pump_method, state, fd, ended, list>>

listener_cb_accepts(c) ==
  /\ Handled(Accept)
  /\ state[c] = "unused"
  /\ \E p \in Lowest(fdtab, <<"client_fd", "relay_fd">>) : Open(c, p)
  /\ state' = [state EXCEPT ![c] = "handshake"]
  /\ list' = list \cup {c}
  /\ UNCHANGED <<phase, pump_method, ended, finalizing>>

\* mutant: the relay socket is closed but the client goes on
start_connect_relay_fails_unfreed(c) ==
  /\ Handled(Accept)
  /\ state[c] = "unused"
  /\ \E p \in Lowest(fdtab, <<"client_fd", "relay_fd">>) :
       /\ fd' = [fd EXCEPT ![c] = Assigned(fd[c], p)]
       /\ fdtab' = Closed(Opened(fdtab, c, p), {p["relay_fd"]})
  /\ state' = [state EXCEPT ![c] = "handshake"]
  /\ list' = list \cup {c}
  /\ UNCHANGED <<phase, pump_method, ended, finalizing>>

(***************************************************************************)
(* transocks_start_connect_relay fails for the client just listed: without *)
(* a relay socket ("none"), before relay_fd is in its field ("socket"),    *)
(* without a relay_bev ("field"), or at bufferevent_socket_connect         *)
(* ("bev").  freeBev frees relay_bev, closeFd closes the local relay_fd,   *)
(* freeClient the client with client_bev and what is in its fields.  (The  *)
(* client frees relay_bev a second time after freeBev: Socks5 has that;    *)
(* here it does nothing more.)                                             *)
(***************************************************************************)
start_connect_relay_fails(c) ==
  /\ Handled(Accept)
  /\ state[c] = "unused"
  /\ \/ \E p \in Lowest(fdtab, <<"client_fd">>) :
          /\ fdtab' = Closed(Opened(fdtab, c, p), Range(p))
          /\ finalizing' = finalizing \cup Range(p)
     \/ \E p \in Lowest(fdtab, <<"client_fd", "relay_fd">>),
           reached \in {"socket", "field", "bev"} :
          LET closed == Closed(Opened(fdtab, c, p), {p["relay_fd"]})
              fields == {"client_fd"} \cup (IF reached = "socket" THEN {} ELSE {"relay_fd"})
              bevs   == {"client_fd"} \cup (IF reached = "bev" THEN {"relay_fd"} ELSE {})
          IN  /\ fdtab' = Closed(closed, {p[k] : k \in fields})
              /\ finalizing' = finalizing \cup {p[k] : k \in bevs}
  /\ state' = [state EXCEPT ![c] = "freed"]
  /\ UNCHANGED <<phase, pump_method, fd, ended, list>>

-----------------------------------------------------------------------------
(***************************************************************************)
(* transocks_start_pump.  The splice pump detaches the bufferevents and    *)
(* creates two pipes.                                                      *)
(***************************************************************************)
InboundPipe == <<"inbound_r", "inbound_w">>
BothPipes   == <<"inbound_r", "inbound_w", "outbound_r", "outbound_w">>

transocks_start_pump(c) ==
  /\ Handled(Event("start_pump", c))
  /\ state' = [state EXCEPT ![c] = "pumping"]
  /\ \/ pump_method = "bufferpump" /\ UNCHANGED <<fdtab, fd>>
     \/ pump_method = "splicepump" /\ \E p \in Lowest(fdtab, BothPipes) : Open(c, p)
  /\ UNCHANGED <<phase, pump_method, ended, list, finalizing>>

(***************************************************************************)
(* The tables a failed createpipe may leave: pipe() has failed, or         *)
(* setnonblocking has, and then the two numbers pipe() gave stay open with *)
(* no variable that names them.                                            *)
(***************************************************************************)
createpipe_fails(tab) ==
  {tab} \cup {Opened(tab, "createpipe", q) : q \in Lowest(tab, <<"pipe_readfd", "pipe_writefd">>)}

(***************************************************************************)
(* transocks_splicepump_start_pump fails with the bufferevents detached:   *)
(* in transocks_splicepump_new or the first createpipe, in the second,     *)
(* when the first pipe is in its fields, or after both.                    *)
(* transocks_splicepump_free closes what the pipe fields hold, then frees  *)
(* the client.                                                             *)
(***************************************************************************)
splicepump_start_fails(c) ==
  \E made \in {<<>>, InboundPipe, BothPipes} : \E p \in Lowest(fdtab, made) :
    LET tab == Opened(fdtab, c, p)
    IN  \E left \in IF made = BothPipes THEN {tab} ELSE createpipe_fails(tab) :
          transocks_client_free(Closed(left, Held(Assigned(fd[c], p))), {c}, {},
                                Event("start_pump", c))

\* a pump that fails to start frees the client; up to bufferevent_setfd the
\* splice pump, too, leaves its bufferevents to their finalizers
start_pump_fails(c) ==
  LET e == Event("start_pump", c)
  IN  /\ Handle(e)
      /\ \/ transocks_client_free(Closed(fdtab, HeldBy({c})), {c}, FinalizersOf({c}), e)
         \/ pump_method = "splicepump" /\ splicepump_start_fails(c)

\* transocks_write_to_pipe at end-of-file: the write end is closed through a
\* local copy, the field keeps the number
source_eof(c) ==
  /\ Handled(Event("source_eof", c))
  /\ \E k \in WriteEnds \ ended[c] :
       /\ fdtab' = Closed(fdtab, {fd[c][k]})
       /\ ended' = [ended EXCEPT ![c] = @ \cup {k}]
  /\ UNCHANGED <<phase, pump_method, state, fd, list, finalizing>>

\* the handshake fails or times out, or the pump ends
client_ends(c) ==
  /\ Handle(Event("end", c))
  /\ transocks_client_free(Closed(fdtab, HeldBy({c})), {c}, FinalizersOf({c}),
                           Event("end", c))

drop_all_clients_signal_cb ==
  /\ Handle(Event("drop", "env"))
  /\ transocks_client_free(Closed(fdtab, HeldBy(Dropped)), Dropped, FinalizersOf(Dropped),
                           Event("drop", "env"))

\* mutant: the loop is not broken
terminate_signal_cb_returns ==
  /\ Handled(Event("terminate", "env"))
  /\ UNCHANGED <<phase, pump_method, fdtab, state, fd, ended, list, finalizing>>

\* event_base_loopbreak: the rest of the queue is left behind
terminate_signal_cb ==
  /\ Handled(Event("terminate", "env"))
  /\ phase' = "shutdown"
  /\ UNCHANGED <<pump_method, fdtab, state, fd, ended, list, finalizing>>

Dispatch ==
  \/ bufferevent_finalize
  \/ listener_cb_gives_up
  \/ \E c \in Clients :
       \/ listener_cb_fails(c)
       \/ listener_cb_accepts(c)
       \/ start_connect_relay_fails(c)
       \/ transocks_start_pump(c)
       \/ start_pump_fails(c)
       \/ source_eof(c)
       \/ client_ends(c)
  \/ drop_all_clients_signal_cb
  \/ terminate_signal_cb

Next ==
  \/ event_base_poll
  \/ Dispatch
  \/ Shutdown

(***************************************************************************)
(* The loop runs its queue, and main goes on after the loop.  Nothing is   *)
(* assumed of what becomes ready.                                          *)
(***************************************************************************)
Fairness == WF_vars(Dispatch) /\ WF_vars(Shutdown)

Spec == Init /\ [][Next]_vars

FairSpec == Spec /\ Fairness

-----------------------------------------------------------------------------
(***************************************************************************)
(* Safety: the list of clients, which SIGHUP, SIGUSR1 and exit walk, holds *)
(* every live client and no freed one, whatever freed it.                  *)
(***************************************************************************)
ListIsLive == list = {c \in Clients : Alive(c)}

(***************************************************************************)
(* Safety: createpipe's failed fcntl, with the splice pump, is the only    *)
(* descriptor leak.  Every other open descriptor is the listener's or is   *)
(* still named by the field of a live client that opened it, so some later *)
(* free will close it: whichever step of listener_cb, of                   *)
(* transocks_start_connect_relay or of a pump's start has failed, its      *)
(* labels have closed what the steps before it opened.                     *)
(***************************************************************************)
OnlyCreatepipeLeaks ==
  \A n \in Fds :
    \/ fdtab[n] \in {FreeSlot, Listener}
    \/ fdtab[n] \in Lost /\ pump_method = "splicepump"
    \/ \E c \in Clients, k \in Fields :
         fdtab[n] = <<c, k>> /\ Alive(c) /\ fd[c][k] = n

(***************************************************************************)
(* Safety: a live client's sockets are its own: no other connection's free *)
(* has closed the numbers it uses.                                         *)
(***************************************************************************)
OwnSockets ==
  \A c \in Clients, k \in SocketFields : Alive(c) => fdtab[fd[c][k]] = <<c, k>>

(***************************************************************************)
(* Action property: with the buffer pump, as long as all live connections  *)
(* own their sockets, new ones included, only a late finalizer can take    *)
(* one away: no other connection's end, failed accept or pump start, and   *)
(* no SIGUSR1 does.                                                        *)
(* (After that, the victim's own free closes numbers of others.)           *)
(***************************************************************************)
OnlyFinalizersSteal ==
  [][pump_method = "bufferpump" /\ OwnSockets /\ ~OwnSockets' => bufferevent_finalize]_vars

(***************************************************************************)
(* Action property: with the buffer pump, handling SIGUSR1 leaves no       *)
(* client, in whatever stage each one was.                                 *)
(***************************************************************************)
DropEmptiesList ==
  [][drop_all_clients_signal_cb /\ pump_method = "bufferpump" =>
       \A c \in Clients : ~Alive(c)']_vars

(***************************************************************************)
(* Safety: at exit the listening socket has been closed, and with the      *)
(* buffer pump every connection's descriptors too, whatever the loop left  *)
(* in its queue.                                                           *)
(***************************************************************************)
ExitReleasesAll ==
  phase = "exited" =>
    /\ \A n \in Fds : fdtab[n] # Listener
    /\ pump_method = "bufferpump" => \A n \in Fds : fdtab[n] = FreeSlot

(***************************************************************************)
(* Liveness: once SIGTERM or SIGINT is among the active events the process *)
(* exits, whatever is queued with it.                                      *)
(***************************************************************************)
TerminateExits ==
  Event("terminate", "env") \in active ~> phase = "exited"
=============================================================================
