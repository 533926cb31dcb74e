------------------------------- MODULE Startup -------------------------------
(***************************************************************************)
(* main of transocks.c: options, addresses, the environment, signals, the  *)
(* listener, the choice of the pump, the event loop and the way out.       *)
(* Every allocation and system call may fail.  What happens inside the     *)
(* loop is in Proxy; here the loop runs until it is told to stop.          *)
(*                                                                         *)
(* A heap object has the name of the field that points to it: heap holds   *)
(* what is allocated, fields the pointers that are not NULL.  An address   *)
(* given as an option is abstracted to what the parser makes of it.        *)
(***************************************************************************)
EXTENDS Naturals, Sequences

CONSTANTS Addresses,  \* kinds of address strings tried
          MaxArgs     \* bound on the number of options given

ASSUME AddressesAssumption ==
  Addresses \subseteq {"v4", "v4_no_port", "v6", "v6_no_port", "v6_mapped", "garbage"}

VARIABLES
  pc,       \* where main is
  given,    \* the options taken so far
  opts,     \* listenerAddrPort, socks5AddrPort and pumpMethod
  ss,       \* listener_ss and socks5_ss, as parsed
  heap,     \* what is allocated
  fields,   \* pointers of the environment (and itself) that are not NULL
  added,    \* events added to the event base
  sock,     \* the listening socket
  impl,     \* pumpMethodImpl
  faults    \* history: what failed

vars == <<pc, given, opts, ss, heap, fields, added, sock, impl, faults>>

NULL == "NULL"

Signals == {"sigterm_ev", "sigint_ev", "sighup_ev", "sigusr1_ev"}

\* the order in which signal_init adds them
SignalOrder == <<"sigterm_ev", "sigint_ev", "sighup_ev", "sigusr1_ev">>

Events == Signals \cup {"listener_ev"}

Config == {"pump_method_name", "bind_addr", "relay_addr"}

Field == Config \cup Events \cup {"env", "eventBaseLoop", "listener"}

Pumps == {"splicepump", "bufferpump"}

Option ==
  [name : {"listener", "socks5"}, arg : Addresses]
    \cup [name : {"pump"}, arg : Pumps \cup {"other", NULL}]
    \cup [name : {"help"}, arg : {NULL}]

\* a sockaddr_storage that was not filled in
NoAddr == [family |-> NULL, port |-> FALSE, mapped |-> FALSE]

NoSocket == [state |-> "none", dual |-> FALSE, family |-> NULL]

Init ==
  /\ pc = "getopt" /\ given = <<>>
  /\ opts = [listener |-> NULL, socks5 |-> NULL, pump |-> NULL]
  /\ ss = [listener |-> NoAddr, socks5 |-> NoAddr]
  /\ heap = {} /\ fields = {} /\ added = {}
  /\ sock = NoSocket /\ impl = NULL /\ faults = {}

\* main goes from one step to another
At(l)   == pc = l
Goto(l) == pc' = l

Alloc(S) == heap' = heap \cup S /\ fields' = fields \cup S

\* TRANSOCKS_FREE of each of the fields S
Free(S) == heap' = heap \ (S \cap fields) /\ fields' = fields \ S

Fault(f) == faults' = faults \cup {f}

-----------------------------------------------------------------------------
(* The options.  The last one of a kind wins; --pump-method without a      *)
(* value stands for the default.                                           *)
getopt_long(o) ==
  /\ At("getopt")
  /\ Len(given) < MaxArgs
  /\ given' = Append(given, o)
  /\ \/ /\ o.name # "help"
        /\ opts' = [opts EXCEPT ![o.name] = o.arg]
        /\ UNCHANGED pc
     \/ /\ o.name = "help"
        /\ Goto("exit")
        /\ UNCHANGED opts
  /\ UNCHANGED <<ss, heap, fields, added, sock, impl, faults>>

options_end ==
  /\ At("getopt")
  /\ IF NULL \in {opts.listener, opts.socks5}
     THEN Goto("exit") /\ UNCHANGED opts
     ELSE /\ Goto("parse")
          /\ opts' = [opts EXCEPT !.pump = IF @ = NULL THEN "bufferpump" ELSE @]
  /\ UNCHANGED <<given, ss, heap, fields, added, sock, impl, faults>>

-----------------------------------------------------------------------------
(* Addresses: the length a buffer must have, parsing and validation.       *)
SockaddrLen(str) == IF str \in {"v4", "v4_no_port"} THEN 16 ELSE 28

\* libevent: fails when str is no address or the buffer is too short
evutil_parse_sockaddr_port(str, len) ==
  IF str = "garbage" \/ len < SockaddrLen(str) THEN NoAddr
  ELSE [family |-> IF SockaddrLen(str) = 16 THEN "AF_INET" ELSE "AF_INET6",
        port |-> str \notin {"v4_no_port", "v6_no_port"},
        mapped |-> str = "v6_mapped"]

\* mutant: the longer buffer is not tried
ParseShortOnly(str) == evutil_parse_sockaddr_port(str, 16)

transocks_parse_sockaddr_port(str) ==
  LET v6 == evutil_parse_sockaddr_port(str, 28) IN
  IF v6 # NoAddr THEN v6 ELSE evutil_parse_sockaddr_port(str, 16)

\* mutant: a mapped address is let through
ValidateMapped(a) == a.port

validateAddrPort(a) ==
  CASE a.family = "AF_INET" -> a.port
    [] a.family = "AF_INET6" -> a.port /\ ~a.mapped
    [] OTHER -> FALSE

main_parses ==
  /\ At("parse")
  /\ LET l == transocks_parse_sockaddr_port(opts.listener)
         s == transocks_parse_sockaddr_port(opts.socks5)
     IN  /\ Goto(IF NoAddr \in {l, s} THEN "exit" ELSE "validate")
         /\ ss' = IF l = NoAddr THEN ss ELSE [listener |-> l, socks5 |-> s]
  /\ UNCHANGED <<given, opts, heap, fields, added, sock, impl, faults>>

main_validates ==
  /\ At("validate")
  /\ Goto(IF validateAddrPort(ss.listener) /\ validateAddrPort(ss.socks5)
          THEN "env" ELSE "exit")
  /\ UNCHANGED <<given, opts, ss, heap, fields, added, sock, impl, faults>>

-----------------------------------------------------------------------------
(* transocks_global_env_new.  Its fail label reads the fields of the       *)
(* environment, also when that is what could not be allocated.             *)
env_new_calloc ==
  /\ At("env")
  /\ \/ Alloc({"env"}) /\ Goto("env_addrs") /\ UNCHANGED faults
     \/ Goto("crashed") /\ Fault("env") /\ UNCHANGED <<heap, fields>>
  /\ UNCHANGED <<given, opts, ss, added, sock, impl>>

env_new_addrs ==
  /\ At("env_addrs")
  /\ \E S \in SUBSET {"bind_addr", "relay_addr"} :
       /\ Alloc(S)
       /\ IF S = {"bind_addr", "relay_addr"}
          THEN Goto("env_base") /\ UNCHANGED faults
          ELSE Goto("env_fail") /\ Fault("addr")
  /\ UNCHANGED <<given, opts, ss, added, sock, impl>>

env_new_base ==
  /\ At("env_base")
  /\ \/ Alloc({"eventBaseLoop"}) /\ Goto("signal_new") /\ UNCHANGED faults
     \/ Goto("env_fail") /\ Fault("base") /\ UNCHANGED <<heap, fields>>
  /\ UNCHANGED <<given, opts, ss, added, sock, impl>>

env_new_fail ==
  /\ At("env_fail")
  /\ Free({"bind_addr", "relay_addr", "eventBaseLoop", "env"})
  /\ Goto("exit")
  /\ UNCHANGED <<given, opts, ss, added, sock, impl, faults>>

-----------------------------------------------------------------------------
(* signal_init.                                                            *)
signal_init_new ==
  /\ At("signal_new")
  /\ \E S \in SUBSET Signals :
       /\ Alloc(S)
       /\ IF S = Signals THEN Goto("signal_add") /\ UNCHANGED faults
                         ELSE Goto("shutdown") /\ Fault("signal")
  /\ UNCHANGED <<given, opts, ss, added, sock, impl>>

signal_init_add ==
  /\ At("signal_add")
  /\ \E n \in 0 .. 4 :
       /\ added' = {SignalOrder[i] : i \in 1 .. n}
       /\ IF n = 4 THEN Goto("listener") /\ UNCHANGED faults
                   ELSE Goto("shutdown") /\ Fault("signal")
  /\ UNCHANGED <<given, opts, ss, heap, fields, sock, impl>>

-----------------------------------------------------------------------------
(* listener_init.                                                          *)
Closed == [sock EXCEPT !.state = "closed"]

listener_init_socket ==
  /\ At("listener")
  /\ \/ /\ sock' = [NoSocket EXCEPT !.state = "open", !.family = ss.listener.family]
        /\ Goto("listener_options") /\ UNCHANGED faults
     \/ Goto("shutdown") /\ Fault("socket") /\ UNCHANGED sock
  /\ UNCHANGED <<given, opts, ss, heap, fields, added, impl>>

\* socket options, non-blocking mode, and IPV6_V6ONLY off for IPv6
listener_init_options ==
  /\ At("listener_options")
  /\ \/ /\ sock' = [sock EXCEPT !.dual = sock.family = "AF_INET6"]
        /\ Goto("listener_bind") /\ UNCHANGED faults
     \/ sock' = Closed /\ Goto("shutdown") /\ Fault("option")
  /\ UNCHANGED <<given, opts, ss, heap, fields, added, impl>>

\* bind and listen
listener_init_bind ==
  /\ At("listener_bind")
  /\ \/ /\ sock' = [sock EXCEPT !.state = "listening"]
        /\ Goto("listener_alloc") /\ UNCHANGED faults
     \/ sock' = Closed /\ Goto("shutdown") /\ Fault("bind")
  /\ UNCHANGED <<given, opts, ss, heap, fields, added, impl>>

\* mutant: the descriptor is left open
DeinitOpen ==
  /\ added' = added \ {"listener_ev"}
  /\ Free({"listener_ev", "listener"})
  /\ UNCHANGED sock

listener_deinit ==
  IF "listener" \in fields
  THEN /\ added' = added \ {"listener_ev"}
       /\ sock' = Closed
       /\ Free({"listener_ev", "listener"})
  ELSE UNCHANGED <<added, sock, heap, fields>>

\* labels freeListener and closeFd; when the listener held the descriptor it
\* is closed twice, with nothing opened in between
FreeListener ==
  /\ added' = added \ {"listener_ev"}
  /\ Free({"listener_ev", "listener"})
  /\ sock' = Closed
  /\ Goto("shutdown")

listener_init_alloc ==
  /\ At("listener_alloc")
  /\ \/ Alloc({"listener"}) /\ Goto("listener_event") /\ UNCHANGED <<sock, added, faults>>
     \/ FreeListener /\ Fault("listener")
  /\ UNCHANGED <<given, opts, ss, impl>>

listener_init_event ==
  /\ At("listener_event")
  /\ \/ Alloc({"listener_ev"}) /\ Goto("listener_add") /\ UNCHANGED <<sock, added, faults>>
     \/ FreeListener /\ Fault("listener")
  /\ UNCHANGED <<given, opts, ss, impl>>

listener_init_add ==
  /\ At("listener_add")
  /\ \/ /\ added' = added \cup {"listener_ev"}
        /\ Goto("pump_name") /\ UNCHANGED <<sock, heap, fields, faults>>
     \/ FreeListener /\ Fault("listener")
  /\ UNCHANGED <<given, opts, ss, impl>>

-----------------------------------------------------------------------------
main_strdup ==
  /\ At("pump_name")
  /\ \/ Alloc({"pump_method_name"}) /\ Goto("pump_init") /\ UNCHANGED faults
     \/ Goto("shutdown") /\ Fault("strdup") /\ UNCHANGED <<heap, fields>>
  /\ UNCHANGED <<given, opts, ss, added, sock, impl>>

transocks_pump_init ==
  /\ At("pump_init")
  /\ IF opts.pump \in Pumps THEN impl' = opts.pump /\ Goto("loop")
                            ELSE Goto("shutdown") /\ UNCHANGED impl
  /\ UNCHANGED <<given, opts, ss, heap, fields, added, sock, faults>>

\* event_base_dispatch returns: loopbreak after a signal, or poll fails
dispatch_returns ==
  /\ At("loop")
  /\ Goto("shutdown")
  /\ UNCHANGED <<given, opts, ss, heap, fields, added, sock, impl, faults>>

-----------------------------------------------------------------------------
(* transocks_global_env_free, in the order of the code.                    *)
\* mutant: the event base goes first
FreeBaseFirst ==
  /\ At("shutdown")
  /\ Free(Config \cup {"eventBaseLoop"})
  /\ Goto("free_listener")
  /\ UNCHANGED <<given, opts, ss, added, sock, impl, faults>>

env_free_config ==
  /\ At("shutdown")
  /\ Free(Config)
  /\ Goto("free_listener")
  /\ UNCHANGED <<given, opts, ss, added, sock, impl, faults>>

env_free_listener ==
  /\ At("free_listener")
  /\ listener_deinit
  /\ Goto("free_signals")
  /\ UNCHANGED <<given, opts, ss, impl, faults>>

signal_deinit ==
  /\ added' = added \ Signals
  /\ Free(Signals)

env_free_signals ==
  /\ At("free_signals")
  /\ signal_deinit
  /\ Goto("free_base")
  /\ UNCHANGED <<given, opts, ss, sock, impl, faults>>

env_free_base ==
  /\ At("free_base")
  /\ Free({"eventBaseLoop"})
  /\ Goto("free_env")
  /\ UNCHANGED <<given, opts, ss, added, sock, impl, faults>>

env_free_env ==
  /\ At("free_env")
  /\ heap' = heap \ {"env"}
  /\ fields' = {}
  /\ Goto("exit")
  /\ UNCHANGED <<given, opts, ss, added, sock, impl, faults>>

-----------------------------------------------------------------------------
Options == (\E o \in Option : getopt_long(o)) \/ options_end

Step ==
  \/ main_parses \/ main_validates
  \/ env_new_calloc \/ env_new_addrs \/ env_new_base \/ env_new_fail
  \/ signal_init_new \/ signal_init_add
  \/ listener_init_socket \/ listener_init_options \/ listener_init_bind
  \/ listener_init_alloc \/ listener_init_event \/ listener_init_add
  \/ main_strdup \/ transocks_pump_init
  \/ env_free_config \/ env_free_listener \/ env_free_signals
  \/ env_free_base \/ env_free_env

Next == Options \/ Step \/ dispatch_returns

Spec == Init /\ [][Next]_vars

-----------------------------------------------------------------------------
TypeOK ==
  /\ pc \in {"getopt", "parse", "validate", "env", "env_addrs", "env_base",
            "env_fail", "signal_new", "signal_add", "listener",
            "listener_options", "listener_bind", "listener_alloc",
            "listener_event", "listener_add", "pump_name", "pump_init", "loop",
            "shutdown", "free_listener", "free_signals", "free_base",
            "free_env", "exit", "crashed"}
  /\ given \in Seq(Option)
  /\ opts \in [listener : Addresses \cup {NULL}, socks5 : Addresses \cup {NULL},
               pump : Pumps \cup {"other", NULL}]
  /\ heap \subseteq Field /\ fields \subseteq Field /\ added \subseteq Events
  /\ sock.state \in {"none", "open", "listening", "closed"}
  /\ impl \in Pumps \cup {NULL}

\* what the options ask for: the last one of its kind counts
Asked(n) ==
  LET I == {i \in 1 .. Len(given) : given[i].name = n}
  IN  IF I = {} THEN NULL
      ELSE given[CHOOSE i \in I : \A j \in I : j <= i].arg

Acceptable ==
  /\ \A i \in 1 .. Len(given) : given[i].name # "help"
  /\ Asked("listener") \in {"v4", "v6"} /\ Asked("socks5") \in {"v4", "v6"}
  /\ Asked("pump") # "other"

(***************************************************************************)
(* When the event loop starts, everything its callbacks use is in place:   *)
(* all signals and the listener are in the event base, the socket listens, *)
(* in dual-stack mode for an IPv6 address, and the pump that was asked for *)
(* is found.  listener_cb, added before the pump is looked up, never runs  *)
(* with pumpMethodImpl still NULL.                                         *)
(***************************************************************************)
LoopIsReady ==
  pc = "loop" =>
    /\ Acceptable
    /\ heap = Field /\ added = Events
    /\ sock.state = "listening" /\ (sock.dual <=> Asked("listener") = "v6")
    /\ impl = IF Asked("pump") = NULL THEN "bufferpump" ELSE Asked("pump")

(***************************************************************************)
(* No way to the exit leaves anything behind: whichever allocation or call *)
(* failed, and after a run of the loop, everything that was allocated is   *)
(* freed, every event is out of the base and the socket is closed.         *)
(***************************************************************************)
ExitReleasesEverything ==
  pc = "exit" => heap = {} /\ added = {} /\ sock.state \in {"none", "closed"}

(***************************************************************************)
(* At every step of start-up and of the way out, a pointer that is not     *)
(* NULL points to something allocated, so nothing is freed twice; an event *)
(* lives no longer than its event base, and is out of it before it is      *)
(* freed; the listener's descriptor is open as long as the listener.       *)
(***************************************************************************)
NoDangling ==
  /\ fields \subseteq heap /\ added \subseteq heap
  /\ Events \cap heap # {} => "eventBaseLoop" \in heap
  /\ fields # {} => "env" \in heap
  /\ "listener" \in fields => sock.state = "listening"

(***************************************************************************)
(* With options it should accept the proxy reaches its loop, unless a call *)
(* or an allocation failed: neither the order nor the repetition of        *)
(* options, nor trying an address as IPv6 first, makes it refuse.          *)
(***************************************************************************)
StartsUnlessFault ==
  pc \in {"exit", "crashed"} /\ impl = NULL => ~Acceptable \/ faults # {}
=============================================================================
