---------------------------- MODULE StartupProofs ----------------------------
(***************************************************************************)
(* Proofs about Startup.  The inductive invariant says, for each place     *)
(* main may be at, what is allocated, what is in the event base and what   *)
(* the socket is, and what is known of the options.                        *)
(***************************************************************************)
EXTENDS Startup, TLAPS

Env == {"env", "eventBaseLoop"}

Base == Env \cup {"bind_addr", "relay_addr"}

BeforeEnv == {"getopt", "parse", "validate", "env"}
EnvSteps == {"env_addrs", "env_base", "env_fail", "signal_new", "signal_add"}
Opening == {"listener_options", "listener_bind"}
Opened == {"listener_alloc", "listener_event", "listener_add", "pump_name",
           "pump_init", "loop"}
Releasing == {"shutdown", "free_listener", "free_signals", "free_base", "free_env"}

Places == BeforeEnv \cup EnvSteps \cup {"listener"} \cup Opening \cup Opened
            \cup Releasing \cup {"exit", "crashed"}

\* what is allocated, and only that is pointed to
HeapShape ==
  /\ heap = fields
  /\ pc \in BeforeEnv \cup {"exit", "crashed"} => fields = {}
  /\ pc = "env_addrs" => fields = {"env"}
  /\ pc = "env_base" => fields = {"env", "bind_addr", "relay_addr"}
  /\ pc = "env_fail" => "env" \in fields /\ fields \subseteq {"env", "bind_addr", "relay_addr"}
  /\ pc = "signal_new" => fields = Base
  /\ pc \in {"signal_add", "listener", "listener_alloc"} \cup Opening =>
       fields = Base \cup Signals
  /\ pc = "listener_event" => fields = Base \cup Signals \cup {"listener"}
  /\ pc \in {"listener_add", "pump_name"} =>
       fields = Base \cup Signals \cup {"listener", "listener_ev"}
  /\ pc \in {"pump_init", "loop"} => fields = Field
  /\ pc \in {"shutdown", "free_listener", "free_signals", "free_base"} => Env \subseteq fields
  /\ pc = "shutdown" => fields \subseteq Field
  /\ pc = "free_listener" => fields \subseteq Env \cup Signals \cup {"listener", "listener_ev"}
  /\ pc = "free_signals" => fields \subseteq Env \cup Signals
  /\ pc = "free_base" => fields = Env
  /\ pc = "free_env" => fields = {"env"}
  /\ "listener_ev" \in fields => "listener" \in fields

\* what is in the event base
AddedShape ==
  /\ added \subseteq Events /\ added \subseteq fields
  /\ pc \in BeforeEnv \cup EnvSteps \cup {"free_base", "free_env", "exit", "crashed"} =>
       added = {}
  /\ pc \in {"listener", "listener_alloc", "listener_event", "listener_add"} \cup Opening =>
       added = Signals
  /\ pc \in {"pump_name", "pump_init", "loop"} => added = Events

\* the socket
SockShape ==
  /\ pc \in BeforeEnv \cup EnvSteps \cup {"listener"} => sock = NoSocket
  /\ pc \in Opening => sock.state = "open"
  /\ pc \in Opened => sock.state = "listening"
  /\ pc \in Releasing \cup {"exit"} =>
       \/ sock.state \in {"none", "closed"}
       \/ sock.state = "listening" /\ "listener" \in fields
  /\ pc \in Releasing /\ "listener" \in fields => sock.state = "listening"

Addr == [family : {NULL, "AF_INET", "AF_INET6"}, port : BOOLEAN, mapped : BOOLEAN]

Sock == [state : {"none", "open", "listening", "closed"}, dual : BOOLEAN,
         family : {NULL, "AF_INET", "AF_INET6"}]

Resources ==
  /\ pc \in Places
  /\ ss \in [listener : Addr, socks5 : Addr] /\ sock \in Sock
  /\ HeapShape /\ AddedShape /\ SockShape

\* Parsing gives an address, or NoAddr.
LEMMA ParseType ==
  ASSUME NEW str
  PROVE  transocks_parse_sockaddr_port(str) \in Addr
BY DEF transocks_parse_sockaddr_port, evutil_parse_sockaddr_port, Addr, NoAddr, NULL

\* How the named sets lie in each other.
LEMMA SetFacts ==
  /\ Env \subseteq Base /\ Base \cup Signals \subseteq Field
  /\ Base \cup Signals \cup {"listener", "listener_ev"} \subseteq Field
  /\ Signals \subseteq Events /\ Events \subseteq Signals \cup {"listener_ev"}
  /\ "listener" \notin Base \cup Signals /\ "listener_ev" \notin Base \cup Signals
BY DEF Env, Base, Signals, Field, Config, Events

\* Setting the dual-stack mode leaves a socket.
LEMMA DualType ==
  ASSUME NEW s \in Sock
  PROVE  [s EXCEPT !.dual = s.family = "AF_INET6"] \in Sock
<1>1. CASE s.family = "AF_INET6"
  <2>1. [s EXCEPT !.dual = TRUE] \in Sock
    BY DEF Sock
  <2> QED BY <1>1, <2>1
<1>2. CASE s.family # "AF_INET6"
  <2>1. [s EXCEPT !.dual = FALSE] \in Sock
    BY DEF Sock
  <2> QED BY <1>2, <2>1
<1> QED BY <1>1, <1>2

\* socket() yields an open descriptor of the family it was asked for.
LEMMA OpenType ==
  ASSUME NEW f \in {NULL, "AF_INET", "AF_INET6"},
         NEW s, s = [state |-> "open", dual |-> FALSE, family |-> f]
  PROVE  s \in Sock /\ s.state = "open"
BY DEF Sock

\* Nothing is held at first.
LEMMA ResourcesInit == Init => Resources
BY DEF Init, Resources, HeapShape, AddedShape, SockShape, Addr, Sock, NoAddr,
       NoSocket, NULL, Places, BeforeEnv, EnvSteps, Opening, Opened, Releasing,
       Signals, Events

\* Every step keeps the account of what is held.
LEMMA ResourcesNext == Resources /\ [Next]_vars => Resources'
<1> SUFFICES ASSUME Resources, [Next]_vars PROVE Resources'
  OBVIOUS
<1> USE DEF Resources, HeapShape, AddedShape, SockShape, At, Goto, Alloc, Free,
            NoSocket, Places, BeforeEnv, EnvSteps, Opening, Opened, Releasing
<1>1. CASE Options
  BY <1>1 DEF Options, getopt_long, options_end
<1>2. CASE main_parses
  BY <1>2, ParseType DEF main_parses
<1>3. CASE main_validates
  BY <1>3 DEF main_validates
<1>4. CASE env_new_calloc
  BY <1>4 DEF env_new_calloc
<1>5. CASE env_new_addrs
  <2>1. PICK S \in SUBSET {"bind_addr", "relay_addr"} :
          /\ fields' = fields \cup S /\ heap' = heap \cup S
          /\ pc' = IF S = {"bind_addr", "relay_addr"} THEN "env_base" ELSE "env_fail"
    BY <1>5 DEF env_new_addrs
  <2>2. fields' = {"env"} \cup S /\ heap' = fields' /\ added' = {} /\ sock' = NoSocket
    BY <1>5, <2>1 DEF env_new_addrs
  <2>3. "env" \in fields' /\ fields' \subseteq {"env", "bind_addr", "relay_addr"}
    BY <2>2
  <2>4. pc' = "env_base" => fields' = {"env", "bind_addr", "relay_addr"}
    BY <2>1, <2>2
  <2> QED
    BY <1>5, <2>1, <2>2, <2>3, <2>4 DEF env_new_addrs
<1>6. CASE env_new_base
  BY <1>6 DEF env_new_base, Base, Env
<1>7. CASE env_new_fail
  BY <1>7 DEF env_new_fail
<1>8. CASE signal_init_new
  BY <1>8 DEF signal_init_new, Signals, Base, Env, Field, Config, Events
<1>9. CASE signal_init_add
  BY <1>9 DEF signal_init_add, Signals, Events, SignalOrder, Base, Env, Field, Config
<1>10. CASE listener_init_socket
  <2>1. ss.listener.family \in {NULL, "AF_INET", "AF_INET6"}
    BY DEF Addr
  <2>2. \/ pc' = "shutdown" /\ sock' = sock
        \/ pc' = "listener_options"
           /\ sock' = [state |-> "open", dual |-> FALSE, family |-> ss.listener.family]
    BY <1>10 DEF listener_init_socket
  <2>3. sock' \in Sock /\ (pc' = "listener_options" => sock'.state = "open")
    <3>1. CASE pc' = "shutdown" /\ sock' = sock
      BY <3>1
    <3>2. CASE sock' = [state |-> "open", dual |-> FALSE, family |-> ss.listener.family]
      BY <2>1, <3>2, OpenType
    <3> QED BY <2>2, <3>1, <3>2
  <2> QED
    <3>1. fields = Base \cup Signals /\ added = Signals /\ sock = NoSocket
          /\ UNCHANGED <<ss, heap, fields, added>>
      BY <1>10 DEF listener_init_socket
    <3>2. CASE pc' = "shutdown"
      BY <2>2, <2>3, <3>1, <3>2, SetFacts
    <3>3. CASE pc' = "listener_options"
      BY <2>3, <3>1, <3>3, SetFacts
    <3> QED BY <2>2, <3>2, <3>3
<1>11. CASE listener_init_options
  <2>1. sock' \in Sock
    <3>1. CASE sock' = Closed
      BY <3>1 DEF Sock, Closed
    <3>2. CASE sock' = [sock EXCEPT !.dual = sock.family = "AF_INET6"]
      BY <3>2, DualType
    <3> QED BY <1>11, <3>1, <3>2 DEF listener_init_options
  <2>2. sock'.state = IF pc' = "shutdown" THEN "closed" ELSE "open"
    BY <1>11 DEF listener_init_options, Sock, Closed
  <2> QED
    BY <1>11, <2>1, <2>2, SetFacts DEF listener_init_options
<1>12. CASE listener_init_bind
  BY <1>12 DEF listener_init_bind, Sock, Closed, Base, Env, Field, Config, Events, Signals
<1>13. CASE listener_init_alloc
  BY <1>13 DEF listener_init_alloc, FreeListener, Sock, Closed, Base, Env, Field, Config, Events, Signals
<1>14. CASE listener_init_event
  BY <1>14 DEF listener_init_event, FreeListener, Sock, Closed, Base, Env, Field, Config, Events, Signals
<1>15. CASE listener_init_add
  BY <1>15 DEF listener_init_add, FreeListener, Sock, Closed, Base, Env, Field, Config, Events, Signals
<1>16. CASE main_strdup
  BY <1>16 DEF main_strdup, Base, Env, Field, Config, Events, Signals
<1>17. CASE transocks_pump_init
  BY <1>17 DEF transocks_pump_init, Base, Env, Field, Config, Events, Signals
<1>18. CASE dispatch_returns
  BY <1>18 DEF dispatch_returns, Base, Env, Field, Config, Events, Signals
<1>19. CASE env_free_config
  BY <1>19 DEF env_free_config, Base, Env, Field, Config, Events, Signals
<1>20. CASE env_free_listener
  BY <1>20 DEF env_free_listener, listener_deinit, Sock, Closed, Base, Env, Field, Config, Events, Signals
<1>21. CASE env_free_signals
  <2>1. fields' = Env
    BY <1>21 DEF env_free_signals, signal_deinit, Env, Signals
  <2>2. added' = {}
    BY <1>21 DEF env_free_signals, signal_deinit, Env, Signals, Events
  <2> QED
    <3>1. heap' = fields' /\ pc' = "free_base" /\ UNCHANGED <<ss, sock>>
      BY <1>21 DEF env_free_signals, signal_deinit
    <3>2. "listener" \notin fields /\ "listener" \notin fields' /\ "listener_ev" \notin fields'
      BY <1>21, <2>1 DEF env_free_signals, Env, Signals
    <3> QED
      BY <1>21, <2>1, <2>2, <3>1, <3>2 DEF env_free_signals
<1>22. CASE env_free_base
  BY <1>22 DEF env_free_base, Base, Env, Field, Config, Events, Signals
<1>23. CASE env_free_env
  BY <1>23 DEF env_free_env, Base, Env, Field, Config, Events, Signals
<1>24. CASE UNCHANGED vars
  BY <1>24 DEF vars
<1> QED
  BY <1>1, <1>2, <1>3, <1>4, <1>5, <1>6, <1>7, <1>8, <1>9, <1>10, <1>11, <1>12,
     <1>13, <1>14, <1>15, <1>16, <1>17, <1>18, <1>19, <1>20, <1>21, <1>22, <1>23,
     <1>24 DEF Next, Step

\* Nothing dangles: what the fields point to is allocated, no event outlives its
\* base, and the listener's descriptor is open as long as the listener.
THEOREM NothingDangles == Spec => []NoDangling
<1>1. Resources => NoDangling
  <2> SUFFICES ASSUME Resources PROVE NoDangling
    OBVIOUS
  <2>1. heap = fields /\ added \subseteq fields
    BY DEF Resources, HeapShape, AddedShape
  <2>2. fields # {} => "env" \in fields
    BY DEF Resources, HeapShape, Places, BeforeEnv, EnvSteps, Opening, Opened, Releasing,
           Field, Base, Env
  <2>3. Events \cap fields # {} => "eventBaseLoop" \in fields
    <3>1. CASE pc \in BeforeEnv \cup {"env_addrs", "env_base", "env_fail", "free_env",
                                      "exit", "crashed"}
      <4>1. fields \subseteq {"env", "bind_addr", "relay_addr"}
        BY <3>1 DEF Resources, HeapShape
      <4> QED BY <4>1 DEF Events, Signals
    <3>2. CASE pc \in {"signal_new", "signal_add", "listener"} \cup Opening \cup Opened
      <4>1. Base \subseteq fields
        BY <3>2, SetFacts DEF Resources, HeapShape, Opening, Opened
      <4> QED BY <4>1 DEF Base, Env
    <3>3. CASE pc \in {"shutdown", "free_listener", "free_signals", "free_base"}
      BY <3>3 DEF Resources, HeapShape, Env
    <3> QED BY <3>1, <3>2, <3>3 DEF Resources, Places, EnvSteps, Releasing
  <2>4. "listener" \in fields => sock.state = "listening"
    <3>1. CASE pc \in Opened
      BY <3>1 DEF Resources, SockShape
    <3>2. CASE pc \in Releasing
      BY <3>2 DEF Resources, SockShape
    <3>3. CASE pc \in BeforeEnv \cup EnvSteps \cup {"listener"} \cup Opening \cup {"exit", "crashed"}
      <4>1. fields \subseteq Base \cup Signals
        BY <3>3 DEF Resources, HeapShape, BeforeEnv, EnvSteps, Opening, Base, Env
      <4> QED BY <4>1, SetFacts
    <3> QED BY <3>1, <3>2, <3>3 DEF Resources, Places
  <2> QED BY <2>1, <2>2, <2>3, <2>4 DEF NoDangling
<1> QED
  BY <1>1, ResourcesInit, ResourcesNext, PTL DEF Spec

\* Whatever failed on the way, main leaves nothing allocated, no event in the
\* base and no socket open.
THEOREM ExitIsClean == Spec => []ExitReleasesEverything
<1>1. Resources => ExitReleasesEverything
  BY DEF Resources, HeapShape, AddedShape, SockShape, ExitReleasesEverything
<1> QED
  BY <1>1, ResourcesInit, ResourcesNext, PTL DEF Spec

-----------------------------------------------------------------------------
(* What the options ask for, and what main made of them.                   *)

\* v is what the options g ask for under n; unlike Asked this names the
\* option, so that it can be kept from step to step
Got(g, n, v) ==
  \/ v = NULL /\ \A i \in 1 .. Len(g) : g[i].name # n
  \/ \E i \in 1 .. Len(g) :
       /\ g[i].name = n /\ g[i].arg = v
       /\ \A j \in 1 .. Len(g) : g[j].name = n => j <= i

GoodAddr == {"v4", "v6"}

Kinds == {"v4", "v4_no_port", "v6", "v6_no_port", "v6_mapped", "garbage"}

OptsType == [listener : Addresses \cup {NULL}, socks5 : Addresses \cup {NULL},
             pump : Pumps \cup {"other", NULL}]

\* the options as read
Reading ==
  /\ given \in Seq(Option) /\ opts \in OptsType
  /\ pc # "exit" => \A i \in 1 .. Len(given) : given[i].name # "help"
  /\ Got(given, "listener", opts.listener) /\ Got(given, "socks5", opts.socks5)
  /\ \/ Got(given, "pump", opts.pump)
     \/ Got(given, "pump", NULL) /\ opts.pump = "bufferpump"

\* what each place main is at has made sure of
Understood ==
  /\ pc \notin {"getopt", "exit"} => NULL \notin {opts.listener, opts.socks5, opts.pump}
  /\ pc \notin {"getopt", "parse", "exit"} =>
       /\ ss.listener = transocks_parse_sockaddr_port(opts.listener)
       /\ ss.socks5 = transocks_parse_sockaddr_port(opts.socks5)
  /\ pc \notin {"getopt", "parse", "validate", "exit"} =>
       opts.listener \in GoodAddr /\ opts.socks5 \in GoodAddr

\* the socket and the pump are the ones asked for
Chosen ==
  /\ pc \in Opening \cup Opened => sock.family = ss.listener.family
  /\ pc \in {"listener_bind"} \cup Opened => (sock.dual <=> sock.family = "AF_INET6")
  /\ pc = "loop" => impl = opts.pump /\ impl \in Pumps
  /\ pc \notin Releasing \cup {"loop", "exit"} => impl = NULL

\* giving up has a reason
Reasons ==
  pc \in Releasing \cup {"env_fail", "exit", "crashed"} /\ impl = NULL =>
    ~Acceptable \/ faults # {}

Choices == Resources /\ Reading /\ Understood /\ Chosen /\ Reasons

\* What was got is what is asked for.
LEMMA GotIsAsked ==
  ASSUME given \in Seq(Option), NEW n, NEW v, Got(given, n, v)
  PROVE  Asked(n) = v
<1> DEFINE I == {i \in 1 .. Len(given) : given[i].name = n}
<1>1. CASE v = NULL /\ \A i \in 1 .. Len(given) : given[i].name # n
  <2>1. I = {}
    BY <1>1
  <2> QED BY <1>1, <2>1 DEF Asked
<1>2. CASE \E i \in 1 .. Len(given) :
             /\ given[i].name = n /\ given[i].arg = v
             /\ \A j \in 1 .. Len(given) : given[j].name = n => j <= i
  <2>1. PICK m \in I : given[m].arg = v /\ \A j \in I : j <= m
    BY <1>2
  <2>2. \A i \in I : (\A j \in I : j <= i) => i = m
    BY <2>1
  <2>3. (CHOOSE i \in I : \A j \in I : j <= i) = m
    BY <2>1, <2>2
  <2> QED BY <2>1, <2>3 DEF Asked
<1> QED BY <1>1, <1>2 DEF Got

\* One more option counts for its own name and leaves the others.
LEMMA GotAppend ==
  ASSUME NEW g \in Seq(Option), NEW o \in Option, NEW n, NEW v, Got(g, n, v)
  PROVE  /\ o.name = n => Got(Append(g, o), n, o.arg)
         /\ o.name # n => Got(Append(g, o), n, v)
<1> DEFINE h == Append(g, o)
<1>1. /\ Len(h) = Len(g) + 1 /\ Len(g) \in Nat /\ h[Len(g) + 1] = o
      /\ \A i \in 1 .. Len(g) : h[i] = g[i]
  OBVIOUS
<1> HIDE DEF h
<1>2. CASE o.name = n
  BY <1>1, <1>2 DEF Got
<1>3. CASE o.name # n
  <2>1. \A i \in 1 .. Len(h) : h[i].name = n => i \in 1 .. Len(g) /\ g[i].name = n
    BY <1>1, <1>3
  <2>2. CASE v = NULL /\ \A i \in 1 .. Len(g) : g[i].name # n
    <3>1. Got(h, n, v)
      BY <2>1, <2>2 DEF Got
    <3> QED BY <1>3, <3>1 DEF h
  <2>3. CASE \E i \in 1 .. Len(g) :
               /\ g[i].name = n /\ g[i].arg = v
               /\ \A j \in 1 .. Len(g) : g[j].name = n => j <= i
    <3>1. PICK i \in 1 .. Len(g) :
            /\ g[i].name = n /\ g[i].arg = v
            /\ \A j \in 1 .. Len(g) : g[j].name = n => j <= i
      BY <2>3
    <3>2. i \in 1 .. Len(h) /\ h[i].name = n /\ h[i].arg = v
      BY <1>1, <3>1
    <3>3. \A j \in 1 .. Len(h) : h[j].name = n => j <= i
      BY <2>1, <3>1
    <3>4. Got(h, n, v)
      BY <3>2, <3>3 DEF Got
    <3> QED BY <1>3, <3>4 DEF h
  <2> QED BY <1>3, <2>2, <2>3 DEF Got, h
<1> QED BY <1>2, <1>3 DEF h

\* Every address that is one is parsed to its family, port and mapping.
LEMMA Parsed ==
  ASSUME NEW str \in Kinds \ {"garbage"}
  PROVE  LET a == transocks_parse_sockaddr_port(str)
         IN  /\ a.family = IF SockaddrLen(str) = 16 THEN "AF_INET" ELSE "AF_INET6"
             /\ a.port = (str \notin {"v4_no_port", "v6_no_port"})
             /\ a.mapped = (str = "v6_mapped")
<1> DEFINE a == transocks_parse_sockaddr_port(str)
<1>1. a = [family |-> IF SockaddrLen(str) = 16 THEN "AF_INET" ELSE "AF_INET6",
           port |-> str \notin {"v4_no_port", "v6_no_port"},
           mapped |-> str = "v6_mapped"]
  BY DEF Kinds, transocks_parse_sockaddr_port, evutil_parse_sockaddr_port, SockaddrLen,
         NoAddr, NULL
<1> HIDE DEF a
<1>2. a.family = IF SockaddrLen(str) = 16 THEN "AF_INET" ELSE "AF_INET6"
  BY <1>1
<1>3. a.port = (str \notin {"v4_no_port", "v6_no_port"})
  BY <1>1, Zenon
<1>4. a.mapped = (str = "v6_mapped")
  BY <1>1, Zenon
<1> QED BY <1>2, <1>3, <1>4 DEF a

\* What the parser and the validation make of each kind of address.
LEMMA AddressFacts ==
  ASSUME NEW str \in Kinds
  PROVE  LET a == transocks_parse_sockaddr_port(str)
         IN  /\ a = NoAddr => str \notin GoodAddr
             /\ validateAddrPort(a) <=> str \in GoodAddr
             /\ str \in GoodAddr => (a.family = "AF_INET6" <=> str = "v6")
<1> DEFINE a == transocks_parse_sockaddr_port(str)
<1>1. CASE str = "garbage"
  <2>1. a = NoAddr
    BY <1>1 DEF transocks_parse_sockaddr_port, evutil_parse_sockaddr_port
  <2> QED BY <1>1, <2>1 DEF GoodAddr, validateAddrPort, NoAddr, NULL
<1>2. CASE str # "garbage"
  <2>1. /\ a.family = IF SockaddrLen(str) = 16 THEN "AF_INET" ELSE "AF_INET6"
        /\ a.port = (str \notin {"v4_no_port", "v6_no_port"})
        /\ a.mapped = (str = "v6_mapped")
    BY <1>2, Parsed
  <2> HIDE DEF a
  <2>2. a # NoAddr
    BY <2>1 DEF NoAddr, NULL
  <2>3. validateAddrPort(a) <=> str \in GoodAddr
    <3>1. CASE SockaddrLen(str) = 16
      <4>1. validateAddrPort(a) = a.port
        BY <2>1, <3>1 DEF validateAddrPort
      <4>2. a.port <=> str \notin {"v4_no_port", "v6_no_port"}
        BY <2>1
      <4>3. str \notin {"v4_no_port", "v6_no_port"} <=> str \in GoodAddr
        BY <3>1 DEF SockaddrLen, GoodAddr
      <4> QED BY <4>1, <4>2, <4>3
    <3>2. CASE SockaddrLen(str) # 16
      <4>1. validateAddrPort(a) = (a.port /\ ~a.mapped)
        BY <2>1, <3>2 DEF validateAddrPort
      <4>2. a.port /\ ~a.mapped <=> str \notin {"v4_no_port", "v6_no_port", "v6_mapped"}
        BY <2>1
      <4>3. str \notin {"v4_no_port", "v6_no_port", "v6_mapped"} <=> str \in GoodAddr
        BY <1>2, <3>2 DEF SockaddrLen, GoodAddr, Kinds
      <4> QED BY <4>1, <4>2, <4>3
    <3> QED BY <3>1, <3>2
  <2> QED BY <1>2, <2>1, <2>2, <2>3 DEF a, GoodAddr, SockaddrLen
<1> QED BY <1>1, <1>2

\* What an option may be.
LEMMA OptionFacts ==
  ASSUME NEW o \in Option
  PROVE  /\ o.name \in {"listener", "socks5", "pump", "help"}
         /\ o.name \in {"listener", "socks5"} => o.arg \in Addresses
         /\ o.name = "pump" => o.arg \in Pumps \cup {"other", NULL}
BY DEF Option

\* Nothing is asked for at first.
LEMMA ChoicesInit == Init => Choices
BY ResourcesInit
   DEF Init, Choices, Reading, Understood, Chosen, Reasons, Got, OptsType, NULL,
       Opening, Opened, Releasing

\* Reading options keeps them as asked.
LEMMA ReadingNext == Choices /\ Options => Reading'
<1> SUFFICES ASSUME Choices, Options PROVE Reading'
  OBVIOUS
<1>0. Reading /\ pc = "getopt"
  BY DEF Choices, Options, getopt_long, options_end, At
<1>1. ASSUME NEW o \in Option, getopt_long(o) PROVE Reading'
  <2>1. given' = Append(given, o) /\ given' \in Seq(Option)
    BY <1>0, <1>1 DEF getopt_long, Reading
  <2>2. /\ Len(given') = Len(given) + 1 /\ Len(given) \in Nat /\ given'[Len(given) + 1] = o
        /\ \A i \in 1 .. Len(given) : given'[i] = given[i]
    BY <1>0, <2>1 DEF Reading
  <2>3. pc' # "exit" => \A i \in 1 .. Len(given') : given'[i].name # "help"
    BY <1>0, <1>1, <2>2 DEF getopt_long, Reading, Goto
  <2>4. \A n \in {"listener", "socks5", "pump"} : \A v :
          Got(given, n, v) => /\ o.name = n => Got(given', n, o.arg)
                              /\ o.name # n => Got(given', n, v)
    BY <1>0, <2>1, GotAppend DEF Reading
  <2>5. CASE o.name = "help"
    BY <1>0, <1>1, <2>1, <2>3, <2>4, <2>5 DEF Reading, getopt_long
  <2>6. CASE o.name \in {"listener", "socks5", "pump"}
    <3>1. opts' = [opts EXCEPT ![o.name] = o.arg] /\ opts' \in OptsType
      BY <1>0, <1>1, <2>6, OptionFacts DEF Reading, getopt_long, OptsType
    <3>2. \A n \in {"listener", "socks5", "pump"} :
            opts'[n] = IF o.name = n THEN o.arg ELSE opts[n]
      BY <1>0, <3>1 DEF Reading, OptsType
    <3>3. Got(given', "listener", opts'.listener) /\ Got(given', "socks5", opts'.socks5)
      BY <1>0, <2>4, <3>2 DEF Reading
    <3>4. \/ Got(given', "pump", opts'.pump)
          \/ Got(given', "pump", NULL) /\ opts'.pump = "bufferpump"
      BY <1>0, <2>4, <3>2 DEF Reading
    <3> QED BY <2>1, <2>3, <3>1, <3>3, <3>4 DEF Reading
  <2> QED BY <2>5, <2>6, OptionFacts
<1>2. ASSUME options_end PROVE Reading'
  <2>1. given' = given /\ pc # "exit"
    BY <1>0, <1>2 DEF options_end
  <2>2. \/ opts' = opts
        \/ opts' = [opts EXCEPT !.pump = IF @ = NULL THEN "bufferpump" ELSE @]
    BY <1>2 DEF options_end
  <2>3. /\ opts' \in OptsType /\ opts'.listener = opts.listener /\ opts'.socks5 = opts.socks5
        /\ (opts'.pump = opts.pump \/ (opts.pump = NULL /\ opts'.pump = "bufferpump"))
    BY <1>0, <2>2 DEF Reading, OptsType, Pumps
  <2> QED BY <1>0, <2>1, <2>3 DEF Reading
<1> QED BY <1>1, <1>2 DEF Options

\* What the options ask for depends on them alone.
LEMMA AcceptableStays == UNCHANGED given => Acceptable' = Acceptable
<1> SUFFICES ASSUME UNCHANGED given PROVE Acceptable' = Acceptable
  OBVIOUS
<1>1. \A n : Asked(n)' = Asked(n)
  BY DEF Asked
<1> QED BY <1>1 DEF Acceptable

\* The steps after the options leave them alone.
LEMMA OptionsStay ==
  Choices /\ (Step \/ dispatch_returns \/ UNCHANGED vars) =>
    UNCHANGED <<given, opts>> /\ Acceptable' = Acceptable /\ Reading'
<1> SUFFICES ASSUME Choices, Step \/ dispatch_returns \/ UNCHANGED vars
             PROVE  UNCHANGED <<given, opts>> /\ Acceptable' = Acceptable /\ Reading'
  OBVIOUS
<1>1. UNCHANGED <<given, opts>> /\ (pc = "exit" => pc' = "exit")
  BY DEF Step, dispatch_returns, vars, At, main_parses, main_validates, env_new_calloc,
         env_new_addrs, env_new_base, env_new_fail, signal_init_new, signal_init_add,
         listener_init_socket, listener_init_options, listener_init_bind,
         listener_init_alloc, listener_init_event, listener_init_add, main_strdup,
         transocks_pump_init, env_free_config, env_free_listener, env_free_signals,
         env_free_base, env_free_env
<1>2. Reading'
  BY <1>1 DEF Choices, Reading
<1> QED BY <1>1, <1>2, AcceptableStays

\* What the options say, in terms of opts.
LEMMA AskedOpts ==
  ASSUME Reading
  PROVE  /\ Asked("listener") = opts.listener /\ Asked("socks5") = opts.socks5
         /\ \/ Asked("pump") = opts.pump
            \/ Asked("pump") = NULL /\ opts.pump = "bufferpump"
<1>1. \A n \in {"listener", "socks5", "pump"} : \A v : Got(given, n, v) => Asked(n) = v
  BY GotIsAsked DEF Reading
<1> QED BY <1>1 DEF Reading

\* Every step keeps what is known of the options, the socket and the pump.
LEMMA ChoicesNext == Choices /\ [Next]_vars => Choices'
<1> SUFFICES ASSUME Choices, [Next]_vars PROVE Choices'
  OBVIOUS
<1>0. Resources' /\ Resources /\ Reading /\ Understood /\ Chosen /\ Reasons
  BY ResourcesNext DEF Choices
<1>1. CASE Options
  <2>1. pc = "getopt" /\ impl = NULL /\ UNCHANGED <<ss, sock, impl, faults>>
        /\ pc' \in {"getopt", "parse", "exit"}
    BY <1>0, <1>1 DEF Options, getopt_long, options_end, At, Goto, Chosen, Releasing
  <2>2. Understood'
    BY <1>0, <1>1, <2>1 DEF Options, getopt_long, options_end, Understood, Reading,
                            OptsType, Pumps, NULL, Goto
  <2>3. Chosen'
    BY <2>1 DEF Chosen, Opening, Opened
  <2>4. Reasons'
    <3> SUFFICES ASSUME pc' = "exit" PROVE ~Acceptable'
      BY <2>1 DEF Reasons, Releasing
    <3>1. ASSUME NEW o \in Option, getopt_long(o) PROVE ~Acceptable'
      <4>1. o.name = "help" /\ given' = Append(given, o)
        BY <2>1, <3>1 DEF getopt_long
      <4>2. Len(given) + 1 \in 1 .. Len(given') /\ given'[Len(given) + 1] = o
        BY <1>0, <4>1 DEF Reading
      <4> QED BY <4>1, <4>2 DEF Acceptable
    <3>2. ASSUME options_end PROVE ~Acceptable'
      <4>1. NULL \in {opts.listener, opts.socks5} /\ given' = given
        BY <3>2 DEF options_end, Goto
      <4>2. NULL \in {Asked("listener"), Asked("socks5")}
        BY <1>0, <4>1, AskedOpts
      <4>3. ~Acceptable
        BY <4>2 DEF Acceptable, NULL
      <4> QED BY <4>1, <4>3, AcceptableStays
    <3> QED BY <1>1, <3>1, <3>2 DEF Options
  <2> QED BY <1>0, <1>1, <2>2, <2>3, <2>4, ReadingNext DEF Choices
<1>2. ASSUME Step \/ dispatch_returns \/ UNCHANGED vars PROVE Choices'
  <2>0. UNCHANGED <<given, opts>> /\ Acceptable' = Acceptable /\ Reading'
    BY <1>2, OptionsStay
  <2> SUFFICES Understood' /\ Chosen' /\ Reasons'
    BY <1>0, <2>0 DEF Choices
  <2> USE <1>0, <2>0 DEF At, Goto, Opening, Opened, Releasing
  <2>1. CASE main_parses
    <3> DEFINE l == transocks_parse_sockaddr_port(opts.listener)
               s == transocks_parse_sockaddr_port(opts.socks5)
    <3>1. opts.listener \in Kinds /\ opts.socks5 \in Kinds
      BY <2>1, AddressesAssumption DEF main_parses, Understood, Reading, OptsType, Kinds
    <3>2. NoAddr \in {l, s} => ~Acceptable
      BY <3>1, AddressFacts, AskedOpts DEF Acceptable, GoodAddr
    <3>3. pc' = (IF NoAddr \in {l, s} THEN "exit" ELSE "validate")
          /\ (pc' = "validate" => ss' = [listener |-> l, socks5 |-> s])
          /\ UNCHANGED <<impl, faults, sock>> /\ pc = "parse"
      BY <2>1 DEF main_parses
    <3> HIDE DEF l, s
    <3>4. Chosen' /\ Reasons'
      BY <3>2, <3>3 DEF Chosen, Reasons
    <3>5. CASE pc' = "validate"
      <4>1. ss'.listener = l /\ ss'.socks5 = s
        BY <3>3, <3>5
      <4> QED BY <3>3, <3>4, <3>5, <4>1 DEF Understood, l, s
    <3>6. CASE pc' = "exit"
      BY <3>4, <3>6 DEF Understood
    <3> QED BY <3>3, <3>5, <3>6
  <2>2. CASE main_validates
    <3>1. opts.listener \in Kinds /\ opts.socks5 \in Kinds
      BY <2>2, AddressesAssumption DEF main_validates, Understood, Reading, OptsType, Kinds
    <3>2. /\ validateAddrPort(ss.listener) <=> opts.listener \in GoodAddr
          /\ validateAddrPort(ss.socks5) <=> opts.socks5 \in GoodAddr
      BY <2>2, <3>1, AddressFacts DEF main_validates, Understood
    <3>3. Acceptable => opts.listener \in GoodAddr /\ opts.socks5 \in GoodAddr
      BY AskedOpts DEF Acceptable, GoodAddr
    <3>4. UNCHANGED <<ss, impl, faults, sock>> /\ pc = "validate"
          /\ pc' = IF validateAddrPort(ss.listener) /\ validateAddrPort(ss.socks5)
                   THEN "env" ELSE "exit"
      BY <2>2 DEF main_validates
    <3> QED BY <3>2, <3>3, <3>4 DEF Understood, Chosen, Reasons
  <2>3. CASE env_new_calloc
    BY <2>3 DEF env_new_calloc, Fault, Understood, Chosen, Reasons
  <2>4. CASE env_new_addrs
    BY <2>4 DEF env_new_addrs, Fault, Understood, Chosen, Reasons
  <2>5. CASE env_new_base
    BY <2>5 DEF env_new_base, Fault, Understood, Chosen, Reasons
  <2>6. CASE env_new_fail
    BY <2>6 DEF env_new_fail, Understood, Chosen, Reasons
  <2>7. CASE signal_init_new
    BY <2>7 DEF signal_init_new, Fault, Understood, Chosen, Reasons
  <2>8. CASE signal_init_add
    BY <2>8 DEF signal_init_add, Fault, Understood, Chosen, Reasons
  <2>9. CASE listener_init_socket
    BY <2>9 DEF listener_init_socket, NoSocket, Fault, Understood, Chosen, Reasons
  <2>10. CASE listener_init_options
    BY <2>10 DEF listener_init_options, Fault, Understood, Chosen, Reasons, Resources, Sock
  <2>11. CASE listener_init_bind
    BY <2>11 DEF listener_init_bind, Fault, Understood, Chosen, Reasons, Resources, Sock
  <2>12. CASE listener_init_alloc
    BY <2>12 DEF listener_init_alloc, FreeListener, Fault, Understood, Chosen, Reasons
  <2>13. CASE listener_init_event
    BY <2>13 DEF listener_init_event, FreeListener, Fault, Understood, Chosen, Reasons
  <2>14. CASE listener_init_add
    BY <2>14 DEF listener_init_add, FreeListener, Fault, Understood, Chosen, Reasons
  <2>15. CASE main_strdup
    BY <2>15 DEF main_strdup, Fault, Understood, Chosen, Reasons
  <2>16. CASE transocks_pump_init
    <3>1. opts.pump \notin Pumps => ~Acceptable
      BY <2>16, AskedOpts DEF Acceptable, Pumps, transocks_pump_init, Understood, Reading,
                              OptsType
    <3> QED BY <2>16, <3>1 DEF transocks_pump_init, Understood, Chosen, Reasons
  <2>17. CASE dispatch_returns
    BY <2>17 DEF dispatch_returns, Understood, Chosen, Reasons, Pumps, NULL
  <2>18. CASE env_free_config \/ env_free_listener \/ env_free_signals
              \/ env_free_base \/ env_free_env
    BY <2>18 DEF env_free_config, env_free_listener, env_free_signals, env_free_base,
                 env_free_env, Understood, Chosen, Reasons
  <2>19. CASE UNCHANGED vars
    BY <2>19 DEF vars, Understood, Chosen, Reasons
  <2> QED
    BY <1>2, <2>1, <2>2, <2>3, <2>4, <2>5, <2>6, <2>7, <2>8, <2>9, <2>10, <2>11,
       <2>12, <2>13, <2>14, <2>15, <2>16, <2>17, <2>18, <2>19 DEF Step
<1> QED BY <1>1, <1>2 DEF Next

\* The loop of event_base_dispatch starts with every event added, the socket
\* listening in the right mode and the pump that was asked for.
THEOREM LoopStartsReady == Spec => []LoopIsReady
<1>1. Choices => LoopIsReady
  <2> SUFFICES ASSUME Choices, pc = "loop" PROVE LoopIsReady
    BY DEF LoopIsReady
  <2>1. Resources /\ Reading /\ Understood /\ Chosen
    BY DEF Choices
  <2>2. heap = Field /\ added = Events /\ sock.state = "listening"
    BY <2>1 DEF Resources, HeapShape, AddedShape, SockShape, Opened
  <2>3. /\ opts.listener \in GoodAddr /\ opts.socks5 \in GoodAddr
        /\ impl = opts.pump /\ opts.pump \in Pumps
        /\ sock.dual <=> ss.listener.family = "AF_INET6"
        /\ ss.listener = transocks_parse_sockaddr_port(opts.listener)
    BY <2>1 DEF Understood, Chosen, Opened
  <2>4. ss.listener.family = "AF_INET6" <=> opts.listener = "v6"
    BY <2>3, AddressFacts DEF GoodAddr, Kinds
  <2>5. Acceptable
    BY <2>1, <2>3, AskedOpts DEF Acceptable, Reading, GoodAddr, Pumps, NULL
  <2>6. sock.dual <=> Asked("listener") = "v6"
    BY <2>1, <2>3, <2>4, AskedOpts
  <2>7. impl = IF Asked("pump") = NULL THEN "bufferpump" ELSE Asked("pump")
    BY <2>1, <2>3, AskedOpts DEF Pumps, NULL
  <2> QED BY <2>2, <2>5, <2>6, <2>7 DEF LoopIsReady
<1> QED BY <1>1, ChoicesInit, ChoicesNext, PTL DEF Spec

\* main gives up only over options it should refuse or after a failure.
THEOREM StartsOrFails == Spec => []StartsUnlessFault
<1>1. Choices => StartsUnlessFault
  BY DEF Choices, Reasons, StartsUnlessFault
<1> QED BY <1>1, ChoicesInit, ChoicesNext, PTL DEF Spec

\* Every variable keeps its type: in particular the pump that is called
\* through pumpMethodImpl is always one of transocks_pumps, or none yet.
THEOREM StartupTypes == Spec => []TypeOK
<1> DEFINE ImplType == impl \in Pumps \cup {NULL}
<1>1. Init => ImplType
  BY DEF Init
<1>2. ImplType /\ [Next]_vars => ImplType'
  <2> SUFFICES ASSUME ImplType, [Next]_vars PROVE impl' = impl \/ impl' \in Pumps
    OBVIOUS
  <2>1. CASE transocks_pump_init
    BY <2>1 DEF transocks_pump_init
  <2>2. CASE Options \/ dispatch_returns \/ UNCHANGED vars
    BY <2>2 DEF Options, getopt_long, options_end, Goto, dispatch_returns, vars
  <2>3. CASE main_parses \/ main_validates \/ env_new_calloc \/ env_new_addrs
             \/ env_new_base \/ env_new_fail \/ signal_init_new \/ signal_init_add
    BY <2>3 DEF main_parses, main_validates, env_new_calloc, env_new_addrs, env_new_base,
                env_new_fail, signal_init_new, signal_init_add
  <2>4. CASE listener_init_socket \/ listener_init_options \/ listener_init_bind
             \/ listener_init_alloc \/ listener_init_event \/ listener_init_add \/ main_strdup
    BY <2>4 DEF listener_init_socket, listener_init_options, listener_init_bind,
                listener_init_alloc, listener_init_event, listener_init_add, main_strdup
  <2>5. CASE env_free_config \/ env_free_listener \/ env_free_signals \/ env_free_base
             \/ env_free_env
    BY <2>5 DEF env_free_config, env_free_listener, env_free_signals, env_free_base,
                env_free_env
  <2> QED BY <2>1, <2>2, <2>3, <2>4, <2>5 DEF Next, Step
<1>3. Choices /\ ImplType => TypeOK
  <2> SUFFICES ASSUME Choices, ImplType PROVE TypeOK
    OBVIOUS
  <2>1. Resources /\ Reading
    BY DEF Choices
  <2>2. fields \subseteq Field /\ heap = fields
    <3>1. /\ Base \subseteq Field /\ Env \subseteq Field /\ Signals \subseteq Field
          /\ {"env", "bind_addr", "relay_addr", "listener", "listener_ev"} \subseteq Field
      BY DEF Base, Env, Field, Events, Signals, Config
    <3>2. pc \in Places /\ HeapShape
      BY <2>1 DEF Resources
    <3>3. fields \subseteq Field
      BY <3>1, <3>2 DEF HeapShape, Places, BeforeEnv, EnvSteps, Opening, Opened, Releasing
    <3> QED BY <3>2, <3>3 DEF HeapShape
  <2>3. pc \in Places /\ added \subseteq Events
        /\ sock.state \in {"none", "open", "listening", "closed"}
    BY <2>1 DEF Resources, AddedShape, Sock
  <2>4. given \in Seq(Option) /\ opts \in OptsType
    BY <2>1 DEF Reading
  <2> QED
    BY <2>2, <2>3, <2>4 DEF TypeOK, Places, BeforeEnv, EnvSteps, Opening, Opened, Releasing,
                            OptsType
<1> QED BY <1>1, <1>2, <1>3, ChoicesInit, ChoicesNext, PTL DEF Spec
=============================================================================
