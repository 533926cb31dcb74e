---------------------------- MODULE ProxyProofs ----------------------------
(***************************************************************************)
(* Proofs about Proxy, for any number of connections and descriptors and   *)
(* rounds of any length: the list, the descriptor table, the clients'      *)
(* fields and the active events stay consistent, and what the signals and  *)
(* the exit leave.                                                         *)
(***************************************************************************)
EXTENDS Proxy, TLAPS

(***************************************************************************)
(* What the fields of a client hold: nothing unless it is alive, both      *)
(* sockets while it is, and pipes only while a splice pump runs.           *)
(***************************************************************************)
FieldsFit ==
  \A c \in Clients :
    /\ \A k \in SocketFields : Alive(c) <=> fd[c][k] # 0
    /\ ~Detached(c) => \A k \in PipeFields : fd[c][k] = 0

(***************************************************************************)
(* An active event is one its client can still handle: the free of a       *)
(* client deletes its events, and a pump that has been started is not      *)
(* started again.                                                          *)
(***************************************************************************)
EventsFit ==
  \A e \in active, c \in Clients : e.of = c =>
    /\ Alive(c)
    /\ e.what = "start_pump" => state[c] = "handshake"

IInv ==
  /\ TypeOK
  /\ FieldsFit
  /\ EventsFit
  /\ ListIsLive
  /\ OnlyCreatepipeLeaks
  /\ ExitReleasesAll

-----------------------------------------------------------------------------
(***************************************************************************)
(* Events, slots of the descriptor table and the states of a client.       *)
(***************************************************************************)
LEMMA EventFacts ==
  ASSUME NEW w, NEW c
  PROVE  Event(w, c).what = w /\ Event(w, c).of = c
BY DEF Event

LEMMA ActiveFacts ==
  ASSUME NEW e \in ClientEvents \cup LoopEvents
  PROVE  /\ e = Event(e.what, e.of)
         /\ e.of \in Clients \cup {"env"}
         /\ e.of = "env" => e.what \in {"accept", "drop", "terminate"}
BY ClientsAssumption DEF ClientEvents, LoopEvents, Event

\* the client whose event runs is alive
LEMMA HandlesAlive ==
  ASSUME TypeOK, EventsFit, NEW w, NEW c \in Clients, Handle(Event(w, c))
  PROVE  Alive(c) /\ (w = "start_pump" => state[c] = "handshake")
BY EventFacts DEF Handle, EventsFit

Slots == {FreeSlot, Listener} \cup Lost \cup (Clients \X Fields)

LEMMA SlotsDiffer ==
  /\ FreeSlot # Listener /\ FreeSlot \in Slots /\ Listener \in Slots
  /\ FreeSlot \notin Lost /\ Listener \notin Lost
  /\ \A c \in Clients, k \in Fields :
       /\ <<c, k>> # FreeSlot /\ <<c, k>> # Listener /\ <<c, k>> \notin Lost
       /\ <<c, k>> \in Slots
BY DEF FreeSlot, Listener, Lost, Slots, Fields, SocketFields, PipeFields

States == {"unused", "handshake", "pumping", "freed"}

LEMMA FieldOrders ==
  /\ Range(<<"client_fd", "relay_fd">>) = SocketFields
  /\ DOMAIN <<"client_fd", "relay_fd">> \subseteq Nat
  /\ Range(BothPipes) = PipeFields
  /\ Range(InboundPipe) \subseteq PipeFields
  /\ Range(<<>>) = {}
  /\ Range(<<"pipe_readfd", "pipe_writefd">>) = {"pipe_readfd", "pipe_writefd"}
<1>1. /\ DOMAIN <<"client_fd", "relay_fd">> = {1, 2}
      /\ DOMAIN InboundPipe = {1, 2} /\ DOMAIN BothPipes = {1, 2, 3, 4}
      /\ DOMAIN <<"pipe_readfd", "pipe_writefd">> = {1, 2}
      /\ DOMAIN <<>> = {}
  BY DEF InboundPipe, BothPipes
<1>2. Range(<<"client_fd", "relay_fd">>) = SocketFields
  BY <1>1 DEF Range, SocketFields
<1>3. Range(BothPipes) = PipeFields
  BY <1>1 DEF Range, PipeFields, BothPipes
<1>4. Range(InboundPipe) \subseteq PipeFields
  BY <1>1 DEF Range, PipeFields, InboundPipe
<1>5. Range(<<"pipe_readfd", "pipe_writefd">>) = {"pipe_readfd", "pipe_writefd"}
  BY <1>1 DEF Range
<1>6. Range(<<>>) = {}
  BY <1>1 DEF Range
<1> QED  BY <1>1, <1>2, <1>3, <1>4, <1>5, <1>6

LEMMA FieldsAre ==
  /\ SocketFields \subseteq Fields /\ PipeFields \subseteq Fields
  /\ \A k \in SocketFields : k \notin PipeFields
BY DEF Fields, SocketFields, PipeFields

Numbers == [Clients -> [Fields -> 0 .. MaxFd]]

-----------------------------------------------------------------------------
(***************************************************************************)
(* Closing: a table in which the numbers of nums are no longer what they   *)
(* were, and nothing is new but what a createpipe of the splice pump lost. *)
(***************************************************************************)
Closes(tab, nums) ==
  /\ tab \in [Fds -> Slots]
  /\ \A n \in Fds : tab[n] # FreeSlot =>
       \/ tab[n] = fdtab[n] /\ n \notin nums
       \/ tab[n] \in Lost /\ pump_method = "splicepump"

LEMMA ClosedCloses ==
  ASSUME TypeOK, NEW nums
  PROVE  Closes(Closed(fdtab, nums), nums)
BY SlotsDiffer DEF Closes, Closed, TypeOK, Slots

LEMMA HeldFields ==
  ASSUME NEW fields
  PROVE  Held(fields) = {fields[k] : k \in Fields} \ {0}
BY DEF Held, transocks_splicepump_free, Fields

\* a close leaks nothing as long as no life and no field changes
LEMMA CloseKeeps ==
  ASSUME OnlyCreatepipeLeaks, NEW nums, Closes(fdtab', nums), UNCHANGED <<state, fd, pump_method>>
  PROVE  OnlyCreatepipeLeaks'
BY DEF Closes, OnlyCreatepipeLeaks, Alive

\* nor does a free that closes what the freed clients hold
LEMMA FreeKeeps ==
  ASSUME TypeOK, FieldsFit, OnlyCreatepipeLeaks, NEW gone \in SUBSET Clients, FreeContext(gone),
         NEW nums, Closes(fdtab', nums), \A c \in gone : Held(fd[c]) \subseteq nums
  PROVE  /\ state' \in [Clients -> States] /\ fd' \in Numbers
         /\ \A c \in Clients : Alive(c)' <=> Alive(c) /\ c \notin gone
         /\ FieldsFit'
         /\ OnlyCreatepipeLeaks'
<1>1. /\ state' = [c \in Clients |-> IF c \in gone THEN "freed" ELSE state[c]]
      /\ fd' = [c \in Clients |-> IF c \in gone THEN [k \in Fields |-> 0] ELSE fd[c]]
      /\ pump_method' = pump_method
  BY DEF FreeContext
<1>2. state' \in [Clients -> States]
  BY <1>1 DEF TypeOK, States
<1>3. fd' \in Numbers
  <2>1. [k \in Fields |-> 0] \in [Fields -> 0 .. MaxFd]
    BY MaxFdAssumption
  <2> QED  BY <1>1, <2>1 DEF TypeOK, Numbers
<1>4. \A c \in Clients : Alive(c)' <=> Alive(c) /\ c \notin gone
  BY <1>1 DEF Alive
<1>5. FieldsFit'
  <2> SUFFICES ASSUME NEW c \in Clients
               PROVE  /\ \A k \in SocketFields : Alive(c)' <=> fd'[c][k] # 0
                      /\ ~Detached(c)' => \A k \in PipeFields : fd'[c][k] = 0
    BY DEF FieldsFit
  <2>1. CASE c \in gone
    BY <1>1, <1>4, <2>1 DEF Fields
  <2>2. CASE c \notin gone
    <3>1. fd'[c] = fd[c] /\ (Alive(c)' <=> Alive(c)) /\ (Detached(c)' <=> Detached(c))
      BY <1>1, <1>4, <2>2 DEF Detached
    <3> QED  BY <3>1 DEF FieldsFit
  <2> QED  BY <2>1, <2>2
<1>6. OnlyCreatepipeLeaks'
  <2> SUFFICES ASSUME NEW n \in Fds, fdtab'[n] \notin {FreeSlot, Listener},
                      ~(fdtab'[n] \in Lost /\ pump_method' = "splicepump")
               PROVE  \E c \in Clients, k \in Fields :
                        fdtab'[n] = <<c, k>> /\ Alive(c)' /\ fd'[c][k] = n
    BY DEF OnlyCreatepipeLeaks
  <2>1. fdtab'[n] = fdtab[n] /\ n \notin nums
    BY <1>1 DEF Closes
  <2>2. PICK c \in Clients, k \in Fields : fdtab[n] = <<c, k>> /\ Alive(c) /\ fd[c][k] = n
    BY <1>1, <2>1 DEF OnlyCreatepipeLeaks
  <2>3. c \notin gone
    BY <2>1, <2>2, HeldFields DEF Fds
  <2> QED  BY <1>1, <1>4, <2>1, <2>2, <2>3
<1> QED  BY <1>2, <1>3, <1>4, <1>5, <1>6

-----------------------------------------------------------------------------
(***************************************************************************)
(* Opening: the lowest free numbers are free and different, and the fields *)
(* that take them, unused before, are what the table names.                *)
(***************************************************************************)
LEMMA LowestFree ==
  ASSUME NEW tab, NEW ks, NEW p \in Lowest(tab, ks)
  PROVE  /\ p \in [Range(ks) -> Free(tab)] /\ DOMAIN p = Range(ks)
         /\ \A n \in Range(p) : n \in Fds /\ tab[n] = FreeSlot
<1>1. p \in [Range(ks) -> Free(tab)]
  BY DEF Lowest
<1>2. \A n \in Range(p) : \E k \in Range(ks) : p[k] = n
  BY <1>1 DEF Range
<1> QED  BY <1>1, <1>2 DEF Free

LEMMA LowestDiffer ==
  ASSUME NEW tab, NEW ks, DOMAIN ks \subseteq Nat, NEW p \in Lowest(tab, ks),
         NEW k \in Range(ks), NEW l \in Range(ks), k # l
  PROVE  p[k] # p[l]
<1>1. PICK i \in DOMAIN ks, j \in DOMAIN ks : ks[i] = k /\ ks[j] = l
  BY DEF Range
<1>2. i \in Nat /\ j \in Nat /\ i # j
  BY <1>1
<1>3. p[k] \in Fds /\ p[l] \in Fds
  BY LowestFree DEF Free
<1>4. p[k] \in Int /\ p[l] \in Int
  BY <1>3 DEF Fds
<1>5. \A a, b \in DOMAIN ks : a < b => p[ks[a]] < p[ks[b]]
  BY DEF Lowest
<1>6. i < j \/ j < i
  BY <1>2
<1>7. p[k] < p[l] \/ p[l] < p[k]
  BY <1>1, <1>5, <1>6
<1> QED  BY <1>4, <1>7

LEMMA OpenedElsewhere ==
  ASSUME NEW tab, NEW p, NEW who, NEW n \in Fds, n \notin Range(p)
  PROVE  Opened(tab, who, p)[n] = tab[n]
BY DEF Opened

LEMMA OpenedThere ==
  ASSUME NEW tab, NEW ks, NEW p \in Lowest(tab, ks), NEW who, NEW n \in Fds, n \in Range(p)
  PROVE  \E k \in Range(ks) : p[k] = n /\ Opened(tab, who, p)[n] = <<who, k>>
<1>1. \E k \in DOMAIN p : p[k] = n
  BY DEF Range
<1>2. PICK k : k = CHOOSE j \in DOMAIN p : p[j] = n
  OBVIOUS
<1>3. k \in Range(ks) /\ p[k] = n
  BY <1>1, <1>2, LowestFree
<1>4. Opened(tab, who, p)[n] = <<who, k>>
  BY <1>2 DEF Opened
<1> QED  BY <1>3, <1>4

\* the numbers being in increasing order, each field has one of its own; what
\* was open stays as it was
OpenedFor(tab, who, p, ks) ==
  \A k \in Range(ks) : p[k] \in Fds /\ Opened(tab, who, p)[p[k]] = <<who, k>>

LEMMA OpenedAt ==
  ASSUME NEW tab, NEW ks, DOMAIN ks \subseteq Nat, NEW p \in Lowest(tab, ks), NEW who
  PROVE  OpenedFor(tab, who, p, ks)
<1> SUFFICES ASSUME NEW k \in Range(ks)
             PROVE  p[k] \in Fds /\ Opened(tab, who, p)[p[k]] = <<who, k>>
  BY DEF OpenedFor
<1>1. k \in DOMAIN p
  BY LowestFree
<1>2. p[k] \in Range(p)
  BY <1>1 DEF Range
<1>3. p[k] \in Fds
  BY <1>2, LowestFree
<1>4. PICK j : j = CHOOSE i \in DOMAIN p : p[i] = p[k]
  OBVIOUS
<1>5. j \in Range(ks) /\ p[j] = p[k]
  BY <1>1, <1>4, LowestFree
<1>6. j = k
  BY <1>5, LowestDiffer
<1>7. Opened(tab, who, p)[p[k]] = <<who, j>>
  BY <1>2, <1>3, <1>4 DEF Opened
<1> QED  BY <1>3, <1>6, <1>7

Untouched(tab, who, p) ==
  \A n \in Fds : tab[n] # FreeSlot => Opened(tab, who, p)[n] = tab[n]

LEMMA OpenedLeaves ==
  ASSUME NEW tab, NEW ks, NEW p \in Lowest(tab, ks), NEW who
  PROVE  Untouched(tab, who, p)
BY LowestFree, OpenedElsewhere DEF Untouched

LEMMA OpenedSlots ==
  ASSUME NEW tab \in [Fds -> Slots], NEW ks, NEW p \in Lowest(tab, ks), NEW who,
         \A k \in Range(ks) : <<who, k>> \in Slots
  PROVE  Opened(tab, who, p) \in [Fds -> Slots]
<1>1. \A n \in Fds : Opened(tab, who, p)[n] \in Slots
  <2> TAKE n \in Fds
  <2>1. CASE n \in Range(p)
    <3>1. PICK k \in Range(ks) : Opened(tab, who, p)[n] = <<who, k>>
      BY <2>1, OpenedThere
    <3> QED  BY <3>1
  <2>2. CASE n \notin Range(p)
    BY <2>2, OpenedElsewhere
  <2> QED  BY <2>1, <2>2
<1> DEFINE u(n) == IF n \in Range(p) THEN <<who, CHOOSE k \in DOMAIN p : p[k] = n>>
                                      ELSE tab[n]
<1>2. Opened(tab, who, p) = [n \in Fds |-> u(n)]
  BY DEF Opened
<1> HIDE DEF u
<1> QED  BY <1>1, <1>2

\* numbers that are closed before anything else is opened, in one close or in
\* two, leave the table as it was
LEMMA ReleasedAgain ==
  ASSUME TypeOK, NEW c, NEW ks, NEW p \in Lowest(fdtab, ks), NEW a, NEW b,
         a \cup b = Range(p)
  PROVE  Closed(Closed(Opened(fdtab, c, p), a), b) = fdtab
<1> DEFINE tab == Opened(fdtab, c, p)
<1>1. \A n \in Fds : n \notin Range(p) => tab[n] = fdtab[n]
  BY OpenedElsewhere
<1>2. \A n \in Range(p) : fdtab[n] = FreeSlot
  BY LowestFree
<1> HIDE DEF tab
<1>3. \A n \in Fds : Closed(Closed(tab, a), b)[n] = fdtab[n]
  BY <1>1, <1>2 DEF Closed
<1>4. Closed(Closed(tab, a), b) = [n \in Fds |-> fdtab[n]]
  BY <1>3 DEF Closed
<1> QED  BY <1>4 DEF TypeOK, tab

LEMMA OpenKeeps ==
  ASSUME TypeOK, OnlyCreatepipeLeaks, NEW c \in Clients, NEW ks, Range(ks) \subseteq Fields,
         NEW p \in Lowest(fdtab, ks), Open(c, p), \A k \in Range(ks) : fd[c][k] = 0,
         \A d \in Clients : Alive(d) => Alive(d)', Alive(c)', pump_method' = pump_method
  PROVE  /\ fdtab' \in [Fds -> Slots] /\ fd' \in Numbers
         /\ \A k \in Fields : fd'[c][k] = IF k \in Range(ks) THEN p[k] ELSE fd[c][k]
         /\ \A k \in Range(ks) : p[k] \in Fds /\ fdtab[p[k]] = FreeSlot
         /\ \A d \in Clients : d # c => fd'[d] = fd[d]
         /\ OnlyCreatepipeLeaks'
<1>1. p \in [Range(ks) -> Free(fdtab)] /\ DOMAIN p = Range(ks)
  BY LowestFree
<1>2. \A k \in Range(ks) : p[k] \in Fds /\ fdtab[p[k]] = FreeSlot
  BY <1>1 DEF Free
<1>3. PICK g : g = Assigned(fd[c], p)
  OBVIOUS
<1>4. fd \in Numbers /\ fd[c] \in [Fields -> 0 .. MaxFd]
  BY DEF TypeOK, Numbers
<1>5. g \in [Fields -> 0 .. MaxFd]
  <2>1. \A n \in Fds : n \in 0 .. MaxFd
    BY MaxFdAssumption DEF Fds
  <2>2. \A k \in Range(ks) : p[k] \in 0 .. MaxFd
    BY <1>2, <2>1
  <2> QED  BY <1>1, <1>3, <1>4, <2>2 DEF Assigned
<1>6. fd' = [fd EXCEPT ![c] = g]
  BY <1>3 DEF Open
<1>7. fd' \in Numbers /\ fd'[c] = g /\ \A d \in Clients : d # c => fd'[d] = fd[d]
  BY <1>4, <1>5, <1>6 DEF Numbers
<1>8. \A k \in Fields : fd'[c][k] = IF k \in Range(ks) THEN p[k] ELSE fd[c][k]
  BY <1>1, <1>3, <1>7 DEF Assigned
<1>9. fdtab' = Opened(fdtab, c, p)
  BY DEF Open
<1>10. /\ \A n \in Fds : n \notin Range(p) => fdtab'[n] = fdtab[n]
       /\ \A n \in Fds : n \in Range(p) =>
            \E k \in Range(ks) : p[k] = n /\ fdtab'[n] = <<c, k>>
  BY <1>9, OpenedElsewhere, OpenedThere
<1>11. fdtab' \in [Fds -> Slots]
  <2>1. fdtab \in [Fds -> Slots]
    BY DEF TypeOK, Slots
  <2>2. \A k \in Range(ks) : <<c, k>> \in Slots
    BY SlotsDiffer
  <2> QED  BY <1>9, <2>1, <2>2, OpenedSlots
<1>12. OnlyCreatepipeLeaks'
  <2> SUFFICES ASSUME NEW n \in Fds, fdtab'[n] \notin {FreeSlot, Listener},
                      ~(fdtab'[n] \in Lost /\ pump_method' = "splicepump")
               PROVE  \E d \in Clients, k \in Fields :
                        fdtab'[n] = <<d, k>> /\ Alive(d)' /\ fd'[d][k] = n
    BY DEF OnlyCreatepipeLeaks
  <2>1. CASE n \in Range(p)
    BY <1>8, <1>10, <2>1
  <2>2. CASE n \notin Range(p)
    <3>1. fdtab'[n] = fdtab[n]
      BY <1>10, <2>2
    <3>2. PICK d \in Clients, k \in Fields : fdtab[n] = <<d, k>> /\ Alive(d) /\ fd[d][k] = n
      BY <3>1 DEF OnlyCreatepipeLeaks
    <3>3. n # 0
      BY DEF Fds
    <3>4. fd'[d][k] = n
      BY <1>7, <1>8, <3>2, <3>3
    <3> QED  BY <3>1, <3>2, <3>4
  <2> QED  BY <2>1, <2>2
<1> QED  BY <1>2, <1>7, <1>8, <1>11, <1>12

-----------------------------------------------------------------------------
(***************************************************************************)
(* Each operation keeps the invariant.  First those that touch neither     *)
(* fields nor lives.                                                       *)
(***************************************************************************)
LEMMA LivesKept ==
  ASSUME UNCHANGED <<state, pump_method>>, NEW c
  PROVE  (Alive(c)' <=> Alive(c)) /\ (Detached(c)' <=> Detached(c))
BY DEF Alive, Detached

\* the events left after one has been handled still fit, as long as nobody dies
LEMMA EventsLeft ==
  ASSUME EventsFit, active' \subseteq active, UNCHANGED state
  PROVE  EventsFit'
BY DEF EventsFit, Alive

LEMMA OnlyEventsChange ==
  ASSUME IInv, UNCHANGED <<pump_method, fdtab, state, fd, ended, list>>,
         phase' \in {"running", "shutdown"}, active' \subseteq ClientEvents \cup LoopEvents,
         EventsFit', finalizing' \subseteq Fds
  PROVE  IInv'
<1>1. TypeOK'
  BY DEF IInv, TypeOK
<1>2. FieldsFit'
  BY DEF IInv, FieldsFit, Alive, Detached
<1>3. ListIsLive' /\ OnlyCreatepipeLeaks' /\ ExitReleasesAll'
  BY DEF IInv, ListIsLive, OnlyCreatepipeLeaks, ExitReleasesAll, Alive
<1> QED  BY <1>1, <1>2, <1>3 DEF IInv

LEMMA PollKeeps == IInv /\ event_base_poll => IInv'
<1> SUFFICES ASSUME IInv, event_base_poll PROVE IInv'
  OBVIOUS
<1>1. /\ phase' = "running"
      /\ UNCHANGED <<pump_method, fdtab, state, fd, ended, list, finalizing>>
  BY DEF event_base_poll
<1>2. \A e \in active' : e \in ClientEvents \cup LoopEvents /\ Ready(e)
  BY DEF event_base_poll, Range
<1>3. EventsFit'
  <2> SUFFICES ASSUME NEW e \in active', NEW c \in Clients, e.of = c
               PROVE  Alive(c)' /\ (e.what = "start_pump" => state'[c] = "handshake")
    BY DEF EventsFit
  <2>1. e.what \in {"start_pump", "source_eof", "end"}
    BY <1>2, ClientsAssumption DEF ClientEvents, LoopEvents, Event
  <2>2. Alive(c) /\ (e.what = "start_pump" => state[c] = "handshake")
    BY <1>2, <2>1 DEF Ready, Alive, Detached
  <2> QED  BY <1>1, <2>2 DEF Alive
<1> QED  BY <1>1, <1>2, <1>3, OnlyEventsChange DEF IInv, TypeOK

\* an event is handled without a free
LEMMA HandledFacts ==
  ASSUME IInv, NEW e, Handled(e)
  PROVE  /\ phase = "running" /\ e \in active /\ active' \subseteq active
         /\ active' \subseteq ClientEvents \cup LoopEvents
         /\ e \notin active'
BY DEF Handled, Handle, IInv, TypeOK

LEMMA GivesUpKeeps == IInv /\ listener_cb_gives_up => IInv'
<1> SUFFICES ASSUME IInv, listener_cb_gives_up PROVE IInv'
  OBVIOUS
<1>1. Handled(Accept) /\ UNCHANGED <<phase, pump_method, fdtab, state, fd, ended, list, finalizing>>
  BY DEF listener_cb_gives_up
<1>2. EventsFit'
  BY <1>1, HandledFacts, EventsLeft DEF IInv
<1> QED  BY <1>1, <1>2, HandledFacts, OnlyEventsChange DEF IInv, TypeOK

LEMMA TerminateKeeps == IInv /\ terminate_signal_cb => IInv'
<1> SUFFICES ASSUME IInv, terminate_signal_cb PROVE IInv'
  OBVIOUS
<1>1. /\ Handled(Event("terminate", "env")) /\ phase' = "shutdown"
      /\ UNCHANGED <<pump_method, fdtab, state, fd, ended, list, finalizing>>
  BY DEF terminate_signal_cb
<1>2. EventsFit'
  BY <1>1, HandledFacts, EventsLeft DEF IInv
<1> QED  BY <1>1, <1>2, HandledFacts, OnlyEventsChange DEF IInv, TypeOK

LEMMA LowestAreNumbers ==
  ASSUME IInv, NEW ks, NEW p \in Lowest(fdtab, ks), NEW nums \in SUBSET Range(p)
  PROVE  finalizing \cup nums \subseteq Fds
BY LowestFree DEF IInv, TypeOK

LEMMA ListenerFailsKeeps ==
  ASSUME IInv, NEW c \in Clients, listener_cb_fails(c)
  PROVE  IInv' /\ UNCHANGED <<fdtab, state, fd>>
<1>1. Handled(Accept) /\ UNCHANGED <<phase, pump_method, state, fd, ended, list>>
  BY DEF listener_cb_fails
<1>2. PICK p \in Lowest(fdtab, <<"client_fd">>) :
        \E field, late \in SUBSET Range(p) :
          /\ fdtab' = Closed(Closed(Opened(fdtab, c, p), field), Range(p))
          /\ finalizing' = finalizing \cup late
  BY DEF listener_cb_fails
<1>3. fdtab' = fdtab
  <2>1. \A field \in SUBSET Range(p) : field \cup Range(p) = Range(p)
    OBVIOUS
  <2> QED  BY <1>2, <2>1, ReleasedAgain DEF IInv
<1>4. finalizing' \subseteq Fds
  BY <1>2, LowestAreNumbers
<1>5. EventsFit'
  BY <1>1, HandledFacts, EventsLeft DEF IInv
<1> QED  BY <1>1, <1>3, <1>4, <1>5, HandledFacts, OnlyEventsChange DEF IInv, TypeOK

\* a step that closes numbers and changes no field or life
LEMMA CloseStepKeeps ==
  ASSUME IInv, phase = "running", NEW nums, fdtab' = Closed(fdtab, nums),
         UNCHANGED <<phase, pump_method, state, fd, list>>,
         ended' \in [Clients -> SUBSET WriteEnds],
         active' \subseteq active, finalizing' \subseteq finalizing
  PROVE  IInv'
<1>1. TypeOK /\ OnlyCreatepipeLeaks /\ EventsFit
  BY DEF IInv
<1>2. Closes(fdtab', nums)
  BY <1>1, ClosedCloses
<1>3. TypeOK'
  BY <1>1, <1>2 DEF TypeOK, Closes, Slots
<1>4. OnlyCreatepipeLeaks'
  BY <1>1, <1>2, CloseKeeps
<1>5. FieldsFit' /\ ListIsLive'
  BY DEF IInv, FieldsFit, ListIsLive, Alive, Detached
<1>6. EventsFit'
  BY <1>1, EventsLeft
<1> QED  BY <1>3, <1>4, <1>5, <1>6 DEF IInv, ExitReleasesAll

LEMMA FinalizeKeeps == IInv /\ bufferevent_finalize => IInv'
<1> SUFFICES ASSUME IInv, bufferevent_finalize PROVE IInv'
  OBVIOUS
<1>1. PICK n \in finalizing : fdtab' = Closed(fdtab, {n}) /\ finalizing' = finalizing \ {n}
  BY DEF bufferevent_finalize
<1>2. phase = "running" /\ UNCHANGED <<phase, pump_method, state, fd, ended, list, active>>
  BY DEF bufferevent_finalize
<1> QED  BY <1>1, <1>2, CloseStepKeeps DEF IInv, TypeOK

LEMMA SourceEofKeeps ==
  ASSUME IInv, NEW c \in Clients, source_eof(c)
  PROVE  IInv'
<1>1. /\ Handled(Event("source_eof", c))
      /\ UNCHANGED <<phase, pump_method, state, fd, list, finalizing>>
  BY DEF source_eof
<1>2. PICK k \in WriteEnds : /\ fdtab' = Closed(fdtab, {fd[c][k]})
                             /\ ended' = [ended EXCEPT ![c] = @ \cup {k}]
  BY DEF source_eof
<1>3. ended' \in [Clients -> SUBSET WriteEnds]
  BY <1>2 DEF IInv, TypeOK
<1> QED  BY <1>1, <1>2, <1>3, HandledFacts, CloseStepKeeps

-----------------------------------------------------------------------------
(***************************************************************************)
(* The operations that free clients.                                       *)
(***************************************************************************)
LEMMA SocketNumber ==
  ASSUME TypeOK, FieldsFit, NEW c \in Clients, Alive(c), NEW k \in SocketFields
  PROVE  fd[c][k] \in Fds
<1>1. fd[c][k] \in 0 .. MaxFd /\ fd[c][k] # 0
  BY DEF TypeOK, FieldsFit, Fields
<1> QED  BY <1>1, MaxFdAssumption DEF Fds

LEMMA FinalizersAre ==
  ASSUME TypeOK, FieldsFit, NEW cs \in SUBSET Clients, \A c \in cs : Alive(c)
  PROVE  FinalizersOf(cs) \subseteq Fds
<1> SUFFICES ASSUME NEW c \in cs, NEW k \in SocketFields
             PROVE  fd[c][k] \in Fds
  BY DEF FinalizersOf
<1> QED  BY SocketNumber

LEMMA ClientFreeKeeps ==
  ASSUME IInv, phase = "running", NEW gone \in SUBSET Clients, NEW late \in SUBSET Fds,
         NEW e, NEW tab, transocks_client_free(tab, gone, late, e),
         Closes(tab, HeldBy(gone))
  PROVE  IInv' /\ \A c \in Clients : Alive(c)' <=> Alive(c) /\ c \notin gone
<1>1. TypeOK /\ FieldsFit /\ OnlyCreatepipeLeaks /\ ListIsLive /\ EventsFit
  BY DEF IInv
<1> DEFINE nums == HeldBy(gone)
<1>2. /\ fdtab' = tab /\ FreeContext(gone) /\ phase' = phase
      /\ active' \subseteq active /\ \A d \in active' : d.of \notin gone
      /\ finalizing' = finalizing \cup late
  BY DEF transocks_client_free
<1>3. Closes(fdtab', nums)
  BY <1>2
<1>4. \A c \in gone : Held(fd[c]) \subseteq nums
  BY DEF HeldBy
<1> HIDE DEF nums
<1>5. /\ state' \in [Clients -> States] /\ fd' \in Numbers
      /\ \A c \in Clients : Alive(c)' <=> Alive(c) /\ c \notin gone
      /\ FieldsFit'
      /\ OnlyCreatepipeLeaks'
  BY <1>1, <1>2, <1>3, <1>4, FreeKeeps
<1>6. list' = list \ gone /\ UNCHANGED <<ended, pump_method>>
  BY <1>2 DEF FreeContext
<1>7. TypeOK'
  BY <1>1, <1>2, <1>3, <1>5, <1>6 DEF TypeOK, Closes, Slots, States, Numbers
<1>8. ListIsLive'
  BY <1>1, <1>5, <1>6 DEF ListIsLive
<1>9. EventsFit'
  <2>1. \A c \in Clients : c \notin gone => state'[c] = state[c]
    BY <1>2 DEF FreeContext
  <2> QED  BY <1>1, <1>2, <1>5, <2>1 DEF EventsFit
<1> QED  BY <1>2, <1>5, <1>7, <1>8, <1>9 DEF IInv, ExitReleasesAll

\* the splice pump fails to start: what it had opened is closed again with
\* the client's fields, or lost by createpipe
LEMMA SpliceStartFails ==
  ASSUME TypeOK, FieldsFit, NEW c \in Clients, ~Detached(c), pump_method = "splicepump",
         NEW made \in {<<>>, InboundPipe, BothPipes}, NEW p \in Lowest(fdtab, made),
         NEW left \in createpipe_fails(Opened(fdtab, c, p))
  PROVE  Closes(Closed(left, Held(Assigned(fd[c], p))), HeldBy({c}))
<1> DEFINE tab   == Opened(fdtab, c, p)
           f     == Assigned(fd[c], p)
           ends  == <<"pipe_readfd", "pipe_writefd">>
           final == Closed(left, Held(f))
<1>1. Range(made) \subseteq PipeFields /\ DOMAIN p = Range(made)
  BY FieldOrders, LowestFree
<1>2. fdtab \in [Fds -> Slots]
  BY DEF TypeOK, Slots
<1>3. tab \in [Fds -> Slots]
  BY <1>1, <1>2, SlotsDiffer, FieldsAre, OpenedSlots
<1>4. \A n \in Fds : n \notin Range(p) => tab[n] = fdtab[n]
  BY OpenedElsewhere
<1> HIDE DEF tab
<1>5. /\ left \in [Fds -> Slots]
      /\ \A n \in Fds : left[n] = tab[n] \/ left[n] \in Lost
  <2>1. CASE left = tab
    BY <1>3, <2>1
  <2>2. CASE \E q \in Lowest(tab, ends) : left = Opened(tab, "createpipe", q)
    <3>1. PICK q \in Lowest(tab, ends) : left = Opened(tab, "createpipe", q)
      BY <2>2
    <3>2. \A k \in Range(ends) : <<"createpipe", k>> \in Lost
      BY FieldOrders DEF Lost
    <3>3. left \in [Fds -> Slots]
      BY <1>3, <3>1, <3>2, OpenedSlots DEF Slots
    <3>4. \A n \in Fds : left[n] = tab[n] \/ left[n] \in Lost
      <4> TAKE n \in Fds
      <4>1. CASE n \in Range(q)
        <5>1. PICK k \in Range(ends) : left[n] = <<"createpipe", k>>
          BY <3>1, <4>1, OpenedThere
        <5> QED  BY <3>2, <5>1
      <4>2. CASE n \notin Range(q)
        BY <3>1, <4>2, OpenedElsewhere
      <4> QED  BY <4>1, <4>2
    <3> QED  BY <3>3, <3>4
  <2> QED  BY <2>1, <2>2 DEF createpipe_fails, tab
<1>6. \A n \in Fds : final[n] = IF n \in Held(f) THEN FreeSlot ELSE left[n]
  BY DEF Closed
<1>7. final \in [Fds -> Slots]
  <2>1. \A n \in Fds : final[n] \in Slots
    BY <1>5, <1>6, SlotsDiffer
  <2> QED  BY <2>1 DEF Closed
<1>8. Held(f) = {f[k] : k \in Fields} \ {0}
  BY HeldFields
<1>9. ASSUME NEW n \in Fds, n \notin Held(f)
      PROVE  n \notin Range(p) /\ n \notin Held(fd[c])
  <2>1. n # 0
    BY DEF Fds
  <2>2. \A k \in Fields : f[k] # n
    BY <1>8, <1>9, <2>1
  <2>3. n \notin Range(p)
    <3> SUFFICES ASSUME NEW k \in DOMAIN p, p[k] = n PROVE FALSE
      BY DEF Range
    <3>1. k \in Fields /\ f[k] = p[k]
      BY <1>1, FieldsAre DEF Assigned
    <3> QED  BY <2>2, <3>1
  <2>4. n \notin Held(fd[c])
    <3> SUFFICES ASSUME NEW k \in Fields, fd[c][k] = n PROVE FALSE
      BY HeldFields
    <3>1. k \notin DOMAIN p
      BY <1>1, <2>1 DEF FieldsFit
    <3>2. f[k] = n
      BY <3>1 DEF Assigned
    <3> QED  BY <2>2, <3>2
  <2> QED  BY <2>3, <2>4
<1>10. HeldBy({c}) = Held(fd[c])
  BY DEF HeldBy
<1> HIDE DEF f, final
<1>11. \A n \in Fds : final[n] # FreeSlot =>
         \/ final[n] = fdtab[n] /\ n \notin HeldBy({c})
         \/ final[n] \in Lost
  BY <1>4, <1>5, <1>6, <1>9, <1>10
<1>12. Closes(final, HeldBy({c}))
  BY <1>7, <1>11 DEF Closes
<1> QED  BY <1>12 DEF final, f

LEMMA StartPumpFailsKeeps ==
  ASSUME IInv, NEW c \in Clients, start_pump_fails(c)
  PROVE  IInv'
<1> DEFINE e == Event("start_pump", c)
<1>1. Handle(e)
  BY DEF start_pump_fails
<1>2. Alive(c) /\ phase = "running" /\ state[c] = "handshake"
  BY <1>1, HandlesAlive DEF IInv, Handle
<1>3. TypeOK /\ FieldsFit /\ ~Detached(c)
  BY <1>2 DEF IInv, Detached
<1>4. CASE transocks_client_free(Closed(fdtab, HeldBy({c})), {c}, FinalizersOf({c}), e)
  <2>1. FinalizersOf({c}) \in SUBSET Fds
    BY <1>2, <1>3, FinalizersAre
  <2> QED  BY <1>2, <1>3, <1>4, <2>1, ClosedCloses, ClientFreeKeeps
<1>5. CASE pump_method = "splicepump" /\ splicepump_start_fails(c)
  <2>1. PICK made \in {<<>>, InboundPipe, BothPipes} : \E p \in Lowest(fdtab, made) :
          \E left \in IF made = BothPipes THEN {Opened(fdtab, c, p)}
                                         ELSE createpipe_fails(Opened(fdtab, c, p)) :
            transocks_client_free(Closed(left, Held(Assigned(fd[c], p))), {c}, {}, e)
    BY <1>5 DEF splicepump_start_fails
  <2>2. PICK p \in Lowest(fdtab, made) :
          \E left \in IF made = BothPipes THEN {Opened(fdtab, c, p)}
                                         ELSE createpipe_fails(Opened(fdtab, c, p)) :
            transocks_client_free(Closed(left, Held(Assigned(fd[c], p))), {c}, {}, e)
    BY <2>1
  <2>3. PICK left \in createpipe_fails(Opened(fdtab, c, p)) :
          transocks_client_free(Closed(left, Held(Assigned(fd[c], p))), {c}, {}, e)
    BY <2>2 DEF createpipe_fails
  <2>4. Closes(Closed(left, Held(Assigned(fd[c], p))), HeldBy({c}))
    BY <1>3, <1>5, SpliceStartFails
  <2> QED  BY <1>2, <2>3, <2>4, ClientFreeKeeps
<1> QED  BY <1>4, <1>5 DEF start_pump_fails

LEMMA EndKeeps ==
  ASSUME IInv, NEW c \in Clients, client_ends(c)
  PROVE  IInv'
<1>1. /\ Handle(Event("end", c))
      /\ transocks_client_free(Closed(fdtab, HeldBy({c})), {c}, FinalizersOf({c}),
                               Event("end", c))
  BY DEF client_ends
<1>2. Alive(c) /\ phase = "running"
  BY <1>1, HandlesAlive DEF IInv, Handle
<1>3. FinalizersOf({c}) \in SUBSET Fds
  BY <1>2, FinalizersAre DEF IInv
<1>4. Closes(Closed(fdtab, HeldBy({c})), HeldBy({c}))
  BY ClosedCloses DEF IInv
<1> QED  BY <1>1, <1>2, <1>3, <1>4, ClientFreeKeeps

\* with the buffer pump the walk of the list leaves nobody out
LEMMA DroppedAre ==
  ASSUME ListIsLive
  PROVE  /\ Dropped \in SUBSET Clients /\ \A c \in Dropped : Alive(c)
         /\ pump_method = "bufferpump" => \A c \in Clients : Alive(c) => c \in Dropped
BY DEF ListIsLive, Dropped, Droppable

LEMMA DropKeeps ==
  ASSUME IInv, drop_all_clients_signal_cb
  PROVE  IInv' /\ \A c \in Clients : Alive(c)' <=> Alive(c) /\ c \notin Dropped
<1>1. /\ phase = "running"
      /\ transocks_client_free(Closed(fdtab, HeldBy(Dropped)), Dropped,
                               FinalizersOf(Dropped), Event("drop", "env"))
  BY DEF drop_all_clients_signal_cb, Handle
<1>2. Dropped \in SUBSET Clients /\ FinalizersOf(Dropped) \in SUBSET Fds
  BY DroppedAre, FinalizersAre DEF IInv
<1>3. Closes(Closed(fdtab, HeldBy(Dropped)), HeldBy(Dropped))
  BY ClosedCloses DEF IInv
<1> QED  BY <1>1, <1>2, <1>3, ClientFreeKeeps

LEMMA ShutdownKeeps == IInv /\ Shutdown => IInv'
<1> SUFFICES ASSUME IInv, Shutdown PROVE IInv'
  OBVIOUS
<1>0. TypeOK /\ FieldsFit /\ OnlyCreatepipeLeaks /\ ListIsLive
  BY DEF IInv
<1> DEFINE nums == finalizing \cup HeldBy(Dropped)
<1>1. /\ phase' = "exited" /\ fdtab' = listener_deinit(Closed(fdtab, nums)) /\ FreeContext(Dropped)
      /\ active' = {} /\ finalizing' = {}
  BY DEF Shutdown
<1>2. \A c \in Dropped : Held(fd[c]) \subseteq nums
  BY DEF HeldBy
<1> HIDE DEF nums
<1>3. Closes(fdtab', nums) /\ \A n \in Fds : fdtab'[n] # Listener
  <2>1. Closes(Closed(fdtab, nums), nums)
    BY <1>0, ClosedCloses
  <2>2. fdtab' = [n \in Fds |-> IF Closed(fdtab, nums)[n] = Listener THEN FreeSlot
                                   ELSE Closed(fdtab, nums)[n]]
    BY <1>1 DEF listener_deinit
  <2> QED  BY <2>1, <2>2, SlotsDiffer DEF Closes
<1>4. /\ Dropped \in SUBSET Clients
      /\ pump_method = "bufferpump" => \A c \in Clients : Alive(c) => c \in Dropped
  BY <1>0, DroppedAre
<1>5. /\ state' \in [Clients -> States] /\ fd' \in Numbers
      /\ \A c \in Clients : Alive(c)' <=> Alive(c) /\ c \notin Dropped
      /\ FieldsFit'
      /\ OnlyCreatepipeLeaks'
  BY <1>0, <1>1, <1>2, <1>3, <1>4, FreeKeeps
<1>6. list' = list \ Dropped /\ UNCHANGED <<ended, pump_method>>
  BY <1>1 DEF FreeContext
<1>7. TypeOK'
  BY <1>0, <1>1, <1>3, <1>5, <1>6 DEF TypeOK, Closes, Slots, States, Numbers
<1>8. ListIsLive'
  BY <1>0, <1>5, <1>6 DEF ListIsLive
<1>9. EventsFit'
  BY <1>1 DEF EventsFit
<1>10. ASSUME pump_method' = "bufferpump", NEW n \in Fds
       PROVE  fdtab'[n] = FreeSlot
  <2>1. \A c \in Clients : ~Alive(c)'
    BY <1>4, <1>5, <1>6, <1>10
  <2>2. pump_method' # "splicepump"
    BY <1>10
  <2> QED  BY <1>3, <1>5, <2>1, <2>2 DEF OnlyCreatepipeLeaks
<1>11. ExitReleasesAll'
  BY <1>3, <1>10 DEF ExitReleasesAll
<1> QED  BY <1>5, <1>7, <1>8, <1>9, <1>11 DEF IInv

-----------------------------------------------------------------------------
(***************************************************************************)
(* The operations that begin a life or start a pump.                       *)
(***************************************************************************)
\* a client goes from one state to another
LEMMA StateChange ==
  ASSUME TypeOK, NEW c \in Clients, NEW s \in States, state' = [state EXCEPT ![c] = s],
         pump_method' = pump_method
  PROVE  /\ state' \in [Clients -> States] /\ state'[c] = s
         /\ Alive(c)' <=> s \in {"handshake", "pumping"}
         /\ \A d \in Clients : d # c =>
              /\ state'[d] = state[d]
              /\ Alive(d)' <=> Alive(d)
              /\ Detached(d)' <=> Detached(d)
<1>1. state' \in [Clients -> States] /\ state'[c] = s
  BY DEF TypeOK, States
<1>2. \A d \in Clients : d # c => state'[d] = state[d]
  BY DEF TypeOK
<1> QED  BY <1>1, <1>2 DEF Alive, Detached

LEMMA AcceptKeeps ==
  ASSUME IInv, NEW c \in Clients, listener_cb_accepts(c)
  PROVE  IInv'
<1>1. TypeOK /\ FieldsFit /\ OnlyCreatepipeLeaks /\ ListIsLive /\ EventsFit
  BY DEF IInv
<1>2. /\ Handled(Accept) /\ state[c] = "unused" /\ list' = list \cup {c}
      /\ state' = [state EXCEPT ![c] = "handshake"]
      /\ UNCHANGED <<phase, pump_method, ended, finalizing>>
  BY DEF listener_cb_accepts
<1>3. PICK ks : ks = <<"client_fd", "relay_fd">>
  OBVIOUS
<1>4. PICK p \in Lowest(fdtab, ks) : Open(c, p)
  BY <1>3 DEF listener_cb_accepts
<1>5. Range(ks) = SocketFields
  BY <1>3, FieldOrders
<1>6. ~Alive(c) /\ ~Detached(c) /\ ~Detached(c)' /\ Alive(c)'
  <2>1. state'[c] = "handshake"
    BY <1>1, <1>2 DEF TypeOK
  <2> QED  BY <1>2, <2>1 DEF Alive, Detached
<1>7. /\ state' \in [Clients -> States]
      /\ \A d \in Clients : d # c => /\ state'[d] = state[d]
                                     /\ Alive(d)' <=> Alive(d)
                                     /\ Detached(d)' <=> Detached(d)
  BY <1>1, <1>2, StateChange DEF States
<1>8. \A k \in Range(ks) : fd[c][k] = 0
  BY <1>1, <1>5, <1>6 DEF FieldsFit
<1>9. \A d \in Clients : Alive(d) => Alive(d)'
  BY <1>6, <1>7
<1>10. /\ fdtab' \in [Fds -> Slots] /\ fd' \in Numbers
       /\ \A k \in Fields : fd'[c][k] = IF k \in SocketFields THEN p[k] ELSE fd[c][k]
       /\ \A k \in SocketFields : p[k] \in Fds
       /\ \A d \in Clients : d # c => fd'[d] = fd[d]
       /\ OnlyCreatepipeLeaks'
  <2>1. Range(ks) \subseteq Fields /\ pump_method' = pump_method
    BY <1>2, <1>5, FieldsAre
  <2>2. /\ fdtab' \in [Fds -> Slots] /\ fd' \in Numbers
        /\ \A k \in Fields : fd'[c][k] = IF k \in Range(ks) THEN p[k] ELSE fd[c][k]
        /\ \A k \in Range(ks) : p[k] \in Fds /\ fdtab[p[k]] = FreeSlot
        /\ \A d \in Clients : d # c => fd'[d] = fd[d]
        /\ OnlyCreatepipeLeaks'
    BY <1>1, <1>4, <1>6, <1>8, <1>9, <2>1, OpenKeeps, Zenon
  <2> QED  BY <1>5, <2>2, Zenon
<1>11. TypeOK'
  BY <1>1, <1>2, <1>7, <1>10, HandledFacts DEF TypeOK, Slots, States, Numbers
<1>12. FieldsFit'
  <2>1. \A k \in SocketFields : fd'[c][k] # 0
    BY <1>10, FieldsAre DEF Fds
  <2>2. \A k \in PipeFields : fd'[c][k] = 0
    BY <1>1, <1>6, <1>10, FieldsAre DEF FieldsFit
  <2> SUFFICES ASSUME NEW d \in Clients
               PROVE  /\ \A k \in SocketFields : Alive(d)' <=> fd'[d][k] # 0
                      /\ ~Detached(d)' => \A k \in PipeFields : fd'[d][k] = 0
    BY DEF FieldsFit
  <2>3. CASE d = c
    BY <1>6, <2>1, <2>2, <2>3, Zenon
  <2>4. CASE d # c
    <3>1. fd'[d] = fd[d] /\ (Alive(d)' <=> Alive(d)) /\ (Detached(d)' <=> Detached(d))
      BY <1>7, <1>10, <2>4, Zenon
    <3> QED  BY <1>1, <3>1, Zenon DEF FieldsFit
  <2> QED  BY <2>3, <2>4
<1>13. ListIsLive'
  BY <1>1, <1>2, <1>6, <1>7 DEF ListIsLive
<1>14. EventsFit'
  BY <1>1, <1>2, <1>6, <1>7, HandledFacts DEF EventsFit
<1>15. ExitReleasesAll'
  BY <1>2, HandledFacts DEF ExitReleasesAll
<1> QED  BY <1>10, <1>11, <1>12, <1>13, <1>14, <1>15 DEF IInv

\* what transocks_start_connect_relay opened is closed again, by closeFd, by the
\* free of the client or by both
LEMMA RelayFails ==
  ASSUME IInv, NEW c \in Clients, start_connect_relay_fails(c)
  PROVE  fdtab' = fdtab /\ finalizing' \subseteq Fds
<1>0. TypeOK
  BY DEF IInv
<1>1. CASE \E p \in Lowest(fdtab, <<"client_fd">>) :
             /\ fdtab' = Closed(Opened(fdtab, c, p), Range(p))
             /\ finalizing' = finalizing \cup Range(p)
  <2>1. PICK p \in Lowest(fdtab, <<"client_fd">>) :
          /\ fdtab' = Closed(Opened(fdtab, c, p), Range(p))
          /\ finalizing' = finalizing \cup Range(p)
    BY <1>1
  <2>2. Closed(Closed(Opened(fdtab, c, p), {}), Range(p)) = fdtab
    BY <1>0, ReleasedAgain
  <2>3. Closed(Closed(Opened(fdtab, c, p), {}), Range(p)) = Closed(Opened(fdtab, c, p), Range(p))
    BY DEF Closed
  <2> QED  BY <2>1, <2>2, <2>3, LowestAreNumbers
<1> DEFINE RelayClosed(p, fields, bevs) ==
             /\ fdtab' = Closed(Closed(Opened(fdtab, c, p), {p["relay_fd"]}),
                                {p[k] : k \in fields})
             /\ finalizing' = finalizing \cup {p[k] : k \in bevs}
<1>2. ASSUME NEW p \in Lowest(fdtab, <<"client_fd", "relay_fd">>),
             NEW fields \in SUBSET SocketFields, NEW bevs \in SUBSET SocketFields,
             "client_fd" \in fields, RelayClosed(p, fields, bevs)
      PROVE  fdtab' = fdtab /\ finalizing' \subseteq Fds
  <2>1. DOMAIN p = SocketFields
    BY LowestFree, FieldOrders
  <2>2. Range(p) = {p["client_fd"], p["relay_fd"]}
    BY <2>1 DEF Range, SocketFields
  <2>3. {p["relay_fd"]} \cup {p[k] : k \in fields} = Range(p)
    BY <1>2, <2>2 DEF SocketFields
  <2>4. {p[k] : k \in bevs} \in SUBSET Range(p)
    BY <2>2 DEF SocketFields
  <2>5. fdtab' = fdtab
    BY <1>0, <1>2, <2>3, ReleasedAgain
  <2>6. finalizing' \subseteq Fds
    BY <1>2, <2>4, LowestAreNumbers
  <2> QED  BY <2>5, <2>6
<1>3. CASE \E p \in Lowest(fdtab, <<"client_fd", "relay_fd">>),
             reached \in {"socket", "field", "bev"} :
             RelayClosed(p, {"client_fd"} \cup (IF reached = "socket" THEN {} ELSE {"relay_fd"}),
                         {"client_fd"} \cup (IF reached = "bev" THEN {"relay_fd"} ELSE {}))
  <2> HIDE DEF RelayClosed
  <2>1. PICK p \in Lowest(fdtab, <<"client_fd", "relay_fd">>) :
          \E fields, bevs \in SUBSET SocketFields :
            "client_fd" \in fields /\ RelayClosed(p, fields, bevs)
    BY <1>3 DEF SocketFields
  <2> QED  BY <1>2, <2>1
<1> QED
  BY <1>1, <1>3 DEF start_connect_relay_fails

\* nothing opened or closed, and nobody dies
LEMMA TableKept ==
  ASSUME OnlyCreatepipeLeaks, UNCHANGED <<fdtab, fd, pump_method>>,
         \A d \in Clients : Alive(d) => Alive(d)'
  PROVE  OnlyCreatepipeLeaks'
BY DEF OnlyCreatepipeLeaks

LEMMA RelayFailsKeeps ==
  ASSUME IInv, NEW c \in Clients, start_connect_relay_fails(c)
  PROVE  IInv'
<1>1. TypeOK /\ FieldsFit /\ OnlyCreatepipeLeaks /\ ListIsLive /\ EventsFit
  BY DEF IInv
<1>2. /\ Handled(Accept) /\ state[c] = "unused"
      /\ state' = [state EXCEPT ![c] = "freed"]
      /\ UNCHANGED <<phase, pump_method, fdtab, fd, ended, list>>
      /\ finalizing' \subseteq Fds
  BY RelayFails DEF start_connect_relay_fails
<1>3. /\ state' \in [Clients -> States]
      /\ \A d \in Clients : d # c => /\ state'[d] = state[d]
                                     /\ Alive(d)' <=> Alive(d)
                                     /\ Detached(d)' <=> Detached(d)
  BY <1>1, <1>2, StateChange DEF States
<1>4. ~Alive(c) /\ ~Detached(c) /\ ~Alive(c)' /\ ~Detached(c)'
  <2>1. state'[c] = "freed"
    BY <1>1, <1>2 DEF TypeOK
  <2> QED  BY <1>2, <2>1 DEF Alive, Detached
<1>5. TypeOK'
  BY <1>1, <1>2, <1>3, HandledFacts DEF TypeOK, States
<1>6. FieldsFit' /\ ListIsLive'
  BY <1>1, <1>2, <1>3, <1>4 DEF FieldsFit, ListIsLive
<1>8. OnlyCreatepipeLeaks'
  BY <1>1, <1>2, <1>3, <1>4, TableKept
<1>7. EventsFit'
  BY <1>1, <1>2, <1>3, <1>4, HandledFacts DEF EventsFit
<1> QED  BY <1>2, <1>5, <1>6, <1>7, <1>8, HandledFacts DEF IInv, ExitReleasesAll

\* a pump starts: the client lives on and its start event is gone
LEMMA PumpStarted ==
  ASSUME IInv, NEW c \in Clients, Handled(Event("start_pump", c)),
         state' = [state EXCEPT ![c] = "pumping"], pump_method' = pump_method
  PROVE  /\ state[c] = "handshake" /\ state'[c] = "pumping"
         /\ state' \in [Clients -> States]
         /\ \A d \in Clients : Alive(d)' <=> Alive(d)
         /\ \A d \in Clients : d # c => (Detached(d)' <=> Detached(d))
         /\ EventsFit'
<1>1. TypeOK /\ EventsFit
  BY DEF IInv
<1>2. state[c] = "handshake" /\ Alive(c)
  BY <1>1, HandlesAlive DEF Handled
<1>3. /\ state' \in [Clients -> States] /\ state'[c] = "pumping" /\ Alive(c)'
      /\ \A d \in Clients : d # c => /\ state'[d] = state[d]
                                     /\ Alive(d)' <=> Alive(d)
                                     /\ Detached(d)' <=> Detached(d)
  BY <1>1, StateChange DEF States
<1>4. EventsFit'
  <2> SUFFICES ASSUME NEW e \in active', NEW d \in Clients, e.of = d
               PROVE  Alive(d)' /\ (e.what = "start_pump" => state'[d] = "handshake")
    BY DEF EventsFit
  <2>1. /\ e \in active /\ e # Event("start_pump", c)
        /\ e \in ClientEvents \cup LoopEvents
    BY <1>1 DEF Handled, TypeOK
  <2>2. e = Event(e.what, e.of)
    BY <2>1, ActiveFacts
  <2>3. e.what = "start_pump" => d # c
    BY <2>1, <2>2
  <2> QED  BY <1>1, <1>3, <2>1, <2>3 DEF EventsFit
<1> QED  BY <1>2, <1>3, <1>4

LEMMA StartPumpKeeps ==
  ASSUME IInv, NEW c \in Clients, transocks_start_pump(c)
  PROVE  IInv'
<1>1. TypeOK /\ FieldsFit /\ OnlyCreatepipeLeaks /\ ListIsLive
  BY DEF IInv
<1>2. /\ Handled(Event("start_pump", c)) /\ state' = [state EXCEPT ![c] = "pumping"]
      /\ UNCHANGED <<phase, pump_method, ended, list, finalizing>>
  BY DEF transocks_start_pump
<1>3. /\ state[c] = "handshake" /\ state'[c] = "pumping"
      /\ state' \in [Clients -> States]
      /\ \A d \in Clients : Alive(d)' <=> Alive(d)
      /\ \A d \in Clients : d # c => (Detached(d)' <=> Detached(d))
      /\ EventsFit'
  BY <1>2, PumpStarted
<1>4. ListIsLive' /\ ExitReleasesAll'
  BY <1>1, <1>2, <1>3, HandledFacts DEF ListIsLive, ExitReleasesAll
<1>5. SUFFICES fdtab' \in [Fds -> Slots] /\ fd' \in Numbers /\ FieldsFit' /\ OnlyCreatepipeLeaks'
  <2>1. TypeOK' <=> fdtab' \in [Fds -> Slots] /\ fd' \in Numbers
    BY <1>1, <1>2, <1>3, HandledFacts DEF TypeOK, Slots, States, Numbers
  <2> QED  BY <1>3, <1>4, <1>5, <2>1 DEF IInv
<1>6. CASE pump_method = "bufferpump" /\ UNCHANGED <<fdtab, fd>>
  <2>1. \A d \in Clients : ~Detached(d)
    BY <1>6 DEF Detached
  <2>2. fdtab' \in [Fds -> Slots] /\ fd' \in Numbers
    BY <1>1, <1>6 DEF TypeOK, Slots, Numbers
  <2>3. FieldsFit'
    BY <1>1, <1>3, <1>6, <2>1 DEF FieldsFit
  <2>4. OnlyCreatepipeLeaks'
    BY <1>1, <1>2, <1>3, <1>6, TableKept
  <2> QED  BY <2>2, <2>3, <2>4
<1>7. CASE pump_method = "splicepump" /\ \E p \in Lowest(fdtab, BothPipes) : Open(c, p)
  <2>1. PICK ks : ks = BothPipes
    OBVIOUS
  <2>2. PICK p \in Lowest(fdtab, ks) : Open(c, p)
    BY <1>7, <2>1
  <2>3. Range(ks) = PipeFields
    BY <2>1, FieldOrders
  <2>4. Alive(c) /\ Alive(c)' /\ ~Detached(c) /\ Detached(c)'
    BY <1>2, <1>3, <1>7 DEF Alive, Detached
  <2>5. \A k \in Range(ks) : fd[c][k] = 0
    BY <1>1, <2>3, <2>4 DEF FieldsFit
  <2>6. /\ fdtab' \in [Fds -> Slots] /\ fd' \in Numbers
        /\ \A k \in Fields : fd'[c][k] = IF k \in PipeFields THEN p[k] ELSE fd[c][k]
        /\ \A d \in Clients : d # c => fd'[d] = fd[d]
        /\ OnlyCreatepipeLeaks'
    <3>1. /\ Range(ks) \subseteq Fields /\ pump_method' = pump_method
          /\ \A d \in Clients : Alive(d) => Alive(d)'
      BY <1>2, <1>3, <2>3, FieldsAre
    <3>2. /\ fdtab' \in [Fds -> Slots] /\ fd' \in Numbers
          /\ \A k \in Fields : fd'[c][k] = IF k \in Range(ks) THEN p[k] ELSE fd[c][k]
          /\ \A d \in Clients : d # c => fd'[d] = fd[d]
          /\ OnlyCreatepipeLeaks'
      BY <1>1, <2>2, <2>4, <2>5, <3>1, OpenKeeps, Zenon
    <3> QED  BY <2>3, <3>2, Zenon
  <2>7. \A k \in SocketFields : fd'[c][k] = fd[c][k]
    BY <2>6, FieldsAre
  <2>8. FieldsFit'
    <3> SUFFICES ASSUME NEW d \in Clients
                 PROVE  /\ \A k \in SocketFields : Alive(d)' <=> fd'[d][k] # 0
                        /\ ~Detached(d)' => \A k \in PipeFields : fd'[d][k] = 0
      BY DEF FieldsFit
    <3>1. CASE d = c
      BY <1>1, <2>4, <2>7, <3>1 DEF FieldsFit
    <3>2. CASE d # c
      <4>1. fd'[d] = fd[d] /\ (Alive(d)' <=> Alive(d)) /\ (Detached(d)' <=> Detached(d))
        BY <1>3, <2>6, <3>2, Zenon
      <4> QED  BY <1>1, <4>1, Zenon DEF FieldsFit
    <3> QED  BY <3>1, <3>2
  <2> QED  BY <2>6, <2>8
<1> QED  BY <1>6, <1>7 DEF transocks_start_pump

-----------------------------------------------------------------------------
(***************************************************************************)
(* The inductive invariant.                                                *)
(***************************************************************************)
LEMMA InitIInv == Init => IInv
<1> SUFFICES ASSUME Init PROVE IInv
  OBVIOUS
<1>1. /\ phase = "running" /\ list = {} /\ active = {} /\ finalizing = {}
      /\ pump_method \in PumpMethods
      /\ fdtab = [n \in Fds |-> IF n = 1 THEN Listener ELSE FreeSlot]
      /\ state = [c \in Clients |-> "unused"]
      /\ fd = [c \in Clients |-> [k \in Fields |-> 0]]
      /\ ended = [c \in Clients |-> {}]
  BY DEF Init
<1>2. \A c \in Clients : ~Alive(c) /\ ~Detached(c)
  BY <1>1 DEF Alive, Detached
<1>3. [k \in Fields |-> 0] \in [Fields -> 0 .. MaxFd]
  BY MaxFdAssumption
<1>4. TypeOK
  BY <1>1, <1>3 DEF TypeOK
<1>5. FieldsFit
  BY <1>1, <1>2, FieldsAre DEF FieldsFit
<1>6. EventsFit
  BY <1>1 DEF EventsFit
<1>7. ListIsLive
  BY <1>1, <1>2 DEF ListIsLive
<1>8. OnlyCreatepipeLeaks
  BY <1>1 DEF OnlyCreatepipeLeaks
<1>9. ExitReleasesAll
  BY <1>1 DEF ExitReleasesAll
<1> QED  BY <1>4, <1>5, <1>6, <1>7, <1>8, <1>9 DEF IInv

LEMMA NextIInv == IInv /\ [Next]_vars => IInv'
<1> SUFFICES ASSUME IInv, [Next]_vars PROVE IInv'
  OBVIOUS
<1>1. CASE UNCHANGED vars
  <2>1. /\ UNCHANGED <<pump_method, fdtab, state, fd, ended, list, phase>>
        /\ UNCHANGED <<active, finalizing>>
    BY <1>1 DEF vars
  <2>2. TypeOK'
    BY <2>1 DEF IInv, TypeOK
  <2>3. FieldsFit' /\ EventsFit'
    BY <2>1 DEF IInv, FieldsFit, EventsFit, Alive, Detached
  <2>4. ListIsLive' /\ ExitReleasesAll'
    BY <2>1 DEF IInv, ListIsLive, ExitReleasesAll, Alive
  <2>5. OnlyCreatepipeLeaks'
    BY <2>1, TableKept DEF IInv, Alive
  <2> QED  BY <2>2, <2>3, <2>4, <2>5 DEF IInv
<1>2. CASE event_base_poll
  BY <1>2, PollKeeps
<1>3. CASE bufferevent_finalize
  BY <1>3, FinalizeKeeps
<1>4. CASE listener_cb_gives_up
  BY <1>4, GivesUpKeeps
<1>5. ASSUME NEW c \in Clients, listener_cb_fails(c) PROVE IInv'
  BY <1>5, ListenerFailsKeeps
<1>6. ASSUME NEW c \in Clients, listener_cb_accepts(c) PROVE IInv'
  BY <1>6, AcceptKeeps
<1>7. ASSUME NEW c \in Clients, start_connect_relay_fails(c) PROVE IInv'
  BY <1>7, RelayFailsKeeps
<1>8. ASSUME NEW c \in Clients, transocks_start_pump(c) PROVE IInv'
  BY <1>8, StartPumpKeeps
<1>9. ASSUME NEW c \in Clients, start_pump_fails(c) PROVE IInv'
  BY <1>9, StartPumpFailsKeeps
<1>10. ASSUME NEW c \in Clients, source_eof(c) PROVE IInv'
  BY <1>10, SourceEofKeeps
<1>11. ASSUME NEW c \in Clients, client_ends(c) PROVE IInv'
  BY <1>11, EndKeeps
<1>12. CASE drop_all_clients_signal_cb
  BY <1>12, DropKeeps
<1>13. CASE terminate_signal_cb
  BY <1>13, TerminateKeeps
<1>14. CASE Shutdown
  BY <1>14, ShutdownKeeps
<1> QED
  BY <1>1, <1>2, <1>3, <1>4, <1>5, <1>6, <1>7, <1>8, <1>9, <1>10, <1>11, <1>12,
     <1>13, <1>14 DEF Next, Dispatch

(***************************************************************************)
(* The loop, the callbacks and the exit keep the list, the descriptor      *)
(* table, the fields and the active events consistent with each other.     *)
(***************************************************************************)
THEOREM ProxyInvariance == Spec => []IInv
BY InitIInv, NextIInv, PTL DEF Spec

(***************************************************************************)
(* Every variable keeps its type: in particular a finalizer is only ever   *)
(* queued for a real descriptor number.                                    *)
(***************************************************************************)
THEOREM ProxyTypes == Spec => []TypeOK
<1>1. IInv => TypeOK
  BY DEF IInv
<1> QED  BY <1>1, ProxyInvariance, PTL

(***************************************************************************)
(* The list the signals and the exit walk holds every live client and no     *)
(* freed one, whichever of transocks_client_free's callers freed it.       *)
(***************************************************************************)
THEOREM ListAlwaysLive == Spec => []ListIsLive
<1>1. IInv => ListIsLive
  BY DEF IInv
<1> QED  BY <1>1, ProxyInvariance, PTL

(***************************************************************************)
(* Whatever number of clients and descriptors: but for the two a failed    *)
(* createpipe of the splice pump leaves behind, every open descriptor is   *)
(* the listener's or is named by the field of the live client that opened  *)
(* it, whichever step of listener_cb, of transocks_start_connect_relay or  *)
(* of a pump's start has failed with however much already opened.          *)
(***************************************************************************)
THEOREM OnlyCreatepipeEverLeaks == Spec => []OnlyCreatepipeLeaks
<1>1. IInv => OnlyCreatepipeLeaks
  BY DEF IInv
<1> QED  BY <1>1, ProxyInvariance, PTL

(***************************************************************************)
(* main leaves nothing open with the buffer pump, and never the listening  *)
(* socket, whatever the loop left queued when SIGTERM broke it.            *)
(***************************************************************************)
THEOREM ExitAlwaysReleases == Spec => []ExitReleasesAll
<1>1. IInv => ExitReleasesAll
  BY DEF IInv
<1> QED  BY <1>1, ProxyInvariance, PTL

(***************************************************************************)
(* With the buffer pump SIGUSR1 leaves no live client: the walk of         *)
(* transocks_drop_all_clients reaches every stage.                         *)
(***************************************************************************)
THEOREM DropAlwaysEmpties == Spec => DropEmptiesList
<1>1. IInv /\ [Next]_vars =>
        [drop_all_clients_signal_cb /\ pump_method = "bufferpump" =>
           \A c \in Clients : ~Alive(c)']_vars
  <2> SUFFICES ASSUME IInv, drop_all_clients_signal_cb, pump_method = "bufferpump",
                      NEW c \in Clients
               PROVE  ~Alive(c)'
    OBVIOUS
  <2>1. Alive(c) => c \in Dropped
    BY DroppedAre DEF IInv
  <2> QED  BY <2>1, DropKeeps
<1> QED  BY <1>1, ProxyInvariance, PTL DEF Spec, DropEmptiesList

-----------------------------------------------------------------------------
(***************************************************************************)
(* Who may take a socket away.                                             *)
(***************************************************************************)
\* steps that neither close nor open anything, nor begin a life
LEMMA OwnSame ==
  ASSUME OwnSockets, UNCHANGED <<fdtab, fd>>,
         \A c \in Clients : Alive(c)' => Alive(c)
  PROVE  OwnSockets'
BY DEF OwnSockets

\* with the buffer pump, a free of clients that own their sockets closes no
\* number of another client
LEMMA FreeOwns ==
  ASSUME TypeOK, FieldsFit, OwnSockets, pump_method = "bufferpump",
         NEW gone \in SUBSET Clients, \A c \in gone : Alive(c), NEW late, NEW e,
         transocks_client_free(Closed(fdtab, HeldBy(gone)), gone, late, e)
  PROVE  OwnSockets'
<1>0. /\ fdtab' = Closed(fdtab, HeldBy(gone))
      /\ \A c \in Clients : c \notin gone => fd'[c] = fd[c]
      /\ \A c \in Clients : Alive(c)' => Alive(c) /\ c \notin gone
  <2>1. /\ fdtab' = Closed(fdtab, HeldBy(gone))
        /\ state' = [c \in Clients |-> IF c \in gone THEN "freed" ELSE state[c]]
        /\ fd' = [c \in Clients |-> IF c \in gone THEN [k \in Fields |-> 0] ELSE fd[c]]
    BY DEF transocks_client_free, FreeContext
  <2> QED  BY <2>1 DEF Alive
<1> SUFFICES ASSUME NEW d \in Clients, NEW k \in SocketFields, Alive(d)'
             PROVE  fdtab'[fd'[d][k]] = <<d, k>>
  BY DEF OwnSockets
<1>1. d \notin gone /\ Alive(d) /\ fd'[d] = fd[d]
  BY <1>0
<1>2. fdtab[fd[d][k]] = <<d, k>>
  BY <1>1 DEF OwnSockets
<1>3. fd[d][k] \in Fds
  BY <1>1, SocketNumber
<1>4. ASSUME NEW c \in gone, fd[d][k] \in Held(fd[c])
      PROVE  FALSE
  <2>1. PICK j \in Fields : fd[c][j] = fd[d][k] /\ fd[c][j] # 0
    BY <1>4, HeldFields
  <2>2. j \in SocketFields
    BY <2>1 DEF FieldsFit, Detached, Fields
  <2>3. fdtab[fd[c][j]] = <<c, j>>
    BY <2>2 DEF OwnSockets
  <2>4. <<c, j>> = <<d, k>>
    BY <1>2, <2>1, <2>3
  <2> QED  BY <1>1, <2>4
<1>5. fd[d][k] \notin HeldBy(gone)
  BY <1>4 DEF HeldBy
<1> QED  BY <1>0, <1>1, <1>2, <1>3, <1>5 DEF Closed

LEMMA AcceptOwns ==
  ASSUME IInv, OwnSockets, NEW c \in Clients, listener_cb_accepts(c)
  PROVE  OwnSockets'
<1>1. TypeOK /\ FieldsFit /\ OnlyCreatepipeLeaks
  BY DEF IInv
<1>2. /\ state[c] = "unused" /\ pump_method' = pump_method
      /\ state' = [state EXCEPT ![c] = "handshake"]
  BY DEF listener_cb_accepts
<1>3. PICK ks : ks = <<"client_fd", "relay_fd">>
  OBVIOUS
<1>4. PICK p \in Lowest(fdtab, ks) : Open(c, p)
  BY <1>3 DEF listener_cb_accepts
<1>5. Range(ks) = SocketFields /\ DOMAIN ks \subseteq Nat
  BY <1>3, FieldOrders
<1>6. DOMAIN p = SocketFields /\ fdtab' = Opened(fdtab, c, p)
  BY <1>4, <1>5, LowestFree DEF Open
<1>7. ASSUME NEW k \in SocketFields
      PROVE  fd'[c][k] = p[k] /\ fdtab'[p[k]] = <<c, k>>
  <2>1. fd'[c] = Assigned(fd[c], p)
    BY <1>1, <1>4 DEF Open, TypeOK
  <2>2. fd'[c][k] = p[k]
    BY <1>6, <2>1, FieldsAre DEF Assigned
  <2>3. k \in Range(ks)
    BY <1>5
  <2>4. OpenedFor(fdtab, c, p, ks)
    BY <1>4, <1>5, OpenedAt
  <2>5. Opened(fdtab, c, p)[p[k]] = <<c, k>>
    BY <2>3, <2>4 DEF OpenedFor
  <2> QED  BY <1>6, <2>2, <2>5
<1>8. ASSUME NEW d \in Clients, d # c, NEW k \in SocketFields, Alive(d)'
      PROVE  fdtab'[fd'[d][k]] = <<d, k>>
  <2>1. Alive(d)
    BY <1>1, <1>2, <1>8, StateChange DEF States
  <2>2. fd'[d] = fd[d]
    BY <1>1, <1>4, <1>8 DEF Open, TypeOK
  <2>3. fdtab[fd[d][k]] = <<d, k>> /\ fd[d][k] \in Fds
    BY <1>1, <2>1, SocketNumber DEF OwnSockets
  <2>4. fdtab[fd[d][k]] # FreeSlot
    BY <2>3, SlotsDiffer, FieldsAre
  <2>5. Opened(fdtab, c, p)[fd[d][k]] = fdtab[fd[d][k]]
    <3>1. Untouched(fdtab, c, p)
      BY <1>4, OpenedLeaves
    <3> QED  BY <2>3, <2>4, <3>1 DEF Untouched
  <2> QED  BY <1>6, <2>2, <2>3, <2>5, Zenon
<1> QED  BY <1>7, <1>8 DEF OwnSockets

LEMMA NextOwns ==
  ASSUME IInv, Next, pump_method = "bufferpump", OwnSockets, ~bufferevent_finalize
  PROVE  OwnSockets'
<1>0. TypeOK /\ FieldsFit /\ ListIsLive /\ EventsFit
  BY DEF IInv
<1>1. CASE event_base_poll \/ listener_cb_gives_up \/ terminate_signal_cb
  BY <1>1, OwnSame DEF Alive, event_base_poll, listener_cb_gives_up, terminate_signal_cb
<1>10. ASSUME NEW c \in Clients, listener_cb_fails(c) PROVE OwnSockets'
  BY <1>10, ListenerFailsKeeps, OwnSame DEF Alive
<1>2. ASSUME NEW c \in Clients, listener_cb_accepts(c) PROVE OwnSockets'
  BY <1>2, AcceptOwns
<1>3. ASSUME NEW c \in Clients, start_connect_relay_fails(c) PROVE OwnSockets'
  <2>1. \A d \in Clients : Alive(d)' => Alive(d)
    BY <1>0, <1>3 DEF start_connect_relay_fails, Alive, TypeOK
  <2> QED  BY <1>3, <2>1, RelayFails, OwnSame DEF start_connect_relay_fails
<1>4. ASSUME NEW c \in Clients, transocks_start_pump(c) PROVE OwnSockets'
  <2>1. /\ Handled(Event("start_pump", c)) /\ state' = [state EXCEPT ![c] = "pumping"]
        /\ UNCHANGED <<pump_method, fdtab, fd>>
    BY <1>4 DEF transocks_start_pump
  <2>2. \A d \in Clients : Alive(d)' <=> Alive(d)
    BY <2>1, PumpStarted
  <2> QED  BY <2>1, <2>2, OwnSame
<1>5. ASSUME NEW c \in Clients, start_pump_fails(c) PROVE OwnSockets'
  <2>1. Alive(c)
    BY <1>0, <1>5, HandlesAlive DEF start_pump_fails
  <2> QED  BY <1>0, <1>5, <2>1, FreeOwns DEF start_pump_fails
<1>6. ASSUME NEW c \in Clients, source_eof(c) PROVE OwnSockets'
  <2>1. UNCHANGED <<state, fd>>
    BY <1>6 DEF source_eof
  <2>2. PICK k \in WriteEnds : fdtab' = Closed(fdtab, {fd[c][k]})
    BY <1>6 DEF source_eof
  <2>3. fd[c][k] = 0
    BY <1>0 DEF FieldsFit, Detached, WriteEnds, PipeFields
  <2>4. \A n \in Fds : n # 0
    BY DEF Fds
  <2>5. fdtab' = fdtab
    BY <1>0, <2>2, <2>3, <2>4 DEF Closed, TypeOK
  <2> QED  BY <2>1, <2>5, OwnSame DEF Alive
<1>7. ASSUME NEW c \in Clients, client_ends(c) PROVE OwnSockets'
  <2>1. Alive(c)
    BY <1>0, <1>7, HandlesAlive DEF client_ends
  <2> QED  BY <1>0, <1>7, <2>1, FreeOwns DEF client_ends
<1>8. CASE drop_all_clients_signal_cb
  <2>1. Dropped \in SUBSET Clients /\ \A c \in Dropped : Alive(c)
    BY <1>0, DroppedAre
  <2> QED  BY <1>0, <1>8, <2>1, FreeOwns DEF drop_all_clients_signal_cb
<1>9. CASE Shutdown
  <2>1. state' = [c \in Clients |-> IF c \in Dropped THEN "freed" ELSE state[c]]
    BY <1>9 DEF Shutdown, FreeContext
  <2>2. \A c \in Clients : Alive(c) => c \in Dropped
    BY <1>0, DroppedAre
  <2>3. \A c \in Clients : ~Alive(c)'
    BY <2>1, <2>2 DEF Alive
  <2> QED  BY <2>3 DEF OwnSockets
<1> QED
  BY <1>1, <1>2, <1>3, <1>4, <1>5, <1>6, <1>7, <1>8, <1>9, <1>10 DEF Next, Dispatch

(***************************************************************************)
(* With the buffer pump only the finalizer that bufferevent_free leaves    *)
(* behind can close a live connection's socket: no free, failed accept or  *)
(* pump start, signal or exit does, whatever numbers the kernel reuses.    *)
(***************************************************************************)
THEOREM OnlyFinalizersEverSteal == Spec => OnlyFinalizersSteal
<1>1. IInv /\ [Next]_vars =>
        [pump_method = "bufferpump" /\ OwnSockets /\ ~OwnSockets' =>
           bufferevent_finalize]_vars
  BY NextOwns
<1> QED  BY <1>1, ProxyInvariance, PTL DEF Spec, OnlyFinalizersSteal
=============================================================================
