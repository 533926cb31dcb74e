# A TLA+ model of transocks-wong

transocks-wong is a transparent proxy: it accepts TCP connections redirected by
iptables, opens a connection to a SOCKS5 server for each, performs the SOCKS5
handshake, and then pumps bytes in both directions. It is one process, one
thread and one libevent loop. The difficulty is not in locks but in the order
of callbacks, in what a callback leaves for a later one, and in error paths.

## Inventory

| Part (source) | State | Operations | What must be right |
|---|---|---|---|
| buffer pump (`bufferpump.c`) | four shutdown flags, two bufferevents with input and output buffers | read, write and event callbacks, start, free | no byte lost or doubled; FIN after the last byte; half-close; freed exactly when both directions ended |
| splice pump (`splicepump.c`) | four flags, two pipes with a byte count, four events | splice into and out of a pipe, termination check, start, free | the count agrees with the pipe, no false end-of-file, the connection is freed |
| SOCKS5 handshake (`socks5.c`) | stage (callback and low watermark), timer | connect, select method, request, reply, error, timeout | every wait is timed; replies may arrive in any pieces; the pump starts only after success |
| client context (`context.c`) | client structure, client list, descriptors | new, free, set timeout, drop all | freed once, unlinked, descriptors closed and nobody else's |
| listener (`listener.c`) | listening socket | accept, init, deinit | failures leave nothing behind |
| signals (`signal.c`) | four signal events | terminate, drop, dump | exit happens; drop reaches every client |
| main, pump selection (`transocks.c`, `pump.c`) | options, addresses, the environment's fields, events in the base, listening socket | option and address parsing, init steps, shutdown | the loop starts with everything in place; a failed start-up releases what was set up |
| list (`list.h`) | next and prev of every node | add, delete, replace, move, cut, splice, walk | pointers stand for a sequence; walking while deleting |
| utilities (`util.c`) | none | address parsing and validation, pipes | good addresses are accepted, bad ones refused |
| logging, allocator | none | printing | not modelled |

Interactions: the listener creates a client and calls the handshake; the
handshake calls the pump; pump, handshake, timer and signals all end in
`transocks_client_free`; the signals and `main` reach clients through the list.
The kernel and libevent sit below all of them.

The hazards are listed in `PROJECT.json`, each at its line.

## Modules

* `Peers` (external): the two TCP peers of a connection and what a socket
  reports. A peer sends, ends its stream, resets, or stops reading for ever. The
  payload of a stream is abstracted to its length. The kernel reports a reset
  once (`sockerr`), later reads see end-of-file and later writes `EPIPE`.
* `StreamRelay`: the promise of a pump, without source: streams are delivered
  in order and in full, an end is announced after the last byte, and a
  connection closes after both (or, with `HalfClose = FALSE`, one) have ended,
  unless it is reset or dropped locally.
* `BufferPump`: `bufferpump.c` for one connection. The source has each callback
  twice, for client and relay; here the side is a parameter. `input`, `output`
  are the evbuffers' lengths, `ev_read`, `ev_write` the enabled masks,
  `wpending` libevent's write event, which fires once even without output. At an
  end-of-file or an error libevent itself turns the event off before it calls the
  event callback (`readcb_event`, `writecb_event`).
* `SplicePump`: `splicepump.c` for one connection; one disjunct per splice
  result. `pipe` is the kernel's content, `data_in_pipe` the pump's count. A pipe
  end that was closed through a local copy is `"stale"`. A pipe has a limited
  number of buffers, so splice may refuse before the capacity is reached.
* `Socks5`: the handshake of one client. A reply is a length and a kind; TCP may
  deliver any part of it at a time, and libevent reads until the input holds as much
  as the high watermark allows (`read_high`). `faults` records what went wrong outside the
  program, so that a failure without cause can be told apart.
* `Connection`: `Socks5` and `BufferPump` on one client, from accept to free. The
  application may send, end or reset while the handshake runs; what the
  handshake has read too much, what the server sent and a hang-up it did not
  notice are handed to the pump as the code leaves them.
* `List`: the functions of `list.h` as operators on a heap, a record of the two
  functions `next` and `prev`; each assignment of the source is one `EXCEPT`.
* `ClientList`: how `context.c` and `listener.c` use it. `lists` is the sequence
  the other modules take the list for, kept beside the pointers; `walk` is the
  state of `list_for_each_entry_safe` in `transocks_drop_all_clients`.
* `ListApi`: `ClientList` extended by every other function of the API, on several
  lists, in any legal order. `valid` says which nodes may be used at all:
  `list_replace` and `list_splice` leave stale pointers behind.
* `Startup`: `main` from the options to the loop and from the loop to exit, one
  step per call that can fail. A heap object has the name of the field that
  points to it. An address is one of six kinds, each with what libevent's parser
  makes of it.
* `Proxy`: listener callback, list, signals and exit of the running proxy, with
  the kernel's lowest-free descriptor numbers, libevent's set of active events
  and its pending finalizers. An operation that fails part-way (`listener_cb` at each of
  its labels, the relay's connect, a pump start between its two pipes) opens what it
  had opened by then and closes what its error path closes, by way of the fields of
  the client; what `createpipe` loses when `setnonblocking` fails stays in the table
  under no client's name. It starts in the state `Startup!LoopIsReady` describes.
  What happens inside a connection is reduced to the events start, end-of-source
  and end.
* `MC*`: the instances for TLC. `*Proofs`: theorems about the module of that name.

Operators named `..._copies`, `..._untimed` and so on, under the comment
"mutant", are deliberately wrong variants used to test that the properties can
fail; no specification uses them.

A libevent callback runs to completion, so one callback is one action.

## Runs

| Run | Checks | Outcome |
|---|---|---|
| `buffer_pump` | `Conservation`, `FinAfterDrain`, `GracefulClose`, `NoLostWakeup`, `QuietIsDone`, `ShutdownIsFinal`, `NeverSpins`; implements `StreamRelay` with half-close (`RelaySpec`); `HalfCloseForwarded`, `BothEndsClose` | hold |
| `buffer_pump_stranded` | `NothingStranded` | violated: payload that came with the SOCKS5 reply can be lost |
| `splice_pump` | `PipeAccounting`, `NoFalseEof`; implements `StreamRelay` without half-close (`RelaySpec`); `EndFreesConnection` | hold |
| `handshake` | `WaitingIsTimed`, `PumpIsUntimed`, `PumpAfterSuccess`, `Ipv4PayloadAligned`, `NoSpuriousDrop`, `OnlyLocalFaultsCrash`, `RoomToRead`, `HandshakeTerminates`, with either pump | hold |
| `handshake_ipv6` | `PayloadAligned` | violated: a split IPv6 reply leaks into the payload |
| `handshake_signal` | `SignalCloses` with the splice pump | violated: clients in the handshake are passed over |
| `connection` | `CarriedInFull`, `QuietIsDone`, `EndIsPassedOn`; implements `StreamRelay` end to end (`ImplementsRelay`) | hold |
| `proxy` | `ListIsLive`, `OnlyCreatepipeLeaks`, `ExitReleasesAll`, `DropEmptiesList`, `OnlyFinalizersSteal`, `TerminateExits`, with either pump | hold |
| `proxy_reuse` | `OwnSockets`, two events in a round | violated: the deferred second close hits a new connection |
| `proxy_splice_reuse` | `OwnSockets` with pipes | violated: a stale pipe number is closed again |
| `client_list` | `Represents`, `WalkIsExact`, `QueriesAgree`, `WalkEnds` | hold |
| `startup` | `LoopIsReady`, `ExitReleasesEverything`, `NoDangling`, `StartsUnlessFault` | hold |

`OnlyFinalizersSteal` bounds what `proxy_reuse` finds: with the buffer pump the
deferred finalizer is the only step that takes a socket from a connection.
`OnlyCreatepipeLeaks` says that an open descriptor is the listener's or is named by the
field of a live client it was opened for, except for the two that a `createpipe` whose
`setnonblocking` fails leaves open (`util.c:111`).
`OnlyLocalFaultsCrash` bounds the two double frees below: nothing a SOCKS5 server
sends leads to them, only a failed timer, connect or pump start.
`NeverSpins` and `QuietIsDone` are the two reasons why the liveness properties of the
buffer pump hold: each callback lessens `Work` (bytes still to be read and written,
and events still added), which only a peer renews, and when no callback
is due nothing is left to pass on unless a peer has stopped reading. `connection`
checks `QuietIsDone` again, for a pump that starts with what the handshake read too much;
it holds because the handshake leaves room below the watermark (`RoomToRead`), at which
libevent would stop reading for good.
`ImplementsRelay` maps a connection from its accept on to `StreamRelay`: the server's
payload counts as sent as soon as it follows the grant, the handshake is invisible,
and one that fails is a local drop. It is about steps after which nothing was read
together with the reply (`leftover`) and no part of the reply was taken for payload
(`strayed`); the two violated runs about these cases show why.

Met while modelling, without a run of its own: `start_pump` of the splice pump,
when it fails after attaching the pump, frees the client and returns an error on
which `socks5.c:90` frees it again; label `freeBev` of `socks5.c:272` frees
`relay_bev` and leaves the client's pointer to it, which `transocks_client_free`
frees again; `splicepump.h:50-53` says that the write events are not to be passed
to `event_add`, and `start_pump` passes them; the end of one direction of the
splice pump frees the connection with the other direction's bytes still in their
pipe, which the relay without half-close allows; `--pump-method X`, with a space,
keeps the default, because the argument is optional; a start-up that fails after
the environment exists exits with status 0.

### Bounds

* Pumps: each peer sends up to 3 bytes into buffers and pipes of 2: enough for
  partial reads and writes, a full buffer, and data behind a full buffer.
  `Leftovers` is what the handshake leaves in `relay_bev`: 0 or 1 byte in
  `buffer_pump_stranded`, 0 elsewhere, because the relay's promise is about streams
  that start empty. The theorems do not fix these numbers.
* Handshake: real message lengths (2, 10, 22, and a domain reply shorter than the
  watermark), every way of cutting them. The high watermark is 23, one more than the
  longest reply, and there are as many bytes of payload: a buffer can be full
  whatever has been drained.
* Connection: a conforming method reply, an IPv4 grant or a refusal, up to 2 bytes of
  payload that may come with the reply, of which a watermark of 11 lets one in, 2
  bytes from each peer. The broken replies
  are in `handshake`, which no pump follows; the theorems about `Connection` hold for
  all replies, an IPv6 or domain reply that strays into the payload included.
* Proxy: three connections, 7 descriptors (with the splice pump a connection takes
  six; two accepted ones leave room for one pipe, so the second cannot be made), and two events in a round,
  the least for a free and an accept to share one. `proxy_reuse` needs 7
  descriptors, `proxy_splice_reuse` 10 and one event in a round.
* List: two heads and three entries, so that a list can be empty, have one entry,
  or have a middle while another is in use.
* Start-up: `MaxArgs = 3` options of any kind, so that both addresses can be given
  with one repeated, or with a pump method, in any order.

Deadlock is checked in `client_list`, which always has a next call. Elsewhere it is
not: a freed connection and an exited process have no steps.

### Fairness

libevent polls level-triggered and runs every active callback in each round, so
a callback that stays ready runs: weak fairness for each. A pending timer
expires. A loop body runs on (`WalkStep`). Nothing is assumed of peers, of the SOCKS5 server, or of what becomes
ready; the liveness properties name the case of a peer that never reads.

## Proofs

`BufferPumpProofs` proves for all `BufSize`, `MaxSend` and `Leftovers` that satisfy
the named assumptions:

* `Invariance`: `Spec => []IInv`, where `IInv` is the conjunction of `TypeOK`,
  `Conservation` (every byte is in one place), `ReadShut` (a shut-down read side
  was read to its end), `WriteShut` (a shut-down write side has nothing queued, or
  was reset), `Events` (which events may be pending in which state), `FreeReason`
  (without reset and drop a freed client has all four flags) and `NoLostWakeup`.
  `FinAfterDrain` and `GracefulClose` are not inductive by themselves: they need
  the link from the flags to the buffers (`ReadShut`, `WriteShut`) and the
  accounting of bytes. The proof has one lemma per action.
* `TypeCorrect`, `Conserved`, `FinIsLast`, `CloseIsGraceful`, `WakeupsKept` and
  `ShutdownFinal` follow from it. `ShutdownFinal` is about the kernel's side too: a socket
  shut for reading has no read event any more, whatever its peer still sends.
* `PumpRefinesRelay`: if the handshake leaves no payload (`Leftovers = {0}`), the
  buffer pump implements `StreamRelay`. Reads are stuttering steps, writes and
  end-of-file are `Forward`, errors `Abort`.
* `LoopNeverSpins`: `Spec => NeverSpins`. The lemmas say what each callback does to the
  measure of its side; the close check and `transocks_bufferpump_free` never raise it.
* `QuietMeansDone`: `Spec => []QuietIsDone`. It needs `Attentive`, a second inductive
  invariant over `IInv`: while data is pumped, a side is read until its end was seen,
  its input holds less than the watermark, and a client with all four flags set is
  freed at once.

`SplicePumpProofs`, for all `MaxSend`, `PipeCap`, `PipeSlots` and `Leftovers`:

* `SpliceInvariance`: `Spec => []SInv`. `SInv` adds to `TypeOK`, `PipeAccounting` and
  `NoFalseEof`: `Unreported` (a reset not yet reported is still to be), `Events` and
  `Fresh` (nothing happens before the pump starts), and `Pumping`: the write end of
  a pipe is open until its source ended with nothing unread. `NoFalseEof` needs it:
  a splice that returns 0 from an empty pipe means the end only if the write end
  is closed, and that the callback is not run on an empty open pipe follows from
  the write events staying in the event base and never being activated by hand.
* `PipesAccounted`, `EofIsReal` follow; `SpliceRefinesRelay` shows, for
  `Leftovers = {0}`, that `StreamRelay` without half-close is implemented.
* `SpliceSleepsIdle`: no event of a running pump is ready only if both streams are
  delivered as far as they were sent and neither ended or was reset. It needs
  `Watched`: a direction without a read event has lost the writer of its pipe, which
  keeps its write event ready. There is no counterpart of `NeverSpins`: this pump does
  spin while its target does not read.

`Socks5Proofs`, for all sets of replies, either pump and any `MaxPayload` and `BufSize`:

* `HandshakeInvariance`: `Spec => []HInv`. `HInv` adds `Stage` (which callback is set
  goes with which request, watermark and state), `Bytes` (what the server sent is
  in the input buffer or on the wire, up to what earlier stages drained) and
  `Blame` (each misbehaviour of the server is on record).
* `HandshakeTypes`, `TimersRight`, `NoTimerWhilePumping`, `GrantedFirst`,
  `PayloadFromItsStart`, `DropsHaveReasons` and `ServerCannotCrash` follow.
  `PayloadFromItsStart` rests on `Bytes`: the watermark is the length of an IPv4 reply,
  so exactly that is drained. `SignalClosesBuffered` (SIGUSR1 frees a client in the
  handshake, with the buffer pump) is proved as part of `HInv`.
* `PumpCanRead`: `Spec => []RoomToRead`. A read stops at the watermark, and the reply is
  drained before the pump starts.

`ConnectionProofs` composes the two: `ConnectionInvariance` is `ConnSpec => []CInv`, where
`CInv` is the pump's `IInv`, the handshake's `HInv` (from an instance of `Socks5Proofs` with
the handshake's variables renamed) and `Together`, which ties the two halves of the
client: nothing has passed and the pump knows of no end of the server's before it
starts, a client the handshake freed is
freed, and once the pump runs `relay_bev`'s input holds all the handshake left there
or nothing. Each half's steps keep its own invariant by the lemmas already proved; the
one step that needs both is the start of the pump, where the bytes the handshake
counts become the bytes the pump has still to deliver.

* `StreamsCarriedInFull` follows; `ImplementsHandshake` shows that
  nothing the application or the pump does disturbs the handshake.
* `ConnectionQuiet`: `QuietIsDone` for a pump that starts with what the handshake left in
  `relay_bev` and with an application that may have ended already. It rests on
  `RoomToRead`: the handshake reads under the pump's watermark (`socks5.c:135`), and
  what it leaves is below it by the length of the reply.
* `ConnectionRefinesRelay`: `ConnSpec => ImplementsRelay`. A step of the pump is a step of
  `StreamRelay` by the pump's own refinement lemmas once the mapped `sent` is the pump's
  (`AllSentValue`); the steps of the handshake leave the mapped state alone, except
  for payload that arrives and an end handed over to the pump, which are `EndStep`s,
  and a free, which is a `Drop`.

`ProxyProofs`, for any number of connections, descriptors and events in a round:

* `ProxyInvariance`: `TypeOK`, `ListIsLive`, `OnlyCreatepipeLeaks` and `ExitReleasesAll` are inductive
  together with `FieldsFit` (exactly a live client has its sockets set, and pipes only
  while a splice pump runs) and `EventsFit` (an active event belongs to a live client,
  and a pump is started once).
* `ProxyTypes`, `ListAlwaysLive`, `OnlyCreatepipeEverLeaks`, `ExitAlwaysReleases` follow, and
  so do the action properties `DropAlwaysEmpties` and `OnlyFinalizersEverSteal`. The error
  paths rest on one argument: what an operation has opened is either in a field that
  the free closes or in a local variable its label closes (`ReleasedAgain`).

`ClientListProofs`, for any sets of heads and entries:

* `HeapRepresentsLists` and `WalkVisitsAll`: the invariant is `TypeOK`, `Represents` and
  `WalkIsExact` with `HeadsValid` (a head is valid, or stale and empty) and `WalkInList` (what the
  walk has still to visit is the end of the list as it is now). The lemmas say what
  appending an entry and removing one do to the pointers; the argument is by
  position in the sequence and needs no induction.
* `WalkAdvances`: each turn of `list_for_each_entry_safe` takes the first of the clients
  ahead of the cursor, or ends the walk when there is none.

`ListApiProofs`, for any sets of heads and entries and any sequence of the calls of
`ListApi`:

* `ApiKeepsLists`, `QueriesTellTruth` and `WalkOfAnyList`, from the same invariant. A call
  breaks one or two rings and joins the pieces anew, so the lemmas are about paths:
  `Path(p, x, s, y)` says that in heap `p` the pointers lead from `x` through `s` to `y`
  and back, and splits where `s` does. `Sound(p, ls, C, U)` says that the heads `C` hold
  the lists `ls` and the entries `U` point to themselves; it may be false of the other
  nodes, which is how a call is followed through its intermediate heaps. Taking a
  piece out (`SoundTake`), putting one in (`SoundPut`), giving one a head (`SoundHead`)
  and initialising a node (`SoundInit`) keep it, and each function of `list.h` is a
  combination of these. There is one lemma per action. In
  `list_cut_position` the guard of the third branch names `~list_empty`, because the
  first and third conditions of the code overlap when an empty list is cut at its
  head, and only their order there tells them apart.

`StartupProofs`, for any number of options and any of the kinds of address:

* `NothingDangles` and `ExitIsClean` from `Resources`: at each place of `main`, what is
  allocated, what is in the event base and the state of the socket.
* `StartupTypes`, the type invariant.
* `LoopStartsReady` and `StartsOrFails` from `Choices`, which adds what was read from
  the options (the last of each kind), what parsing and validation have made sure
  of, and that giving up has a reason.

The type invariant of every module is proved as part of its inductive invariant, so no
run repeats it.

All assumptions are the named `ASSUME`s on the constants; each inductive invariant
was model-checked on a small instance as well.

Only model-checked: liveness under fairness (`HalfCloseForwarded`, `BothEndsClose`,
`EndFreesConnection`, `HandshakeTerminates`, `EndIsPassedOn`, `TerminateExits`, `WalkEnds`),
which is out of the prover's reach. Their safety halves are proved where
they say something of their own: `LoopNeverSpins` and `QuietMeansDone` (`ConnectionQuiet`
for the whole connection) for `HalfCloseForwarded`, `BothEndsClose` and `EndIsPassedOn`,
`SpliceSleepsIdle` for `EndFreesConnection`, `TimersRight` for `HandshakeTerminates`,
`WalkAdvances` for `WalkEnds`. Every invariant and action property of
a passing run is proved.

## Not modelled

* Contents of payload and messages, address formatting, logging, the dumps on
  SIGHUP, allocator names: no state, output only.
* Socket options (`util.c`): single system calls; their failure is a fault of the
  step that makes them.
* `hlist` and the iteration macros of `list.h` other than
  `list_for_each_entry_safe`: the program does not use them, or only to print.
* Memory exhaustion except where noted (timers, requests, pump start, start-up),
  and heap blocks of a connection: `transocks_splicepump_new` loses what it
  allocated when a later allocation fails.
* Growth of output buffers, and the busy loop of a splice pump whose target does
  not read: the models have neither memory bounds nor time.
* A composition of the handshake with the splice pump: the only thing handed over
  is what is left in `relay_bev`, which the splice pump never looks at;
  `SplicePump` has it as `Leftovers`.
