-------------------------- MODULE SplicePumpProofs --------------------------
(***************************************************************************)
(* Proofs about SplicePump, for every MaxSend, PipeCap, PipeSlots and      *)
(* Leftovers.                                                              *)
(***************************************************************************)
EXTENDS SplicePump, TLAPS

(* A reset is reported only by the call that frees the connection. *)
Unreported == ~Destroyed => \A s \in Side : rst[s] => sockerr[s]

(* Events exist only while data is pumped. *)
Events ==
  client_state # "client_pumping_data" =>
    \A d \in Dir : ~read_ev[d] /\ ~write_ev[d] /\ ~write_active[d]

(* Before the pump starts nothing has ended. *)
Fresh ==
  client_state = "client_socks5_finish_handshake" =>
    \A s \in Side : ~shutdown_read[s] /\ ~shutdown_write[s]

(* While data is pumped, the write end of a pipe is open until its source  *)
(* has ended with nothing unread, and no end has been passed on: passing   *)
(* it on frees the connection in the same step.  The write events stay in  *)
(* the event base, so none is ever activated by hand.                      *)
Pumping ==
  client_state = "client_pumping_data" =>
    /\ \A d \in Dir : /\ write_ev[d] /\ ~write_active[d]
                      /\ pipe_writefd[d] # "open" => shutdown_read[Src(d)]
                      /\ ~shutdown_write[Dst(d)]
    /\ \A s \in Side : shutdown_read[s] => fin[s] /\ unread[s] = 0

SInv == /\ TypeOK /\ PipeAccounting /\ NoFalseEof
        /\ Unreported /\ Events /\ Fresh /\ Pumping

(* Each side is the source of one direction and the target of the other. *)
LEMMA DirSides ==
  /\ \A d \in Dir : Src(d) \in Side /\ Dst(d) \in Side /\ Src(d) # Dst(d)
  /\ \A d, e \in Dir : d # e => Src(d) # Src(e) /\ Dst(d) # Dst(e)
  /\ \A s \in Side : \E d \in Dir : Src(d) = s
  /\ \A s \in Side : \E d \in Dir : Dst(d) = s
BY DEF Dir, Side, Src, Dst

(* The pump begins with empty pipes and no end seen. *)
LEMMA InitSInv == Init => SInv
<1> SUFFICES ASSUME Init PROVE SInv
  OBVIOUS
<1>1. PICK early \in Leftovers : PeersInit(early) /\ stranded = early
  BY DEF Init
<1>2. early \in Nat
  BY LeftoversAssumption
<1>3. PeersTypeOK
  BY <1>1, <1>2 DEF PeersInit, PeersTypeOK, AllZero, AllFalse, Side
<1>4. TypeOK
  <2>1. pipe \in [Dir -> 0 .. PipeCap] /\ data_in_pipe \in [Dir -> Nat]
    BY PipeAssumption DEF Init
  <2>2. /\ shutdown_read \in [Side -> BOOLEAN] /\ shutdown_write \in [Side -> BOOLEAN]
        /\ read_ev \in [Dir -> BOOLEAN] /\ write_ev \in [Dir -> BOOLEAN]
        /\ write_active \in [Dir -> BOOLEAN]
    BY DEF Init, NoDir, AllFalse
  <2>3. /\ pipe_writefd \in [Dir -> {"none", "open", "stale"}]
        /\ pipe_readfd \in [Dir -> {"none", "open", "stale"}]
    BY DEF Init, PipeEnds
  <2> QED BY <1>1, <1>2, <1>3, <2>1, <2>2, <2>3 DEF Init, TypeOK
<1>5. PipeAccounting
  BY <1>1, <1>2 DEF Init, PeersInit, PipeAccounting, AllZero, Side, Dir, Src, Dst, Stranded
<1>6. NoFalseEof /\ Fresh
  BY DirSides DEF Init, NoFalseEof, Fresh, AllFalse
<1>7. Unreported
  BY <1>1 DEF PeersInit, Unreported, AllFalse
<1>8. Events /\ Pumping
  BY DEF Init, Events, Pumping, NoDir
<1> QED BY <1>4, <1>5, <1>6, <1>7, <1>8 DEF SInv

(* Freeing the connection keeps the invariant, whatever else the step did, *)
(* if the account of the bytes and of the ends still holds.                *)
LEMMA FreeSInv ==
  ASSUME transocks_splicepump_free, PeersTypeOK', PipeAccounting', NoFalseEof',
         shutdown_read' \in [Side -> BOOLEAN], shutdown_write' \in [Side -> BOOLEAN],
         pipe' \in [Dir -> 0 .. PipeCap], data_in_pipe' \in [Dir -> Nat],
         stranded' \in Nat, dropped' \in BOOLEAN
  PROVE  SInv'
<1>1. client_state' = "client_DESTROYED"
  BY DEF transocks_splicepump_free
<1>2. /\ read_ev' \in [Dir -> BOOLEAN] /\ write_ev' \in [Dir -> BOOLEAN]
      /\ write_active' \in [Dir -> BOOLEAN]
      /\ \A d \in Dir : ~read_ev'[d] /\ ~write_ev'[d] /\ ~write_active'[d]
  BY DEF transocks_splicepump_free, NoDir
<1>3. /\ pipe_writefd' \in [Dir -> {"none", "open", "stale"}]
      /\ pipe_readfd' \in [Dir -> {"none", "open", "stale"}]
  BY DEF transocks_splicepump_free, PipeEnds
<1>4. TypeOK'
  BY <1>1, <1>2, <1>3 DEF TypeOK, transocks_splicepump_free
<1>5. Unreported' /\ Events' /\ Fresh' /\ Pumping'
  BY <1>1, <1>2 DEF Unreported, Events, Fresh, Pumping, Destroyed
<1> QED BY <1>4, <1>5 DEF SInv

(* A step that leaves the bytes and the flags alone and frees the          *)
(* connection.                                                             *)
LEMMA DropSInv ==
  ASSUME SInv, transocks_splicepump_free, dropped' \in BOOLEAN,
         UNCHANGED <<sent, unread, delivered, fin, pipe, data_in_pipe, flagVars, stranded>>,
         PeersTypeOK'
  PROVE  SInv'
<1>1. PipeAccounting' /\ NoFalseEof'
  BY DEF SInv, PipeAccounting, NoFalseEof, Stranded, flagVars
<1> QED BY <1>1, FreeSInv DEF SInv, TypeOK, flagVars

(* Splicing into the pipe. *)
LEMMA TransferInSInv ==
  ASSUME SInv, NEW d \in Dir, client_state = "client_pumping_data",
         WriteToPipe_normal_transfer(d), UNCHANGED stranded
  PROVE  SInv'
<1>0. /\ TypeOK /\ PeersTypeOK /\ PipeAccounting /\ NoFalseEof /\ Unreported /\ Pumping
      /\ Src(d) \in Side /\ Dst(d) \in Side
  BY DirSides DEF SInv, TypeOK
<1>1. PICK n \in 1 .. PipeCap :
        /\ SpliceInTransfers(d, n)
        /\ SocketRead(Src(d), n)
        /\ pipe' = [pipe EXCEPT ![d] = @ + n]
        /\ data_in_pipe' = [data_in_pipe EXCEPT ![d] = @ + n]
        /\ transocks_check_normal_termination(d, shutdown_read, shutdown_write,
             pipe_writefd, pipe_readfd, read_ev, write_active)
        /\ UNCHANGED <<sent, delivered, fin, rst, sockerr, stalled>>
  BY DEF WriteToPipe_normal_transfer
<1>2. UNCHANGED <<flagVars, dropped, pipe_writefd, pipe_readfd, read_ev, write_active,
                  write_ev, user_arg, client_state>>
  BY <1>0, <1>1 DEF transocks_check_normal_termination, DirectionEnded, Pumping, flagVars
<1>3. /\ n \in 1 .. unread[Src(d)] /\ pipe[d] + n \in 0 .. PipeCap
      /\ unread[Src(d)] \in Nat /\ pipe[d] \in Nat /\ data_in_pipe[d] = pipe[d]
  BY <1>0, <1>1, PipeAssumption DEF SpliceInTransfers, TypeOK, PeersTypeOK, PipeAccounting
<1>4. /\ unread' = [unread EXCEPT ![Src(d)] = @ - n]
      /\ \A s \in Side : unread'[s] = IF s = Src(d) THEN unread[s] - n ELSE unread[s]
      /\ \A e \in Dir : pipe'[e] = IF e = d THEN pipe[e] + n ELSE pipe[e]
      /\ \A e \in Dir : data_in_pipe'[e] = IF e = d THEN data_in_pipe[e] + n
                                             ELSE data_in_pipe[e]
  BY <1>0, <1>1 DEF SocketRead, TypeOK, PeersTypeOK
<1>5. unread[Src(d)] - n \in Nat
  BY <1>3
<1>6. PeersTypeOK'
  BY <1>0, <1>1, <1>4, <1>5 DEF PeersTypeOK
<1>7. TypeOK'
  BY <1>0, <1>1, <1>2, <1>3, <1>6 DEF TypeOK, flagVars
<1>8. PipeAccounting'
  <2> SUFFICES ASSUME NEW e \in Dir
               PROVE  /\ data_in_pipe'[e] = pipe'[e]
                      /\ sent[Src(e)] = unread'[Src(e)] + Stranded(e) + pipe'[e]
                                          + delivered[Dst(e)]
    BY <1>1 DEF PipeAccounting, Stranded
  <2>1. CASE e = d
    <3>1. /\ sent[Src(d)] \in Nat /\ Stranded(d) \in Nat /\ delivered[Dst(d)] \in Nat
          /\ sent[Src(d)] = unread[Src(d)] + Stranded(d) + pipe[d] + delivered[Dst(d)]
      BY <1>0 DEF PeersTypeOK, TypeOK, PipeAccounting, Stranded
    <3>2. sent[Src(d)] = (unread[Src(d)] - n) + Stranded(d) + (pipe[d] + n) + delivered[Dst(d)]
      BY <1>3, <3>1
    <3> QED BY <1>0, <1>3, <1>4, <2>1, <3>2
  <2>2. CASE e # d
    BY <1>0, <1>4, <2>2, DirSides DEF PipeAccounting
  <2> QED BY <2>1, <2>2
<1>9. NoFalseEof' /\ Unreported'
  BY <1>0, <1>1, <1>2 DEF NoFalseEof, Unreported, Destroyed, Stranded, flagVars
<1>10. Events' /\ Fresh'
  BY <1>2 DEF Events, Fresh
<1>11. Pumping'
  <2>1. \A s \in Side : shutdown_read[s] => fin[s] /\ unread[s] = 0
    BY <1>0 DEF Pumping
  <2>2. \A s \in Side : shutdown_read[s] => s # Src(d)
    BY <1>3, <2>1
  <2>3. \A s \in Side : shutdown_read'[s] => fin'[s] /\ unread'[s] = 0
    BY <1>1, <1>2, <1>4, <2>1, <2>2 DEF flagVars
  <2> QED BY <1>0, <1>2, <2>3 DEF Pumping, flagVars
<1> QED BY <1>7, <1>8, <1>9, <1>10, <1>11 DEF SInv

(* Splicing out of the pipe. *)
LEMMA TransferOutSInv ==
  ASSUME SInv, NEW d \in Dir, client_state = "client_pumping_data",
         ReadFromPipe_normal_transfer(d), UNCHANGED stranded
  PROVE  SInv'
<1>0. /\ TypeOK /\ PeersTypeOK /\ PipeAccounting /\ NoFalseEof /\ Unreported /\ Pumping
      /\ Src(d) \in Side /\ Dst(d) \in Side
  BY DirSides DEF SInv, TypeOK
<1>1. PICK n \in 1 .. PipeCap :
        /\ SpliceOutTransfers(d, n)
        /\ SocketWrite(Dst(d), n)
        /\ pipe' = [pipe EXCEPT ![d] = @ - n]
        /\ data_in_pipe' = [data_in_pipe EXCEPT ![d] = @ - n]
        /\ transocks_check_normal_termination(d, shutdown_read, shutdown_write,
             pipe_writefd, pipe_readfd, read_ev, [write_active EXCEPT ![d] = FALSE])
        /\ UNCHANGED <<sent, unread, fin, rst, sockerr, stalled>>
  BY DEF ReadFromPipe_normal_transfer
<1>2. /\ UNCHANGED <<flagVars, dropped, pipe_writefd, pipe_readfd, read_ev, write_ev,
                     user_arg, client_state>>
      /\ write_active' = [write_active EXCEPT ![d] = FALSE]
  BY <1>0, <1>1 DEF transocks_check_normal_termination, DirectionEnded, Pumping, flagVars
<1>3. /\ n \in 1 .. pipe[d] /\ pipe[d] - n \in 0 .. PipeCap
      /\ pipe[d] \in Nat /\ data_in_pipe[d] = pipe[d]
  BY <1>0, <1>1, PipeAssumption DEF SpliceOutTransfers, TypeOK, PipeAccounting
<1>4. /\ delivered' = [delivered EXCEPT ![Dst(d)] = @ + n]
      /\ \A s \in Side : delivered'[s] = IF s = Dst(d) THEN delivered[s] + n
                                           ELSE delivered[s]
      /\ \A e \in Dir : pipe'[e] = IF e = d THEN pipe[e] - n ELSE pipe[e]
      /\ \A e \in Dir : data_in_pipe'[e] = IF e = d THEN data_in_pipe[e] - n
                                             ELSE data_in_pipe[e]
      /\ \A e \in Dir : write_active'[e] = IF e = d THEN FALSE ELSE write_active[e]
  BY <1>0, <1>1, <1>2 DEF SocketWrite, TypeOK, PeersTypeOK
<1>5. PeersTypeOK'
  BY <1>0, <1>1, <1>4 DEF PeersTypeOK
<1>6. TypeOK'
  BY <1>0, <1>1, <1>2, <1>3, <1>5 DEF TypeOK, flagVars
<1>7. PipeAccounting'
  <2> SUFFICES ASSUME NEW e \in Dir
               PROVE  /\ data_in_pipe'[e] = pipe'[e]
                      /\ sent[Src(e)] = unread[Src(e)] + Stranded(e) + pipe'[e]
                                          + delivered'[Dst(e)]
    BY <1>1 DEF PipeAccounting, Stranded
  <2>1. CASE e = d
    <3>1. /\ sent[Src(d)] \in Nat /\ unread[Src(d)] \in Nat /\ Stranded(d) \in Nat
          /\ delivered[Dst(d)] \in Nat
          /\ sent[Src(d)] = unread[Src(d)] + Stranded(d) + pipe[d] + delivered[Dst(d)]
      BY <1>0 DEF PeersTypeOK, TypeOK, PipeAccounting, Stranded
    <3>2. sent[Src(d)] = unread[Src(d)] + Stranded(d) + (pipe[d] - n) + (delivered[Dst(d)] + n)
      BY <1>3, <3>1
    <3> QED BY <1>0, <1>3, <1>4, <2>1, <3>2
  <2>2. CASE e # d
    BY <1>0, <1>4, <2>2, DirSides DEF PipeAccounting
  <2> QED BY <2>1, <2>2
<1>8. NoFalseEof'
  <2>1. \A s \in Side : ~shutdown_write[s]
    BY <1>0, DirSides DEF Pumping
  <2> QED BY <1>2, <2>1, DirSides DEF NoFalseEof, flagVars
<1>9. Unreported' /\ Events' /\ Fresh'
  BY <1>0, <1>1, <1>2 DEF Unreported, Events, Fresh, Destroyed
<1>10. Pumping'
  BY <1>0, <1>1, <1>2, <1>4 DEF Pumping, flagVars
<1> QED BY <1>6, <1>7, <1>8, <1>9, <1>10 DEF SInv

(* A splice that would block changes nothing: the write event is pending,  *)
(* so it is not activated by hand.                                         *)
LEMMA RetryIdle ==
  ASSUME SInv, NEW d \in Dir, client_state = "client_pumping_data",
         WriteToPipe_can_retry(d) \/ ReadFromPipe_can_retry(d)
  PROVE  UNCHANGED <<peerVars, pumpVars, flagVars, client_state, dropped>>
<1>0. Pumping /\ TypeOK /\ write_ev[d] /\ ~write_active[d]
  BY DEF SInv, Pumping
<1>1. /\ [write_active EXCEPT ![d] = FALSE] = write_active
      /\ [write_active EXCEPT ![d] = @ \/ (data_in_pipe[d] > 0 /\ ~write_ev[d])] = write_active
  <2>1. write_active[d] = FALSE
    BY <1>0 DEF TypeOK
  <2>2. (write_active[d] \/ (data_in_pipe[d] > 0 /\ ~write_ev[d])) = FALSE
    BY <1>0
  <2> QED BY <1>0, <2>1, <2>2 DEF TypeOK
<1> QED
  BY <1>0, <1>1 DEF WriteToPipe_can_retry, ReadFromPipe_can_retry, DirectionEnded,
       transocks_check_normal_termination, Pumping, flagVars, pumpVars

(* Steps that change nothing but the dropped mark keep the invariant. *)
LEMMA IdleSInv ==
  ASSUME SInv, UNCHANGED <<peerVars, pumpVars, flagVars, client_state, stranded, dropped>>
  PROVE  SInv'
BY DEF SInv, TypeOK, PeersTypeOK, PipeAccounting, NoFalseEof, Unreported, Events, Fresh,
       Pumping, Destroyed, Stranded, peerVars, pumpVars, flagVars

(* The source has ended: the write end of its pipe is closed. *)
LEMMA ReadEofSInv ==
  ASSUME SInv, NEW d \in Dir, client_state = "client_pumping_data",
         WriteToPipe_read_eof(d), UNCHANGED stranded
  PROVE  SInv'
<1>0. /\ TypeOK /\ PeersTypeOK /\ PipeAccounting /\ NoFalseEof /\ Unreported /\ Pumping
      /\ Src(d) \in Side /\ Dst(d) \in Side
  BY DirSides DEF SInv, TypeOK
<1>1. fin[Src(d)] /\ unread[Src(d)] = 0
  BY <1>0 DEF WriteToPipe_read_eof, SpliceInEof, AtEof, Unreported, Destroyed, PeersTypeOK
<1>2. /\ shutdown_read' = [shutdown_read EXCEPT ![Src(d)] = TRUE]
      /\ pipe_writefd' = [pipe_writefd EXCEPT ![d] = "stale"]
      /\ read_ev' = [read_ev EXCEPT ![d] = FALSE]
      /\ UNCHANGED <<shutdown_write, dropped, pipe_readfd, write_active, write_ev,
                     user_arg, client_state, peerVars, pipe, data_in_pipe>>
  BY <1>0 DEF WriteToPipe_read_eof, transocks_check_normal_termination, DirectionEnded,
              Pumping
<1>3. /\ \A s \in Side : shutdown_read'[s] = IF s = Src(d) THEN TRUE ELSE shutdown_read[s]
      /\ \A e \in Dir : pipe_writefd'[e] = IF e = d THEN "stale" ELSE pipe_writefd[e]
  BY <1>0, <1>2 DEF TypeOK
<1>4. PeersTypeOK' /\ PipeAccounting' /\ Unreported'
  BY <1>0, <1>2 DEF peerVars, PeersTypeOK, PipeAccounting, Unreported, Destroyed, Stranded
<1>5. TypeOK'
  BY <1>0, <1>2, <1>4 DEF TypeOK
<1>6. NoFalseEof'
  BY <1>0, <1>2, <1>3, DirSides DEF NoFalseEof, Stranded, peerVars
<1>7. Events' /\ Fresh'
  BY <1>2 DEF Events, Fresh
<1>8. Pumping'
  <2>1. ASSUME NEW e \in Dir
        PROVE  /\ write_ev'[e] /\ ~write_active'[e] /\ ~shutdown_write'[Dst(e)]
               /\ pipe_writefd'[e] # "open" => shutdown_read'[Src(e)]
    <3>1. Src(e) \in Side
      BY DirSides
    <3> QED BY <1>0, <1>2, <1>3, <3>1 DEF Pumping
  <2>2. \A s \in Side : shutdown_read'[s] => fin'[s] /\ unread'[s] = 0
    BY <1>0, <1>1, <1>2, <1>3 DEF Pumping, peerVars
  <2> QED BY <2>1, <2>2 DEF Pumping
<1> QED BY <1>4, <1>5, <1>6, <1>7, <1>8 DEF SInv

(* Splice returned 0 on the pipe of a write event: the source has ended    *)
(* and nothing is left of its stream.                                      *)
LEMMA PipeEnded ==
  ASSUME SInv, NEW d \in Dir, client_state = "client_pumping_data",
         WriteEventReady(d), SpliceOutEof(d)
  PROVE  /\ shutdown_read[Src(d)] /\ fin[Src(d)]
         /\ delivered[Dst(d)] + Stranded(d) = sent[Src(d)]
<1>0. /\ TypeOK /\ PeersTypeOK /\ PipeAccounting /\ Pumping
      /\ Src(d) \in Side /\ Dst(d) \in Side
  BY DirSides DEF SInv, TypeOK
<1>1. pipe[d] = 0
  BY <1>0 DEF SpliceOutEof, PipeAccounting
<1>2. pipe_writefd[d] # "open"
  BY <1>0, <1>1 DEF WriteEventReady, PipeReadable, Pumping
<1>3. shutdown_read[Src(d)] /\ fin[Src(d)] /\ unread[Src(d)] = 0
  BY <1>0, <1>2 DEF Pumping
<1>4. Stranded(d) \in Nat /\ delivered[Dst(d)] \in Nat
  BY <1>0 DEF PeersTypeOK, TypeOK, Stranded
<1>5. sent[Src(d)] = 0 + Stranded(d) + 0 + delivered[Dst(d)]
  BY <1>0, <1>1, <1>3 DEF PipeAccounting
<1>6. delivered[Dst(d)] + Stranded(d) = sent[Src(d)]
  BY <1>4, <1>5, SMTT(20)
<1> QED BY <1>3, <1>6

(* The end of a drained stream is passed on, which frees the connection. *)
LEMMA WriteEofFrees ==
  ASSUME SInv, NEW d \in Dir, client_state = "client_pumping_data",
         WriteEventReady(d), ReadFromPipe_read_eof(d)
  PROVE  /\ transocks_splicepump_free
         /\ shutdown_write' = [shutdown_write EXCEPT ![Dst(d)] = TRUE]
         /\ UNCHANGED <<shutdown_read, peerVars, pipe, data_in_pipe, dropped>>
<1>0. TypeOK /\ Dst(d) \in Side /\ shutdown_read[Src(d)]
  BY DirSides, PipeEnded DEF SInv, ReadFromPipe_read_eof
<1>1. DirectionEnded(d, shutdown_read, [shutdown_write EXCEPT ![Dst(d)] = TRUE])
  BY <1>0 DEF DirectionEnded, TypeOK
<1> QED BY <1>1 DEF ReadFromPipe_read_eof, transocks_check_normal_termination

(* ... and keeps the invariant. *)
LEMMA WriteEofSInv ==
  ASSUME SInv, NEW d \in Dir, client_state = "client_pumping_data",
         WriteEventReady(d), ReadFromPipe_read_eof(d), UNCHANGED stranded
  PROVE  SInv'
<1>0. TypeOK /\ PeersTypeOK /\ PipeAccounting /\ NoFalseEof /\ Dst(d) \in Side
  BY DirSides DEF SInv, TypeOK
<1>1. /\ shutdown_read[Src(d)] /\ fin[Src(d)]
      /\ delivered[Dst(d)] + Stranded(d) = sent[Src(d)]
  BY PipeEnded DEF ReadFromPipe_read_eof
<1>2. /\ transocks_splicepump_free
      /\ shutdown_write' = [shutdown_write EXCEPT ![Dst(d)] = TRUE]
      /\ UNCHANGED <<shutdown_read, peerVars, pipe, data_in_pipe, dropped>>
  BY WriteEofFrees
<1>3. PeersTypeOK' /\ PipeAccounting'
  BY <1>0, <1>2 DEF PeersTypeOK, PipeAccounting, Stranded, peerVars
<1>4. NoFalseEof'
  <2> SUFFICES ASSUME NEW e \in Dir, shutdown_write'[Dst(e)]
               PROVE  /\ shutdown_read[Src(e)] /\ fin[Src(e)]
                      /\ delivered[Dst(e)] + Stranded(e) = sent[Src(e)]
    BY <1>2 DEF NoFalseEof, Stranded, peerVars
  <2>1. e # d => shutdown_write[Dst(e)]
    BY <1>0, <1>2, DirSides DEF TypeOK
  <2> QED BY <1>0, <1>1, <2>1 DEF NoFalseEof
<1>5. shutdown_write' \in [Side -> BOOLEAN]
  BY <1>0, <1>2 DEF TypeOK
<1> QED BY <1>0, <1>2, <1>3, <1>4, <1>5, FreeSInv DEF TypeOK

(* A reset found by splice frees the connection. *)
LEMMA FatalSInv ==
  ASSUME SInv, NEW d \in Dir,
         WriteToPipe_fatal_failure(d) \/ ReadFromPipe_fatal_failure(d), UNCHANGED stranded
  PROVE  SInv'
<1>1. transocks_on_fatal_failure /\ UNCHANGED <<sent, unread, delivered, fin, rst, stalled>>
  BY DEF WriteToPipe_fatal_failure, ReadFromPipe_fatal_failure
<1>2. sockerr' \in [Side -> BOOLEAN]
  BY DirSides DEF WriteToPipe_fatal_failure, ReadFromPipe_fatal_failure, ReportError, SInv,
                  TypeOK, PeersTypeOK
<1>3. PeersTypeOK'
  BY <1>1, <1>2 DEF SInv, TypeOK, PeersTypeOK
<1> QED BY <1>1, <1>3, DropSInv DEF transocks_on_fatal_failure, SInv, TypeOK

(* The peers act on their sockets only. *)
LEMMA PeerSInv ==
  ASSUME SInv, NEW s \in Side, PeerAction(s)
  PROVE  SInv'
<1>0. /\ TypeOK /\ PeersTypeOK /\ PipeAccounting /\ NoFalseEof /\ Unreported /\ Events
      /\ Fresh /\ Pumping /\ ~Destroyed
      /\ UNCHANGED <<pumpVars, flagVars, client_state, stranded, dropped>>
  BY DEF SInv, TypeOK, PeerAction
<1>w. \A t \in Side : ~shutdown_write[t]
  <2>1. CASE client_state = "client_socks5_finish_handshake"
    BY <1>0, <2>1 DEF Fresh
  <2>2. CASE client_state = "client_pumping_data"
    BY <1>0, <2>2, DirSides DEF Pumping
  <2> QED BY <1>0, <2>1, <2>2 DEF TypeOK, Destroyed
<1>e. NoFalseEof' /\ Events' /\ Fresh'
  BY <1>0, <1>w, DirSides DEF NoFalseEof, Events, Fresh, flagVars, pumpVars
<1>1. CASE PeerSend(s)
  <2>1. /\ sent' = [sent EXCEPT ![s] = @ + 1] /\ unread' = [unread EXCEPT ![s] = @ + 1]
        /\ ~fin[s] /\ UNCHANGED <<delivered, fin, rst, sockerr, stalled>>
    BY <1>1 DEF PeerSend
  <2>2. \A t \in Side : /\ sent'[t] = (IF t = s THEN sent[t] + 1 ELSE sent[t])
                        /\ unread'[t] = (IF t = s THEN unread[t] + 1 ELSE unread[t])
    BY <1>0, <2>1 DEF PeersTypeOK
  <2>3. PeersTypeOK'
    BY <1>0, <2>1 DEF PeersTypeOK
  <2>4. TypeOK' /\ Unreported'
    BY <1>0, <2>1, <2>3 DEF TypeOK, Unreported, Destroyed, pumpVars, flagVars
  <2>5. PipeAccounting'
    <3> SUFFICES ASSUME NEW d \in Dir
                 PROVE  /\ data_in_pipe[d] = pipe[d]
                        /\ sent'[Src(d)] = unread'[Src(d)] + Stranded(d) + pipe[d]
                                             + delivered[Dst(d)]
      BY <1>0, <2>1 DEF PipeAccounting, Stranded, pumpVars
    <3>1. /\ sent[Src(d)] \in Nat /\ unread[Src(d)] \in Nat /\ Stranded(d) \in Nat
          /\ pipe[d] \in Nat /\ delivered[Dst(d)] \in Nat /\ data_in_pipe[d] = pipe[d]
          /\ sent[Src(d)] = unread[Src(d)] + Stranded(d) + pipe[d] + delivered[Dst(d)]
      BY <1>0, DirSides, PipeAssumption DEF PeersTypeOK, TypeOK, PipeAccounting, Stranded
    <3>2. sent[Src(d)] + 1 = (unread[Src(d)] + 1) + Stranded(d) + pipe[d] + delivered[Dst(d)]
      BY <3>1, SMTT(20)
    <3>3. CASE Src(d) = s
      <4>1. sent'[Src(d)] = sent[Src(d)] + 1 /\ unread'[Src(d)] = unread[Src(d)] + 1
        BY <2>2, <3>3
      <4> QED BY <3>1, <3>2, <4>1
    <3>4. CASE Src(d) # s
      <4>1. sent'[Src(d)] = sent[Src(d)] /\ unread'[Src(d)] = unread[Src(d)]
        BY <2>2, <3>4, DirSides
      <4> QED BY <3>1, <4>1
    <3> QED BY <3>3, <3>4
  <2>6. Pumping'
    BY <1>0, <2>1, <2>2 DEF Pumping, pumpVars, flagVars
  <2> QED BY <1>e, <2>4, <2>5, <2>6 DEF SInv
<1>2. CASE PeerFin(s) \/ PeerReset(s) \/ PeerStall(s)
  <2>1. UNCHANGED <<sent, unread, delivered>>
    BY <1>2 DEF PeerFin, PeerReset, PeerStall
  <2>2. /\ fin' \in [Side -> BOOLEAN] /\ rst' \in [Side -> BOOLEAN]
        /\ sockerr' \in [Side -> BOOLEAN] /\ stalled' \in [Side -> BOOLEAN]
        /\ \A t \in Side : fin[t] => fin'[t]
    BY <1>0, <1>2 DEF PeerFin, PeerReset, PeerStall, PeersTypeOK
  <2>3. \A t \in Side : rst'[t] => sockerr'[t]
    BY <1>0, <1>2 DEF PeerFin, PeerReset, PeerStall, PeersTypeOK, Unreported
  <2>4. TypeOK' /\ Unreported' /\ PipeAccounting'
    BY <1>0, <2>1, <2>2, <2>3 DEF TypeOK, PeersTypeOK, Unreported, PipeAccounting, Stranded,
                                  pumpVars, flagVars
  <2>5. Pumping'
    BY <1>0, <2>1, <2>2 DEF Pumping, pumpVars, flagVars
  <2> QED BY <1>e, <2>4, <2>5 DEF SInv
<1> QED BY <1>1, <1>2 DEF PeerAction, PeerStep

(* The pump starts, fails to start, or is dropped. *)
LEMMA StartSInv ==
  ASSUME SInv, transocks_splicepump_start_pump
  PROVE  SInv'
<1>0. /\ TypeOK /\ PeersTypeOK /\ PipeAccounting /\ NoFalseEof /\ Unreported /\ Events
      /\ Fresh /\ client_state = "client_socks5_finish_handshake"
  BY DEF SInv, TypeOK, transocks_splicepump_start_pump
<1>1. /\ client_state' = "client_pumping_data" /\ user_arg' = "pump"
      /\ \A d \in Dir : read_ev'[d] /\ write_ev'[d] /\ pipe_writefd'[d] = "open"
      /\ UNCHANGED <<peerVars, pipe, data_in_pipe, flagVars, write_active, stranded, dropped>>
  BY DEF transocks_splicepump_start_pump, transocks_splicepump_new, BothDir, PipeEnds
<1>2. /\ read_ev' \in [Dir -> BOOLEAN] /\ write_ev' \in [Dir -> BOOLEAN]
      /\ pipe_writefd' \in [Dir -> {"none", "open", "stale"}]
      /\ pipe_readfd' \in [Dir -> {"none", "open", "stale"}]
  BY DEF transocks_splicepump_start_pump, BothDir, PipeEnds
<1>3. PeersTypeOK' /\ PipeAccounting' /\ NoFalseEof' /\ Unreported'
  BY <1>0, <1>1 DEF peerVars, PeersTypeOK, PipeAccounting, NoFalseEof, Unreported, Destroyed,
                    Stranded, flagVars
<1>4. TypeOK' /\ Events' /\ Fresh'
  BY <1>0, <1>1, <1>2, <1>3 DEF TypeOK, Events, Fresh, flagVars
<1>5. Pumping'
  BY <1>0, <1>1, DirSides DEF Pumping, Fresh, Events, flagVars
<1> QED BY <1>3, <1>4, <1>5 DEF SInv

(* Failing to start, or being dropped, closes the pipes and loses no count. *)
LEMMA StopSInv ==
  ASSUME SInv, start_pump_fails_early \/ start_pump_fails_late \/ transocks_pump_free
  PROVE  SInv'
<1>0. UNCHANGED <<peerVars, pipe, data_in_pipe, flagVars, stranded>> /\ dropped' = TRUE
  BY DEF start_pump_fails_early, start_pump_fails_late, transocks_pump_free, pumpVars
<1>1. PeersTypeOK' /\ PipeAccounting' /\ NoFalseEof'
  BY <1>0 DEF SInv, TypeOK, PeersTypeOK, PipeAccounting, NoFalseEof, Stranded, flagVars,
              peerVars
<1>2. CASE start_pump_fails_early
  BY <1>0, <1>1, <1>2 DEF start_pump_fails_early, SInv, TypeOK, Unreported, Events, Fresh,
       Pumping, Destroyed, pumpVars, flagVars
<1>3. CASE start_pump_fails_late \/ transocks_pump_free
  BY <1>0, <1>1, <1>3, FreeSInv DEF start_pump_fails_late, transocks_pump_free, SInv, TypeOK,
       flagVars
<1> QED BY <1>2, <1>3

(* An event runs only while data is pumped. *)
LEMMA EventSInv ==
  ASSUME SInv, NEW d \in Dir, ReadEvent(d) \/ WriteEvent(d)
  PROVE  SInv'
<1>0. client_state = "client_pumping_data" /\ UNCHANGED stranded
  BY DEF SInv, Events, ReadEvent, WriteEvent, WriteEventReady
<1>1. CASE ReadEvent(d)
  BY <1>0, <1>1, TransferInSInv, RetryIdle, IdleSInv, ReadEofSInv, FatalSInv
     DEF ReadEvent, transocks_write_to_pipe
<1>2. CASE WriteEvent(d)
  BY <1>0, <1>2, TransferOutSInv, RetryIdle, IdleSInv, WriteEofSInv, FatalSInv
     DEF WriteEvent, transocks_read_from_pipe
<1> QED BY <1>1, <1>2

(* Every callback is one of those events. *)
LEMMA CallbackIsEvent ==
  ASSUME \/ transocks_splicepump_client_readcb \/ transocks_splicepump_relay_writecb
         \/ transocks_splicepump_relay_readcb \/ transocks_splicepump_client_writecb
  PROVE  \E d \in Dir : ReadEvent(d) \/ WriteEvent(d)
BY DEF Dir, transocks_splicepump_client_readcb, transocks_splicepump_relay_writecb,
       transocks_splicepump_relay_readcb, transocks_splicepump_client_writecb

(* Every step keeps the invariant. *)
LEMMA NextSInv == SInv /\ [Next]_vars => SInv'
<1> SUFFICES ASSUME SInv, [Next]_vars PROVE SInv'
  OBVIOUS
<1>1. CASE Next
  BY <1>1, StartSInv, StopSInv, CallbackIsEvent, EventSInv, PeerSInv DEF Next
<1>2. CASE UNCHANGED vars
  BY <1>2, IdleSInv DEF vars
<1> QED BY <1>1, <1>2

(* The inductive invariant. *)
THEOREM SpliceInvariance == Spec => []SInv
BY InitSInv, NextSInv, PTL DEF Spec

(* data_in_pipe is what the pipe holds, and no byte is lost between the    *)
(* sockets, for every pipe capacity.                                       *)
THEOREM PipesAccounted == Spec => []PipeAccounting
<1>1. SInv => PipeAccounting
  BY DEF SInv
<1> QED BY <1>1, SpliceInvariance, PTL

(* transocks_read_from_pipe takes a splice of 0 bytes for the end only     *)
(* when it is the end.                                                     *)
THEOREM EofIsReal == Spec => []NoFalseEof
<1>1. SInv => NoFalseEof
  BY DEF SInv
<1> QED BY <1>1, SpliceInvariance, PTL

-----------------------------------------------------------------------------
(* No wake-up is lost.  A read event is deleted only by                    *)
(* transocks_write_to_pipe at the end of its source, which closes the      *)
(* write end of the pipe in the same call; a pipe without a writer keeps   *)
(* its write event ready until the end is passed on.                       *)

(* Each direction is watched at its source or has lost its writer. *)
Watched ==
  client_state = "client_pumping_data" =>
    \A d \in Dir : read_ev[d] \/ pipe_writefd[d] # "open"

(* No event of the pump is ready: the loop sleeps, as far as this          *)
(* connection is concerned.                                                *)
Asleep ==
  /\ client_state = "client_pumping_data"
  /\ \A d \in Dir : ~(read_ev[d] /\ SocketReadable(Src(d))) /\ ~WriteEventReady(d)

(* Both streams are delivered as far as they were sent, and neither has    *)
(* ended or was reset.                                                     *)
NothingToDo ==
  \A d \in Dir : /\ delivered[Dst(d)] + Stranded(d) = sent[Src(d)]
                 /\ ~fin[Src(d)] /\ ~rst[Src(d)]

(* The tail of both pipe functions. *)
LEMMA TerminationWatched ==
  ASSUME TypeOK, Watched, client_state = "client_pumping_data",
         NEW d \in Dir, NEW sr, NEW sw, NEW wfd, NEW rfd, NEW rev, NEW act,
         transocks_check_normal_termination(d, sr, sw, wfd, rfd, rev, act),
         \/ wfd = pipe_writefd /\ rev = read_ev
         \/ /\ wfd = [pipe_writefd EXCEPT ![d] = "stale"]
            /\ rev = [read_ev EXCEPT ![d] = FALSE]
  PROVE  Watched'
<1>1. CASE DirectionEnded(d, sr, sw)
  BY <1>1 DEF transocks_check_normal_termination, transocks_splicepump_free, Watched
<1>2. CASE ~DirectionEnded(d, sr, sw)
  <2>1. pipe_writefd' = wfd /\ read_ev' = rev /\ UNCHANGED client_state
    BY <1>2 DEF transocks_check_normal_termination
  <2>2. \A e \in Dir : read_ev[e] \/ pipe_writefd[e] # "open"
    BY DEF Watched
  <2>3. \A e \in Dir : rev[e] \/ wfd[e] # "open"
    BY <2>2 DEF TypeOK
  <2> QED BY <2>1, <2>3 DEF Watched
<1> QED BY <1>1, <1>2

(* A callback. *)
LEMMA EventWatched ==
  ASSUME SInv, Watched, NEW d \in Dir, ReadEvent(d) \/ WriteEvent(d)
  PROVE  Watched'
<1>0. client_state = "client_pumping_data" /\ TypeOK
  BY DEF SInv, Events, ReadEvent, WriteEvent, WriteEventReady
<1>1. CASE transocks_on_fatal_failure
  BY <1>1 DEF transocks_on_fatal_failure, transocks_splicepump_free, Watched
<1>2. CASE WriteToPipe_normal_transfer(d)
  BY <1>0, <1>2, TerminationWatched, Zenon DEF WriteToPipe_normal_transfer
<1>3. CASE WriteToPipe_can_retry(d)
  BY <1>0, <1>3, TerminationWatched, Zenon DEF WriteToPipe_can_retry
<1>4. CASE WriteToPipe_read_eof(d)
  BY <1>0, <1>4, TerminationWatched, Zenon DEF WriteToPipe_read_eof
<1>5. CASE ReadFromPipe_normal_transfer(d)
  BY <1>0, <1>5, TerminationWatched, Zenon DEF ReadFromPipe_normal_transfer
<1>6. CASE ReadFromPipe_can_retry(d)
  BY <1>0, <1>6, TerminationWatched, Zenon DEF ReadFromPipe_can_retry
<1>7. CASE ReadFromPipe_read_eof(d)
  BY <1>0, <1>7, TerminationWatched, Zenon DEF ReadFromPipe_read_eof
<1> QED
  BY <1>1, <1>2, <1>3, <1>4, <1>5, <1>6, <1>7
     DEF ReadEvent, WriteEvent, transocks_write_to_pipe, transocks_read_from_pipe,
         WriteToPipe_fatal_failure, ReadFromPipe_fatal_failure

(* Every step keeps the directions watched. *)
LEMMA NextWatched == SInv /\ Watched /\ [Next]_vars => Watched'
<1> SUFFICES ASSUME SInv, Watched, [Next]_vars PROVE Watched'
  OBVIOUS
<1>1. CASE transocks_splicepump_start_pump
  BY <1>1 DEF transocks_splicepump_start_pump, BothDir, Watched
<1>2. CASE start_pump_fails_early \/ start_pump_fails_late \/ transocks_pump_free
  BY <1>2 DEF start_pump_fails_early, start_pump_fails_late, transocks_pump_free,
       transocks_splicepump_free, Watched
<1>3. CASE \E s \in Side : PeerAction(s)
  BY <1>3 DEF PeerAction, pumpVars, Watched
<1>4. CASE UNCHANGED vars
  BY <1>4 DEF vars, pumpVars, Watched
<1> QED BY <1>1, <1>2, <1>3, <1>4, CallbackIsEvent, EventWatched DEF Next

(* With no event ready, the pipes are empty and have their writers, so     *)
(* both sources are watched and have nothing to tell.                      *)
LEMMA AsleepIsIdle == SInv /\ Watched /\ Asleep => NothingToDo
<1> SUFFICES ASSUME SInv, Watched, Asleep, NEW d \in Dir
             PROVE  /\ delivered[Dst(d)] + Stranded(d) = sent[Src(d)]
                    /\ ~fin[Src(d)] /\ ~rst[Src(d)]
  BY DEF NothingToDo
<1>0. Src(d) \in Side /\ Dst(d) \in Side
  BY DirSides
<1>1. ~(pipe[d] > 0) /\ pipe_writefd[d] = "open"
  BY DEF Asleep, WriteEventReady, PipeReadable, SInv, Pumping
<1>2. ~SocketReadable(Src(d))
  BY <1>1 DEF Asleep, Watched
<1>3. pipe[d] = 0 /\ unread[Src(d)] = 0
  <2>1. pipe[d] \in 0 .. PipeCap /\ unread[Src(d)] \in Nat
    BY <1>0 DEF SInv, TypeOK, PeersTypeOK
  <2>2. ~(unread[Src(d)] > 0)
    BY <1>2 DEF SocketReadable
  <2> QED BY <1>1, <2>1, <2>2, PipeAssumption
<1>4. ~rst[Src(d)]
  BY <1>0, <1>2, <1>3 DEF SocketReadable, AtError, SInv, Unreported, Asleep, Destroyed
<1>5. ~fin[Src(d)]
  BY <1>0, <1>2, <1>3, <1>4 DEF SocketReadable, AtEof
<1>6. /\ sent[Src(d)] = unread[Src(d)] + Stranded(d) + pipe[d] + delivered[Dst(d)]
      /\ Stranded(d) \in Nat /\ delivered[Dst(d)] \in Nat
  BY <1>0 DEF SInv, PipeAccounting, TypeOK, PeersTypeOK, Stranded
<1>7. delivered[Dst(d)] + Stranded(d) = sent[Src(d)]
  BY <1>3, <1>6
<1> QED BY <1>4, <1>5, <1>7, Zenon

(* The event loop sleeps on a running splice pump only when every byte     *)
(* that either side sent has reached the other, apart from what the        *)
(* handshake left in relay_bev, and neither side has ended or was reset:   *)
(* no read event and no end is lost.  This is the safety half of           *)
(* EndFreesConnection.                                                     *)
THEOREM SpliceSleepsIdle == Spec => [](Asleep => NothingToDo)
<1>1. Init => Watched
  BY DEF Init, Watched
<1> QED BY <1>1, NextWatched, AsleepIsIdle, SpliceInvariance, PTL DEF Spec

-----------------------------------------------------------------------------
(* The refinement of StreamRelay.  Reading into a pipe is invisible from   *)
(* outside; writing out of it is a Forward to the target of the direction. *)

(* StreamRelay's ends are the sides, and the peer of a target the source. *)
LEMMA RelayEnds ==
  /\ Relay!End = Side
  /\ \A d \in Dir : Dst(d) \in Relay!End /\ Relay!Peer(Dst(d)) = Src(d)
BY DEF Relay!End, Relay!Peer, Side, Dir, Src, Dst

(* Events that close the connection after a reset. *)
LEMMA FatalRefines ==
  ASSUME SInv, NEW d \in Dir, client_state = "client_pumping_data",
         WriteToPipe_fatal_failure(d) \/ ReadFromPipe_fatal_failure(d)
  PROVE  Relay!Abort
<1>1. \E s \in Side : rst[s]
  BY DirSides DEF WriteToPipe_fatal_failure, ReadFromPipe_fatal_failure, SpliceInFails,
                  SpliceOutFails, AtError
<1>2. /\ client_state' = "client_DESTROYED"
      /\ UNCHANGED <<sent, fin, rst, delivered, shutdown_write, dropped>>
  BY DEF WriteToPipe_fatal_failure, ReadFromPipe_fatal_failure, transocks_on_fatal_failure,
         transocks_splicepump_free, flagVars
<1> QED BY <1>1, <1>2, RelayEnds DEF Relay!Abort, Relay!Broken, Destroyed

(* Splicing out of the pipe delivers part of the stream. *)
LEMMA TransferOutRefines ==
  ASSUME SInv, stranded = 0, NEW d \in Dir, client_state = "client_pumping_data",
         ReadFromPipe_normal_transfer(d)
  PROVE  Relay!Forward(Dst(d))
<1>0. /\ TypeOK /\ PeersTypeOK /\ PipeAccounting /\ Pumping
      /\ Src(d) \in Side /\ Dst(d) \in Side
  BY DirSides DEF SInv, TypeOK
<1>1. PICK n \in 1 .. PipeCap :
        /\ SpliceOutTransfers(d, n)
        /\ SocketWrite(Dst(d), n)
        /\ transocks_check_normal_termination(d, shutdown_read, shutdown_write,
             pipe_writefd, pipe_readfd, read_ev, [write_active EXCEPT ![d] = FALSE])
        /\ UNCHANGED <<sent, unread, fin, rst, sockerr, stalled>>
  BY DEF ReadFromPipe_normal_transfer
<1>2. UNCHANGED <<shutdown_write, dropped, client_state>> /\ ~shutdown_write[Dst(d)]
  BY <1>0, <1>1 DEF transocks_check_normal_termination, DirectionEnded, Pumping
<1>3. n \in 1 .. (sent[Src(d)] - delivered[Dst(d)])
  <2>1. /\ sent[Src(d)] \in Nat /\ unread[Src(d)] \in Nat /\ Stranded(d) = 0
        /\ pipe[d] \in Nat /\ delivered[Dst(d)] \in Nat /\ n \in 1 .. pipe[d]
        /\ sent[Src(d)] = unread[Src(d)] + Stranded(d) + pipe[d] + delivered[Dst(d)]
    BY <1>0, <1>1, PipeAssumption DEF PeersTypeOK, TypeOK, PipeAccounting, Stranded,
                                      SpliceOutTransfers
  <2> QED BY <2>1
<1>4. delivered' = [delivered EXCEPT ![Dst(d)] = @ + n]
  BY <1>1 DEF SocketWrite
<1> QED BY <1>1, <1>2, <1>3, <1>4, RelayEnds DEF Relay!Forward, Destroyed

(* Passing on the end of a stream that was delivered in full. *)
LEMMA WriteEofRefines ==
  ASSUME SInv, stranded = 0, NEW d \in Dir, client_state = "client_pumping_data",
         WriteEventReady(d), ReadFromPipe_read_eof(d)
  PROVE  Relay!Forward(Dst(d))
<1>0. TypeOK /\ PeersTypeOK /\ Src(d) \in Side /\ Dst(d) \in Side
  BY DirSides DEF SInv, TypeOK
<1>1. fin[Src(d)] /\ delivered[Dst(d)] = sent[Src(d)]
  <2>1. fin[Src(d)] /\ delivered[Dst(d)] + Stranded(d) = sent[Src(d)]
    BY PipeEnded DEF ReadFromPipe_read_eof
  <2>2. Stranded(d) = 0 /\ delivered[Dst(d)] \in Nat
    BY <1>0 DEF Stranded, PeersTypeOK
  <2>3. delivered[Dst(d)] + 0 = sent[Src(d)]
    BY <2>1, <2>2
  <2>4. \A n \in Nat : n + 0 = n
    OBVIOUS
  <2> QED BY <2>1, <2>2, <2>3, <2>4
<1>2. /\ client_state' = "client_DESTROYED"
      /\ shutdown_write' = [shutdown_write EXCEPT ![Dst(d)] = TRUE]
      /\ UNCHANGED <<sent, fin, rst, delivered, dropped>>
  BY WriteEofFrees DEF transocks_splicepump_free, peerVars
<1>3. Relay!Complete(Dst(d))
  BY <1>1, <1>2, RelayEnds DEF Relay!Complete
<1>4. Relay!MayClose
  BY <1>0, <1>2, RelayEnds DEF Relay!MayClose, TypeOK
<1> QED BY <1>2, <1>3, <1>4, RelayEnds DEF Relay!Forward, Destroyed

(* An event of the pump is a step of the relay or leaves it alone. *)
LEMMA EventRefines ==
  ASSUME SInv, stranded = 0, NEW d \in Dir, ReadEvent(d) \/ WriteEvent(d)
  PROVE  [Relay!RelayNext]_(Relay!relayVars)
<1>0. client_state = "client_pumping_data"
  BY DEF SInv, Events, ReadEvent, WriteEvent, WriteEventReady
<1>f. Relay!Forward(Dst(d)) => Relay!RelayNext
  BY RelayEnds DEF Relay!RelayNext
<1>a. Relay!Abort => Relay!RelayNext
  BY DEF Relay!RelayNext
<1>1. CASE ReadEvent(d) /\ (WriteToPipe_normal_transfer(d) \/ WriteToPipe_read_eof(d))
  <2>1. UNCHANGED <<shutdown_write, client_state, dropped>>
    BY <1>0, <1>1, DirSides DEF SInv, Pumping, WriteToPipe_normal_transfer, WriteToPipe_read_eof,
         transocks_check_normal_termination, DirectionEnded
  <2>2. UNCHANGED <<sent, fin, rst, delivered>>
    BY <1>1 DEF WriteToPipe_normal_transfer, WriteToPipe_read_eof, peerVars
  <2> QED BY <2>1, <2>2 DEF Relay!relayVars, Destroyed
<1>2. CASE WriteToPipe_can_retry(d) \/ ReadFromPipe_can_retry(d)
  <2>1. UNCHANGED <<peerVars, pumpVars, flagVars, client_state, dropped>>
    BY <1>0, <1>2, RetryIdle
  <2> QED BY <2>1 DEF Relay!relayVars, Destroyed, peerVars, flagVars
<1>3. CASE WriteToPipe_fatal_failure(d) \/ ReadFromPipe_fatal_failure(d)
  BY <1>0, <1>3, <1>a, FatalRefines
<1>4. CASE WriteEvent(d) /\ ReadFromPipe_normal_transfer(d)
  BY <1>0, <1>4, <1>f, TransferOutRefines
<1>5. CASE WriteEvent(d) /\ ReadFromPipe_read_eof(d)
  BY <1>0, <1>5, <1>f, WriteEofRefines DEF WriteEvent
<1> QED BY <1>1, <1>2, <1>3, <1>4, <1>5 DEF ReadEvent, WriteEvent,
           transocks_write_to_pipe, transocks_read_from_pipe

(* The other steps. *)
LEMMA OthersRefine ==
  ASSUME SInv, \/ transocks_splicepump_start_pump \/ start_pump_fails_early
               \/ start_pump_fails_late \/ transocks_pump_free
               \/ \E s \in Side : PeerAction(s)
  PROVE  [Relay!RelayNext]_(Relay!relayVars)
<1>1. CASE transocks_splicepump_start_pump
  BY <1>1 DEF transocks_splicepump_start_pump, peerVars, flagVars, Relay!relayVars, Destroyed
<1>2. CASE start_pump_fails_early \/ start_pump_fails_late \/ transocks_pump_free
  <2>1. Relay!Drop
    BY <1>2 DEF Relay!Drop, start_pump_fails_early, start_pump_fails_late,
         transocks_pump_free, transocks_splicepump_free, Destroyed, peerVars, flagVars
  <2> QED BY <2>1 DEF Relay!RelayNext
<1>3. ASSUME NEW s \in Side, PeerAction(s)
      PROVE  [Relay!RelayNext]_(Relay!relayVars)
  <2>1. /\ ~Destroyed /\ Destroyed' = Destroyed /\ PeerStep(s)
        /\ UNCHANGED <<delivered, shutdown_write, dropped>>
    BY <1>3 DEF PeerAction, PeerStep, PeerSend, PeerFin, PeerReset, PeerStall, Destroyed,
                flagVars
  <2>2. CASE PeerStall(s)
    BY <2>1, <2>2 DEF PeerStall, Relay!relayVars
  <2>3. CASE PeerSend(s) \/ PeerFin(s) \/ PeerReset(s)
    <3>1. Relay!EndStep(s)
      BY <2>1, <2>3 DEF PeerSend, PeerFin, PeerReset, Relay!EndStep
    <3> QED BY <3>1, RelayEnds DEF Relay!RelayNext
  <2> QED BY <2>1, <2>2, <2>3 DEF PeerStep
<1> QED BY <1>1, <1>2, <1>3

(***************************************************************************)
(* The splice pump implements StreamRelay without half-close, provided the *)
(* handshake leaves no payload in relay_bev's input buffer.                *)
(***************************************************************************)
THEOREM SpliceRefinesRelay ==
  ASSUME Leftovers = {0}
  PROVE  Spec => RelaySpec
<1>1. Init => Relay!RelayInit /\ stranded = 0
  BY RelayEnds DEF Init, PeersInit, Relay!RelayInit, AllZero, AllFalse, Side, Destroyed
<1>2. stranded = 0 /\ [Next]_vars => (stranded = 0)'
  BY CallbackIsEvent DEF Next, vars, transocks_splicepump_start_pump, start_pump_fails_early,
       start_pump_fails_late, transocks_pump_free, PeerAction, ReadEvent, WriteEvent
<1>3. SInv /\ stranded = 0 /\ [Next]_vars => [Relay!RelayNext]_(Relay!relayVars)
  <2>1. ASSUME SInv, stranded = 0, Next PROVE [Relay!RelayNext]_(Relay!relayVars)
    BY <2>1, CallbackIsEvent, EventRefines, OthersRefine DEF Next
  <2>2. UNCHANGED vars => UNCHANGED Relay!relayVars
    BY DEF vars, peerVars, flagVars, Relay!relayVars, Destroyed
  <2> QED BY <2>1, <2>2
<1>4. Spec => [](stranded = 0)
  BY <1>1, <1>2, PTL DEF Spec
<1> QED BY <1>1, <1>3, <1>4, SpliceInvariance, PTL DEF Spec, RelaySpec, Relay!RelaySpec
=============================================================================
