---------------------------- MODULE StreamRelay ----------------------------
(***************************************************************************)
(* What a data pump promises to the two ends of a connection, whatever it  *)
(* does inside: each direction is a stream that is delivered without loss, *)
(* duplication or invention, its end is announced only after its last      *)
(* byte, and the connection is closed only when the streams have ended,    *)
(* unless an end has reset it or it was dropped locally.                   *)
(*                                                                         *)
(* There is no source for this module: it is the specification the pumps   *)
(* are shown to implement.                                                 *)
(***************************************************************************)
EXTENDS Naturals

CONSTANT HalfClose   \* TRUE: a close waits for both directions to end;
                     \* FALSE: the end of one direction is enough

VARIABLES
  sent,       \* sent[s]: bytes end s has sent
  fin,        \* fin[s]: end s has ended its stream
  rst,        \* rst[s]: end s has reset the connection
  delivered,  \* delivered[s]: bytes handed to end s
  finOut,     \* finOut[s]: end-of-stream announced to end s
  closed,     \* the connection is gone
  dropped     \* ... for a local reason

relayVars == <<sent, fin, rst, delivered, finOut, closed, dropped>>

End == {"client", "relay"}
Peer(s) == IF s = "client" THEN "relay" ELSE "client"

RelayInit ==
  /\ sent \in [End -> Nat]
  /\ fin = [s \in End |-> FALSE]
  /\ rst = [s \in End |-> FALSE]
  /\ delivered = [s \in End |-> 0]
  /\ finOut = [s \in End |-> FALSE]
  /\ closed = FALSE
  /\ dropped = FALSE

(* An end sends, ends its stream or resets: never after its stream ended,  *)
(* except that it may still reset.                                         *)
EndStep(s) ==
  /\ ~closed
  /\ \/ /\ ~fin[s]
        /\ sent' = [sent EXCEPT ![s] = @ + 1]
        /\ UNCHANGED <<fin, rst>>
     \/ /\ fin' = [fin EXCEPT ![s] = TRUE]
        /\ UNCHANGED <<sent, rst>>
     \/ /\ rst' = [rst EXCEPT ![s] = TRUE]
        /\ UNCHANGED <<sent, fin>>
  /\ UNCHANGED <<delivered, finOut, closed, dropped>>

Broken == \E s \in End : rst[s]

Complete(s) == fin[Peer(s)] /\ delivered'[s] = sent[Peer(s)]

MayClose ==
  IF HalfClose THEN \A s \in End : finOut'[s] ELSE \E s \in End : finOut'[s]

(* One step of the pump towards end s: deliver more of the stream, perhaps *)
(* announce its end, perhaps close the connection.                         *)
Forward(s) ==
  /\ ~closed
  /\ \/ UNCHANGED delivered
     \/ /\ ~finOut[s]
        /\ \E n \in 1 .. (sent[Peer(s)] - delivered[s]) :
             delivered' = [delivered EXCEPT ![s] = @ + n]
  /\ \/ UNCHANGED finOut
     \/ /\ Complete(s) \/ Broken
        /\ finOut' = [finOut EXCEPT ![s] = TRUE]
  /\ \/ UNCHANGED closed
     \/ MayClose /\ closed' = TRUE
  /\ UNCHANGED <<sent, fin, rst, dropped>>

Abort ==
  /\ ~closed
  /\ Broken
  /\ closed' = TRUE
  /\ UNCHANGED <<sent, fin, rst, delivered, finOut, dropped>>

Drop ==
  /\ ~closed
  /\ closed' = TRUE
  /\ dropped' = TRUE
  /\ UNCHANGED <<sent, fin, rst, delivered, finOut>>

RelayNext == (\E s \in End : EndStep(s) \/ Forward(s)) \/ Abort \/ Drop

RelaySpec == RelayInit /\ [][RelayNext]_relayVars
=============================================================================
