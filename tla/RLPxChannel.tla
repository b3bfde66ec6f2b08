---------------------------- MODULE RLPxChannel ----------------------------
(***************************************************************************)
(* What the frame codec promises its callers (spec section 4.3 and the    *)
(* Failures of section 7): each direction of a connection is a FIFO        *)
(* channel of messages.  The reader gets the messages the writer sent,     *)
(* each once and in order, until its channel fails; once failed it gets    *)
(* nothing more.  A channel fails only when its deadline expires or once  *)
(* the network has altered, dropped, replayed or reordered its bytes; a   *)
(* channel that has not failed eventually delivers what was sent.          *)
(* RLPxFrame implements it (RLPxFrame!ChannelRefined).                     *)
(***************************************************************************)
EXTENDS Naturals, Sequences

CONSTANT Msg   \* the messages writers send

VARIABLES
  sent,       \* [Roles -> Seq(Msg)]: messages each end has sent
  delivered,  \* [Roles -> Seq(Msg)]: messages each end has received
  failed,     \* [Roles -> {"none", "timeout", "broken"}]: why each end's reading failed
  tampered    \* the network has interfered with the connection's bytes

vars == <<sent, delivered, failed, tampered>>

Roles == {"ini", "rcv"}
Peer(r) == IF r = "ini" THEN "rcv" ELSE "ini"

Init ==
  /\ sent = [r \in Roles |-> <<>>]
  /\ delivered = [r \in Roles |-> <<>>]
  /\ failed = [r \in Roles |-> "none"]
  /\ tampered = FALSE

Send(r, m) ==
  /\ sent' = [sent EXCEPT ![r] = Append(@, m)]
  /\ UNCHANGED <<delivered, failed, tampered>>

(* r receives the next message its peer sent *)
Deliver(r) ==
  /\ failed[r] = "none"
  /\ Len(delivered[r]) < Len(sent[Peer(r)])
  /\ delivered' = [delivered EXCEPT ![r] = Append(@, sent[Peer(r)][Len(@) + 1])]
  /\ UNCHANGED <<sent, failed, tampered>>

(* The network alters, drops, replays or reorders bytes *)
Tamper ==
  /\ ~tampered
  /\ tampered' = TRUE
  /\ UNCHANGED <<sent, delivered, failed>>

(* r's channel breaks: its deadline expires, or a corrupted, forged or    *)
(* missing frame is detected after the network interfered                 *)
Fail(r, why) ==
  /\ failed[r] = "none"
  /\ why = "broken" => tampered
  /\ failed' = [failed EXCEPT ![r] = why]
  /\ UNCHANGED <<sent, delivered, tampered>>

Next ==
  \/ Tamper
  \/ \E r \in Roles : \/ \E m \in Msg : Send(r, m)
                     \/ Deliver(r)
                     \/ \E why \in {"timeout", "broken"} : Fail(r, why)

SafetySpec == Init /\ [][Next]_vars

Spec == Init /\ [][Next]_vars /\ \A r \in Roles : WF_vars(Deliver(r))

=============================================================================
