--------------------------- MODULE RLPxTransport ---------------------------
(***************************************************************************)
(* The transport wrapper rlpx of src/p2p/rlpx.go around one connection     *)
(* after the encryption handshake: doProtoHandshake with its write         *)
(* goroutine and the one-slot werr channel, readProtocolHandshake, the     *)
(* snappy switch, the protocol writers serialised by wmu, the read loop,   *)
(* and close, which sends a disconnect frame under wmu before closing the  *)
(* fd.  The caller (the server, outside src/) may close the connection     *)
(* with a disconnect reason before the protocol handshake, after it, or    *)
(* after doProtoHandshake fails.                                           *)
(*                                                                         *)
(* The frame codec (RLPxFrame) is abstracted to whole frames: a frame is   *)
(* a message record, or "broken" when a write failed after some of its     *)
(* bytes.  A frame is written in two steps, so that two writers on one fd  *)
(* can overlap.                                                            *)
(***************************************************************************)
EXTENDS Naturals, Sequences, FiniteSets

CONSTANTS
  Versions,       \* protoHandshake.Version the two builds advertise
  SnappyVersion,  \* snappyProtocolVersion
  MaxData,        \* frames the protocols write on each side, at most
  None            \* absent value

ASSUME MaxData \in Nat

Roles == {"ini", "rcv"}
Peer(r) == IF r = "ini" THEN "rcv" ELSE "ini"

VARIABLES
  ver,       \* [Roles -> Versions]: our protoHandshake.Version
  pc,        \* [Roles -> program point of the connection's owner]
  hsw,       \* [Roles -> state of doProtoHandshake's write goroutine]
  werr,      \* [Roles -> "empty", or the value in the werr channel]
  rerr,      \* [Roles -> error readProtocolHandshake returned, or "none"]
  their,     \* [Roles -> their protoHandshake.Version, or None]
  result,    \* [Roles -> what doProtoHandshake returned, or "none"]
  snappy,    \* [Roles -> rw.snappy]
  wmu,       \* [Roles -> holder of t.wmu, or "free"]
  writing,   \* [Roles -> writers with a frame in progress on the fd]
  wire,      \* [Roles -> Seq(frame)]: frames in flight to that role
  closed,    \* [Roles -> the fd is closed]
  sentData,  \* [Roles -> protocol frames WriteMsg was called for]
  rstop,     \* [Roles -> the read loop after the handshake has ended]
  discSent   \* [Roles -> close chose to send a disconnect frame]

vars == <<ver, pc, hsw, werr, rerr, their, result, snappy, wmu, writing, wire,
          closed, sentData, rstop, discSent>>

Frame(kind, v, comp) == [kind |-> kind, ver |-> v, comp |-> comp]
Broken == Frame("broken", None, FALSE)

(* doProtoHandshake: their.Version >= snappyProtocolVersion *)
SnappyOn(v) == v >= SnappyVersion

(* Append a frame to the stream towards role r unless r has closed its fd *)
Send(r, f) == IF closed[r] THEN wire ELSE [wire EXCEPT ![r] = Append(@, f)]

Init ==
  /\ ver \in [Roles -> Versions]
  /\ pc = [r \in Roles |-> "start"]
  /\ hsw = [r \in Roles |-> "idle"]
  /\ werr = [r \in Roles |-> "empty"]
  /\ rerr = [r \in Roles |-> "none"]
  /\ their = [r \in Roles |-> None]
  /\ result = [r \in Roles |-> "none"]
  /\ snappy = [r \in Roles |-> FALSE]
  /\ wmu = [r \in Roles |-> "free"]
  /\ writing = [r \in Roles |-> {}]
  /\ wire = [r \in Roles |-> <<>>]
  /\ closed = [r \in Roles |-> FALSE]
  /\ sentData = [r \in Roles |-> 0]
  /\ rstop = [r \in Roles |-> FALSE]
  /\ discSent = [r \in Roles |-> FALSE]

-----------------------------------------------------------------------------
(* doProtoHandshake: go func() { werr <- Send(t.rw, handshakeMsg, our) }(), *)
(* then readProtocolHandshake on the calling goroutine.                    *)
Start(r) ==
  /\ pc[r] = "start"
  /\ pc' = [pc EXCEPT ![r] = "read"]
  /\ hsw' = [hsw EXCEPT ![r] = "writing"]
  /\ writing' = [writing EXCEPT ![r] = @ \cup {"hsw"}]
  /\ UNCHANGED <<ver, werr, rerr, their, result, snappy, wmu, wire, closed,
                 sentData, rstop, discSent>>

(* Mutant: only a failed write is reported on the werr channel. *)
HswDoneSilent(r) ==
  /\ hsw[r] = "writing"
  /\ ~closed[r] /\ ~closed[Peer(r)]
  /\ wire' = Send(Peer(r), Frame("hs", ver[r], snappy[r]))
  /\ hsw' = [hsw EXCEPT ![r] = "done"]
  /\ writing' = [writing EXCEPT ![r] = @ \ {"hsw"}]
  /\ UNCHANGED <<ver, pc, werr, rerr, their, result, snappy, wmu, closed, sentData,
                 rstop, discSent>>

(* The goroutine's Send returns nil: the frame is on the wire. *)
HswDone(r) ==
  /\ hsw[r] = "writing"
  /\ ~closed[r] /\ ~closed[Peer(r)]
  /\ wire' = Send(Peer(r), Frame("hs", ver[r], snappy[r]))
  /\ hsw' = [hsw EXCEPT ![r] = "done"]
  /\ werr' = [werr EXCEPT ![r] = "nil"]
  /\ writing' = [writing EXCEPT ![r] = @ \ {"hsw"}]
  /\ UNCHANGED <<ver, pc, rerr, their, result, snappy, wmu, closed, sentData,
                 rstop, discSent>>

(* The goroutine's Send fails (the peer has gone, or the handshake deadline *)
(* expired), possibly after part of the frame was written.                 *)
HswFail(r) ==
  /\ hsw[r] = "writing"
  /\ \E partial \in BOOLEAN :
       wire' = IF partial THEN Send(Peer(r), Broken) ELSE wire
  /\ hsw' = [hsw EXCEPT ![r] = "done"]
  /\ werr' = [werr EXCEPT ![r] = "err"]
  /\ writing' = [writing EXCEPT ![r] = @ \ {"hsw"}]
  /\ UNCHANGED <<ver, pc, rerr, their, result, snappy, wmu, closed, sentData,
                 rstop, discSent>>

ReadTo(r, next, e, v) ==
  /\ pc' = [pc EXCEPT ![r] = next]
  /\ rerr' = [rerr EXCEPT ![r] = e]
  /\ their' = [their EXCEPT ![r] = v]

(* readProtocolHandshake: a disconnect frame returns its reason, a frame   *)
(* that is not the handshake (or fails to decode) an error, the handshake  *)
(* its version.                                                            *)
ReadHs(r) ==
  LET f == Head(wire[r])
  IN /\ pc[r] = "read"
     /\ wire[r] # <<>>
     /\ wire' = [wire EXCEPT ![r] = Tail(@)]
     /\ \/ f.kind = "hs" /\ ReadTo(r, "joinOK", "none", f.ver)
        \/ f.kind = "disc" /\ ReadTo(r, "joinErr", "disc", None)
        \/ f.kind \notin {"hs", "disc"} /\ ReadTo(r, "joinErr", "read", None)
     /\ UNCHANGED <<ver, hsw, werr, result, snappy, wmu, writing, closed, sentData,
                    rstop, discSent>>

(* rw.ReadMsg fails: EOF from a closed and drained peer. *)
ReadEOF(r) ==
  /\ pc[r] = "read"
  /\ wire[r] = <<>> /\ closed[Peer(r)]
  /\ ReadTo(r, "joinErr", "read", None)
  /\ UNCHANGED <<ver, hsw, werr, result, snappy, wmu, writing, wire, closed,
                 sentData, rstop, discSent>>

(* rw.ReadMsg fails: the handshake deadline set by newRLPX expires. *)
ReadDeadline(r) ==
  /\ pc[r] = "read"
  /\ ReadTo(r, "joinErr", "read", None)
  /\ UNCHANGED <<ver, hsw, werr, result, snappy, wmu, writing, wire, closed,
                 sentData, rstop, discSent>>

Return(r, next, res) ==
  /\ pc' = [pc EXCEPT ![r] = next]
  /\ result' = [result EXCEPT ![r] = res]
  /\ werr' = [werr EXCEPT ![r] = "empty"]

(* Mutant: the read error path returns without <-werr. *)
JoinErrNoWait(r) ==
  /\ pc[r] = "joinErr"
  /\ pc' = [pc EXCEPT ![r] = "ret"]
  /\ result' = [result EXCEPT ![r] = rerr[r]]
  /\ UNCHANGED <<ver, hsw, werr, rerr, their, snappy, wmu, writing, wire, closed,
                 sentData, rstop, discSent>>

(* Mutant: the write error is preferred over the read error. *)
JoinErrWerrFirst(r) ==
  /\ pc[r] = "joinErr"
  /\ werr[r] # "empty"
  /\ Return(r, "ret", IF werr[r] = "err" THEN "write" ELSE rerr[r])
  /\ UNCHANGED <<ver, hsw, rerr, their, snappy, wmu, writing, wire, closed,
                 sentData, rstop, discSent>>

(* doProtoHandshake after a read error: <-werr, then the read error *)
JoinErr(r) ==
  /\ pc[r] = "joinErr"
  /\ werr[r] # "empty"
  /\ Return(r, "ret", rerr[r])
  /\ UNCHANGED <<ver, hsw, rerr, their, snappy, wmu, writing, wire, closed,
                 sentData, rstop, discSent>>

(* Mutant: the write error is returned unwrapped, as the channel holds it. *)
JoinOKRaw(r) ==
  /\ pc[r] = "joinOK"
  /\ werr[r] # "empty"
  /\ \/ /\ werr[r] = "err"
        /\ Return(r, "ret", werr[r])
        /\ UNCHANGED snappy
     \/ /\ werr[r] = "nil"
        /\ Return(r, "up", "ok")
        /\ snappy' = [snappy EXCEPT ![r] = SnappyOn(their[r])]
  /\ UNCHANGED <<ver, hsw, rerr, their, wmu, writing, wire, closed, sentData,
                 rstop, discSent>>

(* doProtoHandshake after their handshake: <-werr, then the snappy switch *)
JoinOK(r) ==
  /\ pc[r] = "joinOK"
  /\ werr[r] # "empty"
  /\ \/ /\ werr[r] = "err"
        /\ Return(r, "ret", "write")
        /\ UNCHANGED snappy
     \/ /\ werr[r] = "nil"
        /\ Return(r, "up", "ok")
        /\ snappy' = [snappy EXCEPT ![r] = SnappyOn(their[r])]
  /\ UNCHANGED <<ver, hsw, rerr, their, wmu, writing, wire, closed, sentData,
                 rstop, discSent>>

-----------------------------------------------------------------------------
(* close(err) as the caller invokes it: before doProtoHandshake (the       *)
(* post-handshake checks failed), after it failed, or on a live            *)
(* connection.  A disconnect frame is sent iff err is a DiscReason: after  *)
(* a failed doProtoHandshake that is the reason readProtocolHandshake      *)
(* returned; elsewhere the caller's error is either.                      *)
IsDiscReason(r) == IF pc[r] = "ret" THEN {result[r] = "disc"} ELSE BOOLEAN

Close(r) ==
  /\ pc[r] \in {"start", "ret", "up"}
  /\ wmu[r] = "free"
  /\ \E disc \in IsDiscReason(r) :
       /\ discSent' = [discSent EXCEPT ![r] = disc]
       /\ IF disc
            THEN /\ pc' = [pc EXCEPT ![r] = "sending"]
                 /\ wmu' = [wmu EXCEPT ![r] = "close"]
                 /\ writing' = [writing EXCEPT ![r] = @ \cup {"close"}]
                 /\ UNCHANGED closed
            ELSE /\ pc' = [pc EXCEPT ![r] = "closed"]
                 /\ closed' = [closed EXCEPT ![r] = TRUE]
                 /\ UNCHANGED <<wmu, writing>>
  /\ UNCHANGED <<ver, hsw, werr, rerr, their, result, snappy, wire, sentData,
                 rstop>>

(* close: SendItems(t.rw, discMsg, r) returns, then t.fd.Close() and the   *)
(* deferred wmu.Unlock().                                                  *)
CloseDone(r) ==
  /\ pc[r] = "sending"
  /\ wire' = Send(Peer(r), Frame("disc", None, snappy[r]))
  /\ pc' = [pc EXCEPT ![r] = "closed"]
  /\ closed' = [closed EXCEPT ![r] = TRUE]
  /\ wmu' = [wmu EXCEPT ![r] = "free"]
  /\ writing' = [writing EXCEPT ![r] = @ \ {"close"}]
  /\ UNCHANGED <<ver, hsw, werr, rerr, their, result, snappy, sentData, rstop,
                 discSent>>

(* rlpx.WriteMsg from a protocol goroutine: wmu.Lock(), then the frame. *)
ProtoWriteBegin(r) ==
  /\ pc[r] = "up"
  /\ wmu[r] = "free"
  /\ sentData[r] < MaxData
  /\ wmu' = [wmu EXCEPT ![r] = "proto"]
  /\ writing' = [writing EXCEPT ![r] = @ \cup {"proto"}]
  /\ sentData' = [sentData EXCEPT ![r] = @ + 1]
  /\ UNCHANGED <<ver, pc, hsw, werr, rerr, their, result, snappy, wire, closed,
                 rstop, discSent>>

(* rw.WriteMsg compresses iff rw.snappy; the deferred wmu.Unlock(). *)
ProtoWriteEnd(r) ==
  /\ wmu[r] = "proto"
  /\ wire' = Send(Peer(r), Frame("data", None, snappy[r]))
  /\ wmu' = [wmu EXCEPT ![r] = "free"]
  /\ writing' = [writing EXCEPT ![r] = @ \ {"proto"}]
  /\ UNCHANGED <<ver, pc, hsw, werr, rerr, their, result, snappy, closed,
                 sentData, rstop, discSent>>

(* rlpx.ReadMsg in the read loop of an established connection.  A frame   *)
(* compressed otherwise than rw.snappy expects is returned garbled, or,    *)
(* when rw.snappy is set, fails snappy decoding and ends the loop; a       *)
(* disconnect or a broken frame ends it too.                               *)
ReadUp(r) ==
  LET f == Head(wire[r])
      mismatch == f.comp # snappy[r]
  IN /\ result[r] = "ok" /\ ~closed[r] /\ ~rstop[r]
     /\ wire[r] # <<>>
     /\ wire' = [wire EXCEPT ![r] = Tail(@)]
     /\ rstop' = [rstop EXCEPT ![r] = f.kind # "data" \/ (mismatch /\ snappy[r])]
     /\ UNCHANGED <<ver, pc, hsw, werr, rerr, their, result, snappy, wmu, writing,
                    closed, sentData, discSent>>

(* Both ends have closed their fds: the connection is over. *)
Finished ==
  /\ \A r \in Roles : pc[r] = "closed"
  /\ UNCHANGED vars

Next ==
  \/ Finished
  \/ \E r \in Roles :
       \/ Start(r) \/ HswDone(r) \/ HswFail(r)
       \/ ReadHs(r) \/ ReadEOF(r) \/ ReadDeadline(r)
       \/ JoinErr(r) \/ JoinOK(r)
       \/ Close(r) \/ CloseDone(r)
       \/ ProtoWriteBegin(r) \/ ProtoWriteEnd(r) \/ ReadUp(r)

(* Fair: the goroutines and the handshake path, which run to completion   *)
(* once started; the handshake deadline, which newRLPX sets on the fd as   *)
(* an absolute time 5s ahead, so a handshake read always ends; and the    *)
(* caller's close after a failed doProtoHandshake.  Not fair: a close of  *)
(* a live connection and the protocols' decision to write.                *)
Fairness ==
  \A r \in Roles :
    /\ WF_vars(Start(r))
    /\ WF_vars(HswDone(r) \/ HswFail(r))
    /\ WF_vars(ReadHs(r)) /\ WF_vars(ReadEOF(r)) /\ WF_vars(ReadDeadline(r))
    /\ WF_vars(JoinErr(r)) /\ WF_vars(JoinOK(r))
    /\ WF_vars(pc[r] = "ret" /\ Close(r))
    /\ WF_vars(CloseDone(r)) /\ WF_vars(ProtoWriteEnd(r))

Spec == Init /\ [][Next]_vars /\ Fairness

-----------------------------------------------------------------------------
Errors == {"none", "disc", "read"}
Results == {"none", "ok", "disc", "read", "write"}
Kinds == {"hs", "disc", "data", "broken"}

TypeOK ==
  /\ ver \in [Roles -> Versions]
  /\ pc \in [Roles -> {"start", "read", "joinErr", "joinOK", "ret", "up",
                        "sending", "closed"}]
  /\ hsw \in [Roles -> {"idle", "writing", "done"}]
  /\ werr \in [Roles -> {"empty", "nil", "err"}]
  /\ rerr \in [Roles -> Errors]
  /\ their \in [Roles -> Versions \cup {None}]
  /\ result \in [Roles -> Results]
  /\ snappy \in [Roles -> BOOLEAN]
  /\ wmu \in [Roles -> {"free", "close", "proto"}]
  /\ writing \in [Roles -> SUBSET {"hsw", "close", "proto"}]
  /\ \A r \in Roles : \A i \in 1..Len(wire[r]) :
       wire[r][i] \in [kind : Kinds, ver : Versions \cup {None}, comp : BOOLEAN]
  /\ closed \in [Roles -> BOOLEAN]
  /\ sentData \in [Roles -> 0..MaxData]
  /\ rstop \in [Roles -> BOOLEAN]
  /\ discSent \in [Roles -> BOOLEAN]

(* Frames are never interleaved on one fd: the handshake goroutine, close *)
(* and the protocol writers never have a frame in progress at once.  The   *)
(* goroutine takes no lock; only doProtoHandshake's <-werr on both return  *)
(* paths keeps close from writing beside it.                               *)
FramesNotInterleaved == \A r \in Roles : Cardinality(writing[r]) <= 1

(* A peer that closes the connection with a disconnect reason before its  *)
(* protocol handshake makes our doProtoHandshake return that reason (or a  *)
(* read error, if our deadline fired first), never the error of our own   *)
(* handshake write, which fails at the same time: "we prefer returning the *)
(* handshake read error".                                                  *)
EarlyDiscReported ==
  \A r \in Roles :
    (result[Peer(r)] = "none" /\ discSent[Peer(r)] /\ result[r] # "none")
      => result[r] \in {"disc", "read"}

(* The comment in readProtocolHandshake: a disconnect reason received     *)
(* before the protocol handshake is not returned as a DiscReason, "because *)
(* it is echoed back otherwise"; so close never answers a disconnect frame *)
(* that doProtoHandshake read with a disconnect frame of its own.          *)
NoDiscEcho == \A r \in Roles : result[r] = "disc" => ~discSent[r]

(* Every call of doProtoHandshake returns: neither the read of their      *)
(* handshake nor either <-werr blocks forever, whatever the peer does.     *)
HandshakeReturns ==
  \A r \in Roles :
    pc[r] = "read" ~> pc[r] \notin {"read", "joinErr", "joinOK"}

=============================================================================
