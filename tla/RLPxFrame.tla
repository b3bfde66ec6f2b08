----------------------------- MODULE RLPxFrame -----------------------------
(***************************************************************************)
(* The frame codec rlpxFrameRW of src/p2p/rlpx.go, both directions of one  *)
(* connection, after a handshake whose secrets agree (RLPxHandshake's      *)
(* KeyAgreement): the writer's egress MAC seed is the reader's ingress     *)
(* seed.  The network between the two ends may drop, replay, reorder and   *)
(* tamper with the parts of frames, a bounded number of times.             *)
(*                                                                         *)
(* A frame on the wire is three chunks, written by WriteMsg and read by    *)
(* ReadMsg with three io.ReadFull calls: the 32-byte header block (the     *)
(* encrypted 16-byte header and its MAC), the encrypted body rounded up to *)
(* the block size, and the 16-byte frame MAC.                              *)
(*                                                                         *)
(* Symbolic cryptography: the AES-CTR keystream is a byte position, so a   *)
(* ciphertext is its plaintext tagged with the position it was encrypted   *)
(* at; a Keccak MAC state is the sequence of what it has absorbed and its  *)
(* digest is that sequence, so updateMAC(mac, seed) appends the seed, and  *)
(* a tag matches only the state that produced it.  Sizes are scaled: the   *)
(* 24-bit frame length, the uint32 message size and the 16-byte AES block  *)
(* are LenMax, SizeMod and Block.                                          *)
(***************************************************************************)
EXTENDS Naturals, Sequences, SequencesExt

CONSTANTS
  Codes,       \* message codes the protocols write
  Sizes,       \* payload sizes (msg.Size) the protocols write
  MaxMsgs,     \* messages each side writes, at most
  LenMax,      \* maxUint24 = 2^24 - 1
  SizeMod,     \* 2^32: msg.Size and fsize are uint32
  Block,       \* 16: AES block size, header size and body padding unit
  MaxAttacks   \* interventions of the network adversary, at most

ASSUME \E b \in 1..(LenMax + 1) : b * b * b = LenMax + 1
ASSUME LenMax < SizeMod /\ Block > 0 /\ MaxMsgs \in Nat /\ MaxAttacks \in Nat

Roles == {"ini", "rcv"}
Peer(r) == IF r = "ini" THEN "rcv" ELSE "ini"

VARIABLES
  snappy,     \* rw.snappy, set once by doProtoHandshake, the same on both ends
  encPos,     \* [Roles -> Nat]: keystream position of rw.enc
  decPos,     \* [Roles -> Nat]: keystream position of rw.dec
  egressMAC,  \* [Roles -> Seq]: absorbed by rw.egressMAC
  ingressMAC, \* [Roles -> Seq]: absorbed by rw.ingressMAC
  wire,       \* [Roles -> Seq(chunk)]: bytes in flight to that role
  sent,       \* [Roles -> Seq(msg)]: messages WriteMsg returned nil for
  rejected,   \* [Roles -> Seq(msg)]: messages WriteMsg returned an error for
  delivered,  \* [Roles -> Seq(msg)]: messages ReadMsg returned
  readErr,    \* [Roles -> error of ReadMsg, or "none"]
  log,        \* every chunk ever written, in either direction
  attacks     \* interventions of the adversary so far

vars == <<snappy, encPos, decPos, egressMAC, ingressMAC, wire, sent, rejected,
          delivered, readErr, log, attacks>>

(* rlp.EncodeToBytes(msg.Code): one byte below 0x80, a length prefix above *)
PtypeLen(code) == IF code < 128 THEN 1 ELSE 2

(* Mutant: padding one byte too long. *)
PaddingLong(fsize) == IF fsize % Block > 0 THEN Block - (fsize % Block) + 1 ELSE 0

(* The zero padding WriteMsg appends and ReadMsg skips *)
Padding(fsize) == IF fsize % Block > 0 THEN Block - (fsize % Block) ELSE 0

(* AES-CTR: XORKeyStream at a keystream position *)
Encrypt(pt, pos) == [pt |-> pt, pos |-> pos, flipped |-> FALSE]
(* Decrypting at another position, or a modified ciphertext, gives noise. *)
Decrypt(ct, pos, noise) == IF ~ct.flipped /\ ct.pos = pos THEN ct.pt ELSE noise
(* What ReadMsg parses when the bytes it reads are not the chunk it expects *)
Garbled == [pt |-> <<>>, pos |-> 0, flipped |-> TRUE]
GarbledTag == <<<<"garbled">>>>
NoiseHeader == [fsize |-> <<0, 0, 0>>]
NoiseBody == [msg |-> [id |-> 0, code |-> 0, size |-> 0], compressed |-> FALSE]

(* updateMAC: absorb the whitened seed, return the first 16 digest bytes.  *)
(* The whitening AES(macCipher, Sum(mac)) is a function of the state, so   *)
(* absorbing the seed stands for absorbing the whitened block.             *)
UpdateMAC(mac, seed) == Append(mac, seed)

Seed(r) == <<"seed", r>>

(* The byte: three of them hold the 24-bit frame length, LenMax + 1 = ByteMod^3 *)
ByteMod == CHOOSE b \in 1..(LenMax + 1) : b * b * b = LenMax + 1

(* putInt24: the three low bytes of v, most significant first, each byte() *)
(* conversion keeping the low 8 bits of the shifted value                   *)
PutInt24(v) == <<(v \div (ByteMod * ByteMod)) % ByteMod, (v \div ByteMod) % ByteMod, v % ByteMod>>

(* readInt24: the big-endian value of the first three header bytes *)
ReadInt24(b) == (b[1] * ByteMod + b[2]) * ByteMod + b[3]

Init ==
  /\ snappy \in BOOLEAN
  /\ encPos = [r \in Roles |-> 0]
  /\ decPos = [r \in Roles |-> 0]
  /\ egressMAC = [r \in Roles |-> <<Seed(r)>>]
  /\ ingressMAC = [r \in Roles |-> <<Seed(Peer(r))>>]
  /\ wire = [r \in Roles |-> <<>>]
  /\ sent = [r \in Roles |-> <<>>]
  /\ rejected = [r \in Roles |-> <<>>]
  /\ delivered = [r \in Roles |-> <<>>]
  /\ readErr = [r \in Roles |-> "none"]
  /\ log = {}
  /\ attacks = 0

-----------------------------------------------------------------------------
(* Mutant: the header length accepted one past maxUint24. *)
FitsUint24Loose(fsize) == fsize <= LenMax + 1
(* WriteMsg: fsize > maxUint24 is "message size overflows uint24" *)
FitsUint24(fsize) == fsize <= LenMax

(* snappy.Encode: a compressible payload shrinks, an incompressible one   *)
(* grows by its length header.                                            *)
PayloadLens(size, compress) == IF compress THEN {size \div 2 + 1, size + 1} ELSE {size}

Written(r) == Len(sent[r]) + Len(rejected[r])

Reject(r, msg) ==
  /\ rejected' = [rejected EXCEPT ![r] = Append(@, msg)]
  /\ UNCHANGED <<snappy, encPos, decPos, egressMAC, ingressMAC, wire, sent,
                 delivered, readErr, log, attacks>>

(* WriteMsg from the fsize sum on, for a payload of plen bytes: the header, *)
(* encrypted then absorbed by updateMAC, the body through the tee of the   *)
(* stream cipher into conn and egressMAC with its zero padding, and the    *)
(* frame MAC over the digest so far.                                       *)
WriteFrame(r, msg, plen) ==
  LET fsize == (PtypeLen(msg.code) + plen) % SizeMod
      bodyLen == PtypeLen(msg.code) + plen + Padding(fsize)
      headCT == Encrypt([fsize |-> PutInt24(fsize)], encPos[r])
      h1 == UpdateMAC(egressMAC[r], <<"hdr", headCT>>)
      bodyCT == Encrypt([msg |-> msg, compressed |-> snappy], encPos[r] + Block)
      h2 == Append(h1, <<"body", bodyCT>>)
      h3 == UpdateMAC(h2, <<"fmac">>)
      frame == <<[kind |-> "head", ct |-> headCT, mac |-> h1],
                 [kind |-> "body", ct |-> bodyCT, len |-> bodyLen],
                 [kind |-> "tail", mac |-> h3]>>
  IN \/ /\ ~FitsUint24(fsize)
        /\ Reject(r, msg)
     \/ /\ FitsUint24(fsize)
        /\ encPos' = [encPos EXCEPT ![r] = @ + Block + bodyLen]
        /\ egressMAC' = [egressMAC EXCEPT ![r] = h3]
        /\ wire' = [wire EXCEPT ![Peer(r)] = @ \o frame]
        /\ log' = log \cup ToSet(frame)
        /\ sent' = [sent EXCEPT ![r] = Append(@, msg)]
        /\ UNCHANGED <<snappy, decPos, ingressMAC, rejected, delivered, readErr, attacks>>

(* rlpxFrameRW.WriteMsg: with snappy, the uncompressed size check and the *)
(* compression, then the frame.                                           *)
WriteMsg(r, code, size) ==
  LET msg == [id |-> Written(r) + 1, code |-> code, size |-> size]
  IN /\ Written(r) < MaxMsgs
     /\ \/ /\ snappy /\ size > LenMax
           /\ Reject(r, msg)
        \/ /\ ~snappy \/ size <= LenMax
           /\ \E plen \in PayloadLens(size, snappy) : WriteFrame(r, msg, plen)

-----------------------------------------------------------------------------
(* Mutant: the header and frame MACs not compared. *)
MACEqualAlways(a, b) == TRUE
(* hmac.Equal: with symbolic MACs, a tag equals the state it was made from *)
MACEqual(a, b) == a = b

(* ReadMsg: rsize, the frame size rounded up to the 16 byte boundary *)
RoundUp(fsize) == fsize + Padding(fsize)

(* ReadMsg returns an error after consuming n chunks; the MAC keeps what  *)
(* updateMAC absorbed before the check.  The caller drops the connection, *)
(* so the reader reads no more.                                           *)
ReadFail(r, e, n, mac) ==
  /\ readErr' = [readErr EXCEPT ![r] = e]
  /\ ingressMAC' = [ingressMAC EXCEPT ![r] = mac]
  /\ wire' = [wire EXCEPT ![r] = SubSeq(@, n + 1, Len(@))]
  /\ UNCHANGED <<snappy, encPos, decPos, egressMAC, sent, rejected, delivered, log, attacks>>

(* Mutant: the body decrypted and returned along with the frame MAC error. *)
ReadFrameUnchecked(r, h1, fsize) ==
  LET w == wire[r]
      n == IF RoundUp(fsize) = 0 THEN 2 ELSE 3
      bct == IF w[2].kind = "body" /\ w[2].len = RoundUp(fsize) THEN w[2].ct ELSE Garbled
      h3 == UpdateMAC(IF n = 2 THEN h1 ELSE Append(h1, <<"body", bct>>), <<"fmac">>)
      tmac == IF w[n].kind = "tail" THEN w[n].mac ELSE GarbledTag
  IN /\ Len(w) >= n
     /\ delivered' = [delivered EXCEPT ![r] = Append(@, Decrypt(bct, decPos[r] + Block, NoiseBody).msg)]
     /\ decPos' = [decPos EXCEPT ![r] = @ + Block + RoundUp(fsize)]
     /\ ingressMAC' = [ingressMAC EXCEPT ![r] = h3]
     /\ wire' = [wire EXCEPT ![r] = SubSeq(@, n + 1, Len(@))]
     /\ readErr' = [readErr EXCEPT ![r] = IF MACEqual(h3, tmac) THEN @ ELSE "bad frame MAC"]
     /\ UNCHANGED <<snappy, encPos, egressMAC, sent, rejected, log, attacks>>

(* ReadMsg after a good header MAC: the body of rsize bytes (none when    *)
(* rsize is 0) is absorbed by ingressMAC, the frame MAC read and checked, *)
(* then the body decrypted.  A chunk of another kind or length read in    *)
(* its place is garbled bytes.                                            *)
ReadFrame(r, h1, fsize) ==
  LET w == wire[r]
      rsize == RoundUp(fsize)
      n == IF rsize = 0 THEN 2 ELSE 3
      bct == IF w[2].kind = "body" /\ w[2].len = rsize THEN w[2].ct ELSE Garbled
      h2 == IF rsize = 0 THEN h1 ELSE Append(h1, <<"body", bct>>)
      h3 == UpdateMAC(h2, <<"fmac">>)
      tmac == IF w[n].kind = "tail" THEN w[n].mac ELSE GarbledTag
      content == Decrypt(bct, decPos[r] + Block, NoiseBody)
  IN /\ Len(w) >= n
     /\ \/ /\ ~MACEqual(h3, tmac)
           /\ ReadFail(r, "bad frame MAC", n, h3)
        \/ /\ MACEqual(h3, tmac)
           /\ delivered' = [delivered EXCEPT ![r] = Append(@, content.msg)]
           /\ ingressMAC' = [ingressMAC EXCEPT ![r] = h3]
           /\ decPos' = [decPos EXCEPT ![r] = @ + Block + rsize]
           /\ wire' = [wire EXCEPT ![r] = SubSeq(@, n + 1, Len(@))]
           /\ UNCHANGED <<snappy, encPos, egressMAC, sent, rejected, readErr, log, attacks>>

(* rlpxFrameRW.ReadMsg: the header block, its MAC checked over the        *)
(* ciphertext before decryption, then the frame.  With snappy the decoded *)
(* length check cannot fail for a peer whose WriteMsg checked msg.Size.   *)
ReadMsg(r) ==
  LET c1 == Head(wire[r])
      hct == IF c1.kind = "head" THEN c1.ct ELSE Garbled
      hmac == IF c1.kind = "head" THEN c1.mac ELSE GarbledTag
      h1 == UpdateMAC(ingressMAC[r], <<"hdr", hct>>)
  IN /\ readErr[r] = "none"
     /\ wire[r] # <<>>
     /\ \/ /\ ~MACEqual(h1, hmac)
           /\ ReadFail(r, "bad header MAC", 1, h1)
        \/ /\ MACEqual(h1, hmac)
           /\ ReadFrame(r, h1, ReadInt24(Decrypt(hct, decPos[r], NoiseHeader).fsize))

(* The read deadline the transport sets expires while io.ReadFull waits. *)
ReadTimeout(r) ==
  /\ readErr[r] = "none"
  /\ readErr' = [readErr EXCEPT ![r] = "timeout"]
  /\ UNCHANGED <<snappy, encPos, decPos, egressMAC, ingressMAC, wire, sent,
                 rejected, delivered, log, attacks>>

-----------------------------------------------------------------------------
(* The network: TCP delivers bytes in order, but the path may be hostile. *)
Attack(r, w) ==
  /\ attacks < MaxAttacks
  /\ attacks' = attacks + 1
  /\ wire' = [wire EXCEPT ![r] = w]
  /\ UNCHANGED <<snappy, encPos, decPos, egressMAC, ingressMAC, sent, rejected,
                 delivered, readErr, log>>

Flip(c) == IF c.kind = "tail" THEN [c EXCEPT !.mac = Append(@, <<"flip">>)]
                              ELSE [c EXCEPT !.ct.flipped = TRUE]

Drop(r) == \E i \in 1..Len(wire[r]) : Attack(r, RemoveAt(wire[r], i))
Replay(r) == \E c \in log, i \in 1..Len(wire[r]) + 1 : Attack(r, InsertAt(wire[r], i, c))
Reorder(r) == \E i \in 1..Len(wire[r]) - 1 :
                Attack(r, [wire[r] EXCEPT ![i] = wire[r][i + 1], ![i + 1] = wire[r][i]])
Tamper(r) == \E i \in 1..Len(wire[r]) : Attack(r, [wire[r] EXCEPT ![i] = Flip(@)])

(* Both writers done and both readers stopped: the connection is over. *)
Quiescent ==
  /\ \A r \in Roles : Written(r) = MaxMsgs /\ readErr[r] # "none"
  /\ UNCHANGED vars

Next ==
  \/ \E r \in Roles :
       \/ \E code \in Codes, size \in Sizes : WriteMsg(r, code, size)
       \/ ReadMsg(r)
       \/ ReadTimeout(r)
       \/ Drop(r) \/ Replay(r) \/ Reorder(r) \/ Tamper(r)
  \/ Quiescent

(* Each end's read loop calls ReadMsg again as long as bytes arrive. *)
Fairness == \A r \in Roles : WF_vars(ReadMsg(r))

Spec == Init /\ [][Next]_vars /\ Fairness

-----------------------------------------------------------------------------
Msgs == [id : 1..MaxMsgs, code : Codes, size : Sizes]
ReadErrors == {"none", "bad header MAC", "bad frame MAC", "timeout"}

(* Types, and the frame format on the wire: every body WriteMsg emits is  *)
(* zero-padded to a whole number of blocks, as ReadMsg's rsize assumes.   *)
TypeOK ==
  /\ snappy \in BOOLEAN
  /\ encPos \in [Roles -> Nat] /\ decPos \in [Roles -> Nat]
  /\ \A r \in Roles : /\ sent[r] \in Seq(Msgs) /\ rejected[r] \in Seq(Msgs)
                    /\ delivered[r] \in Seq(Msgs \cup {NoiseBody.msg})
  /\ readErr \in [Roles -> ReadErrors]
  /\ attacks \in 0..MaxAttacks
  /\ \A c \in log : /\ c.kind \in {"head", "body", "tail"}
                  /\ c.kind = "body" => c.len % Block = 0

(* Integrity and order: whatever the network drops, replays, reorders or  *)
(* alters, the messages ReadMsg returns are a prefix of those the peer's  *)
(* WriteMsg sent, each once and in order (the MAC chain of rlpxFrameRW).  *)
Integrity == \A r \in Roles : IsPrefix(delivered[r], sent[Peer(r)])

(* The MAC states are causal chains: while ReadMsg has not failed, the    *)
(* reader's ingressMAC has absorbed exactly a prefix of what the peer's    *)
(* egressMAC absorbed, so the next honest frame still verifies.            *)
ChainInStep ==
  \A r \in Roles : readErr[r] = "none" => IsPrefix(ingressMAC[r], egressMAC[Peer(r)])

(* Every message WriteMsg returned nil for is eventually returned by the  *)
(* peer's ReadMsg, unless the read deadline expired or the network        *)
(* interfered.                                                            *)
Delivery ==
  \A r \in Roles, i \in 1..MaxMsgs :
     (Len(sent[Peer(r)]) >= i) ~> (Len(delivered[r]) >= i \/ readErr[r] = "timeout" \/ attacks > 0)

(* The comment at newRLPXFrameRW: the all-zero IV is safe because the key *)
(* is ephemeral, i.e. no keystream position encrypts two different        *)
(* plaintexts.  Both rw.enc of the two ends start at position 0 of the    *)
(* same AES key.                                                          *)
KeystreamUnique ==
  \A c1, c2 \in log : c1.kind # "tail" /\ c2.kind # "tail" /\ c1.ct.pos = c2.ct.pos
                     => c1.ct.pt = c2.ct.pt

-----------------------------------------------------------------------------
(* The channel the codec implements: what each end sent and received,    *)
(* why its ReadMsg has returned an error (a MAC error is a broken          *)
(* channel), and whether the network has attacked the connection.         *)
ChanFailed(r) ==
  CASE readErr[r] = "none"    -> "none"
    [] readErr[r] = "timeout" -> "timeout"
    [] OTHER                  -> "broken"

Chan == INSTANCE RLPxChannel WITH Msg <- Msgs,
                                  failed <- [r \in Roles |-> ChanFailed(r)],
                                  tampered <- attacks > 0

(* rlpxFrameRW implements a reliable FIFO channel under fair reads: each  *)
(* ReadMsg return is the peer's next sent message, a read fails with a     *)
(* MAC error only after the network interfered, nothing is returned once   *)
(* it has failed, and every message WriteMsg accepted is eventually        *)
(* returned unless the read failed.  The writer's size check, framing,    *)
(* padding and MAC chains must all agree for this to hold.                 *)
ChannelRefined == Chan!Spec

=============================================================================
