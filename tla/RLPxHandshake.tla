--------------------------- MODULE RLPxHandshake ---------------------------
(***************************************************************************)
(* The RLPx encryption handshake of src/p2p/rlpx.go, with the optional    *)
(* certificate exchange, for one connection between an initiator (the     *)
(* dialing side, initiatorEncHandshake) and a receiver (the listening      *)
(* side, receiverEncHandshake).                                            *)
(*                                                                         *)
(* Cryptography is symbolic: a static key pair is named by its node, an    *)
(* ephemeral key pair and a nonce by the role that generated it, ECDH of   *)
(* two keys is the set of the two, a Keccak256 digest is the tuple of its  *)
(* inputs, and an ECIES envelope is the plaintext tagged with the key it   *)
(* is sealed to.  The wire between the two processes is one byte stream    *)
(* per direction, a sequence of the items written to it.  Each action is   *)
(* the code between two blocking reads of one side.                        *)
(***************************************************************************)
EXTENDS Naturals, Sequences, FiniteSets

CONSTANTS
  Nodes,        \* static identities; a node's static key pair is named by it
  Versions,     \* values TaiRLPXVersion has in the builds that meet
  CertLens,     \* lengths a configured certificate may have (0: none)
  CertSizeMod,  \* 2^16 in the code: CertSize is a uint16
  CryptoType,   \* the crypto suite the build selects: "S256", "P256" or "SM2"
  None,         \* absent value
  Junk,         \* key SigToPub recovers from a signature over another digest
  Forgers       \* roles whose process may be modified to seal malformed plaintexts

ASSUME CryptoType \in {"S256", "P256", "SM2"}
ASSUME Forgers \subseteq {"ini", "rcv"}
ASSUME 0 \in CertLens /\ CertSizeMod \in Nat \ {0}

Roles == {"ini", "rcv"}
Peer(r) == IF r = "ini" THEN "rcv" ELSE "ini"

VARIABLES
  node,    \* [Roles -> Nodes]: whose process runs each end
  dial,    \* static key the initiator dials (the remote it believes it reaches)
  claim,   \* identity the initiator writes into InitiatorPubkey
  forged,  \* [Roles -> BOOLEAN]: that side seals a plaintext that is not valid RLP
  ver,     \* [Roles -> Versions]: TaiRLPXVersion of each side's build
  cert,    \* [Roles -> cert]: t.cm.cert, a length and the key and validity it carries
  pc,      \* [Roles -> program point]
  err,     \* [Roles -> error returned, or None]
  hs,      \* [Roles -> encHandshake]
  sec,     \* [Roles -> secrets, or None]
  wire,    \* [Roles -> Seq(item)]: bytes written to the conn, not yet read by that role
  closed   \* [Roles -> BOOLEAN]: that side has closed the fd

config == <<node, dial, claim, forged, ver, cert>>
vars == <<node, dial, claim, forged, ver, cert, pc, err, hs, sec, wire, closed>>

Certs == [len : CertLens, key : Nodes, valid : BOOLEAN]
Keys == Nodes \cup {<<"eph", r>> : r \in Roles} \cup {Junk}
Errors == {"Decrypt", "Version", "CertMissing", "CertSize", "CertInvalid",
           "CertIdentity", "EOF", "Timeout", "Write", "Panic", "PanicSecret"}

(* crypto.GenerateKey and rand.Read: fresh per role, once per connection *)
Eph(r) == <<"eph", r>>
Nonce(r) == <<"nonce", r>>
(* crypto.GenerateShared: ECDH of a private and a public key *)
GenerateShared(k1, k2) == {k1, k2}
(* crypto.Keccak256 hashes with Keccak for P256 and SM3 for SM2; it has no *)
(* S256 branch and returns nil.                                             *)
Keccak256(a, b) == IF CryptoType \in {"P256", "SM2"} THEN <<"keccak", a, b>> ELSE "nil"
Xor(a, b) == <<"xor", a, b>>
(* crypto.Sign: the signature names the digest and, appended, the signer's key *)
Sign(digest, prv) == [digest |-> digest, signer |-> prv]
(* Mutant of SigToPub below: the digest is ignored. *)
(* crypto.SigToPub: S256 recovers the key from the signature over the digest;  *)
(* P256 and SM2 decompress the public key appended to the signature, sig[65:]. *)
SigToPubUnchecked(digest, sig) == sig.signer
SigToPub(digest, sig) ==
  IF CryptoType = "S256"
  THEN IF sig.digest = digest THEN sig.signer ELSE Junk
  ELSE sig.signer
(* Mutant: the uint16 conversion dropped. *)
CertSizeOfWide(c) == c.len
(* uint16(len(t.cm.cert)), and the 2-byte prefix sealPlain writes *)
CertSizeOf(c) == c.len % CertSizeMod

(* Mutant: the version field not compared. *)
VersionAcceptedAlways(msg, own) == TRUE
(* handleAuthResp and receiverEncHandshake: msg.Version != TaiRLPXVersion *)
VersionAccepted(msg, own) == msg.version = own

(* reflect.DeepEqual(pub, h.remote) on the certificate's public key *)
SameKey(pub, remote) == pub = remote

(* crypto.Encrypt: an envelope only the holder of pub's private key opens, *)
(* under each CryptoType (ecies for P256 and S256, sm2 for SM2)            *)
Encrypt(pub, m) == [kind |-> "sealed", to |-> pub, plain |-> m]

(* crypto.Decrypt: the plaintext, or None (an error) for another key *)
Decrypt(prv, c) == IF c.kind = "sealed" /\ c.to = prv THEN c.plain ELSE None

(* sealPlain: the 2-byte CertSize prefix and the RLP body, sealed to h.remote *)
SealPlain(to, body, rlpOK, certSize) ==
  Encrypt(to, [size |-> certSize, rlpOK |-> rlpOK, body |-> body])

(* decodePlain of authMsgV4 and authRespV4: rlp.Decode of the plaintext, *)
(* which panics instead of returning its error.  A forged plaintext       *)
(* stands as well for one shorter than the size prefix, on which          *)
(* readHandshakeMsg's dec[:2] panics first.                                *)
Decodes(pt) == pt.rlpOK

(* readHandshakeMsg: the plaintext of a sealed item, None when Decrypt fails *)
Open(item, prv) == Decrypt(prv, item)

(* Mutant: the egress/ingress assignment not swapped on the receiver. *)
SecretsUnswapped(h, auth, authResp, initiator) ==
  LET ecdheSecret == GenerateShared(h.randomPrivKey, h.remoteRandomPub)
      sharedSecret == Keccak256(ecdheSecret, Keccak256(h.respNonce, h.initNonce))
      aesSecret == Keccak256(ecdheSecret, sharedSecret)
      macSecret == Keccak256(ecdheSecret, aesSecret)
  IN [Remote |-> h.remote, AES |-> aesSecret, MAC |-> macSecret,
      EgressMAC |-> <<Xor(macSecret, h.respNonce), auth>>,
      IngressMAC |-> <<Xor(macSecret, h.initNonce), authResp>>]

(* encHandshake.secrets: derivation of the session secrets and MAC seeds *)
Secrets(h, auth, authResp, initiator) ==
  LET ecdheSecret == GenerateShared(h.randomPrivKey, h.remoteRandomPub)
      sharedSecret == Keccak256(ecdheSecret, Keccak256(h.respNonce, h.initNonce))
      aesSecret == Keccak256(ecdheSecret, sharedSecret)
      macSecret == Keccak256(ecdheSecret, aesSecret)
      mac1 == <<Xor(macSecret, h.respNonce), auth>>
      mac2 == <<Xor(macSecret, h.initNonce), authResp>>
  IN [Remote |-> h.remote, AES |-> aesSecret, MAC |-> macSecret,
      EgressMAC |-> IF initiator THEN mac1 ELSE mac2,
      IngressMAC |-> IF initiator THEN mac2 ELSE mac1]

(* makeAuthMsg: sign static-shared-secret ^ nonce with the ephemeral key; *)
(* InitiatorPubkey is the identity written, prv's own for honest code.    *)
MakeAuthMsg(h, prv, pub, version) ==
  [sig |-> Sign(Xor(GenerateShared(prv, h.remote), h.initNonce), h.randomPrivKey),
   pub |-> pub, nonce |-> h.initNonce, version |-> version]

(* handleAuthMsg: the claimed identity, the nonce, a fresh ephemeral key, *)
(* and the peer's ephemeral key recovered from the signature.             *)
HandleAuthMsg(h, msg, prv) ==
  [h EXCEPT !.remote = msg.pub, !.initNonce = msg.nonce, !.randomPrivKey = Eph("rcv"),
            !.remoteRandomPub = SigToPub(Xor(GenerateShared(prv, msg.pub), msg.nonce), msg.sig)]

(* makeAuthResp: a fresh nonce, the ephemeral public key, the version *)
MakeAuthResp(h, version) ==
  [eph |-> h.randomPrivKey, nonce |-> h.respNonce, version |-> version]

(* handleAuthResp: the nonce and ephemeral key of the receiver *)
HandleAuthResp(h, msg) == [h EXCEPT !.respNonce = msg.nonce, !.remoteRandomPub = msg.eph]

NoHandshake == [CertSize |-> 0, remote |-> None, initNonce |-> None,
                respNonce |-> None, randomPrivKey |-> None,
                remoteRandomPub |-> None, auth |-> None, authResp |-> None,
                peerCertSize |-> 0, peerCert |-> None]

-----------------------------------------------------------------------------
Init ==
  /\ node \in [Roles -> Nodes]
  /\ node["ini"] # node["rcv"]
  /\ dial \in Nodes
  /\ claim \in Nodes
  /\ forged \in [Roles -> BOOLEAN]
  /\ \A r \in Roles \ Forgers : ~forged[r]
  /\ forged["ini"] => claim # node["ini"]
  /\ ver \in [Roles -> Versions]
  /\ cert \in [Roles -> Certs]
  /\ pc = [r \in Roles |-> IF r = "ini" THEN "start" ELSE "readAuth"]
  /\ err = [r \in Roles |-> None]
  /\ hs = [r \in Roles |-> NoHandshake]
  /\ sec = [r \in Roles |-> None]
  /\ wire = [r \in Roles |-> <<>>]
  /\ closed = [r \in Roles |-> FALSE]

(* Returning an error from the handshake: the caller closes the fd. *)
Fail(r, e) ==
  /\ pc' = [pc EXCEPT ![r] = "failed"]
  /\ err' = [err EXCEPT ![r] = e]
  /\ closed' = [closed EXCEPT ![r] = TRUE]

(* A panic in a goroutine ends the whole process, and with it the fd. *)
Crash(r, e) ==
  /\ pc' = [pc EXCEPT ![r] = "crashed"]
  /\ err' = [err EXCEPT ![r] = e]
  /\ closed' = [closed EXCEPT ![r] = TRUE]

(* doEncHandshake after secrets: newRLPXFrameRW, which panics when       *)
(* aes.NewCipher rejects the MAC or the AES secret.                      *)
Finish(r, s) ==
  \/ /\ s.MAC # "nil" /\ s.AES # "nil"
     /\ pc' = [pc EXCEPT ![r] = "done"]
     /\ sec' = [sec EXCEPT ![r] = s]
     /\ UNCHANGED <<err, closed>>
  \/ /\ s.MAC = "nil" \/ s.AES = "nil"
     /\ Crash(r, "PanicSecret")
     /\ UNCHANGED sec

(* conn.Write to a peer that has closed fails (the peer is gone either way). *)
CanWrite(r) == ~closed[Peer(r)]

CertItem(c) == [kind |-> "cert", cert |-> c]

(* io.ReadFull(conn, buf) of the advertised CertSize bytes: a shorter read  *)
(* than the certificate written yields a truncated, unverifiable buffer.    *)
ReadCertBytes(item, n) ==
  IF item.cert.len = n THEN item.cert ELSE [item.cert EXCEPT !.len = n, !.valid = FALSE]

(* io.ReadFull on a stream the peer has closed and drained *)
ReadEOF(r) ==
  /\ pc[r] \in {"readResp", "readAuth", "readCert"}
  /\ wire[r] = <<>>
  /\ closed[Peer(r)]
  /\ Fail(r, "EOF")
  /\ UNCHANGED <<config, hs, sec, wire>>

(* The handshakeTimeout deadline set by newRLPX expires during a read. *)
Timeout(r) ==
  /\ pc[r] \in {"readResp", "readAuth", "readCert"}
  /\ Fail(r, "Timeout")
  /\ UNCHANGED <<config, hs, sec, wire>>

-----------------------------------------------------------------------------
(* initiatorEncHandshake up to conn.Write(authPacket): makeAuthMsg, sealPlain *)
InitiatorSendAuth ==
  LET h0 == [NoHandshake EXCEPT !.CertSize = CertSizeOf(cert["ini"]), !.remote = dial,
                                !.initNonce = Nonce("ini"), !.randomPrivKey = Eph("ini")]
      msg == MakeAuthMsg(h0, node["ini"], claim, ver["ini"])
      authPacket == SealPlain(dial, msg, ~forged["ini"], h0.CertSize)
  IN /\ pc["ini"] = "start"
     /\ \/ /\ CanWrite("ini")
           /\ wire' = [wire EXCEPT !["rcv"] = Append(@, authPacket)]
           /\ hs' = [hs EXCEPT !["ini"] = [h0 EXCEPT !.auth = authPacket]]
           /\ pc' = [pc EXCEPT !["ini"] = "readResp"]
           /\ UNCHANGED <<err, sec, closed>>
        \/ /\ ~CanWrite("ini")
           /\ Fail("ini", "Write")
           /\ UNCHANGED <<hs, sec, wire>>
     /\ UNCHANGED config

(* An impostor need not keep initiatorEncHandshake's order.  Right after  *)
(* its auth message it may write the certificate of the node it claims,    *)
(* which is public and passes VerifyCert, of the size it advertised, where *)
(* the receiver will read the peer's certificate (rlpx.go:445).  Only    *)
(* the sealed auth response, which it cannot open, stands between it and  *)
(* a session.  (After a malformed auth message the receiver has died.)     *)
(* It writes before the receiver reads anything: a later write only gives  *)
(* the receiver less to read.                                              *)
ImpostorShowCert ==
  /\ claim # node["ini"] /\ ~forged["ini"]
  /\ pc["ini"] = "readResp"
  /\ wire["rcv"] = <<hs["ini"].auth>>
  /\ CanWrite("ini")
  /\ cert["ini"].len # 0
  /\ wire' = [wire EXCEPT !["rcv"] =
               Append(@, CertItem([len |-> cert["ini"].len, key |-> claim, valid |-> TRUE]))]
  /\ UNCHANGED <<config, pc, err, hs, sec, closed>>

(* receiverEncHandshake: readHandshakeMsg, handleAuthMsg, the certificate  *)
(* size checks, makeAuthResp, conn.Write(authRespPacket), the version      *)
(* check, then either the certificate read or secrets.                     *)
ReceiverReadAuth ==
  LET item == Head(wire["rcv"])
      pt == Open(item, node["rcv"])
      msg == pt.body
      h1 == HandleAuthMsg([NoHandshake EXCEPT !.CertSize = CertSizeOf(cert["rcv"])],
                          msg, node["rcv"])
      h == [h1 EXCEPT !.respNonce = Nonce("rcv"), !.auth = item, !.peerCertSize = pt.size]
      find == cert["rcv"].len # 0
      sizeOK == ~find \/ (pt.size # 0 /\ h.CertSize = pt.size)
      resp == MakeAuthResp(h, ver["rcv"])
      authRespPacket == SealPlain(h.remote, resp, ~forged["rcv"], h.CertSize)
      rest == [wire EXCEPT !["rcv"] = Tail(@)]
      sent == [rest EXCEPT !["ini"] = Append(@, authRespPacket)]
  IN /\ pc["rcv"] = "readAuth"
     /\ wire["rcv"] # <<>>
     /\ \/ /\ pt = None
           /\ Fail("rcv", "Decrypt") /\ wire' = rest /\ UNCHANGED <<hs, sec>>
        \/ /\ pt # None /\ ~Decodes(pt)
           /\ Crash("rcv", "Panic") /\ wire' = rest /\ UNCHANGED <<hs, sec>>
        \/ /\ pt # None /\ Decodes(pt) /\ find /\ pt.size = 0
           /\ Fail("rcv", "CertMissing") /\ wire' = rest /\ UNCHANGED <<hs, sec>>
        \/ /\ pt # None /\ Decodes(pt) /\ find /\ pt.size # 0 /\ h.CertSize # pt.size
           /\ Fail("rcv", "CertSize") /\ wire' = rest /\ UNCHANGED <<hs, sec>>
        \/ /\ pt # None /\ Decodes(pt) /\ sizeOK /\ ~CanWrite("rcv")
           /\ Fail("rcv", "Write") /\ wire' = rest /\ UNCHANGED <<hs, sec>>
        \/ /\ pt # None /\ Decodes(pt) /\ sizeOK /\ CanWrite("rcv")
           /\ wire' = sent
           /\ hs' = [hs EXCEPT !["rcv"] = [h EXCEPT !.authResp = authRespPacket]]
           /\ \/ /\ ~VersionAccepted(msg, ver["rcv"])
                 /\ Fail("rcv", "Version") /\ UNCHANGED sec
              \/ /\ VersionAccepted(msg, ver["rcv"]) /\ find
                 /\ pc' = [pc EXCEPT !["rcv"] = "readCert"]
                 /\ UNCHANGED <<err, sec, closed>>
              \/ /\ VersionAccepted(msg, ver["rcv"]) /\ ~find
                 /\ Finish("rcv", Secrets(h, item, authRespPacket, FALSE))
     /\ UNCHANGED config

(* Mutant: the initiator reads the peer certificate before writing its own. *)
InitiatorSendCertLate(rest, h) ==
  /\ wire' = rest
  /\ hs' = [hs EXCEPT !["ini"] = h]
  /\ pc' = [pc EXCEPT !["ini"] = "readCert"]
  /\ UNCHANGED <<err, sec, closed>>

(* initiatorEncHandshake: conn.Write(t.cm.cert) before reading the peer's *)
InitiatorSendCert(rest, h) ==
  \/ /\ ~CanWrite("ini")
     /\ Fail("ini", "Write") /\ wire' = rest /\ UNCHANGED <<hs, sec>>
  \/ /\ CanWrite("ini")
     /\ wire' = [rest EXCEPT !["rcv"] = Append(@, CertItem(cert["ini"]))]
     /\ hs' = [hs EXCEPT !["ini"] = h]
     /\ pc' = [pc EXCEPT !["ini"] = "readCert"]
     /\ UNCHANGED <<err, sec, closed>>

(* initiatorEncHandshake from readHandshakeMsg(authRespMsg): handleAuthResp, *)
(* the certificate size checks and conn.Write(t.cm.cert), or secrets.       *)
InitiatorReadResp ==
  LET item == Head(wire["ini"])
      pt == Open(item, node["ini"])
      msg == pt.body
      h == [HandleAuthResp(hs["ini"], msg) EXCEPT !.authResp = item, !.peerCertSize = pt.size]
      find == cert["ini"].len # 0
      sizeOK == pt.size # 0 /\ CertSizeOf(cert["ini"]) = pt.size
      rest == [wire EXCEPT !["ini"] = Tail(@)]
  IN /\ pc["ini"] = "readResp"
     /\ wire["ini"] # <<>>
     /\ \/ /\ pt = None
           /\ Fail("ini", "Decrypt") /\ wire' = rest /\ UNCHANGED <<hs, sec>>
        \/ /\ pt # None /\ ~Decodes(pt)
           /\ Crash("ini", "Panic") /\ wire' = rest /\ UNCHANGED <<hs, sec>>
        \/ /\ pt # None /\ Decodes(pt) /\ ~VersionAccepted(msg, ver["ini"])
           /\ Fail("ini", "Version") /\ wire' = rest /\ UNCHANGED <<hs, sec>>
        \/ /\ pt # None /\ Decodes(pt) /\ VersionAccepted(msg, ver["ini"]) /\ ~find
           /\ Finish("ini", Secrets(h, h.auth, item, TRUE))
           /\ wire' = rest /\ hs' = [hs EXCEPT !["ini"] = h]
        \/ /\ pt # None /\ Decodes(pt) /\ VersionAccepted(msg, ver["ini"]) /\ find /\ pt.size = 0
           /\ Fail("ini", "CertMissing") /\ wire' = rest /\ UNCHANGED <<hs, sec>>
        \* The "remote cert size error" return (rlpx.go:325) needs pt.size # 0
        \* with a different size; a receiver running this code has made the
        \* same comparison (rlpx.go:424) before writing, so it is not reached.
        \/ /\ pt # None /\ Decodes(pt) /\ VersionAccepted(msg, ver["ini"]) /\ find /\ sizeOK
           /\ InitiatorSendCert(rest, h)
     /\ UNCHANGED config

(* initiatorEncHandshake: io.ReadFull of the peer certificate, VerifyCert, *)
(* FromCertBytesToPubKey and the comparison with h.remote, then secrets.   *)
InitiatorReadCert ==
  LET buf == ReadCertBytes(Head(wire["ini"]), hs["ini"].peerCertSize)
      h == [hs["ini"] EXCEPT !.peerCert = buf]
      rest == [wire EXCEPT !["ini"] = Tail(@)]
  IN /\ pc["ini"] = "readCert"
     /\ wire["ini"] # <<>>
     /\ wire' = rest
     /\ hs' = [hs EXCEPT !["ini"] = h]
     /\ \/ /\ ~buf.valid
           /\ Fail("ini", "CertInvalid") /\ UNCHANGED sec
        \/ /\ buf.valid /\ ~SameKey(buf.key, h.remote)
           /\ Fail("ini", "CertIdentity") /\ UNCHANGED sec
        \/ /\ buf.valid /\ SameKey(buf.key, h.remote)
           /\ Finish("ini", Secrets(h, h.auth, h.authResp, TRUE))
     /\ UNCHANGED config

(* receiverEncHandshake when find: the same certificate checks, then       *)
(* conn.Write(t.cm.cert) and secrets.                                      *)
ReceiverReadCert ==
  LET buf == ReadCertBytes(Head(wire["rcv"]), hs["rcv"].peerCertSize)
      h == [hs["rcv"] EXCEPT !.peerCert = buf]
      rest == [wire EXCEPT !["rcv"] = Tail(@)]
  IN /\ pc["rcv"] = "readCert"
     /\ wire["rcv"] # <<>>
     /\ hs' = [hs EXCEPT !["rcv"] = h]
     /\ \/ /\ ~buf.valid
           /\ Fail("rcv", "CertInvalid") /\ wire' = rest /\ UNCHANGED sec
        \/ /\ buf.valid /\ ~SameKey(buf.key, h.remote)
           /\ Fail("rcv", "CertIdentity") /\ wire' = rest /\ UNCHANGED sec
        \/ /\ buf.valid /\ SameKey(buf.key, h.remote) /\ ~CanWrite("rcv")
           /\ Fail("rcv", "Write") /\ wire' = rest /\ UNCHANGED sec
        \/ /\ buf.valid /\ SameKey(buf.key, h.remote) /\ CanWrite("rcv")
           /\ wire' = [rest EXCEPT !["ini"] = Append(@, CertItem(cert["rcv"]))]
           /\ Finish("rcv", Secrets(h, h.auth, h.authResp, FALSE))
     /\ UNCHANGED config

Terminated(r) == pc[r] \in {"done", "failed", "crashed"}

(* Both handshakes have returned; the connection is handed on or dropped. *)
Terminating == (\A r \in Roles : Terminated(r)) /\ UNCHANGED vars

Next ==
  \/ InitiatorSendAuth
  \/ ImpostorShowCert
  \/ ReceiverReadAuth
  \/ InitiatorReadResp
  \/ InitiatorReadCert
  \/ ReceiverReadCert
  \/ \E r \in Roles : ReadEOF(r) \/ Timeout(r)
  \/ Terminating

(* Every step of either side is taken once it is enabled; the deadline is  *)
(* not assumed to fire.                                                    *)
Fairness ==
  /\ WF_vars(InitiatorSendAuth) /\ WF_vars(ReceiverReadAuth)
  /\ WF_vars(InitiatorReadResp) /\ WF_vars(InitiatorReadCert)
  /\ WF_vars(ReceiverReadCert) /\ \A r \in Roles : WF_vars(ReadEOF(r))

Spec == Init /\ [][Next]_vars /\ Fairness

-----------------------------------------------------------------------------
(* Properties *)

TypeOK ==
  /\ node \in [Roles -> Nodes] /\ dial \in Nodes /\ claim \in Nodes
  /\ forged \in [Roles -> BOOLEAN] /\ ver \in [Roles -> Versions] /\ cert \in [Roles -> Certs]
  /\ pc \in [Roles -> {"start", "readAuth", "readResp", "readCert", "done", "failed", "crashed"}]
  /\ err \in [Roles -> Errors \cup {None}]
  /\ closed \in [Roles -> BOOLEAN]
  /\ \A r \in Roles :
       /\ hs[r].remote \in Nodes \cup {None}
       /\ hs[r].remoteRandomPub \in Keys \cup {None}
       /\ hs[r].CertSize \in 0..(CertSizeMod - 1)
       /\ (pc[r] = "done") <=> (sec[r] # None)
       /\ (pc[r] \in {"failed", "crashed"}) <=> (err[r] # None)

(* Key agreement and mutual authentication (spec section 8, first test):   *)
(* when both encHandshake.secrets calls return, the two sides hold the     *)
(* same AES and MAC secrets, the initiator's egress MAC seed is the        *)
(* receiver's ingress seed and vice versa, and each side's Remote is the   *)
(* static key of the process actually at the other end, whatever identity *)
(* an initiator claimed or key it dialed.                                  *)
KeyAgreement ==
  (\A r \in Roles : pc[r] = "done") =>
    /\ sec["ini"].AES = sec["rcv"].AES
    /\ sec["ini"].MAC = sec["rcv"].MAC
    /\ sec["ini"].EgressMAC = sec["rcv"].IngressMAC
    /\ sec["ini"].IngressMAC = sec["rcv"].EgressMAC
    /\ \A r \in Roles : sec[r].Remote = node[Peer(r)]

(* Version gate (spec 4.1 and section 8): neither side derives secrets when *)
(* the two builds' TaiRLPXVersion differ, although the receiver writes its  *)
(* auth response before it compares versions.                              *)
VersionGate ==
  \A r \in Roles : sec[r] # None => ver["ini"] = ver["rcv"]

(* Ephemeral binding (spec 4.1, respond): the ephemeral key the receiver   *)
(* takes from the signature in the auth message is the initiator's only    *)
(* when the initiator is the node named in InitiatorPubkey: the signature  *)
(* over static-shared-secret ^ nonce proves the claimed static key.        *)
EphemeralBinding ==
  hs["rcv"].remoteRandomPub = Eph("ini") => hs["rcv"].remote = node["ini"]

(* Neither process dies of what its peer seals to it: a malformed auth     *)
(* message or auth response (decodePlain of authMsgV4 or authRespV4) is a *)
(* MalformedMessage error (spec section 7).                               *)
NoPanic == \A r \in Roles : err[r] # "Panic"

(* Spec 4.1: a completed handshake yields an AES key and a MAC key, from  *)
(* which doEncHandshake builds the frame codec (newRLPXFrameRW) without   *)
(* panicking.                                                             *)
FrameSecretsValid == \A r \in Roles : err[r] # "PanicSecret"

(* Deadlock freedom of the certificate exchange (spec 4.2): with the        *)
(* advertised CertSize both sides know who writes first, so without the     *)
(* deadline firing both handshakes eventually return.                       *)
Termination == <>(\A r \in Roles : Terminated(r))

=============================================================================
