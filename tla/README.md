# TLA+ models of the taiyuechain RLPx transport

This directory holds TLA+ specifications of the peer-to-peer transport in
`src/p2p/rlpx.go`, the parts of `src/crypto` it calls, and the epoch cache
of `src/consensus/minerva/minerva.go`. It also holds the TLC
configurations that check them, and `PROJECT.json`, which lists the components,
runs, mutants, the source lines each definition models, the findings and the
hazards.

## 1. The system

`rlpx.go` turns a raw `net.Conn` into an authenticated, encrypted message
channel. A connection goes through four stages.

1. **Transport** (`rlpx`, `newRLPX`, `doEncHandshake`, `doProtoHandshake`,
   `ReadMsg`, `WriteMsg`, `close`).
   - It owns the fd and one handshake deadline (`handshakeTimeout`).
   - It holds two mutexes: `rmu` for readers and `wmu` for writers.
   - It picks the role: `dial == nil` means receiver.
   - After the handshake it builds the frame codec under `wmu`.
   - `close` tries to send a disconnect frame before closing the fd.
2. **Handshake Engine** (`initiatorEncHandshake`, `receiverEncHandshake`,
   `makeAuthMsg`, `handleAuthMsg`, `makeAuthResp`, `handleAuthResp`,
   `sealPlain`, `decodePlain`, `readHandshakeMsg`, `secrets`).
   - The initiator seals an auth message to the remote static key. The message
     holds a signature by an ephemeral key over
     `staticSharedSecret ^ nonce`, the initiator's public key, a nonce, the
     version and a 2-byte `CertSize` prefix.
   - The receiver decrypts it. It recovers the ephemeral key with `SigToPub`
     and checks the certificate sizes. It then writes a sealed auth response
     (ephemeral key, nonce, version, `CertSize`), and only after that checks
     the version.
   - Both sides derive the AES and MAC secrets and the two MAC seeds, swapped
     by role.
3. **Certificate Exchange**. This happens inside the two handshake functions
   when a certificate is configured.
   - The initiator writes its certificate, then reads the peer's.
   - The receiver reads, verifies, then writes.
   - Each side checks `VerifyCert` and that the certificate's key equals the
     handshake's `remote`.
4. **Frame Codec** (`rlpxFrameRW`: `newRLPXFrameRW`, `WriteMsg`, `ReadMsg`,
   `updateMAC`).
   - Each frame is a 32-byte header block: the AES-CTR-encrypted 3-byte length
     and filler, then a header MAC over that ciphertext.
   - Then comes the encrypted body (message code, payload, zero padding to 16
     bytes), absorbed into the egress MAC as it is written.
   - Then a 16-byte frame MAC.
   - With snappy, the payload is compressed first.
   - The reader checks the header MAC, decrypts the length, reads the padded
     body and checks the frame MAC.

The crypto suite (`crypto.go`, `signature_cgo.go`) dispatches on the build's
`CryptoType`: S256, P256 or SM2. Two differences matter to the protocol:
- `SigToPub` recovers the signer for S256. For P256 and SM2 it decompresses
  the key appended to the signature, without any verification.
- `Keccak256` has no S256 branch and returns nil.

Other files under `src/` are:
- `minerva.go`: an epoch `lru` cache with a future item, plus constructors and
  a fake committee election.
- `error.go`: error values, plus a keystore test.
- `wire.go`: amino codec registration.
- `Math_test.go`: a test.

### Inventory

| Component | State | Operations | Hard behaviours |
|---|---|---|---|
| Handshake Engine | `encHandshake` (CertSize, remote, nonces, ephemeral keys); the byte stream | send auth, read auth + respond, read response, derive secrets | impostor identities; malformed sealed plaintexts (panic); unauthenticated ephemeral key under P256/SM2; version check after the response is written; deadline during any read |
| Certificate Exchange | advertised sizes, the certificate read | write/read order per role, size checks, VerifyCert, key comparison | deadlock if both sides read first; uint16 truncation of CertSize; certificate valid for the CA but for another key |
| Frame Codec | keystream positions, egress/ingress MAC states, snappy flag | WriteMsg, ReadMsg | MAC chain over an adversarial network; uint24 limit; uint32 wrap of fsize; padding agreement; same keystream in both directions; MAC state advanced by a failed read |
| Transport | fd, deadlines, rmu/wmu, `t.rw` | newRLPX, doEncHandshake, ReadMsg/WriteMsg under locks, close, doProtoHandshake | `t.rw` written under wmu and read under rmu; disconnect frame after a partial write; the concurrent write goroutine of doProtoHandshake |
| Crypto dispatch | CryptoType | Sign, SigToPub, GenerateShared, Keccak256, Encrypt/Decrypt | per-suite behaviour (above) |
| minerva lru | cache, future item, mutex | get | concurrent get of current and future epochs |

Properties worth checking, per component:
- **Handshake:**
  - agreement of secrets and MAC seeds;
  - each side's `Remote` is the real peer;
  - differing versions never produce secrets;
  - the ephemeral key is bound to the claimed identity;
  - no panic on peer input;
  - termination.
- **Certificate exchange:** the certificate is bound to the peer, and the
  exchange terminates.
- **Frame codec:**
  - integrity and order of delivered messages;
  - the MAC chains stay in step;
  - delivery;
  - the size limits the spec states;
  - keystream uniqueness.
- **Transport:** a single reader and a single writer at a time; the
  capability handshake completes or fails on both sides.

## 2. Plan

1. `RLPxHandshake`: handshake and certificate exchange, one process per role
   (done).
2. `RLPxFrame`: both directions of the frame codec over a hostile network
   (done).
3. `RLPxTransport`: `doProtoHandshake` with its write goroutine and `werr`
   channel, `readProtocolHandshake`, the snappy switch, the protocol writers
   under `wmu`, the read loop, and `close` with the disconnect frame (done).
4. `MinervaLRU`: the epoch cache and its future item (done).
5. `RLPxChannel`: the abstract reliable FIFO channel that can fail, which
   the frame codec is shown to implement with `INSTANCE ... WITH` (done).
6. Not done: a composition in which `RLPxTransport`'s frames are carried by
   `RLPxFrame`'s codec. `RLPxFrame` is shown to refine `RLPxChannel`, and
   `RLPxTransport` uses whole frames, so the two meet at the channel. A
   composed module would repeat both state spaces for no new case: a
   spliced frame is already caught at the transport level
   (FramesNotInterleaved).

## 3. Modules

### RLPxHandshake.tla (with MC_RLPxHandshake.tla)

**Processes.** One connection with two processes, `"ini"` and `"rcv"`.
- Each runs on the node `node[r]`. The initiator dials `dial` and writes
  `claim` as its `InitiatorPubkey`.
- An honest initiator has `claim = node["ini"]`. An impostor claims another
  node; it may also seal an auth message that is not RLP (`forged["ini"]`).
- An impostor need not keep the code's order. `ImpostorShowCert` lets it
  write the claimed node's certificate right after its auth message. That
  certificate is public and passes `VerifyCert`, and it sits where the
  receiver will read the peer's certificate (rlpx.go:445). `shown` records
  that it did. Only the sealed auth response, which the impostor cannot
  open, stands between it and a session.
- A malicious listener may seal an auth response that is not RLP
  (`forged["rcv"]`). The constant `Forgers` says which ends may forge.
  `decodePlain` of either message panics (`Decodes`, rlpx.go:529 and 550).
  A forged plaintext also stands for one shorter than the 2-byte size
  prefix. `readHandshakeMsg` slices `dec[:2]` before any length check and
  panics on it (rlpx.go:571). The outcome is the same panic, so the model does
  not tell the two malformations apart.
- Each side's build has a version `ver[r]` and a configured certificate
  `cert[r]`. A certificate is a length, the key it carries, and whether
  `VerifyCert` accepts it.

**Cryptography is symbolic:**
- ECDH is the set of the two keys;
- Keccak is a tuple, or `"nil"` under S256, as in `crypto.Keccak256`;
- `crypto.Encrypt` is a record tagged with the recipient key, and
  `crypto.Decrypt` opens it only with that key;
- a signature names its digest and signer;
- `SigToPub` returns the signer only if the digest matches (S256), or the
  appended key unconditionally (P256, SM2).

**State.** `wire[r]` is the byte stream towards `r`, as a sequence of items.
`pc`, `err`, `hs` (`encHandshake`) and `sec` (`secrets`) are per role.

**Actions.** Each action is the code between two blocking reads:

| Action | Code |
|---|---|
| `InitiatorSendAuth` | rlpx.go 294-310, with `makeAuthMsg` and `sealPlain` |
| `ReceiverReadAuth` | 404-444: `readHandshakeMsg`, `handleAuthMsg`, the size checks, `makeAuthResp`, the write, the version check, then secrets or the certificate read |
| `InitiatorReadResp` | 312-332: `readHandshakeMsg` (whose `decodePlain` may panic), `handleAuthResp`, the size checks, the certificate write |
| `InitiatorReadCert` | 333-352 |
| `ReceiverReadCert` | 445-468 |
| `ReadEOF` | a read on a closed, drained stream |
| `Timeout` | the `newRLPX` deadline |
| `ImpostorShowCert` | not code: the impostor's certificate write |

`Finish` is `doEncHandshake` building the codec, which panics on nil
secrets. Every early return is a disjunct with its error. A write to a closed
peer fails.

**Bounds** (`MC_RLPxHandshake`):
- Three nodes `A`, `B`, `M`, as model values. The safety-only runs declare
  `SYMMETRY`. handshake_safety also checks liveness, where TLC's symmetry is
  not sound, so it reduces by hand. `MCSpec` starts from `MCInit`, which fixes
  the initiator on `B` and the receiver on `A`. Some permutation of the nodes
  maps every pair of distinct ends there, so this loses no behaviour up to
  renaming. `dial` and `claim` stay free. The state count (482,076) equals the
  one `SYMMETRY` gives.
- `Forgers = {"ini"}` in handshake_safety, P256 and Keccak runs. The S256 and
  panic runs take `{"ini", "rcv"}`. A forged response only ends in the
  initiator's panic, so the main run leaves it out. The S256 run fires that
  branch.
- Versions {15, 16}, so that both the matching and the mismatching cases
  occur.
- `CertSizeMod = 4` stands for 2^16. Certificate lengths {0, 1, 2, 5} give:
  - no certificate;
  - two different sizes, for the size-mismatch path;
  - a length (5) that truncates to the same `CertSize` as 1, for the
    truncated read.

### RLPxFrame.tla (with MC_RLPxFrame.tla)

**Scope.** Both directions of one `rlpxFrameRW` pair after a handshake whose
secrets agree: `ingressMAC[r]` starts from the peer's egress seed. `snappy`
is chosen once, the same on both ends.

**Cryptography is symbolic:**
- a ciphertext is its plaintext tagged with its keystream position;
- a MAC state is the sequence it has absorbed, and a tag is that state;
- `UpdateMAC` appends the seed.

**Frames.** A frame is three chunks: head, body (with its padded length) and
tail.
- `WriteMsg` covers lines 666-718: the snappy check and compression (the
  compressed length is either shrunk or expanded), `fsize = (ptype + size) %
  SizeMod` (the uint32 sum), the uint24 check, `putInt24` (`PutInt24`:
  three bytes, each `byte()` keeping its low bits, read back by `ReadInt24`
  on the other end), the header, the tee through the cipher into the egress MAC, padding
  and the frame MAC.
- `ReadMsg`/`ReadFrame` cover 720-787. The header MAC is checked before
  decryption. The rsize is rounded up. The body is absorbed before the frame
  MAC is checked. A chunk of the wrong kind or length reads as garbled bytes.
  Every error is final, because the caller drops the connection.

**Environment.**
- `ReadTimeout` is the transport's read deadline.
- The network may `Drop`, `Replay` (any chunk ever sent, in either direction,
  at any position), `Reorder` or `Tamper`, at most `MaxAttacks` times in
  total.

**Bounds** (`MC_RLPxFrame`). These are scaled so that every edge case happens
with small messages:
- `LenMax = 7` for 2^24-1, `SizeMod = 16` for 2^32, `Block = 4` for 16.
  The header byte is scaled with them: `ByteMod = 2`, so three bytes hold
  `LenMax`.
- Two messages per side. Codes 16 (a 1-byte `ptype`) and 200 (2 bytes).
- Sizes {6, 15} for safety. With code 200, a size of 6 is over the limit;
  15 wraps to 0 with code 16 and is over the limit with code 200.
- Sizes {0, 3, 7} for delivery: 7 is one past the limit with its code byte,
  and nothing wraps.

### RLPxChannel.tla: what the frame codec promises

The spec's frame contract (section 4.3) and its failure rules (section 7)
say what callers may rely on. `RLPxChannel` states this as a specification of
its own, with no codec detail.
- Per role, it has `sent` and `delivered` message sequences and a `failed`
  reason: `"none"`, `"timeout"` or `"broken"`. `tampered` says whether the
  network has interfered.
- `Send(r, m)` appends to `sent[r]`.
- `Deliver(r)` appends the peer's next sent message, and only while `r` has
  not failed. It is weakly fair.
- `Tamper` sets `tampered`.
- `Fail(r, why)` is final. A `"broken"` failure needs `tampered`: an honest
  network breaks a channel only by its deadline.

`RLPxFrame` defines `Chan == INSTANCE RLPxChannel WITH Msg <- Msgs, failed
<- [r |-> ChanFailed(r)], tampered <- attacks > 0`. `ChanFailed` maps
`readErr` to the abstract reason: a MAC error is `"broken"`. `sent` and
`delivered` map to themselves. Every codec step is a channel step or a
stutter:
- a `WriteMsg` that returns nil is `Send`;
- a rejected write is a stutter;
- the first attack is `Tamper`, and later ones are stutters;
- a successful `ReadMsg` is `Deliver`;
- a MAC failure is `Fail(r, "broken")`, and a timeout is
  `Fail(r, "timeout")`.

`ChannelRefined == Chan!Spec`, fairness included, is checked as a PROPERTY
in frame_delivery on an honest network. The writer's size check, the header
length, the padding, the MAC chains and the fair read loop must all agree
for it to hold. With attacks, the liveness half would need the read deadline
to be fair whenever the reader is blocked, and that run is too slow. The
safety half under attack adds nothing to Integrity there, so frame_safety
checks Integrity and ChainInStep instead.

### RLPxTransport.tla (with MC_RLPxTransport.tla)

**Scope.** One connection after the encryption handshake, with the frame
codec abstracted to whole frames (`RLPxFrame` checks the codec). A frame is
a record of kind `hs`, `disc`, `data` or `broken` (a write that failed
part-way), the sender's version, and whether it was compressed.

**State, per role.** `pc` is the connection owner's program point. `hsw`
is the write goroutine, and `werr` is the one-slot channel. `rerr` and
`their` are what `readProtocolHandshake` returned; `result` is what
`doProtoHandshake` returned. `snappy` is `rw.snappy`. `wmu` is the holder
of the mutex. `writing` is the set of writers with a frame in progress on the
fd. `wire` holds the frames in flight, and `closed` is the fd.

**Actions.**

| Action | Code |
|---|---|
| `Start` | rlpx.go 132-138: the channel and the goroutine |
| `HswDone`, `HswFail` | 138: `Send` returns nil, or fails (peer gone or deadline), possibly after part of the frame |
| `ReadHs`, `ReadEOF`, `ReadDeadline` | 152-183 and the `newRLPX` deadline |
| `JoinErr`, `JoinOK` | 139-150: `<-werr` on both paths; the read error is preferred; the snappy switch |
| `Close`, `CloseDone` | 113-130: `wmu`, a disconnect frame iff the error is a `DiscReason`, then `fd.Close` |
| `ProtoWriteBegin`, `ProtoWriteEnd` | 106-111: `rlpx.WriteMsg` under `wmu`, compressing iff `rw.snappy` |
| `ReadUp` | 99-104 with the snappy decode of 767-780 |

The caller (the server, outside `src/`) may close before the protocol
handshake (its post-handshake checks failed), on a live connection, or after
a failed `doProtoHandshake`, with the error it returned.

**Bounds.** Versions {5, 6} with `SnappyVersion = 5`, so both builds compress.
Every build whose code contains the snappy switch of rlpx.go:147 advertises at
least `snappyProtocolVersion`, so a build below it is not modelled. Each side writes at most two protocol
frames (`MaxData = 4`); the echo run needs none (`MaxData = 0`). These bounds give 28,164 states, which include every
order of the two goroutines, the two readers, both closes and the writers,
with several protocol frames in flight behind the handshake frames.

### MinervaLRU.tla (with MC_MinervaLRU.tla)

`lru.get` holds `lru.mu` for its whole body, so each call is one `Get` step.
- An item is the index of the `lru.new` call that made it. `made` records
  each item's epoch.
- `simplelru` is an external package. It is modelled by its documented
  behaviour: a hit moves to the most recent end, and an add evicts the least
  recent beyond the size.
- `newlru` with `maxItems = 2` gives a cache of two.
- `lru.new` is `NewDataset`, which makes a `Dataset` holding its epoch: the
  model appends the epoch to `made`. No code under `src/` constructs the lru;
  the `Minerva` struct's `datasets` field is commented out. The model follows
  the constructor's documented use.
- `maxEpoch = 6`. Requests cover every epoch 0..5, the last two included, in
  any order, until eight items have been made.

## 4. Runs

| Run | Checks | Result and meaning |
|---|---|---|
| handshake_safety | TypeOK, KeyAgreement, VersionGate, Termination (P256) | pass, 482,076 states, about 40 seconds. Completed handshakes agree on AES/MAC secrets and on swapped MAC seeds. `Remote` is the real peer even against an impostor that also presents the claimed node's valid certificate, because the response is sealed to the claimed key. Mismatched versions never give secrets, although the receiver has already answered. Under weak fairness of each side's steps, and with no deadline assumed, both handshakes return: the advertised `CertSize` lets the initiator write first. |
| handshake_s256_binding | EphemeralBinding (S256) | pass, 49,470 states. Where `SigToPub` really recovers the signer, the receiver accepts the initiator's ephemeral key only from the node it claims to be. |
| handshake_decode_panic | NoPanic | violation. A peer that seals a non-RLP plaintext to the other end's key makes `decodePlain` panic. This happens for an auth message to a listener (rlpx.go:529) and for an auth response to a dialer (rlpx.go:550). TLC's shortest trace is the listener's. With `Forgers = {"rcv"}` it is the dialer's. |
| handshake_p256_ephemeral | EphemeralBinding (P256) | violation. `SigToPub` takes `sig[65:]` unchecked (signature_cgo.go:64). |
| handshake_s256_keccak_nil | FrameSecretsValid (S256) | violation. `Keccak256` returns nil (crypto.go:74), and `newRLPXFrameRW` panics after every handshake. |
| frame_safety | TypeOK, Integrity, ChainInStep | pass, 1,157,352 states, about 2 minutes. Whatever one attack does, each reader returns a prefix of what the peer sent. Its ingress MAC is a prefix of the peer's egress MAC until a read fails. Every body is padded to whole blocks. |
| frame_delivery | ChannelRefined | pass, 25,416 states. On an honest network with fair reads, the codec implements `RLPxChannel`. Each return is the peer's next message. A read fails only by its deadline. Nothing comes after an error. Every accepted message is eventually returned unless the read failed. |
| frame_size_wrap | Delivery | violation. With `msg.Size` near 2^32, `fsize` wraps under the limit (rlpx.go:682). `WriteMsg` returns nil and the peer fails with `bad frame MAC`. |
| frame_keystream_reuse | KeystreamUnique | violation. Both directions start the same AES key at position 0 of a zero IV (rlpx.go:658-659). |
| transport_safety | TypeOK, FramesNotInterleaved, EarlyDiscReported, HandshakeReturns | pass, 28,164 states. The handshake goroutine takes no lock, yet no two frames are ever in progress on one fd, because both return paths wait on `werr`. A peer that disconnects with a reason before its handshake has that reason reported, not our failed write. Every `doProtoHandshake` returns. |
| transport_disc_echo | NoDiscEcho | violation, 8 steps. The peer closes with a disconnect frame during the protocol handshake. `readProtocolHandshake` returns the reason as a `DiscReason` (rlpx.go:167), against its own comment. The caller's `close` then writes a disconnect frame back. |
| lru_safety | TypeOK, ItemMatchesEpoch, FutureMatches | pass, 310,139 states. For every epoch, the last two included, `get` returns the item of the epoch asked for, whether from the cache, from the future item or new. The future item is the one for `lru.future`. |

Each property of a passing run has a mutant in `PROJECT.json`: a plausible
bug in the mapped code that TLC catches with the run's own configuration.
- An unswapped MAC seed breaks KeyAgreement.
- A dropped version check breaks VersionGate.
- Unchecked signature recovery breaks EphemeralBinding.
- An initiator that reads before writing breaks Termination.
- An unconverted uint16 breaks TypeOK (handshake).
- Padding that is one too long breaks TypeOK (frame).
- MACs that are never compared break Integrity and ChainInStep.
- A uint24 check off by one breaks ChannelRefined: the peer fails with a
  MAC error on an honest network.
- A read-error path that does not wait on `werr` breaks FramesNotInterleaved.
- Preferring the write error breaks EarlyDiscReported.
- A goroutine that reports only failures breaks HandshakeReturns.
- An unwrapped write error breaks TypeOK (transport).
- A future hit for any epoch up to `lru.future` breaks ItemMatchesEpoch.
- A future epoch recorded without its item breaks FutureMatches.
- Eviction one item late breaks TypeOK (lru).

### Observations no run checks

- **The spec contradicts itself on the payload limit.** Its round-trip test
  says a payload of 2^24-1 bytes round-trips. Its `writeFrame` contract, like
  the code (rlpx.go:683), counts the code byte into the limit.
- **The last epoch's dataset can be generated twice.** A `get` of epoch
  `maxEpoch-1` does not advance `lru.future` (minerva.go:140). A later
  `get(maxEpoch-2)` then generates the last epoch's dataset again while it is
  cached. This costs only time: `lru_safety` covers these requests, and the
  results stay correct.
- **No property compares the certificate key.** A certificate that passes
  `VerifyCert` but carries another key can only come from an impostor.
  The impostor cannot open the sealed response, so it never gets that far
  as initiator. KeyAgreement holds whether or not the comparison at
  rlpx.go:346 is there.

## 5. Fairness

- **Handshake.** Each step of each side is weakly fair, because it is code
  that runs once its read returns. `ReadEOF` is weakly fair, because a read on
  a closed and drained socket returns. `Timeout` is not fair: the deadline
  may fire, but Termination must hold without it.
- **Transport.** The goroutines are weakly fair: the write goroutine,
  `CloseDone` and `ProtoWriteEnd` finish once started. So are the handshake
  steps of the owner and the caller's `close` after a failed handshake.
  `ReadDeadline` is weakly fair because `newRLPX` sets an absolute deadline 5 s
  ahead, so a handshake read always ends. A close of a live connection and the
  protocols' writes are not fair.
- **Frame codec.** `ReadMsg` is weakly fair, because the peer's read loop
  calls it as long as the connection lives. Writers are not fair:
  ChannelRefined and Delivery speak only of messages that were sent.
  `ReadTimeout` and the attacks are not fair. A timeout is an allowed failure
  of the abstract channel, and Delivery excludes it.

## 6. Not modelled, and why

- **Certificate parsing and CA verification** are external collaborators. A
  certificate is abstracted to (length, key, valid).
- **`importPublicKey` failures and `GenerateShared` errors.** Keys in the
  model are always well-formed points.
- **ECIES internals and the fixed `encAuthMsgLen` read.** A sealed item is
  read whole.
- **Byte-level garbling after a misaligned read.** Any misread chunk is
  "garbled", and every garbled MAC fails.
- **The assignment of `t.rw` under `wmu` in `doEncHandshake`** is part of
  `Finish`. `rlpx.ReadMsg` reads `t.rw` under `rmu` only, which would race
  only with a reader that starts before `doEncHandshake` returns. No code
  does that, so it is not listed as a hazard.
- **Crypto helpers outside the protocol:** `ToECDSA`, `UnmarshalPubkey`,
  `FromECDSA(Pub)`, `ValidateSignatureValues`, `CreateAddress`, `Hash256`,
  `Double256` and the key file helpers. They are pure functions or file I/O
  that nothing in the modelled code calls. Keys in the model are symbolic,
  so no run could tell their byte-level results apart.
- **`fakeElection`** (minerva.go) is the committee of the fake engines that
  tests build. Its `VerifySigns` takes the signer from `SigToPub`, so under
  P256 it inherits the unchecked key of the handshake_p256_ephemeral finding.
  It only serves test engines, so no module models it.
- **`SetElection`/`GetElection`, `ToMinervaMode` and the engine
  constructors** only build values. No concurrent use of them is in `src/`.
- **`rmu`.** The read loop is the only reader after the handshake.
- **The size and identity checks of the capability handshake.** Our own
  builds always send a valid handshake.
- **minerva's constructors, fake election, amino registration, error values
  and tests** hold no protocol state.
