---------------------------------- MODULE Mesh ----------------------------------
(***************************************************************************)
(* Based mesh packets: BasedMeshWrapper (crates/consensus/src/             *)
(* based_mesh.rs), sent raw or as an EIP-4844 blob to other nodes          *)
(* (bgp.rs), verified there under the receiver's crypto profile            *)
(* (crates/crypto/src/lib.rs), and archived (archival.rs).                 *)
(*                                                                         *)
(* A packet is a head of fixed size, the KZG fields and a payload; only    *)
(* sizes matter to the blob, so a payload is a sequence of Bytes and the   *)
(* head counts as HeadBytes.  A blob has Elements field elements of        *)
(* ElementBytes usable bytes each (4096 of 31), the first of which holds   *)
(* the length.  Commitments, hashes and content identifiers are            *)
(* collision-free: the commitment of a blob is the blob, a content         *)
(* identifier the content.                                                 *)
(*                                                                         *)
(* A definition Mut<Name> is <Name> with a mistake one could make in that  *)
(* code; it is used nowhere and tells which property would notice.         *)
(***************************************************************************)
EXTENDS Integers, Sequences, FiniteSets

CONSTANTS
  Nodes,         \* each with one manifold and one configuration
  Archives,      \* nodes that run an archival daemon
  Threads,       \* threads of such a node that archive
  Profiles,      \* names a configuration may give, keys of the tables below
  Schemes,       \* the proof schemes in use
  Diffs,         \* state_diff_blob_hash
  Bytes,         \* what a payload is made of
  Payloads,      \* execution payloads, serialized messages
  Witnesses,     \* encoded account witnesses, the other content archived
  HeadBytes,     \* the size of a packet without its payload
  Elements,      \* field elements of a blob
  ElementBytes,  \* usable bytes of a field element
  NoKzg,         \* commitment and proof all zero, no points of the curve
  Idle,          \* a thread that archives nothing
  MaxEmitted,    \* bound: packets made
  MaxWire,       \* bound: messages in the tunnels
  MaxPinned      \* bound: identifiers in a list

ASSUME PayloadsAssumption == Payloads \subseteq Seq(Bytes)
ASSUME SizesAssumption ==
  /\ HeadBytes \in Nat /\ Elements \in Nat \ {0} /\ ElementBytes \in Nat \ {0}
  /\ HeadBytes <= (Elements - 1) * ElementBytes

VARIABLES
  profile,   \* default_crypto_profile of each node, read when it starts
  emitted,   \* history: packets made so far
  wire,      \* messages in the tunnels
  held,      \* packets each node made or received since it started
  storage,   \* contents pinned in each node's backend
  pinned,    \* pinned_cids of each node's daemon
  job        \* archive calls between the pin and the registration: what, for whom

vars == <<profile, emitted, wire, held, storage, pinned, job>>

-----------------------------------------------------------------------------
(* Profiles                                                                *)

HashOf == [ethereum |-> "Keccak256", throughput |-> "Blake3", quantum_standard |-> "Poseidon",
           iot_compact |-> "Keccak256", quantum_hardened |-> "Sha256", mina_recursive |-> "Poseidon"]
CurveOf == [ethereum |-> "Bn254", throughput |-> "Bn254", quantum_standard |-> "Bls12381",
            iot_compact |-> "Bls12381", quantum_hardened |-> "Bls12381", mina_recursive |-> "BabyBear"]

ASSUME ProfilesAssumption == Profiles \subseteq DOMAIN HashOf

(* The hash-based schemes go with every curve.                             *)
Admits(f, s) ==
  \/ s \in {"BiniusBinaryStark", "Plonky3Blake3"}
  \/ <<s, CurveOf[f]>> \in {<<"Groth16Bn254", "Bn254">>, <<"SpruceSp1Bls12381", "Bls12381">>,
                            <<"RiscZeroBonsai", "BabyBear">>}

-----------------------------------------------------------------------------
(* Packets and blobs                                                       *)

Heads == [source : Nodes, diff : Diffs, scheme : Schemes,
          binding : [by : {HashOf[f] : f \in Profiles}, diff : Diffs]]

Size(p) == HeadBytes + Len(p.payload)

Capacity == Elements * ElementBytes           \* max_usable
MutCarried == (Elements - 2) * ElementBytes
Carried == (Elements - 1) * ElementBytes      \* what the elements after the first hold
BlobSize == Elements * (ElementBytes + 1)     \* 131,072

Fits(p) == Size(p) <= Capacity

Shorter(a, b) == IF a < b THEN a ELSE b

(* The first n bytes of a packet with its KZG fields zeroed.               *)
Cut(p, n) ==
  [head |-> p.head, kzg |-> NoKzg, payload |-> SubSeq(p.payload, 1, Shorter(n - HeadBytes, Len(p.payload)))]

(* to_eip4844_blob_bytes, of a packet that Fits: the rest that the         *)
(* elements do not hold is left out without an error.                      *)
BlobOf(p) == [len |-> Size(p), data |-> Cut(p, Carried)]

(* from_eip4844_blob_bytes: the payload is last and says its length, so    *)
(* whatever is missing is noticed.                                         *)
Decodes(b) == b.len <= Capacity /\ Size(b.data) = b.len

(* The KZG fields are computed anew from the blob.                         *)
MutDecoded(b) == b.data
Decoded(b) == [b.data EXCEPT !.kzg = b]

MutWithKzg(p) == [p EXCEPT !.kzg = BlobOf(p)]
WithKzg(p) == [p EXCEPT !.kzg = IF Fits(p) THEN BlobOf(p) ELSE NoKzg]

(* new_with_valid_binding and new, under the maker's profile.              *)
Made(n, d, s, x) ==
  WithKzg([head |-> [source |-> n, diff |-> d, scheme |-> s,
                     binding |-> [by |-> HashOf[profile[n]], diff |-> d]],
           kzg |-> NoKzg, payload |-> x])

(* verify_validity_proof under a profile.                                  *)
Verifies(p, f) ==
  /\ Fits(p)
  /\ p.kzg = BlobOf(p)
  /\ p.head.binding = [by |-> HashOf[f], diff |-> p.head.diff]
  /\ Admits(f, p.head.scheme)

-----------------------------------------------------------------------------
(* Sending and receiving                                                   *)

(* from_message.  There is no error: a packet that does not fit a blob     *)
(* simply has no commitment.                                               *)
Emit(n, d, s, x) ==
  /\ Cardinality(emitted \cup {Made(n, d, s, x)}) <= MaxEmitted
  /\ emitted' = emitted \cup {Made(n, d, s, x)}
  /\ held' = [held EXCEPT ![n] = @ \cup {Made(n, d, s, x)}]
  /\ UNCHANGED <<profile, wire, storage, pinned, job>>

Raw(p, m) == [to |-> m, form |-> "raw", packet |-> p]
AsBlob(p, m) == [to |-> m, form |-> "blob", packet |-> p]

(* broadcast_based_mesh_packet.  A tunnel that fails is passed over and    *)
(* one without a session keeps the packet back, so any of the peers may    *)
(* be sent it.                                                             *)
Broadcast(n, p) ==
  /\ p \in held[n]
  /\ \E to \in SUBSET (Nodes \ {n}) : wire' = wire \cup {Raw(p, m) : m \in to}
  /\ Cardinality(wire') <= MaxWire
  /\ UNCHANGED <<profile, emitted, held, storage, pinned, job>>

(* A blob of the packet is sent, when to_eip4844_blob_bytes returns one.   *)
SendBlob(n, p, m) ==
  /\ p \in held[n]
  /\ Fits(p)
  /\ wire' = wire \cup {AsBlob(p, m)}
  /\ Cardinality(wire') <= MaxWire
  /\ UNCHANGED <<profile, emitted, held, storage, pinned, job>>

(* Packets of the datagrams the tunnels lose.  What is delivered is not    *)
(* delivered again: the tunnel knows replays.                              *)
Lose(g) ==
  /\ g \in wire
  /\ wire' = wire \ {g}
  /\ UNCHANGED <<profile, emitted, held, storage, pinned, job>>

(* The packet a message is decoded to, if any.  A raw packet that happens  *)
(* to have the size of a blob is taken for one: the length read from it is *)
(* part of its source's id, and beyond Capacity for the ids in use.        *)
Sent(g) == {p \in {g.packet} : Size(p) # BlobSize}
MutReadings(g) ==
  LET b == BlobOf(g.packet)
      zero == CHOOSE z \in Bytes : TRUE
      filled == [Decoded(b) EXCEPT !.payload =
                   [i \in 1..(b.len - HeadBytes) |-> IF i \in DOMAIN @ THEN @[i] ELSE zero]]
  IN  IF g.form = "raw" THEN Sent(g) ELSE {filled}
Readings(g) ==
  IF g.form = "raw"
    THEN Sent(g)
    ELSE {p \in {Decoded(BlobOf(g.packet))} : Decodes(BlobOf(g.packet))}

(* receive_based_mesh_packet.                                              *)
Accept(g) ==
  /\ g \in wire
  /\ \E p \in Readings(g) :
       /\ Verifies(p, profile[g.to])
       /\ held' = [held EXCEPT ![g.to] = @ \cup {p}]
  /\ wire' = wire \ {g}
  /\ UNCHANGED <<profile, emitted, storage, pinned, job>>

Refuse(g) ==
  /\ g \in wire
  /\ \A p \in Readings(g) : ~Verifies(p, profile[g.to])
  /\ wire' = wire \ {g}
  /\ UNCHANGED <<profile, emitted, held, storage, pinned, job>>

-----------------------------------------------------------------------------
(* Archiving                                                               *)

(* The bytes are pinned under the backend's lock ...                       *)
Store(n, t, c, m) ==
  /\ n \in Archives
  /\ job[n][t] = Idle
  /\ storage' = [storage EXCEPT ![n] = @ \cup {c}]
  /\ job' = [job EXCEPT ![n][t] = [content |-> c, manifold |-> m]]
  /\ UNCHANGED <<profile, emitted, wire, held, pinned>>

(* archive_based_mesh_packet, for the packet's source.                     *)
Pin(n, t, p) == p \in held[n] /\ Store(n, t, p, p.head.source)

(* archive_account_witness, for whichever manifold the caller says.        *)
PinWitness(n, t, w, m) == Store(n, t, w, m)

(* ... and the identifier is appended to the manifold's list under         *)
(* another, whether the list has it or not, and whatever it is of.         *)
Register(n, t) ==
  /\ job[n][t] # Idle
  /\ Len(pinned[n][job[n][t].manifold]) < MaxPinned
  /\ pinned' = [pinned EXCEPT ![n][job[n][t].manifold] = Append(@, job[n][t].content)]
  /\ job' = [job EXCEPT ![n][t] = Idle]
  /\ UNCHANGED <<profile, emitted, wire, held, storage>>

Unused == [m \in Nodes |-> <<>>]
AllIdle == [t \in Threads |-> Idle]

(* A node stops and starts again: the configuration is read anew, and the  *)
(* packets, the backend and the lists were in memory.                      *)
Restart(n, f) ==
  /\ profile' = [profile EXCEPT ![n] = f]
  /\ held' = [held EXCEPT ![n] = {}]
  /\ storage' = [storage EXCEPT ![n] = {}]
  /\ pinned' = [pinned EXCEPT ![n] = Unused]
  /\ job' = [job EXCEPT ![n] = AllIdle]
  /\ UNCHANGED <<emitted, wire>>

Init ==
  /\ profile \in [Nodes -> Profiles]
  /\ emitted = {} /\ wire = {}
  /\ held = [n \in Nodes |-> {}]
  /\ storage = [n \in Nodes |-> {}]
  /\ pinned = [n \in Nodes |-> Unused]
  /\ job = [n \in Nodes |-> AllIdle]

Next ==
  \/ \E n \in Nodes :
       \/ \E d \in Diffs, s \in Schemes, x \in Payloads : Emit(n, d, s, x)
       \/ \E p \in held[n] : Broadcast(n, p) \/ \E m \in Nodes \ {n} : SendBlob(n, p, m)
       \/ \E t \in Threads : Register(n, t)
                            \/ \E p \in held[n] : Pin(n, t, p)
                            \/ \E w \in Witnesses, m \in Nodes : PinWitness(n, t, w, m)
       \/ \E f \in Profiles : Restart(n, f)
  \/ \E g \in wire : Lose(g) \/ Accept(g) \/ Refuse(g)

Spec == Init /\ [][Next]_vars

-----------------------------------------------------------------------------
(* Properties                                                              *)

PacketOf(kzg, payloads) == [head : Heads, kzg : kzg, payload : payloads]
BlobData == PacketOf({NoKzg}, Seq(Bytes))
Blob == [len : 0..Capacity, data : BlobData]
Packet == PacketOf(Blob \cup {NoKzg}, Payloads)
Content == Packet \cup Witnesses
Job == [content : Content, manifold : Nodes]
Message == [to : Nodes, form : {"raw", "blob"}, packet : Packet]

TypeOK ==
  /\ profile \in [Nodes -> Profiles]
  /\ emitted \subseteq Packet
  /\ wire \subseteq Message
  /\ held \in [Nodes -> SUBSET Packet]
  /\ storage \in [Nodes -> SUBSET Content]
  /\ pinned \in [Nodes -> [Nodes -> Seq(Content)]]
  /\ job \in [Nodes -> [Threads -> Job \cup {Idle}]]

(* No packet is refused without a reason: the profiles of its maker and    *)
(* its receiver differ in their hash, the receiver's curve is not the      *)
(* scheme's, or the packet is too large.  Sent as a blob it is too large   *)
(* from the size on that the elements after the first cannot hold, one     *)
(* element less than to_eip4844_blob_bytes refuses.                        *)
RefusedForAReason ==
  \A g \in wire :
    LET p == g.packet
        f == profile[g.to]
    IN  \/ \E q \in Readings(g) : Verifies(q, f)
        \/ p.head.binding.by # HashOf[f]
        \/ ~Admits(f, p.head.scheme)
        \/ Size(p) > (IF g.form = "raw" THEN Elements ELSE Elements - 1) * ElementBytes

(* A commitment names one packet: two with the same commitment are the     *)
(* same, unless their last bytes are not in the blob it was computed from. *)
CommitmentIdentifies ==
  \A p, q \in emitted :
    p.kzg = q.kzg /\ p # q => p.kzg = NoKzg \/ Size(p) > (Elements - 1) * ElementBytes

(* What a node takes for a packet, and what it archives as one, is to the  *)
(* last byte one that some node made, although blobs leave out the last    *)
(* bytes of the larger ones and the recomputed KZG fields fit whatever     *)
(* came: receive_based_mesh_packet never takes a beginning for the whole.  *)
WholePackets ==
  \A n \in Nodes : held[n] \cup (storage[n] \ Witnesses) \subseteq emitted
=============================================================================
