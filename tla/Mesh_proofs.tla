------------------------------ MODULE Mesh_proofs ------------------------------
(***************************************************************************)
(* Theorems about based mesh packets, for any nodes, profiles, payloads    *)
(* and blob sizes.  What a blob gives back is the subject of the lemmas on *)
(* Cut; Genuine, that every packet is its maker's, carries the theorems.   *)
(***************************************************************************)
EXTENDS Mesh, SequenceTheorems, TLAPS

-----------------------------------------------------------------------------
(* Blobs                                                                   *)

(* The sizes, and which is the smaller.                                    *)
LEMMA SizeTypes ==
  /\ Capacity \in Nat /\ Carried \in Nat /\ BlobSize \in Nat
  /\ Carried = (Elements - 1) * ElementBytes /\ Carried - HeadBytes \in Nat
  /\ Carried <= Capacity /\ Capacity < BlobSize /\ HeadBytes \in Nat
<1> DEFINE e == Elements - 1
<1>1. e \in Nat /\ Elements = e + 1 /\ ElementBytes \in Nat /\ HeadBytes \in Nat
  BY SizesAssumption
<1>2. e * ElementBytes \in Nat /\ (e + 1) * ElementBytes = e * ElementBytes + ElementBytes
  BY <1>1
<1>3. (e + 1) * (ElementBytes + 1) = (e + 1) * ElementBytes + e + 1
  BY <1>1
<1> QED  BY <1>1, <1>2, <1>3, SizesAssumption DEF Capacity, Carried, BlobSize

(* The parts of a packet.                                                  *)
LEMMA PacketFields ==
  ASSUME NEW p \in Packet
  PROVE  /\ p.payload \in Seq(Bytes) /\ p.payload \in Payloads
         /\ Len(p.payload) \in Nat /\ Size(p) \in Nat
         /\ p = [head |-> p.head, kzg |-> p.kzg, payload |-> p.payload]
         /\ p.head \in Heads
  BY PayloadsAssumption, SizeTypes DEF Packet, PacketOf, Size

(* What the elements hold of a packet.                                     *)
LEMMA CutShape ==
  ASSUME NEW p \in Packet
  PROVE  LET k == Shorter(Carried - HeadBytes, Len(p.payload))
         IN  /\ k \in 0..Len(p.payload)
             /\ Cut(p, Carried) = [head |-> p.head, kzg |-> NoKzg, payload |-> SubSeq(p.payload, 1, k)]
             /\ SubSeq(p.payload, 1, k) \in Seq(Bytes)
             /\ Len(SubSeq(p.payload, 1, k)) = k
             /\ k = Len(p.payload) => SubSeq(p.payload, 1, k) = p.payload
<1> DEFINE s == p.payload
           k == Shorter(Carried - HeadBytes, Len(s))
<1>1. s \in Seq(Bytes) /\ Len(s) \in Nat
  BY PacketFields
<1>2. k \in 0..Len(s)
  BY <1>1, SizeTypes DEF Shorter
<1>3. SubSeq(s, 1, k) \in Seq(Bytes) /\ Len(SubSeq(s, 1, k)) = k
  BY <1>1, <1>2
<1>4. k = Len(s) => SubSeq(s, 1, k) = s
  BY <1>1
<1>5. Cut(p, Carried) = [head |-> p.head, kzg |-> NoKzg, payload |-> SubSeq(s, 1, k)]
  BY DEF Cut
<1> QED  BY <1>2, <1>3, <1>4, <1>5

(* A packet that fits becomes a blob.                                      *)
LEMMA BlobType ==
  ASSUME NEW p \in Packet, Fits(p)
  PROVE  BlobOf(p) \in Blob
<1>1. Size(p) \in 0..Capacity
  BY PacketFields, SizeTypes DEF Fits
<1> DEFINE k == Shorter(Carried - HeadBytes, Len(p.payload))
           c == SubSeq(p.payload, 1, k)
<1>2. Cut(p, Carried) \in BlobData
  <2>1. c \in Seq(Bytes) /\ p.head \in Heads
    BY CutShape, PacketFields
  <2>2. Cut(p, Carried) = [head |-> p.head, kzg |-> NoKzg, payload |-> c]
    BY CutShape
  <2> HIDE DEF c
  <2> QED  BY <2>1, <2>2 DEF BlobData, PacketOf
<1> QED  BY <1>1, <1>2 DEF BlobOf, Blob

(* A blob decodes only to the packet it was made from, its KZG fields      *)
(* computed anew.                                                          *)
LEMMA RoundTrip ==
  ASSUME NEW p \in Packet, Decodes(BlobOf(p))
  PROVE  /\ Decoded(BlobOf(p)) = [p EXCEPT !.kzg = BlobOf(p)]
         /\ Fits(p)
<1> DEFINE k == Shorter(Carried - HeadBytes, Len(p.payload))
<1>1. BlobOf(p).len = Size(p) /\ BlobOf(p).data = Cut(p, Carried)
  BY DEF BlobOf
<1>2. Size(Cut(p, Carried)) = Size(p) /\ Fits(p)
  BY <1>1 DEF Decodes, Fits
<1>3. Cut(p, Carried).payload = SubSeq(p.payload, 1, k)
  BY CutShape
<1>4. k = Len(p.payload)
  <2>1. Len(Cut(p, Carried).payload) = k /\ k \in Nat
    BY <1>3, CutShape, PacketFields
  <2>2. HeadBytes + k = HeadBytes + Len(p.payload)
    BY <1>2, <2>1 DEF Size
  <2> QED  BY <2>1, <2>2, PacketFields, SizeTypes
<1>5. Cut(p, Carried) = [head |-> p.head, kzg |-> NoKzg, payload |-> p.payload]
  BY <1>4, CutShape
<1> HIDE DEF k
<1>6. Decoded(BlobOf(p)) = [head |-> p.head, kzg |-> BlobOf(p), payload |-> p.payload]
  BY <1>1, <1>5 DEF Decoded
<1>7. [p EXCEPT !.kzg = BlobOf(p)] = [head |-> p.head, kzg |-> BlobOf(p), payload |-> p.payload]
  BY PacketFields
<1> QED  BY <1>2, <1>6, <1>7

(* Up to the size the elements after the first hold, a packet comes back.  *)
LEMMA SmallWhole ==
  ASSUME NEW p \in Packet, Size(p) <= Carried
  PROVE  Cut(p, Carried).payload = p.payload
<1> DEFINE k == Shorter(Carried - HeadBytes, Len(p.payload))
<1>1. k = Len(p.payload)
  BY PacketFields, SizeTypes DEF Size, Shorter
<1>2. Cut(p, Carried).payload = SubSeq(p.payload, 1, k)
  BY DEF Cut
<1> QED  BY <1>1, <1>2, CutShape

(* One that a blob carries whole can be read back.                         *)
LEMMA SmallDecodes ==
  ASSUME NEW p \in Packet, Size(p) <= Carried
  PROVE  Decodes(BlobOf(p)) /\ Fits(p)
<1>1. Size(Cut(p, Carried)) = Size(p)
  BY SmallWhole DEF Size
<1>2. Size(p) <= Capacity
  BY PacketFields, SizeTypes
<1> QED  BY <1>1, <1>2 DEF Decodes, BlobOf, Fits

-----------------------------------------------------------------------------
(* What is made, verified and read                                         *)

(* What every packet is from the moment it is made: its KZG fields are of  *)
(* its own blob and its binding is of its own state diff.                  *)
Genuine(p) ==
  /\ p.kzg = IF Fits(p) THEN BlobOf(p) ELSE NoKzg
  /\ p.head.binding.diff = p.head.diff

(* A packet that a node makes has the binding and commitment it should.    *)
LEMMA MadeIsGenuine ==
  ASSUME TypeOK, NEW n \in Nodes, NEW d \in Diffs, NEW s \in Schemes, NEW x \in Payloads
  PROVE  Made(n, d, s, x) \in Packet /\ Genuine(Made(n, d, s, x))
<1> DEFINE h == [source |-> n, diff |-> d, scheme |-> s, binding |-> [by |-> HashOf[profile[n]], diff |-> d]]
           p == [head |-> h, kzg |-> NoKzg, payload |-> x]
           z == IF Fits(p) THEN BlobOf(p) ELSE NoKzg
           q == [head |-> h, kzg |-> z, payload |-> x]
<1>1. h \in Heads /\ h.binding.diff = h.diff
  BY DEF TypeOK, Heads
<1> HIDE DEF h
<1>2. p \in Packet
  BY <1>1 DEF Packet, PacketOf
<1>3. z \in Blob \cup {NoKzg}
  BY <1>2, BlobType
<1>4. Fits(q) = Fits(p) /\ BlobOf(q) = BlobOf(p)
  BY DEF Fits, Size, BlobOf, Cut
<1>5. Made(n, d, s, x) = q
  BY DEF Made, WithKzg, h
<1>6. q.kzg = IF Fits(q) THEN BlobOf(q) ELSE NoKzg
  BY <1>4
<1> HIDE DEF z
<1>7. q \in Packet
  BY <1>1, <1>3 DEF Packet, PacketOf
<1> QED  BY <1>1, <1>5, <1>6, <1>7 DEF Genuine

(* Whichever way a genuine packet comes, it is read as itself.             *)
LEMMA ReadAsItself ==
  ASSUME NEW g \in Message, Genuine(g.packet), NEW q \in Readings(g)
  PROVE  q = g.packet
<1> DEFINE p == g.packet
<1>1. p \in Packet
  BY DEF Message
<1>2. CASE g.form = "raw"
  BY <1>2 DEF Readings, Sent
<1>3. CASE g.form # "raw"
  <2>1. q = Decoded(BlobOf(p)) /\ Decodes(BlobOf(p))
    BY <1>3 DEF Readings
  <2>2. q = [p EXCEPT !.kzg = BlobOf(p)] /\ Fits(p)
    BY <1>1, <2>1, RoundTrip
  <2>3. p.kzg = BlobOf(p)
    BY <2>2 DEF Genuine
  <2> QED  BY <1>1, <2>2, <2>3, PacketFields
<1> QED  BY <1>2, <1>3

-----------------------------------------------------------------------------
(* The inductive invariant: whatever is sent, held or archived as a packet *)
(* was emitted.                                                            *)

FromEmitted ==
  /\ \A p \in emitted : Genuine(p)
  /\ \A g \in wire : g.packet \in emitted
  /\ \A n \in Nodes : held[n] \subseteq emitted /\ storage[n] \ Witnesses \subseteq emitted

IInv == TypeOK /\ FromEmitted

(* The invariant at first, nothing being sent or archived.                 *)
LEMMA InitInv == Init => IInv
<1> SUFFICES ASSUME Init PROVE IInv
  OBVIOUS
<1>1. TypeOK
  BY DEF Init, TypeOK, Unused, AllIdle
<1>2. FromEmitted
  BY DEF Init, FromEmitted
<1> QED  BY <1>1, <1>2 DEF IInv

(* Making a packet keeps it.                                               *)
LEMMA EmitInv ==
  ASSUME IInv, NEW n \in Nodes, NEW d \in Diffs, NEW s \in Schemes, NEW x \in Payloads, Emit(n, d, s, x)
  PROVE  IInv'
<1> DEFINE p == Made(n, d, s, x)
<1>1. p \in Packet /\ Genuine(p)
  BY MadeIsGenuine DEF IInv
<1> HIDE DEF p
<1>2. /\ emitted' = emitted \cup {p} /\ held' = [held EXCEPT ![n] = @ \cup {p}]
      /\ UNCHANGED <<profile, wire, storage, pinned, job>>
  BY DEF Emit, p
<1>3. TypeOK'
  BY <1>1, <1>2 DEF IInv, TypeOK
<1>4. FromEmitted'
  <2>1. \A q \in emitted' : Genuine(q)
    BY <1>1, <1>2 DEF IInv, FromEmitted
  <2>2. \A m \in Nodes : held'[m] \subseteq emitted'
    BY <1>2 DEF IInv, TypeOK, FromEmitted
  <2> QED  BY <1>2, <2>1, <2>2 DEF IInv, FromEmitted
<1> QED  BY <1>3, <1>4 DEF IInv

(* So does sending one, raw or as a blob.                                  *)
LEMMA SendInv ==
  ASSUME IInv, UNCHANGED <<profile, emitted, held, storage, pinned, job>>,
         \A g \in wire' \ wire : g \in Message /\ g.packet \in emitted
  PROVE  IInv'
<1>1. TypeOK'
  BY DEF IInv, TypeOK
<1>2. FromEmitted'
  BY DEF IInv, FromEmitted
<1> QED  BY <1>1, <1>2 DEF IInv

(* So does accepting one.                                                  *)
LEMMA AcceptInv ==
  ASSUME IInv, NEW g \in wire, Accept(g)
  PROVE  IInv'
<1>1. PICK q \in Readings(g) : held' = [held EXCEPT ![g.to] = @ \cup {q}]
  BY DEF Accept
<1>2. g \in Message /\ g.packet \in emitted /\ Genuine(g.packet)
  BY DEF IInv, TypeOK, FromEmitted
<1>3. q = g.packet
  BY <1>2, ReadAsItself
<1>4. q \in emitted /\ q \in Packet /\ g.to \in Nodes
  BY <1>2, <1>3 DEF Message
<1>5. wire' \subseteq wire /\ UNCHANGED <<profile, emitted, storage, pinned, job>>
  BY DEF Accept
<1>6. TypeOK'
  BY <1>1, <1>4, <1>5 DEF IInv, TypeOK
<1>7. FromEmitted'
  <2>1. \A m \in Nodes : held'[m] \subseteq emitted'
    BY <1>1, <1>4, <1>5 DEF IInv, TypeOK, FromEmitted
  <2> QED  BY <1>5, <2>1 DEF IInv, FromEmitted
<1> QED  BY <1>6, <1>7 DEF IInv

(* So does pinning a packet that was made, or a witness.                  *)
LEMMA StoreInv ==
  ASSUME IInv, NEW n \in Nodes, NEW t \in Threads, NEW c \in Content, NEW m \in Nodes, Store(n, t, c, m),
         c \in emitted \/ c \in Witnesses
  PROVE  IInv'
<1> DEFINE j == [content |-> c, manifold |-> m]
<1>1. j \in Job
  BY DEF Job
<1> HIDE DEF j
<1>2. /\ storage' = [storage EXCEPT ![n] = @ \cup {c}]
      /\ job' = [job EXCEPT ![n][t] = j]
      /\ UNCHANGED <<profile, emitted, wire, held, pinned>>
  BY DEF Store, j
<1>3. TypeOK'
  <2>1. storage' \in [Nodes -> SUBSET Content]
    BY <1>2 DEF IInv, TypeOK
  <2>2. job' \in [Nodes -> [Threads -> Job \cup {Idle}]]
    BY <1>1, <1>2 DEF IInv, TypeOK
  <2> QED  BY <1>2, <2>1, <2>2 DEF IInv, TypeOK
<1>4. FromEmitted'
  <2>1. \A k \in Nodes : storage'[k] \ Witnesses \subseteq emitted'
    BY <1>2 DEF IInv, TypeOK, FromEmitted
  <2> QED  BY <1>2, <2>1 DEF IInv, FromEmitted
<1> QED  BY <1>3, <1>4 DEF IInv

(* A packet is archived under its source.                                  *)
LEMMA PinInv ==
  ASSUME IInv, NEW n \in Nodes, NEW t \in Threads, NEW p \in held[n], Pin(n, t, p)
  PROVE  IInv'
<1>1. p \in Packet /\ p \in emitted
  BY DEF IInv, TypeOK, FromEmitted
<1>2. p \in Content /\ p.head.source \in Nodes
  BY <1>1, PacketFields DEF Content, Heads
<1> QED  BY <1>1, <1>2, StoreInv DEF Pin

(* A witness is archived for any manifold, and stays apart from packets.   *)
LEMMA PinWitnessInv ==
  ASSUME IInv, NEW n \in Nodes, NEW t \in Threads, NEW w \in Witnesses, NEW m \in Nodes, PinWitness(n, t, w, m)
  PROVE  IInv'
  BY StoreInv DEF PinWitness, Content

(* Listing what was pinned keeps it.                                       *)
LEMMA RegisterInv ==
  ASSUME IInv, NEW n \in Nodes, NEW t \in Threads, Register(n, t)
  PROVE  IInv'
<1> DEFINE c == job[n][t].content
           m == job[n][t].manifold
           s == pinned[n][m]
<1>1. c \in Content /\ m \in Nodes
  BY DEF Register, IInv, TypeOK, Job
<1>2. s \in Seq(Content)
  BY <1>1 DEF IInv, TypeOK
<1>3. /\ pinned' = [pinned EXCEPT ![n][m] = Append(s, c)]
      /\ job' = [job EXCEPT ![n][t] = Idle]
      /\ UNCHANGED <<profile, emitted, wire, held, storage>>
  BY DEF Register
<1> HIDE DEF c, m, s
<1>4. Append(s, c) \in Seq(Content)
  BY <1>1, <1>2
<1>5. TypeOK'
  <2>1. pinned' \in [Nodes -> [Nodes -> Seq(Content)]]
    BY <1>1, <1>3, <1>4 DEF IInv, TypeOK
  <2>2. job' \in [Nodes -> [Threads -> Job \cup {Idle}]]
    BY <1>3 DEF IInv, TypeOK
  <2> QED  BY <1>3, <2>1, <2>2 DEF IInv, TypeOK
<1>6. FromEmitted'
  BY <1>3 DEF IInv, FromEmitted
<1> QED  BY <1>5, <1>6 DEF IInv

(* So does a restart under another profile.                                *)
LEMMA RestartInv ==
  ASSUME IInv, NEW n \in Nodes, NEW f \in Profiles, Restart(n, f)
  PROVE  IInv'
<1>1. /\ profile' = [profile EXCEPT ![n] = f]
      /\ held' = [held EXCEPT ![n] = {}] /\ storage' = [storage EXCEPT ![n] = {}]
      /\ pinned' = [pinned EXCEPT ![n] = Unused] /\ job' = [job EXCEPT ![n] = AllIdle]
      /\ UNCHANGED <<emitted, wire>>
  BY DEF Restart
<1>2. Unused \in [Nodes -> Seq(Content)] /\ AllIdle \in [Threads -> Job \cup {Idle}]
  BY DEF Unused, AllIdle
<1>3. TypeOK'
  BY <1>1, <1>2 DEF IInv, TypeOK
<1>4. FromEmitted'
  <2>1. \A m \in Nodes : held'[m] \subseteq emitted /\ storage'[m] \ Witnesses \subseteq emitted
    BY <1>1 DEF IInv, TypeOK, FromEmitted
  <2> QED  BY <1>1, <2>1 DEF IInv, FromEmitted
<1> QED  BY <1>3, <1>4 DEF IInv

(* Every step keeps the invariant.                                         *)
LEMMA NextInv == IInv /\ [Next]_vars => IInv'
<1> SUFFICES ASSUME IInv, [Next]_vars PROVE IInv'
  OBVIOUS
<1>1. ASSUME NEW n \in Nodes, NEW p \in held[n], Broadcast(n, p) PROVE IInv'
  <2>1. PICK to \in SUBSET (Nodes \ {n}) : wire' = wire \cup {Raw(p, m) : m \in to}
    BY <1>1 DEF Broadcast
  <2>2. p \in Packet /\ p \in emitted
    BY DEF IInv, TypeOK, FromEmitted
  <2>3. \A g \in wire' \ wire : g \in Message /\ g.packet \in emitted
    BY <2>1, <2>2 DEF Raw, Message
  <2> QED  BY <1>1, <2>3, SendInv DEF Broadcast
<1>2. ASSUME NEW n \in Nodes, NEW p \in held[n], NEW m \in Nodes, SendBlob(n, p, m) PROVE IInv'
  <2>1. p \in Packet /\ p \in emitted
    BY DEF IInv, TypeOK, FromEmitted
  <2>2. \A g \in wire' \ wire : g \in Message /\ g.packet \in emitted
    BY <1>2, <2>1 DEF SendBlob, AsBlob, Message
  <2> QED  BY <1>2, <2>2, SendInv DEF SendBlob
<1>3. ASSUME NEW g \in wire, Lose(g) \/ Refuse(g) PROVE IInv'
  BY <1>3, SendInv DEF Lose, Refuse
<1>4. CASE UNCHANGED vars
  BY <1>4, SendInv DEF vars
<1> QED  BY <1>1, <1>2, <1>3, <1>4, EmitInv, AcceptInv, PinInv, PinWitnessInv, RegisterInv, RestartInv DEF Next

(* The invariant, always.                                                  *)
LEMMA Invariance == Spec => []IInv
  BY InitInv, NextInv, PTL DEF Spec

-----------------------------------------------------------------------------
(* Theorems                                                                *)

(* Every variable keeps its type, for any nodes, payloads and blob sizes.  *)
THEOREM TypeCorrect == Spec => []TypeOK
  BY Invariance, PTL DEF IInv

(* receive_based_mesh_packet refuses what was broadcast or sent as a blob  *)
(* only for the profiles or the size.                                      *)
THEOREM Delivery == Spec => []RefusedForAReason
<1>1. IInv => RefusedForAReason
  <2> SUFFICES ASSUME IInv, NEW g \in wire,
                      g.packet.head.binding.by = HashOf[profile[g.to]],
                      Admits(profile[g.to], g.packet.head.scheme),
                      ~(Size(g.packet) > (IF g.form = "raw" THEN Elements ELSE Elements - 1) * ElementBytes)
               PROVE  \E q \in Readings(g) : Verifies(q, profile[g.to])
    BY DEF RefusedForAReason
  <2> DEFINE p == g.packet
  <2>1. g \in Message /\ p \in Packet /\ Genuine(p)
    BY DEF IInv, TypeOK, FromEmitted, Message
  <2>2. Size(p) \in Nat
    BY <2>1, PacketFields
  <2>3. Fits(p) /\ p \in Readings(g)
    <3>1. CASE g.form = "raw"
      <4>1. Size(p) <= Capacity
        BY <2>2, <3>1, SizeTypes DEF Capacity
      <4>2. Size(p) # BlobSize
        BY <2>2, <4>1, SizeTypes
      <4> QED  BY <3>1, <4>1, <4>2 DEF Readings, Sent, Fits
    <3>2. CASE g.form # "raw"
      <4>1. Size(p) <= Carried
        BY <2>2, <3>2, SizeTypes
      <4>2. Decodes(BlobOf(p)) /\ Fits(p)
        BY <2>1, <4>1, SmallDecodes
      <4>3. Decoded(BlobOf(p)) \in Readings(g)
        BY <3>2, <4>2 DEF Readings
      <4> QED  BY <2>1, <4>2, <4>3, ReadAsItself
    <3> QED  BY <3>1, <3>2
  <2>4. p.head.binding = [by |-> HashOf[profile[g.to]], diff |-> p.head.diff]
    BY <2>1, PacketFields DEF Heads, Genuine
  <2>5. p.kzg = BlobOf(p)
    BY <2>1, <2>3 DEF Genuine
  <2> QED  BY <2>3, <2>4, <2>5 DEF Verifies
<1> QED  BY <1>1, Invariance, PTL

(* A commitment names one packet, up to the size a blob gives back whole.  *)
THEOREM Commitment == Spec => []CommitmentIdentifies
<1>1. IInv => CommitmentIdentifies
  <2> SUFFICES ASSUME IInv, NEW p \in emitted, NEW q \in emitted,
                      p.kzg = q.kzg, p.kzg # NoKzg, ~(Size(p) > (Elements - 1) * ElementBytes)
               PROVE  p = q
    BY DEF CommitmentIdentifies
  <2>1. p \in Packet /\ q \in Packet /\ Genuine(p) /\ Genuine(q)
    BY DEF IInv, TypeOK, FromEmitted
  <2>2. BlobOf(p) = BlobOf(q)
    BY <2>1 DEF Genuine
  <2>3. Size(p) = Size(q) /\ Cut(p, Carried) = Cut(q, Carried)
    BY <2>2 DEF BlobOf
  <2>4. Size(p) <= Carried
    BY <2>1, PacketFields, SizeTypes
  <2>5. p.head = q.head
    <3>1. Cut(p, Carried).head = p.head /\ Cut(q, Carried).head = q.head
      BY DEF Cut
    <3> QED  BY <2>3, <3>1
  <2>6. p.payload = q.payload
    <3>1. Cut(p, Carried).payload = p.payload
      BY <2>1, <2>4, SmallWhole
    <3>2. Cut(q, Carried).payload = q.payload
      BY <2>1, <2>3, <2>4, SmallWhole
    <3> QED  BY <2>3, <3>1, <3>2
  <2> QED  BY <2>1, <2>5, <2>6, PacketFields
<1> QED  BY <1>1, Invariance, PTL

(* Whatever is lost of blobs, receive_based_mesh_packet gives a node and   *)
(* its archive only packets as they were made.                             *)
THEOREM Integrity == Spec => []WholePackets
<1>1. IInv => WholePackets
  BY DEF IInv, FromEmitted, WholePackets
<1> QED  BY <1>1, Invariance, PTL
=============================================================================
