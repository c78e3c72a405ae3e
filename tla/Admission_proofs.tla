--------------------------- MODULE Admission_proofs ---------------------------
(***************************************************************************)
(* Proofs about Admission for any transactions, blocks, configurations and *)
(* validators.                                                             *)
(***************************************************************************)
EXTENDS Admission, TLAPS

-----------------------------------------------------------------------------
(* Signatures                                                              *)

(* The byte that unpack_pq_envelope reads as a scheme is the one that      *)
(* pack_pq_envelope writes for it.                                         *)
LEMMA RoundTrip ==
  /\ \A s \in Schemes : Byte[s] \in 0..10
  /\ \A w : Unpacks(w) => SchemeOf(w) \in Schemes /\ w.byte = Byte[SchemeOf(w)]
  /\ \A w, s : w.form = "envelope" /\ s \in Schemes /\ w.byte = Byte[s] => Unpacks(w) /\ SchemeOf(w) = s
<1>1. \A s \in Schemes : Byte[s] \in 0..10
  BY DEF Schemes, Byte
<1>2. ASSUME NEW w, Unpacks(w) PROVE SchemeOf(w) \in Schemes /\ w.byte = Byte[SchemeOf(w)]
  <2>1. w.byte \in 0..10
    BY <1>2 DEF Unpacks
  <2> QED BY <2>1 DEF SchemeOf, Schemes, Byte
<1>3. ASSUME NEW w, NEW s \in Schemes, w.form = "envelope", w.byte = Byte[s]
      PROVE  Unpacks(w) /\ SchemeOf(w) = s
  <2>1. Unpacks(w)
    BY <1>1, <1>3 DEF Unpacks
  <2>2. SchemeOf(w) = s
    BY <1>3 DEF SchemeOf, Schemes, Byte
  <2> QED BY <2>1, <2>2
<1> QED BY <1>1, <1>2, <1>3

(* Whatever bytes stand where a signature is expected: those of an         *)
(* envelope have a key and a signature, 65 bytes are an account's.         *)
LEMMA Forms ==
  ASSUME NEW w \in AnyBytes
  PROVE  /\ w.form = "envelope" => w.key \in Keys /\ w.sig \in Sigs
         /\ w.form = "raw" => \E h \in Holders, m \in Messages : w = Raw(h, m)
<1>1. w \in Envelopes => w.form = "envelope" /\ w.key \in Keys /\ w.sig \in Sigs
  BY DEF Envelopes
<1>2. w \in Recoverable => w.form = "raw" /\ \E h \in Holders, m \in Messages : w = Raw(h, m)
  BY DEF Recoverable, Raw
<1>3. w \in Neither => w.form = "junk"
  BY DEF Neither, Junk
<1> QED BY <1>1, <1>2, <1>3 DEF AnyBytes

(* A key and a signature are the records of their parts.                   *)
LEMMA Parts ==
  /\ \A k \in Keys : k.length \in Nat /\ k = [of |-> k.of, length |-> k.length]
                     /\ \E f \in Families, h \in Holders : k.of = <<f, h>>
  /\ \A g \in Sigs : g = [by |-> g.by, over |-> g.over, length |-> g.length]
<1>1. ASSUME NEW k \in Keys PROVE k = [of |-> k.of, length |-> k.length] /\ k.of \in Pairs /\ k.length \in Lengths
  BY DEF Keys
<1>2. ASSUME NEW p \in Pairs PROVE \E f \in Families, h \in Holders : p = <<f, h>>
  BY DEF Pairs
<1>3. Lengths \subseteq Nat
  BY DEF Lengths
<1>4. \A g \in Sigs : g = [by |-> g.by, over |-> g.over, length |-> g.length]
  BY DEF Sigs
<1> QED BY <1>1, <1>2, <1>3, <1>4

(* In a scheme of which only lengths are looked at, what verifies has the  *)
(* lengths; in any other it was signed by the holder of the key in it.     *)
LEMMA VerifiedStands ==
  ASSUME NEW w \in AnyBytes, NEW m, NEW threat \in BOOLEAN,
         Unpacks(w), Verifies(SchemeOf(w), w, m, threat)
  PROVE  /\ StandsFor(w, Derived(SchemeOf(w), w.key), m, threat)
         /\ w.byte = Byte[SchemeOf(w)]
<1> DEFINE s == SchemeOf(w)
<1>1. s \in Schemes /\ w.byte = Byte[s] /\ w.form = "envelope"
  BY RoundTrip DEF Unpacks
<1> HIDE DEF s
<1>2. /\ KeyFits(s, w.key.length) /\ (threat => s \in PostQuantum)
      /\ IF s \in Structural THEN LengthFits(s, w.sig.length)
         ELSE w.key.of[1] = Family(s) /\ w.sig.by = w.key.of /\ w.sig.over = m
  BY DEF Verifies, s
<1>3. s \in Structural => OnlyShaped(w, s)
  BY <1>2 DEF OnlyShaped
<1>4. ASSUME s \notin Structural PROVE \E h \in Holders : Signed(w, s, h, m)
  <2>1. w.key \in Keys /\ w.sig \in Sigs
    BY <1>1, Forms
  <2>2. PICK f \in Families, h \in Holders : w.key.of = <<f, h>>
    BY <2>1, Parts
  <2>3. w.key.of = <<Family(s), h>>
    BY <1>2, <1>4, <2>2
  <2>4. w.key = [of |-> w.key.of, length |-> w.key.length]
    BY <2>1, Parts
  <2>5. w.sig = [by |-> w.sig.by, over |-> w.sig.over, length |-> w.sig.length]
    BY <2>1, Parts
  <2>6. Signed(w, s, h, m)
    BY <1>2, <1>4, <2>3, <2>4, <2>5 DEF Signed, Key, Sig
  <2> QED BY <1>4, <2>6
<1>5. StandsFor(w, Derived(s, w.key), m, threat)
  BY <1>1, <1>2, <1>3, <1>4 DEF StandsFor
<1> QED BY <1>1, <1>5 DEF s

(* And what stands for an address in an envelope verifies.                 *)
LEMMA StandingVerifies ==
  ASSUME NEW w \in AnyBytes, NEW a, NEW m, NEW threat \in BOOLEAN, StandsFor(w, a, m, threat), w.form # "raw"
  PROVE  /\ Unpacks(w) /\ Derived(SchemeOf(w), w.key) = a
         /\ threat => SchemeOf(w) \in PostQuantum
         /\ Verifies(SchemeOf(w), w, m, threat)
         /\ ~Panics(SchemeOf(w), w, threat)
<1>1. \A h : Raw(h, m).form = "raw"
  BY DEF Raw
<1>2. PICK s \in Schemes :
        /\ w.form = "envelope" /\ w.byte = Byte[s] /\ KeyFits(s, w.key.length)
        /\ a = Derived(s, w.key)
        /\ OnlyShaped(w, s) \/ (s \notin Structural /\ \E h \in Holders : Signed(w, s, h, m))
        /\ threat => s \in PostQuantum
  BY <1>1 DEF StandsFor
<1>3. Unpacks(w) /\ SchemeOf(w) = s
  BY <1>2, RoundTrip
<1>4. Verifies(s, w, m, threat)
  <2>1. CASE OnlyShaped(w, s)
    BY <1>2, <2>1 DEF OnlyShaped, Verifies
  <2>2. CASE s \notin Structural /\ \E h \in Holders : Signed(w, s, h, m)
    <3>1. PICK h \in Holders : Signed(w, s, h, m)
      BY <2>2
    <3>2. w.key.of = <<Family(s), h>> /\ w.sig.by = <<Family(s), h>> /\ w.sig.over = m
      BY <3>1 DEF Signed, Key, Sig
    <3>3. w.key.of[1] = Family(s)
      BY <3>2
    <3> QED BY <1>2, <2>2, <3>2, <3>3 DEF Verifies
  <2> QED BY <1>2, <2>1, <2>2
<1>5. ~Panics(s, w, threat)
  <2>1. \A n : KeyFits("Ed25519", n) => n >= 32
    BY DEF KeyFits
  <2>2. w.key.length \in Nat
    BY <1>2, Forms, Parts
  <2> QED BY <1>2, <2>1, <2>2 DEF Panics
<1> QED BY <1>2, <1>3, <1>4, <1>5

(* Of 65 bytes the address recovered is the account's that signed, if it   *)
(* is one that somebody has.                                               *)
LEMMA RawStands ==
  ASSUME NEW w \in AnyBytes, NEW m, w.form = "raw", Recovered(w, m) # Stranger
  PROVE  StandsFor(w, Recovered(w, m), m, FALSE)
<1>1. PICK h \in Holders, n \in Messages : w = Raw(h, n)
  BY Forms
<1>2. w.sig.over = n /\ w.key = AccountKey(h)
  BY <1>1 DEF Raw, Sig
<1>3. n = m /\ Recovered(w, m) = Account(h)
  BY <1>2 DEF Recovered, Account
<1> QED BY <1>1, <1>3 DEF StandsFor

(* And back.                                                               *)
LEMMA RawRecovers ==
  ASSUME NEW w, NEW a, NEW m, NEW threat, StandsFor(w, a, m, threat), w.form = "raw"
  PROVE  ~threat /\ Recovered(w, m) = a /\ ~Unpacks(w)
<1>1. w.form # "envelope"
  BY DEF Unpacks
<1>2. PICK h \in Holders : ~threat /\ w = Raw(h, m) /\ a = Account(h)
  BY <1>1 DEF StandsFor
<1>3. w.sig.over = m /\ w.key = AccountKey(h)
  BY <1>2 DEF Raw, Sig
<1>4. Recovered(w, m) = a
  BY <1>2, <1>3 DEF Recovered, Account
<1> QED BY <1>1, <1>2, <1>4 DEF Unpacks

-----------------------------------------------------------------------------
(* Types                                                                   *)

(* The scheme a name stands for is always one of the schemes.              *)
LEMMA SchemeNamesTyped == \A name : ParseScheme(name) \in Schemes /\ ProfileSignature(name) \in Schemes
<1> SUFFICES ASSUME NEW name PROVE ParseScheme(name) \in Schemes /\ ProfileSignature(name) \in Schemes
  OBVIOUS
<1>1. DOMAIN SchemeNames \subseteq Schemes /\ DOMAIN ProfileNames \subseteq Schemes
  BY DEF SchemeNames, ProfileNames, Schemes
<1>2. "MlDsa" \in Schemes /\ "Secp256k1" \in Schemes
  BY DEF Schemes
<1>3. \A table, other : Lookup(table, name, other) \in DOMAIN table \cup {other}
  BY DEF Lookup
<1> QED BY <1>1, <1>2, <1>3 DEF ParseScheme, ProfileSignature

(* A transaction that has not been submitted, as a record of the pool.     *)
LEMMA OutTyped == Out \in [at : {"out", "checking", "pooled"}, read : Readings] /\ Out.at = "out"
<1>1. [trigger |-> FALSE, scheme |-> "mldsa"] \in Readings
  BY NamesAssumption DEF Readings
<1> QED BY <1>1 DEF Out

(* Whatever is given at the start, the node has a configuration.           *)
LEMMA StartedTyped == \A l \in Launches : Started(l) \in Config
<1> SUFFICES ASSUME NEW l \in Launches PROVE Started(l) \in Config
  OBVIOUS
<1>1. l \in Launch
  BY LaunchesAssumption
<1>2. Defaults \in Config
  BY NamesAssumption DEF Defaults, Config
<1>3. Loaded(l) \in Config
  BY <1>1, <1>2 DEF Launch, Loaded, FirstSet
<1>4. /\ FirstSet(FirstSet(l.cli, l.env), Loaded(l).scheme) \in Names
      /\ FirstSet(l.profile, Loaded(l).profile) \in Names
      /\ (Loaded(l).trigger \/ l.flag) \in BOOLEAN
  BY <1>1, <1>3 DEF Launch, FirstSet, Config
<1> QED BY <1>3, <1>4 DEF Started, Config

(* The numbers handed out are the places in the order of arrival.          *)
Places ==
  /\ \A t \in Txs : sequences[t] # Unset =>
       sequences[t] + 1 \in DOMAIN arrivals /\ arrivals[sequences[t] + 1] = t
  /\ \A i \in DOMAIN arrivals : sequences[arrivals[i]] = i - 1
  /\ \A t \in Txs : pool[t].at = "pooled" => sequences[t] # Unset

(* The pool and the order at the first start.                              *)
LEMMA InitPlaces == Init => TypeOK /\ Places
<1> SUFFICES ASSUME Init PROVE TypeOK /\ Places
  OBVIOUS
<1>1. cfg \in Config /\ validators = {} /\ next = 0 /\ arrivals = <<>> /\ call = NoCall
  BY StartedTyped DEF Init
<1>2. pool \in [Txs -> [at : {"out", "checking", "pooled"}, read : Readings]]
  BY OutTyped DEF Init
<1>3. sequences \in [Txs -> 0..next - 1 \cup {Unset}]
  BY DEF Init
<1>4. NoCall.state = "none"
  BY DEF NoCall
<1>5. TypeOK
  BY <1>1, <1>2, <1>3, <1>4 DEF TypeOK
<1>6. Places
  BY NumbersAssumption DEF Init, Places, Out
<1> QED BY <1>5, <1>6

(* A restart empties pool and order together.                              *)
LEMMA RestartPlaces == Restart => TypeOK' /\ Places'
<1> SUFFICES ASSUME Restart PROVE TypeOK' /\ Places'
  OBVIOUS
<1>1. cfg' \in Config /\ validators' = {} /\ next' = 0 /\ arrivals' = <<>> /\ call' = NoCall
  BY StartedTyped DEF Restart
<1>2. pool' \in [Txs -> [at : {"out", "checking", "pooled"}, read : Readings]]
  BY OutTyped DEF Restart
<1>3. sequences' \in [Txs -> 0..next' - 1 \cup {Unset}]
  BY DEF Restart
<1>4. NoCall.state = "none"
  BY DEF NoCall
<1>5. TypeOK'
  BY <1>1, <1>2, <1>3, <1>4 DEF TypeOK
<1>6. Places'
  BY NumbersAssumption DEF Restart, Places, Out
<1> QED BY <1>5, <1>6

Steps ==
  \/ Reload \/ \E a \in Candidates : AddValidator(a)
  \/ \E t \in Txs : Submit(t) \/ Leave(t)
  \/ \E b \in Blocks : Begin(b)
  \/ CheckSignature

(* The steps, grouped by what they do to the order.                        *)
LEMMA NextCases == Next <=> Restart \/ Steps \/ \E t \in Txs : Admit(t)
BY DEF Next, Steps

(* Where the order of arrival is left alone.                               *)
LEMMA StepsPlaces == Places /\ (Steps \/ UNCHANGED vars) /\ TypeOK => Places'
<1> SUFFICES ASSUME Places, TypeOK, Steps \/ UNCHANGED vars PROVE Places'
  OBVIOUS
<1>1. UNCHANGED ordering
  BY DEF Steps, vars, ordering, Reload, AddValidator, Submit, Leave, Begin, CheckSignature
<1>2. \A t \in Txs : pool'[t].at = "pooled" => pool[t].at = "pooled"
  <2>1. CASE UNCHANGED pool
    BY <2>1
  <2>2. ASSUME NEW t \in Txs, Submit(t) \/ Leave(t)
        PROVE  \A u \in Txs : pool'[u].at = "pooled" => pool[u].at = "pooled"
    <3>1. PICK e : pool' = [pool EXCEPT ![t] = e] /\ e.at # "pooled"
      BY <2>2, OutTyped DEF Submit, Leave
    <3>2. \A u \in Txs : pool'[u] = IF u = t THEN e ELSE pool[u]
      BY <3>1 DEF TypeOK
    <3> QED BY <3>1, <3>2
  <2>3. UNCHANGED pool \/ \E t \in Txs : Submit(t) \/ Leave(t)
    BY DEF Steps, vars, Reload, AddValidator, Begin, CheckSignature
  <2> QED BY <2>1, <2>2, <2>3
<1> QED BY <1>1, <1>2 DEF Places, ordering

(* One transaction enters the order, at its end, or is in it already.      *)
LEMMA AdmitPlaces ==
  ASSUME NEW t \in Txs, TypeOK, Places, Admit(t)
  PROVE  /\ Places'
         /\ sequences' \in [Txs -> 0..next' - 1 \cup {Unset}]
         /\ next' = Len(arrivals') /\ arrivals' \in Seq(Txs)
<1>1. /\ sequences \in [Txs -> 0..next - 1 \cup {Unset}]
      /\ next = Len(arrivals) /\ arrivals \in Seq(Txs) /\ next \in Nat
  BY DEF TypeOK
<1>2. /\ pool \in [Txs -> [at : {"out", "checking", "pooled"}, read : Readings]]
      /\ pool' = [pool EXCEPT ![t] = [at |-> "pooled", read |-> @.read]]
  BY DEF TypeOK, Admit
<1>3. \A u \in Txs : u # t => pool'[u] = pool[u]
  BY <1>2
<1>4. CASE sequences[t] # Unset
  <2>1. \E k \in DOMAIN arrivals : arrivals[k] = t
    BY <1>4 DEF Places
  <2>2. UNCHANGED <<sequences, next, arrivals>>
    BY <1>4, <2>1 DEF Admit, Number
  <2> QED BY <1>1, <1>3, <1>4, <2>2 DEF Places
<1>5. CASE sequences[t] = Unset
  <2>1. ~\E k \in DOMAIN arrivals : arrivals[k] = t
    BY <1>1, <1>5, NumbersAssumption DEF Places
  <2>2. /\ sequences' = [sequences EXCEPT ![t] = next] /\ next' = next + 1
        /\ arrivals' = Append(arrivals, t)
    BY <1>5, <2>1 DEF Admit, Number
  <2>3. /\ arrivals' \in Seq(Txs) /\ Len(arrivals') = next + 1
        /\ arrivals'[next + 1] = t
        /\ \A k \in 1..next : arrivals'[k] = arrivals[k]
        /\ DOMAIN arrivals' = 1..next + 1 /\ DOMAIN arrivals = 1..next
    BY <1>1, <2>2
  <2>4. /\ sequences'[t] = next
        /\ \A u \in Txs : u # t => sequences'[u] = sequences[u]
        /\ sequences' \in [Txs -> 0..next' - 1 \cup {Unset}]
    BY <1>1, <2>2
  <2>5. \A u \in Txs : sequences'[u] # Unset =>
          sequences'[u] + 1 \in 1..next + 1 /\ arrivals'[sequences'[u] + 1] = u
    <3> SUFFICES ASSUME NEW u \in Txs, sequences'[u] # Unset
                 PROVE  sequences'[u] + 1 \in 1..next + 1 /\ arrivals'[sequences'[u] + 1] = u
      OBVIOUS
    <3>1. CASE u = t
      BY <1>1, <2>3, <2>4, <3>1
    <3>2. CASE u # t
      <4>1. sequences[u] # Unset /\ sequences'[u] = sequences[u]
        BY <2>4, <3>2
      <4>2. sequences[u] + 1 \in 1..next /\ arrivals[sequences[u] + 1] = u
        BY <2>3, <4>1 DEF Places
      <4> QED BY <1>1, <2>3, <4>1, <4>2
    <3> QED BY <3>1, <3>2
  <2>6. \A i \in 1..next + 1 : sequences'[arrivals'[i]] = i - 1
    <3> SUFFICES ASSUME NEW i \in 1..next + 1 PROVE sequences'[arrivals'[i]] = i - 1
      OBVIOUS
    <3>1. CASE i = next + 1
      BY <1>1, <2>3, <2>4, <3>1
    <3>2. CASE i \in 1..next
      <4>1. arrivals'[i] = arrivals[i] /\ arrivals[i] \in Txs /\ arrivals[i] # t
        BY <1>1, <2>1, <2>3, <3>2
      <4> QED BY <2>3, <2>4, <3>2, <4>1 DEF Places
    <3> QED BY <1>1, <3>1, <3>2
  <2>7. \A u \in Txs : pool'[u].at = "pooled" => sequences'[u] # Unset
    BY <1>1, <1>3, <2>4, NumbersAssumption DEF Places
  <2> QED BY <1>1, <2>2, <2>3, <2>4, <2>5, <2>6, <2>7 DEF Places
<1> QED BY <1>4, <1>5

-----------------------------------------------------------------------------
(* The validation of a block                                               *)

CallType ==
  /\ validators \subseteq Candidates
  /\ call = NoCall \/ call \in Called
  /\ call.state # "none" => call.known \subseteq validators
  /\ call.state = "running" => call.done \in 0..Len(call.block.sigs) - 1

(* The signatures passed so far endorse the block by the validators there  *)
(* are, and a refused block did not deserve better.                        *)
CallInv ==
  /\ call.state \in {"running", "accepted"} =>
       /\ call.block.sigs # <<>> /\ call.block.diff # Empty
       /\ \A i \in 1..call.done : Endorses(call.block.sigs[i], Hashed(call.block))
  /\ call.state = "accepted" => call.done = Len(call.block.sigs)
  /\ call.state = "refused" => ~Deserving(call, call.known)

(* No block is being validated.                                            *)
LEMMA NoCallState == NoCall.state = "none"
BY DEF NoCall

(* The signatures of a block are a sequence of bytes.                      *)
LEMMA SigsTyped ==
  ASSUME NEW b \in Blocks
  PROVE  /\ b.sigs \in Seq(AnyBytes) /\ Len(b.sigs) \in Nat /\ DOMAIN b.sigs = 1..Len(b.sigs)
         /\ b.sigs # <<>> => Len(b.sigs) # 0
         /\ \A i \in 1..Len(b.sigs) : b.sigs[i] \in AnyBytes
<1>1. b.sigs \in Seq(AnyBytes)
  BY BlocksAssumption
<1>2. \A q \in Seq(AnyBytes) :
        /\ Len(q) \in Nat /\ DOMAIN q = 1..Len(q) /\ (q # <<>> => Len(q) # 0)
        /\ \A i \in 1..Len(q) : q[i] \in AnyBytes
  OBVIOUS
<1> QED BY <1>1, <1>2

(* What the code finds in a signature is what it stands for: both sides of *)
(* the verdict.                                                            *)
LEMMA EndorsedStands ==
  ASSUME call \in Called, validators \subseteq Candidates,
         NEW w \in AnyBytes, NEW m, Endorses(w, m)
  PROVE  /\ \E a \in validators : StandsFor(w, a, m, call.threat)
         /\ w.form = "raw" => call.scheme = "Secp256k1"
<1>1. call.threat \in BOOLEAN
  BY DEF Called
<1>2. CASE Unpacks(w)
  <2>1. Verifies(SchemeOf(w), w, m, call.threat) /\ Derived(SchemeOf(w), w.key) \in validators
    BY <1>2 DEF Endorses
  <2> QED BY <1>1, <1>2, <2>1, VerifiedStands DEF Unpacks
<1>3. CASE ~Unpacks(w)
  <2>1. /\ ~call.threat /\ call.scheme = "Secp256k1" /\ w.form = "raw"
        /\ Recovered(w, m) \in validators
    BY <1>3 DEF Endorses
  <2>2. StandsFor(w, Recovered(w, m), m, FALSE)
    BY <2>1, StrangerAssumption, RawStands
  <2>3. call.threat = FALSE
    BY <1>1, <2>1
  <2> QED BY <2>1, <2>2, <2>3
<1> QED BY <1>2, <1>3

(* A signature that stands for an active validator endorses, and does not  *)
(* panic.                                                                  *)
LEMMA StandingEndorses ==
  ASSUME call \in Called, NEW w \in AnyBytes, NEW m, NEW a \in validators,
         StandsFor(w, a, m, call.threat), w.form = "raw" => call.scheme = "Secp256k1"
  PROVE  Endorses(w, m) /\ ~Panicking(w)
<1>1. call.threat \in BOOLEAN
  BY DEF Called
<1>2. CASE w.form = "raw"
  BY <1>1, <1>2, RawRecovers DEF Endorses, Panicking
<1>3. CASE w.form # "raw"
  BY <1>1, <1>3, StandingVerifies DEF Endorses, Panicking
<1> QED BY <1>2, <1>3

(* What is known of a finished validation is the property.                 *)
LEMMA VerdictHolds == CallType /\ CallInv => VerdictIsDeserved
<1> SUFFICES ASSUME CallType, CallInv, call.state = "accepted" PROVE Deserving(call, validators)
  BY DEF CallInv, VerdictIsDeserved
<1>1. call \in Called
  BY NoCallState DEF CallType
<1>2. call.block \in Blocks
  BY <1>1 DEF Called
<1>3. ASSUME NEW i \in DOMAIN call.block.sigs
      PROVE  /\ call.block.sigs[i] \in AnyBytes
             /\ Endorses(call.block.sigs[i], Hashed(call.block))
  BY <1>2, SigsTyped DEF CallInv
<1> QED BY <1>1, <1>3, EndorsedStands DEF CallInv, CallType, Deserving

(* Beginning a validation, its verdict on an empty list included.          *)
LEMMA CallBegin ==
  ASSUME CallType, NEW b \in Blocks, Begin(b), cfg \in Config
  PROVE  CallType' /\ CallInv'
<1>1. call' = [block |-> b, threat |-> cfg.trigger,
               scheme |-> ProfileSignature(ActiveProfile(b.height)),
               known |-> validators, done |-> 0,
               state |-> IF b.sigs = <<>> \/ b.diff = Empty THEN "refused" ELSE "running"]
  BY DEF Begin
<1>2. ProfileSignature(ActiveProfile(b.height)) \in Schemes /\ cfg.trigger \in BOOLEAN
  BY SchemeNamesTyped DEF Config
<1>3. call' \in Called
  BY <1>1, <1>2 DEF Called, CallType
<1>4. call'.state = "running" => Len(b.sigs) \in Nat /\ Len(b.sigs) # 0
  BY <1>1, SigsTyped
<1>5. CallType'
  BY <1>1, <1>3, <1>4 DEF Begin, CallType
<1>6. CallInv'
  BY <1>1 DEF CallInv, Deserving
<1> QED BY <1>5, <1>6

(* Checking one signature, which may give the verdict.                     *)
LEMMA CallCheck ==
  ASSUME CallType, CallInv, CheckSignature
  PROVE  CallType' /\ CallInv'
<1> DEFINE b == call.block
           i == call.done + 1
           good == Endorses(b.sigs[i], Hashed(b))
           state == Outcome(b.sigs[i], Hashed(b), i = Len(b.sigs))
<1>1. call \in Called /\ call.state = "running" /\ validators' = validators
  BY NoCallState DEF CallType, CheckSignature
<1>2. call' = [call EXCEPT !.done = i, !.state = state]
  BY DEF CheckSignature
<1>3. b \in Blocks /\ call.done \in Nat /\ i \in 1..Len(b.sigs)
  BY <1>1, SigsTyped DEF Called, CallType
<1>4. /\ call'.block = b /\ call'.threat = call.threat /\ call'.scheme = call.scheme
      /\ call'.known = call.known /\ call'.done = i /\ call'.state = state
  <2> HIDE DEF state
  <2> QED BY <1>1, <1>2 DEF Called
<1>11. /\ state \in {"running", "accepted"} => good
       /\ state = "refused" => ~good
       /\ state \in {"running", "accepted", "refused", "panicked"}
       /\ state = "accepted" => i = Len(b.sigs)
       /\ state = "running" => i # Len(b.sigs)
  BY DEF Outcome
<1>5. call' \in Called
  <2> HIDE DEF good
  <2>1. i \in Nat /\ state \in {"running", "accepted", "refused", "panicked"}
    BY <1>3, <1>11
  <2>2. call \in [block : Blocks, threat : BOOLEAN, scheme : Schemes, known : SUBSET Candidates,
                  done : Nat, state : {"running", "accepted", "refused", "panicked"}]
    BY <1>1 DEF Called
  <2> HIDE DEF i, state
  <2> QED BY <1>2, <2>1, <2>2 DEF Called
<1>6. \A w, m : Endorses(w, m)' = Endorses(w, m)
  BY <1>1, <1>4 DEF Endorses
<1>7. CallType'
  <2> HIDE DEF state
  <2> QED BY <1>1, <1>3, <1>4, <1>5, <1>11, SigsTyped DEF CallType
<1>8. ASSUME good PROVE \A k \in 1..i : Endorses(b.sigs[k], Hashed(b))'
  <2>1. \A k \in 1..call.done : Endorses(b.sigs[k], Hashed(b))
    BY <1>1 DEF CallInv
  <2>2. \A k \in 1..i : k = i \/ k \in 1..call.done
    BY <1>3
  <2> QED BY <1>4, <1>6, <1>8, <2>1, <2>2 DEF Hashed
<1>9. ASSUME ~good PROVE ~Deserving(call', call'.known)
  <2> SUFFICES ASSUME Deserving(call', call'.known) PROVE FALSE
    OBVIOUS
  <2>1. i \in DOMAIN b.sigs /\ call.known \subseteq validators
    BY <1>1, <1>3, SigsTyped DEF CallType
  <2>2. PICK a \in call.known : StandsFor(b.sigs[i], a, Hashed(b), call.threat)
    BY <1>4, <2>1 DEF Deserving, Hashed
  <2>3. b.sigs[i].form = "raw" => call.scheme = "Secp256k1"
    BY <1>4, <2>1 DEF Deserving, Hashed
  <2>4. good
    BY <1>1, <1>3, <2>1, <2>2, <2>3, SigsTyped, StandingEndorses
  <2> QED BY <1>9, <2>4
<1>10. CallInv'
  <2> HIDE DEF good, state
  <2>1. b.sigs # <<>> /\ b.diff # Empty
    BY <1>1 DEF CallInv
  <2>2. CASE good
    BY <1>4, <1>8, <1>11, <2>1, <2>2 DEF CallInv, Hashed
  <2>3. CASE ~good
    BY <1>4, <1>9, <1>11, <2>3 DEF CallInv
  <2> QED BY <2>2, <2>3
<1> QED BY <1>7, <1>10

(* The registry only grows: what was endorsed stays so.                    *)
LEMMA CallElse ==
  ASSUME CallType, CallInv, UNCHANGED call, validators \subseteq validators',
         validators' \subseteq Candidates
  PROVE  CallType' /\ CallInv'
<1>1. \A w, m : Endorses(w, m) => Endorses(w, m)'
  BY DEF Endorses
<1>2. CallType'
  BY DEF CallType
<1>3. CallInv'
  BY <1>1 DEF CallInv, Hashed, Deserving
<1> QED BY <1>2, <1>3

-----------------------------------------------------------------------------
(* The invariant                                                           *)

PoolType == pool \in [Txs -> [at : {"out", "checking", "pooled"}, read : Readings]]

(* What is not outside passed the check under the policy its check read.   *)
Admitted == \A t \in Txs : pool[t].at # "out" => MayEnter(t, pool[t].read)

IInv == TypeOK /\ Places /\ CallInv /\ Admitted

(* The type invariant by component.                                        *)
LEMMA TypeParts ==
  TypeOK <=> /\ cfg \in Config /\ CallType /\ PoolType
             /\ sequences \in [Txs -> 0..next - 1 \cup {Unset}]
             /\ next = Len(arrivals) /\ arrivals \in Seq(Txs)
BY DEF TypeOK, CallType, PoolType

(* One entry of the pool changes, to one that is typed and admitted.       *)
LEMMA PoolEntry ==
  ASSUME PoolType, Admitted, NEW t \in Txs,
         NEW e \in [at : {"out", "checking", "pooled"}, read : Readings],
         pool' = [pool EXCEPT ![t] = e], e.at # "out" => MayEnter(t, e.read)
  PROVE  PoolType' /\ Admitted'
<1>1. \A u \in Txs : pool'[u] = IF u = t THEN e ELSE pool[u]
  BY DEF PoolType
<1>2. \A u, read : MayEnter(u, read)' = MayEnter(u, read)
  BY DEF MayEnter
<1> QED BY <1>1, <1>2 DEF PoolType, Admitted

(* Whatever enters the pool passed the check it had to pass.               *)
LEMMA PoolStep ==
  ASSUME TypeOK, Admitted, NEW t \in Txs, Submit(t) \/ Admit(t) \/ Leave(t)
  PROVE  PoolType' /\ Admitted'
<1> USE DEF PoolType, Readings
<1>1. PoolType /\ pool[t] \in [at : {"out", "checking", "pooled"}, read : Readings]
  BY DEF TypeOK
<1>2. CASE Submit(t)
  <2>1. Reading \in Readings
    BY DEF Reading, TypeOK, Config
  <2> DEFINE e == [at |-> "checking", read |-> Reading]
  <2>2. e \in [at : {"out", "checking", "pooled"}, read : Readings] /\ e.read = Reading
    BY <2>1
  <2>3. pool' = [pool EXCEPT ![t] = e] /\ MayEnter(t, e.read)
    BY <1>2, <2>2 DEF Submit
  <2> HIDE DEF e
  <2> QED BY <1>1, <2>2, <2>3, PoolEntry
<1>3. CASE Admit(t)
  <2> DEFINE e == [at |-> "pooled", read |-> pool[t].read]
  <2>1. e \in [at : {"out", "checking", "pooled"}, read : Readings]
    BY <1>1
  <2>2. MayEnter(t, e.read)
    BY <1>3 DEF Admit, Admitted
  <2>3. pool' = [pool EXCEPT ![t] = e]
    BY <1>1, <1>3 DEF Admit
  <2> HIDE DEF e
  <2> QED BY <1>1, <2>1, <2>2, <2>3, PoolEntry
<1>4. CASE Leave(t)
  BY <1>1, <1>4, OutTyped, PoolEntry DEF Leave
<1> QED BY <1>2, <1>3, <1>4

(* A restart under whatever configuration keeps the invariant.             *)
LEMMA RestartKeeps == Restart => IInv'
<1> SUFFICES ASSUME Restart PROVE IInv'
  OBVIOUS
<1>1. call' = NoCall /\ \A t \in Txs : pool'[t].at = "out"
  BY OutTyped DEF Restart
<1> QED BY <1>1, RestartPlaces, NoCallState DEF IInv, CallInv, Admitted

(* No other step than its own disturbs a validation under way.             *)
LEMMA CallStep ==
  ASSUME TypeOK, CallInv, [Next]_vars, ~Restart
  PROVE  CallType' /\ CallInv'
<1>1. CallType /\ cfg \in Config
  BY TypeParts
<1>2. CASE \E b \in Blocks : Begin(b)
  BY <1>1, <1>2, CallBegin
<1>3. CASE CheckSignature
  BY <1>1, <1>3, CallCheck
<1>4. CASE UNCHANGED call /\ validators \subseteq validators' /\ validators' \subseteq Candidates
  BY <1>1, <1>4, CallElse
<1>5. \/ \E b \in Blocks : Begin(b)
      \/ CheckSignature
      \/ UNCHANGED call /\ validators \subseteq validators' /\ validators' \subseteq Candidates
  BY <1>1 DEF CallType, Next, vars, Reload, AddValidator, Submit, Admit, Leave
<1> QED BY <1>2, <1>3, <1>4, <1>5

(* Every step keeps the invariant.                                         *)
LEMMA Inductive == IInv /\ [Next]_vars => IInv'
<1> SUFFICES ASSUME IInv, [Next]_vars, ~Restart PROVE IInv'
  BY RestartKeeps
<1>1. TypeOK /\ Places /\ CallInv /\ Admitted
  BY DEF IInv
<1>2. CallType' /\ CallInv'
  BY <1>1, CallStep
<1>3. cfg' \in Config
  BY <1>1, LaunchesAssumption, StartedTyped
     DEF TypeOK, Next, vars, Restart, Reload, AddValidator, Submit, Admit, Leave, Begin, CheckSignature
<1>4. PoolType' /\ Admitted'
  <2>1. CASE \E t \in Txs : Submit(t) \/ Admit(t) \/ Leave(t)
    BY <1>1, <2>1, PoolStep
  <2>2. CASE UNCHANGED pool
    BY <1>1, <2>2 DEF TypeOK, PoolType, Admitted, MayEnter
  <2>3. UNCHANGED pool \/ \E t \in Txs : Submit(t) \/ Admit(t) \/ Leave(t)
    BY DEF Next, vars, Reload, AddValidator, Begin, CheckSignature
  <2> QED BY <2>1, <2>2, <2>3
<1>5. /\ Places' /\ sequences' \in [Txs -> 0..next' - 1 \cup {Unset}]
      /\ next' = Len(arrivals') /\ arrivals' \in Seq(Txs)
  <2>1. CASE \E t \in Txs : Admit(t)
    BY <1>1, <2>1, AdmitPlaces
  <2>2. CASE Steps \/ UNCHANGED vars
    <3>1. Places'
      BY <1>1, <2>2, StepsPlaces
    <3>2. UNCHANGED ordering
      BY <2>2
         DEF Steps, vars, ordering, Reload, AddValidator, Submit, Leave, Begin, CheckSignature
    <3> QED BY <1>1, <3>1, <3>2 DEF ordering, TypeOK
  <2> QED BY <2>1, <2>2, NextCases
<1>6. TypeOK'
  BY <1>2, <1>3, <1>4, <1>5 DEF TypeOK, CallType, PoolType
<1> QED BY <1>2, <1>4, <1>5, <1>6 DEF IInv

(* The invariant at the first start.                                       *)
LEMMA Initially == Init => IInv
<1> SUFFICES ASSUME Init PROVE IInv
  OBVIOUS
<1>1. call = NoCall /\ \A t \in Txs : pool[t].at = "out"
  BY OutTyped DEF Init
<1> QED BY <1>1, InitPlaces, NoCallState DEF IInv, CallInv, Admitted

(* The invariant, always.                                                  *)
LEMMA Always == Spec => []IInv
BY Initially, Inductive, PTL DEF Spec

-----------------------------------------------------------------------------
(* Theorems                                                                *)

(* The types; numbers are handed out without gaps, a call in progress has  *)
(* a signature left to look at.                                            *)
THEOREM TypeCorrect == Spec => []TypeOK
<1>1. IInv => TypeOK
  BY DEF IInv
<1> QED BY <1>1, Always, PTL

(* A number is a place in the order of arrival.                            *)
LEMMA FirstComeHolds == TypeOK /\ Places => FirstComeFirst
<1> SUFFICES ASSUME TypeOK, Places, NEW t \in Txs, NEW u \in Txs,
                    pool[t].at = "pooled", pool[u].at = "pooled"
             PROVE  Priority(t) > Priority(u) <=> Before(t, u)
  BY DEF FirstComeFirst
<1> DEFINE i == sequences[t] + 1
           j == sequences[u] + 1
<1>1. /\ sequences[t] \in Nat /\ sequences[u] \in Nat
      /\ i \in DOMAIN arrivals /\ arrivals[i] = t
      /\ j \in DOMAIN arrivals /\ arrivals[j] = u
  BY DEF TypeOK, Places
<1>2. Priority(t) > Priority(u) <=> i < j
  BY <1>1, NumbersAssumption DEF Priority
<1>3. \A k, l \in DOMAIN arrivals : arrivals[k] = arrivals[l] => k = l
  <2>1. \A k \in DOMAIN arrivals : sequences[arrivals[k]] = k - 1 /\ k \in Nat
    BY DEF TypeOK, Places
  <2> QED BY <2>1
<1> QED BY <1>1, <1>2, <1>3 DEF Before

(* Priorities fall in the order of arrival (FCFSOrdering): the number of a *)
(* transaction is its place in that order for as long as the node runs.    *)
THEOREM FirstCome == Spec => []FirstComeFirst
<1>1. IInv => FirstComeFirst
  BY FirstComeHolds DEF IInv
<1> QED BY <1>1, Always, PTL

(* What the check under the trigger lets in stands for the sender.         *)
LEMMA EnteredStands ==
  ASSUME NEW t \in Txs, NEW read \in Readings, read.trigger, MayEnter(t, read)
  PROVE  /\ StandsFor(Tx[t].input, Tx[t].sender, t, TRUE)
         /\ Tx[t].input.byte = Byte[ParseScheme(read.scheme)]
<1> DEFINE w == Tx[t].input
<1>1. /\ w \in AnyBytes /\ Unpacks(w) /\ Verifies(SchemeOf(w), w, t, TRUE)
      /\ SchemeOf(w) = ParseScheme(read.scheme)
      /\ Derived(SchemeOf(w), w.key) = Tx[t].sender
  BY TxAssumption DEF MayEnter
<1> HIDE DEF w
<1> QED BY <1>1, VerifiedStands DEF w

(* So does a witness found valid.                                          *)
LEMMA ValidStands ==
  ASSUME cfg \in Config, NEW t \in Txs, NEW w \in AnyBytes, WitnessValid(t, w)
  PROVE  StandsFor(w, Tx[t].sender, t, cfg.trigger)
<1>1. cfg.trigger \in BOOLEAN
  BY DEF Config
<1>2. CASE Unpacks(w)
  <2>1. /\ Verifies(SchemeOf(w), w, t, cfg.trigger)
        /\ Derived(SchemeOf(w), w.key) = Tx[t].sender
    BY <1>2 DEF WitnessValid
  <2> QED BY <1>1, <1>2, <2>1, VerifiedStands
<1>3. CASE ~Unpacks(w)
  <2>1. cfg.trigger = FALSE /\ w.form = "raw" /\ Recovered(w, t) = Tx[t].sender
    BY <1>1, <1>3 DEF WitnessValid
  <2> QED BY <2>1, StrangerAssumption, RawStands
<1> QED BY <1>2, <1>3

(* The pool's validator and validate_witness, on whatever bytes they get:  *)
(* the address derived from the key in an envelope that verifies is the    *)
(* sender's, and its holder signed where the scheme looks; the address     *)
(* recovered from 65 bytes is the account's or nobody's.                   *)
THEOREM Vouching == Spec => []SenderVouched
<1>1. IInv => SenderVouched
  <2> SUFFICES ASSUME IInv PROVE SenderVouched
    OBVIOUS
  <2>1. \A t \in Txs : pool[t].read \in Readings /\ (pool[t].at # "out" => MayEnter(t, pool[t].read))
    BY DEF IInv, TypeOK, Admitted
  <2>2. \A w \in Witnesses : w \in AnyBytes
    BY WitnessesAssumption
  <2>3. cfg \in Config
    BY DEF IInv, TypeOK
  <2> QED BY <2>1, <2>2, <2>3, EnteredStands, ValidStands DEF SenderVouched
<1> QED BY <1>1, Always, PTL

(* validate_implicit_state_block: since policy and profile are read once   *)
(* and the registry only grows, looking the signers up one at a time gives *)
(* no verdict that a single look would not have given.                     *)
THEOREM Verdict == Spec => []VerdictIsDeserved
<1>1. IInv => VerdictIsDeserved
  BY VerdictHolds, TypeParts DEF IInv
<1> QED BY <1>1, Always, PTL
==============================================================================
