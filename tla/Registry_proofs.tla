--------------------------- MODULE Registry_proofs ---------------------------
(***************************************************************************)
(* Proofs about what a node keeps of others: their identities (Membership) *)
(* and the routes to them (Routing).  For any documents, addresses, chains *)
(* and transactions, and any destinations, routes, callers, funds and      *)
(* rates.                                                                  *)
(***************************************************************************)
EXTENDS Membership, Routing, TLAPS

-----------------------------------------------------------------------------
(* Identities                                                              *)

(* Placeholders are the only zero keys and are never set.                  *)
KindsOfEntries ==
  \A d \in Dids :
    /\ peerKeys[d] = "zero" => d.form = "bare"
    /\ peerKeys[d] = "set" => d.form \in {"full", "short", "hash", "addr"}

(* An entry of a document or an address stands for a primary identity.     *)
EntriesOfPrimary ==
  /\ \A h \in Docs :
       peerKeys[Full(h)] # "none" \/ peerKeys[Short(h)] # "none" => IsPrimary(h)
  /\ \A c \in Chains, a \in Addrs :
       peerKeys[AddrDid(c, a)] # "none" => \E h \in Docs : Doc[h].addr = a /\ IsPrimary(h)

PrimaryIsSet == \A h \in Docs : IsPrimary(h) => peerKeys[Full(h)] = "set"

(* A document found anywhere is found under its own DID too.               *)
DocsKept ==
  \A d \in Dids : identities[d] # NoDoc => identities[Full(identities[d])] = identities[d]

IInv == TypeOK /\ KindsOfEntries /\ EntriesOfPrimary /\ PrimaryIsSet /\ DocsKept

-----------------------------------------------------------------------------
(* DIDs                                                                    *)

(* Each form of a DID is a DID.                                            *)
LEMMA DidTypes ==
  /\ \A h \in Docs : Full(h) \in Dids /\ Short(h) \in Dids
  /\ \A c \in Chains, h \in Docs : Hashed(c, h) \in Dids
  /\ \A c \in Chains, a \in Addrs : AddrDid(c, a) \in Dids /\ Bare(c, a) \in Dids
  /\ \A a \in Addrs : PeerAddr(a) \in Dids
BY DEF Dids, Did, Full, Short, Hashed, AddrDid, Bare, PeerAddr

(* What the rewriting of a query leaves.                                   *)
LEMMA NormalType ==
  ASSUME NEW q \in Dids
  PROVE  /\ Normal(q) \in Dids
         /\ Normal(q).form # "bare" /\ Normal(q).form # "hash"
         /\ q.form # "bare" /\ q.form # "hash" => Normal(q) = q
<1>1. CASE q.form = "hash"
  BY <1>1 DEF Normal, Did, Dids
<1>2. CASE q.form = "bare"
  BY <1>2 DEF Normal, Did, Dids
<1>3. CASE q.form # "hash" /\ q.form # "bare"
  BY <1>3 DEF Normal
<1> QED BY <1>1, <1>2, <1>3

(* The address and the keys of a document.                                 *)
LEMMA DocTypes ==
  ASSUME NEW h \in Docs
  PROVE  Doc[h].addr \in Addrs /\ Doc[h].keys \in SUBSET Keys
BY DocAssumption

(* The address an address form names is an account's.                      *)
LEMMA MappedType ==
  ASSUME NEW q \in Dids, q.form \in {"addr", "peeraddr", "bare", "peerbare"}
  PROVE  q.of \in Addrs
BY DEF Dids

(* An address has a primary identity, a placeholder, or nothing.           *)
LEMMA AddressCases ==
  ASSUME TypeOK, NEW a \in Addrs
  PROVE  \/ addressToDid[a] = NoDid
         \/ \E h \in Docs : Doc[h].addr = a /\ addressToDid[a] = Full(h) /\ IsPrimary(h)
         \/ \E c \in Chains : addressToDid[a] = Bare(c, a)
BY DEF TypeOK, DidsOf, IsPrimary

(* No two forms of a DID are alike.                                        *)
LEMMA FormsOf ==
  /\ \A h : Full(h).form = "full" /\ Short(h).form = "short"
  /\ \A c, h : Hashed(c, h).form = "hash"
  /\ \A c, a : AddrDid(c, a).form = "addr" /\ Bare(c, a).form = "bare"
  /\ \A a : PeerAddr(a).form = "peeraddr"
  /\ \A h : Full(h).of = h /\ Short(h).of = h
  /\ \A c, a : AddrDid(c, a).of = a /\ PeerAddr(a).of = a
BY DEF Did, Full, Short, Hashed, AddrDid, Bare, PeerAddr

(* Nobody is taken for registered because of a placeholder.                *)
LEMMA BareIsNot ==
  ASSUME TypeOK, KindsOfEntries, NEW c \in Chains, NEW a \in Addrs
  PROVE  ~IsDidFullyRegistered(Bare(c, a))
<1> DEFINE q == Normal(Bare(c, a))
<1>1. q = Did("peerbare", a, NoChain) /\ q.form = "peerbare" /\ q \in Dids
  BY DEF Normal, Bare, Did, Dids
<1>2. peerKeys[q] = "none"
  BY <1>1 DEF TypeOK, KindsOfEntries
<1>3. FoundByKey(q) = {} /\ ~Mapped(q)
  BY <1>1 DEF FoundByKey, Mapped
<1> QED BY <1>2, <1>3 DEF IsDidFullyRegistered

(* Taken means there is a primary identity.                                *)
LEMMA TakenIsPrimary ==
  ASSUME TypeOK, KindsOfEntries, PrimaryIsSet, NEW a \in Addrs
  PROVE  Taken(a) <=> \E h \in Docs : Doc[h].addr = a /\ IsPrimary(h)
<1>1. ASSUME NEW h \in Docs, Doc[h].addr = a, IsPrimary(h) PROVE Taken(a)
  <2>1. addressToDid[a] = Full(h) /\ peerKeys[Full(h)] = "set"
    BY <1>1 DEF IsPrimary, PrimaryIsSet
  <2>2. Full(h) \in Dids /\ Full(h).form = "full"
    BY DidTypes, FormsOf
  <2>3. Normal(Full(h)) = Full(h)
    BY <2>2, NormalType
  <2>4. Full(h) # NoDid
    BY <2>2, SentinelAssumption
  <2>5. IsDidFullyRegistered(Full(h))
    BY <2>1, <2>3 DEF IsDidFullyRegistered
  <2> QED BY <2>1, <2>4, <2>5 DEF Taken
<1>2. ASSUME Taken(a) PROVE \E h \in Docs : Doc[h].addr = a /\ IsPrimary(h)
  BY <1>2, AddressCases, BareIsNot DEF Taken
<1> QED BY <1>1, <1>2

-----------------------------------------------------------------------------
(* The inductive step                                                      *)

(* The invariant of an empty registry.                                     *)
LEMMA InitIInv == Init => IInv
<1> SUFFICES ASSUME Init PROVE IInv
  OBVIOUS
<1>1. \A h \in Docs : Full(h) \in Dids /\ Short(h) \in Dids /\ ~IsPrimary(h)
  BY DidTypes, DocTypes, SentinelAssumption DEF Init, IsPrimary
<1>2. TypeOK
  BY ChainAssumption DEF Init, TypeOK
<1>3. KindsOfEntries /\ DocsKept
  BY DEF Init, KindsOfEntries, DocsKept
<1>4. EntriesOfPrimary /\ PrimaryIsSet
  BY <1>1, DidTypes DEF Init, EntriesOfPrimary, PrimaryIsSet
<1> QED BY <1>2, <1>3, <1>4 DEF IInv

(* The entries a registration makes.                                       *)
LEMMA EntriesType ==
  ASSUME TypeOK, NEW h \in Docs
  PROVE  /\ Entries(h) \subseteq Dids
         /\ \A d \in Entries(h) : d.form \in {"full", "short", "hash", "addr"}
BY DidTypes, FormsOf, DocTypes DEF Entries, TypeOK

(* Registration makes h the identity of its address and adds its entries.  *)
LEMMA RegisterKeeps ==
  ASSUME IInv, NEW h \in Docs, Register(h)
  PROVE  IInv'
<1> DEFINE a == Doc[h].addr
<1>1. a \in Addrs /\ Full(h) \in Dids
  BY DocTypes, DidTypes
<1>2. \A g \in Docs : Doc[g].addr = a => ~IsPrimary(g)
  BY <1>1, TakenIsPrimary DEF Register, IInv
<1>3. addressToDid' = [addressToDid EXCEPT ![a] = Full(h)]
  BY DEF Register
<1>4. TypeOK'
  BY <1>1, <1>3, EntriesType DEF IInv, TypeOK, Register, DidsOf
<1>5. KindsOfEntries'
  BY EntriesType DEF IInv, KindsOfEntries, TypeOK, Register
<1>6. \A g \in Docs : IsPrimary(g)' <=> g = h \/ IsPrimary(g)
  <2> TAKE g \in Docs
  <2>1. Doc[g].addr \in Addrs
    BY DocTypes
  <2>2. Full(g) = Full(h) => g = h
    BY FormsOf
  <2>3. CASE Doc[g].addr = a
    BY <1>1, <1>2, <1>3, <2>2, <2>3 DEF IsPrimary, IInv, TypeOK
  <2>4. CASE Doc[g].addr # a
    BY <1>1, <1>3, <2>1, <2>4 DEF IsPrimary, IInv, TypeOK
  <2> QED BY <2>3, <2>4
<1>7. EntriesOfPrimary'
  <2>1. ASSUME NEW g \in Docs, peerKeys'[Full(g)] # "none" \/ peerKeys'[Short(g)] # "none"
        PROVE  IsPrimary(g)'
    <3>1. Full(g) \in Dids /\ Short(g) \in Dids
      BY DidTypes
    <3>2. Full(g) \in Entries(h) \/ Short(g) \in Entries(h) => g = h
      BY DEF Entries, Did, Full, Short, Hashed, AddrDid
    <3> QED BY <1>6, <2>1, <3>1, <3>2 DEF Register, IInv, EntriesOfPrimary
  <2>2. ASSUME NEW c \in Chains, NEW b \in Addrs, peerKeys'[AddrDid(c, b)] # "none"
        PROVE  \E g \in Docs : Doc[g].addr = b /\ IsPrimary(g)'
    <3>1. AddrDid(c, b) \in Dids
      BY DidTypes
    <3>2. AddrDid(c, b) \in Entries(h) => b = a
      BY DEF Entries, Did, Full, Short, Hashed, AddrDid
    <3>3. CASE b = a
      BY <1>6, <3>3
    <3>4. CASE b # a
      <4>1. peerKeys[AddrDid(c, b)] # "none"
        BY <2>2, <3>1, <3>2, <3>4 DEF Register
      <4> QED BY <4>1, <1>6 DEF IInv, EntriesOfPrimary
    <3> QED BY <3>3, <3>4
  <2> QED BY <2>1, <2>2 DEF EntriesOfPrimary
<1>8. PrimaryIsSet'
  BY <1>6, DidTypes DEF PrimaryIsSet, IInv, Register, Entries
<1>9. DocsKept'
  <2> SUFFICES ASSUME NEW d \in Dids, identities'[d] # NoDoc
               PROVE  identities'[Full(identities'[d])] = identities'[d]
    BY DEF DocsKept
  <2>1. identities' = [e \in Dids |-> IF e \in Entries(h) THEN h ELSE identities[e]]
    BY DEF Register
  <2>2. identities'[Full(h)] = h
    BY <1>1, <2>1 DEF Entries
  <2>3. CASE d \in Entries(h)
    BY <2>1, <2>2, <2>3
  <2>4. CASE d \notin Entries(h)
    <3>1. identities'[d] = identities[d] /\ identities[d] \in Docs
      BY <2>1, <2>4 DEF IInv, TypeOK
    <3>2. identities[Full(identities[d])] = identities[d] /\ Full(identities[d]) \in Dids
      BY <3>1, DidTypes DEF IInv, DocsKept
    <3>3. Full(identities[d]) \in Entries(h) => identities[d] = h
      BY DEF Entries, Did, Full, Short, Hashed, AddrDid
    <3> QED BY <2>1, <2>2, <3>1, <3>2, <3>3
  <2> QED BY <2>3, <2>4
<1> QED BY <1>4, <1>5, <1>7, <1>8, <1>9 DEF IInv

(* A placeholder goes to an address that has nothing.                      *)
LEMMA PlaceholderKeeps ==
  ASSUME IInv, NEW s \in Sends, Placeholder(s)
  PROVE  IInv'
<1> DEFINE a == Send[s].to
           p == Bare(proxyChain, a)
<1>1. a \in Addrs /\ proxyChain \in Chains /\ p \in Dids /\ p.form = "bare"
  BY SendAssumption, DidTypes, FormsOf DEF IInv, TypeOK
<1>2. CASE ~Unknown(a)
  <2>1. UNCHANGED <<peerKeys, addressToDid, identities, chainId, proxyChain>>
    BY <1>2 DEF Placeholder
  <2>2. TypeOK'
    BY <2>1 DEF Placeholder, IInv, TypeOK
  <2> QED BY <2>1, <2>2 DEF IInv, KindsOfEntries, EntriesOfPrimary, PrimaryIsSet, DocsKept, IsPrimary
<1>3. CASE Unknown(a)
  <2>1. /\ peerKeys' = [peerKeys EXCEPT ![p] = "zero"]
        /\ addressToDid' = [addressToDid EXCEPT ![a] = p]
        /\ UNCHANGED <<identities, chainId, proxyChain>>
    BY <1>3 DEF Placeholder, PlaceholderKey
  <2>2. TypeOK'
    BY <1>1, <2>1 DEF Placeholder, IInv, TypeOK, DidsOf
  <2>3. KindsOfEntries' /\ DocsKept'
    BY <1>1, <2>1 DEF IInv, TypeOK, KindsOfEntries, DocsKept
  <2>4. \A g \in Docs : IsPrimary(g)' <=> IsPrimary(g)
    <3> TAKE g \in Docs
    <3>1. Doc[g].addr \in Addrs /\ Full(g) # p /\ Full(g) # NoDid
      BY <1>1, DocTypes, DidTypes, FormsOf, SentinelAssumption
    <3>2. addressToDid[a] = NoDid
      BY <1>3 DEF Unknown
    <3>3. CASE Doc[g].addr = a
      BY <1>1, <2>1, <3>1, <3>2, <3>3 DEF IsPrimary, IInv, TypeOK
    <3>4. CASE Doc[g].addr # a
      BY <1>1, <2>1, <3>1, <3>4 DEF IsPrimary, IInv, TypeOK
    <3> QED BY <3>3, <3>4
  <2>5. \A d \in Dids : d.form # "bare" => peerKeys'[d] = peerKeys[d]
    BY <1>1, <2>1 DEF IInv, TypeOK
  <2>6. EntriesOfPrimary' /\ PrimaryIsSet'
    BY <2>4, <2>5, DidTypes, FormsOf DEF IInv, EntriesOfPrimary, PrimaryIsSet
  <2> QED BY <2>2, <2>3, <2>6 DEF IInv
<1> QED BY <1>2, <1>3

(* Every step keeps the invariant.                                         *)
LEMMA NextIInv == IInv /\ [Next]_vars => IInv'
<1> SUFFICES ASSUME IInv, [Next]_vars PROVE IInv'
  OBVIOUS
<1> USE DEF IInv
<1>1. ASSUME NEW h \in Docs, Register(h) PROVE IInv'
  BY <1>1, RegisterKeeps
<1>2. ASSUME NEW s \in Sends, Placeholder(s) PROVE IInv'
  BY <1>2, PlaceholderKeeps
<1>3. ASSUME StoreChain \/ UpdateChain \/ (\E s \in Sends : Authorize(s) \/ NotIndexed(s)) \/ UNCHANGED vars
      PROVE  IInv'
  <2>1. UNCHANGED registry
    BY <1>3 DEF StoreChain, UpdateChain, Authorize, NotIndexed, registry, vars
  <2>2. TypeOK'
    BY <1>3, ChainAssumption
       DEF TypeOK, StoreChain, UpdateChain, Authorize, NotIndexed, registry, vars
  <2> QED BY <2>1, <2>2
          DEF registry, KindsOfEntries, EntriesOfPrimary, PrimaryIsSet, DocsKept, IsPrimary
<1> QED BY <1>1, <1>2, <1>3 DEF Next, RegisterDid

(* Every variable keeps its type.                                          *)
THEOREM TypeCorrect == Spec => []TypeOK
<1>1. IInv => TypeOK
  BY DEF IInv
<1> QED BY InitIInv, NextIInv, <1>1, PTL DEF Spec

-----------------------------------------------------------------------------
(* What lasts                                                              *)

(* A primary identity stays, and an address that has anything gets nothing *)
(* but an identity in the place of a placeholder.                          *)
LEMMA AddressStep ==
  ASSUME IInv, [Next]_vars, NEW a \in Addrs,
         addressToDid[a] # NoDid, addressToDid'[a] # addressToDid[a]
  PROVE  /\ addressToDid[a].form = "bare" /\ addressToDid'[a].form = "full"
         /\ \A h \in Docs : Doc[h].addr = a => ~IsPrimary(h)
<1>1. ASSUME NEW h \in Docs, Register(h)
      PROVE  /\ addressToDid[a].form = "bare" /\ addressToDid'[a].form = "full"
             /\ \A g \in Docs : Doc[g].addr = a => ~IsPrimary(g)
  <2>1. addressToDid' = [addressToDid EXCEPT ![Doc[h].addr] = Full(h)]
    BY <1>1 DEF Register
  <2>2. Doc[h].addr = a /\ addressToDid'[a] = Full(h)
    BY <2>1, DocTypes DEF IInv, TypeOK
  <2>3. \A g \in Docs : Doc[g].addr = a => ~IsPrimary(g)
    BY <1>1, <2>2, TakenIsPrimary DEF Register, IInv
  <2>4. addressToDid[a].form = "bare"
    BY <2>3, AddressCases, FormsOf DEF IInv
  <2> QED BY <2>2, <2>3, <2>4, FormsOf
<1>2. ASSUME NEW s \in Sends, Placeholder(s) PROVE FALSE
  <2>1. CASE ~Unknown(Send[s].to)
    BY <1>2, <2>1 DEF Placeholder
  <2>2. CASE Unknown(Send[s].to)
    <3>1. Send[s].to # a
      BY <2>2 DEF Unknown
    <3>2. addressToDid' = [addressToDid EXCEPT ![Send[s].to] = Bare(proxyChain, Send[s].to)]
      BY <1>2, <2>2 DEF Placeholder
    <3> QED BY <3>1, <3>2 DEF IInv, TypeOK
  <2> QED BY <2>1, <2>2
<1>3. CASE StoreChain \/ UpdateChain \/ (\E s \in Sends : Authorize(s) \/ NotIndexed(s)) \/ UNCHANGED vars
  BY <1>3 DEF StoreChain, UpdateChain, Authorize, NotIndexed, registry, vars
<1> QED BY <1>1, <1>2, <1>3 DEF Next, RegisterDid

(* The identity of an address is final, only placeholders are replaced.    *)
THEOREM FinalRegistration == Spec => RegistrationFinal
<1>1. IInv /\ [Next]_vars =>
        [\A a \in Addrs :
           addressToDid[a] # NoDid /\ addressToDid'[a] # addressToDid[a] =>
             addressToDid[a].form = "bare" /\ addressToDid'[a].form = "full"]_vars
  BY AddressStep
<1> QED BY InitIInv, NextIInv, <1>1, PTL DEF Spec, RegistrationFinal

(* Entries that are set stay so.                                           *)
LEMMA SetStays ==
  ASSUME IInv, [Next]_vars, NEW d \in Dids, d.form # "bare"
  PROVE  /\ peerKeys[d] \in {"none", "set"}
         /\ peerKeys[d] = "set" => peerKeys'[d] = "set"
         /\ peerKeys'[d] \in {"none", "set"}
<1>1. IInv'
  BY NextIInv
<1>2. peerKeys[d] \in {"none", "set"} /\ peerKeys'[d] \in {"none", "set"}
  BY <1>1 DEF IInv, TypeOK, KindsOfEntries
<1>3. ASSUME peerKeys[d] = "set" PROVE peerKeys'[d] = "set"
  <2>1. ASSUME NEW h \in Docs, Register(h) PROVE peerKeys'[d] = "set"
    BY <1>3, <2>1 DEF Register
  <2>2. ASSUME NEW s \in Sends, Placeholder(s) PROVE peerKeys'[d] = "set"
    BY <1>3, <2>2, FormsOf DEF Placeholder, IInv, TypeOK
  <2>3. CASE StoreChain \/ UpdateChain \/ (\E s \in Sends : Authorize(s) \/ NotIndexed(s)) \/ UNCHANGED vars
    BY <1>3, <2>3 DEF StoreChain, UpdateChain, Authorize, NotIndexed, registry, vars
  <2> QED BY <2>1, <2>2, <2>3 DEF Next, RegisterDid
<1> QED BY <1>2, <1>3

(* A document found once is found forever.                                 *)
LEMMA DocStays ==
  ASSUME IInv, [Next]_vars, NEW g \in Docs, NEW d \in Dids, identities[d] = g
  PROVE  \E e \in Dids : identities'[e] = g
<1>1. identities[Full(g)] = g /\ Full(g) \in Dids
  BY DidTypes, SentinelAssumption DEF IInv, DocsKept
<1>2. ASSUME NEW h \in Docs, Register(h) PROVE identities'[Full(g)] = g
  <2>1. Full(g) \in Entries(h) => g = h
    BY DEF Entries, Did, Full, Short, Hashed, AddrDid
  <2> QED BY <1>1, <1>2, <2>1 DEF Register
<1>3. ASSUME NEW s \in Sends, Placeholder(s) PROVE identities'[Full(g)] = g
  BY <1>1, <1>3 DEF Placeholder
<1>4. CASE StoreChain \/ UpdateChain \/ (\E s \in Sends : Authorize(s) \/ NotIndexed(s)) \/ UNCHANGED vars
  BY <1>1, <1>4 DEF StoreChain, UpdateChain, Authorize, NotIndexed, registry, vars
<1> QED BY <1>1, <1>2, <1>3, <1>4 DEF Next, RegisterDid

(* An address known under a set entry keeps it.                            *)
LEMMA MappingStays ==
  ASSUME IInv, [Next]_vars, NEW a \in Addrs,
         addressToDid[a] # NoDid, peerKeys[addressToDid[a]] = "set"
  PROVE  addressToDid'[a] = addressToDid[a] /\ peerKeys'[addressToDid[a]] = "set"
<1>1. addressToDid[a] \in Dids
  BY DEF IInv, TypeOK
<1>2. addressToDid[a].form # "bare"
  BY <1>1 DEF IInv, KindsOfEntries
<1> QED BY <1>1, <1>2, AddressStep, SetStays

(* Who is found by key stays found.                                        *)
LEMMA FoundStays ==
  ASSUME IInv, [Next]_vars, NEW q \in Dids, FoundByKey(q) # {}
  PROVE  FoundByKey(q)' # {}
<1>1. q.form = "key" /\ \E g \in Docs : q.of \in Doc[g].keys /\ \E d \in Dids : identities[d] = g
  BY DEF FoundByKey
<1>2. PICK g \in Docs : q.of \in Doc[g].keys /\ \E e \in Dids : identities'[e] = g
  BY <1>1, DocStays
<1> QED BY <1>1, <1>2 DEF FoundByKey

(* Who is fully registered remains so, under the same form of a DID.       *)
LEMMA FullyStays ==
  ASSUME IInv, [Next]_vars, NEW query \in Dids, IsDidFullyRegistered(query)
  PROVE  IsDidFullyRegistered(query)'
<1> DEFINE q == Normal(query)
<1>1. q \in Dids /\ q.form # "bare"
  BY NormalType
<1>2. /\ peerKeys[q] \in {"none", "set"} /\ peerKeys'[q] \in {"none", "set"}
      /\ peerKeys[q] = "set" => peerKeys'[q] = "set"
  BY <1>1, SetStays
<1>3. CASE peerKeys[q] = "set" \/ peerKeys'[q] = "set"
  BY <1>2, <1>3 DEF IsDidFullyRegistered
<1>4. CASE FoundByKey(q) # {}
  BY <1>1, <1>2, <1>4, FoundStays DEF IsDidFullyRegistered
<1>5. CASE Mapped(q) /\ peerKeys[addressToDid[q.of]] = "set"
  <2>1. q.of \in Addrs /\ addressToDid[q.of] # NoDid
    BY <1>1, <1>5, MappedType DEF Mapped
  <2>2. addressToDid'[q.of] = addressToDid[q.of] /\ peerKeys'[addressToDid[q.of]] = "set"
    BY <1>5, <2>1, MappingStays
  <2>3. Mapped(q)'
    BY <1>5, <2>1, <2>2 DEF Mapped
  <2> QED BY <1>2, <2>2, <2>3 DEF IsDidFullyRegistered
<1> QED BY <1>2, <1>3, <1>4, <1>5 DEF IsDidFullyRegistered

(* What a transaction was let through for still holds when it is indexed.  *)
AuthInv == IInv /\ AuthorizationLasts

(* Who may send stays allowed to.                                          *)
LEMMA AuthorizedStays ==
  ASSUME IInv, [Next]_vars, NEW s \in Sends, Authorized(s)
  PROVE  Authorized(s)'
<1>1. Send[s].from \in Addrs /\ (Send[s].header # NoDid => Send[s].header \in Dids)
  BY SendAssumption
<1>2. CASE Send[s].header # NoDid
  BY <1>1, <1>2, FullyStays DEF Authorized
<1>3. CASE Send[s].header = NoDid
  <2> DEFINE a == Send[s].from
  <2>1. addressToDid[a] # NoDid /\ IsDidFullyRegistered(addressToDid[a])
    BY <1>3 DEF Authorized
  <2>2. Taken(a)
    BY <2>1 DEF Taken
  <2>3. PICK h \in Docs : Doc[h].addr = a /\ IsPrimary(h)
    BY <1>1, <2>2, TakenIsPrimary DEF IInv
  <2>4. addressToDid[a] = Full(h) /\ addressToDid'[a] = Full(h)
    BY <1>1, <2>1, <2>3, AddressStep DEF IsPrimary
  <2>5. IsDidFullyRegistered(Full(h))'
    BY <2>1, <2>4, DidTypes, FullyStays
  <2> QED BY <1>3, <2>1, <2>4, <2>5 DEF Authorized
<1> QED BY <1>2, <1>3

(* A transaction let through is authorised as long as it is under way,     *)
(* for any documents, transactions and change of the chain id.             *)
THEOREM LastingAuthorization == Spec => []AuthorizationLasts
<1>1. Init => AuthInv
  <2>1. Init => AuthorizationLasts
    BY DEF Init, AuthorizationLasts
  <2> QED BY <2>1, InitIInv DEF AuthInv
<1>2. AuthInv /\ [Next]_vars => AuthInv'
  <2> SUFFICES ASSUME AuthInv, [Next]_vars PROVE AuthInv'
    OBVIOUS
  <2>1. IInv /\ IInv'
    BY NextIInv DEF AuthInv
  <2>2. ASSUME NEW s \in Sends, send'[s] \in {"forwarded", "done"} PROVE Authorized(s)'
    <3>1. send[s] \in {"forwarded", "done"} \/ Authorized(s)
      <4>1. ASSUME NEW r \in Sends, Authorize(r) \/ NotIndexed(r) \/ Placeholder(r)
            PROVE  send[s] \in {"forwarded", "done"} \/ Authorized(s)
        BY <2>1, <2>2, <4>1 DEF Authorize, NotIndexed, Placeholder, IInv, TypeOK
      <4>2. CASE StoreChain \/ UpdateChain \/ (\E h \in Docs : Register(h)) \/ UNCHANGED vars
        BY <2>2, <4>2 DEF StoreChain, UpdateChain, Register, vars
      <4> QED BY <4>1, <4>2 DEF Next, RegisterDid
    <3>2. Authorized(s)
      BY <3>1 DEF AuthInv, AuthorizationLasts
    <3> QED BY <2>1, <3>2, AuthorizedStays
  <2> QED BY <2>1, <2>2 DEF AuthInv, AuthorizationLasts
<1>3. AuthInv => AuthorizationLasts
  BY DEF AuthInv
<1> QED BY <1>1, <1>2, <1>3, PTL DEF Spec

-----------------------------------------------------------------------------
(* Placeholders                                                            *)

(* A placeholder is neither found nor in the way.                          *)
LEMMA Inert == IInv => PlaceholderInert
<1> SUFFICES ASSUME IInv, NEW a \in Addrs, \A h \in Docs : ~IsPrimary(h) \/ Doc[h].addr # a
             PROVE  /\ ~Taken(a)
                    /\ \A c \in Chains : ~IsDidFullyRegistered(AddrDid(c, a)) /\ ~IsDidFullyRegistered(Bare(c, a))
                    /\ ~IsDidFullyRegistered(PeerAddr(a))
                    /\ \A h \in Docs : Doc[h].addr = a =>
                         ~IsDidFullyRegistered(Full(h)) /\ ~IsDidFullyRegistered(Short(h))
  BY DEF PlaceholderInert
<1>1. ~Taken(a)
  BY TakenIsPrimary DEF IInv
<1>2. addressToDid[a] # NoDid => peerKeys[addressToDid[a]] # "set"
  <2>1. ASSUME NEW c \in Chains, addressToDid[a] = Bare(c, a) PROVE peerKeys[addressToDid[a]] # "set"
    BY <2>1, DidTypes, FormsOf DEF IInv, KindsOfEntries
  <2> QED BY <2>1, AddressCases DEF IInv
<1>3. ASSUME NEW q \in Dids, q.form \in {"addr", "peeraddr"}, q.of = a, peerKeys[q] = "none"
      PROVE  ~IsDidFullyRegistered(q)
  <2>1. Normal(q) = q /\ FoundByKey(q) = {}
    BY <1>3, NormalType DEF FoundByKey
  <2> QED BY <1>2, <1>3, <2>1 DEF IsDidFullyRegistered, Mapped
<1>4. ASSUME NEW c \in Chains
      PROVE  ~IsDidFullyRegistered(AddrDid(c, a)) /\ ~IsDidFullyRegistered(Bare(c, a))
  <2>1. peerKeys[AddrDid(c, a)] = "none"
    BY DEF IInv, EntriesOfPrimary
  <2>2. ~IsDidFullyRegistered(AddrDid(c, a))
    BY <1>3, <2>1, DidTypes, FormsOf
  <2> QED BY <2>2, BareIsNot DEF IInv
<1>5. ~IsDidFullyRegistered(PeerAddr(a))
  <2>1. peerKeys[PeerAddr(a)] = "none"
    BY DidTypes, FormsOf DEF IInv, TypeOK, KindsOfEntries
  <2> QED BY <1>3, <2>1, DidTypes, FormsOf
<1>6. ASSUME NEW q \in Dids, q.form \in {"full", "short"}, peerKeys[q] = "none"
      PROVE  ~IsDidFullyRegistered(q)
  <2>1. Normal(q) = q /\ FoundByKey(q) = {} /\ ~Mapped(q)
    BY <1>6, NormalType DEF FoundByKey, Mapped
  <2> QED BY <1>6, <2>1 DEF IsDidFullyRegistered
<1>7. ASSUME NEW h \in Docs, Doc[h].addr = a
      PROVE  ~IsDidFullyRegistered(Full(h)) /\ ~IsDidFullyRegistered(Short(h))
  <2>1. peerKeys[Full(h)] = "none" /\ peerKeys[Short(h)] = "none"
    BY <1>7 DEF IInv, EntriesOfPrimary
  <2> QED BY <1>6, <2>1, DidTypes, FormsOf
<1> QED BY <1>1, <1>4, <1>5, <1>7

(* A placeholder, or no entry at all, never passes for a registration.     *)
THEOREM PlaceholdersHarmless == Spec => []PlaceholderInert
BY InitIInv, NextIInv, Inert, PTL DEF Spec
-----------------------------------------------------------------------------
(* What each form resolves to                                              *)

(* Documents are found only of identities that are primary, under forms of *)
(* theirs, and those of every such identity are.                           *)
DocsOfPrimary ==
  \A d \in Dids : identities[d] # NoDoc =>
    /\ IsPrimary(identities[d])
    /\ d.form \in {"full", "short", "hash", "addr"}
    /\ d.form = "addr" => d.of = Doc[identities[d]].addr

PrimaryHasDocs ==
  \A h \in Docs : IsPrimary(h) =>
    identities[Full(h)] = h /\ identities[Short(h)] = h /\ peerKeys[Short(h)] = "set"

FormsInv == IInv /\ DocsOfPrimary /\ PrimaryHasDocs

(* Registering h adds h to the primary identities.                         *)
LEMMA RegisterPrimary ==
  ASSUME IInv, NEW h \in Docs, Register(h), NEW g \in Docs
  PROVE  IsPrimary(g)' <=> g = h \/ IsPrimary(g)
<1> DEFINE a == Doc[h].addr
<1>1. a \in Addrs /\ Doc[g].addr \in Addrs
  BY DocTypes
<1>2. Doc[g].addr = a => ~IsPrimary(g)
  BY <1>1, TakenIsPrimary DEF Register, IInv
<1>3. addressToDid' = [addressToDid EXCEPT ![a] = Full(h)]
  BY DEF Register
<1>4. Full(g) = Full(h) => g = h
  BY FormsOf
<1>5. CASE Doc[g].addr = a
  BY <1>1, <1>2, <1>3, <1>4, <1>5 DEF IsPrimary, IInv, TypeOK
<1>6. CASE Doc[g].addr # a
  BY <1>1, <1>3, <1>6 DEF IsPrimary, IInv, TypeOK
<1> QED BY <1>5, <1>6

(* A placeholder makes nobody primary.                                     *)
LEMMA PlaceholderPrimary ==
  ASSUME IInv, NEW s \in Sends, Placeholder(s), NEW g \in Docs
  PROVE  IsPrimary(g)' <=> IsPrimary(g)
<1> DEFINE a == Send[s].to
           p == Bare(proxyChain, a)
<1>1. a \in Addrs /\ Doc[g].addr \in Addrs /\ Full(g) \in Dids /\ Full(g) # p
  BY SendAssumption, DocTypes, DidTypes, FormsOf
<1>2. CASE ~Unknown(a)
  BY <1>2 DEF Placeholder, IsPrimary
<1>3. CASE Unknown(a)
  <2>1. addressToDid' = [addressToDid EXCEPT ![a] = p] /\ addressToDid[a] = NoDid
    BY <1>3 DEF Placeholder, Unknown
  <2> QED BY <1>1, <2>1, SentinelAssumption DEF IsPrimary, IInv, TypeOK
<1> QED BY <1>2, <1>3

(* Every step keeps it, the change of the chain id included.               *)
LEMMA FormsStep ==
  ASSUME FormsInv, [Next]_vars
  PROVE  FormsInv'
<1>1. IInv /\ IInv' /\ DocsOfPrimary /\ PrimaryHasDocs
  BY NextIInv DEF FormsInv
<1>2. ASSUME NEW h \in Docs, Register(h) PROVE DocsOfPrimary' /\ PrimaryHasDocs'
  <2>1. /\ identities' = [e \in Dids |-> IF e \in Entries(h) THEN h ELSE identities[e]]
        /\ peerKeys' = [e \in Dids |-> IF e \in Entries(h) THEN "set" ELSE peerKeys[e]]
    BY <1>2 DEF Register
  <2>2. \A g \in Docs : IsPrimary(g)' <=> g = h \/ IsPrimary(g)
    BY <1>1, <1>2, RegisterPrimary
  <2>3. ASSUME NEW d \in Dids, identities'[d] # NoDoc
        PROVE  /\ addressToDid'[Doc[identities'[d]].addr] = Full(identities'[d])
               /\ d.form \in {"full", "short", "hash", "addr"}
               /\ d.form = "addr" => d.of = Doc[identities'[d]].addr
    <3>1. CASE d \in Entries(h)
      <4>1. identities'[d] = h /\ addressToDid'[Doc[h].addr] = Full(h)
        BY <2>1, <2>2, <3>1 DEF IsPrimary
      <4>2. d.form = "addr" => d.of = Doc[h].addr
        BY <3>1, FormsOf DEF Entries
      <4>3. d.form \in {"full", "short", "hash", "addr"}
        BY <1>1, <3>1, EntriesType DEF IInv
      <4> QED BY <4>1, <4>2, <4>3
    <3>2. CASE d \notin Entries(h)
      <4>1. identities'[d] = identities[d] /\ identities[d] \in Docs /\ identities[d] # NoDoc
        BY <1>1, <2>1, <2>3, <3>2 DEF IInv, TypeOK
      <4>2. IsPrimary(identities[d])
        BY <1>1, <4>1 DEF DocsOfPrimary
      <4>3. addressToDid'[Doc[identities[d]].addr] = Full(identities[d])
        BY <2>2, <4>1, <4>2 DEF IsPrimary
      <4> QED BY <1>1, <4>1, <4>3 DEF DocsOfPrimary
    <3> QED BY <3>1, <3>2
  <2>4. ASSUME NEW g \in Docs, IsPrimary(g)'
        PROVE  identities'[Full(g)] = g /\ identities'[Short(g)] = g /\ peerKeys'[Short(g)] = "set"
    <3>1. Full(g) \in Dids /\ Short(g) \in Dids
      BY DidTypes
    <3>2. CASE g = h
      BY <2>1, <3>1, <3>2 DEF Entries
    <3>3. CASE g # h
      <4>1. Full(g) \notin Entries(h) /\ Short(g) \notin Entries(h)
        BY <3>3 DEF Entries, Did, Full, Short, Hashed, AddrDid
      <4> QED BY <1>1, <2>1, <2>2, <2>4, <3>1, <3>3, <4>1 DEF PrimaryHasDocs
    <3> QED BY <3>2, <3>3
  <2> QED BY <2>3, <2>4 DEF DocsOfPrimary, PrimaryHasDocs, IsPrimary
<1>3. ASSUME NEW s \in Sends, Placeholder(s) PROVE DocsOfPrimary' /\ PrimaryHasDocs'
  <2>1. identities' = identities /\ \A d \in Dids : d.form # "bare" => peerKeys'[d] = peerKeys[d]
    BY <1>1, <1>3, FormsOf DEF Placeholder, IInv, TypeOK
  <2>2. \A g \in Docs : addressToDid'[Doc[g].addr] = Full(g) <=> IsPrimary(g)
    BY <1>1, <1>3, PlaceholderPrimary DEF IsPrimary
  <2>3. \A d \in Dids : identities[d] # NoDoc => identities[d] \in Docs
    BY <1>1 DEF IInv, TypeOK
  <2>4. DocsOfPrimary'
    BY <1>1, <2>1, <2>2, <2>3 DEF DocsOfPrimary, IsPrimary
  <2>5. PrimaryHasDocs'
    BY <1>1, <2>1, <2>2, DidTypes, FormsOf DEF PrimaryHasDocs, IsPrimary
  <2> QED BY <2>4, <2>5
<1>4. ASSUME StoreChain \/ UpdateChain \/ (\E s \in Sends : Authorize(s) \/ NotIndexed(s)) \/ UNCHANGED vars
      PROVE  DocsOfPrimary' /\ PrimaryHasDocs'
  <2>1. UNCHANGED registry
    BY <1>4 DEF StoreChain, UpdateChain, Authorize, NotIndexed, registry, vars
  <2> QED BY <1>1, <2>1 DEF registry, DocsOfPrimary, PrimaryHasDocs, IsPrimary
<1> QED BY <1>1, <1>2, <1>3, <1>4 DEF Next, RegisterDid, FormsInv

(* It holds of an empty registry.                                          *)
LEMMA FormsInitially == Init => FormsInv
<1> SUFFICES ASSUME Init PROVE FormsInv
  OBVIOUS
<1>1. IInv
  BY InitIInv
<1>2. \A h \in Docs : ~IsPrimary(h)
  BY DidTypes, DocTypes, SentinelAssumption DEF Init, IsPrimary
<1>3. DocsOfPrimary /\ PrimaryHasDocs
  BY <1>2 DEF Init, DocsOfPrimary, PrimaryHasDocs
<1> QED BY <1>1, <1>3 DEF FormsInv

(* The forms with the document or the address of a primary identity.       *)
LEMMA FormsOfPrimary ==
  ASSUME FormsInv, NEW h \in Docs, IsPrimary(h),
         NEW q \in {Full(h), Short(h), PeerAddr(Doc[h].addr)} \cup {AddrDid(c, Doc[h].addr) : c \in Chains}
  PROVE  /\ IsDidFullyRegistered(q)
         /\ AddressesByDid(q) = {Doc[h].addr}
         /\ \A r \in Resolved(q) : AddressesByDid(r) = {Doc[h].addr}
<1> DEFINE a == Doc[h].addr
<1>1. IInv /\ DocsOfPrimary /\ PrimaryHasDocs /\ TypeOK
  BY DEF FormsInv, IInv
<1>2. a \in Addrs /\ Full(h) \in Dids /\ Short(h) \in Dids
  BY DocTypes, DidTypes
<1>3. /\ peerKeys[Full(h)] = "set" /\ peerKeys[Short(h)] = "set"
      /\ identities[Full(h)] = h /\ identities[Short(h)] = h
      /\ addressToDid[a] = Full(h) /\ addressToDid[a] # NoDid
  BY <1>1, <1>2, SentinelAssumption DEF IInv, PrimaryIsSet, PrimaryHasDocs, IsPrimary
<1>4. q \in Dids /\ q.form \in {"full", "short", "peeraddr", "addr"} /\ Normal(q) = q /\ FoundByKey(q) = {}
  <2>1. q \in Dids /\ q.form \in {"full", "short", "peeraddr", "addr"}
    BY <1>2, DidTypes, FormsOf
  <2> QED BY <2>1, NormalType DEF FoundByKey
<1>5. AddressesByDid(Full(h)) = {a} /\ AddressesByDid(Short(h)) = {a}
  <2>1. Normal(Full(h)) = Full(h) /\ Normal(Short(h)) = Short(h) /\ h # NoDoc
    BY <1>2, NormalType, FormsOf, SentinelAssumption
  <2> QED BY <1>3, <2>1 DEF AddressesByDid
<1>6. CASE q = Full(h) \/ q = Short(h)
  <2>1. IsDidFullyRegistered(q)
    BY <1>3, <1>4, <1>6 DEF IsDidFullyRegistered
  <2>2. Resolved(q) = {q}
    <3>1. ~Mapped(q)
      BY <1>6, FormsOf DEF Mapped
    <3> QED BY <1>4, <3>1 DEF Resolved
  <2> QED BY <1>5, <1>6, <2>1, <2>2
<1>7. CASE q = PeerAddr(a) \/ \E c \in Chains : q = AddrDid(c, a)
  <2>1. q.of = a /\ q.form \in {"addr", "peeraddr"} /\ Mapped(q)
    BY <1>3, <1>7, FormsOf DEF Mapped
  <2>2. peerKeys[q] \in {"none", "set"}
    BY <1>1, <1>4, <2>1 DEF IInv, KindsOfEntries, TypeOK
  <2>3. IsDidFullyRegistered(q)
    BY <1>3, <1>4, <2>1, <2>2 DEF IsDidFullyRegistered
  <2>4. AddressesByDid(q) = {a}
    <3>1. identities[q] # NoDoc => Doc[identities[q]].addr = a
      BY <1>1, <1>4, <2>1 DEF DocsOfPrimary
    <3> QED BY <1>4, <2>1, <3>1 DEF AddressesByDid
  <2>5. Resolved(q) = {Full(h)}
    BY <1>3, <1>4, <2>1 DEF Resolved
  <2> QED BY <1>5, <2>3, <2>4, <2>5
<1> QED BY <1>6, <1>7

(* Every document with an entry is the primary one of its address.         *)
LEMMA FoundIsPrimary ==
  ASSUME FormsInv, NEW g \in Docs
  PROVE  (\E d \in Dids : identities[d] = g) <=> IsPrimary(g)
<1>1. g # NoDoc /\ Full(g) \in Dids
  BY SentinelAssumption, DidTypes
<1> QED BY <1>1 DEF FormsInv, DocsOfPrimary, PrimaryHasDocs

(* The keys of a primary identity find it, and whoever shares them.        *)
LEMMA KeysOfPrimary ==
  ASSUME FormsInv, NEW h \in Docs, IsPrimary(h), NEW k \in Doc[h].keys
  PROVE  /\ IsDidFullyRegistered(KeyDid(k))
         /\ Resolved(KeyDid(k)) = {Full(g) : g \in {d \in Docs : IsPrimary(d) /\ k \in Doc[d].keys}}
<1> DEFINE q == KeyDid(k)
           found == {g \in Docs : IsPrimary(g) /\ k \in Doc[g].keys}
<1>1. IInv /\ TypeOK
  BY DEF FormsInv, IInv
<1>2. k \in Keys
  BY DocTypes
<1>3. q \in Dids /\ q.form = "key" /\ q.of = k
  BY <1>2 DEF Dids, Did, KeyDid
<1>4. Normal(q) = q
  BY <1>3, NormalType
<1>5. peerKeys[q] = "none"
  BY <1>1, <1>3 DEF IInv, KindsOfEntries, TypeOK
<1>6. \A g \in found : PrimaryOr(Doc[g].addr, g) = g
  <2> SUFFICES ASSUME NEW g \in Docs, IsPrimary(g) PROVE PrimaryOr(Doc[g].addr, g) = g
    OBVIOUS
  <2>1. addressToDid[Doc[g].addr] = Full(g) /\ identities[Full(g)] = g
    BY DEF IsPrimary, FormsInv, PrimaryHasDocs
  <2> QED BY <2>1 DEF PrimaryOr
<1>7. {g \in Docs : q.of \in Doc[g].keys /\ \E d \in Dids : identities[d] = g} = found
  BY <1>3, FoundIsPrimary
<1>8. FoundByKey(q) = {PrimaryOr(Doc[g].addr, g) : g \in found}
  BY <1>3, <1>7 DEF FoundByKey
<1>9. FoundByKey(q) = found
  BY <1>6, <1>8
<1>10. h \in found
  OBVIOUS
<1> HIDE DEF q, found
<1>11. found # {}
  BY <1>10
<1>12. IsDidFullyRegistered(q)
  BY <1>4, <1>5, <1>9, <1>11 DEF IsDidFullyRegistered
<1>13. Resolved(q) = {Full(g) : g \in found}
  BY <1>4, <1>9, <1>11 DEF Resolved
<1> QED BY <1>12, <1>13 DEF q, found

(* However an identity came to be registered, under one chain id or the    *)
(* other, with a placeholder before it or not: each form of its DID and    *)
(* each of its keys leads to it (get_identity, find_identity_by_any_key,   *)
(* get_address_by_did).                                                    *)
THEOREM EveryFormResolves == Spec => []FormsResolve
<1>1. FormsInv => FormsResolve
  BY FormsOfPrimary, KeysOfPrimary DEF FormsResolve
<1> QED BY FormsInitially, FormsStep, <1>1, PTL DEF Spec

-----------------------------------------------------------------------------
(* Routes                                                                  *)

(* What wraps around is a word, and a word does not wrap around.           *)
LEMMA Words ==
  ASSUME NEW x \in Int
  PROVE  x % Word \in 0..Word - 1 /\ (x \in 0..Word - 1 => x % Word = x)
<1>1. Word \in Nat /\ Word > 0
  BY FundsAssumption
<1> DEFINE w == Word
<1> HIDE DEF w
<1>2. ASSUME w \in Nat, w > 0
      PROVE  x % w \in 0..w - 1 /\ (x \in 0..w - 1 => x % w = x)
  <2>1. x % w \in 0..w - 1
    BY <1>2
  <2>2. ASSUME x \in 0..w - 1 PROVE x % w = x
    BY <1>2, <2>2
  <2> QED BY <2>1, <2>2
<1> QED BY <1>1, <1>2 DEF w

(* The amounts a request costs.                                            *)
LEMMA PenaltyType ==
  ASSUME NEW r \in Requests
  PROVE  Penalty(r) \in Nat /\ r.evm \in Nat /\ r.bandwidth \in Nat
<1>1. r.evm \in Nat /\ r.bandwidth \in Nat
  BY RequestsAssumption DEF Request
<1>2. Multiplier(r) \in Nat
  BY DEF Multiplier
<1>3. ScalarPct \in Nat /\ BasePenalty \in Nat
  BY RatesAssumption
<1>4. Multiplier(r) * ScalarPct \in Nat
  BY <1>2, <1>3
<1> DEFINE x == Multiplier(r) * ScalarPct
<1>5. x \div 100 \in Nat
  <2> HIDE DEF x
  <2>1. x \in Nat
    BY <1>4 DEF x
  <2> QED BY <2>1
<1>6. BasePenalty * (x \div 100) \in Nat
  BY <1>3, <1>5
<1> QED BY <1>1, <1>6 DEF Penalty

(* The parts of a route under verification.                                *)
LEMMA PendingType ==
  ASSUME RouterTypeOK, pending # None
  PROVE  /\ pending.dest \in Dests /\ pending.info \in Routes
         /\ pending.caller \in Callers /\ pending.request \in Requests
BY DEF RouterTypeOK, Speculation

(* A request that was a speculation is none afterwards.                    *)
LEMMA NoneIsNone == None \notin Speculation
<1> SUFFICES ASSUME None \in Speculation PROVE FALSE
  OBVIOUS
<1>1. DOMAIN None = {"dest"}
  BY DEF None
<1>2. DOMAIN None = {"dest", "info", "caller", "request"}
  BY DEF Speculation
<1> QED BY <1>1, <1>2

(* What acceptance leaves of a balance: the difference in numbers, unless  *)
(* the sum announced is beyond the word.                                   *)
LEMMA AcceptLeaves ==
  ASSUME RouterTypeOK, Accept
  PROVE  /\ balance' \in [Callers -> 0..Word - 1]
         /\ \A d \in Callers \ {pending.caller} : balance'[d] = balance[d]
         /\ \/ Announced(pending.request) >= Word
            \/ balance'[pending.caller] \in pending.request.evm..balance[pending.caller]
<1> DEFINE c == pending.caller
           r == pending.request
           b == balance[c]
           p == Penalty(r)
           e == r.evm
           k == r.bandwidth
           rest == (b - p - k) % Word
<1>1. pending # None
  BY DEF Accept
<1>2. c \in Callers /\ r \in Requests /\ b \in 0..Word - 1 /\ Word \in Nat
  BY <1>1, PendingType, FundsAssumption DEF RouterTypeOK
<1>3. p \in Nat /\ e \in Nat /\ k \in Nat
  BY <1>2, PenaltyType
<1>4. b >= (p + e + k) % Word
  BY DEF Accept, Accepts, Solvent, Required, Announced
<1>5. balance' = [balance EXCEPT ![c] = rest]
  BY DEF Accept
<1> HIDE DEF b, p, e, k
<1>6. rest \in 0..Word - 1
  <2>1. b - p - k \in Int
    BY <1>2, <1>3
  <2> QED BY <2>1, Words
<1>7. p + e + k < Word => rest \in e..b
  <2> SUFFICES ASSUME p + e + k < Word PROVE rest \in e..b
    OBVIOUS
  <2>1. p + e + k \in 0..Word - 1
    BY <1>2, <1>3
  <2>2. (p + e + k) % Word = p + e + k
    BY <1>3, <2>1, Words
  <2>3. b - p - k \in 0..Word - 1 /\ b - p - k \in e..b /\ b - p - k \in Int
    BY <1>2, <1>3, <1>4, <2>2
  <2>4. (b - p - k) % Word = b - p - k
    BY <2>3, Words
  <2> QED BY <2>3, <2>4
<1>8. Announced(r) = p + e + k
  BY DEF Announced, p, e, k
<1> HIDE DEF rest
<1>9. balance'[c] = rest /\ \A d \in Callers \ {c} : balance'[d] = balance[d]
  BY <1>2, <1>5 DEF RouterTypeOK
<1>10. Announced(r) >= Word \/ p + e + k < Word
  BY <1>2, <1>3, <1>8
<1>11. balance' \in [Callers -> 0..Word - 1]
  BY <1>2, <1>5, <1>6 DEF RouterTypeOK
<1> QED BY <1>7, <1>9, <1>10, <1>11 DEF b, e

(* What a refusal takes.                                                   *)
LEMMA RefusalTakes ==
  ASSUME RouterTypeOK, Refuse
  PROVE  /\ balance' \in [Callers -> 0..Word - 1]
         /\ \A d \in Callers \ {pending.caller} : balance'[d] = balance[d]
         /\ balance[pending.caller] - balance'[pending.caller] \in 0..Fine
<1> DEFINE c == pending.caller
           b == balance[c]
           f == FineOf(c)
<1>1. c \in Callers /\ b \in 0..Word - 1 /\ Word \in Nat
  BY PendingType, FundsAssumption DEF Refuse, RouterTypeOK
<1>2. f \in Nat /\ f <= b /\ f <= Fine /\ Fine \in Nat
  BY <1>1, RatesAssumption DEF FineOf
<1>3. balance' = [balance EXCEPT ![c] = b - f]
  BY DEF Refuse
<1> HIDE DEF b, f
<1>4. b - f \in 0..Word - 1 /\ b - (b - f) \in 0..Fine
  BY <1>1, <1>2
<1>5. balance'[c] = b - f /\ \A d \in Callers \ {c} : balance'[d] = balance[d]
  BY <1>1, <1>3 DEF RouterTypeOK
<1>6. balance' \in [Callers -> 0..Word - 1]
  BY <1>1, <1>3, <1>4 DEF RouterTypeOK
<1> QED BY <1>4, <1>5, <1>6 DEF b

-----------------------------------------------------------------------------

RouterInv == RouterTypeOK /\ HardwareFollowsTable

(* The invariant of a router without routes.                               *)
LEMMA RouterInitInv == RouterInit => RouterInv
BY FundsAssumption DEF RouterInit, RouterInv, RouterTypeOK, HardwareFollowsTable, InFlight

(* Every step keeps it.                                                    *)
LEMMA RouterNextInv == RouterInv /\ [RouterNext]_routerVars => RouterInv'
<1> SUFFICES ASSUME RouterTypeOK, HardwareFollowsTable, [RouterNext]_routerVars PROVE RouterInv'
  BY DEF RouterInv
<1>1. ASSUME NEW d \in Dests, RemoveRoute(d) PROVE RouterInv'
  BY <1>1 DEF RemoveRoute, RouterInv, RouterTypeOK, HardwareFollowsTable, InFlight
<1>2. ASSUME NEW d \in Dests, NEW info \in Routes, UpdateRoute(d, info) PROVE RouterInv'
  BY <1>2 DEF UpdateRoute, RouterInv, RouterTypeOK, HardwareFollowsTable, InFlight
<1>3. ASSUME NEW s \in Speculation, Speculate(s) PROVE RouterInv'
  <2>1. s.dest \in Dests /\ s.info \in Routes
    BY DEF Speculation
  <2>2. s # None
    BY NoneIsNone
  <2>3. RouterTypeOK'
    BY <1>3, <2>1 DEF Speculate, RouterTypeOK
  <2>4. HardwareFollowsTable'
    BY <1>3, <2>1, <2>2 DEF Speculate, RouterTypeOK, HardwareFollowsTable, InFlight
  <2> QED BY <2>3, <2>4 DEF RouterInv
<1>4. CASE Accept
  <2>1. pending # None /\ pending.dest \in Dests /\ pending.info \in Routes
    BY <1>4, PendingType DEF Accept
  <2>2. RouterTypeOK'
    BY <1>4, <2>1, AcceptLeaves DEF Accept, RouterTypeOK
  <2>3. HardwareFollowsTable'
    BY <1>4, <2>1 DEF Accept, RouterTypeOK, HardwareFollowsTable, InFlight
  <2> QED BY <2>2, <2>3 DEF RouterInv
<1>5. CASE Refuse
  <2>1. pending # None /\ pending.dest \in Dests /\ pending.info \in Routes
    BY <1>5, PendingType DEF Refuse
  <2>2. RouterTypeOK'
    BY <1>5, <2>1, RefusalTakes DEF Refuse, RouterTypeOK
  <2>3. HardwareFollowsTable'
    BY <1>5, <2>1 DEF Refuse, RouterTypeOK, HardwareFollowsTable, InFlight
  <2> QED BY <2>2, <2>3 DEF RouterInv
<1>6. CASE SyncPeers
  BY <1>6 DEF SyncPeers, Synced, RouterInv, RouterTypeOK, HardwareFollowsTable, InFlight
<1>7. ASSUME NEW k \in Peers, RegisterPeer(k) \/ Handshake(k) \/ ActiveChanges(k) PROVE RouterInv'
  BY <1>7 DEF RegisterPeer, Handshake, ActiveChanges, RouterInv, RouterTypeOK, HardwareFollowsTable, InFlight
<1>8. CASE UNCHANGED routerVars
  BY <1>8 DEF routerVars, RouterInv, RouterTypeOK, HardwareFollowsTable, InFlight
<1> QED BY <1>1, <1>2, <1>3, <1>4, <1>5, <1>6, <1>7, <1>8 DEF RouterNext

(* The router's invariant, always.                                         *)
LEMMA RouterInvariant == RouterSpec => []RouterInv
BY RouterInitInv, RouterNextInv, PTL DEF RouterSpec

(* Type correctness; every balance is a word, wrapped around or not.       *)
THEOREM RouterTypeCorrect == RouterSpec => []RouterTypeOK
<1>1. RouterInv => RouterTypeOK
  BY DEF RouterInv
<1> QED BY <1>1, RouterInvariant, PTL

(* Table and hardware part only by a refused speculation, and meet again   *)
(* with the next update of the destination.                                *)
THEOREM Offload == RouterSpec => []HardwareFollowsTable
<1>1. RouterInv => HardwareFollowsTable
  BY DEF RouterInv
<1> QED BY <1>1, RouterInvariant, PTL

(* pre_flight_execute and the fine: an accepted caller can still pay for   *)
(* execution and a refused one loses no more than the fine, except where   *)
(* the sum announced is beyond the word; no other balance changes.         *)
THEOREM Covered == RouterSpec => ExecutionCovered
<1>1. RouterInv /\ [RouterNext]_routerVars =>
        [pending # None /\ pending' # pending =>
           LET c == pending.caller
               r == pending.request
           IN  /\ \A d \in Callers \ {c} : balance'[d] = balance[d]
               /\ \/ Announced(r) >= Word
                  \/ IF table'[pending.dest] = pending.info /\ hardware'[pending.dest] = pending.info
                     THEN balance'[c] \in r.evm..balance[c]
                     ELSE balance[c] - balance'[c] \in 0..Fine]_routerVars
  <2> SUFFICES ASSUME RouterTypeOK, HardwareFollowsTable, RouterNext, pending # None, pending' # pending
               PROVE  /\ \A d \in Callers \ {pending.caller} : balance'[d] = balance[d]
                      /\ \/ Announced(pending.request) >= Word
                         \/ IF table'[pending.dest] = pending.info /\ hardware'[pending.dest] = pending.info
                            THEN balance'[pending.caller] \in pending.request.evm..balance[pending.caller]
                            ELSE balance[pending.caller] - balance'[pending.caller] \in 0..Fine
    BY DEF RouterInv
  <2>1. pending.dest \in Dests /\ pending.info \in Routes
    BY PendingType
  <2>2. CASE Accept
    <3>1. table'[pending.dest] = pending.info
      BY <2>1, <2>2 DEF Accept, RouterTypeOK
    <3>2. hardware'[pending.dest] = pending.info
      BY <2>1, <2>2 DEF Accept, HardwareFollowsTable, InFlight
    <3> QED BY <2>2, <3>1, <3>2, AcceptLeaves
  <2>3. CASE Refuse
    <3>1. hardware'[pending.dest] = NoRoute
      BY <2>1, <2>3 DEF Refuse, RouterTypeOK
    <3>2. NoRoute # pending.info
      BY <2>1, NoRouteAssumption
    <3> QED BY <2>3, <3>1, <3>2, RefusalTakes
  <2>4. Accept \/ Refuse
    BY DEF RouterNext, RemoveRoute, UpdateRoute, Speculate, SyncPeers, RegisterPeer, Handshake, ActiveChanges
  <2> QED BY <2>2, <2>3, <2>4
<1> QED BY <1>1, RouterInvariant, PTL DEF RouterSpec, ExecutionCovered
==============================================================================
