------------------------------ MODULE Membership ------------------------------
(***************************************************************************)
(* ValidatorRegistry (crates/consensus/src/registry.rs) as the CAIP proxy  *)
(* (crates/node/src/caip_rpc.rs) uses it: identities are registered,       *)
(* looked up under any form of their DID, asked for before a transaction   *)
(* is forwarded, and the recipient of a transfer gets a placeholder.       *)
(* The handlers run concurrently, each of its lock sections is one step.   *)
(*                                                                         *)
(* A document is named by its hash; its address is that of its secp256k1   *)
(* key.  All are did:peer:4 documents: those of the other formats have no  *)
(* such key, and no signature verifies for them.  What follows the         *)
(* placeholder in index_from_raw_tx is in HotIndex.                        *)
(*                                                                         *)
(* A definition Mut<Name> is <Name> with a mistake one could make in that  *)
(* code; it is used nowhere and tells which property would notice.         *)
(***************************************************************************)

CONSTANTS
  Addrs,       \* account addresses
  Keys,        \* public keys of any curve, as multibase strings
  Docs,        \* hashes of DID documents
  Doc,         \* Doc[h], the document: [addr, keys, complete]
  Chains,      \* chain ids
  BootChain,   \* the id of the chain specification
  RethChain,   \* the id Reth answers with
  Sends,       \* calls of eth_sendRawTransaction
  Send,        \* Send[s]: [from, to, header]
  NoChain, NoDid, NoDoc

Did(form, of, chain) == [form |-> form, of |-> of, chain |-> chain]

Full(h)     == Did("full", h, NoChain)      \* did:peer:4{hash}:{document}
Short(h)    == Did("short", h, NoChain)     \* did:peer:4{hash}
Hashed(c, h) == Did("hash", h, c)           \* did:sovereign:{chain}:{hash}
AddrDid(c, a) == Did("addr", a, c)          \* did:sovereign:{chain}:0x{address}
Bare(c, a)  == Did("bare", a, c)            \* did:sovereign:{chain}:{address}
PeerAddr(a) == Did("peeraddr", a, NoChain)  \* did:peer:0x{address}, and 0x{address}
KeyDid(k)   == Did("key", k, NoChain)       \* did:peer:{key}, and {key}

(* did:peer:{hash} and did:peer:{address} are no forms of a DID: they are  *)
(* what normalising makes of Hashed and Bare.                              *)
Dids ==
  [form : {"full", "short", "peerhash"}, of : Docs, chain : {NoChain}]
  \cup [form : {"hash"}, of : Docs, chain : Chains]
  \cup [form : {"addr", "bare"}, of : Addrs, chain : Chains]
  \cup [form : {"peeraddr", "peerbare"}, of : Addrs, chain : {NoChain}]
  \cup [form : {"key"}, of : Keys, chain : {NoChain}]

ASSUME DocAssumption ==
  Doc \in [Docs -> [addr : Addrs, keys : SUBSET Keys, complete : BOOLEAN]]
ASSUME SendAssumption ==
  Send \in [Sends -> [from : Addrs, to : Addrs, header : Dids \cup {NoDid}]]
ASSUME ChainAssumption == {BootChain, RethChain} \subseteq Chains /\ NoChain \notin Chains
ASSUME SentinelAssumption == NoDid \notin Dids /\ NoDoc \notin Docs

VARIABLES
  peerKeys,      \* peer_keys: "none", "zero" for a placeholder, "set"
  addressToDid,  \* address_to_did
  identities,    \* the document of each entry
  chainId,       \* chain_id of the registry
  proxyChain,    \* CHAIN_ID of the proxy
  send           \* each eth_sendRawTransaction

vars == <<peerKeys, addressToDid, identities, chainId, proxyChain, send>>
registry == <<peerKeys, addressToDid, identities>>

-----------------------------------------------------------------------------
(* Look-ups                                                                *)

(* normalize_query_did                                                     *)
Normal(q) ==
  CASE q.form = "hash" -> Did("peerhash", q.of, NoChain)
    [] q.form = "bare" -> Did("peerbare", q.of, NoChain)
    [] OTHER -> q

(* The document address_to_did and identities give for an address.         *)
PrimaryOr(a, h) ==
  IF addressToDid[a] # NoDid /\ identities[addressToDid[a]] # NoDoc
  THEN identities[addressToDid[a]] ELSE h

(* find_identity_by_any_key looks at the identities in no particular order *)
(* and answers with the primary one of the first that has the key.         *)
FoundByKey(q) ==
  IF q.form # "key" THEN {}
  ELSE {PrimaryOr(Doc[h].addr, h) :
          h \in {g \in Docs : q.of \in Doc[g].keys /\ \E d \in Dids : identities[d] = g}}

(* extract_address_from_did, for an address address_to_did knows           *)
Mapped(q) == q.form \in {"addr", "peeraddr"} /\ addressToDid[q.of] # NoDid

IsDidRegistered(query) ==
  LET q == Normal(query)
  IN  \/ peerKeys[q] # "none"
      \/ FoundByKey(q) # {}
      \/ Mapped(q) /\ peerKeys[addressToDid[q.of]] # "none"

IsDidFullyRegistered(query) ==
  LET q == Normal(query)
  IN  IF peerKeys[q] # "none" THEN peerKeys[q] = "set"
      ELSE FoundByKey(q) # {} \/ (Mapped(q) /\ peerKeys[addressToDid[q.of]] = "set")

(* get_address_by_did: the answers it can give.                            *)
AddressesByDid(query) ==
  LET q == Normal(query)
  IN  IF identities[q] # NoDoc THEN {Doc[identities[q]].addr}
      ELSE IF FoundByKey(q) # {} THEN {Doc[h].addr : h \in FoundByKey(q)}
      ELSE IF Mapped(q) THEN {q.of}
      ELSE {a \in Addrs : addressToDid[a] = q}

(* The DID sovereign_getDid answers with.                                  *)
Resolved(query) ==
  LET q == Normal(query)
  IN  IF FoundByKey(q) # {} THEN {Full(h) : h \in FoundByKey(q)}
      ELSE IF Mapped(q) THEN {addressToDid[q.of]}
      ELSE {q}

-----------------------------------------------------------------------------

Init ==
  /\ peerKeys = [d \in Dids |-> "none"]
  /\ addressToDid = [a \in Addrs |-> NoDid]
  /\ identities = [d \in Dids |-> NoDoc]
  /\ chainId = BootChain
  /\ proxyChain = BootChain
  /\ send = [s \in Sends |-> "idle"]

(* The background task of run_proxy got Reth's chain id.                   *)
StoreChain ==
  /\ proxyChain' = RethChain
  /\ UNCHANGED <<registry, chainId, send>>

UpdateChain ==
  /\ proxyChain = RethChain
  /\ chainId' = RethChain
  /\ UNCHANGED <<registry, proxyChain, send>>

(* The duplicate registration check                                        *)
MutTaken(a) == FALSE
Taken(a) == addressToDid[a] # NoDid /\ IsDidFullyRegistered(addressToDid[a])

(* The entries a registration makes.                                       *)
MutEntries(h) == {Full(h), Hashed(chainId, h), AddrDid(chainId, Doc[h].addr)}
Entries(h) == {Full(h), Short(h), Hashed(chainId, h), AddrDid(chainId, Doc[h].addr)}

(* register_user_did, under the write lock                                 *)
Register(h) ==
  /\ Doc[h].complete
  /\ ~Taken(Doc[h].addr)
  /\ peerKeys' = [d \in Dids |-> IF d \in Entries(h) THEN "set" ELSE peerKeys[d]]
  /\ identities' = [d \in Dids |-> IF d \in Entries(h) THEN h ELSE identities[d]]
  /\ addressToDid' = [addressToDid EXCEPT ![Doc[h].addr] = Full(h)]
  /\ UNCHANGED <<chainId, proxyChain, send>>

(* sovereign_registerDid: the request is signed with the document's own    *)
(* secp256k1 key and is fresh.                                             *)
RegisterDid(h, signer) == signer = Doc[h].addr /\ Register(h)

(* The DID of the header counts if there is one, else that of the sender.  *)
Authorized(s) ==
  IF Send[s].header # NoDid THEN IsDidFullyRegistered(Send[s].header)
  ELSE /\ addressToDid[Send[s].from] # NoDid
       /\ IsDidFullyRegistered(addressToDid[Send[s].from])

Authorize(s) ==
  /\ send[s] = "idle"
  /\ send' = [send EXCEPT ![s] = IF Authorized(s) THEN "forwarded" ELSE "refused"]
  /\ UNCHANGED <<registry, chainId, proxyChain>>

(* Reth did not take the transaction, or it is none the index keeps.       *)
NotIndexed(s) ==
  /\ send[s] = "forwarded"
  /\ send' = [send EXCEPT ![s] = "done"]
  /\ UNCHANGED <<registry, chainId, proxyChain>>

MutUnknown(a) == TRUE
Unknown(a) == addressToDid[a] = NoDid

MutPlaceholderKey == "set"
PlaceholderKey == "zero"

(* index_from_raw_tx: a placeholder for a recipient nobody knows           *)
MutPlaceholder(s) ==
  LET a == Send[s].to
      p == Bare(proxyChain, Send[s].from)
  IN  /\ send[s] = "forwarded"
      /\ send' = [send EXCEPT ![s] = "done"]
      /\ IF Unknown(a)
         THEN /\ peerKeys' = [peerKeys EXCEPT ![p] = PlaceholderKey]
              /\ addressToDid' = [addressToDid EXCEPT ![a] = p]
         ELSE UNCHANGED <<peerKeys, addressToDid>>
      /\ UNCHANGED <<identities, chainId, proxyChain>>
Placeholder(s) ==
  LET a == Send[s].to
      p == Bare(proxyChain, a)
  IN  /\ send[s] = "forwarded"
      /\ send' = [send EXCEPT ![s] = "done"]
      /\ IF Unknown(a)
         THEN /\ peerKeys' = [peerKeys EXCEPT ![p] = PlaceholderKey]
              /\ addressToDid' = [addressToDid EXCEPT ![a] = p]
         ELSE UNCHANGED <<peerKeys, addressToDid>>
      /\ UNCHANGED <<identities, chainId, proxyChain>>

Next ==
  \/ StoreChain
  \/ UpdateChain
  \/ \E h \in Docs, signer \in Addrs : RegisterDid(h, signer)
  \/ \E s \in Sends : Authorize(s) \/ NotIndexed(s) \/ Placeholder(s)

Spec == Init /\ [][Next]_vars

-----------------------------------------------------------------------------
(* Properties                                                              *)

(* What address_to_did may hold for an address: a document of this address *)
(* or a placeholder for it.                                                *)
DidsOf(a) == {Full(h) : h \in {g \in Docs : Doc[g].addr = a}} \cup {Bare(c, a) : c \in Chains}

(* The shape of the state.                                                 *)
TypeOK ==
  /\ peerKeys \in [Dids -> {"none", "zero", "set"}]
  /\ addressToDid \in [Addrs -> Dids \cup {NoDid}]
  /\ \A a \in Addrs : addressToDid[a] \in DidsOf(a) \cup {NoDid}
  /\ identities \in [Dids -> Docs \cup {NoDoc}]
  /\ chainId \in Chains /\ proxyChain \in Chains
  /\ send \in [Sends -> {"idle", "forwarded", "refused", "done"}]

IsPrimary(h) == addressToDid[Doc[h].addr] = Full(h)

(* However it came about, with a placeholder before it or not, under one   *)
(* chain id or another: a registered identity is found under each form of  *)
(* its DID but the one of the hash, as fully registered, with its address, *)
(* and under each of its keys, unless the key is in the document of        *)
(* another registered identity too and that one is found.  What            *)
(* sovereign_getDid answers with leads back to it.                         *)
FormsResolve ==
  \A h \in Docs : IsPrimary(h) =>
    LET a == Doc[h].addr
    IN  /\ \A q \in {Full(h), Short(h), PeerAddr(a)} \cup {AddrDid(c, a) : c \in Chains} :
             /\ IsDidFullyRegistered(q)
             /\ AddressesByDid(q) = {a}
             /\ \A r \in Resolved(q) : AddressesByDid(r) = {a}
        /\ \A k \in Doc[h].keys :
             /\ IsDidFullyRegistered(KeyDid(k))
             /\ Resolved(KeyDid(k)) = {Full(g) : g \in {d \in Docs : IsPrimary(d) /\ k \in Doc[d].keys}}

(* An address nobody registered, known by a placeholder or not at all,     *)
(* passes for registered under no form of a DID: not with the address, nor *)
(* with a document of it.  The placeholder is not in the way of its owner. *)
PlaceholderInert ==
  \A a \in Addrs : (\A h \in Docs : ~IsPrimary(h) \/ Doc[h].addr # a) =>
    /\ ~Taken(a)
    /\ \A c \in Chains : ~IsDidFullyRegistered(AddrDid(c, a)) /\ ~IsDidFullyRegistered(Bare(c, a))
    /\ ~IsDidFullyRegistered(PeerAddr(a))
    /\ \A h \in Docs : Doc[h].addr = a =>
         ~IsDidFullyRegistered(Full(h)) /\ ~IsDidFullyRegistered(Short(h))

(* What a forwarded transaction was let through for still holds when Reth  *)
(* has answered and its recipient is given a placeholder, whatever the     *)
(* other handlers did in between.                                          *)
AuthorizationLasts == \A s \in Sends : send[s] \in {"forwarded", "done"} => Authorized(s)

(* An identity, once registered, stays the one of its address, and a       *)
(* placeholder gives way to an identity of the same address only.          *)
RegistrationFinal ==
  [][\A a \in Addrs :
       addressToDid[a] # NoDid /\ addressToDid'[a] # addressToDid[a] =>
         addressToDid[a].form = "bare" /\ addressToDid'[a].form = "full"]_vars

(* The test of the registry (line 472) expects an identity registered      *)
(* under a chain id to be found as did:sovereign:{chain id}:{hash}.        *)
HashFormRegistered ==
  \A h \in Docs, c \in Chains : identities[Hashed(c, h)] = h => IsDidRegistered(Hashed(c, h))
==============================================================================
