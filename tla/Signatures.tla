------------------------------ MODULE Signatures ------------------------------
(***************************************************************************)
(* Signature schemes, crypto profiles and signature envelopes              *)
(* (crates/crypto/src/lib.rs).                                             *)
(*                                                                         *)
(* Hashing is collision-free: an address is a hash function with the key   *)
(* it was applied to, a message is what was hashed.  Where a scheme is     *)
(* verified in earnest nobody signs for another.  A key is bytes, of which *)
(* the model tells how many there are and which pair's public key they are *)
(* (the first 32 of them, where more go with an Edwards key); a signature  *)
(* tells which pair made it, over what, and its length.  Bytes that are no *)
(* key and no signature are of the family "None".  An envelope is whatever *)
(* bytes somebody sends: scheme byte, key and signature go together in     *)
(* any way.                                                                *)
(***************************************************************************)
EXTENDS Naturals, Sequences

Schemes == {"Secp256k1", "Secp256k1Schnorr", "Secp256r1", "Ed25519", "Pasta", "Bls",
            "BabyJubjub", "MlDsa", "SlhDsa", "Falcon", "Xmss"}

PostQuantum == {"MlDsa", "SlhDsa", "Falcon", "Xmss"}

(* default_address_hash                                                    *)
AddressHash ==
  [s \in Schemes |->
     CASE s \in {"Secp256k1", "Secp256k1Schnorr", "Secp256r1", "Falcon"} -> "Keccak256"
       [] s \in {"Ed25519", "Bls"} -> "Blake3"
       [] s \in {"Pasta", "BabyJubjub", "MlDsa"} -> "Poseidon"
       [] s \in {"SlhDsa", "Xmss"} -> "Sha256"]

(* The scheme a table has under a name, or the one the callers put in its  *)
(* place when the table has none.                                          *)
Lookup(table, name, other) ==
  IF \E s \in DOMAIN table : name \in table[s]
  THEN CHOOSE s \in DOMAIN table : name \in table[s] ELSE other

SchemeNames ==
  [Secp256k1 |-> {"secp256k1"}, Secp256k1Schnorr |-> {"secp256k1schnorr", "schnorr"},
   Secp256r1 |-> {"secp256r1", "p256"}, Ed25519 |-> {"ed25519"},
   Pasta |-> {"pasta", "pallas", "vesta"}, Bls |-> {"bls", "bls12381"},
   BabyJubjub |-> {"babyjubjub", "jubjub"}, MlDsa |-> {"mldsa", "dilithium"},
   SlhDsa |-> {"slhdsa", "sphincs+", "sphincs"}, Falcon |-> {"falcon"}, Xmss |-> {"xmss"}]

ParseScheme(name) == Lookup(SchemeNames, name, "MlDsa")

ProfileNames ==
  [Secp256k1 |-> {"ethereum", "eth"}, Ed25519 |-> {"throughput", "high_perf"},
   MlDsa |-> {"quantum_standard", "quantum_default", "mldsa"},
   Falcon |-> {"iot_compact", "falcon"}, SlhDsa |-> {"quantum_hardened", "slhdsa"},
   Pasta |-> {"mina_recursive", "mina"}]

ProfileSignature(name) == Lookup(ProfileNames, name, "Secp256k1")

-----------------------------------------------------------------------------
(* Keys, signatures and addresses.  The two secp256k1 schemes share their  *)
(* keys.  An account's key goes into its address as 64 bytes, without the  *)
(* prefix byte an envelope's has, so the two never give the same address.  *)

Family(s) == IF s = "Secp256k1Schnorr" THEN "Secp256k1" ELSE s
Families == {Family(s) : s \in Schemes} \cup {"None"}

Key(f, h, n) == [of |-> <<f, h>>, length |-> n]
Sig(f, h, m, n) == [by |-> <<f, h>>, over |-> m, length |-> n]

Derived(s, key) == [hash |-> AddressHash[s], key |-> key]
AccountKey(h) == Key("Secp256k1", h, 64)
Account(h) == [hash |-> "Keccak256", key |-> AccountKey(h)]
Stranger == [hash |-> "Keccak256", key |-> Key("None", "nobody", 64)]

-----------------------------------------------------------------------------
(* What stands where a signature is expected: the 65 bytes of a            *)
(* recoverable secp256k1 signature, an envelope, or neither.               *)

Byte == [Secp256k1 |-> 0, Ed25519 |-> 1, Secp256r1 |-> 2, Pasta |-> 3, Bls |-> 4, MlDsa |-> 5,
         SlhDsa |-> 6, Falcon |-> 7, Secp256k1Schnorr |-> 8, BabyJubjub |-> 9, Xmss |-> 10]

Raw(h, m) == [form |-> "raw", byte |-> 0, key |-> AccountKey(h), sig |-> Sig("Secp256k1", h, m, 65)]
Pack(s, key, sig) == [form |-> "envelope", byte |-> Byte[s], key |-> key, sig |-> sig]
Junk(m) == [form |-> "junk", byte |-> 0, key |-> Key("None", "nobody", 0), sig |-> Sig("None", "nobody", m, 0)]

Unpacks(w) == w.form = "envelope" /\ w.byte \in 0..10
SchemeOf(w) == <<"Secp256k1", "Ed25519", "Secp256r1", "Pasta", "Bls", "MlDsa", "SlhDsa", "Falcon",
                 "Secp256k1Schnorr", "BabyJubjub", "Xmss">>[w.byte + 1]

-----------------------------------------------------------------------------
(* verify_signature                                                        *)

(* The schemes whose signatures are checked for their lengths only.        *)
Structural == {"Secp256r1", "Pasta", "BabyJubjub", "Bls", "Xmss"}

KeyFits(s, n) ==
  CASE s \in {"Secp256k1", "Secp256k1Schnorr", "Secp256r1"} -> n \in {33, 65}
    [] s \in {"Pasta", "BabyJubjub", "SlhDsa"} -> n = 32
    [] s = "Ed25519" -> n >= 32
    [] s = "Bls" -> n = 48
    [] s = "Xmss" -> n = 64
    [] s = "Falcon" -> n = 897
    [] s = "MlDsa" -> n = 1952

LengthFits(s, n) ==
  CASE s = "Secp256r1" -> TRUE
    [] s \in {"Pasta", "BabyJubjub"} -> n = 64
    [] s = "Bls" -> n = 96
    [] s = "Xmss" -> n > 0

Verifies(s, w, m, threat) ==
  /\ threat => s \in PostQuantum
  /\ KeyFits(s, w.key.length)
  /\ IF s \in Structural THEN LengthFits(s, w.sig.length)
     ELSE w.key.of[1] = Family(s) /\ w.sig.by = w.key.of /\ w.sig.over = m

(* The first 32 bytes are taken from a key that may be shorter.            *)
Panics(s, w, threat) == ~threat /\ s = "Ed25519" /\ w.key.length < 32

(* recover_address_from_prehash: over another message, another address.    *)
Recovered(w, m) == IF w.sig.over = m THEN [hash |-> "Keccak256", key |-> w.key] ELSE Stranger

-----------------------------------------------------------------------------
(* The signer's side, for the properties.                                  *)

(* The key in w is h's, of scheme s, and h signed m with it.               *)
Signed(w, s, h, m) ==
  /\ w.key = Key(Family(s), h, w.key.length)
  /\ w.sig = Sig(Family(s), h, m, w.sig.length)

(* The key may be anybody's, and its owner need not have signed.           *)
OnlyShaped(w, s) == s \in Structural /\ LengthFits(s, w.sig.length)
==============================================================================
