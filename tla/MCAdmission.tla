----------------------------- MODULE MCAdmission -----------------------------
(***************************************************************************)
(* Two transactions: one as in the validator's test, with a sender derived *)
(* from its ML-DSA key, and one of the holder of an XMSS key, the envelope *)
(* in its calldata made before the hash was known.  Blocks with up to      *)
(* two signatures of an account, a lattice key and an Edwards key, good    *)
(* and bad, before and after the height at which the profile switches; the *)
(* bad ones have a key too short or too long, no signature at all, or a    *)
(* scheme byte that is not the key's.                                      *)
(***************************************************************************)
EXTENDS Admission

CONSTANTS alice, bob, quantum, early, root, diff

Over == <<root, diff>>
AllMessages == {quantum, early, Nothing, Over, <<root, Empty>>}

(* What the holder of a pair packs, with a key of n bytes.                 *)
Own(s, h, n, m) == Pack(s, Key(Family(s), h, n), Sig(Family(s), h, m, 64))
Unsigned(s, key) == Pack(s, key, Sig("None", alice, Nothing, 0))

LatticeKey == Key("MlDsa", alice, 1952)
EdwardsKey == Key("Ed25519", bob, 32)
CurveKey == Key("Secp256k1", bob, 33)
XmssKey == Key("Xmss", bob, 64)

Transactions ==
  [t \in {quantum, early} |->
     IF t = quantum
     THEN [sender |-> Derived("MlDsa", LatticeKey), input |-> Own("MlDsa", alice, 1952, quantum)]
     ELSE [sender |-> Derived("Xmss", XmssKey), input |-> Own("Xmss", bob, 64, Nothing)]]

Signers == {Account(alice), Derived("MlDsa", LatticeKey), Derived("Ed25519", EdwardsKey),
            Derived("Secp256k1", CurveKey)}

Account1 == Raw(alice, Over)
Lattice == Own("MlDsa", alice, 1952, Over)
Edwards == Own("Ed25519", bob, 32, Over)
Curve == Own("Secp256k1Schnorr", bob, 33, Over)

(* Those to whom the profile, and so the height, makes a difference.       *)
WithAccount == {<<Account1>>, <<Edwards, Account1>>}
WithoutAccount ==
  {<<>>, <<Lattice, Edwards>>, <<Lattice, Own("MlDsa", alice, 1952, Nothing)>>, <<Junk(Nothing)>>,
   <<Own("Ed25519", bob, 40, Over)>>, <<Edwards, Unsigned("Ed25519", Key("None", bob, 5))>>,
   <<Curve, Unsigned("Secp256r1", CurveKey)>>, <<Unsigned("Secp256k1", CurveKey)>>}

SomeBlocks ==
  [root : {root}, diff : {diff}, height : {1, 2}, sigs : WithAccount]
    \cup [root : {root}, diff : {diff}, height : {1}, sigs : WithoutAccount]
    \cup [root : {root}, diff : {Empty}, height : {1}, sigs : {<<Raw(alice, <<root, Empty>>)>>}]

SomeWitnesses ==
  {Tx[t].input : t \in Txs} \cup {Raw(alice, t) : t \in Txs}
    \cup {Own("MlDsa", alice, 1952, t) : t \in Txs} \cup {Own("SlhDsa", alice, 32, t) : t \in Txs}
    \cup {Unsigned("Xmss", XmssKey), Own("Xmss", bob, 64, early), Junk(Nothing)}

Config1(trigger, scheme, profile, switch, following) ==
  [trigger |-> trigger, scheme |-> scheme, profile |-> profile, switch |-> switch, next |-> following]

Switching == Config1(FALSE, "slhdsa", "eth", 2, "quantum_standard")

(* Without a file, and with one, the trigger asked for besides and a       *)
(* scheme under a name no table has.                                       *)
SomeLaunches ==
  {[file |-> Unset, flag |-> FALSE, cli |-> Unset, env |-> "xmss", profile |-> Unset],
   [file |-> Switching, flag |-> TRUE, cli |-> "ml-dsa", env |-> "falcon", profile |-> "ethereum"]}

SomeReloads == {Switching, Config1(TRUE, "xmss", "throughput", Unset, Unset)}
==============================================================================
