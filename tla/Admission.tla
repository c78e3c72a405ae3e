------------------------------- MODULE Admission -------------------------------
(***************************************************************************)
(* What enters the node under the configured signature policy: the         *)
(* transaction pool (crates/consensus/src/pool.rs), whose validator looks  *)
(* at the policy before it awaits the ordinary validation and whose order  *)
(* is first come, first served, the check of a transaction's witness, and  *)
(* the validation of implicit state blocks (stateless.rs), which asks the  *)
(* registry (registry.rs) for each signer under a lock of its own.  The    *)
(* configuration is put together when the node starts (crates/node/src/    *)
(* main.rs) and may be exchanged while it runs.                            *)
(*                                                                         *)
(* The pool behind validator and ordering is Reth's: when the ordinary     *)
(* validation answers and what becomes of a pooled transaction is open.    *)
(* The validator is generic in the type of transactions; the sender of a   *)
(* transaction is an address of either kind, and the hash of transaction t *)
(* is t.  Validators are added from outside and never removed, as in       *)
(* registry.rs.                                                            *)
(*                                                                         *)
(* A definition Mut<Name> is <Name> with a mistake one could make in that  *)
(* code; it is used nowhere and tells which property would notice.         *)
(***************************************************************************)
EXTENDS Signatures, FiniteSets

CONSTANTS
  Txs,          \* transactions, and their hashes
  Tx,           \* Tx[t]: [sender, input], an address and the calldata
  Holders,      \* of key pairs
  Nothing,      \* what no check expects a signature over
  Names,        \* what a configuration may call schemes and profiles
  Messages,     \* transactions, hashed blocks, Nothing
  Blocks,       \* [root, diff, height, sigs]
  Empty,        \* the state diff of length zero
  Witnesses,    \* what may come with a transaction as its witness
  Candidates,   \* addresses that become validators
  Launches,     \* how the node may be started
  Reloads,      \* configurations that take the place of a running node's
  Unset,        \* an option, a variable or a value that is not given
  MaxPriority   \* u64::MAX

(* Calldata, witnesses and block signatures are bytes somebody sent.       *)
Pairs == Families \X Holders
Lengths == 0..65535
Keys == [of : Pairs, length : Lengths]
Sigs == [by : Pairs, over : Messages, length : Lengths]
Envelopes == [form : {"envelope"}, byte : 0..255, key : Keys, sig : Sigs]
Recoverable == {Raw(h, m) : h \in Holders, m \in Messages}
Neither == {Junk(m) : m \in Messages}
AnyBytes == Envelopes \cup Recoverable \cup Neither

Config == [trigger : BOOLEAN, scheme : Names, profile : Names,
           switch : Nat \cup {Unset}, next : Names \cup {Unset}]

ASSUME NamesAssumption == {"mldsa", "ethereum"} \subseteq Names
ASSUME TxAssumption == Txs \subseteq Messages /\ \A t \in Txs : Tx[t].input \in AnyBytes
ASSUME BlocksAssumption ==
  \A b \in Blocks : b.sigs \in Seq(AnyBytes) /\ <<b.root, b.diff>> \in Messages
ASSUME WitnessesAssumption == Witnesses \subseteq AnyBytes
ASSUME NumbersAssumption == MaxPriority \in Nat /\ Unset \notin Nat
(* Nobody holds the key of the address a misplaced signature recovers to.  *)
ASSUME StrangerAssumption == Stranger \notin Candidates /\ \A t \in Txs : Tx[t].sender # Stranger

VARIABLES
  cfg,          \* dynamic_cfg
  validators,   \* addresses get_type_by_address knows
  pool,         \* where each transaction is, and what its check read
  sequences,    \* FCFSOrdering's number of each transaction it was asked about
  next,         \* next_sequence
  arrivals,     \* history: transactions in the order they were first admitted
  call          \* the validation of a block under way, or the last one

ordering == <<sequences, next, arrivals>>
vars == <<cfg, validators, pool, ordering, call>>

-----------------------------------------------------------------------------
(* Start and configuration                                                 *)

Defaults == [trigger |-> FALSE, scheme |-> "mldsa", profile |-> "ethereum",
             switch |-> Unset, next |-> Unset]

(* What the node is started with: a configuration file, the trigger asked  *)
(* for by flag or variable, a scheme by argument and variable, a profile.  *)
Launch == [file : Config \cup {Unset}, flag : BOOLEAN, cli : Names \cup {Unset},
           env : Names \cup {Unset}, profile : Names \cup {Unset}]

ASSUME LaunchesAssumption == Launches \subseteq Launch /\ Reloads \subseteq Config

FirstSet(a, b) == IF a # Unset THEN a ELSE b

(* A file that is not given, not readable or not complete counts as Unset, *)
(* and the node starts with the defaults.                                  *)
Loaded(l) == FirstSet(l.file, Defaults)

Started(l) ==
  [Loaded(l) EXCEPT !.trigger = @ \/ l.flag,
                    !.scheme = FirstSet(FirstSet(l.cli, l.env), @),
                    !.profile = FirstSet(l.profile, @)]

Reading == [trigger |-> cfg.trigger, scheme |-> cfg.scheme]
Out == [at |-> "out", read |-> [trigger |-> FALSE, scheme |-> "mldsa"]]
NoCall == [state |-> "none"]

Init ==
  /\ \E l \in Launches : cfg = Started(l)
  /\ validators = {}
  /\ pool = [t \in Txs |-> Out]
  /\ sequences = [t \in Txs |-> Unset]
  /\ next = 0
  /\ arrivals = <<>>
  /\ call = NoCall

(* The node ends and is started again with a new registry, pool and order; *)
(* the pool reads back the local transactions, which then are submitted    *)
(* like any other.                                                         *)
Restart ==
  /\ \E l \in Launches : cfg' = Started(l)
  /\ validators' = {}
  /\ pool' = [t \in Txs |-> Out]
  /\ sequences' = [t \in Txs |-> Unset]
  /\ next' = 0
  /\ arrivals' = <<>>
  /\ call' = NoCall

(* "Dynamic, hot-reloadable configurations."                               *)
Reload ==
  /\ cfg' \in Reloads
  /\ UNCHANGED <<validators, pool, ordering, call>>

AddValidator(a) ==
  /\ validators' = validators \cup {a}
  /\ UNCHANGED <<cfg, pool, ordering, call>>

-----------------------------------------------------------------------------
(* The pool                                                                *)

(* SovereignQuantumTransactionValidator, before it hands over to the       *)
(* ordinary validation.                                                    *)
MutMayEnter(t, read) ==
  LET w == Tx[t].input
  IN  read.trigger =>
        /\ Unpacks(w)
        /\ Verifies(SchemeOf(w), w, t, TRUE)
        /\ Derived(SchemeOf(w), w.key) = Tx[t].sender
MayEnter(t, read) ==
  LET w == Tx[t].input
  IN  read.trigger =>
        /\ Unpacks(w)
        /\ SchemeOf(w) = ParseScheme(read.scheme)
        /\ Verifies(SchemeOf(w), w, t, TRUE)
        /\ Derived(SchemeOf(w), w.key) = Tx[t].sender

(* A transaction that may not enter is answered Invalid and changes        *)
(* nothing.                                                                *)
Submit(t) ==
  /\ pool[t].at = "out"
  /\ MayEnter(t, Reading)
  /\ pool' = [pool EXCEPT ![t] = [at |-> "checking", read |-> Reading]]
  /\ UNCHANGED <<cfg, validators, ordering, call>>

(* FCFSOrdering.priority, asked when the transaction becomes executable.   *)
MutNumber(t) ==
  /\ sequences' = [sequences EXCEPT ![t] = next]
  /\ next' = next + 1
Number(t) ==
  IF sequences[t] # Unset THEN UNCHANGED <<sequences, next>>
  ELSE /\ sequences' = [sequences EXCEPT ![t] = next]
       /\ next' = next + 1

Priority(t) == MaxPriority - sequences[t]

(* The ordinary validation lets t in.                                      *)
Admit(t) ==
  /\ pool[t].at = "checking"
  /\ pool' = [pool EXCEPT ![t] = [at |-> "pooled", read |-> @.read]]
  /\ Number(t)
  /\ arrivals' = IF \E k \in DOMAIN arrivals : arrivals[k] = t THEN arrivals ELSE Append(arrivals, t)
  /\ UNCHANGED <<cfg, validators, call>>

(* The ordinary validation refuses it, or it is mined, replaced or evicted.*)
Leave(t) ==
  /\ pool[t].at # "out"
  /\ pool' = [pool EXCEPT ![t] = Out]
  /\ UNCHANGED <<cfg, validators, ordering, call>>

(* validate_witness                                                        *)
WitnessValid(t, w) ==
  IF Unpacks(w)
  THEN /\ cfg.trigger => SchemeOf(w) \in PostQuantum
       /\ Verifies(SchemeOf(w), w, t, cfg.trigger)
       /\ Derived(SchemeOf(w), w.key) = Tx[t].sender
  ELSE /\ ~cfg.trigger
       /\ ProfileSignature(cfg.profile) = "Secp256k1"
       /\ w.form = "raw"
       /\ Recovered(w, t) = Tx[t].sender

-----------------------------------------------------------------------------
(* validate_implicit_state_block                                           *)

(* The profile in force at a height: the next one from the switch on.      *)
ActiveProfile(height) ==
  IF cfg.switch # Unset /\ cfg.next # Unset
  THEN IF height >= cfg.switch THEN cfg.next ELSE cfg.profile
  ELSE cfg.profile

Hashed(b) == <<b.root, b.diff>>

(* Configuration and profile are read once, under one lock.                *)
Begin(b) ==
  /\ call.state # "running"
  /\ call' = [block |-> b, threat |-> cfg.trigger,
              scheme |-> ProfileSignature(ActiveProfile(b.height)),
              known |-> validators, done |-> 0,
              state |-> IF b.sigs = <<>> \/ b.diff = Empty THEN "refused" ELSE "running"]
  /\ UNCHANGED <<cfg, validators, pool, ordering>>

(* One signature, over m, with the validators as they are at its turn.     *)
Panicking(w) == Unpacks(w) /\ Panics(SchemeOf(w), w, call.threat)
MutEndorses(w, m) ==
  IF Unpacks(w)
  THEN /\ cfg.trigger => SchemeOf(w) \in PostQuantum
       /\ Verifies(SchemeOf(w), w, m, cfg.trigger)
       /\ Derived(SchemeOf(w), w.key) \in validators
  ELSE /\ ~cfg.trigger
       /\ call.scheme = "Secp256k1"
       /\ w.form = "raw"
       /\ Recovered(w, m) \in validators
Endorses(w, m) ==
  IF Unpacks(w)
  THEN /\ call.threat => SchemeOf(w) \in PostQuantum
       /\ Verifies(SchemeOf(w), w, m, call.threat)
       /\ Derived(SchemeOf(w), w.key) \in validators
  ELSE /\ ~call.threat
       /\ call.scheme = "Secp256k1"
       /\ w.form = "raw"
       /\ Recovered(w, m) \in validators

(* A panic leaves the call without a verdict; in a release build it ends   *)
(* the node, which then is the Restart that may come at any time.          *)
Outcome(w, m, last) ==
  IF Panicking(w) THEN "panicked"
  ELSE IF ~Endorses(w, m) THEN "refused"
  ELSE IF last THEN "accepted" ELSE "running"

MutCheckSignature ==
  /\ call.state = "running"
  /\ LET i == call.done + 1
         sigs == call.block.sigs
     IN  call' = [call EXCEPT !.done = i,
                              !.state = Outcome(sigs[i], Hashed(call.block), i > Len(sigs))]
  /\ UNCHANGED <<cfg, validators, pool, ordering>>
CheckSignature ==
  /\ call.state = "running"
  /\ LET i == call.done + 1
         sigs == call.block.sigs
     IN  call' = [call EXCEPT !.done = i,
                              !.state = Outcome(sigs[i], Hashed(call.block), i = Len(sigs))]
  /\ UNCHANGED <<cfg, validators, pool, ordering>>

-----------------------------------------------------------------------------
Next ==
  \/ Restart \/ Reload \/ CheckSignature
  \/ \E a \in Candidates : AddValidator(a)
  \/ \E t \in Txs : Submit(t) \/ Admit(t) \/ Leave(t)
  \/ \E b \in Blocks : Begin(b)

Spec == Init /\ [][Next]_vars

-----------------------------------------------------------------------------
(* Properties                                                              *)

Readings == [trigger : BOOLEAN, scheme : Names]
Called ==
  [block : Blocks, threat : BOOLEAN, scheme : Schemes, known : SUBSET Candidates, done : Nat,
   state : {"running", "accepted", "refused", "panicked"}]

(* The shape of the state; a running call has a signature left to check,   *)
(* and numbers are handed out without gaps.                                *)
TypeOK ==
  /\ cfg \in Config
  /\ validators \subseteq Candidates
  /\ pool \in [Txs -> [at : {"out", "checking", "pooled"}, read : Readings]]
  /\ sequences \in [Txs -> 0..next - 1 \cup {Unset}]
  /\ next = Len(arrivals) /\ arrivals \in Seq(Txs)
  /\ call = NoCall \/ call \in Called
  /\ call.state # "none" => call.known \subseteq validators
  /\ call.state = "running" => call.done \in 0..Len(call.block.sigs) - 1

Before(t, u) == \E i, j \in DOMAIN arrivals : i < j /\ arrivals[i] = t /\ arrivals[j] = u

(* First come, first served: of two pooled transactions the one admitted   *)
(* first since the node started has the higher priority, also when it left *)
(* the pool and came back after the other.                                 *)
FirstComeFirst ==
  \A t, u \in Txs :
    pool[t].at = "pooled" /\ pool[u].at = "pooled" =>
      (Priority(t) > Priority(u) <=> Before(t, u))

(* w stands for address a and message m.  An envelope holds a key of the   *)
(* length its scheme has, from which a is derived, and the key's holder    *)
(* signed m; but in a scheme of which only lengths are looked at the key   *)
(* may be of any kind, and there is something in the place of a signature. *)
(* Under the threat it is an envelope, and its scheme a post-quantum one.  *)
StandsFor(w, a, m, threat) ==
  \/ \E s \in Schemes :
       /\ w.form = "envelope" /\ w.byte = Byte[s] /\ KeyFits(s, w.key.length)
       /\ a = Derived(s, w.key)
       /\ OnlyShaped(w, s) \/ (s \notin Structural /\ \E h \in Holders : Signed(w, s, h, m))
       /\ threat => s \in PostQuantum
  \/ ~threat /\ \E h \in Holders : w = Raw(h, m) /\ a = Account(h)

(* Under the trigger a transaction is pooled only with an envelope of the  *)
(* scheme configured when its check began, which stands for its sender and *)
(* for it: signed by the sender, unless that scheme is XMSS, the only      *)
(* post-quantum one of which nothing but lengths are looked at.  A witness *)
(* is found valid only if it stands for sender and transaction under the   *)
(* configuration of the moment.                                            *)
SenderVouched ==
  /\ \A t \in Txs :
       pool[t].at # "out" /\ pool[t].read.trigger =>
         /\ StandsFor(Tx[t].input, Tx[t].sender, t, TRUE)
         /\ Tx[t].input.byte = Byte[ParseScheme(pool[t].read.scheme)]
  /\ \A t \in Txs, w \in Witnesses : WitnessValid(t, w) => StandsFor(w, Tx[t].sender, t, cfg.trigger)

(* A block deserves to pass: every signature stands for an active          *)
(* validator and for this root and diff, in a form the policy allows.      *)
Deserving(c, active) ==
  /\ c.block.sigs # <<>> /\ c.block.diff # Empty
  /\ \A i \in DOMAIN c.block.sigs :
       /\ \E a \in active : StandsFor(c.block.sigs[i], a, Hashed(c.block), c.threat)
       /\ c.block.sigs[i].form = "raw" => c.scheme = "Secp256k1"

(* The verdict on a block is one a single moment of the call would give:   *)
(* an accepted block deserves it by the validators there are now, a        *)
(* refused one did not by those there were when the call began, under the  *)
(* policy in force then, whatever was reloaded and registered in between.  *)
VerdictIsDeserved ==
  /\ call.state = "accepted" => Deserving(call, validators)
  /\ call.state = "refused" => ~Deserving(call, call.known)
==============================================================================
