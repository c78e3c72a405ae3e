-------------------------------- MODULE Routing --------------------------------
(***************************************************************************)
(* BgpRouter (crates/consensus/src/bgp.rs) with its hardware data plane    *)
(* (hw_offload.rs) and the pre-flight check of speculative routes          *)
(* (pre_flight_execute, stateless.rs).                                     *)
(*                                                                         *)
(* The router is borrowed mutably by each of its operations, but the data  *)
(* plane reads the driver at any time, so a speculative route is a state   *)
(* of its own between the push and the verdict, and the registry changes   *)
(* in the meantime.  Amounts are words (U256): sums, products and          *)
(* differences wrap around at Word, as the code's operators do, except     *)
(* where it saturates.                                                     *)
(*                                                                         *)
(* A definition Mut<Name> is <Name> with a mistake one could make in that  *)
(* code; it is used nowhere and tells which property would notice.         *)
(***************************************************************************)
EXTENDS Integers, FiniteSets

CONSTANTS
  Dests,      \* hashes of destination DIDs
  Routes,     \* RouteInfo: next hop, rate, assets
  NoRoute,    \* no entry
  Peers,      \* WireGuard keys
  Callers,    \* accounts that ask for speculative routes
  Word,       \* 2^256, where U256 wraps around
  Funds,      \* Funds[c], the balance of a caller's witness
  Requests,   \* what pre-flight looks at
  BasePenalty,\* the penalty of a request without deviations, 100,000
  ScalarPct,  \* gas_escalation_scalar, in percent
  Fine        \* the fine for a refused speculation, 500,000

Request == [frozen : BOOLEAN,      \* caller or contract is frozen in Q0
            subsumed : BOOLEAN,    \* Q1 of the caller subsumes the contract's
            overlap : BOOLEAN,     \* Q2 of the two overlap
            evm : Nat,             \* gas_price * gas_limit + tx_value, not yet a word
            bandwidth : Nat]       \* the saturating product of the request

ASSUME NoRouteAssumption == NoRoute \notin Routes
ASSUME FundsAssumption == Word \in Nat \ {0} /\ Funds \in [Callers -> 0..Word - 1]
ASSUME RequestsAssumption == Requests \subseteq Request
ASSUME RatesAssumption == BasePenalty \in Nat /\ ScalarPct \in Nat /\ Fine \in Nat

VARIABLES
  table,      \* routing_table
  hardware,   \* hardware_table
  pending,    \* the speculative_update_route under way
  balance,    \* the balance of each caller's witness
  tunnels,    \* "None", "Fresh" or "Up" for each peer
  active,     \* keys of the registry's active_peers
  revoked     \* history: destinations whose last update was a refused one

routerVars == <<table, hardware, pending, balance, tunnels, active, revoked>>

None == [dest |-> NoRoute]
Speculation == [dest : Dests, info : Routes, caller : Callers, request : Requests]

-----------------------------------------------------------------------------
(* Pre-flight                                                              *)

Multiplier(r) == 1 + (IF r.subsumed THEN 0 ELSE 10) + (IF r.overlap THEN 0 ELSE 5)

(* Truncated to a whole number of base penalties, as the cast does; a u64  *)
(* of them is far from the word.                                           *)
Penalty(r) == BasePenalty * ((Multiplier(r) * ScalarPct) \div 100)

(* What the caller announces and agrees to, as a number ...                *)
Announced(r) == Penalty(r) + r.evm + r.bandwidth

(* ... and total_required, which is what is left of it in a word: a sum    *)
(* beyond the word is compared as the small number it wraps around to.     *)
Required(r) == Announced(r) % Word

MutSolvent(c, r) == balance[c] >= (Penalty(r) + r.evm) % Word
Solvent(c, r) == balance[c] >= Required(r)

Accepts(c, r) == ~r.frozen /\ Solvent(c, r)

-----------------------------------------------------------------------------

RouterInit ==
  /\ table = [d \in Dests |-> NoRoute]
  /\ hardware = [d \in Dests |-> NoRoute]
  /\ pending = None
  /\ balance = Funds
  /\ tunnels = [k \in Peers |-> "None"]
  /\ active = {}
  /\ revoked = {}

UpdateRoute(d, info) ==
  /\ pending = None
  /\ hardware' = [hardware EXCEPT ![d] = info]
  /\ table' = [table EXCEPT ![d] = info]
  /\ revoked' = revoked \ {d}
  /\ UNCHANGED <<pending, balance, tunnels, active>>

MutRemoveRoute(d) ==
  /\ pending = None
  /\ table' = [table EXCEPT ![d] = NoRoute]
  /\ revoked' = revoked \ {d}
  /\ UNCHANGED <<pending, hardware, balance, tunnels, active>>
RemoveRoute(d) ==
  /\ pending = None
  /\ hardware' = [hardware EXCEPT ![d] = NoRoute]
  /\ table' = [table EXCEPT ![d] = NoRoute]
  /\ revoked' = revoked \ {d}
  /\ UNCHANGED <<pending, balance, tunnels, active>>

(* speculative_update_route up to the push.                                *)
Speculate(s) ==
  /\ pending = None
  /\ pending' = s
  /\ hardware' = [hardware EXCEPT ![s.dest] = s.info]
  /\ UNCHANGED <<table, balance, tunnels, active, revoked>>

(* Pre-flight passes: penalty and bandwidth are taken, the route is kept.  *)
(* The subtractions wrap around too, below zero.                           *)
Accept ==
  /\ pending # None
  /\ LET c == pending.caller
         r == pending.request
     IN  /\ Accepts(c, r)
         /\ balance' = [balance EXCEPT ![c] = (@ - Penalty(r) - r.bandwidth) % Word]
  /\ table' = [table EXCEPT ![pending.dest] = pending.info]
  /\ revoked' = revoked \ {pending.dest}
  /\ pending' = None
  /\ UNCHANGED <<hardware, tunnels, active>>

(* The fine is taken with a saturating subtraction.                        *)
MutFineOf(c) == Fine
FineOf(c) == IF balance[c] < Fine THEN balance[c] ELSE Fine

(* Pre-flight fails: the hardware entry goes, whatever was there before.   *)
Refuse ==
  /\ pending # None
  /\ ~Accepts(pending.caller, pending.request)
  /\ hardware' = [hardware EXCEPT ![pending.dest] = NoRoute]
  /\ balance' = [balance EXCEPT ![pending.caller] = @ - FineOf(pending.caller)]
  /\ revoked' = revoked \cup {pending.dest}
  /\ pending' = None
  /\ UNCHANGED <<table, tunnels, active>>

RegisterPeer(k) ==
  /\ pending = None
  /\ tunnels' = [tunnels EXCEPT ![k] = "Fresh"]
  /\ UNCHANGED <<table, hardware, pending, balance, active, revoked>>

(* Tunnels of peers no longer active go, missing ones are created.         *)
Synced(k) == IF k \notin active THEN "None" ELSE IF tunnels[k] = "None" THEN "Fresh" ELSE tunnels[k]

SyncPeers ==
  /\ pending = None
  /\ tunnels' = [k \in Peers |-> Synced(k)]
  /\ UNCHANGED <<table, hardware, pending, balance, active, revoked>>

(* A handshake completes in handle_packet; the tunnel has a session.       *)
Handshake(k) ==
  /\ pending = None
  /\ tunnels[k] = "Fresh"
  /\ tunnels' = [tunnels EXCEPT ![k] = "Up"]
  /\ UNCHANGED <<table, hardware, pending, balance, active, revoked>>

(* The registry gains or loses an active peer.                             *)
ActiveChanges(k) ==
  /\ active' = IF k \in active THEN active \ {k} ELSE active \cup {k}
  /\ UNCHANGED <<table, hardware, pending, balance, tunnels, revoked>>

RouterNext ==
  \/ \E d \in Dests : RemoveRoute(d) \/ \E info \in Routes : UpdateRoute(d, info)
  \/ \E s \in Speculation : Speculate(s)
  \/ Accept
  \/ Refuse
  \/ SyncPeers
  \/ \E k \in Peers : RegisterPeer(k) \/ Handshake(k) \/ ActiveChanges(k)

RouterSpec == RouterInit /\ [][RouterNext]_routerVars

-----------------------------------------------------------------------------
(* Properties                                                              *)

(* The shape of the state; every balance is a word.                        *)
RouterTypeOK ==
  /\ table \in [Dests -> Routes \cup {NoRoute}]
  /\ hardware \in [Dests -> Routes \cup {NoRoute}]
  /\ pending \in Speculation \cup {None}
  /\ balance \in [Callers -> 0..Word - 1]
  /\ tunnels \in [Peers -> {"None", "Fresh", "Up"}]
  /\ active \subseteq Peers
  /\ revoked \subseteq Dests

InFlight(d) == pending # None /\ pending.dest = d

(* The data plane never carries a route the table does not have, except    *)
(* the speculative one while it is being verified; and a route of the      *)
(* table is missing from it only after a refused speculation for the same  *)
(* destination.                                                            *)
HardwareFollowsTable ==
  \A d \in Dests :
    IF InFlight(d) THEN hardware[d] = pending.info
    ELSE hardware[d] = IF d \in revoked THEN NoRoute ELSE table[d]

(* The sum checked covers the parts taken and what they leave over: whoever*)
(* gets a speculative route pays for it and keeps enough for the execution *)
(* announced, and whoever does not loses no more than the fine.  There is  *)
(* one exception, and the balances of others it does not touch: where the  *)
(* sum announced is beyond the word, neither is promised.                  *)
ExecutionCovered ==
  [][pending # None /\ pending' # pending =>
       LET c == pending.caller
           r == pending.request
       IN  /\ \A d \in Callers \ {c} : balance'[d] = balance[d]
           /\ \/ Announced(r) >= Word
              \/ IF table'[pending.dest] = pending.info /\ hardware'[pending.dest] = pending.info
                 THEN balance'[c] \in r.evm..balance[c]
                 ELSE balance[c] - balance'[c] \in 0..Fine]_routerVars
==============================================================================
