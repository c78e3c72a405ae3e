--------------------------------- MODULE Saga ---------------------------------
(***************************************************************************)
(* One saga: the actors that stand for an intent on its manifolds          *)
(* (CrossManifoldActor, crates/consensus/src/actor.rs) and the committee   *)
(* that votes for it (SagaOrchestratorCommittee and SagaIntent,            *)
(* sync_committee.rs, SnowSubsetElection, subset_election.rs).             *)
(*                                                                         *)
(* The attestation packet of an actor is emitted once or more and then     *)
(* delivered to any actor, any number of times and in any order.  A packet *)
(* with another id, other parameters or a bad proof changes nothing and is *)
(* left out.  Verifying the votes is asynchronous: the threshold is read   *)
(* first, the registry is locked afterwards and stays locked across the    *)
(* awaits.  The call borrows the actor, the committee and the intent, so   *)
(* these do not change under it; the configuration, the registry and the   *)
(* clock do, and the caller may drop it.                                   *)
(*                                                                         *)
(* Left out because nobody reads them: the epoch and the threshold a       *)
(* committee keeps and the timeout_seconds of an actor (the live           *)
(* configuration is used instead), and the expiry of an intent.            *)
(*                                                                         *)
(* A definition Mut<Name> is <Name> with a mistake one could make in that  *)
(* code; it is used nowhere and tells which property would notice.         *)
(***************************************************************************)
EXTENDS Integers, FiniteSets

CONSTANTS
  Actors,     \* the copies of the actor on the manifolds
  Members,    \* addresses of validators
  Known,      \* the members registered from the start
  PostQuantum, \* the members whose DID holds a post-quantum key
  Ballots,    \* the signatures that may be collected: [by, valid]
  Pools,      \* the answers of get_eligible_orchestrators
  Sizes,      \* subset sizes asked for
  Epochs,     \* election epochs
  Rank,       \* Rank[e][m], the position the hash of epoch and address gives
  Windows,    \* values of saga_intent_timeout_seconds
  Percents,   \* values of committee_threshold, in percent
  MaxClock    \* bound on the clock

ASSUME MembersAssumption == IsFiniteSet(Members) /\ PostQuantum \subseteq Members /\ Known \subseteq Members
ASSUME BallotsAssumption == Ballots \subseteq [by : Members, valid : BOOLEAN]
ASSUME PoolsAssumption == Pools \subseteq SUBSET Members /\ Sizes \subseteq Nat
ASSUME RankAssumption == Rank \in [Epochs -> [Members -> Nat]]
ASSUME ConfigAssumption == Windows \subseteq Nat /\ Percents \subseteq 1..100 /\ MaxClock \in Nat

VARIABLES
  clock,
  window,     \* dynamic_cfg.saga_intent_timeout_seconds
  percent,    \* dynamic_cfg.committee_threshold
  dids,       \* the addresses address_to_did knows
  committee,  \* its orchestrators
  ballots,    \* orchestrator_signatures
  actor,
  emitted,    \* whether an attestation packet exists
  call,       \* the verification each actor is borrowed by
  votes,      \* history: what the committee-backed advances rested on
  shortest    \* history: the shortest window in force since an actor exists

vars == <<clock, window, percent, dids, committee, ballots, actor, emitted, call, votes, shortest>>

NoActor == [state |-> "None", created |-> 0]
NoCall == [percent |-> -1, threat |-> FALSE]
ActorStates == {"InitiateIntent", "PrepareExecution", "Commit", "Rollback"}

-----------------------------------------------------------------------------
(* Election and quorum                                                     *)

(* trigger_election: the first members of the pool in the epoch's order.   *)
Sample(pool, epoch, size) ==
  {m \in pool : Cardinality({k \in pool : Rank[epoch][k] < Rank[epoch][m]}) < size}

(* The ceiling of n * threshold.                                           *)
MutRequired(n, pct) == (n * pct) \div 100
Required(n, pct) == (n * pct + 99) \div 100

(* Signatures of members whose DID is known are the ones looked at.        *)
Considered == {b \in ballots : b.by \in committee /\ b.by \in dids}

(* One signature that does not verify fails the whole call.                *)
Rejected(threat) == \E b \in Considered : ~b.valid \/ (threat /\ b.by \notin PostQuantum)

Voters == {b.by : b \in Considered}

(* verify_consensus once the registry is locked, with the threshold read   *)
(* when the call began.                                                    *)
Verified(pct, threat) ==
  /\ ~Rejected(threat)
  /\ Cardinality(Voters) >= Required(Cardinality(committee), pct)

-----------------------------------------------------------------------------

Init ==
  /\ clock = 0
  /\ window \in Windows
  /\ percent \in Percents
  /\ dids = Known
  /\ committee = {}
  /\ ballots = {}
  /\ actor = [a \in Actors |-> NoActor]
  /\ emitted = FALSE
  /\ call = [a \in Actors |-> NoCall]
  /\ votes = {}
  /\ shortest = [a \in Actors |-> 0]

Exists(a) == actor[a].state # "None"
Free(a) == Exists(a) /\ call[a] = NoCall
AllIdle == \A a \in Actors : call[a] = NoCall

New(a) ==
  /\ ~Exists(a)
  /\ actor' = [actor EXCEPT ![a] = [state |-> "InitiateIntent", created |-> clock]]
  /\ shortest' = [shortest EXCEPT ![a] = window]
  /\ UNCHANGED <<clock, window, percent, dids, committee, ballots, emitted, call, votes>>

Emit(a) ==
  /\ Free(a)
  /\ actor[a].state = "InitiateIntent"
  /\ emitted' = TRUE
  /\ UNCHANGED <<clock, window, percent, dids, committee, ballots, actor, call, votes, shortest>>

(* prepare or commit, as the state asks for; an error in a terminal state. *)
MutAdvanced(a) ==
  [actor EXCEPT ![a].state = IF @ = "InitiateIntent" THEN "PrepareExecution" ELSE "Commit"]
Advanced(a) ==
  [actor EXCEPT ![a].state =
     CASE @ = "InitiateIntent" -> "PrepareExecution"
       [] @ = "PrepareExecution" -> "Commit"
       [] OTHER -> @]
Terminal(a) == actor[a].state \in {"Commit", "Rollback"}

Process(a) ==
  /\ emitted
  /\ Free(a)
  /\ actor' = Advanced(a)
  /\ UNCHANGED <<clock, window, percent, dids, committee, ballots, emitted, call, votes, shortest>>

MutBeginVote(a, threat) ==
  /\ emitted
  /\ Free(a)
  /\ call' = [call EXCEPT ![a] = [percent |-> percent, threat |-> threat]]
  /\ UNCHANGED <<clock, window, percent, dids, committee, ballots, actor, emitted, votes, shortest>>
(* An empty committee is an error.                                         *)
BeginVote(a, threat) ==
  /\ emitted
  /\ Free(a)
  /\ committee # {}
  /\ call' = [call EXCEPT ![a] = [percent |-> percent, threat |-> threat]]
  /\ UNCHANGED <<clock, window, percent, dids, committee, ballots, actor, emitted, votes, shortest>>

EndVote(a) ==
  /\ call[a] # NoCall
  /\ call' = [call EXCEPT ![a] = NoCall]
  /\ IF Verified(call[a].percent, call[a].threat)
     THEN /\ actor' = Advanced(a)
          /\ votes' = IF Terminal(a) THEN votes
                      ELSE votes \cup {[members |-> committee, voters |-> Voters, percent |-> call[a].percent]}
     ELSE UNCHANGED <<actor, votes>>
  /\ UNCHANGED <<clock, window, percent, dids, committee, ballots, emitted, shortest>>

DropVote(a) ==
  /\ call[a] # NoCall
  /\ call' = [call EXCEPT ![a] = NoCall]
  /\ UNCHANGED <<clock, window, percent, dids, committee, ballots, actor, emitted, votes, shortest>>

(* evaluate_timeout looks at the configuration, not at the actor's own     *)
(* timeout_seconds.                                                        *)
MutExpired(a) == actor[a].state # "Commit" /\ clock >= actor[a].created + window
Expired(a) == actor[a].state # "Commit" /\ clock > actor[a].created + window

EvaluateTimeout(a) ==
  /\ Free(a)
  /\ Expired(a)
  /\ actor' = [actor EXCEPT ![a].state = "Rollback"]
  /\ UNCHANGED <<clock, window, percent, dids, committee, ballots, emitted, call, votes, shortest>>

(* select_orchestrators: without eligible validators an error, the members *)
(* stay.                                                                   *)
SelectOrchestrators(epoch, size, pool) ==
  /\ AllIdle
  /\ pool # {}
  /\ committee' = Sample(pool, epoch, size)
  /\ UNCHANGED <<clock, window, percent, dids, ballots, actor, emitted, call, votes, shortest>>

Sign(b) ==
  /\ AllIdle
  /\ ballots' = ballots \cup {b}
  /\ UNCHANGED <<clock, window, percent, dids, committee, actor, emitted, call, votes, shortest>>

Register(m) ==
  /\ dids' = dids \cup {m}
  /\ UNCHANGED <<clock, window, percent, committee, ballots, actor, emitted, call, votes, shortest>>

Reload(w, p) ==
  /\ window' = w
  /\ percent' = p
  /\ shortest' = [a \in Actors |-> IF Exists(a) /\ w < shortest[a] THEN w ELSE shortest[a]]
  /\ UNCHANGED <<clock, dids, committee, ballots, actor, emitted, call, votes>>

Tick ==
  /\ clock < MaxClock
  /\ clock' = clock + 1
  /\ UNCHANGED <<window, percent, dids, committee, ballots, actor, emitted, call, votes, shortest>>

Next ==
  \/ \E a \in Actors : \/ New(a) \/ Emit(a) \/ Process(a)
                       \/ \E threat \in BOOLEAN : BeginVote(a, threat)
                       \/ EndVote(a) \/ DropVote(a) \/ EvaluateTimeout(a)
  \/ \E epoch \in Epochs, size \in Sizes, pool \in Pools : SelectOrchestrators(epoch, size, pool)
  \/ \E b \in Ballots : Sign(b)
  \/ \E m \in Members : Register(m)
  \/ \E w \in Windows, p \in Percents : Reload(w, p)
  \/ Tick

Spec == Init /\ [][Next]_vars

-----------------------------------------------------------------------------
(* Properties                                                              *)

(* The shape of the state; only an actor that exists is borrowed, for a    *)
(* packet somebody emitted and a committee with members.                   *)
TypeOK ==
  /\ clock \in 0..MaxClock
  /\ window \in Windows /\ percent \in Percents
  /\ dids \subseteq Members
  /\ committee \subseteq Members
  /\ ballots \subseteq Ballots
  /\ actor \in [Actors -> [state : {"None"} \cup ActorStates, created : 0..MaxClock]]
  /\ emitted \in BOOLEAN
  /\ call \in [Actors -> {NoCall} \cup [percent : Percents, threat : BOOLEAN]]
  /\ \A a \in Actors : call[a] # NoCall => Exists(a) /\ emitted /\ committee # {}
  /\ votes \subseteq [members : SUBSET Members, voters : SUBSET Members, percent : Percents]
  /\ shortest \in [Actors -> {0} \cup Windows]

(* Every advance process_attestation_with_committee made rests on members  *)
(* of the committee of that moment, each known to the registry, each with  *)
(* a signature that verifies, and enough of them for the threshold the     *)
(* call read, whatever was reloaded or registered while it ran.            *)
VotedByQuorum ==
  \A v \in votes :
    /\ v.voters # {}
    /\ v.voters \subseteq v.members \cap dids
    /\ \A m \in v.voters : [by |-> m, valid |-> TRUE] \in ballots
    /\ Cardinality(v.voters) * 100 >= Cardinality(v.members) * v.percent

(* Two advances voted by one committee, with thresholds that add up to     *)
(* more than the whole, have a voter in common.                            *)
QuorumsMeet ==
  \A v, w \in votes :
    v.members = w.members /\ v.percent + w.percent > 100 => v.voters \cap w.voters # {}

Transitions ==
  {<<"None", "InitiateIntent">>, <<"InitiateIntent", "PrepareExecution">>, <<"PrepareExecution", "Commit">>,
   <<"InitiateIntent", "Rollback">>, <<"PrepareExecution", "Rollback">>}

(* INITIATE_INTENT -> PREPARE_EXECUTION -> COMMIT / ROLLBACK: no state is   *)
(* skipped and neither end is left, by a repeated packet, a vote that ends *)
(* late or an evaluation after the fact.                                   *)
StateMachine ==
  [][\A a \in Actors : actor'[a].state = actor[a].state \/ <<actor[a].state, actor'[a].state>> \in Transitions]_vars

(* No actor is rolled back before some window that was in force during its *)
(* life has passed.                                                        *)
RolledBackLate ==
  \A a \in Actors : actor[a].state = "Rollback" => clock > actor[a].created + shortest[a]
==============================================================================
