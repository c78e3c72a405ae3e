----------------------------- MODULE Saga_proofs -----------------------------
(***************************************************************************)
(* Proofs about Saga for any number of actors and members, any windows and *)
(* any thresholds of at least one percent.                                 *)
(***************************************************************************)
EXTENDS Saga, FiniteSetTheorems, TLAPS

-----------------------------------------------------------------------------
(* The quorum                                                              *)

(* Rounded up, a share is at least the share and never nothing.            *)
LEMMA CeilPercent ==
  ASSUME NEW n \in Nat, NEW p \in 1..100
  PROVE  /\ n * p \in Nat
         /\ Required(n, p) \in Nat
         /\ Required(n, p) * 100 >= n * p
         /\ n # 0 => Required(n, p) >= 1
<1>1. n * p \in Nat
  OBVIOUS
<1>2. n # 0 => n * p >= 1
  <2> SUFFICES ASSUME n # 0 PROVE n * p >= 1
    OBVIOUS
  <2>1. n * p >= n * 1
    OBVIOUS
  <2> QED BY <2>1
<1> DEFINE x == n * p
<1>3. Required(n, p) = (x + 99) \div 100
  BY DEF Required
<1> HIDE DEF x
<1>4. x \in Nat
  BY <1>1 DEF x
<1>5. (x + 99) \div 100 \in Nat /\ ((x + 99) \div 100) * 100 >= x /\ (x >= 1 => (x + 99) \div 100 >= 1)
  BY <1>4
<1> QED BY <1>1, <1>2, <1>3, <1>5 DEF x

(* Two large subsets of one finite set meet.                               *)
LEMMA Pigeonhole ==
  ASSUME NEW M, IsFiniteSet(M), NEW V \in SUBSET M, NEW W \in SUBSET M, V # {},
         NEW p \in 1..100, NEW q \in 1..100, p + q > 100,
         Cardinality(V) * 100 >= Cardinality(M) * p,
         Cardinality(W) * 100 >= Cardinality(M) * q
  PROVE  V \cap W # {}
<1> SUFFICES ASSUME V \cap W = {} PROVE FALSE
  OBVIOUS
<1> DEFINE n == Cardinality(M)
           v == Cardinality(V)
           w == Cardinality(W)
<1>1. IsFiniteSet(V) /\ IsFiniteSet(W) /\ IsFiniteSet(V \cup W)
  BY FS_Subset, FS_Union
<1>2. n \in Nat /\ v \in Nat /\ w \in Nat
  BY <1>1, FS_CardinalityType
<1>3. v + w <= n
  <2>1. Cardinality(V \cup W) = v + w - Cardinality({})
    BY <1>1, FS_Union
  <2>2. Cardinality({}) = 0
    BY FS_EmptySet
  <2>3. Cardinality(V \cup W) <= n
    BY FS_Subset
  <2> QED BY <1>2, <2>1, <2>2, <2>3
<1>4. n # 0
  BY FS_EmptySet
<1> HIDE DEF n, v, w
<1>5. v * 100 >= n * p /\ w * 100 >= n * q
  BY DEF n, v, w
<1>6. n * p + n * q >= n * 101
  <2>1. n * p + n * q = n * (p + q)
    BY <1>2
  <2>2. n * (p + q) >= n * 101
    BY <1>2
  <2> QED BY <2>1, <2>2
<1>7. n * p \in Nat /\ n * q \in Nat
  BY <1>2
<1> QED BY <1>2, <1>3, <1>4, <1>5, <1>6, <1>7

-----------------------------------------------------------------------------
(* Type correctness                                                        *)

(* The mark of no call is no call.                                         *)
LEMMA NoCallIsNone == NoCall \notin [percent : Percents, threat : BOOLEAN]
<1>1. \A c \in [percent : Percents, threat : BOOLEAN] : c.percent \in 1..100
  BY ConfigAssumption
<1>2. NoCall.percent = -1
  BY DEF NoCall
<1> QED BY <1>1, <1>2

(* An actor that a packet advances goes at most one state on.              *)
LEMMA AdvancedType ==
  ASSUME TypeOK, NEW a \in Actors, Exists(a)
  PROVE  /\ Advanced(a) \in [Actors -> [state : {"None"} \cup ActorStates, created : 0..MaxClock]]
         /\ Advanced(a)[a].created = actor[a].created
         /\ \A b \in Actors : b # a => Advanced(a)[b] = actor[b]
         /\ \/ Advanced(a)[a].state = actor[a].state
            \/ <<actor[a].state, Advanced(a)[a].state>> \in
                 {<<"InitiateIntent", "PrepareExecution">>, <<"PrepareExecution", "Commit">>}
BY DEF TypeOK, Exists, Advanced, ActorStates

(* Every step keeps the types.                                             *)
LEMMA TypeStep == TypeOK /\ [Next]_vars => TypeOK'
<1> SUFFICES ASSUME TypeOK, [Next]_vars PROVE TypeOK'
  OBVIOUS
<1> USE DEF TypeOK
<1>1. ASSUME NEW a \in Actors, New(a) PROVE TypeOK'
  BY <1>1, ConfigAssumption DEF New, ActorStates, Exists
<1>2. ASSUME NEW a \in Actors, Emit(a) PROVE TypeOK'
  BY <1>2 DEF Emit, Exists
<1>3. ASSUME NEW a \in Actors, Process(a) PROVE TypeOK'
  <2>1. \A b \in Actors : actor'[b].state # "None" <=> actor[b].state # "None"
    BY <1>3, AdvancedType DEF Process, Free, Exists, ActorStates
  <2> QED BY <1>3, <2>1, AdvancedType DEF Process, Free, Exists
<1>4. ASSUME NEW a \in Actors, NEW threat \in BOOLEAN, BeginVote(a, threat) PROVE TypeOK'
  BY <1>4 DEF BeginVote, Free, Exists
<1>5. ASSUME NEW a \in Actors, EndVote(a) PROVE TypeOK'
  <2>1. Exists(a) /\ call[a] \in [percent : Percents, threat : BOOLEAN]
    BY <1>5 DEF EndVote
  <2>2. Voters \subseteq Members
    BY BallotsAssumption DEF Voters, Considered
  <2>3. votes' \subseteq [members : SUBSET Members, voters : SUBSET Members, percent : Percents]
    BY <1>5, <2>1, <2>2 DEF EndVote
  <2>4. /\ actor' \in [Actors -> [state : {"None"} \cup ActorStates, created : 0..MaxClock]]
        /\ \A b \in Actors : actor'[b].state # "None" <=> actor[b].state # "None"
    BY <1>5, <2>1, AdvancedType DEF EndVote, Exists, ActorStates
  <2>5. /\ call' \in [Actors -> {NoCall} \cup [percent : Percents, threat : BOOLEAN]]
        /\ \A b \in Actors : call'[b] # NoCall => call[b] # NoCall
    BY <1>5 DEF EndVote
  <2> QED BY <1>5, <2>3, <2>4, <2>5 DEF EndVote, Exists
<1>6. ASSUME NEW a \in Actors, DropVote(a) PROVE TypeOK'
  BY <1>6 DEF DropVote, Exists
<1>7. ASSUME NEW a \in Actors, EvaluateTimeout(a) PROVE TypeOK'
  BY <1>7 DEF EvaluateTimeout, Free, Exists, ActorStates
<1>8. ASSUME NEW epoch \in Epochs, NEW size \in Sizes, NEW pool \in Pools, SelectOrchestrators(epoch, size, pool)
      PROVE TypeOK'
  <2>1. committee' \subseteq Members
    BY <1>8, PoolsAssumption DEF SelectOrchestrators, Sample
  <2> QED BY <1>8, <2>1 DEF SelectOrchestrators, AllIdle, Exists
<1>9. ASSUME NEW b \in Ballots, Sign(b) PROVE TypeOK'
  BY <1>9 DEF Sign, Exists
<1>10. ASSUME NEW m \in Members, Register(m) PROVE TypeOK'
  BY <1>10 DEF Register, Exists
<1>11. ASSUME NEW w \in Windows, NEW p \in Percents, Reload(w, p) PROVE TypeOK'
  BY <1>11 DEF Reload, Exists
<1>12. CASE Tick
  BY <1>12, ConfigAssumption DEF Tick, Exists
<1>13. CASE UNCHANGED vars
  BY <1>13 DEF vars, Exists
<1> QED BY <1>1, <1>2, <1>3, <1>4, <1>5, <1>6, <1>7, <1>8, <1>9, <1>10, <1>11, <1>12, <1>13 DEF Next

(* The types at first.                                                     *)
LEMMA TypeInit == Init => TypeOK
<1> SUFFICES ASSUME Init PROVE TypeOK
  OBVIOUS
<1>1. MaxClock \in Nat /\ Windows \subseteq Nat
  BY ConfigAssumption
<1>2. NoActor \in [state : {"None"} \cup ActorStates, created : 0..MaxClock]
  BY <1>1 DEF NoActor
<1>3. actor \in [Actors -> [state : {"None"} \cup ActorStates, created : 0..MaxClock]]
  BY <1>2 DEF Init
<1>4. clock \in 0..MaxClock /\ dids \subseteq Members
  BY <1>1, MembersAssumption DEF Init
<1>5. /\ call \in [Actors -> {NoCall} \cup [percent : Percents, threat : BOOLEAN]]
      /\ \A a \in Actors : call[a] = NoCall
  BY DEF Init
<1>6. /\ window \in Windows /\ percent \in Percents
      /\ committee \subseteq Members /\ ballots \subseteq Ballots /\ emitted \in BOOLEAN
      /\ votes \subseteq [members : SUBSET Members, voters : SUBSET Members, percent : Percents]
      /\ shortest \in [Actors -> {0} \cup Windows]
  BY DEF Init
<1> QED BY <1>3, <1>4, <1>5, <1>6 DEF TypeOK

(* Type correctness for every committee, configuration and set of actors.  *)
THEOREM TypeCorrect == Spec => []TypeOK
BY TypeInit, TypeStep, PTL DEF Spec

(* The actor state machine is never left, for any schedule.                *)
THEOREM NoStateSkipped == Spec => StateMachine
<1>1. TypeOK /\ [Next]_vars =>
        [\A a \in Actors : actor'[a].state = actor[a].state \/ <<actor[a].state, actor'[a].state>> \in Transitions]_vars
  <2> SUFFICES ASSUME TypeOK, Next, NEW a \in Actors
               PROVE  actor'[a].state = actor[a].state \/ <<actor[a].state, actor'[a].state>> \in Transitions
    BY DEF vars
  <2>0. actor \in [Actors -> [state : {"None"} \cup ActorStates, created : 0..MaxClock]]
    BY DEF TypeOK
  <2>1. ASSUME NEW b \in Actors, New(b)
        PROVE  actor'[a].state = actor[a].state \/ <<actor[a].state, actor'[a].state>> \in Transitions
    BY <2>0, <2>1 DEF New, Exists, Transitions
  <2>2. ASSUME NEW b \in Actors, actor' = Advanced(b), Exists(b)
        PROVE  actor'[a].state = actor[a].state \/ <<actor[a].state, actor'[a].state>> \in Transitions
    BY <2>2, AdvancedType DEF Transitions
  <2>3. ASSUME NEW b \in Actors, EndVote(b)
        PROVE  actor' = actor \/ (actor' = Advanced(b) /\ Exists(b))
    BY <2>3 DEF EndVote, TypeOK
  <2>4. ASSUME NEW b \in Actors, EvaluateTimeout(b)
        PROVE  actor'[a].state = actor[a].state \/ <<actor[a].state, actor'[a].state>> \in Transitions
    BY <2>0, <2>4 DEF EvaluateTimeout, Expired, Free, Exists, Transitions, ActorStates
  <2>5. ASSUME NEW b \in Actors, Process(b)
        PROVE  actor' = Advanced(b) /\ Exists(b)
    BY <2>5 DEF Process, Free
  <2>6. ASSUME actor' = actor
        PROVE  actor'[a].state = actor[a].state
    BY <2>6
  <2>7. \/ actor' = actor
        \/ \E b \in Actors : New(b) \/ Process(b) \/ EndVote(b) \/ EvaluateTimeout(b)
    BY DEF Next, Emit, BeginVote, DropVote, SelectOrchestrators, Sign, Register, Reload, Tick
  <2> QED BY <2>1, <2>2, <2>3, <2>4, <2>5, <2>6, <2>7
<1> QED BY <1>1, TypeCorrect, PTL DEF Spec, StateMachine

-----------------------------------------------------------------------------
(* Votes                                                                   *)

(* The voters a verified call has counted.                                 *)
LEMMA VoteCounts ==
  ASSUME TypeOK, NEW pct \in Percents, NEW threat \in BOOLEAN, committee # {}, Verified(pct, threat)
  PROVE  /\ Voters # {}
         /\ Voters \subseteq committee \cap dids
         /\ \A m \in Voters : [by |-> m, valid |-> TRUE] \in ballots
         /\ Cardinality(Voters) * 100 >= Cardinality(committee) * pct
<1>1. /\ IsFiniteSet(committee) /\ Cardinality(committee) \in Nat /\ Cardinality(committee) # 0
  BY MembersAssumption, FS_Subset, FS_CardinalityType, FS_EmptySet DEF TypeOK
<1>2. Voters \subseteq committee \cap dids
  BY DEF Voters, Considered
<1>3. IsFiniteSet(Voters) /\ Cardinality(Voters) \in Nat
  BY <1>1, <1>2, FS_Subset, FS_CardinalityType
<1>4. pct \in 1..100
  BY ConfigAssumption
<1>5. Cardinality(Voters) >= Required(Cardinality(committee), pct)
  BY DEF Verified
<1>6. Cardinality(Voters) >= 1
  <2> DEFINE v == Cardinality(Voters)
             r == Required(Cardinality(committee), pct)
  <2>1. r \in Nat /\ r >= 1
    BY <1>1, <1>4, CeilPercent
  <2> HIDE DEF r
  <2> QED BY <1>3, <1>5, <2>1 DEF r
<1>7. Cardinality(Voters) * 100 >= Cardinality(committee) * pct
  <2> DEFINE v == Cardinality(Voters)
             r == Required(Cardinality(committee), pct)
             x == Cardinality(committee) * pct
  <2>1. v \in Nat /\ r \in Nat /\ x \in Nat /\ v >= r /\ r * 100 >= x
    BY <1>1, <1>3, <1>4, <1>5, CeilPercent
  <2> HIDE DEF v, r, x
  <2>2. v * 100 >= x
    BY <2>1
  <2> QED BY <2>2 DEF v, x
<1>8. ASSUME NEW m \in Voters
      PROVE  [by |-> m, valid |-> TRUE] \in ballots
  <2>1. PICK b \in Considered : m = b.by
    BY DEF Voters
  <2>2. b \in ballots /\ b \in [by : Members, valid : BOOLEAN]
    BY BallotsAssumption DEF Considered, TypeOK
  <2>3. b.valid = TRUE
    BY <2>1, <2>2 DEF Verified, Rejected
  <2> QED BY <2>1, <2>2, <2>3
<1> QED BY <1>2, <1>6, <1>7, <1>8, FS_EmptySet

(* Every step keeps what is known of voted advances.                       *)
LEMMA VotesStep == TypeOK /\ VotedByQuorum /\ [Next]_vars => VotedByQuorum'
<1> SUFFICES ASSUME TypeOK, VotedByQuorum, [Next]_vars PROVE VotedByQuorum'
  OBVIOUS
<1>1. dids \subseteq dids' /\ ballots \subseteq ballots'
  BY DEF Next, New, Emit, Process, BeginVote, EndVote, DropVote, EvaluateTimeout, SelectOrchestrators,
         Sign, Register, Reload, Tick, vars
<1>2. CASE votes' = votes
  BY <1>1, <1>2 DEF VotedByQuorum
<1>3. ASSUME NEW a \in Actors, EndVote(a), votes' # votes
      PROVE  VotedByQuorum'
  <2>1. /\ call[a] \in [percent : Percents, threat : BOOLEAN] /\ committee # {}
        /\ Verified(call[a].percent, call[a].threat)
        /\ votes' = votes \cup {[members |-> committee, voters |-> Voters, percent |-> call[a].percent]}
    BY <1>3 DEF EndVote, TypeOK
  <2>2. /\ call[a].percent \in Percents
        /\ call[a].threat \in BOOLEAN
    BY <2>1
  <2>3. /\ Voters # {}
        /\ Voters \subseteq committee \cap dids
        /\ \A m \in Voters : [by |-> m, valid |-> TRUE] \in ballots
        /\ Cardinality(Voters) * 100 >= Cardinality(committee) * call[a].percent
    BY <2>1, <2>2, VoteCounts
  <2> QED BY <1>1, <2>1, <2>3 DEF VotedByQuorum
<1>4. votes' = votes \/ \E a \in Actors : EndVote(a)
  BY DEF Next, New, Emit, Process, BeginVote, DropVote, EvaluateTimeout, SelectOrchestrators,
         Sign, Register, Reload, Tick, vars
<1> QED BY <1>2, <1>3, <1>4

(* Every voted advance rests on a quorum of valid votes of its committee.  *)
THEOREM Quorate == Spec => []VotedByQuorum
<1>1. Init => VotedByQuorum
  BY DEF Init, VotedByQuorum
<1> QED BY <1>1, VotesStep, TypeCorrect, PTL DEF Spec

(* Two voted advances of one committee have a voter in common when their   *)
(* thresholds add up to more than the whole.                               *)
THEOREM CommonVoter == Spec => []QuorumsMeet
<1>1. TypeOK /\ VotedByQuorum => QuorumsMeet
  <2> SUFFICES ASSUME TypeOK, VotedByQuorum, NEW v \in votes, NEW w \in votes,
                      v.members = w.members, v.percent + w.percent > 100
               PROVE  v.voters \cap w.voters # {}
    BY DEF QuorumsMeet
  <2>1. v.members \subseteq Members /\ v.percent \in 1..100 /\ w.percent \in 1..100
    BY ConfigAssumption DEF TypeOK
  <2>2. IsFiniteSet(v.members)
    BY <2>1, MembersAssumption, FS_Subset
  <2>3. /\ v.voters \subseteq v.members /\ w.voters \subseteq v.members /\ v.voters # {}
        /\ Cardinality(v.voters) * 100 >= Cardinality(v.members) * v.percent
        /\ Cardinality(w.voters) * 100 >= Cardinality(v.members) * w.percent
    BY DEF VotedByQuorum
  <2> QED BY <2>1, <2>2, <2>3, Pigeonhole
<1> QED BY <1>1, TypeCorrect, Quorate, PTL

-----------------------------------------------------------------------------
(* Timeouts                                                                *)

(* The window in force is never below the shortest seen.                   *)
ShortestIsLow == \A a \in Actors : Exists(a) => shortest[a] <= window

TimeInv == RolledBackLate /\ ShortestIsLow

(* Every step keeps what is known of the windows.                          *)
LEMMA TimeStep == TypeOK /\ TimeInv /\ [Next]_vars => TimeInv'
<1> SUFFICES ASSUME TypeOK, TimeInv, [Next]_vars PROVE TimeInv'
  OBVIOUS
<1>1. /\ window \in Nat /\ clock \in Nat
      /\ \A a \in Actors : /\ shortest[a] \in Nat /\ actor[a].created \in Nat
                           /\ actor[a].state \in {"None"} \cup ActorStates
      /\ DOMAIN shortest = Actors /\ DOMAIN actor = Actors
  <2>1. Windows \subseteq Nat /\ MaxClock \in Nat
    BY ConfigAssumption
  <2>2. ASSUME NEW a \in Actors
        PROVE  /\ shortest[a] \in Nat /\ actor[a].created \in Nat
               /\ actor[a].state \in {"None"} \cup ActorStates
    <3>1. shortest[a] \in {0} \cup Windows
      BY DEF TypeOK
    <3>2. actor[a] \in [state : {"None"} \cup ActorStates, created : 0..MaxClock]
      BY DEF TypeOK
    <3>3. actor[a].created \in 0..MaxClock /\ actor[a].state \in {"None"} \cup ActorStates
      <4> DEFINE r == actor[a]
                 S == {"None"} \cup ActorStates
                 T == 0..MaxClock
      <4>1. r \in [state : S, created : T]
        BY <3>2
      <4> HIDE DEF r, S, T
      <4>2. r.created \in T /\ r.state \in S
        BY <4>1
      <4> QED BY <4>2 DEF r, S, T
    <3>4. shortest[a] \in Nat
      <4>1. shortest[a] = 0 \/ shortest[a] \in Windows
        BY <3>1
      <4>2. \A w \in Windows : w \in Nat
        BY <2>1
      <4> QED BY <4>1, <4>2
    <3> QED BY <2>1, <3>3, <3>4
  <2> QED BY <2>1, <2>2 DEF TypeOK
<1>2. CASE actor' = actor /\ UNCHANGED <<clock, window, shortest>>
  BY <1>2 DEF TimeInv, RolledBackLate, ShortestIsLow, Exists
<1>3. ASSUME NEW b \in Actors, New(b) PROVE TimeInv'
  BY <1>1, <1>3 DEF New, TypeOK, TimeInv, RolledBackLate, ShortestIsLow, Exists
<1>4. ASSUME NEW b \in Actors, actor' = Advanced(b), Exists(b), UNCHANGED <<clock, window, shortest>>
      PROVE  TimeInv'
  <2>1. \A a \in Actors : /\ actor'[a].created = actor[a].created
                          /\ actor'[a].state = "Rollback" => actor[a].state = "Rollback"
                          /\ actor'[a].state # "None" => actor[a].state # "None"
    BY <1>4, AdvancedType DEF Exists
  <2> QED BY <1>4, <2>1 DEF TimeInv, RolledBackLate, ShortestIsLow, Exists
<1>5. ASSUME NEW b \in Actors, EvaluateTimeout(b) PROVE TimeInv'
  BY <1>1, <1>5 DEF EvaluateTimeout, Expired, Free, TimeInv, RolledBackLate, ShortestIsLow, Exists, TypeOK
<1>6. ASSUME NEW w \in Windows, NEW p \in Percents, Reload(w, p) PROVE TimeInv'
  <2>1. w \in Nat
    BY ConfigAssumption
  <2> QED BY <1>1, <1>6, <2>1 DEF Reload, TimeInv, RolledBackLate, ShortestIsLow, Exists, ActorStates
<1>7. CASE Tick
  BY <1>1, <1>7 DEF Tick, TimeInv, RolledBackLate, ShortestIsLow, Exists
<1>8. ASSUME NEW b \in Actors, EndVote(b)
      PROVE  /\ actor' = actor \/ (actor' = Advanced(b) /\ Exists(b))
             /\ UNCHANGED <<clock, window, shortest>>
  BY <1>8 DEF EndVote, TypeOK
<1>9. ASSUME NEW b \in Actors, Process(b)
      PROVE  actor' = Advanced(b) /\ Exists(b) /\ UNCHANGED <<clock, window, shortest>>
  BY <1>9 DEF Process, Free
<1>10. \/ actor' = actor /\ UNCHANGED <<clock, window, shortest>>
       \/ \E b \in Actors : New(b) \/ Process(b) \/ EndVote(b) \/ EvaluateTimeout(b)
       \/ \E w \in Windows, p \in Percents : Reload(w, p)
       \/ Tick
  BY DEF Next, Emit, BeginVote, DropVote, SelectOrchestrators, Sign, Register, vars
<1> QED BY <1>2, <1>3, <1>4, <1>5, <1>6, <1>7, <1>8, <1>9, <1>10

(* No rollback before the shortest window of the actor's life has passed.  *)
THEOREM NoEarlyRollback == Spec => []RolledBackLate
<1>1. Init => TimeInv
  BY DEF Init, TimeInv, RolledBackLate, ShortestIsLow, Exists, NoActor
<1>2. TimeInv => RolledBackLate
  BY DEF TimeInv
<1> QED BY <1>1, <1>2, TimeStep, TypeCorrect, PTL DEF Spec
==============================================================================
