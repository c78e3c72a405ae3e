---------------------------- MODULE Storage_proofs ----------------------------
(***************************************************************************)
(* Proofs about what a node stores in lists: the hot transfer index        *)
(* (HotIndex), the chunks and branches of the trie builder (TrieBuilder)   *)
(* and the names of each DID (Names), which share what is known of         *)
(* retained lists (Lists).  For any accounts, transactions, syncs and      *)
(* limits of the index, any deltas, threads and branches of the trie, and  *)
(* any names, reputations and stakes.                                      *)
(***************************************************************************)
EXTENDS HotIndex, TrieBuilder, Names, Lists, FiniteSetTheorems, WellFoundedInduction, TLAPS

-----------------------------------------------------------------------------
(* Numbers and lists: what Retained gives                                  *)

(* A product grows with its factors.                                       *)
LEMMA MulMono ==
  ASSUME NEW a \in Nat, NEW b \in Nat, NEW c \in Nat, a <= b
  PROVE  a * c <= b * c /\ c * a <= c * b
OBVIOUS

(* A set of numbers that is not empty has a least one.                     *)
LEMMA LeastExists ==
  ASSUME NEW S, S \subseteq Nat, S # {}
  PROVE  \E m \in S : \A k \in S : m <= k
<1> DEFINE R == {p \in Nat \X Nat : p[1] < p[2]}
<1>1. IsWellFoundedOn(R, Nat)
  BY NatLessThanWellFounded DEF OpToRel
<1>2. PICK m \in S : \A y \in S : ~(<<y, m>> \in R)
  <2> HIDE DEF R
  <2> QED BY <1>1, WFMin
<1>3. \A y \in S : m <= y
  <2> TAKE y \in S
  <2>1. <<y, m>> \notin R /\ <<y, m>> \in Nat \X Nat
    BY <1>2
  <2>2. <<y, m>>[1] = y /\ <<y, m>>[2] = m
    OBVIOUS
  <2> QED BY <2>1, <2>2
<1> QED BY <1>3

IsRun(run, list, places, n) ==
  run = [i \in 0..n |-> IF i = 0 THEN <<>>
                        ELSE IF i \in places THEN Append(run[i - 1], list[i]) ELSE run[i - 1]]

(* The list retained up to each place exists.                              *)
LEMMA RunExists ==
  ASSUME NEW list, NEW places, NEW n \in Nat
  PROVE  \E run : IsRun(run, list, places, n)
<1> DEFINE S == {m \in Nat : ~\E run : IsRun(run, list, places, m)}
<1> SUFFICES ASSUME S # {} PROVE FALSE
  OBVIOUS
<1>1. PICK m \in S : \A k \in S : m <= k
  <2> HIDE DEF S
  <2> QED BY LeastExists DEF S
<1>2. CASE m = 0
  <2>1. IsRun([i \in 0..0 |-> <<>>], list, places, 0)
    BY DEF IsRun
  <2> QED BY <1>1, <1>2, <2>1
<1>3. CASE m # 0
  <2>1. m - 1 \in Nat /\ m - 1 \notin S
    BY <1>1, <1>3
  <2>2. PICK g : IsRun(g, list, places, m - 1)
    BY <2>1
  <2> DEFINE step(f, i) == IF i \in places THEN Append(f[i - 1], list[i]) ELSE f[i - 1]
             h == [i \in 0..m |-> IF i = m THEN step(g, m) ELSE g[i]]
  <2>3. \A i \in 0..m - 1 : g[i] = IF i = 0 THEN <<>> ELSE step(g, i)
    BY <2>2 DEF IsRun
  <2>4. \A i \in 0..m : h[i] = IF i = 0 THEN <<>> ELSE step(h, i)
    BY <2>1, <2>3, <1>3
  <2>5. h = [i \in 0..m |-> h[i]]
    OBVIOUS
  <2>6. IsRun(h, list, places, m)
    <3> HIDE DEF h
    <3> QED BY <2>4, <2>5 DEF IsRun
  <2> HIDE DEF h
  <2> QED BY <1>1, <2>6
<1> QED BY <1>2, <1>3

Upto(list, places) == CHOOSE run : IsRun(run, list, places, Len(list))

(* Retained goes through the list place by place.                          *)
LEMMA RetainedRun ==
  ASSUME NEW T, NEW list \in Seq(T), NEW places
  PROVE  \E run : /\ Retained(list, places) = run[Len(list)]
                  /\ run[0] = <<>>
                  /\ \A i \in 1..Len(list) :
                       run[i] = IF i \in places THEN Append(run[i - 1], list[i]) ELSE run[i - 1]
<1>1. PICK g : IsRun(g, list, places, Len(list))
  <2>1. Len(list) \in Nat
    OBVIOUS
  <2> QED BY <2>1, RunExists
<1>2. Retained(list, places) = Upto(list, places)[Len(list)]
  BY DEF Retained, IsRun, Upto
<1>3. IsRun(Upto(list, places), list, places, Len(list))
  BY <1>1 DEF Upto
<1> DEFINE r == Upto(list, places)
<1>4. r = [i \in 0..Len(list) |-> IF i = 0 THEN <<>>
                        ELSE IF i \in places THEN Append(r[i - 1], list[i]) ELSE r[i - 1]]
  BY <1>3 DEF IsRun
<1> HIDE DEF r
<1>5. ASSUME NEW i \in 0..Len(list)
      PROVE r[i] = IF i = 0 THEN <<>> ELSE IF i \in places THEN Append(r[i - 1], list[i]) ELSE r[i - 1]
  BY <1>4
<1>6. r[0] = <<>> /\ \A i \in 1..Len(list) :
                       r[i] = IF i \in places THEN Append(r[i - 1], list[i]) ELSE r[i - 1]
  <2>1. Len(list) \in Nat
    OBVIOUS
  <2>2. r[0] = <<>>
    <3>1. 0 \in 0..Len(list)
      BY <2>1
    <3> QED BY <1>5, <3>1
  <2>3. ASSUME NEW i \in 1..Len(list)
        PROVE  r[i] = IF i \in places THEN Append(r[i - 1], list[i]) ELSE r[i - 1]
    <3>1. i \in 0..Len(list) /\ i # 0
      BY <2>1
    <3> QED BY <1>5, <3>1
  <2> QED BY <2>2, <2>3
<1> QED BY <1>2, <1>6 DEF r

(* from lists the places below or at m in increasing order, and kept is    *)
(* what list holds there.                                                  *)
IsSelection(kept, from, list, places, m) ==
  /\ from \in [1..Len(kept) -> 1..m]
  /\ \A k \in 1..Len(kept) : from[k] \in places /\ kept[k] = list[from[k]]
  /\ \A k, l \in 1..Len(kept) : k < l => from[k] < from[l]
  /\ \A i \in 1..m : i \in places => \E k \in 1..Len(kept) : from[k] = i
  /\ Len(kept) <= m

(* Retained is a selection, in order, of all the retained places.          *)
LEMMA RetainedFrom ==
  ASSUME NEW T, NEW list \in Seq(T), NEW places
  PROVE  /\ Retained(list, places) \in Seq(T)
         /\ \E from : IsSelection(Retained(list, places), from, list, places, Len(list))
<1>1. PICK run : /\ Retained(list, places) = run[Len(list)]
                 /\ run[0] = <<>>
                 /\ \A i \in 1..Len(list) :
                      run[i] = IF i \in places THEN Append(run[i - 1], list[i]) ELSE run[i - 1]
  BY RetainedRun
<1> DEFINE Good(i) == run[i] \in Seq(T) /\ \E from : IsSelection(run[i], from, list, places, i)
           S == {i \in 0..Len(list) : ~Good(i)}
<1> SUFFICES ASSUME S # {} PROVE FALSE
  BY <1>1
<1>2. PICK m \in S : \A k \in S : m <= k
  <2>1. S \subseteq Nat
    OBVIOUS
  <2> HIDE DEF S
  <2> QED BY <2>1, LeastExists
<1>3. CASE m = 0
  <2>1. run[0] \in Seq(T) /\ Len(run[0]) = 0
    BY <1>1
  <2>2. IsSelection(run[0], <<>>, list, places, 0)
    BY <2>1 DEF IsSelection
  <2> QED BY <1>2, <1>3, <2>1, <2>2
<1>4. CASE m # 0
  <2>1. m \in 1..Len(list) /\ m - 1 \in 0..Len(list) /\ m \in Nat
    BY <1>2, <1>4
  <2>2. Good(m - 1)
    <3>1. m - 1 \notin S /\ Len(list) \in Nat
      <4> HIDE DEF S
      <4>1. m \in Nat /\ ~ (m <= m - 1)
        BY <2>1
      <4> QED BY <1>2, <2>1, <4>1
    <3> QED BY <2>1, <3>1
  <2>3. PICK from : IsSelection(run[m - 1], from, list, places, m - 1)
    BY <2>2
  <2>4. list[m] \in T
    BY <2>1
  <2> DEFINE q == run[m - 1]
  <2>5. q \in Seq(T)
    BY <2>2
  <2>6. CASE m \notin places
    <3>1. run[m] = q
      BY <1>1, <2>1, <2>6
    <3>2. IsSelection(q, from, list, places, m)
      BY <2>1, <2>3, <2>5, <2>6 DEF IsSelection
    <3> QED BY <1>2, <2>5, <3>1, <3>2
  <2>7. CASE m \in places
    <3> DEFINE p == Append(q, list[m])
               f == [k \in 1..Len(q) + 1 |-> IF k = Len(q) + 1 THEN m ELSE from[k]]
    <3>1. run[m] = p
      BY <1>1, <2>1, <2>7
    <3>2. /\ p \in Seq(T) /\ Len(p) = Len(q) + 1 /\ Len(q) \in Nat
          /\ p[Len(q) + 1] = list[m]
          /\ \A k \in 1..Len(q) : p[k] = q[k]
      <4> HIDE DEF q
      <4> QED BY <2>4, <2>5
    <3> HIDE DEF p, q
    <3>3. /\ from \in [1..Len(q) -> 1..m - 1]
          /\ \A k \in 1..Len(q) : from[k] \in places /\ q[k] = list[from[k]]
          /\ \A k, l \in 1..Len(q) : k < l => from[k] < from[l]
          /\ \A i \in 1..m - 1 : i \in places => \E k \in 1..Len(q) : from[k] = i
          /\ Len(q) <= m - 1
      BY <2>3 DEF IsSelection, q
    <3>4. f \in [1..Len(p) -> 1..m]
      BY <3>2, <3>3, <2>1
    <3>5. \A k \in 1..Len(p) : f[k] \in places /\ p[k] = list[f[k]]
      BY <3>2, <3>3, <2>7
    <3>6. \A k, l \in 1..Len(p) : k < l => f[k] < f[l]
      <4> SUFFICES ASSUME NEW k \in 1..Len(p), NEW l \in 1..Len(p), k < l
                   PROVE  f[k] < f[l]
        OBVIOUS
      <4>1. k \in 1..Len(q) /\ f[k] = from[k] /\ from[k] \in 1..m - 1
        BY <3>2, <3>3
      <4>2. CASE l = Len(q) + 1
        <5>1. f[l] = m
          BY <3>2, <4>2
        <5> HIDE DEF f
        <5> QED BY <2>1, <4>1, <5>1
      <4>3. CASE l # Len(q) + 1
        <5>1. l \in 1..Len(q) /\ f[l] = from[l]
          BY <3>2, <4>3
        <5> QED BY <3>3, <4>1, <5>1
      <4> QED BY <4>2, <4>3
    <3>7. \A i \in 1..m : i \in places => \E k \in 1..Len(p) : f[k] = i
      <4> SUFFICES ASSUME NEW i \in 1..m, i \in places
                   PROVE  \E k \in 1..Len(p) : f[k] = i
        OBVIOUS
      <4>1. CASE i = m
        BY <3>2, <4>1
      <4>2. CASE i # m
        <5>1. PICK k \in 1..Len(q) : from[k] = i
          BY <3>3, <4>2, <2>1
        <5> QED BY <3>2, <5>1
      <4> QED BY <4>1, <4>2
    <3>8. Len(p) <= m
      BY <3>2, <3>3, <2>1
    <3> HIDE DEF f
    <3>9. IsSelection(p, f, list, places, m)
      BY <3>4, <3>5, <3>6, <3>7, <3>8 DEF IsSelection
    <3> QED BY <1>2, <3>1, <3>2, <3>9
  <2> QED BY <2>6, <2>7
<1> QED BY <1>2, <1>3, <1>4

-----------------------------------------------------------------------------
(* The hot transfer index                                                  *)

Has(block, t) == \E k \in DOMAIN block : block[k] = t
In(t, n) == Has(chain[n], t)

(* A transaction is mined once.                                            *)
OneBlock == \A t \in Txs : \A n, m \in DOMAIN chain : In(t, n) /\ In(t, m) => n = m

(* What a sync has still to scan is of the block it fetched.               *)
TodoOfBlock ==
  \A s \in Syncs : \A j \in DOMAIN sync[s].todo :
    sync[s].pc = "scan" /\ In(sync[s].todo[j], sync[s].num)

(* A guessed block is at most the next one to be mined.                    *)
GuessesAhead ==
  \A t \in Proxied :
    /\ send[t].pc = "guessed" => send[t].number \in 1..Len(chain) + 1
    /\ send[t].pc \in {"guessed", "indexed"} => Data[t].to \in named

(* A record is in a list of a party.  Until its block is known, its number *)
(* is at most that of the block, unless it was guessed too late; once it   *)
(* is, the number is the one of the block, with the same exception.        *)
RecordTrue(blocks, a, r, tooLate) ==
  /\ a \in Parties(r.tx)
  /\ r.number <= Len(blocks) + 1
  /\ r.hash = NoHash =>
       tooLate \/ \A n \in DOMAIN blocks : Has(blocks[n], r.tx) => r.number <= n
  /\ r.hash # NoHash => /\ r.hash \in DOMAIN blocks /\ Has(blocks[r.hash], r.tx)
                        /\ tooLate \/ r.number = r.hash

RecordsTrue ==
  \A a \in Addrs : \A i \in DOMAIN history[a] :
    RecordTrue(chain, a, history[a][i], history[a][i].tx \in late)

DistinctIn(list) == \A i, j \in DOMAIN list : list[i].tx = list[j].tx => i = j
Distinct == \A a \in Addrs : DistinctIn(history[a])

(* The records of a transaction that no list lost are the same everywhere. *)
Agree ==
  \A t \in Txs :
    (\A a \in Parties(t) : <<a, t>> \notin dropped) =>
      \A a \in Addrs : \A i \in DOMAIN history[a] :
        history[a][i].tx = t =>
          \A b \in Parties(t) :
            /\ Holds(history[b], t)
            /\ \A j \in DOMAIN history[b] : history[b][j].tx = t => history[b][j] = history[a][i]

(* The transactions that block n need no longer be scanned for, and the    *)
(* blocks that need not be scanned.                                        *)
Settled == {p \in Txs \X Nat : Data[p[1]].kind = "zero" \/ Scanned(p[1], p[2])}
Done == {n \in Nat : n \in skipped \/ \A t \in Txs : In(t, n) => <<t, n>> \in Settled}
Waiting(todo, t) == \E j \in DOMAIN todo : todo[j] = t

(* Behind block_number, and behind each sync, all is done; in the block a  *)
(* sync scans, all but what it has still to do.                            *)
Progress ==
  /\ 1..scanned \subseteq Done
  /\ \A s \in Syncs :
       /\ sync[s].pc \in {"fetch", "scan"} => 1..sync[s].num - 1 \subseteq Done
       /\ sync[s].pc = "scan" =>
            \/ sync[s].num \in skipped
            \/ \A t \in Txs : In(t, sync[s].num) =>
                 Waiting(sync[s].todo, t) \/ <<t, sync[s].num>> \in Settled

Answered ==
  \A t \in Proxied : send[t].pc = "indexed" =>
    \A a \in Parties(t) : Holds(history[a], t) \/ <<a, t>> \in dropped

HotInv ==
  /\ TypeOK /\ OneBlock /\ TodoOfBlock /\ GuessesAhead /\ RecordsTrue
  /\ Distinct /\ Agree /\ Progress /\ Answered

-----------------------------------------------------------------------------
(* Adding a record                                                         *)

HoldsFresh(list, t) == \E i \in DOMAIN list : Fresh(list[i]) /\ list[i].tx = t

(* The new list holds one record of the transaction: the one that was      *)
(* there merged with r if it was not too old, otherwise r.                 *)
Added(list, new, r) ==
  /\ DistinctIn(new)
  /\ \A i \in DOMAIN new : new[i].tx # r.tx => \E j \in DOMAIN list : list[j] = new[i]
  /\ Holds(new, r.tx)
  /\ HoldsFresh(list, r.tx) =>
       \A i \in DOMAIN new : new[i].tx = r.tx =>
         \E j \in DOMAIN list : Fresh(list[j]) /\ list[j].tx = r.tx /\ new[i] = Merge(list[j], r)
  /\ ~HoldsFresh(list, r.tx) => \A i \in DOMAIN new : new[i].tx = r.tx => new[i] = r

(* The parties of a transaction are addresses.                             *)
LEMMA PartiesType ==
  ASSUME NEW t \in Txs
  PROVE  Parties(t) \subseteq Addrs /\ Data[t].to \in Addrs
BY DataAssumption DEF Parties

(* Fields a merge leaves alone, and those it may write.                    *)
LEMMA MergeFields ==
  ASSUME NEW o \in Record, NEW r \in Record
  PROVE  /\ Merge(o, r) \in Record
         /\ Merge(o, r).tx = o.tx
         /\ Merge(o, r).born = o.born
         /\ Merge(o, r).hash = IF o.hash = NoHash THEN r.hash ELSE o.hash
         /\ Merge(o, r).number = IF o.number = 1 \/ r.number # 1 THEN r.number ELSE o.number
BY DEF Merge, Record

(* Merging a record again changes nothing.                                 *)
LEMMA MergeTwice ==
  ASSUME NEW o \in Record, NEW r \in Record, o.tx = r.tx
  PROVE  Merge(Merge(o, r), r) = Merge(o, r) /\ Merge(r, r) = r
BY DEF Merge, Record

(* The retained records are fresh ones of the list, each once, and all.    *)
LEMMA KeptFacts ==
  ASSUME NEW list \in Seq(Record)
  PROVE  /\ Kept(list) \in Seq(Record)
         /\ Len(Kept(list)) <= Len(list)
         /\ \A i \in DOMAIN Kept(list) :
              \E j \in DOMAIN list : Fresh(list[j]) /\ Kept(list)[i] = list[j]
         /\ DistinctIn(list) => DistinctIn(Kept(list))
         /\ \A j \in DOMAIN list : Fresh(list[j]) => \E i \in DOMAIN Kept(list) : Kept(list)[i] = list[j]
<1> DEFINE places == {i \in DOMAIN list : Fresh(list[i])}
           kept == Kept(list)
<1>1. DOMAIN list = 1..Len(list) /\ Len(list) \in Nat
  OBVIOUS
<1>2. \A i : i \in places <=> i \in 1..Len(list) /\ Fresh(list[i])
  BY <1>1
<1>3. kept = Retained(list, places)
  BY DEF Kept
<1> HIDE DEF places, kept
<1>4. kept \in Seq(Record) /\ \E from : IsSelection(kept, from, list, places, Len(list))
  BY <1>3, RetainedFrom
<1>5. PICK from : IsSelection(kept, from, list, places, Len(list))
  BY <1>4
<1>6. DOMAIN kept = 1..Len(kept) /\ Len(kept) \in Nat
  BY <1>4
<1>7. \A i \in DOMAIN kept : from[i] \in DOMAIN list /\ Fresh(list[from[i]]) /\ kept[i] = list[from[i]]
  BY <1>1, <1>2, <1>5, <1>6 DEF IsSelection
<1>8. ASSUME DistinctIn(list) PROVE DistinctIn(kept)
  <2> SUFFICES ASSUME NEW i \in DOMAIN kept, NEW j \in DOMAIN kept, kept[i].tx = kept[j].tx, i # j
               PROVE  FALSE
    BY DEF DistinctIn
  <2>1. from[i] = from[j]
    BY <1>7, <1>8 DEF DistinctIn
  <2>2. from[i] \in Nat /\ (i < j \/ j < i)
    BY <1>1, <1>6, <1>7
  <2> QED BY <1>5, <1>6, <2>1, <2>2 DEF IsSelection
<1>9. \A j \in DOMAIN list : Fresh(list[j]) => \E i \in DOMAIN kept : kept[i] = list[j]
  BY <1>1, <1>2, <1>5, <1>6, <1>7 DEF IsSelection
<1>10. Len(kept) <= Len(list)
  BY <1>5 DEF IsSelection
<1> QED BY <1>4, <1>7, <1>8, <1>9, <1>10 DEF kept

(* The drain takes from the front, and nothing from a list that fits.      *)
LEMMA CappedFacts ==
  ASSUME NEW list \in Seq(Record)
  PROVE  /\ Capped(list) \in Seq(Record)
         /\ Len(Capped(list)) <= MaxPerAddr
         /\ Len(list) <= MaxPerAddr => Capped(list) = list
         /\ \A i \in DOMAIN Capped(list) : \E j \in DOMAIN list : Capped(list)[i] = list[j]
         /\ DistinctIn(list) => DistinctIn(Capped(list))
         /\ list # <<>> => \E i \in DOMAIN Capped(list) : Capped(list)[i] = list[Len(list)]
<1> DEFINE n == Len(list)
           d == IF n > MaxPerAddr THEN n - MaxPerAddr ELSE 0
           c == Capped(list)
<1>1. n \in Nat /\ MaxPerAddr \in Nat /\ MaxPerAddr > 0 /\ d \in 0..n
  BY BoundsAssumption
<1>2. c = SubSeq(list, d + 1, n)
  BY <1>1 DEF Capped
<1>3. n - d <= MaxPerAddr /\ n - d \in Nat /\ (n # 0 => n - d >= 1) /\ (n <= MaxPerAddr => d = 0)
  BY <1>1
<1> HIDE DEF d
<1>4. /\ c \in Seq(Record)
      /\ Len(c) = n - d
      /\ DOMAIN c = 1..n - d
      /\ \A i \in 1..n - d : c[i] = list[i + d]
  BY <1>1, <1>2, <1>3
<1>5. \A i \in 1..n - d : i + d \in DOMAIN list
  BY <1>1
<1> HIDE DEF c
<1>6. n <= MaxPerAddr => c = list
  BY <1>1, <1>3, <1>4
<1>7. ASSUME DistinctIn(list) PROVE DistinctIn(c)
  <2> SUFFICES ASSUME NEW i \in 1..n - d, NEW j \in 1..n - d, c[i].tx = c[j].tx
               PROVE  i = j
    BY <1>4 DEF DistinctIn
  <2>1. i + d = j + d
    BY <1>4, <1>5, <1>7 DEF DistinctIn
  <2> QED BY <1>1, <2>1
<1>8. ASSUME list # <<>> PROVE \E i \in DOMAIN c : c[i] = list[n]
  <2>1. n # 0
    BY <1>8
  <2>2. n - d \in 1..n - d /\ (n - d) + d = n
    BY <1>1, <1>3, <2>1
  <2> QED BY <1>4, <2>2
<1> QED BY <1>3, <1>4, <1>5, <1>6, <1>7, <1>8 DEF c

(* The two outcomes of a lookup among the retained records.                *)
LEMMA AddToFacts ==
  ASSUME NEW list \in Seq(Record), DistinctIn(list), Len(list) <= MaxPerAddr, NEW r \in Record
  PROVE  /\ AddTo(list, r) \in Seq(Record)
         /\ Len(AddTo(list, r)) <= MaxPerAddr
         /\ Added(list, AddTo(list, r), r)
<1> DEFINE kept == Kept(list)
           merged == [i \in DOMAIN kept |-> IF kept[i].tx = r.tx THEN Merge(kept[i], r) ELSE kept[i]]
           new == AddTo(list, r)
<1>1. /\ kept \in Seq(Record) /\ Len(kept) <= Len(list)
      /\ \A i \in DOMAIN kept : \E j \in DOMAIN list : Fresh(list[j]) /\ kept[i] = list[j]
      /\ DistinctIn(kept)
      /\ \A j \in DOMAIN list : Fresh(list[j]) => \E i \in DOMAIN kept : kept[i] = list[j]
  BY KeptFacts
<1>2. Holds(kept, r.tx) <=> HoldsFresh(list, r.tx)
  BY <1>1 DEF Holds, HoldsFresh
<1>3. new = IF Holds(kept, r.tx) THEN Capped(merged) ELSE Capped(Append(kept, r))
  BY DEF AddTo, Holds
<1> HIDE DEF kept, new
<1>4. /\ DOMAIN kept = 1..Len(kept) /\ Len(kept) \in Nat /\ MaxPerAddr \in Nat
      /\ Len(list) \in Nat
      /\ \A i \in 1..Len(kept) : kept[i] \in Record
  BY <1>1, BoundsAssumption
<1>5. CASE Holds(kept, r.tx)
  <2>1. \A i \in 1..Len(kept) : merged[i] \in Record /\ merged[i].tx = kept[i].tx
    BY <1>4, MergeFields
  <2>2. merged \in Seq(Record) /\ Len(merged) = Len(kept) /\ DOMAIN merged = 1..Len(kept)
    BY <1>4, <2>1
  <2>3. Len(merged) <= MaxPerAddr
    BY <1>1, <1>4, <2>2
  <2>4. \A i \in 1..Len(kept) : merged[i] = IF kept[i].tx = r.tx THEN Merge(kept[i], r) ELSE kept[i]
    BY <1>4
  <2> HIDE DEF merged
  <2>5. new = merged
    BY <1>3, <1>5, <2>2, <2>3, CappedFacts
  <2>6. DistinctIn(merged)
    BY <1>1, <1>4, <2>1, <2>2 DEF DistinctIn
  <2>7. \A i \in DOMAIN merged : merged[i].tx # r.tx => \E j \in DOMAIN list : list[j] = merged[i]
    BY <1>1, <1>4, <2>1, <2>2, <2>4
  <2>8. Holds(merged, r.tx)
    BY <1>4, <1>5, <2>1, <2>2 DEF Holds
  <2>9. \A i \in DOMAIN merged : merged[i].tx = r.tx =>
          \E j \in DOMAIN list : Fresh(list[j]) /\ list[j].tx = r.tx /\ merged[i] = Merge(list[j], r)
    <3> SUFFICES ASSUME NEW i \in 1..Len(kept), merged[i].tx = r.tx
                 PROVE  \E j \in DOMAIN list : Fresh(list[j]) /\ list[j].tx = r.tx /\ merged[i] = Merge(list[j], r)
      BY <2>2
    <3>1. PICK j \in DOMAIN list : Fresh(list[j]) /\ kept[i] = list[j]
      BY <1>1, <1>4
    <3> QED BY <2>1, <2>4, <3>1
  <2> QED BY <1>2, <1>5, <2>2, <2>3, <2>5, <2>6, <2>7, <2>8, <2>9 DEF Added, new
<1>6. CASE ~Holds(kept, r.tx)
  <2> DEFINE p == Append(kept, r)
             c == Capped(p)
  <2>1. /\ p \in Seq(Record) /\ Len(p) = Len(kept) + 1 /\ DOMAIN p = 1..Len(kept) + 1
        /\ p[Len(kept) + 1] = r
        /\ \A i \in 1..Len(kept) : p[i] = kept[i]
        /\ p # <<>>
    <3>1. kept \in Seq(Record)
      BY <1>1
    <3> HIDE DEF merged
    <3> QED BY <3>1
  <2> HIDE DEF p
  <2>2. /\ c \in Seq(Record)
        /\ Len(c) <= MaxPerAddr
        /\ \A i \in DOMAIN c : \E j \in DOMAIN p : c[i] = p[j]
        /\ DistinctIn(p) => DistinctIn(c)
        /\ \E i \in DOMAIN c : c[i] = p[Len(p)]
    BY <2>1, CappedFacts
  <2>3. new = c
    BY <1>3, <1>6 DEF p
  <2>4. \A i \in 1..Len(kept) : kept[i].tx # r.tx
    BY <1>4, <1>6 DEF Holds
  <2>5. \A i \in DOMAIN p : i \in 1..Len(kept) \/ i = Len(kept) + 1
    BY <1>4, <2>1
  <2>6. DistinctIn(p)
    BY <1>1, <1>4, <2>1, <2>4, <2>5 DEF DistinctIn
  <2> HIDE DEF c
  <2>7. \A i \in DOMAIN c : c[i] = r \/ (c[i].tx # r.tx /\ \E j \in DOMAIN list : list[j] = c[i])
    BY <1>1, <1>4, <2>1, <2>2, <2>4, <2>5
  <2>8. Holds(c, r.tx)
    BY <2>1, <2>2 DEF Holds
  <2> QED BY <1>2, <1>6, <2>2, <2>3, <2>6, <2>7, <2>8 DEF Added, new
<1> QED BY <1>5, <1>6

(* A transfer to oneself enters the same list twice.                       *)
LEMMA AddedTwice ==
  ASSUME NEW list \in Seq(Record), NEW once \in Seq(Record), NEW twice \in Seq(Record),
         NEW r \in Record, Added(list, once, r), Added(once, twice, r)
  PROVE  Added(list, twice, r)
<1>1. \A i \in DOMAIN twice : twice[i].tx # r.tx => \E j \in DOMAIN list : list[j] = twice[i]
  BY DEF Added
<1>2. \A j \in DOMAIN list : list[j] \in Record
  OBVIOUS
<1>3. ASSUME HoldsFresh(list, r.tx), NEW i \in DOMAIN twice, twice[i].tx = r.tx
      PROVE  \E j \in DOMAIN list : Fresh(list[j]) /\ list[j].tx = r.tx /\ twice[i] = Merge(list[j], r)
  <2>1. PICK k \in DOMAIN once : once[k].tx = r.tx
    BY DEF Added, Holds
  <2>2. PICK j \in DOMAIN list : Fresh(list[j]) /\ list[j].tx = r.tx /\ once[k] = Merge(list[j], r)
    BY <1>3, <2>1 DEF Added
  <2>3. Fresh(once[k])
    BY <1>2, <2>2, MergeFields DEF Fresh
  <2>4. PICK l \in DOMAIN once : Fresh(once[l]) /\ once[l].tx = r.tx /\ twice[i] = Merge(once[l], r)
    BY <1>3, <2>1, <2>3 DEF Added, HoldsFresh
  <2>5. once[l] = once[k]
    BY <2>1, <2>4 DEF Added, DistinctIn
  <2> QED BY <1>2, <2>2, <2>4, <2>5, MergeTwice
<1>4. ASSUME ~HoldsFresh(list, r.tx), NEW i \in DOMAIN twice, twice[i].tx = r.tx
      PROVE  twice[i] = r
  <2>1. \A k \in DOMAIN once : once[k].tx = r.tx => once[k] = r
    BY <1>4 DEF Added
  <2>2. Merge(r, r) = r
    BY MergeTwice
  <2> QED BY <1>4, <2>1, <2>2 DEF Added
<1> QED BY <1>1, <1>3, <1>4 DEF Added

(* What the lists are once r was added to those of both parties, and which *)
(* records went missing.                                                   *)
LEMMA AddFacts ==
  ASSUME TypeOK, Distinct, NEW r \in Record, Add(r)
  PROVE  /\ history' \in [Addrs -> Seq(Record)]
         /\ \A a \in Addrs : Len(history'[a]) <= MaxPerAddr
         /\ \A a \in Parties(r.tx) : Added(history[a], history'[a], r)
         /\ \A a \in Addrs : a \notin Parties(r.tx) => history'[a] = history[a]
         /\ \A a \in Addrs : \A t \in Txs : Holds(history[a], t) =>
              Holds(history'[a], t) \/ <<a, t>> \in dropped'
         /\ \A a \in Parties(r.tx) : \A t \in Txs : Holds(history[a], t) =>
              HoldsFresh(history[a], t) \/ <<a, t>> \in dropped'
         /\ dropped \subseteq dropped'
         /\ dropped' \subseteq Addrs \X Txs
<1> DEFINE f == Data[r.tx].from
           g == Data[r.tx].to
<1>1. r.tx \in Txs /\ f \in Addrs /\ g \in Addrs /\ Parties(r.tx) = {f, g}
  BY DataAssumption DEF Record, Parties
<1>2. \A a \in Addrs : history[a] \in Seq(Record) /\ DistinctIn(history[a]) /\ Len(history[a]) <= MaxPerAddr
  BY DEF TypeOK, Distinct
<1>3. history' = [[history EXCEPT ![f] = AddTo(history[f], r)] EXCEPT ![g] = AddTo(@, r)]
  BY DEF Add
<1>4. DOMAIN history = Addrs
  BY DEF TypeOK
<1> DEFINE one(a) == AddTo(history[a], r)
<1> HIDE DEF f, g
<1>5. \A a \in Addrs : one(a) \in Seq(Record) /\ Len(one(a)) <= MaxPerAddr /\ Added(history[a], one(a), r)
  BY <1>2, AddToFacts
<1>6. AddTo(one(f), r) \in Seq(Record) /\ Len(AddTo(one(f), r)) <= MaxPerAddr
      /\ Added(one(f), AddTo(one(f), r), r)
  <2>1. DistinctIn(one(f))
    BY <1>1, <1>5 DEF Added
  <2> QED BY <1>1, <1>5, <2>1, AddToFacts
<1>7. Added(history[f], AddTo(one(f), r), r)
  BY <1>1, <1>2, <1>5, <1>6, AddedTwice
<1>8. /\ DOMAIN history' = Addrs
      /\ f = g => history'[f] = AddTo(one(f), r)
      /\ f # g => history'[f] = one(f) /\ history'[g] = one(g)
      /\ \A a \in Addrs : a \notin {f, g} => history'[a] = history[a]
  BY <1>1, <1>3, <1>4
<1> HIDE DEF one
<1>9. ASSUME NEW a \in Addrs
      PROVE  /\ history'[a] \in Seq(Record) /\ Len(history'[a]) <= MaxPerAddr
             /\ a \in Parties(r.tx) => Added(history[a], history'[a], r)
  BY <1>1, <1>2, <1>5, <1>6, <1>7, <1>8
<1>10. history' \in [Addrs -> Seq(Record)]
  <2>1. history' = [a \in Addrs |-> history'[a]]
    BY <1>3, <1>8
  <2> QED BY <1>9, <2>1
<1>11. Lost(r) \subseteq Addrs \X Txs
  BY <1>1 DEF Lost
<1>12. dropped' = dropped \cup Lost(r)
  BY DEF Add
<1>13. ASSUME NEW a \in Parties(r.tx), NEW t \in Txs, Holds(history[a], t),
              ~Holds(history'[a], t) \/ ~HoldsFresh(history[a], t)
       PROVE  <<a, t>> \in dropped'
  <2>1. a \in Addrs
    BY <1>1
  <2>2. Holds(Kept(history[a]), t) => HoldsFresh(history[a], t)
    BY <1>2, <2>1, KeptFacts DEF Holds, HoldsFresh
  <2>3. <<a, t>> \in Parties(r.tx) \X Txs /\ <<a, t>>[1] = a /\ <<a, t>>[2] = t
    OBVIOUS
  <2>4. <<a, t>> \in Lost(r)
    BY <1>13, <2>2, <2>3 DEF Lost
  <2> QED BY <1>12, <2>4
<1>14. ASSUME NEW a \in Addrs, NEW t \in Txs, Holds(history[a], t)
       PROVE  Holds(history'[a], t) \/ <<a, t>> \in dropped'
  BY <1>1, <1>8, <1>13, <1>14
<1>15. dropped' \subseteq Addrs \X Txs
  BY <1>11, <1>12 DEF TypeOK
<1> QED BY <1>1, <1>8, <1>9, <1>10, <1>12, <1>13, <1>14, <1>15

-----------------------------------------------------------------------------
(* A record that may be added                                              *)

(* A record of a sync is of the block it names; one made from the raw form *)
(* names none, and its transaction is not mined yet or known to be late.   *)
Sound(r, tooLate) ==
  /\ r.number <= Len(chain) + 1
  /\ r.hash = NoHash => tooLate \/ ~Mined(r.tx)
  /\ r.hash # NoHash => r.hash \in DOMAIN chain /\ In(r.tx, r.hash) /\ r.number = r.hash

(* A mined transaction is in some block.                                   *)
LEMMA MinedIn == \A t : Mined(t) <=> \E n \in DOMAIN chain : In(t, n)
BY DEF Mined, In, Has

(* Merging a sound record into a true one gives a true one: number 1 gives *)
(* way to a guess only where the guess was too late.                       *)
LEMMA MergeTrue ==
  ASSUME OneBlock, NEW a \in Addrs, NEW o \in Record, NEW r \in Record, o.tx = r.tx,
         NEW before \in BOOLEAN, NEW after \in BOOLEAN, before => after, Len(chain) \in Nat,
         DOMAIN chain = 1..Len(chain),
         RecordTrue(chain, a, o, before), Sound(r, after)
  PROVE  RecordTrue(chain, a, Merge(o, r), after)
<1> DEFINE m == Merge(o, r)
<1>1. /\ m.tx = o.tx
      /\ m.hash = IF o.hash = NoHash THEN r.hash ELSE o.hash
      /\ m.number = IF o.number = 1 \/ r.number # 1 THEN r.number ELSE o.number
  BY MergeFields
<1> HIDE DEF m
<1>2. /\ o.tx \in Txs /\ o.number \in Nat /\ o.number >= 1 /\ r.number \in Nat
      /\ (o.hash = NoHash \/ o.hash \in Nat) /\ (r.hash = NoHash \/ r.hash \in Nat)
  BY BoundsAssumption DEF Record
<1>3. m.number <= Len(chain) + 1 /\ a \in Parties(m.tx)
  BY <1>1, <1>2 DEF RecordTrue, In, Sound
<1>4. CASE o.hash = NoHash /\ r.hash = NoHash
  <2>1. after \/ \A n \in DOMAIN chain : ~In(m.tx, n)
    BY <1>1, <1>4, MinedIn DEF Sound, In
  <2> QED BY <1>1, <1>3, <1>4, <2>1 DEF RecordTrue, In, m
<1>5. CASE o.hash = NoHash /\ r.hash # NoHash
  <2>1. r.hash \in DOMAIN chain /\ In(o.tx, r.hash) /\ r.number = r.hash
    BY <1>5 DEF Sound, In
  <2>2. after \/ o.number <= r.number
    BY <1>5, <2>1 DEF RecordTrue, In
  <2>3. after \/ m.number = r.hash
    BY <1>1, <1>2, <2>1, <2>2
  <2> QED BY <1>1, <1>3, <1>5, <2>1, <2>3 DEF RecordTrue, In, m
<1>6. CASE o.hash # NoHash /\ r.hash = NoHash
  <2>1. o.hash \in DOMAIN chain /\ In(o.tx, o.hash)
    BY <1>6 DEF RecordTrue, In
  <2>2. after
    BY <1>6, <2>1, MinedIn DEF Sound, In
  <2> QED BY <1>1, <1>3, <1>6, <2>1, <2>2 DEF RecordTrue, In, m
<1>7. CASE o.hash # NoHash /\ r.hash # NoHash
  <2>1. o.hash \in DOMAIN chain /\ In(o.tx, o.hash) /\ (after \/ o.number = o.hash)
    BY <1>7 DEF RecordTrue, In
  <2>2. r.hash \in DOMAIN chain /\ In(o.tx, r.hash) /\ r.number = r.hash
    BY <1>7 DEF Sound, In
  <2>3. r.hash = o.hash
    BY <1>2, <2>1, <2>2 DEF OneBlock
  <2>4. after \/ m.number = m.hash
    BY <1>1, <1>7, <2>1, <2>2, <2>3
  <2> QED BY <1>1, <1>3, <1>7, <2>1, <2>4 DEF RecordTrue, In, m
<1> QED BY <1>4, <1>5, <1>6, <1>7

(* The block a record names is not forgotten.                              *)
LEMMA ScannedKept ==
  ASSUME TypeOK, Distinct, NEW r \in Record, Add(r),
         NEW t \in Txs, NEW n \in Nat, Scanned(t, n)
  PROVE  Scanned(t, n)'
<1> SUFFICES ASSUME NEW a \in Parties(t), <<a, t>> \notin dropped'
             PROVE  \E i \in DOMAIN history'[a] : history'[a][i].tx = t /\ history'[a][i].hash = n
  BY DEF Scanned, Parties
<1>1. a \in Addrs /\ n # NoHash
  BY DataAssumption, HashAssumption DEF Parties
<1>2. <<a, t>> \notin dropped
  BY AddFacts
<1>3. PICK j \in DOMAIN history[a] : history[a][j].tx = t /\ history[a][j].hash = n
  BY <1>2 DEF Scanned
<1>4. history[a] \in Seq(Record) /\ DistinctIn(history[a])
  BY <1>1 DEF TypeOK, Distinct
<1>5. CASE a \notin Parties(r.tx)
  BY <1>1, <1>3, <1>5, AddFacts
<1>6. CASE a \in Parties(r.tx)
  <2>1. /\ Added(history[a], history'[a], r)
        /\ Holds(history'[a], t) /\ HoldsFresh(history[a], t)
    <3>1. Holds(history[a], t)
      BY <1>3 DEF Holds
    <3> QED BY <1>1, <1>6, <3>1, AddFacts
  <2>2. PICK i \in DOMAIN history'[a] : history'[a][i].tx = t
    BY <2>1 DEF Holds
  <2>3. CASE t # r.tx
    <3>1. PICK k \in DOMAIN history[a] : history[a][k] = history'[a][i]
      BY <2>1, <2>2, <2>3 DEF Added
    <3>2. k = j
      BY <1>3, <1>4, <2>2, <3>1 DEF DistinctIn
    <3> QED BY <1>3, <2>2, <3>1, <3>2
  <2>4. CASE t = r.tx
    <3>1. PICK k \in DOMAIN history[a] : history[a][k].tx = r.tx /\ history'[a][i] = Merge(history[a][k], r)
      BY <2>1, <2>2, <2>4 DEF Added
    <3>2. k = j
      BY <1>3, <1>4, <2>4, <3>1 DEF DistinctIn
    <3>3. history'[a][i].hash = n
      BY <1>1, <1>3, <1>4, <3>1, <3>2, MergeFields
    <3> QED BY <2>2, <3>3
  <2> QED BY <2>3, <2>4
<1> QED BY <1>5, <1>6

(* Adding a record makes no second one of its transaction.                 *)
LEMMA AddDistinct ==
  ASSUME TypeOK, Distinct, NEW r \in Record, Add(r)
  PROVE  Distinct'
<1> SUFFICES ASSUME NEW a \in Addrs PROVE DistinctIn(history'[a])
  BY DEF Distinct
<1>1. CASE a \in Parties(r.tx)
  BY <1>1, AddFacts DEF Added
<1>2. CASE a \notin Parties(r.tx)
  BY <1>2, AddFacts DEF Distinct
<1> QED BY <1>1, <1>2

(* Adding a sound record keeps the records true.                           *)
LEMMA AddTrue ==
  ASSUME TypeOK, Distinct, OneBlock, RecordsTrue, NEW r \in Record, Add(r),
         chain' = chain, late \subseteq late', Sound(r, r.tx \in late')
  PROVE  RecordsTrue'
<1>1. Len(chain) \in Nat /\ DOMAIN chain = 1..Len(chain)
  BY DEF TypeOK
<1>2. ASSUME NEW a \in Addrs, NEW i \in DOMAIN history'[a]
      PROVE  RecordTrue(chain, a, history'[a][i], history'[a][i].tx \in late')
  <2> DEFINE q == history'[a][i]
  <2>1. history[a] \in Seq(Record) /\ \A j \in DOMAIN history[a] : history[a][j] \in Record
    BY DEF TypeOK
  <2>2. ASSUME NEW j \in DOMAIN history[a], q = history[a][j]
        PROVE  RecordTrue(chain, a, q, q.tx \in late')
    <3>1. RecordTrue(chain, a, q, q.tx \in late)
      BY <2>2 DEF RecordsTrue
    <3> QED BY <3>1 DEF RecordTrue
  <2>3. CASE a \notin Parties(r.tx)
    <3>1. i \in DOMAIN history[a] /\ q = history[a][i]
      BY <2>3, AddFacts
    <3> QED BY <2>2, <3>1
  <2>4. CASE a \in Parties(r.tx)
    <3>1. Added(history[a], history'[a], r)
      BY <2>4, AddFacts
    <3>2. CASE q.tx # r.tx
      <4>1. PICK j \in DOMAIN history[a] : history[a][j] = q
        BY <3>1, <3>2 DEF Added
      <4> QED BY <2>2, <4>1
    <3>3. CASE q.tx = r.tx /\ HoldsFresh(history[a], r.tx)
      <4>1. PICK j \in DOMAIN history[a] : history[a][j].tx = r.tx /\ q = Merge(history[a][j], r)
        BY <3>1, <3>3 DEF Added
      <4>2. RecordTrue(chain, a, history[a][j], history[a][j].tx \in late)
        BY DEF RecordsTrue
      <4> DEFINE before == r.tx \in late
                 after == r.tx \in late'
      <4>3. before \in BOOLEAN /\ after \in BOOLEAN /\ (before => after)
        OBVIOUS
      <4>4. RecordTrue(chain, a, history[a][j], before) /\ Sound(r, after)
        BY <4>1, <4>2
      <4> HIDE DEF before, after
      <4>5. RecordTrue(chain, a, Merge(history[a][j], r), after)
        BY <1>1, <2>1, <4>1, <4>3, <4>4, MergeTrue
      <4> QED BY <3>3, <4>1, <4>5 DEF after
    <3>4. CASE q.tx = r.tx /\ ~HoldsFresh(history[a], r.tx)
      <4>1. q = r
        BY <3>1, <3>4 DEF Added
      <4>2. a \in Parties(r.tx)
        BY <2>4
      <4> QED BY <4>1, <4>2, MinedIn DEF Sound, RecordTrue, In
    <3> QED BY <3>2, <3>3, <3>4
  <2> QED BY <2>3, <2>4
<1> QED BY <1>2 DEF RecordsTrue, RecordTrue, Parties

(* Both parties' lists get the same record, unless one had lost it.        *)
LEMMA AddAgree ==
  ASSUME TypeOK, Distinct, Agree, RecordsTrue, NEW r \in Record, Add(r)
  PROVE  Agree'
<1> SUFFICES ASSUME NEW t \in Txs, \A a \in Parties(t) : <<a, t>> \notin dropped',
                    NEW a \in Addrs, NEW i \in DOMAIN history'[a], history'[a][i].tx = t,
                    NEW b \in Parties(t)
             PROVE  /\ Holds(history'[b], t)
                    /\ \A j \in DOMAIN history'[b] : history'[b][j].tx = t => history'[b][j] = history'[a][i]
  BY DEF Agree, Holds, Parties
<1>1. \A c \in Parties(t) : c \in Addrs /\ <<c, t>> \notin dropped
  <2> TAKE c \in Parties(t)
  <2>1. c \in Addrs
    BY PartiesType
  <2>2. dropped \subseteq dropped' /\ <<c, t>> \notin dropped'
    BY AddFacts
  <2> QED BY <2>1, <2>2
<1>2. \A c \in Addrs : history[c] \in Seq(Record)
  BY DEF TypeOK
<1>3. ASSUME NEW c \in Addrs, NEW j \in DOMAIN history[c], history[c][j].tx = t,
             NEW d \in Parties(t)
      PROVE  /\ Holds(history[d], t) /\ Holds(history'[d], t)
             /\ d \in Parties(r.tx) => HoldsFresh(history[d], t)
             /\ \A k \in DOMAIN history[d] : history[d][k].tx = t => history[d][k] = history[c][j]
  <2>1. /\ Holds(history[d], t)
        /\ \A k \in DOMAIN history[d] : history[d][k].tx = t => history[d][k] = history[c][j]
    BY <1>1, <1>3 DEF Agree
  <2> QED BY <1>1, <2>1, AddFacts
<1>4. CASE t # r.tx
  <2>1. ASSUME NEW c \in Addrs, NEW j \in DOMAIN history'[c], history'[c][j].tx = t
        PROVE  \E k \in DOMAIN history[c] : history[c][k] = history'[c][j]
    <3>1. CASE c \in Parties(r.tx)
      BY <1>4, <2>1, <3>1, AddFacts DEF Added
    <3>2. CASE c \notin Parties(r.tx)
      BY <3>2, AddFacts
    <3> QED BY <3>1, <3>2
  <2>2. PICK k \in DOMAIN history[a] : history[a][k] = history'[a][i]
    BY <2>1
  <2>3. /\ Holds(history'[b], t)
        /\ \A j \in DOMAIN history[b] : history[b][j].tx = t => history[b][j] = history[a][k]
    BY <1>3, <2>2
  <2>4. ASSUME NEW j \in DOMAIN history'[b], history'[b][j].tx = t
        PROVE  history'[b][j] = history'[a][i]
    <3>1. PICK l \in DOMAIN history[b] : history[b][l] = history'[b][j]
      BY <1>1, <2>1, <2>4
    <3> QED BY <2>2, <2>3, <2>4, <3>1
  <2> QED BY <2>3, <2>4
<1>5. CASE t = r.tx
  <2>1. \A c \in Parties(t) : Added(history[c], history'[c], r)
    BY <1>5, AddFacts
  <2>2. Holds(history'[b], t)
    BY <1>5, <2>1 DEF Added
  <2>3. a \in Parties(t)
    <3>1. CASE a \in Parties(r.tx)
      BY <1>5, <3>1
    <3>2. CASE a \notin Parties(r.tx)
      <4>1. history'[a] = history[a]
        BY <3>2, AddFacts
      <4>2. RecordTrue(chain, a, history[a][i], history[a][i].tx \in late)
        BY <4>1 DEF RecordsTrue
      <4> QED BY <4>1, <4>2 DEF RecordTrue
    <3> QED BY <3>1, <3>2
  <2>4. CASE \E c \in Addrs : Holds(history[c], t)
    <3>0. PICK c \in Addrs : Holds(history[c], t)
      BY <2>4
    <3>1. PICK j \in DOMAIN history[c] : history[c][j].tx = t
      BY <3>0 DEF Holds
    <3>2. ASSUME NEW d \in Parties(t), NEW k \in DOMAIN history'[d], history'[d][k].tx = t
          PROVE  history'[d][k] = Merge(history[c][j], r)
      <4>1. HoldsFresh(history[d], t)
        BY <1>3, <1>5, <3>1
      <4>2. PICK l \in DOMAIN history[d] : history[d][l].tx = t /\ history'[d][k] = Merge(history[d][l], r)
        BY <1>5, <2>1, <3>2, <4>1 DEF Added
      <4> QED BY <1>3, <3>1, <4>2
    <3> QED BY <2>2, <2>3, <3>2
  <2>5. CASE \A c \in Addrs : ~Holds(history[c], t)
    <3>1. ASSUME NEW d \in Parties(t), NEW k \in DOMAIN history'[d], history'[d][k].tx = t
          PROVE  history'[d][k] = r
      <4>1. ~HoldsFresh(history[d], t)
        BY <1>1, <2>5 DEF Holds, HoldsFresh
      <4> QED BY <1>5, <2>1, <3>1, <4>1 DEF Added
    <3> QED BY <2>2, <2>3, <3>1
  <2> QED BY <2>4, <2>5
<1> QED BY <1>4, <1>5

(* A transaction that moves no value is settled for every block.           *)
LEMMA SettledIff ==
  ASSUME NEW t \in Txs, NEW n \in Nat
  PROVE  <<t, n>> \in Settled <=> Data[t].kind = "zero" \/ Scanned(t, n)
<1>1. <<t, n>> \in Txs \X Nat /\ <<t, n>>[1] = t /\ <<t, n>>[2] = n
  OBVIOUS
<1> QED BY <1>1 DEF Settled

(* A record of a sync leaves its transaction settled.                      *)
LEMMA AddScanned ==
  ASSUME TypeOK, OneBlock, NEW r \in Record, Add(r), Distinct, RecordsTrue',
         chain' = chain, r.hash # NoHash, r.hash \in DOMAIN chain, In(r.tx, r.hash)
  PROVE  <<r.tx, r.hash>> \in Settled'
<1> DEFINE t == r.tx
           n == r.hash
<1>0. SUFFICES ASSUME NEW a \in Parties(t)
               PROVE  \E i \in DOMAIN history'[a] : history'[a][i].tx = t /\ history'[a][i].hash = n
  <2>1. <<t, n>> \in Txs \X Nat /\ <<t, n>>[1] = t /\ <<t, n>>[2] = n
    BY DEF Record, TypeOK
  <2>2. Scanned(t, n)'
    BY <1>0 DEF Scanned, Parties
  <2> QED BY <2>1, <2>2 DEF Settled
<1>1. t \in Txs /\ a \in Addrs /\ \A j \in DOMAIN history[a] : history[a][j] \in Record
  <2>1. t \in Txs
    BY DEF Record
  <2>2. a \in Addrs
    BY <2>1, PartiesType
  <2>3. history[a] \in Seq(Record)
    BY <2>2 DEF TypeOK
  <2> HIDE DEF t
  <2> QED BY <2>1, <2>2, <2>3
<1>2. Added(history[a], history'[a], r)
  BY AddFacts
<1>3. PICK i \in DOMAIN history'[a] : history'[a][i].tx = t
  BY <1>2 DEF Added, Holds
<1>4. history'[a][i].hash # NoHash
  <2>1. CASE HoldsFresh(history[a], t)
    <3>1. PICK j \in DOMAIN history[a] : history'[a][i] = Merge(history[a][j], r)
      BY <1>2, <1>3, <2>1 DEF Added
    <3> QED BY <1>1, <3>1, MergeFields
  <2>2. CASE ~HoldsFresh(history[a], t)
    BY <1>2, <1>3, <2>2 DEF Added
  <2> QED BY <2>1, <2>2
<1>5. history'[a][i].hash \in DOMAIN chain /\ In(t, history'[a][i].hash)
  BY <1>1, <1>3, <1>4 DEF RecordsTrue, RecordTrue, In
<1>6. history'[a][i].hash = n
  BY <1>1, <1>5 DEF OneBlock
<1> QED BY <1>3, <1>6

-----------------------------------------------------------------------------
(* What a step leaves as it was                                            *)

(* No step takes back what is done.                                        *)
LEMMA DoneStays ==
  ASSUME TypeOK, skipped \subseteq skipped',
         \A n \in DOMAIN chain : chain'[n] = chain[n],
         \A t \in Txs : \A n \in DOMAIN chain : Scanned(t, n) => Scanned(t, n)'
  PROVE  /\ \A t \in Txs : \A n \in DOMAIN chain : <<t, n>> \in Settled => <<t, n>> \in Settled'
         /\ \A n \in DOMAIN chain : n \in Done => n \in Done'
<1>1. \A n \in DOMAIN chain : n \in Nat
  BY DEF TypeOK
<1>2. ASSUME NEW t \in Txs, NEW n \in DOMAIN chain, <<t, n>> \in Settled
      PROVE  <<t, n>> \in Settled'
  <2>1. n \in Nat /\ <<t, n>> \in Txs \X Nat /\ <<t, n>>[1] = t /\ <<t, n>>[2] = n
    BY <1>1
  <2>2. Data[t].kind = "zero" \/ Scanned(t, n)'
    BY <1>2, <2>1, SettledIff
  <2> QED BY <2>1, <2>2 DEF Settled
<1>3. ASSUME NEW n \in DOMAIN chain, n \in Done
      PROVE  n \in Done'
  <2>1. n \in Nat /\ (n \in skipped \/ \A t \in Txs : Has(chain[n], t) => <<t, n>> \in Settled)
    BY <1>1, <1>3 DEF Done, In
  <2>2. n \in skipped' \/ \A t \in Txs : Has(chain'[n], t) => <<t, n>> \in Settled'
    BY <1>2, <2>1
  <2> QED BY <2>1, <2>2 DEF Done, In
<1> QED BY <1>2, <1>3

(* What a step that leaves chain and lists alone keeps.                    *)
LEMMA IndexKept ==
  ASSUME HotInv, UNCHANGED <<chain, history, dropped, late>>
  PROVE  /\ OneBlock' /\ RecordsTrue' /\ Distinct' /\ Agree'
         /\ \A t \in Txs : \A n \in DOMAIN chain : Scanned(t, n) => Scanned(t, n)'
<1>1. \A t, n : In(t, n)' <=> In(t, n)
  BY DEF In
<1>2. OneBlock'
  BY <1>1 DEF HotInv, OneBlock
<1>3. RecordsTrue'
  BY DEF HotInv, RecordsTrue, RecordTrue, Parties
<1>4. Distinct' /\ Agree'
  BY DEF HotInv, Distinct, Agree, Holds, Parties
<1>5. \A t \in Txs : \A n \in DOMAIN chain : Scanned(t, n) => Scanned(t, n)'
  BY DEF Scanned, Parties
<1> QED BY <1>2, <1>3, <1>4, <1>5

(* What one that leaves the sends alone keeps.                             *)
LEMMA SendsKept ==
  ASSUME HotInv, UNCHANGED <<send, named, history, dropped>>, Len(chain') \in Nat, Len(chain) <= Len(chain')
  PROVE  GuessesAhead' /\ Answered'
<1>1. Len(chain) \in Nat
  BY DEF HotInv, TypeOK
<1>2. GuessesAhead'
  BY <1>1 DEF HotInv, GuessesAhead
<1>3. Answered'
  BY DEF HotInv, Answered, Holds, Parties
<1> QED BY <1>2, <1>3

(* The blocks behind every sync are mined.                                 *)
LEMMA SyncBounds ==
  ASSUME TypeOK
  PROVE  /\ Len(chain) \in Nat /\ DOMAIN chain = 1..Len(chain) /\ scanned \in 0..Len(chain)
         /\ \A s \in Syncs :
              /\ sync[s].latest \in 0..Len(chain) /\ sync[s].num \in Nat
              /\ sync[s].todo \in Seq(Txs)
              /\ sync[s].pc \in {"fetch", "scan"} =>
                   sync[s].num \in 1..sync[s].latest /\ sync[s].num \in DOMAIN chain
BY DEF TypeOK

(* What one that leaves the syncs alone keeps.                             *)
LEMMA SyncsKept ==
  ASSUME HotInv, UNCHANGED <<sync, scanned, skipped>>,
         \A n \in DOMAIN chain : n \in DOMAIN chain' /\ chain'[n] = chain[n],
         \A t \in Txs : \A n \in DOMAIN chain : Scanned(t, n) => Scanned(t, n)'
  PROVE  TodoOfBlock' /\ Progress'
<1>1. TypeOK
  BY DEF HotInv
<1>2. /\ \A n \in DOMAIN chain : n \in Done => n \in Done'
      /\ \A t \in Txs : \A n \in DOMAIN chain : <<t, n>> \in Settled => <<t, n>> \in Settled'
  BY <1>1, DoneStays
<1>3. TodoOfBlock'
  <2> SUFFICES ASSUME NEW s \in Syncs, NEW j \in DOMAIN sync[s].todo
               PROVE  sync[s].pc = "scan" /\ Has(chain'[sync[s].num], sync[s].todo[j])
    BY DEF TodoOfBlock, In
  <2>1. sync[s].pc = "scan" /\ Has(chain[sync[s].num], sync[s].todo[j])
    BY DEF HotInv, TodoOfBlock, In
  <2>2. sync[s].num \in DOMAIN chain
    BY <1>1, <2>1, SyncBounds
  <2> QED BY <2>1, <2>2
<1>4. Progress'
  <2>1. ASSUME NEW n \in 1..scanned PROVE n \in Done'
    BY <1>1, <1>2, SyncBounds DEF HotInv, Progress
  <2>2. ASSUME NEW s \in Syncs, sync[s].pc \in {"fetch", "scan"}, NEW n \in 1..sync[s].num - 1
        PROVE  n \in Done'
    <3>1. n \in DOMAIN chain
      BY <1>1, <2>2, SyncBounds
    <3> QED BY <1>2, <2>2, <3>1 DEF HotInv, Progress
  <2>3. ASSUME NEW s \in Syncs, sync[s].pc = "scan", sync[s].num \notin skipped,
               NEW t \in Txs, Has(chain'[sync[s].num], t)
        PROVE  Waiting(sync[s].todo, t) \/ <<t, sync[s].num>> \in Settled'
    <3>1. sync[s].num \in DOMAIN chain
      BY <1>1, <2>3, SyncBounds
    <3>2. In(t, sync[s].num)
      BY <2>3, <3>1 DEF In
    <3>3. Waiting(sync[s].todo, t) \/ <<t, sync[s].num>> \in Settled
      BY <2>3, <3>2 DEF HotInv, Progress
    <3> QED BY <1>2, <3>1, <3>3
  <2> QED BY <2>1, <2>2, <2>3 DEF Progress, In
<1> QED BY <1>3, <1>4

-----------------------------------------------------------------------------
(* Steps of the environment                                                *)

(* A new block: no record had its number but a guess.                      *)
LEMMA MineStep ==
  ASSUME HotInv, Mine
  PROVE  HotInv'
<1>1. PICK b : /\ b \in {<<>>} \cup {<<t>> : t \in Minable} \cup {<<t, u>> : t \in Minable, u \in Minable}
               /\ chain' = Append(chain, b)
  BY DEF Mine
<1>2. TypeOK
  BY DEF HotInv
<1>3. b \in Seq(Txs) /\ \A k \in DOMAIN b : b[k] \in Minable
  <2>1. Minable \subseteq Txs
    BY DEF Minable
  <2>2. CASE b = <<>>
    BY <2>2
  <2>3. CASE b \in {<<t>> : t \in Minable}
    <3>1. PICK t \in Minable : b = <<t>>
      BY <2>3
    <3> QED BY <2>1, <3>1
  <2>4. CASE b \in {<<t, u>> : t \in Minable, u \in Minable}
    <3>1. PICK t \in Minable, u \in Minable : b = <<t, u>>
      BY <2>4
    <3> QED BY <2>1, <3>1
  <2> QED BY <1>1, <2>2, <2>3, <2>4
<1>4. UNCHANGED <<accepted, clock, history, scanned, dropped, named, send, sync, skipped, late>>
      /\ Len(chain) < MaxBlocks
  BY DEF Mine, index
<1> DEFINE m == Len(chain)
<1>5. /\ chain \in Seq(Seq(Txs)) /\ m \in Nat /\ DOMAIN chain = 1..m
      /\ m < MaxBlocks /\ MaxBlocks \in Nat
  BY <1>2, <1>4, BoundsAssumption DEF TypeOK
<1>6. /\ chain' \in Seq(Seq(Txs)) /\ Len(chain') = m + 1 /\ DOMAIN chain' = 1..m + 1
      /\ \A n \in 1..m : chain'[n] = chain[n]
      /\ chain'[m + 1] = b
  BY <1>1, <1>3, <1>5
<1> HIDE DEF m
<1>7. TypeOK'
  <2>1. Len(chain') <= MaxBlocks
    BY <1>5, <1>6
  <2>2. scanned' \in 0..Len(chain') /\ skipped' \subseteq 1..Len(chain')
    BY <1>2, <1>4, <1>5, <1>6 DEF TypeOK, m
  <2>3. \A s \in Syncs : sync'[s].latest <= Len(chain')
    <3> TAKE s \in Syncs
    <3>1. sync[s].latest \in 0..m
      BY <1>2, SyncBounds DEF m
    <3> QED BY <1>4, <1>5, <1>6, <3>1
  <2> QED BY <1>2, <1>4, <1>6, <2>1, <2>2, <2>3 DEF TypeOK
<1>8. /\ \A t : Has(b, t) => \A n \in 1..m : ~Has(chain[n], t)
      /\ \A t : \A n, l \in 1..m : Has(chain[n], t) /\ Has(chain[l], t) /\ t \in Txs => n = l
  <2>1. ASSUME NEW t, Has(b, t) PROVE \A n \in 1..m : ~Has(chain[n], t)
    <3>1. PICK k \in DOMAIN b : b[k] = t
      BY <2>1 DEF Has
    <3>2. ~Mined(t)
      BY <1>3, <3>1 DEF Minable
    <3> QED BY <1>5, <3>2, MinedIn DEF In
  <2> QED BY <1>5, <2>1 DEF HotInv, OneBlock, In
<1>9. OneBlock'
  <2> SUFFICES ASSUME NEW t \in Txs, NEW n \in 1..m + 1, NEW l \in 1..m + 1,
                      Has(chain'[n], t), Has(chain'[l], t)
               PROVE  n = l
    BY <1>6 DEF OneBlock, In
  <2> HIDE DEF m
  <2>1. n \in 1..m \/ n = m + 1
    BY <1>5
  <2>2. l \in 1..m \/ l = m + 1
    BY <1>5
  <2> QED BY <1>6, <1>8, <2>1, <2>2
<1>10. RecordsTrue'
  <2>1. ASSUME NEW a \in Addrs, NEW q \in Record, NEW l \in BOOLEAN, RecordTrue(chain, a, q, l)
        PROVE  RecordTrue(chain', a, q, l)
    <3>1. q.number \in Nat
      BY BoundsAssumption DEF Record
    <3>2. q.number <= Len(chain') + 1
      BY <1>5, <1>6, <2>1, <3>1 DEF RecordTrue, m
    <3>3. ASSUME q.hash = NoHash, ~l, NEW n \in 1..m + 1, Has(chain'[n], q.tx)
          PROVE  q.number <= n
      <4>1. CASE n = m + 1
        BY <2>1, <4>1 DEF RecordTrue, m
      <4>2. CASE n \in 1..m
        BY <1>5, <1>6, <2>1, <3>3, <4>2 DEF RecordTrue
      <4> QED BY <1>5, <4>1, <4>2
    <3>4. q.hash # NoHash => q.hash \in 1..m + 1 /\ Has(chain'[q.hash], q.tx) /\ (l \/ q.number = q.hash)
      BY <1>5, <1>6, <2>1 DEF RecordTrue
    <3> QED BY <1>6, <2>1, <3>2, <3>3, <3>4 DEF RecordTrue
  <2>2. \A a \in Addrs : \A i \in DOMAIN history[a] : history[a][i] \in Record
    BY <1>2 DEF TypeOK
  <2>3. ASSUME NEW a \in Addrs, NEW i \in DOMAIN history[a]
        PROVE  RecordTrue(chain', a, history[a][i], history[a][i].tx \in late)
    <3> DEFINE q == history[a][i]
               l == history[a][i].tx \in late
    <3>1. q \in Record /\ l \in BOOLEAN /\ RecordTrue(chain, a, q, l)
      BY <2>2 DEF HotInv, RecordsTrue
    <3> HIDE DEF q, l
    <3>2. RecordTrue(chain', a, q, l)
      BY <2>1, <3>1
    <3> QED BY <3>2 DEF q, l
  <2> QED BY <1>4, <2>3 DEF RecordsTrue
<1>11. Distinct' /\ Agree'
  <2>1. Distinct'
    BY <1>4 DEF HotInv, Distinct
  <2>2. Agree'
    BY <1>4 DEF HotInv, Agree, Holds, Parties
  <2> QED BY <2>1, <2>2
<1>12. \A t \in Txs : \A n \in DOMAIN chain : Scanned(t, n) => Scanned(t, n)'
  BY <1>4 DEF Scanned, Parties
<1>13. \A n \in DOMAIN chain : n \in DOMAIN chain' /\ chain'[n] = chain[n]
  BY <1>5, <1>6
<1>14. TodoOfBlock' /\ Progress'
  BY <1>4, <1>12, <1>13, SyncsKept
<1>15. GuessesAhead' /\ Answered'
  <2>1. Len(chain') \in Nat /\ Len(chain) <= Len(chain')
    BY <1>5, <1>6 DEF m
  <2> QED BY <1>4, <2>1, SendsKept
<1> QED BY <1>7, <1>9, <1>10, <1>11, <1>14, <1>15 DEF HotInv

(* A tick of the clock: records age but stay.                              *)
LEMMA TickStep ==
  ASSUME HotInv, Tick
  PROVE  HotInv'
<1>1. UNCHANGED <<chain, accepted, history, scanned, dropped, named, send, sync, skipped, late>>
      /\ clock' = clock + 1 /\ clock < MaxClock
  BY DEF Tick, index
<1>2. TypeOK
  BY DEF HotInv
<1>3. TypeOK'
  <2>1. clock' \in 0..MaxClock
    BY <1>1, <1>2, BoundsAssumption DEF TypeOK
  <2> QED BY <1>1, <1>2, <2>1 DEF TypeOK
<1>4. Len(chain') \in Nat /\ Len(chain) <= Len(chain')
  BY <1>1, <1>2, SyncBounds
<1> QED BY <1>1, <1>3, <1>4, IndexKept, SendsKept, SyncsKept DEF HotInv

-----------------------------------------------------------------------------
(* Steps of eth_sendRawTransaction                                         *)

(* A call that is not about to be indexed, and adds no record.             *)
LEMMA SendStep ==
  ASSUME HotInv, NEW t \in Proxied, Forward(t) \/ NotIndexed(t) \/ Guess(t)
  PROVE  HotInv'
<1>1. TypeOK
  BY DEF HotInv
<1>2. /\ UNCHANGED <<chain, clock, history, scanned, dropped, sync, skipped, late>>
      /\ t \in Txs
      /\ Len(chain) \in Nat /\ scanned \in 0..Len(chain) /\ Len(chain) <= MaxBlocks
  BY <1>1, DataAssumption, SyncBounds DEF Forward, NotIndexed, Guess, env, index, TypeOK
<1>3. accepted' \subseteq Proxied /\ named' \subseteq Addrs /\ named \subseteq named'
  BY <1>1, <1>2, PartiesType DEF Forward, NotIndexed, Guess, env, TypeOK
<1>4. PICK c \in [pc : {"sent", "done", "guessed"}, number : 0..MaxBlocks + 1, born : 0..MaxClock] :
        /\ send' = [send EXCEPT ![t] = c]
        /\ c.pc = "guessed" => c.number \in 1..Len(chain) + 1 /\ Data[t].to \in named'
  <2>1. send[t] \in [pc : {"idle", "sent", "guessed", "indexed", "done"}, number : 0..MaxBlocks + 1, born : 0..MaxClock]
    BY <1>1 DEF TypeOK
  <2>2. CASE Forward(t)
    <3> DEFINE c == [send[t] EXCEPT !.pc = "sent"]
    <3>1. c \in [pc : {"sent", "done", "guessed"}, number : 0..MaxBlocks + 1, born : 0..MaxClock] /\ c.pc = "sent"
      BY <2>1
    <3> QED BY <2>2, <3>1 DEF Forward
  <2>3. CASE NotIndexed(t)
    <3> DEFINE c == [send[t] EXCEPT !.pc = "done"]
    <3>1. c \in [pc : {"sent", "done", "guessed"}, number : 0..MaxBlocks + 1, born : 0..MaxClock] /\ c.pc = "done"
      BY <2>1
    <3> QED BY <2>3, <3>1 DEF NotIndexed
  <2>4. CASE Guess(t)
    <3> DEFINE c == [pc |-> "guessed", number |-> scanned + 1, born |-> clock]
    <3>1. clock \in 0..MaxClock /\ MaxBlocks \in Nat
      BY <1>1, BoundsAssumption DEF TypeOK
    <3>2. scanned + 1 \in 1..Len(chain) + 1 /\ scanned + 1 \in 0..MaxBlocks + 1
      BY <1>2, <3>1
    <3>3. c \in [pc : {"sent", "done", "guessed"}, number : 0..MaxBlocks + 1, born : 0..MaxClock]
      BY <3>1, <3>2
    <3> QED BY <2>4, <3>2, <3>3 DEF Guess
  <2> QED BY <2>2, <2>3, <2>4
<1>5. TypeOK'
  <2>1. send' \in [Proxied -> [pc : {"idle", "sent", "guessed", "indexed", "done"},
                              number : 0..MaxBlocks + 1, born : 0..MaxClock]]
    BY <1>1, <1>4 DEF TypeOK
  <2> QED BY <1>1, <1>2, <1>3, <2>1 DEF TypeOK
<1>6. \A u \in Proxied : send'[u] = IF u = t THEN c ELSE send[u]
  BY <1>1, <1>4 DEF TypeOK
<1>7. GuessesAhead'
  BY <1>2, <1>3, <1>4, <1>6 DEF HotInv, GuessesAhead
<1>8. Answered'
  BY <1>2, <1>4, <1>6 DEF HotInv, Answered, Holds, Parties
<1>9. OneBlock' /\ RecordsTrue' /\ Distinct' /\ Agree'
  BY <1>2, IndexKept
<1>10. TodoOfBlock' /\ Progress'
  BY <1>2, IndexKept, SyncsKept
<1> QED BY <1>5, <1>7, <1>8, <1>9, <1>10 DEF HotInv

(* What every added record leaves true.                                    *)
LEMMA AddKeeps ==
  ASSUME HotInv, NEW r \in Record, Add(r), chain' = chain, late \subseteq late', Sound(r, r.tx \in late')
  PROVE  /\ OneBlock' /\ RecordsTrue' /\ Distinct' /\ Agree'
         /\ \A t \in Txs : \A n \in DOMAIN chain : Scanned(t, n) => Scanned(t, n)'
         /\ \A t \in Txs : \A a \in Parties(t) :
              Holds(history[a], t) \/ <<a, t>> \in dropped => Holds(history'[a], t) \/ <<a, t>> \in dropped'
<1>1. TypeOK /\ Distinct /\ OneBlock /\ RecordsTrue /\ Agree
  BY DEF HotInv
<1>2. OneBlock'
  BY <1>1 DEF OneBlock, In
<1>3. RecordsTrue' /\ Distinct' /\ Agree'
  BY <1>1, AddTrue, AddDistinct, AddAgree
<1>4. \A n \in DOMAIN chain : n \in Nat
  BY <1>1, SyncBounds
<1>5. \A t \in Txs : \A n \in DOMAIN chain : Scanned(t, n) => Scanned(t, n)'
  BY <1>1, <1>4, ScannedKept
<1>6. \A t \in Txs : \A a \in Parties(t) :
        Holds(history[a], t) \/ <<a, t>> \in dropped => Holds(history'[a], t) \/ <<a, t>> \in dropped'
  <2> TAKE t \in Txs
  <2> TAKE a \in Parties(t)
  <2>1. a \in Addrs
    BY PartiesType
  <2> QED BY <1>1, <2>1, AddFacts
<1> QED BY <1>2, <1>3, <1>5, <1>6

(* The raw form is indexed, in time or too late.                           *)
LEMMA IndexRawStep ==
  ASSUME HotInv, NEW t \in Proxied, IndexRaw(t)
  PROVE  HotInv'
<1> DEFINE r == [tx |-> t, number |-> send[t].number, hash |-> NoHash, born |-> send[t].born]
           c == [IdleSend EXCEPT !.pc = "indexed"]
<1>1. TypeOK
  BY DEF HotInv
<1>2. /\ UNCHANGED <<chain, accepted, clock, scanned, named, sync, skipped>>
      /\ send[t].pc = "guessed" /\ Add(r) /\ send' = [send EXCEPT ![t] = c]
      /\ late' = IF Mined(t) THEN late \cup {t} ELSE late
  BY DEF IndexRaw, env
<1>3. send[t].number \in 1..Len(chain) + 1 /\ Data[t].to \in named
  BY <1>2 DEF HotInv, GuessesAhead
<1>4. r \in Record
  <2>1. Len(chain) \in Nat /\ Len(chain) <= MaxBlocks /\ MaxBlocks \in Nat /\ MaxClock \in Nat
    BY <1>1, BoundsAssumption DEF TypeOK
  <2>2. send[t].number \in 1..MaxBlocks + 1 /\ send[t].born \in 0..MaxClock /\ t \in Txs
    BY <1>1, <1>3, <2>1, DataAssumption DEF TypeOK
  <2> QED BY <2>2 DEF Record
<1>5. c = [pc |-> "indexed", number |-> 0, born |-> 0]
  BY DEF IdleSend
<1>6. t \in Txs /\ r.tx = t /\ r.hash = NoHash /\ r.number = send[t].number
  BY DataAssumption
<1> HIDE DEF r, c
<1>7. late \subseteq late' /\ late' \subseteq Proxied /\ Sound(r, r.tx \in late')
  BY <1>1, <1>2, <1>3, <1>6 DEF Sound, TypeOK
<1>8. TypeOK'
  <2>1. send' \in [Proxied -> [pc : {"idle", "sent", "guessed", "indexed", "done"},
                              number : 0..MaxBlocks + 1, born : 0..MaxClock]]
    BY <1>1, <1>2, <1>5, BoundsAssumption DEF TypeOK
  <2>2. history' \in [Addrs -> Seq(Record)] /\ (\A a \in Addrs : Len(history'[a]) <= MaxPerAddr)
        /\ dropped' \subseteq Addrs \X Txs
    BY <1>1, <1>2, <1>4, AddFacts DEF HotInv
  <2> QED BY <1>1, <1>2, <1>7, <2>1, <2>2 DEF TypeOK
<1>9. /\ OneBlock' /\ RecordsTrue' /\ Distinct' /\ Agree'
      /\ \A u \in Txs : \A n \in DOMAIN chain : Scanned(u, n) => Scanned(u, n)'
      /\ \A u \in Txs : \A a \in Parties(u) :
           Holds(history[a], u) \/ <<a, u>> \in dropped => Holds(history'[a], u) \/ <<a, u>> \in dropped'
  BY <1>2, <1>4, <1>7, AddKeeps
<1>10. TodoOfBlock' /\ Progress'
  BY <1>2, <1>9, SyncsKept
<1>11. \A u \in Proxied : send'[u] = IF u = t THEN c ELSE send[u]
  BY <1>1, <1>2 DEF TypeOK
<1>12. GuessesAhead'
  BY <1>2, <1>3, <1>5, <1>11 DEF HotInv, GuessesAhead
<1>13. Answered'
  <2> SUFFICES ASSUME NEW u \in Proxied, send'[u].pc = "indexed", NEW a \in Parties(u)
               PROVE  Holds(history'[a], u) \/ <<a, u>> \in dropped'
    BY DEF Answered, Holds, Parties
  <2>1. CASE u = t
    <3>1. Added(history[a], history'[a], r)
      BY <1>1, <1>2, <1>4, <1>6, <2>1, AddFacts DEF HotInv
    <3> QED BY <1>6, <2>1, <3>1 DEF Added
  <2>2. CASE u # t
    <3>1. u \in Txs
      BY DataAssumption
    <3>2. Holds(history[a], u) \/ <<a, u>> \in dropped
      BY <1>11, <2>2 DEF HotInv, Answered
    <3> QED BY <1>9, <3>1, <3>2
  <2> QED BY <2>1, <2>2
<1> QED BY <1>8, <1>9, <1>10, <1>12, <1>13 DEF HotInv

-----------------------------------------------------------------------------
(* Steps of sync_hot_storage                                               *)

SyncState == [pc : {"idle", "latest", "fetch", "scan"}, latest : Nat, num : Nat, todo : Seq(Txs)]

(* Sync s goes on to the state c: the others keep what they have.          *)
LEMMA OneSync ==
  ASSUME HotInv, NEW s \in Syncs, NEW c, c \in SyncState, sync' = [sync EXCEPT ![s] = c],
         chain' = chain, c.latest <= Len(chain),
         c.pc \in {"fetch", "scan"} => c.num \in 1..c.latest,
         \A j \in DOMAIN c.todo : c.pc = "scan" /\ Has(chain[c.num], c.todo[j]),
         skipped \subseteq skipped',
         \A t \in Txs : \A n \in DOMAIN chain : Scanned(t, n) => Scanned(t, n)',
         1..scanned' \subseteq Done',
         c.pc \in {"fetch", "scan"} => 1..c.num - 1 \subseteq Done',
         c.pc = "scan" => \/ c.num \in skipped'
                          \/ \A t \in Txs : Has(chain[c.num], t) =>
                               Waiting(c.todo, t) \/ <<t, c.num>> \in Settled'
  PROVE  /\ TodoOfBlock' /\ Progress'
         /\ sync' \in [Syncs -> SyncState]
         /\ \A u \in Syncs : /\ sync'[u].latest <= Len(chain')
                             /\ sync'[u].pc \in {"fetch", "scan"} => sync'[u].num \in 1..sync'[u].latest
<1>1. TypeOK /\ sync \in [Syncs -> SyncState]
  BY DEF HotInv, TypeOK, SyncState
<1>2. \A u \in Syncs : sync'[u] = IF u = s THEN c ELSE sync[u]
  BY <1>1
<1>3. sync' \in [Syncs -> SyncState]
  BY <1>1
<1>4. \A u \in Syncs : /\ sync'[u].latest <= Len(chain')
                       /\ sync'[u].pc \in {"fetch", "scan"} => sync'[u].num \in 1..sync'[u].latest
  BY <1>1, <1>2 DEF TypeOK
<1>5. TodoOfBlock'
  <2> SUFFICES ASSUME NEW u \in Syncs, NEW j \in DOMAIN sync'[u].todo
               PROVE  sync'[u].pc = "scan" /\ Has(chain[sync'[u].num], sync'[u].todo[j])
    BY DEF TodoOfBlock, In
  <2>1. CASE u = s
    BY <1>2, <2>1
  <2>2. CASE u # s
    BY <1>2, <2>2 DEF HotInv, TodoOfBlock, In
  <2> QED BY <2>1, <2>2
<1>6. /\ \A n \in DOMAIN chain : n \in Done => n \in Done'
      /\ \A t \in Txs : \A n \in DOMAIN chain : <<t, n>> \in Settled => <<t, n>> \in Settled'
  BY <1>1, DoneStays
<1>7. ASSUME NEW u \in Syncs, sync'[u].pc \in {"fetch", "scan"}, NEW n \in 1..sync'[u].num - 1
      PROVE  n \in Done'
  <2>1. CASE u = s
    BY <1>2, <1>7, <2>1
  <2>2. CASE u # s
    <3>1. sync[u].pc \in {"fetch", "scan"} /\ n \in 1..sync[u].num - 1
      BY <1>2, <1>7, <2>2
    <3>2. n \in DOMAIN chain
      BY <1>1, <3>1, SyncBounds
    <3> QED BY <1>6, <3>1, <3>2 DEF HotInv, Progress
  <2> QED BY <2>1, <2>2
<1>8. ASSUME NEW u \in Syncs, sync'[u].pc = "scan", sync'[u].num \notin skipped',
             NEW t \in Txs, Has(chain[sync'[u].num], t)
      PROVE  Waiting(sync'[u].todo, t) \/ <<t, sync'[u].num>> \in Settled'
  <2>1. CASE u = s
    <3>1. sync'[u] = c
      BY <1>2, <2>1
    <3> QED BY <1>8, <3>1
  <2>2. CASE u # s
    <3>1. sync'[u] = sync[u]
      BY <1>2, <2>2
    <3>2. sync[u].num \in DOMAIN chain
      BY <1>1, <1>8, <3>1, SyncBounds
    <3>3. Waiting(sync[u].todo, t) \/ <<t, sync[u].num>> \in Settled
      BY <1>8, <3>1 DEF HotInv, Progress, In
    <3> QED BY <1>6, <3>1, <3>2, <3>3
  <2> QED BY <2>1, <2>2
<1>9. Progress'
  BY <1>7, <1>8 DEF Progress, In
<1> QED BY <1>3, <1>4, <1>5, <1>9

(* A step of sync s that leaves the lists alone.                           *)
LEMMA QuietSync ==
  ASSUME HotInv, NEW s \in Syncs, NEW c, c \in SyncState, sync' = [sync EXCEPT ![s] = c],
         UNCHANGED <<chain, accepted, clock, history, dropped, named, send, late>>,
         scanned' \in 0..Len(chain), skipped \subseteq skipped', skipped' \subseteq 1..Len(chain),
         c.latest <= Len(chain),
         c.pc \in {"fetch", "scan"} => c.num \in 1..c.latest,
         \A j \in DOMAIN c.todo : c.pc = "scan" /\ Has(chain[c.num], c.todo[j]),
         1..scanned' \subseteq Done \cup skipped' \cup {n \in DOMAIN chain : n \in Done'},
         c.pc \in {"fetch", "scan"} => 1..c.num - 1 \subseteq Done \cup {n \in DOMAIN chain : n \in Done'},
         c.pc = "scan" => \/ c.num \in skipped'
                          \/ \A t \in Txs : Has(chain[c.num], t) =>
                               Waiting(c.todo, t) \/ <<t, c.num>> \in Settled
  PROVE  HotInv'
<1>1. TypeOK /\ Len(chain) \in Nat /\ DOMAIN chain = 1..Len(chain)
  BY SyncBounds DEF HotInv
<1>2. OneBlock' /\ RecordsTrue' /\ Distinct' /\ Agree'
      /\ \A t \in Txs : \A n \in DOMAIN chain : Scanned(t, n) => Scanned(t, n)'
  BY IndexKept
<1>3. /\ \A t \in Txs : \A n \in DOMAIN chain : <<t, n>> \in Settled => <<t, n>> \in Settled'
      /\ \A n \in DOMAIN chain : n \in Done => n \in Done'
  BY <1>1, <1>2, DoneStays
<1>4. 1..scanned' \subseteq Done'
  <2> SUFFICES ASSUME NEW n \in 1..scanned' PROVE n \in Done'
    OBVIOUS
  <2>1. n \in DOMAIN chain /\ n \in Nat
    BY <1>1
  <2>2. n \in skipped' => n \in Done'
    BY <2>1 DEF Done
  <2> QED BY <1>3, <2>1, <2>2
<1>5. c.pc \in {"fetch", "scan"} => 1..c.num - 1 \subseteq Done'
  <2> SUFFICES ASSUME c.pc \in {"fetch", "scan"}, NEW n \in 1..c.num - 1 PROVE n \in Done'
    OBVIOUS
  <2>1. n \in DOMAIN chain
    BY <1>1 DEF SyncState
  <2> QED BY <1>3, <2>1
<1>6. c.pc = "scan" => \/ c.num \in skipped'
                       \/ \A t \in Txs : Has(chain[c.num], t) =>
                            Waiting(c.todo, t) \/ <<t, c.num>> \in Settled'
  <2>1. c.pc = "scan" => c.num \in DOMAIN chain
    BY <1>1 DEF SyncState
  <2> QED BY <1>3, <2>1
<1>7. /\ TodoOfBlock' /\ Progress'
      /\ sync' \in [Syncs -> SyncState]
      /\ \A u \in Syncs : /\ sync'[u].latest <= Len(chain')
                          /\ sync'[u].pc \in {"fetch", "scan"} => sync'[u].num \in 1..sync'[u].latest
  BY <1>2, <1>4, <1>5, <1>6, OneSync
<1>8. TypeOK'
  BY <1>1, <1>7 DEF TypeOK, SyncState
<1>9. GuessesAhead' /\ Answered'
  BY <1>1, SendsKept
<1> QED BY <1>2, <1>7, <1>8, <1>9 DEF HotInv

(* A sync at rest.                                                         *)
LEMMA IdleType == IdleSync \in SyncState /\ IdleSync.pc = "idle" /\ IdleSync.latest = 0 /\ IdleSync.todo = <<>>
BY DEF IdleSync, SyncState

(* A sync at block n of its loop.                                          *)
LEMMA AtBlockType ==
  ASSUME TypeOK, NEW s \in Syncs, NEW n \in Nat
  PROVE  /\ AtBlock(s, n) \in SyncState /\ AtBlock(s, n).pc = "fetch"
         /\ AtBlock(s, n).num = n /\ AtBlock(s, n).todo = <<>>
         /\ AtBlock(s, n).latest = sync[s].latest
<1>1. <<>> \in Seq(Txs)
  OBVIOUS
<1>2. sync[s] \in SyncState
  BY DEF TypeOK, SyncState
<1> QED BY <1>1, <1>2 DEF AtBlock, SyncState

(* Where a sync may stand once block n is behind it.                       *)
NextRound(c, n) ==
  /\ c \in SyncState /\ c.latest <= Len(chain) /\ c.pc # "scan" /\ c.todo = <<>>
  /\ c.pc = "fetch" => c.num = n + 1 /\ c.num \in 1..c.latest

(* The loop ends in the idle state, whatever block it was at.              *)
LEMMA IdleRound ==
  ASSUME TypeOK, NEW n \in Nat
  PROVE  NextRound(IdleSync, n)
<1>1. Len(chain) \in Nat
  BY DEF TypeOK
<1> QED BY <1>1, IdleType DEF NextRound

(* It goes on as long as the latest block is ahead.                        *)
LEMMA BlockRound ==
  ASSUME TypeOK, NEW s \in Syncs, NEW n \in Nat, n < sync[s].latest
  PROVE  NextRound(AtBlock(s, n + 1), n)
<1>1. sync[s].latest \in Nat /\ sync[s].latest <= Len(chain)
  BY DEF TypeOK
<1> DEFINE c == AtBlock(s, n + 1)
<1>2. c \in SyncState /\ c.pc = "fetch" /\ c.num = n + 1 /\ c.todo = <<>> /\ c.latest = sync[s].latest
  BY AtBlockType
<1> HIDE DEF c
<1>3. NextRound(c, n)
  BY <1>1, <1>2 DEF NextRound
<1> QED BY <1>3 DEF c

(* A sync that ends or goes to the next block.                             *)
LEMMA AdvancedFacts ==
  ASSUME TypeOK, NEW s \in Syncs, sync[s].pc \in {"fetch", "scan"}
  PROVE  \E c : Advanced(s) = [sync EXCEPT ![s] = c] /\ NextRound(c, sync[s].num)
<1>1. sync[s].num \in 1..sync[s].latest /\ sync[s].latest \in Nat /\ sync[s].num \in Nat
  BY DEF TypeOK
<1>2. CASE sync[s].num = sync[s].latest
  <2>1. Advanced(s) = [sync EXCEPT ![s] = IdleSync]
    BY <1>2 DEF Advanced
  <2> QED BY <1>1, <2>1, IdleRound
<1>3. CASE sync[s].num # sync[s].latest
  <2>1. Advanced(s) = [sync EXCEPT ![s] = AtBlock(s, sync[s].num + 1)]
    BY <1>3 DEF Advanced
  <2>2. sync[s].num < sync[s].latest
    BY <1>1, <1>3
  <2> QED BY <1>1, <2>1, <2>2, BlockRound
<1> QED BY <1>2, <1>3

(* A sync without a block to scan has no transactions left.                *)
LEMMA NoneLeft ==
  ASSUME NEW q \in Seq(Txs), \A j \in DOMAIN q : FALSE
  PROVE  q = <<>>
<1>1. Len(q) \in Nat /\ DOMAIN q = 1..Len(q)
  OBVIOUS
<1>2. 1 \notin 1..Len(q)
  BY <1>1
<1>3. Len(q) = 0
  BY <1>1, <1>2
<1> QED BY <1>3

(* A sync goes to a round of the loop: all before it must be done.         *)
LEMMA RoundStep ==
  ASSUME HotInv, NEW s \in Syncs, NEW n \in Nat, NEW c, NextRound(c, n),
         sync' = [sync EXCEPT ![s] = c],
         UNCHANGED <<chain, accepted, clock, history, dropped, named, send, late>>,
         scanned' \in 0..Len(chain), skipped \subseteq skipped', skipped' \subseteq 1..Len(chain),
         1..scanned' \subseteq Done', 1..n \subseteq Done'
  PROVE  HotInv'
<1>1. /\ c \in SyncState /\ c.latest <= Len(chain) /\ c.pc # "scan" /\ c.todo = <<>>
      /\ c.pc = "fetch" => c.num = n + 1 /\ c.num \in 1..c.latest
  BY DEF NextRound
<1>2. \A j \in DOMAIN c.todo : FALSE
  BY <1>1
<1>3. c.pc \in {"fetch", "scan"} => c.num \in 1..c.latest /\ 1..c.num - 1 = 1..n
  BY <1>1
<1>4. /\ Len(chain) \in Nat /\ DOMAIN chain = 1..Len(chain) /\ c.latest \in Nat
  BY <1>1, SyncBounds DEF HotInv, SyncState
<1>5. 1..scanned' \subseteq {m \in DOMAIN chain : m \in Done'}
  BY <1>4
<1>6. c.pc \in {"fetch", "scan"} => 1..c.num - 1 \subseteq {m \in DOMAIN chain : m \in Done'}
  <2> SUFFICES ASSUME c.pc \in {"fetch", "scan"}, NEW m \in 1..c.num - 1
               PROVE  m \in DOMAIN chain /\ m \in Done'
    OBVIOUS
  <2>1. c.num \in 1..c.latest /\ m \in 1..n /\ m \in 1..c.num - 1
    BY <1>3
  <2>2. m \in DOMAIN chain
    BY <1>1, <1>4, <2>1 DEF SyncState
  <2> QED BY <2>1, <2>2
<1> QED BY <1>1, <1>2, <1>3, <1>5, <1>6, QuietSync

(* The start of a sync.                                                    *)
LEMMA LatestStep ==
  ASSUME HotInv, NEW s \in Syncs, Latest(s)
  PROVE  HotInv'
<1> DEFINE c == [sync[s] EXCEPT !.pc = "latest", !.latest = Len(chain)]
<1>1. /\ TypeOK /\ Len(chain) \in Nat /\ sync[s] \in SyncState
      /\ scanned \in 0..Len(chain) /\ 1..scanned \subseteq Done
      /\ skipped \subseteq 1..Len(chain)
  BY SyncBounds DEF HotInv, Progress, TypeOK, SyncState
<1>2. UNCHANGED <<chain, accepted, clock, history, dropped, named, send, late, scanned, skipped>>
      /\ sync[s].pc = "idle" /\ sync' = [sync EXCEPT ![s] = c]
  BY DEF Latest, env, index
<1>3. sync[s].todo = <<>>
  <2>1. sync[s].todo \in Seq(Txs)
    BY <1>1 DEF SyncState
  <2>2. \A j \in DOMAIN sync[s].todo : FALSE
    BY <1>2 DEF HotInv, TodoOfBlock
  <2> QED BY <2>1, <2>2, NoneLeft
<1>4. c \in SyncState /\ c.pc = "latest" /\ c.latest = Len(chain) /\ c.todo = <<>>
  BY <1>1, <1>3 DEF SyncState
<1> HIDE DEF c
<1>5. \A j \in DOMAIN c.todo : FALSE
  BY <1>4
<1>6. c.pc \notin {"fetch", "scan"} /\ c.pc # "scan" /\ c.latest <= Len(chain)
  BY <1>1, <1>4
<1> QED BY <1>1, <1>2, <1>4, <1>5, <1>6, QuietSync
(* The loop is entered at the block after block_number, or not at all.     *)
LEMMA CompareStep ==
  ASSUME HotInv, NEW s \in Syncs, Compare(s)
  PROVE  HotInv'
<1>1. /\ TypeOK /\ Len(chain) \in Nat
      /\ scanned \in 0..Len(chain) /\ 1..scanned \subseteq Done
      /\ skipped \subseteq 1..Len(chain) /\ scanned \in Nat
      /\ sync[s].latest \in Nat
  BY SyncBounds DEF HotInv, Progress, TypeOK
<1>2. UNCHANGED <<chain, accepted, clock, history, dropped, named, send, late, scanned, skipped>>
  BY DEF Compare, env, index
<1>3. PICK c : sync' = [sync EXCEPT ![s] = c] /\ NextRound(c, scanned)
  <2>1. CASE sync[s].latest <= scanned
    BY <1>1, <2>1, IdleRound DEF Compare
  <2>2. CASE ~(sync[s].latest <= scanned)
    <3>1. NextRound(AtBlock(s, scanned + 1), scanned)
      BY <1>1, <2>2, BlockRound
    <3> QED BY <2>2, <3>1 DEF Compare
  <2> QED BY <2>1, <2>2
<1>4. 1..scanned \subseteq Done'
  <2>1. \A t \in Txs : \A n \in DOMAIN chain : Scanned(t, n) => Scanned(t, n)'
    BY <1>2, IndexKept
  <2>2. \A n \in DOMAIN chain : n \in Done => n \in Done'
    BY <1>1, <1>2, <2>1, DoneStays
  <2> QED BY <1>1, <2>2
<1> QED BY <1>1, <1>2, <1>3, <1>4, RoundStep

(* The block that was passed over, or scanned, is behind the sync.         *)
LEMMA AdvanceStep ==
  ASSUME HotInv, NEW s \in Syncs, sync[s].pc \in {"fetch", "scan"}, sync' = Advanced(s),
         UNCHANGED <<chain, accepted, clock, history, dropped, named, send, late>>,
         scanned' \in {scanned, sync[s].num},
         skipped' = skipped \cup {sync[s].num} \/ (skipped' = skipped /\ sync[s].num \in Done)
  PROVE  HotInv'
<1> DEFINE m == sync[s].num
<1>1. /\ TypeOK /\ Len(chain) \in Nat /\ DOMAIN chain = 1..Len(chain)
      /\ scanned \in 0..Len(chain) /\ 1..scanned \subseteq Done
      /\ skipped \subseteq 1..Len(chain)
      /\ m \in Nat /\ m \in DOMAIN chain
      /\ 1..m - 1 \subseteq Done
  BY SyncBounds DEF HotInv, Progress, TypeOK
<1>2. PICK c : sync' = [sync EXCEPT ![s] = c] /\ NextRound(c, m)
  BY <1>1, AdvancedFacts
<1>3. \A n \in DOMAIN chain : n \in Done => n \in Done'
  <2>1. \A t \in Txs : \A n \in DOMAIN chain : Scanned(t, n) => Scanned(t, n)'
    BY IndexKept
  <2>2. skipped \subseteq skipped'
    OBVIOUS
  <2> QED BY <1>1, <2>1, <2>2, DoneStays
<1>4. m \in Done'
  <2>1. m \in skipped' => m \in Done'
    BY <1>1 DEF Done
  <2> QED BY <1>1, <1>3, <2>1
<1> HIDE DEF m
<1>5. 1..m \subseteq Done'
  <2> SUFFICES ASSUME NEW n \in 1..m PROVE n \in Done'
    OBVIOUS
  <2>1. n = m \/ n \in 1..m - 1
    BY <1>1
  <2>2. n \in DOMAIN chain
    BY <1>1
  <2> QED BY <1>1, <1>3, <1>4, <2>1, <2>2
<1>6. 1..scanned' \subseteq Done'
  <2>1. 1..scanned \subseteq Done'
    BY <1>1, <1>3
  <2> QED BY <1>5, <2>1 DEF m
<1>7. scanned' \in 0..Len(chain) /\ skipped \subseteq skipped' /\ skipped' \subseteq 1..Len(chain)
  <2>1. m \in 1..Len(chain) /\ m \in 0..Len(chain)
    BY <1>1
  <2>2. scanned' \in 0..Len(chain)
    BY <1>1, <2>1 DEF m
  <2>3. skipped' = skipped \cup {m} \/ skipped' = skipped
    BY DEF m
  <2> QED BY <1>1, <2>1, <2>2, <2>3
<1> QED BY <1>1, <1>2, <1>5, <1>6, <1>7, RoundStep

(* A block that could not be fetched is passed over.                       *)
LEMMA FetchFailsStep ==
  ASSUME HotInv, NEW s \in Syncs, FetchFails(s)
  PROVE  HotInv'
<1>1. /\ UNCHANGED <<chain, accepted, clock, history, dropped, named, send, late, scanned>>
      /\ sync[s].pc \in {"fetch", "scan"} /\ sync' = Advanced(s)
      /\ skipped' = skipped \cup {sync[s].num}
  BY DEF FetchFails, env, index
<1> QED BY <1>1, AdvanceStep

(* With nothing left to scan the block is done.                            *)
LEMMA SetNumberStep ==
  ASSUME HotInv, NEW s \in Syncs, SetNumber(s)
  PROVE  HotInv'
<1>1. /\ UNCHANGED <<chain, accepted, clock, history, dropped, named, send, late, skipped>>
      /\ sync[s].pc = "scan" /\ sync[s].todo = <<>> /\ sync' = Advanced(s)
      /\ scanned' = sync[s].num
  BY DEF SetNumber, env
<1>2. sync[s].num \in Nat
  BY <1>1, SyncBounds DEF HotInv
<1>3. \A t : ~Waiting(sync[s].todo, t)
  BY <1>1 DEF Waiting
<1>4. sync[s].num \in Done
  BY <1>1, <1>2, <1>3 DEF HotInv, Progress, Done
<1> QED BY <1>1, <1>4, AdvanceStep

(* A fetched block is scanned from its first transaction, an error as a    *)
(* block without any.                                                      *)
LEMMA FetchStep ==
  ASSUME HotInv, NEW s \in Syncs, Fetch(s) \/ FetchError(s)
  PROVE  HotInv'
<1> DEFINE m == sync[s].num
           full == [sync[s] EXCEPT !.pc = "scan", !.todo = chain[m]]
           none == [sync[s] EXCEPT !.pc = "scan"]
<1>1. /\ TypeOK /\ Len(chain) \in Nat /\ DOMAIN chain = 1..Len(chain) /\ sync[s] \in SyncState
      /\ scanned \in 0..Len(chain) /\ 1..scanned \subseteq Done
      /\ skipped \subseteq 1..Len(chain)
      /\ sync[s].pc = "fetch"
      /\ m \in 1..sync[s].latest /\ m \in DOMAIN chain /\ sync[s].latest <= Len(chain)
      /\ 1..m - 1 \subseteq Done
      /\ chain[m] \in Seq(Txs)
  <2>1. TypeOK /\ sync[s] \in SyncState /\ sync[s].pc = "fetch" /\ skipped \subseteq 1..Len(chain)
    BY DEF HotInv, TypeOK, SyncState, Fetch, FetchError
  <2>2. /\ Len(chain) \in Nat /\ DOMAIN chain = 1..Len(chain) /\ scanned \in 0..Len(chain)
        /\ m \in 1..sync[s].latest /\ m \in DOMAIN chain /\ sync[s].latest <= Len(chain)
    BY <2>1, SyncBounds
  <2>3. 1..scanned \subseteq Done /\ 1..m - 1 \subseteq Done
    BY <2>1 DEF HotInv, Progress
  <2>4. chain[m] \in Seq(Txs)
    BY <2>1, <2>2 DEF TypeOK
  <2> QED BY <2>1, <2>2, <2>3, <2>4
<1>2. UNCHANGED <<chain, accepted, clock, history, dropped, named, send, late, scanned>>
  BY DEF Fetch, FetchError, env, index
<1>3. CASE Fetch(s)
  <2>1. /\ full \in SyncState /\ full.pc = "scan" /\ full.num = m /\ full.todo = chain[m]
        /\ full.latest = sync[s].latest
    BY <1>1 DEF SyncState
  <2>2. sync' = [sync EXCEPT ![s] = full] /\ skipped' = skipped
    BY <1>3 DEF Fetch
  <2> HIDE DEF full, m
  <2>3. \A j \in DOMAIN full.todo : Has(chain[full.num], full.todo[j])
    BY <2>1 DEF Has
  <2>4. \A t \in Txs : Has(chain[full.num], t) => Waiting(full.todo, t)
    BY <2>1 DEF Has, Waiting
  <2> QED BY <1>1, <1>2, <2>1, <2>2, <2>3, <2>4, QuietSync
<1>4. CASE FetchError(s)
  <2>1. sync[s].todo = <<>>
    <3>1. sync[s].todo \in Seq(Txs)
      BY <1>1 DEF SyncState
    <3>2. \A j \in DOMAIN sync[s].todo : FALSE
      BY <1>1 DEF HotInv, TodoOfBlock
    <3> QED BY <3>1, <3>2, NoneLeft
  <2>2. /\ none \in SyncState /\ none.pc = "scan" /\ none.num = m /\ none.todo = <<>>
        /\ none.latest = sync[s].latest
    BY <1>1, <2>1 DEF SyncState
  <2>3. sync' = [sync EXCEPT ![s] = none] /\ skipped' = skipped \cup {m}
    BY <1>4 DEF FetchError
  <2> HIDE DEF none, m
  <2>4. \A j \in DOMAIN none.todo : FALSE
    BY <2>2
  <2>5. skipped \subseteq skipped' /\ skipped' \subseteq 1..Len(chain) /\ none.num \in skipped'
    BY <1>1, <2>2, <2>3
  <2> QED BY <1>1, <1>2, <2>2, <2>3, <2>4, <2>5, QuietSync
<1> QED BY <1>3, <1>4
(* What is left of a list without its head.                                *)
LEMMA HeadTail ==
  ASSUME NEW q \in Seq(Txs), q # <<>>
  PROVE  /\ Head(q) = q[1] /\ 1 \in DOMAIN q /\ DOMAIN q = 1..Len(q) /\ Len(q) \in Nat
         /\ Tail(q) \in Seq(Txs) /\ DOMAIN Tail(q) = 1..Len(q) - 1
         /\ \A j \in 1..Len(q) - 1 : Tail(q)[j] = q[j + 1]
OBVIOUS

(* A transaction of the block is scanned: it is settled from then on,      *)
(* because its record was added or because it moves no value.              *)
LEMMA ScanStep ==
  ASSUME HotInv, NEW s \in Syncs, Scan(s)
  PROVE  HotInv'
<1> DEFINE q == sync[s].todo
           t == Head(q)
           m == sync[s].num
           r == [tx |-> t, number |-> m, hash |-> m, born |-> clock]
           c == [sync[s] EXCEPT !.todo = Tail(q)]
<1>1. TypeOK /\ sync[s] \in SyncState /\ sync[s].pc = "scan" /\ q # <<>>
      /\ skipped \subseteq 1..Len(chain)
  BY DEF HotInv, TypeOK, SyncState, Scan
<1>2. /\ UNCHANGED <<chain, accepted, clock, scanned, named, send, skipped, late>>
      /\ sync' = [sync EXCEPT ![s] = c]
      /\ IF Data[t].kind = "zero" THEN UNCHANGED <<history, dropped>> ELSE Add(r)
  BY DEF Scan, env
<1>3. /\ Len(chain) \in Nat /\ DOMAIN chain = 1..Len(chain) /\ scanned \in 0..Len(chain)
      /\ m \in 1..sync[s].latest /\ m \in DOMAIN chain /\ sync[s].latest <= Len(chain)
      /\ sync[s].latest \in Nat /\ q \in Seq(Txs)
  BY <1>1, SyncBounds
<1>4. /\ 1..scanned \subseteq Done /\ 1..m - 1 \subseteq Done
      /\ m \in skipped \/ \A u \in Txs : Has(chain[m], u) => Waiting(q, u) \/ <<u, m>> \in Settled
  BY <1>1 DEF HotInv, Progress, In
<1>5. \A j \in DOMAIN q : Has(chain[m], q[j])
  BY DEF HotInv, TodoOfBlock, In
<1>6. /\ t \in Txs /\ Has(chain[m], t)
      /\ Tail(q) \in Seq(Txs)
      /\ \A j \in DOMAIN Tail(q) : \E k \in DOMAIN q : Tail(q)[j] = q[k]
      /\ \A u : Waiting(q, u) => u = t \/ Waiting(Tail(q), u)
  <2>1. /\ t = q[1] /\ 1 \in DOMAIN q /\ DOMAIN q = 1..Len(q) /\ Len(q) \in Nat
        /\ Tail(q) \in Seq(Txs) /\ DOMAIN Tail(q) = 1..Len(q) - 1
        /\ \A j \in 1..Len(q) - 1 : Tail(q)[j] = q[j + 1]
    BY <1>1, <1>3, HeadTail
  <2> HIDE DEF q, t, m
  <2>2. \A j \in 1..Len(q) - 1 : j + 1 \in DOMAIN q
    BY <2>1
  <2>3. ASSUME NEW k \in DOMAIN q, q[k] # t PROVE \E j \in DOMAIN Tail(q) : Tail(q)[j] = q[k]
    <3>1. k - 1 \in 1..Len(q) - 1 /\ (k - 1) + 1 = k
      BY <2>1, <2>3
    <3> QED BY <2>1, <3>1
  <2>4. t \in Txs
    BY <1>3, <2>1
  <2> QED BY <1>5, <2>1, <2>2, <2>3, <2>4 DEF Waiting
<1>7. /\ c \in SyncState /\ c.pc = "scan" /\ c.latest = sync[s].latest /\ c.num = m /\ c.todo = Tail(q)
  BY <1>1, <1>6 DEF SyncState
<1> HIDE DEF c, q
<1>8. \A j \in DOMAIN c.todo : c.pc = "scan" /\ Has(chain[c.num], c.todo[j])
  BY <1>5, <1>6, <1>7
<1>9. CASE Data[t].kind = "zero"
  <2>1. <<t, m>> \in Settled
    <3>1. m \in Nat
      BY <1>3
    <3> HIDE DEF t, m
    <3> QED BY <1>6, <1>9, <3>1, SettledIff
  <2>2. \A u \in Txs : Has(chain[c.num], u) /\ m \notin skipped => Waiting(c.todo, u) \/ <<u, c.num>> \in Settled
    BY <1>4, <1>6, <1>7, <2>1
  <2>3. UNCHANGED <<history, dropped>>
    BY <1>2, <1>9
  <2> HIDE DEF t, m
  <2> QED BY <1>1, <1>2, <1>3, <1>4, <1>7, <1>8, <2>2, <2>3, QuietSync
<1>10. CASE Data[t].kind # "zero"
  <2>1. Add(r)
    BY <1>2, <1>10
  <2>2. r.tx = t /\ r.number = m /\ r.hash = m /\ m \in Nat /\ m # NoHash
    BY <1>3, HashAssumption
  <2>3. r \in Record
    <3>1. clock \in 0..MaxClock /\ Len(chain) <= MaxBlocks /\ MaxBlocks \in Nat
      BY <1>1, BoundsAssumption DEF TypeOK
    <3>2. m \in 1..MaxBlocks /\ m \in 1..MaxBlocks + 1
      BY <1>3, <3>1
    <3> HIDE DEF t, m
    <3> QED BY <1>6, <3>1, <3>2 DEF Record
  <2> HIDE DEF r, t, m
  <2>4. m <= Len(chain) + 1
    BY <1>3
  <2>5. Sound(r, r.tx \in late')
    BY <1>3, <1>6, <2>2, <2>4 DEF Sound, In
  <2>6. /\ OneBlock' /\ RecordsTrue' /\ Distinct' /\ Agree'
        /\ \A u \in Txs : \A n \in DOMAIN chain : Scanned(u, n) => Scanned(u, n)'
        /\ \A u \in Txs : \A a \in Parties(u) :
             Holds(history[a], u) \/ <<a, u>> \in dropped => Holds(history'[a], u) \/ <<a, u>> \in dropped'
    BY <1>2, <2>1, <2>3, <2>5, AddKeeps
  <2>7. <<r.tx, r.hash>> \in Settled'
    BY <1>1, <1>2, <1>3, <1>6, <2>1, <2>2, <2>3, <2>6, AddScanned DEF HotInv, In
  <2>8. <<t, m>> \in Settled'
    BY <2>2, <2>7
  <2>9. /\ \A u \in Txs : \A n \in DOMAIN chain : <<u, n>> \in Settled => <<u, n>> \in Settled'
        /\ \A n \in DOMAIN chain : n \in Done => n \in Done'
    BY <1>1, <1>2, <2>6, DoneStays
  <2>10. \A u \in Txs : Has(chain[c.num], u) /\ m \notin skipped => Waiting(c.todo, u) \/ <<u, c.num>> \in Settled'
    BY <1>3, <1>4, <1>6, <1>7, <2>8, <2>9
  <2>11. 1..scanned' \subseteq Done' /\ 1..c.num - 1 \subseteq Done'
    <3>1. 1..scanned \subseteq DOMAIN chain /\ 1..m - 1 \subseteq DOMAIN chain
      BY <1>3
    <3> QED BY <1>2, <1>4, <1>7, <2>9, <3>1
  <2>12. /\ TodoOfBlock' /\ Progress'
         /\ sync' \in [Syncs -> SyncState]
         /\ \A u \in Syncs : /\ sync'[u].latest <= Len(chain')
                             /\ sync'[u].pc \in {"fetch", "scan"} => sync'[u].num \in 1..sync'[u].latest
    BY <1>2, <1>3, <1>7, <1>8, <2>6, <2>10, <2>11, OneSync
  <2>13. TypeOK'
    <3>1. history' \in [Addrs -> Seq(Record)] /\ (\A a \in Addrs : Len(history'[a]) <= MaxPerAddr)
          /\ dropped' \subseteq Addrs \X Txs
      BY <1>1, <2>1, <2>3, AddFacts DEF HotInv
    <3> QED BY <1>1, <1>2, <2>12, <3>1 DEF TypeOK, SyncState
  <2>14. GuessesAhead'
    BY <1>2 DEF HotInv, GuessesAhead
  <2>15. Answered'
    <3> SUFFICES ASSUME NEW u \in Proxied, send'[u].pc = "indexed", NEW a \in Parties(u)
                 PROVE  Holds(history'[a], u) \/ <<a, u>> \in dropped'
      BY DEF Answered, Holds, Parties
    <3>1. u \in Txs
      BY DataAssumption
    <3>2. Holds(history[a], u) \/ <<a, u>> \in dropped
      BY <1>2 DEF HotInv, Answered
    <3> QED BY <2>6, <3>1, <3>2
  <2> QED BY <2>6, <2>12, <2>13, <2>14, <2>15 DEF HotInv
<1> QED BY <1>9, <1>10
-----------------------------------------------------------------------------
(* The invariant holds                                                     *)

(* Nothing is mined, indexed or scanned to begin with.                     *)
LEMMA HotInit ==
  ASSUME Init
  PROVE  HotInv
<1>1. /\ chain = <<>> /\ history = [a \in Addrs |-> <<>>] /\ scanned = 0
      /\ sync = [s \in Syncs |-> IdleSync] /\ send = [t \in Proxied |-> IdleSend]
      /\ skipped = {} /\ dropped = {} /\ late = {} /\ accepted = {} /\ clock = 0
      /\ named = {Data[t].from : t \in Proxied}
  BY DEF Init
<1>2. \A a \in Addrs : history[a] = <<>> /\ DOMAIN history[a] = {} /\ Len(history[a]) = 0
  BY <1>1
<1>3. \A s \in Syncs : sync[s] = IdleSync /\ sync[s].pc = "idle" /\ DOMAIN sync[s].todo = {}
  BY <1>1, IdleType
<1>4. \A t \in Proxied : send[t].pc = "idle"
  BY <1>1 DEF IdleSend
<1>5. chain \in Seq(Seq(Txs)) /\ Len(chain) = 0 /\ DOMAIN chain = {}
  BY <1>1
<1>6. TypeOK
  <2>1. history \in [Addrs -> Seq(Record)] /\ \A a \in Addrs : Len(history[a]) <= MaxPerAddr
    BY <1>1, <1>2, BoundsAssumption
  <2>2. send \in [Proxied -> [pc : {"idle", "sent", "guessed", "indexed", "done"},
                             number : 0..MaxBlocks + 1, born : 0..MaxClock]]
    BY <1>1, BoundsAssumption DEF IdleSend
  <2>3. sync \in [Syncs -> [pc : {"idle", "latest", "fetch", "scan"},
                           latest : Nat, num : Nat, todo : Seq(Txs)]]
    BY <1>1, IdleType DEF SyncState
  <2>4. \A s \in Syncs : sync[s].latest <= Len(chain) /\ sync[s].pc \notin {"fetch", "scan"}
    BY <1>1, <1>5, IdleType
  <2>5. named \subseteq Addrs
    BY <1>1, DataAssumption
  <2>6. scanned \in 0..Len(chain) /\ Len(chain) <= MaxBlocks /\ clock \in 0..MaxClock
    BY <1>1, <1>5, BoundsAssumption
  <2> QED BY <1>1, <1>5, <2>1, <2>2, <2>3, <2>4, <2>5, <2>6 DEF TypeOK
<1>7. OneBlock /\ TodoOfBlock
  BY <1>3, <1>5 DEF OneBlock, TodoOfBlock
<1>8. GuessesAhead /\ Answered
  BY <1>4 DEF GuessesAhead, Answered
<1>9. RecordsTrue /\ Distinct /\ Agree
  BY <1>2 DEF RecordsTrue, Distinct, DistinctIn, Agree
<1>10. Progress
  BY <1>1, <1>3 DEF Progress
<1> QED BY <1>6, <1>7, <1>8, <1>9, <1>10 DEF HotInv

(* Every step keeps it.                                                    *)
LEMMA HotStep ==
  ASSUME HotInv, [Next]_vars
  PROVE  HotInv'
<1>1. ASSUME NEW t \in Proxied, Forward(t) \/ NotIndexed(t) \/ Guess(t) \/ IndexRaw(t)
      PROVE  HotInv'
  BY <1>1, SendStep, IndexRawStep
<1>2. ASSUME NEW s \in Syncs, Latest(s) \/ Compare(s) \/ Fetch(s) \/ FetchFails(s) \/ FetchError(s)
                              \/ Scan(s) \/ SetNumber(s)
      PROVE  HotInv'
  BY <1>2, LatestStep, CompareStep, FetchStep, FetchFailsStep, ScanStep, SetNumberStep
<1>3. CASE UNCHANGED vars
  <2>1. UNCHANGED <<chain, accepted, clock, history, scanned, dropped, named, send, sync, skipped, late>>
    BY <1>3 DEF vars, env, index
  <2>2. TypeOK'
    BY <2>1 DEF HotInv, TypeOK
  <2>3. Len(chain') \in Nat /\ Len(chain) <= Len(chain')
    BY <2>1, SyncBounds DEF HotInv
  <2> QED BY <2>1, <2>2, <2>3, IndexKept, SendsKept, SyncsKept DEF HotInv
<1> QED BY <1>1, <1>2, <1>3, MineStep, TickStep DEF Next

(* HotInv is an invariant of the index.                                    *)
LEMMA HotInvariant == Spec => []HotInv
<1>1. Init => HotInv
  BY HotInit
<1>2. HotInv /\ [Next]_vars => HotInv'
  BY HotStep
<1> QED BY <1>1, <1>2, PTL DEF Spec

(* The shape of the state: no list outgrows MAX_PER_ADDR, block_number and *)
(* the syncs stay behind the chain (add_native_transfer_record and         *)
(* sync_hot_storage).                                                      *)
THEOREM IndexTypeCorrect == Spec => []TypeOK
<1>1. HotInv => TypeOK
  BY DEF HotInv
<1> QED BY <1>1, HotInvariant, PTL

(* The blocks the index names are those of the chain, for every number of  *)
(* accounts, transactions and concurrent syncs, and every MAX_PER_ADDR and *)
(* TTL (index_from_raw_tx, add_native_transfer_record's merge).            *)
THEOREM TrueBlocks == Spec => []BlocksAreTrue
<1>1. ASSUME HotInv PROVE BlocksAreTrue
  <2>1. ASSUME NEW t \in Txs, NEW r \in Found(t), r.hash # NoHash
        PROVE  r.hash \in DOMAIN chain /\ \E k \in DOMAIN chain[r.hash] : chain[r.hash][k] = t
    <3>1. PICK a \in Addrs : \E i \in DOMAIN history[a] : history[a][i].tx = t /\ r = history[a][i]
      BY DEF Found
    <3>2. RecordTrue(chain, a, r, r.tx \in late)
      BY <1>1, <3>1 DEF HotInv, RecordsTrue
    <3> QED BY <2>1, <3>1, <3>2 DEF RecordTrue, Has
  <2>2. ASSUME NEW n \in DOMAIN chain, NEW r \in Injected(n), r.hash # NoHash
        PROVE  r.tx \in late
    <3>1. n \in Nat /\ n # 0
      BY <1>1, SyncBounds DEF HotInv
    <3>2. PICK a \in Addrs : \E i \in DOMAIN history[a] : r = history[a][i]
      BY DEF Injected
    <3>3. r.number = n /\ ~Has(chain[n], r.tx)
      BY <3>1 DEF Injected, Has
    <3>4. RecordTrue(chain, a, r, r.tx \in late)
      BY <1>1, <3>2 DEF HotInv, RecordsTrue
    <3>5. Has(chain[r.hash], r.tx) /\ (r.tx \in late \/ r.number = r.hash)
      BY <2>2, <3>4 DEF RecordTrue
    <3> QED BY <3>3, <3>5
  <2> QED BY <2>1, <2>2 DEF BlocksAreTrue
<1> QED BY <1>1, HotInvariant, PTL

(* However often a transfer is indexed and by whom, its copies are one     *)
(* (add_native_transfer_record under one write lock).                      *)
THEOREM OneAnswer == Spec => []CopiesAgree
<1>1. ASSUME HotInv PROVE CopiesAgree
  <2>1. \A a \in Addrs : \A i, j \in DOMAIN history[a] :
          history[a][i].tx = history[a][j].tx => i = j
    BY <1>1 DEF HotInv, Distinct, DistinctIn
  <2>2. ASSUME NEW t \in Txs, \A a \in Parties(t) : <<a, t>> \notin dropped, NEW r \in Found(t)
        PROVE  \A b \in Parties(t) :
                 /\ Holds(history[b], t)
                 /\ \A j \in DOMAIN history[b] : history[b][j].tx = t => history[b][j] = r
    <3>1. PICK a \in Addrs : \E i \in DOMAIN history[a] : history[a][i].tx = t /\ r = history[a][i]
      BY DEF Found
    <3> QED BY <1>1, <2>2, <3>1 DEF HotInv, Agree
  <2>3. ASSUME NEW t \in Txs, \A a \in Parties(t) : <<a, t>> \notin dropped,
               NEW r \in Found(t), NEW q \in Found(t)
        PROVE  r = q
    <3>1. PICK a \in Addrs : \E i \in DOMAIN history[a] : history[a][i].tx = t /\ q = history[a][i]
      BY DEF Found
    <3>2. a \in Parties(t)
      BY <1>1, <3>1 DEF HotInv, RecordsTrue, RecordTrue
    <3> QED BY <2>2, <2>3, <3>1, <3>2
  <2> QED BY <2>1, <2>2, <2>3 DEF CopiesAgree
<1> QED BY <1>1, HotInvariant, PTL

(* What block_number covers is in the index, whatever syncs interleave     *)
(* (sync_hot_storage, its continue past a block that was not fetched).     *)
THEOREM NothingMissed == Spec => []ScannedUnlessSkipped
<1>1. ASSUME HotInv PROVE ScannedUnlessSkipped
  <2> SUFFICES ASSUME NEW n \in 1..scanned, n \notin skipped, NEW k \in DOMAIN chain[n],
                      Data[chain[n][k]].kind # "zero"
               PROVE  Scanned(chain[n][k], n)
    BY DEF ScannedUnlessSkipped
  <2>1. n \in Nat /\ n \in DOMAIN chain /\ chain[n] \in Seq(Txs)
    BY <1>1, SyncBounds DEF HotInv, TypeOK
  <2>2. n \in Done
    BY <1>1 DEF HotInv, Progress
  <2> DEFINE t == chain[n][k]
  <2>3. t \in Txs /\ In(t, n)
    BY <2>1 DEF In, Has
  <2>4. <<t, n>> \in Settled
    BY <2>2, <2>3 DEF Done
  <2> HIDE DEF t
  <2>5. Data[t].kind = "zero" \/ Scanned(t, n)
    BY <2>1, <2>3, <2>4, SettledIff
  <2> QED BY <2>5 DEF t
<1> QED BY <1>1, HotInvariant, PTL

(* An answered submission can be looked up (eth_sendRawTransaction).       *)
THEOREM FoundOnceAnswered == Spec => []FoundAfterSend
<1>1. ASSUME HotInv PROVE FoundAfterSend
  BY <1>1 DEF HotInv, Answered, GuessesAhead, FoundAfterSend
<1> QED BY <1>1, HotInvariant, PTL

-----------------------------------------------------------------------------
(* The trie builder                                                        *)

(* The chunks                                                              *)

(* The ceiling of a quotient.                                              *)
LEMMA CeilBounds ==
  ASSUME NEW n \in Nat, NEW m \in Nat \ {0}
  PROVE  /\ (n + m - 1) \div m \in Nat
         /\ n <= m * ((n + m - 1) \div m)
OBVIOUS

(* The floor of a quotient.                                                *)
LEMMA Floor ==
  ASSUME NEW n \in Nat, NEW m \in Nat \ {0}
  PROVE  /\ n \div m \in Nat
         /\ (n \div m) * m <= n
         /\ n < (n \div m) * m + m
OBVIOUS

(* The arithmetic of a chunk in one place.                                 *)
LEMMA ChunkBounds ==
  ASSUME deltas \in Seq(Delta)
  PROVE  /\ Len(deltas) \in Nat
         /\ DeltaIds = 1..Len(deltas)
         /\ ChunkSize \in Nat
         /\ Len(deltas) <= Ways * ChunkSize
         /\ \A w \in Threads : /\ w \in Nat
                               /\ w * ChunkSize \in Nat
                               /\ First(w) = w * ChunkSize + 1
                               /\ Stop(w) \in Nat
                               /\ Stop(w) <= Len(deltas) + 1
                               /\ Stop(w) <= First(w) + ChunkSize \/ Len(deltas) < First(w)
<1>1. Len(deltas) \in Nat /\ DeltaIds = 1..Len(deltas)
  BY DEF DeltaIds
<1>2. ChunkSize \in Nat /\ Len(deltas) <= Ways * ChunkSize
  BY <1>1, CeilBounds, WaysAssumption DEF ChunkSize
<1>3. ASSUME NEW w \in Threads
      PROVE  /\ w \in Nat
             /\ w * ChunkSize \in Nat
  BY <1>2, <1>3, WaysAssumption DEF Threads
<1>4. ASSUME NEW w \in Threads
      PROVE  /\ First(w) = w * ChunkSize + 1
             /\ Stop(w) \in Nat
             /\ Stop(w) <= Len(deltas) + 1
             /\ Stop(w) <= First(w) + ChunkSize \/ Len(deltas) < First(w)
  <2>1. First(w) = w * ChunkSize + 1
    BY DEF First
  <2> HIDE DEF ChunkSize
  <2> QED BY <1>1, <1>2, <1>3, <2>1 DEF Stop
<1> QED BY <1>1, <1>2, <1>3, <1>4

(* A delta is in one chunk at most.                                        *)
LEMMA ChunkDisjoint ==
  ASSUME deltas \in Seq(Delta), NEW w \in Threads, NEW v \in Threads,
         NEW i \in Chunk(w), i \in Chunk(v)
  PROVE  w = v
<1> DEFINE n == Len(deltas)
           c == ChunkSize
<1>1. /\ n \in Nat /\ c \in Nat /\ w \in Nat /\ v \in Nat
      /\ i \in 1..n
      /\ First(w) = w * c + 1 /\ First(v) = v * c + 1
      /\ First(w) <= i /\ First(v) <= i /\ i < Stop(w) /\ i < Stop(v)
      /\ Stop(w) \in Nat /\ Stop(v) \in Nat
      /\ Stop(w) <= First(w) + c \/ n < First(w)
      /\ Stop(v) <= First(v) + c \/ n < First(v)
  BY ChunkBounds DEF Chunk
<1> HIDE DEF n, c
<1>2. ASSUME NEW a \in Nat, NEW b \in Nat, a < b
      PROVE  a * c + c <= b * c
  <2>1. (a + 1) * c <= b * c
    BY <1>1, <1>2, MulMono
  <2>2. (a + 1) * c = a * c + c
    BY <1>1
  <2> QED BY <2>1, <2>2
<1>3. i <= w * c + c /\ i <= v * c + c /\ w * c + 1 <= i /\ v * c + 1 <= i
      /\ w * c \in Nat /\ v * c \in Nat
  BY <1>1
<1>4. ~ (w < v)
  BY <1>1, <1>2, <1>3
<1>5. ~ (v < w)
  BY <1>1, <1>2, <1>3
<1> QED BY <1>1, <1>4, <1>5

(* Every delta is in some chunk.                                           *)
LEMMA ChunkCover ==
  ASSUME deltas \in Seq(Delta), NEW i \in DeltaIds
  PROVE  \E w \in Threads : i \in Chunk(w)
<1> DEFINE n == Len(deltas)
           c == ChunkSize
           w == (i - 1) \div c
<1>1. n \in Nat /\ c \in Nat /\ i \in 1..n /\ n <= Ways * c
  BY ChunkBounds
<1>2. c # 0
  <2> HIDE DEF c, n
  <2> QED BY <1>1, WaysAssumption
<1>3. w \in Nat /\ w * c <= i - 1 /\ i - 1 < w * c + c
  <2> HIDE DEF c, n
  <2> QED BY <1>1, <1>2, Floor
<1>4. w < Ways
  <2> HIDE DEF c, n, w
  <2>1. CASE Ways <= w
    <3>1. Ways * c <= w * c
      BY <1>1, <1>3, <2>1, MulMono, WaysAssumption
    <3> QED BY <1>1, <1>3, <3>1, WaysAssumption
  <2> QED BY <1>3, <2>1, WaysAssumption
<1>5. w \in Threads
  <2> HIDE DEF w
  <2> QED BY <1>3, <1>4, WaysAssumption DEF Threads
<1>6. First(w) = w * c + 1
  BY DEF First
<1>7. First(w) <= i /\ i < Stop(w)
  <2> HIDE DEF c, w
  <2>1. n = Len(deltas) OBVIOUS
  <2>2. Stop(w) = IF First(w) + c <= n THEN First(w) + c ELSE n + 1
    BY DEF Stop, c
  <2> HIDE DEF n
  <2> QED BY <1>1, <1>3, <1>6, <2>2
<1>8. i \in Chunk(w)
  BY <1>7 DEF Chunk
<1> QED BY <1>5, <1>8

-----------------------------------------------------------------------------
(* The inductive invariant: the leaves in the partitions are exactly the   *)
(* deltas the threads have passed, each once and under its nibble.         *)

Pushed(i) == \E w \in Threads : i \in Chunk(w) /\ i < pos[w]

LeavesPushed ==
  \A n \in Nibbles : \A k \in DOMAIN partitions[n] :
    NibbleOf(partitions[n][k]) = n /\ Pushed(partitions[n][k])

LeavesDistinct ==
  \A n \in Nibbles : \A k, l \in DOMAIN partitions[n] :
    partitions[n][k] = partitions[n][l] => k = l

PushedOccur == \A i \in DeltaIds : Pushed(i) => Occurs(i)

AllJoined ==
  phase # "push" /\ deltas # <<>> => \A w \in Threads : pos[w] >= Stop(w)

TrieInv ==
  /\ TrieTypeOK
  /\ LeavesPushed
  /\ LeavesDistinct
  /\ PushedOccur
  /\ AllJoined
  /\ ChunkOrderKept

(* The input is a sequence of deltas.                                      *)
LEMMA DeltasAreSeq ==
  ASSUME TrieTypeOK
  PROVE  deltas \in Seq(Delta)
BY InputsAssumption DEF TrieTypeOK

(* Each delta belongs to a branch.                                         *)
LEMMA NibbleType ==
  ASSUME TrieTypeOK, NEW i \in DeltaIds
  PROVE  NibbleOf(i) \in Nibbles
<1>1. deltas[i] \in Delta
  BY DeltasAreSeq DEF DeltaIds
<1> QED BY <1>1, NibbleAssumption DEF NibbleOf, Delta

(* The invariant before the threads start.                                 *)
LEMMA TrieInitInv == TrieInit => TrieInv
<1> SUFFICES ASSUME TrieInit PROVE TrieInv
  OBVIOUS
<1> USE DEF TrieInit
<1>1. deltas \in Seq(Delta)
  BY InputsAssumption
<1>2. \A w \in Threads : pos[w] = First(w) /\ First(w) \in Nat
  BY <1>1, ChunkBounds
<1>3. TrieTypeOK
  BY <1>2 DEF TrieTypeOK
<1>4. LeavesPushed /\ LeavesDistinct /\ ChunkOrderKept
  BY DEF LeavesPushed, LeavesDistinct, ChunkOrderKept
<1>5. PushedOccur
  BY <1>2, <1>1, ChunkBounds DEF PushedOccur, Pushed, Chunk
<1>6. AllJoined
  BY DEF AllJoined
<1> QED BY <1>3, <1>4, <1>5, <1>6 DEF TrieInv

(* The one step that moves a leaf.                                         *)
LEMMA PushInv ==
  ASSUME TrieInv, NEW w \in Threads, Push(w)
  PROVE  TrieInv'
<1> DEFINE i == pos[w]
           m == NibbleOf(i)
<1>1. deltas \in Seq(Delta)
  BY DeltasAreSeq DEF TrieInv
<1>2. i \in DeltaIds /\ i \in Chunk(w) /\ i \in Nat /\ i + 1 \in First(w)..Stop(w)
  BY <1>1, ChunkBounds DEF TrieInv, TrieTypeOK, Push, Chunk
<1>3. m \in Nibbles
  BY <1>2, NibbleType DEF TrieInv
<1>4. /\ \A n \in Nibbles : partitions[n] \in Seq(DeltaIds)
      /\ DOMAIN partitions = Nibbles
  BY DEF TrieInv, TrieTypeOK
<1>5. /\ deltas' = deltas /\ phase' = phase
      /\ DeltaIds' = DeltaIds
      /\ \A v \in Threads : Chunk(v)' = Chunk(v) /\ Stop(v)' = Stop(v) /\ First(v)' = First(v)
      /\ \A j : NibbleOf(j)' = NibbleOf(j)
  BY DEF Push, DeltaIds, Chunk, Stop, First, ChunkSize, NibbleOf
<1>6. /\ pos'[w] = i + 1
      /\ \A v \in Threads : v # w => pos'[v] = pos[v]
      /\ DOMAIN pos' = Threads
  BY DEF Push, TrieInv, TrieTypeOK
<1>7. /\ partitions'[m] = Append(partitions[m], i)
      /\ \A n \in Nibbles : n # m => partitions'[n] = partitions[n]
      /\ DOMAIN partitions' = Nibbles
  BY <1>3, <1>4 DEF Push
<1>8. ~Pushed(i)
  <2> SUFFICES ASSUME NEW v \in Threads, i \in Chunk(v), i < pos[v]
               PROVE  FALSE
    BY DEF Pushed
  <2>1. v = w
    BY <1>1, <1>2, ChunkDisjoint
  <2> QED BY <1>2, <2>1
<1>9. \A j \in DeltaIds : Pushed(j)' <=> Pushed(j) \/ j = i
  <2> SUFFICES ASSUME NEW j \in DeltaIds
               PROVE  Pushed(j)' <=> Pushed(j) \/ j = i
    OBVIOUS
  <2>1. Pushed(j)' <=> \E v \in Threads : j \in Chunk(v) /\ j < pos'[v]
    BY <1>5 DEF Pushed
  <2>2. ASSUME NEW v \in Threads, j \in Chunk(v), j < pos'[v]
        PROVE  Pushed(j) \/ j = i
    <3>1. CASE v = w
      <4>1. j \in Nat
        BY <1>1, ChunkBounds
      <4> QED BY <1>2, <1>6, <2>2, <3>1, <4>1 DEF Pushed
    <3>2. CASE v # w
      BY <1>6, <2>2, <3>2 DEF Pushed
    <3> QED BY <3>1, <3>2
  <2>3. ASSUME NEW v \in Threads, j \in Chunk(v), j < pos[v]
        PROVE  j < pos'[v]
    <3>1. j \in Nat
      BY <1>1, ChunkBounds
    <3> QED BY <1>2, <1>6, <2>3, <3>1
  <2>4. i < pos'[w]
    BY <1>2, <1>6
  <2> QED BY <1>2, <2>1, <2>2, <2>3, <2>4 DEF Pushed
<1> DEFINE p == partitions[m]
<1>10. /\ p \in Seq(DeltaIds)
       /\ DOMAIN Append(p, i) = 1..Len(p) + 1
       /\ DOMAIN p = 1..Len(p)
       /\ Len(p) \in Nat
       /\ \A k \in 1..Len(p) : Append(p, i)[k] = p[k] /\ p[k] \in DeltaIds
       /\ Append(p, i)[Len(p) + 1] = i
  <2>1. p \in Seq(DeltaIds)
    BY <1>3, <1>4
  <2> HIDE DEF p, i
  <2> QED BY <2>1, <1>2
<1>11. \A k \in 1..Len(p) : NibbleOf(p[k]) = m /\ Pushed(p[k]) /\ p[k] # i
  BY <1>3, <1>8, <1>10 DEF TrieInv, LeavesPushed
<1>12. TrieTypeOK'
  <2>1. partitions' \in [Nibbles -> Seq(DeltaIds')]
    <3>1. Append(p, i) \in Seq(DeltaIds)
      <4> HIDE DEF p, i
      <4> QED BY <1>2, <1>10
    <3>2. partitions' = [partitions EXCEPT ![m] = Append(p, i)]
      BY DEF Push
    <3> HIDE DEF p, i, m
    <3> QED BY <1>3, <1>5, <3>1, <3>2 DEF TrieInv, TrieTypeOK
  <2>2. \A v \in Threads : pos'[v] \in Nat /\ (pos'[v] \in First(v)'..Stop(v)' \/ pos'[v] = First(v)')
    BY <1>2, <1>5, <1>6 DEF TrieInv, TrieTypeOK
  <2> QED BY <1>5, <1>6, <2>1, <2>2 DEF TrieInv, TrieTypeOK, Push
<1>13. LeavesPushed'
  <2>1. ASSUME NEW n \in Nibbles, NEW k \in DOMAIN partitions'[n]
        PROVE  /\ partitions'[n][k] \in DeltaIds
               /\ NibbleOf(partitions'[n][k]) = n
               /\ Pushed(partitions'[n][k]) \/ partitions'[n][k] = i
    <3>1. CASE n # m
      <4>1. partitions'[n] = partitions[n]
        BY <1>7, <3>1
      <4>2. partitions[n][k] \in DeltaIds
        BY <1>4, <2>1, <4>1
      <4> QED BY <2>1, <4>1, <4>2 DEF TrieInv, LeavesPushed
    <3>2. CASE n = m
      <4>1. partitions'[n] = Append(p, i)
        BY <1>7, <3>2
      <4>2. NibbleOf(i) = m /\ i \in DeltaIds
        BY <1>2
      <4> HIDE DEF i, p, m
      <4> QED BY <1>10, <1>11, <2>1, <3>2, <4>1, <4>2
    <3> QED BY <3>1, <3>2
  <2>2. ASSUME NEW n \in Nibbles, NEW k \in DOMAIN partitions'[n]
        PROVE  \E v \in Threads : partitions'[n][k] \in Chunk(v)' /\ partitions'[n][k] < pos'[v]
    BY <1>9, <2>1, <2>2 DEF Pushed
  <2> QED BY <1>5, <2>1, <2>2 DEF LeavesPushed, Pushed
<1>14. LeavesDistinct'
  <2> SUFFICES ASSUME NEW n \in Nibbles, NEW k \in DOMAIN partitions'[n], NEW l \in DOMAIN partitions'[n],
                      partitions'[n][k] = partitions'[n][l]
               PROVE  k = l
    BY DEF LeavesDistinct
  <2>1. CASE n # m
    BY <1>7, <2>1 DEF TrieInv, LeavesDistinct
  <2>2. CASE n = m
    <3>1. \A a, b \in 1..Len(p) : p[a] = p[b] => a = b
      BY <1>3, <1>10 DEF TrieInv, LeavesDistinct
    <3>2. partitions'[n] = Append(p, i)
      BY <1>7, <2>2
    <3> HIDE DEF i, p, m
    <3> QED BY <1>10, <1>11, <2>2, <3>1, <3>2
  <2> QED BY <2>1, <2>2
<1>15. PushedOccur'
  <2> SUFFICES ASSUME NEW j \in DeltaIds, Pushed(j) \/ j = i
               PROVE  \E k \in DOMAIN partitions'[NibbleOf(j)] : partitions'[NibbleOf(j)][k] = j
    BY <1>5, <1>9 DEF PushedOccur, Occurs
  <2>1. CASE j = i
    <3> HIDE DEF p
    <3>1. Len(p) + 1 \in DOMAIN partitions'[m]
      BY <1>7, <1>10 DEF p
    <3>2. partitions'[m][Len(p) + 1] = i
      BY <1>7, <1>10 DEF p
    <3> QED BY <2>1, <3>1, <3>2
  <2>2. CASE j # i
    <3>1. PICK k \in DOMAIN partitions[NibbleOf(j)] : partitions[NibbleOf(j)][k] = j
      BY <2>2 DEF TrieInv, PushedOccur, Occurs
    <3>2. NibbleOf(j) \in Nibbles
      BY NibbleType DEF TrieInv
    <3>3. CASE NibbleOf(j) # m
      BY <1>7, <3>1, <3>2, <3>3
    <3>4. CASE NibbleOf(j) = m
      <4>1. k \in 1..Len(p) /\ p[k] = j
        BY <1>10, <3>1, <3>4
      <4>2. partitions'[NibbleOf(j)] = Append(p, i)
        BY <1>7, <3>4
      <4> HIDE DEF p, i, m
      <4> QED BY <1>10, <4>1, <4>2
    <3> QED BY <3>3, <3>4
  <2> QED BY <2>1, <2>2
<1>16. AllJoined'
  BY <1>5 DEF AllJoined, Push
<1>17. ChunkOrderKept'
  <2> SUFFICES ASSUME NEW n \in Nibbles, NEW k \in DOMAIN partitions'[n], NEW l \in DOMAIN partitions'[n],
                      NEW v \in Threads, k < l,
                      partitions'[n][k] \in Chunk(v), partitions'[n][l] \in Chunk(v)
               PROVE  partitions'[n][k] < partitions'[n][l]
    BY <1>5 DEF ChunkOrderKept
  <2>1. CASE n # m
    BY <1>7, <2>1 DEF TrieInv, ChunkOrderKept
  <2>2. CASE n = m
    <3>0. partitions'[n] = Append(p, i)
      BY <1>7, <2>2
    <3>1. k \in 1..Len(p) + 1 /\ l \in 1..Len(p) + 1
      <4> HIDE DEF p, i, m
      <4> QED BY <1>10, <3>0
    <3>2. k \in 1..Len(p)
      <4> HIDE DEF p, i, m
      <4> QED BY <1>10, <3>1
    <3>3. CASE l \in 1..Len(p)
      <4>1. partitions'[n][k] = p[k] /\ partitions'[n][l] = p[l]
        <5> HIDE DEF p, i, m
        <5> QED BY <1>10, <3>0, <3>2, <3>3
      <4> QED BY <1>3, <1>10, <3>2, <3>3, <4>1 DEF TrieInv, ChunkOrderKept
    <3>4. CASE l = Len(p) + 1
      <4>1. partitions'[n][k] = p[k] /\ partitions'[n][l] = i
        <5> HIDE DEF p, i, m
        <5> QED BY <1>10, <3>0, <3>2, <3>4
      <4>2. v = w
        BY <1>1, <1>2, <4>1, ChunkDisjoint
      <4>3. PICK u \in Threads : p[k] \in Chunk(u) /\ p[k] < pos[u]
        BY <1>11, <3>2 DEF Pushed
      <4>4. u = w
        BY <1>1, <4>1, <4>2, <4>3, ChunkDisjoint
      <4> QED BY <4>1, <4>3, <4>4
    <3> QED BY <1>10, <3>1, <3>3, <3>4
  <2> QED BY <2>1, <2>2
<1> QED BY <1>12, <1>13, <1>14, <1>15, <1>16, <1>17 DEF TrieInv

(* Steps that touch neither the deltas nor the partitions.                 *)
LEMMA LeavesKept ==
  ASSUME TrieInv, UNCHANGED <<deltas, pos, partitions>>
  PROVE  LeavesPushed' /\ LeavesDistinct' /\ PushedOccur' /\ ChunkOrderKept'
<1>1. /\ DeltaIds' = DeltaIds
      /\ \A v \in Threads : Chunk(v)' = Chunk(v)
      /\ \A j : NibbleOf(j)' = NibbleOf(j)
  BY DEF DeltaIds, Chunk, Stop, First, ChunkSize, NibbleOf
<1>2. \A j : Pushed(j)' <=> Pushed(j)
  BY <1>1 DEF Pushed
<1>3. \A j : Occurs(j)' <=> Occurs(j)
  BY <1>1 DEF Occurs
<1> QED BY <1>1, <1>2, <1>3 DEF TrieInv, LeavesPushed, LeavesDistinct, PushedOccur, ChunkOrderKept

(* What a step that pushes nothing keeps.                                  *)
LEMMA PosKept ==
  ASSUME TrieInv, UNCHANGED <<deltas, pos, partitions>>
  PROVE  /\ deltas' \in Inputs
         /\ DOMAIN pos' = Threads
         /\ (\A w \in Threads : pos[w] \in Nat /\ (pos[w] \in First(w)..Stop(w) \/ pos[w] = First(w)))'
         /\ partitions' \in [Nibbles -> Seq(DeltaIds')]
         /\ \A w \in Threads : Stop(w)' = Stop(w)
BY DEF TrieInv, TrieTypeOK, DeltaIds, Chunk, Stop, First, ChunkSize

(* What is hashed of a branch is a sequence of deltas.                     *)
LEMMA PreimageType ==
  ASSUME deltas \in Seq(Delta), NEW leaves \in Seq(DeltaIds)
  PROVE  Preimage(leaves) \in Seq(Delta)
<1>1. \A k \in 1..Len(leaves) : deltas[leaves[k]] \in Delta
  BY DEF DeltaIds
<1> QED BY <1>1 DEF Preimage

(* Every step keeps the invariant.                                         *)
LEMMA TrieNextInv == TrieInv /\ [TrieNext]_trieVars => TrieInv'
<1> SUFFICES ASSUME TrieInv, [TrieNext]_trieVars PROVE TrieInv'
  OBVIOUS
<1>1. ASSUME NEW w \in Threads, Push(w) PROVE TrieInv'
  BY <1>1, PushInv
<1>2. CASE PushDone
  <2>1. UNCHANGED <<deltas, pos, partitions>>
    BY <1>2 DEF PushDone
  <2>2. TrieTypeOK'
    BY <1>2, <2>1, PosKept DEF PushDone, TrieInv, TrieTypeOK
  <2>3. AllJoined'
    BY <1>2, <2>1, PosKept DEF PushDone, Joined, AllJoined
  <2> QED BY <2>1, <2>2, <2>3, LeavesKept DEF TrieInv
<1>3. ASSUME NEW n \in Nibbles, HashBranch(n) PROVE TrieInv'
  <2>1. UNCHANGED <<deltas, pos, partitions, phase>>
    BY <1>3 DEF HashBranch
  <2>2. Preimage(partitions[n]) \in Seq(Delta)
    BY <1>3, DeltasAreSeq, PreimageType DEF TrieInv, TrieTypeOK
  <2>3. TrieTypeOK'
    BY <1>3, <2>1, <2>2, PosKept DEF HashBranch, TrieInv, TrieTypeOK
  <2>4. AllJoined'
    BY <2>1, PosKept DEF TrieInv, AllJoined
  <2> QED BY <2>1, <2>3, <2>4, LeavesKept DEF TrieInv
<1>4. CASE Finish
  <2>1. UNCHANGED <<deltas, pos, partitions>>
    BY <1>4 DEF Finish
  <2>2. TrieTypeOK'
    BY <1>4, <2>1, PosKept DEF Finish, TrieInv, TrieTypeOK
  <2>3. AllJoined'
    BY <1>4, <2>1, PosKept DEF Finish, TrieInv, AllJoined
  <2> QED BY <2>1, <2>2, <2>3, LeavesKept DEF TrieInv
<1>5. CASE UNCHANGED trieVars
  <2>1. UNCHANGED <<deltas, pos, partitions>>
    BY <1>5 DEF trieVars
  <2>2. TrieTypeOK'
    BY <1>5, <2>1, PosKept DEF trieVars, TrieInv, TrieTypeOK
  <2>3. AllJoined'
    BY <1>5, <2>1, PosKept DEF trieVars, TrieInv, AllJoined
  <2> QED BY <2>1, <2>2, <2>3, LeavesKept DEF TrieInv
<1> QED BY <1>1, <1>2, <1>3, <1>4, <1>5 DEF TrieNext

(* The invariant of the trie builder, always.                              *)
LEMMA Invariant == TrieSpec => []TrieInv
BY TrieInitInv, TrieNextInv, PTL DEF TrieSpec

-----------------------------------------------------------------------------

(* Type correctness for every list of deltas and number of threads; a      *)
(* position never leaves its chunk.                                        *)
THEOREM TrieTypeCorrect == TrieSpec => []TrieTypeOK
<1>1. TrieInv => TrieTypeOK
  BY DEF TrieInv
<1> QED BY <1>1, Invariant, PTL

(* After the join every delta's chunk has been passed, and so it was pushed. *)
LEMMA OnceFromInv == TrieInv => EachDeltaOnce
<1> SUFFICES ASSUME TrieInv PROVE EachDeltaOnce
  OBVIOUS
<1>1. ASSUME phase \in {"hash", "done"}, NEW i \in DeltaIds
      PROVE  Occurs(i)
  <2>1. deltas \in Seq(Delta)
    BY DeltasAreSeq DEF TrieInv
  <2>2. PICK w \in Threads : i \in Chunk(w)
    BY <2>1, ChunkCover
  <2>3. i \in 1..Len(deltas) /\ deltas # <<>>
    BY <2>1, ChunkBounds
  <2>4. pos[w] >= Stop(w) /\ pos[w] \in Nat /\ Stop(w) \in Nat
    BY <1>1, <2>1, <2>3, ChunkBounds DEF TrieInv, AllJoined, TrieTypeOK
  <2>5. i < pos[w]
    BY <2>2, <2>3, <2>4 DEF Chunk
  <2> QED BY <2>2, <2>5 DEF TrieInv, PushedOccur, Pushed
<1> QED BY <1>1 DEF TrieInv, EachDeltaOnce, LeavesPushed, LeavesDistinct

(* No delta is pushed twice or to a wrong branch, and none is missing once *)
(* the pushing threads are joined.                                         *)
THEOREM EveryDeltaOnce == TrieSpec => []EachDeltaOnce
BY OnceFromInv, Invariant, PTL

(* Writes of one chunk stay in their order within a branch.                *)
THEOREM OrderInChunk == TrieSpec => []ChunkOrderKept
<1>1. TrieInv => ChunkOrderKept
  BY DEF TrieInv
<1> QED BY <1>1, Invariant, PTL
-----------------------------------------------------------------------------
(* The root                                                                *)

(* A branch that was hashed is the hash of its partition, which no thread  *)
(* changes any more.                                                       *)
Hashed ==
  /\ \A n \in Nibbles : subRoots[n] = IF n \in unhashed THEN <<>> ELSE Preimage(partitions[n])
  /\ phase = "push" => unhashed = Nibbles
  /\ phase = "done" /\ deltas # <<>> => unhashed = {}

HashInv == TrieInv /\ Hashed

(* A hashed branch has the hash of what was pushed to it.                  *)
LEMMA HashInvariant == TrieSpec => []HashInv
<1>1. TrieInit => HashInv
  BY TrieInitInv DEF TrieInit, HashInv, Hashed
<1>2. HashInv /\ [TrieNext]_trieVars => HashInv'
  <2> SUFFICES ASSUME HashInv, [TrieNext]_trieVars PROVE Hashed'
    BY TrieNextInv DEF HashInv
  <2>1. /\ \A n \in Nibbles : subRoots[n] = IF n \in unhashed THEN <<>> ELSE Preimage(partitions[n])
        /\ phase = "push" => unhashed = Nibbles
        /\ phase = "done" /\ deltas # <<>> => unhashed = {}
        /\ DOMAIN subRoots = Nibbles
    BY DEF HashInv, TrieInv, TrieTypeOK, Hashed
  <2>2. deltas' = deltas => \A leaves : Preimage(leaves)' = Preimage(leaves)
    BY DEF Preimage
  <2>3. ASSUME NEW w \in Threads, Push(w) PROVE Hashed'
    BY <2>1, <2>3 DEF Push, Hashed
  <2>4. CASE PushDone
    BY <2>1, <2>4 DEF PushDone, Joined, Hashed, Preimage
  <2>5. ASSUME NEW n \in Nibbles, HashBranch(n) PROVE Hashed'
    <3>1. \A m \in Nibbles :
            subRoots'[m] = IF m \in unhashed' THEN <<>> ELSE Preimage(partitions[m])
      <4> TAKE m \in Nibbles
      <4>1. CASE m = n
        BY <2>1, <2>5, <4>1 DEF HashBranch
      <4>2. CASE m # n
        <5>1. subRoots'[m] = subRoots[m] /\ (m \in unhashed' <=> m \in unhashed)
          BY <2>1, <2>5, <4>2 DEF HashBranch
        <5> QED BY <2>1, <5>1
      <4> QED BY <4>1, <4>2
    <3> QED BY <2>1, <2>5, <3>1 DEF HashBranch, Hashed, Preimage
  <2>6. CASE Finish
    BY <2>1, <2>6 DEF Finish, Hashed, Preimage
  <2>7. CASE UNCHANGED trieVars
    BY <2>1, <2>7 DEF trieVars, Hashed, Preimage
  <2> QED BY <2>3, <2>4, <2>5, <2>6, <2>7 DEF TrieNext
<1> QED BY <1>1, <1>2, PTL DEF TrieSpec

(* The elements of a list of numbers.                                      *)
LEMMA NatSeq ==
  ASSUME NEW list \in Seq(Nat)
  PROVE  Len(list) \in Nat /\ \A k \in 1..Len(list) : list[k] \in Nat
OBVIOUS

Increasing(list) == \A k, l \in 1..Len(list) : k < l => list[k] < list[l]
Within(list, other) == \A k \in 1..Len(list) : \E l \in 1..Len(other) : other[l] = list[k]

(* Up to the length of either, two increasing lists of the same numbers    *)
(* agree: where they first differ, the smaller one is not in the other.    *)
LEMMA IncreasingAgree ==
  ASSUME NEW a \in Seq(Nat), NEW b \in Seq(Nat), Increasing(a), Increasing(b),
         Within(a, b), Within(b, a),
         NEW i \in 1..Len(a), i \in 1..Len(b)
  PROVE  a[i] = b[i]
<1>1. /\ Len(a) \in Nat /\ Len(b) \in Nat
      /\ \A k \in 1..Len(a) : a[k] \in Nat
      /\ \A k \in 1..Len(b) : b[k] \in Nat
  BY NatSeq
<1> DEFINE S == {k \in 1..Len(a) : k \in 1..Len(b) /\ a[k] # b[k]}
<1>2. S \subseteq Nat /\ \A k : k \in S <=> k \in 1..Len(a) /\ k \in 1..Len(b) /\ a[k] # b[k]
  OBVIOUS
<1> HIDE DEF S
<1> SUFFICES ASSUME S # {} PROVE FALSE
  BY <1>2
<1>3. PICK m \in S : \A k \in S : m <= k
  BY <1>2, LeastExists
<1>4. m \in 1..Len(a) /\ m \in 1..Len(b) /\ a[m] # b[m]
  BY <1>2
<1>5. ASSUME NEW k \in Nat, 1 <= k, k < m
      PROVE  k \in 1..Len(a) /\ k \in 1..Len(b) /\ a[k] = b[k]
  <2>1. k \in 1..Len(a) /\ k \in 1..Len(b) /\ ~(m <= k)
    BY <1>1, <1>4, <1>5
  <2> QED BY <1>2, <1>3, <2>1
<1>6. b[m] <= a[m]
  <2>1. PICK l \in 1..Len(b) : b[l] = a[m]
    BY <1>4 DEF Within
  <2>2. CASE l < m
    <3>1. a[l] = b[l] /\ l \in 1..Len(a)
      BY <1>5, <2>2
    <3>2. a[l] < a[m]
      BY <1>4, <2>2, <3>1 DEF Increasing
    <3> QED BY <1>1, <1>4, <2>1, <3>1, <3>2
  <2>3. CASE l = m
    BY <1>4, <2>1, <2>3
  <2>4. CASE m < l
    <3>1. b[m] < b[l]
      BY <1>4, <2>4 DEF Increasing
    <3> QED BY <1>1, <1>4, <2>1, <3>1
  <2> QED BY <1>1, <1>4, <2>2, <2>3, <2>4
<1>7. a[m] <= b[m]
  <2>1. PICK l \in 1..Len(a) : a[l] = b[m]
    BY <1>4 DEF Within
  <2>2. CASE l < m
    <3>1. a[l] = b[l] /\ l \in 1..Len(b)
      BY <1>5, <2>2
    <3>2. b[l] < b[m]
      BY <1>4, <2>2, <3>1 DEF Increasing
    <3> QED BY <1>1, <1>4, <2>1, <3>1, <3>2
  <2>3. CASE l = m
    BY <1>4, <2>1, <2>3
  <2>4. CASE m < l
    <3>1. a[m] < a[l]
      BY <1>4, <2>4 DEF Increasing
    <3> QED BY <1>1, <1>4, <2>1, <3>1
  <2> QED BY <1>1, <1>4, <2>2, <2>3, <2>4
<1> QED BY <1>1, <1>4, <1>6, <1>7

(* A list that is no shorter than an increasing one of the same numbers,   *)
(* and agrees with it that far, is no longer either.                       *)
LEMMA IncreasingNotLonger ==
  ASSUME NEW a \in Seq(Nat), NEW b \in Seq(Nat), Increasing(b), Within(b, a),
         \A k \in 1..Len(a) : k \in 1..Len(b) => a[k] = b[k]
  PROVE  Len(b) <= Len(a)
<1> SUFFICES ASSUME Len(a) < Len(b) PROVE FALSE
  OBVIOUS
<1>1. Len(a) + 1 \in 1..Len(b)
  OBVIOUS
<1>2. PICK k \in 1..Len(a) : a[k] = b[Len(a) + 1]
  BY <1>1 DEF Within
<1>3. k \in 1..Len(b) /\ k < Len(a) + 1 /\ a[k] = b[k]
  BY <1>1
<1>4. b[k] < b[Len(a) + 1] /\ b[k] \in Nat
  BY <1>1, <1>3 DEF Increasing
<1> QED BY <1>2, <1>3, <1>4

(* Increasing sequences with the same elements are equal.                  *)
LEMMA IncreasingUnique ==
  ASSUME NEW a \in Seq(Nat), NEW b \in Seq(Nat), Increasing(a), Increasing(b),
         Within(a, b), Within(b, a)
  PROVE  a = b
<1>1. \A i \in 1..Len(a) : i \in 1..Len(b) => a[i] = b[i]
  BY IncreasingAgree
<1>2. Len(b) <= Len(a)
  BY <1>1, IncreasingNotLonger
<1>3. \A i \in 1..Len(b) : i \in 1..Len(a) => b[i] = a[i]
  BY <1>1
<1>4. Len(a) <= Len(b)
  BY <1>3, IncreasingNotLonger
<1>5. Len(a) = Len(b)
  BY <1>2, <1>4
<1> QED BY <1>1, <1>5

(* The deltas of a branch, in increasing order and nothing else.           *)
LEMMA InOrderFacts ==
  ASSUME TrieInv, NEW n \in Nibbles
  PROVE  /\ InOrder(n) \in Seq(DeltaIds)
         /\ Increasing(InOrder(n))
         /\ \A k \in 1..Len(InOrder(n)) : NibbleOf(InOrder(n)[k]) = n
         /\ \A i \in DeltaIds : NibbleOf(i) = n => \E k \in 1..Len(InOrder(n)) : InOrder(n)[k] = i
<1> DEFINE ids == [i \in DeltaIds |-> i]
           places == {i \in DeltaIds : NibbleOf(i) = n}
           kept == Retained(ids, places)
<1>1. Len(deltas) \in Nat /\ DeltaIds = 1..Len(deltas)
  BY DeltasAreSeq, ChunkBounds DEF TrieInv
<1>2. ids \in Seq(DeltaIds) /\ Len(ids) = Len(deltas) /\ \A i \in DeltaIds : ids[i] = i
  BY <1>1
<1>3. \A i : i \in places <=> i \in DeltaIds /\ NibbleOf(i) = n
  OBVIOUS
<1> HIDE DEF ids, places
<1>4. kept \in Seq(DeltaIds) /\ \E from : IsSelection(kept, from, ids, places, Len(ids))
  BY <1>2, RetainedFrom
<1>5. PICK from : IsSelection(kept, from, ids, places, Len(ids))
  BY <1>4
<1>6. InOrder(n) = kept
  BY DEF InOrder, ids, places
<1> HIDE DEF kept
<1>7. \A k \in 1..Len(kept) : from[k] \in DeltaIds /\ NibbleOf(from[k]) = n /\ kept[k] = from[k]
  BY <1>1, <1>2, <1>3, <1>5 DEF IsSelection
<1>8. Increasing(kept)
  BY <1>5, <1>7 DEF Increasing, IsSelection
<1>9. \A i \in DeltaIds : NibbleOf(i) = n => \E k \in 1..Len(kept) : kept[k] = i
  <2> SUFFICES ASSUME NEW i \in DeltaIds, NibbleOf(i) = n
               PROVE  \E k \in 1..Len(kept) : kept[k] = i
    OBVIOUS
  <2>1. i \in 1..Len(ids) /\ i \in places
    BY <1>1, <1>2, <1>3
  <2>2. PICK k \in 1..Len(kept) : from[k] = i
    BY <1>5, <2>1 DEF IsSelection
  <2> QED BY <1>7, <2>2
<1> QED BY <1>4, <1>6, <1>7, <1>8, <1>9

(* A branch whose leaves all come from one chunk gets the sub-root a       *)
(* single thread would give it, whatever the order the threads ran in: its *)
(* partition is increasing and complete, and only one list is.             *)
THEOREM SingleChunkRoot == TrieSpec => []RootOfOneChunkPerBranch
<1>1. HashInv => RootOfOneChunkPerBranch
  <2> SUFFICES ASSUME HashInv, phase = "done", NEW n \in Nibbles, NEW w \in Threads,
                      \A i \in DeltaIds : NibbleOf(i) = n => i \in Chunk(w)
               PROVE  subRoots[n] = Preimage(InOrder(n))
    BY DEF RootOfOneChunkPerBranch
  <2> DEFINE p == partitions[n]
             q == InOrder(n)
  <2>1. TrieInv /\ deltas \in Seq(Delta) /\ DeltaIds = 1..Len(deltas) /\ Len(deltas) \in Nat
    BY DeltasAreSeq, ChunkBounds DEF HashInv, TrieInv
  <2>2. p \in Seq(DeltaIds)
    BY <2>1 DEF TrieInv, TrieTypeOK
  <2>3. \A k \in 1..Len(p) : p[k] \in DeltaIds /\ NibbleOf(p[k]) = n /\ p[k] \in Chunk(w)
    <3> TAKE k \in 1..Len(p)
    <3>1. NibbleOf(p[k]) = n
      BY <2>1, <2>2 DEF TrieInv, LeavesPushed
    <3>2. p[k] \in DeltaIds
      BY <2>2
    <3> QED BY <3>1, <3>2
  <2>4. \A i \in DeltaIds : NibbleOf(i) = n => \E k \in 1..Len(p) : p[k] = i
    <3> SUFFICES ASSUME NEW i \in DeltaIds, NibbleOf(i) = n
                 PROVE  Occurs(i)
      BY <2>2 DEF Occurs
    <3>1. EachDeltaOnce
      BY <2>1, OnceFromInv
    <3> QED BY <3>1 DEF EachDeltaOnce
  <2>5. Increasing(p)
    BY <2>1, <2>2, <2>3 DEF Increasing, TrieInv, ChunkOrderKept
  <2>6. /\ q \in Seq(DeltaIds) /\ Increasing(q)
        /\ \A k \in 1..Len(q) : NibbleOf(q[k]) = n
        /\ \A i \in DeltaIds : NibbleOf(i) = n => \E k \in 1..Len(q) : q[k] = i
    BY <2>1, InOrderFacts
  <2> HIDE DEF p, q
  <2>7. p \in Seq(Nat) /\ q \in Seq(Nat)
    BY <2>1, <2>2, <2>6
  <2>8. \A k \in 1..Len(q) : q[k] \in DeltaIds
    BY <2>6
  <2>9. p = q
    <3>1. Within(p, q) /\ Within(q, p)
      BY <2>3, <2>4, <2>6, <2>8 DEF Within
    <3> QED BY <2>5, <2>6, <2>7, <3>1, IncreasingUnique
  <2>10. CASE deltas # <<>>
    <3>1. n \notin unhashed
      BY <2>10 DEF HashInv, Hashed
    <3> QED BY <2>9, <3>1 DEF HashInv, Hashed, p, q
  <2>11. CASE deltas = <<>>
    <3>1. DeltaIds = {}
      BY <2>1, <2>11
    <3>2. p = <<>>
      BY <2>2, <2>3, <3>1
    <3>3. Preimage(p) = <<>>
      BY <3>2 DEF Preimage
    <3> QED BY <2>9, <3>3 DEF HashInv, Hashed, p, q
  <2> QED BY <2>10, <2>11
<1> QED BY <1>1, HashInvariant, PTL

-----------------------------------------------------------------------------
(* The namespace registry                                                  *)

IsPower(power, base, n) ==
  power = [i \in 0..n |-> IF i = 0 THEN 1 ELSE base * power[i - 1]]

(* The powers up to the n-th exist.                                        *)
LEMMA PowersExist ==
  ASSUME NEW base, NEW n \in Nat
  PROVE  \E power : IsPower(power, base, n)
<1> DEFINE S == {m \in Nat : ~\E power : IsPower(power, base, m)}
<1> SUFFICES ASSUME S # {} PROVE FALSE
  OBVIOUS
<1>1. PICK m \in S : \A k \in S : m <= k
  <2> HIDE DEF S
  <2> QED BY LeastExists DEF S
<1>2. CASE m = 0
  <2>1. IsPower([i \in 0..0 |-> 1], base, 0)
    BY DEF IsPower
  <2> QED BY <1>1, <1>2, <2>1
<1>3. CASE m # 0
  <2>1. m - 1 \in Nat /\ m - 1 \notin S
    BY <1>1, <1>3
  <2>2. PICK g : IsPower(g, base, m - 1)
    BY <2>1
  <2> DEFINE h == [i \in 0..m |-> IF i = m THEN base * g[m - 1] ELSE g[i]]
  <2>3. \A i \in 0..m - 1 : g[i] = IF i = 0 THEN 1 ELSE base * g[i - 1]
    BY <2>2 DEF IsPower
  <2>4. \A i \in 0..m : h[i] = IF i = 0 THEN 1 ELSE base * h[i - 1]
    BY <2>1, <2>3, <1>3
  <2>5. h = [i \in 0..m |-> h[i]]
    OBVIOUS
  <2>6. IsPower(h, base, m)
    <3> HIDE DEF h
    <3> QED BY <2>4, <2>5 DEF IsPower
  <2> HIDE DEF h
  <2> QED BY <1>1, <2>6
<1> QED BY <1>2, <1>3

Powers(base, n) == CHOOSE power : IsPower(power, base, n)

(* The zeroth power is 1, and each further one is at least the base.       *)
LEMMA PowerBounds ==
  ASSUME NEW base \in Nat, base >= 1, NEW n \in Nat
  PROVE  /\ Power(base, n) \in Nat /\ Power(base, n) >= 1
         /\ n = 0 => Power(base, n) = 1
         /\ n > 0 => Power(base, n) >= base
<1> DEFINE p == Powers(base, n)
<1>1. Power(base, n) = p[n]
  BY DEF Power, Powers, IsPower
<1>2. IsPower(p, base, n)
  BY PowersExist DEF Powers
<1> HIDE DEF p
<1>3. \A i \in 0..n : p[i] = IF i = 0 THEN 1 ELSE base * p[i - 1]
  BY <1>2 DEF IsPower
<1> DEFINE S == {i \in 0..n : ~(p[i] \in Nat /\ p[i] >= 1)}
<1>4. S = {}
  <2> SUFFICES ASSUME S # {} PROVE FALSE
    OBVIOUS
  <2>1. PICK m \in S : \A k \in S : m <= k
    <3>1. S \subseteq Nat
      OBVIOUS
    <3> HIDE DEF S
    <3> QED BY <3>1, LeastExists
  <2>2. m # 0
    BY <2>1, <1>3
  <2>3. m - 1 \in 0..n /\ m - 1 \notin S /\ m \in 0..n
    <3>1. m \in 0..n
      BY <2>1
    <3> HIDE DEF S
    <3> QED BY <2>1, <2>2, <3>1
  <2>4. p[m - 1] \in Nat /\ p[m - 1] >= 1
    BY <2>3
  <2>5. p[m] = base * p[m - 1]
    BY <1>3, <2>2, <2>3
  <2>6. p[m] \in Nat /\ p[m] >= 1
    <3> DEFINE q == p[m - 1]
    <3>1. q \in Nat /\ q >= 1
      BY <2>4
    <3> HIDE DEF q
    <3>2. base * q \in Nat /\ base * q >= 1
      BY <3>1
    <3> QED BY <2>5, <3>2 DEF q
  <2> QED BY <2>1, <2>6
<1>5. p[n] \in Nat /\ p[n] >= 1 /\ (n = 0 => p[n] = 1)
  BY <1>3, <1>4
<1>6. ASSUME n > 0 PROVE p[n] >= base
  <2> DEFINE q == p[n - 1]
  <2>1. n - 1 \in 0..n /\ n \in 0..n
    BY <1>6
  <2>2. q \in Nat /\ q >= 1
    BY <1>4, <2>1
  <2>3. p[n] = base * q
    BY <1>3, <1>6, <2>1
  <2> HIDE DEF q
  <2> QED BY <2>2, <2>3
<1> QED BY <1>1, <1>5, <1>6

(* A list of a DID, with the set of names it stands for.                   *)
ListOf(list, S) ==
  /\ list \in Seq(Names)
  /\ {list[i] : i \in DOMAIN list} = S
  /\ \A i, j \in DOMAIN list : list[i] = list[j] => i = j

(* Appending a name that is not there.                                     *)
LEMMA ListPlusOne ==
  ASSUME NEW S, NEW list, ListOf(list, S), NEW n \in Names, n \notin S
  PROVE  ListOf(Append(list, n), S \cup {n})
<1> DEFINE new == Append(list, n)
<1>1. list \in Seq(Names) /\ Len(list) \in Nat /\ DOMAIN list = 1..Len(list)
  BY DEF ListOf
<1>2. /\ new \in Seq(Names) /\ DOMAIN new = 1..Len(list) + 1
      /\ \A i \in 1..Len(list) : new[i] = list[i]
      /\ new[Len(list) + 1] = n
  BY <1>1
<1> HIDE DEF new
<1>3. {new[i] : i \in DOMAIN new} = S \cup {n}
  <2>1. ASSUME NEW i \in DOMAIN new PROVE new[i] \in S \cup {n}
    <3>1. i \in DOMAIN list \/ i = Len(list) + 1
      BY <1>1, <1>2
    <3> QED BY <3>1, <1>1, <1>2 DEF ListOf
  <2>2. ASSUME NEW e \in S PROVE e \in {new[i] : i \in DOMAIN new}
    <3>1. PICK i \in DOMAIN list : list[i] = e
      BY DEF ListOf
    <3>2. i \in DOMAIN new /\ new[i] = e
      BY <1>1, <1>2, <3>1
    <3> QED BY <3>2
  <2>3. n \in {new[i] : i \in DOMAIN new}
    <3>1. Len(list) + 1 \in DOMAIN new
      BY <1>1, <1>2
    <3> QED BY <1>2, <3>1
  <2> QED BY <2>1, <2>2, <2>3
<1>4. \A i, j \in DOMAIN new : new[i] = new[j] => i = j
  <2>1. \A i \in DOMAIN list : new[i] = list[i] /\ list[i] # n
    BY <1>1, <1>2 DEF ListOf
  <2>2. \A i \in DOMAIN new : i \in DOMAIN list \/ i = Len(list) + 1
    BY <1>1, <1>2
  <2> QED BY <2>1, <2>2, <1>2 DEF ListOf
<1> QED BY <1>2, <1>3, <1>4 DEF ListOf, new

(* Retaining all names but one.                                            *)
LEMMA ListWithout ==
  ASSUME NEW S, NEW list, ListOf(list, S), NEW n
  PROVE  ListOf(Without(list, n), S \ {n})
<1> DEFINE places == {i \in DOMAIN list : list[i] # n}
           new == Without(list, n)
<1>1. list \in Seq(Names) /\ Len(list) \in Nat /\ DOMAIN list = 1..Len(list)
  BY DEF ListOf
<1>2. new = Retained(list, places)
  BY DEF Without
<1> HIDE DEF places, new
<1>3. new \in Seq(Names) /\ \E from : IsSelection(new, from, list, places, Len(list))
  BY <1>1, <1>2, RetainedFrom
<1>4. PICK from : IsSelection(new, from, list, places, Len(list))
  BY <1>3
<1>5. DOMAIN new = 1..Len(new) /\ Len(new) \in Nat
  BY <1>3
<1>6. \A k \in DOMAIN new : from[k] \in DOMAIN list /\ new[k] = list[from[k]] /\ new[k] # n
  BY <1>1, <1>4, <1>5 DEF IsSelection, places
<1>7. {new[i] : i \in DOMAIN new} = S \ {n}
  <2>1. ASSUME NEW k \in DOMAIN new PROVE new[k] \in S \ {n}
    BY <1>6 DEF ListOf
  <2>2. ASSUME NEW e \in S \ {n} PROVE e \in {new[i] : i \in DOMAIN new}
    <3>1. PICK i \in DOMAIN list : list[i] = e
      BY DEF ListOf
    <3>2. i \in places /\ i \in 1..Len(list)
      BY <1>1, <2>2, <3>1 DEF places
    <3>3. PICK k \in 1..Len(new) : from[k] = i
      BY <1>4, <3>2 DEF IsSelection
    <3> QED BY <1>5, <1>6, <3>1, <3>3
  <2> QED BY <2>1, <2>2
<1>8. ASSUME NEW i \in DOMAIN new, NEW j \in DOMAIN new, new[i] = new[j] PROVE i = j
  <2>1. from[i] = from[j]
    BY <1>6, <1>8 DEF ListOf
  <2>2. from[i] \in 1..Len(list)
    BY <1>1, <1>6
  <2>3. i \in 1..Len(new) /\ j \in 1..Len(new)
    BY <1>5
  <2>4. /\ i < j => from[i] < from[j]
        /\ j < i => from[j] < from[i]
    BY <1>4, <2>3 DEF IsSelection
  <2> QED BY <1>5, <2>1, <2>2, <2>3, <2>4
<1> QED BY <1>3, <1>7, <1>8 DEF ListOf, new

(* Such a list is as long as its set is large.                             *)
LEMMA ListLength ==
  ASSUME NEW S, NEW list, ListOf(list, S)
  PROVE  Len(list) \in Nat /\ Cardinality(S) = Len(list)
<1>1. list \in Seq(Names) /\ Len(list) \in Nat /\ DOMAIN list = 1..Len(list)
  BY DEF ListOf
<1>2. list \in Bijection(1..Len(list), S)
  <2>1. list \in [1..Len(list) -> S]
    BY <1>1 DEF ListOf
  <2>2. \A e \in S : \E i \in 1..Len(list) : list[i] = e
    BY <1>1 DEF ListOf
  <2> QED BY <1>1, <2>1, <2>2 DEF ListOf, Bijection, Injection, Surjection, IsInjective
<1>3. ExistsBijection(1..Len(list), S)
  BY <1>2 DEF ExistsBijection
<1> QED BY <1>1, <1>3, FS_CountingElements

(* The registry's maps agree, and the lists are lists of names.            *)
NamesInv ==
  /\ names \in [Names -> Holders \cup {Nobody}] /\ stakes \in [Holders -> Stakes \cup {0}]
  /\ \A d \in Holders : ListOf(did_names[d], Owned(d))

(* A claim that writes something, with the owner it evicts.                *)
LEMMA EnterKeeps ==
  ASSUME NamesInv, NEW n \in Names, NEW d \in Holders, NEW stake \in Stakes,
         names[n] # d, Enter(n, d, stake, names[n])
  PROVE  NamesInv'
<1>1. /\ names' = [names EXCEPT ![n] = d]
      /\ stakes' = [stakes EXCEPT ![d] = stake]
      /\ did_names' = [e \in Holders |->
                         IF e = d THEN Append(did_names[e], n)
                         ELSE IF e = names[n] THEN Without(did_names[e], n) ELSE did_names[e]]
  BY DEF Enter
<1>2. names' \in [Names -> Holders \cup {Nobody}] /\ stakes' \in [Holders -> Stakes \cup {0}]
  BY <1>1 DEF NamesInv
<1>3. ASSUME NEW e \in Holders PROVE ListOf(did_names'[e], {m \in Names : names'[m] = e})
  <2> DEFINE old == {m \in Names : names[m] = e}
             new == {m \in Names : names'[m] = e}
  <2>1. ListOf(did_names[e], old)
    BY DEF NamesInv, Owned
  <2>2. \A m \in Names : names'[m] = IF m = n THEN d ELSE names[m]
    BY <1>1 DEF NamesInv
  <2>3. CASE e = d
    <3>1. n \notin old /\ new = old \cup {n}
      BY <2>2, <2>3
    <3>2. did_names'[e] = Append(did_names[e], n)
      BY <1>1, <2>3
    <3> HIDE DEF old, new
    <3> QED BY <2>1, <3>1, <3>2, ListPlusOne DEF new
  <2>4. CASE e # d /\ e = names[n]
    <3>1. new = old \ {n}
      BY <2>2, <2>4
    <3>2. did_names'[e] = Without(did_names[e], n)
      BY <1>1, <2>4
    <3> HIDE DEF old, new
    <3> QED BY <2>1, <3>1, <3>2, ListWithout DEF new
  <2>5. CASE e # d /\ e # names[n]
    <3>1. new = old
      BY <2>2, <2>5
    <3>2. did_names'[e] = did_names[e]
      BY <1>1, <2>5
    <3> QED BY <2>1, <3>1, <3>2
  <2> QED BY <2>3, <2>4, <2>5
<1> QED BY <1>2, <1>3 DEF NamesInv, Owned

(* The invariant of the namespace registry, always.                        *)
LEMMA NamesInvariant == NamesSpec => []NamesInv
<1>1. NamesInit => NamesInv
  <2> SUFFICES ASSUME NamesInit PROVE NamesInv
    OBVIOUS
  <2>1. ASSUME NEW d \in Holders PROVE ListOf(did_names[d], Owned(d))
    <3>1. did_names[d] = <<>> /\ Owned(d) = {}
      BY ClaimsAssumption DEF NamesInit, Owned
    <3> QED BY <3>1 DEF ListOf
  <2> QED BY <2>1 DEF NamesInit, NamesInv
<1>2. NamesInv /\ [NamesNext]_namesVars => NamesInv'
  <2> SUFFICES ASSUME NamesInv, [NamesNext]_namesVars PROVE NamesInv'
    OBVIOUS
  <2>1. ASSUME NEW n \in Names, NEW d \in Holders, NEW reputation \in Reputations, NEW stake \in Stakes,
               RegisterName(n, d, reputation, stake)
        PROVE  NamesInv'
    <3>1. names[n] # d /\ Enter(n, d, stake, names[n])
      BY <2>1, ClaimsAssumption DEF RegisterName
    <3> QED BY <3>1, EnterKeeps
  <2>2. CASE UNCHANGED namesVars
    BY <2>2 DEF namesVars, NamesInv, Owned
  <2> QED BY <2>1, <2>2 DEF NamesNext
<1> QED BY <1>1, <1>2, PTL DEF NamesSpec

(* Whoever wins which name from whom, for any reputations and stakes: the  *)
(* list of a DID holds what the registry gives it, each name once          *)
(* (NamespaceRegistry::register).                                          *)
THEOREM OneOwnerAlways == NamesSpec => []OneOwner
<1>1. NamesInv => OneOwner
  BY DEF NamesInv, OneOwner, ListOf
<1> QED BY <1>1, NamesInvariant, PTL

(* The slots of a DID by the number of its names.                          *)
LEMMA SlotsOf ==
  ASSUME NamesInv, NEW d \in Holders
  PROVE  /\ ExtraSlots(d) \in Nat
         /\ Cardinality(Owned(d)) <= 2 => ExtraSlots(d) = 0
         /\ Cardinality(Owned(d)) >= 3 => ExtraSlots(d) > 0
<1>1. Len(did_names[d]) \in Nat /\ Cardinality(Owned(d)) = Len(did_names[d])
  BY ListLength DEF NamesInv
<1> QED BY <1>1 DEF ExtraSlots

(* If a claim of r and s, penalised by tens and twos, outweighs a defence  *)
(* w, then so it does without the penalty, and tenfold if s is 0.          *)
LEMMA PenaltyOnlyTakes ==
  ASSUME NEW r \in Nat, NEW s \in Nat, NEW w \in Nat,
         NEW tens \in Nat, NEW twos \in Nat, tens >= 1, twos >= 1,
         100 * r * twos + s * tens > w * (tens * twos)
  PROVE  /\ 100 * r + s > w
         /\ s = 0 /\ tens >= 10 => 100 * r > 10 * w
<1> DEFINE both == tens * twos
<1>1. both \in Nat /\ both >= twos /\ both >= tens /\ both >= 1
  OBVIOUS
<1>2. 100 * r * twos <= 100 * r * both /\ s * tens <= s * both
  <2> HIDE DEF both
  <2>1. 100 * r \in Nat
    OBVIOUS
  <2> QED BY <1>1, <2>1, MulMono
<1>3. w * both < (100 * r + s) * both
  <2> HIDE DEF both
  <2>1. (100 * r + s) * both = 100 * r * both + s * both
    BY <1>1
  <2> QED BY <1>1, <1>2, <2>1 DEF both
<1>4. 100 * r + s > w
  <2> SUFFICES ASSUME 100 * r + s <= w PROVE FALSE
    OBVIOUS
  <2> HIDE DEF both
  <2>1. (100 * r + s) * both <= w * both
    BY <1>1, MulMono
  <2> QED BY <1>1, <1>3, <2>1
<1>5. ASSUME s = 0, tens >= 10 PROVE 100 * r > 10 * w
  <2>1. 100 * r * twos > w * tens * twos
    BY <1>5
  <2> SUFFICES ASSUME 100 * r <= 10 * w PROVE FALSE
    OBVIOUS
  <2>2. 10 * w <= tens * w
    BY <1>5, MulMono
  <2>3. 100 * r <= w * tens
    BY <2>2
  <2>4. 100 * r * twos <= w * tens * twos
    BY <2>3, MulMono
  <2> QED BY <2>1, <2>4
<1> QED BY <1>4, <1>5

(* Whoever claims a name with what reputation and stake: an owner of one   *)
(* or two names is outdone only by a better offer, and by a tenfold one of *)
(* a DID with three names or more that stakes nothing                      *)
(* (NamespaceRegistry::calculate_score).                                   *)
THEOREM FewNamesSafe == NamesSpec => FewNamesKept
<1>1. ASSUME NamesInv, NEW n \in Names, names[n] # Nobody, names'[n] # names[n],
             Cardinality(Owned(names[n])) <= 2,
             NEW d \in Holders, NEW reputation \in Reputations, NEW stake \in Stakes,
             RegisterName(n, d, reputation, stake)
      PROVE  LET defence == 100 * OwnerReputation + stakes[names[n]]
             IN  /\ 100 * reputation + stake > defence
                 /\ stake = 0 /\ Cardinality(Owned(d)) >= 3 => 100 * reputation > 10 * defence
  <2> DEFINE owner == names[n]
             w == 100 * OwnerReputation + stakes[owner]
             tens == Power(10, ExtraSlots(d))
             twos == Power(2, ExtraSlots(d))
  <2>1. owner \in Holders /\ stakes[owner] \in Nat /\ w \in Nat /\ reputation \in Nat /\ stake \in Nat
    BY <1>1, ClaimsAssumption DEF NamesInv, OwnerReputation
  <2>2. Power(10, ExtraSlots(owner)) = 1 /\ Power(2, ExtraSlots(owner)) = 1
    <3>1. ExtraSlots(owner) = 0
      BY <1>1, <2>1, SlotsOf
    <3> QED BY <3>1, PowerBounds
  <2>3. /\ tens \in Nat /\ tens >= 1 /\ twos \in Nat /\ twos >= 1
        /\ Cardinality(Owned(d)) >= 3 => tens >= 10
    <3> DEFINE k == ExtraSlots(d)
    <3>1. k \in Nat /\ (Cardinality(Owned(d)) >= 3 => k > 0)
      BY <1>1, SlotsOf
    <3> HIDE DEF k
    <3>2. Power(10, k) \in Nat /\ Power(10, k) >= 1 /\ (k > 0 => Power(10, k) >= 10)
      <4>1. 10 \in Nat /\ 10 >= 1
        OBVIOUS
      <4> QED BY <3>1, <4>1, PowerBounds
    <3>3. Power(2, k) \in Nat /\ Power(2, k) >= 1
      <4>1. 2 \in Nat /\ 2 >= 1
        OBVIOUS
      <4> QED BY <3>1, <4>1, PowerBounds
    <3> QED BY <3>1, <3>2, <3>3 DEF k
  <2>4. Wins(d, reputation, stake, owner)
    BY <1>1 DEF RegisterName
  <2>5. /\ Score(d, reputation, stake).num = 100 * reputation * twos + stake * tens
        /\ Score(d, reputation, stake).den = tens * twos
        /\ Score(owner, OwnerReputation, stakes[owner]).num = w
        /\ Score(owner, OwnerReputation, stakes[owner]).den = 1
    BY <2>1, <2>2 DEF Score, OwnerReputation
  <2> HIDE DEF tens, twos, w, owner
  <2>6. 100 * reputation * twos + stake * tens > w * (tens * twos)
    BY <2>1, <2>3, <2>4, <2>5 DEF Wins
  <2>7. 100 * reputation + stake > w /\ (stake = 0 /\ tens >= 10 => 100 * reputation > 10 * w)
    BY <2>1, <2>3, <2>6, PenaltyOnlyTakes
  <2> QED BY <2>3, <2>7 DEF w, owner
<1>2. NamesInv /\ [NamesNext]_namesVars =>
        [\A n \in Names :
           LET owner == names[n]
               defence == 100 * OwnerReputation + stakes[owner]
           IN  owner # Nobody /\ names'[n] # owner /\ Cardinality(Owned(owner)) <= 2 =>
               \A d \in Holders, reputation \in Reputations, stake \in Stakes :
                 RegisterName(n, d, reputation, stake) =>
                 /\ 100 * reputation + stake > defence
                 /\ stake = 0 /\ Cardinality(Owned(d)) >= 3 =>
                      100 * reputation > 10 * defence]_namesVars
  BY <1>1
<1> QED BY <1>2, NamesInvariant, PTL DEF FewNamesKept, NamesSpec
===============================================================================
