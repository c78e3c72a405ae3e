---------------------------- MODULE TxModel_proofs -----------------------------
(***************************************************************************)
(* Lemmas about transactions and their serial execution, for every         *)
(* database and every order.                                               *)
(***************************************************************************)
EXTENDS TxModel, WellFoundedInduction, TLAPS

(* A set of numbers that is not empty has a least one.                     *)
LEMMA LeastExists ==
  ASSUME NEW S, S \subseteq Nat, S # {}
  PROVE  \E m \in S : \A k \in S : m <= k
<1> DEFINE R == {p \in Nat \X Nat : p[1] < p[2]}
<1>1. IsWellFoundedOn(R, Nat)
  BY NatLessThanWellFounded DEF OpToRel
<1>2. PICK m \in S : \A y \in S : ~(<<y, m>> \in R)
  <2> HIDE DEF R
  <2> QED BY <1>1, WFMin
<1>3. \A y \in S : m <= y
  <2> TAKE y \in S
  <2>1. <<y, m>> \notin R /\ <<y, m>> \in Nat \X Nat
    BY <1>2
  <2>2. <<y, m>>[1] = y /\ <<y, m>>[2] = m
    OBVIOUS
  <2> QED BY <2>1, <2>2
<1> QED BY <1>3

(* A bounded nonempty set of numbers has a greatest one.                  *)
LEMMA GreatestExists ==
  ASSUME NEW S, NEW n \in Nat, S \subseteq 0..n, S # {}
  PROVE  \E m \in S : \A k \in S : k <= m
<1> DEFINE T == {t \in Nat : n - t \in S}
<1>1. T # {}
  <2>1. PICK s \in S : TRUE
    OBVIOUS
  <2>2. n - s \in Nat /\ n - (n - s) = s
    OBVIOUS
  <2> QED BY <2>2
<1>2. T \subseteq Nat
  OBVIOUS
<1>3. PICK t \in T : \A y \in T : t <= y
  <2> HIDE DEF T
  <2> QED BY <1>1, <1>2, LeastExists
<1>4. \A k \in S : k <= n - t
  <2> TAKE k \in S
  <2>1. n - k \in Nat /\ n - (n - k) = k
    OBVIOUS
  <2> QED BY <1>3, <2>1
<1> QED BY <1>3, <1>4

-----------------------------------------------------------------------------
(* Lemmas about transactions and their effects.                            *)

(* What a transaction writes are items of the database.                    *)
LEMMA WriteSetType ==
  ASSUME NEW tx \in Tx
  PROVE  /\ WriteSet(tx) \subseteq Items
         /\ tx.sender \in WriteSet(tx) /\ tx.recipient \in WriteSet(tx)
BY DEF Tx, WriteSet, Items

(* A transaction that passes its checks leaves an account in every account *)
(* it writes and its own index in every slot.                              *)
LEMMA EffectsType ==
  ASSUME NEW tx \in Tx, NEW i \in Nat, NEW s \in Account, NEW r \in Account,
         CanExecute(s, tx)
  PROVE  /\ Effects(tx, i, s, r) \in [WriteSet(tx) -> Value]
         /\ \A x \in WriteSet(tx) : Effects(tx, i, s, r)[x] \in ValueOf(x)
<1>1. Debit(s, tx) \in Account
  BY DEF CanExecute, Debit, Account, Tx
<1>2. Credit(r, tx) \in Account
  BY DEF Credit, Account, Tx
<1>3. \A x \in WriteSet(tx) : x \in Addrs => x = tx.sender \/ x = tx.recipient
  BY ItemsAssumption DEF WriteSet
<1>4. tx.sender \in Addrs /\ tx.recipient \in Addrs
  BY DEF Tx
<1>5. [writer |-> i] \in Slot
  BY DEF Slot
<1>6. \A x \in WriteSet(tx) : Effects(tx, i, s, r)[x] \in ValueOf(x)
  BY <1>1, <1>2, <1>3, <1>4, <1>5 DEF Effects, ValueOf
<1>7. \A x : ValueOf(x) \subseteq Value
  BY DEF ValueOf, Value
<1> QED BY <1>6, <1>7 DEF Effects

-----------------------------------------------------------------------------
(* Serial execution                                                        *)

Start == [ok |-> TRUE, db |-> Genesis]

(* run is the execution of the first m transactions of order.              *)
IsRun(run, blk, order, m) ==
  run = [k \in 0..m |-> IF k = 0 THEN Start
                        ELSE SerialStep(run[k - 1], blk[order[k]], order[k])]

(* An execution of m transactions exists for every m: the least m without  *)
(* one would not be 0, and the execution before it could be continued.     *)
LEMMA RunExists ==
  ASSUME NEW blk, NEW order, NEW n \in Nat
  PROVE  \E run : IsRun(run, blk, order, n)
<1> DEFINE S == {m \in Nat : ~\E run : IsRun(run, blk, order, m)}
<1> SUFFICES ASSUME S # {} PROVE FALSE
  OBVIOUS
<1>1. PICK m \in S : \A k \in S : m <= k
  <2> HIDE DEF S
  <2> QED BY LeastExists DEF S
<1>2. CASE m = 0
  <2>1. IsRun([k \in 0..0 |-> Start], blk, order, 0)
    BY DEF IsRun
  <2> QED BY <1>1, <1>2, <2>1
<1>3. CASE m # 0
  <2>1. m - 1 \in Nat /\ m - 1 \notin S
    BY <1>1, <1>3
  <2>2. PICK g : IsRun(g, blk, order, m - 1)
    BY <2>1
  <2> DEFINE h == [k \in 0..m |-> IF k = m THEN SerialStep(g[m - 1], blk[order[m]], order[m]) ELSE g[k]]
  <2>3. \A k \in 0..m - 1 :
           g[k] = IF k = 0 THEN Start ELSE SerialStep(g[k - 1], blk[order[k]], order[k])
    BY <2>2 DEF IsRun
  <2>4. \A k \in 0..m :
           h[k] = IF k = 0 THEN Start ELSE SerialStep(h[k - 1], blk[order[k]], order[k])
    BY <2>1, <2>3, <1>3
  <2>5. h = [k \in 0..m |-> h[k]]
    OBVIOUS
  <2>6. IsRun(h, blk, order, m)
    <3> HIDE DEF h
    <3> QED BY <2>4, <2>5 DEF IsRun
  <2> HIDE DEF h
  <2> QED BY <1>1, <2>6
<1> QED BY <1>2, <1>3

(* The run starts from Genesis and executes one transaction after another. *)
LEMMA SerialRunDef ==
  ASSUME NEW blk, NEW order, Len(order) \in Nat
  PROVE  /\ SerialRun(blk, order)[0] = Start
         /\ \A k \in 1..Len(order) :
              SerialRun(blk, order)[k] = SerialStep(SerialRun(blk, order)[k - 1], blk[order[k]], order[k])
<1>1. PICK g : IsRun(g, blk, order, Len(order))
  BY RunExists
<1>2. SerialRun(blk, order) = CHOOSE run : IsRun(run, blk, order, Len(order))
  BY DEF SerialRun, IsRun, Start
<1>3. IsRun(SerialRun(blk, order), blk, order, Len(order))
  <2> DEFINE r == CHOOSE run : IsRun(run, blk, order, Len(order))
  <2>1. IsRun(r, blk, order, Len(order))
    BY <1>1
  <2> QED BY <1>2, <2>1
<1>4. ASSUME NEW k \in 0..Len(order)
      PROVE  SerialRun(blk, order)[k] =
               IF k = 0 THEN Start
               ELSE SerialStep(SerialRun(blk, order)[k - 1], blk[order[k]], order[k])
  <2> DEFINE r == SerialRun(blk, order)
  <2>1. r = [j \in 0..Len(order) |-> IF j = 0 THEN Start ELSE SerialStep(r[j - 1], blk[order[j]], order[j])]
    BY <1>3 DEF IsRun
  <2> HIDE DEF r
  <2> QED BY <2>1 DEF r
<1> QED BY <1>4

(* A run that met a failing transaction stays failed.                      *)
LEMMA SerialStaysFailed ==
  ASSUME NEW blk, NEW order, Len(order) \in Nat,
         NEW i \in 0..Len(order), ~SerialRun(blk, order)[i].ok
  PROVE  ~Serial(blk, order).ok
<1> DEFINE run == SerialRun(blk, order)
           S == {k \in i..Len(order) : run[k].ok}
<1> HIDE DEF run
<1> SUFFICES ASSUME S # {} PROVE FALSE
  BY DEF Serial, run
<1>1. PICK m \in S : \A k \in S : m <= k
  <2>1. S \subseteq Nat
    OBVIOUS
  <2> HIDE DEF S
  <2> QED BY <2>1, LeastExists
<1>2. m # i /\ m \in 1..Len(order) /\ m - 1 \in i..Len(order)
  BY <1>1 DEF run
<1>3. ~run[m - 1].ok
  BY <1>1, <1>2
<1>4. run[m] = SerialStep(run[m - 1], blk[order[m]], order[m])
  BY <1>2, SerialRunDef DEF run
<1> QED BY <1>1, <1>3, <1>4 DEF SerialStep

(* Two runs agree as far as their orders do.                               *)
LEMMA SerialPrefix ==
  ASSUME NEW blk, NEW order, NEW longer, Len(order) \in Nat, Len(longer) \in Nat,
         Len(order) <= Len(longer),
         \A k \in 1..Len(order) : longer[k] = order[k],
         NEW i \in 0..Len(order)
  PROVE  SerialRun(blk, longer)[i] = SerialRun(blk, order)[i]
<1> DEFINE run == SerialRun(blk, order)
           lrun == SerialRun(blk, longer)
           S == {k \in 0..Len(order) : lrun[k] # run[k]}
<1>0. /\ run[0] = Start /\ lrun[0] = Start
      /\ \A k \in 1..Len(order) : /\ run[k] = SerialStep(run[k - 1], blk[order[k]], order[k])
                                   /\ lrun[k] = SerialStep(lrun[k - 1], blk[order[k]], order[k])
  BY SerialRunDef
<1> HIDE DEF run, lrun
<1> SUFFICES ASSUME S # {} PROVE FALSE
  BY DEF run, lrun
<1>1. PICK m \in S : \A k \in S : m <= k
  <2>1. S \subseteq Nat
    OBVIOUS
  <2> HIDE DEF S
  <2> QED BY <2>1, LeastExists
<1>2. m \in 1..Len(order) /\ m - 1 \in 0..Len(order)
  BY <1>0, <1>1
<1>3. lrun[m - 1] = run[m - 1]
  BY <1>1, <1>2
<1> QED BY <1>0, <1>1, <1>2, <1>3
==============================================================================
