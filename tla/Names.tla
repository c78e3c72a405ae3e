--------------------------------- MODULE Names ---------------------------------
(***************************************************************************)
(* The namespace registry (crates/identity/src/namespace.rs): which        *)
(* decentralised identity (DID) owns which name, the list of names of each *)
(* DID by which a claim is weighed, and one stake for each DID.            *)
(*                                                                         *)
(* Scores are exact here, as fractions; the code computes them in floating *)
(* point, where two that differ in their last bits may compare the other   *)
(* way.                                                                    *)
(*                                                                         *)
(* A definition Mut<Name> is <Name> with a mistake one could make in that  *)
(* code; it is used nowhere and tells which property would notice.         *)
(***************************************************************************)
EXTENDS Naturals, FiniteSets, Sequences, Lists

CONSTANTS
  Names,
  Holders,      \* the DIDs that claim names
  Nobody,       \* the owner of a name that is not in the registry
  Reputations,  \* of challengers
  Stakes        \* proposed with a claim

ASSUME ClaimsAssumption == Nobody \notin Holders /\ Reputations \subseteq Nat /\ Stakes \subseteq Nat

VARIABLES names, did_names, stakes
namesVars == <<names, did_names, stakes>>

NamesInit ==
  /\ names = [n \in Names |-> Nobody]
  /\ did_names = [d \in Holders |-> <<>>]
  /\ stakes = [d \in Holders |-> 0]

(* The first three names are free, the fourth divides by 10 and 2, the     *)
(* next by 100 and 4.                                                      *)
MutExtraSlots(d) ==
  LET existing == Len(did_names[d])
  IN  IF existing >= 3 THEN existing - 3 ELSE 0
ExtraSlots(d) ==
  LET existing == Len(did_names[d])
  IN  IF existing >= 3 THEN existing - 2 ELSE 0

Power(base, k) ==
  LET power[i \in 0..k] == IF i = 0 THEN 1 ELSE base * power[i - 1]
  IN  power[k]

(* calculate_score, in hundredths: reputation / 10^slots + stake /         *)
(* (100 * 2^slots).                                                        *)
Score(d, reputation, stake) ==
  LET tens == Power(10, ExtraSlots(d))
      twos == Power(2, ExtraSlots(d))
  IN  [num |-> 100 * reputation * twos + stake * tens, den |-> tens * twos]

OwnerReputation == 1

Wins(d, reputation, stake, owner) ==
  LET claim == Score(d, reputation, stake)
      defence == Score(owner, OwnerReputation, stakes[owner])
  IN  claim.num * defence.den > defence.num * claim.den

Without(list, n) == Retained(list, {i \in DOMAIN list : list[i] # n})

(* What a successful claim writes, the owner there was before evicted.     *)
MutEnter(n, d, stake, evicted) ==
  /\ names' = [names EXCEPT ![n] = d]
  /\ did_names' = [did_names EXCEPT ![d] = Append(@, n)]
  /\ stakes' = [stakes EXCEPT ![d] = stake]
Enter(n, d, stake, evicted) ==
  /\ names' = [names EXCEPT ![n] = d]
  /\ did_names' = [e \in Holders |->
                     IF e = d THEN Append(did_names[e], n)
                     ELSE IF e = evicted THEN Without(did_names[e], n) ELSE did_names[e]]
  /\ stakes' = [stakes EXCEPT ![d] = stake]

(* A claim on a name of one's own succeeds and one that loses fails, both  *)
(* without changing anything.                                              *)
RegisterName(n, d, reputation, stake) ==
  \/ names[n] = Nobody /\ Enter(n, d, stake, Nobody)
  \/ /\ names[n] \notin {Nobody, d}
     /\ Wins(d, reputation, stake, names[n])
     /\ Enter(n, d, stake, names[n])

NamesNext ==
  \E n \in Names, d \in Holders, reputation \in Reputations, stake \in Stakes :
    RegisterName(n, d, reputation, stake)

NamesSpec == NamesInit /\ [][NamesNext]_namesVars

-----------------------------------------------------------------------------
(* Properties                                                              *)

Owned(d) == {n \in Names : names[n] = d}

(* However names have changed hands: a DID's list holds the names the      *)
(* registry gives it, each once, so that names a DID has lost do not weigh *)
(* on its next claim.                                                      *)
OneOwner ==
  /\ names \in [Names -> Holders \cup {Nobody}] /\ stakes \in [Holders -> Stakes \cup {0}]
  /\ \A d \in Holders :
       /\ {did_names[d][i] : i \in DOMAIN did_names[d]} = Owned(d)
       /\ \A i, j \in DOMAIN did_names[d] : did_names[d][i] = did_names[d][j] => i = j

(* Who has only its first two names keeps them against anybody who does    *)
(* not offer more than its own reputation and stake, and against somebody  *)
(* with three names or more and no stake, who needs ten times as much.     *)
FewNamesKept ==
  [][\A n \in Names :
       LET owner == names[n]
           defence == 100 * OwnerReputation + stakes[owner]
       IN  owner # Nobody /\ names'[n] # owner /\ Cardinality(Owned(owner)) <= 2 =>
           \A d \in Holders, reputation \in Reputations, stake \in Stakes :
             RegisterName(n, d, reputation, stake) =>
             /\ 100 * reputation + stake > defence
             /\ stake = 0 /\ Cardinality(Owned(d)) >= 3 =>
                  100 * reputation > 10 * defence]_namesVars
==============================================================================
