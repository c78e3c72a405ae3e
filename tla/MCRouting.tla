------------------------------ MODULE MCRouting ------------------------------
(***************************************************************************)
(* Two destinations and two routes; two callers, one of whom can pay for   *)
(* one modest request.  In units of the base penalty a modest request      *)
(* costs 1 + 1 + 3, a request across jurisdictions 11 + 1 + 1.  A word     *)
(* ends at 24: of the two requests that announce more, one wraps around to *)
(* what anybody can pay, the other to less than its own penalty and        *)
(* bandwidth.  Destinations and routes are interchangeable.                *)
(***************************************************************************)
EXTENDS Routing, TLC

Ask(frozen, subsumed, evm, bandwidth) ==
  [frozen |-> frozen, subsumed |-> subsumed, overlap |-> TRUE, evm |-> evm, bandwidth |-> bandwidth]

SmallRequests == {Ask(FALSE, TRUE, 1, 3), Ask(FALSE, FALSE, 1, 1), Ask(TRUE, TRUE, 0, 0),
                  [Ask(FALSE, TRUE, 0, 2) EXCEPT !.overlap = FALSE],
                  Ask(FALSE, TRUE, 20, 3), Ask(FALSE, FALSE, 13, 4)}
SmallFunds == [c \in Callers |-> IF c = 1 THEN 8 ELSE 23]

Alike == Permutations(Dests) \cup Permutations(Routes)
==============================================================================
