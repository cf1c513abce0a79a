------------------------- MODULE MCActorLifecycle -------------------------
(***************************************************************************)
(* ActorLifecycle for TLC: actors are interchangeable.  TreeSafety starts  *)
(* from any supervision relation among running actors that link can build  *)
(* (it does not look for cycles), so that a larger tree can be explored    *)
(* from where its actors end.                                              *)
(***************************************************************************)
EXTENDS ActorLifecycle, TLC

Symmetry == Permutations(Actor)

RunningTree ==
  /\ supervisor \in [Actor -> Actor \cup {None}]
  /\ children = [p \in Actor |-> {c \in Actor : supervisor[c] = p}]
  /\ closed = [a \in Actor |-> FALSE]
  /\ boss = supervisor
  /\ wanted = [a \in Actor |-> None]
  /\ status = [a \in Actor |-> Running]
  /\ phase = [a \in Actor |-> "loop"]
  /\ monitors = [a \in Actor |-> {}]
  /\ lock = None
  /\ signal = [a \in Actor |-> "unsent"]
  /\ stop = [a \in Actor |-> "unsent"]
  /\ inbox = [a \in Actor |-> <<>>]
  /\ rxOpen = [a \in Actor |-> TRUE]
  /\ event = [a \in Actor |-> "none"]
  /\ pending = [a \in Actor |-> {}]
  /\ popped = [a \in Actor |-> None]
  /\ doomed = [a \in Actor |-> FALSE]
  /\ calls = 0
  /\ orphans = {}
  /\ spared = {}
  /\ heard = {}

TreeSafety == RunningTree /\ [][Next]_vars
=============================================================================
