--------------------------- MODULE DrainingMailbox ---------------------------
(***************************************************************************)
(* What an actor's message port promises, without the admission word: a    *)
(* queue that takes messages until it is sealed, an actor that handles     *)
(* them in order, and a drained exit that happens only when the queue is   *)
(* sealed and nothing is left in it.                                       *)
(***************************************************************************)
EXTENDS Sequences

CONSTANTS Msg, None

VARIABLES
  queue,     \* the accepted messages the actor has not taken
  current,   \* the message the actor works on
  handled,   \* the messages it finished
  sealed,    \* no message is accepted any more
  outcome    \* "live", "drained", or "aborted" by a stop, a kill or an error

vars == <<queue, current, handled, sealed, outcome>>

Init ==
  /\ queue = <<>>
  /\ current = None
  /\ handled = {}
  /\ sealed = FALSE
  /\ outcome = "live"

Accept(m) ==
  /\ ~sealed /\ outcome = "live"
  /\ queue' = Append(queue, m)
  /\ UNCHANGED <<current, handled, sealed, outcome>>

Seal ==
  /\ ~sealed
  /\ sealed' = TRUE
  /\ UNCHANGED <<queue, current, handled, outcome>>

Take ==
  /\ outcome = "live" /\ current = None /\ queue # <<>>
  /\ current' = Head(queue)
  /\ queue' = Tail(queue)
  /\ UNCHANGED <<handled, sealed, outcome>>

Finish ==
  /\ outcome = "live" /\ current # None
  /\ handled' = handled \cup {current}
  /\ current' = None
  /\ UNCHANGED <<queue, sealed, outcome>>

ExitDrained ==
  /\ outcome = "live" /\ sealed
  /\ current = None /\ queue = <<>>
  /\ outcome' = "drained"
  /\ UNCHANGED <<queue, current, handled, sealed>>

Abort ==
  /\ outcome = "live"
  /\ outcome' = "aborted"
  /\ queue' = <<>>
  /\ current' = None
  /\ UNCHANGED <<handled, sealed>>

Next ==
  \/ \E m \in Msg : Accept(m)
  \/ Seal \/ Take \/ Finish \/ ExitDrained \/ Abort

Spec == Init /\ [][Next]_vars
=============================================================================
