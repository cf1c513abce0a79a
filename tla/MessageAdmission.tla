-------------------------- MODULE MessageAdmission --------------------------
(***************************************************************************)
(* The message port of one actor: threads that send to it, threads that    *)
(* drain it, and the actor's task, which takes messages off the port.      *)
(*                                                                         *)
(* drain() promises that every message accepted before the drain marker is *)
(* processed and that none is accepted after it.  Nothing locks the port:  *)
(* the promise rests on one atomic word, message_admission, which holds a  *)
(* CLOSED bit, a DRAIN_MARKER_SENT bit and the number of sends that were   *)
(* admitted and have not finished.  One action below is one atomic         *)
(* operation of the program on that word, on the status or on the channel. *)
(*                                                                         *)
(* A compare-exchange loop is one action: its failed rounds change         *)
(* nothing, and its last round reads the word it acts on.                  *)
(***************************************************************************)
EXTENDS ActorStatus, Sequences, FiniteSets

CONSTANTS
  Thread,   \* the threads that hold a reference to the actor
  Msg,      \* the messages they may send, each at most once
  Serialized,  \* those of them that go through send_serialized
  Drain,    \* MuxedMessage::Drain
  None      \* no message

ASSUME ThreadIsFinite == IsFiniteSet(Thread)
ASSUME SerializedAreMessages == Serialized \subseteq Msg
ASSUME MarkerIsNoMessage == Drain \notin Msg /\ None \notin Msg /\ Drain # None

VARIABLES
  status,       \* ActorProperties.status
  admission,    \* ActorProperties.message_admission, its two bits and its count
  mailbox,      \* the queue between message and message_rx
  rxOpen,       \* FALSE once ActorPortSet was dropped
  pc,           \* where each thread is inside send_message or drain
  inHand,       \* the message each thread is sending
  phase,        \* where the actor's task is
  current,      \* the message the actor's handler is working on
  supervised,   \* whether start was given a supervisor
  exit,         \* why the actor's task left its loop
  unsent,       \* history: the messages nobody began to send
  accepted,     \* history: the messages the channel took
  handled,      \* history: the messages the handler finished
  discarded,    \* history: the messages the actor took and could not decode
  late          \* history: those not admitted yet when a drain closed the port

senderVars  == <<pc, inHand, unsent, late>>
actorVars   == <<phase, current, supervised, exit, handled, discarded>>
channelVars == <<mailbox, rxOpen, accepted>>
vars == <<status, admission, senderVars, actorVars, channelVars>>

(***************************************************************************)
(* The places a thread can be in.  "drain_status" and "marker" are inside  *)
(* drain(); "marker" and "push_marker" are inside send_drain_marker(),     *)
(* which drain() and the drop of an admission share.                       *)
(***************************************************************************)
SendPc  == {"admit", "enqueue", "release"}
DrainPc == {"drain_status"}
Pc == {"idle", "marker", "push_marker"} \cup SendPc \cup DrainPc

Phase == {"cell", "pre_start", "post_start", "loop", "post_stop", "drop_ports",
          "cleanup", "gone"}
Exit  == {"none", "already_started", "start_failed", "not_linked", "drained",
          "stopped", "killed", "failed", "cancelled"}

Init ==
  /\ status = Unstarted
  /\ admission = [closed |-> FALSE, marker |-> FALSE, count |-> 0]
  /\ mailbox = <<>>
  /\ rxOpen = TRUE
  /\ pc = [t \in Thread |-> "idle"]
  /\ inHand = [t \in Thread |-> None]
  /\ phase = "cell"
  /\ current = None
  /\ supervised \in BOOLEAN
  /\ exit = "none"
  /\ unsent = Msg
  /\ accepted = {}
  /\ handled = {}
  /\ discarded = {}
  /\ late = {}

Goto(t, place) == pc' = [pc EXCEPT ![t] = place]

-----------------------------------------------------------------------------
(***************************************************************************)
(* send_message_unchecked and send_serialized.                             *)
(***************************************************************************)

(* The first check: an actor that drains, stops or stopped rejects.        *)
BeginSend(t, m) ==
  /\ pc[t] = "idle"
  /\ m \in unsent
  /\ unsent' = unsent \ {m}
  /\ IF status >= Draining
       THEN UNCHANGED <<pc, inHand>>
       ELSE Goto(t, "admit") /\ inHand' = [inHand EXCEPT ![t] = m]
  /\ UNCHANGED <<status, admission, late, actorVars, channelVars>>

(* try_admit_message: the count goes up unless the CLOSED bit is set.      *)
\* Mutant: the bit is not looked at.
CanAlwaysAdmit == TRUE
CanAdmit == ~admission.closed

TryAdmit(t) ==
  /\ pc[t] = "admit"
  /\ IF CanAdmit
       THEN /\ Goto(t, "enqueue")
            /\ admission' = [admission EXCEPT !.count = @ + 1]
            /\ UNCHANGED inHand
       ELSE /\ Goto(t, "idle")
            /\ inHand' = [inHand EXCEPT ![t] = None]
            /\ UNCHANGED admission
  /\ UNCHANGED <<status, unsent, late, actorVars, channelVars>>

(* The channel takes the message unless the receiver is gone.              *)
Enqueue(t) ==
  /\ pc[t] = "enqueue"
  /\ Goto(t, "release")
  /\ IF rxOpen
       THEN /\ mailbox' = Append(mailbox, inHand[t])
            /\ accepted' = accepted \cup {inHand[t]}
       ELSE UNCHANGED <<mailbox, accepted>>
  /\ UNCHANGED <<status, admission, inHand, unsent, late, actorVars, rxOpen>>

(* box_message fails: the send returns InvalidActorType, and the admission *)
(* is dropped all the same.  send_serialized boxes nothing.                *)
\* Mutants: the admission is not dropped, or dropped twice.
BoxFailsLeaks(t) ==
  /\ pc[t] = "enqueue"
  /\ inHand[t] \notin Serialized
  /\ Goto(t, "idle")
  /\ UNCHANGED <<status, admission, inHand, unsent, late, actorVars, channelVars>>
BoxFailsDropsTwice(t) ==
  /\ pc[t] = "enqueue"
  /\ inHand[t] \notin Serialized
  /\ Goto(t, "release")
  /\ admission' = [admission EXCEPT !.count = @ - 1]
  /\ UNCHANGED <<status, inHand, unsent, late, actorVars, channelVars>>
BoxFails(t) ==
  /\ pc[t] = "enqueue"
  /\ inHand[t] \notin Serialized
  /\ Goto(t, "release")
  /\ UNCHANGED <<status, admission, inHand, unsent, late, actorVars, channelVars>>

(* MessageAdmission::drop: the last admitted send of a closed port owes    *)
(* the drain marker.  fetch_sub returns the word before the decrement.     *)
\* Mutant: the count is compared as if it were the one after it.
OwesMarkerOffByOne == admission.closed /\ admission.count = 0
OwesMarker == admission.closed /\ admission.count = 1

Release(t) ==
  /\ pc[t] = "release"
  /\ admission' = [admission EXCEPT !.count = @ - 1]
  /\ Goto(t, IF OwesMarker THEN "marker" ELSE "idle")
  /\ inHand' = [inHand EXCEPT ![t] = None]
  /\ UNCHANGED <<status, unsent, late, actorVars, channelVars>>

-----------------------------------------------------------------------------
(***************************************************************************)
(* drain: close the admission word, publish Draining, send the marker.     *)
(***************************************************************************)

\* The messages that no send has got admitted.
Unadmitted == unsent \cup {inHand[t] : t \in {u \in Thread : pc[u] = "admit"}}

CloseAdmission(t) ==
  /\ pc[t] = "idle"
  /\ admission' = [admission EXCEPT !.closed = TRUE]
  /\ late' = late \cup Unadmitted
  /\ Goto(t, "drain_status")
  /\ UNCHANGED <<status, inHand, unsent, actorVars, channelVars>>

PublishDraining(t) ==
  /\ pc[t] = "drain_status"
  /\ status' = Advance(status, Draining)
  /\ Goto(t, "marker")
  /\ UNCHANGED <<admission, inHand, unsent, late, actorVars, channelVars>>

(* send_drain_marker: one caller wins the right to send the marker.        *)
\* Mutants: admitted sends are not waited for; the SENT bit is not looked at.
MarkerDueTooEarly == admission.closed /\ ~admission.marker
MarkerDueAgain == admission.closed /\ admission.count = 0
MarkerDue == admission.closed /\ admission.count = 0 /\ ~admission.marker

ClaimMarker(t) ==
  /\ pc[t] = "marker"
  /\ IF MarkerDue
       THEN /\ admission' = [admission EXCEPT !.marker = TRUE]
            /\ Goto(t, "push_marker")
       ELSE /\ Goto(t, "idle")
            /\ UNCHANGED admission
  /\ UNCHANGED <<status, inHand, unsent, late, actorVars, channelVars>>

PushMarker(t) ==
  /\ pc[t] = "push_marker"
  /\ mailbox' = IF rxOpen THEN Append(mailbox, Drain) ELSE mailbox
  /\ Goto(t, "idle")
  /\ UNCHANGED <<status, admission, inHand, unsent, late, actorVars, rxOpen, accepted>>

-----------------------------------------------------------------------------
(***************************************************************************)
(* The actor's task: ActorRuntime::start and processing_loop.  The user's  *)
(* callbacks pre_start, post_start, handle and post_stop may succeed or    *)
(* fail; a kill may interrupt any of them, and so may the cancellation of  *)
(* the task.                                                               *)
(***************************************************************************)

(* Leaving the loop publishes Stopping.                                    *)
Leave(reason, next) ==
  /\ exit' = reason
  /\ phase' = next
  /\ current' = None
  /\ status' = Advance(status, Stopping)

(* Returning from start with an error drops the lifecycle guard, whose     *)
(* cleanup publishes Stopping and Stopped, before the ports.               *)
AbortStart(reason) ==
  /\ exit' = reason
  /\ phase' = "drop_ports"
  /\ status' = Advance(status, Stopped)

(* spawn_instant hands out the reference before start runs, so a drain may *)
(* come first; start then refuses to run.                                  *)
Start ==
  /\ phase = "cell"
  /\ IF status # Unstarted
       THEN phase' = "drop_ports" /\ exit' = "already_started" /\ UNCHANGED status
       ELSE phase' = "pre_start" /\ status' = Advance(status, Starting) /\ UNCHANGED exit
  /\ UNCHANGED <<admission, senderVars, current, supervised, handled, discarded, channelVars>>

(* pre_start succeeded.  SupervisionTree::link refuses a child that drains *)
(* already, and start then gives up.                                       *)
PreStartOk ==
  /\ phase = "pre_start"
  /\ IF supervised /\ status >= Draining
       THEN AbortStart("not_linked")
       ELSE phase' = "post_start" /\ UNCHANGED <<status, exit>>
  /\ UNCHANGED <<admission, senderVars, current, supervised, handled, discarded, channelVars>>

(* pre_start returned an error or panicked, was killed, or the supervisor  *)
(* is shutting down and refuses the child.                                 *)
PreStartFails ==
  /\ phase = "pre_start"
  /\ \E reason \in {"start_failed", "killed"} : AbortStart(reason)
  /\ UNCHANGED <<admission, senderVars, current, supervised, handled, discarded, channelVars>>

PostStartOk ==
  /\ phase = "post_start"
  /\ phase' = "loop"
  /\ status' = Advance(status, Running)
  /\ UNCHANGED <<admission, senderVars, current, supervised, exit, handled, discarded, channelVars>>

(* An error of post_start leaves processing_loop without publishing        *)
(* Stopping; the cleanup does.                                             *)
PostStartFails ==
  /\ phase = "post_start"
  /\ exit' \in {"failed", "killed"}
  /\ phase' = "drop_ports"
  /\ UNCHANGED <<status, admission, senderVars, current, supervised,
                 handled, discarded, channelVars>>

(* process_message, a message of the message port.                         *)
Receive ==
  /\ phase = "loop" /\ current = None
  /\ mailbox # <<>> /\ Head(mailbox) # Drain
  /\ current' = Head(mailbox)
  /\ mailbox' = Tail(mailbox)
  /\ UNCHANGED <<status, admission, senderVars, phase, supervised, exit, handled, discarded,
                 rxOpen, accepted>>

(* process_message, the drain marker.                                      *)
ReceiveDrain ==
  /\ phase = "loop" /\ current = None
  /\ mailbox # <<>> /\ Head(mailbox) = Drain
  /\ mailbox' = Tail(mailbox)
  /\ Leave("drained", "post_stop")
  /\ UNCHANGED <<admission, senderVars, supervised, handled, discarded, rxOpen, accepted>>

HandleOk ==
  /\ phase = "loop" /\ current # None
  /\ handled' = handled \cup {current}
  /\ current' = None
  /\ UNCHANGED <<status, admission, senderVars, phase, supervised, exit, discarded, channelVars>>

(* A serialized message that does not decode is dropped: handle_message    *)
(* returns Ok without calling the handler.                                 *)
HandleDiscards ==
  /\ phase = "loop" /\ current \in Serialized
  /\ discarded' = discarded \cup {current}
  /\ current' = None
  /\ UNCHANGED <<status, admission, senderVars, phase, supervised, exit, handled, channelVars>>

(* An error drops the loop's future, and the ports with it, before the     *)
(* status changes.                                                         *)
HandleFails ==
  /\ phase = "loop" /\ current # None
  /\ exit' = "failed"
  /\ phase' = "drop_ports"
  /\ current' = None
  /\ UNCHANGED <<status, admission, senderVars, supervised, handled, discarded, channelVars>>

(* The stop port is looked at between two messages only.                   *)
ReceiveStop ==
  /\ phase = "loop" /\ current = None
  /\ Leave("stopped", "post_stop")
  /\ UNCHANGED <<admission, senderVars, supervised, handled, discarded, channelVars>>

Kill ==
  /\ phase = "loop"
  /\ Leave("killed", "drop_ports")
  /\ UNCHANGED <<admission, senderVars, supervised, handled, discarded, channelVars>>

(* The executor drops the task's future where it awaits, or before it was  *)
(* polled.  Once the loop owns the ports they are dropped before the       *)
(* cleanup, and until then after it.                                       *)
Cancel ==
  /\ \/ /\ phase \in {"cell", "pre_start"}
        /\ AbortStart("cancelled")
     \/ /\ phase \in {"post_start", "loop"}
        /\ exit' = "cancelled"
        /\ phase' = "drop_ports"
        /\ UNCHANGED status
  /\ current' = None
  /\ UNCHANGED <<admission, senderVars, supervised, handled, discarded, channelVars>>

(* post_stop returned, failed, was killed or was cancelled.                *)
PostStop ==
  /\ phase = "post_stop"
  /\ phase' = "drop_ports"
  /\ UNCHANGED <<status, admission, senderVars, current, supervised,
                 exit, handled, discarded, channelVars>>

(* ActorPortSet::drop closes the port and throws away what is queued.      *)
DropPorts ==
  /\ phase = "drop_ports"
  /\ rxOpen' = FALSE
  /\ mailbox' = <<>>
  /\ phase' = "cleanup"
  /\ UNCHANGED <<status, admission, senderVars, current, supervised,
                 exit, handled, discarded, accepted>>

(* ActorLifecycleGuard::cleanup, which ends with Stopped.  A Stopping that *)
(* was not published yet comes first; a send does not tell the two apart.  *)
Cleanup ==
  /\ phase = "cleanup"
  /\ status' = Advance(status, Stopped)
  /\ phase' = "gone"
  /\ UNCHANGED <<admission, senderVars, current, supervised, exit, handled, discarded, channelVars>>

-----------------------------------------------------------------------------
ThreadStep(t) ==
  \/ TryAdmit(t) \/ Enqueue(t) \/ BoxFails(t) \/ Release(t)
  \/ PublishDraining(t) \/ ClaimMarker(t) \/ PushMarker(t)

ThreadCall(t) == CloseAdmission(t) \/ \E m \in Msg : BeginSend(t, m)

TaskStep ==
  \/ Start \/ PreStartOk \/ PreStartFails \/ PostStartOk \/ PostStartFails
  \/ Receive \/ ReceiveDrain \/ HandleOk \/ HandleDiscards \/ HandleFails
  \/ PostStop \/ DropPorts \/ Cleanup

Next ==
  \/ \E t \in Thread : ThreadStep(t) \/ ThreadCall(t)
  \/ TaskStep \/ ReceiveStop \/ Kill \/ Cancel

(***************************************************************************)
(* A call a thread has begun runs to its end (nothing in it blocks), and   *)
(* the executor keeps polling the actor's task, whose callbacks return.    *)
(* Nobody has to send, to drain, to stop, to kill or to cancel.            *)
(***************************************************************************)
Fairness == (\A t \in Thread : WF_vars(ThreadStep(t))) /\ WF_vars(TaskStep)

Safety == Init /\ [][Next]_vars
Spec == Safety /\ Fairness

-----------------------------------------------------------------------------
(***************************************************************************)
(* The status, the admission word, the channel, the threads and the task   *)
(* stay within their ranges; the count never becomes negative.             *)
(***************************************************************************)
TypeOK ==
  /\ status \in Status
  /\ admission \in [closed : BOOLEAN, marker : BOOLEAN, count : Nat]
  /\ mailbox \in Seq(Msg \cup {Drain})
  /\ rxOpen \in BOOLEAN
  /\ pc \in [Thread -> Pc]
  /\ inHand \in [Thread -> Msg \cup {None}]
  /\ phase \in Phase
  /\ current \in Msg \cup {None}
  /\ supervised \in BOOLEAN
  /\ exit \in Exit
  /\ unsent \in SUBSET Msg
  /\ accepted \in SUBSET Msg
  /\ handled \in SUBSET Msg
  /\ discarded \in SUBSET Serialized
  /\ late \in SUBSET Msg

(***************************************************************************)
(* drain() loses nothing: when the actor leaves its loop because it took   *)
(* the drain marker, every message the channel ever accepted was handled,  *)
(* or was a serialized one that did not decode, and from then on it        *)
(* accepts none.  A send may be admitted before the drain and reach the    *)
(* channel long after it, so the marker has to wait for it                 *)
(* (MessageAdmission::drop, send_drain_marker).                            *)
(***************************************************************************)
DrainLosesNothing == exit = "drained" => accepted \subseteq handled \cup discarded

(***************************************************************************)
(* A message that was not admitted when a drain closed the port is         *)
(* rejected, whether its send had begun or not: it may have passed the     *)
(* status check before the drain, or pass it after because Draining is not *)
(* published yet, and try_admit_message has to catch it.                   *)
(***************************************************************************)
LateSendsRejected == late \cap accepted = {}

(***************************************************************************)
(* The count of the admission word is the number of sends between their    *)
(* admission and its drop: the debug_assert of MessageAdmission::drop,     *)
(* that the count it decrements is not zero, never fails.                  *)
(***************************************************************************)
Admitted == {t \in Thread : pc[t] \in {"enqueue", "release"}}

CountIsAdmitted == admission.count = Cardinality(Admitted)

(***************************************************************************)
(* The marker is never forgotten: once the port is closed and the last     *)
(* admitted send is over, the marker was claimed or some thread is on its  *)
(* way to claim it.  drain() returns without sending the marker while a    *)
(* send is admitted and relies on that send to do it.                      *)
(***************************************************************************)
MarkerNotForgotten ==
  MarkerDue => \E t \in Thread : pc[t] \in {"drain_status", "marker"}

(***************************************************************************)
(* A drain ends: once drain() was called, the actor stops, whatever sends  *)
(* and other drains run beside it and whatever phase of its life it is in. *)
(***************************************************************************)
DrainTerminates == admission.closed ~> phase = "gone" /\ status = Stopped

(***************************************************************************)
(* The port implements DrainingMailbox, the mailbox drain() describes.     *)
(* It is sealed when the marker is claimed; what the channel still takes   *)
(* after the actor left its loop is never looked at.                       *)
(***************************************************************************)
Messages(box) ==
  IF box # <<>> /\ box[Len(box)] = Drain THEN SubSeq(box, 1, Len(box) - 1) ELSE box

Port == INSTANCE DrainingMailbox WITH
  handled <- handled \cup discarded,
  queue   <- IF exit = "none" THEN Messages(mailbox) ELSE <<>>,
  sealed  <- admission.marker,
  outcome <- CASE exit = "none" -> "live" [] exit = "drained" -> "drained" [] OTHER -> "aborted"

ImplementsDrainingMailbox == Port!Spec

(***************************************************************************)
(* What the doc comment of ActorCell::drain says: the queue is processed   *)
(* and then the actor terminates.  An actor that nobody stopped, killed or *)
(* cancelled and whose callbacks did not fail is gone only when it has     *)
(* taken from the queue all that was accepted.                             *)
(***************************************************************************)
DrainProcessesTheQueue ==
  phase = "gone" /\ exit \notin {"stopped", "killed", "failed", "start_failed", "cancelled"}
    => accepted \subseteq handled \cup discarded
=============================================================================
