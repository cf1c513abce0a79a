--------------------------- MODULE ActorLifecycle ---------------------------
(***************************************************************************)
(* The life of a group of actors and the supervision tree they form:       *)
(* ActorRuntime::start and processing_loop (actor.rs), the cleanup of      *)
(* ActorLifecycleGuard, terminate, kill, stop and drain (actor_cell.rs)    *)
(* and the tree (supervision.rs).                                          *)
(*                                                                         *)
(* Changes of the tree hold TREE_MUTATION_LOCK, but the status of an actor *)
(* is an atomic outside it.  link reads the status of both actors under    *)
(* the lock and changes the tree later, so an actor may begin to stop      *)
(* between the two: link is two steps here, and lock names the link that   *)
(* is between them.  Every other change of the tree is one step, taken     *)
(* when the lock is free.  The second half of a link is one step too,      *)
(* though a reader without the lock (stop_children, drain_children) may    *)
(* see the child in the old and the new set while it is moved: that reader *)
(* finds in the old set what it would have found before the move.          *)
(*                                                                         *)
(* The user's callbacks return, fail or are killed; the executor may       *)
(* cancel a task where it awaits.                                          *)
(***************************************************************************)
EXTENDS ActorStatus, Sequences

CONSTANTS
  Actor,      \* the actors
  None,       \* no actor
  MaxCalls    \* how many calls of the public API the model makes

ASSUME NoneIsNoActor == None \notin Actor
ASSUME MaxCallsIsNat == MaxCalls \in Nat

VARIABLES
  status,       \* ActorProperties.status
  children,     \* SupervisionTree.children, {} where it is None
  closed,       \* SupervisionTree.children is None: closed for good
  supervisor,   \* SupervisionTree.supervisor
  monitors,     \* SupervisionTree.monitors
  lock,         \* the link that holds TREE_MUTATION_LOCK, or None
  signal,       \* the kill port: "unsent", "pending" or "taken"
  stop,         \* the stop port, likewise
  inbox,        \* the supervision port
  rxOpen,       \* FALSE once the actor's ports were dropped
  phase,        \* where the actor's task is
  wanted,       \* the supervisor the actor is started with
  event,        \* what the cleanup will tell the supervisor
  pending,      \* the worklist of the terminate the task runs
  popped,       \* the actor that terminate popped and did not finish with
  doomed,       \* that terminate found the popped actor to be killed
  calls,        \* how many calls of the public API were made
  orphans,      \* history: actors a terminate has taken from their supervisor
  spared,       \* history: actors a terminate popped and found past Upgrading
  boss,         \* history: the supervisor a link gave the actor and no unlink took
  heard         \* history: <<a, b>>, supervisor b was told that a ended

treeVars    == <<children, closed, supervisor>>
portVars    == <<signal, stop, inbox, rxOpen>>
walkVars    == <<pending, popped, doomed>>
taskVars    == <<phase, wanted, event, walkVars>>
historyVars == <<orphans, spared, boss, heard>>
vars == <<status, treeVars, monitors, lock, portVars, taskVars, calls, historyVars>>

(***************************************************************************)
(* The phases of a task.  A task waits in the Unmarked and the Marked     *)
(* phases, before and after mark_running.  The Walking phases are calls of *)
(* terminate: from handle_signal, in a callback of the start and in one of *)
(* the loop, and from the cleanup; "cleanup" to "finish" are the steps of  *)
(* ActorLifecycleGuard::cleanup.                                           *)
(***************************************************************************)
Unmarked == {"cell", "pre_start"}
Marked   == {"post_start", "loop", "post_stop"}
Walking  == {"killed", "killed_in_loop", "terminate"}
Sync     == {"link", "linking", "returning", "cleanup", "notify", "unlink", "finish", "done"}
Phase    == Unmarked \cup Marked \cup Walking \cup Sync

Slot  == {"unsent", "pending", "taken"}
Event == [kind : {"started", "terminated", "failed"}, who : Actor]
Link  == [child : Actor, sup : Actor, spawning : BOOLEAN]

Init ==
  /\ status = [a \in Actor |-> Unstarted]
  /\ children = [a \in Actor |-> {}]
  /\ closed = [a \in Actor |-> FALSE]
  /\ supervisor = [a \in Actor |-> None]
  /\ monitors = [a \in Actor |-> {}]
  /\ lock = None
  /\ signal = [a \in Actor |-> "unsent"]
  /\ stop = [a \in Actor |-> "unsent"]
  /\ inbox = [a \in Actor |-> <<>>]
  /\ rxOpen = [a \in Actor |-> TRUE]
  /\ phase = [a \in Actor |-> "cell"]
  /\ wanted = [a \in Actor |-> None]
  /\ event = [a \in Actor |-> "none"]
  /\ pending = [a \in Actor |-> {}]
  /\ popped = [a \in Actor |-> None]
  /\ doomed = [a \in Actor |-> FALSE]
  /\ calls = 0
  /\ orphans = {}
  /\ spared = {}
  /\ boss = [a \in Actor |-> None]
  /\ heard = {}

Goto(a, p) == phase' = [phase EXCEPT ![a] = p]

\* Mutant: the status is stored, not raised, and may go back.
SetStatusStores(a, s) == status' = [status EXCEPT ![a] = s]
SetStatus(a, s) == status' = [status EXCEPT ![a] = Advance(@, s)]

(***************************************************************************)
(* A oneshot port: the first sender takes it, later ones get an error, and *)
(* what is sent to a dropped receiver is lost.                             *)
(***************************************************************************)
Send(port, a) ==
  IF port[a] # "unsent" THEN port
  ELSE [port EXCEPT ![a] = IF rxOpen[a] THEN "pending" ELSE "taken"]

-----------------------------------------------------------------------------
(***************************************************************************)
(* notify_supervisor: the event goes to the monitors and the supervisor;   *)
(* a monitor that cannot be reached is forgotten.                          *)
(***************************************************************************)
Targets(a) == {b \in Actor : rxOpen[b] /\ (b \in monitors[a] \/ b = supervisor[a])}

Notify(a, kind) ==
  LET e == [kind |-> kind, who |-> a]
      copies(b) == (IF b \in monitors[a] THEN <<e>> ELSE <<>>) \o
                   (IF b = supervisor[a] THEN <<e>> ELSE <<>>)
  IN  /\ inbox' = [b \in Actor |-> IF b \in Targets(a) THEN inbox[b] \o copies(b) ELSE inbox[b]]
      /\ monitors' = [monitors EXCEPT ![a] = {b \in @ : rxOpen[b]}]

(***************************************************************************)
(* SupervisionTree::link.  The first half takes the lock and reads both    *)
(* statuses; the second is refused when the supervisor's child set is      *)
(* closed, and otherwise moves the child from its previous supervisor.     *)
(***************************************************************************)
\* Mutant: only the supervisor's status is looked at.
LinkAllowedWhileStopping(c, p) == status[p] < Draining

LinkAllowed(c, p) == status[c] < Draining /\ status[p] < Draining

LinkCheck(c, p, spawning) ==
  /\ lock = None
  /\ LinkAllowed(c, p)
  /\ lock' = [child |-> c, sup |-> p, spawning |-> spawning]

\* Mutant: the previous supervisor keeps the child in its set.
MoveChildKeepsPrevious(c, p) ==
  /\ children' = [children EXCEPT ![p] = @ \cup {c}]
  /\ supervisor' = [supervisor EXCEPT ![c] = p]
  /\ UNCHANGED closed

MoveChild(c, p) ==
  /\ children' = [q \in Actor |->
       IF q = p THEN children[q] \cup {c}
       ELSE IF q = supervisor[c] THEN children[q] \ {c}
       ELSE children[q]]
  /\ supervisor' = [supervisor EXCEPT ![c] = p]
  /\ UNCHANGED closed

LinkCommit(c, p) ==
  /\ lock' = None
  /\ IF closed[p]
       THEN UNCHANGED <<treeVars, boss>>
       ELSE MoveChild(c, p) /\ boss' = [boss EXCEPT ![c] = p]

(***************************************************************************)
(* SupervisionTree::unlink, if p is still the supervisor of c.             *)
(***************************************************************************)
Unlink(c, p) ==
  /\ lock = None
  /\ IF supervisor[c] = p
       THEN /\ children' = [children EXCEPT ![p] = @ \ {c}]
            /\ supervisor' = [supervisor EXCEPT ![c] = None]
            /\ UNCHANGED closed
       ELSE UNCHANGED treeVars

(***************************************************************************)
(* SupervisionTree::take_children: the set is closed and the children are  *)
(* detached.                                                               *)
(***************************************************************************)
\* Mutant: the children keep pointing at the actor that gave them up.
TakeChildrenKeepsLinks(p) ==
  /\ lock = None
  /\ children' = [children EXCEPT ![p] = {}]
  /\ closed' = [closed EXCEPT ![p] = TRUE]
  /\ UNCHANGED supervisor
  /\ orphans' = orphans \cup children[p]

TakeChildren(p) ==
  /\ lock = None
  /\ children' = [children EXCEPT ![p] = {}]
  /\ closed' = [closed EXCEPT ![p] = TRUE]
  /\ supervisor' = [c \in Actor |->
       IF c \in children[p] /\ supervisor[c] = p THEN None ELSE supervisor[c]]
  /\ orphans' = orphans \cup children[p]

-----------------------------------------------------------------------------
(***************************************************************************)
(* A return that drops the ports before the lifecycle guard, as the return *)
(* of processing_loop does: the event is handed to the cleanup.            *)
(***************************************************************************)
Leave(a, kind) ==
  /\ Goto(a, "cleanup")
  /\ event' = [event EXCEPT ![a] = kind]
  /\ rxOpen' = [rxOpen EXCEPT ![a] = FALSE]
  /\ inbox' = [inbox EXCEPT ![a] = <<>>]

(***************************************************************************)
(* ActorRuntime::start.  An actor that was drained before it was polled    *)
(* for the first time is not Unstarted any more, and is not started: its   *)
(* ports, an argument of start, are dropped before self.                   *)
(***************************************************************************)
Start(a, s) ==
  /\ phase[a] = "cell"
  /\ status[a] = Unstarted
  /\ SetStatus(a, Starting)
  /\ Goto(a, "pre_start")
  /\ wanted' = [wanted EXCEPT ![a] = s]
  /\ UNCHANGED <<treeVars, monitors, lock, portVars, event, walkVars, calls, historyVars>>

AlreadyStarted(a) ==
  /\ phase[a] = "cell"
  /\ status[a] # Unstarted
  /\ Leave(a, "none")
  /\ UNCHANGED <<status, treeVars, monitors, lock, signal, stop, wanted, walkVars, calls,
                 historyVars>>

PreStartOk(a) ==
  /\ phase[a] = "pre_start"
  /\ Goto(a, IF wanted[a] = None THEN "post_start" ELSE "link")
  /\ UNCHANGED <<status, treeVars, monitors, lock, portVars, wanted, event, walkVars,
                 calls, historyVars>>

PreStartFails(a) ==
  /\ phase[a] = "pre_start"
  /\ Goto(a, "cleanup")
  /\ UNCHANGED <<status, treeVars, monitors, lock, portVars, wanted, event, walkVars,
                 calls, historyVars>>

SpawnLinkCheck(a) ==
  /\ phase[a] = "link"
  /\ LinkCheck(a, wanted[a], TRUE)
  /\ Goto(a, "linking")
  /\ UNCHANGED <<status, treeVars, monitors, portVars, wanted, event, walkVars,
                 calls, historyVars>>

SpawnLinkRefused(a) ==
  /\ phase[a] = "link"
  /\ lock = None
  /\ ~LinkAllowed(a, wanted[a])
  /\ Goto(a, "cleanup")
  /\ UNCHANGED <<status, treeVars, monitors, lock, portVars, wanted, event, walkVars,
                 calls, historyVars>>

SpawnLinkCommit(a) ==
  /\ phase[a] = "linking"
  /\ Goto(a, IF closed[wanted[a]] THEN "cleanup" ELSE "post_start")
  /\ LinkCommit(a, wanted[a])
  /\ UNCHANGED <<status, monitors, portVars, wanted, event, walkVars, calls,
                 orphans, spared, heard>>

(***************************************************************************)
(* processing_loop.                                                        *)
(***************************************************************************)
PostStartOk(a) ==
  /\ phase[a] = "post_start"
  /\ SetStatus(a, Running)
  /\ Notify(a, "started")
  /\ Goto(a, "loop")
  /\ UNCHANGED <<treeVars, lock, signal, stop, rxOpen, wanted, event, walkVars, calls,
                 historyVars>>

(***************************************************************************)
(* post_start, a message handler, a supervision handler or post_stop       *)
(* returns an error or panics.                                             *)
(***************************************************************************)
CallbackFails(a) ==
  /\ phase[a] \in Marked
  /\ Leave(a, "failed")
  /\ UNCHANGED <<status, treeVars, monitors, lock, signal, stop, wanted, walkVars, calls,
                 historyVars>>

(***************************************************************************)
(* listen_in_priority: a kill, then a stop, then the supervision events,   *)
(* then the drain marker, which the message port yields once the actor is  *)
(* Draining (MessageAdmission says when).                                  *)
(***************************************************************************)
NothingUrgent(a) == signal[a] # "pending" /\ stop[a] # "pending"

LeaveLoop(a) ==
  /\ SetStatus(a, Stopping)
  /\ Goto(a, "post_stop")

ReceiveStop(a) ==
  /\ phase[a] = "loop"
  /\ signal[a] # "pending"
  /\ stop[a] = "pending"
  /\ stop' = [stop EXCEPT ![a] = "taken"]
  /\ LeaveLoop(a)
  /\ UNCHANGED <<treeVars, monitors, lock, signal, inbox, rxOpen, wanted, event, walkVars,
                 calls, historyVars>>

ReceiveDrain(a) ==
  /\ phase[a] = "loop"
  /\ NothingUrgent(a)
  /\ inbox[a] = <<>>
  /\ status[a] = Draining
  /\ LeaveLoop(a)
  /\ UNCHANGED <<treeVars, monitors, lock, portVars, wanted, event, walkVars, calls,
                 historyVars>>

(***************************************************************************)
(* handle_supervisor_evt: the default stops the actor when another one     *)
(* ended; an actor may override it and carry on.                           *)
(***************************************************************************)
HandleEvent(a) ==
  /\ phase[a] = "loop"
  /\ NothingUrgent(a)
  /\ inbox[a] # <<>>
  /\ inbox' = [inbox EXCEPT ![a] = Tail(@)]
  /\ \/ UNCHANGED stop
     \/ Head(inbox[a]).kind # "started" /\ stop' = Send(stop, a)
  /\ UNCHANGED <<status, treeVars, monitors, lock, signal, rxOpen, taskVars, calls, historyVars>>

PostStopOk(a) ==
  /\ phase[a] = "post_stop"
  /\ Leave(a, "terminated")
  /\ UNCHANGED <<status, treeVars, monitors, lock, signal, stop, wanted, walkVars, calls,
                 historyVars>>

(***************************************************************************)
(* run_with_signal and listen_in_priority receive the kill; handle_signal  *)
(* calls terminate before the status changes.                              *)
(***************************************************************************)
\* Mutant: the kill port is polled by the message loop only.
ReceiveKillInLoop(a) ==
  /\ phase[a] = "loop"
  /\ signal[a] = "pending"
  /\ signal' = [signal EXCEPT ![a] = "taken"]
  /\ event' = [event EXCEPT ![a] = "terminated"]
  /\ Goto(a, "killed_in_loop")
  /\ pending' = [pending EXCEPT ![a] = {a}]
  /\ UNCHANGED <<status, treeVars, monitors, lock, stop, inbox, rxOpen, wanted, popped, doomed,
                 calls, historyVars>>

ReceiveKill(a) ==
  /\ phase[a] \in Marked \cup {"pre_start"}
  /\ signal[a] = "pending"
  /\ signal' = [signal EXCEPT ![a] = "taken"]
  /\ event' = [event EXCEPT ![a] = IF phase[a] \in Marked THEN "terminated" ELSE "none"]
  /\ Goto(a, IF phase[a] \in {"loop", "post_stop"} THEN "killed_in_loop" ELSE "killed")
  /\ pending' = [pending EXCEPT ![a] = {a}]
  /\ UNCHANGED <<status, treeVars, monitors, lock, stop, inbox, rxOpen, wanted, popped, doomed,
                 calls, historyVars>>

(***************************************************************************)
(* The executor drops the future of a task, where it awaits or before it   *)
(* was polled.  The ports are dropped first once the loop owns them.       *)
(***************************************************************************)
Cancel(a) ==
  /\ \/ phase[a] \in Marked /\ Leave(a, "terminated")
     \/ phase[a] \in Unmarked /\ Goto(a, "cleanup") /\ UNCHANGED <<event, rxOpen, inbox>>
  /\ UNCHANGED <<status, treeVars, monitors, lock, signal, stop, wanted, walkVars, calls,
                 historyVars>>

-----------------------------------------------------------------------------
(***************************************************************************)
(* ActorCell::terminate.  Pop reads the status of the next actor of the    *)
(* worklist, and KillPopped sends the kill, for which the actor may have   *)
(* stopped in between; an actor past Upgrading is spared the kill.  Take   *)
(* closes the child set of either and adds its children.                   *)
(***************************************************************************)
\* Mutant: only actors that finished starting are killed.
PopSparesStarting(a) ==
  /\ phase[a] \in Walking
  /\ popped[a] = None
  /\ \E b \in pending[a] :
       /\ popped' = [popped EXCEPT ![a] = b]
       /\ pending' = [pending EXCEPT ![a] = @ \ {b}]
       /\ doomed' = [doomed EXCEPT ![a] = status[b] = Running]
       /\ spared' = IF status[b] = Running THEN spared ELSE spared \cup {b}
  /\ UNCHANGED <<status, treeVars, monitors, lock, portVars, phase, wanted, event, calls,
                 orphans, boss, heard>>

Pop(a) ==
  /\ phase[a] \in Walking
  /\ popped[a] = None
  /\ \E b \in pending[a] :
       /\ popped' = [popped EXCEPT ![a] = b]
       /\ pending' = [pending EXCEPT ![a] = @ \ {b}]
       /\ doomed' = [doomed EXCEPT ![a] = status[b] <= Upgrading]
       /\ spared' = IF status[b] <= Upgrading THEN spared ELSE spared \cup {b}
  /\ UNCHANGED <<status, treeVars, monitors, lock, portVars, phase, wanted, event, calls,
                 orphans, boss, heard>>

KillPopped(a) ==
  /\ phase[a] \in Walking
  /\ doomed[a]
  /\ signal' = Send(signal, popped[a])
  /\ doomed' = [doomed EXCEPT ![a] = FALSE]
  /\ UNCHANGED <<status, treeVars, monitors, lock, stop, inbox, rxOpen, phase, wanted, event,
                 pending, popped, calls, historyVars>>

\* Mutant: the children of the children are not added to the worklist.
TakeOneLevel(a) ==
  /\ phase[a] \in Walking
  /\ popped[a] # None /\ ~doomed[a]
  /\ TakeChildren(popped[a])
  /\ pending' = [pending EXCEPT ![a] = IF popped[a] = a THEN @ \cup children[a] ELSE @]
  /\ popped' = [popped EXCEPT ![a] = None]
  /\ UNCHANGED <<status, monitors, lock, portVars, phase, wanted, event, doomed, calls,
                 spared, boss, heard>>

Take(a) ==
  /\ phase[a] \in Walking
  /\ popped[a] # None /\ ~doomed[a]
  /\ TakeChildren(popped[a])
  /\ pending' = [pending EXCEPT ![a] = @ \cup children[popped[a]]]
  /\ popped' = [popped EXCEPT ![a] = None]
  /\ UNCHANGED <<status, monitors, lock, portVars, phase, wanted, event, doomed, calls,
                 spared, boss, heard>>

Terminated(a) == pending[a] = {} /\ popped[a] = None

(***************************************************************************)
(* The return of handle_signal.  start drops its ports after the cleanup.  *)
(* A kill in post_start drops them before it; one in the loop has Stopping *)
(* published while they are still open.                                    *)
(***************************************************************************)
Killed(a) ==
  /\ phase[a] = "killed"
  /\ Terminated(a)
  /\ IF event[a] = "none" THEN Goto(a, "cleanup") /\ UNCHANGED <<event, rxOpen, inbox>>
                          ELSE Leave(a, event[a])
  /\ UNCHANGED <<status, treeVars, monitors, lock, signal, stop, wanted, walkVars, calls,
                 historyVars>>

KilledInLoop(a) ==
  /\ phase[a] = "killed_in_loop"
  /\ Terminated(a)
  /\ SetStatus(a, Stopping)
  /\ Goto(a, "returning")
  /\ UNCHANGED <<treeVars, monitors, lock, portVars, wanted, event, walkVars, calls, historyVars>>

ReturnKilled(a) ==
  /\ phase[a] = "returning"
  /\ Leave(a, event[a])
  /\ UNCHANGED <<status, treeVars, monitors, lock, signal, stop, wanted, walkVars, calls,
                 historyVars>>

(***************************************************************************)
(* ActorLifecycleGuard::cleanup.                                           *)
(***************************************************************************)
CleanupBegin(a) ==
  /\ phase[a] = "cleanup"
  /\ SetStatus(a, Stopping)
  /\ pending' = [pending EXCEPT ![a] = {a}]
  /\ Goto(a, "terminate")
  /\ UNCHANGED <<treeVars, monitors, lock, portVars, wanted, event, popped, doomed, calls,
                 historyVars>>

\* Mutant: the link is given up before the supervisor is told.
CleanupUnlinksFirst(a) ==
  /\ phase[a] = "terminate"
  /\ Terminated(a)
  /\ Unlink(a, supervisor[a])
  /\ Goto(a, "notify")
  /\ UNCHANGED <<status, monitors, lock, portVars, wanted, event, walkVars,
                 calls, historyVars>>

CleanupTerminated(a) ==
  /\ phase[a] = "terminate"
  /\ Terminated(a)
  /\ Goto(a, "notify")
  /\ UNCHANGED <<status, treeVars, monitors, lock, portVars, wanted, event, walkVars,
                 calls, historyVars>>

CleanupNotify(a) ==
  /\ phase[a] = "notify"
  /\ IF event[a] = "none" THEN UNCHANGED <<inbox, monitors, heard>>
     ELSE /\ Notify(a, event[a])
          /\ heard' = heard \cup {<<a, b>> : b \in Targets(a) \cap {supervisor[a]}}
  /\ Goto(a, "unlink")
  /\ UNCHANGED <<status, treeVars, lock, signal, stop, rxOpen, wanted, event, walkVars,
                 calls, orphans, spared, boss>>

CleanupUnlink(a) ==
  /\ phase[a] = "unlink"
  /\ IF supervisor[a] = None THEN UNCHANGED treeVars ELSE Unlink(a, supervisor[a])
  /\ Goto(a, "finish")
  /\ UNCHANGED <<status, monitors, lock, portVars, wanted, event, walkVars, calls,
                 historyVars>>

(***************************************************************************)
(* The last step of the cleanup; start's ports are dropped after it.       *)
(***************************************************************************)
CleanupEnd(a) ==
  /\ phase[a] = "finish"
  /\ SetStatus(a, Stopped)
  /\ Goto(a, "done")
  /\ rxOpen' = [rxOpen EXCEPT ![a] = FALSE]
  /\ inbox' = [inbox EXCEPT ![a] = <<>>]
  /\ UNCHANGED <<treeVars, monitors, lock, signal, stop, wanted, event, walkVars, calls,
                 historyVars>>

-----------------------------------------------------------------------------
(***************************************************************************)
(* Calls of the public API, from a handler or from outside.                *)
(***************************************************************************)
Call == calls < MaxCalls /\ calls' = calls + 1

Kill(a) ==
  /\ Call
  /\ signal' = Send(signal, a)
  /\ UNCHANGED <<status, treeVars, monitors, lock, stop, inbox, rxOpen, taskVars, historyVars>>

Stop(a) ==
  /\ Call
  /\ stop' = Send(stop, a)
  /\ UNCHANGED <<status, treeVars, monitors, lock, signal, inbox, rxOpen, taskVars, historyVars>>

(***************************************************************************)
(* drain and drain_all_children: the status of each actor drained is       *)
(* raised; what drain does to the message port is MessageAdmission.        *)
(***************************************************************************)
DrainAll(A) ==
  /\ Call
  /\ status' = [a \in Actor |-> IF a \in A THEN Advance(status[a], Draining) ELSE status[a]]
  /\ UNCHANGED <<treeVars, monitors, lock, portVars, taskVars, historyVars>>

DrainActor(a)    == DrainAll({a})
DrainChildren(a) == DrainAll(children[a])

StopChildren(a) ==
  /\ Call
  /\ stop' = [c \in Actor |-> IF c \in children[a] THEN Send(stop, c)[c] ELSE stop[c]]
  /\ UNCHANGED <<status, treeVars, monitors, lock, signal, inbox, rxOpen, taskVars, historyVars>>

CallLink(c, p) ==
  /\ Call
  /\ LinkCheck(c, p, FALSE)
  /\ UNCHANGED <<status, treeVars, monitors, portVars, taskVars, historyVars>>

CallLinkCommit ==
  /\ lock # None
  /\ ~lock.spawning
  /\ LinkCommit(lock.child, lock.sup)
  /\ UNCHANGED <<status, monitors, portVars, taskVars, calls, orphans, spared, heard>>

CallUnlink(c, p) ==
  /\ Call
  /\ Unlink(c, p)
  /\ boss' = [boss EXCEPT ![c] = IF @ = p THEN None ELSE @]
  /\ UNCHANGED <<status, monitors, lock, portVars, taskVars, orphans, spared, heard>>

Monitor(m, a) ==
  /\ Call
  /\ monitors' = [monitors EXCEPT ![a] = @ \cup {m}]
  /\ UNCHANGED <<status, treeVars, lock, portVars, taskVars, historyVars>>

Unmonitor(m, a) ==
  /\ Call
  /\ monitors' = [monitors EXCEPT ![a] = @ \ {m}]
  /\ UNCHANGED <<status, treeVars, lock, portVars, taskVars, historyVars>>

-----------------------------------------------------------------------------
\* What a task does by itself, given a turn.
Run(a) ==
  \/ \E s \in (Actor \ {a}) \cup {None} : Start(a, s)
  \/ AlreadyStarted(a)
  \/ SpawnLinkCheck(a)
  \/ SpawnLinkRefused(a)
  \/ SpawnLinkCommit(a)
  \/ ReceiveKill(a)
  \/ Pop(a)
  \/ KillPopped(a)
  \/ Take(a)
  \/ Killed(a)
  \/ KilledInLoop(a)
  \/ ReturnKilled(a)
  \/ CleanupBegin(a)
  \/ CleanupTerminated(a)
  \/ CleanupNotify(a)
  \/ CleanupUnlink(a)
  \/ CleanupEnd(a)

\* What depends on the user's callbacks or on the executor.
Callback(a) ==
  \/ PreStartOk(a)
  \/ PreStartFails(a)
  \/ PostStartOk(a)
  \/ CallbackFails(a)
  \/ ReceiveStop(a)
  \/ ReceiveDrain(a)
  \/ HandleEvent(a)
  \/ PostStopOk(a)
  \/ Cancel(a)

ApiCall ==
  \/ \E a \in Actor : Kill(a) \/ Stop(a) \/ StopChildren(a) \/ DrainActor(a) \/ DrainChildren(a)
  \/ \E c, p \in Actor : CallLink(c, p) \/ CallUnlink(c, p) \/ Monitor(c, p) \/ Unmonitor(c, p)

Next ==
  \/ \E a \in Actor : Run(a) \/ Callback(a)
  \/ ApiCall
  \/ CallLinkCommit

(***************************************************************************)
(* The executor polls a task that can run, and a thread that holds the     *)
(* lock goes on to release it.  No callback is assumed to return.          *)
(***************************************************************************)
Fairness ==
  /\ \A a \in Actor : WF_vars(Run(a))
  /\ WF_vars(CallLinkCommit)

Safety == Init /\ [][Next]_vars
Spec == Safety /\ Fairness

-----------------------------------------------------------------------------
(***************************************************************************)
(* The statuses, the tree, the ports and the tasks stay within their       *)
(* ranges; fetch_max keeps every status a status.                          *)
(***************************************************************************)
TypeOK ==
  /\ status \in [Actor -> Status]
  /\ children \in [Actor -> SUBSET Actor]
  /\ closed \in [Actor -> BOOLEAN]
  /\ supervisor \in [Actor -> Actor \cup {None}]
  /\ monitors \in [Actor -> SUBSET Actor]
  /\ lock \in Link \cup {None}
  /\ signal \in [Actor -> Slot]
  /\ stop \in [Actor -> Slot]
  /\ inbox \in [Actor -> Seq(Event)]
  /\ rxOpen \in [Actor -> BOOLEAN]
  /\ phase \in [Actor -> Phase]
  /\ wanted \in [Actor -> Actor \cup {None}]
  /\ event \in [Actor -> {"none", "terminated", "failed"}]
  /\ pending \in [Actor -> SUBSET Actor]
  /\ popped \in [Actor -> Actor \cup {None}]
  /\ doomed \in [Actor -> BOOLEAN]
  /\ calls \in 0..MaxCalls
  /\ orphans \in SUBSET Actor
  /\ spared \in SUBSET Actor
  /\ boss \in [Actor -> Actor \cup {None}]
  /\ heard \in SUBSET (Actor \X Actor)

(***************************************************************************)
(* Whoever holds TREE_MUTATION_LOCK finds the two ends of every link in    *)
(* agreement: an actor is in the child set of its supervisor and in no     *)
(* other (supervision.rs, link: "transactionally replace a child's         *)
(* supervisor and update both parents' child sets").                       *)
(***************************************************************************)
TreeConsistent ==
  \A c, p \in Actor : supervisor[c] = p <=> c \in children[p]

(***************************************************************************)
(* A stopped actor has neither a supervisor nor children, and its child    *)
(* set stays closed, however link races with its cleanup.                  *)
(***************************************************************************)
StoppedDetached ==
  \A a \in Actor : status[a] = Stopped => supervisor[a] = None /\ closed[a] /\ children[a] = {}

(***************************************************************************)
(* terminate forgets no child it took from its supervisor, however many    *)
(* terminates walk the same subtree: the child waits on a worklist or is   *)
(* about to be killed, has been sent a kill, or was spared the kill        *)
(* because it was draining, stopping or stopped when its turn came.        *)
(***************************************************************************)
NoOrphanForgotten ==
  \A c \in orphans :
    \/ \E a \in Actor : c \in pending[a] \/ (popped[a] = c /\ doomed[a])
    \/ signal[c] # "unsent"
    \/ c \in spared /\ status[c] >= Draining

(***************************************************************************)
(* What terminate says of itself: it terminates "this Actor and all it's   *)
(* children", and an actor gets no kill only when it is "already stopping  *)
(* or stopped".  The code spares a draining child too, which has lost its  *)
(* supervisor and lives on until its queue is empty.                       *)
(***************************************************************************)
SparedAreStopping ==
  \A c \in orphans \cap spared : status[c] >= Stopping \/ signal[c] # "unsent"

(***************************************************************************)
(* An actor that ran and ended told its supervisor so, unless that one was *)
(* ending itself: cleanup sends the event before it gives up the link.     *)
(***************************************************************************)
SupervisorHears ==
  \A a, p \in Actor :
    status[a] = Stopped /\ event[a] # "none" /\ boss[a] = p =>
      <<a, p>> \in heard \/ closed[p] \/ ~rxOpen[p]

(***************************************************************************)
(* A kill that reached the port ends the actor, whatever its callbacks do. *)
(***************************************************************************)
KilledStops ==
  \A a \in Actor : signal[a] = "pending" ~> status[a] = Stopped

(***************************************************************************)
(* A child that lost its supervisor to terminate stops, whatever its       *)
(* callbacks do, unless it was draining or ending when it was visited.     *)
(***************************************************************************)
OrphansEnd ==
  \A a \in Actor :
    a \in orphans ~> status[a] = Stopped \/ (a \in spared /\ status[a] >= Draining)

(***************************************************************************)
(* A callback that runs returns, and an actor that has a stop, an event or *)
(* the drain marker to receive gets to it.                                 *)
(***************************************************************************)
CallbackReturns(a) ==
  \/ PreStartOk(a) \/ PostStartOk(a) \/ ReceiveStop(a) \/ ReceiveDrain(a)
  \/ HandleEvent(a) \/ PostStopOk(a)

(***************************************************************************)
(* If callbacks return, every child that lost its supervisor to terminate  *)
(* stops, the draining ones included.                                      *)
(***************************************************************************)
OrphansStop ==
  (\A a \in Actor : WF_vars(CallbackReturns(a)))
    => \A a \in Actor : a \in orphans ~> status[a] = Stopped
=============================================================================
