# A TLA+ verification of ractor

`ractor` is an actor framework: an actor is an asynchronous task that owns its
state and reads four ports. The crates are `ractor` (actors, supervision,
registries, process groups, factories, output ports, remote procedure calls and
timers), `ractor_cluster` (actors on several nodes) and the macro crates. Paths
below are relative to `src/`.

This directory holds TLA+ modules translated from the source, the TLC
configurations that check them on small instances, and proofs that TLAPS checks
for every value of the constants. `PROJECT.json` maps each definition to the
lines it models and lists runs, mutants, hazards and theorems.

So far the core is covered: the message port and its drain protocol, and the
life of actors in a supervision tree. The rest is inventoried and planned below.

## Inventory

| Part | State | Operations | What is hard | What must hold |
|---|---|---|---|---|
| Message admission and draining (`ractor/src/actor/actor_properties.rs`) | the status, the admission word (CLOSED, DRAIN_MARKER_SENT, in-flight count), the channel | `send_message`, `drain`, the drop of an admission, the receiving loop | lock-free: sends overlap a drain, and the last of them must finish it | a drained exit loses nothing; later sends are refused; one marker; a drain ends |
| Lifecycle and supervision (`actor.rs`, `actor/actor_cell.rs`, `actor/supervision.rs`) | status, four ports, children, supervisor, monitors, the lifecycle guard | start, callbacks, kill, stop, drain, link, unlink, monitor, terminate, cleanup | the status is outside the tree's lock; tasks are cancelled at any await; terminates overlap | both ends of a link agree; a stopped actor is detached; no child is lost; the supervisor hears of the end |
| Waiting (`actor_properties.rs`: `wait`; the `*_and_wait` calls) | a `Notify` | wait, notify | the stop falls between registering and looking | no wait misses the stop |
| Registries (`registry.rs`, `registry/pid_registry.rs`) | name to actor, id to actor, listeners | register, unregister, monitor | removal by name; events racing subscriptions | a name has one holder; a stopped actor is not registered |
| Process groups (`pg.rs`) | group state, scope index, world listeners, reverse index | join, leave, monitor, demonitor, leave_all, demonitor_all | two indexes under two locks against a stopping actor; events sent outside the locks | the indexes agree; no stopped member; no empty entry is left |
| Factory (`factory/*.rs`) | pool, queue, router, drain state, per-worker jobs | dispatch, finish, resize, replace, ping, drain, update | a worker dies with jobs; late `Finished`; resizing while busy | each job has one outcome; the bounds of the queues; draining ends |
| Output port (`port/output.rs`) | subscribers, a batch | subscribe, send, dispatch | a subscription inside a batch | a subscriber gets each later message once, in order |
| Calls and timers (`rpc.rs`, `time.rs`) | a oneshot and a timeout, a ticking task | call, multi_call, call_and_forward, intervals | a timeout racing the reply | one result per call; a timer ends with its actor |
| Thread-local actors (`thread_local/inner.rs`) | as the lifecycle | spawn, loop | linked before `pre_start` | as the lifecycle |
| Cluster (`ractor_cluster/src/node*.rs`, `remote_actor.rs`, `net/*.rs`) | sessions, handshake state, elections, pending requests | connect, authenticate, elect, proxy, ping | simultaneous connections; late, lost or repeated replies | both ends keep the same connection; a reply reaches its caller or nobody |
| Messages, serialization, macros, runtime bindings | none that outlives a call | conversions, re-exports, code generation | | not modelled: no control state |

An actor's task polls its ports by priority (signal, stop, supervision,
message). The cleanup of a stopping actor touches most of the other parts: the
first transition to Stopping leaves the registries and the groups, then the
subtree is terminated, the supervisor is told, the link is removed and Stopped
is published.

## Modules

**`ActorStatus`** has the seven statuses and `Advance`, the `fetch_max` that
makes the status monotone. The modules below share it.

**`MessageAdmission`** models one actor's message port. An action is one atomic
operation on the admission word, the status or the channel. A send is
`BeginSend` (status check), `TryAdmit` (the compare-exchange), `Enqueue` or
`BoxFails`, and `Release` (the drop of the admission). A drain is
`CloseAdmission`, `PublishDraining`, `ClaimMarker` and `PushMarker`. The task's
actions follow `ActorRuntime::start` and `processing_loop`. The admission word is
a record of its two bits and its count. A compare-exchange loop is one action,
since its failed rounds change nothing. A message whose `box_message` calls
`drain` is covered by another thread that drains while the send is at "enqueue".

Some messages are in `Serialized`: they come by `send_serialized`, which boxes
nothing, and the actor may fail to decode them. Such a message is dropped and the
loop goes on (`HandleDiscards`, recorded in `discarded`). A handler that fails,
and a task that is cancelled in its loop (`Cancel`), drop the ports before the
status changes; a task cancelled before that is cleaned up first. `late` records
every message that had not been admitted when a drain closed the port, whether
its send had begun or not.

**`DrainingMailbox`** is the abstract promise of that port: a FIFO queue that is
sealed once and has a drained exit only when it is empty. `MessageAdmission`
implements it; the queue of the mailbox is the channel without its marker, and
it is sealed when the marker is claimed.

**`ActorLifecycle`** models a set of actors: `start`, the callbacks (each
returns, fails, is killed or is cancelled at an await), the loop, `terminate`
with its worklist, the five steps of `ActorLifecycleGuard::cleanup`, and the
calls kill, stop, drain, link, unlink, monitor and unmonitor. Choices worth
knowing:

- `link` is two steps, because it reads the statuses under `TREE_MUTATION_LOCK`
  and changes the tree later, while statuses change outside that lock. The other
  changes of the tree are one step each, taken when the lock is free.
- What `link` writes is one step. Under `TREE_MUTATION_LOCK` it changes the two
  child sets one after the other, so a reader without that lock
  (`stop_children`, `drain_children`) may meet the child in both; it finds in
  the old set what it would have found before the move. `TreeConsistent` is
  about what the holder of the lock sees.
- The worklist of `terminate` is a set, so every order is explored. Reading the
  status of its next actor (`Pop`), sending the kill (`KillPopped`) and taking
  the children (`Take`) are steps of their own, since that actor may go on
  between them. `doomed` says that the kill is still to be sent.
- A kill noticed in the loop or in `post_stop` publishes Stopping before the
  ports are dropped (`KilledInLoop`, `ReturnKilled`); one noticed earlier leaves
  that to the cleanup (`Killed`).
- Sending one event to the supervisor and the monitors is one step.
- The cleanup's `try_get_supervisor` and `unlink` are one step: in between the
  supervisor could only become none.
- The ports are dropped before the cleanup when `start` finds the actor already
  started or when the loop owned them. The last step of the cleanup drops the
  ports that `start` still owns when `pre_start` or the link fails.
- The payload of ports and messages is left out; the in-flight count of
  messages is the subject of `MessageAdmission`.
- `orphans`, `spared`, `boss` and `heard` are history variables for the
  properties: the children some `terminate` detached, the actors one did not
  kill because of their status, the last supervisor, and who was told of whose
  end.

`MCMessageAdmission` and `MCActorLifecycle` add symmetry sets for TLC, and the
second also `RunningTree`, an initial predicate with any supervision relation
among running actors. `link` looks for no cycles, so all of these can be built.

`MessageAdmissionProofs` and `ActorLifecycleProofs` hold the theorems. Operators
introduced by a `Mutant:` comment are wrong variants of a definition, used only
to see that a property can fail.

## Runs

| Run | Instance | Shows |
|---|---|---|
| `admission` | 3 threads, 3 messages, 1 of them serialized | a drained exit has handled all that was accepted and could be decoded, what was not admitted when a drain closed the port is refused, the count is exact, somebody always owes the marker, and the port implements `DrainingMailbox` |
| `admission_liveness` | 2 threads, 2 messages, 1 of them serialized | a drain ends the actor |
| `admission_drain_doc` | 1 thread, 1 message | a violation, see Findings |
| `lifecycle` | 2 actors, 2 calls | the tree's two ends agree, a stopped actor is detached, no child that `terminate` detached is forgotten, a supervisor hears of the end |
| `lifecycle_tree` | 3 running actors, any relation | the same for deeper trees and overlapping terminates |
| `lifecycle_liveness` | 2 actors, 1 call | a killed actor stops; so does a detached child, unless it was draining when its turn came; if callbacks return, that one stops too |
| `lifecycle_terminate_doc` | 2 actors, 1 call | a violation, see Findings |

Bounds. Three threads are the least with two sends in flight beside a drain, and
the messages only need to be as many as the threads. Two actors have every race
of one link; a third is needed for a grandchild and for two terminates that meet
in one subtree. `MaxCalls` bounds API calls; what actors do by themselves (start,
fail, be cancelled, clean up) is not bounded by it. Three actors with one call is
too large for a short run. The safety theorems are free of all these bounds.

Deadlock is not checked: an actor that was stopped, and a system whose calls are
used up, have nothing left to do.

Fairness. In `MessageAdmission` a thread inside a call continues (nothing in it
blocks), the executor polls the task, and callbacks return; nobody has to send,
drain, stop or kill. In `ActorLifecycle` the synchronous code of a task
continues, a delivered kill is noticed at the next poll, and a link that holds
the lock goes on. Callbacks are not assumed to return, so `KilledStops` and
`OrphansEnd` cover a handler that hangs at an await. Only `OrphansStop` needs
more, and has it as its hypothesis: that the callbacks return (`CallbackReturns`,
weakly fair). Without it a draining orphan need not stop.

## Findings

`ActorCell::drain` is documented as "Drain the actor's message queue and when
finished processing, terminate the actor." (`ractor/src/actor/actor_cell.rs:529`).
An actor made by `spawn_instant` accepts messages before its task is first
polled. A drain in that window moves the status past Unstarted, `start` answers
`ActorAlreadyStarted` (`ractor/src/actor.rs:781`), and the accepted messages are
dropped. `admission_drain_doc` shows it.

`ActorCell::terminate` is documented as "Terminate this [super::Actor] and all
it's children" (`ractor/src/actor/actor_cell.rs:366`). It kills an actor whose
status is at most Upgrading; of the others the comment says "We don't need to
notify of exit if we're already stopping or stopped."
(`ractor/src/actor/actor_cell.rs:370`). Draining is past Upgrading too. A child
that drains is detached from its supervisor and gets no kill: it works off its
queue with nobody supervising it, and does not end if its handler hangs.
`lifecycle_terminate_doc` shows it, and the properties of the passing runs say
what is left: `NoOrphanForgotten` and `OrphansEnd` except the actors that were
spared for this reason, and `OrphansStop` says that these stop if their
callbacks return.

## Proofs

All theorems are for any sets of threads, messages and actors and any number of
calls. Assumed of the constants: threads are finitely many, the serialized
messages are messages, the marker and `None` are not, `None` is not an actor,
`MaxCalls` is a natural number.

`MessageAdmissionProofs`: `TypeCorrect`, `DrainSafe`, `LateSendsAreRejected`,
`CountIsExact`, `MarkerIsOwed` and `ImplementsMailbox`. That a drained exit lost
nothing is not inductive. The invariant `IInv` adds that sending threads hold
different messages, that a message is not accepted before it is admitted and
that a late one is not admitted (`Hands`), that a claimed marker means a closed word with nobody
admitted (`Sealed`), that the marker is in one place only and last in the queue
(`OneMarker`), and that until the task leaves its loop each accepted message is
in the mailbox, being handled, handled or discarded (`Kept`). The
refinement uses the same invariant with one case per action.

`ActorLifecycleProofs`: `LifecycleTypes`, `TreeIsConsistent`,
`StoppedIsDetached`, `OrphansAreVisited` and `SupervisorsHear`. `IInv` adds that a
closed child set is empty, that a worklist belongs to a running terminate and a
pending kill to the actor it popped (`Idle`), that the cleanup runs with Stopping published (`Published`), and that
an actor past the taking of its children is shut: its set is closed and no link
of it is under way (`ShutAfterTake`). The last one is what a link racing with a
cleanup needs. `BossSupervises` and `BossHeard` carry the fact that a link is
lost only to an unlink, to the actor's own cleanup or to its supervisor's
terminate up to the moment the event is sent. Frame lemmas (`TreeChanges`,
`LockChanges`, `PendingChanges`) name the few actions that touch each variable,
so that each invariant is argued over those only.

Only model-checked: `DrainTerminates`, `KilledStops`, `OrphansEnd` and
`OrphansStop`, since liveness under fairness is beyond the prover.

## Plan

In this order; each step adds a module, its runs and, where it says so, proofs.

1. `ProcessGroups`: join, leave and monitor calls by threads against the
   shutdown of actors, one step per lock section. Agreement of the indexes, no
   stopped member, no entry left behind. Proof of the first two.
2. `Registry` and `StopWait`: names, pids and their events; no missed stop.
3. `Factory`: dispatch, workers, queues, routers, resizing, replacement and
   draining, with an abstract job (queued, running, one outcome) that it
   implements. Runs per router; a finished drain; bounds of the queues. Queue and
   discard algorithms as operators against a reference. Proof: at most one
   outcome per job.
4. `OutputPort`: batches refine a sequence of sends to the subscribers of the
   moment.
5. `RpcCall`: call, timeout and late reply; timers.
6. `Cluster`: the handshake of both ends, elections among simultaneous
   connections, tagged calls of `RemoteActor` over a link that breaks. Proof that
   both ends elect the same connection.
7. `ThreadLocalActor`: the lifecycle with the link before `pre_start`.
8. A composition of lifecycle, groups and registry around `set_status(Stopping)`.
   The side effects of that call on the registries and the groups are not in
   `ActorLifecycle` yet.

Not planned: serialization, macros, sockets and framing, and the bindings to the
executors. They convert data or pass it on and hold no control state. The models
assume the documented behaviour of channels, `select` and locks.
