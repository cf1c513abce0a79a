------------------------ MODULE ActorLifecycleProofs ------------------------
(***************************************************************************)
(* Theorems about ActorLifecycle, for any set of actors and any number of  *)
(* calls: the supervision tree is consistent, a stopped actor is detached, *)
(* no orphan is forgotten and supervisors hear of the end of their         *)
(* children.                                                               *)
(*                                                                         *)
(* The invariants are not inductive by themselves.  What they rest on is   *)
(* the order of the cleanup: an actor publishes Stopping, then takes its   *)
(* own children under the lock.  From that step on it is Shut: no link in  *)
(* progress has it as the child, and none can begin.                       *)
(***************************************************************************)
EXTENDS ActorLifecycle, TLAPS

USE ZenonT(60)

Shut(a) == closed[a] /\ (lock # None => lock.child # a)
Told    == {"unlink", "finish", "done"}
Past    == {"notify"} \cup Told

\* A closed child set is empty.
ClosedEmpty == \A p \in Actor : closed[p] => children[p] = {}

\* The worklist belongs to a call of terminate.
Idle ==
  \A a \in Actor :
    /\ phase[a] \notin Walking => pending[a] = {} /\ popped[a] = None
    /\ popped[a] = None => ~doomed[a]

\* The cleanup runs with Stopping published, and Stopped is its last step.
Published ==
  \A a \in Actor :
    /\ phase[a] \in Past \cup {"terminate"} => status[a] >= Stopping
    /\ status[a] = Stopped => phase[a] = "done"

\* A cleanup has its own child set still to take, or is shut.
ShutAfterTake ==
  \A a \in Actor :
    /\ phase[a] = "terminate" => a \in pending[a] \/ popped[a] = a \/ Shut(a)
    /\ phase[a] \in Past => Shut(a)
    /\ phase[a] \in {"finish", "done"} => supervisor[a] = None

\* A spawn that links was given a supervisor.
HasWanted == \A a \in Actor : phase[a] \in {"link", "linking"} => wanted[a] \in Actor

\* A link is lost only to an unlink, to the cleanup, or to the supervisor's terminate.
BossSupervises ==
  \A a, p \in Actor :
    boss[a] = p /\ phase[a] \notin {"finish", "done"} => supervisor[a] = p \/ closed[p]

\* An actor past the notification has told its supervisor.
BossHeard ==
  \A a, p \in Actor :
    phase[a] \in Told /\ event[a] # "none" /\ boss[a] = p =>
      <<a, p>> \in heard \/ closed[p] \/ ~rxOpen[p]

IInv ==
  /\ TypeOK
  /\ TreeConsistent
  /\ ClosedEmpty
  /\ Idle
  /\ Published
  /\ ShutAfterTake
  /\ HasWanted
  /\ NoOrphanForgotten
  /\ BossSupervises
  /\ BossHeard
-----------------------------------------------------------------------------
\* Typing: what the helpers return.
LEMMA AdvanceType ==
  ASSUME NEW x \in Status, NEW y \in Status
  PROVE  /\ Advance(x, y) \in Status
         /\ Advance(x, y) >= x
         /\ Advance(x, y) >= y
         /\ Advance(x, y) \in {x, y}
BY SMTT(60) DEF Advance, Status

LEMMA StatusValues ==
  /\ Unstarted \in Status /\ Starting \in Status /\ Running \in Status /\ Upgrading \in Status
  /\ Draining \in Status /\ Stopping \in Status /\ Stopped \in Status
BY SMTT(60) DEF Status, Unstarted, Starting, Running, Upgrading, Draining, Stopping, Stopped

LEMMA NotifyType ==
  ASSUME TypeOK, NEW a \in Actor, NEW kind \in {"started", "terminated", "failed"},
         Notify(a, kind)
  PROVE  inbox' \in [Actor -> Seq(Event)] /\ monitors' \in [Actor -> SUBSET Actor]
<1> DEFINE e == [kind |-> kind, who |-> a]
           copies(b) == (IF b \in monitors[a] THEN <<e>> ELSE <<>>) \o
                        (IF b = supervisor[a] THEN <<e>> ELSE <<>>)
<1>1. e \in Event
  BY DEF Event
<1>2. <<e>> \in Seq(Event) /\ <<>> \in Seq(Event)
  BY SMTT(60), <1>1
<1> HIDE DEF e
<1>3. \A b \in Actor : copies(b) \in Seq(Event)
  BY SMTT(60), <1>2
<1> HIDE DEF copies
<1>4. \A b \in Actor : inbox[b] \o copies(b) \in Seq(Event)
  BY SMTT(60), <1>3 DEF TypeOK
<1>5. inbox' = [b \in Actor |-> IF b \in Targets(a) THEN inbox[b] \o copies(b) ELSE inbox[b]]
  BY DEF Notify, copies, e
<1>6. inbox' \in [Actor -> Seq(Event)]
  BY <1>4, <1>5 DEF TypeOK
<1>7. monitors' \in [Actor -> SUBSET Actor]
  BY DEF Notify, TypeOK
<1> QED
  BY <1>6, <1>7

\* What the changes of the tree and of the ports leave well typed.
TreeTypes ==
  /\ children' \in [Actor -> SUBSET Actor]
  /\ closed' \in [Actor -> BOOLEAN]
  /\ supervisor' \in [Actor -> Actor \cup {None}]

LEMMA LinkCommitType ==
  ASSUME TypeOK, NEW c \in Actor, NEW p \in Actor, LinkCommit(c, p)
  PROVE  TreeTypes /\ lock' = None /\ boss' \in [Actor -> Actor \cup {None}]
<1>1. CASE closed[p]
  BY <1>1 DEF TypeOK, LinkCommit, TreeTypes, treeVars
<1>2. CASE ~closed[p]
  <2>1. MoveChild(c, p) /\ lock' = None /\ boss' = [boss EXCEPT ![c] = p]
    BY <1>2 DEF LinkCommit
  <2>2. \A q \in Actor : children[q] \cup {c} \in SUBSET Actor /\ children[q] \ {c} \in SUBSET Actor
    BY DEF TypeOK
  <2>3. children' \in [Actor -> SUBSET Actor]
    BY <2>1, <2>2 DEF MoveChild, TypeOK
  <2>4. supervisor' \in [Actor -> Actor \cup {None}] /\ closed' \in [Actor -> BOOLEAN]
    BY <2>1 DEF MoveChild, TypeOK
  <2>5. boss' \in [Actor -> Actor \cup {None}]
    BY <2>1 DEF TypeOK
  <2> QED
    BY <2>1, <2>3, <2>4, <2>5 DEF TreeTypes
<1> QED
  BY <1>1, <1>2

LEMMA UnlinkType ==
  ASSUME TypeOK, NEW c \in Actor, NEW p \in Actor, Unlink(c, p)
  PROVE  TreeTypes
<1>1. CASE supervisor[c] = p
  <2>1. children[p] \ {c} \in SUBSET Actor
    BY DEF TypeOK
  <2>2. children' \in [Actor -> SUBSET Actor]
    BY <1>1, <2>1 DEF TypeOK, Unlink
  <2> QED
    BY <1>1, <2>2 DEF TypeOK, Unlink, TreeTypes
<1>2. CASE supervisor[c] # p
  BY <1>2 DEF TypeOK, Unlink, TreeTypes, treeVars
<1> QED
  BY <1>1, <1>2

LEMMA LeaveType ==
  ASSUME TypeOK, NEW a \in Actor, NEW kind \in {"none", "terminated", "failed"},
         Leave(a, kind)
  PROVE  /\ phase' \in [Actor -> Phase]
         /\ event' \in [Actor -> {"none", "terminated", "failed"}]
         /\ rxOpen' \in [Actor -> BOOLEAN]
         /\ inbox' \in [Actor -> Seq(Event)]
BY SMTT(60) DEF TypeOK, Leave, Goto, Phase, Sync

\* Every step of a task preserves the types.
LEMMA TaskTypes ==
  ASSUME TypeOK, HasWanted, NEW a \in Actor, Run(a) \/ Callback(a)
  PROVE  TypeOK'
<1> USE NoneIsNoActor DEF Phase, Marked, Unmarked, Walking, Sync
<1>1. CASE \E s \in (Actor \ {a}) \cup {None} : Start(a, s)
  BY SMTT(60), <1>1, AdvanceType, StatusValues DEF Start, Goto, SetStatus, TypeOK, vars, treeVars,
     portVars, taskVars, walkVars, historyVars
<1>2. CASE AlreadyStarted(a)
  BY <1>2, LeaveType DEF AlreadyStarted, TypeOK, treeVars, walkVars, historyVars
<1>3. CASE PreStartOk(a)
  BY <1>3 DEF PreStartOk, Goto, TypeOK, vars, treeVars, portVars, taskVars, walkVars, historyVars
<1>4. CASE PreStartFails(a)
  BY <1>4 DEF PreStartFails, Goto, TypeOK, vars, treeVars, portVars, taskVars, walkVars, historyVars
<1>5. CASE SpawnLinkCheck(a)
  BY <1>5 DEF SpawnLinkCheck, LinkCheck, Goto, Link, HasWanted, TypeOK, vars, treeVars, portVars,
     taskVars, walkVars, historyVars
<1>6. CASE SpawnLinkRefused(a)
  BY <1>6 DEF SpawnLinkRefused, Goto, TypeOK, vars, treeVars, portVars, taskVars, walkVars,
     historyVars
<1>7. CASE SpawnLinkCommit(a)
  <2>1. wanted[a] \in Actor
    BY <1>7 DEF SpawnLinkCommit, HasWanted
  <2>2. TreeTypes /\ lock' = None /\ boss' \in [Actor -> Actor \cup {None}]
    BY <1>7, <2>1, LinkCommitType DEF SpawnLinkCommit
  <2>3. phase' \in [Actor -> Phase]
    BY <1>7 DEF SpawnLinkCommit, Goto, TypeOK
  <2> QED
    BY <1>7, <2>2, <2>3 DEF SpawnLinkCommit, TreeTypes, TypeOK, portVars, walkVars
<1>8. CASE PostStartOk(a)
  BY <1>8, AdvanceType, StatusValues, NotifyType DEF PostStartOk, Goto, SetStatus, TypeOK, vars,
     treeVars, portVars, taskVars, walkVars, historyVars
<1>9. CASE CallbackFails(a)
  BY SMTT(60), <1>9 DEF CallbackFails, Leave, Goto, TypeOK, vars, treeVars, portVars, taskVars,
     walkVars, historyVars
<1>10. CASE ReceiveStop(a)
  BY <1>10, AdvanceType, StatusValues DEF ReceiveStop, LeaveLoop, SetStatus, Goto, Slot, TypeOK,
     vars, treeVars, portVars, taskVars, walkVars, historyVars
<1>11. CASE ReceiveDrain(a)
  BY <1>11, AdvanceType, StatusValues DEF ReceiveDrain, LeaveLoop, SetStatus, Goto,
     TypeOK, vars,
     treeVars, portVars, taskVars, walkVars, historyVars
<1>12. CASE HandleEvent(a)
  <2>1. stop' \in [Actor -> Slot]
    <3>1. stop \in [Actor -> Slot] /\ (stop' = stop \/ stop' = Send(stop, a))
      BY <1>12 DEF HandleEvent, TypeOK
    <3> QED
      BY SMTT(60), <3>1 DEF Send, Slot
  <2>2. Tail(inbox[a]) \in Seq(Event)
    BY SMTT(60), <1>12 DEF HandleEvent, TypeOK
  <2>3. inbox' \in [Actor -> Seq(Event)]
    BY <1>12, <2>2 DEF HandleEvent, TypeOK
  <2> QED
    BY <1>12, <2>1, <2>3 DEF HandleEvent, TypeOK, treeVars, taskVars, walkVars, historyVars
<1>13. CASE PostStopOk(a)
  BY SMTT(60), <1>13 DEF PostStopOk, Leave, Goto, TypeOK, vars, treeVars, portVars, taskVars,
     walkVars, historyVars
<1>14. CASE ReceiveKill(a)
  BY <1>14 DEF ReceiveKill, Goto, Slot, TypeOK, vars, treeVars, portVars, taskVars, walkVars,
     historyVars
<1>15. CASE Cancel(a)
  <2>1. CASE Leave(a, "terminated")
    BY <1>15, <2>1, LeaveType DEF Cancel, TypeOK, treeVars, walkVars, historyVars
  <2>2. CASE Goto(a, "cleanup") /\ UNCHANGED <<event, rxOpen, inbox>>
    BY <1>15, <2>2 DEF Cancel, Goto, TypeOK, treeVars, walkVars, historyVars
  <2> QED
    BY <1>15, <2>1, <2>2 DEF Cancel
<1>16. CASE Pop(a)
  <2>1. PICK b \in pending[a] :
          /\ popped' = [popped EXCEPT ![a] = b]
          /\ pending' = [pending EXCEPT ![a] = @ \ {b}]
          /\ doomed' = [doomed EXCEPT ![a] = status[b] <= Upgrading]
          /\ spared' = IF status[b] <= Upgrading THEN spared ELSE spared \cup {b}
    BY <1>16 DEF Pop
  <2>2. b \in Actor
    BY DEF TypeOK
  <2>3. doomed' \in [Actor -> BOOLEAN]
    BY SMTT(60), <2>1, <2>2 DEF TypeOK
  <2>4. spared' \in SUBSET Actor
    BY <2>1, <2>2 DEF TypeOK
  <2> QED
    BY <1>16, <2>1, <2>2, <2>3, <2>4 DEF Pop, TypeOK, treeVars, portVars, historyVars
<1>17. CASE Take(a)
  BY <1>17 DEF Take, TakeChildren, TypeOK, vars, treeVars, portVars, taskVars, walkVars, historyVars
<1>18. CASE Killed(a)
  <2>1. CASE event[a] = "none"
    BY <1>18, <2>1 DEF Killed, Goto, TypeOK, treeVars, walkVars, historyVars
  <2>2. CASE event[a] # "none"
    <3>1. event[a] \in {"terminated", "failed"} /\ Leave(a, event[a])
      BY <1>18, <2>2 DEF Killed, TypeOK
    <3>2. /\ phase' \in [Actor -> Phase]
          /\ event' \in [Actor -> {"none", "terminated", "failed"}]
          /\ rxOpen' \in [Actor -> BOOLEAN]
          /\ inbox' \in [Actor -> Seq(Event)]
      BY ONLY <3>1, TypeOK, LeaveType
    <3>3. UNCHANGED <<status, treeVars, monitors, lock, signal, stop, wanted, walkVars,
                      calls, historyVars>>
      BY <1>18 DEF Killed
    <3> QED
      BY ONLY <3>2, <3>3, TypeOK DEF TypeOK, treeVars, walkVars, historyVars
  <2> QED
    BY <2>1, <2>2
<1>19. CASE CleanupBegin(a)
  BY <1>19, AdvanceType, StatusValues DEF CleanupBegin, SetStatus, Goto, TypeOK, vars, treeVars,
     portVars, taskVars, walkVars, historyVars
<1>20. CASE CleanupTerminated(a)
  BY <1>20 DEF CleanupTerminated, Goto, TypeOK, vars, treeVars, portVars, taskVars, walkVars,
     historyVars
<1>21. CASE CleanupNotify(a)
  <2>1. inbox' \in [Actor -> Seq(Event)] /\ monitors' \in [Actor -> SUBSET Actor]
    <3>1. CASE event[a] = "none"
      BY <1>21, <3>1 DEF CleanupNotify, TypeOK
    <3>2. CASE event[a] # "none"
      <4>1. event[a] \in {"started", "terminated", "failed"} /\ Notify(a, event[a])
        BY <1>21, <3>2 DEF CleanupNotify, TypeOK
      <4> QED
        BY <4>1, NotifyType
    <3> QED
      BY <3>1, <3>2
  <2>2. heard' \in SUBSET (Actor \X Actor)
    BY SMTT(60), <1>21 DEF CleanupNotify, Targets, TypeOK
  <2>3. phase' \in [Actor -> Phase]
    BY <1>21 DEF CleanupNotify, Goto, TypeOK
  <2> QED
    BY <1>21, <2>1, <2>2, <2>3 DEF CleanupNotify, TypeOK, treeVars, walkVars
<1>22. CASE CleanupUnlink(a)
  <2>1. TreeTypes
    BY <1>22, UnlinkType DEF CleanupUnlink, TypeOK, TreeTypes, treeVars
  <2>2. phase' \in [Actor -> Phase]
    BY <1>22 DEF CleanupUnlink, Goto, TypeOK
  <2> QED
    BY <1>22, <2>1, <2>2 DEF CleanupUnlink, TreeTypes, TypeOK, portVars, walkVars, historyVars
<1>23. CASE CleanupEnd(a)
  BY SMTT(60), <1>23, AdvanceType, StatusValues DEF CleanupEnd, SetStatus, Goto, TypeOK, vars,
     treeVars,
     portVars, taskVars, walkVars, historyVars
<1>24. CASE KillPopped(a)
  <2>1. signal' \in [Actor -> Slot]
    BY <1>24 DEF KillPopped, Send, Slot, TypeOK
  <2> QED
    BY <1>24, <2>1 DEF KillPopped, TypeOK, treeVars, historyVars
<1>25. CASE KilledInLoop(a)
  BY <1>25, AdvanceType, StatusValues DEF KilledInLoop, SetStatus, Goto, TypeOK, treeVars,
     portVars, walkVars, historyVars
<1>26. CASE ReturnKilled(a)
  <2>1. event[a] \in {"none", "terminated", "failed"} /\ Leave(a, event[a])
    BY <1>26 DEF ReturnKilled, TypeOK
  <2> QED
    <3>1. /\ phase' \in [Actor -> Phase]
          /\ event' \in [Actor -> {"none", "terminated", "failed"}]
          /\ rxOpen' \in [Actor -> BOOLEAN]
          /\ inbox' \in [Actor -> Seq(Event)]
      BY ONLY <2>1, TypeOK, LeaveType
    <3>2. UNCHANGED <<status, treeVars, monitors, lock, signal, stop, wanted, walkVars,
                      calls, historyVars>>
      BY <1>26 DEF ReturnKilled
    <3> QED
      BY ONLY <3>1, <3>2, TypeOK DEF TypeOK, treeVars, walkVars, historyVars
<1> QED
  BY <1>1, <1>2, <1>3, <1>4, <1>5, <1>6, <1>7, <1>8, <1>9, <1>10, <1>11, <1>12, <1>13,
     <1>14, <1>15, <1>16, <1>17, <1>18, <1>19, <1>20, <1>21, <1>22, <1>23, <1>24, <1>25, <1>26
     DEF Run, Callback

\* Every call of the API, and the end of a link, preserves the types.
LEMMA CallTypes ==
  ASSUME TypeOK, ApiCall \/ CallLinkCommit
  PROVE  TypeOK'
<1> USE NoneIsNoActor, MaxCallsIsNat DEF Call
<1>1. ASSUME NEW a \in Actor, Kill(a) PROVE TypeOK'
  BY SMTT(60), <1>1 DEF Kill, Send, Slot, TypeOK, treeVars, taskVars, walkVars, historyVars
<1>2. ASSUME NEW a \in Actor, Stop(a) PROVE TypeOK'
  BY SMTT(60), <1>2 DEF Stop, Send, Slot, TypeOK, treeVars, taskVars, walkVars, historyVars
<1>3. ASSUME NEW a \in Actor, StopChildren(a) PROVE TypeOK'
  <2>1. \A c \in Actor : Send(stop, c)[c] \in Slot
    BY DEF Send, Slot, TypeOK
  <2> QED
    BY SMTT(60), <1>3, <2>1 DEF StopChildren, TypeOK, treeVars, taskVars, walkVars, historyVars
<1>4. ASSUME NEW A, DrainAll(A) PROVE TypeOK'
  BY SMTT(60), <1>4, AdvanceType, StatusValues DEF DrainAll, TypeOK, treeVars, portVars,
     taskVars, walkVars,
     historyVars
<1>5. ASSUME NEW c \in Actor, NEW p \in Actor, CallLink(c, p) PROVE TypeOK'
  BY SMTT(60), <1>5 DEF CallLink, LinkCheck, Link, TypeOK, treeVars, portVars, taskVars,
     walkVars, historyVars
<1>6. ASSUME NEW c \in Actor, NEW p \in Actor, CallUnlink(c, p) PROVE TypeOK'
  <2>1. TreeTypes
    BY <1>6, UnlinkType DEF CallUnlink
  <2>2. boss' \in [Actor -> Actor \cup {None}]
    BY <1>6 DEF CallUnlink, TypeOK
  <2> QED
    BY SMTT(60), <1>6, <2>1, <2>2 DEF CallUnlink, TreeTypes, TypeOK, portVars, taskVars, walkVars
<1>7. ASSUME NEW c \in Actor, NEW p \in Actor, Monitor(c, p) PROVE TypeOK'
  BY SMTT(60), <1>7 DEF Monitor, TypeOK, treeVars, portVars, taskVars, walkVars, historyVars
<1>8. ASSUME NEW c \in Actor, NEW p \in Actor, Unmonitor(c, p) PROVE TypeOK'
  BY SMTT(60), <1>8 DEF Unmonitor, TypeOK, treeVars, portVars, taskVars, walkVars, historyVars
<1>9. CASE CallLinkCommit
  <2>1. lock.child \in Actor /\ lock.sup \in Actor
    BY <1>9 DEF CallLinkCommit, TypeOK, Link
  <2>2. TreeTypes /\ lock' = None /\ boss' \in [Actor -> Actor \cup {None}]
    BY <1>9, <2>1, LinkCommitType DEF CallLinkCommit
  <2> QED
    BY <1>9, <2>2 DEF CallLinkCommit, TreeTypes, TypeOK, portVars, taskVars, walkVars
<1> QED
  BY <1>1, <1>2, <1>3, <1>4, <1>5, <1>6, <1>7, <1>8, <1>9 DEF ApiCall, DrainActor,
     DrainChildren

-----------------------------------------------------------------------------
\* The steps that change the tree.
LEMMA TreeChanges ==
  ASSUME Next
  PROVE  \/ \E a \in Actor : SpawnLinkCommit(a) \/ Take(a) \/ CleanupUnlink(a)
         \/ \E c, p \in Actor : CallUnlink(c, p)
         \/ CallLinkCommit
         \/ UNCHANGED treeVars
BY DEF Next, Run, Callback, ApiCall, Start, AlreadyStarted, PreStartOk, PreStartFails,
   SpawnLinkCheck, SpawnLinkRefused,
         PostStartOk, CallbackFails, ReceiveStop, ReceiveDrain, HandleEvent, PostStopOk,
            ReceiveKill,
         Cancel, Pop, KillPopped, Killed, KilledInLoop, ReturnKilled, CleanupBegin,
         CleanupTerminated, CleanupNotify, CleanupEnd,
         Kill, Stop, StopChildren, DrainActor, DrainChildren, DrainAll, CallLink, Monitor,
            Unmonitor

LEMMA LinkCommitTree ==
  ASSUME TypeOK, TreeConsistent, ClosedEmpty, NEW c \in Actor, NEW p \in Actor, LinkCommit(c, p)
  PROVE  TreeConsistent' /\ ClosedEmpty'
<1>1. CASE closed[p]
  BY SMTT(60), <1>1 DEF LinkCommit, treeVars, TreeConsistent, ClosedEmpty
<1>2. CASE ~closed[p]
  <2>1. MoveChild(c, p)
    BY <1>2 DEF LinkCommit
  <2>2. TreeConsistent'
    <3> SUFFICES ASSUME NEW d \in Actor, NEW q \in Actor
                 PROVE  supervisor'[d] = q <=> d \in children'[q]
      BY DEF TreeConsistent
    <3>1. supervisor[d] = q <=> d \in children[q]
      BY DEF TreeConsistent
    <3>2. CASE d = c
      BY <2>1, <3>1, <3>2 DEF MoveChild, TypeOK
    <3>3. CASE d # c
      BY <2>1, <3>1, <3>3 DEF MoveChild, TypeOK
    <3> QED
      BY <3>2, <3>3
  <2>3. ClosedEmpty'
    BY <1>2, <2>1 DEF MoveChild, ClosedEmpty, TypeOK
  <2> QED
    BY <2>2, <2>3
<1> QED
  BY <1>1, <1>2

LEMMA UnlinkTree ==
  ASSUME TypeOK, TreeConsistent, ClosedEmpty, NEW c \in Actor, NEW p \in Actor, Unlink(c, p)
  PROVE  TreeConsistent' /\ ClosedEmpty'
<1>1. CASE supervisor[c] = p
  <2>1. /\ children' = [children EXCEPT ![p] = children[p] \ {c}]
        /\ supervisor' = [supervisor EXCEPT ![c] = None]
        /\ closed' = closed
    BY <1>1 DEF Unlink
  <2>2. TreeConsistent'
    <3> SUFFICES ASSUME NEW d \in Actor, NEW q \in Actor
                 PROVE  supervisor'[d] = q <=> d \in children'[q]
      BY DEF TreeConsistent
    <3>1. supervisor[d] = q <=> d \in children[q]
      BY DEF TreeConsistent
    <3>2. CASE d = c
      BY <1>1, <2>1, <3>1, <3>2, NoneIsNoActor DEF TypeOK
    <3>3. CASE d # c
      BY <2>1, <3>1, <3>3 DEF TypeOK
    <3> QED
      BY <3>2, <3>3
  <2>3. ClosedEmpty'
    BY <2>1 DEF ClosedEmpty, TypeOK
  <2> QED
    BY <2>2, <2>3
<1>2. CASE supervisor[c] # p
  BY SMTT(60), <1>2 DEF Unlink, treeVars, TreeConsistent, ClosedEmpty
<1> QED
  BY <1>1, <1>2

LEMMA TakeTree ==
  ASSUME TypeOK, TreeConsistent, ClosedEmpty, NEW p \in Actor, TakeChildren(p)
  PROVE  TreeConsistent' /\ ClosedEmpty'
<1>1. TreeConsistent'
  BY SMTT(60), NoneIsNoActor DEF TakeChildren, TreeConsistent, TypeOK
<1>2. ClosedEmpty'
  BY DEF TakeChildren, ClosedEmpty, TypeOK
<1> QED
  BY <1>1, <1>2

LEMMA TreeStep ==
  ASSUME IInv, Next
  PROVE  TreeConsistent' /\ ClosedEmpty'
<1> USE DEF IInv
<1>1. ASSUME NEW a \in Actor, SpawnLinkCommit(a) PROVE TreeConsistent' /\ ClosedEmpty'
  BY <1>1, LinkCommitTree DEF SpawnLinkCommit, HasWanted
<1>2. ASSUME NEW a \in Actor, Take(a) PROVE TreeConsistent' /\ ClosedEmpty'
  BY <1>2, TakeTree DEF Take, TypeOK
<1>3. ASSUME NEW a \in Actor, CleanupUnlink(a) PROVE TreeConsistent' /\ ClosedEmpty'
  <2>1. CASE supervisor[a] = None
    <3>1. UNCHANGED treeVars
      BY <1>3, <2>1 DEF CleanupUnlink
    <3> QED
      BY <3>1 DEF treeVars, TreeConsistent, ClosedEmpty
  <2>2. CASE supervisor[a] # None
    BY <1>3, <2>2, UnlinkTree DEF CleanupUnlink, TypeOK
  <2> QED
    BY <2>1, <2>2
<1>4. ASSUME NEW c \in Actor, NEW p \in Actor, CallUnlink(c, p)
      PROVE  TreeConsistent' /\ ClosedEmpty'
  BY <1>4, UnlinkTree DEF CallUnlink
<1>5. CASE CallLinkCommit
  BY <1>5, LinkCommitTree DEF CallLinkCommit, TypeOK, Link
<1>6. CASE UNCHANGED treeVars
  BY <1>6 DEF treeVars, TreeConsistent, ClosedEmpty
<1> QED
  BY <1>1, <1>2, <1>3, <1>4, <1>5, <1>6, TreeChanges

-----------------------------------------------------------------------------
LEMMA WantedStep ==
  ASSUME IInv, Next
  PROVE  HasWanted'
<1> USE DEF HasWanted, Marked, Unmarked, Walking
<1>t. HasWanted /\ phase \in [Actor -> Phase] /\ wanted \in [Actor -> Actor \cup {None}]
  BY DEF IInv, TypeOK
<1>1. ASSUME NEW a \in Actor, Run(a) \/ Callback(a)
      PROVE  HasWanted'
  <2>1. CASE \E s \in (Actor \ {a}) \cup {None} : Start(a, s)
    BY SMTT(60), <2>1, <1>t DEF Start, Goto, SetStatus, treeVars, taskVars, walkVars
  <2>2. CASE AlreadyStarted(a)
    BY <2>2, <1>t DEF AlreadyStarted, Leave, Goto, SetStatus, treeVars, taskVars, walkVars
  <2>3. CASE PreStartOk(a)
    BY <2>3, <1>t DEF PreStartOk, Goto, SetStatus, treeVars, taskVars, walkVars
  <2>4. CASE PreStartFails(a)
    BY <2>4, <1>t DEF PreStartFails, Goto, SetStatus, treeVars, taskVars, walkVars
  <2>5. CASE SpawnLinkCheck(a)
    BY <2>5, <1>t DEF SpawnLinkCheck, Goto, SetStatus, treeVars, taskVars, walkVars
  <2>6. CASE SpawnLinkRefused(a)
    BY <2>6, <1>t DEF SpawnLinkRefused, Goto, SetStatus, treeVars, taskVars, walkVars
  <2>7. CASE SpawnLinkCommit(a)
    BY <2>7, <1>t DEF SpawnLinkCommit, Goto, SetStatus, treeVars, taskVars, walkVars
  <2>8. CASE PostStartOk(a)
    BY <2>8, <1>t DEF PostStartOk, Goto, SetStatus, treeVars, taskVars, walkVars
  <2>9. CASE CallbackFails(a)
    BY <2>9, <1>t DEF CallbackFails, Leave, Goto, SetStatus, treeVars, taskVars, walkVars
  <2>10. CASE ReceiveStop(a)
    BY <2>10, <1>t DEF ReceiveStop, LeaveLoop, Goto, SetStatus, treeVars, taskVars, walkVars
  <2>11. CASE ReceiveDrain(a)
    BY <2>11, <1>t DEF ReceiveDrain, LeaveLoop, Goto, SetStatus, treeVars, taskVars, walkVars
  <2>12. CASE HandleEvent(a)
    BY <2>12, <1>t DEF HandleEvent, Goto, SetStatus, treeVars, taskVars, walkVars
  <2>13. CASE PostStopOk(a)
    BY <2>13, <1>t DEF PostStopOk, Leave, Goto, SetStatus, treeVars, taskVars, walkVars
  <2>14. CASE ReceiveKill(a)
    BY <2>14, <1>t DEF ReceiveKill, Goto, SetStatus, treeVars, taskVars, walkVars
  <2>15. CASE Cancel(a)
    BY <2>15, <1>t DEF Cancel, Leave, Goto, SetStatus, treeVars, taskVars, walkVars
  <2>16. CASE Pop(a)
    BY <2>16, <1>t DEF Pop, Goto, SetStatus, treeVars, taskVars, walkVars
  <2>17. CASE Take(a)
    BY <2>17, <1>t DEF Take, Goto, SetStatus, treeVars, taskVars, walkVars
  <2>18. CASE Killed(a)
    BY <2>18, <1>t DEF Killed, Leave, Terminated, Goto, SetStatus, treeVars, taskVars, walkVars
  <2>19. CASE CleanupBegin(a)
    BY <2>19, <1>t DEF CleanupBegin, Goto, SetStatus, treeVars, taskVars, walkVars
  <2>20. CASE CleanupTerminated(a)
    BY <2>20, <1>t DEF CleanupTerminated, Terminated, Goto, SetStatus, treeVars, taskVars, walkVars
  <2>21. CASE CleanupNotify(a)
    BY <2>21, <1>t DEF CleanupNotify, Goto, SetStatus, treeVars, taskVars, walkVars
  <2>22. CASE CleanupUnlink(a)
    BY <2>22, <1>t DEF CleanupUnlink, Goto, SetStatus, treeVars, taskVars, walkVars
  <2>23. CASE CleanupEnd(a)
    BY <2>23, <1>t DEF CleanupEnd, Goto, SetStatus, treeVars, taskVars, walkVars
  <2>24. CASE KillPopped(a)
    BY <2>24, <1>t DEF KillPopped, Goto, SetStatus, treeVars, taskVars, walkVars
  <2>25. CASE KilledInLoop(a)
    BY <2>25, <1>t DEF KilledInLoop, Terminated, Goto, SetStatus, treeVars, taskVars, walkVars
  <2>26. CASE ReturnKilled(a)
    BY <2>26, <1>t DEF ReturnKilled, Leave, Goto, SetStatus, treeVars, taskVars, walkVars
  <2> QED
    BY <1>1, <2>1, <2>2, <2>3, <2>4, <2>5, <2>6, <2>7, <2>8, <2>9, <2>10, <2>11, <2>12,
       <2>13, <2>14, <2>15, <2>16, <2>17, <2>18, <2>19, <2>20, <2>21, <2>22, <2>23, <2>24,
       <2>25, <2>26
       DEF Run, Callback
<1>2. CASE ApiCall \/ CallLinkCommit
  BY <1>2, <1>t DEF ApiCall, Kill, Stop, StopChildren, DrainActor, DrainChildren,
     DrainAll,
     CallLink, CallUnlink,
         Monitor, Unmonitor, CallLinkCommit, taskVars, walkVars
<1> QED
  BY <1>1, <1>2 DEF Next

LEMMA IdleStep ==
  ASSUME IInv, Next
  PROVE  Idle'
<1> USE DEF Idle, Marked, Unmarked, Walking
<1>t. Idle /\ phase \in [Actor -> Phase] /\ pending \in [Actor -> SUBSET Actor]
      /\ popped \in [Actor -> Actor \cup {None}] /\ doomed \in [Actor -> BOOLEAN]
  BY DEF IInv, TypeOK
<1>1. ASSUME NEW a \in Actor, Run(a) \/ Callback(a)
      PROVE  Idle'
  <2>1. CASE \E s \in (Actor \ {a}) \cup {None} : Start(a, s)
    BY <2>1, <1>t DEF Start, Goto, SetStatus, treeVars, taskVars, walkVars
  <2>2. CASE AlreadyStarted(a)
    BY <2>2, <1>t DEF AlreadyStarted, Leave, Goto, SetStatus, treeVars, taskVars, walkVars
  <2>3. CASE PreStartOk(a)
    BY <2>3, <1>t DEF PreStartOk, Goto, SetStatus, treeVars, taskVars, walkVars
  <2>4. CASE PreStartFails(a)
    BY <2>4, <1>t DEF PreStartFails, Goto, SetStatus, treeVars, taskVars, walkVars
  <2>5. CASE SpawnLinkCheck(a)
    BY <2>5, <1>t DEF SpawnLinkCheck, Goto, SetStatus, treeVars, taskVars, walkVars
  <2>6. CASE SpawnLinkRefused(a)
    BY <2>6, <1>t DEF SpawnLinkRefused, Goto, SetStatus, treeVars, taskVars, walkVars
  <2>7. CASE SpawnLinkCommit(a)
    BY <2>7, <1>t DEF SpawnLinkCommit, Goto, SetStatus, treeVars, taskVars, walkVars
  <2>8. CASE PostStartOk(a)
    BY <2>8, <1>t DEF PostStartOk, Goto, SetStatus, treeVars, taskVars, walkVars
  <2>9. CASE CallbackFails(a)
    BY <2>9, <1>t DEF CallbackFails, Leave, Goto, SetStatus, treeVars, taskVars, walkVars
  <2>10. CASE ReceiveStop(a)
    BY <2>10, <1>t DEF ReceiveStop, LeaveLoop, Goto, SetStatus, treeVars, taskVars, walkVars
  <2>11. CASE ReceiveDrain(a)
    BY <2>11, <1>t DEF ReceiveDrain, LeaveLoop, Goto, SetStatus, treeVars, taskVars, walkVars
  <2>12. CASE HandleEvent(a)
    BY <2>12, <1>t DEF HandleEvent, Goto, SetStatus, treeVars, taskVars, walkVars
  <2>13. CASE PostStopOk(a)
    BY <2>13, <1>t DEF PostStopOk, Leave, Goto, SetStatus, treeVars, taskVars, walkVars
  <2>14. CASE ReceiveKill(a)
    BY <2>14, <1>t DEF ReceiveKill, Goto, SetStatus, treeVars, taskVars, walkVars
  <2>15. CASE Cancel(a)
    BY <2>15, <1>t DEF Cancel, Leave, Goto, SetStatus, treeVars, taskVars, walkVars
  <2>16. CASE Pop(a)
    <3>1. PICK b \in pending[a] : popped' = [popped EXCEPT ![a] = b]
      BY <2>16 DEF Pop
    <3>2. popped'[a] # None /\ phase' = phase /\ phase[a] \in Walking
      BY <2>16, <3>1, <1>t, NoneIsNoActor DEF Pop
    <3>3. \A c \in Actor \ {a} :
            pending'[c] = pending[c] /\ popped'[c] = popped[c] /\ doomed'[c] = doomed[c]
      BY <2>16, <1>t DEF Pop
    <3> QED
      BY <3>2, <3>3, <1>t
  <2>17. CASE Take(a)
    BY <2>17, <1>t DEF Take, Goto, SetStatus, treeVars, taskVars, walkVars
  <2>18. CASE Killed(a)
    BY <2>18, <1>t DEF Killed, Leave, Terminated, Goto, SetStatus, treeVars, taskVars, walkVars
  <2>19. CASE CleanupBegin(a)
    BY <2>19, <1>t DEF CleanupBegin, Goto, SetStatus, treeVars, taskVars, walkVars
  <2>20. CASE CleanupTerminated(a)
    BY <2>20, <1>t DEF CleanupTerminated, Terminated, Goto, SetStatus, treeVars, taskVars, walkVars
  <2>21. CASE CleanupNotify(a)
    BY <2>21, <1>t DEF CleanupNotify, Goto, SetStatus, treeVars, taskVars, walkVars
  <2>22. CASE CleanupUnlink(a)
    BY <2>22, <1>t DEF CleanupUnlink, Goto, SetStatus, treeVars, taskVars, walkVars
  <2>23. CASE CleanupEnd(a)
    BY <2>23, <1>t DEF CleanupEnd, Goto, SetStatus, treeVars, taskVars, walkVars
  <2>24. CASE KillPopped(a)
    BY <2>24, <1>t DEF KillPopped, Goto, SetStatus, treeVars, taskVars, walkVars
  <2>25. CASE KilledInLoop(a)
    BY <2>25, <1>t DEF KilledInLoop, Terminated, Goto, SetStatus, treeVars, taskVars, walkVars
  <2>26. CASE ReturnKilled(a)
    BY <2>26, <1>t DEF ReturnKilled, Leave, Goto, SetStatus, treeVars, taskVars, walkVars
  <2> QED
    BY <1>1, <2>1, <2>2, <2>3, <2>4, <2>5, <2>6, <2>7, <2>8, <2>9, <2>10, <2>11, <2>12,
       <2>13, <2>14, <2>15, <2>16, <2>17, <2>18, <2>19, <2>20, <2>21, <2>22, <2>23, <2>24,
       <2>25, <2>26
       DEF Run, Callback
<1>2. CASE ApiCall \/ CallLinkCommit
  BY <1>2, <1>t DEF ApiCall, Kill, Stop, StopChildren, DrainActor, DrainChildren,
     DrainAll,
     CallLink, CallUnlink,
         Monitor, Unmonitor, CallLinkCommit, taskVars, walkVars
<1> QED
  BY <1>1, <1>2 DEF Next

LEMMA PublishedStep ==
  ASSUME IInv, Next
  PROVE  Published'
<1> USE DEF Published, Past, Told, Marked, Unmarked, Walking, Advance, Status, Unstarted, Starting,
           Running, Upgrading, Draining, Stopping, Stopped
<1>t. Published /\ phase \in [Actor -> Phase] /\ status \in [Actor -> Status]
  BY DEF IInv, TypeOK
<1>1. ASSUME NEW a \in Actor, Run(a) \/ Callback(a)
      PROVE  Published'
  <2>1. CASE \E s \in (Actor \ {a}) \cup {None} : Start(a, s)
    BY SMTT(60), <2>1, <1>t DEF Start, Goto, SetStatus, treeVars, taskVars, walkVars
  <2>2. CASE AlreadyStarted(a)
    BY <2>2, <1>t DEF AlreadyStarted, Leave, Goto, SetStatus, treeVars, taskVars, walkVars
  <2>3. CASE PreStartOk(a)
    BY <2>3, <1>t DEF PreStartOk, Goto, SetStatus, treeVars, taskVars, walkVars
  <2>4. CASE PreStartFails(a)
    BY <2>4, <1>t DEF PreStartFails, Goto, SetStatus, treeVars, taskVars, walkVars
  <2>5. CASE SpawnLinkCheck(a)
    BY <2>5, <1>t DEF SpawnLinkCheck, Goto, SetStatus, treeVars, taskVars, walkVars
  <2>6. CASE SpawnLinkRefused(a)
    BY <2>6, <1>t DEF SpawnLinkRefused, Goto, SetStatus, treeVars, taskVars, walkVars
  <2>7. CASE SpawnLinkCommit(a)
    BY <2>7, <1>t DEF SpawnLinkCommit, Goto, SetStatus, treeVars, taskVars, walkVars
  <2>8. CASE PostStartOk(a)
    BY SMTT(60), <2>8, <1>t DEF PostStartOk, Goto, SetStatus, treeVars, taskVars, walkVars
  <2>9. CASE CallbackFails(a)
    BY <2>9, <1>t DEF CallbackFails, Leave, Goto, SetStatus, treeVars, taskVars, walkVars
  <2>10. CASE ReceiveStop(a)
    BY SMTT(60), <2>10, <1>t DEF ReceiveStop, LeaveLoop, Goto, SetStatus, treeVars, taskVars,
       walkVars
  <2>11. CASE ReceiveDrain(a)
    BY SMTT(60), <2>11, <1>t DEF ReceiveDrain, LeaveLoop, Goto, SetStatus, treeVars, taskVars,
       walkVars
  <2>12. CASE HandleEvent(a)
    BY <2>12, <1>t DEF HandleEvent, Goto, SetStatus, treeVars, taskVars, walkVars
  <2>13. CASE PostStopOk(a)
    BY <2>13, <1>t DEF PostStopOk, Leave, Goto, SetStatus, treeVars, taskVars, walkVars
  <2>14. CASE ReceiveKill(a)
    BY <2>14, <1>t DEF ReceiveKill, Goto, SetStatus, treeVars, taskVars, walkVars
  <2>15. CASE Cancel(a)
    BY <2>15, <1>t DEF Cancel, Leave, Goto, SetStatus, treeVars, taskVars, walkVars
  <2>16. CASE Pop(a)
    BY <2>16, <1>t DEF Pop, Goto, SetStatus, treeVars, taskVars, walkVars
  <2>17. CASE Take(a)
    BY <2>17, <1>t DEF Take, Goto, SetStatus, treeVars, taskVars, walkVars
  <2>18. CASE Killed(a)
    BY <2>18, <1>t DEF Killed, Leave, Terminated, Goto, SetStatus, treeVars, taskVars, walkVars
  <2>19. CASE CleanupBegin(a)
    <3>1. status[a] \in 0 .. 5
      BY SMTT(60), <2>19, <1>t DEF CleanupBegin
    <3>2. Advance(status[a], Stopping) = 5
      BY SMTT(60), <3>1
    <3>3. status' = [status EXCEPT ![a] = 5]
      BY <2>19, <3>2, <1>t DEF CleanupBegin, SetStatus
    <3> QED
      BY SMTT(60), <2>19, <3>3, <1>t DEF CleanupBegin, Goto
  <2>20. CASE CleanupTerminated(a)
    BY <2>20, <1>t DEF CleanupTerminated, Terminated, Goto, SetStatus, treeVars, taskVars, walkVars
  <2>21. CASE CleanupNotify(a)
    BY <2>21, <1>t DEF CleanupNotify, Goto, SetStatus, treeVars, taskVars, walkVars
  <2>22. CASE CleanupUnlink(a)
    BY <2>22, <1>t DEF CleanupUnlink, Goto, SetStatus, treeVars, taskVars, walkVars
  <2>23. CASE CleanupEnd(a)
    BY SMTT(60), <2>23, <1>t DEF CleanupEnd, Goto, SetStatus, treeVars, taskVars, walkVars
  <2>24. CASE KillPopped(a)
    BY <2>24, <1>t DEF KillPopped, Goto, SetStatus, treeVars, taskVars, walkVars
  <2>25. CASE KilledInLoop(a)
    BY SMTT(60), <2>25, <1>t DEF KilledInLoop, Terminated, Goto, SetStatus, treeVars, taskVars,
       walkVars
  <2>26. CASE ReturnKilled(a)
    BY <2>26, <1>t DEF ReturnKilled, Leave, Goto, SetStatus, treeVars, taskVars, walkVars
  <2> QED
    BY <1>1, <2>1, <2>2, <2>3, <2>4, <2>5, <2>6, <2>7, <2>8, <2>9, <2>10, <2>11, <2>12,
       <2>13, <2>14, <2>15, <2>16, <2>17, <2>18, <2>19, <2>20, <2>21, <2>22, <2>23, <2>24,
       <2>25, <2>26
       DEF Run, Callback
<1>2. CASE ApiCall \/ CallLinkCommit
  <2>1. phase' = phase
    BY <1>2 DEF ApiCall, Kill, Stop, StopChildren, DrainActor, DrainChildren,
       DrainAll, CallLink,
       CallUnlink,
         Monitor, Unmonitor, CallLinkCommit, taskVars, walkVars
  <2>2. CASE status' = status
    BY <2>1, <2>2, <1>t
  <2>3. ASSUME NEW A, DrainAll(A) PROVE Published'
    <3>1. \A b \in Actor : status'[b] = status[b] \/ (status[b] < 4 /\ status'[b] = 4)
      BY <2>3, <1>t DEF DrainAll
    <3> SUFFICES ASSUME NEW b \in Actor
                 PROVE  /\ phase'[b] \in Past \cup {"terminate"} => status'[b] >= Stopping
                        /\ status'[b] = Stopped => phase'[b] = "done"
      OBVIOUS
    <3>2. CASE status'[b] = status[b]
      BY <2>1, <3>2, <1>t
    <3>3. CASE status[b] < 4 /\ status'[b] = 4
      <4>1. status[b] \in 0 .. 6 /\ ~(status[b] >= 5)
        BY SMTT(60), <3>3, <1>t
      <4>2. phase[b] \notin Past \cup {"terminate"}
        BY <4>1, <1>t
      <4> QED
        BY SMTT(60), <2>1, <3>3, <4>2
    <3> QED
      BY <3>1, <3>2, <3>3
  <2> QED
    BY <1>2, <2>2, <2>3 DEF ApiCall, Kill, Stop, StopChildren, DrainActor,
       DrainChildren,
       DrainAll, CallLink, CallUnlink,
         Monitor, Unmonitor, CallLinkCommit
<1> QED
  BY <1>1, <1>2 DEF Next

\* take_children closes a child set for good.
LEMMA ClosedStays ==
  ASSUME IInv, Next, NEW b \in Actor, closed[b]
  PROVE  closed'[b]
<1>1. closed \in [Actor -> BOOLEAN]
  BY DEF IInv, TypeOK
<1>2. closed' = closed \/ \E p : closed' = [closed EXCEPT ![p] = TRUE]
  BY TreeChanges DEF SpawnLinkCommit, Take, CleanupUnlink, CallUnlink, CallLinkCommit,
     LinkCommit, MoveChild, Unlink, TakeChildren, treeVars
<1> QED
  BY <1>1, <1>2

\* Only the first half of a link takes the lock.
LEMMA LockChanges ==
  ASSUME Next
  PROVE  \/ lock' = lock
         \/ lock' = None
         \/ \E a \in Actor : SpawnLinkCheck(a)
         \/ \E c, p \in Actor : CallLink(c, p)
<1> DEFINE Changes == \/ lock' = lock
                      \/ lock' = None
                      \/ \E b \in Actor : SpawnLinkCheck(b)
                      \/ \E c, p \in Actor : CallLink(c, p)
<1> SUFFICES Changes
  OBVIOUS
<1>1. ASSUME NEW a \in Actor, Run(a) PROVE Changes
  BY <1>1 DEF Run, Start, AlreadyStarted, SpawnLinkRefused, SpawnLinkCommit, ReceiveKill, Pop,
     Take, KillPopped, Killed, KilledInLoop, ReturnKilled, CleanupBegin, CleanupTerminated,
     CleanupNotify, CleanupUnlink, CleanupEnd,
     LinkCommit
<1>2. ASSUME NEW a \in Actor, Callback(a) PROVE Changes
  BY <1>2 DEF Callback, PreStartOk, PreStartFails, PostStartOk, CallbackFails, ReceiveStop,
     ReceiveDrain, HandleEvent, PostStopOk, Cancel, LinkCommit
<1>3. CASE ApiCall \/ CallLinkCommit
  BY <1>3 DEF ApiCall, Kill, Stop, StopChildren, DrainActor, DrainChildren, DrainAll,
     CallUnlink, CallLinkCommit, Monitor, Unmonitor, LinkCommit
<1> QED
  BY <1>1, <1>2, <1>3 DEF Next

\* No link of an actor that is stopping begins.
LEMMA ShutStays ==
  ASSUME IInv, Next, NEW b \in Actor, status[b] >= Stopping, Shut(b)
  PROVE  Shut(b)'
<1>1. closed'[b]
  BY ClosedStays DEF Shut
<1>2. status[b] \in 0 .. 6 /\ ~(status[b] < Draining)
  BY SMTT(60) DEF IInv, TypeOK, Status, Stopping, Draining
<1>3. lock' # None => lock'.child # b
  <2>1. CASE lock' = lock \/ lock' = None
    BY <2>1 DEF Shut
  <2>2. ASSUME NEW a \in Actor, SpawnLinkCheck(a) PROVE lock'.child # b
    BY <1>2, <2>2 DEF SpawnLinkCheck, LinkCheck, LinkAllowed
  <2>3. ASSUME NEW c \in Actor, NEW p \in Actor, CallLink(c, p) PROVE lock'.child # b
    BY <1>2, <2>3 DEF CallLink, LinkCheck, LinkAllowed
  <2> QED
    BY <2>1, <2>2, <2>3, LockChanges
<1> QED
  BY <1>1, <1>3 DEF Shut

\* An actor that gave up its supervisor gets no other one.
LEMMA StaysDetached ==
  ASSUME IInv, Next, NEW b \in Actor, Shut(b), supervisor[b] = None,
         phase[b] \in {"finish", "done"}
  PROVE  supervisor'[b] = None
<1> USE DEF IInv, TypeOK
<1>1. ASSUME NEW a \in Actor, SpawnLinkCommit(a) PROVE supervisor'[b] = None
  <2>1. a # b
    BY <1>1 DEF SpawnLinkCommit
  <2> QED
    BY <1>1, <2>1 DEF SpawnLinkCommit, LinkCommit, MoveChild, treeVars
<1>2. ASSUME NEW a \in Actor, Take(a) PROVE supervisor'[b] = None
  BY <1>2 DEF Take, TakeChildren
<1>3. ASSUME NEW a \in Actor, CleanupUnlink(a) PROVE supervisor'[b] = None
  BY <1>3 DEF CleanupUnlink, Unlink, treeVars
<1>4. ASSUME NEW c \in Actor, NEW p \in Actor, CallUnlink(c, p) PROVE supervisor'[b] = None
  BY <1>4 DEF CallUnlink, Unlink, treeVars
<1>5. CASE CallLinkCommit
  <2>1. lock # None /\ lock.child # b
    BY <1>5 DEF CallLinkCommit, Shut
  <2> QED
    BY <1>5, <2>1 DEF CallLinkCommit, LinkCommit, MoveChild, treeVars
<1>6. CASE UNCHANGED treeVars
  BY <1>6 DEF treeVars
<1> HIDE DEF IInv, TypeOK
<1> QED
  BY <1>1, <1>2, <1>3, <1>4, <1>5, <1>6, TreeChanges

LEMMA ShutStep ==
  ASSUME IInv, Next
  PROVE  ShutAfterTake'
<1> USE DEF ShutAfterTake, Past, Told, Marked, Unmarked, Walking
<1>t. ShutAfterTake /\ phase \in [Actor -> Phase] /\ pending \in [Actor -> SUBSET Actor]
      /\ popped \in [Actor -> Actor \cup {None}]
  BY DEF IInv, TypeOK
<1>s. \A b \in Actor :
        (phase[b] = "terminate" \/ phase[b] \in Past) /\ Shut(b) => Shut(b)'
  BY ShutStays DEF IInv, Published
<1>d. \A b \in Actor : phase[b] \in {"finish", "done"} => supervisor'[b] = None
  BY StaysDetached DEF IInv
<1>1. ASSUME NEW a \in Actor, Run(a) \/ Callback(a)
      PROVE  ShutAfterTake'
  <2>1. CASE \E s \in (Actor \ {a}) \cup {None} : Start(a, s)
    BY <2>1, <1>t, <1>s, <1>d DEF Start, Goto, SetStatus, treeVars, taskVars, walkVars
  <2>2. CASE AlreadyStarted(a)
    BY <2>2, <1>t, <1>s, <1>d DEF AlreadyStarted, Leave, Goto, SetStatus, treeVars, taskVars,
       walkVars
  <2>3. CASE PreStartOk(a)
    BY <2>3, <1>t, <1>s, <1>d DEF PreStartOk, Goto, SetStatus, treeVars, taskVars, walkVars
  <2>4. CASE PreStartFails(a)
    BY <2>4, <1>t, <1>s, <1>d DEF PreStartFails, Goto, SetStatus, treeVars, taskVars, walkVars
  <2>5. CASE SpawnLinkCheck(a)
    BY <2>5, <1>t, <1>s, <1>d DEF SpawnLinkCheck, Goto, SetStatus, treeVars, taskVars, walkVars
  <2>6. CASE SpawnLinkRefused(a)
    BY <2>6, <1>t, <1>s, <1>d DEF SpawnLinkRefused, Goto, SetStatus, treeVars, taskVars, walkVars
  <2>7. CASE SpawnLinkCommit(a)
    BY <2>7, <1>t, <1>s, <1>d DEF SpawnLinkCommit, Goto, SetStatus, treeVars, taskVars, walkVars
  <2>8. CASE PostStartOk(a)
    BY <2>8, <1>t, <1>s, <1>d DEF PostStartOk, Goto, SetStatus, treeVars, taskVars, walkVars
  <2>9. CASE CallbackFails(a)
    BY <2>9, <1>t, <1>s, <1>d DEF CallbackFails, Leave, Goto, SetStatus, treeVars, taskVars,
       walkVars
  <2>10. CASE ReceiveStop(a)
    BY <2>10, <1>t, <1>s, <1>d DEF ReceiveStop, LeaveLoop, Goto, SetStatus, treeVars, taskVars,
       walkVars
  <2>11. CASE ReceiveDrain(a)
    BY <2>11, <1>t, <1>s, <1>d DEF ReceiveDrain, LeaveLoop, Goto, SetStatus, treeVars, taskVars,
       walkVars
  <2>12. CASE HandleEvent(a)
    BY <2>12, <1>t, <1>s, <1>d DEF HandleEvent, Goto, SetStatus, treeVars, taskVars, walkVars
  <2>13. CASE PostStopOk(a)
    BY <2>13, <1>t, <1>s, <1>d DEF PostStopOk, Leave, Goto, SetStatus, treeVars, taskVars, walkVars
  <2>14. CASE ReceiveKill(a)
    BY <2>14, <1>t, <1>s, <1>d DEF ReceiveKill, Goto, SetStatus, treeVars, taskVars, walkVars
  <2>15. CASE Cancel(a)
    BY <2>15, <1>t, <1>s, <1>d DEF Cancel, Leave, Goto, SetStatus, treeVars, taskVars, walkVars
  <2>16. CASE Pop(a)
    <3>1. PICK b \in pending[a] :
            /\ popped' = [popped EXCEPT ![a] = b]
            /\ pending' = [pending EXCEPT ![a] = @ \ {b}]
      BY <2>16 DEF Pop
    <3>2. a \in pending[a] => a \in pending'[a] \/ popped'[a] = a
      BY <3>1, <1>t
    <3>3. \A c \in Actor \ {a} : pending'[c] = pending[c] /\ popped'[c] = popped[c]
      BY <3>1, <1>t
    <3>4. popped[a] # a /\ phase' = phase
      BY <2>16, NoneIsNoActor DEF Pop
    <3> QED
      BY <3>2, <3>3, <3>4, <1>s, <1>d, <1>t
  <2>17. CASE Take(a)
    <3>1. popped[a] = a => Shut(a)'
      BY <2>17 DEF IInv, TypeOK, Take, TakeChildren, Shut
    <3> QED
      BY <2>17, <3>1, <1>s, <1>d, <1>t DEF Take
  <2>18. CASE Killed(a)
    BY <2>18, <1>t, <1>s, <1>d DEF Killed, Leave, Terminated, Goto, SetStatus, treeVars,
       taskVars, walkVars
  <2>19. CASE CleanupBegin(a)
    BY <2>19, <1>t, <1>s, <1>d DEF CleanupBegin, Goto, SetStatus, treeVars, taskVars, walkVars
  <2>20. CASE CleanupTerminated(a)
    <3>1. Shut(a)'
      BY <2>20, <1>s, <1>t, NoneIsNoActor DEF CleanupTerminated, Terminated
    <3> QED
      BY <2>20, <3>1, <1>s, <1>d, <1>t DEF CleanupTerminated, Goto, walkVars
  <2>21. CASE CleanupNotify(a)
    BY <2>21, <1>t, <1>s, <1>d DEF CleanupNotify, Goto, SetStatus, treeVars, taskVars, walkVars
  <2>22. CASE CleanupUnlink(a)
    <3>1. supervisor'[a] = None
      BY <2>22 DEF IInv, TypeOK, CleanupUnlink, Unlink, treeVars
    <3> QED
      BY <2>22, <3>1, <1>s, <1>d, <1>t DEF CleanupUnlink, Goto, walkVars
  <2>23. CASE CleanupEnd(a)
    BY <2>23, <1>t, <1>s, <1>d DEF CleanupEnd, Goto, SetStatus, treeVars, taskVars, walkVars
  <2>24. CASE KillPopped(a)
    BY <2>24, <1>t, <1>s, <1>d DEF KillPopped, Goto, SetStatus, treeVars, taskVars, walkVars
  <2>25. CASE KilledInLoop(a)
    BY <2>25, <1>t, <1>s, <1>d DEF KilledInLoop, Terminated, Goto, SetStatus, treeVars, taskVars,
       walkVars
  <2>26. CASE ReturnKilled(a)
    BY <2>26, <1>t, <1>s, <1>d DEF ReturnKilled, Leave, Goto, SetStatus, treeVars, taskVars,
       walkVars
  <2> QED
    BY <1>1, <2>1, <2>2, <2>3, <2>4, <2>5, <2>6, <2>7, <2>8, <2>9, <2>10, <2>11, <2>12,
       <2>13, <2>14, <2>15, <2>16, <2>17, <2>18, <2>19, <2>20, <2>21, <2>22, <2>23, <2>24,
       <2>25, <2>26
       DEF Run, Callback
<1>2. CASE ApiCall \/ CallLinkCommit
  BY <1>2, <1>t, <1>s, <1>d DEF ApiCall, Kill, Stop, StopChildren, DrainActor,
     DrainChildren,
     DrainAll, CallLink, CallUnlink,
         Monitor, Unmonitor, CallLinkCommit, taskVars, walkVars
<1> QED
  BY <1>1, <1>2 DEF Next

-----------------------------------------------------------------------------
\* A port that was used stays used, and the status only grows.
LEMMA SignalStays ==
  ASSUME IInv, Next, NEW c \in Actor, signal[c] # "unsent"
  PROVE  signal'[c] # "unsent"
<1> DEFINE Changes == \/ signal' = signal
                      \/ \E b \in Actor : signal' = Send(signal, b)
                      \/ \E b \in Actor : signal' = [signal EXCEPT ![b] = "taken"]
<1>1. Changes
  <2>1. ASSUME NEW a \in Actor, Run(a) PROVE Changes
    <3>1. CASE ReceiveKill(a)
      BY <3>1 DEF ReceiveKill
    <3>2. CASE KillPopped(a)
      <4>1. popped[a] \in Actor
        BY <3>2 DEF KillPopped, IInv, TypeOK, Idle
      <4> QED
        BY <3>2, <4>1 DEF KillPopped
    <3>3. CASE ~ReceiveKill(a) /\ ~KillPopped(a)
      BY <2>1, <3>3 DEF Run, Start, AlreadyStarted, SpawnLinkCheck, SpawnLinkRefused,
         SpawnLinkCommit, Pop, Take, Killed, KilledInLoop, ReturnKilled, CleanupBegin,
         CleanupTerminated, CleanupNotify,
         CleanupUnlink, CleanupEnd, portVars, Leave
    <3> QED
      BY <3>1, <3>2, <3>3
  <2>2. ASSUME NEW a \in Actor, Callback(a) PROVE Changes
    BY <2>2 DEF Callback, PreStartOk, PreStartFails, PostStartOk, CallbackFails, ReceiveStop,
       ReceiveDrain, HandleEvent, PostStopOk, Cancel, portVars, Leave
  <2>3. CASE ApiCall \/ CallLinkCommit
    BY <2>3 DEF ApiCall, Kill, Stop, StopChildren, DrainActor, DrainChildren,
       DrainAll,
       CallLink, CallUnlink, CallLinkCommit, Monitor, Unmonitor, portVars, Leave
  <2> QED
    BY <2>1, <2>2, <2>3 DEF Next
<1>2. signal \in [Actor -> Slot]
  BY DEF IInv, TypeOK
<1> QED
  BY <1>1, <1>2 DEF Send

LEMMA StatusGrows ==
  ASSUME IInv, Next, NEW c \in Actor
  PROVE  status'[c] \in Status /\ status'[c] >= status[c]
<1>t. status \in [Actor -> Status]
  BY DEF IInv, TypeOK
<1> DEFINE Changes == \/ status' = status
                      \/ \E b \in Actor, x \in Status :
                           status' = [status EXCEPT ![b] = Advance(@, x)]
                      \/ \E A : DrainAll(A)
<1>1. Changes
  <2>1. ASSUME NEW a \in Actor, Run(a) PROVE Changes
    BY <2>1, StatusValues DEF Run, Start, AlreadyStarted, SpawnLinkCheck,
       SpawnLinkRefused,
       SpawnLinkCommit, ReceiveKill, Pop, Take, KillPopped, Killed, KilledInLoop, ReturnKilled,
       CleanupBegin, CleanupTerminated,
       CleanupNotify, CleanupUnlink, CleanupEnd, SetStatus, LeaveLoop
  <2>2. ASSUME NEW a \in Actor, Callback(a) PROVE Changes
    BY <2>2, StatusValues DEF Callback, PreStartOk, PreStartFails, PostStartOk, CallbackFails,
       ReceiveStop, ReceiveDrain, HandleEvent, PostStopOk, Cancel, SetStatus, LeaveLoop
  <2>3. CASE ApiCall \/ CallLinkCommit
    BY <2>3, StatusValues DEF ApiCall, Kill, Stop, StopChildren, DrainActor,
       DrainChildren,
       CallLink, CallUnlink, CallLinkCommit, Monitor, Unmonitor, SetStatus, LeaveLoop
  <2> QED
    BY <2>1, <2>2, <2>3 DEF Next
<1>2. ASSUME NEW b \in Actor, NEW x \in Status, status' = [status EXCEPT ![b] = Advance(@, x)]
      PROVE  status'[c] \in Status /\ status'[c] >= status[c]
  BY SMTT(60), <1>2, <1>t DEF Advance, Status
<1>3. ASSUME NEW A, DrainAll(A) PROVE status'[c] \in Status /\ status'[c] >= status[c]
  BY SMTT(60), <1>3, <1>t DEF DrainAll, Advance, Status, Draining
<1>4. CASE status' = status
  BY SMTT(60), <1>4, <1>t DEF Status
<1> QED
  BY <1>1, <1>2, <1>3, <1>4

\* The worklists change in terminate and where one begins.
Walks(a) == Pop(a) \/ KillPopped(a) \/ Take(a)

Begins(a) ==
  /\ phase[a] \notin Walking
  /\ pending' = [pending EXCEPT ![a] = {a}]
  /\ UNCHANGED <<popped, doomed, orphans, spared>>

LEMMA PendingChanges ==
  ASSUME Next
  PROVE  \/ \E a \in Actor : Walks(a) \/ Begins(a)
         \/ UNCHANGED <<pending, popped, doomed, orphans, spared>>
<1> DEFINE Changes == \/ \E b \in Actor : Walks(b) \/ Begins(b)
                      \/ UNCHANGED <<pending, popped, doomed, orphans, spared>>
<1> SUFFICES Changes
  OBVIOUS
<1>1. ASSUME NEW a \in Actor, Run(a) PROVE Changes
  BY <1>1 DEF Run, Walks, Begins, Start, AlreadyStarted, SpawnLinkCheck, SpawnLinkRefused,
     SpawnLinkCommit, ReceiveKill, Killed, KilledInLoop, ReturnKilled, CleanupBegin,
     CleanupTerminated, CleanupNotify, CleanupUnlink, CleanupEnd, walkVars, historyVars, Marked,
     Walking
<1>2. ASSUME NEW a \in Actor, Callback(a) PROVE Changes
  BY <1>2 DEF Callback, PreStartOk, PreStartFails, PostStartOk, CallbackFails, ReceiveStop,
     ReceiveDrain, HandleEvent, PostStopOk, Cancel, taskVars, walkVars, historyVars
<1>3. CASE ApiCall \/ CallLinkCommit
  BY <1>3 DEF ApiCall, Kill, Stop, StopChildren, DrainActor, DrainChildren, DrainAll, CallLink,
     CallUnlink, CallLinkCommit, Monitor, Unmonitor, taskVars, walkVars, historyVars
<1> QED
  BY <1>1, <1>2, <1>3 DEF Next

\* What can account for an orphan.  Visited is for good, Awaited ends with Pop or KillPopped.
Visited(c) == signal[c] # "unsent" \/ (c \in spared /\ status[c] >= Draining)
Awaited(c) == \E a \in Actor : c \in pending[a] \/ (popped[a] = c /\ doomed[a])

LEMMA VisitedStays ==
  ASSUME IInv, Next, NEW c \in Actor, Visited(c), spared \subseteq spared'
  PROVE  Visited(c)'
<1>1. CASE signal[c] # "unsent"
  BY <1>1, SignalStays DEF Visited
<1>2. CASE c \in spared /\ status[c] >= Draining
  <2>1. status[c] \in 0 .. 6 /\ status'[c] \in 0 .. 6 /\ status'[c] >= status[c]
    BY StatusGrows DEF IInv, TypeOK, Status
  <2>2. status'[c] >= Draining
    BY SMTT(60), <1>2, <2>1 DEF Draining
  <2> QED
    BY <1>2, <2>2 DEF Visited
<1> QED
  BY <1>1, <1>2 DEF Visited

LEMMA OrphanStep ==
  ASSUME IInv, Next
  PROVE  NoOrphanForgotten'
<1>t. /\ status \in [Actor -> Status] /\ signal \in [Actor -> Slot]
      /\ pending \in [Actor -> SUBSET Actor] /\ orphans \in SUBSET Actor
      /\ popped \in [Actor -> Actor \cup {None}] /\ doomed \in [Actor -> BOOLEAN]
      /\ Idle
  BY DEF IInv, TypeOK
<1>i. \A c \in orphans : Awaited(c) \/ Visited(c)
  BY DEF IInv, NoOrphanForgotten, Awaited, Visited
<1>g. SUFFICES \A c \in orphans' : Awaited(c)' \/ Visited(c)'
  BY DEF NoOrphanForgotten, Awaited, Visited
<1>1. ASSUME NEW a \in Actor, Pop(a) PROVE \A c \in orphans' : Awaited(c)' \/ Visited(c)'
  <2>1. PICK b \in pending[a] :
          /\ popped' = [popped EXCEPT ![a] = b]
          /\ pending' = [pending EXCEPT ![a] = @ \ {b}]
          /\ doomed' = [doomed EXCEPT ![a] = status[b] <= Upgrading]
          /\ spared' = IF status[b] <= Upgrading THEN spared ELSE spared \cup {b}
    BY <1>1 DEF Pop
  <2>2. b \in Actor /\ status[b] \in 0 .. 6 /\ status' = status /\ orphans' = orphans
    BY <1>1, <1>t DEF Pop, Status
  <2>3. Awaited(b)' \/ Visited(b)'
    <3>1. CASE status[b] <= Upgrading
      <4>1. popped'[a] = b /\ doomed'[a]
        BY <2>1, <3>1, <1>t
      <4> QED
        BY <4>1 DEF Awaited
    <3>2. CASE ~(status[b] <= Upgrading)
      <4>1. status'[b] >= Draining
        BY SMTT(60), <2>2, <3>2 DEF Upgrading, Draining
      <4>2. b \in spared'
        BY <2>1, <3>2
      <4> QED
        BY <4>1, <4>2 DEF Visited
    <3> QED
      BY <3>1, <3>2
  <2>4. \A c \in Actor \ {b} : Awaited(c) => Awaited(c)'
    <3> SUFFICES ASSUME NEW c \in Actor \ {b}, NEW d \in Actor,
                        c \in pending[d] \/ (popped[d] = c /\ doomed[d])
                 PROVE  c \in pending'[d] \/ (popped'[d] = c /\ doomed'[d])
      BY DEF Awaited
    <3>1. popped[a] = None
      BY <1>1 DEF Pop
    <3>2. CASE d = a
      BY <2>1, <3>1, <3>2, <1>t, NoneIsNoActor
    <3>3. CASE d # a
      BY <2>1, <3>3, <1>t
    <3> QED
      BY <3>2, <3>3
  <2>5. spared \subseteq spared'
    BY <2>1
  <2> QED
    BY <1>i, <1>t, <2>2, <2>3, <2>4, <2>5, VisitedStays
<1>2. ASSUME NEW a \in Actor, KillPopped(a) PROVE \A c \in orphans' : Awaited(c)' \/ Visited(c)'
  <2>1. popped[a] \in Actor
    BY <1>2, <1>t DEF KillPopped, Idle
  <2>2. /\ signal' = Send(signal, popped[a]) /\ doomed' = [doomed EXCEPT ![a] = FALSE]
        /\ UNCHANGED <<pending, popped, orphans, spared>>
    BY <1>2 DEF KillPopped, historyVars
  <2>3. Visited(popped[a])'
    <3>1. signal'[popped[a]] # "unsent"
      BY <2>1, <2>2, <1>t DEF Send
    <3> QED
      BY <2>2, <3>1 DEF Visited
  <2>4. \A c \in Actor : c # popped[a] /\ Awaited(c) => Awaited(c)'
    BY <2>2, <1>t DEF Awaited
  <2> QED
    BY <1>i, <1>t, <2>2, <2>3, <2>4, VisitedStays
<1>3. ASSUME NEW a \in Actor, Take(a) PROVE \A c \in orphans' : Awaited(c)' \/ Visited(c)'
  <2>1. /\ orphans' = orphans \cup children[popped[a]]
        /\ pending' = [pending EXCEPT ![a] = @ \cup children[popped[a]]]
        /\ popped' = [popped EXCEPT ![a] = None]
        /\ UNCHANGED <<doomed, spared>> /\ ~doomed[a] /\ popped[a] \in Actor
    BY <1>3, <1>t DEF Take, TakeChildren
  <2>2. \A c \in children[popped[a]] : Awaited(c)'
    BY <2>1, <1>t DEF Awaited
  <2>3. \A c \in Actor : Awaited(c) => Awaited(c)'
    <3> SUFFICES ASSUME NEW c \in Actor, NEW d \in Actor,
                        c \in pending[d] \/ (popped[d] = c /\ doomed[d])
                 PROVE  c \in pending'[d] \/ (popped'[d] = c /\ doomed'[d])
      BY DEF Awaited
    <3>1. CASE d = a
      BY <2>1, <3>1, <1>t
    <3>2. CASE d # a
      BY <2>1, <3>2, <1>t
    <3> QED
      BY <3>1, <3>2
  <2> QED
    BY <1>i, <1>t, <2>1, <2>2, <2>3, VisitedStays
<1>4. ASSUME NEW a \in Actor, Begins(a) PROVE \A c \in orphans' : Awaited(c)' \/ Visited(c)'
  <2>1. pending[a] = {}
    BY <1>4, <1>t DEF Begins, Idle
  <2>2. \A c \in Actor : Awaited(c) => Awaited(c)'
    BY <1>4, <2>1, <1>t DEF Begins, Awaited
  <2> QED
    BY <1>4, <1>i, <1>t, <2>2, VisitedStays DEF Begins
<1>5. CASE UNCHANGED <<pending, popped, doomed, orphans, spared>>
  <2>1. \A c \in Actor : Awaited(c) => Awaited(c)'
    BY <1>5 DEF Awaited
  <2> QED
    BY <1>5, <1>i, <1>t, <2>1, VisitedStays
<1> QED
  BY <1>1, <1>2, <1>3, <1>4, <1>5, PendingChanges DEF Walks

-----------------------------------------------------------------------------
\* The cleanup goes forward only.
LEMMA PhaseForward ==
  ASSUME IInv, Next, NEW b \in Actor
  PROVE  /\ phase[b] \in {"finish", "done"} => phase'[b] \in {"finish", "done"}
         /\ phase'[b] \in Told => phase[b] \in Told \/ CleanupNotify(b)
         /\ phase[b] \in Told => event'[b] = event[b]
<1> USE DEF Told, Marked, Unmarked, Walking
<1>t. phase \in [Actor -> Phase] /\ event \in [Actor -> {"none", "terminated", "failed"}]
  BY DEF IInv, TypeOK
<1>1. ASSUME NEW a \in Actor, Run(a), ~CleanupNotify(a)
      PROVE  /\ phase[b] \in {"finish", "done"} => phase'[b] \in {"finish", "done"}
             /\ phase'[b] \in Told => phase[b] \in Told
             /\ phase[b] \in Told => event'[b] = event[b]
  <2>1. CASE (\E t \in (Actor \ {a}) \cup {None} : Start(a, t)) \/ AlreadyStarted(a)
    BY <1>t, <2>1 DEF Start, AlreadyStarted, Leave, Goto
  <2>2. CASE SpawnLinkCheck(a) \/ SpawnLinkRefused(a) \/ SpawnLinkCommit(a)
    BY <1>t, <2>2 DEF SpawnLinkCheck, SpawnLinkRefused, SpawnLinkCommit, Goto
  <2>3. CASE ReceiveKill(a) \/ Pop(a) \/ KillPopped(a) \/ Take(a)
    BY <1>t, <2>3 DEF ReceiveKill, Pop, KillPopped, Take, Goto
  <2>4. CASE Killed(a) \/ KilledInLoop(a) \/ ReturnKilled(a)
    BY <1>t, <2>4 DEF Killed, KilledInLoop, ReturnKilled, Leave, Goto
  <2>5. CASE CleanupBegin(a) \/ CleanupTerminated(a) \/ CleanupUnlink(a) \/ CleanupEnd(a)
    BY <1>t, <2>5 DEF CleanupBegin, CleanupTerminated, CleanupUnlink, CleanupEnd, Goto
  <2> QED
    BY <1>1, <2>1, <2>2, <2>3, <2>4, <2>5 DEF Run
<1>2. ASSUME NEW a \in Actor, CleanupNotify(a)
      PROVE  /\ phase[b] \in {"finish", "done"} => phase'[b] \in {"finish", "done"}
             /\ phase'[b] \in Told => phase[b] \in Told \/ a = b
             /\ phase[b] \in Told => event'[b] = event[b]
  BY <1>t, <1>2 DEF CleanupNotify, Goto
<1>3. ASSUME NEW a \in Actor, Callback(a)
      PROVE  /\ phase[b] \in {"finish", "done"} => phase'[b] \in {"finish", "done"}
             /\ phase'[b] \in Told => phase[b] \in Told
             /\ phase[b] \in Told => event'[b] = event[b]
  <2>1. CASE PreStartOk(a) \/ PreStartFails(a) \/ PostStartOk(a) \/ CallbackFails(a)
    BY <1>t, <2>1 DEF PreStartOk, PreStartFails, PostStartOk, CallbackFails, Leave, Goto
  <2>2. CASE ReceiveStop(a) \/ ReceiveDrain(a) \/ HandleEvent(a)
    BY <1>t, <2>2 DEF ReceiveStop, ReceiveDrain, HandleEvent, LeaveLoop, Goto, taskVars, walkVars
  <2>3. CASE PostStopOk(a) \/ Cancel(a)
    BY <1>t, <2>3 DEF PostStopOk, Cancel, Leave, Goto
  <2> QED
    BY <1>3, <2>1, <2>2, <2>3 DEF Callback
<1>4. CASE ApiCall \/ CallLinkCommit
  BY <1>t, <1>4 DEF ApiCall, Kill, Stop, StopChildren, DrainActor, DrainChildren,
     DrainAll, CallLink,
     CallUnlink, Monitor, Unmonitor, CallLinkCommit, taskVars, walkVars
<1> QED
  BY <1>1, <1>2, <1>3, <1>4 DEF Next

LEMMA LinkCommitBoss ==
  ASSUME IInv, NEW c \in Actor, NEW p \in Actor, LinkCommit(c, p),
         phase[c] \notin {"finish", "done"},
         \A b \in Actor : phase[b] \in {"finish", "done"} => phase'[b] \in {"finish", "done"}
  PROVE  BossSupervises'
<1>t. /\ supervisor \in [Actor -> Actor \cup {None}] /\ boss \in [Actor -> Actor \cup {None}]
      /\ closed \in [Actor -> BOOLEAN] /\ BossSupervises
  BY DEF IInv, TypeOK
<1>1. CASE closed[p]
  <2>1. supervisor' = supervisor /\ closed' = closed /\ boss' = boss
    BY <1>1 DEF LinkCommit, treeVars
  <2> QED
    BY <1>t, <2>1 DEF BossSupervises
<1>2. CASE ~closed[p]
  <2>1. MoveChild(c, p) /\ boss' = [boss EXCEPT ![c] = p]
    BY <1>2 DEF LinkCommit
  <2>2. supervisor' = [supervisor EXCEPT ![c] = p] /\ closed' = closed
    BY <2>1 DEF MoveChild
  <2> QED
    BY <1>t, <2>1, <2>2 DEF BossSupervises
<1> QED
  BY <1>1, <1>2

LEMMA BossStep ==
  ASSUME IInv, Next
  PROVE  BossSupervises'
<1>t. /\ supervisor \in [Actor -> Actor \cup {None}] /\ boss \in [Actor -> Actor \cup {None}]
      /\ closed \in [Actor -> BOOLEAN] /\ BossSupervises
  BY DEF IInv, TypeOK
<1>1. \A b \in Actor : phase[b] \in {"finish", "done"} => phase'[b] \in {"finish", "done"}
  BY PhaseForward
<1>2. ASSUME NEW a \in Actor, SpawnLinkCommit(a) PROVE BossSupervises'
  BY <1>1, <1>2, LinkCommitBoss DEF IInv, SpawnLinkCommit, HasWanted
<1>3. ASSUME NEW a \in Actor, Take(a) PROVE BossSupervises'
  <2>1. boss' = boss /\ TakeChildren(popped[a]) /\ popped[a] \in Actor
    BY <1>3 DEF Take, IInv, TypeOK
  <2>2. \A c \in Actor : supervisor'[c] = supervisor[c] \/ closed'[supervisor[c]]
    BY <1>t, <2>1 DEF IInv, TreeConsistent, TakeChildren
  <2>3. \A p \in Actor : closed[p] => closed'[p]
    BY ClosedStays
  <2>4. ASSUME NEW c \in Actor, NEW p \in Actor, boss[c] = p, phase'[c] \notin {"finish", "done"}
        PROVE  supervisor'[c] = p \/ closed'[p]
    <3>1. supervisor[c] = p \/ closed[p]
      BY <1>t, <1>1, <2>4 DEF BossSupervises
    <3> QED
      BY <2>2, <2>3, <3>1
  <2> QED
    BY <2>1, <2>4 DEF BossSupervises
<1>4. ASSUME NEW a \in Actor, CleanupUnlink(a) PROVE BossSupervises'
  <2>1. boss' = boss /\ phase'[a] = "finish" /\ closed' = closed
    BY <1>4 DEF IInv, TypeOK, CleanupUnlink, Unlink, Goto, treeVars, historyVars
  <2>2. \A c \in Actor \ {a} : supervisor'[c] = supervisor[c]
    BY <1>t, <1>4 DEF CleanupUnlink, Unlink, treeVars
  <2> QED
    BY <1>t, <1>1, <2>1, <2>2 DEF BossSupervises
<1>5. ASSUME NEW c \in Actor, NEW p \in Actor, CallUnlink(c, p) PROVE BossSupervises'
  <2>1. /\ boss' = [boss EXCEPT ![c] = IF @ = p THEN None ELSE @]
        /\ closed' = closed
        /\ \A b \in Actor : supervisor'[b] = supervisor[b] \/ (b = c /\ supervisor[b] = p)
    BY <1>t, <1>5 DEF CallUnlink, Unlink, treeVars
  <2> QED
    BY <1>t, <1>1, <2>1, NoneIsNoActor DEF BossSupervises
<1>6. CASE CallLinkCommit
  <2>1. lock.child \in Actor /\ lock.sup \in Actor /\ phase[lock.child] \notin {"finish", "done"}
    BY <1>6 DEF IInv, TypeOK, CallLinkCommit, ShutAfterTake, Shut, Past, Told, Link
  <2> QED
    BY <1>1, <1>6, <2>1, LinkCommitBoss DEF CallLinkCommit
<1>7. CASE UNCHANGED <<treeVars, boss>>
  BY <1>t, <1>1, <1>7 DEF BossSupervises, treeVars
<1>8. \/ \E a \in Actor : SpawnLinkCommit(a) \/ Take(a) \/ CleanupUnlink(a)
      \/ \E c, p \in Actor : CallUnlink(c, p)
      \/ CallLinkCommit
      \/ UNCHANGED boss
  BY DEF Next, Run, Callback, ApiCall, historyVars, Start, AlreadyStarted, PreStartOk,
     PreStartFails, SpawnLinkCheck, SpawnLinkRefused,
         PostStartOk, CallbackFails, ReceiveStop, ReceiveDrain, HandleEvent, PostStopOk,
            ReceiveKill,
         Cancel, Pop, KillPopped, Killed, KilledInLoop, ReturnKilled, CleanupBegin,
         CleanupTerminated, CleanupNotify, CleanupEnd,
         Kill, Stop, StopChildren, DrainActor, DrainChildren, DrainAll, CallLink, Monitor,
            Unmonitor
<1> QED
  BY <1>2, <1>3, <1>4, <1>5, <1>6, <1>7, <1>8, TreeChanges

\* What is past is not undone: closed ports, events delivered, the supervisor of a shut actor.
LEMMA HistoryStays ==
  ASSUME IInv, Next
  PROVE  /\ heard \subseteq heard'
         /\ \A p \in Actor : ~rxOpen[p] => ~rxOpen'[p]
         /\ \A a \in Actor : phase[a] \in Told => boss'[a] \in {boss[a], None}
<1>t. boss \in [Actor -> Actor \cup {None}] /\ HasWanted /\ ShutAfterTake
  BY DEF IInv, TypeOK
<1>1. heard \subseteq heard'
  <2>1. ASSUME NEW a \in Actor, Run(a) PROVE heard \subseteq heard'
    BY <2>1 DEF Run, Start, AlreadyStarted, SpawnLinkCheck, SpawnLinkRefused,
       SpawnLinkCommit,
       ReceiveKill, Pop, Take, KillPopped, Killed, KilledInLoop, ReturnKilled, CleanupBegin,
       CleanupTerminated, CleanupNotify,
       CleanupUnlink, CleanupEnd, historyVars
  <2>2. ASSUME NEW a \in Actor, Callback(a) PROVE heard \subseteq heard'
    BY <2>2 DEF Callback, PreStartOk, PreStartFails, PostStartOk, CallbackFails,
       ReceiveStop,
       ReceiveDrain, HandleEvent, PostStopOk, Cancel, historyVars
  <2>3. CASE ApiCall \/ CallLinkCommit
    BY <2>3 DEF ApiCall, Kill, Stop, StopChildren, DrainActor, DrainChildren,
       DrainAll,
       CallLink, CallUnlink, CallLinkCommit, Monitor, Unmonitor, historyVars
  <2> QED
    BY <2>1, <2>2, <2>3 DEF Next
<1>2. ASSUME NEW p \in Actor, ~rxOpen[p] PROVE ~rxOpen'[p]
  <2>t. rxOpen \in [Actor -> BOOLEAN]
    BY DEF IInv, TypeOK
  <2>1. ASSUME NEW a \in Actor, Run(a) PROVE ~rxOpen'[p]
    BY <2>1, <1>2, <2>t DEF Run, Start, AlreadyStarted, SpawnLinkCheck,
       SpawnLinkRefused,
       SpawnLinkCommit, ReceiveKill, Pop, Take, KillPopped, Killed, KilledInLoop, ReturnKilled,
       CleanupBegin, CleanupTerminated,
       CleanupNotify, CleanupUnlink, CleanupEnd, Leave, portVars
  <2>2. ASSUME NEW a \in Actor, Callback(a) PROVE ~rxOpen'[p]
    BY <2>2, <1>2, <2>t DEF Callback, PreStartOk, PreStartFails, PostStartOk,
       CallbackFails,
       ReceiveStop, ReceiveDrain, HandleEvent, PostStopOk, Cancel, Leave, portVars
  <2>3. CASE ApiCall \/ CallLinkCommit
    BY <2>3, <1>2, <2>t DEF ApiCall, Kill, Stop, StopChildren, DrainActor,
       DrainChildren,
       DrainAll, CallLink, CallUnlink, CallLinkCommit, Monitor, Unmonitor, Leave, portVars
  <2> QED
    BY <2>1, <2>2, <2>3 DEF Next
<1>3. ASSUME NEW a \in Actor, phase[a] \in Told PROVE boss'[a] \in {boss[a], None}
  <2>1. ASSUME NEW c \in Actor, SpawnLinkCommit(c) PROVE boss'[a] = boss[a]
    <3>1. c # a
      BY <1>3, <2>1 DEF SpawnLinkCommit, Told
    <3> QED
      BY <1>t, <2>1, <3>1 DEF SpawnLinkCommit, LinkCommit
  <2>2. CASE CallLinkCommit
    <3>1. lock # None /\ lock.child # a
      BY <1>t, <1>3, <2>2 DEF CallLinkCommit, ShutAfterTake, Shut, Past
    <3> QED
      BY <1>t, <2>2, <3>1 DEF CallLinkCommit, LinkCommit
  <2>3. ASSUME NEW c \in Actor, NEW p \in Actor, CallUnlink(c, p)
        PROVE  boss'[a] \in {boss[a], None}
    BY <1>t, <2>3 DEF CallUnlink
  <2> DEFINE Changes == \/ \E c \in Actor : SpawnLinkCommit(c)
                        \/ \E c, p \in Actor : CallUnlink(c, p)
                        \/ CallLinkCommit
                        \/ UNCHANGED boss
  <2>4. Changes
    <3>1. ASSUME NEW b \in Actor, Run(b) PROVE Changes
      BY <3>1 DEF Run, Start, AlreadyStarted, SpawnLinkCheck, SpawnLinkRefused,
         ReceiveKill,
         Pop, Take, KillPopped, Killed, KilledInLoop, ReturnKilled, CleanupBegin,
         CleanupTerminated, CleanupNotify, CleanupUnlink,
         CleanupEnd, historyVars
    <3>2. ASSUME NEW b \in Actor, Callback(b) PROVE Changes
      BY <3>2 DEF Callback, PreStartOk, PreStartFails, PostStartOk, CallbackFails, ReceiveStop,
         ReceiveDrain, HandleEvent, PostStopOk, Cancel, historyVars
    <3>3. CASE ApiCall \/ CallLinkCommit
      BY <3>3 DEF ApiCall, Kill, Stop, StopChildren, DrainActor, DrainChildren,
         DrainAll,
         CallLink, Monitor, Unmonitor, historyVars
    <3> QED
      BY <3>1, <3>2, <3>3 DEF Next
  <2> QED
    BY <2>1, <2>2, <2>3, <2>4
<1> QED
  BY <1>1, <1>2, <1>3

LEMMA HeardStep ==
  ASSUME IInv, Next
  PROVE  BossHeard'
<1>t. /\ phase \in [Actor -> Phase] /\ event \in [Actor -> {"none", "terminated", "failed"}]
      /\ boss \in [Actor -> Actor \cup {None}] /\ BossSupervises /\ BossHeard
  BY DEF IInv, TypeOK
<1> SUFFICES ASSUME NEW a \in Actor, NEW p \in Actor,
                    phase'[a] \in Told, event'[a] # "none", boss'[a] = p
             PROVE  <<a, p>> \in heard' \/ closed'[p] \/ ~rxOpen'[p]
  BY DEF BossHeard, Told
<1>1. CASE phase[a] \in Told
  <2>1. boss[a] = p /\ event[a] # "none"
    BY <1>1, HistoryStays, PhaseForward, NoneIsNoActor
  <2>2. <<a, p>> \in heard \/ closed[p] \/ ~rxOpen[p]
    BY <1>t, <1>1, <2>1 DEF BossHeard
  <2> QED
    BY <2>2, HistoryStays, ClosedStays
<1>2. CASE phase[a] \notin Told
  <2>1. CleanupNotify(a)
    BY <1>2, PhaseForward
  <2>2. /\ boss[a] = p /\ event[a] # "none" /\ phase[a] = "notify"
        /\ rxOpen' = rxOpen /\ closed' = closed
    BY <1>t, <2>1 DEF CleanupNotify, Goto, treeVars
  <2>3. supervisor[a] = p \/ closed[p]
    BY <1>t, <2>2 DEF BossSupervises
  <2>4. heard' = heard \cup {<<a, b>> : b \in Targets(a) \cap {supervisor[a]}}
    BY <2>1, <2>2 DEF CleanupNotify
  <2>5. supervisor[a] = p /\ rxOpen[p] => p \in Targets(a)
    BY DEF Targets
  <2> QED
    BY <2>2, <2>3, <2>4, <2>5
<1> QED
  BY <1>1, <1>2

-----------------------------------------------------------------------------
LEMMA InitIInv == Init => IInv
<1> SUFFICES ASSUME Init PROVE IInv
  OBVIOUS
<1> USE NoneIsNoActor, MaxCallsIsNat DEF Init
<1>1. TypeOK
  <2>1. status \in [Actor -> Status] /\ lock \in Link \cup {None} /\ calls \in 0 .. MaxCalls
    BY SMTT(60), StatusValues
  <2>5. signal \in [Actor -> Slot] /\ stop \in [Actor -> Slot]
    BY DEF Slot
  <2>6. phase \in [Actor -> Phase]
    BY DEF Phase, Unmarked
  <2>2. /\ children \in [Actor -> SUBSET Actor] /\ monitors \in [Actor -> SUBSET Actor]
        /\ pending \in [Actor -> SUBSET Actor] /\ orphans \in SUBSET Actor /\ spared \in SUBSET Actor
        /\ heard \in SUBSET (Actor \X Actor)
    OBVIOUS
  <2>3. /\ supervisor \in [Actor -> Actor \cup {None}] /\ wanted \in [Actor -> Actor \cup {None}]
        /\ popped \in [Actor -> Actor \cup {None}] /\ boss \in [Actor -> Actor \cup {None}]
    OBVIOUS
  <2>4. /\ closed \in [Actor -> BOOLEAN] /\ rxOpen \in [Actor -> BOOLEAN]
        /\ doomed \in [Actor -> BOOLEAN]
        /\ event \in [Actor -> {"none", "terminated", "failed"}] /\ inbox \in [Actor -> Seq(Event)]
    BY SMTT(60)
  <2> QED
    BY ONLY <2>1, <2>2, <2>3, <2>4, <2>5, <2>6 DEF TypeOK
<1>2. TreeConsistent /\ ClosedEmpty
  BY DEF TreeConsistent, ClosedEmpty
<1>3. Idle /\ HasWanted
  BY DEF Idle, HasWanted
<1>5. Published
  BY SMTT(60) DEF Published, Past, Told, Unstarted, Stopped
<1>6. ShutAfterTake
  BY DEF ShutAfterTake, Past, Told
<1>4. NoOrphanForgotten /\ BossSupervises /\ BossHeard
  BY DEF NoOrphanForgotten, BossSupervises, BossHeard
<1> QED
  BY <1>1, <1>2, <1>3, <1>4, <1>5, <1>6 DEF IInv

LEMMA NextIInv == IInv /\ [Next]_vars => IInv'
<1> SUFFICES ASSUME IInv, [Next]_vars PROVE IInv'
  OBVIOUS
<1>1. CASE Next
  <2>1. TypeOK'
    BY <1>1, TaskTypes, CallTypes DEF Next, IInv
  <2> QED
    BY <1>1, <2>1, TreeStep, WantedStep, IdleStep, PublishedStep, ShutStep, OrphanStep, BossStep,
       HeardStep DEF IInv
<1>2. CASE UNCHANGED vars
  BY <1>2 DEF vars, treeVars, portVars, taskVars, walkVars, historyVars, IInv, TypeOK,
     TreeConsistent,
     ClosedEmpty, Idle, Published, ShutAfterTake, Shut, HasWanted, NoOrphanForgotten,
     BossSupervises, BossHeard
<1> QED
  BY <1>1, <1>2

LEMMA IInvImplies == IInv => StoppedDetached /\ SupervisorHears
<1> SUFFICES ASSUME IInv PROVE StoppedDetached /\ SupervisorHears
  OBVIOUS
<1>1. \A a \in Actor : status[a] = Stopped => phase[a] = "done"
  BY DEF IInv, Published
<1>2. StoppedDetached
  BY <1>1 DEF IInv, ShutAfterTake, Shut, Past, Told, ClosedEmpty, StoppedDetached
<1>3. SupervisorHears
  BY <1>1 DEF IInv, BossHeard, Told, SupervisorHears
<1> QED
  BY <1>2, <1>3

LEMMA Invariance == Safety => []IInv
  BY InitIInv, NextIInv, PTL DEF Safety

(***************************************************************************)
(* Every variable of the actors and of the tree keeps its type.            *)
(***************************************************************************)
THEOREM LifecycleTypes == Safety => []TypeOK
<1>1. IInv => TypeOK
  BY DEF IInv
<1> QED
  BY <1>1, Invariance, PTL

(***************************************************************************)
(* The child sets and the supervisors agree in every reachable state, for  *)
(* any number of actors, links and unlinks.                                *)
(***************************************************************************)
THEOREM TreeIsConsistent == Safety => []TreeConsistent
<1>1. IInv => TreeConsistent
  BY DEF IInv
<1> QED
  BY <1>1, Invariance, PTL

(***************************************************************************)
(* An actor whose status is Stopped has no supervisor and no children: no  *)
(* link wins a race with the cleanup.                                      *)
(***************************************************************************)
THEOREM StoppedIsDetached == Safety => []StoppedDetached
  BY IInvImplies, Invariance, PTL

(***************************************************************************)
(* terminate forgets no child it detached, for any tree and any number of  *)
(* terminates at once: the child is on a worklist or about to be killed,   *)
(* was sent a kill, or was draining or ending when its turn came.          *)
(***************************************************************************)
THEOREM OrphansAreVisited == Safety => []NoOrphanForgotten
<1>1. IInv => NoOrphanForgotten
  BY DEF IInv
<1> QED
  BY <1>1, Invariance, PTL

(***************************************************************************)
(* The supervisor of an actor that ran and ended was told, or was ending.  *)
(***************************************************************************)
THEOREM SupervisorsHear == Safety => []SupervisorHears
  BY IInvImplies, Invariance, PTL
=============================================================================
