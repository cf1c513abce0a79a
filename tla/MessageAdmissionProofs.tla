----------------------- MODULE MessageAdmissionProofs -----------------------
(***************************************************************************)
(* Proofs about MessageAdmission for any set of messages and any finite    *)
(* set of threads: drain() loses no accepted message, rejects late sends,  *)
(* never forgets the marker, and the port implements DrainingMailbox.      *)
(***************************************************************************)
EXTENDS MessageAdmission, FiniteSetTheorems, SequenceTheorems, TLAPS

USE ZenonT(60)

(***************************************************************************)
(* The inductive invariant.                                                *)
(*                                                                         *)
(* Hands: a thread that sends has a message in hand, which no other thread *)
(* has and which is not among the unsent ones.  It is not accepted before  *)
(* it is admitted, and a late one is not admitted.                         *)
(***************************************************************************)
Hands ==
  /\ \A t \in Thread : pc[t] \in SendPc => inHand[t] \in Msg
  /\ \A t \in Thread : inHand[t] \notin unsent
  /\ \A s, t \in Thread :
       s # t /\ pc[s] \in SendPc /\ pc[t] \in SendPc => inHand[s] # inHand[t]
  /\ \A t \in Thread : pc[t] = "admit" => inHand[t] \notin accepted
  /\ \A t \in Thread : pc[t] = "enqueue" => inHand[t] \notin late
  /\ late # {} => admission.closed
  /\ unsent \cap accepted = {}

(***************************************************************************)
(* Sealed: the marker is claimed only when the port is closed and empty of *)
(* admitted sends, and it stays so.                                        *)
(***************************************************************************)
Sealed == admission.marker => admission.closed /\ admission.count = 0

(***************************************************************************)
(* OneMarker: after the claim the marker is in one place only: with the    *)
(* thread that will push it, at the end of the queue, or taken.            *)
(***************************************************************************)
Pushing == {t \in Thread : pc[t] = "push_marker"}

Queued(m) == \E i \in 1 .. Len(mailbox) : mailbox[i] = m

OneMarker ==
  /\ \A t \in Pushing : admission.marker /\ ~Queued(Drain) /\ exit # "drained"
  /\ \A s, t \in Pushing : s = t
  /\ Queued(Drain) => admission.marker /\ exit # "drained"
  /\ \A i \in 1 .. Len(mailbox) : mailbox[i] = Drain => i = Len(mailbox)
  /\ exit = "drained" => admission.marker

(***************************************************************************)
(* Kept: until the actor's task leaves its loop the port is open and every *)
(* accepted message is queued, worked on, handled or discarded.            *)
(***************************************************************************)
Alive == {"cell", "pre_start", "post_start", "loop"}

Kept ==
  /\ exit = "none" <=> phase \in Alive
  /\ exit = "none" => rxOpen
  /\ exit = "none" => \A m \in accepted :
       m \in handled \cup discarded \/ m = current \/ Queued(m)
  /\ current # None => phase = "loop"

IInv ==
  /\ TypeOK
  /\ CountIsAdmitted
  /\ MarkerNotForgotten
  /\ LateSendsRejected
  /\ DrainLosesNothing
  /\ Hands
  /\ Sealed
  /\ OneMarker
  /\ Kept
-----------------------------------------------------------------------------
(***************************************************************************)
(* The status never leaves its range, and never moves back.                *)
(***************************************************************************)
LEMMA AdvanceType ==
  ASSUME NEW a \in Status, NEW b \in Status
  PROVE  Advance(a, b) \in Status /\ Advance(a, b) >= a /\ Advance(a, b) >= b
  BY SMTT(60) DEF Advance, Status

LEMMA StatusConstants ==
  /\ Starting \in Status /\ Running \in Status /\ Draining \in Status
  /\ Stopping \in Status /\ Stopped \in Status /\ Unstarted \in Status
  BY SMTT(60) DEF Status, Starting, Running, Draining, Stopping, Stopped, Unstarted

(***************************************************************************)
(* Type correctness.  The count stays a natural number only because it is  *)
(* the number of admitted sends, so the two are proved together.           *)
(***************************************************************************)
LEMMA AdmittedIsFinite == IsFiniteSet(Admitted)
  BY ThreadIsFinite, FS_Subset DEF Admitted

LEMMA AdmittedGrows ==
  ASSUME TypeOK, CountIsAdmitted,
         NEW t \in Thread, pc[t] = "admit",
         pc' = [pc EXCEPT ![t] = "enqueue"],
         admission' = [admission EXCEPT !.count = @ + 1]
  PROVE  CountIsAdmitted'
<1>1. Admitted' = Admitted \cup {t} /\ t \notin Admitted
  BY DEF Admitted, TypeOK
<1>2. Cardinality(Admitted') = Cardinality(Admitted) + 1
  BY <1>1, AdmittedIsFinite, FS_AddElement
<1>. QED  BY <1>2 DEF CountIsAdmitted, TypeOK

LEMMA AdmittedShrinks ==
  ASSUME TypeOK, CountIsAdmitted,
         NEW t \in Thread, pc[t] = "release",
         NEW place \in {"marker", "idle"},
         pc' = [pc EXCEPT ![t] = place],
         admission' = [admission EXCEPT !.count = @ - 1]
  PROVE  CountIsAdmitted' /\ admission.count > 0
<1>1. Admitted' = Admitted \ {t} /\ t \in Admitted
  BY DEF Admitted, TypeOK
<1>2. Cardinality(Admitted') = Cardinality(Admitted) - 1
  BY <1>1, AdmittedIsFinite, FS_RemoveElement
<1>3. Cardinality(Admitted) > 0
  BY SMTT(60), <1>1, AdmittedIsFinite, FS_EmptySet, FS_CardinalityType
<1>. QED  BY <1>2, <1>3 DEF CountIsAdmitted, TypeOK

LEMMA AdmittedStays ==
  ASSUME TypeOK, CountIsAdmitted,
         \A t \in Thread : pc'[t] \in {"enqueue", "release"} <=> pc[t] \in {"enqueue", "release"},
         admission'.count = admission.count
  PROVE  CountIsAdmitted'
<1>1. Admitted' = Admitted
  BY DEF Admitted
<1>. QED  BY <1>1 DEF CountIsAdmitted

\* Closing the port and claiming the marker each set one bit of the admission word.
LEMMA BitsSet ==
  ASSUME TypeOK, NEW t \in Thread, CloseAdmission(t) \/ ClaimMarker(t)
  PROVE  admission' \in [closed : BOOLEAN, marker : BOOLEAN, count : Nat]
<1>1. admission \in [closed : BOOLEAN, marker : BOOLEAN, count : Nat]
  BY DEF TypeOK
<1>2. \/ admission' = admission
      \/ admission' = [admission EXCEPT !.closed = TRUE]
      \/ admission' = [admission EXCEPT !.marker = TRUE]
  BY DEF CloseAdmission, ClaimMarker
<1>. QED  BY <1>1, <1>2

TypeInv == TypeOK /\ CountIsAdmitted /\ (\A t \in Thread : pc[t] \in SendPc => inHand[t] \in Msg)

LEMMA TypeInvInductive == TypeInv /\ [Next]_vars => TypeInv'
<1>. SUFFICES ASSUME TypeInv, [Next]_vars PROVE TypeInv'
  OBVIOUS
<1>. USE AdvanceType, StatusConstants, MarkerIsNoMessage
         DEF TypeInv, TypeOK, Pc, SendPc, DrainPc, Phase, Exit, Goto, senderVars, actorVars,
         channelVars
<1>1. ASSUME NEW t \in Thread, NEW m \in Msg, BeginSend(t, m) PROVE TypeInv'
  BY SMTT(60), <1>1, AdmittedStays DEF BeginSend
<1>2. ASSUME NEW t \in Thread, TryAdmit(t) PROVE TypeInv'
  <2>1. CASE admission.closed
    <3>1. CountIsAdmitted'
      BY <1>2, <2>1, AdmittedStays DEF CanAdmit, TryAdmit
    <3>. QED  BY <1>2, <2>1, <3>1 DEF CanAdmit, TryAdmit
  <2>2. CASE ~admission.closed
    <3>1. CountIsAdmitted'
      BY <1>2, <2>2, AdmittedGrows DEF CanAdmit, TryAdmit
    <3>2. admission' \in [closed : BOOLEAN, marker : BOOLEAN, count : Nat]
      BY SMTT(60), <1>2, <2>2 DEF CanAdmit, TryAdmit
    <3>3. pc' = [pc EXCEPT ![t] = "enqueue"] /\ inHand' = inHand /\ inHand[t] \in Msg
      BY <1>2, <2>2 DEF CanAdmit, TryAdmit
    <3>. QED  BY <1>2, <3>1, <3>2, <3>3 DEF CanAdmit, TryAdmit
  <2>. QED  BY <2>1, <2>2
<1>3. ASSUME NEW t \in Thread, Enqueue(t) PROVE TypeInv'
  <2>1. CountIsAdmitted'
    BY <1>3, AdmittedStays DEF Enqueue
  <2>2. inHand[t] \in Msg
    BY <1>3 DEF Enqueue
  <2>3. mailbox' \in Seq(Msg \cup {Drain}) /\ accepted' \in SUBSET Msg
    <3>1. Append(mailbox, inHand[t]) \in Seq(Msg \cup {Drain})
      BY <2>2, AppendProperties
    <3>. QED  BY <1>3, <2>2, <3>1 DEF Enqueue
  <2>. QED  BY <1>3, <2>1, <2>3 DEF Enqueue
<1>4. ASSUME NEW t \in Thread, BoxFails(t) PROVE TypeInv'
  <2>1. CountIsAdmitted'
    BY <1>4, AdmittedStays DEF BoxFails
  <2>. QED  BY SMTT(60), <1>4, <2>1 DEF BoxFails
<1>5. ASSUME NEW t \in Thread, Release(t) PROVE TypeInv'
  <2>. DEFINE place == IF OwesMarker THEN "marker" ELSE "idle"
  <2>1. place \in {"marker", "idle"} /\ pc' = [pc EXCEPT ![t] = place]
    BY <1>5 DEF OwesMarker, Release
  <2>. HIDE DEF place
  <2>2. CountIsAdmitted' /\ admission.count > 0
    BY <1>5, <2>1, AdmittedShrinks DEF OwesMarker, Release
  <2>. QED  BY SMTT(60), <1>5, <2>1, <2>2 DEF OwesMarker, Release
<1>6. ASSUME NEW t \in Thread, CloseAdmission(t) PROVE TypeInv'
  <2>1. CountIsAdmitted'
    BY <1>6, AdmittedStays DEF CloseAdmission
  <2>2. admission' \in [closed : BOOLEAN, marker : BOOLEAN, count : Nat]
    BY <1>6, BitsSet
  <2>3. pc' \in [Thread -> Pc] /\ \A u \in Thread : pc'[u] \in SendPc => pc[u] \in SendPc
    BY <1>6 DEF CloseAdmission
  <2>4. Unadmitted \subseteq Msg
    <3>1. unsent \subseteq Msg /\ \A u \in Thread : pc[u] = "admit" => inHand[u] \in Msg
      OBVIOUS
    <3>. QED  BY ONLY <3>1 DEF Unadmitted
  <2>5. late' \in SUBSET Msg
    BY <1>6, <2>4 DEF CloseAdmission
  <2>. QED  BY <1>6, <2>1, <2>2, <2>3, <2>5 DEF CloseAdmission
<1>7. ASSUME NEW t \in Thread, PublishDraining(t) PROVE TypeInv'
  <2>1. CountIsAdmitted'
    BY <1>7, AdmittedStays DEF PublishDraining
  <2>. QED  BY SMTT(60), <1>7, <2>1 DEF PublishDraining
<1>8. ASSUME NEW t \in Thread, ClaimMarker(t) PROVE TypeInv'
  <2>1. CountIsAdmitted'
    BY <1>8, AdmittedStays DEF ClaimMarker
  <2>2. admission' \in [closed : BOOLEAN, marker : BOOLEAN, count : Nat]
    BY <1>8, BitsSet
  <2>3. pc' \in [Thread -> Pc] /\ \A u \in Thread : pc'[u] \in SendPc => pc[u] \in SendPc
    BY <1>8 DEF ClaimMarker
  <2>. QED  BY <1>8, <2>1, <2>2, <2>3 DEF ClaimMarker
<1>9. ASSUME NEW t \in Thread, PushMarker(t) PROVE TypeInv'
  <2>1. CountIsAdmitted'
    BY <1>9, AdmittedStays DEF PushMarker
  <2>. QED  BY SMTT(60), <1>9, <2>1 DEF PushMarker
<1>10. CASE Start \/ PreStartOk \/ PreStartFails \/ PostStartOk \/ PostStartFails
  BY SMTT(60), <1>10, AdmittedStays DEF Start, PreStartOk, PreStartFails, PostStartOk,
     PostStartFails, AbortStart
<1>11. CASE Receive \/ ReceiveDrain
  <2>1. CountIsAdmitted' /\ UNCHANGED <<pc, inHand>>
    BY <1>11, AdmittedStays DEF Receive, ReceiveDrain, Leave
  <2>2. Head(mailbox) \in Msg \cup {Drain} /\ Tail(mailbox) \in Seq(Msg \cup {Drain})
    BY <1>11, HeadTailProperties DEF Receive, ReceiveDrain
  <2>3. TypeOK'
    <3>1. CASE Receive
      BY <3>1, <2>2 DEF Receive
    <3>2. CASE ReceiveDrain
      BY <3>2, <2>2 DEF ReceiveDrain, Leave
    <3>. QED  BY <1>11, <3>1, <3>2
  <2>. QED  BY <2>1, <2>3
<1>12. CASE HandleOk \/ HandleDiscards \/ HandleFails \/ ReceiveStop \/ Kill \/ Cancel
  <2>1. CountIsAdmitted' /\ UNCHANGED <<pc, inHand>>
    BY <1>12, AdmittedStays DEF HandleOk, HandleDiscards, HandleFails, ReceiveStop, Kill, Cancel
  <2>2. TypeOK'
    <3>1. CASE HandleOk
      BY <3>1 DEF HandleOk
    <3>2. CASE HandleDiscards
      BY <3>2 DEF HandleDiscards
    <3>3. CASE HandleFails
      BY <3>3 DEF HandleFails
    <3>4. CASE ReceiveStop \/ Kill \/ Cancel
      <4>1. /\ status \in Status
            /\ status' \in {status, Advance(status, Stopping), Advance(status, Stopped)}
        BY <3>4 DEF ReceiveStop, Kill, Cancel, Leave, AbortStart
      <4>2. status' \in Status
        BY ONLY <4>1, AdvanceType, StatusConstants
      <4>3. /\ exit' \in {"stopped", "killed", "cancelled"}
            /\ phase' \in {"post_stop", "drop_ports"} /\ current' = None
        BY <3>4 DEF ReceiveStop, Kill, Cancel, Leave, AbortStart
      <4>4. UNCHANGED <<admission, pc, inHand, unsent, late, supervised, handled, discarded,
                        mailbox, rxOpen, accepted>>
        BY <3>4 DEF ReceiveStop, Kill, Cancel
      <4>. QED  BY <4>2, <4>3, <4>4
    <3>. QED  BY <1>12, <3>1, <3>2, <3>3, <3>4
  <2>. QED  BY <2>1, <2>2
<1>13. CASE PostStop \/ DropPorts \/ Cleanup
  <2>1. CountIsAdmitted' /\ UNCHANGED <<pc, inHand>>
    BY <1>13, AdmittedStays DEF PostStop, DropPorts, Cleanup
  <2>2. <<>> \in Seq(Msg \cup {Drain})
    BY SMTT(60)
  <2>3. TypeOK'
    <3>1. CASE PostStop
      BY <3>1 DEF PostStop
    <3>2. CASE DropPorts
      BY <3>2, <2>2 DEF DropPorts
    <3>3. CASE Cleanup
      BY <3>3 DEF Cleanup
    <3>. QED  BY <1>13, <3>1, <3>2, <3>3
  <2>. QED  BY <2>1, <2>3
<1>14. CASE UNCHANGED vars
  BY SMTT(60), <1>14, AdmittedStays DEF vars
<1>. QED
  BY <1>1, <1>2, <1>3, <1>4, <1>5, <1>6, <1>7, <1>8, <1>9, <1>10, <1>11, <1>12, <1>13, <1>14
  DEF Next, ThreadStep, ThreadCall, TaskStep

(***************************************************************************)
(* Every variable of the model keeps its type.                             *)
(***************************************************************************)
THEOREM TypeCorrect == Safety => []TypeOK
<1>1. Init => TypeInv
  <2>. SUFFICES ASSUME Init PROVE TypeInv
    OBVIOUS
  <2>1. Admitted = {}
    BY DEF Init, Admitted
  <2>2. CountIsAdmitted
    BY <2>1, FS_EmptySet DEF Init, CountIsAdmitted
  <2>3. TypeOK
    BY SMTT(60), MarkerIsNoMessage, StatusConstants DEF Init, TypeOK, Pc, Phase, Exit
  <2>. QED  BY <2>2, <2>3 DEF TypeInv, Init, SendPc
<1>2. TypeInv => TypeOK
  BY DEF TypeInv
<1>. QED  BY <1>1, <1>2, TypeInvInductive, PTL DEF Safety

-----------------------------------------------------------------------------
(***************************************************************************)
(* What the channel's operations do to the set of queued elements.         *)
(***************************************************************************)
LEMMA QueuedAppend ==
  ASSUME TypeOK, NEW x \in Msg \cup {Drain}, mailbox' = Append(mailbox, x)
  PROVE  /\ \A m : Queued(m)' <=> Queued(m) \/ m = x
         /\ Len(mailbox') = Len(mailbox) + 1 /\ Len(mailbox) \in Nat
         /\ mailbox'[Len(mailbox')] = x
         /\ \A i \in 1 .. Len(mailbox) : mailbox'[i] = mailbox[i]
  BY SMTT(60), AppendProperties DEF TypeOK, Queued

LEMMA QueuedTail ==
  ASSUME TypeOK, mailbox # <<>>, mailbox' = Tail(mailbox)
  PROVE  /\ \A m : Queued(m) <=> m = Head(mailbox) \/ Queued(m)'
         /\ Len(mailbox') = Len(mailbox) - 1 /\ Len(mailbox) \in Nat \ {0}
         /\ \A i \in 1 .. Len(mailbox') : mailbox'[i] = mailbox[i + 1]
<1>1. /\ Len(mailbox') = Len(mailbox) - 1 /\ Len(mailbox) \in Nat \ {0}
      /\ Head(mailbox) = mailbox[1]
      /\ \A i \in 1 .. Len(mailbox') : mailbox'[i] = mailbox[i + 1]
  BY SMTT(60), HeadTailProperties, EmptySeq, LenProperties DEF TypeOK
<1>2. ASSUME NEW m, Queued(m) PROVE m = Head(mailbox) \/ Queued(m)'
  <2>1. PICK i \in 1 .. Len(mailbox) : mailbox[i] = m
    BY <1>2 DEF Queued
  <2>2. CASE i = 1
    BY <1>1, <2>1, <2>2
  <2>3. CASE i # 1
    BY SMTT(60), <1>1, <2>1, <2>3, i - 1 \in 1 .. Len(mailbox') DEF Queued
  <2>. QED  BY <2>2, <2>3
<1>3. ASSUME NEW m, m = Head(mailbox) \/ Queued(m)' PROVE Queued(m)
  BY SMTT(60), <1>1, <1>3 DEF Queued
<1>. QED  BY <1>1, <1>2, <1>3

(***************************************************************************)
(* The steps of the actor's task leave the threads and the word alone.     *)
(***************************************************************************)
Task == TaskStep \/ ReceiveStop \/ Kill \/ Cancel

LEMMA TaskLeavesThreadsAlone ==
  Task => UNCHANGED <<admission, pc, inHand, unsent, late, accepted>>
  BY DEF Task, TaskStep, Start, PreStartOk, PreStartFails, PostStartOk, PostStartFails,
         Receive, ReceiveDrain, HandleOk, HandleDiscards, HandleFails, ReceiveStop, Kill,
         Cancel, PostStop, DropPorts, Cleanup, AbortStart, Leave, senderVars, actorVars, channelVars

LEMMA HandsInductive ==
  ASSUME TypeInv, Hands, LateSendsRejected, [Next]_vars
  PROVE  Hands' /\ LateSendsRejected'
<1>. USE MarkerIsNoMessage
         DEF TypeInv, TypeOK, Hands, LateSendsRejected, SendPc, Pc, DrainPc, Goto
<1>1. ASSUME NEW t \in Thread, NEW m \in Msg, BeginSend(t, m) PROVE Hands' /\ LateSendsRejected'
  <2>1. CASE status >= Draining
    BY <1>1, <2>1 DEF BeginSend, channelVars
  <2>2. CASE ~(status >= Draining)
    <3>1. /\ m \in unsent /\ unsent' = unsent \ {m}
          /\ pc' = [pc EXCEPT ![t] = "admit"] /\ inHand' = [inHand EXCEPT ![t] = m]
          /\ UNCHANGED <<admission, late, accepted>>
      BY <1>1, <2>2 DEF BeginSend, channelVars
    <3>2. /\ pc'[t] = "admit" /\ inHand'[t] = m
          /\ \A u \in Thread \ {t} : pc'[u] = pc[u] /\ inHand'[u] = inHand[u]
      BY <3>1
    <3>3. \A u \in Thread : inHand'[u] \notin unsent'
      BY <3>1, <3>2
    <3>4. \A u \in Thread : inHand[u] # m
      BY <3>1
    <3>5. \A u, v \in Thread :
            u # v /\ pc'[u] \in SendPc /\ pc'[v] \in SendPc => inHand'[u] # inHand'[v]
      <4>1. \A u, v \in Thread :
              u # v /\ pc[u] \in SendPc /\ pc[v] \in SendPc => inHand[u] # inHand[v]
        OBVIOUS
      <4>. QED  BY ONLY <3>2, <3>4, <4>1
    <3>6. /\ \A u \in Thread : pc'[u] = "admit" => inHand'[u] \notin accepted'
          /\ \A u \in Thread : pc'[u] = "enqueue" => inHand'[u] \notin late'
          /\ \A u \in Thread : pc'[u] \in SendPc => inHand'[u] \in Msg
      BY <3>1, <3>2
    <3>7. /\ late' # {} => admission'.closed
          /\ unsent' \cap accepted' = {} /\ late' \cap accepted' = {}
      BY <3>1
    <3>. QED  BY ONLY <3>3, <3>5, <3>6, <3>7 DEF Hands, LateSendsRejected
  <2>. QED  BY <2>1, <2>2
<1>2. ASSUME NEW t \in Thread, TryAdmit(t) PROVE Hands' /\ LateSendsRejected'
  <2>1. CASE admission.closed
    <3>1. /\ pc' = [pc EXCEPT ![t] = "idle"] /\ inHand' = [inHand EXCEPT ![t] = None]
          /\ UNCHANGED <<admission, unsent, late, accepted>>
      BY <1>2, <2>1 DEF CanAdmit, TryAdmit, channelVars
    <3>2. /\ pc'[t] = "idle" /\ inHand'[t] = None
          /\ \A u \in Thread \ {t} : pc'[u] = pc[u] /\ inHand'[u] = inHand[u]
      BY <3>1
    <3>. QED  BY <3>1, <3>2
  <2>2. CASE ~admission.closed
    <3>1. /\ pc[t] = "admit" /\ pc' = [pc EXCEPT ![t] = "enqueue"]
          /\ UNCHANGED <<inHand, unsent, late, accepted>> /\ late = {}
      BY <1>2, <2>2 DEF CanAdmit, TryAdmit, channelVars
    <3>. QED  BY <3>1
  <2>. QED  BY <2>1, <2>2
<1>3. ASSUME NEW t \in Thread, Enqueue(t) PROVE Hands' /\ LateSendsRejected'
  <2>1. /\ pc[t] = "enqueue" /\ pc' = [pc EXCEPT ![t] = "release"]
        /\ UNCHANGED <<admission, inHand, unsent, late>>
        /\ inHand[t] \in Msg /\ inHand[t] \notin late /\ inHand[t] \notin unsent
    BY <1>3 DEF Enqueue
  <2>2. accepted' = accepted \/ accepted' = accepted \cup {inHand[t]}
    BY <1>3 DEF Enqueue
  <2>3. \A u \in Thread : pc'[u] = "admit" => inHand[u] \notin accepted'
    BY <2>1, <2>2
  <2>4. LateSendsRejected' /\ unsent' \cap accepted' = {}
    BY <2>1, <2>2
  <2>. QED  BY <2>1, <2>3, <2>4
<1>4. ASSUME NEW t \in Thread, BoxFails(t) PROVE Hands' /\ LateSendsRejected'
  BY <1>4 DEF BoxFails, channelVars
<1>5. ASSUME NEW t \in Thread, Release(t) PROVE Hands' /\ LateSendsRejected'
  <2>1. pc'[t] \in {"marker", "idle"} /\ \A u \in Thread \ {t} : pc'[u] = pc[u]
    BY <1>5 DEF Release
  <2>2. inHand'[t] = None /\ \A u \in Thread \ {t} : inHand'[u] = inHand[u]
    BY <1>5 DEF Release
  <2>3. UNCHANGED <<unsent, late, accepted>> /\ admission'.closed = admission.closed
    BY <1>5 DEF Release, channelVars
  <2>4. \A u, v \in Thread :
          u # v /\ pc'[u] \in SendPc /\ pc'[v] \in SendPc => inHand'[u] # inHand'[v]
    <3>1. \A u, v \in Thread :
            u # v /\ pc[u] \in SendPc /\ pc[v] \in SendPc => inHand[u] # inHand[v]
      OBVIOUS
    <3>2. pc'[t] \notin SendPc
      BY <2>1
    <3>. QED  BY ONLY <2>1, <2>2, <3>1, <3>2
  <2>5. /\ \A u \in Thread : pc'[u] = "admit" => inHand'[u] \notin accepted'
        /\ \A u \in Thread : pc'[u] = "enqueue" => inHand'[u] \notin late'
        /\ \A u \in Thread : pc'[u] \in SendPc => inHand'[u] \in Msg
        /\ \A u \in Thread : inHand'[u] \notin unsent'
    BY <2>1, <2>2, <2>3
  <2>6. /\ late' # {} => admission'.closed
        /\ unsent' \cap accepted' = {} /\ late' \cap accepted' = {}
    BY <2>3
  <2>. QED  BY ONLY <2>4, <2>5, <2>6 DEF Hands, LateSendsRejected
<1>6. ASSUME NEW t \in Thread, CloseAdmission(t) PROVE Hands' /\ LateSendsRejected'
  <2>1. /\ pc'[t] = "drain_status" /\ \A u \in Thread \ {t} : pc'[u] = pc[u]
        /\ UNCHANGED <<inHand, unsent, accepted>> /\ late' = late \cup Unadmitted
        /\ admission'.closed
    BY <1>6 DEF CloseAdmission, channelVars
  <2>2. Unadmitted \cap accepted = {}
    <3>1. /\ unsent \cap accepted = {}
          /\ \A u \in Thread : pc[u] = "admit" => inHand[u] \notin accepted
      OBVIOUS
    <3>. QED  BY ONLY <3>1 DEF Unadmitted
  <2>3. \A u \in Thread : pc[u] = "enqueue" => inHand[u] \notin Unadmitted
    <3>1. \A u \in Thread : inHand[u] \notin unsent
      OBVIOUS
    <3>2. \A u, v \in Thread : pc[u] = "enqueue" /\ pc[v] = "admit" => inHand[u] # inHand[v]
      OBVIOUS
    <3>. QED  BY ONLY <3>1, <3>2 DEF Unadmitted
  <2>. QED  BY <2>1, <2>2, <2>3
<1>7. ASSUME NEW t \in Thread, PublishDraining(t) PROVE Hands' /\ LateSendsRejected'
  BY <1>7 DEF PublishDraining, channelVars
<1>8. ASSUME NEW t \in Thread, ClaimMarker(t) PROVE Hands' /\ LateSendsRejected'
  <2>1. pc'[t] \in {"push_marker", "idle"} /\ \A u \in Thread \ {t} : pc'[u] = pc[u]
    BY <1>8 DEF ClaimMarker
  <2>2. UNCHANGED <<inHand, unsent, late, accepted>> /\ admission'.closed = admission.closed
    BY <1>8 DEF ClaimMarker, channelVars
  <2>. QED  BY <2>1, <2>2
<1>9. ASSUME NEW t \in Thread, PushMarker(t) PROVE Hands' /\ LateSendsRejected'
  BY <1>9 DEF PushMarker
<1>10. CASE Task \/ UNCHANGED vars
  BY <1>10, TaskLeavesThreadsAlone DEF vars, senderVars, channelVars
<1>. QED
  BY <1>1, <1>2, <1>3, <1>4, <1>5, <1>6, <1>7, <1>8, <1>9, <1>10 DEF Next, ThreadStep,
     ThreadCall, Task

LEMMA AdmittedIsCounted ==
  ASSUME TypeInv, NEW t \in Thread, pc[t] \in {"enqueue", "release"}
  PROVE  admission.count > 0
<1>1. t \in Admitted
  BY DEF Admitted
<1>2. Cardinality(Admitted) > 0
  BY SMTT(60), <1>1, AdmittedIsFinite, FS_EmptySet, FS_CardinalityType
<1>. QED  BY <1>2 DEF TypeInv, CountIsAdmitted

LEMMA MarkerInductive ==
  ASSUME TypeInv, Sealed, MarkerNotForgotten, [Next]_vars
  PROVE  Sealed' /\ MarkerNotForgotten'
<1>. DEFINE Goal == Sealed' /\ MarkerNotForgotten'
<1>. USE AdmittedIsCounted
         DEF TypeInv, TypeOK, Sealed, MarkerNotForgotten, MarkerDue, SendPc, Pc, DrainPc, Goto
<1>1. ASSUME NEW t \in Thread, NEW m \in Msg, BeginSend(t, m) PROVE Goal
  BY <1>1 DEF BeginSend
<1>2. ASSUME NEW t \in Thread, TryAdmit(t) PROVE Goal
  BY <1>2 DEF CanAdmit, TryAdmit
<1>3. ASSUME NEW t \in Thread, Enqueue(t) PROVE Goal
  BY <1>3 DEF Enqueue
<1>4. ASSUME NEW t \in Thread, BoxFails(t) PROVE Goal
  BY <1>4 DEF BoxFails
<1>5. ASSUME NEW t \in Thread, Release(t) PROVE Goal
  BY SMTT(60), <1>5 DEF OwesMarker, Release
<1>6. ASSUME NEW t \in Thread, CloseAdmission(t) PROVE Goal
  BY <1>6 DEF CloseAdmission
<1>7. ASSUME NEW t \in Thread, PublishDraining(t) PROVE Goal
  BY <1>7 DEF PublishDraining
<1>8. ASSUME NEW t \in Thread, ClaimMarker(t) PROVE Goal
  BY <1>8 DEF ClaimMarker
<1>9. ASSUME NEW t \in Thread, PushMarker(t) PROVE Goal
  BY <1>9 DEF PushMarker
<1>10. CASE Task \/ UNCHANGED vars
  BY <1>10, TaskLeavesThreadsAlone DEF vars, senderVars
<1>. QED
  BY <1>1, <1>2, <1>3, <1>4, <1>5, <1>6, <1>7, <1>8, <1>9, <1>10 DEF Next, ThreadStep,
     ThreadCall, Task

(***************************************************************************)
(* A step that leaves the queue, the exit reason and the pushing thread    *)
(* alone, and does not take back a claim, keeps OneMarker.                 *)
(***************************************************************************)
LEMMA OneMarkerFrame ==
  ASSUME OneMarker, UNCHANGED <<mailbox, exit>>, Pushing' \subseteq Pushing,
         admission.marker => admission'.marker
  PROVE  OneMarker'
  BY DEF OneMarker, Queued

LEMMA OneMarkerInductive ==
  ASSUME TypeInv, Sealed, OneMarker, Kept, [Next]_vars
  PROVE  OneMarker'
<1>. USE MarkerIsNoMessage DEF TypeInv, TypeOK, Pc, SendPc, DrainPc, Goto, Pushing
<1>1. ASSUME NEW t \in Thread, NEW m \in Msg, BeginSend(t, m) PROVE OneMarker'
  BY <1>1, OneMarkerFrame DEF BeginSend, channelVars, actorVars
<1>2. ASSUME NEW t \in Thread, TryAdmit(t) PROVE OneMarker'
  BY <1>2, OneMarkerFrame DEF CanAdmit, TryAdmit, channelVars, actorVars
<1>3. ASSUME NEW t \in Thread, Enqueue(t) PROVE OneMarker'
  <2>1. ~admission.marker /\ inHand[t] \in Msg /\ Pushing' = Pushing
    BY SMTT(60), <1>3, AdmittedIsCounted DEF Enqueue, Sealed
  <2>2. ~Queued(Drain) /\ Pushing = {} /\ exit # "drained"
    BY <2>1 DEF OneMarker
  <2>3. CASE rxOpen
    <3>1. ~Queued(Drain)'
      BY <1>3, <2>1, <2>2, <2>3, QueuedAppend DEF Enqueue
    <3>. QED  BY <1>3, <2>1, <2>2, <3>1 DEF Enqueue, OneMarker, Queued, actorVars
  <2>4. CASE ~rxOpen
    BY <1>3, <2>4, OneMarkerFrame DEF Enqueue, actorVars
  <2>. QED  BY <2>3, <2>4
<1>4. ASSUME NEW t \in Thread, BoxFails(t) PROVE OneMarker'
  BY <1>4, OneMarkerFrame DEF BoxFails, channelVars, actorVars
<1>5. ASSUME NEW t \in Thread, Release(t) PROVE OneMarker'
  BY <1>5, OneMarkerFrame DEF OwesMarker, Release, channelVars, actorVars
<1>6. ASSUME NEW t \in Thread, CloseAdmission(t) PROVE OneMarker'
  BY <1>6, OneMarkerFrame DEF CloseAdmission, channelVars, actorVars
<1>7. ASSUME NEW t \in Thread, PublishDraining(t) PROVE OneMarker'
  BY <1>7, OneMarkerFrame DEF PublishDraining, channelVars, actorVars
<1>8. ASSUME NEW t \in Thread, ClaimMarker(t) PROVE OneMarker'
  <2>1. CASE MarkerDue
    <3>1. ~Queued(Drain) /\ Pushing = {} /\ exit # "drained"
      BY <2>1 DEF OneMarker, MarkerDue
    <3>2. UNCHANGED <<mailbox, exit>> /\ admission'.marker /\ Pushing' = {t}
      BY SMTT(60), <1>8, <2>1, <3>1 DEF ClaimMarker, channelVars, actorVars
    <3>. QED  BY <3>1, <3>2 DEF OneMarker, Queued
  <2>2. CASE ~MarkerDue
    BY <1>8, <2>2, OneMarkerFrame DEF ClaimMarker, channelVars, actorVars
  <2>. QED  BY <2>1, <2>2
<1>9. ASSUME NEW t \in Thread, PushMarker(t) PROVE OneMarker'
  <2>1. admission.marker /\ ~Queued(Drain) /\ exit # "drained" /\ Pushing' = {}
    BY SMTT(60), <1>9 DEF PushMarker, OneMarker
  <2>2. CASE rxOpen
    <3>1. mailbox' = Append(mailbox, Drain) /\ UNCHANGED <<admission, exit>>
      BY <1>9, <2>2 DEF PushMarker, actorVars
    <3>2. \A i \in 1 .. Len(mailbox') : mailbox'[i] = Drain => i = Len(mailbox')
      BY SMTT(60), <2>1, <3>1, QueuedAppend DEF Queued
    <3>. QED  BY <2>1, <3>1, <3>2 DEF OneMarker
  <2>3. CASE ~rxOpen
    BY <1>9, <2>1, <2>3, OneMarkerFrame DEF PushMarker, actorVars
  <2>. QED  BY <2>2, <2>3
<1>10. CASE Receive \/ ReceiveDrain
  <2>1. mailbox # <<>> /\ mailbox' = Tail(mailbox) /\ UNCHANGED <<admission, pc>> /\ exit = "none"
    BY <1>10 DEF Receive, ReceiveDrain, senderVars, Kept, Alive
  <2>2. /\ Queued(Drain)' => Queued(Drain)
        /\ \A i \in 1 .. Len(mailbox') : mailbox'[i] = Drain => i = Len(mailbox')
    BY SMTT(60), <2>1, QueuedTail DEF OneMarker
  <2>3. CASE Receive
    BY <2>1, <2>2, <2>3 DEF Receive, OneMarker
  <2>4. CASE ReceiveDrain
    <3>1. Queued(Drain) /\ exit' = "drained"
      BY <2>1, <2>4, QueuedTail DEF ReceiveDrain, Leave
    <3>2. mailbox[1] = Drain /\ 1 \in 1 .. Len(mailbox)
      <4>1. Len(mailbox) \in Nat \ {0}
        BY <2>1, QueuedTail
      <4>2. Head(mailbox) = mailbox[1]
        BY SMTT(60), <2>1, HeadTailProperties
      <4>. QED  BY SMTT(60), <2>4, <4>1, <4>2 DEF ReceiveDrain
    <3>3. Len(mailbox') = 0
      <4>1. Len(mailbox) = 1
        BY <3>2 DEF OneMarker
      <4>. QED  BY SMTT(60), <2>1, <4>1, QueuedTail
    <3>4. ~Queued(Drain)'
      BY SMTT(60), <3>3 DEF Queued
    <3>. QED  BY <2>1, <2>2, <3>1, <3>4 DEF OneMarker
  <2>. QED  BY <1>10, <2>3, <2>4
<1>11. CASE DropPorts
  <2>1. Len(mailbox') = 0
    BY <1>11, EmptySeq DEF DropPorts
  <2>. QED  BY SMTT(60), <1>11, <2>1 DEF DropPorts, OneMarker, Queued, senderVars
<1>12. CASE \/ Start \/ PreStartOk \/ PreStartFails \/ PostStartOk \/ PostStartFails
            \/ HandleOk \/ HandleDiscards \/ HandleFails \/ ReceiveStop \/ Kill \/ Cancel
            \/ PostStop \/ Cleanup
  <2>1. UNCHANGED <<admission, pc, mailbox>> /\ (exit' = exit \/ exit' # "drained")
    BY <1>12
    DEF Start, PreStartOk, PreStartFails, PostStartOk, PostStartFails, HandleOk, HandleDiscards,
        HandleFails, ReceiveStop, Kill, Cancel, PostStop, Cleanup, AbortStart, Leave, senderVars,
        channelVars
  <2>. QED  BY <2>1 DEF OneMarker, Queued
<1>13. CASE UNCHANGED vars
  BY <1>13, OneMarkerFrame DEF vars, senderVars, channelVars, actorVars
<1>. QED
  BY <1>1, <1>2, <1>3, <1>4, <1>5, <1>6, <1>7, <1>8, <1>9, <1>10, <1>11, <1>12, <1>13
  DEF Next, ThreadStep, ThreadCall, TaskStep

(***************************************************************************)
(* A step that leaves the actor's side of the port alone keeps Kept.       *)
(***************************************************************************)
LEMMA KeptFrame ==
  ASSUME Kept, DrainLosesNothing,
         UNCHANGED <<phase, exit, rxOpen, current, handled, discarded, accepted>>,
         \A m : Queued(m) => Queued(m)'
  PROVE  Kept' /\ DrainLosesNothing'
  BY DEF Kept, DrainLosesNothing

LEMMA KeptInductive ==
  ASSUME TypeInv, Sealed, OneMarker, Kept, DrainLosesNothing, [Next]_vars
  PROVE  Kept' /\ DrainLosesNothing'
<1>. DEFINE Goal == Kept' /\ DrainLosesNothing'
<1>. USE MarkerIsNoMessage DEF TypeInv, TypeOK, Goto
<1>1. ASSUME NEW t \in Thread, NEW m \in Msg, BeginSend(t, m) PROVE Goal
  BY <1>1, KeptFrame DEF BeginSend, channelVars, actorVars, Queued
<1>2. ASSUME NEW t \in Thread,
             TryAdmit(t) \/ BoxFails(t) \/ Release(t) \/ CloseAdmission(t)
               \/ PublishDraining(t) \/ ClaimMarker(t)
      PROVE  Goal
  BY <1>2, KeptFrame
  DEF CanAdmit, OwesMarker, TryAdmit, BoxFails, Release, CloseAdmission, PublishDraining,
  ClaimMarker,
      channelVars, actorVars, Queued
<1>3. ASSUME NEW t \in Thread, Enqueue(t) PROVE Goal
  <2>1. ~admission.marker /\ inHand[t] \in Msg
    BY SMTT(60), <1>3, AdmittedIsCounted DEF Enqueue, Sealed, SendPc
  <2>2. exit # "drained" /\ UNCHANGED <<phase, exit, rxOpen, current, handled, discarded>>
    BY <1>3, <2>1 DEF Enqueue, OneMarker, actorVars
  <2>3. CASE rxOpen
    <3>1. accepted' = accepted \cup {inHand[t]} /\ mailbox' = Append(mailbox, inHand[t])
      BY <1>3, <2>3 DEF Enqueue
    <3>2. \A m : Queued(m)' <=> Queued(m) \/ m = inHand[t]
      BY <2>1, <3>1, QueuedAppend
    <3>. HIDE DEF TypeInv, TypeOK
    <3>. QED  BY <2>2, <3>1, <3>2 DEF Kept, DrainLosesNothing
  <2>4. CASE ~rxOpen
    BY <1>3, <2>2, <2>4 DEF Enqueue, Kept, DrainLosesNothing
  <2>. QED  BY <2>3, <2>4
<1>4. ASSUME NEW t \in Thread, PushMarker(t) PROVE Goal
  <2>1. \A m : Queued(m) => Queued(m)'
    <3>1. CASE rxOpen
      BY <1>4, <3>1, QueuedAppend DEF PushMarker
    <3>2. CASE ~rxOpen
      BY <1>4, <3>2 DEF PushMarker, Queued
    <3>. QED  BY <3>1, <3>2
  <2>. QED  BY <1>4, <2>1, KeptFrame DEF PushMarker, actorVars
<1>5. CASE \/ Start \/ PreStartOk \/ PreStartFails \/ PostStartOk \/ PostStartFails
           \/ HandleFails \/ ReceiveStop \/ Kill \/ Cancel \/ PostStop \/ Cleanup
  <2>1. UNCHANGED <<mailbox, rxOpen, accepted, handled, discarded>> /\ exit' \in Exit
    BY <1>5, TypeInvInductive
    DEF Start, PreStartOk, PreStartFails, PostStartOk, PostStartFails, HandleFails,
        ReceiveStop, Kill, Cancel, PostStop, Cleanup, AbortStart, Leave, channelVars
  <2>2. /\ exit' = "none" <=> phase' \in Alive
        /\ exit' = "none" => exit = "none" /\ current' = current
        /\ current' # None => phase' = "loop"
        /\ exit' = "drained" => exit = "drained"
    BY <1>5
    DEF Start, PreStartOk, PreStartFails, PostStartOk, PostStartFails, HandleFails,
        ReceiveStop, Kill, Cancel, PostStop, Cleanup, AbortStart, Leave, Kept, Alive
  <2>. HIDE DEF TypeInv, TypeOK
  <2>. QED  BY <2>1, <2>2 DEF Kept, DrainLosesNothing, Queued
<1>6. CASE Receive
  <2>1. \A m : Queued(m) <=> m = Head(mailbox) \/ Queued(m)'
    BY <1>6, QueuedTail DEF Receive
  <2>. QED  BY <1>6, <2>1 DEF Receive, Kept, DrainLosesNothing, Alive
<1>7. CASE ReceiveDrain
  <2>1. mailbox # <<>> /\ mailbox' = Tail(mailbox) /\ Head(mailbox) = Drain
    BY <1>7 DEF ReceiveDrain
  <2>2. Len(mailbox) = 1
    <3>1. Len(mailbox) \in Nat \ {0}
      BY <2>1, QueuedTail
    <3>2. mailbox[1] = Drain
      BY SMTT(60), <2>1, HeadTailProperties
    <3>3. 1 \in 1 .. Len(mailbox)
      BY SMTT(60), <3>1
    <3>. QED  BY <3>2, <3>3 DEF OneMarker
  <2>3. \A m \in Msg : ~Queued(m)
    BY SMTT(60), <2>1, <2>2, HeadTailProperties DEF Queued
  <2>4. exit = "none" /\ current = None
    BY <1>7 DEF ReceiveDrain, Kept, Alive
  <2>5. accepted \subseteq handled \cup discarded
    BY <2>3, <2>4 DEF Kept
  <2>. QED  BY <1>7, <2>5 DEF ReceiveDrain, Leave, Kept, DrainLosesNothing, Alive
<1>8. CASE HandleOk \/ HandleDiscards
  BY <1>8 DEF HandleOk, HandleDiscards, Kept, DrainLosesNothing, channelVars, Queued
<1>9. CASE DropPorts
  BY <1>9 DEF DropPorts, Kept, DrainLosesNothing, Alive
<1>10. CASE UNCHANGED vars
  BY <1>10, KeptFrame DEF vars, senderVars, channelVars, actorVars, Queued
<1>. QED
  BY <1>1, <1>2, <1>3, <1>4, <1>5, <1>6, <1>7, <1>8, <1>9, <1>10
  DEF Next, ThreadStep, ThreadCall, TaskStep

-----------------------------------------------------------------------------
LEMMA InvariantHolds == Safety => []IInv
<1>1. Init => IInv
  <2>. SUFFICES ASSUME Init PROVE IInv
    OBVIOUS
  <2>1. Admitted = {} /\ Cardinality(Admitted) = 0
    BY FS_EmptySet DEF Init, Admitted
  <2>2. TypeOK
    BY SMTT(60), MarkerIsNoMessage, StatusConstants DEF Init, TypeOK, Pc, Phase, Exit
  <2>3. CountIsAdmitted /\ MarkerNotForgotten /\ LateSendsRejected /\ DrainLosesNothing
    BY <2>1 DEF Init, CountIsAdmitted, MarkerNotForgotten, MarkerDue, LateSendsRejected,
       DrainLosesNothing
  <2>4. Hands /\ Sealed /\ Kept
    BY MarkerIsNoMessage DEF Init, Hands, Sealed, Kept, SendPc, Alive
  <2>5. Len(mailbox) = 0
    BY DEF Init
  <2>6. OneMarker
    BY SMTT(60), <2>5 DEF Init, OneMarker, Pushing, Queued
  <2>. QED  BY <2>2, <2>3, <2>4, <2>6 DEF IInv
<1>2. IInv /\ [Next]_vars => IInv'
  <2>. SUFFICES ASSUME IInv, [Next]_vars PROVE IInv'
    OBVIOUS
  <2>1. TypeInv
    BY DEF IInv, TypeInv, Hands
  <2>2. TypeInv'
    BY <2>1, TypeInvInductive
  <2>. QED
    BY <2>1, <2>2, HandsInductive, MarkerInductive, OneMarkerInductive, KeptInductive
    DEF IInv, TypeInv
<1>. QED  BY <1>1, <1>2, PTL DEF Safety

(***************************************************************************)
(* drain() loses nothing, for any number of threads and messages: an actor *)
(* that exits because it was drained handled every message its port took,  *)
(* but for the serialized ones it could not decode.                        *)
(***************************************************************************)
THEOREM DrainSafe == Safety => []DrainLosesNothing
<1>1. IInv => DrainLosesNothing
  BY DEF IInv
<1>. QED  BY <1>1, InvariantHolds, PTL

(***************************************************************************)
(* A message that no send had got admitted when a drain closed the port    *)
(* never reaches the queue.                                                *)
(***************************************************************************)
THEOREM LateSendsAreRejected == Safety => []LateSendsRejected
<1>1. IInv => LateSendsRejected
  BY DEF IInv
<1>. QED  BY <1>1, InvariantHolds, PTL

(***************************************************************************)
(* The count of the admission word is exact, so it never underflows.       *)
(***************************************************************************)
THEOREM CountIsExact == Safety => []CountIsAdmitted
<1>1. IInv => CountIsAdmitted
  BY DEF IInv
<1>. QED  BY <1>1, InvariantHolds, PTL

(***************************************************************************)
(* Some thread always owes the marker of a closed, quiet port.             *)
(***************************************************************************)
THEOREM MarkerIsOwed == Safety => []MarkerNotForgotten
<1>1. IInv => MarkerNotForgotten
  BY DEF IInv
<1>. QED  BY <1>1, InvariantHolds, PTL

-----------------------------------------------------------------------------
(***************************************************************************)
(* The port implements DrainingMailbox.  First, what the queue without the *)
(* marker becomes when the channel is used.                                *)
(***************************************************************************)
LEMMA MessagesWithoutMarker ==
  ASSUME TypeOK, ~Queued(Drain)
  PROVE  Messages(mailbox) = mailbox
<1>1. mailbox # <<>> => Len(mailbox) \in 1 .. Len(mailbox)
  BY SMTT(60), EmptySeq, LenProperties DEF TypeOK
<1>. QED  BY <1>1 DEF Messages, Queued

LEMMA MessagesAppendMessage ==
  ASSUME TypeOK, ~Queued(Drain), NEW m \in Msg, mailbox' = Append(mailbox, m)
  PROVE  Messages(mailbox') = Append(Messages(mailbox), m)
<1>1. mailbox'[Len(mailbox')] = m /\ m # Drain
  BY QueuedAppend, MarkerIsNoMessage
<1>. QED  BY <1>1, MessagesWithoutMarker DEF Messages

LEMMA MessagesAppendMarker ==
  ASSUME TypeOK, ~Queued(Drain), mailbox' = Append(mailbox, Drain)
  PROVE  Messages(mailbox') = Messages(mailbox)
<1>. DEFINE S == Msg \cup {Drain}
           b == Append(mailbox, Drain)
<1>1. /\ mailbox \in Seq(S) /\ Len(mailbox) \in Nat
      /\ b \in Seq(S) /\ b # <<>> /\ Len(b) = Len(mailbox) + 1
      /\ b[Len(b)] = Drain
      /\ \A i \in 1 .. Len(mailbox) : b[i] = mailbox[i]
  BY SMTT(60), AppendProperties, LenProperties DEF TypeOK
<1>. HIDE DEF b
<1>2. Messages(b) = SubSeq(b, 1, Len(mailbox))
  BY SMTT(60), <1>1 DEF Messages
<1>3. \A i \in 1 .. Len(mailbox) : b[i] \in S
  BY <1>1, ElementOfSeq
<1>4. /\ SubSeq(b, 1, Len(mailbox)) \in Seq(S)
      /\ Len(SubSeq(b, 1, Len(mailbox))) = Len(mailbox)
      /\ \A i \in 1 .. Len(mailbox) : SubSeq(b, 1, Len(mailbox))[i] = mailbox[i]
  BY SMTT(60), <1>1, <1>3, SubSeqProperties
<1>5. SubSeq(b, 1, Len(mailbox)) = mailbox
  BY <1>1, <1>4, SeqEqual
<1>6. mailbox' = b
  BY DEF b
<1>. QED  BY <1>2, <1>5, <1>6, MessagesWithoutMarker

LEMMA LongerThanNothing ==
  ASSUME NEW s, NEW k, Len(s) = k, k # 0 PROVE s # <<>>
  BY SMTT(60)

LEMMA MessagesTail ==
  ASSUME TypeOK, mailbox # <<>>, Head(mailbox) # Drain, mailbox' = Tail(mailbox)
  PROVE  /\ Messages(mailbox) # <<>>
         /\ Head(Messages(mailbox)) = Head(mailbox)
         /\ Messages(mailbox') = Tail(Messages(mailbox))
<1>. DEFINE S == Msg \cup {Drain}
           n == Len(mailbox)
<1>1. /\ mailbox \in Seq(S) /\ n \in Nat \ {0}
      /\ Head(mailbox) = mailbox[1]
      /\ Tail(mailbox) \in Seq(S) /\ Len(Tail(mailbox)) = n - 1
      /\ \A i \in 1 .. n - 1 : Tail(mailbox)[i] = mailbox[i + 1]
  BY SMTT(60), HeadTailProperties, EmptySeq DEF TypeOK
<1>2. CASE mailbox[n] # Drain
  <2>1. Messages(mailbox) = mailbox
    BY <1>2 DEF Messages
  <2>2. Messages(Tail(mailbox)) = Tail(mailbox)
    <3>1. CASE n = 1
      BY SMTT(60), <1>1, <3>1, EmptySeq DEF Messages
    <3>2. CASE n # 1
      <4>1. n - 1 \in 1 .. n - 1
        BY SMTT(60), <1>1, <3>2
      <4>2. Tail(mailbox)[n - 1] = mailbox[n]
        BY SMTT(60), <1>1, <4>1
      <4>. QED  BY <1>1, <1>2, <4>2 DEF Messages
    <3>. QED  BY <3>1, <3>2
  <2>. QED  BY <2>1, <2>2
<1>3. CASE mailbox[n] = Drain
  <2>1. n > 1 /\ n - 1 \in 1 .. n /\ 1 \in 1 .. n
    BY SMTT(60), <1>1, <1>3
  <2>2. Messages(mailbox) = SubSeq(mailbox, 1, n - 1)
    BY <1>1, <1>3 DEF Messages
  <2>3. /\ Head(SubSeq(mailbox, 1, n - 1)) = mailbox[1]
        /\ Tail(SubSeq(mailbox, 1, n - 1)) = SubSeq(mailbox, 2, n - 1)
    BY SMTT(60), <1>1, <2>1, n - 1 \in 1 .. n, HeadTailOfSubSeq
  <2>4. \A i \in 1 .. n : mailbox[i] \in S
    BY <1>1, ElementOfSeq
  <2>5. Len(SubSeq(mailbox, 1, n - 1)) = n - 1
    <3>1. 1 \in Int /\ n - 1 \in Int /\ \A i \in 1 .. n - 1 : mailbox[i] \in S
      BY SMTT(60), <1>1, <2>1, <2>4
    <3>. QED  BY SMTT(60), <1>1, <2>1, <3>1, SubSeqProperties
  <2>6. SubSeq(mailbox, 1, n - 1) # <<>>
    <3>1. n - 1 # 0
      BY SMTT(60), <1>1, <2>1
    <3>. QED  BY <2>5, <3>1, LongerThanNothing
  <2>7. n - 1 \in 1 .. n - 1 /\ Tail(mailbox)[n - 1] = Drain /\ Tail(mailbox) # <<>>
    <3>1. n - 1 \in 1 .. n - 1
      BY SMTT(60), <1>1, <2>1, n \in Nat, n > 1
    <3>2. Tail(mailbox)[n - 1] = mailbox[n]
      BY SMTT(60), <1>1, <3>1
    <3>3. Tail(mailbox) # <<>>
      <4>1. n - 1 # 0
        BY SMTT(60), <1>1, <2>1
      <4>. QED  BY <1>1, <4>1, LongerThanNothing
    <3>. QED  BY <1>3, <3>1, <3>2, <3>3
  <2>8. Messages(Tail(mailbox)) = SubSeq(Tail(mailbox), 1, n - 2)
    BY SMTT(60), <1>1, <2>7 DEF Messages
  <2>9. SubSeq(Tail(mailbox), 1, n - 2) = SubSeq(mailbox, 2, n - 1)
    <3>1. \A i \in 1 .. n - 2 : Tail(mailbox)[i] \in S
      BY SMTT(60), <1>1, ElementOfSeq
    <3>2. /\ SubSeq(Tail(mailbox), 1, n - 2) \in Seq(S)
          /\ Len(SubSeq(Tail(mailbox), 1, n - 2)) = n - 2
          /\ \A i \in 1 .. n - 2 : SubSeq(Tail(mailbox), 1, n - 2)[i] = Tail(mailbox)[i]
      BY SMTT(60), <1>1, <2>1, <3>1, 1 \in Int, n - 2 \in Int, SubSeqProperties
    <3>3. \A i \in 2 .. n - 1 : mailbox[i] \in S
      BY SMTT(60), <1>1, <2>1, <2>4
    <3>4. /\ SubSeq(mailbox, 2, n - 1) \in Seq(S)
          /\ Len(SubSeq(mailbox, 2, n - 1)) = n - 2
          /\ \A i \in 1 .. n - 2 : SubSeq(mailbox, 2, n - 1)[i] = mailbox[i + 1]
      BY SMTT(60), <1>1, <2>1, <3>3, 2 \in Int, n - 1 \in Int, SubSeqProperties
    <3>5. \A i \in 1 .. n - 2 : Tail(mailbox)[i] = mailbox[i + 1]
      BY SMTT(60), <1>1, <2>1
    <3>. QED  BY SMTT(60), <3>2, <3>4, <3>5, SeqEqual
  <2>. QED  BY <1>1, <2>2, <2>3, <2>6, <2>8, <2>9
<1>. QED  BY <1>2, <1>3

LEMMA MessagesOnlyMarker ==
  ASSUME TypeOK, OneMarker, mailbox # <<>>, Head(mailbox) = Drain
  PROVE  Messages(mailbox) = <<>>
<1>1. Len(mailbox) \in Nat \ {0} /\ mailbox[1] = Drain
  BY SMTT(60), HeadTailProperties, EmptySeq DEF TypeOK
<1>2. 1 \in 1 .. Len(mailbox)
  BY SMTT(60), <1>1
<1>3. Len(mailbox) = 1
  BY <1>1, <1>2 DEF OneMarker
<1>. QED  BY SMTT(60), <1>1, <1>3, SubSeqEmpty DEF Messages

(***************************************************************************)
(* Every step of the program is a step of DrainingMailbox or changes       *)
(* nothing DrainingMailbox sees.                                           *)
(***************************************************************************)
LEMMA StepSimulation ==
  ASSUME IInv, [Next]_vars PROVE [Port!Next]_(Port!vars)
<1>. USE DEF IInv, TypeOK, Port!vars
<1>1. ASSUME NEW t \in Thread, Enqueue(t) PROVE [Port!Next]_(Port!vars)
  <2>1. ~admission.marker /\ inHand[t] \in Msg
    BY SMTT(60), <1>1, AdmittedIsCounted DEF Enqueue, Sealed, SendPc, Hands, TypeInv
  <2>2. ~Queued(Drain)
    BY <2>1 DEF OneMarker
  <2>3. UNCHANGED <<admission, exit, current, handled, discarded>>
    BY <1>1 DEF Enqueue, actorVars
  <2>4. CASE exit = "none"
    <3>1. mailbox' = Append(mailbox, inHand[t])
      BY <1>1, <2>4 DEF Enqueue, Kept
    <3>2. Messages(mailbox') = Append(Messages(mailbox), inHand[t])
      BY <2>1, <2>2, <3>1, MessagesAppendMessage
    <3>3. Port!Accept(inHand[t])
      BY <2>1, <2>3, <2>4, <3>2 DEF Port!Accept
    <3>. QED  BY <2>1, <3>3 DEF Port!Next
  <2>5. CASE exit # "none"
    BY <2>3, <2>5
  <2>. QED  BY <2>4, <2>5
<1>2. ASSUME NEW t \in Thread, ClaimMarker(t) PROVE [Port!Next]_(Port!vars)
  <2>1. UNCHANGED <<mailbox, exit, current, handled, discarded>>
    BY <1>2 DEF ClaimMarker, channelVars, actorVars
  <2>2. CASE MarkerDue
    <3>1. ~admission.marker /\ admission'.marker = TRUE
      BY <1>2, <2>2 DEF ClaimMarker, MarkerDue
    <3>. QED  BY <2>1, <3>1 DEF Port!Next, Port!Seal
  <2>3. CASE ~MarkerDue
    BY <1>2, <2>1, <2>3 DEF ClaimMarker
  <2>. QED  BY <2>2, <2>3
<1>3. ASSUME NEW t \in Thread, PushMarker(t) PROVE [Port!Next]_(Port!vars)
  <2>1. UNCHANGED <<admission, exit, current, handled, discarded>> /\ ~Queued(Drain)
    BY <1>3 DEF PushMarker, actorVars, OneMarker, Pushing
  <2>2. Messages(mailbox') = Messages(mailbox)
    BY <1>3, <2>1, MessagesAppendMarker DEF PushMarker
  <2>. QED  BY SMTT(60), <2>1, <2>2
<1>4. ASSUME NEW t \in Thread,
             \/ \E m \in Msg : BeginSend(t, m)
             \/ TryAdmit(t) \/ BoxFails(t) \/ Release(t) \/ CloseAdmission(t) \/ PublishDraining(t)
      PROVE  [Port!Next]_(Port!vars)
  <2>1. /\ UNCHANGED <<mailbox, exit, current, handled, discarded>>
        /\ admission'.marker = admission.marker
    BY <1>4
    DEF BeginSend, TryAdmit, BoxFails, Release, CloseAdmission, PublishDraining, channelVars,
    actorVars
  <2>. QED  BY <2>1
<1>5. CASE Receive
  <2>1. /\ exit = "none" /\ exit' = "none" /\ current = None
        /\ UNCHANGED <<admission, handled, discarded>> /\ current' = Head(mailbox)
    BY <1>5 DEF Receive, Kept, Alive
  <2>2. /\ Messages(mailbox) # <<>>
        /\ Head(Messages(mailbox)) = Head(mailbox)
        /\ Messages(mailbox') = Tail(Messages(mailbox))
    BY <1>5, MessagesTail DEF Receive
  <2>. QED  BY <2>1, <2>2 DEF Port!Next, Port!Take
<1>6. CASE ReceiveDrain
  <2>1. /\ exit = "none" /\ exit' = "drained" /\ current = None
        /\ UNCHANGED <<admission, handled, discarded, current>>
    BY <1>6 DEF ReceiveDrain, Leave, Kept, Alive
  <2>2. Messages(mailbox) = <<>>
    BY <1>6, MessagesOnlyMarker DEF ReceiveDrain
  <2>3. Queued(Drain)
    BY <1>6, QueuedTail DEF ReceiveDrain
  <2>4. admission.marker = TRUE
    BY <2>3 DEF OneMarker
  <2>. QED  BY <2>1, <2>2, <2>4 DEF Port!Next, Port!ExitDrained
<1>7. CASE HandleOk \/ HandleDiscards
  <2>1. /\ exit = "none" /\ exit' = "none" /\ current # None /\ current' = None
        /\ UNCHANGED <<admission, mailbox>>
    BY <1>7, MarkerIsNoMessage, SerializedAreMessages
    DEF HandleOk, HandleDiscards, Kept, Alive, channelVars
  <2>2. handled' \cup discarded' = handled \cup discarded \cup {current}
    BY <1>7 DEF HandleOk, HandleDiscards
  <2>. QED  BY <2>1, <2>2 DEF Port!Next, Port!Finish
<1>8. CASE HandleFails \/ ReceiveStop \/ Kill \/ Cancel \/ PreStartFails \/ PostStartFails
  <2>1. /\ exit = "none" /\ exit' \notin {"none", "drained"} /\ current' = None
        /\ UNCHANGED <<admission, handled, discarded>>
    BY <1>8
    DEF HandleFails, ReceiveStop, Kill, Cancel, PreStartFails, PostStartFails, AbortStart, Leave,
        Kept, Alive
  <2>. QED  BY <2>1 DEF Port!Next, Port!Abort
<1>9. CASE Start \/ PreStartOk
  <2>1. /\ exit = "none" /\ current = None /\ exit' # "drained"
        /\ UNCHANGED <<admission, handled, discarded, current, mailbox>>
    BY <1>9 DEF Start, PreStartOk, AbortStart, Kept, Alive, channelVars
  <2>2. CASE exit' = exit
    BY <2>1, <2>2
  <2>3. CASE exit' # exit
    BY <2>1, <2>3 DEF Port!Next, Port!Abort
  <2>. QED  BY <2>2, <2>3
<1>10. CASE PostStartOk \/ UNCHANGED vars
  BY <1>10 DEF PostStartOk, vars, channelVars, actorVars
<1>11. CASE PostStop \/ DropPorts \/ Cleanup
  <2>1. exit # "none" /\ UNCHANGED <<admission, exit, current, handled, discarded>>
    BY <1>11 DEF PostStop, DropPorts, Cleanup, Kept, Alive
  <2>. QED  BY <2>1
<1>. QED
  BY <1>1, <1>2, <1>3, <1>4, <1>5, <1>6, <1>7, <1>8, <1>9, <1>10, <1>11
  DEF Next, ThreadStep, ThreadCall, TaskStep

(***************************************************************************)
(* The message port with its admission word implements DrainingMailbox:    *)
(* nothing is accepted once the mailbox is sealed, messages are handled in *)
(* the order they were accepted, and the actor reports itself drained only *)
(* when nothing is left.                                                   *)
(***************************************************************************)
THEOREM ImplementsMailbox == Safety => ImplementsDrainingMailbox
<1>1. Init => Port!Init
  BY SMTT(60) DEF Init, Port!Init, Messages
<1>2. IInv /\ [Next]_vars => [Port!Next]_(Port!vars)
  BY StepSimulation
<1>. QED  BY <1>1, <1>2, InvariantHolds, PTL DEF Safety, Port!Spec, ImplementsDrainingMailbox
=============================================================================
