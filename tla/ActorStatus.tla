----------------------------- MODULE ActorStatus -----------------------------
(***************************************************************************)
(* The lifecycle states of an actor (enum ActorStatus of actor_cell.rs).   *)
(* They are numbers because the program compares them with < and >= and    *)
(* advances them with AtomicU8::fetch_max.                                 *)
(***************************************************************************)
EXTENDS Integers

Unstarted == 0
Starting  == 1
Running   == 2
Upgrading == 3
Draining  == 4
Stopping  == 5
Stopped   == 6

Status == 0 .. 6

\* Mutant: the numbers are added (fetch_add).
AdvanceAdds(current, requested) == current + requested

(***************************************************************************)
(* ActorProperties::set_status: the status only moves forward, a stale     *)
(* request to move it backwards is ignored.                                *)
(***************************************************************************)
Advance(current, requested) == IF requested > current THEN requested ELSE current
=============================================================================
