------------------------------ MODULE Snapshot ------------------------------
(***************************************************************************)
(* What a checkpoint promises: the application's memory changes only while *)
(* it runs, and a snapshot, once taken, is the whole memory of the stopped *)
(* application at one instant, kept unchanged until it is dropped.  Only   *)
(* the pages in lost, which something disturbed before the snapshot was    *)
(* taken, may hold anything; while a snapshot is kept no page is lost.     *)
(***************************************************************************)
CONSTANTS Pages, Values, Zero, NoSnap

VARIABLES mem, app, snap, lost

vars == <<mem, app, snap, lost>>

Init ==
  /\ mem = [p \in Pages |-> Zero] /\ app = "running"
  /\ snap = NoSnap /\ lost = {}

Write(p, v) == app = "running" /\ mem' = [mem EXCEPT ![p] = v] /\ UNCHANGED <<app, snap>>

Stop == app = "running" /\ app' = "stopped" /\ UNCHANGED <<mem, snap>>

Take ==
  /\ app = "stopped" /\ snap = NoSnap
  /\ snap' \in [Pages -> Values]
  /\ \A p \in Pages \ lost : snap'[p] = mem[p]
  /\ UNCHANGED <<mem, app, lost>>

Resume == app = "stopped" /\ app' = "running" /\ UNCHANGED <<mem, snap>>

Drop == snap' = NoSnap /\ UNCHANGED <<mem, app>>

Disturb == UNCHANGED <<mem, app, snap>>

Next ==
  /\ \/ \E p \in Pages, v \in Values : Write(p, v)
     \/ Stop \/ Take \/ Resume \/ Drop \/ Disturb
  /\ (snap # NoSnap /\ snap' # NoSnap) => lost' = lost

Spec == Init /\ [][Next]_vars
=============================================================================
