------------------------------ MODULE PeerState ------------------------------
(***************************************************************************)
(* The state of one counterpart with regard to one namespace, as kept by    *)
(* the live actor (pdn-store engine/state.rs): which exchange, if any,       *)
(* holds the pair, and whether another is queued behind it.  Pure operators, *)
(* used by the modules that model the live actor.                            *)
(***************************************************************************)

\* Why a dial was started.
SyncReason == {"DirectJoin", "NewNeighbor", "SyncReport", "Resync", "Announced"}

\* "Idle", "Accept" (an exchange the counterpart dialed), or the reason of
\* the dial of this side that is running.
SyncState == {"Idle", "Accept"} \cup SyncReason

PeerStates == [state : SyncState, resync : BOOLEAN]

IdlePeer == [state |-> "Idle", resync |-> FALSE]

IsRunning(s) == s.state # "Idle"

\* A dial takes an idle pair.  On a running pair it is not started: the ask
\* is queued, unless it is itself the replay of a queued ask.
StartConnect(s, r) ==
    IF IsRunning(s)
    THEN [s EXCEPT !.resync = @ \/ r # "Resync"]
    ELSE [state |-> r, resync |-> FALSE]

\* Mutant of AbortConnect: the slot stays as the dial left it.
AbortConnectKeeps(s, r) == s

\* The remote answered the dial "already syncing".
AbortConnect(s, r) == IF s.state = r THEN [s EXCEPT !.state = "Idle"] ELSE s

\* Mutant of Admits: an accept is admitted beside whatever runs.
AdmitsAll(s, refusedOurs, greater) == TRUE

\* Of two dials crossing, the one of the smaller party survives, unless the
\* counterpart refused this side's last dial.
Admits(s, refusedOurs, greater) ==
    \/ s.state = "Idle"
    \/ s.state \in SyncReason /\ (refusedOurs \/ greater)

\* An admitted exchange takes the pair; a takeover keeps the queued resync.
Accept(s) == [state |-> "Accept", resync |-> IsRunning(s) /\ s.resync]

\* Whether the finish of an exchange of this origin frees the pair; only the
\* kind of the origin is compared.
Frees(s, origin) ==
    IF origin = "Accept" THEN s.state = "Accept" ELSE s.state \in SyncReason

\* Mutant of Finish: the slot is not freed.
FinishKeeps(s, origin) == s

Finish(s, origin) == IF Frees(s, origin) THEN [s EXCEPT !.state = "Idle"] ELSE s

\* Whether a finish of this origin is followed by the queued dial.
ResyncQueued(s, origin) == Frees(s, origin) /\ s.resync
=============================================================================
