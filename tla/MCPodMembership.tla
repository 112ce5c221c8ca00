-------------------------- MODULE MCPodMembership ---------------------------
(***************************************************************************)
(* Instances of PodMembership for TLC: a pod created by identity 1.  A device  *)
(* is named for its identity.                                                  *)
(***************************************************************************)
EXTENDS PodMembership

Couple == {"1", "2"}
Family == {"1", "2", "2b"}
Household == {"1", "2", "2b", "3"}
WhoFamily == [d \in Family |-> IF d = "1" THEN 1 ELSE 2]
WhoCouple == [d \in Couple |-> WhoFamily[d]]
WhoHousehold == [d \in Household |-> IF d = "3" THEN 3 ELSE WhoFamily[d]]

Event(kind, subject, seq, actor, actor_seq, author, names) ==
    [kind |-> kind, subject |-> subject, seq |-> seq, actor |-> actor,
     actor_seq |-> actor_seq, author |-> author, names |-> names, write |-> 0]

CreatedByOne == {Event("Created", 1, 1, 1, 0, "1", {}), Event("Devices", 1, 1, 1, 0, "1", {"1"})}

WithTwo == CreatedByOne \cup {Event("Joined", 2, 1, 1, 1, "1", {"2"})}

PairOfMembers == WithTwo \cup {Event("Devices", 2, 1, 2, 0, "2b", {"2", "2b"})}

PairOfOwners == PairOfMembers \cup {Event("Promoted", 2, 2, 1, 1, "1", {})}

\* Device 3 is away: it acts and meets nobody.
OwnersAndMember == PairOfOwners \cup {Event("Joined", 3, 1, 1, 1, "1", {"3"})}

Roles == {"Promote", "Demote", "Leave"} \X {1, 2}
Departures == {"Remove", "Leave"} \X {1, 2}

Plain(founding, openers, taken, joiners, max) ==
    [founding |-> founding, openers |-> openers, acts |-> taken, joiners |-> joiners,
     inviters |-> {"1"}, max |-> max, cuts |-> FALSE, late |-> FALSE, faults |-> FALSE]

\* Two owners change roles and leave, a third member standing by.
OwnersAct == Plain(OwnersAndMember, Family, Roles, {}, 3)

\* Members leave, are removed and join again; whatever may fail fails.
FaultyJoin ==
    [Plain(PairOfMembers, Family, Departures, {"2"}, 2)
        EXCEPT !.cuts = TRUE, !.late = TRUE, !.faults = TRUE]

MembershipCases == [owners |-> OwnersAct, join |-> FaultyJoin]

SettleCases == [settle |-> Plain(CreatedByOne, {"1"}, Departures, {"2", "2b"}, 2)]

\* A leave and a promotion of the leaver, then a join.
CrossedCases == [crossed |-> Plain(WithTwo, Couple, {"Leave", "Promote"} \X {1, 2}, {"2"}, 3)]
=============================================================================
